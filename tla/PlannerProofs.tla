---------------------------- MODULE PlannerProofs ----------------------------
(***************************************************************************)
(* Proofs about Planner, for any number of pods and any scenarios: the     *)
(* types; and, where the operator is alone with the cluster and its cache  *)
(* has what it wrote, that IPlan is inductive, and what follows from it.   *)
(***************************************************************************)
EXTENDS PlannerInv, TLAPS

USE Zenon

LEMMA ElementOf ==
  ASSUME NEW T, NEW q \in Seq(T), NEW n \in DOMAIN q
  PROVE  q[n] \in T
BY SMT

\* What PlannerAssumption says of the scenario of a behaviour.
LEMMA ScenarioFacts ==
  ASSUME env \in DOMAIN Scenarios
  PROVE  /\ Now \in Scenario /\ Now.specs # <<>>
         /\ \A n \in DOMAIN Now.specs : /\ Now.specs[n].replicas \in 1..MaxPods
                                        /\ Now.specs[n].rev \in Nat
         /\ Now.maxFaults \in Nat
<1>1. Now \in Scenario /\ Now.specs # <<>>
  BY PlannerAssumption DEF Now
<1>2. /\ Now.specs \in Seq([replicas : 1..MaxPods, rev : Nat])
      /\ Now.maxFaults \in Nat
  BY <1>1 DEF Scenario
<1>3. ASSUME NEW n \in DOMAIN Now.specs
      PROVE  Now.specs[n] \in [replicas : 1..MaxPods, rev : Nat]
  BY <1>2, ElementOf
<1> QED
  BY <1>1, <1>2, <1>3

\* The records of decisions.
LEMMA ActFields ==
  ASSUME NEW k, NEW e, NEW s, NEW r
  PROVE  /\ Act(k, Held(e, s), r) = [kind |-> k, epoch |-> e, size |-> s, rev |-> r]
         /\ wait.kind = "wait" /\ degraded.kind = "degraded" /\ NoAct.kind = "none"
BY DEF Act, Held, wait, degraded, NoAct

\* What scaleUp, drain and converged decide, when they decide to act.
LEMMA ScaleUpActs ==
  ASSUME NEW o, scaleUp(o).kind \in Acting
  PROVE  scaleUp(o) = Act("scale", Held(0, o.S + 1), o.rev)
BY ActFields DEF scaleUp, Acting

LEMMA DrainActs ==
  ASSUME NEW o, drain(o).kind \in Acting
  PROVE  /\ drain(o) = Act("configmap", Held(o.cm.epoch + 1, o.S - 1), 0)
         /\ o.S - 1 \in o.drained /\ disk[o.S - 1].epoch = o.cm.epoch + 1
BY ActFields DEF drain, Acting

LEMMA ConvergedActs ==
  ASSUME NEW o, o.S \in Nat, o.desired \in Nat, converged(o).kind \in Acting
  PROVE  /\ Stable(o)
         /\ \/ ~o.current /\ converged(o) = Act("template", Held(0, o.S), spec.rev)
            \/ o.S < o.desired /\ converged(o) = Act("configmap", Held(o.cm.epoch + 1, o.S + 1), 0)
            \/ o.current /\ o.S > o.desired /\ converged(o) = Act("post", Held(o.cm.epoch + 1, o.S - 1), 0)
<1>1. CASE ~Stable(o)
  <2>1. converged(o) = wait
    BY <1>1 DEF converged
  <2> QED
    BY <2>1, ActFields DEF Acting
<1>2. CASE Stable(o) /\ ~o.current
  <2>1. converged(o) = Act("template", Held(0, o.S), spec.rev)
    BY <1>2 DEF converged
  <2> QED
    BY <2>1, <1>2
<1>3. CASE Stable(o) /\ o.current /\ o.S < o.desired
  <2>1. converged(o) = IF ordinalTaken(o, o.S) THEN wait
                       ELSE Act("configmap", Held(o.cm.epoch + 1, o.S + 1), 0)
    BY <1>3, SMT DEF converged
  <2> QED
    BY <2>1, <1>3, ActFields DEF Acting
<1>4. CASE Stable(o) /\ o.current /\ ~(o.S < o.desired) /\ o.S > o.desired
  <2>1. converged(o) = Act("post", Held(o.cm.epoch + 1, o.S - 1), 0)
    BY <1>4 DEF converged
  <2> QED
    BY <2>1, <1>4
<1>5. CASE Stable(o) /\ o.current /\ ~(o.S < o.desired) /\ ~(o.S > o.desired)
  <2>1. converged(o) = NoAct
    BY <1>5 DEF converged
  <2> QED
    BY <2>1, ActFields DEF Acting
<1> QED
  BY <1>1, <1>2, <1>3, <1>4, <1>5

\* What classify decides, when it decides to act.
ClassifyTo(o, a) ==
  \/ o.cm.size = o.S + 1 /\ a = Act("scale", Held(0, o.S + 1), o.rev)
  \/ /\ o.cm.size = o.S /\ allIn(o, {Held(o.cm.epoch, o.S)}) /\ Stable(o)
     /\ \/ ~o.current /\ a = Act("template", Held(0, o.S), spec.rev)
        \/ o.S < o.desired /\ a = Act("configmap", Held(o.cm.epoch + 1, o.S + 1), 0)
        \/ o.current /\ o.S > o.desired /\ a = Act("post", Held(o.cm.epoch + 1, o.S - 1), 0)
  \/ /\ o.cm.size = o.S /\ a = Act("configmap", Held(o.cm.epoch + 1, o.S - 1), 0)
     /\ o.S - 1 \in o.drained /\ disk[o.S - 1].epoch = o.cm.epoch + 1
  \/ o.cm.size = o.S - 1 /\ a = Act("scale", Held(0, o.S - 1), o.rev)

LEMMA ClassifyActs ==
  ASSUME NEW o, o.S \in Nat, o.desired \in Nat, o.cm \in Membership, classify(o).kind \in Acting
  PROVE  ClassifyTo(o, classify(o))
<1> DEFINE base == {Held(o.cm.epoch, o.S)}
           next == {Held(o.cm.epoch + 1, o.S - 1)}
           last == Before(o.cm, o.S - 1)
<1>0. o.cm.epoch \in Nat /\ o.cm.size \in Nat
  BY PlannerAssumption, SMT DEF Membership
<1>1. CASE o.cm.size = o.S + 1 /\ allIn(o, {o.cm} \cup Before(o.cm, o.S))
  <2>1. classify(o) = scaleUp(o)
    BY <1>0, <1>1, SMT DEF classify
  <2> QED
    BY <1>1, <2>1, ScaleUpActs DEF ClassifyTo
<1>2. CASE o.cm.size = o.S /\ allIn(o, base)
  <2>1. classify(o) = converged(o)
    BY <1>0, <1>2, SMT DEF classify
  <2> QED
    BY <1>2, <2>1, ConvergedActs DEF ClassifyTo
<1>3. CASE o.cm.size = o.S /\ ~allIn(o, base) /\ allIn(o, base \cup last)
  <2>1. ~allIn(o, base \cup next)
    <3>1. ASSUME NEW v \in last, v \in next PROVE FALSE
      BY <1>0, <3>1, SMT DEF Before, Held
    <3> QED
      BY <1>3, <3>1 DEF allIn
  <2>2. classify(o) = wait
    BY <1>0, <1>3, <2>1, SMT DEF classify
  <2> QED
    BY <2>2, ActFields DEF Acting
<1>4. CASE o.cm.size = o.S /\ ~allIn(o, base) /\ ~allIn(o, base \cup last) /\ allIn(o, base \cup next)
  <2>1. classify(o) = drain(o)
    BY <1>0, <1>4, SMT DEF classify
  <2> QED
    BY <1>4, <2>1, DrainActs DEF ClassifyTo
<1>5. CASE o.cm.size = o.S - 1 /\ allIn(o, {o.cm})
  <2>1. classify(o) = Act("scale", Held(0, o.S - 1), o.rev)
    BY <1>0, <1>5, SMT DEF classify
  <2> QED
    BY <1>5, <2>1 DEF ClassifyTo
<1>6. CASE /\ ~(o.cm.size = o.S + 1 /\ allIn(o, {o.cm} \cup Before(o.cm, o.S)))
           /\ ~(o.cm.size = o.S /\ allIn(o, base))
           /\ ~(o.cm.size = o.S /\ ~allIn(o, base) /\ allIn(o, base \cup last))
           /\ ~(o.cm.size = o.S /\ ~allIn(o, base) /\ allIn(o, base \cup next))
           /\ ~(o.cm.size = o.S - 1 /\ allIn(o, {o.cm}))
  <2>1. classify(o) = degraded
    BY <1>6 DEF classify
  <2> QED
    BY <2>1, ActFields DEF Acting
<1> QED
  BY <1>1, <1>2, <1>3, <1>4, <1>5, <1>6

\* What Plan decides, when it decides to act.
LEMMA PlanActs ==
  ASSUME NEW o, o.S \in Nat, o.desired \in Nat, o.cm \in Membership, Plan(o).kind \in Acting
  PROVE  \/ /\ o.cm = NoMembership /\ o.S = 0
            /\ Plan(o) = Act("configmap", Held(0, o.desired), 0)
         \/ /\ o.cm # NoMembership /\ o.S = 0
            /\ Plan(o) = Act("scale", Held(0, o.cm.size), spec.rev)
         \/ o.S > 0 /\ ClassifyTo(o, Plan(o))
<1>1. CASE o.cm = NoMembership /\ o.S = 0
  BY <1>1, SMT DEF Plan
<1>2. CASE o.cm = NoMembership /\ o.S > 0
  <2>1. Plan(o) = degraded
    BY <1>2, SMT DEF Plan
  <2> QED
    BY <2>1, ActFields DEF Acting
<1>3. CASE o.cm # NoMembership /\ o.S = 0
  BY <1>3 DEF Plan
<1>4. CASE o.cm # NoMembership /\ o.S > 0
  <2>1. Plan(o) = IF ~readViews(o) \/ unavailable(o) THEN degraded ELSE classify(o)
    BY <1>4, SMT DEF Plan
  <2>2. Plan(o) = classify(o)
    BY <2>1, ActFields DEF Acting
  <2> QED
    BY <1>4, <2>2, ClassifyActs
<1> QED
  BY <1>1, <1>2, <1>3, <1>4, SMT

\* The fields of an observation.
LEMMA ObserveFacts ==
  ASSUME PlannerTypes, NEW a, NEW r, NEW d, NEW g, NEW o, o = Observe(a, r, d, g)
  PROVE  /\ o.S = seen.sts.replicas /\ o.S \in 0..MaxPods /\ o.S \in Nat
         /\ o.desired \in 1..MaxPods /\ o.desired \in Nat
         /\ o.cm = seen.cm /\ o.cm \in Membership
         /\ o.rev = seen.sts.rev /\ o.rev \in Nat /\ spec.rev \in Nat
         /\ o.exists = {i \in Ordinal : pod[i] # "none"} /\ o.pvcs = pvc /\ o.answers = a
         /\ o.healthy = healthy(r) /\ o.drained = drains(a, d) /\ o.overdue = g
         /\ o.desired = spec.replicas /\ (o.current <=> seen.sts.rev = spec.rev)
<1>1. spec.replicas \in 1..MaxPods /\ spec.rev \in Nat
  BY ScenarioFacts DEF spec, PlannerTypes
<1>2. seen.cm \in Membership /\ seen.sts.replicas \in 0..MaxPods /\ seen.sts.rev \in Nat
  BY DEF PlannerTypes, StatefulSet
<1> QED
  <2>1. o.desired = spec.replicas /\ (o.current <=> seen.sts.rev = spec.rev)
    BY DEF Observe, templateCurrent
  <2> QED
    BY <1>1, <1>2, <2>1, PlannerAssumption, SMT DEF Observe

\* What Plan decides on is an action with a size that there may be.
LEMMA DecisionType ==
  ASSUME PlannerTypes, NEW a, NEW r, NEW d, NEW g, NEW o, o = Observe(a, r, d, g),
         Plan(o).kind \in Acting
  PROVE  Plan(o) \in Action /\ (Plan(o).kind = "post" => Plan(o).size > 0)
<1>1. /\ o.S \in 0..MaxPods /\ o.S \in Nat /\ o.desired \in 1..MaxPods /\ o.desired \in Nat
      /\ o.cm \in Membership /\ o.rev \in Nat /\ spec.rev \in Nat
  BY ObserveFacts, ZenonT(40)
<1>2. /\ MaxPods \in Nat \ {0} /\ o.cm.epoch \in Nat /\ o.cm.size \in 0..MaxPods
      /\ o.cm.epoch + 1 \in Nat
  BY <1>1, PlannerAssumption, SMT DEF Membership
<1>3. ASSUME ClassifyTo(o, Plan(o)), o.S > 0
      PROVE  Plan(o) \in Action /\ (Plan(o).kind = "post" => Plan(o).size > 0)
  <2>1. CASE o.cm.size = o.S + 1 /\ Plan(o) = Act("scale", Held(0, o.S + 1), o.rev)
    <3>1. o.S + 1 \in 0..MaxPods
      BY <1>1, <1>2, <2>1
    <3> QED
      BY <1>1, <2>1, <3>1, SMT DEF Act, Held, Action
  <2>2. CASE Plan(o) = Act("template", Held(0, o.S), spec.rev)
    BY <1>1, <2>2, SMT DEF Act, Held, Action
  <2>3. CASE o.S < o.desired /\ Plan(o) = Act("configmap", Held(o.cm.epoch + 1, o.S + 1), 0)
    <3>1. o.S + 1 \in 0..MaxPods
      BY <1>1, <1>2, <2>3, SMT
    <3> QED
      BY <1>2, <2>3, <3>1, SMT DEF Act, Held, Action
  <2>4. CASE o.S > o.desired /\ Plan(o) = Act("post", Held(o.cm.epoch + 1, o.S - 1), 0)
    <3>1. o.S - 1 \in 0..MaxPods /\ o.S - 1 > 0
      BY <1>1, <1>2, <2>4, SMT
    <3> QED
      BY <1>2, <2>4, <3>1, SMT DEF Act, Held, Action
  <2>5. CASE Plan(o) = Act("configmap", Held(o.cm.epoch + 1, o.S - 1), 0)
    <3>1. o.S - 1 \in 0..MaxPods
      BY <1>1, <1>2, <1>3, SMT
    <3> QED
      BY <1>2, <2>5, <3>1, SMT DEF Act, Held, Action
  <2>6. CASE Plan(o) = Act("scale", Held(0, o.S - 1), o.rev)
    <3>1. o.S - 1 \in 0..MaxPods
      BY <1>1, <1>2, <1>3, SMT
    <3> QED
      BY <1>1, <2>6, <3>1, SMT DEF Act, Held, Action
  <2> QED
    BY <1>3, <2>1, <2>2, <2>3, <2>4, <2>5, <2>6 DEF ClassifyTo
<1>4. CASE Plan(o) = Act("configmap", Held(0, o.desired), 0)
  <2>1. o.desired \in 0..MaxPods
    BY <1>1, <1>2, SMT
  <2> QED
    BY <1>4, <2>1, SMT DEF Act, Held, Action
<1>5. CASE Plan(o) = Act("scale", Held(0, o.cm.size), spec.rev)
  BY <1>1, <1>2, <1>5, SMT DEF Act, Held, Action
<1> QED
  BY <1>1, <1>3, <1>4, <1>5, PlanActs

-----------------------------------------------------------------------------
\* The facts of PlannerTypes that arithmetic needs.
LEMMA TypeFacts ==
  ASSUME PlannerTypes
  PROVE  /\ MaxPods \in Nat \ {0} /\ Ordinal = 0..MaxPods - 1
         /\ cm.epoch \in Nat /\ cm.size \in 0..MaxPods
         /\ lastCM.epoch \in Nat /\ lastCM.size \in 0..MaxPods
         /\ sts.replicas \in 0..MaxPods /\ sts.rev \in Nat
         /\ todo.epoch \in Nat /\ todo.size \in 0..MaxPods /\ todo.rev \in Nat
         /\ \A i \in Ordinal : /\ disk[i].epoch \in Nat /\ disk[i].size \in 0..MaxPods
                                /\ disk[i].handed \in Nat
BY PlannerAssumption DEF PlannerTypes, Membership, StatefulSet, Volume, Action, Ordinal

LEMMA InitTypes == Init => PlannerTypes
<1> SUFFICES ASSUME Init PROVE PlannerTypes
  OBVIOUS
<1>1. env \in DOMAIN Scenarios /\ at \in DOMAIN Now.specs /\ faults \in 0..Now.maxFaults
  <2>1. env \in DOMAIN Scenarios /\ at = 1 /\ faults = 0
    BY DEF Init
  <2>2. Now.specs # <<>> /\ Now.maxFaults \in Nat /\ Now \in Scenario
    BY <2>1, ScenarioFacts
  <2>3. Now.specs \in Seq([replicas : 1..MaxPods, rev : Nat])
    BY <2>2 DEF Scenario
  <2>4. 1 \in DOMAIN Now.specs
    BY <2>2, <2>3, SMT
  <2> QED
    BY <2>1, <2>2, <2>4, SMT
<1>2. NoMembership \in Membership /\ NoAct \in Action /\ NoAct.kind = "none" /\ Empty \in Volume
  BY PlannerAssumption, SMT DEF NoMembership, Held, Membership, NoAct, Act, Action, Empty, Volume
<1>3. sts \in StatefulSet
  BY PlannerAssumption, SMT DEF Init, StatefulSet
<1>4. ASSUME NEW i \in Ordinal PROVE NodeTypes(i)
  BY <1>4, SMT DEF Init, NodeTypes, Empty
<1> QED
  BY <1>1, <1>2, <1>3, <1>4 DEF Init, PlannerTypes

\* A membership that pod 0 is given keeps the types of the volumes.
LEMMA PostTypes ==
  ASSUME PlannerTypes, NEW m \in Action, m.size > 0, handleSetMembership(m)
  PROVE  disk' \in [Ordinal -> Volume] /\ \A i \in Ordinal : NodeTypes(i)'
<1>0. 0 \in Ordinal /\ m.epoch \in Nat /\ m.size \in 0..MaxPods
  BY PlannerAssumption, SMT DEF Ordinal, Action
<1>1. disk \in [Ordinal -> Volume] /\ pod[0] = "up"
  BY DEF handleSetMembership, PlannerTypes, Up
<1>2. /\ disk[0].epoch \in Nat /\ disk[0].handed \in Nat /\ disk[0].handed <= disk[0].epoch
  BY <1>0, TypeFacts DEF PlannerTypes, NodeTypes
<1>3. disk' \in [Ordinal -> Volume] /\ \A i \in Ordinal : i # 0 => disk'[i] = disk[i]
  BY <1>0, <1>1 DEF handleSetMembership, Volume
<1>4. \/ disk'[0] = disk[0]
      \/ disk'[0].size > 0 /\ disk'[0].handed <= disk'[0].epoch
  BY <1>0, <1>1, <1>2, SMT DEF handleSetMembership, Volume
<1>5. 0 \in pvc /\ pod' = pod /\ pvc' = pvc
  BY <1>0, <1>1 DEF handleSetMembership, PlannerTypes, NodeTypes
<1>6. ASSUME NEW i \in Ordinal PROVE NodeTypes(i)'
  <2>1. CASE disk'[i] = disk[i]
    BY <1>5, <2>1 DEF PlannerTypes, NodeTypes
  <2>2. CASE i = 0 /\ disk'[0].size > 0 /\ disk'[0].handed <= disk'[0].epoch
    BY <1>5, <2>2, SMT DEF NodeTypes
  <2> QED
    BY <1>3, <1>4, <2>1, <2>2
<1> QED
  BY <1>3, <1>6

\* The operator, the user and the cache keep the types.
LEMMA OperatorTypes ==
  ASSUME PlannerTypes, UNCHANGED env,
         \/ \E a \in SUBSET Up : \E r \in SUBSET a, d, g \in BOOLEAN : Reconcile(Observe(a, r, d, g))
         \/ Execute \/ OperatorFails \/ PostTimesOut \/ PostLands
         \/ CacheSync \/ SpecChange \/ ScaleByHand
  PROVE  PlannerTypes'
<1> USE DEF podVars, operatorVars
<1>0. /\ MaxPods \in Nat \ {0} /\ 0 \in Ordinal /\ Now' = Now /\ Now.maxFaults \in Nat
      /\ NoAct \in Action /\ NoAct.kind = "none"
  BY PlannerAssumption, ScenarioFacts, SMT DEF PlannerTypes, Now, Ordinal, NoAct, Act, NoMembership, Held, Action
<1>1. ASSUME NEW a, NEW r, NEW d, NEW g, Reconcile(Observe(a, r, d, g)) PROVE PlannerTypes'
  <2>1. todo' \in Action /\ (todo'.kind = "post" => todo'.size > 0)
    BY <1>1, DecisionType DEF Reconcile
  <2> QED
    BY <1>0, <1>1, <2>1 DEF Reconcile, PlannerTypes, NodeTypes
<1>2. CASE Execute /\ WriteConfigMap
  <2>1. cm' \in Membership /\ seen' \in [cm : Membership, sts : StatefulSet]
    <3>1. cm' \in Membership
      BY <1>2, TypeFacts DEF WriteConfigMap, Held, Membership
    <3> QED
      BY <1>2, <3>1 DEF WriteConfigMap, Cached, PlannerTypes
  <2> QED
    BY <1>0, <1>2, <2>1 DEF Execute, WriteConfigMap, PlannerTypes, NodeTypes
<1>3. CASE Execute /\ ScaleStatefulSet
  <2>1. sts' \in StatefulSet /\ seen' \in [cm : Membership, sts : StatefulSet]
    <3>1. sts' \in StatefulSet
      BY <1>3, TypeFacts DEF ScaleStatefulSet, StatefulSet
    <3> QED
      BY <1>3, <3>1 DEF ScaleStatefulSet, Cached, PlannerTypes
  <2> QED
    BY <1>0, <1>3, <2>1 DEF Execute, ScaleStatefulSet, PlannerTypes, NodeTypes
<1>4. CASE Execute /\ PostMembership
  <2>1. PICK m : m = todo
    OBVIOUS
  <2>2. m \in Action /\ m.size > 0 /\ handleSetMembership(m)
    BY <1>4, <2>1 DEF PostMembership, PlannerTypes
  <2>3. disk' \in [Ordinal -> Volume] /\ \A i \in Ordinal : NodeTypes(i)'
    BY <2>2, PostTypes
  <2> QED
    BY <1>0, <1>4, <2>2, <2>3 DEF Execute, handleSetMembership, PlannerTypes
<1>9. CASE PostTimesOut
  <2>1. late' \subseteq {m \in Action : m.size > 0}
    BY <1>9 DEF PostTimesOut, PlannerTypes
  <2>2. faults' \in 0..Now.maxFaults
    <3>1. faults \in 0..Now.maxFaults /\ faults < Now.maxFaults /\ faults' = faults + 1
      BY <1>9 DEF PostTimesOut, PlannerTypes
    <3> QED
      BY <1>0, <3>1, SMT
  <2> QED
    BY <1>0, <1>9, <2>1, <2>2 DEF PostTimesOut, PlannerTypes, NodeTypes
<1>10. CASE PostLands
  <2>1. PICK m \in late : /\ handleSetMembership(m) /\ late' = late \ {m}
                         /\ UNCHANGED <<at, todo, faults>>
    BY <1>10 DEF PostLands
  <2>2. m \in Action /\ m.size > 0
    BY DEF PlannerTypes
  <2>3. disk' \in [Ordinal -> Volume] /\ \A i \in Ordinal : NodeTypes(i)'
    BY <2>1, <2>2, PostTypes
  <2> QED
    BY <1>0, <2>1, <2>3 DEF handleSetMembership, PlannerTypes
<1>5. CASE OperatorFails
  BY <1>0, <1>5, SMT DEF OperatorFails, PlannerTypes, NodeTypes
<1>6. CASE CacheSync
  <2>1. seen' \in [cm : Membership, sts : StatefulSet]
    BY <1>6 DEF CacheSync, PlannerTypes
  <2> QED
    BY <1>0, <1>6, <2>1 DEF CacheSync, PlannerTypes, NodeTypes
<1>7. CASE SpecChange
  <2>1. at' \in DOMAIN Now.specs
    <3>1. Now.specs \in Seq([replicas : 1..MaxPods, rev : Nat])
      BY ScenarioFacts DEF PlannerTypes, Scenario
    <3> QED
      BY <1>7, <3>1, SMT DEF SpecChange, PlannerTypes
  <2> QED
    BY <1>0, <1>7, <2>1 DEF SpecChange, PlannerTypes, NodeTypes
<1>8. CASE ScaleByHand
  <2>1. sts' \in StatefulSet
    <3>1. sts \in StatefulSet /\ sts.replicas \in 0..MaxPods /\ sts.rev \in Nat
      BY TypeFacts DEF PlannerTypes
    <3>2. CASE sts.replicas \in 1..MaxPods - 1 /\ sts' = [sts EXCEPT !.replicas = @ + 1]
      BY <1>0, <3>1, <3>2, SMT DEF StatefulSet
    <3>3. CASE sts.replicas > 1 /\ sts' = [sts EXCEPT !.replicas = @ - 1]
      BY <1>0, <3>1, <3>3, SMT DEF StatefulSet
    <3> QED
      BY <1>8, <3>2, <3>3 DEF ScaleByHand
  <2>2. seen' \in [cm : Membership, sts : StatefulSet]
    BY <1>8, <2>1 DEF ScaleByHand, Cached, PlannerTypes
  <2>3. faults' \in 0..Now.maxFaults
    <3>1. faults \in 0..Now.maxFaults /\ faults < Now.maxFaults /\ faults' = faults + 1
      BY <1>8 DEF ScaleByHand, PlannerTypes
    <3> QED
      BY <1>0, <3>1, SMT
  <2> QED
    BY <1>0, <1>8, <2>1, <2>2, <2>3 DEF ScaleByHand, PlannerTypes, NodeTypes
<1> QED
  BY <1>1, <1>2, <1>3, <1>4, <1>5, <1>6, <1>7, <1>8, <1>9, <1>10 DEF Execute

\* The fields of an empty volume.
LEMMA EmptyFacts == Empty \in Volume /\ Empty.size = 0 /\ Empty.epoch = 0 /\ Empty.handed = 0
BY PlannerAssumption, SMT DEF Empty, Volume

\* A node whose volume changes keeps its types if it is still a volume's.
LEMMA VolumeTypes ==
  ASSUME PlannerTypes, NEW j \in Ordinal, NEW v \in Volume,
         disk' = [disk EXCEPT ![j] = v], UNCHANGED pvc,
         \A i \in Ordinal : i # j => pod'[i] = pod[i],
         j \in pvc, v.size > 0, v.handed <= v.epoch
  PROVE  disk' \in [Ordinal -> Volume] /\ \A i \in Ordinal : NodeTypes(i)'
<1>1. disk' \in [Ordinal -> Volume] /\ disk'[j] = v /\ \A i \in Ordinal : i # j => disk'[i] = disk[i]
  BY DEF PlannerTypes
<1>2. NodeTypes(j)'
  BY <1>1, SMT DEF NodeTypes, Volume
<1>3. ASSUME NEW i \in Ordinal, i # j PROVE NodeTypes(i)'
  BY <1>1, <1>3 DEF NodeTypes, PlannerTypes
<1> QED
  BY <1>1, <1>2, <1>3

\* A step of a pod that leaves its volume alone.
LEMMA PodTypes ==
  ASSUME PlannerTypes, NEW j \in Ordinal, NEW x \in {"none", "down", "up"},
         pod' = [pod EXCEPT ![j] = x], UNCHANGED disk,
         pvc' = pvc \cup {j} \/ (pvc' = pvc /\ (x = "none" \/ j \in pvc)),
         x = "up" => disk[j].size > 0
  PROVE  /\ pod' \in [Ordinal -> {"none", "down", "up"}] /\ pvc' \subseteq Ordinal
         /\ \A i \in Ordinal : NodeTypes(i)'
<1>1. pod' \in [Ordinal -> {"none", "down", "up"}] /\ pvc' \subseteq Ordinal
  BY DEF PlannerTypes
<1>2. ASSUME NEW i \in Ordinal PROVE NodeTypes(i)'
  <2>1. NodeTypes(i) /\ (i # j => pod'[i] = pod[i]) /\ pod'[j] = x
    BY DEF PlannerTypes
  <2>2. CASE i # j
    BY <2>1, <2>2 DEF NodeTypes
  <2>3. CASE i = j
    BY <2>1, <2>3 DEF NodeTypes
  <2> QED
    BY <2>2, <2>3
<1> QED
  BY <1>1, <1>2

LEMMA PodStepTypes ==
  ASSUME PlannerTypes, UNCHANGED env, NEW i \in Ordinal, PodStep(i) \/ PodCrash(i)
  PROVE  PlannerTypes'
<1> USE DEF operatorVars
<1>0. /\ MaxPods \in Nat \ {0} /\ Now' = Now /\ Now.maxFaults \in Nat
      /\ disk[i] \in Volume /\ disk[i].epoch \in Nat /\ disk[i].size \in 0..MaxPods
      /\ disk[i].handed \in Nat /\ disk[i].handed <= disk[i].epoch
      /\ disk[i].size = 0 => disk[i] = Empty
      /\ pod[i] # "none" => i \in pvc
      /\ pod[i] = "up" => disk[i].size > 0
      /\ sts.rev \in Nat /\ rev \in [Ordinal -> Nat] /\ pod \in [Ordinal -> {"none", "down", "up"}]
      /\ pvc \subseteq Ordinal /\ disk \in [Ordinal -> Volume]
  BY TypeFacts, ScenarioFacts DEF PlannerTypes, NodeTypes, Now
<1>h. late' \subseteq {m \in Action : m.size > 0}
  BY DEF PodStep, PodCrash, HandlersEnd, PlannerTypes
<1>r. [rev EXCEPT ![i] = sts.rev] \in [Ordinal -> Nat]
  BY <1>0
\* The part of the types that no step of a pod changes.
<1> DEFINE Rest == /\ UNCHANGED <<at, cm, lastCM, sts, seen, todo>>
                   /\ faults' \in 0..Now.maxFaults
                   /\ rev' \in [Ordinal -> Nat]
<1>q. ASSUME Rest, pod' \in [Ordinal -> {"none", "down", "up"}], pvc' \subseteq Ordinal,
             disk' \in [Ordinal -> Volume], \A j \in Ordinal : NodeTypes(j)'
      PROVE  PlannerTypes'
  BY <1>0, <1>h, <1>q DEF PlannerTypes
<1>1. CASE PodStep(i) /\ PodCreate(i)
  <2>1. Rest
    BY <1>0, <1>1, <1>r DEF PodStep, PodCreate, PlannerTypes
  <2>2. /\ pod' \in [Ordinal -> {"none", "down", "up"}] /\ pvc' \subseteq Ordinal
        /\ \A j \in Ordinal : NodeTypes(j)'
    BY <1>1, PodTypes DEF PodCreate
  <2> QED
    BY <1>0, <1>1, <1>q, <2>1, <2>2 DEF PodCreate
<1>2. CASE PodStep(i) /\ PodDelete(i)
  <2>1. Rest
    BY <1>0, <1>2 DEF PodStep, PodDelete, PlannerTypes
  <2>2. /\ pod' \in [Ordinal -> {"none", "down", "up"}] /\ pvc' \subseteq Ordinal
        /\ \A j \in Ordinal : NodeTypes(j)'
    BY <1>2, PodTypes DEF PodDelete
  <2> QED
    BY <1>0, <1>2, <1>q, <2>1, <2>2 DEF PodDelete
<1>3. CASE PodStep(i) /\ VolumeGone(i)
  <2>1. Rest
    BY <1>0, <1>3 DEF PodStep, VolumeGone, PlannerTypes
  <2>2. /\ disk'[i] = Empty /\ disk' \in [Ordinal -> Volume]
        /\ \A j \in Ordinal : j # i => disk'[j] = disk[j]
        /\ pvc' = pvc \ {i} /\ pod' = pod /\ pod[i] = "none"
    BY <1>0, <1>3, EmptyFacts DEF VolumeGone
  <2>3. ASSUME NEW j \in Ordinal PROVE NodeTypes(j)'
    <3>1. CASE j = i
      BY <2>2, <3>1, EmptyFacts, SMT DEF NodeTypes
    <3>2. CASE j # i
      BY <2>2, <3>2 DEF NodeTypes, PlannerTypes
    <3> QED
      BY <3>1, <3>2
  <2> QED
    BY <1>0, <1>q, <2>1, <2>2, <2>3
<1>4. CASE PodStep(i) /\ RollPod(i)
  <2>1. Rest
    BY <1>0, <1>4, <1>r DEF PodStep, RollPod, PlannerTypes
  <2>0. i \in pvc
    <3>1. i \in 0..sts.replicas - 1
      BY <1>4, TypeFacts, SMT DEF RollPod
    <3> QED
      BY <1>0, <1>4, <3>1 DEF RollPod
  <2>2. /\ pod' \in [Ordinal -> {"none", "down", "up"}] /\ pvc' \subseteq Ordinal
        /\ \A j \in Ordinal : NodeTypes(j)'
    BY <1>4, <2>0, PodTypes DEF RollPod
  <2> QED
    BY <1>0, <1>4, <1>q, <2>1, <2>2 DEF RollPod
<1>5. CASE PodStep(i) /\ PodStart(i)
  <2>1. Rest /\ pvc' = pvc /\ i \in pvc /\ pod' = [pod EXCEPT ![i] = "up"]
    BY <1>0, <1>5 DEF PodStep, PodStart, PlannerTypes
  <2>2. PICK c \in {cm, lastCM} : Listed(i, c) /\ applyConfiguredMembership(i, c)
    BY <1>5 DEF PodStart
  <2>3. c.epoch \in Nat /\ c.size \in 0..MaxPods /\ c.size > 0
    BY <2>2, TypeFacts, SMT DEF Listed
  <2>4. CASE /\ disk[i].size = 0 \/ c.epoch > disk[i].epoch
             /\ disk' = [disk EXCEPT ![i].epoch = c.epoch, ![i].size = c.size]
    <3> DEFINE v == [disk[i] EXCEPT !.epoch = c.epoch, !.size = c.size]
    <3>1. disk' = [disk EXCEPT ![i] = v]
      BY <1>0, <2>4 DEF Volume
    <3>2. v \in Volume /\ v.size > 0 /\ v.handed <= v.epoch
      <4>1. v \in Volume /\ v.epoch = c.epoch /\ v.size = c.size /\ v.handed = disk[i].handed
        BY <1>0, <2>3 DEF Volume
      <4>2. disk[i].handed <= c.epoch
        BY <1>0, <2>3, <2>4, EmptyFacts, SMT
      <4> QED
        BY <2>3, <4>1, <4>2
    <3>3. \A j \in Ordinal : j # i => pod'[j] = pod[j]
      BY <1>0, <2>1
    <3>4. disk' \in [Ordinal -> Volume] /\ \A j \in Ordinal : NodeTypes(j)'
      <4> HIDE DEF v
      <4> QED BY <2>1, <3>1, <3>2, <3>3, VolumeTypes
    <3> QED
      BY <1>0, <1>q, <2>1, <3>4
  <2>5. CASE disk[i].size # 0 /\ UNCHANGED disk
    <3>1. /\ pod' \in [Ordinal -> {"none", "down", "up"}] /\ pvc' \subseteq Ordinal
          /\ \A j \in Ordinal : NodeTypes(j)'
      <4>1. disk[i].size > 0
        BY <1>0, <2>5, SMT
      <4> QED
        BY <2>1, <2>5, <4>1, PodTypes
    <3> QED
      BY <1>0, <1>q, <2>1, <2>5, <3>1
  <2> QED
    BY <2>2, <2>4, <2>5 DEF applyConfiguredMembership
<1>6. CASE PodStep(i) /\ HandoffDone(i)
  <2>1. Rest /\ pvc' = pvc /\ pod' = pod /\ i \in pvc /\ disk[i].size > 0
    BY <1>0, <1>6 DEF PodStep, HandoffDone, PlannerTypes, Up
  <2> DEFINE v == [disk[i] EXCEPT !.handed = disk[i].epoch]
  <2>2. disk' = [disk EXCEPT ![i] = v]
    BY <1>0, <1>6 DEF HandoffDone, Volume
  <2>3. v \in Volume /\ v.size > 0 /\ v.handed <= v.epoch
    BY <1>0, <2>1, SMT DEF Volume
  <2>4. disk' \in [Ordinal -> Volume] /\ \A j \in Ordinal : NodeTypes(j)'
    <3> HIDE DEF v
    <3> QED BY <2>1, <2>2, <2>3, VolumeTypes
  <2> QED
    BY <1>0, <1>q, <2>1, <2>4
<1>7. CASE PodStep(i) /\ \E j \in Ordinal : Spread(i, j)
  <2>1. PICK j \in Ordinal : Spread(i, j)
    BY <1>7
  <2>2. Rest /\ pvc' = pvc /\ pod' = pod /\ pod[i] = "up" /\ pod[j] = "up" /\ disk[i].epoch > disk[j].epoch
    BY <1>0, <1>7, <2>1 DEF PodStep, Spread, PlannerTypes, Up
  <2>3. j \in pvc /\ disk[j] \in Volume /\ disk[j].handed <= disk[j].epoch
        /\ disk[j].epoch \in Nat /\ disk[j].handed \in Nat
    BY <2>2, TypeFacts DEF PlannerTypes, NodeTypes
  <2> DEFINE v == [disk[j] EXCEPT !.epoch = disk[i].epoch, !.size = disk[i].size]
  <2>4. disk' = [disk EXCEPT ![j] = v]
    BY <1>0, <2>1 DEF Spread, Volume
  <2>5. v \in Volume /\ v.size > 0 /\ v.handed <= v.epoch
    <3>1. v \in Volume /\ v.epoch = disk[i].epoch /\ v.size = disk[i].size /\ v.handed = disk[j].handed
      BY <1>0, <2>3 DEF Volume
    <3>2. disk[j].handed <= disk[i].epoch
      BY <1>0, <2>2, <2>3, SMT
    <3> QED
      BY <1>0, <2>2, <3>1, <3>2
  <2>6. disk' \in [Ordinal -> Volume] /\ \A k \in Ordinal : NodeTypes(k)'
    <3> HIDE DEF v
    <3> QED BY <2>2, <2>3, <2>4, <2>5, VolumeTypes
  <2> QED
    BY <1>0, <1>q, <2>2, <2>6
<1>8. CASE PodCrash(i)
  <2>1. faults \in 0..Now.maxFaults /\ faults < Now.maxFaults /\ faults' = faults + 1
    BY <1>8 DEF PodCrash, PlannerTypes
  <2>2. Rest
    BY <1>0, <1>8, <2>1, SMT DEF PodCrash
  <2>3. /\ pod' \in [Ordinal -> {"none", "down", "up"}] /\ pvc' \subseteq Ordinal
        /\ \A j \in Ordinal : NodeTypes(j)'
    BY <1>0, <1>8, PodTypes DEF PodCrash, Up
  <2> QED
    BY <1>0, <1>8, <1>q, <2>2, <2>3 DEF PodCrash
<1> QED
  BY <1>1, <1>2, <1>3, <1>4, <1>5, <1>6, <1>7, <1>8 DEF PodStep

LEMMA NextTypes ==
  ASSUME PlannerTypes, [Next]_vars
  PROVE  PlannerTypes'
<1>1. CASE UNCHANGED vars
  BY <1>1 DEF vars, operatorVars, podVars, PlannerTypes, NodeTypes, Now
<1>2. CASE Next
  BY <1>2, OperatorTypes, PodStepTypes DEF Next
<1> QED
  BY <1>1, <1>2

\* The types hold in every scenario, whatever is scaled by hand and however
\* the cache lags; TypeOK is the part of them that could go wrong.
THEOREM TypeCorrect == Spec => []TypeOK
<1>1. Spec => []PlannerTypes
  BY InitTypes, NextTypes, PTL DEF Spec
<1>2. PlannerTypes => TypeOK
  BY DEF PlannerTypes, TypeOK, NodeTypes, StatefulSet, Membership
<1> QED
  BY <1>1, <1>2, PTL

-----------------------------------------------------------------------------
(***************************************************************************)
(* What a step of a pod may do to the volumes: nothing but add one of a    *)
(* replica; delete one that is no replica's; finish a handoff; replace a   *)
(* membership by a newer one, or an empty one, from the ConfigMap or from  *)
(* another node.                                                           *)
(***************************************************************************)
Others(k) == \A j \in Ordinal : j # k => disk'[j] = disk[j]

VolumesKept ==
  disk' = disk /\ (pvc' = pvc \/ \E k \in Replicas : k \in Ordinal /\ pvc' = pvc \cup {k})

VolumeDeleted(k) ==
  k \in pvc \ Replicas /\ pvc' = pvc \ {k} /\ disk'[k] = Empty /\ Others(k)

HandedOff(k) ==
  /\ k \in pvc /\ pvc' = pvc /\ Others(k) /\ disk[k].size > 0
  /\ disk'[k].epoch = disk[k].epoch /\ disk'[k].size = disk[k].size
  /\ disk'[k].handed = disk[k].epoch

Takes(k, e, n) ==
  /\ k \in pvc /\ pvc' = pvc /\ Others(k)
  /\ disk'[k].epoch = e /\ disk'[k].size = n /\ disk'[k].handed = disk[k].handed

TakesCM(k) ==
  /\ Takes(k, cm.epoch, cm.size) /\ k < cm.size
  /\ disk[k].size = 0 \/ cm.epoch > disk[k].epoch

TakesLast(k) ==
  /\ Takes(k, lastCM.epoch, lastCM.size) /\ lastCM.size > 0
  /\ disk[k].size > 0 /\ lastCM.epoch > disk[k].epoch

TakesFrom(k, j) ==
  /\ Takes(k, disk[j].epoch, disk[j].size)
  /\ j \in pvc /\ disk[j].size > 0 /\ disk[k].size > 0 /\ disk[j].epoch > disk[k].epoch

VolumeStep(k) ==
  \/ VolumesKept \/ VolumeDeleted(k) \/ HandedOff(k)
  \/ TakesCM(k) \/ TakesLast(k) \/ \E j \in Ordinal : TakesFrom(k, j)

LEMMA PodEffects ==
  ASSUME PlannerTypes, NEW i \in Ordinal, PodStep(i) \/ PodCrash(i)
  PROVE  \E k \in Ordinal : VolumeStep(k)
<1>0. /\ disk \in [Ordinal -> Volume] /\ disk[i] \in Volume
      /\ pod[i] # "none" => i \in pvc
      /\ pod[i] = "up" => disk[i].size > 0
      /\ disk[i].size \in Nat
      /\ sts.replicas \in Nat /\ i \in Nat
  <2>1. /\ disk \in [Ordinal -> Volume] /\ disk[i] \in Volume
        /\ pod[i] # "none" => i \in pvc
        /\ pod[i] = "up" => disk[i].size > 0
    BY DEF PlannerTypes, NodeTypes
  <2>2. disk[i].size \in 0..MaxPods /\ sts.replicas \in 0..MaxPods /\ i \in 0..MaxPods - 1
        /\ MaxPods \in Nat
    BY TypeFacts
  <2> QED
    BY <2>1, <2>2, SMT
<1>1. CASE PodCreate(i)
  <2>1. i \in Replicas
    BY <1>0, <1>1, SMT DEF PodCreate, Replicas
  <2> QED
    BY <1>1, <2>1 DEF PodCreate, VolumeStep, VolumesKept
<1>2. CASE PodDelete(i) \/ RollPod(i) \/ PodCrash(i)
  <2>1. disk' = disk /\ pvc' = pvc
    BY <1>2 DEF PodDelete, RollPod, PodCrash
  <2> QED
    BY <2>1 DEF VolumeStep, VolumesKept
<1>3. CASE VolumeGone(i)
  <2>1. i \in pvc \ Replicas
    BY <1>0, <1>3, SMT DEF VolumeGone, Replicas
  <2>2. VolumeDeleted(i)
    BY <1>0, <1>3, <2>1 DEF VolumeGone, VolumeDeleted, Others
  <2> QED
    BY <2>2 DEF VolumeStep
<1>4. CASE PodStart(i)
  <2>1. pvc' = pvc /\ i \in pvc
    BY <1>0, <1>4 DEF PodStart
  <2>2. PICK c \in {cm} \cup (IF disk[i].size # 0 THEN {lastCM} ELSE {}) :
              Listed(i, c) /\ applyConfiguredMembership(i, c)
    BY <1>4 DEF PodStart
  <2>3. i < c.size /\ c.size \in Nat /\ c.epoch \in Nat
    BY <2>2, TypeFacts, SMTT(20) DEF Listed
  <2>4. CASE disk' = disk
    BY <2>1, <2>4 DEF VolumeStep, VolumesKept
  <2>5. CASE /\ disk[i].size = 0 \/ c.epoch > disk[i].epoch
             /\ disk' = [disk EXCEPT ![i].epoch = c.epoch, ![i].size = c.size]
    <3>1. Takes(i, c.epoch, c.size)
      BY <1>0, <2>1, <2>5 DEF Takes, Others, Volume
    <3>2. CASE c = cm
      BY <2>3, <2>5, <3>1, <3>2 DEF TakesCM, VolumeStep
    <3>3. CASE c = lastCM /\ disk[i].size # 0
      BY <1>0, <2>3, <2>5, <3>1, <3>3, SMT DEF TakesLast, VolumeStep
    <3> QED
      BY <2>2, <3>2, <3>3
  <2> QED
    BY <2>2, <2>4, <2>5 DEF applyConfiguredMembership
<1>5. CASE HandoffDone(i)
  <2>1. HandedOff(i)
    BY <1>0, <1>5 DEF HandoffDone, HandedOff, Others, Up, Volume
  <2> QED
    BY <2>1 DEF VolumeStep
<1>6. ASSUME NEW j \in Ordinal, Spread(i, j) PROVE VolumeStep(j)
  <2>1. /\ i \in pvc /\ j \in pvc /\ disk[i].size > 0 /\ disk[j].size > 0 /\ pvc' = pvc
        /\ disk[i].epoch > disk[j].epoch /\ disk[j] \in Volume
    BY <1>0, <1>6 DEF Spread, Up, PlannerTypes, NodeTypes
  <2>2. TakesFrom(j, i)
    BY <1>0, <1>6, <2>1 DEF Spread, TakesFrom, Takes, Others, Volume
  <2> QED
    BY <2>2 DEF VolumeStep
<1> QED
  BY <1>1, <1>2, <1>3, <1>4, <1>5, <1>6 DEF PodStep

\* What the stages are about besides the volumes.
SamePlans == UNCHANGED <<cm, lastCM, sts, todo>>

\* Where everybody holds the ConfigMap's membership, or a neighbour of it,
\* nobody takes the one before it.
LEMMA LastIsOld ==
  ASSUME PlannerTypes, NEW k \in Ordinal, lastCM.epoch < cm.epoch \/ lastCM.size = 0,
         disk[k].epoch + 1 >= cm.epoch
  PROVE  ~TakesLast(k)
<1>1. /\ lastCM.epoch \in Nat /\ cm.epoch \in Nat /\ disk[k].epoch \in Nat
      /\ lastCM.size \in 0..MaxPods
  BY TypeFacts
<1> QED
  BY <1>1, SMT DEF TakesLast

LEMMA BootstrapStep ==
  ASSUME PlannerTypes, SamePlans, NEW k \in Ordinal, VolumeStep(k), Bootstrap
  PROVE  Bootstrap'
<1>1. Replicas = {}
  BY SMT DEF Bootstrap, Replicas
<1> QED
  BY <1>1 DEF Bootstrap, SamePlans, VolumeStep, VolumesKept, VolumeDeleted, HandedOff, TakesCM, TakesLast,
              TakesFrom, Takes

\* In a stage with exactly the replicas' volumes, none comes or goes.
LEMMA ReplicasStep ==
  ASSUME PlannerTypes, SamePlans, NEW k \in Ordinal, VolumeStep(k), pvc = Replicas
  PROVE  /\ pvc' = Replicas' /\ Replicas' = Replicas
         /\ k \in Replicas \/ disk' = disk
         /\ \/ disk' = disk \/ HandedOff(k) \/ TakesCM(k) \/ TakesLast(k)
            \/ \E j \in Replicas : TakesFrom(k, j)
<1>1. Replicas' = Replicas
  BY DEF Replicas, SamePlans
<1>2. CASE VolumesKept
  BY <1>1, <1>2 DEF VolumesKept
<1>3. CASE VolumeDeleted(k)
  BY <1>3 DEF VolumeDeleted
<1>4. CASE HandedOff(k) \/ TakesCM(k) \/ TakesLast(k) \/ \E j \in Ordinal : TakesFrom(k, j)
  BY <1>1, <1>4 DEF HandedOff, TakesCM, TakesLast, TakesFrom, Takes
<1> QED
  BY <1>2, <1>3, <1>4 DEF VolumeStep

\* The numbers the stages compare.
LEMMA StageFacts ==
  ASSUME PlannerTypes
  PROVE  /\ cm.epoch \in Nat /\ cm.size \in Nat /\ lastCM.epoch \in Nat /\ lastCM.size \in Nat
         /\ sts.replicas \in Nat /\ sts.replicas <= MaxPods /\ MaxPods \in Nat
         /\ Replicas \subseteq Ordinal
         /\ \A j \in Ordinal : /\ j \in Nat /\ disk[j].epoch \in Nat /\ disk[j].size \in Nat
                                /\ disk[j].handed \in Nat
<1>1. MaxPods \in Nat \ {0} /\ Ordinal = 0..MaxPods - 1 /\ sts.replicas \in 0..MaxPods
  BY TypeFacts
<1>2. Replicas \subseteq Ordinal
  BY <1>1, SMT DEF Replicas
<1>3. \A n \in 0..MaxPods : n \in Nat /\ n <= MaxPods
  BY <1>1, SMT
<1> QED
  BY <1>1, <1>2, <1>3, TypeFacts, SMTT(30)

\* The stages are about the ConfigMap, the StatefulSet and the volumes.
LEMMA SameStage ==
  ASSUME UNCHANGED <<cm, sts, pvc, disk>>
  PROVE  /\ Bootstrap' = Bootstrap /\ Adding' = Adding /\ Dropping' = Dropping
         /\ Calm' = Calm /\ Left' = Left /\ Stage' = Stage
<1>1. Bootstrap' = Bootstrap /\ Calm' = Calm
  BY DEF Bootstrap, Calm, Replicas, HoldsCM, Holds
<1>2. Settling' = Settling
  BY DEF Settling, Replicas, HoldsCM, Holds
<1>3. Adding' = Adding /\ Dropping' = Dropping
  BY DEF Adding, Dropping, Replicas, HoldsCM, Holds
<1>4. Removing' = Removing
  BY DEF Removing, Replicas, HoldsCM, Holds
<1>5. Left' = Left
  BY <1>4 DEF Left, Replicas, Holds
<1> QED
  BY <1>1, <1>2, <1>3, <1>4, <1>5 DEF Stage

\* Without pods there is no cluster yet.
LEMMA NoReplicas ==
  ASSUME PlannerTypes, Stage, sts.replicas = 0
  PROVE  Bootstrap
BY StageFacts, SMT DEF Stage, Settling, Adding, Removing, Dropping

\* While pods settle, who has left holds the newest membership.
LEMMA SettlingLeaver ==
  ASSUME PlannerTypes, Settling, NEW i \in pvc, i \in Ordinal, disk[i] # Empty, i >= disk[i].size
  PROVE  HoldsCM(i)
BY StageFacts, SMT DEF Settling

LEMMA AddingStep ==
  ASSUME PlannerTypes, SamePlans, NEW k \in Ordinal, VolumeStep(k), Adding,
         lastCM.epoch < cm.epoch \/ lastCM.size = 0
  PROVE  Adding'
<1>1. /\ cm.size = sts.replicas + 1 /\ sts.replicas > 0 /\ cm.epoch > 0 /\ pvc = Replicas
      /\ \A i \in Replicas : HoldsCM(i) \/ Holds(i, cm.epoch - 1, sts.replicas)
  BY DEF Adding
<1>2. /\ pvc' = Replicas' /\ Replicas' = Replicas /\ (k \in Replicas \/ disk' = disk)
      /\ \/ disk' = disk \/ HandedOff(k) \/ TakesCM(k) \/ TakesLast(k)
         \/ \E j \in Replicas : TakesFrom(k, j)
  BY <1>1, ReplicasStep
<1>3. ASSUME NEW i \in Replicas PROVE (HoldsCM(i) \/ Holds(i, cm.epoch - 1, sts.replicas))'
  <2>0. /\ i \in Ordinal
        /\ \/ disk[i].epoch = cm.epoch /\ disk[i].size = cm.size
           \/ disk[i].epoch = cm.epoch - 1 /\ disk[i].size = sts.replicas
    BY <1>1, StageFacts DEF HoldsCM, Holds
  <2>1. CASE disk'[i] = disk[i]
    BY <2>0, <2>1 DEF HoldsCM, Holds, SamePlans
  <2>2. CASE i = k /\ HandedOff(k)
    BY <2>0, <2>2 DEF HoldsCM, Holds, SamePlans, HandedOff
  <2>3. CASE i = k /\ TakesCM(k)
    BY <2>3 DEF HoldsCM, Holds, SamePlans, TakesCM, Takes
  <2>4. ~(i = k /\ TakesLast(k))
    <3>1. disk[i].epoch + 1 >= cm.epoch
      BY <2>0, StageFacts, SMT
    <3> QED
      BY <3>1, LastIsOld
  <2>5. ASSUME i = k, NEW j \in Replicas, TakesFrom(k, j)
        PROVE  (HoldsCM(i) \/ Holds(i, cm.epoch - 1, sts.replicas))'
    BY <1>1, <2>5 DEF HoldsCM, Holds, SamePlans, TakesFrom, Takes
  <2> QED
    BY <1>2, <2>0, <2>1, <2>2, <2>3, <2>4, <2>5 DEF HandedOff, TakesCM, TakesLast, TakesFrom, Takes, Others
<1> QED
  BY <1>1, <1>2, <1>3 DEF Adding, SamePlans, HoldsCM, Holds

LEMMA RemovingStep ==
  ASSUME PlannerTypes, SamePlans, NEW k \in Ordinal, VolumeStep(k), Removing,
         lastCM.epoch < cm.epoch \/ lastCM.size = 0
  PROVE  Removing' /\ (Left => Left')
<1>1. /\ cm.size = sts.replicas /\ sts.replicas > 1 /\ pvc = Replicas
      /\ \A i \in Replicas : HoldsCM(i) \/ Holds(i, cm.epoch + 1, sts.replicas - 1)
  BY DEF Removing
<1>2. /\ pvc' = Replicas' /\ Replicas' = Replicas /\ (k \in Replicas \/ disk' = disk)
      /\ \/ disk' = disk \/ HandedOff(k) \/ TakesCM(k) \/ TakesLast(k)
         \/ \E j \in Replicas : TakesFrom(k, j)
  BY <1>1, ReplicasStep
<1>3. ASSUME NEW i \in Replicas
      PROVE  /\ (HoldsCM(i) \/ Holds(i, cm.epoch + 1, sts.replicas - 1))'
             /\ Left => /\ Holds(i, cm.epoch + 1, sts.replicas - 1)'
                        /\ i = sts.replicas - 1 => disk'[i].handed = cm.epoch + 1
  <2>0. /\ i \in Ordinal /\ disk[i].size > 0
        /\ \/ disk[i].epoch = cm.epoch /\ disk[i].size = cm.size
           \/ disk[i].epoch = cm.epoch + 1 /\ disk[i].size = sts.replicas - 1
    BY <1>1, StageFacts, SMT DEF HoldsCM, Holds
  <2>a. Left => /\ disk[i].epoch = cm.epoch + 1 /\ disk[i].size = sts.replicas - 1
                /\ i = sts.replicas - 1 => disk[i].handed = cm.epoch + 1
                /\ \A j \in Replicas : disk[j].epoch = cm.epoch + 1
    BY DEF Left, Holds
  <2>1. CASE disk'[i] = disk[i]
    BY <2>0, <2>a, <2>1 DEF HoldsCM, Holds, SamePlans
  <2>2. CASE i = k /\ HandedOff(k)
    BY <2>0, <2>a, <2>2 DEF HoldsCM, Holds, SamePlans, HandedOff
  <2>3. ~(i = k /\ TakesCM(k))
    BY <2>0, StageFacts, SMT DEF TakesCM
  <2>4. ~(i = k /\ TakesLast(k))
    <3>1. disk[i].epoch + 1 >= cm.epoch
      BY <2>0, StageFacts, SMT
    <3> QED
      BY <3>1, LastIsOld
  <2>5. ASSUME i = k, NEW j \in Replicas, TakesFrom(k, j)
        PROVE  /\ (HoldsCM(i) \/ Holds(i, cm.epoch + 1, sts.replicas - 1))'
               /\ ~Left
    BY <1>1, <2>5, <2>a, StageFacts, SMT DEF HoldsCM, Holds, SamePlans, TakesFrom, Takes
  <2> QED
    BY <1>2, <2>0, <2>1, <2>2, <2>3, <2>4, <2>5 DEF HandedOff, TakesCM, TakesLast, TakesFrom, Takes, Others
<1>4. Removing'
  BY <1>1, <1>2, <1>3 DEF Removing, SamePlans, HoldsCM, Holds
<1>5. ASSUME Left PROVE Left'
  <2>1. sts.replicas - 1 \in Replicas
    BY <1>1, StageFacts, SMT DEF Replicas
  <2> QED
    BY <1>2, <1>3, <1>4, <1>5, <2>1 DEF Left, SamePlans, Holds
<1> QED
  BY <1>4, <1>5

\* Nothing moves once everybody holds the ConfigMap's membership.
LEMMA CalmStep ==
  ASSUME PlannerTypes, SamePlans, NEW k \in Ordinal, VolumeStep(k),
         lastCM.epoch < cm.epoch \/ lastCM.size = 0,
         cm.size > 0, pvc = Replicas, \A i \in Replicas : HoldsCM(i)
  PROVE  /\ pvc' = Replicas' /\ Replicas' = Replicas
         /\ \A i \in Replicas : HoldsCM(i)' /\ (disk[i].handed = cm.epoch => disk'[i].handed = cm.epoch)
<1>2. /\ pvc' = Replicas' /\ Replicas' = Replicas /\ (k \in Replicas \/ disk' = disk)
      /\ \/ disk' = disk \/ HandedOff(k) \/ TakesCM(k) \/ TakesLast(k)
         \/ \E j \in Replicas : TakesFrom(k, j)
  BY ReplicasStep
<1>3. ASSUME NEW i \in Replicas
      PROVE  HoldsCM(i)' /\ (disk[i].handed = cm.epoch => disk'[i].handed = cm.epoch)
  <2>0. i \in Ordinal /\ disk[i].size > 0 /\ disk[i].epoch = cm.epoch /\ disk[i].size = cm.size
        /\ \A j \in Replicas : disk[j].epoch = cm.epoch
    BY StageFacts DEF HoldsCM, Holds
  <2>1. CASE disk'[i] = disk[i]
    BY <2>0, <2>1 DEF HoldsCM, Holds, SamePlans
  <2>2. CASE i = k /\ HandedOff(k)
    BY <2>0, <2>2 DEF HoldsCM, Holds, SamePlans, HandedOff
  <2>3. ~(i = k /\ TakesCM(k))
    BY <2>0, StageFacts, SMT DEF TakesCM
  <2>4. ~(i = k /\ TakesLast(k))
    <3>1. disk[i].epoch + 1 >= cm.epoch
      BY <2>0, StageFacts, SMT
    <3> QED
      BY <3>1, LastIsOld
  <2>5. ASSUME i = k, NEW j \in Replicas, TakesFrom(k, j) PROVE FALSE
    BY <2>0, <2>5, StageFacts, SMT DEF TakesFrom
  <2> QED
    BY <1>2, <2>0, <2>1, <2>2, <2>3, <2>4, <2>5 DEF HandedOff, TakesCM, TakesLast, TakesFrom, Takes, Others
<1> QED
  BY <1>2, <1>3 DEF HoldsCM, Holds

\* What Settling says of a replica's volume.
Joined(i) ==
  \/ disk[i] = Empty \/ HoldsCM(i)
  \/ i + 1 < cm.size /\ disk[i].epoch + 1 = cm.epoch /\ disk[i].size + 1 = cm.size

LEMMA SettlingStep ==
  ASSUME PlannerTypes, SamePlans, NEW k \in Ordinal, VolumeStep(k), Settling,
         lastCM.epoch < cm.epoch \/ lastCM.size = 0
  PROVE  Settling'
<1>1. /\ cm.size = sts.replicas /\ sts.replicas > 0
      /\ \A i \in pvc \cap Replicas : Joined(i)
      /\ \A i \in pvc \ Replicas : HoldsCM(i) /\ disk[i].handed = cm.epoch /\ \A j \in Replicas : HoldsCM(j)
  BY DEF Settling, Joined
<1>2. Replicas' = Replicas /\ Replicas \subseteq Ordinal /\ pvc \subseteq Ordinal /\ pvc' \subseteq Ordinal
  BY StageFacts DEF Replicas, SamePlans, PlannerTypes, VolumeStep, VolumesKept, VolumeDeleted, HandedOff,
                    TakesCM, TakesLast, TakesFrom, Takes
<1>3. SUFFICES
        /\ \A i \in pvc' \cap Replicas : Joined(i)'
        /\ \A i \in pvc' \ Replicas : HoldsCM(i)' /\ disk'[i].handed = cm.epoch /\ \A j \in Replicas : HoldsCM(j)'
  BY <1>1, <1>2 DEF Settling, SamePlans, Joined, HoldsCM, Holds
\* An epoch on a volume is the ConfigMap's or the one before.
<1>4. ASSUME NEW i \in pvc, disk[i].size > 0
      PROVE  /\ i \in Ordinal /\ disk[i].epoch <= cm.epoch /\ disk[i].epoch + 1 >= cm.epoch
             /\ disk[i].epoch = cm.epoch => HoldsCM(i)
  BY <1>1, <1>2, <1>4, StageFacts, EmptyFacts, SMT DEF HoldsCM, Holds, Joined
<1>5. CASE VolumesKept
  <2>1. ASSUME NEW i \in pvc' \cap Replicas PROVE Joined(i)'
    <3>1. CASE i \in pvc
      BY <1>1, <1>5, <3>1 DEF VolumesKept, Joined, HoldsCM, Holds, SamePlans
    <3>2. CASE i \notin pvc
      BY <1>2, <1>5, <3>2 DEF VolumesKept, Joined, PlannerTypes, NodeTypes
    <3> QED
      BY <3>1, <3>2
  <2>2. \A i \in pvc' \ Replicas : i \in pvc
    BY <1>5 DEF VolumesKept
  <2> QED
    BY <1>1, <1>5, <2>1, <2>2 DEF VolumesKept, HoldsCM, Holds, SamePlans
<1>6. CASE VolumeDeleted(k)
  <2>1. \A i \in pvc' : i \in pvc /\ disk'[i] = disk[i]
    BY <1>2, <1>6 DEF VolumeDeleted, Others
  <2>2. \A i \in Replicas : disk'[i] = disk[i]
    BY <1>2, <1>6 DEF VolumeDeleted, Others
  <2> QED
    BY <1>1, <2>1, <2>2, ZenonT(40) DEF HoldsCM, Holds, SamePlans, Joined
\* The other steps change one volume, and no volume comes or goes.
<1>7. ASSUME pvc' = pvc, k \in pvc, Others(k),
             k \in Replicas => Joined(k)' /\ (HoldsCM(k) => HoldsCM(k)'),
             k \notin Replicas => HoldsCM(k)' /\ disk'[k].handed = cm.epoch
      PROVE  /\ \A i \in pvc' \cap Replicas : Joined(i)'
             /\ \A i \in pvc' \ Replicas : HoldsCM(i)' /\ disk'[i].handed = cm.epoch /\ \A j \in Replicas : HoldsCM(j)'
  <2>1. ASSUME NEW i \in pvc' \cap Replicas PROVE Joined(i)'
    BY <1>1, <1>2, <1>7 DEF Others, Joined, HoldsCM, Holds, SamePlans
  <2>2. ASSUME NEW i \in pvc' \ Replicas PROVE HoldsCM(i)' /\ disk'[i].handed = cm.epoch
    BY <1>1, <1>2, <1>7 DEF Others, HoldsCM, Holds, SamePlans
  <2>3. ASSUME NEW i \in pvc' \ Replicas, NEW j \in Replicas PROVE HoldsCM(j)'
    BY <1>1, <1>2, <1>7 DEF Others, HoldsCM, Holds, SamePlans
  <2> QED
    BY <2>1, <2>2, <2>3
<1>8. CASE HandedOff(k)
  <2>1. k \in Replicas => Joined(k)' /\ (HoldsCM(k) => HoldsCM(k)')
    BY <1>1, <1>8, EmptyFacts, SMT DEF HandedOff, Joined, HoldsCM, Holds, SamePlans
  <2>2. k \notin Replicas => HoldsCM(k)' /\ disk'[k].handed = cm.epoch
    BY <1>1, <1>8 DEF HandedOff, HoldsCM, Holds, SamePlans
  <2> QED
    BY <1>7, <1>8, <2>1, <2>2 DEF HandedOff
<1>9. CASE TakesCM(k)
  <2>1. k \in Replicas
    BY <1>1, <1>9, StageFacts, SMT DEF TakesCM, Replicas
  <2>2. HoldsCM(k)'
    BY <1>9 DEF TakesCM, Takes, HoldsCM, Holds, SamePlans
  <2> QED
    BY <1>7, <1>9, <2>1, <2>2 DEF TakesCM, Takes, Joined
<1>10. CASE TakesLast(k)
  <2>1. disk[k].epoch + 1 >= cm.epoch
    BY <1>4, <1>10 DEF TakesLast, Takes
  <2> QED
    BY <1>10, <2>1, LastIsOld
<1>11. ASSUME NEW j \in Ordinal, TakesFrom(k, j)
       PROVE  /\ \A i \in pvc' \cap Replicas : Joined(i)'
              /\ \A i \in pvc' \ Replicas : HoldsCM(i)' /\ disk'[i].handed = cm.epoch /\ \A l \in Replicas : HoldsCM(l)'
  <2>1. /\ k \in pvc /\ j \in pvc /\ pvc' = pvc /\ Others(k) /\ disk[j].epoch > disk[k].epoch
        /\ disk[j].size > 0 /\ disk[k].size > 0
    BY <1>11 DEF TakesFrom, Takes
  <2>2. disk[j].epoch = cm.epoch /\ HoldsCM(j) /\ ~HoldsCM(k)
    BY <1>4, <2>1, StageFacts, SMT DEF HoldsCM, Holds
  <2>3. k \in Replicas /\ HoldsCM(k)'
    BY <1>1, <1>11, <2>1, <2>2 DEF TakesFrom, Takes, HoldsCM, Holds, SamePlans
  <2> QED
    BY <1>7, <2>1, <2>3 DEF Joined
<1> QED
  BY <1>5, <1>6, <1>8, <1>9, <1>10, <1>11 DEF VolumeStep

\* Pod 0 has its volume for as long as there are pods, so that the epoch on
\* it only grows.
LEMMA EpochsGrow ==
  ASSUME PlannerTypes, Stage, NEW k \in Ordinal, VolumeStep(k)
  PROVE  disk'[0].epoch >= disk[0].epoch
<1>0. /\ 0 \in Ordinal /\ disk[0].epoch \in Nat /\ disk[k].epoch \in Nat /\ disk[k].size \in Nat
      /\ disk[k].size = 0 => disk[k].epoch = 0
  <2>1. 0 \in Ordinal
    BY PlannerAssumption, SMT DEF Ordinal
  <2>2. disk[k].size = 0 => disk[k].epoch = 0
    BY EmptyFacts DEF PlannerTypes, NodeTypes
  <2> QED
    BY <2>1, <2>2, StageFacts
<1>1. CASE disk'[0] = disk[0]
  BY <1>0, <1>1, SMT
<1>2. CASE k = 0 /\ VolumeDeleted(k)
  <2>1. 0 \in pvc /\ 0 \notin Replicas
    BY <1>2 DEF VolumeDeleted
  <2>2. sts.replicas = 0
    BY <2>1, StageFacts, SMT DEF Replicas
  <2> QED
    BY <2>1, <2>2, NoReplicas DEF Bootstrap
<1>3. CASE k = 0 /\ HandedOff(k)
  BY <1>0, <1>3, SMT DEF HandedOff
<1>4. CASE k = 0 /\ TakesCM(k)
  BY <1>0, <1>4, StageFacts, SMT DEF TakesCM, Takes
<1>5. CASE k = 0 /\ TakesLast(k)
  BY <1>0, <1>5, StageFacts, SMT DEF TakesLast, Takes
<1>6. ASSUME NEW j \in Ordinal, k = 0, TakesFrom(k, j) PROVE disk'[0].epoch >= disk[0].epoch
  BY <1>0, <1>6, StageFacts, SMT DEF TakesFrom, Takes
<1> QED
  BY <1>0, <1>1, <1>2, <1>3, <1>4, <1>5, <1>6 DEF VolumeStep, VolumesKept, VolumeDeleted, HandedOff,
     TakesCM, TakesLast, TakesFrom, Takes, Others

\* A step of a pod leaves every stage as it is, and with it what the action
\* decided on counts on.
LEMMA PodKeeps ==
  ASSUME PlannerTypes, UNCHANGED env, IPlan, NEW i \in Ordinal, PodStep(i) \/ PodCrash(i)
  PROVE  IPlan'
<1>0. IStages /\ LateKept /\ AllWanted /\ late' \subseteq late /\ UNCHANGED <<at, Now>>
  BY DEF IPlan, PodStep, PodCrash, HandlersEnd, Now
<1>1. SamePlans /\ UNCHANGED seen
  BY DEF SamePlans, PodStep, PodCrash, operatorVars
<1>2. PICK k \in Ordinal : VolumeStep(k)
  BY PodEffects
<1>3. lastCM.epoch < cm.epoch \/ lastCM.size = 0
  BY <1>0 DEF IStages
<1>4. Bootstrap => Bootstrap'
  BY <1>1, <1>2, BootstrapStep
<1>5. Settling => Settling'
  BY <1>1, <1>2, <1>3, SettlingStep
<1>6. Adding => Adding'
  BY <1>1, <1>2, <1>3, AddingStep
<1>7. (Removing => Removing') /\ (Left => Left')
  BY <1>1, <1>2, <1>3, RemovingStep DEF Left
<1>8. ASSUME Dropping PROVE Dropping'
  <2>1. cm.size > 0 /\ pvc = Replicas /\ (\A j \in Replicas : HoldsCM(j)) /\ sts.replicas - 1 \in Replicas
    BY <1>8, StageFacts, SMT DEF Dropping, Replicas
  <2>2. /\ pvc' = Replicas' /\ Replicas' = Replicas
        /\ \A j \in Replicas : HoldsCM(j)' /\ (disk[j].handed = cm.epoch => disk'[j].handed = cm.epoch)
    BY <1>1, <1>2, <1>3, <2>1, CalmStep
  <2> QED
    BY <1>1, <1>8, <2>1, <2>2 DEF Dropping, SamePlans, HoldsCM, Holds
<1>9. ASSUME Calm PROVE Calm'
  <2>1. cm.size > 0 /\ pvc = Replicas /\ \A j \in Replicas : HoldsCM(j)
    BY <1>9 DEF Calm
  <2>2. /\ pvc' = Replicas' /\ Replicas' = Replicas
        /\ \A j \in Replicas : HoldsCM(j)' /\ (disk[j].handed = cm.epoch => disk'[j].handed = cm.epoch)
    BY <1>1, <1>2, <1>3, <2>1, CalmStep
  <2> QED
    BY <1>1, <1>9, <2>1, <2>2 DEF Calm, SamePlans, HoldsCM, Holds
<1>10. Stage'
  BY <1>0, <1>4, <1>5, <1>6, <1>7, <1>8 DEF IStages, Stage
<1>11. ASSUME NEW m, m.epoch \in Nat
       PROVE  (Behind(m) => Behind(m)') /\ (Begins(m) => Begins(m)')
  <2>1. disk'[0].epoch >= disk[0].epoch
    BY <1>0, <1>2, EpochsGrow DEF IStages
  <2>2. 0 \in Ordinal /\ disk'[0].epoch \in Nat
    <3>1. 0 \in Ordinal
      BY PlannerAssumption, SMT DEF Ordinal
    <3>2. disk' \in [Ordinal -> Volume]
      BY PodStepTypes DEF PlannerTypes
    <3> QED
      BY <3>1, <3>2 DEF Volume
  <2>3. Behind(m) => Behind(m)'
    BY <1>0, <1>11, <2>1, <2>2, StageFacts, SMT DEF Behind
  <2>4. LastUnwanted' = LastUnwanted
    BY <1>0, <1>1 DEF LastUnwanted, SamePlans
  <2> QED
    BY <1>0, <1>1, <1>9, <2>3, <2>4 DEF Begins, SamePlans
<1>12. TodoKept'
  <2>1. PICK m : m = todo /\ m = todo' /\ m.epoch \in Nat
    BY <1>1, TypeFacts DEF SamePlans
  <2>2. (todo.kind = "post" => Behind(todo) \/ Begins(todo))'
    <3>1. todo.kind = "post" => Behind(m) \/ Begins(m)
      BY <1>0, <2>1 DEF IStages, TodoKept
    <3>2. Behind(m)' = Behind(todo)' /\ Begins(m)' = Begins(todo)'
      BY <2>1 DEF Behind, Begins
    <3> QED
      BY <1>11, <2>1, <3>1, <3>2
  <2> QED
    BY <1>0, <1>1, <1>4, <1>6, <1>7, <1>8, <1>9, <2>2
       DEF IStages, TodoKept, TodoConfigMap, TodoScale, SamePlans
<1>13. LateKept'
  <2>1. \A m \in late : m.epoch \in Nat
    BY DEF PlannerTypes, Action
  <2> QED
    BY <1>0, <1>1, <1>11, <2>1 DEF LateKept, SamePlans
<1>14. AllWanted'
  BY <1>0, <1>1 DEF AllWanted, Wanted, SamePlans
<1> QED
  BY <1>0, <1>1, <1>3, <1>10, <1>12, <1>13, <1>14 DEF IPlan, IStages, SamePlans

-----------------------------------------------------------------------------
\* When Plan sees a stable cluster whose nodes all hold the ConfigMap's
\* membership, it is calm.
LEMMA StableIsCalm ==
  ASSUME PlannerTypes, seen.cm = cm, seen.sts = sts, NEW a \in SUBSET Up, NEW r \in SUBSET a,
         NEW d, NEW g, NEW o, o = Observe(a, r, d, g), o.S > 0, o.cm.size = o.S,
         allIn(o, {Held(o.cm.epoch, o.S)}), Stable(o)
  PROVE  Calm
<1>1. /\ o.S = sts.replicas /\ o.cm = cm /\ o.answers = a /\ o.healthy = healthy(r) /\ o.pvcs = pvc
  BY ObserveFacts, SMT
<1>2. Replicas \subseteq r /\ Replicas \subseteq a /\ Pods(o) = Replicas
  BY <1>1 DEF Stable, AllHealthy, Pods, healthy, Replicas
<1>3. \A i \in Replicas : HoldsCM(i)
  <2>1. \A i \in Replicas : View(i) = Held(cm.epoch, cm.size)
    BY <1>1, <1>2, ZenonT(40) DEF allIn, views
  <2> QED
    BY <2>1 DEF View, Held, HoldsCM, Holds
<1>4. pvc = Replicas
  <2>1. \A i \in pvc : i \in Replicas
    <3>1. \A i \in pvc : i \in Ordinal /\ i \in Nat /\ i < sts.replicas
      BY <1>1, StageFacts DEF Stable, PlannerTypes
    <3> QED
      BY <3>1, StageFacts, SMT DEF Replicas
  <2>2. \A i \in Replicas : i \in pvc
    BY <1>2, StageFacts DEF Up, PlannerTypes, NodeTypes
  <2> QED
    BY <2>1, <2>2
<1> QED
  BY <1>1, <1>3, <1>4 DEF Calm

\* The stages are told apart by the sizes.
LEMMA StageBySize ==
  ASSUME PlannerTypes, Stage, sts.replicas > 0
  PROVE  /\ cm.size = sts.replicas + 1 => Adding
         /\ cm.size = sts.replicas => Settling \/ Removing
         /\ cm.size = sts.replicas - 1 => Dropping
BY StageFacts, SMT DEF Stage, Bootstrap, Settling, Adding, Removing, Dropping

\* The last pod has drained at the next epoch only if it is being removed,
\* and then everybody holds that epoch.
LEMMA DrainedIsLeft ==
  ASSUME PlannerTypes, Stage, sts.replicas > 0, cm.size = sts.replicas,
         NEW l, l = sts.replicas - 1, Drained(l), disk[l].epoch = cm.epoch + 1
  PROVE  Left
<1>0. l \in Replicas /\ l \in Ordinal /\ pvc \subseteq Ordinal
  BY StageFacts, SMT DEF Replicas, PlannerTypes
<1>1. CASE Settling
  <2>1. CASE l \in pvc
    BY <1>0, <1>1, <2>1, StageFacts, EmptyFacts, SMT DEF Settling, HoldsCM, Holds
  <2>2. CASE l \notin pvc
    <3>1. disk[l] = Empty
      BY <1>0, <2>2 DEF PlannerTypes, NodeTypes
    <3> QED
      BY <3>1, EmptyFacts, StageFacts, SMT
  <2> QED
    BY <2>1, <2>2
<1>2. CASE Removing
  <2>1. disk[l].size = sts.replicas - 1 /\ disk[l].handed = cm.epoch + 1
    BY <1>0, <1>2, StageFacts, SMT DEF Removing, HoldsCM, Holds, Drained, PlannerTypes, NodeTypes
  <2>2. ASSUME NEW i \in Replicas PROVE Holds(i, cm.epoch + 1, sts.replicas - 1)
    <3>1. CASE i = l
      BY <1>0, <2>1, <3>1 DEF Holds
    <3>2. CASE i # l
      <4>1. i \in 0..disk[l].size - 1 /\ i \in Ordinal
        BY <2>1, <3>2, StageFacts, SMT DEF Replicas
      <4>2. disk[i].epoch >= cm.epoch + 1
        BY <4>1 DEF Drained
      <4> QED
        BY <1>2, <4>1, <4>2, StageFacts, SMT DEF Removing, HoldsCM, Holds
    <3> QED
      BY <3>1, <3>2
  <2> QED
    BY <1>2, <2>1, <2>2 DEF Left
<1> QED
  BY <1>1, <1>2, StageBySize

\* What a reconcile decides on, when the cache has what was written.
Decided(o, a, d) ==
  /\ UNCHANGED <<at, cm, lastCM, sts, seen, late, pod, rev, pvc, disk>>
  /\ o.S = sts.replicas /\ o.cm = cm /\ o.rev = sts.rev /\ o.drained = drains(a, d)
  /\ o.S \in Nat /\ o.desired \in Nat /\ o.desired > 0 /\ o.cm \in Membership
  /\ o.desired = spec.replicas /\ (o.current <=> sts.rev = spec.rev)
  /\ \/ /\ o.cm = NoMembership /\ o.S = 0
        /\ todo' = Act("configmap", Held(0, o.desired), 0)
     \/ /\ o.cm # NoMembership /\ o.S = 0
        /\ todo' = Act("scale", Held(0, o.cm.size), spec.rev)
     \/ o.S > 0 /\ ClassifyTo(o, todo')

LEMMA Decides ==
  ASSUME PlannerTypes, IStages, NEW a \in SUBSET Up, NEW r \in SUBSET a,
         NEW d \in BOOLEAN, NEW g \in BOOLEAN, NEW o, o = Observe(a, r, d, g), Reconcile(o)
  PROVE  Decided(o, a, d)
<1>1. /\ seen.cm = cm /\ seen.sts = sts
      /\ UNCHANGED <<at, cm, lastCM, sts, seen, late, pod, rev, pvc, disk>>
      /\ todo' = Plan(o) /\ Plan(o).kind \in Acting
  BY DEF IStages, Reconcile, podVars
<1>2. /\ o.S = sts.replicas /\ o.cm = cm /\ o.rev = sts.rev /\ o.drained = drains(a, d)
      /\ o.S \in Nat /\ o.desired \in Nat /\ o.desired > 0 /\ o.cm \in Membership
      /\ o.desired = spec.replicas /\ (o.current <=> sts.rev = spec.rev)
  BY <1>1, ObserveFacts, SMT
<1>3. \/ /\ o.cm = NoMembership /\ o.S = 0
         /\ Plan(o) = Act("configmap", Held(0, o.desired), 0)
      \/ /\ o.cm # NoMembership /\ o.S = 0
         /\ Plan(o) = Act("scale", Held(0, o.cm.size), spec.rev)
      \/ o.S > 0 /\ ClassifyTo(o, Plan(o))
  BY <1>1, <1>2, PlanActs
<1> QED
  BY <1>1, <1>2, <1>3 DEF Decided

LEMMA Order ==
  ASSUME NEW x \in Nat, NEW y \in Nat, NEW z \in Nat
  PROVE  (x < y /\ y <= z => x < z) /\ (x <= y /\ y < z => x < z) /\ ~(x < x)
BY SMT

LEMMA CountIsNat ==
  ASSUME NEW m, NEW x \in 1..m
  PROVE  x \in Nat
BY SMT

\* When the spec has come to ask for fewer pods than there are, which were
\* asked for earlier, no later one asks for the last of them.
LEMMA NoMore ==
  ASSUME PlannerTypes, Wanted(sts.replicas), Shrinking(Now.specs),
         spec.replicas < sts.replicas, spec.rev = sts.rev
  PROVE  LastUnwanted
<1> DEFINE S == Now.specs
<1>1. /\ S \in Seq([replicas : 1..MaxPods, rev : Nat]) /\ at \in DOMAIN S
      /\ \A n \in DOMAIN S : S[n].replicas \in 1..MaxPods
      /\ sts.replicas \in Nat
  BY ScenarioFacts, StageFacts DEF PlannerTypes, Scenario
<1>2. DOMAIN S = 1..Len(S) /\ Len(S) \in Nat /\ at \in 1..Len(S)
  <2> HIDE DEF S
  <2> QED
    BY <1>1, SMTT(20)
<1>3. S[at].replicas < sts.replicas /\ S[at].rev = sts.rev
  BY DEF spec
<1>4. PICK i \in 1..at : sts.replicas <= S[i].replicas
  BY DEF Wanted
<1>5. i \in 1..at - 1 /\ S[at].replicas < S[i].replicas
  <2> HIDE DEF S
  <2>1. i \in DOMAIN S
    BY <1>2, SMT
  <2>2. S[i].replicas \in Nat /\ S[at].replicas \in Nat /\ sts.replicas \in Nat
    BY <1>1, <2>1, CountIsNat
  <2>3. S[at].replicas < S[i].replicas
    BY <1>3, <1>4, <2>2, Order
  <2>4. i # at
    BY <2>2, <2>3, Order
  <2> QED
    BY <1>2, <2>3, <2>4, SMT
<1>6. ASSUME NEW k \in at..Len(S) PROVE S[k].replicas < sts.replicas /\ S[k].rev = sts.rev
  <2>1. CASE k = at
    BY <1>3, <2>1
  <2>2. CASE k # at
    <3>1. k \in at + 1..Len(S) /\ k \in DOMAIN S
      BY <1>2, <2>2, SMT
    <3>2. S[k].replicas <= S[at].replicas /\ S[k].rev = S[at].rev
      BY <1>1, <1>5, <3>1 DEF Shrinking
    <3> QED
      <4> HIDE DEF S
      <4>1. S[k].replicas \in Nat /\ S[at].replicas \in Nat /\ sts.replicas \in Nat
        BY <1>1, <3>1, CountIsNat
      <4> QED
        BY <1>3, <3>2, <4>1, Order
  <2> QED
    BY <2>1, <2>2
<1> QED
  BY <1>6 DEF LastUnwanted

LEMMA ReconcileKeeps ==
  ASSUME PlannerTypes, IStages, AllWanted, UNCHANGED env,
         "late" \in Now.faults => Shrinking(Now.specs),
         NEW a \in SUBSET Up, NEW r \in SUBSET a,
         NEW d \in BOOLEAN, NEW g \in BOOLEAN, Reconcile(Observe(a, r, d, g))
  PROVE  IStages'
<1>0. PICK o : o = Observe(a, r, d, g)
  OBVIOUS
<1>d. Decided(o, a, d)
  BY <1>0, Decides
<1>1. /\ seen.cm = cm /\ seen.sts = sts /\ Stage
      /\ UNCHANGED <<at, cm, lastCM, sts, seen, pod, rev, pvc, disk>>
  BY DEF IStages, Reconcile, podVars
<1>2. /\ o.S = sts.replicas /\ o.cm = cm /\ o.rev = sts.rev /\ o.drained = drains(a, d)
      /\ o.S \in Nat /\ o.desired \in Nat /\ o.desired > 0 /\ o.cm \in Membership
      /\ o.desired = spec.replicas /\ (o.current <=> sts.rev = spec.rev)
  BY <1>d DEF Decided
<1>3. SUFFICES TodoKept'
  BY <1>1, SameStage DEF IStages
<1>4. \/ /\ o.cm = NoMembership /\ o.S = 0
         /\ todo' = Act("configmap", Held(0, o.desired), 0)
      \/ /\ o.cm # NoMembership /\ o.S = 0
         /\ todo' = Act("scale", Held(0, o.cm.size), spec.rev)
      \/ o.S > 0 /\ ClassifyTo(o, todo')
  BY <1>d DEF Decided
\* The stages and what they are made of have not changed.
<1>5. /\ Bootstrap' = Bootstrap /\ Calm' = Calm /\ Left' = Left /\ Adding' = Adding
      /\ Dropping' = Dropping
  BY <1>1, SameStage
<1>6. CASE o.cm = NoMembership /\ o.S = 0 /\ todo' = Act("configmap", Held(0, o.desired), 0)
  <2>1. Bootstrap
    BY <1>1, <1>2, <1>6, NoReplicas
  <2>2. todo'.kind = "configmap" /\ todo'.epoch = 0 /\ todo'.size = o.desired
    BY <1>6 DEF Act, Held
  <2>3. TodoConfigMap'
    BY <1>1, <1>2, <1>5, <1>6, <2>1, <2>2 DEF TodoConfigMap, NoMembership, Held
  <2> QED
    BY <2>2, <2>3 DEF TodoKept
<1>7. CASE o.cm # NoMembership /\ o.S = 0 /\ todo' = Act("scale", Held(0, o.cm.size), spec.rev)
  <2>1. Bootstrap
    BY <1>1, <1>2, <1>7, NoReplicas, ZenonT(40)
  <2>2. cm.size > 0
    BY <1>2, <1>7, <2>1, StageFacts, SMT DEF Bootstrap, Membership, NoMembership, Held
  <2>3. todo'.kind = "scale" /\ todo'.size = cm.size
    BY <1>2, <1>7 DEF Act, Held
  <2>4. TodoScale'
    BY <1>1, <1>5, <2>1, <2>2, <2>3 DEF TodoScale
  <2> QED
    BY <2>3, <2>4 DEF TodoKept
<1>8. CASE o.S > 0 /\ ClassifyTo(o, todo')
  <2>1. CASE o.cm.size = o.S + 1 /\ todo' = Act("scale", Held(0, o.S + 1), o.rev)
    <3>1. Adding
      BY <1>1, <1>2, <1>8, <2>1, StageBySize
    <3>2. todo'.kind = "scale" /\ todo'.size = sts.replicas + 1 /\ todo'.rev = sts.rev
      BY <1>2, <2>1 DEF Act, Held
    <3>3. TodoScale'
      BY <1>1, <1>5, <3>1, <3>2 DEF TodoScale
    <3> QED
      BY <3>2, <3>3 DEF TodoKept
  <2>2. CASE /\ o.cm.size = o.S /\ allIn(o, {Held(o.cm.epoch, o.S)}) /\ Stable(o)
             /\ \/ ~o.current /\ todo' = Act("template", Held(0, o.S), spec.rev)
                \/ o.S < o.desired /\ todo' = Act("configmap", Held(o.cm.epoch + 1, o.S + 1), 0)
                \/ o.current /\ o.S > o.desired /\ todo' = Act("post", Held(o.cm.epoch + 1, o.S - 1), 0)
    <3>1. Calm
      BY <1>0, <1>1, <1>8, <2>2, StableIsCalm
    <3>2. CASE todo' = Act("template", Held(0, o.S), spec.rev)
      <4>1. todo'.kind = "template" /\ todo'.size = sts.replicas
        BY <1>2, <3>2 DEF Act, Held
      <4> QED
        BY <1>1, <1>5, <3>1, <4>1 DEF TodoKept
    <3>3. CASE todo' = Act("configmap", Held(o.cm.epoch + 1, o.S + 1), 0)
      <4>1. todo'.kind = "configmap" /\ todo'.epoch = cm.epoch + 1 /\ todo'.size = sts.replicas + 1
        BY <1>2, <3>3 DEF Act, Held
      <4>2. TodoConfigMap'
        BY <1>1, <1>5, <3>1, <4>1 DEF TodoConfigMap
      <4> QED
        BY <4>1, <4>2 DEF TodoKept
    <3>4. CASE o.current /\ o.S > o.desired /\ todo' = Act("post", Held(o.cm.epoch + 1, o.S - 1), 0)
      <4>1. todo'.kind = "post" /\ todo'.epoch = cm.epoch + 1 /\ todo'.size = sts.replicas - 1
        BY <1>2, <3>4 DEF Act, Held
      <4>0. spec.rev = sts.rev
        BY <1>2, <3>4
      <4>2. sts.replicas > 1 /\ spec.replicas < sts.replicas /\ spec.rev = sts.rev
        <5>1. /\ o.S = sts.replicas /\ o.desired = spec.replicas /\ o.S \in Nat /\ o.desired \in Nat
              /\ o.desired > 0 /\ o.S > o.desired
          BY <1>2, <3>4
        <5> QED
          BY <4>0, <5>1, SMT
      <4>3. "late" \in Now.faults => LastUnwanted
        BY <4>2, NoMore DEF AllWanted
      <4>4. LastUnwanted' = LastUnwanted /\ Now' = Now
        BY <1>1 DEF LastUnwanted, Now
      <4>5. Begins(todo)'
        BY <1>1, <1>5, <3>1, <4>1, <4>2, <4>3, <4>4 DEF Begins
      <4> QED
        BY <4>1, <4>5 DEF TodoKept
    <3> QED
      BY <2>2, <3>2, <3>3, <3>4
  <2>3. CASE /\ o.cm.size = o.S /\ todo' = Act("configmap", Held(o.cm.epoch + 1, o.S - 1), 0)
             /\ o.S - 1 \in o.drained /\ disk[o.S - 1].epoch = o.cm.epoch + 1
    <3>1. Drained(sts.replicas - 1)
      BY <1>2, <2>3 DEF drains
    <3>2. Left
      BY <1>1, <1>2, <1>8, <2>3, <3>1, DrainedIsLeft
    <3>3. todo'.kind = "configmap" /\ todo'.epoch = cm.epoch + 1 /\ todo'.size = sts.replicas - 1
      BY <1>2, <2>3 DEF Act, Held
    <3>4. TodoConfigMap'
      BY <1>1, <1>5, <3>2, <3>3 DEF TodoConfigMap
    <3> QED
      BY <3>3, <3>4 DEF TodoKept
  <2>4. CASE o.cm.size = o.S - 1 /\ todo' = Act("scale", Held(0, o.S - 1), o.rev)
    <3>1. Dropping
      BY <1>1, <1>2, <1>8, <2>4, StageBySize
    <3>2. todo'.kind = "scale" /\ todo'.size = sts.replicas - 1 /\ todo'.rev = sts.rev
      BY <1>2, <2>4 DEF Act, Held
    <3>3. TodoScale'
      BY <1>1, <1>5, <3>1, <3>2 DEF TodoScale
    <3> QED
      BY <3>2, <3>3 DEF TodoKept
  <2> QED
    BY <1>8, <2>1, <2>2, <2>3, <2>4 DEF ClassifyTo
<1> QED
  BY <1>4, <1>6, <1>7, <1>8

\* While a post that was given up may still begin a removal, nothing else is
\* decided on.
LEMMA ReconcileKeepsLate ==
  ASSUME PlannerTypes, IStages, LateKept, UNCHANGED env, NEW a \in SUBSET Up, NEW r \in SUBSET a,
         NEW d \in BOOLEAN, NEW g \in BOOLEAN, NEW o, o = Observe(a, r, d, g), Reconcile(o)
  PROVE  LateKept'
<1>0. Decided(o, a, d)
  BY Decides
<1>1. /\ UNCHANGED <<at, cm, lastCM, sts, seen, late, pod, rev, pvc, disk>>
      /\ o.S = sts.replicas /\ o.cm = cm
      /\ o.S \in Nat /\ o.desired \in Nat
      /\ o.desired = spec.replicas /\ (o.current <=> sts.rev = spec.rev)
      /\ o.S = 0 \/ ClassifyTo(o, todo')
  BY <1>0 DEF Decided
<1>2. Now' = Now /\ LastUnwanted' = LastUnwanted /\ Calm' = Calm
  BY <1>1, SameStage DEF Now, LastUnwanted
<1>3. ASSUME NEW m \in late, Begins(m), "late" \in Now.faults PROVE todo'.kind = "post"
  <2>1. /\ cm.size = sts.replicas /\ sts.replicas > 1 /\ LastUnwanted
        /\ \A i \in Replicas : HoldsCM(i)
    BY <1>3 DEF Begins, Calm
  <2>2. spec.replicas < sts.replicas /\ spec.rev = sts.rev
    <3>1. at \in at..Len(Now.specs)
      <4>1. Now.specs \in Seq([replicas : 1..MaxPods, rev : Nat]) /\ at \in DOMAIN Now.specs
        BY ScenarioFacts DEF PlannerTypes, Scenario
      <4> QED
        BY <4>1, SMT
    <3> QED
      BY <2>1, <3>1 DEF LastUnwanted, spec
  <2>3. disk[sts.replicas - 1].epoch = cm.epoch
    <3>1. sts.replicas - 1 \in Replicas
      BY <2>1, StageFacts, SMT DEF Replicas
    <3> QED
      BY <2>1, <3>1 DEF HoldsCM, Holds
  <2>4. ~(o.S < o.desired) /\ o.current /\ o.S # 0 /\ o.cm.size # o.S + 1 /\ o.cm.size # o.S - 1
        /\ disk[o.S - 1].epoch # o.cm.epoch + 1
    <3>1. /\ ~(sts.replicas < spec.replicas) /\ sts.replicas # 0 /\ cm.epoch # cm.epoch + 1
          /\ sts.replicas # sts.replicas + 1 /\ sts.replicas # sts.replicas - 1
      BY <1>1, <2>1, <2>2, StageFacts, SMT
    <3> QED
      BY <1>1, <2>1, <2>2, <2>3, <3>1
  <2>5. todo' = Act("post", Held(o.cm.epoch + 1, o.S - 1), 0)
    BY <1>1, <2>4 DEF ClassifyTo
  <2> QED
    BY <2>5 DEF Act
<1>4. ASSUME NEW m \in late PROVE (Behind(m)' <=> Behind(m)) /\ (Begins(m)' <=> Begins(m))
  BY <1>1, <1>2 DEF Behind, Begins
<1> QED
  BY <1>1, <1>2, <1>3, <1>4 DEF LateKept

\* Nothing is decided on that no spec asked for.
LEMMA WantedLess ==
  ASSUME PlannerTypes, NEW n \in Nat, NEW k \in Nat, k <= n, Wanted(n)
  PROVE  Wanted(k)
<1>1. PICK i \in 1..at : n <= Now.specs[i].replicas
  BY DEF Wanted
<1>2. i \in DOMAIN Now.specs
  <2>1. Now.specs \in Seq([replicas : 1..MaxPods, rev : Nat]) /\ at \in DOMAIN Now.specs
    BY ScenarioFacts DEF PlannerTypes, Scenario
  <2> QED
    BY <2>1, SMT
<1>3. Now.specs[i].replicas \in 1..MaxPods /\ MaxPods \in Nat
  BY <1>2, ScenarioFacts, PlannerAssumption DEF PlannerTypes
<1>4. k <= Now.specs[i].replicas
  BY <1>1, <1>3, SMT
<1> QED
  BY <1>4 DEF Wanted

LEMMA SpecWanted ==
  ASSUME PlannerTypes
  PROVE  Wanted(spec.replicas) /\ Wanted(0) /\ spec.replicas \in Nat
<1>1. at \in 1..at
  <2>1. Now.specs \in Seq([replicas : 1..MaxPods, rev : Nat]) /\ at \in DOMAIN Now.specs
    BY ScenarioFacts DEF PlannerTypes, Scenario
  <2> QED
    BY <2>1, SMT
<1>2. spec.replicas \in 1..MaxPods /\ MaxPods \in Nat
  BY ScenarioFacts, PlannerAssumption DEF PlannerTypes, spec
<1>3. Wanted(spec.replicas)
  BY <1>1, <1>2, SMT DEF Wanted, spec
<1> QED
  BY <1>2, <1>3, WantedLess, SMT

LEMMA ReconcileKeepsWanted ==
  ASSUME PlannerTypes, IStages, AllWanted, UNCHANGED env, NEW a \in SUBSET Up, NEW r \in SUBSET a,
         NEW d \in BOOLEAN, NEW g \in BOOLEAN, NEW o, o = Observe(a, r, d, g), Reconcile(o)
  PROVE  AllWanted'
<1>0. Decided(o, a, d)
  BY Decides
<1>1. /\ UNCHANGED <<at, cm, lastCM, sts, seen, late, pod, rev, pvc, disk>>
      /\ o.S = sts.replicas /\ o.cm = cm
      /\ o.S \in Nat /\ o.desired \in Nat /\ o.desired = spec.replicas /\ cm.size \in Nat
  BY <1>0, StageFacts DEF Decided
<1>2. Now' = Now /\ Wanted(cm.size) /\ Wanted(sts.replicas) /\ Wanted(spec.replicas)
  BY SpecWanted DEF Now, AllWanted
<1>3. PICK n : n = todo'.size
  OBVIOUS
<1>4. Wanted(n)
  <2>1. CASE n = o.desired \/ n = cm.size \/ n = o.S
    BY <1>1, <1>2, <2>1
  <2>2. CASE o.S < o.desired /\ n = o.S + 1
    BY <1>1, <1>2, <2>2, WantedLess, SMT
  <2>3. CASE o.S > 0 /\ n = o.S - 1
    BY <1>1, <1>2, <2>3, WantedLess, SMT
  <2>4. \/ n = o.desired \/ n = cm.size \/ n = o.S
        \/ o.S < o.desired /\ n = o.S + 1
        \/ o.S > 0 /\ n = o.S - 1
    <3>1. \/ todo' = Act("configmap", Held(0, o.desired), 0)
          \/ todo' = Act("scale", Held(0, o.cm.size), spec.rev)
          \/ o.S > 0 /\ ClassifyTo(o, todo')
      BY <1>0 DEF Decided
    <3>2. ASSUME NEW k, NEW e, NEW s, NEW v, todo' = Act(k, Held(e, s), v) PROVE n = s
      BY <1>3, <3>2 DEF Act, Held
    <3>3. CASE o.S > 0 /\ ClassifyTo(o, todo')
      <4>1. \/ todo' = Act("scale", Held(0, o.S + 1), o.rev) /\ o.cm.size = o.S + 1
            \/ todo' = Act("template", Held(0, o.S), spec.rev)
            \/ o.S < o.desired /\ todo' = Act("configmap", Held(o.cm.epoch + 1, o.S + 1), 0)
            \/ todo' = Act("post", Held(o.cm.epoch + 1, o.S - 1), 0)
            \/ todo' = Act("configmap", Held(o.cm.epoch + 1, o.S - 1), 0)
            \/ todo' = Act("scale", Held(0, o.S - 1), o.rev)
        BY <3>3 DEF ClassifyTo
      <4> QED
        BY <1>1, <1>3, <3>2, <3>3, <4>1
    <3> QED
      BY <1>1, <1>3, <3>1, <3>2, <3>3
  <2> QED
    BY <2>1, <2>2, <2>3, <2>4
<1> QED
  BY <1>1, <1>2, <1>3, <1>4 DEF AllWanted, Wanted

\* A write of the ConfigMap begins an addition, or ends a removal.
LEMMA WriteKeeps ==
  ASSUME PlannerTypes, IStages, Now.lag = "never", WriteConfigMap, todo' = NoAct
  PROVE  IStages'
<1>1. /\ cm'.epoch = todo.epoch /\ cm'.size = todo.size /\ lastCM' = cm
      /\ seen'.cm = cm' /\ seen'.sts = sts'
      /\ UNCHANGED <<sts, pod, rev, pvc, disk>> /\ Replicas' = Replicas
      /\ TodoConfigMap
  BY DEF IStages, TodoKept, WriteConfigMap, Cached, Held, podVars, Replicas
<1>2. TodoKept'
  BY ActFields DEF TodoKept
<1>3. CASE Bootstrap /\ cm = NoMembership /\ todo.epoch = 0
  <2>1. Bootstrap' /\ lastCM'.size = 0
    BY <1>1, <1>3 DEF Bootstrap, NoMembership, Held
  <2> QED
    BY <1>1, <1>2, <2>1 DEF IStages, Stage
<1>4. CASE Calm /\ todo.epoch = cm.epoch + 1 /\ todo.size = sts.replicas + 1
  <2>1. /\ cm'.size = sts'.replicas + 1 /\ sts'.replicas > 0 /\ cm'.epoch > 0 /\ pvc' = Replicas'
        /\ lastCM'.epoch < cm'.epoch
    BY <1>1, <1>4, StageFacts, SMT DEF Calm
  <2>2. ASSUME NEW i \in Replicas PROVE disk'[i].epoch = cm.epoch /\ disk'[i].size = sts.replicas
    BY <1>1, <1>4, StageFacts DEF Calm, HoldsCM, Holds
  <2>3. cm'.epoch - 1 = cm.epoch
    BY <1>1, <1>4, StageFacts, SMT
  <2>4. \A i \in Replicas' : Holds(i, cm.epoch - 1, sts.replicas)'
    BY <1>1, <2>2, <2>3 DEF Holds
  <2>5. Adding'
    BY <2>1, <2>4 DEF Adding
  <2> QED
    BY <1>1, <1>2, <2>1, <2>5 DEF IStages, Stage
<1>5. CASE Left /\ todo.epoch = cm.epoch + 1 /\ todo.size = sts.replicas - 1
  <2>1. /\ cm'.size + 1 = sts'.replicas /\ cm'.size > 0 /\ pvc' = Replicas'
        /\ lastCM'.epoch < cm'.epoch
    BY <1>1, <1>5, StageFacts, SMT DEF Left, Removing
  <2>2. disk'[sts'.replicas - 1].handed = cm'.epoch
    BY <1>1, <1>5 DEF Left
  <2>3. ASSUME NEW i \in Replicas PROVE HoldsCM(i)'
    BY <1>1, <1>5 DEF Left, HoldsCM, Holds
  <2>4. Dropping'
    BY <1>1, <2>1, <2>2, <2>3 DEF Dropping, HoldsCM, Holds
  <2> QED
    BY <1>1, <1>2, <2>1, <2>4 DEF IStages, Stage
<1> QED
  BY <1>1, <1>3, <1>4, <1>5 DEF TodoConfigMap

\* The StatefulSet gets the ConfigMap's size, or a template and no other size.
LEMMA ScaleKeeps ==
  ASSUME PlannerTypes, IStages, Now.lag = "never", ScaleStatefulSet, todo' = NoAct
  PROVE  IStages'
<1>1. /\ sts'.replicas = todo.size
      /\ seen'.cm = cm' /\ seen'.sts = sts'
      /\ UNCHANGED <<cm, lastCM, pod, rev, pvc, disk>>
      /\ Replicas' = 0..todo.size - 1
      /\ \A i, e, n : Holds(i, e, n)' <=> Holds(i, e, n)
      /\ \A i : HoldsCM(i)' <=> HoldsCM(i)
  BY DEF IStages, ScaleStatefulSet, Cached, podVars, Replicas, Holds, HoldsCM
<1>2. TodoKept'
  BY ActFields DEF TodoKept
<1>3. SUFFICES Stage'
  BY <1>1, <1>2 DEF IStages
<1>4. CASE Bootstrap /\ cm.size > 0 /\ todo.size = cm.size
  BY <1>1, <1>4 DEF Bootstrap, Settling, Stage
<1>5. CASE Adding /\ todo.size = sts.replicas + 1
  <2>1. sts'.replicas = cm'.size /\ sts'.replicas > 0
    BY <1>1, <1>5, StageFacts, SMT DEF Adding
  <2>2. ASSUME NEW i \in pvc
        PROVE  /\ i \in Replicas'
               /\ \/ HoldsCM(i)
                  \/ i + 1 < cm.size /\ disk[i].epoch + 1 = cm.epoch /\ disk[i].size + 1 = cm.size
    <3>1. i \in 0..sts.replicas - 1 /\ (HoldsCM(i) \/ Holds(i, cm.epoch - 1, sts.replicas))
      BY <1>5 DEF Adding, Replicas
    <3> QED
      BY <1>1, <1>5, <3>1, StageFacts, SMTT(30) DEF Adding, Holds
  <2>3. Settling'
    BY <1>1, <2>1, <2>2 DEF Settling
  <2> QED
    BY <2>3 DEF Stage
<1>6. CASE Dropping /\ todo.size = sts.replicas - 1
  <2>1. sts'.replicas = cm'.size /\ sts'.replicas > 0
    BY <1>1, <1>6, StageFacts, SMT DEF Dropping
  <2>2. \A i \in Replicas' : i \in Replicas
    BY <1>1, <1>6, StageFacts, SMT DEF Replicas
  <2>3. ASSUME NEW i \in pvc, i \notin Replicas' PROVE i = sts.replicas - 1
    <3>1. i \in 0..sts.replicas - 1
      BY <1>6, <2>3 DEF Dropping, Replicas
    <3> QED
      BY <1>1, <1>6, <2>3, <3>1, StageFacts, SMTT(20)
  <2>4. Settling'
    BY <1>1, <1>6, <2>1, <2>2, <2>3 DEF Dropping, Settling
  <2> QED
    BY <2>4 DEF Stage
<1>7. CASE todo.size = sts.replicas
  <2>1. sts'.replicas = sts.replicas /\ Replicas' = Replicas
    BY <1>1, <1>7 DEF Replicas
  <2> QED
    BY <1>1, <2>1 DEF IStages, Stage, Bootstrap, Settling, Adding, Removing, Dropping
<1> QED
  BY <1>4, <1>5, <1>6, <1>7 DEF IStages, TodoKept, TodoScale, ScaleStatefulSet

\* A post that counts begins a removal, and so overtakes all others.
RemovalBegins ==
  /\ Calm /\ sts.replicas > 1 /\ Others(0)
  /\ disk'[0].epoch = cm.epoch + 1 /\ disk'[0].size = sts.replicas - 1

LEMMA PostEffect ==
  ASSUME PlannerTypes, NEW m \in Action, handleSetMembership(m), Behind(m) \/ Begins(m)
  PROVE  /\ UNCHANGED <<cm, lastCM, sts, seen, pvc>>
         /\ disk'[0].epoch >= disk[0].epoch
         /\ disk' = disk \/ (RemovalBegins /\ Begins(m))
<1>0. 0 \in Ordinal /\ m.epoch \in Nat /\ disk \in [Ordinal -> Volume] /\ disk[0].epoch \in Nat
  <2>1. 0 \in Ordinal
    BY PlannerAssumption, SMT DEF Ordinal
  <2> QED
    BY <2>1, StageFacts DEF Action, PlannerTypes
<1>1. UNCHANGED <<cm, lastCM, sts, seen, pvc>>
  BY DEF handleSetMembership
<1>2. CASE m.epoch > disk[0].epoch
  <2>1. Begins(m)
    BY <1>0, <1>2, SMT DEF Behind
  <2>2. disk' = [disk EXCEPT ![0].epoch = m.epoch, ![0].size = m.size]
    BY <1>2 DEF handleSetMembership
  <2>3. disk'[0].epoch = m.epoch /\ disk'[0].size = m.size /\ Others(0)
    BY <1>0, <2>2 DEF Others, Volume
  <2>4. disk'[0].epoch >= disk[0].epoch
    BY <1>0, <1>2, <2>3, SMT
  <2> QED
    BY <1>1, <2>1, <2>3, <2>4 DEF Begins, RemovalBegins
<1>3. CASE ~(m.epoch > disk[0].epoch)
  <2>1. disk' = disk
    BY <1>3 DEF handleSetMembership
  <2> QED
    BY <1>0, <1>1, <2>1, SMT
<1> QED
  BY <1>2, <1>3

LEMMA RemovalStage ==
  ASSUME PlannerTypes, RemovalBegins, UNCHANGED <<cm, sts, pvc>>
  PROVE  Removing'
<1>1. Replicas' = Replicas /\ Replicas \subseteq Ordinal
  BY StageFacts DEF Replicas
<1>2. ASSUME NEW i \in Replicas PROVE HoldsCM(i)' \/ Holds(i, cm.epoch + 1, sts.replicas - 1)'
  <2>1. CASE i = 0
    BY <2>1 DEF Holds, RemovalBegins
  <2>2. CASE i # 0
    <3>1. disk'[i] = disk[i] /\ HoldsCM(i)
      BY <1>1, <2>2 DEF RemovalBegins, Calm, Others
    <3> QED
      BY <3>1 DEF HoldsCM, Holds
  <2> QED
    BY <2>1, <2>2
<1> QED
  BY <1>1, <1>2 DEF Removing, RemovalBegins, Calm, Holds

\* What a membership that pod 0 is given leaves of the other posts.
LEMMA PostsKept ==
  ASSUME PlannerTypes, UNCHANGED <<env, at>>, NEW m \in Action, handleSetMembership(m),
         Behind(m) \/ Begins(m), NEW n \in Action, "late" \in Now.faults, Behind(n) \/ Begins(n)
  PROVE  (Behind(n) \/ disk' # disk => Behind(n)') /\ (disk' = disk /\ Begins(n) => Begins(n)')
<1>0. /\ UNCHANGED <<cm, lastCM, sts, seen, pvc>> /\ disk'[0].epoch >= disk[0].epoch
      /\ disk' = disk \/ (RemovalBegins /\ Begins(m))
  BY PostEffect
<1>1. Now' = Now /\ LastUnwanted' = LastUnwanted
  BY <1>0 DEF Now, LastUnwanted
<1>2. /\ n.epoch \in Nat /\ disk[0].epoch \in Nat /\ cm.epoch \in Nat
  <2>1. 0 \in Ordinal
    BY PlannerAssumption, SMT DEF Ordinal
  <2> QED
    BY <2>1, StageFacts DEF Action
<1>3. disk'[0].epoch \in Nat
  BY <1>0, <1>2, SMT DEF RemovalBegins
<1>4. ASSUME Behind(n) PROVE Behind(n)'
  BY <1>0, <1>1, <1>2, <1>3, <1>4, SMT DEF Behind
<1>5. ASSUME disk' # disk, Begins(n) PROVE Behind(n)'
  <2>1. disk'[0].epoch = cm.epoch + 1 /\ n.epoch = cm.epoch + 1
    BY <1>0, <1>5 DEF RemovalBegins, Begins
  <2>2. n.epoch <= disk'[0].epoch
    BY <1>2, <2>1, SMT
  <2> QED
    BY <1>1, <2>2 DEF Behind
<1>6. ASSUME disk' = disk, Begins(n) PROVE Begins(n)'
  <2>1. Calm' = Calm
    BY <1>0, <1>6, SameStage
  <2> QED
    BY <1>0, <1>1, <1>6, <2>1 DEF Begins
<1> QED
  BY <1>4, <1>5, <1>6

LEMMA PostStage ==
  ASSUME PlannerTypes, IStages, NEW m \in Action, handleSetMembership(m), Behind(m) \/ Begins(m)
  PROVE  Stage'
<1>0. UNCHANGED <<cm, sts, pvc>> /\ (disk' = disk \/ RemovalBegins)
  BY PostEffect
<1>1. CASE disk' = disk
  BY <1>0, <1>1, SameStage DEF IStages
<1>2. CASE RemovalBegins
  BY <1>0, <1>2, RemovalStage DEF Stage
<1> QED
  BY <1>0, <1>1, <1>2

-----------------------------------------------------------------------------
\* A configuration written, or a size or template applied, while posts that
\* were given up are all behind.
LEMMA WriteKeepsLate ==
  ASSUME PlannerTypes, UNCHANGED <<env, late, disk>>, LateKept, todo.kind \notin {"none", "post"}
  PROVE  LateKept'
<1>1. \A m \in late : Behind(m)
  BY DEF LateKept
<1> QED
  BY <1>1 DEF LateKept, Behind, Now

LEMMA NoActWanted ==
  ASSUME PlannerTypes, UNCHANGED <<env, at>>, AllWanted, todo' = NoAct,
         cm' = cm \/ cm'.size = todo.size, sts' = sts \/ sts'.replicas = todo.size
  PROVE  AllWanted'
<1>1. Wanted(0) /\ Now' = Now /\ todo'.size = 0
  BY SpecWanted DEF Now, NoAct, Act, NoMembership, Held
<1> QED
  BY <1>1 DEF AllWanted, Wanted

LEMMA ExecuteKeeps ==
  ASSUME PlannerTypes, UNCHANGED env, IPlan, Now.lag = "never", Execute
  PROVE  IPlan'
<1>0. IStages /\ LateKept /\ AllWanted /\ todo' = NoAct /\ UNCHANGED <<at, late>> /\ Now' = Now
  BY DEF IPlan, Execute, Now
<1>1. CASE WriteConfigMap
  <2>1. IStages'
    BY <1>0, <1>1, WriteKeeps
  <2>2. LateKept'
    BY <1>0, <1>1, WriteKeepsLate DEF WriteConfigMap, podVars
  <2>3. AllWanted'
    BY <1>0, <1>1, NoActWanted DEF WriteConfigMap, Held
  <2> QED
    BY <2>1, <2>2, <2>3 DEF IPlan
<1>2. CASE ScaleStatefulSet
  <2>1. IStages'
    BY <1>0, <1>2, ScaleKeeps
  <2>2. LateKept'
    BY <1>0, <1>2, WriteKeepsLate DEF ScaleStatefulSet, podVars
  <2>3. AllWanted'
    BY <1>0, <1>2, NoActWanted DEF ScaleStatefulSet
  <2> QED
    BY <2>1, <2>2, <2>3 DEF IPlan
<1>3. CASE PostMembership
  <2>1. PICK m : m = todo
    OBVIOUS
  <2>2. m \in Action /\ handleSetMembership(m) /\ (Behind(m) \/ Begins(m))
    BY <1>0, <1>3, <2>1 DEF PostMembership, PlannerTypes, IStages, TodoKept
  <2>3. UNCHANGED <<cm, lastCM, sts, seen, pvc>>
    BY <2>2, PostEffect
  <2>4. Stage' /\ TodoKept'
    BY <1>0, <2>2, PostStage, ActFields DEF TodoKept
  <2>5. IStages'
    BY <1>0, <2>3, <2>4 DEF IStages
  <2>6. LateKept'
    <3>1. ASSUME NEW n \in late PROVE (Behind(n) \/ (Begins(n) /\ "late" \in Now.faults))'
      <4>1. n \in Action /\ "late" \in Now.faults /\ (Behind(n) \/ Begins(n))
        BY <1>0 DEF LateKept, Behind, PlannerTypes
      <4> QED
        BY <1>0, <2>2, <4>1, PostsKept
    <3> QED
      BY <1>0, <3>1, ActFields DEF LateKept
  <2>7. AllWanted'
    BY <1>0, <2>3, NoActWanted
  <2> QED
    BY <2>5, <2>6, <2>7 DEF IPlan
<1> QED
  BY <1>1, <1>2, <1>3 DEF Execute

\* A post that lands late.
LEMMA LandsKeeps ==
  ASSUME PlannerTypes, UNCHANGED env, IPlan, PostLands
  PROVE  IPlan'
<1>0. IStages /\ LateKept /\ AllWanted /\ UNCHANGED <<at, todo>> /\ Now' = Now
  BY DEF IPlan, PostLands, Now
<1>1. PICK m \in late : handleSetMembership(m) /\ late' = late \ {m}
  BY DEF PostLands
<1>2. /\ m \in Action /\ "late" \in Now.faults
      /\ \/ Behind(m)
         \/ Begins(m) /\ todo.kind \in {"none", "post"}
  BY <1>0 DEF PlannerTypes, LateKept, Behind
<1>3. /\ UNCHANGED <<cm, lastCM, sts, seen, pvc>> /\ Stage'
      /\ disk' = disk \/ (RemovalBegins /\ Begins(m))
  BY <1>0, <1>1, <1>2, PostEffect, PostStage
<1>4. ASSUME NEW n \in Action, Behind(n) \/ Begins(n)
      PROVE  (Behind(n) => Behind(n)') /\ (Behind(n)' \/ (disk' = disk /\ Begins(n)'))
  BY <1>0, <1>1, <1>2, <1>4, PostsKept
<1>5. TodoKept'
  <2>1. PICK n : n = todo /\ n = todo'
    BY <1>0
  <2>2. (todo.kind = "post" => Behind(todo) \/ Begins(todo))'
    <3>1. n \in Action /\ (todo.kind = "post" => Behind(n) \/ Begins(n))
      BY <1>0, <2>1 DEF PlannerTypes, IStages, TodoKept
    <3>2. Behind(n)' = Behind(todo)' /\ Begins(n)' = Begins(todo)'
      BY <2>1 DEF Behind, Begins
    <3> QED
      BY <1>4, <2>1, <3>1, <3>2
  <2>3. CASE disk' = disk
    <3>1. /\ Bootstrap' = Bootstrap /\ Adding' = Adding /\ Dropping' = Dropping
          /\ Calm' = Calm /\ Left' = Left
      BY <1>3, <2>3, SameStage
    <3> QED
      BY <1>0, <1>3, <2>2, <3>1 DEF IStages, TodoKept, TodoConfigMap, TodoScale
  <2>4. CASE disk' # disk
    <3>1. todo'.kind \in {"none", "post"}
      <4>1. ~Behind(m)
        <5>1. 0 \in Ordinal /\ disk[0].epoch \in Nat /\ m.epoch \in Nat /\ cm.epoch \in Nat
          <6>1. 0 \in Ordinal
            BY PlannerAssumption, SMT DEF Ordinal
          <6> QED
            BY <1>2, <6>1, StageFacts DEF Action
        <5>2. disk[0].epoch = cm.epoch /\ m.epoch = cm.epoch + 1
          <6>1. 0 \in Replicas
            BY <1>3, <2>4, StageFacts, SMT DEF RemovalBegins, Replicas
          <6> QED
            BY <1>3, <2>4, <6>1 DEF RemovalBegins, Calm, HoldsCM, Holds, Begins
        <5> QED
          BY <5>1, <5>2, SMT DEF Behind
      <4> QED
        BY <1>0, <1>2, <4>1
    <3> QED
      BY <2>2, <3>1 DEF TodoKept
  <2> QED
    BY <2>3, <2>4
<1>6. LateKept'
  <2>1. ASSUME NEW n \in late
        PROVE  (\/ Behind(n)
                \/ Begins(n) /\ todo.kind \in {"none", "post"} /\ "late" \in Now.faults)'
    <3>1. n \in Action /\ (Behind(n) \/ (Begins(n) /\ todo.kind \in {"none", "post"}))
      BY <1>0 DEF LateKept, PlannerTypes
    <3>2. CASE Behind(n)
      BY <1>4, <3>1, <3>2
    <3>3. CASE Begins(n) /\ todo.kind \in {"none", "post"}
      BY <1>0, <1>2, <1>4, <3>1, <3>3
    <3> QED
      BY <3>1, <3>2, <3>3
  <2> QED
    BY <1>1, <2>1 DEF LateKept
<1>7. AllWanted'
  BY <1>0, <1>3 DEF AllWanted, Wanted
<1> QED
  BY <1>0, <1>3, <1>5, <1>6, <1>7 DEF IPlan, IStages

\* A call that fails, or that is given up.
LEMMA FailsKeeps ==
  ASSUME PlannerTypes, UNCHANGED env, IPlan, OperatorFails \/ PostTimesOut
  PROVE  IPlan'
<1>0. /\ IStages /\ LateKept /\ AllWanted /\ todo' = NoAct /\ Now' = Now
      /\ UNCHANGED <<at, cm, lastCM, sts, seen, pvc, disk>>
  BY DEF IPlan, OperatorFails, PostTimesOut, podVars, Now
<1>1. Stage' = Stage /\ Calm' = Calm /\ LastUnwanted' = LastUnwanted
  BY <1>0, SameStage DEF LastUnwanted
<1>2. IStages'
  BY <1>0, <1>1, ActFields DEF IStages, TodoKept
<1>3. LateKept'
  <2>1. ASSUME NEW n \in late' PROVE Behind(n) \/ (Begins(n) /\ "late" \in Now.faults)
    <3>1. CASE n \in late
      BY <1>0, <3>1 DEF LateKept
    <3>2. CASE PostTimesOut /\ n = todo
      BY <1>0, <3>2 DEF PostTimesOut, IStages, TodoKept
    <3> QED
      BY <2>1, <3>1, <3>2 DEF OperatorFails, PostTimesOut
  <2>2. ASSUME NEW n, Behind(n) \/ (Begins(n) /\ "late" \in Now.faults)
        PROVE  Behind(n)' \/ (Begins(n)' /\ "late" \in Now'.faults)
    BY <1>0, <1>1, <2>2 DEF Behind, Begins
  <2> QED
    BY <1>0, <2>1, <2>2, ActFields DEF LateKept
<1>4. AllWanted'
  BY <1>0, NoActWanted
<1> QED
  BY <1>2, <1>3, <1>4 DEF IPlan

\* The user goes on to the next spec.
LEMMA SpecKeeps ==
  ASSUME PlannerTypes, UNCHANGED env, IPlan, SpecChange
  PROVE  IPlan'
<1>0. /\ IStages /\ LateKept /\ AllWanted /\ Now' = Now /\ at' = at + 1
      /\ UNCHANGED <<cm, lastCM, sts, seen, todo, late, pvc, disk>>
  BY DEF IPlan, SpecChange, operatorVars, podVars, Now
<1>1. at \in Nat /\ Len(Now.specs) \in Nat
  <2>1. Now.specs \in Seq([replicas : 1..MaxPods, rev : Nat]) /\ at \in DOMAIN Now.specs
    BY ScenarioFacts DEF PlannerTypes, Scenario
  <2> QED
    BY <2>1, SMT
<1>2. /\ Bootstrap' = Bootstrap /\ Adding' = Adding /\ Dropping' = Dropping
      /\ Calm' = Calm /\ Left' = Left /\ Stage' = Stage
  BY <1>0, SameStage
<1>3. LastUnwanted => LastUnwanted'
  <2>1. \A k \in at + 1..Len(Now.specs) : k \in at..Len(Now.specs)
    BY <1>1, SMT
  <2> QED
    BY <1>0, <2>1 DEF LastUnwanted
<1>4. ASSUME NEW n PROVE (Behind(n) => Behind(n)') /\ (Begins(n) => Begins(n)')
  BY <1>0, <1>2, <1>3 DEF Behind, Begins
<1>5. TodoKept'
  <2>1. PICK n : n = todo /\ n = todo'
    BY <1>0
  <2>2. (todo.kind = "post" => Behind(todo) \/ Begins(todo))'
    <3>1. todo.kind = "post" => Behind(n) \/ Begins(n)
      BY <1>0, <2>1 DEF IStages, TodoKept
    <3>2. Behind(n)' = Behind(todo)' /\ Begins(n)' = Begins(todo)'
      BY <2>1 DEF Behind, Begins
    <3> QED
      BY <1>4, <2>1, <3>1, <3>2
  <2> QED
    BY <1>0, <1>2, <2>2 DEF IStages, TodoKept, TodoConfigMap, TodoScale
<1>6. LateKept'
  BY <1>0, <1>4 DEF LateKept
<1>7. AllWanted'
  <2>1. \A i \in 1..at : i \in 1..at + 1
    BY <1>1, SMT
  <2> QED
    BY <1>0, <2>1 DEF AllWanted, Wanted
<1> QED
  BY <1>0, <1>2, <1>5, <1>6, <1>7 DEF IPlan, IStages

LEMMA NextKeeps ==
  ASSUME PlannerTypes, Steady(env), IPlan, [Next]_vars
  PROVE  IPlan'
<1>0. /\ Now.lag = "never" /\ "scaled up" \notin Now.faults /\ "scaled down" \notin Now.faults
      /\ "late" \in Now.faults => Shrinking(Now.specs)
      /\ UNCHANGED env /\ IStages /\ LateKept /\ AllWanted
  BY DEF Steady, Now, IPlan, Next, vars
<1>1. CASE UNCHANGED vars
  <2>1. /\ Bootstrap' = Bootstrap /\ Adding' = Adding /\ Dropping' = Dropping
        /\ Calm' = Calm /\ Left' = Left /\ Stage' = Stage
    BY <1>1, SameStage DEF vars, operatorVars, podVars
  <2>2. UNCHANGED <<env, at, cm, lastCM, sts, seen, todo, late, disk>>
    BY <1>1 DEF vars, operatorVars, podVars
  <2>3. LastUnwanted' = LastUnwanted /\ Now' = Now
    BY <2>2 DEF LastUnwanted, Now
  <2>4. TodoKept'
    BY <1>0, <2>1, <2>2, <2>3 DEF IStages, TodoKept, TodoConfigMap, TodoScale, Behind, Begins
  <2>5. LateKept' /\ AllWanted'
    BY <1>0, <2>1, <2>2, <2>3 DEF LateKept, AllWanted, Wanted, Behind, Begins
  <2> QED
    BY <1>0, <2>1, <2>2, <2>4, <2>5 DEF IPlan, IStages
<1>2. ASSUME NEW a \in SUBSET Up, NEW r \in SUBSET a, NEW d \in BOOLEAN, NEW g \in BOOLEAN,
             Reconcile(Observe(a, r, d, g))
      PROVE  IPlan'
  BY <1>0, <1>2, ReconcileKeeps, ReconcileKeepsLate, ReconcileKeepsWanted DEF IPlan
<1>3. ~ScaleByHand
  BY <1>0 DEF ScaleByHand
<1>4. ~CacheSync
  BY <1>0 DEF CacheSync, IStages
<1>5. CASE Next
  BY <1>0, <1>2, <1>3, <1>4, <1>5, ExecuteKeeps, FailsKeeps, LandsKeeps, SpecKeeps, PodKeeps DEF Next
<1> QED
  BY <1>1, <1>5

LEMMA SteadyStep == ISteady /\ [Next]_vars => ISteady'
<1>1. [Next]_vars => env' = env
  BY DEF Next, vars
<1> QED
  BY <1>1, NextTypes, NextKeeps DEF ISteady, Steady

LEMMA SteadyInit == Init => ISteady
<1> SUFFICES ASSUME Init PROVE IPlan
  BY InitTypes DEF ISteady
<1>1. IStages
  BY ActFields DEF Init, IStages, Stage, Bootstrap, TodoKept, NoMembership, Held
<1>2. AllWanted
  <2>1. Wanted(0) /\ cm.size = 0 /\ sts.replicas = 0 /\ todo.size = 0
    BY InitTypes, SpecWanted DEF Init, NoAct, Act, NoMembership, Held
  <2> QED
    BY <2>1 DEF AllWanted
<1> QED
  BY <1>1, <1>2 DEF Init, IPlan, LateKept

\* The stages are all there is: ISteady holds in every state.
THEOREM StagesInvariant == Spec => []ISteady
BY SteadyInit, SteadyStep, PTL DEF Spec

-----------------------------------------------------------------------------
\* In every stage the memberships are the ConfigMap's and, next to it, that
\* of the change under way.
Neighbour(u, e) == u = Held(e, cm.size - 1)

LEMMA StageViews ==
  ASSUME PlannerTypes, IStages
  PROVE  \/ cm.epoch > 0 /\ \A u \in Memberships : u = cm \/ Neighbour(u, cm.epoch - 1)
         \/ \A u \in Memberships : u = cm
         \/ \A u \in Memberships : u = cm \/ Neighbour(u, cm.epoch + 1)
<1>0. cm = Held(cm.epoch, cm.size) /\ pvc \subseteq Ordinal
  BY DEF PlannerTypes, Membership, Held
<1>1. ASSUME NEW i, HoldsCM(i) PROVE View(i) = cm
  BY <1>0, <1>1 DEF View, HoldsCM, Holds
<1>2. ASSUME NEW i, NEW e, NEW n, Holds(i, e, n) PROVE View(i) = Held(e, n)
  BY <1>2 DEF View, Holds
<1>3. ASSUME NEW i, disk[i] = Empty PROVE View(i) = NoMembership
  BY <1>3, EmptyFacts DEF View, NoMembership
<1>4. CASE Bootstrap
  BY <1>4 DEF Bootstrap, Memberships
<1>5. CASE Settling
  <2>1. ASSUME NEW i \in pvc PROVE \/ View(i) = NoMembership \/ View(i) = cm
                                   \/ cm.epoch > 0 /\ Neighbour(View(i), cm.epoch - 1)
    <3>1. CASE disk[i] = Empty \/ HoldsCM(i)
      BY <1>1, <1>3, <3>1
    <3>2. CASE disk[i].epoch + 1 = cm.epoch /\ disk[i].size + 1 = cm.size
      <4>1. disk[i].epoch = cm.epoch - 1 /\ disk[i].size = cm.size - 1 /\ cm.epoch > 0
        BY <1>0, <3>2, StageFacts, SMT
      <4> QED
        BY <4>1 DEF Neighbour, View
    <3> QED
      BY <1>5, <3>1, <3>2 DEF Settling
  <2> QED
    BY <2>1 DEF Memberships
<1>6. CASE Adding
  <2>1. sts.replicas = cm.size - 1 /\ cm.epoch > 0
    BY <1>6, StageFacts, SMT DEF Adding
  <2>2. ASSUME NEW i \in pvc PROVE View(i) = cm \/ Neighbour(View(i), cm.epoch - 1)
    BY <1>1, <1>2, <1>6, <2>1 DEF Adding, Neighbour
  <2> QED
    BY <2>1, <2>2 DEF Memberships
<1>7. CASE Removing
  <2>1. ASSUME NEW i \in pvc PROVE View(i) = cm \/ Neighbour(View(i), cm.epoch + 1)
    BY <1>1, <1>2, <1>7 DEF Removing, Neighbour
  <2> QED
    BY <2>1 DEF Memberships
<1>8. CASE Dropping
  BY <1>1, <1>8 DEF Dropping, Memberships
<1> QED
  BY <1>4, <1>5, <1>6, <1>7, <1>8 DEF IStages, Stage

LEMMA StagesOneChange ==
  ASSUME PlannerTypes, IStages
  PROVE  OneChangeAtATime
<1>1. cm.epoch \in Nat
  BY StageFacts
<1>2. \A e, n : Held(e, n).epoch = e
  BY DEF Held
<1> QED
  BY <1>1, <1>2, StageViews, SMT DEF OneChangeAtATime, Neighbour

\* A pod scaled away, or about to be, has drained.
LEMMA StagesDrained ==
  ASSUME PlannerTypes, IStages, NEW i \in pvc, disk[i].size > 0, i >= sts.replicas \/ i >= cm.size
  PROVE  Drained(i)
<1>0. i \in Ordinal /\ i \in Nat
  BY StageFacts DEF PlannerTypes
<1>1. ASSUME HoldsCM(i), disk[i].handed = cm.epoch, i >= cm.size, \A j \in 0..cm.size - 1 : HoldsCM(j)
      PROVE  Drained(i)
  BY <1>0, <1>1, StageFacts, SMT DEF Drained, IsMember, HoldsCM, Holds
<1>2. CASE Settling
  <2>1. i \notin Replicas /\ Replicas = 0..cm.size - 1 /\ i >= cm.size
    BY <1>0, <1>2, StageFacts, SMT DEF Settling, Replicas
  <2> QED
    BY <1>1, <1>2, <2>1 DEF Settling
<1>3. CASE Dropping
  <2>1. i \in 0..sts.replicas - 1 /\ cm.size + 1 = sts.replicas
    BY <1>3 DEF Dropping, Replicas
  <2>2. i = sts.replicas - 1 /\ i >= cm.size
    BY <2>1, <1>0, StageFacts, SMT
  <2>3. \A j \in 0..cm.size - 1 : j \in Replicas
    BY <2>1, StageFacts, SMT DEF Replicas
  <2> QED
    BY <1>1, <1>3, <2>2, <2>3 DEF Dropping
<1>4. CASE Bootstrap
  BY <1>4 DEF Bootstrap
<1>5. CASE Adding \/ Removing
  <2>1. i \in 0..sts.replicas - 1 /\ cm.size >= sts.replicas
    BY <1>5, StageFacts, SMT DEF Adding, Removing, Replicas
  <2> QED
    BY <2>1, <1>0, StageFacts, SMT
<1> QED
  BY <1>2, <1>3, <1>4, <1>5 DEF IStages, Stage

LEMMA StagesNotBehind ==
  ASSUME PlannerTypes, IStages
  PROVE  ConfigMapNotBehind
<1>1. ASSUME NEW u \in Memberships, u.epoch > cm.epoch
      PROVE  u.epoch = cm.epoch + 1 /\ u.size = cm.size - 1
  <2>1. u = cm \/ Neighbour(u, cm.epoch - 1) \/ Neighbour(u, cm.epoch + 1)
    BY StageViews
  <2> QED
    BY <1>1, <2>1, StageFacts, SMT DEF Neighbour, Held
<1>2. ASSUME NEW i \in pvc, disk[i].size > 0, ~Drained(i) PROVE i < cm.size
  <2>1. i \in Nat
    BY StageFacts DEF PlannerTypes
  <2> QED
    BY <1>2, <2>1, StagesDrained, StageFacts, SMT
<1> QED
  BY <1>1, <1>2 DEF ConfigMapNotBehind

\* A node that has left knows of the latest epoch.
LEMMA LeaverIsNewest ==
  ASSUME PlannerTypes, IStages, NEW i \in pvc, disk[i].size > 0, ~IsMember(i)
  PROVE  cm.epoch <= disk[i].epoch /\ \A j \in pvc : disk[j].epoch <= disk[i].epoch
<1>0. /\ i \in Ordinal /\ i \in Nat /\ pvc \subseteq Ordinal /\ disk[i].size \in Nat /\ i >= disk[i].size
      /\ disk[i] # Empty
  BY StageFacts, EmptyFacts, SMT DEF PlannerTypes, IsMember
<1>1. CASE Settling
  <2>1. HoldsCM(i)
    BY <1>0, <1>1, SettlingLeaver
  <2>2. ASSUME NEW j \in pvc PROVE disk[j].epoch <= cm.epoch
    BY <1>0, <1>1, StageFacts, EmptyFacts, SMT DEF Settling, HoldsCM, Holds
  <2> QED
    BY <2>1, <2>2, StageFacts DEF HoldsCM, Holds
<1>2. CASE Adding
  <2>1. HoldsCM(i) \/ Holds(i, cm.epoch - 1, sts.replicas)
    BY <1>2 DEF Adding
  <2>2. i \in 0..sts.replicas - 1 /\ cm.size = sts.replicas + 1
    BY <1>2 DEF Adding, Replicas
  <2> QED
    BY <1>0, <2>1, <2>2, StageFacts, SMT DEF HoldsCM, Holds
<1>3. CASE Removing
  <2>1. \A j \in pvc : disk[j].epoch = cm.epoch \/ disk[j].epoch = cm.epoch + 1
    BY <1>3 DEF Removing, HoldsCM, Holds
  <2>2. i \in 0..sts.replicas - 1 /\ cm.size = sts.replicas
    BY <1>3 DEF Removing, Replicas
  <2>3. disk[i].epoch = cm.epoch + 1
    BY <1>0, <1>3, <2>2, StageFacts, SMT DEF Removing, HoldsCM, Holds
  <2> QED
    BY <2>1, <2>3, StageFacts, SMT
<1>4. CASE Dropping
  BY <1>4, StageFacts, SMT DEF Dropping, HoldsCM, Holds
<1>5. CASE Bootstrap
  BY <1>5 DEF Bootstrap
<1> QED
  BY <1>1, <1>2, <1>3, <1>4, <1>5 DEF IStages, Stage

LEMMA LeaverStep ==
  ASSUME PlannerTypes, Steady(env), IStages, [Next]_vars, NEW i \in Ordinal, disk[i].size > 0, ~IsMember(i)
  PROVE  ~IsMember(i)' \/ disk'[i] = Empty
<1>0. i \in pvc
  BY EmptyFacts, SMT DEF PlannerTypes, NodeTypes
<1>1. CASE UNCHANGED disk
  BY <1>1 DEF IsMember
<1>2. CASE PostMembership \/ PostLands
  <2>1. i # 0
    BY DEF IsMember
  <2>2. disk' = disk \/ \E e, n : disk' = [disk EXCEPT ![0].epoch = e, ![0].size = n]
    BY <1>2 DEF PostMembership, PostLands, handleSetMembership
  <2>3. disk'[i] = disk[i]
    BY <2>1, <2>2 DEF PlannerTypes
  <2> QED
    BY <2>3 DEF IsMember
<1>3. ASSUME NEW j \in Ordinal, PodStep(j) \/ PodCrash(j) PROVE ~IsMember(i)' \/ disk'[i] = Empty
  <2>1. PICK k \in Ordinal : VolumeStep(k)
    BY <1>3, PodEffects
  <2>2. CASE VolumesKept
    BY <2>2, <1>1 DEF VolumesKept
  <2>3. CASE Others(k) /\ i # k
    BY <2>3 DEF Others, IsMember
  <2>4. cm.epoch <= disk[i].epoch /\ \A n \in pvc : disk[n].epoch <= disk[i].epoch
    BY <1>0, LeaverIsNewest
  <2>5. CASE i = k
    <3>1. /\ disk[k].epoch \in Nat /\ cm.epoch \in Nat /\ lastCM.epoch \in Nat
          /\ \A n \in pvc : disk[n].epoch \in Nat
      BY StageFacts DEF PlannerTypes
    <3>2. ~TakesCM(k) /\ (\A n \in Ordinal : ~TakesFrom(k, n))
      BY <2>4, <2>5, <3>1, SMT DEF TakesCM, TakesFrom
    <3>3. ~TakesLast(k)
      <4>1. lastCM.epoch < cm.epoch \/ lastCM.size = 0
        BY DEF IStages
      <4> QED
        BY <2>4, <2>5, <3>1, <4>1, SMT DEF TakesLast
    <3> QED
      BY <2>1, <2>2, <2>5, <3>2, <3>3 DEF VolumeStep, VolumeDeleted, HandedOff, IsMember
  <2> QED
    BY <2>1, <2>2, <2>3, <2>5 DEF VolumeStep, VolumeDeleted, HandedOff, TakesCM, TakesLast, TakesFrom, Takes
<1> QED
  BY <1>1, <1>2, <1>3 DEF Next, vars, operatorVars, podVars, Reconcile, Execute, WriteConfigMap, ScaleStatefulSet,
                          OperatorFails, PostTimesOut, CacheSync, SpecChange, ScaleByHand

LEMMA TemplateStep ==
  ASSUME PlannerTypes, Steady(env), IStages, [Next]_vars, sts'.rev # sts.rev, sts.replicas > 0
  PROVE  Memberships = {cm} /\ cm.size = sts.replicas /\ sts'.replicas = sts.replicas
<1>1. ScaleStatefulSet
  <2>1. ~UNCHANGED sts /\ ~ScaleByHand
    BY DEF Steady, ScaleByHand, Now
  <2> QED
    BY <2>1 DEF Next, vars, operatorVars, podVars, Reconcile, Execute, WriteConfigMap, PostMembership,
                PostTimesOut, PostLands, handleSetMembership, OperatorFails, CacheSync, SpecChange,
                PodStep, PodCrash
<1>2. Calm /\ todo.size = sts.replicas
  BY <1>1, SMT DEF ScaleStatefulSet, IStages, TodoKept, TodoScale, Bootstrap
<1>3. \A i \in pvc : View(i) = cm
  <2>1. cm = Held(cm.epoch, cm.size)
    BY DEF PlannerTypes, Membership, Held
  <2> QED
    BY <1>2, <2>1 DEF Calm, View, HoldsCM, Holds
<1>4. cm # NoMembership
  BY <1>2, SMT DEF Calm, NoMembership, Held
<1> QED
  BY <1>1, <1>2, <1>3, <1>4 DEF Memberships, Calm, ScaleStatefulSet

\* Plan has a place for every stage.
LEMMA StagesExplained ==
  ASSUME PlannerTypes, IStages, NEW a \in SUBSET Up
  PROVE  Plan(Observe(a, a, TRUE, FALSE)).kind # "degraded"
<1> DEFINE o == Observe(a, a, TRUE, FALSE)
<1>1. /\ o.S = sts.replicas /\ o.cm = cm /\ o.answers = a /\ o.overdue = FALSE
      /\ cm = Held(cm.epoch, cm.size)
  BY DEF IStages, Observe, PlannerTypes, Membership, Held
<1>2. views(o) = {View(i) : i \in Replicas \cap a}
  BY <1>1 DEF views, Pods, Replicas
<1> SUFFICES Plan(o).kind # "degraded"
  OBVIOUS
<1> HIDE DEF o
<1>3. ASSUME NEW i \in Replicas \cap a
      PROVE  i \in pvc /\ View(i) \in Memberships /\ disk[i] # Empty
  <2>1. i \in pvc /\ disk[i].size > 0
    BY StageFacts DEF Up, PlannerTypes, NodeTypes
  <2> QED
    BY <2>1, EmptyFacts, SMT DEF Memberships, View, NoMembership, Held
<1>4. readViews(o) /\ ~unavailable(o)
  <2>1. views(o) \subseteq Memberships
    BY <1>2, <1>3
  <2>2. readViews(o)
    BY <2>1, StagesOneChange DEF readViews, OneChangeAtATime
  <2>3. ~unavailable(o)
    BY <1>1 DEF unavailable
  <2> QED
    BY <2>2, <2>3
<1>5. ASSUME cm.size > 0, classify(o).kind # "degraded", sts.replicas > 0 PROVE Plan(o).kind # "degraded"
  BY <1>1, <1>4, <1>5, SMT DEF Plan, NoMembership, Held
<1>6. CASE Bootstrap
  <2>1. o.S = 0
    BY <1>1, <1>6 DEF Bootstrap
  <2>2. Plan(o) = Act("configmap", Held(0, o.desired), 0) \/ Plan(o) = Act("scale", Held(0, o.cm.size), spec.rev)
    BY <2>1, SMT DEF Plan
  <2> QED
    BY <2>2, ActFields, SMT
<1>7. /\ scaleUp(o).kind # "degraded" /\ drain(o).kind # "degraded" /\ converged(o).kind # "degraded"
      /\ Act("scale", Held(0, o.S - 1), o.rev).kind # "degraded" /\ wait.kind # "degraded"
  BY ActFields DEF scaleUp, drain, converged, Act, NoAct, wait
<1>8. ASSUME NEW i, HoldsCM(i) PROVE View(i) = cm
  BY <1>1, <1>8 DEF View, HoldsCM, Holds
<1>9. CASE Settling
  <2>1. views(o) \subseteq {cm} \cup Before(cm, o.S - 1)
    <3>1. ASSUME NEW i \in Replicas \cap a PROVE View(i) \in {cm} \cup Before(cm, o.S - 1)
      <4>1. CASE HoldsCM(i)
        BY <1>8, <4>1
      <4>2. CASE disk[i].epoch + 1 = cm.epoch /\ disk[i].size + 1 = cm.size
        <5>1. disk[i].epoch = cm.epoch - 1 /\ cm.epoch >= 1 /\ disk[i].size = sts.replicas - 1
          BY <1>9, <4>2, StageFacts, SMT DEF Settling
        <5> QED
          BY <1>1, <5>1 DEF Before, View
      <4> QED
        BY <1>3, <1>9, <4>1, <4>2 DEF Settling
    <3> QED
      BY <1>2, <3>1
  <2>2. o.cm.size = o.S /\ Held(o.cm.epoch, o.S) = cm
    BY <1>1, <1>9 DEF Settling
  <2>3. classify(o) = converged(o) \/ classify(o) = wait
    <3>1. CASE allIn(o, {cm})
      BY <1>1, <2>2, <3>1, StageFacts, SMT DEF classify
    <3>2. CASE ~allIn(o, {cm})
      <4>1. allIn(o, {cm} \cup Before(cm, o.S - 1))
        BY <2>1 DEF allIn
      <4>2. ~allIn(o, {cm} \cup {Held(cm.epoch + 1, o.S - 1)})
        <5>1. ASSUME NEW v, v \in Before(cm, o.S - 1), v = Held(cm.epoch + 1, o.S - 1) PROVE FALSE
          BY <5>1, StageFacts, SMT DEF Before, Held
        <5> QED
          BY <3>2, <4>1, <5>1 DEF allIn
      <4>3. o.cm.size # o.S + 1 /\ o.cm.size # o.S - 1
        BY <1>1, <2>2, StageFacts, SMT
      <4>4. o.cm = cm /\ o.cm.size = o.S /\ Held(o.cm.epoch, o.S) = cm
        BY <1>1, <2>2
      <4> QED
        BY <3>2, <4>1, <4>2, <4>3, <4>4, ZenonT(40) DEF classify
    <3> QED
      BY <3>1, <3>2
  <2> QED
    BY <1>5, <1>7, <1>9, <2>3 DEF Settling
<1>10. CASE Adding
  <2>1. views(o) \subseteq {cm} \cup Before(cm, o.S)
    BY <1>1, <1>2, <1>8, <1>10, StageFacts, SMT DEF Adding, Before, View, Holds
  <2>2. classify(o) = scaleUp(o)
    BY <1>1, <1>10, <2>1, StageFacts, SMT DEF classify, allIn, Adding
  <2>3. cm.size > 0
    BY <1>10, StageFacts, SMT DEF Adding
  <2> QED
    BY <1>5, <1>7, <1>10, <2>2, <2>3 DEF Adding
<1>11. CASE Removing
  <2>1. views(o) \subseteq {cm} \cup {Held(cm.epoch + 1, o.S - 1)}
    BY <1>1, <1>2, <1>8, <1>11 DEF Removing, View, Holds
  <2>2. o.cm.size = o.S /\ Held(o.cm.epoch, o.S) = cm
    BY <1>1, <1>11 DEF Removing
  <2>3. classify(o) = converged(o) \/ classify(o) = wait \/ classify(o) = drain(o)
    BY <1>1, <2>1, <2>2, StageFacts, SMT DEF classify, allIn
  <2> QED
    <3>1. cm.size > 0 /\ sts.replicas > 0
      BY <1>11, StageFacts, SMT DEF Removing
    <3> QED
      BY <1>5, <1>7, <2>3, <3>1
<1>12. CASE Dropping
  <2>1. views(o) \subseteq {cm}
    BY <1>2, <1>8, <1>12 DEF Dropping
  <2>2. classify(o) = Act("scale", Held(0, o.S - 1), o.rev)
    BY <1>1, <1>12, <2>1, StageFacts, SMT DEF classify, allIn, Dropping
  <2> QED
    <3>1. cm.size > 0 /\ sts.replicas > 0
      BY <1>12, StageFacts, SMT DEF Dropping
    <3> QED
      BY <1>5, <1>7, <2>2, <3>1
<1> QED
  BY <1>6, <1>9, <1>10, <1>11, <1>12 DEF IStages, Stage

-----------------------------------------------------------------------------
\* The scenario does not change, and the stages hold.
LEMMA SteadyAlways == Spec /\ Steady(env) => [](PlannerTypes /\ Steady(env) /\ IStages)
<1>1. Steady(env) /\ [Next]_vars => Steady(env)'
  BY DEF Steady, Next, vars
<1>2. ISteady /\ Steady(env) => PlannerTypes /\ Steady(env) /\ IStages
  BY DEF ISteady, IPlan
<1>3. Spec => []ISteady
  BY StagesInvariant
<1>4. Spec => [][Next]_vars
  BY PTL DEF Spec
<1> QED
  BY <1>1, <1>2, <1>3, <1>4, PTL

(***************************************************************************)
(* Where the operator's cache has what was written and nobody else scales  *)
(* the StatefulSet: for any number of pods, any sequence of specs, and any *)
(* number of crashes and failed calls, at most one membership change is    *)
(* under way (converged starts none before the last is over).  Calls may   *)
(* fail and take effect later if the user, having asked for fewer pods,    *)
(* does not turn to more (see Steady).                                     *)
(***************************************************************************)
THEOREM OneChange == Spec /\ Steady(env) => []OneChangeAtATime
BY SteadyAlways, StagesOneChange, PTL

\* There, the ConfigMap is never behind by more than the pod being removed,
\* so that no member fails to find itself in the list config.Load reads.
THEOREM NotBehind == Spec /\ Steady(env) => []ConfigMapNotBehind
BY SteadyAlways, StagesNotBehind, PTL

\* There, every pod that D4 scales away had drained.
THEOREM RemovedDrained == Spec /\ Steady(env) => []RemovedHaveDrained
<1>1. PlannerTypes /\ IStages => RemovedHaveDrained
  BY StagesDrained DEF RemovedHaveDrained
<1> QED
  BY <1>1, SteadyAlways, PTL

\* There, a node that left comes back only on an empty volume: no step of
\* the operator or of a node makes it a member again before that.
THEOREM LeaversEmpty == Spec /\ Steady(env) => LeaversComeBackEmpty
<1>1. PlannerTypes /\ Steady(env) /\ IStages /\ [Next]_vars
        => [\A i \in Ordinal : disk[i].size > 0 /\ ~IsMember(i) => ~IsMember(i)' \/ disk'[i] = Empty]_disk
  BY LeaverStep
<1> QED
  BY <1>1, SteadyAlways, PTL DEF Spec, LeaversComeBackEmpty

\* There, a template is applied only while no membership change is under way.
THEOREM TemplateStable == Spec /\ Steady(env) => TemplateWhenStable
<1>1. PlannerTypes /\ Steady(env) /\ IStages /\ [Next]_vars
        => [sts'.rev # sts.rev /\ sts.replicas > 0 =>
              Memberships = {cm} /\ cm.size = sts.replicas /\ sts'.replicas = sts.replicas]_sts
  BY TemplateStep
<1> QED
  BY <1>1, SteadyAlways, PTL DEF Spec, TemplateWhenStable

\* Plan knows every state that the operator's own steps, crashes, restarts
\* and, where Steady allows them, late posts lead to: it never reports a
\* divergence.
THEOREM Explained == Spec => []NeverUnexplained
<1>1. ISteady => NeverUnexplained
  BY StagesExplained DEF ISteady, IPlan, NeverUnexplained
<1> QED
  BY <1>1, StagesInvariant, PTL
=============================================================================
