------------------------------ MODULE Planner ------------------------------
(***************************************************************************)
(* The Kubernetes operator (src/operator: internal/planner, controller) at *)
(* work on a KVCluster: Plan decides one action from an observation, the   *)
(* controller takes it, and the cluster goes on meanwhile.                 *)
(*                                                                         *)
(* A membership of the operator's making is an epoch and a size: its       *)
(* members are the pods 0..size-1 at their addresses.  What the nodes do   *)
(* with it is abstracted from Membership and Handoff: a newer one spreads  *)
(* between nodes one of which has the other in its view, is on disk at     *)
(* once, and is handed off to in the end.  The StatefulSet controller and  *)
(* the kubelet are external.                                               *)
(***************************************************************************)
EXTENDS Naturals, Sequences, FiniteSets

CONSTANTS MaxPods,    \* bound: ordinals below it
          Scenarios   \* by name, see Scenario

Ordinal == 0..MaxPods - 1
Held(e, s) == [epoch |-> e, size |-> s]
NoMembership == Held(0, 0)

(***************************************************************************)
(* The surroundings of a behaviour: the specs the user applies in turn     *)
(* (replicas and a revision of the pod template); what may fail, and how   *)
(* often; whether the operator's cache may lag behind the API server:      *)
(* never, in all but the user's edits, or at any time.                     *)
(***************************************************************************)
Scenario == [specs     : Seq([replicas : 1..MaxPods, rev : Nat]),
             faults    : SUBSET {"pod", "operator", "late", "scaled up", "scaled down"},
             maxFaults : Nat,
             lag       : {"never", "quiet", "any"}]

ASSUME PlannerAssumption ==
  /\ MaxPods \in Nat \ {0}
  /\ \A s \in DOMAIN Scenarios : Scenarios[s] \in Scenario /\ Scenarios[s].specs # <<>>

VARIABLES
  env,      \* the name of the scenario, chosen once
  at,       \* the spec is the at-th of the scenario
  cm,       \* the ConfigMap's membership, or NoMembership
  lastCM,   \* the one before: what a kubelet may still have mounted
  sts,      \* the StatefulSet's replicas (0: there is none) and revision
  seen,     \* the ConfigMap and the StatefulSet in the operator's cache
  todo,     \* the action a reconcile has decided on and not yet taken
  late,     \* the posts given up by the operator that pod 0 is still at
  pod,      \* pod[i] \in {"none", "down", "up"}
  rev,      \* the revision pod i runs
  pvc,      \* the ordinals with a volume
  disk,     \* disk[i]: the membership on it, and the epoch handed off to
  faults    \* how many faults there have been

operatorVars == <<cm, lastCM, sts, seen, todo>>
podVars == <<pod, rev, pvc, disk>>
vars == <<env, at, operatorVars, late, podVars, faults>>

Now == Scenarios[env]
spec == Now.specs[at]

Act(kind, m, r) == [kind |-> kind, epoch |-> m.epoch, size |-> m.size, rev |-> r]
NoAct == Act("none", NoMembership, 0)
wait == Act("wait", NoMembership, 0)
degraded == Act("degraded", NoMembership, 0)

Empty == [epoch |-> 0, size |-> 0, handed |-> 0]
View(i) == Held(disk[i].epoch, disk[i].size)
IsMember(i) == i < disk[i].size

Init ==
  /\ env \in DOMAIN Scenarios
  /\ at = 1
  /\ cm = NoMembership /\ lastCM = NoMembership
  /\ sts = [replicas |-> 0, rev |-> 0]
  /\ seen = [cm |-> cm, sts |-> sts]
  /\ todo = NoAct /\ late = {}
  /\ pod = [i \in Ordinal |-> "none"] /\ rev = [i \in Ordinal |-> 0]
  /\ pvc = {} /\ disk = [i \in Ordinal |-> Empty]
  /\ faults = 0

Up == {i \in Ordinal : pod[i] = "up"}

\* WaitDrained at pod i, which has left.
Drained(i) ==
  /\ ~IsMember(i) /\ disk[i].handed >= disk[i].epoch
  /\ \A j \in 0..disk[i].size - 1 : disk[j].epoch >= disk[i].epoch

-----------------------------------------------------------------------------
\* statefulSetObs: the template is the spec's, and every pod runs it.
templateCurrent == seen.sts.rev = spec.rev
rolledOut == \A i \in 0..seen.sts.replicas - 1 : pod[i] # "none" /\ rev[i] = seen.sts.rev

\* podObs: a node outside its own membership is not ready.
healthy(ready) == {i \in ready : IsMember(i)}

\* askNodes: the pods outside their own membership that say they are drained.
drains(answers, asked) == IF asked THEN {i \in answers : Drained(i)} ELSE {}

(***************************************************************************)
(* An observation: the cache; the pods that answer on the admin API and    *)
(* those of them that are ready; whether the handoff is asked about in     *)
(* time; whether the pods that are not healthy have been so for longer     *)
(* than Grace.                                                             *)
(***************************************************************************)
Observe(answers, ready, asked, overdue) ==
  [desired  |-> spec.replicas,
   cm       |-> seen.cm,
   S        |-> seen.sts.replicas,
   current  |-> templateCurrent,
   rolled   |-> rolledOut,
   rev      |-> seen.sts.rev,
   exists   |-> {i \in Ordinal : pod[i] # "none"},
   answers  |-> answers,
   healthy  |-> healthy(ready),
   drained  |-> drains(answers, asked),
   overdue  |-> overdue,
   pvcs     |-> pvc]

\* The ordinals of the StatefulSet's pods, and what those that answer hold.
Pods(o) == 0..o.S - 1
views(o) == {View(i) : i \in Pods(o) \cap o.answers}

AllHealthy(o) == Pods(o) \subseteq o.healthy

ordinalTaken(o, i) == i \in o.exists \cup o.pvcs

\* U2
scaleUp(o) ==
  IF AllHealthy(o) /\ ~ordinalTaken(o, o.S)
  THEN Act("scale", Held(0, o.S + 1), o.rev) ELSE wait

\* A mutation of drain: the leaving node's own handoff is enough.
DrainHandedOff(o) ==
  IF o.S - 1 \in o.answers /\ View(o.S - 1) = Held(o.cm.epoch + 1, o.S - 1)
     /\ disk[o.S - 1].handed >= o.cm.epoch + 1
  THEN Act("configmap", Held(o.cm.epoch + 1, o.S - 1), 0) ELSE wait

\* D2, and D3 once pod S-1 has drained at the epoch that removes it.
drain(o) ==
  IF o.S - 1 \in o.drained /\ disk[o.S - 1].epoch = o.cm.epoch + 1
  THEN Act("configmap", Held(o.cm.epoch + 1, o.S - 1), 0) ELSE wait

\* D5 and U4 are over, the pods are healthy, the template is rolled out.
Stable(o) ==
  /\ \A i \in o.exists \cup o.pvcs : i < o.S
  /\ \A i \in Pods(o) \cap o.answers : disk[i].handed >= o.cm.epoch
  /\ AllHealthy(o) /\ o.rolled

\* A mutation of converged: the rollout is not waited for, nor the volumes
\* of an earlier removal.
ConvergedEarly(o) ==
  CASE ~AllHealthy(o) -> wait
    [] ~o.current -> Act("template", Held(0, o.S), spec.rev)
    [] o.S < o.desired -> Act("configmap", Held(o.cm.epoch + 1, o.S + 1), 0)
    [] o.S > o.desired -> Act("post", Held(o.cm.epoch + 1, o.S - 1), 0)
    [] OTHER -> NoAct

\* One change at a time: the template first, then replicas (U1 or D1).
converged(o) ==
  CASE ~Stable(o) -> wait
    [] Stable(o) /\ ~o.current -> Act("template", Held(0, o.S), spec.rev)
    [] Stable(o) /\ o.current /\ o.S < o.desired ->
         IF ordinalTaken(o, o.S) THEN wait
         ELSE Act("configmap", Held(o.cm.epoch + 1, o.S + 1), 0)
    [] Stable(o) /\ o.current /\ o.S > o.desired -> Act("post", Held(o.cm.epoch + 1, o.S - 1), 0)
    [] OTHER -> NoAct

\* No two memberships at one epoch, and at most two epochs, next to each
\* other.
readViews(o) ==
  \A u, v \in views(o) : (u.epoch = v.epoch => u = v) /\ u.epoch <= v.epoch + 1

allIn(o, allowed) == views(o) \subseteq allowed

\* Below epoch 0 there is none.
Before(m, size) == IF m.epoch >= 1 THEN {Held(m.epoch - 1, size)} ELSE {}

\* The pod whose ill health the step expects, if any.
exempt(o) ==
  CASE o.cm.size = o.S /\ Held(o.cm.epoch + 1, o.S - 1) \in views(o) -> {o.S - 1}
    [] o.cm.size = o.S - 1 -> {o.S - 1}
    [] OTHER -> {}

\* A mutation of classify: a pod that restarts after U1 is not thought of.
ClassifyNoRestart(o) ==
  LET base == {Held(o.cm.epoch, o.S)}
      next == {Held(o.cm.epoch + 1, o.S - 1)}
      last == Before(o.cm, o.S - 1)
  IN  CASE o.cm.size = o.S + 1 /\ allIn(o, Before(o.cm, o.S)) -> scaleUp(o)
        [] o.cm.size = o.S /\ allIn(o, base) -> converged(o)
        [] o.cm.size = o.S /\ ~allIn(o, base) /\ allIn(o, base \cup last) -> wait
        [] o.cm.size = o.S /\ ~allIn(o, base) /\ allIn(o, base \cup next) -> drain(o)
        [] o.cm.size = o.S - 1 /\ allIn(o, {o.cm}) -> Act("scale", Held(0, o.S - 1), o.rev)
        [] OTHER -> degraded

\* The step of a membership change that the observation is at.
classify(o) ==
  LET base == {Held(o.cm.epoch, o.S)}
      next == {Held(o.cm.epoch + 1, o.S - 1)}
      last == Before(o.cm, o.S - 1)
  IN  CASE o.cm.size = o.S + 1 /\ allIn(o, {o.cm} \cup Before(o.cm, o.S)) -> scaleUp(o)
        [] o.cm.size = o.S /\ allIn(o, base) -> converged(o)
        \* U3
        [] o.cm.size = o.S /\ ~allIn(o, base) /\ allIn(o, base \cup last) -> wait
        [] o.cm.size = o.S /\ ~allIn(o, base) /\ allIn(o, base \cup next) -> drain(o)
        \* D4
        [] o.cm.size = o.S - 1 /\ allIn(o, {o.cm}) -> Act("scale", Held(0, o.S - 1), o.rev)
        [] OTHER -> degraded

unavailable(o) == o.overdue /\ \E i \in (Pods(o) \cap o.exists) \ exempt(o) : i \notin o.healthy

Plan(o) ==
  CASE o.cm = NoMembership /\ o.S = 0 -> Act("configmap", Held(0, o.desired), 0)
    [] o.cm = NoMembership /\ o.S > 0 -> degraded
    [] o.cm # NoMembership /\ o.S = 0 -> Act("scale", Held(0, o.cm.size), spec.rev)
    [] OTHER -> IF ~readViews(o) \/ unavailable(o) THEN degraded ELSE classify(o)

-----------------------------------------------------------------------------
Acting == {"configmap", "scale", "template", "post"}

\* Reconcile up to the execution: observe and Plan.
Reconcile(o) ==
  /\ todo = NoAct /\ Plan(o).kind \in Acting
  /\ todo' = Plan(o)
  /\ UNCHANGED <<at, cm, lastCM, sts, seen, late, podVars, faults>>

\* What the cache has after a write; if it lags, it hears of it later.
Cached(c, s) == IF Now.lag # "never" THEN seen ELSE [cm |-> c, sts |-> s]

WriteConfigMap ==
  /\ todo.kind = "configmap"
  /\ cm' = Held(todo.epoch, todo.size) /\ lastCM' = cm
  /\ seen' = Cached(cm', sts)
  /\ UNCHANGED <<sts, podVars>>

\* A mutation of ScaleStatefulSet: a scale applies the spec's template.
ScaleAndRoll ==
  /\ todo.kind \in {"scale", "template"}
  /\ sts' = [replicas |-> todo.size, rev |-> spec.rev]
  /\ seen' = Cached(cm, sts')
  /\ UNCHANGED <<cm, lastCM, podVars>>

\* scaledStatefulSet keeps the template the StatefulSet was seen to have.
ScaleStatefulSet ==
  /\ todo.kind \in {"scale", "template"}
  /\ sts' = [replicas |-> todo.size, rev |-> todo.rev]
  /\ seen' = Cached(cm, sts')
  /\ UNCHANGED <<cm, lastCM, podVars>>

\* Pod 0 takes what is newer and refuses the rest.
handleSetMembership(m) ==
  /\ 0 \in Up
  /\ disk' = IF m.epoch > disk[0].epoch
             THEN [disk EXCEPT ![0].epoch = m.epoch, ![0].size = m.size] ELSE disk
  /\ UNCHANGED <<cm, lastCM, sts, seen, pod, rev, pvc>>

PostMembership == todo.kind = "post" /\ handleSetMembership(todo)

Execute ==
  /\ WriteConfigMap \/ ScaleStatefulSet \/ PostMembership
  /\ todo' = NoAct
  /\ UNCHANGED <<at, late, faults>>

\* The operator stops, or the call fails, before it has any effect.
OperatorFails ==
  /\ todo # NoAct /\ "operator" \in Now.faults /\ faults < Now.maxFaults
  /\ todo' = NoAct /\ faults' = faults + 1
  /\ UNCHANGED <<at, cm, lastCM, sts, seen, late, podVars>>

\* The client's timeout ends a post for the operator, but not for pod 0 ...
PostTimesOut ==
  /\ todo.kind = "post" /\ 0 \in Up /\ "late" \in Now.faults /\ faults < Now.maxFaults
  /\ late' = late \cup {todo}
  /\ todo' = NoAct /\ faults' = faults + 1
  /\ UNCHANGED <<at, cm, lastCM, sts, seen, podVars>>

\* ... whose handler goes on, at any time before the process ends.
PostLands ==
  \E m \in late :
    /\ handleSetMembership(m)
    /\ late' = late \ {m}
    /\ UNCHANGED <<at, todo, faults>>

HandlersEnd == late' = IF pod'[0] = "up" THEN late ELSE {}

CacheSync ==
  /\ \/ seen.cm # cm /\ seen' = [seen EXCEPT !.cm = cm]
     \/ seen.sts # sts /\ seen' = [seen EXCEPT !.sts = sts]
  /\ UNCHANGED <<at, cm, lastCM, sts, todo, late, podVars, faults>>

\* external: the user applies the next spec ...
SpecChange ==
  /\ at < Len(Now.specs)
  /\ Now.lag = "quiet" => todo = NoAct /\ seen = [cm |-> cm, sts |-> sts]
  /\ at' = at + 1
  /\ UNCHANGED <<operatorVars, late, podVars, faults>>

\* ... or scales the StatefulSet by hand.
ScaleByHand ==
  /\ faults < Now.maxFaults
  /\ \/ /\ "scaled up" \in Now.faults /\ sts.replicas \in 1..MaxPods - 1
        /\ sts' = [sts EXCEPT !.replicas = @ + 1]
     \/ /\ "scaled down" \in Now.faults /\ sts.replicas > 1
        /\ sts' = [sts EXCEPT !.replicas = @ - 1]
  /\ seen' = Cached(cm, sts')
  /\ faults' = faults + 1
  /\ UNCHANGED <<at, cm, lastCM, todo, late, podVars>>

-----------------------------------------------------------------------------
\* external: the StatefulSet controller creates and deletes pods, deletes
\* the volume of one that is scaled away, and rolls out a template, highest
\* ordinal first, one pod at a time.
PodCreate(i) ==
  /\ i < sts.replicas /\ pod[i] = "none"
  /\ pod' = [pod EXCEPT ![i] = "down"] /\ rev' = [rev EXCEPT ![i] = sts.rev]
  /\ pvc' = pvc \cup {i}
  /\ UNCHANGED disk

PodDelete(i) ==
  /\ i >= sts.replicas /\ pod[i] # "none"
  /\ pod' = [pod EXCEPT ![i] = "none"]
  /\ UNCHANGED <<rev, pvc, disk>>

VolumeGone(i) ==
  /\ i >= sts.replicas /\ pod[i] = "none" /\ i \in pvc
  /\ pvc' = pvc \ {i} /\ disk' = [disk EXCEPT ![i] = Empty]
  /\ UNCHANGED <<pod, rev>>

RollPod(i) ==
  /\ i < sts.replicas /\ rev[i] # sts.rev
  /\ \A j \in 0..sts.replicas - 1 : pod[j] = "up" /\ (j > i => rev[j] = sts.rev)
  /\ pod' = [pod EXCEPT ![i] = "down"] /\ rev' = [rev EXCEPT ![i] = sts.rev]
  /\ UNCHANGED <<pvc, disk>>

\* A mutation of PodStart: the mounted membership is not applied.
StartUnconfigured(i) ==
  /\ pod[i] = "down" /\ i < cm.size
  /\ pod' = [pod EXCEPT ![i] = "up"]
  /\ UNCHANGED <<rev, pvc, disk>>

\* config.Load accepts only a list that has the node in it.
Listed(i, c) == i < c.size

\* applyConfiguredMembership: what is newer is taken, what is older ignored,
\* and a different membership at the epoch on disk is refused.
applyConfiguredMembership(i, c) ==
  \/ /\ disk[i].size = 0 \/ c.epoch > disk[i].epoch
     /\ disk' = [disk EXCEPT ![i].epoch = c.epoch, ![i].size = c.size]
  \/ /\ disk[i].size # 0 /\ (c.epoch < disk[i].epoch \/ c = View(i))
     /\ UNCHANGED disk

\* Run, with the ConfigMap that the kubelet has mounted: for a node that
\* restarts perhaps not the latest.
PodStart(i) ==
  /\ pod[i] = "down"
  /\ \E c \in {cm} \cup (IF disk[i].size # 0 THEN {lastCM} ELSE {}) :
       Listed(i, c) /\ applyConfiguredMembership(i, c)
  /\ pod' = [pod EXCEPT ![i] = "up"]
  /\ UNCHANGED <<rev, pvc>>

\* Heartbeats between i and j, one of which has the other in its view.
Spread(i, j) ==
  /\ {i, j} \subseteq Up /\ disk[i].epoch > disk[j].epoch
  /\ j < disk[i].size \/ i < disk[j].size
  /\ disk' = [disk EXCEPT ![j].epoch = disk[i].epoch, ![j].size = disk[i].size]
  /\ UNCHANGED <<pod, rev, pvc>>

HandoffDone(i) ==
  /\ i \in Up /\ disk[i].handed < disk[i].epoch
  /\ disk' = [disk EXCEPT ![i].handed = disk[i].epoch]
  /\ UNCHANGED <<pod, rev, pvc>>

PodCrash(i) ==
  /\ i \in Up /\ "pod" \in Now.faults /\ faults < Now.maxFaults
  /\ pod' = [pod EXCEPT ![i] = "down"]
  /\ HandlersEnd
  /\ faults' = faults + 1
  /\ UNCHANGED <<at, operatorVars, rev, pvc, disk>>

-----------------------------------------------------------------------------
\* A step of pod i that no fault is part of.
PodStep(i) ==
  /\ \/ PodCreate(i) \/ PodDelete(i) \/ VolumeGone(i) \/ RollPod(i)
     \/ PodStart(i) \/ HandoffDone(i) \/ \E j \in Ordinal : Spread(i, j)
  /\ HandlersEnd
  /\ UNCHANGED <<at, operatorVars, faults>>

Next ==
  /\ \/ \E a \in SUBSET Up : \E r \in SUBSET a, d, g \in BOOLEAN : Reconcile(Observe(a, r, d, g))
     \/ Execute \/ OperatorFails \/ PostTimesOut \/ PostLands
     \/ CacheSync \/ SpecChange \/ ScaleByHand
     \/ \E i \in Ordinal : PodStep(i) \/ PodCrash(i)
  /\ UNCHANGED env

Spec == Init /\ [][Next]_vars

\* What the operator sees when every pod that runs answers.
Everything == Observe(Up, Up, TRUE, FALSE)

(***************************************************************************)
(* Reconciles are requeued until nothing is left to do, and in the end all *)
(* pods that run answer; the controllers of Kubernetes and the nodes go    *)
(* on; the cache catches up.  Faults and specs are bounded.                *)
(***************************************************************************)
Fairness ==
  /\ WF_vars(Reconcile(Everything) /\ UNCHANGED env)
  /\ WF_vars(Execute /\ UNCHANGED env)
  /\ WF_vars(CacheSync /\ UNCHANGED env)
  /\ WF_vars((\E i \in Ordinal : PodStep(i)) /\ UNCHANGED env)

FairSpec == Spec /\ Fairness
-----------------------------------------------------------------------------
TypeOK ==
  /\ at \in DOMAIN Now.specs /\ faults \in 0..Now.maxFaults
  /\ sts.replicas \in 0..MaxPods /\ cm.size \in 0..MaxPods /\ pvc \subseteq Ordinal
  /\ \A i \in Ordinal :
       /\ i \notin pvc => pod[i] = "none" /\ disk[i] = Empty
       /\ pod[i] = "up" => disk[i].size > 0
       /\ disk[i].handed <= disk[i].epoch

ByHand == Now.faults \cap {"scaled up", "scaled down"} # {}

(***************************************************************************)
(* Where the operator is alone with the cluster: nobody else scales the    *)
(* StatefulSet, and the cache has what was written.  If a post may take    *)
(* effect after it was given up, moreover, a user who has asked for fewer  *)
(* pods does not turn to more or to another template: the change that Plan *)
(* would then begin and the late post would be two changes at one epoch.   *)
(***************************************************************************)
Shrinking(specs) ==
  \A j \in DOMAIN specs : \A i \in 1..j - 1, k \in j + 1..Len(specs) :
    specs[j].replicas < specs[i].replicas =>
      specs[k].replicas <= specs[j].replicas /\ specs[k].rev = specs[j].rev

Steady(s) ==
  /\ Scenarios[s].lag = "never"
  /\ Scenarios[s].faults \cap {"scaled up", "scaled down"} = {}
  /\ "late" \in Scenarios[s].faults => Shrinking(Scenarios[s].specs)

\* The memberships there are: on volumes, and in the ConfigMap.
Memberships == ({View(i) : i \in pvc} \cup {cm}) \ {NoMembership}

(***************************************************************************)
(* At most one membership change is under way: every epoch is within one   *)
(* of every other, and no epoch has two memberships, so that no node       *)
(* refuses to start because of what is on its disk.                        *)
(***************************************************************************)
OneChangeAtATime ==
  \A u, v \in Memberships : u.epoch <= v.epoch + 1 /\ (u.epoch = v.epoch => u = v)

(***************************************************************************)
(* The ConfigMap is behind the cluster only while a node is being removed, *)
(* by one epoch, and still lists that node; so a member, or a node that    *)
(* has yet to drain, finds itself in it when it starts.                    *)
(***************************************************************************)
ConfigMapNotBehind ==
  /\ \A u \in Memberships : u.epoch > cm.epoch => u.epoch = cm.epoch + 1 /\ u.size = cm.size - 1
  /\ \A i \in pvc : i < sts.replicas /\ disk[i].size > 0 /\ ~Drained(i) => i < cm.size

(***************************************************************************)
(* Whatever the operator scales away has drained: it knew that it was      *)
(* leaving, had handed its data off, and every node that stays held that   *)
(* membership.                                                             *)
(***************************************************************************)
RemovedHaveDrained ==
  "scaled down" \notin Now.faults =>
    \A i \in pvc : i >= sts.replicas /\ disk[i].size > 0 => Drained(i)

(***************************************************************************)
(* A node that has left the membership is a member again only on an empty  *)
(* volume: none comes back with the data dir of an earlier incarnation.    *)
(***************************************************************************)
LeaversComeBackEmpty ==
  [][\A i \in Ordinal : disk[i].size > 0 /\ ~IsMember(i) => ~IsMember(i)' \/ disk'[i] = Empty]_disk

(***************************************************************************)
(* A pod template is applied only while no membership change is under way. *)
(***************************************************************************)
TemplateWhenStable ==
  [][sts'.rev # sts.rev /\ sts.replicas > 0 =>
       Memberships = {cm} /\ cm.size = sts.replicas /\ sts'.replicas = sts.replicas]_sts

(***************************************************************************)
(* The operator's own steps, specs that change under way, restarts,        *)
(* crashes and posts that land late lead to no state that it takes for a   *)
(* divergence: whichever pods answer, and unless one has been unhealthy    *)
(* for too long, Plan does not give up.                                    *)
(***************************************************************************)
NeverUnexplained ==
  Steady(env) =>
    \A a \in SUBSET Up : Plan(Observe(a, a, TRUE, FALSE)).kind # "degraded"

Settled ==
  /\ sts = spec /\ cm.size = sts.replicas /\ todo = NoAct
  /\ Up = 0..sts.replicas - 1 /\ pvc = Up
  /\ \A i \in Up : rev[i] = sts.rev /\ View(i) = cm /\ disk[i].handed = cm.epoch

(***************************************************************************)
(* When the spec no longer changes and faults end, the cluster gets to it  *)
(* and stays: one node at a time, the template first.                      *)
(***************************************************************************)
Settles == ~ByHand => <>[]Settled
=============================================================================
