----------------------------- MODULE PlannerInv -----------------------------
(***************************************************************************)
(* The inductive invariant behind the proofs about Planner: the types, and *)
(* for an operator that is alone with the cluster and sees its own writes, *)
(* the stage that every membership change is in and what the action it has *)
(* decided on may count on.                                                *)
(***************************************************************************)
EXTENDS Planner

Membership == [epoch : Nat, size : 0..MaxPods]
StatefulSet == [replicas : 0..MaxPods, rev : Nat]
Volume == [epoch : Nat, size : 0..MaxPods, handed : Nat]
Action == [kind : {"none", "configmap", "scale", "template", "post"},
           epoch : Nat, size : 0..MaxPods, rev : Nat]

\* A volume that is not there is empty, and so is one no node has run on.
NodeTypes(i) ==
  /\ i \notin pvc => pod[i] = "none" /\ disk[i] = Empty
  /\ disk[i].size = 0 => disk[i] = Empty
  /\ pod[i] = "up" => disk[i].size > 0
  /\ disk[i].handed <= disk[i].epoch

PlannerTypes ==
  /\ env \in DOMAIN Scenarios /\ at \in DOMAIN Now.specs /\ faults \in 0..Now.maxFaults
  /\ cm \in Membership /\ lastCM \in Membership /\ sts \in StatefulSet
  /\ seen \in [cm : Membership, sts : StatefulSet]
  /\ todo \in Action /\ (todo.kind = "post" => todo.size > 0)
  /\ late \subseteq {m \in Action : m.size > 0}
  /\ pod \in [Ordinal -> {"none", "down", "up"}] /\ rev \in [Ordinal -> Nat]
  /\ pvc \subseteq Ordinal /\ disk \in [Ordinal -> Volume]
  /\ \A i \in Ordinal : NodeTypes(i)

-----------------------------------------------------------------------------
Replicas == 0..sts.replicas - 1

Holds(i, e, s) == disk[i].epoch = e /\ disk[i].size = s
HoldsCM(i) == Holds(i, cm.epoch, cm.size)

\* Before there is a StatefulSet.
Bootstrap == sts.replicas = 0 /\ pvc = {} /\ cm.epoch = 0

(***************************************************************************)
(* The StatefulSet has the size of the ConfigMap.  Either pods are starting *)
(* for the first time and the others learn of the epoch that added the     *)
(* last one (U3), or the pod last removed is being cleaned up (D5): it has *)
(* handed everything off, and everybody else holds the new membership.     *)
(***************************************************************************)
Settling ==
  /\ cm.size = sts.replicas /\ sts.replicas > 0
  /\ \A i \in pvc \cap Replicas :
       \/ disk[i] = Empty \/ HoldsCM(i)
       \/ i + 1 < cm.size /\ disk[i].epoch + 1 = cm.epoch /\ disk[i].size + 1 = cm.size
  /\ \A i \in pvc \ Replicas :
       HoldsCM(i) /\ disk[i].handed = cm.epoch /\ \A j \in Replicas : HoldsCM(j)

\* From U1 to U2: the ConfigMap is ahead by the pod to be added.
Adding ==
  /\ cm.size = sts.replicas + 1 /\ sts.replicas > 0 /\ cm.epoch > 0
  /\ pvc = Replicas
  /\ \A i \in Replicas : HoldsCM(i) \/ Holds(i, cm.epoch - 1, sts.replicas)

\* From D1 to D3: the membership without the last pod spreads.
Removing ==
  /\ cm.size = sts.replicas /\ sts.replicas > 1
  /\ pvc = Replicas
  /\ \A i \in Replicas : HoldsCM(i) \/ Holds(i, cm.epoch + 1, sts.replicas - 1)

\* From D3 to D4: everybody holds it, and the last pod has drained.
Dropping ==
  /\ cm.size + 1 = sts.replicas /\ cm.size > 0
  /\ pvc = Replicas
  /\ \A i \in Replicas : HoldsCM(i)
  /\ disk[sts.replicas - 1].handed = cm.epoch

Stage == Bootstrap \/ Settling \/ Adding \/ Removing \/ Dropping

-----------------------------------------------------------------------------
\* No change is under way, and none begins before the action is taken.
Calm ==
  /\ cm.size = sts.replicas /\ sts.replicas > 0
  /\ pvc = Replicas
  /\ \A i \in Replicas : HoldsCM(i)

\* The last pod has drained at the epoch that removes it.
Left ==
  /\ Removing
  /\ \A i \in Replicas : Holds(i, cm.epoch + 1, sts.replicas - 1)
  /\ disk[sts.replicas - 1].handed = cm.epoch + 1

\* From now on, no spec asks for the last pod or for another template.
LastUnwanted ==
  \A k \in at..Len(Now.specs) :
    Now.specs[k].replicas < sts.replicas /\ Now.specs[k].rev = sts.rev

\* A post that begins a removal, and one that comes too late to.
Begins(m) ==
  /\ Calm /\ m.epoch = cm.epoch + 1 /\ m.size = sts.replicas - 1 /\ sts.replicas > 1
  /\ "late" \in Now.faults => LastUnwanted
Behind(m) == "late" \in Now.faults /\ m.epoch <= disk[0].epoch

\* What was true when the action was decided on still is.
TodoConfigMap ==
  \/ Bootstrap /\ cm = NoMembership /\ todo.epoch = 0 /\ todo.size > 0
  \/ Calm /\ todo.epoch = cm.epoch + 1 /\ todo.size = sts.replicas + 1
  \/ Left /\ todo.epoch = cm.epoch + 1 /\ todo.size = sts.replicas - 1

TodoScale ==
  \/ Bootstrap /\ cm.size > 0 /\ todo.size = cm.size
  \/ Adding /\ todo.size = sts.replicas + 1 /\ todo.rev = sts.rev
  \/ Dropping /\ todo.size = sts.replicas - 1 /\ todo.rev = sts.rev

TodoKept ==
  /\ todo.kind = "configmap" => TodoConfigMap
  /\ todo.kind = "scale" => TodoScale
  /\ todo.kind = "template" => Calm /\ todo.size = sts.replicas
  /\ todo.kind = "post" => Behind(todo) \/ Begins(todo)

\* A post that was given up and may still begin a removal: nothing but that
\* removal is decided on before it does, or before the process ends.
LateKept ==
  \A m \in late :
    \/ Behind(m)
    \/ Begins(m) /\ todo.kind \in {"none", "post"} /\ "late" \in Now.faults

\* Nobody has more pods, or is about to, than some spec so far asked for.
Wanted(n) == \E i \in 1..at : n <= Now.specs[i].replicas
AllWanted == Wanted(cm.size) /\ Wanted(sts.replicas) /\ Wanted(todo.size)

IStages ==
  /\ seen.cm = cm /\ seen.sts = sts
  /\ lastCM.epoch < cm.epoch \/ lastCM.size = 0
  /\ Stage /\ TodoKept

IPlan == IStages /\ LateKept /\ AllWanted

\* IPlan in the scenarios it is claimed for.
ISteady == PlannerTypes /\ (Steady(env) => IPlan)
=============================================================================
