------------------------------ MODULE Handoff ------------------------------
(***************************************************************************)
(* Handing a key over when the membership changes (internal/node:          *)
(* handoff.go, peers.go), on top of Membership.  A node that publishes a   *)
(* view pushes its copy to the key's new owners; what it cannot push it    *)
(* keeps as a hint, or, when it is leaving, tries again.  A node that is   *)
(* leaving is stopped by the operator when it is drained.                  *)
(*                                                                         *)
(* One key: runHandoff treats each on its own.  A node's copy is the set   *)
(* of writes in it.                                                        *)
(***************************************************************************)
EXTENDS Membership, Sequences

CONSTANTS Write,  \* client writes of the key
          Ring    \* the nodes in the order the ring gives the key

ASSUME RingAssumption ==
  /\ Node = {Ring[i] : i \in DOMAIN Ring} /\ Len(Ring) = Cardinality(Node)

VARIABLES
  data,      \* data[n]: the writes in n's copy
  hints,     \* hints[n][t]: the writes n has to deliver to t
  base,      \* n.handoffBase, the last view whose handoff completed
  handedOff, \* n's HANDOFF file, or NoView
  target,    \* n.handoffTarget; it changes with n.handoffGen
  runs,      \* the runHandoff goroutines of n
  wr,        \* the coordinations of client writes
  stopped,   \* nodes the operator has stopped for good
  owed       \* owed[n]: <<write, node>>s n's views have obliged it to (history)

handoffVars == <<base, handedOff, target, runs, owed>>
dataVars == <<data, hints, wr, stopped>>
vars == <<env, memberVars, handoffVars, dataVars>>

NoWrite == [pc |-> "idle", view |-> NoView, got |-> {}, live |-> FALSE]

Init ==
  /\ MembershipInit
  /\ data = [n \in Node |-> {}]
  /\ hints = [n \in Node |-> [t \in Node |-> {}]]
  /\ base = view
  /\ handedOff = [n \in Node |-> NoView]
  /\ target = view
  /\ runs = [n \in Node |-> {}]
  /\ wr = [w \in Write |-> NoWrite]
  /\ stopped = {}
  /\ owed = [n \in Node |-> {}]

Acked == {w \in Write : wr[w].pc = "ok"}

\* The ring's GetPreferenceList: the first rf members from the key on.
PreferenceList(v, rf) ==
  {Ring[i] : i \in {j \in DOMAIN Ring :
     /\ IsMember(Ring[j], v)
     /\ Cardinality({k \in 1..j : IsMember(Ring[k], v)}) <= rf}}

Owners(v) == PreferenceList(v, Now.n)

-----------------------------------------------------------------------------
(***************************************************************************)
(* A write goes to the owners in the view its coordinator had when it      *)
(* began.  It is acknowledged when W have it; the others may get it until  *)
(* the replication timeout.                                                *)
(***************************************************************************)
WriteBegin(w, n) ==
  /\ n \in up \ stopped /\ wr[w].pc = "idle"
  /\ Cardinality({x \in Write : wr[x].pc # "idle"}) < Now.writes
  /\ Now.early => \A p \in Node : file[p] = NoView
  /\ wr' = [wr EXCEPT ![w] = [pc |-> "busy", view |-> view[n], got |-> {}, live |-> TRUE]]
  /\ UNCHANGED <<memberVars, handoffVars, data, hints, stopped>>

WriteLands(w, p) ==
  /\ wr[w].live /\ p \in (Owners(wr[w].view) \cap up) \ wr[w].got
  /\ data' = [data EXCEPT ![p] = @ \cup {w}]
  /\ wr' = [wr EXCEPT ![w].got = @ \cup {p},
                      ![w].pc = IF Cardinality(wr[w].got) + 1 >= Now.w THEN "ok" ELSE @]
  /\ UNCHANGED <<memberVars, handoffVars, hints, stopped>>

WriteOver(w) ==
  /\ wr[w].live
  /\ wr' = [wr EXCEPT ![w].live = FALSE]
  /\ UNCHANGED <<memberVars, handoffVars, data, hints, stopped>>

-----------------------------------------------------------------------------
handoffTargets(n, from, to) ==
  LET oldOwners == IF n \in Owners(to) THEN Owners(from) ELSE {}
  IN  (Owners(to) \ oldOwners) \ {n}

NewRun(from, to) == [from |-> from, to |-> to, pc |-> "keys", items |-> {}, todo |-> {}]

\* A canceled run returns at its next look at its context, unless it has
\* had its last one and is about to call finishHandoff.
Canceled(rs) == {r \in rs : r.pc = "finish"}

\* A mutation of StartHandoff: it starts from the view before the newest.
StartFromTarget(n, v) ==
  IF base[n].epoch >= v.epoch THEN UNCHANGED <<target, runs>>
  ELSE /\ target' = [target EXCEPT ![n] = v]
       /\ runs' = [runs EXCEPT ![n] = Canceled(@) \cup {NewRun(target[n], v)}]

\* startHandoff to the newest view v, from the last one that completed.
StartHandoff(n, v) ==
  IF base[n].epoch >= v.epoch THEN UNCHANGED <<target, runs>>
  ELSE /\ target' = [target EXCEPT ![n] = v]
       /\ runs' = [runs EXCEPT ![n] = Canceled(@) \cup {NewRun(base[n], v)}]

\* What publishing v adds to what n owes: its writes, to owners that are new
\* since the view before and since the base.
Owes(n, v) ==
  {<<w, t>> : w \in data[n], t \in handoffTargets(n, view[n], v) \ Owners(base[n])}

PublishView(n) ==
  /\ Publish(n)
  /\ StartHandoff(n, setting[n].view)
  /\ owed' = [owed EXCEPT ![n] = @ \cup Owes(n, setting[n].view)]
  /\ UNCHANGED <<base, handedOff, dataVars>>

Step(n, r, next) == runs' = [runs EXCEPT ![n] = (@ \ {r}) \cup next]

\* handoffKeys, the plan, and the read of the key.
HandoffPlan(n, r) ==
  /\ r \in runs[n] /\ r.pc = "keys"
  /\ LET targets == IF data[n] = {} THEN {} ELSE handoffTargets(n, r.from, r.to)
     IN  Step(n, r, {[r EXCEPT !.pc = IF targets = {} THEN "finish" ELSE "push",
                               !.items = IF targets = {} THEN {} ELSE data[n],
                               !.todo = targets]})
  /\ UNCHANGED <<memberVars, base, handedOff, target, owed, dataVars>>

\* The run without target t: the last one ends the loop.
Pushed(r, t) == [r EXCEPT !.todo = @ \ {t}, !.pc = IF r.todo = {t} THEN "finish" ELSE @]

HandoffPush(n, r, t) ==
  /\ r \in runs[n] /\ r.pc = "push" /\ t \in r.todo
  /\ ~isDead(n, t) /\ Reaches(n, r.to.members[t])
  /\ data' = [data EXCEPT ![r.to.members[t]] = @ \cup r.items]
  /\ Step(n, r, {Pushed(r, t)})
  /\ UNCHANGED <<memberVars, base, handedOff, target, owed, hints, wr, stopped>>

\* A mutation of HandoffHint: a node that is leaving keeps a hint too.
HintAnyway(n, r, t) ==
  /\ r \in runs[n] /\ r.pc = "push" /\ t \in r.todo
  /\ isDead(n, t) \/ Breaks(n, r.to.members[t])
  /\ hints' = [hints EXCEPT ![n][t] = @ \cup r.items]
  /\ Step(n, r, {Pushed(r, t)})
  /\ UNCHANGED <<memberVars, base, handedOff, target, owed, data, wr, stopped>>

\* The push fails, and a node that stays keeps a hint.  One that is leaving,
\* or cannot store the hint, tries again.
HandoffHint(n, r, t) ==
  /\ r \in runs[n] /\ r.pc = "push" /\ t \in r.todo
  /\ isDead(n, t) \/ Breaks(n, r.to.members[t])
  /\ IsMember(n, r.to)
  /\ hints' = [hints EXCEPT ![n][t] = @ \cup r.items]
  /\ Step(n, r, {Pushed(r, t)})
  /\ UNCHANGED <<memberVars, base, handedOff, target, owed, data, wr, stopped>>

\* A superseded run records nothing.  A failure to write the file is only
\* logged.
FinishHandoff(n, r) ==
  /\ r \in runs[n] /\ r.pc = "finish"
  /\ IF r.to # target[n] THEN UNCHANGED <<base, handedOff>>
     ELSE /\ base' = [base EXCEPT ![n] = r.to]
          /\ \/ handedOff' = [handedOff EXCEPT ![n] = r.to]
             \/ Fails("persist", n) /\ UNCHANGED handedOff
  /\ Step(n, r, {})
  /\ UNCHANGED <<memberVars, target, owed, dataVars>>

\* Hint delivery, to members of the view (hintdelivery.go).
DeliverHints(n, t) ==
  /\ n \in up /\ hints[n][t] # {} /\ IsMember(t, view[n])
  /\ ~isDead(n, t) /\ Reaches(n, view[n].members[t])
  /\ data' = [data EXCEPT ![view[n].members[t]] = @ \cup hints[n][t]]
  /\ hints' = [hints EXCEPT ![n][t] = {}]
  /\ UNCHANGED <<memberVars, handoffVars, wr, stopped>>

-----------------------------------------------------------------------------
\* A mutation of allPeersAtLeast: a peer that never answered is let pass.
AnsweredAtLeast(n, v, epoch) ==
  \A p \in DOMAIN v.members \ {n} : p \in DOMAIN health[n] => health[n][p].epoch >= epoch

\* Another: peers have to be past the epoch.
PastEpoch(n, v, epoch) ==
  \A p \in DOMAIN v.members \ {n} : p \in DOMAIN health[n] /\ health[n][p].epoch > epoch

allPeersAtLeast(n, v, epoch) ==
  \A p \in DOMAIN v.members \ {n} : p \in DOMAIN health[n] /\ health[n][p].epoch >= epoch

\* WaitDrained(epoch) returns.
Drained(n, epoch) ==
  /\ base[n].epoch >= epoch
  /\ IsMember(n, view[n]) \/ allPeersAtLeast(n, view[n], epoch)

\* external: the operator declares the next view when every node that has to
\* is drained for the one before, unless it is in a hurry ...
DeclareNext(n, v) ==
  /\ Now.serial => \A p \in Now.nodes \ stopped : p \in up /\ Drained(p, v.epoch - 1)
  /\ Now.serial \/ Now.early => \A w \in Write : ~wr[w].live
  /\ Declare(n, v)
  /\ UNCHANGED <<handoffVars, dataVars>>

\* ... and stops a node that is out of the view and drained.
StopDrained(n, v) ==
  /\ n \in up /\ v \in Now.declared /\ ~IsMember(n, v) /\ ~IsMember(n, view[n])
  /\ Drained(n, v.epoch)
  /\ Ends(n)
  /\ stopped' = stopped \cup {n} /\ runs' = [runs EXCEPT ![n] = {}]
  /\ UNCHANGED <<crashes, base, handedOff, target, owed, data, hints, wr>>

Crash(n) ==
  /\ NodeCrash(n)
  /\ runs' = [runs EXCEPT ![n] = {}]
  /\ UNCHANGED <<base, handedOff, target, owed, dataVars>>

\* New and ResumeHandoff: from the HANDOFF file, or the configured view, to
\* the persisted one.
Start(n) ==
  /\ n \notin stopped
  /\ NodeStart(n)
  /\ LET from == IF handedOff[n] # NoView THEN handedOff[n]
                 ELSE [epoch |-> 0, members |-> Now.config[n]]
         to == Load(n)
     IN  /\ base' = [base EXCEPT ![n] = from]
         /\ target' = [target EXCEPT ![n] = to]
         /\ runs' = [runs EXCEPT ![n] = IF from.epoch >= to.epoch THEN {} ELSE {NewRun(from, to)}]
         \* a view that was written and never published is published now
         /\ owed' = [owed EXCEPT ![n] = IF to = view[n] THEN @ ELSE @ \cup Owes(n, to)]
  /\ UNCHANGED <<handedOff, dataVars>>

Gossip(A) == A /\ UNCHANGED <<handoffVars, dataVars>>

\* What node n does by itself, and with another.
RunStep(n) == \E r \in runs[n] : HandoffPlan(n, r) \/ FinishHandoff(n, r)
PushStep(n) == \E r \in runs[n] : \E t \in r.todo : HandoffPush(n, r, t)
HintStep(n) == \E r \in runs[n] : \E t \in r.todo : HandoffHint(n, r, t)
StopStep(n) == \E v \in Now.declared : StopDrained(n, v)
PingStep(n, p) == Ping(n, p) \/ PingFails(n, p) \/ PingSlowly(n, p)

NodeStep(n) ==
  \/ PublishView(n) \/ Crash(n) \/ Start(n) \/ StopStep(n)
  \/ RunStep(n) \/ PushStep(n) \/ HintStep(n)
  \/ \E v \in Now.declared : DeclareNext(n, v)
  \/ \E t \in Node : DeliverHints(n, t)
  \/ Gossip(AdoptFetch(n) \/ AdoptFails(n) \/ AdoptSet(n) \/ PingAnswered(n))
  \/ \E p \in Node : Gossip(PingStep(n, p))

WriteStep ==
  \E w \in Write : WriteOver(w) \/ \E n \in Node : WriteBegin(w, n) \/ WriteLands(w, n)

Next == (WriteStep \/ \E n \in Node : NodeStep(n)) /\ UNCHANGED env

Spec == Init /\ [][Next]_vars

(***************************************************************************)
(* Goroutines go on, a crashed node is restarted, heartbeats keep coming,  *)
(* and calls that are made again and again do not fail for ever.  Nothing  *)
(* makes the operator declare a view, or a client write.                   *)
(***************************************************************************)
Fair(A) == Now.live /\ A /\ UNCHANGED env

Fairness ==
  /\ WF_vars(Fair(\E n \in Node : PublishView(n) \/ RunStep(n) \/ Gossip(AdoptSet(n))))
  /\ WF_vars(Fair(\E n \in Node : Start(n) \/ StopStep(n)))
  /\ SF_vars(Fair(\E n \in Node : PushStep(n)))
  /\ SF_vars(Fair(\E n \in Node : Gossip(AdoptFetch(n))))
  /\ \A n \in Node : \A p \in Node \ {n} : WF_vars(Fair(Gossip(Ping(n, p))))

FairSpec == Spec /\ Fairness

-----------------------------------------------------------------------------
TypeOK ==
  /\ MembershipTypeOK
  /\ \A n \in Node :
       /\ data[n] \subseteq Write /\ base[n].epoch <= view[n].epoch
       /\ handedOff[n] # NoView => handedOff[n].epoch <= file[n].epoch
       /\ Cardinality({r \in runs[n] : r.to = target[n]}) <= 1

(***************************************************************************)
(* When a node's handoff is complete, every write that one of its views    *)
(* had obliged it to pass on is with the owner it is for, or in a hint:    *)
(* also when views followed each other faster than handoffs, and when the  *)
(* node crashed and resumed.  (startHandoff, finishHandoff, New)           *)
(***************************************************************************)
HandoffComplete ==
  \A n \in up : base[n] = view[n] =>
    \A o \in owed[n] :
      o[2] \in Owners(view[n]) => o[1] \in data[view[n].members[o[2]]] \cup hints[n][o[2]]

(***************************************************************************)
(* Stopping a drained node loses nothing: every acknowledged write is on a *)
(* node that was not stopped, when changes are made one at a time.         *)
(***************************************************************************)
StoppedLosesNothing ==
  Now.serial => \A w \in Acked : \E p \in Node \ stopped : w \in data[p]

(***************************************************************************)
(* No member has a stopped node in its view: none coordinates a write that *)
(* would count on it, also after a crash and restart.  (WaitDrained)       *)
(***************************************************************************)
StoppedIsUnused ==
  Now.serial => \A n \in stopped : \A p \in DOMAIN view[n].members \ stopped : ~IsMember(n, Load(p))

(***************************************************************************)
(* A view that one node holds reaches every node, also one that is         *)
(* leaving, through crashes, lost pings and failed fetches.                *)
(***************************************************************************)
ViewsSpread ==
  (Now.live /\ \E n \in up : view[n].epoch > 0)
    ~> \A n \in Now.nodes \ stopped : n \in up /\ view[n].epoch > 0

(***************************************************************************)
(* A node that learns it is leaving is drained in the end, and stopped.    *)
(***************************************************************************)
LeaversDrain ==
  (Now.live /\ \E n \in up : ~IsMember(n, view[n])) ~> stopped # {}
=============================================================================
