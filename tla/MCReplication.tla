---------------------------- MODULE MCReplication ----------------------------
(***************************************************************************)
(* Replication and repair for TLC: three replicas of one key, two or three *)
(* clients, and the scenarios of the runs.                                 *)
(***************************************************************************)
EXTENDS ReplicaRepair, TLC

CONSTANTS A, B, C, F, nil, ctx, c1, c2, c3

MCDelivered == <<"delivered", 0>>
MCClockIDs == (Replica \X (0..MaxIncarnation)) \cup {MCDelivered}
MCValue == Client \cup {nil}
MCPref == <<A, B, C>>

NoLoops == [n \in Replica |-> {}]

\* c1 and c2 put through A, and c3 reads, without faults: to be varied.
Calm ==
  [entry    |-> [c \in Client |-> IF c = c3 THEN {B} ELSE {A}],
   mode     |-> [c \in Client |-> IF c = c3 THEN "read" ELSE "put"],
   faults   |-> {}, faulty |-> {C}, loops |-> NoLoops,
   maxCrash |-> 1, maxFlush |-> 0]

\* One write goes through the replica that fails, or not.
QuorumScenario ==
  [Calm EXCEPT !.entry[c2] = {A, C}, !.faults = {"unreachable", "lost", "late", "crash"}]

\* A peer that is now and then away is repaired by hints and anti-entropy.
RepairScenario ==
  [Calm EXCEPT !.entry[c2] = {A, B}, !.mode[c3] = "none", !.faults = {"unreachable", "internal"},
               !.loops = [NoLoops EXCEPT ![A] = {"hints"}, ![C] = {"antientropy"}]]

\* Two coordinators; all that one calls, and half of what the other calls,
\* may go wrong in any way.
RollbackScenario ==
  [Calm EXCEPT !.entry[c2] = {B}, !.faulty = {B, C},
               !.faults = {"unreachable", "lost", "late", "cancel", "hint"},
               !.loops = [NoLoops EXCEPT ![A] = {"hints"}], !.maxFlush = 1]

\* Nodes crash, close and halt, the coordinator among them.
NodesScenario ==
  [Calm EXCEPT !.faults = {"halt", "close", "crash"}, !.faulty = {A, C},
               !.loops = [NoLoops EXCEPT ![A] = {"hints"}]]

\* A forwarded write, alone, and every answer forwardPut may get.
ForwardScenario ==
  [Calm EXCEPT !.entry[c1] = {F}, !.mode[c2] = "none", !.faulty = Replica,
               !.faults = {"unreachable", "refuse", "lost", "cancel", "internal"}]

\* A write is forwarded again while the replica that had it goes on.
FailoverScenario ==
  [Calm EXCEPT !.entry[c1] = {F}, !.mode[c2] = "none", !.faulty = {A, C},
               !.faults = {"crash", "failover", "unreachable", "lost"}]

\* C's disk is lost, and C comes back empty under its id, perhaps twice.
ReplaceScenario ==
  [Calm EXCEPT !.entry = [c \in Client |-> {C}], !.faults = {"replace", "crash"},
               !.loops = [NoLoops EXCEPT ![C] = {"antientropy"}],
               !.maxCrash = 2]

\* Only anti-entropy, or only hints, to level the replicas.
SyncScenario ==
  [Calm EXCEPT !.entry[c2] = {B}, !.faults = {"unreachable", "late"},
               !.loops = [NoLoops EXCEPT ![A] = {"antientropy"}]]
HintsScenario ==
  [Calm EXCEPT !.faults = {"unreachable"}, !.loops = [NoLoops EXCEPT ![A] = {"hints"}]]

\* Answers are lost anywhere; and clients that read before they write.
ReuseScenario == [Calm EXCEPT !.faults = {"unreachable", "lost"}, !.faulty = Replica]
ContextScenario == [Calm EXCEPT !.mode = [c \in Client |-> "readput"]]

Reads == [quorum |-> QuorumScenario, repair |-> RepairScenario]
Failures == [rollback |-> RollbackScenario, nodes |-> NodesScenario, forward |-> ForwardScenario,
             failover |-> FailoverScenario, replace |-> ReplaceScenario]
Repairs == [sync |-> SyncScenario, hints |-> HintsScenario]
Reuse == [reuse |-> ReuseScenario]
Context == [context |-> ContextScenario]
=============================================================================
