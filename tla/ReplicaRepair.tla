---------------------------- MODULE ReplicaRepair ----------------------------
(***************************************************************************)
(* What brings the replicas of a key together after a write: delivery of   *)
(* hints (internal/node/hintdelivery.go) and anti-entropy                  *)
(* (internal/node/antientropy.go), composed with the coordination of       *)
(* writes.  Both loops run one round at a time on each node.               *)
(***************************************************************************)
EXTENDS Replication

VARIABLES
  hd,  \* hd[n]: the hint delivery n is in: its target, items, those to merge
  ae   \* ae[n]: the reconciliation n is in

repairVars == <<hd, ae>>
vars == <<env, storeVars, hints, nodeVars, coordVars, repairVars>>

Loops == Scenarios[env].loops

NoDelivery == [pc |-> "idle", to |-> NoValue, items |-> {}, todo |-> {}]
NoReconcile == [pc |-> "idle", peer |-> NoValue, local |-> {}, remote |-> {}, todo |-> {}]

Init ==
  /\ ReplicationInit
  /\ hd = [n \in Replica |-> NoDelivery]
  /\ ae = [n \in Replica |-> NoReconcile]

\* A call to p fails: it cannot be reached, or its store refuses the write.
CallFails(p) == Fails(p, "unreachable") \/ Fails(p, "internal") \/ ~Serves(p) \/ p \in halted

-----------------------------------------------------------------------------
\* deliverHintsTo reads what is pending for a target that is not dead.
HintSend(n, t) ==
  /\ "hints" \in Loops[n] /\ up[n] = "up" /\ hd[n].pc = "idle" /\ Pending(n, t) # {}
  /\ hd' = [hd EXCEPT ![n] = [pc |-> "send", to |-> t, items |-> Pending(n, t),
                              todo |-> Pending(n, t)]]
  /\ UNCHANGED <<storeVars, hints, nodeVars, coordVars, ae>>

\* Server.Replicate merges them one by one.
HintMerge(n) ==
  /\ hd[n].pc = "send" /\ Serves(hd[n].to) /\ hd[n].to \notin halted
  /\ \E item \in hd[n].todo :
       /\ MergeReplicated(hd[n].to, item)
       /\ hd' = [hd EXCEPT ![n].todo = @ \ {item}]
  /\ UNCHANGED <<flushed, inc, hints, nodeVars, coordVars, ae>>

\* A mutation of HintMark: everything pending by now is marked.
HintMarkPending(n) ==
  /\ hd[n].pc = "send" /\ hd[n].todo = {}
  /\ MarkDelivered(n, hd[n].to, Pending(n, hd[n].to))
  /\ hd' = [hd EXCEPT ![n] = NoDelivery]
  /\ UNCHANGED <<storeVars, nodeVars, coordVars, ae>>

\* Accepted: the hints are marked, unless the hint store fails.
HintMark(n) ==
  /\ hd[n].pc = "send" /\ hd[n].todo = {}
  /\ MarkDelivered(n, hd[n].to, hd[n].items) \/ (Fails(n, "hint") /\ UNCHANGED hints)
  /\ hd' = [hd EXCEPT ![n] = NoDelivery]
  /\ UNCHANGED <<storeVars, nodeVars, coordVars, ae>>

\* Any error keeps the hints for the next round, whatever was merged.
HintFails(n) ==
  /\ hd[n].pc = "send" /\ (CallFails(hd[n].to) \/ Fails(hd[n].to, "lost"))
  /\ hd' = [hd EXCEPT ![n] = NoDelivery]
  /\ UNCHANGED <<storeVars, hints, nodeVars, coordVars, ae>>

-----------------------------------------------------------------------------
(***************************************************************************)
(* RunAntiEntropy and reconcileBucket.  The trees differ if the key's      *)
(* versions do.  Both sides are read, the local one first, and then each   *)
(* is sent what the other does not cover.                                  *)
(***************************************************************************)
missingFrom(set, incoming) ==
  {item \in incoming : ~\E have \in set : Compare(have, item) \in {"After", "Equal"}}

ReconcileBegin(n, p) ==
  /\ "antientropy" \in Loops[n] /\ up[n] = "up" /\ ae[n].pc = "idle" /\ p # n /\ Serves(p)
  /\ Get(n) # Get(p)
  /\ ae' = [ae EXCEPT ![n] = [NoReconcile EXCEPT !.pc = "fetch", !.peer = p, !.local = Get(n)]]
  /\ UNCHANGED <<storeVars, hints, nodeVars, coordVars, hd>>

ReconcileFetch(n) ==
  LET remote == Get(ae[n].peer)
  IN  /\ ae[n].pc = "fetch" /\ Serves(ae[n].peer)
      /\ ae' = [ae EXCEPT ![n].pc = "pull", ![n].remote = remote,
                          ![n].todo = missingFrom(ae[n].local, remote)]
      /\ UNCHANGED <<storeVars, hints, nodeVars, coordVars, hd>>

\* A mutation of ReconcilePull: the merge of what was read is installed whole.
ReconcileOverwrite(n) ==
  /\ ae[n].pc = "pull" /\ n \notin halted /\ ae[n].todo # {}
  /\ RestoreVersions(n, MergeSiblings(ae[n].local, ae[n].remote))
  /\ ae' = [ae EXCEPT ![n].todo = {}]
  /\ UNCHANGED <<flushed, inc, hints, nodeVars, coordVars, hd>>

\* One version the peer has is merged here; a failing store ends the bucket.
ReconcilePull(n) ==
  /\ ae[n].pc = "pull" /\ n \notin halted
  /\ \E item \in ae[n].todo :
       /\ MergeReplicated(n, item)
       /\ ae' = [ae EXCEPT ![n].todo = @ \ {item}]
  /\ UNCHANGED <<flushed, inc, hints, nodeVars, coordVars, hd>>

\* A mutation of ReconcilePush: a round only pulls.
ReconcilePullOnly(n) ==
  /\ ae[n].pc = "pull" /\ ae[n].todo = {}
  /\ ae' = [ae EXCEPT ![n] = NoReconcile]
  /\ UNCHANGED <<storeVars, hints, nodeVars, coordVars, hd>>

\* Then what the peer does not cover is pushed to it.
ReconcilePush(n) ==
  LET toPush == missingFrom(ae[n].remote, ae[n].local)
  IN  /\ ae[n].pc = "pull" /\ ae[n].todo = {}
      /\ ae' = [ae EXCEPT ![n] = IF toPush = {} THEN NoReconcile
                                 ELSE [@ EXCEPT !.pc = "push", !.todo = toPush]]
      /\ UNCHANGED <<storeVars, hints, nodeVars, coordVars, hd>>

ReconcileMerge(n) ==
  /\ ae[n].pc = "push" /\ Serves(ae[n].peer) /\ ae[n].peer \notin halted
  /\ \E item \in ae[n].todo :
       /\ MergeReplicated(ae[n].peer, item)
       /\ ae' = [ae EXCEPT ![n] = IF ae[n].todo = {item} THEN NoReconcile
                                  ELSE [ae[n] EXCEPT !.todo = @ \ {item}]]
  /\ UNCHANGED <<flushed, inc, hints, nodeVars, coordVars, hd>>

\* A failed call, or a halted store, ends the reconciliation.
ReconcileFails(n) ==
  /\ \/ ae[n].pc \in {"fetch", "push"} /\ CallFails(ae[n].peer)
     \/ ae[n].pc = "pull" /\ ae[n].todo # {} /\ (n \in halted \/ Fails(n, "internal"))
  /\ ae' = [ae EXCEPT ![n] = NoReconcile]
  /\ UNCHANGED <<storeVars, hints, nodeVars, coordVars, hd>>

-----------------------------------------------------------------------------
\* Close follows StopBackgroundLoops, which waits for the rounds under way.
Close(n) == CloseBegin(n) /\ hd[n].pc = "idle" /\ ae[n].pc = "idle"

Ends(n) ==
  /\ Stopped(n)
  /\ hd' = [hd EXCEPT ![n] = NoDelivery]
  /\ ae' = [ae EXCEPT ![n] = NoReconcile]

Crash(n) == Alive(n) /\ Fails(n, "crash") /\ crashes < MaxCrash /\ Ends(n)

CloseEnd(n) == up[n] = "closing" /\ (\A c \in Client : ~Draining(c, n)) /\ Ends(n)

ClientStep ==
  \E c \in Client :
    \/ \E n \in Replica \cup Front : GetBegin(c, n) \/ PutBegin(c, n)
    \/ \E p \in Replica : GetResponse(c, p) \/ GetFailure(c, p)
    \/ ForwardSkip(c) \/ ForwardSend(c) \/ ForwardReturn(c) \/ ForwardLost(c)

CoordinatorStep ==
  \E c \in Client, n \in Replica :
    \/ PutStore(c, n) \/ PutFails(c, n) \/ PutHalts(c, n) \/ Cancel(c, n) \/ Rollback(c, n)
    \/ \E p \in Peers(n) :
         \/ Replicate(c, n, p) \/ Accepted(c, n, p) \/ Unavailable(c, n, p)
         \/ ReplicateHalts(c, n, p) \/ Refused(c, n, p) \/ Timeout(c, n, p)
         \/ Lost(c, n, p, "unavailable") \/ Lost(c, n, p, "error")
         \/ StoreHint(c, n, p)

RepairStep ==
  \E n \in Replica :
    \/ \E p \in Peers(n) : HintSend(n, p) \/ ReconcileBegin(n, p)
    \/ HintMerge(n) \/ HintMark(n) \/ HintFails(n)
    \/ ReconcileFetch(n) \/ ReconcilePull(n) \/ ReconcilePush(n) \/ ReconcileMerge(n)
    \/ ReconcileFails(n)

NodeStep ==
  \E n \in Replica : Close(n) \/ Restart(n) \/ Replace(n) \/ FlushStore(n)

Next ==
  \/ (ClientStep \/ CoordinatorStep \/ NodeStep \/ \E m \in net : Arrives(m)) /\ UNCHANGED <<env, repairVars>>
  \/ RepairStep /\ UNCHANGED env
  \/ \E n \in Replica : (Crash(n) \/ CloseEnd(n)) /\ UNCHANGED env

Spec == Init /\ [][Next]_vars

(***************************************************************************)
(* Fairness: calls are answered or fail, goroutines run on, the loops come *)
(* round again, and a supervisor restarts what stopped.  Strong fairness   *)
(* of the calls of a round: a peer that does not answer now and then is    *)
(* called again in every round, and some round finds it.                   *)
(***************************************************************************)
Running(loop) == {n \in Replica : \E s \in DOMAIN Scenarios : loop \in Scenarios[s].loops[n]}
MayStop == UNION {Scenarios[s].faulty : s \in DOMAIN Scenarios}

Fairness ==
  /\ WF_vars(CoordinatorStep /\ UNCHANGED <<env, repairVars>>)
  /\ \A n \in MayStop :
       WF_vars(Restart(n) /\ UNCHANGED <<env, repairVars>>) /\ WF_vars(CloseEnd(n) /\ UNCHANGED env)
  /\ \A n \in Running("hints") :
       /\ SF_vars(HintMerge(n) /\ UNCHANGED env)
       /\ SF_vars(HintMark(n) /\ UNCHANGED env)
       /\ WF_vars(HintFails(n) /\ UNCHANGED env)
       /\ \A p \in Peers(n) : WF_vars(HintSend(n, p) /\ UNCHANGED env)
  /\ \A n \in Running("antientropy") :
       /\ SF_vars(ReconcileFetch(n) /\ UNCHANGED env)
       /\ SF_vars(ReconcileMerge(n) /\ UNCHANGED env)
       /\ WF_vars((ReconcilePull(n) \/ ReconcilePush(n)) /\ UNCHANGED env)
       /\ WF_vars(ReconcileFails(n) /\ UNCHANGED env)
       /\ \A p \in Peers(n) : SF_vars(ReconcileBegin(n, p) /\ UNCHANGED env)

FairSpec == Spec /\ Fairness

-----------------------------------------------------------------------------
TypeOK ==
  /\ StoreTypeOK
  /\ \A n, t \in Replica : hints[n][t] \subseteq Version /\ Siblings(hints[n][t])
  /\ up \in [Replica -> {"up", "closing", "down"}] /\ halted \subseteq Replica
  /\ \A m \in net : m.to \in Replica /\ m.item \in Version
  /\ \A c \in Client : past[c] \subseteq Client

\* The write of c is in S, or S has one that was built on it, by what the
\* writes have really seen rather than by their clocks.
Superseded(S, c) == \E x \in S : x.val = c \/ (x.val \in Client /\ c \in past[x.val])

(***************************************************************************)
(* A read returns every write acknowledged before it began, or writes      *)
(* built on it: R and W overlap, whichever replicas answer, and merging    *)
(* the answers drops nothing.  (Node.Get, Node.putAsReplica)               *)
(***************************************************************************)
ReadsSeeAcked ==
  \A c \in Client : cl[c].pc = "got" => \A d \in cl[c].since : Superseded(cl[c].merged, d)

(***************************************************************************)
(* An acknowledged write is on W of its replicas, or writes built on it    *)
(* are, except where the rollback of another write has removed it.         *)
(***************************************************************************)
AckedOnQuorum ==
  \A c \in Acked : \E n \in Replica :
    /\ co[c][n].ans = "ok"
    /\ Cardinality({p \in Replica : Superseded(Get(p), c) \/ <<p, co[c][n].item>> \in undone}) >= W

(***************************************************************************)
(* No acknowledged write disappears: some replica has it, or one built on  *)
(* it, also when one node is replaced by an empty one of the same id.      *)
(***************************************************************************)
AckedSurvives ==
  \A c \in Acked : \E p \in Replica :
    \/ Superseded(Get(p), c)
    \/ \E n \in Replica : co[c][n].ans = "ok" /\ <<p, co[c][n].item>> \in undone

(***************************************************************************)
(* The same by clocks alone: W replicas hold the version or one with a     *)
(* clock not below it.  What Replicate's answer promises, whatever fails   *)
(* short of losing a disk.                                                 *)
(***************************************************************************)
AckedCovered ==
  \A c \in Client, n \in Replica :
    co[c][n].ans = "ok" =>
      Cardinality({p \in Replica : \/ Covers(Get(p), co[c][n].item)
                                   \/ <<p, co[c][n].item>> \in undone
                                   \/ inc[p] > 0}) >= W

(***************************************************************************)
(* A hint is pending until its target holds the version or a later one:    *)
(* markers retire nothing that was not delivered, also when more hints     *)
(* come between a delivery and its mark.  (hints.Store)                    *)
(***************************************************************************)
HintsKeptUntilDelivered ==
  \A c \in Client, n, p \in Replica :
    co[c][n].res[p] = "hinted" /\ inc[n] = 0 /\ inc[p] = 0 =>
      \/ Covers(Pending(n, p), co[c][n].item)
      \/ Covers(Get(p), co[c][n].item)
      \/ <<p, co[c][n].item>> \in undone

(***************************************************************************)
(* No hint holds a write that was rolled back: it would reach a node that  *)
(* never saw it.  (drainReplication's keep)                                *)
(***************************************************************************)
NoHintOfUndone ==
  \A c \in Client, n, p \in Replica :
    co[c][n].ans = "quorum" => co[c][n].item \notin hints[n][p]

(***************************************************************************)
(* A client's write is versioned once, by one replica, also when it was    *)
(* forwarded to several: the next is tried only when this one has answered *)
(* that it did not apply it, or its connection broke.  (forwardPut)        *)
(***************************************************************************)
VersionedOnce ==
  \A c \in Client :
    Cardinality({n \in Replica \ cl[c].broken : co[c][n].item # NoVersion}) <= 1

(***************************************************************************)
(* Every replica ends up with the same versions: what calls, hints and     *)
(* anti-entropy leave behind is level once clients and crashes stop.       *)
(***************************************************************************)
Converged == \A n, p \in Replica : Get(n) = Get(p)
Converges == <>[]Converged
=============================================================================
