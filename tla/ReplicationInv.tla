--------------------------- MODULE ReplicationInv ---------------------------
(***************************************************************************)
(* The inductive invariant behind the proofs about ReplicaRepair: what is  *)
(* in the stores, hints and calls, what the record of a coordination says, *)
(* which replicas hold the version it is about, and in what order a client *)
(* has had its write coordinated.                                          *)
(***************************************************************************)
EXTENDS ReplicaRepair

\* The versions that clients write, sets of them, and sibling lists.
Item == [clock : Clock, val : Client]
Items(S) == S \subseteq Item /\ IsFiniteSet(S)
List(S) == Items(S) /\ Siblings(S)

CoPC == {"none", "read", "fan", "rollback", "done"}
Answer == {"none", "ok", "storage", "canceled", "quorum", "crashed"}
Outcome == {"none", "sent", "applied", "ok", "unavailable", "error", "hinted"}
CallPC == {"idle", "getting", "got", "put", "ok", "failed"}

Coordination == [pc : CoPC, prev : SUBSET Item, item : Item \cup {NoVersion}, keep : BOOLEAN,
                 ans : Answer, res : [Replica -> Outcome]]
Call == [pc : CallPC, at : Replica \cup Front \cup {NoValue}, merged : SUBSET Item,
         resp : SUBSET Replica, failed : SUBSET Replica, since : SUBSET Client,
         ctx : Clock \cup {NoContext}, next : 1..Total + 1, on : Replica \cup {NoValue},
         broken : SUBSET Replica]
Delivery == [pc : {"idle", "send"}, to : Replica \cup {NoValue}, items : SUBSET Item, todo : SUBSET Item]
Reconciliation == [pc : {"idle", "fetch", "pull", "push"}, peer : Replica \cup {NoValue},
                   local : SUBSET Item, remote : SUBSET Item, todo : SUBSET Item]

StoreInv ==
  /\ active \in [Replica -> SUBSET Item] /\ flushed \in [Replica -> SUBSET Item]
  /\ inc \in [Replica -> 0..MaxIncarnation]
  /\ \A n \in Replica : List(active[n]) /\ List(flushed[n])

NodeInv ==
  /\ up \in [Replica -> {"up", "closing", "down"}] /\ halted \subseteq Replica
  /\ limbo \in [Replica -> SUBSET Item]

NetInv == \A m \in net : m.to \in Replica /\ m.item \in Item

PastInv == past \in [Client -> SUBSET Client]

\* A delivery, or a reconciliation, that is under way has a peer.
RepairInv ==
  /\ hd \in [Replica -> Delivery] /\ ae \in [Replica -> Reconciliation]
  /\ \A n \in Replica : /\ hd[n].pc = "send" => hd[n].to \in Replica
                        /\ ae[n].pc # "idle" => ae[n].peer \in Replica
                        /\ IsFiniteSet(hd[n].items)

\* A forwarding client has a replica left to try.
CallInv ==
  /\ cl \in [Client -> Call]
  /\ \A c \in Client : List(cl[c].merged) /\ (cl[c].pc = "put" => cl[c].next <= Total)

-----------------------------------------------------------------------------
\* The replicas that have answered that they hold the version.
Oks(res) == {p \in Replica : res[p] \in {"ok"}}

(***************************************************************************)
(* The record of c's write at n.  It has no version before PutStore; hints *)
(* are kept only of a write that stands; an answer to the client that it   *)
(* is written counts n and W - 1 others.                                   *)
(***************************************************************************)
Sound(c, n, rec) ==
  /\ rec \in Coordination /\ List(rec.prev)
  /\ rec.pc \in {"none", "read"} =>
       rec.item = NoVersion /\ ~rec.keep /\ rec.ans = "none" /\ \A p \in Replica : rec.res[p] = "none"
  /\ rec.pc \in {"fan", "rollback"} => rec.ans = "none"
  /\ rec.pc \in {"fan", "rollback"} \/ rec.ans = "ok" => rec.item \in Item
  /\ rec.item \in Item => rec.item.val = c
  /\ rec.keep => rec.pc = "done" /\ rec.ans \in {"ok", "canceled"}
  /\ rec.res[n] = "none" /\ \A p \in Replica : rec.res[p] # "none" => rec.item \in Item
  /\ rec.ans = "ok" => 1 + Cardinality(Oks(rec.res)) >= W

CoInv ==
  /\ co \in [Client -> [Replica -> Coordination]]
  /\ \A c \in Client, n \in Replica : Sound(c, n, co[c][n])

\* p has x or what supersedes it, or lost it to a rollback or a disk.
Holds(p, x) == Covers(Get(p), x) \/ <<p, x>> \in undone \/ inc[p] > 0

\* The replicas that must hold the version a record is about.
Owes(n, rec) ==
  {p \in Replica : rec.res[p] \in {"applied", "ok"}} \cup {p \in {n} : rec.pc = "fan" \/ rec.ans = "ok"}

HeldInv == \A c \in Client, n \in Replica : \A p \in Owes(n, co[c][n]) : Holds(p, co[c][n].item)

\* A hint is a marker, or of a write that n has let stand.
HintInv ==
  /\ hints \in [Replica -> [Replica -> SUBSET Version]]
  /\ \A n, p \in Replica :
       /\ Siblings(hints[n][p]) /\ IsFiniteSet(hints[n][p])
       /\ \A x \in hints[n][p] : \/ x.val = NoValue /\ isMarker(x)
                                 \/ x \in Item /\ co[x.val][n].ans \in {"ok", "canceled"}

-----------------------------------------------------------------------------
(***************************************************************************)
(* Where the write of c has been coordinated: nowhere before its Put; then *)
(* at cl[c].on and at replicas whose connection broke, which forwardPut    *)
(* had tried before.                                                       *)
(***************************************************************************)
ChainInv ==
  \A c \in Client :
    /\ cl[c].pc \in {"idle", "getting", "got"} =>
         cl[c].next = 1 /\ cl[c].on = NoValue /\ \A n \in Replica : co[c][n].pc = "none"
    /\ Forwarding(c) =>
         \A i \in DOMAIN Pref :
           i > cl[c].next \/ (i = cl[c].next /\ cl[c].on = NoValue) => co[c][Pref[i]].pc = "none"
    /\ \A n \in Replica : co[c][n].pc # "none" => n \in cl[c].broken \cup {cl[c].on}

TypesInv == StoreInv /\ NodeInv /\ NetInv /\ PastInv /\ RepairInv /\ CallInv /\ CoInv
IReplication == env \in DOMAIN Scenarios /\ TypesInv /\ HeldInv /\ HintInv /\ ChainInv
=============================================================================
