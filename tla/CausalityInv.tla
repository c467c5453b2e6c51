---------------------------- MODULE CausalityInv ----------------------------
(***************************************************************************)
(* The inductive invariant behind the proofs about reads: as long as no    *)
(* rollback has taken a clock entry back and no client writes with a       *)
(* context, clocks say what was built on what, and a replica that covers a *)
(* version has the write or one that was built on it.                      *)
(***************************************************************************)
EXTENDS ReplicationInv

Undisturbed ==
  /\ \A c \in Client : Mode[c] # "readput"
  /\ \A c \in Client, n \in Replica : co[c][n].ans # "quorum"

\* The replicas that have lost a disk.
Replaced == {p \in Replica : inc[p] > 0}

(***************************************************************************)
(* Where versions are: all of them, but for those in limbo and for         *)
(* markers, are in S.                                                      *)
(***************************************************************************)
StoresIn(S) == \A n \in Replica : active[n] \subseteq S /\ flushed[n] \subseteq S
HintsIn(S) == \A n, t \in Replica : \A x \in hints[n][t] : isMarker(x) \/ x \in S
CallsIn(S) ==
  /\ \A m \in net : m.item \in S
  /\ \A c \in Client, n \in Replica : co[c][n].item \in S \cup {NoVersion}
ReadsIn(S) == \A c \in Client : cl[c].merged \subseteq S
RepairsIn(S) ==
  \A n \in Replica : /\ hd[n].todo \subseteq hd[n].items /\ hd[n].items \subseteq S
                     /\ ae[n].local \subseteq S /\ ae[n].remote \subseteq S /\ ae[n].todo \subseteq S

Within(S) == StoresIn(S) /\ HintsIn(S) /\ CallsIn(S) /\ ReadsIn(S) /\ RepairsIn(S)

\* Those, and the versions at which an engine has halted.
All(S) == S \cup UNION {limbo[n] : n \in Replica}

-----------------------------------------------------------------------------
(***************************************************************************)
(* Every version has an entry of its own: who has come as far there has    *)
(* seen the version.  And clocks tell the truth about what was seen.       *)
(***************************************************************************)
Own(T, x, i) == x.clock[i] > 0 /\ \A z \in T : z.clock[i] >= x.clock[i] => Leq(x, z)
HaveOwn(T) == \A x \in T : \E i \in ClockIDs : Own(T, x, i)
Faithful(T) == \A x, y \in T : Leq(x, y) => x.val = y.val \/ x.val \in past[y.val]

(***************************************************************************)
(* A node knows of every entry given under its name and incarnation, the   *)
(* one apart at which it has halted; so the next it gives is new.  Nobody  *)
(* has an entry of an incarnation to come.                                 *)
(***************************************************************************)
Known(n, k) == k = 0 \/ \E z \in Get(n) : z.clock[clockID(n)] >= k
Recorded(T) == \A n \in Replica : \A x \in T : Known(n, x.clock[clockID(n)])
Fresh(T) == \A n \in Replica, k \in 0..MaxIncarnation : k > inc[n] => \A x \in T : x.clock[<<n, k>>] = 0

LimboInv ==
  \A n \in Replica :
    /\ limbo[n] # {} => n \in halted
    /\ \A m \in Replica : m # n => \A x \in limbo[n] : Known(m, x.clock[clockID(m)])

OrderInv(S) ==
  /\ HaveOwn(All(S)) /\ Faithful(All(S)) /\ Fresh(All(S)) /\ Recorded(S)
  /\ \A x \in All(S) : ~isMarker(x)

-----------------------------------------------------------------------------
\* t has x, or what supersedes it, unless it has lost its disk.
Reached(t, x) == Covers(Get(t), x) \/ inc[t] > 0

(***************************************************************************)
(* What a marker retires has reached its target, and so has what a         *)
(* delivery under way is done with.                                        *)
(***************************************************************************)
MarkersInv(S) ==
  \A n, t \in Replica : \A m \in hints[n][t] :
    isMarker(m) => Recorded({m}) /\ Fresh({m}) /\ \A x \in All(S) : Leq(x, m) => Reached(t, x)

DeliveredInv ==
  \A n \in Replica : hd[n].pc = "send" => \A x \in hd[n].items \ hd[n].todo : Reached(hd[n].to, x)

HintedInv ==
  \A c \in Client, n, p \in Replica :
    co[c][n].res[p] = "hinted" /\ inc[n] = 0 =>
      Covers(Pending(n, p), co[c][n].item) \/ Reached(p, co[c][n].item)

(***************************************************************************)
(* The answers to a read: R of them once it is done, and for every write   *)
(* acknowledged before it W replicas that had the version then, so that    *)
(* whoever of them has answered has shown it.                              *)
(***************************************************************************)
Shown(c, x) ==
  \E Q \in SUBSET Replica :
    /\ Cardinality(Q) >= W
    /\ \A p \in Q : Reached(p, x) /\ (p \in cl[c].resp => Covers(cl[c].merged, x) \/ inc[p] > 0)

ReadInv ==
  \A c \in Client : cl[c].pc \in {"getting", "got"} =>
    /\ cl[c].pc = "got" => Cardinality(cl[c].resp) >= R
    /\ \A d \in cl[c].since : \E n \in Replica : co[d][n].ans = "ok" /\ Shown(c, co[d][n].item)

AckInv == \A c \in Acked : \E n \in Replica : co[c][n].ans = "ok"

-----------------------------------------------------------------------------
CausalInv(S) ==
  /\ Within(S) /\ OrderInv(S) /\ MarkersInv(S) /\ LimboInv /\ DeliveredInv /\ HintedInv
  /\ AckInv /\ ReadInv /\ undone = {} /\ \A c \in Client : cl[c].ctx = NoContext

ICausality == Undisturbed => \E S \in SUBSET Item : CausalInv(S)
=============================================================================
