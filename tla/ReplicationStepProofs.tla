----------------------- MODULE ReplicationStepProofs -----------------------
(***************************************************************************)
(* Proofs about the steps of ReplicaRepair, for any replicas, clients and  *)
(* quorums and in every scenario: IReplication is inductive; and what a    *)
(* step that is no rollback does to the records of the writes.             *)
(***************************************************************************)
EXTENDS CausalityInv, VersioningProofs

USE Zenon

(***************************************************************************)
(* What the proofs use about finite sets, and that the largest entry which *)
(* UnionVectorClock chooses exists.  These are hypotheses of the lemmas    *)
(* here; ReplicationProofs proves them from the library's theorems.        *)
(***************************************************************************)
OfSingletons == \A x : IsFiniteSet({x}) /\ Cardinality({x}) = 1
OfSubsets == \A S, T : IsFiniteSet(S) /\ T \subseteq S => IsFiniteSet(T) /\ Cardinality(T) <= Cardinality(S)
OfUnions == \A S, T : IsFiniteSet(S) /\ IsFiniteSet(T) => IsFiniteSet(S \cup T)
OfElements ==
  \A S : IsFiniteSet(S) =>
    Cardinality(S) \in Nat /\ \A x : x \notin S => Cardinality(S \cup {x}) = Cardinality(S) + 1
EntryFound ==
  \A S \in SUBSET Version : IsFiniteSet(S) =>
    \A i \in ClockIDs : \E m \in {0} \cup {x.clock[i] : x \in S} : IsUnionEntry(S, i, m)

FiniteFacts ==
  /\ IsFiniteSet({}) /\ IsFiniteSet(Replica)
  /\ OfSingletons /\ OfSubsets /\ OfUnions /\ OfElements /\ EntryFound

LEMMA ItemFacts ==
  /\ Item \subseteq Version /\ NoVersion \notin Item /\ NoVersion \in Version
  /\ \A x \in Item : x.val \in Client
  /\ \A x \in [clock : Clock, val : {NoValue}] : x \in Version
BY QuorumAssumption, DeliveredAssumption DEF Item, Version, NoVersion, ZeroClock, Clock

LEMMA UnionType ==
  ASSUME FiniteFacts, NEW S \in SUBSET Version, IsFiniteSet(S)
  PROVE  UnionVectorClock(S) \in Clock
<1>1. ASSUME NEW i \in ClockIDs
      PROVE  (CHOOSE m \in {0} \cup {x.clock[i] : x \in S} : IsUnionEntry(S, i, m)) \in Nat
  <2>1. {0} \cup {x.clock[i] : x \in S} \subseteq Nat
    BY SMT DEF Version, Clock
  <2> QED
    BY <2>1 DEF FiniteFacts, EntryFound
<1> QED
  BY <1>1 DEF UnionVectorClock, Clock

\* Sibling lists of client versions are closed under what the stores do.
LEMMA EmptyList ==
  ASSUME FiniteFacts
  PROVE  List({}) /\ Items({})
BY DEF FiniteFacts, List, Items, Siblings

LEMMA MergeList ==
  ASSUME FiniteFacts, NEW a, NEW b, List(a), List(b)
  PROVE  List(MergeSiblings(a, b)) /\ MergeSiblings(a, b) \in SUBSET Item
<1>1. a \in SUBSET Version /\ b \in SUBSET Version /\ a \subseteq Item /\ b \subseteq Item
  BY ItemFacts DEF List, Items
<1>2. Siblings(MergeSiblings(a, b))
  BY <1>1, MergeKeepsSiblings DEF List
<1>3. MergeSiblings(a, b) \subseteq a \cup b
  BY MergeWithin
<1>4. IsFiniteSet(MergeSiblings(a, b))
  BY <1>3 DEF FiniteFacts, OfUnions, OfSubsets, List, Items
<1> QED
  BY <1>1, <1>2, <1>3, <1>4 DEF List, Items

LEMMA OneItemList == ASSUME FiniteFacts, NEW x \in Item PROVE List({x})
BY DEF FiniteFacts, OfSingletons, List, Items, Siblings

LEMMA ResolveList ==
  ASSUME FiniteFacts, NEW a, List(a), NEW x \in Item
  PROVE  List(Resolve(a, x)) /\ Resolve(a, x) \in SUBSET Item
<1>1. Resolve(a, x) = MergeSiblings(a, {x})
  BY ItemFacts, ResolveIsMerge DEF List, Items
<1> QED
  BY <1>1, OneItemList, MergeList, SMT

LEMMA GetList ==
  ASSUME FiniteFacts, StoreInv, NEW n \in Replica
  PROVE  List(Get(n)) /\ Get(n) \in SUBSET Item
BY MergeList DEF StoreInv, Get

LEMMA NewVersionType ==
  ASSUME FiniteFacts, StoreInv, NEW n \in Replica, NEW context \in Clock \cup {NoContext}, NEW c \in Client
  PROVE  NewVersion(n, context, c) \in Item /\ NewVersion(n, context, c).val = c
<1> DEFINE base == IF context = NoContext THEN UnionVectorClock(Get(n)) ELSE context
<1>1. UnionVectorClock(Get(n)) \in Clock
  BY GetList, ItemFacts, UnionType DEF List, Items
<1>2. base \in Clock
  BY <1>1
<1>3. clockID(n) \in ClockIDs
  BY ClockIDsAssumption DEF clockID, StoreInv
<1>4. NewVersion(n, context, c) = [clock |-> BuildFromContext(base, clockID(n)), val |-> c]
  BY DEF NewVersion
<1> HIDE DEF base
<1>5. BuildFromContext(base, clockID(n)) \in Clock
  BY <1>2, <1>3, SMT DEF BuildFromContext, Clock
<1> QED
  BY <1>4, <1>5, SMT DEF Item

\* A version put is covered, and so is whatever was.
LEMMA PutCovers ==
  ASSUME FiniteFacts, StoreInv, NEW n \in Replica, NEW x \in Item, PersisterPut(n, x), flushed' = flushed
  PROVE  /\ Covers(Get(n)', x)
         /\ \A y \in Version : Covers(Get(n), y) => Covers(Get(n)', y)
         /\ \A p \in Replica : p # n => Get(p)' = Get(p)
<1>1. /\ active'[n] = MergeSiblings(active[n], {x})
      /\ \A p \in Replica : p # n => active'[p] = active[p]
  BY ItemFacts, ResolveIsMerge DEF StoreInv, PersisterPut
<1>2. /\ active[n] \in SUBSET Version /\ flushed[n] \in SUBSET Version /\ {x} \in SUBSET Version
      /\ active'[n] \in SUBSET Version /\ Siblings(flushed[n]) /\ Siblings({x})
      /\ x \in Version
  BY <1>1, ItemFacts, OneItemList, MergeList, SMT DEF StoreInv, List, Items
<1>3. Get(n)' = MergeSiblings(active'[n], flushed[n]) /\ Get(n) = MergeSiblings(active[n], flushed[n])
  BY DEF Get
<1>4. Get(n) \in SUBSET Version /\ MergeSiblings(active'[n], flushed[n]) \in SUBSET Version
  BY <1>2, <1>3, MergeWithin, SMT
<1>5. \A y \in active'[n] \cup flushed[n] : Covers(MergeSiblings(active'[n], flushed[n]), y)
  BY <1>2, MergeCovers
<1>6. \A y \in active[n] \cup {x} : Covers(active'[n], y)
  BY <1>1, <1>2, MergeCovers, SMT
<1>7. \A y \in active[n] \cup {x} : Covers(MergeSiblings(active'[n], flushed[n]), y)
  BY <1>2, <1>4, <1>5, <1>6, CoversTransitive
<1>8. \A y \in Get(n) : Covers(MergeSiblings(active'[n], flushed[n]), y)
  BY <1>3, <1>5, <1>7, MergeWithin, SMT
<1>9. ASSUME NEW y \in Version, Covers(Get(n), y) PROVE Covers(MergeSiblings(active'[n], flushed[n]), y)
  BY <1>4, <1>8, <1>9, CoversTransitive
<1>10. \A p \in Replica : p # n => Get(p)' = Get(p)
  BY <1>1 DEF Get
<1> QED
  BY <1>3, <1>7, <1>9, <1>10

-----------------------------------------------------------------------------
\* The replicas are finitely many.
LEMMA ReplicaFacts ==
  ASSUME FiniteFacts
  PROVE  /\ IsFiniteSet(Replica) /\ Total \in Nat /\ Pref \in [1..Total -> Replica] /\ W \in Nat
         /\ \A S \in SUBSET Replica : IsFiniteSet(S) /\ Cardinality(S) \in Nat
<1>1. Total \in Nat /\ Pref \in [1..Total -> Replica] /\ DOMAIN Pref = 1..Total /\ W \in Nat
  BY QuorumAssumption, SMT DEF Total
<1> QED
  BY <1>1 DEF FiniteFacts, OfSubsets, OfElements

\* More replicas that say ok are no fewer.
LEMMA OksGrow ==
  ASSUME FiniteFacts, NEW r, NEW s, \A p \in Replica : r[p] = "ok" => s[p] = "ok"
  PROVE  /\ Cardinality(Oks(r)) <= Cardinality(Oks(s))
         /\ Cardinality(Oks(r)) \in Nat /\ Cardinality(Oks(s)) \in Nat
<1>1. Oks(r) \subseteq Oks(s) /\ Oks(s) \in SUBSET Replica /\ Oks(r) \in SUBSET Replica
  BY DEF Oks
<1>2. IsFiniteSet(Oks(s))
  BY <1>1, ReplicaFacts
<1> QED
  BY <1>1, <1>2, ReplicaFacts DEF FiniteFacts, OfSubsets

\* Another record of the same version is sound if it claims no more.
NoMore(rec, new) ==
  /\ new \in Coordination /\ new.prev = rec.prev /\ new.item = rec.item /\ rec.pc # "none"
  /\ new.pc = "done" \/ (new.pc \in {"fan", "rollback"} /\ new.ans = "none" /\ rec.item \in Item)
  /\ new.keep => new.pc = "done" /\ new.ans \in {"ok", "canceled"}
  /\ \A p \in Replica : /\ new.res[p] = rec.res[p] \/ (rec.res[p] # "ok" /\ rec.res[p] # "none")
                        /\ new.res[p] # "none" => rec.res[p] # "none"
  /\ new.ans = "ok" => rec.ans = "ok" \/ (rec.pc = "fan" /\ 1 + Cardinality(Oks(rec.res)) >= W)

LEMMA RecordChanges ==
  ASSUME FiniteFacts, NEW c, NEW n \in Replica, NEW rec, NEW new, Sound(c, n, rec), NoMore(rec, new)
  PROVE  Sound(c, n, new)
<1> USE DEF NoMore
<1>1. rec.item \in Item => rec.item.val = c
  BY DEF Sound
<1>2. new.ans = "ok" => new.item \in Item /\ 1 + Cardinality(Oks(new.res)) >= W
  <2>1. ASSUME new.ans = "ok" PROVE rec.item \in Item /\ 1 + Cardinality(Oks(rec.res)) >= W
    BY <2>1 DEF Sound
  <2>2. /\ Cardinality(Oks(rec.res)) <= Cardinality(Oks(new.res))
        /\ Cardinality(Oks(rec.res)) \in Nat /\ Cardinality(Oks(new.res)) \in Nat
    BY OksGrow
  <2> QED
    BY <2>1, <2>2, ReplicaFacts, SMT
<1>3. List(new.prev) /\ rec.res[n] = "none"
  BY DEF Sound
<1>4. new.res[n] = "none"
  BY <1>3
<1>5. \A p \in Replica : new.res[p] # "none" => new.item \in Item
  BY DEF Sound
<1> QED
  BY <1>1, <1>2, <1>3, <1>4, <1>5 DEF Sound

\* The fields of a record after Abandon and Decided.
Leaves(n, rec, keep, d) == d = Abandon(rec) \/ d = Decided(rec, keep, n) \/ (d = rec /\ (rec.keep => keep))

LEMMA DecidedFields ==
  ASSUME NEW rec \in Coordination, NEW keep \in BOOLEAN, NEW n, NEW d, Leaves(n, rec, keep, d)
  PROVE  /\ d \in Coordination /\ d.pc = rec.pc /\ d.prev = rec.prev /\ d.item = rec.item
         /\ d.ans = rec.ans /\ (d.keep => keep) /\ (d = Abandon(rec) => ~d.keep)
         /\ \A p \in Replica : \/ d.res[p] = rec.res[p]
                               \/ rec.res[p] \in {"sent", "applied"} /\ d.res[p] = "error"
<1>1. CASE d = Abandon(rec)
  <2>1. /\ d.pc = rec.pc /\ d.prev = rec.prev /\ d.item = rec.item /\ d.ans = rec.ans /\ d.keep = FALSE
        /\ d.res = [p \in Replica |-> IF p \in Straggling(rec) THEN "error" ELSE rec.res[p]]
    BY <1>1 DEF Abandon, Coordination
  <2>2. d.res \in [Replica -> Outcome]
    BY <2>1 DEF Coordination, Outcome
  <2>3. d \in Coordination
    BY <1>1, <2>2 DEF Abandon, Coordination
  <2> QED
    BY <2>1, <2>3 DEF Straggling
<1>2. CASE d # Abandon(rec)
  <2>1. d = [rec EXCEPT !.keep = keep] \/ (d = rec /\ (rec.keep => keep))
    BY <1>2 DEF Decided, Leaves
  <2> QED
    BY <1>2, <2>1 DEF Coordination
<1> QED
  BY <1>1, <1>2

\* A result is entered.
Answered(rec, p, r, new) == new = [rec EXCEPT !.res[p] = r]

LEMMA RecordResult ==
  ASSUME FiniteFacts, NEW c, NEW n \in Replica, NEW p \in Replica, p # n, NEW rec, Sound(c, n, rec),
         rec.res[p] \in {"sent", "applied", "unavailable"}, NEW r \in Outcome \ {"none"},
         NEW new, Answered(rec, p, r, new)
  PROVE  /\ Sound(c, n, new) /\ new.pc = rec.pc /\ new.item = rec.item /\ new.keep = rec.keep
         /\ new.ans = rec.ans /\ new.pc \notin {"none", "read"} /\ new.item \in Item
         /\ \A q \in Replica : q # p => new.res[q] = rec.res[q]
         /\ Owes(n, new) \subseteq Owes(n, rec) \cup {p}
         /\ r \notin {"applied", "ok"} \/ rec.res[p] = "applied" => Owes(n, new) \subseteq Owes(n, rec)
<1>1. rec \in Coordination /\ rec.res \in [Replica -> Outcome]
  BY DEF Sound, Coordination
<1>2. /\ new.pc = rec.pc /\ new.item = rec.item /\ new.keep = rec.keep /\ new.ans = rec.ans
      /\ new.prev = rec.prev /\ new.res = [rec.res EXCEPT ![p] = r]
  BY <1>1 DEF Coordination, Answered
<1>3. new \in Coordination
  BY <1>1 DEF Coordination, Answered
<1>4. new.res[p] = r /\ \A q \in Replica : q # p => new.res[q] = rec.res[q]
  BY <1>1, <1>2
<1>5. rec.pc \notin {"none", "read"} /\ rec.item \in Item /\ rec.pc \in CoPC
  BY <1>1 DEF Sound, Coordination
<1>6. Sound(c, n, new)
  <2>1. new.pc = "done" \/ (new.pc \in {"fan", "rollback"} /\ new.ans = "none" /\ rec.item \in Item)
    BY <1>2, <1>5 DEF Sound, CoPC
  <2>2. new.keep => new.pc = "done" /\ new.ans \in {"ok", "canceled"}
    BY <1>2 DEF Sound
  <2>3. NoMore(rec, new)
    BY <1>2, <1>3, <1>4, <1>5, <2>1, <2>2 DEF NoMore
  <2> QED
    BY <2>3, RecordChanges
<1>7. Owes(n, new) \subseteq Owes(n, rec) \cup {p}
  BY <1>2, <1>4 DEF Owes
<1>8. r \notin {"applied", "ok"} \/ rec.res[p] = "applied" => Owes(n, new) \subseteq Owes(n, rec)
  BY <1>2, <1>4 DEF Owes
<1> QED
  BY <1>2, <1>4, <1>5, <1>6, <1>7, <1>8

\* A record that ends, or goes on to the rollback: Decided, then pc and ans.
EndsAs(d, pc, ans, new) == new = [d EXCEPT !.pc = pc, !.ans = ans]
MayEnd(rec, d, keep, pc, ans) ==
  /\ pc = "rollback" => ~keep /\ ans = "none" /\ rec.item \in Item
  /\ d # Abandon(rec) /\ keep => ans \in {"ok", "canceled"}
  /\ ans = "ok" => rec.ans = "ok" \/ (rec.pc = "fan" /\ 1 + Cardinality(Oks(rec.res)) >= W)

\* rec may end so, and new is what it then is.
Ending(n, rec, keep, d, pc, ans, new) ==
  /\ keep \in BOOLEAN /\ Leaves(n, rec, keep, d) /\ pc \in {"rollback", "done"} /\ ans \in Answer
  /\ MayEnd(rec, d, keep, pc, ans) /\ EndsAs(d, pc, ans, new)
RightlyEnded(c, n, rec, pc, ans, new) ==
  /\ Sound(c, n, new) /\ new.pc = pc /\ new.ans = ans /\ new.item = rec.item
  /\ Owes(n, new) \subseteq Owes(n, rec)

LEMMA RecordEnds ==
  ASSUME FiniteFacts,
         NEW c, NEW n \in Replica, NEW rec, Sound(c, n, rec), rec.pc # "none", NEW keep, NEW d, NEW pc,
         NEW ans, NEW new, Ending(n, rec, keep, d, pc, ans, new)
  PROVE  RightlyEnded(c, n, rec, pc, ans, new)
<1>0. /\ keep \in BOOLEAN /\ Leaves(n, rec, keep, d) /\ pc \in {"rollback", "done"} /\ ans \in Answer
      /\ MayEnd(rec, d, keep, pc, ans) /\ EndsAs(d, pc, ans, new)
  BY DEF Ending
<1>1. rec \in Coordination
  BY DEF Sound
<1>2. /\ d \in Coordination /\ d.prev = rec.prev /\ d.item = rec.item /\ (d.keep => keep)
      /\ (d = Abandon(rec) => ~d.keep)
      /\ \A p \in Replica : \/ d.res[p] = rec.res[p]
                            \/ rec.res[p] \in {"sent", "applied"} /\ d.res[p] = "error"
  BY <1>0, <1>1, DecidedFields, SMT
<1>3. /\ new \in Coordination /\ new.pc = pc /\ new.ans = ans /\ new.prev = rec.prev
      /\ new.item = rec.item /\ new.keep = d.keep /\ new.res = d.res
  BY <1>0, <1>2 DEF Coordination, CoPC, EndsAs
<1>4. new.keep => new.pc = "done" /\ new.ans \in {"ok", "canceled"}
  BY <1>0, <1>2, <1>3 DEF MayEnd
<1>5. \A p \in Replica : (new.res[p] = rec.res[p] \/ (rec.res[p] # "ok" /\ rec.res[p] # "none"))
  BY <1>2, <1>3
<1>6. \A p \in Replica : new.res[p] # "none" => rec.res[p] # "none"
  BY <1>2, <1>3
<1>7. Sound(c, n, new)
  <2>1. NoMore(rec, new)
    BY <1>0, <1>3, <1>4, <1>5, <1>6 DEF NoMore, MayEnd
  <2> QED
    BY <2>1, RecordChanges
<1>8. Owes(n, new) \subseteq Owes(n, rec)
  BY <1>0, <1>2, <1>3 DEF Owes, MayEnd
<1> QED
  BY <1>3, <1>7, <1>8 DEF RightlyEnded

-----------------------------------------------------------------------------
(***************************************************************************)
(* What a step may do to the stores: whoever holds a version that was      *)
(* written goes on holding it.                                             *)
(***************************************************************************)
\* Holds in the next state, of a version of this one.
HoldsNext(p, x) == Covers(Get(p)', x) \/ <<p, x>> \in undone' \/ inc'[p] > 0
Kept == \A p \in Replica : \A x \in Written : Holds(p, x) => HoldsNext(p, x)

LEMMA WrittenFacts ==
  ASSUME CoInv
  PROVE  /\ Written \subseteq Item
         /\ \A c \in Client, n \in Replica : co[c][n].item \in Item => co[c][n].item \in Written
<1>1. \A c \in Client, n \in Replica : co[c][n].item \in Item \cup {NoVersion}
  BY DEF CoInv, Coordination
<1> QED
  BY <1>1, ItemFacts, SMT DEF Written

LEMMA StoreSame ==
  ASSUME StoreInv, UNCHANGED <<storeVars, undone>>
  PROVE  StoreInv' /\ Kept
<1>1. \A p \in Replica : Get(p)' = Get(p)
  BY DEF Get, storeVars
<1> QED
  BY <1>1 DEF StoreInv, storeVars, Kept, Holds, HoldsNext

LEMMA StorePut ==
  ASSUME FiniteFacts, StoreInv, CoInv, NEW n \in Replica, NEW x \in Item, PersisterPut(n, x),
         UNCHANGED <<flushed, inc, undone>>
  PROVE  StoreInv' /\ Kept /\ HoldsNext(n, x)
<1>1. /\ active' = [active EXCEPT ![n] = Resolve(active[n], x)]
      /\ Resolve(active[n], x) \in SUBSET Item /\ List(Resolve(active[n], x))
  BY ResolveList DEF StoreInv, PersisterPut
<1>2. StoreInv'
  BY <1>1 DEF StoreInv
<1>3. /\ Covers(Get(n)', x)
      /\ \A y \in Version : Covers(Get(n), y) => Covers(Get(n)', y)
      /\ \A p \in Replica : p # n => Get(p)' = Get(p)
  BY PutCovers
<1>4. ASSUME NEW p \in Replica, NEW y \in Written, Holds(p, y) PROVE HoldsNext(p, y)
  <2>1. y \in Version
    BY WrittenFacts, ItemFacts
  <2>2. CASE p = n
    BY <1>3, <1>4, <2>1, <2>2 DEF Holds, HoldsNext
  <2>3. CASE p # n
    BY <1>3, <1>4, <2>3 DEF Holds, HoldsNext
  <2> QED
    BY <2>2, <2>3
<1> QED
  BY <1>2, <1>3, <1>4 DEF Kept, Holds, HoldsNext

-----------------------------------------------------------------------------
(***************************************************************************)
(* What a step that begins no coordination may do to the records, and what *)
(* a step that is not a client's own may do to the calls.                  *)
(***************************************************************************)
CoKept ==
  /\ co' \in [Client -> [Replica -> Coordination]]
  /\ \A c \in Client, n \in Replica :
       /\ Sound(c, n, co'[c][n])
       /\ co'[c][n].pc = "none" <=> co[c][n].pc = "none"
       /\ co[c][n].ans \in {"ok", "canceled"} => co'[c][n].ans = co[c][n].ans

Ended(old, new) == \E pc \in {"ok", "failed"} : old.pc \in {"getting", "put"} /\ new = [old EXCEPT !.pc = pc]
ClEnds ==
  cl' \in [Client -> Call] /\ \A c \in Client : cl'[c] = cl[c] \/ Ended(cl[c], cl'[c])

\* A step that writes one record.
Rewrites(c, n, new) ==
  /\ co[c][n].pc # "none" /\ co' = [co EXCEPT ![c][n] = new] /\ Sound(c, n, new) /\ new.pc # "none"
  /\ co[c][n].ans # "none" => new.ans = co[c][n].ans
  /\ \A p \in Owes(n, new) :
       HoldsNext(p, new.item) \/ (p \in Owes(n, co[c][n]) /\ new.item = co[c][n].item)

LEMMA OwesFacts ==
  ASSUME CoInv, NEW c \in Client, NEW n \in Replica, NEW p \in Owes(n, co[c][n])
  PROVE  p \in Replica /\ co[c][n].item \in Written
<1>1. Sound(c, n, co[c][n])
  BY DEF CoInv
<1>2. p \in Replica /\ co[c][n].item \in Item
  BY <1>1 DEF Owes, Sound
<1> QED
  BY <1>2, WrittenFacts

LEMMA RecordsSame ==
  ASSUME CoInv, HeldInv, Kept, UNCHANGED co
  PROVE  CoKept /\ HeldInv'
<1>1. CoKept
  BY DEF CoInv, CoKept
<1>2. ASSUME NEW c \in Client, NEW n \in Replica, NEW p \in Owes(n, co[c][n]) PROVE HoldsNext(p, co[c][n].item)
  <2>1. Holds(p, co[c][n].item)
    BY DEF HeldInv
  <2> DEFINE x == co[c][n].item
  <2>2. HoldsNext(p, x)
    BY <2>1, OwesFacts DEF Kept, Holds, HoldsNext
  <2> QED
    BY <2>2
<1> QED
  BY <1>1, <1>2 DEF HeldInv, Holds, HoldsNext

-----------------------------------------------------------------------------
\* The calls on their way are to replicas, of versions.
Calls(S) == \A m \in S : m.to \in Replica /\ m.item \in Item

LEMMA InFlightCalls ==
  ASSUME NEW c, NEW n, NEW rec, Sound(c, n, rec)
  PROVE  Calls(InFlight(rec))
BY SMT DEF Sound, Calls, InFlight

LEMMA EndedCall ==
  ASSUME NEW call \in Call, NEW pc \in {"ok", "failed"}, NEW new, new = [call EXCEPT !.pc = pc]
  PROVE  /\ new \in Call /\ new.pc = pc /\ new.at = call.at /\ new.merged = call.merged
         /\ new.next = call.next /\ new.on = call.on /\ new.broken = call.broken
BY DEF Call, CallPC

LEMMA ClSame == ASSUME CallInv, UNCHANGED cl PROVE ClEnds
BY DEF CallInv, ClEnds

LEMMA ReturnEnds ==
  ASSUME CallInv, NEW c \in Client, NEW n, NEW ok \in BOOLEAN, Return(c, n, ok)
  PROVE  ClEnds
<1>1. CASE UNCHANGED cl
  BY <1>1, ClSame
<1>2. CASE ~UNCHANGED cl
  <2> DEFINE pc == IF ok THEN "ok" ELSE "failed"
             new == [cl[c] EXCEPT !.pc = pc]
  <2>1. cl[c] \in Call /\ pc \in {"ok", "failed"}
    BY DEF CallInv
  <2>2. cl' = [cl EXCEPT ![c] = new] /\ cl[c].pc = "put"
    BY <1>2 DEF Return, CallInv
  <2>3. Ended(cl[c], new)
    BY <2>1, <2>2 DEF Ended
  <2>4. new \in Call
    BY <2>1, EndedCall
  <2> HIDE DEF new
  <2> QED
    BY <2>2, <2>3, <2>4 DEF ClEnds, CallInv
<1> QED
  BY <1>1, <1>2

-----------------------------------------------------------------------------
(***************************************************************************)
(* A step that only rewrites records and ends calls keeps where the writes *)
(* were coordinated and what the hints are of.                             *)
(***************************************************************************)
LEMMA EndedFields ==
  ASSUME NEW old \in Call, NEW new, new = old \/ Ended(old, new)
  PROVE  /\ new.at = old.at /\ new.merged = old.merged /\ new.next = old.next /\ new.on = old.on
         /\ new.broken = old.broken /\ (new.pc = old.pc \/ new.pc \in {"ok", "failed"})
BY EndedCall, SMT DEF Ended

LEMMA CallsKept ==
  ASSUME CallInv, CoInv, ChainInv, CoKept, ClEnds
  PROVE  CallInv' /\ CoInv' /\ ChainInv'
<1>1. CoInv'
  BY SMT DEF CoKept, CoInv, Sound
<1>2. ASSUME NEW c \in Client
      PROVE  /\ cl'[c] \in Call
             /\ cl'[c].at = cl[c].at /\ cl'[c].merged = cl[c].merged /\ cl'[c].next = cl[c].next
             /\ cl'[c].on = cl[c].on /\ cl'[c].broken = cl[c].broken
             /\ cl'[c].pc = cl[c].pc \/ cl'[c].pc \in {"ok", "failed"}
  BY EndedFields DEF ClEnds, CallInv
<1>3. CallInv'
  BY <1>2, SMT DEF CallInv, ClEnds, List, Items, Siblings
<1>4. \A c \in Client, n \in Replica : co'[c][n].pc = "none" <=> co[c][n].pc = "none"
  BY DEF CoKept
<1>5. ASSUME NEW c \in Client
      PROVE  /\ cl'[c].pc \in {"idle", "getting", "got"} =>
                  cl'[c].next = 1 /\ cl'[c].on = NoValue /\ \A n \in Replica : co'[c][n].pc = "none"
             /\ \A n \in Replica : co'[c][n].pc # "none" => n \in cl'[c].broken \cup {cl'[c].on}
  BY <1>2, <1>4, SMT DEF ChainInv
<1>6. ASSUME NEW c \in Client, Forwarding(c)', NEW i \in DOMAIN Pref,
             i > cl'[c].next \/ (i = cl'[c].next /\ cl'[c].on = NoValue)
      PROVE  co'[c][Pref[i]].pc = "none"
  <2>1. Forwarding(c) /\ (i > cl[c].next \/ (i = cl[c].next /\ cl[c].on = NoValue))
    BY <1>2, <1>6 DEF Forwarding
  <2>2. co[c][Pref[i]].pc = "none" /\ Pref[i] \in Replica
    BY <2>1, QuorumAssumption DEF ChainInv
  <2> QED
    BY <1>4, <2>2
<1>7. ChainInv'
  BY <1>5, <1>6 DEF ChainInv
<1> QED
  BY <1>1, <1>3, <1>7, ZenonT(40)

LEMMA HintsSame ==
  ASSUME HintInv, CoKept, UNCHANGED hints
  PROVE  HintInv'
<1>1. ASSUME NEW n \in Replica, NEW p \in Replica, NEW x \in hints[n][p]
      PROVE  (x.val = NoValue /\ isMarker(x)) \/ (x \in Item /\ co'[x.val][n].ans \in {"ok", "canceled"})
  <2>1. (x.val = NoValue /\ isMarker(x)) \/ (x \in Item /\ co[x.val][n].ans \in {"ok", "canceled"})
    BY DEF HintInv
  <2>2. x \in Item => x.val \in Client
    BY DEF Item
  <2> QED
    BY <2>1, <2>2 DEF CoKept
<1> QED
  BY <1>1, SMT DEF HintInv, isMarker, Siblings

\* What is left of IReplication once env is known not to change.
Upheld == TypesInv /\ HeldInv /\ HintInv /\ ChainInv

LEMMA Concluded ==
  ASSUME Upheld, StoreInv', NodeInv', NetInv', PastInv', RepairInv', CoKept, HeldInv', ClEnds, UNCHANGED hints
  PROVE  Upheld'
BY CallsKept, HintsSame DEF Upheld, TypesInv

LEMMA NodesSame == ASSUME NodeInv, UNCHANGED nodeVars PROVE NodeInv'
BY DEF NodeInv, nodeVars

LEMMA RepairSame == ASSUME RepairInv, UNCHANGED repairVars PROVE RepairInv'
BY DEF RepairInv, repairVars

LEMMA PastSame == ASSUME PastInv, UNCHANGED past PROVE PastInv'
BY DEF PastInv

-----------------------------------------------------------------------------
(***************************************************************************)
(* Hints.  What may be held in the next state, and that Resolve adds       *)
(* nothing else.                                                           *)
(***************************************************************************)
MayHint(n, x) ==
  \/ x.val = NoValue /\ isMarker(x)
  \/ x \in Item /\ co'[x.val][n].ans \in {"ok", "canceled"}

LEMMA HintsStillMay ==
  ASSUME HintInv, CoKept, NEW n \in Replica, NEW p \in Replica, NEW x \in hints[n][p]
  PROVE  MayHint(n, x)
<1>1. (x.val = NoValue /\ isMarker(x)) \/ (x \in Item /\ co[x.val][n].ans \in {"ok", "canceled"})
  BY DEF HintInv
<1>2. x \in Item => x.val \in Client
  BY DEF Item
<1> QED
  BY <1>1, <1>2 DEF CoKept, MayHint

LEMMA HintPut ==
  ASSUME FiniteFacts,
         HintInv, CoKept, NEW n \in Replica, NEW p \in Replica, NEW x \in Version, MayHint(n, x),
         hints' = [hints EXCEPT ![n][p] = Resolve(@, x)]
  PROVE  HintInv'
<1>0. PICK S, T : S = hints[n][p] /\ T = Resolve(S, x)
  OBVIOUS
<1>1. /\ hints \in [Replica -> [Replica -> SUBSET Version]]
      /\ S \in SUBSET Version /\ Siblings(S) /\ IsFiniteSet(S)
  BY <1>0 DEF HintInv
<1>2. T = MergeSiblings(S, {x})
  BY <1>0, <1>1, ResolveIsMerge
<1>3. T \subseteq S \cup {x} /\ T \in SUBSET Version
  BY <1>1, <1>2, MergeWithin, SMT
<1>4. Siblings({x})
  BY DEF Siblings
<1>5. Siblings(T)
  BY <1>1, <1>2, <1>4, MergeKeepsSiblings
<1>6. IsFiniteSet(T)
  <2>1. IsFiniteSet(S \cup {x})
    BY <1>1 DEF FiniteFacts, OfSingletons, OfUnions
  <2> QED
    BY <1>3, <2>1 DEF FiniteFacts, OfSubsets
<1>7. /\ hints' \in [Replica -> [Replica -> SUBSET Version]] /\ hints'[n][p] = T
      /\ \A m, q \in Replica : m # n \/ q # p => hints'[m][q] = hints[m][q]
  BY <1>0, <1>1, <1>3
<1>8. ASSUME NEW m \in Replica, NEW q \in Replica
      PROVE  Siblings(hints'[m][q]) /\ IsFiniteSet(hints'[m][q]) /\ \A y \in hints'[m][q] : MayHint(m, y)
  <2>1. \A y \in hints[m][q] : MayHint(m, y)
    BY HintsStillMay
  <2>2. CASE m = n /\ q = p
    BY <1>0, <1>3, <1>5, <1>6, <1>7, <2>1, <2>2, SMT
  <2>3. CASE m # n \/ q # p
    BY <1>7, <2>1, <2>3 DEF HintInv
  <2> QED
    BY <2>2, <2>3
<1> QED
  BY <1>7, <1>8 DEF HintInv, MayHint, isMarker, Siblings

LEMMA CoordinatorUpholds ==
  ASSUME FiniteFacts, Upheld, UNCHANGED repairVars, CoordinatorStep
  PROVE  Upheld'
<1>StoreRestored.
  ASSUME StoreInv, NEW n \in Replica, NEW prev, List(prev),
         active' = active \/ RestoreVersions(n, prev), UNCHANGED <<flushed, inc>>,
         undone' = undone \cup {<<n, x>> : x \in {y \in Written : Covers(Get(n), y) /\ ~Covers(Get(n)', y)}}
  PROVE  StoreInv' /\ Kept
  <2> USE <1>StoreRestored
  <2>1. CASE active' = active
    BY <2>1 DEF StoreInv, Kept, Holds, HoldsNext, Get
  <2>2. CASE active' = [active EXCEPT ![n] = prev]
    <3>1. StoreInv'
      BY <2>2 DEF StoreInv, List, Items
    <3>2. ASSUME NEW p \in Replica, NEW y \in Written, Holds(p, y) PROVE HoldsNext(p, y)
      <4>1. CASE p = n
        BY <3>2, <4>1 DEF Holds, HoldsNext
      <4>2. CASE p # n
        <5>1. Get(p)' = Get(p)
          BY <2>2, <4>2 DEF Get, StoreInv
        <5> QED
          BY <3>2, <5>1 DEF Holds, HoldsNext
      <4> QED
        BY <4>1, <4>2
    <3> QED
      BY <3>1, <3>2 DEF Kept
  <2> QED
    BY <2>1, <2>2 DEF RestoreVersions
<1>RecordRewritten.
  ASSUME CoInv, HeldInv, Kept, NEW c \in Client, NEW n \in Replica, NEW new, Rewrites(c, n, new)
  PROVE  CoKept /\ HeldInv'
  <2> USE <1>RecordRewritten
  <2>1. /\ co' \in [Client -> [Replica -> Coordination]] /\ co'[c][n] = new
        /\ \A d \in Client, m \in Replica : d # c \/ m # n => co'[d][m] = co[d][m]
    BY DEF Rewrites, CoInv, Sound
  <2>2. CoKept
    <3>1. ASSUME NEW d \in Client, NEW m \in Replica
          PROVE  /\ Sound(d, m, co'[d][m])
                 /\ co'[d][m].pc = "none" <=> co[d][m].pc = "none"
                 /\ co[d][m].ans \in {"ok", "canceled"} => co'[d][m].ans = co[d][m].ans
      <4>1. CASE d = c /\ m = n
        BY <2>1, <4>1 DEF Rewrites
      <4>2. CASE d # c \/ m # n
        BY <2>1, <4>2 DEF CoInv
      <4> QED
        BY <4>1, <4>2
    <3> QED
      BY <2>1, <3>1 DEF CoKept
  <2>3. ASSUME NEW d \in Client, NEW m \in Replica, NEW p \in Owes(m, co[d][m]), NEW x, x = co[d][m].item
        PROVE  HoldsNext(p, x)
    <3>1. Holds(p, x)
      BY <2>3 DEF HeldInv
    <3> QED
      BY <2>3, <3>1, OwesFacts DEF Kept
  <2>4. ASSUME NEW d \in Client, NEW m \in Replica, NEW p \in Owes(m, co'[d][m]) PROVE HoldsNext(p, co'[d][m].item)
    <3> DEFINE x == co'[d][m].item
    <3>1. HoldsNext(p, x)
      <4>1. CASE d = c /\ m = n
        <5>1. x = new.item /\ p \in Owes(n, new)
          BY <2>1, <4>1
        <5>2. CASE HoldsNext(p, new.item)
          BY <5>1, <5>2 DEF Holds, HoldsNext
        <5>3. CASE p \in Owes(n, co[c][n]) /\ new.item = co[c][n].item
          BY <2>3, <4>1, <5>1, <5>3
        <5> QED
          BY <5>1, <5>2, <5>3 DEF Rewrites
      <4>2. CASE d # c \/ m # n
        BY <2>1, <2>3, <4>2
      <4> QED
        BY <4>1, <4>2
    <3> QED
      BY <3>1 DEF Holds, HoldsNext
  <2> QED
    BY <2>2, <2>4 DEF HeldInv, Owes, Holds, HoldsNext
\* Decide, of a record in its fan-out.
<1>DecideEffect.
  ASSUME CallInv, CoInv, NEW c \in Client, NEW n \in Replica, NEW rec, Sound(c, n, rec),
         rec.pc = "fan", NEW late, Decide(c, n, rec, late)
  PROVE  /\ \E new : /\ co' = [co EXCEPT ![c][n] = new] /\ Sound(c, n, new) /\ new.pc # "none"
                     /\ new.item = rec.item /\ Owes(n, new) \subseteq Owes(n, rec)
         /\ ClEnds
         /\ net' \subseteq net \cup late \cup InFlight(rec)
  <2> USE <1>DecideEffect
  <2> DEFINE reached == 1 + Count(rec.res, {"ok"}) >= W
             missed  == /\ ~reached /\ Total - Count(rec.res, {"unavailable", "error"}) < W
                        /\ Straggling(rec) # Peers(n) \/ Peers(n) = {}
             next    == CASE reached -> [Decided(rec, TRUE, n) EXCEPT !.pc = "done", !.ans = "ok"]
                          [] missed  -> [Decided(rec, FALSE, n) EXCEPT !.pc = "rollback"]
                          [] OTHER   -> rec
  <2>1. /\ co' = [co EXCEPT ![c][n] = next]
        /\ net' = net \cup late \cup IF next.pc # "fan" /\ up[n] = "closing" THEN InFlight(rec) ELSE {}
        /\ IF reached THEN Return(c, n, TRUE) ELSE UNCHANGED cl
    BY DEF Decide
  <2>2. ClEnds
    BY <2>1, ClSame, ReturnEnds
  <2>3. rec \in Coordination /\ rec.ans = "none" /\ rec.item \in Item
    BY DEF Sound
  <2>4. Sound(c, n, next) /\ next.pc # "none" /\ next.item = rec.item /\ Owes(n, next) \subseteq Owes(n, rec)
    <3>1. CASE reached
      <4>0. PICK keep, d : keep \in BOOLEAN /\ keep = TRUE /\ d = Decided(rec, keep, n)
        OBVIOUS
      <4>1. next = [d EXCEPT !.pc = "done", !.ans = "ok"]
        BY <3>1, <4>0
      <4>2. 1 + Cardinality(Oks(rec.res)) >= W
        BY <3>1 DEF Count, Oks
      <4> HIDE DEF next
      <4>3. /\ Sound(c, n, next) /\ next.pc = "done" /\ next.item = rec.item
            /\ Owes(n, next) \subseteq Owes(n, rec)
        <5>0. keep \in BOOLEAN
          BY <4>0
        <5>1. Leaves(n, rec, keep, d) /\ EndsAs(d, "done", "ok", next)
          BY <4>0, <4>1 DEF Leaves, EndsAs
        <5>2. MayEnd(rec, d, keep, "done", "ok")
          BY <4>0, <4>2 DEF MayEnd
        <5>3. Ending(n, rec, keep, d, "done", "ok", next)
          BY <5>0, <5>1, <5>2 DEF Ending, Answer
        <5>4. RightlyEnded(c, n, rec, "done", "ok", next)
          BY <5>3, RecordEnds
        <5> QED
          BY <5>4 DEF RightlyEnded
      <4> QED
        BY <4>3
    <3>2. CASE missed
      <4>0. PICK keep, d : keep \in BOOLEAN /\ keep = FALSE /\ d = Decided(rec, keep, n)
        OBVIOUS
      <4>10. Leaves(n, rec, keep, d)
        BY <4>0 DEF Leaves
      <4>1. next = [d EXCEPT !.pc = "rollback"]
        BY <3>2, <4>0
      <4> HIDE DEF next
      <4>2. d \in Coordination /\ d.ans = "none"
        BY <2>3, <4>0, <4>10, DecidedFields, SMT
      <4>3. next = [d EXCEPT !.pc = "rollback", !.ans = "none"]
        BY <4>1, <4>2 DEF Coordination
      <4>4. /\ Sound(c, n, next) /\ next.pc = "rollback" /\ next.item = rec.item
            /\ Owes(n, next) \subseteq Owes(n, rec)
        <5>0. keep \in BOOLEAN
          BY <4>0
        <5>1. EndsAs(d, "rollback", "none", next)
          BY <4>3 DEF EndsAs
        <5>2. MayEnd(rec, d, keep, "rollback", "none")
          BY <2>3, <4>0 DEF MayEnd
        <5>3. Ending(n, rec, keep, d, "rollback", "none", next)
          BY <4>10, <5>0, <5>1, <5>2 DEF Ending, Answer
        <5>4. RightlyEnded(c, n, rec, "rollback", "none", next)
          BY <5>3, RecordEnds
        <5> QED
          BY <5>4 DEF RightlyEnded
      <4> QED
        BY <4>4
    <3>3. CASE ~reached /\ ~missed
      <4>1. next = rec
        BY <3>3
      <4> QED
        BY <4>1
    <3> QED
      BY <3>1, <3>2, <3>3
  <2> HIDE DEF next
  <2> QED
    BY <2>1, <2>2, <2>4
\* Result, of a call that was not answered before.
<1>ResultEffect.
  ASSUME CallInv, CoInv, NetInv, NEW c \in Client, NEW n \in Replica, NEW p \in Replica, p # n,
         co[c][n].res[p] \in {"sent", "applied"}, NEW r \in Outcome \ {"none"}, r # "applied",
         r = "ok" => co[c][n].res[p] = "applied", NEW late, Calls(late), Result(c, n, p, r, late)
  PROVE  (\E new : Rewrites(c, n, new)) /\ ClEnds /\ NetInv'
  <2> USE <1>ResultEffect
  <2> DEFINE rec == [co[c][n] EXCEPT !.res[p] = r]
  <2>1. Sound(c, n, co[c][n]) /\ co[c][n].pc \in CoPC
    BY SMT DEF CoInv, Sound, Coordination
  <2>2. /\ Sound(c, n, rec) /\ rec.pc = co[c][n].pc /\ rec.item = co[c][n].item /\ rec.ans = co[c][n].ans
        /\ rec.pc \notin {"none", "read"} /\ Owes(n, rec) \subseteq Owes(n, co[c][n])
    <3>0. PICK old : old = co[c][n]
      OBVIOUS
    <3>1. Answered(old, p, r, rec)
      BY <3>0 DEF Answered
    <3>2. Sound(c, n, old) /\ old.res[p] \in {"sent", "applied", "unavailable"}
      BY <2>1, <3>0
    <3> HIDE DEF rec
    <3>3. /\ Sound(c, n, rec) /\ rec.pc = old.pc /\ rec.item = old.item /\ rec.keep = old.keep
          /\ rec.ans = old.ans /\ rec.pc \notin {"none", "read"} /\ rec.item \in Item
          /\ \A q \in Replica : q # p => rec.res[q] = old.res[q]
          /\ Owes(n, rec) \subseteq Owes(n, old) \cup {p}
          /\ r \notin {"applied", "ok"} \/ old.res[p] = "applied" => Owes(n, rec) \subseteq Owes(n, old)
      BY <3>1, <3>2, RecordResult
    <3> QED
      BY <3>0, <3>3
  <2>3. IF rec.pc = "fan" THEN Decide(c, n, rec, late)
        ELSE co' = [co EXCEPT ![c][n] = rec] /\ net' = net \cup late /\ UNCHANGED cl
    BY DEF Result
  <2> HIDE DEF rec
  <2>4. Calls(InFlight(rec))
    BY <2>2, InFlightCalls
  <2>5. CASE rec.pc = "fan"
    <3>1. rec.ans = "none"
      BY <2>2, <2>5 DEF Sound
    <3>2. PICK new : /\ co' = [co EXCEPT ![c][n] = new] /\ Sound(c, n, new) /\ new.pc # "none"
                     /\ new.item = rec.item /\ Owes(n, new) \subseteq Owes(n, rec)
      BY <2>2, <2>3, <2>5, <1>DecideEffect
    <3>3. Rewrites(c, n, new)
      BY <2>2, <3>1, <3>2 DEF Rewrites
    <3>4. ClEnds /\ net' \subseteq net \cup late \cup InFlight(rec)
      BY <2>2, <2>3, <2>5, <1>DecideEffect
    <3> QED
      BY <2>4, <3>3, <3>4 DEF NetInv, Calls
  <2>6. CASE rec.pc # "fan"
    <3>1. Rewrites(c, n, rec)
      BY <2>2, <2>3, <2>6 DEF Rewrites
    <3> QED
      BY <2>3, <2>6, <3>1, ClSame DEF NetInv, Calls
  <2> QED
    BY <2>5, <2>6
<1>BuiltType.
  ASSUME StoreInv, CallInv, PastInv, NEW c \in Client, NEW n \in Replica
  PROVE  Built(c, n) \in [Client -> SUBSET Client]
  <2> USE <1>BuiltType
  <2> DEFINE S == IF cl[c].ctx = NoContext THEN Get(n) ELSE cl[c].merged
             seen == {x.val : x \in S}
  <2>1. S \subseteq Item
    BY GetList DEF CallInv, Call
  <2>2. seen \subseteq Client
    BY <2>1 DEF Item
  <2>3. UNION {past[d] : d \in seen} \subseteq Client
    BY <2>2 DEF PastInv
  <2> HIDE DEF seen, S
  <2>4. [past EXCEPT ![c] = @ \cup seen \cup UNION {past[d] : d \in seen}] \in [Client -> SUBSET Client]
    BY <2>2, <2>3 DEF PastInv
  <2> QED
    BY <2>4 DEF Built, seen, S
\* A call is answered, whatever the answer.
<1>ResultUpholds.
  ASSUME NEW c \in Client, NEW n \in Replica, NEW p \in Replica, p # n,
         co[c][n].res[p] \in {"sent", "applied"}, NEW r \in Outcome \ {"none"}, r # "applied",
         r = "ok" => co[c][n].res[p] = "applied", NEW late, Calls(late), Result(c, n, p, r, late),
         NodeInv', UNCHANGED <<storeVars, hints, past, undone, repairVars>>
  PROVE  Upheld'
  <2> USE <1>ResultUpholds
  <2>1. PICK new : Rewrites(c, n, new)
    BY <1>ResultEffect DEF Upheld, TypesInv
  <2>2. ClEnds /\ NetInv'
    BY <1>ResultEffect DEF Upheld, TypesInv
  <2>3. StoreInv' /\ Kept
    BY StoreSame DEF Upheld, TypesInv
  <2>4. CoKept /\ HeldInv'
    BY <2>1, <2>3, <1>RecordRewritten DEF Upheld, TypesInv
  <2>5. PastInv' /\ RepairInv'
    BY PastSame, RepairSame DEF Upheld, TypesInv
  <2> QED
    BY <2>2, <2>3, <2>4, <2>5, Concluded
<1>AnswerUpholds.
  ASSUME NEW c \in Client, NEW n \in Replica, NEW p \in Peers(n),
         \/ Accepted(c, n, p) \/ Unavailable(c, n, p) \/ Refused(c, n, p) \/ Timeout(c, n, p)
         \/ Lost(c, n, p, "unavailable") \/ Lost(c, n, p, "error")
  PROVE  Upheld'
  <2> USE <1>AnswerUpholds
  <2>1. p \in Replica /\ p # n
    BY DEF Peers
  <2>2. NodeInv'
    BY NodesSame DEF Upheld, TypesInv, Accepted, Unavailable, Refused, Timeout, Lost
  <2>3. UNCHANGED <<storeVars, hints, past, undone>>
    BY DEF Accepted, Unavailable, Refused, Timeout, Lost
  <2>4. Calls({})
    BY DEF Calls
  <2>5. CASE Accepted(c, n, p)
    <3>1. co[c][n].res[p] = "applied" /\ Result(c, n, p, "ok", {}) /\ "ok" \in Outcome \ {"none"}
      BY <2>5 DEF Accepted, Outcome
    <3> QED
      BY <2>1, <2>2, <2>3, <2>4, <3>1, <1>ResultUpholds
  <2>6. CASE Unavailable(c, n, p) \/ Lost(c, n, p, "unavailable")
    <3>1. co[c][n].res[p] \in {"sent", "applied"} /\ Result(c, n, p, "unavailable", {})
      BY <2>6 DEF Unavailable, Lost
    <3>2. "unavailable" \in Outcome \ {"none"} /\ "unavailable" # "applied" /\ "unavailable" # "ok"
      BY DEF Outcome
    <3> QED
      BY <2>1, <2>2, <2>3, <2>4, <3>1, <3>2, <1>ResultUpholds
  <2>7. "error" \in Outcome \ {"none"} /\ "error" # "applied" /\ "error" # "ok"
    BY DEF Outcome
  <2>8. CASE Refused(c, n, p) \/ Lost(c, n, p, "error")
    <3>1. co[c][n].res[p] \in {"sent", "applied"} /\ Result(c, n, p, "error", {})
      BY <2>8 DEF Refused, Lost
    <3> QED
      BY <2>1, <2>2, <2>3, <2>4, <2>7, <3>1, <1>ResultUpholds
  <2>9. CASE Timeout(c, n, p)
    <3>0. PICK late : late = {[to |-> p, item |-> co[c][n].item]}
      OBVIOUS
    <3>1. co[c][n].res[p] = "sent" /\ Result(c, n, p, "error", late)
      BY <2>9, <3>0 DEF Timeout
    <3>2. co[c][n].item \in Item
      BY <2>1, <3>1 DEF Upheld, TypesInv, CoInv, Sound
    <3>3. Calls(late)
      BY <2>1, <3>0, <3>2, SMT DEF Calls
    <3> QED
      BY <2>1, <2>2, <2>3, <2>7, <3>1, <3>3, <1>ResultUpholds
  <2> QED
    BY <2>5, <2>6, <2>8, <2>9
\* A peer's engine halts at the write.
<1>ReplicateHaltsUpholds.
  ASSUME NEW c \in Client, NEW n \in Replica, NEW p \in Peers(n), ReplicateHalts(c, n, p)
  PROVE  Upheld'
  <2> USE <1>ReplicateHaltsUpholds
  <2>1. p \in Replica /\ p # n /\ co[c][n].res[p] = "sent" /\ Result(c, n, p, "unavailable", {})
    BY DEF Peers, ReplicateHalts
  <2>2. co[c][n].item \in Item
    BY <2>1 DEF Upheld, TypesInv, CoInv, Sound
  <2>3. NodeInv'
    BY <2>1, <2>2 DEF Upheld, TypesInv, NodeInv, ReplicateHalts
  <2>4. UNCHANGED <<storeVars, hints, past, undone>>
    BY DEF ReplicateHalts
  <2>5. Calls({}) /\ "unavailable" \in Outcome \ {"none"} /\ "unavailable" # "applied" /\ "unavailable" # "ok"
    BY DEF Outcome, Calls
  <2> QED
    BY <2>1, <2>3, <2>4, <2>5, <1>ResultUpholds
\* A record that ends without an answer to the client's liking.
<1>LocalEnd.
  ASSUME CoInv, NEW c \in Client, NEW n \in Replica, co[c][n].pc \in {"read", "rollback"},
         NEW ans \in {"storage", "quorum"}, co' = [co EXCEPT ![c][n].pc = "done", ![c][n].ans = ans]
  PROVE  \E new : Rewrites(c, n, new)
  <2> USE <1>LocalEnd
  <2>00. PICK keep \in BOOLEAN : keep = FALSE
    OBVIOUS
  <2>0. PICK rec, new : rec = co[c][n] /\ new = [rec EXCEPT !.pc = "done", !.ans = ans]
    OBVIOUS
  <2>1. /\ Sound(c, n, rec) /\ rec \in Coordination /\ rec.pc # "none" /\ rec.ans = "none"
        /\ rec.keep = FALSE
    BY <2>0, SMT DEF CoInv, Sound, Coordination
  <2>2. co' = [co EXCEPT ![c][n] = new]
    BY <2>0, <2>1 DEF CoInv, Coordination
  <2>3. Leaves(n, rec, keep, rec)
    BY <2>1 DEF Leaves
  <2>4. MayEnd(rec, rec, keep, "done", ans) /\ EndsAs(rec, "done", ans, new)
    BY <2>0, <2>00, <2>1 DEF MayEnd, EndsAs
  <2>5. ans \in Answer
    BY DEF Answer
  <2>6. Sound(c, n, new) /\ new.pc = "done" /\ new.item = rec.item /\ Owes(n, new) \subseteq Owes(n, rec)
    <3>1. Ending(n, rec, keep, rec, "done", ans, new)
      BY <2>3, <2>4, <2>5 DEF Ending
    <3>2. RightlyEnded(c, n, rec, "done", ans, new)
      BY <2>1, <3>1, RecordEnds
    <3> QED
      BY <3>2 DEF RightlyEnded
  <2>7. Rewrites(c, n, new)
    BY <2>0, <2>1, <2>2, <2>6 DEF Rewrites
  <2> QED
    BY <2>7
<1>PutFailsUpholds.
  ASSUME NEW c \in Client, NEW n \in Replica, PutFails(c, n) \/ PutHalts(c, n)
  PROVE  Upheld'
  <2> USE <1>PutFailsUpholds
  <2>1. /\ co[c][n].pc = "read" /\ co' = [co EXCEPT ![c][n].pc = "done", ![c][n].ans = "storage"]
        /\ Return(c, n, FALSE) /\ UNCHANGED <<storeVars, undone, hints, net>>
    BY DEF PutFails, PutHalts
  <2>2. PICK new : Rewrites(c, n, new)
    BY <2>1, <1>LocalEnd DEF Upheld, TypesInv
  <2>3. ClEnds
    BY <2>1, ReturnEnds DEF Upheld, TypesInv
  <2>4. StoreInv' /\ Kept
    BY <2>1, StoreSame DEF Upheld, TypesInv
  <2>5. CoKept /\ HeldInv'
    BY <2>2, <2>4, <1>RecordRewritten DEF Upheld, TypesInv
  <2>6. NodeInv' /\ PastInv'
    <3>1. CASE PutFails(c, n)
      BY <3>1, NodesSame, PastSame DEF Upheld, TypesInv, PutFails
    <3>2. CASE PutHalts(c, n)
      <4>1. cl[c].ctx \in Clock \cup {NoContext}
        BY DEF Upheld, TypesInv, CallInv, Call
      <4>2. NewVersion(n, cl[c].ctx, c) \in Item
        BY <4>1, NewVersionType DEF Upheld, TypesInv
      <4>3. NodeInv'
        BY <3>2, <4>2 DEF Upheld, TypesInv, NodeInv, PutHalts
      <4>4. PastInv'
        BY <3>2, <1>BuiltType DEF Upheld, TypesInv, PastInv, PutHalts
      <4> QED
        BY <4>3, <4>4
    <3> QED
      BY <3>1, <3>2
  <2>7. NetInv' /\ RepairInv'
    BY <2>1, RepairSame DEF Upheld, TypesInv, NetInv
  <2> QED
    BY <2>1, <2>3, <2>4, <2>5, <2>6, <2>7, Concluded
<1>RollbackUpholds.
  ASSUME NEW c \in Client, NEW n \in Replica, Rollback(c, n)
  PROVE  Upheld'
  <2> USE <1>RollbackUpholds
  <2>1. /\ co[c][n].pc = "rollback" /\ co' = [co EXCEPT ![c][n].pc = "done", ![c][n].ans = "quorum"]
        /\ Return(c, n, FALSE) /\ UNCHANGED <<hints, net, past, nodeVars>>
    BY DEF Rollback
  <2>2. PICK new : Rewrites(c, n, new)
    BY <2>1, <1>LocalEnd DEF Upheld, TypesInv
  <2>3. ClEnds
    BY <2>1, ReturnEnds DEF Upheld, TypesInv
  <2>4. StoreInv' /\ Kept
    <3>1. List(co[c][n].prev)
      BY DEF Upheld, TypesInv, CoInv, Sound
    <3> QED
      BY <3>1, <1>StoreRestored DEF Upheld, TypesInv, Rollback
  <2>5. CoKept /\ HeldInv'
    BY <2>2, <2>4, <1>RecordRewritten DEF Upheld, TypesInv
  <2>6. NodeInv' /\ PastInv' /\ NetInv' /\ RepairInv'
    BY <2>1, NodesSame, PastSame, RepairSame DEF Upheld, TypesInv, NetInv
  <2> QED
    BY <2>1, <2>3, <2>4, <2>5, <2>6, Concluded
<1>CancelUpholds.
  ASSUME NEW c \in Client, NEW n \in Replica, Cancel(c, n)
  PROVE  Upheld'
  <2> USE <1>CancelUpholds
  <2>00. PICK keep \in BOOLEAN : keep = TRUE
    OBVIOUS
  <2>0. PICK rec : rec = co[c][n]
    OBVIOUS
  <2>1. PICK d, new : d = Decided(rec, keep, n) /\ new = [d EXCEPT !.pc = "done", !.ans = "canceled"]
    OBVIOUS
  <2>2. /\ rec.pc = "fan" /\ co' = [co EXCEPT ![c][n] = new]
        /\ net' = net \cup IF up[n] = "closing" THEN InFlight(rec) ELSE {}
        /\ Return(c, n, FALSE) /\ UNCHANGED <<storeVars, hints, past, undone, nodeVars>>
    BY <2>0, <2>00, <2>1, ZenonT(40) DEF Cancel
  <2>3. Sound(c, n, rec) /\ rec.ans = "none"
    BY <2>0, <2>2, SMT DEF Upheld, TypesInv, CoInv, Sound
  <2>4. Sound(c, n, new) /\ new.pc = "done" /\ new.item = rec.item /\ Owes(n, new) \subseteq Owes(n, rec)
    <3>1. Leaves(n, rec, keep, d) /\ EndsAs(d, "done", "canceled", new)
      BY <2>1 DEF Leaves, EndsAs
    <3>2. MayEnd(rec, d, keep, "done", "canceled")
      BY DEF MayEnd
    <3>3. Ending(n, rec, keep, d, "done", "canceled", new)
      BY <3>1, <3>2 DEF Ending, Answer
    <3>4. RightlyEnded(c, n, rec, "done", "canceled", new)
      BY <2>2, <2>3, <3>3, RecordEnds
    <3> QED
      BY <3>4 DEF RightlyEnded
  <2>5. Rewrites(c, n, new)
    BY <2>0, <2>2, <2>3, <2>4 DEF Rewrites
  <2>6. ClEnds
    BY <2>2, ReturnEnds DEF Upheld, TypesInv
  <2>7. StoreInv' /\ Kept
    BY <2>2, StoreSame DEF Upheld, TypesInv
  <2>8. CoKept /\ HeldInv'
    BY <2>5, <2>7, <1>RecordRewritten DEF Upheld, TypesInv
  <2>9. NetInv'
    BY <2>2, <2>3, InFlightCalls DEF Upheld, TypesInv, NetInv, Calls
  <2>10. NodeInv' /\ PastInv' /\ RepairInv'
    BY <2>2, NodesSame, PastSame, RepairSame DEF Upheld, TypesInv
  <2> QED
    BY <2>2, <2>6, <2>7, <2>8, <2>9, <2>10, Concluded
\* Store.Put, and a fan-out that may be decided at once.
<1>PutStoreUpholds.
  ASSUME NEW c \in Client, NEW n \in Replica, PutStore(c, n)
  PROVE  Upheld'
  <2> USE <1>PutStoreUpholds
  <2>0. PICK old, x, rec :
          /\ old = co[c][n] /\ x = NewVersion(n, cl[c].ctx, c)
          /\ rec = [old EXCEPT !.pc = "fan", !.item = x,
                               !.res = [p \in Replica |-> IF p = n THEN "none" ELSE "sent"]]
    OBVIOUS
  <2>1. /\ old.pc = "read" /\ PersisterPut(n, x) /\ Decide(c, n, rec, {}) /\ past' = Built(c, n)
        /\ UNCHANGED <<flushed, inc, hints, undone, nodeVars>>
    BY <2>0 DEF PutStore, Put
  <2>2. x \in Item /\ x.val = c
    <3>1. cl[c].ctx \in Clock \cup {NoContext}
      BY DEF Upheld, TypesInv, CallInv, Call
    <3> QED
      BY <2>0, <3>1, NewVersionType DEF Upheld, TypesInv
  <2>3. /\ Sound(c, n, old) /\ old \in Coordination /\ List(old.prev)
        /\ old.ans = "none" /\ old.keep = FALSE
    BY <2>0, <2>1, SMT DEF Upheld, TypesInv, CoInv, Sound, Coordination
  <2>4. /\ rec.pc = "fan" /\ rec.prev = old.prev /\ rec.item = x /\ rec.keep = FALSE /\ rec.ans = "none"
        /\ rec.res = [p \in Replica |-> IF p = n THEN "none" ELSE "sent"]
    BY <2>0, <2>3 DEF Coordination
  <2>5. rec.res \in [Replica -> Outcome] /\ rec.res[n] = "none"
        /\ \A p \in Replica : rec.res[p] \in {"none", "sent"}
    BY <2>4 DEF Outcome
  <2>6. rec \in Coordination
    <3>1. rec.prev \in SUBSET Item /\ "fan" \in CoPC /\ "none" \in Answer
      BY <2>3, <2>4 DEF Coordination, CoPC, Answer
    <3> QED
      BY <2>0, <2>2, <2>3, <2>5, <3>1 DEF Coordination
  <2>7. Sound(c, n, rec)
    BY <2>2, <2>3, <2>4, <2>5, <2>6 DEF Sound
  <2>8. Owes(n, rec) \subseteq {n}
    BY <2>5 DEF Owes
  <2>9. StoreInv' /\ Kept /\ HoldsNext(n, x)
    BY <2>1, <2>2, StorePut DEF Upheld, TypesInv
  <2>10. PICK new : /\ co' = [co EXCEPT ![c][n] = new] /\ Sound(c, n, new) /\ new.pc # "none"
                    /\ new.item = rec.item /\ Owes(n, new) \subseteq Owes(n, rec)
    BY <2>1, <2>4, <2>7, <1>DecideEffect DEF Upheld, TypesInv
  <2>11. ClEnds /\ net' \subseteq net \cup {} \cup InFlight(rec)
    BY <2>1, <2>4, <2>7, <1>DecideEffect DEF Upheld, TypesInv
  <2>12. Rewrites(c, n, new)
    <3>1. new.item = x /\ \A p \in Owes(n, new) : p = n
      BY <2>4, <2>8, <2>10
    <3>2. \A p \in Owes(n, new) : HoldsNext(p, new.item)
      BY <2>9, <3>1
    <3> QED
      BY <2>0, <2>1, <2>3, <2>10, <3>2 DEF Rewrites
  <2>13. CoKept /\ HeldInv'
    BY <2>9, <2>12, <1>RecordRewritten DEF Upheld, TypesInv
  <2>14. NetInv'
    BY <2>7, <2>11, InFlightCalls DEF Upheld, TypesInv, NetInv, Calls
  <2>15. PastInv'
    BY <2>1, <1>BuiltType DEF Upheld, TypesInv, PastInv
  <2>16. NodeInv' /\ RepairInv' /\ UNCHANGED hints
    BY <2>1, NodesSame, RepairSame DEF Upheld, TypesInv
  <2> QED
    BY <2>9, <2>11, <2>13, <2>14, <2>15, <2>16, Concluded
\* A peer merges the version.
<1>ReplicateUpholds.
  ASSUME NEW c \in Client, NEW n \in Replica, NEW p \in Peers(n), Replicate(c, n, p)
  PROVE  Upheld'
  <2> USE <1>ReplicateUpholds
  <2>0. PICK old, new : old = co[c][n] /\ new = [old EXCEPT !.res[p] = "applied"]
    OBVIOUS
  <2>1. p \in Replica /\ p # n /\ old.res[p] = "sent" /\ PersisterPut(p, old.item)
    BY <2>0 DEF Replicate, Peers, MergeReplicated
  <2>2. UNCHANGED <<flushed, inc, hints, cl, net, past, undone, nodeVars>>
    BY DEF Replicate
  <2>3. Sound(c, n, old) /\ old \in Coordination /\ old.item \in Item
    BY <2>0, <2>1 DEF Upheld, TypesInv, CoInv, Sound
  <2>4. co' = [co EXCEPT ![c][n] = new]
    BY <2>0 DEF Replicate, Upheld, TypesInv, CoInv
  <2>5. StoreInv' /\ Kept /\ HoldsNext(p, old.item)
    BY <2>1, <2>2, <2>3, StorePut DEF Upheld, TypesInv
  <2>6. /\ Sound(c, n, new) /\ new.item = old.item /\ new.ans = old.ans /\ new.pc \notin {"none", "read"}
        /\ old.pc # "none" /\ Owes(n, new) \subseteq Owes(n, old) \cup {p}
    <3>0. PICK r \in Outcome \ {"none"} : r = "applied"
      BY DEF Outcome
    <3>1. Answered(old, p, r, new)
      BY <2>0, <3>0 DEF Answered
    <3>2. old.res[p] \in {"sent", "applied", "unavailable"} /\ p \in Replica /\ p # n /\ Sound(c, n, old)
      BY <2>1, <2>3
    <3>3. /\ Sound(c, n, new) /\ new.pc = old.pc /\ new.item = old.item /\ new.keep = old.keep
          /\ new.ans = old.ans /\ new.pc \notin {"none", "read"} /\ new.item \in Item
          /\ \A q \in Replica : q # p => new.res[q] = old.res[q]
          /\ Owes(n, new) \subseteq Owes(n, old) \cup {p}
          /\ r \notin {"applied", "ok"} \/ old.res[p] = "applied" => Owes(n, new) \subseteq Owes(n, old)
      BY <3>1, <3>2, RecordResult
    <3> QED
      BY <3>3
  <2>7. Rewrites(c, n, new)
    <3>1. \A q \in Owes(n, new) : q \in Owes(n, old) \/ HoldsNext(q, new.item)
      BY <2>5, <2>6
    <3> QED
      BY <2>0, <2>4, <2>6, <3>1 DEF Rewrites
  <2>8. CoKept /\ HeldInv'
    BY <2>5, <2>7, <1>RecordRewritten DEF Upheld, TypesInv
  <2>9. NodeInv' /\ PastInv' /\ NetInv' /\ RepairInv' /\ ClEnds
    BY <2>2, NodesSame, PastSame, RepairSame, ClSame DEF Upheld, TypesInv, NetInv
  <2> QED
    BY <2>2, <2>5, <2>8, <2>9, Concluded
<1>StoreHintUpholds.
  ASSUME NEW c \in Client, NEW n \in Replica, NEW p \in Peers(n), StoreHint(c, n, p)
  PROVE  Upheld'
  <2> USE <1>StoreHintUpholds
  <2>0. PICK r \in Outcome \ {"none"} :
          /\ r \in {"hinted", "error"} /\ co' = [co EXCEPT ![c][n].res[p] = r]
          /\ Add(n, p, co[c][n].item) \/ UNCHANGED hints
    BY DEF StoreHint, Outcome
  <2>1. PICK old, new : old = co[c][n] /\ new = [old EXCEPT !.res[p] = r]
    OBVIOUS
  <2>2. p \in Replica /\ p # n /\ old.res[p] = "unavailable" /\ old.pc = "done" /\ old.keep
    BY <2>1 DEF StoreHint, Peers
  <2>3. UNCHANGED <<storeVars, cl, net, past, undone, nodeVars>>
    BY DEF StoreHint
  <2>4. Sound(c, n, old) /\ old \in Coordination /\ old.ans \in {"ok", "canceled"}
    BY <2>1, <2>2 DEF Upheld, TypesInv, CoInv, Sound
  <2>5. co' = [co EXCEPT ![c][n] = new]
    BY <2>0, <2>1 DEF Upheld, TypesInv, CoInv
  <2>6. /\ Sound(c, n, new) /\ new.item = old.item /\ new.ans = old.ans /\ new.pc \notin {"none", "read"}
        /\ new.item \in Item /\ Owes(n, new) \subseteq Owes(n, old)
    <3>1. Answered(old, p, r, new)
      BY <2>1 DEF Answered
    <3>2. old.res[p] \in {"sent", "applied", "unavailable"} /\ p \in Replica /\ p # n /\ Sound(c, n, old)
      BY <2>2, <2>4
    <3>3. /\ Sound(c, n, new) /\ new.pc = old.pc /\ new.item = old.item /\ new.keep = old.keep
          /\ new.ans = old.ans /\ new.pc \notin {"none", "read"} /\ new.item \in Item
          /\ \A q \in Replica : q # p => new.res[q] = old.res[q]
          /\ Owes(n, new) \subseteq Owes(n, old) \cup {p}
          /\ r \notin {"applied", "ok"} \/ old.res[p] = "applied" => Owes(n, new) \subseteq Owes(n, old)
      BY <3>1, <3>2, RecordResult
    <3> QED
      BY <2>0, <3>3
  <2>7. Rewrites(c, n, new)
    BY <2>1, <2>2, <2>5, <2>6 DEF Rewrites
  <2>8. StoreInv' /\ Kept
    BY <2>3, StoreSame DEF Upheld, TypesInv
  <2>9. CoKept /\ HeldInv'
    BY <2>7, <2>8, <1>RecordRewritten DEF Upheld, TypesInv
  <2>10. HintInv'
    <3>1. CASE UNCHANGED hints
      BY <2>9, <3>1, HintsSame DEF Upheld
    <3>2. CASE Add(n, p, old.item)
      <4>1. old.item \in Item /\ old.item.val = c /\ co'[c][n].ans = old.ans
        BY <2>1, <2>4, <2>5, <2>6, SMT DEF Sound, Upheld, TypesInv, CoInv
      <4>2. MayHint(n, old.item) /\ old.item \in Version
        BY <2>4, <4>1, ItemFacts DEF MayHint
      <4>3. hints' = [hints EXCEPT ![n][p] = Resolve(@, old.item)]
        BY <3>2 DEF Add, enginePut
      <4> QED
        BY <2>2, <2>9, <4>2, <4>3, HintPut, ZenonT(40) DEF Upheld
    <3> QED
      BY <2>0, <2>1, <3>1, <3>2
  <2>11. NodeInv' /\ PastInv' /\ NetInv' /\ RepairInv' /\ ClEnds
    BY <2>3, NodesSame, PastSame, RepairSame, ClSame DEF Upheld, TypesInv, NetInv
  <2>12. CallInv' /\ CoInv' /\ ChainInv'
    BY <2>9, <2>11, CallsKept DEF Upheld, TypesInv
  <2> QED
    BY <2>8, <2>9, <2>10, <2>11, <2>12 DEF Upheld, TypesInv
<1>1. PICK c \in Client, n \in Replica :
        \/ PutStore(c, n) \/ PutFails(c, n) \/ PutHalts(c, n) \/ Cancel(c, n) \/ Rollback(c, n)
        \/ \E p \in Peers(n) :
             \/ Replicate(c, n, p) \/ Accepted(c, n, p) \/ Unavailable(c, n, p)
             \/ ReplicateHalts(c, n, p) \/ Refused(c, n, p) \/ Timeout(c, n, p)
             \/ Lost(c, n, p, "unavailable") \/ Lost(c, n, p, "error")
             \/ StoreHint(c, n, p)
  BY DEF CoordinatorStep
<1>2. CASE PutStore(c, n) \/ PutFails(c, n) \/ PutHalts(c, n) \/ Cancel(c, n) \/ Rollback(c, n)
  BY <1>2, <1>PutStoreUpholds, <1>PutFailsUpholds, <1>CancelUpholds, <1>RollbackUpholds
<1>3. ASSUME NEW p \in Peers(n),
             \/ Replicate(c, n, p) \/ Accepted(c, n, p) \/ Unavailable(c, n, p)
             \/ ReplicateHalts(c, n, p) \/ Refused(c, n, p) \/ Timeout(c, n, p)
             \/ Lost(c, n, p, "unavailable") \/ Lost(c, n, p, "error")
             \/ StoreHint(c, n, p)
      PROVE  Upheld'
  BY <1>3, <1>ReplicateUpholds, <1>AnswerUpholds, <1>ReplicateHaltsUpholds, <1>StoreHintUpholds
<1> QED
  BY <1>1, <1>2, <1>3

-----------------------------------------------------------------------------
(***************************************************************************)
(* The clients' steps.  Such a step writes one call, and may begin one     *)
(* coordination.                                                           *)
(***************************************************************************)
GoodCall(call) == call \in Call /\ List(call.merged) /\ (call.pc = "put" => call.next <= Total)

Chain(call, recs) ==
  /\ call.pc \in {"idle", "getting", "got"} =>
       call.next = 1 /\ call.on = NoValue /\ \A n \in Replica : recs[n].pc = "none"
  /\ call.pc = "put" /\ call.at \in Front =>
       \A i \in DOMAIN Pref :
         i > call.next \/ (i = call.next /\ call.on = NoValue) => recs[Pref[i]].pc = "none"
  /\ \A n \in Replica : recs[n].pc # "none" => n \in call.broken \cup {call.on}

LEMMA ChainFacts ==
  ASSUME CallInv, ChainInv, NEW c \in Client
  PROVE  GoodCall(cl[c]) /\ Chain(cl[c], co[c])
BY DEF CallInv, ChainInv, GoodCall, Chain, Forwarding

Begins(c, n) == co[c][n].pc = "none" /\ co' = Reading(c, n)

TriedNext(c, broken, call) == call = [Tried(c) EXCEPT !.broken = broken]

LEMMA ClientStepUpholds ==
  ASSUME FiniteFacts, Upheld, UNCHANGED repairVars, ClientStep
  PROVE  Upheld'
\* The initial record, and the one of a coordination that has read.
<1>RecordBegins.
  ASSUME NEW c, NEW n \in Replica, NEW prev, List(prev)
  PROVE  /\ NoCoordination \in Coordination /\ Sound(c, n, NoCoordination) /\ Owes(n, NoCoordination) = {}
         /\ LET rec == [NoCoordination EXCEPT !.pc = "read", !.prev = prev]
            IN  rec \in Coordination /\ Sound(c, n, rec) /\ Owes(n, rec) = {}
  <2> USE <1>RecordBegins
  <2> DEFINE rec == [NoCoordination EXCEPT !.pc = "read", !.prev = prev]
  <2>1. /\ NoCoordination.pc = "none" /\ NoCoordination.prev = {} /\ NoCoordination.item = NoVersion
        /\ NoCoordination.keep = FALSE /\ NoCoordination.ans = "none"
        /\ NoCoordination.res = [p \in Replica |-> "none"]
    BY DEF NoCoordination
  <2>2. NoCoordination \in Coordination
    BY DEF NoCoordination, Coordination, CoPC, Answer, Outcome
  <2>3. /\ rec.pc = "read" /\ rec.prev = prev /\ rec.item = NoVersion
        /\ rec.keep = FALSE /\ rec.ans = "none" /\ rec.res = [p \in Replica |-> "none"]
    BY DEF NoCoordination
  <2>4. rec \in Coordination
    BY DEF NoCoordination, Coordination, CoPC, Answer, Outcome, List, Items
  <2> HIDE DEF rec
  <2>5. Sound(c, n, NoCoordination) /\ Owes(n, NoCoordination) = {}
    BY <2>1, <2>2, EmptyList, ItemFacts DEF Sound, Owes
  <2>6. Sound(c, n, rec) /\ Owes(n, rec) = {}
    BY <2>3, <2>4, ItemFacts DEF Sound, Owes
  <2> QED
    BY <2>2, <2>4, <2>5, <2>6 DEF rec
<1>RecordStarts.
  ASSUME StoreInv, CoInv, HeldInv, HintInv, Kept, NEW c \in Client, NEW n \in Replica, Begins(c, n),
         UNCHANGED hints
  PROVE  /\ CoInv' /\ HeldInv' /\ HintInv'
         /\ \A d \in Client : d # c => co'[d] = co[d]
         /\ \A m \in Replica : m # n => co'[c][m] = co[c][m]
  <2> USE <1>RecordStarts
  <2>0. PICK new : new = [NoCoordination EXCEPT !.pc = "read", !.prev = Get(n)]
    OBVIOUS
  <2>1. new \in Coordination /\ Sound(c, n, new) /\ Owes(n, new) = {}
    BY <2>0, GetList, <1>RecordBegins
  <2>2. co' = [co EXCEPT ![c][n] = new]
    BY <2>0 DEF Begins, Reading
  <2>3. /\ co' \in [Client -> [Replica -> Coordination]] /\ co'[c][n] = new
        /\ \A d \in Client, m \in Replica : d # c \/ m # n => co'[d][m] = co[d][m]
        /\ \A d \in Client : d # c => co'[d] = co[d]
    BY <2>1, <2>2 DEF CoInv
  <2>4. CoInv'
    <3>1. ASSUME NEW d \in Client, NEW m \in Replica PROVE Sound(d, m, co'[d][m])
      <4>1. CASE d = c /\ m = n
        BY <2>1, <2>3, <4>1
      <4>2. CASE d # c \/ m # n
        BY <2>3, <4>2 DEF CoInv
      <4> QED
        BY <4>1, <4>2
    <3> QED
      BY <2>3, <3>1 DEF CoInv, Sound
  <2>5. ASSUME NEW d \in Client, NEW m \in Replica, NEW p \in Owes(m, co'[d][m]) PROVE HoldsNext(p, co'[d][m].item)
    <3>1. d # c \/ m # n
      BY <2>1, <2>3
    <3>2. PICK x : x = co[d][m].item /\ co'[d][m] = co[d][m]
      BY <2>3, <3>1
    <3>3. Holds(p, x) /\ p \in Replica /\ x \in Written
      BY <3>2, OwesFacts DEF HeldInv
    <3>4. HoldsNext(p, x)
      BY <3>3 DEF Kept
    <3> QED
      BY <3>2, <3>4 DEF HoldsNext
  <2>6. HeldInv'
    BY <2>5 DEF HeldInv, Owes, Holds, HoldsNext
  <2>7. co[c][n].ans = "none"
    BY DEF Begins, CoInv, Sound
  <2>8. ASSUME NEW m \in Replica, NEW p \in Replica, NEW x \in hints[m][p] PROVE MayHint(m, x)
    <3>1. (x.val = NoValue /\ isMarker(x)) \/ (x \in Item /\ co[x.val][m].ans \in {"ok", "canceled"})
      BY DEF HintInv
    <3>2. x \in Item => x.val \in Client
      BY DEF Item
    <3> QED
      BY <2>3, <2>7, <3>1, <3>2 DEF MayHint
  <2>9. HintInv'
    BY <2>8, SMT DEF HintInv, MayHint, isMarker, Siblings
  <2> QED
    BY <2>3, <2>4, <2>6, <2>9
<1>ClientUpholds.
  ASSUME UNCHANGED <<storeVars, hints, net, past, undone, nodeVars>>, NEW c \in Client, NEW call,
         GoodCall(call), cl' = [cl EXCEPT ![c] = call],
         UNCHANGED co \/ \E n \in Replica : Begins(c, n), Chain(call, co'[c])
  PROVE  Upheld'
  <2> USE <1>ClientUpholds
  <2>1. StoreInv' /\ Kept
    BY StoreSame DEF Upheld, TypesInv
  <2>2. CoInv' /\ HeldInv' /\ HintInv' /\ \A d \in Client : d # c => co'[d] = co[d]
    <3>1. CASE UNCHANGED co
      <4>1. CoKept /\ HeldInv'
        BY <2>1, <3>1, RecordsSame DEF Upheld, TypesInv
      <4>2. HintInv'
        BY <4>1, HintsSame DEF Upheld
      <4>3. CoInv'
        BY <4>1, SMT DEF CoInv, CoKept, Sound
      <4> QED
        BY <3>1, <4>1, <4>2, <4>3
    <3>2. CASE \E n \in Replica : Begins(c, n)
      BY <2>1, <3>2, <1>RecordStarts DEF Upheld, TypesInv
    <3> QED
      BY <3>1, <3>2
  <2>3. /\ cl' \in [Client -> Call] /\ cl'[c] = call /\ \A d \in Client : d # c => cl'[d] = cl[d]
    BY DEF GoodCall, Upheld, TypesInv, CallInv
  <2>4. ASSUME NEW d \in Client PROVE GoodCall(cl'[d]) /\ Chain(cl'[d], co'[d])
    <3>1. GoodCall(cl[d]) /\ Chain(cl[d], co[d])
      BY ChainFacts DEF Upheld, TypesInv
    <3> QED
      BY <2>2, <2>3, <3>1
  <2>5. CallInv'
    BY <2>3, <2>4 DEF CallInv, GoodCall, List, Items, Siblings
  <2>6. ChainInv'
    BY <2>4 DEF ChainInv, Chain, Forwarding
  <2>7. NodeInv' /\ PastInv' /\ NetInv' /\ RepairInv'
    BY NodesSame, PastSame, RepairSame DEF Upheld, TypesInv, NetInv
  <2> QED
    BY <2>1, <2>2, <2>5, <2>6, <2>7 DEF Upheld, TypesInv
<1>GetUpholds.
  ASSUME NEW c \in Client,
         (\E n \in Replica \cup Front : GetBegin(c, n)) \/ \E p \in Replica : GetResponse(c, p) \/ GetFailure(c, p)
  PROVE  Upheld'
  <2> USE <1>GetUpholds
  <2>1. GoodCall(cl[c]) /\ cl[c] \in Call /\ List(cl[c].merged) /\ Chain(cl[c], co[c])
    BY ChainFacts DEF Upheld, TypesInv, GoodCall
  <2>2. \A p \in Replica : List(Get(p)) /\ Get(p) \in SUBSET Item
    BY GetList DEF Upheld, TypesInv
  <2>3. CASE \E n \in Replica \cup Front : GetBegin(c, n)
    <3>1. PICK n \in Replica \cup Front : GetBegin(c, n)
      BY <2>3
    <3>2. PICK pc, merged, call :
            /\ pc = (IF n \in Replica /\ R = 1 THEN "got" ELSE "getting")
            /\ merged = (IF n \in Replica THEN Get(n) ELSE {})
            /\ call = [NoCall EXCEPT !.at = n, !.since = Acked, !.pc = pc, !.merged = merged,
                                     !.resp = {n} \cap Replica]
      OBVIOUS
    <3>3. /\ cl' = [cl EXCEPT ![c] = call] /\ cl[c].pc = "idle"
          /\ UNCHANGED <<storeVars, hints, co, net, past, undone, nodeVars>>
      BY <3>1, <3>2 DEF GetBegin
    <3>4. pc \in {"got", "getting"} /\ List(merged) /\ merged \in SUBSET Item
      BY <2>2, <3>2, EmptyList
    <3>5. /\ call \in Call /\ call.pc = pc /\ call.merged = merged /\ call.next = 1 /\ call.on = NoValue
          /\ call.broken = {}
      <4>1. 1 \in 1..Total + 1 /\ Acked \in SUBSET Client /\ {n} \cap Replica \in SUBSET Replica
        BY ReplicaFacts, SMT DEF Acked
      <4> QED
        BY <3>2, <3>4, <4>1 DEF NoCall, Call, CallPC
    <3>6. GoodCall(call)
      BY <3>4, <3>5 DEF GoodCall
    <3>7. Chain(call, co[c])
      BY <2>1, <3>3, <3>4, <3>5 DEF Chain
    <3> QED
      BY <3>3, <3>6, <3>7, <1>ClientUpholds
  <2>4. ASSUME NEW p \in Replica, GetResponse(c, p)
        PROVE  Upheld'
    <3>1. PICK old, pc, merged, call :
            /\ old = cl[c] /\ pc = (IF Cardinality(old.resp) + 1 >= R THEN "got" ELSE old.pc)
            /\ merged = MergeSiblings(old.merged, Get(p))
            /\ call = [old EXCEPT !.merged = merged, !.resp = @ \cup {p}, !.pc = pc]
      OBVIOUS
    <3>2. old.pc = "getting" /\ UNCHANGED <<storeVars, hints, co, net, past, undone, nodeVars>>
      BY <2>4, <3>1 DEF GetResponse
    <3>3. cl' = [cl EXCEPT ![c] = call]
      BY <2>4, <3>1 DEF GetResponse, Upheld, TypesInv, CallInv
    <3>4. pc \in {"got", "getting"} /\ List(merged) /\ merged \in SUBSET Item
      BY <2>1, <2>2, <3>1, <3>2, MergeList
    <3>5. /\ call \in Call /\ call.pc = pc /\ call.merged = merged /\ call.next = old.next /\ call.on = old.on
          /\ call.broken = old.broken
      <4>1. old.resp \cup {p} \in SUBSET Replica
        BY <2>1, <3>1 DEF Call
      <4>2. old \in Call /\ call = [old EXCEPT !.merged = merged, !.resp = old.resp \cup {p}, !.pc = pc]
        BY <2>1, <3>1
      <4>3. /\ call.pc = pc /\ call.merged = merged /\ call.next = old.next /\ call.on = old.on
            /\ call.broken = old.broken
        BY <4>2 DEF Call
      <4>4. call \in Call
        BY <3>4, <4>1, <4>2 DEF Call, CallPC
      <4> QED
        BY <4>3, <4>4
    <3>6. GoodCall(call)
      BY <3>4, <3>5 DEF GoodCall
    <3>7. Chain(call, co[c])
      BY <2>1, <3>1, <3>2, <3>4, <3>5 DEF Chain
    <3> QED
      BY <3>2, <3>3, <3>6, <3>7, <1>ClientUpholds
  <2>5. ASSUME NEW p \in Replica, GetFailure(c, p)
        PROVE  Upheld'
    <3>1. PICK old, pc, call :
            /\ old = cl[c] /\ pc = (IF Total - Cardinality(old.failed) - 1 < R THEN "failed" ELSE old.pc)
            /\ call = [old EXCEPT !.failed = @ \cup {p}, !.pc = pc]
      OBVIOUS
    <3>2. old.pc = "getting" /\ UNCHANGED <<storeVars, hints, co, net, past, undone, nodeVars>>
      BY <2>5, <3>1 DEF GetFailure
    <3>3. cl' = [cl EXCEPT ![c] = call]
      BY <2>5, <3>1 DEF GetFailure, Upheld, TypesInv, CallInv
    <3>4. pc \in {"failed", "getting"}
      BY <3>1, <3>2
    <3>5. /\ call \in Call /\ call.pc = pc /\ call.merged = old.merged /\ call.next = old.next
          /\ call.on = old.on /\ call.broken = old.broken
      <4>1. old.failed \cup {p} \in SUBSET Replica
        BY <2>1, <3>1 DEF Call
      <4>2. old \in Call /\ call = [old EXCEPT !.failed = old.failed \cup {p}, !.pc = pc]
        BY <2>1, <3>1
      <4>3. /\ call.pc = pc /\ call.merged = old.merged /\ call.next = old.next
            /\ call.on = old.on /\ call.broken = old.broken
        BY <4>2 DEF Call
      <4>4. call \in Call
        BY <3>4, <4>1, <4>2 DEF Call, CallPC
      <4> QED
        BY <4>3, <4>4
    <3>6. GoodCall(call)
      BY <2>1, <3>1, <3>4, <3>5 DEF GoodCall
    <3>7. Chain(call, co[c])
      BY <2>1, <3>1, <3>2, <3>4, <3>5 DEF Chain
    <3> QED
      BY <3>2, <3>3, <3>6, <3>7, <1>ClientUpholds
  <2> QED
    BY <2>3, <2>4, <2>5
<1>PutBeginUpholds.
  ASSUME NEW c \in Client, NEW n \in Replica \cup Front, PutBegin(c, n)
  PROVE  Upheld'
  <2> USE <1>PutBeginUpholds
  <2>1. GoodCall(cl[c]) /\ cl[c] \in Call /\ List(cl[c].merged) /\ Chain(cl[c], co[c])
    BY ChainFacts DEF Upheld, TypesInv, GoodCall
  <2>2. PICK old, ctx, on, call :
          /\ old = cl[c] /\ ctx = (IF old.pc = "got" THEN UnionVectorClock(old.merged) ELSE old.ctx)
          /\ on = (IF n \in Replica THEN n ELSE old.on)
          /\ call = [old EXCEPT !.pc = "put", !.at = n, !.ctx = ctx, !.on = on]
    OBVIOUS
  <2>3. /\ old.pc \in {"idle", "got"} /\ UNCHANGED <<storeVars, hints, net, past, undone, nodeVars>>
        /\ co' = IF n \in Replica THEN Reading(c, n) ELSE co
    BY <2>2 DEF PutBegin
  <2>4. cl' = [cl EXCEPT ![c] = call]
    BY <2>2 DEF PutBegin, Upheld, TypesInv, CallInv
  <2>5. UnionVectorClock(old.merged) \in Clock
    BY <2>1, <2>2, ItemFacts, UnionType DEF List, Items
  <2>6. ctx \in Clock \cup {NoContext} /\ on \in Replica \cup {NoValue}
    BY <2>1, <2>2, <2>5 DEF Call
  <2>7. /\ call \in Call /\ call.pc = "put" /\ call.at = n /\ call.merged = old.merged
        /\ call.next = old.next /\ call.on = on /\ call.broken = old.broken
    <3>1. /\ call.pc = "put" /\ call.at = n /\ call.merged = old.merged
          /\ call.next = old.next /\ call.on = on /\ call.broken = old.broken
      BY <2>1, <2>2 DEF Call
    <3>2. old \in Call /\ call = [old EXCEPT !.pc = "put", !.at = n, !.ctx = ctx, !.on = on]
      BY <2>1, <2>2
    <3>3. call \in Call
      BY <2>6, <3>2 DEF Call, CallPC
    <3> QED
      BY <3>1, <3>3
  <2>8. old.next = 1 /\ old.on = NoValue /\ \A m \in Replica : co[c][m].pc = "none"
    BY <2>1, <2>2, <2>3 DEF Chain
  <2>9. GoodCall(call)
    BY <2>1, <2>2, <2>7, <2>8, QuorumAssumption, SMT DEF GoodCall, Total
  <2>10. CASE n \in Replica
    <3>1. Begins(c, n)
      BY <2>3, <2>8, <2>10 DEF Begins
    <3>2. \A m \in Replica : m # n => co'[c][m] = co[c][m]
      BY <2>3, <2>10 DEF Reading, Upheld, TypesInv, CoInv
    <3>3. n \notin Front
      BY <2>10, QuorumAssumption
    <3>4. Chain(call, co'[c])
      BY <2>2, <2>7, <2>8, <2>10, <3>2, <3>3, SMT DEF Chain
    <3> QED
      BY <2>3, <2>4, <2>9, <2>10, <3>1, <3>4, <1>ClientUpholds
  <2>11. CASE n \notin Replica
    <3>1. UNCHANGED co
      BY <2>3, <2>11
    <3>2. \A i \in DOMAIN Pref : Pref[i] \in Replica
      BY QuorumAssumption
    <3>3. Chain(call, co'[c])
      BY <2>7, <2>8, <3>1, <3>2 DEF Chain
    <3> QED
      BY <2>3, <2>4, <2>9, <3>1, <3>3, <1>ClientUpholds
  <2> QED
    BY <2>10, <2>11
<1>TriedFields.
  ASSUME NEW c, GoodCall(cl[c]), cl[c].pc = "put", NEW broken \in SUBSET Replica, NEW call,
         TriedNext(c, broken, call)
  PROVE  /\ GoodCall(call) /\ call.next = cl[c].next + 1 /\ call.on = NoValue /\ call.broken = broken
         /\ call.at = cl[c].at /\ call.pc \in {"put", "failed"}
  <2> USE <1>TriedFields
  <2>1. cl[c] \in Call /\ cl[c].next \in 1..Total /\ Total \in Nat
    BY ReplicaFacts, SMT DEF GoodCall, Call
  <2>2. PICK old, pc : old = cl[c] /\ pc = (IF old.next = Total THEN "failed" ELSE old.pc)
    OBVIOUS
  <2>3. Tried(c) = [old EXCEPT !.on = NoValue, !.next = @ + 1, !.pc = pc]
    BY <2>2 DEF Tried
  <2>4. pc \in {"put", "failed"} /\ (pc = "put" => old.next + 1 <= Total) /\ old.next + 1 \in 1..Total + 1
    BY <2>1, <2>2, SMT
  <2>5. /\ call \in Call /\ call.next = old.next + 1 /\ call.on = NoValue /\ call.broken = broken
        /\ call.at = old.at /\ call.pc = pc /\ call.merged = old.merged
    <3>1. /\ old \in Call
          /\ call = [old EXCEPT !.on = NoValue, !.next = old.next + 1, !.pc = pc, !.broken = broken]
      BY <2>1, <2>2, <2>3 DEF TriedNext
    <3>2. /\ call.next = old.next + 1 /\ call.on = NoValue /\ call.broken = broken
          /\ call.at = old.at /\ call.pc = pc /\ call.merged = old.merged
      BY <3>1 DEF Call
    <3>3. call \in Call
      BY <2>4, <3>1 DEF Call, CallPC
    <3> QED
      BY <3>2, <3>3
  <2>6. GoodCall(call)
    BY <2>2, <2>4, <2>5 DEF GoodCall
  <2> QED
    BY <2>2, <2>4, <2>5, <2>6
<1>ForwardOnUpholds.
  ASSUME NEW c \in Client, ForwardSkip(c) \/ ForwardLost(c)
  PROVE  Upheld'
  <2> USE <1>ForwardOnUpholds
  <2>1. GoodCall(cl[c]) /\ cl[c] \in Call /\ Chain(cl[c], co[c])
    BY ChainFacts DEF Upheld, TypesInv, GoodCall
  <2>2. /\ cl[c].pc = "put" /\ cl[c].at \in Front
        /\ UNCHANGED <<storeVars, hints, co, net, past, undone, nodeVars>>
    BY DEF ForwardSkip, ForwardLost, Forwarding
  <2>3. \E b \in SUBSET Replica :
          /\ cl' = [cl EXCEPT ![c] = [Tried(c) EXCEPT !.broken = b]]
          /\ (b = cl[c].broken /\ cl[c].on = NoValue) \/ b = cl[c].broken \cup {cl[c].on}
    <3>1. CASE ForwardSkip(c)
      <4>1. Tried(c) = [Tried(c) EXCEPT !.broken = cl[c].broken] /\ cl[c].broken \in SUBSET Replica
        BY <2>1 DEF Tried, Call
      <4> QED
        BY <3>1, <4>1 DEF ForwardSkip, TryNext
    <3>2. CASE ForwardLost(c)
      <4>1. Tried(c).broken = cl[c].broken
        BY <2>1 DEF Tried, Call
      <4>2. cl[c].broken \cup {cl[c].on} \in SUBSET Replica
        BY <2>1, <3>2 DEF Call, ForwardLost
      <4>3. cl' = [cl EXCEPT ![c] = [Tried(c) EXCEPT !.broken = cl[c].broken \cup {cl[c].on}]]
        BY <3>2, <4>1 DEF ForwardLost
      <4> QED
        BY <4>2, <4>3
    <3> QED
      BY <3>1, <3>2
  <2>4. PICK b \in SUBSET Replica :
          /\ cl' = [cl EXCEPT ![c] = [Tried(c) EXCEPT !.broken = b]]
          /\ (b = cl[c].broken /\ cl[c].on = NoValue) \/ b = cl[c].broken \cup {cl[c].on}
    BY <2>3
  <2>5. PICK call : call = [Tried(c) EXCEPT !.broken = b]
    OBVIOUS
  <2>6. /\ GoodCall(call) /\ call.next = cl[c].next + 1 /\ call.on = NoValue /\ call.broken = b
        /\ call.at = cl[c].at /\ call.pc \in {"put", "failed"}
    <3>1. TriedNext(c, b, call)
      BY <2>5 DEF TriedNext
    <3> QED
      BY <2>1, <2>2, <3>1, <1>TriedFields
  <2>7. Chain(call, co[c])
    <3>1. cl[c].next \in Nat /\ DOMAIN Pref \subseteq Nat /\ NoValue \notin Replica
      BY <2>1, QuorumAssumption, ReplicaFacts, SMT DEF Call
    <3>2. \A i \in DOMAIN Pref : i > call.next \/ i = call.next => i > cl[c].next
      BY <2>6, <3>1, SMT
    <3>3. \A i \in DOMAIN Pref : i > cl[c].next => co[c][Pref[i]].pc = "none"
      BY <2>1, <2>2 DEF Chain
    <3>4. \A n \in Replica : co[c][n].pc # "none" => n \in b
      BY <2>1, <2>4, <3>1 DEF Chain
    <3> QED
      BY <2>6, <3>2, <3>3, <3>4 DEF Chain
  <2> QED
    BY <2>2, <2>4, <2>5, <2>6, <2>7, <1>ClientUpholds
<1>ForwardSendUpholds.
  ASSUME NEW c \in Client, ForwardSend(c)
  PROVE  Upheld'
  <2> USE <1>ForwardSendUpholds
  <2>1. GoodCall(cl[c]) /\ cl[c] \in Call /\ Chain(cl[c], co[c]) /\ List(cl[c].merged)
    BY ChainFacts DEF Upheld, TypesInv, GoodCall
  <2>2. PICK old, n, call : old = cl[c] /\ n = Pref[old.next] /\ call = [old EXCEPT !.on = n]
    OBVIOUS
  <2>3. /\ old.pc = "put" /\ old.at \in Front /\ old.on = NoValue /\ co' = Reading(c, n)
        /\ UNCHANGED <<storeVars, hints, net, past, undone, nodeVars>>
    BY <2>2 DEF ForwardSend, Forwarding
  <2>4. cl' = [cl EXCEPT ![c] = call]
    BY <2>2 DEF ForwardSend, Upheld, TypesInv, CallInv
  <2>5. old.next \in DOMAIN Pref /\ n \in Replica /\ DOMAIN Pref \subseteq Nat /\ n # NoValue
    <3>1. old.next \in 1..Total
      BY <2>1, <2>2, <2>3, ReplicaFacts, SMT DEF GoodCall, Call
    <3> QED
      BY <2>2, <3>1, QuorumAssumption, SMT DEF Total
  <2>6. /\ call \in Call /\ call.pc = "put" /\ call.at = old.at /\ call.merged = old.merged
        /\ call.next = old.next /\ call.on = n /\ call.broken = old.broken
    <3>1. /\ call.pc = "put" /\ call.at = old.at /\ call.merged = old.merged
          /\ call.next = old.next /\ call.on = n /\ call.broken = old.broken
      BY <2>1, <2>2, <2>3 DEF Call
    <3>2. call \in Call
      BY <2>1, <2>2, <2>5 DEF Call
    <3> QED
      BY <3>1, <3>2
  <2>7. GoodCall(call)
    BY <2>1, <2>2, <2>3, <2>6 DEF GoodCall
  <2>8. Begins(c, n)
    <3>1. co[c][Pref[old.next]].pc = "none"
      BY <2>1, <2>2, <2>3, <2>5 DEF Chain
    <3> QED
      BY <2>2, <2>3, <3>1 DEF Begins
  <2>9. \A m \in Replica : m # n => co'[c][m] = co[c][m]
    BY <2>3 DEF Reading, Upheld, TypesInv, CoInv
  <2>10. Chain(call, co'[c])
    <3>1. ASSUME NEW i \in DOMAIN Pref, i > call.next PROVE co'[c][Pref[i]].pc = "none"
      <4>1. Pref[i] # n /\ Pref[i] \in Replica
        BY <2>2, <2>5, <2>6, <3>1, QuorumAssumption, SMT
      <4>2. co[c][Pref[i]].pc = "none"
        BY <2>1, <2>2, <2>3, <2>6, <3>1, SMT DEF Chain
      <4> QED
        BY <2>9, <4>1, <4>2
    <3>2. ASSUME NEW m \in Replica, co'[c][m].pc # "none" PROVE m \in call.broken \cup {call.on}
      <4>1. m = n \/ m \in old.broken \cup {old.on}
        BY <2>1, <2>2, <2>9, <3>2 DEF Chain
      <4>2. m # NoValue
        BY QuorumAssumption
      <4> QED
        BY <2>3, <2>6, <4>1, <4>2
    <3> QED
      BY <2>5, <2>6, <3>1, <3>2 DEF Chain
  <2> QED
    BY <2>3, <2>4, <2>5, <2>7, <2>8, <2>10, <1>ClientUpholds
<1>ForwardReturnUpholds.
  ASSUME NEW c \in Client, ForwardReturn(c)
  PROVE  Upheld'
  <2> USE <1>ForwardReturnUpholds
  <2>1. PICK pc \in {"ok", "failed"} : cl' = [cl EXCEPT ![c].pc = pc]
    BY DEF ForwardReturn
  <2>2. cl[c].pc = "put" /\ UNCHANGED <<storeVars, hints, co, net, past, undone, nodeVars>>
    BY DEF ForwardReturn, Forwarding
  <2>3. PICK old, new : old = cl[c] /\ new = [old EXCEPT !.pc = pc]
    OBVIOUS
  <2>4. old \in Call /\ new \in Call /\ cl' = [cl EXCEPT ![c] = new]
    BY <2>1, <2>3, EndedCall DEF Upheld, TypesInv, CallInv
  <2>5. Ended(old, new)
    BY <2>2, <2>3 DEF Ended
  <2>6. ClEnds
    BY <2>3, <2>4, <2>5 DEF ClEnds, Upheld, TypesInv, CallInv
  <2>7. StoreInv' /\ Kept
    BY <2>2, StoreSame DEF Upheld, TypesInv
  <2>8. CoKept /\ HeldInv'
    BY <2>2, <2>7, RecordsSame DEF Upheld, TypesInv
  <2>9. NodeInv' /\ PastInv' /\ NetInv' /\ RepairInv'
    BY <2>2, NodesSame, PastSame, RepairSame DEF Upheld, TypesInv, NetInv
  <2> QED
    BY <2>2, <2>6, <2>7, <2>8, <2>9, Concluded
<1>1. PICK c \in Client :
        \/ \E n \in Replica \cup Front : GetBegin(c, n) \/ PutBegin(c, n)
        \/ \E p \in Replica : GetResponse(c, p) \/ GetFailure(c, p)
        \/ ForwardSkip(c) \/ ForwardSend(c) \/ ForwardReturn(c) \/ ForwardLost(c)
  BY DEF ClientStep
<1> QED
  BY <1>1, <1>GetUpholds, <1>PutBeginUpholds, <1>ForwardOnUpholds, <1>ForwardSendUpholds, <1>ForwardReturnUpholds

-----------------------------------------------------------------------------
(***************************************************************************)
(* The repair loops' steps, and calls that arrive late.  Such a step puts  *)
(* one version at most, and leaves the records alone.                      *)
(***************************************************************************)
LEMMA QuietUpholds ==
  ASSUME Upheld, RepairInv', NodeInv', UNCHANGED <<storeVars, hints, coordVars>>
  PROVE  Upheld'
<1>1. UNCHANGED <<storeVars, hints, cl, co, net, past, undone>>
  BY DEF coordVars
<1>2. StoreInv' /\ Kept
  BY <1>1, StoreSame DEF Upheld, TypesInv
<1>3. CoKept /\ HeldInv'
  BY <1>1, <1>2, RecordsSame DEF Upheld, TypesInv
<1>4. PastInv' /\ NetInv' /\ ClEnds
  BY <1>1, PastSame, ClSame DEF Upheld, TypesInv, NetInv
<1> QED
  BY <1>1, <1>2, <1>3, <1>4, Concluded

LEMMA MergeUpholds ==
  ASSUME FiniteFacts,
         Upheld, RepairInv', NodeInv', NetInv', NEW n \in Replica, NEW x \in Item, PersisterPut(n, x),
         UNCHANGED <<flushed, inc, hints, cl, co, past, undone>>
  PROVE  Upheld'
<1>1. StoreInv' /\ Kept
  BY StorePut DEF Upheld, TypesInv
<1>2. CoKept /\ HeldInv'
  BY <1>1, RecordsSame DEF Upheld, TypesInv
<1>3. PastInv' /\ ClEnds
  BY PastSame, ClSame DEF Upheld, TypesInv
<1> QED
  BY <1>1, <1>2, <1>3, Concluded

LEMMA ArrivesUpholds ==
  ASSUME FiniteFacts, Upheld, UNCHANGED repairVars, NEW m \in net, Arrives(m)
  PROVE  Upheld'
<1>1. /\ PersisterPut(m.to, m.item) /\ net' = net \ {m}
      /\ UNCHANGED <<flushed, inc, hints, cl, co, past, undone, nodeVars>>
  BY DEF Arrives, MergeReplicated
<1>2. m.to \in Replica /\ m.item \in Item
  BY DEF Upheld, TypesInv, NetInv
<1>3. RepairInv' /\ NodeInv' /\ NetInv'
  BY <1>1, RepairSame, NodesSame DEF Upheld, TypesInv, NetInv
<1> QED
  BY <1>1, <1>2, <1>3, MergeUpholds

\* One delivery, or one reconciliation, is rewritten.
GoodDelivery(d) == d \in Delivery /\ (d.pc = "send" => d.to \in Replica) /\ IsFiniteSet(d.items)
GoodReconciliation(r) == r \in Reconciliation /\ (r.pc # "idle" => r.peer \in Replica)

LEMMA NoRepairFacts ==
  ASSUME FiniteFacts
  PROVE  GoodDelivery(NoDelivery) /\ GoodReconciliation(NoReconcile)
BY DEF FiniteFacts, GoodDelivery, GoodReconciliation, NoDelivery, NoReconcile, Delivery, Reconciliation

LEMMA MarkerType ==
  ASSUME FiniteFacts, NEW S \in SUBSET Item, IsFiniteSet(S)
  PROVE  Marker(S) \in Version /\ Marker(S).val = NoValue /\ isMarker(Marker(S))
<1>0. PICK u, k : u = UnionVectorClock(S) /\ k = [u EXCEPT ![Delivered] = 1]
  OBVIOUS
<1>1. u \in Clock
  BY <1>0, ItemFacts, UnionType
<1>2. k \in Clock /\ k[Delivered] = 1
  BY <1>0, <1>1, DeliveredAssumption DEF Clock
<1>3. Marker(S) = [clock |-> k, val |-> NoValue]
  BY <1>0 DEF Marker
<1> QED
  BY <1>2, <1>3, DeliveredAssumption, SMT DEF Version, isMarker

LEMMA RepairUpholds ==
  ASSUME FiniteFacts, Upheld, RepairStep
  PROVE  Upheld'
<1>RepairRewritten.
  ASSUME RepairInv, NEW n \in Replica,
         \/ ae' = ae /\ \E d : GoodDelivery(d) /\ hd' = [hd EXCEPT ![n] = d]
         \/ hd' = hd /\ \E r : GoodReconciliation(r) /\ ae' = [ae EXCEPT ![n] = r]
  PROVE  RepairInv'
  BY <1>RepairRewritten, SMT DEF RepairInv, GoodDelivery, GoodReconciliation
<1>RepairFacts.
  ASSUME RepairInv, NEW n \in Replica
  PROVE  GoodDelivery(hd[n]) /\ GoodReconciliation(ae[n])
  BY <1>RepairFacts DEF RepairInv, GoodDelivery, GoodReconciliation
<1>HintSendUpholds.
  ASSUME NEW n \in Replica, NEW t \in Peers(n), HintSend(n, t)
  PROVE  Upheld'
  <2> USE <1>HintSendUpholds
  <2>0. PICK S, d : S = Pending(n, t) /\ d = [pc |-> "send", to |-> t, items |-> S, todo |-> S]
    OBVIOUS
  <2>1. /\ hd' = [hd EXCEPT ![n] = d] /\ ae' = ae
        /\ UNCHANGED <<storeVars, hints, nodeVars, coordVars>> /\ t \in Replica
    BY <2>0 DEF HintSend, Peers
  <2>2. S \subseteq Item /\ IsFiniteSet(S)
    <3>1. S \subseteq hints[n][t] /\ \A x \in S : ~isMarker(x)
      BY <2>0 DEF Pending
    <3>2. IsFiniteSet(hints[n][t]) /\ \A x \in hints[n][t] : isMarker(x) \/ x \in Item
      BY <2>1 DEF Upheld, HintInv
    <3> QED
      BY <3>1, <3>2 DEF FiniteFacts, OfSubsets
  <2>3. GoodDelivery(d)
    BY <2>0, <2>1, <2>2 DEF GoodDelivery, Delivery
  <2>4. RepairInv'
    BY <2>1, <2>3, <1>RepairRewritten DEF Upheld, TypesInv
  <2>5. NodeInv'
    BY <2>1, NodesSame DEF Upheld, TypesInv
  <2> QED
    BY <2>1, <2>4, <2>5, QuietUpholds
<1>HintMergeUpholds.
  ASSUME NEW n \in Replica, HintMerge(n)
  PROVE  Upheld'
  <2> USE <1>HintMergeUpholds
  <2>1. PICK x \in hd[n].todo : PersisterPut(hd[n].to, x) /\ hd' = [hd EXCEPT ![n].todo = @ \ {x}]
    BY DEF HintMerge, MergeReplicated
  <2>0. PICK d : d = [hd[n] EXCEPT !.todo = @ \ {x}]
    OBVIOUS
  <2>2. hd[n].pc = "send" /\ UNCHANGED <<flushed, inc, hints, nodeVars, coordVars, ae>>
    BY DEF HintMerge
  <2>3. GoodDelivery(hd[n])
    BY <1>RepairFacts DEF Upheld, TypesInv
  <2>4. hd[n].to \in Replica /\ x \in Item /\ GoodDelivery(d)
    BY <2>0, <2>1, <2>2, <2>3 DEF GoodDelivery, Delivery
  <2>5. hd' = [hd EXCEPT ![n] = d]
    BY <2>0, <2>1
  <2>6. RepairInv'
    BY <2>2, <2>4, <2>5, <1>RepairRewritten DEF Upheld, TypesInv
  <2>7. NodeInv' /\ NetInv'
    BY <2>2, NodesSame DEF Upheld, TypesInv, NetInv, coordVars
  <2>8. UNCHANGED <<flushed, inc, hints, cl, co, past, undone>>
    BY <2>2 DEF coordVars
  <2> QED
    BY <2>1, <2>4, <2>6, <2>7, <2>8, MergeUpholds
<1>HintEndsUpholds.
  ASSUME NEW n \in Replica, HintMark(n) \/ HintFails(n)
  PROVE  Upheld'
  <2> USE <1>HintEndsUpholds
  <2>1. /\ hd[n].pc = "send" /\ hd' = [hd EXCEPT ![n] = NoDelivery]
        /\ UNCHANGED <<storeVars, nodeVars, coordVars, ae>>
        /\ UNCHANGED hints \/ MarkDelivered(n, hd[n].to, hd[n].items)
    BY DEF HintMark, HintFails
  <2>2. RepairInv'
    BY <2>1, NoRepairFacts, <1>RepairRewritten DEF Upheld, TypesInv
  <2>3. NodeInv'
    BY <2>1, NodesSame DEF Upheld, TypesInv
  <2>4. CASE UNCHANGED hints
    BY <2>1, <2>2, <2>3, <2>4, QuietUpholds
  <2>5. CASE MarkDelivered(n, hd[n].to, hd[n].items)
    <3>0. PICK x, p : x = Marker(hd[n].items) /\ p = hd[n].to
      OBVIOUS
    <3>1. hd[n].items \in SUBSET Item /\ IsFiniteSet(hd[n].items) /\ p \in Replica
      BY <2>1, <3>0, <1>RepairFacts DEF Upheld, TypesInv, GoodDelivery, Delivery
    <3>2. x \in Version /\ MayHint(n, x)
      BY <3>0, <3>1, MarkerType DEF MayHint
    <3>3. hints' = [hints EXCEPT ![n][p] = Resolve(@, x)]
      BY <2>5, <3>0 DEF MarkDelivered, enginePut
    <3>4. UNCHANGED <<storeVars, cl, co, net, past, undone>>
      BY <2>1 DEF coordVars
    <3>5. StoreInv' /\ Kept
      BY <3>4, StoreSame DEF Upheld, TypesInv
    <3>6. CoKept /\ HeldInv'
      BY <3>4, <3>5, RecordsSame DEF Upheld, TypesInv
    <3>7. HintInv'
      BY <3>1, <3>2, <3>3, <3>6, HintPut DEF Upheld
    <3>8. PastInv' /\ NetInv' /\ ClEnds
      BY <3>4, PastSame, ClSame DEF Upheld, TypesInv, NetInv
    <3>9. CallInv' /\ CoInv' /\ ChainInv'
      BY <3>6, <3>8, CallsKept DEF Upheld, TypesInv
    <3> QED
      BY <2>2, <2>3, <3>5, <3>6, <3>7, <3>8, <3>9 DEF Upheld, TypesInv
  <2> QED
    BY <2>1, <2>4, <2>5
\* A reconciliation that reads, goes on or ends, and stores nothing.
<1>ReconcileUpholds.
  ASSUME NEW n \in Replica,
         \/ \E p \in Peers(n) : ReconcileBegin(n, p)
         \/ ReconcileFetch(n) \/ ReconcilePush(n) \/ ReconcileFails(n)
  PROVE  Upheld'
  <2> USE <1>ReconcileUpholds
  <2>1. UNCHANGED <<storeVars, hints, nodeVars, coordVars, hd>>
    BY DEF ReconcileBegin, ReconcileFetch, ReconcilePush, ReconcileFails
  <2>2. GoodReconciliation(ae[n]) /\ GoodReconciliation(NoReconcile)
    BY <1>RepairFacts, NoRepairFacts DEF Upheld, TypesInv
  <2>3. \A a, b : missingFrom(a, b) \subseteq b
    BY DEF missingFrom
  <2>4. \E r : GoodReconciliation(r) /\ ae' = [ae EXCEPT ![n] = r]
    <3>1. ASSUME NEW p \in Peers(n), ReconcileBegin(n, p)
          PROVE  \E r : GoodReconciliation(r) /\ ae' = [ae EXCEPT ![n] = r]
      <4>1. PICK S : S = Get(n) /\ S \in SUBSET Item
        BY GetList DEF Upheld, TypesInv
      <4>2. PICK r : r = [NoReconcile EXCEPT !.pc = "fetch", !.peer = p, !.local = S]
        OBVIOUS
      <4>3. GoodReconciliation(r)
        BY <4>1, <4>2 DEF GoodReconciliation, Reconciliation, NoReconcile, Peers
      <4>4. ae' = [ae EXCEPT ![n] = r]
        BY <3>1, <4>1, <4>2 DEF ReconcileBegin
      <4> QED
        BY <4>3, <4>4
    <3>2. CASE ReconcileFetch(n)
      <4>0. ae[n].pc = "fetch" /\ ae[n].peer \in Replica
        BY <2>2, <3>2 DEF ReconcileFetch, GoodReconciliation
      <4>1. PICK S, T : S = Get(ae[n].peer) /\ S \in SUBSET Item /\ T = missingFrom(ae[n].local, S)
        BY <4>0, GetList DEF Upheld, TypesInv
      <4>2. PICK r : r = [ae[n] EXCEPT !.pc = "pull", !.remote = S, !.todo = T]
        OBVIOUS
      <4>3. GoodReconciliation(r)
        BY <2>2, <2>3, <4>0, <4>1, <4>2 DEF GoodReconciliation, Reconciliation
      <4>4. ae' = [ae EXCEPT ![n] = r]
        BY <3>2, <4>1, <4>2 DEF ReconcileFetch
      <4> QED
        BY <4>3, <4>4
    <3>3. CASE ReconcilePush(n)
      <4>1. PICK T : T = missingFrom(ae[n].remote, ae[n].local)
        OBVIOUS
      <4>2. PICK r : r = [ae[n] EXCEPT !.pc = "push", !.todo = T]
        OBVIOUS
      <4>3. ae[n].pc = "pull"
        BY <3>3 DEF ReconcilePush
      <4>4. GoodReconciliation(r)
        BY <2>2, <2>3, <4>1, <4>2, <4>3 DEF GoodReconciliation, Reconciliation
      <4>5. ae' = [ae EXCEPT ![n] = IF T = {} THEN NoReconcile ELSE r]
        BY <3>3, <4>1, <4>2 DEF ReconcilePush
      <4> QED
        BY <2>2, <4>4, <4>5
    <3>4. CASE ReconcileFails(n)
      BY <2>2, <3>4 DEF ReconcileFails
    <3> QED
      BY <3>1, <3>2, <3>3, <3>4
  <2>5. RepairInv'
    BY <2>1, <2>4, <1>RepairRewritten DEF Upheld, TypesInv
  <2>6. NodeInv'
    BY <2>1, NodesSame DEF Upheld, TypesInv
  <2> QED
    BY <2>1, <2>5, <2>6, QuietUpholds
\* A reconciliation that stores a version, here or at the peer.
<1>ReconcileMergeUpholds.
  ASSUME NEW n \in Replica, ReconcilePull(n) \/ ReconcileMerge(n)
  PROVE  Upheld'
  <2> USE <1>ReconcileMergeUpholds
  <2>1. UNCHANGED <<flushed, inc, hints, nodeVars, coordVars, hd>> /\ ae[n].pc # "idle"
    BY DEF ReconcilePull, ReconcileMerge
  <2>2. GoodReconciliation(ae[n]) /\ GoodReconciliation(NoReconcile)
    BY <1>RepairFacts, NoRepairFacts DEF Upheld, TypesInv
  <2>3. PICK p \in {n, ae[n].peer}, x \in ae[n].todo :
          /\ PersisterPut(p, x)
          /\ \/ ae' = [ae EXCEPT ![n] = NoReconcile]
             \/ ae' = [ae EXCEPT ![n] = [ae[n] EXCEPT !.todo = @ \ {x}]]
    BY DEF ReconcilePull, ReconcileMerge, MergeReplicated
  <2>4. PICK r : r = [ae[n] EXCEPT !.todo = @ \ {x}]
    OBVIOUS
  <2>5. p \in Replica /\ x \in Item /\ GoodReconciliation(r)
    BY <2>1, <2>2, <2>3, <2>4 DEF GoodReconciliation, Reconciliation
  <2>6. ae' = [ae EXCEPT ![n] = NoReconcile] \/ ae' = [ae EXCEPT ![n] = r]
    BY <2>3, <2>4
  <2>7. RepairInv'
    BY <2>1, <2>2, <2>5, <2>6, <1>RepairRewritten DEF Upheld, TypesInv
  <2>8. NodeInv' /\ NetInv'
    BY <2>1, NodesSame DEF Upheld, TypesInv, NetInv, coordVars
  <2>9. UNCHANGED <<flushed, inc, hints, cl, co, past, undone>>
    BY <2>1 DEF coordVars
  <2> QED
    BY <2>3, <2>5, <2>7, <2>8, <2>9, MergeUpholds
<1> QED
  BY <1>HintSendUpholds, <1>HintMergeUpholds, <1>HintEndsUpholds, <1>ReconcileUpholds, <1>ReconcileMergeUpholds DEF RepairStep

-----------------------------------------------------------------------------
(***************************************************************************)
(* The nodes' steps.                                                       *)
(***************************************************************************)
LEMMA NodeUpholds ==
  ASSUME FiniteFacts, Upheld, UNCHANGED repairVars, NodeStep
  PROVE  Upheld'
<1>StoreFlush.
  ASSUME StoreInv, NEW n \in Replica, Flush(n), UNCHANGED undone
  PROVE  StoreInv' /\ Kept
  <2> USE <1>StoreFlush
  <2>1. /\ active' = [active EXCEPT ![n] = {}] /\ flushed' = [flushed EXCEPT ![n] = Get(n)]
        /\ inc' = inc /\ List(Get(n)) /\ Get(n) \in SUBSET Item
    BY GetList DEF Flush
  <2>2. StoreInv'
    BY <2>1, EmptyList DEF StoreInv
  <2>3. ASSUME NEW p \in Replica PROVE Get(p)' = Get(p)
    <3>1. CASE p = n
      <4>1. active'[p] = {} /\ flushed'[p] = Get(p)
        BY <2>1, <3>1 DEF StoreInv
      <4> QED
        BY <4>1 DEF Get, MergeSiblings
    <3>2. CASE p # n
      BY <2>1, <3>2 DEF Get, StoreInv
    <3> QED
      BY <3>1, <3>2
  <2> QED
    BY <2>1, <2>2, <2>3 DEF Kept, Holds, HoldsNext
<1>StoreReplaced.
  ASSUME StoreInv, NEW n \in Replica, NewDataDir(n), inc[n] < MaxIncarnation, UNCHANGED undone
  PROVE  StoreInv' /\ Kept
  <2> USE <1>StoreReplaced
  <2>1. /\ active' = [active EXCEPT ![n] = {}] /\ flushed' = [flushed EXCEPT ![n] = {}]
        /\ inc' = [inc EXCEPT ![n] = @ + 1]
    BY DEF NewDataDir
  <2>2. StoreInv'
    <3>1. inc' \in [Replica -> 0..MaxIncarnation]
      BY <2>1, ClockIDsAssumption, SMT DEF StoreInv
    <3> QED
      BY <2>1, <3>1, EmptyList DEF StoreInv
  <2>3. ASSUME NEW p \in Replica, NEW y, Holds(p, y) PROVE HoldsNext(p, y)
    <3>1. CASE p = n
      BY <2>1, <3>1, SMT DEF Holds, HoldsNext, StoreInv
    <3>2. CASE p # n
      <4>1. Get(p)' = Get(p) /\ inc'[p] = inc[p]
        BY <2>1, <3>2 DEF Get, StoreInv
      <4> QED
        BY <2>3, <4>1 DEF Holds, HoldsNext
    <3> QED
      BY <3>1, <3>2
  <2> QED
    BY <2>2, <2>3 DEF Kept
<1>NodeStartUpholds.
  ASSUME NEW n \in Replica, Close(n) \/ Restart(n) \/ FlushStore(n)
  PROVE  Upheld'
  <2> USE <1>NodeStartUpholds
  <2>1. RepairInv'
    BY RepairSame DEF Upheld, TypesInv
  <2>2. UNCHANGED <<hints, cl, co, net, past, undone>>
    BY DEF Close, CloseBegin, Restart, FlushStore, coordVars
  <2>3. NodeInv'
    BY DEF Upheld, TypesInv, NodeInv, Close, CloseBegin, Restart, FlushStore
  <2>4. CASE UNCHANGED storeVars
    BY <2>1, <2>2, <2>3, <2>4, QuietUpholds DEF coordVars
  <2>5. NetInv' /\ PastInv' /\ ClEnds
    BY <2>2, PastSame, ClSame DEF Upheld, TypesInv, NetInv
  <2>6. ASSUME NEW x \in limbo[n], PersisterPut(n, x), UNCHANGED <<flushed, inc>>
        PROVE  Upheld'
    <3>1. x \in Item
      BY DEF Upheld, TypesInv, NodeInv
    <3> QED
      BY <2>1, <2>2, <2>3, <2>5, <2>6, <3>1, MergeUpholds
  <2>7. CASE FlushStore(n)
    <3>1. StoreInv' /\ Kept
      BY <2>2, <2>7, <1>StoreFlush DEF Upheld, TypesInv, FlushStore
    <3>2. CoKept /\ HeldInv'
      BY <2>2, <3>1, RecordsSame DEF Upheld, TypesInv
    <3> QED
      BY <2>1, <2>2, <2>3, <2>5, <3>1, <3>2, Concluded
  <2> QED
    BY <2>4, <2>6, <2>7 DEF Close, CloseBegin, Restart, SameDataDir
<1>ReplaceUpholds.
  ASSUME NEW n \in Replica, Replace(n)
  PROVE  Upheld'
  <2> USE <1>ReplaceUpholds
  <2>1. /\ NewDataDir(n) /\ inc[n] < MaxIncarnation /\ UNCHANGED <<cl, co, net, past, undone>>
        /\ hints' = [hints EXCEPT ![n] = [t \in Replica |-> {}]]
    BY DEF Replace, coordVars
  <2>2. NodeInv'
    BY DEF Upheld, TypesInv, NodeInv, Replace
  <2>3. StoreInv' /\ Kept
    BY <2>1, <1>StoreReplaced DEF Upheld, TypesInv
  <2>4. CoKept /\ HeldInv'
    BY <2>1, <2>3, RecordsSame DEF Upheld, TypesInv
  <2>5. RepairInv' /\ NetInv' /\ PastInv' /\ ClEnds
    BY <2>1, RepairSame, PastSame, ClSame DEF Upheld, TypesInv, NetInv
  <2>6. CallInv' /\ CoInv' /\ ChainInv'
    BY <2>4, <2>5, CallsKept DEF Upheld, TypesInv
  <2>7. HintInv'
    <3>1. /\ hints' \in [Replica -> [Replica -> SUBSET Version]]
          /\ \A m, p \in Replica : hints'[m][p] = hints[m][p] \/ hints'[m][p] = {}
      BY <2>1 DEF Upheld, HintInv
    <3>2. Siblings({}) /\ IsFiniteSet({})
      BY EmptyList DEF List, Items
    <3>3. ASSUME NEW m \in Replica, NEW p \in Replica
          PROVE  Siblings(hints'[m][p]) /\ IsFiniteSet(hints'[m][p]) /\ \A x \in hints'[m][p] : MayHint(m, x)
      <4>1. Siblings(hints[m][p]) /\ IsFiniteSet(hints[m][p]) /\ \A x \in hints[m][p] : MayHint(m, x)
        BY <2>4, HintsStillMay DEF Upheld, HintInv
      <4> QED
        BY <3>1, <3>2, <4>1
    <3> QED
      BY <3>1, <3>3 DEF HintInv, MayHint, isMarker, Siblings
  <2> QED
    BY <2>2, <2>3, <2>4, <2>5, <2>6, <2>7 DEF Upheld, TypesInv
<1> QED
  BY <1>NodeStartUpholds, <1>ReplaceUpholds DEF NodeStep

\* The record of a coordination whose node stops.
Stops(rec, new) ==
  \/ rec.pc = "none" /\ new = rec
  \/ /\ rec.pc # "none"
     /\ \E ans : /\ ans = IF rec.ans = "none" THEN "crashed" ELSE rec.ans
                 /\ EndsAs(Abandon(rec), "done", ans, new)

SoundStill(c, n, rec, new) ==
  /\ Sound(c, n, new) /\ new.item = rec.item /\ Owes(n, new) \subseteq Owes(n, rec)
  /\ new.pc = "none" <=> rec.pc = "none"
  /\ rec.ans # "none" => new.ans = rec.ans

LEMMA RecordStops ==
  ASSUME FiniteFacts, NEW c, NEW n \in Replica, NEW rec, Sound(c, n, rec), NEW new, Stops(rec, new)
  PROVE  SoundStill(c, n, rec, new)
<1>1. CASE rec.pc = "none"
  BY <1>1 DEF Stops, SoundStill
<1>2. CASE rec.pc # "none"
  <2>1. PICK ans : ans = (IF rec.ans = "none" THEN "crashed" ELSE rec.ans) /\ EndsAs(Abandon(rec), "done", ans, new)
    BY <1>2 DEF Stops
  <2>2. PICK keep \in BOOLEAN : TRUE
    OBVIOUS
  <2>3. PICK a : a = Abandon(rec)
    OBVIOUS
  <2>4. Leaves(n, rec, keep, a) /\ EndsAs(a, "done", ans, new)
    BY <2>1, <2>3 DEF Leaves
  <2>5. ans \in Answer /\ ans # "none"
    BY <2>1 DEF Sound, Coordination, Answer
  <2>6. MayEnd(rec, a, keep, "done", ans)
    BY <2>1, <2>3 DEF MayEnd
  <2>7. Ending(n, rec, keep, a, "done", ans, new)
    BY <2>4, <2>5, <2>6 DEF Ending
  <2>8. RightlyEnded(c, n, rec, "done", ans, new)
    BY <1>2, <2>7, RecordEnds
  <2> QED
    BY <1>2, <2>1, <2>8 DEF SoundStill, RightlyEnded
<1> QED
  BY <1>1, <1>2

\* All the records of a node stop at once.
StopsAt(n) ==
  /\ co' \in [Client -> [Replica -> Coordination]]
  /\ \A c \in Client : /\ Stops(co[c][n], co'[c][n])
                      /\ \A m \in Replica : m # n => co'[c][m] = co[c][m]

LEMMA EndsUpholds ==
  ASSUME FiniteFacts, Upheld, NEW n \in Replica, Ends(n)
  PROVE  Upheld'
<1>RecordsStop.
  ASSUME CoInv, HeldInv, Kept, StopsAt(n)
  PROVE  CoKept /\ HeldInv'
  <2> USE <1>RecordsStop
  <2>1. ASSUME NEW c \in Client, NEW m \in Replica
        PROVE  /\ Sound(c, m, co'[c][m]) /\ co'[c][m].item = co[c][m].item
               /\ Owes(m, co'[c][m]) \subseteq Owes(m, co[c][m])
               /\ co'[c][m].pc = "none" <=> co[c][m].pc = "none"
               /\ co[c][m].ans # "none" => co'[c][m].ans = co[c][m].ans
    <3>1. Sound(c, m, co[c][m])
      BY DEF CoInv
    <3>2. CASE m = n
      <4>1. PICK rec, new : rec = co[c][n] /\ new = co'[c][n]
        OBVIOUS
      <4>2. Sound(c, n, rec) /\ Stops(rec, new)
        BY <3>1, <3>2, <4>1 DEF StopsAt
      <4>3. SoundStill(c, n, rec, new)
        BY <4>2, RecordStops
      <4> QED
        BY <3>2, <4>1, <4>3 DEF SoundStill
    <3>3. CASE m # n
      BY <3>1, <3>3 DEF StopsAt
    <3> QED
      BY <3>2, <3>3
  <2>2. CoKept
    BY <2>1 DEF CoKept, StopsAt
  <2>3. ASSUME NEW c \in Client, NEW m \in Replica, NEW p \in Owes(m, co'[c][m]) PROVE HoldsNext(p, co'[c][m].item)
    <3>1. PICK x : x = co[c][m].item
      OBVIOUS
    <3>2. Holds(p, x) /\ p \in Replica /\ x \in Written
      BY <2>1, <3>1, OwesFacts DEF HeldInv
    <3>3. HoldsNext(p, x)
      BY <3>2 DEF Kept
    <3> QED
      BY <2>1, <3>1, <3>3 DEF HoldsNext
  <2> QED
    BY <2>2, <2>3 DEF HeldInv, Owes, Holds, HoldsNext
<1>1. UNCHANGED <<storeVars, hints, past, undone, halted, limbo>> /\ up' = [up EXCEPT ![n] = "down"]
  BY DEF Ends, Stopped
<1>2. StoreInv' /\ Kept
  BY <1>1, StoreSame DEF Upheld, TypesInv
<1>3. NodeInv' /\ PastInv'
  BY <1>1, PastSame DEF Upheld, TypesInv, NodeInv
<1>4. RepairInv'
  BY NoRepairFacts DEF Ends, Upheld, TypesInv, RepairInv, GoodDelivery, GoodReconciliation
<1>5. ASSUME NEW c \in Client
      PROVE  /\ co'[c] \in [Replica -> Coordination] /\ Stops(co[c][n], co'[c][n])
             /\ \A m \in Replica : m # n => co'[c][m] = co[c][m]
  <2>1. PICK rec, ans, a, new :
          /\ rec = co[c][n] /\ ans = (IF rec.ans = "none" THEN "crashed" ELSE rec.ans)
          /\ a = Abandon(rec) /\ new = [a EXCEPT !.pc = "done", !.ans = ans]
    OBVIOUS
  <2>2. co'[c] = [co[c] EXCEPT ![n] = IF rec.pc = "none" THEN rec ELSE new]
    BY <2>1 DEF Ends, Stopped
  <2>3. co[c] \in [Replica -> Coordination] /\ Sound(c, n, rec)
    BY <2>1 DEF Upheld, TypesInv, CoInv
  <2>4. co'[c][n] = (IF rec.pc = "none" THEN rec ELSE new) /\ \A m \in Replica : m # n => co'[c][m] = co[c][m]
    BY <2>2, <2>3
  <2>5. Stops(rec, co'[c][n])
    BY <2>1, <2>4 DEF Stops, EndsAs
  <2>6. co'[c][n] \in Coordination
    <3>1. PICK q : q = co'[c][n]
      OBVIOUS
    <3>2. SoundStill(c, n, rec, q)
      BY <2>3, <2>5, <3>1, RecordStops
    <3> QED
      BY <3>1, <3>2 DEF SoundStill, Sound
  <2> QED
    BY <2>1, <2>2, <2>3, <2>4, <2>5, <2>6
<1>6. co' \in [Client -> [Replica -> Coordination]]
  <2>1. co' = [c \in Client |-> co'[c]]
    BY DEF Ends, Stopped
  <2> QED
    BY <1>5, <2>1
<1>7. CoKept /\ HeldInv'
  <2>1. StopsAt(n)
    BY <1>5, <1>6 DEF StopsAt
  <2> QED
    BY <1>2, <2>1, <1>RecordsStop DEF Upheld, TypesInv
<1>8. NetInv'
  <2>1. \A c \in Client : Calls(InFlight(co[c][n]))
    BY InFlightCalls DEF Upheld, TypesInv, CoInv
  <2>2. net' = net \cup UNION {InFlight(co[c][n]) : c \in Client}
    BY DEF Ends, Stopped
  <2> QED
    BY <2>1, <2>2 DEF Upheld, TypesInv, NetInv, Calls
<1>9. ClEnds
  <2>1. PICK failed : failed = "failed"
    OBVIOUS
  <2>2. cl' = [c \in Client |-> IF cl[c].at = n /\ cl[c].pc \in {"getting", "put"}
                                THEN [cl[c] EXCEPT !.pc = failed] ELSE cl[c]]
    BY <2>1 DEF Ends, Stopped
  <2>3. ASSUME NEW c \in Client PROVE cl'[c] \in Call /\ (cl'[c] = cl[c] \/ Ended(cl[c], cl'[c]))
    <3>1. cl[c] \in Call
      BY DEF Upheld, TypesInv, CallInv
    <3>2. CASE cl'[c] = cl[c]
      BY <3>1, <3>2
    <3>3. CASE cl[c].pc \in {"getting", "put"} /\ cl'[c] = [cl[c] EXCEPT !.pc = failed]
      BY <2>1, <3>1, <3>3, EndedCall DEF Ended
    <3> QED
      BY <2>2, <3>2, <3>3
  <2>4. cl' = [c \in Client |-> cl'[c]]
    BY <2>2
  <2> QED
    BY <2>3, <2>4 DEF ClEnds
<1> QED
  BY <1>1, <1>2, <1>3, <1>4, <1>7, <1>8, <1>9, Concluded

-----------------------------------------------------------------------------
LEMMA InitUpholds ==
  ASSUME FiniteFacts, Init
  PROVE  IReplication
<1>1. /\ env \in DOMAIN Scenarios /\ StoreInit /\ HintsInit
      /\ up = [n \in Replica |-> "up"] /\ halted = {} /\ limbo = [n \in Replica |-> {}]
      /\ cl = [c \in Client |-> NoCall] /\ co = [c \in Client |-> [n \in Replica |-> NoCoordination]]
      /\ net = {} /\ past = [c \in Client |-> {}]
      /\ hd = [n \in Replica |-> NoDelivery] /\ ae = [n \in Replica |-> NoReconcile]
  BY DEF Init, ReplicationInit
<1>2. StoreInv
  BY <1>1, EmptyList, ClockIDsAssumption, SMT DEF StoreInit, StoreInv
<1>3. NodeInv /\ NetInv /\ PastInv
  BY <1>1 DEF NodeInv, NetInv, PastInv
<1>4. RepairInv
  BY <1>1, NoRepairFacts DEF RepairInv, GoodDelivery, GoodReconciliation
<1>5. NoCall \in Call /\ NoCall.merged = {} /\ NoCall.pc = "idle" /\ NoCall.next = 1 /\ NoCall.on = NoValue
  BY ReplicaFacts, SMT DEF NoCall, Call, CallPC
<1>6. CallInv
  BY <1>1, <1>5, EmptyList DEF CallInv
<1>7. /\ NoCoordination \in Coordination /\ NoCoordination.pc = "none" /\ NoCoordination.prev = {}
      /\ NoCoordination.item = NoVersion /\ NoCoordination.keep = FALSE /\ NoCoordination.ans = "none"
      /\ \A p \in Replica : NoCoordination.res[p] = "none"
  BY DEF NoCoordination, Coordination, CoPC, Answer, Outcome
<1>8. \A c \in Client, n \in Replica : Sound(c, n, NoCoordination)
  BY <1>7, EmptyList, ItemFacts DEF Sound
<1>9. CoInv
  BY <1>1, <1>7, <1>8 DEF CoInv
<1>10. HeldInv
  BY <1>1, <1>7 DEF HeldInv, Owes
<1>11. HintInv
  BY <1>1, EmptyList DEF HintsInit, HintInv, List, Items
<1>12. ChainInv
  BY <1>1, <1>5, <1>7 DEF ChainInv, Forwarding
<1> QED
  BY <1>1, <1>2, <1>3, <1>4, <1>6, <1>9, <1>10, <1>11, <1>12 DEF IReplication, TypesInv

LEMMA NextUpholds ==
  ASSUME FiniteFacts, IReplication, [Next]_vars
  PROVE  IReplication'
<1>1. Upheld
  BY DEF IReplication, Upheld
<1>2. UNCHANGED env
  BY DEF Next, vars
<1>3. Upheld'
  <2>1. CASE UNCHANGED vars
    <3>1. UNCHANGED <<storeVars, hints, nodeVars, coordVars, repairVars>>
      BY <2>1 DEF vars
    <3>2. RepairInv' /\ NodeInv'
      BY <1>1, <3>1, RepairSame, NodesSame DEF Upheld, TypesInv
    <3> QED
      BY <1>1, <3>1, <3>2, QuietUpholds
  <2>2. CASE (ClientStep \/ CoordinatorStep \/ NodeStep \/ \E m \in net : Arrives(m)) /\ UNCHANGED <<env, repairVars>>
    BY <1>1, <2>2, ClientStepUpholds, CoordinatorUpholds, NodeUpholds, ArrivesUpholds
  <2>3. CASE RepairStep
    BY <1>1, <2>3, RepairUpholds
  <2>4. CASE \E n \in Replica : Crash(n) \/ CloseEnd(n)
    BY <1>1, <2>4, EndsUpholds DEF Crash, CloseEnd
  <2> QED
    BY <2>1, <2>2, <2>3, <2>4 DEF Next
<1> QED
  BY <1>2, <1>3 DEF IReplication, Upheld

-----------------------------------------------------------------------------
(***************************************************************************)
(* What a step that is no rollback does to the records and the calls: a    *)
(* version once made and an answer once given stay, a read changes only by *)
(* its own steps, and a client is told ok by a coordinator that says so.   *)
(***************************************************************************)
Keeps(rec, new) ==
  (rec.item # NoVersion => new.item = rec.item) /\ (rec.ans # "none" => new.ans = rec.ans)
NoneHinted(rec, new) == \A p \in Replica : new.res[p] = "hinted" => rec.res[p] = "hinted"

RecordsKeep == \A c \in Client, n \in Replica : Keeps(co[c][n], co'[c][n])
NoNewHint == \A c \in Client, n \in Replica : NoneHinted(co[c][n], co'[c][n])

CallKeeps(call, new) ==
  /\ new.ctx = call.ctx /\ new.merged = call.merged
  /\ new.pc \in {"getting", "got"} => new.pc = call.pc /\ new.resp = call.resp /\ new.since = call.since
CallsKeep ==
  \A c \in Client : /\ CallKeeps(cl[c], cl'[c])
                    /\ cl'[c].pc = "ok" => cl[c].pc = "ok" \/ \E n \in Replica : co'[c][n].ans = "ok"

Calm(S) == RecordsKeep /\ CallsKeep /\ CallsIn(S)' /\ undone' = undone

\* One record is rewritten.
Revises(S, c, n, new) ==
  co' = [co EXCEPT ![c][n] = new] /\ Keeps(co[c][n], new) /\ new.item \in S \cup {NoVersion}

LEMMA OneRecord ==
  ASSUME CoInv, NEW S, CallsIn(S), NEW c \in Client, NEW n \in Replica, NEW new, Revises(S, c, n, new)
  PROVE  /\ RecordsKeep /\ (NoneHinted(co[c][n], new) => NoNewHint) /\ co'[c][n] = new
         /\ \A d \in Client, m \in Replica : co'[d][m].item \in S \cup {NoVersion}
<1>1. co'[c][n] = new /\ \A d \in Client, m \in Replica : d # c \/ m # n => co'[d][m] = co[d][m]
  BY DEF CoInv, Revises
<1>2. ASSUME NEW d \in Client, NEW m \in Replica
      PROVE  /\ Keeps(co[d][m], co'[d][m]) /\ co'[d][m].item \in S \cup {NoVersion}
             /\ NoneHinted(co[c][n], new) => NoneHinted(co[d][m], co'[d][m])
  <2>1. CASE d = c /\ m = n
    BY <1>1, <2>1 DEF Revises
  <2>2. CASE d # c \/ m # n
    BY <1>1, <2>2 DEF Keeps, NoneHinted, CallsIn
  <2> QED
    BY <2>1, <2>2
<1> QED
  BY <1>1, <1>2 DEF RecordsKeep, NoNewHint

LEMMA SameRecords ==
  ASSUME UNCHANGED co
  PROVE  RecordsKeep /\ NoNewHint
BY DEF RecordsKeep, NoNewHint, Keeps, NoneHinted

\* Calls that go on, or end.
LEMMA EndedKeeps ==
  ASSUME NEW old \in Call, NEW new, new = old \/ Ended(old, new)
  PROVE  CallKeeps(old, new)
<1>1. CASE new = old
  BY <1>1 DEF CallKeeps
<1>2. CASE Ended(old, new)
  <2>1. PICK pc \in {"ok", "failed"} : new = [old EXCEPT !.pc = pc]
    BY <1>2 DEF Ended
  <2>2. new.pc = pc /\ new.ctx = old.ctx /\ new.merged = old.merged
    BY <2>1 DEF Call
  <2> QED
    BY <2>2 DEF CallKeeps
<1> QED
  BY <1>1, <1>2

LEMMA ReturnKeeps ==
  ASSUME CallInv, NEW c \in Client, NEW n \in Replica, NEW ok \in BOOLEAN, Return(c, n, ok) \/ UNCHANGED cl,
         ok => co'[c][n].ans = "ok"
  PROVE  CallsKeep
<1>1. ClEnds
  BY ReturnEnds, ClSame
<1>2. ASSUME NEW d \in Client PROVE CallKeeps(cl[d], cl'[d])
  BY <1>1, EndedKeeps DEF ClEnds, CallInv
<1>3. ASSUME NEW d \in Client, cl'[d].pc = "ok", cl[d].pc # "ok" PROVE \E m \in Replica : co'[d][m].ans = "ok"
  <2>1. cl' = [cl EXCEPT ![c].pc = IF ok THEN "ok" ELSE "failed"]
    BY <1>3 DEF Return
  <2>2. \A e \in Client : e # c => cl'[e] = cl[e]
    BY <2>1 DEF CallInv
  <2>3. d = c
    BY <1>3, <2>2
  <2>4. cl[c] \in Call
    BY DEF CallInv
  <2>5. cl'[c].pc = IF ok THEN "ok" ELSE "failed"
    BY <2>1, <2>4 DEF CallInv, Call
  <2> QED
    BY <1>3, <2>3, <2>5
<1> QED
  BY <1>2, <1>3 DEF CallsKeep

LEMMA SameCalls ==
  ASSUME UNCHANGED cl
  PROVE  CallsKeep
BY DEF CallsKeep, CallKeeps

LEMMA InFlightIn ==
  ASSUME NEW S, NEW rec, rec.item \in S
  PROVE  \A m \in InFlight(rec) : m.item \in S
BY SMT DEF InFlight

\* What the drain is left with.
LEMMA LeftFields ==
  ASSUME NEW rec \in Coordination, NEW n, NEW d,
         d = Abandon(rec) \/ d = Decided(rec, TRUE, n) \/ d = Decided(rec, FALSE, n)
  PROVE  d \in Coordination /\ d.item = rec.item /\ NoneHinted(rec, d)
<1>1. CASE d = Abandon(rec)
  <2>1. d.item = rec.item /\ d.res = [p \in Replica |-> IF p \in Straggling(rec) THEN "error" ELSE rec.res[p]]
    BY <1>1 DEF Abandon, Coordination
  <2>2. d.res \in [Replica -> Outcome]
    BY <2>1 DEF Coordination, Outcome
  <2>3. d \in Coordination
    BY <1>1, <2>2 DEF Abandon, Coordination
  <2> QED
    BY <2>1, <2>3 DEF NoneHinted
<1>2. CASE d # Abandon(rec)
  <2>1. d = [rec EXCEPT !.keep = TRUE] \/ d = [rec EXCEPT !.keep = FALSE]
    BY <1>2 DEF Decided
  <2> QED
    BY <2>1 DEF Coordination, NoneHinted
<1> QED
  BY <1>1, <1>2

\* Decide, of a record in its fan-out.
LEMMA DecideKeeps ==
  ASSUME CallInv, CoInv, NEW c \in Client, NEW n \in Replica, NEW rec \in Coordination,
         rec.pc = "fan", rec.ans = "none", NEW late, Decide(c, n, rec, late)
  PROVE  /\ \E new : co' = [co EXCEPT ![c][n] = new] /\ new.item = rec.item /\ NoneHinted(rec, new)
         /\ CallsKeep
         /\ net' \subseteq net \cup late \cup InFlight(rec)
<1> DEFINE reached == 1 + Count(rec.res, {"ok"}) >= W
           missed  == /\ ~reached /\ Total - Count(rec.res, {"unavailable", "error"}) < W
                      /\ Straggling(rec) # Peers(n) \/ Peers(n) = {}
           next    == CASE reached -> [Decided(rec, TRUE, n) EXCEPT !.pc = "done", !.ans = "ok"]
                        [] missed  -> [Decided(rec, FALSE, n) EXCEPT !.pc = "rollback"]
                        [] OTHER   -> rec
<1>1. /\ co' = [co EXCEPT ![c][n] = next]
      /\ net' = net \cup late \cup IF next.pc # "fan" /\ up[n] = "closing" THEN InFlight(rec) ELSE {}
      /\ IF reached THEN Return(c, n, TRUE) ELSE UNCHANGED cl
  BY DEF Decide
<1>2. next.item = rec.item /\ NoneHinted(rec, next) /\ (reached => next.ans = "ok")
  <2>1. CASE reached
    <3>0. PICK d : d = Decided(rec, TRUE, n)
      OBVIOUS
    <3>1. next = [d EXCEPT !.pc = "done", !.ans = "ok"]
      BY <2>1, <3>0
    <3> HIDE DEF next, reached
    <3>3. d \in Coordination /\ d.item = rec.item /\ NoneHinted(rec, d)
      BY <3>0, LeftFields
    <3>4. next.item = d.item /\ next.res = d.res /\ next.ans = "ok"
      BY <3>1, <3>3 DEF Coordination
    <3> QED
      BY <3>3, <3>4 DEF NoneHinted
  <2>2. CASE missed
    <3>0. PICK d : d = Decided(rec, FALSE, n)
      OBVIOUS
    <3>1. next = [d EXCEPT !.pc = "rollback"]
      BY <2>2, <3>0
    <3>10. ~reached
      BY <2>2
    <3> HIDE DEF next, reached
    <3>3. d \in Coordination /\ d.item = rec.item /\ NoneHinted(rec, d)
      BY <3>0, LeftFields
    <3>4. next.item = d.item /\ next.res = d.res
      BY <3>1, <3>3 DEF Coordination
    <3> QED
      BY <3>3, <3>4, <3>10 DEF NoneHinted
  <2>3. CASE ~reached /\ ~missed
    <3>1. next = rec
      BY <2>3
    <3> QED
      BY <2>3, <3>1 DEF NoneHinted
  <2> QED
    BY <2>1, <2>2, <2>3
<1> HIDE DEF next
<1>3. co'[c][n] = next
  BY <1>1 DEF CoInv
<1>4. CallsKeep
  BY <1>1, <1>2, <1>3, ReturnKeeps, SameCalls
<1>5. net' \subseteq net \cup late \cup InFlight(rec)
  BY <1>1
<1> QED
  BY <1>1, <1>2, <1>4, <1>5

\* Result, whatever it is, of a call that was sent.
LEMMA ResultIsCalm ==
  ASSUME FiniteFacts,
         CallInv, CoInv, NEW S, CallsIn(S), NEW c \in Client, NEW n \in Replica, NEW p \in Replica, p # n,
         co[c][n].res[p] \in {"sent", "applied"}, NEW r \in Outcome \ {"none"}, r # "hinted",
         NEW late, \A m \in late : m.item \in S, Result(c, n, p, r, late), UNCHANGED undone
  PROVE  Calm(S) /\ NoNewHint
<1>0. PICK old : old = co[c][n]
  OBVIOUS
<1>1. PICK rec : rec = [old EXCEPT !.res[p] = r]
  OBVIOUS
<1>2. Sound(c, n, old) /\ old \in Coordination /\ old.item \in S \cup {NoVersion}
  BY <1>0, ZenonT(40) DEF CoInv, Sound, CallsIn
<1>3. old.item \in S
  <2>1. old.item \in Item
    BY <1>0, <1>2, SMT DEF Sound
  <2> QED
    BY <1>2, <2>1, ItemFacts
<1>4. /\ Sound(c, n, rec) /\ rec.pc = old.pc /\ rec.item = old.item /\ rec.ans = old.ans
      /\ \A q \in Replica : q # p => rec.res[q] = old.res[q]
  <2>1. Answered(old, p, r, rec)
    BY <1>1 DEF Answered
  <2>2. old.res[p] \in {"sent", "applied", "unavailable"}
    BY <1>0
  <2>3. /\ Sound(c, n, rec) /\ rec.pc = old.pc /\ rec.item = old.item /\ rec.keep = old.keep
        /\ rec.ans = old.ans /\ rec.pc \notin {"none", "read"} /\ rec.item \in Item
        /\ \A q \in Replica : q # p => rec.res[q] = old.res[q]
        /\ Owes(n, rec) \subseteq Owes(n, old) \cup {p}
        /\ r \notin {"applied", "ok"} \/ old.res[p] = "applied" => Owes(n, rec) \subseteq Owes(n, old)
    BY <1>2, <2>1, <2>2, RecordResult
  <2> QED
    BY <2>3
<1>5. rec \in Coordination /\ rec.res[p] = r
  BY <1>1, <1>2, <1>4 DEF Sound, Coordination
<1>6. NoneHinted(old, rec)
  BY <1>4, <1>5 DEF NoneHinted
<1>7. IF rec.pc = "fan" THEN Decide(c, n, rec, late)
      ELSE co' = [co EXCEPT ![c][n] = rec] /\ net' = net \cup late /\ UNCHANGED cl
  BY <1>0, <1>1 DEF Result
<1>8. CASE rec.pc = "fan"
  <2>1. rec.ans = "none"
    BY <1>4, <1>8 DEF Sound
  <2>2. /\ \E new : co' = [co EXCEPT ![c][n] = new] /\ new.item = rec.item /\ NoneHinted(rec, new)
        /\ CallsKeep
        /\ net' \subseteq net \cup late \cup InFlight(rec)
    BY <1>5, <1>7, <1>8, <2>1, DecideKeeps
  <2>3. PICK new : co' = [co EXCEPT ![c][n] = new] /\ new.item = rec.item /\ NoneHinted(rec, new)
    BY <2>2
  <2>4. Keeps(old, new) /\ NoneHinted(old, new) /\ new.item \in S
    BY <1>3, <1>4, <1>6, <2>1, <2>3 DEF Keeps, NoneHinted
  <2>5. /\ RecordsKeep /\ NoNewHint
        /\ \A d \in Client, m \in Replica : co'[d][m].item \in S \cup {NoVersion}
    <3>1. Revises(S, c, n, new)
      BY <1>0, <2>3, <2>4 DEF Revises
    <3>2. NoneHinted(co[c][n], new)
      BY <1>0, <2>3, <2>4
    <3> QED
      BY <3>1, <3>2, OneRecord
  <2>6. \A m \in net' : m.item \in S
    <3>1. \A m \in InFlight(rec) : m.item \in S
      BY <1>3, <1>4, InFlightIn
    <3> QED
      BY <2>2, <3>1 DEF CallsIn
  <2> QED
    BY <2>2, <2>5, <2>6 DEF Calm, CallsIn
<1>9. CASE rec.pc # "fan"
  <2>1. Keeps(old, rec) /\ rec.item \in S
    BY <1>3, <1>4 DEF Keeps
  <2>2. /\ RecordsKeep /\ NoNewHint
        /\ \A d \in Client, m \in Replica : co'[d][m].item \in S \cup {NoVersion}
    <3>1. Revises(S, c, n, rec)
      BY <1>0, <1>6, <1>7, <1>9, <2>1 DEF Revises
    <3>2. NoneHinted(co[c][n], rec)
      BY <1>0, <1>6, <1>7, <1>9, <2>1
    <3> QED
      BY <3>1, <3>2, OneRecord
  <2>3. CallsKeep /\ \A m \in net' : m.item \in S
    BY <1>7, <1>9, SameCalls DEF CallsIn
  <2> QED
    BY <2>2, <2>3 DEF Calm, CallsIn
<1> QED
  BY <1>8, <1>9

-----------------------------------------------------------------------------
(***************************************************************************)
(* Every step that is no rollback, and begins no write with a context, is  *)
(* calm, unless it is a step of a read.                                    *)
(***************************************************************************)
LEMMA SameIsCalm ==
  ASSUME NEW S, CallsIn(S), UNCHANGED <<cl, co, undone>>, net' \subseteq net
  PROVE  Calm(S) /\ NoNewHint
<1>1. CallsIn(S)'
  BY DEF CallsIn
<1> QED
  BY <1>1, SameRecords, SameCalls DEF Calm

LEMMA AnswerIsCalm ==
  ASSUME FiniteFacts,
         CallInv, CoInv, NEW S, CallsIn(S), NEW c \in Client, NEW n \in Replica, NEW p \in Peers(n),
         \/ Accepted(c, n, p) \/ Unavailable(c, n, p) \/ Refused(c, n, p) \/ Timeout(c, n, p)
         \/ Lost(c, n, p, "unavailable") \/ Lost(c, n, p, "error") \/ ReplicateHalts(c, n, p)
  PROVE  Calm(S) /\ NoNewHint
<1>1. p \in Replica /\ p # n
  BY DEF Peers
<1>2. UNCHANGED undone /\ co[c][n].res[p] \in {"sent", "applied"}
  BY DEF Accepted, Unavailable, Refused, Timeout, Lost, ReplicateHalts
<1>3. PICK r \in Outcome \ {"none"}, late \in {{}, {[to |-> p, item |-> co[c][n].item]}} :
        r # "hinted" /\ Result(c, n, p, r, late)
  BY DEF Accepted, Unavailable, Refused, Timeout, Lost, ReplicateHalts, Outcome
<1>4. co[c][n].item \in S
  <2>1. co[c][n].item \in Item
    BY <1>1, <1>2, SMT DEF CoInv, Sound
  <2> QED
    BY <2>1, ItemFacts DEF CallsIn
<1>5. \A m \in late : m.item \in S
  BY <1>4, SMT
<1> QED
  BY <1>1, <1>2, <1>3, <1>5, ResultIsCalm

LEMMA PutFailsIsCalm ==
  ASSUME CallInv, CoInv, NEW S, CallsIn(S), NEW c \in Client, NEW n \in Replica, PutFails(c, n) \/ PutHalts(c, n)
  PROVE  Calm(S) /\ NoNewHint
<1>0. PICK old, new : old = co[c][n] /\ new = [old EXCEPT !.pc = "done", !.ans = "storage"]
  OBVIOUS
<1>1. /\ old.pc = "read" /\ Return(c, n, FALSE) /\ UNCHANGED <<net, undone>>
      /\ co' = [co EXCEPT ![c][n].pc = "done", ![c][n].ans = "storage"]
  BY <1>0 DEF PutFails, PutHalts
<1>2. Sound(c, n, old) /\ old \in Coordination
  BY <1>0 DEF CoInv
<1>3. co' = [co EXCEPT ![c][n] = new]
  BY <1>0, <1>1, <1>2 DEF CoInv, Coordination
<1>4. new.item = NoVersion /\ old.item = NoVersion /\ old.ans = "none" /\ new.res = old.res
  BY <1>0, <1>1, <1>2 DEF Sound, Coordination
<1>5. Keeps(old, new) /\ NoneHinted(old, new)
  BY <1>4 DEF Keeps, NoneHinted
<1>6. RecordsKeep /\ NoNewHint /\ \A d \in Client, m \in Replica : co'[d][m].item \in S \cup {NoVersion}
  <2>1. Revises(S, c, n, new)
    BY <1>0, <1>3, <1>4, <1>5 DEF Revises
  <2>2. NoneHinted(co[c][n], new)
    BY <1>0, <1>3, <1>4, <1>5
  <2> QED
    BY <2>1, <2>2, OneRecord
<1>7. CallsKeep
  BY <1>1, ReturnKeeps
<1> QED
  BY <1>1, <1>6, <1>7 DEF Calm, CallsIn

LEMMA CancelIsCalm ==
  ASSUME CallInv, CoInv, NEW S, CallsIn(S), NEW c \in Client, NEW n \in Replica, Cancel(c, n)
  PROVE  Calm(S) /\ NoNewHint
<1>0. PICK rec, d, new :
        rec = co[c][n] /\ d = Decided(rec, TRUE, n) /\ new = [d EXCEPT !.pc = "done", !.ans = "canceled"]
  OBVIOUS
<1>1. /\ rec.pc = "fan" /\ co' = [co EXCEPT ![c][n] = new] /\ Return(c, n, FALSE) /\ UNCHANGED undone
      /\ net' \subseteq net \cup InFlight(rec)
  BY <1>0, ZenonT(40) DEF Cancel
<1>2. rec \in Coordination /\ rec.ans = "none" /\ rec.item \in Item /\ rec.item \in S \cup {NoVersion}
  <2>1. Sound(c, n, rec) /\ rec.item \in S \cup {NoVersion}
    BY <1>0 DEF CoInv, CallsIn
  <2> QED
    BY <1>1, <2>1 DEF Sound
<1>3. rec.item \in S
  BY <1>2, ItemFacts
<1>4. d \in Coordination /\ d.item = rec.item /\ NoneHinted(rec, d)
  BY <1>0, <1>2, LeftFields
<1>5. new.item = d.item /\ new.res = d.res
  BY <1>0, <1>4 DEF Coordination
<1>6. Keeps(rec, new) /\ NoneHinted(rec, new) /\ new.item \in S
  BY <1>2, <1>3, <1>4, <1>5 DEF Keeps, NoneHinted
<1>7. RecordsKeep /\ NoNewHint /\ \A e \in Client, m \in Replica : co'[e][m].item \in S \cup {NoVersion}
  <2>1. Revises(S, c, n, new)
    BY <1>0, <1>1, <1>6 DEF Revises
  <2>2. NoneHinted(co[c][n], new)
    BY <1>0, <1>1, <1>6
  <2> QED
    BY <2>1, <2>2, OneRecord
<1>8. CallsKeep
  BY <1>1, ReturnKeeps
<1>9. \A m \in InFlight(rec) : m.item \in S
  BY <1>3, InFlightIn
<1> QED
  BY <1>1, <1>7, <1>8, <1>9 DEF Calm, CallsIn

LEMMA PutStoreIsCalm ==
  ASSUME FiniteFacts,
         CallInv, CoInv, StoreInv, NEW S, CallsIn(S), NEW c \in Client, NEW n \in Replica, PutStore(c, n),
         NewVersion(n, cl[c].ctx, c) \in S
  PROVE  Calm(S) /\ NoNewHint
<1>0. PICK old, y, rec :
        /\ old = co[c][n] /\ y = NewVersion(n, cl[c].ctx, c)
        /\ rec = [old EXCEPT !.pc = "fan", !.item = y,
                             !.res = [p \in Replica |-> IF p = n THEN "none" ELSE "sent"]]
  OBVIOUS
<1>1. old.pc = "read" /\ Decide(c, n, rec, {}) /\ UNCHANGED undone
  BY <1>0 DEF PutStore
<1>2. /\ old \in Coordination /\ old.item = NoVersion /\ old.ans = "none" /\ y \in S
      /\ \A p \in Replica : old.res[p] = "none"
  <2>1. Sound(c, n, old)
    BY <1>0 DEF CoInv
  <2> QED
    BY <1>0, <1>1, <2>1 DEF Sound
<1>3. y \in Item
  <2>1. cl[c].ctx \in Clock \cup {NoContext}
    BY DEF CallInv, Call
  <2> QED
    BY <1>0, <2>1, NewVersionType
<1>4. /\ rec.pc = "fan" /\ rec.prev = old.prev /\ rec.item = y /\ rec.ans = "none"
      /\ rec.res = [p \in Replica |-> IF p = n THEN "none" ELSE "sent"]
  BY <1>0, <1>2 DEF Coordination
<1>5. rec.res \in [Replica -> Outcome] /\ \A p \in Replica : rec.res[p] \in {"none", "sent"}
  BY <1>4 DEF Outcome
<1>6. rec \in Coordination
  <2>1. "fan" \in CoPC
    BY DEF CoPC
  <2> QED
    BY <1>0, <1>2, <1>3, <1>5, <2>1 DEF Coordination
<1>7. /\ \E new : co' = [co EXCEPT ![c][n] = new] /\ new.item = rec.item /\ NoneHinted(rec, new)
      /\ CallsKeep
      /\ net' \subseteq net \cup {} \cup InFlight(rec)
  BY <1>1, <1>4, <1>6, DecideKeeps
<1>8. PICK new : co' = [co EXCEPT ![c][n] = new] /\ new.item = rec.item /\ NoneHinted(rec, new)
  BY <1>7
<1>9. Keeps(old, new) /\ NoneHinted(old, new) /\ new.item \in S
  <2>1. \A p \in Replica : rec.res[p] # "hinted"
    BY <1>5
  <2> QED
    BY <1>2, <1>4, <1>8, <2>1 DEF Keeps, NoneHinted
<1>10. RecordsKeep /\ NoNewHint /\ \A e \in Client, m \in Replica : co'[e][m].item \in S \cup {NoVersion}
  <2>1. Revises(S, c, n, new)
    BY <1>0, <1>8, <1>9 DEF Revises
  <2>2. NoneHinted(co[c][n], new)
    BY <1>0, <1>8, <1>9
  <2> QED
    BY <2>1, <2>2, OneRecord
<1>11. \A m \in InFlight(rec) : m.item \in S
  BY <1>2, <1>4, InFlightIn
<1> QED
  BY <1>1, <1>7, <1>10, <1>11 DEF Calm, CallsIn

LEMMA ReplicateIsCalm ==
  ASSUME CallInv, CoInv, NEW S, CallsIn(S), NEW c \in Client, NEW n \in Replica, NEW p \in Peers(n),
         NEW r \in {"applied", "hinted", "error"}, co' = [co EXCEPT ![c][n].res[p] = r], UNCHANGED <<cl, net, undone>>
  PROVE  Calm(S) /\ (r # "hinted" => NoNewHint)
<1>0. PICK old, new : old = co[c][n] /\ new = [old EXCEPT !.res[p] = r]
  OBVIOUS
<1>1. old \in Coordination /\ p \in Replica /\ old.item \in S \cup {NoVersion}
  BY <1>0 DEF CoInv, Peers, CallsIn
<1>2. co' = [co EXCEPT ![c][n] = new]
  BY <1>0 DEF CoInv
<1>3. new.item = old.item /\ new.ans = old.ans /\ new.res = [old.res EXCEPT ![p] = r]
  BY <1>0, <1>1 DEF Coordination
<1>4. \A q \in Replica : new.res[q] = old.res[q] \/ new.res[q] = r
  BY <1>1, <1>3 DEF Coordination
<1>5. Keeps(old, new) /\ (r # "hinted" => NoneHinted(old, new))
  BY <1>3, <1>4 DEF Keeps, NoneHinted
<1>6. /\ RecordsKeep /\ (NoneHinted(old, new) => NoNewHint)
      /\ \A d \in Client, m \in Replica : co'[d][m].item \in S \cup {NoVersion}
  <2>1. Revises(S, c, n, new)
    BY <1>0, <1>1, <1>2, <1>3, <1>5 DEF Revises
  <2> QED
    BY <1>0, <2>1, OneRecord
<1> QED
  BY <1>5, <1>6, SameCalls DEF Calm, CallsIn

\* The node of a coordination stops, with all it was doing.
LEMMA StopKeeps ==
  ASSUME FiniteFacts, NEW c, NEW n \in Replica, NEW rec, Sound(c, n, rec), NEW new, Stops(rec, new)
  PROVE  Keeps(rec, new) /\ NoneHinted(rec, new) /\ new.item = rec.item
<1>1. SoundStill(c, n, rec, new)
  BY RecordStops
<1>2. Keeps(rec, new) /\ new.item = rec.item
  BY <1>1 DEF SoundStill, Keeps
<1>3. CASE rec.pc = "none"
  BY <1>2, <1>3 DEF Stops, NoneHinted
<1>4. CASE rec.pc # "none"
  <2>1. PICK ans, d : d = Abandon(rec) /\ new = [d EXCEPT !.pc = "done", !.ans = ans]
    BY <1>4 DEF Stops, EndsAs
  <2>2. rec \in Coordination
    BY DEF Sound
  <2>3. d \in Coordination /\ NoneHinted(rec, d)
    BY <2>1, <2>2, LeftFields
  <2>4. new.res = d.res
    BY <2>1, <2>3 DEF Coordination
  <2> QED
    BY <1>2, <2>3, <2>4 DEF NoneHinted
<1> QED
  BY <1>3, <1>4

LEMMA EndsIsCalm ==
  ASSUME FiniteFacts, CallInv, CoInv, NEW S, CallsIn(S), NEW n \in Replica, Ends(n)
  PROVE  Calm(S) /\ NoNewHint
<1>1. ASSUME NEW c \in Client, NEW m \in Replica
      PROVE  /\ Keeps(co[c][m], co'[c][m]) /\ NoneHinted(co[c][m], co'[c][m])
             /\ co'[c][m].item \in S \cup {NoVersion}
  <2>1. PICK rec, ans, a, new :
          /\ rec = co[c][n] /\ ans = (IF rec.ans = "none" THEN "crashed" ELSE rec.ans)
          /\ a = Abandon(rec) /\ new = [a EXCEPT !.pc = "done", !.ans = ans]
    OBVIOUS
  <2>2. co'[c] = [co[c] EXCEPT ![n] = IF rec.pc = "none" THEN rec ELSE new]
    BY <2>1 DEF Ends, Stopped
  <2>3. co[c] \in [Replica -> Coordination] /\ Sound(c, n, rec)
    BY <2>1 DEF CoInv
  <2>4. co'[c][n] = (IF rec.pc = "none" THEN rec ELSE new) /\ (m # n => co'[c][m] = co[c][m])
    BY <2>2, <2>3
  <2>5. Stops(rec, co'[c][n])
    BY <2>1, <2>4 DEF Stops, EndsAs
  <2>6. Keeps(rec, co'[c][n]) /\ NoneHinted(rec, co'[c][n]) /\ co'[c][n].item = rec.item
    <3>1. PICK q : q = co'[c][n]
      OBVIOUS
    <3>2. Keeps(rec, q) /\ NoneHinted(rec, q) /\ q.item = rec.item
      BY <2>3, <2>5, <3>1, StopKeeps
    <3> QED
      BY <3>1, <3>2
  <2>7. CASE m = n
    BY <2>1, <2>6, <2>7 DEF CallsIn
  <2>8. CASE m # n
    BY <2>4, <2>8 DEF Keeps, NoneHinted, CallsIn
  <2> QED
    BY <2>7, <2>8
<1>2. \A m \in net' : m.item \in S
  <2>1. ASSUME NEW c \in Client, NEW m \in InFlight(co[c][n]) PROVE m.item \in S
    <3>1. PICK p \in Replica : co[c][n].res[p] = "sent" /\ m = [to |-> p, item |-> co[c][n].item]
      BY DEF InFlight
    <3>2. Sound(c, n, co[c][n])
      BY DEF CoInv
    <3>3. co[c][n].item \in Item
      BY <3>1, <3>2, SMT DEF Sound
    <3> QED
      BY <3>1, <3>3, ItemFacts DEF CallsIn
  <2>2. net' = net \cup UNION {InFlight(co[c][n]) : c \in Client}
    BY DEF Ends, Stopped
  <2> QED
    BY <2>1, <2>2 DEF CallsIn
<1>3. CallsKeep
  <2>1. PICK failed : failed = "failed"
    OBVIOUS
  <2>2. cl' = [c \in Client |-> IF cl[c].at = n /\ cl[c].pc \in {"getting", "put"}
                                THEN [cl[c] EXCEPT !.pc = failed] ELSE cl[c]]
    BY <2>1 DEF Ends, Stopped
  <2>3. ASSUME NEW c \in Client PROVE CallKeeps(cl[c], cl'[c]) /\ (cl'[c].pc = "ok" => cl[c].pc = "ok")
    <3>1. cl[c] \in Call
      BY DEF CallInv
    <3>2. CASE cl'[c] = cl[c]
      BY <3>1, <3>2, EndedKeeps
    <3>3. CASE cl[c].pc \in {"getting", "put"} /\ cl'[c] = [cl[c] EXCEPT !.pc = failed]
      <4>1. Ended(cl[c], cl'[c])
        BY <2>1, <3>3 DEF Ended
      <4>2. cl'[c].pc = failed
        BY <3>1, <3>3 DEF Call
      <4> QED
        BY <2>1, <3>1, <4>1, <4>2, EndedKeeps
    <3> QED
      BY <2>2, <3>2, <3>3
  <2> QED
    BY <2>3 DEF CallsKeep
<1>4. UNCHANGED undone
  BY DEF Ends, Stopped
<1> QED
  BY <1>1, <1>2, <1>3, <1>4 DEF Calm, CallsIn, RecordsKeep, NoNewHint

\* A client begins its write, or forwardPut goes on.
LEMMA OneCall ==
  ASSUME CallInv, NEW c \in Client, NEW call, cl' = [cl EXCEPT ![c] = call], CallKeeps(cl[c], call),
         call.pc = "ok" => \E n \in Replica : co'[c][n].ans = "ok"
  PROVE  CallsKeep
<1>1. cl'[c] = call /\ \A d \in Client : d # c => cl'[d] = cl[d]
  BY DEF CallInv
<1>2. ASSUME NEW d \in Client, d # c PROVE CallKeeps(cl[d], cl'[d]) /\ (cl'[d].pc = "ok" => cl[d].pc = "ok")
  BY <1>1, <1>2 DEF CallKeeps
<1> QED
  BY <1>1, <1>2 DEF CallsKeep

LEMMA BeginsKeeps ==
  ASSUME CoInv, NEW S, CallsIn(S), NEW c \in Client, NEW n \in Replica, Begins(c, n)
  PROVE  RecordsKeep /\ NoNewHint /\ \A d \in Client, m \in Replica : co'[d][m].item \in S \cup {NoVersion}
<1>1. PICK new : new = [NoCoordination EXCEPT !.pc = "read", !.prev = Get(n)]
  OBVIOUS
<1>2. co' = [co EXCEPT ![c][n] = new] /\ co[c][n].pc = "none"
  BY <1>1 DEF Begins, Reading
<1>3. new.item = NoVersion /\ \A p \in Replica : new.res[p] = "none"
  BY <1>1 DEF NoCoordination
<1>4. co[c][n].item = NoVersion /\ co[c][n].ans = "none"
  <2>1. Sound(c, n, co[c][n])
    BY DEF CoInv
  <2> QED
    BY <1>2, <2>1, SMT DEF Sound
<1>5. Revises(S, c, n, new)
  BY <1>2, <1>3, <1>4 DEF Revises, Keeps
<1>6. NoneHinted(co[c][n], new)
  BY <1>3 DEF NoneHinted
<1> QED
  BY <1>5, <1>6, OneRecord

LEMMA ClientIsCalm ==
  ASSUME FiniteFacts, CallInv, CoInv, ChainInv, NEW S, CallsIn(S), NEW c \in Client, Mode[c] # "readput",
         \/ \E n \in Replica \cup Front : PutBegin(c, n)
         \/ ForwardSkip(c) \/ ForwardSend(c) \/ ForwardReturn(c) \/ ForwardLost(c)
  PROVE  Calm(S) /\ NoNewHint
<1>0. PICK old : old = cl[c]
  OBVIOUS
<1>1. old \in Call /\ GoodCall(cl[c]) /\ Chain(cl[c], co[c]) /\ UNCHANGED <<net, undone>>
  BY <1>0, ChainFacts DEF CallInv, PutBegin, ForwardSkip, ForwardSend, ForwardReturn, ForwardLost
<1>2. UNCHANGED co \/ \E n \in Replica : Begins(c, n)
  <2>1. ASSUME NEW n \in Replica \cup Front, PutBegin(c, n) PROVE UNCHANGED co \/ \E m \in Replica : Begins(c, m)
    <3>1. cl[c].pc = "idle" /\ co' = IF n \in Replica THEN Reading(c, n) ELSE co
      BY <2>1 DEF PutBegin
    <3>2. \A m \in Replica : co[c][m].pc = "none"
      BY <1>1, <3>1 DEF Chain
    <3> QED
      BY <3>1, <3>2 DEF Begins
  <2>2. CASE ForwardSend(c)
    <3>1. cl[c].pc = "put" /\ cl[c].at \in Front /\ cl[c].on = NoValue /\ co' = Reading(c, Pref[cl[c].next])
      BY <2>2 DEF ForwardSend, Forwarding
    <3>2. cl[c].next \in DOMAIN Pref /\ Pref[cl[c].next] \in Replica
      <4>1. cl[c].next \in 1..Total
        BY <1>0, <1>1, <3>1, ReplicaFacts, SMT DEF GoodCall, Call
      <4> QED
        BY ONLY <4>1, QuorumAssumption, SMT DEF Total
    <3>3. co[c][Pref[cl[c].next]].pc = "none"
      BY <1>1, <3>1, <3>2 DEF Chain
    <3> QED
      BY <3>1, <3>2, <3>3 DEF Begins
  <2>3. CASE ForwardSkip(c) \/ ForwardReturn(c) \/ ForwardLost(c)
    BY <2>3 DEF ForwardSkip, ForwardReturn, ForwardLost
  <2> QED
    BY <2>1, <2>2, <2>3
<1>3. RecordsKeep /\ NoNewHint /\ \A d \in Client, m \in Replica : co'[d][m].item \in S \cup {NoVersion}
  BY <1>2, SameRecords, BeginsKeeps DEF CallsIn
<1>4. CallsKeep
  <2>1. ASSUME NEW n \in Replica \cup Front, PutBegin(c, n) PROVE CallsKeep
    <3>1. PICK ctx, on, call :
            /\ ctx = (IF old.pc = "got" THEN UnionVectorClock(old.merged) ELSE old.ctx)
            /\ on = (IF n \in Replica THEN n ELSE old.on)
            /\ call = [old EXCEPT !.pc = "put", !.at = n, !.ctx = ctx, !.on = on]
      OBVIOUS
    <3>2. old.pc = "idle"
      BY <1>0, <2>1 DEF PutBegin
    <3>3. cl' = [cl EXCEPT ![c] = call]
      BY <1>0, <2>1, <3>1 DEF PutBegin, CallInv
    <3>4. call.ctx = old.ctx /\ call.merged = old.merged /\ call.pc = "put"
      BY <1>1, <3>1, <3>2 DEF Call
    <3>5. CallKeeps(cl[c], call)
      BY <1>0, <3>4 DEF CallKeeps
    <3> QED
      BY <3>3, <3>4, <3>5, OneCall
  <2>2. CASE ForwardSend(c)
    <3>1. PICK on, call : on = Pref[old.next] /\ call = [old EXCEPT !.on = on]
      OBVIOUS
    <3>2. cl' = [cl EXCEPT ![c] = call] /\ old.pc = "put"
      BY <1>0, <2>2, <3>1 DEF ForwardSend, Forwarding, CallInv
    <3>3. call.ctx = old.ctx /\ call.merged = old.merged /\ call.pc = "put"
      BY <1>1, <3>1, <3>2 DEF Call
    <3>4. CallKeeps(cl[c], call)
      BY <1>0, <3>3 DEF CallKeeps
    <3> QED
      BY <3>2, <3>3, <3>4, OneCall
  <2>3. CASE ForwardReturn(c)
    <3>1. PICK pc \in {"ok", "failed"} :
            cl' = [cl EXCEPT ![c].pc = pc] /\ (pc = "ok" => co[c][cl[c].on].ans = "ok")
      BY <2>3 DEF ForwardReturn
    <3>2. PICK call : call = [old EXCEPT !.pc = pc]
      OBVIOUS
    <3>3. cl' = [cl EXCEPT ![c] = call] /\ old.pc = "put" /\ old.on \in Replica /\ UNCHANGED co
      BY <1>0, <1>1, <2>3, <3>1, <3>2 DEF ForwardReturn, Forwarding, CallInv, Call
    <3>4. call.ctx = old.ctx /\ call.merged = old.merged /\ call.pc = pc
      BY <1>1, <3>2 DEF Call
    <3>5. CallKeeps(cl[c], call)
      BY <1>0, <3>4 DEF CallKeeps
    <3>6. call.pc = "ok" => \E n \in Replica : co'[c][n].ans = "ok"
      BY <1>0, <3>1, <3>3, <3>4
    <3> QED
      BY <3>3, <3>5, <3>6, OneCall
  <2>4. CASE ForwardSkip(c) \/ ForwardLost(c)
    <3>1. PICK call : cl' = [cl EXCEPT ![c] = call] /\ (call = Tried(c) \/ \E b : call = [Tried(c) EXCEPT !.broken = b])
      BY <2>4 DEF ForwardSkip, ForwardLost, TryNext
    <3>2. PICK pc, k : pc = (IF old.next = Total THEN "failed" ELSE old.pc) /\ k = old.next + 1
      OBVIOUS
    <3>3. Tried(c) = [old EXCEPT !.on = NoValue, !.next = k, !.pc = pc]
      BY <1>0, <3>2 DEF Tried
    <3>4. old.pc = "put"
      BY <1>0, <2>4 DEF ForwardSkip, ForwardLost, Forwarding
    <3>5. call.ctx = old.ctx /\ call.merged = old.merged /\ call.pc \in {"put", "failed"}
      <4>1. PICK t : t = [old EXCEPT !.on = NoValue, !.next = k, !.pc = pc]
        OBVIOUS
      <4>2. /\ t.ctx = old.ctx /\ t.merged = old.merged /\ t.pc = pc
            /\ \A b : LET u == [t EXCEPT !.broken = b]
                     IN  u.ctx = old.ctx /\ u.merged = old.merged /\ u.pc = pc
        BY <1>1, <4>1 DEF Call
      <4>3. call = t \/ \E b : call = [t EXCEPT !.broken = b]
        BY <3>1, <3>3, <4>1
      <4>4. call.ctx = old.ctx /\ call.merged = old.merged /\ call.pc = pc
        BY <4>2, <4>3
      <4> QED
        BY <3>2, <3>4, <4>4
    <3>6. CallKeeps(cl[c], call) /\ call.pc # "ok"
      BY <1>0, <3>5 DEF CallKeeps
    <3> QED
      BY <3>1, <3>6, OneCall
  <2> QED
    BY <2>1, <2>2, <2>3, <2>4
<1> QED
  BY <1>1, <1>3, <1>4 DEF Calm, CallsIn
=============================================================================
