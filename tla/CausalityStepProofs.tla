------------------------ MODULE CausalityStepProofs ------------------------
(***************************************************************************)
(* Proofs that the steps of clients and coordinators keep CausalInv, for   *)
(* any replicas, clients and quorums.  They begin with facts about the     *)
(* versions a coordinator makes, about stores that only grow, and about    *)
(* what of CausalInv stays from one state to the next.                     *)
(***************************************************************************)
EXTENDS ReplicationStepProofs

USE Zenon

LEMMA ClockFacts ==
  ASSUME NEW x \in Item
  PROVE  x \in Version /\ x.clock \in Clock /\ \A i \in ClockIDs : x.clock[i] \in Nat
BY ItemFacts DEF Version, Clock

LEMMA EntryFacts ==
  ASSUME StoreInv, NEW n \in Replica
  PROVE  /\ clockID(n) \in ClockIDs /\ clockID(n) # Delivered /\ inc[n] \in 0..MaxIncarnation
         /\ \A k \in 0..MaxIncarnation : <<n, k>> \in ClockIDs /\ <<n, k>> # Delivered
<1>1. inc[n] \in 0..MaxIncarnation
  BY DEF StoreInv
<1>2. \A k \in 0..MaxIncarnation : <<n, k>> \in Replica \X (0..MaxIncarnation)
  OBVIOUS
<1> QED
  BY <1>1, <1>2, ClockIDsAssumption, DeliveredAssumption DEF clockID

\* The union of some clocks, entry by entry.
LEMMA UnionAt ==
  ASSUME FiniteFacts, NEW S \in SUBSET Item, IsFiniteSet(S), NEW i \in ClockIDs
  PROVE  /\ UnionVectorClock(S)[i] \in Nat /\ \A x \in S : x.clock[i] <= UnionVectorClock(S)[i]
         /\ UnionVectorClock(S)[i] = 0 \/ \E x \in S : x.clock[i] = UnionVectorClock(S)[i]
<1>1. S \in SUBSET Version
  BY ItemFacts
<1>2. UnionVectorClock(S)[i] = CHOOSE m \in {0} \cup {x.clock[i] : x \in S} : IsUnionEntry(S, i, m)
  BY DEF UnionVectorClock
<1>3. \E m \in {0} \cup {x.clock[i] : x \in S} : IsUnionEntry(S, i, m)
  BY <1>1 DEF FiniteFacts, EntryFound
<1>4. IsUnionEntry(S, i, UnionVectorClock(S)[i])
  BY <1>2, <1>3
<1>5. UnionVectorClock(S) \in Clock
  BY <1>1, UnionType
<1> QED
  BY <1>4, <1>5 DEF IsUnionEntry, Clock

\* y is the version that n makes for c without a context.
Makes(n, c, y) == y = NewVersion(n, NoContext, c)

\* n knows of the entries of the versions of T that are its own.
Knows(n, T) == \A x \in T : Known(n, x.clock[clockID(n)])

\* Faithful, in the next state, of versions of this one.
FaithfulNext(T) == \A x, y \in T : Leq(x, y) => x.val = y.val \/ x.val \in past'[y.val]

-----------------------------------------------------------------------------
(***************************************************************************)
(* What a step that is no rollback may do to the stores: each one goes on  *)
(* covering what it covers, or begins a new incarnation.                   *)
(***************************************************************************)
GrowsAt(p) == inc'[p] = inc[p] /\ \A y \in Version : Covers(Get(p), y) => Covers(Get(p)', y)
StoresGrow == \A p \in Replica : GrowsAt(p) \/ inc'[p] = inc[p] + 1

LEMMA SameGrows ==
  ASSUME UNCHANGED storeVars
  PROVE  StoresGrow /\ \A S : StoresIn(S) => StoresIn(S)'
<1>1. \A p \in Replica : Get(p)' = Get(p)
  BY DEF Get, storeVars
<1> QED
  BY <1>1 DEF StoresGrow, GrowsAt, StoresIn, storeVars

LEMMA PutGrows ==
  ASSUME FiniteFacts,
         StoreInv, NEW n \in Replica, NEW x \in Item, PersisterPut(n, x), UNCHANGED <<flushed, inc>>
  PROVE  StoresGrow /\ Covers(Get(n)', x) /\ \A S : StoresIn(S) /\ x \in S => StoresIn(S)'
<1>1. /\ Covers(Get(n)', x)
      /\ \A y \in Version : Covers(Get(n), y) => Covers(Get(n)', y)
      /\ \A p \in Replica : p # n => Get(p)' = Get(p)
  BY PutCovers
<1>2. ASSUME NEW p \in Replica PROVE GrowsAt(p)
  BY <1>1 DEF GrowsAt
<1>3. Resolve(active[n], x) \subseteq active[n] \cup {x}
  BY DEF Resolve
<1>4. \A p \in Replica : active'[p] \subseteq active[p] \cup {x}
  BY <1>3 DEF PersisterPut, StoreInv
<1> QED
  BY <1>1, <1>2, <1>4 DEF StoresGrow, StoresIn

\* What is reached stays so, and entries to come stay unused.
LEMMA ReachedStays ==
  ASSUME StoreInv, StoresGrow, NEW p \in Replica, NEW x \in Version, Reached(p, x)
  PROVE  Reached(p, x)'
<1>1. inc[p] \in Nat
  BY ClockIDsAssumption, SMT DEF StoreInv
<1>2. CASE GrowsAt(p)
  BY <1>2 DEF GrowsAt, Reached, Covers, Leq
<1>3. CASE inc'[p] = inc[p] + 1
  BY <1>1, <1>3, SMT DEF Reached
<1> QED
  BY <1>2, <1>3 DEF StoresGrow

LEMMA FreshStays ==
  ASSUME StoreInv, StoresGrow, NEW T, Fresh(T)
  PROVE  Fresh(T)'
<1>1. \A p \in Replica : inc[p] \in Nat /\ (inc'[p] = inc[p] \/ inc'[p] = inc[p] + 1)
  BY ClockIDsAssumption, SMT DEF StoreInv, StoresGrow, GrowsAt
<1> QED
  BY <1>1, ClockIDsAssumption, SMT DEF Fresh

LEMMA KnownStays ==
  ASSUME FiniteFacts, StoreInv, StoreInv', StoresGrow, NEW n \in Replica, NEW x \in Version,
         Known(n, x.clock[clockID(n)]) \/ (GrowsAt(n) /\ Covers(Get(n)', x)), Fresh({x})
  PROVE  Known(n, x.clock[clockID(n)])'
<1>1. CASE GrowsAt(n)
  <2>1. clockID(n)' = clockID(n) /\ clockID(n) \in ClockIDs
    BY <1>1, EntryFacts DEF clockID, GrowsAt
  <2>2. Get(n) \in SUBSET Version /\ Get(n)' \in SUBSET Version
    <3>1. List(active'[n]) /\ List(flushed'[n])
      BY DEF StoreInv, List, Items, Siblings
    <3>2. MergeSiblings(active'[n], flushed'[n]) \in SUBSET Item
      BY <3>1, MergeList
    <3> QED
      BY <3>2, GetList, ItemFacts DEF Get
  <2>3. PICK i \in ClockIDs : i = clockID(n)
    BY <2>1
  <2>4. \A y \in Version : y.clock[i] \in Nat
    BY DEF Version, Clock
  <2>5. CASE Known(n, x.clock[clockID(n)])
    <3>1. CASE x.clock[i] = 0
      BY <2>1, <2>3, <3>1 DEF Known
    <3>2. CASE \E z \in Get(n) : z.clock[i] >= x.clock[i]
      <4>1. PICK z \in Get(n) : z.clock[i] >= x.clock[i]
        BY <3>2
      <4>2. Covers(Get(n), z) /\ z \in Version
        BY <2>2, CoversSelf
      <4>3. PICK w \in Get(n)' : Leq(z, w)
        BY <1>1, <4>2 DEF GrowsAt, Covers
      <4>4. z.clock[i] <= w.clock[i] /\ w \in Version
        BY <2>2, <4>3 DEF Leq
      <4>5. w.clock[i] >= x.clock[i]
        BY <2>4, <4>1, <4>2, <4>4, SMT
      <4> QED
        BY <2>1, <2>3, <4>5 DEF Known
    <3> QED
      BY <2>3, <2>5, <3>1, <3>2 DEF Known
  <2>6. CASE Covers(Get(n)', x)
    <3>1. PICK w \in Get(n)' : Leq(x, w)
      BY <2>6 DEF Covers
    <3>2. x.clock[i] <= w.clock[i] /\ w \in Version
      BY <2>2, <3>1 DEF Leq
    <3>3. w.clock[i] >= x.clock[i]
      BY <2>4, <3>2, SMT
    <3> QED
      BY <2>1, <2>3, <3>3 DEF Known
  <2> QED
    BY <2>5, <2>6
<1>2. CASE inc'[n] = inc[n] + 1
  <2>1. inc'[n] \in 0..MaxIncarnation /\ inc'[n] > inc[n]
    BY <1>2, ClockIDsAssumption, SMT DEF StoreInv
  <2>2. x.clock[<<n, inc'[n]>>] = 0
    BY <2>1 DEF Fresh
  <2> QED
    BY <2>2 DEF Known, clockID
<1> QED
  BY <1>1, <1>2 DEF StoresGrow

-----------------------------------------------------------------------------
(***************************************************************************)
(* The order of versions, and what markers retire, from one state to the   *)
(* next: S has the versions of the next state, T those and the ones in     *)
(* limbo, and perhaps more.                                                *)
(***************************************************************************)
Orders(S, T) ==
  /\ All(S)' \subseteq T /\ T \subseteq Item /\ S \subseteq Item
  /\ HaveOwn(T) /\ FaithfulNext(T) /\ Fresh(T) /\ \A x \in T : ~isMarker(x)
  /\ \A n \in Replica : \A x \in S : Known(n, x.clock[clockID(n)]) \/ (GrowsAt(n) /\ Covers(Get(n)', x))
  /\ \A n \in Replica : limbo'[n] # {} => n \in halted'
  /\ \A n, m \in Replica : m # n => \A x \in limbo'[n] : Known(m, x.clock[clockID(m)])

LEMMA OrderCarries ==
  ASSUME FiniteFacts, StoreInv, StoreInv', StoresGrow, NEW S, NEW T, Orders(S, T)
  PROVE  OrderInv(S)' /\ LimboInv'
<1>1. \A x \in T : x \in Version /\ Fresh({x})
  BY ItemFacts DEF Orders, Fresh
<1>2. S \subseteq T /\ \A n \in Replica : limbo'[n] \subseteq T
  BY DEF Orders, All
<1>3. HaveOwn(All(S))'
  BY DEF Orders, HaveOwn, Own, Leq
<1>4. Faithful(All(S))'
  BY DEF Orders, Faithful, FaithfulNext, Leq
<1>5. Fresh(T)'
  BY FreshStays DEF Orders
<1>6. Fresh(All(S))'
  BY <1>5 DEF Orders, Fresh
<1>7. ASSUME NEW n \in Replica, NEW x \in S PROVE Known(n, x.clock[clockID(n)])'
  BY <1>1, <1>2, KnownStays DEF Orders
<1>8. Recorded(S)'
  BY <1>7 DEF Recorded, Known, clockID
<1>9. (\A x \in All(S) : ~isMarker(x))'
  BY DEF Orders, isMarker
<1>10. ASSUME NEW n \in Replica, NEW m \in Replica, m # n, NEW x \in limbo'[n] PROVE Known(m, x.clock[clockID(m)])'
  <2>1. x \in Version /\ Fresh({x}) /\ Known(m, x.clock[clockID(m)])
    BY <1>1, <1>2, <1>10 DEF Orders
  <2> QED
    BY <2>1, KnownStays
<1>11. LimboInv'
  BY <1>10 DEF Orders, LimboInv, Known, clockID
<1> QED
  BY <1>3, <1>4, <1>6, <1>8, <1>9, <1>11 DEF OrderInv

\* m is a marker that retires, of the versions of T, what has reached t.
Retires(t, m, T) ==
  m \in Version /\ Recorded({m}) /\ Fresh({m}) /\ \A x \in T : Leq(x, m) => Reached(t, x)
Marks(T) == \A n, t \in Replica : \A m \in hints'[n][t] : isMarker(m) => Retires(t, m, T)

LEMMA MarkersCarry ==
  ASSUME FiniteFacts,
         StoreInv, StoreInv', StoresGrow, NEW S, NEW T \in SUBSET Item, All(S)' \subseteq T, Marks(T)
  PROVE  MarkersInv(S)'
<1>1. SUFFICES ASSUME NEW n \in Replica, NEW t \in Replica, NEW m \in hints'[n][t], isMarker(m)
               PROVE  Recorded({m})' /\ Fresh({m})' /\ \A x \in All(S)' : Leq(x, m) => Reached(t, x)'
  BY DEF MarkersInv, isMarker, Leq, Recorded, Fresh, Known, clockID, Reached, Covers
<1>2. Retires(t, m, T)
  BY <1>1 DEF Marks
<1>3. Fresh({m})'
  BY <1>2, FreshStays DEF Retires
<1>4. ASSUME NEW p \in Replica PROVE Known(p, m.clock[clockID(p)])'
  <2>1. m \in Version /\ Fresh({m}) /\ Known(p, m.clock[clockID(p)])
    BY <1>2 DEF Retires, Recorded
  <2> QED
    BY <2>1, KnownStays
<1>5. Recorded({m})'
  BY <1>4 DEF Recorded, Known, clockID
<1>6. ASSUME NEW x \in All(S)', Leq(x, m) PROVE Reached(t, x)'
  <2>1. x \in Version /\ Reached(t, x)
    BY <1>2, <1>6, ItemFacts DEF Retires
  <2> QED
    BY <2>1, ReachedStays
<1> QED
  BY <1>3, <1>5, <1>6

-----------------------------------------------------------------------------
(***************************************************************************)
(* The versions there are, and a step that makes none.                     *)
(***************************************************************************)
LEMMA AllFacts ==
  ASSUME NodeInv, NEW S \in SUBSET Item
  PROVE  All(S) \in SUBSET Item /\ S \subseteq All(S) /\ \A n \in Replica : limbo[n] \subseteq All(S)
BY DEF All, NodeInv

\* No version is made.
LEMMA OrderSame ==
  ASSUME NodeInv, NEW S \in SUBSET Item, CausalInv(S), UNCHANGED past,
         \A n \in Replica : limbo'[n] \subseteq limbo[n] \cup S,
         \A n \in Replica : limbo'[n] # {} => n \in halted'
  PROVE  Orders(S, All(S))
<1>0. All(S) \subseteq Item
  BY AllFacts
<1>1. All(S)' \subseteq All(S)
  BY DEF All
<1>2. FaithfulNext(All(S))
  BY DEF FaithfulNext, Faithful, CausalInv, OrderInv
<1>3. ASSUME NEW n \in Replica, NEW m \in Replica, m # n, NEW x \in limbo'[n] PROVE Known(m, x.clock[clockID(m)])
  BY <1>3 DEF CausalInv, OrderInv, Recorded, LimboInv
<1> QED
  BY <1>0, <1>1, <1>2, <1>3 DEF Orders, CausalInv, OrderInv, Recorded

\* The markers there are retire no version that is new.
LEMMA MarksSame ==
  ASSUME HintInv, NEW S \in SUBSET Item, CausalInv(S), \A n, t \in Replica : hints'[n][t] \subseteq hints[n][t]
  PROVE  Marks(All(S))
BY DEF Marks, Retires, CausalInv, MarkersInv, HintInv

-----------------------------------------------------------------------------
(***************************************************************************)
(* What stays of the invariant from one state to the next.                 *)
(***************************************************************************)
LEMMA RestCarries ==
  ASSUME FiniteFacts, StoreInv, StoreInv', StoresGrow, NEW S, NEW T, Orders(S, T), Marks(T)
  PROVE  OrderInv(S)' /\ MarkersInv(S)' /\ LimboInv' /\ S \in SUBSET Item
<1>1. T \in SUBSET Item /\ All(S)' \subseteq T /\ S \in SUBSET Item
  BY DEF Orders
<1>2. OrderInv(S)' /\ LimboInv'
  BY OrderCarries
<1>3. MarkersInv(S)'
  BY <1>1, MarkersCarry
<1> QED
  BY <1>1, <1>2, <1>3

\* A disk once lost stays lost.
LEMMA IncStays ==
  ASSUME StoreInv, StoresGrow, NEW p \in Replica
  PROVE  (inc[p] > 0 => inc'[p] > 0) /\ (inc'[p] = 0 => inc[p] = 0)
<1>1. inc[p] \in Nat
  BY ClockIDsAssumption, SMT DEF StoreInv
<1>2. inc'[p] = inc[p] \/ inc'[p] = inc[p] + 1
  BY DEF StoresGrow, GrowsAt
<1> QED
  BY <1>1, <1>2, SMT

\* The version of a record that is acknowledged, or hinted.
LEMMA RecordFacts ==
  ASSUME CoInv, NEW c \in Client, NEW n \in Replica,
         co[c][n].ans = "ok" \/ \E p \in Replica : co[c][n].res[p] = "hinted"
  PROVE  co[c][n].item \in Item /\ co[c][n].item \in Version /\ co[c][n].item # NoVersion
<1>1. Sound(c, n, co[c][n])
  BY DEF CoInv
<1>2. co[c][n].item \in Item
  BY <1>1, SMT DEF Sound
<1> QED
  BY <1>2, ItemFacts

LEMMA ShownStays ==
  ASSUME StoreInv, StoresGrow, NEW c \in Client, NEW x \in Version, Shown(c, x),
         cl'[c].resp = cl[c].resp, cl'[c].merged = cl[c].merged
  PROVE  Shown(c, x)'
<1>1. PICK Q \in SUBSET Replica :
        /\ Cardinality(Q) >= W
        /\ \A p \in Q : Reached(p, x) /\ (p \in cl[c].resp => Covers(cl[c].merged, x) \/ inc[p] > 0)
  BY DEF Shown
<1>2. ASSUME NEW p \in Q
      PROVE  Reached(p, x)' /\ (p \in cl'[c].resp => Covers(cl'[c].merged, x) \/ inc'[p] > 0)
  <2>1. p \in Replica /\ Reached(p, x)
    BY <1>1
  <2>2. Reached(p, x)'
    BY <2>1, ReachedStays
  <2> QED
    BY <1>1, <2>1, <2>2, IncStays
<1> QED
  BY <1>1, <1>2 DEF Shown, Reached, Covers, Leq

LEMMA ReadsCarry ==
  ASSUME StoreInv, StoresGrow, CallInv, CoInv, RecordsKeep, CallsKeep, NEW S, CausalInv(S), NEW S1, S \subseteq S1
  PROVE  ReadInv' /\ AckInv' /\ ReadsIn(S1)' /\ \A c \in Client : cl'[c].ctx = NoContext
<1>1. ASSUME NEW d \in Client, NEW n \in Replica, co[d][n].ans = "ok"
      PROVE  /\ co'[d][n].ans = "ok" /\ co'[d][n].item = co[d][n].item /\ co[d][n].item \in Version
  <2>1. co[d][n].item # NoVersion /\ co[d][n].item \in Version
    BY <1>1, RecordFacts
  <2>2. Keeps(co[d][n], co'[d][n])
    BY DEF RecordsKeep
  <2> QED
    BY <1>1, <2>1, <2>2 DEF Keeps
<1>2. ReadInv'
  <2> SUFFICES ASSUME NEW c \in Client, cl'[c].pc \in {"getting", "got"}
               PROVE  /\ cl'[c].pc = "got" => Cardinality(cl'[c].resp) >= R
                      /\ \A d \in cl'[c].since : \E n \in Replica : co'[d][n].ans = "ok" /\ Shown(c, co[d][n].item)'
    BY DEF ReadInv
  <2>1. /\ cl'[c].pc = cl[c].pc /\ cl'[c].resp = cl[c].resp /\ cl'[c].since = cl[c].since
        /\ cl'[c].merged = cl[c].merged
    BY DEF CallsKeep, CallKeeps
  <2>2. /\ cl[c].pc = "got" => Cardinality(cl[c].resp) >= R
        /\ \A d \in cl[c].since : \E n \in Replica : co[d][n].ans = "ok" /\ Shown(c, co[d][n].item)
    BY <2>1 DEF CausalInv, ReadInv
  <2>3. ASSUME NEW d \in cl'[c].since
        PROVE  \E n \in Replica : co'[d][n].ans = "ok" /\ Shown(c, co[d][n].item)'
    <3>1. d \in Client
      BY <2>1 DEF CallInv, Call
    <3>2. PICK n \in Replica : co[d][n].ans = "ok" /\ Shown(c, co[d][n].item)
      BY <2>1, <2>2
    <3>3. PICK x : x = co[d][n].item
      OBVIOUS
    <3>4. co'[d][n].ans = "ok" /\ co'[d][n].item = x /\ x \in Version /\ Shown(c, x)
      BY <1>1, <3>1, <3>2, <3>3
    <3>5. Shown(c, x)'
      BY <2>1, <3>4, ShownStays
    <3> QED
      BY <3>4, <3>5 DEF Shown, Reached, Covers, Leq
  <2> QED
    BY <2>1, <2>2, <2>3
<1>3. AckInv'
  <2> SUFFICES ASSUME NEW c \in Client, cl'[c].pc = "ok" PROVE \E n \in Replica : co'[c][n].ans = "ok"
    BY DEF AckInv, Acked
  <2>1. CASE cl[c].pc = "ok"
    <3>1. PICK n \in Replica : co[c][n].ans = "ok"
      BY <2>1 DEF CausalInv, AckInv, Acked
    <3> QED
      BY <1>1, <3>1
  <2> QED
    BY <2>1 DEF CallsKeep
<1>4. ReadsIn(S1)' /\ \A c \in Client : cl'[c].ctx = NoContext
  BY DEF CallsKeep, CallKeeps, CausalInv, Within, ReadsIn
<1> QED
  BY <1>2, <1>3, <1>4

LEMMA HintedCarry ==
  ASSUME StoreInv, StoresGrow, CoInv, NEW S, CausalInv(S), RecordsKeep, NoNewHint,
         \A n \in Replica : hints'[n] = hints[n] \/ inc'[n] > 0
  PROVE  HintedInv'
<1> SUFFICES ASSUME NEW c \in Client, NEW n \in Replica, NEW p \in Replica,
                    co'[c][n].res[p] = "hinted", inc'[n] = 0
             PROVE  Covers(Pending(n, p), co[c][n].item)' \/ Reached(p, co[c][n].item)'
  BY DEF HintedInv
<1>1. co[c][n].res[p] = "hinted" /\ inc[n] = 0
  BY IncStays DEF NoNewHint, NoneHinted
<1>2. PICK x : x = co[c][n].item
  OBVIOUS
<1>3. x \in Version /\ co'[c][n].item = x
  BY <1>1, <1>2, RecordFacts DEF RecordsKeep, Keeps
<1>4. hints'[n] = hints[n]
  BY ClockIDsAssumption, SMT
<1>5. Covers(Pending(n, p), x) \/ Reached(p, x)
  BY <1>1, <1>2 DEF CausalInv, HintedInv
<1>6. Reached(p, x) => Reached(p, x)'
  BY <1>3, ReachedStays
<1>7. Covers(Pending(n, p), x) => Covers(Pending(n, p), x)'
  BY <1>4 DEF Pending, isMarker, Covers, Leq
<1>8. Covers(Pending(n, p), x)' \/ Reached(p, x)'
  BY <1>5, <1>6, <1>7
<1> QED
  BY <1>3, <1>8 DEF Pending, isMarker, Reached, Covers, Leq

LEMMA DeliveredCarry ==
  ASSUME StoreInv, StoresGrow, RepairInv, NEW S, CausalInv(S),
         \A n \in Replica : hd'[n] = hd[n] \/ hd'[n].pc = "idle"
  PROVE  DeliveredInv'
<1> SUFFICES ASSUME NEW n \in Replica, hd'[n].pc = "send", NEW x \in hd'[n].items \ hd'[n].todo
             PROVE  Reached(hd[n].to, x)'
  BY DEF DeliveredInv
<1>1. PICK d : d = hd[n]
  OBVIOUS
<1>2. hd'[n] = d /\ d.pc = "send"
  BY <1>1
<1>3. d.to \in Replica /\ d.items \in SUBSET Item
  BY <1>1, <1>2 DEF RepairInv, Delivery
<1>4. Reached(d.to, x) /\ x \in Version
  BY <1>1, <1>2, <1>3, ItemFacts DEF CausalInv, DeliveredInv
<1>5. Reached(d.to, x)'
  BY <1>3, <1>4, ReachedStays
<1> QED
  BY <1>2, <1>5 DEF Reached, Covers, Leq

LEMMA MarkersNext ==
  ASSUME NEW S, MarkersInv(S)', NEW n \in Replica, NEW t \in Replica, NEW m \in hints'[n][t], isMarker(m)
  PROVE  \A x \in All(S)' : Leq(x, m) => Reached(t, x)'
BY DEF MarkersInv, isMarker, Leq, Recorded, Fresh, Known, clockID, Reached, Covers

\* The hints for one target take in x.  What a hint covered, it or another
\* covers now, unless a marker does, and then it has reached the target.
LEMMA HintedPut ==
  ASSUME HintInv, StoreInv, CoInv, NEW S, CausalInv(S), RecordsKeep, CallsIn(S)', UNCHANGED storeVars,
         MarkersInv(S)', NEW n \in Replica, NEW t \in Replica, NEW x \in Version,
         hints' = [hints EXCEPT ![n][t] = Resolve(@, x)],
         \A c \in Client, m, p \in Replica : co'[c][m].res[p] = "hinted" =>
           \/ co[c][m].res[p] = "hinted"
           \/ m = n /\ p = t /\ co'[c][m].item = x /\ x \in Item
  PROVE  HintedInv'
<1> SUFFICES ASSUME NEW c \in Client, NEW m \in Replica, NEW p \in Replica,
                    co'[c][m].res[p] = "hinted", inc'[m] = 0
             PROVE  Covers(Pending(m, p), co[c][m].item)' \/ Reached(p, co[c][m].item)'
  BY DEF HintedInv
<1>1. PICK y : y = co'[c][m].item
  OBVIOUS
<1>2. StoresGrow /\ inc[m] = 0
  BY SameGrows DEF storeVars
<1>3. /\ hints[m][p] \in SUBSET Version
      /\ hints'[n][t] = Resolve(hints[n][t], x) /\ (m # n \/ p # t => hints'[m][p] = hints[m][p])
  BY DEF HintInv
<1>4. hints[n][t] \in SUBSET Version /\ hints'[n][t] = MergeSiblings(hints[n][t], {x})
  <2>1. hints[n][t] \in SUBSET Version
    BY DEF HintInv
  <2> QED
    BY <1>3, <2>1, ResolveIsMerge
<1>5. /\ hints'[n][t] \in SUBSET Version
      /\ \A z \in hints[n][t] \cup {x} : Covers(hints'[n][t], z)
  <2>1. PICK a, b : a = hints[n][t] /\ b = {x}
    OBVIOUS
  <2>2. a \in SUBSET Version /\ b \in SUBSET Version /\ Siblings(b)
    BY <1>4, <2>1 DEF Siblings
  <2>3. MergeSiblings(a, b) \subseteq a \cup b
    BY MergeWithin
  <2>4. \A z \in a \cup b : Covers(MergeSiblings(a, b), z)
    BY <2>2, MergeCovers
  <2> QED
    BY <1>4, <2>1, <2>2, <2>3, <2>4
<1>6. \A z \in hints[n][t] \cup {x} : Covers(hints'[n][t], z)
  BY <1>5
<1>7. y \in Item /\ y \in Version /\ (Covers(hints'[m][p], y) \/ Reached(p, y))
  <2>1. CASE m = n /\ p = t /\ y = x /\ x \in Item
    BY <1>6, <2>1
  <2>2. CASE co[c][m].res[p] = "hinted"
    <3>1. y = co[c][m].item /\ y \in Item /\ y \in Version
      BY <1>1, <2>2, RecordFacts DEF RecordsKeep, Keeps
    <3>2. Covers(Pending(m, p), y) \/ Reached(p, y)
      BY <1>2, <2>2, <3>1 DEF CausalInv, HintedInv
    <3>3. Covers(Pending(m, p), y) => Covers(hints[m][p], y)
      BY DEF Pending, Covers
    <3>4. CASE m = n /\ p = t
      <4>1. Covers(hints[m][p], y) => Covers(hints'[m][p], y)
        BY <1>4, <1>5, <1>6, <3>1, <3>4, CoversTransitive
      <4> QED
        BY <3>1, <3>2, <3>3, <4>1
    <3>5. CASE m # n \/ p # t
      BY <1>3, <3>1, <3>2, <3>3, <3>5
    <3> QED
      BY <3>4, <3>5
  <2> QED
    BY <1>1, <2>1, <2>2
<1>8. CASE Reached(p, y)
  <2>1. Reached(p, y)'
    BY <1>2, <1>7, <1>8, ReachedStays
  <2> QED
    BY <1>1, <2>1 DEF Reached, Covers, Leq
<1>9. CASE Covers(hints'[m][p], y)
  <2>1. PICK z \in hints'[m][p] : Leq(y, z)
    BY <1>9 DEF Covers
  <2>2. CASE ~isMarker(z)
    <3>1. Covers(Pending(m, p)', y)
      BY <2>1, <2>2 DEF Covers, Pending, isMarker
    <3> QED
      BY <1>1, <3>1 DEF Pending, isMarker, Covers, Leq
  <2>3. CASE isMarker(z)
    <3>1. y \in All(S)'
      BY <1>1, <1>7, ItemFacts DEF CallsIn, All
    <3>2. \A v \in All(S)' : Leq(v, z) => Reached(p, v)'
      BY <2>1, <2>3, MarkersNext
    <3>3. Reached(p, y)'
      BY <2>1, <3>1, <3>2 DEF Reached, Covers, Leq
    <3> QED
      BY <1>1, <3>3 DEF Reached, Covers, Leq
  <2> QED
    BY <2>2, <2>3
<1> QED
  BY <1>7, <1>8, <1>9

-----------------------------------------------------------------------------
(***************************************************************************)
(* The invariant from one state to the next, given what is particular to   *)
(* the step.  S1 has the versions of the next state.                       *)
(***************************************************************************)
LEMMA WithinMore ==
  ASSUME NEW S, NEW S1, S \subseteq S1, Within(S)
  PROVE  StoresIn(S1) /\ HintsIn(S1) /\ CallsIn(S1) /\ ReadsIn(S1) /\ RepairsIn(S1)
<1>1. StoresIn(S1) /\ HintsIn(S1)
  BY DEF Within, StoresIn, HintsIn
<1>2. CallsIn(S1) /\ ReadsIn(S1)
  BY DEF Within, CallsIn, ReadsIn
<1>3. RepairsIn(S1)
  BY DEF Within, RepairsIn
<1> QED
  BY <1>1, <1>2, <1>3

LEMMA CausalNext ==
  ASSUME FiniteFacts, Upheld, StoreInv', StoresGrow, NEW S, CausalInv(S), NEW S1, S \subseteq S1,
         NEW T, Orders(S1, T), Marks(T), StoresIn(S1)', HintsIn(S1)', RepairsIn(S1)', Calm(S1),
         DeliveredInv', HintedInv'
  PROVE  CausalInv(S1)' /\ S1 \in SUBSET Item
<1>1. StoreInv /\ CallInv /\ CoInv
  BY DEF Upheld, TypesInv
<1>2. OrderInv(S1)' /\ MarkersInv(S1)' /\ LimboInv' /\ S1 \in SUBSET Item
  BY <1>1, RestCarries
<1>3. ReadInv' /\ AckInv' /\ ReadsIn(S1)' /\ \A c \in Client : cl'[c].ctx = NoContext
  BY <1>1, ReadsCarry DEF Calm
<1>4. CallsIn(S1)' /\ undone' = {}
  BY DEF Calm, CausalInv
<1>5. Within(S1)'
  BY <1>3, <1>4 DEF Within
<1> QED
  BY <1>2, <1>3, <1>4, <1>5 DEF CausalInv

\* The hints stay, but those of a node whose disk is replaced.
HintsLeft == \A n \in Replica : hints'[n] = hints[n] \/ (inc'[n] > 0 /\ \A t \in Replica : hints'[n][t] = {})
\* What is put in limbo was known, and its node has halted.
LimboLeft(S) == \A n \in Replica : limbo'[n] \subseteq limbo[n] \cup S /\ (limbo'[n] # {} => n \in halted')

LEMMA HintsLeftFacts ==
  ASSUME HintsLeft
  PROVE  /\ \A n, t \in Replica : hints'[n][t] \subseteq hints[n][t]
         /\ \A n \in Replica : hints'[n] = hints[n] \/ inc'[n] > 0
         /\ \A S : HintsIn(S) => HintsIn(S)'
<1>1. ASSUME NEW n \in Replica, NEW t \in Replica PROVE hints'[n][t] \subseteq hints[n][t]
  BY DEF HintsLeft
<1>2. \A n \in Replica : hints'[n] = hints[n] \/ inc'[n] > 0
  BY DEF HintsLeft
<1>3. ASSUME NEW S, HintsIn(S) PROVE HintsIn(S)'
  BY <1>1, <1>3 DEF HintsIn, isMarker
<1> QED
  BY <1>1, <1>2, <1>3

LEMMA SameNodes ==
  ASSUME NEW S, CausalInv(S), UNCHANGED <<limbo, halted>>
  PROVE  LimboLeft(S)
BY DEF LimboLeft, CausalInv, LimboInv

\* The step makes no version and stores no hint.
LEMMA PlainCausal ==
  ASSUME FiniteFacts,
         Upheld, StoreInv', StoresGrow, NEW S \in SUBSET Item, CausalInv(S), Calm(S), NoNewHint,
         HintsLeft, LimboLeft(S), UNCHANGED past, StoresIn(S)', RepairsIn(S)', DeliveredInv'
  PROVE  CausalInv(S)'
<1>1. StoreInv /\ NodeInv /\ CoInv /\ HintInv
  BY DEF Upheld, TypesInv
<1>2. Orders(S, All(S))
  BY <1>1, OrderSame DEF LimboLeft
<1>3. Marks(All(S)) /\ HintsIn(S)'
  BY <1>1, HintsLeftFacts, MarksSame DEF CausalInv, Within
<1>4. HintedInv'
  BY <1>1, HintsLeftFacts, HintedCarry DEF Calm
<1> QED
  BY <1>2, <1>3, <1>4, CausalNext

LEMMA SameRepairs ==
  ASSUME Upheld, StoresGrow, NEW S, CausalInv(S), UNCHANGED repairVars
  PROVE  DeliveredInv' /\ \A S1 : S \subseteq S1 => RepairsIn(S1)'
<1>1. UNCHANGED hd /\ UNCHANGED ae
  BY DEF repairVars
<1>2. DeliveredInv'
  BY <1>1, DeliveredCarry DEF Upheld, TypesInv
<1>3. ASSUME NEW S1, S \subseteq S1 PROVE RepairsIn(S1)'
  <2>1. RepairsIn(S1)
    BY <1>3, WithinMore DEF CausalInv
  <2> QED
    BY <1>1, <2>1 DEF RepairsIn
<1> QED
  BY <1>2, <1>3

\* Nor does it touch the stores, the hints or the nodes.
LEMMA QuietCausal ==
  ASSUME FiniteFacts, Upheld, StoreInv', NEW S \in SUBSET Item, CausalInv(S), Calm(S), NoNewHint,
         UNCHANGED <<storeVars, hints, halted, limbo, past, repairVars>>
  PROVE  CausalInv(S)'
<1>1. StoresGrow /\ StoresIn(S)'
  BY SameGrows DEF CausalInv, Within
<1>2. HintsLeft /\ LimboLeft(S)
  BY SameNodes DEF HintsLeft
<1>3. DeliveredInv' /\ RepairsIn(S)'
  BY <1>1, SameRepairs
<1> QED
  BY <1>1, <1>2, <1>3, PlainCausal

\* A version of S is merged into the store of p.
LEMMA MergeCausal ==
  ASSUME FiniteFacts, Upheld, StoreInv', NEW S \in SUBSET Item, CausalInv(S), Calm(S), NoNewHint,
         NEW p \in Replica, NEW x \in S, PersisterPut(p, x),
         UNCHANGED <<flushed, inc, hints, halted, limbo, past>>, RepairsIn(S)',
         StoresGrow /\ Covers(Get(p)', x) => DeliveredInv'
  PROVE  CausalInv(S)'
<1>1. StoreInv /\ x \in Item
  BY DEF Upheld, TypesInv
<1>2. StoresGrow /\ Covers(Get(p)', x) /\ StoresIn(S)'
  BY <1>1, PutGrows DEF CausalInv, Within
<1>3. HintsLeft /\ LimboLeft(S)
  BY SameNodes DEF HintsLeft
<1> QED
  BY <1>2, <1>3, PlainCausal

-----------------------------------------------------------------------------
(***************************************************************************)
(* Calls that arrive late, and nodes that stop.                            *)
(***************************************************************************)
LEMMA ArrivesCausal ==
  ASSUME FiniteFacts,
         Upheld, StoreInv', NEW S \in SUBSET Item, CausalInv(S), UNCHANGED repairVars, NEW m \in net, Arrives(m)
  PROVE  CausalInv(S)'
<1>1. CallsIn(S) /\ m.to \in Replica /\ m.item \in S
  BY DEF Upheld, TypesInv, NetInv, CausalInv, Within, CallsIn
<1>2. /\ PersisterPut(m.to, m.item) /\ net' = net \ {m}
      /\ UNCHANGED <<flushed, inc, hints, cl, co, past, undone, nodeVars>>
  BY DEF Arrives, MergeReplicated
<1>3. Calm(S) /\ NoNewHint
  BY <1>1, <1>2, SameIsCalm
<1>4. UNCHANGED <<halted, limbo>>
  BY <1>2 DEF nodeVars
<1>5. (StoresGrow => DeliveredInv') /\ RepairsIn(S)'
  <2>1. UNCHANGED hd /\ UNCHANGED ae /\ RepairsIn(S) /\ RepairInv /\ StoreInv
    BY DEF repairVars, CausalInv, Within, Upheld, TypesInv
  <2> QED
    BY <2>1, DeliveredCarry DEF RepairsIn
<1>6. PICK p \in Replica, x \in S : p = m.to /\ x = m.item
  BY <1>1
<1>7. PersisterPut(p, x)
  BY <1>2, <1>6
<1> QED
  BY <1>2, <1>3, <1>4, <1>5, <1>7, MergeCausal

\* A process ends.
LEMMA EndsCausal ==
  ASSUME FiniteFacts, Upheld, StoreInv', NEW S \in SUBSET Item, CausalInv(S), NEW n \in Replica, Ends(n)
  PROVE  CausalInv(S)'
<1>1. CallsIn(S) /\ StoreInv /\ CallInv /\ CoInv /\ RepairInv /\ StoresIn(S) /\ RepairsIn(S)
  BY DEF Upheld, TypesInv, CausalInv, Within
<1>2. /\ UNCHANGED <<storeVars, hints, past, halted, limbo>>
      /\ hd' = [hd EXCEPT ![n] = NoDelivery] /\ ae' = [ae EXCEPT ![n] = NoReconcile]
  BY DEF Ends, Stopped
<1>3. Calm(S) /\ NoNewHint
  BY <1>1, EndsIsCalm
<1>4. StoresGrow /\ StoresIn(S)'
  BY <1>1, <1>2, SameGrows
<1>5. HintsLeft /\ LimboLeft(S)
  BY <1>2, SameNodes DEF HintsLeft
<1>6. ASSUME NEW m \in Replica
      PROVE  (hd'[m] = hd[m] \/ hd'[m] = NoDelivery) /\ (ae'[m] = ae[m] \/ ae'[m] = NoReconcile)
  BY <1>1, <1>2 DEF RepairInv
<1>7. DeliveredInv'
  <2>1. NoDelivery.pc = "idle"
    BY DEF NoDelivery
  <2>2. \A m \in Replica : hd'[m] = hd[m] \/ hd'[m].pc = "idle"
    BY <1>6, <2>1
  <2> QED
    BY <1>1, <1>4, <2>2, DeliveredCarry
<1>8. RepairsIn(S)'
  <2>1. /\ NoDelivery.todo = {} /\ NoDelivery.items = {}
        /\ NoReconcile.local = {} /\ NoReconcile.remote = {} /\ NoReconcile.todo = {}
    BY DEF NoDelivery, NoReconcile
  <2>2. ASSUME NEW m \in Replica
        PROVE  /\ hd'[m].todo \subseteq hd'[m].items /\ hd'[m].items \subseteq S
               /\ ae'[m].local \subseteq S /\ ae'[m].remote \subseteq S /\ ae'[m].todo \subseteq S
    BY <1>1, <1>6, <2>1 DEF RepairsIn
  <2> QED
    BY <2>2 DEF RepairsIn
<1> QED
  BY <1>2, <1>3, <1>4, <1>5, <1>7, <1>8, PlainCausal

LEMMA NoRepairs ==
  /\ NoDelivery.pc = "idle" /\ NoDelivery.todo = {} /\ NoDelivery.items = {}
  /\ NoReconcile.local = {} /\ NoReconcile.remote = {} /\ NoReconcile.todo = {}
BY DEF NoDelivery, NoReconcile

\* The hints of n for t take in x, a version of S or a marker.
LEMMA HintPutCausal ==
  ASSUME FiniteFacts,
         Upheld, StoreInv', NEW S \in SUBSET Item, CausalInv(S), Calm(S), NEW n \in Replica, NEW t \in Replica,
         NEW x \in Version, hints' = [hints EXCEPT ![n][t] = Resolve(@, x)],
         UNCHANGED <<storeVars, halted, limbo, past>>,
         x \in S \/ (isMarker(x) /\ Retires(t, x, All(S))),
         RepairsIn(S)', StoresGrow => DeliveredInv',
         \A c \in Client, m, p \in Replica : co'[c][m].res[p] = "hinted" =>
           \/ co[c][m].res[p] = "hinted"
           \/ m = n /\ p = t /\ co'[c][m].item = x /\ x \in Item
  PROVE  CausalInv(S)'
<1>1. StoreInv /\ NodeInv /\ CoInv /\ HintInv /\ StoresIn(S) /\ HintsIn(S)
  BY DEF Upheld, TypesInv, CausalInv, Within
<1>2. StoresGrow /\ StoresIn(S)'
  BY <1>1, SameGrows
<1>3. ASSUME NEW m \in Replica, NEW p \in Replica, NEW z \in hints'[m][p]
      PROVE  z \in hints[m][p] \/ (z = x /\ p = t)
  <2>1. hints'[m][p] = IF m = n /\ p = t THEN Resolve(hints[n][t], x) ELSE hints[m][p]
    BY <1>1 DEF HintInv
  <2>2. CASE m = n /\ p = t
    <3>1. hints[n][t] \in SUBSET Version
      <4>1. hints \in [Replica -> [Replica -> SUBSET Version]]
        BY <1>1 DEF HintInv
      <4> QED
        BY <4>1
    <3>2. Resolve(hints[n][t], x) = MergeSiblings(hints[n][t], {x})
      BY <3>1, ResolveIsMerge
    <3>3. MergeSiblings(hints[n][t], {x}) \subseteq hints[n][t] \cup {x}
      BY MergeWithin
    <3> QED
      BY <2>1, <2>2, <3>2, <3>3
  <2>3. CASE ~(m = n /\ p = t)
    BY <2>1, <2>3
  <2> QED
    BY <2>2, <2>3
<1>4. LimboLeft(S)
  BY SameNodes
<1>5. Orders(S, All(S))
  BY <1>1, <1>4, OrderSame DEF LimboLeft
<1>6. x \in S => ~isMarker(x)
  BY DEF CausalInv, OrderInv, All
<1>7. Marks(All(S))
  <2>1. ASSUME NEW m \in Replica, NEW p \in Replica, NEW z \in hints[m][p], isMarker(z)
        PROVE  Retires(p, z, All(S))
    BY <1>1, <2>1 DEF Retires, CausalInv, MarkersInv, HintInv
  <2> QED
    BY <1>3, <1>6, <2>1 DEF Marks
<1>8. HintsIn(S)'
  <2>1. ASSUME NEW m \in Replica, NEW p \in Replica, NEW z \in hints'[m][p] PROVE isMarker(z) \/ z \in S
    BY <1>1, <1>3 DEF HintsIn
  <2> QED
    BY <2>1 DEF HintsIn, isMarker
<1>9. MarkersInv(S)'
  BY <1>1, <1>2, <1>5, <1>7, RestCarries
<1>10. HintedInv'
  <2>1. RecordsKeep /\ CallsIn(S)' /\ UNCHANGED storeVars
    BY DEF Calm
  <2> QED
    BY <1>1, <1>9, <2>1, HintedPut
<1> QED
  BY <1>2, <1>5, <1>7, <1>8, <1>10, CausalNext

-----------------------------------------------------------------------------
(***************************************************************************)
(* Reads.  A write that has been acknowledged is at W replicas, and stays  *)
(* there; a read merges what each of its R replicas has.                   *)
(***************************************************************************)
LEMMA AckedReached ==
  ASSUME FiniteFacts, Upheld, undone = {}, NEW c \in Client, NEW n \in Replica, co[c][n].ans = "ok"
  PROVE  \E Q \in SUBSET Replica : Cardinality(Q) >= W /\ \A p \in Q : Reached(p, co[c][n].item)
<1> DEFINE O == Oks(co[c][n].res)
<1>1. Sound(c, n, co[c][n])
  BY DEF Upheld, TypesInv, CoInv
<1>2. n \notin O /\ 1 + Cardinality(O) >= W /\ O \in SUBSET Replica
  BY <1>1 DEF Sound, Oks
<1>3. ASSUME NEW p \in O \cup {n} PROVE Reached(p, co[c][n].item)
  <2>1. p \in Owes(n, co[c][n])
    BY DEF Owes, Oks
  <2>2. Holds(p, co[c][n].item)
    BY <2>1 DEF Upheld, HeldInv
  <2> QED
    BY <2>2 DEF Holds, Reached
<1> HIDE DEF O
<1>4. IsFiniteSet(O) /\ Cardinality(O) \in Nat /\ W \in Nat
  BY <1>2, ReplicaFacts
<1>5. Cardinality(O \cup {n}) = Cardinality(O) + 1
  BY <1>2, <1>4 DEF FiniteFacts, OfElements
<1>6. Cardinality(O \cup {n}) >= W
  BY <1>2, <1>4, <1>5, SMT
<1>7. O \cup {n} \in SUBSET Replica
  BY <1>2
<1> QED
  BY <1>3, <1>6, <1>7

\* The call of one client that reads goes on as new.
Reads(c, new) ==
  /\ cl' = [cl EXCEPT ![c] = new] /\ UNCHANGED <<storeVars, hints, nodeVars, repairVars>>
  /\ UNCHANGED <<co, net, past, undone>>
\* The answers new has merged.
ShownBy(new, x) ==
  \E Q \in SUBSET Replica :
    /\ Cardinality(Q) >= W
    /\ \A p \in Q : Reached(p, x) /\ (p \in new.resp => Covers(new.merged, x) \/ inc[p] > 0)

-----------------------------------------------------------------------------
(***************************************************************************)
(* Every step.  A state that no rollback has disturbed has none behind it  *)
(* that was disturbed.                                                     *)
(***************************************************************************)

LEMMA RollbackDisturbs ==
  ASSUME CoInv, NEW c \in Client, NEW n \in Replica, Rollback(c, n)
  PROVE  co'[c][n].ans = "quorum"
<1>1. PICK old, new : old = co[c][n] /\ new = [old EXCEPT !.pc = "done", !.ans = "quorum"]
  OBVIOUS
<1>2. co' = [co EXCEPT ![c][n].pc = "done", ![c][n].ans = "quorum"]
  BY DEF Rollback
<1>3. co' = [co EXCEPT ![c][n] = new] /\ old \in Coordination
  BY <1>1, <1>2 DEF CoInv
<1>4. co'[c][n] = new /\ new.ans = "quorum"
  BY <1>1, <1>3 DEF CoInv, Coordination
<1> QED
  BY <1>4

LEMMA UndisturbedBefore ==
  ASSUME FiniteFacts, Upheld, [Next]_vars, Undisturbed'
  PROVE  Undisturbed /\ RecordsKeep
<1>CoordinatorKeeps.
  ASSUME NEW c \in Client, NEW n \in Replica,
         \/ PutStore(c, n) \/ PutFails(c, n) \/ PutHalts(c, n) \/ Cancel(c, n)
         \/ \E p \in Peers(n) :
              \/ Replicate(c, n, p) \/ Accepted(c, n, p) \/ Unavailable(c, n, p)
              \/ ReplicateHalts(c, n, p) \/ Refused(c, n, p) \/ Timeout(c, n, p)
              \/ Lost(c, n, p, "unavailable") \/ Lost(c, n, p, "error")
              \/ StoreHint(c, n, p)
  PROVE  RecordsKeep
  <2> USE <1>CoordinatorKeeps
  <2>1. CallInv /\ CoInv /\ StoreInv /\ NetInv
    BY DEF Upheld, TypesInv
  <2>2. PICK S : S = Item
    OBVIOUS
  <2>3. CallsIn(S)
    <3>1. \A d \in Client, m \in Replica : co[d][m].item \in S \cup {NoVersion}
      BY <2>1, <2>2 DEF CoInv, Coordination
    <3> QED
      BY <2>1, <2>2, <3>1 DEF CallsIn, NetInv
  <2>4. CASE PutStore(c, n)
    <3>1. cl[c].ctx \in Clock \cup {NoContext}
      BY <2>1 DEF CallInv, Call
    <3>2. NewVersion(n, cl[c].ctx, c) \in S
      BY <2>1, <2>2, <3>1, NewVersionType
    <3>3. Calm(S)
      BY <2>1, <2>3, <2>4, <3>2, PutStoreIsCalm
    <3> QED
      BY <3>3 DEF Calm
  <2>5. CASE PutFails(c, n) \/ PutHalts(c, n) \/ Cancel(c, n)
    BY <2>1, <2>3, <2>5, PutFailsIsCalm, CancelIsCalm DEF Calm
  <2>6. ASSUME NEW p \in Peers(n),
               \/ Accepted(c, n, p) \/ Unavailable(c, n, p) \/ Refused(c, n, p) \/ Timeout(c, n, p)
               \/ Lost(c, n, p, "unavailable") \/ Lost(c, n, p, "error") \/ ReplicateHalts(c, n, p)
        PROVE  RecordsKeep
    BY <2>1, <2>3, <2>6, AnswerIsCalm DEF Calm
  <2>7. ASSUME NEW p \in Peers(n), Replicate(c, n, p) \/ StoreHint(c, n, p)
        PROVE  RecordsKeep
    <3>1. PICK r \in {"applied", "hinted", "error"} : co' = [co EXCEPT ![c][n].res[p] = r]
      BY <2>7 DEF Replicate, StoreHint
    <3>2. UNCHANGED <<cl, net, undone>>
      BY <2>7 DEF Replicate, StoreHint
    <3>3. Calm(S)
      BY <2>1, <2>3, <3>1, <3>2, ReplicateIsCalm
    <3> QED
      BY <3>3 DEF Calm
  <2> QED
    BY <2>4, <2>5, <2>6, <2>7

<1>StepsKeep.
  ASSUME \A c \in Client : Mode[c] # "readput",
         \A c \in Client, n \in Replica : co'[c][n].ans # "quorum"
  PROVE  RecordsKeep
  <2> USE <1>StepsKeep
  <2>1. CallInv /\ CoInv /\ NetInv /\ ChainInv
    BY DEF Upheld, TypesInv
  <2>2. PICK S : S = Item
    OBVIOUS
  <2>3. CallsIn(S)
    <3>1. \A d \in Client, m \in Replica : co[d][m].item \in S \cup {NoVersion}
      BY <2>1, <2>2 DEF CoInv, Coordination
    <3> QED
      BY <2>1, <2>2, <3>1 DEF CallsIn, NetInv
  <2>4. CASE UNCHANGED co
    BY <2>4, SameRecords
  <2>5. CASE UNCHANGED vars
    BY <2>4, <2>5 DEF vars, coordVars
  <2>6. CASE ClientStep
    <3>1. PICK c \in Client :
            \/ \E n \in Replica \cup Front : GetBegin(c, n) \/ PutBegin(c, n)
            \/ \E p \in Replica : GetResponse(c, p) \/ GetFailure(c, p)
            \/ ForwardSkip(c) \/ ForwardSend(c) \/ ForwardReturn(c) \/ ForwardLost(c)
      BY <2>6 DEF ClientStep
    <3>2. CASE \/ \E n \in Replica \cup Front : PutBegin(c, n)
               \/ ForwardSkip(c) \/ ForwardSend(c) \/ ForwardReturn(c) \/ ForwardLost(c)
      BY <2>1, <2>3, <3>2, ClientIsCalm DEF Calm
    <3>3. CASE \E n \in Replica \cup Front : GetBegin(c, n)
      BY <2>4, <3>3 DEF GetBegin
    <3>4. CASE \E p \in Replica : GetResponse(c, p) \/ GetFailure(c, p)
      BY <2>4, <3>4 DEF GetResponse, GetFailure
    <3> QED
      BY <3>1, <3>2, <3>3, <3>4
  <2>7. CASE CoordinatorStep
    <3>1. ASSUME NEW c \in Client, NEW n \in Replica, Rollback(c, n) PROVE FALSE
      BY <2>1, <3>1, RollbackDisturbs
    <3> QED
      BY <2>7, <3>1, <1>CoordinatorKeeps DEF CoordinatorStep
  <2>8. CASE NodeStep
    BY <2>4, <2>8 DEF NodeStep, Close, CloseBegin, Restart, Replace, FlushStore, coordVars
  <2>9. CASE \E m \in net : Arrives(m)
    BY <2>4, <2>9 DEF Arrives
  <2>10. CASE RepairStep
    BY <2>4, <2>10 DEF RepairStep, HintSend, HintMerge, HintMark, HintFails, ReconcileBegin,
       ReconcileFetch, ReconcilePull, ReconcilePush, ReconcileMerge, ReconcileFails, coordVars
  <2>11. CASE \E n \in Replica : Crash(n) \/ CloseEnd(n)
    <3>1. PICK n \in Replica : Ends(n)
      BY <2>11 DEF Crash, CloseEnd
    <3> QED
      BY <2>1, <2>3, <3>1, EndsIsCalm DEF Calm
  <2> QED
    BY <2>5, <2>6, <2>7, <2>8, <2>9, <2>10, <2>11 DEF Next
<1>1. UNCHANGED env
  BY DEF Next, vars
<1>2. /\ \A c \in Client : Mode[c] # "readput"
      /\ \A c \in Client, n \in Replica : co'[c][n].ans # "quorum"
  BY <1>1 DEF Undisturbed, Mode
<1>3. RecordsKeep
  BY <1>2, <1>StepsKeep
<1>4. ASSUME NEW c \in Client, NEW n \in Replica, co[c][n].ans = "quorum" PROVE FALSE
  <2>1. Keeps(co[c][n], co'[c][n])
    BY <1>3 DEF RecordsKeep
  <2> QED
    BY <1>2, <1>4, <2>1 DEF Keeps
<1> QED
  BY <1>2, <1>3, <1>4 DEF Undisturbed

-----------------------------------------------------------------------------
\* The clients' steps.
LEMMA ClientStepCausal ==
  ASSUME FiniteFacts,
         Upheld, StoreInv', Undisturbed, NEW S \in SUBSET Item, CausalInv(S), UNCHANGED repairVars, ClientStep
  PROVE  CausalInv(S)'
<1>ClientCausal.
  ASSUME NEW c \in Client, Mode[c] # "readput",
         \/ \E n \in Replica \cup Front : PutBegin(c, n)
         \/ ForwardSkip(c) \/ ForwardSend(c) \/ ForwardReturn(c) \/ ForwardLost(c)
  PROVE  CausalInv(S)'
  <2> USE <1>ClientCausal
  <2>1. CallInv /\ CoInv /\ ChainInv /\ CallsIn(S)
    BY DEF Upheld, TypesInv, CausalInv, Within
  <2>2. Calm(S) /\ NoNewHint
    BY <2>1, ClientIsCalm
  <2>3. UNCHANGED <<storeVars, hints, nodeVars, past>>
    BY DEF PutBegin, ForwardSkip, ForwardSend, ForwardReturn, ForwardLost
  <2>4. UNCHANGED <<halted, limbo>>
    BY <2>3 DEF nodeVars
  <2> QED
    BY <2>2, <2>3, <2>4, QuietCausal

<1>ReadCausal.
  ASSUME NEW c \in Client, NEW new, Reads(c, new), new.pc \in {"getting", "got"},
         new.ctx = NoContext, new.merged \subseteq S, new.since \subseteq Client,
         new.pc = "got" => Cardinality(new.resp) >= R,
         \A d \in new.since : \E n \in Replica : co[d][n].ans = "ok" /\ ShownBy(new, co[d][n].item)
  PROVE  CausalInv(S)'
  <2> USE <1>ReadCausal
  <2>1. /\ StoreInv /\ NodeInv /\ CoInv /\ HintInv /\ CallInv /\ StoresIn(S) /\ HintsIn(S) /\ CallsIn(S)
        /\ ReadsIn(S) /\ undone = {}
    BY DEF Upheld, TypesInv, CausalInv, Within
  <2>2. /\ UNCHANGED <<storeVars, hints, nodeVars>> /\ UNCHANGED repairVars /\ UNCHANGED co /\ UNCHANGED net
        /\ UNCHANGED past /\ UNCHANGED undone /\ UNCHANGED inc /\ UNCHANGED <<limbo, halted>>
    BY DEF Reads, nodeVars, storeVars
  <2>3. cl'[c] = new /\ \A d \in Client : d # c => cl'[d] = cl[d]
    BY <2>1 DEF Reads, CallInv
  <2>4. StoresGrow /\ StoresIn(S)' /\ HintsLeft /\ LimboLeft(S)
    BY <2>1, <2>2, SameGrows, SameNodes DEF HintsLeft
  <2>5. DeliveredInv' /\ RepairsIn(S)'
    BY <2>2, <2>4, SameRepairs
  <2>6. HintedInv'
    BY <2>1, <2>2, <2>4, SameRecords, HintsLeftFacts, HintedCarry
  <2>7. Orders(S, All(S)) /\ Marks(All(S)) /\ HintsIn(S)'
    <3>1. Orders(S, All(S))
      BY <2>1, <2>2, <2>4, OrderSame DEF LimboLeft
    <3> QED
      BY <2>1, <2>4, <3>1, HintsLeftFacts, MarksSame
  <2>8. OrderInv(S)' /\ MarkersInv(S)' /\ LimboInv'
    BY <2>1, <2>4, <2>7, RestCarries
  <2>9. CallsIn(S)' /\ undone' = {}
    BY <2>1, <2>2 DEF CallsIn
  <2>10. ReadsIn(S)' /\ \A d \in Client : cl'[d].ctx = NoContext
    <3>1. ASSUME NEW d \in Client PROVE cl'[d].merged \subseteq S /\ cl'[d].ctx = NoContext
      BY <2>1, <2>3 DEF ReadsIn, CausalInv
    <3> QED
      BY <3>1 DEF ReadsIn
  <2>11. AckInv'
    <3> SUFFICES ASSUME NEW d \in Client, cl'[d].pc = "ok" PROVE \E n \in Replica : co'[d][n].ans = "ok"
      BY DEF AckInv, Acked
    <3>1. cl[d].pc = "ok"
      BY <2>3
    <3> QED
      BY <2>2, <3>1 DEF CausalInv, AckInv, Acked
  <2>12. ReadInv'
    <3> SUFFICES ASSUME NEW d \in Client, cl'[d].pc \in {"getting", "got"}
                 PROVE  /\ cl'[d].pc = "got" => Cardinality(cl'[d].resp) >= R
                        /\ \A e \in cl'[d].since : \E n \in Replica : co'[e][n].ans = "ok" /\ Shown(d, co[e][n].item)'
      BY DEF ReadInv
    <3>1. CASE d = c
      <4>1. ASSUME NEW x \in Version, ShownBy(new, x) PROVE Shown(c, x)'
        <5>1. PICK Q \in SUBSET Replica :
                /\ Cardinality(Q) >= W
                /\ \A p \in Q : Reached(p, x) /\ (p \in new.resp => Covers(new.merged, x) \/ inc[p] > 0)
          BY <4>1 DEF ShownBy
        <5>2. ASSUME NEW p \in Q
              PROVE  Reached(p, x)' /\ (p \in cl'[c].resp => Covers(cl'[c].merged, x) \/ inc'[p] > 0)
          <6>1. p \in Replica /\ Reached(p, x) /\ (p \in new.resp => Covers(new.merged, x) \/ inc[p] > 0)
            BY <5>1
          <6>2. Reached(p, x)'
            BY <2>1, <2>4, <6>1, ReachedStays
          <6> QED
            BY <2>2, <2>3, <6>1, <6>2
        <5> QED
          BY <5>1, <5>2 DEF Shown, Reached, Covers, Leq
      <4>2. ASSUME NEW e \in cl'[d].since
            PROVE  \E n \in Replica : co'[e][n].ans = "ok" /\ Shown(d, co[e][n].item)'
        <5>1. PICK n \in Replica : co[e][n].ans = "ok" /\ ShownBy(new, co[e][n].item)
          BY <2>3, <3>1
        <5>2. PICK x : x = co[e][n].item
          OBVIOUS
        <5>3. x \in Version
          BY <2>1, <2>3, <3>1, <5>1, <5>2, RecordFacts
        <5>4. Shown(c, x)' /\ co'[e][n].ans = "ok" /\ co'[e][n].item = x
          BY <2>2, <4>1, <5>1, <5>2, <5>3
        <5> QED
          BY <3>1, <5>4 DEF Shown, Reached, Covers, Leq
      <4> QED
        BY <2>3, <3>1, <4>2
    <3>2. CASE d # c
      <4>1. cl'[d] = cl[d]
        BY <2>3, <3>2
      <4>2. /\ cl[d].pc = "got" => Cardinality(cl[d].resp) >= R
            /\ \A e \in cl[d].since : \E n \in Replica : co[e][n].ans = "ok" /\ Shown(d, co[e][n].item)
        BY <4>1 DEF CausalInv, ReadInv
      <4>3. ASSUME NEW e \in cl'[d].since
            PROVE  \E n \in Replica : co'[e][n].ans = "ok" /\ Shown(d, co[e][n].item)'
        <5>1. e \in Client
          BY <2>1, <4>1 DEF CallInv, Call
        <5>2. PICK n \in Replica : co[e][n].ans = "ok" /\ Shown(d, co[e][n].item)
          BY <4>1, <4>2
        <5>3. PICK x : x = co[e][n].item
          OBVIOUS
        <5>4. x \in Version /\ Shown(d, x)
          BY <2>1, <5>1, <5>2, <5>3, RecordFacts
        <5>5. Shown(d, x)'
          BY <2>1, <2>4, <4>1, <5>4, ShownStays
        <5>6. co'[e][n].ans = "ok" /\ co'[e][n].item = x
          BY <2>2, <5>2, <5>3
        <5> QED
          BY <5>5, <5>6 DEF Shown, Reached, Covers, Leq
      <4> QED
        BY <4>1, <4>2, <4>3
    <3> QED
      BY <3>1, <3>2
  <2>13. Within(S)'
    BY <2>4, <2>5, <2>7, <2>9, <2>10 DEF Within
  <2> QED
    BY <2>5, <2>6, <2>8, <2>9, <2>10, <2>11, <2>12, <2>13 DEF CausalInv

<1>GetBeginCausal.
  ASSUME NEW c \in Client, NEW n \in Replica \cup Front, GetBegin(c, n)
  PROVE  CausalInv(S)'
  <2> USE <1>GetBeginCausal
  <2>1. StoresIn(S) /\ undone = {} /\ AckInv
    BY DEF CausalInv, Within
  <2>2. PICK pc, merged, resp, new :
          /\ pc = (IF n \in Replica /\ R = 1 THEN "got" ELSE "getting")
          /\ merged = (IF n \in Replica THEN Get(n) ELSE {}) /\ resp = {n} \cap Replica
          /\ new = [NoCall EXCEPT !.at = n, !.since = Acked, !.pc = pc, !.merged = merged, !.resp = resp]
    OBVIOUS
  <2>3. cl' = [cl EXCEPT ![c] = new]
    BY <2>2 DEF GetBegin
  <2>4. UNCHANGED <<storeVars, hints, nodeVars, repairVars>> /\ UNCHANGED <<co, net, past, undone>>
    BY DEF GetBegin
  <2>5. Reads(c, new)
    BY <2>3, <2>4 DEF Reads
  <2>6. /\ new.pc = pc /\ new.merged = merged /\ new.resp = resp /\ new.since = Acked /\ new.ctx = NoContext
        /\ pc \in {"getting", "got"}
    BY <2>2 DEF NoCall
  <2>7. merged \subseteq S /\ Acked \subseteq Client
    <3>1. n \in Replica => Get(n) \subseteq S
      BY <2>1, MergeWithin DEF Get, StoresIn
    <3> QED
      BY <2>2, <3>1 DEF Acked
  <2>8. pc = "got" => Cardinality(resp) >= R
    <3>1. SUFFICES ASSUME n \in Replica, R = 1 PROVE Cardinality(resp) >= R
      BY <2>2
    <3>2. resp = {n}
      BY <2>2, <3>1
    <3>3. Cardinality({n}) = 1
      BY DEF FiniteFacts, OfSingletons
    <3> QED
      BY <3>1, <3>2, <3>3, SMT
  <2>9. ASSUME NEW d \in new.since PROVE \E m \in Replica : co[d][m].ans = "ok" /\ ShownBy(new, co[d][m].item)
    <3>1. d \in Acked /\ d \in Client
      BY <2>6, <2>7
    <3>2. PICK m \in Replica : co[d][m].ans = "ok"
      BY <2>1, <3>1 DEF AckInv
    <3>3. PICK Q \in SUBSET Replica : Cardinality(Q) >= W /\ \A p \in Q : Reached(p, co[d][m].item)
      BY <2>1, <3>1, <3>2, AckedReached
    <3>4. ASSUME NEW p \in Q, p \in new.resp PROVE Covers(new.merged, co[d][m].item) \/ inc[p] > 0
      <4>1. p = n /\ n \in Replica
        BY <2>2, <2>6, <3>4
      <4>2. new.merged = Get(p)
        BY <2>2, <2>6, <4>1
      <4> QED
        BY <3>3, <4>2 DEF Reached
    <3> QED
      BY <3>2, <3>3, <3>4 DEF ShownBy
  <2> QED
    BY <2>5, <2>6, <2>7, <2>8, <2>9, <1>ReadCausal

<1>GetResponseCausal.
  ASSUME NEW c \in Client, NEW p \in Replica, GetResponse(c, p)
  PROVE  CausalInv(S)'
  <2> USE <1>GetResponseCausal
  <2>1. StoresIn(S) /\ ReadsIn(S) /\ ReadInv /\ StoreInv /\ CallInv /\ CoInv /\ cl[c].ctx = NoContext
    BY DEF Upheld, TypesInv, CausalInv, Within
  <2>2. PICK old, pc, merged, resp, new :
          /\ old = cl[c] /\ pc = (IF Cardinality(old.resp) + 1 >= R THEN "got" ELSE old.pc)
          /\ merged = MergeSiblings(old.merged, Get(p)) /\ resp = old.resp \cup {p}
          /\ new = [old EXCEPT !.merged = merged, !.resp = resp, !.pc = pc]
    OBVIOUS
  <2>3. old \in Call /\ old.pc = "getting" /\ p \notin old.resp /\ List(old.merged)
    BY <2>1, <2>2 DEF GetResponse, CallInv
  <2>4. cl' = [cl EXCEPT ![c] = new]
    <3>1. cl' = [cl EXCEPT ![c].merged = merged, ![c].resp = resp, ![c].pc = pc]
      BY <2>2 DEF GetResponse
    <3> QED
      BY <2>1, <2>2, <3>1 DEF CallInv
  <2>5. UNCHANGED <<storeVars, hints, nodeVars, repairVars>> /\ UNCHANGED <<co, net, past, undone>>
    BY DEF GetResponse
  <2>6. Reads(c, new)
    BY <2>4, <2>5 DEF Reads
  <2>7. /\ new.pc = pc /\ new.merged = merged /\ new.resp = resp /\ new.since = old.since /\ new.ctx = NoContext
        /\ old.since \subseteq Client /\ pc \in {"getting", "got"}
    <3>1. new.pc = pc /\ new.merged = merged /\ new.resp = resp /\ new.since = old.since /\ new.ctx = old.ctx
      BY <2>2, <2>3 DEF Call
    <3>2. old.since \subseteq Client /\ old.ctx = NoContext
      BY <2>1, <2>2, <2>3 DEF Call
    <3> QED
      BY <2>2, <2>3, <3>1, <3>2
  <2>8. /\ old.merged \in SUBSET Version /\ Get(p) \in SUBSET Version /\ Siblings(Get(p)) /\ merged \in SUBSET Version
        /\ merged \subseteq S
    <3>1. List(Get(p))
      BY <2>1, GetList
    <3>2. old.merged \in SUBSET Version /\ Get(p) \in SUBSET Version /\ Siblings(Get(p))
      BY <2>3, <3>1, ItemFacts DEF List, Items
    <3>3. merged \subseteq old.merged \cup Get(p) /\ Get(p) \subseteq active[p] \cup flushed[p]
      BY <2>2, MergeWithin DEF Get
    <3>4. old.merged \subseteq S /\ active[p] \subseteq S /\ flushed[p] \subseteq S
      BY <2>1, <2>2 DEF ReadsIn, StoresIn
    <3> QED
      BY <3>2, <3>3, <3>4
  <2>9. pc = "got" => Cardinality(resp) >= R
    <3>1. IsFiniteSet(old.resp) /\ Cardinality(old.resp) \in Nat
      BY <2>3, ReplicaFacts DEF Call
    <3>2. Cardinality(resp) = Cardinality(old.resp) + 1
      BY <2>2, <2>3, <3>1 DEF FiniteFacts, OfElements
    <3> QED
      BY <2>2, <2>3, <3>2
  <2>10. ASSUME NEW x \in Version, Covers(old.merged, x) \/ Covers(Get(p), x) PROVE Covers(merged, x)
    <3>1. \A y \in old.merged \cup Get(p) : Covers(merged, y)
      BY <2>2, <2>8, MergeCovers
    <3>2. Covers(old.merged, x) => Covers(merged, x)
      BY <2>8, <3>1, CoversTransitive
    <3>3. Covers(Get(p), x) => Covers(merged, x)
      BY <2>8, <3>1, CoversTransitive
    <3> QED
      BY <2>10, <3>2, <3>3
  <2>11. ASSUME NEW d \in new.since PROVE \E m \in Replica : co[d][m].ans = "ok" /\ ShownBy(new, co[d][m].item)
    <3>1. d \in Client
      BY <2>7
    <3>2. PICK m \in Replica : co[d][m].ans = "ok" /\ Shown(c, co[d][m].item)
      BY <2>1, <2>2, <2>3, <2>7 DEF ReadInv
    <3>3. PICK x : x = co[d][m].item
      OBVIOUS
    <3>4. x \in Version /\ Shown(c, x)
      BY <2>1, <3>1, <3>2, <3>3, RecordFacts
    <3>5. PICK Q \in SUBSET Replica :
            /\ Cardinality(Q) >= W
            /\ \A q \in Q : Reached(q, x) /\ (q \in old.resp => Covers(old.merged, x) \/ inc[q] > 0)
      BY <2>2, <3>4 DEF Shown
    <3>6. ASSUME NEW q \in Q, q \in new.resp PROVE Covers(new.merged, x) \/ inc[q] > 0
      <4>1. q \in old.resp \/ q = p
        BY <2>2, <2>7, <3>6
      <4>2. Covers(old.merged, x) \/ Covers(Get(p), x) \/ inc[q] > 0
        BY <3>5, <4>1 DEF Reached
      <4> QED
        BY <2>7, <2>10, <3>4, <4>2
    <3>7. ShownBy(new, x)
      BY <3>5, <3>6 DEF ShownBy
    <3> QED
      BY <3>2, <3>3, <3>7
  <2> QED
    BY <2>6, <2>7, <2>8, <2>9, <2>11, <1>ReadCausal

<1>GetFailureCausal.
  ASSUME NEW c \in Client, NEW p \in Replica, GetFailure(c, p)
  PROVE  CausalInv(S)'
  <2> USE <1>GetFailureCausal
  <2>1. CallInv /\ CallsIn(S)
    BY DEF Upheld, TypesInv, CausalInv, Within
  <2>2. PICK old, pc, failed, new :
          /\ old = cl[c] /\ pc = (IF Total - Cardinality(old.failed) - 1 < R THEN "failed" ELSE old.pc)
          /\ failed = old.failed \cup {p} /\ new = [old EXCEPT !.failed = failed, !.pc = pc]
    OBVIOUS
  <2>3. old \in Call /\ old.pc = "getting" /\ pc \in {"failed", "getting"}
    BY <2>1, <2>2 DEF GetFailure, CallInv
  <2>4. cl' = [cl EXCEPT ![c] = new]
    <3>1. cl' = [cl EXCEPT ![c].failed = failed, ![c].pc = pc]
      BY <2>2 DEF GetFailure
    <3> QED
      BY <2>1, <2>2, <3>1 DEF CallInv
  <2>5. UNCHANGED <<storeVars, hints, co, net, past, undone, nodeVars>>
    BY DEF GetFailure
  <2>6. new.pc = pc /\ new.merged = old.merged /\ new.resp = old.resp /\ new.since = old.since /\ new.ctx = old.ctx
    BY <2>2, <2>3 DEF Call
  <2>7. CallKeeps(cl[c], new) /\ new.pc # "ok"
    BY <2>2, <2>3, <2>6 DEF CallKeeps
  <2>8. CallsKeep
    BY <2>1, <2>4, <2>7, OneCall
  <2>9. RecordsKeep /\ NoNewHint /\ CallsIn(S)'
    BY <2>1, <2>5, SameRecords DEF CallsIn
  <2>10. Calm(S) /\ UNCHANGED <<halted, limbo>>
    BY <2>5, <2>8, <2>9 DEF Calm, nodeVars
  <2> QED
    BY <2>5, <2>9, <2>10, QuietCausal
<1>1. PICK c \in Client :
        \/ \E n \in Replica \cup Front : GetBegin(c, n) \/ PutBegin(c, n)
        \/ \E p \in Replica : GetResponse(c, p) \/ GetFailure(c, p)
        \/ ForwardSkip(c) \/ ForwardSend(c) \/ ForwardReturn(c) \/ ForwardLost(c)
  BY DEF ClientStep
<1>2. CASE \/ \E n \in Replica \cup Front : PutBegin(c, n)
           \/ ForwardSkip(c) \/ ForwardSend(c) \/ ForwardReturn(c) \/ ForwardLost(c)
  <2>1. Mode[c] # "readput"
    BY DEF Undisturbed
  <2> QED
    BY <1>2, <2>1, <1>ClientCausal
<1>3. CASE \E n \in Replica \cup Front : GetBegin(c, n)
  BY <1>3, <1>GetBeginCausal
<1>4. CASE \E p \in Replica : GetResponse(c, p)
  BY <1>4, <1>GetResponseCausal
<1>5. CASE \E p \in Replica : GetFailure(c, p)
  BY <1>5, <1>GetFailureCausal
<1> QED
  BY <1>1, <1>2, <1>3, <1>4, <1>5

\* The coordinators' steps.
LEMMA CoordinatorCausal ==
  ASSUME FiniteFacts,
         Upheld, StoreInv', NEW S \in SUBSET Item, CausalInv(S), UNCHANGED repairVars, CoordinatorStep,
         \A c \in Client, n \in Replica : ~Rollback(c, n)
  PROVE  \E S1 \in SUBSET Item : CausalInv(S1)'
<1>NewClock.
  ASSUME StoreInv, NEW n \in Replica, NEW c \in Client, NEW y, Makes(n, c, y)
  PROVE  /\ y \in Item /\ y.val = c
         /\ y.clock[clockID(n)] = UnionVectorClock(Get(n))[clockID(n)] + 1
         /\ \A i \in ClockIDs : i # clockID(n) => y.clock[i] = UnionVectorClock(Get(n))[i]
  <2> USE <1>NewClock
  <2>1. y \in Item /\ y.val = c
    BY NewVersionType DEF Makes
  <2>2. PICK u : u = UnionVectorClock(Get(n))
    OBVIOUS
  <2>3. u \in Clock /\ clockID(n) \in ClockIDs
    BY <2>2, GetList, ItemFacts, UnionType, EntryFacts DEF List, Items
  <2>4. y.clock = [u EXCEPT ![clockID(n)] = @ + 1]
    BY <2>2 DEF Makes, NewVersion, BuildFromContext
  <2>5. /\ y.clock[clockID(n)] = u[clockID(n)] + 1
        /\ \A i \in ClockIDs : i # clockID(n) => y.clock[i] = u[i]
    BY <2>3, <2>4 DEF Clock
  <2> QED
    BY <2>1, <2>2, <2>5

\* Its own entry is beyond all that n knows of.
<1>NewIsNew.
  ASSUME StoreInv, NEW n \in Replica, NEW c \in Client, NEW y, Makes(n, c, y), NEW k \in Nat,
         Known(n, k)
  PROVE  k < y.clock[clockID(n)] /\ y.clock[clockID(n)] \in Nat
  <2> USE <1>NewIsNew
  <2>1. Get(n) \in SUBSET Item /\ IsFiniteSet(Get(n))
    BY GetList DEF List, Items
  <2>2. PICK i \in ClockIDs : i = clockID(n)
    BY EntryFacts
  <2>3. PICK u : u = UnionVectorClock(Get(n))[i]
    OBVIOUS
  <2>4. u \in Nat /\ \A x \in Get(n) : x.clock[i] <= u /\ x.clock[i] \in Nat
    BY <2>1, <2>3, UnionAt, ClockFacts
  <2>5. y.clock[i] = u + 1
    BY <2>2, <2>3, <1>NewClock, ZenonT(40)
  <2>6. k <= u
    BY <2>2, <2>4, SMT DEF Known
  <2> QED
    BY <2>2, <2>4, <2>5, <2>6, SMT

<1>OrderGrows.
  ASSUME StoreInv, NodeInv, PastInv, NEW n \in Replica, n \notin halted, NEW c \in Client, NEW y,
         Makes(n, c, y), past' = Built(c, n)
  PROVE  LET T == All(S) \cup {y}
         IN  /\ T \subseteq Item /\ HaveOwn(T) /\ FaithfulNext(T) /\ Fresh(T) /\ \A x \in T : ~isMarker(x)
             /\ \A m \in Replica : m # n => Known(m, y.clock[clockID(m)])
  <2> USE <1>OrderGrows
  <2>NewIsAfter.
    \A z \in Get(n) : Leq(z, y)
    <3>1. SUFFICES ASSUME NEW z \in Get(n), NEW i \in ClockIDs PROVE z.clock[i] <= y.clock[i]
      BY DEF Leq
    <3>2. y.clock[i] = UnionVectorClock(Get(n))[i] \/ y.clock[i] = UnionVectorClock(Get(n))[i] + 1
      BY <1>NewClock, SMT
    <3>3. Get(n) \in SUBSET Item /\ IsFiniteSet(Get(n))
      BY GetList DEF List, Items
    <3>4. z.clock[i] <= UnionVectorClock(Get(n))[i] /\ UnionVectorClock(Get(n))[i] \in Nat
      BY <3>3, UnionAt
    <3>5. z.clock[i] \in Nat
      BY <3>3, ClockFacts
    <3> QED
      BY <3>2, <3>4, <3>5, SMT

  \* Whatever else it has seen, it has seen in n's store.
  <2>NewHasSeen.
    ASSUME NEW i \in ClockIDs, NEW k \in Nat \ {0}, k <= y.clock[i], i = clockID(n) => Known(n, k)
    PROVE  \E z \in Get(n) : z.clock[i] >= k
    <3> USE <2>NewHasSeen
    <3>1. CASE i = clockID(n)
      BY <3>1 DEF Known
    <3>2. CASE i # clockID(n)
      <4>1. Get(n) \in SUBSET Item /\ IsFiniteSet(Get(n))
        BY GetList DEF List, Items
      <4>2. PICK u : u = UnionVectorClock(Get(n))[i]
        OBVIOUS
      <4>3. u \in Nat /\ (u = 0 \/ \E x \in Get(n) : x.clock[i] = u)
        BY <4>1, <4>2, UnionAt
      <4>4. y.clock[i] = u
        BY <3>2, <4>2, <1>NewClock, SMT
      <4> QED
        BY <4>3, <4>4, SMT
    <3> QED
      BY <3>1, <3>2

  <2>SeenIsBelow.
    ASSUME NEW T \in SUBSET Item, Get(n) \subseteq T, Knows(n, T), NEW x \in T, NEW i \in ClockIDs,
           Own(T, x, i), x.clock[i] <= y.clock[i]
    PROVE  \E z \in Get(n) : Leq(x, z)
    <3> USE <2>SeenIsBelow
    <3>1. x.clock[i] \in Nat \ {0}
      BY ClockFacts, SMT DEF Own
    <3>2. i = clockID(n) => Known(n, x.clock[i])
      BY DEF Knows
    <3>3. PICK z \in Get(n) : z.clock[i] >= x.clock[i]
      BY <3>1, <3>2, <2>NewHasSeen
    <3> QED
      BY <3>3 DEF Own

  <2>NewOrder.
    ASSUME NEW T \in SUBSET Item, Get(n) \subseteq T, Knows(n, T), HaveOwn(T)
    PROVE  /\ HaveOwn(T \cup {y})
           /\ \A x \in T : ~Leq(y, x) /\ (Leq(x, y) => \E z \in Get(n) : Leq(x, z))
    <3> USE <2>NewOrder
    <3>0. y \in Item /\ y \in Version /\ Get(n) \in SUBSET Item
      BY <1>NewClock, GetList, ItemFacts
    <3>1. ASSUME NEW x \in T
          PROVE  x.clock[clockID(n)] < y.clock[clockID(n)] /\ y.clock[clockID(n)] \in Nat /\ x.clock[clockID(n)] \in Nat
      <4>1. x.clock[clockID(n)] \in Nat /\ Known(n, x.clock[clockID(n)])
        BY EntryFacts, ClockFacts DEF Knows
      <4> QED
        BY <4>1, <1>NewIsNew
    <3>2. ASSUME NEW x \in T PROVE ~Leq(y, x) /\ (Leq(x, y) => \E z \in Get(n) : Leq(x, z))
      <4>1. ~Leq(y, x)
        BY <3>1, EntryFacts, SMT DEF Leq
      <4>2. PICK i \in ClockIDs : Own(T, x, i)
        BY DEF HaveOwn
      <4>3. ASSUME Leq(x, y) PROVE \E z \in Get(n) : Leq(x, z)
        <5>1. x.clock[i] <= y.clock[i]
          BY <4>3 DEF Leq
        <5> QED
          BY <4>2, <5>1, <2>SeenIsBelow
      <4> QED
        BY <4>1, <4>3
    <3>3. ASSUME NEW x \in T PROVE \E i \in ClockIDs : Own(T \cup {y}, x, i)
      <4>1. PICK i \in ClockIDs : Own(T, x, i)
        BY DEF HaveOwn
      <4>2. ASSUME y.clock[i] >= x.clock[i] PROVE Leq(x, y)
        <5>1. x.clock[i] <= y.clock[i]
          BY <3>0, <4>2, ClockFacts, SMT
        <5>2. PICK z \in Get(n) : Leq(x, z)
          BY <4>1, <5>1, <2>SeenIsBelow
        <5>3. Leq(z, y)
          BY <2>NewIsAfter
        <5>4. x \in Version /\ z \in Version
          BY <3>0, ItemFacts
        <5> QED
          BY <3>0, <5>2, <5>3, <5>4, LeqTransitive
      <4> QED
        BY <4>1, <4>2 DEF Own
    <3>4. Own(T \cup {y}, y, clockID(n))
      <4>1. Known(n, 0)
        BY DEF Known
      <4>2. y.clock[clockID(n)] > 0
        BY <4>1, <1>NewIsNew, SMT
      <4>3. \A z \in T : ~(z.clock[clockID(n)] >= y.clock[clockID(n)])
        BY <3>1, SMT
      <4>4. Leq(y, y)
        BY <3>0, LeqReflexive
      <4> QED
        BY <4>2, <4>3, <4>4 DEF Own
    <3>5. HaveOwn(T \cup {y})
      BY <3>3, <3>4, EntryFacts DEF HaveOwn
    <3> QED
      BY <3>2, <3>5

  <2>NewIsFaithful.
    ASSUME NEW T \in SUBSET Item, Get(n) \subseteq T, Knows(n, T), HaveOwn(T), Faithful(T),
           cl[c].ctx = NoContext
    PROVE  FaithfulNext(T \cup {y})
    <3> USE <2>NewIsFaithful
    <3>1. y \in Item /\ y.val = c
      BY <1>NewClock, ZenonT(40)
    <3>2. PICK seen : seen = {x.val : x \in Get(n)}
      OBVIOUS
    <3>3. past' = [past EXCEPT ![c] = @ \cup seen \cup UNION {past[d] : d \in seen}]
      BY <3>2 DEF Built
    <3>4. /\ \A d \in Client : past[d] \subseteq past'[d]
          /\ seen \subseteq past'[c] /\ \A d \in seen : past[d] \subseteq past'[c]
      <4>1. past'[c] = past[c] \cup seen \cup UNION {past[d] : d \in seen}
        BY <3>3 DEF PastInv
      <4>2. \A d \in Client : d # c => past'[d] = past[d]
        BY <3>3 DEF PastInv
      <4> QED
        BY <4>1, <4>2
    <3>5. ASSUME NEW x \in T, NEW z \in T, Leq(x, z) PROVE x.val = z.val \/ x.val \in past'[z.val]
      <4>1. z.val \in Client
        BY ItemFacts
      <4> QED
        BY <3>4, <3>5, <4>1 DEF Faithful
    <3>6. ASSUME NEW x \in T, Leq(x, y) PROVE x.val \in past'[c]
      <4>1. PICK z \in Get(n) : Leq(x, z)
        BY <3>6, <2>NewOrder
      <4>2. z.val \in seen /\ (x.val = z.val \/ x.val \in past[z.val])
        BY <3>2, <4>1 DEF Faithful
      <4> QED
        BY <3>4, <4>2
    <3>7. \A x \in T : ~Leq(y, x)
      BY <2>NewOrder
    <3> QED
      BY <3>1, <3>5, <3>6, <3>7 DEF FaithfulNext

  <2>NewIsFresh.
    ASSUME NEW T \in SUBSET Item, Get(n) \subseteq T, Fresh(T), \A x \in T : ~isMarker(x)
    PROVE  Fresh(T \cup {y}) /\ ~isMarker(y)
    <3> USE <2>NewIsFresh
    <3>1. \A i \in ClockIDs : y.clock[i] \in Nat
      BY <1>NewClock, ClockFacts
    <3>2. ASSUME NEW i \in ClockIDs, i # clockID(n), \A x \in T : x.clock[i] = 0 PROVE y.clock[i] = 0
      <4>1. Get(n) \in SUBSET Item /\ IsFiniteSet(Get(n))
        BY GetList DEF List, Items
      <4>2. UnionVectorClock(Get(n))[i] = 0
        BY <3>2, <4>1, UnionAt
      <4> QED
        BY <3>2, <4>2, <1>NewClock, SMT
    <3>3. ASSUME NEW m \in Replica, NEW k \in 0..MaxIncarnation, k > inc[m] PROVE y.clock[<<m, k>>] = 0
      <4>1. <<m, k>> \in ClockIDs /\ \A x \in T : x.clock[<<m, k>>] = 0
        BY <3>3, EntryFacts DEF Fresh
      <4>2. <<m, k>> # clockID(n)
        BY <3>3, EntryFacts, ClockIDsAssumption, SMT DEF clockID
      <4> QED
        BY <3>2, <4>1, <4>2
    <3>4. y.clock[Delivered] = 0
      <4>1. Delivered \in ClockIDs /\ Delivered # clockID(n)
        BY EntryFacts, DeliveredAssumption
      <4>2. \A x \in T : x.clock[Delivered] = 0
        BY <4>1, ClockFacts, SMT DEF isMarker
      <4> QED
        BY <3>2, <4>1, <4>2
    <3>5. Fresh(T \cup {y})
      BY <3>3 DEF Fresh
    <3> QED
      BY <3>4, <3>5, SMT DEF isMarker

  \* What n knows of, and has, when it makes a version.
  <2>MakerKnows.
    Get(n) \subseteq S /\ Knows(n, All(S)) /\ limbo[n] = {}
    <3>1. Get(n) \subseteq active[n] \cup flushed[n]
      BY MergeWithin DEF Get
    <3>2. Get(n) \subseteq S
      BY <3>1 DEF CausalInv, Within, StoresIn
    <3>3. limbo[n] = {}
      BY DEF CausalInv, LimboInv
    <3>4. \A m \in Replica : m # n => \A x \in limbo[m] : Known(n, x.clock[clockID(n)])
      BY DEF CausalInv, LimboInv
    <3>5. \A x \in S : Known(n, x.clock[clockID(n)])
      BY DEF CausalInv, OrderInv, Recorded
    <3> QED
      BY <3>2, <3>3, <3>4, <3>5 DEF Knows, All
  <2>1. Get(n) \subseteq All(S) /\ Knows(n, All(S)) /\ All(S) \in SUBSET Item /\ Get(n) \subseteq S
    BY <2>MakerKnows, AllFacts
  <2>2. y \in Item /\ cl[c].ctx = NoContext
    BY <1>NewClock DEF CausalInv
  <2>3. HaveOwn(All(S)) /\ Faithful(All(S)) /\ Fresh(All(S)) /\ \A x \in All(S) : ~isMarker(x)
    BY DEF CausalInv, OrderInv
  <2>4. HaveOwn(All(S) \cup {y})
    BY <2>1, <2>3, <2>NewOrder
  <2>5. FaithfulNext(All(S) \cup {y})
    BY <2>1, <2>2, <2>3, <2>NewIsFaithful
  <2>6. Fresh(All(S) \cup {y}) /\ ~isMarker(y)
    BY <2>1, <2>3, <2>NewIsFresh
  <2>7. ASSUME NEW m \in Replica, m # n PROVE Known(m, y.clock[clockID(m)])
    <3>1. clockID(m) # clockID(n) /\ clockID(m) \in ClockIDs
      BY <2>7, EntryFacts DEF clockID
    <3>2. y.clock[clockID(m)] = UnionVectorClock(Get(n))[clockID(m)]
      BY <3>1, <1>NewClock, SMT
    <3>3. Get(n) \in SUBSET Item /\ IsFiniteSet(Get(n))
      BY GetList DEF List, Items
    <3>4. y.clock[clockID(m)] = 0 \/ \E x \in Get(n) : x.clock[clockID(m)] = y.clock[clockID(m)]
      BY <3>1, <3>2, <3>3, UnionAt
    <3>5. \A x \in Get(n) : Known(m, x.clock[clockID(m)])
      BY <2>1 DEF CausalInv, OrderInv, Recorded
    <3> QED
      BY <3>4, <3>5 DEF Known
  <2> QED
    BY <2>1, <2>2, <2>3, <2>4, <2>5, <2>6, <2>7

\* A version is made and stored.
<1>OrderStored.
  ASSUME StoreInv, NodeInv, PastInv, NEW n \in Replica, n \notin halted, NEW c \in Client, NEW y,
         Makes(n, c, y), past' = Built(c, n), UNCHANGED <<limbo, halted>>, GrowsAt(n),
         Covers(Get(n)', y)
  PROVE  Orders(S \cup {y}, All(S) \cup {y}) /\ S \cup {y} \in SUBSET Item
  <2> USE <1>OrderStored
  <2> DEFINE T == All(S) \cup {y}
  <2>1. /\ T \subseteq Item /\ HaveOwn(T) /\ FaithfulNext(T) /\ Fresh(T) /\ \A x \in T : ~isMarker(x)
        /\ \A m \in Replica : m # n => Known(m, y.clock[clockID(m)])
    BY <1>OrderGrows
  <2>2. All(S \cup {y})' \subseteq T /\ S \cup {y} \subseteq Item
    BY <2>1 DEF All
  <2> HIDE DEF T
  <2>3. \A m \in Replica : limbo'[m] # {} => m \in halted'
    BY DEF CausalInv, LimboInv
  <2>4. \A p, m \in Replica : m # p => \A x \in limbo'[p] : Known(m, x.clock[clockID(m)])
    BY DEF CausalInv, LimboInv
  <2>5. Orders(S \cup {y}, T)
    BY <2>1, <2>2, <2>3, <2>4 DEF Orders, CausalInv, OrderInv, Recorded
  <2> QED
    BY <2>2, <2>5 DEF T

\* A version is made, and the engine halts.
<1>OrderHalted.
  ASSUME StoreInv, NodeInv, PastInv, NEW n \in Replica, n \notin halted, NEW c \in Client, NEW y,
         Makes(n, c, y), past' = Built(c, n), limbo' = [limbo EXCEPT ![n] = {y}],
         halted' = halted \cup {n}
  PROVE  Orders(S, All(S) \cup {y})
  <2> USE <1>OrderHalted
  <2> DEFINE T == All(S) \cup {y}
  <2>1. /\ T \subseteq Item /\ HaveOwn(T) /\ FaithfulNext(T) /\ Fresh(T) /\ \A x \in T : ~isMarker(x)
        /\ \A m \in Replica : m # n => Known(m, y.clock[clockID(m)])
    BY <1>OrderGrows
  <2>2. limbo'[n] = {y} /\ \A m \in Replica : m # n => limbo'[m] = limbo[m]
    BY DEF NodeInv
  <2>3. All(S)' \subseteq T
    BY <2>2 DEF All
  <2> HIDE DEF T
  <2>4. \A m \in Replica : limbo'[m] # {} => m \in halted'
    BY <2>2 DEF CausalInv, LimboInv
  <2>5. \A p, m \in Replica : m # p => \A x \in limbo'[p] : Known(m, x.clock[clockID(m)])
    BY <2>1, <2>2, ZenonT(40) DEF CausalInv, LimboInv
  <2>6. Orders(S, T)
    BY <2>1, <2>3, <2>4, <2>5 DEF Orders, CausalInv, OrderInv, Recorded
  <2> QED
    BY <2>6 DEF T

<1>MarksNoNew.
  ASSUME StoreInv, NEW n \in Replica, NEW c \in Client, NEW y, Makes(n, c, y), NEW T, Marks(T)
  PROVE  Marks(T \cup {y})
  <2> USE <1>MarksNoNew
  <2>1. SUFFICES ASSUME NEW p \in Replica, NEW t \in Replica, NEW m \in hints'[p][t], isMarker(m), Leq(y, m)
                 PROVE  FALSE
    BY DEF Marks, Retires
  <2>2. m \in Version /\ Known(n, m.clock[clockID(n)])
    BY <2>1 DEF Marks, Retires, Recorded
  <2>3. clockID(n) \in ClockIDs /\ m.clock[clockID(n)] \in Nat
    BY <2>2, EntryFacts DEF Version, Clock
  <2>4. m.clock[clockID(n)] < y.clock[clockID(n)] /\ y.clock[clockID(n)] \in Nat
    BY <2>2, <2>3, <1>NewIsNew
  <2> QED
    BY <2>1, <2>3, <2>4, SMT DEF Leq

<1>AnswerCausal.
  ASSUME NEW c \in Client, NEW n \in Replica, NEW p \in Peers(n),
         \/ Accepted(c, n, p) \/ Unavailable(c, n, p) \/ Refused(c, n, p) \/ Timeout(c, n, p)
         \/ Lost(c, n, p, "unavailable") \/ Lost(c, n, p, "error")
  PROVE  CausalInv(S)'
  <2> USE <1>AnswerCausal
  <2>1. CallInv /\ CoInv /\ CallsIn(S)
    BY DEF Upheld, TypesInv, CausalInv, Within
  <2>2. Calm(S) /\ NoNewHint
    BY <2>1, AnswerIsCalm
  <2>3. UNCHANGED <<storeVars, hints, nodeVars, past>>
    BY DEF Accepted, Unavailable, Refused, Timeout, Lost
  <2>4. UNCHANGED <<halted, limbo>>
    BY <2>3 DEF nodeVars
  <2> QED
    BY <2>2, <2>3, <2>4, QuietCausal

<1>EndCausal.
  ASSUME NEW c \in Client, NEW n \in Replica, PutFails(c, n) \/ Cancel(c, n)
  PROVE  CausalInv(S)'
  <2> USE <1>EndCausal
  <2>1. CallInv /\ CoInv /\ CallsIn(S)
    BY DEF Upheld, TypesInv, CausalInv, Within
  <2>2. Calm(S) /\ NoNewHint
    BY <2>1, PutFailsIsCalm, CancelIsCalm
  <2>3. UNCHANGED <<storeVars, hints, nodeVars, past>>
    BY DEF PutFails, Cancel
  <2>4. UNCHANGED <<halted, limbo>>
    BY <2>3 DEF nodeVars
  <2> QED
    BY <2>2, <2>3, <2>4, QuietCausal

\* The version a coordination has sent is one of S.
<1>SentIn.
  ASSUME CoInv, NEW X, CallsIn(X), NEW c \in Client, NEW n \in Replica, NEW p \in Replica,
         co[c][n].res[p] # "none"
  PROVE  co[c][n].item \in X
  <2> USE <1>SentIn
  <2>1. Sound(c, n, co[c][n])
    BY DEF CoInv
  <2>2. co[c][n].item \in Item
    BY <2>1, SMT DEF Sound
  <2> QED
    BY <2>2, ItemFacts DEF CallsIn

<1>ReplicateCausal.
  ASSUME NEW c \in Client, NEW n \in Replica, NEW p \in Peers(n), Replicate(c, n, p)
  PROVE  CausalInv(S)'
  <2> USE <1>ReplicateCausal
  <2>1. CallInv /\ CoInv /\ CallsIn(S) /\ p \in Replica
    BY DEF Upheld, TypesInv, CausalInv, Within, Peers
  <2>2. /\ co[c][n].res[p] = "sent" /\ PersisterPut(p, co[c][n].item)
        /\ co' = [co EXCEPT ![c][n].res[p] = "applied"]
        /\ UNCHANGED <<flushed, inc, hints, cl, net, past, undone, nodeVars>>
    BY DEF Replicate, MergeReplicated
  <2>3. PICK r \in {"applied", "hinted", "error"} : r = "applied"
    OBVIOUS
  <2>4. co' = [co EXCEPT ![c][n].res[p] = r] /\ r # "hinted" /\ UNCHANGED <<cl, net, undone>>
    BY <2>2, <2>3
  <2>5. Calm(S) /\ NoNewHint
    <3>1. Calm(S) /\ (r # "hinted" => NoNewHint)
      BY <2>1, <2>4, ReplicateIsCalm
    <3> QED
      BY <2>4, <3>1
  <2>6. co[c][n].item \in S
    BY <2>1, <2>2, <1>SentIn
  <2>7. UNCHANGED <<halted, limbo>>
    BY <2>2 DEF nodeVars
  <2>8. (StoresGrow => DeliveredInv') /\ RepairsIn(S)'
    <3>1. UNCHANGED hd /\ UNCHANGED ae /\ RepairsIn(S) /\ RepairInv /\ StoreInv
      BY DEF repairVars, CausalInv, Within, Upheld, TypesInv
    <3> QED
      BY <3>1, DeliveredCarry DEF RepairsIn
  <2> QED
    BY <2>1, <2>2, <2>5, <2>6, <2>7, <2>8, MergeCausal

\* The peer's engine halts at a version of S.
<1>ReplicateHaltsCausal.
  ASSUME NEW c \in Client, NEW n \in Replica, NEW p \in Peers(n), ReplicateHalts(c, n, p)
  PROVE  CausalInv(S)'
  <2> USE <1>ReplicateHaltsCausal
  <2>1. CallInv /\ CoInv /\ CallsIn(S) /\ p \in Replica /\ NodeInv
    BY DEF Upheld, TypesInv, CausalInv, Within, Peers
  <2>2. Calm(S) /\ NoNewHint
    BY <2>1, AnswerIsCalm
  <2>3. /\ co[c][n].res[p] = "sent" /\ halted' = halted \cup {p} /\ limbo' = [limbo EXCEPT ![p] = {co[c][n].item}]
        /\ UNCHANGED <<storeVars, hints, past>>
    BY DEF ReplicateHalts
  <2>4. co[c][n].item \in S
    BY <2>1, <2>3, <1>SentIn
  <2>5. LimboLeft(S)
    <3>1. ASSUME NEW q \in Replica
          PROVE  limbo'[q] \subseteq limbo[q] \cup S /\ (limbo'[q] # {} => q \in halted')
      <4>1. limbo'[q] = IF q = p THEN {co[c][n].item} ELSE limbo[q]
        BY <2>1, <2>3 DEF NodeInv
      <4>2. limbo[q] # {} => q \in halted
        BY DEF CausalInv, LimboInv
      <4>3. CASE q = p
        <5>1. limbo'[q] = {co[c][n].item} /\ q \in halted'
          BY <2>3, <4>1, <4>3
        <5>2. limbo'[q] \subseteq S
          BY <2>4, <5>1
        <5> QED
          BY <5>1, <5>2
      <4>4. CASE q # p
        <5>1. limbo'[q] = limbo[q]
          BY <4>1, <4>4
        <5> QED
          BY <2>3, <4>2, <5>1
      <4> QED
        BY <4>3, <4>4
    <3> QED
      BY <3>1 DEF LimboLeft
  <2>6. StoresGrow /\ StoresIn(S)'
    BY <2>3, SameGrows DEF CausalInv, Within
  <2>7. HintsLeft
    BY <2>3 DEF HintsLeft
  <2>8. DeliveredInv' /\ RepairsIn(S)'
    BY <2>6, SameRepairs
  <2> QED
    BY <2>2, <2>3, <2>5, <2>6, <2>7, <2>8, PlainCausal

\* A new version, which joins S, or is left in limbo.
<1>PutStoreCausal.
  ASSUME NEW c \in Client, NEW n \in Replica, PutStore(c, n)
  PROVE  \E S1 \in SUBSET Item : CausalInv(S1)'
  <2> USE <1>PutStoreCausal
  <2>1. CallInv /\ CoInv /\ StoreInv /\ NodeInv /\ PastInv /\ HintInv /\ Within(S) /\ cl[c].ctx = NoContext
    BY DEF Upheld, TypesInv, CausalInv
  <2>2. PICK y, S1 : y = NewVersion(n, cl[c].ctx, c) /\ S1 = S \cup {y}
    OBVIOUS
  <2>3. /\ n \notin halted /\ PersisterPut(n, y) /\ past' = Built(c, n)
        /\ UNCHANGED <<flushed, inc, hints, undone, nodeVars>>
    BY <2>2 DEF PutStore, Put
  <2>4. Makes(n, c, y) /\ y \in Item /\ y \in S1 /\ S \subseteq S1
    <3>1. Makes(n, c, y)
      BY <2>1, <2>2 DEF Makes
    <3>2. y \in Item
      BY <2>1, <3>1, <1>NewClock
    <3> QED
      BY <2>2, <3>1, <3>2
  <2>5. StoresIn(S1) /\ HintsIn(S1) /\ CallsIn(S1)
    BY <2>1, <2>4, WithinMore
  <2>6. StoresGrow /\ Covers(Get(n)', y) /\ StoresIn(S1)'
    BY <2>1, <2>3, <2>4, <2>5, PutGrows
  <2>7. GrowsAt(n)
    <3>1. inc'[n] = inc[n] /\ inc[n] \in Nat
      BY <2>1, <2>3, ClockIDsAssumption, SMT DEF StoreInv
    <3>2. inc'[n] # inc[n] + 1
      BY <3>1, SMT
    <3> QED
      BY <2>6, <3>2 DEF StoresGrow
  <2>8. UNCHANGED <<limbo, halted>> /\ HintsLeft
    BY <2>3 DEF nodeVars, HintsLeft
  <2>9. PICK T : T = All(S) \cup {y}
    OBVIOUS
  <2>10. Orders(S1, T)
    <3>1. Orders(S \cup {y}, All(S) \cup {y}) /\ S \cup {y} \in SUBSET Item
      BY <2>1, <2>3, <2>4, <2>6, <2>7, <2>8, <1>OrderStored
    <3> QED
      BY <2>2, <2>9, <3>1
  <2>11. Marks(T) /\ HintsIn(S1)'
    <3>1. Marks(All(S)) /\ HintsIn(S1)'
      BY <2>1, <2>5, <2>8, HintsLeftFacts, MarksSame
    <3>2. Marks(All(S) \cup {y})
      BY <2>1, <2>4, <3>1, <1>MarksNoNew
    <3> QED
      BY <2>9, <3>1, <3>2
  <2>12. Calm(S1) /\ NoNewHint
    BY <2>1, <2>2, <2>4, <2>5, PutStoreIsCalm
  <2>13. HintedInv'
    BY <2>1, <2>6, <2>8, <2>12, HintsLeftFacts, HintedCarry DEF Calm
  <2>14. DeliveredInv' /\ RepairsIn(S1)'
    BY <2>4, <2>6, SameRepairs
  <2>15. CausalInv(S1)' /\ S1 \in SUBSET Item
    BY <2>4, <2>6, <2>10, <2>11, <2>12, <2>13, <2>14, CausalNext
  <2> QED
    BY <2>15

<1>PutHaltsCausal.
  ASSUME NEW c \in Client, NEW n \in Replica, PutHalts(c, n)
  PROVE  CausalInv(S)'
  <2> USE <1>PutHaltsCausal
  <2>1. /\ CallInv /\ CoInv /\ StoreInv /\ NodeInv /\ PastInv /\ HintInv /\ cl[c].ctx = NoContext
        /\ StoresIn(S) /\ HintsIn(S) /\ CallsIn(S)
    BY DEF Upheld, TypesInv, CausalInv, Within
  <2>2. PICK y, T : y = NewVersion(n, cl[c].ctx, c) /\ T = All(S) \cup {y}
    OBVIOUS
  <2>3. /\ n \notin halted /\ halted' = halted \cup {n} /\ limbo' = [limbo EXCEPT ![n] = {y}]
        /\ past' = Built(c, n) /\ UNCHANGED <<storeVars, hints>>
    BY <2>2 DEF PutHalts
  <2>4. Makes(n, c, y)
    BY <2>1, <2>2 DEF Makes
  <2>5. StoresGrow /\ StoresIn(S)' /\ HintsLeft
    BY <2>1, <2>3, SameGrows DEF HintsLeft
  <2>6. Orders(S, T)
    BY <2>1, <2>2, <2>3, <2>4, <1>OrderHalted
  <2>7. Marks(T) /\ HintsIn(S)'
    <3>1. Marks(All(S)) /\ HintsIn(S)'
      BY <2>1, <2>5, HintsLeftFacts, MarksSame
    <3>2. Marks(All(S) \cup {y})
      BY <2>1, <2>4, <3>1, <1>MarksNoNew
    <3> QED
      BY <2>2, <3>1, <3>2
  <2>8. Calm(S) /\ NoNewHint
    BY <2>1, PutFailsIsCalm
  <2>9. HintedInv'
    BY <2>1, <2>5, <2>8, HintsLeftFacts, HintedCarry DEF Calm
  <2>10. DeliveredInv' /\ RepairsIn(S)'
    BY <2>5, SameRepairs
  <2> QED
    BY <2>5, <2>6, <2>7, <2>8, <2>9, <2>10, CausalNext

<1>StoreHintCausal.
  ASSUME NEW c \in Client, NEW n \in Replica, NEW p \in Peers(n), StoreHint(c, n, p)
  PROVE  CausalInv(S)'
  <2> USE <1>StoreHintCausal
  <2>1. CallInv /\ CoInv /\ CallsIn(S) /\ StoresIn(S) /\ p \in Replica
    BY DEF Upheld, TypesInv, CausalInv, Within, Peers
  <2>2. co[c][n].res[p] = "unavailable" /\ UNCHANGED <<storeVars, cl, net, past, undone, nodeVars>>
    BY DEF StoreHint
  <2>3. UNCHANGED <<cl, net, undone>> /\ UNCHANGED <<storeVars, halted, limbo, past>>
    BY <2>2 DEF nodeVars
  <2>4. StoresGrow /\ DeliveredInv' /\ RepairsIn(S)'
    <3>1. StoresGrow
      BY <2>3, SameGrows
    <3> QED
      BY <3>1, SameRepairs
  <2>5. CASE Add(n, p, co[c][n].item) /\ co' = [co EXCEPT ![c][n].res[p] = "hinted"]
    <3>1. PICK x, old, new : x = co[c][n].item /\ old = co[c][n] /\ new = [old EXCEPT !.res[p] = "hinted"]
      OBVIOUS
    <3>2. hints' = [hints EXCEPT ![n][p] = Resolve(@, x)]
      BY <2>5, <3>1 DEF Add, enginePut
    <3>3. x \in S /\ x \in Item /\ x \in Version
      <4>1. x \in S
        BY <2>1, <2>2, <3>1, <1>SentIn
      <4> QED
        BY <4>1, ItemFacts
    <3>4. Calm(S)
      <4>1. PICK r \in {"applied", "hinted", "error"} : r = "hinted"
        OBVIOUS
      <4>2. co' = [co EXCEPT ![c][n].res[p] = r]
        BY <2>5, <4>1
      <4> QED
        BY <2>1, <2>3, <4>2, ReplicateIsCalm
    <3>5. co' = [co EXCEPT ![c][n] = new] /\ old \in Coordination
      BY <2>1, <2>5, <3>1 DEF CoInv
    <3>6. co'[c][n] = new /\ \A d \in Client, m \in Replica : d # c \/ m # n => co'[d][m] = co[d][m]
      BY <2>1, <3>5 DEF CoInv
    <3>7. new.item = x /\ \A q \in Replica : q # p => new.res[q] = old.res[q]
      BY <3>1, <3>5 DEF Coordination
    <3>8. ASSUME NEW d \in Client, NEW m \in Replica, NEW q \in Replica, co'[d][m].res[q] = "hinted"
          PROVE  \/ co[d][m].res[q] = "hinted"
                 \/ m = n /\ q = p /\ co'[d][m].item = x /\ x \in Item
      <4>1. CASE d # c \/ m # n
        BY <3>6, <3>8, <4>1
      <4>2. CASE d = c /\ m = n
        BY <3>1, <3>3, <3>6, <3>7, <3>8, <4>2
      <4> QED
        BY <4>1, <4>2
    <3> QED
      BY <2>1, <2>3, <2>4, <3>2, <3>3, <3>4, <3>8, HintPutCausal
  <2>6. CASE co' = [co EXCEPT ![c][n].res[p] = "error"] /\ UNCHANGED hints
    <3>1. PICK r \in {"applied", "hinted", "error"} : r = "error"
      OBVIOUS
    <3>2. co' = [co EXCEPT ![c][n].res[p] = r] /\ r # "hinted"
      BY <2>6, <3>1
    <3>3. Calm(S) /\ (r # "hinted" => NoNewHint)
      BY <2>1, <2>3, <3>2, ReplicateIsCalm
    <3> QED
      BY <2>3, <2>6, <3>2, <3>3, QuietCausal
  <2> QED
    BY <2>5, <2>6 DEF StoreHint
<1>0. PICK c \in Client, n \in Replica :
        \/ PutStore(c, n) \/ PutFails(c, n) \/ PutHalts(c, n) \/ Cancel(c, n)
        \/ \E p \in Peers(n) :
             \/ Replicate(c, n, p) \/ Accepted(c, n, p) \/ Unavailable(c, n, p)
             \/ ReplicateHalts(c, n, p) \/ Refused(c, n, p) \/ Timeout(c, n, p)
             \/ Lost(c, n, p, "unavailable") \/ Lost(c, n, p, "error")
             \/ StoreHint(c, n, p)
  BY DEF CoordinatorStep
<1>1. CASE PutStore(c, n)
  BY <1>1, <1>PutStoreCausal
<1>2. CASE PutFails(c, n) \/ Cancel(c, n)
  BY <1>2, <1>EndCausal
<1>3. CASE PutHalts(c, n)
  BY <1>3, <1>PutHaltsCausal
<1>4. ASSUME NEW p \in Peers(n), Replicate(c, n, p) PROVE CausalInv(S)'
  BY <1>4, <1>ReplicateCausal
<1>5. ASSUME NEW p \in Peers(n),
             \/ Accepted(c, n, p) \/ Unavailable(c, n, p) \/ Refused(c, n, p) \/ Timeout(c, n, p)
             \/ Lost(c, n, p, "unavailable") \/ Lost(c, n, p, "error")
      PROVE  CausalInv(S)'
  BY <1>5, <1>AnswerCausal
<1>6. ASSUME NEW p \in Peers(n), ReplicateHalts(c, n, p) PROVE CausalInv(S)'
  BY <1>6, <1>ReplicateHaltsCausal
<1>7. ASSUME NEW p \in Peers(n), StoreHint(c, n, p) PROVE CausalInv(S)'
  BY <1>7, <1>StoreHintCausal
<1> QED
  BY <1>0, <1>1, <1>2, <1>3, <1>4, <1>5, <1>6, <1>7
=============================================================================
