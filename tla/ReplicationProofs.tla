-------------------------- MODULE ReplicationProofs --------------------------
(***************************************************************************)
(* Theorems about ReplicaRepair, for any replicas, clients and quorums and *)
(* in every scenario: IReplication and ICausality are inductive, and what  *)
(* follows from them about acknowledged writes, reads and hints.           *)
(***************************************************************************)
EXTENDS CausalityStepProofs, FiniteSetTheorems, WellFoundedInduction

USE Zenon

\* The largest entry that UnionVectorClock chooses exists.
LEMMA UnionEntry ==
  ASSUME NEW S \in SUBSET Version, IsFiniteSet(S), NEW i \in ClockIDs
  PROVE  \E m \in {0} \cup {x.clock[i] : x \in S} : IsUnionEntry(S, i, m)
<1>0. \A x \in S : x.clock[i] \in Nat
  BY DEF Version, Clock
<1>1. CASE S = {}
  BY <1>1 DEF IsUnionEntry
<1>2. CASE S # {}
  <2> DEFINE Above(y) == {z \in S : z.clock[i] > y.clock[i]}
             T == {Cardinality(Above(y)) : y \in S}
  <2>1. ASSUME NEW y \in S PROVE IsFiniteSet(Above(y)) /\ Cardinality(Above(y)) \in Nat
    BY FS_Subset, FS_CardinalityType
  <2>2. T \in SUBSET Nat /\ T # {}
    BY <1>2, <2>1
  <2>3. PICK m \in T : \A k \in T : m <= k
    <3> HIDE DEF T
    <3>1. PICK l \in T : \A k \in T : <<k, l>> \notin OpToRel(<, Nat)
      BY <2>2, NatLessThanWellFounded, WFMin, ZenonT(40)
    <3>2. \A k \in T : ~(k < l)
      BY <2>2, <3>1, ZenonT(40) DEF OpToRel
    <3> QED
      BY <2>2, <3>2, SMT
  <2>4. PICK y \in S : m = Cardinality(Above(y))
    OBVIOUS
  <2>5. ASSUME NEW z \in Above(y) PROVE FALSE
    <3>1. z \in S /\ z \notin Above(z)
      BY <1>0, SMT
    <3>2. Above(z) \subseteq Above(y) /\ Above(z) # Above(y)
      BY <1>0, <2>5, <3>1, SMT
    <3>3. Cardinality(Above(z)) < Cardinality(Above(y))
      <4>1. IsFiniteSet(Above(y)) /\ Cardinality(Above(y)) \in Nat /\ Cardinality(Above(z)) \in Nat
        BY <2>1, <3>1
      <4> HIDE DEF Above
      <4>2. /\ Cardinality(Above(z)) <= Cardinality(Above(y))
            /\ Cardinality(Above(y)) = Cardinality(Above(z)) => Above(y) = Above(z)
        BY <3>2, <4>1, FS_Subset
      <4> QED
        BY <3>2, <4>1, <4>2, SMT
    <3>4. Cardinality(Above(z)) \in T
      BY <3>1
    <3> HIDE DEF T, Above
    <3> QED
      BY <2>1, <2>3, <2>4, <3>1, <3>3, <3>4, SMT
  <2>6. \A x \in S : x.clock[i] <= y.clock[i]
    BY <1>0, <2>5, SMT
  <2> QED
    BY <2>6 DEF IsUnionEntry
<1> QED
  BY <1>1, <1>2

\* The hypothesis about finite sets holds.
LEMMA FiniteFactsHold == FiniteFacts
<1>1. IsFiniteSet(Replica)
  <2>1. Total \in Nat /\ Pref \in [1..Total -> Replica] /\ DOMAIN Pref = 1..Total
    BY QuorumAssumption, SMT DEF Total
  <2>2. IsFiniteSet(1..Total)
    BY <2>1, FS_Interval, SMT
  <2>3. Pref \in Surjection(1..Total, Replica)
    BY <2>1, QuorumAssumption DEF Surjection
  <2> QED
    BY <2>2, <2>3, FS_Surjection
<1>2. OfSingletons
  BY FS_Singleton DEF OfSingletons
<1>3. OfSubsets
  BY FS_Subset DEF OfSubsets
<1>4. OfUnions
  BY FS_Union DEF OfUnions
<1>5. OfElements
  BY FS_CardinalityType, FS_AddElement DEF OfElements
<1>6. EntryFound
  BY UnionEntry DEF EntryFound
<1> QED
  BY <1>1, <1>2, <1>3, <1>4, <1>5, <1>6, FS_EmptySet DEF FiniteFacts

USE FiniteFactsHold

\* The nodes' steps.
LEMMA NodeCausal ==
  ASSUME Upheld, StoreInv', NEW S \in SUBSET Item, CausalInv(S), UNCHANGED repairVars, NodeStep
  PROVE  \E S1 \in SUBSET Item : CausalInv(S1)'
<1>FlushGrows.
  ASSUME StoreInv, NEW n \in Replica, Flush(n)
  PROVE  StoresGrow /\ \A X : StoresIn(X) => StoresIn(X)'
  <2> USE <1>FlushGrows
  <2>1. /\ active' = [active EXCEPT ![n] = {}] /\ flushed' = [flushed EXCEPT ![n] = Get(n)] /\ inc' = inc
    BY DEF Flush
  <2>2. Get(n) \subseteq active[n] \cup flushed[n]
    BY MergeWithin DEF Get
  <2>3. ASSUME NEW p \in Replica PROVE Get(p)' = Get(p)
    <3>1. CASE p = n
      <4>1. active'[p] = {} /\ flushed'[p] = Get(p)
        BY <2>1, <3>1 DEF StoreInv
      <4> QED
        BY <4>1 DEF Get, MergeSiblings
    <3>2. CASE p # n
      BY <2>1, <3>2 DEF Get, StoreInv
    <3> QED
      BY <3>1, <3>2
  <2>4. \A p \in Replica : active'[p] \subseteq active[p] /\ flushed'[p] \subseteq active[p] \cup flushed[p]
    BY <2>1, <2>2 DEF StoreInv
  <2> QED
    BY <2>1, <2>3, <2>4 DEF StoresGrow, GrowsAt, StoresIn

<1>ReplaceGrows.
  ASSUME StoreInv, NEW n \in Replica, NewDataDir(n)
  PROVE  /\ StoresGrow /\ inc'[n] = inc[n] + 1 /\ \A p \in Replica : p # n => inc'[p] = inc[p]
         /\ \A X : StoresIn(X) => StoresIn(X)'
  <2> USE <1>ReplaceGrows
  <2>1. /\ active' = [active EXCEPT ![n] = {}] /\ flushed' = [flushed EXCEPT ![n] = {}]
        /\ inc' = [inc EXCEPT ![n] = @ + 1]
    BY DEF NewDataDir
  <2>2. inc'[n] = inc[n] + 1 /\ \A p \in Replica : p # n => inc'[p] = inc[p] /\ Get(p)' = Get(p)
    BY <2>1 DEF StoreInv, Get
  <2>3. \A p \in Replica : active'[p] \subseteq active[p] /\ flushed'[p] \subseteq flushed[p]
    BY <2>1 DEF StoreInv
  <2> QED
    BY <2>2, <2>3 DEF StoresGrow, GrowsAt, StoresIn

\* A version in limbo is stored after all.
<1>OrderReplayed.
  ASSUME NodeInv, UNCHANGED past, NEW n \in Replica, NEW y \in limbo[n], GrowsAt(n),
         Covers(Get(n)', y), limbo' = [limbo EXCEPT ![n] = {}], halted' = halted \ {n}
  PROVE  Orders(S \cup {y}, All(S)) /\ S \cup {y} \in SUBSET Item
  <2> USE <1>OrderReplayed
  <2>1. limbo'[n] = {} /\ \A m \in Replica : m # n => limbo'[m] = limbo[m]
    BY DEF NodeInv
  <2>0. All(S) \subseteq Item /\ S \cup {y} \subseteq Item
    BY AllFacts
  <2>2. All(S \cup {y})' \subseteq All(S)
    BY <2>1 DEF All
  <2>3. FaithfulNext(All(S))
    BY DEF FaithfulNext, Faithful, CausalInv, OrderInv
  <2>4. \A m \in Replica : limbo'[m] # {} => m \in halted'
    BY <2>1 DEF CausalInv, LimboInv
  <2>5. \A m \in Replica : m # n => Known(m, y.clock[clockID(m)])
    BY DEF CausalInv, LimboInv
  <2>6. \A p, m \in Replica : m # p => \A x \in limbo'[p] : Known(m, x.clock[clockID(m)])
    BY <2>1 DEF CausalInv, LimboInv
  <2> QED
    BY <2>0, <2>2, <2>3, <2>4, <2>5, <2>6 DEF Orders, CausalInv, OrderInv, Recorded

\* Close begins, or the store is flushed.
<1>CloseCausal.
  ASSUME NEW n \in Replica, Close(n)
  PROVE  CausalInv(S)'
  <2> USE <1>CloseCausal
  <2>1. CallsIn(S)
    BY DEF CausalInv, Within
  <2>2. UNCHANGED <<storeVars, hints, coordVars, halted, limbo>>
    BY DEF Close, CloseBegin
  <2>3. UNCHANGED <<cl, co, undone>> /\ UNCHANGED past /\ net' \subseteq net
    BY <2>2 DEF coordVars
  <2>4. Calm(S) /\ NoNewHint
    BY <2>1, <2>3, SameIsCalm
  <2> QED
    BY <2>2, <2>3, <2>4, QuietCausal

<1>FlushCausal.
  ASSUME NEW n \in Replica, FlushStore(n)
  PROVE  CausalInv(S)'
  <2> USE <1>FlushCausal
  <2>1. CallsIn(S) /\ StoreInv /\ StoresIn(S)
    BY DEF Upheld, TypesInv, CausalInv, Within
  <2>2. Flush(n) /\ UNCHANGED <<hints, coordVars, halted, limbo>>
    BY DEF FlushStore
  <2>3. UNCHANGED <<cl, co, undone>> /\ UNCHANGED past /\ net' \subseteq net
    BY <2>2 DEF coordVars
  <2>4. Calm(S) /\ NoNewHint
    BY <2>1, <2>3, SameIsCalm
  <2>5. StoresGrow /\ StoresIn(S)'
    BY <2>1, <2>2, <1>FlushGrows
  <2>6. HintsLeft /\ LimboLeft(S)
    BY <2>2, SameNodes DEF HintsLeft
  <2>7. DeliveredInv' /\ RepairsIn(S)'
    BY <2>5, SameRepairs
  <2> QED
    BY <2>3, <2>4, <2>5, <2>6, <2>7, PlainCausal

\* A node comes back, with its disk or without.
<1>LimboCleared.
  ASSUME NodeInv, NEW X, CausalInv(X), NEW n \in Replica, halted' = halted \ {n},
         limbo' = [limbo EXCEPT ![n] = {}]
  PROVE  LimboLeft(X)
  <2> USE <1>LimboCleared
  <2>1. ASSUME NEW q \in Replica PROVE limbo'[q] = {} \/ (limbo'[q] = limbo[q] /\ q # n)
    BY DEF NodeInv
  <2>2. ASSUME NEW q \in Replica PROVE limbo[q] # {} => q \in halted
    BY DEF CausalInv, LimboInv
  <2> QED
    BY <2>1, <2>2 DEF LimboLeft

<1>ReplaceCausal.
  ASSUME NEW n \in Replica, Replace(n)
  PROVE  CausalInv(S)'
  <2> USE <1>ReplaceCausal
  <2>1. CallsIn(S) /\ StoreInv /\ StoresIn(S) /\ NodeInv /\ HintInv
    BY DEF Upheld, TypesInv, CausalInv, Within
  <2>2. /\ NewDataDir(n) /\ UNCHANGED coordVars /\ hints' = [hints EXCEPT ![n] = [t \in Replica |-> {}]]
        /\ halted' = halted \ {n} /\ limbo' = [limbo EXCEPT ![n] = {}]
    BY DEF Replace
  <2>3. UNCHANGED <<cl, co, undone>> /\ UNCHANGED past /\ net' \subseteq net
    BY <2>2 DEF coordVars
  <2>4. Calm(S) /\ NoNewHint
    BY <2>1, <2>3, SameIsCalm
  <2>5. StoresGrow /\ StoresIn(S)' /\ inc'[n] = inc[n] + 1
    BY <2>1, <2>2, <1>ReplaceGrows
  <2>6. inc'[n] > 0
    BY ONLY <2>1, <2>5, ClockIDsAssumption, SMT DEF StoreInv
  <2>7. HintsLeft
    <3>1. hints'[n] = [t \in Replica |-> {}] /\ \A q \in Replica : q # n => hints'[q] = hints[q]
      BY <2>1, <2>2 DEF HintInv
    <3> QED
      BY <2>6, <3>1 DEF HintsLeft
  <2>8. LimboLeft(S)
    BY <2>1, <2>2, <1>LimboCleared
  <2>9. DeliveredInv' /\ RepairsIn(S)'
    BY <2>5, SameRepairs
  <2> QED
    BY <2>3, <2>4, <2>5, <2>7, <2>8, <2>9, PlainCausal

<1>RestartCausal.
  ASSUME NEW n \in Replica, Restart(n)
  PROVE  \E S1 \in SUBSET Item : CausalInv(S1)'
  <2> USE <1>RestartCausal
  <2>1. CallsIn(S) /\ StoreInv /\ NodeInv /\ HintInv /\ CoInv /\ Within(S)
    BY DEF Upheld, TypesInv, CausalInv, Within
  <2>2. /\ UNCHANGED coordVars /\ UNCHANGED hints
        /\ halted' = halted \ {n} /\ limbo' = [limbo EXCEPT ![n] = {}]
    BY DEF Restart
  <2>3. UNCHANGED <<cl, co, undone>> /\ UNCHANGED past /\ net' \subseteq net
    BY <2>2 DEF coordVars
  <2>4. HintsLeft
    BY <2>2 DEF HintsLeft
  <2>5. CASE SameDataDir(n)
    <3>1. StoresGrow /\ StoresIn(S)'
      BY <2>1, <2>5, SameGrows DEF SameDataDir, Within
    <3>2. Calm(S) /\ NoNewHint
      BY <2>1, <2>3, SameIsCalm
    <3>3. LimboLeft(S)
      BY <2>1, <2>2, <1>LimboCleared
    <3>4. DeliveredInv' /\ RepairsIn(S)'
      BY <3>1, SameRepairs
    <3>5. CausalInv(S)'
      BY <2>3, <2>4, <3>1, <3>2, <3>3, <3>4, PlainCausal
    <3> QED
      BY <3>5
  <2>6. ASSUME NEW y \in limbo[n], PersisterPut(n, y), UNCHANGED <<flushed, inc>>
        PROVE  \E S1 \in SUBSET Item : CausalInv(S1)'
    <3>1. PICK S1 : S1 = S \cup {y}
      OBVIOUS
    <3>2. y \in Item /\ S \subseteq S1 /\ y \in S1
      BY <2>1, <3>1 DEF NodeInv
    <3>3. StoresIn(S1) /\ HintsIn(S1) /\ CallsIn(S1)
      BY <2>1, <3>2, WithinMore
    <3>4. StoresGrow /\ Covers(Get(n)', y) /\ StoresIn(S1)'
      BY <2>1, <2>6, <3>2, <3>3, PutGrows
    <3>5. GrowsAt(n)
      <4>1. inc'[n] = inc[n] /\ inc[n] \in Nat
        BY ONLY <2>1, <2>6, ClockIDsAssumption, SMT DEF StoreInv
      <4>2. inc'[n] # inc[n] + 1
        BY ONLY <4>1, SMT
      <4> QED
        BY <3>4, <4>2 DEF StoresGrow
    <3>6. Orders(S1, All(S))
      <4>1. Orders(S \cup {y}, All(S)) /\ S \cup {y} \in SUBSET Item
        BY <2>1, <2>2, <2>3, <3>4, <3>5, <1>OrderReplayed
      <4> QED
        BY <3>1, <4>1
    <3>7. Marks(All(S)) /\ HintsIn(S1)'
      BY <2>1, <2>4, <3>3, HintsLeftFacts, MarksSame
    <3>8. Calm(S1) /\ NoNewHint
      BY <2>3, <3>3, SameIsCalm
    <3>9. HintedInv'
      BY <2>1, <2>4, <3>4, <3>8, HintsLeftFacts, HintedCarry DEF Calm
    <3>10. DeliveredInv' /\ RepairsIn(S1)'
      BY <3>2, <3>4, SameRepairs
    <3>11. CausalInv(S1)' /\ S1 \in SUBSET Item
      BY <3>2, <3>4, <3>6, <3>7, <3>8, <3>9, <3>10, CausalNext
    <3> QED
      BY <3>11
  <2> QED
    BY <2>5, <2>6 DEF Restart
<1>1. ASSUME NEW n \in Replica, Close(n) PROVE CausalInv(S)'
  BY <1>1, <1>CloseCausal
<1>2. ASSUME NEW n \in Replica, Restart(n) PROVE \E S1 \in SUBSET Item : CausalInv(S1)'
  BY <1>2, <1>RestartCausal
<1>3. ASSUME NEW n \in Replica, Replace(n) PROVE CausalInv(S)'
  BY <1>3, <1>ReplaceCausal
<1>4. ASSUME NEW n \in Replica, FlushStore(n) PROVE CausalInv(S)'
  BY <1>4, <1>FlushCausal
<1> QED
  BY <1>1, <1>2, <1>3, <1>4 DEF NodeStep

\* The repair loops' steps.  A version that a marker is after has an entry of
\* its own, which the marker has from a version that was delivered; that
\* version has seen it, and so has the target.
LEMMA RepairCausal ==
  ASSUME Upheld, StoreInv', NEW S \in SUBSET Item, CausalInv(S), RepairStep
  PROVE  CausalInv(S)'
<1>DeliveryNext.
  ASSUME StoreInv, RepairInv, NEW X, CausalInv(X), NEW n \in Replica, NEW d,
         hd' = [hd EXCEPT ![n] = d], UNCHANGED ae, d.todo \subseteq d.items, d.items \subseteq X,
         d.pc = "send" => \A x \in d.items \ d.todo : Reached(d.to, x)'
  PROVE  RepairsIn(X)' /\ (StoresGrow => DeliveredInv')
  <2> USE <1>DeliveryNext
  <2>1. hd'[n] = d /\ \A m \in Replica : m # n => hd'[m] = hd[m]
    BY DEF RepairInv
  <2>2. RepairsIn(X)
    BY DEF CausalInv, Within
  <2>3. RepairsIn(X)'
    <3>1. ASSUME NEW m \in Replica PROVE hd'[m].todo \subseteq hd'[m].items /\ hd'[m].items \subseteq X
      BY <2>1, <2>2 DEF RepairsIn
    <3> QED
      BY <2>2, <3>1 DEF RepairsIn
  <2>4. ASSUME StoresGrow, NEW m \in Replica, hd'[m].pc = "send", NEW x \in hd'[m].items \ hd'[m].todo
        PROVE  Reached(hd[m].to, x)'
    <3>1. CASE m = n
      <4>1. Reached(d.to, x)'
        BY <2>1, <2>4, <3>1
      <4> QED
        BY <2>1, <3>1, <4>1 DEF Reached, Covers, Leq
    <3>2. CASE m # n
      <4>1. PICK old : old = hd[m]
        OBVIOUS
      <4>2. hd'[m] = old /\ old.pc = "send" /\ x \in old.items \ old.todo
        BY <2>1, <2>4, <3>2, <4>1
      <4>3. old.to \in Replica /\ x \in Version /\ Reached(old.to, x)
        BY <4>1, <4>2, ItemFacts DEF RepairInv, Delivery, CausalInv, DeliveredInv
      <4>4. Reached(old.to, x)'
        BY <2>4, <4>3, ReachedStays
      <4> QED
        BY <4>2, <4>4 DEF Reached, Covers, Leq
    <3> QED
      BY <3>1, <3>2
  <2> QED
    BY <2>3, <2>4 DEF DeliveredInv

<1>ReconcileNext.
  ASSUME StoreInv, RepairInv, NEW X, CausalInv(X), NEW n \in Replica, NEW a,
         ae' = [ae EXCEPT ![n] = a], UNCHANGED hd, a.local \subseteq X, a.remote \subseteq X,
         a.todo \subseteq X
  PROVE  RepairsIn(X)' /\ (StoresGrow => DeliveredInv')
  <2> USE <1>ReconcileNext
  <2>1. ae'[n] = a /\ \A m \in Replica : m # n => ae'[m] = ae[m]
    BY DEF RepairInv
  <2>2. RepairsIn(X)
    BY DEF CausalInv, Within
  <2>3. RepairsIn(X)'
    <3>1. ASSUME NEW m \in Replica
          PROVE  ae'[m].local \subseteq X /\ ae'[m].remote \subseteq X /\ ae'[m].todo \subseteq X
      BY <2>1, <2>2 DEF RepairsIn
    <3> QED
      BY <2>2, <3>1 DEF RepairsIn
  <2> QED
    BY <2>3, DeliveredCarry

\* A step of the loops that changes nothing but its own state.
<1>LoopCausal.
  ASSUME RepairsIn(S)', StoresGrow => DeliveredInv',
         UNCHANGED <<storeVars, hints, nodeVars, coordVars>>
  PROVE  CausalInv(S)'
  <2> USE <1>LoopCausal
  <2>1. CallsIn(S) /\ StoresIn(S)
    BY DEF CausalInv, Within
  <2>2. UNCHANGED <<cl, co, undone>> /\ UNCHANGED past /\ net' \subseteq net
    BY DEF coordVars
  <2>3. Calm(S) /\ NoNewHint
    BY <2>1, <2>2, SameIsCalm
  <2>4. StoresGrow /\ StoresIn(S)'
    BY <2>1, SameGrows
  <2>5. UNCHANGED <<limbo, halted>>
    BY DEF nodeVars
  <2>6. HintsLeft /\ LimboLeft(S)
    BY <2>5, SameNodes DEF HintsLeft
  <2> QED
    BY <2>2, <2>3, <2>4, <2>6, PlainCausal

\* A step of the loops that merges a version.
<1>LoopMergeCausal.
  ASSUME NEW p \in Replica, NEW x \in S, PersisterPut(p, x),
         UNCHANGED <<flushed, inc, hints, nodeVars, coordVars>>, RepairsIn(S)',
         StoresGrow /\ Covers(Get(p)', x) => DeliveredInv'
  PROVE  CausalInv(S)'
  <2> USE <1>LoopMergeCausal
  <2>1. CallsIn(S)
    BY DEF CausalInv, Within
  <2>2. UNCHANGED <<cl, co, undone>> /\ UNCHANGED past /\ net' \subseteq net
    BY DEF coordVars
  <2>3. Calm(S) /\ NoNewHint
    BY <2>1, <2>2, SameIsCalm
  <2>4. UNCHANGED <<flushed, inc, hints, halted, limbo, past>>
    BY DEF nodeVars, coordVars
  <2> QED
    BY <2>3, <2>4, MergeCausal

<1>HintSendCausal.
  ASSUME NEW n \in Replica, NEW t \in Peers(n), HintSend(n, t)
  PROVE  CausalInv(S)'
  <2> USE <1>HintSendCausal
  <2>1. StoreInv /\ RepairInv /\ HintsIn(S) /\ t \in Replica
    BY DEF Upheld, TypesInv, CausalInv, Within, Peers
  <2>2. PICK P, d : P = Pending(n, t) /\ d = [pc |-> "send", to |-> t, items |-> P, todo |-> P]
    OBVIOUS
  <2>3. hd' = [hd EXCEPT ![n] = d] /\ UNCHANGED ae /\ UNCHANGED <<storeVars, hints, nodeVars, coordVars>>
    BY <2>2 DEF HintSend
  <2>4. d.items = P /\ d.todo = P /\ P \subseteq S
    BY <2>1, <2>2 DEF Pending, HintsIn
  <2>5. d.pc = "send" => \A x \in d.items \ d.todo : Reached(d.to, x)'
    BY <2>4
  <2>6. d.todo \subseteq d.items /\ d.items \subseteq S
    BY <2>4
  <2>7. RepairsIn(S)' /\ (StoresGrow => DeliveredInv')
    BY <2>1, <2>3, <2>5, <2>6, <1>DeliveryNext
  <2> QED
    BY <2>3, <2>7, <1>LoopCausal

<1>HintFailsCausal.
  ASSUME NEW n \in Replica, hd' = [hd EXCEPT ![n] = NoDelivery], UNCHANGED ae,
         UNCHANGED <<storeVars, hints, nodeVars, coordVars>>
  PROVE  CausalInv(S)'
  <2> USE <1>HintFailsCausal
  <2>1. StoreInv /\ RepairInv
    BY DEF Upheld, TypesInv
  <2>2. PICK d : d = NoDelivery
    OBVIOUS
  <2>3. hd' = [hd EXCEPT ![n] = d] /\ d.todo \subseteq d.items /\ d.items \subseteq S /\ d.pc # "send"
    BY <2>2, NoRepairs
  <2>4. RepairsIn(S)' /\ (StoresGrow => DeliveredInv')
    BY <2>1, <2>3, <1>DeliveryNext
  <2> QED
    BY <2>4, <1>LoopCausal

<1>HintMergeCausal.
  ASSUME NEW n \in Replica, HintMerge(n)
  PROVE  CausalInv(S)'
  <2> USE <1>HintMergeCausal
  <2>1. StoreInv /\ RepairInv /\ RepairsIn(S)
    BY DEF Upheld, TypesInv, CausalInv, Within
  <2>2. PICK old : old = hd[n]
    OBVIOUS
  <2>3. PICK x \in old.todo : PersisterPut(old.to, x) /\ hd' = [hd EXCEPT ![n].todo = old.todo \ {x}]
    BY <2>2 DEF HintMerge, MergeReplicated
  <2>4. PICK todo, d : todo = old.todo \ {x} /\ d = [old EXCEPT !.todo = todo]
    OBVIOUS
  <2>5. hd' = [hd EXCEPT ![n] = d]
    BY <2>1, <2>2, <2>3, <2>4 DEF RepairInv
  <2>6. /\ old.pc = "send" /\ old.to \in Replica /\ old.items \subseteq S /\ old.todo \subseteq old.items
        /\ old \in Delivery /\ x \in S /\ UNCHANGED ae
        /\ UNCHANGED <<flushed, inc, hints, nodeVars, coordVars>>
    BY <2>1, <2>2 DEF HintMerge, RepairInv, RepairsIn
  <2>7. d.items = old.items /\ d.todo = todo /\ d.to = old.to
    BY <2>4, <2>6 DEF Delivery
  <2>8. StoresGrow /\ Covers(Get(old.to)', x)
    <3>1. x \in Item /\ UNCHANGED <<flushed, inc>>
      BY <2>6
    <3> QED
      BY <2>1, <2>3, <2>6, <3>1, PutGrows
  <2>9. ASSUME NEW z \in d.items \ d.todo PROVE Reached(d.to, z)'
    <3>1. PICK p \in Replica : p = old.to
      BY <2>6
    <3>2. z \in Version
      BY <2>6, <2>7, ItemFacts
    <3>3. CASE z = x
      <4>1. Covers(Get(p)', z)
        BY <2>8, <3>1, <3>3
      <4>2. Reached(p, z)'
        BY <4>1 DEF Reached, Covers, Leq
      <4> QED
        BY <2>7, <3>1, <4>2
    <3>4. CASE z # x
      <4>1. z \in old.items \ old.todo
        BY <2>4, <2>7, <3>4
      <4>2. Reached(p, z)
        BY <2>2, <2>6, <3>1, <4>1 DEF CausalInv, DeliveredInv
      <4>3. Reached(p, z)'
        BY <2>1, <2>8, <3>2, <4>2, ReachedStays
      <4> QED
        BY <2>7, <3>1, <4>3
    <3> QED
      BY <3>3, <3>4
  <2>10. d.todo \subseteq d.items /\ d.items \subseteq S
    BY <2>4, <2>6, <2>7
  <2>11. RepairsIn(S)' /\ (StoresGrow => DeliveredInv')
    BY <2>1, <2>5, <2>6, <2>9, <2>10, <1>DeliveryNext
  <2> QED
    BY <2>3, <2>6, <2>11, <1>LoopMergeCausal

\* Reconciliation.
<1>ReconcileCausal.
  ASSUME NEW n \in Replica,
         \/ \E p \in Peers(n) : ReconcileBegin(n, p)
         \/ ReconcileFetch(n) \/ ReconcilePush(n) \/ ReconcileFails(n)
  PROVE  CausalInv(S)'
  <2> USE <1>ReconcileCausal
  <2>1. StoreInv /\ RepairInv /\ StoresIn(S) /\ RepairsIn(S)
    BY DEF Upheld, TypesInv, CausalInv, Within
  <2>2. UNCHANGED hd /\ UNCHANGED <<storeVars, hints, nodeVars, coordVars>>
    BY DEF ReconcileBegin, ReconcileFetch, ReconcilePush, ReconcileFails
  <2>3. PICK old : old = ae[n]
    OBVIOUS
  <2>4. old \in Reconciliation /\ old.local \subseteq S /\ old.remote \subseteq S /\ old.todo \subseteq S
    BY <2>1, <2>3 DEF RepairInv, RepairsIn
  <2>5. \A p \in Replica : Get(p) \subseteq S
    BY <2>1, MergeWithin DEF Get, StoresIn
  <2>6. \E a : ae' = [ae EXCEPT ![n] = a] /\ a.local \subseteq S /\ a.remote \subseteq S /\ a.todo \subseteq S
    <3>1. ASSUME NEW p \in Peers(n), ReconcileBegin(n, p)
          PROVE  \E a : ae' = [ae EXCEPT ![n] = a] /\ a.local \subseteq S /\ a.remote \subseteq S /\ a.todo \subseteq S
      <4>1. PICK local, a : local = Get(n) /\ a = [NoReconcile EXCEPT !.pc = "fetch", !.peer = p, !.local = local]
        OBVIOUS
      <4>2. ae' = [ae EXCEPT ![n] = a]
        BY <3>1, <4>1 DEF ReconcileBegin
      <4>3. a.local = local /\ a.remote = {} /\ a.todo = {}
        BY <4>1 DEF NoReconcile
      <4> QED
        BY <2>5, <4>1, <4>2, <4>3
    <3>2. CASE ReconcileFetch(n)
      <4>1. PICK remote, todo, a :
              /\ remote = Get(old.peer) /\ todo = missingFrom(old.local, remote)
              /\ a = [old EXCEPT !.pc = "pull", !.remote = remote, !.todo = todo]
        OBVIOUS
      <4>2. /\ old.pc = "fetch"
            /\ ae' = [ae EXCEPT ![n].pc = "pull", ![n].remote = remote, ![n].todo = todo]
        BY <2>3, <3>2, <4>1 DEF ReconcileFetch
      <4>3. ae' = [ae EXCEPT ![n] = a]
        BY <2>1, <2>3, <4>1, <4>2 DEF RepairInv
      <4>4. a.local = old.local /\ a.remote = remote /\ a.todo = todo
        BY <2>4, <4>1 DEF Reconciliation
      <4>5. remote \subseteq S
        <5>1. old.peer \in Replica
          BY <2>1, <2>3, <4>2 DEF RepairInv
        <5> QED
          BY <2>5, <4>1, <5>1
      <4>6. todo \subseteq remote
        BY <4>1 DEF missingFrom
      <4> QED
        BY <2>4, <4>3, <4>4, <4>5, <4>6
    <3>3. CASE ReconcilePush(n)
      <4>1. PICK todo, b : todo = missingFrom(old.remote, old.local) /\ b = [old EXCEPT !.pc = "push", !.todo = todo]
        OBVIOUS
      <4>2. PICK a : a = IF todo = {} THEN NoReconcile ELSE b
        OBVIOUS
      <4>3. ae' = [ae EXCEPT ![n] = a]
        BY <2>1, <2>3, <3>3, <4>1, <4>2 DEF ReconcilePush, RepairInv
      <4>4. b.local = old.local /\ b.remote = old.remote /\ b.todo = todo /\ todo \subseteq old.local
        BY <2>4, <4>1 DEF Reconciliation, missingFrom
      <4>5. b.local \subseteq S /\ b.remote \subseteq S /\ b.todo \subseteq S
        BY <2>4, <4>4
      <4>6. a.local \subseteq S /\ a.remote \subseteq S /\ a.todo \subseteq S
        BY <4>2, <4>5, NoRepairs
      <4> QED
        BY <4>3, <4>6
    <3>4. CASE ReconcileFails(n)
      <4>1. ae' = [ae EXCEPT ![n] = NoReconcile]
        BY <3>4 DEF ReconcileFails
      <4> QED
        BY <4>1, NoRepairs
    <3> QED
      BY <3>1, <3>2, <3>3, <3>4
  <2>7. RepairsIn(S)' /\ (StoresGrow => DeliveredInv')
    BY <2>1, <2>2, <2>6, <1>ReconcileNext
  <2> QED
    BY <2>2, <2>7, <1>LoopCausal

<1>ReconcileMergeCausal.
  ASSUME NEW n \in Replica, ReconcilePull(n) \/ ReconcileMerge(n)
  PROVE  CausalInv(S)'
  <2> USE <1>ReconcileMergeCausal
  <2>1. StoreInv /\ RepairInv /\ RepairsIn(S)
    BY DEF Upheld, TypesInv, CausalInv, Within
  <2>2. PICK old : old = ae[n]
    OBVIOUS
  <2>3. /\ old \in Reconciliation /\ old.local \subseteq S /\ old.remote \subseteq S /\ old.todo \subseteq S
        /\ UNCHANGED hd /\ UNCHANGED <<flushed, inc, hints, nodeVars, coordVars>>
    BY <2>1, <2>2 DEF ReconcilePull, ReconcileMerge, RepairInv, RepairsIn
  <2>4. PICK p \in Replica, x \in old.todo :
          /\ PersisterPut(p, x)
          /\ \/ \E b : b = [old EXCEPT !.todo = old.todo \ {x}] /\ ae' = [ae EXCEPT ![n] = b]
             \/ ae' = [ae EXCEPT ![n] = NoReconcile]
    <3>1. CASE ReconcilePull(n)
      <4>1. PICK x \in old.todo : PersisterPut(n, x) /\ ae' = [ae EXCEPT ![n].todo = old.todo \ {x}]
        BY <2>2, <3>1 DEF ReconcilePull, MergeReplicated
      <4>2. PICK todo, b : todo = old.todo \ {x} /\ b = [old EXCEPT !.todo = todo]
        OBVIOUS
      <4>3. ae' = [ae EXCEPT ![n] = b]
        BY <2>1, <2>2, <4>1, <4>2 DEF RepairInv
      <4> QED
        BY <4>1, <4>2, <4>3
    <3>2. CASE ReconcileMerge(n)
      <4>1. PICK x \in old.todo : /\ PersisterPut(old.peer, x)
                                  /\ ae' = [ae EXCEPT ![n] = IF old.todo = {x} THEN NoReconcile
                                                             ELSE [old EXCEPT !.todo = old.todo \ {x}]]
        BY <2>2, <3>2 DEF ReconcileMerge, MergeReplicated
      <4>2. old.peer \in Replica
        BY <2>1, <2>2, <3>2 DEF ReconcileMerge, RepairInv
      <4>3. PICK b : b = [old EXCEPT !.todo = old.todo \ {x}]
        OBVIOUS
      <4>4. ae' = [ae EXCEPT ![n] = b] \/ ae' = [ae EXCEPT ![n] = NoReconcile]
        BY <4>1, <4>3
      <4> QED
        BY <4>1, <4>2, <4>3, <4>4
    <3> QED
      BY <3>1, <3>2
  <2>5. x \in S
    BY <2>3
  <2>6. ASSUME NEW b, b = [old EXCEPT !.todo = old.todo \ {x}]
        PROVE  b.local = old.local /\ b.remote = old.remote /\ b.todo \subseteq old.todo
    <3>1. PICK todo : todo = old.todo \ {x}
      OBVIOUS
    <3>2. b = [old EXCEPT !.todo = todo]
      BY <2>6, <3>1
    <3>3. b.local = old.local /\ b.remote = old.remote /\ b.todo = todo
      BY <2>3, <3>2 DEF Reconciliation
    <3> QED
      BY <3>1, <3>3
  <2>7. \E a : ae' = [ae EXCEPT ![n] = a] /\ a.local \subseteq S /\ a.remote \subseteq S /\ a.todo \subseteq S
    BY <2>3, <2>4, <2>6, NoRepairs
  <2>8. RepairsIn(S)' /\ (StoresGrow => DeliveredInv')
    BY <2>1, <2>3, <2>7, <1>ReconcileNext
  <2> QED
    BY <2>3, <2>4, <2>5, <2>8, <1>LoopMergeCausal

<1>MarkerAt.
  ASSUME NEW D \in SUBSET Item, IsFiniteSet(D), NEW i \in ClockIDs, i # Delivered
  PROVE  Marker(D).clock[i] = 0 \/ \E z \in D : z.clock[i] = Marker(D).clock[i]
  <2> USE <1>MarkerAt
  <2>1. PICK u, k : u = UnionVectorClock(D) /\ k = [u EXCEPT ![Delivered] = 1]
    OBVIOUS
  <2>2. u \in Clock
    BY <2>1, ItemFacts, UnionType
  <2>3. k[i] = u[i]
    BY <2>1, <2>2 DEF Clock
  <2>4. Marker(D).clock = k
    BY <2>1 DEF Marker
  <2>5. Marker(D).clock[i] = u[i]
    BY <2>3, <2>4
  <2>6. u[i] = 0 \/ \E z \in D : z.clock[i] = u[i]
    BY <2>1, UnionAt
  <2> QED
    BY <2>5, <2>6

<1>MarkerRetires.
  ASSUME StoreInv, NodeInv, OrderInv(S), NEW D, D \subseteq S, IsFiniteSet(D), NEW t \in Replica,
         \A z \in D : Reached(t, z)
  PROVE  Retires(t, Marker(D), All(S))
  <2> USE <1>MarkerRetires
  <2>1. PICK m : m = Marker(D)
    OBVIOUS
  <2>2. D \in SUBSET Item /\ All(S) \in SUBSET Item /\ S \subseteq All(S)
    BY AllFacts
  <2>3. m \in Version
    BY <2>1, <2>2, MarkerType
  <2>4. ASSUME NEW i \in ClockIDs, i # Delivered PROVE m.clock[i] = 0 \/ \E z \in D : z.clock[i] = m.clock[i]
    BY <2>1, <2>2, <2>4, <1>MarkerAt
  <2>5. Recorded({m})
    <3>1. ASSUME NEW n \in Replica PROVE Known(n, m.clock[clockID(n)])
      <4>1. clockID(n) \in ClockIDs /\ clockID(n) # Delivered
        BY EntryFacts
      <4>2. m.clock[clockID(n)] = 0 \/ \E z \in D : z.clock[clockID(n)] = m.clock[clockID(n)]
        BY <2>4, <4>1
      <4>3. \A z \in D : Known(n, z.clock[clockID(n)])
        BY DEF OrderInv, Recorded
      <4>4. CASE m.clock[clockID(n)] = 0
        BY <4>4 DEF Known
      <4>5. CASE \E z \in D : z.clock[clockID(n)] = m.clock[clockID(n)]
        BY <4>3, <4>5
      <4> QED
        BY <4>2, <4>4, <4>5
    <3> QED
      BY <3>1 DEF Recorded
  <2>6. Fresh({m})
    <3>1. ASSUME NEW n \in Replica, NEW k \in 0..MaxIncarnation, k > inc[n] PROVE m.clock[<<n, k>>] = 0
      <4>1. <<n, k>> \in ClockIDs /\ <<n, k>> # Delivered
        BY EntryFacts
      <4>2. m.clock[<<n, k>>] = 0 \/ \E z \in D : z.clock[<<n, k>>] = m.clock[<<n, k>>]
        BY <2>4, <4>1
      <4>3. \A z \in D : z.clock[<<n, k>>] = 0
        BY <2>2, <3>1 DEF OrderInv, Fresh
      <4> QED
        BY <4>2, <4>3
    <3> QED
      BY <3>1 DEF Fresh
  <2>7. ASSUME NEW x \in All(S), Leq(x, m) PROVE Reached(t, x)
    <3>1. PICK i \in ClockIDs : Own(All(S), x, i)
      BY DEF OrderInv, HaveOwn
    <3>2. x.clock[i] > 0 /\ x.clock[i] \in Nat /\ x \in Version /\ x.clock[i] <= m.clock[i]
      BY <2>2, <2>7, <3>1, ClockFacts DEF Own, Leq
    <3>3. i # Delivered
      BY <3>2 DEF OrderInv, isMarker
    <3>4. m.clock[i] # 0
      BY <3>2, SMT
    <3>5. PICK z \in D : z.clock[i] = m.clock[i]
      BY <2>4, <3>3, <3>4
    <3>6. z \in All(S) /\ z \in Version /\ Reached(t, z)
      BY <2>2, ItemFacts
    <3>7. z.clock[i] >= x.clock[i]
      <4>1. z.clock[i] \in Nat
        BY <2>2, ClockFacts
      <4> QED
        BY ONLY <3>2, <3>5, <4>1, SMT
    <3>8. Leq(x, z)
      BY <3>1, <3>6, <3>7 DEF Own
    <3>9. CASE inc[t] > 0
      BY <3>9 DEF Reached
    <3>10. CASE Covers(Get(t), z)
      <4>1. PICK w \in Get(t) : Leq(z, w)
        BY <3>10 DEF Covers
      <4>2. w \in Version
        BY GetList, ItemFacts
      <4>3. Leq(x, w)
        BY <3>2, <3>6, <3>8, <4>1, <4>2, LeqTransitive
      <4> QED
        BY <4>3 DEF Reached, Covers
    <3> QED
      BY <3>6, <3>9, <3>10 DEF Reached
  <2>8. Retires(t, m, All(S))
    BY <2>3, <2>5, <2>6, <2>7 DEF Retires
  <2> QED
    BY <2>1, <2>8

<1>HintMarkCausal.
  ASSUME NEW n \in Replica, HintMark(n)
  PROVE  CausalInv(S)'
  <2> USE <1>HintMarkCausal
  <2>1. StoreInv /\ NodeInv /\ RepairInv /\ RepairsIn(S) /\ OrderInv(S) /\ CallsIn(S)
    BY DEF Upheld, TypesInv, CausalInv, Within
  <2>2. /\ hd[n].pc = "send" /\ hd[n].todo = {} /\ hd' = [hd EXCEPT ![n] = NoDelivery]
        /\ UNCHANGED ae /\ UNCHANGED <<storeVars, nodeVars, coordVars>>
    BY DEF HintMark
  <2>3. CASE UNCHANGED hints
    BY <2>2, <2>3, <1>HintFailsCausal
  <2>4. CASE MarkDelivered(n, hd[n].to, hd[n].items)
    <3>1. PICK D, t, x : D = hd[n].items /\ t = hd[n].to /\ x = Marker(D)
      OBVIOUS
    <3>2. D \subseteq S /\ IsFiniteSet(D) /\ t \in Replica
      BY <2>1, <2>2, <3>1 DEF RepairInv, RepairsIn
    <3>3. ASSUME NEW z \in D PROVE Reached(t, z)
      <4>1. z \in hd[n].items \ hd[n].todo
        BY <2>2, <3>1
      <4> QED
        BY <2>2, <3>1, <4>1 DEF CausalInv, DeliveredInv
    <3>4. Retires(t, x, All(S))
      <4>1. Retires(t, Marker(D), All(S))
        BY <2>1, <3>2, <3>3, <1>MarkerRetires
      <4> QED
        BY <3>1, <4>1
    <3>5. x \in Version /\ isMarker(x)
      <4>1. D \in SUBSET Item
        BY <3>2
      <4> QED
        BY <3>1, <3>2, <4>1, MarkerType
    <3>6. hints' = [hints EXCEPT ![n][t] = Resolve(@, x)]
      BY <2>4, <3>1 DEF MarkDelivered, enginePut
    <3>7. UNCHANGED <<cl, co, undone>> /\ net' \subseteq net /\ UNCHANGED <<storeVars, halted, limbo, past>>
      BY <2>2 DEF coordVars, nodeVars
    <3>8. Calm(S)
      BY <2>1, <3>7, SameIsCalm
    <3>9. \A c \in Client, m, p \in Replica : co'[c][m].res[p] = "hinted" => co[c][m].res[p] = "hinted"
      BY <3>7
    <3>10. RepairsIn(S)' /\ (StoresGrow => DeliveredInv')
      <4>1. PICK d : d = NoDelivery
        OBVIOUS
      <4>2. hd' = [hd EXCEPT ![n] = d] /\ d.todo \subseteq d.items /\ d.items \subseteq S /\ d.pc # "send"
        BY <2>2, <4>1, NoRepairs
      <4> QED
        BY <2>1, <2>2, <4>2, <1>DeliveryNext
    <3>11. \A c \in Client, m, p \in Replica : co'[c][m].res[p] = "hinted" =>
             \/ co[c][m].res[p] = "hinted"
             \/ m = n /\ p = t /\ co'[c][m].item = x /\ x \in Item
      BY <3>9
    <3> QED
      BY <3>2, <3>4, <3>5, <3>6, <3>7, <3>8, <3>10, <3>11, HintPutCausal
  <2> QED
    BY <2>3, <2>4 DEF HintMark
<1>1. PICK n \in Replica :
        \/ \E p \in Peers(n) : HintSend(n, p) \/ ReconcileBegin(n, p)
        \/ HintMerge(n) \/ HintMark(n) \/ HintFails(n)
        \/ ReconcileFetch(n) \/ ReconcilePull(n) \/ ReconcilePush(n) \/ ReconcileMerge(n)
        \/ ReconcileFails(n)
  BY DEF RepairStep
<1>2. CASE \E p \in Peers(n) : HintSend(n, p)
  BY <1>2, <1>HintSendCausal
<1>3. CASE HintMerge(n)
  BY <1>3, <1>HintMergeCausal
<1>4. CASE HintMark(n)
  BY <1>4, <1>HintMarkCausal
<1>5. CASE HintFails(n)
  <2>1. /\ hd' = [hd EXCEPT ![n] = NoDelivery] /\ UNCHANGED ae
        /\ UNCHANGED <<storeVars, hints, nodeVars, coordVars>>
    BY <1>5 DEF HintFails
  <2> QED
    BY <2>1, <1>HintFailsCausal
<1>6. CASE \/ \E p \in Peers(n) : ReconcileBegin(n, p)
           \/ ReconcileFetch(n) \/ ReconcilePush(n) \/ ReconcileFails(n)
  BY <1>6, <1>ReconcileCausal
<1>7. CASE ReconcilePull(n) \/ ReconcileMerge(n)
  BY <1>7, <1>ReconcileMergeCausal
<1> QED
  BY <1>1, <1>2, <1>3, <1>4, <1>5, <1>6, <1>7

LEMMA NextCausal ==
  ASSUME IReplication, IReplication', ICausality, [Next]_vars
  PROVE  ICausality'
<1>1. Upheld /\ StoreInv' /\ CoInv
  BY DEF IReplication, Upheld, TypesInv
<1>2. SUFFICES ASSUME Undisturbed' PROVE \E S1 \in SUBSET Item : CausalInv(S1)'
  BY DEF ICausality
<1>3. Undisturbed
  BY <1>1, <1>2, UndisturbedBefore
<1>4. PICK S \in SUBSET Item : CausalInv(S)
  BY <1>3 DEF ICausality
<1>5. \A c \in Client, n \in Replica : ~Rollback(c, n)
  <2>1. \A c \in Client, n \in Replica : co'[c][n].ans # "quorum"
    BY <1>2 DEF Undisturbed
  <2> QED
    BY <1>1, <2>1, RollbackDisturbs
<1>6. CASE UNCHANGED vars
  <2>1. /\ UNCHANGED <<storeVars, hints, halted, limbo, past, repairVars>> /\ UNCHANGED <<cl, co, undone>>
        /\ net' \subseteq net
    BY <1>6 DEF vars, nodeVars, coordVars
  <2>2. Calm(S) /\ NoNewHint
    BY <1>4, <2>1, SameIsCalm DEF CausalInv, Within
  <2> QED
    BY <1>1, <1>4, <2>1, <2>2, QuietCausal
<1>7. CASE ClientStep /\ UNCHANGED repairVars
  BY <1>1, <1>3, <1>4, <1>7, ClientStepCausal
<1>8. CASE CoordinatorStep /\ UNCHANGED repairVars
  BY <1>1, <1>4, <1>5, <1>8, CoordinatorCausal
<1>9. CASE NodeStep /\ UNCHANGED repairVars
  BY <1>1, <1>4, <1>9, NodeCausal
<1>10. CASE (\E m \in net : Arrives(m)) /\ UNCHANGED repairVars
  BY <1>1, <1>4, <1>10, ArrivesCausal
<1>11. CASE RepairStep
  BY <1>1, <1>4, <1>11, RepairCausal
<1>12. CASE \E n \in Replica : Crash(n) \/ CloseEnd(n)
  BY <1>1, <1>4, <1>12, EndsCausal DEF Crash, CloseEnd
<1> QED
  BY <1>6, <1>7, <1>8, <1>9, <1>10, <1>11, <1>12 DEF Next

LEMMA InitCausal ==
  ASSUME Init
  PROVE  CausalInv({})
<1>1. /\ active = [n \in Replica |-> {}] /\ flushed = [n \in Replica |-> {}] /\ inc = [n \in Replica |-> 0]
      /\ hints = [n \in Replica |-> [t \in Replica |-> {}]] /\ limbo = [n \in Replica |-> {}]
      /\ cl = [c \in Client |-> NoCall] /\ co = [c \in Client |-> [n \in Replica |-> NoCoordination]]
      /\ net = {} /\ undone = {}
      /\ hd = [n \in Replica |-> NoDelivery] /\ ae = [n \in Replica |-> NoReconcile]
  BY DEF Init, ReplicationInit, StoreInit, HintsInit
<1>2. ASSUME NEW n \in Replica
      PROVE  /\ active[n] = {} /\ flushed[n] = {} /\ limbo[n] = {} /\ hd[n] = NoDelivery /\ ae[n] = NoReconcile
             /\ \A t \in Replica : hints[n][t] = {}
  BY <1>1
<1>3. ASSUME NEW c \in Client
      PROVE  cl[c] = NoCall /\ \A n \in Replica : co[c][n] = NoCoordination
  BY <1>1
<1>4. /\ NoCall.merged = {} /\ NoCall.pc = "idle" /\ NoCall.ctx = NoContext /\ NoCoordination.item = NoVersion
      /\ \A p \in Replica : NoCoordination.res[p] = "none"
  BY DEF NoCall, NoCoordination
<1>5. Within({})
  <2>1. StoresIn({}) /\ HintsIn({})
    BY <1>2 DEF StoresIn, HintsIn
  <2>2. CallsIn({}) /\ ReadsIn({})
    BY <1>1, <1>3, <1>4 DEF CallsIn, ReadsIn
  <2>3. RepairsIn({})
    BY <1>2, NoRepairs DEF RepairsIn
  <2> QED
    BY <2>1, <2>2, <2>3 DEF Within
<1>6. All({}) = {}
  <2>1. \A x : x \notin All({})
    BY <1>2 DEF All
  <2> QED
    BY <2>1
<1>7. OrderInv({}) /\ LimboInv
  BY <1>2, <1>6 DEF OrderInv, HaveOwn, Faithful, Fresh, Recorded, LimboInv
<1>8. MarkersInv({}) /\ DeliveredInv
  BY <1>2, NoRepairs DEF MarkersInv, DeliveredInv
<1>9. HintedInv
  BY <1>3, <1>4 DEF HintedInv
<1>10. AckInv /\ ReadInv /\ \A c \in Client : cl[c].ctx = NoContext
  BY <1>3, <1>4 DEF AckInv, Acked, ReadInv
<1> QED
  BY <1>1, <1>5, <1>7, <1>8, <1>9, <1>10 DEF CausalInv

-----------------------------------------------------------------------------
\* The invariant: sound records, held versions, hints only of writes that
\* stand, and one chain of coordinations per client, in every scenario.
THEOREM ReplicationInvariant == Spec => []IReplication
<1>1. Init => IReplication
  BY InitUpholds
<1>2. IReplication /\ [Next]_vars => IReplication'
  BY NextUpholds
<1> QED
  BY <1>1, <1>2, PTL DEF Spec

\* The stores hold versions that are siblings, and nothing else.  (store)
THEOREM ReplicaTypes == Spec => []TypeOK
<1>1. IReplication => TypeOK
  <2> SUFFICES ASSUME IReplication PROVE TypeOK
    OBVIOUS
  <2>1. StoreTypeOK
    BY ItemFacts DEF IReplication, TypesInv, StoreInv, StoreTypeOK, List, Items
  <2>2. \A n, t \in Replica : hints[n][t] \subseteq Version /\ Siblings(hints[n][t])
    BY DEF IReplication, HintInv
  <2>3. up \in [Replica -> {"up", "closing", "down"}] /\ halted \subseteq Replica
    BY DEF IReplication, TypesInv, NodeInv
  <2>4. \A m \in net : m.to \in Replica /\ m.item \in Version
    BY ItemFacts DEF IReplication, TypesInv, NetInv
  <2>5. \A c \in Client : past[c] \subseteq Client
    BY DEF IReplication, TypesInv, PastInv
  <2> QED
    BY <2>1, <2>2, <2>3, <2>4, <2>5 DEF TypeOK
<1> QED
  BY <1>1, ReplicationInvariant, PTL

\* An acknowledged version is covered on W replicas, but for rollbacks and
\* replaced disks: whatever is lost, late, retried or restarted, and with
\* any flushes and repairs between.  (putAsReplica, Replicate)
THEOREM AckedIsCovered == Spec => []AckedCovered
<1>1. IReplication => AckedCovered
  <2> SUFFICES ASSUME IReplication, NEW c \in Client, NEW n \in Replica, co[c][n].ans = "ok"
               PROVE  Cardinality({p \in Replica : \/ Covers(Get(p), co[c][n].item)
                                                   \/ <<p, co[c][n].item>> \in undone
                                                   \/ inc[p] > 0}) >= W
    BY DEF AckedCovered
  <2> DEFINE H == {p \in Replica : \/ Covers(Get(p), co[c][n].item)
                                   \/ <<p, co[c][n].item>> \in undone
                                   \/ inc[p] > 0}
             O == Oks(co[c][n].res)
  <2>1. Sound(c, n, co[c][n])
    BY DEF IReplication, TypesInv, CoInv
  <2>2. n \notin O /\ 1 + Cardinality(O) >= W /\ O \in SUBSET Replica
    BY <2>1 DEF Sound, Oks
  <2>3. O \cup {n} \subseteq H
    <3>1. O \cup {n} \subseteq Owes(n, co[c][n])
      BY DEF Owes, Oks
    <3> QED
      BY <2>2, <3>1 DEF IReplication, HeldInv, Holds
  <2>4. H \in SUBSET Replica
    OBVIOUS
  <2> HIDE DEF H, O
  <2>5. IsFiniteSet(O) /\ IsFiniteSet(H) /\ Cardinality(O) \in Nat /\ Cardinality(H) \in Nat /\ W \in Nat
    BY <2>2, <2>4, ReplicaFacts
  <2>6. Cardinality(O \cup {n}) = Cardinality(O) + 1
    BY <2>2, <2>5, FS_AddElement
  <2>7. Cardinality(O \cup {n}) <= Cardinality(H)
    BY <2>3, <2>5, FS_Subset
  <2>8. Cardinality(H) >= W
    BY ONLY <2>2, <2>5, <2>6, <2>7, SMT
  <2> QED
    BY <2>8 DEF H
<1> QED
  BY <1>1, ReplicationInvariant, PTL

\* No hint holds a write that its coordinator rolled back.  (drainReplication)
THEOREM NoUndoneHint == Spec => []NoHintOfUndone
<1>1. IReplication => NoHintOfUndone
  <2> SUFFICES ASSUME IReplication, NEW c \in Client, NEW n \in Replica, NEW p \in Replica,
                      co[c][n].ans = "quorum", co[c][n].item \in hints[n][p]
               PROVE  FALSE
    BY DEF NoHintOfUndone
  <2>1. PICK x : x = co[c][n].item
    OBVIOUS
  <2>2. \/ x.val = NoValue /\ isMarker(x)
        \/ x \in Item /\ co[x.val][n].ans \in {"ok", "canceled"}
    BY <2>1 DEF IReplication, HintInv
  <2>3. x = NoVersion \/ (x \in Item /\ x.val = c)
    BY <2>1 DEF IReplication, TypesInv, CoInv, Sound, Coordination
  <2>4. x # NoVersion
    BY ONLY <2>2, ItemFacts, DeliveredAssumption, SMT DEF NoVersion, isMarker, ZeroClock
  <2> QED
    BY <2>2, <2>3, <2>4, QuorumAssumption
<1> QED
  BY <1>1, ReplicationInvariant, PTL

\* A client's write is versioned by one replica, those aside whose
\* connection broke, in whatever order a forwarding node tries them.
\* (forwardPut)
THEOREM WriteVersionedOnce == Spec => []VersionedOnce
<1>1. IReplication => VersionedOnce
  <2> SUFFICES ASSUME IReplication, NEW c \in Client
               PROVE  Cardinality({n \in Replica \ cl[c].broken : co[c][n].item # NoVersion}) <= 1
    BY DEF VersionedOnce
  <2> DEFINE S == {n \in Replica \ cl[c].broken : co[c][n].item # NoVersion}
  <2>1. ASSUME NEW n \in S PROVE n = cl[c].on
    <3>1. Sound(c, n, co[c][n])
      BY DEF IReplication, TypesInv, CoInv
    <3>2. co[c][n].pc # "none"
      BY <3>1 DEF Sound
    <3> QED
      BY <3>2 DEF IReplication, ChainInv
  <2>2. S \subseteq {cl[c].on}
    BY <2>1
  <2> HIDE DEF S
  <2>3. IsFiniteSet({cl[c].on}) /\ Cardinality({cl[c].on}) = 1
    BY FS_Singleton
  <2>4. Cardinality(S) <= 1
    BY <2>2, <2>3, FS_Subset
  <2> QED
    BY <2>4 DEF S
<1> QED
  BY <1>1, ReplicationInvariant, PTL

-----------------------------------------------------------------------------
(***************************************************************************)
(* The invariant: as long as no rollback has taken a clock entry back and  *)
(* no client writes with a context, clocks say what was built on what,     *)
(* every replica that covers a version has the write or one built on it,   *)
(* and markers retire only what was delivered; whatever crashes, restarts, *)
(* replaced disks, lost and late calls, flushes and repairs there are.     *)
(***************************************************************************)
THEOREM CausalityInvariant == Spec => []ICausality
<1>1. Init => IReplication /\ ICausality
  <2>1. ASSUME Init PROVE ICausality
    <3>1. CausalInv({})
      BY <2>1, InitCausal
    <3> QED
      BY <3>1 DEF ICausality
  <2> QED
    BY <2>1, InitUpholds
<1>2. IReplication /\ ICausality /\ [Next]_vars => IReplication' /\ ICausality'
  BY NextUpholds, NextCausal
<1> QED
  BY <1>1, <1>2, PTL DEF Spec

\* What covers a version by its clock has its write, or one built on it.
LEMMA CoversSupersedes ==
  ASSUME NEW S \in SUBSET Item, CausalInv(S), NEW x \in S, NEW V, V \subseteq S, Covers(V, x)
  PROVE  Superseded(V, x.val)
<1>1. PICK z \in V : Leq(x, z)
  BY DEF Covers
<1>2. x \in All(S) /\ z \in All(S) /\ z.val \in Client
  BY ItemFacts DEF All, Item
<1>3. x.val = z.val \/ x.val \in past[z.val]
  BY <1>1, <1>2 DEF CausalInv, OrderInv, Faithful
<1> QED
  BY <1>2, <1>3 DEF Superseded

\* The version of an acknowledged write.
LEMMA AckedVersion ==
  ASSUME IReplication, NEW S, CausalInv(S), NEW c \in Client, NEW n \in Replica, co[c][n].ans = "ok"
  PROVE  co[c][n].item \in S /\ co[c][n].item.val = c
<1>1. CoInv /\ CallsIn(S)
  BY DEF IReplication, TypesInv, CausalInv, Within
<1>2. Sound(c, n, co[c][n])
  BY <1>1 DEF CoInv
<1>3. co[c][n].item \in Item /\ co[c][n].item.val = c
  BY <1>2, SMT DEF Sound
<1> QED
  BY <1>1, <1>3, ItemFacts DEF CallsIn

\* W replicas have it, those apart that have lost a disk.
LEMMA AckedAt ==
  ASSUME IReplication, NEW S \in SUBSET Item, CausalInv(S), NEW c \in Acked
  PROVE  \E n \in Replica, Q \in SUBSET Replica :
           /\ co[c][n].ans = "ok" /\ Cardinality(Q) >= W
           /\ \A p \in Q : Superseded(Get(p), c) \/ inc[p] > 0
<1>1. c \in Client /\ Upheld /\ undone = {} /\ AckInv /\ StoresIn(S)
  BY DEF Acked, IReplication, Upheld, CausalInv, Within
<1>2. PICK n \in Replica : co[c][n].ans = "ok"
  BY <1>1 DEF AckInv
<1>3. PICK x : x = co[c][n].item
  OBVIOUS
<1>4. x \in S /\ x.val = c
  BY <1>1, <1>2, <1>3, AckedVersion
<1>5. PICK Q \in SUBSET Replica : Cardinality(Q) >= W /\ \A p \in Q : Reached(p, x)
  BY <1>1, <1>2, <1>3, AckedReached
<1>6. ASSUME NEW p \in Q PROVE Superseded(Get(p), c) \/ inc[p] > 0
  <2>1. Get(p) \subseteq S
    BY <1>1, MergeWithin DEF Get, StoresIn
  <2>2. Covers(Get(p), x) => Superseded(Get(p), x.val)
    BY <1>4, <2>1, CoversSupersedes
  <2> QED
    BY <1>4, <1>5, <2>2 DEF Reached
<1> QED
  BY <1>2, <1>5, <1>6

(***************************************************************************)
(* A read returns every write acknowledged before it began, or writes      *)
(* built on it, when fewer disks were lost than quorums overlap in: with   *)
(* W + R > N and no replaced disk, always.  Rollbacks and writes with a    *)
(* context, which share clock entries, are the only exceptions.            *)
(* (Node.Get, Node.putAsReplica)                                           *)
(***************************************************************************)
THEOREM ReadsSeeAckedWrites ==
  Spec => [](Undisturbed /\ Total + Cardinality(Replaced) < W + R => ReadsSeeAcked)
<1>1. IReplication /\ ICausality => (Undisturbed /\ Total + Cardinality(Replaced) < W + R => ReadsSeeAcked)
  <2> SUFFICES ASSUME IReplication, ICausality, Undisturbed, Total + Cardinality(Replaced) < W + R,
                      NEW c \in Client, cl[c].pc = "got", NEW d \in cl[c].since
               PROVE  Superseded(cl[c].merged, d)
    BY DEF ReadsSeeAcked
  <2>1. PICK S \in SUBSET Item : CausalInv(S)
    BY DEF ICausality
  <2>2. /\ cl \in [Client -> Call] /\ ReadInv /\ ReadsIn(S)
    BY <2>1 DEF IReplication, TypesInv, CallInv, CausalInv, Within
  <2>3. PICK A : A = cl[c].resp
    OBVIOUS
  <2>4. A \in SUBSET Replica /\ d \in Client /\ cl[c].merged \subseteq S /\ Cardinality(A) >= R
    BY <2>2, <2>3 DEF Call, ReadsIn, ReadInv
  <2>5. PICK n \in Replica : co[d][n].ans = "ok" /\ Shown(c, co[d][n].item)
    BY <2>2 DEF ReadInv
  <2>6. PICK x : x = co[d][n].item
    OBVIOUS
  <2>7. x \in S /\ x.val = d
    BY <2>1, <2>4, <2>5, <2>6, AckedVersion
  <2>8. PICK Q \in SUBSET Replica :
          /\ Cardinality(Q) >= W
          /\ \A p \in Q : p \in A => Covers(cl[c].merged, x) \/ inc[p] > 0
    BY <2>3, <2>5, <2>6 DEF Shown
  <2>9. \E p \in Q \cap A : p \notin Replaced
    <3>1. SUFFICES ASSUME Q \cap A \subseteq Replaced PROVE FALSE
      OBVIOUS
    <3>2. /\ IsFiniteSet(Replica) /\ Cardinality(Replica) \in Nat /\ Cardinality(Replica) <= Total
          /\ Total \in Nat /\ W \in Nat /\ R \in Nat
          /\ IsFiniteSet(Q) /\ IsFiniteSet(A)
          /\ IsFiniteSet(Replaced) /\ Cardinality(Replaced) \in Nat
      <4>1. Replaced \in SUBSET Replica
        BY DEF Replaced
      <4>2. Total \in Nat /\ R \in Nat
        BY QuorumAssumption, SMT DEF Total
      <4>3. Pref \in Surjection(1..Total, Replica)
        BY ONLY ReplicaFacts, QuorumAssumption, SMT DEF Surjection, Total
      <4>4. IsFiniteSet(1..Total) /\ Cardinality(1..Total) = Total
        BY ONLY <4>2, FS_Interval, SMT
      <4>5. Cardinality(Replica) <= Total
        <5>1. Cardinality(Replica) <= Cardinality(1..Total)
          BY <4>3, <4>4, FS_Surjection
        <5> QED
          BY <4>4, <5>1
      <4>6. Replica \in SUBSET Replica
        OBVIOUS
      <4> QED
        BY <2>4, <2>8, <4>1, <4>2, <4>5, <4>6, ReplicaFacts
    <3>3. /\ Cardinality(Q) \in Nat /\ Cardinality(A) \in Nat
          /\ IsFiniteSet(Q \cap A) /\ Cardinality(Q \cap A) \in Nat
      <4>1. IsFiniteSet(Q \cap A)
        BY <3>2, FS_Intersection
      <4> QED
        BY <3>2, <4>1, FS_CardinalityType
    <3>4. Cardinality(Q \cup A) = Cardinality(Q) + Cardinality(A) - Cardinality(Q \cap A)
      BY <3>2, FS_Union
    <3>5. Cardinality(Q \cup A) <= Cardinality(Replica)
      <4>1. Q \cup A \in SUBSET Replica
        BY <2>4
      <4> QED
        BY <3>2, <4>1, FS_Subset
    <3>6. Cardinality(Q \cap A) <= Cardinality(Replaced)
      BY <3>1, <3>2, FS_Subset
    <3>7. PICK q, a, i, r, k : /\ q = Cardinality(Q) /\ a = Cardinality(A) /\ i = Cardinality(Q \cap A)
                               /\ r = Cardinality(Replica) /\ k = Cardinality(Replaced)
      OBVIOUS
    <3>8. q \in Nat /\ a \in Nat /\ i \in Nat /\ r \in Nat /\ k \in Nat
      BY <3>2, <3>3, <3>7
    <3>9. q + a - i <= r /\ i <= k /\ r <= Total /\ Total + k < W + R /\ q >= W /\ a >= R
      BY <2>4, <2>8, <3>2, <3>4, <3>5, <3>6, <3>7
    <3>10. Total \in Nat /\ W \in Nat /\ R \in Nat
      BY <3>2
    <3> QED
      BY ONLY <3>8, <3>9, <3>10, SMT
  <2>10. PICK p \in Q \cap A : ~(inc[p] > 0)
    BY <2>8, <2>9 DEF Replaced
  <2>11. Covers(cl[c].merged, x)
    BY <2>8, <2>10
  <2>12. Superseded(cl[c].merged, x.val)
    BY <2>1, <2>4, <2>7, <2>11, CoversSupersedes
  <2> QED
    BY <2>7, <2>12
<1> QED
  BY <1>1, ReplicationInvariant, CausalityInvariant, PTL

(***************************************************************************)
(* An acknowledged write is on W replicas, or writes built on it are, as   *)
(* long as no disk is lost and no clock entry is taken back or shared.     *)
(* (putAsReplica)                                                          *)
(***************************************************************************)
THEOREM AckedOnQuorumHolds == Spec => [](Undisturbed /\ Replaced = {} => AckedOnQuorum)
<1>1. IReplication /\ ICausality => (Undisturbed /\ Replaced = {} => AckedOnQuorum)
  <2> SUFFICES ASSUME IReplication, ICausality, Undisturbed, Replaced = {}, NEW c \in Acked
               PROVE  \E n \in Replica :
                        /\ co[c][n].ans = "ok"
                        /\ Cardinality({p \in Replica : Superseded(Get(p), c) \/ <<p, co[c][n].item>> \in undone}) >= W
    BY DEF AckedOnQuorum
  <2>1. PICK S \in SUBSET Item : CausalInv(S)
    BY DEF ICausality
  <2>2. PICK n \in Replica, Q \in SUBSET Replica :
          /\ co[c][n].ans = "ok" /\ Cardinality(Q) >= W
          /\ \A p \in Q : Superseded(Get(p), c) \/ inc[p] > 0
    BY <2>1, AckedAt
  <2> DEFINE H == {p \in Replica : Superseded(Get(p), c) \/ <<p, co[c][n].item>> \in undone}
  <2>3. Q \subseteq H /\ H \in SUBSET Replica
    BY <2>2 DEF Replaced
  <2> HIDE DEF H
  <2>4. IsFiniteSet(H) /\ Cardinality(H) \in Nat /\ Cardinality(Q) \in Nat /\ W \in Nat
    BY <2>3, ReplicaFacts
  <2>5. Cardinality(Q) <= Cardinality(H)
    BY <2>3, <2>4, FS_Subset
  <2>6. Cardinality(H) >= W
    BY ONLY <2>2, <2>4, <2>5, SMT
  <2> QED
    BY <2>2, <2>6 DEF H
<1> QED
  BY <1>1, ReplicationInvariant, CausalityInvariant, PTL

(***************************************************************************)
(* An acknowledged write does not disappear, or writes built on it do not, *)
(* as long as fewer than W disks are lost.  (putAsReplica, LoadOrCreate)   *)
(***************************************************************************)
THEOREM AckedSurvivesLoss == Spec => [](Undisturbed /\ Cardinality(Replaced) < W => AckedSurvives)
<1>1. IReplication /\ ICausality => (Undisturbed /\ Cardinality(Replaced) < W => AckedSurvives)
  <2> SUFFICES ASSUME IReplication, ICausality, Undisturbed, Cardinality(Replaced) < W, NEW c \in Acked
               PROVE  \E p \in Replica : Superseded(Get(p), c)
    BY DEF AckedSurvives
  <2>1. PICK S \in SUBSET Item : CausalInv(S)
    BY DEF ICausality
  <2>2. PICK n \in Replica, Q \in SUBSET Replica :
          Cardinality(Q) >= W /\ \A p \in Q : Superseded(Get(p), c) \/ inc[p] > 0
    BY <2>1, AckedAt
  <2>3. Replaced \in SUBSET Replica
    BY DEF Replaced
  <2>4. IsFiniteSet(Replaced) /\ Cardinality(Replaced) \in Nat /\ Cardinality(Q) \in Nat /\ W \in Nat
    BY <2>3, ReplicaFacts
  <2>5. Q \subseteq Replaced => Cardinality(Q) <= Cardinality(Replaced)
    BY <2>4, FS_Subset
  <2>6. ~(Q \subseteq Replaced)
    BY ONLY Cardinality(Replaced) < W, <2>2, <2>4, <2>5, SMT
  <2> QED
    BY <2>2, <2>6 DEF Replaced
<1> QED
  BY <1>1, ReplicationInvariant, CausalityInvariant, PTL

(***************************************************************************)
(* A hint is pending until its target has the version or a later one, also *)
(* when hints come between a delivery and its mark: a marker never retires *)
(* what was not delivered, unless a rollback let an entry be given twice   *)
(* or two writes shared a context.  (hints.Store, deliverHintsTo)          *)
(***************************************************************************)
THEOREM HintsAreKept == Spec => [](Undisturbed => HintsKeptUntilDelivered)
<1>1. IReplication /\ ICausality => (Undisturbed => HintsKeptUntilDelivered)
  <2> SUFFICES ASSUME ICausality, Undisturbed, NEW c \in Client, NEW n \in Replica, NEW p \in Replica,
                      co[c][n].res[p] = "hinted", inc[n] = 0, inc[p] = 0
               PROVE  Covers(Pending(n, p), co[c][n].item) \/ Covers(Get(p), co[c][n].item)
    BY DEF HintsKeptUntilDelivered
  <2>1. HintedInv
    BY DEF ICausality, CausalInv
  <2>2. Covers(Pending(n, p), co[c][n].item) \/ Reached(p, co[c][n].item)
    BY <2>1 DEF HintedInv
  <2>3. ~(inc[p] > 0)
    BY SMT
  <2> QED
    BY <2>2, <2>3 DEF Reached
<1> QED
  BY <1>1, ReplicationInvariant, CausalityInvariant, PTL
=============================================================================
