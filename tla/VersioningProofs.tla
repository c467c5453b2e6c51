-------------------------- MODULE VersioningProofs --------------------------
(***************************************************************************)
(* What Resolve and MergeSiblings guarantee, for any set of clock ids:     *)
(* vector clocks are partially ordered, and no merge loses a version       *)
(* without keeping one that covers it, nor keeps two that are ordered.     *)
(***************************************************************************)
EXTENDS Versioning, TLAPS

\* CompareSnapshots' four answers in terms of the order on clocks.
LEMMA CompareLeq ==
  ASSUME NEW x \in Version, NEW y \in Version
  PROVE  /\ Compare(x, y) = "Before" <=> Leq(x, y) /\ ~Leq(y, x)
         /\ Compare(x, y) = "After" <=> Leq(y, x) /\ ~Leq(x, y)
         /\ Compare(x, y) = "Equal" <=> Leq(x, y) /\ Leq(y, x)
         /\ Compare(x, y) = "Concurrent" <=> ~Leq(x, y) /\ ~Leq(y, x)
<1>1. \A n \in ClockIDs : x.clock[n] \in Nat /\ y.clock[n] \in Nat
  BY DEF Version, Clock
<1>2. (\E n \in ClockIDs : x.clock[n] > y.clock[n]) <=> ~Leq(x, y)
  BY <1>1 DEF Leq
<1>3. (\E n \in ClockIDs : x.clock[n] < y.clock[n]) <=> ~Leq(y, x)
  BY <1>1 DEF Leq
<1>. QED
  BY <1>2, <1>3 DEF Compare, CompareSnapshots

\* The order of clocks is reflexive.
LEMMA LeqReflexive == ASSUME NEW x \in Version PROVE Leq(x, x)
BY DEF Leq, Version, Clock

\* The order of clocks is transitive.
LEMMA LeqTransitive ==
  ASSUME NEW x \in Version, NEW y \in Version, NEW z \in Version, Leq(x, y), Leq(y, z)
  PROVE  Leq(x, z)
<1>1. SUFFICES ASSUME NEW n \in ClockIDs PROVE x.clock[n] <= z.clock[n]
  BY DEF Leq
<1>2. x.clock[n] \in Nat /\ y.clock[n] \in Nat /\ z.clock[n] \in Nat
  BY DEF Version, Clock
<1>3. x.clock[n] <= y.clock[n] /\ y.clock[n] <= z.clock[n]
  BY DEF Leq
<1>. QED
  BY <1>2, <1>3

\* A version covers itself, and covering is transitive.
LEMMA CoversSelf ==
  ASSUME NEW S \in SUBSET Version, NEW x \in S
  PROVE  Covers(S, x)
BY LeqReflexive DEF Covers

\* What covers a version covers all it supersedes.
LEMMA CoversTransitive ==
  ASSUME NEW S \in SUBSET Version, NEW T \in SUBSET Version, NEW x \in Version,
         Covers(S, x), \A y \in S : Covers(T, y)
  PROVE  Covers(T, x)
<1>1. PICK y \in S : Leq(x, y)
  BY DEF Covers
<1>2. PICK z \in T : Leq(y, z)
  BY DEF Covers
<1>. QED
  BY <1>1, <1>2, LeqTransitive DEF Covers

-----------------------------------------------------------------------------
\* Resolve, which memtable.Put calls, is MergeSiblings with one version.
THEOREM ResolveIsMerge ==
  ASSUME NEW S \in SUBSET Version, NEW v \in Version
  PROVE  Resolve(S, v) = MergeSiblings(S, {v})
BY DEF Resolve, MergeSiblings

\* Merging invents no version.
LEMMA MergeWithin ==
  ASSUME NEW a, NEW b
  PROVE  MergeSiblings(a, b) \subseteq a \cup b
BY DEF MergeSiblings

\* Merging loses no version: each one of either list is in the result, or is
\* covered by one that is.
THEOREM MergeCovers ==
  ASSUME NEW a \in SUBSET Version, NEW b \in SUBSET Version, Siblings(b),
         NEW x \in a \cup b
  PROVE  Covers(MergeSiblings(a, b), x)
<1>. DEFINE M == MergeSiblings(a, b)
<1>0. M \in SUBSET Version
  BY MergeWithin
<1>1. ASSUME NEW y \in b PROVE Covers(M, y)
  <2>1. CASE \A z \in a : Compare(z, y) \in {"Concurrent", "Before"}
    BY <2>1, <1>0, LeqReflexive DEF MergeSiblings, Covers
  <2>2. CASE \E z \in a : Compare(z, y) \notin {"Concurrent", "Before"}
    <3>1. PICK z \in a : Compare(z, y) \notin {"Concurrent", "Before"}
      BY <2>2
    <3>2. Leq(y, z)
      BY <3>1, CompareLeq
    <3>3. ASSUME NEW u \in b, Compare(z, u) = "Before" PROVE FALSE
      <4>1. Leq(z, u) /\ ~Leq(u, z)
        BY <3>3, CompareLeq
      <4>2. Leq(y, u) /\ u # y
        BY <4>1, <3>2, LeqTransitive
      <4>. QED
        BY <4>2, CompareLeq DEF Siblings
    <3>. QED
      BY <3>2, <3>3 DEF MergeSiblings, Covers
  <2>. QED
    BY <2>1, <2>2
<1>2. ASSUME NEW y \in a PROVE Covers(M, y)
  <2>1. CASE \A z \in b : Compare(y, z) # "Before"
    BY <2>1, LeqReflexive DEF MergeSiblings, Covers
  <2>2. CASE \E z \in b : Compare(y, z) = "Before"
    <3>1. PICK z \in b : Leq(y, z)
      BY <2>2, CompareLeq
    <3>2. PICK u \in M : Leq(z, u)
      BY <1>1 DEF Covers
    <3>. QED
      BY <3>1, <3>2, <1>0, LeqTransitive DEF Covers
  <2>. QED
    BY <2>1, <2>2
<1>. QED
  BY <1>1, <1>2

\* Merging sibling lists gives a sibling list.
THEOREM MergeKeepsSiblings ==
  ASSUME NEW a \in SUBSET Version, NEW b \in SUBSET Version, Siblings(a), Siblings(b)
  PROVE  Siblings(MergeSiblings(a, b))
<1>. SUFFICES ASSUME NEW x \in MergeSiblings(a, b), NEW y \in MergeSiblings(a, b), x # y
              PROVE  Compare(x, y) = "Concurrent"
  BY DEF Siblings
<1>1. CASE x \in a /\ y \in a
  BY <1>1 DEF Siblings
<1>2. CASE x \in b /\ y \in b
  BY <1>2 DEF Siblings
<1>3. ASSUME NEW u \in a, NEW v \in b, u \in MergeSiblings(a, b), v \in MergeSiblings(a, b),
             u # v, u \notin b \/ v \notin a
      PROVE  Compare(u, v) = "Concurrent" /\ Compare(v, u) = "Concurrent"
  <2>1. u \notin b => \A z \in b : Compare(u, z) # "Before"
    BY <1>3 DEF MergeSiblings
  <2>2. v \notin a => \A z \in a : Compare(z, v) \in {"Concurrent", "Before"}
    BY <1>3 DEF MergeSiblings
  <2>. QED
    BY <2>1, <2>2, <1>3, CompareLeq DEF MergeSiblings, Siblings
<1>. QED
  BY <1>1, <1>2, <1>3, MergeWithin
=============================================================================
