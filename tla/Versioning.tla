----------------------------- MODULE Versioning -----------------------------
(***************************************************************************)
(* Vector clocks (internal/vectorclock) and sibling resolution             *)
(* (internal/versioning): the pure functions every layer of the store      *)
(* merges versions with.                                                   *)
(*                                                                         *)
(* A clock is a total function on ClockIDs: a map entry the Go code does   *)
(* not have is the 0 it reads.  A version is a DataItem reduced to what    *)
(* the merge and its callers tell apart: its clock and its value, a        *)
(* tombstone (IsDeleted) being one more value.  A sibling list is the set  *)
(* of its versions; the order of a list only decides which of two          *)
(* versions with EQUAL clocks stays, and there the operators below keep    *)
(* the one of the left operand, as the code does.                          *)
(***************************************************************************)
EXTENDS Naturals

CONSTANTS ClockIDs,  \* the names clock entries go by: one per node
          Value      \* the values a version may carry

Clock == [ClockIDs -> Nat]

Version == [clock : Clock, val : Value]

ZeroClock == [n \in ClockIDs |-> 0]

\* CompareSnapshots: "this" against "other", over every entry either has.
CompareSnapshots(this, other) ==
  LET isThisGreater  == \E n \in ClockIDs : this[n] > other[n]
      isOtherGreater == \E n \in ClockIDs : this[n] < other[n]
  IN  CASE isThisGreater /\ ~isOtherGreater  -> "After"
        [] ~isThisGreater /\ isOtherGreater  -> "Before"
        [] ~isThisGreater /\ ~isOtherGreater -> "Equal"
        [] OTHER                             -> "Concurrent"

Compare(x, y) == CompareSnapshots(x.clock, y.clock)

\* BuildFromContext: the context's clock with n's own entry incremented.
BuildFromContext(context, n) == [context EXCEPT ![n] = @ + 1]

\* m is the largest of the entries for n in a set of versions, or 0.
IsUnionEntry(items, n, m) ==
  /\ \A x \in items : x.clock[n] <= m
  /\ m = 0 \/ \E x \in items : x.clock[n] = m

UnionVectorClock(items) ==
  [n \in ClockIDs |->
     CHOOSE m \in {0} \cup {x.clock[n] : x \in items} : IsUnionEntry(items, n, m)]

(***************************************************************************)
(* Resolve drops the existing versions the incoming one supersedes, and    *)
(* adds the incoming one unless an existing version supersedes or equals   *)
(* it.                                                                     *)
(***************************************************************************)
Resolve(existing, incoming) ==
  LET survivors == {x \in existing : Compare(x, incoming) # "Before"}
      incomingSurvives ==
        \A x \in existing : Compare(x, incoming) \in {"Concurrent", "Before"}
  IN  survivors \cup {x \in {incoming} : incomingSurvives}

(***************************************************************************)
(* MergeSiblings folds b's versions into a one by one with Resolve.  When  *)
(* neither list holds two comparable versions (Siblings below, which every *)
(* list the code hands it satisfies) the result does not depend on the     *)
(* order of b, and is the set given here; SiblingLists checks that.        *)
(***************************************************************************)
MergeSiblings(a, b) ==
  {x \in a : \A y \in b : Compare(x, y) # "Before"}
    \cup {y \in b : \A x \in a : Compare(x, y) \in {"Concurrent", "Before"}}

(***************************************************************************)
(* The fold GetAll and compaction.Merge run over a list of layers, newest  *)
(* first, starting from nothing: what is left is every version no other    *)
(* supersedes, and of several with equal clocks the newest layer's.        *)
(***************************************************************************)
MergeAll(layers) ==
  LET all == UNION {layers[i] : i \in DOMAIN layers}
      Kept(i) == {x \in layers[i] :
                    /\ \A y \in all : Compare(x, y) # "Before"
                    /\ \A h \in 1..(i - 1) : \A y \in layers[h] : Compare(x, y) # "Equal"}
  IN  UNION {Kept(i) : i \in DOMAIN layers}

-----------------------------------------------------------------------------
\* a's clock is at most b's: b is a, a duplicate of it, or supersedes it.
Leq(x, y) == \A n \in ClockIDs : x.clock[n] <= y.clock[n]

\* Some version of S is x, a duplicate of x, or supersedes it.
Covers(S, x) == \E y \in S : Leq(x, y)

\* No two versions of S are ordered: what a sibling list holds.
Siblings(S) == \A x, y \in S : x # y => Compare(x, y) = "Concurrent"
=============================================================================
