---------------------------- MODULE MCAlgorithms ----------------------------
(***************************************************************************)
(* The pure algorithms for TLC, one of them to a behaviour: the merge of   *)
(* every list of at most two siblings over two nodes, the ring of every    *)
(* placement of the virtual nodes, and the comparison of every two stores. *)
(***************************************************************************)
EXTENDS SiblingLists, HashRing, MerkleTree

CONSTANT MaxCount  \* bound: the largest clock entry

VARIABLE algo  \* the algorithm of this behaviour

MCVersions == [clock : [ClockIDs -> 0..MaxCount], val : Value]

MCLists ==
  {<<>>} \cup {<<x>> : x \in MCVersions}
    \cup {p \in MCVersions \X MCVersions : Compare(p[1], p[2]) = "Concurrent"}

\* Stores with no, one or two versions of a key. A key is kept with its
\* versions, so a store lists no key without one.
MCStores ==
  LET held == {{1}, {1, 2}} IN UNION {[K -> held] : K \in SUBSET TreeKeys}

\* The keys fall in buckets 0, 1, 14 and 1 again.
MCKeys == {0, 1, 14, 17}

vars == <<algo, mergeVars, ringVars, treeVars>>

NoMerge == layers = <<>> /\ at = 0 /\ rest = <<>> /\ base = {} /\ merged = <<>>
NoRing  == pos = <<>> /\ ring = <<>> /\ nodeMap = NoNodes /\ placed = {}
NoTree  == stores = <<NoNodes, NoNodes>> /\ trees = <<>> /\ stack = <<>> /\ diverged = <<>>

Init ==
  \/ algo = "merge" /\ MergeInit /\ NoRing /\ NoTree
  \/ algo = "ring" /\ NoMerge /\ RingInit /\ NoTree
  \/ algo = "tree" /\ NoMerge /\ NoRing /\ TreeInit(MCStores)

Next ==
  /\ UNCHANGED algo
  /\ \/ algo = "merge" /\ MergeNext /\ UNCHANGED <<ringVars, treeVars>>
     \/ algo = "ring" /\ RingNext /\ UNCHANGED <<mergeVars, treeVars>>
     \/ algo = "tree" /\ walk /\ UNCHANGED <<mergeVars, ringVars>>

Spec == Init /\ [][Next]_vars
=============================================================================
