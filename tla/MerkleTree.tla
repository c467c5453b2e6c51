----------------------------- MODULE MerkleTree -----------------------------
(***************************************************************************)
(* The comparison anti-entropy runs on two stores: a tree of hashes over   *)
(* the buckets of each, built bottom-up in one heap-indexed array, and the *)
(* walk down the subtrees that disagree. A hash is the list of what was    *)
(* written to it, so equal hashes mean equal input, as for SHA-256.        *)
(***************************************************************************)
EXTENDS Integers, FiniteSets, SequencesExt

CONSTANTS TreeKeys,   \* keys, as the number BucketFor reduces
          NumBuckets  \* antiEntropyNumBuckets

VARIABLES stores,    \* the two stores: the versions of each key they hold
          trees,     \* their trees
          stack,     \* nodes the walk has still to visit, next first
          diverged   \* the buckets found to differ

treeVars == <<stores, trees, stack, diverged>>

Nodes == 0..2 * NumBuckets - 2

BucketFor(k) == k % NumBuckets
leafIndex(b) == NumBuckets - 1 + b
bucketIndexOfLeaf(i) == i - (NumBuckets - 1)

isLeafIndex(i) == i >= NumBuckets - 1

\* Each key in order, and after it its versions in order.
hashBucketContents(st, b) ==
  LET keys == SetToSortSeq({k \in DOMAIN st : BucketFor(k) = b}, <) IN
  FlattenSeq([i \in DOMAIN keys |-> <<<<"key", keys[i]>>>> \o
    LET items == SetToSortSeq(st[keys[i]], <) IN [j \in DOMAIN items |-> <<"item", items[j]>>]])

\* Faulty variant of combineHashes: only the left child's hash is written.
CombineLeft(left, right) == <<left>>

combineHashes(left, right) == <<left, right>>

Build(st) ==
  LET node[i \in Nodes] ==
        IF isLeafIndex(i) THEN hashBucketContents(st, bucketIndexOfLeaf(i))
        ELSE combineHashes(node[2 * i + 1], node[2 * i + 2])
  IN  [i \in Nodes |-> node[i]]

children(i) == <<2 * i + 1, 2 * i + 2>>

TreeInit(Stores) ==
  /\ stores \in Stores \X Stores
  /\ trees = <<Build(stores[1]), Build(stores[2])>>
  /\ stack = <<0>> /\ diverged = <<>>

\* One call of walk: the same hash ends it, a leaf is recorded, and below an
\* internal node both children are visited.
walk ==
  /\ stack # <<>>
  /\ LET i    == Head(stack)
         same == trees[1][i] = trees[2][i]
     IN  /\ stack' = (IF same \/ isLeafIndex(i) THEN <<>> ELSE children(i)) \o Tail(stack)
         /\ diverged' = IF ~same /\ isLeafIndex(i)
                        THEN Append(diverged, bucketIndexOfLeaf(i)) ELSE diverged
  /\ UNCHANGED <<stores, trees>>

-----------------------------------------------------------------------------
\* The buckets under each node: those whose leaf leads up to it.
Under ==
  LET up[i \in Nodes] == IF i = 0 THEN {0} ELSE {i} \cup up[(i - 1) \div 2]
  IN  [i \in Nodes |-> {b \in 0..NumBuckets - 1 : i \in up[leafIndex(b)]}]

Holds(st, k) == IF k \in DOMAIN st THEN st[k] ELSE {}

Differ == {b \in 0..NumBuckets - 1 :
             \E k \in TreeKeys : BucketFor(k) = b /\ Holds(stores[1], k) # Holds(stores[2], k)}

\* At every point of the walk a bucket in which the stores differ has been
\* found or lies under a node still to be visited, and none is found in vain.
WalkMissesNothing ==
  /\ ToSet(diverged) \subseteq Differ
  /\ Differ \subseteq ToSet(diverged) \cup UNION {Under[i] : i \in ToSet(stack)}
=============================================================================
