---------------------------- MODULE SiblingLists ----------------------------
(***************************************************************************)
(* The merge loops as the code runs them: MergeSiblings resolving one      *)
(* version of a list at a time, and mergeLayers (or compaction.Merge)      *)
(* merging one layer after another, newest first, over lists in order.     *)
(* Versioning gives their results as sets; here the two are compared.      *)
(***************************************************************************)
EXTENDS Versioning, SequencesExt

CONSTANTS Lists,     \* the sibling lists a layer may hold
          MaxLayers  \* bound: layers

VARIABLES layers,  \* the layers' lists, newest first
          at,      \* the layer being merged
          rest,    \* what is left of it
          base,    \* what had been merged before it
          merged   \* merged so far

mergeVars == <<layers, at, rest, base, merged>>

MergeInit ==
  /\ \E n \in 1..MaxLayers : layers \in [1..n -> Lists]
  /\ at = 0 /\ rest = <<>> /\ base = {} /\ merged = <<>>

\* Faulty variants of ResolveList: a duplicate is added; a superseded
\* version is added.
KeepDuplicate(existing, incoming) ==
  LET Older(x) == Compare(x, incoming) # "Before" IN
  SelectSeq(existing, Older)
    \o (IF \A x \in ToSet(existing) : Compare(x, incoming) # "After" THEN <<incoming>> ELSE <<>>)

KeepSuperseded(existing, incoming) ==
  LET Older(x) == Compare(x, incoming) # "Before" IN
  SelectSeq(existing, Older)
    \o (IF \A x \in ToSet(existing) : Compare(x, incoming) # "Equal" THEN <<incoming>> ELSE <<>>)

\* Resolve on lists: existing versions keep their order, incoming goes last.
ResolveList(existing, incoming) ==
  LET Stays(x) == Compare(x, incoming) # "Before" IN
  SelectSeq(existing, Stays)
    \o (IF \A x \in ToSet(existing) : Compare(x, incoming) \in {"Concurrent", "Before"}
        THEN <<incoming>> ELSE <<>>)

MergeLayer ==
  /\ rest = <<>> /\ at < Len(layers)
  /\ at' = at + 1 /\ rest' = layers[at'] /\ base' = ToSet(merged)
  /\ UNCHANGED <<layers, merged>>

ResolveNext ==
  /\ rest # <<>>
  /\ merged' = ResolveList(merged, Head(rest))
  /\ rest' = Tail(rest)
  /\ UNCHANGED <<layers, at, base>>

MergeNext == MergeLayer \/ ResolveNext

-----------------------------------------------------------------------------
\* MergeSiblings' loop leaves the set Versioning says, whatever the order of
\* the list it folds in.
LoopIsMergeSiblings ==
  rest = <<>> /\ at > 0 => ToSet(merged) = MergeSiblings(base, ToSet(layers[at]))

\* The fold GetAll and compaction.Merge run over the layers leaves every
\* version no other supersedes, and of equal ones the newest layer's.
FoldIsMergeAll ==
  rest = <<>> => ToSet(merged) = MergeAll([i \in 1..at |-> ToSet(layers[i])])
=============================================================================
