------------------------------ MODULE Manifest ------------------------------
(***************************************************************************)
(* The MANIFEST file (internal/storage/manifest): an append-only text file *)
(* of "ADD id" and "REMOVE id id ..." lines.                               *)
(*                                                                         *)
(* The file is modelled by what replay makes of it.  live is the set the   *)
(* complete lines leave, bad says that one of them is malformed, and tail  *)
(* is the fragment after the last newline.  replay skips that fragment but *)
(* leaves it in the file, and the file is opened with O_APPEND: the next   *)
(* line written is glued to it.                                            *)
(***************************************************************************)
EXTENDS Naturals, Sequences, Functions

VARIABLES live,  \* the SSTable ids the file's complete lines leave live
          tail,  \* the newline-less fragment at the end of the file
          bad    \* a complete line of the file is malformed

manifestVars == <<live, tail, bad>>

\* A line, or a fragment of one, is its operation and its complete ids in
\* order.  An operation replay does not accept is "BAD".
NoTail == [op |-> "NONE", ids |-> <<>>]

ManifestInit == live = {} /\ tail = NoTail /\ bad = FALSE

(***************************************************************************)
(* What part of a line without its newline can be.  An ADD fragment, and a *)
(* REMOVE cut before its first id, make whatever is glued to them          *)
(* malformed: "ADD sst_1ADD sst_2" has three fields, "REMADD sst_2" an     *)
(* unknown operation.  A REMOVE cut later keeps the ids that are already   *)
(* followed by a space.                                                    *)
(***************************************************************************)
Fragments(line) ==
  {[op |-> "BAD", ids |-> <<>>]}
    \cup {[op |-> "REMOVE", ids |-> SubSeq(line.ids, 1, n)] :
             n \in {m \in 0..(Len(line.ids) - 1) : line.op = "REMOVE"}}

\* The line that writing s (a line, or a fragment) after fragment t leaves.
Glue(t, s) ==
  IF t.op = "NONE" THEN s
  ELSE IF t.op = "BAD" THEN t
  ELSE [op |-> "REMOVE", ids |-> t.ids \o s.ids]

\* applyLine: its effect on the live set; a malformed line is an error.
ApplyLine(line) ==
  /\ live' = CASE line.op = "ADD"    -> live \cup Range(line.ids)
               [] line.op = "REMOVE" -> live \ Range(line.ids)
               [] OTHER              -> live
  /\ bad' = (bad \/ line.op = "BAD")

\* writeLine: the whole line, its newline included, reaches the file.
WriteLine(line) == ApplyLine(Glue(tail, line)) /\ tail' = NoTail

\* Part of the line reaches the file.
TearLine(line) ==
  /\ \E f \in Fragments(line) : tail' = Glue(tail, f)
  /\ UNCHANGED <<live, bad>>

AddLine(id) == [op |-> "ADD", ids |-> <<id>>]

\* A faulty RemoveLine: the last id is left out.
RemoveLineButLast(ids) == [op |-> "REMOVE", ids |-> SubSeq(ids, 1, Len(ids) - 1)]

RemoveLine(ids) == [op |-> "REMOVE", ids |-> ids]
=============================================================================
