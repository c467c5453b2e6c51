-------------------------- MODULE MCStorageEngine ---------------------------
(***************************************************************************)
(* StorageEngine for TLC: versions of one key or two, in the orders that   *)
(* matter: one version, or two concurrent ones.                            *)
(***************************************************************************)
EXTENDS StorageEngineInv, SequencesExt

MCClockIDs == {"A", "B"}
MCValue == {"v", "u"}

V(a, b, val) == [clock |-> [n \in MCClockIDs |-> IF n = "A" THEN a ELSE b], val |-> val]

OneItem == {V(1, 0, "v")}
TwoItems == {V(1, 0, "v"), V(0, 1, "v")}

Symmetry == Permutations(Writer) \cup Permutations(Key)

-----------------------------------------------------------------------------
\* What GetAll would answer if the process crashed now and was restarted.
AfterRestart(k) ==
  LET n   == CHOOSE m \in 0..Len(wal) : Unlinked(m)
      log == SubSeq(wal, n + 1, Len(wal))
  IN  MergeLayers(k, FoldLeft(ApplyEntry, EmptyTable, log), EmptyTable,
                  SetToSortSeq(live, Newer))

(***************************************************************************)
(* A crash and restart between two commits changes no answer: replaying    *)
(* whatever segments are left over the registered SSTables gives what the  *)
(* memtables and SSTables in memory give.  (Not so for a key with a        *)
(* Restore that was incomplete or cut short: engine.go documents that its  *)
(* outcome may differ after a restart.)                                    *)
(***************************************************************************)
RestartChangesNothing ==
  up = "up" /\ cpc = "idle" /\ ~halted =>
    \A k \in Key :
      \/ \E j \in DOMAIN wal : /\ wal[j].op = "restore" /\ wal[j].key = k
                              /\ wr[wal[j].by].pc # "restored"
      \/ AfterRestart(k) = GetAll(k)
=============================================================================
