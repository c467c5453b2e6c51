-------------------------- MODULE StorageEngineInv --------------------------
(***************************************************************************)
(* The inductive invariant behind TypeOK, SSTablesInPlace, Recoverable,    *)
(* AckedVisible and OpenSucceeds.  IMem holds whatever fails; IDisk, which *)
(* adds what the manifest guarantees, as long as no manifest line is torn; *)
(* OpenInv when, besides, no line is written by a call that then fails.    *)
(***************************************************************************)
EXTENDS StorageEngine

\* A sibling list as the code keeps it.
SiblingSet(S) == S \in SUBSET Version /\ IsFiniteSet(S) /\ Siblings(S)

GoodTable(t) == t \in [Key -> SUBSET Version] /\ \A k \in Key : SiblingSet(t[k])

\* Every sibling list anywhere is one.
SiblingsInv ==
  /\ GoodTable(active) /\ GoodTable(flushing)
  /\ \A id \in DOMAIN files : GoodTable(files[id])
  /\ \A i \in DOMAIN wal : SiblingSet(wal[i].items)
  /\ \A w \in Writer : SiblingSet(wr[w].items) /\ SiblingSet(wr[w].prev)

(***************************************************************************)
(* The log: what memory does not reflect yet is in the current segment, so *)
(* no segment a flush seals or deletes holds a record memory has not seen. *)
(***************************************************************************)
LogInv ==
  /\ gone < seq /\ pos <= Len(wal)
  /\ \A i \in DOMAIN wal : wal[i].seg <= seq
  /\ up = "up" => \A i \in DOMAIN wal : i > pos => wal[i].seg = seq
  /\ up = "replay" => \A i \in DOMAIN wal : i > pos => wal[i].seg > gone
  /\ up = "load" => pos = Len(wal)
  /\ flpc # "none" => sealed < seq
  /\ \A s \in deletes : s < seq

\* Where the committer and the flush are, and what that says of the log.
CommitInv ==
  /\ cpc = "apply" => pos < Len(wal) /\ ~halted
  /\ cpc # "apply" /\ ~halted /\ up = "up" => pos = Len(wal)
  /\ cpc = "swap" => flpc = "none" /\ ~halted
  /\ mu => cpc = "apply"
  /\ flpc = "none" => flushing = EmptyTable
  /\ up # "up" => /\ cpc = "idle" /\ flpc = "none" /\ comp.pc = "idle"
                  /\ queue = <<>> /\ batch = {} /\ deletes = {}
  /\ up = "down" => active = EmptyTable
  /\ up \in {"down", "replay"} => sstables = <<>>

\* A writer waits once: in the queue, or in the batch being committed.
QueueInv ==
  /\ \A i, j \in DOMAIN queue : queue[i] = queue[j] => i = j
  /\ \A i \in DOMAIN queue : queue[i] \notin batch /\ wr[queue[i]].pc \in {"put", "restore"}
  /\ \A w \in batch : wr[w].pc \in {"put", "restore"}

(***************************************************************************)
(* SSTable files: those memory uses are there, and the ids a flush and a   *)
(* compaction write to are no one else's.                                  *)
(***************************************************************************)
FilesInv ==
  /\ \A id \in DOMAIN files : id[1] <= tick
  /\ \A i \in DOMAIN sstables : sstables[i] \in DOMAIN files
  /\ \A i, j \in DOMAIN sstables : sstables[i] = sstables[j] => i = j
  /\ \A i \in DOMAIN comp.run : comp.run[i][1] <= tick
  /\ comp.pc # "idle" => Len(comp.run) > 0
  /\ comp.pc \in {"write", "add", "remove", "swap"} => \E i \in DOMAIN sstables : RunAt(i)
  /\ comp.pc \in {"add", "remove", "swap"} =>
       /\ comp.id \in DOMAIN files
       /\ \A i \in DOMAIN sstables : sstables[i] # comp.id
       /\ \A i \in DOMAIN comp.run : \A k \in Key : \A x \in files[comp.run[i]][k] :
            Covers(files[comp.id][k], x)
  /\ comp.pc = "delete" => \A i \in DOMAIN sstables : \A j \in DOMAIN comp.run :
                              sstables[i] # comp.run[j]
  /\ flpc \in {"add", "install"} =>
       /\ flid \in DOMAIN files /\ files[flid] = flushing
       /\ \A i \in DOMAIN sstables : sstables[i] # flid
       /\ \A i \in DOMAIN comp.run : comp.run[i] # flid
       /\ comp.pc \in {"add", "remove", "swap"} => comp.id # flid

IMem == TypeOK /\ SiblingsInv /\ LogInv /\ CommitInv /\ QueueInv /\ FilesInv

-----------------------------------------------------------------------------
(***************************************************************************)
(* The files a restart may count on: registered and there, and not about   *)
(* to be deleted again if a compaction's Add fails.                        *)
(***************************************************************************)
LiveFiles == {id \in live \cap DOMAIN files : ~(comp.pc = "add" /\ id = comp.id)}

InLive(k, x) == \E id \in LiveFiles : Covers(files[id][k], x)

InSSTable(k, x) == \E i \in DOMAIN sstables : Covers(files[sstables[i]][k], x)

ManifestInv ==
  /\ tail = NoTail
  /\ flpc = "install" => flid \in live
  /\ comp.pc \in {"remove", "swap"} => comp.id \in live
  /\ comp.pc \in {"swap", "delete"} => \A i \in DOMAIN comp.run : comp.run[i] \notin live
  /\ up = "load" => \A i \in DOMAIN sstables : sstables[i] \in live

\* Whatever memory reads from an SSTable a restart reads too.
SSTablesLive ==
  up = "up" => \A i \in DOMAIN sstables : \A k \in Key : \A x \in files[sstables[i]][k] :
                  InLive(k, x)

\* Records in unlinked segments, and in those about to be, are in SSTables.
DiskCover ==
  \A i \in DOMAIN wal :
    wal[i].seg <= gone \/ (\E s \in deletes : wal[i].seg <= s) =>
      RestoredBy(i, Len(wal)) \/ \A x \in wal[i].items : InLive(wal[i].key, x)

\* Records in the segments the flush will delete are in the frozen memtable
\* or in SSTables: none of them is only in the active memtable.
FlushCover ==
  flpc # "none" =>
    \A i \in DOMAIN wal :
      wal[i].seg <= sealed =>
        \/ RestoredBy(i, pos)
        \/ \A x \in wal[i].items :
             Covers(flushing[wal[i].key], x) \/ InSSTable(wal[i].key, x)

\* Every record memory reflects is in it.
MemCover ==
  up = "up" =>
    \A i \in 1..pos :
      \/ RestoredBy(i, pos)
      \/ \A x \in wal[i].items : \/ Covers(active[wal[i].key], x)
                                 \/ Covers(flushing[wal[i].key], x)
                                 \/ InSSTable(wal[i].key, x)

\* The same during a recovery, which has the SSTables still to load and may
\* not have reached the record of a Restore.
ReplayCover ==
  up \in {"replay", "load"} =>
    \A i \in 1..pos :
      \/ RestoredBy(i, Len(wal))
      \/ \A x \in wal[i].items : Covers(active[wal[i].key], x) \/ InLive(wal[i].key, x)

\* An answered Put has its record, and a batch being committed has its own.
AnswersInv ==
  /\ \A w \in Writer : wr[w].pc \in {"putok", "acked"} =>
       \E i \in DOMAIN wal : (up = "up" => i <= pos) /\ wal[i].by = w /\ wal[i].op = "put"
  /\ \A w \in batch :
       \E i \in DOMAIN wal : wal[i].by = w /\ wal[i].op = wr[w].pc

IDisk ==
  /\ ManifestInv /\ SSTablesLive /\ DiskCover /\ FlushCover /\ MemCover /\ ReplayCover
  /\ AnswersInv

(***************************************************************************)
(* Why Open succeeds: every registered SSTable has its file, and one that  *)
(* is still to be registered, whose file goes if that fails, is not listed *)
(* already.  Holds as long as no manifest write fails once part of its     *)
(* line, or all of it, has reached the file.                               *)
(***************************************************************************)
OpenInv ==
  /\ up # "failed" /\ ~bad /\ live \subseteq DOMAIN files
  /\ flpc = "add" => flid \notin live
  /\ comp.pc = "add" => comp.id \notin live
=============================================================================
