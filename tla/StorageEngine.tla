--------------------------- MODULE StorageEngine ----------------------------
(***************************************************************************)
(* The LSM storage engine (internal/storage/engine) over its write-ahead   *)
(* log, memtables, SSTables and manifest, with every goroutine that runs   *)
(* in it: the writers, the group committer, the background flush, the      *)
(* compaction loop, Close, and a crash and recovery at any point.          *)
(*                                                                         *)
(* A writer is one call of Node.putAsReplica as the engine sees it: it     *)
(* reads the key's versions, Puts one more, and, if the quorum failed,     *)
(* Restores what it read.  A memtable or an SSTable is the sibling set it  *)
(* holds for each key.                                                     *)
(***************************************************************************)
EXTENDS Versioning, WalLog, Manifest, FiniteSets, Integers

CONSTANTS Key, Writer,
          Item,         \* the versions writers Put
          MaxBatch,     \* maxBatchRecords: the most records in one group commit
          MinTier,      \* minTierSize: the shortest run compaction merges
          Faults,       \* the I/O failures that may happen, see AllFaults
          MaxFlush,     \* bound: SSTables written by flushes
          MaxSuffix,    \* bound: "_c" suffixes of a compacted SSTable's id
          MaxRestart    \* bound: crashes and clean restarts

(***************************************************************************)
(* wal: a WAL write or fsync fails.  rotate: the next segment cannot be    *)
(* created.  seal: it is created, but closing the sealed one fails.        *)
(* sstable: an SSTable's write or its fsync fails.  manifest: a write      *)
(* fails and leaves nothing.  sync: the line is in the file but its fsync  *)
(* fails.  torn: a failed write, or a crash, leaves part of a line.        *)
(* unlink: a segment or SSTable cannot be deleted.  undelete: a crash      *)
(* brings unlinked segments back (their directory is not fsynced).         *)
(***************************************************************************)
AllFaults == {"wal", "rotate", "seal", "sstable", "manifest", "sync", "torn",
              "unlink", "undelete"}

ASSUME ConstantsAssumption ==
  /\ Key # {} /\ Item \subseteq Version
  /\ MaxBatch \in Nat \ {0} /\ MinTier \in Nat \ {0, 1}
  /\ MaxFlush \in Nat /\ MaxSuffix \in Nat /\ MaxRestart \in Nat
  /\ Faults \subseteq AllFaults

VARIABLES
  files,     \* SSTable files on disk: id -> contents
  tick,      \* the time of the last SSTable id given out
  up,        \* "down", "replay", "load", "up", or "failed": Open gave up
  pos,       \* how many records of wal the memory reflects
  active,    \* the active memtable
  flushing,  \* the frozen memtable, empty when there is none (flpc = "none")
  sealed,    \* the segment sealed when flushing was frozen
  flpc,      \* where the flush is: "none", "write", "add", "install", "putback"
  flid,      \* the id of the SSTable the flush writes
  deletes,   \* segments finished flushes are still to DeleteThrough
  sstables,  \* e.sstables: ids, newest first
  queue,     \* writers whose request waits for the committer
  cpc,       \* where commit is: "idle", "apply", "swap"
  mu,        \* commit holds e.mu
  batch,     \* the writers whose requests are being committed
  errs,      \* those of them whose Restore was incomplete
  crossed,   \* a Put of the batch crossed the memtable's threshold
  halted,    \* a WAL write or fsync failed
  closing,   \* Close has begun
  comp,      \* the compaction step under way
  wr,        \* the writers
  restarts   \* how many crashes and clean restarts there have been

flushVars == <<flushing, sealed, flpc, flid, deletes>>
commitVars == <<queue, cpc, mu, batch, errs, crossed, halted>>
memVars == <<pos, active, flushVars, sstables, commitVars, closing, comp>>
vars == <<logVars, manifestVars, files, tick, up, memVars, wr, restarts>>

Table == [Key -> SUBSET Version]
EmptyTable == [k \in Key |-> {}]
NewEntry(op, k, items, w) ==
  [seg |-> seq, op |-> op, key |-> k, items |-> items, by |-> w]

\* An SSTable id: its flush's time, and how often "_c" has been appended.
\* Ids order as their names do.
Newer(a, b) == a[1] > b[1] \/ (a[1] = b[1] /\ a[2] > b[2])

NoRun == [pc |-> "idle", run |-> <<>>, id |-> <<0, 0>>]
IdleWriter == [pc |-> "idle", key |-> CHOOSE k \in Key : TRUE,
               items |-> {}, prev |-> {}]

-----------------------------------------------------------------------------
\* memtable.Replace and memtable.Put.  Resolving a list against one version
\* is merging it with that version alone.
Replace(t, k, items) == [t EXCEPT ![k] = items]

MemPut(t, k, items) == [t EXCEPT ![k] = MergeSiblings(@, items)]

ApplyEntry(t, e) ==
  IF e.op = "restore" THEN Replace(t, e.key, e.items)
                      ELSE MemPut(t, e.key, e.items)

\* Faulty variants of PutBackOlder: the memtable is rebuilt from the keys of
\* the frozen one; nothing is put back.
PutBackKeys(newer, older) ==
  [k \in {j \in Key : older[j] # {}} |-> MergeSiblings(newer[k], older[k])]

PutBackNothing(newer, older) == newer

\* memtable.PutBackOlder.
PutBackOlder(newer, older) ==
  [k \in Key |-> MergeSiblings(newer[k], older[k])]

\* mergeLayers: what GetAll answers, from the active memtable, the frozen
\* one and the SSTables.
MergeLayers(k, act, flu, ssts) ==
  MergeAll(<<act[k], flu[k]>> \o [i \in DOMAIN ssts |-> files[ssts[i]][k]])

GetAll(k) == MergeLayers(k, active, flushing, sstables)

MuFree == ~mu

-----------------------------------------------------------------------------
Init ==
  /\ LogInit /\ ManifestInit
  /\ files = [id \in {} |-> EmptyTable] /\ tick = 0
  /\ up = "up" /\ pos = 0
  /\ active = EmptyTable /\ flushing = EmptyTable
  /\ sealed = 0 /\ flpc = "none" /\ flid = <<0, 0>> /\ deletes = {}
  /\ sstables = <<>>
  /\ queue = <<>> /\ cpc = "idle" /\ mu = FALSE /\ batch = {} /\ errs = {}
  /\ crossed = FALSE /\ halted = FALSE /\ closing = FALSE
  /\ comp = NoRun
  /\ wr = [w \in Writer |-> IdleWriter]
  /\ restarts = 0

-----------------------------------------------------------------------------
(***************************************************************************)
(* Writers.  A write is refused once writes are halted or Close has begun, *)
(* and otherwise queued for the committer (group commit, the default).     *)
(***************************************************************************)
Write(w, k, pc, items, prev) ==
  /\ up = "up"
  /\ \/ /\ halted \/ closing
        /\ wr' = [wr EXCEPT ![w] = [pc |-> "failed", key |-> k, items |-> {}, prev |-> {}]]
        /\ UNCHANGED queue
     \/ /\ ~halted /\ ~closing
        /\ wr' = [wr EXCEPT ![w] = [pc |-> pc, key |-> k, items |-> items, prev |-> prev]]
        /\ queue' = Append(queue, w)
  /\ UNCHANGED <<logVars, manifestVars, files, tick, up, pos, active, flushVars, sstables,
                 cpc, mu, batch, errs, crossed, halted, closing, comp, restarts>>

\* The versions putAsReplica reads before it Puts, to Restore later.
Read(w, k) ==
  /\ up = "up" /\ MuFree
  /\ wr[w].pc = "idle"
  /\ wr' = [wr EXCEPT ![w] = [pc |-> "read", key |-> k, items |-> {}, prev |-> GetAll(k)]]
  /\ UNCHANGED <<logVars, manifestVars, files, tick, up, memVars, restarts>>

Put(w, v) ==
  /\ wr[w].pc = "read"
  /\ Write(w, wr[w].key, "put", {v}, wr[w].prev)

Restore(w) ==
  /\ wr[w].pc = "putok"
  /\ Write(w, wr[w].key, "restore", wr[w].prev, {})

-----------------------------------------------------------------------------
(***************************************************************************)
(* The committer: a batch is what is queued, at most MaxBatch of it.       *)
(***************************************************************************)
Entries(ws) ==
  [i \in DOMAIN ws |-> NewEntry(wr[ws[i]].pc, wr[ws[i]].key, wr[ws[i]].items, ws[i])]

\* Some first part of the queue, short enough for a batch.
Batches == {SubSeq(queue, 1, n) : n \in {m \in 1..Len(queue) : m <= MaxBatch}}

Unqueued(ws) == SubSeq(queue, Len(ws) + 1, Len(queue))

\* commit's deferred signal: each of ws gets its error, or its answer.
Fail(ws) ==
  wr' = [w \in Writer |-> IF w \in ws THEN [wr[w] EXCEPT !.pc = "failed"] ELSE wr[w]]

Done(ws, incomplete) ==
  wr' = [w \in Writer |->
           IF w \in ws
           THEN [wr[w] EXCEPT !.pc = IF @ = "put" THEN "putok"
                                     ELSE IF w \in incomplete THEN "incomplete"
                                     ELSE "restored"]
           ELSE wr[w]]

\* A faulty CommitHalted: the committer stops when writes halt.
CommitterGone == FALSE

CommitHalted ==
  /\ up = "up" /\ cpc = "idle" /\ halted
  /\ \E ws \in Batches :
       /\ queue' = Unqueued(ws)
       /\ Fail(Range(ws))
  /\ UNCHANGED <<logVars, manifestVars, files, tick, up, pos, active, flushVars, sstables,
                 cpc, mu, batch, errs, crossed, halted, closing, comp, restarts>>

CommitWrite ==
  /\ up = "up" /\ cpc = "idle" /\ ~halted
  /\ \E ws \in Batches :
       /\ queue' = Unqueued(ws)
       /\ WriteBatch(Entries(ws))
       /\ batch' = Range(ws)
  /\ cpc' = "apply"
  /\ UNCHANGED <<manifestVars, files, tick, up, pos, active, flushVars, sstables,
                 mu, errs, crossed, halted, closing, comp, wr, restarts>>

\* The WAL write or fsync fails: writes halt, and nothing is applied.
CommitFail ==
  /\ "wal" \in Faults
  /\ up = "up" /\ cpc = "idle" /\ ~halted
  /\ \E ws \in Batches :
       /\ queue' = Unqueued(ws)
       /\ TornBatch(Entries(ws))
       /\ Fail(Range(ws))
  /\ halted' = TRUE
  /\ UNCHANGED <<manifestVars, files, tick, up, pos, active, flushVars, sstables,
                 cpc, mu, batch, errs, crossed, closing, comp, restarts>>

\* A faulty Verified, which checks nothing.
AlwaysVerified(e) == TRUE

\* replaceAndVerify: with e applied, its key reads as what e restored.
Verified(e) ==
  MergeLayers(e.key, ApplyEntry(active, e), flushing, sstables) = e.items

(***************************************************************************)
(* apply, one record at a time with e.mu held from the first to the last;  *)
(* a Restore's record is verified as it is applied.  After the last one    *)
(* commit goes on to swap if a Put crossed the threshold and no flush is   *)
(* running, and answers the batch otherwise.  Whether a Put crosses        *)
(* depends on sizes, which the model does not have: either may happen.     *)
(***************************************************************************)
Apply ==
  /\ up = "up" /\ cpc = "apply"
  /\ LET e == wal[pos + 1]
         bads == errs \cup {w \in {e.by} : e.op = "restore" /\ ~Verified(e)}
     IN  /\ active' = ApplyEntry(active, e)
         /\ pos' = pos + 1
         /\ \E c \in {crossed} \cup {b \in {TRUE} : e.op = "put" /\ tick < MaxFlush} :
              \/ /\ pos' < Len(wal)
                 /\ mu' = TRUE /\ crossed' = c /\ errs' = bads
                 /\ UNCHANGED <<cpc, batch, wr>>
              \/ /\ pos' = Len(wal) /\ c /\ flpc = "none"
                 /\ cpc' = "swap" /\ mu' = FALSE /\ crossed' = FALSE /\ errs' = bads
                 /\ UNCHANGED <<batch, wr>>
              \/ /\ pos' = Len(wal) /\ ~(c /\ flpc = "none")
                 /\ cpc' = "idle" /\ mu' = FALSE /\ crossed' = FALSE /\ errs' = {}
                 /\ batch' = {} /\ Done(batch, bads)
  /\ UNCHANGED <<logVars, manifestVars, files, tick, up, flushVars, sstables, queue,
                 halted, closing, comp, restarts>>

\* swap: rotate the log and freeze the memtable.  If Rotate reports an
\* error nothing is frozen, though it may have started the next segment.
Swap ==
  /\ up = "up" /\ cpc = "swap"
  /\ \/ /\ Rotate
        /\ flushing' = active /\ active' = EmptyTable
        /\ sealed' = seq /\ flpc' = "write"
     \/ /\ "seal" \in Faults /\ Rotate
        /\ UNCHANGED <<flushing, active, sealed, flpc>>
     \/ /\ "rotate" \in Faults
        /\ UNCHANGED <<logVars, flushing, active, sealed, flpc>>
  /\ cpc' = "idle" /\ batch' = {} /\ errs' = {} /\ Done(batch, errs)
  /\ UNCHANGED <<manifestVars, files, tick, up, pos, flid, deletes, sstables, queue, mu,
                 crossed, halted, closing, comp, restarts>>

-----------------------------------------------------------------------------
(***************************************************************************)
(* The background flush: write the SSTable, register it, and install it or *)
(* put the frozen memtable back; only then delete the sealed segments.     *)
(* A write that fails after the rename leaves the file.                    *)
(***************************************************************************)
FlushWrite ==
  /\ up = "up" /\ flpc = "write"
  /\ \/ /\ flushing # EmptyTable
        /\ tick' = tick + 1
        /\ flid' = <<tick', 0>>
        /\ files' = [id \in DOMAIN files \cup {flid'} |->
                       IF id = flid' THEN flushing ELSE files[id]]
        /\ flpc' = "add" \/ ("sstable" \in Faults /\ flpc' = "putback")
     \/ /\ "sstable" \in Faults \/ flushing = EmptyTable
        /\ flpc' = "putback"
        /\ UNCHANGED <<tick, flid, files>>
  /\ UNCHANGED <<logVars, manifestVars, up, pos, active, flushing, sealed, deletes, sstables,
                 commitVars, closing, comp, wr, restarts>>

\* A manifest write that reports an error, and what it leaves in the file.
WriteLineFails(line) ==
  \/ "manifest" \in Faults /\ UNCHANGED manifestVars
  \/ "sync" \in Faults /\ WriteLine(line)
  \/ "torn" \in Faults /\ TearLine(line)

FlushAdd ==
  /\ up = "up" /\ flpc = "add"
  /\ \/ WriteLine(AddLine(flid)) /\ flpc' = "install"
     \/ WriteLineFails(AddLine(flid)) /\ flpc' = "putback"
  /\ UNCHANGED <<logVars, files, tick, up, pos, active, flushing, sealed, flid, deletes,
                 sstables, commitVars, closing, comp, wr, restarts>>

FlushInstall ==
  /\ up = "up" /\ flpc = "install" /\ MuFree
  /\ sstables' = <<flid>> \o sstables
  /\ flushing' = EmptyTable /\ flpc' = "none"
  /\ deletes' = deletes \cup {sealed}
  /\ UNCHANGED <<logVars, manifestVars, files, tick, up, pos, active, sealed, flid,
                 commitVars, closing, comp, wr, restarts>>

\* A faulty FlushPutBack: the end of the flush is not announced.
FlushStuck ==
  /\ up = "up" /\ flpc = "putback" /\ MuFree
  /\ active' = PutBackOlder(active, flushing)
  /\ flushing' = EmptyTable
  /\ UNCHANGED <<logVars, manifestVars, files, tick, up, pos, sealed, flpc, flid, deletes,
                 sstables, commitVars, closing, comp, wr, restarts>>

FlushPutBack ==
  /\ up = "up" /\ flpc = "putback" /\ MuFree
  /\ active' = PutBackOlder(active, flushing)
  /\ flushing' = EmptyTable /\ flpc' = "none"
  /\ UNCHANGED <<logVars, manifestVars, files, tick, up, pos, sealed, flid, deletes, sstables,
                 commitVars, closing, comp, wr, restarts>>

FlushDelete ==
  /\ up = "up"
  /\ \E s \in deletes :
       /\ DeleteThrough(s, "unlink" \in Faults)
       /\ deletes' = deletes \ {s}
  /\ UNCHANGED <<manifestVars, files, tick, up, pos, active, flushing, sealed, flpc, flid,
                 sstables, commitVars, closing, comp, wr, restarts>>

-----------------------------------------------------------------------------
(***************************************************************************)
(* Compaction: merge a run of adjacent SSTables, newest first, write the   *)
(* result under an id just above the newest source's, register it,         *)
(* unregister the sources, swap it in for them, delete their files.  Which *)
(* runs share a size tier depends on sizes: any run long enough may.       *)
(***************************************************************************)
SelectTierForCompaction(i, j) == j + 1 >= i + MinTier

CompactSelect ==
  /\ up = "up" /\ comp.pc = "idle" /\ MuFree
  /\ \E i, j \in DOMAIN sstables :
       /\ SelectTierForCompaction(i, j)
       /\ comp' = [pc |-> "write", run |-> SubSeq(sstables, i, j), id |-> <<0, 0>>]
  /\ UNCHANGED <<logVars, manifestVars, files, tick, up, pos, active, flushVars, sstables,
                 commitVars, closing, wr, restarts>>

\* compaction.Merge of a run, newest first.
Merge(run) == [k \in Key |-> MergeAll([i \in DOMAIN run |-> files[run[i]][k]])]

\* compactedID: the newest source's id with the fewest "_c"s that is free.
IsCompactedID(newest, id) ==
  /\ id[1] = newest[1] /\ id[2] > newest[2] /\ id \notin DOMAIN files
  /\ \A c \in (newest[2] + 1)..(id[2] - 1) : <<id[1], c>> \in DOMAIN files

CompactWrite ==
  /\ up = "up" /\ comp.pc = "write"
  /\ \/ \E c \in 1..MaxSuffix :
          LET id == <<comp.run[1][1], c>> IN
          /\ IsCompactedID(comp.run[1], id)
          /\ files' = [f \in DOMAIN files \cup {id} |-> IF f = id THEN Merge(comp.run) ELSE files[f]]
          /\ \/ comp' = [comp EXCEPT !.pc = "add", !.id = id]
             \/ "sstable" \in Faults /\ comp' = NoRun
     \/ "sstable" \in Faults /\ comp' = NoRun /\ UNCHANGED files
  /\ UNCHANGED <<logVars, manifestVars, tick, up, pos, active, flushVars, sstables,
                 commitVars, closing, wr, restarts>>

\* If it cannot be registered its file is deleted, as far as that works.
CompactAdd ==
  /\ up = "up" /\ comp.pc = "add"
  /\ \/ /\ WriteLine(AddLine(comp.id))
        /\ comp' = [comp EXCEPT !.pc = "remove"]
        /\ UNCHANGED files
     \/ /\ WriteLineFails(AddLine(comp.id))
        /\ comp' = NoRun
        /\ \/ files' = [f \in DOMAIN files \ {comp.id} |-> files[f]]
           \/ "unlink" \in Faults /\ UNCHANGED files
  /\ UNCHANGED <<logVars, tick, up, pos, active, flushVars, sstables, commitVars, closing,
                 wr, restarts>>

\* If the sources cannot be unregistered, they and the result stay live.
CompactRemove ==
  /\ up = "up" /\ comp.pc = "remove"
  /\ \/ WriteLine(RemoveLine(comp.run)) /\ comp' = [comp EXCEPT !.pc = "swap"]
     \/ WriteLineFails(RemoveLine(comp.run)) /\ comp' = NoRun
  /\ UNCHANGED <<logVars, files, tick, up, pos, active, flushVars, sstables, commitVars,
                 closing, wr, restarts>>

\* The compaction's run is at i in e.sstables.
RunAt(i) ==
  /\ i + Len(comp.run) - 1 \in DOMAIN sstables
  /\ \A j \in DOMAIN comp.run : comp.run[j] = sstables[i + j - 1]

\* A faulty ReplaceRun: the run's last SSTable stays.
ReplaceRunButLast(ssts, i, run, id) ==
  [j \in 1..(Len(ssts) - Len(run) + 2) |->
     IF j < i THEN ssts[j] ELSE IF j = i THEN id ELSE ssts[j + Len(run) - 2]]

\* replaceRun: ssts with run, which is at i, replaced by id.
ReplaceRun(ssts, i, run, id) ==
  [j \in 1..(Len(ssts) - Len(run) + 1) |->
     IF j < i THEN ssts[j] ELSE IF j = i THEN id ELSE ssts[j + Len(run) - 1]]

CompactSwap ==
  /\ up = "up" /\ comp.pc = "swap" /\ MuFree
  /\ \E i \in DOMAIN sstables :
       /\ RunAt(i)
       /\ sstables' = ReplaceRun(sstables, i, comp.run, comp.id)
  /\ comp' = [comp EXCEPT !.pc = "delete"]
  /\ UNCHANGED <<logVars, manifestVars, files, tick, up, pos, active, flushVars, commitVars,
                 closing, wr, restarts>>

CompactDelete ==
  /\ up = "up" /\ comp.pc = "delete"
  /\ \E kept \in SUBSET Range(comp.run) :
       /\ kept = {} \/ "unlink" \in Faults
       /\ files' = [f \in DOMAIN files \ (Range(comp.run) \ kept) |-> files[f]]
  /\ comp' = NoRun
  /\ UNCHANGED <<logVars, manifestVars, tick, up, pos, active, flushVars, sstables,
                 commitVars, closing, wr, restarts>>

-----------------------------------------------------------------------------
(***************************************************************************)
(* Close, crash and Open.                                                  *)
(***************************************************************************)
\* The process is gone: its memory is lost, and with it every call that was
\* waiting for an answer; a write it had answered can no longer be undone.
Stop ==
  /\ up' = "down" /\ pos' = 0 /\ active' = EmptyTable /\ flushing' = EmptyTable
  /\ sealed' = 0 /\ flpc' = "none" /\ flid' = <<0, 0>> /\ deletes' = {} /\ sstables' = <<>>
  /\ queue' = <<>> /\ cpc' = "idle" /\ mu' = FALSE /\ batch' = {} /\ errs' = {}
  /\ crossed' = FALSE /\ halted' = FALSE /\ closing' = FALSE /\ comp' = NoRun
  /\ wr' = [w \in Writer |->
              [wr[w] EXCEPT !.pc = CASE @ \in {"read", "put", "restore"} -> "lost"
                                     [] @ = "putok" -> "acked"
                                     [] OTHER       -> @]]
  /\ restarts < MaxRestart /\ restarts' = restarts + 1

CloseBegin ==
  /\ up = "up" /\ ~closing /\ restarts < MaxRestart
  /\ closing' = TRUE
  /\ UNCHANGED <<logVars, manifestVars, files, tick, up, pos, active, flushVars, sstables,
                 commitVars, comp, wr, restarts>>

\* Close returns: the queue is drained, and no flush or compaction runs.
CloseEnd ==
  /\ up = "up" /\ closing
  /\ queue = <<>> /\ cpc = "idle" /\ flpc = "none" /\ deletes = {} /\ comp.pc = "idle"
  /\ Stop
  /\ UNCHANGED <<logVars, manifestVars, files, tick>>

\* What a crash leaves of the batch being written, of the manifest line
\* being written, and of segments unlinked without an fsync of the directory.
CrashLog ==
  \/ UNCHANGED wal
  \/ /\ up = "up" /\ cpc = "idle" /\ ~halted
     /\ \E ws \in Batches :
          \E n \in 1..Len(ws) : wal' = wal \o SubSeq(Entries(ws), 1, n)

CrashManifest ==
  \/ UNCHANGED manifestVars
  \/ /\ "torn" \in Faults
     /\ \/ flpc = "add" /\ TearLine(AddLine(flid))
        \/ comp.pc = "add" /\ TearLine(AddLine(comp.id))
        \/ comp.pc = "remove" /\ TearLine(RemoveLine(comp.run))

Crash ==
  /\ up \notin {"down", "failed"}
  /\ CrashLog /\ CrashManifest
  /\ gone' \in (IF "undelete" \in Faults THEN 0 ELSE gone)..gone
  /\ Stop
  /\ UNCHANGED <<seq, files, tick>>

\* Open: list and open the log, and replay the manifest.
Open ==
  /\ up = "down"
  /\ OpenLog
  /\ \E n \in 0..Len(wal) : Unlinked(n) /\ pos' = n
  /\ up' = IF bad THEN "failed" ELSE "replay"
  /\ UNCHANGED <<manifestVars, files, tick, active, flushVars, sstables, commitVars, closing,
                 comp, wr, restarts>>

\* Open's loop over the log's entries.
Replay ==
  /\ up = "replay"
  /\ \/ /\ pos < Len(wal)
        /\ active' = ApplyEntry(active, wal[pos + 1])
        /\ pos' = pos + 1 /\ UNCHANGED up
     \/ /\ pos = Len(wal)
        /\ up' = "load" /\ UNCHANGED <<active, pos>>
  /\ UNCHANGED <<logVars, manifestVars, files, tick, flushVars, sstables, commitVars, closing,
                 comp, wr, restarts>>

\* loadLiveSSTables: the live SSTables, newest first.
Load ==
  /\ up = "load"
  /\ LET rest == live \ Range(sstables) IN
       \/ /\ rest = {}
          /\ up' = "up" /\ UNCHANGED sstables
       \/ \E id \in rest :
            /\ \A other \in rest \ {id} : Newer(id, other)
            /\ \/ id \in DOMAIN files /\ sstables' = Append(sstables, id) /\ UNCHANGED up
               \/ id \notin DOMAIN files /\ up' = "failed" /\ UNCHANGED sstables
  /\ UNCHANGED <<logVars, manifestVars, files, tick, pos, active, flushVars, commitVars,
                 closing, comp, wr, restarts>>

-----------------------------------------------------------------------------
Writers == \E w \in Writer :
  \/ \E k \in Key : Read(w, k)
  \/ \E v \in Item : Put(w, v)
  \/ Restore(w)

Committer == CommitHalted \/ CommitWrite \/ CommitFail \/ Apply \/ Swap

Flush == FlushWrite \/ FlushAdd \/ FlushInstall \/ FlushPutBack \/ FlushDelete

Compact ==
  CompactSelect \/ CompactWrite \/ CompactAdd \/ CompactRemove
    \/ CompactSwap \/ CompactDelete

Recover == Open \/ Replay \/ Load

Next == Writers \/ Committer \/ Flush \/ Compact \/ CloseBegin \/ CloseEnd \/ Crash \/ Recover

Spec == Init /\ [][Next]_vars

(***************************************************************************)
(* What the code's scheduling promises: the committer, the flush goroutine *)
(* and a started compaction keep running, a supervisor restarts the        *)
(* process, and Close gets compactMu in the end (sync.Mutex hands itself   *)
(* to a waiter it has starved), however often the loop takes it meanwhile. *)
(***************************************************************************)
FairSpec ==
  /\ Spec
  /\ WF_vars(Committer) /\ WF_vars(Flush) /\ WF_vars(Recover)
  /\ WF_vars(comp.pc # "idle" /\ Compact)
  /\ SF_vars(CloseEnd)

-----------------------------------------------------------------------------
WriterPC == {"idle", "read", "put", "putok", "restore", "restored", "incomplete", "failed",
             "lost", "acked"}
SSTableID == Nat \X Nat
Entry == [seg : Nat, op : {"put", "restore"}, key : Key, items : SUBSET Version, by : Writer]

\* Every variable has the type its field has in the code.
TypeOK ==
  /\ wal \in Seq(Entry) /\ seq \in Nat /\ gone \in Nat
  /\ live \subseteq SSTableID /\ bad \in BOOLEAN
  /\ tail.op \in {"NONE", "BAD", "REMOVE"} /\ tail.ids \in Seq(SSTableID)
  /\ DOMAIN files \subseteq SSTableID /\ \A id \in DOMAIN files : files[id] \in Table
  /\ tick \in Nat
  /\ up \in {"down", "replay", "load", "up", "failed"} /\ pos \in Nat
  /\ active \in Table /\ flushing \in Table
  /\ sealed \in Nat /\ flpc \in {"none", "write", "add", "install", "putback"}
  /\ flid \in SSTableID /\ deletes \subseteq Nat
  /\ sstables \in Seq(SSTableID)
  /\ queue \in Seq(Writer) /\ cpc \in {"idle", "apply", "swap"} /\ mu \in BOOLEAN
  /\ batch \subseteq Writer /\ errs \subseteq Writer
  /\ crossed \in BOOLEAN /\ halted \in BOOLEAN /\ closing \in BOOLEAN
  /\ comp \in [pc : {"idle", "write", "add", "remove", "swap", "delete"},
               run : Seq(SSTableID), id : SSTableID]
  /\ wr \in [Writer -> [pc : WriterPC, key : Key, items : SUBSET Version,
                         prev : SUBSET Version]]
  /\ restarts \in Nat

-----------------------------------------------------------------------------
\* A Restore of record i's key is among the first n records, after it.
RestoredBy(i, n) ==
  \E j \in (i + 1)..n : wal[j].op = "restore" /\ wal[j].key = wal[i].key

\* A registered SSTable that exists holds x, or a version that covers it.
InLiveSSTable(k, x) == \E id \in live \cap DOMAIN files : Covers(files[id][k], x)

(***************************************************************************)
(* Whatever has been written to the log and not rolled back since is on    *)
(* disk, at every instant: in a segment that has not been unlinked or in a *)
(* registered SSTable.  This is what flush's order (SSTable, manifest,     *)
(* DeleteThrough), writeMu and compaction's order of steps are for.        *)
(***************************************************************************)
Recoverable ==
  \A i \in DOMAIN wal :
    \/ RestoredBy(i, Len(wal))
    \/ wal[i].seg > gone
    \/ \A x \in wal[i].items : InLiveSSTable(wal[i].key, x)

(***************************************************************************)
(* A Put the engine answered with nil is in what GetAll returns, itself or *)
(* under a version that covers it, whenever the engine is open: through    *)
(* swaps, failed flushes, compactions, crashes and restarts, until a       *)
(* Restore of its key.                                                     *)
(***************************************************************************)
AckedVisible ==
  up = "up" /\ MuFree =>
    \A w \in Writer : wr[w].pc \in {"putok", "acked"} =>
      \E i \in 1..pos :
        /\ wal[i].by = w /\ wal[i].op = "put"
        /\ \/ RestoredBy(i, pos)
           \/ \A x \in wal[i].items : Covers(GetAll(wal[i].key), x)

(***************************************************************************)
(* What a Restore that returned nil hid stays hidden until the next one:   *)
(* GetAll answers with nothing but what it restored and what was written   *)
(* after it.  engine.go says of replay that it can only hide older data,   *)
(* "never bring back what a Restore hid".                                  *)
(***************************************************************************)
RestoreHides ==
  up = "up" /\ MuFree =>
    \A j \in 1..pos :
      wal[j].op = "restore" /\ wr[wal[j].by].pc = "restored" /\ ~RestoredBy(j, pos) =>
        \A x \in GetAll(wal[j].key) :
          \E i \in j..pos : wal[i].key = wal[j].key /\ x \in wal[i].items

(***************************************************************************)
(* Every SSTable in memory has its file, so no reader and no compaction    *)
(* meets a deleted one, and the run being compacted stays contiguous       *)
(* whatever is flushed meanwhile, so replaceRun finds it ("Can't happen"   *)
(* in compactLocked is right).                                             *)
(***************************************************************************)
SSTablesInPlace ==
  up \in {"load", "up"} =>
    /\ Range(sstables) \subseteq DOMAIN files
    /\ comp.pc \in {"write", "add", "remove", "swap"} =>
         \E i \in DOMAIN sstables : RunAt(i)

\* Open always succeeds: no failure or crash leaves a manifest it rejects
\* (a malformed line, or a live SSTable whose file is missing).
OpenSucceeds == up # "failed"

\* Every write accepted is answered, unless the process crashes.
WritesAnswered ==
  \A w \in Writer : wr[w].pc \in {"put", "restore"} ~> wr[w].pc \notin {"put", "restore"}

\* Close returns.
CloseReturns == closing ~> ~closing
=============================================================================
