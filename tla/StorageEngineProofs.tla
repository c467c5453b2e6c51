------------------------- MODULE StorageEngineProofs ------------------------
(***************************************************************************)
(* Proofs that the storage engine keeps IMem, and IDisk when no manifest   *)
(* line is torn, and with them TypeOK, SSTablesInPlace, Recoverable and    *)
(* AckedVisible, for any keys, writers, versions, batch size and run       *)
(* length, and any number of flushes, compactions and restarts.  First,    *)
(* that what was applied, replayed or answered stays in a memtable or an   *)
(* SSTable, itself or covered; then, what the fold over any number of      *)
(* layers gives, which GetAll and compaction.Merge run: it loses no        *)
(* version, and is a sibling list.                                         *)
(***************************************************************************)
EXTENDS EngineStepProofs, FiniteSetTheorems, WellFoundedInduction

USE Zenon DEF MuFree, logVars, manifestVars, flushVars, commitVars, memVars

-----------------------------------------------------------------------------
\* Applying a record keeps what the memtable holds, unless it is a Restore
\* of that key, and adds what the record holds.
LEMMA AppliedCovers ==
  ASSUME NEW t, GoodTable(t), NEW e \in Entry, SiblingSet(e.items)
  PROVE  /\ \A x \in e.items : Covers(ApplyEntry(t, e)[e.key], x)
         /\ \A k \in Key : \A x \in Version :
              Covers(t[k], x) => Covers(ApplyEntry(t, e)[k], x) \/ (e.op = "restore" /\ e.key = k)
<1>1. /\ \A k \in Key : k # e.key => ApplyEntry(t, e)[k] = t[k]
      /\ ApplyEntry(t, e)[e.key] =
           IF e.op = "restore" THEN e.items ELSE MergeSiblings(t[e.key], e.items)
  BY AppliedAt
<1>2. e.key \in Key /\ e.items \in SUBSET Version /\ Siblings(e.items) /\ t[e.key] \in SUBSET Version
  BY DEF Entry, SiblingSet, GoodTable
<1>3. \A x \in t[e.key] \cup e.items : Covers(MergeSiblings(t[e.key], e.items), x)
  BY <1>2, MergeCovers
<1>4. ASSUME NEW x \in e.items PROVE Covers(ApplyEntry(t, e)[e.key], x)
  BY <1>1, <1>2, <1>3, CoversSelf, ZenonT(40)
<1>5. ASSUME NEW x \in Version, Covers(t[e.key], x), e.op # "restore"
      PROVE  Covers(ApplyEntry(t, e)[e.key], x)
  <2>1. ApplyEntry(t, e)[e.key] \in SUBSET Version
    BY <1>1, <1>2, MergeWithin, SMT
  <2>2. \A y \in t[e.key] : Covers(ApplyEntry(t, e)[e.key], y)
    BY <1>1, <1>3, <1>5, ZenonT(40)
  <2>. QED BY <1>2, <1>5, <2>1, <2>2, CoversTransitive
<1>. QED BY <1>1, <1>4, <1>5

\* Putting the frozen memtable back keeps what either holds.
LEMMA PutBackCovers ==
  ASSUME NEW t, GoodTable(t), NEW u, GoodTable(u), NEW k \in Key, NEW x \in Version,
         Covers(t[k], x) \/ Covers(u[k], x)
  PROVE  Covers(PutBackOlder(t, u)[k], x)
<1>1. t[k] \in SUBSET Version /\ u[k] \in SUBSET Version /\ Siblings(u[k])
  BY DEF GoodTable, SiblingSet
<1>2. \A y \in t[k] \cup u[k] : Covers(MergeSiblings(t[k], u[k]), y)
  BY <1>1, MergeCovers
<1>3. MergeSiblings(t[k], u[k]) \in SUBSET Version
  BY <1>1, MergeWithin
<1>4. Covers(MergeSiblings(t[k], u[k]), x)
  BY <1>1, <1>2, <1>3, CoversTransitive
<1>. QED BY <1>4 DEF PutBackOlder

\* The flush under way goes on, or one begins.
LEMMA FlushEffect ==
  ASSUME IMem, Next, flpc' # "none"
  PROVE  \/ /\ up = "up" /\ pos = Len(wal) /\ flpc = "none"
            /\ flushing' = active /\ UNCHANGED <<wal, pos, files, sstables>>
         \/ /\ up = "up" /\ up' = "up" /\ flpc # "none" /\ UNCHANGED <<flushing, sealed>>
            /\ pos' \in {pos, pos + 1}
<1>. USE DEF IMem
<1>1. flpc # "none" => up = "up"
  BY DEF CommitInv
<1>2. CASE Swap
  <2>1. up = "up" /\ cpc = "swap" /\ flpc = "none" /\ ~halted
    BY <1>2 DEF Swap, CommitInv
  <2>2. pos = Len(wal)
    BY <2>1 DEF CommitInv
  <2>. QED BY <1>2, <2>1, <2>2 DEF Swap, Rotate
<1>3. CASE Writers
  BY <1>1, <1>3, ZenonT(40) DEF Writers, Read, Put, Restore, Write
<1>4. CASE CommitHalted \/ CommitWrite \/ CommitFail \/ Apply
  BY <1>1, <1>4, ZenonT(40) DEF CommitHalted, CommitWrite, CommitFail, Apply
<1>5. CASE Flush
  BY <1>1, <1>5, ZenonT(40) DEF Flush, FlushWrite, FlushAdd, FlushInstall, FlushPutBack, FlushDelete
<1>6. CASE Compact
  BY <1>1, <1>6, ZenonT(40) DEF Compact, CompactSelect, CompactWrite, CompactAdd, CompactRemove, CompactSwap, CompactDelete
<1>7. CASE CloseBegin \/ CloseEnd \/ Crash \/ Recover
  BY <1>1, <1>7 DEF CloseBegin, CloseEnd, Crash, Stop, Recover, Open, Replay, Load
<1>. QED
  BY <1>2, <1>3, <1>4, <1>5, <1>6, <1>7 DEF Next, Committer

\* FlushCover is preserved: what a sealed segment holds is in the frozen memtable.
LEMMA FlushCoverStep ==
  ASSUME IMem, MemCover, FlushCover, Next
  PROVE  FlushCover'
<1>. USE DEF IMem
<1>1. LogKept
  BY LogKeeps
<1>2. SUFFICES ASSUME flpc' # "none", NEW i \in DOMAIN wal', wal'[i].seg <= sealed'
               PROVE  \/ \E j \in (i + 1)..pos' : wal'[j].op = "restore" /\ wal'[j].key = wal'[i].key
                      \/ \A x \in wal'[i].items :
                           \/ Covers(flushing'[wal'[i].key], x)
                           \/ \E h \in DOMAIN sstables' : Covers(files'[sstables'[h]][wal'[i].key], x)
  BY DEF FlushCover, RestoredBy, InSSTable
<1>3. CASE /\ up = "up" /\ pos = Len(wal) /\ flpc = "none"
           /\ flushing' = active /\ UNCHANGED <<wal, pos, files, sstables>>
  <2>1. i \in 1..pos /\ wal[i].key \in Key
    BY <1>1, <1>3, Versions DEF LogKept
  <2>2. flushing[wal[i].key] = {}
    BY <1>3, <2>1 DEF CommitInv, EmptyTable
  <2>3. \A x : ~Covers(flushing[wal[i].key], x)
    BY <2>2 DEF Covers
  <2>. QED BY <1>3, <2>1, <2>3 DEF MemCover, RestoredBy, InSSTable
<1>4. CASE /\ up = "up" /\ up' = "up" /\ flpc # "none" /\ UNCHANGED <<flushing, sealed>>
           /\ pos' \in {pos, pos + 1}
  <2>1. sealed < seq /\ sealed \in Nat /\ seq \in Nat /\ pos \in Nat /\ pos <= Len(wal)
    BY <1>4, ZenonT(40) DEF LogInv, TypeOK
  <2>2. i \in DOMAIN wal
    <3>1. wal'[i].seg # seq
      BY <1>2, <1>4, <2>1, SMT
    <3>. QED BY <3>1, <1>1 DEF LogKept
  <2>3. wal'[i] = wal[i] /\ wal[i].items \in SUBSET Version /\ wal[i].key \in Key
    BY <1>1, <2>2, Versions, ZenonT(40) DEF LogKept
  <2>4. SSTablesKept
    BY <1>4, SSTablesKeep
  <2>5. CASE RestoredBy(i, pos)
    <3>1. pos' \in Nat /\ pos <= pos'
      BY <1>4, <2>1, SMT
    <3>. QED BY <1>1, <2>1, <2>2, <2>5, <3>1, RestoredKept, ZenonT(40)
  <2>6. CASE \A x \in wal[i].items : Covers(flushing[wal[i].key], x) \/ InSSTable(wal[i].key, x)
    BY <1>4, <2>3, <2>4, <2>6, ZenonT(40) DEF SSTablesKept, InSSTable
  <2>. QED BY <1>2, <1>4, <2>2, <2>3, <2>5, <2>6 DEF FlushCover
<1>. QED BY <1>2, <1>3, <1>4, FlushEffect, ZenonT(40)

\* MemCover is preserved by every goroutine of the engine.
LEMMA MemCoverStep ==
  ASSUME IMem, ReplayCover, MemCover, Next
  PROVE  MemCover'
<1>. USE DEF IMem
<1>1. LogKept
  BY LogKeeps
<1>t. /\ pos \in Nat /\ pos <= Len(wal) /\ Len(wal) \in Nat /\ DOMAIN wal = 1..Len(wal)
      /\ GoodTable(active) /\ GoodTable(flushing)
      /\ \A i \in DOMAIN wal : wal[i] \in Entry /\ SiblingSet(wal[i].items)
  <2>1. pos \in Nat /\ pos <= Len(wal)
    BY ZenonT(40) DEF TypeOK, LogInv
  <2>2. Len(wal) \in Nat /\ DOMAIN wal = 1..Len(wal)
    BY <1>1 DEF LogKept
  <2>3. \A j \in DOMAIN wal : wal[j] \in Entry
    BY SMT DEF TypeOK
  <2>. QED BY <2>1, <2>2, <2>3, ZenonT(40) DEF SiblingsInv
<1>2. SUFFICES ASSUME up' = "up", NEW i \in 1..pos'
               PROVE  \/ \E j \in (i + 1)..pos' : wal'[j].op = "restore" /\ wal'[j].key = wal'[i].key
                      \/ \A x \in wal'[i].items :
                           \/ Covers(active'[wal'[i].key], x)
                           \/ Covers(flushing'[wal'[i].key], x)
                           \/ \E h \in DOMAIN sstables' : Covers(files'[sstables'[h]][wal'[i].key], x)
  BY ZenonT(40) DEF MemCover, RestoredBy, InSSTable
<1>3. ASSUME up = "up", i <= pos, pos' \in Nat, pos <= pos',
             \A k \in Key : \A x \in Version : Covers(active[k], x) \/ Covers(flushing[k], x) =>
                \/ Covers(active'[k], x) \/ Covers(flushing'[k], x)
                \/ \E h \in DOMAIN sstables' : Covers(files'[sstables'[h]][k], x)
                \/ pos' = pos + 1 /\ wal[pos + 1].op = "restore" /\ wal[pos + 1].key = k
                     /\ pos + 1 \in DOMAIN wal
      PROVE  \/ \E j \in (i + 1)..pos' : wal'[j].op = "restore" /\ wal'[j].key = wal'[i].key
             \/ \A x \in wal'[i].items :
                  \/ Covers(active'[wal'[i].key], x)
                  \/ Covers(flushing'[wal'[i].key], x)
                  \/ \E h \in DOMAIN sstables' : Covers(files'[sstables'[h]][wal'[i].key], x)
  <2>1. i \in 1..pos /\ i \in DOMAIN wal
    BY <1>3, <1>t, SMT
  <2>2. wal'[i] = wal[i] /\ wal[i].items \in SUBSET Version /\ wal[i].key \in Key
    BY <1>1, <2>1, Versions DEF LogKept
  <2>3. SSTablesKept
    BY <1>2, <1>3, SSTablesKeep
  <2>4. CASE RestoredBy(i, pos)
    BY <1>1, <1>t, <1>3, <2>1, <2>4, RestoredKept, ZenonT(40)
  <2>5. CASE pos' = pos + 1 /\ wal[pos + 1].op = "restore" /\ wal[pos + 1].key = wal[i].key
               /\ pos + 1 \in DOMAIN wal
    <3>1. pos + 1 \in (i + 1)..pos' /\ wal'[pos + 1] = wal[pos + 1]
      <4>1. pos + 1 \in (i + 1)..pos'
        BY ONLY <1>t, <2>1, <2>5, SMT
      <4>. QED BY <1>1, <2>5, <4>1 DEF LogKept
    <3>. QED BY <2>2, <2>5, <3>1, ZenonT(40)
  <2>6. CASE /\ \A x \in wal[i].items : \/ Covers(active[wal[i].key], x)
                                        \/ Covers(flushing[wal[i].key], x)
                                        \/ InSSTable(wal[i].key, x)
             /\ ~(pos' = pos + 1 /\ wal[pos + 1].op = "restore" /\ wal[pos + 1].key = wal[i].key
                    /\ pos + 1 \in DOMAIN wal)
    <3>1. ASSUME NEW x \in wal[i].items
          PROVE  \/ Covers(active'[wal[i].key], x)
                 \/ Covers(flushing'[wal[i].key], x)
                 \/ \E h \in DOMAIN sstables' : Covers(files'[sstables'[h]][wal[i].key], x)
      <4>1. x \in Version
        BY <2>2
      <4>2. CASE Covers(active[wal[i].key], x) \/ Covers(flushing[wal[i].key], x)
        BY <1>3, <2>2, <2>6, <4>1, <4>2, ZenonT(40)
      <4>3. CASE InSSTable(wal[i].key, x)
        BY <2>2, <2>3, <4>1, <4>3, ZenonT(40) DEF SSTablesKept, InSSTable
      <4>. QED BY <2>6, <4>2, <4>3, ZenonT(40)
    <3>. QED BY <3>1, <2>2
  <2>. QED BY <1>3, <2>1, <2>4, <2>5, <2>6, ZenonT(40) DEF MemCover
<1>4. CASE Apply
  <2>1. up = "up" /\ cpc = "apply" /\ pos' = pos + 1 /\ active' = ApplyEntry(active, wal[pos + 1])
          /\ wal' = wal /\ flushing' = flushing
    BY <1>4, ZenonT(40) DEF Apply
  <2>2. pos + 1 \in DOMAIN wal
    <3>1. pos < Len(wal)
      BY <2>1 DEF CommitInv
    <3>. QED BY <3>1, <1>t, SMT
  <2>3. wal[pos + 1] \in Entry /\ SiblingSet(wal[pos + 1].items)
    BY <2>2, <1>t
  <2>4. /\ \A x \in wal[pos + 1].items : Covers(active'[wal[pos + 1].key], x)
        /\ \A k \in Key : \A x \in Version :
             Covers(active[k], x) => Covers(active'[k], x) \/ (wal[pos + 1].op = "restore" /\ wal[pos + 1].key = k)
    BY ONLY <2>1, <2>3, <1>t, AppliedCovers, SMT
  <2>5. CASE i <= pos
    <3>1. pos' \in Nat /\ pos <= pos'
      BY ONLY <1>t, <2>1, SMT
    <3>2. \A k \in Key : \A x \in Version : Covers(active[k], x) \/ Covers(flushing[k], x) =>
             \/ Covers(active'[k], x) \/ Covers(flushing'[k], x)
             \/ pos' = pos + 1 /\ wal[pos + 1].op = "restore" /\ wal[pos + 1].key = k
                  /\ pos + 1 \in DOMAIN wal
      BY <2>1, <2>2, <2>4
    <3>. QED BY <1>3, <2>1, <2>5, <3>1, <3>2
  <2>6. CASE i = pos + 1
    BY <2>1, <2>4, <2>6, ZenonT(40)
  <2>. QED BY <1>2, <1>t, <2>1, <2>5, <2>6, SMTT(40)
<1>5. ASSUME up = "up", pos' = pos,
             \A k \in Key : \A x \in Version : Covers(active[k], x) \/ Covers(flushing[k], x) =>
                \/ Covers(active'[k], x) \/ Covers(flushing'[k], x)
                \/ \E h \in DOMAIN sstables' : Covers(files'[sstables'[h]][k], x)
      PROVE  \/ \E j \in (i + 1)..pos' : wal'[j].op = "restore" /\ wal'[j].key = wal'[i].key
             \/ \A x \in wal'[i].items :
                  \/ Covers(active'[wal'[i].key], x)
                  \/ Covers(flushing'[wal'[i].key], x)
                  \/ \E h \in DOMAIN sstables' : Covers(files'[sstables'[h]][wal'[i].key], x)
  <2>1. i <= pos /\ pos' \in Nat /\ pos <= pos'
    BY ONLY i \in 1..pos', <1>5, <1>t, SMT
  <2>. QED BY <1>3, <1>5, <2>1
<1>6. CASE Swap
  <2>1. up = "up" /\ pos' = pos /\ cpc = "swap"
    BY <1>6 DEF Swap
  <2>2. CASE flushing' = active
    <3>1. flushing = EmptyTable
      BY <2>1 DEF CommitInv
    <3>2. \A k \in Key : \A x \in Version : ~Covers(flushing[k], x)
      BY <3>1 DEF Covers, EmptyTable
    <3>. QED BY <1>5, <2>1, <2>2, <3>2, ZenonT(40)
  <2>3. CASE flushing' = flushing /\ active' = active
    BY <1>5, <2>1, <2>3
  <2>. QED BY <1>6, <2>2, <2>3, ZenonT(40) DEF Swap
<1>7. CASE FlushInstall
  <2>1. /\ up = "up" /\ pos' = pos /\ active' = active /\ flpc = "install" /\ files' = files
        /\ sstables' = <<flid>> \o sstables
    BY <1>7 DEF FlushInstall
  <2>2. 1 \in DOMAIN sstables' /\ sstables'[1] = flid
    <3>1. sstables \in Seq(SSTableID) /\ flid \in SSTableID
      BY DEF TypeOK
    <3>2. <<flid>> \in Seq(SSTableID) /\ Len(<<flid>>) = 1 /\ <<flid>>[1] = flid
      BY <3>1, SMT
    <3>3. DOMAIN sstables' = 1..(1 + Len(sstables)) /\ Len(sstables) \in Nat
      BY <2>1, <3>1, <3>2, ConcatDomain, ZenonT(40)
    <3>4. \A j \in 1..1 : sstables'[j] = <<flid>>[j]
      BY <2>1, <3>1, <3>2, ConcatDomain, ZenonT(40)
    <3>. QED BY <3>2, <3>3, <3>4, SMT
  <2>3. files'[sstables'[1]] = flushing
    BY <2>1, <2>2 DEF FilesInv
  <2>. QED BY <1>5, <2>1, <2>2, <2>3, ZenonT(40)
<1>8. CASE FlushPutBack
  <2>1. up = "up" /\ pos' = pos /\ active' = PutBackOlder(active, flushing)
    BY <1>8 DEF FlushPutBack
  <2>2. \A k \in Key : \A x \in Version : Covers(active[k], x) \/ Covers(flushing[k], x) => Covers(active'[k], x)
    BY <1>t, <2>1, PutBackCovers
  <2>. QED BY <1>5, <2>1, <2>2, ZenonT(40)
<1>9. CASE Load
  <2>1. /\ up = "load" /\ live \ Range(sstables) = {}
        /\ UNCHANGED <<wal, pos, files, sstables, active>> /\ pos = Len(wal)
    BY <1>2, <1>9, ZenonT(40) DEF Load, LogInv
  <2>2. i \in 1..pos /\ i \in DOMAIN wal
    BY <2>1, <1>t
  <2>3. \/ RestoredBy(i, Len(wal))
        \/ \A x \in wal[i].items : Covers(active[wal[i].key], x) \/ InLive(wal[i].key, x)
    BY <2>1, <2>2, ZenonT(40) DEF ReplayCover
  <2>4. ASSUME NEW x, InLive(wal[i].key, x)
        PROVE  \E h \in DOMAIN sstables : Covers(files[sstables[h]][wal[i].key], x)
    BY <2>1, <2>4 DEF InLive, LiveFiles, Range
  <2>. QED BY <2>1, <2>3, <2>4, ZenonT(40) DEF RestoredBy
<1>10. CASE Writers \/ CommitHalted \/ CommitWrite \/ CommitFail
  <2>1. up = "up" /\ UNCHANGED <<pos, active, flushing>>
    BY <1>10 DEF Writers, Read, Put, Restore, Write, CommitHalted, CommitWrite, CommitFail
  <2>. QED BY <1>5, <2>1, ZenonT(40)
<1>11. CASE FlushWrite \/ FlushAdd \/ FlushDelete
  <2>1. up = "up" /\ UNCHANGED <<pos, active, flushing>>
    BY <1>11 DEF FlushWrite, FlushAdd, FlushDelete
  <2>. QED BY <1>5, <2>1, ZenonT(40)
<1>12. CASE Compact \/ CloseBegin
  <2>1. up = "up" /\ UNCHANGED <<pos, active, flushing>>
    BY <1>12, ZenonT(40) DEF Compact, CompactSelect, CompactWrite, CompactAdd, CompactRemove, CompactSwap, CompactDelete,
       CloseBegin
  <2>. QED BY <1>5, <2>1, ZenonT(40)
<1>13. CASE CloseEnd \/ Crash \/ Open \/ Replay
  BY <1>2, <1>13 DEF CloseEnd, Crash, Stop, Open, Replay
<1>. QED
  BY <1>4, <1>6, <1>7, <1>8, <1>9, <1>10, <1>11, <1>12, <1>13, ZenonT(40) DEF Next, Committer, Flush, Recover

\* ReplayCover is preserved by Open's replay and by a crash during it.
LEMMA ReplayCoverStep ==
  ASSUME IMem, LiveKept, DiskCover, ReplayCover, Next
  PROVE  ReplayCover'
<1>. USE DEF IMem
<1>1. LogKept
  BY LogKeeps
<1>t. /\ pos \in Nat /\ pos <= Len(wal) /\ Len(wal) \in Nat /\ DOMAIN wal = 1..Len(wal)
      /\ GoodTable(active)
      /\ \A i \in DOMAIN wal : wal[i] \in Entry /\ SiblingSet(wal[i].items)
  <2>1. pos \in Nat /\ pos <= Len(wal)
    BY ZenonT(40) DEF TypeOK, LogInv
  <2>2. Len(wal) \in Nat /\ DOMAIN wal = 1..Len(wal)
    BY <1>1 DEF LogKept
  <2>3. \A j \in DOMAIN wal : wal[j] \in Entry
    BY SMT DEF TypeOK
  <2>. QED BY <2>1, <2>2, <2>3 DEF SiblingsInv
<1>2. SUFFICES ASSUME up' \in {"replay", "load"}, NEW i \in 1..pos'
               PROVE  \/ \E j \in (i + 1)..Len(wal') : wal'[j].op = "restore" /\ wal'[j].key = wal'[i].key
                      \/ \A x \in wal'[i].items :
                           \/ Covers(active'[wal'[i].key], x)
                           \/ \E id \in LiveFiles' : Covers(files'[id][wal'[i].key], x)
  BY ZenonT(40) DEF ReplayCover, RestoredBy, InLive
<1>r. Recover
  <2>1. CASE Writers \/ Committer
    BY <1>2, <2>1, ZenonT(40) DEF Writers, Read, Put, Restore, Write, Committer, CommitHalted, CommitWrite,
       CommitFail, Apply, Swap
  <2>2. CASE Flush
    BY <1>2, <2>2, ZenonT(40) DEF Flush, FlushWrite, FlushAdd, FlushInstall, FlushPutBack, FlushDelete
  <2>3. CASE Compact
    BY <1>2, <2>3, ZenonT(40) DEF Compact, CompactSelect, CompactWrite, CompactAdd, CompactRemove, CompactSwap,
       CompactDelete
  <2>4. CASE CloseBegin \/ CloseEnd \/ Crash
    BY <1>2, <2>4 DEF CloseBegin, CloseEnd, Crash, Stop
  <2>. QED BY <2>1, <2>2, <2>3, <2>4 DEF Next
<1>3. wal' = wal
  BY <1>r DEF Recover, Open, OpenLog, Replay, Load
<1>4. ASSUME up \in {"replay", "load"}, i <= pos,
             \A k \in Key : \A x \in Version : Covers(active[k], x) =>
                \/ Covers(active'[k], x)
                \/ pos + 1 \in DOMAIN wal /\ wal[pos + 1].op = "restore" /\ wal[pos + 1].key = k
      PROVE  \/ \E j \in (i + 1)..Len(wal') : wal'[j].op = "restore" /\ wal'[j].key = wal'[i].key
             \/ \A x \in wal'[i].items :
                  \/ Covers(active'[wal'[i].key], x)
                  \/ \E id \in LiveFiles' : Covers(files'[id][wal'[i].key], x)
  <2>1. i \in 1..pos /\ i \in DOMAIN wal
    BY <1>4, <1>t, SMTT(40)
  <2>2. wal[i].items \in SUBSET Version /\ wal[i].key \in Key
    BY <2>1, Versions
  <2>3. CASE RestoredBy(i, Len(wal))
    BY <1>3, <2>3, ZenonT(40) DEF RestoredBy
  <2>4. CASE pos + 1 \in DOMAIN wal /\ wal[pos + 1].op = "restore" /\ wal[pos + 1].key = wal[i].key
    <3>1. pos + 1 \in (i + 1)..Len(wal)
      BY <1>t, <2>1, <2>4, SMT
    <3>. QED BY <1>3, <2>4, <3>1, ZenonT(40)
  <2>5. CASE /\ \A x \in wal[i].items : Covers(active[wal[i].key], x) \/ InLive(wal[i].key, x)
             /\ ~(pos + 1 \in DOMAIN wal /\ wal[pos + 1].op = "restore" /\ wal[pos + 1].key = wal[i].key)
    <3>1. ASSUME NEW x \in wal[i].items
          PROVE  \/ Covers(active'[wal[i].key], x)
                 \/ \E id \in LiveFiles' : Covers(files'[id][wal[i].key], x)
      <4>1. x \in Version
        BY <2>2
      <4>2. CASE Covers(active[wal[i].key], x)
        BY <1>4, <2>2, <2>5, <4>1, <4>2, ZenonT(40)
      <4>3. CASE InLive(wal[i].key, x)
        BY <2>2, <4>1, <4>3 DEF LiveKept, InLive
      <4>. QED BY <2>5, <4>2, <4>3, ZenonT(40)
    <3>. QED BY <1>3, <3>1
  <2>. QED BY <1>4, <2>1, <2>3, <2>4, <2>5, ZenonT(40) DEF ReplayCover
<1>5. CASE Open
  <2>1. PICK n \in 0..Len(wal) : Unlinked(n) /\ pos' = n
    BY <1>5 DEF Open
  <2>2. i \in DOMAIN wal /\ wal[i].seg <= gone
    <3>1. i \in 1..n /\ i \in DOMAIN wal
      BY <1>t, <2>1, SMT
    <3>. QED BY <2>1, <3>1, SMT DEF Unlinked
  <2>3. \/ RestoredBy(i, Len(wal))
        \/ \A x \in wal[i].items : InLive(wal[i].key, x)
    BY <2>2 DEF DiskCover
  <2>4. wal[i].items \in SUBSET Version /\ wal[i].key \in Key
    BY <2>2, Versions
  <2>. QED BY <1>3, <2>3, <2>4 DEF RestoredBy, LiveKept, InLive
<1>6. CASE Replay
  <2>1. CASE pos < Len(wal) /\ active' = ApplyEntry(active, wal[pos + 1]) /\ pos' = pos + 1
    <3>1. pos + 1 \in DOMAIN wal /\ up = "replay"
      <4>1. up = "replay"
        BY <1>6 DEF Replay
      <4>. QED BY <4>1, <1>t, <2>1, SMT
    <3>2. wal[pos + 1] \in Entry /\ SiblingSet(wal[pos + 1].items)
      BY <3>1, <1>t
    <3>3. /\ \A x \in wal[pos + 1].items : Covers(active'[wal[pos + 1].key], x)
          /\ \A k \in Key : \A x \in Version : Covers(active[k], x) =>
               Covers(active'[k], x) \/ (wal[pos + 1].op = "restore" /\ wal[pos + 1].key = k)
      BY <2>1, <3>2, <1>t, AppliedCovers, SMTT(40)
    <3>4. CASE i <= pos
      BY <1>4, <3>1, <3>3, <3>4, ZenonT(40)
    <3>5. CASE i = pos + 1
      BY <1>3, <3>3, <3>5, ZenonT(40)
    <3>6. i <= pos \/ i = pos + 1
      BY ONLY i \in 1..pos', <1>t, <2>1, SMT
    <3>. QED BY <3>4, <3>5, <3>6
  <2>2. CASE UNCHANGED <<active, pos>>
    <3>1. up = "replay" /\ i <= pos
      <4>1. up = "replay"
        BY <1>6 DEF Replay
      <4>. QED BY <4>1, <1>t, <2>2, SMT
    <3>. QED BY <1>4, <2>2, <3>1
  <2>. QED BY <1>6, <2>1, <2>2, ZenonT(40) DEF Replay
<1>7. CASE Load
  <2>1. up = "load" /\ UNCHANGED <<active, pos>>
    BY <1>7 DEF Load
  <2>2. i <= pos
    BY <1>t, <2>1, SMT
  <2>. QED BY <1>4, <2>1, <2>2
<1>. QED BY <1>r, <1>5, <1>6, <1>7, ZenonT(40) DEF Recover

-----------------------------------------------------------------------------
\* Who gets a Put's answer: one that had it, or one whose record memory has
\* come to reflect.
LEMMA AnswerEffect ==
  ASSUME IMem, Next, NEW w \in Writer, wr'[w].pc \in {"putok", "acked"}
  PROVE  \/ /\ wr[w].pc \in {"putok", "acked"}
            /\ up' = "up" => (up = "up" /\ pos' \in {pos, pos + 1}) \/ (pos' = Len(wal) /\ wal' = wal)
         \/ w \in batch /\ wr[w].pc = "put" /\ wal' = wal /\ pos' = Len(wal)
<1>. USE DEF IMem
<1>t. wr \in [Writer -> [pc : WriterPC, key : Key, items : SUBSET Version, prev : SUBSET Version]]
  BY ZenonT(40) DEF TypeOK
<1>1. CASE Writers
  <2>1. PICK u \in Writer : (\E k \in Key : Read(u, k)) \/ (\E v \in Item : Put(u, v)) \/ Restore(u)
    BY <1>1, ZenonT(40) DEF Writers
  <2>2. wr'[u].pc \in {"read", "put", "restore", "failed"} /\ \A z \in Writer : z # u => wr'[z] = wr[z]
    <3>1. CASE \E k \in Key : Read(u, k)
      <4>1. PICK k \in Key :
              wr' = [wr EXCEPT ![u] = [pc |-> "read", key |-> k, items |-> {}, prev |-> GetAll(k)]]
        BY <3>1, ZenonT(40) DEF Read
      <4>. HIDE DEF GetAll
      <4>. QED BY ONLY <4>1, <1>t, u \in Writer, Zenon
    <3>2. ASSUME NEW k, NEW p \in {"put", "restore"}, NEW i, NEW v, Write(u, k, p, i, v)
          PROVE  /\ wr'[u].pc \in {"read", "put", "restore", "failed"}
                 /\ \A z \in Writer : z # u => wr'[z] = wr[z]
      <4>1. \/ wr' = [wr EXCEPT ![u] = [pc |-> "failed", key |-> k, items |-> {}, prev |-> {}]]
            \/ wr' = [wr EXCEPT ![u] = [pc |-> p, key |-> k, items |-> i, prev |-> v]]
        BY <3>2, ZenonT(40) DEF Write
      <4>. QED BY ONLY <3>2, <4>1, <1>t, u \in Writer, SMT
    <3>3. CASE \E v \in Item : Put(u, v)
      <4>1. PICK v \in Item : Write(u, wr[u].key, "put", {v}, wr[u].prev)
        BY <3>3, ZenonT(40) DEF Put
      <4>. QED BY <4>1, <3>2
    <3>4. CASE Restore(u)
      <4>1. Write(u, wr[u].key, "restore", wr[u].prev, {})
        BY <3>4, ZenonT(40) DEF Restore
      <4>. QED BY <4>1, <3>2
    <3>. QED BY <2>1, <3>1, <3>3, <3>4, ZenonT(40)
  <2>3. up = "up" /\ pos' = pos
    BY <2>1, ZenonT(40) DEF Read, Put, Restore, Write
  <2>. QED BY <2>2, <2>3
<1>2. CASE CommitHalted \/ CommitFail
  <2>1. up = "up" /\ pos' = pos /\ \E ws : Fail(ws)
    BY <1>2, ZenonT(40) DEF CommitHalted, CommitFail
  <2>2. PICK ws : Fail(ws)
    BY <2>1
  <2>3. wr'[w] = wr[w] \/ wr'[w].pc = "failed"
    BY <2>2, <1>t DEF Fail
  <2>. QED BY <2>1, <2>3
<1>d. ASSUME NEW bads, Done(batch, bads)
      PROVE  wr[w].pc \in {"putok", "acked"} \/ (w \in batch /\ wr[w].pc = "put")
  <2>1. CASE w \notin batch
    BY <1>d, <2>1 DEF Done
  <2>2. CASE w \in batch
    <3>1. wr[w].pc \in {"put", "restore"}
      BY <2>2 DEF QueueInv
    <3>. QED BY <1>d, <1>t, <2>2, <3>1 DEF Done
  <2>. QED BY <2>1, <2>2, ZenonT(40)
<1>3. CASE Apply
  <2>1. up = "up" /\ pos' = pos + 1 /\ wal' = wal
    BY <1>3, ZenonT(40) DEF Apply
  <2>2. CASE wr' = wr
    BY <2>1, <2>2
  <2>3. ASSUME NEW bads, Done(batch, bads), pos' = Len(wal)
        PROVE  \/ wr[w].pc \in {"putok", "acked"}
               \/ w \in batch /\ wr[w].pc = "put" /\ wal' = wal /\ pos' = Len(wal)
    BY <1>d, <2>1, <2>3
  <2>4. wr' = wr \/ (pos' = Len(wal) /\ \E bads : Done(batch, bads))
    BY <1>3, ZenonT(40) DEF Apply
  <2>. QED BY <2>1, <2>2, <2>3, <2>4
<1>4. CASE Swap
  <2>1. up = "up" /\ pos' = pos /\ wal' = wal /\ Done(batch, errs) /\ cpc = "swap"
    BY <1>4, ZenonT(40) DEF Swap, Rotate
  <2>2. pos = Len(wal)
    BY <2>1 DEF CommitInv
  <2>. QED BY <1>d, <2>1, <2>2, ZenonT(40)
<1>5. CASE CommitWrite \/ CloseBegin
  BY <1>5, ZenonT(40) DEF CommitWrite, CloseBegin
<1>6. CASE Flush
  BY <1>6, ZenonT(40) DEF Flush, FlushWrite, FlushAdd, FlushInstall, FlushPutBack, FlushDelete
<1>7. CASE Compact
  BY <1>7, ZenonT(40) DEF Compact, CompactSelect, CompactWrite, CompactAdd, CompactRemove, CompactSwap, CompactDelete
<1>8. CASE CloseEnd \/ Crash
  <2>1. Stop
    BY <1>8 DEF CloseEnd, Crash
  <2>2. up' = "down"
    BY <2>1 DEF Stop
  <2>3. wr'[w].pc = CASE wr[w].pc \in {"read", "put", "restore"} -> "lost"
                      [] wr[w].pc = "putok" -> "acked"
                      [] OTHER -> wr[w].pc
    BY <2>1, <1>t DEF Stop
  <2>4. wr[w].pc \in {"putok", "acked"}
    BY <2>3
  <2>. QED BY <2>2, <2>4, ZenonT(40)
<1>9. CASE Open \/ Replay
  BY <1>9, ZenonT(40) DEF Open, Replay
<1>10. CASE Load
  <2>1. wr' = wr /\ wal' = wal /\ pos' = pos /\ pos = Len(wal)
    BY <1>10, ZenonT(40) DEF Load, LogInv
  <2>. QED BY <2>1
<1>. QED
  BY <1>1, <1>2, <1>3, <1>4, <1>5, <1>6, <1>7, <1>8, <1>9, <1>10, ZenonT(40) DEF Next, Committer, Recover

\* A batch being committed stays what it is.
LEMMA BatchEffect ==
  ASSUME IMem, Next, NEW w \in batch'
  PROVE  \/ w \in batch /\ wr'[w].pc = wr[w].pc
         \/ \E i \in DOMAIN wal' : wal'[i].by = w /\ wal'[i].op = wr'[w].pc
<1>. USE DEF IMem
<1>t. /\ wr \in [Writer -> [pc : WriterPC, key : Key, items : SUBSET Version, prev : SUBSET Version]]
      /\ batch \subseteq Writer
  BY DEF TypeOK
<1>1. CASE Writers
  <2>1. PICK u \in Writer : (\E k \in Key : Read(u, k)) \/ (\E v \in Item : Put(u, v)) \/ Restore(u)
    BY <1>1 DEF Writers
  <2>2. wr[u].pc \in {"idle", "read", "putok"} /\ \A z \in Writer : z # u => wr'[z] = wr[z]
    BY <2>1, <1>t, ZenonT(40) DEF Read, Put, Restore, Write
  <2>3. batch' = batch
    BY <2>1 DEF Read, Put, Restore, Write
  <2>4. wr[w].pc \in {"put", "restore"}
    BY <2>3 DEF QueueInv
  <2>. QED BY <1>t, <2>2, <2>3, <2>4
<1>2. CASE CommitHalted \/ CommitFail
  <2>1. PICK ws \in Batches : Fail(Range(ws)) /\ batch' = batch
    BY <1>2, ZenonT(40) DEF CommitHalted, CommitFail
  <2>2. w \notin Range(ws)
    BY <2>1, TakeBatch, SMT DEF QueueInv
  <2>. QED BY <1>t, <2>1, <2>2, SMTT(40) DEF Fail
<1>3. CASE CommitWrite
  <2>1. PICK ws \in Batches : wal' = wal \o Entries(ws) /\ batch' = Range(ws) /\ wr' = wr
    BY <1>3 DEF CommitWrite, WriteBatch
  <2>2. /\ Len(Entries(ws)) \in Nat \ {0} /\ Len(Entries(ws)) \in 0..Len(Entries(ws))
        /\ Entries(ws) = SubSeq(Entries(ws), 1, Len(Entries(ws)))
    BY WholeBatch, SMT
  <2>. DEFINE n == Len(Entries(ws))
  <2>3. /\ DOMAIN wal' = 1..(Len(wal) + n) /\ Len(wal) \in Nat
        /\ \A i \in 1..n : i \in DOMAIN queue /\ wal'[Len(wal) + i] =
              NewEntry(wr[queue[i]].pc, wr[queue[i]].key, wr[queue[i]].items, queue[i])
    <3>1. wal' = wal \o SubSeq(Entries(ws), 1, n) /\ n \in 0..Len(Entries(ws))
      BY <2>1, <2>2
    <3>. QED BY <3>1, LogGrows, ZenonT(40)
  <2>4. PICK i \in 1..n : w = queue[i]
    <3>1. Len(Entries(ws)) = Len(ws)
      BY EntriesFacts, ZenonT(40)
    <3>2. PICK m \in 1..Len(queue) : Len(ws) = m /\ Range(ws) = {queue[j] : j \in 1..m}
      BY BatchFacts
    <3>. QED BY <2>1, <3>1, <3>2
  <2>5. Len(wal) + i \in DOMAIN wal'
    BY <2>2, <2>3, SMT
  <2>6. wal'[Len(wal) + i].by = w /\ wal'[Len(wal) + i].op = wr[w].pc
    <3>1. wal'[Len(wal) + i] =
            NewEntry(wr[queue[i]].pc, wr[queue[i]].key, wr[queue[i]].items, queue[i])
      BY <2>3
    <3>2. \A pc, k, items, u : NewEntry(pc, k, items, u).by = u /\ NewEntry(pc, k, items, u).op = pc
      BY DEF NewEntry
    <3>. QED BY <3>1, <3>2, <2>4, SMT
  <2>. QED BY <2>1, <2>5, <2>6, ZenonT(40)
<1>4. CASE Apply
  BY <1>4, ZenonT(40) DEF Apply
<1>5. CASE Swap
  BY <1>5, ZenonT(40) DEF Swap
<1>6. CASE Flush
  BY <1>6, ZenonT(40) DEF Flush, FlushWrite, FlushAdd, FlushInstall, FlushPutBack, FlushDelete
<1>7. CASE Compact
  BY <1>7, ZenonT(40) DEF Compact, CompactSelect, CompactWrite, CompactAdd, CompactRemove, CompactSwap, CompactDelete
<1>8. CASE CloseBegin \/ CloseEnd \/ Crash \/ Recover
  BY <1>8 DEF CloseBegin, CloseEnd, Crash, Stop, Recover, Open, Replay, Load
<1>. QED
  BY <1>1, <1>2, <1>3, <1>4, <1>5, <1>6, <1>7, <1>8, ZenonT(40) DEF Next, Committer

\* AnswersInv is preserved: commit answers only what it logged.
LEMMA AnswersStep == ASSUME IMem, AnswersInv, Next PROVE AnswersInv'
<1>. USE DEF IMem
<1>1. LogKept
  BY LogKeeps
<1>t. pos \in Nat /\ Len(wal) \in Nat /\ DOMAIN wal = 1..Len(wal)
  BY <1>1, ZenonT(40) DEF TypeOK, LogKept
<1>k. \A i \in DOMAIN wal : i \in DOMAIN wal' /\ wal'[i] = wal[i] /\ i \in Nat
  <2>1. Len(wal') \in Nat /\ Len(wal) <= Len(wal') /\ DOMAIN wal' = 1..Len(wal')
    BY <1>1 DEF LogKept
  <2>2. \A i \in DOMAIN wal : i \in DOMAIN wal' /\ i \in Nat
    BY <1>t, <2>1, SMT
  <2>. QED BY <1>1, <2>2, ZenonT(40) DEF LogKept
<1>2. ASSUME NEW w \in Writer, wr'[w].pc \in {"putok", "acked"}
      PROVE  \E i \in DOMAIN wal' : (up' = "up" => i <= pos') /\ wal'[i].by = w /\ wal'[i].op = "put"
  <2>1. CASE /\ wr[w].pc \in {"putok", "acked"}
             /\ up' = "up" => (up = "up" /\ pos' \in {pos, pos + 1}) \/ (pos' = Len(wal) /\ wal' = wal)
    <3>1. PICK i \in DOMAIN wal : (up = "up" => i <= pos) /\ wal[i].by = w /\ wal[i].op = "put"
      BY <2>1 DEF AnswersInv
    <3>2. up' = "up" => i <= pos'
      BY <1>t, <2>1, <3>1, SMT
    <3>. QED BY <1>k, <3>1, <3>2
  <2>2. CASE w \in batch /\ wr[w].pc = "put" /\ wal' = wal /\ pos' = Len(wal)
    <3>1. PICK i \in DOMAIN wal : wal[i].by = w /\ wal[i].op = "put"
      BY <2>2, SMT DEF AnswersInv
    <3>2. i <= pos'
      BY <1>t, <2>2, SMT
    <3>. QED BY <1>k, <3>1, <3>2
  <2>. QED BY <1>2, <2>1, <2>2, AnswerEffect
<1>3. ASSUME NEW w \in batch' PROVE \E i \in DOMAIN wal' : wal'[i].by = w /\ wal'[i].op = wr'[w].pc
  <2>1. CASE w \in batch /\ wr'[w].pc = wr[w].pc
    BY <1>k, <2>1, SMT DEF AnswersInv
  <2>. QED BY <2>1, BatchEffect
<1>. QED BY <1>2, <1>3, ZenonT(40) DEF AnswersInv

-----------------------------------------------------------------------------
\* A set of naturals with a member has a least one: the newest layer that has a version.
LEMMA LeastNat ==
  ASSUME NEW T \in SUBSET Nat, T # {}
  PROVE  \E m \in T : \A n \in T : m <= n
<1>1. PICK m \in T : \A n \in T : ~(<<n, m>> \in OpToRel(<, Nat))
  BY NatLessThanWellFounded, WFMin, ZenonT(40)
<1>2. \A n \in T : ~(n < m)
  BY <1>1, ZenonT(40) DEF OpToRel
<1>. QED
  BY <1>2, SMT

\* In a finite set of versions, each one is covered by one that no other
\* supersedes.
LEMMA MaximalAbove ==
  ASSUME NEW all \in SUBSET Version, IsFiniteSet(all), NEW x \in all
  PROVE  \E y \in all : Leq(x, y) /\ \A z \in all : Compare(y, z) # "Before"
<1>. DEFINE Above(y) == {z \in all : Leq(y, z) /\ ~Leq(z, y)}
            U == {y \in all : Leq(x, y)}
            T == {Cardinality(Above(y)) : y \in U}
<1>1. \A y \in all : IsFiniteSet(Above(y)) /\ Cardinality(Above(y)) \in Nat
  BY FS_Subset, FS_CardinalityType, SMT
<1>2. T \in SUBSET Nat /\ T # {}
  BY <1>1, LeqReflexive, ZenonT(40)
<1>3. PICK m \in T : \A n \in T : m <= n
  <2>. HIDE DEF T
  <2>. QED BY <1>2, LeastNat, SMT
<1>4. PICK y \in U : m = Cardinality(Above(y))
  BY SMT
<1>5. ASSUME NEW z \in all, Leq(y, z), ~Leq(z, y) PROVE FALSE
  <2>1. z \in U
    BY <1>5, LeqTransitive, SMT
  <2>2. Above(z) \subseteq Above(y)
    BY <1>5, LeqTransitive, SMT
  <2>3. z \in Above(y) /\ z \notin Above(z)
    BY <1>5, SMT
  <2>4. Cardinality(Above(z)) <= Cardinality(Above(y)) /\ Cardinality(Above(z)) # Cardinality(Above(y))
    <3>. HIDE DEF Above
    <3>. QED BY <1>1, <2>2, <2>3, FS_Subset, SMT
  <2>5. Cardinality(Above(z)) \in T
    BY <2>1, ZenonT(40)
  <2>6. Cardinality(Above(z)) \in Nat /\ Cardinality(Above(y)) \in Nat
    BY <1>1, SMT
  <2>. QED
    <3>. HIDE DEF Above, T, U
    <3>. QED BY <2>4, <2>5, <2>6, <1>3, <1>4, SMT
<1>. QED
  BY <1>4, <1>5, CompareLeq, SMT

\* The layers a fold runs over: finitely many, each a finite sibling set.
Layers == {L \in Seq(SUBSET Version) :
             \A i \in DOMAIN L : IsFiniteSet(L[i]) /\ Siblings(L[i])}

\* Folding layers invents no version, and gives a finite set.
LEMMA MergeAllFinite ==
  ASSUME NEW L \in Layers
  PROVE  /\ IsFiniteSet(UNION {L[i] : i \in DOMAIN L})
         /\ IsFiniteSet(MergeAll(L))
         /\ MergeAll(L) \in SUBSET Version
<1>. DEFINE R == {L[i] : i \in DOMAIN L}
<1>1. DOMAIN L = 1..Len(L) /\ Len(L) \in Nat
  BY SMT DEF Layers
<1>2. IsFiniteSet(DOMAIN L)
  BY <1>1, FS_Interval, SMT
<1>3. L \in Surjection(DOMAIN L, R)
  BY SMT DEF Layers, Surjection
<1>4. IsFiniteSet(R)
  <2>. HIDE DEF R
  <2>. QED BY <1>2, <1>3, FS_Surjection, SMT
<1>5. \A S \in R : IsFiniteSet(S)
  BY SMT DEF Layers
<1>6. IsFiniteSet(UNION R)
  <2>. HIDE DEF R
  <2>. QED BY <1>4, <1>5, FS_UNION, SMT
<1>7. MergeAll(L) \in SUBSET (UNION R)
  BY SMT DEF MergeAll
<1>8. UNION R \in SUBSET Version
  BY SMT DEF Layers
<1>. QED
  BY <1>6, <1>7, <1>8, FS_Subset, SMT

\* What GetAll answers and compaction writes loses no version of a layer:
\* each is there, or covered by one that is.
THEOREM MergeAllCovers ==
  ASSUME NEW L \in Layers, NEW i \in DOMAIN L, NEW x \in L[i]
  PROVE  Covers(MergeAll(L), x)
<1>. DEFINE all == UNION {L[h] : h \in DOMAIN L}
<1>1. all \in SUBSET Version /\ x \in all
  BY SMT DEF Layers
<1>2. PICK y \in all : Leq(x, y) /\ \A z \in all : Compare(y, z) # "Before"
  BY <1>1, MergeAllFinite, MaximalAbove, ZenonT(40)
<1>. DEFINE T == {h \in DOMAIN L : \E z \in L[h] : Leq(y, z)}
<1>3. DOMAIN L = 1..Len(L) /\ Len(L) \in Nat
  BY SMT DEF Layers
<1>4. T \in SUBSET Nat /\ T # {}
  BY <1>3, <1>1, <1>2, LeqReflexive, SMT
<1>5. PICK m \in T : \A h \in T : m <= h
  <2>. HIDE DEF T
  <2>. QED BY <1>4, LeastNat, SMT
<1>6. PICK z \in L[m] : Leq(y, z)
  BY SMT
<1>7. z \in all /\ z \in Version /\ y \in Version /\ x \in Version
  BY <1>1, SMT
<1>8. Leq(z, y)
  BY <1>2, <1>6, <1>7, CompareLeq, SMT
<1>9. ASSUME NEW u \in all PROVE Compare(z, u) # "Before"
  <2>1. u \in Version
    BY <1>1, SMT
  <2>2. Compare(z, u) = "Before" => Leq(y, u) /\ ~Leq(u, y)
    BY <2>1, <1>6, <1>7, <1>8, CompareLeq, LeqTransitive, SMT
  <2>. QED
    BY <2>1, <2>2, <1>2, <1>7, CompareLeq, SMT
<1>10. ASSUME NEW h \in 1..(m - 1), NEW u \in L[h] PROVE Compare(z, u) # "Equal"
  <2>1. m \in Nat /\ h \in DOMAIN L /\ h < m
    BY <1>3, SMT
  <2>2. u \in Version
    BY <2>1, <1>1, SMT
  <2>3. h \notin T
    BY <2>1, <1>5, <1>4, SMT
  <2>4. ~Leq(y, u)
    BY <2>1, <2>3, SMT
  <2>. QED
    BY <2>2, <2>4, <1>6, <1>7, CompareLeq, LeqTransitive, SMT
<1>11. m \in DOMAIN L
  BY SMT
<1>12. z \in MergeAll(L)
  <2>. HIDE DEF T
  <2>. QED BY <1>6, <1>9, <1>10, <1>11, SMT DEF MergeAll
<1>. QED
  BY <1>2, <1>6, <1>7, <1>12, LeqTransitive, SMT DEF Covers

\* What GetAll answers and compaction writes is a sibling list.
THEOREM MergeAllSiblings ==
  ASSUME NEW L \in Layers
  PROVE  Siblings(MergeAll(L))
<1>. DEFINE all == UNION {L[h] : h \in DOMAIN L}
            Kept(i) == {x \in L[i] :
                    /\ \A y \in all : Compare(x, y) # "Before"
                    /\ \A h \in 1..(i - 1) : \A y \in L[h] : Compare(x, y) # "Equal"}
<1>1. MergeAll(L) = UNION {Kept(i) : i \in DOMAIN L}
  BY SMT DEF MergeAll
<1>2. all \in SUBSET Version /\ DOMAIN L = 1..Len(L) /\ Len(L) \in Nat
  BY SMT DEF Layers
<1>3. ASSUME NEW i \in DOMAIN L, NEW j \in DOMAIN L, NEW x \in Kept(i), NEW y \in Kept(j), x # y
      PROVE  Compare(x, y) = "Concurrent"
  <2>1. x \in Version /\ y \in Version /\ x \in all /\ y \in all
    BY <1>2, SMT
  <2>2. Compare(x, y) # "Before" /\ Compare(y, x) # "Before"
    BY <2>1, SMT
  <2>3. CASE i = j
    BY <2>3, <1>3, SMT DEF Layers, Siblings
  <2>4. CASE i < j
    <3>1. Compare(y, x) # "Equal"
      BY <2>4, <1>2, SMT
    <3>. QED
      BY <3>1, <2>1, <2>2, CompareLeq, SMT
  <2>5. CASE j < i
    <3>1. Compare(x, y) # "Equal"
      BY <2>5, <1>2, SMT
    <3>. QED
      BY <3>1, <2>1, <2>2, CompareLeq, SMT
  <2>. QED
    BY <2>3, <2>4, <2>5, <1>2, SMT
<1>. QED
  <2>. HIDE DEF Kept
  <2>. QED BY <1>1, <1>3, SMT DEF Siblings

-----------------------------------------------------------------------------
\* An empty engine satisfies IDisk.
LEMMA InitDisk == Init => IDisk
<1>. SUFFICES ASSUME Init PROVE IDisk
  OBVIOUS
<1>1. /\ wal = <<>> /\ tail = NoTail /\ up = "up" /\ pos = 0 /\ flpc = "none" /\ comp.pc = "idle"
      /\ sstables = <<>> /\ batch = {} /\ \A w \in Writer : wr[w].pc = "idle"
  BY DEF Init, LogInit, ManifestInit, NoRun, IdleWriter
<1>2. DOMAIN wal = {} /\ DOMAIN sstables = {} /\ 1..pos = {}
  BY <1>1, SMT
<1>. QED BY <1>1, <1>2, ZenonT(40) DEF IDisk, ManifestInv, SSTablesLive, DiskCover, FlushCover, MemCover, ReplayCover,
            AnswersInv


-----------------------------------------------------------------------------
\* Sibling sets.
LEMMA EmptySiblings == SiblingSet({})
BY FS_EmptySet DEF SiblingSet, Siblings

\* The one version a Put writes is a sibling list.
LEMMA ItemSiblings == ASSUME NEW v \in Item PROVE SiblingSet({v})
BY ConstantsAssumption, FS_Singleton, ZenonT(40) DEF SiblingSet, Siblings

\* MergeSiblings of two sibling lists is one.
LEMMA MergedSiblings ==
  ASSUME NEW a, NEW b, SiblingSet(a), SiblingSet(b)
  PROVE  SiblingSet(MergeSiblings(a, b))
<1>1. IsFiniteSet(a \cup b)
  BY FS_Union, ZenonT(40) DEF SiblingSet
<1>2. IsFiniteSet(MergeSiblings(a, b))
  BY <1>1, MergeWithin, FS_Subset, SMT
<1>. QED
  BY <1>2, MergeWithin, MergeKeepsSiblings DEF SiblingSet

\* The lists GetAll and compaction fold over.
LEMMA FileLayers ==
  ASSUME NEW ids \in Seq(SSTableID), NEW k \in Key, NEW fs,
         \A i \in DOMAIN ids : GoodTable(fs[ids[i]])
  PROVE  [i \in DOMAIN ids |-> fs[ids[i]][k]] \in Layers
<1>1. DOMAIN ids = 1..Len(ids) /\ Len(ids) \in Nat
  BY SMT
<1>2. \A i \in DOMAIN ids : SiblingSet(fs[ids[i]][k])
  BY DEF GoodTable
<1>3. [i \in DOMAIN ids |-> fs[ids[i]][k]] \in Seq(SUBSET Version)
  BY <1>1, <1>2, SMT DEF SiblingSet
<1>. QED
  BY <1>1, <1>2, <1>3 DEF Layers, SiblingSet

\* The layers GetAll folds are sibling lists.
LEMMA AllLayers ==
  ASSUME NEW ids \in Seq(SSTableID), NEW k \in Key, NEW t, NEW u, NEW fs,
         GoodTable(t), GoodTable(u), \A i \in DOMAIN ids : GoodTable(fs[ids[i]])
  PROVE  <<t[k], u[k]>> \o [i \in DOMAIN ids |-> fs[ids[i]][k]] \in Layers
<1>. DEFINE F == [i \in DOMAIN ids |-> fs[ids[i]][k]]
            T == <<t[k], u[k]>>
<1>1. F \in Layers
  BY FileLayers
<1>2. SiblingSet(t[k]) /\ SiblingSet(u[k])
  BY DEF GoodTable
<1>3. T \in Seq(SUBSET Version) /\ Len(T) = 2 /\ F \in Seq(SUBSET Version)
  BY <1>1, <1>2, SMT DEF Layers, SiblingSet
<1>4. \A i \in 1..2 : SiblingSet(T[i])
  BY <1>2, SMT
<1>5. \A i \in 1..Len(F) : SiblingSet(F[i])
  BY <1>1, SMT DEF Layers, SiblingSet
<1>6. T \o F \in Seq(SUBSET Version) /\ DOMAIN (T \o F) = 1..(2 + Len(F))
  <2>. HIDE DEF T, F
  <2>1. T \in Seq(SUBSET Version) /\ F \in Seq(SUBSET Version)
    BY <1>3
  <2>2. T \o F \in Seq(SUBSET Version) /\ DOMAIN (T \o F) = 1..(Len(T) + Len(F))
    BY <2>1, ConcatDomain, ZenonT(40)
  <2>. QED BY <2>2, <1>3
<1>7. \A i \in DOMAIN (T \o F) : SiblingSet((T \o F)[i])
  <2>. HIDE DEF T, F
  <2>. QED BY <1>3, <1>4, <1>5, <1>6, ConcatDomain, SMT
<1>. QED
  BY <1>6, <1>7, ZenonT(40) DEF Layers, SiblingSet

\* What GetAll answers, and what a compaction writes, are sibling lists too,
\* and cover every version of every layer.
LEMMA GetAllGood ==
  ASSUME TypeOK, SiblingsInv, FilesInv, NEW k \in Key
  PROVE  /\ SiblingSet(GetAll(k))
         /\ \A x \in active[k] \cup flushing[k] : Covers(GetAll(k), x)
         /\ \A i \in DOMAIN sstables : \A x \in files[sstables[i]][k] : Covers(GetAll(k), x)
<1>. DEFINE F == [i \in DOMAIN sstables |-> files[sstables[i]][k]]
            T == <<active[k], flushing[k]>>
            L == T \o F
<1>1. /\ sstables \in Seq(SSTableID) /\ GoodTable(active) /\ GoodTable(flushing)
      /\ \A i \in DOMAIN sstables : GoodTable(files[sstables[i]])
  BY DEF TypeOK, SiblingsInv, FilesInv
<1>2. L \in Layers
  BY <1>1, AllLayers, ZenonT(40)
<1>3. GetAll(k) = MergeAll(L)
  BY DEF GetAll, MergeLayers
<1>4. SiblingSet(GetAll(k))
  BY <1>2, <1>3, MergeAllFinite, MergeAllSiblings, ZenonT(40) DEF SiblingSet
<1>5. T \in Seq(SUBSET Version) /\ F \in Seq(SUBSET Version)
  <2>1. active[k] \in SUBSET Version /\ flushing[k] \in SUBSET Version
    BY <1>1 DEF GoodTable
  <2>2. F \in Layers
    BY <1>1, FileLayers
  <2>. QED BY <2>1, <2>2, SMT DEF Layers
<1>6. Len(F) \in Nat /\ Len(T) = 2 /\ Len(F) = Len(sstables)
  BY <1>1, SeqFacts, SMT
<1>7. DOMAIN L = 1..(Len(T) + Len(F)) /\ (\A i \in 1..Len(T) : L[i] = T[i])
        /\ (\A i \in (Len(T) + 1)..(Len(T) + Len(F)) : L[i] = F[i - Len(T)])
  <2>. HIDE DEF T, F
  <2>1. T \in Seq(SUBSET Version) /\ F \in Seq(SUBSET Version)
    BY <1>5
  <2>. QED BY <2>1, ConcatDomain, ZenonT(40)
<1>8. \A i \in DOMAIN L : \A x \in L[i] : Covers(GetAll(k), x)
  <2>. HIDE DEF L
  <2>. QED BY <1>2, <1>3, MergeAllCovers
<1>9. ASSUME NEW i \in DOMAIN sstables PROVE i + 2 \in DOMAIN L /\ L[i + 2] = files[sstables[i]][k]
  <2>1. i \in 1..Len(F) /\ F[i] = files[sstables[i]][k]
    BY <1>1, SMT
  <2>. HIDE DEF T, F, L
  <2>. QED BY <2>1, <1>6, <1>7, SMT
<1>10. 1 \in DOMAIN L /\ 2 \in DOMAIN L /\ L[1] = active[k] /\ L[2] = flushing[k]
  <2>1. T[1] = active[k] /\ T[2] = flushing[k]
    OBVIOUS
  <2>. HIDE DEF T, F, L
  <2>. QED BY <2>1, <1>6, <1>7, SMT
<1>. QED
  <2>. HIDE DEF L
  <2>. QED BY <1>4, <1>8, <1>9, <1>10

\* compaction.Merge of sibling lists gives sibling lists.
LEMMA RunGood ==
  ASSUME TypeOK, SiblingsInv, FilesInv, comp.pc = "write"
  PROVE  /\ \A i \in DOMAIN comp.run : comp.run[i] \in DOMAIN files
         /\ GoodTable(Merge(comp.run))
         /\ \A i \in DOMAIN comp.run : \A k \in Key : \A x \in files[comp.run[i]][k] :
              Covers(Merge(comp.run)[k], x)
<1>1. comp.run \in Seq(SSTableID) /\ sstables \in Seq(SSTableID)
  BY DEF TypeOK
<1>2. PICK h \in DOMAIN sstables : RunAt(h)
  BY DEF FilesInv
<1>3. ASSUME NEW i \in DOMAIN comp.run PROVE \E j \in DOMAIN sstables : comp.run[i] = sstables[j]
  <2>1. /\ Len(comp.run) \in Nat /\ DOMAIN comp.run = 1..Len(comp.run)
        /\ Len(sstables) \in Nat /\ DOMAIN sstables = 1..Len(sstables)
    BY <1>1, SeqFacts
  <2>2. h + i - 1 \in DOMAIN sstables
    BY <2>1, <1>2, SMT DEF RunAt
  <2>3. comp.run[i] = sstables[h + i - 1]
    BY <1>2 DEF RunAt
  <2>. QED BY <2>2, <2>3
<1>4. \A i \in DOMAIN comp.run : comp.run[i] \in DOMAIN files /\ GoodTable(files[comp.run[i]])
  BY <1>3 DEF FilesInv, SiblingsInv
<1>5. ASSUME NEW k \in Key
      PROVE  /\ SiblingSet(Merge(comp.run)[k])
             /\ \A i \in DOMAIN comp.run : \A x \in files[comp.run[i]][k] :
                  Covers(Merge(comp.run)[k], x)
  <2>. DEFINE L == [i \in DOMAIN comp.run |-> files[comp.run[i]][k]]
  <2>1. L \in Layers
    BY <1>1, <1>4, FileLayers, ZenonT(40)
  <2>2. Merge(comp.run)[k] = MergeAll(L)
    BY DEF Merge
  <2>3. DOMAIN L = DOMAIN comp.run /\ \A i \in DOMAIN comp.run : L[i] = files[comp.run[i]][k]
    OBVIOUS
  <2>. HIDE DEF L
  <2>4. SiblingSet(MergeAll(L))
    BY <2>1, MergeAllFinite, MergeAllSiblings, ZenonT(40) DEF SiblingSet
  <2>5. \A i \in DOMAIN L : \A x \in L[i] : Covers(MergeAll(L), x)
    BY <2>1, MergeAllCovers
  <2>. QED
    BY <2>2, <2>3, <2>4, <2>5
<1>. QED
  BY <1>4, <1>5 DEF GoodTable, Merge, SiblingSet

-----------------------------------------------------------------------------
\* What the steps need of the merges, in every state IMem allows.
LEMMA MergesHold == ASSUME IMem PROVE MergeFacts
<1>1. TypeOK /\ SiblingsInv /\ FilesInv
  BY DEF IMem
<1>2. SiblingSet({}) /\ \A v \in Item : SiblingSet({v})
  BY EmptySiblings, ItemSiblings
<1>3. \A a, b \in SUBSET Version : SiblingSet(a) /\ SiblingSet(b) => SiblingSet(MergeSiblings(a, b))
  BY MergedSiblings
<1>4. \A k \in Key : SiblingSet(GetAll(k))
  BY <1>1, GetAllGood
<1>5. comp.pc = "write" => /\ GoodTable(Merge(comp.run))
                          /\ \A i \in DOMAIN comp.run : \A k \in Key : \A x \in files[comp.run[i]][k] :
                               Covers(Merge(comp.run)[k], x)
  BY <1>1, RunGood
<1>. QED
  BY <1>2, <1>3, <1>4, <1>5 DEF MergeFacts

\* An empty engine satisfies IMem.
LEMMA InitMem == Init => IMem
<1>. SUFFICES ASSUME Init PROVE IMem
  OBVIOUS
<1>1. GoodTable(EmptyTable) /\ EmptyTable \in Table
  BY EmptySiblings, EmptyIsTable DEF GoodTable, EmptyTable
<1>2. IdleWriter \in [pc : WriterPC, key : Key, items : SUBSET Version, prev : SUBSET Version]
  BY ConstantsAssumption DEF IdleWriter, WriterPC
<1>f. DOMAIN files = {}
  BY DEF Init
<1>3. TypeOK
  <2>1. /\ tail.op \in {"NONE", "BAD", "REMOVE"} /\ tail.ids \in Seq(SSTableID)
        /\ live \subseteq SSTableID /\ bad \in BOOLEAN
    <3>1. tail.op = "NONE" /\ tail.ids = <<>> /\ live = {} /\ bad = FALSE
      BY DEF Init, ManifestInit, NoTail
    <3>2. <<>> \in Seq(SSTableID)
      BY SMT
    <3>. QED BY <3>1, <3>2, ZenonT(40)
  <2>2. comp \in [pc : {"idle", "write", "add", "remove", "swap", "delete"},
                  run : Seq(SSTableID), id : SSTableID]
    BY SMT DEF Init, NoRun, SSTableID
  <2>3. wr \in [Writer -> [pc : WriterPC, key : Key, items : SUBSET Version,
                         prev : SUBSET Version]]
    BY <1>2 DEF Init
  <2>4. wal \in Seq(Entry) /\ seq \in Nat /\ gone \in Nat
    BY SMT DEF Init, LogInit
  <2>. QED
    <3>1. active \in Table /\ flushing \in Table
      BY <1>1 DEF Init
    <3>2. sstables \in Seq(SSTableID) /\ queue \in Seq(Writer) /\ flid \in SSTableID
      BY SMT DEF Init, SSTableID
    <3>. QED
      BY <3>1, <3>2, <1>f, <2>1, <2>2, <2>3, <2>4, ZenonT(40) DEF Init, TypeOK
<1>4. SiblingsInv
  <2>1. \A w \in Writer : wr[w].items = {} /\ wr[w].prev = {}
    BY DEF Init, IdleWriter
  <2>2. GoodTable(active) /\ GoodTable(flushing)
    BY <1>1, ZenonT(40) DEF Init
  <2>3. \A i \in DOMAIN wal : FALSE
    BY SMT DEF Init, LogInit
  <2>4. \A w \in Writer : SiblingSet(wr[w].items) /\ SiblingSet(wr[w].prev)
    BY <2>1, EmptySiblings
  <2>. QED
    BY <1>f, <2>2, <2>3, <2>4 DEF SiblingsInv
<1>5. LogInv /\ CommitInv /\ QueueInv /\ FilesInv
  BY SMT DEF Init, LogInit, LogInv, CommitInv, QueueInv, FilesInv, NoRun
<1>. QED
  BY <1>3, <1>4, <1>5 DEF IMem

\* IMem is inductive.
LEMMA MemStep == IMem /\ [Next]_vars => IMem'
<1>1. ASSUME IMem, Next PROVE TypeOK'
  BY <1>1, MergesHold, TypeWriters, TypeCommitter, TypeFlush, TypeCompact, TypeRest DEF Next
<1>2. ASSUME IMem, Next PROVE IMem'
  BY <1>1, <1>2, MergesHold, SiblingsStep, LogStep, CommitStep, QueueStep, FilesStep DEF IMem
<1>3. ASSUME IMem, UNCHANGED vars PROVE IMem'
  <2>. USE <1>3 DEF vars
  <2>1. TypeOK'
    BY TypeFrame, TypeJoin DEF IMem
  <2>2. SiblingsInv'
    BY DEF IMem, SiblingsInv
  <2>3. LogInv' /\ CommitInv'
    BY DEF IMem, LogInv, CommitInv
  <2>4. QueueInv'
    BY DEF IMem, QueueInv
  <2>5. FilesInv'
    BY DEF IMem, FilesInv, RunAt
  <2>. QED BY <2>1, <2>2, <2>3, <2>4, <2>5 DEF IMem
<1>. QED
  BY <1>2, <1>3

\* IDisk is inductive, given IMem and no torn manifest line.
LEMMA DiskInvStep ==
  ASSUME "torn" \notin Faults
  PROVE  IMem /\ IDisk /\ [Next]_vars => IMem' /\ IDisk'
<1>1. ASSUME IMem, IDisk, [Next]_vars PROVE IMem'
  BY <1>1, MemStep
<1>2. ASSUME IMem, IDisk, Next PROVE IDisk'
  <2>0. IMem'
    BY <1>1, <1>2
  <2>1. ManifestInv'
    BY <1>2, ManifestStep DEF IDisk
  <2>2. SSTablesLive'
    BY <1>2, <2>0, SSTablesLiveStep DEF IDisk
  <2>3. DiskCover'
    BY <1>2, DiskStep DEF IDisk
  <2>4. FlushCover'
    BY <1>2, FlushCoverStep DEF IDisk
  <2>5. MemCover'
    BY <1>2, MemCoverStep DEF IDisk
  <2>6. ReplayCover'
    <3>1. LiveKept
      BY <1>2, LiveKeeps DEF IDisk
    <3>. QED BY <1>2, <3>1, ReplayCoverStep DEF IDisk
  <2>7. AnswersInv'
    BY <1>2, AnswersStep DEF IDisk
  <2>. QED BY <2>1, <2>2, <2>3, <2>4, <2>5, <2>6, <2>7 DEF IDisk
<1>3. ASSUME IDisk, UNCHANGED vars PROVE IDisk'
  <2>. USE <1>3 DEF vars
  <2>1. ManifestInv' /\ AnswersInv'
    BY SMT DEF IDisk, ManifestInv, AnswersInv
  <2>2. SSTablesLive'
    BY DEF IDisk, SSTablesLive, InLive, LiveFiles
  <2>3. DiskCover'
    BY DEF IDisk, DiskCover, RestoredBy, InLive, LiveFiles
  <2>4. FlushCover'
    BY DEF IDisk, FlushCover, RestoredBy, InSSTable
  <2>5. MemCover'
    BY DEF IDisk, MemCover, RestoredBy, InSSTable
  <2>6. ReplayCover'
    BY DEF IDisk, ReplayCover, RestoredBy, InLive, LiveFiles
  <2>. QED BY <2>1, <2>2, <2>3, <2>4, <2>5, <2>6 DEF IDisk
<1>. QED BY <1>1, <1>2, <1>3

-----------------------------------------------------------------------------
\* Every variable always has its type.
THEOREM TypeCorrect == Spec => []TypeOK
<1>1. IMem => TypeOK
  BY DEF IMem
<1>. QED
  BY <1>1, InitMem, MemStep, PTL DEF Spec

\* No reader and no compaction meets an SSTable whose file is gone, and the
\* run a compaction replaces is always where it was, whatever I/O fails.
THEOREM FilesInPlace == Spec => []SSTablesInPlace
<1>1. IMem => SSTablesInPlace
  BY DEF IMem, FilesInv, SSTablesInPlace, Range
<1>. QED
  BY <1>1, InitMem, MemStep, PTL DEF Spec

(***************************************************************************)
(* Nothing logged and not rolled back is ever missing from the disk: for   *)
(* any number of writers, keys, flushes, compactions, failures and crashes *)
(* in any order, as long as no manifest line is left torn (the exception   *)
(* is real: see the run that tears one).                                   *)
(***************************************************************************)
THEOREM LoggedIsRecoverable ==
  ASSUME "torn" \notin Faults
  PROVE  Spec => []Recoverable
<1>1. Init => IMem /\ IDisk
  BY InitMem, InitDisk
<1>2. IMem /\ IDisk /\ [Next]_vars => IMem' /\ IDisk'
  BY DiskInvStep
<1>3. IMem /\ IDisk => Recoverable
  <2>. SUFFICES ASSUME IMem, IDisk, NEW i \in DOMAIN wal, ~RestoredBy(i, Len(wal)), ~(wal[i].seg > gone)
                PROVE  \A x \in wal[i].items : InLiveSSTable(wal[i].key, x)
    BY DEF Recoverable
  <2>1. wal[i].seg <= gone
    <3>1. wal[i] \in Entry
      BY SMT DEF IMem, TypeOK
    <3>2. wal[i].seg \in Nat /\ gone \in Nat
      BY <3>1 DEF IMem, TypeOK, Entry
    <3>. QED BY <3>2, SMT
  <2>2. \A x \in wal[i].items : InLive(wal[i].key, x)
    BY <2>1 DEF IDisk, DiskCover
  <2>. QED BY <2>2 DEF InLive, LiveFiles, InLiveSSTable
<1>. QED
  BY <1>1, <1>2, <1>3, PTL DEF Spec

(***************************************************************************)
(* A Put the engine answered with nil is always visible to GetAll while    *)
(* the engine is up, itself or under a version that supersedes it, until a *)
(* Restore of its key: the durability promise the coordinator's quorum     *)
(* counts on, again for any parameters and any failures but a torn line.   *)
(***************************************************************************)
THEOREM AnsweredIsVisible ==
  ASSUME "torn" \notin Faults
  PROVE  Spec => []AckedVisible
<1>1. Init => IMem /\ IDisk
  BY InitMem, InitDisk
<1>2. IMem /\ IDisk /\ [Next]_vars => IMem' /\ IDisk'
  BY DiskInvStep
<1>3. IMem /\ IDisk => AckedVisible
  <2>. SUFFICES ASSUME IMem, IDisk, up = "up", NEW w \in Writer, wr[w].pc \in {"putok", "acked"}
                PROVE  \E i \in 1..pos :
                         /\ wal[i].by = w /\ wal[i].op = "put"
                         /\ \/ RestoredBy(i, pos)
                            \/ \A x \in wal[i].items : Covers(GetAll(wal[i].key), x)
    BY DEF AckedVisible
  <2>1. PICK i \in DOMAIN wal : i <= pos /\ wal[i].by = w /\ wal[i].op = "put"
    BY DEF IDisk, AnswersInv
  <2>2. i \in 1..pos
    <3>1. DOMAIN wal = 1..Len(wal) /\ Len(wal) \in Nat /\ pos \in Nat
      BY SeqFacts DEF IMem, TypeOK
    <3>. QED BY <2>1, <3>1, SMT
  <2>3. wal[i].items \in SUBSET Version /\ wal[i].key \in Key
    BY <2>1, Versions
  <2>. DEFINE k == wal[i].key
  <2>4. /\ GetAll(k) \in SUBSET Version
        /\ \A y \in active[k] \cup flushing[k] : Covers(GetAll(k), y)
        /\ \A h \in DOMAIN sstables : \A y \in files[sstables[h]][k] : Covers(GetAll(k), y)
    BY <2>3, GetAllGood DEF IMem, SiblingSet
  <2>5. ASSUME NEW x \in wal[i].items,
               Covers(active[k], x) \/ Covers(flushing[k], x) \/ InSSTable(k, x)
        PROVE  Covers(GetAll(k), x)
    <3>. HIDE DEF k
    <3>1. k \in Key /\ x \in Version
      BY <2>3 DEF k
    <3>2. CASE Covers(active[k], x)
      BY <2>4, <3>1, <3>2, Versions, CoversTransitive
    <3>3. CASE Covers(flushing[k], x)
      BY <2>4, <3>1, <3>3, Versions, CoversTransitive
    <3>4. CASE InSSTable(k, x)
      <4>1. PICK h \in DOMAIN sstables : Covers(files[sstables[h]][k], x)
        BY <3>4 DEF InSSTable
      <4>2. sstables[h] \in DOMAIN files
        BY DEF IMem, FilesInv
      <4>3. files[sstables[h]][k] \in SUBSET Version
        BY <3>1, <4>2, Versions
      <4>. QED BY <2>4, <3>1, <4>1, <4>3, CoversTransitive
    <3>. QED BY <2>5, <3>2, <3>3, <3>4
  <2>6. \/ RestoredBy(i, pos)
        \/ \A x \in wal[i].items : \/ Covers(active[k], x)
                                   \/ Covers(flushing[k], x)
                                   \/ InSSTable(k, x)
    BY <2>2 DEF IDisk, MemCover
  <2>. QED BY <2>1, <2>2, <2>5, <2>6
<1>. QED
  BY <1>1, <1>2, <1>3, PTL DEF Spec

-----------------------------------------------------------------------------
\* A manifest write whose error means that nothing was written.
LEMMA CleanEffect ==
  ASSUME "torn" \notin Faults, "sync" \notin Faults, NEW line, WriteLineFails(line), ~bad
  PROVE  live' = live /\ ~bad'
BY SMT DEF WriteLineFails

\* A line the engine writes after complete lines only is well-formed.
LEMMA WellFormed ==
  ASSUME tail = NoTail, NEW line, WriteLine(line), line.op # "BAD", ~bad
  PROVE  ~bad'
<1>1. Glue(tail, line) = line
  BY DEF Glue, NoTail
<1>. QED BY <1>1 DEF WriteLine, ApplyLine

LEMMA OpenStep ==
  ASSUME "torn" \notin Faults, "sync" \notin Faults, IMem, ManifestInv, OpenInv, Next
  PROVE  OpenInv'
<1>a. ASSUME UNCHANGED <<live, bad, flpc, flid, comp, files>>, up' # "failed" PROVE OpenInv'
  BY <1>a DEF OpenInv
<1>0. /\ tail = NoTail
      /\ flpc = "add" => flid \in DOMAIN files /\ (comp.pc = "add" => comp.id # flid)
      /\ comp.pc = "add" => comp.id \in DOMAIN files
  BY DEF ManifestInv, IMem, FilesInv
<1>1. CASE Writers \/ CommitHalted \/ CommitWrite \/ CommitFail \/ Apply
  <2>1. UNCHANGED <<live, bad, flpc, flid, comp, files, up>>
    BY <1>1, ZenonT(40) DEF Writers, Read, Put, Restore, Write, CommitHalted, CommitWrite, CommitFail, Apply
  <2>. QED BY <1>a, <2>1 DEF OpenInv
<1>2. CASE Swap \/ FlushInstall \/ FlushPutBack \/ FlushDelete
  <2>1. UNCHANGED <<live, bad, comp, files, up>>
    BY <1>2 DEF Swap, FlushInstall, FlushPutBack, FlushDelete
  <2>2. flpc' = "add" => flpc = "add" /\ flid' = flid
    BY <1>2 DEF Swap, FlushInstall, FlushPutBack, FlushDelete
  <2>. QED BY <2>1, <2>2 DEF OpenInv
<1>3. CASE FlushWrite
  <2>1. UNCHANGED <<live, bad, comp, up>>
    BY <1>3 DEF FlushWrite
  <2>2. DOMAIN files \subseteq DOMAIN files'
    BY <1>3, FilesEffect DEF FlushWrite
  <2>3. flpc' = "add" => tick' = tick + 1 /\ flid' = <<tick', 0>>
    BY <1>3 DEF FlushWrite
  <2>4. ASSUME flpc' = "add" PROVE flid' \notin DOMAIN files
    <3>1. SUFFICES ASSUME flid' \in DOMAIN files PROVE FALSE
      OBVIOUS
    <3>2. flid'[1] <= tick /\ tick \in Nat
      BY <3>1 DEF IMem, FilesInv, TypeOK
    <3>3. flid'[1] = tick + 1
      BY <2>3, <2>4, SMT
    <3>. QED BY <3>2, <3>3, SMT
  <2>. QED BY <2>1, <2>2, <2>4 DEF OpenInv
<1>4. CASE FlushAdd
  <2>1. UNCHANGED <<flid, comp, files, up>> /\ flpc = "add" /\ flpc' # "add"
    BY <1>4 DEF FlushAdd
  <2>2. WriteLine(AddLine(flid)) \/ (live' = live /\ ~bad')
    BY <1>4, CleanEffect DEF FlushAdd, OpenInv
  <2>3. ~bad' /\ (live' = live \/ live' = live \cup {flid})
    <3>1. AddLine(flid).op # "BAD" /\ ~bad
      BY DEF AddLine, OpenInv
    <3>. QED BY <1>0, <2>2, <3>1, AddEffect, WellFormed
  <2>4. comp.pc = "add" => comp.id # flid
    BY <1>0, <2>1
  <2>5. live' \subseteq DOMAIN files
    <3>1. live \subseteq DOMAIN files /\ flid \in DOMAIN files
      BY <1>0, <2>1 DEF OpenInv
    <3>. QED BY <2>3, <3>1, SMT
  <2>. QED BY <2>1, <2>3, <2>4, <2>5 DEF OpenInv
<1>5. CASE CompactSelect \/ CompactSwap
  <2>1. UNCHANGED <<live, bad, flpc, flid, files, up>> /\ comp'.pc # "add"
    <3>1. UNCHANGED <<live, bad, flpc, flid, files, up>>
      BY <1>5 DEF CompactSelect, CompactSwap
    <3>2. CASE CompactSelect
      <4>1. PICK run : comp' = [pc |-> "write", run |-> run, id |-> <<0, 0>>]
        BY <3>2 DEF CompactSelect
      <4>. QED BY <3>1, <4>1, SMT
    <3>3. CASE CompactSwap
      <4>1. comp' = [comp EXCEPT !.pc = "delete"]
        BY <3>3 DEF CompactSwap
      <4>2. comp'.pc = "delete"
        BY <4>1, SMT DEF IMem, TypeOK
      <4>. QED BY <3>1, <4>2
    <3>. QED BY <1>5, <3>2, <3>3
  <2>. QED BY <2>1 DEF OpenInv
<1>6. CASE CompactWrite
  <2>1. UNCHANGED <<live, bad, flpc, flid, up>>
    BY <1>6 DEF CompactWrite
  <2>2. DOMAIN files \subseteq DOMAIN files'
    <3>1. comp.pc = "write"
      BY <1>6 DEF CompactWrite
    <3>2. ~CompactAdd /\ ~CompactDelete
      BY <3>1 DEF CompactAdd, CompactDelete
    <3>. QED BY <1>6, <3>2, FilesEffect
  <2>3. ASSUME comp'.pc = "add" PROVE comp'.id \notin DOMAIN files
    <3>1. PICK id : id \notin DOMAIN files /\ comp' = [comp EXCEPT !.pc = "add", !.id = id]
      <4>1. comp' # NoRun
        BY <2>3, SMT DEF NoRun
      <4>. QED BY <1>6, <4>1 DEF CompactWrite, IsCompactedID
    <3>2. comp'.id = id
      BY <3>1, SMT DEF IMem, TypeOK
    <3>. QED BY <3>1, <3>2
  <2>. QED BY <2>1, <2>2, <2>3 DEF OpenInv
<1>7. CASE CompactAdd
  <2>1. UNCHANGED <<flpc, flid, up>> /\ comp.pc = "add"
    BY <1>7 DEF CompactAdd
  <2>2. comp'.pc # "add"
    <3>1. comp' = [comp EXCEPT !.pc = "remove"] \/ comp' = NoRun
      BY <1>7 DEF CompactAdd
    <3>. QED BY <3>1, SMT DEF NoRun, IMem, TypeOK
  <2>3. \/ WriteLine(AddLine(comp.id)) /\ files' = files
        \/ /\ live' = live /\ ~bad'
           /\ files' = files \/ files' = [f \in DOMAIN files \ {comp.id} |-> files[f]]
    BY <1>7, CleanEffect DEF CompactAdd, OpenInv
  <2>4. CASE WriteLine(AddLine(comp.id)) /\ files' = files
    <3>1. AddLine(comp.id).op # "BAD" /\ ~bad
      BY DEF AddLine, OpenInv
    <3>2. live' = live \cup {comp.id} /\ ~bad'
      BY <1>0, <2>4, <3>1, AddEffect, WellFormed
    <3>. QED BY <1>0, <2>1, <2>2, <2>4, <3>2 DEF OpenInv
  <2>5. CASE /\ live' = live /\ ~bad'
             /\ files' = files \/ files' = [f \in DOMAIN files \ {comp.id} |-> files[f]]
    <3>1. live \subseteq DOMAIN files'
      BY <2>1, <2>5 DEF OpenInv
    <3>. QED BY <2>1, <2>2, <2>5, <3>1 DEF OpenInv
  <2>. QED BY <2>3, <2>4, <2>5
<1>8. CASE CompactRemove
  <2>1. UNCHANGED <<flpc, flid, files, up>>
    BY <1>8 DEF CompactRemove
  <2>2. comp'.pc # "add"
    <3>1. comp' = [comp EXCEPT !.pc = "swap"] \/ comp' = NoRun
      BY <1>8 DEF CompactRemove
    <3>. QED BY <3>1, SMT DEF NoRun, IMem, TypeOK
  <2>3. WriteLine(RemoveLine(comp.run)) \/ (live' = live /\ ~bad')
    BY <1>8, CleanEffect DEF CompactRemove, OpenInv
  <2>4. live' \subseteq live /\ ~bad'
    <3>1. RemoveLine(comp.run).op # "BAD" /\ ~bad
      BY DEF RemoveLine, OpenInv
    <3>. QED BY <1>0, <2>3, <3>1, RemoveEffect, WellFormed
  <2>. QED BY <2>1, <2>2, <2>4 DEF OpenInv
<1>9. CASE CompactDelete
  <2>1. UNCHANGED <<live, bad, flpc, flid, up>> /\ comp' = NoRun /\ comp.pc = "delete"
    BY <1>9 DEF CompactDelete
  <2>2. comp'.pc # "add"
    BY <2>1, SMT DEF NoRun
  <2>3. \A id \in Range(comp.run) : id \notin live
    BY <2>1 DEF ManifestInv, Range
  <2>4. PICK kept : files' = [f \in DOMAIN files \ (Range(comp.run) \ kept) |-> files[f]]
    BY <1>9 DEF CompactDelete
  <2>5. live \subseteq DOMAIN files'
    BY <2>3, <2>4 DEF OpenInv
  <2>. QED BY <2>1, <2>2, <2>5 DEF OpenInv
<1>10. CASE CloseEnd \/ Crash
  <2>1. UNCHANGED <<live, bad, files>>
    BY <1>10 DEF CloseEnd, Crash, CrashManifest
  <2>2. up' = "down" /\ flpc' = "none" /\ comp' = NoRun
    BY <1>10 DEF CloseEnd, Crash, Stop
  <2>3. comp'.pc # "add"
    BY <2>2, SMT DEF NoRun
  <2>. QED BY <2>1, <2>2, <2>3 DEF OpenInv
<1>11. CASE CloseBegin \/ Recover
  <2>1. UNCHANGED <<live, bad, flpc, flid, comp, files>>
    BY <1>11 DEF CloseBegin, Recover, Open, Replay, Load
  <2>2. up' # "failed"
    BY <1>11 DEF CloseBegin, Recover, Open, Replay, Load, OpenInv
  <2>. QED BY <1>a, <2>1, <2>2
<1>. QED
  BY <1>1, <1>2, <1>3, <1>4, <1>5, <1>6, <1>7, <1>8, <1>9, <1>10, <1>11
  DEF Next, Committer, Flush, Compact

(***************************************************************************)
(* Open never gives up, however often the engine failed, crashed and was   *)
(* opened before: no malformed line, no registered SSTable without a file. *)
(* The exceptions are a torn line and a line that reached the file though  *)
(* its write reported an error (compaction then deletes a file that is     *)
(* registered).  (Open, compactLocked, flush, manifest.writeLine)          *)
(***************************************************************************)
THEOREM OpenNeverFails ==
  ASSUME "torn" \notin Faults, "sync" \notin Faults
  PROVE  Spec => []OpenSucceeds
<1>1. Init => IMem /\ IDisk /\ OpenInv
  <2>1. Init => OpenInv
    BY DEF Init, ManifestInit, OpenInv, NoRun
  <2>. QED BY <2>1, InitMem, InitDisk
<1>2. IMem /\ IDisk /\ OpenInv /\ [Next]_vars => IMem' /\ IDisk' /\ OpenInv'
  <2>1. ASSUME IMem, IDisk, OpenInv, Next PROVE OpenInv'
    BY <2>1, OpenStep DEF IDisk
  <2>2. ASSUME OpenInv, UNCHANGED vars PROVE OpenInv'
    BY <2>2 DEF OpenInv, vars
  <2>. QED BY <2>1, <2>2, DiskInvStep
<1>3. OpenInv => OpenSucceeds
  BY DEF OpenInv, OpenSucceeds
<1>. QED
  BY <1>1, <1>2, <1>3, PTL DEF Spec
=============================================================================
