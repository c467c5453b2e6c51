-------------------------- MODULE EngineStepProofs --------------------------
(***************************************************************************)
(* Proofs that each step of the storage engine keeps IMem: the types, the  *)
(* sibling lists, and the books the engine keeps of its log segments, its  *)
(* batch, its queue and its files; and, when no manifest line is torn,     *)
(* IDisk: the registered SSTables and the segments still there hold all    *)
(* that was logged, wherever a flush, a compaction or a recovery stands.   *)
(* They begin with facts about the operators of StorageEngine: segments    *)
(* and concatenations, the queue and the log, the run of SSTables a        *)
(* compaction replaces, the tables of sibling lists.                       *)
(***************************************************************************)
EXTENDS StorageEngineInv, VersioningProofs

USE Zenon DEF MuFree, logVars, manifestVars, flushVars, commitVars, memVars

-----------------------------------------------------------------------------
\* The range and the elements of a sequence.
LEMMA SeqFacts ==
  ASSUME NEW S, NEW s \in Seq(S)
  PROVE  Len(s) \in Nat /\ DOMAIN s = 1..Len(s) /\ \A i \in DOMAIN s : s[i] \in S
BY SMT

\* The elements of a concatenation (WriteBatch, FlushInstall).
LEMMA ConcatDomain ==
  ASSUME NEW S, NEW s \in Seq(S), NEW t \in Seq(S)
  PROVE  /\ s \o t \in Seq(S) /\ DOMAIN (s \o t) = 1..(Len(s) + Len(t))
         /\ Len(s \o t) = Len(s) + Len(t) /\ Len(s) \in Nat /\ Len(t) \in Nat
         /\ \A i \in 1..Len(s) : (s \o t)[i] = s[i]
         /\ \A i \in (Len(s) + 1)..(Len(s) + Len(t)) : (s \o t)[i] = t[i - Len(s)]
<1>1. s \o t \in Seq(S) /\ Len(s) \in Nat /\ Len(t) \in Nat
  BY SMT
<1>2. Len(s \o t) = Len(s) + Len(t)
  BY SMT
<1>3. DOMAIN (s \o t) = 1..(Len(s) + Len(t))
  BY <1>1, <1>2, SMT
<1>4. \A i \in 1..Len(s) : (s \o t)[i] = s[i]
  BY SMT
<1>5. \A i \in (Len(s) + 1)..(Len(s) + Len(t)) : (s \o t)[i] = t[i - Len(s)]
  BY SMT
<1>. QED
  BY <1>1, <1>2, <1>3, <1>4, <1>5

\* The elements of a segment (a batch of the queue, a run of SSTables).
LEMMA SubSeqFacts ==
  ASSUME NEW S, NEW s, NEW m \in Int, NEW n \in Int, \A i \in m..n : s[i] \in S
  PROVE  /\ SubSeq(s, m, n) \in Seq(S)
         /\ Len(SubSeq(s, m, n)) = IF m <= n THEN n - m + 1 ELSE 0
         /\ \A i \in 1..(n - m + 1) : SubSeq(s, m, n)[i] = s[m + i - 1]
<1>1. SubSeq(s, m, n) \in Seq(S)
  BY SMT
<1>2. Len(SubSeq(s, m, n)) = IF m <= n THEN n - m + 1 ELSE 0
  BY SMT
<1>3. \A i \in 1..(n - m + 1) : SubSeq(s, m, n)[i] = s[m + i - 1]
  BY SMT
<1>. QED
  BY <1>1, <1>2, <1>3

-----------------------------------------------------------------------------
\* The batches the committer may take are first parts of the queue.
LEMMA BatchFacts ==
  ASSUME TypeOK, NEW ws \in Batches
  PROVE  \E n \in 1..Len(queue) :
           /\ ws \in Seq(Writer) /\ Len(ws) = n /\ DOMAIN ws = 1..n
           /\ \A i \in 1..n : ws[i] = queue[i]
           /\ Unqueued(ws) \in Seq(Writer) /\ Len(Unqueued(ws)) = Len(queue) - n
           /\ DOMAIN Unqueued(ws) = 1..(Len(queue) - n)
           /\ \A i \in 1..(Len(queue) - n) : Unqueued(ws)[i] = queue[n + i]
           /\ Range(ws) = {queue[i] : i \in 1..n}
<1>1. PICK n \in 1..Len(queue) : ws = SubSeq(queue, 1, n)
  BY DEF Batches
<1>2. queue \in Seq(Writer) /\ Len(queue) \in Nat /\ \A i \in 1..Len(queue) : queue[i] \in Writer
  BY SMT DEF TypeOK
<1>3. ws \in Seq(Writer) /\ Len(ws) = n /\ \A i \in 1..n : ws[i] = queue[i]
  <2>1. \A i \in 1..n : queue[i] \in Writer
    BY <1>2, SMT
  <2>. QED BY <2>1, <1>1, <1>2, SubSeqFacts, SMT
<1>4. DOMAIN ws = 1..n
  BY <1>3, SeqFacts
<1>5. /\ Unqueued(ws) \in Seq(Writer) /\ Len(Unqueued(ws)) = Len(queue) - n
      /\ \A i \in 1..(Len(queue) - n) : Unqueued(ws)[i] = queue[n + i]
  <2>1. \A i \in (n + 1)..Len(queue) : queue[i] \in Writer
    BY <1>2, SMT
  <2>2. /\ SubSeq(queue, n + 1, Len(queue)) \in Seq(Writer)
        /\ Len(SubSeq(queue, n + 1, Len(queue))) =
             IF n + 1 <= Len(queue) THEN Len(queue) - (n + 1) + 1 ELSE 0
        /\ \A i \in 1..(Len(queue) - (n + 1) + 1) :
             SubSeq(queue, n + 1, Len(queue))[i] = queue[(n + 1) + i - 1]
    BY <2>1, <1>2, SubSeqFacts, SMT
  <2>. QED BY <2>2, <1>2, <1>3, SMT DEF Unqueued
<1>6. DOMAIN Unqueued(ws) = 1..(Len(queue) - n)
  BY <1>5, SeqFacts
<1>7. Range(ws) = {queue[i] : i \in 1..n}
  BY <1>3, <1>4 DEF Range
<1>. QED
  BY <1>3, <1>4, <1>5, <1>6, <1>7

\* The records a batch, or a first part of it, adds to the log.
LEMMA EntriesFacts ==
  ASSUME TypeOK, QueueInv, NEW ws \in Batches
  PROVE  /\ Entries(ws) \in Seq(Entry) /\ Len(Entries(ws)) = Len(ws) /\ Len(ws) \in Nat \ {0}
         /\ \A i \in 1..Len(ws) :
              Entries(ws)[i] = NewEntry(wr[queue[i]].pc, wr[queue[i]].key, wr[queue[i]].items, queue[i])
         /\ \A i \in 1..Len(ws) : i \in DOMAIN queue
<1>1. PICK n \in 1..Len(queue) :
           /\ ws \in Seq(Writer) /\ Len(ws) = n /\ DOMAIN ws = 1..n
           /\ \A i \in 1..n : ws[i] = queue[i]
  BY BatchFacts
<1>2. queue \in Seq(Writer) /\ Len(queue) \in Nat /\ DOMAIN queue = 1..Len(queue)
  BY SMT DEF TypeOK
<1>3. ASSUME NEW i \in 1..n
      PROVE  NewEntry(wr[queue[i]].pc, wr[queue[i]].key, wr[queue[i]].items, queue[i]) \in Entry
  <2>1. i \in DOMAIN queue /\ queue[i] \in Writer /\ wr[queue[i]].pc \in {"put", "restore"}
    BY <1>2, SMT DEF QueueInv
  <2>2. wr[queue[i]].key \in Key /\ wr[queue[i]].items \in SUBSET Version /\ seq \in Nat
    BY <2>1 DEF TypeOK
  <2>. QED BY <2>1, <2>2 DEF NewEntry, Entry
<1>4. Entries(ws) = [i \in 1..n |-> NewEntry(wr[queue[i]].pc, wr[queue[i]].key, wr[queue[i]].items, queue[i])]
  BY <1>1 DEF Entries
<1>5. Entries(ws) \in Seq(Entry)
  <2>. DEFINE e(i) == NewEntry(wr[queue[i]].pc, wr[queue[i]].key, wr[queue[i]].items, queue[i])
  <2>1. Entries(ws) = [i \in 1..n |-> e(i)] /\ \A i \in 1..n : e(i) \in Entry
    BY <1>3, <1>4
  <2>. HIDE DEF e
  <2>. QED BY <2>1, <1>1, SMT
<1>6. Len(Entries(ws)) = n
  BY <1>4, <1>5, SeqFacts, SMT
<1>. QED
  BY <1>1, <1>2, <1>4, <1>5, <1>6, SMT

\* Concatenating a first part of a batch's records to the log.
LEMMA LogGrows ==
  ASSUME TypeOK, QueueInv, NEW ws \in Batches, NEW n \in 0..Len(Entries(ws)),
         wal' = wal \o SubSeq(Entries(ws), 1, n)
  PROVE  /\ wal' \in Seq(Entry) /\ Len(wal') = Len(wal) + n
         /\ DOMAIN wal' = 1..(Len(wal) + n) /\ DOMAIN wal = 1..Len(wal) /\ Len(wal) \in Nat
         /\ \A i \in 1..Len(wal) : wal'[i] = wal[i]
         /\ \A i \in 1..n : i \in DOMAIN queue /\ wal'[Len(wal) + i] =
              NewEntry(wr[queue[i]].pc, wr[queue[i]].key, wr[queue[i]].items, queue[i])
<1>. DEFINE E == SubSeq(Entries(ws), 1, n)
<1>1. /\ Entries(ws) \in Seq(Entry) /\ Len(Entries(ws)) = Len(ws) /\ Len(ws) \in Nat
      /\ \A i \in 1..Len(ws) :
              Entries(ws)[i] = NewEntry(wr[queue[i]].pc, wr[queue[i]].key, wr[queue[i]].items, queue[i])
      /\ \A i \in 1..Len(ws) : i \in DOMAIN queue
  BY EntriesFacts, ZenonT(40)
<1>2. E \in Seq(Entry) /\ Len(E) = n /\ \A i \in 1..n : E[i] = Entries(ws)[i]
  <2>1. \A i \in 1..n : Entries(ws)[i] \in Entry
    BY <1>1, SeqFacts, SMT
  <2>. QED BY <1>1, <2>1, SubSeqFacts, SMT
<1>3. wal \in Seq(Entry) /\ Len(wal) \in Nat /\ DOMAIN wal = 1..Len(wal)
  BY SMT DEF TypeOK
<1>. HIDE DEF E
<1>4. wal' = wal \o E
  BY DEF E
<1>5. /\ wal' \in Seq(Entry) /\ Len(wal') = Len(wal) + n /\ DOMAIN wal' = 1..(Len(wal) + n)
      /\ \A i \in 1..Len(wal) : wal'[i] = wal[i]
      /\ \A i \in (Len(wal) + 1)..(Len(wal) + n) : wal'[i] = E[i - Len(wal)]
  BY <1>2, <1>3, <1>4, ConcatDomain, SMT
<1>6. ASSUME NEW i \in 1..n
      PROVE  i \in DOMAIN queue /\ wal'[Len(wal) + i] =
              NewEntry(wr[queue[i]].pc, wr[queue[i]].key, wr[queue[i]].items, queue[i])
  <2>0. Len(wal) + i \in (Len(wal) + 1)..(Len(wal) + n) /\ (Len(wal) + i) - Len(wal) = i
    BY <1>1, <1>3, SMT
  <2>1. wal'[Len(wal) + i] = E[i]
    BY <2>0, <1>5, ZenonT(40)
  <2>. QED BY <2>1, <1>1, <1>2, SMT
<1>. QED
  BY <1>3, <1>5, <1>6, ZenonT(40)

\* All of a batch's records.
LEMMA WholeBatch ==
  ASSUME TypeOK, QueueInv, NEW ws \in Batches
  PROVE  /\ Len(Entries(ws)) \in Nat \ {0}
         /\ Entries(ws) = SubSeq(Entries(ws), 1, Len(Entries(ws)))
BY EntriesFacts, SMT

\* A first part of the queue's records is appended to the log, none of which
\* memory reflects.
LEMMA LogSegments ==
  ASSUME TypeOK, QueueInv, NEW ws \in Batches, NEW n \in 0..Len(Entries(ws)),
         wal' = wal \o SubSeq(Entries(ws), 1, n)
  PROVE  \A i \in DOMAIN wal' : IF i <= Len(wal) THEN i \in DOMAIN wal /\ wal'[i] = wal[i]
                                                 ELSE wal'[i].seg = seq
<1>1. /\ DOMAIN wal' = 1..(Len(wal) + n) /\ DOMAIN wal = 1..Len(wal) /\ Len(wal) \in Nat
      /\ \A i \in 1..Len(wal) : wal'[i] = wal[i]
      /\ \A i \in 1..n : i \in DOMAIN queue /\ wal'[Len(wal) + i] =
            NewEntry(wr[queue[i]].pc, wr[queue[i]].key, wr[queue[i]].items, queue[i])
  BY LogGrows
<1>2. ASSUME NEW i \in 1..n PROVE wal'[Len(wal) + i].seg = seq
  <2>1. wal'[Len(wal) + i] =
          NewEntry(wr[queue[i]].pc, wr[queue[i]].key, wr[queue[i]].items, queue[i])
    BY <1>1
  <2>. QED BY <2>1, SMT DEF NewEntry
<1>3. ASSUME NEW i \in DOMAIN wal', i > Len(wal) PROVE wal'[i].seg = seq
  <2>1. i - Len(wal) \in 1..n /\ Len(wal) + (i - Len(wal)) = i
    BY <1>1, <1>3, SMT
  <2>. QED BY <2>1, <1>2
<1>. QED
  BY <1>1, <1>3, SMT

\* Taking a batch off the queue leaves the two apart.
LEMMA TakeBatch ==
  ASSUME TypeOK, QueueInv, NEW ws \in Batches, NEW q, q = Unqueued(ws)
  PROVE  /\ \A i \in DOMAIN q : \E j \in DOMAIN queue : q[i] = queue[j] /\ q[i] \notin Range(ws)
         /\ \A i, j \in DOMAIN q : q[i] = q[j] => i = j
         /\ \A w \in Range(ws) : \E j \in DOMAIN queue : w = queue[j]
<1>1. PICK n \in 1..Len(queue) :
           /\ DOMAIN q = 1..(Len(queue) - n)
           /\ \A i \in 1..(Len(queue) - n) : q[i] = queue[n + i]
           /\ Range(ws) = {queue[i] : i \in 1..n}
  BY BatchFacts, ZenonT(40)
<1>2. DOMAIN queue = 1..Len(queue) /\ Len(queue) \in Nat /\ n \in Nat
  BY SeqFacts, SMT DEF TypeOK
<1>3. \A i \in 1..(Len(queue) - n) : n + i \in 1..Len(queue) /\ \A j \in 1..n : n + i # j /\ j \in 1..Len(queue)
  BY <1>2, SMT
<1>4. \A i, j \in 1..(Len(queue) - n) : n + i = n + j => i = j
  BY <1>2, SMT
<1>5. \A i, j \in 1..Len(queue) : queue[i] = queue[j] => i = j
  BY <1>2 DEF QueueInv
<1>6. ASSUME NEW i \in DOMAIN q PROVE \E j \in DOMAIN queue : q[i] = queue[j] /\ q[i] \notin Range(ws)
  <2>1. n + i \in 1..Len(queue) /\ q[i] = queue[n + i] /\ \A j \in 1..n : n + i # j /\ j \in 1..Len(queue)
    BY <1>1, <1>3
  <2>2. \A j \in 1..n : queue[n + i] # queue[j]
    BY <2>1, <1>5
  <2>. QED BY <2>1, <2>2, <1>1, <1>2
<1>7. ASSUME NEW i \in DOMAIN q, NEW j \in DOMAIN q, q[i] = q[j] PROVE i = j
  <2>1. n + i \in 1..Len(queue) /\ n + j \in 1..Len(queue) /\ queue[n + i] = queue[n + j]
    BY <1>1, <1>3, <1>7, ZenonT(40)
  <2>2. n + i = n + j
    BY <2>1, <1>5
  <2>. QED BY <2>2, <1>1, <1>4
<1>8. \A w \in Range(ws) : \E j \in DOMAIN queue : w = queue[j]
  BY <1>1, <1>2, SMT
<1>. QED
  BY <1>6, <1>7, <1>8, ZenonT(40)

-----------------------------------------------------------------------------
\* The sources of a run not yet swapped out are SSTables in memory.
LEMMA RunInMemory ==
  ASSUME TypeOK, NEW h \in DOMAIN sstables, RunAt(h), NEW i \in DOMAIN comp.run
  PROVE  h + i - 1 \in DOMAIN sstables /\ comp.run[i] = sstables[h + i - 1]
<1>1. /\ Len(comp.run) \in Nat /\ DOMAIN comp.run = 1..Len(comp.run)
      /\ Len(sstables) \in Nat /\ DOMAIN sstables = 1..Len(sstables)
  BY SeqFacts DEF TypeOK
<1>. QED
  BY <1>1, SMT DEF RunAt

\* The run CompactSelect takes.
LEMMA SelectFacts ==
  ASSUME TypeOK, NEW i \in DOMAIN sstables, NEW j \in DOMAIN sstables,
         SelectTierForCompaction(i, j)
  PROVE  /\ SubSeq(sstables, i, j) \in Seq(SSTableID)
         /\ Len(SubSeq(sstables, i, j)) = j - i + 1 /\ j - i + 1 \in Nat \ {0}
         /\ DOMAIN SubSeq(sstables, i, j) = 1..(j - i + 1)
         /\ \A h \in 1..(j - i + 1) : /\ SubSeq(sstables, i, j)[h] = sstables[i + h - 1]
                                      /\ i + h - 1 \in DOMAIN sstables
<1>1. sstables \in Seq(SSTableID) /\ Len(sstables) \in Nat /\ DOMAIN sstables = 1..Len(sstables)
        /\ \A h \in DOMAIN sstables : sstables[h] \in SSTableID
  BY SeqFacts, ZenonT(40) DEF TypeOK
<1>2. j - i + 1 \in Nat \ {0} /\ i \in Int /\ j \in Int /\ i <= j
  BY <1>1, ConstantsAssumption, SMT DEF SelectTierForCompaction
<1>3. \A h \in i..j : sstables[h] \in SSTableID
  BY <1>1, SMT
<1>4. /\ SubSeq(sstables, i, j) \in Seq(SSTableID)
      /\ Len(SubSeq(sstables, i, j)) = j - i + 1
      /\ \A h \in 1..(j - i + 1) : SubSeq(sstables, i, j)[h] = sstables[i + h - 1]
  BY <1>2, <1>3, SubSeqFacts, SMT
<1>5. DOMAIN SubSeq(sstables, i, j) = 1..(j - i + 1)
  BY <1>4, SeqFacts
<1>6. \A h \in 1..(j - i + 1) : i + h - 1 \in DOMAIN sstables
  BY <1>1, <1>2, SMT
<1>. QED
  BY <1>2, <1>4, <1>5, <1>6, ZenonT(40)

\* What replaceRun leaves: the run's place holds the merged SSTable.
LEMMA ReplaceFacts ==
  ASSUME TypeOK, NEW i \in DOMAIN sstables, RunAt(i), Len(comp.run) > 0,
         NEW new, new = ReplaceRun(sstables, i, comp.run, comp.id)
  PROVE  /\ new \in Seq(SSTableID)
         /\ Len(new) = Len(sstables) - Len(comp.run) + 1
         /\ DOMAIN new = 1..(Len(sstables) - Len(comp.run) + 1)
         /\ \A j \in 1..(i - 1) : j \in DOMAIN new /\ new[j] = sstables[j]
         /\ i \in DOMAIN new /\ new[i] = comp.id
         /\ \A j \in (i + 1)..(Len(sstables) - Len(comp.run) + 1) :
              /\ new[j] = sstables[j + Len(comp.run) - 1]
              /\ j + Len(comp.run) - 1 \in DOMAIN sstables
<1>1. /\ sstables \in Seq(SSTableID) /\ Len(sstables) \in Nat /\ DOMAIN sstables = 1..Len(sstables)
      /\ \A h \in DOMAIN sstables : sstables[h] \in SSTableID
      /\ comp.run \in Seq(SSTableID) /\ Len(comp.run) \in Nat /\ comp.id \in SSTableID
  BY SeqFacts, ZenonT(40) DEF TypeOK
<1>. DEFINE m == Len(comp.run)
            N == Len(sstables)
            e(j) == IF j < i THEN sstables[j] ELSE IF j = i THEN comp.id ELSE sstables[j + m - 1]
<1>2. i \in 1..N /\ i + m - 1 \in 1..N /\ m \in Nat \ {0} /\ N \in Nat /\ i \in Nat
  BY <1>1, SMT DEF RunAt
<1>3. new = [j \in 1..(N - m + 1) |-> e(j)]
  BY DEF ReplaceRun
<1>4. \A j \in 1..(N - m + 1) : e(j) \in SSTableID
  BY <1>1, <1>2, SMT
<1>5. N - m + 1 \in Nat /\ i \in 1..(N - m + 1)
  <2>. HIDE DEF m, N
  <2>1. i + m - 1 <= N
    BY <1>2, SMT
  <2>. QED BY <2>1, <1>2, SMT
<1>6. new \in Seq(SSTableID) /\ Len(new) = N - m + 1 /\ DOMAIN new = 1..(N - m + 1)
  <2>. HIDE DEF e, m, N
  <2>. QED BY <1>3, <1>4, <1>5, SMT
<1>7. \A j \in 1..(i - 1) : j \in 1..(N - m + 1) /\ j < i
  BY <1>2, SMT
<1>8. \A j \in (i + 1)..(N - m + 1) : j > i /\ j \in 1..(N - m + 1) /\ j + m - 1 \in 1..N
  BY <1>2, SMT
<1>9. \A j \in 1..(N - m + 1) :
        new[j] = IF j < i THEN sstables[j] ELSE IF j = i THEN comp.id ELSE sstables[j + m - 1]
  BY <1>3
<1>10. \A j \in 1..(i - 1) : j \in DOMAIN new /\ new[j] = sstables[j]
  <2>. HIDE DEF m, N
  <2>. QED BY <1>6, <1>7, <1>9
<1>11. i \in DOMAIN new /\ new[i] = comp.id
  <2>. HIDE DEF m, N
  <2>. QED BY <1>2, <1>5, <1>6, <1>9, SMT
<1>12. \A j \in (i + 1)..(N - m + 1) : new[j] = sstables[j + m - 1] /\ j + m - 1 \in DOMAIN sstables
  <2>1. DOMAIN sstables = 1..N
    BY <1>1
  <2>. HIDE DEF m, N
  <2>. QED BY <2>1, <1>2, <1>8, <1>9, SMT
<1>. QED
  BY <1>6, <1>10, <1>11, <1>12, ZenonT(40)

-----------------------------------------------------------------------------
\* A new memtable is a table.
LEMMA EmptyIsTable == EmptyTable \in Table
BY DEF EmptyTable, Table

\* A table of sibling lists is a table.
LEMMA GoodIsTable == ASSUME NEW t, GoodTable(t) PROVE t \in Table
BY DEF GoodTable, Table

\* What applying a record does to each key (memtable.Put, memtable.Replace).
LEMMA AppliedAt ==
  ASSUME NEW t, GoodTable(t), NEW e \in Entry
  PROVE  /\ \A k \in Key : k # e.key => ApplyEntry(t, e)[k] = t[k]
         /\ ApplyEntry(t, e)[e.key] =
              IF e.op = "restore" THEN e.items ELSE MergeSiblings(t[e.key], e.items)
<1>1. e.key \in Key
  BY DEF Entry
<1>. QED
  BY <1>1 DEF GoodTable, ApplyEntry, Replace, MemPut

(***************************************************************************)
(* What the steps below need of the merges: sibling lists merge into       *)
(* sibling lists, GetAll answers one that covers every layer, and so does  *)
(* the table a compaction writes. IMem implies it (MergesHold of           *)
(* StorageEngineProofs); it is a hypothesis here so that the proofs of the *)
(* steps do without the theory of finite sets.                             *)
(***************************************************************************)
MergeFacts ==
  /\ SiblingSet({}) /\ \A v \in Item : SiblingSet({v})
  /\ \A a, b \in SUBSET Version : SiblingSet(a) /\ SiblingSet(b) => SiblingSet(MergeSiblings(a, b))
  /\ \A k \in Key : SiblingSet(GetAll(k))
  /\ comp.pc = "write" => /\ GoodTable(Merge(comp.run))
                          /\ \A i \in DOMAIN comp.run : \A k \in Key : \A x \in files[comp.run[i]][k] :
                               Covers(Merge(comp.run)[k], x)

\* A new memtable holds sibling lists.
LEMMA EmptyGood == ASSUME MergeFacts PROVE GoodTable(EmptyTable)
BY DEF MergeFacts, GoodTable, EmptyTable

\* Applying a record keeps sibling lists.
LEMMA AppliedGood ==
  ASSUME MergeFacts, NEW t, GoodTable(t), NEW e \in Entry, SiblingSet(e.items)
  PROVE  GoodTable(ApplyEntry(t, e))
<1>1. e.key \in Key /\ SiblingSet(t[e.key])
  BY DEF Entry, GoodTable
<1>2. SiblingSet(MergeSiblings(t[e.key], e.items))
  BY <1>1 DEF MergeFacts, SiblingSet
<1>. QED
  BY <1>1, <1>2 DEF GoodTable, ApplyEntry, Replace, MemPut, SiblingSet

\* PutBackOlder keeps sibling lists.
LEMMA PutBackGood ==
  ASSUME MergeFacts, NEW t, NEW u, GoodTable(t), GoodTable(u)
  PROVE  GoodTable(PutBackOlder(t, u))
<1>1. \A k \in Key : SiblingSet(MergeSiblings(t[k], u[k]))
  BY DEF GoodTable, MergeFacts, SiblingSet
<1>. QED
  BY <1>1 DEF GoodTable, PutBackOlder, SiblingSet

-----------------------------------------------------------------------------
\* Writing to the manifest keeps its types, whatever reaches the file.
LEMMA LineTypes ==
  ASSUME TypeOK, NEW id \in SSTableID, NEW ids \in Seq(SSTableID), NEW line,
         line = AddLine(id) \/ line = RemoveLine(ids),
         WriteLine(line) \/ TearLine(line) \/ UNCHANGED manifestVars
  PROVE  /\ (live \subseteq SSTableID /\ bad \in BOOLEAN)'
         /\ (tail.op \in {"NONE", "BAD", "REMOVE"} /\ tail.ids \in Seq(SSTableID))'
<1>1. line.op \in {"ADD", "REMOVE"} /\ line.ids \in Seq(SSTableID)
  <2>1. <<id>> \in Seq(SSTableID)
    BY SMT
  <2>2. CASE line = AddLine(id)
    BY <2>1, <2>2 DEF AddLine
  <2>3. CASE line = RemoveLine(ids)
    BY <2>3 DEF RemoveLine
  <2>. QED BY <2>2, <2>3
<1>. USE DEF TypeOK
<1>2. CASE WriteLine(line)
  <2>1. Glue(tail, line).ids \in Seq(SSTableID)
    BY <1>1, SMT DEF Glue
  <2>2. Range(Glue(tail, line).ids) \subseteq SSTableID
    BY <2>1, SMT DEF Range
  <2>3. live' \subseteq SSTableID
    BY <2>2, <1>2 DEF WriteLine, ApplyLine
  <2>4. bad' \in BOOLEAN
    BY <1>2 DEF WriteLine, ApplyLine
  <2>5. tail'.op = "NONE" /\ tail'.ids = <<>>
    BY <1>2 DEF WriteLine, NoTail
  <2>6. <<>> \in Seq(SSTableID)
    BY SMT
  <2>. QED BY <2>3, <2>4, <2>5, <2>6
<1>3. CASE TearLine(line)
  <2>1. PICK f \in Fragments(line) : tail' = Glue(tail, f)
    BY <1>3 DEF TearLine
  <2>2. f.op \in {"BAD", "REMOVE"} /\ f.ids \in Seq(SSTableID)
    <3>1. CASE f = [op |-> "BAD", ids |-> <<>>]
      <4>1. f.op = "BAD" /\ f.ids = <<>>
        BY <3>1
      <4>. QED BY <4>1, SMT
    <3>2. ASSUME NEW n \in 0..(Len(line.ids) - 1), f = [op |-> "REMOVE", ids |-> SubSeq(line.ids, 1, n)]
          PROVE  f.op = "REMOVE" /\ f.ids \in Seq(SSTableID)
      <4>1. Len(line.ids) \in Nat /\ \A i \in 1..n : line.ids[i] \in SSTableID
        BY <1>1, SMT
      <4>2. SubSeq(line.ids, 1, n) \in Seq(SSTableID)
        BY <4>1, SubSeqFacts, SMT
      <4>. QED BY <3>2, <4>2
    <3>. QED BY <3>1, <3>2, ZenonT(40) DEF Fragments
  <2>3. Glue(tail, f).op \in {"NONE", "BAD", "REMOVE"} /\ Glue(tail, f).ids \in Seq(SSTableID)
    BY <2>2, SMT DEF Glue
  <2>. QED BY <1>3, <2>1, <2>3 DEF TearLine
<1>4. CASE UNCHANGED manifestVars
  BY <1>4
<1>. QED
  BY <1>2, <1>3, <1>4

\* TypeOK by the part of the engine each variable belongs to.
DiskTypes ==
  /\ wal \in Seq(Entry) /\ seq \in Nat /\ gone \in Nat
  /\ live \subseteq SSTableID /\ bad \in BOOLEAN
  /\ tail.op \in {"NONE", "BAD", "REMOVE"} /\ tail.ids \in Seq(SSTableID)
  /\ DOMAIN files \subseteq SSTableID /\ \A id \in DOMAIN files : files[id] \in Table
  /\ tick \in Nat

MemTypes ==
  /\ up \in {"down", "replay", "load", "up", "failed"} /\ pos \in Nat
  /\ active \in Table /\ flushing \in Table
  /\ sealed \in Nat /\ flpc \in {"none", "write", "add", "install", "putback"}
  /\ flid \in SSTableID /\ deletes \subseteq Nat
  /\ sstables \in Seq(SSTableID)

CommitTypes ==
  /\ queue \in Seq(Writer) /\ cpc \in {"idle", "apply", "swap"} /\ mu \in BOOLEAN
  /\ batch \subseteq Writer /\ errs \subseteq Writer
  /\ crossed \in BOOLEAN /\ halted \in BOOLEAN /\ closing \in BOOLEAN

CompType == comp \in [pc : {"idle", "write", "add", "remove", "swap", "delete"},
                      run : Seq(SSTableID), id : SSTableID]

WriterType == wr \in [Writer -> [pc : WriterPC, key : Key, items : SUBSET Version,
                                prev : SUBSET Version]]

\* The parts make up TypeOK.
LEMMA TypeParts ==
  ASSUME TypeOK
  PROVE  DiskTypes /\ MemTypes /\ CommitTypes /\ CompType /\ WriterType /\ restarts \in Nat
BY ZenonT(40) DEF TypeOK, DiskTypes, MemTypes, CommitTypes, CompType, WriterType

\* The parts of the next state make up its TypeOK.
LEMMA TypeJoin ==
  ASSUME DiskTypes', MemTypes', CommitTypes', CompType', WriterType', restarts' \in Nat
  PROVE  TypeOK'
BY ZenonT(40) DEF TypeOK, DiskTypes, MemTypes, CommitTypes, CompType, WriterType

\* A part that a step leaves alone keeps its types.
LEMMA TypeFrame ==
  ASSUME TypeOK
  PROVE  /\ UNCHANGED <<logVars, manifestVars, files, tick>> => DiskTypes'
         /\ UNCHANGED <<up, pos, active, flushVars, sstables>> => MemTypes'
         /\ UNCHANGED <<queue, cpc, mu, batch, errs, crossed, halted, closing>> => CommitTypes'
         /\ UNCHANGED comp => CompType'
         /\ UNCHANGED wr => WriterType'
         /\ UNCHANGED restarts => restarts' \in Nat
<1>1. UNCHANGED <<logVars, manifestVars, files, tick>> => DiskTypes'
  BY TypeParts DEF DiskTypes
<1>2. UNCHANGED <<up, pos, active, flushVars, sstables>> => MemTypes'
  BY TypeParts DEF MemTypes
<1>3. UNCHANGED <<queue, cpc, mu, batch, errs, crossed, halted, closing>> => CommitTypes'
  BY TypeParts DEF CommitTypes
<1>4. (UNCHANGED comp => CompType') /\ (UNCHANGED wr => WriterType')
  BY TypeParts DEF CompType, WriterType
<1>. QED
  BY <1>1, <1>2, <1>3, <1>4, TypeParts

\* What enqueue does to the types of the queue and the writers.
LEMMA WriteTypes ==
  ASSUME TypeOK, NEW w \in Writer, NEW k \in Key, NEW pc \in {"put", "restore"},
         NEW items \in SUBSET Version, NEW prev \in SUBSET Version, Write(w, k, pc, items, prev)
  PROVE  TypeOK'
<1>1. queue' \in Seq(Writer)
  <2>1. queue \in Seq(Writer) /\ (queue' = queue \/ queue' = Append(queue, w))
    BY ZenonT(40) DEF Write, TypeOK
  <2>. QED BY <2>1, SMT
<1>2. (wr \in [Writer -> [pc : WriterPC, key : Key, items : SUBSET Version, prev : SUBSET Version]])'
  <2>. DEFINE R == [pc : WriterPC, key : Key, items : SUBSET Version, prev : SUBSET Version]
  <2>1. wr \in [Writer -> R]
    BY DEF TypeOK
  <2>2. /\ [pc |-> "failed", key |-> k, items |-> {}, prev |-> {}] \in R
        /\ [pc |-> pc, key |-> k, items |-> items, prev |-> prev] \in R
    BY DEF WriterPC
  <2>3. \E r \in R : wr' = [wr EXCEPT ![w] = r]
    BY <2>2, ZenonT(40) DEF Write
  <2>. HIDE DEF R
  <2>4. wr' \in [Writer -> R]
    BY <2>1, <2>3
  <2>. QED BY <2>4 DEF R
<1>3. UNCHANGED <<logVars, manifestVars, files, tick, up, pos, active, flushVars, sstables,
                  cpc, mu, batch, errs, crossed, halted, closing, comp, restarts>>
  BY ZenonT(40) DEF Write
<1>4. CommitTypes'
  BY <1>1, <1>3, TypeParts DEF CommitTypes
<1>5. WriterType'
  BY <1>2 DEF WriterType
<1>. QED
  BY <1>3, <1>4, <1>5, TypeFrame, TypeJoin

\* Failing a batch keeps the writers' type.
LEMMA FailTypes ==
  ASSUME TypeOK, NEW ws, Fail(ws)
  PROVE  (wr \in [Writer -> [pc : WriterPC, key : Key, items : SUBSET Version, prev : SUBSET Version]])'
<1>1. wr \in [Writer -> [pc : WriterPC, key : Key, items : SUBSET Version, prev : SUBSET Version]]
  BY ZenonT(40) DEF TypeOK
<1>. QED
  BY ONLY <1>1, Fail(ws) DEF Fail, WriterPC

\* Answering a batch keeps the writers' type.
LEMMA DoneTypes ==
  ASSUME TypeOK, NEW ws, NEW bads, Done(ws, bads)
  PROVE  (wr \in [Writer -> [pc : WriterPC, key : Key, items : SUBSET Version, prev : SUBSET Version]])'
<1>1. wr \in [Writer -> [pc : WriterPC, key : Key, items : SUBSET Version, prev : SUBSET Version]]
  BY ZenonT(40) DEF TypeOK
<1>. QED
  BY ONLY <1>1, Done(ws, bads) DEF Done, WriterPC

\* The idle compaction has the type of one.
LEMMA NoRunType ==
  NoRun \in [pc : {"idle", "write", "add", "remove", "swap", "delete"},
             run : Seq(SSTableID), id : SSTableID]
BY SMT DEF NoRun, SSTableID

-----------------------------------------------------------------------------
\* The writers keep TypeOK.
LEMMA TypeWriters == ASSUME IMem, MergeFacts, Writers PROVE TypeOK'
<1>. USE DEF IMem
<1>1. ASSUME NEW w \in Writer, NEW k \in Key, Read(w, k) PROVE TypeOK'
  <2>1. GetAll(k) \in SUBSET Version
    BY DEF MergeFacts, SiblingSet
  <2>2. (wr \in [Writer -> [pc : WriterPC, key : Key, items : SUBSET Version, prev : SUBSET Version]])'
    <3>1. /\ wr \in [Writer -> [pc : WriterPC, key : Key, items : SUBSET Version, prev : SUBSET Version]]
          /\ wr' = [wr EXCEPT ![w] = [pc |-> "read", key |-> k, items |-> {}, prev |-> GetAll(k)]]
      BY <1>1, ZenonT(40) DEF Read, TypeOK
    <3>. QED BY <2>1, <3>1 DEF WriterPC
  <2>3. UNCHANGED <<logVars, manifestVars, files, tick, up, memVars, restarts>>
    BY <1>1, ZenonT(40) DEF Read
  <2>4. WriterType'
    BY <2>2 DEF WriterType
  <2>. QED
    BY <2>3, <2>4, TypeFrame, TypeJoin
<1>2. ASSUME NEW w \in Writer, NEW v \in Item, Put(w, v) PROVE TypeOK'
  <2>1. wr[w].key \in Key /\ {v} \in SUBSET Version /\ wr[w].prev \in SUBSET Version
    BY ConstantsAssumption DEF TypeOK
  <2>2. Write(w, wr[w].key, "put", {v}, wr[w].prev)
    BY <1>2, ZenonT(40) DEF Put
  <2>. QED BY <2>1, <2>2, WriteTypes, ZenonT(40)
<1>3. ASSUME NEW w \in Writer, Restore(w) PROVE TypeOK'
  <2>1. wr[w].key \in Key /\ wr[w].prev \in SUBSET Version /\ {} \in SUBSET Version
    BY DEF TypeOK
  <2>2. Write(w, wr[w].key, "restore", wr[w].prev, {})
    BY <1>3, ZenonT(40) DEF Restore
  <2>. QED BY <2>1, <2>2, WriteTypes, ZenonT(40)
<1>. QED
  BY <1>1, <1>2, <1>3 DEF Writers

\* The committer keeps TypeOK.
LEMMA TypeCommitter == ASSUME IMem, MergeFacts, Committer PROVE TypeOK'
<1>. USE DEF IMem
<1>1. CASE CommitHalted
  <2>1. PICK ws \in Batches : queue' = Unqueued(ws) /\ Fail(Range(ws))
    BY <1>1 DEF CommitHalted
  <2>2. queue' \in Seq(Writer)
    BY <2>1, BatchFacts
  <2>3. UNCHANGED <<logVars, manifestVars, files, tick, up, pos, active, flushVars, sstables,
                    cpc, mu, batch, errs, crossed, halted, closing, comp, restarts>>
    BY <1>1, ZenonT(40) DEF CommitHalted
  <2>4. CommitTypes'
    BY <2>2, <2>3, TypeParts DEF CommitTypes
  <2>5. WriterType'
    BY <2>1, FailTypes DEF WriterType
  <2>. QED BY <2>3, <2>4, <2>5, TypeFrame, TypeJoin
<1>2. CASE CommitWrite
  <2>1. PICK ws \in Batches : queue' = Unqueued(ws) /\ WriteBatch(Entries(ws)) /\ batch' = Range(ws)
    BY <1>2 DEF CommitWrite
  <2>2. PICK n \in 1..Len(queue) : Unqueued(ws) \in Seq(Writer) /\ Range(ws) = {queue[i] : i \in 1..n}
    BY BatchFacts
  <2>3. queue' \in Seq(Writer) /\ batch' \subseteq Writer
    BY <2>1, <2>2, SMT DEF TypeOK
  <2>4. Len(Entries(ws)) \in 0..Len(Entries(ws)) /\ wal' = wal \o SubSeq(Entries(ws), 1, Len(Entries(ws)))
    BY <2>1, WholeBatch, SMT DEF WriteBatch
  <2>5. wal' \in Seq(Entry)
    BY <2>4, LogGrows
  <2>6. UNCHANGED <<seq, gone>> /\ cpc' = "apply"
    BY <1>2, <2>1 DEF CommitWrite, WriteBatch
  <2>7. UNCHANGED <<manifestVars, files, tick, up, pos, active, flushVars, sstables,
                   mu, errs, crossed, halted, closing, comp, wr, restarts>>
    BY <1>2, ZenonT(40) DEF CommitWrite
  <2>8. DiskTypes'
    BY <2>5, <2>6, <2>7, TypeParts DEF DiskTypes
  <2>9. CommitTypes'
    BY <2>3, <2>6, <2>7, TypeParts DEF CommitTypes
  <2>. QED BY <2>7, <2>8, <2>9, TypeFrame, TypeJoin
<1>3. CASE CommitFail
  <2>1. PICK ws \in Batches : queue' = Unqueued(ws) /\ TornBatch(Entries(ws)) /\ Fail(Range(ws))
    BY <1>3 DEF CommitFail
  <2>2. queue' \in Seq(Writer)
    BY <2>1, BatchFacts
  <2>3. wal' \in Seq(Entry)
    BY <2>1, LogGrows DEF TornBatch, WriteBatch
  <2>4. (wr \in [Writer -> [pc : WriterPC, key : Key, items : SUBSET Version, prev : SUBSET Version]])'
    BY <2>1, FailTypes
  <2>5. UNCHANGED <<seq, gone>>
    BY <2>1 DEF TornBatch, WriteBatch
  <2>6. /\ halted' = TRUE
        /\ UNCHANGED <<manifestVars, files, tick, up, pos, active, flushVars, sstables,
                       cpc, mu, batch, errs, crossed, closing, comp, restarts>>
    BY <1>3, ZenonT(40) DEF CommitFail
  <2>7. DiskTypes'
    BY <2>3, <2>5, <2>6, TypeParts DEF DiskTypes
  <2>8. CommitTypes'
    BY <2>2, <2>6, TypeParts DEF CommitTypes
  <2>9. WriterType'
    BY <2>4 DEF WriterType
  <2>. QED BY <2>6, <2>7, <2>8, <2>9, TypeFrame, TypeJoin
<1>4. CASE Apply
  <2>1. pos + 1 \in DOMAIN wal /\ wal[pos + 1] \in Entry /\ SiblingSet(wal[pos + 1].items)
    <3>1. pos < Len(wal)
      BY <1>4, ZenonT(40) DEF Apply, CommitInv
    <3>2. pos + 1 \in DOMAIN wal /\ wal[pos + 1] \in Entry
      BY <3>1, TypeParts, SMT DEF DiskTypes, MemTypes
    <3>. QED BY <3>2, ZenonT(40) DEF SiblingsInv
  <2>2. active' \in Table
    <3>1. active' = ApplyEntry(active, wal[pos + 1])
      BY <1>4, ZenonT(40) DEF Apply
    <3>2. GoodTable(ApplyEntry(active, wal[pos + 1]))
      BY <2>1, AppliedGood DEF SiblingsInv
    <3>. QED BY <3>1, <3>2, GoodIsTable
  <2>3. pos' \in Nat
    <3>1. pos' = pos + 1
      BY <1>4, ZenonT(40) DEF Apply
    <3>. QED BY <3>1, TypeParts, SMT DEF MemTypes
  <2>4. errs' \subseteq Writer /\ batch' \subseteq Writer
    <3>1. wal[pos + 1].by \in Writer
      BY <2>1 DEF Entry
    <3>. QED BY <3>1, <1>4, ZenonT(40) DEF Apply, TypeOK
  <2>5. cpc' \in {"idle", "apply", "swap"} /\ mu' \in BOOLEAN /\ crossed' \in BOOLEAN
    BY <1>4, ZenonT(40) DEF Apply, TypeOK
  <2>6. (wr \in [Writer -> [pc : WriterPC, key : Key, items : SUBSET Version, prev : SUBSET Version]])'
    <3>1. CASE UNCHANGED wr
      BY <3>1 DEF TypeOK
    <3>2. CASE \E bads : Done(batch, bads)
      BY <3>2, DoneTypes
    <3>. QED BY <1>4, <3>1, <3>2 DEF Apply
  <2>7. UNCHANGED <<logVars, manifestVars, files, tick, up, flushVars, sstables, queue,
                    halted, closing, comp, restarts>>
    BY <1>4, ZenonT(40) DEF Apply
  <2>8. MemTypes'
    BY <2>2, <2>3, <2>7, TypeParts DEF MemTypes
  <2>9. CommitTypes'
    BY <2>4, <2>5, <2>7, TypeParts DEF CommitTypes
  <2>10. WriterType'
    BY <2>6 DEF WriterType
  <2>. QED BY <2>7, <2>8, <2>9, <2>10, TypeFrame, TypeJoin
<1>5. CASE Swap
  <2>1. EmptyTable \in Table
    BY EmptyIsTable
  <2>2. (wr \in [Writer -> [pc : WriterPC, key : Key, items : SUBSET Version, prev : SUBSET Version]])'
    BY <1>5, DoneTypes DEF Swap
  <2>3. seq' \in Nat /\ wal' = wal /\ gone' = gone
    BY <1>5, SMT DEF Swap, Rotate, TypeOK
  <2>4. /\ UNCHANGED <<manifestVars, files, tick, up, pos, flid, deletes, sstables, queue, mu,
                        crossed, halted, closing, comp, restarts>>
        /\ cpc' = "idle" /\ batch' = {} /\ errs' = {}
    BY <1>5, ZenonT(40) DEF Swap
  <2>5. \/ flushing' = active /\ active' = EmptyTable /\ sealed' = seq /\ flpc' = "write"
        \/ flushing' = flushing /\ active' = active /\ sealed' = sealed /\ flpc' = flpc
    BY <1>5 DEF Swap
  <2>6. DiskTypes /\ MemTypes /\ CommitTypes
    BY TypeParts, ZenonT(40)
  <2>7. DiskTypes'
    BY ONLY <2>3, <2>4, <2>6 DEF DiskTypes, manifestVars
  <2>8. MemTypes'
    BY ONLY <2>1, <2>4, <2>5, <2>6 DEF MemTypes, DiskTypes
  <2>9. CommitTypes'
    BY ONLY <2>4, <2>6 DEF CommitTypes
  <2>10. WriterType'
    BY <2>2, ZenonT(40) DEF WriterType
  <2>. QED BY <2>4, <2>7, <2>8, <2>9, <2>10, TypeFrame, TypeJoin
<1>. QED
  BY <1>1, <1>2, <1>3, <1>4, <1>5 DEF Committer

\* The flush keeps TypeOK.
LEMMA TypeFlush == ASSUME IMem, MergeFacts, Flush PROVE TypeOK'
<1>. USE DEF IMem
<1>0. EmptyTable \in Table
  BY EmptyIsTable
<1>1. CASE FlushWrite
  <2>1. tick' \in Nat /\ flid' \in SSTableID
    <3>1. tick \in Nat /\ flid \in SSTableID
      BY ZenonT(40) DEF TypeOK
    <3>2. (tick' = tick + 1 /\ flid' = <<tick', 0>>) \/ UNCHANGED <<tick, flid>>
      BY <1>1 DEF FlushWrite
    <3>. QED BY ONLY <3>1, <3>2, SMT DEF SSTableID
  <2>2. (DOMAIN files \subseteq SSTableID /\ \A id \in DOMAIN files : files[id] \in Table)'
    BY <1>1, <2>1, ZenonT(40) DEF FlushWrite, TypeOK
  <2>3. flpc' \in {"add", "putback"}
    BY <1>1 DEF FlushWrite
  <2>7. UNCHANGED <<logVars, manifestVars, up, pos, active, flushing, sealed, deletes, sstables,
                   commitVars, closing, comp, wr, restarts>>
    BY <1>1, ZenonT(40) DEF FlushWrite
  <2>8. DiskTypes'
    BY <2>1, <2>2, <2>7, TypeParts DEF DiskTypes
  <2>9. MemTypes'
    BY <2>1, <2>3, <2>7, TypeParts DEF MemTypes
  <2>. QED BY <2>7, <2>8, <2>9, TypeFrame, TypeJoin
<1>2. CASE FlushAdd
  <2>1. flid \in SSTableID /\ <<>> \in Seq(SSTableID)
    BY SMT DEF TypeOK
  <2>2. WriteLine(AddLine(flid)) \/ TearLine(AddLine(flid)) \/ UNCHANGED manifestVars
    BY <1>2 DEF FlushAdd, WriteLineFails
  <2>3. /\ (live \subseteq SSTableID /\ bad \in BOOLEAN)'
        /\ (tail.op \in {"NONE", "BAD", "REMOVE"} /\ tail.ids \in Seq(SSTableID))'
    BY <2>1, <2>2, LineTypes, ZenonT(40)
  <2>4. flpc' \in {"install", "putback"}
    BY <1>2 DEF FlushAdd
  <2>7. UNCHANGED <<logVars, files, tick, up, pos, active, flushing, sealed, flid, deletes,
                   sstables, commitVars, closing, comp, wr, restarts>>
    BY <1>2, ZenonT(40) DEF FlushAdd
  <2>8. DiskTypes'
    BY <2>3, <2>7, TypeParts DEF DiskTypes
  <2>9. MemTypes'
    BY <2>4, <2>7, TypeParts DEF MemTypes
  <2>. QED BY <2>7, <2>8, <2>9, TypeFrame, TypeJoin
<1>3. CASE FlushInstall
  <2>1. sstables' \in Seq(SSTableID)
    <3>1. <<flid>> \in Seq(SSTableID) /\ sstables \in Seq(SSTableID)
      BY SMT DEF TypeOK
    <3>. QED BY <3>1, <1>3, ConcatDomain, ZenonT(40) DEF FlushInstall
  <2>2. flushing' = EmptyTable /\ flpc' = "none" /\ deletes' = deletes \cup {sealed}
    BY <1>3 DEF FlushInstall
  <2>7. UNCHANGED <<logVars, manifestVars, files, tick, up, pos, active, sealed, flid,
                   commitVars, closing, comp, wr, restarts>>
    BY <1>3, ZenonT(40) DEF FlushInstall
  <2>8. MemTypes'
    BY <1>0, <2>1, <2>2, <2>7, TypeParts DEF MemTypes
  <2>. QED BY <2>7, <2>8, TypeFrame, TypeJoin
<1>4. CASE FlushPutBack
  <2>1. active' \in Table
    BY <1>4, PutBackGood, GoodIsTable, ZenonT(40) DEF FlushPutBack, SiblingsInv
  <2>2. flushing' = EmptyTable /\ flpc' = "none"
    BY <1>4 DEF FlushPutBack
  <2>7. UNCHANGED <<logVars, manifestVars, files, tick, up, pos, sealed, flid, deletes, sstables,
                   commitVars, closing, comp, wr, restarts>>
    BY <1>4, ZenonT(40) DEF FlushPutBack
  <2>8. MemTypes'
    BY <1>0, <2>1, <2>2, <2>7, TypeParts DEF MemTypes
  <2>. QED BY <2>7, <2>8, TypeFrame, TypeJoin
<1>5. CASE FlushDelete
  <2>1. PICK s \in deletes : DeleteThrough(s, "unlink" \in Faults) /\ deletes' = deletes \ {s}
    BY <1>5 DEF FlushDelete
  <2>2. gone' \in Nat
    BY <2>1, SMT DEF DeleteThrough, TypeOK
  <2>3. UNCHANGED <<wal, seq>>
    BY <2>1 DEF DeleteThrough
  <2>7. UNCHANGED <<manifestVars, files, tick, up, pos, active, flushing, sealed, flpc, flid,
                   sstables, commitVars, closing, comp, wr, restarts>>
    BY <1>5, ZenonT(40) DEF FlushDelete
  <2>8. DiskTypes'
    BY <2>2, <2>3, <2>7, TypeParts DEF DiskTypes
  <2>9. MemTypes'
    BY <2>1, <2>7, TypeParts DEF MemTypes
  <2>. QED BY <2>7, <2>8, <2>9, TypeFrame, TypeJoin
<1>. QED
  BY <1>1, <1>2, <1>3, <1>4, <1>5 DEF Flush

\* Compaction keeps TypeOK.
LEMMA TypeCompact == ASSUME IMem, MergeFacts, Compact PROVE TypeOK'
<1>. USE DEF IMem
<1>0. comp.run \in Seq(SSTableID) /\ comp.id \in SSTableID
  BY DEF TypeOK
<1>1. CASE CompactSelect
  <2>1. PICK i \in DOMAIN sstables, j \in DOMAIN sstables :
          /\ SelectTierForCompaction(i, j)
          /\ comp' = [pc |-> "write", run |-> SubSeq(sstables, i, j), id |-> <<0, 0>>]
    BY <1>1, ZenonT(40) DEF CompactSelect
  <2>2. SubSeq(sstables, i, j) \in Seq(SSTableID)
    BY <2>1, SelectFacts, ZenonT(40)
  <2>3. (comp \in [pc : {"idle", "write", "add", "remove", "swap", "delete"},
                  run : Seq(SSTableID), id : SSTableID])'
    BY <2>1, <2>2 DEF SSTableID
  <2>7. UNCHANGED <<logVars, manifestVars, files, tick, up, pos, active, flushVars, sstables,
                   commitVars, closing, wr, restarts>>
    BY <1>1, ZenonT(40) DEF CompactSelect
  <2>8. CompType'
    BY <2>3 DEF CompType
  <2>. QED BY <2>7, <2>8, TypeFrame, TypeJoin
<1>2. CASE CompactWrite
  <2>0. UNCHANGED <<logVars, manifestVars, tick, up, pos, active, flushVars, sstables, commitVars,
                    closing, wr, restarts>>
    BY <1>2, ZenonT(40) DEF CompactWrite
  <2>1. CASE comp' = NoRun /\ UNCHANGED files
    <3>1. (comp \in [pc : {"idle", "write", "add", "remove", "swap", "delete"},
                    run : Seq(SSTableID), id : SSTableID])'
      BY <2>1, NoRunType
    <3>2. (DOMAIN files \subseteq SSTableID /\ \A f \in DOMAIN files : files[f] \in Table)'
      BY <2>1 DEF TypeOK
    <3>3. DiskTypes' /\ CompType'
      BY <2>0, <3>1, <3>2, TypeParts DEF DiskTypes, CompType
    <3>. QED BY <2>0, <3>3, TypeFrame, TypeJoin
  <2>2. ASSUME NEW c \in 1..MaxSuffix, NEW id, id = <<comp.run[1][1], c>>,
               files' = [f \in DOMAIN files \cup {id} |-> IF f = id THEN Merge(comp.run) ELSE files[f]],
               comp' = [comp EXCEPT !.pc = "add", !.id = id] \/ comp' = NoRun
        PROVE  TypeOK'
    <3>1. comp.run[1] \in SSTableID /\ id \in SSTableID
      <4>1. 1 \in DOMAIN comp.run
        <5>1. Len(comp.run) > 0
          BY <1>2, ZenonT(40) DEF FilesInv, CompactWrite
        <5>. QED BY <5>1, <1>0, SeqFacts, SMT
      <4>2. comp.run[1] \in SSTableID
        BY <4>1, <1>0, SeqFacts
      <4>. QED BY <4>2, <2>2, ConstantsAssumption, SMT DEF SSTableID
    <3>2. Merge(comp.run) \in Table
      BY <1>2, GoodIsTable, ZenonT(40) DEF CompactWrite, MergeFacts
    <3>3. (DOMAIN files \subseteq SSTableID /\ \A f \in DOMAIN files : files[f] \in Table)'
      BY <2>2, <3>1, <3>2, ZenonT(40) DEF TypeOK
    <3>4. (comp \in [pc : {"idle", "write", "add", "remove", "swap", "delete"},
                    run : Seq(SSTableID), id : SSTableID])'
      <4>1. CASE comp' = NoRun
        BY <4>1, NoRunType
      <4>2. CASE comp' = [comp EXCEPT !.pc = "add", !.id = id]
        BY <4>2, <3>1, ZenonT(40) DEF TypeOK
      <4>. QED BY <2>2, <4>1, <4>2
    <3>5. DiskTypes' /\ CompType'
      BY <2>0, <3>3, <3>4, TypeParts DEF DiskTypes, CompType
    <3>. QED BY <2>0, <3>5, TypeFrame, TypeJoin
  <2>. QED BY <1>2, <2>1, <2>2, ZenonT(40) DEF CompactWrite
<1>3. CASE CompactAdd
  <2>1. WriteLine(AddLine(comp.id)) \/ TearLine(AddLine(comp.id)) \/ UNCHANGED manifestVars
    BY <1>3 DEF CompactAdd, WriteLineFails
  <2>2. /\ (live \subseteq SSTableID /\ bad \in BOOLEAN)'
        /\ (tail.op \in {"NONE", "BAD", "REMOVE"} /\ tail.ids \in Seq(SSTableID))'
    BY <1>0, <2>1, LineTypes, ZenonT(40)
  <2>3. (comp \in [pc : {"idle", "write", "add", "remove", "swap", "delete"},
                    run : Seq(SSTableID), id : SSTableID])'
    BY <1>3, NoRunType, ZenonT(40) DEF CompactAdd, TypeOK
  <2>4. (DOMAIN files \subseteq SSTableID /\ \A f \in DOMAIN files : files[f] \in Table)'
    BY <1>3 DEF CompactAdd, TypeOK
  <2>7. UNCHANGED <<logVars, tick, up, pos, active, flushVars, sstables, commitVars, closing,
                   wr, restarts>>
    BY <1>3, ZenonT(40) DEF CompactAdd
  <2>8. DiskTypes'
    BY <2>2, <2>4, <2>7, TypeParts DEF DiskTypes
  <2>9. CompType'
    BY <2>3 DEF CompType
  <2>. QED BY <2>7, <2>8, <2>9, TypeFrame, TypeJoin
<1>4. CASE CompactRemove
  <2>1. WriteLine(RemoveLine(comp.run)) \/ TearLine(RemoveLine(comp.run)) \/ UNCHANGED manifestVars
    BY <1>4 DEF CompactRemove, WriteLineFails
  <2>2. /\ (live \subseteq SSTableID /\ bad \in BOOLEAN)'
        /\ (tail.op \in {"NONE", "BAD", "REMOVE"} /\ tail.ids \in Seq(SSTableID))'
    BY <1>0, <2>1, LineTypes, ZenonT(40)
  <2>3. (comp \in [pc : {"idle", "write", "add", "remove", "swap", "delete"},
                    run : Seq(SSTableID), id : SSTableID])'
    BY <1>4, NoRunType, ZenonT(40) DEF CompactRemove, TypeOK
  <2>7. UNCHANGED <<logVars, files, tick, up, pos, active, flushVars, sstables, commitVars,
                   closing, wr, restarts>>
    BY <1>4, ZenonT(40) DEF CompactRemove
  <2>8. DiskTypes'
    BY <2>2, <2>7, TypeParts DEF DiskTypes
  <2>9. CompType'
    BY <2>3 DEF CompType
  <2>. QED BY <2>7, <2>8, <2>9, TypeFrame, TypeJoin
<1>5. CASE CompactSwap
  <2>1. PICK i \in DOMAIN sstables : RunAt(i) /\ sstables' = ReplaceRun(sstables, i, comp.run, comp.id)
    BY <1>5 DEF CompactSwap
  <2>2. sstables' \in Seq(SSTableID)
    <3>1. Len(comp.run) > 0
      BY <1>5 DEF CompactSwap, FilesInv
    <3>. QED BY <3>1, <2>1, ReplaceFacts, ZenonT(40)
  <2>3. (comp \in [pc : {"idle", "write", "add", "remove", "swap", "delete"},
                    run : Seq(SSTableID), id : SSTableID])'
    BY <1>5, ZenonT(40) DEF CompactSwap, TypeOK
  <2>7. UNCHANGED <<logVars, manifestVars, files, tick, up, pos, active, flushVars, commitVars,
                   closing, wr, restarts>>
    BY <1>5, ZenonT(40) DEF CompactSwap
  <2>8. MemTypes'
    BY <2>2, <2>7, TypeParts DEF MemTypes
  <2>9. CompType'
    BY <2>3 DEF CompType
  <2>. QED BY <2>7, <2>8, <2>9, TypeFrame, TypeJoin
<1>6. CASE CompactDelete
  <2>1. (DOMAIN files \subseteq SSTableID /\ \A f \in DOMAIN files : files[f] \in Table)'
    BY <1>6 DEF CompactDelete, TypeOK
  <2>2. comp' = NoRun
    BY <1>6 DEF CompactDelete
  <2>7. UNCHANGED <<logVars, manifestVars, tick, up, pos, active, flushVars, sstables,
                   commitVars, closing, wr, restarts>>
    BY <1>6, ZenonT(40) DEF CompactDelete
  <2>8. DiskTypes'
    BY <2>1, <2>7, TypeParts DEF DiskTypes
  <2>9. CompType'
    BY <2>2, NoRunType DEF CompType
  <2>. QED BY <2>7, <2>8, <2>9, TypeFrame, TypeJoin
<1>. QED
  BY <1>1, <1>2, <1>3, <1>4, <1>5, <1>6 DEF Compact

\* The end of the process keeps TypeOK.
LEMMA TypeStop ==
  ASSUME TypeOK, Stop,
         (wal \in Seq(Entry) /\ gone \in Nat /\ live \subseteq SSTableID /\ bad \in BOOLEAN)',
         (tail.op \in {"NONE", "BAD", "REMOVE"} /\ tail.ids \in Seq(SSTableID))',
         UNCHANGED <<seq, files, tick>>
  PROVE  TypeOK'
<1>1. active' \in Table /\ flushing' \in Table
  BY EmptyIsTable DEF Stop
<1>2. (wr \in [Writer -> [pc : WriterPC, key : Key, items : SUBSET Version, prev : SUBSET Version]])'
  BY ZenonT(40) DEF Stop, TypeOK, WriterPC
<1>3. sstables' \in Seq(SSTableID) /\ queue' \in Seq(Writer) /\ flid' \in SSTableID
  BY SMT DEF Stop, SSTableID
<1>4. (comp \in [pc : {"idle", "write", "add", "remove", "swap", "delete"},
                    run : Seq(SSTableID), id : SSTableID])'
  BY NoRunType DEF Stop
<1>5. (DOMAIN files \subseteq SSTableID /\ \A f \in DOMAIN files : files[f] \in Table)'
  BY DEF TypeOK
<1>6. up' = "down" /\ pos' \in Nat /\ sealed' \in Nat /\ flpc' = "none" /\ deletes' = {}
        /\ cpc' = "idle" /\ batch' = {} /\ errs' = {} /\ mu' = FALSE /\ crossed' = FALSE
        /\ halted' = FALSE /\ closing' = FALSE /\ restarts' \in Nat /\ seq' \in Nat /\ tick' \in Nat
  BY SMTT(40) DEF Stop, TypeOK
<1>. QED
  BY <1>1, <1>2, <1>3, <1>4, <1>5, <1>6, ZenonT(40) DEF TypeOK

\* Close, a crash and Open keep TypeOK.
LEMMA TypeRest ==
  ASSUME IMem, MergeFacts, CloseBegin \/ CloseEnd \/ Crash \/ Recover
  PROVE  TypeOK'
<1>. USE DEF IMem
<1>1. CASE CloseBegin
  <2>1. /\ closing' = TRUE
        /\ UNCHANGED <<logVars, manifestVars, files, tick, up, pos, active, flushVars, sstables,
                       commitVars, comp, wr, restarts>>
    BY <1>1, ZenonT(40) DEF CloseBegin
  <2>2. CommitTypes'
    BY <2>1, TypeParts DEF CommitTypes
  <2>. QED BY <2>1, <2>2, TypeFrame, TypeJoin
<1>2. CASE CloseEnd
  <2>1. (wal \in Seq(Entry) /\ gone \in Nat /\ live \subseteq SSTableID /\ bad \in BOOLEAN)'
    BY <1>2 DEF CloseEnd, TypeOK
  <2>2. (tail.op \in {"NONE", "BAD", "REMOVE"} /\ tail.ids \in Seq(SSTableID))'
    BY <1>2 DEF CloseEnd, TypeOK
  <2>. QED BY <1>2, <2>1, <2>2, TypeStop DEF CloseEnd
<1>3. CASE Crash
  <2>1. wal' \in Seq(Entry)
    <3>1. CASE UNCHANGED wal
      BY <3>1 DEF TypeOK
    <3>2. ASSUME NEW ws \in Batches, NEW n \in 1..Len(ws), wal' = wal \o SubSeq(Entries(ws), 1, n)
          PROVE  wal' \in Seq(Entry)
      <4>1. n \in 0..Len(Entries(ws))
        BY EntriesFacts, SMTT(40)
      <4>. QED BY <3>2, <4>1, LogGrows
    <3>. QED BY <1>3, <3>1, <3>2, ZenonT(40) DEF Crash, CrashLog
  <2>2. gone' \in Nat
    BY <1>3, SMT DEF Crash, TypeOK
  <2>3. /\ (live \subseteq SSTableID /\ bad \in BOOLEAN)'
        /\ (tail.op \in {"NONE", "BAD", "REMOVE"} /\ tail.ids \in Seq(SSTableID))'
    <3>1. flid \in SSTableID /\ comp.id \in SSTableID /\ comp.run \in Seq(SSTableID)
      BY DEF TypeOK
    <3>2. \/ UNCHANGED manifestVars \/ TearLine(AddLine(flid)) \/ TearLine(AddLine(comp.id))
          \/ TearLine(RemoveLine(comp.run))
      BY <1>3 DEF Crash, CrashManifest
    <3>. QED BY <3>1, <3>2, LineTypes, ZenonT(40)
  <2>. QED BY <1>3, <2>1, <2>2, <2>3, TypeStop DEF Crash
<1>4. CASE Open
  <2>1. pos' \in Nat /\ seq' \in Nat /\ wal' = wal /\ gone' = gone
    BY <1>4, SMTT(40) DEF Open, OpenLog, TypeOK
  <2>2. up' \in {"failed", "replay"}
    BY <1>4 DEF Open
  <2>7. UNCHANGED <<manifestVars, files, tick, active, flushVars, sstables, commitVars, closing,
                   comp, wr, restarts>>
    BY <1>4, ZenonT(40) DEF Open
  <2>8. DiskTypes'
    BY <2>1, <2>7, TypeParts DEF DiskTypes
  <2>9. MemTypes'
    BY <2>1, <2>2, <2>7, TypeParts DEF MemTypes
  <2>. QED BY <2>7, <2>8, <2>9, TypeFrame, TypeJoin
<1>5. CASE Replay
  <2>1. active' \in Table
    <3>1. CASE pos < Len(wal) /\ active' = ApplyEntry(active, wal[pos + 1])
      <4>1. pos + 1 \in DOMAIN wal /\ wal[pos + 1] \in Entry /\ SiblingSet(wal[pos + 1].items)
        BY <3>1, SMTT(40) DEF TypeOK, SiblingsInv
      <4>2. GoodTable(ApplyEntry(active, wal[pos + 1]))
        BY <4>1, AppliedGood DEF SiblingsInv
      <4>. QED BY <3>1, <4>2, GoodIsTable
    <3>2. CASE active' = active
      BY <3>2 DEF TypeOK
    <3>. QED BY <1>5, <3>1, <3>2 DEF Replay
  <2>2. up' \in {"replay", "load"} /\ pos' \in Nat
    BY <1>5, TypeParts, SMT DEF Replay, MemTypes
  <2>7. UNCHANGED <<logVars, manifestVars, files, tick, flushVars, sstables, commitVars, closing,
                   comp, wr, restarts>>
    BY <1>5, ZenonT(40) DEF Replay
  <2>8. MemTypes'
    BY <2>1, <2>2, <2>7, TypeParts DEF MemTypes
  <2>. QED BY <2>7, <2>8, TypeFrame, TypeJoin
<1>6. CASE Load
  <2>1. sstables' \in Seq(SSTableID)
    <3>1. sstables \in Seq(SSTableID) /\ live \subseteq SSTableID
      BY DEF TypeOK
    <3>2. sstables' = sstables \/ \E id \in live : sstables' = Append(sstables, id)
      BY <1>6 DEF Load
    <3>. QED BY <3>1, <3>2, SMT
  <2>2. /\ up' \in {"up", "failed", "load"}
        /\ UNCHANGED <<logVars, manifestVars, files, tick, pos, active, flushVars, commitVars,
                       closing, comp, wr, restarts>>
    BY <1>6 DEF Load
  <2>3. MemTypes'
    BY <2>1, <2>2, TypeParts DEF MemTypes
  <2>. QED BY <2>2, <2>3, TypeFrame, TypeJoin
<1>. QED
  BY <1>1, <1>2, <1>3, <1>4, <1>5, <1>6 DEF Recover

-----------------------------------------------------------------------------
\* Every list anywhere stays a sibling list.
LEMMA SiblingsStep == ASSUME IMem, MergeFacts, Next PROVE SiblingsInv'
<1>. USE DEF IMem
<1>a. ASSUME UNCHANGED <<active, flushing, files, wal>>,
             (\A w \in Writer : SiblingSet(wr[w].items) /\ SiblingSet(wr[w].prev))'
      PROVE  SiblingsInv'
  BY <1>a DEF SiblingsInv
<1>b. ASSUME UNCHANGED <<active, flushing, files, wal, wr>> PROVE SiblingsInv'
  BY <1>b DEF SiblingsInv
<1>c. ASSUME \A w \in Writer : wr'[w].items = wr[w].items /\ wr'[w].prev = wr[w].prev
      PROVE  (\A w \in Writer : SiblingSet(wr[w].items) /\ SiblingSet(wr[w].prev))'
  BY <1>c DEF SiblingsInv
<1>d. ASSUME NEW w \in Writer, NEW k, NEW pc, NEW items, NEW prev, Write(w, k, pc, items, prev),
             SiblingSet(items), SiblingSet(prev)
      PROVE  SiblingsInv'
  <2>1. \/ wr' = [wr EXCEPT ![w] = [pc |-> "failed", key |-> k, items |-> {}, prev |-> {}]]
        \/ wr' = [wr EXCEPT ![w] = [pc |-> pc, key |-> k, items |-> items, prev |-> prev]]
    BY <1>d, ZenonT(40) DEF Write
  <2>2. \A u \in Writer :
          \/ wr'[u] = wr[u]
          \/ wr'[u].items = {} /\ wr'[u].prev = {}
          \/ wr'[u].items = items /\ wr'[u].prev = prev
    BY <2>1, SMT DEF TypeOK
  <2>3. (\A u \in Writer : SiblingSet(wr[u].items) /\ SiblingSet(wr[u].prev))'
    BY <2>2, <1>d, ZenonT(40) DEF SiblingsInv, MergeFacts
  <2>. QED BY <1>a, <1>d, <2>3 DEF Write
<1>e. ASSUME NEW ws, Fail(ws) PROVE \A w \in Writer : wr'[w].items = wr[w].items /\ wr'[w].prev = wr[w].prev
  BY <1>e DEF Fail, TypeOK
<1>f. ASSUME NEW ws, NEW bads, Done(ws, bads)
      PROVE  \A w \in Writer : wr'[w].items = wr[w].items /\ wr'[w].prev = wr[w].prev
  BY <1>f DEF Done, TypeOK
<1>g. ASSUME NEW ws \in Batches, NEW n \in 0..Len(Entries(ws)), wal' = wal \o SubSeq(Entries(ws), 1, n)
      PROVE  (\A i \in DOMAIN wal : SiblingSet(wal[i].items))'
  <2>1. /\ DOMAIN wal' = 1..(Len(wal) + n) /\ DOMAIN wal = 1..Len(wal) /\ Len(wal) \in Nat
        /\ \A i \in 1..Len(wal) : wal'[i] = wal[i]
        /\ \A i \in 1..n : i \in DOMAIN queue /\ wal'[Len(wal) + i] =
              NewEntry(wr[queue[i]].pc, wr[queue[i]].key, wr[queue[i]].items, queue[i])
    BY <1>g, LogGrows, ZenonT(40)
  <2>2. ASSUME NEW i \in 1..n PROVE SiblingSet(wal'[Len(wal) + i].items)
    <3>1. queue[i] \in Writer
      <4>1. queue \in Seq(Writer) /\ i \in DOMAIN queue
        BY <2>1, ZenonT(40) DEF TypeOK
      <4>. QED BY <4>1, SMT
    <3>2. wal'[Len(wal) + i].items = wr[queue[i]].items
      <4>1. wal'[Len(wal) + i] =
              NewEntry(wr[queue[i]].pc, wr[queue[i]].key, wr[queue[i]].items, queue[i])
        BY <2>1
      <4>. QED BY <4>1, SMT DEF NewEntry
    <3>. QED BY <3>1, <3>2 DEF SiblingsInv
  <2>3. ASSUME NEW i \in DOMAIN wal' PROVE SiblingSet(wal'[i].items)
    <3>1. CASE i <= Len(wal)
      BY <3>1, <2>1, SMT DEF SiblingsInv
    <3>2. CASE i > Len(wal)
      <4>1. i - Len(wal) \in 1..n /\ Len(wal) + (i - Len(wal)) = i
        BY ONLY i \in DOMAIN wal', <2>1, <3>2, SMT
      <4>. QED BY <4>1, <2>2, ZenonT(40)
    <3>. QED BY <3>1, <3>2, <2>1, SMT
  <2>. QED BY <2>3
<1>h. ASSUME NEW i \in DOMAIN wal PROVE GoodTable(ApplyEntry(active, wal[i]))
  BY AppliedGood, SMT DEF SiblingsInv, TypeOK
<1>1. ASSUME NEW w \in Writer, NEW k \in Key, Read(w, k) PROVE SiblingsInv'
  <2>1. SiblingSet(GetAll(k))
    BY ZenonT(40) DEF MergeFacts
  <2>2. wr' = [wr EXCEPT ![w] = [pc |-> "read", key |-> k, items |-> {}, prev |-> GetAll(k)]]
    BY <1>1, ZenonT(40) DEF Read
  <2>3. \A u \in Writer :
          \/ wr'[u] = wr[u]
          \/ wr'[u].items = {} /\ wr'[u].prev = GetAll(k)
    BY <2>2 DEF TypeOK
  <2>4. (\A u \in Writer : SiblingSet(wr[u].items) /\ SiblingSet(wr[u].prev))'
    BY <2>1, <2>3, ZenonT(40) DEF SiblingsInv, MergeFacts
  <2>. QED BY <1>a, <1>1, <2>4 DEF Read
<1>2. ASSUME NEW w \in Writer, NEW v \in Item, Put(w, v) PROVE SiblingsInv'
  <2>1. SiblingSet({v}) /\ SiblingSet(wr[w].prev)
    BY ZenonT(40) DEF SiblingsInv, MergeFacts
  <2>. QED BY <1>2, <1>d, <2>1 DEF Put
<1>3. ASSUME NEW w \in Writer, Restore(w) PROVE SiblingsInv'
  <2>1. SiblingSet(wr[w].prev)
    BY DEF SiblingsInv
  <2>. QED BY <1>3, <1>d, <2>1, ZenonT(40) DEF Restore, MergeFacts
<1>4. CASE CommitHalted
  BY <1>4, <1>a, <1>c, <1>e, ZenonT(40) DEF CommitHalted
<1>5. CASE CommitWrite
  <2>1. PICK ws \in Batches : WriteBatch(Entries(ws))
    BY <1>5 DEF CommitWrite
  <2>2. Len(Entries(ws)) \in 0..Len(Entries(ws)) /\ wal' = wal \o SubSeq(Entries(ws), 1, Len(Entries(ws)))
    BY <2>1, WholeBatch, SMT DEF WriteBatch
  <2>3. (\A i \in DOMAIN wal : SiblingSet(wal[i].items))'
    BY <2>2, <1>g, ZenonT(40)
  <2>. QED BY <1>5, <2>3, ZenonT(40) DEF CommitWrite, SiblingsInv
<1>6. CASE CommitFail
  <2>1. PICK ws \in Batches : TornBatch(Entries(ws)) /\ Fail(Range(ws))
    BY <1>6 DEF CommitFail
  <2>2. (\A i \in DOMAIN wal : SiblingSet(wal[i].items))'
    BY <2>1, <1>g, ZenonT(40) DEF TornBatch, WriteBatch
  <2>3. (\A w \in Writer : SiblingSet(wr[w].items) /\ SiblingSet(wr[w].prev))'
    BY <2>1, <1>c, <1>e
  <2>. QED BY <1>6, <2>2, <2>3, ZenonT(40) DEF CommitFail, SiblingsInv
<1>7. CASE Apply
  <2>1. pos + 1 \in DOMAIN wal /\ active' = ApplyEntry(active, wal[pos + 1])
    <3>1. active' = ApplyEntry(active, wal[pos + 1]) /\ pos < Len(wal)
      BY <1>7 DEF Apply, CommitInv
    <3>2. pos \in Nat /\ wal \in Seq(Entry)
      BY DEF TypeOK
    <3>3. pos + 1 \in DOMAIN wal
      BY ONLY <3>1, <3>2, SMT
    <3>. QED BY <3>1, <3>3
  <2>2. GoodTable(active')
    BY <2>1, <1>h
  <2>3. \A w \in Writer : wr'[w].items = wr[w].items /\ wr'[w].prev = wr[w].prev
    BY <1>7, <1>f DEF Apply
  <2>. QED BY <1>7, <2>2, <2>3, <1>c, ZenonT(40) DEF Apply, SiblingsInv
<1>8. CASE Swap
  <2>1. GoodTable(active') /\ GoodTable(flushing')
    BY <1>8, EmptyGood DEF Swap, SiblingsInv
  <2>2. \A w \in Writer : wr'[w].items = wr[w].items /\ wr'[w].prev = wr[w].prev
    BY <1>8, <1>f DEF Swap
  <2>3. wal' = wal
    BY <1>8 DEF Swap, Rotate
  <2>. QED BY <1>8, <2>1, <2>2, <2>3, <1>c DEF Swap, SiblingsInv
<1>9. CASE FlushWrite
  BY <1>9 DEF FlushWrite, SiblingsInv
<1>10. CASE FlushAdd
  BY <1>10, <1>b DEF FlushAdd
<1>11. CASE FlushInstall
  BY <1>11, EmptyGood DEF FlushInstall, SiblingsInv
<1>12. CASE FlushPutBack
  BY <1>12, EmptyGood, PutBackGood, ZenonT(40) DEF FlushPutBack, SiblingsInv
<1>13. CASE FlushDelete
  BY <1>13, <1>b DEF FlushDelete, DeleteThrough
<1>14. CASE CompactSelect
  BY <1>14, <1>b DEF CompactSelect
<1>15. CASE CompactWrite
  <2>1. GoodTable(Merge(comp.run))
    BY <1>15, ZenonT(40) DEF CompactWrite, MergeFacts
  <2>2. (\A id \in DOMAIN files : GoodTable(files[id]))'
    BY <1>15, <2>1 DEF CompactWrite, SiblingsInv
  <2>. QED BY <1>15, <2>2, ZenonT(40) DEF CompactWrite, SiblingsInv
<1>16. CASE CompactAdd
  <2>1. (\A id \in DOMAIN files : GoodTable(files[id]))'
    BY <1>16 DEF CompactAdd, SiblingsInv
  <2>. QED BY <1>16, <2>1 DEF CompactAdd, SiblingsInv
<1>17. CASE CompactRemove
  BY <1>17, <1>b DEF CompactRemove
<1>18. CASE CompactSwap
  BY <1>18, <1>b DEF CompactSwap
<1>19. CASE CompactDelete
  <2>1. (\A id \in DOMAIN files : GoodTable(files[id]))'
    BY <1>19 DEF CompactDelete, SiblingsInv
  <2>. QED BY <1>19, <2>1, ZenonT(40) DEF CompactDelete, SiblingsInv
<1>20. CASE CloseBegin
  BY <1>20, <1>b DEF CloseBegin
<1>21. ASSUME Stop PROVE /\ GoodTable(active') /\ GoodTable(flushing')
                         /\ (\A w \in Writer : SiblingSet(wr[w].items) /\ SiblingSet(wr[w].prev))'
  <2>1. \A w \in Writer : wr'[w].items = wr[w].items /\ wr'[w].prev = wr[w].prev
    BY <1>21 DEF Stop, TypeOK
  <2>. QED BY <1>21, <2>1, <1>c, EmptyGood DEF Stop
<1>22. CASE CloseEnd
  BY <1>22, <1>21 DEF CloseEnd, SiblingsInv
<1>23. CASE Crash
  <2>1. (\A i \in DOMAIN wal : SiblingSet(wal[i].items))'
    <3>1. CASE UNCHANGED wal
      BY <3>1 DEF SiblingsInv
    <3>2. ASSUME NEW ws \in Batches, NEW n \in 1..Len(ws), wal' = wal \o SubSeq(Entries(ws), 1, n)
          PROVE  (\A i \in DOMAIN wal : SiblingSet(wal[i].items))'
      <4>1. n \in 0..Len(Entries(ws))
        BY EntriesFacts, SMT
      <4>. QED BY <3>2, <4>1, <1>g
    <3>. QED BY <1>23, <3>1, <3>2, ZenonT(40) DEF Crash, CrashLog
  <2>. QED BY <1>23, <1>21, <2>1 DEF Crash, SiblingsInv
<1>24. CASE Open
  BY <1>24, <1>b DEF Open, OpenLog
<1>25. CASE Replay
  <2>1. GoodTable(active')
    <3>1. pos < Len(wal) => pos + 1 \in DOMAIN wal
      BY SMT DEF TypeOK
    <3>. QED BY <1>25, <3>1, <1>h DEF Replay, SiblingsInv
  <2>. QED BY <1>25, <2>1 DEF Replay, SiblingsInv
<1>26. CASE Load
  BY <1>26, <1>b DEF Load
<1>. QED
  BY <1>1, <1>2, <1>3, <1>4, <1>5, <1>6, <1>7, <1>8, <1>9, <1>10, <1>11, <1>12, <1>13, <1>14,
     <1>15, <1>16, <1>17, <1>18, <1>19, <1>20, <1>22, <1>23, <1>24, <1>25, <1>26
     DEF Next, Writers, Committer, Flush, Compact, Recover

-----------------------------------------------------------------------------
\* LogInv is preserved: swap runs after apply, so a sealed segment is fully applied.
LEMMA LogStep == ASSUME IMem, Next PROVE LogInv'
<1>. USE DEF IMem
<1>t. /\ seq \in Nat /\ gone \in Nat /\ pos \in Nat /\ Len(wal) \in Nat /\ DOMAIN wal = 1..Len(wal)
      /\ sealed \in Nat /\ (\A s \in deletes : s \in Nat)
      /\ \A i \in DOMAIN wal : wal[i].seg \in Nat
  <2>1. wal \in Seq(Entry)
    BY DEF TypeOK
  <2>2. \A i \in DOMAIN wal : wal[i] \in Entry
    BY <2>1, SeqFacts
  <2>. QED BY <2>1, <2>2, SeqFacts, ZenonT(40) DEF TypeOK, Entry
<1>a. ASSUME UNCHANGED <<gone, seq, pos, wal, up, sealed, deletes>>, flpc' # "none" => flpc # "none"
      PROVE  LogInv'
  BY <1>a DEF LogInv
<1>1. CASE Writers
  BY <1>1, <1>a, ZenonT(40) DEF Writers, Read, Put, Restore, Write
<1>2. CASE CommitHalted
  BY <1>2, <1>a DEF CommitHalted
<1>g. ASSUME NEW ws \in Batches, NEW n \in 0..Len(Entries(ws)), wal' = wal \o SubSeq(Entries(ws), 1, n),
             UNCHANGED <<gone, seq, pos, up, flpc, sealed, deletes>>,
             up = "up", cpc = "idle", ~halted
      PROVE  LogInv'
  <2>1. \A i \in DOMAIN wal' : IF i <= Len(wal) THEN i \in DOMAIN wal /\ wal'[i] = wal[i]
                                                 ELSE wal'[i].seg = seq
    BY <1>g, LogSegments, ZenonT(40)
  <2>2. Len(wal') = Len(wal) + n /\ DOMAIN wal' = 1..(Len(wal) + n)
    BY <1>g, LogGrows
  <2>3. pos = Len(wal)
    BY <1>g DEF CommitInv
  <2>4. ASSUME NEW i \in DOMAIN wal' PROVE wal'[i].seg <= seq /\ (i > pos => wal'[i].seg = seq)
    <3>1. i \in Nat
      BY <1>t, <2>2, SMT
    <3>2. CASE i <= Len(wal)
      BY <3>1, <3>2, <2>1, <2>3, <1>t, SMT DEF LogInv
    <3>3. CASE i > Len(wal)
      BY <3>1, <3>3, <2>1, <1>t, SMT
    <3>. QED BY <3>1, <3>2, <3>3, <1>t, SMT
  <2>5. pos' <= Len(wal') /\ gone' < seq'
    BY <1>g, <1>t, <2>2, <2>3, SMT DEF LogInv
  <2>6. (flpc # "none" => sealed < seq)' /\ (\A s \in deletes : s < seq)'
    BY <1>g DEF LogInv
  <2>. QED BY <1>g, <2>4, <2>5, <2>6, ZenonT(40) DEF LogInv
<1>3. CASE CommitWrite
  <2>1. PICK ws \in Batches : WriteBatch(Entries(ws))
    BY <1>3 DEF CommitWrite
  <2>2. Len(Entries(ws)) \in 0..Len(Entries(ws)) /\ wal' = wal \o SubSeq(Entries(ws), 1, Len(Entries(ws)))
    BY <2>1, WholeBatch, SMT DEF WriteBatch
  <2>. QED BY <1>3, <1>g, <2>1, <2>2 DEF CommitWrite, WriteBatch
<1>4. CASE CommitFail
  BY <1>4, <1>g DEF CommitFail, TornBatch, WriteBatch
<1>5. CASE Apply
  <2>1. pos' = pos + 1 /\ pos < Len(wal) /\ UNCHANGED <<gone, seq, wal, up, flpc, sealed, deletes>> /\ up = "up"
    BY <1>5, ZenonT(40) DEF Apply, CommitInv
  <2>. QED BY <2>1, <1>t, SMT DEF LogInv
<1>6. CASE Swap
  <2>1. pos = Len(wal) /\ UNCHANGED <<gone, wal, pos, up, deletes>> /\ flpc = "none"
    BY <1>6 DEF Swap, CommitInv, Rotate
  <2>2. (seq' = seq + 1 /\ sealed' = seq) \/ (seq' = seq + 1 /\ flpc' = flpc) \/ (seq' = seq /\ flpc' = flpc)
    BY <1>6 DEF Swap, Rotate
  <2>3. up = "up"
    BY <1>6 DEF Swap
  <2>. QED BY <2>1, <2>2, <2>3, <1>t, SMT DEF LogInv
<1>7. CASE FlushWrite \/ FlushAdd
  BY <1>7, <1>a DEF FlushWrite, FlushAdd
<1>8. CASE FlushInstall
  <2>1. UNCHANGED <<gone, seq, pos, wal, up>> /\ flpc' = "none" /\ deletes' = deletes \cup {sealed} /\ flpc # "none"
    BY <1>8 DEF FlushInstall
  <2>. QED BY <2>1 DEF LogInv
<1>9. CASE FlushPutBack
  BY <1>9, <1>a DEF FlushPutBack
<1>10. CASE FlushDelete
  <2>1. PICK s \in deletes : DeleteThrough(s, "unlink" \in Faults) /\ deletes' = deletes \ {s}
    BY <1>10 DEF FlushDelete
  <2>2. gone' < seq
    <3>1. PICK d \in gone..(IF s > gone THEN s ELSE gone) : gone' = d
      BY <2>1 DEF DeleteThrough
    <3>2. gone < seq /\ s < seq /\ s \in Nat /\ seq \in Nat /\ gone \in Nat
      BY <1>t DEF LogInv
    <3>. QED BY <3>1, <3>2, SMTT(40)
  <2>3. UNCHANGED <<seq, pos, wal, up, flpc, sealed>> /\ up = "up"
    BY <1>10, <2>1 DEF FlushDelete, DeleteThrough
  <2>. QED BY <2>1, <2>2, <2>3 DEF LogInv
<1>11. CASE Compact
  BY <1>11, <1>a, ZenonT(40) DEF Compact, CompactSelect, CompactWrite, CompactAdd, CompactRemove, CompactSwap, CompactDelete
<1>12. CASE CloseBegin
  BY <1>12, <1>a DEF CloseBegin
<1>13. CASE CloseEnd
  BY <1>13, <1>t, SMT DEF CloseEnd, Stop, LogInv
<1>14. CASE Crash
  <2>1. gone' <= gone /\ gone' \in Nat
    BY <1>14, <1>t, SMT DEF Crash
  <2>2. /\ Len(wal') \in Nat
        /\ \A i \in DOMAIN wal' : wal'[i].seg <= seq
    <3>1. CASE UNCHANGED wal
      BY <3>1, <1>t, ZenonT(40) DEF LogInv
    <3>2. ASSUME NEW ws \in Batches, NEW n \in 1..Len(ws), wal' = wal \o SubSeq(Entries(ws), 1, n)
          PROVE  /\ Len(wal') \in Nat
                 /\ \A i \in DOMAIN wal' : wal'[i].seg <= seq
      <4>1. n \in 0..Len(Entries(ws))
        BY EntriesFacts, SMT
      <4>2. Len(wal') = Len(wal) + n
        BY <3>2, <4>1, LogGrows
      <4>3. \A i \in DOMAIN wal' : IF i <= Len(wal) THEN i \in DOMAIN wal /\ wal'[i] = wal[i]
                                                     ELSE wal'[i].seg = seq
        BY <3>2, <4>1, LogSegments, ZenonT(40)
      <4>4. \A i \in DOMAIN wal : wal[i].seg <= seq
        BY DEF LogInv
      <4>. QED BY <4>1, <4>2, <4>3, <4>4, <1>t, SMT
    <3>. QED BY <1>14, <3>1, <3>2, ZenonT(40) DEF Crash, CrashLog
  <2>3. up' = "down" /\ pos' = 0 /\ flpc' = "none" /\ deletes' = {} /\ seq' = seq
    BY <1>14 DEF Crash, Stop
  <2>4. gone' < seq' /\ pos' <= Len(wal')
    <3>1. gone < seq /\ gone \in Nat /\ seq \in Nat
      BY <1>t, ZenonT(40) DEF LogInv
    <3>2. Len(wal') \in Nat
      BY <2>2
    <3>. QED BY ONLY <2>1, <2>3, <3>1, <3>2, SMT
  <2>. QED BY <2>2, <2>3, <2>4 DEF LogInv
<1>15. CASE Open
  <2>1. PICK n \in 0..Len(wal) : Unlinked(n) /\ pos' = n
    BY <1>15 DEF Open
  <2>2. UNCHANGED <<wal, gone, flpc, deletes, sealed>> /\ seq' = seq + 1 /\ up' \in {"failed", "replay"}
    BY <1>15 DEF Open, OpenLog
  <2>3. \A i \in DOMAIN wal : i > n => wal[i].seg > gone
    BY <2>1, <1>t, SMT DEF Unlinked
  <2>a. \A n1 \in Nat : n1 <= seq => n1 <= seq + 1 /\ n1 < seq + 1
    BY <1>t, SMT
  <2>4. gone' < seq' /\ pos' <= Len(wal') /\ \A i \in DOMAIN wal' : wal'[i].seg <= seq'
    <3>0. gone < seq /\ gone \in Nat /\ seq \in Nat /\ Len(wal) \in Nat
      BY <1>t, ZenonT(40) DEF LogInv
    <3>1. gone < seq + 1 /\ n <= Len(wal)
      BY <3>0, SMT
    <3>2. \A i \in DOMAIN wal : wal[i].seg <= seq + 1
      BY <1>t, <2>a, ZenonT(40) DEF LogInv
    <3>. QED BY <2>1, <2>2, <3>1, <3>2
  <2>5. (flpc # "none" => sealed < seq)' /\ (\A s \in deletes : s < seq)'
    <3>0. (flpc # "none" => sealed < seq) /\ (\A s \in deletes : s < seq /\ s \in Nat)
             /\ seq \in Nat /\ sealed \in Nat
      BY <1>t, ZenonT(40) DEF LogInv
    <3>1. (flpc # "none" => sealed < seq + 1) /\ (\A s \in deletes : s < seq + 1)
      BY <3>0, SMT
    <3>. QED BY <2>2, <3>1
  <2>6. up' = "replay" => \A i \in DOMAIN wal' : i > pos' => wal'[i].seg > gone'
    BY <2>1, <2>2, <2>3
  <2>. QED BY <2>2, <2>4, <2>5, <2>6 DEF LogInv
<1>16. CASE Replay
  <2>1. UNCHANGED <<wal, gone, seq, flpc, deletes, sealed>> /\ up = "replay"
    BY <1>16 DEF Replay
  <2>2. (pos < Len(wal) /\ pos' = pos + 1 /\ up' = up) \/ (pos = Len(wal) /\ up' = "load" /\ pos' = pos)
    BY <1>16 DEF Replay
  <2>a. Len(wal') = Len(wal)
    BY <2>1
  <2>3. pos' <= Len(wal') /\ (up' = "load" => pos' = Len(wal')) /\ up' # "up"
    <3>1. Len(wal) \in Nat /\ pos \in Nat
      BY <1>t
    <3>. QED BY <3>1, <2>1, <2>2, <2>a, SMT
  <2>4. up' = "replay" => \A i \in DOMAIN wal' : i > pos' => wal'[i].seg > gone'
    BY <2>1, <2>2, <1>t, SMT DEF LogInv
  <2>5. (flpc # "none" => sealed < seq)' /\ (\A s \in deletes : s < seq)' /\ gone' < seq'
           /\ \A i \in DOMAIN wal' : wal'[i].seg <= seq'
    BY <2>1 DEF LogInv
  <2>. QED BY <2>3, <2>4, <2>5 DEF LogInv
<1>17. CASE Load
  <2>1. UNCHANGED <<wal, gone, seq, pos, flpc, deletes, sealed>> /\ up = "load" /\ up' \in {"load", "up", "failed"}
    BY <1>17 DEF Load
  <2>. QED BY <2>1, <1>t, SMT DEF LogInv
<1>. QED
  BY <1>1, <1>2, <1>3, <1>4, <1>5, <1>6, <1>7, <1>8, <1>9, <1>10, <1>11, <1>12, <1>13, <1>14,
     <1>15, <1>16, <1>17 DEF Next, Committer, Flush, Recover

\* CommitInv is preserved by the committer, the flush and a restart.
LEMMA CommitStep == ASSUME IMem, Next PROVE CommitInv'
<1>. USE DEF IMem
<1>t. seq \in Nat /\ pos \in Nat /\ Len(wal) \in Nat /\ mu \in BOOLEAN
  BY SMT DEF TypeOK
<1>a. ASSUME UNCHANGED <<cpc, pos, wal, halted, up, mu, flpc, flushing, batch, deletes, active, sstables, comp>>,
             up = "up"
      PROVE  CommitInv'
  BY <1>a DEF CommitInv
<1>b. ASSUME UNCHANGED <<cpc, pos, wal, halted, up, mu>>, up = "up", flpc' = "none" => flushing' = EmptyTable,
             cpc = "swap" => flpc' = "none"
      PROVE  CommitInv'
  BY <1>b DEF CommitInv
<1>1. CASE Writers
  BY <1>1, <1>a, ZenonT(40) DEF Writers, Read, Put, Restore, Write
<1>2. CASE CommitHalted
  <2>1. up = "up" /\ up' = "up" /\ UNCHANGED <<cpc, pos, wal, halted, mu, flpc, flushing>>
    BY <1>2 DEF CommitHalted
  <2>. QED BY <2>1, <1>b DEF CommitInv
<1>3. CASE CommitWrite
  <2>1. PICK ws \in Batches : WriteBatch(Entries(ws))
    BY <1>3 DEF CommitWrite
  <2>2. Len(Entries(ws)) \in Nat \ {0} /\ wal' = wal \o SubSeq(Entries(ws), 1, Len(Entries(ws)))
    BY <2>1, WholeBatch DEF WriteBatch
  <2>3. Len(wal') = Len(wal) + Len(Entries(ws))
    BY <2>2, LogGrows, SMT
  <2>4. UNCHANGED <<pos, halted, up, mu, flpc, flushing>> /\ cpc' = "apply" /\ up = "up" /\ ~halted /\ cpc = "idle"
    BY <1>3 DEF CommitWrite
  <2>5. pos' < Len(wal')
    <3>1. pos = Len(wal)
      BY <2>4 DEF CommitInv
    <3>. QED BY <3>1, <2>2, <2>3, <2>4, <1>t, SMT
  <2>. QED BY <2>4, <2>5 DEF CommitInv
<1>4. CASE CommitFail
  <2>1. UNCHANGED <<pos, cpc, up, mu, flpc, flushing>> /\ halted' = TRUE /\ up = "up" /\ cpc = "idle"
    BY <1>4 DEF CommitFail
  <2>. QED BY <2>1 DEF CommitInv
<1>5. CASE Apply
  <2>1. UNCHANGED <<wal, up, halted, flpc, flushing>> /\ pos' = pos + 1 /\ up = "up" /\ cpc = "apply"
    BY <1>5, ZenonT(40) DEF Apply
  <2>2. \/ pos' < Len(wal) /\ mu' = TRUE /\ cpc' = "apply"
        \/ pos' = Len(wal) /\ mu' = FALSE /\ cpc' = "swap" /\ flpc = "none"
        \/ pos' = Len(wal) /\ mu' = FALSE /\ cpc' = "idle"
    BY <1>5, ZenonT(40) DEF Apply
  <2>. QED BY <2>1, <2>2 DEF CommitInv
<1>6. CASE Swap
  <2>1. UNCHANGED <<wal, up, halted, pos, mu>> /\ up = "up" /\ cpc = "swap" /\ cpc' = "idle"
    BY <1>6 DEF Swap, Rotate
  <2>2. flpc' = "write" \/ UNCHANGED <<flpc, flushing>>
    BY <1>6 DEF Swap
  <2>. QED BY <2>1, <2>2 DEF CommitInv
<1>7. CASE FlushWrite \/ FlushAdd
  <2>1. UNCHANGED <<cpc, pos, wal, halted, up, mu, flushing>> /\ up = "up" /\ flpc' # "none" /\ flpc # "none"
    BY <1>7 DEF FlushWrite, FlushAdd
  <2>. QED BY <2>1, <1>b DEF CommitInv
<1>8. CASE FlushInstall \/ FlushPutBack
  <2>1. UNCHANGED <<cpc, pos, wal, halted, up, mu>> /\ up = "up" /\ flpc' = "none" /\ flushing' = EmptyTable
    BY <1>8 DEF FlushInstall, FlushPutBack
  <2>. QED BY <2>1, <1>b
<1>9. CASE FlushDelete
  <2>1. UNCHANGED <<cpc, pos, wal, halted, up, mu, flpc, flushing>> /\ up = "up"
    BY <1>9 DEF FlushDelete, DeleteThrough
  <2>. QED BY <2>1, <1>b, ZenonT(40) DEF CommitInv
<1>10. CASE Compact
  <2>1. UNCHANGED <<cpc, pos, wal, halted, up, mu, flpc, flushing>> /\ up = "up"
    BY <1>10, ZenonT(40) DEF Compact, CompactSelect, CompactWrite, CompactAdd, CompactRemove, CompactSwap, CompactDelete
  <2>. QED BY <2>1, <1>b, ZenonT(40) DEF CommitInv
<1>11. CASE CloseBegin
  BY <1>11, <1>a DEF CloseBegin
<1>12. CASE CloseEnd \/ Crash
  BY <1>12, SMT DEF CloseEnd, Crash, Stop, CommitInv, NoRun
<1>13. CASE Open
  BY <1>13 DEF Open, OpenLog, CommitInv
<1>14. CASE Replay
  BY <1>14 DEF Replay, CommitInv
<1>15. CASE Load
  <2>1. up = "load" /\ up' \in {"load", "up", "failed"} /\ pos = Len(wal)
    BY <1>15, ZenonT(40) DEF Load, LogInv
  <2>. QED BY <1>15, <2>1 DEF Load, CommitInv
<1>. QED
  BY <1>1, <1>2, <1>3, <1>4, <1>5, <1>6, <1>7, <1>8, <1>9, <1>10, <1>11, <1>12, <1>13, <1>14,
     <1>15 DEF Next, Committer, Flush, Recover

\* QueueInv is preserved: a writer waits for its answer before it writes again.
LEMMA QueueStep == ASSUME IMem, Next PROVE QueueInv'
<1>. USE DEF IMem
<1>q. queue \in Seq(Writer) /\ Len(queue) \in Nat /\ DOMAIN queue = 1..Len(queue)
        /\ \A i \in DOMAIN queue : queue[i] \in Writer
  BY SeqFacts DEF TypeOK
<1>a. ASSUME UNCHANGED <<queue, batch, wr>> PROVE QueueInv'
  BY <1>a DEF QueueInv
<1>e. ASSUME queue = <<>>, queue' = queue, batch' = {} PROVE QueueInv'
  BY <1>e, SMT DEF QueueInv
<1>d. ASSUME NEW w \in Writer, NEW k, NEW pc \in {"put", "restore"}, NEW items, NEW prev,
             Write(w, k, pc, items, prev), wr[w].pc \notin {"put", "restore"}
      PROVE  QueueInv'
  <2>1. \A i \in DOMAIN queue : queue[i] # w
    BY <1>d DEF QueueInv
  <2>2. w \notin batch /\ batch' = batch
    BY <1>d, ZenonT(40) DEF QueueInv, Write
  <2>3. \A u \in Writer : u # w => wr'[u] = wr[u]
    BY <1>d, ZenonT(40) DEF Write, TypeOK
  <2>4. \A i \in DOMAIN queue : wr'[queue[i]].pc \in {"put", "restore"} /\ queue[i] \notin batch
    BY <1>q, <2>1, <2>3 DEF QueueInv
  <2>5. \A u \in batch : wr'[u].pc \in {"put", "restore"}
    BY <2>2, <2>3, ZenonT(40) DEF QueueInv, TypeOK
  <2>6. CASE queue' = queue
    BY <2>2, <2>4, <2>5, <2>6 DEF QueueInv
  <2>7. CASE queue' = Append(queue, w) /\ wr' = [wr EXCEPT ![w] = [pc |-> pc, key |-> k, items |-> items, prev |-> prev]]
    <3>1. wr'[w].pc = pc
      BY <2>7, ZenonT(40) DEF TypeOK
    <3>2. /\ DOMAIN queue' = 1..(Len(queue) + 1) /\ queue'[Len(queue) + 1] = w
          /\ \A i \in 1..Len(queue) : queue'[i] = queue[i]
      BY <2>7, <1>q, SMT
    <3>3. ASSUME NEW i \in DOMAIN queue' PROVE queue'[i] \notin batch /\ wr'[queue'[i]].pc \in {"put", "restore"}
      <4>1. CASE i = Len(queue) + 1
        BY <4>1, <3>1, <3>2, <2>2
      <4>2. CASE i \in DOMAIN queue
        BY <4>2, <3>2, <2>4, <1>q
      <4>. QED BY <4>1, <4>2, <3>2, <1>q, SMT
    <3>4. ASSUME NEW i \in DOMAIN queue', NEW j \in DOMAIN queue', queue'[i] = queue'[j] PROVE i = j
      <4>1. CASE i = Len(queue) + 1 \/ j = Len(queue) + 1
        BY <4>1, <3>2, <3>4, <2>1, <1>q, SMT
      <4>2. CASE i \in DOMAIN queue /\ j \in DOMAIN queue
        BY <4>2, <3>2, <3>4, <1>q DEF QueueInv
      <4>. QED BY <4>1, <4>2, <3>2, <1>q, SMT
    <3>. QED BY <3>3, <3>4, <2>2, <2>5 DEF QueueInv
  <2>. QED BY <1>d, <2>6, <2>7, ZenonT(40) DEF Write
<1>1. ASSUME NEW w \in Writer, NEW k \in Key, Read(w, k) PROVE QueueInv'
  <2>1. wr[w].pc = "idle" /\ UNCHANGED <<queue, batch>> /\ \A u \in Writer : u # w => wr'[u] = wr[u]
    BY <1>1, ZenonT(40) DEF Read, TypeOK
  <2>2. w \notin batch /\ \A i \in DOMAIN queue : queue[i] # w
    BY <2>1 DEF QueueInv
  <2>. QED BY <2>1, <2>2, <1>q, ZenonT(40) DEF QueueInv, TypeOK
<1>2. ASSUME NEW w \in Writer, NEW v \in Item, Put(w, v) PROVE QueueInv'
  BY <1>2, <1>d DEF Put
<1>3. ASSUME NEW w \in Writer, Restore(w) PROVE QueueInv'
  BY <1>3, <1>d DEF Restore
<1>f. ASSUME NEW ws \in Batches, queue' = Unqueued(ws), Fail(Range(ws)), batch' = batch PROVE QueueInv'
  <2>1. /\ \A i \in DOMAIN queue' : \E j \in DOMAIN queue : queue'[i] = queue[j] /\ queue'[i] \notin Range(ws)
        /\ \A i, j \in DOMAIN queue' : queue'[i] = queue'[j] => i = j
        /\ \A w \in Range(ws) : \E j \in DOMAIN queue : w = queue[j]
    BY <1>f, TakeBatch
  <2>2. \A w \in Writer : w \notin Range(ws) => wr'[w] = wr[w]
    BY <1>f DEF Fail
  <2>3. \A i \in DOMAIN queue' : queue'[i] \notin batch /\ wr'[queue'[i]].pc \in {"put", "restore"}
    BY <2>1, <2>2, <1>q, SMT DEF QueueInv
  <2>4. \A w \in batch : wr'[w].pc \in {"put", "restore"}
    <3>1. \A w \in batch : w \notin Range(ws) /\ w \in Writer
      BY <2>1, SMT DEF QueueInv, TypeOK
    <3>. QED BY <3>1, <2>2, ZenonT(40) DEF QueueInv
  <2>. QED BY <2>1, <2>3, <2>4, <1>f DEF QueueInv
<1>4. CASE CommitHalted
  BY <1>4, <1>f DEF CommitHalted
<1>5. CASE CommitWrite
  <2>0. PICK ws \in Batches : queue' = Unqueued(ws) /\ batch' = Range(ws)
    BY <1>5 DEF CommitWrite
  <2>1. /\ \A i \in DOMAIN queue' : \E j \in DOMAIN queue : queue'[i] = queue[j] /\ queue'[i] \notin Range(ws)
        /\ \A i, j \in DOMAIN queue' : queue'[i] = queue'[j] => i = j
        /\ \A w \in Range(ws) : \E j \in DOMAIN queue : w = queue[j]
    BY <2>0, TakeBatch
  <2>2. wr' = wr
    BY <1>5 DEF CommitWrite
  <2>. QED BY <2>0, <2>1, <2>2, ZenonT(40) DEF QueueInv
<1>6. CASE CommitFail
  BY <1>6, <1>f DEF CommitFail
<1>g. ASSUME NEW bads, Done(batch, bads), batch' = {}, queue' = queue PROVE QueueInv'
  <2>1. \A w \in Writer : w \notin batch => wr'[w] = wr[w]
    BY <1>g DEF Done
  <2>. QED BY <1>g, <2>1, <1>q DEF QueueInv
<1>7. CASE Apply
  BY <1>7, <1>a, <1>g, ZenonT(40) DEF Apply
<1>8. CASE Swap
  BY <1>8, <1>g DEF Swap
<1>9. CASE Flush
  BY <1>9, <1>a, ZenonT(40) DEF Flush, FlushWrite, FlushAdd, FlushInstall, FlushPutBack, FlushDelete
<1>10. CASE Compact
  BY <1>10, <1>a, ZenonT(40) DEF Compact, CompactSelect, CompactWrite, CompactAdd, CompactRemove, CompactSwap, CompactDelete
<1>11. CASE CloseBegin
  BY <1>11, <1>a DEF CloseBegin
<1>12. CASE CloseEnd \/ Crash
  <2>1. queue' = <<>> /\ batch' = {}
    BY <1>12 DEF CloseEnd, Crash, Stop
  <2>. QED BY <2>1, SMT DEF QueueInv
<1>13. CASE Recover
  BY <1>13, <1>a, ZenonT(40) DEF Recover, Open, Replay, Load
<1>. QED
  BY <1>1, <1>2, <1>3, <1>4, <1>5, <1>6, <1>7, <1>8, <1>9, <1>10, <1>11, <1>12, <1>13
     DEF Next, Writers, Committer

-----------------------------------------------------------------------------
\* The flush keeps FilesInv.
LEMMA FilesFlush == ASSUME IMem, Flush PROVE FilesInv'
<1>. USE DEF IMem
<1>s. /\ sstables \in Seq(SSTableID) /\ Len(sstables) \in Nat /\ DOMAIN sstables = 1..Len(sstables)
      /\ comp.run \in Seq(SSTableID) /\ Len(comp.run) \in Nat /\ DOMAIN comp.run = 1..Len(comp.run)
  BY SeqFacts DEF TypeOK
<1>1. CASE FlushWrite
  <2>0. UNCHANGED <<sstables, comp, flushing>>
    BY <1>1 DEF FlushWrite
  <2>1. CASE flpc' = "putback" /\ UNCHANGED <<tick, flid, files>>
    BY <2>0, <2>1, ZenonT(40) DEF FilesInv, RunAt
  <2>2. CASE /\ tick' = tick + 1 /\ flid' = <<tick', 0>> /\ flpc' \in {"add", "putback"}
             /\ files' = [id \in DOMAIN files \cup {flid'} |-> IF id = flid' THEN flushing ELSE files[id]]
    <3>1. tick \in Nat /\ flid'[1] = tick + 1
      BY <2>2, ZenonT(40) DEF TypeOK
    <3>2. \A id \in DOMAIN files : id # flid' /\ id[1] \in Nat /\ id[1] <= tick + 1
      <4>1. ASSUME NEW id \in DOMAIN files PROVE id # flid' /\ id[1] \in Nat /\ id[1] <= tick + 1
        <5>1. id[1] \in Nat /\ id[1] <= tick
          BY ZenonT(40) DEF FilesInv, TypeOK, SSTableID
        <5>. QED BY <5>1, <3>1, SMT
      <4>. QED BY <4>1, ZenonT(40)
    <3>3. DOMAIN files' = DOMAIN files \cup {flid'} /\ files'[flid'] = flushing
            /\ \A id \in DOMAIN files : files'[id] = files[id]
      BY <2>2, <3>2
    <3>4. \A id \in DOMAIN files' : id[1] <= tick'
      BY <2>2, <3>1, <3>2, <3>3, SMT
    <3>5. \A i \in DOMAIN comp.run : comp.run[i] # flid' /\ comp.run[i][1] <= tick'
      <4>1. ASSUME NEW i \in DOMAIN comp.run PROVE comp.run[i] # flid' /\ comp.run[i][1] <= tick'
        <5>1. comp.run[i] \in SSTableID
          BY <1>s, SeqFacts
        <5>2. comp.run[i][1] \in Nat /\ comp.run[i][1] <= tick
          BY <5>1, ZenonT(40) DEF FilesInv, SSTableID
        <5>. QED BY <5>2, <3>1, <2>2, SMT
      <4>. QED BY <4>1
    <3>6. comp.pc \in {"add", "remove", "swap"} =>
            /\ \A i \in DOMAIN comp.run : comp.run[i] \in DOMAIN files
            /\ comp.id \in DOMAIN files
      BY RunInMemory DEF FilesInv
    <3>. QED BY <2>0, <2>2, <3>2, <3>3, <3>4, <3>5, <3>6, ZenonT(40) DEF FilesInv, RunAt
  <2>. QED BY <1>1, <2>1, <2>2 DEF FlushWrite
<1>2. CASE FlushAdd
  <2>1. UNCHANGED <<files, tick, sstables, comp, flid, flushing>> /\ flpc = "add"
    BY <1>2 DEF FlushAdd
  <2>. QED BY <2>1, ZenonT(40) DEF FilesInv, RunAt
<1>3. CASE FlushInstall
  <2>1. UNCHANGED <<files, tick, comp>> /\ flpc' = "none" /\ sstables' = <<flid>> \o sstables /\ flpc = "install"
    BY <1>3 DEF FlushInstall
  <2>2. flid \in DOMAIN files /\ (\A i \in DOMAIN sstables : sstables[i] # flid)
          /\ (\A i \in DOMAIN comp.run : comp.run[i] # flid)
          /\ (comp.pc \in {"add", "remove", "swap"} => comp.id # flid)
    BY <2>1, ZenonT(40) DEF FilesInv
  <2>3. /\ DOMAIN sstables' = 1..(Len(sstables) + 1) /\ sstables'[1] = flid
        /\ \A i \in 2..(Len(sstables) + 1) : sstables'[i] = sstables[i - 1] /\ i - 1 \in DOMAIN sstables
    <3>1. <<flid>> \in Seq(SSTableID) /\ Len(<<flid>>) = 1
      BY SMT DEF TypeOK
    <3>2. /\ DOMAIN sstables' = 1..(1 + Len(sstables)) /\ \A i \in 1..1 : sstables'[i] = <<flid>>[i]
          /\ \A i \in (1 + 1)..(1 + Len(sstables)) : sstables'[i] = sstables[i - 1]
      BY <2>1, <3>1, <1>s, ConcatDomain, SMT
    <3>. QED BY <3>2, <1>s, SMT
  <2>4. ASSUME NEW i \in DOMAIN sstables'
        PROVE  i = 1 \/ (i - 1 \in DOMAIN sstables /\ sstables'[i] = sstables[i - 1])
    BY <2>3, <1>s, SMT
  <2>5. ASSUME NEW i \in DOMAIN sstables', NEW j \in DOMAIN sstables', sstables'[i] = sstables'[j] PROVE i = j
    <3>1. CASE i = 1 \/ j = 1
      BY <3>1, <2>2, <2>3, <2>4, <2>5
    <3>2. CASE i # 1 /\ j # 1
      <4>1. i - 1 \in DOMAIN sstables /\ j - 1 \in DOMAIN sstables /\ sstables[i - 1] = sstables[j - 1]
        BY <3>2, <2>4, <2>5
      <4>2. i - 1 = j - 1
        BY <4>1, ZenonT(40) DEF FilesInv
      <4>. QED BY <4>2, <2>3, <1>s, SMT
    <3>. QED BY <3>1, <3>2
  <2>6. \A i \in DOMAIN sstables' : sstables'[i] \in DOMAIN files
    BY <2>2, <2>3, <2>4, ZenonT(40) DEF FilesInv
  <2>7. ASSUME NEW i \in DOMAIN sstables, RunAt(i) PROVE (\E h \in DOMAIN sstables : RunAt(h))'
    <3>1. i + 1 \in DOMAIN sstables' /\ i \in Nat
      BY <2>3, <1>s, SMT
    <3>2. (i + 1) + Len(comp.run) - 1 \in DOMAIN sstables'
      BY <2>7, <2>3, <1>s, SMT DEF RunAt
    <3>3. ASSUME NEW j \in DOMAIN comp.run PROVE comp.run[j] = sstables'[(i + 1) + j - 1]
      <4>1. i + j - 1 \in DOMAIN sstables /\ comp.run[j] = sstables[i + j - 1]
        BY <2>7, RunInMemory
      <4>2. (i + 1) + j - 1 \in 2..(Len(sstables) + 1) /\ ((i + 1) + j - 1) - 1 = i + j - 1
        BY <4>1, <3>1, <1>s, SMT
      <4>. QED BY <4>1, <4>2, <2>3
    <3>4. RunAt(i + 1)'
      BY <3>2, <3>3, <2>1, ZenonT(40) DEF RunAt
    <3>. QED BY <3>1, <3>4
  <2>8. (comp.pc \in {"write", "add", "remove", "swap"} => \E i \in DOMAIN sstables : RunAt(i))'
    BY <2>1, <2>7, ZenonT(40) DEF FilesInv
  <2>9. ASSUME comp.pc \in {"add", "remove", "swap"}, NEW i \in DOMAIN sstables' PROVE sstables'[i] # comp.id
    <3>1. /\ comp.id \in DOMAIN files
          /\ \A j \in DOMAIN sstables : sstables[j] # comp.id
      BY <2>9, ZenonT(40) DEF FilesInv
    <3>2. flid # comp.id
      BY <3>1, <2>2, <2>9
    <3>3. CASE i = 1
      BY <3>2, <3>3, <2>3
    <3>4. CASE i # 1
      BY <3>1, <3>4, <2>4, ZenonT(40)
    <3>. QED BY <3>3, <3>4
  <2>10. ASSUME comp.pc = "delete", NEW i \in DOMAIN sstables', NEW j \in DOMAIN comp.run
         PROVE  sstables'[i] # comp.run[j]
    <3>1. \A h \in DOMAIN sstables : sstables[h] # comp.run[j]
      BY <2>10, ZenonT(40) DEF FilesInv
    <3>2. flid # comp.run[j]
      BY <2>2, <2>10
    <3>3. CASE i = 1
      BY <3>2, <3>3, <2>3
    <3>4. CASE i # 1
      BY <3>1, <3>4, <2>4, ZenonT(40)
    <3>. QED BY <3>3, <3>4
  <2>. QED BY <2>1, <2>5, <2>6, <2>8, <2>9, <2>10, ZenonT(40) DEF FilesInv
<1>4. CASE FlushPutBack
  BY <1>4, ZenonT(40) DEF FlushPutBack, FilesInv, RunAt
<1>5. CASE FlushDelete
  BY <1>5, ZenonT(40) DEF FlushDelete, FilesInv, RunAt
<1>. QED
  BY <1>1, <1>2, <1>3, <1>4, <1>5 DEF Flush

\* Compaction keeps FilesInv: its id is free, and its run stays contiguous.
LEMMA FilesCompact == ASSUME IMem, MergeFacts, Compact PROVE FilesInv'
<1>. USE DEF IMem
<1>s. /\ sstables \in Seq(SSTableID) /\ Len(sstables) \in Nat /\ DOMAIN sstables = 1..Len(sstables)
      /\ comp.run \in Seq(SSTableID) /\ Len(comp.run) \in Nat /\ DOMAIN comp.run = 1..Len(comp.run)
      /\ tick \in Nat
  BY SeqFacts DEF TypeOK
<1>r. comp.pc \in {"write", "add", "remove", "swap"} =>
        \A i \in DOMAIN comp.run : comp.run[i] \in DOMAIN files
  BY RunInMemory, ZenonT(40) DEF FilesInv
<1>n. ASSUME comp' = NoRun PROVE comp'.pc = "idle" /\ DOMAIN comp'.run = {}
  BY <1>n, SMT DEF NoRun
<1>1. CASE CompactSelect
  <2>1. PICK i \in DOMAIN sstables, j \in DOMAIN sstables :
          /\ SelectTierForCompaction(i, j)
          /\ comp' = [pc |-> "write", run |-> SubSeq(sstables, i, j), id |-> <<0, 0>>]
    BY <1>1, ZenonT(40) DEF CompactSelect
  <2>2. UNCHANGED <<files, tick, sstables, flpc, flid, flushing>>
    BY <1>1 DEF CompactSelect
  <2>3. comp'.pc = "write" /\ comp'.run = SubSeq(sstables, i, j)
    BY <2>1, ZenonT(40)
  <2>4. /\ Len(comp'.run) = j - i + 1 /\ j - i + 1 \in Nat \ {0} /\ DOMAIN comp'.run = 1..(j - i + 1)
        /\ \A h \in 1..(j - i + 1) : comp'.run[h] = sstables[i + h - 1] /\ i + h - 1 \in DOMAIN sstables
    BY <2>1, <2>3, SelectFacts, ZenonT(40)
  <2>5. RunAt(i)'
    <3>1. i + Len(comp'.run) - 1 = j
      BY <2>4, <1>s, SMT
    <3>. QED BY <3>1, <2>2, <2>4, ZenonT(40) DEF RunAt
  <2>6. \A h \in DOMAIN comp'.run : comp'.run[h] \in DOMAIN files /\ comp'.run[h][1] <= tick
    BY <2>4, ZenonT(40) DEF FilesInv
  <2>7. flpc \in {"add", "install"} => \A h \in DOMAIN comp'.run : comp'.run[h] # flid
    BY <2>4, ZenonT(40) DEF FilesInv
  <2>8. Len(comp'.run) > 0
    BY <2>4, SMT
  <2>. QED BY <2>2, <2>3, <2>5, <2>6, <2>7, <2>8, ZenonT(40) DEF FilesInv
<1>2. CASE CompactWrite
  <2>0. UNCHANGED <<tick, sstables, flpc, flid, flushing>> /\ comp.pc = "write"
    BY <1>2, ZenonT(40) DEF CompactWrite
  <2>1. CASE comp' = NoRun /\ UNCHANGED files
    BY <2>0, <2>1, <1>n, ZenonT(40) DEF FilesInv
  <2>2. ASSUME NEW c \in 1..MaxSuffix, NEW id, id = <<comp.run[1][1], c>>, IsCompactedID(comp.run[1], id),
               files' = [f \in DOMAIN files \cup {id} |-> IF f = id THEN Merge(comp.run) ELSE files[f]],
               comp' = [comp EXCEPT !.pc = "add", !.id = id]
        PROVE  FilesInv'
    <3>1. id \notin DOMAIN files
      BY <2>2 DEF IsCompactedID
    <3>2. comp'.pc = "add" /\ comp'.run = comp.run /\ comp'.id = id
      BY <2>2 DEF TypeOK
    <3>3. DOMAIN files' = DOMAIN files \cup {id} /\ files'[id] = Merge(comp.run)
            /\ \A f \in DOMAIN files : files'[f] = files[f]
      BY <2>2, <3>1
    <3>4. id[1] <= tick
      <4>1. Len(comp.run) > 0
        BY <2>0, ZenonT(40) DEF FilesInv
      <4>2. 1 \in DOMAIN comp.run
        BY <4>1, <1>s, SMT
      <4>3. id[1] = comp.run[1][1]
        BY <2>2
      <4>. QED BY <4>2, <4>3, ZenonT(40) DEF FilesInv
    <3>5. \A i \in DOMAIN comp.run : \A k \in Key : \A x \in files[comp.run[i]][k] :
              Covers(Merge(comp.run)[k], x)
      BY <2>0, ZenonT(40) DEF MergeFacts
    <3>6. \A i \in DOMAIN comp.run : files'[comp.run[i]] = files[comp.run[i]]
      BY <1>r, <2>0, <3>3
    <3>7. (\A i \in DOMAIN comp.run : \A k \in Key : \A x \in files[comp.run[i]][k] :
            Covers(files[comp.id][k], x))'
      <4>1. files'[comp'.id] = Merge(comp.run)
        BY ONLY <3>2, <3>3
      <4>2. \A i \in DOMAIN comp.run : \A k \in Key : \A x \in files'[comp.run[i]][k] :
              Covers(Merge(comp.run)[k], x)
        BY <3>5, <3>6, ZenonT(40)
      <4>. QED BY ONLY <3>2, <4>1, <4>2
    <3>8. (\E i \in DOMAIN sstables : RunAt(i))'
      BY <2>0, <3>2, SMT DEF FilesInv, RunAt
    <3>9. (\A i \in DOMAIN sstables : sstables[i] # comp.id /\ sstables[i] \in DOMAIN files)'
      BY <2>0, <3>1, <3>2, <3>3, ZenonT(40) DEF FilesInv
    <3>10. (flpc \in {"add", "install"} =>
              /\ flid \in DOMAIN files /\ files[flid] = flushing
              /\ \A i \in DOMAIN sstables : sstables[i] # flid
              /\ \A i \in DOMAIN comp.run : comp.run[i] # flid
              /\ comp.pc \in {"add", "remove", "swap"} => comp.id # flid)'
      BY <2>0, <3>1, <3>2, <3>3, ZenonT(40) DEF FilesInv
    <3>11. (/\ \A f \in DOMAIN files : f[1] <= tick
            /\ \A i, j \in DOMAIN sstables : sstables[i] = sstables[j] => i = j
            /\ \A i \in DOMAIN comp.run : comp.run[i][1] <= tick
            /\ comp.pc # "idle" => Len(comp.run) > 0)'
      BY <2>0, <3>2, <3>3, <3>4, ZenonT(40) DEF FilesInv
    <3>12. (comp.id \in DOMAIN files)' /\ comp'.pc # "delete"
      BY <3>2, <3>3
    <3>. QED BY <3>7, <3>8, <3>9, <3>10, <3>11, <3>12, ZenonT(40) DEF FilesInv
  <2>3. ASSUME NEW c \in 1..MaxSuffix, NEW id, id = <<comp.run[1][1], c>>, IsCompactedID(comp.run[1], id),
               files' = [f \in DOMAIN files \cup {id} |-> IF f = id THEN Merge(comp.run) ELSE files[f]],
               comp' = NoRun
        PROVE  FilesInv'
    <3>1. id \notin DOMAIN files
      BY <2>3, ZenonT(40) DEF IsCompactedID
    <3>2. DOMAIN files' = DOMAIN files \cup {id} /\ \A f \in DOMAIN files : files'[f] = files[f]
      BY <2>3, <3>1, ZenonT(40)
    <3>3. id[1] <= tick
      <4>1. Len(comp.run) > 0
        BY <2>0, ZenonT(40) DEF FilesInv
      <4>2. 1 \in DOMAIN comp.run
        BY <4>1, <1>s, SMT
      <4>. QED BY <4>2, <2>3, ZenonT(40) DEF FilesInv
    <3>. QED BY <2>0, <2>3, <3>2, <3>3, <1>n DEF FilesInv
  <2>. QED BY <1>2, <2>1, <2>2, <2>3, ZenonT(40) DEF CompactWrite
<1>3. CASE CompactAdd
  <2>0. UNCHANGED <<tick, sstables, flpc, flid, flushing>> /\ comp.pc = "add"
    BY <1>3 DEF CompactAdd
  <2>1. CASE comp' = [comp EXCEPT !.pc = "remove"] /\ UNCHANGED files
    <3>1. comp'.pc = "remove" /\ comp'.run = comp.run /\ comp'.id = comp.id
      BY <2>1 DEF TypeOK
    <3>. QED BY <2>0, <2>1, <3>1, SMT DEF FilesInv, RunAt
  <2>2. CASE comp' = NoRun /\ files' = [f \in DOMAIN files \ {comp.id} |-> files[f]]
    BY <2>0, <2>2, <1>n, ZenonT(40) DEF FilesInv
  <2>3. CASE comp' = NoRun /\ UNCHANGED files
    BY <2>0, <2>3, <1>n, ZenonT(40) DEF FilesInv
  <2>. QED BY <1>3, <2>1, <2>2, <2>3 DEF CompactAdd
<1>4. CASE CompactRemove
  <2>0. UNCHANGED <<files, tick, sstables, flpc, flid, flushing>> /\ comp.pc = "remove"
    BY <1>4 DEF CompactRemove
  <2>1. CASE comp' = [comp EXCEPT !.pc = "swap"]
    <3>1. comp'.pc = "swap" /\ comp'.run = comp.run /\ comp'.id = comp.id
      BY <2>1 DEF TypeOK
    <3>. QED BY <2>0, <2>1, <3>1, SMT DEF FilesInv, RunAt
  <2>2. CASE comp' = NoRun
    BY <2>0, <2>2, <1>n, ZenonT(40) DEF FilesInv
  <2>. QED BY <1>4, <2>1, <2>2 DEF CompactRemove
<1>5. CASE CompactSwap
  <2>0. UNCHANGED <<files, tick, flpc, flid, flushing>> /\ comp.pc = "swap"
    BY <1>5 DEF CompactSwap
  <2>1. PICK i \in DOMAIN sstables : RunAt(i) /\ sstables' = ReplaceRun(sstables, i, comp.run, comp.id)
    BY <1>5 DEF CompactSwap
  <2>2. comp'.pc = "delete" /\ comp'.run = comp.run /\ comp'.id = comp.id
    BY <1>5 DEF CompactSwap, TypeOK
  <2>. DEFINE m == Len(comp.run)
              N == Len(sstables)
  <2>3. m \in Nat \ {0} /\ N \in Nat /\ i \in 1..N /\ i + m - 1 \in 1..N
    <3>1. Len(comp.run) > 0
      BY <2>0, ZenonT(40) DEF FilesInv
    <3>2. i + Len(comp.run) - 1 \in DOMAIN sstables
      BY <2>1, ZenonT(40) DEF RunAt
    <3>. QED BY ONLY <3>1, <3>2, <1>s, i \in DOMAIN sstables, SMT
  <2>4. /\ DOMAIN sstables' = 1..(N - m + 1)
        /\ \A j \in 1..(i - 1) : sstables'[j] = sstables[j]
        /\ sstables'[i] = comp.id
        /\ \A j \in (i + 1)..(N - m + 1) : sstables'[j] = sstables[j + m - 1] /\ j + m - 1 \in DOMAIN sstables
    <3>1. TypeOK /\ i \in DOMAIN sstables /\ RunAt(i) /\ Len(comp.run) > 0
      BY <2>0, <2>1, ZenonT(40) DEF FilesInv
    <3>2. /\ DOMAIN sstables' = 1..(Len(sstables) - Len(comp.run) + 1)
          /\ \A j \in 1..(i - 1) : j \in DOMAIN sstables' /\ sstables'[j] = sstables[j]
          /\ i \in DOMAIN sstables' /\ sstables'[i] = comp.id
          /\ \A j \in (i + 1)..(Len(sstables) - Len(comp.run) + 1) :
               /\ sstables'[j] = sstables[j + Len(comp.run) - 1]
               /\ j + Len(comp.run) - 1 \in DOMAIN sstables
      <4>1. DOMAIN sstables' = 1..(Len(sstables) - Len(comp.run) + 1)
        BY ONLY <3>1, <2>1, ReplaceFacts, ZenonT(40)
      <4>2. ASSUME NEW j \in 1..(i - 1) PROVE j \in DOMAIN sstables' /\ sstables'[j] = sstables[j]
        BY ONLY <3>1, <2>1, ReplaceFacts, ZenonT(40)
      <4>3. i \in DOMAIN sstables' /\ sstables'[i] = comp.id
        BY ONLY <3>1, <2>1, ReplaceFacts, ZenonT(40)
      <4>4. ASSUME NEW j \in (i + 1)..(Len(sstables) - Len(comp.run) + 1)
            PROVE  /\ sstables'[j] = sstables[j + Len(comp.run) - 1]
                   /\ j + Len(comp.run) - 1 \in DOMAIN sstables
        <5>1. j \in 1..(N - m + 1) /\ ~(j < i) /\ j # i /\ j + m - 1 \in 1..N
          <6>1. j \in (i + 1)..(N - m + 1)
            OBVIOUS
          <6>. HIDE DEF m, N
          <6>. QED BY <6>1, <2>3, SMT
        <5>. QED BY <5>1, <2>1, <1>s DEF ReplaceRun
      <4>. QED BY <4>1, <4>2, <4>3, <4>4
    <3>. QED BY <3>2, ZenonT(40)
  <2>5. ASSUME NEW j \in DOMAIN sstables'
        PROVE  \/ j = i /\ sstables'[j] = comp.id
               \/ j < i /\ j \in DOMAIN sstables /\ sstables'[j] = sstables[j]
               \/ j > i /\ j + m - 1 \in DOMAIN sstables /\ sstables'[j] = sstables[j + m - 1]
    <3>. HIDE DEF m, N
    <3>1. j \in 1..(N - m + 1) /\ DOMAIN sstables = 1..N
      BY <2>4, <1>s DEF N
    <3>2. CASE j < i
      BY <3>1, <3>2, <2>3, <2>4, SMT
    <3>3. CASE j > i
      <4>1. j \in (i + 1)..(N - m + 1)
        BY ONLY <3>1, <3>3, <2>3, SMT
      <4>. QED BY <3>3, <4>1, <2>4, ZenonT(40)
    <3>4. CASE j = i
      BY <3>4, <2>4
    <3>5. j < i \/ j = i \/ j > i
      BY <3>1, <2>3, SMT
    <3>. QED BY <3>2, <3>3, <3>4, <3>5, ZenonT(40)
  <2>6. ASSUME NEW j \in DOMAIN sstables'
        PROVE  sstables'[j] \in DOMAIN files /\ (flpc \in {"add", "install"} => sstables'[j] # flid)
    BY <2>0, <2>5, ZenonT(40) DEF FilesInv
  <2>7. ASSUME NEW j \in DOMAIN sstables', NEW h \in DOMAIN sstables', sstables'[j] = sstables'[h] PROVE j = h
    <3>1. \A l \in DOMAIN sstables : sstables[l] # comp.id
      BY <2>0, ZenonT(40) DEF FilesInv
    <3>2. \A l, o \in DOMAIN sstables : sstables[l] = sstables[o] => l = o
      BY ZenonT(40) DEF FilesInv
    <3>. HIDE DEF m, N
    <3>3. j \in Nat /\ h \in Nat /\ i \in Nat /\ m \in Nat \ {0}
      BY <2>3, <2>4, SMT
    <3>4. CASE j = i \/ h = i
      BY <3>1, <3>3, <3>4, <2>5, <2>7, SMT
    <3>5. CASE j < i /\ h < i
      BY <3>2, <3>3, <3>5, <2>5, <2>7, SMT
    <3>6. CASE j > i /\ h > i
      <4>1. j + m - 1 = h + m - 1
        BY <3>2, <3>3, <3>6, <2>5, <2>7, SMT
      <4>. QED BY <4>1, <3>3, SMT
    <3>7. CASE j < i /\ h > i
      <4>1. j = h + m - 1
        BY <3>2, <3>3, <3>7, <2>5, <2>7, SMT
      <4>. QED BY <4>1, <3>3, <3>7, SMT
    <3>8. CASE j > i /\ h < i
      <4>1. h = j + m - 1
        BY <3>2, <3>3, <3>8, <2>5, <2>7, SMT
      <4>. QED BY <4>1, <3>3, <3>8, SMT
    <3>. QED BY <3>3, <3>4, <3>5, <3>6, <3>7, <3>8, SMT
  <2>8. ASSUME NEW j \in DOMAIN sstables', NEW h \in DOMAIN comp.run PROVE sstables'[j] # comp.run[h]
    <3>1. \A l \in DOMAIN sstables : sstables[l] # comp.id
      BY <2>0 DEF FilesInv
    <3>2. \A l, o \in DOMAIN sstables : sstables[l] = sstables[o] => l = o
      BY ZenonT(40) DEF FilesInv
    <3>3. i + h - 1 \in DOMAIN sstables /\ comp.run[h] = sstables[i + h - 1]
      BY <2>1, RunInMemory, ZenonT(40)
    <3>4. h \in 1..m
      BY <1>s
    <3>. HIDE DEF m, N
    <3>5. j \in Nat /\ h \in Nat /\ i \in Nat /\ m \in Nat \ {0} /\ 1 <= h /\ h <= m
      BY <2>3, <2>4, <3>4, SMTT(40)
    <3>6. CASE j = i
      <4>1. sstables'[j] = comp.id
        BY <3>6, <2>4
      <4>. QED BY <4>1, <3>1, <3>3
    <3>7. CASE j < i
      <4>1. j # i + h - 1
        BY <3>5, <3>7, SMT
      <4>. QED BY <4>1, <3>2, <3>3, <3>5, <3>7, <2>5, SMT
    <3>8. CASE j > i
      <4>1. j + m - 1 # i + h - 1
        BY <3>5, <3>8, SMT
      <4>. QED BY <4>1, <3>2, <3>3, <3>5, <3>8, <2>5, SMT
    <3>. QED BY <3>5, <3>6, <3>7, <3>8, SMT
  <2>9. (flpc \in {"add", "install"} =>
              /\ flid \in DOMAIN files /\ files[flid] = flushing
              /\ \A h \in DOMAIN comp.run : comp.run[h] # flid)'
    BY <2>0, <2>2, ZenonT(40) DEF FilesInv
  <2>10. (/\ \A f \in DOMAIN files : f[1] <= tick
          /\ \A h \in DOMAIN comp.run : comp.run[h][1] <= tick
          /\ Len(comp.run) > 0)'
    BY <2>0, <2>2, ZenonT(40) DEF FilesInv
  <2>11. comp'.pc = "delete" /\ comp'.run = comp.run /\ UNCHANGED <<files, tick, flpc, flid, flushing>>
    BY <2>0, <2>2
  <2>12. (/\ \A j \in DOMAIN sstables : sstables[j] \in DOMAIN files
          /\ \A j, h \in DOMAIN sstables : sstables[j] = sstables[h] => j = h
          /\ \A j \in DOMAIN sstables : \A h \in DOMAIN comp.run : sstables[j] # comp.run[h])'
    BY <2>6, <2>7, <2>8, <2>11, ZenonT(40)
  <2>13. (flpc \in {"add", "install"} => \A j \in DOMAIN sstables : sstables[j] # flid)'
    BY <2>6, <2>11, ZenonT(40)
  <2>14. (comp.pc \notin {"write", "add", "remove", "swap"})'
    BY <2>11
  <2>. QED BY <2>9, <2>10, <2>12, <2>13, <2>14, ZenonT(40) DEF FilesInv
<1>6. CASE CompactDelete
  <2>0. UNCHANGED <<tick, sstables, flpc, flid, flushing>> /\ comp.pc = "delete" /\ comp' = NoRun
    BY <1>6 DEF CompactDelete
  <2>1. PICK kept \in SUBSET Range(comp.run) :
          files' = [f \in DOMAIN files \ (Range(comp.run) \ kept) |-> files[f]]
    BY <1>6 DEF CompactDelete
  <2>2. \A f \in DOMAIN files : (\A i \in DOMAIN comp.run : f # comp.run[i]) => f \in DOMAIN files'
    BY <2>1 DEF Range
  <2>3. \A f \in DOMAIN files' : f \in DOMAIN files /\ files'[f] = files[f]
    BY <2>1
  <2>4. \A i \in DOMAIN sstables : sstables[i] \in DOMAIN files'
    BY <2>0, <2>2, ZenonT(40) DEF FilesInv
  <2>5. flpc \in {"add", "install"} => flid \in DOMAIN files' /\ files'[flid] = files[flid]
    BY <2>2, <2>3 DEF FilesInv
  <2>. QED BY <2>0, <2>3, <2>4, <2>5, <1>n, ZenonT(40) DEF FilesInv
<1>. QED
  BY <1>1, <1>2, <1>3, <1>4, <1>5, <1>6 DEF Compact

\* FilesInv is preserved.
LEMMA FilesStep == ASSUME IMem, MergeFacts, Next PROVE FilesInv'
<1>. USE DEF IMem
<1>a. ASSUME UNCHANGED <<files, tick, sstables, comp, flpc, flid, flushing>> PROVE FilesInv'
  BY <1>a, ZenonT(40) DEF FilesInv, RunAt
<1>1. CASE Writers
  BY <1>1, <1>a, ZenonT(40) DEF Writers, Read, Put, Restore, Write
<1>2. CASE CommitHalted \/ CommitWrite \/ CommitFail \/ Apply
  BY <1>2, <1>a, ZenonT(40) DEF CommitHalted, CommitWrite, CommitFail, Apply
<1>3. CASE Swap
  <2>1. UNCHANGED <<files, tick, sstables, comp>> /\ flpc' \notin {"add", "install"}
    BY <1>3 DEF Swap, CommitInv
  <2>. QED BY <2>1, ZenonT(40) DEF FilesInv, RunAt
<1>4. CASE Flush
  BY <1>4, FilesFlush
<1>5. CASE Compact
  BY <1>5, FilesCompact
<1>6. CASE CloseBegin \/ Open \/ Replay
  BY <1>6, <1>a DEF CloseBegin, Open, Replay
<1>7. CASE CloseEnd \/ Crash
  <2>1. UNCHANGED <<files, tick>> /\ sstables' = <<>> /\ comp' = NoRun /\ flpc' = "none"
    BY <1>7 DEF CloseEnd, Crash, Stop
  <2>2. DOMAIN sstables' = {} /\ DOMAIN comp'.run = {} /\ comp'.pc = "idle"
    BY <2>1, SMT DEF NoRun
  <2>. QED BY <2>1, <2>2, ZenonT(40) DEF FilesInv
<1>8. CASE Load
  <2>0. UNCHANGED <<files, tick, comp, flpc, flid, flushing>> /\ comp.pc = "idle" /\ flpc = "none"
    BY <1>8 DEF Load, CommitInv
  <2>1. CASE sstables' = sstables
    BY <2>0, <2>1, <1>a
  <2>2. ASSUME NEW id \in live \ Range(sstables), id \in DOMAIN files, sstables' = Append(sstables, id)
        PROVE  FilesInv'
    <3>1. sstables \in Seq(SSTableID) /\ Len(sstables) \in Nat /\ DOMAIN sstables = 1..Len(sstables)
      BY SeqFacts DEF TypeOK
    <3>2. /\ DOMAIN sstables' = 1..(Len(sstables) + 1) /\ sstables'[Len(sstables) + 1] = id
          /\ \A i \in 1..Len(sstables) : sstables'[i] = sstables[i]
      <4>1. id \in SSTableID
        BY <2>2, ZenonT(40) DEF TypeOK
      <4>. QED BY <2>2, <3>1, <4>1, SMT
    <3>3. \A i \in DOMAIN sstables : sstables[i] # id
      BY <2>2 DEF Range
    <3>4. \A i \in DOMAIN sstables' : sstables'[i] \in DOMAIN files
      <4>1. \A i \in DOMAIN sstables : sstables[i] \in DOMAIN files
        BY ZenonT(40) DEF FilesInv
      <4>2. ASSUME NEW i \in DOMAIN sstables', i # Len(sstables) + 1
            PROVE  i \in DOMAIN sstables /\ sstables'[i] = sstables[i]
        <5>1. i \in 1..Len(sstables)
          BY <4>2, <3>1, <3>2, SMT
        <5>. QED BY <5>1, <3>1, <3>2
      <4>. QED BY <2>2, <3>2, <4>1, <4>2, ZenonT(40)
    <3>5. \A i, j \in DOMAIN sstables' : sstables'[i] = sstables'[j] => i = j
      <4>1. \A i, j \in DOMAIN sstables : sstables[i] = sstables[j] => i = j
        BY ZenonT(40) DEF FilesInv
      <4>. QED BY <3>1, <3>2, <3>3, <4>1, SMT
    <3>. QED BY <2>0, <3>4, <3>5, ZenonT(40) DEF FilesInv
  <2>. QED BY <1>8, <2>1, <2>2 DEF Load
<1>. QED
  BY <1>1, <1>2, <1>3, <1>4, <1>5, <1>6, <1>7, <1>8 DEF Next, Committer, Recover

-----------------------------------------------------------------------------
\* What every step keeps: the records logged, what the registered SSTables
\* hold, and, while the engine is up, what the SSTables in memory hold.
LogKept ==
  /\ DOMAIN wal = 1..Len(wal) /\ DOMAIN wal' = 1..Len(wal')
  /\ Len(wal) \in Nat /\ Len(wal') \in Nat /\ Len(wal) <= Len(wal')
  /\ \A i \in DOMAIN wal : wal'[i] = wal[i]
  /\ \A i \in DOMAIN wal' : i \in DOMAIN wal \/ wal'[i].seg = seq

LiveKept == \A k \in Key : \A x \in Version : InLive(k, x) => InLive(k, x)'

SSTablesKept == \A k \in Key : \A x \in Version : InSSTable(k, x) => InSSTable(k, x)'

\* The log only grows, and what is added goes to the current segment.
LEMMA LogKeeps == ASSUME IMem, Next PROVE LogKept
<1>. USE DEF IMem
<1>1. /\ DOMAIN wal = 1..Len(wal) /\ Len(wal) \in Nat
  BY SeqFacts DEF TypeOK
<1>2. CASE wal' = wal
  BY <1>1, <1>2, SMT DEF LogKept
<1>3. ASSUME NEW ws \in Batches, NEW n \in 0..Len(Entries(ws)),
             wal' = wal \o SubSeq(Entries(ws), 1, n)
      PROVE  LogKept
  <2>1. /\ Len(wal') = Len(wal) + n /\ DOMAIN wal' = 1..(Len(wal) + n)
        /\ \A i \in 1..Len(wal) : wal'[i] = wal[i]
    BY <1>3, LogGrows
  <2>2. n \in Nat
    BY <1>3, WholeBatch, SMT
  <2>3. \A i \in DOMAIN wal' : IF i <= Len(wal) THEN i \in DOMAIN wal /\ wal'[i] = wal[i]
                                                ELSE wal'[i].seg = seq
    BY <1>3, LogSegments, ZenonT(40)
  <2>4. Len(wal) + n \in Nat /\ Len(wal) <= Len(wal) + n
    BY <1>1, <2>2, SMT
  <2>. QED BY <1>1, <2>1, <2>3, <2>4 DEF LogKept
<1>4. CASE CommitWrite
  <2>1. PICK ws \in Batches : wal' = wal \o Entries(ws)
    BY <1>4 DEF CommitWrite, WriteBatch
  <2>2. /\ Len(Entries(ws)) \in 0..Len(Entries(ws))
        /\ Entries(ws) = SubSeq(Entries(ws), 1, Len(Entries(ws)))
    BY WholeBatch, SMT
  <2>. QED BY <1>3, <2>1, <2>2
<1>5. CASE CommitFail
  BY <1>3, <1>5 DEF CommitFail, TornBatch, WriteBatch
<1>6. CASE Crash
  <2>1. CASE wal' = wal
    BY <1>2, <2>1
  <2>2. ASSUME NEW ws \in Batches, NEW n \in 1..Len(ws), wal' = wal \o SubSeq(Entries(ws), 1, n)
        PROVE LogKept
    <3>1. Len(Entries(ws)) = Len(ws) /\ Len(ws) \in Nat
      BY EntriesFacts
    <3>2. n \in 0..Len(Entries(ws))
      BY <3>1, SMT
    <3>. QED BY <3>2, <2>2, <1>3
  <2>. QED BY <1>6, <2>1, <2>2 DEF Crash, CrashLog
<1>7. CASE Writers
  BY <1>7, <1>2 DEF Writers, Read, Put, Restore, Write
<1>8. CASE CommitHalted \/ Apply \/ Swap
  BY <1>8, <1>2, ZenonT(40) DEF CommitHalted, Apply, Swap, Rotate
<1>9. CASE Flush
  BY <1>9, <1>2 DEF Flush, FlushWrite, FlushAdd, FlushInstall, FlushPutBack, FlushDelete, DeleteThrough
<1>10. CASE Compact
  BY <1>10, <1>2, ZenonT(40) DEF Compact, CompactSelect, CompactWrite, CompactAdd, CompactRemove,
     CompactSwap, CompactDelete
<1>11. CASE CloseBegin \/ CloseEnd \/ Recover
  BY <1>11, <1>2 DEF CloseBegin, CloseEnd, Recover, Open, OpenLog, Replay, Load
<1>. QED
  BY <1>4, <1>5, <1>6, <1>7, <1>8, <1>9, <1>10, <1>11 DEF Next, Committer

\* A record that has been rolled back stays rolled back.
LEMMA RestoredKept ==
  ASSUME LogKept, NEW i \in DOMAIN wal, NEW n, NEW m, n \in Nat, m \in Nat, n <= m,
         n <= Len(wal), RestoredBy(i, n)
  PROVE  \E j \in (i + 1)..m : wal'[j].op = "restore" /\ wal'[j].key = wal'[i].key
<1>1. PICK j \in (i + 1)..n : wal[j].op = "restore" /\ wal[j].key = wal[i].key
  BY DEF RestoredBy
<1>2. i \in Nat /\ 1 <= i /\ Len(wal) \in Nat
  BY SMT DEF LogKept
<1>3. j \in 1..Len(wal) /\ j \in (i + 1)..m
  BY <1>1, <1>2, SMT
<1>. QED
  BY <1>1, <1>3 DEF LogKept

\* Everything the covers speak of is a version.
LEMMA Versions ==
  ASSUME IMem
  PROVE  /\ \A i \in DOMAIN wal : wal[i].items \in SUBSET Version /\ wal[i].key \in Key
         /\ \A id \in DOMAIN files : \A k \in Key : files[id][k] \in SUBSET Version
         /\ \A k \in Key : active[k] \in SUBSET Version /\ flushing[k] \in SUBSET Version
<1>1. \A i \in DOMAIN wal : wal[i] \in Entry
  BY SMT DEF IMem, TypeOK
<1>. QED
  BY <1>1 DEF IMem, TypeOK, Entry, Table

\* What a manifest line does to a file without a torn tail.
LEMMA AddEffect ==
  ASSUME tail = NoTail, NEW id, WriteLine(AddLine(id))
  PROVE  tail' = NoTail /\ live' = live \cup {id}
<1>1. Glue(tail, AddLine(id)) = AddLine(id)
  BY DEF Glue, NoTail
<1>2. Range(<<id>>) = {id}
  BY SMT DEF Range
<1>3. AddLine(id).op = "ADD" /\ AddLine(id).ids = <<id>>
  BY DEF AddLine
<1>. QED
  BY <1>1, <1>2, <1>3 DEF WriteLine, ApplyLine

\* What a REMOVE line that compaction writes does to the live set.
LEMMA RemoveEffect ==
  ASSUME tail = NoTail, NEW ids, WriteLine(RemoveLine(ids))
  PROVE  tail' = NoTail /\ live' = live \ Range(ids)
<1>1. Glue(tail, RemoveLine(ids)) = RemoveLine(ids)
  BY DEF Glue, NoTail
<1>2. RemoveLine(ids).op = "REMOVE" /\ RemoveLine(ids).ids = ids
  BY DEF RemoveLine
<1>. QED
  BY <1>1, <1>2 DEF WriteLine, ApplyLine

\* A failed manifest write leaves the file as it was, or the whole line in it.
LEMMA FailEffect ==
  ASSUME "torn" \notin Faults, NEW line, WriteLineFails(line)
  PROVE  WriteLine(line) \/ (live' = live /\ tail' = tail)
BY DEF WriteLineFails

\* The steps that write to the manifest, by what they do to it.
LEMMA ManifestEffect ==
  ASSUME "torn" \notin Faults, tail = NoTail, Next
  PROVE  /\ tail' = NoTail
         /\ \/ live' = live
            \/ FlushAdd /\ live' = live \cup {flid}
            \/ CompactAdd /\ live' = live \cup {comp.id}
            \/ CompactRemove /\ live' = live \ Range(comp.run)
<1>1. CASE FlushAdd
  <2>1. WriteLine(AddLine(flid)) \/ (live' = live /\ tail' = tail)
    BY <1>1, FailEffect DEF FlushAdd
  <2>. QED BY <1>1, <2>1, AddEffect
<1>2. CASE CompactAdd
  <2>1. WriteLine(AddLine(comp.id)) \/ (live' = live /\ tail' = tail)
    BY <1>2, FailEffect DEF CompactAdd
  <2>. QED BY <1>2, <2>1, AddEffect
<1>3. CASE CompactRemove
  <2>1. WriteLine(RemoveLine(comp.run)) \/ (live' = live /\ tail' = tail)
    BY <1>3, FailEffect DEF CompactRemove
  <2>. QED BY <1>3, <2>1, RemoveEffect
<1>4. CASE Writers
  BY <1>4 DEF Writers, Read, Put, Restore, Write
<1>5. CASE Committer
  BY <1>5, ZenonT(40) DEF Committer, CommitHalted, CommitWrite, CommitFail, Apply, Swap
<1>6. CASE FlushWrite \/ FlushInstall \/ FlushPutBack \/ FlushDelete
  BY <1>6 DEF FlushWrite, FlushInstall, FlushPutBack, FlushDelete
<1>7. CASE CompactSelect \/ CompactWrite \/ CompactSwap \/ CompactDelete
  BY <1>7, ZenonT(40) DEF CompactSelect, CompactWrite, CompactSwap, CompactDelete
<1>8. CASE CloseBegin \/ CloseEnd \/ Crash \/ Recover
  BY <1>8 DEF CloseBegin, CloseEnd, Crash, CrashManifest, Recover, Open, Replay, Load
<1>. QED
  BY <1>1, <1>2, <1>3, <1>4, <1>5, <1>6, <1>7, <1>8 DEF Next, Flush, Compact

\* The steps that add or delete SSTable files.
LEMMA FilesEffect ==
  ASSUME IMem, Next
  PROVE  \/ files' = files
         \/ /\ FlushWrite
            /\ \A id \in DOMAIN files : id \in DOMAIN files' /\ files'[id] = files[id]
         \/ /\ CompactWrite
            /\ \A id \in DOMAIN files : id \in DOMAIN files' /\ files'[id] = files[id]
         \/ /\ CompactAdd /\ comp' = NoRun
            /\ files' = [f \in DOMAIN files \ {comp.id} |-> files[f]]
         \/ /\ CompactDelete
            /\ \E kept : files' = [f \in DOMAIN files \ (Range(comp.run) \ kept) |-> files[f]]
<1>1. CASE FlushWrite
  <2>1. CASE files' = files
    BY <2>1
  <2>2. CASE /\ tick' = tick + 1 /\ flid' = <<tick', 0>>
             /\ files' = [id \in DOMAIN files \cup {flid'} |->
                            IF id = flid' THEN flushing ELSE files[id]]
    <3>1. \A id \in DOMAIN files : id # flid'
      <4>1. ASSUME NEW id \in DOMAIN files PROVE id # flid'
        <5>1. id[1] \in Nat /\ id[1] <= tick /\ tick \in Nat
          BY DEF IMem, FilesInv, TypeOK, SSTableID
        <5>2. flid'[1] = tick + 1
          BY <2>2
        <5>. QED BY <5>1, <5>2, SMT
      <4>. QED BY <4>1
    <3>. QED BY <1>1, <2>2, <3>1
  <2>. QED BY <1>1, <2>1, <2>2, ZenonT(40) DEF FlushWrite
<1>2. CASE CompactWrite
  <2>1. CASE files' = files
    BY <2>1
  <2>2. ASSUME NEW c \in 1..MaxSuffix, NEW id, id = <<comp.run[1][1], c>>, IsCompactedID(comp.run[1], id),
               files' = [f \in DOMAIN files \cup {id} |-> IF f = id THEN Merge(comp.run) ELSE files[f]]
        PROVE  \A f \in DOMAIN files : f \in DOMAIN files' /\ files'[f] = files[f]
    <3>1. id \notin DOMAIN files
      BY <2>2 DEF IsCompactedID
    <3>. QED BY <2>2, <3>1
  <2>. QED BY <1>2, <2>1, <2>2, ZenonT(40) DEF CompactWrite
<1>3. CASE CompactAdd
  BY <1>3 DEF CompactAdd
<1>4. CASE CompactDelete
  BY <1>4 DEF CompactDelete
<1>5. CASE Writers \/ Committer
  BY <1>5, ZenonT(40) DEF Writers, Read, Put, Restore, Write, Committer, CommitHalted, CommitWrite, CommitFail,
     Apply, Swap
<1>6. CASE FlushAdd \/ FlushInstall \/ FlushPutBack \/ FlushDelete
  BY <1>6 DEF FlushAdd, FlushInstall, FlushPutBack, FlushDelete
<1>7. CASE CompactSelect \/ CompactRemove \/ CompactSwap
  BY <1>7 DEF CompactSelect, CompactRemove, CompactSwap
<1>8. CASE CloseBegin \/ CloseEnd \/ Crash \/ Recover
  BY <1>8 DEF CloseBegin, CloseEnd, Crash, Recover, Open, Replay, Load
<1>. QED
  BY <1>1, <1>2, <1>3, <1>4, <1>5, <1>6, <1>7, <1>8, ZenonT(40) DEF Next, Flush, Compact

\* A file a restart may count on is one as long as it is registered, there,
\* and not the one a compaction is about to register.
LEMMA LiveFileKept ==
  ASSUME NEW id \in LiveFiles, id \in live', id \in DOMAIN files', files'[id] = files[id],
         comp'.pc = "add" => comp'.id # id
  PROVE  id \in LiveFiles' /\ \A k \in Key : \A x \in Version : Covers(files[id][k], x) => InLive(k, x)'
<1>1. id \in LiveFiles'
  BY DEF LiveFiles
<1>2. ASSUME NEW k \in Key, NEW x \in Version, Covers(files[id][k], x) PROVE InLive(k, x)'
  <2>1. Covers(files'[id][k], x)
    BY <1>2
  <2>2. (\E f \in LiveFiles : Covers(files[f][k], x))'
    BY <1>1, <2>1
  <2>. QED BY <2>2 DEF InLive
<1>. QED BY <1>1, <1>2

\* The registered SSTables never hold less.
LEMMA LiveKeeps ==
  ASSUME "torn" \notin Faults, IMem, ManifestInv, Next
  PROVE  LiveKept
<1>. USE DEF IMem
<1>1. SUFFICES ASSUME NEW k \in Key, NEW x \in Version, NEW id \in LiveFiles, Covers(files[id][k], x)
               PROVE  InLive(k, x)'
  BY DEF LiveKept, InLive
<1>2. id \in live /\ id \in DOMAIN files /\ ~(comp.pc = "add" /\ id = comp.id)
  BY DEF LiveFiles
<1>c. comp'.pc = "add" => comp'.id # id
  <2>1. CASE CompactWrite
    <3>1. comp' = NoRun \/ (comp'.pc = "add" /\ comp'.id \notin DOMAIN files)
      <4>1. ASSUME NEW c \in 1..MaxSuffix, IsCompactedID(comp.run[1], <<comp.run[1][1], c>>),
                   comp' = [comp EXCEPT !.pc = "add", !.id = <<comp.run[1][1], c>>]
            PROVE  comp'.pc = "add" /\ comp'.id \notin DOMAIN files
        BY <4>1 DEF IsCompactedID, TypeOK
      <4>. QED BY <2>1, <4>1, ZenonT(40) DEF CompactWrite
    <3>. QED BY <3>1, <1>2, SMT DEF NoRun
  <2>2. CASE ~CompactWrite
    <3>1. comp' = comp \/ comp'.pc # "add"
      <4>1. CASE Writers \/ Committer
        BY <4>1, ZenonT(40) DEF Writers, Read, Put, Restore, Write, Committer, CommitHalted, CommitWrite,
           CommitFail, Apply, Swap
      <4>2. CASE Flush
        BY <4>2 DEF Flush, FlushWrite, FlushAdd, FlushInstall, FlushPutBack, FlushDelete
      <4>3. CASE Compact
        <5>1. comp \in [pc : {"idle", "write", "add", "remove", "swap", "delete"},
                        run : Seq(SSTableID), id : SSTableID]
          BY DEF TypeOK
        <5>2. \/ comp' = comp \/ comp' = NoRun
              \/ \E p \in {"remove", "swap", "delete"} : comp' = [comp EXCEPT !.pc = p]
              \/ \E r : comp' = [pc |-> "write", run |-> r, id |-> <<0, 0>>]
          BY <4>3, <2>2, ZenonT(40) DEF Compact, CompactSelect, CompactAdd, CompactRemove, CompactSwap, CompactDelete
        <5>. QED BY ONLY <5>1, <5>2, SMT DEF NoRun
      <4>4. CASE CloseBegin \/ CloseEnd \/ Crash \/ Recover
        BY <4>4, SMT DEF CloseBegin, CloseEnd, Crash, Stop, NoRun, Recover, Open, Replay, Load
      <4>. QED BY <4>1, <4>2, <4>3, <4>4 DEF Next
    <3>. QED BY <3>1, <1>2
  <2>. QED BY <2>1, <2>2
<1>3. ASSUME id \in live', id \in DOMAIN files', files'[id] = files[id] PROVE InLive(k, x)'
  BY <1>1, <1>3, <1>c, LiveFileKept
<1>f. id \in live' => id \in DOMAIN files' /\ files'[id] = files[id]
  <2>1. CASE CompactAdd /\ files' = [f \in DOMAIN files \ {comp.id} |-> files[f]]
    <3>1. id # comp.id
      BY <2>1, <1>2 DEF CompactAdd
    <3>. QED BY <2>1, <3>1, <1>2
  <2>2. ASSUME CompactDelete, NEW kept,
               files' = [f \in DOMAIN files \ (Range(comp.run) \ kept) |-> files[f]]
        PROVE  id \in DOMAIN files' /\ files'[id] = files[id]
    <3>1. \A i \in DOMAIN comp.run : comp.run[i] # id
      BY <2>2, <1>2 DEF CompactDelete, ManifestInv
    <3>2. id \notin Range(comp.run)
      BY <3>1 DEF Range
    <3>. QED BY <2>2, <3>2, <1>2
  <2>. QED BY <2>1, <2>2, <1>2, FilesEffect, ZenonT(40)
<1>4. CASE id \in live'
  BY <1>3, <1>4, <1>f
<1>5. CASE id \notin live'
  <2>1. CompactRemove /\ live' = live \ Range(comp.run)
    BY <1>2, <1>5, ManifestEffect DEF ManifestInv
  <2>2. comp.pc = "remove" /\ files' = files /\ (comp' = NoRun \/ comp' = [comp EXCEPT !.pc = "swap"])
    BY <2>1 DEF CompactRemove
  <2>3. PICK i \in DOMAIN comp.run : comp.run[i] = id
    BY <2>1, <1>2, <1>5 DEF Range
  <2>4. /\ comp.id \in live /\ comp.id \in DOMAIN files
        /\ \A y \in files[comp.run[i]][k] : Covers(files[comp.id][k], y)
    BY <2>2 DEF ManifestInv, FilesInv
  <2>5. comp.id \notin Range(comp.run)
    <3>1. PICK h \in DOMAIN sstables : RunAt(h)
      BY <2>2 DEF FilesInv
    <3>2. \A j \in DOMAIN comp.run : comp.run[j] # comp.id
      BY <2>2, <3>1, RunInMemory, SMT DEF FilesInv
    <3>. QED BY <3>2 DEF Range
  <2>6. comp'.pc # "add"
    BY <2>2, SMT DEF NoRun, TypeOK
  <2>7. comp.id \in LiveFiles
    BY <2>2, <2>4 DEF LiveFiles
  <2>8. Covers(files[comp.id][k], x)
    <3>1. files[id][k] \in SUBSET Version /\ files[comp.id][k] \in SUBSET Version
      BY <1>2, <2>4, Versions
    <3>. QED BY <3>1, <1>1, <2>3, <2>4, CoversTransitive
  <2>. QED BY <2>1, <2>2, <2>4, <2>5, <2>6, <2>7, <2>8, LiveFileKept
<1>. QED BY <1>4, <1>5

\* While the engine is up, the SSTables in memory never hold less.
LEMMA SSTablesKeep ==
  ASSUME IMem, Next, up = "up", up' = "up"
  PROVE  SSTablesKept
<1>. USE DEF IMem
<1>1. SUFFICES ASSUME NEW k \in Key, NEW x \in Version, NEW i \in DOMAIN sstables,
                      Covers(files[sstables[i]][k], x)
               PROVE  InSSTable(k, x)'
  BY DEF SSTablesKept, InSSTable
<1>2. sstables[i] \in DOMAIN files
  BY DEF FilesInv
<1>s. /\ Len(sstables) \in Nat /\ DOMAIN sstables = 1..Len(sstables)
  BY SeqFacts DEF TypeOK
<1>a. ASSUME NEW j \in DOMAIN sstables', Covers(files'[sstables'[j]][k], x) PROVE InSSTable(k, x)'
  BY <1>a DEF InSSTable
<1>3. ASSUME sstables' = sstables PROVE InSSTable(k, x)'
  <2>1. files'[sstables[i]] = files[sstables[i]]
    <3>1. CASE CompactAdd /\ files' = [f \in DOMAIN files \ {comp.id} |-> files[f]]
      <4>1. sstables[i] # comp.id
        BY <3>1, SMT DEF CompactAdd, FilesInv
      <4>. QED BY <3>1, <4>1, <1>2
    <3>2. ASSUME CompactDelete, NEW kept,
                 files' = [f \in DOMAIN files \ (Range(comp.run) \ kept) |-> files[f]]
          PROVE  files'[sstables[i]] = files[sstables[i]]
      <4>1. \A j \in DOMAIN comp.run : comp.run[j] # sstables[i]
        BY <3>2 DEF CompactDelete, FilesInv
      <4>2. sstables[i] \notin Range(comp.run)
        BY <4>1 DEF Range
      <4>. QED BY <3>2, <4>2, <1>2
    <3>. QED BY <3>1, <3>2, <1>2, FilesEffect, ZenonT(40)
  <2>. QED BY <1>1, <1>3, <1>a, <2>1
<1>4. CASE FlushInstall
  <2>1. sstables' = <<flid>> \o sstables /\ files' = files
    BY <1>4 DEF FlushInstall
  <2>2. i + 1 \in DOMAIN sstables' /\ sstables'[i + 1] = sstables[i]
    <3>1. <<flid>> \in Seq(SSTableID) /\ sstables \in Seq(SSTableID) /\ Len(<<flid>>) = 1
      <4>1. flid \in SSTableID /\ sstables \in Seq(SSTableID)
        BY ZenonT(40) DEF TypeOK
      <4>. QED BY ONLY <4>1, SMT
    <3>2. DOMAIN sstables' = 1..(1 + Len(sstables))
      BY ONLY <2>1, <3>1, ConcatDomain, SMT
    <3>3. \A j \in (1 + 1)..(1 + Len(sstables)) : sstables'[j] = sstables[j - 1]
      BY ONLY <2>1, <3>1, ConcatDomain, SMT
    <3>. QED BY <3>2, <3>3, <1>s, SMT
  <2>. QED BY <1>1, <1>a, <2>1, <2>2
<1>5. CASE CompactSwap
  <2>0. comp.pc = "swap" /\ files' = files
    BY <1>5 DEF CompactSwap
  <2>1. PICK h \in DOMAIN sstables : RunAt(h) /\ sstables' = ReplaceRun(sstables, h, comp.run, comp.id)
    BY <1>5 DEF CompactSwap
  <2>. DEFINE m == Len(comp.run)
              N == Len(sstables)
  <2>2. m \in Nat \ {0} /\ N \in Nat /\ h \in 1..N /\ h + m - 1 \in 1..N /\ DOMAIN comp.run = 1..m
    <3>1. Len(comp.run) > 0 /\ comp.run \in Seq(SSTableID)
      BY <2>0 DEF FilesInv, TypeOK
    <3>. QED BY <2>1, <1>s, <3>1, SMT DEF RunAt
  <2>3. DOMAIN sstables' = 1..(N - m + 1)
    BY <2>1 DEF ReplaceRun
  <2>4. CASE i < h
    <3>1. i \in 1..(N - m + 1)
      <4>. HIDE DEF m, N
      <4>1. i \in 1..N
        BY <1>s DEF N
      <4>. QED BY <2>2, <2>4, <4>1, SMT
    <3>2. sstables'[i] = sstables[i]
      BY <2>1, <2>4, <3>1 DEF ReplaceRun
    <3>. QED BY <1>1, <1>a, <2>0, <2>3, <3>1, <3>2, ZenonT(40)
  <2>5. CASE i > h + m - 1
    <3>. DEFINE j == i - m + 1
    <3>1. j \in 1..(N - m + 1) /\ j > h /\ j + m - 1 = i
      <4>1. i \in Int /\ 1 <= i /\ i <= N /\ i > h + m - 1
        BY <1>s, <2>5, SMT
      <4>2. m \in Int /\ 1 <= m /\ h \in Int /\ 1 <= h /\ N \in Int
        BY <2>2, SMT
      <4>. HIDE DEF m, N
      <4>3. i - m + 1 <= N - m + 1 /\ 1 <= i - m + 1 /\ i - m + 1 > h /\ (i - m + 1) + m - 1 = i
        BY ONLY <4>1, <4>2, SMT
      <4>4. i - m + 1 \in Int /\ N - m + 1 \in Int
        BY ONLY <4>1, <4>2, SMT
      <4>. QED BY <4>3, <4>4, SMT
    <3>. HIDE DEF j
    <3>2. sstables'[j] = sstables[j + m - 1]
      BY <2>1, <2>2, <3>1, SMT DEF ReplaceRun
    <3>. QED BY <1>1, <1>a, <2>0, <2>3, <3>1, <3>2, ZenonT(40)
  <2>6. CASE h <= i /\ i <= h + m - 1
    <3>1. i - h + 1 \in 1..m
      <4>1. i \in 1..N
        BY <1>s
      <4>. HIDE DEF m, N
      <4>. QED BY <2>2, <2>6, <4>1, SMT
    <3>2. comp.run[i - h + 1] = sstables[h + (i - h + 1) - 1]
      BY <2>1, <2>2, <3>1 DEF RunAt
    <3>3. h + (i - h + 1) - 1 = i
      BY <2>2, <1>s, SMT
    <3>4. /\ comp.id \in DOMAIN files
          /\ \A y \in files[sstables[i]][k] : Covers(files[comp.id][k], y)
      BY <2>0, <2>2, <3>1, <3>2, <3>3, ZenonT(40) DEF FilesInv
    <3>5. Covers(files[comp.id][k], x)
      <4>1. files[sstables[i]][k] \in SUBSET Version /\ files[comp.id][k] \in SUBSET Version
        BY <1>2, <3>4, Versions
      <4>. QED BY <4>1, <1>1, <3>4, CoversTransitive
    <3>6. h \in 1..(N - m + 1)
      <4>. HIDE DEF m, N
      <4>. QED BY <2>2, SMT
    <3>7. sstables'[h] = comp.id
      BY <2>1, <2>2, <3>6, SMT DEF ReplaceRun
    <3>. QED BY <1>a, <2>0, <2>3, <3>5, <3>6, <3>7, ZenonT(40)
  <2>. QED BY <2>2, <2>4, <2>5, <2>6, <1>s, SMT
<1>6. CASE Writers \/ Committer
  BY <1>3, <1>6, ZenonT(40) DEF Writers, Read, Put, Restore, Write, Committer, CommitHalted, CommitWrite, CommitFail,
     Apply, Swap
<1>7. CASE FlushWrite \/ FlushAdd \/ FlushPutBack \/ FlushDelete
  BY <1>3, <1>7, ZenonT(40) DEF FlushWrite, FlushAdd, FlushPutBack, FlushDelete
<1>8. CASE CompactSelect \/ CompactWrite \/ CompactAdd \/ CompactRemove \/ CompactDelete
  BY <1>3, <1>8, ZenonT(40) DEF CompactSelect, CompactWrite, CompactAdd, CompactRemove, CompactDelete
<1>9. CASE CloseBegin \/ CloseEnd \/ Crash \/ Recover
  BY <1>3, <1>9 DEF CloseBegin, CloseEnd, Crash, Stop, Recover, Open, Replay, Load
<1>. QED
  BY <1>4, <1>5, <1>6, <1>7, <1>8, <1>9 DEF Next, Flush, Compact

\* ManifestInv is preserved: compactLocked registers before it unregisters.
LEMMA ManifestStep ==
  ASSUME "torn" \notin Faults, IMem, ManifestInv, Next
  PROVE  ManifestInv'
<1>. USE DEF IMem
<1>1. tail' = NoTail
  BY ManifestEffect DEF ManifestInv
<1>2. comp.pc \in {"idle", "write", "add", "remove", "swap", "delete"} /\ sstables \in Seq(SSTableID)
  BY DEF TypeOK
<1>a. ASSUME UNCHANGED <<live, flpc, flid, comp, sstables>>, up' = "load" => up = "load" PROVE ManifestInv'
  BY <1>1, <1>a DEF ManifestInv
<1>3. CASE Writers \/ CommitHalted \/ CommitWrite \/ CommitFail \/ Apply
  BY <1>a, <1>3, ZenonT(40) DEF Writers, Read, Put, Restore, Write, CommitHalted, CommitWrite, CommitFail, Apply
<1>4. CASE Swap \/ FlushWrite \/ FlushInstall \/ FlushPutBack \/ FlushDelete
  <2>1. UNCHANGED <<live, comp, up>> /\ up = "up"
    BY <1>4 DEF Swap, FlushWrite, FlushInstall, FlushPutBack, FlushDelete
  <2>2. flpc' = "install" => flpc = "install" /\ flid' = flid
    BY <1>4 DEF Swap, FlushWrite, FlushInstall, FlushPutBack, FlushDelete
  <2>. QED BY <1>1, <2>1, <2>2 DEF ManifestInv
<1>5. CASE FlushAdd
  <2>1. UNCHANGED <<comp, up, flid>> /\ up = "up" /\ flpc = "add"
    BY <1>5 DEF FlushAdd
  <2>2. WriteLine(AddLine(flid)) \/ (live' = live /\ flpc' # "install")
    BY <1>5, FailEffect DEF FlushAdd
  <2>3. live' = live \cup {flid} \/ (live' = live /\ flpc' # "install")
    BY <2>2, AddEffect DEF ManifestInv
  <2>4. comp.pc \in {"swap", "delete"} => \A i \in DOMAIN comp.run : comp.run[i] # flid
    BY <2>1 DEF FilesInv
  <2>. QED BY <1>1, <2>1, <2>3, <2>4 DEF ManifestInv
<1>6. CASE CompactSelect \/ CompactWrite
  <2>1. UNCHANGED <<live, flpc, flid, up>> /\ up = "up" /\ comp'.pc \notin {"remove", "swap", "delete"}
    <3>1. CASE CompactSelect
      BY <3>1, SMT DEF CompactSelect
    <3>2. CASE CompactWrite
      <4>1. comp' = NoRun \/ comp'.pc = "add"
        BY <3>2, ZenonT(40) DEF CompactWrite, TypeOK
      <4>2. comp'.pc \notin {"remove", "swap", "delete"}
        BY <4>1, SMT DEF NoRun
      <4>3. UNCHANGED <<live, flpc, flid, up>> /\ up = "up"
        BY <3>2, ZenonT(40) DEF CompactWrite
      <4>. QED BY <4>2, <4>3
    <3>. QED BY <1>6, <3>1, <3>2
  <2>. QED BY <1>1, <2>1 DEF ManifestInv
<1>7. CASE CompactAdd
  <2>1. UNCHANGED <<flpc, flid, up>> /\ up = "up"
    BY <1>7 DEF CompactAdd
  <2>2. \/ live' = live \cup {comp.id} /\ comp'.pc = "remove" /\ comp'.id = comp.id
        \/ comp'.pc = "idle" /\ live \subseteq live'
    <3>1. CASE WriteLine(AddLine(comp.id)) /\ comp' = [comp EXCEPT !.pc = "remove"]
      BY <3>1, AddEffect DEF ManifestInv, TypeOK
    <3>2. CASE WriteLineFails(AddLine(comp.id)) /\ comp' = NoRun
      <4>1. live' = live \cup {comp.id} \/ live' = live
        BY <3>2, FailEffect, AddEffect DEF ManifestInv
      <4>. QED BY <3>2, <4>1 DEF NoRun
    <3>. QED BY <1>7, <3>1, <3>2 DEF CompactAdd
  <2>. QED BY <1>1, <2>1, <2>2 DEF ManifestInv
<1>8. CASE CompactRemove
  <2>1. UNCHANGED <<flpc, flid, up>> /\ up = "up" /\ comp.pc = "remove"
    BY <1>8 DEF CompactRemove
  <2>r. \A i \in DOMAIN comp.run : comp.run[i] \in Range(comp.run)
    BY DEF Range
  <2>i. comp.id \notin Range(comp.run)
    <3>1. PICK h \in DOMAIN sstables : RunAt(h)
      BY <2>1 DEF FilesInv
    <3>2. \A j \in DOMAIN comp.run : comp.run[j] # comp.id
      BY <2>1, <3>1, RunInMemory, SMT DEF FilesInv
    <3>. QED BY <3>2 DEF Range
  <2>2. live' = live \/ live' = live \ Range(comp.run)
    BY <1>8, FailEffect, RemoveEffect DEF CompactRemove, ManifestInv
  <2>3. flpc = "install" => flid \notin Range(comp.run)
    <3>1. flpc = "install" => \A i \in DOMAIN comp.run : comp.run[i] # flid
      BY DEF FilesInv
    <3>. QED BY <3>1 DEF Range
  <2>4. (flpc = "install" => flid \in live)'
    BY <2>1, <2>2, <2>3 DEF ManifestInv
  <2>5. CASE WriteLine(RemoveLine(comp.run)) /\ comp' = [comp EXCEPT !.pc = "swap"]
    <3>1. live' = live \ Range(comp.run)
      BY <2>5, RemoveEffect DEF ManifestInv
    <3>2. comp'.pc = "swap" /\ comp'.run = comp.run /\ comp'.id = comp.id
      BY <2>5 DEF TypeOK
    <3>3. comp.id \in live'
      BY <2>1, <2>i, <3>1 DEF ManifestInv
    <3>. QED BY <1>1, <2>1, <2>4, <2>r, <3>1, <3>2, <3>3 DEF ManifestInv
  <2>6. CASE comp' = NoRun
    <3>1. comp'.pc = "idle"
      BY <2>6 DEF NoRun
    <3>. QED BY <1>1, <2>1, <2>4, <3>1 DEF ManifestInv
  <2>. QED BY <1>8, <2>5, <2>6 DEF CompactRemove
<1>9. CASE CompactSwap
  <2>1. UNCHANGED <<live, flpc, flid, up>> /\ up = "up" /\ comp.pc = "swap"
    BY <1>9 DEF CompactSwap
  <2>2. comp'.pc = "delete" /\ comp'.run = comp.run
    BY <1>9 DEF CompactSwap, TypeOK
  <2>. QED BY <1>1, <2>1, <2>2 DEF ManifestInv
<1>10. CASE CompactDelete
  <2>1. UNCHANGED <<live, flpc, flid, up>> /\ up = "up" /\ comp'.pc = "idle"
    BY <1>10 DEF CompactDelete, NoRun
  <2>. QED BY <1>1, <2>1 DEF ManifestInv
<1>11. CASE CloseBegin \/ Open
  BY <1>a, <1>11 DEF CloseBegin, Open
<1>12. CASE CloseEnd \/ Crash
  <2>1. up' = "down" /\ flpc' = "none" /\ comp'.pc = "idle"
    BY <1>12, SMT DEF CloseEnd, Crash, Stop, NoRun
  <2>. QED BY <1>1, <2>1 DEF ManifestInv
<1>13. CASE Replay
  <2>1. UNCHANGED <<live, flpc, flid, comp, sstables>> /\ sstables = <<>>
    BY <1>13 DEF Replay, CommitInv
  <2>. QED BY <1>1, <2>1, SMT DEF ManifestInv
<1>14. CASE Load
  <2>1. UNCHANGED <<live, flpc, flid, comp>> /\ up = "load"
    BY <1>14 DEF Load
  <2>2. CASE sstables' = sstables
    BY <1>1, <2>1, <2>2 DEF ManifestInv
  <2>3. ASSUME NEW id \in live, sstables' = Append(sstables, id) PROVE ManifestInv'
    <3>1. id \in SSTableID
      BY <2>3 DEF TypeOK
    <3>2. \A i \in DOMAIN sstables' : \/ i \in DOMAIN sstables /\ sstables'[i] = sstables[i]
                                      \/ sstables'[i] = id
      BY <2>3, <3>1, <1>2, SMT
    <3>. QED BY <1>1, <2>1, <2>3, <3>2 DEF ManifestInv
  <2>. QED BY <1>14, <2>2, <2>3 DEF Load
<1>. QED
  BY <1>3, <1>4, <1>5, <1>6, <1>7, <1>8, <1>9, <1>10, <1>11, <1>12, <1>13, <1>14
  DEF Next, Committer, Flush, Compact, Recover

\* Registered files are ones a restart may count on.
LEMMA LiveCovers ==
  ASSUME NEW id \in LiveFiles, NEW k \in Key, NEW x, Covers(files[id][k], x)
  PROVE  InLive(k, x)
BY DEF InLive

\* SSTablesLive is preserved: a source leaves the manifest only under a live result.
LEMMA SSTablesLiveStep ==
  ASSUME "torn" \notin Faults, IMem, IMem', ManifestInv, SSTablesLive, Next
  PROVE  SSTablesLive'
<1>. USE DEF IMem
<1>1. SUFFICES ASSUME up' = "up", NEW i \in DOMAIN sstables', NEW k \in Key,
                      NEW x \in files'[sstables'[i]][k]
               PROVE  InLive(k, x)'
  BY DEF SSTablesLive
<1>2. LiveKept
  BY LiveKeeps
<1>3. /\ sstables'[i] \in DOMAIN files' /\ x \in Version
      /\ files'[sstables'[i]][k] \in SUBSET Version
  <2>1. (\A j \in DOMAIN sstables : sstables[j] \in DOMAIN files)'
    BY DEF FilesInv
  <2>2. (\A id \in DOMAIN files : files[id] \in Table)'
    BY ZenonT(40) DEF TypeOK
  <2>. QED BY <2>1, <2>2 DEF Table
<1>4. ASSUME sstables'[i] \in LiveFiles' PROVE InLive(k, x)'
  <2>1. Covers(files'[sstables'[i]][k], x)
    BY <1>3, CoversSelf
  <2>2. (\E id \in LiveFiles : Covers(files[id][k], x))'
    BY <1>4, <2>1
  <2>. QED BY <2>2, ZenonT(40) DEF InLive
<1>5. ASSUME up = "up", NEW h \in DOMAIN sstables, sstables'[i] = sstables[h] PROVE InLive(k, x)'
  <2>1. sstables[h] \in DOMAIN files
    BY ZenonT(40) DEF FilesInv
  <2>2. files'[sstables[h]] = files[sstables[h]]
    <3>1. CASE CompactAdd /\ files' = [f \in DOMAIN files \ {comp.id} |-> files[f]]
      BY <3>1, <1>3, <1>5, ZenonT(40)
    <3>2. ASSUME CompactDelete, NEW kept,
                 files' = [f \in DOMAIN files \ (Range(comp.run) \ kept) |-> files[f]]
          PROVE  files'[sstables[h]] = files[sstables[h]]
      BY <3>2, <1>3, <1>5
    <3>. QED BY <3>1, <3>2, <2>1, FilesEffect, ZenonT(40)
  <2>3. InLive(k, x)
    BY <1>5, <2>2 DEF SSTablesLive
  <2>. QED BY <1>2, <1>3, <2>3 DEF LiveKept
<1>6. CASE FlushInstall
  <2>1. /\ sstables' = <<flid>> \o sstables /\ UNCHANGED <<files, live, comp>> /\ up = "up"
        /\ flpc = "install"
    BY <1>6 DEF FlushInstall
  <2>2. flid \in LiveFiles'
    BY <2>1, ZenonT(40) DEF LiveFiles, ManifestInv, FilesInv
  <2>3. sstables'[i] = flid \/ \E h \in DOMAIN sstables : sstables'[i] = sstables[h]
    <3>1. <<flid>> \in Seq(SSTableID) /\ sstables \in Seq(SSTableID) /\ Len(<<flid>>) = 1
      <4>1. flid \in SSTableID /\ sstables \in Seq(SSTableID)
        BY ZenonT(40) DEF TypeOK
      <4>. QED BY ONLY <4>1, SMT
    <3>2. DOMAIN sstables' = 1..(1 + Len(sstables)) /\ Len(sstables) \in Nat
      BY ONLY <2>1, <3>1, ConcatDomain, SMT
    <3>3. /\ \A j \in 1..1 : sstables'[j] = <<flid>>[j]
          /\ \A j \in (1 + 1)..(1 + Len(sstables)) : sstables'[j] = sstables[j - 1]
      BY ONLY <2>1, <3>1, ConcatDomain, SMT
    <3>4. CASE i = 1
      BY <3>3, <3>4, SMT
    <3>5. CASE i # 1
      <4>1. i \in (1 + 1)..(1 + Len(sstables)) /\ i - 1 \in 1..Len(sstables)
        BY <3>2, <3>5, SMT
      <4>. QED BY <4>1, <3>1, <3>3, SMT
    <3>. QED BY <3>4, <3>5, ZenonT(40)
  <2>. QED BY <1>4, <1>5, <2>1, <2>2, <2>3
<1>7. CASE CompactSwap
  <2>1. up = "up" /\ comp.pc = "swap" /\ UNCHANGED <<files, live>>
    BY <1>7 DEF CompactSwap
  <2>2. PICK h \in DOMAIN sstables : RunAt(h) /\ sstables' = ReplaceRun(sstables, h, comp.run, comp.id)
    BY <1>7 DEF CompactSwap
  <2>3. comp.id \in LiveFiles'
    <3>1. comp'.pc = "delete"
      BY <1>7 DEF CompactSwap, TypeOK
    <3>. QED BY <2>1, <3>1, ZenonT(40) DEF LiveFiles, ManifestInv, FilesInv
  <2>4. sstables'[i] = comp.id \/ \E l \in DOMAIN sstables : sstables'[i] = sstables[l]
    <3>. DEFINE m == Len(comp.run)
                N == Len(sstables)
    <3>1. Len(comp.run) > 0 /\ comp.run \in Seq(SSTableID) /\ sstables \in Seq(SSTableID)
      BY <2>1, ZenonT(40) DEF FilesInv, TypeOK
    <3>2. m \in Nat \ {0} /\ N \in Nat /\ h \in 1..N /\ h + m - 1 \in 1..N /\ DOMAIN sstables = 1..N
      BY <2>2, <3>1, SMT DEF RunAt
    <3>3. i \in 1..(N - m + 1)
      BY <2>2, ZenonT(40) DEF ReplaceRun
    <3>4. CASE i < h
      <4>1. i \in 1..N
        <5>. HIDE DEF m, N
        <5>. QED BY <3>2, <3>3, <3>4, SMT
      <4>. QED BY <2>2, <3>2, <3>3, <3>4, <4>1 DEF ReplaceRun
    <3>5. CASE i = h
      BY <2>2, <3>3, <3>5 DEF ReplaceRun
    <3>6. CASE i > h
      <4>1. i + m - 1 \in 1..N /\ ~(i < h) /\ i # h
        <5>. HIDE DEF m, N
        <5>. QED BY <3>2, <3>3, <3>6, SMT
      <4>2. sstables'[i] = sstables[i + m - 1]
        BY <2>2, <3>3, <4>1 DEF ReplaceRun
      <4>. QED BY <3>2, <4>1, <4>2
    <3>. QED BY <3>2, <3>3, <3>4, <3>5, <3>6, SMT
  <2>. QED BY <1>4, <1>5, <2>1, <2>3, <2>4
<1>8. CASE Load
  <2>1. up = "load" /\ UNCHANGED <<live, files, comp>> /\ comp.pc = "idle" /\ sstables' = sstables
    BY <1>1, <1>8, ZenonT(40) DEF Load, CommitInv
  <2>2. sstables'[i] \in LiveFiles'
    BY <2>1, <1>3, ZenonT(40) DEF LiveFiles, ManifestInv
  <2>. QED BY <1>4, <2>2
<1>9. CASE Writers \/ Committer
  BY <1>5, <1>9, ZenonT(40) DEF Writers, Read, Put, Restore, Write, Committer, CommitHalted, CommitWrite, CommitFail,
     Apply, Swap
<1>10. CASE FlushWrite \/ FlushAdd \/ FlushPutBack \/ FlushDelete
  BY <1>5, <1>10, ZenonT(40) DEF FlushWrite, FlushAdd, FlushPutBack, FlushDelete
<1>11. CASE CompactSelect \/ CompactWrite \/ CompactAdd \/ CompactRemove \/ CompactDelete
  BY <1>5, <1>11, ZenonT(40) DEF CompactSelect, CompactWrite, CompactAdd, CompactRemove, CompactDelete
<1>12. CASE CloseBegin \/ CloseEnd \/ Crash \/ Open \/ Replay
  BY <1>1, <1>5, <1>12 DEF CloseBegin, CloseEnd, Crash, Stop, Open, Replay
<1>. QED
  BY <1>6, <1>7, <1>8, <1>9, <1>10, <1>11, <1>12 DEF Next, Flush, Compact, Recover

\* Two ways a version an SSTable in memory holds is one a restart finds.
LEMMA SSTableIsLive ==
  ASSUME IMem, SSTablesLive, up = "up", NEW k \in Key, NEW x \in Version, InSSTable(k, x)
  PROVE  InLive(k, x)
<1>1. PICK i \in DOMAIN sstables : Covers(files[sstables[i]][k], x)
  BY DEF InSSTable
<1>2. PICK y \in files[sstables[i]][k] : Leq(x, y)
  BY <1>1 DEF Covers
<1>3. sstables[i] \in DOMAIN files
  BY ZenonT(40) DEF IMem, FilesInv
<1>4. y \in Version
  BY <1>2, <1>3, Versions
<1>5. InLive(k, y)
  BY <1>2 DEF SSTablesLive
<1>6. PICK id \in LiveFiles : Covers(files[id][k], y)
  BY <1>5 DEF InLive
<1>7. id \in DOMAIN files
  BY <1>6 DEF LiveFiles
<1>8. files[id][k] \in SUBSET Version
  BY <1>7, Versions
<1>9. PICK z \in files[id][k] : Leq(y, z)
  BY <1>6 DEF Covers
<1>10. Leq(x, z)
  BY <1>2, <1>4, <1>8, <1>9, LeqTransitive
<1>11. Covers(files[id][k], x)
  BY <1>9, <1>10 DEF Covers
<1>. QED BY <1>11, LiveCovers

\* DiskCover is preserved: flush deletes segments only once their SSTable is live.
LEMMA DiskStep ==
  ASSUME "torn" \notin Faults, IMem, ManifestInv, SSTablesLive, DiskCover, FlushCover, Next
  PROVE  DiskCover'
<1>. USE DEF IMem
<1>1. LogKept
  BY LogKeeps
<1>2. LiveKept
  BY LiveKeeps
<1>t. /\ gone \in Nat /\ seq \in Nat /\ pos \in Nat /\ pos <= Len(wal) /\ sealed \in Nat
      /\ gone < seq /\ (\A s \in deletes : s \in Nat /\ s < seq)
      /\ \A i \in DOMAIN wal : wal[i].seg \in Nat
  <2>1. \A i \in DOMAIN wal : wal[i] \in Entry
    BY SMT DEF TypeOK
  <2>. QED BY <2>1 DEF TypeOK, LogInv, Entry
<1>g. /\ gone' \in Nat /\ \/ gone' <= gone \/ \E s \in deletes : gone' <= s
      /\ deletes' \subseteq deletes \/ (FlushInstall /\ deletes' = deletes \cup {sealed})
  <2>1. CASE FlushDelete
    <3>1. PICK s \in deletes : DeleteThrough(s, "unlink" \in Faults) /\ deletes' = deletes \ {s}
      BY <2>1 DEF FlushDelete
    <3>2. gone' \in gone..(IF s > gone THEN s ELSE gone)
      BY <3>1 DEF DeleteThrough
    <3>. QED BY <3>1, <3>2, <1>t, SMT
  <2>2. CASE Crash
    <3>1. gone' \in (IF "undelete" \in Faults THEN 0 ELSE gone)..gone /\ deletes' = {}
      BY <2>2 DEF Crash, Stop
    <3>. QED BY <3>1, <1>t, SMT
  <2>3. CASE FlushInstall
    BY <2>3, <1>t, SMT DEF FlushInstall
  <2>4. CASE Writers \/ Committer
    <3>1. gone' = gone /\ deletes' = deletes
      BY <2>4, ZenonT(40) DEF Writers, Read, Put, Restore, Write, Committer, CommitHalted, CommitWrite, CommitFail,
         Apply, Swap, WriteBatch, TornBatch, Rotate
    <3>. QED BY <3>1, <1>t, SMT
  <2>5. CASE FlushWrite \/ FlushAdd \/ FlushPutBack
    BY <2>5, <1>t, SMT DEF FlushWrite, FlushAdd, FlushPutBack
  <2>6. CASE Compact
    <3>1. gone' = gone /\ deletes' = deletes
      BY <2>6, ZenonT(40) DEF Compact, CompactSelect, CompactWrite, CompactAdd, CompactRemove, CompactSwap, CompactDelete
    <3>. QED BY <3>1, <1>t, SMT
  <2>7. CASE CloseBegin \/ CloseEnd \/ Recover
    BY <2>7, <1>t, SMT DEF CloseBegin, CloseEnd, Stop, Recover, Open, OpenLog, Replay, Load
  <2>. QED BY <2>1, <2>2, <2>3, <2>4, <2>5, <2>6, <2>7 DEF Next, Flush
<1>3. SUFFICES ASSUME NEW i \in DOMAIN wal',
                      wal'[i].seg <= gone' \/ \E s \in deletes' : wal'[i].seg <= s
               PROVE  \/ \E j \in (i + 1)..Len(wal') : wal'[j].op = "restore" /\ wal'[j].key = wal'[i].key
                      \/ \A x \in wal'[i].items :
                           \E id \in LiveFiles' : Covers(files'[id][wal'[i].key], x)
  BY ZenonT(40) DEF DiskCover, RestoredBy, InLive
<1>4. i \in DOMAIN wal
  <2>1. ASSUME wal'[i].seg = seq PROVE FALSE
    <3>1. CASE wal'[i].seg <= gone'
      BY <2>1, <3>1, <1>g, <1>t, SMT
    <3>2. ASSUME NEW s \in deletes', wal'[i].seg <= s PROVE FALSE
      <4>1. s \in deletes \/ (FlushInstall /\ s = sealed)
        BY <1>g
      <4>2. FlushInstall => sealed < seq
        BY ZenonT(40) DEF FlushInstall, LogInv
      <4>. QED BY <2>1, <3>2, <4>1, <4>2, <1>t, SMT
    <3>. QED BY <3>1, <3>2, <1>3
  <2>. QED BY <2>1, <1>1 DEF LogKept
<1>5. wal'[i] = wal[i] /\ wal[i].items \in SUBSET Version /\ wal[i].key \in Key
  <2>1. wal'[i] = wal[i]
    BY <1>1, <1>4, ZenonT(40) DEF LogKept
  <2>2. wal[i].items \in SUBSET Version /\ wal[i].key \in Key
    BY <1>4, Versions, ZenonT(40)
  <2>. QED BY <2>1, <2>2, ZenonT(40)
<1>6. ASSUME RestoredBy(i, Len(wal))
      PROVE  \E j \in (i + 1)..Len(wal') : wal'[j].op = "restore" /\ wal'[j].key = wal'[i].key
  <2>1. Len(wal) \in Nat /\ Len(wal') \in Nat /\ Len(wal) <= Len(wal')
    BY <1>1, ZenonT(40) DEF LogKept
  <2>2. Len(wal) <= Len(wal)
    BY ONLY <2>1, SMT
  <2>. QED BY <1>1, <1>4, <1>6, <2>1, <2>2, RestoredKept, ZenonT(40)
<1>7. ASSUME \A x \in wal[i].items : InLive(wal[i].key, x)
      PROVE  \A x \in wal'[i].items : \E id \in LiveFiles' : Covers(files'[id][wal'[i].key], x)
  BY <1>2, <1>5, <1>7 DEF LiveKept, InLive
<1>8. CASE wal[i].seg <= gone \/ \E s \in deletes : wal[i].seg <= s
  BY <1>4, <1>6, <1>7, <1>8, ZenonT(40) DEF DiskCover
<1>9. CASE ~(wal[i].seg <= gone \/ \E s \in deletes : wal[i].seg <= s)
  <2>1. FlushInstall /\ wal[i].seg <= sealed
    <3>1. CASE wal[i].seg <= gone'
      BY <3>1, <1>g, <1>9, <1>t, <1>4, SMT
    <3>2. ASSUME NEW s \in deletes', wal[i].seg <= s PROVE FlushInstall /\ wal[i].seg <= sealed
      BY <3>2, <1>g, <1>9
    <3>. QED BY <3>1, <3>2, <1>3, <1>5
  <2>2. up = "up" /\ flpc = "install"
    BY <2>1 DEF FlushInstall
  <2>3. \/ RestoredBy(i, pos)
        \/ \A x \in wal[i].items : Covers(flushing[wal[i].key], x) \/ InSSTable(wal[i].key, x)
    BY <1>4, <2>1, <2>2 DEF FlushCover
  <2>4. flid \in LiveFiles /\ files[flid] = flushing
    BY <2>2, ZenonT(40) DEF LiveFiles, FilesInv, ManifestInv
  <2>5. RestoredBy(i, pos) => RestoredBy(i, Len(wal))
    <3>1. Len(wal) \in Nat
      BY <1>1 DEF LogKept
    <3>2. \A j \in (i + 1)..pos : j \in (i + 1)..Len(wal)
      BY <3>1, <1>t, SMT
    <3>. QED BY <3>2 DEF RestoredBy
  <2>6. ASSUME NEW x \in wal[i].items, Covers(flushing[wal[i].key], x) \/ InSSTable(wal[i].key, x)
        PROVE  InLive(wal[i].key, x)
    <3>1. CASE Covers(flushing[wal[i].key], x)
      BY <2>4, <3>1, <1>5, LiveCovers
    <3>2. CASE InSSTable(wal[i].key, x)
      BY <2>2, <3>2, <1>5, SSTableIsLive
    <3>. QED BY <2>6, <3>1, <3>2, ZenonT(40)
  <2>. QED BY <1>6, <1>7, <2>3, <2>5, <2>6
<1>. QED BY <1>8, <1>9
=============================================================================
