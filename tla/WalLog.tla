------------------------------- MODULE WalLog -------------------------------
(***************************************************************************)
(* The segmented write-ahead log (internal/storage/wal): what is on disk,  *)
(* and what each operation of wal.Log does to it.                          *)
(*                                                                         *)
(* wal is every record ever made durable, in log order, each with the      *)
(* number of the segment it went to; a segment file is the records with    *)
(* its number.  Segments numbered at most gone have been unlinked, so the  *)
(* records a replay finds are those with seg > gone.  A torn record at     *)
(* the end of a segment is not a record: Replay stops at it and truncates  *)
(* it, and no segment is appended to after a replay.                       *)
(***************************************************************************)
EXTENDS Naturals, Sequences

VARIABLES wal,   \* the durable records, in order
          seq,   \* the number of the segment being appended to
          gone   \* segments numbered at most this have been unlinked

logVars == <<wal, seq, gone>>

LogInit == wal = <<>> /\ seq = 1 /\ gone = 0

\* The first n records are the ones in unlinked segments.
Unlinked(n) == \A i \in DOMAIN wal : i <= n <=> wal[i].seg <= gone

\* WriteBatch that returned nil: one write and one fsync for all of it.
WriteBatch(records) == wal' = wal \o records /\ UNCHANGED <<seq, gone>>

\* A WriteBatch that failed, or that a crash cut short: any prefix of the
\* records may be on disk, followed by a torn one.
TornBatch(records) ==
  \E n \in 0..Len(records) : WriteBatch(SubSeq(records, 1, n))

\* Faulty variants of Rotate and DeleteThrough: the next segment has the
\* sealed one's number; the segment after s goes too.
RotateInPlace == UNCHANGED <<wal, seq, gone>>

DeleteThroughNext(s, stop) ==
  gone' = (IF s + 1 > gone THEN s + 1 ELSE gone) /\ UNCHANGED <<wal, seq>>

\* Rotate: seal the current segment and start the next.
Rotate == seq' = seq + 1 /\ UNCHANGED <<wal, gone>>

\* DeleteThrough(s): unlink the sealed segments numbered at most s, oldest
\* first.  When it stops at one it cannot unlink (stop), the newer ones stay.
DeleteThrough(s, stop) ==
  /\ \E d \in gone..(IF s > gone THEN s ELSE gone) :
        /\ stop \/ d >= s
        /\ gone' = d
  /\ UNCHANGED <<wal, seq>>

\* OpenLog: every segment still there is replayed, and appends go to a new one.
OpenLog == seq' = seq + 1 /\ UNCHANGED <<wal, gone>>
=============================================================================
