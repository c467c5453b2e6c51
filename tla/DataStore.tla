------------------------------ MODULE DataStore ------------------------------
(***************************************************************************)
(* The versioned store of every node (internal/store), for one key, on top *)
(* of the Persister it is given.  StorageEngine models the persister       *)
(* itself; here it is the two layers its callers can tell apart: active,   *)
(* the versions in the active memtable, which a Restore replaces, and      *)
(* flushed, those outside it, which a Restore cannot remove.               *)
(*                                                                         *)
(* Every write holds the key's lock from its read to its persist and locks *)
(* nothing else, so each operation below is one step; reads take no lock   *)
(* and are one call to the persister.                                      *)
(***************************************************************************)
EXTENDS Versioning

CONSTANTS Replica,         \* the nodes of the key's preference list
          MaxIncarnation,  \* bound: how often a node is replaced
          NoContext        \* a nil context: build on what the store has

VARIABLES active, flushed,
          inc              \* the incarnation in the node's IDENTITY file

storeVars == <<active, flushed, inc>>

\* The clock entry of a node: its id and incarnation (identity.ClockID).
clockID(n) == <<n, inc[n]>>

ASSUME ClockIDsAssumption ==
  MaxIncarnation \in Nat /\ Replica \X (0..MaxIncarnation) \subseteq ClockIDs

StoreInit ==
  /\ active = [n \in Replica |-> {}]
  /\ flushed = [n \in Replica |-> {}]
  /\ inc = [n \in Replica |-> 0]

\* load: every version of the key, tombstones included.
Get(n) == MergeSiblings(active[n], flushed[n])

\* A mutation of PersisterPut: the version is added and resolves nothing.
PersisterAppend(n, item) == active' = [active EXCEPT ![n] = @ \cup {item}]

\* Persister.Put: merged into the active memtable as Resolve says.
PersisterPut(n, item) == active' = [active EXCEPT ![n] = Resolve(@, item)]

(***************************************************************************)
(* The version Put writes: one after the context, or, without one, after   *)
(* everything the store has, with this node's own entry incremented.       *)
(***************************************************************************)
NewVersion(n, context, value) ==
  LET base == IF context = NoContext THEN UnionVectorClock(Get(n)) ELSE context
  IN  [clock |-> BuildFromContext(base, clockID(n)), val |-> value]

Put(n, context, value) == PersisterPut(n, NewVersion(n, context, value))

MergeReplicated(n, item) == PersisterPut(n, item)

\* RestoreVersions: the versions in the active memtable become items; what
\* is flushed stays visible (ErrRestoreIncomplete).
RestoreVersions(n, items) == active' = [active EXCEPT ![n] = items]

\* The engine freezes and flushes its memtable, whenever it likes.
Flush(n) ==
  /\ flushed' = [flushed EXCEPT ![n] = Get(n)]
  /\ active' = [active EXCEPT ![n] = {}]
  /\ UNCHANGED inc

\* A mutation of NewDataDir: the replacement takes over the node's identity.
NewDataDirOldIdentity(n) ==
  /\ active' = [active EXCEPT ![n] = {}]
  /\ flushed' = [flushed EXCEPT ![n] = {}]
  /\ UNCHANGED inc

\* LoadOrCreate on an empty data dir: a new incarnation, nothing stored.
NewDataDir(n) ==
  /\ active' = [active EXCEPT ![n] = {}]
  /\ flushed' = [flushed EXCEPT ![n] = {}]
  /\ inc' = [inc EXCEPT ![n] = @ + 1]

\* LoadOrCreate on the data dir of an earlier run: the same incarnation.
SameDataDir(n) == UNCHANGED storeVars

StoreTypeOK ==
  /\ \A n \in Replica : active[n] \subseteq Version /\ Siblings(active[n])
  /\ \A n \in Replica : flushed[n] \subseteq Version /\ Siblings(flushed[n])
  /\ inc \in [Replica -> 0..MaxIncarnation]
=============================================================================
