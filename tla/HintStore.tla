------------------------------ MODULE HintStore ------------------------------
(***************************************************************************)
(* The hint store of every node (internal/hints), for one key: the         *)
(* versions held for each target in an engine of its own.  The engine      *)
(* cannot delete, so delivered hints are retired by a marker version whose *)
(* clock is after theirs.                                                  *)
(***************************************************************************)
EXTENDS DataStore

CONSTANTS Delivered,  \* deliveredEntry: the clock entry only markers have
          NoValue     \* the nil value of a marker

\* It starts with sep, so it is no node's entry.
ASSUME DeliveredAssumption ==
  Delivered \in ClockIDs \ (Replica \X (0..MaxIncarnation)) /\ NoValue \in Value

VARIABLE hints  \* hints[n][t]: what n's store holds for target t

HintsInit == hints = [n \in Replica |-> [t \in Replica |-> {}]]

isMarker(item) == item.clock[Delivered] > 0

enginePut(n, t, item) == hints' = [hints EXCEPT ![n][t] = Resolve(@, item)]

Add(n, t, item) == ~isMarker(item) /\ enginePut(n, t, item)

Pending(n, t) == {item \in hints[n][t] : ~isMarker(item)}

\* A marker after everything delivered.
Marker(delivered) ==
  [clock |-> [UnionVectorClock(delivered) EXCEPT ![Delivered] = 1], val |-> NoValue]

MarkDelivered(n, t, delivered) == enginePut(n, t, Marker(delivered))
=============================================================================
