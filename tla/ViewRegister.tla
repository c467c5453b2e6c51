---------------------------- MODULE ViewRegister ----------------------------
(***************************************************************************)
(* What a node promises about its membership view: it has a register on    *)
(* disk, and shows the others only what it has put there.  A view is       *)
(* recorded only over a lower epoch than its own, and what is recorded is  *)
(* shown as it is, or not at all: a recorded view may be replaced before   *)
(* it is ever shown, by one of a lower epoch even, and a view once shown   *)
(* is found on disk or followed by a higher epoch.                         *)
(***************************************************************************)
EXTENDS Naturals

CONSTANTS Node, View

VARIABLES
  kept,   \* kept[n]: the view n comes back with after a crash
  shown   \* shown[n]: the view n serves and announces

Init == kept \in [Node -> View] /\ shown = kept

Record(n) ==
  /\ kept'[n] \in View /\ kept'[n].epoch > shown[n].epoch
  /\ kept' = [kept EXCEPT ![n] = kept'[n]]
  /\ UNCHANGED shown

Show(n) ==
  /\ kept[n].epoch > shown[n].epoch
  /\ shown' = [shown EXCEPT ![n] = kept[n]]
  /\ UNCHANGED kept

Next == \E n \in Node : Record(n) \/ Show(n)

Spec == Init /\ [][Next]_<<kept, shown>>
=============================================================================
