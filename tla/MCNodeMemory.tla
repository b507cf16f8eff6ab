---------------------------- MODULE MCNodeMemory ----------------------------
(* NodeMemory with two events and one event ID that is taught. *)
EXTENDS NodeMemory

(* A tool that writes anywhere, and one that leaves alone what the layout   *)
(* of the sketches calls internal data.                                     *)
AnyCell == Cell
UserCells == EVENT(0) .. REST
=============================================================================
