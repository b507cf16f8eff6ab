------------------------------- MODULE Fifo -------------------------------
(* What a CAN driver promises in each direction: the frames it has taken   *)
(* come out in the order they went in, each once; at most Cap are inside.  *)
EXTENDS Naturals, Sequences

CONSTANTS Frame, None, Cap

VARIABLES
  q,    \* the frames inside, oldest first
  out   \* the frame that came out last

Init == q = <<>> /\ out = None

Put(f) == Len(q) < Cap /\ q' = Append(q, f) /\ UNCHANGED out

Get == q # <<>> /\ out' = Head(q) /\ q' = Tail(q)

Next == Get \/ \E f \in Frame : Put(f)

Spec == Init /\ [][Next]_<<q, out>>
===========================================================================
