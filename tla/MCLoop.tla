------------------------------- MODULE MCLoop -------------------------------
(* A node and three tools: two that read, while a third gives commands. *)
EXTENDS Loop, TLC

CONSTANTS s, t1, t2, t3
MCWants ==
  (t1 :> {"read", "snii"}) @@ (t2 :> {"read", "snii", "pip"}) @@ (t3 :> {"command", "pip"})
=============================================================================
