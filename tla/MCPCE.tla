------------------------------- MODULE MCPCE -------------------------------
(* PCE with a producer, a consumer and a second producer. *)
EXTENDS PCE

MCRoles == [i \in 0 .. 2 |-> IF i = 1 THEN {"CAN_CONSUME"} ELSE {"CAN_PRODUCE"}]
============================================================================
