--------------------------- MODULE AliasRegistry ---------------------------
(***************************************************************************)
(* What alias allocation promises: at any time a node holds one alias or   *)
(* none, it takes an alias that nobody holds, and it lets go of the one it *)
(* holds before it takes another.                                          *)
(***************************************************************************)
CONSTANTS Node, Alias, None

VARIABLE holds   \* the alias each node holds, or None

Init == holds = [n \in Node |-> None]

Free(a) == \A n \in Node : holds[n] # a

Reserve(n, a) ==
  /\ holds[n] = None /\ Free(a)
  /\ holds' = [holds EXCEPT ![n] = a]

Release(n) ==
  /\ holds[n] # None
  /\ holds' = [holds EXCEPT ![n] = None]

Next == \E n \in Node : Release(n) \/ \E a \in Alias : Reserve(n, a)

Spec == Init /\ [][Next]_holds
============================================================================
