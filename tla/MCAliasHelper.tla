---------------------------- MODULE MCAliasHelper ----------------------------
EXTENDS AliasHelper, TLC

CONSTANTS a, b
MCNodes == (a :> 1) @@ (b :> 1)
MCSeed == [s \in Slot |-> 1]
MCDraw == <<2, 3>>
Symmetry == Permutations({a, b})
=============================================================================
