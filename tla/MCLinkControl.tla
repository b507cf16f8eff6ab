--------------------------- MODULE MCLinkControl ---------------------------
(* LinkControl on small segments. *)
EXTENDS LinkControl, TLC

CONSTANTS a, b, x, y, z

(* Both nodes first try x: every allocation starts with a conflict. *)
MCAliasSeq == a :> <<x, y>> @@ b :> <<x, z>>
============================================================================
