----------------------------- MODULE MCLinkLoss -----------------------------
(* LinkLoss on a small segment. *)
EXTENDS LinkLoss, TLC

CONSTANTS a, b, w, x, y, z

(* Both nodes first try x: every allocation starts with a conflict. *)
MCAliasSeq == a :> <<x, y>> @@ b :> <<x, z>>
============================================================================
