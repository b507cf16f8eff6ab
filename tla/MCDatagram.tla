----------------------------- MODULE MCDatagram -----------------------------
(* Two nodes send to a third, which sends to both of them. *)
EXTENDS Datagram

CONSTANTS n1, n2, n3
MCRoute == {<<n1, n2, 3>>, <<n3, n2, 2>>, <<n2, n3, 1>>, <<n2, n1, 1>>}
=============================================================================
