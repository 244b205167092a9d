----------------------------- MODULE MCDelivery -----------------------------
(* Small instances of Delivery for TLC. *)
EXTENDS Delivery

CONSTANTS w1, w2

\* One publication.
MCOne == {1}
=============================================================================
