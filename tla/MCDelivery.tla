----------------------------- MODULE MCDelivery -----------------------------
(* Two rounds of one task, with failures, a crash and somebody else's commit. *)
EXTENDS Delivery
=============================================================================
