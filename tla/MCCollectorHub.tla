-------------------------- MODULE MCCollectorHub --------------------------
(* CollectorHub for TLC: calls and collectors are model values. *)
EXTENDS CollectorHub, TLC
=============================================================================
