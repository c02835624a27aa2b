--------------------------- MODULE MCInvestigator ---------------------------
(* Investigator for TLC. *)
EXTENDS Investigator
=============================================================================
