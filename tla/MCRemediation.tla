--------------------------- MODULE MCRemediation ---------------------------
(* Remediation for TLC: proposals and requests are model values. *)
EXTENDS Remediation, TLC
=============================================================================
