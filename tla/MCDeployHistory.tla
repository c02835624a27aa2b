-------------------------- MODULE MCDeployHistory --------------------------
(* DeployHistory for TLC: namespaces are interchangeable. *)
EXTENDS DeployHistory, TLC

Symmetry == Permutations(Namespace)
=============================================================================
