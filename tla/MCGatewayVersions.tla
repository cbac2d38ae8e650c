-------------------------- MODULE MCGatewayVersions --------------------------
(***************************************************************************)
(* GatewayVersions for TLC: which of several processes does what does not  *)
(* matter, so they are interchangeable.  The symmetry is used by runs that *)
(* check safety only.                                                      *)
(***************************************************************************)
EXTENDS GatewayVersions, TLC

ProcSymmetry == Permutations(Procs)
=============================================================================
