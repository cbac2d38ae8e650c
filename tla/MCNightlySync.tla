---------------------------- MODULE MCNightlySync ----------------------------
(***************************************************************************)
(* NightlySync for TLC: two files, in a batch each.                        *)
(***************************************************************************)
EXTENDS NightlySync

CONSTANTS f1, f2

MCFiles == {f1, f2}
MCBatchOf == [f \in MCFiles |-> IF f = f1 THEN 1 ELSE 2]
=============================================================================
