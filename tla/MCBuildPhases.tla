---------------------------- MODULE MCBuildPhases ----------------------------
(***************************************************************************)
(* BuildPhases for TLC: three files, two of which share a batch.  One of   *)
(* those is no code.  The analyzer throws at one content of each file.     *)
(***************************************************************************)
EXTENDS BuildPhases

CONSTANTS f1, f2, f3

MCFiles == {f1, f2, f3}
MCBatchOf == [f \in MCFiles |-> IF f = f3 THEN 2 ELSE 1]
MCCode == {f1, f3}
MCUnparsable == {<<f1, 3>>, <<f2, 2>>, <<f3, 2>>}
=============================================================================
