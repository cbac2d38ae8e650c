--------------------------- MODULE ReleasePointers ---------------------------
(***************************************************************************)
(* What a versioned store promises, with no files, no processes and no     *)
(* failures in sight: a set of releases that are ready to be served, a     *)
(* `current` pointer and a `stable` pointer.  Every operation moves a      *)
(* pointer in one step, to a ready release; garbage collection removes     *)
(* releases that neither pointer names.                                    *)
(*                                                                         *)
(* The gateway store (GatewayVersions) and the per-project store           *)
(* (ProjectVersions) both implement this specification when operations on  *)
(* one store do not overlap.                                               *)
(***************************************************************************)
CONSTANTS Versions,     \* the version ids that may ever be published
          NoVersion     \* the value of a pointer that was never set

VARIABLES releases,     \* the releases that are ready
          current,      \* the release that is served
          stable        \* the release a rollback returns to

vars == <<releases, current, stable>>

Init ==
  /\ releases = {}
  /\ current = NoVersion
  /\ stable = NoVersion

(* A release becomes ready on disk.                                        *)
Stage(v) ==
  /\ releases' = releases \cup {v}
  /\ UNCHANGED <<current, stable>>

(* publish, publish --stable                                               *)
Publish(v, alsoStable) ==
  /\ v \in releases
  /\ current' = v
  /\ stable' = IF alsoStable THEN v ELSE stable
  /\ UNCHANGED releases

(* set-stable [<version>]                                                  *)
SetStable(v) ==
  /\ v \in releases
  /\ stable' = v
  /\ UNCHANGED <<releases, current>>

(* rollback: only the pointer moves, no release is rebuilt                 *)
Rollback ==
  /\ stable \in releases
  /\ current' = stable
  /\ UNCHANGED <<releases, stable>>

(* Retention, or an unfinished removal: an unprotected release goes away.  *)
Collect(v) ==
  /\ v \notin {current, stable}
  /\ releases' = releases \ {v}
  /\ UNCHANGED <<current, stable>>

Next ==
  \/ \E v \in Versions : Stage(v) \/ SetStable(v) \/ Collect(v)
  \/ \E v \in Versions, alsoStable \in BOOLEAN : Publish(v, alsoStable)
  \/ Rollback

Spec == Init /\ [][Next]_vars
=============================================================================
