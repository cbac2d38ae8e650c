------------------------ MODULE ProjectVersionsProofs ------------------------
(***************************************************************************)
(* Proofs about ProjectVersions, for every number of versions and readers, *)
(* every set of --retain values and every number of failures and crashes.  *)
(* Type correctness holds for any set of processes; the rest is about one  *)
(* operator whose publishes each have an id of their own.                  *)
(***************************************************************************)
EXTENDS ProjectVersions, FiniteSetTheorems, TLAPS

-----------------------------------------------------------------------------
(* The operators of the model.                                             *)

(* A set of version ids that is not empty has a newest one.                *)
LEMMA NewestExists ==
  ASSUME NEW vs \in SUBSET Versions, vs # {}
  PROVE  Newest(vs) \in vs /\ \A u \in vs : u <= Newest(vs)
<1> DEFINE ages == {n \in 0 .. MaxId : MaxId - n \in vs}
<1>1. ages \in SUBSET Nat /\ ages # {}
  <2>1. PICK v \in vs : v \in 1 .. MaxId
    BY DEF Versions
  <2>2. MaxId - v \in ages
    BY <2>1, BoundsAreNaturals
  <2> QED BY <2>2
<1>2. PICK a \in ages : \A b \in ages : ~ (<<b, a>> \in OpToRel(<, Nat))
  <2> HIDE DEF ages
  <2> QED BY <1>1, NatLessThanWellFounded, WFMin
<1>3. ASSUME NEW b \in ages PROVE a <= b
  <2>1. a \in Nat /\ b \in Nat
    BY <1>1
  <2>2. ~ (b < a)
    BY <1>2, <2>1, Zenon DEF OpToRel
  <2> QED BY <2>1, <2>2
<1>4. ASSUME NEW u \in vs PROVE u <= MaxId - a
  <2>1. u \in 1 .. MaxId /\ MaxId - u \in ages
    BY BoundsAreNaturals DEF Versions
  <2> QED BY <1>3, <2>1, BoundsAreNaturals
<1> QED BY <1>4, Zenon DEF Newest

(* The records an operation computes are records, and say where it moves   *)
(* the pointers.                                                           *)
LEMMA KeepRecord ==
  ASSUME NEW s \in StateRecord, NEW keep \in RetainOptions
  PROVE  /\ WithKeep(s, keep) \in StateRecord
         /\ \A l \in Links : WithKeep(s, keep)[l] = s[l]
BY DEF WithKeep, StateRecord, RetainOptions, NoKeep, Links

LEMMA PublishedRecord ==
  ASSUME NEW s \in StateRecord, NEW v \in Targets, NEW stable \in BOOLEAN, NEW keep \in RetainOptions
  PROVE  /\ Published(s, v, stable, keep) \in StateRecord
         /\ Published(s, v, stable, keep).current = v
         /\ Published(s, v, stable, keep).stable = IF stable THEN v ELSE s.stable
<1>1. PICK r : r = [s EXCEPT !.current = v, !.stable = IF stable THEN v ELSE @]
  OBVIOUS
<1>2. r \in StateRecord /\ r.current = v /\ r.stable = IF stable THEN v ELSE s.stable
  BY <1>1 DEF StateRecord
<1>3. Published(s, v, stable, keep) = WithKeep(r, keep)
  BY <1>1 DEF Published
<1> QED BY <1>2, <1>3, KeepRecord DEF Links

LEMMA StableRecord ==
  ASSUME NEW s \in StateRecord, NEW v \in Targets
  PROVE  /\ MarkedStable(s, v) \in StateRecord /\ RolledBack(s) \in StateRecord
         /\ MarkedStable(s, v).current = s.current /\ MarkedStable(s, v).stable = v
         /\ RolledBack(s).current = s.stable /\ RolledBack(s).stable = s.stable
BY DEF MarkedStable, RolledBack, StateRecord

LEMMA EmptyTypes ==
  /\ EmptyState \in StateRecord /\ NoOp \in OpRecord /\ NoRequest \in Request
  /\ NoOp.kind = "none" /\ NoOp.swapped = {} /\ NoOp.doomed = {}
BY DEF EmptyState, NoOp, OpRecord, StateRecord, Kinds, RetainOptions, Targets, NoLinks,
       NoRequest, Request

LEMMA PlannedRecord ==
  ASSUME TypeOK, NEW kind \in Kinds, NEW v \in Targets, NEW next \in StateRecord
  PROVE  LET o == Planned(kind, v, next)
         IN  /\ o \in OpRecord
             /\ o.kind = kind /\ o.vid = v /\ o.next = next /\ o.seen = state
             /\ o.before = link /\ o.prev = PreviousTargets /\ o.swapped = {}
<1>1. PreviousTargets \in [Links -> Targets]
  BY DEF PreviousTargets, TypeOK, StateRecord, Links
<1> HIDE DEF PreviousTargets
<1> QED BY <1>1, EmptyTypes DEF Planned, OpRecord, TypeOK, NoOp

-----------------------------------------------------------------------------
(* Type correctness, for any set of processes.                             *)

LEMMA InitType == Init => TypeOK
<1> SUFFICES ASSUME Init PROVE TypeOK
  OBVIOUS
<1> USE DEF Init
<1>1. version \in [Versions -> Contents] /\ mirror \in [Versions -> MirrorContents]
  BY DEF Contents, MirrorContents
<1>2. state \in StateRecord /\ op \in [Procs -> OpRecord] /\ request \in [Readers -> Request]
  BY EmptyTypes
<1>3. link \in [Links -> Targets] /\ torn \subseteq Links
  BY DEF NoLinks, Targets
<1>4. pc \in [Procs -> Locations]
  BY DEF Locations
<1>5. lastId \in 0 .. MaxId /\ faults \in 0 .. MaxFaults /\ crashes \in 0 .. MaxCrashes
  BY BoundsAreNaturals
<1> QED BY <1>1, <1>2, <1>3, <1>4, <1>5 DEF TypeOK

(* The memory of a process stays well typed when one process changes its own.*)
LEMMA MemoryUpdate ==
  ASSUME NEW f \in [Procs -> OpRecord], NEW p \in Procs, NEW o \in OpRecord
  PROVE  [f EXCEPT ![p] = o] \in [Procs -> OpRecord]
OBVIOUS

(* What changes when an operation begins: its own memory and its step.     *)
LEMMA BeginType ==
  ASSUME TypeOK, NEW p \in Procs, NEW o \in OpRecord, NEW l \in Locations,
         op' = [op EXCEPT ![p] = o], pc' = [pc EXCEPT ![p] = l],
         UNCHANGED <<store, torn, request, budget>>, lastId' \in 0 .. MaxId
  PROVE  TypeOK'
<1>1. op' \in [Procs -> OpRecord]
  BY MemoryUpdate DEF TypeOK
<1>2. pc' \in [Procs -> Locations]
  BY DEF TypeOK
<1> QED BY <1>1, <1>2 DEF TypeOK, store, budget

LEMMA NextType == TypeOK /\ [Next]_vars => TypeOK'
<1> SUFFICES ASSUME TypeOK, [Next]_vars PROVE TypeOK'
  OBVIOUS
<1> USE BoundsAreNaturals DEF Goto
<1>0. CASE UNCHANGED vars
  BY <1>0 DEF vars, TypeOK
<1>f. ASSUME NEW p \in Procs, Finish(p)
      PROVE  op' \in [Procs -> OpRecord] /\ pc' \in [Procs -> Locations]
  BY <1>f, EmptyTypes DEF Finish, TypeOK, Locations
<1>g. ASSUME Fault PROVE faults' \in 0 .. MaxFaults /\ crashes' = crashes
  BY <1>g DEF Fault, TypeOK
<1>1. ASSUME NEW p \in Procs, NEW stable \in BOOLEAN, NEW mirrored \in BOOLEAN,
             NEW keep \in RetainOptions, StartPublish(p, stable, mirrored, keep)
      PROVE  TypeOK'
  <2>1. PICK v \in Versions :
          /\ lastId' = IF v > lastId THEN v ELSE lastId
          /\ op' = [op EXCEPT ![p] = [NoOp EXCEPT !.kind = "publish", !.vid = v, !.keep = keep,
                                            !.stable = stable, !.mirrored = mirrored]]
          /\ pc' = [pc EXCEPT ![p] = "clear"] /\ UNCHANGED <<store, torn, request, budget>>
    BY <1>1 DEF StartPublish
  <2>2. [NoOp EXCEPT !.kind = "publish", !.vid = v, !.keep = keep,
                     !.stable = stable, !.mirrored = mirrored] \in OpRecord
    BY EmptyTypes DEF OpRecord, Kinds, Targets
  <2>3. lastId' \in 0 .. MaxId
    BY <2>1 DEF TypeOK, Versions
  <2> HIDE DEF Goto
  <2> QED BY <2>1, <2>2, <2>3, BeginType DEF Locations
<1>2. ASSUME NEW p \in Procs, ClearGraph(p) \/ CopyGraph(p) \/ CopyRest(p)
      PROVE  TypeOK'
  <2>1. version' \in [Versions -> Contents] /\ pc' \in [Procs -> Locations]
    BY <1>2 DEF ClearGraph, CopyGraph, CopyRest, TypeOK, Contents, Locations
  <2> QED BY <1>2, <2>1 DEF ClearGraph, CopyGraph, CopyRest, TypeOK, budget
<1>3. ASSUME NEW p \in Procs, ClearMirror(p) \/ CopyMirror(p)
      PROVE  TypeOK'
  <2>1. mirror' \in [Versions -> MirrorContents] /\ pc' \in [Procs -> Locations]
    BY <1>3 DEF ClearMirror, CopyMirror, TypeOK, MirrorContents, Locations
  <2> QED BY <1>3, <2>1 DEF ClearMirror, CopyMirror, TypeOK, budget
<1>4. ASSUME NEW p \in Procs, BeginPublish(p) PROVE TypeOK'
  <2>1. PICK next \in StateRecord : next = Published(state, op[p].vid, op[p].stable, op[p].keep)
    BY PublishedRecord DEF TypeOK, OpRecord
  <2>2. PICK prev \in [Links -> Targets] : prev = PreviousTargets
    BY DEF PreviousTargets, TypeOK, StateRecord, Links
  <2>3. PICK o : o = [op[p] EXCEPT !.seen = state, !.before = link, !.prev = prev, !.next = next]
    OBVIOUS
  <2>4. o \in OpRecord
    <3>1. op[p] \in OpRecord /\ state \in StateRecord /\ link \in [Links -> Targets]
      BY DEF TypeOK
    <3> QED BY <2>3, <3>1 DEF OpRecord
  <2>5. op' = [op EXCEPT ![p] = o]
    BY <1>4, <2>1, <2>2, <2>3 DEF BeginPublish, TypeOK
  <2> QED BY <1>4, <2>4, <2>5, BeginType DEF BeginPublish, Locations, TypeOK
<1>5. ASSUME NEW p \in Procs, NEW v \in Targets, BeginSetStable(p, v) PROVE TypeOK'
  <2>1. PICK t \in Targets : op' = [op EXCEPT ![p] = Planned("set-stable", t, MarkedStable(state, t))]
    BY <1>5 DEF BeginSetStable, TypeOK, StateRecord
  <2>2. Planned("set-stable", t, MarkedStable(state, t)) \in OpRecord
    BY StableRecord, PlannedRecord DEF TypeOK, Kinds
  <2> QED BY <1>5, <2>1, <2>2, BeginType DEF BeginSetStable, Locations, TypeOK
<1>6. ASSUME NEW p \in Procs, BeginRollback(p) PROVE TypeOK'
  <2>1. state.stable \in Targets
    BY DEF TypeOK, StateRecord
  <2>2. Planned("rollback", state.stable, RolledBack(state)) \in OpRecord
    BY <2>1, StableRecord, PlannedRecord DEF TypeOK, Kinds
  <2> QED BY <1>6, <2>2, BeginType DEF BeginRollback, Locations, TypeOK
<1>7. ASSUME NEW p \in Procs, NEW keep \in RetainOptions, BeginGc(p, keep) PROVE TypeOK'
  <2>1. PICK next \in StateRecord : next = WithKeep(state, keep)
    BY KeepRecord DEF TypeOK
  <2>2. [NoOp EXCEPT !.kind = "gc", !.keep = keep, !.seen = state,
                     !.before = link, !.next = next] \in OpRecord
    BY EmptyTypes DEF OpRecord, Kinds, TypeOK
  <2>3. PICK l \in Locations : pc' = [pc EXCEPT ![p] = l]
    BY <1>7 DEF BeginGc, Locations
  <2> QED BY <1>7, <2>1, <2>2, <2>3, BeginType DEF BeginGc, TypeOK
<1>8. ASSUME NEW p \in Procs, PointCurrent(p) \/ PointStable(p) PROVE TypeOK'
  <2>1. PICK l \in Links : Point(p, l)
    BY <1>8 DEF PointCurrent, PointStable, Links
  <2>2. link' \in [Links -> Targets]
    BY <2>1 DEF Point, TypeOK, OpRecord
  <2>3. op' \in [Procs -> OpRecord]
    <3>1. PICK o : o = [op[p] EXCEPT !.swapped = @ \cup {l}]
      OBVIOUS
    <3>2. o \in OpRecord
      BY <3>1, ZenonT(40) DEF OpRecord, TypeOK
    <3>3. op' = [op EXCEPT ![p] = o]
      BY <2>1, <3>1 DEF Point, TypeOK
    <3> QED BY <3>2, <3>3, MemoryUpdate DEF TypeOK
  <2>4. pc' \in [Procs -> Locations]
    BY <1>8 DEF PointCurrent, PointStable, TypeOK, Locations
  <2> QED BY <2>1, <2>2, <2>3, <2>4 DEF Point, TypeOK, dirs, budget
<1>9. ASSUME NEW p \in Procs, WriteState(p) PROVE TypeOK'
  <2>1. state' \in StateRecord /\ torn' \subseteq Links
    BY <1>9 DEF WriteState, TypeOK, OpRecord
  <2>2. op' \in [Procs -> OpRecord]
    BY <1>9, EmptyTypes DEF WriteState, TypeOK
  <2>3. pc' \in [Procs -> Locations]
    BY <1>9 DEF WriteState, TypeOK, Locations
  <2> QED BY <1>9, <2>1, <2>2, <2>3 DEF WriteState, TypeOK, dirs, budget
<1>10. ASSUME NEW p \in Procs, Restore(p) \/ FailRestore(p) PROVE TypeOK'
  <2>1. PICK l \in Links : l = NextToRestore(p)
    BY DEF NextToRestore, Links
  <2>2. op' \in [Procs -> OpRecord] /\ pc' \in [Procs -> Locations]
    <3>1. LeaveRestored(p, l)
      BY <1>10, <2>1 DEF Restore, FailRestore
    <3>2. PICK o : o = [op[p] EXCEPT !.swapped = @ \ {l}]
      OBVIOUS
    <3>3. o \in OpRecord
      BY <3>2, ZenonT(40) DEF OpRecord, TypeOK
    <3>4. Finish(p) \/ (op' = [op EXCEPT ![p] = o] /\ UNCHANGED pc)
      BY <3>1, <3>2 DEF LeaveRestored, TypeOK
    <3> QED BY <1>f, <3>3, <3>4, MemoryUpdate DEF TypeOK
  <2>3. link' \in [Links -> Targets] /\ torn' \subseteq Links
    BY <1>10, <2>1 DEF Restore, FailRestore, TypeOK, OpRecord, store
  <2>4. /\ UNCHANGED <<version, mirror, state, lastId, request, crashes>>
        /\ faults' \in 0 .. MaxFaults
    BY <1>10, <1>g DEF Restore, FailRestore, TypeOK, dirs, store, budget
  <2> QED BY <2>2, <2>3, <2>4 DEF TypeOK
<1>11. ASSUME NEW p \in Procs, Collect(p) PROVE TypeOK'
  <2>1. PICK doomed \in SUBSET Versions : op' = [op EXCEPT ![p] = [NoOp EXCEPT !.doomed = doomed]]
    BY <1>11 DEF Collect, Doomed, Listed
  <2>2. [NoOp EXCEPT !.doomed = doomed] \in OpRecord
    BY EmptyTypes DEF OpRecord
  <2>3. PICK l \in Locations : pc' = [pc EXCEPT ![p] = l]
    BY <1>11 DEF Collect, Locations
  <2> QED BY <1>11, <2>1, <2>2, <2>3, BeginType DEF Collect, TypeOK
<1>12. ASSUME NEW p \in Procs, RemoveVersion(p) \/ RemoveMirror(p) PROVE TypeOK'
  <2>1. version' \in [Versions -> Contents] /\ mirror' \in [Versions -> MirrorContents]
    BY <1>12 DEF RemoveVersion, RemoveMirror, TypeOK, Contents, MirrorContents
  <2>2. op' \in [Procs -> OpRecord]
    <3>1. CASE op' = op
      BY <3>1 DEF TypeOK
    <3>2. CASE RemoveMirror(p)
      <4>1. PICK o : o = [op[p] EXCEPT !.doomed = @ \ {Newest(op[p].doomed)}]
        OBVIOUS
      <4>2. o \in OpRecord
        BY <4>1, ZenonT(40) DEF OpRecord, TypeOK
      <4>3. op' = [op EXCEPT ![p] = o]
        BY <3>2, <4>1 DEF RemoveMirror, TypeOK
      <4> QED BY <4>2, <4>3, MemoryUpdate DEF TypeOK
    <3> QED BY <1>12, <3>1, <3>2 DEF RemoveVersion
  <2>3. pc' \in [Procs -> Locations]
    BY <1>12 DEF RemoveVersion, RemoveMirror, TypeOK, Locations
  <2> QED BY <1>12, <2>1, <2>2, <2>3 DEF RemoveVersion, RemoveMirror, TypeOK, budget
<1>13. ASSUME NEW p \in Procs, Audit(p) \/ FailUnchanged(p) \/ FailHalfway(p) PROVE TypeOK'
  <2>1. Finish(p) /\ UNCHANGED <<store, lastId, torn, request, crashes>> /\ faults' \in 0 .. MaxFaults
    BY <1>13, <1>g DEF Audit, FailUnchanged, FailHalfway, TypeOK, budget
  <2> QED BY <1>f, <2>1 DEF TypeOK, store
<1>14. ASSUME NEW p \in Procs, FailSwapped(p) PROVE TypeOK'
  <2>1. pc' \in [Procs -> Locations]
    BY <1>14 DEF FailSwapped, TypeOK, Locations
  <2> QED BY <1>14, <1>g, <2>1 DEF FailSwapped, TypeOK, store
<1>h. ASSUME NEW p \in Procs, HalfRemoved(p)
      PROVE  version' \in [Versions -> Contents] /\ mirror' \in [Versions -> MirrorContents]
  BY <1>h DEF HalfRemoved, Leftovers, TypeOK, Contents, MirrorContents, dirs
<1>15. ASSUME NEW p \in Procs, FailRemove(p) PROVE TypeOK'
  BY <1>15, <1>f, <1>g, <1>h DEF FailRemove, TypeOK
<1>16. ASSUME NEW p \in Procs, Crash(p) PROVE TypeOK'
  <2>1. version' \in [Versions -> Contents] /\ mirror' \in [Versions -> MirrorContents]
    BY <1>16, <1>h DEF Crash, TypeOK, dirs
  <2>2. torn' \subseteq Links /\ crashes' \in 0 .. MaxCrashes
    BY <1>16 DEF Crash, TypeOK, OpRecord
  <2> QED BY <1>16, <1>f, <2>1, <2>2 DEF Crash, TypeOK
<1>17. ASSUME NEW r \in Readers, Serve(r) PROVE TypeOK'
  <2>1. request[r] \in Request /\ link.current \in Targets /\ state.current \in Targets
    BY DEF TypeOK, Links, StateRecord
  <2>2. ASSUME NEW next \in Request, Answer(r, next) PROVE TypeOK'
    BY <2>2 DEF Answer, TypeOK, store, budget
  <2>3. CASE FindGraph(r)
    BY <2>2, <2>3, EmptyTypes DEF FindGraph, Request, Ready
  <2>4. CASE ResolveMirror(r)
    BY <2>1, <2>2, <2>4 DEF ResolveMirror, Request, Targets
  <2>5. CASE ReadGraph(r)
    BY <2>1, <2>2, <2>5 DEF ReadGraph, Request, Targets
  <2>6. CASE ReadContent(r)
    BY <2>1, <2>2, <2>6 DEF ReadContent, Answers, Request
  <2>7. CASE EndRequest(r)
    BY <2>2, <2>7, EmptyTypes DEF EndRequest
  <2> QED BY <1>17, <2>3, <2>4, <2>5, <2>6, <2>7 DEF Serve
<1> QED
  BY <1>0, <1>1, <1>2, <1>3, <1>4, <1>5, <1>6, <1>7, <1>8, <1>9, <1>10, <1>11, <1>12, <1>13,
     <1>14, <1>15, <1>16, <1>17, Zenon DEF Next, Seed, Begin, Proceed, Fail

(* versioned-state.json always holds a whole record, the links and what    *)
(* the processes hold are version ids, and the budgets are kept, however   *)
(* many operators there are and whatever ids they publish.                 *)
THEOREM TypeCorrect == Spec => []TypeOK
BY InitType, NextType, PTL DEF Spec

-----------------------------------------------------------------------------
(* One operator: what an operation holds stays true.                       *)

LEMMA InitOperation ==
  ASSUME Init, NEW p \in Procs
  PROVE  OperationInv(p)
<1>1. pc[p] = "idle" /\ op[p].swapped = {} /\ \A l \in Links : link[l] = state[l]
  BY EmptyTypes DEF Init, NoLinks, Links, EmptyState
<1> QED BY <1>1 DEF OperationInv

(* Between operations only the links have to agree with the record.        *)
LEMMA FinishOperation ==
  ASSUME NEW p \in Procs, TypeOK, Finish(p), \A l \in Links : l \in torn' \/ link'[l] = state'[l]
  PROVE  OperationInv(p)'
<1>1. pc'[p] = "idle" /\ op'[p] = NoOp
  BY DEF Finish, Goto, TypeOK
<1> QED BY <1>1, EmptyTypes DEF OperationInv

(* A publish copies the version and its mirror.                            *)
LEMMA SeedOperation ==
  ASSUME NEW p \in Procs, TypeOK, OperationInv(p), UnusedAbsent, ~Republish, Seed(p)
  PROVE  OperationInv(p)'
<1> USE DEF Goto
<1>1. ASSUME NEW stable \in BOOLEAN, NEW mirrored \in BOOLEAN, NEW keep \in RetainOptions,
             StartPublish(p, stable, mirrored, keep)
      PROVE  OperationInv(p)'
  <2>1. /\ lastId + 1 \in Versions /\ lastId' = lastId + 1 /\ lastId \in Nat
        /\ op' = [op EXCEPT ![p] = [NoOp EXCEPT !.kind = "publish", !.vid = lastId + 1,
                     !.keep = keep, !.stable = stable, !.mirrored = mirrored]]
    BY <1>1 DEF StartPublish, UsableIds, TypeOK
  <2>2. op'[p].kind = "publish" /\ op'[p].vid = lastId + 1 /\ op'[p].swapped = {}
    BY <2>1 DEF TypeOK, NoOp
  <2>3. version[lastId + 1] = "absent"
    BY <2>1 DEF UnusedAbsent
  <2>4. /\ pc[p] = "idle" /\ pc'[p] = "clear"
        /\ UNCHANGED <<version, link, state, torn>>
    BY <1>1 DEF StartPublish, TypeOK, store
  <2>5. op[p].swapped = {} /\ lastId + 1 \in 1 .. lastId'
    BY <2>1, <2>4 DEF OperationInv
  <2>6. \A l \in Links : l \in torn' \/ link'[l] = state'[l]
    BY <2>4, <2>5 DEF OperationInv
  <2> HIDE DEF Goto
  <2> QED BY <2>2, <2>3, <2>4, <2>5, <2>6 DEF OperationInv
<1>2. ASSUME ClearGraph(p) \/ CopyGraph(p) \/ CopyRest(p) \/ ClearMirror(p) \/ CopyMirror(p)
      PROVE  OperationInv(p)'
  <2>1. /\ pc[p] \in {"clear", "copy", "rest", "clearMirror", "copyMirror"}
        /\ UNCHANGED <<op, link, state, torn, lastId>>
    BY <1>2 DEF ClearGraph, CopyGraph, CopyRest, ClearMirror, CopyMirror
  <2>2. op[p].kind = "publish" /\ op[p].vid \in 1 .. lastId /\ op[p].swapped = {}
    BY <2>1 DEF OperationInv
  <2>3. op[p].vid \in Versions
    <3>1. lastId \in 0 .. MaxId
      BY DEF TypeOK
    <3> QED BY <2>2, <3>1, BoundsAreNaturals DEF Versions
  <2>4. CASE ClearGraph(p)
    BY <2>1, <2>2, <2>3, <2>4 DEF ClearGraph, OperationInv, TypeOK
  <2>5. CASE CopyGraph(p)
    BY <2>1, <2>2, <2>3, <2>5 DEF CopyGraph, OperationInv, TypeOK
  <2>6. CASE CopyRest(p)
    <3>1. pc'[p] \in {"clearMirror", "begin"} /\ version'[op[p].vid] = "whole"
      BY <2>3, <2>6 DEF CopyRest, TypeOK
    <3> QED BY <2>1, <2>2, <3>1 DEF OperationInv
  <2>7. CASE ClearMirror(p) \/ CopyMirror(p)
    <3>1. pc[p] \in {"clearMirror", "copyMirror"} /\ pc'[p] \in {"copyMirror", "begin"}
          /\ version' = version
      BY <2>7 DEF ClearMirror, CopyMirror, TypeOK
    <3> QED BY <2>1, <2>2, <3>1 DEF OperationInv
  <2> QED BY <1>2, <2>4, <2>5, <2>6, <2>7
<1>3. ASSUME BeginPublish(p) PROVE OperationInv(p)'
  <2>1. PICK next \in StateRecord :
          /\ next = Published(state, op[p].vid, op[p].stable, op[p].keep)
          /\ next.current = op[p].vid
          /\ next.stable = IF op[p].stable THEN op[p].vid ELSE state.stable
    BY PublishedRecord DEF TypeOK, OpRecord
  <2>2. /\ op'[p].kind = op[p].kind /\ op'[p].vid = op[p].vid /\ op'[p].stable = op[p].stable
        /\ op'[p].next = next /\ op'[p].seen = state /\ op'[p].before = link
        /\ op'[p].prev = PreviousTargets /\ op'[p].swapped = op[p].swapped
    BY <1>3, <2>1 DEF BeginPublish, TypeOK, OpRecord
  <2>3. /\ pc[p] = "begin" /\ pc'[p] = "current"
        /\ UNCHANGED <<version, link, state, torn>>
    BY <1>3 DEF BeginPublish, TypeOK, store
  <2>4. /\ op[p].kind = "publish" /\ op[p].vid \in 1 .. lastId /\ version[op[p].vid] = "whole"
        /\ op[p].swapped = {} /\ \A l \in Links : l \in torn \/ link[l] = state[l]
    BY <2>3 DEF OperationInv
  <2>5. \A l \in Links : l \in torn \/ PreviousTargets[l] = state[l]
    BY <2>4 DEF PreviousTargets, Links
  <2>6. Ready(op[p].vid)'
    BY <2>2, <2>3, <2>4 DEF Ready, NoVersion
  <2>7. \A l \in Links : l \in Moves(p)' <=> l = "current" \/ op[p].stable
    BY <2>2, <2>4 DEF Moves, Links
  <2>8. \A l \in Links : next[l] = IF l \in Moves(p)' THEN op[p].vid ELSE state[l]
    BY <2>1, <2>7 DEF Links
  <2>9. "current" \in Moves(p)'
    BY <2>7 DEF Links
  <2> HIDE DEF Goto
  <2> QED BY <2>2, <2>3, <2>4, <2>5, <2>6, <2>8, <2>9 DEF OperationInv
<1> QED BY <1>1, <1>2, <1>3, Zenon DEF Seed

(* An operation that starts with the record in hand.                       *)
LEMMA PlannedOperation ==
  ASSUME NEW p \in Procs, TypeOK, OperationInv(p), pc[p] = "idle",
         NEW kind \in {"set-stable", "rollback"}, NEW v \in Targets, NEW next \in StateRecord,
         Ready(v), kind = "rollback" => v = state.stable,
         next.current = IF kind = "rollback" THEN v ELSE state.current,
         next.stable = IF kind = "rollback" THEN state.stable ELSE v,
         op' = [op EXCEPT ![p] = Planned(kind, v, next)],
         pc' = [pc EXCEPT ![p] = IF kind = "rollback" THEN "current" ELSE "stable"],
         UNCHANGED <<store, torn>>
  PROVE  OperationInv(p)'
<1>1. /\ op'[p].kind = kind /\ op'[p].vid = v /\ op'[p].next = next /\ op'[p].seen = state
      /\ op'[p].before = link /\ op'[p].prev = PreviousTargets /\ op'[p].swapped = {}
  <2>1. op'[p] = Planned(kind, v, next)
    BY DEF TypeOK
  <2> QED BY <2>1, PlannedRecord DEF Kinds
<1>2. \A l \in Links : l \in torn \/ link[l] = state[l]
  BY DEF OperationInv
<1>3. \A l \in Links : l \in torn \/ PreviousTargets[l] = state[l]
  BY <1>2 DEF PreviousTargets, Links
<1>4. \A l \in Links : l \in Moves(p)' <=> l = (IF kind = "rollback" THEN "current" ELSE "stable")
  BY <1>1 DEF Moves, Links
<1>5. \A l \in Links : next[l] = IF l \in Moves(p)' THEN v ELSE state[l]
  BY <1>4 DEF Links
<1>6. /\ Ready(v)' /\ UNCHANGED <<link, state, torn>>
      /\ pc'[p] = IF kind = "rollback" THEN "current" ELSE "stable"
  BY DEF Ready, store, TypeOK
<1>7. Moves(p)' = {IF kind = "rollback" THEN "current" ELSE "stable"}
  BY <1>4 DEF Moves, Links
<1> QED BY <1>1, <1>2, <1>3, <1>5, <1>6, <1>7 DEF OperationInv

LEMMA BeginOperation ==
  ASSUME NEW p \in Procs, TypeOK, OperationInv(p), Begin(p)
  PROVE  OperationInv(p)'
<1> USE DEF Goto
<1>0. state.stable \in Targets /\ state.current \in Targets
  BY DEF TypeOK, StateRecord
<1>1. ASSUME NEW v \in Targets, BeginSetStable(p, v) PROVE OperationInv(p)'
  <2>1. PICK t \in Targets :
          /\ Ready(t) /\ op' = [op EXCEPT ![p] = Planned("set-stable", t, MarkedStable(state, t))]
    BY <1>1, <1>0 DEF BeginSetStable
  <2>2. PICK next \in StateRecord : /\ next = MarkedStable(state, t)
                                     /\ next.current = state.current /\ next.stable = t
    BY StableRecord DEF TypeOK
  <2>3. pc[p] = "idle" /\ pc' = [pc EXCEPT ![p] = "stable"] /\ UNCHANGED <<store, torn>>
    BY <1>1 DEF BeginSetStable
  <2> QED BY <2>1, <2>2, <2>3, PlannedOperation
<1>2. ASSUME BeginRollback(p) PROVE OperationInv(p)'
  <2>1. PICK next \in StateRecord : /\ next = RolledBack(state)
                                     /\ next.current = state.stable /\ next.stable = state.stable
    BY <1>0, StableRecord DEF TypeOK
  <2>2. /\ pc[p] = "idle" /\ pc' = [pc EXCEPT ![p] = "current"] /\ UNCHANGED <<store, torn>>
        /\ Ready(state.stable) /\ op' = [op EXCEPT ![p] = Planned("rollback", state.stable, next)]
    BY <1>2, <2>1 DEF BeginRollback
  <2> QED BY <1>0, <2>1, <2>2, PlannedOperation
<1>3. ASSUME NEW keep \in RetainOptions, BeginGc(p, keep) PROVE OperationInv(p)'
  <2>1. PICK next \in StateRecord :
          next = WithKeep(state, keep) /\ \A l \in Links : next[l] = state[l]
    BY KeepRecord DEF TypeOK
  <2>2. /\ op'[p].kind = "gc" /\ op'[p].keep = keep /\ op'[p].seen = state
        /\ op'[p].before = link /\ op'[p].next = next /\ op'[p].swapped = {}
    BY <1>3, <2>1 DEF BeginGc, NoOp, TypeOK
  <2>3. /\ pc[p] = "idle" /\ UNCHANGED <<version, link, state, torn>>
        /\ pc'[p] = (IF keep = NoKeep THEN "collect" ELSE "write")
    BY <1>3 DEF BeginGc, TypeOK, store
  <2>4. \A l \in Links : l \in torn \/ link[l] = state[l]
    BY <2>3 DEF OperationInv
  <2>5. Moves(p)' = {}
    BY <2>2 DEF Moves
  <2> HIDE DEF Goto
  <2> QED BY <2>1, <2>2, <2>3, <2>4, <2>5 DEF OperationInv
<1> QED BY <1>1, <1>2, <1>3, Zenon DEF Begin

(* A link is moved.                                                        *)
LEMMA PointOperation ==
  ASSUME NEW p \in Procs, TypeOK, OperationInv(p), PointCurrent(p) \/ PointStable(p)
  PROVE  OperationInv(p)'
<1> USE DEF Goto
<1>1. PICK l \in Links : Point(p, l) /\ (l = "current" <=> PointCurrent(p))
                       /\ (l = "stable" => PointStable(p))
  BY DEF PointCurrent, PointStable, Links, Point
<1>2. /\ op'[p].kind = op[p].kind /\ op'[p].vid = op[p].vid /\ op'[p].stable = op[p].stable
      /\ op'[p].next = op[p].next /\ op'[p].seen = op[p].seen /\ op'[p].before = op[p].before
      /\ op'[p].prev = op[p].prev /\ op'[p].keep = op[p].keep
      /\ op'[p].swapped = op[p].swapped \cup {l}
  BY <1>1 DEF Point, TypeOK, OpRecord
<1>3. pc[p] = l /\ link' = [link EXCEPT ![l] = op[p].vid] /\ UNCHANGED <<version, state, torn>>
  BY <1>1 DEF Point, dirs
<1>4. /\ op[p].seen = state
      /\ Moves(p) # {} => Ready(op[p].vid)
      /\ op[p].kind = "rollback" => op[p].vid = state.stable
      /\ op[p].kind = "gc" => op[p].next = WithKeep(state, op[p].keep)
      /\ \A k \in Links :
            /\ op[p].next[k] = IF k \in Moves(p) THEN op[p].vid ELSE state[k]
            /\ k \in torn \/ op[p].before[k] = state[k]
            /\ k \in torn \/ op[p].kind = "gc" \/ op[p].prev[k] = state[k]
  BY <1>3 DEF OperationInv, Links
<1>5. Moves(p)' = Moves(p) /\ Moves(p) \subseteq Links
  BY <1>2 DEF Moves
<1>6. \A k \in Links : IF k \in op'[p].swapped THEN link'[k] = op[p].vid
                       ELSE k \in torn \/ link'[k] = state[k]
  BY <1>2, <1>3 DEF OperationInv, TypeOK
<1>h. /\ op'[p].seen = state'
      /\ Moves(p)' # {} => Ready(op[p].vid)'
      /\ op'[p].kind = "rollback" => op'[p].vid = state'.stable
      /\ op'[p].kind = "gc" => op'[p].next = WithKeep(state', op'[p].keep)
      /\ \A k \in Links :
            /\ op'[p].next[k] = IF k \in Moves(p)' THEN op'[p].vid ELSE state'[k]
            /\ k \in torn' \/ op'[p].before[k] = state'[k]
            /\ k \in torn' \/ op'[p].kind = "gc" \/ op'[p].prev[k] = state'[k]
  BY <1>2, <1>3, <1>4, <1>5 DEF Ready, WithKeep
<1>i. \A k \in Links : IF k \in op'[p].swapped THEN link'[k] = op'[p].vid
                       ELSE k \in torn' \/ link'[k] = state'[k]
  BY <1>2, <1>3, <1>6
<1>7. CASE l = "current"
  <2>1. op[p].swapped = {} /\ "current" \in Moves(p)
    BY <1>3, <1>7 DEF OperationInv
  <2>2. op[p].kind \in {"publish", "rollback"}
    BY <2>1 DEF Moves
  <2>3. "stable" \in Moves(p) <=> op[p].kind = "publish" /\ op[p].stable
    BY <2>2 DEF Moves, Links
  <2>4. pc'[p] = IF op[p].kind = "publish" /\ op[p].stable THEN "stable" ELSE "write"
    BY <1>1, <1>7 DEF PointCurrent, TypeOK
  <2>5. op'[p].swapped = Moves(p) \ {"stable"}
    BY <1>2, <1>5, <1>7, <2>1 DEF Links
  <2>6. "stable" \notin Moves(p) => op'[p].swapped = Moves(p)
    BY <2>5
  <2> HIDE DEF Goto
  <2> QED BY <1>h, <1>i, <1>2, <1>5, <2>2, <2>3, <2>4, <2>5, <2>6 DEF OperationInv
<1>8. CASE l = "stable"
  <2>1. op[p].swapped = Moves(p) \ {"stable"} /\ "stable" \in Moves(p)
    BY <1>3, <1>8 DEF OperationInv
  <2>2. op'[p].swapped = Moves(p)
    BY <1>2, <1>8, <2>1
  <2>3. pc'[p] = "write" /\ op[p].kind # "none"
    BY <1>1, <1>8, <2>1 DEF PointStable, TypeOK, Moves
  <2> HIDE DEF Goto
  <2> QED BY <1>h, <1>i, <1>2, <1>5, <2>1, <2>2, <2>3 DEF OperationInv
<1> QED BY <1>7, <1>8 DEF Links

(* When the record is written, every link is the recorded one again.       *)
LEMMA WriteOperation ==
  ASSUME NEW p \in Procs, TypeOK, OperationInv(p), WriteState(p)
  PROVE  OperationInv(p)' /\ \A l \in Links : l \in torn' \/ link'[l] = state'[l]
<1>1. /\ pc[p] = "write" /\ state' = op[p].next /\ link' = link /\ torn' = torn \ op[p].swapped
      /\ op'[p] = IF op[p].kind = "gc" THEN op[p] ELSE NoOp
      /\ pc'[p] = IF op[p].kind \in {"publish", "gc"} THEN "collect" ELSE "audit"
  BY DEF WriteState, Goto, TypeOK
<1>2. /\ op[p].swapped = Moves(p)
      /\ \A l \in Links : op[p].next[l] = IF l \in Moves(p) THEN op[p].vid ELSE state[l]
  BY <1>1 DEF OperationInv
<1>3. \A l \in Links : l \in torn' \/ link'[l] = state'[l]
  BY <1>1, <1>2 DEF OperationInv
<1>4. CASE op[p].kind = "gc"
  <2>1. op[p].swapped = {}
    BY <1>2, <1>4 DEF Moves
  <2> QED BY <1>1, <1>3, <1>4, <2>1 DEF OperationInv
<1>5. CASE op[p].kind # "gc"
  BY <1>1, <1>3, <1>5, EmptyTypes DEF OperationInv
<1> QED BY <1>3, <1>4, <1>5

(* Putting a moved link back, or failing to and leaving it torn, is one    *)
(* link less to put back.                                                  *)
LEMMA RestoreOperation ==
  ASSUME NEW p \in Procs, TypeOK, OperationInv(p), Restore(p) \/ FailRestore(p)
  PROVE  OperationInv(p)'
<1>1. PICK l : l = NextToRestore(p)
  OBVIOUS
<1>2. /\ pc[p] = "restore" /\ LeaveRestored(p, l) /\ UNCHANGED <<version, state>>
      /\ \/ link' = [link EXCEPT ![l] = op[p].prev[l]] /\ torn' = torn
         \/ link' = link /\ torn' = torn \cup {l}
  BY <1>1 DEF Restore, FailRestore, dirs, store
<1>3. op[p].swapped # {} /\ op[p].swapped \subseteq Moves(p)
  BY <1>2 DEF OperationInv
<1>4. l \in op[p].swapped /\ l \in Links /\ op[p].kind # "gc"
  BY <1>1, <1>3 DEF NextToRestore, Moves, Links
<1>5. \A k \in Links : IF k \in op[p].swapped \ {l} THEN link'[k] = op[p].vid
                       ELSE k \in torn' \/ link'[k] = state'[k]
  BY <1>2, <1>4 DEF OperationInv, TypeOK
<1>6. CASE op[p].swapped = {l}
  <2>1. Finish(p)
    BY <1>2, <1>6 DEF LeaveRestored
  <2>2. \A k \in Links : k \in torn' \/ link'[k] = state'[k]
    BY <1>5, <1>6
  <2> QED BY <2>1, <2>2, FinishOperation
<1>7. CASE op[p].swapped # {l}
  <2>1. /\ op'[p].kind = op[p].kind /\ op'[p].vid = op[p].vid /\ op'[p].stable = op[p].stable
        /\ op'[p].next = op[p].next /\ op'[p].seen = op[p].seen /\ op'[p].before = op[p].before
        /\ op'[p].prev = op[p].prev /\ op'[p].keep = op[p].keep
        /\ op'[p].swapped = op[p].swapped \ {l} /\ pc' = pc
    BY <1>2, <1>7 DEF LeaveRestored, TypeOK, OpRecord
  <2>2. Moves(p)' = Moves(p)
    BY <2>1 DEF Moves
  <2>3. op'[p].swapped # {} /\ op'[p].swapped \subseteq Moves(p)
    BY <1>3, <1>4, <1>7, <2>1
  <2>4. torn \subseteq torn'
    BY <1>2
  <2> QED BY <1>2, <1>5, <2>1, <2>2, <2>3, <2>4 DEF OperationInv, Ready
<1> QED BY <1>6, <1>7

(* Retention decides what to remove and removes it, newest first.          *)
LEMMA RetentionOperation ==
  ASSUME NEW p \in Procs, TypeOK, OperationInv(p),
         Collect(p) \/ RemoveVersion(p) \/ RemoveMirror(p)
  PROVE  OperationInv(p)'
<1> USE DEF Goto
<1>1. CASE Collect(p)
  <2>1. PICK record, doomed :
          /\ record = (IF op[p].kind = "gc" /\ op[p].keep # NoKeep THEN op[p].next ELSE state)
          /\ doomed = Doomed(record)
          /\ op'[p] = [NoOp EXCEPT !.doomed = doomed]
          /\ pc'[p] = (IF doomed = {} THEN "audit" ELSE "remove")
    BY <1>1 DEF Collect, TypeOK
  <2>2. op'[p].doomed = doomed /\ op'[p].swapped = {}
    BY <2>1 DEF NoOp
  <2>3. pc[p] = "collect" /\ UNCHANGED <<state, link, torn>>
    BY <1>1 DEF Collect, store
  <2>4. record = state
    BY <2>1, <2>3 DEF OperationInv
  <2>5. doomed \cap Protected(state) = {}
    BY <2>1, <2>4 DEF Doomed
  <2>6. \A l \in Links : l \in torn' \/ link'[l] = state'[l]
    BY <2>3 DEF OperationInv
  <2>7. Protected(state)' = Protected(state)
    BY <2>3 DEF Protected
  <2> HIDE DEF Goto
  <2> QED BY <2>1, <2>2, <2>5, <2>6, <2>7 DEF OperationInv
<1>2. CASE RemoveVersion(p)
  <2>1. /\ pc[p] = "remove" /\ pc'[p] = "removeMirror"
        /\ UNCHANGED <<op, state, link, torn>>
    BY <1>2 DEF RemoveVersion, TypeOK
  <2> QED BY <2>1 DEF OperationInv, Protected
<1>3. CASE RemoveMirror(p)
  <2>1. PICK v : v = Newest(op[p].doomed)
    OBVIOUS
  <2>2. /\ pc[p] = "removeMirror" /\ UNCHANGED <<state, link, torn>>
        /\ pc'[p] = (IF op[p].doomed = {v} THEN "audit" ELSE "remove")
        /\ op'[p].doomed = op[p].doomed \ {v} /\ op'[p].swapped = op[p].swapped
    BY <1>3, <2>1 DEF RemoveMirror, TypeOK, OpRecord
  <2>3. /\ op[p].doomed # {} /\ op[p].doomed \cap Protected(state) = {}
        /\ op[p].swapped = {} /\ \A l \in Links : l \in torn \/ link[l] = state[l]
    BY <2>2 DEF OperationInv
  <2>4. pc'[p] = "remove" => op'[p].doomed # {}
    <3>1. v \in op[p].doomed
      BY <2>1, <2>3, NewestExists DEF TypeOK, OpRecord
    <3> QED BY <2>2, <3>1
  <2> HIDE DEF Goto
  <2> QED BY <2>2, <2>3, <2>4 DEF OperationInv, Protected
<1> QED BY <1>1, <1>2, <1>3

(* A failure or a crash leaves links that are recorded, torn or put back   *)
(* one by one.                                                             *)
LEMMA FailOperation ==
  ASSUME NEW p \in Procs, TypeOK, OperationInv(p), Fail(p)
  PROVE  OperationInv(p)'
<1> USE DEF Goto
<1>1. ASSUME FailUnchanged(p) \/ FailHalfway(p) \/ FailRemove(p) PROVE OperationInv(p)'
  <2>1. Finish(p) /\ UNCHANGED <<state, link, torn>> /\ op[p].swapped = {}
    BY <1>1 DEF FailUnchanged, FailHalfway, FailRemove, HalfRemoved, store, OperationInv
  <2> QED BY <2>1, FinishOperation DEF OperationInv
<1>2. ASSUME FailSwapped(p) PROVE OperationInv(p)'
  <2>1. /\ pc[p] \in {"stable", "write"} /\ pc'[p] = "restore" /\ op[p].swapped # {}
        /\ UNCHANGED <<version, state, link, op, torn>>
    BY <1>2 DEF FailSwapped, store, TypeOK
  <2>2. op[p].swapped \subseteq Moves(p) /\ Moves(p)' = Moves(p)
    BY <2>1 DEF OperationInv, Moves
  <2> QED BY <2>1, <2>2 DEF OperationInv, Ready
<1>3. ASSUME Crash(p) PROVE OperationInv(p)'
  <2>1. Finish(p) /\ UNCHANGED <<state, link>> /\ torn' = torn \cup op[p].swapped
    BY <1>3 DEF Crash
  <2> QED BY <2>1, FinishOperation DEF OperationInv
<1>4. ASSUME FailRestore(p) PROVE OperationInv(p)'
  BY <1>4, RestoreOperation
<1> QED BY <1>1, <1>2, <1>3, <1>4, Zenon DEF Fail

LEMMA NextOperation ==
  ASSUME NEW p, Procs = {p}, ~Republish
  PROVE  TypeOK /\ UnusedAbsent /\ OperationInv(p) /\ [Next]_vars => OperationInv(p)'
<1> SUFFICES ASSUME TypeOK, UnusedAbsent, OperationInv(p), [Next]_vars PROVE OperationInv(p)'
  OBVIOUS
<1>0. ASSUME UNCHANGED <<version, mirror, state, link, lastId, pc, op, torn>>
      PROVE  OperationInv(p)'
  BY <1>0 DEF OperationInv, Ready, Moves, Protected
<1>1. ASSUME Audit(p) PROVE OperationInv(p)'
  <2>1. Finish(p) /\ UNCHANGED <<state, link, torn>> /\ op[p].swapped = {}
    BY <1>1 DEF Audit, store, OperationInv
  <2> QED BY <2>1, FinishOperation DEF OperationInv
<1>2. ASSUME NEW r \in Readers, Serve(r) PROVE OperationInv(p)'
  BY <1>0, <1>2
  DEF Serve, FindGraph, ResolveMirror, ReadGraph, ReadContent, EndRequest, Answer, store
<1>3. CASE UNCHANGED vars
  BY <1>0, <1>3 DEF vars
<1> QED
  BY <1>1, <1>2, <1>3, SeedOperation, BeginOperation, PointOperation, WriteOperation,
     RestoreOperation, RetentionOperation, FailOperation, Zenon DEF Next, Proceed

-----------------------------------------------------------------------------
(* One operator: what a step does to the directories.                      *)

(* A version that changes is being copied or removed: it is not one that   *)
(* the record protects and has its graph, unless it has it afterwards too, *)
(* and nothing appears under an id that was not used.                      *)
Changes(v, content) ==
  /\ version' = [version EXCEPT ![v] = content]
  /\ UNCHANGED <<state, link>>
  /\ v \in Protected(state) /\ Ready(v) => content \in {"readable", "whole"}
  /\ content # "absent" => v <= lastId

LEMMA VersionStep ==
  ASSUME NEW p, Procs = {p}, TypeOK, OperationInv(p), UnusedAbsent, [Next]_vars,
         version' # version
  PROVE  /\ op[p].swapped = {}
         /\ \E v \in Versions, content \in Contents : Changes(v, content)
<1> USE DEF Changes
<1>l. lastId \in Nat /\ 1 .. lastId \subseteq Versions
  BY BoundsAreNaturals DEF TypeOK, Versions
<1>1. ASSUME ClearGraph(p) \/ CopyGraph(p) \/ CopyRest(p)
      PROVE  /\ op[p].swapped = {}
             /\ \E v \in Versions, content \in Contents : Changes(v, content)
  <2>1. PICK content \in Contents :
          /\ version' = [version EXCEPT ![op[p].vid] = content] /\ UNCHANGED <<state, link>>
          /\ content \in {"readable", "whole"} \/ pc[p] = "clear"
    BY <1>1 DEF ClearGraph, CopyGraph, CopyRest, Contents
  <2>2. pc[p] = "clear" => ~Ready(op[p].vid)
    BY DEF OperationInv, Ready
  <2>3. op[p].vid \in 1 .. lastId /\ op[p].swapped = {}
    BY <1>1 DEF ClearGraph, CopyGraph, CopyRest, OperationInv
  <2>4. op[p].vid \in Versions /\ op[p].vid <= lastId
    BY <1>l, <2>3
  <2>5. Changes(op[p].vid, content)
    BY <2>1, <2>2, <2>4
  <2> QED BY <2>3, <2>4, <2>5
<1>2. ASSUME pc[p] \in {"remove", "removeMirror"}
      PROVE  /\ Newest(op[p].doomed) \in Versions \ Protected(state) /\ op[p].swapped = {}
             /\ Newest(op[p].doomed) <= lastId \/ version[Newest(op[p].doomed)] = "absent"
  <2>1. /\ op[p].doomed # {} /\ op[p].doomed \cap Protected(state) = {} /\ op[p].swapped = {}
        /\ op[p].doomed \in SUBSET Versions
    BY <1>2 DEF OperationInv, TypeOK, OpRecord
  <2>2. Newest(op[p].doomed) \in op[p].doomed
    BY <2>1, NewestExists
  <2> QED BY <1>l, <2>1, <2>2 DEF UnusedAbsent, Versions
<1>3. ASSUME RemoveVersion(p)
      PROVE  /\ op[p].swapped = {}
             /\ \E v \in Versions, content \in Contents : Changes(v, content)
  BY <1>2, <1>3 DEF RemoveVersion, Contents
<1>4. ASSUME HalfRemoved(p), UNCHANGED <<state, link>>
      PROVE  /\ op[p].swapped = {}
             /\ \E v \in Versions, content \in Contents : Changes(v, content)
  <2>1. PICK v : v = Newest(op[p].doomed)
    OBVIOUS
  <2>2. /\ pc[p] = "remove"
        /\ \E left \in Leftovers(v) : version' = [version EXCEPT ![v] = left]
    BY <1>4, <2>1 DEF HalfRemoved, dirs
  <2>3. PICK left \in Leftovers(v) : version' = [version EXCEPT ![v] = left]
    BY <2>2
  <2>4. /\ v \in Versions \ Protected(state) /\ op[p].swapped = {}
        /\ v <= lastId \/ version[v] = "absent"
    BY <1>2, <2>1, <2>2
  <2>5. left \in Contents /\ (version[v] = "absent" => left = "absent")
    BY <2>4 DEF Leftovers, Contents, Ready, TypeOK
  <2> QED BY <1>4, <2>3, <2>4, <2>5
<1>5. ASSUME FailRemove(p) \/ Crash(p)
      PROVE  /\ op[p].swapped = {}
             /\ \E v \in Versions, content \in Contents : Changes(v, content)
  BY <1>4, <1>5 DEF FailRemove, Crash, dirs
<1>6. ASSUME NEW r \in Readers, Serve(r) PROVE FALSE
  BY <1>6 DEF Serve, FindGraph, ResolveMirror, ReadGraph, ReadContent, EndRequest, Answer, store
<1>7. ASSUME NEW stable \in BOOLEAN, NEW mirrored \in BOOLEAN, NEW keep \in RetainOptions,
             StartPublish(p, stable, mirrored, keep)
      PROVE  FALSE
  BY <1>7 DEF StartPublish, store
<1>8. ASSUME ClearMirror(p) \/ CopyMirror(p) \/ BeginPublish(p) PROVE FALSE
  BY <1>8 DEF ClearMirror, CopyMirror, BeginPublish, store
<1>9. ASSUME Begin(p) PROVE FALSE
  BY <1>9 DEF Begin, BeginSetStable, BeginRollback, BeginGc, store
<1>10. ASSUME \/ PointCurrent(p) \/ PointStable(p) \/ WriteState(p) \/ Restore(p) \/ Collect(p)
              \/ RemoveMirror(p) \/ Audit(p)
       PROVE  FALSE
  BY <1>10 DEF PointCurrent, PointStable, Point, WriteState, Restore, Collect, RemoveMirror,
               Audit, dirs, store
<1>11. ASSUME FailUnchanged(p) \/ FailHalfway(p) \/ FailSwapped(p) \/ FailRestore(p) PROVE FALSE
  BY <1>11 DEF FailUnchanged, FailHalfway, FailSwapped, FailRestore, store
<1> QED BY <1>1, <1>3, <1>5, <1>6, <1>7, <1>8, <1>9, <1>10, <1>11, Zenon
        DEF Next, Seed, Proceed, Fail, vars

(* A mirror that appears is that of the version just copied; one that goes *)
(* away, or is half removed, is that of the version just removed.          *)
LEMMA MirrorStep ==
  ASSUME NEW p, Procs = {p}, TypeOK, OperationInv(p), [Next]_vars, mirror' # mirror
  PROVE  \/ /\ pc[p] \in {"clearMirror", "copyMirror"}
            /\ \E content \in MirrorContents : mirror' = [mirror EXCEPT ![op[p].vid] = content]
         \/ /\ pc[p] = "removeMirror"
            /\ \E content \in MirrorContents :
                 /\ mirror' = [mirror EXCEPT ![Newest(op[p].doomed)] = content]
                 /\ content # "absent" => mirror[Newest(op[p].doomed)] # "absent"
<1>1. CASE ClearMirror(p) \/ CopyMirror(p)
  BY <1>1 DEF ClearMirror, CopyMirror, MirrorContents
<1>2. CASE RemoveMirror(p)
  BY <1>2 DEF RemoveMirror, MirrorContents
<1>3. CASE FailRemove(p) \/ Crash(p)
  BY <1>3 DEF FailRemove, Crash, HalfRemoved, MirrorContents, dirs
<1>4. ASSUME NEW r \in Readers, Serve(r) PROVE FALSE
  BY <1>4 DEF Serve, FindGraph, ResolveMirror, ReadGraph, ReadContent, EndRequest, Answer, store
<1>5. ASSUME NEW stable \in BOOLEAN, NEW mirrored \in BOOLEAN, NEW keep \in RetainOptions,
             StartPublish(p, stable, mirrored, keep)
      PROVE  FALSE
  BY <1>5 DEF StartPublish, store
<1>6. ASSUME ClearGraph(p) \/ CopyGraph(p) \/ CopyRest(p) \/ BeginPublish(p) PROVE FALSE
  BY <1>6 DEF ClearGraph, CopyGraph, CopyRest, BeginPublish, store
<1>7. ASSUME Begin(p) PROVE FALSE
  BY <1>7 DEF Begin, BeginSetStable, BeginRollback, BeginGc, store
<1>8. ASSUME \/ PointCurrent(p) \/ PointStable(p) \/ WriteState(p) \/ Restore(p) \/ Collect(p)
             \/ RemoveVersion(p) \/ Audit(p)
       PROVE  FALSE
  BY <1>8 DEF PointCurrent, PointStable, Point, WriteState, Restore, Collect, RemoveVersion,
              Audit, dirs, store
<1>9. ASSUME FailUnchanged(p) \/ FailHalfway(p) \/ FailSwapped(p) \/ FailRestore(p) PROVE FALSE
  BY <1>9 DEF FailUnchanged, FailHalfway, FailSwapped, FailRestore, store
<1> QED BY <1>1, <1>2, <1>3, <1>4, <1>5, <1>6, <1>7, <1>8, <1>9, Zenon
        DEF Next, Seed, Proceed, Fail, vars

(* The record changes, and torn swaps are settled, in one step in which    *)
(* directories and links stay; the new pointers are the old ones or the    *)
(* version of the operation.                                               *)
LEMMA RecordStep ==
  ASSUME NEW p, Procs = {p}, TypeOK, OperationInv(p), [Next]_vars,
         state' # state \/ ~ (torn \subseteq torn')
  PROVE  /\ WriteState(p) /\ UNCHANGED <<version, mirror, link>>
         /\ \A l \in Links : state'[l] = IF l \in Moves(p) THEN op[p].vid ELSE state[l]
         /\ Moves(p) # {} => Ready(op[p].vid)
         /\ op[p].kind = "rollback" => op[p].vid = state.stable
<1>1. ASSUME NEW r \in Readers, Serve(r) PROVE FALSE
  BY <1>1 DEF Serve, FindGraph, ResolveMirror, ReadGraph, ReadContent, EndRequest, Answer, store
<1>2. ASSUME NEW stable \in BOOLEAN, NEW mirrored \in BOOLEAN, NEW keep \in RetainOptions,
             StartPublish(p, stable, mirrored, keep)
      PROVE  FALSE
  BY <1>2 DEF StartPublish, store
<1>3. ASSUME \/ ClearGraph(p) \/ CopyGraph(p) \/ CopyRest(p) \/ ClearMirror(p) \/ CopyMirror(p)
             \/ BeginPublish(p)
      PROVE  FALSE
  BY <1>3 DEF ClearGraph, CopyGraph, CopyRest, ClearMirror, CopyMirror, BeginPublish, store
<1>4. ASSUME Begin(p) PROVE FALSE
  BY <1>4 DEF Begin, BeginSetStable, BeginRollback, BeginGc, store
<1>5. ASSUME \/ PointCurrent(p) \/ PointStable(p) \/ Restore(p) \/ Collect(p)
             \/ RemoveVersion(p) \/ RemoveMirror(p) \/ Audit(p)
       PROVE  FALSE
  BY <1>5 DEF PointCurrent, PointStable, Point, Restore, Collect, RemoveVersion, RemoveMirror,
              Audit, dirs, store
<1>6. ASSUME Fail(p) PROVE FALSE
  BY <1>6 DEF Fail, FailUnchanged, FailHalfway, FailSwapped, FailRestore, FailRemove, Crash, store
<1>7. WriteState(p)
  BY <1>1, <1>2, <1>3, <1>4, <1>5, <1>6, Zenon DEF Next, Seed, Proceed, vars
<1>8. pc[p] = "write" /\ UNCHANGED <<version, mirror, link>> /\ state' = op[p].next
  BY <1>7 DEF WriteState, dirs
<1> QED BY <1>7, <1>8 DEF OperationInv

(* Ids only grow, and a budget is never given back.                        *)
LEMMA CountersGrow ==
  ASSUME TypeOK, [Next]_vars
  PROVE  /\ lastId' >= lastId
         /\ faults' = 0 /\ crashes' = 0 =>
              /\ faults = 0 /\ crashes = 0
              /\ \/ \E p \in Procs : Seed(p) \/ Begin(p) \/ Proceed(p)
                 \/ \E r \in Readers : Serve(r)
                 \/ UNCHANGED vars
<1>t. lastId \in Nat /\ faults \in Nat /\ crashes \in Nat
  BY BoundsAreNaturals DEF TypeOK
<1>1. ASSUME NEW p \in Procs, Seed(p) PROVE lastId' >= lastId /\ UNCHANGED budget
  <2>1. ASSUME NEW stable \in BOOLEAN, NEW mirrored \in BOOLEAN, NEW keep \in RetainOptions,
               StartPublish(p, stable, mirrored, keep)
        PROVE  lastId' >= lastId /\ UNCHANGED budget
    BY <1>t, <2>1 DEF StartPublish, Versions
  <2>2. ASSUME \/ ClearGraph(p) \/ CopyGraph(p) \/ CopyRest(p) \/ ClearMirror(p) \/ CopyMirror(p)
               \/ BeginPublish(p)
        PROVE  lastId' >= lastId /\ UNCHANGED budget
    BY <1>t, <2>2 DEF ClearGraph, CopyGraph, CopyRest, ClearMirror, CopyMirror, BeginPublish
  <2> QED BY <1>1, <2>1, <2>2, Zenon DEF Seed
<1>2. ASSUME NEW p \in Procs, Begin(p) PROVE lastId' = lastId /\ UNCHANGED budget
  BY <1>2 DEF Begin, BeginSetStable, BeginRollback, BeginGc
<1>3. ASSUME NEW p \in Procs, Proceed(p) PROVE lastId' = lastId /\ UNCHANGED budget
  BY <1>3 DEF Proceed, PointCurrent, PointStable, Point, WriteState, Restore, Collect,
              RemoveVersion, RemoveMirror, Audit
<1>4. ASSUME NEW p \in Procs, Fail(p)
      PROVE  lastId' = lastId /\ ~ (faults' = 0 /\ crashes' = 0)
  <2>1. ASSUME \/ FailUnchanged(p) \/ FailHalfway(p) \/ FailSwapped(p) \/ FailRestore(p)
               \/ FailRemove(p)
        PROVE  lastId' = lastId /\ faults' = faults + 1
    BY <2>1 DEF FailUnchanged, FailHalfway, FailSwapped, FailRestore, FailRemove, Fault
  <2>2. ASSUME Crash(p) PROVE lastId' = lastId /\ crashes' = crashes + 1
    BY <2>2 DEF Crash
  <2> QED BY <1>t, <1>4, <2>1, <2>2 DEF Fail
<1>5. ASSUME NEW r \in Readers, Serve(r) PROVE lastId' = lastId /\ UNCHANGED budget
  BY <1>5 DEF Serve, FindGraph, ResolveMirror, ReadGraph, ReadContent, EndRequest, Answer
<1>6. CASE UNCHANGED vars
  BY <1>t, <1>6 DEF vars, budget
<1>7. ASSUME NEW p \in Procs, Seed(p) \/ Begin(p) \/ Proceed(p) \/ Fail(p)
      PROVE  /\ lastId' >= lastId
             /\ faults' = 0 /\ crashes' = 0 =>
                  /\ faults = 0 /\ crashes = 0 /\ (Seed(p) \/ Begin(p) \/ Proceed(p))
  BY <1>t, <1>7, <1>1, <1>2, <1>3, <1>4 DEF budget
<1>8. ASSUME NEW r \in Readers, Serve(r)
      PROVE  lastId' >= lastId /\ faults' = faults /\ crashes' = crashes
  BY <1>t, <1>8, <1>5 DEF budget
<1>9. CASE \E p \in Procs : Seed(p) \/ Begin(p) \/ Proceed(p) \/ Fail(p)
  BY <1>7, <1>9, Zenon
<1>10. CASE \E r \in Readers : Serve(r)
  BY <1>8, <1>10, Zenon
<1>11. CASE UNCHANGED vars
  <2>1. lastId' >= lastId /\ faults' = faults /\ crashes' = crashes
    BY <1>t, <1>11 DEF vars
  <2> QED BY <1>11, <2>1, Zenon
<1> QED BY <1>9, <1>10, <1>11, Zenon DEF Next

-----------------------------------------------------------------------------
(* One operator: the rest of the invariant.                                *)

LEMMA NextProtected ==
  ASSUME NEW p, Procs = {p}, TypeOK, ProtectedReady, UnusedAbsent, OperationInv(p), [Next]_vars
  PROVE  ProtectedReady'
<1> SUFFICES ASSUME NEW v \in Protected(state') PROVE Ready(v)'
  BY DEF ProtectedReady, Protected
<1>1. CASE state' # state
  <2>1. /\ version' = version
        /\ \A l \in Links : state'[l] = IF l \in Moves(p) THEN op[p].vid ELSE state[l]
        /\ Moves(p) # {} => Ready(op[p].vid)
    BY <1>1, RecordStep
  <2>2. v # NoVersion /\ \E l \in Links : v = state'[l]
    BY DEF Protected, Links
  <2>3. Ready(v)
    BY <2>1, <2>2 DEF ProtectedReady, Protected, Links
  <2> QED BY <2>1, <2>3 DEF Ready
<1>2. CASE state' = state
  <2>1. Ready(v) /\ v \in Protected(state)
    BY <1>2 DEF ProtectedReady
  <2>2. CASE version' = version
    BY <2>1, <2>2 DEF Ready
  <2>3. CASE version' # version
    <3>1. PICK w \in Versions, content \in Contents : Changes(w, content)
      BY <2>3, VersionStep
    <3> QED BY <2>1, <3>1 DEF Changes, Ready, TypeOK
  <2> QED BY <2>2, <2>3
<1> QED BY <1>1, <1>2

LEMMA NextUnused ==
  ASSUME NEW p, Procs = {p}, TypeOK, UnusedAbsent, OperationInv(p), [Next]_vars
  PROVE  UnusedAbsent'
<1> SUFFICES ASSUME NEW v \in Versions, v > lastId'
             PROVE  version'[v] = "absent" /\ mirror'[v] = "absent"
  BY DEF UnusedAbsent
<1>1. lastId \in Nat /\ lastId' >= lastId /\ v \in Nat /\ lastId' \in Nat
  BY CountersGrow, NextType, BoundsAreNaturals DEF TypeOK, Versions
<1>2. v > lastId /\ version[v] = "absent" /\ mirror[v] = "absent"
  BY <1>1 DEF UnusedAbsent
<1>3. version'[v] = "absent"
  <2>1. CASE version' = version
    BY <1>2, <2>1
  <2>2. CASE version' # version
    <3>1. PICK w \in Versions, content \in Contents : Changes(w, content)
      BY <2>2, VersionStep
    <3>2. version' = [version EXCEPT ![w] = content] /\ (content = "absent" \/ w <= lastId)
      BY <3>1 DEF Changes
    <3>3. w = v => content = "absent"
      BY <1>1, <1>2, <3>2
    <3> QED BY <1>2, <3>2, <3>3 DEF TypeOK
  <2> QED BY <2>1, <2>2
<1>4. mirror'[v] = "absent"
  <2>1. CASE mirror' = mirror
    BY <1>2, <2>1
  <2>2. CASE pc[p] \in {"clearMirror", "copyMirror"} /\ mirror' # mirror
    <3>1. op[p].vid \in 1 .. lastId
      BY <2>2 DEF OperationInv
    <3>2. op[p].vid # v
      BY <1>1, <1>2, <3>1
    <3>3. PICK content : mirror' = [mirror EXCEPT ![op[p].vid] = content]
      BY <2>2, MirrorStep
    <3> QED BY <1>2, <3>2, <3>3 DEF TypeOK
  <2>3. CASE pc[p] = "removeMirror" /\ mirror' # mirror
    <3>1. PICK w, content : /\ mirror' = [mirror EXCEPT ![w] = content]
                            /\ content # "absent" => mirror[w] # "absent"
      BY <2>3, MirrorStep
    <3> QED BY <1>2, <3>1 DEF TypeOK
  <2> QED BY <2>1, <2>2, <2>3, MirrorStep
<1> QED BY <1>3, <1>4

(* A graph that is found through `current` stays where it is while nothing *)
(* fails: the link is moved to a version that has its graph, and what is   *)
(* copied or removed is not behind it.                                     *)
LEMMA CurrentStays ==
  ASSUME NEW p, Procs = {p}, TypeOK, ProtectedReady, UnusedAbsent, OperationInv(p), torn = {},
         Seed(p) \/ Begin(p) \/ Proceed(p), pc[p] # "restore", Ready(link.current)
  PROVE  Ready(link.current)'
<1>n. [Next]_vars
  BY Zenon DEF Next
<1>1. CASE version' # version
  <2>1. op[p].swapped = {} /\ \E v \in Versions, content \in Contents : Changes(v, content)
    BY <1>1, <1>n, VersionStep
  <2>2. PICK v \in Versions, content \in Contents : Changes(v, content)
    BY <2>1
  <2>3. link.current = state.current
    <3>1. \A l \in Links : link[l] = state[l]
      BY <2>1 DEF OperationInv
    <3> QED BY <3>1 DEF Links
  <2>4. link.current \in Protected(state)
    BY <2>3 DEF Protected, Ready
  <2> QED BY <2>2, <2>4 DEF Changes, Ready, TypeOK
<1>2. CASE version' = version
  <2>1. link'.current = link.current \/ (link'.current = op[p].vid /\ pc[p] = "current")
    <3>1. CASE PointCurrent(p) \/ PointStable(p)
      <4>1. PICK l \in Links : pc[p] = l /\ link' = [link EXCEPT ![l] = op[p].vid]
        BY <3>1 DEF PointCurrent, PointStable, Point, Links
      <4>2. link \in [Links -> Targets] /\ "current" \in Links
        BY DEF TypeOK, Links
      <4>3. link'["current"] = IF l = "current" THEN op[p].vid ELSE link["current"]
        BY <4>1, <4>2
      <4> QED BY <4>1, <4>3
    <3>2. CASE Seed(p)
      BY <3>2 DEF Seed, StartPublish, ClearGraph, CopyGraph, CopyRest, ClearMirror, CopyMirror,
                  BeginPublish, store
    <3>3. CASE Begin(p)
      BY <3>3 DEF Begin, BeginSetStable, BeginRollback, BeginGc, store
    <3>4. CASE \/ WriteState(p) \/ Collect(p) \/ RemoveVersion(p) \/ RemoveMirror(p) \/ Audit(p)
      BY <3>4 DEF WriteState, Collect, RemoveVersion, RemoveMirror, Audit, store
    <3>5. ~ Restore(p)
      BY DEF Restore
    <3> QED BY <3>1, <3>2, <3>3, <3>4, <3>5 DEF Proceed
  <2>2. pc[p] = "current" => Ready(op[p].vid)
    BY DEF OperationInv
  <2> QED BY <1>2, <2>1, <2>2 DEF Ready
<1> QED BY <1>1, <1>2

LEMMA NextFaultless ==
  ASSUME NEW p, Procs = {p}, TypeOK, SerialInv, [Next]_vars
  PROVE  FaultlessInv'
<1> SUFFICES ASSUME faults' = 0, crashes' = 0 PROVE FaultlessInv'
  BY DEF FaultlessInv
<1>1. /\ faults = 0 /\ crashes = 0
      /\ \/ Seed(p) \/ Begin(p) \/ Proceed(p)
         \/ \E r \in Readers : Serve(r)
         \/ UNCHANGED vars
  BY CountersGrow
<1>2. ProtectedReady /\ UnusedAbsent /\ OperationInv(p)
  BY DEF SerialInv
<1>3. /\ torn = {} /\ pc[p] # "restore"
      /\ \A v \in Versions : mirror[v] # "absent" =>
           version[v] # "absent" \/ (pc[p] = "removeMirror" /\ v = Newest(op[p].doomed))
      /\ \A r \in Readers :
           /\ request[r].at \in {"resolve", "graph"} /\ request[r].versioned => Ready(link.current)
           /\ request[r].answer # "noGraph"
  BY <1>1 DEF SerialInv, FaultlessInv
<1>4. CASE UNCHANGED vars
  BY <1>1, <1>3, <1>4 DEF vars, FaultlessInv, Ready
(* Requests leave the store alone and look at a graph that is still there. *)
<1>5. ASSUME NEW r \in Readers, Serve(r) PROVE FaultlessInv'
  <2>1. UNCHANGED <<version, mirror, link, pc, op, torn>>
    BY <1>5 DEF Serve, FindGraph, ResolveMirror, ReadGraph, ReadContent, EndRequest, Answer, store
  <2>2. request[r] \in Request /\ Ready(link.current)' = Ready(link.current)
    BY <2>1 DEF TypeOK, Ready
  <2>3. ASSUME NEW next \in Request, request' = [request EXCEPT ![r] = next],
               next.at \in {"resolve", "graph"} /\ next.versioned => Ready(link.current),
               next.answer # "noGraph"
        PROVE  FaultlessInv'
    <3>1. ASSUME NEW q \in Readers
          PROVE  /\ request'[q].at \in {"resolve", "graph"} /\ request'[q].versioned
                      => Ready(link.current)
                 /\ request'[q].answer # "noGraph"
      <4>1. CASE q = r
        BY <2>3, <4>1 DEF TypeOK
      <4>2. CASE q # r
        BY <1>3, <2>3, <4>2 DEF TypeOK
      <4> QED BY <4>1, <4>2
    <3> QED BY <1>3, <2>1, <2>2, <3>1 DEF FaultlessInv
  <2>4. CASE FindGraph(r)
    <3>1. PICK next : next = [NoRequest EXCEPT !.at = "resolve", !.versioned = Ready(link.current)]
      OBVIOUS
    <3>2. /\ next \in Request /\ next.versioned = Ready(link.current) /\ next.answer = "none"
      BY <3>1 DEF NoRequest, Request, Targets, Ready
    <3> QED BY <2>3, <2>4, <3>1, <3>2 DEF FindGraph, Answer
  <2>5. CASE ResolveMirror(r)
    <3>1. PICK content, next :
            /\ content \in Targets /\ request[r].at = "resolve"
            /\ next = [request[r] EXCEPT !.at = "graph", !.content = content]
            /\ request' = [request EXCEPT ![r] = next]
      BY <2>5 DEF ResolveMirror, Answer, Targets, TypeOK, StateRecord
    <3>2. /\ next \in Request /\ next.versioned = request[r].versioned
          /\ next.answer = request[r].answer
      BY <2>2, <3>1 DEF Request
    <3> QED BY <1>3, <2>3, <3>1, <3>2
  <2>6. CASE ReadGraph(r)
    <3>1. ~ (request[r].versioned /\ ~Ready(link.current))
      BY <1>3, <2>6 DEF ReadGraph
    <3>2. PICK graph, next :
            /\ graph \in Targets /\ next = [request[r] EXCEPT !.at = "content", !.graph = graph]
            /\ request' = [request EXCEPT ![r] = next]
      BY <2>6, <3>1 DEF ReadGraph, Answer, Targets, TypeOK, Links
    <3>3. next \in Request /\ next.at = "content" /\ next.answer = request[r].answer
      BY <2>2, <3>2 DEF Request
    <3> QED BY <1>3, <2>3, <3>2, <3>3
  <2>7. CASE ReadContent(r)
    <3>1. PICK answer, next :
            /\ answer \in {"served", "noFile"} /\ next = [request[r] EXCEPT !.at = "done", !.answer = answer]
            /\ request' = [request EXCEPT ![r] = next]
      BY <2>7 DEF ReadContent, Answer, Answers
    <3>2. next \in Request /\ next.at = "done" /\ next.answer # "noGraph"
      BY <2>2, <3>1 DEF Request
    <3> QED BY <2>3, <3>1, <3>2
  <2>8. CASE EndRequest(r)
    BY <2>3, <2>8, EmptyTypes DEF EndRequest, Answer, NoRequest
  <2> QED BY <1>5, <2>4, <2>5, <2>6, <2>7, <2>8 DEF Serve
<1>6. CASE Seed(p) \/ Begin(p) \/ Proceed(p)
  <2>n. [Next]_vars
    OBVIOUS
  <2>1. UNCHANGED request
    <3>1. CASE Seed(p)
      BY <3>1 DEF Seed, StartPublish, ClearGraph, CopyGraph, CopyRest, ClearMirror, CopyMirror,
                  BeginPublish
    <3>2. CASE Begin(p)
      BY <3>2 DEF Begin, BeginSetStable, BeginRollback, BeginGc
    <3>3. CASE Proceed(p)
      BY <3>3 DEF Proceed, PointCurrent, PointStable, Point, WriteState, Restore, Collect,
                  RemoveVersion, RemoveMirror, Audit
    <3> QED BY <1>6, <3>1, <3>2, <3>3
  <2>2. torn' = {} /\ pc'[p] # "restore"
    <3>1. CASE Seed(p)
      BY <1>3, <3>1 DEF Seed, StartPublish, ClearGraph, CopyGraph, CopyRest, ClearMirror,
                        CopyMirror, BeginPublish, Goto, TypeOK
    <3>2. CASE Begin(p)
      BY <1>3, <3>2 DEF Begin, BeginSetStable, BeginRollback, BeginGc, Goto, TypeOK
    <3>3. CASE PointCurrent(p) \/ PointStable(p) \/ WriteState(p) \/ Restore(p)
      BY <1>3, <3>3 DEF PointCurrent, PointStable, Point, WriteState, Restore, Goto, TypeOK
    <3>4. CASE Collect(p) \/ RemoveVersion(p) \/ RemoveMirror(p) \/ Audit(p)
      BY <1>3, <3>4 DEF Collect, RemoveVersion, RemoveMirror, Audit, Finish, Goto, TypeOK
    <3> QED BY <1>6, <3>1, <3>2, <3>3, <3>4 DEF Proceed
  <2>3. Ready(link.current) => Ready(link.current)'
    BY <1>2, <1>3, <1>6, CurrentStays
  <2>4. ASSUME NEW v \in Versions, mirror'[v] # "absent"
        PROVE  version'[v] # "absent" \/ (pc'[p] = "removeMirror" /\ v = Newest(op'[p].doomed))
    <3>1. CASE mirror'[v] = mirror[v]
      <4>1. version[v] # "absent" \/ (pc[p] = "removeMirror" /\ v = Newest(op[p].doomed))
        BY <1>3, <2>4, <3>1
      <4>2. CASE pc[p] = "removeMirror"
        <5>1. RemoveMirror(p)
          BY <1>6, <4>2, Zenon
          DEF Seed, StartPublish, ClearGraph, CopyGraph, CopyRest, ClearMirror, CopyMirror,
              BeginPublish, Begin, BeginSetStable, BeginRollback, BeginGc, Proceed, PointCurrent,
              PointStable, Point, WriteState, Restore, Collect, RemoveVersion, Audit
        <5>2. v # Newest(op[p].doomed) /\ version' = version
          BY <2>4, <5>1 DEF RemoveMirror, TypeOK
        <5> QED BY <4>1, <5>2
      <4>3. CASE pc[p] # "removeMirror"
        <5>1. version[v] # "absent"
          BY <4>1, <4>3
        <5>2. CASE RemoveVersion(p)
          BY <5>1, <5>2 DEF RemoveVersion, Goto, TypeOK
        <5>3. CASE ClearGraph(p) \/ CopyGraph(p) \/ CopyRest(p)
          BY <5>1, <5>3 DEF ClearGraph, CopyGraph, CopyRest, TypeOK
        <5>4. CASE version' = version
          BY <5>1, <5>4
        <5>5. ASSUME NEW stable \in BOOLEAN, NEW mirrored \in BOOLEAN, NEW keep \in RetainOptions,
                     StartPublish(p, stable, mirrored, keep)
              PROVE  version' = version
          BY <5>5 DEF StartPublish, store
        <5>6. ASSUME ClearMirror(p) \/ CopyMirror(p) \/ BeginPublish(p) PROVE version' = version
          BY <5>6 DEF ClearMirror, CopyMirror, BeginPublish, store
        <5>7. ASSUME Begin(p) PROVE version' = version
          BY <5>7 DEF Begin, BeginSetStable, BeginRollback, BeginGc, store
        <5>8. ASSUME \/ PointCurrent(p) \/ PointStable(p) \/ WriteState(p) \/ Restore(p)
                     \/ Collect(p) \/ RemoveMirror(p) \/ Audit(p)
              PROVE  version' = version
          BY <5>8 DEF PointCurrent, PointStable, Point, WriteState, Restore, Collect,
                      RemoveMirror, Audit, dirs, store
        <5> QED BY <1>6, <5>2, <5>3, <5>4, <5>5, <5>6, <5>7, <5>8, Zenon DEF Seed, Proceed
      <4> QED BY <4>2, <4>3
    <3>2. CASE mirror'[v] # mirror[v]
      <4>1. CASE pc[p] \in {"clearMirror", "copyMirror"}
        <5>1. PICK content : mirror' = [mirror EXCEPT ![op[p].vid] = content]
          BY <3>2, <4>1, MirrorStep, <1>2
        <5>2. v = op[p].vid /\ version[v] = "whole"
          BY <1>2, <3>2, <4>1, <5>1 DEF OperationInv, TypeOK
        <5>3. version' = version
          <6>1. ClearMirror(p) \/ CopyMirror(p)
            BY <1>6, <4>1, Zenon
            DEF Seed, StartPublish, ClearGraph, CopyGraph, CopyRest, BeginPublish, Begin,
                BeginSetStable, BeginRollback, BeginGc, Proceed, PointCurrent, PointStable, Point,
                WriteState, Restore, Collect, RemoveVersion, RemoveMirror, Audit
          <6> QED BY <6>1 DEF ClearMirror, CopyMirror
        <5> QED BY <5>2, <5>3
      <4>2. CASE pc[p] = "removeMirror"
        <5>1. RemoveMirror(p)
          BY <1>6, <4>2, Zenon
          DEF Seed, StartPublish, ClearGraph, CopyGraph, CopyRest, ClearMirror, CopyMirror,
              BeginPublish, Begin, BeginSetStable, BeginRollback, BeginGc, Proceed, PointCurrent,
              PointStable, Point, WriteState, Restore, Collect, RemoveVersion, Audit
        <5> QED BY <2>4, <3>2, <5>1 DEF RemoveMirror, TypeOK
      <4> QED BY <1>2, <3>2, <4>1, <4>2, MirrorStep
    <3> QED BY <3>1, <3>2
  <2> QED BY <1>3, <2>1, <2>2, <2>3, <2>4 DEF FaultlessInv
<1> QED BY <1>1, <1>4, <1>5, <1>6

LEMMA SerialNext ==
  ASSUME NEW p, Procs = {p}, ~Republish
  PROVE  TypeOK /\ SerialInv /\ [Next]_vars => SerialInv'
<1> SUFFICES ASSUME TypeOK, SerialInv, [Next]_vars PROVE SerialInv'
  OBVIOUS
<1>1. ProtectedReady /\ UnusedAbsent /\ OperationInv(p)
  BY DEF SerialInv
<1>2. OperationInv(p)'
  BY <1>1, NextOperation
<1>3. ProtectedReady' /\ UnusedAbsent' /\ FaultlessInv'
  BY <1>1, NextProtected, NextUnused, NextFaultless
<1> QED BY <1>2, <1>3 DEF SerialInv

LEMMA SerialInit ==
  ASSUME NEW p, Procs = {p}
  PROVE  Init => SerialInv
<1> SUFFICES ASSUME Init PROVE SerialInv
  OBVIOUS
<1>1. ProtectedReady
  BY DEF Init, ProtectedReady, Protected, EmptyState
<1>2. UnusedAbsent
  BY DEF Init, UnusedAbsent
<1>3. FaultlessInv
  BY DEF Init, FaultlessInv, NoRequest
<1> QED BY <1>1, <1>2, <1>3, InitOperation DEF SerialInv

LEMMA Serial ==
  ASSUME NEW p, Procs = {p}, ~Republish
  PROVE  Spec => [](TypeOK /\ SerialInv)
<1>1. Init => TypeOK /\ SerialInv
  BY InitType, SerialInit
<1>2. TypeOK /\ SerialInv /\ [Next]_vars => TypeOK' /\ SerialInv'
  BY NextType, SerialNext
<1> QED BY <1>1, <1>2, PTL DEF Spec

-----------------------------------------------------------------------------
(* What one operator can rely on.                                          *)

(* The versions the record names have their graph, each link names the     *)
(* recorded version between commands unless its swap was left half done,   *)
(* and retention leaves no source mirror behind: wherever operations fail  *)
(* or are killed.                                                          *)
THEOREM SerialStoreAgrees ==
  ASSUME NEW p, Procs = {p}, ~Republish
  PROVE  Spec => []StoreAgrees
<1>1. TypeOK /\ SerialInv => StoreAgrees
  <2> SUFFICES ASSUME TypeOK, SerialInv PROVE StoreAgrees
    OBVIOUS
  <2>1. LinksAgree
    BY DEF SerialInv, OperationInv, LinksAgree, Quiet
  <2>2. NoOrphanMirror
    BY DEF SerialInv, FaultlessInv, NoOrphanMirror, Quiet
  <2> QED BY <2>1, <2>2 DEF SerialInv, StoreAgrees
<1> QED BY Serial, <1>1, PTL

(* A request that found the published graph can also read it, whatever is  *)
(* published, rolled back or collected between its two looks, as long as   *)
(* nothing fails.                                                          *)
THEOREM SerialGraphServed ==
  ASSUME NEW p, Procs = {p}, ~Republish
  PROVE  Spec => []GraphServed
<1>1. TypeOK /\ SerialInv => GraphServed
  BY BoundsAreNaturals DEF SerialInv, FaultlessInv, GraphServed, TypeOK
<1> QED BY Serial, <1>1, PTL

(* An operation that fails leaves the record and both links as it found    *)
(* them, except a link whose restoration failed too.                       *)
THEOREM SerialUndone ==
  ASSUME NEW p, Procs = {p}, ~Republish
  PROVE  Spec => FailedOpUndone
<1>1. TypeOK /\ SerialInv /\ [Next]_vars => EveryUndone
  <2> SUFFICES ASSUME TypeOK, SerialInv, [Next]_vars,
                      pc[p] \in {"current", "stable", "write", "restore"}, pc'[p] = "idle"
               PROVE  state' = op[p].seen /\ \A l \in Links \ torn' : link'[l] = op[p].before[l]
    BY DEF EveryUndone, Undone
  <2>1. OperationInv(p) /\ OperationInv(p)'
    BY SerialNext DEF SerialInv
  <2>2. state' = state /\ torn \subseteq torn'
    <3>1. ~ WriteState(p)
      BY DEF WriteState, Goto, TypeOK
    <3> QED BY <2>1, <3>1, RecordStep
  <2>3. \A l \in Links : l \in torn' \/ link'[l] = state'[l]
    BY <2>1 DEF OperationInv
  <2>4. op[p].seen = state /\ \A l \in Links : l \in torn \/ op[p].before[l] = state[l]
    BY <2>1 DEF OperationInv
  <2> QED BY <2>2, <2>3, <2>4
<1>2. TypeOK /\ SerialInv /\ [Next]_vars => [EveryUndone]_vars
  BY <1>1
<1> QED BY Serial, <1>2, PTL DEF Spec, FailedOpUndone

-----------------------------------------------------------------------------
(* The store implements ReleasePointers.                                   *)

LEMMA AbstractInit == Init => Abstract!Init
BY DEF Init, Abstract!Init, EmptyState, Ready

LEMMA AbstractNext ==
  ASSUME NEW p, Procs = {p}, TypeOK, SerialInv, [Next]_vars
  PROVE  [Abstract!Next]_(Abstract!vars)
<1> DEFINE kept == {u \in Versions : Ready(u)}
<1>i. OperationInv(p) /\ UnusedAbsent
  BY DEF SerialInv
(* A version is copied, and there is one that is ready, or removed.        *)
<1>1. CASE version' # version
  <2>1. PICK v \in Versions, content \in Contents : Changes(v, content)
    BY <1>1, <1>i, VersionStep
  <2>2. version' = [version EXCEPT ![v] = content] /\ UNCHANGED state
    BY <2>1 DEF Changes
  <2>3. CASE content \in {"readable", "whole"}
    <3>1. kept' = kept \cup {v}
      BY <2>2, <2>3 DEF TypeOK, Ready, Versions, NoVersion
    <3>2. Abstract!Stage(v)
      BY <2>2, <3>1 DEF Abstract!Stage
    <3> QED BY <3>2 DEF Abstract!Next
  <2>4. CASE content \notin {"readable", "whole"}
    <3>1. kept' = kept \ {v}
      BY <2>2, <2>4 DEF TypeOK, Ready
    <3>2. CASE Ready(v)
      <4>1. v \notin {state.current, state.stable}
        BY <2>1, <2>4, <3>2 DEF Changes, Protected, Ready
      <4>2. Abstract!Collect(v)
        BY <2>2, <3>1, <4>1 DEF Abstract!Collect
      <4> QED BY <4>2 DEF Abstract!Next
    <3>3. CASE ~Ready(v)
      <4>1. kept' = kept
        BY <3>1, <3>3
      <4> QED BY <2>2, <4>1 DEF Abstract!vars
    <3> QED BY <3>2, <3>3
  <2> QED BY <2>3, <2>4
(* The record is written: both pointers move at once.                      *)
<1>2. CASE state' # state
  <2>1. /\ WriteState(p) /\ UNCHANGED version
        /\ \A l \in Links : state'[l] = IF l \in Moves(p) THEN op[p].vid ELSE state[l]
        /\ Moves(p) # {} => Ready(op[p].vid)
        /\ op[p].kind = "rollback" => op[p].vid = state.stable
    BY <1>2, <1>i, RecordStep
  <2>2. kept' = kept
    BY <2>1 DEF Ready
  <2>3. /\ state'.current = IF "current" \in Moves(p) THEN op[p].vid ELSE state.current
        /\ state'.stable = IF "stable" \in Moves(p) THEN op[p].vid ELSE state.stable
    BY <2>1 DEF Links
  <2>4. op[p].vid \in Targets /\ op[p].kind \in Kinds /\ op[p].stable \in BOOLEAN
    BY DEF TypeOK, OpRecord
  <2>5. Moves(p) # {} => op[p].vid \in Versions /\ op[p].vid \in kept
    BY <2>1, <2>4 DEF Targets, Ready
  <2>6. CASE op[p].kind = "publish"
    <3>1. "current" \in Moves(p) /\ ("stable" \in Moves(p) <=> op[p].stable)
      BY <2>6 DEF Moves, Links
    <3>2. Abstract!Publish(op[p].vid, op[p].stable)
      BY <2>2, <2>3, <2>5, <3>1 DEF Abstract!Publish
    <3> QED BY <2>4, <2>5, <3>1, <3>2 DEF Abstract!Next
  <2>7. CASE op[p].kind = "rollback"
    <3>1. "current" \in Moves(p) /\ "stable" \notin Moves(p)
      BY <2>7 DEF Moves, Links
    <3>2. Abstract!Rollback
      BY <2>1, <2>2, <2>3, <2>5, <2>7, <3>1 DEF Abstract!Rollback
    <3> QED BY <3>2 DEF Abstract!Next
  <2>8. CASE op[p].kind = "set-stable"
    <3>1. "current" \notin Moves(p) /\ "stable" \in Moves(p)
      BY <2>8 DEF Moves, Links
    <3>2. Abstract!SetStable(op[p].vid)
      BY <2>2, <2>3, <2>5, <3>1 DEF Abstract!SetStable
    <3> QED BY <2>5, <3>1, <3>2 DEF Abstract!Next
  <2>9. CASE op[p].kind \notin {"publish", "rollback", "set-stable"}
    <3>1. "current" \notin Moves(p) /\ "stable" \notin Moves(p)
      BY <2>9 DEF Moves
    <3> QED BY <2>2, <2>3, <3>1 DEF Abstract!vars
  <2> QED BY <2>6, <2>7, <2>8, <2>9
<1>3. CASE UNCHANGED <<version, state>>
  BY <1>3 DEF Abstract!vars, Ready
<1> QED BY <1>1, <1>2, <1>3

(* Every step of the store, with its failures and crashes, is a step of    *)
(* ReleasePointers or invisible to it.                                     *)
THEOREM SerialRefinement ==
  ASSUME NEW p, Procs = {p}, ~Republish
  PROVE  Spec => ImplementsReleasePointers
<1>1. TypeOK /\ SerialInv /\ [Next]_vars => [Abstract!Next]_(Abstract!vars)
  BY AbstractNext
<1> QED
  BY AbstractInit, Serial, <1>1, PTL DEF Spec, ImplementsReleasePointers, Abstract!Spec
=============================================================================
