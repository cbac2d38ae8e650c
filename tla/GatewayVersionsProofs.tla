------------------------ MODULE GatewayVersionsProofs ------------------------
(***************************************************************************)
(* Proofs about GatewayVersions, for every number of releases, every set   *)
(* of --retain values and every number of failures and crashes.            *)
(***************************************************************************)
EXTENDS GatewayVersions, FiniteSetTheorems, TLAPS

-----------------------------------------------------------------------------
(* The operators on the state record.                                      *)

(* A set of version ids that is not empty has a newest one.                *)
LEMMA NewestExists ==
  ASSUME NEW vs \in SUBSET Versions, vs # {}
  PROVE  Newest(vs) \in vs /\ \A u \in vs : u <= Newest(vs)
<1> DEFINE ages == {n \in 0 .. MaxId : MaxId - n \in vs}
<1>1. ages \subseteq Nat
  OBVIOUS
<1>2. ages # {}
  <2>1. PICK v \in vs : v \in 1 .. MaxId
    BY DEF Versions
  <2>2. MaxId - v \in ages
    BY <2>1, BoundsAreNaturals
  <2> QED BY <2>2
<1>3. PICK a \in ages : \A b \in ages : ~ (<<b, a>> \in OpToRel(<, Nat))
  <2> HIDE DEF ages
  <2> QED BY <1>1, <1>2, NatLessThanWellFounded, WFMin
<1>4. ASSUME NEW b \in ages PROVE a <= b
  <2>1. a \in Nat /\ b \in Nat
    BY <1>1
  <2>2. ~ (<<b, a>> \in OpToRel(<, Nat))
    BY <1>3
  <2>3. ~ (b < a)
    BY <2>1, <2>2, Zenon DEF OpToRel
  <2> QED BY <2>1, <2>3
<1>5. MaxId - a \in vs
  OBVIOUS
<1>6. ASSUME NEW u \in vs PROVE u <= MaxId - a
  <2>1. u \in 1 .. MaxId /\ MaxId - u \in ages
    BY BoundsAreNaturals DEF Versions
  <2> QED BY <1>4, <2>1, BoundsAreNaturals
<1> QED BY <1>5, <1>6, Zenon DEF Newest

(* Every state record that an operation computes is one state.json holds.  *)
LEMMA RecordTypes ==
  ASSUME NEW s \in StateRecord, NEW v \in Versions, NEW stable \in BOOLEAN,
         NEW keep \in RetainOptions
  PROVE  /\ WithKeep(s, keep) \in StateRecord
         /\ Published(s, v, stable, keep) \in StateRecord
         /\ MarkedStable(s, v) \in StateRecord
         /\ RolledBack(s) \in StateRecord
<1>1. ASSUME NEW r \in StateRecord PROVE DerivePending(r) \in StateRecord
  BY DEF DerivePending, StateRecord
<1>2. ASSUME NEW r \in StateRecord PROVE WithKeep(r, keep) \in StateRecord
  BY DEF WithKeep, StateRecord, RetainOptions, NoKeep
<1>3. [s EXCEPT !.current = v, !.stable = IF stable THEN v ELSE s.stable] \in StateRecord
  BY DEF StateRecord
<1>4. [s EXCEPT !.stable = v] \in StateRecord /\ [s EXCEPT !.current = s.stable] \in StateRecord
  BY DEF StateRecord
<1> QED BY <1>1, <1>2, <1>3, <1>4 DEF Published, MarkedStable, RolledBack

LEMMA EmptyTypes == EmptyState \in StateRecord /\ NoOp \in OpRecord
BY DEF EmptyState, NoOp, OpRecord, StateRecord, Kinds, RetainOptions

-----------------------------------------------------------------------------
(* Type correctness, for any set of processes.                             *)

LEMMA InitType == Init => TypeOK
<1> SUFFICES ASSUME Init PROVE TypeOK
  OBVIOUS
<1>1. release \in [Versions -> Contents] /\ pc \in [Procs -> Locations]
  BY DEF Init, Locations, Contents
<1>2. state \in StateRecord /\ op \in [Procs -> OpRecord]
  BY EmptyTypes DEF Init
<1>3. torn \in BOOLEAN
  BY DEF Init
<1>4. link \in Versions \cup {NoVersion}
  BY DEF Init
<1>5. lastId \in 0 .. MaxId
  BY BoundsAreNaturals DEF Init
<1>6. faults \in 0 .. MaxFaults /\ crashes \in 0 .. MaxCrashes
  BY BoundsAreNaturals DEF Init
<1> QED BY <1>1, <1>2, <1>3, <1>4, <1>5, <1>6 DEF TypeOK

(* The memory of a process stays well typed when one process changes its own.*)
LEMMA MemoryUpdate ==
  ASSUME NEW f \in [Procs -> OpRecord], NEW p \in Procs, NEW o \in OpRecord
  PROVE  [f EXCEPT ![p] = o] \in [Procs -> OpRecord]
OBVIOUS

(* What a command that draws an id changes in memory: its own record, and  *)
(* whether those that already package under the id have a twin.            *)
LEMMA TakesOwnRecord ==
  ASSUME op \in [Procs -> OpRecord], NEW p \in Procs, NEW v \in Versions,
         NEW stable \in BOOLEAN, NEW keep \in RetainOptions, Takes(p, v, stable, keep)
  PROVE  /\ op'[p] \in OpRecord
         /\ op'[p].kind = "publish" /\ op'[p].vid = v
         /\ op'[p].next = EmptyState /\ op'[p].doomed = {}
         /\ ~op'[p].twin => ~ \E q \in Procs \ {p} : Packaging(q) /\ op[q].vid = v
<1> DEFINE sharing == {q \in Procs \ {p} : Packaging(q) /\ op[q].vid = v}
<1>1. PICK twin \in BOOLEAN : twin = (sharing # {})
  OBVIOUS
<1>2. op'[p] = [NoOp EXCEPT !.kind = "publish", !.vid = v, !.stable = stable,
                            !.keep = keep, !.twin = twin]
  BY <1>1 DEF Takes
<1>3. op'[p] \in OpRecord /\ op'[p].twin = twin
  <2>1. op'[p] = [kind |-> "publish", vid |-> v, stable |-> stable, keep |-> keep,
                  seen |-> EmptyState, before |-> NoVersion, next |-> EmptyState,
                  prev |-> NoVersion, doomed |-> {}, twin |-> twin]
    BY <1>2 DEF NoOp
  <2>2. EmptyState \in StateRecord
    BY EmptyTypes
  <2> QED BY <2>1, <2>2 DEF OpRecord, Kinds
<1>4. /\ op'[p].kind = "publish" /\ op'[p].vid = v
      /\ op'[p].next = EmptyState /\ op'[p].doomed = {}
  BY <1>2 DEF NoOp
<1>5. ~twin => ~ \E q \in Procs \ {p} : Packaging(q) /\ op[q].vid = v
  BY <1>1
<1> QED BY <1>3, <1>4, <1>5

LEMMA TakesOtherRecords ==
  ASSUME op \in [Procs -> OpRecord], NEW p \in Procs, NEW v \in Versions,
         NEW stable \in BOOLEAN, NEW keep \in RetainOptions, Takes(p, v, stable, keep),
         NEW q \in Procs, q # p
  PROVE  /\ op'[q] \in OpRecord
         /\ op'[q].kind = op[q].kind /\ op'[q].vid = op[q].vid
         /\ op'[q].next = op[q].next /\ op'[q].doomed = op[q].doomed
         /\ ~op'[q].twin => ~op[q].twin /\ ~ (Packaging(q) /\ op[q].vid = v)
<1>1. op[q] \in OpRecord
  OBVIOUS
<1>2. CASE Packaging(q) /\ op[q].vid = v
  <2>1. op'[q] = [op[q] EXCEPT !.twin = TRUE]
    BY <1>2 DEF Takes
  <2> QED BY <1>1, <2>1 DEF OpRecord
<1>3. CASE ~ (Packaging(q) /\ op[q].vid = v)
  <2>1. op'[q] = op[q]
    BY <1>3 DEF Takes
  <2> QED BY <1>1, <1>3, <2>1
<1> QED BY <1>2, <1>3

LEMMA TakesType ==
  ASSUME op \in [Procs -> OpRecord], NEW p \in Procs, NEW v \in Versions,
         NEW stable \in BOOLEAN, NEW keep \in RetainOptions, Takes(p, v, stable, keep)
  PROVE  op' \in [Procs -> OpRecord]
<1>1. \A q \in Procs : op'[q] \in OpRecord
  BY TakesOwnRecord, TakesOtherRecords
<1>2. op' = [q \in Procs |-> op'[q]]
  BY DEF Takes
<1> QED BY <1>1, <1>2

LEMMA NextType == TypeOK /\ [Next]_vars => TypeOK'
<1> SUFFICES ASSUME TypeOK, [Next]_vars PROVE TypeOK'
  OBVIOUS
<1>0. CASE UNCHANGED vars
  BY <1>0 DEF vars, TypeOK
<1> SUFFICES ASSUME NEW p \in Procs, Package(p) \/ Begin(p) \/ Proceed(p) \/ Fail(p)
             PROVE  TypeOK'
  BY <1>0 DEF Next
<1> USE EmptyTypes, BoundsAreNaturals DEF TypeOK, store, budget, Locations
<1>m. NoOp \in OpRecord /\ op[p] \in OpRecord
  OBVIOUS
<1>k. {"publish", "set-stable", "rollback", "gc"} \subseteq Kinds
  BY DEF Kinds
<1>1. ASSUME NEW stable \in BOOLEAN, NEW keep \in RetainOptions, AllocateId(p, stable, keep)
      PROVE  TypeOK'
  <2>1. PICK v \in ClockIds : Takes(p, v, stable, keep) /\ lastId' = v
    BY <1>1 DEF AllocateId
  <2>2. v \in Versions /\ v \in 0 .. MaxId
    BY DEF ClockIds, Versions
  <2>3. op' \in [Procs -> OpRecord]
    BY <2>1, <2>2, TakesType
  <2> QED BY <1>1, <2>1, <2>2, <2>3 DEF AllocateId, Goto
<1>2. CASE ClearReleaseDir(p)
  BY <1>2 DEF ClearReleaseDir, Goto, Contents
<1>3. CASE CopyDist(p) \/ CopyDependencies(p)
  BY <1>3 DEF CopyDist, CopyDependencies, Goto, Contents
<1>4. ASSUME NEW v \in Versions, NEW stable \in BOOLEAN, NEW keep \in RetainOptions,
             StartPublish(p, v, stable, keep)
      PROVE  TypeOK'
  <2>1. [NoOp EXCEPT !.kind = "publish", !.vid = v, !.stable = stable, !.keep = keep] \in OpRecord
    BY <1>k, <1>m DEF OpRecord
  <2>2. op' \in [Procs -> OpRecord]
    BY <1>4, <2>1, MemoryUpdate DEF StartPublish
  <2> QED BY <1>4, <2>2 DEF StartPublish, Goto
<1>p. PreviousTarget \in Versions \cup {NoVersion}
  BY DEF PreviousTarget, StateRecord
<1>5. CASE BeginPublish(p)
  <2>1. CASE Ready(op[p].vid)
    <3>1. Published(state, op[p].vid, op[p].stable, op[p].keep) \in StateRecord
      BY <2>1, RecordTypes DEF Ready, OpRecord
    <3>2. [op[p] EXCEPT !.seen = state, !.before = link,
                        !.next = Published(state, op[p].vid, op[p].stable, op[p].keep),
                        !.prev = PreviousTarget] \in OpRecord
      BY <1>p, <3>1, <1>m DEF OpRecord
    <3>3. op' \in [Procs -> OpRecord]
      BY <1>5, <2>1, <3>2, MemoryUpdate, ZenonT(40) DEF BeginPublish, Snapshot
    <3> QED BY <1>5, <2>1, <3>3 DEF BeginPublish, Snapshot, Goto
  <2>2. CASE ~Ready(op[p].vid)
    BY <1>5, <2>2 DEF BeginPublish, Finish, Goto
  <2> QED BY <2>1, <2>2
<1>6. ASSUME NEW v \in Versions \cup {NoVersion}, BeginSetStable(p, v)
      PROVE  TypeOK'
  <2>1. PICK w \in Versions : op' = [op EXCEPT ![p] = [NoOp EXCEPT !.kind = "set-stable", !.vid = w,
               !.seen = state, !.before = link, !.next = MarkedStable(state, w)]]
    BY <1>6 DEF BeginSetStable, Ready, StateRecord
  <2>2. MarkedStable(state, w) \in StateRecord
    BY RecordTypes DEF RetainOptions
  <2>3. [NoOp EXCEPT !.kind = "set-stable", !.vid = w, !.seen = state, !.before = link,
                     !.next = MarkedStable(state, w)] \in OpRecord
    BY <1>k, <2>2, <1>m DEF OpRecord
  <2>4. op' \in [Procs -> OpRecord]
    BY <2>1, <2>3, MemoryUpdate
  <2> QED BY <1>6, <2>4 DEF BeginSetStable, Goto
<1>7. CASE BeginRollback(p)
  <2>1. state.stable \in Versions /\ RolledBack(state) \in StateRecord
    BY <1>7, RecordTypes DEF BeginRollback, Ready, StateRecord, RetainOptions
  <2>2. [NoOp EXCEPT !.kind = "rollback", !.vid = state.stable, !.seen = state,
                     !.before = link, !.next = RolledBack(state),
                     !.prev = PreviousTarget] \in OpRecord
    BY <1>k, <1>p, <2>1, <1>m DEF OpRecord
  <2>3. op' \in [Procs -> OpRecord]
    BY <1>7, <2>2, MemoryUpdate DEF BeginRollback
  <2> QED BY <1>7, <2>3 DEF BeginRollback, Goto
<1>8. ASSUME NEW keep \in RetainOptions, BeginGc(p, keep)
      PROVE  TypeOK'
  <2>1. WithKeep(state, keep) \in StateRecord
    BY RecordTypes DEF WithKeep, StateRecord, RetainOptions, NoKeep
  <2>2. [NoOp EXCEPT !.kind = "gc", !.keep = keep, !.seen = state, !.before = link,
                     !.next = WithKeep(state, keep)] \in OpRecord
    BY <1>k, <2>1, <1>m DEF OpRecord
  <2>3. op' \in [Procs -> OpRecord]
    BY <1>8, <2>2, MemoryUpdate DEF BeginGc
  <2> QED BY <1>8, <2>3 DEF BeginGc, Goto
<1>9. CASE SwapLink(p)
  BY <1>9 DEF SwapLink, Goto, OpRecord
<1>10. CASE WriteState(p)
  <2>1. state' \in StateRecord /\ torn' \in BOOLEAN
    BY <1>10 DEF WriteState, OpRecord
  <2>2. op' \in [Procs -> OpRecord]
    BY <1>10 DEF WriteState
  <2> QED BY <1>10, <2>1, <2>2 DEF WriteState, Goto
<1>11. CASE Collect(p)
  <2>1. PICK doomed \in SUBSET Versions : op' = [op EXCEPT ![p] = [NoOp EXCEPT !.doomed = doomed]]
    BY <1>11 DEF Collect, Doomed, Listed
  <2>2. [NoOp EXCEPT !.doomed = doomed] \in OpRecord
    BY <1>m DEF OpRecord
  <2>3. op' \in [Procs -> OpRecord]
    BY <2>1, <2>2, MemoryUpdate
  <2> QED BY <1>11, <2>3 DEF Collect, Goto
<1>12. CASE RemoveRelease(p)
  <2> USE DEF Contents
  <2>1. op[p].doomed \in SUBSET Versions
    BY DEF OpRecord
  <2>2. [op[p] EXCEPT !.doomed = @ \ {Newest(op[p].doomed)}] \in OpRecord
    BY <2>1, <1>m DEF OpRecord
  <2>3. op' \in [Procs -> OpRecord]
    BY <1>12, <2>2, MemoryUpdate DEF RemoveRelease
  <2> QED BY <1>12, <2>3 DEF RemoveRelease, Goto
<1>13. CASE Audit(p)
  BY <1>13 DEF Audit, Finish, Goto
<1>14. CASE FailUnchanged(p) \/ FailHalfway(p)
  BY <1>14 DEF FailUnchanged, FailHalfway, Fault, Finish, Goto
<1>15. CASE FailWrite(p)
  BY <1>15 DEF FailWrite, Fault, Goto
<1>16. CASE RestoreLink(p)
  BY <1>16 DEF RestoreLink, Finish, Goto, OpRecord
<1>17. CASE FailRestore(p)
  BY <1>17 DEF FailRestore, Fault, Finish, Goto
<1>18. CASE FailRemove(p)
  <2>1. PICK left \in Leftovers(Newest(op[p].doomed)) :
               release' = [release EXCEPT ![Newest(op[p].doomed)] = left]
    BY <1>18 DEF FailRemove
  <2>2. release' \in [Versions -> Contents]
    BY <2>1 DEF Leftovers, Contents
  <2> QED BY <1>18, <2>2 DEF FailRemove, Fault, Finish, Goto
<1>19. CASE Crash(p)
  <2>1. torn' \in BOOLEAN
    BY <1>19, Zenon DEF Crash
  <2>2. release' \in [Versions -> Contents]
    BY <1>19 DEF Crash, Leftovers, Contents
  <2> QED BY <1>19, <2>1, <2>2 DEF Crash, Finish, Goto
<1> QED
  BY <1>1, <1>2, <1>3, <1>4, <1>5, <1>6, <1>7, <1>8, <1>9, <1>10, <1>11, <1>12, <1>13,
     <1>14, <1>15, <1>16, <1>17, <1>18, <1>19, Zenon
  DEF Package, Begin, Proceed, Fail

(* However many commands run at once, and whatever fails or is killed, the *)
(* store keeps its type: state.json is a whole record at every moment.     *)
THEOREM TypeCorrect == Spec => []TypeOK
<1> QED BY InitType, NextType, PTL DEF Spec

-----------------------------------------------------------------------------
(* Any number of overlapping commands.                                     *)

LEMMA ConsistentRecords ==
  ASSUME NEW s \in StateRecord, NEW v \in Versions, NEW stable \in BOOLEAN,
         NEW keep \in RetainOptions
  PROVE  /\ Consistent(s) => Consistent(WithKeep(s, keep))
         /\ Consistent(Published(s, v, stable, keep))
         /\ Consistent(MarkedStable(s, v))
         /\ Consistent(RolledBack(s))
<1>1. ASSUME NEW r \in StateRecord
      PROVE  DerivePending(r) \in StateRecord /\ Consistent(DerivePending(r))
  BY DEF DerivePending, StateRecord, Consistent
<1>2. ASSUME NEW r \in StateRecord, Consistent(r) PROVE Consistent(WithKeep(r, keep))
  BY <1>2 DEF WithKeep, StateRecord, Consistent
<1>3. /\ [s EXCEPT !.current = v, !.stable = IF stable THEN v ELSE s.stable] \in StateRecord
      /\ [s EXCEPT !.stable = v] \in StateRecord
      /\ [s EXCEPT !.current = s.stable] \in StateRecord
  BY DEF StateRecord
<1> QED BY <1>1, <1>2, <1>3 DEF Published, MarkedStable, RolledBack

(* What the walk of cleanupGatewayReleases deletes has a newer survivor.   *)
LEMMA DoomedHasNewer ==
  ASSUME NEW s, s.keep \in Nat \ {0}, NEW listed \in SUBSET Versions,
         NEW v \in Doomed(s, listed)
  PROVE  \E u \in listed : u > v
<1> DEFINE from == {u \in listed \ Protected(s) : u >= v}
<1>1. v \in from /\ Cardinality(from) > s.keep
  BY DEF Doomed, Versions
<1>2. SUFFICES ASSUME \A u \in listed : ~ (u > v) PROVE FALSE
  OBVIOUS
<1>3. from = {v}
  <2>1. \A u \in listed : u \in Nat
    BY BoundsAreNaturals DEF Versions
  <2>2. \A u \in from : u = v
    BY <1>1, <1>2, <2>1
  <2> QED BY <1>1, <2>2
<1>4. Cardinality({v}) = 1
  BY FS_Singleton
<1> QED BY <1>1, <1>3, <1>4

LEMMA OverlapInit == Init => OverlapInv
<1>1. Consistent(EmptyState) /\ NoOp.next = EmptyState /\ NoOp.doomed = {}
  BY DEF Consistent, EmptyState, NoOp
<1> QED BY <1>1 DEF Init, OverlapInv, PendingConsistent

LEMMA OverlapNext == TypeOK /\ OverlapInv /\ [Next]_vars => OverlapInv'
<1> SUFFICES ASSUME TypeOK, OverlapInv, [Next]_vars PROVE OverlapInv'
  OBVIOUS
<1>0. CASE UNCHANGED vars
  BY <1>0 DEF vars, OverlapInv, PendingConsistent, Listed
<1> SUFFICES ASSUME NEW p \in Procs, Package(p) \/ Begin(p) \/ Proceed(p) \/ Fail(p)
             PROVE  OverlapInv'
  BY <1>0 DEF Next
<1>t. /\ state \in StateRecord /\ pc \in [Procs -> Locations] /\ op \in [Procs -> OpRecord]
      /\ op[p] \in OpRecord /\ release \in [Versions -> Contents]
  BY DEF TypeOK
<1>i. /\ Consistent(state) /\ Consistent(op[p].next)
      /\ \A q \in Procs : /\ Consistent(op[q].next)
                          /\ pc[q] = "remove" => op[q].doomed # {}
                          /\ \A v \in op[q].doomed : \E u \in Listed : u > v
  BY DEF OverlapInv, PendingConsistent
<1>n. Consistent(NoOp.next) /\ NoOp.doomed = {}
  BY DEF NoOp, EmptyState, Consistent
(* A step that deletes nothing only has to keep its own memory in order.   *)
<1>k. ASSUME Consistent(state'), Listed \subseteq Listed', NEW o \in OpRecord, NEW l,
             op' = [op EXCEPT ![p] = o], pc' = [pc EXCEPT ![p] = l],
             Consistent(o.next), l = "remove" => o.doomed # {},
             \A v \in o.doomed : \E u \in Listed : u > v
      PROVE  OverlapInv'
  <2>1. ASSUME NEW q \in Procs
        PROVE  /\ Consistent(op'[q].next)
               /\ pc'[q] = "remove" => op'[q].doomed # {}
               /\ \A v \in op'[q].doomed : \E u \in Listed' : u > v
    <3>1. CASE q = p
      <4>1. op'[q] = o /\ pc'[q] = l
        BY <1>t, <1>k, <3>1
      <4> QED BY <1>k, <4>1
    <3>2. CASE q # p
      <4>1. op'[q] = op[q] /\ pc'[q] = pc[q]
        BY <1>t, <1>k, <3>2
      <4> QED BY <1>i, <1>k, <4>1
    <3> QED BY <3>1, <3>2
  <2> QED BY <1>k, <2>1 DEF OverlapInv, PendingConsistent
<1>f. ASSUME Finish(p), UNCHANGED state, Listed \subseteq Listed'
      PROVE  OverlapInv'
  BY <1>f, <1>i, <1>k, <1>n, EmptyTypes DEF Finish, Goto
<1> USE DEF store, Goto
<1>1. ASSUME NEW stable \in BOOLEAN, NEW keep \in RetainOptions, AllocateId(p, stable, keep)
      PROVE  OverlapInv'
  <2>1. PICK v \in Versions : Takes(p, v, stable, keep)
    BY <1>1 DEF AllocateId, ClockIds
  <2>2. UNCHANGED <<release, state>> /\ pc' = [pc EXCEPT ![p] = "clear"]
    BY <1>1 DEF AllocateId
  <2>3. ASSUME NEW q \in Procs
        PROVE  /\ Consistent(op'[q].next)
               /\ pc'[q] = "remove" => op'[q].doomed # {}
               /\ \A w \in op'[q].doomed : \E u \in Listed' : u > w
    <3>1. CASE q = p
      <4>1. op'[q].next = NoOp.next /\ op'[q].doomed = {} /\ pc'[q] = "clear"
        BY <1>t, <2>1, <2>2, <3>1, TakesOwnRecord DEF NoOp
      <4> QED BY <1>n, <4>1
    <3>2. CASE q # p
      <4>1. op'[q].next = op[q].next /\ op'[q].doomed = op[q].doomed /\ pc'[q] = pc[q]
        BY <1>t, <2>1, <2>2, <3>2, TakesOtherRecords
      <4>2. Listed' = Listed
        BY <2>2 DEF Listed
      <4> QED BY <1>i, <4>1, <4>2
    <3> QED BY <3>1, <3>2
  <2> QED BY <1>i, <2>2, <2>3 DEF OverlapInv, PendingConsistent
<1>2. CASE ClearReleaseDir(p) \/ CopyDist(p) \/ CopyDependencies(p)
  <2>1. UNCHANGED op /\ Listed \subseteq Listed' /\ UNCHANGED state
    BY <1>2, <1>t DEF ClearReleaseDir, CopyDist, CopyDependencies, Listed
  <2>2. op' = [op EXCEPT ![p] = op[p]]
    BY <1>t, <2>1
  <2>3. PICK l : pc' = [pc EXCEPT ![p] = l] /\ l # "remove"
    BY <1>2 DEF ClearReleaseDir, CopyDist, CopyDependencies
  <2> QED BY <1>t, <1>i, <1>k, <2>1, <2>2, <2>3
<1>4. ASSUME NEW v \in Versions, NEW stable \in BOOLEAN, NEW keep \in RetainOptions,
             StartPublish(p, v, stable, keep)
      PROVE  OverlapInv'
  <2>1. PICK o : o = [NoOp EXCEPT !.kind = "publish", !.vid = v, !.stable = stable, !.keep = keep]
    OBVIOUS
  <2>2. o \in OpRecord /\ o.next = NoOp.next /\ o.doomed = NoOp.doomed
    BY <2>1, EmptyTypes DEF OpRecord, Kinds
  <2> QED BY <1>4, <1>i, <1>k, <1>n, <2>1, <2>2 DEF StartPublish, Listed
<1>5. CASE BeginPublish(p)
  <2>1. CASE Ready(op[p].vid)
    <3>1. PICK next \in StateRecord : /\ next = Published(state, op[p].vid, op[p].stable, op[p].keep)
                                      /\ Consistent(next)
      BY <1>t, <2>1, RecordTypes, ConsistentRecords DEF Ready, OpRecord
    <3>2. PICK prev \in Versions \cup {NoVersion} : prev = PreviousTarget
      BY DEF PreviousTarget, StateRecord, TypeOK
    <3>3. PICK o : o = [op[p] EXCEPT !.seen = state, !.before = link, !.next = next, !.prev = prev]
      OBVIOUS
    <3>4. o \in OpRecord /\ o.next = next /\ o.doomed = op[p].doomed
      BY <1>t, <3>3 DEF OpRecord, TypeOK
    <3>5. op' = [op EXCEPT ![p] = o] /\ pc' = [pc EXCEPT ![p] = "swap"] /\ UNCHANGED store
      BY <1>5, <2>1, <3>1, <3>2, <3>3 DEF BeginPublish, Snapshot
    <3> QED BY <1>i, <1>k, <3>1, <3>4, <3>5 DEF Listed
  <2>2. CASE ~Ready(op[p].vid)
    BY <1>5, <1>f, <2>2 DEF BeginPublish, Listed
  <2> QED BY <2>1, <2>2
<1>6. ASSUME NEW v \in Versions \cup {NoVersion}, BeginSetStable(p, v)
      PROVE  OverlapInv'
  <2>1. PICK w, o :
          /\ w \in Versions
          /\ op' = [op EXCEPT ![p] = o]
          /\ o = [NoOp EXCEPT !.kind = "set-stable", !.vid = w, !.seen = state,
                              !.before = link, !.next = MarkedStable(state, w)]
    BY <1>6, <1>t DEF BeginSetStable, Ready, StateRecord
  <2>2. MarkedStable(state, w) \in StateRecord /\ Consistent(MarkedStable(state, w))
    BY <1>t, <2>1, RecordTypes, ConsistentRecords DEF RetainOptions
  <2>3. o \in OpRecord /\ o.next = MarkedStable(state, w) /\ o.doomed = NoOp.doomed
    BY <2>1, <2>2, EmptyTypes DEF OpRecord, Kinds, TypeOK
  <2>4. pc' = [pc EXCEPT ![p] = "write"] /\ UNCHANGED store
    BY <1>6 DEF BeginSetStable
  <2> QED BY <1>i, <1>k, <1>n, <2>1, <2>2, <2>3, <2>4 DEF Listed
<1>7. CASE BeginRollback(p)
  <2>1. PICK o : /\ op' = [op EXCEPT ![p] = o]
                 /\ o = [NoOp EXCEPT !.kind = "rollback", !.vid = state.stable, !.seen = state,
                          !.before = link, !.next = RolledBack(state), !.prev = PreviousTarget]
    BY <1>7 DEF BeginRollback
  <2>2. state.stable \in Versions /\ PreviousTarget \in Versions \cup {NoVersion}
    BY <1>7 DEF BeginRollback, Ready, PreviousTarget, StateRecord, TypeOK
  <2>3. RolledBack(state) \in StateRecord /\ Consistent(RolledBack(state))
    BY <1>t, <2>2, RecordTypes, ConsistentRecords DEF RetainOptions
  <2>4. o \in OpRecord /\ o.next = RolledBack(state) /\ o.doomed = NoOp.doomed
    BY <2>1, <2>2, <2>3, EmptyTypes DEF OpRecord, Kinds, TypeOK
  <2> QED BY <1>7, <1>i, <1>k, <1>n, <2>1, <2>3, <2>4 DEF BeginRollback, Listed
<1>8. ASSUME NEW keep \in RetainOptions, BeginGc(p, keep)
      PROVE  OverlapInv'
  <2>1. PICK o : /\ op' = [op EXCEPT ![p] = o]
                 /\ o = [NoOp EXCEPT !.kind = "gc", !.keep = keep, !.seen = state,
                                     !.before = link, !.next = WithKeep(state, keep)]
    BY <1>8 DEF BeginGc
  <2>2. WithKeep(state, keep) \in StateRecord /\ Consistent(WithKeep(state, keep))
    BY <1>t, <1>i DEF WithKeep, StateRecord, RetainOptions, NoKeep, Consistent
  <2>3. o \in OpRecord /\ o.next = WithKeep(state, keep) /\ o.doomed = NoOp.doomed
    BY <2>1, <2>2, EmptyTypes DEF OpRecord, Kinds, TypeOK
  <2> DEFINE l == IF keep = NoKeep THEN "collect" ELSE "write"
  <2>4. pc' = [pc EXCEPT ![p] = l] /\ l # "remove" /\ UNCHANGED store
    BY <1>8 DEF BeginGc
  <2> HIDE DEF l
  <2> QED BY <1>i, <1>k, <1>n, <2>1, <2>2, <2>3, <2>4 DEF Listed
<1>9. CASE SwapLink(p)
  <2>1. op' = [op EXCEPT ![p] = op[p]] /\ UNCHANGED <<release, state>>
    BY <1>9, <1>t DEF SwapLink
  <2> QED BY <1>9, <1>t, <1>i, <1>k, <2>1 DEF SwapLink, Listed
<1>10. CASE WriteState(p)
  <2> DEFINE o == IF op[p].kind = "gc" THEN op[p] ELSE NoOp
             l == IF op[p].kind = "set-stable" THEN "audit" ELSE "collect"
  <2>1. /\ op' = [op EXCEPT ![p] = o] /\ pc' = [pc EXCEPT ![p] = l] /\ l # "remove"
        /\ state' = op[p].next /\ UNCHANGED release
    BY <1>10 DEF WriteState
  <2>2. o \in OpRecord /\ Consistent(o.next) /\ \A v \in o.doomed : \E u \in Listed : u > v
    BY <1>t, <1>i, <1>n, <2>1, EmptyTypes
  <2> HIDE DEF o, l
  <2> QED BY <1>i, <1>k, <2>1, <2>2 DEF Listed
<1>11. CASE Collect(p)
  <2>1. PICK record, doomed, o, l :
          /\ record = (IF op[p].kind = "gc" /\ op[p].keep # NoKeep THEN op[p].next ELSE state)
          /\ doomed = Doomed(record, Listed)
          /\ o = [NoOp EXCEPT !.doomed = doomed] /\ op' = [op EXCEPT ![p] = o]
          /\ l = (IF doomed = {} THEN "audit" ELSE "remove") /\ pc' = [pc EXCEPT ![p] = l]
    BY <1>11 DEF Collect
  <2>2. record.keep \in Nat \ {0}
    BY <1>t, <2>1, RetainsArePositive DEF StateRecord, OpRecord
  <2>3. doomed \in SUBSET Versions /\ \A v \in doomed : \E u \in Listed : u > v
    BY <2>1, <2>2, DoomedHasNewer DEF Doomed, Listed
  <2>4. o \in OpRecord /\ o.next = NoOp.next /\ o.doomed = doomed
    BY <2>1, <2>3, EmptyTypes DEF OpRecord
  <2>5. UNCHANGED state /\ Listed' = Listed
    BY <1>11 DEF Collect, Listed
  <2>6. op' = [op EXCEPT ![p] = o] /\ pc' = [pc EXCEPT ![p] = l] /\ (l = "remove" => doomed # {})
    BY <2>1
  <2>7. Consistent(o.next) /\ Consistent(state')
    BY <1>i, <1>n, <2>4, <2>5
  <2>8. (l = "remove" => o.doomed # {}) /\ \A v \in o.doomed : \E u \in Listed : u > v
    BY <2>3, <2>4, <2>6
  <2> QED BY <1>k, <2>4, <2>5, <2>6, <2>7, <2>8
<1>12. CASE RemoveRelease(p)
  <2>1. PICK w : w = Newest(op[p].doomed)
    OBVIOUS
  <2>2. /\ pc[p] = "remove" /\ UNCHANGED state
        /\ release' = [release EXCEPT ![w] = "absent"]
        /\ op' = [op EXCEPT ![p] = [op[p] EXCEPT !.doomed = op[p].doomed \ {w}]]
        /\ pc' = [pc EXCEPT ![p] = IF op[p].doomed = {w} THEN "audit" ELSE "remove"]
    BY <1>12, <2>1 DEF RemoveRelease
  <2>3. w \in op[p].doomed /\ w \in Versions
    BY <1>t, <1>i, <2>1, <2>2, NewestExists DEF OpRecord
  <2>4. Listed' = Listed \ {w}
    BY <1>t, <2>2, <2>3 DEF Listed
  <2>5. PICK w2 \in Listed : w2 > w
    BY <1>i, <2>3
  <2>6. ASSUME NEW v \in Versions, \E u \in Listed : u > v PROVE \E u \in Listed' : u > v
    <3>1. PICK u \in Listed : u > v
      BY <2>6
    <3>2. CASE u = w
      BY <2>3, <2>4, <2>5, <3>1, <3>2, BoundsAreNaturals DEF Listed, Versions
    <3>3. CASE u # w
      BY <2>4, <3>1, <3>3
    <3> QED BY <3>2, <3>3
  <2>7. ASSUME NEW q \in Procs
        PROVE  /\ Consistent(op'[q].next)
               /\ pc'[q] = "remove" => op'[q].doomed # {}
               /\ op'[q].doomed \subseteq op[q].doomed
    <3>1. CASE q = p
      <4>1. op'[q].next = op[p].next /\ op'[q].doomed = op[p].doomed \ {w}
        BY <1>t, <2>2, <3>1 DEF OpRecord
      <4> QED BY <1>t, <1>i, <2>2, <2>3, <3>1, <4>1
    <3>2. CASE q # p
      BY <1>t, <1>i, <2>2, <3>2
    <3> QED BY <3>1, <3>2
  <2>8. ASSUME NEW q \in Procs, NEW v \in op'[q].doomed PROVE \E u \in Listed' : u > v
    <3>1. v \in op[q].doomed /\ v \in Versions
      BY <1>t, <2>7 DEF OpRecord
    <3> QED BY <1>i, <2>6, <3>1
  <2> QED BY <1>i, <2>2, <2>7, <2>8 DEF OverlapInv, PendingConsistent
<1>13. CASE Audit(p) \/ RestoreLink(p)
  BY <1>13, <1>f DEF Audit, RestoreLink, Listed
<1>14. CASE FailUnchanged(p) \/ FailHalfway(p) \/ FailRestore(p)
  BY <1>14, <1>f DEF FailUnchanged, FailHalfway, FailRestore, Listed
<1>15. CASE FailWrite(p)
  <2>1. op' = [op EXCEPT ![p] = op[p]] /\ UNCHANGED <<release, state>>
    BY <1>15, <1>t DEF FailWrite
  <2> QED BY <1>15, <1>t, <1>i, <1>k, <2>1 DEF FailWrite, Listed
<1>18. CASE FailRemove(p)
  <2>1. PICK left \in Leftovers(Newest(op[p].doomed)) :
          release' = [release EXCEPT ![Newest(op[p].doomed)] = left]
    BY <1>18 DEF FailRemove
  <2>2. Listed \subseteq Listed'
    BY <1>t, <2>1 DEF Listed, Leftovers, Ready
  <2> QED BY <1>18, <1>f, <2>2 DEF FailRemove
<1>19. CASE Crash(p)
  <2>1. Listed \subseteq Listed'
    <3>1. CASE UNCHANGED release
      BY <3>1 DEF Listed
    <3>2. ASSUME NEW left \in Leftovers(Newest(op[p].doomed)),
                 release' = [release EXCEPT ![Newest(op[p].doomed)] = left]
          PROVE  Listed \subseteq Listed'
      BY <1>t, <3>2 DEF Listed, Leftovers, Ready
    <3> QED BY <1>19, <3>1, <3>2 DEF Crash
  <2> QED BY <1>19, <1>f, <2>1 DEF Crash
<1> QED
  BY <1>1, <1>2, <1>4, <1>5, <1>6, <1>7, <1>8, <1>9, <1>10, <1>11, <1>12, <1>13,
     <1>14, <1>15, <1>18, <1>19, Zenon
  DEF Package, Begin, Proceed, Fail

(* However commands overlap, the record asks for a set-stable exactly when *)
(* current and stable differ.                                              *)
THEOREM PendingIsConsistent == Spec => []PendingConsistent
<1>1. OverlapInv => PendingConsistent
  BY DEF OverlapInv
<1> QED BY OverlapInit, OverlapNext, TypeCorrect, <1>1, PTL DEF Spec

(* However commands overlap, retention never deletes the newest release.   *)
THEOREM NewestIsNotCollected == Spec => NewestSurvives
<1>1. TypeOK /\ OverlapInv /\ [Next]_vars => [NewerRemains]_release
  <2> SUFFICES ASSUME TypeOK, OverlapInv, [Next]_vars, release' # release,
                      NEW v \in Versions, release[v] # "absent", release'[v] = "absent"
               PROVE  \E u \in Listed : u > v
    BY DEF NewerRemains
  <2>1. PICK p \in Procs : Package(p) \/ Begin(p) \/ Proceed(p) \/ Fail(p)
    BY DEF Next, vars
  <2>i. /\ ~ FailRemove(p)
        /\ ~ Crash(p)
    BY DEF FailRemove, Crash, Leftovers, TypeOK, store
  <2>2. RemoveRelease(p)
    BY <2>1, <2>i
    DEF TypeOK, store, Package, Begin, Proceed, Fail, AllocateId, ClearReleaseDir, CopyDist,
        CopyDependencies, StartPublish, BeginPublish, BeginSetStable, BeginRollback, BeginGc, SwapLink,
        WriteState, Collect, Audit, RestoreLink, FailUnchanged, FailHalfway, FailWrite, FailRestore
  <2>3. v = Newest(op[p].doomed) /\ op[p].doomed # {}
    BY <2>2 DEF RemoveRelease, TypeOK, OverlapInv
  <2>4. v \in op[p].doomed
    BY <2>3, NewestExists DEF TypeOK, OpRecord
  <2> QED BY <2>4 DEF OverlapInv
<1> QED BY OverlapInit, OverlapNext, TypeCorrect, <1>1, PTL DEF Spec, NewestSurvives

-----------------------------------------------------------------------------
(* One operator: no two commands overlap.                                  *)

(* What the computed records point to.                                     *)
LEMMA KeepPointers ==
  ASSUME NEW s \in StateRecord, NEW keep \in RetainOptions
  PROVE  WithKeep(s, keep).current = s.current /\ WithKeep(s, keep).stable = s.stable
BY DEF WithKeep, StateRecord

LEMMA MarkedStablePointers ==
  ASSUME NEW s \in StateRecord, NEW v \in Versions
  PROVE  MarkedStable(s, v).current = s.current /\ MarkedStable(s, v).stable = v
BY DEF MarkedStable, DerivePending, StateRecord

LEMMA RolledBackPointers ==
  ASSUME NEW s \in StateRecord
  PROVE  RolledBack(s).current = s.stable /\ RolledBack(s).stable = s.stable
BY DEF RolledBack, DerivePending, StateRecord

LEMMA RecordPointers ==
  ASSUME NEW s \in StateRecord, NEW v \in Versions, NEW stable \in BOOLEAN,
         NEW keep \in RetainOptions
  PROVE  /\ Published(s, v, stable, keep).current = v
         /\ Published(s, v, stable, keep).stable = IF stable THEN v ELSE s.stable
         /\ RolledBack(s).current = s.stable
         /\ RolledBack(s).stable = s.stable
<1>1. ASSUME NEW r \in StateRecord
      PROVE  DerivePending(r).current = r.current /\ DerivePending(r).stable = r.stable
  BY DEF DerivePending, StateRecord
<1>3. ASSUME NEW r \in StateRecord PROVE DerivePending(r) \in StateRecord
  BY DEF DerivePending, StateRecord
<1>4. /\ [s EXCEPT !.current = v, !.stable = IF stable THEN v ELSE s.stable] \in StateRecord
      /\ [s EXCEPT !.current = v, !.stable = IF stable THEN v ELSE s.stable].current = v
      /\ [s EXCEPT !.current = v, !.stable = IF stable THEN v ELSE s.stable].stable
           = IF stable THEN v ELSE s.stable
  BY DEF StateRecord
<1>5. /\ [s EXCEPT !.current = s.stable] \in StateRecord
      /\ [s EXCEPT !.current = s.stable].current = s.stable
      /\ [s EXCEPT !.current = s.stable].stable = s.stable
  BY DEF StateRecord
<1> QED BY <1>1, <1>3, <1>4, <1>5, KeepPointers, ZenonT(40) DEF Published, RolledBack

LEMMA SerialInit == Init => SerialInv
BY DEF Init, SerialInv, ProtectedReady, OperationInv, Protected, EmptyState, MidSwap

LEMMA SerialNext ==
  ASSUME NEW p, Procs = {p}, TypeOK, SerialInv, [Next]_vars
  PROVE  SerialInv'
<1>0. CASE UNCHANGED vars
  BY <1>0 DEF vars, SerialInv, ProtectedReady, OperationInv, Protected, MidSwap, Planned, Ready
<1> SUFFICES ASSUME Package(p) \/ Begin(p) \/ Proceed(p) \/ Fail(p)
             PROVE  ProtectedReady' /\ OperationInv(p)'
  BY <1>0 DEF Next, SerialInv
<1>t. /\ state \in StateRecord /\ op[p] \in OpRecord /\ p \in Procs
      /\ release \in [Versions -> Contents]
      /\ link \in Versions \cup {NoVersion}
      /\ pc \in [Procs -> Locations] /\ op \in [Procs -> OpRecord]
  BY DEF TypeOK
<1>i. ProtectedReady /\ OperationInv(p)
  BY DEF SerialInv
<1> USE <1>t, <1>i DEF store, budget, Goto
<1>1. ASSUME NEW stable \in BOOLEAN, NEW keep \in RetainOptions, AllocateId(p, stable, keep)
      PROVE  ProtectedReady' /\ OperationInv(p)'
  <2>1. PICK v \in Versions : release[v] = "absent" /\ Takes(p, v, stable, keep)
    BY <1>1 DEF AllocateId, ClockIds
  <2>2. op'[p].kind = "publish" /\ op'[p].vid = v
    BY <2>1, TakesOwnRecord
  <2>3. pc[p] = "idle" /\ pc'[p] = "clear" /\ UNCHANGED <<release, state, link, torn>>
    BY <1>1 DEF AllocateId
  <2> QED BY <2>1, <2>2, <2>3 DEF ProtectedReady, Protected, Ready, OperationInv, MidSwap, Versions, NoVersion
<1>2. CASE ClearReleaseDir(p)
  <2>1. /\ pc[p] = "clear" /\ pc'[p] = "copy" /\ UNCHANGED <<op, state, link, torn>>
        /\ op[p].vid \in Versions /\ release[op[p].vid] = "absent"
        /\ release' = [release EXCEPT ![op[p].vid] = "bare"]
    BY <1>2 DEF ClearReleaseDir, OperationInv, OpRecord
  <2> QED BY <2>1 DEF ProtectedReady, Protected, OperationInv, MidSwap, NoVersion, Versions, Ready
<1>3. CASE CopyDist(p)
  <2>1. /\ pc[p] = "copy" /\ pc'[p] = "deps" /\ UNCHANGED <<op, state, link, torn>>
        /\ op[p].vid \in Versions
        /\ release' = [release EXCEPT ![op[p].vid] = "startable"]
    BY <1>3 DEF CopyDist, OperationInv, OpRecord
  <2> QED BY <2>1 DEF ProtectedReady, Protected, OperationInv, MidSwap, StateRecord, NoVersion, Versions, Ready
<1>c. CASE CopyDependencies(p)
  <2>1. /\ pc[p] = "deps" /\ pc'[p] = "begin" /\ UNCHANGED <<op, state, link, torn>>
        /\ release' = [release EXCEPT ![op[p].vid] = "whole"]
    BY <1>c DEF CopyDependencies
  <2> QED BY <2>1 DEF ProtectedReady, Protected, OperationInv, MidSwap, StateRecord, Ready
<1>4. ASSUME NEW v \in Versions, NEW stable \in BOOLEAN, NEW keep \in RetainOptions,
             StartPublish(p, v, stable, keep)
      PROVE  ProtectedReady' /\ OperationInv(p)'
  <2>1. /\ pc[p] = "idle" /\ pc'[p] = "begin" /\ UNCHANGED <<release, state, link, torn>>
        /\ op'[p].kind = "publish"
    BY <1>4 DEF StartPublish, NoOp
  <2>2. torn \/ link = state.current
    BY <2>1 DEF OperationInv, MidSwap
  <2> QED BY <2>1, <2>2 DEF ProtectedReady, Protected, Ready, OperationInv, MidSwap
<1>f. ASSUME Finish(p), UNCHANGED store, torn' = torn,
             pc[p] # "restore" , pc[p] = "write" => op[p].kind \notin SwapsLink
      PROVE  ProtectedReady' /\ OperationInv(p)'
  <2>1. pc'[p] = "idle" /\ UNCHANGED <<release, state, link, torn>> /\ ~MidSwap(p)
    BY <1>f DEF Finish, MidSwap
  <2> QED BY <2>1 DEF ProtectedReady, Protected, Ready, OperationInv, MidSwap
<1>p. ~ MidSwap(p) => torn \/ PreviousTarget = state.current
  BY DEF OperationInv, PreviousTarget
<1>5. CASE BeginPublish(p)
  <2>1. CASE Ready(op[p].vid)
    <3>1. /\ pc[p] = "begin" /\ pc'[p] = "swap" /\ UNCHANGED <<release, state, link, torn>>
          /\ op'[p].kind = op[p].kind /\ op'[p].vid = op[p].vid /\ op'[p].stable = op[p].stable
          /\ op'[p].keep = op[p].keep
          /\ op'[p].next = Published(state, op[p].vid, op[p].stable, op[p].keep)
          /\ op'[p].prev = PreviousTarget /\ op'[p].seen = state /\ op'[p].before = link
      BY <1>5, <2>1 DEF BeginPublish, Snapshot, OpRecord
    <3>2. op[p].kind = "publish" /\ (torn \/ link = state.current)
      BY <3>1 DEF OperationInv, MidSwap
    <3> QED
      BY <1>p, <2>1, <3>1, <3>2
      DEF ProtectedReady, Protected, OperationInv, MidSwap, Planned, Ready, SwapsLink
  <2>2. CASE ~Ready(op[p].vid)
    BY <1>5, <1>f, <2>2 DEF BeginPublish
  <2> QED BY <2>1, <2>2
<1>6. ASSUME NEW v \in Versions \cup {NoVersion}, BeginSetStable(p, v)
      PROVE  ProtectedReady' /\ OperationInv(p)'
  <2>1. PICK w : Ready(w) /\ op'[p] = [NoOp EXCEPT !.kind = "set-stable", !.vid = w,
               !.seen = state, !.before = link, !.next = MarkedStable(state, w)]
    BY <1>6 DEF BeginSetStable
  <2>2. /\ op'[p].kind = "set-stable" /\ op'[p].vid = w /\ op'[p].seen = state
        /\ op'[p].before = link /\ op'[p].next = MarkedStable(state, w)
    BY <2>1 DEF NoOp
  <2>3. pc[p] = "idle" /\ pc'[p] = "write" /\ UNCHANGED <<release, state, link, torn>>
    BY <1>6 DEF BeginSetStable
  <2> QED
    BY <2>1, <2>2, <2>3
    DEF ProtectedReady, Protected, OperationInv, MidSwap, Planned, Ready, SwapsLink
<1>7. CASE BeginRollback(p)
  <2>1. /\ op'[p].kind = "rollback" /\ op'[p].vid = state.stable /\ op'[p].seen = state
        /\ op'[p].before = link /\ op'[p].next = RolledBack(state)
        /\ op'[p].prev = PreviousTarget
    BY <1>7 DEF BeginRollback, NoOp
  <2>2. /\ pc[p] = "idle" /\ pc'[p] = "swap" /\ UNCHANGED <<release, state, link, torn>>
        /\ Ready(state.stable)
    BY <1>7 DEF BeginRollback
  <2> QED
    BY <1>p, <2>1, <2>2
    DEF ProtectedReady, Protected, OperationInv, MidSwap, Planned, Ready, SwapsLink
<1>8. ASSUME NEW keep \in RetainOptions, BeginGc(p, keep)
      PROVE  ProtectedReady' /\ OperationInv(p)'
  <2>1. /\ op'[p].kind = "gc" /\ op'[p].keep = keep /\ op'[p].seen = state
        /\ op'[p].before = link /\ op'[p].next = WithKeep(state, keep)
    BY <1>8 DEF BeginGc, NoOp
  <2>2. /\ pc[p] = "idle" /\ UNCHANGED <<release, state, link, torn>>
        /\ pc'[p] = (IF keep = NoKeep THEN "collect" ELSE "write")
    BY <1>8 DEF BeginGc
  <2> QED
    BY <2>1, <2>2 DEF ProtectedReady, Protected, Ready, OperationInv, MidSwap, Planned, SwapsLink
<1>9. CASE SwapLink(p)
  <2>1. /\ pc[p] = "swap" /\ pc'[p] = "write" /\ UNCHANGED <<release, state, op, torn>>
        /\ link' = op[p].vid
    BY <1>9 DEF SwapLink
  <2> QED
    BY <2>1 DEF ProtectedReady, Protected, OperationInv, MidSwap, Planned, Ready, SwapsLink
<1>10. CASE WriteState(p)
  <2>1. /\ pc[p] = "write" /\ UNCHANGED <<release, link>> /\ state' = op[p].next
        /\ pc'[p] = (IF op[p].kind = "set-stable" THEN "audit" ELSE "collect")
        /\ op'[p] = (IF op[p].kind = "gc" THEN op[p] ELSE NoOp)
        /\ torn' = (torn /\ op[p].kind \notin SwapsLink)
    BY <1>10 DEF WriteState
  <2>2. CASE op[p].kind = "publish"
    <3>1. op[p].vid \in Versions /\ Ready(op[p].vid) /\ link = op[p].vid
      BY <2>1, <2>2 DEF OperationInv, MidSwap, Ready, OpRecord, SwapsLink
    <3>2. /\ state'.current = op[p].vid
          /\ state'.stable = IF op[p].stable THEN op[p].vid ELSE state.stable
      BY <2>1, <2>2, <3>1, RecordPointers DEF OperationInv, Planned, OpRecord
    <3>3. pc'[p] = "collect" /\ op'[p].kind = "none"
      BY <2>1, <2>2 DEF NoOp
    <3> QED
      BY <2>1, <3>1, <3>2, <3>3 DEF ProtectedReady, Protected, OperationInv, MidSwap, Ready
  <2>3. CASE op[p].kind = "rollback"
    <3>1. Ready(op[p].vid) /\ link = op[p].vid /\ op[p].vid = state.stable
      BY <2>1, <2>3 DEF OperationInv, MidSwap, Planned, SwapsLink
    <3>2. state'.current = state.stable /\ state'.stable = state.stable
      <4>1. state' = RolledBack(state)
        BY <2>1, <2>3 DEF OperationInv, Planned
      <4>2. state.stable \in Versions
        BY <3>1 DEF Ready, StateRecord
      <4> QED BY <4>1, <4>2, RolledBackPointers
    <3>3. pc'[p] = "collect" /\ op'[p].kind = "none"
      BY <2>1, <2>3 DEF NoOp
    <3> QED
      BY <2>1, <3>1, <3>2, <3>3 DEF ProtectedReady, Protected, OperationInv, MidSwap, Ready
  <2>4. CASE op[p].kind = "set-stable"
    <3>1. op[p].vid \in Versions /\ Ready(op[p].vid) /\ (torn \/ link = state.current)
      BY <2>1, <2>4 DEF OperationInv, MidSwap, Ready, OpRecord, SwapsLink
    <3>2. state'.current = state.current /\ state'.stable = op[p].vid
      <4>1. op[p].next = MarkedStable(state, op[p].vid)
        BY <2>1, <2>4 DEF OperationInv, Planned
      <4> QED BY <2>1, <3>1, <4>1, MarkedStablePointers
    <3>3. pc'[p] = "audit" /\ op'[p].kind = "none" /\ torn' = torn
      BY <2>1, <2>4 DEF NoOp, SwapsLink, TypeOK
    <3> QED
      BY <2>1, <3>1, <3>2, <3>3 DEF ProtectedReady, Protected, OperationInv, MidSwap, Ready
  <2>5. CASE op[p].kind = "gc"
    <3>1. torn \/ link = state.current
      BY <2>1, <2>5 DEF OperationInv, MidSwap, SwapsLink
    <3>2. state'.current = state.current /\ state'.stable = state.stable
      <4>1. op[p].next = WithKeep(state, op[p].keep) /\ op[p].keep \in RetainOptions
        BY <2>1, <2>5 DEF OperationInv, Planned, OpRecord
      <4> QED BY <2>1, <4>1, KeepPointers
    <3>3. pc'[p] = "collect" /\ op'[p] = op[p] /\ torn' = torn
      BY <2>1, <2>5 DEF SwapsLink, TypeOK
    <3> QED
      BY <2>1, <3>1, <3>2, <3>3 DEF ProtectedReady, Protected, Ready, OperationInv, MidSwap
  <2> QED BY <2>1, <2>2, <2>3, <2>4, <2>5 DEF OperationInv, Planned
<1>11. CASE Collect(p)
  <2>1. PICK record, doomed :
          /\ record = (IF op[p].kind = "gc" /\ op[p].keep # NoKeep THEN op[p].next ELSE state)
          /\ doomed = Doomed(record, Listed)
          /\ op'[p] = [NoOp EXCEPT !.doomed = doomed]
          /\ pc'[p] = (IF doomed = {} THEN "audit" ELSE "remove")
    BY <1>11 DEF Collect
  <2>2. op'[p].doomed = doomed
    BY <2>1 DEF NoOp
  <2>3. pc[p] = "collect" /\ UNCHANGED <<release, state, link, torn>>
    BY <1>11 DEF Collect
  <2>4. doomed \cap Protected(state) = {}
    BY <2>1, <2>3 DEF OperationInv, Doomed
  <2>5. (torn \/ link = state.current)'
    BY <2>3 DEF OperationInv, MidSwap
  <2> QED
    BY <2>1, <2>2, <2>3, <2>4, <2>5 DEF ProtectedReady, Protected, Ready, OperationInv, MidSwap
<1>r. ASSUME pc[p] = "remove", NEW left \in Contents,
             release' = [release EXCEPT ![Newest(op[p].doomed)] = left],
             UNCHANGED state
      PROVE  ProtectedReady'
  <2>1. op[p].doomed # {} /\ op[p].doomed \cap Protected(state) = {}
    BY <1>r DEF OperationInv
  <2>2. Newest(op[p].doomed) \notin Protected(state)
    BY <2>1, NewestExists DEF OpRecord
  <2> QED BY <1>r, <2>2 DEF ProtectedReady, Protected, Ready
<1>12. CASE RemoveRelease(p)
  <2>1. /\ pc[p] = "remove" /\ UNCHANGED <<state, link, torn>>
        /\ pc'[p] = (IF op[p].doomed = {Newest(op[p].doomed)} THEN "audit" ELSE "remove")
        /\ op'[p].doomed = op[p].doomed \ {Newest(op[p].doomed)}
    BY <1>12 DEF RemoveRelease, OpRecord
  <2>2. ProtectedReady'
    BY <1>12, <1>r DEF RemoveRelease, Contents
  <2>3. op[p].doomed # {} /\ op[p].doomed \cap Protected(state) = {}
    BY <2>1 DEF OperationInv
  <2>4. Newest(op[p].doomed) \in op[p].doomed
    BY <2>3, NewestExists DEF OpRecord
  <2>5. (torn \/ link = state.current)'
    BY <2>1 DEF OperationInv, MidSwap
  <2> QED BY <2>1, <2>2, <2>3, <2>4, <2>5 DEF OperationInv, MidSwap, Protected
<1>13. CASE Audit(p)
  BY <1>13, <1>f DEF Audit
<1>14. CASE FailUnchanged(p) \/ FailHalfway(p)
  BY <1>14, <1>f DEF FailUnchanged, FailHalfway
<1>15. CASE FailWrite(p)
  <2>1. /\ pc[p] = "write" /\ pc'[p] = "restore" /\ op[p].kind \in SwapsLink
        /\ UNCHANGED <<release, state, link, op, torn>>
    BY <1>15 DEF FailWrite
  <2> QED BY <2>1 DEF ProtectedReady, Protected, OperationInv, MidSwap, Planned, Ready
<1>16. CASE RestoreLink(p)
  <2>1. /\ pc[p] = "restore" /\ pc'[p] = "idle" /\ link' = op[p].prev
        /\ UNCHANGED <<release, state, torn>>
    BY <1>16 DEF RestoreLink, Finish
  <2>2. torn \/ op[p].prev = state.current
    BY <2>1 DEF OperationInv
  <2> QED BY <2>1, <2>2 DEF ProtectedReady, Protected, Ready, OperationInv, MidSwap
<1>17. CASE FailRestore(p)
  <2>1. pc'[p] = "idle" /\ torn' = TRUE /\ UNCHANGED <<release, state, link>>
    BY <1>17 DEF FailRestore, Finish
  <2> QED BY <2>1 DEF ProtectedReady, Protected, Ready, OperationInv, MidSwap
<1>18. CASE FailRemove(p)
  <2>1. /\ pc[p] = "remove" /\ pc'[p] = "idle" /\ UNCHANGED <<state, link, torn>>
    BY <1>18 DEF FailRemove, Finish
  <2>2. PICK left \in Leftovers(Newest(op[p].doomed)) :
          release' = [release EXCEPT ![Newest(op[p].doomed)] = left]
    BY <1>18 DEF FailRemove
  <2>3. op[p].doomed # {}
    BY <2>1 DEF OperationInv
  <2>4. Newest(op[p].doomed) \in Versions
    BY <2>3, NewestExists DEF OpRecord
  <2>5. left \in Contents
    BY <2>4 DEF Leftovers, Contents
  <2>7. ProtectedReady'
    BY <1>r, <2>1, <2>2, <2>5
  <2>6. (torn \/ link = state.current)'
    BY <2>1 DEF OperationInv, MidSwap
  <2> QED BY <2>1, <2>6, <2>7 DEF OperationInv, MidSwap
<1>19. CASE Crash(p)
  <2>1. pc'[p] = "idle" /\ UNCHANGED <<state, link>>
    BY <1>19 DEF Crash, Finish
  <2>2. ProtectedReady'
    <3>1. CASE UNCHANGED release
      BY <2>1, <3>1 DEF ProtectedReady, Protected, Ready
    <3>2. ASSUME pc[p] = "remove", NEW left \in Leftovers(Newest(op[p].doomed)),
                 release' = [release EXCEPT ![Newest(op[p].doomed)] = left]
          PROVE  ProtectedReady'
      <4>1. op[p].doomed # {}
        BY <3>2 DEF OperationInv
      <4>2. Newest(op[p].doomed) \in Versions
        BY <4>1, NewestExists DEF OpRecord
      <4>3. left \in Contents
        BY <4>2 DEF Leftovers, Contents
      <4> QED BY <1>r, <2>1, <3>2, <4>3
    <3> QED BY <1>19, <3>1, <3>2 DEF Crash
  <2>3. (torn \/ link = state.current)'
    <3>1. CASE MidSwap(p)
      <4>1. torn'
        BY <1>19, <3>1 DEF Crash, MidSwap
      <4> QED BY <4>1
    <3>2. CASE ~MidSwap(p)
      <4>1. torn => torn'
        BY <1>19 DEF Crash
      <4> QED BY <2>1, <3>2, <4>1 DEF OperationInv
    <3> QED BY <3>1, <3>2
  <2> QED BY <2>1, <2>2, <2>3 DEF OperationInv, MidSwap
<1> QED
  BY <1>1, <1>2, <1>3, <1>c, <1>4, <1>5, <1>6, <1>7, <1>8, <1>9, <1>10, <1>11, <1>12, <1>13,
     <1>14, <1>15, <1>16, <1>17, <1>18, <1>19, Zenon
  DEF Package, Begin, Proceed, Fail

(* One operator: the releases state.json names can be started at every     *)
(* moment, whatever failed or was killed before.                           *)
THEOREM SerialProtectedReady ==
  ASSUME NEW p, Procs = {p}
  PROVE  Spec => []ProtectedReady
<1>1. TypeOK /\ SerialInv /\ [Next]_vars => SerialInv'
  BY SerialNext
<1>2. SerialInv => ProtectedReady
  BY DEF SerialInv
<1> QED BY SerialInit, TypeCorrect, <1>1, <1>2, PTL DEF Spec

(* One operator: the release behind the link can be started, and between   *)
(* commands the link and state.json name the same release, unless a swap   *)
(* was left half done.                                                     *)
THEOREM SerialLink ==
  ASSUME NEW p, Procs = {p}
  PROVE  Spec => [](LinkReady /\ PointersAgree)
<1>1. TypeOK /\ SerialInv /\ [Next]_vars => SerialInv'
  BY SerialNext
<1>2. TypeOK /\ SerialInv => LinkReady /\ PointersAgree
  <2> SUFFICES ASSUME TypeOK, SerialInv PROVE LinkReady /\ PointersAgree
    OBVIOUS
  <2>1. PointersAgree
    BY DEF PointersAgree, SerialInv, OperationInv, Quiet, MidSwap
  <2>2. LinkReady
    <3>1. CASE MidSwap(p)
      BY <3>1 DEF SerialInv, OperationInv, MidSwap, SwapsLink, Ready, LinkReady
    <3>2. CASE ~MidSwap(p)
      BY <3>2 DEF SerialInv, OperationInv, ProtectedReady, Protected, LinkReady
    <3> QED BY <3>1, <3>2
  <2> QED BY <2>1, <2>2
<1> QED BY SerialInit, TypeCorrect, <1>1, <1>2, PTL DEF Spec

(* One operator: an operation that fails and is not killed leaves no trace *)
(* in state.json or the link, unless restoring the link failed too.        *)
THEOREM SerialFailedOpUndone ==
  ASSUME NEW p0, Procs = {p0}
  PROVE  Spec => FailedOpUndone
<1>1. TypeOK /\ SerialInv /\ [Next]_vars => SerialInv'
  BY SerialNext
<1>2. TypeOK /\ SerialInv /\ [Next]_vars => [EveryUndone]_vars
  <2> SUFFICES ASSUME TypeOK, SerialInv, [Next]_vars, vars' # vars,
                      pc[p0] \in {"swap", "write", "restore"}, pc'[p0] = "idle",
                      crashes' = crashes, ~torn'
               PROVE  state' = op[p0].seen /\ link' = op[p0].before
    BY DEF EveryUndone, Undone
  <2> USE DEF store, budget
  <2>1. /\ op[p0].seen = state
        /\ torn \/ op[p0].before = state.current
        /\ torn \/ op[p0].kind \notin SwapsLink \/ op[p0].prev = state.current
        /\ MidSwap(p0) \/ torn \/ link = state.current
    BY DEF SerialInv, OperationInv
  <2>2. /\ ~ Package(p0) /\ ~ Begin(p0)
    BY DEF Package, Begin, AllocateId, ClearReleaseDir, CopyDist, CopyDependencies, StartPublish,
           BeginPublish, BeginSetStable, BeginRollback, BeginGc
  <2>3. ~ (SwapLink(p0) \/ WriteState(p0) \/ Collect(p0) \/ RemoveRelease(p0) \/ Audit(p0))
    BY DEF SwapLink, WriteState, Collect, RemoveRelease, Audit, Goto, TypeOK
  <2>4. CASE RestoreLink(p0)
    BY <2>1, <2>4 DEF RestoreLink, SerialInv, OperationInv
  <2>5. CASE Fail(p0)
    <3>1. ~ FailHalfway(p0) /\ ~ FailWrite(p0) /\ ~ FailRestore(p0) /\ ~ FailRemove(p0)
      BY DEF FailHalfway, FailWrite, FailRestore, FailRemove, Goto, TypeOK
    <3>2. ~ Crash(p0)
      BY DEF Crash, TypeOK
    <3>3. FailUnchanged(p0)
      BY <2>5, <3>1, <3>2 DEF Fail
    <3> QED BY <2>1, <3>3 DEF FailUnchanged, MidSwap, SerialInv, OperationInv, SwapsLink
  <2> QED BY <2>2, <2>3, <2>4, <2>5 DEF Next, Proceed
<1> QED BY SerialInit, TypeCorrect, <1>1, <1>2, PTL DEF Spec, FailedOpUndone

-----------------------------------------------------------------------------
(* One operator: the store implements ReleasePointers.                     *)

LEMMA AbstractInit == Init => Abstract!Init
BY DEF Init, Abstract!Init, EmptyState, Ready

(* Removing, or half removing, what retention marked is a Collect.         *)
LEMMA AbstractRemoval ==
  ASSUME NEW p \in Procs, TypeOK, SerialInv, pc[p] = "remove", UNCHANGED state,
         NEW left \in Contents,
         left \in {"startable", "whole"} => Ready(Newest(op[p].doomed)),
         release' = [release EXCEPT ![Newest(op[p].doomed)] = left]
  PROVE  [Abstract!Next]_(Abstract!vars)
<1>1. PICK v : v = Newest(op[p].doomed)
  OBVIOUS
<1>2. op[p].doomed # {} /\ op[p].doomed \cap Protected(state) = {} /\ op[p].doomed \in SUBSET Versions
  BY DEF SerialInv, OperationInv, TypeOK, OpRecord
<1>3. v \in Versions /\ v \notin Protected(state)
  BY <1>1, <1>2, NewestExists
<1>4. v \notin {state.current, state.stable}
  BY <1>3 DEF Protected, Versions, NoVersion
<1> DEFINE kept == {u \in Versions : Ready(u)}
<1>5. CASE left \in {"startable", "whole"}
  <2>1. kept' = kept
    BY <1>1, <1>3, <1>5 DEF TypeOK, Ready
  <2> QED BY <2>1 DEF Abstract!vars
<1>6. CASE left \notin {"startable", "whole"}
  <2>1. kept' = kept \ {v}
    BY <1>1, <1>3, <1>6 DEF TypeOK, Ready
  <2>2. Abstract!Collect(v)
    BY <1>4, <2>1 DEF Abstract!Collect
  <2> QED BY <1>3, <2>2 DEF Abstract!Next
<1> QED BY <1>5, <1>6

LEMMA AbstractNext ==
  ASSUME NEW p, Procs = {p}, TypeOK, SerialInv, [Next]_vars
  PROVE  [Abstract!Next]_(Abstract!vars)
<1>u. ASSUME UNCHANGED <<release, state>> PROVE [Abstract!Next]_(Abstract!vars)
  BY <1>u DEF Abstract!vars, Ready
<1>0. CASE UNCHANGED vars
  BY <1>0, <1>u DEF vars
<1> SUFFICES ASSUME Package(p) \/ Begin(p) \/ Proceed(p) \/ Fail(p)
             PROVE  [Abstract!Next]_(Abstract!vars)
  BY <1>0 DEF Next
<1>t. /\ state \in StateRecord /\ op[p] \in OpRecord /\ p \in Procs
      /\ release \in [Versions -> Contents]
  BY DEF TypeOK
<1>i. ProtectedReady /\ OperationInv(p)
  BY DEF SerialInv
<1> USE DEF store
<1> DEFINE kept == {u \in Versions : Ready(u)}
<1>1. CASE ClearReleaseDir(p)
  <2>1. /\ op[p].vid \in Versions /\ release[op[p].vid] = "absent" /\ UNCHANGED state
        /\ release' = [release EXCEPT ![op[p].vid] = "bare"]
    BY <1>1, <1>t, <1>i DEF ClearReleaseDir, OperationInv, OpRecord
  <2>2. kept' = kept
    BY <1>t, <2>1 DEF Ready
  <2> QED BY <2>1, <2>2 DEF Abstract!vars
<1>2. CASE CopyDist(p)
  <2>1. /\ op[p].vid \in Versions /\ UNCHANGED state
        /\ release' = [release EXCEPT ![op[p].vid] = "startable"]
    BY <1>2, <1>t, <1>i DEF CopyDist, OperationInv, OpRecord
  <2>2. kept' = kept \cup {op[p].vid}
    BY <1>t, <2>1 DEF Ready, Versions, NoVersion
  <2>3. PICK v \in Versions : v = op[p].vid
    BY <2>1
  <2>4. Abstract!Stage(v)
    BY <2>1, <2>2, <2>3 DEF Abstract!Stage
  <2>5. Abstract!Next
    BY <2>4 DEF Abstract!Next
  <2> QED BY <2>5
<1>c. CASE CopyDependencies(p)
  <2>1. /\ op[p].vid \in Versions /\ UNCHANGED state /\ release[op[p].vid] = "startable"
        /\ release' = [release EXCEPT ![op[p].vid] = "whole"]
    BY <1>c, <1>t, <1>i DEF CopyDependencies, OperationInv, OpRecord
  <2>2. kept' = kept
    BY <1>t, <2>1 DEF Ready
  <2> QED BY <2>1, <2>2 DEF Abstract!vars
<1>3. CASE WriteState(p)
  <2>1. pc[p] = "write" /\ UNCHANGED release /\ state' = op[p].next
    BY <1>3 DEF WriteState
  <2>2. Planned(p) /\ (op[p].kind # "gc" => Ready(op[p].vid))
    BY <1>i, <2>1 DEF OperationInv
  <2>3. CASE op[p].kind = "publish"
    <3>1. op[p].vid \in Versions /\ Ready(op[p].vid) /\ op[p].stable \in BOOLEAN
      BY <1>t, <2>2, <2>3 DEF Ready, OpRecord
    <3>2. op[p].keep \in RetainOptions /\ state' = Published(state, op[p].vid, op[p].stable, op[p].keep)
      BY <1>t, <2>1, <2>2, <2>3 DEF Planned, OpRecord
    <3>3. /\ state'.current = op[p].vid
          /\ state'.stable = IF op[p].stable THEN op[p].vid ELSE state.stable
      BY <1>t, <3>1, <3>2, RecordPointers
    <3>4. Abstract!Publish(op[p].vid, op[p].stable)
      BY <2>1, <3>1, <3>3 DEF Abstract!Publish, Ready
    <3> QED BY <3>1, <3>4 DEF Abstract!Next
  <2>4. CASE op[p].kind = "rollback"
    <3>1. state.stable \in Versions /\ Ready(state.stable)
      BY <1>t, <2>2, <2>4 DEF Planned, Ready, StateRecord
    <3>2. state'.current = state.stable /\ state'.stable = state.stable
      BY <1>t, <2>1, <2>2, <2>4, RolledBackPointers DEF Planned
    <3>3. Abstract!Rollback
      BY <2>1, <3>1, <3>2 DEF Abstract!Rollback, Ready
    <3> QED BY <3>3 DEF Abstract!Next
  <2>5. CASE op[p].kind = "set-stable"
    <3>1. op[p].vid \in Versions /\ Ready(op[p].vid)
      BY <1>t, <2>2, <2>5 DEF Ready, OpRecord
    <3>2. state' = MarkedStable(state, op[p].vid)
      BY <2>1, <2>2, <2>5 DEF Planned
    <3>3. state'.current = state.current /\ state'.stable = op[p].vid
      BY <1>t, <3>1, <3>2, MarkedStablePointers
    <3>4. Abstract!SetStable(op[p].vid)
      BY <2>1, <3>1, <3>3 DEF Abstract!SetStable, Ready
    <3> QED BY <3>1, <3>4 DEF Abstract!Next
  <2>6. CASE op[p].kind = "gc"
    <3>1. state' = WithKeep(state, op[p].keep) /\ op[p].keep \in RetainOptions
      BY <1>t, <2>1, <2>2, <2>6 DEF Planned, OpRecord
    <3>2. state'.current = state.current /\ state'.stable = state.stable
      BY <1>t, <3>1, KeepPointers
    <3> QED BY <2>1, <3>2 DEF Abstract!vars, Ready
  <2> QED BY <2>2, <2>3, <2>4, <2>5, <2>6 DEF Planned
<1>l. ASSUME pc[p] = "remove", UNCHANGED state, NEW left \in Leftovers(Newest(op[p].doomed)),
             release' = [release EXCEPT ![Newest(op[p].doomed)] = left]
      PROVE  [Abstract!Next]_(Abstract!vars)
  <2>1. Newest(op[p].doomed) \in Versions
    BY <1>l, <1>t, <1>i, NewestExists DEF OperationInv, OpRecord
  <2>2. release[Newest(op[p].doomed)] \in Contents
    BY <1>t, <2>1
  <2>3. left \in Contents
    BY <1>l, <2>2 DEF Leftovers, Contents
  <2>4. left \in {"startable", "whole"} => Ready(Newest(op[p].doomed))
    BY <1>l, <2>1 DEF Leftovers, Ready, Versions, NoVersion
  <2> QED BY <1>l, <1>t, <2>3, <2>4, AbstractRemoval
<1>4. CASE RemoveRelease(p)
  BY <1>4, <1>t, AbstractRemoval DEF RemoveRelease, Contents
<1>5. CASE FailRemove(p)
  BY <1>5, <1>l DEF FailRemove
<1>6. CASE Crash(p)
  <2>1. CASE UNCHANGED release
    BY <1>6, <1>u, <2>1 DEF Crash
  <2>2. CASE release' # release
    BY <1>6, <1>l, <2>2 DEF Crash
  <2> QED BY <2>1, <2>2
<1>7. CASE Begin(p)
  BY <1>7, <1>u DEF Begin, StartPublish, BeginPublish, BeginSetStable, BeginRollback, BeginGc
<1>8. CASE \/ SwapLink(p) \/ Collect(p) \/ Audit(p) \/ RestoreLink(p)
           \/ FailUnchanged(p) \/ FailHalfway(p) \/ FailWrite(p) \/ FailRestore(p)
  BY <1>8, <1>u
  DEF SwapLink, Collect, Audit, RestoreLink, FailUnchanged, FailHalfway, FailWrite, FailRestore
<1>9. ASSUME NEW stable \in BOOLEAN, NEW keep \in RetainOptions, AllocateId(p, stable, keep)
      PROVE  [Abstract!Next]_(Abstract!vars)
  BY <1>9, <1>u DEF AllocateId
<1> QED
  BY <1>1, <1>2, <1>c, <1>3, <1>4, <1>5, <1>6, <1>7, <1>8, <1>9, Zenon DEF Package, Proceed, Fail

(* One operator: whatever fails or is killed, every step of the store is a *)
(* step of ReleasePointers or invisible to it.                             *)
THEOREM SerialRefinement ==
  ASSUME NEW p, Procs = {p}
  PROVE  Spec => ImplementsReleasePointers
<1>1. TypeOK /\ SerialInv /\ [Next]_vars => SerialInv'
  BY SerialNext
<1>2. TypeOK /\ SerialInv /\ [Next]_vars => [Abstract!Next]_(Abstract!vars)
  BY AbstractNext
<1> QED
  BY AbstractInit, SerialInit, TypeCorrect, <1>1, <1>2, PTL
  DEF Spec, ImplementsReleasePointers, Abstract!Spec
-----------------------------------------------------------------------------
(* Overlapping packagings, also of two commands that were given one id.    *)

LEMMA PackagingInit == Init => PackagingInv
BY DEF Init, PackagingInv, Packaging

LEMMA PackagedId ==
  ASSUME TypeOK, PackagingInv, NEW p \in Procs, Packaging(p)
  PROVE  /\ op[p].vid \in 1 .. lastId /\ op[p].vid \in Versions
         /\ ~op[p].twin => /\ release[op[p].vid] # "whole"
                           /\ \A q \in Procs \ {p} : Packaging(q) => op[q].vid # op[p].vid
<1>1. /\ op[p].vid \in 1 .. lastId
      /\ ~op[p].twin => /\ release[op[p].vid] # "whole"
                        /\ \A q \in Procs \ {p} : Packaging(q) => op[q].vid # op[p].vid
  BY Zenon DEF PackagingInv
<1>2. lastId \in 0 .. MaxId
  BY DEF TypeOK
<1>3. op[p].vid \in Versions
  <2> HIDE DEF Packaging
  <2> QED BY <1>1, <1>2, BoundsAreNaturals DEF Versions
<1> QED BY <1>1, <1>3

(* A step that starts no packaging, completes no release and creates none. *)
LEMMA PackagingKept ==
  ASSUME TypeOK, PackagingInv, NEW p \in Procs, lastId' = lastId,
         \A v \in Versions : release'[v] \in {"absent", "whole"} => release'[v] \in {"absent", release[v]},
         \A v \in Versions : release[v] = "absent" => release'[v] = "absent",
         \A q \in Procs : Packaging(q)' => Packaging(q) /\ op'[q].vid = op[q].vid
                                           /\ op'[q].twin = op[q].twin
  PROVE  PackagingInv'
<1>1. ASSUME NEW v \in Versions, v > lastId' PROVE release'[v] = "absent"
  BY <1>1 DEF PackagingInv
<1>2. ASSUME NEW q \in Procs, Packaging(q)'
      PROVE  /\ op'[q].vid \in 1 .. lastId'
             /\ ~op'[q].twin =>
                  /\ release'[op'[q].vid] # "whole"
                  /\ \A r \in Procs \ {q} : Packaging(r)' => op'[r].vid # op'[q].vid
  <2>1. Packaging(q) /\ op'[q].vid = op[q].vid /\ op'[q].twin = op[q].twin
    BY <1>2
  <2>2. op[q].vid \in 1 .. lastId /\ op[q].vid \in Versions
    BY <2>1, PackagedId
  <2>3. ASSUME ~op'[q].twin PROVE release'[op'[q].vid] # "whole"
    <3>1. release[op[q].vid] # "whole"
      BY <2>1, <2>3, PackagedId
    <3> QED BY <2>1, <2>2, <3>1
  <2>4. ASSUME ~op'[q].twin, NEW r \in Procs \ {q}, Packaging(r)' PROVE op'[r].vid # op'[q].vid
    BY <2>1, <2>4, PackagedId
  <2> QED BY <2>1, <2>2, <2>3, <2>4
<1> QED BY <1>1, <1>2 DEF PackagingInv

(* A packaging goes on: its own release changes, and no other.             *)
LEMMA PackagingGoesOn ==
  ASSUME TypeOK, PackagingInv, NEW p \in Procs, Packaging(p), UNCHANGED <<lastId, op>>,
         NEW made \in Contents, release' = [release EXCEPT ![op[p].vid] = made],
         NEW l, pc' = [pc EXCEPT ![p] = l],
         l # "clear", l \in {"copy", "deps"} => made # "whole"
  PROVE  PackagingInv'
<1>1. op[p].vid \in 1 .. lastId /\ op[p].vid \in Versions
  BY PackagedId
<1>2. ASSUME NEW v \in Versions, v > lastId' PROVE release'[v] = "absent"
  BY <1>1, <1>2 DEF PackagingInv, TypeOK
<1>3. ASSUME NEW q \in Procs, Packaging(q)'
      PROVE  /\ op'[q].vid \in 1 .. lastId'
             /\ ~op'[q].twin =>
                  /\ release'[op'[q].vid] # "whole"
                  /\ \A r \in Procs \ {q} : Packaging(r)' => op'[r].vid # op'[q].vid
  <2>1. Packaging(q)
    BY <1>3 DEF Packaging, TypeOK
  <2>2. \A r \in Procs : Packaging(r)' => Packaging(r)
    BY DEF Packaging, TypeOK
  <2>3. op[q].vid \in 1 .. lastId /\ op[q].vid \in Versions
    BY <2>1, PackagedId
  <2>4. ASSUME ~op[q].twin
        PROVE  /\ release'[op[q].vid] # "whole"
               /\ \A r \in Procs \ {q} : Packaging(r)' => op[r].vid # op[q].vid
    <3>1. /\ release[op[q].vid] # "whole"
          /\ \A r \in Procs \ {q} : Packaging(r) => op[r].vid # op[q].vid
      BY <2>1, <2>4, PackagedId
    <3>2. CASE q = p
      <4>1. l \in {"clear", "copy", "deps"}
        BY <1>3, <3>2 DEF Packaging, TypeOK
      <4>2. release'[op[q].vid] = made
        BY <2>3, <3>2 DEF TypeOK
      <4> QED BY <2>2, <3>1, <4>1, <4>2
    <3>3. CASE q # p
      <4>1. op[q].vid # op[p].vid
        BY <3>1, <3>3
      <4>2. release'[op[q].vid] = release[op[q].vid]
        BY <2>3, <4>1 DEF TypeOK
      <4> QED BY <2>2, <3>1, <4>2
    <3> QED BY <3>2, <3>3
  <2> QED BY <2>3, <2>4
<1> QED BY <1>2, <1>3 DEF PackagingInv

LEMMA PackagingNext ==
  ASSUME TypeOK, PackagingInv, [Next]_vars
  PROVE  PackagingInv'
<1>0. CASE UNCHANGED vars
  BY <1>0 DEF vars, PackagingInv, Packaging
<1> SUFFICES ASSUME NEW p \in Procs, Package(p) \/ Begin(p) \/ Proceed(p) \/ Fail(p)
             PROVE  PackagingInv'
  BY <1>0 DEF Next
<1>u. ASSUME UNCHANGED <<release, lastId>>,
             NEW l, l \notin {"clear", "copy", "deps"}, pc' = [pc EXCEPT ![p] = l],
             NEW o, op' = [op EXCEPT ![p] = o]
      PROVE  PackagingInv'
  <2>1. \A q \in Procs : Packaging(q)' => Packaging(q) /\ op'[q] = op[q]
    BY <1>u DEF Packaging, TypeOK
  <2> QED BY <1>u, <2>1, PackagingKept
<1>r. ASSUME NEW left, UNCHANGED lastId, pc[p] = "remove",
             release' = [release EXCEPT ![Newest(op[p].doomed)] = left],
             left \in Leftovers(Newest(op[p].doomed)) \cup {"absent"},
             NEW l, l \notin {"clear", "copy", "deps"}, pc' = [pc EXCEPT ![p] = l],
             NEW o, op' = [op EXCEPT ![p] = o]
      PROVE  PackagingInv'
  <2>1. \A q \in Procs : Packaging(q)' => Packaging(q) /\ op'[q] = op[q]
    BY <1>r DEF Packaging, TypeOK
  <2>2. ASSUME NEW v \in Versions
        PROVE  /\ release'[v] \in {"absent", "whole"} => release'[v] \in {"absent", release[v]}
               /\ release[v] = "absent" => release'[v] = "absent"
    BY <1>r DEF TypeOK, Leftovers, Ready
  <2> QED BY <1>r, <2>1, <2>2, PackagingKept
<1> USE DEF store, budget, Goto, Finish
<1>1. ASSUME NEW stable \in BOOLEAN, NEW keep \in RetainOptions, AllocateId(p, stable, keep)
      PROVE  PackagingInv'
  <2>1. PICK v \in ClockIds :
          /\ lastId' = v /\ release[v] = "absent"
          /\ Takes(p, v, stable, keep)
          /\ pc' = [pc EXCEPT ![p] = "clear"]
          /\ UNCHANGED release
    BY <1>1 DEF AllocateId
  <2>2. v \in {lastId, lastId + 1} /\ v \in Versions /\ v \in 1 .. v /\ lastId \in Nat
    BY BoundsAreNaturals DEF ClockIds, TypeOK, Versions
  <2>3. op \in [Procs -> OpRecord]
    BY DEF TypeOK
  <2>4. \A w \in Versions : w > lastId' => release'[w] = "absent"
    BY <2>1, <2>2 DEF PackagingInv, Versions
  <2>5. ASSUME NEW q \in Procs, Packaging(q)', q # p
        PROVE  /\ Packaging(q) /\ op'[q].vid = op[q].vid /\ op[q].vid \in 1 .. lastId
               /\ ~op'[q].twin => ~op[q].twin /\ op[q].vid # v
    <3>1. Packaging(q)
      BY <2>1, <2>5 DEF Packaging, TypeOK
    <3>2. op'[q].vid = op[q].vid /\ (~op'[q].twin => ~op[q].twin /\ ~ (Packaging(q) /\ op[q].vid = v))
      BY <2>1, <2>2, <2>3, <2>5, TakesOtherRecords
    <3> QED BY <3>1, <3>2, PackagedId
  <2>6. ASSUME NEW q \in Procs, Packaging(q)'
        PROVE  /\ op'[q].vid \in 1 .. lastId'
               /\ ~op'[q].twin =>
                    /\ release'[op'[q].vid] # "whole"
                    /\ \A r \in Procs \ {q} : Packaging(r)' => op'[r].vid # op'[q].vid
    <3>1. op'[p].vid = v /\ (~op'[p].twin => ~ \E r \in Procs \ {p} : Packaging(r) /\ op[r].vid = v)
      BY <2>1, <2>2, <2>3, TakesOwnRecord
    <3>2. CASE q = p
      <4>1. ASSUME ~op'[q].twin, NEW r \in Procs \ {q}, Packaging(r)' PROVE op'[r].vid # op'[q].vid
        BY <2>5, <3>1, <3>2, <4>1
      <4> QED BY <2>1, <2>2, <3>1, <3>2, <4>1
    <3>3. CASE q # p
      <4>1. op'[q].vid \in 1 .. lastId'
        BY <2>1, <2>2, <2>5, <2>6, <3>3
      <4>2. ASSUME ~op'[q].twin
            PROVE  /\ release'[op'[q].vid] # "whole"
                   /\ \A r \in Procs \ {q} : Packaging(r)' => op'[r].vid # op'[q].vid
        <5>1. /\ op'[q].vid = op[q].vid /\ op[q].vid # v
              /\ release[op[q].vid] # "whole"
              /\ \A r \in Procs \ {q} : Packaging(r) => op[r].vid # op[q].vid
          BY <2>5, <2>6, <3>3, <4>2, PackagedId
        <5>2. ASSUME NEW r \in Procs \ {q}, Packaging(r)' PROVE op'[r].vid # op'[q].vid
          <6>1. CASE r = p
            BY <3>1, <5>1, <6>1
          <6>2. CASE r # p
            BY <2>5, <5>1, <5>2, <6>2
          <6> QED BY <6>1, <6>2
        <5> QED BY <2>1, <5>1, <5>2
      <4> QED BY <4>1, <4>2
    <3> QED BY <3>2, <3>3
  <2> QED BY <2>4, <2>6 DEF PackagingInv
<1>2. CASE ClearReleaseDir(p)
  BY <1>2, PackagingGoesOn DEF ClearReleaseDir, Packaging, Contents
<1>3. CASE CopyDist(p)
  BY <1>3, PackagingGoesOn DEF CopyDist, Packaging, Contents
<1>4. CASE CopyDependencies(p)
  BY <1>4, PackagingGoesOn DEF CopyDependencies, Packaging, Contents
<1>5. ASSUME NEW v \in Versions, NEW stable \in BOOLEAN, NEW keep \in RetainOptions,
             StartPublish(p, v, stable, keep)
      PROVE  PackagingInv'
  BY <1>5, <1>u DEF StartPublish
<1>6. CASE BeginPublish(p)
  BY <1>6, <1>u DEF BeginPublish, Snapshot
<1>7. ASSUME NEW v \in Versions \cup {NoVersion}, BeginSetStable(p, v) PROVE PackagingInv'
  BY <1>7, <1>u DEF BeginSetStable
<1>8. CASE BeginRollback(p)
  BY <1>8, <1>u DEF BeginRollback
<1>9. ASSUME NEW keep \in RetainOptions, BeginGc(p, keep) PROVE PackagingInv'
  BY <1>9, <1>u DEF BeginGc
<1>o. op = [op EXCEPT ![p] = op[p]]
  BY DEF TypeOK
<1>10. CASE SwapLink(p)
  BY <1>10, <1>u, <1>o DEF SwapLink
<1>11. CASE WriteState(p)
  BY <1>11, <1>u DEF WriteState
<1>12. CASE Collect(p)
  BY <1>12, <1>u DEF Collect
<1>13. CASE RemoveRelease(p)
  BY <1>13, <1>r DEF RemoveRelease
<1>14. CASE Audit(p) \/ RestoreLink(p)
  BY <1>14, <1>u DEF Audit, RestoreLink
<1>15. CASE FailUnchanged(p) \/ FailHalfway(p) \/ FailRestore(p)
  BY <1>15, <1>u DEF FailUnchanged, FailHalfway, FailRestore
<1>16. CASE FailWrite(p)
  BY <1>16, <1>u, <1>o DEF FailWrite
<1>17. CASE FailRemove(p)
  BY <1>17, <1>r DEF FailRemove
<1>18. CASE Crash(p)
  <2>1. CASE UNCHANGED release
    BY <1>18, <1>u, <2>1 DEF Crash
  <2>2. CASE release' # release
    BY <1>18, <1>r, <2>2 DEF Crash
  <2> QED BY <2>1, <2>2
<1> QED
  BY <1>1, <1>2, <1>3, <1>4, <1>5, <1>6, <1>7, <1>8, <1>9, <1>10, <1>11, <1>12, <1>13,
     <1>14, <1>15, <1>16, <1>17, <1>18, Zenon
  DEF Package, Begin, Proceed, Fail

(* Any number of overlapping commands, whatever fails or is killed, and    *)
(* however many read the clock in one second: a complete release loses     *)
(* files only to retention, or to one of two commands that were given its  *)
(* id while the other packaged.                                            *)
THEOREM OnlySharedIdsRewrite == Spec => OnlyTwinsRewrite
<1>1. TypeOK /\ PackagingInv /\ [Next]_vars => [TwinsRewrite]_release
  <2> SUFFICES ASSUME TypeOK, PackagingInv, [Next]_vars, release' # release,
                      NEW v \in Versions, release[v] = "whole", release'[v] # "whole"
               PROVE  \E q \in Procs : Rewrites(q, v)
    BY DEF TwinsRewrite
  <2>1. PICK p \in Procs : Package(p) \/ Begin(p) \/ Proceed(p) \/ Fail(p)
    BY DEF Next, vars
  <2> USE DEF store, budget
  <2>2. CASE Package(p)
    <3>1. ClearReleaseDir(p) \/ CopyDist(p) \/ CopyDependencies(p)
      BY <2>2 DEF Package, AllocateId
    <3>2. Packaging(p) /\ \E made : release' = [release EXCEPT ![op[p].vid] = made]
      BY <3>1 DEF ClearReleaseDir, CopyDist, CopyDependencies, Packaging
    <3>3. op[p].vid = v
      BY <3>2 DEF TypeOK
    <3>4. op[p].twin
      BY <3>2, <3>3, PackagedId
    <3> QED BY <3>2, <3>3, <3>4 DEF Rewrites
  <2>3. ~Begin(p)
    BY DEF Begin, StartPublish, BeginPublish, BeginSetStable, BeginRollback, BeginGc
  <2>4. CASE Proceed(p) \/ Fail(p)
    <3>1. RemoveRelease(p) \/ FailRemove(p) \/ Crash(p)
      BY <2>4
      DEF Proceed, Fail, SwapLink, WriteState, Collect, Audit, RestoreLink, FailUnchanged,
          FailHalfway, FailWrite, FailRestore
    <3>2. /\ pc[p] = "remove"
          /\ \E left : release' = [release EXCEPT ![Newest(op[p].doomed)] = left]
      BY <3>1 DEF RemoveRelease, FailRemove, Crash
    <3>3. v = Newest(op[p].doomed)
      BY <3>2 DEF TypeOK
    <3> QED BY <3>2, <3>3 DEF Rewrites
  <2> QED BY <2>1, <2>2, <2>3, <2>4
<1>2. TypeOK /\ PackagingInv /\ [Next]_vars => PackagingInv'
  BY PackagingNext
<1> QED
  BY PackagingInit, TypeCorrect, <1>1, <1>2, PTL DEF Spec, OnlyTwinsRewrite

-----------------------------------------------------------------------------
(* What retention deletes first.                                           *)

(* The walk of cleanupGatewayReleases marks nothing before it has kept as  *)
(* many newer releases as the record asks for.                             *)
LEMMA WalkKeepsEnough ==
  ASSUME NEW s, s.keep \in Nat, NEW listed \in SUBSET Versions,
         NEW v \in Doomed(s, listed)
  PROVE  Cardinality({u \in (listed \ Protected(s)) \ Doomed(s, listed) : u > v}) >= s.keep
<1> DEFINE candidates == listed \ Protected(s)
<1> DEFINE doomed == Doomed(s, listed)
<1> DEFINE d == Newest(doomed)
<1> DEFINE from == {u \in candidates : u >= d}
<1> DEFINE newer == {u \in candidates : u > d}
<1>1. doomed \subseteq candidates /\ candidates \subseteq Versions
  BY DEF Doomed
<1>2. d \in doomed /\ \A u \in doomed : u <= d
  <2>1. doomed \in SUBSET Versions /\ doomed # {}
    BY <1>1
  <2> HIDE DEF doomed
  <2> QED BY <2>1, NewestExists
<1>3. Cardinality(from) > s.keep
  BY <1>2 DEF Doomed
<1>4. IsFiniteSet(Versions)
  BY BoundsAreNaturals, FS_Interval DEF Versions
<1>5. IsFiniteSet(from) /\ d \in from
  <2>1. d \in candidates /\ d \in Nat
    BY <1>1, <1>2 DEF Versions
  <2>2. from \subseteq Versions
    BY <1>1
  <2> QED BY <1>4, <2>1, <2>2, FS_Subset
<1>6. newer = from \ {d}
  BY <1>1, <1>2 DEF Versions
<1>7. IsFiniteSet(newer) /\ Cardinality(newer) = Cardinality(from) - 1 /\ Cardinality(from) \in Nat
  <2> HIDE DEF from, newer, d
  <2> QED BY <1>5, <1>6, FS_RemoveElement, FS_CardinalityType
<1>8. newer \subseteq {u \in candidates \ doomed : u > v}
  <2> SUFFICES ASSUME NEW u \in newer PROVE u \notin doomed /\ u > v
    OBVIOUS
  <2>1. u \in Nat /\ d \in Nat /\ v \in Nat
    BY <1>1, <1>2 DEF Versions
  <2>2. u > d /\ v <= d
    BY <1>2
  <2> HIDE DEF doomed, d
  <2> QED BY <1>2, <2>1, <2>2
<1>9. Cardinality(newer) <= Cardinality({u \in candidates \ doomed : u > v})
  <2>1. IsFiniteSet({u \in candidates \ doomed : u > v})
    <3>1. {u \in candidates \ doomed : u > v} \subseteq Versions
      BY <1>1
    <3> QED BY <1>4, <3>1, FS_Subset
  <2> HIDE DEF newer, candidates, doomed
  <2> QED BY <1>8, <2>1, FS_Subset
<1>10. Cardinality({u \in candidates \ doomed : u > v}) \in Nat
  <2>1. {u \in candidates \ doomed : u > v} \subseteq Versions
    BY <1>1
  <2>2. IsFiniteSet({u \in candidates \ doomed : u > v})
    BY <1>4, <2>1, FS_Subset
  <2> QED BY <2>2, FS_CardinalityType
<1> HIDE DEF newer, from
<1> QED BY <1>3, <1>7, <1>9, <1>10

LEMMA KeepIsNumber ==
  ASSUME NEW s \in StateRecord
  PROVE  s.keep \in Nat
<1>1. s.keep = 1 \/ s.keep \in Retains
  BY DEF StateRecord
<1>2. Retains \subseteq Nat
  BY RetainsArePositive
<1>3. 1 \in Nat
  OBVIOUS
<1> QED BY <1>1, <1>2, <1>3, Zenon

LEMMA RetentionInit == Init => RetentionInv
BY DEF Init, RetentionInv

LEMMA RetentionNext ==
  ASSUME NEW p, Procs = {p}, TypeOK, SerialInv, RetentionInv, [Next]_vars
  PROVE  RetentionInv'
<1>0. CASE UNCHANGED vars
  BY <1>0 DEF vars, RetentionInv, Unmarked, Listed
<1> SUFFICES ASSUME Package(p) \/ Begin(p) \/ Proceed(p) \/ Fail(p), pc'[p] = "remove",
                    NEW v \in op'[p].doomed
             PROVE  Cardinality({u \in Unmarked(p)' : u > v}) >= state'.keep
  BY <1>0 DEF Next, RetentionInv
<1>t. /\ p \in Procs /\ op[p] \in OpRecord /\ state \in StateRecord
      /\ release \in [Versions -> Contents] /\ pc \in [Procs -> Locations]
      /\ op \in [Procs -> OpRecord]
  BY DEF TypeOK
<1>k. state.keep \in Nat
  BY <1>t, KeepIsNumber
<1> USE DEF store
<1>1. Collect(p) \/ RemoveRelease(p)
  <2>1. ~Package(p)
    BY <1>t DEF Package, AllocateId, ClearReleaseDir, CopyDist, CopyDependencies, Goto
  <2>2. ~Begin(p)
    BY <1>t DEF Begin, StartPublish, BeginPublish, BeginSetStable, BeginRollback, BeginGc,
                Snapshot, Finish, Goto
  <2>3. ~Fail(p)
    BY <1>t DEF Fail, FailUnchanged, FailHalfway, FailWrite, FailRestore, FailRemove, Crash,
                Finish, Goto
  <2>4. ~(SwapLink(p) \/ WriteState(p) \/ Audit(p) \/ RestoreLink(p))
    BY <1>t DEF SwapLink, WriteState, Audit, RestoreLink, Finish, Goto
  <2> QED BY <2>1, <2>2, <2>3, <2>4 DEF Proceed
<1>2. CASE Collect(p)
  <2>1. IF op[p].kind = "gc" /\ op[p].keep # NoKeep THEN op[p].next = state ELSE TRUE
    BY <1>2 DEF Collect, SerialInv, OperationInv
  <2>2. op'[p].doomed = Doomed(state, Listed)
    BY <1>2, <1>t, <2>1 DEF Collect, NoOp
  <2>3. UNCHANGED <<release, state>>
    BY <1>2 DEF Collect
  <2>4. Unmarked(p)' = (Listed \ Protected(state)) \ Doomed(state, Listed)
    BY <2>2, <2>3 DEF Unmarked, Listed, Protected
  <2>5. Listed \in SUBSET Versions
    BY DEF Listed
  <2> QED BY <1>k, <2>2, <2>3, <2>4, <2>5, WalkKeepsEnough
<1>3. CASE RemoveRelease(p)
  <2> DEFINE w == Newest(op[p].doomed)
  <2>1. /\ pc[p] = "remove" /\ op'[p].doomed = op[p].doomed \ {w} /\ UNCHANGED state
        /\ release' = [release EXCEPT ![w] = "absent"]
    BY <1>3, <1>t DEF RemoveRelease
  <2>2. w \in op[p].doomed
    <3>1. op[p].doomed \in SUBSET Versions /\ op[p].doomed # {}
      BY <1>t, <2>1 DEF SerialInv, OperationInv, OpRecord
    <3> QED BY <3>1, NewestExists
  <2>3. Listed' = Listed \ {w}
    BY <1>t, <2>1 DEF Listed
  <2>4. Unmarked(p)' = Unmarked(p)
    BY <2>1, <2>2, <2>3 DEF Unmarked, Protected
  <2>5. v \in op[p].doomed
    BY <2>1
  <2> QED BY <1>t, <2>1, <2>4, <2>5 DEF RetentionInv
<1> QED BY <1>1, <1>2, <1>3

(* One operator: whatever fails or is killed, a release that retention     *)
(* deletes is older than as many unprotected ones as the record keeps.     *)
THEOREM SerialOldestGoFirst ==
  ASSUME NEW p, Procs = {p}
  PROVE  Spec => OldestGoFirst
<1> DEFINE Oldest ==
      \A v \in Versions :
        release[v] # "absent" /\ release'[v] = "absent" =>
          Cardinality({u \in Listed \ Protected(state) : u > v}) >= state.keep
<1>1. TypeOK /\ SerialInv /\ RetentionInv /\ [Next]_vars => [Oldest]_release
  <2> SUFFICES ASSUME TypeOK, SerialInv, RetentionInv, [Next]_vars, release' # release,
                      NEW v \in Versions, release[v] # "absent", release'[v] = "absent"
               PROVE  Cardinality({u \in Listed \ Protected(state) : u > v}) >= state.keep
    OBVIOUS
  <2>t. /\ p \in Procs /\ op[p] \in OpRecord /\ state \in StateRecord
        /\ release \in [Versions -> Contents]
    BY DEF TypeOK
  <2>1. Package(p) \/ Begin(p) \/ Proceed(p) \/ Fail(p)
    BY DEF Next, vars
  <2> USE DEF store
  <2>2. ~Package(p)
    BY <2>t DEF Package, AllocateId, ClearReleaseDir, CopyDist, CopyDependencies
  <2>3. ~Begin(p)
    BY DEF Begin, StartPublish, BeginPublish, BeginSetStable, BeginRollback, BeginGc
  <2>4. ~Fail(p)
    BY <2>t DEF Fail, FailUnchanged, FailHalfway, FailWrite, FailRestore, FailRemove, Crash,
                Leftovers, Ready
  <2>5. RemoveRelease(p)
    BY <2>1, <2>2, <2>3, <2>4
    DEF Proceed, SwapLink, WriteState, Collect, Audit, RestoreLink
  <2>6. pc[p] = "remove" /\ v = Newest(op[p].doomed)
    BY <2>t, <2>5 DEF RemoveRelease
  <2>7. v \in op[p].doomed
    <3>1. op[p].doomed \in SUBSET Versions /\ op[p].doomed # {}
      BY <2>t, <2>6 DEF SerialInv, OperationInv, OpRecord
    <3> QED BY <2>6, <3>1, NewestExists
  <2>8. Cardinality({u \in Unmarked(p) : u > v}) >= state.keep
    BY <2>t, <2>6, <2>7 DEF RetentionInv
  <2> DEFINE spared == {u \in Unmarked(p) : u > v}
  <2> DEFINE newer == {u \in Listed \ Protected(state) : u > v}
  <2>9. spared \subseteq newer /\ newer \subseteq Versions
    BY DEF Unmarked, Listed
  <2>10. IsFiniteSet(newer)
    <3>1. IsFiniteSet(Versions)
      BY BoundsAreNaturals, FS_Interval DEF Versions
    <3> HIDE DEF newer
    <3> QED BY <2>9, <3>1, FS_Subset
  <2>11. /\ Cardinality(spared) <= Cardinality(newer)
         /\ Cardinality(spared) \in Nat /\ Cardinality(newer) \in Nat
    <3> HIDE DEF spared, newer
    <3> QED BY <2>9, <2>10, FS_Subset, FS_CardinalityType
  <2>12. state.keep \in Nat
    BY <2>t, KeepIsNumber
  <2> QED BY <2>8, <2>11, <2>12
<1>2. TypeOK /\ SerialInv /\ [Next]_vars => SerialInv'
  BY SerialNext
<1>3. TypeOK /\ SerialInv /\ RetentionInv /\ [Next]_vars => RetentionInv'
  BY RetentionNext
<1> QED
  BY SerialInit, RetentionInit, TypeCorrect, <1>1, <1>2, <1>3, PTL DEF Spec, OldestGoFirst
=============================================================================
