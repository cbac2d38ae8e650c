--------------------------- MODULE GatewayVersions ---------------------------
(***************************************************************************)
(* The gateway release store under <projectsRoot>/gateway/runtime:         *)
(* state.json, the directories releases/<id> and the symlink `current`.    *)
(*                                                                         *)
(* A process is one run of `understand-anyway gateway publish | set-stable *)
(* | rollback | gc`.  Each file-system call that another process, a        *)
(* failure or a crash can separate from the next one is a step of its own. *)
(* No lock of any kind is taken, so processes interleave freely; with one  *)
(* process the model is the store as a single operator sees it.            *)
(*                                                                         *)
(* Version ids are creation timestamps that the code orders as text: here  *)
(* they are numbers, in the same order.                                    *)
(***************************************************************************)
EXTENDS Naturals, FiniteSets

CONSTANTS Procs,        \* CLI invocations that may be running at once
          MaxId,        \* bound: the ids that are ever created are 1..MaxId
          Retains,      \* the values that are passed with --retain
          SameSecond,   \* two packagings may read the clock in one second
          MaxFaults,    \* bound: failing file-system calls in a behaviour
          MaxCrashes    \* bound: processes killed in a behaviour

ASSUME ProcsNotEmpty == Procs # {}
ASSUME RetainsArePositive == Retains \subseteq Nat \ {0}
ASSUME BoundsAreNaturals ==
  /\ MaxId \in Nat \ {0}
  /\ MaxFaults \in Nat
  /\ MaxCrashes \in Nat
ASSUME SameSecondIsBoolean == SameSecond \in BOOLEAN

Versions == 1 .. MaxId
NoVersion == 0
NoKeep == 0             \* no --retain option
RetainOptions == {NoKeep} \cup Retains

(* A release directory without dist/cli.js is bare; with it, but not with  *)
(* everything else (its node_modules, its manifest), it is startable.      *)
Contents == {"absent", "bare", "startable", "whole"}

VARIABLES release,      \* release[v]: the directory releases/<v>
          state,        \* the record in state.json
          link,         \* the target of the symlink `current`
          lastId,       \* the timestamp the clock last gave out as an id
          pc,           \* where each process is
          op,           \* the in-memory values of each process
          torn,         \* a swap of `current` was neither recorded nor undone
          faults,       \* file-system calls that failed so far
          crashes       \* processes killed so far

store == <<release, state, link>>
budget == <<faults, crashes>>
vars == <<release, state, link, lastId, pc, op, torn, faults, crashes>>

-----------------------------------------------------------------------------
(* The state record and what is computed from it.                          *)

StateRecord ==
  [current : Versions \cup {NoVersion}, stable : Versions \cup {NoVersion},
   stablePending : BOOLEAN, pendingActions : SUBSET Versions, keep : {1} \cup Retains]

(* createEmptyGatewayState: what a missing state.json reads as.            *)
EmptyState ==
  [current |-> NoVersion, stable |-> NoVersion,
   stablePending |-> FALSE, pendingActions |-> {}, keep |-> 1]

(* derivePendingStableState: one set-stable reminder, for the current      *)
(* release, exactly while it is not the stable one.                        *)
DerivePending(s) ==
  LET due == s.current # NoVersion /\ s.current # s.stable
  IN  [s EXCEPT !.stablePending = due,
                !.pendingActions = IF due THEN {s.current} ELSE {}]

(* Mutation of WithKeep: a missing --retain is stored like a value.         *)
WithAnyKeep(s, keep) == [s EXCEPT !.keep = keep]

WithKeep(s, keep) == IF keep = NoKeep THEN s ELSE [s EXCEPT !.keep = keep]

(* The record publishGatewayVersion writes for version v.                  *)
Published(s, v, stable, keep) ==
  WithKeep(DerivePending([s EXCEPT !.current = v,
                                   !.stable = IF stable THEN v ELSE s.stable]), keep)

(* Mutation of MarkedStable: the reminder is left as it was.               *)
MarkedStableOnly(s, v) == [s EXCEPT !.stable = v]

MarkedStable(s, v) == DerivePending([s EXCEPT !.stable = v])

(* Mutation of RolledBack: the pointers change places.                     *)
PointersSwapped(s) == DerivePending([s EXCEPT !.current = s.stable, !.stable = s.current])

RolledBack(s) == DerivePending([s EXCEPT !.current = s.stable])

Protected(s) == {s.current, s.stable} \ {NoVersion}

(* isGatewayReleaseReady looks for dist/cli.js and for nothing else.       *)
Ready(v) == v # NoVersion /\ release[v] \in {"startable", "whole"}

(* listGatewayReleaseIds: every directory counts, finished or not.         *)
Listed == {v \in Versions : release[v] # "absent"}

(* Mutations of Doomed: stable is not protected; the walk starts from the  *)
(* oldest; one release too few is kept.                                    *)
DoomedStableToo(s, listed) ==
  LET candidates == listed \ {s.current}
  IN  {v \in candidates : Cardinality({u \in candidates : u >= v}) > s.keep}
DoomedNewest(s, listed) ==
  LET candidates == listed \ Protected(s)
  IN  {v \in candidates : Cardinality({u \in candidates : u <= v}) > s.keep}
DoomedOneMore(s, listed) ==
  LET candidates == listed \ Protected(s)
  IN  {v \in candidates : Cardinality({u \in candidates : u >= v}) >= s.keep}

(* cleanupGatewayReleases walks the listing from the newest id down, skips *)
(* what the record s protects, keeps the first s.keep and deletes the rest.*)
Doomed(s, listed) ==
  LET candidates == listed \ Protected(s)
  IN  {v \in candidates : Cardinality({u \in candidates : u >= v}) > s.keep}

(* previousGatewayCurrentTarget                                            *)
PreviousTarget == IF link # NoVersion THEN link ELSE state.current

-----------------------------------------------------------------------------
(* Processes.  `op` holds the local variables of the running operation:    *)
(* seen and before are the record and the link when it began, next the     *)
(* record it will write, prev the link target it restores on failure and   *)
(* doomed the releases it has yet to delete.  twin is kept for a property  *)
(* only: while this command packaged, another one was given the same id.   *)

Locations == {"idle", "clear", "copy", "deps", "begin", "swap", "write", "restore",
              "collect", "remove", "audit"}
Kinds == {"none", "publish", "set-stable", "rollback", "gc"}
SwapsLink == {"publish", "rollback"}

OpRecord ==
  [kind : Kinds, vid : Versions \cup {NoVersion}, stable : BOOLEAN,
   keep : RetainOptions, seen : StateRecord, before : Versions \cup {NoVersion},
   next : StateRecord, prev : Versions \cup {NoVersion}, doomed : SUBSET Versions,
   twin : BOOLEAN]

NoOp ==
  [kind |-> "none", vid |-> NoVersion, stable |-> FALSE, keep |-> NoKeep,
   seen |-> EmptyState, before |-> NoVersion, next |-> EmptyState,
   prev |-> NoVersion, doomed |-> {}, twin |-> FALSE]

Goto(p, l) == pc' = [pc EXCEPT ![p] = l]

(* The command ends, well or badly, and its memory is gone.                *)
Finish(p) ==
  /\ Goto(p, "idle")
  /\ op' = [op EXCEPT ![p] = NoOp]

(* The process reads state.json and the link and keeps both in memory.     *)
Snapshot(p, nextState, l) ==
  /\ op' = [op EXCEPT ![p].seen = state, ![p].before = link,
                      ![p].next = nextState, ![p].prev = PreviousTarget]
  /\ Goto(p, l)

Init ==
  /\ release = [v \in Versions |-> "absent"]
  /\ state = EmptyState
  /\ link = NoVersion
  /\ lastId = 0
  /\ pc = [p \in Procs |-> "idle"]
  /\ op = [p \in Procs |-> NoOp]
  /\ torn = FALSE
  /\ faults = 0
  /\ crashes = 0

-----------------------------------------------------------------------------
(* Packaging: `gateway publish` without a version id.                      *)

Packaging(p) == pc[p] \in {"clear", "copy", "deps"}

(* Command p packages a release under the id v; whoever packages under it  *)
(* already has a twin from now on, and p has one too.                      *)
Takes(p, v, stable, keep) ==
  LET sharing == {q \in Procs \ {p} : Packaging(q) /\ op[q].vid = v}
  IN  op' = [q \in Procs |->
               IF q = p
               THEN [NoOp EXCEPT !.kind = "publish", !.vid = v, !.stable = stable,
                                 !.keep = keep, !.twin = sharing # {}]
               ELSE IF q \in sharing THEN [op[q] EXCEPT !.twin = TRUE] ELSE op[q]]

(* createUniqueGatewayReleaseId: the id is the clock's second; it must not *)
(* exist yet.  The clock may still show the second that was given out last.*)
ClockIds == (IF SameSecond THEN {lastId, lastId + 1} ELSE {lastId + 1}) \cap Versions

(* Mutation of AllocateId: the id need not be new.                         *)
AllocateUsedId(p, stable, keep) ==
  \E v \in ClockIds :
    /\ pc[p] = "idle"
    /\ lastId' = v
    /\ Takes(p, v, stable, keep)
    /\ Goto(p, "clear")
    /\ UNCHANGED <<store, torn, budget>>

AllocateId(p, stable, keep) ==
  \E v \in ClockIds :
    /\ pc[p] = "idle"
    /\ release[v] = "absent"
    /\ lastId' = v
    /\ Takes(p, v, stable, keep)
    /\ Goto(p, "clear")
    /\ UNCHANGED <<store, torn, budget>>

(* rmSync(releaseRoot), and the first files of the copy appear             *)
ClearReleaseDir(p) ==
  /\ pc[p] = "clear"
  /\ release' = [release EXCEPT ![op[p].vid] = "bare"]
  /\ Goto(p, "copy")
  /\ UNCHANGED <<state, link, lastId, op, torn, budget>>

(* pnpm deploy or cpSync has copied dist/                                  *)
CopyDist(p) ==
  /\ pc[p] = "copy"
  /\ release' = [release EXCEPT ![op[p].vid] = "startable"]
  /\ Goto(p, "deps")
  /\ UNCHANGED <<state, link, lastId, op, torn, budget>>

(* ... and node_modules, and the manifest is written                       *)
CopyDependencies(p) ==
  /\ pc[p] = "deps"
  /\ release' = [release EXCEPT ![op[p].vid] = "whole"]
  /\ Goto(p, "begin")
  /\ UNCHANGED <<state, link, lastId, op, torn, budget>>

-----------------------------------------------------------------------------
(* The four operations.                                                    *)

(* `gateway publish <version>`                                             *)
StartPublish(p, v, stable, keep) ==
  /\ pc[p] = "idle"
  /\ op' = [op EXCEPT ![p] = [NoOp EXCEPT !.kind = "publish", !.vid = v,
                                          !.stable = stable, !.keep = keep]]
  /\ Goto(p, "begin")
  /\ UNCHANGED <<store, lastId, torn, budget>>

(* publishGatewayVersion up to the swap: refuse a release that is not      *)
(* ready, read state.json and the link, compute the next record.           *)
BeginPublish(p) ==
  /\ pc[p] = "begin"
  /\ IF Ready(op[p].vid)
     THEN Snapshot(p, Published(state, op[p].vid, op[p].stable, op[p].keep), "swap")
     ELSE Finish(p)
  /\ UNCHANGED <<store, lastId, torn, budget>>

(* setStableGatewayVersion; without an id the current release is meant     *)
BeginSetStable(p, v) ==
  LET target == IF v = NoVersion THEN state.current ELSE v
  IN  /\ pc[p] = "idle"
      /\ Ready(target)
      /\ op' = [op EXCEPT ![p] = [NoOp EXCEPT !.kind = "set-stable", !.vid = target,
                                    !.seen = state, !.before = link,
                                    !.next = MarkedStable(state, target)]]
      /\ Goto(p, "write")
      /\ UNCHANGED <<store, lastId, torn, budget>>

(* rollbackGatewayToStable                                                 *)
BeginRollback(p) ==
  /\ pc[p] = "idle"
  /\ Ready(state.stable)
  /\ op' = [op EXCEPT ![p] = [NoOp EXCEPT !.kind = "rollback", !.vid = state.stable,
                                !.seen = state, !.before = link,
                                !.next = RolledBack(state), !.prev = PreviousTarget]]
  /\ Goto(p, "swap")
  /\ UNCHANGED <<store, lastId, torn, budget>>

(* `gateway gc`: with --retain the record is rewritten first               *)
BeginGc(p, keep) ==
  /\ pc[p] = "idle"
  /\ op' = [op EXCEPT ![p] = [NoOp EXCEPT !.kind = "gc", !.keep = keep,
                                !.seen = state, !.before = link,
                                !.next = WithKeep(state, keep)]]
  /\ Goto(p, IF keep = NoKeep THEN "collect" ELSE "write")
  /\ UNCHANGED <<store, lastId, torn, budget>>

(* pointGatewayCurrent: a new symlink renamed over `current`               *)
SwapLink(p) ==
  /\ pc[p] = "swap"
  /\ link' = op[p].vid
  /\ Goto(p, "write")
  /\ UNCHANGED <<release, state, lastId, op, torn, budget>>

(* writeGatewayState: a temporary file renamed over state.json.  set-stable*)
(* deletes nothing; the other operations go on to the retention.           *)
WriteState(p) ==
  /\ pc[p] = "write"
  /\ state' = op[p].next
  /\ op' = [op EXCEPT ![p] = IF @.kind = "gc" THEN @ ELSE NoOp]
  /\ torn' = (torn /\ op[p].kind \notin SwapsLink)
  /\ Goto(p, IF op[p].kind = "set-stable" THEN "audit" ELSE "collect")
  /\ UNCHANGED <<release, link, lastId, budget>>

(* cleanupGatewayReleases: state.json is read again, except by a gc        *)
(* --retain, which goes on with the record it has just written.            *)
Collect(p) ==
  LET record == IF op[p].kind = "gc" /\ op[p].keep # NoKeep THEN op[p].next ELSE state
      doomed == Doomed(record, Listed)
  IN  /\ pc[p] = "collect"
      /\ op' = [op EXCEPT ![p] = [NoOp EXCEPT !.doomed = doomed]]
      /\ Goto(p, IF doomed = {} THEN "audit" ELSE "remove")
      /\ UNCHANGED <<store, lastId, torn, budget>>

Newest(vs) == CHOOSE v \in vs : \A u \in vs : u <= v

(* rmSync of the next release of the walk                                  *)
RemoveRelease(p) ==
  LET v == Newest(op[p].doomed)
  IN  /\ pc[p] = "remove"
      /\ release' = [release EXCEPT ![v] = "absent"]
      /\ op' = [op EXCEPT ![p].doomed = @ \ {v}]
      /\ Goto(p, IF op[p].doomed = {v} THEN "audit" ELSE "remove")
      /\ UNCHANGED <<state, link, lastId, torn, budget>>

(* The audit lines are appended and the command reports success.           *)
Audit(p) ==
  /\ pc[p] = "audit"
  /\ Finish(p)
  /\ UNCHANGED <<store, lastId, torn, budget>>

-----------------------------------------------------------------------------
(* Failures: a file-system call throws.                                    *)

Fault == faults < MaxFaults /\ faults' = faults + 1 /\ UNCHANGED crashes

(* Nothing was changed yet that would have to be undone.                   *)
FailUnchanged(p) ==
  /\ Fault
  /\ \/ pc[p] = "swap"
     \/ pc[p] = "write" /\ op[p].kind \notin SwapsLink
  /\ Finish(p)
  /\ UNCHANGED <<store, lastId, torn>>

(* Packaging, the retention or the audit throws: the command fails, and    *)
(* what it changed so far stays.                                           *)
FailHalfway(p) ==
  /\ Fault
  /\ pc[p] \in {"clear", "copy", "deps", "collect", "audit"}
  /\ Finish(p)
  /\ UNCHANGED <<store, lastId, torn>>

(* The record could not be written after the link was swapped.             *)
FailWrite(p) ==
  /\ Fault
  /\ pc[p] = "write"
  /\ op[p].kind \in SwapsLink
  /\ Goto(p, "restore")
  /\ UNCHANGED <<store, lastId, op, torn>>

(* Mutation of RestoreLink: the link is removed, whatever it was.          *)
RemoveLink(p) ==
  /\ pc[p] = "restore"
  /\ link' = NoVersion
  /\ Finish(p)
  /\ UNCHANGED <<release, state, lastId, torn, budget>>

(* restoreGatewayCurrentTarget; with no previous target the link goes away *)
RestoreLink(p) ==
  /\ pc[p] = "restore"
  /\ link' = op[p].prev
  /\ Finish(p)
  /\ UNCHANGED <<release, state, lastId, torn, budget>>

FailRestore(p) ==
  /\ Fault
  /\ pc[p] = "restore"
  /\ torn' = TRUE
  /\ Finish(p)
  /\ UNCHANGED <<store, lastId>>

(* What an interrupted rmSync can leave of release v.                      *)
Leftovers(v) ==
  IF Ready(v) THEN {"bare", "startable", release[v]} ELSE {release[v]}

(* rmSync throws, possibly with part of the directory gone.                *)
FailRemove(p) ==
  /\ Fault
  /\ pc[p] = "remove"
  /\ \E left \in Leftovers(Newest(op[p].doomed)) :
       release' = [release EXCEPT ![Newest(op[p].doomed)] = left]
  /\ Finish(p)
  /\ UNCHANGED <<state, link, lastId, torn>>

(* The process is killed.  Its memory is gone; a removal may be half done. *)
Crash(p) ==
  /\ crashes < MaxCrashes
  /\ crashes' = crashes + 1
  /\ pc[p] # "idle"
  /\ \/ UNCHANGED release
     \/ /\ pc[p] = "remove"
        /\ \E left \in Leftovers(Newest(op[p].doomed)) :
             release' = [release EXCEPT ![Newest(op[p].doomed)] = left]
  /\ torn' = (torn \/ (pc[p] \in {"write", "restore"} /\ op[p].kind \in SwapsLink))
  /\ Finish(p)
  /\ UNCHANGED <<state, link, lastId, faults>>

-----------------------------------------------------------------------------
Package(p) ==
  \/ \E stable \in BOOLEAN, keep \in RetainOptions : AllocateId(p, stable, keep)
  \/ ClearReleaseDir(p)
  \/ CopyDist(p)
  \/ CopyDependencies(p)

Begin(p) ==
  \/ \E v \in Versions, stable \in BOOLEAN, keep \in RetainOptions :
       StartPublish(p, v, stable, keep)
  \/ BeginPublish(p)
  \/ \E v \in Versions \cup {NoVersion} : BeginSetStable(p, v)
  \/ BeginRollback(p)
  \/ \E keep \in RetainOptions : BeginGc(p, keep)

Proceed(p) ==
  SwapLink(p) \/ WriteState(p) \/ Collect(p) \/ RemoveRelease(p) \/ Audit(p) \/ RestoreLink(p)

Fail(p) ==
  \/ FailUnchanged(p) \/ FailHalfway(p) \/ FailWrite(p) \/ FailRestore(p)
  \/ FailRemove(p) \/ Crash(p)

Next == \E p \in Procs : Package(p) \/ Begin(p) \/ Proceed(p) \/ Fail(p)

Spec == Init /\ [][Next]_vars

-----------------------------------------------------------------------------
(* Properties.                                                             *)

(* Every variable keeps its type; in particular state.json always holds a  *)
(* whole record (writeJsonAtomic).                                         *)
TypeOK ==
  /\ release \in [Versions -> Contents]
  /\ state \in StateRecord
  /\ link \in Versions \cup {NoVersion}
  /\ lastId \in 0 .. MaxId
  /\ pc \in [Procs -> Locations]
  /\ op \in [Procs -> OpRecord]
  /\ torn \in BOOLEAN
  /\ faults \in 0 .. MaxFaults
  /\ crashes \in 0 .. MaxCrashes

Quiet == \A p \in Procs : pc[p] = "idle"

(* "GC must protect current + stable": the releases that state.json names  *)
(* always have their entry point, whatever publish, set-stable, rollback   *)
(* and gc did before, and wherever they failed or were killed.             *)
ProtectedReady == \A v \in Protected(state) : Ready(v)

(* What "immutable release: dist/ + manifest.json" makes of them: nothing  *)
(* of a release that is served or held for a rollback is missing.          *)
ProtectedWhole == \A v \in Protected(state) : release[v] = "whole"

(* The symlink the gateway is started from never dangles, unless a swap    *)
(* was left half done.                                                     *)
LinkReady == torn \/ link = NoVersion \/ Ready(link)

(* The same without the exception: what docs/deployment.md promises of the *)
(* release `current` points to.                                            *)
LinkNeverDangles == link = NoVersion \/ Ready(link)

(* Between operations the symlink and state.json name the same release,    *)
(* also after failed operations and after a later publish or rollback      *)
(* repaired a half-done swap.                                              *)
PointersAgree == Quiet => torn \/ link = state.current

(* An operation that fails before its record is written leaves the link    *)
(* and state.json as it found them: a swap that was made is undone.        *)
Undone(p) ==
  /\ pc[p] \in {"swap", "write", "restore"} /\ pc'[p] = "idle"
  /\ crashes' = crashes /\ ~torn'
  => state' = op[p].seen /\ link' = op[p].before

EveryUndone == \A p \in Procs : Undone(p)

FailedOpUndone == [][EveryUndone]_vars

(* The reminder to confirm a release is in the record exactly when the     *)
(* current release is not the stable one, and it names that release.       *)
Consistent(s) ==
  LET due == s.current # NoVersion /\ s.current # s.stable
  IN  /\ s.stablePending = due
      /\ s.pendingActions = IF due THEN {s.current} ELSE {}

PendingConsistent == Consistent(state)

(* Retention deletes the oldest first: when a release directory goes, as   *)
(* many newer unprotected ones as the record asks to keep are there.       *)
OldestGoFirst ==
  [][\A v \in Versions :
       release[v] # "absent" /\ release'[v] = "absent" =>
         Cardinality({u \in Listed \ Protected(state) : u > v}) >= state.keep]_release

(* Even when operations overlap, the newest release on disk, which may be  *)
(* the one a publish is about to point to, is never collected.             *)
NewerRemains ==
  \A v \in Versions :
    release[v] # "absent" /\ release'[v] = "absent" => \E u \in Listed : u > v

NewestSurvives == [][NewerRemains]_release

(* "Gateway releases are immutable": a complete release is never rewritten *)
(* in place, not even when two operators publish at once.                  *)
ReleasesImmutable ==
  [][\A v \in Versions : release[v] = "whole" => release'[v] \in {"whole", "absent"}]_release

(* What is true of that, however commands overlap, fail and are killed: a  *)
(* complete release loses files only to retention that reached it, or to a *)
(* command that was given its id while another one packaged under it.      *)
Rewrites(p, v) ==
  \/ pc[p] = "remove" /\ v = Newest(op[p].doomed)
  \/ Packaging(p) /\ op[p].vid = v /\ op[p].twin

TwinsRewrite ==
  \A v \in Versions :
    release[v] = "whole" /\ release'[v] # "whole" => \E p \in Procs : Rewrites(p, v)

OnlyTwinsRewrite == [][TwinsRewrite]_release

(* Why overlapping operations keep the newest release and the reminder:    *)
(* each holds a record whose reminder is right, and has marked for removal *)
(* only releases that a newer directory outlives.                          *)
OverlapInv ==
  /\ PendingConsistent
  /\ \A p \in Procs :
       /\ Consistent(op[p].next)
       /\ pc[p] = "remove" => op[p].doomed # {}
       /\ \A v \in op[p].doomed : \E u \in Listed : u > v

(* Why a single operator's store is safe: an operation holds a record that *)
(* is computed from the state.json on disk and names only complete         *)
(* releases, the link is either the recorded release or the one about to   *)
(* be recorded, and what is being removed is not protected.                *)
Planned(p) ==
  \/ /\ op[p].kind = "publish"
     /\ op[p].next = Published(state, op[p].vid, op[p].stable, op[p].keep)
  \/ /\ op[p].kind = "rollback"
     /\ op[p].vid = state.stable
     /\ op[p].next = RolledBack(state)
  \/ /\ op[p].kind = "set-stable"
     /\ op[p].next = MarkedStable(state, op[p].vid)
  \/ /\ op[p].kind = "gc"
     /\ op[p].next = WithKeep(state, op[p].keep)

MidSwap(p) == pc[p] \in {"write", "restore"} /\ op[p].kind \in SwapsLink

OperationInv(p) ==
  /\ pc[p] = "clear" => release[op[p].vid] = "absent" /\ op[p].vid # NoVersion
  /\ pc[p] = "copy" => release[op[p].vid] = "bare" /\ op[p].vid # NoVersion
  /\ pc[p] = "deps" => release[op[p].vid] = "startable" /\ op[p].vid # NoVersion
  /\ pc[p] \in {"clear", "copy", "deps", "begin"} => op[p].kind = "publish"
  /\ pc[p] \in {"swap", "restore"} => op[p].kind \in SwapsLink
  /\ pc[p] \in {"swap", "write", "restore"} =>
       /\ Planned(p)
       /\ op[p].kind # "gc" => Ready(op[p].vid)
       /\ op[p].seen = state
       /\ torn \/ op[p].before = state.current
       /\ torn \/ op[p].kind \notin SwapsLink \/ op[p].prev = state.current
  /\ pc[p] = "collect" /\ op[p].kind = "gc" /\ op[p].keep # NoKeep => op[p].next = state
  /\ pc[p] = "remove" => op[p].doomed # {} /\ op[p].doomed \cap Protected(state) = {}
  /\ IF MidSwap(p) THEN link = op[p].vid ELSE torn \/ link = state.current

SerialInv == ProtectedReady /\ \A p \in Procs : OperationInv(p)

(* Why packagings without a twin rewrite nothing: each builds, under an id *)
(* that no other one has, a release that is not complete yet.              *)
PackagingInv ==
  /\ \A v \in Versions : v > lastId => release[v] = "absent"
  /\ \A p \in Procs : Packaging(p) =>
       /\ op[p].vid \in 1 .. lastId
       /\ ~op[p].twin => /\ release[op[p].vid] # "whole"
                         /\ \A q \in Procs \ {p} : Packaging(q) => op[q].vid # op[p].vid

(* Why retention spares the newest: of the releases that it may delete and *)
(* did not mark, as many as the record asks to keep are newer than any mark.*)
Unmarked(p) == (Listed \ Protected(state)) \ op[p].doomed

RetentionInv ==
  \A p \in Procs : pc[p] = "remove" =>
    \A v \in op[p].doomed : Cardinality({u \in Unmarked(p) : u > v}) >= state.keep

(* A single operator's store implements the abstract one.                  *)
Abstract == INSTANCE ReleasePointers WITH
  releases <- {v \in Versions : Ready(v)},
  current <- state.current,
  stable <- state.stable

ImplementsReleasePointers == Abstract!Spec
=============================================================================
