--------------------------- MODULE ProjectVersions ---------------------------
(***************************************************************************)
(* The versioned state of one project under its state root:                *)
(* versioned-state.json, the directories versions/<id> and                 *)
(* source-mirror/<id>, the symlinks `current` and `stable`, and the        *)
(* gateway requests that read source files through them.                   *)
(*                                                                         *)
(* A process is one run of `understand-anyway project-state publish |      *)
(* set-stable | rollback | gc`; a reader is one file-content request of    *)
(* the gateway, which is another process.  Each file-system call that the  *)
(* others, a failure or a crash can separate from the next one is a step.  *)
(* The live graph in <stateRoot>/.understand-anything, which a publish     *)
(* copies and an unpublished project serves, is there all along.           *)
(***************************************************************************)
EXTENDS Naturals, FiniteSets

CONSTANTS Procs,        \* CLI invocations that may be running at once
          Readers,      \* file-content requests that may be served at once
          MaxId,        \* bound: the version ids that are used are 1..MaxId
          Retains,      \* the values that are passed with --retain
          Republish,    \* a publish may name an id that was used before
          FailServing,  \* bound: calls may fail before and while a request is served
          MaxFaults,    \* bound: failing file-system calls in a behaviour
          MaxCrashes    \* bound: processes killed in a behaviour

ASSUME RetainsArePositive == Retains \subseteq Nat \ {0}
ASSUME BoundsAreNaturals ==
  /\ MaxId \in Nat \ {0}
  /\ MaxFaults \in Nat
  /\ MaxCrashes \in Nat
ASSUME SwitchesAreBooleans == Republish \in BOOLEAN /\ FailServing \in BOOLEAN

Versions == 1 .. MaxId
NoVersion == 0
NoKeep == 0             \* no --retain option
RetainOptions == {NoKeep} \cup Retains
Links == {"current", "stable"}
Targets == Versions \cup {NoVersion}

(* A version without knowledge-graph.json is bare; with it, but not with   *)
(* everything else (its other artifacts, its dashboard), it is readable.   *)
Contents == {"absent", "bare", "readable", "whole"}
MirrorContents == {"absent", "partial", "whole"}

VARIABLES version,      \* version[v]: the directory versions/<v>
          mirror,       \* mirror[v]: the directory source-mirror/<v>
          state,        \* the record in versioned-state.json
          link,         \* the targets of the two symlinks
          lastId,       \* the newest id that was ever used
          pc,           \* where each process is
          op,           \* the in-memory values of each process
          torn,         \* links whose swap was neither recorded nor undone
          request,      \* the requests that are being served
          faults,       \* file-system calls that failed so far
          crashes       \* processes killed so far

dirs == <<version, mirror>>
store == <<version, mirror, state, link>>
budget == <<faults, crashes>>
vars == <<version, mirror, state, link, lastId, pc, op, torn, request, faults, crashes>>

-----------------------------------------------------------------------------
(* The state record and what is computed from it.                          *)

StateRecord == [current : Targets, stable : Targets, keep : {1} \cup Retains]

(* createEmptyProjectVersionState                                          *)
EmptyState == [current |-> NoVersion, stable |-> NoVersion, keep |-> 1]

WithKeep(s, keep) == IF keep = NoKeep THEN s ELSE [s EXCEPT !.keep = keep]

(* The record seedProjectVersion writes for version v.                     *)
Published(s, v, stable, keep) ==
  WithKeep([s EXCEPT !.current = v, !.stable = IF stable THEN v ELSE @], keep)

MarkedStable(s, v) == [s EXCEPT !.stable = v]

(* Mutation of RolledBack: the pointers change places.                     *)
PointersSwapped(s) == [s EXCEPT !.current = s.stable, !.stable = s.current]

RolledBack(s) == [s EXCEPT !.current = s.stable]

Protected(s) == {s.current, s.stable} \ {NoVersion}

(* isProjectVersionReady looks for knowledge-graph.json only.              *)
Ready(v) == v # NoVersion /\ version[v] \in {"readable", "whole"}

(* listProjectVersionIds: every directory counts, finished or not.         *)
Listed == {v \in Versions : version[v] # "absent"}

(* Mutations of Doomed: stable, or current, is not protected.              *)
DoomedStableToo(s) ==
  LET candidates == Listed \ {s.current}
  IN  {v \in candidates : Cardinality({u \in candidates : u >= v}) > s.keep}
DoomedCurrentToo(s) ==
  LET candidates == Listed \ {s.stable}
  IN  {v \in candidates : Cardinality({u \in candidates : u >= v}) > s.keep}

(* cleanupProjectVersions walks the listing from the newest id down, skips *)
(* what the record s protects, keeps the first s.keep and deletes the rest.*)
Doomed(s) ==
  LET candidates == Listed \ Protected(s)
  IN  {v \in candidates : Cardinality({u \in candidates : u >= v}) > s.keep}

(* previousVersionLinkTarget, of each of the two links                     *)
PreviousTargets ==
  [l \in Links |-> IF link[l] # NoVersion THEN link[l]
                   ELSE IF l = "current" THEN state.current ELSE state.stable]

-----------------------------------------------------------------------------
(* Processes.  seen and before are the record and the links when the       *)
(* operation read them, next the record it will write, prev the targets it *)
(* restores on failure, swapped the links it has moved, and doomed the     *)
(* versions it has yet to delete.                                          *)

Locations == {"idle", "clear", "copy", "rest", "clearMirror", "copyMirror", "begin",
              "current", "stable", "write", "restore", "collect", "remove",
              "removeMirror", "audit"}
Kinds == {"none", "publish", "set-stable", "rollback", "gc"}

OpRecord ==
  [kind : Kinds, vid : Targets, stable : BOOLEAN, mirrored : BOOLEAN,
   keep : RetainOptions, seen : StateRecord, before : [Links -> Targets],
   next : StateRecord, prev : [Links -> Targets], swapped : SUBSET Links,
   doomed : SUBSET Versions]

NoLinks == [l \in Links |-> NoVersion]

NoOp ==
  [kind |-> "none", vid |-> NoVersion, stable |-> FALSE, mirrored |-> FALSE,
   keep |-> NoKeep, seen |-> EmptyState, before |-> NoLinks, next |-> EmptyState,
   prev |-> NoLinks, swapped |-> {}, doomed |-> {}]

(* What an operation remembers of the store when it has read it.           *)
Planned(kind, v, next) ==
  [NoOp EXCEPT !.kind = kind, !.vid = v, !.seen = state, !.before = link,
               !.next = next, !.prev = PreviousTargets]

(* A file-content request: the graph file it found, the root it takes the  *)
(* content from (a mirror, or the live source when NoVersion), the version *)
(* whose graph it read, and its answer.                                    *)
Request ==
  [at : {"idle", "resolve", "graph", "content", "done"}, versioned : BOOLEAN,
   content : Targets, graph : Targets, answer : {"none", "served", "noGraph", "noFile"}]

NoRequest ==
  [at |-> "idle", versioned |-> FALSE, content |-> NoVersion, graph |-> NoVersion,
   answer |-> "none"]

Goto(p, l) == pc' = [pc EXCEPT ![p] = l]

(* The command ends, well or badly, and its memory is gone.                *)
Finish(p) ==
  /\ Goto(p, "idle")
  /\ op' = [op EXCEPT ![p] = NoOp]

Init ==
  /\ version = [v \in Versions |-> "absent"]
  /\ mirror = [v \in Versions |-> "absent"]
  /\ state = EmptyState
  /\ link = NoLinks
  /\ lastId = 0
  /\ pc = [p \in Procs |-> "idle"]
  /\ op = [p \in Procs |-> NoOp]
  /\ torn = {}
  /\ request = [r \in Readers |-> NoRequest]
  /\ faults = 0
  /\ crashes = 0

-----------------------------------------------------------------------------
(* `project-state publish <id>`: seedProjectVersion copies first ...       *)

(* Ids are normally fresh timestamps, but the operator may repeat one.     *)
UsableIds == IF Republish THEN 1 .. (lastId + 1) ELSE {lastId + 1}

StartPublish(p, stable, mirrored, keep) ==
  \E v \in UsableIds \cap Versions :
    /\ pc[p] = "idle"
    /\ lastId' = IF v > lastId THEN v ELSE lastId
    /\ op' = [op EXCEPT ![p] = [NoOp EXCEPT !.kind = "publish", !.vid = v, !.keep = keep,
                                            !.stable = stable, !.mirrored = mirrored]]
    /\ Goto(p, "clear")
    /\ UNCHANGED <<store, torn, request, budget>>

(* replaceDir(.understand-anything): the old copy goes, the first files of *)
(* the new one appear                                                      *)
ClearGraph(p) ==
  /\ pc[p] = "clear"
  /\ version' = [version EXCEPT ![op[p].vid] = "bare"]
  /\ Goto(p, "copy")
  /\ UNCHANGED <<mirror, state, link, lastId, op, torn, request, budget>>

CopyGraph(p) ==
  /\ pc[p] = "copy"
  /\ version' = [version EXCEPT ![op[p].vid] = "readable"]
  /\ Goto(p, "rest")
  /\ UNCHANGED <<mirror, state, link, lastId, op, torn, request, budget>>

(* The rest of the artifacts and dashboard-dist; with --source-root the    *)
(* mirror is next.                                                         *)
CopyRest(p) ==
  /\ pc[p] = "rest"
  /\ version' = [version EXCEPT ![op[p].vid] = "whole"]
  /\ Goto(p, IF op[p].mirrored THEN "clearMirror" ELSE "begin")
  /\ UNCHANGED <<mirror, state, link, lastId, op, torn, request, budget>>

ClearMirror(p) ==
  /\ pc[p] = "clearMirror"
  /\ mirror' = [mirror EXCEPT ![op[p].vid] = "partial"]
  /\ Goto(p, "copyMirror")
  /\ UNCHANGED <<version, state, link, lastId, op, torn, request, budget>>

CopyMirror(p) ==
  /\ pc[p] = "copyMirror"
  /\ mirror' = [mirror EXCEPT ![op[p].vid] = "whole"]
  /\ Goto(p, "begin")
  /\ UNCHANGED <<version, state, link, lastId, op, torn, request, budget>>

(* ... and then reads the record and the links and computes the next       *)
(* record.                                                                 *)
BeginPublish(p) ==
  /\ pc[p] = "begin"
  /\ op' = [op EXCEPT ![p].seen = state, ![p].before = link, ![p].prev = PreviousTargets,
                      ![p].next = Published(state, op[p].vid, op[p].stable, op[p].keep)]
  /\ Goto(p, "current")
  /\ UNCHANGED <<store, lastId, torn, request, budget>>

-----------------------------------------------------------------------------
(* The other operations begin.                                             *)

(* setStableProjectVersion; without an id the current version is meant     *)
BeginSetStable(p, v) ==
  LET target == IF v = NoVersion THEN state.current ELSE v
  IN  /\ pc[p] = "idle"
      /\ Ready(target)
      /\ op' = [op EXCEPT ![p] = Planned("set-stable", target, MarkedStable(state, target))]
      /\ Goto(p, "stable")
      /\ UNCHANGED <<store, lastId, torn, request, budget>>

(* rollbackProjectToStable                                                 *)
BeginRollback(p) ==
  /\ pc[p] = "idle"
  /\ Ready(state.stable)
  /\ op' = [op EXCEPT ![p] = Planned("rollback", state.stable, RolledBack(state))]
  /\ Goto(p, "current")
  /\ UNCHANGED <<store, lastId, torn, request, budget>>

(* `project-state gc`: with --retain the record is rewritten first         *)
BeginGc(p, keep) ==
  /\ pc[p] = "idle"
  /\ op' = [op EXCEPT ![p] = [NoOp EXCEPT !.kind = "gc", !.keep = keep, !.seen = state,
                                          !.before = link, !.next = WithKeep(state, keep)]]
  /\ Goto(p, IF keep = NoKeep THEN "collect" ELSE "write")
  /\ UNCHANGED <<store, lastId, torn, request, budget>>

-----------------------------------------------------------------------------
(* The links are moved, the record is written, old versions are deleted.   *)

(* pointLink, of one of the two links                                      *)
Point(p, l) ==
  /\ pc[p] = l
  /\ link' = [link EXCEPT ![l] = op[p].vid]
  /\ op' = [op EXCEPT ![p].swapped = @ \cup {l}]
  /\ UNCHANGED <<dirs, state, lastId, torn, request, budget>>

PointCurrent(p) ==
  /\ Point(p, "current")
  /\ Goto(p, IF op[p].kind = "publish" /\ op[p].stable THEN "stable" ELSE "write")

PointStable(p) ==
  /\ Point(p, "stable")
  /\ Goto(p, "write")

(* writeProjectVersionState: a temporary file renamed over the record.     *)
(* Only publish and gc go on to the retention.                             *)
WriteState(p) ==
  /\ pc[p] = "write"
  /\ state' = op[p].next
  /\ op' = [op EXCEPT ![p] = IF @.kind = "gc" THEN @ ELSE NoOp]
  /\ torn' = torn \ op[p].swapped
  /\ Goto(p, IF op[p].kind \in {"publish", "gc"} THEN "collect" ELSE "audit")
  /\ UNCHANGED <<dirs, link, lastId, request, budget>>

(* cleanupProjectVersions: the record is read again, except by a gc        *)
(* --retain, which goes on with the record it has just written.            *)
Collect(p) ==
  LET record == IF op[p].kind = "gc" /\ op[p].keep # NoKeep THEN op[p].next ELSE state
      doomed == Doomed(record)
  IN  /\ pc[p] = "collect"
      /\ op' = [op EXCEPT ![p] = [NoOp EXCEPT !.doomed = doomed]]
      /\ Goto(p, IF doomed = {} THEN "audit" ELSE "remove")
      /\ UNCHANGED <<store, lastId, torn, request, budget>>

Newest(vs) == CHOOSE v \in vs : \A u \in vs : u <= v

(* Mutation of RemoveVersion: the mirror of the version is forgotten.      *)
RemoveVersionOnly(p) ==
  LET v == Newest(op[p].doomed)
  IN  /\ pc[p] = "remove"
      /\ version' = [version EXCEPT ![v] = "absent"]
      /\ op' = [op EXCEPT ![p].doomed = @ \ {v}]
      /\ Goto(p, IF op[p].doomed = {v} THEN "audit" ELSE "remove")
      /\ UNCHANGED <<mirror, state, link, lastId, torn, request, budget>>

(* rmSync of the next version of the walk, and then of its source mirror   *)
RemoveVersion(p) ==
  /\ pc[p] = "remove"
  /\ version' = [version EXCEPT ![Newest(op[p].doomed)] = "absent"]
  /\ Goto(p, "removeMirror")
  /\ UNCHANGED <<mirror, state, link, lastId, op, torn, request, budget>>

RemoveMirror(p) ==
  LET v == Newest(op[p].doomed)
  IN  /\ pc[p] = "removeMirror"
      /\ mirror' = [mirror EXCEPT ![v] = "absent"]
      /\ op' = [op EXCEPT ![p].doomed = @ \ {v}]
      /\ Goto(p, IF op[p].doomed = {v} THEN "audit" ELSE "remove")
      /\ UNCHANGED <<version, state, link, lastId, torn, request, budget>>

(* The audit lines are appended and the command reports success.           *)
Audit(p) ==
  /\ pc[p] = "audit"
  /\ Finish(p)
  /\ UNCHANGED <<store, lastId, torn, request, budget>>

-----------------------------------------------------------------------------
(* Failures: a file-system call throws.                                    *)

Unwatched == FailServing \/ \A r \in Readers : request[r].at = "idle"

Fault == Unwatched /\ faults < MaxFaults /\ faults' = faults + 1 /\ UNCHANGED crashes

(* A link or the record could not be written and no link has been moved.   *)
FailUnchanged(p) ==
  /\ Fault
  /\ pc[p] \in {"current", "stable", "write"}
  /\ op[p].swapped = {}
  /\ Finish(p)
  /\ UNCHANGED <<store, lastId, torn, request>>

(* A copy, the retention or the audit throws: the command fails, and what  *)
(* it changed so far stays.                                                *)
FailHalfway(p) ==
  /\ Fault
  /\ pc[p] \in {"clear", "copy", "rest", "clearMirror", "copyMirror", "collect", "audit"}
  /\ Finish(p)
  /\ UNCHANGED <<store, lastId, torn, request>>

(* Mutation of FailSwapped: only the link `stable` is put back.            *)
FailSwappedStable(p) ==
  /\ Fault
  /\ pc[p] \in {"stable", "write"}
  /\ op[p].swapped # {}
  /\ op' = [op EXCEPT ![p].swapped = @ \cap {"stable"}]
  /\ Goto(p, IF "stable" \in op[p].swapped THEN "restore" ELSE "idle")
  /\ UNCHANGED <<store, lastId, torn, request>>

(* `stable` or the record could not be written after a link was moved.     *)
FailSwapped(p) ==
  /\ Fault
  /\ pc[p] \in {"stable", "write"}
  /\ op[p].swapped # {}
  /\ Goto(p, "restore")
  /\ UNCHANGED <<store, lastId, op, torn, request>>

(* The moved links are put back one by one, `stable` first.  Whether one   *)
(* succeeds does not keep the next from being tried.                       *)
NextToRestore(p) == IF "stable" \in op[p].swapped THEN "stable" ELSE "current"

LeaveRestored(p, l) ==
  IF op[p].swapped = {l}
  THEN Finish(p)
  ELSE op' = [op EXCEPT ![p].swapped = @ \ {l}] /\ UNCHANGED pc

(* Mutation of Restore: a link that did not exist before is left in place. *)
RestoreKeepingNew(p) ==
  LET l == NextToRestore(p)
  IN  /\ pc[p] = "restore"
      /\ link' = IF op[p].prev[l] = NoVersion THEN link
                  ELSE [link EXCEPT ![l] = op[p].prev[l]]
      /\ LeaveRestored(p, l)
      /\ UNCHANGED <<dirs, state, lastId, torn, request, budget>>

(* restoreVersionLink; with no previous target the link goes away          *)
Restore(p) ==
  LET l == NextToRestore(p)
  IN  /\ pc[p] = "restore"
      /\ link' = [link EXCEPT ![l] = op[p].prev[l]]
      /\ LeaveRestored(p, l)
      /\ UNCHANGED <<dirs, state, lastId, torn, request, budget>>

FailRestore(p) ==
  LET l == NextToRestore(p)
  IN  /\ Fault
      /\ pc[p] = "restore"
      /\ torn' = torn \cup {l}
      /\ LeaveRestored(p, l)
      /\ UNCHANGED <<store, lastId, request>>

(* What an interrupted rmSync can leave of version v.                      *)
Leftovers(v) == IF Ready(v) THEN {"bare", "readable"} ELSE {version[v]}

(* A removal, of a version or a mirror, stops half-way.                    *)
HalfRemoved(p) ==
  LET v == Newest(op[p].doomed)
  IN  \/ pc[p] \in {"remove", "removeMirror"} /\ UNCHANGED dirs
      \/ /\ pc[p] = "remove"
         /\ \E left \in Leftovers(v) : version' = [version EXCEPT ![v] = left]
         /\ UNCHANGED mirror
      \/ /\ pc[p] = "removeMirror"
         /\ mirror[v] # "absent"
         /\ mirror' = [mirror EXCEPT ![v] = "partial"]
         /\ UNCHANGED version

FailRemove(p) ==
  /\ Fault
  /\ HalfRemoved(p)
  /\ Finish(p)
  /\ UNCHANGED <<state, link, lastId, torn, request>>

(* The process is killed: its memory is gone.                              *)
Crash(p) ==
  /\ Unwatched
  /\ crashes < MaxCrashes
  /\ crashes' = crashes + 1
  /\ pc[p] # "idle"
  /\ UNCHANGED dirs \/ HalfRemoved(p)
  /\ torn' = torn \cup op[p].swapped
  /\ Finish(p)
  /\ UNCHANGED <<state, link, lastId, request, faults>>

-----------------------------------------------------------------------------
(* The gateway serves /file-content.json (readSourceFile).                 *)

Answer(r, next) ==
  /\ request' = [request EXCEPT ![r] = next]
  /\ UNCHANGED <<store, lastId, pc, op, torn, budget>>

(* The graph is looked for through `current`, else the live one is taken.  *)
FindGraph(r) ==
  /\ FailServing \/ faults + crashes = 0
  /\ request[r].at = "idle"
  /\ Answer(r, [NoRequest EXCEPT !.at = "resolve", !.versioned = Ready(link.current)])

(* resolveVersionedSourceMirror goes by the record and not by the link.    *)
ResolveMirror(r) ==
  LET v == state.current
      mirrored == request[r].versioned /\ v # NoVersion /\ mirror[v] # "absent"
  IN  /\ request[r].at = "resolve"
      /\ Answer(r, [request[r] EXCEPT !.at = "graph",
                                      !.content = IF mirrored THEN v ELSE NoVersion])

(* The graph says which files may be shown; it is read through the link.   *)
ReadGraph(r) ==
  /\ request[r].at = "graph"
  /\ IF request[r].versioned /\ ~Ready(link.current)
     THEN Answer(r, [request[r] EXCEPT !.at = "done", !.answer = "noGraph"])
     ELSE Answer(r, [request[r] EXCEPT !.at = "content",
                       !.graph = IF request[r].versioned THEN link.current ELSE NoVersion])

(* From a half copied or half removed mirror the file may be missing.      *)
Answers(v) ==
  IF v = NoVersion \/ mirror[v] = "whole" THEN {"served"}
  ELSE IF mirror[v] = "partial" THEN {"served", "noFile"} ELSE {"noFile"}

ReadContent(r) ==
  /\ request[r].at = "content"
  /\ \E answer \in Answers(request[r].content) :
       Answer(r, [request[r] EXCEPT !.at = "done", !.answer = answer])

EndRequest(r) ==
  /\ request[r].at = "done"
  /\ Answer(r, NoRequest)

-----------------------------------------------------------------------------
Seed(p) ==
  \/ \E stable, mirrored \in BOOLEAN, keep \in RetainOptions :
       StartPublish(p, stable, mirrored, keep)
  \/ ClearGraph(p) \/ CopyGraph(p) \/ CopyRest(p)
  \/ ClearMirror(p) \/ CopyMirror(p)
  \/ BeginPublish(p)

Begin(p) ==
  \/ \E v \in Targets : BeginSetStable(p, v)
  \/ BeginRollback(p)
  \/ \E keep \in RetainOptions : BeginGc(p, keep)

Proceed(p) ==
  \/ PointCurrent(p) \/ PointStable(p) \/ WriteState(p) \/ Restore(p)
  \/ Collect(p) \/ RemoveVersion(p) \/ RemoveMirror(p) \/ Audit(p)

Fail(p) ==
  \/ FailUnchanged(p) \/ FailHalfway(p) \/ FailSwapped(p) \/ FailRestore(p)
  \/ FailRemove(p) \/ Crash(p)

Serve(r) ==
  FindGraph(r) \/ ResolveMirror(r) \/ ReadGraph(r) \/ ReadContent(r) \/ EndRequest(r)

Next ==
  \/ \E p \in Procs : Seed(p) \/ Begin(p) \/ Proceed(p) \/ Fail(p)
  \/ \E r \in Readers : Serve(r)

Spec == Init /\ [][Next]_vars

-----------------------------------------------------------------------------
(* Properties.                                                             *)

(* Every variable keeps its type; in particular versioned-state.json       *)
(* always holds a whole record (writeJsonAtomic).                          *)
TypeOK ==
  /\ version \in [Versions -> Contents]
  /\ mirror \in [Versions -> MirrorContents]
  /\ state \in StateRecord
  /\ link \in [Links -> Targets]
  /\ lastId \in 0 .. MaxId
  /\ pc \in [Procs -> Locations]
  /\ op \in [Procs -> OpRecord]
  /\ torn \subseteq Links
  /\ request \in [Readers -> Request]
  /\ faults \in 0 .. MaxFaults
  /\ crashes \in 0 .. MaxCrashes

Quiet == \A p \in Procs : pc[p] = "idle"

(* The versions that the record names as current and stable have their     *)
(* graph, whatever publish, set-stable, rollback and gc did before, and    *)
(* wherever they failed or were killed: a rollback always finds its target.*)
ProtectedReady == \A v \in Protected(state) : Ready(v)

(* Between operations each symlink names the version the record names,     *)
(* also after failed operations, unless its own swap was left half done.   *)
LinksAgree == Quiet => \A l \in Links \ torn : link[l] = state[l]

(* An operation that fails before its record is written leaves the record  *)
(* and both links as it found them, except a link whose restoration failed *)
(* too: publish --stable undoes two swaps.                                 *)
Undone(p) ==
  /\ pc[p] \in {"current", "stable", "write", "restore"} /\ pc'[p] = "idle"
  /\ crashes' = crashes
  => state' = op[p].seen /\ \A l \in Links \ torn' : link'[l] = op[p].before[l]

EveryUndone == \A p \in Procs : Undone(p)

FailedOpUndone == [][EveryUndone]_vars

(* Retention leaves no source mirror behind: between operations, and while *)
(* nothing has failed, a mirror belongs to a version that is still there.  *)
NoOrphanMirror ==
  Quiet /\ faults = 0 /\ crashes = 0 =>
    \A v \in Versions : mirror[v] # "absent" => version[v] # "absent"

(* Links, record, versions and mirrors fit together.                       *)
StoreAgrees == ProtectedReady /\ LinksAgree /\ NoOrphanMirror

(* Replacing `current` by rename leaves no moment without a version: a     *)
(* request that found the published graph can also read it, whatever is    *)
(* published, rolled back or collected between its two looks.              *)
GraphServed ==
  \A r \in Readers : request[r].answer = "noGraph" => faults + crashes > 0

(* "switch current / stable atomically": a preview shows the source of the *)
(* version whose graph allowed it.                                         *)
ServedTogether ==
  \A r \in Readers :
    request[r].answer = "served" /\ request[r].content # NoVersion =>
      request[r].graph = request[r].content

(* "an immutable project version": a complete version is never rewritten.  *)
VersionsImmutable ==
  [][\A v \in Versions : version[v] = "whole" => version'[v] \in {"whole", "absent"}]_version

(* Why a single operator's store is safe as long as every publish has an id*)
(* of its own.  The links an operation moves:                              *)
Moves(p) ==
  {l \in Links : \/ l = "current" /\ op[p].kind \in {"publish", "rollback"}
                 \/ l = "stable" /\ op[p].kind = "set-stable"
                 \/ l = "stable" /\ op[p].kind = "publish" /\ op[p].stable}

(* It holds the record on disk, and one that differs from it only in those *)
(* links; each link is the recorded one or has been moved already; what is *)
(* being copied was not there before, and what is being removed is not     *)
(* protected.                                                              *)
OperationInv(p) ==
  /\ pc[p] \in {"clear", "copy", "rest", "clearMirror", "copyMirror", "begin"} =>
       /\ op[p].kind = "publish" /\ op[p].vid \in 1 .. lastId
       /\ version[op[p].vid] = CASE pc[p] = "clear" -> "absent"
                                 [] pc[p] = "copy" -> "bare"
                                 [] pc[p] = "rest" -> "readable"
                                 [] OTHER -> "whole"
  /\ pc[p] \in {"current", "stable", "write", "restore"} =>
       /\ op[p].seen = state
       /\ Moves(p) # {} => Ready(op[p].vid)
       /\ op[p].kind = "rollback" => op[p].vid = state.stable
       /\ op[p].kind = "gc" => op[p].next = WithKeep(state, op[p].keep)
       /\ \A l \in Links :
            /\ op[p].next[l] = IF l \in Moves(p) THEN op[p].vid ELSE state[l]
            /\ l \in torn \/ op[p].before[l] = state[l]
            /\ l \in torn \/ op[p].kind = "gc" \/ op[p].prev[l] = state[l]
  /\ pc[p] = "current" => "current" \in Moves(p) /\ op[p].swapped = {}
  /\ pc[p] = "stable" => "stable" \in Moves(p) /\ op[p].swapped = Moves(p) \ {"stable"}
  /\ pc[p] = "write" => op[p].kind # "none" /\ op[p].swapped = Moves(p)
  /\ pc[p] = "restore" => op[p].swapped # {} /\ op[p].swapped \subseteq Moves(p)
  /\ pc[p] \notin {"stable", "write", "restore"} => op[p].swapped = {}
  /\ pc[p] = "collect" /\ op[p].kind = "gc" /\ op[p].keep # NoKeep => op[p].next = state
  /\ pc[p] \in {"remove", "removeMirror"} =>
       op[p].doomed # {} /\ op[p].doomed \cap Protected(state) = {}
  /\ \A l \in Links :
       IF l \in op[p].swapped THEN link[l] = op[p].vid ELSE l \in torn \/ link[l] = state[l]

(* Ids that have not been used have left no trace.                         *)
UnusedAbsent ==
  \A v \in Versions : v > lastId => version[v] = "absent" /\ mirror[v] = "absent"

(* While nothing fails, a mirror outlives its version by one step at most, *)
(* no swap is left undone, and a graph that was found stays where it is.   *)
FaultlessInv ==
  faults = 0 /\ crashes = 0 =>
    /\ \A p \in Procs, v \in Versions :
         mirror[v] # "absent" =>
           version[v] # "absent" \/ (pc[p] = "removeMirror" /\ v = Newest(op[p].doomed))
    /\ torn = {}
    /\ \A p \in Procs : pc[p] # "restore"
    /\ \A r \in Readers :
         /\ request[r].at \in {"resolve", "graph"} /\ request[r].versioned => Ready(link.current)
         /\ request[r].answer # "noGraph"

SerialInv ==
  /\ ProtectedReady
  /\ UnusedAbsent
  /\ \A p \in Procs : OperationInv(p)
  /\ FaultlessInv

(* A single operator's store implements the abstract one.                  *)
Abstract == INSTANCE ReleasePointers WITH
  releases <- {v \in Versions : Ready(v)},
  current <- state.current,
  stable <- state.stable

ImplementsReleasePointers == Abstract!Spec
=============================================================================
