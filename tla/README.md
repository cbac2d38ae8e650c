# Verification of Understand-Anyway

TLA+ specifications of Understand-Anyway: a command line tool and a gateway
that build knowledge graphs of source repositories, keep them as immutable
versions, and serve them. TLC checks the specifications on small instances;
TLAPS proves the theorems about ten of its parts, in eight modules, for all instances.

Paths below are relative to the repository.

## 1. Inventory

Understand-Anyway is one command line program (`packages/cli`), a library that
builds graphs (`packages/core`), a gateway that serves them
(`packages/gateway`), provider plugins, and shell scripts that run it all every
night. Nothing is held together by a database: the parts meet in files under a
state root per project and under one root of the gateway, and most of what can go
wrong is two parts seeing those files at different moments.

| Component | State | Operations | Hard behaviour | What makes it correct |
|---|---|---|---|---|
| Gateway release store: `packages/gateway/src/versioning/state.ts`, `packages/cli/src/gateway/index.ts` | `gateway/runtime/state.json`, `releases/<id>`, symlink `current` | package + publish, set-stable, rollback, gc, list | no lock; the link moves before the record is written; undo after a failure; kills; retention | current and stable can be started; link and record agree; a failed operation leaves no trace; retention spares what is protected and goes from the oldest |
| Project version store: `packages/gateway/src/versioning/project-state.ts` | `versions/<id>`, source mirrors, links `current` and `stable`, `versioned-state.json` | publish (seed), set-stable, rollback, gc, show | two links and a record, several copies, readers at the same time | the same, for two links; a mirror goes with its version |
| File-content requests: `packages/gateway/src/prod-data-api.ts` | none of its own | reads graph, then mirror | reads link and record at different moments | a request finds the graph it was routed to |
| Build modes: `packages/core/src/build/pipeline.ts`, `batch-graph.ts`, `graph-update.ts`, `selection.ts` | graph, meta.json, checkpoint with batches, batch artifacts | full, incremental, backfill, resume | what is reused is older than what changed; kills between phases | an incremental build and a backfill give what a full build would, for the files they are for and that can be analysed |
| Nightly update: `scripts/nightly-project-sync.sh`, `refresh-prod-server.sh`, `daily-update.sh` | nightly-latest.json, flat dashboard-dist, registry entry, shared gateway | pull, commit gate, build, build-dist, publish, review, record; build-dist, register, stop, start | commands fail one by one, the next night decides by what the last one recorded | what is skipped is covered; every commit is recorded, and comes to be served; the gateway comes back |
| Gateway daemon: `packages/cli/src/dashboard-prod/dashboard-start.ts`, `dashboard-stop.ts`, `dashboard-shared/pid-store.ts` | pid file, the detached process, its port | start, stop | two starts, stop against start, processes that die | the pid file names the daemon that serves; commands end |
| Command line and settings: `packages/cli/src/args.ts`, `build.ts`, `serve.ts`, `dashboard-prod/dashboard-start.ts`, `packages/core/src/build/llm-budget-split.ts` | none on disk | parse a line, resolve every setting from five layers, start workers and daemons with argument lists of their own | what one process resolved has to survive a second parser and a second resolution in another one | what was typed wins; children run with what their parent resolved; a budget that is split is kept |
| Projects and their registration: `packages/cli/src/projects-config.ts`, `init.ts`, `packages/gateway/src/project-registry.ts`, `scripts/lib/*.mjs`, `refresh-prod-server.sh` | projects.json, portal icons, registry.json, two lock directories | init; discover, register, prune | values read before the lock; a holder that dies; two resolutions of one path | no update is lost; tokens stay; the registry comes to agree with projects.json |
| Gateway requests: `packages/gateway/src/server.ts`, `auth-gate.ts`, `session-store.ts`, `project-router.ts`, `prod-*.ts`, `packages/provider-feishu-auth` | sessions and pending logins in memory, cookies in the browser | login, callback, check with refresh, logout, the handlers behind the gate | awaits at the provider while other requests are handled; chains of redirects; a restart | a request ends at the page it asked for; ended sessions stay ended, used ones last |
| Records of events and nights: `packages/gateway/src/record*.ts`, `packages/provider-feishu-sheets`, `scripts/aggregate-*.mjs`, `write-external-records.mjs` | local files, a spreadsheet, the client's caches, nightly-latest.json, daily-latest.json | track an event, write rows, roll up a night and a day | first writes race for worksheet and header; people edit it; nights overlap on one file | a value lies under its column; local before remote; a report says what happened |
| Segmented mapper: `packages/core/src/build/batch-graph-segmented.ts`, `mapper-reaper.ts`, `packages/cli/src/batch-mapper-worker.ts` | worker processes, `batch-<n>.json` | start a worker per segment, judge its exit, reap | a worker breaks, or exits well without its artifacts; signals; old artifacts | what is merged is whole; no worker is left running |
| LLM runner: `packages/core/src/build/llm.ts` | a call's tasks, threads, cooldowns and counters | ask per task, fall back per file, cool down, trip | threads share everything across their awaits | every file has a text or is counted, once |
| Portal pages, LLM providers, upstream loader, review, release scripts | | | | see `PROJECT.json`, components |

How they interact:

- `build` writes `.understand-anything` of a state root; `dashboard build-dist`
  writes `dashboard-dist` beside it; `project-state publish` copies both and a
  mirror of the sources into `versions/<id>` and moves `current`. The next
  `build` scans that mirror (`packages/cli/src/build.ts:88`).
- The nightly scripts run these commands for every project, register the projects
  with the gateway and restart it. They look at exit codes only.
- The gateway process reads `registry.json`, and for each request the links,
  `versioned-state.json`, the graph and the mirror, without any lock.
- `build` starts batch mapper workers, `dashboard start` and `gateway start` a daemon:
  the settings travel as words of a hidden command, and each child looks for the
  configuration file itself.
- `init` writes `projects.json`; the command line resolves it in one place and the
  scripts in another (`scripts/lib/discover-projects.mjs`).
- The nightly and daily scripts pass results to each other through
  `nightly-latest.json` and the exit code taken from it.
- `gateway publish` packages the program itself as a release; the daemon is started
  from the release that the link `current` names.

Every hazard found in the survey is listed with its line in `PROJECT.json`.

## 2. Plan

Modules, in the order of what depends on them. A module that is done is described
in section 3.

| Module | What | State |
|---|---|---|
| `ReleasePointers` | abstract specification: releases and two pointers that move in one step | done |
| `GatewayVersions`, `GatewayVersionsProofs` | the gateway release store, with proofs | done |
| `ProjectVersions`, `ProjectVersionsProofs` | the project version store and its readers, with proofs | done |
| `BuildSteps` | what a build makes of a tree, in one step | done |
| `BuildPhases`, `BuildPhasesProofs` | full, incremental, backfill and resumed builds phase by phase, with commits and kills in between, with proofs | done |
| `NightlySync`, `NightlySyncProofs` | composes builds, publication, refresh and failures, with proofs | done |
| `GatewayDaemon`, `GatewayDaemonProofs` | start and stop over a pid file, with proofs | done |
| `CommandLine`, `Launch` | the grammar of every command; settings from the typed words to the processes that run with them, with proofs (in `GatewayDaemonProofs`) | done |
| `Registration`, `RegistrationProofs` | `init`, `projects.json`, the registry, the refresh's pruning, both lock directories, with proofs | done |
| `Routing`, `Requests`, `RequestsProofs` | what the gateway answers; gate, sessions, login and refresh around it, with proofs | done |
| `Sheets`, `Records` | the spreadsheet client; portal events, nights and days that write to it and report, with proofs (in `NightlySyncProofs`) | done |
| `LlmRunner`, `Mapping`, `MappingProofs` | LLM calls of a batch: tasks, threads, model guard, breaker, fallbacks; the worker processes that make them, their build and its reaper, with proofs | done |
| repair | needs the enhancement stages of `llm.ts` first | open |

Abstract specifications worth having: `ReleasePointers` (done, implemented by both
stores); an atomic build, the builds of `BuildSteps`, which `BuildPhases` implements
while nothing is committed or killed; an atomic update of projects.json (stated as the
action property `InitIsAtomic`).

Theorems worth proving: every safety property that a run checks. All of them are
proved (section 6); section 7 says what is left to TLC. Some type invariants
(`TypeOK`) are in no run of their own; they are there for the proofs.

## 3. Modules and code

Everywhere, an action is what happens between two points at which another process,
a failure or a kill can intervene; operations that only compute are operators. Ids
that the code orders as text (timestamps) are numbers. Bounds are named in the
modules (`MaxId`, `MaxFaults`, `MaxCrashes`, `MaxContent`, `MaxCommits`, `MaxTouched`, `MaxPid`,
`MaxOptions`, `MaxNumber`, `MaxCommands`, `MaxEdits`, `MaxKills`, `MaxTime`, `MaxEvents`, `MaxWork`,
`MaxMishaps`, `FailServing`, `MayVanish`, `MayBeLeft`).
An operator or action with the comment "Mutation of ..." is a plausible bug in the
definition it names; no specification uses it, it is there to show that a property
would notice.

### GatewayVersions

| Variable | Code |
|---|---|
| `release[v]` | the directory `releases/<v>`: absent, bare (no `dist/cli.js`), startable (with it), whole |
| `state` | `state.json`: current, stable, `stablePending`, the pending actions, the retention count |
| `link` | the target of the symlink `current` |
| `lastId` | the clock from which ids are made |
| `pc`, `op` | where a command is, its local variables; `op[p].twin` is a history variable: while the command packaged, another one was given the same id |
| `torn` | history variable: a swap of the link was neither recorded nor undone, because the undo failed or the process was killed in between |
| `faults`, `crashes` | counters against their bounds |

Packaging is `AllocateId`, `ClearReleaseDir`, `CopyDist`, `CopyDependencies`. The
operations begin with `BeginPublish` (after packaging, or `StartPublish` when a
version is named), `BeginSetStable`, `BeginRollback`, `BeginGc`; they go on with
`SwapLink`, `WriteState`, `Collect`, `RemoveRelease` once per release, `Audit`. A
call that throws is one of `FailUnchanged`, `FailHalfway`, `FailWrite` (followed
by `RestoreLink` or `FailRestore`), `FailRemove`; a kill is `Crash`. A directory
removal that is interrupted leaves any part of it. Renames (`writeJsonAtomic`, the
temporary link) are atomic.

### ProjectVersions

The same scheme with two links, more copies (graph, the other artifacts, the
dashboard, the source mirror) and a second directory per version. A reader is one
file-content request: it looks at the link and the record, resolves the version,
finds the graph, then the content; each look is a step.

### BuildSteps, BuildPhases

A tree gives every file a content or `Absent`, and a graph every file the content
its nodes stem from. The assignment of files to batches is fixed (`BatchOf`), as
`compute-batches` depends on directories and sizes.

`BuildSteps` has what `runFullBuild` and `runPartialBuildUpdate` make of the files
under `.understand-anything` as operators (`FullBuild`, `IncrementalBuild`):
`base` is `project.gitCommitHash` of the graph, which partial builds keep, `meta`
the commit in `meta.json`, which they advance, `batched` the files of
`batches.json`, `artifact` the files `batch-<n>.json`. `IncrementalAccepts`
collects the errors with which an incremental build refuses to run.
`NightlySync` uses these, and in it the analyzer takes every file. `BuildPhases` takes
the builds apart, and says which files are `Code` (of category code or script) and at
which of their contents the analyzer throws (`Unparsable`): `Derived` is what the nodes
of a file stem from, nothing if it is skipped, and `Nodes` this of a tree.


| Variable | Code |
|---|---|
| `history` | the commits of the repository; the last is HEAD |
| `graph` | `knowledge-graph.json` with its base commit, `meta.json` |
| `scan`, `batches` | `scan-result.json`, `batches.json`: the commit whose tree they show, which stands for their hashes too |
| `manifest` | `phase2-input-manifest.json`, or one that was cut short |
| `artifacts` | per batch, whether `batch-<n>.json` is missing, whole or cut short; per file, the content its nodes stem from, if it has any |
| `pc`, `job` | the phase of the running build, its local variables |
| `last`, `crashes` | history variable: the build that ended last with no commit meanwhile; counter |

A build begins with `StartFull`, `StartIncremental`, `StartBackfill` (for the code files
and scripts without nodes, or for `--include` paths; it works in a copy of the repository),
`ResumeFull` or `ResumePartial`. It goes on with `Resolve` (the commit is asked for
after the changed files were, and the checkpoint is looked at), `Scan`, `Cleanup`,
`Compute` and `WriteManifest` (the four parts of the scan and of `runBatchesPhase`
between which it may be killed), `Select`, `Analyze` once per batch, `SaveGraph`,
`SaveMeta`. Worker processes are at their batches side by side; without them the
batches are analysed in their order. `Analyze` skips a file that cannot be read or parsed, and `AnalyzeNothing` is a batch
of none but such files: its old artifact stays, or the segment of its worker fails. A backfill has
no old artifact in its copy and ends without a graph then (`UpdateReadable`, `SaveGraphFails`). `Commit`
may come between any two steps, and `Crash` at any of them; it leaves the files that
are being written cut short. The builds of a project do not overlap, nobody edits the
repository between commits, and a kill takes the workers along.

### NightlySync

One project. `Pull`, `Skip`, `Build`, `Dist`, `Publish`, `Review`, `Record` are
the commands of `nightly-project-sync.sh`, `SkipRefresh`, `RefreshDist`,
`Upsert`, `Stop`, `Start` those of `refresh-prod-server.sh`; `StartRescue` is the
operator who follows the hint the refresh script prints. The build step uses
`BuildSteps`; publication is one step here (its inside is `ProjectVersions`). Each
command may succeed, fail for a reason of its own, or be cut off by a machine that
goes down, and the script goes on as it does in the code.

### GatewayDaemon

`daemon[p]`: a detached process that has been spawned, listens, is closing after
SIGTERM, or is dead. `message[p]`: what it sent over IPC. `pidFile`: whom
`dashboard.pid` names. A start decides (`Decide`), removes a stale file, spawns, waits
for the message (`Ready`, `Failed`, `TimedOut`), and writes the file in the two
steps of `writeFileSync`. A stop signals, polls, kills, removes the file. `fate`
and `calm` are history variables for the properties.

### CommandLine, Launch

`CommandLine` is `args.ts`: `Grammar` gives each command its options and their kinds,
`ReadWord` reads one word, `End` applies what must hold of a whole line and drops the
options the chosen action has no field for. The commands that only a parent types
(`dashboard-server`, `batch-mapper-worker`) are in it too, with the rules in which
their parsers differ. Words are members of small sets; a number is a word that the
parser turns into a number (`IntOf`), and a parent turns back into a word (`Number`).

`Launch` types a line word by word (`Type`, `Submit`) and runs it in a world of
environment variables, profiles and files (`RunBuild`, `RunServe`, `StartDaemon`).
`parent` is what the command resolved; `children` what each worker or daemon made of
the argument list it was given, parsed by the same `CommandLine`. One setting at a
time has values in the layers below the command line. All configuration files have
the same contents: which one is read is a property of its own (`OneConfig`, a
conjunct of `WorkerHears`); `ChildrenHear` is `WorkerHears` for workers and
`DaemonHears` for daemons.

### Registration

`file` is projects.json (missing, good or corrupt), `registry` registry.json, `lock`
who made either lock directory, `icons` the portal's icon files, `proc` the commands.
An init waits for the lock or gives up, reads, replaces its icon in two steps, writes
and unlocks. A refresh discovers, takes each project's token before the lock, upserts
under it, and prunes record by record. Paths are sequences of names; `contextRepo` and
`discoveredRepo` are the two ways the code resolves a repository.

### LlmRunner, Mapping

`llm[w]` is the call of `runLlmFileAnalysis` that worker `w` makes: the tasks nobody
has taken, what each thread is at (`thread`), the queue for the throttle (`chain`),
the current model and the cooldowns (`index`, `cooling`), the breaker (`streak`,
`tripped`), the files with texts and the counters. A step is what one continuation
does between two awaits: `Turn`, `CooldownEnds`, `Wake`, `CannotRead`, `AskFails`,
`Answer`, `Fallback`. A request stands for `callWithRetry` with its attempts. Time is left
out: a sleep ends at any moment, cooldowns in the order in which they began.

`Mapping` is around it: `parent` the build, `worker[w]` a worker process with the
segment it was given and what is left of it, `disk[b]` the artifact of a batch
(missing, torn, plain, or marked as enriched with texts for all, some or none of its
files). `Schedule` cuts and starts, `Collect` sees an exit and judges it, `Merge`
stands for the rest of the build; `Interrupt` and `Escalate` are the reaper's handlers,
`Exit` its `exit` handler. A worker goes through `Begin`, `Ask`, `Asked`, `Analyse`,
`Written` for each batch, and ends in `Finish`, `AskThrew`, `Break` or `Die`.

### Routing, Requests

`Routing` is one request behind the gate, as sets of replies, in ten deployments
(`Worlds`): maintenance, portal, policy, project router, handlers. `Promised` says
what whoever asks should finally be shown. `Requests` adds time, the browser's tabs
and cookies, sessions and pending logins. An action is a handler up to its next
await: `Gate`, `BeginLogin`, `Callback`, `LogOut`, then `Exchange`,
`ProviderRefreshes` and `Refreshed` for what comes back from the provider. `grant` is
the refresh token the provider expects next; it takes each once. `Crash` loses all
sessions; an exception of the policy is one (`Respond`).

### Sheets, Records

`Sheets` is the spreadsheet client: a write finds or adds its worksheet, reads or
puts the header, appends its row; each is a request between which other writes and
people (`EditHeader`) come, and which may fail (`Fail`). `caches` is what each
process's client remembers. A cell is the path of the payload it was taken from.
`Records` is what writes to it: `TrackEvent` in the gateway, which hands the event to
both sinks, and the nights, each from its projects over roll-up, `nightly-latest.json`
and rows to its exit code; the daily script's night then notifies and rolls up the
day (`RollUp`). A night started by hand overlaps it. The rows of a night's projects
go into one worksheet one after another, and one stands for them.

## 4. Runs

| Run | Instance | Question |
|---|---|---|
| `gateway_serial` | 1 operator, 3 releases, retention 1 or 2, 2 failing calls, 1 kill, two packagings in one second | do current and stable stay startable, are failed operations undone, does retention go from the oldest, does the store implement `ReleasePointers` |
| `gateway_concurrent` | 2 operators at once, 3 releases, several packagings in one second | what still holds without a lock: the record is consistent in itself, the newest release is not collected, a complete release loses files only to retention that reached it, or to a command that was given its id while another one packaged under it |
| `gateway_gc_race` | the same | that current and stable are protected: **violated** |
| `project_serial` | 1 operator, 1 request, 3 versions, retention 1 or 2, 2 failing calls, 1 kill; a request only before the first of these, and none of these during it (`FailServing` FALSE) | as `gateway_serial`, with two links and mirrors (`StoreAgrees`); does a request find its graph while versions change |
| `build_phases` | 3 files, two of them in one batch, one of these no code; 3 commits of one file each; 3 contents, at one of which the analyzer throws, per file another; 1 kill | is the graph never behind its base commit, does a resumed full build give what a full build gives, are files that can be analysed current after an incremental build, does a backfill fill the gaps of the code |
| `nightly_update` | 2 files, 3 commits, 1 fault at any step | is the served graph never ahead of its mirror, is what is skipped or registered built (`RecordedIsBuilt`), does the gateway come back and every commit get recorded (`NightsGoOn`), does it come to be served |
| `daemon` | 2 commands at once, 2 option sets, 2 daemons, 2 faults | is the pid file right, does a start that gives up leave nothing, do commands end |
| `commands` | every line of up to 3 options, in 208 worlds of a build and 102 of a server | does the typed value win, do workers and daemons parse what they are given and run with what their parent resolved, is the budget of the workers kept |
| `mapping` | 3 batches of 7, 1 and 1 files, 2 workers of 2 threads and 2 models, tasks of 2 files, a breaker at 2 failures, 1 worker that breaks, 1 file that cannot be read, 1 old artifact, a signal | is what is merged whole, is no worker left, do calls add up; does everybody end (deadlock) |
| `registration` | any 2 commands of 2 inits and 2 refreshes, 2 projects, 1 edit by hand, 1 kill | is an init atomic, is a token kept, does a refresh leave exactly the visible projects registered, do commands end although a dead one holds a lock |
| `requests` | 10 deployments, 2 tabs, 1 project, 2 requests or crashes, 1 tick | does a login make one session, does a logout hold, do sessions last, does every tab end, and at the right page |
| `records` | 2 events or nights (one of them by hand), 2 projects or none, 3 results, both sinks, 1 fault | do values lie under their columns, is an event local before it is remote, do reports say what happened |

Why the bounds are enough. Three releases are the fewest for which retention 1 has
something to delete and something to keep beside a current and another stable
release. Two faults cover a failure and the failure of its undo; one kill covers
each point of each operation, from each state that two faults can produce. In
`project_serial` a request meets no failures; with them (`FailServing` TRUE, retention 1, 1 failing
call, 1 kill) `StoreAgrees` and `GraphServed` hold too, in 3.7 million states. For
overlapping commands the interesting cases need two. In `gateway_concurrent` no call fails
and nothing is killed, which the theorems about it do not assume; with one failing call
its properties hold too, in 10.7 million states, and with one kill, in 11.7 million. Two files in one batch and one
in another are the fewest that tell "this file", "its batch" and "the other
batches" apart; a file that cannot be analysed is beside one that can, or alone in its batch, from
the second or from the third content on. Of the files that share a batch one is
code and one is not. And three commits are a base, a build after it, and a commit the
build did not know of; three contents let every commit be new (`FreshContent`). A
commit touches one file (`MaxTouched`); an incremental build that looks at two
commits at once sees two files change. One kill is enough for a checkpoint of two
builds, as every later build may begin from it.
One fault in the nightly update is enough to show what a run leaves to the next
one, which runs without fault. In `daemon`, two commands and two daemons are a
start, another start or stop, and the daemon each knows of.

In `commands`, three options are a setting, the option that names a profile or a file,
and one more that could disturb either; the setting in question takes each value,
valid or not, in each layer. In `registration`, two commands are the pairs that can
meet, and one edit and one kill are each followed by everything that can still run.
In `mapping`, seven files are the fewest that make four tasks, the last of one file:
two threads work side by side, the breaker can trip at the second failure and still
leave tasks to skip; two models are the fewest to switch between; two workers are one
that fails and one that goes on. One broken worker, one unreadable file (in a task of
several, or alone in its batch) and one old artifact each combine with everything
else. In `requests`, the second request, or the second return from the provider, or a crash,
falls between any two steps of the first; a session lives two ticks and its access
token one, so that one tick reaches a token that must be refreshed, a session that has
run out and a login that has. In `records`, two writers race for one worksheet (an event and a night, two events, two nights), and the fault is a
failed request or roll-up, a restart, or a rearranged header.

Deadlock is checked in every run whose system always can go on. `commands`,
`registration`, `requests` and `records` end when their bounded work is done, so there
it is not (`CommandsEnd` and `TabsSettle` show that nothing is left waiting). `gateway_concurrent`
and `records` use symmetry, of the operators and of the projects, and
check no liveness.

## 5. Fairness

- `NightlySync`: weak fairness of `StartDaily` (cron starts the update every day)
  and of `Step` (a script goes on to its next command; it has no wait of its own).
  Commits, faults and the operator are not fair.
- `GatewayDaemon`: weak fairness of what a command does next (its timers fire:
  `readyTimeoutMs`, `graceMs`, the poll). Daemons are not fair: one may never
  listen and never end.
- `Mapping`: weak fairness of the build's and of each worker's next step (timers fire,
  signals arrive, and every request has a time limit). Interrupts and faults are not fair.
- `Registration`: weak fairness of what an init or a refresh that runs does next
  (its deadline for a lock passes). Starting, edits and kills are not fair.
- `Requests`: weak fairness of each tab's next step. For the server this is its event
  loop. It includes the provider's answers, which the code awaits without a timeout,
  and the user's return from the provider's page: `TabsSettle` says that the redirects
  end, not that people or providers do. Requests, crashes, restarts and time are not fair.
- The stores, `BuildPhases`, `Launch` and `Records` state no fairness and no liveness.

## 6. Proofs

Every theorem holds for all values of the module's constants that its named
assumptions admit: any number of processes, tabs, workers, versions, files and
commits, any bounds on failures and kills. The assumptions say that a bound is a number, a switch a
Boolean, a name not a number, a set given, finite or not empty (`DiscoveriesAreFinite`: a
discovery finds finitely many projects), columns listed (`ColumnsAreListed`), and the
gateway and both nights clients of the spreadsheet (`WritersAreClients`). Others are more than
that, and the code makes them true: batches are sequences of distinct files and no
file is in two of them (`BatchesOfFiles`), what stands for "nothing" is nothing else
(`NoneIsNothing`, `NamesDiffer`, `NoneIsNoValue`), commands have numbers, in whose order the model
starts the refreshes (`CommandsAreNumbers`). Two are about the words of `CommandLine`: two
numbers have two words, and the word of a number is no option's (`NumbersHaveWords`); and the
model has a word for each number a build may hand to a worker (`BudgetsHaveWords`: `MaxNumber`
is at least 30, the default longest backoff in seconds, and five times `HostMappers`, the largest
budget). What a theorem assumes beyond that is in its
statement, and in the table below. The same proof applies to all: an invariant that is
stronger than the property holds initially, is kept by each action, and implies the
property. It is at the end of the component's module; `LaunchSafe` and `ReportsInv`, which
only join such parts with the properties, are in the proofs.

| Module | Theorem | States | Assumes |
|---|---|---|---|
| `GatewayVersionsProofs` | `TypeCorrect` | `TypeOK` | |
| | `PendingIsConsistent`, `NewestIsNotCollected` | `PendingConsistent`, `NewestSurvives` | |
| | `OnlySharedIdsRewrite` | `OnlyTwinsRewrite` | |
| | `SerialProtectedReady`, `SerialLink`, `SerialFailedOpUndone`, `SerialOldestGoFirst` | `ProtectedReady`; `LinkReady` and `PointersAgree`; `FailedOpUndone`; `OldestGoFirst` | one operator |
| | `SerialRefinement` | implements `ReleasePointers` | one operator |
| `ProjectVersionsProofs` | `TypeCorrect` | `TypeOK` | |
| | `SerialStoreAgrees`, `SerialGraphServed`, `SerialUndone` | `StoreAgrees`, `GraphServed`, `FailedOpUndone` | one operator, ids published once |
| | `SerialRefinement` | implements `ReleasePointers` | one operator, ids published once |
| `GatewayDaemonProofs` | `TypeCorrect`, `NoStraySurvives`, `PidFileTruth` | `TypeOK`, `AbandonedNotServing`, `PidFileIsTrue` | |
| | `TypedValuesWin`, `BudgetsAreKept`, `ChildrenAreTold` | `TypedWins`, `BudgetKept`, `ChildrenHear` of `Launch` | |
| `NightlySyncProofs` | `NightsAreConsistent`, `GraphIsNotAhead`, `RecordsAreTrue` | `NightInv`, `GraphNotAheadOfMirror`, `RecordedIsBuilt` | |
| | `RowsAreUnderTheirColumns`, `ReportsTellTheTruth` | `RowsUnderTheirColumns`, `ReportsAreHonest` of `Records` | |
| | `EventsAreKept` | `EventsAreLocalFirst` of `Records` | the local file is configured if the spreadsheet is |
| `BuildPhasesProofs` | `BuildsAreConsistent`, `GraphIsNotBehind`, `ResumesAreFull`, `BackfillsFill` | `BuildInv`, `NotBehindBase`, `ResumeIsFull`, `BackfillFillsGaps` | |
| | `IncrementalIsCurrent` | `BatchedFilesCurrent` | `FreshContent`: no commit brings an earlier content of a file back |
| `MappingProofs` | `TypeCorrect`, `NoStraysLeft` | `TypeOK` with `CallsInv`, `NoStrays` | |
| | `CallsAreCounted` | `CallsAddUp` | `Repeats` FALSE: no answer names a file twice |
| | `MergeIsSound` | `MergedIsWhole` | `Orphan` FALSE: no worker of an earlier build |
| `RegistrationProofs` | `RegistrationIsConsistent`, `InitsAreAtomic`, `TokensAreKept`, `RefreshesSettle` | `RegistrationInv`, `InitIsAtomic`, `TokenKept`, `RefreshSettles` | |
| `RequestsProofs` | `RequestsAreConsistent`, `SessionsEarned`, `RightPages`, `SessionsHold` | `RequestsInv`, `SessionsAreEarned`, `RightPage`, `SessionsLast` | |

Each assumption of the last column is needed: without it section 8 has the
counterexample, except for ids published once (a version
that is published again is rewritten under its readers); with the spreadsheet as the only sink
no event is local at all. Properties with an exception
of their own (`calm` in `PidFileIsTrue`, `alone` in `TokenKept`) are proved with it.

The invariants, and why the properties are not inductive without them:

- **Gateway store.** `OverlapInv`: what a process holds in memory may be stale in every
  respect; it is enough that its next record is consistent in itself, and that
  everything it has marked for removal has a newer directory. A release that goes
  was marked, so it has a newer directory itself, which then outlives everything that
  counted on the one that went; and a process that marks releases leaves the newest
  of all unmarked, as retention keeps at least one. `PackagingInv`: ids after the last
  one are free, and a packaging without a twin is alone at its directory, which is not
  complete yet. An id that is given out is of a directory that does not exist, so that whoever
  completes it later packages under it now, and both commands have a twin. `SerialInv`: a process about to write its record has to know that
  the release it names is still there, that the record it started from is still on
  disk (`Planned`, `seen`), which link it will restore (`prev`), and that what it is
  removing is not protected. `RetentionInv`: of what retention has not marked, enough
  is newer than everything it has; this set does not change while the marked
  go one by one, newest first, although the number of newer releases shrinks.
  In the refinement `WriteState` moves the pointers, `CopyDist` makes a
  release appear, a removal (whole or half) makes one go, the rest is a stutter.
- **Project store.** The same with two links: `Moves` says which links an operation is
  to move, and `OperationInv` that those in `swapped`
  name the new version while the others are as the record has them, unless `torn`.
  `UnusedAbsent` keeps the directories of ids that were never published empty, and
  `FaultlessInv` is what requests rely on until something fails: no link is left
  between two versions, and `current`, which they have followed or will, leads to a
  version whose graph is there.
- **Daemon.** `PidsInOrder`: process ids are given in order, so a new daemon is nobody's;
  `CalmInv`: while the operator waits for each command, the one that runs is
  `InCharge`: nothing is up except the daemon it started or is about to signal.
- **Nightly update.** `Behind`: a graph, and what batches have left of earlier
  ones, is made of commits no newer than the sources it was built from, which are no
  newer than the mirror it is published with. `Promised`: a run that has built holds
  a graph of the commit it will record, whatever fails before it does.
- **Builds.** `Dated` orders the contents of files by commits; `CheckpointInv` and `GraphInv`
  say of each artifact and of each node since which commit it may stem (`Since`, `Kept`). The
  property about the graph needs it for artifacts that a later build will merge, and
  for a checkpoint that a later build will resume. `FullInv` says what the finished
  batches of a full build have (`Done`), `PartialInv` that what a partial one drops
  has changed, `CalmInv` what is known while nothing is committed. A file that was skipped has
  no nodes, and so none that are too old; what a batch holds for the others is what
  `Derived` makes of their contents.
- **Mapper and LLM calls.** `Accounts`: the files of a call are those with texts,
  those counted as failed or skipped, and the `Unsettled`, each in one task that
  nobody has taken or at one thread; a thread's own lists fit the files it holds
  (`ThreadCounts`). `SegmentsApart`: no two workers write one artifact, and none is
  alive that the build does not wait for. `Covered` (each batch is valid or somebody's
  whom the build waits for) and `MadeWithTexts` are what `Merge` finds.
- **Registration.** `Holds`: an init past the lock is the only one there, so what it
  will write is still the file with its own entry put in; nobody edits by hand while it holds
  the lock. `AloneInv` and `Sole`: nobody has
  overlapped a refresh that still calls itself alone. `TokenInv`: what it knows of the registry's tokens is
  in the registry. `Settling`: at each of its phases, which projects it
  has registered, has yet to register, and has yet to prune.
- **Requests.** `LoginInv`: a login is pending, or being exchanged by one tab, or has its
  one session. `OutInv`: nobody is refreshing a session that was logged out (in the sense of
  `out`, see finding 10). `GrantInv`: a session that nobody refreshes has the refresh token that the
  provider expects next, and of several refreshes at most one is answered with a new
  one; so only a refresh that was not alone is refused as used. `GoalInv`: each request on
  its way leads, in this world, to a page its tab wants (`Leads`), and so does each
  address kept in a pending login.
- **Spreadsheet, nights and reports.** `Remembered`: what a client remembers of the columns is how the
  header begins, as long as the worksheet still has the header it was read from
  (`edition` counts the headers people and clients have put there); a header
  that is put over an empty one is what the client then remembers, and a row that is
  appended lies under the columns unless the edition has moved on (`RowFits`). A record that
  is written once has one row; that it is written once is `NightsApart`: the two nights never have
  one number, and what a night has yet to write is in no row and in no request.
  `LatestFits`: the latest report, when it is the night's own, says what the night's
  files said, whatever the other night has put there before or after.
- **Settings.** `LineFits`: the parser that reads the user's words holds, for each
  option of its command, a value of the option's kind, and never a dash. The rest is about
  one step, in which a parent resolves, writes argument lists, and its children parse
  them. A list is written option by option (`Opt`, `Number`, `Flag`), and read so:
  `Adds(command, words, told)` says that reading these words, from any
  state of the parser between two options, gives it exactly the values `told`, and a list
  put after another has its values win. So what a worker or a daemon parses is
  what its parent wrote (`WorkerArgsTell`, `DaemonArgsTell`), with no word taken for
  a value that is an option, and none missing that the hidden parser demands.
  For the budgets: a part is the quotient, and one more for the slots up to the
  remainder, so that the first n parts are n quotients and the smaller of n and the remainder
  (`AllParts`); there are no more slots than calls (`SlotsFit`), so the least part of 1 is
  never rounded up, and no more segments than slots.

Recursion over naturals is used in one form: a set of numbers that is not empty has a
least element (`NewestExists`, `Least`); what is read of a list of words (`Reading`) and the sum of
a budget's parts (`Total`) are taken apart by it too, at the first place where a claim would
fail. `Records` and `Launch` name their specifications `RecordsSpec` and `LaunchSpec`, because
their proofs are in a module that extends another component too. Each of these invariants can be checked
by TLC too, on the instance of its run: add `OverlapInv` and `PackagingInv` to
`GatewayConcurrent.cfg`, `SerialInv` and `RetentionInv` to `GatewaySerial.cfg`, `SerialInv` to
`ProjectSerial.cfg`, `DaemonInv` to `Daemon.cfg`, `NightInv` to `NightlyUpdate.cfg`, `BuildInv` to
`BuildPhases.cfg`, `MappingInv` to `Mapping.cfg`, `RegistrationInv` to `Registration.cfg`,
`RequestsInv` to `Requests.cfg`, `RecordsInv` and `LatestFits` to `Records.cfg`, `LineFits` to `Launch.cfg`. All of them hold there.

## 7. Only model-checked

- Liveness (`NightsGoOn`, `SourcesCatchUp`, `CommandsEnd` of `GatewayDaemon` and of
  `Registration`, `TabsSettle`, `MappingEnds`), and that nothing deadlocks: the proof system does not
  reason about fairness and `ENABLED`.
- `LaunchTypeOK` (in no run; `LineFits` is what the proofs need of it), and that the parser refuses
  what it should. The theorems about `Launch` are about lines of any length, any number of
  mappers and of batches, but the words that are typed are those of `Sample`, and the
  worlds those of `BuildWorlds` and `ServeWorlds`, which vary one setting at a time.
- The modules use no `RECURSIVE` operator, and no property needs induction over data.

## 8. What does not hold

### Findings

`PROJECT.json` quotes the statements of the repository's documents, comments and tests
that these contradict. `gateway_gc_race` is a run; of 2 to 5 and of 14 to 19 the formula is in
its module and the table below says on which instance TLC refutes it; of the others
the property of a run names the case and leaves it out, and fails without that clause.

1. `gateway_gc_race`: retention works from the record it has read, so that a release
   which another command records meanwhile is deleted.
2. `ResumedFilesCurrent`: an incremental build writes its manifest first and keeps the
   artifacts of the build before; if it is killed then, the resumed build takes them
   for finished work and merges old contents under the new commit.
3. `SkippedIsCovered`: `build` reads the source mirror of the version that is current,
   which is the one of the commit before; the graph published for a commit is built
   from the sources of the previous publication.
4. `HatchHeals`: the way out for a missing dashboard starts an incremental build
   of an unchanged commit, which refuses to run.
5. `OneDaemon`: a start with other options leaves the running daemon without a pid
   file.
6. `WorkerHears` (in `ChildrenHear`): a UA_DEPLOY_PROFILE that names no profile is hidden by the build's
   own `--deploy-profile`, and not from its workers, which all refuse.
7. `DaemonHears` (in `ChildrenHear`; holds, and says so): a start always passes `--host` and `--port`, so
   the file's, the profile's and the environment's values never reach a daemon.
8. `RefreshSettles`: the scripts take a base directory with a placeholder as it is
   written, the command line expands it.
9. `RightPage`: a path inside a project's application, asked for without the token,
   ends at the gateway's own dashboard.
10. `LogoutHolds` (in `SessionsAreEarned`): a logout that falls into a refresh of the session is undone.
11. `ReportsAreHonest`: the daily roll-up never finds the night's own aggregate and
    reads the shared latest one, which may be another night's.
12. `ReportsAreHonest`: a night exits 0 when some of its projects failed.
13. `RowsUnderTheirColumns`: the client keeps the header for the life of its process
    and appends in the old order after somebody rearranged the columns.
14. `SignalIsReported`: a worker that dies of the reaper's signal ends the build with
    exit code 1 before the reaper ends it with the signal's.
15. `SlotsAreFilled`: four batches for three mappers make two segments.
16. `FailuresStayPerFile`: one file that cannot be read ends a call, and the build,
    when its task has several files; a task of one file counts it as failed.
17. `MarkIsEarned`: an artifact is marked as enriched when no file of it got a text,
    and no later build asks again.
18. `ModelsRest`: a thread that slept until a cooldown's end takes the model although
    its cooldown has begun again.
19. `ReleasesImmutable`: two packagings that read the clock in one second get one
    id, and the second deletes what the first has completed, and may already serve.

### Formulas that do not hold

These were written down as properties, refuted by TLC, and are kept in the modules
or here as a record of what the code does not promise.

| Module, formula | Instance | Why |
|---|---|---|
| GatewayVersions `LinkNeverDangles` | 1 process, MaxId 3, 1 kill | a kill between swap and record leaves the link at a release that the record does not protect; the next gc deletes it |
| GatewayVersions `ReleasesImmutable` | as `gateway_concurrent` | finding 19; what is true of it is `OnlyTwinsRewrite` |
| GatewayVersions `ProtectedWhole` | 1 process, MaxId 2, 1 fault | a half-copied release with `dist/cli.js` passes the readiness check and can be published |
| ProjectVersions `ServedTogether` | 1 process, 1 reader, MaxId 2 | the request reads the graph of one version and the content of another |
| ProjectVersions `VersionsImmutable` | 1 process, `Republish` | publishing an id again rewrites the version in place |
| BuildPhases `ResumedFilesCurrent` | as `build_phases` | finding 2 |
| BuildPhases `DeletedFilesGone` | as `build_phases` | if all files of a batch are gone, its old `batch-<n>.json` stays and brings its nodes back; so do those of files that can no longer be analysed, if no file of the batch can |
| BuildPhases `ChangedFilesCurrent` | as `build_phases` | a file that is new since the last full build is in no batch and is left out when others changed too |
| BuildPhases `BatchedFilesCurrent` | `FreshContent` FALSE, `FixedFiles`, `MaxTouched` 2 | a file that changes and changes back is not in the diff to the base, its nodes stay those of the commit between |
| NightlySync `SkippedIsCovered` | MaxCommits 2, no fault | finding 3 |
| NightlySync `HatchHeals` | MaxCommits 2, 1 fault | finding 4 |
| NightlySync `RescueRegisters` | MaxCommits 2, 1 fault | the hint the refresh script prints does not help once the next night was skipped: `skipped` does not qualify for a refresh |
| GatewayDaemon `OneDaemon` | 1 command at a time, 2 option sets with ports of their own (`OnePort` FALSE), no fault | finding 5 |
| GatewayDaemon `PidFileIsTrue` without `calm` | as `daemon` | a stop removes the pid file a start has just written; a pid file that cannot be written leaves an unknown daemon |
| Registration `TokenKept` without `alone` | as `registration` | two refreshes that register a project first each make a token |
| Registration `RefreshSettles` without its last condition | as `registration` | finding 8 |
| Requests `SessionsLast` without `alone` | as `requests` | of two refreshes at once the provider refuses one, and its answer deletes the session the other refreshed |
| Requests `LogoutHolds` with every logout in `out` | as `requests` | finding 10 |
| Requests `RightPage` for "deep" paths of projects | as `requests` | finding 9 |
| Mapping `SignalIsReported` | as `mapping` | finding 14 |
| Mapping `SlotsAreFilled` | `FourBatches`, 3 mappers, no LLM, no old artifact | finding 15; it holds with 2 mappers |
| LlmRunner `FailuresStayPerFile` | as `mapping` | finding 16; it holds with `MayVanish` empty |
| Mapping `MarkIsEarned` | as `mapping` | finding 17 |
| LlmRunner `ModelsRest` | as `mapping`, Threshold 3 | finding 18; it holds with Concurrency 1 |
| LlmRunner `SwitchesAreEarned` | as `mapping`, `ThreeModels` | a failure moves the calls on from the current model also when that is no longer the model that failed; it holds with Concurrency 1 |
| LlmRunner `CallsAddUp` with `Repeats` | as `mapping` | an answer that names a file twice is counted twice |
| Mapping `MergedIsWhole` with `Orphan` | as `mapping`, no LLM | a worker of a build killed with SIGKILL cuts an artifact short while the next build merges |
| Records `RowsUnderTheirColumns` without `fresh` | as `records` | finding 13 |
| Records `ReportsAreHonest` without `daily.read = it.run` | as `records` | finding 11 |

`MappingEnds` holds on `FourBatches` (no old artifact, every file readable), and on
`TasksOfTwo` with tasks of three files and no fault; on the instance of `mapping`
itself, whose steps never repeat a state, the deadlock check stands in for it.

One more gap has no property, as no document promises anything: a manifest cut
short by a kill stops every incremental build until a full one (`Resolve`).

## 9. Not modelled

- Open in the plan: graph repair, and the enhancement of a finished graph in `llm.ts`
  (one request per stage, in sequence) that it uses.
- Data without state: portal pages and styles, icons, the patch of the upstream
  dashboard, scanning, batching, import graphs, graph assembly, the review of a
  finished graph, the ranking of a search. Where they meet state, their outcome is a
  choice of the model.
- The upstream loader and the compatibility check read files and compare fingerprints.
  The LLM provider packages are adapters to remote services; the release and delivery
  scripts, among the longest files, are the maintainers' and do not run with the program.
- Inside the modelled parts: audit logs, permissions, the browser window, `stop-all`
  and `status`, and edges, layers, language-model texts and embeddings of a graph,
  which follow its nodes. In `Launch`: `{{...}}` interpolation, the `.env` chain and
  the schema's errors (a file that fails them is a refused command), and
  `--record-provider` given twice. In `Registration`: the contents of icons. In
  `LlmRunner`: the attempts of a request and the intervals of the throttle. In `Mapping`:
  metrics, progress lines, `--include-paths`, a second SIGINT. `BuildPhases` takes the
  workers of a build along when it is killed, and an analysis that fails to fail for that
  content for good (a file that cannot be read for a moment is left out). In `NightlySync`
  the analyzer takes every file. In
  `Requests`: the cookie's syntax and the contents of answers. In `Records`: a local file that cannot be appended to,
  the provider's token and its cache (a part of each request), the notification
  providers, self-update, and the argument parsing of the aggregation scripts.
