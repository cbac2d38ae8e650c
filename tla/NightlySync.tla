---------------------------- MODULE NightlySync ------------------------------
(***************************************************************************)
(* The daily update of one project: nightly-project-sync.sh pulls the      *)
(* repository, builds, builds the dashboard, publishes a version, runs the *)
(* graph-health gate and writes nightly-latest.json; refresh-prod-server.sh*)
(* builds the dashboard again, registers the project and restarts the      *)
(* shared gateway.  Each step is a command whose exit code the script      *)
(* looks at; what one command does inside is the matter of other modules   *)
(* (ProjectVersions for publish, GraphBuild for the builds).               *)
(*                                                                         *)
(* Commits are pushed at any time.  A fault is a command that fails for a  *)
(* reason of its own, a gate that rejects, or a kill between two steps.    *)
(***************************************************************************)
EXTENDS BuildSteps

CONSTANTS MaxCommits,   \* bound: the commits of a behaviour are 1..MaxCommits
          MaxFaults     \* bound: how many faults a behaviour has

ASSUME MaxCommitsIsNatural == MaxCommits \in Nat \ {0}
ASSUME MaxFaultsIsNatural == MaxFaults \in Nat

VARIABLES history,      \* the trees of the commits so far; the last is upstream's HEAD
          repo,         \* the commit that is checked out in the project's repository
          build,        \* .understand-anything of the state root
          staging,      \* whether the flat dashboard-dist exists
          served,       \* the current version of the project
          latest,       \* nightly-latest.json of the project
          registered,   \* whether the gateway's registry has the project
          gateway,      \* the shared gateway
          pc, run,      \* the step the scripts are at, what they know of this run
          faults

vars == <<history, repo, build, staging, served, latest, registered, gateway, pc, run, faults>>

Commits == 1 .. MaxCommits
HeadCommit == Len(history)
Steps == {"idle", "pull", "gate", "dist", "publish", "review", "record",
          "refresh", "upsert", "stop", "start"}
NoRun == [kind |-> "none", built |-> FALSE, approved |-> FALSE, clean |-> TRUE]
NoVersion == [exists |-> FALSE, nodes |-> Empty, mirror |-> 0, dist |-> FALSE]

Init ==
  /\ \E tree \in FirstTrees : history = <<tree>>
  /\ repo = 1
  /\ build = NoBuild
  /\ staging = FALSE
  /\ served = NoVersion
  /\ latest = [commit |-> 0, status |-> "none"]
  /\ registered = FALSE
  /\ gateway = "down"
  /\ pc = "idle"
  /\ run = NoRun
  /\ faults = 0

(* git push by somebody                                                    *)
Commit ==
  /\ HeadCommit < MaxCommits
  /\ \E tree \in NextTrees(history) : history' = Append(history, tree)
  /\ UNCHANGED <<repo, build, staging, served, latest, registered, gateway, pc, run, faults>>

Fault == faults < MaxFaults /\ faults' = faults + 1

(* The command of the step fails, and the scripts know it or not.          *)
FaultInRun == Fault /\ run' = [run EXCEPT !.clean = FALSE]

(* cron                                                                    *)
StartDaily ==
  /\ pc = "idle"
  /\ pc' = "pull"
  /\ run' = [NoRun EXCEPT !.kind = "daily"]
  /\ UNCHANGED <<history, repo, build, staging, served, latest, registered, gateway, faults>>

(* An operator runs `dashboard build-dist` and refresh-prod-server.sh.     *)
StartRescue ==
  /\ pc = "idle"
  /\ run.kind # "rescue"
  /\ build.exists
  /\ staging' = TRUE
  /\ pc' = "refresh"
  /\ run' = [NoRun EXCEPT !.kind = "rescue"]
  /\ UNCHANGED <<history, repo, build, served, latest, registered, gateway, faults>>

-----------------------------------------------------------------------------
(* nightly-project-sync.sh                                                 *)

(* git pull --ff-only; a failure is only noted.                            *)
Pull ==
  /\ pc = "pull"
  /\ \/ repo' = HeadCommit /\ UNCHANGED <<run, faults>>
     \/ FaultInRun /\ UNCHANGED repo
  /\ pc' = "gate"
  /\ UNCHANGED <<history, build, staging, served, latest, registered, gateway>>

(* Mutation of Covered: the commit is not compared.                        *)
CoveredByStatus == latest.status \in {"success", "skipped"} /\ served.dist

(* The commit gate                                                         *)
Covered ==
  /\ latest.commit = repo
  /\ latest.status \in {"success", "skipped"}
  /\ served.dist

Skip ==
  /\ pc = "gate"
  /\ Covered
  /\ latest' = [commit |-> repo, status |-> "skipped"]
  /\ pc' = "refresh"
  /\ UNCHANGED <<history, repo, build, staging, served, registered, gateway, run, faults>>

(* resolveScanRoot: the source mirror of the current version, if any       *)
ScanTree == IF served.exists THEN history[served.mirror] ELSE history[repo]

Affected == Changed(history[build.base], history[repo])

(* spawn_build: incremental once there is a graph.  A build that fails     *)
(* leaves the graph as it was and ends the project's run.                  *)
BuildAccepts ==
  build.exists => IncrementalAccepts(build, Affected, history[repo])

BuildResult ==
  IF build.exists THEN IncrementalBuild(build, Affected, ScanTree, repo)
  ELSE FullBuild(ScanTree, repo)

Build ==
  /\ pc = "gate"
  /\ ~Covered
  /\ \/ /\ BuildAccepts
        /\ build' = BuildResult
        /\ run' = [run EXCEPT !.built = TRUE]
        /\ pc' = "dist"
        /\ UNCHANGED faults
     \/ /\ \/ ~BuildAccepts /\ UNCHANGED <<run, faults>>
           \/ FaultInRun
        /\ pc' = "record"
        /\ UNCHANGED build
  /\ UNCHANGED <<history, repo, staging, served, latest, registered, gateway>>

(* dashboard build-dist --rebuild-dashboard: when it fails the flat        *)
(* dashboard-dist is the old one, or gone.  Publish follows anyway.        *)
DistFails == FaultInRun /\ staging' \in {staging, FALSE}

Dist ==
  /\ pc = "dist"
  /\ \/ staging' = TRUE /\ UNCHANGED <<run, faults>>
     \/ DistFails
  /\ pc' = "publish"
  /\ UNCHANGED <<history, repo, build, served, latest, registered, gateway>>

(* Mutation of Version: published from the mirror the build has read.      *)
VersionOfMirror ==
  [exists |-> TRUE, nodes |-> build.nodes, dist |-> staging,
   mirror |-> IF served.exists THEN served.mirror ELSE repo]

(* Mutation of Version: the sources of the commit the graph names.         *)
VersionOfBase ==
  [exists |-> TRUE, nodes |-> build.nodes, dist |-> staging, mirror |-> build.base]

(* project-state publish <timestamp> --source-root <repository>            *)
Version == [exists |-> TRUE, nodes |-> build.nodes, dist |-> staging, mirror |-> repo]

Publish ==
  /\ pc = "publish"
  /\ \/ served' = Version /\ UNCHANGED <<run, faults>>
     \/ FaultInRun /\ UNCHANGED served
  /\ pc' = "review"
  /\ UNCHANGED <<history, repo, build, staging, latest, registered, gateway>>

(* The graph-health gate, after the publication                            *)
Review ==
  /\ pc = "review"
  /\ \/ run' = [run EXCEPT !.approved = TRUE] /\ UNCHANGED faults
     \/ FaultInRun
  /\ pc' = "record"
  /\ UNCHANGED <<history, repo, build, staging, served, latest, registered, gateway>>

Status == IF run.built /\ run.approved THEN "success" ELSE "failed"

(* Mutation of Record: a run that failed is not recorded.                  *)
RecordSuccess ==
  /\ pc = "record"
  /\ latest' = IF Status = "success" THEN [commit |-> repo, status |-> Status] ELSE latest
  /\ pc' = "refresh"
  /\ UNCHANGED <<history, repo, build, staging, served, registered, gateway, run, faults>>

(* nightly-latest.json                                                     *)
Record ==
  /\ pc = "record"
  /\ latest' = [commit |-> repo, status |-> Status]
  /\ pc' = "refresh"
  /\ UNCHANGED <<history, repo, build, staging, served, registered, gateway, run, faults>>

-----------------------------------------------------------------------------
(* refresh-prod-server.sh                                                  *)

(* should_refresh_project                                                  *)
ShouldRefresh == latest.status = "success"

SkipRefresh ==
  /\ pc = "refresh"
  /\ ~ShouldRefresh
  /\ pc' = "stop"
  /\ UNCHANGED <<history, repo, build, staging, served, latest, registered, gateway, run, faults>>

(* spawn_dashboard_build_dist: when the run is given no plugin root, the   *)
(* flat dist must be there already.                                        *)
RefreshDist ==
  /\ pc = "refresh"
  /\ ShouldRefresh
  /\ \/ staging' = TRUE /\ pc' = "upsert" /\ UNCHANGED <<run, faults>>
     \/ DistFails /\ pc' = "stop"
     \/ /\ pc' = IF staging THEN "upsert" ELSE "stop"
        /\ UNCHANGED <<staging, run, faults>>
  /\ UNCHANGED <<history, repo, build, served, latest, registered, gateway>>

(* upsert_prod_registry_record                                             *)
Upsert ==
  /\ pc = "upsert"
  /\ \/ registered' = TRUE /\ UNCHANGED <<run, faults>>
     \/ FaultInRun /\ UNCHANGED registered
  /\ pc' = "stop"
  /\ UNCHANGED <<history, repo, build, staging, served, latest, gateway>>

Stop ==
  /\ pc = "stop"
  /\ gateway' = "down"
  /\ pc' = "start"
  /\ UNCHANGED <<history, repo, build, staging, served, latest, registered, run, faults>>

(* ... and started.                                                        *)
Start ==
  /\ pc = "start"
  /\ \/ gateway' = "up" /\ UNCHANGED <<run, faults>>
     \/ FaultInRun /\ UNCHANGED gateway
  /\ pc' = "idle"
  /\ UNCHANGED <<history, repo, build, staging, served, latest, registered>>

-----------------------------------------------------------------------------
(* The machine goes down: the scripts and the gateway are gone.            *)
Crash ==
  /\ Fault
  /\ gateway' = "down"
  /\ pc' = "idle"
  /\ run' = NoRun
  /\ UNCHANGED <<history, repo, build, staging, served, latest, registered>>

Step ==
  Pull \/ Skip \/ Build \/ Dist \/ Publish \/ Review \/ Record
    \/ SkipRefresh \/ RefreshDist \/ Upsert \/ Stop \/ Start

Next == Commit \/ StartDaily \/ StartRescue \/ Step \/ Crash

(* cron starts the update every day and the scripts go on to their end.    *)
Spec == Init /\ [][Next]_vars /\ WF_vars(StartDaily) /\ WF_vars(Step)

-----------------------------------------------------------------------------
(* Properties.                                                             *)

RunType ==
  [kind : {"none", "daily", "rescue"}, built : BOOLEAN, approved : BOOLEAN, clean : BOOLEAN]

TypeOK ==
  /\ history \in Seq(Trees) /\ HeadCommit \in Commits
  /\ repo \in Commits
  /\ build \in Builds(Commits)
  /\ staging \in BOOLEAN
  /\ served \in [exists : BOOLEAN, nodes : Trees, mirror : Commits \cup {0}, dist : BOOLEAN]
  /\ latest \in [commit : Commits \cup {0}, status : {"none", "success", "failed", "skipped"}]
  /\ registered \in BOOLEAN
  /\ gateway \in {"up", "down"}
  /\ pc \in Steps
  /\ run \in RunType
  /\ faults \in 0 .. MaxFaults

(* The graph of the current version never shows a file as it became only   *)
(* after the source mirror beside it was taken, whatever failed between    *)
(* pull, build and publish: /source can show what the graph speaks of, or  *)
(* something newer.                                                        *)
GraphNotAheadOfMirror ==
  \A f \in Present(served.nodes) :
    \E c \in 1 .. served.mirror : served.nodes[f] = history[c][f]

(* What the records of a night promise was built: a commit that the commit *)
(* gate will skip is the one meta.json of the state root names, and only a *)
(* project with a graph is registered with the gateway.                    *)
RecordedIsBuilt ==
  /\ latest.commit = repo /\ latest.status \in {"success", "skipped"}
       => build.exists /\ build.meta = repo
  /\ registered => build.exists

(* The gateway that an update has stopped, or a crash, is up again one day, *)
(* and no commit stays unnoticed: nightly-latest.json comes to name it.    *)
NightsGoOn ==
  /\ gateway = "down" ~> gateway = "up"
  /\ <>[](latest.commit = HeadCommit)

(* When nothing fails and no commit adds or deletes files, the gateway     *)
(* comes to serve the sources of HEAD with a dashboard.                    *)
CleanRun ==
  faults = 0 /\ \A c \in 1 .. HeadCommit : Present(history[c]) = Present(history[1])

SourcesCatchUp ==
  []CleanRun => <>[](served.mirror = HeadCommit /\ served.dist /\ registered)

(* "A prior `skipped` already proves the current commit is covered": what  *)
(* is served is the graph of the commit.                                   *)
SkippedIsCovered ==
  latest.status = "skipped" => served.nodes = history[latest.commit]

(* "fall through to a real build so `dashboard build-dist` + publish can   *)
(* heal the dist": a missing dashboard comes back.                         *)
HatchHeals == <>[](served.exists => served.dist)

(* "run `understand-anyway dashboard build-dist` directly, then rerun this *)
(* script": a project whose gate did not fail is registered when the script*)
(* has come to its end without a failure.                                  *)
RescueRegisters ==
  run.kind = "rescue" /\ run.clean /\ pc = "stop"
    => registered \/ latest.status \in {"none", "failed"}

-----------------------------------------------------------------------------
(* The invariants that GraphNotAheadOfMirror and RecordedIsBuilt follow    *)
(* from.                                                                   *)

(* Whatever tree has of a file, one of the first m commits has.            *)
Sourced(tree, m) == \A f \in Present(tree) : \E c \in 1 .. m : tree[f] = history[c][f]

(* The repository never goes back, and nothing is newer than it.           *)
Behind ==
  /\ repo <= HeadCommit /\ latest.commit <= repo /\ served.mirror <= repo
  /\ served.exists => served.mirror # 0
  /\ Sourced(build.nodes, repo) /\ Sourced(build.artifact, repo)
  /\ Sourced(served.nodes, served.mirror)

(* What a run knows of its build until it is recorded, and the records of  *)
(* the runs before it.                                                     *)
Promised ==
  /\ pc \in {"pull", "gate"} => ~run.built
  /\ pc \in {"dist", "publish", "review", "record"} /\ run.built
       => build.exists /\ build.meta = repo
  /\ latest.status \in {"success", "skipped"} \/ pc = "upsert" => build.exists
  /\ RecordedIsBuilt

NightInv == TypeOK /\ Behind /\ Promised
=============================================================================
