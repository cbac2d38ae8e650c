-------------------------- MODULE NightlySyncProofs --------------------------
(***************************************************************************)
(* Proofs about the nights.  NightlySync: for any files, batches and       *)
(* contents, and for any number of commits and of faults.  Records: for    *)
(* any clients, columns, projects and configured providers, and for any    *)
(* number of nights, portal events and mishaps.                            *)
(***************************************************************************)
EXTENDS NightlySync, Records, FiniteSetTheorems, TLAPS

-----------------------------------------------------------------------------
(* Trees and builds.                                                       *)

LEMMA TreesFit == Empty \in Trees /\ FirstTrees \subseteq Trees
BY MaxContentIsNatural DEF Empty, Absent, FirstTrees, Trees

LEMMA FirstFits ==
  /\ NoBuild \in Builds(Commits)
  /\ NoVersion \in [exists : BOOLEAN, nodes : Trees, mirror : Commits \cup {0}, dist : BOOLEAN]
BY TreesFit DEF NoBuild, NoVersion, Builds

LEMMA FullBuildFits ==
  ASSUME NEW scan \in Trees, NEW c \in Commits
  PROVE  LET b == FullBuild(scan, c)
         IN  b \in Builds(Commits) /\ b.exists /\ b.meta = c /\ b.nodes = scan /\ b.artifact = scan
BY DEF FullBuild, Builds, Present

LEMMA ReanalyzedFits ==
  ASSUME NEW artifact \in Trees, NEW scan \in Trees, NEW selected
  PROVE  LET a == Reanalyzed(artifact, selected, scan)
         IN  a \in Trees /\ \A f \in Files : a[f] \in {artifact[f], scan[f]}
BY DEF Reanalyzed, Trees

LEMMA MergedFits ==
  ASSUME NEW nodes \in Trees, NEW artifact \in Trees, NEW affected, NEW selected
  PROVE  LET n == Merged(nodes, affected, selected, artifact)
         IN  n \in Trees /\ \A f \in Files : n[f] \in {nodes[f], artifact[f], Absent}
BY MaxContentIsNatural DEF Merged, Trees, Absent

(* An incremental build takes what is in the graph, in the artifacts or in *)
(* the files that it reads.                                                *)
LEMMA IncrementalBuildFits ==
  ASSUME NEW old \in Builds(Commits), NEW affected, NEW scan \in Trees, NEW c \in Commits
  PROVE  LET b == IncrementalBuild(old, affected, scan, c)
         IN  /\ b \in Builds(Commits) /\ b.exists = old.exists /\ b.meta = c
             /\ \A f \in Files :
                  /\ b.artifact[f] \in {old.artifact[f], scan[f]}
                  /\ b.nodes[f] \in {old.nodes[f], old.artifact[f], scan[f], Absent}
<1> DEFINE b == IncrementalBuild(old, affected, scan, c)
           selected == Selected(old.batched, affected)
           artifact == Reanalyzed(old.artifact, selected, scan)
           nodes == Merged(old.nodes, affected, selected, artifact)
<1>1. old.nodes \in Trees /\ old.artifact \in Trees
  BY DEF Builds
<1>2. artifact \in Trees /\ \A f \in Files : artifact[f] \in {old.artifact[f], scan[f]}
  BY <1>1, ReanalyzedFits
<1>3. nodes \in Trees /\ \A f \in Files : nodes[f] \in {old.nodes[f], artifact[f], Absent}
  BY <1>1, <1>2, MergedFits
<1>4. b = [old EXCEPT !.nodes = nodes, !.artifact = artifact, !.meta = c]
  BY DEF IncrementalBuild, Builds
<1> HIDE DEF artifact, nodes, b
<1>5. /\ b \in Builds(Commits) /\ b.exists = old.exists /\ b.meta = c /\ b.nodes = nodes
      /\ b.artifact = artifact
  BY <1>2, <1>3, <1>4 DEF Builds
<1> QED BY <1>2, <1>3, <1>5 DEF b

-----------------------------------------------------------------------------
(* The first state.                                                        *)

LEMMA InitFits == Init => NightInv
<1> SUFFICES ASSUME Init PROVE NightInv
  OBVIOUS
<1>1. PICK tree \in Trees : history = <<tree>>
  BY TreesFit DEF Init
<1>2. HeadCommit = 1 /\ history \in Seq(Trees) /\ 1 \in Commits
  BY <1>1, MaxCommitsIsNatural DEF HeadCommit, Commits
<1>3. TypeOK
  <2>1. NoRun \in RunType /\ 0 \in 0 .. MaxFaults
    BY MaxFaultsIsNatural DEF NoRun, RunType
  <2>2. /\ repo = 1 /\ build = NoBuild /\ staging = FALSE /\ served = NoVersion
        /\ latest = [commit |-> 0, status |-> "none"] /\ registered = FALSE /\ gateway = "down"
        /\ pc = "idle" /\ run = NoRun /\ faults = 0
    BY DEF Init
  <2> QED BY <1>2, <2>1, <2>2, FirstFits DEF TypeOK, Steps
<1>4. \A m : Sourced(Empty, m)
  BY DEF Sourced, Present, Empty
<1>5. Behind
  BY <1>2, <1>4 DEF Init, Behind, NoBuild, NoVersion
<1>6. Promised
  BY DEF Init, Promised, RecordedIsBuilt, NoRun
<1> QED BY <1>3, <1>5, <1>6 DEF NightInv

-----------------------------------------------------------------------------
(* The steps.                                                              *)

(* A commit adds to the history and leaves the rest.                       *)
LEMMA CommitKeeps ==
  ASSUME NightInv, Commit
  PROVE  NightInv'
<1>1. PICK tree \in Trees : history' = Append(history, tree)
  BY DEF Commit, NextTrees
<1>2. /\ history \in Seq(Trees) /\ HeadCommit \in Nat /\ HeadCommit \in Commits
      /\ repo \in Nat /\ served.mirror \in Nat /\ repo <= HeadCommit /\ served.mirror <= repo
  BY MaxCommitsIsNatural DEF NightInv, TypeOK, Behind, Commits, HeadCommit
<1>3. /\ history' \in Seq(Trees) /\ HeadCommit' = HeadCommit + 1 /\ HeadCommit' \in Commits
      /\ \A c \in 1 .. HeadCommit : history'[c] = history[c]
  BY <1>1, <1>2, MaxCommitsIsNatural DEF Commit, HeadCommit, Commits
<1>4. UNCHANGED <<repo, build, staging, served, latest, registered, gateway, pc, run, faults>>
  BY DEF Commit
<1>5. TypeOK'
  BY <1>3, <1>4 DEF NightInv, TypeOK
<1>6. /\ \A c \in 1 .. repo : history'[c] = history[c]
      /\ \A c \in 1 .. served.mirror : history'[c] = history[c]
  BY <1>2, <1>3
<1>7. Behind'
  <2>1. ASSUME NEW tr, NEW m \in Nat, Sourced(tr, m), \A c \in 1 .. m : history'[c] = history[c]
        PROVE  \A f \in Present(tr) : \E c \in 1 .. m : tr[f] = history'[c][f]
    BY <2>1 DEF Sourced
  <2>2. Sourced(build.nodes, repo)' /\ Sourced(build.artifact, repo)'
    BY <1>2, <1>4, <1>6, <2>1 DEF NightInv, Behind, Sourced
  <2>3. Sourced(served.nodes, served.mirror)'
    BY <1>2, <1>4, <1>6, <2>1 DEF NightInv, Behind, Sourced
  <2> QED BY <1>2, <1>3, <1>4, <2>2, <2>3 DEF NightInv, Behind
<1>8. Promised'
  BY <1>4 DEF NightInv, Promised, RecordedIsBuilt
<1> QED BY <1>5, <1>7, <1>8 DEF NightInv

(* The repository moves to the last commit: what the records say of        *)
(* another commit says nothing of this one.                                *)
LEMMA PullKeeps ==
  ASSUME NightInv, Pull
  PROVE  NightInv'
<1>1. /\ pc = "pull" /\ pc' = "gate" /\ repo' \in {repo, HeadCommit}
      /\ UNCHANGED <<history, build, staging, served, latest, registered, gateway>>
      /\ run' = [run EXCEPT !.clean = FALSE] \/ run' = run
      /\ faults' \in 0 .. MaxFaults
  BY MaxFaultsIsNatural DEF Pull, FaultInRun, Fault, NightInv, TypeOK
<1>2. /\ repo \in Nat /\ HeadCommit \in Commits /\ repo \in Commits /\ repo <= HeadCommit
      /\ served.mirror \in Nat /\ latest.commit \in Nat /\ served.mirror <= repo
      /\ latest.commit <= repo /\ Commits \subseteq Nat
  BY MaxCommitsIsNatural DEF NightInv, TypeOK, Behind, Commits
<1>3. TypeOK'
  <2>1. run' \in RunType /\ repo' \in Commits
    BY <1>1, <1>2 DEF NightInv, TypeOK, RunType
  <2> QED BY <1>1, <2>1 DEF NightInv, TypeOK, RunType, Steps, HeadCommit
<1>4. repo' \in Nat /\ repo <= repo' /\ repo' <= HeadCommit /\ HeadCommit' = HeadCommit
  BY <1>1, <1>2 DEF HeadCommit
<1>5. Behind'
  <2>1. Sourced(build.nodes, repo)' /\ Sourced(build.artifact, repo)'
    BY <1>1, <1>2, <1>4 DEF NightInv, Behind, Sourced
  <2> QED BY <1>1, <1>2, <1>4, <2>1 DEF NightInv, Behind, Sourced
<1>6. Promised'
  <2>1. run'.built = run.built
    BY <1>1 DEF NightInv, TypeOK, RunType
  <2> QED BY <1>1, <1>2, <1>4, <2>1 DEF NightInv, Promised, RecordedIsBuilt
<1> QED BY <1>3, <1>5, <1>6 DEF NightInv

(* What a build makes is of the commits up to the one that is checked out, *)
(* also when it reads the older mirror.                                    *)
LEMMA BuildKeeps ==
  ASSUME NightInv, Build
  PROVE  NightInv'
<1>1. /\ history \in Seq(Trees) /\ repo \in 1 .. HeadCommit /\ repo \in Commits
      /\ build \in Builds(Commits)
      /\ served.exists => served.mirror \in 1 .. repo
      /\ pc = "gate" /\ HeadCommit \in Nat /\ HeadCommit = Len(history)
  BY MaxCommitsIsNatural DEF Build, NightInv, TypeOK, Behind, Commits, HeadCommit
<1>2. PICK m \in 1 .. repo : ScanTree = history[m]
  BY <1>1 DEF ScanTree
<1>3. ScanTree \in Trees
  BY <1>1, <1>2
<1>4. UNCHANGED <<history, repo, staging, served, latest, registered, gateway>>
      /\ faults' \in 0 .. MaxFaults
  BY MaxFaultsIsNatural DEF Build, FaultInRun, Fault, NightInv, TypeOK
<1>5. CASE /\ build' = BuildResult /\ run' = [run EXCEPT !.built = TRUE] /\ pc' = "dist"
  <2>1. /\ build' \in Builds(Commits) /\ build'.exists /\ build'.meta = repo
        /\ \A f \in Files :
             /\ build'.artifact[f] \in {build.artifact[f], ScanTree[f]}
             /\ build'.nodes[f] \in {build.nodes[f], build.artifact[f], ScanTree[f], Absent}
    <3>1. CASE build.exists
      <4>1. build' = IncrementalBuild(build, Affected, ScanTree, repo)
        BY <1>5, <3>1 DEF BuildResult
      <4>2. LET b == IncrementalBuild(build, Affected, ScanTree, repo)
            IN  /\ b \in Builds(Commits) /\ b.exists = build.exists /\ b.meta = repo
                /\ \A f \in Files :
                     /\ b.artifact[f] \in {build.artifact[f], ScanTree[f]}
                     /\ b.nodes[f] \in {build.nodes[f], build.artifact[f], ScanTree[f], Absent}
        BY <1>1, <1>3, IncrementalBuildFits
      <4> QED BY <3>1, <4>1, <4>2
    <3>2. CASE ~build.exists
      <4>1. build' = FullBuild(ScanTree, repo)
        BY <1>5, <3>2 DEF BuildResult
      <4> QED BY <1>1, <1>3, <4>1, FullBuildFits
    <3> QED BY <3>1, <3>2
  <2>2. TypeOK'
    BY <1>4, <1>5, <2>1 DEF NightInv, TypeOK, RunType, Steps, HeadCommit
  <2>3. /\ \A f \in Present(build.nodes) : \E c \in 1 .. repo : build.nodes[f] = history[c][f]
        /\ \A f \in Present(build.artifact) : \E c \in 1 .. repo : build.artifact[f] = history[c][f]
        /\ \A f \in Present(ScanTree) : \E c \in 1 .. repo : ScanTree[f] = history[c][f]
    BY <1>2 DEF NightInv, Behind, Sourced
  <2>4. \A f \in Present(build'.nodes) : \E c \in 1 .. repo : build'.nodes[f] = history[c][f]
    BY <2>1, <2>3 DEF Present
  <2>5. \A f \in Present(build'.artifact) : \E c \in 1 .. repo : build'.artifact[f] = history[c][f]
    BY <2>1, <2>3 DEF Present
  <2>6. Behind'
    BY <1>4, <2>4, <2>5 DEF NightInv, Behind, Sourced, HeadCommit
  <2>7. Promised'
    BY <1>4, <1>5, <2>1 DEF NightInv, Promised, RecordedIsBuilt
  <2> QED BY <2>2, <2>6, <2>7 DEF NightInv
<1>6. CASE /\ build' = build /\ pc' = "record"
           /\ run' = [run EXCEPT !.clean = FALSE] \/ run' = run
  <2>1. run'.built = run.built /\ ~run.built
    BY <1>1, <1>6 DEF NightInv, TypeOK, RunType, Promised
  <2>2. TypeOK'
    BY <1>4, <1>6, ZenonT(40) DEF NightInv, TypeOK, RunType, Steps, HeadCommit
  <2>3. Behind'
    BY <1>4, <1>6 DEF NightInv, Behind, Sourced, HeadCommit
  <2>4. Promised'
    BY <1>4, <1>6, <2>1 DEF NightInv, Promised, RecordedIsBuilt
  <2> QED BY <2>2, <2>3, <2>4 DEF NightInv
<1> QED BY <1>5, <1>6 DEF Build, FaultInRun

(* What is published is the graph, beside the sources that are checked out.*)
LEMMA PublishKeeps ==
  ASSUME NightInv, Publish
  PROVE  NightInv'
<1>1. /\ pc = "publish" /\ pc' = "review"
      /\ UNCHANGED <<history, repo, build, staging, latest, registered, gateway>>
      /\ run' = [run EXCEPT !.clean = FALSE] \/ run' = run
      /\ faults' \in 0 .. MaxFaults /\ served' \in {served, Version}
  BY MaxFaultsIsNatural DEF Publish, FaultInRun, Fault, NightInv, TypeOK
<1>2. /\ Version \in [exists : BOOLEAN, nodes : Trees, mirror : Commits \cup {0}, dist : BOOLEAN]
      /\ Version.nodes = build.nodes /\ Version.mirror = repo /\ repo # 0 /\ repo \in Nat
  BY MaxCommitsIsNatural DEF Version, NightInv, TypeOK, Builds, Commits
<1>3. TypeOK'
  BY <1>1, <1>2 DEF NightInv, TypeOK, RunType, Steps, HeadCommit
<1>4. Behind'
  BY <1>1, <1>2 DEF NightInv, Behind, Sourced, HeadCommit
<1>5. Promised'
  <2>1. run'.built = run.built
    BY <1>1 DEF NightInv, TypeOK, RunType
  <2> QED BY <1>1, <2>1 DEF NightInv, Promised, RecordedIsBuilt
<1> QED BY <1>3, <1>4, <1>5 DEF NightInv

(* A run that built and was approved records the commit it built.          *)
LEMMA RecordKeeps ==
  ASSUME NightInv, Record \/ Skip
  PROVE  NightInv'
<1>1. /\ pc \in {"record", "gate"} /\ pc' = "refresh" /\ latest'.commit = repo
      /\ latest' \in [commit : Commits \cup {0}, status : {"none", "success", "failed", "skipped"}]
      /\ UNCHANGED <<history, repo, build, staging, served, registered, gateway, run, faults>>
  BY DEF Record, Skip, Status, NightInv, TypeOK
<1>2. latest'.status \in {"success", "skipped"} => build.exists /\ build.meta = repo
  <2>1. CASE Record
    BY <2>1 DEF Record, Status, NightInv, Promised
  <2>2. CASE Skip
    BY <2>2 DEF Skip, Covered, NightInv, Promised, RecordedIsBuilt
  <2> QED BY <2>1, <2>2
<1>3. TypeOK'
  BY <1>1 DEF NightInv, TypeOK, RunType, Steps, HeadCommit
<1>4. repo \in Nat
  BY MaxCommitsIsNatural DEF NightInv, TypeOK, Commits
<1>5. Behind'
  BY <1>1, <1>4 DEF NightInv, Behind, Sourced, HeadCommit
<1>6. Promised'
  BY <1>1, <1>2 DEF NightInv, Promised, RecordedIsBuilt
<1> QED BY <1>3, <1>5, <1>6 DEF NightInv

(* The steps that leave history, repository, build, version and records.   *)
LEMMA OthersKeep ==
  ASSUME NightInv,
         \/ StartDaily \/ StartRescue \/ Dist \/ Review \/ SkipRefresh \/ RefreshDist
         \/ Upsert \/ Stop \/ Start \/ Crash
  PROVE  NightInv'
<1>1. UNCHANGED <<history, repo, build, served, latest>>
  BY DEF StartDaily, StartRescue, Dist, Review, SkipRefresh, RefreshDist, Upsert, Stop, Start, Crash
<1>2. /\ run \in RunType /\ faults \in 0 .. MaxFaults /\ staging \in BOOLEAN
      /\ gateway \in {"up", "down"} /\ registered \in BOOLEAN /\ MaxFaults \in Nat
  BY MaxFaultsIsNatural DEF NightInv, TypeOK
<1> DEFINE SameRun == run' \in RunType /\ run'.built = run.built /\ faults' \in 0 .. MaxFaults
           NewRun == run' \in RunType /\ ~run'.built /\ faults' \in 0 .. MaxFaults
           Late == {"dist", "publish", "review", "record"}
<1>3. ASSUME FaultInRun \/ UNCHANGED <<run, faults>> PROVE SameRun
  <2>1. CASE FaultInRun
    <3>1. run' = [run EXCEPT !.clean = FALSE]
      BY <2>1 DEF FaultInRun
    <3>2. faults' \in 0 .. MaxFaults
      BY <1>2, <2>1 DEF FaultInRun, Fault
    <3>3. run' \in RunType /\ run'.built = run.built
      BY <1>2, <3>1 DEF RunType
    <3> QED BY <3>2, <3>3
  <2>2. CASE UNCHANGED <<run, faults>>
    BY <1>2, <2>2
  <2> QED BY <1>3, <2>1, <2>2
<1>4. ASSUME StartDaily PROVE NewRun
  BY <1>2, <1>4 DEF StartDaily, NoRun, RunType
<1>5. ASSUME StartRescue PROVE NewRun
  BY <1>2, <1>5 DEF StartRescue, NoRun, RunType
<1>6. ASSUME Crash PROVE NewRun
  BY <1>2, <1>6 DEF Crash, Fault, NoRun, RunType
<1>7. ASSUME Review PROVE SameRun
  BY <1>2, <1>3, <1>7 DEF Review, RunType
<1>8. ASSUME Dist \/ SkipRefresh \/ RefreshDist \/ Upsert \/ Stop \/ Start PROVE SameRun
  <2>1. FaultInRun \/ UNCHANGED <<run, faults>>
    BY <1>8 DEF Dist, DistFails, SkipRefresh, RefreshDist, Upsert, Stop, Start
  <2> QED BY <1>3, <2>1
<1> HIDE DEF SameRun, NewRun
<1>9. staging' \in BOOLEAN /\ gateway' \in {"up", "down"} /\ pc' \in Steps /\ registered' \in BOOLEAN
  BY <1>2 DEF StartDaily, StartRescue, Dist, DistFails, Review, SkipRefresh, RefreshDist, Upsert,
     Stop, Start, Crash, Steps
<1>10. \/ NewRun
       \/ SameRun /\ pc' \notin {"pull", "gate"} /\ (pc' \in Late => pc \in Late)
  <2>1. ASSUME Dist \/ SkipRefresh \/ RefreshDist \/ Upsert \/ Stop \/ Start \/ Review
        PROVE  pc' \notin {"pull", "gate"} /\ (pc' \in Late => pc \in Late)
    BY <2>1 DEF Dist, Review, SkipRefresh, RefreshDist, Upsert, Stop, Start
  <2> HIDE DEF Late
  <2> QED BY <1>4, <1>5, <1>6, <1>7, <1>8, <2>1
<1>11. pc' = "upsert" \/ registered' => registered \/ latest.status = "success" \/ pc = "upsert"
  BY DEF StartDaily, StartRescue, Dist, Review, SkipRefresh, RefreshDist, ShouldRefresh, Upsert,
     Stop, Start, Crash
<1>12. TypeOK'
  BY <1>1, <1>9, <1>10 DEF NightInv, TypeOK, HeadCommit, SameRun, NewRun
<1>13. Behind'
  BY <1>1 DEF NightInv, Behind, Sourced, HeadCommit
<1>14. Promised'
  BY <1>1, <1>10, <1>11 DEF NightInv, Promised, RecordedIsBuilt, SameRun, NewRun
<1> QED BY <1>12, <1>13, <1>14 DEF NightInv

LEMMA NextKeeps == NightInv /\ [Next]_vars => NightInv'
<1>1. ASSUME NightInv, UNCHANGED vars PROVE NightInv'
  BY <1>1 DEF vars, NightInv, TypeOK, HeadCommit, Behind, Sourced, Promised, RecordedIsBuilt
<1> QED BY <1>1, CommitKeeps, PullKeeps, BuildKeeps, PublishKeeps, RecordKeeps, OthersKeep, Zenon
        DEF Next, Step

(* The state of the nights stays within its types, and what a night knows  *)
(* and has recorded goes with what is in the state root.                   *)
THEOREM NightsAreConsistent == Spec => []NightInv
<1>1. Init => NightInv
  BY InitFits
<1> QED BY <1>1, NextKeeps, PTL DEF Spec

(* Whatever fails between pull, build and publish, and whichever tree the  *)
(* build reads, the published graph speaks of nothing newer than the       *)
(* source mirror that is published beside it.                              *)
THEOREM GraphIsNotAhead == Spec => []GraphNotAheadOfMirror
<1>1. NightInv => GraphNotAheadOfMirror
  BY DEF NightInv, Behind, Sourced, GraphNotAheadOfMirror
<1> QED BY <1>1, NightsAreConsistent, PTL

(* What nightly-latest.json calls done, so that the commit gate skips it,  *)
(* was built, for any history of commits, failures and crashes.            *)
THEOREM RecordsAreTrue == Spec => []RecordedIsBuilt
<1>1. NightInv => RecordedIsBuilt
  BY DEF NightInv, Promised
<1> QED BY <1>1, NightsAreConsistent, PTL

-----------------------------------------------------------------------------
(* The columns of a kind, and a row laid out by some of them.              *)
LEMMA ColumnsFit ==
  ASSUME NEW kind \in Kinds
  PROVE  /\ mappingOf(kind).columns \in Seq(Columns)
         /\ mappingOf(kind).worksheet \in {mappingOf(k).worksheet : k \in Kinds}
<1> DEFINE columns == mappingOf(kind).columns
<1>1. columns \in Seq(ToSet(columns))
  BY ColumnsAreListed
<1>2. ToSet(columns) \subseteq Columns
  BY DEF Columns
<1> HIDE DEF columns
<1>3. columns \in Seq(Columns)
  BY <1>1, <1>2
<1> QED BY <1>3 DEF columns

LEMMA RowFitsItsColumns ==
  ASSUME NEW kind \in Kinds, NEW columns \in Seq(Columns)
  PROVE  LET cells == buildRow(kind, columns)
         IN  /\ cells \in Seq(Cells) /\ Len(cells) = Len(columns)
             /\ \A i \in 1 .. Len(columns) : cells[i] = Cell(kind, columns[i])
<1> DEFINE cells == [i \in 1 .. Len(columns) |-> Cell(kind, columns[i])]
<1>1. buildRow(kind, columns) = cells
  BY DEF buildRow
<1>2. \A i \in 1 .. Len(columns) : Cell(kind, columns[i]) \in Cells
  BY DEF Cells
<1>3. cells \in [1 .. Len(columns) -> Cells]
  BY <1>2
<1>4. Len(columns) \in Nat
  OBVIOUS
<1>5. cells \in Seq(Cells)
  BY <1>3, <1>4
<1>6. DOMAIN cells = 1 .. Len(columns)
  OBVIOUS
<1>7. Len(cells) = Len(columns)
  BY <1>4, <1>5, <1>6
<1> QED BY <1>1, <1>5, <1>7

LEMMA ReverseFits ==
  ASSUME NEW S, NEW s \in Seq(S)
  PROVE  Reverse(s) \in Seq(S)
<1>1. \A i \in 1 .. Len(s) : s[(Len(s) - i) + 1] \in S
  OBVIOUS
<1>2. [i \in 1 .. Len(s) |-> s[(Len(s) - i) + 1]] \in [1 .. Len(s) -> S]
  BY <1>1
<1> QED BY <1>2 DEF Reverse

(* What a write knows, and its step to the next request.                   *)
LEMMA MoveFits ==
  ASSUME SheetsInv, NEW w \in writes, NEW step \in WriteSteps, Move(w, step)
  PROVE  /\ writes' \subseteq Writes
         /\ InWrites' = InWrites
         /\ \A u, v \in writes' : u.record = v.record => u = v
         /\ \A v \in writes' : \/ v \in writes
                               \/ v.client = w.client /\ v.record = w.record /\ v.at = step
<1> DEFINE moved == [w EXCEPT !.at = step]
<1>1. w \in Writes
  BY DEF SheetsInv, SheetsTypeOK
<1>2. /\ moved \in Writes
      /\ moved.client = w.client /\ moved.record = w.record /\ moved.at = step
  BY <1>1 DEF Writes
<1>3. writes' = (writes \ {w}) \cup {moved}
  BY DEF Move
<1> HIDE DEF moved
<1>4. \A v \in writes' : v = moved \/ (v \in writes /\ v # w)
  BY <1>3
<1>5. \A v \in writes : v.record = w.record => v = w
  BY DEF SheetsInv, RecordsApart
<1>6. \A u, v \in writes' : u.record = v.record => u = v
  BY <1>2, <1>4, <1>5 DEF SheetsInv, RecordsApart
<1>7. InWrites' = InWrites
  <2>1. \A v \in writes' : \E u \in writes : u.record = v.record
    BY <1>2, <1>4
  <2>2. \A v \in writes : \E u \in writes' : u.record = v.record
    BY <1>2, <1>3
  <2> QED BY <2>1, <2>2 DEF InWrites
<1>8. writes' \subseteq Writes
  BY <1>2, <1>4 DEF SheetsInv, SheetsTypeOK
<1> QED BY <1>2, <1>4, <1>6, <1>7, <1>8

LEMMA LearnFits ==
  ASSUME SheetsInv, NEW w \in writes, NEW what \in Memories,
         Learn(w, what)
  PROVE  /\ caches' \in [Clients -> [Kinds -> Memories]]
         /\ w.client \in Clients /\ w.record.kind \in Kinds
         /\ \A c \in Clients, kind \in Kinds :
              caches'[c][kind] = IF c = w.client /\ kind = w.record.kind THEN what ELSE caches[c][kind]
<1> DEFINE C == Memories
<1>1. w.client \in Clients /\ w.record.kind \in Kinds
  BY DEF SheetsInv, SheetsTypeOK, Writes, SheetRecords
<1>2. caches \in [Clients -> [Kinds -> C]] /\ what \in C
  BY DEF SheetsInv, SheetsTypeOK
<1> HIDE DEF C
<1>3. caches' = [caches EXCEPT ![w.client] = [caches[w.client] EXCEPT ![w.record.kind] = what]]
  BY <1>1, <1>2 DEF Learn
<1>4. [caches[w.client] EXCEPT ![w.record.kind] = what] \in [Kinds -> C]
  BY <1>1, <1>2
<1>5. caches' \in [Clients -> [Kinds -> C]]
  BY <1>2, <1>3, <1>4
<1>6. ASSUME NEW c \in Clients, NEW kind \in Kinds
      PROVE  caches'[c][kind] = IF c = w.client /\ kind = w.record.kind THEN what ELSE caches[c][kind]
  BY <1>1, <1>2, <1>3
<1> QED BY <1>1, <1>5, <1>6 DEF C

LEMMA KnownFits ==
  ASSUME SheetsInv, NEW w \in writes
  PROVE  /\ w.client \in Clients /\ w.record.kind \in Kinds /\ w.record \in SheetRecords
         /\ Known(w) \in Memories
         /\ Remembered(Known(w))
         /\ w.at \in {"header", "put", "append"} =>
              /\ Known(w).id \in DOMAIN sheets
              /\ sheets[Known(w).id] \in Worksheets
<1>1. w.client \in Clients /\ w.record.kind \in Kinds /\ w.record \in SheetRecords
  BY DEF SheetsInv, SheetsTypeOK, Writes, SheetRecords
<1>2. Known(w) \in Memories /\ Remembered(Known(w))
  BY <1>1 DEF SheetsInv, SheetsTypeOK, CachesFit, Known
<1>3. w.at \in {"header", "put", "append"} => Known(w).id \in DOMAIN sheets
  BY <1>2 DEF SheetsInv, CachesFit, Remembered
<1>4. \A id \in DOMAIN sheets :
        sheets[id] \in Worksheets
  BY DEF SheetsInv, SheetsTypeOK
<1> QED BY <1>1, <1>2, <1>3, <1>4

(* Steps that leave the rows as they are.                                  *)
LEMMA SameRows ==
  ASSUME SheetsInv, DOMAIN sheets \subseteq DOMAIN sheets',
         \A id \in DOMAIN sheets : sheets'[id].rows = sheets[id].rows,
         \A id \in DOMAIN sheets' : id \notin DOMAIN sheets => sheets'[id].rows = {}
  PROVE  /\ InRows' = InRows /\ RowsFit'
         /\ OneRowEach'
<1>1. \A id \in DOMAIN sheets' : \A row \in sheets'[id].rows :
        id \in DOMAIN sheets /\ row \in sheets[id].rows
  OBVIOUS
<1>2. \A id \in DOMAIN sheets : \A row \in sheets[id].rows :
        id \in DOMAIN sheets' /\ row \in sheets'[id].rows
  OBVIOUS
<1>3. InRows' = InRows
  <2>1. ASSUME NEW record PROVE record \in InRows <=>
          \E id \in DOMAIN sheets : \E row \in sheets[id].rows : record = row.record
    BY DEF InRows
  <2>2. ASSUME NEW record PROVE record \in InRows' <=>
          \E id \in DOMAIN sheets' : \E row \in sheets'[id].rows : record = row.record
    BY DEF InRows
  <2>3. \A record : record \in InRows <=> record \in InRows'
    BY <1>1, <1>2, <2>1, <2>2
  <2> QED BY <2>3 DEF InRows
<1>4. RowsFit'
  BY <1>1 DEF SheetsInv, RowsFit, RowFits
<1> QED BY <1>1, <1>3, <1>4 DEF SheetsInv, RecordsApart, OneRowEach

LEMMA RecordsFit ==
  ASSUME SheetsInv
  PROVE  \A record \in InWrites \cup InRows : record \in SheetRecords /\ record.run \in Nat
<1>1. writes \subseteq Writes /\ sheets \in Seq(Worksheets)
  BY DEF SheetsInv, SheetsTypeOK
<1>2. \A record \in InWrites : record \in SheetRecords
  BY <1>1 DEF InWrites, Writes
<1>3. \A id \in DOMAIN sheets : sheets[id] \in Worksheets
  BY <1>1
<1>4. \A id \in DOMAIN sheets : \A row \in sheets[id].rows : row.record \in SheetRecords
  BY <1>3 DEF Worksheets, Rows
<1>5. \A record \in InRows : record \in SheetRecords
  BY <1>4 DEF InRows
<1> QED BY <1>2, <1>5 DEF SheetRecords

(* One step that neither changes a worksheet nor learns anything.          *)
LEMMA MoveKeeps ==
  ASSUME SheetsInv, NEW w \in writes, NEW step \in WriteSteps, Move(w, step),
         step \in {"header", "put", "append"} => Known(w).id # 0,
         UNCHANGED <<sheets, caches, lost>>
  PROVE  SheetsInv' /\ InRows' = InRows /\ InWrites' = InWrites
<1>1. /\ writes' \subseteq Writes
      /\ InWrites' = InWrites
      /\ \A u, v \in writes' : u.record = v.record => u = v
      /\ \A v \in writes' : \/ v \in writes
                            \/ v.client = w.client /\ v.record = w.record /\ v.at = step
  BY MoveFits
<1>2. InRows' = InRows
  BY DEF InRows
<1>3. SheetsTypeOK'
  BY <1>1 DEF SheetsInv, SheetsTypeOK
<1>4. CachesFit'
  BY <1>1 DEF SheetsInv, CachesFit, Remembered, Known
<1>5. RowsFit' /\ RecordsApart'
  BY <1>1, <1>2 DEF SheetsInv, RowsFit, RecordsApart, OneRowEach
<1> QED BY <1>1, <1>2, <1>3, <1>4, <1>5 DEF SheetsInv

(* One that learns what is true of the worksheet it is about.              *)
LEMMA LearnKeeps ==
  ASSUME SheetsInv, NEW w \in writes, NEW step \in WriteSteps, Move(w, step),
         NEW what \in Memories, Learn(w, what), what.id # 0,
         sheets' \in Seq(Worksheets), DOMAIN sheets \subseteq DOMAIN sheets',
         \A id \in DOMAIN sheets : sheets'[id].rows = sheets[id].rows,
         \A id \in DOMAIN sheets' : id \notin DOMAIN sheets => sheets'[id].rows = {},
         Remembered(what)', \A known \in Memories : Remembered(known) => Remembered(known)',
         UNCHANGED lost
  PROVE  SheetsInv' /\ InRows' = InRows /\ InWrites' = InWrites
<1>1. /\ writes' \subseteq Writes
      /\ InWrites' = InWrites
      /\ \A u, v \in writes' : u.record = v.record => u = v
      /\ \A v \in writes' : \/ v \in writes
                            \/ v.client = w.client /\ v.record = w.record /\ v.at = step
  BY MoveFits
<1>2. /\ InRows' = InRows /\ RowsFit'
      /\ OneRowEach'
  BY SameRows
<1>3. /\ caches' \in [Clients -> [Kinds -> Memories]]
      /\ \A c \in Clients, kind \in Kinds :
           caches'[c][kind] = IF c = w.client /\ kind = w.record.kind THEN what ELSE caches[c][kind]
  BY LearnFits
<1>4. ASSUME NEW v \in writes', v.at \in {"header", "put", "append"} PROVE Known(v)'.id # 0
  <2>1. v.client \in Clients /\ v.record.kind \in Kinds
    BY <1>1 DEF Writes, SheetRecords
  <2>2. v \in writes \/ (v.client = w.client /\ v.record = w.record)
    BY <1>1
  <2>3. v \in writes => caches[v.client][v.record.kind].id # 0
    BY <1>4 DEF SheetsInv, CachesFit, Known
  <2> QED BY <1>3, <2>1, <2>2, <2>3 DEF Known
<1>5. ASSUME NEW c \in Clients, NEW kind \in Kinds PROVE Remembered(caches[c][kind])'
  <2>1. caches[c][kind] \in Memories /\ Remembered(caches[c][kind])
    BY DEF SheetsInv, SheetsTypeOK, CachesFit
  <2>2. CASE caches'[c][kind] = what
    BY <2>2 DEF Remembered
  <2>3. CASE caches'[c][kind] = caches[c][kind]
    BY <2>1, <2>3 DEF Remembered
  <2> QED BY <1>3, <2>2, <2>3
<1>6. CachesFit'
  BY <1>4, <1>5 DEF CachesFit, Known
<1>7. RecordsApart'
  BY <1>1, <1>2 DEF SheetsInv, RecordsApart
<1>8. SheetsTypeOK'
  BY <1>1, <1>3 DEF SheetsInv, SheetsTypeOK
<1> QED BY <1>1, <1>2, <1>6, <1>7, <1>8 DEF SheetsInv

(* What is remembered of a worksheet that has just been found or added.    *)
LEMMA FoundFits ==
  ASSUME NEW id \in Nat, id # 0
  PROVE  \E what \in Memories : /\ what = [Unknown EXCEPT !.id = id]
                               /\ what.id = id /\ what.columns = <<>> /\ what.edition = 0
<1> DEFINE what == [id |-> id, columns |-> <<>>, edition |-> 0]
<1>1. <<>> \in Seq(Columns)
  OBVIOUS
<1>2. [Unknown EXCEPT !.id = id] = what
  BY DEF Unknown
<1>3. what \in Memories /\ what.id = id /\ what.columns = <<>> /\ what.edition = 0
  BY <1>1 DEF Memories
<1> HIDE DEF what
<1> QED BY <1>2, <1>3

LEMMA SameSheets ==
  ASSUME UNCHANGED sheets
  PROVE  \A known \in Memories : Remembered(known) => Remembered(known)'
BY DEF Remembered

(* A search that finds the worksheet learns its place and nothing else.    *)
LEMMA EnsureWorksheetKeeps ==
  ASSUME SheetsInv, NEW w \in writes, EnsureWorksheet(w)
  PROVE  SheetsInv' /\ InRows' = InRows /\ InWrites' = InWrites /\ lost' = lost
<1>1. UNCHANGED <<sheets, lost>> /\ {"header", "add"} \subseteq WriteSteps
  BY DEF EnsureWorksheet, WriteSteps
<1>2. CASE Known(w).id # 0 /\ Move(w, "header") /\ UNCHANGED caches
  BY <1>1, <1>2, MoveKeeps
<1>3. CASE Move(w, "add") /\ UNCHANGED caches
  BY <1>1, <1>3, MoveKeeps
<1>4. ASSUME NEW id \in Titled(mappingOf(w.record.kind).worksheet),
             Learn(w, [Unknown EXCEPT !.id = id]), Move(w, "header")
      PROVE  SheetsInv' /\ InRows' = InRows /\ InWrites' = InWrites
  <2>1. sheets \in Seq(Worksheets) /\ id \in DOMAIN sheets
    BY DEF Titled, SheetsInv, SheetsTypeOK
  <2>2. sheets[id] \in Worksheets /\ id \in Nat /\ id # 0
    BY <2>1
  <2>3. PICK what \in Memories : /\ what = [Unknown EXCEPT !.id = id]
                                /\ what.id = id /\ what.columns = <<>> /\ what.edition = 0
    BY <2>2, FoundFits
  <2>4. Learn(w, what)
    BY <1>4, <2>3
  <2>5. Remembered(what)'
    BY <1>1, <2>1, <2>2, <2>3 DEF Remembered, Begins, Worksheets
  <2> QED BY <1>1, <1>4, <2>1, <2>2, <2>3, <2>4, <2>5, SameSheets, LearnKeeps
<1> QED BY <1>1, <1>2, <1>3, <1>4, Zenon DEF EnsureWorksheet

(* A new worksheet has no header, no edition and no rows.                  *)
LEMMA AddWorksheetKeeps ==
  ASSUME SheetsInv, NEW w \in writes, AddWorksheet(w)
  PROVE  SheetsInv' /\ InRows' = InRows /\ InWrites' = InWrites /\ lost' = lost
<1> DEFINE title == mappingOf(w.record.kind).worksheet
           new == Worksheet(title)
<1>1. /\ sheets' = Append(sheets, new) /\ Learn(w, [Unknown EXCEPT !.id = Len(sheets) + 1]) /\ Move(w, "header") /\ UNCHANGED lost
      /\ "header" \in WriteSteps
  BY DEF AddWorksheet, WriteSteps
<1>2. w.client \in Clients /\ w.record.kind \in Kinds /\ sheets \in Seq(Worksheets)
      /\ Len(sheets) \in Nat
  BY KnownFits DEF SheetsInv, SheetsTypeOK
<1>3. <<>> \in Seq(Columns)
  OBVIOUS
<1>4. new \in Worksheets /\ new.header = <<>> /\ new.edition = 0 /\ new.rows = {}
  BY <1>2, <1>3 DEF Worksheet, Worksheets
<1>5. PICK what \in Memories : /\ what = [Unknown EXCEPT !.id = Len(sheets) + 1]
                              /\ what.id = Len(sheets) + 1 /\ what.columns = <<>> /\ what.edition = 0
  <2>1. Len(sheets) + 1 \in Nat /\ Len(sheets) + 1 # 0
    BY <1>2
  <2> QED BY <2>1, FoundFits
<1> HIDE DEF new
<1>6. /\ sheets' \in Seq(Worksheets) /\ DOMAIN sheets' = 1 .. (Len(sheets) + 1)
      /\ DOMAIN sheets = 1 .. Len(sheets)
      /\ \A id \in DOMAIN sheets : id \in DOMAIN sheets' /\ sheets'[id] = sheets[id]
      /\ sheets'[Len(sheets) + 1] = new
  BY <1>1, <1>2, <1>4
<1>7. Remembered(what)'
  BY <1>2, <1>4, <1>5, <1>6 DEF Remembered, Begins
<1>8. \A known \in Memories : Remembered(known) => Remembered(known)'
  BY <1>6 DEF Remembered
<1>9. \A id \in DOMAIN sheets' : id \notin DOMAIN sheets => sheets'[id].rows = {}
  BY <1>2, <1>4, <1>6
<1>10. what.id # 0 /\ Learn(w, what)
  BY <1>1, <1>2, <1>5
<1> QED BY <1>1, <1>5, <1>6, <1>7, <1>8, <1>9, <1>10, LearnKeeps

(* The header is read with its edition, in one request.                    *)
LEMMA EnsureHeaderKeeps ==
  ASSUME SheetsInv, NEW w \in writes, EnsureHeader(w)
  PROVE  SheetsInv' /\ InRows' = InRows /\ InWrites' = InWrites /\ lost' = lost
<1> DEFINE sheet == sheets[Known(w).id]
           read == [Known(w) EXCEPT !.columns = sheet.header, !.edition = sheet.edition]
<1>1. /\ UNCHANGED <<sheets, lost>> /\ {"append", "put"} \subseteq WriteSteps /\ w.at = "header"
  BY DEF EnsureHeader, WriteSteps
<1>2. /\ Known(w).id \in DOMAIN sheets /\ sheet \in Worksheets /\ Known(w) \in Memories
      /\ sheets \in Seq(Worksheets)
  BY <1>1, KnownFits DEF SheetsInv, SheetsTypeOK
<1>3. Known(w).id # 0
  BY <1>2
<1>4. CASE (Move(w, "append") \/ Move(w, "put")) /\ UNCHANGED caches
  BY <1>1, <1>3, <1>4, MoveKeeps
<1>5. CASE Learn(w, read) /\ Move(w, "append")
  <2>1. PICK what \in Memories :
           /\ what = read /\ what.id = Known(w).id /\ what.columns = sheet.header
           /\ what.edition = sheet.edition /\ sheet.header \in Seq(Columns) /\ sheet.edition \in Nat
    <3>1. /\ read \in Memories /\ read.id = Known(w).id /\ read.columns = sheet.header
          /\ read.edition = sheet.edition /\ sheet.header \in Seq(Columns) /\ sheet.edition \in Nat
      BY <1>2 DEF Memories, Worksheets
    <3> HIDE DEF read
    <3> QED BY <3>1
  <2>2. Remembered(what)'
    BY <1>1, <1>2, <2>1 DEF Remembered, Begins
  <2>3. Learn(w, what) /\ what.id # 0
    BY <1>3, <1>5, <2>1
  <2> QED BY <1>1, <1>2, <1>5, <2>2, <2>3, SameSheets, LearnKeeps
<1> QED BY <1>1, <1>4, <1>5, Zenon DEF EnsureHeader

(* The configured columns over the first cells of a header.                *)
LEMMA HeaderFits ==
  ASSUME NEW columns \in Seq(Columns), NEW old \in Seq(Columns)
  PROVE  LET new == columns \o SubSeq(old, Len(columns) + 1, Len(old))
         IN  new \in Seq(Columns) /\ Begins(new, columns)
<1> DEFINE rest == SubSeq(old, Len(columns) + 1, Len(old))
<1>1. rest \in Seq(Columns)
  OBVIOUS
<1> HIDE DEF rest
<1>2. columns \o rest \in Seq(Columns) /\ Begins(columns \o rest, columns)
  BY <1>1 DEF Begins
<1> QED BY <1>2 DEF rest

(* A header that is put over an empty one agrees with what others remember *)
(* of it, which is nothing; over another one it is a new edition.          *)
LEMMA PutHeaderKeeps ==
  ASSUME SheetsInv, NEW w \in writes, PutHeader(w)
  PROVE  SheetsInv' /\ InRows' = InRows /\ InWrites' = InWrites /\ lost' = lost
<1> DEFINE at == Known(w).id
           columns == mappingOf(w.record.kind).columns
           old == sheets[at].header
           new == columns \o SubSeq(old, Len(columns) + 1, Len(old))
           edition == sheets[at].edition + (IF old \in {<<>>, new} THEN 0 ELSE 1)
           learnt == [Known(w) EXCEPT !.columns = columns, !.edition = edition]
<1>1. /\ w.at = "put" /\ Learn(w, learnt) /\ Move(w, "append") /\ UNCHANGED lost
      /\ sheets' = [sheets EXCEPT ![at].header = new, ![at].edition = edition]
      /\ "append" \in WriteSteps
  BY DEF PutHeader, WriteSteps
<1>2. /\ at \in DOMAIN sheets /\ sheets[at] \in Worksheets /\ Known(w) \in Memories
      /\ sheets \in Seq(Worksheets) /\ w.record.kind \in Kinds
  BY <1>1, KnownFits DEF SheetsInv, SheetsTypeOK
<1>3. columns \in Seq(Columns) /\ old \in Seq(Columns) /\ sheets[at].edition \in Nat
  BY <1>2, ColumnsFit DEF Worksheets
<1>4. new \in Seq(Columns) /\ Begins(new, columns)
  BY <1>3, HeaderFits
<1> HIDE DEF new, columns
<1>5. /\ edition \in Nat /\ sheets[at].edition <= edition
      /\ edition = sheets[at].edition => old = <<>> \/ old = new
  BY <1>3
<1> HIDE DEF edition
<1>6. PICK what \in Memories :
         /\ what = learnt /\ what.id = at /\ what.columns = columns /\ what.edition = edition
  <2>1. /\ learnt \in Memories /\ learnt.id = at /\ learnt.columns = columns
        /\ learnt.edition = edition
    BY <1>2, <1>3, <1>5 DEF Memories
  <2> HIDE DEF learnt
  <2> QED BY <2>1
<1> DEFINE put == [sheets[at] EXCEPT !.header = new, !.edition = edition]
<1>7. /\ put \in Worksheets /\ put.header = new /\ put.edition = edition
      /\ put.rows = sheets[at].rows
  BY <1>2, <1>4, <1>5 DEF Worksheets
<1>8. sheets' = [sheets EXCEPT ![at] = put]
  BY <1>1
<1> HIDE DEF put
<1>9. /\ sheets' \in Seq(Worksheets) /\ DOMAIN sheets' = DOMAIN sheets /\ sheets'[at] = put
      /\ \A id \in DOMAIN sheets : id # at => sheets'[id] = sheets[id]
  BY <1>2, <1>7, <1>8
<1>10. Remembered(what)'
  BY <1>2, <1>4, <1>5, <1>6, <1>7, <1>9 DEF Remembered
<1>11. ASSUME NEW known \in Memories, Remembered(known) PROVE Remembered(known)'
  <2>1. CASE known.id = at
    <3>1. at # 0
      BY <1>2
    <3>2. /\ known.edition <= sheets[at].edition /\ known.edition \in Nat
          /\ known.columns \in Seq(Columns)
          /\ known.edition = sheets[at].edition => Begins(old, known.columns)
      BY <1>11, <2>1, <3>1 DEF Remembered, Memories
    <3>3. ASSUME known.edition = edition PROVE Begins(new, known.columns)
      <4>1. known.edition = sheets[at].edition /\ edition = sheets[at].edition
        BY <1>3, <1>5, <3>2, <3>3
      <4>2. CASE old = new
        BY <3>2, <4>1, <4>2
      <4>3. CASE old = <<>>
        <5>1. Len(known.columns) = 0
          BY <3>2, <4>1, <4>3 DEF Begins
        <5> QED BY <1>4, <5>1 DEF Begins
      <4> QED BY <1>5, <4>1, <4>2, <4>3
    <3>4. known.edition <= edition
      BY <1>3, <1>5, <3>2
    <3> QED BY <1>2, <1>7, <1>9, <2>1, <3>3, <3>4 DEF Remembered
  <2>2. CASE known.id # at
    BY <1>9, <1>11, <2>2 DEF Remembered
  <2> QED BY <2>1, <2>2
<1>12. \A id \in DOMAIN sheets : sheets'[id].rows = sheets[id].rows
  BY <1>7, <1>9
<1>13. what.id # 0 /\ Learn(w, what)
  BY <1>1, <1>2, <1>6
<1> QED BY <1>1, <1>6, <1>9, <1>10, <1>11, <1>12, <1>13, LearnKeeps

(* The row that a write appends is under the columns it was laid out by,   *)
(* if its client has read the edition that the worksheet has.              *)
LEMMA AppendRowKeeps ==
  ASSUME SheetsInv, NEW w \in writes, AppendRow(w)
  PROVE  SheetsInv' /\ InWrites' \cup InRows' \subseteq InWrites \cup InRows /\ lost' = lost
<1> DEFINE at == Known(w).id
           made == [record |-> w.record, cells |-> buildRow(w.record.kind, Known(w).columns),
                    under |-> sheets[at].header, fresh |-> Known(w).edition = sheets[at].edition]
<1>1. /\ w.at = "append" /\ writes' = writes \ {w} /\ UNCHANGED <<caches, lost>>
      /\ sheets' = [sheets EXCEPT ![at].rows = @ \cup {made}]
  BY DEF AppendRow
<1>2. /\ at \in DOMAIN sheets /\ sheets[at] \in Worksheets /\ Known(w) \in Memories
      /\ sheets \in Seq(Worksheets) /\ w.record.kind \in Kinds /\ w.record \in SheetRecords
      /\ Remembered(Known(w))
  BY <1>1, KnownFits DEF SheetsInv, SheetsTypeOK
<1>3. /\ Known(w).columns \in Seq(Columns) /\ sheets[at].header \in Seq(Columns)
      /\ sheets[at].rows \subseteq Rows
  BY <1>2 DEF Memories, Worksheets
<1>4. PICK row : row = made
  OBVIOUS
<1>5. /\ row.record = w.record /\ row.cells = buildRow(w.record.kind, Known(w).columns)
      /\ row.under = sheets[at].header /\ row.fresh = (Known(w).edition = sheets[at].edition)
  BY <1>4
<1>6. /\ row.cells \in Seq(Cells) /\ Len(row.cells) = Len(Known(w).columns)
      /\ \A i \in 1 .. Len(Known(w).columns) : row.cells[i] = Cell(w.record.kind, Known(w).columns[i])
  BY <1>2, <1>3, <1>5, RowFitsItsColumns
<1>7. row \in Rows
  BY <1>2, <1>3, <1>4, <1>5, <1>6 DEF Rows
<1>8. RowFits(row)
  <2>1. SUFFICES ASSUME Known(w).edition = sheets[at].edition
                 PROVE  /\ Len(row.cells) <= Len(row.under)
                        /\ \A i \in DOMAIN row.cells : row.cells[i] = Cell(row.record.kind, row.under[i])
    BY <1>5 DEF RowFits
  <2>2. Begins(sheets[at].header, Known(w).columns)
    BY <1>2, <2>1 DEF Remembered
  <2> QED BY <1>5, <1>6, <2>2 DEF Begins
<1> HIDE DEF made
<1> DEFINE filled == [sheets[at] EXCEPT !.rows = @ \cup {row}]
<1>9. /\ filled \in Worksheets /\ filled.header = sheets[at].header
      /\ filled.edition = sheets[at].edition /\ filled.rows = sheets[at].rows \cup {row}
  BY <1>2, <1>3, <1>7 DEF Worksheets
<1>10. sheets' = [sheets EXCEPT ![at] = filled]
  BY <1>1, <1>4
<1> HIDE DEF filled
<1>11. /\ sheets' \in Seq(Worksheets) /\ DOMAIN sheets' = DOMAIN sheets /\ sheets'[at] = filled
       /\ \A id \in DOMAIN sheets : id # at => sheets'[id] = sheets[id]
  BY <1>2, <1>9, <1>10
<1>12. \A id \in DOMAIN sheets : /\ sheets'[id].header = sheets[id].header
                                 /\ sheets'[id].edition = sheets[id].edition
  BY <1>9, <1>11
<1>13. \A id \in DOMAIN sheets : \A old \in sheets'[id].rows :
         old \in sheets[id].rows \/ (old = row /\ id = at)
  BY <1>9, <1>11
<1>14. SheetsTypeOK'
  BY <1>1, <1>11 DEF SheetsInv, SheetsTypeOK
<1>15. CachesFit'
  <2>1. ASSUME NEW known, Remembered(known) PROVE Remembered(known)'
    BY <1>11, <1>12, <2>1 DEF Remembered
  <2>2. \A c \in Clients, kind \in Kinds : Remembered(caches[c][kind])'
    BY <1>1, <2>1 DEF SheetsInv, CachesFit, Remembered
  <2> QED BY <1>1, <2>2 DEF SheetsInv, CachesFit, Known
<1>16. RowsFit'
  <2> SUFFICES ASSUME NEW id \in DOMAIN sheets, NEW old \in sheets'[id].rows PROVE RowFits(old)
    BY <1>11 DEF RowsFit, RowFits
  <2> QED BY <1>8, <1>13 DEF SheetsInv, RowsFit
<1>17. InRows' \subseteq InRows \cup {w.record}
  <2>1. ASSUME NEW record PROVE record \in InRows <=>
          \E id \in DOMAIN sheets : \E old \in sheets[id].rows : record = old.record
    BY DEF InRows
  <2>2. ASSUME NEW record PROVE record \in InRows' <=>
          \E id \in DOMAIN sheets' : \E old \in sheets'[id].rows : record = old.record
    BY DEF InRows
  <2> QED BY <1>5, <1>11, <1>13, <2>1, <2>2
<1>18. InWrites' \subseteq InWrites /\ w.record \in InWrites /\ w.record \notin InWrites'
  <2>1. \A v \in writes : v.record = w.record => v = w
    BY DEF SheetsInv, RecordsApart
  <2> QED BY <1>1, <2>1 DEF InWrites
<1>19. RecordsApart'
  <2>1. InWrites' \cap InRows' = {}
    BY <1>17, <1>18 DEF SheetsInv, RecordsApart
  <2>2. \A u, v \in writes' : u.record = v.record => u = v
    BY <1>1 DEF SheetsInv, RecordsApart
  <2>3. \A id \in DOMAIN sheets : \A old \in sheets[id].rows : old.record # w.record
    BY <1>18 DEF SheetsInv, RecordsApart, InRows
  <2>4. \A id, other \in DOMAIN sheets' : \A old \in sheets'[id].rows, twin \in sheets'[other].rows :
          twin.record = old.record => twin = old /\ other = id
    BY <1>5, <1>11, <1>13, <2>3 DEF SheetsInv, RecordsApart, OneRowEach
  <2> QED BY <2>1, <2>2, <2>4 DEF RecordsApart, OneRowEach
<1> QED BY <1>1, <1>14, <1>15, <1>16, <1>17, <1>18, <1>19 DEF SheetsInv

(* Losing writes, and forgetting a client's whole memory with them.        *)
LEMMA LosingKeeps ==
  ASSUME SheetsInv, UNCHANGED sheets, writes' \subseteq writes, lost' \subseteq SheetRecords,
         caches' \in [Clients -> [Kinds -> Memories]],
         \A c \in Clients, kind \in Kinds : caches'[c][kind] \in {caches[c][kind], Unknown},
         \A w \in writes' : caches'[w.client] = caches[w.client]
  PROVE  SheetsInv' /\ InRows' = InRows /\ InWrites' \subseteq InWrites
<1>1. InRows' = InRows /\ InWrites' \subseteq InWrites
  BY DEF InRows, InWrites
<1>2. SheetsTypeOK'
  BY DEF SheetsInv, SheetsTypeOK
<1>3. ASSUME NEW c \in Clients, NEW kind \in Kinds PROVE Remembered(caches[c][kind])'
  <2>1. Unknown.id = 0
    BY DEF Unknown
  <2>2. Remembered(caches[c][kind])
    BY DEF SheetsInv, CachesFit
  <2> QED BY <2>1, <2>2 DEF Remembered
<1>4. CachesFit'
  BY <1>3 DEF SheetsInv, CachesFit, Known
<1>5. RowsFit' /\ RecordsApart'
  BY <1>1 DEF SheetsInv, RowsFit, RecordsApart, OneRowEach
<1> QED BY <1>1, <1>2, <1>4, <1>5 DEF SheetsInv

LEMMA FailKeeps ==
  ASSUME SheetsInv, NEW w \in writes, Fail(w)
  PROVE  /\ SheetsInv' /\ InRows' = InRows /\ InWrites' \subseteq InWrites
         /\ lost' \subseteq lost \cup InWrites
<1>1. /\ UNCHANGED <<sheets, caches>> /\ writes' \subseteq writes /\ lost' = lost \cup {w.record}
  BY DEF Fail
<1>2. w.record \in SheetRecords /\ w.record \in InWrites
  BY KnownFits DEF InWrites
<1>3. lost' \subseteq SheetRecords /\ caches' \in [Clients -> [Kinds -> Memories]]
  BY <1>1, <1>2 DEF SheetsInv, SheetsTypeOK
<1>4. \A v \in writes' : caches'[v.client] = caches[v.client]
  BY <1>1
<1> QED BY <1>1, <1>2, <1>3, <1>4, LosingKeeps

LEMMA ForgetKeeps ==
  ASSUME SheetsInv, NEW client \in Clients, Forget(client)
  PROVE  /\ SheetsInv' /\ InRows' = InRows /\ InWrites' \subseteq InWrites
         /\ lost' \subseteq lost \cup InWrites
<1>1. /\ UNCHANGED sheets /\ writes' = {w \in writes : w.client # client}
      /\ caches' = [caches EXCEPT ![client] = NewClient]
  BY DEF Forget
<1>2. lost' \subseteq lost \cup InWrites
  BY DEF Forget, InWrites
<1>3. InWrites \subseteq SheetRecords /\ lost \subseteq SheetRecords
  BY DEF InWrites, SheetsInv, SheetsTypeOK, Writes
<1>4. Unknown \in Memories
  <2>1. <<>> \in Seq(Columns)
    OBVIOUS
  <2> QED BY <2>1 DEF Unknown, Memories
<1>5. /\ caches \in [Clients -> [Kinds -> Memories]] /\ NewClient \in [Kinds -> Memories]
      /\ \A kind \in Kinds : NewClient[kind] = Unknown
  BY <1>4 DEF NewClient, SheetsInv, SheetsTypeOK
<1>6. /\ caches' \in [Clients -> [Kinds -> Memories]]
      /\ \A c \in Clients, kind \in Kinds : caches'[c][kind] \in {caches[c][kind], Unknown}
      /\ \A w \in writes' : caches'[w.client] = caches[w.client]
  BY <1>1, <1>5 DEF SheetsInv, SheetsTypeOK, Writes
<1> QED BY <1>1, <1>2, <1>3, <1>6, LosingKeeps

(* People make a new edition, of which no client remembers anything.       *)
LEMMA EditHeaderKeeps ==
  ASSUME SheetsInv, NEW at \in DOMAIN sheets, NEW header \in Seq(Columns), EditHeader(at, header)
  PROVE  SheetsInv' /\ InRows' = InRows /\ InWrites' = InWrites /\ lost' = lost
<1>1. /\ sheets' = [sheets EXCEPT ![at].header = header, ![at].edition = @ + 1]
      /\ UNCHANGED <<caches, writes, lost>>
  BY DEF EditHeader
<1>2. sheets \in Seq(Worksheets) /\ sheets[at] \in Worksheets
  BY DEF SheetsInv, SheetsTypeOK
<1> DEFINE next == sheets[at].edition + 1
           edited == [sheets[at] EXCEPT !.header = header, !.edition = next]
<1>3. /\ edited \in Worksheets /\ edited.edition = sheets[at].edition + 1
      /\ edited.rows = sheets[at].rows /\ sheets[at].edition \in Nat
  <2>1. sheets[at].edition \in Nat /\ next \in Nat
    BY <1>2 DEF Worksheets
  <2> HIDE DEF next
  <2>2. /\ edited \in Worksheets /\ edited.edition = next /\ edited.rows = sheets[at].rows
    BY <1>2, <2>1 DEF Worksheets
  <2> QED BY <2>1, <2>2 DEF next
<1>4. sheets' = [sheets EXCEPT ![at] = edited]
  BY <1>1
<1> HIDE DEF edited
<1>5. /\ sheets' \in Seq(Worksheets) /\ DOMAIN sheets' = DOMAIN sheets /\ sheets'[at] = edited
      /\ \A id \in DOMAIN sheets : id # at => sheets'[id] = sheets[id]
  BY <1>2, <1>3, <1>4
<1>6. ASSUME NEW known \in Memories, Remembered(known) PROVE Remembered(known)'
  BY <1>3, <1>5, <1>6 DEF Remembered, Memories
<1>7. \A id \in DOMAIN sheets : sheets'[id].rows = sheets[id].rows
  BY <1>3, <1>5
<1>8. /\ InRows' = InRows /\ RowsFit'
      /\ OneRowEach'
  BY <1>5, <1>7, SameRows
<1>9. InWrites' = InWrites
  BY <1>1 DEF InWrites
<1>10. SheetsTypeOK'
  BY <1>1, <1>5 DEF SheetsInv, SheetsTypeOK
<1>11. CachesFit'
  <2>1. \A c \in Clients, kind \in Kinds :
          caches[c][kind] \in Memories /\ Remembered(caches[c][kind])
    BY DEF SheetsInv, SheetsTypeOK, CachesFit
  <2>2. \A c \in Clients, kind \in Kinds : Remembered(caches[c][kind])'
    BY <1>1, <1>6, <2>1 DEF Remembered
  <2> QED BY <1>1, <2>2 DEF SheetsInv, CachesFit, Known
<1>12. RecordsApart'
  BY <1>1, <1>8, <1>9 DEF SheetsInv, RecordsApart
<1> QED BY <1>1, <1>8, <1>9, <1>10, <1>11, <1>12 DEF SheetsInv

(* A write of a record that is nowhere yet.                                *)
LEMMA BeginKeeps ==
  ASSUME SheetsInv, NEW client \in Clients, NEW record \in SheetRecords,
         record \notin InWrites \cup InRows,
         writes' = writes \cup {Begin(client, record)}, UNCHANGED <<sheets, caches, lost>>
  PROVE  SheetsInv' /\ InRows' = InRows /\ InWrites' = InWrites \cup {record}
<1> DEFINE begun == Begin(client, record)
<1>1. /\ begun \in Writes /\ begun.record = record /\ begun.at = "worksheet"
  BY DEF Begin, Writes, WriteSteps
<1> HIDE DEF begun
<1>2. writes' = writes \cup {begun}
  BY DEF begun
<1>3. InRows' = InRows /\ InWrites' = InWrites \cup {record}
  BY <1>1, <1>2 DEF InRows, InWrites
<1>4. SheetsTypeOK'
  BY <1>1, <1>2 DEF SheetsInv, SheetsTypeOK
<1>5. CachesFit'
  BY <1>1, <1>2 DEF SheetsInv, CachesFit, Remembered, Known
<1>6. RowsFit'
  BY DEF SheetsInv, RowsFit
<1>7. \A v \in writes : v.record # record
  BY DEF InWrites
<1>8. RecordsApart'
  BY <1>1, <1>2, <1>3, <1>7 DEF SheetsInv, RecordsApart, OneRowEach
<1> QED BY <1>3, <1>4, <1>5, <1>6, <1>8 DEF SheetsInv

LEMMA WriteStepKeeps ==
  ASSUME SheetsInv, NEW w \in writes, WriteStep(w)
  PROVE  SheetsInv' /\ InWrites' \cup InRows' \subseteq InWrites \cup InRows /\ lost' = lost
BY EnsureWorksheetKeeps, AddWorksheetKeeps, EnsureHeaderKeeps, PutHeaderKeeps, AppendRowKeeps
   DEF WriteStep

-----------------------------------------------------------------------------
(* Nights and events.                                                      *)

(* Steps that write nothing new, and that no night takes.                  *)
LEMMA QuietKeeps ==
  ASSUME RecordsInv, SheetsInv', InWrites' \cup InRows' \subseteq InWrites \cup InRows,
         UNCHANGED <<night, work>>
  PROVE  RecordsInv'
<1>1. NightsTypeOK'
  BY DEF RecordsInv, NightsTypeOK
<1>2. NightsApart'
  BY DEF RecordsInv, NightsApart
<1> QED BY <1>1, <1>2 DEF RecordsInv

(* A step of one night.                                                    *)
LEMMA NightKeeps ==
  ASSUME RecordsInv, SheetsInv', NEW n \in Nights, NEW it \in NightRuns,
         night' = [night EXCEPT ![n] = it], work' \in {work, work + 1},
         \A record \in InWrites' \cup InRows' :
           record \in InWrites \cup InRows \/ (record.run = it.run /\ it.run # 0),
         it.run <= work', it.at # "idle" => it.run # 0,
         it.run \in {0, night[n].run, work'}, it.run = work' => work' = work + 1 \/ it.run = night[n].run,
         \A record \in it.left : /\ record.kind # "user" /\ record.run = it.run /\ record.run # 0
                                 /\ record \notin InWrites' \cup InRows',
         it.at \in {"projects", "aggregate"} =>
           \A record \in InWrites' \cup InRows' : record.run # it.run
  PROVE  RecordsInv'
<1>1. /\ night \in [Nights -> NightRuns] /\ work \in Nat /\ work' \in Nat
      /\ night' \in [Nights -> NightRuns] /\ night'[n] = it
      /\ \A m \in Nights : m # n => night'[m] = night[m]
  BY DEF RecordsInv, NightsTypeOK
<1>2. \A m \in Nights : night[m].run \in Nat /\ night[m].run <= work /\ it.run \in Nat
  BY <1>1 DEF NightRuns, RecordsInv, NightsApart
<1>3. \A m \in Nights : m # n /\ night[m].run = it.run => it.run = 0
  <2> SUFFICES ASSUME NEW m \in Nights, m # n, night[m].run = it.run, it.run # 0 PROVE FALSE
    OBVIOUS
  <2>1. CASE it.run = night[n].run
    BY <2>1 DEF Nights, RecordsInv, NightsApart
  <2>2. CASE it.run = work' /\ work' = work + 1
    BY <1>1, <1>2, <2>2
  <2> QED BY <2>1, <2>2
<1>4. \A record \in InWrites' \cup InRows' : record.run <= work'
  <2>1. \A record \in InWrites' \cup InRows' : record.run \in Nat
    <3>1. writes' \subseteq Writes /\ sheets' \in Seq(Worksheets)
      BY DEF SheetsInv, SheetsTypeOK
    <3>2. \A record \in InWrites' : record \in SheetRecords
      BY <3>1 DEF InWrites, Writes
    <3>3. \A id \in DOMAIN sheets' : sheets'[id] \in Worksheets
      BY <3>1
    <3>4. \A id \in DOMAIN sheets' : \A row \in sheets'[id].rows : row.record \in SheetRecords
      BY <3>3 DEF Worksheets, Rows
    <3>5. \A record \in InRows' : record \in SheetRecords
      BY <3>4 DEF InRows
    <3> QED BY <3>2, <3>5 DEF SheetRecords
  <2> QED BY <1>1, <2>1 DEF RecordsInv, NightsApart
<1>5. ASSUME NEW m \in Nights
      PROVE  /\ night'[m].run <= work' /\ (night'[m].at # "idle" => night'[m].run # 0)
             /\ \A record \in night'[m].left :
                  /\ record.kind # "user" /\ record.run = night'[m].run /\ record.run # 0
                  /\ record \notin InWrites' \cup InRows'
             /\ night'[m].at \in {"projects", "aggregate"} =>
                  \A record \in InWrites' \cup InRows' : record.run # night'[m].run
  <2>1. CASE m = n
    BY <1>1, <2>1
  <2>2. CASE m # n
    <3>1. night'[m] = night[m] /\ night[m].run <= work'
      BY <1>1, <1>2, <2>2
    <3>2. night[m].at # "idle" => night[m].run # 0
      BY DEF RecordsInv, NightsApart
    <3>3. ASSUME NEW record \in night[m].left
          PROVE  /\ record.kind # "user" /\ record.run = night[m].run /\ record.run # 0
                 /\ record \notin InWrites' \cup InRows'
      <4>1. /\ record.kind # "user" /\ record.run = night[m].run /\ record.run # 0
            /\ record \notin InWrites \cup InRows
        BY DEF RecordsInv, NightsApart
      <4> QED BY <1>3, <2>2, <4>1
    <3>4. ASSUME night[m].at \in {"projects", "aggregate"}, NEW record \in InWrites' \cup InRows'
          PROVE  record.run # night[m].run
      <4>1. \A old \in InWrites \cup InRows : old.run # night[m].run
        BY <3>4 DEF RecordsInv, NightsApart
      <4> QED BY <1>3, <2>2, <4>1
    <3> QED BY <3>1, <3>2, <3>3, <3>4
  <2> QED BY <2>1, <2>2
<1>6. night'["daily"].run = night'["manual"].run => night'["daily"].run = 0
  <2>1. n \in {"daily", "manual"} /\ "daily" \in Nights /\ "manual" \in Nights /\ "daily" # "manual"
    BY DEF Nights
  <2>2. CASE n = "daily"
    BY <1>1, <1>3, <2>1, <2>2
  <2>3. CASE n = "manual"
    BY <1>1, <1>3, <2>1, <2>3
  <2> QED BY <2>1, <2>2, <2>3
<1>7. NightsTypeOK'
  BY <1>1 DEF NightsTypeOK
<1>8. NightsApart'
  BY <1>4, <1>5, <1>6 DEF NightsApart
<1> QED BY <1>7, <1>8 DEF RecordsInv

LEMMA SameRecords ==
  ASSUME SheetsInv, UNCHANGED sheetVars
  PROVE  SheetsInv' /\ InRows' = InRows /\ InWrites' = InWrites
<1> USE DEF sheetVars
<1>1. SheetsTypeOK' /\ InRows' = InRows /\ InWrites' = InWrites
  BY DEF SheetsInv, SheetsTypeOK, InRows, InWrites
<1>2. CachesFit'
  BY DEF SheetsInv, CachesFit, Remembered, Known
<1>3. RowsFit' /\ RecordsApart'
  BY <1>1 DEF SheetsInv, RowsFit, RecordsApart, OneRowEach
<1> QED BY <1>1, <1>2, <1>3 DEF SheetsInv

(* What a night is, and what is known of its run.                          *)
LEMMA NightFits ==
  ASSUME RecordsInv, NEW n \in Nights
  PROVE  /\ night[n] \in NightRuns /\ night \in [Nights -> NightRuns] /\ work \in Nat
         /\ night[n].run \in Nat /\ night[n].run <= work
         /\ night[n].at # "idle" => night[n].run # 0
         /\ night[n].left \subseteq SheetRecords /\ n \in Clients
BY WritersAreClients DEF RecordsInv, NightsTypeOK, NightsApart, NightRuns

LEMMA StartNightKeeps ==
  ASSUME RecordsInv, NEW n \in Nights, StartNight(n)
  PROVE  RecordsInv'
<1>1. SheetsInv' /\ InRows' = InRows /\ InWrites' = InWrites
  BY SameRecords DEF RecordsInv, StartNight
<1>2. PICK it : it = [Asleep EXCEPT !.at = "projects", !.run = work + 1]
  OBVIOUS
<1>3. work \in Nat /\ night[n].run <= work /\ night[n].run \in Nat
  BY NightFits
<1>4. /\ it \in NightRuns /\ it.run = work + 1 /\ it.left = {} /\ it.at = "projects"
  <2>1. it = [at |-> "projects", run |-> work + 1, files |-> <<>>, left |-> {}, status |-> 0]
    BY <1>2 DEF Asleep
  <2> QED BY <1>3, <2>1 DEF NightRuns, NightSteps, FileSets
<1>5. night' = [night EXCEPT ![n] = it] /\ work' = work + 1
  BY <1>2 DEF StartNight
<1>6. \A record \in InWrites \cup InRows : record.run <= work
  BY DEF RecordsInv, NightsApart
<1>7. \A record \in InWrites \cup InRows : record.run # it.run
  BY <1>3, <1>4, <1>6
<1>8. it.run <= work' /\ it.run # 0
  BY <1>3, <1>4, <1>5
<1> QED BY <1>1, <1>3, <1>4, <1>5, <1>7, <1>8, NightKeeps

(* A step of a night that writes nothing: it goes on with its run, with    *)
(* what it had left or, after the roll-up, with what is nowhere yet.       *)
LEMMA QuietNightKeeps ==
  ASSUME RecordsInv, SheetsInv', InWrites' \cup InRows' \subseteq InWrites \cup InRows,
         NEW n \in Nights, night[n].at # "idle", NEW it \in NightRuns,
         night' = [night EXCEPT ![n] = it], work' = work, it.run = night[n].run,
         \/ it.left \subseteq night[n].left
         \/ /\ night[n].at = "aggregate"
            /\ \A record \in it.left : record.kind # "user" /\ record.run = it.run,
         it.at = "aggregate" => night[n].at = "projects", it.at # "projects"
  PROVE  RecordsInv'
<1>1. /\ night[n].run \in Nat /\ night[n].run <= work /\ night[n].run # 0 /\ work \in Nat
  BY NightFits
<1>2. \A record \in night[n].left :
        /\ record.kind # "user" /\ record.run = night[n].run /\ record.run # 0
        /\ record \notin InWrites \cup InRows
  BY DEF RecordsInv, NightsApart
<1>3. night[n].at \in {"projects", "aggregate"} =>
        \A record \in InWrites \cup InRows : record.run # night[n].run
  BY DEF RecordsInv, NightsApart
<1>4. ASSUME NEW record \in it.left
      PROVE  /\ record.kind # "user" /\ record.run = it.run /\ record.run # 0
             /\ record \notin InWrites' \cup InRows'
  BY <1>1, <1>2, <1>3
<1>5. it.at \in {"projects", "aggregate"} =>
        \A record \in InWrites' \cup InRows' : record.run # it.run
  BY <1>3
<1> QED BY <1>1, <1>4, <1>5, NightKeeps

(* A night by hand is over.                                                *)
LEMMA EndKeeps ==
  ASSUME RecordsInv, SheetsInv', InWrites' \cup InRows' \subseteq InWrites \cup InRows,
         NEW n \in Nights, night' = [night EXCEPT ![n] = Asleep], work' = work
  PROVE  RecordsInv'
<1>1. Asleep \in NightRuns /\ Asleep.run = 0 /\ Asleep.left = {} /\ Asleep.at = "idle"
  BY DEF Asleep, NightRuns, NightSteps, FileSets
<1>2. work \in Nat
  BY NightFits
<1>3. PICK it \in NightRuns : it = Asleep
  BY <1>1
<1>4. 0 <= work' /\ (it.run = work' => it.run = night[n].run)
  BY <1>1, <1>2, <1>3, NightFits
<1> QED BY <1>1, <1>2, <1>3, <1>4, NightKeeps

LEMMA EndsKeeps ==
  ASSUME RecordsInv, SheetsInv', InWrites' \cup InRows' \subseteq InWrites \cup InRows,
         NEW n \in Nights, night[n].at # "idle", NEW status \in {0, 1}, Ends(n, status), work' = work
  PROVE  RecordsInv'
<1>1. CASE n = "manual"
  BY <1>1, EndKeeps DEF Ends
<1>2. CASE n # "manual"
  <2>1. PICK it : it = [night[n] EXCEPT !.at = "notify", !.status = status]
    OBVIOUS
  <2>2. /\ it \in NightRuns /\ it.run = night[n].run /\ it.left = night[n].left /\ it.at = "notify"
    BY <2>1, NightFits DEF NightRuns, NightSteps
  <2>3. night' = [night EXCEPT ![n] = it]
    BY <1>2, <2>1, NightFits DEF Ends
  <2> QED BY <2>2, <2>3, QuietNightKeeps
<1> QED BY <1>1, <1>2

LEMMA LeaveFits ==
  ASSUME RecordsInv, NEW n \in Nights, NEW step \in NightSteps, NEW left \in SUBSET SheetRecords,
         Leave(n, step, left)
  PROVE  \E it \in NightRuns :
           /\ night' = [night EXCEPT ![n] = it] /\ it.at = step /\ it.left = left
           /\ it.run = night[n].run /\ it.files \in {night[n].files, <<>>}
           /\ n = "daily" => it.files = night[n].files
<1> DEFINE files == IF n = "manual" /\ step = "rows" THEN <<>> ELSE night[n].files
           it == [night[n] EXCEPT !.at = step, !.left = left, !.files = files]
<1>1. night[n] \in NightRuns /\ night \in [Nights -> NightRuns]
  BY NightFits
<1>2. files \in FileSets /\ files \in {night[n].files, <<>>} /\ (n = "daily" => files = night[n].files)
  BY <1>1 DEF NightRuns, FileSets
<1>3. night' = [night EXCEPT ![n] = it]
  BY <1>1 DEF Leave, NightRuns
<1> HIDE DEF files
<1>4. /\ it \in NightRuns /\ it.at = step /\ it.left = left /\ it.run = night[n].run
      /\ it.files = files
  BY <1>1, <1>2 DEF NightRuns
<1> HIDE DEF it
<1> QED BY <1>2, <1>3, <1>4

(* The steps of a night that leave the spreadsheet alone.                  *)
LEMMA NightStepsKeep ==
  ASSUME RecordsInv, NEW n \in Nights,
         \/ DiscoverFails(n) \/ SyncProjects(n) \/ WriteAggregate(n) \/ CopyLatest(n)
         \/ AggregateFails(n)
  PROVE  RecordsInv'
<1>1. /\ SheetsInv' /\ InWrites' \cup InRows' \subseteq InWrites \cup InRows /\ work' = work
  BY SameRecords DEF RecordsInv, DiscoverFails, SyncProjects, WriteAggregate, CopyLatest, AggregateFails
<1>2. night[n].left \in SUBSET SheetRecords /\ {"latest", "rows"} \subseteq NightSteps
  BY NightFits DEF NightSteps
<1>3. CASE DiscoverFails(n)
  BY <1>1, <1>3, EndsKeeps DEF DiscoverFails, At
<1>4. CASE SyncProjects(n)
  <2>0. PICK found \in Discoveries : \E files \in [found -> Written] :
          night' = [night EXCEPT ![n].files = files, ![n].at = "aggregate"]
    BY <1>4 DEF SyncProjects
  <2>1. PICK files \in [found -> Written] :
          night' = [night EXCEPT ![n].files = files, ![n].at = "aggregate"]
    BY <2>0
  <2>2. PICK it : it = [night[n] EXCEPT !.files = files, !.at = "aggregate"]
    OBVIOUS
  <2>3. files \in FileSets
    BY DEF FileSets
  <2>4. /\ it \in NightRuns /\ it.run = night[n].run /\ it.left = night[n].left
        /\ it.at = "aggregate" /\ night' = [night EXCEPT ![n] = it]
    BY <2>1, <2>2, <2>3, NightFits DEF NightRuns, NightSteps
  <2>5. night[n].at = "projects"
    BY <1>4 DEF SyncProjects, At
  <2> QED BY <1>1, <2>4, <2>5, QuietNightKeeps
<1>5. CASE WriteAggregate(n)
  <2> DEFINE left == IF FeishuConfigured THEN Envelopes(n) ELSE {}
  <2>1. /\ left \in SUBSET SheetRecords
        /\ \A record \in left : record.kind # "user" /\ record.run = night[n].run
    BY NightFits DEF Envelopes, SheetRecords, Kinds, DEFAULT_COLUMNS
  <2>2. Leave(n, "latest", left) /\ night[n].at = "aggregate"
    BY <1>5 DEF WriteAggregate, At
  <2> HIDE DEF left
  <2>3. PICK it \in NightRuns :
          /\ night' = [night EXCEPT ![n] = it] /\ it.at = "latest" /\ it.left = left
          /\ it.run = night[n].run
    BY <1>2, <2>1, <2>2, LeaveFits
  <2> QED BY <1>1, <2>1, <2>2, <2>3, QuietNightKeeps
<1>6. CASE CopyLatest(n) \/ AggregateFails(n)
  <2>1. Leave(n, "rows", night[n].left) /\ night[n].at # "idle"
    BY <1>6 DEF CopyLatest, AggregateFails, At
  <2>2. PICK it \in NightRuns :
          /\ night' = [night EXCEPT ![n] = it] /\ it.at = "rows" /\ it.left = night[n].left
          /\ it.run = night[n].run
    BY <1>2, <2>1, LeaveFits
  <2> QED BY <1>1, <2>1, <2>2, QuietNightKeeps
<1> QED BY <1>3, <1>4, <1>5, <1>6

(* The next row of a night: its record leaves what the night has left.     *)
LEMMA NextRecordKeeps ==
  ASSUME RecordsInv, NEW n \in Nights, NextRecord(n)
  PROVE  RecordsInv' /\ UNCHANGED lost
         /\ \E record : /\ record.kind # "user" /\ InRows' = InRows
                        /\ InWrites' = InWrites \cup {record}
<1>1. PICK record \in night[n].left :
        /\ writes' = writes \cup {Begin(n, record)}
        /\ night' = [night EXCEPT ![n].left = @ \ {record}]
  BY DEF NextRecord
<1>2. /\ record \in SheetRecords /\ n \in Clients /\ night[n] \in NightRuns
      /\ night \in [Nights -> NightRuns] /\ night[n].run \in Nat /\ night[n].run <= work
      /\ night[n].at = "rows" /\ night[n].run # 0 /\ work \in Nat
  BY NightFits DEF NextRecord, At
<1>3. \A old \in night[n].left : /\ old.kind # "user" /\ old.run = night[n].run /\ old.run # 0
                                 /\ old \notin InWrites \cup InRows
  BY DEF RecordsInv, NightsApart
<1>4. /\ UNCHANGED <<sheets, caches, lost, work>>
  BY DEF NextRecord
<1>5. SheetsInv' /\ InRows' = InRows /\ InWrites' = InWrites \cup {record}
  BY <1>1, <1>2, <1>3, <1>4, BeginKeeps DEF RecordsInv
<1>6. PICK it : it = [night[n] EXCEPT !.left = @ \ {record}]
  OBVIOUS
<1>7. /\ it \in NightRuns /\ it.run = night[n].run /\ it.left = night[n].left \ {record}
      /\ it.at = "rows" /\ night' = [night EXCEPT ![n] = it]
  BY <1>1, <1>2, <1>6 DEF NightRuns
<1>8. RecordsInv'
  <2>1. \A old \in it.left : /\ old.kind # "user" /\ old.run = it.run /\ old.run # 0
                             /\ old \notin InWrites' \cup InRows'
    BY <1>3, <1>5, <1>7
  <2>2. \A old \in InWrites' \cup InRows' : old \in InWrites \cup InRows \/ (old.run = it.run /\ it.run # 0)
    BY <1>2, <1>3, <1>5, <1>7
  <2> QED BY <1>2, <1>4, <1>5, <1>7, <2>1, <2>2, NightKeeps
<1> QED BY <1>3, <1>4, <1>5, <1>8

LEMMA FinalStatusKeeps ==
  ASSUME RecordsInv, NEW n \in Nights, FinalStatus(n)
  PROVE  RecordsInv' /\ InRows' = InRows /\ InWrites' \subseteq InWrites /\ lost' \subseteq lost \cup InWrites
<1>1. n \in Clients /\ night[n].at # "idle" /\ Forget(n) /\ work' = work
  BY NightFits DEF FinalStatus, At
<1>2. /\ SheetsInv' /\ InRows' = InRows /\ InWrites' \subseteq InWrites
      /\ lost' \subseteq lost \cup InWrites
  BY <1>1, ForgetKeeps DEF RecordsInv
<1>3. PICK status \in {0, 1} : Ends(n, status)
  BY DEF FinalStatus
<1> QED BY <1>1, <1>2, <1>3, EndsKeeps

(* The daily script after its night.                                       *)
LEMMA DailyKeeps ==
  ASSUME RecordsInv, Notify \/ RollUp
  PROVE  RecordsInv'
<1>1. /\ SheetsInv' /\ InWrites' \cup InRows' \subseteq InWrites \cup InRows /\ work' = work
  BY SameRecords DEF RecordsInv, Notify, RollUp
<1>2. /\ "daily" \in Nights /\ night["daily"] \in NightRuns /\ night \in [Nights -> NightRuns]
      /\ night["daily"].at # "idle"
  BY NightFits DEF Nights, Notify, RollUp, At
<1>3. PICK it \in NightRuns :
         /\ night' = [night EXCEPT !["daily"] = it] /\ it.run = night["daily"].run
         /\ it.left = night["daily"].left /\ it.at \in {"rollup", "idle"}
  <2>1. CASE Notify
    <3>1. PICK it : it = [night["daily"] EXCEPT !.at = "rollup"]
      OBVIOUS
    <3>2. /\ it \in NightRuns /\ it.run = night["daily"].run /\ it.left = night["daily"].left
          /\ it.at = "rollup"
      BY <1>2, <3>1 DEF NightRuns, NightSteps
    <3>3. night' = [night EXCEPT !["daily"] = it]
      BY <1>2, <2>1, <3>1 DEF Notify
    <3> QED BY <3>2, <3>3
  <2>2. CASE RollUp
    <3>1. PICK it : it = [night["daily"] EXCEPT !.at = "idle", !.status = 0]
      OBVIOUS
    <3>2. /\ it \in NightRuns /\ it.run = night["daily"].run /\ it.left = night["daily"].left
          /\ it.at = "idle"
      BY <1>2, <3>1 DEF NightRuns, NightSteps
    <3>3. night' = [night EXCEPT !["daily"] = it]
      BY <1>2, <2>2, <3>1 DEF RollUp
    <3> QED BY <3>2, <3>3
  <2> QED BY <2>1, <2>2
<1> QED BY <1>1, <1>2, <1>3, QuietNightKeeps

(* Events, restarts, requests and people.                                  *)
LEMMA TrackEventKeeps ==
  ASSUME RecordsInv, TrackEvent
  PROVE  RecordsInv'
<1> DEFINE record == [kind |-> "user", run |-> work + 1]
<1>1. work \in Nat /\ work' = work + 1 /\ night' = night
  BY DEF RecordsInv, NightsTypeOK, TrackEvent, nightVars
<1>2. /\ record \in SheetRecords /\ record.run = work + 1 /\ "gateway" \in Clients
  BY <1>1, WritersAreClients DEF SheetRecords, Kinds, DEFAULT_COLUMNS
<1> HIDE DEF record
<1>3. \A old \in InWrites \cup InRows : old.run <= work
  BY DEF RecordsInv, NightsApart
<1>4. record \notin InWrites \cup InRows
  BY <1>1, <1>2, <1>3
<1>5. SheetsInv' /\ InRows' = InRows /\ InWrites' \subseteq InWrites \cup {record}
  <2>1. UNCHANGED <<sheets, caches, lost>>
    BY DEF TrackEvent
  <2>2. CASE writes' = writes \cup {Begin("gateway", record)}
    BY <1>2, <1>4, <2>1, <2>2, BeginKeeps DEF RecordsInv
  <2>3. CASE writes' = writes
    BY <2>1, <2>3, SameRecords DEF RecordsInv, sheetVars
  <2> QED BY <2>2, <2>3 DEF TrackEvent, WriteToSinks, AppendRemote, record
<1>6. NightsTypeOK'
  BY <1>1 DEF RecordsInv, NightsTypeOK
<1>7. \A n \in Nights : night[n].run \in Nat /\ night[n].run <= work
  BY NightFits
<1>8. \A old \in InWrites' \cup InRows' : old \in InWrites \cup InRows \/ old = record
  BY <1>5
<1>9. \A old \in InWrites' \cup InRows' : old.run <= work'
  <2>1. \A old \in InWrites \cup InRows : old.run \in Nat
    BY RecordsFit DEF RecordsInv
  <2> QED BY <1>1, <1>2, <1>3, <1>8, <2>1
<1>10. ASSUME NEW n \in Nights
       PROVE  /\ night[n].run <= work' /\ (night[n].at # "idle" => night[n].run # 0)
              /\ \A old \in night[n].left :
                   /\ old.kind # "user" /\ old.run = night[n].run /\ old.run # 0
                   /\ old \notin InWrites' \cup InRows'
              /\ night[n].at \in {"projects", "aggregate"} =>
                   \A old \in InWrites' \cup InRows' : old.run # night[n].run
  <2>1. night[n].run # record.run /\ night[n].run <= work'
    BY <1>1, <1>2, <1>7
  <2>2. /\ night[n].at # "idle" => night[n].run # 0
        /\ \A old \in night[n].left :
             /\ old.kind # "user" /\ old.run = night[n].run /\ old.run # 0
             /\ old \notin InWrites \cup InRows
        /\ night[n].at \in {"projects", "aggregate"} =>
             \A old \in InWrites \cup InRows : old.run # night[n].run
    BY DEF RecordsInv, NightsApart
  <2> QED BY <1>8, <2>1, <2>2
<1>11. NightsApart'
  <2>1. night["daily"].run = night["manual"].run => night["daily"].run = 0
    BY DEF RecordsInv, NightsApart
  <2> QED BY <1>1, <1>9, <1>10, <2>1 DEF NightsApart
<1> QED BY <1>5, <1>6, <1>11 DEF RecordsInv

LEMMA RestartKeeps ==
  ASSUME RecordsInv, RestartGateway
  PROVE  RecordsInv' /\ InRows' = InRows /\ InWrites' \subseteq InWrites /\ lost' \subseteq lost \cup InWrites
<1>1. /\ SheetsInv' /\ InRows' = InRows /\ InWrites' \subseteq InWrites
      /\ lost' \subseteq lost \cup InWrites
  BY WritersAreClients, ForgetKeeps DEF RestartGateway, RecordsInv
<1> QED BY <1>1, QuietKeeps DEF RestartGateway, nightVars

LEMMA WriteKeeps ==
  ASSUME RecordsInv, Write \/ WriteFails
  PROVE  /\ RecordsInv' /\ InWrites' \cup InRows' \subseteq InWrites \cup InRows
         /\ lost' \subseteq lost \cup InWrites
<1>1. /\ SheetsInv' /\ InWrites' \cup InRows' \subseteq InWrites \cup InRows
      /\ lost' \subseteq lost \cup InWrites
  <2>1. CASE Write
    BY <2>1, WriteStepKeeps DEF Write, RecordsInv
  <2>2. CASE WriteFails
    BY <2>2, FailKeeps DEF WriteFails, RecordsInv
  <2> QED BY <2>1, <2>2
<1> QED BY <1>1, QuietKeeps DEF Write, WriteFails, nightVars

LEMMA PeopleKeep ==
  ASSUME RecordsInv, People
  PROVE  RecordsInv' /\ InRows' = InRows /\ InWrites' = InWrites /\ lost' = lost
<1>1. PICK at \in DOMAIN sheets, kind \in Kinds : \E header \in Rearranged(kind) : EditHeader(at, header)
  BY DEF People
<1>2. PICK header \in Rearranged(kind) : EditHeader(at, header)
  BY <1>1
<1>3. header \in Seq(Columns)
  <2>1. "note" \in Columns /\ "runId" \in Columns
    BY DEF Columns
  <2>2. <<"note">> \in Seq(Columns) /\ <<"runId", "runId">> \in Seq(Columns)
    BY <2>1
  <2>3. Reverse(mappingOf(kind).columns) \in Seq(Columns)
    BY ColumnsFit, ReverseFits
  <2>4. <<"note">> \o Reverse(mappingOf(kind).columns) \in Seq(Columns)
    BY <2>2, <2>3
  <2> QED BY <2>2, <2>4 DEF Rearranged
<1>4. SheetsInv' /\ InRows' = InRows /\ InWrites' = InWrites /\ lost' = lost
  BY <1>2, <1>3, EditHeaderKeeps DEF RecordsInv
<1> QED BY <1>4, QuietKeeps DEF People, nightVars

LEMMA RecordsInitFits == RecordsInit => RecordsInv
<1> SUFFICES ASSUME RecordsInit PROVE RecordsInv
  OBVIOUS
<1>1. /\ sheets = <<>> /\ writes = {} /\ lost = {} /\ caches = [c \in Clients |-> NewClient]
      /\ night = [n \in Nights |-> Asleep] /\ work = 0
  BY DEF RecordsInit, SheetsInit
<1>2. InRows = {} /\ InWrites = {}
  BY <1>1 DEF InRows, InWrites
<1>3. /\ Unknown \in Memories /\ Unknown.id = 0 /\ Unknown.columns = <<>>
  <2>1. <<>> \in Seq(Columns)
    OBVIOUS
  <2> QED BY <2>1 DEF Unknown, Memories
<1>4. SheetsInv
  <2>1. SheetsTypeOK
    BY <1>1, <1>3 DEF SheetsTypeOK, NewClient
  <2>2. CachesFit
    BY <1>1, <1>3 DEF CachesFit, Remembered, NewClient
  <2>3. RowsFit /\ RecordsApart
    BY <1>1, <1>2 DEF RowsFit, RecordsApart, OneRowEach
  <2> QED BY <2>1, <2>2, <2>3 DEF SheetsInv
<1>5. Asleep \in NightRuns /\ Asleep.run = 0 /\ Asleep.left = {} /\ Asleep.at = "idle"
  BY DEF Asleep, NightRuns, NightSteps, FileSets
<1>6. NightsTypeOK
  BY <1>1, <1>5 DEF NightsTypeOK
<1>7. NightsApart
  BY <1>1, <1>2, <1>5 DEF NightsApart, Nights
<1> QED BY <1>4, <1>6, <1>7 DEF RecordsInv

LEMMA RecordsNextKeeps == RecordsInv /\ [RecordsNext]_recordVars => RecordsInv'
<1> SUFFICES ASSUME RecordsInv, [RecordsNext]_recordVars PROVE RecordsInv'
  OBVIOUS
<1>1. CASE UNCHANGED recordVars
  <2>1. UNCHANGED sheetVars /\ UNCHANGED <<night, work>>
    BY <1>1 DEF recordVars, nightVars
  <2> QED BY <2>1, SameRecords, QuietKeeps DEF RecordsInv
<1>2. ASSUME NEW n \in Nights, NextRecord(n) PROVE RecordsInv'
  BY <1>2, NextRecordKeeps
<1>3. ASSUME NEW n \in Nights, FinalStatus(n) PROVE RecordsInv'
  BY <1>3, FinalStatusKeeps
<1>4. CASE WriteFails \/ Write \/ People \/ RestartGateway
  BY <1>4, WriteKeeps, PeopleKeep, RestartKeeps
<1> QED BY <1>1, <1>2, <1>3, <1>4, StartNightKeeps, NightStepsKeep, TrackEventKeeps, DailyKeeps
        DEF RecordsNext

(* Every row lies under its columns, and no record has two, for any        *)
(* configured columns, any clients of the spreadsheet and any number of    *)
(* nights, events, failures and edited headers.                            *)
THEOREM RowsAreUnderTheirColumns == RecordsSpec => []RowsUnderTheirColumns
<1>1. RecordsInv => RowsUnderTheirColumns
  BY DEF RecordsInv, SheetsInv, RecordsApart, RowsUnderTheirColumns
<1> QED BY <1>1, RecordsInitFits, RecordsNextKeeps, PTL DEF RecordsSpec

(* Every event that reached the spreadsheet, or was lost on the way, is in *)
(* the local file, whichever requests fail and whenever the gateway        *)
(* restarts, if the deploy config names the file beside the spreadsheet.   *)
THEOREM EventsAreKept ==
  ASSUME "feishu-sheets" \in Configured => "local" \in Configured
  PROVE  RecordsSpec => []EventsAreLocalFirst
<1> DEFINE Both == "feishu-sheets" \in sinks => "local" \in sinks
           Far == InWrites \cup lost \cup InRows
           EventsInv == RecordsInv /\ Both /\ EventsAreLocalFirst
<1>1. ASSUME NEW choice \in SinkChoices PROVE "feishu-sheets" \in choice => "local" \in choice
  BY <1>1 DEF SinkChoices, resolveProviderNames
<1>2. RecordsInit => EventsInv
  <2> SUFFICES ASSUME RecordsInit PROVE EventsInv
    OBVIOUS
  <2>1. Both
    BY <1>1 DEF RecordsInit
  <2>2. Far = {}
    BY DEF RecordsInit, SheetsInit, InWrites, InRows
  <2> QED BY <2>1, <2>2, RecordsInitFits DEF EventsAreLocalFirst
<1>3. EventsInv /\ [RecordsNext]_recordVars => EventsInv'
  <2> SUFFICES ASSUME EventsInv, [RecordsNext]_recordVars PROVE EventsInv'
    OBVIOUS
  <2>1. RecordsInv'
    BY RecordsNextKeeps
  <2>2. ASSUME Both', local \subseteq local',
               \A record \in Far' : record \in Far \/ record.kind # "user" \/ record \in local'
        PROVE  EventsInv'
    BY <2>1, <2>2 DEF EventsAreLocalFirst
  <2>3. ASSUME UNCHANGED <<sheetVars, local, sinks>> PROVE EventsInv'
    BY <2>2, <2>3 DEF sheetVars, InWrites, InRows
  <2>4. CASE TrackEvent
    <3> DEFINE record == [kind |-> "user", run |-> work + 1]
    <3>1. UNCHANGED <<sheets, lost, sinks>> /\ WriteToSinks(record)
      BY <2>4 DEF TrackEvent
    <3>2. Begin("gateway", record).record = record
      BY DEF Begin
    <3> HIDE DEF record
    <3>3. InRows' = InRows
      BY <3>1 DEF InRows
    <3>4. CASE "feishu-sheets" \in sinks
      <4>1. local' = local \cup {record} /\ writes' = writes \cup {Begin("gateway", record)}
        BY <3>1, <3>4 DEF WriteToSinks, AppendLocal, AppendRemote
      <4>2. InWrites' \subseteq InWrites \cup {record}
        BY <3>2, <4>1 DEF InWrites
      <4> QED BY <2>2, <3>1, <3>3, <4>1, <4>2
    <3>5. CASE "feishu-sheets" \notin sinks
      <4>1. local \subseteq local' /\ writes' = writes
        BY <3>1, <3>5 DEF WriteToSinks, AppendLocal, AppendRemote
      <4>2. InWrites' = InWrites
        BY <4>1 DEF InWrites
      <4> QED BY <2>2, <3>1, <3>3, <4>1, <4>2
    <3> QED BY <3>4, <3>5
  <2>5. CASE RestartGateway
    BY <1>1, <2>2, <2>5, RestartKeeps DEF RestartGateway
  <2>6. CASE Write \/ WriteFails
    <3>1. UNCHANGED <<local, sinks>>
      BY <2>6 DEF Write, WriteFails
    <3> QED BY <2>2, <2>6, <3>1, WriteKeeps
  <2>7. CASE People
    <3>1. UNCHANGED <<local, sinks>>
      BY <2>7 DEF People
    <3> QED BY <2>2, <2>7, <3>1, PeopleKeep
  <2>8. ASSUME NEW n \in Nights, NextRecord(n) PROVE EventsInv'
    <3>1. UNCHANGED <<local, sinks>>
      BY <2>8 DEF NextRecord
    <3> QED BY <2>2, <2>8, <3>1, NextRecordKeeps
  <2>9. ASSUME NEW n \in Nights, FinalStatus(n) PROVE EventsInv'
    <3>1. UNCHANGED <<local, sinks>>
      BY <2>9 DEF FinalStatus
    <3> QED BY <2>2, <2>9, <3>1, FinalStatusKeeps
  <2>10. ASSUME NEW n \in Nights,
                \/ StartNight(n) \/ DiscoverFails(n) \/ SyncProjects(n) \/ WriteAggregate(n)
                \/ CopyLatest(n) \/ AggregateFails(n)
         PROVE  EventsInv'
    <3>1. UNCHANGED <<sheetVars, local, sinks>>
      BY <2>10 DEF StartNight, DiscoverFails, SyncProjects, WriteAggregate, CopyLatest, AggregateFails
    <3> QED BY <2>3, <3>1
  <2>11. CASE Notify \/ RollUp \/ UNCHANGED recordVars
    <3>1. UNCHANGED <<sheetVars, local, sinks>>
      BY <2>11 DEF Notify, RollUp, recordVars
    <3> QED BY <2>3, <3>1
  <2> HIDE DEF EventsInv
  <2> QED BY <2>4, <2>5, <2>6, <2>7, <2>8, <2>9, <2>10, <2>11 DEF RecordsNext
<1>4. EventsInv => EventsAreLocalFirst
  OBVIOUS
<1> HIDE DEF EventsInv
<1> QED BY <1>2, <1>3, <1>4, PTL DEF RecordsSpec

-----------------------------------------------------------------------------
(* Roll-ups.                                                               *)

LEMMA FilesAreFinite ==
  ASSUME NEW files \in FileSets
  PROVE  IsFiniteSet(DOMAIN files)
<1>1. CASE files = <<>>
  <2>1. DOMAIN files = {}
    BY <1>1
  <2> QED BY <2>1, FS_EmptySet
<1>2. CASE files # <<>>
  <2>1. PICK found \in Discoveries : files \in [found -> Written]
    BY <1>2 DEF FileSets
  <2> QED BY <2>1, DiscoveriesAreFinite
<1> QED BY <1>1, <1>2

(* What is counted, and what the report names.                             *)
LEMMA CountsFit ==
  ASSUME NEW files \in FileSets
  PROVE  /\ Counted(files, "failed") \subseteq DOMAIN files
         /\ Counted(files, "failed") \cap Counted(files, "missing") = {}
         /\ Counted(files, "failed") \cup Counted(files, "missing") = Unwell(files)
         /\ IsFiniteSet(Counted(files, "failed")) /\ IsFiniteSet(Counted(files, "missing"))
         /\ Count(files, "failed") \in Nat /\ Count(files, "missing") \in Nat
         /\ Count(files, "failed") + Count(files, "missing") = Cardinality(Unwell(files))
         /\ IsFiniteSet(Unwell(files)) /\ notifyFailed(files) = Unwell(files)
<1>1. IsFiniteSet(DOMAIN files)
  BY FilesAreFinite
<1>2. /\ Counted(files, "failed") \subseteq DOMAIN files
      /\ Counted(files, "missing") \subseteq DOMAIN files
  BY DEF Counted
<1>3. /\ Counted(files, "failed") \cap Counted(files, "missing") = {}
      /\ Counted(files, "failed") \cup Counted(files, "missing") = Unwell(files)
      /\ notifyFailed(files) = Unwell(files)
  BY DEF Counted, Unwell, notifyFailed, readPerProjectResult
<1>4. IsFiniteSet(Counted(files, "failed")) /\ IsFiniteSet(Counted(files, "missing"))
  BY <1>1, <1>2, FS_Subset
<1>5. Count(files, "failed") \in Nat /\ Count(files, "missing") \in Nat
  BY <1>4, FS_CardinalityType DEF Count
<1>7. Count(files, "failed") + Count(files, "missing") = Cardinality(Unwell(files))
  <2> DEFINE F == Counted(files, "failed")
             M == Counted(files, "missing")
  <2>1. Cardinality(F \cap M) = 0
    BY <1>3, FS_EmptySet
  <2>2. IsFiniteSet(F) /\ IsFiniteSet(M) /\ Cardinality(F) \in Nat /\ Cardinality(M) \in Nat
    BY <1>4, <1>5 DEF Count
  <2> HIDE DEF F, M
  <2>3. Cardinality(F \cup M) = Cardinality(F) + Cardinality(M) - Cardinality(F \cap M)
    BY <2>2, FS_Union
  <2>4. Cardinality(F) + Cardinality(M) = Cardinality(F \cup M)
    BY <2>1, <2>2, <2>3
  <2> QED BY <1>3, <2>4 DEF Count, F, M
<1>8. IsFiniteSet(Unwell(files))
  BY <1>1, FS_Subset DEF Unwell
<1> QED BY <1>2, <1>3, <1>4, <1>5, <1>7, <1>8

LEMMA ClassesFit ==
  ASSUME NEW files \in FileSets
  PROVE  /\ classify(files) \in {"success", "partial_success", "failed"}
         /\ classify(files) = "success" => Unwell(files) = {}
         /\ classify(files) = "failed" => Unwell(files) = DOMAIN files
<1>1. IsFiniteSet(DOMAIN files)
  BY FilesAreFinite
<1>2. classify(files) = "success" => Unwell(files) = {}
  <2>1. IsFiniteSet(Unwell(files))
    BY CountsFit
  <2> QED BY <2>1, CountsFit, FS_EmptySet DEF classify
<1>3. classify(files) = "failed" => Unwell(files) = DOMAIN files
  <2> SUFFICES ASSUME Cardinality(Counted(files, "failed")) = Cardinality(DOMAIN files)
               PROVE  Unwell(files) = DOMAIN files
    BY DEF classify, Count
  <2>1. Counted(files, "failed") = DOMAIN files
    BY <1>1, CountsFit, FS_Subset
  <2> QED BY <2>1, CountsFit DEF Unwell
<1> QED BY <1>2, <1>3 DEF classify

(* A step that changes neither report nor the run and the files of the     *)
(* daily script's night.                                                   *)
LEMMA SameReports ==
  ASSUME RecordsInv, LatestFits, DayIsHonest, UNCHANGED <<latestReport, daily>>, work' \in {work, work + 1},
         night'["daily"].run = night["daily"].run, night'["daily"].files = night["daily"].files,
         night'["daily"].at \in {"projects", "aggregate"} => night["daily"].at \in {"projects", "aggregate"},
         night'["daily"].at = "idle" => night["daily"].at = "idle"
  PROVE  (LatestFits /\ DayIsHonest)'
<1>1. work \in Nat
  BY DEF RecordsInv, NightsTypeOK
<1>2. LatestFits'
  BY <1>1 DEF LatestFits
<1>3. DayIsHonest'
  BY DEF DayIsHonest
<1> QED BY <1>2, <1>3

(* A step of the night that somebody started by hand.                      *)
LEMMA ManualStep ==
  ASSUME RecordsInv, LatestFits, DayIsHonest, UNCHANGED <<latestReport, daily>>, work' \in {work, work + 1},
         night'["daily"] = night["daily"]
  PROVE  (LatestFits /\ DayIsHonest)'
BY SameReports

LEMMA CopyLatestReports ==
  ASSUME RecordsInv, LatestFits, DayIsHonest, NEW n \in Nights, CopyLatest(n)
  PROVE  (LatestFits /\ DayIsHonest)'
<1>1. /\ latestReport' = Aggregate(night[n].run, night[n].files) /\ daily' = daily /\ work' = work
      /\ night[n].at = "latest" /\ Leave(n, "rows", night[n].left)
  BY DEF CopyLatest, At
<1>2. PICK it \in NightRuns :
         /\ night' = [night EXCEPT ![n] = it] /\ it.at = "rows" /\ it.run = night[n].run
         /\ n = "daily" => it.files = night[n].files
  BY <1>1, LeaveFits, NightFits DEF NightSteps
<1>3. /\ night[n].run \in 1 .. work /\ work \in Nat
  BY <1>1, NightFits
<1>4. /\ "daily" \in Nights /\ "manual" \in Nights
      /\ night["daily"].run = night["manual"].run => night["daily"].run = 0
  BY DEF Nights, RecordsInv, NightsApart
<1>5. latestReport'.run = night[n].run
  BY <1>1 DEF Aggregate
<1>6. CASE n = "daily"
  <2>1. night'["daily"] = it
    BY <1>2, <1>4, <1>6, NightFits
  <2>2. LatestFits'
    BY <1>1, <1>2, <1>3, <1>5, <1>6, <2>1 DEF LatestFits
  <2>3. DayIsHonest'
    BY <1>2, <2>1 DEF DayIsHonest
  <2> QED BY <2>2, <2>3
<1>7. CASE n = "manual"
  <2>1. night'["daily"] = night["daily"]
    BY <1>2, <1>4, <1>7, NightFits
  <2>2. latestReport'.run # night["daily"].run
    BY <1>3, <1>4, <1>5, <1>7
  <2>3. LatestFits'
    BY <1>1, <1>3, <1>5, <2>1, <2>2 DEF LatestFits
  <2>4. DayIsHonest'
    BY <1>1, <2>1 DEF DayIsHonest
  <2> QED BY <2>3, <2>4
<1> QED BY <1>6, <1>7 DEF Nights

(* The night begins with a number that no report has.                      *)
LEMMA StartNightReports ==
  ASSUME RecordsInv, LatestFits, DayIsHonest, NEW n \in Nights, StartNight(n)
  PROVE  (LatestFits /\ DayIsHonest)'
<1>1. UNCHANGED <<latestReport, daily>> /\ work' = work + 1 /\ work \in Nat
  BY NightFits DEF StartNight
<1>2. PICK it : it = [Asleep EXCEPT !.at = "projects", !.run = work + 1]
  OBVIOUS
<1>3. it = [at |-> "projects", run |-> work + 1, files |-> <<>>, left |-> {}, status |-> 0]
  BY <1>2 DEF Asleep
<1>4. night' = [night EXCEPT ![n] = it] /\ "daily" \in Nights /\ night \in [Nights -> NightRuns]
  BY <1>2, NightFits DEF StartNight, Nights
<1>5. CASE n = "daily"
  <2>1. night'["daily"] = it
    BY <1>4, <1>5
  <2>2. LatestFits'
    BY <1>1, <1>3, <2>1 DEF LatestFits
  <2>3. DayIsHonest'
    BY <1>3, <2>1 DEF DayIsHonest
  <2> QED BY <2>2, <2>3
<1>6. CASE n # "daily"
  <2>1. night'["daily"] = night["daily"]
    BY <1>4, <1>6
  <2> QED BY <1>1, <2>1, ManualStep
<1> QED BY <1>5, <1>6

(* The other steps of a night: the daily script's keeps its number and its *)
(* files once they are there, and does not rest before its day is rolled   *)
(* up.                                                                     *)
LEMMA NightReports ==
  ASSUME RecordsInv, LatestFits, DayIsHonest, NEW n \in Nights,
         \/ DiscoverFails(n) \/ SyncProjects(n) \/ WriteAggregate(n) \/ AggregateFails(n)
         \/ NextRecord(n) \/ FinalStatus(n)
  PROVE  (LatestFits /\ DayIsHonest)'
<1>1. UNCHANGED <<latestReport, daily, work>> /\ work \in Nat
  BY NightFits DEF DiscoverFails, SyncProjects, WriteAggregate, AggregateFails, NextRecord, FinalStatus
<1>2. night \in [Nights -> NightRuns] /\ "daily" \in Nights /\ "daily" # "manual"
      /\ night["daily"] \in NightRuns
  BY NightFits DEF Nights
<1>3. CASE n # "daily"
  <2>1. night'["daily"] = night["daily"]
    BY <1>2, <1>3 DEF DiscoverFails, SyncProjects, WriteAggregate, AggregateFails, NextRecord, FinalStatus,
       Ends, Leave
  <2> QED BY <1>1, <2>1, ManualStep
<1>4. CASE n = "daily" /\ SyncProjects(n)
  <2>1. night["daily"].at = "projects"
    BY <1>4 DEF SyncProjects, At
  <2>2. night'["daily"].at = "aggregate" /\ night'["daily"].run = night["daily"].run
    <3>1. PICK found \in Discoveries : \E files \in [found -> Written] :
            night' = [night EXCEPT ![n].files = files, ![n].at = "aggregate"]
      BY <1>4 DEF SyncProjects
    <3>2. PICK files \in [found -> Written] :
            night' = [night EXCEPT ![n].files = files, ![n].at = "aggregate"]
      BY <3>1
    <3> QED BY <1>2, <1>4, <3>2 DEF NightRuns
  <2>3. LatestFits'
    BY <1>1, <2>1, <2>2 DEF LatestFits
  <2>4. DayIsHonest'
    BY <2>2 DEF DayIsHonest
  <2> QED BY <2>3, <2>4
<1>5. CASE n = "daily" /\ ~SyncProjects(n)
  <2>1. /\ night'["daily"].run = night["daily"].run /\ night'["daily"].files = night["daily"].files
        /\ night'["daily"].at \in {"latest", "rows", "notify"}
    <3>1. CASE DiscoverFails(n) \/ FinalStatus(n)
      <4>1. PICK status \in {0, 1} : Ends(n, status)
        BY <3>1 DEF DiscoverFails, FinalStatus
      <4> QED BY <1>2, <1>5, <4>1 DEF Ends, NightRuns
    <3>2. CASE WriteAggregate(n) \/ AggregateFails(n)
      BY <1>2, <1>5, <3>2 DEF WriteAggregate, AggregateFails, Leave, NightRuns
    <3>3. CASE NextRecord(n)
      BY <1>2, <1>5, <3>3 DEF NextRecord, NightRuns, At
    <3> QED BY <1>5, <3>1, <3>2, <3>3
  <2> QED BY <1>1, <2>1, SameReports
<1> QED BY <1>3, <1>4, <1>5

(* The day is rolled up from what the night left, if it is the night's own *)
(* report that is read.                                                    *)
LEMMA RollUpReports ==
  ASSUME RecordsInv, LatestFits, DayIsHonest, RollUp
  PROVE  (LatestFits /\ DayIsHonest)'
<1> DEFINE it == night["daily"]
           nightly == IF latestReport = None THEN [run |-> 0, overallStatus |-> "none"] ELSE latestReport
<1>1. /\ night \in [Nights -> NightRuns] /\ "daily" \in Nights /\ it \in NightRuns /\ it.run # 0
      /\ it.files \in FileSets /\ it.at = "rollup"
  BY NightFits DEF RollUp, At, Nights, NightRuns
<1>2. /\ latestReport' = latestReport /\ work' = work
      /\ night' = [night EXCEPT !["daily"].at = "idle", !["daily"].status = 0]
  BY DEF RollUp
<1>3. /\ night'["daily"].at = "idle" /\ night'["daily"].run = it.run
      /\ night'["daily"].files = it.files
  BY <1>1, <1>2 DEF NightRuns
<1>4. LatestFits'
  BY <1>2, <1>3 DEF LatestFits
<1>5. PICK published \in {"true", "false", "skipped"}, refresh \in {0, 1} :
        daily' = [run |-> it.run, read |-> nightly.run, stepFailed |-> published = "false" \/ refresh # 0,
                  overallStatus |-> classifyOverall(published, it.status, nightly.overallStatus, refresh)]
  BY DEF RollUp
<1>6. ASSUME daily'.read = it.run
      PROVE  nightly.overallStatus = classify(it.files)
  <2>1. latestReport # None /\ latestReport.run = it.run
    BY <1>1, <1>5, <1>6
  <2>2. latestReport = Aggregate(it.run, it.files)
    BY <2>1 DEF LatestFits
  <2> QED BY <2>1, <2>2 DEF Aggregate
<1> HIDE DEF nightly
<1>7. ASSUME daily'.read = it.run
      PROVE  /\ daily'.overallStatus = "success" => Unwell(it.files) = {} /\ ~daily'.stepFailed
             /\ daily'.overallStatus = "failed" => daily'.stepFailed \/ Unwell(it.files) = DOMAIN it.files
  <2>1. daily'.overallStatus = classifyOverall(published, it.status, classify(it.files), refresh)
        /\ daily'.stepFailed = (published = "false" \/ refresh # 0)
    BY <1>5, <1>6, <1>7
  <2>2. /\ classify(it.files) \in {"success", "partial_success", "failed"}
        /\ classify(it.files) = "success" => Unwell(it.files) = {}
        /\ classify(it.files) = "failed" => Unwell(it.files) = DOMAIN it.files
    BY <1>1, ClassesFit
  <2> QED BY <2>1, <2>2 DEF classifyOverall
<1>8. DayIsHonest'
  BY <1>3, <1>7 DEF DayIsHonest
<1> QED BY <1>4, <1>8

(* A day whose roll-up read its own night's report is a success or failed  *)
(* for the right reasons, and that report names and counts what went wrong,*)
(* for any projects, any contents of their results, any overlap of nights  *)
(* and any failures.                                                       *)
THEOREM ReportsTellTheTruth == RecordsSpec => []ReportsAreHonest
<1> DEFINE ReportsInv == RecordsInv /\ LatestFits /\ DayIsHonest
<1>1. RecordsInit => ReportsInv
  BY RecordsInitFits DEF RecordsInit, LatestFits, DayIsHonest
<1>2. ReportsInv /\ [RecordsNext]_recordVars => ReportsInv'
  <2> SUFFICES ASSUME ReportsInv, [RecordsNext]_recordVars PROVE ReportsInv'
    OBVIOUS
  <2>1. RecordsInv'
    BY RecordsNextKeeps
  <2>2. CASE TrackEvent \/ RestartGateway \/ Write \/ WriteFails \/ People \/ UNCHANGED recordVars
    <3>1. UNCHANGED <<latestReport, daily, night>> /\ work' \in {work, work + 1}
      BY <2>2 DEF TrackEvent, RestartGateway, Write, WriteFails, People, recordVars, nightVars
    <3> QED BY <2>1, <3>1, ManualStep
  <2>3. CASE Notify
    <3>1. night \in [Nights -> NightRuns] /\ "daily" \in Nights
      BY NightFits DEF Nights
    <3>2. /\ UNCHANGED <<latestReport, daily, work>> /\ night'["daily"].run = night["daily"].run
          /\ night'["daily"].files = night["daily"].files /\ night'["daily"].at = "rollup"
      BY <2>3, <3>1 DEF Notify, NightRuns
    <3> QED BY <2>1, <3>2, SameReports
  <2>4. ASSUME NEW n \in Nights, StartNight(n) PROVE ReportsInv'
    BY <2>1, <2>4, StartNightReports
  <2>5. ASSUME NEW n \in Nights, CopyLatest(n) PROVE ReportsInv'
    BY <2>1, <2>5, CopyLatestReports
  <2>6. ASSUME NEW n \in Nights,
               \/ DiscoverFails(n) \/ SyncProjects(n) \/ WriteAggregate(n) \/ AggregateFails(n)
               \/ NextRecord(n) \/ FinalStatus(n)
        PROVE  ReportsInv'
    BY <2>1, <2>6, NightReports
  <2>7. CASE RollUp
    BY <2>1, <2>7, RollUpReports
  <2> HIDE DEF ReportsInv
  <2> QED BY <2>2, <2>3, <2>4, <2>5, <2>6, <2>7 DEF RecordsNext
<1>3. ReportsInv => ReportsAreHonest
  <2> SUFFICES ASSUME ReportsInv PROVE ReportIsHonest
    BY DEF ReportsAreHonest
  <2>1. night["daily"].files \in FileSets
    BY NightFits DEF Nights, NightRuns
  <2>2. ASSUME latestReport # None, latestReport.run = night["daily"].run
        PROVE  /\ latestReport.failed = notifyFailed(night["daily"].files)
               /\ latestReport.totalFailed = Count(night["daily"].files, "failed")
                                             + Count(night["daily"].files, "missing")
    BY <2>2 DEF LatestFits, Aggregate
  <2> QED BY <2>1, <2>2, CountsFit DEF ReportIsHonest
<1> HIDE DEF ReportsInv
<1> QED BY <1>1, <1>2, <1>3, PTL DEF RecordsSpec
=============================================================================
