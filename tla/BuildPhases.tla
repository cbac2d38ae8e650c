---------------------------- MODULE BuildPhases ------------------------------
(***************************************************************************)
(* `build`, `build --incremental`, `build --resume` and `build --backfill` *)
(* of one project, phase by phase, with commits between any two phases and *)
(* builds that are killed.  The builds of a project run one after the      *)
(* other; they scan the repository itself (no version was published, so    *)
(* there is no source mirror), and nobody edits it between commits.        *)
(*                                                                         *)
(* A file's content is the number of the commit that brought it first.  An *)
(* analysis that fails fails for good: it is the content that the analyzer *)
(* throws at.                                                              *)
(***************************************************************************)
EXTENDS BuildSteps, FiniteSets

CONSTANTS Code,         \* the files of category code or script
          Unparsable,   \* the <<file, content>> that the analyzer throws at
          MaxCommits,   \* bound: the commits of a behaviour are 1..MaxCommits
          MaxTouched,   \* bound: the files that one commit touches
          MaxCrashes    \* bound: builds that are killed in a behaviour

ASSUME CodeIsFiles == Code \subseteq Files
ASSUME UnparsableContents == Unparsable \subseteq Files \X (1 .. MaxContent)
ASSUME ContentsForCommits == MaxCommits \in 1 .. MaxContent
ASSUME BoundsAreNaturals == MaxTouched \in Nat /\ MaxCrashes \in Nat

VARIABLES history,      \* the trees of the commits so far; the last is HEAD
          graph,        \* knowledge-graph.json, and the commit in meta.json
          scan, batches,\* the commits whose trees scan-result.json and batches.json show
          manifest,     \* phase2-input-manifest.json
          artifacts,    \* the files batch-<n>.json
          pc, job,      \* the phase of the running build, and its local variables
          last,         \* the build that ended last, if nothing was committed meanwhile
          crashes       \* builds killed so far

intermediate == <<scan, batches, manifest, artifacts>>
vars == <<history, graph, scan, batches, manifest, artifacts, pc, job, last, crashes>>

Commits == 1 .. MaxCommits
NoCommit == 0
HeadCommit == Len(history)
Repo == history[HeadCommit]

(* analyzeFileIntoBuilder: what the nodes of a file are derived from, if    *)
(* it has that content, and so the nodes of all files of a tree            *)
Derived(f, content) == IF <<f, content>> \in Unparsable THEN Absent ELSE content
Nodes(tree) == [f \in Files |-> Derived(f, tree[f])]

Batches == {BatchOf[f] : f \in Files}
FilesOf(bs) == {f \in Files : BatchOf[f] \in bs}

(* The files of batches.json, and the batches it consists of               *)
Batched == IF batches = NoCommit THEN {} ELSE Present(history[batches])

BatchNumbers == {BatchOf[f] : f \in Batched}

Phases == {"idle", "resolve", "scan", "cleanup", "compute", "manifest", "select",
           "analyze", "save", "meta"}
Modes == {"none", "full", "resume", "incremental", "resumedPartial", "backfill", "include"}
Partial == {"incremental", "resumedPartial", "backfill", "include"}

NoManifest == [kind |-> "none", commit |-> NoCommit, base |-> NoCommit, changed |-> {},
               scan |-> NoCommit, batches |-> NoCommit]
NoArtifacts == [is |-> [b \in Batches |-> "none"], nodes |-> Empty]
NoJob == [mode |-> "none", commit |-> NoCommit, affected |-> {}, selected |-> {},
          todo |-> {}, workers |-> FALSE, copy |-> NoCommit, calm |-> FALSE]

Init ==
  /\ \E tree \in FirstTrees : history = <<tree>>
  /\ graph = [base |-> NoCommit, nodes |-> Empty, meta |-> NoCommit]
  /\ scan = NoCommit
  /\ batches = NoCommit
  /\ manifest = NoManifest
  /\ artifacts = NoArtifacts
  /\ pc = "idle"
  /\ job = NoJob
  /\ last = "none"
  /\ crashes = 0

(* git commit: a file stays, goes, gets a new content, or an earlier one.  *)
Commit ==
  /\ HeadCommit < MaxCommits
  /\ \E tree \in [Files -> 0 .. HeadCommit + 1] :
       /\ \A f \in Files : tree[f] \in
            {Repo[f], Absent, HeadCommit + 1} \cup (IF FreshContent THEN {} ELSE Used(history, f))
       /\ tree # Repo /\ Present(tree) # {}
       /\ Cardinality(Changed(Repo, tree)) <= MaxTouched
       /\ FixedFiles => Present(tree) = Present(Repo)
       /\ history' = Append(history, tree)
  /\ job' = [job EXCEPT !.calm = FALSE]
  /\ UNCHANGED <<graph, intermediate, pc, last, crashes>>

-----------------------------------------------------------------------------
(* The build begins.                                                       *)

Begin(phase, newJob) ==
  /\ pc = "idle"
  /\ pc' = phase
  /\ job' = newJob
  /\ last' = "none"
  /\ UNCHANGED <<history, graph, intermediate, crashes>>

NewJob(mode) == [NoJob EXCEPT !.mode = mode, !.calm = TRUE]

(* runFullBuild; many batches are analysed by worker processes             *)
StartFull(workers) ==
  Begin("scan", [NewJob("full") EXCEPT !.commit = HeadCommit, !.workers = workers])

(* Mutation of Affected: what changed since the commit in meta.json.       *)
AffectedSinceMeta == Changed(IF graph.meta = NoCommit THEN Empty ELSE history[graph.meta], Repo)

(* getIncrementalChangedFiles: what changed since the graph's base commit  *)
Affected == Changed(history[graph.base], Repo)

(* runPartialBuildUpdate, mode incremental                                 *)
StartIncremental ==
  /\ graph.base # NoCommit
  /\ Affected # {}
  /\ Begin("resolve", [NewJob("incremental") EXCEPT !.affected = Affected])

(* ... and mode backfill, which works in a copy of the repository.         *)
StartBackfill(mode, affected) ==
  /\ graph.base # NoCommit
  /\ affected # {}
  /\ Begin("resolve", [NewJob(mode) EXCEPT !.affected = affected, !.copy = HeadCommit,
                         !.selected = {BatchOf[f] : f \in affected}])

(* Mutation of WithoutNodes: what the graph has of files that are gone     *)
(* counts for others of their batch.                                       *)
WithoutBatch ==
  {f \in Present(Repo) \cap Code : \A g \in Present(graph.nodes) : BatchOf[g] # BatchOf[f]}

(* collectAutoIncludedBackfillFiles: a backfill is for the code and script *)
(* files without nodes, or for the files of its include paths.             *)
WithoutNodes == (Present(Repo) \cap Code) \ Present(graph.nodes)

(* batchOutputIsValid: an artifact that can be parsed is not made again.   *)
Reusable == {b \in Batches : artifacts.is[b] = "whole"}

(* Mutation of CheckpointFits: any commit will do.                         *)
CheckpointFitsAnyCommit ==
  /\ manifest.kind \in {"full", "incremental"}
  /\ scan # NoCommit /\ scan = manifest.scan
  /\ batches # NoCommit /\ batches = manifest.batches

(* validatePhase2ResumeCheckpoint                                          *)
CheckpointFits ==
  /\ manifest.kind \in {"full", "incremental"}
  /\ scan # NoCommit /\ scan = manifest.scan
  /\ batches # NoCommit /\ batches = manifest.batches
  /\ manifest.commit = HeadCommit

(* runResumeBuild of a full build: the batches without artifact            *)
ResumeFull ==
  LET todo == BatchNumbers \ Reusable
  IN  /\ CheckpointFits
      /\ manifest.kind = "full"
      /\ Begin(IF todo = {} THEN "save" ELSE "analyze",
               [NewJob("resume") EXCEPT !.commit = HeadCommit, !.workers = TRUE, !.todo = todo])

(* runResumeBuild of an incremental one: of those, the ones that hold a    *)
(* changed file                                                            *)
ResumePartial ==
  LET selected == {BatchOf[f] : f \in manifest.changed \cap Batched}
      todo == selected \ Reusable
  IN  /\ CheckpointFits
      /\ manifest.kind = "incremental"
      /\ graph.base # NoCommit /\ manifest.base = graph.base
      /\ Begin(IF todo = {} THEN "save" ELSE "analyze",
               [NewJob("resumedPartial") EXCEPT !.commit = HeadCommit, !.workers = TRUE,
                  !.affected = manifest.changed, !.selected = selected, !.todo = todo])

-----------------------------------------------------------------------------
(* The phases.                                                             *)

Goto(phase) == pc' = phase /\ UNCHANGED <<history, last, crashes>>

(* The build throws.                                                       *)
Abort == Goto("idle") /\ job' = NoJob

(* validatePhase2Checkpoint, as an incremental build sees it: the commit   *)
(* and the kind do not matter, but every batch needs its artifact.  What   *)
(* does not fit is made again; only a manifest cut short stops the build.  *)
CheckpointUsable ==
  /\ manifest.kind # "none"
  /\ scan # NoCommit /\ scan = manifest.scan
  /\ batches # NoCommit /\ batches = manifest.batches
  /\ \A b \in BatchNumbers : artifacts.is[b] # "none"

FromCopy == job.mode \in {"backfill", "include"}

ManifestUnreadable == manifest.kind = "torn" /\ scan # NoCommit /\ batches # NoCommit

(* The commit that meta.json will name is asked for after the changes were.*)
Resolve ==
  /\ pc = "resolve"
  /\ \/ /\ FromCopy
        /\ Goto("save")
        /\ job' = [job EXCEPT !.commit = HeadCommit]
     \/ /\ job.mode = "incremental" /\ ~ManifestUnreadable
        /\ Goto(IF CheckpointUsable THEN "select" ELSE "scan")
        /\ job' = [job EXCEPT !.commit = HeadCommit]
     \/ /\ job.mode = "incremental" /\ ManifestUnreadable
        /\ Abort
  /\ UNCHANGED <<graph, intermediate>>

(* scan-project, and the import map                                        *)
Scan ==
  /\ pc = "scan"
  /\ scan' = HeadCommit
  /\ Goto("cleanup")
  /\ UNCHANGED <<graph, batches, manifest, artifacts, job>>

(* Mutation of Cleanup: the artifacts stay.                                *)
CleanupBatchesOnly ==
  /\ pc = "cleanup"
  /\ batches' = NoCommit
  /\ Goto("compute")
  /\ UNCHANGED <<graph, scan, manifest, artifacts, job>>

(* cleanupBatchArtifacts                                                   *)
Cleanup ==
  /\ pc = "cleanup"
  /\ batches' = NoCommit
  /\ artifacts' = NoArtifacts
  /\ Goto("compute")
  /\ UNCHANGED <<graph, scan, manifest, job>>

(* compute-batches                                                         *)
Compute ==
  /\ pc = "compute"
  /\ batches' = scan
  /\ Goto("manifest")
  /\ UNCHANGED <<graph, scan, manifest, artifacts, job>>

NewManifest(base, changed) ==
  [kind |-> IF job.mode = "incremental" THEN "incremental" ELSE "full",
   commit |-> job.commit, base |-> base, changed |-> changed, scan |-> scan,
   batches |-> batches]

(* buildPhase2InputManifest, at the end of runBatchesPhase                 *)
WriteManifest ==
  /\ pc = "manifest"
  /\ manifest' = NewManifest(NoCommit, {})
  /\ IF job.mode = "full"
     THEN /\ Goto("analyze")
          /\ job' = [job EXCEPT !.todo = BatchNumbers]
     ELSE /\ Goto("select")
          /\ UNCHANGED job
  /\ UNCHANGED <<graph, scan, batches, artifacts>>

(* selectBatchesForFiles, and the manifest of the incremental build.  When *)
(* no batch holds an affected file, they must all be gone.                 *)
Select ==
  LET selected == {BatchOf[f] : f \in job.affected \cap Batched}
  IN  /\ pc = "select"
      /\ \/ /\ selected # {}
            /\ manifest' = NewManifest(graph.base, job.affected)
            /\ Goto("analyze")
            /\ job' = [job EXCEPT !.selected = selected, !.todo = selected]
         \/ /\ selected = {} /\ job.affected \cap Present(Repo) = {}
            /\ Goto("save")
            /\ UNCHANGED <<manifest, job>>
         \/ /\ selected = {} /\ job.affected \cap Present(Repo) # {}
            /\ Abort
            /\ UNCHANGED manifest
      /\ UNCHANGED <<graph, scan, batches, artifacts>>

(* The files of batch b that are analysed: a worker of a resumed           *)
(* incremental build takes the changed ones only.                          *)
Taken(b) ==
  LET files == Batched \cap FilesOf({b})
  IN  IF job.mode = "resumedPartial" THEN files \cap job.affected ELSE files

(* Worker processes are at their batches side by side; without them the    *)
(* batches are analysed in their order.                                    *)
AtHand == IF job.workers THEN job.todo ELSE {b \in job.todo : \A c \in job.todo : b <= c}

AfterBatch(b) == IF job.todo = {b} THEN "save" ELSE "analyze"

(* analyzeSingleBatch and writeOneBatchGraphFile: the files that cannot be *)
(* read or parsed are skipped.                                             *)
Analyze ==
  /\ pc = "analyze"
  /\ \E b \in AtHand :
       /\ Taken(b) \cap Present(Nodes(Repo)) # {}
       /\ artifacts' = [is |-> [artifacts.is EXCEPT ![b] = "whole"],
                        nodes |-> [f \in Files |->
                          IF BatchOf[f] # b THEN artifacts.nodes[f]
                          ELSE IF f \in Taken(b) THEN Nodes(Repo)[f] ELSE Absent]]
       /\ job' = [job EXCEPT !.todo = @ \ {b}]
       /\ Goto(AfterBatch(b))
  /\ UNCHANGED <<graph, scan, batches, manifest>>

(* The artifacts when the writing of those of the batches bs is cut off    *)
CutShort(bs) ==
  [is |-> [b \in Batches |-> IF b \in bs THEN "torn" ELSE artifacts.is[b]],
   nodes |-> [f \in Files |-> IF BatchOf[f] \in bs THEN Absent ELSE artifacts.nodes[f]]]

(* No file of the batch can be read and parsed.  The build goes on without *)
(* an artifact of its own, or else the segment of the worker counts as     *)
(* failed, and the other workers are sent a SIGTERM.                       *)
AnalyzeNothing ==
  /\ pc = "analyze"
  /\ \E b \in AtHand :
       /\ Taken(b) \cap Present(Nodes(Repo)) = {}
       /\ IF job.workers
          THEN /\ \E cut \in SUBSET (job.todo \ {b}) : artifacts' = CutShort(cut)
               /\ Abort
          ELSE /\ job' = [job EXCEPT !.todo = @ \ {b}]
               /\ Goto(AfterBatch(b))
               /\ UNCHANGED artifacts
  /\ UNCHANGED <<graph, scan, batches, manifest>>

(* What a backfill merges stems from its copy of the repository.           *)
SelectedFiles ==
  FilesOf(job.selected) \cap (IF FromCopy THEN Present(history[job.copy]) ELSE Batched)

UpdateNodes == IF FromCopy THEN Nodes(history[job.copy]) ELSE artifacts.nodes

(* Each selected batch must have an artifact that can be read.  A backfill *)
(* finds none from before in its copy, so a file of each must be analysed. *)
UpdateReadable ==
  \A b \in job.selected :
    IF FromCopy THEN FilesOf({b}) \cap Present(UpdateNodes) # {}
    ELSE artifacts.is[b] = "whole"

(* runMergePhase or mergeGraphPartialUpdate, and core.saveGraph            *)
SaveGraph ==
  /\ pc = "save"
  /\ IF job.mode \in Partial
     THEN /\ UpdateReadable
          /\ graph' = [graph EXCEPT
               !.nodes = Merged(@, job.affected, SelectedFiles, UpdateNodes)]
     ELSE graph' = [graph EXCEPT !.base = job.commit, !.nodes = artifacts.nodes]
  /\ Goto("meta")
  /\ UNCHANGED <<intermediate, job>>

SaveGraphFails ==
  /\ pc = "save"
  /\ job.mode \in Partial
  /\ ~UpdateReadable
  /\ Abort
  /\ UNCHANGED <<graph, intermediate>>

(* core.saveMeta; the build is complete                                    *)
SaveMeta ==
  /\ pc = "meta"
  /\ graph' = [graph EXCEPT !.meta = job.commit]
  /\ pc' = "idle"
  /\ job' = NoJob
  /\ last' = IF job.calm THEN job.mode ELSE "none"
  /\ UNCHANGED <<history, intermediate, crashes>>

-----------------------------------------------------------------------------
(* The build is killed, with its workers, in the middle of any write.      *)
Crash ==
  /\ crashes < MaxCrashes
  /\ crashes' = crashes + 1
  /\ pc # "idle"
  /\ IF pc = "scan" THEN scan' \in {scan, NoCommit} ELSE UNCHANGED scan
  /\ IF pc \in {"manifest", "select"}
     THEN manifest' \in {manifest, [NoManifest EXCEPT !.kind = "torn"]}
     ELSE UNCHANGED manifest
  /\ IF pc = "analyze"
     THEN \E cut \in SUBSET AtHand : artifacts' = CutShort(cut)
     ELSE UNCHANGED artifacts
  /\ pc' = "idle"
  /\ job' = NoJob
  /\ UNCHANGED <<history, graph, batches, last>>

Start ==
  \/ \E workers \in BOOLEAN : StartFull(workers)
  \/ StartIncremental
  \/ StartBackfill("backfill", WithoutNodes)
  \/ \E included \in SUBSET Present(Repo) : StartBackfill("include", included)
  \/ ResumeFull
  \/ ResumePartial

Phase == Resolve \/ Scan \/ Cleanup \/ Compute \/ WriteManifest \/ Select \/ Analyze
         \/ AnalyzeNothing \/ SaveGraph \/ SaveGraphFails \/ SaveMeta

Next == Commit \/ Start \/ Phase \/ Crash

Spec == Init /\ [][Next]_vars

-----------------------------------------------------------------------------
(* Properties.                                                             *)

Known == Commits \cup {NoCommit}
ManifestType == [kind : {"none", "torn", "full", "incremental"}, commit : Known, base : Known,
                 changed : SUBSET Files, scan : Known, batches : Known]
JobType == [mode : Modes, commit : Known, affected : SUBSET Files, selected : SUBSET Batches,
            todo : SUBSET Batches, workers : BOOLEAN, copy : Known, calm : BOOLEAN]

TypeOK ==
  /\ history \in Seq(Trees) /\ HeadCommit \in Commits
  /\ graph \in [base : Known, nodes : Trees, meta : Known]
  /\ scan \in Known /\ batches \in Known
  /\ manifest \in ManifestType
  /\ artifacts \in [is : [Batches -> {"none", "torn", "whole"}], nodes : Trees]
  /\ pc \in Phases /\ job \in JobType
  /\ last \in Modes
  /\ crashes \in 0 .. MaxCrashes

(* What makes an incremental build sound: nothing in the graph is older    *)
(* than the commit that the graph names as its base, from which changes    *)
(* are counted, whatever was committed, killed or resumed in between.      *)
NotBehindBase ==
  \A f \in Present(graph.nodes) :
    \E c \in graph.base .. HeadCommit : graph.nodes[f] = history[c][f]

(* A resumed full build that ends at the commit it began at gives the      *)
(* graph a full build would have given.                                    *)
ResumeIsFull == last = "resume" /\ graph.base = HeadCommit => graph.nodes = Nodes(Repo)

(* Once a build ended, and until the next commit, the graph is current ... *)
JustBuilt(mode) == last = mode /\ graph.meta = HeadCommit
Current(f) == graph.nodes[f] = Repo[f]
Analysable == Present(Nodes(Repo))

(* ... after an incremental build for every file of HEAD that the batches  *)
(* know and that can be analysed: what it skips has not changed since the  *)
(* graph's base commit.                                                    *)
BatchedFilesCurrent ==
  JustBuilt("incremental") => \A f \in Batched \cap Analysable : Current(f)

(* A backfill that was for the files without nodes leaves no code file and *)
(* no script of HEAD without, unless the analyzer throws at it.            *)
BackfillFillsGaps ==
  JustBuilt("backfill") => Analysable \cap Code \subseteq Present(graph.nodes)

(* "resume replays incremental batches and merges only changed files": the *)
(* changed files are current after the resumed build.                      *)
ResumedFilesCurrent ==
  JustBuilt("resumedPartial") =>
    \A f \in manifest.changed \cap Batched \cap Analysable : Current(f)

(* "git diff is sufficient for the current granularity": an incremental    *)
(* build gives a changed file, old or new, the nodes of its new content.   *)
ChangedFilesCurrent ==
  JustBuilt("incremental") => \A f \in Analysable : Current(f)

(* "deletion-only changes": a deleted file has no nodes after the build.   *)
DeletedFilesGone ==
  JustBuilt("incremental") => Present(graph.nodes) \subseteq Present(Repo)

-----------------------------------------------------------------------------
(* The invariants that NotBehindBase, ResumeIsFull, BatchedFilesCurrent    *)
(* and BackfillFillsGaps follow from.                                      *)

(* In history h, the nodes of f are those of a commit from n on; they are  *)
(* those of all of them, and there are some.                               *)
Since(h, f, nodes, n) == \E c \in 1 .. Len(h) : n <= c /\ nodes = Derived(f, h[c][f])
Kept(h, f, n) ==
  /\ Derived(f, h[Len(h)][f]) # Absent
  /\ \A c \in 1 .. Len(h) : n <= c => h[c][f] = h[Len(h)][f]

(* A content is no older than its commit, and if it can never come back,   *)
(* what two commits have in common was there in between.                   *)
Dated(h) ==
  \A f \in Files :
    /\ \A c \in 1 .. Len(h) : h[c][f] <= c
    /\ FreshContent =>
         \A c, d \in 1 .. Len(h) :
           h[c][f] = h[d][f] /\ h[c][f] # Absent => \A e \in c .. d : h[e][f] = h[c][f]

(* With the manifest of a full build the artifacts hold the files of its   *)
(* batches as some commit since its own had them; the changed files of an  *)
(* incremental one did change, or cannot be analysed.                      *)
CheckpointInv ==
  /\ scan <= HeadCommit /\ batches <= HeadCommit
  /\ manifest.kind = "full" =>
       /\ manifest.commit # NoCommit
       /\ manifest.commit <= manifest.batches /\ manifest.batches <= HeadCommit
       /\ \A f \in Files :
            IF artifacts.is[BatchOf[f]] = "whole" /\ history[manifest.batches][f] # Absent
            THEN Since(history, f, artifacts.nodes[f], manifest.commit)
            ELSE artifacts.nodes[f] = Absent
  /\ manifest.kind = "incremental" =>
       manifest.base <= HeadCommit /\ \A f \in manifest.changed : ~Kept(history, f, manifest.base)
  /\ \A f \in Present(artifacts.nodes) : Since(history, f, artifacts.nodes[f], graph.base)

(* The graph is not behind its base, and misses nothing that has been      *)
(* there since.                                                            *)
GraphInv ==
  /\ graph.base <= HeadCommit /\ graph.meta <= HeadCommit
  /\ \A f \in Present(graph.nodes) : Since(history, f, graph.nodes[f], graph.base)
  /\ graph.base # NoCommit => \A f \in Files : Kept(history, f, graph.base) => Current(f)

(* A running build: which kinds of build come to which phase, ...          *)
PhaseInv ==
  /\ pc = "idle" <=> job.mode = "none"
  /\ pc # "idle" => last = "none"
  /\ pc = "resolve" => job.mode \in {"incremental", "backfill", "include"}
  /\ pc \in {"scan", "cleanup", "compute", "manifest"} => job.mode \in {"full", "incremental"}
  /\ pc = "select" => job.mode = "incremental"
  /\ pc = "analyze" => job.mode \in {"full", "resume", "incremental", "resumedPartial"}
  /\ pc \notin {"idle", "resolve"} => job.commit # NoCommit /\ job.commit <= HeadCommit
  /\ pc \in {"cleanup", "compute", "manifest"} => job.commit <= scan
  /\ pc \in {"compute", "manifest"} => artifacts = NoArtifacts
  /\ pc = "manifest" => batches = scan
  /\ pc \in {"select", "analyze"} => batches # NoCommit
  /\ pc # "analyze" => job.todo = {}
  /\ job.mode = "incremental" /\ pc \notin {"analyze", "save", "meta"} => job.selected = {}
  /\ job.mode \in {"resume", "resumedPartial"} => job.workers

(* ... what a full one has of its artifacts, ...                           *)
Done(b) ==
  \/ artifacts.is[b] = "whole"
  \/ job.mode = "full" /\ \A f \in Batched : BatchOf[f] = b => Since(history, f, Absent, job.commit)
FullInv ==
  job.mode \in {"full", "resume"} =>
    /\ pc \in {"analyze", "save"} =>
         /\ manifest.kind = "full" /\ manifest.commit = job.commit /\ manifest.batches = batches
         /\ \A b \in BatchNumbers \ job.todo : Done(b)
    /\ pc = "meta" /\ job.mode = "resume" /\ HeadCommit = graph.base => graph.nodes = Nodes(Repo)

(* ... that what a partial one drops from the graph has changed or comes   *)
(* again, ...                                                              *)
PartialInv ==
  /\ job.mode \in {"incremental", "resumedPartial"} =>
       /\ \A f \in job.affected : ~Kept(history, f, graph.base)
       /\ pc = "analyze" => manifest.kind = "incremental"
  /\ job.mode \in Partial => graph.base # NoCommit
  /\ FromCopy => /\ job.copy # NoCommit /\ graph.base <= job.copy /\ job.copy <= HeadCommit
                 /\ job.selected = {BatchOf[f] : f \in job.affected}
                 /\ job.affected \subseteq Present(history[job.copy])

(* ... and what is known as long as nothing is committed.                  *)
CalmInv ==
  job.calm =>
    /\ job.mode = "incremental" =>
         /\ pc # "meta" => job.affected = Changed(history[graph.base], Repo)
         /\ pc \in {"analyze", "save"} => \A f \in Batched :
              /\ f \in job.affected => BatchOf[f] \in job.selected
              /\ BatchOf[f] \in job.selected \ job.todo /\ f \in Analysable =>
                   artifacts.nodes[f] = Repo[f]
         /\ pc = "meta" /\ FreshContent => \A f \in Batched \cap Analysable : Current(f)
    /\ job.mode = "backfill" =>
         /\ pc # "meta" => job.copy = HeadCommit /\ job.affected = WithoutNodes
         /\ pc = "meta" => Analysable \cap Code \subseteq Present(graph.nodes)

(* What holds of the build that ended last.                                *)
EndedInv == ResumeIsFull /\ (FreshContent => BatchedFilesCurrent) /\ BackfillFillsGaps

BuildInv == /\ TypeOK /\ Dated(history) /\ CheckpointInv /\ GraphInv
            /\ PhaseInv /\ FullInv /\ PartialInv /\ CalmInv /\ EndedInv
=============================================================================
