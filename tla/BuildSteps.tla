----------------------------- MODULE BuildSteps ------------------------------
(***************************************************************************)
(* What a build makes of a source tree.  A tree says for every file which  *)
(* content it has, a graph says for every file which content its nodes     *)
(* were derived from.  A full build scans the tree, cuts its files into    *)
(* batches, analyses every batch and merges the batch artifacts; an        *)
(* incremental build analyses again only the batches of the files that git *)
(* reports as changed, and a backfill those of files that are missing from *)
(* the graph.  NightlySync takes full and incremental builds as one step;  *)
(* BuildPhases takes them apart.                                           *)
(*                                                                         *)
(* The nodes of one file are taken as a whole.  Edges, layers, LLM texts   *)
(* and embeddings are left out: they follow the nodes.                     *)
(***************************************************************************)
EXTENDS Naturals, Sequences

CONSTANTS Files,        \* the source files a project may have
          BatchOf,      \* the batch compute-batches puts a file into
          MaxContent,   \* bound: the contents a file may have are 1..MaxContent
          FreshContent, \* a commit never brings an earlier content back
          FixedFiles    \* commits change files, they do not add or delete them

ASSUME BatchesAreNumbered == BatchOf \in [Files -> Nat]
ASSUME MaxContentIsNatural == MaxContent \in Nat \ {0}
ASSUME SwitchesAreBooleans == FreshContent \in BOOLEAN /\ FixedFiles \in BOOLEAN

Absent == 0
Trees == [Files -> 0 .. MaxContent]
Empty == [f \in Files |-> Absent]
Present(tree) == {f \in Files : tree[f] # Absent}

(* core.getChangedFiles: `git diff --name-only` between two commits        *)
Changed(before, after) == {f \in Files : before[f] # after[f]}

(* A git history is the sequence of its trees.  The trees it may start     *)
(* with, and those the next commit may have.                               *)
FirstTrees == {tree \in [Files -> {Absent, 1}] : Present(tree) # {}}

Used(history, f) == {history[c][f] : c \in DOMAIN history} \ {Absent}

NextTrees(history) ==
  LET now == history[Len(history)]
  IN  {tree \in Trees \ {now} :
         /\ Present(tree) # {}
         /\ FreshContent => \A f \in Changed(now, tree) : tree[f] \notin Used(history, f)
         /\ FixedFiles => Present(tree) = Present(now)}

(* What is on disk under .understand-anything: the graph (base is its      *)
(* project.gitCommitHash), the commit in meta.json, and in intermediate/   *)
(* the files of batches.json and the artifacts batch-<n>.json.             *)
Builds(Commits) ==
  [exists : BOOLEAN, base : Commits \cup {0}, nodes : Trees, meta : Commits \cup {0},
   batched : SUBSET Files, artifact : Trees]

NoBuild ==
  [exists |-> FALSE, base |-> 0, nodes |-> Empty, meta |-> 0,
   batched |-> {}, artifact |-> Empty]

(* runFullBuild at commit c, with the files that are found in scan         *)
FullBuild(scan, c) ==
  [exists |-> TRUE, base |-> c, nodes |-> scan, meta |-> c,
   batched |-> Present(scan), artifact |-> scan]

(* selectBatchesForFiles: the files of every batch that holds one of files *)
Selected(batched, files) ==
  {g \in batched : \E f \in files \cap batched : BatchOf[f] = BatchOf[g]}

(* writeBatchGraphFiles: files that cannot be read are skipped, and when   *)
(* none of a batch can be read its old artifact stays on disk.             *)
Reanalyzed(artifact, selected, scan) ==
  [g \in Files |->
     IF g \in selected /\ \E h \in selected : BatchOf[h] = BatchOf[g] /\ scan[h] # Absent
     THEN scan[g] ELSE artifact[g]]

(* Mutation of Merged: the nodes of the affected files go last.            *)
MergedRemovingLast(nodes, affected, selected, artifact) ==
  [f \in Files |->
     IF f \in affected THEN Absent
     ELSE IF f \in selected /\ artifact[f] # Absent THEN artifact[f] ELSE nodes[f]]

(* mergeGraphPartialUpdate: the nodes of the affected files go, the nodes  *)
(* that the artifacts of the selected batches hold come.                   *)
Merged(nodes, affected, selected, artifact) ==
  [f \in Files |->
     IF f \in selected /\ artifact[f] # Absent THEN artifact[f]
     ELSE IF f \in affected THEN Absent ELSE nodes[f]]

(* An incremental build refuses to run when nothing changed since the base *)
(* commit of the graph, and when no batch holds a file that changed,       *)
(* unless the changed files are all gone from the repository.              *)
IncrementalAccepts(build, affected, repo) ==
  /\ build.exists
  /\ affected # {}
  /\ Selected(build.batched, affected) # {} \/ affected \cap Present(repo) = {}

(* runPartialBuildUpdate, mode incremental, at commit c: meta.json gets c, *)
(* project.gitCommitHash of the graph is kept.                             *)
IncrementalBuild(build, affected, scan, c) ==
  LET selected == Selected(build.batched, affected)
      artifact == Reanalyzed(build.artifact, selected, scan)
  IN  [build EXCEPT !.nodes = Merged(@, affected, selected, artifact),
                    !.artifact = artifact, !.meta = c]
=============================================================================
