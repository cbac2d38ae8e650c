-------------------------- MODULE BuildPhasesProofs --------------------------
(***************************************************************************)
(* Proofs about BuildPhases, for any files, batches and contents, and for  *)
(* any number of commits and of builds that are killed.                    *)
(***************************************************************************)
EXTENDS BuildPhases, SequenceTheorems, TLAPS

-----------------------------------------------------------------------------
(* Histories.                                                              *)

LEMMA TreesFit == Empty \in Trees /\ \A t \in Trees, f \in Files : t[f] \in Nat
BY MaxContentIsNatural DEF Empty, Absent, Trees

(* What the nodes of a tree are derived from is a tree.                    *)
LEMMA NodesFit ==
  ASSUME NEW t \in Trees
  PROVE  /\ Nodes(t) \in Trees
         /\ \A f \in Files : Nodes(t)[f] = Derived(f, t[f])
         /\ \A f \in Present(Nodes(t)) : f \in Files /\ Nodes(t)[f] = t[f] /\ t[f] # Absent
         /\ \A f \in Files : t[f] = Absent => Nodes(t)[f] = Absent
<1>1. \A f \in Files : t[f] \in 0 .. MaxContent /\ Nodes(t)[f] = Derived(f, t[f])
  BY DEF Trees, Nodes
<1>2. \A f \in Files : Derived(f, t[f]) \in {t[f], Absent}
  BY DEF Derived
<1>3. Nodes(t) \in Trees
  BY <1>1, <1>2, MaxContentIsNatural DEF Nodes, Trees, Absent
<1> QED BY <1>1, <1>2, <1>3 DEF Present

(* HEAD's nodes are since any commit; since one is since any before it.    *)
LEMMA SinceNow ==
  ASSUME NEW h, Len(h) \in Nat \ {0}, NEW n \in Nat, n <= Len(h), NEW f
  PROVE  Since(h, f, Derived(f, h[Len(h)][f]), n)
BY DEF Since

LEMMA SinceThen ==
  ASSUME NEW h, Len(h) \in Nat, NEW n \in Nat, NEW c \in 1 .. Len(h), n <= c, NEW f
  PROVE  Since(h, f, Derived(f, h[c][f]), n)
BY DEF Since

LEMMA SinceBefore ==
  ASSUME NEW h, Len(h) \in Nat, NEW n \in Nat, NEW m \in Nat, n <= m, NEW f, NEW x,
         Since(h, f, x, m)
  PROVE  Since(h, f, x, n)
BY DEF Since

(* What is kept is what any commit since then has.                         *)
LEMMA KeptSince ==
  ASSUME NEW h, Len(h) \in Nat, NEW n \in Nat, NEW f, NEW x, Kept(h, f, n), Since(h, f, x, n)
  PROVE  x = h[Len(h)][f] /\ x # Absent
BY DEF Kept, Since, Derived

LEMMA KeptThen ==
  ASSUME NEW h, Len(h) \in Nat, NEW n \in Nat, NEW f, Kept(h, f, n), NEW c \in 1 .. Len(h), n <= c
  PROVE  /\ h[c][f] = h[Len(h)][f] /\ h[c][f] # Absent
         /\ Derived(f, h[c][f]) = h[c][f]
BY DEF Kept, Derived

(* If contents never come back, a file that is as it was has been kept.    *)
LEMMA UnchangedKept ==
  ASSUME FreshContent, NEW h, Dated(h), Len(h) \in Nat, NEW n \in 1 .. Len(h), NEW f \in Files,
         h[n][f] = h[Len(h)][f], h[n][f] # Absent, Derived(f, h[n][f]) # Absent
  PROVE  Kept(h, f, n)
BY DEF Kept, Dated

LEMMA ChangedNotKept ==
  ASSUME NEW h, Len(h) \in Nat, NEW n \in 1 .. Len(h), NEW f \in Changed(h[n], h[Len(h)])
  PROVE  ~Kept(h, f, n)
BY DEF Kept, Changed

(* One more commit.                                                        *)
LEMMA OneMore ==
  ASSUME NEW h \in Seq(Trees), NEW t \in Trees
  PROVE  LET g == Append(h, t)
         IN  /\ g \in Seq(Trees) /\ Len(g) = Len(h) + 1 /\ Len(h) \in Nat
             /\ g[Len(g)] = t /\ \A c \in 1 .. Len(h) : g[c] = h[c]
BY AppendProperties

LEMMA SinceStays ==
  ASSUME NEW h, NEW g, Len(h) \in Nat, Len(g) = Len(h) + 1, \A c \in 1 .. Len(h) : g[c] = h[c],
         NEW n, NEW f, NEW x, Since(h, f, x, n)
  PROVE  Since(g, f, x, n)
BY DEF Since

LEMMA KeptBefore ==
  ASSUME NEW h, NEW g, Len(h) \in Nat \ {0}, Len(g) = Len(h) + 1,
         \A c \in 1 .. Len(h) : g[c] = h[c],
         NEW n \in Nat, n <= Len(h), NEW f, Kept(g, f, n)
  PROVE  Kept(h, f, n) /\ g[Len(g)][f] = h[Len(h)][f]
BY DEF Kept

LEMMA DatedStays ==
  ASSUME NEW h, NEW g, Dated(h), Len(h) \in Nat \ {0}, Len(g) = Len(h) + 1,
         \A c \in 1 .. Len(h) : g[c] = h[c] /\ h[c] \in Trees,
         DOMAIN h = 1 .. Len(h), NEW t, g[Len(g)] = t,
         \A f \in Files : t[f] \in
           {h[Len(h)][f], Absent, Len(h) + 1} \cup (IF FreshContent THEN {} ELSE Used(h, f))
  PROVE  Dated(g)
<1> SUFFICES ASSUME NEW f \in Files
             PROVE  /\ \A c \in 1 .. Len(g) : g[c][f] <= c
                    /\ FreshContent =>
                         \A c, d \in 1 .. Len(g) :
                           g[c][f] = g[d][f] /\ g[c][f] # Absent => \A e \in c .. d : g[e][f] = g[c][f]
  BY DEF Dated
<1>1. \A c \in 1 .. Len(h) : h[c][f] <= c /\ h[c][f] \in Nat /\ g[c][f] = h[c][f]
  BY TreesFit DEF Dated
<1>2. /\ g[Len(g)][f] <= Len(g)
      /\ FreshContent => g[Len(g)][f] \in {h[Len(h)][f], Absent, Len(h) + 1}
  <2>1. CASE FreshContent
    BY <1>1, <2>1 DEF Absent
  <2>2. CASE ~FreshContent
    BY <1>1, <2>2 DEF Absent, Used
  <2> QED BY <2>1, <2>2
<1>3. ASSUME FreshContent, NEW c \in 1 .. Len(g), NEW d \in 1 .. Len(g), g[c][f] = g[d][f],
             g[c][f] # Absent, NEW e \in c .. d
      PROVE  g[e][f] = g[c][f]
  <2>1. CASE d <= Len(h)
    BY <1>1, <1>3, <2>1 DEF Dated
  <2>2. CASE d = Len(g) /\ c <= Len(h)
    <3>1. g[d][f] = h[Len(h)][f]
      BY <1>1, <1>2, <1>3, <2>2
    <3>2. h[c][f] = h[Len(h)][f] /\ h[c][f] # Absent
      BY <1>1, <1>3, <2>2, <3>1
    <3>3. \A i \in c .. Len(h) : h[i][f] = h[c][f]
      BY <1>3, <2>2, <3>2 DEF Dated
    <3> QED BY <1>1, <1>3, <2>2, <3>3
  <2>3. CASE d = Len(g) /\ c = Len(g)
    BY <1>3, <2>3
  <2> QED BY <2>1, <2>2, <2>3
<1>4. \A c \in 1 .. Len(g) : g[c][f] <= c
  BY <1>1, <1>2
<1> QED BY <1>3, <1>4

-----------------------------------------------------------------------------
(* Commits, and the first of them.                                         *)

LEMMA Ranges ==
  ASSUME TypeOK
  PROVE  /\ history \in Seq(Trees) /\ HeadCommit = Len(history) /\ HeadCommit \in Nat \ {0}
         /\ Repo = history[HeadCommit] /\ Repo \in Trees /\ HeadCommit <= MaxCommits
         /\ \A c \in 1 .. HeadCommit : history[c] \in Trees /\ c \in Commits
         /\ Known \subseteq Nat /\ HeadCommit \in Known /\ NoCommit \in Known
         /\ \A f \in Files : BatchOf[f] \in Batches
         /\ MaxCommits \in Nat /\ NoCommit = 0 /\ Absent = 0
<1>1. MaxCommits \in Nat
  BY ContentsForCommits, MaxContentIsNatural
<1>2. history \in Seq(Trees) /\ HeadCommit = Len(history) /\ HeadCommit \in 1 .. MaxCommits
  BY DEF TypeOK, Commits, HeadCommit
<1>3. \A c \in 1 .. HeadCommit : history[c] \in Trees
  BY <1>2
<1> QED BY <1>1, <1>2, <1>3 DEF Known, Commits, NoCommit, Repo, Batches, Absent

LEMMA InitFits == Init => BuildInv
<1> SUFFICES ASSUME Init PROVE BuildInv
  OBVIOUS
<1>1. PICK tree \in FirstTrees : history = <<tree>>
  BY DEF Init
<1>2. tree \in Trees /\ \A f \in Files : tree[f] \in {0, 1}
  BY MaxContentIsNatural DEF FirstTrees, Trees, Absent
<1>3. history \in Seq(Trees) /\ Len(history) = 1 /\ HeadCommit = 1 /\ history[1] = tree
  BY <1>1, <1>2 DEF HeadCommit
<1>4. 1 \in Commits /\ 0 \in Known /\ MaxCrashes \in Nat
  BY ContentsForCommits, MaxContentIsNatural, BoundsAreNaturals DEF Commits, Known, NoCommit
<1>5. NoManifest \in ManifestType /\ NoJob \in JobType
  BY <1>4 DEF NoManifest, ManifestType, NoJob, JobType, Modes, NoCommit
<1>6. TypeOK
  BY <1>3, <1>4, <1>5, TreesFit DEF Init, TypeOK, NoArtifacts, Phases, Modes, NoCommit
<1>7. Dated(history)
  <2>1. \A c \in 1 .. Len(history) : c = 1 /\ history[c] = tree
    BY <1>3
  <2>2. \A f \in Files, c \in 1 .. Len(history) : history[c][f] <= c
    BY <1>2, <2>1
  <2>3. \A c, d \in 1 .. Len(history) : \A e \in c .. d : e = 1 /\ history[e] = tree /\ history[c] = tree
    BY <1>3, <2>1
  <2> QED BY <2>2, <2>3 DEF Dated
<1>8. CheckpointInv
  BY <1>3 DEF Init, CheckpointInv, NoCommit, NoManifest, NoArtifacts, Empty, Present
<1>9. GraphInv
  BY <1>3 DEF Init, GraphInv, NoCommit, Empty, Present
<1>10. PhaseInv /\ FullInv /\ PartialInv /\ CalmInv
  BY DEF Init, PhaseInv, FullInv, PartialInv, CalmInv, NoJob, Partial, FromCopy
<1>11. EndedInv
  BY DEF Init, EndedInv, ResumeIsFull, BatchedFilesCurrent, BackfillFillsGaps, JustBuilt
<1> QED BY <1>6, <1>7, <1>8, <1>9, <1>10, <1>11 DEF BuildInv

LEMMA CommitKeeps == ASSUME BuildInv, Commit PROVE BuildInv'
<1>1. TypeOK
  BY DEF BuildInv
<1>2. PICK tree \in [Files -> 0 .. HeadCommit + 1] :
        /\ \A f \in Files : tree[f] \in
             {Repo[f], Absent, HeadCommit + 1} \cup (IF FreshContent THEN {} ELSE Used(history, f))
        /\ history' = Append(history, tree)
  BY DEF Commit
<1>3. HeadCommit < MaxCommits /\ job' = [job EXCEPT !.calm = FALSE]
      /\ UNCHANGED <<graph, scan, batches, manifest, artifacts, pc, last, crashes>>
  BY DEF Commit, intermediate
<1>4. tree \in Trees
  BY <1>1, <1>3, Ranges, ContentsForCommits, MaxContentIsNatural DEF Trees
<1>5. /\ history' \in Seq(Trees) /\ Len(history') = Len(history) + 1
      /\ history'[Len(history')] = tree /\ \A c \in 1 .. Len(history) : history'[c] = history[c]
  BY <1>1, <1>2, <1>4, OneMore, Ranges
<1>6. HeadCommit' = HeadCommit + 1 /\ HeadCommit' = Len(history') /\ Repo' = tree
  BY <1>5 DEF HeadCommit, Repo
<1>7. /\ job.mode' = job.mode /\ job.commit' = job.commit /\ job.affected' = job.affected
      /\ job.selected' = job.selected /\ job.todo' = job.todo /\ job.copy' = job.copy
      /\ ~job.calm' /\ job' \in JobType
  BY <1>1, <1>3 DEF TypeOK, JobType
<1>8. TypeOK'
  BY <1>1, <1>3, <1>5, <1>6, <1>7, Ranges DEF TypeOK, Commits
<1>9. Dated(history)'
  <2>1. Dated(history)
    BY DEF BuildInv
  <2>2. \A f \in Files : tree[f] \in
          {history[Len(history)][f], Absent, Len(history) + 1}
            \cup (IF FreshContent THEN {} ELSE Used(history, f))
    BY <1>1, <1>2, Ranges
  <2>3. /\ Len(history) \in Nat \ {0} /\ DOMAIN history = 1 .. Len(history)
        /\ \A c \in 1 .. Len(history) : history'[c] = history[c] /\ history[c] \in Trees
    BY <1>1, <1>5, Ranges
  <2> QED BY <1>5, <2>1, <2>2, <2>3, DatedStays
<1> DEFINE Still(f, x, n) == Since(history, f, x, n) => Since(history', f, x, n)
           Gone(f, n) == Kept(history', f, n) => Kept(history, f, n) /\ tree[f] = Repo[f]
<1>10. \A f, x, n : Still(f, x, n)
  BY <1>1, <1>5, SinceStays, Ranges
<1>11. \A f : \A n \in Known : n <= HeadCommit => Gone(f, n)
  <2> SUFFICES ASSUME NEW f, NEW n \in Known, n <= HeadCommit, Kept(history', f, n)
               PROVE  Kept(history, f, n) /\ tree[f] = Repo[f]
    OBVIOUS
  <2>1. n \in Nat /\ Len(history) \in Nat \ {0} /\ n <= Len(history) /\ Repo = history[Len(history)]
    BY <1>1, Ranges
  <2> QED BY <1>5, <2>1, KeptBefore
<1> HIDE DEF Still, Gone
<1>12. CheckpointInv'
  <2>1. CheckpointInv /\ GraphInv
    BY DEF BuildInv
  <2>2. \A f \in Present(artifacts.nodes) : Since(history', f, artifacts.nodes[f], graph.base)
    BY <1>10, <2>1 DEF CheckpointInv, Still
  <2>3. ASSUME manifest.kind = "full"
        PROVE  /\ history'[manifest.batches] = history[manifest.batches]
               /\ \A f \in Files : Still(f, artifacts.nodes[f], manifest.commit)
    BY <1>1, <1>5, <1>10, <2>1, <2>3, Ranges DEF CheckpointInv, TypeOK, ManifestType
  <2>4. ASSUME manifest.kind = "incremental", NEW f \in manifest.changed
        PROVE  ~Kept(history', f, manifest.base)
    BY <1>1, <1>11, <2>1, <2>4 DEF CheckpointInv, Gone, TypeOK, ManifestType
  <2> QED BY <1>1, <1>3, <1>6, <2>1, <2>2, <2>3, <2>4, Ranges, SMTT(30)
          DEF CheckpointInv, Still, TypeOK, ManifestType
<1>13. GraphInv'
  <2>1. GraphInv
    BY DEF BuildInv
  <2>2. \A f \in Files : graph.base # NoCommit /\ Kept(history', f, graph.base) => graph.nodes[f] = tree[f]
    BY <1>1, <1>11, <2>1 DEF GraphInv, Gone, TypeOK, Current
  <2> QED BY <1>1, <1>3, <1>6, <1>10, <2>1, <2>2, Ranges DEF GraphInv, Still, Present, TypeOK, Current
<1>14. PhaseInv'
  BY <1>1, <1>3, <1>6, <1>7, Ranges DEF BuildInv, PhaseInv, TypeOK, JobType
<1>15. Batched' = Batched /\ BatchNumbers' = BatchNumbers
  <2>1. batches # NoCommit => history'[batches] = history[batches]
    BY <1>1, <1>5, Ranges DEF BuildInv, CheckpointInv, TypeOK
  <2> QED BY <1>3, <2>1 DEF Batched, BatchNumbers
<1>16. FullInv'
  <2>1. FullInv /\ GraphInv
    BY DEF BuildInv
  <2>2. \A b \in BatchNumbers : Done(b) => Done(b)'
    BY <1>3, <1>7, <1>10, <1>15 DEF Done, Still
  <2>3. graph.base <= HeadCommit /\ graph.base \in Nat
    BY <1>1, <2>1, Ranges DEF GraphInv, TypeOK
  <2> QED BY <1>1, <1>3, <1>6, <1>7, <1>15, <2>1, <2>2, <2>3, Ranges, SMTT(30) DEF FullInv, TypeOK, JobType
<1>17. PartialInv'
  <2>1. PartialInv /\ GraphInv
    BY DEF BuildInv
  <2>2. job.mode \in {"incremental", "resumedPartial"} =>
          \A f \in job.affected : ~Kept(history', f, graph.base)
    BY <1>1, <1>11, <2>1 DEF PartialInv, GraphInv, Gone, TypeOK, JobType
  <2>3. FromCopy => history'[job.copy] = history[job.copy]
    BY <1>1, <1>5, <2>1, Ranges DEF PartialInv, TypeOK, JobType
  <2> QED BY <1>1, <1>3, <1>6, <1>7, <2>1, <2>2, <2>3, Ranges, SMTT(30) DEF PartialInv, FromCopy, TypeOK, JobType
<1>18. CalmInv'
  BY <1>7 DEF CalmInv
<1>19. EndedInv'
  BY <1>1, <1>3, <1>6, Ranges DEF BuildInv, GraphInv, EndedInv, ResumeIsFull, BatchedFilesCurrent,
     BackfillFillsGaps, JustBuilt, TypeOK
<1> QED BY <1>8, <1>9, <1>12, <1>13, <1>14, <1>16, <1>17, <1>18, <1>19 DEF BuildInv

-----------------------------------------------------------------------------
(* Steps that leave the history, the graph or the checkpoint alone.        *)

LEMMA SameHistory ==
  ASSUME BuildInv, history' = history
  PROVE  HeadCommit' = HeadCommit /\ Repo' = Repo /\ Dated(history)' /\ Analysable' = Analysable
BY DEF BuildInv, HeadCommit, Repo, Analysable

LEMMA SameBatches ==
  ASSUME history' = history, batches' = batches
  PROVE  Batched' = Batched /\ BatchNumbers' = BatchNumbers
BY DEF Batched, BatchNumbers

LEMMA SameGraph == ASSUME BuildInv, UNCHANGED <<history, graph>> PROVE GraphInv'
BY SameHistory DEF BuildInv, GraphInv, Current

LEMMA SameDisk ==
  ASSUME BuildInv, UNCHANGED <<history, graph, scan, batches, manifest, artifacts>>
  PROVE  CheckpointInv' /\ GraphInv'
BY SameHistory, SameGraph DEF BuildInv, CheckpointInv

(* The build that ended last is of no interest any more.                   *)
LEMMA NothingEnded ==
  ASSUME last' = "none"
  PROVE  EndedInv'
BY DEF EndedInv, ResumeIsFull, BatchedFilesCurrent, BackfillFillsGaps, JustBuilt

(* No build runs.                                                          *)
LEMMA NothingRuns ==
  ASSUME pc' = "idle", job' = NoJob
  PROVE  PhaseInv' /\ FullInv' /\ PartialInv' /\ CalmInv' /\ job' \in JobType
BY DEF PhaseInv, FullInv, PartialInv, CalmInv, NoJob, Partial, FromCopy, JobType, Modes, Known, NoCommit

-----------------------------------------------------------------------------
(* Builds that begin.                                                      *)

LEMMA BeginKeeps ==
  ASSUME BuildInv, UNCHANGED <<history, graph, intermediate, crashes>>, last' = "none",
         pc' \in Phases, job' \in JobType, PhaseInv', FullInv', PartialInv', CalmInv'
  PROVE  BuildInv'
<1>1. UNCHANGED <<history, graph, scan, batches, manifest, artifacts>>
  BY DEF intermediate
<1>2. TypeOK'
  BY <1>1, SameHistory DEF BuildInv, TypeOK, Modes
<1>3. EndedInv'
  BY NothingEnded
<1> QED BY <1>1, <1>2, <1>3, SameDisk, SameHistory DEF BuildInv

LEMMA StartFullKeeps == ASSUME BuildInv, NEW workers \in BOOLEAN, StartFull(workers) PROVE BuildInv'
<1>1. TypeOK
  BY DEF BuildInv
<1>2. /\ pc' = "scan" /\ last' = "none" /\ UNCHANGED <<history, graph, intermediate, crashes>>
      /\ job'.mode = "full" /\ job'.commit = HeadCommit /\ job'.todo = {} /\ job' \in JobType
  BY <1>1, Ranges DEF StartFull, Begin, NewJob, NoJob, JobType, Modes
<1>3. PhaseInv' /\ FullInv' /\ PartialInv' /\ CalmInv'
  BY <1>1, <1>2, SameHistory, Ranges DEF PhaseInv, FullInv, PartialInv, CalmInv, Partial, FromCopy
<1> QED BY <1>2, <1>3, BeginKeeps DEF Phases

LEMMA StartIncrementalKeeps == ASSUME BuildInv, StartIncremental PROVE BuildInv'
<1>1. TypeOK /\ GraphInv
  BY DEF BuildInv
<1>2. /\ pc' = "resolve" /\ last' = "none" /\ UNCHANGED <<history, graph, intermediate, crashes>>
      /\ job'.mode = "incremental" /\ job'.affected = Affected /\ graph.base # NoCommit
      /\ job'.todo = {} /\ job'.selected = {} /\ job' \in JobType
  BY <1>1, Ranges DEF StartIncremental, Begin, NewJob, NoJob, JobType, Modes, Affected, Changed
<1>3. \A f \in Affected : ~Kept(history, f, graph.base)
  BY <1>1, <1>2, ChangedNotKept, Ranges DEF Affected, GraphInv, TypeOK
<1>4. PhaseInv' /\ FullInv' /\ PartialInv' /\ CalmInv'
  BY <1>1, <1>2, <1>3, SameHistory, Ranges
     DEF PhaseInv, FullInv, PartialInv, CalmInv, Partial, FromCopy, Affected
<1> QED BY <1>2, <1>4, BeginKeeps DEF Phases

LEMMA StartBackfillKeeps ==
  ASSUME BuildInv, NEW mode \in {"backfill", "include"}, NEW affected \in SUBSET Present(Repo),
         mode = "backfill" => affected = WithoutNodes, StartBackfill(mode, affected)
  PROVE  BuildInv'
<1>1. TypeOK /\ GraphInv
  BY DEF BuildInv
<1>2. /\ pc' = "resolve" /\ last' = "none" /\ UNCHANGED <<history, graph, intermediate, crashes>>
      /\ job'.mode = mode /\ job'.affected = affected /\ graph.base # NoCommit
      /\ job'.copy = HeadCommit /\ job'.selected = {BatchOf[f] : f \in affected}
      /\ job'.todo = {}
  BY <1>1, Ranges DEF StartBackfill, Begin, NewJob, NoJob
<1>3. job' \in JobType
  BY <1>1, Ranges DEF StartBackfill, Begin, NewJob, NoJob, JobType, Modes, Present
<1>4. WithoutNodes' = WithoutNodes
  BY <1>2, SameHistory DEF WithoutNodes
<1>5. PhaseInv' /\ FullInv' /\ CalmInv'
  BY <1>1, <1>2, <1>4, SameHistory, Ranges DEF PhaseInv, FullInv, CalmInv
<1>6. PartialInv'
  BY <1>1, <1>2, SameHistory, Ranges DEF PartialInv, Partial, FromCopy, GraphInv
<1> QED BY <1>2, <1>3, <1>5, <1>6, BeginKeeps DEF Phases

LEMMA ResumeFullKeeps == ASSUME BuildInv, ResumeFull PROVE BuildInv'
<1> DEFINE left == BatchNumbers \ Reusable
<1>1. TypeOK /\ CheckpointInv
  BY DEF BuildInv
<1>2. /\ pc' = IF left = {} THEN "save" ELSE "analyze"
      /\ last' = "none" /\ UNCHANGED <<history, graph, intermediate, crashes>>
      /\ job'.mode = "resume" /\ job'.commit = HeadCommit /\ job'.todo = left
      /\ job'.workers
      /\ CheckpointFits /\ manifest.kind = "full"
  BY DEF ResumeFull, Begin, NewJob, NoJob
<1>3. left \subseteq Batches
  BY DEF BatchNumbers, Batched, Batches, Present
<1> HIDE DEF left
<1>4. job' \in JobType
  BY <1>1, <1>3, Ranges DEF ResumeFull, Begin, NewJob, NoJob, JobType, Modes, left
<1>5. PhaseInv' /\ PartialInv' /\ CalmInv'
  BY <1>1, <1>2, SameHistory, Ranges
     DEF PhaseInv, PartialInv, CalmInv, Partial, FromCopy, CheckpointFits, intermediate
<1>6. \A b \in BatchNumbers : b \notin left => artifacts.is[b] = "whole"
  BY DEF left, Reusable
<1>7. FullInv'
  BY <1>2, <1>6, SameHistory, SameBatches DEF FullInv, Done, CheckpointFits, intermediate
<1> QED BY <1>2, <1>4, <1>5, <1>7, BeginKeeps DEF Phases

LEMMA ResumePartialKeeps == ASSUME BuildInv, ResumePartial PROVE BuildInv'
<1> DEFINE selected == {BatchOf[f] : f \in manifest.changed \cap Batched}
           left == selected \ Reusable
<1>1. TypeOK /\ CheckpointInv
  BY DEF BuildInv
<1>2. /\ pc' = IF left = {} THEN "save" ELSE "analyze"
      /\ last' = "none" /\ UNCHANGED <<history, graph, intermediate, crashes>>
      /\ job'.mode = "resumedPartial" /\ job'.commit = HeadCommit /\ job'.todo = left
      /\ job'.workers
      /\ job'.affected = manifest.changed
      /\ CheckpointFits /\ manifest.kind = "incremental" /\ manifest.base = graph.base
      /\ graph.base # NoCommit
  BY DEF ResumePartial, Begin, NewJob, NoJob
<1>3. selected \subseteq Batches /\ left \subseteq Batches /\ manifest.changed \subseteq Files
  BY <1>1 DEF Batched, Batches, Present, TypeOK, ManifestType
<1> HIDE DEF selected, left
<1>4. job' \in JobType
  BY <1>1, <1>3, Ranges DEF ResumePartial, Begin, NewJob, NoJob, JobType, Modes, selected, left
<1>5. PhaseInv' /\ FullInv' /\ CalmInv'
  BY <1>1, <1>2, SameHistory, Ranges
     DEF PhaseInv, FullInv, CalmInv, CheckpointFits, intermediate
<1>6. PartialInv'
  BY <1>1, <1>2, SameHistory DEF PartialInv, Partial, FromCopy, CheckpointInv, intermediate
<1> QED BY <1>2, <1>4, <1>5, <1>6, BeginKeeps DEF Phases

-----------------------------------------------------------------------------
(* Builds that stop before they are complete.                              *)

LEMMA StillNone ==
  ASSUME BuildInv, pc # "idle", last' = last
  PROVE  last' = "none" /\ EndedInv'
BY NothingEnded DEF BuildInv, PhaseInv

LEMMA CutShortFits ==
  ASSUME BuildInv, NEW cut, artifacts' = CutShort(cut),
         UNCHANGED <<history, graph, scan, batches, manifest>>
  PROVE  /\ artifacts' \in [is : [Batches -> {"none", "torn", "whole"}], nodes : Trees]
         /\ CheckpointInv'
<1>1. TypeOK /\ CheckpointInv
  BY DEF BuildInv
<1>2. /\ artifacts'.is = [b \in Batches |-> IF b \in cut THEN "torn" ELSE artifacts.is[b]]
      /\ artifacts'.nodes = [f \in Files |-> IF BatchOf[f] \in cut THEN Absent ELSE artifacts.nodes[f]]
      /\ artifacts' = [is |-> artifacts'.is, nodes |-> artifacts'.nodes]
  BY DEF CutShort
<1>3. artifacts'.is \in [Batches -> {"none", "torn", "whole"}]
  BY <1>1, <1>2 DEF TypeOK
<1>4. artifacts'.nodes \in Trees
  BY <1>1, <1>2, TreesFit, MaxContentIsNatural DEF TypeOK, Trees, Absent
<1>5. /\ \A f \in Files : artifacts.nodes[f] = Absent => artifacts'.nodes[f] = Absent
      /\ \A f \in Files : artifacts'.nodes[f] # Absent => artifacts'.nodes[f] = artifacts.nodes[f]
      /\ \A f \in Files : IF artifacts'.is[BatchOf[f]] = "whole"
                          THEN /\ artifacts.is[BatchOf[f]] = "whole"
                               /\ artifacts'.nodes[f] = artifacts.nodes[f]
                          ELSE artifacts.is[BatchOf[f]] # "whole" \/ artifacts'.nodes[f] = Absent
  BY <1>1, <1>2, Ranges
<1>6. Present(artifacts'.nodes) \subseteq Present(artifacts.nodes)
  BY <1>5 DEF Present
<1>7. \A f \in Present(artifacts'.nodes) : Since(history, f, artifacts'.nodes[f], graph.base)
  BY <1>1, <1>5, <1>6 DEF CheckpointInv, Present
<1>8. manifest.kind = "full" => \A f \in Files :
        IF artifacts'.is[BatchOf[f]] = "whole" /\ history[manifest.batches][f] # Absent
        THEN Since(history, f, artifacts'.nodes[f], manifest.commit)
        ELSE artifacts'.nodes[f] = Absent
  BY <1>1, <1>5 DEF CheckpointInv
<1> QED BY <1>1, <1>2, <1>3, <1>4, <1>7, <1>8, SameHistory DEF CheckpointInv

LEMMA StopKeeps ==
  ASSUME BuildInv, pc # "idle", pc' = "idle", job' = NoJob,
         UNCHANGED <<history, graph, batches, last>>, crashes' \in 0 .. MaxCrashes,
         scan' \in Known, manifest' \in ManifestType,
         artifacts' \in [is : [Batches -> {"none", "torn", "whole"}], nodes : Trees],
         CheckpointInv'
  PROVE  BuildInv'
<1>1. TypeOK'
  BY SameHistory, NothingRuns DEF BuildInv, TypeOK, Phases
<1>2. GraphInv'
  BY SameGraph
<1> QED BY <1>1, <1>2, NothingRuns, StillNone, SameHistory DEF BuildInv

LEMMA TornFits ==
  ASSUME BuildInv, UNCHANGED <<history, graph, scan, batches, artifacts>>,
         manifest' \in {manifest, [NoManifest EXCEPT !.kind = "torn"]}
  PROVE  manifest' \in ManifestType /\ CheckpointInv'
<1>1. TypeOK /\ CheckpointInv
  BY DEF BuildInv
<1>2. CASE manifest' = manifest
  BY <1>1, <1>2, SameDisk DEF TypeOK
<1>3. CASE manifest' = [NoManifest EXCEPT !.kind = "torn"]
  <2>1. manifest'.kind = "torn" /\ manifest' \in ManifestType
    BY <1>1, <1>3, Ranges DEF NoManifest, ManifestType
  <2> QED BY <1>1, <2>1, SameHistory DEF CheckpointInv
<1> QED BY <1>2, <1>3

LEMMA CrashKeeps == ASSUME BuildInv, Crash PROVE BuildInv'
<1>1. TypeOK /\ CheckpointInv
  BY DEF BuildInv
<1>2. /\ pc # "idle" /\ pc' = "idle" /\ job' = NoJob
      /\ UNCHANGED <<history, graph, batches, last>> /\ crashes' \in 0 .. MaxCrashes
  BY <1>1, BoundsAreNaturals DEF Crash, TypeOK
<1>3. CASE pc = "scan"
  <2>1. scan' \in {scan, NoCommit} /\ UNCHANGED <<manifest, artifacts>>
    BY <1>3 DEF Crash
  <2>2. CheckpointInv'
    BY <1>1, <1>2, <2>1, SameHistory, Ranges DEF CheckpointInv
  <2> QED BY <1>1, <1>2, <2>1, <2>2, StopKeeps, Ranges DEF TypeOK
<1>4. CASE pc \in {"manifest", "select"}
  <2>1. /\ manifest' \in {manifest, [NoManifest EXCEPT !.kind = "torn"]}
        /\ UNCHANGED <<scan, artifacts>>
    BY <1>4 DEF Crash
  <2> QED BY <1>1, <1>2, <2>1, TornFits, StopKeeps DEF TypeOK
<1>5. CASE pc = "analyze"
  <2>1. PICK cut \in SUBSET AtHand : artifacts' = CutShort(cut)
    BY <1>5 DEF Crash
  <2>2. UNCHANGED <<scan, manifest>>
    BY <1>5 DEF Crash
  <2> QED BY <1>1, <1>2, <2>1, <2>2, CutShortFits, StopKeeps DEF TypeOK
<1>6. CASE pc \notin {"scan", "manifest", "select", "analyze"}
  <2>1. UNCHANGED <<scan, manifest, artifacts>>
    BY <1>6 DEF Crash
  <2> QED BY <1>1, <1>2, <2>1, SameDisk, StopKeeps DEF TypeOK
<1> QED BY <1>3, <1>4, <1>5, <1>6

(* A build that throws leaves everything on disk as it is.                 *)
LEMMA AbortKeeps ==
  ASSUME BuildInv, pc # "idle", Abort, UNCHANGED <<graph, intermediate>>
  PROVE  BuildInv'
<1>1. UNCHANGED <<history, graph, scan, batches, manifest, artifacts, last, crashes>>
      /\ pc' = "idle" /\ job' = NoJob
  BY DEF Abort, Goto, intermediate
<1> QED BY <1>1, SameDisk, StopKeeps DEF BuildInv, TypeOK

-----------------------------------------------------------------------------
(* The phases.  What goes on leaves the history, and last, alone.          *)

LEMMA GoesOn ==
  ASSUME BuildInv, pc # "idle", UNCHANGED <<history, last, crashes>>, pc' \in Phases, pc' # "idle",
         graph' \in [base : Known, nodes : Trees, meta : Known], scan' \in Known, batches' \in Known,
         manifest' \in ManifestType, job' \in JobType,
         artifacts' \in [is : [Batches -> {"none", "torn", "whole"}], nodes : Trees],
         CheckpointInv', GraphInv', PhaseInv', FullInv', PartialInv', CalmInv'
  PROVE  BuildInv'
<1>1. TypeOK'
  BY SameHistory DEF BuildInv, TypeOK
<1> QED BY <1>1, StillNone, SameHistory DEF BuildInv

LEMMA ResolveKeeps == ASSUME BuildInv, Resolve PROVE BuildInv'
<1>1. TypeOK /\ PhaseInv /\ PartialInv /\ CalmInv /\ pc = "resolve"
  BY DEF BuildInv, Resolve
<1>2. CASE Abort
  BY <1>1, <1>2, AbortKeeps DEF Resolve
<1>3. CASE ~Abort
  <2>1. /\ UNCHANGED <<history, graph, scan, batches, manifest, artifacts, last, crashes>>
        /\ \/ FromCopy /\ pc' = "save"
           \/ job.mode = "incremental" /\ pc' = "select" /\ CheckpointUsable
           \/ job.mode = "incremental" /\ pc' = "scan"
        /\ job' = [job EXCEPT !.commit = HeadCommit]
    BY <1>3 DEF Resolve, Goto, intermediate
  <2>2. /\ job'.mode = job.mode /\ job'.commit = HeadCommit /\ job'.affected = job.affected
        /\ job'.selected = job.selected /\ job'.todo = job.todo /\ job'.workers = job.workers
        /\ job'.copy = job.copy /\ job'.calm = job.calm /\ job' \in JobType
    BY <1>1, <2>1, Ranges DEF TypeOK, JobType
  <2>3. PhaseInv'
    BY <1>1, <2>1, <2>2, SameHistory, Ranges DEF PhaseInv, FromCopy, CheckpointUsable
  <2>4. FullInv'
    BY <1>1, <2>1, <2>2 DEF FullInv, FromCopy
  <2>5. PartialInv'
    BY <1>1, <2>1, <2>2, SameHistory DEF PartialInv, FromCopy
  <2>6. CalmInv'
    <3>1. WithoutNodes' = WithoutNodes
      BY <2>1, SameHistory DEF WithoutNodes
    <3> QED BY <1>1, <2>1, <2>2, <3>1, SameHistory DEF CalmInv, FromCopy
  <2> QED BY <1>1, <2>1, <2>2, <2>3, <2>4, <2>5, <2>6, SameDisk, GoesOn DEF TypeOK, Phases
<1> QED BY <1>2, <1>3

(* The phases of a full or an incremental build before it has batches.     *)
LEMMA EarlyKeeps ==
  ASSUME BuildInv, pc \in {"scan", "cleanup", "compute"}, pc' \in {"cleanup", "compute", "manifest"},
         UNCHANGED <<history, graph, manifest, job, last, crashes>>,
         scan' \in Known, batches' \in Known,
         artifacts' \in [is : [Batches -> {"none", "torn", "whole"}], nodes : Trees],
         CheckpointInv', job.commit <= scan', pc' # "cleanup" => artifacts' = NoArtifacts,
         pc' = "manifest" => batches' = scan'
  PROVE  BuildInv'
<1>1. TypeOK /\ PhaseInv /\ PartialInv /\ CalmInv
  BY DEF BuildInv
<1>2. GraphInv'
  BY SameGraph
<1>3. PhaseInv'
  BY <1>1, SameHistory DEF PhaseInv
<1>4. FullInv' /\ PartialInv' /\ CalmInv'
  BY <1>1, SameHistory DEF PhaseInv, FullInv, PartialInv, CalmInv, FromCopy
<1> QED BY <1>1, <1>2, <1>3, <1>4, GoesOn DEF TypeOK, Phases

LEMMA ScanKeeps == ASSUME BuildInv, Scan PROVE BuildInv'
<1>1. TypeOK /\ PhaseInv /\ CheckpointInv
  BY DEF BuildInv
<1>2. /\ pc = "scan" /\ pc' = "cleanup" /\ scan' = HeadCommit
      /\ UNCHANGED <<history, graph, batches, manifest, artifacts, job, last, crashes>>
  BY DEF Scan, Goto
<1>3. CheckpointInv'
  BY <1>1, <1>2, SameHistory, Ranges DEF CheckpointInv
<1> QED BY <1>1, <1>2, <1>3, EarlyKeeps, Ranges DEF TypeOK, PhaseInv

LEMMA CleanupKeeps == ASSUME BuildInv, Cleanup PROVE BuildInv'
<1>1. TypeOK /\ PhaseInv /\ CheckpointInv
  BY DEF BuildInv
<1>2. /\ pc = "cleanup" /\ pc' = "compute" /\ batches' = NoCommit /\ artifacts' = NoArtifacts
      /\ UNCHANGED <<history, graph, scan, manifest, job, last, crashes>>
  BY DEF Cleanup, Goto
<1>3. /\ artifacts' \in [is : [Batches -> {"none", "torn", "whole"}], nodes : Trees]
      /\ Present(artifacts'.nodes) = {} /\ \A f \in Files : artifacts'.nodes[f] = Absent
      /\ \A f \in Files : artifacts'.is[BatchOf[f]] = "none"
  BY <1>1, <1>2, TreesFit, Ranges DEF NoArtifacts, Present, Empty
<1>4. CheckpointInv'
  BY <1>1, <1>2, <1>3, SameHistory, Ranges DEF CheckpointInv
<1> QED BY <1>1, <1>2, <1>3, <1>4, EarlyKeeps, Ranges DEF TypeOK, PhaseInv

LEMMA ComputeKeeps == ASSUME BuildInv, Compute PROVE BuildInv'
<1>1. TypeOK /\ PhaseInv /\ CheckpointInv
  BY DEF BuildInv
<1>2. /\ pc = "compute" /\ pc' = "manifest" /\ batches' = scan
      /\ UNCHANGED <<history, graph, scan, manifest, artifacts, job, last, crashes>>
  BY DEF Compute, Goto
<1>3. CheckpointInv'
  BY <1>1, <1>2, SameHistory, Ranges DEF CheckpointInv
<1> QED BY <1>1, <1>2, <1>3, EarlyKeeps, Ranges DEF TypeOK, PhaseInv

LEMMA WriteManifestKeeps == ASSUME BuildInv, WriteManifest PROVE BuildInv'
<1>1. TypeOK /\ PhaseInv /\ CheckpointInv /\ PartialInv /\ CalmInv /\ pc = "manifest"
  BY DEF BuildInv, WriteManifest
<1>2. /\ job.mode \in {"full", "incremental"} /\ artifacts = NoArtifacts /\ batches = scan
      /\ job.commit # NoCommit /\ job.commit <= scan /\ scan <= HeadCommit
  BY <1>1 DEF PhaseInv, CheckpointInv
<1>3. /\ UNCHANGED <<history, graph, scan, batches, artifacts, last, crashes>>
      /\ manifest' = NewManifest(NoCommit, {})
      /\ \/ job.mode = "full" /\ pc' = "analyze" /\ job' = [job EXCEPT !.todo = BatchNumbers]
         \/ job.mode = "incremental" /\ pc' = "select" /\ job' = job
  BY <1>2 DEF WriteManifest, Goto
<1>4. /\ manifest'.kind = job.mode /\ manifest'.commit = job.commit /\ manifest'.base = NoCommit
      /\ manifest'.changed = {} /\ manifest'.batches = batches /\ manifest' \in ManifestType
  BY <1>1, <1>2, <1>3, Ranges DEF NewManifest, ManifestType, TypeOK, JobType
<1>5. BatchNumbers \subseteq Batches
  BY DEF BatchNumbers, Batched, Batches, Present
<1>6. /\ job'.mode = job.mode /\ job'.commit = job.commit /\ job'.affected = job.affected
      /\ job'.selected = job.selected /\ job'.workers = job.workers
      /\ job'.copy = job.copy /\ job'.calm = job.calm /\ job' \in JobType
      /\ pc' = "analyze" => job'.todo = BatchNumbers
      /\ pc' = "select" => job'.todo = job.todo
  BY <1>1, <1>3, <1>5 DEF TypeOK, JobType
<1>7. \A f \in Files : artifacts.is[BatchOf[f]] = "none" /\ artifacts.nodes[f] = Absent
  BY <1>2, Ranges, <1>1 DEF NoArtifacts, Empty
<1>8. CheckpointInv'
  BY <1>1, <1>2, <1>3, <1>4, <1>7, SameHistory, Ranges DEF CheckpointInv, TypeOK
<1>9. GraphInv'
  BY <1>3, SameGraph
<1>10. PhaseInv'
  BY <1>1, <1>2, <1>3, <1>6, SameHistory, Ranges DEF PhaseInv, TypeOK, JobType
<1>11. FullInv'
  BY <1>1, <1>2, <1>3, <1>4, <1>6, SameHistory, SameBatches DEF FullInv
<1>12. PartialInv'
  BY <1>1, <1>2, <1>3, <1>6, SameHistory DEF PartialInv, Partial, FromCopy
<1>13. CalmInv'
  BY <1>1, <1>2, <1>3, <1>6, SameHistory DEF CalmInv
<1> QED BY <1>1, <1>3, <1>4, <1>6, <1>8, <1>9, <1>10, <1>11, <1>12, <1>13, GoesOn DEF TypeOK, Phases

LEMMA SelectKeeps == ASSUME BuildInv, Select PROVE BuildInv'
<1> DEFINE selected == {BatchOf[f] : f \in job.affected \cap Batched}
<1>1. TypeOK /\ PhaseInv /\ CheckpointInv /\ GraphInv /\ PartialInv /\ CalmInv /\ pc = "select"
  BY DEF BuildInv, Select
<1>2. /\ job.mode = "incremental" /\ job.todo = {} /\ job.selected = {}
      /\ job.commit # NoCommit /\ job.commit <= HeadCommit /\ batches # NoCommit
  BY <1>1 DEF PhaseInv
<1>3. CASE Abort
  <2>1. UNCHANGED <<graph, intermediate>>
    <3>1. selected = {} \/ selected # {}
      OBVIOUS
    <3> QED BY <1>1, <1>3 DEF Select, Abort, Goto, intermediate
  <2> QED BY <1>1, <1>3, <2>1, AbortKeeps
<1>4. CASE ~Abort
  <2>1. /\ UNCHANGED <<history, graph, scan, batches, artifacts, last, crashes>>
        /\ \/ /\ manifest' = NewManifest(graph.base, job.affected)
              /\ pc' = "analyze" /\ job' = [job EXCEPT !.selected = selected, !.todo = selected]
           \/ selected = {} /\ pc' = "save" /\ manifest' = manifest /\ job' = job
    BY <1>4 DEF Select, Goto
  <2>2. selected \subseteq Batches /\ \A f \in Batched : f \in job.affected => BatchOf[f] \in selected
    BY <1>1 DEF Batches, Batched, Present
  <2> HIDE DEF selected
  <2>3. CASE pc' = "analyze"
    <3>1. /\ manifest'.kind = "incremental" /\ manifest'.base = graph.base
          /\ manifest'.changed = job.affected /\ manifest' \in ManifestType
      BY <1>1, <1>2, <2>1, <2>3 DEF NewManifest, ManifestType, TypeOK, JobType
    <3>2. /\ job'.mode = job.mode /\ job'.commit = job.commit /\ job'.affected = job.affected
          /\ job'.selected = selected /\ job'.todo = selected /\ job'.workers = job.workers
          /\ job'.copy = job.copy /\ job'.calm = job.calm /\ job' \in JobType
      <4>1. job' = [job EXCEPT !.selected = selected, !.todo = selected] /\ job \in JobType
        BY <1>1, <2>1, <2>3 DEF TypeOK
      <4> QED BY <2>2, <4>1 DEF JobType
    <3>3. CheckpointInv'
      BY <1>1, <1>2, <2>1, <3>1, SameHistory DEF CheckpointInv, PartialInv, GraphInv
    <3>4. GraphInv'
      BY <2>1, SameGraph
    <3>5. PhaseInv' /\ FullInv'
      BY <1>1, <1>2, <2>1, <2>3, <3>2, SameHistory DEF PhaseInv, FullInv
    <3>6. PartialInv'
      BY <1>1, <1>2, <2>1, <2>3, <3>1, <3>2, SameHistory DEF PartialInv, Partial, FromCopy
    <3>7. CalmInv'
      BY <1>1, <1>2, <2>1, <2>2, <2>3, <3>2, SameHistory, SameBatches DEF CalmInv
    <3> QED BY <1>1, <2>1, <2>3, <3>1, <3>2, <3>3, <3>4, <3>5, <3>6, <3>7, GoesOn DEF TypeOK, Phases
  <2>4. CASE pc' = "save"
    <3>1. UNCHANGED <<manifest, job>> /\ selected = {}
      BY <2>1, <2>4
    <3>2. PhaseInv' /\ FullInv'
      BY <1>1, <1>2, <2>1, <2>4, <3>1, SameHistory DEF PhaseInv, FullInv
    <3>3. PartialInv'
      BY <1>1, <1>2, <2>1, <2>4, <3>1, SameHistory DEF PartialInv, FromCopy
    <3>4. CalmInv'
      BY <1>1, <1>2, <2>1, <2>2, <2>4, <3>1, SameHistory, SameBatches DEF CalmInv
    <3> QED BY <1>1, <2>1, <2>4, <3>1, <3>2, <3>3, <3>4, SameDisk, GoesOn DEF TypeOK, Phases
  <2> QED BY <2>1, <2>3, <2>4
<1> QED BY <1>3, <1>4

(* What an analysis does to the running build.                             *)
LEMMA BatchLeaves ==
  ASSUME TypeOK, PhaseInv, pc = "analyze", NEW b \in AtHand,
         job' = [job EXCEPT !.todo = @ \ {b}], Goto(AfterBatch(b))
  PROVE  /\ UNCHANGED <<history, last, crashes>> /\ b \in job.todo /\ b \in Batches
         /\ job'.mode = job.mode /\ job'.commit = job.commit /\ job'.affected = job.affected
         /\ job'.selected = job.selected /\ job'.workers = job.workers
         /\ job'.copy = job.copy /\ job'.calm = job.calm
         /\ job'.todo = job.todo \ {b} /\ job' \in JobType
         /\ pc' \in {"analyze", "save"} /\ (pc' = "save" => job'.todo = {})
<1>1. b \in job.todo /\ job \in JobType /\ job.todo \subseteq Batches
  BY DEF AtHand, TypeOK, JobType
<1> QED BY <1>1 DEF Goto, AfterBatch, JobType

(* A batch more that is analysed: what an invariant of the running build   *)
(* asks of its artifacts.                                                  *)
LEMMA AnalyzedKeeps ==
  ASSUME BuildInv, pc = "analyze", NEW b \in AtHand,
         job' = [job EXCEPT !.todo = @ \ {b}], Goto(AfterBatch(b)),
         UNCHANGED <<graph, scan, batches, manifest>>,
         artifacts' \in [is : [Batches -> {"none", "torn", "whole"}], nodes : Trees],
         CheckpointInv',
         job.mode \in {"full", "resume"} =>
           \A c \in BatchNumbers : c = b \/ Done(c) => Done(c)',
         job.mode = "incremental" => \A f \in Batched \cap Analysable :
           \/ artifacts'.nodes[f] = artifacts.nodes[f] /\ BatchOf[f] # b
           \/ artifacts'.nodes[f] = Repo[f]
  PROVE  BuildInv'
<1>1. TypeOK /\ PhaseInv /\ FullInv /\ PartialInv /\ CalmInv
  BY DEF BuildInv
<1>2. /\ UNCHANGED <<history, last, crashes>> /\ b \in job.todo
      /\ job'.mode = job.mode /\ job'.commit = job.commit /\ job'.affected = job.affected
      /\ job'.selected = job.selected /\ job'.workers = job.workers
      /\ job'.copy = job.copy /\ job'.calm = job.calm
      /\ job'.todo = job.todo \ {b} /\ job' \in JobType
      /\ pc' \in {"analyze", "save"} /\ (pc' = "save" => job'.todo = {})
  BY <1>1, BatchLeaves
<1>3. job.mode \in {"full", "resume", "incremental", "resumedPartial"}
  BY <1>1 DEF PhaseInv
<1>4. GraphInv'
  BY <1>2, SameGraph
<1>5. PhaseInv'
  BY <1>1, <1>2, <1>3, SameHistory DEF PhaseInv
<1>6. FullInv'
  <2>1. CASE job.mode \in {"full", "resume"}
    <3>1. /\ manifest.kind = "full" /\ manifest.commit = job.commit /\ manifest.batches = batches
          /\ \A c \in BatchNumbers \ job.todo : Done(c)
      BY <1>1, <2>1 DEF FullInv
    <3>2. \A c \in BatchNumbers \ job'.todo : Done(c)'
      BY <1>2, <2>1, <3>1
    <3> QED BY <1>2, <3>1, <3>2, SameHistory, SameBatches DEF FullInv
  <2>2. CASE job.mode \notin {"full", "resume"}
    BY <1>2, <2>2 DEF FullInv
  <2> QED BY <2>1, <2>2
<1>7. PartialInv'
  BY <1>1, <1>2, <1>3, SameHistory DEF PartialInv, Partial, FromCopy
<1>8. CalmInv'
  BY <1>1, <1>2, <1>3, SameHistory, SameBatches DEF CalmInv
<1> QED BY <1>1, <1>2, <1>4, <1>5, <1>6, <1>7, <1>8, GoesOn DEF TypeOK, Phases

LEMMA AnalyzeKeeps == ASSUME BuildInv, Analyze PROVE BuildInv'
<1>1. TypeOK /\ PhaseInv /\ CheckpointInv /\ GraphInv /\ FullInv /\ PartialInv /\ pc = "analyze"
  BY DEF BuildInv, Analyze
<1>2. PICK b \in AtHand :
        /\ artifacts' = [is |-> [artifacts.is EXCEPT ![b] = "whole"],
                         nodes |-> [f \in Files |->
                           IF BatchOf[f] # b THEN artifacts.nodes[f]
                           ELSE IF f \in Taken(b) THEN Nodes(Repo)[f] ELSE Absent]]
        /\ job' = [job EXCEPT !.todo = @ \ {b}]
        /\ Goto(AfterBatch(b))
  BY DEF Analyze
<1>3. UNCHANGED <<history, graph, scan, batches, manifest>> /\ b \in Batches
  BY <1>1, <1>2, BatchLeaves DEF Analyze
<1>4. /\ artifacts'.is \in [Batches -> {"none", "torn", "whole"}]
      /\ artifacts'.is[b] = "whole" /\ \A c \in Batches : c # b => artifacts'.is[c] = artifacts.is[c]
  BY <1>1, <1>2, <1>3 DEF TypeOK
<1>5. /\ artifacts'.nodes \in Trees
      /\ \A f \in Files : artifacts'.nodes[f] =
           IF BatchOf[f] # b THEN artifacts.nodes[f] ELSE IF f \in Taken(b) THEN Nodes(Repo)[f] ELSE Absent
  <2>1. artifacts.nodes \in [Files -> 0 .. MaxContent] /\ Nodes(Repo) \in [Files -> 0 .. MaxContent]
    BY <1>1, NodesFit, Ranges DEF TypeOK, Trees
  <2>2. Absent \in 0 .. MaxContent
    BY MaxContentIsNatural DEF Absent
  <2> QED BY <1>2, <2>1, <2>2 DEF Trees
<1>6. artifacts' = [is |-> artifacts'.is, nodes |-> artifacts'.nodes]
  BY <1>2
<1>7. job.mode # "resumedPartial" => \A f \in Files : BatchOf[f] = b => (f \in Taken(b) <=> f \in Batched)
  BY DEF Taken, FilesOf
<1>8. \A f \in Files : \A n \in Known : n <= HeadCommit => Since(history, f, Nodes(Repo)[f], n)
  BY <1>1, SinceNow, NodesFit, Ranges
<1>9. CheckpointInv'
  <2>1. \A f \in Present(artifacts'.nodes) : Since(history, f, artifacts'.nodes[f], graph.base)
    BY <1>1, <1>5, <1>8 DEF CheckpointInv, GraphInv, Present, TypeOK
  <2>2. ASSUME manifest.kind = "full", NEW f \in Files
        PROVE  IF artifacts'.is[BatchOf[f]] = "whole" /\ history[manifest.batches][f] # Absent
               THEN Since(history, f, artifacts'.nodes[f], manifest.commit)
               ELSE artifacts'.nodes[f] = Absent
    <3>1. CASE BatchOf[f] = b
      <4>1. job.mode \in {"full", "resume"} /\ manifest.batches = batches /\ batches # NoCommit
        BY <1>1, <2>2 DEF PhaseInv, PartialInv, FullInv
      <4>2. f \in Taken(b) <=> history[manifest.batches][f] # Absent
        BY <1>7, <2>2, <3>1, <4>1 DEF Batched, Present
      <4>3. manifest.commit \in Known /\ manifest.commit <= HeadCommit
        BY <1>1, <2>2, Ranges DEF CheckpointInv, TypeOK, ManifestType
      <4> QED BY <1>4, <1>5, <1>8, <3>1, <4>2, <4>3
    <3>2. CASE BatchOf[f] # b
      BY <1>1, <1>4, <1>5, <2>2, <3>2, Ranges DEF CheckpointInv
    <3> QED BY <3>1, <3>2
  <2> QED BY <1>1, <1>3, <2>1, <2>2, SameHistory DEF CheckpointInv
<1>10. ASSUME job.mode \in {"full", "resume"}, NEW c \in BatchNumbers, c = b \/ Done(c)
       PROVE  Done(c)'
  <2>1. CASE c = b
    BY <1>4, <2>1 DEF Done
  <2>2. CASE c # b
    <3>1. c \in Batches /\ job'.mode = job.mode /\ job'.commit = job.commit
      BY <1>1, <1>2, BatchLeaves DEF BatchNumbers, Batched, Batches, Present
    <3> QED BY <1>3, <1>4, <1>10, <2>2, <3>1, SameBatches DEF Done
  <2> QED BY <2>1, <2>2
<1>11. job.mode = "incremental" => \A f \in Batched \cap Analysable :
         \/ artifacts'.nodes[f] = artifacts.nodes[f] /\ BatchOf[f] # b
         \/ artifacts'.nodes[f] = Repo[f]
  BY <1>1, <1>5, <1>7, NodesFit, Ranges DEF Batched, Present, Analysable
<1> QED BY <1>1, <1>2, <1>3, <1>4, <1>5, <1>6, <1>9, <1>10, <1>11, AnalyzedKeeps

LEMMA AnalyzeNothingKeeps == ASSUME BuildInv, AnalyzeNothing PROVE BuildInv'
<1>1. TypeOK /\ PhaseInv /\ CheckpointInv /\ pc = "analyze"
  BY DEF BuildInv, AnalyzeNothing
<1>2. PICK b \in AtHand :
        /\ Taken(b) \cap Present(Nodes(Repo)) = {}
        /\ IF job.workers
           THEN /\ \E cut \in SUBSET (job.todo \ {b}) : artifacts' = CutShort(cut)
                /\ Abort
           ELSE /\ job' = [job EXCEPT !.todo = @ \ {b}]
                /\ Goto(AfterBatch(b))
                /\ UNCHANGED artifacts
  BY DEF AnalyzeNothing
<1>3. UNCHANGED <<graph, scan, batches, manifest>>
  BY DEF AnalyzeNothing
<1>4. CASE job.workers
  <2>1. UNCHANGED <<history, last, crashes>> /\ pc' = "idle" /\ job' = NoJob
    BY <1>2, <1>4 DEF Abort, Goto
  <2> QED BY <1>1, <1>2, <1>3, <1>4, <2>1, CutShortFits, StopKeeps DEF TypeOK
<1>5. CASE ~job.workers
  <2>1. /\ job' = [job EXCEPT !.todo = @ \ {b}] /\ Goto(AfterBatch(b))
        /\ UNCHANGED <<history, graph, scan, batches, manifest, artifacts>>
    BY <1>2, <1>3, <1>5 DEF Goto
  <2>2. ASSUME job.mode \in {"full", "incremental"}, NEW f \in Batched, BatchOf[f] = b
        PROVE  f \in Files /\ f \notin Analysable /\ Derived(f, Repo[f]) = Absent
    BY <1>1, <1>2, <2>2, NodesFit, Ranges DEF Taken, FilesOf, Batched, Present, Analysable
  <2>3. ASSUME job.mode \in {"full", "resume"}, NEW c \in BatchNumbers, c = b \/ Done(c)
        PROVE  Done(c)'
    <3>1. job.mode = "full" /\ job'.mode = "full" /\ job'.commit = job.commit
      BY <1>1, <1>5, <2>1, <2>3, BatchLeaves DEF PhaseInv
    <3>2. job.commit \in Nat /\ job.commit <= HeadCommit
      BY <1>1, Ranges DEF PhaseInv, TypeOK, JobType
    <3>3. Done(b)
      BY <1>1, <2>2, <3>1, <3>2, SinceNow, Ranges DEF Done
    <3> QED BY <2>1, <2>3, <3>1, <3>3, SameBatches DEF Done
  <2>4. job.mode = "incremental" => \A f \in Batched \cap Analysable : BatchOf[f] # b
    BY <2>2
  <2> QED BY <1>1, <1>2, <2>1, <2>3, <2>4, SameDisk, AnalyzedKeeps DEF TypeOK
<1> QED BY <1>4, <1>5

-----------------------------------------------------------------------------
(* The graph is saved.                                                     *)

(* What is merged is one or the other.                                     *)
LEMMA MergedHas ==
  ASSUME NEW nodes, NEW affected, NEW selected, NEW artifact, NEW f \in Files
  PROVE  Merged(nodes, affected, selected, artifact)[f] =
           IF f \in selected /\ artifact[f] # Absent THEN artifact[f]
           ELSE IF f \in affected THEN Absent ELSE nodes[f]
BY DEF Merged

(* The graph of a full build misses nothing that has been there since the  *)
(* commit it names: what was kept is in the batches, and so in an artifact.*)
LEMMA FullGraphFits ==
  ASSUME BuildInv, pc = "save", job.mode \in {"full", "resume"}
  PROVE  /\ job.commit \in Known /\ job.commit # NoCommit /\ job.commit <= HeadCommit
         /\ \A f \in Present(artifacts.nodes) : Since(history, f, artifacts.nodes[f], job.commit)
         /\ \A f \in Files : Kept(history, f, job.commit) => artifacts.nodes[f] = Repo[f]
         /\ job.mode = "resume" /\ HeadCommit = job.commit => artifacts.nodes = Nodes(Repo)
<1>1. TypeOK /\ PhaseInv /\ CheckpointInv /\ FullInv
  BY DEF BuildInv
<1>2. /\ job.commit \in Known /\ job.commit # NoCommit /\ job.commit <= HeadCommit /\ job.todo = {}
  BY <1>1 DEF PhaseInv, TypeOK, JobType
<1>3. /\ manifest.kind = "full" /\ manifest.commit = job.commit /\ manifest.batches = batches
      /\ \A b \in BatchNumbers : Done(b)
  BY <1>1, <1>2 DEF FullInv
<1>4. /\ batches \in 1 .. HeadCommit /\ job.commit <= batches
      /\ \A f \in Files :
           IF artifacts.is[BatchOf[f]] = "whole" /\ history[batches][f] # Absent
           THEN Since(history, f, artifacts.nodes[f], job.commit)
           ELSE artifacts.nodes[f] = Absent
  BY <1>1, <1>2, <1>3, Ranges DEF CheckpointInv, TypeOK
<1>5. \A f \in Present(artifacts.nodes) : Since(history, f, artifacts.nodes[f], job.commit)
  BY <1>4 DEF Present
<1>6. \A f \in Files : history[batches][f] # Absent => f \in Batched /\ BatchOf[f] \in BatchNumbers
  BY <1>4, Ranges, <1>1 DEF Batched, BatchNumbers, Present, NoCommit
<1>7. ASSUME NEW f \in Files, Kept(history, f, job.commit)
      PROVE  artifacts.nodes[f] = Repo[f]
  <2>1. /\ history[batches][f] # Absent
        /\ \A x : Since(history, f, x, job.commit) => x = Repo[f] /\ x # Absent
    BY <1>1, <1>2, <1>4, <1>7, KeptThen, KeptSince, Ranges
  <2>2. Done(BatchOf[f]) /\ f \in Batched
    BY <1>3, <1>6, <2>1
  <2>3. ~Since(history, f, Absent, job.commit)
    BY <2>1
  <2>4. artifacts.is[BatchOf[f]] = "whole"
    BY <2>2, <2>3 DEF Done
  <2> QED BY <1>4, <2>1, <2>4
<1>8. ASSUME job.mode = "resume", HeadCommit = job.commit
      PROVE  artifacts.nodes = Nodes(Repo)
  <2>1. batches = HeadCommit
    BY <1>1, <1>4, <1>8, Ranges
  <2>2. \A b \in BatchNumbers : artifacts.is[b] = "whole"
    BY <1>3, <1>8 DEF Done
  <2>3. \A f, x : Since(history, f, x, HeadCommit) => x = Derived(f, Repo[f])
    BY <1>1, Ranges DEF Since, Repo, HeadCommit
  <2>4. \A f \in Files : artifacts.nodes[f] = Nodes(Repo)[f]
    <3> SUFFICES ASSUME NEW f \in Files PROVE artifacts.nodes[f] = Nodes(Repo)[f]
      OBVIOUS
    <3>1. /\ history[batches] = Repo /\ Nodes(Repo)[f] = Derived(f, Repo[f])
          /\ Repo[f] = Absent => Nodes(Repo)[f] = Absent
      BY <1>1, <2>1, NodesFit, Ranges
    <3>2. CASE Repo[f] # Absent
      BY <1>4, <1>6, <1>8, <2>2, <2>3, <3>1, <3>2
    <3>3. CASE Repo[f] = Absent
      BY <1>4, <3>1, <3>3
    <3> QED BY <3>2, <3>3
  <2>5. artifacts.nodes \in [Files -> 0 .. MaxContent] /\ Nodes(Repo) \in [Files -> 0 .. MaxContent]
    BY <1>1, NodesFit, Ranges DEF TypeOK, Trees
  <2> QED BY <2>4, <2>5
<1> QED BY <1>2, <1>5, <1>7, <1>8

(* Nor does the graph that a partial build updates: what was kept did not  *)
(* change, and what it drops of its own accord it takes from its copy.     *)
LEMMA PartialGraphFits ==
  ASSUME BuildInv, pc = "save", job.mode \in Partial,
         NEW nodes, nodes = Merged(graph.nodes, job.affected, SelectedFiles, UpdateNodes)
  PROVE  /\ nodes \in Trees
         /\ \A f \in Present(nodes) : Since(history, f, nodes[f], graph.base)
         /\ \A f \in Files : Kept(history, f, graph.base) => nodes[f] = Repo[f]
<1>1. TypeOK /\ PartialInv /\ GraphInv /\ CheckpointInv
  BY DEF BuildInv
<1>2. graph.base \in Nat /\ graph.base # NoCommit /\ graph.base <= HeadCommit
  BY <1>1, Ranges DEF PartialInv, GraphInv, TypeOK
<1>3. \A f \in Files : nodes[f] =
        IF f \in SelectedFiles /\ UpdateNodes[f] # Absent THEN UpdateNodes[f]
        ELSE IF f \in job.affected THEN Absent ELSE graph.nodes[f]
  BY MergedHas
<1>4. /\ UpdateNodes \in Trees
      /\ \A f \in Files : UpdateNodes[f] # Absent => Since(history, f, UpdateNodes[f], graph.base)
  <2>1. CASE FromCopy
    <3>1. job.copy \in 1 .. HeadCommit /\ graph.base <= job.copy
      BY <1>1, <2>1, Ranges DEF PartialInv, TypeOK, JobType
    <3>2. /\ UpdateNodes = Nodes(history[job.copy]) /\ history[job.copy] \in Trees
          /\ \A f \in Files : Since(history, f, Derived(f, history[job.copy][f]), graph.base)
      BY <1>1, <1>2, <2>1, <3>1, SinceThen, Ranges DEF UpdateNodes
    <3> QED BY <3>2, NodesFit
  <2>2. CASE ~FromCopy
    BY <1>1, <2>2 DEF UpdateNodes, CheckpointInv, Present, TypeOK
  <2> QED BY <2>1, <2>2
<1>5. nodes \in Trees
  <2>1. \A f \in Files : nodes[f] \in 0 .. MaxContent
    <3>1. UpdateNodes \in [Files -> 0 .. MaxContent] /\ graph.nodes \in [Files -> 0 .. MaxContent]
      BY <1>1, <1>4 DEF Trees, TypeOK
    <3>2. Absent \in 0 .. MaxContent
      BY MaxContentIsNatural DEF Absent
    <3> QED BY <1>3, <3>1, <3>2
  <2> QED BY <2>1 DEF Merged, Trees
<1>6. \A f \in Present(nodes) : Since(history, f, nodes[f], graph.base)
  BY <1>1, <1>3, <1>4 DEF GraphInv, Present
<1>7. ASSUME NEW f \in Files, Kept(history, f, graph.base)
      PROVE  nodes[f] = Repo[f]
  <2>1. \A x : Since(history, f, x, graph.base) => x = Repo[f]
    BY <1>1, <1>2, <1>7, KeptSince, Ranges
  <2>2. graph.nodes[f] = Repo[f]
    BY <1>1, <1>2, <1>7 DEF GraphInv, Current
  <2>3. CASE f \notin job.affected
    BY <1>3, <1>4, <2>1, <2>2, <2>3
  <2>4. CASE f \in job.affected
    <3>1. FromCopy
      BY <1>1, <1>7, <2>4 DEF PartialInv, Partial, FromCopy
    <3>2. /\ job.copy \in 1 .. HeadCommit /\ graph.base <= job.copy
          /\ f \in Present(history[job.copy]) /\ BatchOf[f] \in job.selected
      BY <1>1, <2>4, <3>1, Ranges DEF PartialInv, TypeOK, JobType
    <3>3. history[job.copy][f] # Absent /\ Derived(f, history[job.copy][f]) = history[job.copy][f]
      BY <1>1, <1>2, <1>7, <3>2, KeptThen, Ranges
    <3>4. f \in SelectedFiles /\ UpdateNodes[f] # Absent
      BY <1>1, <3>1, <3>2, <3>3, NodesFit, Ranges DEF SelectedFiles, FilesOf, UpdateNodes
    <3> QED BY <1>3, <1>4, <2>1, <3>4
  <2> QED BY <2>3, <2>4
<1> QED BY <1>5, <1>6, <1>7

(* What a calm partial build leaves in the graph.                          *)
LEMMA CalmGraphFits ==
  ASSUME BuildInv, pc = "save", job.calm, job.mode \in Partial,
         NEW nodes, nodes = Merged(graph.nodes, job.affected, SelectedFiles, UpdateNodes)
  PROVE  /\ job.mode = "incremental" /\ FreshContent =>
              \A f \in Batched \cap Analysable : nodes[f] = Repo[f]
         /\ job.mode = "backfill" => Analysable \cap Code \subseteq Present(nodes)
<1>1. TypeOK /\ PhaseInv /\ PartialInv /\ GraphInv /\ CalmInv /\ Dated(history)
  BY DEF BuildInv
<1>2. \A f \in Files : nodes[f] =
        IF f \in SelectedFiles /\ UpdateNodes[f] # Absent THEN UpdateNodes[f]
        ELSE IF f \in job.affected THEN Absent ELSE graph.nodes[f]
  BY MergedHas
<1>3. ASSUME job.mode = "incremental", FreshContent, NEW f \in Batched \cap Analysable
      PROVE  nodes[f] = Repo[f]
  <2>1. f \in Files /\ f \in Batched /\ Repo[f] # Absent /\ Derived(f, Repo[f]) # Absent /\ ~FromCopy
    BY <1>1, <1>3, NodesFit, Ranges DEF Analysable, FromCopy
  <2>2. /\ job.affected = Changed(history[graph.base], Repo)
        /\ f \in job.affected => BatchOf[f] \in job.selected
        /\ BatchOf[f] \in job.selected => artifacts.nodes[f] = Repo[f]
    BY <1>1, <1>3, <2>1 DEF CalmInv, PhaseInv
  <2>3. CASE f \in job.affected
    BY <1>2, <2>1, <2>2, <2>3 DEF SelectedFiles, FilesOf, UpdateNodes
  <2>4. CASE f \notin job.affected
    <3>1. graph.base \in 1 .. HeadCommit
      BY <1>1, <1>3, Ranges DEF PartialInv, Partial, GraphInv, TypeOK
    <3>2. history[graph.base][f] = Repo[f]
      BY <2>1, <2>2, <2>4 DEF Changed
    <3>3. Kept(history, f, graph.base)
      BY <1>1, <1>3, <2>1, <3>1, <3>2, UnchangedKept, Ranges
    <3> QED BY <2>1, <3>3, PartialGraphFits
  <2> QED BY <2>3, <2>4
<1>4. ASSUME job.mode = "backfill", NEW f \in Analysable \cap Code
      PROVE  f \in Present(nodes)
  <2>1. /\ FromCopy /\ f \in Code /\ f \in Files /\ f \in Present(Repo)
        /\ Repo[f] # Absent /\ Nodes(Repo)[f] = Repo[f]
    BY <1>1, <1>4, NodesFit, Ranges DEF FromCopy, Present, Analysable
  <2>2. /\ history[job.copy] = Repo /\ job.affected = WithoutNodes
        /\ job.selected = {BatchOf[g] : g \in job.affected}
    BY <1>1, <1>4, <2>1 DEF CalmInv, PartialInv, Repo
  <2>3. UpdateNodes[f] = Repo[f]
    BY <2>1, <2>2 DEF UpdateNodes
  <2>4. CASE f \in job.affected
    BY <1>2, <1>4, <2>1, <2>2, <2>3, <2>4 DEF SelectedFiles, FilesOf, Present
  <2>5. CASE f \notin job.affected
    BY <1>2, <1>4, <2>1, <2>2, <2>3, <2>5 DEF WithoutNodes, Present
  <2> QED BY <2>4, <2>5
<1> QED BY <1>3, <1>4

LEMMA SaveGraphKeeps == ASSUME BuildInv, SaveGraph PROVE BuildInv'
<1>1. /\ TypeOK /\ PhaseInv /\ CheckpointInv /\ GraphInv /\ PartialInv /\ CalmInv
      /\ pc = "save" /\ pc' = "meta"
      /\ UNCHANGED <<history, scan, batches, manifest, artifacts, job, last, crashes>>
  BY DEF BuildInv, SaveGraph, Goto, intermediate
<1>2. job.mode \in {"full", "resume"} \cup Partial
  BY <1>1 DEF PhaseInv, TypeOK, JobType, Modes, Partial
<1>3. graph'.meta = graph.meta /\ graph' = [base |-> graph'.base, nodes |-> graph'.nodes, meta |-> graph'.meta]
  BY <1>1 DEF SaveGraph, TypeOK
<1>4. PhaseInv'
  BY <1>1, SameHistory DEF PhaseInv
<1>5. CASE job.mode \in {"full", "resume"}
  <2>1. graph'.base = job.commit /\ graph'.nodes = artifacts.nodes
    BY <1>1, <1>5 DEF SaveGraph, Partial, TypeOK
  <2>2. graph' \in [base : Known, nodes : Trees, meta : Known]
    BY <1>1, <1>3, <1>5, <2>1, FullGraphFits DEF TypeOK
  <2>3. CheckpointInv' /\ GraphInv'
    BY <1>1, <1>3, <1>5, <2>1, FullGraphFits, SameHistory DEF CheckpointInv, GraphInv, Current
  <2>4. FullInv'
    BY <1>1, <1>5, <2>1, FullGraphFits, SameHistory DEF FullInv
  <2>5. PartialInv' /\ CalmInv'
    BY <1>1, <1>5 DEF PartialInv, CalmInv, Partial, FromCopy
  <2> QED BY <1>1, <1>4, <2>2, <2>3, <2>4, <2>5, GoesOn DEF TypeOK, Phases
<1>6. CASE job.mode \in Partial
  <2>1. /\ graph'.base = graph.base
        /\ graph'.nodes = Merged(graph.nodes, job.affected, SelectedFiles, UpdateNodes)
    BY <1>1, <1>6 DEF SaveGraph, TypeOK
  <2>2. graph' \in [base : Known, nodes : Trees, meta : Known]
    BY <1>1, <1>3, <1>6, <2>1, PartialGraphFits DEF TypeOK
  <2>3. CheckpointInv' /\ GraphInv'
    BY <1>1, <1>3, <1>6, <2>1, PartialGraphFits, SameHistory DEF CheckpointInv, GraphInv, Current
  <2>4. FullInv' /\ PartialInv'
    BY <1>1, <1>6, <2>1, SameHistory DEF FullInv, PartialInv, Partial, FromCopy
  <2>5. CalmInv'
    BY <1>1, <1>6, <2>1, CalmGraphFits, SameHistory, SameBatches DEF CalmInv, Current
  <2> QED BY <1>1, <1>4, <2>2, <2>3, <2>4, <2>5, GoesOn DEF TypeOK, Phases
<1> QED BY <1>2, <1>5, <1>6

LEMMA SaveMetaKeeps == ASSUME BuildInv, SaveMeta PROVE BuildInv'
<1>1. /\ TypeOK /\ PhaseInv /\ CheckpointInv /\ GraphInv /\ FullInv /\ CalmInv
      /\ pc = "meta" /\ pc' = "idle" /\ job' = NoJob
      /\ UNCHANGED <<history, scan, batches, manifest, artifacts, crashes>>
      /\ last' = IF job.calm THEN job.mode ELSE "none"
  BY DEF BuildInv, SaveMeta, intermediate
<1>2. /\ graph'.base = graph.base /\ graph'.nodes = graph.nodes /\ graph'.meta = job.commit
      /\ graph' \in [base : Known, nodes : Trees, meta : Known]
      /\ job.commit <= HeadCommit
  BY <1>1 DEF SaveMeta, PhaseInv, TypeOK, JobType
<1>3. TypeOK'
  BY <1>1, <1>2, NothingRuns, SameHistory DEF TypeOK, JobType, Modes, Phases
<1>4. CheckpointInv' /\ GraphInv'
  BY <1>1, <1>2, SameHistory DEF CheckpointInv, GraphInv, Current
<1>5. last' # "none" => job.calm /\ last' = job.mode
  BY <1>1
<1>6. EndedInv'
  <2>1. ResumeIsFull'
    BY <1>1, <1>2, <1>5, SameHistory DEF ResumeIsFull, FullInv
  <2>2. FreshContent => BatchedFilesCurrent'
    BY <1>1, <1>2, <1>5, SameHistory, SameBatches DEF BatchedFilesCurrent, JustBuilt, Current, CalmInv
  <2>3. BackfillFillsGaps'
    BY <1>1, <1>2, <1>5, SameHistory DEF BackfillFillsGaps, JustBuilt, CalmInv
  <2> QED BY <2>1, <2>2, <2>3 DEF EndedInv
<1> QED BY <1>1, <1>3, <1>4, <1>6, NothingRuns, SameHistory DEF BuildInv

-----------------------------------------------------------------------------
(* The theorems.                                                           *)

LEMMA StartKeeps == ASSUME BuildInv, Start PROVE BuildInv'
<1>1. WithoutNodes \in SUBSET Present(Repo)
  BY DEF WithoutNodes
<1>2. ASSUME StartBackfill("backfill", WithoutNodes) PROVE BuildInv'
  <2>1. PICK affected : affected = WithoutNodes
    OBVIOUS
  <2>2. StartBackfill("backfill", affected)
    BY <1>2, <2>1
  <2> QED BY <1>1, <2>1, <2>2, StartBackfillKeeps
<1>3. ASSUME NEW included \in SUBSET Present(Repo), StartBackfill("include", included)
      PROVE  BuildInv'
  BY <1>3, StartBackfillKeeps
<1> QED BY <1>2, <1>3, StartFullKeeps, StartIncrementalKeeps, ResumeFullKeeps, ResumePartialKeeps
        DEF Start

LEMMA PhaseKeeps == ASSUME BuildInv, Phase PROVE BuildInv'
<1>1. ASSUME SaveGraphFails PROVE BuildInv'
  BY <1>1, AbortKeeps DEF SaveGraphFails
<1> QED BY <1>1, ResolveKeeps, ScanKeeps, CleanupKeeps, ComputeKeeps, WriteManifestKeeps, SelectKeeps,
           AnalyzeKeeps, AnalyzeNothingKeeps, SaveGraphKeeps, SaveMetaKeeps DEF Phase

LEMMA NextKeeps == ASSUME BuildInv, [Next]_vars PROVE BuildInv'
<1>1. ASSUME UNCHANGED vars PROVE BuildInv'
  <2>1. UNCHANGED <<history, graph, scan, batches, manifest, artifacts, pc, job, last, crashes>>
    BY <1>1 DEF vars
  <2>2. TypeOK'
    BY <2>1, SameHistory DEF BuildInv, TypeOK
  <2>3. PhaseInv' /\ FullInv' /\ PartialInv'
    BY <2>1, SameHistory, SameBatches DEF BuildInv, PhaseInv, FullInv, Done, PartialInv, FromCopy
  <2>4. CalmInv'
    BY <2>1, SameHistory, SameBatches DEF BuildInv, CalmInv, Current, WithoutNodes
  <2>5. EndedInv'
    BY <2>1, SameHistory, SameBatches DEF BuildInv, EndedInv, ResumeIsFull, BatchedFilesCurrent,
       BackfillFillsGaps, JustBuilt, Current
  <2> QED BY <2>1, <2>2, <2>3, <2>4, <2>5, SameDisk, SameHistory DEF BuildInv
<1> QED BY <1>1, CommitKeeps, StartKeeps, PhaseKeeps, CrashKeeps DEF Next

(* Whatever is committed, killed or resumed, a build knows what its        *)
(* checkpoint, its artifacts and the graph are worth: they are as some     *)
(* commit since the one they name.                                         *)
THEOREM BuildsAreConsistent == Spec => []BuildInv
<1>1. Init => BuildInv
  BY InitFits
<1>2. BuildInv /\ [Next]_vars => BuildInv'
  BY NextKeeps
<1> QED BY <1>1, <1>2, PTL DEF Spec

(* Nothing in knowledge-graph.json is older than the commit it names as    *)
(* its base, from which the next incremental build counts its changes.     *)
THEOREM GraphIsNotBehind == Spec => []NotBehindBase
<1>1. BuildInv => NotBehindBase
  <2> SUFFICES ASSUME BuildInv, NEW f \in Present(graph.nodes)
               PROVE  \E c \in graph.base .. HeadCommit : graph.nodes[f] = history[c][f]
    BY DEF NotBehindBase
  <2>1. TypeOK /\ Since(history, f, graph.nodes[f], graph.base) /\ graph.nodes[f] # Absent
    BY DEF BuildInv, GraphInv, Present
  <2> QED BY <2>1, Ranges DEF Since, Derived, TypeOK
<1> QED BY <1>1, BuildsAreConsistent, PTL

(* A full build that was killed, resumed and ended without a commit gives  *)
(* the graph an undisturbed one would have given.                          *)
THEOREM ResumesAreFull == Spec => []ResumeIsFull
<1>1. BuildInv => ResumeIsFull
  BY DEF BuildInv, EndedInv
<1> QED BY <1>1, BuildsAreConsistent, PTL

(* An incremental build leaves nothing stale that the batches know and     *)
(* that can be analysed, if no commit brings an earlier content back.      *)
THEOREM IncrementalIsCurrent ==
  ASSUME FreshContent
  PROVE  Spec => []BatchedFilesCurrent
<1>1. BuildInv => BatchedFilesCurrent
  BY DEF BuildInv, EndedInv
<1> QED BY <1>1, BuildsAreConsistent, PTL

(* A backfill for the files without nodes leaves no code file and no       *)
(* script of HEAD without, unless the analyzer throws at it.               *)
THEOREM BackfillsFill == Spec => []BackfillFillsGaps
<1>1. BuildInv => BackfillFillsGaps
  BY DEF BuildInv, EndedInv
<1> QED BY <1>1, BuildsAreConsistent, PTL
=============================================================================
