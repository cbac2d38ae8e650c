------------------------------- MODULE Mapping -------------------------------
(***************************************************************************)
(* The segmented batch mapper.  The build cuts the batches that have no    *)
(* valid artifact into segments and starts a batch-mapper-worker process   *)
(* for each.  A worker analyses batch after batch, with a call of LlmRunner*)
(* before each when LLM analysis is on, and writes batch-<n>.json; the     *)
(* build waits for the exits, judges each by its code and by the artifacts *)
(* of its segment, and merges the artifacts once all segments are good.    *)
(* When the build ends early (a bad segment, SIGINT or SIGTERM) its reaper *)
(* signals the workers that still run.  A build that is killed by SIGKILL  *)
(* leaves its workers alone; Orphan is such a worker of an earlier build.  *)
(*                                                                         *)
(* Left out: metrics and progress lines, --include-paths (the batches here *)
(* are those that remain), the split of the LLM budget (module Launch), a  *)
(* second SIGINT.                                                          *)
(***************************************************************************)
EXTENDS LlmRunner

CONSTANTS FilesOf,      \* the sequence of batches, each a sequence of files
          Mappers,      \* workerSlotsFor when every batch is missing
          LlmAnalysis,  \* --llm-analysis
          Orphan,       \* a worker of a build that was killed still runs
          MayVanish,    \* bound: one of these files cannot be read any more
          MayBeLeft,    \* bound: <<batch, artifact>>, one of which an earlier build left
          MaxFaults     \* bound: workers that fail for reasons of their own

Slots == 1 .. Mappers
Batches == DOMAIN FilesOf
Files == UNION {Range(FilesOf[b]) : b \in Batches}
(* A whole artifact is plain, or has the llmEnriched mark and LLM texts for *)
(* all of its files, for some or for none.                                 *)
Marked == {"enriched", "partial", "hollow"}
Artifacts == {"none", "torn", "plain"} \cup Marked

ASSUME MappingBounds ==
  /\ Mappers \in Nat \ {0}
  /\ MaxFaults \in Nat
  /\ MayVanish \subseteq Files /\ MayBeLeft \subseteq Batches \X Artifacts
ASSUME MappingSwitches == LlmAnalysis \in BOOLEAN /\ Orphan \in BOOLEAN
ASSUME WorkersAreSlots == Workers = 0 .. Mappers
(* A scan lists a file once.                                               *)
ASSUME BatchesOfFiles ==
  /\ FilesOf \in Seq(Seq(Files))
  /\ \A b \in Batches : FilesOf[b] # <<>> /\ IsInjective(FilesOf[b])

VARIABLES disk,         \* what batch-<n>.json holds
          parent,       \* the build
          worker,       \* the worker processes; 0 is the orphan's place
          faults

own == <<disk, parent, worker, faults>>
vars == <<llm, required, unreadable, disk, parent, worker, faults>>

NoWorker == [at |-> "none", segment |-> <<>>, todo |-> <<>>, kind |-> "plain",
             code |-> "none", signalled |-> FALSE]
Live(w) == worker[w].at \notin {"none", "gone"}

Init ==
  /\ llm = [w \in Workers |-> NoCall]
  /\ required \in BOOLEAN
  /\ unreadable \in {{}} \cup {{f} : f \in MayVanish}
  /\ LET nothing == [b \in Batches |-> "none"]
     IN  disk \in {nothing} \cup {[nothing EXCEPT ![left[1]] = left[2]] : left \in MayBeLeft}
  /\ parent = [at |-> "starting", code |-> "none", reaping |-> FALSE, waits |-> {}]
  /\ worker = [w \in Workers |->
       IF w = 0 /\ Orphan
       THEN [NoWorker EXCEPT !.at = "running", !.todo = [b \in Batches |-> b]] ELSE NoWorker]
  /\ faults = 0

-----------------------------------------------------------------------------
(* The build.                                                              *)

(* batchOutputIsValid: a torn artifact does not parse; of the texts it has *)
(* only the mark is looked at.                                             *)
batchOutputIsValid(b) == disk[b] \in Marked \cup (IF LlmAnalysis THEN {} ELSE {"plain"})

(* The batches to be mapped, in their order                                *)
Missing ==
  LET left == {b \in Batches : ~batchOutputIsValid(b)}
  IN  CHOOSE s \in [1 .. Cardinality(left) -> left] :
        \A i, j \in DOMAIN s : i < j => s[i] < s[j]

Segments ==
  LET n == Len(Missing)
      slots == IF n < Mappers THEN n ELSE Mappers
  IN  Chunks(Missing, (n + slots - 1) \div slots)

(* writeBatchGraphFilesSegmented up to its await: all workers are started, *)
(* for there are never more segments than slots.                           *)
Schedule ==
  /\ parent.at = "starting"
  /\ IF Missing = <<>>
     THEN /\ parent' = [parent EXCEPT !.at = "merging"]
          /\ UNCHANGED worker
     ELSE /\ parent' = [parent EXCEPT !.at = "mapping", !.waits = DOMAIN Segments]
          /\ worker' = [w \in Workers |->
               IF w \in DOMAIN Segments
               THEN [NoWorker EXCEPT !.at = "running", !.segment = Segments[w], !.todo = Segments[w]]
               ELSE worker[w]]
  /\ UNCHANGED <<llm, required, unreadable, disk, faults>>

(* The reaper knows the children that have not exited.  A signal that has  *)
(* been sent arrives before the provider's next answer, and the call that  *)
(* waits for it is lost; a write may still end.                            *)
Tracked == {w \in Slots : Live(w)}
Signal ==
  /\ worker' = [w \in Workers |-> IF w \in Tracked THEN [worker[w] EXCEPT !.signalled = TRUE] ELSE worker[w]]
  /\ llm' = [w \in Workers |-> IF w \in Tracked THEN NoCall ELSE llm[w]]

Ended(code) == parent' = [parent EXCEPT !.at = "gone", !.code = code]

(* Mutation of Exit: without a handler of "exit".                          *)
ExitAtOnce(code) == Ended(code) /\ UNCHANGED <<llm, worker>>
(* process.exit runs onExit.                                               *)
Exit(code) == Ended(code) /\ Signal

(* Mutation of SegmentOk: the exit code decides.                           *)
SegmentExitedOk(w) == worker[w].code = "0"
SegmentOk(w) ==
  worker[w].code = "0" /\ \A i \in DOMAIN worker[w].segment : batchOutputIsValid(worker[w].segment[i])

(* A worker's exit is seen: the first bad segment rejects Promise.all, the *)
(* last good one resolves it.                                              *)
Collect(w) ==
  /\ parent.at = "mapping" /\ w \in parent.waits /\ worker[w].at = "gone"
  /\ IF SegmentOk(w)
     THEN /\ parent' = [parent EXCEPT !.waits = @ \ {w},
                                      !.at = IF parent.waits = {w} THEN "merging" ELSE @]
          /\ UNCHANGED <<llm, worker>>
     ELSE Exit("1")
  /\ UNCHANGED <<required, unreadable, disk, faults>>

(* onSigint and onSigterm: the workers are told to end.                    *)
Interrupt ==
  /\ parent.at \in {"starting", "mapping", "merging"} /\ ~parent.reaping
  /\ parent' = [parent EXCEPT !.reaping = TRUE]
  /\ Signal
  /\ UNCHANGED <<required, unreadable, disk, faults>>

(* After escalationMs the survivors get a SIGKILL and the build exits.     *)
Escalate ==
  /\ parent.at \in {"starting", "mapping", "merging"} /\ parent.reaping
  /\ Exit("signal")
  /\ UNCHANGED <<required, unreadable, disk, faults>>

(* The artifacts are merged and the rest of the build is done.  Once the   *)
(* reaper's timer is set it ends the process, with the signal's code: the  *)
(* CLI does not call process.exit when a build succeeds.                   *)
Merge ==
  /\ parent.at = "merging" /\ ~parent.reaping
  /\ Exit("0")
  /\ UNCHANGED <<required, unreadable, disk, faults>>

-----------------------------------------------------------------------------
(* runBatchMapperWorker, in process w.                                     *)

Move(w, next) == worker' = [worker EXCEPT ![w] = next] /\ UNCHANGED <<parent, required, unreadable>>
Gone(w, code) == [worker[w] EXCEPT !.at = "gone", !.code = code, !.todo = <<>>]
Batch(w) == Head(worker[w].todo)

Begin(w) ==
  /\ worker[w].at = "running" /\ worker[w].todo # <<>> /\ ~worker[w].signalled
  /\ Move(w, [worker[w] EXCEPT !.at = IF LlmAnalysis THEN "asking" ELSE "analysing"])
  /\ llm' = IF LlmAnalysis THEN [llm EXCEPT ![w] = NewCall(FilesOf[Batch(w)])] ELSE llm
  /\ UNCHANGED <<disk, faults>>

Ask(w) ==
  /\ worker[w].at = "asking"
  /\ Runner(w)
  /\ UNCHANGED own

(* The call returned: analyzeSingleBatch takes the texts it brought.       *)
Asked(w) ==
  LET n == Cardinality(llm[w].texts)
      kind == IF n = Len(llm[w].files) THEN "enriched" ELSE IF n > 0 THEN "partial" ELSE "hollow"
  IN
  /\ worker[w].at = "asking" /\ llm[w].end = "done"
  /\ Move(w, [worker[w] EXCEPT !.at = "analysing", !.kind = kind])
  /\ llm' = [llm EXCEPT ![w] = NoCall]
  /\ UNCHANGED <<disk, faults>>

(* It threw: the process exits with 1, whatever its other threads do.      *)
AskThrew(w) ==
  /\ worker[w].at = "asking" /\ llm[w].end = "thrown"
  /\ Move(w, Gone(w, "1"))
  /\ llm' = [llm EXCEPT ![w] = NoCall]
  /\ UNCHANGED <<disk, faults>>

(* analyzeSingleBatch: a batch of which no file can be read gives nothing. *)
(* Else the file is cut to nothing and written.                            *)
Analyse(w) ==
  /\ worker[w].at = "analysing"
  /\ IF Range(FilesOf[Batch(w)]) \subseteq unreadable
     THEN /\ Move(w, [worker[w] EXCEPT !.at = "running", !.todo = Tail(@), !.kind = "plain"])
          /\ UNCHANGED disk
     ELSE /\ Move(w, [worker[w] EXCEPT !.at = "writing"])
          /\ disk' = [disk EXCEPT ![Batch(w)] = "torn"]
  /\ UNCHANGED <<llm, faults>>

Written(w) ==
  /\ worker[w].at = "writing"
  /\ disk' = [disk EXCEPT ![Batch(w)] = worker[w].kind]
  /\ Move(w, [worker[w] EXCEPT !.at = "running", !.todo = Tail(@), !.kind = "plain"])
  /\ UNCHANGED <<llm, faults>>

Finish(w) ==
  /\ worker[w].at = "running" /\ worker[w].todo = <<>>
  /\ Move(w, Gone(w, "0"))
  /\ UNCHANGED <<llm, disk, faults>>

(* An error or the operating system ends the process.                      *)
Break(w) ==
  /\ Live(w) /\ faults < MaxFaults
  /\ faults' = faults + 1
  /\ Move(w, Gone(w, "1"))
  /\ llm' = [llm EXCEPT ![w] = NoCall]
  /\ UNCHANGED disk

(* The signal arrives.                                                     *)
Die(w) ==
  /\ Live(w) /\ worker[w].signalled
  /\ Move(w, Gone(w, "signal"))
  /\ llm' = [llm EXCEPT ![w] = NoCall]
  /\ UNCHANGED <<disk, faults>>

-----------------------------------------------------------------------------
Parent == Schedule \/ (\E w \in Slots : Collect(w)) \/ Merge \/ Escalate
Work(w) ==
  Begin(w) \/ Ask(w) \/ Asked(w) \/ AskThrew(w) \/ Analyse(w) \/ Written(w) \/ Finish(w) \/ Die(w)

(* Everybody has ended.                                                    *)
Over == parent.at = "gone" /\ (\A w \in Workers : ~Live(w)) /\ UNCHANGED vars

Next ==
  \/ Parent \/ Interrupt
  \/ \E w \in Workers : Work(w) \/ Break(w)
  \/ Over

(* Timers fire, signals arrive, the processes run, and the provider        *)
(* answers: every request has a time limit.                                *)
Spec == Init /\ [][Next]_vars /\ WF_vars(Parent) /\ \A w \in Workers : WF_vars(Work(w))

-----------------------------------------------------------------------------
(* Before the artifacts are merged every batch has one that is whole, and  *)
(* marked when LLM analysis is on: not one that a worker left out, left    *)
(* torn when it died, or that an earlier build made without the LLM.  With *)
(* --llm-required every file of what this build mapped has its text.       *)
MergedIsWhole ==
  parent.at = "merging" =>
    \A b \in Batches :
      /\ disk[b] \in Marked \/ (disk[b] = "plain" /\ ~LlmAnalysis)
      /\ LlmAnalysis /\ required /\ <<b, disk[b]>> \notin MayBeLeft => disk[b] = "enriched"

(* A build that ends leaves no worker behind that has not been told to end.*)
NoStrays ==
  parent.at = "gone" =>
    \A w \in Slots : Live(w) => worker[w].signalled

(* "When true, the artifact must carry a non-empty LLM-enriched payload":  *)
(* an artifact that passes for enriched has a text for at least one file.  *)
MarkIsEarned ==
  parent.at = "merging" /\ LlmAnalysis => \A b \in Batches : disk[b] # "hollow"

(* A build ends and its workers with it: no thread waits for a turn in the *)
(* throttle chain or for a cooldown that never comes, nor the build for an *)
(* exit that it has missed.                                                *)
MappingEnds == <>(parent.at = "gone" /\ \A w \in Workers : ~Live(w))

(* "Exit with 130 for SIGINT, 143 for SIGTERM": a build that was told to   *)
(* end by a signal ends with the signal's code.                            *)
SignalIsReported ==
  parent.at = "gone" /\ parent.reaping => parent.code = "signal"

(* "enough segments to fill the configured mapper slots"                   *)
SlotsAreFilled ==
  parent.at = "mapping" /\ Len(FilesOf) >= Mappers /\ MayBeLeft = {} =>
    \A w \in Slots : worker[w].at # "none"

-----------------------------------------------------------------------------
(* The invariants that NoStrays and MergedIsWhole follow from.             *)

Codes == {"none", "0", "1", "signal"}
ParentType ==
  [at : {"starting", "mapping", "merging", "gone"}, code : Codes, reaping : BOOLEAN,
   waits : SUBSET Slots]
WorkerType ==
  [at : {"none", "running", "asking", "analysing", "writing", "gone"},
   segment : Seq(Batches), todo : Seq(Batches), kind : Artifacts \ {"none", "torn"},
   code : Codes, signalled : BOOLEAN]

TypeOK ==
  /\ llm \in [Workers -> CallType(Files)]
  /\ required \in BOOLEAN /\ unreadable \subseteq Files
  /\ disk \in [Batches -> Artifacts]
  /\ parent \in ParentType
  /\ worker \in [Workers -> WorkerType]
  /\ faults \in 0 .. MaxFaults

(* A worker has a batch in hand.                                           *)
InHand ==
  \A w \in Workers : worker[w].at \in {"asking", "analysing", "writing"} => worker[w].todo # <<>>

(* Without an orphan nobody writes but the workers that the build waits    *)
(* for, and each only the artifacts of its own segment.                    *)
SegmentsApart ==
  /\ \A v, w \in Workers :
       v # w => Range(worker[v].segment) \cap Range(worker[w].segment) = {}
  /\ \A w \in Workers : Range(worker[w].todo) \subseteq Range(worker[w].segment)
  /\ ~Live(0)
  /\ parent.at = "starting" => \A w \in Workers : worker[w].segment = <<>>
  /\ parent.at \in {"starting", "merging"} => parent.waits = {} /\ \A w \in Slots : ~Live(w)
  /\ parent.at = "mapping" => \A w \in Slots : Live(w) => w \in parent.waits

(* A batch has its artifact, or is in a segment that is waited for.        *)
Covered ==
  parent.at \in {"mapping", "merging"} =>
    \A b \in Batches :
      batchOutputIsValid(b) \/ \E w \in parent.waits : b \in Range(worker[w].segment)

(* With --llm-required this build makes only artifacts that are enriched.  *)
MadeWithTexts ==
  LlmAnalysis /\ required =>
    /\ \A b \in Batches :
         disk[b] \in {"none", "torn", "enriched"} \/ <<b, disk[b]>> \in MayBeLeft
    /\ \A w \in Workers : worker[w].at \in {"analysing", "writing"} => worker[w].kind = "enriched"

MappingInv == TypeOK /\ CallsInv /\ InHand /\ SegmentsApart /\ Covered /\ MadeWithTexts
=============================================================================
