------------------------------ MODULE Records -------------------------------
(***************************************************************************)
(* What is kept of a night and of the people who use the portal.  The      *)
(* gateway hands each portal event to its sinks and does not wait.  A      *)
(* nightly run rolls the results of its projects up, writes rows about     *)
(* them and takes its exit code from the roll-up; the daily script notifies*)
(* of it and rolls the day up.  Nights overlap when somebody starts one by *)
(* hand, and all of them share nightly-latest.json and one spreadsheet.    *)
(***************************************************************************)
EXTENDS Sheets, FiniteSetsExt

CONSTANTS None,
          Discoveries, \* the sets of projects a night may come to
          Written,     \* what a project's result.json may hold
          Configured,  \* the record providers the deploy config names
          MaxWork,     \* nights and portal events
          MaxMishaps   \* failed requests and writes, restarts and edited headers

VARIABLES sinks,         \* the record sinks of the gateway
          local,         \* records in the gateway's local files
          night,         \* the nightly runs: of the daily script, by hand
          latestReport,  \* nightly-latest.json
          daily,         \* daily-latest.json
          work, mishaps

ASSUME DiscoveriesAreFinite == \A found \in Discoveries : IsFiniteSet(found)

nightVars == <<night, latestReport, daily>>
recordVars == <<sheetVars, sinks, local, nightVars, work, mishaps>>

Nights == {"daily", "manual"}
ASSUME WritersAreClients == {"gateway"} \cup Nights \subseteq Clients

-----------------------------------------------------------------------------
(* Roll-ups.  `files' has, for each project the night came to, what is in  *)
(* its result.json: a status, nothing, or what is no JSON.                 *)
readPerProjectResult(file) ==
  CASE file = "nothing" -> "missing" [] file = "garbled" -> "failed" [] OTHER -> file
\* What is neither a success, nor skipped, nor missing counts as failed.
Counted(files, status) ==
  {p \in DOMAIN files :
     LET read == readPerProjectResult(files[p])
     IN status = IF read \in {"success", "skipped", "missing"} THEN read ELSE "failed"}
Count(files, status) == Cardinality(Counted(files, status))
(* Mutation of classify: a project without a result is not counted.        *)
classifySeen(files) ==
  IF Count(files, "failed") = 0 THEN "success"
  ELSE IF Count(files, "failed") = Cardinality(DOMAIN files) THEN "failed" ELSE "partial_success"
classify(files) ==
  IF Count(files, "failed") + Count(files, "missing") = 0 THEN "success"
  ELSE IF Count(files, "failed") = Cardinality(DOMAIN files) THEN "failed" ELSE "partial_success"
notifyFailed(files) ==
  {p \in DOMAIN files : readPerProjectResult(files[p]) \notin {"success", "skipped"}}
Aggregate(run, files) ==
  [run |-> run, overallStatus |-> classify(files), failed |-> notifyFailed(files),
   totalFailed |-> Count(files, "failed") + Count(files, "missing")]

classifyOverall(published, nightlyStatus, nightlyOverall, refreshStatus) ==
  IF published = "false" \/ refreshStatus # 0 \/ nightlyOverall = "failed" THEN "failed"
  ELSE IF nightlyOverall = "partial_success" \/ nightlyStatus # 0 THEN "partial_success"
  ELSE "success"

-----------------------------------------------------------------------------
(* The gateway *)
resolveProviderNames(typed, configured) == IF typed # {} THEN typed ELSE configured
SinkChoices == {resolveProviderNames(typed, Configured) : typed \in {{}, {"local"}}}

AppendLocal(record) == local' = IF "local" \in sinks THEN local \cup {record} ELSE local
AppendRemote(record) ==
  writes' = IF "feishu-sheets" \in sinks THEN writes \cup {Begin("gateway", record)} ELSE writes
(* Mutation of WriteToSinks: the local file waits for the spreadsheet.     *)
WriteInTurn(record) ==
  /\ IF "feishu-sheets" \in sinks THEN UNCHANGED local ELSE AppendLocal(record)
  /\ AppendRemote(record)
(* The composite hands the record to every sink before it waits for any.   *)
WriteToSinks(record) == AppendLocal(record) /\ AppendRemote(record)

TrackEvent ==
  /\ work < MaxWork /\ work' = work + 1
  /\ WriteToSinks([kind |-> "user", run |-> work + 1])
  /\ UNCHANGED <<sheets, caches, lost, sinks, nightVars, mishaps>>

Mishap == mishaps < MaxMishaps /\ mishaps' = mishaps + 1

RestartGateway ==
  /\ Mishap
  /\ sinks' \in SinkChoices
  /\ Forget("gateway")
  /\ UNCHANGED <<local, nightVars, work>>

-----------------------------------------------------------------------------
(* A nightly run *)
Asleep == [at |-> "idle", run |-> 0, files |-> <<>>, left |-> {}, status |-> 0]
At(n, step) == night[n].at = step
(* A nightly run exits; the daily script goes on with its exit code. *)
Ends(n, status) ==
  night' = [night EXCEPT ![n] = IF n = "manual" THEN Asleep
                                ELSE [@ EXCEPT !.at = "notify", !.status = status]]

StartNight(n) ==
  /\ At(n, "idle") /\ work < MaxWork /\ work' = work + 1
  /\ night' = [night EXCEPT ![n] = [Asleep EXCEPT !.at = "projects", !.run = work + 1]]
  /\ UNCHANGED <<sheetVars, sinks, local, latestReport, daily, mishaps>>

DiscoverFails(n) ==
  /\ At(n, "projects") /\ Mishap
  /\ Ends(n, 1)
  /\ UNCHANGED <<sheetVars, sinks, local, latestReport, daily, work>>

SyncProjects(n) ==
  /\ At(n, "projects")
  /\ \E found \in Discoveries : \E files \in [found -> Written] :
       night' = [night EXCEPT ![n].files = files, ![n].at = "aggregate"]
  /\ UNCHANGED <<sheetVars, sinks, local, latestReport, daily, work, mishaps>>

FeishuConfigured == "feishu-sheets" \in Configured
(* The projects' rows go into one worksheet one after another: one stands  *)
(* for them.                                                               *)
Envelopes(n) ==
  {[kind |-> kind, run |-> night[n].run] :
     kind \in {"nightly"} \cup (IF night[n].files = <<>> THEN {} ELSE {"project"})}
Leave(n, step, left) ==
  night' = [night EXCEPT ![n].at = step, ![n].left = left,
                         \* the results of a night by hand are of no more use
                         ![n].files = IF n = "manual" /\ step = "rows" THEN <<>> ELSE @]

(* Rows are written from the run's own result.json, when the deploy config *)
(* names the provider.  The script goes on if a roll-up cannot be written. *)
WriteAggregate(n) ==
  /\ At(n, "aggregate")
  /\ Leave(n, "latest", IF FeishuConfigured THEN Envelopes(n) ELSE {})
  /\ UNCHANGED <<sheetVars, sinks, local, latestReport, daily, work, mishaps>>

CopyLatest(n) ==
  /\ At(n, "latest")
  /\ latestReport' = Aggregate(night[n].run, night[n].files)
  /\ Leave(n, "rows", night[n].left)
  /\ UNCHANGED <<sheetVars, sinks, local, daily, work, mishaps>>

AggregateFails(n) ==
  /\ At(n, "aggregate") \/ At(n, "latest")
  /\ Mishap /\ Leave(n, "rows", night[n].left)
  /\ UNCHANGED <<sheetVars, sinks, local, latestReport, daily, work>>

\* The writer waits for each row; the row about the night comes first.
NextRecord(n) ==
  /\ At(n, "rows") /\ \A w \in writes : w.client # n
  /\ \E record \in night[n].left :
       /\ record.kind = "nightly" \/ \A other \in night[n].left : other.kind = "project"
       /\ writes' = writes \cup {Begin(n, record)}
       /\ night' = [night EXCEPT ![n].left = @ \ {record}]
  /\ UNCHANGED <<sheets, caches, lost, sinks, local, latestReport, daily, work, mishaps>>

FinalStatus(n) ==
  /\ At(n, "rows") /\ night[n].left = {} /\ \A w \in writes : w.client # n
  /\ Forget(n)
  /\ LET fine == latestReport # None /\ latestReport.overallStatus \in {"success", "partial_success"}
     IN Ends(n, IF fine THEN 0 ELSE 1)
  /\ UNCHANGED <<sinks, local, latestReport, daily, work, mishaps>>

-----------------------------------------------------------------------------
(* The rest of the day *)
(* The latest report is sent, or is not: the script goes on either way.    *)
Notify ==
  /\ At("daily", "notify")
  /\ night' = [night EXCEPT !["daily"].at = "rollup"]
  /\ UNCHANGED <<sheetVars, sinks, local, latestReport, daily, work, mishaps>>

(* The nightly run has an id of its own, so its roll-up is not found under *)
(* the id of the day, and the latest one is taken.  What became of the     *)
(* publish and the refresh is the other scripts' matter.                   *)
RollUp ==
  /\ At("daily", "rollup")
  /\ LET it == night["daily"]
         nightly == IF latestReport = None THEN [run |-> 0, overallStatus |-> "none"] ELSE latestReport
     IN \E published \in {"true", "false", "skipped"}, refresh \in {0, 1} :
          daily' = [run |-> it.run, read |-> nightly.run, stepFailed |-> published = "false" \/ refresh # 0,
                    overallStatus |-> classifyOverall(published, it.status, nightly.overallStatus, refresh)]
  /\ night' = [night EXCEPT !["daily"].at = "idle", !["daily"].status = 0]
  /\ UNCHANGED <<sheetVars, sinks, local, latestReport, work, mishaps>>

-----------------------------------------------------------------------------
RecordsInit ==
  /\ SheetsInit
  /\ sinks \in SinkChoices
  /\ local = {} /\ night = [n \in Nights |-> Asleep]
  /\ latestReport = None /\ daily = None
  /\ work = 0 /\ mishaps = 0

Write == \E w \in writes :
  /\ WriteStep(w)
  /\ UNCHANGED <<sinks, local, nightVars, work, mishaps>>
WriteFails == \E w \in writes :
  /\ IF Refused(w) \/ Unusable(w) THEN UNCHANGED mishaps ELSE Mishap
  /\ Fail(w)
  /\ UNCHANGED <<sinks, local, nightVars, work>>
Rearranged(kind) == {<<"note">> \o Reverse(mappingOf(kind).columns), <<"runId", "runId">>}
People == \E id \in DOMAIN sheets : \E kind \in Kinds :
  /\ sheets[id].title = mappingOf(kind).worksheet
  /\ Mishap /\ \E header \in Rearranged(kind) : EditHeader(id, header)
  /\ UNCHANGED <<sinks, local, nightVars, work>>

RecordsNext ==
  \/ TrackEvent \/ RestartGateway \/ Write \/ WriteFails \/ People
  \/ \E n \in Nights : \/ StartNight(n) \/ DiscoverFails(n) \/ SyncProjects(n)
                       \/ WriteAggregate(n) \/ CopyLatest(n) \/ AggregateFails(n)
                       \/ NextRecord(n) \/ FinalStatus(n)
  \/ Notify \/ RollUp

RecordsSpec == RecordsInit /\ [][RecordsNext]_recordVars

-----------------------------------------------------------------------------
(* RowsUnderTheirColumns: every cell of a row lies under the column it     *)
(* belongs to, whoever arranged the header and however many first writes   *)
(* raced for the worksheet, and no record has two rows; save rows of a     *)
(* client that had read the header before it was last rearranged, for a    *)
(* client keeps the header as long as its process lives.                   *)
RowsUnderTheirColumns == RowsFit /\ OneRowEach

(* EventsAreLocalFirst: with both sinks, what reaches the spreadsheet, or  *)
(* is lost on the way there, is in the local file already, so a restart or *)
(* a service that fails loses nothing.                                     *)
EventsAreLocalFirst ==
  \A record \in InWrites \cup lost \cup InRows : record.kind = "user" => record \in local

(* ReportsAreHonest: a day is a success only when the gateway was not      *)
(* refused and every project of the night succeeded or was skipped, and it *)
(* failed only when one of its steps did or no project came through; the   *)
(* report that is sent names and counts the projects that did not.  A day  *)
(* whose roll-up read another night's results is left out.                 *)
Unwell(files) == {p \in DOMAIN files : files[p] \notin {"success", "skipped"}}
DayIsHonest ==
  LET it == night["daily"] IN
  daily # None /\ it.at = "idle" /\ daily.run = it.run /\ daily.read = it.run =>
    /\ daily.overallStatus = "success" => Unwell(it.files) = {} /\ ~daily.stepFailed
    /\ daily.overallStatus = "failed" => daily.stepFailed \/ Unwell(it.files) = DOMAIN it.files
ReportIsHonest ==
  LET it == night["daily"] IN
  latestReport # None /\ latestReport.run = it.run =>
    /\ latestReport.failed = Unwell(it.files)
    /\ latestReport.totalFailed = Cardinality(latestReport.failed)
ReportsAreHonest == DayIsHonest /\ ReportIsHonest

-----------------------------------------------------------------------------
(* Night runs and portal events are numbered, so that no two have a record *)
(* in common: what a night has still to write is written nowhere yet.      *)
NightSteps == {"idle", "projects", "aggregate", "latest", "rows", "notify", "rollup"}
FileSets == {<<>>} \cup UNION {[found -> Written] : found \in Discoveries}
NightRuns == [at : NightSteps, run : Nat, files : FileSets, left : SUBSET SheetRecords, status : {0, 1}]
NightsTypeOK == night \in [Nights -> NightRuns] /\ work \in Nat
NightsApart ==
  /\ \A n \in Nights : night[n].run <= work /\ (night[n].at # "idle" => night[n].run # 0)
  /\ night["daily"].run = night["manual"].run => night["daily"].run = 0
  /\ \A record \in InWrites \cup InRows : record.run <= work
  /\ \A n \in Nights :
       /\ \A record \in night[n].left :
            /\ record.kind # "user" /\ record.run = night[n].run /\ record.run # 0
            /\ record \notin InWrites \cup InRows
       /\ night[n].at \in {"projects", "aggregate"} =>
            \A record \in InWrites \cup InRows : record.run # night[n].run
RecordsInv == SheetsInv /\ NightsTypeOK /\ NightsApart

(* The latest report, if it is the night's own, says what its files said. *)
LatestFits ==
  LET it == night["daily"] IN
  latestReport # None =>
    /\ latestReport.run \in 1 .. work
    /\ it.at \in {"projects", "aggregate"} => latestReport.run # it.run
    /\ latestReport.run = it.run => latestReport = Aggregate(it.run, it.files)
=============================================================================
