---------------------------- MODULE CommandLine ----------------------------
(***************************************************************************)
(* The argument parsers of the command line: what each command, and each   *)
(* of the two hidden commands that only a parent process types             *)
(* (dashboard-server, batch-mapper-worker), reads from a list of words.    *)
(*                                                                         *)
(* A parser is a record that reads one word at a time.  `opts' maps a      *)
(* field to its value; a field carries the name of its option, except that *)
(* several options may write one field.                                    *)
(***************************************************************************)
EXTENDS Integers, SequencesExt

CONSTANTS None,      \* the value null of an option that was not given
          MaxNumber  \* words for larger numbers are left out

(* Words.  Numbers are the decimal words up to MaxNumber, and two more.    *)
Numerals == {ToString(n) : n \in 0 .. MaxNumber}
IntOf == [w \in Numerals \cup {"-3", "70000"} |->
            IF w \in Numerals THEN CHOOSE n \in 0 .. MaxNumber : ToString(n) = w
            ELSE IF w = "-3" THEN -3 ELSE 70000]
HelpWords == {"-h", "--help"}

(* The options of a command with their kinds.                              *)
OfKinds(named) ==
  [o \in UNION {named[kind] : kind \in DOMAIN named} |->
     CHOOSE kind \in DOMAIN named : o \in named[kind]]

BuildOptions == OfKinds(
  [flag |-> {"--incremental", "--resume", "--backfill", "--exclude-tests",
             "--include-tests", "--llm-analysis", "--llm-required", "--no-dashboard"},
   text |-> {"--project", "--include", "--config", "--deploy-profile",
             "--llm-profile", "--plugin-root", "--output-language",
             "--llm-provider", "--embedding-provider"},
   count |-> {"--llm-retry-max-attempts", "--mappers",
              "--llm-concurrency-per-mapper", "--llm-qpm-limit"},
   batchMode |-> {"--batch-mode"}])

CompatOptions == OfKinds([text |-> {"--plugin-root"}, flag |-> {"--json", "--update"}])

DashboardOptions == OfKinds(
  [text |-> {"--project", "--projects-root", "--project-root", "--host", "--config",
             "--serve-profile", "--registry", "--plugin-root"},
   port |-> {"--port"},
   flag |-> {"--no-open", "--portal", "--project-route", "--rebuild-dashboard"}])

GatewayOptions == OfKinds(
  [text |-> {"--projects-root", "--host", "--config", "--serve-profile", "--reason",
             "--plugin-root"},
   port |-> {"--port"}, count |-> {"--retain"},
   flag |-> {"--no-open", "--stable", "--gc", "--json"}])

ProjectStateOptions == OfKinds(
  [text |-> {"--project", "--source-root"}, flag |-> {"--stable"}, count |-> {"--retain"}])

ReviewOptions == OfKinds([text |-> {"--project", "--output"}])

ReviewHookOptions == OfKinds([text |-> {"--review-cmd"}])

RepairOptions == OfKinds(
  [text |-> {"--project", "--plugin-root", "--llm-provider", "--config"},
   flag |-> {"--repair-dry-run", "--no-dashboard"}, count |-> {"--repair-max-tasks"}])

InitOptions == OfKinds(
  [text |-> {"--project", "--icon-file", "--version", "--repo-path"},
   signed |-> {"--sort-order"}, flag |-> {"--dry-run", "--force"}])

NotifyOptions == OfKinds(
  [text |-> {"--report", "--notify-provider", "--config"}, flag |-> {"--best-effort", "--dry-run"}])

ServeOptions(mode) == OfKinds(
  [text |-> {"--host", "--project-root", "--auth-provider", "--org-policy",
             "--embedding-provider", "--portal-assets", "--registry",
             "--maintenance-project", "--maintenance-title", "--maintenance-message",
             "--maintenance-eta", "--maintenance-contact", "--config", "--serve-profile"}
            \cup IF mode = "public" THEN {"--project"} ELSE {"--state-dir", "--dist-dir", "--token"},
   port |-> {"--port"}, providers |-> {"--record-provider"}, scope |-> {"--maintenance-scope"},
   flag |-> {"--portal", "--project-route", "--maintenance"}])

WorkerOptions == OfKinds(
  [text |-> {"--state-dir", "--project-root", "--output-language", "--indexes-file",
             "--include-paths-file", "--config", "--plugin-root", "--llm-provider",
             "--llm-profile", "--llm-provider-model-candidates"},
   flag |-> {"--llm-analysis", "--llm-required"},
   count |-> {"--llm-timeout", "--llm-retry-max-attempts",
              "--llm-retry-backoff-multiplier", "--global-llm-concurrency",
              "--llm-qpm-limit"},
   natural |-> {"--llm-retry-initial-backoff", "--llm-retry-max-backoff"},
   ratio |-> {"--llm-retry-jitter-ratio"}])

Grammar ==
  [c \in {"build", "compat", "dashboard", "gateway", "project-state", "review-graph-health",
          "run-review-hook", "repair", "notify", "init", "serve", "dashboard-server",
          "batch-mapper-worker"} |->
     CASE c = "build" -> BuildOptions          [] c = "compat" -> CompatOptions
       [] c = "dashboard" -> DashboardOptions  [] c = "gateway" -> GatewayOptions
       [] c = "project-state" -> ProjectStateOptions
       [] c = "review-graph-health" -> ReviewOptions
       [] c = "run-review-hook" -> ReviewHookOptions
       [] c = "repair" -> RepairOptions        [] c = "notify" -> NotifyOptions
       [] c = "init" -> InitOptions            [] c = "serve" -> ServeOptions("public")
       [] c = "dashboard-server" -> ServeOptions("daemon")
       [] c = "batch-mapper-worker" -> WorkerOptions]

(* Commands whose first word after the name is an action. *)
Actions ==
  [c \in {"dashboard", "gateway", "repair", "notify", "project-state", "ops"} |->
     CASE c = "dashboard" -> {"start", "build-dist", "stop", "stop-all", "status", "dev"}
       [] c = "gateway" -> {"publish", "set-stable", "rollback", "list", "gc", "start", "stop"}
       [] c = "repair" -> {"llm-failures", "llm-graph-failures"}
       [] c = "notify" -> {"nightly"}
       [] c = "project-state" -> {"publish", "set-stable", "rollback", "list", "gc"}
       [] c = "ops" -> {"daily-update", "nightly-project-sync", "refresh-prod-server"}]
TakesPositional == {"gateway", "project-state", "init"}

Dashed == (UNION {DOMAIN Grammar[c] : c \in DOMAIN Grammar}) \cup HelpWords
          \cup {"--help-dev", "--bogus", "-3"}
TakesWord(cmd, w) ==
  IF cmd = "batch-mapper-worker" THEN w \notin Dashed \ {"-3", "-h"} ELSE w \notin Dashed

IsInt(w, least) == w \in DOMAIN IntOf /\ IntOf[w] >= least
Accepts(kind, w) ==
  CASE kind = "text"      -> TRUE
    [] kind = "count"     -> IsInt(w, 1)
    [] kind = "natural"   -> IsInt(w, 0)
    [] kind = "signed"    -> w \in DOMAIN IntOf
    [] kind = "port"      -> IsInt(w, 0) /\ IntOf[w] <= 65535
    [] kind = "ratio"     -> w \in {"0", "0.2", "1"}
    [] kind = "batchMode" -> w \in {"auto", "full", "segmented"}
    [] kind = "providers" -> w \in {"local", "feishu-sheets"}
    [] kind = "scope"     -> w \in {"global", "project"}
ValueOf(kind, w) == IF kind \in {"count", "natural", "signed", "port"} THEN IntOf[w] ELSE w

-----------------------------------------------------------------------------
Fresh == [cmd |-> None, act |-> None, opts |-> <<>>, pend |-> None, pos |-> None,
          res |-> "reading"]
Ended(p, how) == [p EXCEPT !.res = how]
Value(p, field) == IF field \in DOMAIN p.opts THEN p.opts[field] ELSE None
Given(p, field, v) ==
  [p EXCEPT !.opts = [f \in DOMAIN @ \cup {field} |-> IF f = field THEN v ELSE @[f]], !.pend = None]

(* The first word of all names the command, the first after it the action. *)
ReadCommand(p, w) ==
  IF w \in HelpWords \cup {"help"} THEN Ended(p, "help")
  ELSE IF w \in DOMAIN Grammar \cup DOMAIN Actions THEN [p EXCEPT !.cmd = w]
  ELSE Ended(p, "refused")

ReadAction(p, w) ==
  IF w \in HelpWords \/ (p.cmd = "dashboard" /\ w = "--help-dev") THEN Ended(p, "help")
  ELSE IF w \in Actions[p.cmd] THEN [p EXCEPT !.act = w, !.res = IF p.cmd = "ops" THEN "parsed" ELSE @]
  ELSE Ended(p, "refused")

(* The three mode flags exclude one another, and each itself. *)
ReadFlag(p, w) ==
  CASE p.cmd = "build" /\ w \in {"--incremental", "--resume", "--backfill"} ->
         IF Value(p, "mode") # None THEN Ended(p, "refused") ELSE Given(p, "mode", w)
    [] w = "--include-tests" -> Given(p, "--exclude-tests", FALSE)
    [] OTHER -> Given(p, w, TRUE)

ReadValue(p, w) ==
  LET kind == Grammar[p.cmd][p.pend] IN
  IF (kind = "signed" \/ TakesWord(p.cmd, w)) /\ Accepts(kind, w)
  THEN Given(p, p.pend, ValueOf(kind, w)) ELSE Ended(p, "refused")

ReadPositional(p, w) ==
  IF w \notin Dashed /\ p.cmd \in TakesPositional /\ p.pos = None
  THEN [p EXCEPT !.pos = w] ELSE Ended(p, "refused")

ReadOption(p, w) ==
  IF p.cmd # "batch-mapper-worker" /\ (w \in HelpWords \/ (p.cmd = "dashboard" /\ w = "--help-dev"))
  THEN Ended(p, IF p.cmd = "dashboard-server" THEN "refused" ELSE "help")
  ELSE IF w \notin DOMAIN Grammar[p.cmd] THEN ReadPositional(p, w)
  ELSE IF Grammar[p.cmd][w] = "flag" THEN ReadFlag(p, w) ELSE [p EXCEPT !.pend = w]

ReadWord(p, w) ==
  IF p.res # "reading" THEN p
  ELSE IF p.cmd = None THEN ReadCommand(p, w)
  ELSE IF p.cmd \in DOMAIN Actions /\ p.act = None THEN ReadAction(p, w)
  ELSE IF p.pend # None THEN ReadValue(p, w)
  ELSE ReadOption(p, w)

-----------------------------------------------------------------------------
(* What must hold of a whole line; env is the set of the variables set.    *)
Has(p, fields) == fields \subseteq DOMAIN p.opts
BuildRules(p) ==
  Has(p, {"--project"}) /\ (Has(p, {"--include"}) => Value(p, "mode") = "--backfill")
DashboardRules(p) ==
  CASE p.act = "stop-all" -> Has(p, {"--projects-root"})
    [] p.act = "dev"      -> Has(p, {"--project", "--plugin-root"})
    [] p.act = "status"   -> ~Has(p, {"--project", "--projects-root"})
    [] OTHER              -> Has(p, {"--project"})
GatewayRules(p) == p.act \notin {"publish", "set-stable"} => p.pos = None
ProjectStateRules(p) ==
  /\ Has(p, {"--project"})
  /\ p.act = "publish" => p.pos # None
  /\ p.act \notin {"publish", "set-stable"} => p.pos = None
ReviewRules(p, env) ==
  /\ Has(p, {"--project"}) \/ "UA_PROJECT_ID" \in env
  /\ Has(p, {"--output"}) \/ "UA_REVIEW_JSON" \in env
ServeRules(p) ==
  /\ IF p.cmd = "serve" THEN Has(p, {"--project"})
     ELSE Has(p, {"--state-dir", "--dist-dir", "--token"})
  /\ Has(p, {"--portal-assets"}) => Has(p, {"--portal"})
WorkerRules(p) ==
  Has(p, {"--state-dir", "--project-root", "--output-language", "--indexes-file"})
Rules(p, env) ==
  CASE p.cmd = "build" -> BuildRules(p)
    [] p.cmd = "dashboard" -> DashboardRules(p)
    [] p.cmd = "gateway" -> GatewayRules(p)
    [] p.cmd = "project-state" -> ProjectStateRules(p)
    [] p.cmd = "review-graph-health" -> ReviewRules(p, env)
    [] p.cmd = "repair" -> Has(p, {"--project"})
    [] p.cmd = "notify" -> Has(p, {"--report"})
    [] p.cmd = "init" -> p.pos # None
    [] p.cmd \in {"serve", "dashboard-server"} -> ServeRules(p)
    [] p.cmd = "batch-mapper-worker" -> WorkerRules(p)
    [] OTHER -> TRUE

(* The fields an action's arguments have; an option outside them is read   *)
(* and then left out.                                                      *)
BuildFields == (DOMAIN BuildOptions \ {"--incremental", "--resume", "--backfill",
                                       "--include-tests", "--no-dashboard"}) \cup {"mode"}
DashboardFields(act) ==
  CASE act = "start" -> DOMAIN DashboardOptions \ {"--projects-root"}
    [] act = "build-dist" -> {"--project", "--plugin-root", "--rebuild-dashboard"}
    [] act = "stop" -> {"--project"}
    [] act = "stop-all" -> {"--projects-root"}
    [] act = "status" -> {"--project", "--projects-root"}
    [] act = "dev" -> {"--project", "--plugin-root", "--host", "--port", "--no-open"}
GatewayFields(act) == {"--projects-root"} \cup
  CASE act = "publish" -> {"--stable", "--retain", "--reason", "--gc", "--plugin-root"}
    [] act = "list" -> {"--json"}
    [] act = "gc" -> {"--retain"}
    [] act = "start" -> {"--host", "--port", "--no-open", "--config", "--serve-profile"}
    [] OTHER -> {}
ProjectStateFields(act) == {"--project"} \cup
  CASE act = "publish" -> {"--source-root", "--stable", "--retain"}
    [] act = "gc" -> {"--retain"}
    [] OTHER -> {}
ServeFields(mode) == DOMAIN ServeOptions(mode)
OtherFields(cmd) ==
  CASE cmd = "repair" -> DOMAIN RepairOptions \ {"--no-dashboard"}
    [] OTHER -> DOMAIN Grammar[cmd]
Fields(p) ==
  CASE p.cmd = "build" -> BuildFields
    [] p.cmd = "dashboard" -> DashboardFields(p.act)
    [] p.cmd = "gateway" -> GatewayFields(p.act)
    [] p.cmd = "project-state" -> ProjectStateFields(p.act)
    [] p.cmd = "serve" -> ServeFields("public")
    [] p.cmd = "dashboard-server" -> ServeFields("daemon")
    [] p.cmd = "ops" -> {}
    [] OTHER -> OtherFields(p.cmd)

(* The end of the line. *)
End(p, env) ==
  CASE p.res # "reading" -> p
    [] p.res = "reading" /\ (p.cmd = None \/ (p.cmd \in DOMAIN Actions /\ p.act = None)) ->
         Ended(p, IF p.cmd = "ops" THEN "refused" ELSE "help")
    [] OTHER -> IF p.pend # None \/ ~Rules(p, env) THEN Ended(p, "refused")
                ELSE [p EXCEPT !.res = "parsed",
                               !.opts = Restrict(@, Fields(p) \cap DOMAIN @)]

(* What a parser has come to after some words, one after another.          *)
Reading(p, words) ==
  LET read[n \in 0 .. Len(words)] == IF n = 0 THEN p ELSE ReadWord(read[n - 1], words[n])
  IN  read[Len(words)]
Parse(words, env) == End(Reading(Fresh, words), env)

(* A number has a word of its own, which is no option's name.              *)
ASSUME NumbersHaveWords ==
  /\ MaxNumber \in Nat /\ ToString(0) = "0" /\ ToString(2) = "2"
  /\ \A n \in 0 .. MaxNumber :
       /\ ToString(n) \notin Dashed
       /\ \A m \in 0 .. MaxNumber : ToString(m) = ToString(n) => m = n
=============================================================================
