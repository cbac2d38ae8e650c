------------------------------- MODULE Launch -------------------------------
(***************************************************************************)
(* From the words a user types to the settings a process runs with.  A     *)
(* setting is looked up in the command line, the environment, a profile    *)
(* of the configuration file, its base section and the defaults; `build'   *)
(* then hands its settings to the batch mapper workers, and `dashboard     *)
(* start' and `gateway start' to a daemon, through an argument list which  *)
(* the child parses again.                                                 *)
(***************************************************************************)
EXTENDS CommandLine

CONSTANTS MaxOptions,    \* options a user types in one line
          HostMappers,   \* mappers the host's cores and memory suggest
          Missing        \* batches a build still has to map

VARIABLES line,     \* the parser that reads the user's words
          world,    \* environment, configuration files, loadable packages
          parent,   \* what the command resolved, None before it ran
          children  \* the processes it started, each with what it parsed

launchVars == <<line, world, parent, children>>

(* Words that are typed, configured or passed on, and are no option.       *)
PlainWords == {"id", "state", "repo", "indexes", "paths", "dist", "token", "127.0.0.1", "project", "gateway",
               "gatewayRegistry", "derived", "env", "profile", "base", "en", "pkg", "profilePkg", "full",
               "segmented", "auto", "local", "cwd", "pointer", "0", "0.2", "1", "set", "on", "off", "bad", "gone"}
ASSUME NoneIsNoValue ==
  None \notin Int \cup BOOLEAN \cup PlainWords \cup Dashed \cup DOMAIN Grammar \cup DOMAIN Actions
(* The words for numbers go as far as the budgets do.                      *)
ASSUME BudgetsHaveWords ==
  HostMappers \in Nat \ {0} /\ Missing \in Nat /\ MaxNumber >= 30 /\ MaxNumber >= 5 * HostMappers

(* The first layer that has a value gives it.                              *)
FirstOf(layers) ==
  LET given == {i \in DOMAIN layers : layers[i] # None} IN
  IF given = {} THEN None ELSE layers[CHOOSE i \in given : \A j \in given : i <= j]

(***************************************************************************)
(* A world.  One setting at a time, `of', has values in the layers below   *)
(* the command line; every configuration file has the same contents.  A    *)
(* deploy profile may overlay the base section as a whole ("lacking": with *)
(* a section that does not mention the setting).                           *)
(***************************************************************************)
BuildSettings == {"mode", "--exclude-tests", "--plugin-root", "--output-language", "--llm-analysis",
                  "--llm-required", "--llm-retry-max-attempts", "--llm-retry-initial-backoff",
                  "--llm-retry-max-backoff", "--llm-retry-backoff-multiplier",
                  "--llm-retry-jitter-ratio", "--llm-concurrency-per-mapper", "--llm-qpm-limit",
                  "--batch-mode", "--mappers"}
EnvSettings == {"mode", "--llm-concurrency-per-mapper", "--llm-qpm-limit", "--mappers",
                "--llm-retry-max-attempts", "--llm-retry-initial-backoff",
                "--llm-retry-max-backoff", "--llm-retry-backoff-multiplier",
                "--llm-retry-jitter-ratio"}
Flags == {"--exclude-tests", "--llm-analysis", "--llm-required", "--portal", "--project-route"}
ValueAt(s, layer) ==
  CASE s = "mode" -> [env |-> "--resume", profile |-> "--incremental", base |-> "full"][layer]
    [] s = "--batch-mode" -> [profile |-> "full", base |-> "segmented"][layer]
    [] s = "--llm-retry-jitter-ratio" -> [env |-> "0", profile |-> "1", base |-> "0"][layer]
    [] s \in {"--plugin-root", "--output-language", "--host", "--registry"} -> layer
    [] OTHER -> [env |-> 3, profile |-> 4, base |-> 5][layer]
Contents(s) == {None} \cup (IF s \in Flags THEN {"on", "off"} ELSE {"set"})
At(w, layer, s) ==
  IF w.of # s \/ w[layer] \in {None, "bad"} THEN None
  ELSE IF s \in Flags THEN w[layer] = "on" ELSE ValueAt(s, layer)

Plain == [of |-> None, env |-> None, profile |-> None, base |-> None, overlay |-> "absent",
          named |-> TRUE, envProfile |-> None, files |-> {"id", "derived"}, pointer |-> None,
          package |-> "pkg", loads |-> TRUE, candidates |-> None, token |-> TRUE, uses |-> TRUE]
SettingWorlds(settings, envSettings) ==
  UNION {{[Plain EXCEPT !.of = s, !.env = e, !.profile = f, !.base = b] :
            e \in IF s \in envSettings THEN {"bad"} \cup Contents(s) ELSE {None},
            f \in Contents(s), b \in Contents(s)} : s \in settings}
FileWorlds == {[Plain EXCEPT !.of = "--host", !.files = f, !.pointer = e] :
                 f \in SUBSET {"id", "derived", "pointer", "cwd"}, e \in {None, "pointer"}}
ProfileWorlds(s) ==
  {[Plain EXCEPT !.of = s, !.base = "set", !.overlay = o, !.named = n, !.envProfile = e] :
     o \in {"absent", "lacking", "given"}, n \in BOOLEAN, e \in {None, "id", "gone"}}
LlmWorlds == {[Plain EXCEPT !.package = k, !.loads = l, !.candidates = c] :
                k \in {None, "pkg"}, l \in BOOLEAN, c \in {None, "id", "bad"}}
BuildWorlds == SettingWorlds(BuildSettings, EnvSettings) \cup FileWorlds
               \cup ProfileWorlds("--output-language") \cup LlmWorlds
ServeWorlds == SettingWorlds({"--host", "--port", "--registry", "--portal", "--project-route"},
                             {"--host", "--port"})
               \cup FileWorlds \cup ProfileWorlds("--port")
               \cup {[Plain EXCEPT !.token = t, !.uses = u, !.package = k] :
                       t \in BOOLEAN, u \in BOOLEAN, k \in {None, "pkg"}}

-----------------------------------------------------------------------------
(* The configuration file a process reads: the one named, else the one     *)
(* UA_CONFIG points at, else one found in the working directory or beside  *)
(* the program.                                                            *)
discoverConfigPath(w, named, pointer) ==
  IF named # None THEN IF named \in w.files THEN named ELSE None
  ELSE FirstOf(<<IF pointer \in w.files THEN pointer ELSE None,
                 IF "cwd" \in w.files THEN "cwd" ELSE None>>)

(* Loading it fails when a file named on purpose is missing or a deploy    *)
(* profile, named by the option or else by UA_DEPLOY_PROFILE, is unknown.  *)
ProfileName(w, option) == FirstOf(<<option, w.envProfile>>)
Known(w, name) == w.named /\ name = "id"
loadFails(w, file, explicit, option) ==
  \/ explicit # None /\ file = None
  \/ file # None /\ ProfileName(w, option) # None /\ ~Known(w, ProfileName(w, option))

(* The base section after the deploy profile's overlay. *)
Base(w, file, option, s) ==
  IF file = None \/ w.of # s THEN None
  ELSE IF ProfileName(w, option) = None \/ w.overlay = "absent" THEN At(w, "base", s)
  ELSE IF w.overlay = "given" THEN ValueAt(s, "profile") ELSE None

-----------------------------------------------------------------------------
(* build *)
Default(s) ==
  CASE s = "mode" -> "full"        [] s = "--batch-mode" -> "auto"
    [] s = "--exclude-tests" -> TRUE [] s \in {"--llm-analysis", "--llm-required"} -> FALSE
    [] s = "--plugin-root" -> None [] s = "--output-language" -> "en"
    [] s = "--mappers" -> HostMappers [] s = "--llm-retry-max-attempts" -> 3
    [] s = "--llm-retry-initial-backoff" -> 2  [] s = "--llm-retry-max-backoff" -> 30
    [] s = "--llm-retry-backoff-multiplier" -> 2 [] s = "--llm-retry-jitter-ratio" -> "0.2"
    [] OTHER -> 1

FromCli(p, s) == IF s = "--batch-mode" /\ Value(p, s) = "auto" THEN None ELSE Value(p, s)

(* Mutation of resolveBuildConfig: the environment before the command line. *)
envFirst(p, w, file) ==
  [s \in BuildSettings |-> FirstOf(<<At(w, "env", s), FromCli(p, s), Base(w, file, None, s), Default(s)>>)]

resolveBuildConfig(p, w, file) ==
  LET flag == Value(p, "--deploy-profile")
      \* a file that sets nothing else turns the LLM analysis on
      On(s) == IF file # None /\ s = "--llm-analysis" /\ w.of # s THEN TRUE ELSE None
  IN [s \in BuildSettings |->
        FirstOf(<<FromCli(p, s), At(w, "env", s), IF flag # None THEN At(w, "profile", s) ELSE None,
                  Base(w, file, flag, s), On(s), Default(s)>>)]

badEnv(p, w) == w.env = "bad" /\ (w.of = "mode" \/ FromCli(p, w.of) = None)

LlmPackage(p, w, file) ==
  FirstOf(<<Value(p, "--llm-provider"),
            IF Value(p, "--llm-profile") # None THEN "profilePkg" ELSE None,
            IF file # None THEN w.package ELSE None>>)

buildRefused(p, w, file) ==
  \/ loadFails(w, file, Value(p, "--config"), Value(p, "--deploy-profile"))
  \/ Value(p, "--deploy-profile") # None /\ (file = None \/ ~w.named)
  \/ badEnv(p, w)
  \/ Value(p, "--llm-profile") # None /\ (file = None \/ ~w.named)
  \/ file # None /\ w.candidates = "bad"
  \/ /\ resolveBuildConfig(p, w, file)["--llm-analysis"]
     /\ LlmPackage(p, w, file) = None \/ ~w.loads

Minimum(a, b) == IF a < b THEN a ELSE b
Maximum(a, b) == IF a > b THEN a ELSE b
workerSlotsFor(set) ==
  LET most == Maximum(1, Minimum(set["--mappers"], Maximum(1, Missing)))
      calls == Minimum(set["--mappers"] * set["--llm-concurrency-per-mapper"], set["--llm-qpm-limit"])
  IN IF set["--llm-analysis"] THEN Maximum(1, Minimum(most, calls)) ELSE most
(* Mutation of splitIntegerBudget: every slot rounds up.                   *)
splitRoundedUp(total, slots, i) == (total + slots - 1) \div slots
splitIntegerBudget(total, slots, i) ==
  Maximum(1, total \div slots + IF i <= total % slots THEN 1 ELSE 0)
Segments(slots) == LET size == Maximum(1, (Missing + slots - 1) \div slots)
                   IN (Missing + size - 1) \div size

Opt(o, v) == IF v = None THEN <<>> ELSE <<o, v>>
Number(o, n) == <<o, ToString(n)>>
Flag(o, on) == IF on THEN <<o>> ELSE <<>>
(* Mutation of buildLlmWorkerArgs: --llm-provider only when it was typed.  *)
workerArgsTypedPackage(p, w, set, file) ==
  IF ~set["--llm-analysis"] THEN <<>>
  ELSE <<"--llm-analysis">> \o Opt("--llm-provider", Value(p, "--llm-provider"))
buildLlmWorkerArgs(p, w, set, file) ==
  IF ~set["--llm-analysis"] THEN <<>>
  ELSE <<"--llm-analysis">>
       \o Opt("--config", IF Value(p, "--config") = None /\ "derived" \notin w.files THEN None
                          ELSE FirstOf(<<Value(p, "--config"), "derived">>))
       \o Opt("--llm-profile", Value(p, "--llm-profile"))
       \o Opt("--llm-provider", LlmPackage(p, w, file))
       \o Opt("--llm-provider-model-candidates", IF file = None THEN None ELSE w.candidates)
       \o Flag("--llm-required", set["--llm-required"])
       \o Number("--llm-retry-max-attempts", set["--llm-retry-max-attempts"])
       \o Number("--llm-retry-initial-backoff", set["--llm-retry-initial-backoff"])
       \o Number("--llm-retry-max-backoff", set["--llm-retry-max-backoff"])
       \o Number("--llm-retry-backoff-multiplier", set["--llm-retry-backoff-multiplier"])
       \o <<"--llm-retry-jitter-ratio", set["--llm-retry-jitter-ratio"]>>
buildWorkerArgs(p, w, set, file, slots, i) ==
  <<"batch-mapper-worker">> \o <<"--state-dir", "state">> \o <<"--project-root", "repo">>
  \o <<"--output-language", set["--output-language"]>> \o <<"--indexes-file", "indexes">>
  \o Opt("--include-paths-file", IF Value(p, "--include") = None THEN None ELSE "paths")
  \o Opt("--plugin-root", set["--plugin-root"])
  \o (IF ~set["--llm-analysis"] THEN <<>>
      ELSE buildLlmWorkerArgs(p, w, set, file)
           \o Number("--global-llm-concurrency",
                     splitIntegerBudget(set["--mappers"] * set["--llm-concurrency-per-mapper"], slots, i))
           \o Number("--llm-qpm-limit", splitIntegerBudget(set["--llm-qpm-limit"], slots, i)))

(* A worker loads the provider through the configuration it finds itself.  *)
startWorker(w, argv) ==
  LET p == Parse(argv, {})
      file == discoverConfigPath(w, Value(p, "--config"), w.pointer)
  IN [line |-> p, file |-> file,
      ok |-> /\ p.res = "parsed"
             /\ Value(p, "--llm-analysis") # None =>
                  /\ Value(p, "--llm-provider") # None
                  /\ ~loadFails(w, file, Value(p, "--config"), None)
                  /\ Value(p, "--llm-profile") # None => file # None /\ w.named
                  /\ w.loads]

-----------------------------------------------------------------------------
(* serve, and the daemon, which is serve behind another parser *)
Registered == "gatewayRegistry"
serveRefused(p, w, file, routed, registry) ==
  \/ loadFails(w, file, Value(p, "--config"), None)
  \/ Value(p, "--serve-profile") # None /\ (file = None \/ ~w.named)
  \/ w.env = "bad" /\ w.of = "--port"
  \/ routed /\ registry = None
  \/ p.cmd = "serve" /\ ~w.token
effectivePackageName(p, w, file) ==
  FirstOf(<<Value(p, "--embedding-provider"),
            IF file # None /\ (Value(p, "--serve-profile") = None \/ w.uses) THEN w.package ELSE None>>)

runServe(p, w, pointer) ==
  LET named == FirstOf(<<Value(p, "--config"), IF p.cmd = "serve" THEN "derived" ELSE None>>)
      file == discoverConfigPath(w, named, pointer)
      Profile(s) == IF Value(p, "--serve-profile") # None THEN At(w, "profile", s) ELSE None
      Setting(s, default) ==
        FirstOf(<<Value(p, s), At(w, "env", s), Profile(s), Base(w, file, None, s), default>>)
      portal == FirstOf(<<Value(p, "--portal"), Profile("--portal"), FALSE>>)
      route == FirstOf(<<Value(p, "--project-route"), Profile("--project-route"), FALSE>>)
      registry == FirstOf(<<Value(p, "--registry"), Profile("--registry")>>)
  IN [line |-> p, file |-> file, ok |-> ~serveRefused(p, w, file, portal \/ route, registry),
      host |-> Setting("--host", "127.0.0.1"), port |-> Setting("--port", 0),
      portal |-> portal, route |-> route, registry |-> registry,
      embedding |-> effectivePackageName(p, w, file),
      root |-> FirstOf(<<Value(p, "--project-root"), IF p.cmd = "serve" THEN "repo" ELSE None>>)]

(* dashboard start and gateway start: the settings of the daemon to be. *)
StartDashboardArgs(p) ==
  [state |-> "project", host |-> FirstOf(<<Value(p, "--host"), "127.0.0.1">>),
   port |-> FirstOf(<<Value(p, "--port"), 0>>), root |-> FirstOf(<<Value(p, "--project-root"), "repo">>),
   config |-> Value(p, "--config"), profile |-> Value(p, "--serve-profile"),
   portal |-> Value(p, "--portal") # None, route |-> Value(p, "--project-route") # None,
   registry |-> Value(p, "--registry")]
StartGatewayArgs(p) ==
  [state |-> "gateway", host |-> FirstOf(<<Value(p, "--host"), "127.0.0.1">>),
   port |-> FirstOf(<<Value(p, "--port"), 0>>), root |-> None,
   config |-> Value(p, "--config"), profile |-> Value(p, "--serve-profile"),
   portal |-> TRUE, route |-> TRUE, registry |-> Registered]

(* Mutation of daemonArgv: the address only when it is not the default.    *)
daemonArgvShort(a) ==
  <<"dashboard-server">> \o <<"--state-dir", a.state>> \o <<"--dist-dir", "dist">> \o <<"--token", "token">>
  \o Opt("--host", IF a.host = "127.0.0.1" THEN None ELSE a.host)
  \o Number("--port", a.port) \o Opt("--project-root", a.root) \o Opt("--config", a.config)
  \o Flag("--portal", a.portal) \o Flag("--project-route", a.route) \o Opt("--registry", a.registry)
daemonArgv(a) ==
  <<"dashboard-server">> \o <<"--state-dir", a.state>> \o <<"--dist-dir", "dist">> \o <<"--token", "token">>
  \o <<"--host", a.host>> \o Number("--port", a.port)
  \o Opt("--project-root", a.root) \o Opt("--config", a.config) \o Opt("--serve-profile", a.profile)
  \o Flag("--portal", a.portal) \o Flag("--project-route", a.route) \o Opt("--registry", a.registry)
daemonPointer(a, w) ==
  IF a.config = None /\ w.pointer = None /\ "derived" \in w.files THEN "derived" ELSE w.pointer
(* The daemon listens where its settings say and announces its argument.   *)
Announced(d) == Value(d.line, "--host")
startDaemon(a, w) ==
  LET p == Parse(daemonArgv(a), {})
      d == runServe(p, w, daemonPointer(a, w))
  IN [d EXCEPT !.ok = @ /\ p.res = "parsed"]

-----------------------------------------------------------------------------
LaunchInit == line = Fresh /\ world = None /\ parent = None /\ children = <<>>

(* What is typed in each place, the words a parser refuses among them. *)
Sample(kind) ==
  CASE kind \in {"count", "natural"} -> {"2", "0"}  [] kind = "port" -> {"80", "70000"}
    [] kind = "signed" -> {"-3", "id"}               [] kind = "batchMode" -> {"auto", "full", "id"}
    [] kind = "providers" -> {"local", "id"}         [] kind = "scope" -> {"project", "id"}
    [] OTHER -> {"id", "-3"}
Public == DOMAIN Grammar \ {"dashboard-server", "batch-mapper-worker"}
Typed(p) ==
  IF p.cmd = None THEN Public \cup {"ops", "--help", "--bogus"}
  ELSE IF p.cmd \in DOMAIN Actions /\ p.act = None THEN Actions[p.cmd] \cup {"--help", "--bogus"}
  ELSE IF p.pend # None THEN Sample(Grammar[p.cmd][p.pend])
  ELSE {"--help", "--bogus", "id"}
       \cup IF Cardinality(DOMAIN p.opts) < MaxOptions THEN DOMAIN Grammar[p.cmd] ELSE {}

Type ==
  /\ parent = None /\ line.res = "reading"
  /\ \E w \in Typed(line) : line' = ReadWord(line, w)
  /\ UNCHANGED <<world, parent, children>>

Submit ==
  /\ parent = None /\ line.res = "reading"
  /\ \E env \in {{}, {"UA_PROJECT_ID", "UA_REVIEW_JSON"}} : line' = End(line, env)
  /\ UNCHANGED <<world, parent, children>>

Runs(cmd) == parent = None /\ line.res = "parsed" /\ line.cmd = cmd

(* Batch mode "full" maps in the build's own process; "auto" stands here   *)
(* for the case in which it comes out as segments.                         *)
RunBuild ==
  /\ Runs("build")
  /\ \E w \in BuildWorlds :
       LET file == discoverConfigPath(w, FirstOf(<<Value(line, "--config"), "derived">>), w.pointer)
           set == resolveBuildConfig(line, w, file)
           slots == workerSlotsFor(set)
       IN /\ world' = w
          /\ IF buildRefused(line, w, file)
             THEN parent' = [ok |-> FALSE] /\ children' = <<>>
             ELSE /\ parent' = [ok |-> TRUE, file |-> file, set |-> set, package |-> LlmPackage(line, w, file)]
                  /\ children' = [i \in 1..(IF set["--batch-mode"] = "full" THEN 0 ELSE Segments(slots)) |->
                                    startWorker(w, buildWorkerArgs(line, w, set, file, slots, i))]
  /\ UNCHANGED line

RunServe ==
  /\ Runs("serve")
  /\ \E w \in ServeWorlds : world' = w /\ parent' = runServe(line, w, w.pointer)
  /\ UNCHANGED <<line, children>>

(* Only a start that shows the portal reads the configuration itself.      *)
RunStart(a, w, file) ==
  IF a.portal /\ loadFails(w, file, a.config, None)
  THEN parent' = [ok |-> FALSE] /\ children' = <<>>
  ELSE /\ parent' = [ok |-> TRUE, file |-> file, args |-> a]
       /\ children' = <<startDaemon(a, w)>>
StartDaemon ==
  /\ \/ Runs("dashboard") /\ line.act = "start"
     \/ Runs("gateway") /\ line.act = "start"
  /\ \E w \in ServeWorlds :
       LET a == IF line.cmd = "gateway" THEN StartGatewayArgs(line) ELSE StartDashboardArgs(line)
       IN /\ world' = w
          /\ RunStart(a, w, discoverConfigPath(w, FirstOf(<<a.config, "derived">>), w.pointer))
  /\ UNCHANGED line

LaunchNext == Type \/ Submit \/ RunBuild \/ RunServe \/ StartDaemon
LaunchSpec == LaunchInit /\ [][LaunchNext]_launchVars
-----------------------------------------------------------------------------
LaunchTypeOK ==
  /\ line.res \in {"reading", "help", "refused", "parsed"}
  /\ line.cmd \in Public \cup {"ops", None}
  /\ \A o \in DOMAIN line.opts \ {"mode"} :
       CASE Grammar[line.cmd][o] = "count" -> line.opts[o] >= 1
         [] Grammar[line.cmd][o] = "port" -> line.opts[o] \in 0..65535
         [] OTHER -> TRUE
  /\ world \in {None} \cup BuildWorlds \cup ServeWorlds
  /\ parent # None => parent.ok \in BOOLEAN /\ line.res = "parsed"
  /\ Len(children) <= Maximum(1, Missing)

Ran == parent # None /\ parent.ok
Daemon == children[1]
Started == line.cmd \in {"dashboard", "gateway"} /\ Ran

(* What the user typed is what the process runs with, whatever the         *)
(* environment, the profiles and the files say.  (`--batch-mode auto' is   *)
(* the one value that counts as not given.)                                *)
TypedWins ==
  /\ line.cmd = "build" /\ Ran =>
       \A s \in BuildSettings : FromCli(line, s) # None => parent.set[s] = FromCli(line, s)
  /\ \A d \in (IF line.cmd = "serve" /\ Ran THEN {parent} ELSE {}) \cup (IF Started THEN {Daemon} ELSE {}) :
       /\ Value(line, "--host") \in {None, d.host}
       /\ Value(line, "--port") \in {None, d.port}
       /\ Value(line, "--registry") \in {None, d.registry}
       /\ Value(line, "--portal") \in {None, d.portal}
       /\ Value(line, "--project-root") \in {None, d.root}

(* A child reads the file its parent read: always a worker that uses one,  *)
(* and a daemon when the start named the file or UA_CONFIG names none.     *)
OneConfig ==
  Ran /\ line.cmd # "serve" /\ parent.file # None =>
    \A i \in DOMAIN children :
      \/ children[i].file = parent.file
      \/ line.cmd = "build" /\ ~parent.set["--llm-analysis"]
      \/ line.cmd # "build" /\ world.pointer # None /\ Value(line, "--config") = None

(* Every worker a build starts accepts its argument list and reads the     *)
(* build's settings from it.  A UA_DEPLOY_PROFILE that names no profile is *)
(* left out: the build's own --deploy-profile hides it from the build and  *)
(* not from the workers.  And every child reads the parent's file.         *)
WorkerHears ==
  /\ OneConfig
  /\ line.cmd = "build" /\ Ran /\ world.envProfile # "gone" =>
      \A i \in DOMAIN children :
        LET p == children[i].line IN
        /\ children[i].ok
        /\ \A s \in {"--output-language", "--plugin-root"} : Value(p, s) = parent.set[s]
        /\ (Value(p, "--llm-analysis") # None) = parent.set["--llm-analysis"]
        /\ parent.set["--llm-analysis"] =>
             /\ Value(p, "--llm-provider") = parent.package
             /\ (Value(p, "--llm-required") # None) = parent.set["--llm-required"]
             /\ \A s \in {"--llm-retry-max-attempts", "--llm-retry-initial-backoff",
                           "--llm-retry-max-backoff", "--llm-retry-backoff-multiplier",
                           "--llm-retry-jitter-ratio"} : Value(p, s) = parent.set[s]

\* What the processes were given of a budget, all together.
Total(started, o) ==
  LET sum[n \in 0 .. Len(started)] == IF n = 0 THEN 0 ELSE sum[n - 1] + Value(started[n].line, o)
  IN  sum[Len(started)]

(* The workers of a build together never get more concurrent calls, or     *)
(* more calls a minute, than the build was given, and none gets nothing.   *)
BudgetKept ==
  line.cmd = "build" /\ Ran /\ parent.set["--llm-analysis"] =>
    /\ \A i \in DOMAIN children : Value(children[i].line, "--global-llm-concurrency") >= 1
    /\ Total(children, "--global-llm-concurrency") <= parent.set["--mappers"] * parent.set["--llm-concurrency-per-mapper"]
    /\ Total(children, "--llm-qpm-limit") <= parent.set["--llm-qpm-limit"]

(* The daemon accepts its argument list, runs with what the start asked    *)
(* for, and listens where it says it does.                                 *)
DaemonHears ==
  Started =>
    LET a == parent.args IN
    /\ Daemon.line.res = "parsed"
    /\ Announced(Daemon) = Daemon.host
    /\ <<Daemon.host, Daemon.port, Daemon.root>> = <<a.host, a.port, a.root>>
    /\ a.registry \in {None, Daemon.registry}
    /\ a.portal => Daemon.portal
    /\ a.route => Daemon.route

(* Every process that is started hears what its parent resolved.           *)
ChildrenHear == WorkerHears /\ DaemonHears

-----------------------------------------------------------------------------
(* What a parser keeps of the words people type: every option of the       *)
(* command with a value of its kind.  (Two fields go by other names.)      *)
Fits(kind, v) ==
  /\ kind = "flag" => v = TRUE
  /\ kind = "text" => v \notin Dashed
  /\ kind = "count" => v = 2
  /\ kind = "port" => v \in 0 .. MaxNumber /\ v <= 65535
OptsFit(cmd, opts) ==
  \A o \in DOMAIN opts :
    /\ opts[o] # None
    /\ o \notin {"mode", "--exclude-tests"} => o \in DOMAIN Grammar[cmd] /\ Fits(Grammar[cmd][o], opts[o])
LineFits ==
  /\ line = [cmd |-> line.cmd, act |-> line.act, opts |-> line.opts, pend |-> line.pend,
             pos |-> line.pos, res |-> line.res]
  /\ line.cmd \in Public \cup {"ops", None}
  /\ line.cmd = None => line.pend = None /\ DOMAIN line.opts = {}
  /\ line.pend # None => line.pend \in DOMAIN Grammar[line.cmd] /\ Grammar[line.cmd][line.pend] # "flag"
  /\ OptsFit(line.cmd, line.opts)
=============================================================================
