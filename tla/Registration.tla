---------------------------- MODULE Registration ----------------------------
(***************************************************************************)
(* Which projects there are.  `init' writes projects.json under a lock     *)
(* that is a directory; refresh-prod-server discovers the projects in it   *)
(* and keeps registry.json, under a lock of its own, in step: it registers *)
(* every project it refreshed and prunes the rest.  Commands overlap and   *)
(* may be killed; nobody breaks the lock of a dead one, a waiter gives up. *)
(***************************************************************************)
EXTENDS Integers, SequencesExt

CONSTANTS Projects, Inits, Refreshes, None,
          MaxCommands, \* commands that are started
          MaxEdits,    \* times the operator edits projects.json by hand
          MaxKills     \* commands that are killed

ASSUME SomeProject == Projects # {}
ASSUME CommandsAreNumbers == Inits \cup Refreshes \subseteq Nat /\ Inits \cap Refreshes = {}

VARIABLES file,       \* projects.json
          icons,      \* icon files of the portal, as <<project, extension>>
          lock,       \* who made the lock directory of either file
          registry,   \* registry.json
          proc,       \* the commands
          edits, kills

vars == <<file, icons, lock, registry, proc, edits, kills>>

-----------------------------------------------------------------------------
(* Paths are sequences of names, "/" first when absolute.  A placeholder   *)
(* of a template, and "..", are the first name if any.                     *)
Root == <<"/", "srv", "projects">>
Home == <<"/", "home">>
Resolve(anchor, path) ==
  CASE Head(path) = "/" -> path
    [] Head(path) = ".." -> Front(anchor) \o Tail(path)
    [] OTHER -> anchor \o path
expandTemplate(template, table) ==
  IF Head(template) \in DOMAIN table THEN table[Head(template)] \o Tail(template) ELSE template
Placeholders == {"${projectBaseDir}", "${projectsRoot}", "${projectId}", "${HOME}"}
Table(p, base) == [x \in Placeholders |-> CASE x = "${projectBaseDir}" -> base
                                            [] x = "${projectsRoot}" -> Root
                                            [] x = "${projectId}" -> <<p>>
                                            [] x = "${HOME}" -> Home]
OrElse(v, default) == IF v = None THEN default ELSE v
RepoTemplate(entry, p) == OrElse(entry.repo, <<"${projectBaseDir}", p>>)

(* Where the command line looks for a project's repository ... *)
contextRepo(f, p) ==
  LET base == Resolve(Root, expandTemplate(OrElse(f.base, <<"..">>), Table(p, <<>>)))
  IN Resolve(base, expandTemplate(RepoTemplate(f.entries[p], p), Table(p, base)))
(* Mutation of discoveredRepo: projects.json is the anchor, not the root.  *)
discoveredBeside(f, p) ==
  LET base == Resolve(Root \o <<"gateway">>, OrElse(f.base, <<"..">>))
  IN Resolve(base, expandTemplate(RepoTemplate(f.entries[p], p), Table(p, base)))
(* ... and where the scripts do: the base directory is taken as written.   *)
discoveredRepo(f, p) ==
  LET base == Resolve(Root, OrElse(f.base, <<"..">>))
  IN Resolve(base, expandTemplate(RepoTemplate(f.entries[p], p), Table(p, base)))

-----------------------------------------------------------------------------
NoEntries == [p \in Projects |-> None]
NoFile == [kind |-> "missing", base |-> None, entries |-> NoEntries]

(* The tolerant reader: what it cannot read has no projects. *)
readProjectsConfig(f) == IF f.kind = "good" THEN f ELSE NoFile

Conflicts(entries, a) ==
  /\ entries[a.project] # None /\ a.repo # None
  /\ entries[a.project].repo \notin {None, a.repo}
(* Mutation of upsertEntry: the entry is rebuilt from what was typed.      *)
upsertWhole(entries, a) ==
  [entries EXCEPT ![a.project] = [repo |-> a.repo, version |-> a.version, visible |-> TRUE]]
upsertEntry(entries, a) ==
  LET old == entries[a.project] IN
  [entries EXCEPT ![a.project] =
     IF old = None THEN [repo |-> a.repo, version |-> a.version, visible |-> TRUE]
     ELSE [old EXCEPT !.repo = OrElse(a.repo, old.repo), !.version = OrElse(a.version, old.version)]]

(* What an init is asked: fields, an icon, --force, --dry-run. *)
Request(p, repo, version, icon, force, dry) ==
  [project |-> p, repo |-> repo, version |-> version, icon |-> icon, force |-> force, dry |-> dry]
Requests ==
  {Request(p, <<"r1">>, None, None, FALSE, FALSE) : p \in Projects}
  \cup {Request(CHOOSE p \in Projects : TRUE, <<"r3">>, None, None, FALSE, TRUE)}
  \cup {Request(p, <<"${HOME}", "r2">>, None, None, TRUE, FALSE) : p \in Projects}
  \cup {Request(x[1], None, "v2", x[2], FALSE, FALSE) : x \in Projects \X {".png", ".svg"}}

-----------------------------------------------------------------------------
(* A command.  An init keeps what it was asked and what it will write; a   *)
(* refresh the file it discovered, the projects it has left to do and the  *)
(* one it is at, with the token for it; `clean' and `alone' record whether *)
(* it left something out and whether another refresh overlapped it.        *)
Idle == [pc |-> "idle", ask |-> None, write |-> None, filter |-> None, found |-> {},
         left |-> {}, at |-> None, token |-> None, clean |-> TRUE, alone |-> TRUE]
Procs == Inits \cup Refreshes
Ended == {"done", "failed", "killed"}
Go(q, pc) == proc' = [proc EXCEPT ![q].pc = pc]
\* What the command knew is of no use any more.
Finish(q, how) == proc' = [proc EXCEPT ![q] = [Idle EXCEPT !.pc = how]]
(* Commands are numbered in the order they start. *)
MayStart(q, kind) ==
  /\ proc[q].pc = "idle" /\ \A o \in kind : o < q => proc[o].pc # "idle"
  /\ Cardinality({o \in Procs : proc[o].pc # "idle"}) < MaxCommands

(* Mutation of AcquireLock: the lock directory may exist already.          *)
AcquireAnyway(q, name, waiting, holding) ==
  /\ proc[q].pc = waiting
  /\ lock' = [lock EXCEPT ![name] = q]
  /\ Go(q, holding)
AcquireLock(q, name, waiting, holding) ==
  /\ proc[q].pc = waiting /\ lock[name] = None
  /\ lock' = [lock EXCEPT ![name] = q]
  /\ Go(q, holding)
TimesOut(q, name, waiting) == proc[q].pc = waiting /\ lock[name] # None

-----------------------------------------------------------------------------
(* init *)
StartInit(i) ==
  /\ MayStart(i, Inits)
  /\ \E a \in Requests :
       LET refused == Conflicts(readProjectsConfig(file).entries, a) /\ ~a.force IN
       IF a.dry THEN Finish(i, IF refused THEN "failed" ELSE "done")
       ELSE proc' = [proc EXCEPT ![i].ask = a, ![i].pc = "waiting"]
  /\ UNCHANGED <<file, icons, lock, registry, edits, kills>>

LockConfig(i) ==
  /\ AcquireLock(i, "config", "waiting", "reading")
  /\ UNCHANGED <<file, icons, registry, edits, kills>>

(* Mutation of GiveUpConfig: the deadline is never looked at.              *)
WaitsForever(i) == FALSE /\ UNCHANGED vars
GiveUpConfig(i) ==
  /\ TimesOut(i, "config", "waiting") /\ Finish(i, "failed")
  /\ UNCHANGED <<file, icons, lock, registry, edits, kills>>

(* An error leaves the locked section through its finally clause. *)
Fail(i) ==
  /\ Finish(i, "failed") /\ lock' = [lock EXCEPT !["config"] = None]
  /\ UNCHANGED <<file, icons, registry, edits, kills>>

ReadConfig(i) ==
  LET a == proc[i].ask
      config == readProjectsConfig(file)
  IN /\ proc[i].pc = "reading"
     /\ IF Conflicts(config.entries, a) /\ ~a.force THEN Fail(i)
        ELSE /\ proc' = [proc EXCEPT ![i].write = [config EXCEPT !.kind = "good",
                                                                 !.entries = upsertEntry(@, a)],
                                     ![i].pc = IF a.icon = None THEN "writing" ELSE "icon"]
             /\ UNCHANGED <<file, icons, lock, registry, edits, kills>>

(* The extension is looked at, and the source, before anything is removed. *)
RemoveIcons(i) ==
  /\ proc[i].pc = "icon"
  /\ \/ Fail(i)
     \/ /\ icons' = {x \in icons : x[1] # proc[i].ask.project}
        /\ Go(i, "copying")
        /\ UNCHANGED <<file, lock, registry, edits, kills>>

CopyIcon(i) ==
  /\ proc[i].pc = "copying"
  /\ \/ Fail(i)
     \/ /\ icons' = icons \cup {<<proc[i].ask.project, proc[i].ask.icon>>}
        /\ Go(i, "writing")
        /\ UNCHANGED <<file, lock, registry, edits, kills>>

WriteConfig(i) ==
  /\ proc[i].pc = "writing"
  /\ file' = proc[i].write
  /\ Go(i, "written")
  /\ UNCHANGED <<icons, lock, registry, edits, kills>>

UnlockConfig(i) ==
  /\ proc[i].pc = "written"
  /\ lock' = [lock EXCEPT !["config"] = None]
  /\ Finish(i, "done")
  /\ UNCHANGED <<file, icons, registry, edits, kills>>

-----------------------------------------------------------------------------
(* refresh-prod-server *)
Visible(f) == {p \in Projects : f.entries[p] # None /\ f.entries[p].visible}

Running == {r \in Refreshes : proc[r].pc \notin Ended \cup {"idle"}}
Discover(r) ==
  /\ MayStart(r, Refreshes)
  /\ IF file.kind # "good" THEN Go(r, "failed")
     ELSE \E only \in {None} \cup Projects :
            LET found == Visible(file) \cap IF only = None THEN Projects ELSE {only}
            IN proc' = [q \in Procs |->
                 IF q = r THEN [Idle EXCEPT !.pc = "next", !.filter = only, !.write = file,
                                            !.found = found, !.left = found, !.alone = Running = {}]
                 ELSE IF q \in Running THEN [proc[q] EXCEPT !.alone = FALSE] ELSE proc[q]]
  /\ UNCHANGED <<file, icons, lock, registry, edits, kills>>

(* A project whose last nightly run failed is left as it is, and one whose *)
(* dashboard cannot be built.                                              *)
SkipProject(r) ==
  /\ proc[r].pc = "next"
  /\ \E p \in proc[r].left :
       proc' = [proc EXCEPT ![r].left = @ \ {p}, ![r].clean = FALSE]
  /\ UNCHANGED <<file, icons, lock, registry, edits, kills>>

(* Mutation of ReadToken: a new token each time.                           *)
NewToken(r) ==
  /\ proc[r].pc = "next"
  /\ \E p \in proc[r].left :
       proc' = [proc EXCEPT ![r].at = p, ![r].pc = "registering", ![r].token = <<r, p>>]
  /\ UNCHANGED <<file, icons, lock, registry, edits, kills>>
(* The token is looked up, or made, before the lock is taken. *)
ReadToken(r) ==
  /\ proc[r].pc = "next"
  /\ \E p \in proc[r].left :
       proc' = [proc EXCEPT ![r].at = p, ![r].pc = "registering",
                            ![r].token = IF registry[p] = None THEN <<r, p>> ELSE registry[p].token]
  /\ UNCHANGED <<file, icons, lock, registry, edits, kills>>

LockRegistry(r) ==
  /\ \/ AcquireLock(r, "registry", "registering", "upsert")
     \/ AcquireLock(r, "registry", "removing", "remove")
  /\ UNCHANGED <<file, icons, registry, edits, kills>>

(* A lock that does not come fails one registration, or all the pruning. *)
GiveUpRegistry(r) ==
  /\ TimesOut(r, "registry", "registering") \/ TimesOut(r, "registry", "removing")
  /\ IF proc[r].pc = "removing" THEN Finish(r, "failed")
     ELSE proc' = [proc EXCEPT ![r].clean = FALSE, ![r].left = @ \ {proc[r].at}, ![r].pc = "next",
                               ![r].at = None, ![r].token = None]
  /\ UNCHANGED <<file, icons, lock, registry, edits, kills>>

Upsert(r) ==
  /\ proc[r].pc = "upsert"
  /\ registry' = [registry EXCEPT ![proc[r].at] =
                    [token |-> proc[r].token, root |-> discoveredRepo(proc[r].write, proc[r].at)]]
  /\ Go(r, "upserted")
  /\ UNCHANGED <<file, icons, lock, edits, kills>>

(* A refresh of one project prunes nothing; any other lists the registry   *)
(* and then removes what it did not discover, one record at a time.        *)
ListRecords(r) ==
  /\ proc[r].pc = "next" /\ proc[r].left = {}
  /\ LET stale == {p \in Projects : registry[p] # None} \ proc[r].found IN
     IF proc[r].filter # None THEN Finish(r, "done")
     ELSE proc' = [proc EXCEPT ![r].left = stale, ![r].found = {}, ![r].pc = "pruning"]
  /\ UNCHANGED <<file, icons, lock, registry, edits, kills>>

PruneNext(r) ==
  /\ proc[r].pc = "pruning"
  /\ IF proc[r].left = {} THEN Go(r, "done")
     ELSE \E p \in proc[r].left : proc' = [proc EXCEPT ![r].at = p, ![r].pc = "removing"]
  /\ UNCHANGED <<file, icons, lock, registry, edits, kills>>

RemoveRecord(r) ==
  /\ proc[r].pc = "remove"
  /\ registry' = [registry EXCEPT ![proc[r].at] = None]
  /\ Go(r, "removed")
  /\ UNCHANGED <<file, icons, lock, edits, kills>>

UnlockRegistry(r) ==
  /\ proc[r].pc \in {"upserted", "removed"}
  /\ lock' = [lock EXCEPT !["registry"] = None]
  /\ proc' = [proc EXCEPT ![r].left = @ \ {proc[r].at}, ![r].at = None, ![r].token = None,
                          ![r].pc = IF @ = "upserted" THEN "next" ELSE "pruning"]
  /\ UNCHANGED <<file, icons, registry, edits, kills>>

-----------------------------------------------------------------------------
(* The operator hides a project or breaks the file, while no init is at it. *)
Edit ==
  /\ edits < MaxEdits /\ edits' = edits + 1
  /\ file.kind = "good" /\ lock["config"] = None
  /\ \/ \E p \in Visible(file) : file' = [file EXCEPT !.entries[p].visible = FALSE]
     \/ file' = [file EXCEPT !.kind = "corrupt"]
  /\ UNCHANGED <<icons, lock, registry, proc, kills>>

Kill(q) ==
  /\ kills < MaxKills /\ kills' = kills + 1
  /\ proc[q].pc \notin Ended \cup {"idle"} /\ Finish(q, "killed")
  /\ UNCHANGED <<file, icons, lock, registry, edits>>

Init ==
  /\ file \in {NoFile} \cup
       {[kind |-> "good", base |-> b,
         entries |-> [p \in Projects |-> [repo |-> None, version |-> "v1", visible |-> TRUE]]] :
          b \in {None, <<"${HOME}", "repos">>}}
  /\ icons = {}
  /\ lock = [f \in {"config", "registry"} |-> None]
  /\ registry \in {NoEntries, [p \in Projects |-> [token |-> <<0, p>>, root |-> Root]]}
  /\ proc = [q \in Procs |-> Idle]
  /\ edits = 0 /\ kills = 0

InitStep(i) == \/ LockConfig(i)
               \/ GiveUpConfig(i)
               \/ ReadConfig(i)
               \/ RemoveIcons(i)
               \/ CopyIcon(i)
               \/ WriteConfig(i)
               \/ UnlockConfig(i)
RefreshStep(r) == \/ SkipProject(r)
                  \/ ReadToken(r)
                  \/ LockRegistry(r)
                  \/ GiveUpRegistry(r)
                  \/ Upsert(r)
                  \/ ListRecords(r)
                  \/ PruneNext(r)
                  \/ RemoveRecord(r)
                  \/ UnlockRegistry(r)
Next == \/ \E i \in Inits : StartInit(i) \/ InitStep(i)
        \/ \E r \in Refreshes : Discover(r) \/ RefreshStep(r)
        \/ Edit
        \/ \E q \in Procs : Kill(q)
Spec == /\ Init /\ [][Next]_vars
        /\ \A i \in Inits : WF_vars(InitStep(i))
        /\ \A r \in Refreshes : WF_vars(RefreshStep(r))

-----------------------------------------------------------------------------
(* An init that writes changes the file as it is at that moment, whatever  *)
(* the other inits did since it was read: its own project gets the fields  *)
(* that were given and keeps the rest, a repository is replaced only with  *)
(* --force, every other project stays, and a given icon is the only one.   *)
WritesAtomically ==
  \A i \in Inits : proc[i].pc = "writing" /\ proc'[i].pc = "written" =>
     LET a == proc[i].ask
         was == readProjectsConfig(file)
     IN /\ file'.base = was.base
        /\ \A p \in Projects \ {a.project} : file'.entries[p] = was.entries[p]
        /\ \A f \in {"repo", "version", "visible"} :
             LET old == IF was.entries[a.project] = None THEN None ELSE was.entries[a.project][f]
                 new == IF f = "visible" THEN None ELSE a[f]
             IN /\ file'.entries[a.project][f] = (IF new # None THEN new
                                                  ELSE IF f = "visible" /\ old = None THEN TRUE ELSE old)
                /\ f = "repo" /\ ~a.force => old \in {None, file'.entries[a.project][f]}
        /\ a.icon # None => {x \in icons : x[1] = a.project} = {<<a.project, a.icon>>}
InitIsAtomic == [][WritesAtomically]_vars

(* A registered project keeps the token its links carry, as long as no two *)
(* refreshes overlap (two that both register it first each make one).      *)
KeepsTokens ==
  (\A r \in Running : proc[r].alone) =>
    \A p \in Projects : registry[p] # None /\ registry'[p] # None =>
                          registry'[p].token = registry[p].token
TokenKept == [][KeepsTokens]_vars

(* A refresh of all projects, alone and without failure, leaves exactly    *)
(* the visible projects registered, each with the repository the command   *)
(* line would build -- unless the base directory holds a placeholder.      *)
RefreshSettles ==
  \A r \in Refreshes :
    /\ proc[r].pc = "done" /\ proc[r].filter = None /\ proc[r].clean /\ proc[r].alone
    /\ proc[r].write = file /\ \A s \in Refreshes : s > r => proc[s].pc = "idle"
    => \A p \in Projects :
         IF p \notin Visible(file) THEN registry[p] = None
         ELSE /\ registry[p] # None
              /\ OrElse(file.base, <<"..">>)[1] # "${HOME}" => registry[p].root = contextRepo(file, p)

(* Every command ends, whoever was killed with a lock. *)
CommandsEnd ==
  \A q \in Procs : proc[q].pc # "idle" ~> proc[q].pc \in Ended

-----------------------------------------------------------------------------
(* The invariants that the properties above follow from.                   *)
Repos == {None, <<"r1">>, <<"r3">>, <<"${HOME}", "r2">>}
Versions == {None, "v1", "v2"}
EntryType == [repo : Repos, version : Versions, visible : BOOLEAN]
FileType == [kind : {"missing", "good", "corrupt"}, base : {None, <<"${HOME}", "repos">>},
             entries : [Projects -> EntryType \cup {None}]]
RequestType == [project : Projects, repo : Repos, version : Versions,
                icon : {None, ".png", ".svg"}, force : BOOLEAN, dry : BOOLEAN]
Tokens == (Procs \cup {0}) \X Projects
(* Where a record may say that a repository is.                            *)
Paths == {Root} \cup {discoveredRepo(x[1], x[2]) :
                        x \in {y \in FileType \X Projects : y[2] \in Visible(y[1])}}
RecordType == [token : Tokens, root : Paths]
Pcs == Ended \cup {"idle", "waiting", "reading", "icon", "copying", "writing", "written", "next",
                  "registering", "upsert", "upserted", "pruning", "removing", "remove", "removed"}
ProcType == [pc : Pcs,
             ask : RequestType \cup {None}, write : FileType \cup {None},
             filter : Projects \cup {None}, found : SUBSET Projects, left : SUBSET Projects,
             at : Projects \cup {None}, token : Tokens \cup {None}, clean : BOOLEAN, alone : BOOLEAN]
ASSUME NoneIsNothing ==
  None \notin Procs /\ None \notin BOOLEAN /\ None \notin FileType /\ None \notin RecordType

TypeOK ==
  /\ file \in FileType
  /\ icons \subseteq Projects \X {".png", ".svg"}
  /\ lock \in [{"config", "registry"} -> Procs \cup {None}]
  /\ registry \in [Projects -> RecordType \cup {None}]
  /\ proc \in [Procs -> ProcType]
  /\ edits \in Nat /\ kills \in Nat

(* An init keeps what it read as long as it holds the lock.                *)
Holds(i) ==
  LET a == proc[i].ask
      config == readProjectsConfig(file)
      own == {x \in icons : x[1] = a.project}
  IN /\ proc[i].pc \in {"waiting", "reading", "icon", "copying", "writing"} => a \in RequestType
     /\ proc[i].pc \in {"reading", "icon", "copying", "writing", "written"} => lock["config"] = i
     /\ proc[i].pc \in {"icon", "copying", "writing"} =>
          /\ Conflicts(config.entries, a) => a.force
          /\ proc[i].write = [config EXCEPT !.kind = "good", !.entries = upsertEntry(@, a)]
     /\ proc[i].pc \in {"icon", "copying"} => a.icon # None
     /\ proc[i].pc = "copying" => own = {}
     /\ proc[i].pc = "writing" /\ a.icon # None => own = {<<a.project, a.icon>>}
InitInv == \A i \in Inits : Holds(i)

(* Refreshes start in order.  One that nothing has overlapped since it     *)
(* started is the only one at the registry, then and after it.             *)
Sole(r) == proc[r].write # None /\ proc[r].alone /\ \A s \in Refreshes : s > r => proc[s].pc = "idle"
AloneInv ==
  \A r \in Refreshes :
    /\ IF proc[r].pc = "idle" THEN proc[r].write = None
       ELSE \A s \in Refreshes : s < r => proc[s].pc # "idle"
    /\ r \in Running /\ proc[r].alone => Running = {r}
    /\ Sole(r) => Running \subseteq {r}

(* A refresh registers projects of the file it discovered, and the token   *)
(* that a lone one has looked up is still the project's.                   *)
Knows(r) ==
  LET R == proc[r] IN
  /\ R.write \in FileType
  /\ R.pc \in {"next", "registering", "upsert", "upserted"} => R.left \subseteq Visible(R.write)
  /\ R.pc \in {"registering", "upsert"} => R.at \in Visible(R.write) /\ R.token \in Tokens
  /\ R.pc \notin {"next", "pruning"} => R.at \in Projects
  /\ R.pc \in {"registering", "upsert"} /\ R.alone =>
       registry[R.at] = None \/ registry[R.at].token = R.token
TokenInv == \A r \in Running : Knows(r)

(* A lone refresh of all projects that left nothing out has registered     *)
(* what it found and has no more to do; it then removes the rest.          *)
Registered(f, p) == registry[p] # None /\ registry[p].root = discoveredRepo(f, p)
Settling(r) ==
  LET R == proc[r]
      seen == Visible(R.write)
  IN /\ R.pc \in {"next", "registering", "upsert", "upserted"} =>
          /\ R.found = seen /\ R.left \subseteq seen
          /\ \A p \in seen \ R.left : Registered(R.write, p)
     /\ R.pc = "upserted" => Registered(R.write, R.at)
     /\ R.pc \in {"pruning", "removing", "remove", "removed", "done"} =>
          \A p \in seen : Registered(R.write, p)
     /\ R.pc \in {"pruning", "removing", "remove", "removed"} =>
          R.left \cap seen = {} /\ \A p \in Projects \ seen : registry[p] # None => p \in R.left
     /\ R.pc \in {"removing", "remove", "removed"} => R.at \in R.left
     /\ R.pc = "removed" => registry[R.at] = None
     /\ R.pc = "done" => \A p \in Projects \ seen : registry[p] = None
Settled(r) == Sole(r) /\ proc[r].clean /\ proc[r].filter = None => Settling(r)
SettlingInv == \A r \in Refreshes : Settled(r)

RegistrationInv == TypeOK /\ InitInv /\ AloneInv /\ TokenInv /\ SettlingInv
=============================================================================
