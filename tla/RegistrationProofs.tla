------------------------- MODULE RegistrationProofs -------------------------
(***************************************************************************)
(* Proofs about Registration, for any projects and commands, and any       *)
(* number of edits and kills.                                              *)
(***************************************************************************)
EXTENDS Registration, TLAPS

-----------------------------------------------------------------------------
(* Files and requests.                                                     *)

LEMMA RequestsFit == Requests \subseteq RequestType
<1>1. ASSUME NEW p \in Projects, NEW repo \in Repos, NEW version \in Versions,
             NEW icon \in {None, ".png", ".svg"}, NEW force \in BOOLEAN, NEW dry \in BOOLEAN
      PROVE  Request(p, repo, version, icon, force, dry) \in RequestType
  BY DEF Request, RequestType
<1>2. (CHOOSE p \in Projects : TRUE) \in Projects
  BY SomeProject
<1>3. \A r \in {None, <<"r1">>, <<"r3">>, <<"${HOME}", "r2">>} : r \in Repos
  BY DEF Repos
<1>4. \A v \in {None, "v2"} : v \in Versions
  BY DEF Versions
<1> DEFINE Typed == {Request(p, <<"r1">>, None, None, FALSE, FALSE) : p \in Projects}
           Dry == {Request(CHOOSE p \in Projects : TRUE, <<"r3">>, None, None, FALSE, TRUE)}
           Forced == {Request(p, <<"${HOME}", "r2">>, None, None, TRUE, FALSE) : p \in Projects}
           Iconed == {Request(x[1], None, "v2", x[2], FALSE, FALSE) : x \in Projects \X {".png", ".svg"}}
<1>5. Typed \subseteq RequestType
  BY <1>1, <1>3, <1>4
<1>6. Dry \subseteq RequestType
  BY <1>1, <1>2, <1>3, <1>4
<1>7. Forced \subseteq RequestType
  BY <1>1, <1>3, <1>4
<1>8. Iconed \subseteq RequestType
  <2>1. ASSUME NEW x \in Projects \X {".png", ".svg"}
        PROVE  Request(x[1], None, "v2", x[2], FALSE, FALSE) \in RequestType
    <3>1. x[1] \in Projects /\ x[2] \in {None, ".png", ".svg"}
      OBVIOUS
    <3> QED BY <1>1, <1>3, <1>4, <3>1
  <2> QED BY <2>1
<1>9. Requests = Typed \cup Dry \cup Forced \cup Iconed
  BY DEF Requests
<1> HIDE DEF Typed, Dry, Forced, Iconed
<1> QED BY <1>5, <1>6, <1>7, <1>8, <1>9

LEMMA ConfigFits ==
  ASSUME NEW f \in FileType
  PROVE  readProjectsConfig(f) \in FileType
BY DEF readProjectsConfig, NoFile, NoEntries, FileType

LEMMA UpsertFits ==
  ASSUME NEW entries \in [Projects -> EntryType \cup {None}], NEW a \in RequestType
  PROVE  upsertEntry(entries, a) \in [Projects -> EntryType \cup {None}]
<1> DEFINE old == entries[a.project]
           new == IF old = None THEN [repo |-> a.repo, version |-> a.version, visible |-> TRUE]
                  ELSE [old EXCEPT !.repo = OrElse(a.repo, old.repo), !.version = OrElse(a.version, old.version)]
<1>1. a.project \in Projects /\ a.repo \in Repos /\ a.version \in Versions
  BY DEF RequestType
<1>2. old \in EntryType \cup {None}
  BY <1>1
<1>3. new \in EntryType
  BY <1>1, <1>2 DEF EntryType, OrElse
<1>4. upsertEntry(entries, a) = [entries EXCEPT ![a.project] = new]
  BY DEF upsertEntry, OrElse
<1> HIDE DEF new, old
<1> QED BY <1>1, <1>3, <1>4

-----------------------------------------------------------------------------
(* What a step does to the commands.                                       *)

LEMMA IdleFits == \A how \in Pcs : [Idle EXCEPT !.pc = how] \in ProcType /\ Idle \in ProcType
BY ZenonT(40) DEF Idle, ProcType, Pcs

Turns(q, R) ==
  /\ proc' \in [Procs -> ProcType] /\ proc'[q] = R
  /\ \A o \in Procs : o # q => proc'[o] = proc[o]

LEMMA GoTurns ==
  ASSUME TypeOK, NEW q \in Procs, NEW c \in Pcs, Go(q, c)
  PROVE  Turns(q, [proc[q] EXCEPT !.pc = c])
<1> DEFINE R == [proc[q] EXCEPT !.pc = c]
<1>1. proc \in [Procs -> ProcType]
  BY DEF TypeOK
<1>2. proc[q] \in ProcType
  BY <1>1
<1>3. R \in ProcType
  BY <1>2 DEF ProcType
<1>4. proc' = [proc EXCEPT ![q] = R]
  BY DEF Go
<1> HIDE DEF R
<1>5. Turns(q, R)
  BY <1>1, <1>3, <1>4 DEF Turns
<1> QED BY <1>5 DEF R

LEMMA FinishTurns ==
  ASSUME TypeOK, NEW q \in Procs, NEW how \in Pcs, Finish(q, how)
  PROVE  Turns(q, [Idle EXCEPT !.pc = how])
<1> DEFINE R == [Idle EXCEPT !.pc = how]
<1>1. proc \in [Procs -> ProcType] /\ R \in ProcType /\ proc' = [proc EXCEPT ![q] = R]
  BY IdleFits DEF TypeOK, Finish
<1> HIDE DEF R
<1>2. Turns(q, R)
  BY <1>1 DEF Turns
<1> QED BY <1>2 DEF R

-----------------------------------------------------------------------------
(* Starting commands.                                                      *)

(* A step of an init, or of a refresh, is one of that command's.           *)
LEMMA StartInitTurns ==
  ASSUME TypeOK, NEW i \in Inits, StartInit(i)
  PROVE  /\ proc[i].pc = "idle" /\ UNCHANGED <<file, icons, lock, registry>>
         /\ \/ \E how \in {"done", "failed"} : Turns(i, [Idle EXCEPT !.pc = how])
            \/ \E a \in RequestType : Turns(i, [proc[i] EXCEPT !.ask = a, !.pc = "waiting"])
<1>1. proc \in [Procs -> ProcType] /\ i \in Procs /\ proc[i] \in ProcType
  BY DEF TypeOK, Procs
<1>2. proc[i].pc = "idle" /\ UNCHANGED <<file, icons, lock, registry>>
  BY DEF StartInit, MayStart
<1>3. PICK a \in Requests :
        \/ \E how \in {"done", "failed"} : Finish(i, how)
        \/ proc' = [proc EXCEPT ![i].ask = a, ![i].pc = "waiting"]
  BY DEF StartInit
<1>4. ASSUME NEW how \in {"done", "failed"}, Finish(i, how) PROVE Turns(i, [Idle EXCEPT !.pc = how])
  BY <1>1, <1>4, FinishTurns DEF Pcs, Ended
<1>5. CASE proc' = [proc EXCEPT ![i].ask = a, ![i].pc = "waiting"]
  <2> DEFINE R == [proc[i] EXCEPT !.ask = a, !.pc = "waiting"]
  <2>1. R \in ProcType
    BY <1>1, RequestsFit DEF ProcType, Pcs
  <2>2. proc' = [proc EXCEPT ![i] = R]
    BY <1>5
  <2> HIDE DEF R
  <2>3. Turns(i, R)
    BY <1>1, <2>1, <2>2 DEF Turns
  <2> QED BY <1>2, <2>3, RequestsFit DEF R
<1> QED BY <1>2, <1>3, <1>4, <1>5

LEMMA DiscoverTurns ==
  ASSUME TypeOK, NEW r \in Refreshes, Discover(r)
  PROVE  /\ MayStart(r, Refreshes) /\ UNCHANGED <<file, icons, lock, registry>>
         /\ \/ Turns(r, [proc[r] EXCEPT !.pc = "failed"])
            \/ \E only \in {None} \cup Projects :
                 LET found == Visible(file) \cap IF only = None THEN Projects ELSE {only} IN
                 /\ proc' \in [Procs -> ProcType]
                 /\ proc'[r] = [Idle EXCEPT !.pc = "next", !.filter = only, !.write = file,
                                            !.found = found, !.left = found, !.alone = Running = {}]
                 /\ \A o \in Procs : o # r =>
                      proc'[o] = IF o \in Running THEN [proc[o] EXCEPT !.alone = FALSE] ELSE proc[o]
<1>1. proc \in [Procs -> ProcType] /\ r \in Procs /\ file \in FileType
  BY DEF TypeOK, Procs
<1>2. MayStart(r, Refreshes) /\ UNCHANGED <<file, icons, lock, registry>>
  BY DEF Discover
<1>3. CASE file.kind # "good"
  BY <1>1, <1>2, <1>3, GoTurns DEF Discover, Pcs, Ended
<1>4. CASE file.kind = "good"
  <2> DEFINE Found(only) == Visible(file) \cap IF only = None THEN Projects ELSE {only}
             R(only) == [Idle EXCEPT !.pc = "next", !.filter = only, !.write = file,
                                     !.found = Found(only), !.left = Found(only), !.alone = Running = {}]
             Rest(o) == IF o \in Running THEN [proc[o] EXCEPT !.alone = FALSE] ELSE proc[o]
  <2>1. PICK only \in {None} \cup Projects :
          proc' = [q \in Procs |-> IF q = r THEN R(only) ELSE Rest(q)]
    BY <1>4 DEF Discover
  <2>2. Found(only) \in SUBSET Projects
    BY DEF Visible
  <2>3. R(only) \in ProcType
    <3> DEFINE S == Found(only)
               A == Running = {}
    <3>1. S \in SUBSET Projects /\ A \in BOOLEAN
      BY <2>2
    <3> HIDE DEF S, A
    <3>2. [Idle EXCEPT !.pc = "next", !.filter = only, !.write = file,
                       !.found = S, !.left = S, !.alone = A] \in ProcType
      BY <1>1, <3>1 DEF Idle, ProcType, Pcs
    <3> QED BY <3>2 DEF S, A
  <2>4. \A o \in Procs : Rest(o) \in ProcType
    <3> SUFFICES ASSUME NEW o \in Procs PROVE Rest(o) \in ProcType
      OBVIOUS
    <3>1. proc[o] \in ProcType
      BY <1>1
    <3>2. [proc[o] EXCEPT !.alone = FALSE] \in ProcType
      BY <3>1 DEF ProcType
    <3> QED BY <3>1, <3>2
  <2> HIDE DEF R, Rest
  <2>5. /\ proc' \in [Procs -> ProcType] /\ proc'[r] = R(only)
        /\ \A o \in Procs : o # r => proc'[o] = Rest(o)
    BY <1>1, <2>1, <2>3, <2>4
  <2> QED BY <1>2, <2>5 DEF R, Rest
<1> QED BY <1>3, <1>4

-----------------------------------------------------------------------------
(* The lock of projects.json.                                              *)

(* What an init may rely on while others take a step.                      *)
Spares(i) ==
  /\ proc'[i] = proc[i]
  /\ lock["config"] = i => lock'["config"] = i /\ UNCHANGED <<file, icons>>

LEMMA SparedHolds ==
  ASSUME NEW i \in Inits, Holds(i), Spares(i)
  PROVE  Holds(i)'
<1>1. CASE proc[i].pc \in {"reading", "icon", "copying", "writing", "written"}
  <2>1. lock["config"] = i
    BY <1>1 DEF Holds
  <2>2. proc'[i] = proc[i] /\ lock'["config"] = i /\ file' = file /\ icons' = icons
    BY <2>1 DEF Spares
  <2> QED BY <2>2 DEF Holds, readProjectsConfig
<1>2. CASE proc[i].pc \notin {"reading", "icon", "copying", "writing", "written"}
  BY <1>2 DEF Holds, Spares
<1> QED BY <1>1, <1>2

(* A step of an init: its own hold, and what it spares the rest.           *)
Steps(i) ==
  /\ TypeOK' /\ Holds(i)' /\ registry' = registry
  /\ \A o \in Procs : o # i => proc'[o] = proc[o]
  /\ \A j \in Inits : j # i => Spares(j)

LEMMA StartInitSteps == ASSUME TypeOK, InitInv, NEW i \in Inits, StartInit(i) PROVE Steps(i)
<1>1. i \in Procs /\ proc[i] \in ProcType /\ \A j \in Inits : j \in Procs
  BY DEF TypeOK, Procs
<1>2. UNCHANGED <<file, icons, lock, registry>> /\ edits' = edits /\ kills' = kills
  BY DEF StartInit
<1>3. ASSUME NEW how \in {"done", "failed"}, Turns(i, [Idle EXCEPT !.pc = how])
      PROVE  proc' \in [Procs -> ProcType] /\ Holds(i)' /\ \A o \in Procs : o # i => proc'[o] = proc[o]
  BY <1>3 DEF Turns, Holds, Idle
<1>4. ASSUME NEW a \in RequestType, Turns(i, [proc[i] EXCEPT !.ask = a, !.pc = "waiting"])
      PROVE  proc' \in [Procs -> ProcType] /\ Holds(i)' /\ \A o \in Procs : o # i => proc'[o] = proc[o]
  <2>1. proc'[i].pc = "waiting" /\ proc'[i].ask = a
    BY <1>1, <1>4 DEF Turns, ProcType
  <2> QED BY <1>4, <2>1 DEF Turns, Holds
<1>5. proc' \in [Procs -> ProcType] /\ Holds(i)' /\ \A o \in Procs : o # i => proc'[o] = proc[o]
  BY <1>3, <1>4, StartInitTurns
<1> QED BY <1>1, <1>2, <1>5 DEF Steps, TypeOK, Spares

LEMMA LockConfigSteps ==
  ASSUME TypeOK, InitInv, NEW i \in Inits, LockConfig(i) \/ GiveUpConfig(i)
  PROVE  Steps(i)
<1>1. i \in Procs /\ proc[i] \in ProcType /\ Holds(i) /\ proc[i].pc = "waiting" /\ \A j \in Inits : j \in Procs
  BY DEF TypeOK, Procs, InitInv, LockConfig, AcquireLock, GiveUpConfig, TimesOut
<1>2. UNCHANGED <<file, icons, registry>> /\ edits' = edits /\ kills' = kills
  BY DEF LockConfig, GiveUpConfig
<1>3. CASE LockConfig(i)
  <2>1. Turns(i, [proc[i] EXCEPT !.pc = "reading"])
    BY <1>1, <1>3, GoTurns DEF LockConfig, AcquireLock, Pcs
  <2>2. lock["config"] = None /\ lock' = [lock EXCEPT !["config"] = i]
    BY <1>3 DEF LockConfig, AcquireLock
  <2>3. proc'[i].pc = "reading" /\ proc'[i].ask = proc[i].ask
    BY <1>1, <2>1 DEF Turns, ProcType
  <2>4. lock' \in [{"config", "registry"} -> Procs \cup {None}] /\ lock'["config"] = i
    BY <1>1, <2>2 DEF TypeOK
  <2>5. Holds(i)'
    BY <1>1, <2>3, <2>4 DEF Holds
  <2> QED BY <1>1, <1>2, <2>1, <2>2, <2>4, <2>5, NoneIsNothing DEF Steps, TypeOK, Spares, Turns
<1>4. CASE GiveUpConfig(i)
  <2>1. Turns(i, [Idle EXCEPT !.pc = "failed"]) /\ lock' = lock
    BY <1>1, <1>4, FinishTurns DEF GiveUpConfig, Pcs, Ended
  <2>2. Holds(i)'
    BY <2>1 DEF Turns, Holds, Idle
  <2> QED BY <1>1, <1>2, <2>1, <2>2 DEF Steps, TypeOK, Spares, Turns
<1> QED BY <1>3, <1>4

(* An init in the locked section has the lock, and no other init has it.   *)
LEMMA FailSteps ==
  ASSUME TypeOK, InitInv, NEW i \in Inits, lock["config"] = i, Fail(i)
  PROVE  Steps(i)
<1>1. i \in Procs /\ \A j \in Inits : j \in Procs
  BY DEF Procs
<1>2. Turns(i, [Idle EXCEPT !.pc = "failed"]) /\ lock' = [lock EXCEPT !["config"] = None]
  BY <1>1, FinishTurns DEF Fail, Pcs, Ended
<1>3. Holds(i)'
  BY <1>2 DEF Turns, Holds, Idle
<1> QED BY <1>1, <1>2, <1>3 DEF Fail, Steps, TypeOK, Spares, Turns

LEMMA ReadConfigSteps == ASSUME TypeOK, InitInv, NEW i \in Inits, ReadConfig(i) PROVE Steps(i)
<1> DEFINE a == proc[i].ask
           config == readProjectsConfig(file)
           new == [config EXCEPT !.kind = "good", !.entries = upsertEntry(@, a)]
           pc == IF a.icon = None THEN "writing" ELSE "icon"
<1>1. /\ i \in Procs /\ proc[i] \in ProcType /\ Holds(i) /\ proc[i].pc = "reading"
      /\ lock["config"] = i /\ a \in RequestType /\ \A j \in Inits : j \in Procs
  BY DEF TypeOK, Procs, InitInv, Holds, ReadConfig
<1>2. CASE Fail(i)
  BY <1>1, <1>2, FailSteps
<1>3. CASE ~Fail(i)
  <2>1. /\ Conflicts(config.entries, a) => a.force
        /\ proc' = [proc EXCEPT ![i].write = new, ![i].pc = pc]
        /\ UNCHANGED <<file, icons, lock, registry>> /\ edits' = edits /\ kills' = kills
    BY <1>3 DEF ReadConfig
  <2>2. new \in FileType
    <3>1. config \in FileType
      BY ConfigFits DEF TypeOK
    <3>2. upsertEntry(config.entries, a) \in [Projects -> EntryType \cup {None}]
      BY <1>1, <3>1, UpsertFits DEF FileType
    <3> DEFINE E == upsertEntry(config.entries, a)
    <3>3. new = [config EXCEPT !.kind = "good", !.entries = E]
      BY <3>1 DEF FileType
    <3> HIDE DEF E, config
    <3> QED BY <3>1, <3>2, <3>3 DEF FileType, E
  <2> DEFINE R == [proc[i] EXCEPT !.write = new, !.pc = pc]
  <2>3. pc \in {"icon", "writing"} /\ pc \in Pcs
    BY DEF Pcs
  <2>4. pc = "icon" => a.icon # None
    OBVIOUS
  <2>5. pc = "writing" => a.icon = None
    OBVIOUS
  <2> HIDE DEF new, pc
  <2>6. R \in ProcType /\ R.write = new /\ R.pc = pc /\ R.ask = a
    BY <1>1, <2>2, <2>3 DEF ProcType
  <2>7. proc' = [proc EXCEPT ![i] = R]
    BY <2>1
  <2> HIDE DEF R
  <2>8. /\ proc' \in [Procs -> ProcType] /\ proc'[i] = R
        /\ \A o \in Procs : o # i => proc'[o] = proc[o]
    BY <1>1, <2>6, <2>7 DEF TypeOK
  <2>9. Holds(i)'
    <3>1. proc'[i].pc = pc /\ proc'[i].ask = a /\ proc'[i].write = new
      BY <2>6, <2>8
    <3>2. lock'["config"] = i /\ file' = file /\ icons' = icons
      BY <1>1, <2>1
    <3>3. new = [config EXCEPT !.kind = "good", !.entries = upsertEntry(@, a)]
      BY DEF new
    <3> QED BY <1>1, <2>1, <2>3, <2>4, <2>5, <3>1, <3>2, <3>3 DEF Holds
  <2> QED BY <1>1, <2>1, <2>8, <2>9 DEF Steps, TypeOK, Spares
<1> QED BY <1>2, <1>3

LEMMA RemoveIconsSteps == ASSUME TypeOK, InitInv, NEW i \in Inits, RemoveIcons(i) PROVE Steps(i)
<1>1. /\ i \in Procs /\ proc[i] \in ProcType /\ Holds(i) /\ proc[i].pc = "icon"
      /\ lock["config"] = i /\ \A j \in Inits : j \in Procs
  BY DEF TypeOK, Procs, InitInv, Holds, RemoveIcons
<1>2. CASE Fail(i)
  BY <1>1, <1>2, FailSteps
<1>3. CASE ~Fail(i)
  <2>1. /\ icons' = {x \in icons : x[1] # proc[i].ask.project} /\ Go(i, "copying")
        /\ UNCHANGED <<file, lock, registry, edits, kills>>
    BY <1>3 DEF RemoveIcons
  <2>2. Turns(i, [proc[i] EXCEPT !.pc = "copying"])
    BY <1>1, <2>1, GoTurns DEF Pcs
  <2>3. /\ proc'[i].pc = "copying" /\ proc'[i].ask = proc[i].ask /\ proc'[i].write = proc[i].write
        /\ {x \in icons' : x[1] = proc[i].ask.project} = {}
    BY <1>1, <2>1, <2>2 DEF Turns, ProcType
  <2>4. Holds(i)'
    BY <1>1, <2>1, <2>3 DEF Holds
  <2> QED BY <1>1, <2>1, <2>2, <2>4, NoneIsNothing DEF Steps, TypeOK, Spares, Turns
<1> QED BY <1>2, <1>3

LEMMA CopyIconSteps == ASSUME TypeOK, InitInv, NEW i \in Inits, CopyIcon(i) PROVE Steps(i)
<1> DEFINE a == proc[i].ask
<1>1. /\ i \in Procs /\ proc[i] \in ProcType /\ Holds(i) /\ proc[i].pc = "copying"
      /\ lock["config"] = i /\ \A j \in Inits : j \in Procs
  BY DEF TypeOK, Procs, InitInv, Holds, CopyIcon
<1>2. CASE Fail(i)
  BY <1>1, <1>2, FailSteps
<1>3. CASE ~Fail(i)
  <2>1. /\ icons' = icons \cup {<<a.project, a.icon>>} /\ Go(i, "writing")
        /\ UNCHANGED <<file, lock, registry, edits, kills>>
    BY <1>3 DEF CopyIcon
  <2>2. Turns(i, [proc[i] EXCEPT !.pc = "writing"])
    BY <1>1, <2>1, GoTurns DEF Pcs
  <2>3. a \in RequestType /\ a.icon # None /\ {x \in icons : x[1] = a.project} = {}
    BY <1>1 DEF Holds
  <2>4. <<a.project, a.icon>> \in Projects \X {".png", ".svg"}
    BY <2>3 DEF RequestType
  <2>5. {x \in icons' : x[1] = a.project} = {<<a.project, a.icon>>}
    BY <2>1, <2>3
  <2>6. proc'[i].pc = "writing" /\ proc'[i].ask = a /\ proc'[i].write = proc[i].write
    BY <1>1, <2>2 DEF Turns, ProcType
  <2> HIDE DEF a
  <2>7. Holds(i)'
    BY <1>1, <2>1, <2>3, <2>5, <2>6 DEF Holds, a
  <2>8. icons' \subseteq Projects \X {".png", ".svg"}
    BY <2>1, <2>4 DEF TypeOK
  <2> QED BY <1>1, <2>1, <2>2, <2>7, <2>8, NoneIsNothing DEF Steps, TypeOK, Spares, Turns
<1> QED BY <1>2, <1>3

LEMMA WriteConfigSteps == ASSUME TypeOK, InitInv, NEW i \in Inits, WriteConfig(i) PROVE Steps(i)
<1> DEFINE config == readProjectsConfig(file)
           E == upsertEntry(config.entries, proc[i].ask)
<1>1. /\ i \in Procs /\ proc[i] \in ProcType /\ Holds(i) /\ proc[i].pc = "writing"
      /\ lock["config"] = i /\ \A j \in Inits : j \in Procs
      /\ proc[i].write = [config EXCEPT !.kind = "good", !.entries = upsertEntry(@, proc[i].ask)]
      /\ proc[i].ask \in RequestType
  BY DEF TypeOK, Procs, InitInv, Holds, WriteConfig
<1>2. file' = proc[i].write /\ Go(i, "written") /\ UNCHANGED <<icons, lock, registry, edits, kills>>
  BY DEF WriteConfig
<1>3. Turns(i, [proc[i] EXCEPT !.pc = "written"])
  BY <1>1, <1>2, GoTurns DEF Pcs
<1>4. file' \in FileType
  <2>1. config \in FileType
    BY ConfigFits DEF TypeOK
  <2>2. E \in [Projects -> EntryType \cup {None}]
    BY <1>1, <2>1, UpsertFits DEF FileType
  <2>3. file' = [config EXCEPT !.kind = "good", !.entries = E]
    BY <1>1, <1>2, <2>1 DEF FileType
  <2> HIDE DEF E, config
  <2> QED BY <2>1, <2>2, <2>3 DEF FileType
<1>5. proc'[i].pc = "written"
  BY <1>1, <1>3 DEF Turns, ProcType
<1>6. Holds(i)'
  BY <1>1, <1>2, <1>5 DEF Holds
<1> QED BY <1>1, <1>2, <1>3, <1>4, <1>6, NoneIsNothing DEF Steps, TypeOK, Spares, Turns

LEMMA UnlockConfigSteps == ASSUME TypeOK, InitInv, NEW i \in Inits, UnlockConfig(i) PROVE Steps(i)
<1>1. i \in Procs /\ lock["config"] = i /\ \A j \in Inits : j \in Procs
  BY DEF Procs, InitInv, Holds, UnlockConfig
<1>2. /\ lock' = [lock EXCEPT !["config"] = None] /\ Finish(i, "done")
      /\ UNCHANGED <<file, icons, registry, edits, kills>>
  BY DEF UnlockConfig
<1>3. Turns(i, [Idle EXCEPT !.pc = "done"])
  BY <1>1, <1>2, FinishTurns DEF Pcs, Ended
<1>4. Holds(i)'
  BY <1>3 DEF Turns, Holds, Idle
<1> QED BY <1>1, <1>2, <1>3, <1>4 DEF Steps, TypeOK, Spares, Turns

LEMMA InitStepSteps ==
  ASSUME TypeOK, InitInv, NEW i \in Inits, StartInit(i) \/ InitStep(i)
  PROVE  Steps(i)
BY StartInitSteps, LockConfigSteps, ReadConfigSteps, RemoveIconsSteps, CopyIconSteps,
   WriteConfigSteps, UnlockConfigSteps, Zenon DEF InitStep

(* What upsertEntry makes of an entry, field by field.                     *)
LEMMA UpsertMerges ==
  ASSUME NEW entries \in [Projects -> EntryType \cup {None}], NEW a \in RequestType
  PROVE  LET new == upsertEntry(entries, a)
             was == entries[a.project]
         IN  /\ \A p \in Projects \ {a.project} : new[p] = entries[p]
             /\ new[a.project].repo = IF a.repo # None THEN a.repo ELSE IF was = None THEN None ELSE was.repo
             /\ new[a.project].version =
                  IF a.version # None THEN a.version ELSE IF was = None THEN None ELSE was.version
             /\ new[a.project].visible = IF was = None THEN TRUE ELSE was.visible
<1> DEFINE was == entries[a.project]
           e == IF was = None THEN [repo |-> a.repo, version |-> a.version, visible |-> TRUE]
                ELSE [was EXCEPT !.repo = OrElse(a.repo, was.repo), !.version = OrElse(a.version, was.version)]
<1>1. a.project \in Projects /\ was \in EntryType \cup {None}
  BY DEF RequestType
<1>2. upsertEntry(entries, a) = [entries EXCEPT ![a.project] = e]
  BY DEF upsertEntry
<1>3. /\ e.repo = IF a.repo # None THEN a.repo ELSE IF was = None THEN None ELSE was.repo
      /\ e.version = IF a.version # None THEN a.version ELSE IF was = None THEN None ELSE was.version
      /\ e.visible = IF was = None THEN TRUE ELSE was.visible
  BY <1>1 DEF EntryType, OrElse
<1> HIDE DEF e
<1> QED BY <1>1, <1>2, <1>3

(* Only its own WriteConfig takes an init from "writing" to "written".     *)
LEMMA WriteIsAtomic ==
  ASSUME TypeOK, InitInv, NEW i \in Inits, WriteConfig(i)
  PROVE  LET a == proc[i].ask
             was == readProjectsConfig(file)
         IN /\ file'.base = was.base
            /\ \A p \in Projects \ {a.project} : file'.entries[p] = was.entries[p]
            /\ \A f \in {"repo", "version", "visible"} :
                 LET old == IF was.entries[a.project] = None THEN None ELSE was.entries[a.project][f]
                     new == IF f = "visible" THEN None ELSE a[f]
                 IN /\ file'.entries[a.project][f] = (IF new # None THEN new
                                                      ELSE IF f = "visible" /\ old = None THEN TRUE ELSE old)
                    /\ f = "repo" /\ ~a.force => old \in {None, file'.entries[a.project][f]}
            /\ a.icon # None => {x \in icons : x[1] = a.project} = {<<a.project, a.icon>>}
<1> DEFINE a == proc[i].ask
           was == readProjectsConfig(file)
           E == upsertEntry(was.entries, a)
           e == was.entries[a.project]
<1>1. /\ a \in RequestType
      /\ Conflicts(was.entries, a) => a.force
      /\ file' = [was EXCEPT !.kind = "good", !.entries = upsertEntry(@, a)]
      /\ a.icon # None => {x \in icons : x[1] = a.project} = {<<a.project, a.icon>>}
  BY DEF InitInv, Holds, WriteConfig
<1>2. was \in FileType
  BY ConfigFits DEF TypeOK
<1>3. file'.base = was.base /\ file'.entries = E
  BY <1>1, <1>2 DEF FileType
<1>4. a.project \in Projects /\ was.entries \in [Projects -> EntryType \cup {None}]
  BY <1>1, <1>2 DEF FileType, RequestType
<1> HIDE DEF a, was
<1>5. e \in EntryType \cup {None}
  BY <1>4
<1>6. /\ \A p \in Projects \ {a.project} : E[p] = was.entries[p]
      /\ E[a.project].repo = IF a.repo # None THEN a.repo ELSE IF e = None THEN None ELSE e.repo
      /\ E[a.project].version =
           IF a.version # None THEN a.version ELSE IF e = None THEN None ELSE e.version
      /\ E[a.project].visible = IF e = None THEN TRUE ELSE e.visible
  BY <1>1, <1>4, UpsertMerges
<1>7. e # None => e.visible # None
  BY <1>5, NoneIsNothing DEF EntryType
<1>8. e # None /\ a.repo # None /\ ~a.force => e.repo \in {None, a.repo}
  BY <1>1 DEF Conflicts
<1> HIDE DEF E, e
<1>9. ASSUME NEW f \in {"repo", "version", "visible"}
      PROVE  LET old == IF e = None THEN None ELSE e[f]
                 new == IF f = "visible" THEN None ELSE a[f]
             IN /\ E[a.project][f] = (IF new # None THEN new
                                      ELSE IF f = "visible" /\ old = None THEN TRUE ELSE old)
                /\ f = "repo" /\ ~a.force => old \in {None, E[a.project][f]}
  <2>1. CASE f = "repo"
    BY <1>6, <1>8, <2>1
  <2>2. CASE f = "version"
    BY <1>6, <2>2
  <2>3. CASE f = "visible"
    BY <1>6, <1>7, <2>3
  <2> QED BY <2>1, <2>2, <2>3
<1> QED BY <1>1, <1>3, <1>6, <1>9 DEF a, was, e

-----------------------------------------------------------------------------
(* The registry.                                                           *)

LEMMA TurnsTo ==
  ASSUME TypeOK, NEW q \in Procs, NEW R \in ProcType, proc' = [proc EXCEPT ![q] = R]
  PROVE  Turns(q, R)
BY DEF TypeOK, Turns

(* A step of a refresh: what it leaves alone, and what it knows after it.  *)
Works(r) ==
  /\ TypeOK' /\ UNCHANGED <<file, icons>> /\ lock'["config"] = lock["config"]
  /\ \A o \in Procs : o # r => proc'[o] = proc[o]
  /\ r \in Running /\ proc'[r].pc # "idle"
  /\ \/ proc'[r].pc \in Ended /\ proc'[r].write = None
     \/ /\ proc'[r].write = proc[r].write /\ proc'[r].alone = proc[r].alone
        /\ proc'[r].filter = proc[r].filter
        /\ proc'[r].clean => proc[r].clean
  /\ proc'[r].pc \notin Ended => Knows(r)'
  /\ Settled(r)'
  /\ proc[r].alone => \A p \in Projects : registry[p] # None /\ registry'[p] # None =>
                                            registry'[p].token = registry[p].token

(* A refresh that is sole after a step of its own was so before it.        *)
LEMMA SoleBefore ==
  ASSUME NEW r \in Refreshes, \A o \in Procs : o # r => proc'[o] = proc[o],
         proc'[r].write = proc[r].write, proc'[r].alone = proc[r].alone,
         proc'[r].filter = proc[r].filter, proc'[r].clean => proc[r].clean,
         Settled(r), Sole(r)', proc'[r].clean, proc'[r].filter = None
  PROVE  Settling(r)
<1>1. \A s \in Refreshes : s \in Procs /\ (s > r => s # r)
  BY CommandsAreNumbers DEF Procs
<1>2. Sole(r)
  BY <1>1 DEF Sole
<1> QED BY <1>2 DEF Settled

LEMMA Ends ==
  ASSUME TypeOK, NEW r \in Refreshes, r \in Running, NEW how \in Ended, Finish(r, how),
         UNCHANGED <<file, icons, lock, registry, edits, kills>>
  PROVE  Works(r)
<1>1. r \in Procs /\ how \in Pcs
  BY DEF Procs, Pcs
<1>2. Turns(r, [Idle EXCEPT !.pc = how])
  BY <1>1, FinishTurns
<1>3. proc'[r].pc = how /\ proc'[r].write = None
  BY <1>2 DEF Turns, Idle
<1>4. Settled(r)'
  BY <1>3 DEF Settled, Sole
<1>5. how # "idle"
  BY DEF Ended
<1>6. TypeOK'
  BY <1>2 DEF TypeOK, Turns
<1> QED BY <1>2, <1>3, <1>4, <1>5, <1>6 DEF Works, Turns

LEMMA SkipProjectWorks ==
  ASSUME TypeOK, TokenInv, SettlingInv, NEW r \in Refreshes, SkipProject(r)
  PROVE  Works(r)
<1>1. r \in Procs /\ proc[r] \in ProcType /\ proc[r].pc = "next" /\ r \in Running /\ Knows(r) /\ Settled(r)
  BY DEF TypeOK, Procs, SkipProject, Running, Ended, TokenInv, SettlingInv
<1>2. /\ \E p \in proc[r].left : proc' = [proc EXCEPT ![r].left = @ \ {p}, ![r].clean = FALSE]
      /\ UNCHANGED <<file, icons, lock, registry, edits, kills>>
  BY DEF SkipProject
<1>3. PICK p \in proc[r].left : proc' = [proc EXCEPT ![r].left = @ \ {p}, ![r].clean = FALSE]
  BY <1>2
<1> DEFINE L == proc[r].left \ {p}
           R == [proc[r] EXCEPT !.left = L, !.clean = FALSE]
<1>4. L \subseteq proc[r].left /\ L \in SUBSET Projects
  BY <1>1 DEF ProcType
<1>5. proc' = [proc EXCEPT ![r] = R]
  BY <1>3
<1> HIDE DEF L
<1>6. /\ R \in ProcType /\ R.pc = "next" /\ R.write = proc[r].write /\ R.alone = proc[r].alone
      /\ R.filter = proc[r].filter /\ R.left = L /\ ~R.clean
  BY <1>1, <1>4 DEF ProcType
<1> HIDE DEF R
<1>7. Turns(r, R)
  BY <1>1, <1>5, <1>6, TurnsTo
<1>8. TypeOK'
  BY <1>2, <1>7 DEF TypeOK, Turns
<1>9. Knows(r)' /\ Settled(r)'
  BY <1>1, <1>4, <1>6, <1>7 DEF Knows, Settled, Turns
<1> QED BY <1>1, <1>2, <1>6, <1>7, <1>8, <1>9 DEF Works, Turns

LEMMA ReadTokenWorks ==
  ASSUME TypeOK, TokenInv, SettlingInv, NEW r \in Refreshes, ReadToken(r)
  PROVE  Works(r)
<1>1. r \in Procs /\ proc[r] \in ProcType /\ proc[r].pc = "next" /\ r \in Running /\ Knows(r) /\ Settled(r)
  BY DEF TypeOK, Procs, ReadToken, Running, Ended, TokenInv, SettlingInv
<1>2. UNCHANGED <<file, icons, lock, registry, edits, kills>>
  BY DEF ReadToken
<1>3. PICK p \in proc[r].left :
        proc' = [proc EXCEPT ![r].at = p, ![r].pc = "registering",
                             ![r].token = IF registry[p] = None THEN <<r, p>> ELSE registry[p].token]
  BY DEF ReadToken
<1> DEFINE T == IF registry[p] = None THEN <<r, p>> ELSE registry[p].token
           R == [proc[r] EXCEPT !.at = p, !.pc = "registering", !.token = T]
<1>4. p \in Projects /\ p \in Visible(proc[r].write) /\ proc[r].left \subseteq Visible(proc[r].write)
  BY <1>1 DEF Knows, ProcType
<1>5. T \in Tokens /\ (registry[p] = None \/ registry[p].token = T)
  BY <1>1, <1>4 DEF TypeOK, Tokens, RecordType
<1>6. proc' = [proc EXCEPT ![r] = R]
  BY <1>3
<1> HIDE DEF T
<1>7. /\ R \in ProcType /\ R.pc = "registering" /\ R.write = proc[r].write /\ R.alone = proc[r].alone
      /\ R.filter = proc[r].filter /\ R.left = proc[r].left /\ R.found = proc[r].found
      /\ R.clean = proc[r].clean /\ R.at = p /\ R.token = T
  BY <1>1, <1>4, <1>5 DEF ProcType, Pcs
<1> HIDE DEF R
<1>8. Turns(r, R)
  BY <1>1, <1>6, <1>7, TurnsTo
<1>9. TypeOK'
  BY <1>2, <1>8 DEF TypeOK, Turns
<1>10. proc'[r] = R /\ \A o \in Procs : o # r => proc'[o] = proc[o]
  BY <1>8 DEF Turns
<1>11. Knows(r)'
  BY <1>1, <1>2, <1>4, <1>5, <1>7, <1>10 DEF Knows
<1>12. Settled(r)'
  <2> SUFFICES ASSUME Sole(r)', proc'[r].clean, proc'[r].filter = None PROVE Settling(r)'
    BY DEF Settled
  <2>1. Settling(r)
    BY <1>1, <1>7, <1>10, SoleBefore
  <2> QED BY <1>1, <1>2, <1>7, <1>10, <2>1 DEF Settling, Registered
<1> QED BY <1>1, <1>2, <1>7, <1>9, <1>10, <1>11, <1>12 DEF Works

(* A step to another point of the program.                                 *)
LEMMA GoWorks ==
  ASSUME TypeOK, NEW r \in Refreshes, NEW c \in Pcs, Go(r, c)
  PROVE  /\ proc' \in [Procs -> ProcType]
         /\ \A o \in Procs : o # r => proc'[o] = proc[o]
         /\ proc'[r] \in ProcType /\ proc'[r].pc = c
         /\ \A f \in {"write", "alone", "filter", "clean", "left", "found", "at", "token"} :
              proc'[r][f] = proc[r][f]
<1>1. r \in Procs /\ proc[r] \in ProcType
  BY DEF TypeOK, Procs
<1>2. Turns(r, [proc[r] EXCEPT !.pc = c])
  BY <1>1, GoTurns
<1> QED BY <1>1, <1>2 DEF Turns, ProcType

LEMMA LockRegistryWorks ==
  ASSUME TypeOK, TokenInv, SettlingInv, NEW r \in Refreshes, LockRegistry(r)
  PROVE  Works(r)
<1>1. UNCHANGED <<file, icons, registry, edits, kills>>
  BY DEF LockRegistry
<1>2. PICK c \in {"upsert", "remove"} :
        /\ Go(r, c) /\ lock' = [lock EXCEPT !["registry"] = r]
        /\ IF c = "upsert" THEN proc[r].pc = "registering" ELSE proc[r].pc = "removing"
  BY DEF LockRegistry, AcquireLock
<1>3. r \in Procs /\ r \in Running /\ Knows(r) /\ Settled(r)
  BY <1>2 DEF Procs, Running, Ended, TokenInv, SettlingInv
<1>4. /\ proc' \in [Procs -> ProcType] /\ proc'[r].pc = c
      /\ \A o \in Procs : o # r => proc'[o] = proc[o]
      /\ proc'[r].write = proc[r].write /\ proc'[r].alone = proc[r].alone
      /\ proc'[r].filter = proc[r].filter /\ proc'[r].clean = proc[r].clean
      /\ proc'[r].left = proc[r].left /\ proc'[r].found = proc[r].found
      /\ proc'[r].at = proc[r].at /\ proc'[r].token = proc[r].token
  BY <1>2, GoWorks DEF Pcs
<1>5. TypeOK' /\ lock'["config"] = lock["config"]
  BY <1>1, <1>2, <1>3, <1>4 DEF TypeOK
<1>6. Knows(r)'
  BY <1>1, <1>2, <1>3, <1>4 DEF Knows
<1>7. Settled(r)'
  <2> SUFFICES ASSUME Sole(r)', proc'[r].clean, proc'[r].filter = None PROVE Settling(r)'
    BY DEF Settled
  <2>1. Settling(r)
    BY <1>3, <1>4, SoleBefore
  <2> QED BY <1>1, <1>2, <1>4, <2>1 DEF Settling, Registered
<1> QED BY <1>1, <1>2, <1>3, <1>4, <1>5, <1>6, <1>7 DEF Works

LEMMA GiveUpRegistryWorks ==
  ASSUME TypeOK, TokenInv, SettlingInv, NEW r \in Refreshes, GiveUpRegistry(r)
  PROVE  Works(r)
<1>1. /\ r \in Procs /\ proc[r] \in ProcType /\ proc[r].pc \in {"registering", "removing"}
      /\ r \in Running /\ Knows(r) /\ UNCHANGED <<file, icons, lock, registry, edits, kills>>
  BY DEF TypeOK, Procs, GiveUpRegistry, TimesOut, Running, Ended, TokenInv
<1>2. CASE proc[r].pc = "removing"
  BY <1>1, <1>2, Ends DEF GiveUpRegistry, Ended
<1>3. CASE proc[r].pc = "registering"
  <2> DEFINE L == proc[r].left \ {proc[r].at}
             R == [proc[r] EXCEPT !.clean = FALSE, !.left = L, !.pc = "next", !.at = None, !.token = None]
  <2>1. L \subseteq proc[r].left /\ L \in SUBSET Projects
    BY <1>1 DEF ProcType
  <2>2. proc' = [proc EXCEPT ![r] = R]
    BY <1>3 DEF GiveUpRegistry
  <2> HIDE DEF L
  <2>3. /\ R \in ProcType /\ R.pc = "next" /\ R.write = proc[r].write /\ R.alone = proc[r].alone
        /\ R.filter = proc[r].filter /\ R.left = L /\ ~R.clean
    BY <1>1, <2>1 DEF ProcType, Pcs
  <2> HIDE DEF R
  <2>4. Turns(r, R)
    BY <1>1, <2>2, <2>3, TurnsTo
  <2>5. TypeOK'
    BY <1>1, <2>4 DEF TypeOK, Turns
  <2>6. Knows(r)' /\ Settled(r)'
    BY <1>1, <1>3, <2>1, <2>3, <2>4 DEF Knows, Settled, Turns
  <2> QED BY <1>1, <2>3, <2>4, <2>5, <2>6 DEF Works, Turns
<1> QED BY <1>1, <1>2, <1>3

LEMMA UpsertWorks ==
  ASSUME TypeOK, TokenInv, SettlingInv, NEW r \in Refreshes, Upsert(r)
  PROVE  Works(r)
<1> DEFINE at == proc[r].at
           record == [token |-> proc[r].token, root |-> discoveredRepo(proc[r].write, at)]
<1>1. r \in Procs /\ proc[r].pc = "upsert" /\ r \in Running /\ Knows(r) /\ Settled(r)
  BY DEF Procs, Upsert, Running, Ended, TokenInv, SettlingInv
<1>2. Go(r, "upserted") /\ registry' = [registry EXCEPT ![at] = record]
      /\ UNCHANGED <<file, icons, lock, edits, kills>>
  BY DEF Upsert
<1>3. /\ at \in Projects /\ at \in Visible(proc[r].write) /\ proc[r].write \in FileType
      /\ proc[r].token \in Tokens
  BY <1>1 DEF Knows
<1>4. record \in RecordType
  <2>1. <<proc[r].write, at>> \in {y \in FileType \X Projects : y[2] \in Visible(y[1])}
    BY <1>3
  <2>2. discoveredRepo(proc[r].write, at) \in Paths
    BY <2>1 DEF Paths
  <2> QED BY <1>3, <2>2 DEF RecordType
<1>5. /\ registry' \in [Projects -> RecordType \cup {None}] /\ registry'[at] = record
      /\ \A p \in Projects : p # at => registry'[p] = registry[p]
  BY <1>2, <1>3, <1>4 DEF TypeOK
<1>6. /\ proc' \in [Procs -> ProcType] /\ proc'[r].pc = "upserted"
      /\ \A o \in Procs : o # r => proc'[o] = proc[o]
      /\ proc'[r].write = proc[r].write /\ proc'[r].alone = proc[r].alone
      /\ proc'[r].filter = proc[r].filter /\ proc'[r].clean = proc[r].clean
      /\ proc'[r].left = proc[r].left /\ proc'[r].found = proc[r].found /\ proc'[r].at = at
  BY <1>2, GoWorks DEF Pcs
<1>7. TypeOK'
  BY <1>2, <1>5, <1>6 DEF TypeOK
<1>8. Knows(r)'
  BY <1>1, <1>6 DEF Knows
<1>9. /\ record.token = proc[r].token /\ record.root = discoveredRepo(proc[r].write, at)
      /\ record # None
  BY <1>4, NoneIsNothing
<1> HIDE DEF record, at
<1>10. Settled(r)'
  <2> SUFFICES ASSUME Sole(r)', proc'[r].clean, proc'[r].filter = None PROVE Settling(r)'
    BY DEF Settled
  <2>1. Settling(r)
    BY <1>1, <1>6, SoleBefore
  <2>2. \A p \in Projects : Registered(proc[r].write, p) \/ p = at => Registered(proc[r].write, p)'
    BY <1>5, <1>6, <1>9 DEF Registered
  <2>3. Visible(proc[r].write) \subseteq Projects
    BY DEF Visible
  <2> QED BY <1>1, <1>3, <1>6, <2>1, <2>2, <2>3 DEF Settling
<1>11. proc[r].alone => registry[at] = None \/ registry[at].token = record.token
  BY <1>1, <1>9 DEF Knows, at
<1> QED BY <1>1, <1>2, <1>5, <1>6, <1>7, <1>8, <1>10, <1>11 DEF Works

LEMMA ListRecordsWorks ==
  ASSUME TypeOK, TokenInv, SettlingInv, NEW r \in Refreshes, ListRecords(r)
  PROVE  Works(r)
<1> DEFINE stale == {p \in Projects : registry[p] # None} \ proc[r].found
<1>1. /\ r \in Procs /\ proc[r] \in ProcType /\ proc[r].pc = "next" /\ proc[r].left = {}
      /\ r \in Running /\ Knows(r) /\ Settled(r)
      /\ UNCHANGED <<file, icons, lock, registry, edits, kills>>
  BY DEF TypeOK, Procs, ListRecords, Running, Ended, TokenInv, SettlingInv
<1>2. CASE proc[r].filter # None
  BY <1>1, <1>2, Ends DEF ListRecords, Ended
<1>3. CASE proc[r].filter = None
  <2> DEFINE R == [proc[r] EXCEPT !.left = stale, !.found = {}, !.pc = "pruning"]
  <2>1. proc' = [proc EXCEPT ![r] = R]
    BY <1>3 DEF ListRecords
  <2>2. /\ stale \in SUBSET Projects /\ stale \cap proc[r].found = {}
        /\ \A p \in Projects \ proc[r].found : registry[p] # None => p \in stale
    OBVIOUS
  <2> HIDE DEF stale
  <2>3. /\ R \in ProcType /\ R.pc = "pruning" /\ R.write = proc[r].write /\ R.alone = proc[r].alone
        /\ R.filter = proc[r].filter /\ R.left = stale /\ R.clean = proc[r].clean
    BY <1>1, <2>2 DEF ProcType, Pcs
  <2> HIDE DEF R
  <2>4. Turns(r, R)
    BY <1>1, <2>1, <2>3, TurnsTo
  <2>5. TypeOK' /\ proc'[r] = R /\ \A o \in Procs : o # r => proc'[o] = proc[o]
    BY <1>1, <2>4 DEF TypeOK, Turns
  <2>6. Knows(r)'
    BY <1>1, <2>3, <2>5 DEF Knows
  <2>7. Settled(r)'
    <3> SUFFICES ASSUME Sole(r)', proc'[r].clean, proc'[r].filter = None PROVE Settling(r)'
      BY DEF Settled
    <3>1. Settling(r)
      BY <1>1, <2>3, <2>5, SoleBefore
    <3> QED BY <1>1, <2>2, <2>3, <2>5, <3>1 DEF Settling, Registered
  <2> QED BY <1>1, <2>3, <2>5, <2>6, <2>7 DEF Works
<1> QED BY <1>2, <1>3

LEMMA PruneNextWorks ==
  ASSUME TypeOK, TokenInv, SettlingInv, NEW r \in Refreshes, PruneNext(r)
  PROVE  Works(r)
<1>1. /\ r \in Procs /\ proc[r] \in ProcType /\ proc[r].pc = "pruning"
      /\ r \in Running /\ Knows(r) /\ Settled(r)
      /\ UNCHANGED <<file, icons, lock, registry, edits, kills>>
  BY DEF TypeOK, Procs, PruneNext, Running, Ended, TokenInv, SettlingInv
<1>2. /\ proc' \in [Procs -> ProcType]
      /\ \A o \in Procs : o # r => proc'[o] = proc[o]
      /\ proc'[r].write = proc[r].write /\ proc'[r].alone = proc[r].alone
      /\ proc'[r].filter = proc[r].filter /\ proc'[r].clean = proc[r].clean
      /\ proc'[r].left = proc[r].left
      /\ \/ proc'[r].pc = "done" /\ proc[r].left = {}
         \/ proc'[r].pc = "removing" /\ proc'[r].at \in proc[r].left
  <2>1. CASE proc[r].left = {}
    BY <1>1, <2>1, GoWorks DEF PruneNext, Pcs, Ended
  <2>2. CASE proc[r].left # {}
    <3>1. PICK p \in proc[r].left : proc' = [proc EXCEPT ![r].at = p, ![r].pc = "removing"]
      BY <2>2 DEF PruneNext
    <3> DEFINE R == [proc[r] EXCEPT !.at = p, !.pc = "removing"]
    <3>2. proc' = [proc EXCEPT ![r] = R]
      BY <3>1
    <3>3. /\ R \in ProcType /\ R.pc = "removing" /\ R.write = proc[r].write /\ R.alone = proc[r].alone
          /\ R.filter = proc[r].filter /\ R.left = proc[r].left /\ R.clean = proc[r].clean /\ R.at = p
      BY <1>1 DEF ProcType, Pcs
    <3> HIDE DEF R
    <3> QED BY <1>1, <3>2, <3>3, TurnsTo DEF Turns
  <2> QED BY <2>1, <2>2
<1>3. TypeOK' /\ proc[r].left \subseteq Projects
  BY <1>1, <1>2 DEF TypeOK, ProcType
<1>4. proc'[r].pc \notin Ended => Knows(r)'
  BY <1>1, <1>2, <1>3 DEF Knows, Ended
<1>5. Settled(r)'
  <2> SUFFICES ASSUME Sole(r)', proc'[r].clean, proc'[r].filter = None PROVE Settling(r)'
    BY DEF Settled
  <2>1. Settling(r)
    BY <1>1, <1>2, SoleBefore
  <2> QED BY <1>1, <1>2, <2>1 DEF Settling, Registered
<1> QED BY <1>1, <1>2, <1>3, <1>4, <1>5 DEF Works

LEMMA RemoveRecordWorks ==
  ASSUME TypeOK, TokenInv, SettlingInv, NEW r \in Refreshes, RemoveRecord(r)
  PROVE  Works(r)
<1> DEFINE at == proc[r].at
<1>1. r \in Procs /\ proc[r].pc = "remove" /\ r \in Running /\ Knows(r) /\ Settled(r)
  BY DEF Procs, RemoveRecord, Running, Ended, TokenInv, SettlingInv
<1>2. /\ Go(r, "removed") /\ registry' = [registry EXCEPT ![at] = None]
      /\ UNCHANGED <<file, icons, lock, edits, kills>>
  BY DEF RemoveRecord
<1>3. at \in Projects
  BY <1>1 DEF Knows
<1>4. /\ registry' \in [Projects -> RecordType \cup {None}] /\ registry'[at] = None
      /\ \A p \in Projects : p # at => registry'[p] = registry[p]
  BY <1>2, <1>3 DEF TypeOK
<1>5. /\ proc' \in [Procs -> ProcType] /\ proc'[r].pc = "removed"
      /\ \A o \in Procs : o # r => proc'[o] = proc[o]
      /\ proc'[r].write = proc[r].write /\ proc'[r].alone = proc[r].alone
      /\ proc'[r].filter = proc[r].filter /\ proc'[r].clean = proc[r].clean
      /\ proc'[r].left = proc[r].left /\ proc'[r].at = at
  BY <1>2, GoWorks DEF Pcs
<1>6. TypeOK'
  BY <1>2, <1>4, <1>5 DEF TypeOK
<1>7. Knows(r)'
  BY <1>1, <1>5 DEF Knows
<1>8. Settled(r)'
  <2> SUFFICES ASSUME Sole(r)', proc'[r].clean, proc'[r].filter = None PROVE Settling(r)'
    BY DEF Settled
  <2>1. Settling(r)
    BY <1>1, <1>5, SoleBefore
  <2>2. \A p \in Projects : Registered(proc[r].write, p) /\ p # at => Registered(proc[r].write, p)'
    BY <1>4, <1>5 DEF Registered
  <2>3. at \notin Visible(proc[r].write) /\ Visible(proc[r].write) \subseteq Projects
    BY <1>1, <2>1 DEF Settling, Visible
  <2> QED BY <1>1, <1>4, <1>5, <2>1, <2>2, <2>3 DEF Settling
<1> QED BY <1>1, <1>2, <1>4, <1>5, <1>6, <1>7, <1>8 DEF Works

LEMMA UnlockRegistryWorks ==
  ASSUME TypeOK, TokenInv, SettlingInv, NEW r \in Refreshes, UnlockRegistry(r)
  PROVE  Works(r)
<1> DEFINE L == proc[r].left \ {proc[r].at}
           c == IF proc[r].pc = "upserted" THEN "next" ELSE "pruning"
           R == [proc[r] EXCEPT !.left = L, !.at = None, !.token = None, !.pc = c]
<1>1. /\ r \in Procs /\ proc[r] \in ProcType /\ proc[r].pc \in {"upserted", "removed"}
      /\ r \in Running /\ Knows(r) /\ Settled(r)
      /\ UNCHANGED <<file, icons, registry, edits, kills>>
  BY DEF TypeOK, Procs, UnlockRegistry, Running, Ended, TokenInv, SettlingInv
<1>2. L \subseteq proc[r].left /\ L \in SUBSET Projects /\ \A p \in proc[r].left : p \in L \/ p = proc[r].at
  BY <1>1 DEF ProcType
<1>3. c \in Pcs /\ (c = "next" <=> proc[r].pc = "upserted") /\ c \in {"next", "pruning"}
  BY DEF Pcs
<1>4. proc' = [proc EXCEPT ![r] = R] /\ lock' = [lock EXCEPT !["registry"] = None]
  BY DEF UnlockRegistry
<1> HIDE DEF L, c
<1>5. /\ R \in ProcType /\ R.pc = c /\ R.write = proc[r].write /\ R.alone = proc[r].alone
      /\ R.filter = proc[r].filter /\ R.left = L /\ R.found = proc[r].found /\ R.clean = proc[r].clean
  BY <1>1, <1>2, <1>3 DEF ProcType
<1> HIDE DEF R
<1>6. Turns(r, R)
  BY <1>1, <1>4, <1>5, TurnsTo
<1>7. /\ TypeOK' /\ lock'["config"] = lock["config"]
      /\ proc'[r] = R /\ \A o \in Procs : o # r => proc'[o] = proc[o]
  BY <1>1, <1>4, <1>6 DEF TypeOK, Turns
<1>8. Knows(r)'
  BY <1>1, <1>2, <1>3, <1>5, <1>7 DEF Knows
<1>9. Settled(r)'
  <2> SUFFICES ASSUME Sole(r)', proc'[r].clean, proc'[r].filter = None PROVE Settling(r)'
    BY DEF Settled
  <2>1. Settling(r)
    BY <1>1, <1>5, <1>7, SoleBefore
  <2>2. Visible(proc[r].write) \subseteq Projects
    BY DEF Visible
  <2>3. CASE proc[r].pc = "upserted"
    BY <1>1, <1>2, <1>3, <1>5, <1>7, <2>1, <2>2, <2>3 DEF Settling, Registered
  <2>4. CASE proc[r].pc = "removed"
    BY <1>1, <1>2, <1>3, <1>5, <1>7, <2>1, <2>2, <2>4 DEF Settling, Registered
  <2> QED BY <1>1, <2>3, <2>4
<1> QED BY <1>1, <1>3, <1>5, <1>7, <1>8, <1>9 DEF Works

LEMMA RefreshStepWorks ==
  ASSUME TypeOK, TokenInv, SettlingInv, NEW r \in Refreshes, RefreshStep(r)
  PROVE  Works(r)
BY SkipProjectWorks, ReadTokenWorks, LockRegistryWorks, GiveUpRegistryWorks, UpsertWorks,
   ListRecordsWorks, PruneNextWorks, RemoveRecordWorks, UnlockRegistryWorks, Zenon DEF RefreshStep

LEMMA KillWorks ==
  ASSUME TypeOK, NEW q \in Procs, Kill(q)
  PROVE  /\ TypeOK' /\ UNCHANGED <<file, icons, lock, registry>>
         /\ proc'[q].pc = "killed" /\ proc'[q].write = None /\ proc[q].pc \notin Ended \cup {"idle"}
         /\ \A o \in Procs : o # q => proc'[o] = proc[o]
<1>1. /\ Finish(q, "killed") /\ UNCHANGED <<file, icons, lock, registry, edits>>
      /\ kills' = kills + 1 /\ proc[q].pc \notin Ended \cup {"idle"}
  BY DEF Kill
<1>2. Turns(q, [Idle EXCEPT !.pc = "killed"])
  BY <1>1, FinishTurns DEF Pcs, Ended
<1> QED BY <1>1, <1>2 DEF Turns, Idle, TypeOK

(* After a step of one refresh, the others are as they were, and none of   *)
(* them was alone.                                                         *)
LEMMA WorksKeeps ==
  ASSUME RegistrationInv, NEW r \in Refreshes, Works(r)
  PROVE  RegistrationInv'
<1>1. /\ TypeOK /\ TypeOK' /\ r \in Procs /\ r \in Running /\ proc'[r].pc # "idle"
      /\ \A s \in Refreshes : s \in Procs /\ (s # r => proc'[s] = proc[s])
      /\ \A i \in Inits : i \in Procs /\ i # r
  BY CommandsAreNumbers DEF Works, RegistrationInv, Procs
<1>2. InitInv'
  <2> SUFFICES ASSUME NEW i \in Inits PROVE Holds(i)'
    BY DEF InitInv
  <2>1. Spares(i)
    BY <1>1 DEF Works, Spares
  <2> QED BY <2>1, SparedHolds DEF RegistrationInv, InitInv
<1>3. Running' \subseteq Running /\ (r \notin Running' <=> proc'[r].pc \in Ended)
  BY <1>1 DEF Running
<1>4. \A s \in Refreshes : s # r /\ Sole(s)' => Sole(s)
  BY <1>1 DEF Sole
<1>5. \A s \in Refreshes : s # r => ~Sole(s)' /\ ~(s \in Running /\ proc[s].alone)
  BY <1>1, <1>4 DEF RegistrationInv, AloneInv
<1>6. AloneInv'
  <2> SUFFICES ASSUME NEW s \in Refreshes
               PROVE  /\ IF proc'[s].pc = "idle" THEN proc'[s].write = None
                         ELSE \A o \in Refreshes : o < s => proc'[o].pc # "idle"
                      /\ s \in Running' /\ proc'[s].alone => Running' = {s}
                      /\ Sole(s)' => Running' \subseteq {s}
    BY DEF AloneInv
  <2>1. proc[r].pc # "idle"
    BY <1>1 DEF Running
  <2>2. IF proc'[s].pc = "idle" THEN proc'[s].write = None
        ELSE \A o \in Refreshes : o < s => proc'[o].pc # "idle"
    BY <1>1, <2>1 DEF RegistrationInv, AloneInv
  <2>3. CASE s # r
    BY <1>1, <1>3, <1>5, <2>2, <2>3
  <2>4. CASE s = r
    <3>1. r \in Running' => proc'[r].alone = proc[r].alone
      BY <1>3 DEF Works
    <3>2. proc[r].alone => Running = {r}
      BY <1>1 DEF RegistrationInv, AloneInv
    <3>3. Sole(r)' => proc'[r].write # None /\ proc'[r].alone
      BY DEF Sole
    <3>4. Sole(r)' => proc[r].alone
      BY <3>3 DEF Works
    <3> QED BY <1>1, <1>3, <2>2, <2>4, <3>1, <3>2, <3>4
  <2> QED BY <2>3, <2>4
<1>7. TokenInv'
  <2> SUFFICES ASSUME NEW s \in Running' PROVE Knows(s)'
    BY DEF TokenInv
  <2>1. CASE s # r
    BY <1>1, <1>3, <1>5, <2>1 DEF RegistrationInv, TokenInv, Knows, Running
  <2>2. CASE s = r
    BY <1>3, <2>2 DEF Works
  <2> QED BY <2>1, <2>2
<1>8. SettlingInv'
  BY <1>1, <1>5 DEF SettlingInv, Settled, Works
<1> QED BY <1>1, <1>2, <1>6, <1>7, <1>8 DEF RegistrationInv

LEMMA StepsKeep ==
  ASSUME RegistrationInv, NEW i \in Inits, Steps(i)
  PROVE  RegistrationInv'
<1>1. /\ TypeOK /\ TypeOK' /\ i \in Procs /\ registry' = registry
      /\ \A s \in Refreshes : s \in Procs /\ proc'[s] = proc[s]
  BY CommandsAreNumbers DEF Steps, RegistrationInv, Procs
<1>2. InitInv'
  <2> SUFFICES ASSUME NEW j \in Inits PROVE Holds(j)'
    BY DEF InitInv
  <2>1. CASE j = i
    BY <2>1 DEF Steps
  <2>2. CASE j # i
    BY <2>2, SparedHolds DEF Steps, RegistrationInv, InitInv
  <2> QED BY <2>1, <2>2
<1>3. Running' = Running /\ \A s \in Refreshes : Sole(s)' <=> Sole(s)
  BY <1>1 DEF Running, Sole
<1>4. AloneInv'
  BY <1>1, <1>3 DEF RegistrationInv, AloneInv
<1>5. TokenInv'
  BY <1>1, <1>3 DEF RegistrationInv, TokenInv, Knows, Running
<1>6. SettlingInv'
  <2> SUFFICES ASSUME NEW s \in Refreshes PROVE Settled(s)'
    BY DEF SettlingInv
  <2>1. Settled(s)
    BY DEF RegistrationInv, SettlingInv
  <2> QED BY <1>1, <1>3, <2>1 DEF Settled, Settling, Registered
<1> QED BY <1>1, <1>2, <1>4, <1>5, <1>6 DEF RegistrationInv

LEMMA DiscoverKeeps ==
  ASSUME RegistrationInv, NEW r \in Refreshes, Discover(r)
  PROVE  RegistrationInv'
<1> DEFINE Found(only) == Visible(file) \cap IF only = None THEN Projects ELSE {only}
<1>0. MayStart(r, Refreshes) /\ TypeOK /\ \A s \in Refreshes : s \in Nat
  BY CommandsAreNumbers DEF Discover, RegistrationInv
<1>1. /\ TypeOK /\ proc \in [Procs -> ProcType] /\ file \in FileType /\ r \in Procs /\ proc[r].pc = "idle"
      /\ \A s \in Refreshes : s \in Procs /\ s \in Int /\ (s < r => proc[s].pc # "idle")
      /\ \A i \in Inits : i \in Procs /\ i # r /\ i \notin Refreshes
      /\ UNCHANGED <<file, icons, lock, registry>> /\ edits' = edits /\ kills' = kills
  <2>1. r \in Procs /\ proc[r].pc = "idle" /\ \A s \in Refreshes : s \in Procs /\ (s < r => proc[s].pc # "idle")
    BY <1>0 DEF MayStart, Procs
  <2>2. UNCHANGED <<file, icons, lock, registry>> /\ edits' = edits /\ kills' = kills
    BY DEF Discover
  <2> QED BY <1>0, <2>1, <2>2, CommandsAreNumbers DEF TypeOK, Procs
<1>2. \A s \in Refreshes : s > r => proc[s].pc = "idle" /\ proc[s].write = None
  BY <1>1 DEF RegistrationInv, AloneInv
<1>3. r \notin Running /\ Running \subseteq Refreshes
  BY <1>1 DEF Running
<1>4. CASE Turns(r, [proc[r] EXCEPT !.pc = "failed"])
  <2>1. /\ proc' \in [Procs -> ProcType] /\ proc'[r].pc = "failed" /\ proc'[r].write = None
        /\ \A o \in Procs : o # r => proc'[o] = proc[o]
    BY <1>1, <1>4 DEF Turns, ProcType, RegistrationInv, AloneInv
  <2>2. TypeOK'
    BY <1>1, <2>1 DEF TypeOK
  <2>3. InitInv'
    BY <1>1, <2>1, SparedHolds DEF InitInv, RegistrationInv, Spares
  <2>4. Running' = Running /\ \A s \in Refreshes : Sole(s)' => Sole(s) /\ s # r
    BY <1>1, <2>1 DEF Running, Ended, Sole
  <2>5. AloneInv'
    BY <1>1, <1>3, <2>1, <2>4 DEF RegistrationInv, AloneInv
  <2>6. TokenInv'
    BY <1>1, <1>3, <2>1, <2>4 DEF RegistrationInv, TokenInv, Knows
  <2>7. SettlingInv'
    <3> SUFFICES ASSUME NEW s \in Refreshes PROVE Settled(s)'
      BY DEF SettlingInv
    <3>1. Settled(s)
      BY DEF RegistrationInv, SettlingInv
    <3> QED BY <1>1, <2>1, <2>4, <3>1 DEF Settled, Settling, Registered
  <2> QED BY <2>2, <2>3, <2>5, <2>6, <2>7 DEF RegistrationInv
<1>5. ASSUME NEW only \in {None} \cup Projects,
             proc' \in [Procs -> ProcType],
             proc'[r] = [Idle EXCEPT !.pc = "next", !.filter = only, !.write = file,
                                     !.found = Found(only), !.left = Found(only), !.alone = Running = {}],
             \A o \in Procs : o # r =>
               proc'[o] = IF o \in Running THEN [proc[o] EXCEPT !.alone = FALSE] ELSE proc[o]
      PROVE  RegistrationInv'
  <2>1. /\ proc'[r].pc = "next" /\ proc'[r].write = file /\ proc'[r].found = Found(only)
        /\ proc'[r].left = Found(only) /\ proc'[r].filter = only /\ (proc'[r].alone <=> Running = {})
    <3> DEFINE F == Found(only)
               A == Running = {}
    <3> HIDE DEF F, A
    <3>1. proc'[r] = [Idle EXCEPT !.pc = "next", !.filter = only, !.write = file,
                                  !.found = F, !.left = F, !.alone = A]
      BY <1>5 DEF F, A
    <3>2. /\ proc'[r].pc = "next" /\ proc'[r].write = file /\ proc'[r].found = F
          /\ proc'[r].left = F /\ proc'[r].filter = only /\ (proc'[r].alone <=> A)
      BY <3>1 DEF Idle
    <3> QED BY <3>2 DEF F, A
  <2>2. \A o \in Running : /\ ~proc'[o].alone /\ proc'[o].pc = proc[o].pc /\ proc'[o].write = proc[o].write
                           /\ proc'[o].left = proc[o].left /\ proc'[o].at = proc[o].at
                           /\ proc'[o].token = proc[o].token
    <3> SUFFICES ASSUME NEW o \in Running
                 PROVE  /\ ~proc'[o].alone /\ proc'[o].pc = proc[o].pc /\ proc'[o].write = proc[o].write
                        /\ proc'[o].left = proc[o].left /\ proc'[o].at = proc[o].at
                        /\ proc'[o].token = proc[o].token
      OBVIOUS
    <3>1. o \in Procs /\ o # r /\ proc[o] \in ProcType
      BY <1>1, <1>3
    <3>2. proc'[o] = [proc[o] EXCEPT !.alone = FALSE]
      BY <1>5, <3>1
    <3> QED BY <3>1, <3>2 DEF ProcType
  <2>3. \A o \in Procs : o # r /\ o \notin Running => proc'[o] = proc[o]
    BY <1>5
  <2>4. TypeOK'
    BY <1>1, <1>5 DEF TypeOK
  <2>5. InitInv'
    BY <1>1, <1>3, <2>3, SparedHolds DEF InitInv, RegistrationInv, Spares
  <2>6. \A o \in Procs : o # r => proc'[o].pc = proc[o].pc /\ proc'[o].write = proc[o].write
    BY <2>2, <2>3
  <2>7. Running' = Running \cup {r}
    BY <1>1, <2>1, <2>6 DEF Running, Ended
  <2>8. \A s \in Refreshes : s # r => ~Sole(s)'
    <3> SUFFICES ASSUME NEW s \in Refreshes, s # r, Sole(s)' PROVE FALSE
      OBVIOUS
    <3>1. CASE s > r
      BY <1>1, <1>2, <2>6, <3>1 DEF Sole
    <3>2. CASE s < r
      BY <1>1, <2>1, <3>2 DEF Sole
    <3> QED BY <1>1, <3>1, <3>2
  <2>9. AloneInv'
    <3> SUFFICES ASSUME NEW s \in Refreshes
                 PROVE  /\ IF proc'[s].pc = "idle" THEN proc'[s].write = None
                           ELSE \A o \in Refreshes : o < s => proc'[o].pc # "idle"
                        /\ s \in Running' /\ proc'[s].alone => Running' = {s}
                        /\ Sole(s)' => Running' \subseteq {s}
      BY DEF AloneInv
    <3>1. CASE s = r
      BY <1>1, <1>3, <2>1, <2>6, <2>7, <3>1 DEF Sole
    <3>2. CASE s # r
      BY <1>1, <1>3, <2>1, <2>2, <2>6, <2>7, <2>8, <3>2 DEF RegistrationInv, AloneInv
    <3> QED BY <3>1, <3>2
  <2>10. TokenInv'
    <3> SUFFICES ASSUME NEW s \in Running' PROVE Knows(s)'
      BY DEF TokenInv
    <3>1. CASE s = r
      BY <1>1, <2>1, <3>1 DEF Knows
    <3>2. CASE s # r
      <4>1. s \in Running /\ Knows(s)
        BY <2>7, <3>2 DEF RegistrationInv, TokenInv
      <4> QED BY <1>1, <2>2, <4>1 DEF Knows
    <3> QED BY <3>1, <3>2
  <2>11. SettlingInv'
    <3>1. proc'[r].filter = None => Settling(r)'
      BY <1>1, <2>1 DEF Settling, Visible
    <3> QED BY <2>8, <3>1 DEF SettlingInv, Settled
  <2> QED BY <2>4, <2>5, <2>9, <2>10, <2>11 DEF RegistrationInv
<1> HIDE DEF Found
<1> QED BY <1>1, <1>4, <1>5, DiscoverTurns DEF Found

LEMMA KillKeeps ==
  ASSUME RegistrationInv, NEW q \in Procs, Kill(q)
  PROVE  RegistrationInv'
<1>1. /\ TypeOK /\ TypeOK' /\ UNCHANGED <<file, icons, lock, registry>>
      /\ proc'[q].pc = "killed" /\ proc'[q].write = None /\ proc[q].pc \notin Ended \cup {"idle"}
      /\ \A o \in Procs : o # q => proc'[o] = proc[o]
  BY KillWorks DEF RegistrationInv
<1>2. CASE q \in Refreshes
  <2>1. q \in Running
    BY <1>1, <1>2 DEF Running
  <2>2. Settled(q)'
    BY <1>1 DEF Settled, Sole
  <2>3. Works(q)
    BY <1>1, <2>1, <2>2 DEF Works, Ended
  <2> QED BY <1>2, <2>3, WorksKeeps
<1>3. CASE q \in Inits
  <2>1. Holds(q)'
    BY <1>1 DEF Holds
  <2>2. Steps(q)
    BY <1>1, <2>1 DEF Steps, Spares, Procs
  <2> QED BY <1>3, <2>2, StepsKeep
<1> QED BY <1>2, <1>3 DEF Procs

LEMMA EditKeeps ==
  ASSUME RegistrationInv, Edit
  PROVE  RegistrationInv'
<1>1. /\ TypeOK /\ lock["config"] = None /\ UNCHANGED <<icons, lock, registry, proc>>
      /\ edits' = edits + 1 /\ kills' = kills
  BY DEF Edit, RegistrationInv
<1>2. file' \in FileType
  <2>1. file \in FileType
    BY <1>1 DEF TypeOK
  <2>2. ASSUME NEW p \in Visible(file), file' = [file EXCEPT !.entries[p].visible = FALSE]
        PROVE  file' \in FileType
    <3>1. p \in Projects /\ file.entries[p] \in EntryType
      BY <2>1 DEF Visible, FileType
    <3> DEFINE e == [file.entries[p] EXCEPT !.visible = FALSE]
               E == [file.entries EXCEPT ![p] = e]
    <3>2. e \in EntryType
      BY <3>1 DEF EntryType
    <3>3. file' = [file EXCEPT !.entries = E]
      BY <2>2
    <3> HIDE DEF e
    <3>4. E \in [Projects -> EntryType \cup {None}]
      BY <2>1, <3>1, <3>2 DEF FileType
    <3> HIDE DEF E
    <3> QED BY <2>1, <3>3, <3>4 DEF FileType
  <2>3. file' = [file EXCEPT !.kind = "corrupt"] => file' \in FileType
    BY <2>1 DEF FileType
  <2> QED BY <2>2, <2>3 DEF Edit
<1>3. TypeOK'
  BY <1>1, <1>2 DEF TypeOK
<1>4. InitInv'
  <2> SUFFICES ASSUME NEW i \in Inits PROVE Holds(i)'
    BY DEF InitInv
  <2>1. i # None
    BY NoneIsNothing DEF Procs
  <2> QED BY <1>1, <2>1, SparedHolds DEF RegistrationInv, InitInv, Spares
<1>5. Running' = Running
  BY <1>1 DEF Running
<1> QED BY <1>1, <1>3, <1>4, <1>5
        DEF RegistrationInv, AloneInv, Sole, TokenInv, Knows, SettlingInv, Settled, Settling, Registered

LEMMA StartsWell == Init => RegistrationInv
<1> SUFFICES ASSUME Init PROVE RegistrationInv
  OBVIOUS
<1>1. NoFile \in FileType
  BY DEF NoFile, NoEntries, FileType
<1>2. file \in FileType
  <2>1. ASSUME NEW b \in {None, <<"${HOME}", "repos">>}
        PROVE  [kind |-> "good", base |-> b,
                entries |-> [p \in Projects |-> [repo |-> None, version |-> "v1", visible |-> TRUE]]] \in FileType
    <3> DEFINE e == [repo |-> None, version |-> "v1", visible |-> TRUE]
    <3>1. e \in EntryType
      BY DEF EntryType, Repos, Versions
    <3> HIDE DEF e
    <3>2. [kind |-> "good", base |-> b, entries |-> [p \in Projects |-> e]] \in FileType
      BY <3>1 DEF FileType
    <3> QED BY <3>2 DEF e
  <2> QED BY <1>1, <2>1 DEF Init
<1>3. registry \in [Projects -> RecordType \cup {None}]
  <2>1. \A p \in Projects : [token |-> <<0, p>>, root |-> Root] \in RecordType
    BY DEF RecordType, Tokens, Paths
  <2>2. registry = NoEntries \/ registry = [p \in Projects |-> [token |-> <<0, p>>, root |-> Root]]
    BY DEF Init
  <2>3. NoEntries \in [Projects -> RecordType \cup {None}]
    BY DEF NoEntries
  <2> QED BY <2>1, <2>2, <2>3
<1>4. proc \in [Procs -> ProcType] /\ \A q \in Procs : proc[q] = Idle
  BY IdleFits DEF Init, Pcs
<1>5. TypeOK
  BY <1>2, <1>3, <1>4 DEF Init, TypeOK
<1>6. Running = {} /\ \A r \in Refreshes : r \in Procs
  BY <1>4 DEF Running, Procs, Idle
<1>7. InitInv
  BY <1>4 DEF InitInv, Holds, Procs, Idle
<1>8. AloneInv /\ TokenInv /\ SettlingInv
  BY <1>4, <1>6 DEF AloneInv, TokenInv, SettlingInv, Settled, Sole, Idle
<1> QED BY <1>5, <1>7, <1>8 DEF RegistrationInv

LEMMA NextKeeps == RegistrationInv /\ [Next]_vars => RegistrationInv'
<1> SUFFICES ASSUME RegistrationInv, [Next]_vars PROVE RegistrationInv'
  OBVIOUS
<1>1. CASE UNCHANGED vars
  <2>1. TypeOK' /\ InitInv'
    BY <1>1 DEF vars, RegistrationInv, TypeOK, InitInv, Holds
  <2>2. Running' = Running
    BY <1>1 DEF vars, Running
  <2>3. AloneInv' /\ TokenInv'
    BY <1>1, <2>2 DEF vars, RegistrationInv, AloneInv, Sole, TokenInv, Knows
  <2>4. SettlingInv'
    BY <1>1 DEF vars, RegistrationInv, Sole, SettlingInv, Settled, Settling, Registered
  <2> QED BY <2>1, <2>3, <2>4 DEF RegistrationInv
<1>2. ASSUME NEW i \in Inits, StartInit(i) \/ InitStep(i) PROVE RegistrationInv'
  BY <1>2, InitStepSteps, StepsKeep DEF RegistrationInv
<1>3. ASSUME NEW r \in Refreshes, RefreshStep(r) PROVE RegistrationInv'
  BY <1>3, RefreshStepWorks, WorksKeeps DEF RegistrationInv
<1> QED BY <1>1, <1>2, <1>3, DiscoverKeeps, KillKeeps, EditKeeps, Zenon DEF Next

(* The files and the commands keep their types, the lock of projects.json  *)
(* is held by the init that is in its section, and a refresh that nothing  *)
(* overlapped knows what the registry holds.                               *)
THEOREM RegistrationIsConsistent == Spec => []RegistrationInv
<1>1. Init => RegistrationInv
  BY StartsWell
<1>2. RegistrationInv /\ [Next]_vars => RegistrationInv'
  BY NextKeeps
<1> QED BY <1>1, <1>2, PTL DEF Spec

LEMMA WritesAreAtomic == RegistrationInv /\ [Next]_vars => WritesAtomically
<1> SUFFICES ASSUME RegistrationInv, [Next]_vars,
                    NEW i \in Inits, proc[i].pc = "writing", proc'[i].pc = "written"
             PROVE  WriteConfig(i)
  BY WriteIsAtomic DEF WritesAtomically, RegistrationInv
<1>1. TypeOK /\ InitInv /\ TokenInv /\ SettlingInv /\ i \in Procs /\ proc[i].pc # proc'[i].pc
  BY DEF RegistrationInv, Procs
<1>2. CASE UNCHANGED vars
  BY <1>1, <1>2 DEF vars
<1>3. ASSUME NEW j \in Inits, StartInit(j) \/ InitStep(j) PROVE WriteConfig(i)
  <2>1. j = i
    BY <1>1, <1>3, InitStepSteps DEF Steps
  <2> QED BY <1>3, <2>1 DEF StartInit, MayStart, InitStep, LockConfig, AcquireLock, GiveUpConfig, TimesOut,
             ReadConfig, RemoveIcons, CopyIcon, UnlockConfig
<1>4. ASSUME NEW r \in Refreshes, RefreshStep(r) PROVE FALSE
  BY <1>1, <1>4, RefreshStepWorks, CommandsAreNumbers DEF Works
<1>5. ASSUME NEW r \in Refreshes, Discover(r) PROVE FALSE
  <2>1. i # r /\ i \notin Running
    BY CommandsAreNumbers DEF Running
  <2> QED BY <1>1, <1>5, <2>1, DiscoverTurns DEF Turns
<1>6. CASE Edit
  BY <1>1, <1>6 DEF Edit
<1>7. ASSUME NEW q \in Procs, Kill(q) PROVE FALSE
  BY <1>1, <1>7, KillWorks
<1> QED BY <1>2, <1>3, <1>4, <1>5, <1>6, <1>7 DEF Next

(* An init that writes changes projects.json as it is at that moment,      *)
(* whatever other inits, refreshes, kills and edits did since it was read: *)
(* every field that was not given stays, and the given icon is the only    *)
(* one.                                                                    *)
THEOREM InitsAreAtomic == Spec => InitIsAtomic
<1>1. RegistrationInv /\ [Next]_vars => [WritesAtomically]_vars
  BY WritesAreAtomic
<1> QED BY <1>1, RegistrationIsConsistent, PTL DEF Spec, InitIsAtomic

LEMMA StepsKeepTokens == RegistrationInv /\ [Next]_vars => [KeepsTokens]_vars
<1> SUFFICES ASSUME RegistrationInv, Next, \A r \in Running : proc[r].alone,
                    NEW p \in Projects, registry[p] # None, registry'[p] # None
             PROVE  registry'[p].token = registry[p].token
  BY DEF KeepsTokens
<1>1. TypeOK /\ InitInv /\ TokenInv /\ SettlingInv
  BY DEF RegistrationInv
<1>2. ASSUME NEW i \in Inits, StartInit(i) \/ InitStep(i) PROVE registry' = registry
  BY <1>1, <1>2, InitStepSteps DEF Steps
<1>3. ASSUME NEW r \in Refreshes, RefreshStep(r) PROVE registry'[p].token = registry[p].token
  BY <1>1, <1>3, RefreshStepWorks DEF Works
<1> QED BY <1>2, <1>3 DEF Next, Discover, Edit, Kill

(* As long as no two refreshes overlap, a project that stays registered    *)
(* keeps the token that its links carry.                                   *)
THEOREM TokensAreKept == Spec => TokenKept
BY StepsKeepTokens, RegistrationIsConsistent, PTL DEF Spec, TokenKept

-----------------------------------------------------------------------------
(* Where a repository is.                                                  *)

LEMMA NoPlaceholder == \A p \in Projects : expandTemplate(<<"..">>, Table(p, <<>>)) = <<"..">>
<1>1. Head(<<"..">>) = ".."
  OBVIOUS
<1>2. \A p \in Projects : ".." \notin DOMAIN Table(p, <<>>)
  BY DEF Table, Placeholders
<1> QED BY <1>1, <1>2 DEF expandTemplate

LEMMA BaseOrParent ==
  \A base \in {None, <<"${HOME}", "repos">>} :
    OrElse(base, <<"..">>)[1] # "${HOME}" => OrElse(base, <<"..">>) = <<"..">>
<1>1. <<"${HOME}", "repos">>[1] = "${HOME}"
  OBVIOUS
<1> QED BY <1>1 DEF OrElse

(* Without a placeholder in the base directory the scripts and the command *)
(* line find a project's repository in the same place.                     *)
LEMMA ReposAgree ==
  ASSUME NEW f \in FileType, OrElse(f.base, <<"..">>)[1] # "${HOME}", NEW p \in Projects
  PROVE  discoveredRepo(f, p) = contextRepo(f, p)
<1>1. f.base \in {None, <<"${HOME}", "repos">>}
  BY DEF FileType
<1>2. OrElse(f.base, <<"..">>) = <<"..">>
  BY <1>1, BaseOrParent
<1> QED BY <1>2, NoPlaceholder DEF discoveredRepo, contextRepo

(* A refresh of all projects, alone and without failure, leaves exactly    *)
(* the visible projects registered, where the command line has them.       *)
THEOREM RefreshesSettle == Spec => []RefreshSettles
<1>1. RegistrationInv => RefreshSettles
  <2> SUFFICES ASSUME RegistrationInv, NEW r \in Refreshes,
                      proc[r].pc = "done", proc[r].filter = None, proc[r].clean, proc[r].alone,
                      proc[r].write = file, \A s \in Refreshes : s > r => proc[s].pc = "idle",
                      NEW p \in Projects
               PROVE  IF p \notin Visible(file) THEN registry[p] = None
                      ELSE /\ registry[p] # None
                           /\ OrElse(file.base, <<"..">>)[1] # "${HOME}" =>
                                registry[p].root = contextRepo(file, p)
    BY DEF RefreshSettles
  <2>1. file \in FileType
    BY DEF RegistrationInv, TypeOK
  <2>2. Settling(r)
    BY <2>1, NoneIsNothing DEF RegistrationInv, SettlingInv, Settled, Sole
  <2> QED BY <2>1, <2>2, ReposAgree DEF Settling, Registered
<1> QED BY <1>1, RegistrationIsConsistent, PTL
=============================================================================
