---------------------------- MODULE GatewayDaemon ----------------------------
(***************************************************************************)
(* The daemon behind `gateway start` and `dashboard start` of one state    *)
(* root: a detached process that serves, and the file dashboard.pid that   *)
(* tells later commands about it.                                          *)
(*                                                                         *)
(* A command is one run of start or stop.  Commands may overlap: no lock   *)
(* is taken, the pid file is all they share.  A daemon that gets SIGTERM   *)
(* stops listening at once and ends when its open requests are answered.   *)
(* A process id is not given out twice.                                    *)
(***************************************************************************)
EXTENDS Naturals, FiniteSets

CONSTANTS Cmds,         \* the commands that may be running at once
          Options,      \* the option sets a daemon may be started with
          OnePort,      \* they all name one port (or else each another)
          MaxPid,       \* bound: the daemons that are ever spawned are 1..MaxPid
          MaxFaults     \* bound: failing calls, dying daemons and killed commands

ASSUME CmdsAndOptionsGiven == Cmds # {} /\ Options # {}
ASSUME OnePortIsBoolean == OnePort \in BOOLEAN
ASSUME BoundsAreNaturals == MaxPid \in Nat \ {0} /\ MaxFaults \in Nat

Pids == 1 .. MaxPid
NoPid == 0              \* no pid file, or one that cannot be parsed

VARIABLES daemon,       \* what each daemon does
          options,      \* the options each daemon was started with
          message,      \* what each daemon has told its parent over IPC
          pidFile,      \* the process id in dashboard.pid
          pc, cmd,      \* the step and the local variables of each command
          fate,         \* what became of each daemon's start
          calm,         \* commands ran one by one to their end, and a start
                        \* never met a daemon with other options
          faults

vars == <<daemon, options, message, pidFile, pc, cmd, fate, calm, faults>>

States == {"none", "starting", "serving", "closing", "dead"}
Locations == {"idle", "decide", "remove", "spawn", "await", "write", "fill",
              "signal", "poll", "unfile"}

Alive(p) == daemon[p] \in {"starting", "serving", "closing"}
Spawned == {p \in Pids : daemon[p] # "none"}
Quiet == \A c \in Cmds : pc[c] = "idle"

(* Whoever listens on the port keeps it until it gets a signal.            *)
PortFree == ~OnePort \/ \A p \in Pids : daemon[p] # "serving"

Init ==
  /\ daemon = [p \in Pids |-> "none"]
  /\ \E o \in Options :
       /\ options = [p \in Pids |-> o]
       /\ cmd = [c \in Cmds |-> [option |-> o, pid |-> NoPid]]
  /\ message = [p \in Pids |-> "none"]
  /\ pidFile = NoPid
  /\ pc = [c \in Cmds |-> "idle"]
  /\ fate = [p \in Pids |-> "none"]
  /\ calm = TRUE
  /\ faults = 0

Goto(c, l) == pc' = [pc EXCEPT ![c] = l]
Fault == faults < MaxFaults /\ faults' = faults + 1

(* What a SIGTERM does: the handler is installed once the daemon listens,  *)
(* and only for the first signal.                                          *)
Terminated(p) == IF daemon[p] = "serving" THEN "closing" ELSE "dead"
Terminate(p) == daemon' = [daemon EXCEPT ![p] = IF Alive(p) THEN Terminated(p) ELSE @]

-----------------------------------------------------------------------------
(* start                                                                   *)

(* The starts that have yet to spawn; so many process ids are left.        *)
Starting == {c \in Cmds : pc[c] \in {"decide", "remove", "spawn"}}

Start(c, o) ==
  /\ pc[c] = "idle"
  /\ Cardinality(Spawned) + Cardinality(Starting) < MaxPid
  /\ Goto(c, "decide")
  /\ cmd' = [cmd EXCEPT ![c] = [option |-> o, pid |-> NoPid]]
  /\ calm' = (calm /\ Quiet /\ \A p \in Pids : Alive(p) => options[p] = o)
  /\ UNCHANGED <<daemon, options, message, pidFile, fate, faults>>

(* shouldReuseDashboard                                                    *)
ShouldReuse(c) ==
  /\ pidFile # NoPid
  /\ options[pidFile] = cmd[c].option
  /\ Alive(pidFile)

Decide(c) ==
  /\ pc[c] = "decide"
  /\ Goto(c, IF ShouldReuse(c) THEN "idle" ELSE IF pidFile # NoPid THEN "remove" ELSE "spawn")
  /\ UNCHANGED <<daemon, options, message, pidFile, cmd, fate, calm, faults>>

(* "Stale pid? Clean it up before spawning": whatever is there by now.     *)
RemoveStale(c) ==
  /\ pc[c] = "remove"
  /\ pidFile' = NoPid
  /\ Goto(c, "spawn")
  /\ UNCHANGED <<daemon, options, message, cmd, fate, calm, faults>>

SpawnDaemon(c) ==
  LET p == Cardinality(Spawned) + 1
  IN  /\ pc[c] = "spawn"
      /\ daemon' = [daemon EXCEPT ![p] = "starting"]
      /\ options' = [options EXCEPT ![p] = cmd[c].option]
      /\ fate' = [fate EXCEPT ![p] = "awaited"]
      /\ cmd' = [cmd EXCEPT ![c].pid = p]
      /\ Goto(c, "await")
      /\ UNCHANGED <<message, pidFile, calm, faults>>

(* dashboard-ready; from here the parent no longer listens to the child.   *)
Ready(c) ==
  /\ pc[c] = "await"
  /\ message[cmd[c].pid] = "ready"
  /\ Goto(c, "write")
  /\ UNCHANGED <<daemon, options, message, pidFile, cmd, fate, calm, faults>>

(* dashboard-failed, or the child is gone                                  *)
Failed(c) ==
  /\ pc[c] = "await"
  /\ message[cmd[c].pid] = "failed" \/ ~Alive(cmd[c].pid)
  /\ message[cmd[c].pid] # "ready"
  /\ Terminate(cmd[c].pid)
  /\ fate' = [fate EXCEPT ![cmd[c].pid] = "abandoned"]
  /\ Goto(c, "idle")
  /\ UNCHANGED <<options, message, pidFile, cmd, calm, faults>>

(* Mutation of TimedOut: the child is left alone.                          *)
TimedOutQuietly(c) ==
  /\ pc[c] = "await"
  /\ fate' = [fate EXCEPT ![cmd[c].pid] = "abandoned"]
  /\ Goto(c, "idle")
  /\ UNCHANGED <<daemon, options, message, pidFile, cmd, calm, faults>>

(* Mutation of TimedOut: only a child that listens is given up.            *)
TimedOutServing(c) ==
  /\ pc[c] = "await"
  /\ daemon[cmd[c].pid] = "serving"
  /\ Terminate(cmd[c].pid)
  /\ fate' = [fate EXCEPT ![cmd[c].pid] = "abandoned"]
  /\ Goto(c, "idle")
  /\ UNCHANGED <<options, message, pidFile, cmd, calm, faults>>

(* No message within readyTimeoutMs, whatever is on its way.               *)
TimedOut(c) ==
  /\ pc[c] = "await"
  /\ Terminate(cmd[c].pid)
  /\ fate' = [fate EXCEPT ![cmd[c].pid] = "abandoned"]
  /\ Goto(c, "idle")
  /\ UNCHANGED <<options, message, pidFile, cmd, calm, faults>>

(* writeDashboardPid: writeFileSync empties the file ...                   *)
TruncatePidFile(c) ==
  /\ pc[c] = "write"
  /\ pidFile' = NoPid
  /\ Goto(c, "fill")
  /\ UNCHANGED <<daemon, options, message, cmd, fate, calm, faults>>

(* ... and fills it.                                                       *)
FillPidFile(c) ==
  /\ pc[c] = "fill"
  /\ pidFile' = cmd[c].pid
  /\ fate' = [fate EXCEPT ![cmd[c].pid] = "recorded"]
  /\ Goto(c, "idle")
  /\ UNCHANGED <<daemon, options, message, cmd, calm, faults>>

-----------------------------------------------------------------------------
(* stop                                                                    *)

Stop(c) ==
  /\ pc[c] = "idle"
  /\ calm' = (calm /\ Quiet)
  /\ IF pidFile = NoPid THEN UNCHANGED <<pc, cmd>>
     ELSE /\ Goto(c, IF Alive(pidFile) THEN "signal" ELSE "unfile")
          /\ cmd' = [cmd EXCEPT ![c].pid = pidFile]
  /\ UNCHANGED <<daemon, options, message, pidFile, fate, faults>>

Signal(c) ==
  /\ pc[c] = "signal"
  /\ Terminate(cmd[c].pid)
  /\ Goto(c, "poll")
  /\ UNCHANGED <<options, message, pidFile, cmd, fate, calm, faults>>

(* The poll finds the daemon gone ...                                      *)
Gone(c) ==
  /\ pc[c] = "poll"
  /\ ~Alive(cmd[c].pid)
  /\ Goto(c, "unfile")
  /\ UNCHANGED <<daemon, options, message, pidFile, cmd, fate, calm, faults>>

(* Mutation of HardKill: the file goes, the daemon may still be closing.   *)
GiveUp(c) ==
  /\ pc[c] = "poll"
  /\ Goto(c, "idle")
  /\ UNCHANGED <<daemon, options, message, pidFile, cmd, fate, calm, faults>>

(* ... or graceMs has passed: SIGKILL.                                     *)
HardKill(c) ==
  /\ pc[c] = "poll"
  /\ daemon' = [daemon EXCEPT ![cmd[c].pid] = "dead"]
  /\ Goto(c, "unfile")
  /\ UNCHANGED <<options, message, pidFile, cmd, fate, calm, faults>>

(* removeDashboardPid: whatever is there by now                            *)
RemovePidFile(c) ==
  /\ pc[c] = "unfile"
  /\ pidFile' = NoPid
  /\ Goto(c, "idle")
  /\ UNCHANGED <<daemon, options, message, cmd, fate, calm, faults>>

-----------------------------------------------------------------------------
(* Daemons                                                                 *)

(* runDashboardServer: it listens and says so, or cannot and exits.        *)
Listen(p) ==
  /\ daemon[p] = "starting"
  /\ daemon' = [daemon EXCEPT ![p] = IF PortFree THEN "serving" ELSE "dead"]
  /\ message' = [message EXCEPT ![p] = IF PortFree THEN "ready" ELSE "failed"]
  /\ UNCHANGED <<options, pidFile, pc, cmd, fate, calm, faults>>

(* The last open request of a closing daemon is answered.                  *)
Drain(p) ==
  /\ daemon[p] = "closing"
  /\ daemon' = [daemon EXCEPT ![p] = "dead"]
  /\ UNCHANGED <<options, message, pidFile, pc, cmd, fate, calm, faults>>

Die(p) ==
  /\ Alive(p)
  /\ Fault
  /\ daemon' = [daemon EXCEPT ![p] = "dead"]
  /\ UNCHANGED <<options, message, pidFile, pc, cmd, fate, calm>>

-----------------------------------------------------------------------------
(* What goes wrong with a command                                          *)

(* mkdir, open or spawn fails: there is no child.                          *)
FailSpawn(c) ==
  /\ pc[c] = "spawn"
  /\ Fault
  /\ Goto(c, "idle")
  /\ UNCHANGED <<daemon, options, message, pidFile, cmd, fate, calm>>

(* The pid file cannot be written: start fails, its daemon serves on.      *)
FailWrite(c) ==
  /\ pc[c] \in {"write", "fill"}
  /\ Fault
  /\ fate' = [fate EXCEPT ![cmd[c].pid] = "lost"]
  /\ Goto(c, "idle")
  /\ calm' = FALSE
  /\ UNCHANGED <<daemon, options, message, pidFile, cmd>>

(* The command is killed; the detached child is not.                       *)
Kill(c) ==
  /\ pc[c] # "idle"
  /\ Fault
  /\ fate' = IF pc[c] \in {"await", "write", "fill"}
             THEN [fate EXCEPT ![cmd[c].pid] = "lost"] ELSE fate
  /\ Goto(c, "idle")
  /\ calm' = FALSE
  /\ UNCHANGED <<daemon, options, message, pidFile, cmd>>

Proceed(c) ==
  \/ Decide(c) \/ RemoveStale(c) \/ SpawnDaemon(c) \/ Ready(c) \/ Failed(c) \/ TimedOut(c)
  \/ TruncatePidFile(c) \/ FillPidFile(c)
  \/ Signal(c) \/ Gone(c) \/ HardKill(c) \/ RemovePidFile(c)

Command(c) == (\E o \in Options : Start(c, o)) \/ Stop(c)

Next ==
  \/ \E c \in Cmds : Command(c) \/ Proceed(c) \/ FailSpawn(c) \/ FailWrite(c) \/ Kill(c)
  \/ \E p \in Pids : Listen(p) \/ Drain(p) \/ Die(p)

(* A command that runs goes on: its timers fire.  A daemon may hang.       *)
Spec == Init /\ [][Next]_vars /\ \A c \in Cmds : WF_vars(Proceed(c))

-----------------------------------------------------------------------------
(* Properties.                                                             *)

TypeOK ==
  /\ daemon \in [Pids -> States]
  /\ options \in [Pids -> Options]
  /\ message \in [Pids -> {"none", "ready", "failed"}]
  /\ pidFile \in Pids \cup {NoPid}
  /\ pc \in [Cmds -> Locations]
  /\ cmd \in [Cmds -> [option : Options, pid : Pids \cup {NoPid}]]
  /\ fate \in [Pids -> {"none", "awaited", "recorded", "abandoned", "lost"}]
  /\ calm \in BOOLEAN
  /\ faults \in 0 .. MaxFaults

(* For an operator who does not overlap commands, and types other options  *)
(* only when nothing runs, the pid file tells the truth between commands:  *)
(* whatever daemon starts or serves is the one in the file, and the one in *)
(* the file serves or is dead, so that a start that reuses it does not hand*)
(* out the URL of one that is closing or has yet to listen.                *)
PidFileIsTrue ==
  calm /\ Quiet =>
    /\ \A p \in Pids : daemon[p] \in {"starting", "serving"} => pidFile = p
    /\ pidFile # NoPid => daemon[pidFile] \in {"serving", "dead"}

(* A start that gives up on its child (failure, early exit, timeout) does  *)
(* not leave it serving, however commands overlap and messages are late.   *)
AbandonedNotServing ==
  \A p \in Pids : fate[p] = "abandoned" => daemon[p] \in {"closing", "dead"}

(* A start or a stop comes to an end although daemons may hang.            *)
CommandsEnd == \A c \in Cmds : pc[c] # "idle" ~> pc[c] = "idle"

(* "Ensures one running gateway daemon per project (keyed by stateRoot)"   *)
OneDaemon == Cardinality({p \in Pids : daemon[p] = "serving"}) <= 1

-----------------------------------------------------------------------------
(* Why these hold.  Process ids are given out in order, to starts that have*)
(* one left, so that a start's child is nobody else's and silent at first; *)
(* whatever pid is on file or in a command's hand has been given out.      *)
PidsInOrder ==
  /\ \E n \in 0 .. MaxPid : Spawned = 1 .. n
  /\ IsFiniteSet(Starting)
  /\ Cardinality(Spawned) + Cardinality(Starting) <= MaxPid
  /\ \A p \in Pids : daemon[p] \in {"none", "starting"} => message[p] = "none"
  /\ pidFile \in Spawned \cup {NoPid}
  /\ \A c \in Cmds :
       pc[c] \in {"await", "write", "fill", "signal", "poll"} => cmd[c].pid \in Spawned

(* In calm, one command runs, and it knows of every daemon that is up:     *)
(* between commands the pid file names it, a start has removed the file    *)
(* only when none was left, and a stop leaves when its own is closing.     *)
Up(p) == daemon[p] \in {"starting", "serving"}
NoneUp == \A p \in Pids : ~Up(p)
AtRest ==
  /\ \A p \in Pids : Up(p) => pidFile = p
  /\ pidFile # NoPid => daemon[pidFile] \in {"serving", "dead"}

InCharge(c) ==
  /\ pc[c] = "decide" => AtRest /\ \A p \in Pids : Alive(p) => options[p] = cmd[c].option
  /\ pc[c] \in {"remove", "spawn", "poll", "unfile"} => NoneUp
  /\ pc[c] \in {"spawn", "await", "write", "fill"} => pidFile = NoPid
  /\ pc[c] \in {"await", "write", "fill"} => \A p \in Pids : Up(p) => p = cmd[c].pid
  /\ pc[c] \in {"write", "fill"} \/ (pc[c] = "await" /\ message[cmd[c].pid] = "ready") =>
       daemon[cmd[c].pid] \in {"serving", "dead"}
  /\ pc[c] = "signal" => AtRest /\ pidFile = cmd[c].pid

CalmInv ==
  calm =>
    /\ Quiet => AtRest
    /\ \A c, d \in Cmds : pc[c] # "idle" /\ pc[d] # "idle" => c = d
    /\ \A c \in Cmds : InCharge(c)

DaemonInv == PidsInOrder /\ AbandonedNotServing /\ CalmInv
=============================================================================
