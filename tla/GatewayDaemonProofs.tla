------------------------- MODULE GatewayDaemonProofs -------------------------
(***************************************************************************)
(* Proofs about GatewayDaemon, for every set of commands and of options,   *)
(* with one port or many, and for any number of daemons and of faults; and *)
(* about Launch, for command lines of any length, any number of mappers    *)
(* and of batches, and numbers as large as the budgets need.               *)
(***************************************************************************)
EXTENDS GatewayDaemon, Launch, FiniteSetTheorems, SequenceTheorems, WellFoundedInduction, TLAPS

-----------------------------------------------------------------------------
(* Process ids.                                                            *)

(* A start that comes to spawn gets the next process id, which is new.     *)
LEMMA NextPid ==
  ASSUME TypeOK, PidsInOrder, NEW c \in Starting
  PROVE  LET p == Cardinality(Spawned) + 1
         IN  p \in Pids /\ daemon[p] = "none" /\ Spawned = 1 .. (p - 1)
<1>1. PICK n \in 0 .. MaxPid : Spawned = 1 .. n
  BY DEF PidsInOrder
<1>2. Cardinality(Spawned) = n
  BY <1>1, FS_Interval, BoundsAreNaturals
<1>3. Cardinality(Starting) \in Nat /\ Cardinality(Starting) # 0
  BY FS_CardinalityType, FS_EmptySet, Zenon DEF PidsInOrder
<1>4. n + 1 \in Pids
  BY <1>2, <1>3, BoundsAreNaturals DEF PidsInOrder, Pids
<1>5. n + 1 \notin Spawned
  BY <1>1
<1>6. daemon[n + 1] = "none"
  BY <1>4, <1>5 DEF Spawned
<1>7. (n + 1) - 1 = n
  OBVIOUS
<1> QED BY <1>1, <1>2, <1>4, <1>6, <1>7, Zenon

(* A child that is spawned makes the process ids in use one more.          *)
LEMMA SpawnedGrows ==
  ASSUME TypeOK, PidsInOrder, NEW c \in Cmds, SpawnDaemon(c)
  PROVE  LET p == Cardinality(Spawned) + 1
         IN  /\ p \in Pids /\ daemon[p] = "none"
             /\ Spawned = 1 .. (p - 1) /\ Spawned' = 1 .. p
             /\ daemon' = [daemon EXCEPT ![p] = "starting"]
<1> DEFINE p == Cardinality(Spawned) + 1
<1>1. p \in Pids /\ daemon[p] = "none" /\ Spawned = 1 .. (p - 1)
  BY NextPid DEF SpawnDaemon, Starting
<1>2. daemon' = [daemon EXCEPT ![p] = "starting"]
  BY DEF SpawnDaemon
<1>3. Spawned' = Spawned \cup {p}
  <2> HIDE DEF p
  <2> QED BY <1>1, <1>2 DEF Spawned, TypeOK
<1>4. (1 .. (p - 1)) \cup {p} = 1 .. p
  <2> HIDE DEF p
  <2> QED BY <1>1, BoundsAreNaturals DEF Pids
<1> QED BY <1>1, <1>2, <1>3, <1>4

-----------------------------------------------------------------------------
(* Type correctness.                                                       *)

LEMMA InitType == Init => TypeOK
BY BoundsAreNaturals DEF Init, TypeOK, States, Locations, NoPid

LEMMA NextType == TypeOK /\ PidsInOrder /\ [Next]_vars => TypeOK'
<1> SUFFICES ASSUME TypeOK, PidsInOrder, [Next]_vars PROVE TypeOK'
  OBVIOUS
<1> USE BoundsAreNaturals DEF TypeOK, States, Locations, NoPid, Goto
<1>0. CASE UNCHANGED vars
  BY <1>0 DEF vars
<1>1. ASSUME NEW c \in Cmds, NEW o \in Options, Start(c, o) PROVE TypeOK'
  <2>1. cmd' = [cmd EXCEPT ![c] = [option |-> o, pid |-> NoPid]]
    BY <1>1 DEF Start
  <2>2. calm' \in BOOLEAN
    BY <1>1, Zenon DEF Start
  <2> QED BY <1>1, <2>1, <2>2 DEF Start
<1>2. ASSUME NEW c \in Cmds, Stop(c) PROVE TypeOK'
  <2>1. calm' \in BOOLEAN
    BY <1>2, Zenon DEF Stop
  <2> QED BY <1>2, <2>1 DEF Stop
<1>3. ASSUME NEW c \in Cmds, Decide(c) \/ RemoveStale(c) \/ Ready(c) \/ TruncatePidFile(c)
                             \/ Gone(c) \/ RemovePidFile(c)
      PROVE  TypeOK'
  BY <1>3 DEF Decide, RemoveStale, Ready, TruncatePidFile, Gone, RemovePidFile
<1>4. ASSUME NEW c \in Cmds, SpawnDaemon(c) PROVE TypeOK'
  <2> DEFINE p == Cardinality(Spawned) + 1
  <2>1. p \in Pids
    BY <1>4, SpawnedGrows
  <2>2. cmd' = [cmd EXCEPT ![c].pid = p] /\ UNCHANGED <<message, pidFile, calm, faults>>
        /\ daemon' = [daemon EXCEPT ![p] = "starting"]
        /\ options' = [options EXCEPT ![p] = cmd[c].option]
        /\ fate' = [fate EXCEPT ![p] = "awaited"] /\ pc' = [pc EXCEPT ![c] = "await"]
    BY <1>4 DEF SpawnDaemon
  <2> HIDE DEF p
  <2> QED BY <2>1, <2>2
<1>5. ASSUME NEW c \in Cmds, Failed(c) \/ TimedOut(c) \/ Signal(c) \/ HardKill(c)
      PROVE  TypeOK'
  BY <1>5, SMTT(40) DEF Failed, TimedOut, Signal, HardKill, Terminate, Terminated
<1>6. ASSUME NEW c \in Cmds, FillPidFile(c) PROVE TypeOK'
  <2>1. cmd[c].pid \in Pids
    BY <1>6 DEF PidsInOrder, FillPidFile, Spawned
  <2> QED BY <1>6, <2>1 DEF FillPidFile
<1>7. ASSUME NEW c \in Cmds, FailSpawn(c) \/ FailWrite(c) \/ Kill(c) PROVE TypeOK'
  <2>1. faults' \in 0 .. MaxFaults
    BY <1>7 DEF FailSpawn, FailWrite, Kill, Fault
  <2>2. fate' = fate \/ fate' = [fate EXCEPT ![cmd[c].pid] = "lost"]
    BY <1>7, Zenon DEF FailSpawn, FailWrite, Kill
  <2>3. calm' \in BOOLEAN /\ UNCHANGED <<daemon, options, message, pidFile, cmd>>
        /\ pc' = [pc EXCEPT ![c] = "idle"]
    BY <1>7 DEF FailSpawn, FailWrite, Kill
  <2> QED BY <2>1, <2>2, <2>3
<1>8. ASSUME NEW p \in Pids, Listen(p) \/ Drain(p) \/ Die(p) PROVE TypeOK'
  BY <1>8 DEF Listen, Drain, Die, Fault
<1> QED BY <1>0, <1>1, <1>2, <1>3, <1>4, <1>5, <1>6, <1>7, <1>8, Zenon
        DEF Next, Command, Proceed

-----------------------------------------------------------------------------
(* Process ids are given out in order.                                     *)

LEMMA InitOrder == Init => PidsInOrder
<1> SUFFICES ASSUME Init PROVE PidsInOrder
  OBVIOUS
<1>1. Spawned = {} /\ Starting = {}
  BY DEF Init, Spawned, Starting
<1>2. Spawned = 1 .. 0 /\ 0 \in 0 .. MaxPid
  BY <1>1, BoundsAreNaturals
<1>3. IsFiniteSet(Starting) /\ Cardinality(Spawned) + Cardinality(Starting) <= MaxPid
  BY <1>1, FS_EmptySet, BoundsAreNaturals
<1>4. \A p \in Pids : message[p] = "none"
  BY DEF Init
<1>5. pidFile = NoPid /\ \A c \in Cmds : pc[c] = "idle"
  BY DEF Init
<1> QED BY <1>2, <1>3, <1>4, <1>5 DEF PidsInOrder

(* A step that spawns nothing and starts nothing keeps the order, if it    *)
(* keeps track of the process ids in hand.                                 *)
LEMMA OrderKept ==
  ASSUME TypeOK, PidsInOrder, Spawned' = Spawned, Starting' \subseteq Starting,
         \A p \in Pids : daemon'[p] \in {"none", "starting"} => message'[p] = "none",
         pidFile' \in Spawned \cup {NoPid},
         \A c \in Cmds : pc'[c] \in {"await", "write", "fill", "signal", "poll"} =>
                             cmd'[c].pid \in Spawned
  PROVE  PidsInOrder'
<1>1. IsFiniteSet(Starting') /\ Cardinality(Starting') <= Cardinality(Starting)
  BY FS_Subset, Zenon DEF PidsInOrder
<1>2. /\ Cardinality(Starting) \in Nat /\ Cardinality(Starting') \in Nat
      /\ Cardinality(Spawned) \in Nat
  <2>1. IsFiniteSet(Spawned)
    BY FS_Interval, BoundsAreNaturals DEF PidsInOrder
  <2> QED BY <1>1, <2>1, FS_CardinalityType, Zenon DEF PidsInOrder
<1>3. Cardinality(Spawned') + Cardinality(Starting') <= MaxPid
  BY <1>1, <1>2, BoundsAreNaturals DEF PidsInOrder
<1> QED BY <1>1, <1>3 DEF PidsInOrder

LEMMA NextOrder == TypeOK /\ PidsInOrder /\ [Next]_vars => PidsInOrder'
<1> SUFFICES ASSUME TypeOK, PidsInOrder, [Next]_vars PROVE PidsInOrder'
  OBVIOUS
<1> USE DEF Goto
<1>0. CASE UNCHANGED vars
  <2>1. Spawned' = Spawned /\ Starting' = Starting
    BY <1>0 DEF vars, Spawned, Starting
  <2> QED BY <1>0, <2>1 DEF vars, PidsInOrder
<1>1. ASSUME NEW c \in Cmds, NEW o \in Options, Start(c, o) PROVE PidsInOrder'
  <2>1. Spawned' = Spawned /\ Starting' = Starting \cup {c}
    BY <1>1 DEF Start, Spawned, Starting, TypeOK
  <2>2. IsFiniteSet(Starting') /\ Cardinality(Starting') <= Cardinality(Starting) + 1
    <3>1. Cardinality(Starting) \in Nat
      BY FS_CardinalityType, Zenon DEF PidsInOrder
    <3>2. /\ IsFiniteSet(Starting')
          /\ Cardinality(Starting') = IF c \in Starting THEN Cardinality(Starting)
                                      ELSE Cardinality(Starting) + 1
      BY <2>1, FS_AddElement, Zenon DEF PidsInOrder
    <3> QED BY <3>1, <3>2
  <2>3. /\ Cardinality(Starting) \in Nat /\ Cardinality(Starting') \in Nat
        /\ Cardinality(Spawned) \in Nat
    <3>1. IsFiniteSet(Spawned)
      BY FS_Interval, BoundsAreNaturals DEF PidsInOrder
    <3> QED BY <2>2, <3>1, FS_CardinalityType, Zenon DEF PidsInOrder
  <2>4. Cardinality(Spawned') + Cardinality(Starting') <= MaxPid
    BY <1>1, <2>1, <2>2, <2>3, BoundsAreNaturals DEF Start
  <2>5. \A d \in Cmds : pc'[d] \in {"await", "write", "fill", "signal", "poll"} =>
                             cmd'[d].pid \in Spawned
    BY <1>1 DEF Start, PidsInOrder, TypeOK
  <2>6. UNCHANGED <<daemon, message, pidFile>>
    BY <1>1 DEF Start
  <2> QED BY <2>1, <2>2, <2>4, <2>5, <2>6 DEF PidsInOrder
<1>2. ASSUME NEW c \in Cmds, SpawnDaemon(c) PROVE PidsInOrder'
  <2> DEFINE p == Cardinality(Spawned) + 1
  <2>1. /\ p \in Pids /\ daemon[p] = "none" /\ Spawned = 1 .. (p - 1)
        /\ Spawned' = 1 .. p /\ daemon' = [daemon EXCEPT ![p] = "starting"]
    BY <1>2, SpawnedGrows
  <2>2. /\ pc[c] = "spawn" /\ pc' = [pc EXCEPT ![c] = "await"]
        /\ cmd' = [cmd EXCEPT ![c].pid = p] /\ UNCHANGED <<message, pidFile>>
    BY <1>2 DEF SpawnDaemon
  <2>3. Cardinality(Spawned) + Cardinality(Starting) <= MaxPid
    BY DEF PidsInOrder
  <2>4. Starting' = Starting \ {c} /\ c \in Starting
    BY <2>2 DEF Starting, TypeOK
  <2>5. /\ Cardinality(Starting) \in Nat /\ IsFiniteSet(Starting')
        /\ Cardinality(Starting') = Cardinality(Starting) - 1
    BY <2>4, FS_RemoveElement, FS_CardinalityType, Zenon DEF PidsInOrder
  <2> HIDE DEF p
  <2>6. Cardinality(Spawned') = p /\ Cardinality(Spawned) = p - 1
    BY <2>1, FS_Interval, BoundsAreNaturals DEF Pids
  <2>7. Cardinality(Spawned') + Cardinality(Starting') <= MaxPid
    BY <2>1, <2>3, <2>5, <2>6, BoundsAreNaturals DEF Pids
  <2>8. Spawned \subseteq Spawned' /\ p \in Spawned'
    BY <2>1, BoundsAreNaturals DEF Pids
  <2>9. \A d \in Cmds : pc'[d] \in {"await", "write", "fill", "signal", "poll"} =>
                             cmd'[d].pid \in Spawned'
    BY <2>2, <2>8 DEF PidsInOrder, TypeOK
  <2>10. \A q \in Pids : daemon'[q] \in {"none", "starting"} => message'[q] = "none"
    BY <2>1, <2>2 DEF PidsInOrder, TypeOK
  <2>11. pidFile' \in Spawned' \cup {NoPid}
    BY <2>2, <2>8 DEF PidsInOrder
  <2>12. p \in 0 .. MaxPid
    BY <2>1, BoundsAreNaturals DEF Pids
  <2> QED BY <2>1, <2>5, <2>7, <2>9, <2>10, <2>11, <2>12 DEF PidsInOrder
<1>3. ASSUME NEW c \in Cmds, Stop(c) \/ Decide(c) \/ RemoveStale(c) \/ Ready(c) \/ TruncatePidFile(c)
                             \/ FillPidFile(c) \/ Gone(c) \/ RemovePidFile(c)
                             \/ FailSpawn(c) \/ FailWrite(c) \/ Kill(c)
      PROVE  PidsInOrder'
  <2> USE <1>3 DEF Stop, Decide, RemoveStale, Ready, TruncatePidFile, FillPidFile, Gone,
                   RemovePidFile, FailSpawn, FailWrite, Kill
  <2>1. Spawned' = Spawned /\ UNCHANGED <<daemon, message>>
    BY DEF Spawned
  <2>2. Starting' \subseteq Starting
    BY DEF Starting, TypeOK
  <2>3. pidFile' \in Spawned \cup {NoPid}
    BY DEF PidsInOrder, Alive
  <2>4. \A d \in Cmds : pc'[d] \in {"await", "write", "fill", "signal", "poll"} =>
                             cmd'[d].pid \in Spawned
    BY DEF PidsInOrder, TypeOK
  <2> QED BY <2>1, <2>2, <2>3, <2>4, OrderKept DEF PidsInOrder
<1>4. ASSUME NEW c \in Cmds, Failed(c) \/ TimedOut(c) \/ Signal(c) \/ HardKill(c)
      PROVE  PidsInOrder'
  <2> USE <1>4 DEF Failed, TimedOut, Signal, HardKill
  <2>0. cmd[c].pid \in Pids /\ daemon[cmd[c].pid] # "none"
    BY DEF PidsInOrder, Spawned
  <2>1. \E s \in {"closing", "dead"} : daemon' = [daemon EXCEPT ![cmd[c].pid] = s]
    BY <2>0 DEF Terminate, Terminated, Alive, TypeOK, States
  <2>2. Spawned' = Spawned
    BY <2>0, <2>1 DEF Spawned, TypeOK
  <2>3. Starting' \subseteq Starting
    BY DEF Starting, TypeOK
  <2>4. \A d \in Cmds : pc'[d] \in {"await", "write", "fill", "signal", "poll"} =>
                             cmd'[d].pid \in Spawned
    BY DEF PidsInOrder, TypeOK
  <2>5. UNCHANGED <<message, pidFile>>
    OBVIOUS
  <2>6. \A p \in Pids : daemon'[p] \in {"none", "starting"} => message'[p] = "none"
    BY <2>1, <2>5 DEF PidsInOrder, TypeOK
  <2>7. pidFile' \in Spawned \cup {NoPid}
    BY <2>5 DEF PidsInOrder
  <2> QED BY <2>2, <2>3, <2>4, <2>6, <2>7, OrderKept
<1>5. ASSUME NEW p \in Pids, Listen(p) \/ Drain(p) \/ Die(p) PROVE PidsInOrder'
  <2> USE <1>5 DEF Listen, Drain, Die
  <2>1. Spawned' = Spawned
    BY DEF Spawned, TypeOK, Alive
  <2>2. Starting' = Starting /\ UNCHANGED <<pidFile, pc, cmd>>
    BY DEF Starting
  <2>3. \A q \in Pids : daemon'[q] \in {"none", "starting"} => message'[q] = "none"
    BY DEF PidsInOrder, TypeOK
  <2> QED BY <2>1, <2>2, <2>3, OrderKept DEF PidsInOrder
<1> QED BY <1>0, <1>1, <1>2, <1>3, <1>4, <1>5, Zenon DEF Next, Command, Proceed

-----------------------------------------------------------------------------
(* A start that gave up has ended its child.                               *)

LEMMA NextAbandoned ==
  TypeOK /\ PidsInOrder /\ AbandonedNotServing /\ [Next]_vars => AbandonedNotServing'
<1> SUFFICES ASSUME TypeOK, PidsInOrder, AbandonedNotServing, [Next]_vars
             PROVE  AbandonedNotServing'
  OBVIOUS
<1> USE DEF AbandonedNotServing
<1>0. CASE UNCHANGED vars
  BY <1>0 DEF vars
<1>1. ASSUME NEW c \in Cmds, NEW o \in Options, Start(c, o) PROVE AbandonedNotServing'
  BY <1>1 DEF Start
<1>2. ASSUME NEW c \in Cmds, SpawnDaemon(c) PROVE AbandonedNotServing'
  <2> DEFINE p == Cardinality(Spawned) + 1
  <2>1. p \in Pids /\ daemon' = [daemon EXCEPT ![p] = "starting"]
    BY <1>2, SpawnedGrows
  <2>2. fate' = [fate EXCEPT ![p] = "awaited"]
    BY <1>2 DEF SpawnDaemon
  <2> HIDE DEF p
  <2> QED BY <2>1, <2>2 DEF TypeOK
<1>3. ASSUME NEW c \in Cmds, Stop(c) \/ Decide(c) \/ RemoveStale(c) \/ Ready(c) \/ TruncatePidFile(c)
                             \/ FillPidFile(c) \/ Gone(c) \/ RemovePidFile(c)
                             \/ FailSpawn(c) \/ FailWrite(c) \/ Kill(c)
      PROVE  AbandonedNotServing'
  <2> USE <1>3 DEF Stop, Decide, RemoveStale, Ready, TruncatePidFile, FillPidFile, Gone,
                   RemovePidFile, FailSpawn, FailWrite, Kill
  <2>1. daemon' = daemon
    OBVIOUS
  <2>2. \A p \in Pids : fate'[p] = "abandoned" => fate[p] = "abandoned"
    BY DEF TypeOK
  <2> QED BY <2>1, <2>2, Zenon
<1>4. ASSUME NEW c \in Cmds, Failed(c) \/ TimedOut(c) \/ Signal(c) \/ HardKill(c)
      PROVE  AbandonedNotServing'
  <2> DEFINE p == cmd[c].pid
  <2>1. p \in Pids /\ daemon[p] \in States \ {"none"}
    BY <1>4 DEF Failed, TimedOut, Signal, HardKill, PidsInOrder, Spawned, TypeOK
  <2>2. \E s \in {"closing", "dead"} : daemon' = [daemon EXCEPT ![p] = s]
    BY <1>4, <2>1 DEF Failed, TimedOut, Signal, HardKill, Terminate, Terminated, Alive, States, TypeOK
  <2>3. fate' = fate \/ fate' = [fate EXCEPT ![p] = "abandoned"]
    BY <1>4, Zenon DEF Failed, TimedOut, Signal, HardKill
  <2> QED BY <2>1, <2>2, <2>3 DEF TypeOK
<1>5. ASSUME NEW p \in Pids, Listen(p) \/ Drain(p) \/ Die(p) PROVE AbandonedNotServing'
  BY <1>5 DEF Listen, Drain, Die, Alive, TypeOK
<1> QED BY <1>0, <1>1, <1>2, <1>3, <1>4, <1>5, Zenon DEF Next, Command, Proceed

-----------------------------------------------------------------------------
(* In calm, one command runs and knows of every daemon that is up.         *)

(* A command on its own that takes a step has to answer for that only.     *)
LEMMA AloneSuffices ==
  ASSUME TypeOK, NEW c \in Cmds, NEW l \in Locations,
         \A d \in Cmds \ {c} : pc[d] = "idle", pc' = [pc EXCEPT ![c] = l],
         l = "idle" => AtRest', l # "idle" => InCharge(c)'
  PROVE  CalmInv'
<1>1. pc'[c] = l /\ \A d \in Cmds \ {c} : pc'[d] = "idle"
  BY DEF TypeOK
<1>2. Quiet' => AtRest'
  BY <1>1, Zenon DEF Quiet
<1>3. \A d, e \in Cmds : pc'[d] # "idle" /\ pc'[e] # "idle" => d = e
  BY <1>1
<1>4. \A d \in Cmds : pc'[d] = "idle" => InCharge(d)'
  BY DEF InCharge
<1>5. \A d \in Cmds : InCharge(d)'
  BY <1>1, <1>4, Zenon
<1> QED BY <1>2, <1>3, <1>5, Zenon DEF CalmInv

LEMMA NextCalm ==
  TypeOK /\ PidsInOrder /\ CalmInv /\ [Next]_vars => CalmInv'
<1> SUFFICES ASSUME TypeOK, PidsInOrder, CalmInv, [Next]_vars, calm'
             PROVE  CalmInv'
  BY Zenon DEF CalmInv
<1> USE DEF Goto
<1>0. CASE UNCHANGED vars
  <2>1. Quiet' = Quiet /\ AtRest' = AtRest /\ \A c \in Cmds : InCharge(c)' = InCharge(c)
    BY <1>0 DEF vars, Quiet, AtRest, InCharge, Up, NoneUp, Alive
  <2> QED BY <1>0, <2>1 DEF vars, CalmInv
(* A command that runs in calm is alone and in charge.                     *)
<1>a. ASSUME NEW c \in Cmds, pc[c] # "idle", calm
      PROVE  InCharge(c) /\ \A d \in Cmds \ {c} : pc[d] = "idle"
  BY <1>a, Zenon DEF CalmInv
<1>1. ASSUME NEW c \in Cmds, NEW o \in Options, Start(c, o) PROVE CalmInv'
  <2>1. calm /\ Quiet /\ \A p \in Pids : Alive(p) => options[p] = o
    BY <1>1, Zenon DEF Start
  <2>2. AtRest
    BY <2>1, Zenon DEF CalmInv
  <2>3. pc' = [pc EXCEPT ![c] = "decide"] /\ UNCHANGED <<daemon, options, pidFile>>
    BY <1>1 DEF Start
  <2>4. AtRest'
    BY <2>2, <2>3 DEF AtRest, Up
  <2>5. cmd'[c].option = o
    BY <1>1 DEF Start, TypeOK
  <2>6. \A p \in Pids : Alive(p)' => options'[p] = cmd'[c].option
    BY <2>1, <2>3, <2>5 DEF Alive
  <2>7. InCharge(c)'
    BY <2>3, <2>4, <2>6 DEF InCharge, TypeOK
  <2> QED BY <2>1, <2>3, <2>7, AloneSuffices DEF Quiet, Locations
<1>2. ASSUME NEW c \in Cmds, Stop(c) PROVE CalmInv'
  <2>1. calm /\ Quiet /\ pc[c] = "idle"
    BY <1>2, Zenon DEF Stop
  <2>2. AtRest
    BY <2>1, Zenon DEF CalmInv
  <2>3. UNCHANGED <<daemon, options, message, pidFile>>
    BY <1>2 DEF Stop
  <2>4. AtRest'
    BY <2>2, <2>3 DEF AtRest, Up
  <2>5. CASE pidFile = NoPid
    <3>1. pc' = [pc EXCEPT ![c] = "idle"]
      BY <1>2, <2>1, <2>5 DEF Stop, TypeOK
    <3> QED BY <2>1, <2>4, <3>1, AloneSuffices DEF Quiet, Locations
  <2>6. CASE pidFile # NoPid
    <3>1. cmd'[c].pid = pidFile
      BY <1>2, <2>6 DEF Stop, TypeOK
    <3>2. CASE Alive(pidFile)
      <4>1. pc' = [pc EXCEPT ![c] = "signal"]
        BY <1>2, <2>6, <3>2 DEF Stop
      <4>2. InCharge(c)'
        BY <2>3, <2>4, <3>1, <4>1 DEF InCharge, TypeOK
      <4> QED BY <2>1, <4>1, <4>2, AloneSuffices DEF Quiet, Locations
    <3>3. CASE ~Alive(pidFile)
      <4>1. pc' = [pc EXCEPT ![c] = "unfile"]
        BY <1>2, <2>6, <3>3 DEF Stop
      <4>2. NoneUp'
        BY <2>2, <2>3, <3>3 DEF NoneUp, AtRest, Up, Alive
      <4>3. InCharge(c)'
        BY <4>1, <4>2 DEF InCharge, TypeOK
      <4> QED BY <2>1, <4>1, <4>3, AloneSuffices DEF Quiet, Locations
    <3> QED BY <3>2, <3>3
  <2> QED BY <2>5, <2>6
<1>3. ASSUME NEW c \in Cmds, Decide(c) PROVE CalmInv'
  <2>1. pc[c] = "decide" /\ calm
    BY <1>3 DEF Decide
  <2>2. AtRest /\ \A p \in Pids : Alive(p) => options[p] = cmd[c].option
    BY <1>a, <2>1 DEF InCharge
  <2>3. UNCHANGED <<daemon, options, message, pidFile, cmd>>
    BY <1>3 DEF Decide
  <2>4. AtRest'
    BY <2>2, <2>3 DEF AtRest, Up
  <2>5. CASE ShouldReuse(c)
    <3>1. pc' = [pc EXCEPT ![c] = "idle"]
      BY <1>3, <2>5 DEF Decide
    <3> QED BY <1>a, <2>1, <2>4, <3>1, AloneSuffices DEF Locations
  <2>6. CASE ~ShouldReuse(c)
    <3>1. NoneUp'
      BY <2>2, <2>3, <2>6 DEF NoneUp, AtRest, Up, Alive, ShouldReuse, NoPid, Pids
    <3>2. CASE pidFile # NoPid
      <4>1. pc' = [pc EXCEPT ![c] = "remove"]
        BY <1>3, <2>6, <3>2 DEF Decide
      <4>2. InCharge(c)'
        BY <3>1, <4>1 DEF InCharge, TypeOK
      <4> QED BY <1>a, <2>1, <4>1, <4>2, AloneSuffices DEF Locations
    <3>3. CASE pidFile = NoPid
      <4>1. pc' = [pc EXCEPT ![c] = "spawn"]
        BY <1>3, <2>6, <3>3 DEF Decide
      <4>2. InCharge(c)'
        BY <2>3, <3>1, <3>3, <4>1 DEF InCharge, TypeOK
      <4> QED BY <1>a, <2>1, <4>1, <4>2, AloneSuffices DEF Locations
    <3> QED BY <3>2, <3>3
  <2> QED BY <2>5, <2>6
<1>4. ASSUME NEW c \in Cmds, RemoveStale(c) PROVE CalmInv'
  <2>1. pc[c] = "remove" /\ calm /\ pidFile' = NoPid
        /\ pc' = [pc EXCEPT ![c] = "spawn"] /\ daemon' = daemon
    BY <1>4 DEF RemoveStale
  <2>2. NoneUp'
    BY <1>a, <2>1 DEF InCharge, NoneUp, Up
  <2>3. InCharge(c)'
    BY <2>1, <2>2 DEF InCharge, TypeOK
  <2> QED BY <1>a, <2>1, <2>3, AloneSuffices DEF Locations
<1>5. ASSUME NEW c \in Cmds, SpawnDaemon(c) PROVE CalmInv'
  <2> DEFINE p == Cardinality(Spawned) + 1
  <2>1. p \in Pids /\ daemon[p] = "none" /\ daemon' = [daemon EXCEPT ![p] = "starting"]
    BY <1>5, SpawnedGrows
  <2>2. /\ pc[c] = "spawn" /\ calm /\ pc' = [pc EXCEPT ![c] = "await"]
        /\ cmd' = [cmd EXCEPT ![c].pid = p] /\ UNCHANGED <<message, pidFile>>
    BY <1>5 DEF SpawnDaemon
  <2> HIDE DEF p
  <2>3. NoneUp /\ pidFile = NoPid /\ message[p] = "none"
    BY <1>a, <2>1, <2>2 DEF InCharge, PidsInOrder
  <2>4. cmd'[c].pid = p
    BY <2>2 DEF TypeOK
  <2>5. \A q \in Pids : Up(q)' => q = p
    BY <2>1, <2>3 DEF NoneUp, Up, TypeOK
  <2>6. InCharge(c)'
    BY <2>2, <2>3, <2>4, <2>5 DEF InCharge, TypeOK
  <2> QED BY <1>a, <2>2, <2>6, AloneSuffices DEF Locations
<1>6. ASSUME NEW c \in Cmds, Ready(c) \/ TruncatePidFile(c) PROVE CalmInv'
  <2>1. /\ (pc[c] = "await" /\ message[cmd[c].pid] = "ready") \/ pc[c] = "write"
        /\ calm /\ UNCHANGED <<daemon, message, cmd>>
    BY <1>6 DEF Ready, TruncatePidFile
  <2>2. /\ pidFile = NoPid /\ \A p \in Pids : Up(p) => p = cmd[c].pid
        /\ daemon[cmd[c].pid] \in {"serving", "dead"}
    BY <1>a, <2>1 DEF InCharge
  <2>3. PICK l \in {"write", "fill"} : pc' = [pc EXCEPT ![c] = l]
    BY <1>6 DEF Ready, TruncatePidFile
  <2>4. pidFile' = NoPid
    BY <1>6, <2>2 DEF Ready, TruncatePidFile
  <2>5. \A p \in Pids : Up(p)' => p = cmd'[c].pid
    BY <2>1, <2>2 DEF Up
  <2>6. InCharge(c)'
    BY <2>1, <2>2, <2>3, <2>4, <2>5 DEF InCharge, TypeOK
  <2> QED BY <1>a, <2>1, <2>3, <2>6, AloneSuffices DEF Locations
<1>7. ASSUME NEW c \in Cmds, Failed(c) \/ TimedOut(c) PROVE CalmInv'
  <2>1. /\ pc[c] = "await" /\ calm /\ pc' = [pc EXCEPT ![c] = "idle"]
        /\ Terminate(cmd[c].pid) /\ pidFile' = pidFile
    BY <1>7 DEF Failed, TimedOut
  <2>2. pidFile = NoPid /\ \A p \in Pids : Up(p) => p = cmd[c].pid
    BY <1>a, <2>1 DEF InCharge
  <2>3. \A p \in Pids : ~ Up(p)'
    BY <2>1, <2>2 DEF Up, Terminate, Terminated, Alive, TypeOK, States
  <2>4. AtRest'
    BY <2>1, <2>2, <2>3, Zenon DEF AtRest
  <2> QED BY <1>a, <2>1, <2>4, AloneSuffices DEF Locations
<1>8. ASSUME NEW c \in Cmds, FillPidFile(c) PROVE CalmInv'
  <2>1. /\ pc[c] = "fill" /\ calm /\ pc' = [pc EXCEPT ![c] = "idle"]
        /\ pidFile' = cmd[c].pid /\ daemon' = daemon
    BY <1>8 DEF FillPidFile
  <2>2. /\ \A p \in Pids : Up(p) => p = cmd[c].pid
        /\ daemon[cmd[c].pid] \in {"serving", "dead"}
    BY <1>a, <2>1 DEF InCharge
  <2>3. AtRest'
    BY <2>1, <2>2 DEF AtRest, Up
  <2> QED BY <1>a, <2>1, <2>3, AloneSuffices DEF Locations
<1>9. ASSUME NEW c \in Cmds, Signal(c) PROVE CalmInv'
  <2>1. /\ pc[c] = "signal" /\ calm /\ pc' = [pc EXCEPT ![c] = "poll"]
        /\ Terminate(cmd[c].pid)
    BY <1>9 DEF Signal
  <2>2. AtRest /\ pidFile = cmd[c].pid
    BY <1>a, <2>1 DEF InCharge
  <2>3. NoneUp'
    BY <2>1, <2>2 DEF AtRest, NoneUp, Up, Terminate, Terminated, Alive, TypeOK, States
  <2>4. InCharge(c)'
    BY <2>1, <2>3 DEF InCharge, TypeOK
  <2> QED BY <1>a, <2>1, <2>4, AloneSuffices DEF Locations
<1>10. ASSUME NEW c \in Cmds, Gone(c) \/ HardKill(c) PROVE CalmInv'
  <2>1. pc[c] = "poll" /\ calm /\ pc' = [pc EXCEPT ![c] = "unfile"]
    BY <1>10 DEF Gone, HardKill
  <2>2. NoneUp
    BY <1>a, <2>1 DEF InCharge
  <2>3. NoneUp'
    BY <1>10, <2>2 DEF NoneUp, Up, Gone, HardKill, TypeOK
  <2>4. InCharge(c)'
    BY <2>1, <2>3 DEF InCharge, TypeOK
  <2> QED BY <1>a, <2>1, <2>4, AloneSuffices DEF Locations
<1>11. ASSUME NEW c \in Cmds, RemovePidFile(c) \/ FailSpawn(c) PROVE CalmInv'
  <2>1. /\ pc[c] \in {"unfile", "spawn"} /\ calm /\ pc' = [pc EXCEPT ![c] = "idle"]
        /\ daemon' = daemon
    BY <1>11 DEF RemovePidFile, FailSpawn
  <2>2. NoneUp /\ pidFile' = NoPid
    BY <1>a, <1>11, <2>1 DEF InCharge, RemovePidFile, FailSpawn
  <2>3. AtRest'
    BY <2>1, <2>2 DEF AtRest, NoneUp, Up
  <2> QED BY <1>a, <2>1, <2>3, AloneSuffices DEF Locations
<1>12. ASSUME NEW c \in Cmds, FailWrite(c) \/ Kill(c) PROVE CalmInv'
  BY <1>12, Zenon DEF FailWrite, Kill
<1>13. ASSUME NEW p \in Pids, Listen(p) \/ Drain(p) \/ Die(p) PROVE CalmInv'
  <2> USE <1>13 DEF Listen, Drain, Die
  <2>1. UNCHANGED <<options, pidFile, pc, cmd, calm>>
    OBVIOUS
  <2>2. \A q \in Pids : Up(q)' => Up(q)
    BY DEF Up, TypeOK
  <2>3. \A q \in Pids : Alive(q)' => Alive(q)
    BY DEF Alive, TypeOK
  <2>4. \A q \in Pids : daemon[q] \in {"serving", "dead"} => daemon'[q] \in {"serving", "dead"}
    BY DEF TypeOK
  <2>5. NoneUp => NoneUp'
    BY <2>2, Zenon DEF NoneUp
  <2>6. AtRest => AtRest'
    BY <2>1, <2>2, <2>4 DEF AtRest, TypeOK
  <2>7. \A q \in Pids : message'[q] = "ready" =>
          message[q] = "ready" \/ daemon'[q] \in {"serving", "dead"}
    BY DEF TypeOK
  <2>8. ASSUME NEW c \in Cmds, InCharge(c) PROVE InCharge(c)'
    <3>1. pc[c] \in {"await", "write", "fill"} => cmd[c].pid \in Pids
      BY DEF PidsInOrder, Spawned
    <3> HIDE <1>13 DEF Listen, Drain, Die
    <3> QED BY <2>1, <2>2, <2>3, <2>4, <2>5, <2>6, <2>7, <2>8, <3>1 DEF InCharge
  <2> HIDE <1>13 DEF Listen, Drain, Die
  <2>9. Quiet' = Quiet
    BY <2>1 DEF Quiet
  <2> QED BY <2>1, <2>6, <2>8, <2>9 DEF CalmInv
<1> QED BY <1>0, <1>1, <1>2, <1>3, <1>4, <1>5, <1>6, <1>7, <1>8, <1>9, <1>10, <1>11, <1>12,
           <1>13, Zenon DEF Next, Command, Proceed

-----------------------------------------------------------------------------
LEMMA InitInv == Init => TypeOK /\ DaemonInv
<1> SUFFICES ASSUME Init PROVE DaemonInv
  BY InitType
<1>1. AbandonedNotServing
  BY DEF Init, AbandonedNotServing
<1>2. AtRest
  BY DEF Init, AtRest, Up
<1>3. \A c \in Cmds : pc[c] = "idle"
  BY DEF Init
<1>4. \A c \in Cmds : InCharge(c)
  BY <1>3 DEF InCharge
<1>5. CalmInv
  BY <1>2, <1>3, <1>4 DEF CalmInv
<1> QED BY <1>1, <1>5, InitOrder DEF DaemonInv

LEMMA Inductive == Spec => [](TypeOK /\ DaemonInv)
<1>1. TypeOK /\ DaemonInv /\ [Next]_vars => TypeOK' /\ DaemonInv'
  BY NextType, NextOrder, NextAbandoned, NextCalm DEF DaemonInv
<1> QED BY InitInv, <1>1, PTL DEF Spec

(* Every variable holds what the code can put there; in particular, every  *)
(* process id on file or in a command's hand is one that was given out.    *)
THEOREM TypeCorrect == Spec => []TypeOK
BY Inductive, PTL

(* dashboard.pid tells an operator the truth between commands.             *)
THEOREM PidFileTruth == Spec => []PidFileIsTrue
<1>1. DaemonInv => PidFileIsTrue
  BY DEF DaemonInv, CalmInv, PidFileIsTrue, AtRest, Up
<1> QED BY Inductive, <1>1, PTL

(* A start that gives up leaves no daemon serving, in every interleaving of*)
(* commands that overlap and of signals, messages and timers.              *)
THEOREM NoStraySurvives == Spec => []AbandonedNotServing
<1>1. DaemonInv => AbandonedNotServing
  BY DEF DaemonInv
<1> QED BY Inductive, <1>1, PTL

-----------------------------------------------------------------------------
(***************************************************************************)
(* Launch.  An argument list is read word by word; each group of words a   *)
(* parent writes adds its options to what the child's parser has, so that  *)
(* the parser ends with exactly what the parent resolved.                  *)
(***************************************************************************)

(* Numbers and their words.                                                *)

(* A set of numbers has a least one.                                       *)
LEMMA LeastNumber ==
  ASSUME NEW S \in SUBSET Nat, S # {}
  PROVE  \E m \in S : \A n \in S : m <= n
<1> DEFINE R == OpToRel(<, Nat)
<1>1. IsWellFoundedOn(R, Nat)
  BY NatLessThanWellFounded, Zenon
<1>2. \A x, y \in Nat : x < y => <<x, y>> \in R
  BY Zenon DEF OpToRel
<1> HIDE DEF R
<1>3. PICK m \in S : \A y \in S : <<y, m>> \notin R
  BY <1>1, WFMin, Zenon
<1>4. \A y \in S : ~ (y < m)
  BY <1>2, <1>3
<1> QED BY <1>4

(* The word of a number reads as that number.                              *)
LEMMA NumbersReadBack ==
  ASSUME NEW n \in 0 .. MaxNumber
  PROVE  /\ ToString(n) \in DOMAIN IntOf /\ IntOf[ToString(n)] = n
         /\ ToString(n) \notin Dashed
<1>1. ToString(n) \in Numerals
  BY DEF Numerals
<1>2. PICK m \in 0 .. MaxNumber : IntOf[ToString(n)] = m /\ ToString(m) = ToString(n)
  <2>1. \E m \in 0 .. MaxNumber : ToString(m) = ToString(n)
    OBVIOUS
  <2>2. IntOf[ToString(n)] = CHOOSE m \in 0 .. MaxNumber : ToString(m) = ToString(n)
    BY <1>1 DEF IntOf
  <2> QED BY <2>1, <2>2
<1> QED BY <1>1, <1>2, NumbersHaveWords DEF IntOf

(* What is typed where a number belongs.                                   *)
LEMMA TypedNumbers ==
  /\ IntOf["2"] = 2 /\ IntOf["0"] = 0 /\ "2" \in DOMAIN IntOf /\ "0" \in DOMAIN IntOf
  /\ \A w \in {"80", "70000"} : IsInt(w, 0) /\ IntOf[w] <= 65535 => IntOf[w] \in 0 .. MaxNumber
<1>1. 0 \in 0 .. MaxNumber /\ 2 \in 0 .. MaxNumber
  BY NumbersHaveWords, BudgetsHaveWords
<1>2. /\ IntOf["2"] = 2 /\ IntOf["0"] = 0 /\ "2" \in DOMAIN IntOf /\ "0" \in DOMAIN IntOf
  BY <1>1, NumbersReadBack, NumbersHaveWords
<1>3. ASSUME NEW w \in {"80", "70000"}, IsInt(w, 0), IntOf[w] <= 65535
      PROVE  IntOf[w] \in 0 .. MaxNumber
  <2>1. CASE w \in Numerals
    <3>1. \E n \in 0 .. MaxNumber : ToString(n) = w
      BY <2>1 DEF Numerals
    <3>2. IntOf[w] = CHOOSE n \in 0 .. MaxNumber : ToString(n) = w
      BY <2>1 DEF IntOf
    <3> QED BY <3>1, <3>2
  <2>2. CASE w \notin Numerals
    <3>1. w \in {"-3", "70000"} /\ w # "-3"
      BY <1>3, <2>2 DEF IsInt, IntOf
    <3>2. IntOf[w] = 70000
      BY <2>2, <3>1 DEF IntOf
    <3> QED BY <1>3, <3>2
  <2> QED BY <2>1, <2>2
<1> QED BY <1>2, <1>3

-----------------------------------------------------------------------------
(* The grammars that the proofs look into.                                 *)

(* The hidden command of a worker.                                         *)
LEMMA WorkerGrammar ==
  LET W == WorkerOptions IN
  /\ \A o \in {"--state-dir", "--project-root", "--output-language", "--indexes-file",
               "--include-paths-file", "--config", "--plugin-root", "--llm-provider",
               "--llm-profile", "--llm-provider-model-candidates"} : o \in DOMAIN W /\ W[o] = "text"
  /\ \A o \in {"--llm-analysis", "--llm-required"} : o \in DOMAIN W /\ W[o] = "flag"
  /\ \A o \in {"--llm-retry-max-attempts", "--llm-retry-backoff-multiplier", "--global-llm-concurrency",
               "--llm-qpm-limit"} : o \in DOMAIN W /\ W[o] = "count"
  /\ \A o \in {"--llm-retry-initial-backoff", "--llm-retry-max-backoff"} : o \in DOMAIN W /\ W[o] = "natural"
  /\ \A o \in {"--llm-retry-jitter-ratio"} : o \in DOMAIN W /\ W[o] = "ratio"
BY DEF WorkerOptions, OfKinds

(* The two parsers of a server.                                            *)
LEMMA ServerGrammar ==
  ASSUME NEW mode \in {"public", "daemon"}
  PROVE  LET S == ServeOptions(mode) IN
         /\ \A o \in {"--host", "--project-root", "--config", "--serve-profile", "--registry",
              "--embedding-provider"} :
              o \in DOMAIN S /\ S[o] = "text"
         /\ "--port" \in DOMAIN S /\ S["--port"] = "port"
         /\ \A o \in {"--portal", "--project-route"} : o \in DOMAIN S /\ S[o] = "flag"
         /\ mode = "daemon" => \A o \in {"--state-dir", "--dist-dir", "--token"} : o \in DOMAIN S /\ S[o] = "text"
BY DEF ServeOptions, OfKinds

(* build; four retry settings have no option.                              *)
LEMMA BuildGrammar ==
  LET B == BuildOptions IN
  /\ \A o \in {"--include", "--config", "--deploy-profile", "--llm-profile", "--plugin-root", "--output-language",
               "--llm-provider"} : o \in DOMAIN B /\ B[o] = "text"
  /\ \A o \in {"--llm-analysis", "--llm-required"} : o \in DOMAIN B /\ B[o] = "flag"
  /\ \A o \in {"--llm-retry-max-attempts", "--mappers", "--llm-concurrency-per-mapper", "--llm-qpm-limit"} :
       o \in DOMAIN B /\ B[o] = "count"
  /\ \A o \in {"--llm-retry-initial-backoff", "--llm-retry-max-backoff", "--llm-retry-backoff-multiplier",
               "--llm-retry-jitter-ratio"} : o \notin DOMAIN B
BY DEF BuildOptions, OfKinds

(* The two starts; a gateway takes no registry, no root and no routes.     *)
LEMMA StartGrammar ==
  /\ LET D == DashboardOptions IN
     /\ \A o \in {"--host", "--project-root", "--config", "--serve-profile", "--registry"} :
          o \in DOMAIN D /\ D[o] = "text"
     /\ "--port" \in DOMAIN D /\ D["--port"] = "port"
     /\ \A o \in {"--portal", "--project-route"} : o \in DOMAIN D /\ D[o] = "flag"
  /\ LET G == GatewayOptions IN
     /\ \A o \in {"--host", "--config", "--serve-profile"} : o \in DOMAIN G /\ G[o] = "text"
     /\ "--port" \in DOMAIN G /\ G["--port"] = "port"
     /\ \A o \in {"--portal", "--project-route", "--registry", "--project-root"} : o \notin DOMAIN G
BY DEF DashboardOptions, GatewayOptions, OfKinds

LEMMA Commands ==
  /\ Grammar["build"] = BuildOptions /\ Grammar["dashboard"] = DashboardOptions
  /\ Grammar["gateway"] = GatewayOptions /\ Grammar["serve"] = ServeOptions("public")
  /\ Grammar["dashboard-server"] = ServeOptions("daemon")
  /\ Grammar["batch-mapper-worker"] = WorkerOptions
  /\ \A c \in {"build", "dashboard", "gateway", "serve", "dashboard-server",
       "batch-mapper-worker"} : c \in DOMAIN Grammar
BY DEF Grammar

(* Words that no command takes for an option.                              *)
LEMMA PlainWordsAreTaken == PlainWords \cap Dashed = {}
<1>1. PlainWords \cap DOMAIN BuildOptions = {}
  BY DEF PlainWords, BuildOptions, OfKinds
<1>2. PlainWords \cap DOMAIN CompatOptions = {}
  BY DEF PlainWords, CompatOptions, OfKinds
<1>3. PlainWords \cap DOMAIN DashboardOptions = {}
  BY DEF PlainWords, DashboardOptions, OfKinds
<1>4. PlainWords \cap DOMAIN GatewayOptions = {}
  BY DEF PlainWords, GatewayOptions, OfKinds
<1>5. PlainWords \cap DOMAIN ProjectStateOptions = {}
  BY DEF PlainWords, ProjectStateOptions, OfKinds
<1>6. PlainWords \cap DOMAIN ReviewOptions = {}
  BY DEF PlainWords, ReviewOptions, OfKinds
<1>7. PlainWords \cap DOMAIN ReviewHookOptions = {}
  BY DEF PlainWords, ReviewHookOptions, OfKinds
<1>8. PlainWords \cap DOMAIN RepairOptions = {}
  BY DEF PlainWords, RepairOptions, OfKinds
<1>9. PlainWords \cap DOMAIN InitOptions = {}
  BY DEF PlainWords, InitOptions, OfKinds
<1>10. PlainWords \cap DOMAIN NotifyOptions = {}
  BY DEF PlainWords, NotifyOptions, OfKinds
<1>11. PlainWords \cap DOMAIN ServeOptions("public") = {}
  BY DEF PlainWords, ServeOptions, OfKinds
<1>12. PlainWords \cap DOMAIN ServeOptions("daemon") = {}
  BY DEF PlainWords, ServeOptions, OfKinds
<1>13. PlainWords \cap DOMAIN WorkerOptions = {}
  BY DEF PlainWords, WorkerOptions, OfKinds
<1>14. \A c \in DOMAIN Grammar : PlainWords \cap DOMAIN Grammar[c] = {}
  BY <1>1, <1>2, <1>3, <1>4, <1>5, <1>6, <1>7, <1>8, <1>9, <1>10, <1>11, <1>12, <1>13 DEF Grammar
<1> QED BY <1>14 DEF Dashed, HelpWords, PlainWords

-----------------------------------------------------------------------------
(* Reading words one after another.                                        *)
IsWords(words) == \E S : words \in Seq(S)
\* p comes to q by reading the words.
Reads(p, words, q) ==
  \E r : /\ r[0] = p /\ r[Len(words)] = q
         /\ \A n \in 1 .. Len(words) : r[n] = ReadWord(r[n - 1], words[n])

(* No word, no change.                                                     *)
LEMMA ReadsNothing == ASSUME NEW p PROVE Reads(p, <<>>, p)
<1>1. PICK r : r = [n \in {0} |-> p]
  OBVIOUS
<1> QED BY <1>1 DEF Reads

(* One word.                                                               *)
LEMMA ReadsOne ==
  ASSUME NEW p, NEW w
  PROVE  Reads(p, <<w>>, ReadWord(p, w))
<1>1. PICK r : r = [n \in {0, 1} |-> IF n = 0 THEN p ELSE ReadWord(p, w)]
  OBVIOUS
<1>2. Len(<<w>>) = 1 /\ <<w>>[1] = w
  OBVIOUS
<1>3. r[0] = p /\ r[1] = ReadWord(p, w)
  BY <1>1
<1>4. \A n \in 1 .. 1 : r[n] = ReadWord(r[n - 1], <<w>>[n])
  BY <1>2, <1>3
<1> QED BY <1>2, <1>3, <1>4 DEF Reads

(* Two lists of words make one.                                            *)
LEMMA WordsJoin ==
  ASSUME NEW s, NEW t, IsWords(s), IsWords(t)
  PROVE  IsWords(s \o t)
<1>1. PICK S : s \in Seq(S)
  BY DEF IsWords
<1>2. PICK T : t \in Seq(T)
  BY DEF IsWords
<1>3. s \in Seq(S \cup T) /\ t \in Seq(S \cup T)
  BY <1>1, <1>2
<1> QED BY <1>3 DEF IsWords

(* Reading goes on where it stopped.                                       *)
LEMMA ReadsOn ==
  ASSUME NEW p, NEW q, NEW z, NEW s, NEW t, IsWords(s), IsWords(t), Reads(p, s, q), Reads(q, t, z)
  PROVE  Reads(p, s \o t, z)
<1>1. PICK r : /\ r[0] = p /\ r[Len(s)] = q
               /\ \A n \in 1 .. Len(s) : r[n] = ReadWord(r[n - 1], s[n])
  BY DEF Reads
<1>2. PICK u : /\ u[0] = q /\ u[Len(t)] = z
               /\ \A n \in 1 .. Len(t) : u[n] = ReadWord(u[n - 1], t[n])
  BY DEF Reads
<1>3. /\ Len(s) \in Nat /\ Len(t) \in Nat /\ Len(s \o t) = Len(s) + Len(t)
      /\ \A n \in 1 .. Len(s) + Len(t) : (s \o t)[n] = IF n <= Len(s) THEN s[n] ELSE t[n - Len(s)]
  <2>1. PICK S : s \in Seq(S)
    BY DEF IsWords
  <2>2. PICK T : t \in Seq(T)
    BY DEF IsWords
  <2> QED BY <2>1, <2>2
<1> DEFINE v == [n \in 0 .. Len(s) + Len(t) |-> IF n <= Len(s) THEN r[n] ELSE u[n - Len(s)]]
<1>4. \A n \in 0 .. Len(s) + Len(t) : v[n] = IF n <= Len(s) THEN r[n] ELSE u[n - Len(s)]
  OBVIOUS
<1> HIDE DEF v
<1>5. v[0] = p
  BY <1>1, <1>3, <1>4
<1>6. v[Len(s) + Len(t)] = z
  <2>1. CASE Len(t) = 0
    BY <1>1, <1>2, <1>3, <1>4, <2>1
  <2>2. CASE Len(t) > 0
    BY <1>2, <1>3, <1>4, <2>2
  <2> QED BY <1>3, <2>1, <2>2
<1>7. ASSUME NEW n \in 1 .. Len(s) + Len(t)
      PROVE  v[n] = ReadWord(v[n - 1], (s \o t)[n])
  <2>1. CASE n <= Len(s)
    <3>1. v[n] = r[n] /\ v[n - 1] = r[n - 1] /\ (s \o t)[n] = s[n] /\ n \in 1 .. Len(s)
      BY <1>3, <1>4, <2>1
    <3> QED BY <1>1, <3>1
  <2>2. CASE n = Len(s) + 1
    <3>1. v[n] = u[1] /\ v[n - 1] = q /\ (s \o t)[n] = t[1] /\ 1 \in 1 .. Len(t)
      BY <1>1, <1>3, <1>4, <2>2
    <3> QED BY <1>2, <3>1
  <2>3. CASE n > Len(s) + 1
    <3>1. PICK m \in 1 .. Len(t) : m = n - Len(s)
      BY <1>3, <2>3
    <3>2. v[n] = u[m] /\ v[n - 1] = u[m - 1] /\ (s \o t)[n] = t[m]
      BY <1>3, <1>4, <2>3, <3>1
    <3> QED BY <1>2, <3>2
  <2> QED BY <1>3, <2>1, <2>2, <2>3
<1> QED BY <1>3, <1>5, <1>6, <1>7 DEF Reads

(* Only one state is come to.                                              *)
LEMMA ReadingIs ==
  ASSUME NEW p, NEW q, NEW words, IsWords(words), Reads(p, words, q)
  PROVE  Reading(p, words) = q
<1> DEFINE read == CHOOSE f : f = [n \in 0 .. Len(words) |-> IF n = 0 THEN p ELSE ReadWord(f[n - 1], words[n])]
<1>1. PICK r : /\ r[0] = p /\ r[Len(words)] = q
               /\ \A n \in 1 .. Len(words) : r[n] = ReadWord(r[n - 1], words[n])
  BY DEF Reads
<1>2. Len(words) \in Nat
  BY DEF IsWords
<1>3. read = [n \in 0 .. Len(words) |-> IF n = 0 THEN p ELSE ReadWord(read[n - 1], words[n])]
  <2>1. PICK f : f = [n \in 0 .. Len(words) |-> r[n]]
    OBVIOUS
  <2>2. \A n \in 0 .. Len(words) : f[n] = r[n]
    BY <2>1
  <2>3. \A n \in 0 .. Len(words) : r[n] = IF n = 0 THEN p ELSE ReadWord(f[n - 1], words[n])
    BY <1>1, <1>2, <2>2
  <2>4. f = [n \in 0 .. Len(words) |-> IF n = 0 THEN p ELSE ReadWord(f[n - 1], words[n])]
    BY <2>1, <2>3, Zenon
  <2> QED BY <2>4, Zenon
<1>4. \A n \in 0 .. Len(words) : read[n] = IF n = 0 THEN p ELSE ReadWord(read[n - 1], words[n])
  BY <1>3, Zenon
<1>5. Reading(p, words) = read[Len(words)]
  BY DEF Reading
<1> HIDE DEF read
<1> DEFINE Wrong == {n \in 0 .. Len(words) : read[n] # r[n]}
<1>6. Wrong = {}
  <2>1. SUFFICES ASSUME Wrong # {} PROVE FALSE
    OBVIOUS
  <2>2. PICK m \in Wrong : \A n \in Wrong : m <= n
    <3>1. Wrong \in SUBSET Nat
      BY <1>2
    <3> HIDE DEF Wrong
    <3> QED BY <2>1, <3>1, LeastNumber
  <2>3. m # 0
    BY <1>1, <1>2, <1>4
  <2>4. m - 1 \in 0 .. Len(words) /\ m - 1 \notin Wrong /\ m \in 1 .. Len(words)
    BY <2>2, <2>3
  <2> QED BY <1>1, <1>4, <2>2, <2>3, <2>4
<1> QED BY <1>1, <1>2, <1>5, <1>6

-----------------------------------------------------------------------------
(* A child's argument list, read option by option.                         *)
Hidden == {"dashboard-server", "batch-mapper-worker"}
Filled(verb, opts) == [cmd |-> verb, act |-> None, opts |-> opts, pend |-> None, pos |-> None, res |-> "reading"]
Look(opts, o) == IF o \in DOMAIN opts THEN opts[o] ELSE None
Clean(verb, opts) == \A o \in DOMAIN opts : o \in DOMAIN Grammar[verb] /\ opts[o] # None
\* What some words add to the options read before; None where they are silent.
Adds(verb, words, told) ==
  /\ IsWords(words)
  /\ \A opts : Clean(verb, opts) =>
       \E more : /\ Clean(verb, more) /\ Reads(Filled(verb, opts), words, Filled(verb, more))
                 /\ \A o \in DOMAIN Grammar[verb] :
                      Look(more, o) = IF told[o] # None THEN told[o] ELSE Look(opts, o)
Only(verb, o, v) == [f \in DOMAIN Grammar[verb] |-> IF f = o THEN v ELSE None]
Over(verb, told, then) == [f \in DOMAIN Grammar[verb] |-> IF then[f] # None THEN then[f] ELSE told[f]]

(* The hidden commands are known, have no action and are no help word.     *)
LEMMA HiddenGrammar ==
  ASSUME NEW verb \in Hidden
  PROVE  /\ verb \notin DOMAIN Actions /\ verb # None /\ verb \in DOMAIN Grammar
         /\ verb \notin HelpWords \cup {"help", "build", "dashboard"}
<1>2. verb \in DOMAIN Grammar /\ verb \notin DOMAIN Actions
  BY Commands DEF Hidden, Actions
<1>1. verb # None
  BY <1>2, NoneIsNoValue
<1>3. verb \notin HelpWords \cup {"help", "build", "dashboard"}
  BY DEF Hidden, HelpWords
<1> QED BY <1>1, <1>2, <1>3

(* The first word.                                                         *)
LEMMA HiddenCommandRead ==
  ASSUME NEW verb \in Hidden
  PROVE  Reads(Fresh, <<verb>>, Filled(verb, <<>>)) /\ Clean(verb, <<>>)
<1>1. ReadWord(Fresh, verb) = Filled(verb, <<>>)
  BY HiddenGrammar DEF ReadWord, ReadCommand, Fresh, Filled
<1> QED BY <1>1, ReadsOne DEF Clean

(* One option more, whose value is not None.                               *)
LEMMA WithOne ==
  ASSUME NEW verb \in Hidden, NEW opts, Clean(verb, opts), NEW o \in DOMAIN Grammar[verb], NEW v, v # None
  PROVE  LET more == [f \in DOMAIN opts \cup {o} |-> IF f = o THEN v ELSE opts[f]]
         IN  /\ Clean(verb, more)
             /\ \A f \in DOMAIN Grammar[verb] :
                  Look(more, f) = IF Only(verb, o, v)[f] # None THEN Only(verb, o, v)[f] ELSE Look(opts, f)
BY DEF Clean, Look, Only

LEMMA OneWord ==
  ASSUME NEW v, NEW w
  PROVE  IsWords(<<>>) /\ IsWords(<<v>>) /\ IsWords(<<v, w>>) /\ <<v, w>> = <<v>> \o <<w>>
<1>1. <<>> \in Seq({}) /\ <<v>> \in Seq({v}) /\ <<v, w>> \in Seq({v, w})
  OBVIOUS
<1>2. <<v, w>> = <<v>> \o <<w>>
  <2> DEFINE s == <<v>>
             t == <<w>>
  <2>1. s \in Seq({v, w}) /\ t \in Seq({v, w}) /\ Len(s) = 1 /\ Len(t) = 1 /\ s[1] = v /\ t[1] = w
    OBVIOUS
  <2> HIDE DEF s, t
  <2>2. PICK u : u = s \o t
    OBVIOUS
  <2>3. u \in Seq({v, w}) /\ Len(u) = 2
        /\ \A i \in 1 .. 2 : u[i] = IF i <= 1 THEN s[i] ELSE t[i - 1]
    <3>1. /\ u \in Seq({v, w}) /\ Len(u) = Len(s) + Len(t)
          /\ \A i \in 1 .. Len(s) + Len(t) : u[i] = IF i <= Len(s) THEN s[i] ELSE t[i - Len(s)]
      BY <2>1, <2>2, ConcatProperties
    <3>2. Len(s) + Len(t) = 2
      BY <2>1
    <3> QED BY <2>1, <3>1, <3>2
  <2>4. u[1] = v /\ u[2] = w
    <3>1. 1 \in 1 .. 2 /\ 2 \in 1 .. 2 /\ 2 - 1 = 1
      OBVIOUS
    <3> QED BY <2>1, <2>3, <3>1
  <2>5. u = <<v, w>>
    BY <2>3, <2>4
  <2> QED BY <2>2, <2>5 DEF s, t
<1> QED BY <1>1, <1>2 DEF IsWords

(* No words add nothing.                                                   *)
LEMMA AddsNothing ==
  ASSUME NEW verb \in Hidden, NEW o
  PROVE  Adds(verb, <<>>, Only(verb, o, None))
<1>1. \A f \in DOMAIN Grammar[verb] : Only(verb, o, None)[f] = None
  BY DEF Only
<1> QED BY <1>1, ReadsNothing, OneWord DEF Adds

(* An option and a word its kind accepts.                                  *)
LEMMA AddsValue ==
  ASSUME NEW verb \in Hidden, NEW o \in DOMAIN Grammar[verb] \ HelpWords,
         Grammar[verb][o] \notin {"flag", "signed"},
         NEW w, TakesWord(verb, w), Accepts(Grammar[verb][o], w), ValueOf(Grammar[verb][o], w) # None
  PROVE  Adds(verb, <<o, w>>, Only(verb, o, ValueOf(Grammar[verb][o], w)))
<1> DEFINE v == ValueOf(Grammar[verb][o], w)
<1>1. ASSUME NEW opts, Clean(verb, opts)
      PROVE  \E more : /\ Clean(verb, more) /\ Reads(Filled(verb, opts), <<o, w>>, Filled(verb, more))
                       /\ \A f \in DOMAIN Grammar[verb] :
                            Look(more, f) = IF Only(verb, o, v)[f] # None THEN Only(verb, o, v)[f] ELSE Look(opts, f)
  <2>1. PICK more : more = [f \in DOMAIN opts \cup {o} |-> IF f = o THEN v ELSE opts[f]]
    OBVIOUS
  <2>2. PICK mid : mid = [cmd |-> verb, act |-> None, opts |-> opts, pend |-> o, pos |-> None, res |-> "reading"]
    OBVIOUS
  <2>0. o # None
    BY HiddenGrammar, NoneIsNoValue DEF Dashed
  <2>3. ReadWord(Filled(verb, opts), o) = mid
    BY <2>2, HiddenGrammar DEF ReadWord, ReadOption, Filled
  <2>4. ReadWord(mid, w) = ReadValue(mid, w) /\ mid.cmd = verb /\ mid.pend = o
    BY <2>2, <2>0, HiddenGrammar DEF ReadWord
  <2>5. ReadValue(mid, w) = Given(mid, o, v)
    BY <2>4 DEF ReadValue
  <2>6. Given(mid, o, v) = Filled(verb, more)
    <3> HIDE DEF v
    <3>1. mid.opts = opts
      BY <2>2
    <3>2. Given(mid, o, v) = [mid EXCEPT !.opts = more, !.pend = None]
      BY <2>1, <3>1 DEF Given
    <3> QED BY <2>2, <3>2 DEF Filled
  <2>7. Reads(Filled(verb, opts), <<o>>, mid) /\ Reads(mid, <<w>>, Filled(verb, more))
    BY <2>3, <2>4, <2>5, <2>6, ReadsOne
  <2>8. IsWords(<<o>>) /\ IsWords(<<w>>) /\ <<o, w>> = <<o>> \o <<w>>
    BY OneWord
  <2>9. Reads(Filled(verb, opts), <<o, w>>, Filled(verb, more))
    BY <2>7, <2>8, ReadsOn
  <2>10. v # None
    OBVIOUS
  <2> HIDE DEF v
  <2>11. /\ Clean(verb, more)
         /\ \A f \in DOMAIN Grammar[verb] :
              Look(more, f) = IF Only(verb, o, v)[f] # None THEN Only(verb, o, v)[f] ELSE Look(opts, f)
    BY <1>1, <2>1, <2>10, WithOne, SMTT(40)
  <2> QED BY <2>9, <2>11
<1>2. IsWords(<<o, w>>)
  BY OneWord
<1> QED BY <1>1, <1>2 DEF Adds

(* A flag.                                                                 *)
LEMMA AddsFlag ==
  ASSUME NEW verb \in Hidden, NEW o \in DOMAIN Grammar[verb] \ HelpWords,
         Grammar[verb][o] = "flag", o # "--include-tests"
  PROVE  Adds(verb, <<o>>, Only(verb, o, TRUE))
<1>0. PICK v : v = TRUE
  OBVIOUS
<1>3. v # None
  BY <1>0, NoneIsNoValue
<1>1. ASSUME NEW opts, Clean(verb, opts)
      PROVE  \E more : /\ Clean(verb, more) /\ Reads(Filled(verb, opts), <<o>>, Filled(verb, more))
                       /\ \A f \in DOMAIN Grammar[verb] :
                            Look(more, f) = IF Only(verb, o, v)[f] # None THEN Only(verb, o, v)[f]
                                            ELSE Look(opts, f)
  <2>1. PICK more : more = [f \in DOMAIN opts \cup {o} |-> IF f = o THEN v ELSE opts[f]]
    OBVIOUS
  <2>2. ReadWord(Filled(verb, opts), o) = ReadFlag(Filled(verb, opts), o)
    BY HiddenGrammar DEF ReadWord, ReadOption, Filled
  <2>3. ReadFlag(Filled(verb, opts), o) = Given(Filled(verb, opts), o, v)
    BY <1>0, HiddenGrammar DEF ReadFlag, Filled
  <2>4. Given(Filled(verb, opts), o, v) = Filled(verb, more)
    <3>1. PICK mid : mid = Filled(verb, opts)
      OBVIOUS
    <3>2. mid.opts = opts
      BY <3>1 DEF Filled
    <3>3. Given(mid, o, v) = [mid EXCEPT !.opts = more, !.pend = None]
      BY <2>1, <3>2 DEF Given
    <3> QED BY <3>1, <3>3 DEF Filled
  <2>5. Reads(Filled(verb, opts), <<o>>, Filled(verb, more))
    BY <2>2, <2>3, <2>4, ReadsOne
  <2>7. /\ Clean(verb, more)
        /\ \A f \in DOMAIN Grammar[verb] :
             Look(more, f) = IF Only(verb, o, v)[f] # None THEN Only(verb, o, v)[f] ELSE Look(opts, f)
    BY <1>1, <2>1, <1>3, WithOne
  <2> QED BY <2>5, <2>7
<1>2. IsWords(<<o>>)
  BY OneWord
<1>4. Adds(verb, <<o>>, Only(verb, o, v))
  BY <1>1, <1>2 DEF Adds
<1> QED BY <1>0, <1>4, Zenon

(* One list after another: the later value counts.                         *)
LEMMA AddsBoth ==
  ASSUME NEW verb, NEW s, NEW t, NEW told, NEW then, Adds(verb, s, told), Adds(verb, t, then)
  PROVE  Adds(verb, s \o t, Over(verb, told, then))
<1>1. ASSUME NEW opts, Clean(verb, opts)
      PROVE  \E more : /\ Clean(verb, more) /\ Reads(Filled(verb, opts), s \o t, Filled(verb, more))
                       /\ \A o \in DOMAIN Grammar[verb] :
                            Look(more, o) = IF Over(verb, told, then)[o] # None THEN Over(verb, told, then)[o]
                                            ELSE Look(opts, o)
  <2>1. PICK mid : /\ Clean(verb, mid) /\ Reads(Filled(verb, opts), s, Filled(verb, mid))
                   /\ \A o \in DOMAIN Grammar[verb] :
                        Look(mid, o) = IF told[o] # None THEN told[o] ELSE Look(opts, o)
    BY <1>1 DEF Adds
  <2>2. PICK more : /\ Clean(verb, more) /\ Reads(Filled(verb, mid), t, Filled(verb, more))
                    /\ \A o \in DOMAIN Grammar[verb] :
                         Look(more, o) = IF then[o] # None THEN then[o] ELSE Look(mid, o)
    BY <2>1 DEF Adds
  <2>3. Reads(Filled(verb, opts), s \o t, Filled(verb, more))
    BY <2>1, <2>2, ReadsOn DEF Adds
  <2>4. \A o \in DOMAIN Grammar[verb] : Over(verb, told, then)[o] = IF then[o] # None THEN then[o] ELSE told[o]
    BY DEF Over
  <2> QED BY <2>1, <2>2, <2>3, <2>4
<1>2. IsWords(s \o t)
  BY WordsJoin DEF Adds
<1> QED BY <1>1, <1>2 DEF Adds

(* An option that is passed on if it has a value, a flag if it is set.     *)
LEMMA AddsOpt ==
  ASSUME NEW verb \in Hidden, NEW o \in DOMAIN Grammar[verb] \ HelpWords,
         Grammar[verb][o] = "text", NEW v, v \notin Dashed
  PROVE  Adds(verb, Opt(o, v), Only(verb, o, v))
<1>1. CASE v = None
  BY <1>1, AddsNothing DEF Opt
<1>2. CASE v # None
  <2>1. /\ TakesWord(verb, v) /\ Accepts("text", v) /\ ValueOf("text", v) = v
    BY <1>2 DEF TakesWord, Accepts, ValueOf
  <2>2. Opt(o, v) = <<o, v>>
    BY <1>2 DEF Opt
  <2> QED BY <1>2, <2>1, <2>2, AddsValue
<1> QED BY <1>1, <1>2

LEMMA AddsFlagIf ==
  ASSUME NEW verb \in Hidden, NEW o \in DOMAIN Grammar[verb] \ HelpWords,
         Grammar[verb][o] = "flag", o # "--include-tests", NEW on
  PROVE  Adds(verb, Flag(o, on), Only(verb, o, IF on THEN TRUE ELSE None))
BY AddsFlag, AddsNothing DEF Flag

(* An option and the word of a number.                                     *)
LEMMA AddsNumber ==
  ASSUME NEW verb \in Hidden, NEW o \in DOMAIN Grammar[verb] \ HelpWords,
         NEW n \in 0 .. MaxNumber,
         \/ Grammar[verb][o] = "count" /\ n >= 1
         \/ Grammar[verb][o] = "natural"
         \/ Grammar[verb][o] = "port" /\ n <= 65535
  PROVE  Adds(verb, <<o, ToString(n)>>, Only(verb, o, n))
<1>1. /\ ToString(n) \in DOMAIN IntOf /\ IntOf[ToString(n)] = n /\ ToString(n) \notin Dashed
  BY NumbersReadBack
<1>2. TakesWord(verb, ToString(n))
  BY <1>1 DEF TakesWord
<1>3. Accepts(Grammar[verb][o], ToString(n)) /\ ValueOf(Grammar[verb][o], ToString(n)) = n
  <2>1. IsInt(ToString(n), 0) /\ (n >= 1 => IsInt(ToString(n), 1))
    BY <1>1, NumbersHaveWords DEF IsInt
  <2>2. CASE Grammar[verb][o] = "count" /\ n >= 1
    BY <1>1, <2>1, <2>2 DEF Accepts, ValueOf
  <2>3. CASE Grammar[verb][o] = "natural"
    BY <1>1, <2>1, <2>3 DEF Accepts, ValueOf
  <2>4. CASE Grammar[verb][o] = "port" /\ n <= 65535
    BY <1>1, <2>1, <2>4 DEF Accepts, ValueOf
  <2> QED BY <2>2, <2>3, <2>4
<1>4. n # None
  BY NoneIsNoValue, NumbersHaveWords
<1> QED BY <1>1, <1>2, <1>3, <1>4, AddsValue

(* The whole line: the child's parser has exactly what it was told.        *)
LEMMA ChildParses ==
  ASSUME NEW verb \in Hidden, NEW words, NEW told, Adds(verb, words, told),
         verb = "batch-mapper-worker" =>
           \A o \in {"--state-dir", "--project-root", "--output-language", "--indexes-file"} : told[o] # None,
         verb = "dashboard-server" =>
           /\ \A o \in {"--state-dir", "--dist-dir", "--token"} : told[o] # None
           /\ told["--portal-assets"] = None
  PROVE  LET p == Parse(<<verb>> \o words, {})
         IN  /\ p.res = "parsed" /\ p.cmd = verb
             /\ \A o \in DOMAIN Grammar[verb] : Value(p, o) = told[o]
<1>1. PICK opts : /\ Clean(verb, opts) /\ Reads(Filled(verb, <<>>), words, Filled(verb, opts))
                  /\ \A o \in DOMAIN Grammar[verb] :
                       Look(opts, o) = IF told[o] # None THEN told[o] ELSE Look(<<>>, o)
  BY HiddenCommandRead DEF Adds
<1>2. \A o \in DOMAIN Grammar[verb] : Look(opts, o) = told[o]
  BY <1>1 DEF Look
<1>3. IsWords(<<verb>>) /\ IsWords(words) /\ IsWords(<<verb>> \o words)
  BY OneWord, WordsJoin DEF Adds
<1>4. Reading(Fresh, <<verb>> \o words) = Filled(verb, opts)
  BY <1>1, <1>3, HiddenCommandRead, ReadsOn, ReadingIs
<1>5. \A o \in DOMAIN Grammar[verb] : (o \in DOMAIN opts) = (told[o] # None)
  BY <1>1, <1>2 DEF Look, Clean
<1> DEFINE q == Filled(verb, opts)
<1>6. Rules(q, {}) /\ Fields(q) = DOMAIN Grammar[verb]
  <2>1. CASE verb = "batch-mapper-worker"
    <3>1. Rules(q, {}) = WorkerRules(q) /\ Fields(q) = DOMAIN Grammar[verb]
      BY <2>1 DEF Rules, Fields, OtherFields, Filled
    <3>2. WorkerRules(q)
      BY <1>5, <2>1, WorkerGrammar, Commands DEF WorkerRules, Has, Filled
    <3> QED BY <3>1, <3>2
  <2>2. CASE verb = "dashboard-server"
    <3>1. Rules(q, {}) = ServeRules(q) /\ Fields(q) = DOMAIN Grammar[verb]
      BY <2>2, Commands DEF Rules, Fields, ServeFields, Filled
    <3>2. "--portal-assets" \in DOMAIN ServeOptions("daemon")
      BY DEF ServeOptions, OfKinds
    <3>3. ServeRules(q)
      BY <1>5, <2>2, <3>2, ServerGrammar, Commands DEF ServeRules, Has, Filled
    <3> QED BY <3>1, <3>3
  <2> QED BY <2>1, <2>2 DEF Hidden
<1>7. End(q, {}) = [q EXCEPT !.res = "parsed", !.opts = Restrict(opts, Fields(q) \cap DOMAIN opts)]
  BY <1>6, HiddenGrammar DEF End, Filled
<1>8. /\ End(q, {}).res = "parsed" /\ End(q, {}).cmd = verb
      /\ End(q, {}).opts = Restrict(opts, Fields(q) \cap DOMAIN opts)
  BY <1>7 DEF Filled
<1>9. \A o \in DOMAIN Grammar[verb] : Value(End(q, {}), o) = told[o]
  BY <1>2, <1>5, <1>6, <1>8 DEF Value, Restrict, Look
<1> QED BY <1>4, <1>8, <1>9 DEF Parse

-----------------------------------------------------------------------------
(* Layers and settings.                                                    *)
LEMMA FirstOfIs ==
  ASSUME NEW n \in Nat, NEW layers, DOMAIN layers = 1 .. n
  PROVE  \/ FirstOf(layers) = None /\ \A i \in 1 .. n : layers[i] = None
         \/ \E i \in 1 .. n : /\ FirstOf(layers) = layers[i] /\ layers[i] # None
                              /\ \A j \in 1 .. n : j < i => layers[j] = None
<1> DEFINE given == {i \in DOMAIN layers : layers[i] # None}
           least == CHOOSE i \in given : \A j \in given : i <= j
<1>1. CASE given = {}
  BY <1>1 DEF FirstOf
<1>2. CASE given # {}
  <2>1. given \in SUBSET Nat
    OBVIOUS
  <2>2. \E i \in given : \A j \in given : i <= j
    <3> HIDE DEF given
    <3> QED BY <1>2, <2>1, LeastNumber
  <2>3. least \in given /\ \A j \in given : least <= j
    BY <2>2
  <2>4. FirstOf(layers) = layers[least]
    BY <1>2 DEF FirstOf
  <2> HIDE DEF least
  <2> QED BY <2>3, <2>4
<1> QED BY <1>1, <1>2

LEMMA FirstOfTwo ==
  ASSUME NEW a, NEW b
  PROVE  FirstOf(<<a, b>>) = IF a # None THEN a ELSE b
<1>1. PICK layers : layers = <<a, b>>
  OBVIOUS
<1>2. DOMAIN layers = 1 .. 2 /\ layers[1] = a /\ layers[2] = b
  BY <1>1
<1>3. \/ FirstOf(layers) = None /\ \A i \in 1 .. 2 : layers[i] = None
      \/ \E i \in 1 .. 2 : /\ FirstOf(layers) = layers[i] /\ layers[i] # None
                           /\ \A j \in 1 .. 2 : j < i => layers[j] = None
  BY <1>2, FirstOfIs
<1>4. FirstOf(layers) = IF a # None THEN a ELSE b
  BY <1>2, <1>3
<1> QED BY <1>1, <1>4

LEMMA FirstOfThree ==
  ASSUME NEW a, NEW b, NEW c
  PROVE  FirstOf(<<a, b, c>>) = IF a # None THEN a ELSE IF b # None THEN b ELSE c
<1>1. PICK layers : layers = <<a, b, c>>
  OBVIOUS
<1>2. DOMAIN layers = 1 .. 3 /\ layers[1] = a /\ layers[2] = b /\ layers[3] = c
  BY <1>1
<1>3. \/ FirstOf(layers) = None /\ \A i \in 1 .. 3 : layers[i] = None
      \/ \E i \in 1 .. 3 : /\ FirstOf(layers) = layers[i] /\ layers[i] # None
                           /\ \A j \in 1 .. 3 : j < i => layers[j] = None
  BY <1>2, FirstOfIs
<1>4. FirstOf(layers) = IF a # None THEN a ELSE IF b # None THEN b ELSE c
  BY <1>2, <1>3
<1> QED BY <1>1, <1>4

(* Of more layers only this much is needed: the first one wins, and what   *)
(* comes out is one of them.                                               *)
LEMMA FirstOfFive ==
  ASSUME NEW a, NEW b, NEW c, NEW d, NEW e
  PROVE  /\ a # None => FirstOf(<<a, b, c, d, e>>) = a
<1>1. PICK layers : layers = <<a, b, c, d, e>>
  OBVIOUS
<1>2. DOMAIN layers = 1 .. 5 /\ layers[1] = a
  BY <1>1
<1>3. \/ FirstOf(layers) = None /\ \A i \in 1 .. 5 : layers[i] = None
      \/ \E i \in 1 .. 5 : /\ FirstOf(layers) = layers[i] /\ layers[i] # None
                           /\ \A j \in 1 .. 5 : j < i => layers[j] = None
  BY <1>2, FirstOfIs
<1>4. a # None => FirstOf(layers) = a
  BY <1>2, <1>3
<1> QED BY <1>1, <1>4

LEMMA FirstOfSix ==
  ASSUME NEW a, NEW b, NEW c, NEW d, NEW e, NEW f
  PROVE  LET first == FirstOf(<<a, b, c, d, e, f>>) IN
         /\ a # None => first = a
         /\ f # None => first # None
         /\ first \in {a, b, c, d, e, f}
<1>1. PICK layers : layers = <<a, b, c, d, e, f>>
  OBVIOUS
<1>2. DOMAIN layers = 1 .. 6 /\ layers[1] = a /\ layers[2] = b /\ layers[3] = c /\ layers[4] = d
      /\ layers[5] = e /\ layers[6] = f
  BY <1>1
<1>3. \/ FirstOf(layers) = None /\ \A i \in 1 .. 6 : layers[i] = None
      \/ \E i \in 1 .. 6 : /\ FirstOf(layers) = layers[i] /\ layers[i] # None
                           /\ \A j \in 1 .. 6 : j < i => layers[j] = None
  BY <1>2, FirstOfIs
<1>4. a # None => FirstOf(layers) = a
  BY <1>2, <1>3
<1>5. f # None => FirstOf(layers) # None
  BY <1>2, <1>3
<1>6. FirstOf(layers) \in {a, b, c, d, e, f}
  <2>1. CASE FirstOf(layers) = None /\ \A i \in 1 .. 6 : layers[i] = None
    BY <1>2, <2>1
  <2>2. CASE \E i \in 1 .. 6 : FirstOf(layers) = layers[i]
    <3>1. PICK i \in 1 .. 6 : FirstOf(layers) = layers[i]
      BY <2>2
    <3>2. i = 1 \/ i = 2 \/ i = 3 \/ i = 4 \/ i = 5 \/ i = 6
      OBVIOUS
    <3> QED BY <1>2, <3>1, <3>2
  <2> QED BY <1>3, <2>1, <2>2
<1> QED BY <1>1, <1>4, <1>5, <1>6

(* What the proofs need to know of a world.                                *)
LEMMA PlainFits ==
  /\ Plain.envProfile = None /\ Plain.overlay = "absent" /\ Plain.package = "pkg"
  /\ Plain.candidates = None /\ Plain.files = {"id", "derived"}
BY DEF Plain

LEMMA BuildWorldsFit ==
  ASSUME NEW w \in BuildWorlds
  PROVE  /\ w.files = {"id", "derived"} \/ w.envProfile = None
         /\ w.overlay = "given" => w.of = "--output-language"
         /\ w.package \in {None, "pkg"} /\ w.candidates \in {None, "id", "bad"}
         /\ w.envProfile \in {None, "id", "gone"}
<1>1. CASE w \in SettingWorlds(BuildSettings, EnvSettings)
  <2> DEFINE World(s, e, f, b) == [Plain EXCEPT !.of = s, !.env = e, !.profile = f, !.base = b]
             Envs(s) == IF s \in EnvSettings THEN {"bad"} \cup Contents(s) ELSE {None}
  <2>0. SettingWorlds(BuildSettings, EnvSettings)
        = UNION {{World(s, e, f, b) : e \in Envs(s), f \in Contents(s), b \in Contents(s)} : s \in BuildSettings}
    BY DEF SettingWorlds
  <2> HIDE DEF World
  <2>1. PICK s \in BuildSettings :
          w \in {World(s, e, f, b) : e \in Envs(s), f \in Contents(s), b \in Contents(s)}
    BY <1>1, <2>0
  <2>2. PICK e, f, b : w = World(s, e, f, b)
    BY <2>1
  <2> QED BY <2>2 DEF World, Plain
<1>2. CASE w \in FileWorlds
  <2> DEFINE World(f, e) == [Plain EXCEPT !.of = "--host", !.files = f, !.pointer = e]
  <2>1. FileWorlds = {World(f, e) : f \in SUBSET {"id", "derived", "pointer", "cwd"}, e \in {None, "pointer"}}
    BY DEF FileWorlds
  <2> HIDE DEF World
  <2>2. PICK f, e : w = World(f, e)
    BY <1>2, <2>1
  <2> QED BY <2>2 DEF World, Plain
<1>3. CASE w \in ProfileWorlds("--output-language")
  <2> DEFINE World(o, n, e) ==
               [Plain EXCEPT !.of = "--output-language", !.base = "set", !.overlay = o, !.named = n, !.envProfile = e]
  <2>1. ProfileWorlds("--output-language") = {World(o, n, e) : o \in {"absent", "lacking", "given"}, n \in BOOLEAN,
            e \in {None, "id", "gone"}}
    BY DEF ProfileWorlds
  <2> HIDE DEF World
  <2>2. PICK o \in {"absent", "lacking", "given"}, n \in BOOLEAN, e \in {None, "id", "gone"} : w = World(o, n, e)
    BY <1>3, <2>1
  <2> QED BY <2>2 DEF World, Plain
<1>4. CASE w \in LlmWorlds
  <2> DEFINE World(k, l, c) == [Plain EXCEPT !.package = k, !.loads = l, !.candidates = c]
  <2>1. LlmWorlds = {World(k, l, c) : k \in {None, "pkg"}, l \in BOOLEAN, c \in {None, "id", "bad"}}
    BY DEF LlmWorlds
  <2> HIDE DEF World
  <2>2. \E k \in {None, "pkg"}, l \in BOOLEAN, c \in {None, "id", "bad"} : w = World(k, l, c)
    BY <1>4, <2>1
  <2>3. PICK k \in {None, "pkg"}, l \in BOOLEAN, c \in {None, "id", "bad"} : w = World(k, l, c)
    BY <2>2
  <2> QED BY <2>3 DEF World, Plain
<1> QED BY <1>1, <1>2, <1>3, <1>4 DEF BuildWorlds

(* Settings that are numbers.                                              *)
Counts == {"--llm-retry-max-attempts", "--llm-retry-initial-backoff", "--llm-retry-max-backoff",
           "--llm-retry-backoff-multiplier", "--llm-concurrency-per-mapper", "--llm-qpm-limit", "--mappers"}
Texts == {"--output-language", "--plugin-root"}
Switches == {"--llm-analysis", "--llm-required"}

(* What the layers have, kind by kind.                                     *)
LEMMA ValueAtFits ==
  ASSUME NEW layer \in {"env", "profile", "base"}
  PROVE  /\ \A s \in Counts : ValueAt(s, layer) \in {3, 4, 5}
         /\ ValueAt("--llm-retry-jitter-ratio", layer) \in {"0", "1"}
         /\ \A s \in Texts : ValueAt(s, layer) = layer
<1>1. ASSUME NEW s \in Counts
      PROVE  ValueAt(s, layer) = [env |-> 3, profile |-> 4, base |-> 5][layer]
  BY DEF ValueAt, Counts
<1>2. ValueAt("--llm-retry-jitter-ratio", layer) = [env |-> "0", profile |-> "1", base |-> "0"][layer]
  BY DEF ValueAt
<1>3. \A s \in Texts : ValueAt(s, layer) = layer
  BY DEF ValueAt, Texts
<1> QED BY <1>1, <1>2, <1>3

LEMMA AtFits ==
  ASSUME NEW w, NEW layer \in {"env", "profile", "base"}
  PROVE  /\ \A s \in Counts : At(w, layer, s) \in {None, 3, 4, 5}
         /\ At(w, layer, "--llm-retry-jitter-ratio") \in {None, "0", "1"}
         /\ \A s \in Texts : At(w, layer, s) \in {None, "env", "profile", "base"}
         /\ \A s \in Switches : At(w, layer, s) \in {None, TRUE, FALSE}
<1>1. \A s \in Counts : At(w, layer, s) \in {None, 3, 4, 5}
  BY ValueAtFits DEF At, Counts, Flags
<1>2. At(w, layer, "--llm-retry-jitter-ratio") \in {None, "0", "1"}
  BY ValueAtFits DEF At, Flags
<1>3. \A s \in Texts : At(w, layer, s) \in {None, "env", "profile", "base"}
  BY ValueAtFits DEF At, Texts, Flags
<1>4. \A s \in Switches : At(w, layer, s) \in {None, TRUE, FALSE}
  BY DEF At, Switches, Flags
<1> QED BY <1>1, <1>2, <1>3, <1>4

LEMMA BaseFits ==
  ASSUME NEW w \in BuildWorlds, NEW file, NEW option
  PROVE  /\ \A s \in Counts : Base(w, file, option, s) \in {None, 3, 4, 5}
         /\ Base(w, file, option, "--llm-retry-jitter-ratio") \in {None, "0", "1"}
         /\ \A s \in Texts : Base(w, file, option, s) \in {None, "env", "profile", "base"}
         /\ \A s \in Switches : Base(w, file, option, s) \in {None, TRUE, FALSE}
<1>1. \A s : \/ Base(w, file, option, s) \in {None, At(w, "base", s)}
             \/ Base(w, file, option, s) = ValueAt(s, "profile") /\ s = "--output-language"
  BY BuildWorldsFit DEF Base
<1>2. "--output-language" \notin Counts \cup Switches
  BY DEF Counts, Switches
<1>3. ASSUME NEW s \in Counts
      PROVE  Base(w, file, option, s) \in {None, 3, 4, 5}
  <2>1. Base(w, file, option, s) \in {None, At(w, "base", s)}
    BY <1>1, <1>2
  <2>2. At(w, "base", s) \in {None, 3, 4, 5}
    BY AtFits
  <2> QED BY <2>1, <2>2
<1>4. Base(w, file, option, "--llm-retry-jitter-ratio") \in {None, "0", "1"}
  <2>1. At(w, "base", "--llm-retry-jitter-ratio") \in {None, "0", "1"}
    BY AtFits
  <2>2. Base(w, file, option, "--llm-retry-jitter-ratio") \in {None, At(w, "base", "--llm-retry-jitter-ratio")}
    BY <1>1
  <2> QED BY <2>1, <2>2
<1>5. ASSUME NEW s \in Texts
      PROVE  Base(w, file, option, s) \in {None, "env", "profile", "base"}
  <2>1. At(w, "base", s) \in {None, "env", "profile", "base"}
    BY AtFits
  <2>2. ValueAt(s, "profile") = "profile"
    BY ValueAtFits
  <2> QED BY <1>1, <2>1, <2>2
<1>6. ASSUME NEW s \in Switches
      PROVE  Base(w, file, option, s) \in {None, TRUE, FALSE}
  <2>1. Base(w, file, option, s) \in {None, At(w, "base", s)}
    BY <1>1, <1>2
  <2>2. At(w, "base", s) \in {None, TRUE, FALSE}
    BY AtFits
  <2> QED BY <2>1, <2>2
<1> QED BY <1>3, <1>4, <1>5, <1>6

(* What a typed option may have come to.                                   *)
LEMMA TypedFits ==
  ASSUME NEW p, OptsFit("build", p.opts)
  PROVE  /\ \A s \in Counts : FromCli(p, s) \in {None, 2}
         /\ FromCli(p, "--llm-retry-jitter-ratio") = None
         /\ \A s \in Texts : FromCli(p, s) \notin Dashed
         /\ \A s \in Switches : FromCli(p, s) \in {None, TRUE}
         /\ \A o \in {"--config", "--deploy-profile", "--llm-profile", "--llm-provider"} : Value(p, o) \notin Dashed
<1>0. None \notin Dashed
  BY NoneIsNoValue
<1>1. \A s \in BuildSettings \ {"mode", "--batch-mode", "--exclude-tests"} : 
        /\ FromCli(p, s) = Value(p, s)
        /\ Value(p, s) # None => s \in DOMAIN BuildOptions /\ Fits(BuildOptions[s], Value(p, s))
  BY Commands DEF FromCli, OptsFit, Value
<1>2. \A s \in Counts \cup Texts \cup Switches \cup {"--llm-retry-jitter-ratio"} :
        s \in BuildSettings \ {"mode", "--batch-mode", "--exclude-tests"}
  BY DEF Counts, Texts, Switches, BuildSettings
<1>3. \A s \in Counts : s \in DOMAIN BuildOptions => BuildOptions[s] = "count"
  BY BuildGrammar DEF Counts
<1>4. \A s \in Texts : BuildOptions[s] = "text"
  BY BuildGrammar DEF Texts
<1>5. \A s \in Switches : BuildOptions[s] = "flag"
  BY BuildGrammar DEF Switches
<1>6. \A s \in Counts : FromCli(p, s) \in {None, 2}
  BY <1>1, <1>2, <1>3 DEF Fits
<1>7. FromCli(p, "--llm-retry-jitter-ratio") = None
  BY <1>1, <1>2, BuildGrammar
<1>8. \A s \in Texts : FromCli(p, s) \notin Dashed
  BY <1>0, <1>1, <1>2, <1>4 DEF Fits
<1>9. ASSUME NEW s \in Switches
      PROVE  FromCli(p, s) \in {None, TRUE}
  <2>1. FromCli(p, s) = Value(p, s) /\ (Value(p, s) # None => Fits("flag", Value(p, s)))
    BY <1>1, <1>2, <1>5
  <2>2. Fits("flag", Value(p, s)) => Value(p, s) = TRUE
    BY DEF Fits
  <2> QED BY <2>1, <2>2
<1>10. ASSUME NEW o \in {"--config", "--deploy-profile", "--llm-profile", "--llm-provider"}
       PROVE  Value(p, o) \notin Dashed
  <2>1. o \notin {"mode", "--exclude-tests"} /\ BuildOptions[o] = "text"
    BY BuildGrammar
  <2> QED BY <1>0, <2>1, Commands DEF OptsFit, Value, Fits
<1> QED BY <1>6, <1>7, <1>8, <1>9, <1>10

(* What a build resolves is what its child processes can be told.          *)
LEMMA SettingsFit ==
  ASSUME NEW p, OptsFit("build", p.opts), NEW w \in BuildWorlds, NEW file
  PROVE  LET set == resolveBuildConfig(p, w, file) IN
         /\ \A s \in BuildSettings : FromCli(p, s) # None => set[s] = FromCli(p, s)
         /\ \A s \in Counts \ {"--mappers"} : set[s] \in {1, 2, 3, 4, 5, 30}
         /\ \A s \in {"--llm-concurrency-per-mapper", "--llm-qpm-limit"} : set[s] \in {1, 2, 3, 4, 5}
         /\ set["--mappers"] \in {2, 3, 4, 5, HostMappers}
         /\ set["--llm-retry-jitter-ratio"] \in {"0", "1", "0.2"}
         /\ set["--output-language"] \notin Dashed \cup {None}
         /\ set["--plugin-root"] \notin Dashed
         /\ \A s \in Switches : set[s] \in BOOLEAN
<1> DEFINE set == resolveBuildConfig(p, w, file)
           flag == Value(p, "--deploy-profile")
           Profile(s) == IF flag # None THEN At(w, "profile", s) ELSE None
           On(s) == IF file # None /\ s = "--llm-analysis" /\ w.of # s THEN TRUE ELSE None
<1>1. \A s \in BuildSettings :
        set[s] = FirstOf(<<FromCli(p, s), At(w, "env", s), Profile(s), Base(w, file, flag, s), On(s), Default(s)>>)
  BY DEF resolveBuildConfig
<1>2. ASSUME NEW s \in BuildSettings
      PROVE  /\ FromCli(p, s) # None => set[s] = FromCli(p, s)
             /\ Default(s) # None => set[s] # None
             /\ \/ set[s] = FromCli(p, s) \/ set[s] = At(w, "env", s) \/ set[s] = Profile(s)
                \/ set[s] = Base(w, file, flag, s) \/ set[s] = On(s) \/ set[s] = Default(s)
  <2>1. PICK a, b, c, d, e, f : /\ a = FromCli(p, s) /\ b = At(w, "env", s) /\ c = Profile(s)
                                /\ d = Base(w, file, flag, s) /\ e = On(s) /\ f = Default(s)
    OBVIOUS
  <2>2. set[s] = FirstOf(<<a, b, c, d, e, f>>)
    BY <1>1, <2>1
  <2>3. /\ a # None => set[s] = a
        /\ f # None => set[s] # None
        /\ set[s] \in {a, b, c, d, e, f}
    BY <2>2, FirstOfSix
  <2> HIDE DEF set, flag, Profile, On
  <2> QED BY <2>1, <2>3
<1>3. /\ \A s \in Counts : At(w, "env", s) \in {None, 3, 4, 5} /\ Profile(s) \in {None, 3, 4, 5}
      /\ At(w, "env", "--llm-retry-jitter-ratio") \in {None, "0", "1"}
      /\ Profile("--llm-retry-jitter-ratio") \in {None, "0", "1"}
      /\ \A s \in Texts : /\ At(w, "env", s) \in {None, "env", "profile", "base"}
                          /\ Profile(s) \in {None, "env", "profile", "base"}
      /\ \A s \in Switches : At(w, "env", s) \in {None, TRUE, FALSE} /\ Profile(s) \in {None, TRUE, FALSE}
  BY AtFits
<1>4. /\ \A s \in Counts : On(s) = None
      /\ On("--llm-retry-jitter-ratio") = None /\ On("--output-language") = None /\ On("--plugin-root") = None
      /\ \A s \in Switches : On(s) \in {None, TRUE}
  BY DEF Counts
<1>5. /\ \A s \in Counts \ {"--mappers"} : Default(s) \in {1, 2, 3, 30}
      /\ Default("--mappers") = HostMappers /\ Default("--llm-retry-jitter-ratio") = "0.2"
      /\ Default("--output-language") = "en" /\ Default("--plugin-root") = None
      /\ \A s \in Switches : Default(s) = FALSE
  BY DEF Default, Counts, Switches
<1>6. None \notin Int /\ None \notin BOOLEAN /\ None \notin PlainWords /\ HostMappers \in Int
  BY NoneIsNoValue, BudgetsHaveWords
<1>7. \A s \in Counts \cup Texts \cup Switches \cup {"--llm-retry-jitter-ratio"} : s \in BuildSettings
  BY DEF Counts, Texts, Switches, BuildSettings
<1> HIDE DEF set, flag, Profile, On
<1>13. ASSUME NEW s \in BuildSettings
       PROVE  \/ set[s] = FromCli(p, s) \/ set[s] = At(w, "env", s) \/ set[s] = Profile(s)
              \/ set[s] = Base(w, file, flag, s) \/ set[s] = On(s) \/ set[s] = Default(s)
  BY <1>2
<1>14. ASSUME NEW s \in Counts
       PROVE  set[s] \in {2, 3, 4, 5, Default(s)}
  <2>1. FromCli(p, s) \in {None, 2} /\ Base(w, file, flag, s) \in {None, 3, 4, 5}
    BY TypedFits, BaseFits
  <2>2. Default(s) # None
    BY <1>5, <1>6
  <2>3. set[s] # None
    BY <1>2, <1>7, <2>2
  <2>4. At(w, "env", s) \in {None, 3, 4, 5} /\ Profile(s) \in {None, 3, 4, 5} /\ On(s) = None
    BY <1>3, <1>4
  <2>5. \/ set[s] = FromCli(p, s) \/ set[s] = At(w, "env", s) \/ set[s] = Profile(s)
        \/ set[s] = Base(w, file, flag, s) \/ set[s] = On(s) \/ set[s] = Default(s)
    BY <1>7, <1>13
  <2> QED BY <2>1, <2>3, <2>4, <2>5
<1>8. ASSUME NEW s \in Counts \ {"--mappers"}
      PROVE  set[s] \in {1, 2, 3, 4, 5, 30}
  BY <1>5, <1>14
<1>15. ASSUME NEW s \in {"--llm-concurrency-per-mapper", "--llm-qpm-limit"}
       PROVE  set[s] \in {1, 2, 3, 4, 5}
  <2>1. s \in Counts /\ Default(s) = 1
    BY DEF Counts, Default
  <2> QED BY <1>14, <2>1
<1>9. set["--mappers"] \in {2, 3, 4, 5, HostMappers}
  <2>1. "--mappers" \in Counts
    BY DEF Counts
  <2>2. set["--mappers"] \in {2, 3, 4, 5, Default("--mappers")}
    BY <1>14, <2>1
  <2> QED BY <1>5, <2>2
<1>10. set["--llm-retry-jitter-ratio"] \in {"0", "1", "0.2"}
  <2> DEFINE s == "--llm-retry-jitter-ratio"
  <2>1. None # "0.2"
    BY <1>6 DEF PlainWords
  <2>2. set[s] # None
    BY <1>2, <1>5, <1>7, <2>1
  <2>3. FromCli(p, s) = None /\ Base(w, file, flag, s) \in {None, "0", "1"}
    BY TypedFits, BaseFits
  <2>4. \/ set[s] = FromCli(p, s) \/ set[s] = At(w, "env", s) \/ set[s] = Profile(s)
        \/ set[s] = Base(w, file, flag, s) \/ set[s] = On(s) \/ set[s] = Default(s)
    BY <1>7, <1>13
  <2> QED BY <1>3, <1>4, <1>5, <2>2, <2>3, <2>4
<1>11. set["--output-language"] \notin Dashed \cup {None} /\ set["--plugin-root"] \notin Dashed
  <2>1. "--output-language" \in Texts /\ "--plugin-root" \in Texts
    BY DEF Texts
  <2>2. \A v \in {None, "env", "profile", "base", "en"} : v \notin Dashed
    BY NoneIsNoValue, PlainWordsAreTaken DEF PlainWords
  <2>3. None # "en"
    BY <1>6 DEF PlainWords
  <2>4. ASSUME NEW s \in {"--output-language", "--plugin-root"}
        PROVE  set[s] \notin Dashed
    <3>1. FromCli(p, s) \notin Dashed /\ Base(w, file, flag, s) \in {None, "env", "profile", "base"}
      BY <2>1, TypedFits, BaseFits
    <3>2. /\ At(w, "env", s) \in {None, "env", "profile", "base"} /\ Profile(s) \in {None, "env", "profile", "base"}
          /\ On(s) = None /\ Default(s) \in {None, "en"}
      BY <1>3, <1>4, <1>5, <2>1
    <3>3. \/ set[s] = FromCli(p, s) \/ set[s] = At(w, "env", s) \/ set[s] = Profile(s)
          \/ set[s] = Base(w, file, flag, s) \/ set[s] = On(s) \/ set[s] = Default(s)
      BY <1>7, <1>13, <2>1
    <3> QED BY <2>2, <3>1, <3>2, <3>3
  <2>5. set["--output-language"] # None
    BY <1>2, <1>5, <1>7, <2>1, <2>3
  <2> QED BY <2>4, <2>5
<1>12. ASSUME NEW s \in Switches
       PROVE  set[s] \in BOOLEAN
  <2>1. set[s] \in {None, TRUE, FALSE}
    <3>1. \/ set[s] = FromCli(p, s) \/ set[s] = At(w, "env", s) \/ set[s] = Profile(s)
          \/ set[s] = Base(w, file, flag, s) \/ set[s] = On(s) \/ set[s] = Default(s)
      BY <1>2, <1>7
    <3>2. FromCli(p, s) \in {None, TRUE} /\ Base(w, file, flag, s) \in {None, TRUE, FALSE}
      BY TypedFits, BaseFits
    <3> QED BY <1>3, <1>4, <1>5, <3>1, <3>2
  <2>2. set[s] # None
    BY <1>2, <1>5, <1>6, <1>7
  <2> QED BY <2>1, <2>2
<1> QED BY <1>2, <1>8, <1>15, <1>9, <1>10, <1>11, <1>12 DEF set

-----------------------------------------------------------------------------
(* Sharing a budget.                                                       *)

(* Division: a quotient and a rest.                                        *)
LEMMA Divides ==
  ASSUME NEW a \in Nat, NEW d \in Nat \ {0}
  PROVE  /\ a \div d \in Nat /\ a % d \in 0 .. d - 1
         /\ a = (a \div d) * d + (a % d)
<1>1. a \div d \in Int /\ a \div d >= 0
  OBVIOUS
<1>2. a = d * (a \div d) + (a % d)
  OBVIOUS
<1>3. a % d \in 0 .. d - 1
  OBVIOUS
<1> QED BY <1>1, <1>2, <1>3

\* The sum of the parts of the first n.
PartsOf(total, slots, n) == n * (total \div slots) + IF n <= total % slots THEN n ELSE total % slots

(* One more slot gets a part of at least 1, and at most all.               *)
LEMMA OnePartMore ==
  ASSUME NEW total \in Nat \ {0}, NEW slots \in 1 .. total, NEW n \in Nat \ {0}
  PROVE  /\ splitIntegerBudget(total, slots, n) \in 1 .. total
         /\ PartsOf(total, slots, n) = PartsOf(total, slots, n - 1) + splitIntegerBudget(total, slots, n)
<1> DEFINE q == total \div slots
           r == total % slots
<1>0. total \in Nat /\ slots \in Nat \ {0}
  OBVIOUS
<1>1. q \in Nat /\ r \in 0 .. slots - 1 /\ total = q * slots + r
  <2>1. /\ total \div slots \in Nat /\ total % slots \in 0 .. slots - 1
        /\ total = (total \div slots) * slots + (total % slots)
    BY <1>0, Divides
  <2> QED BY <2>1
<1>2. splitIntegerBudget(total, slots, n) = Maximum(1, q + IF n <= r THEN 1 ELSE 0)
  BY DEF splitIntegerBudget
<1>3. /\ PartsOf(total, slots, n) = n * q + (IF n <= r THEN n ELSE r)
      /\ PartsOf(total, slots, n - 1) = (n - 1) * q + (IF n - 1 <= r THEN n - 1 ELSE r)
  BY DEF PartsOf
<1> HIDE DEF q, r
<1>4. q >= 1
  <2>1. SUFFICES ASSUME q = 0 PROVE FALSE
    BY <1>1
  <2>2. q * slots = 0
    BY <2>1
  <2> QED BY <1>1, <2>2
<1>5. q * slots >= q
  <2>1. q * slots = q + q * (slots - 1)
    BY <1>1
  <2>2. q * (slots - 1) >= 0
    BY <1>1
  <2> QED BY <1>1, <2>1, <2>2
<1>6. q + 0 <= total /\ (n <= r => q + 1 <= total)
  BY <1>1, <1>5
<1>7. splitIntegerBudget(total, slots, n) = q + IF n <= r THEN 1 ELSE 0
  BY <1>1, <1>2, <1>4 DEF Maximum
<1>8. n * q = (n - 1) * q + q
  BY <1>1
<1>9. PICK a, b \in Int : a = n * q /\ b = (n - 1) * q
  BY <1>1
<1>10. PartsOf(total, slots, n) = PartsOf(total, slots, n - 1) + splitIntegerBudget(total, slots, n)
  BY <1>1, <1>3, <1>7, <1>8, <1>9
<1> QED BY <1>1, <1>4, <1>6, <1>7, <1>10

(* All slots together get no more than there is.                           *)
LEMMA AllParts ==
  ASSUME NEW total \in Nat \ {0}, NEW slots \in 1 .. total, NEW n \in 0 .. slots
  PROVE  PartsOf(total, slots, 0) = 0 /\ PartsOf(total, slots, n) <= total
<1> DEFINE q == total \div slots
           r == total % slots
<1>0. total \in Nat /\ slots \in Nat \ {0}
  OBVIOUS
<1>1. q \in Nat /\ r \in 0 .. slots - 1 /\ total = q * slots + r
  <2>1. /\ total \div slots \in Nat /\ total % slots \in 0 .. slots - 1
        /\ total = (total \div slots) * slots + (total % slots)
    BY <1>0, Divides
  <2> QED BY <2>1
<1>2. /\ PartsOf(total, slots, n) = n * q + (IF n <= r THEN n ELSE r)
      /\ PartsOf(total, slots, 0) = 0 * q + (IF 0 <= r THEN 0 ELSE r)
  BY DEF PartsOf
<1> HIDE DEF q, r
<1>3. n * q <= q * slots
  <2>1. q * slots = n * q + (slots - n) * q
    BY <1>1
  <2>2. (slots - n) * q >= 0
    BY <1>1
  <2>3. n * q \in Int /\ (slots - n) * q \in Int
    BY <1>1
  <2> QED BY <2>1, <2>2, <2>3
<1>4. PICK a, b \in Int : a = n * q /\ b = q * slots
  BY <1>1
<1> QED BY <1>1, <1>2, <1>3, <1>4

(* No more segments than slots.                                            *)
LEMMA SegmentsFit ==
  ASSUME NEW slots \in Nat \ {0}
  PROVE  Segments(slots) \in 0 .. slots
<1> DEFINE c == (Missing + slots - 1) \div slots
           size == Maximum(1, c)
           n == (Missing + size - 1) \div size
           x == (Missing + slots - 1) % slots
           y == (Missing + size - 1) % size
<1>0. Missing \in Nat /\ Missing + slots - 1 \in Nat
  BY BudgetsHaveWords
<1>1. c \in Nat /\ x \in 0 .. slots - 1 /\ Missing + slots - 1 = c * slots + x
  BY <1>0, Divides
<1>2. size \in Nat \ {0} /\ size >= c /\ Missing + size - 1 \in Nat
  BY <1>0, <1>1 DEF Maximum
<1>3. n \in Nat /\ y \in 0 .. size - 1 /\ Missing + size - 1 = n * size + y
  BY <1>2, Divides
<1>4. Segments(slots) = n
  BY DEF Segments
<1> HIDE DEF n, size, c, x, y
<1>5. c * slots <= size * slots
  <2>1. size * slots = c * slots + (size - c) * slots
    BY <1>1, <1>2
  <2>2. (size - c) * slots >= 0
    BY <1>1, <1>2
  <2>3. c * slots \in Int /\ (size - c) * slots \in Int
    BY <1>1, <1>2
  <2> QED BY <2>1, <2>2, <2>3
<1>6. Missing <= size * slots
  <2>1. c * slots \in Int /\ size * slots \in Int
    BY <1>1, <1>2
  <2> QED BY <1>0, <1>1, <1>5, <2>1
<1>7. n <= slots
  <2>1. SUFFICES ASSUME n >= slots + 1 PROVE FALSE
    BY <1>3
  <2>2. n * size = (slots + 1) * size + (n - slots - 1) * size
    BY <1>2, <1>3
  <2>3. (n - slots - 1) * size >= 0
    BY <1>2, <1>3, <2>1
  <2>4. (slots + 1) * size = size * slots + size
    BY <1>2
  <2>5. n * size \in Int /\ size * slots \in Int /\ (n - slots - 1) * size \in Int /\ (slots + 1) * size \in Int
    BY <1>2, <1>3
  <2> QED BY <1>0, <1>2, <1>3, <1>6, <2>2, <2>3, <2>4, <2>5
<1> QED BY <1>3, <1>4, <1>7

(* The total is the last of the sums.                                      *)
LEMMA TotalIs ==
  ASSUME NEW started, NEW o, Len(started) \in Nat, NEW r, r[0] = 0,
         \A n \in 1 .. Len(started) : r[n] = r[n - 1] + Value(started[n].line, o)
  PROVE  Total(started, o) = r[Len(started)]
<1> DEFINE sum == CHOOSE f : f = [n \in 0 .. Len(started) |->
                                    IF n = 0 THEN 0 ELSE f[n - 1] + Value(started[n].line, o)]
<1>1. sum = [n \in 0 .. Len(started) |-> IF n = 0 THEN 0 ELSE sum[n - 1] + Value(started[n].line, o)]
  <2>1. PICK f : f = [n \in 0 .. Len(started) |-> r[n]]
    OBVIOUS
  <2>2. \A n \in 0 .. Len(started) : f[n] = r[n]
    BY <2>1
  <2>3. \A n \in 0 .. Len(started) : r[n] = IF n = 0 THEN 0 ELSE f[n - 1] + Value(started[n].line, o)
    BY <2>2
  <2>4. f = [n \in 0 .. Len(started) |-> IF n = 0 THEN 0 ELSE f[n - 1] + Value(started[n].line, o)]
    BY <2>1, <2>3, Zenon
  <2> QED BY <2>4, Zenon
<1>2. \A n \in 0 .. Len(started) : sum[n] = IF n = 0 THEN 0 ELSE sum[n - 1] + Value(started[n].line, o)
  BY <1>1, Zenon
<1>3. Total(started, o) = sum[Len(started)]
  BY DEF Total
<1> HIDE DEF sum
<1> DEFINE Wrong == {n \in 0 .. Len(started) : sum[n] # r[n]}
<1>4. Wrong = {}
  <2>1. SUFFICES ASSUME Wrong # {} PROVE FALSE
    OBVIOUS
  <2>2. PICK m \in Wrong : \A n \in Wrong : m <= n
    <3>1. Wrong \in SUBSET Nat
      OBVIOUS
    <3> HIDE DEF Wrong
    <3> QED BY <2>1, <3>1, LeastNumber
  <2>3. m # 0
    BY <1>2
  <2>4. m - 1 \in 0 .. Len(started) /\ m - 1 \notin Wrong /\ m \in 1 .. Len(started)
    BY <2>2, <2>3
  <2> QED BY <1>2, <2>2, <2>3, <2>4
<1> QED BY <1>3, <1>4

(* Together the parts of a budget are no more than the budget.             *)
LEMMA TotalKept ==
  ASSUME NEW total \in Nat \ {0}, NEW slots \in 1 .. total, NEW started, NEW o,
         Len(started) \in 0 .. slots,
         \A i \in 1 .. Len(started) : Value(started[i].line, o) = splitIntegerBudget(total, slots, i)
  PROVE  Total(started, o) <= total
<1>1. PICK r : r = [n \in 0 .. Len(started) |-> PartsOf(total, slots, n)]
  OBVIOUS
<1>2. r[0] = 0 /\ \A n \in 1 .. Len(started) : r[n] = r[n - 1] + Value(started[n].line, o)
  <2>1. 0 \in 0 .. slots
    OBVIOUS
  <2>2. r[0] = 0
    BY <1>1, <2>1, AllParts
  <2>3. ASSUME NEW n \in 1 .. Len(started)
        PROVE  r[n] = r[n - 1] + Value(started[n].line, o)
    <3>1. r[n] = PartsOf(total, slots, n) /\ r[n - 1] = PartsOf(total, slots, n - 1)
      BY <1>1
    <3>2. PartsOf(total, slots, n) = PartsOf(total, slots, n - 1) + splitIntegerBudget(total, slots, n)
      BY OnePartMore
    <3> QED BY <3>1, <3>2
  <2> QED BY <2>2, <2>3
<1>3. Total(started, o) = r[Len(started)]
  BY <1>2, TotalIs
<1>4. r[Len(started)] = PartsOf(total, slots, Len(started))
  BY <1>1
<1> QED BY <1>3, <1>4, AllParts

-----------------------------------------------------------------------------
(* What the argument list of a worker says.                                *)

LEMMA AddsThen ==
  ASSUME NEW verb \in Hidden, NEW s, NEW t, NEW told, NEW o, NEW v,
         Adds(verb, s, told), Adds(verb, t, Only(verb, o, v))
  PROVE  \E then : /\ Adds(verb, s \o t, then)
                   /\ \A f \in DOMAIN Grammar[verb] : then[f] = IF f = o /\ v # None THEN v ELSE told[f]
<1>1. PICK then : then = Over(verb, told, Only(verb, o, v))
  OBVIOUS
<1>2. Adds(verb, s \o t, then)
  BY <1>1, AddsBoth
<1>3. \A f \in DOMAIN Grammar[verb] : then[f] = IF f = o /\ v # None THEN v ELSE told[f]
  BY <1>1 DEF Over, Only
<1> QED BY <1>2, <1>3

\* The words as they stand, the name of the command in front.
Tells(verb, words, told) == \E rest : Adds(verb, rest, told) /\ words = <<verb>> \o rest

LEMMA JoinsAreOne ==
  ASSUME NEW r, NEW s, NEW t, IsWords(r), IsWords(s), IsWords(t)
  PROVE  (r \o s) \o t = r \o (s \o t)
<1>1. PICK R, S, T : r \in Seq(R) /\ s \in Seq(S) /\ t \in Seq(T)
  BY DEF IsWords
<1>2. r \in Seq(R \cup S \cup T) /\ s \in Seq(R \cup S \cup T) /\ t \in Seq(R \cup S \cup T)
  BY <1>1
<1> QED BY <1>2

LEMMA TellsFirst ==
  ASSUME NEW verb \in Hidden, NEW o, NEW v, NEW t, Adds(verb, t, Only(verb, o, v))
  PROVE  Tells(verb, <<verb>> \o t, Only(verb, o, v))
BY DEF Tells

(* A command and what it was told so far, with one option more.            *)
LEMMA TellsThen ==
  ASSUME NEW verb \in Hidden, NEW s, NEW t, NEW told, NEW o, NEW v,
         Tells(verb, s, told), Adds(verb, t, Only(verb, o, v))
  PROVE  \E then : /\ Tells(verb, s \o t, then)
                   /\ \A f \in DOMAIN Grammar[verb] : then[f] = IF f = o /\ v # None THEN v ELSE told[f]
<1>1. PICK rest : Adds(verb, rest, told) /\ s = <<verb>> \o rest
  BY DEF Tells
<1>2. PICK then : /\ Adds(verb, rest \o t, then)
                  /\ \A f \in DOMAIN Grammar[verb] : then[f] = IF f = o /\ v # None THEN v ELSE told[f]
  BY <1>1, AddsThen
<1>3. s \o t = <<verb>> \o (rest \o t)
  BY <1>1, OneWord, JoinsAreOne DEF Adds
<1> QED BY <1>2, <1>3 DEF Tells

LEMMA TellsBoth ==
  ASSUME NEW verb \in Hidden, NEW s, NEW t, NEW told, NEW more,
         Tells(verb, s, told), Adds(verb, t, more)
  PROVE  \E then : /\ Tells(verb, s \o t, then)
                   /\ \A f \in DOMAIN Grammar[verb] : then[f] = IF more[f] # None THEN more[f] ELSE told[f]
<1>1. PICK rest : Adds(verb, rest, told) /\ s = <<verb>> \o rest
  BY DEF Tells
<1>2. PICK then : then = Over(verb, told, more)
  OBVIOUS
<1>3. Adds(verb, rest \o t, then)
  BY <1>1, <1>2, AddsBoth
<1>4. \A f \in DOMAIN Grammar[verb] : then[f] = IF more[f] # None THEN more[f] ELSE told[f]
  BY <1>2 DEF Over
<1>5. s \o t = <<verb>> \o (rest \o t)
  BY <1>1, OneWord, JoinsAreOne DEF Adds
<1> QED BY <1>3, <1>4, <1>5 DEF Tells

LEMMA TextAdds ==
  ASSUME NEW verb \in Hidden, NEW o \in DOMAIN Grammar[verb] \ HelpWords,
         Grammar[verb][o] = "text", NEW v, v \notin Dashed, v # None
  PROVE  Adds(verb, <<o, v>>, Only(verb, o, v))
<1>1. Opt(o, v) = <<o, v>>
  BY DEF Opt
<1> QED BY <1>1, AddsOpt

(* The part about the LLM.                                                 *)
LlmTold(p, w, set, file, told) ==
  /\ told["--llm-analysis"] # None
  /\ told["--config"] = IF Value(p, "--config") = None /\ "derived" \notin w.files THEN None
                        ELSE FirstOf(<<Value(p, "--config"), "derived">>)
  /\ told["--llm-profile"] = Value(p, "--llm-profile")
  /\ told["--llm-provider"] = LlmPackage(p, w, file)
  /\ told["--llm-required"] # None <=> set["--llm-required"]
  /\ \A s \in {"--llm-retry-max-attempts", "--llm-retry-initial-backoff", "--llm-retry-max-backoff",
               "--llm-retry-backoff-multiplier", "--llm-retry-jitter-ratio"} : told[s] = set[s]

(* What buildLlmWorkerArgs writes is what a worker reads.                  *)
LEMMA LlmArgsTell ==
  ASSUME NEW p, NEW w, NEW set, NEW file, set["--llm-analysis"],
         \A o \in {"--config", "--llm-profile", "--llm-provider"} : Value(p, o) \notin Dashed,
         w.package \in {None, "pkg"}, w.candidates \in {None, "id", "bad"},
         set["--llm-required"] \in BOOLEAN,
         \A s \in Counts \ {"--mappers"} : set[s] \in {1, 2, 3, 4, 5, 30},
         set["--llm-retry-jitter-ratio"] \in {"0", "1", "0.2"}
  PROVE  \E told : /\ Adds("batch-mapper-worker", buildLlmWorkerArgs(p, w, set, file), told)
                   /\ LlmTold(p, w, set, file, told)
                   /\ \A o \in {"--state-dir", "--project-root", "--output-language", "--indexes-file",
                        "--plugin-root",
                                "--global-llm-concurrency", "--llm-qpm-limit"} : told[o] = None
<1> DEFINE verb == "batch-mapper-worker"
           config == IF Value(p, "--config") = None /\ "derived" \notin w.files THEN None
                     ELSE FirstOf(<<Value(p, "--config"), "derived">>)
           candidates == IF file = None THEN None ELSE w.candidates
<1>0. verb \in Hidden /\ Grammar[verb] = WorkerOptions
  BY Commands DEF Hidden
<1>1. /\ None \notin Dashed /\ "derived" \notin Dashed /\ "profilePkg" \notin Dashed /\ "pkg" \notin Dashed
      /\ "id" \notin Dashed /\ "bad" \notin Dashed /\ None \notin Int
  BY NoneIsNoValue, PlainWordsAreTaken DEF PlainWords
<1>2. config \notin Dashed /\ candidates \notin Dashed
  <2>1. FirstOf(<<Value(p, "--config"), "derived">>) \in {Value(p, "--config"), "derived"}
    BY FirstOfTwo
  <2> QED BY <1>1, <2>1
<1>3. LlmPackage(p, w, file) \notin Dashed
  <2>1. PICK a, b, c : /\ a = Value(p, "--llm-provider")
                       /\ b = IF Value(p, "--llm-profile") # None THEN "profilePkg" ELSE None
                       /\ c = IF file # None THEN w.package ELSE None
    OBVIOUS
  <2>2. LlmPackage(p, w, file) = FirstOf(<<a, b, c>>)
    BY <2>1 DEF LlmPackage
  <2>3. LlmPackage(p, w, file) \in {a, b, c}
    BY <2>2, FirstOfThree
  <2>4. a \notin Dashed /\ b \notin Dashed /\ c \notin Dashed
    BY <1>1, <2>1
  <2> QED BY <2>3, <2>4
<1>4. \A o \in DOMAIN Grammar[verb] : o \notin HelpWords
  <2>1. \A o \in DOMAIN WorkerOptions : o \notin HelpWords
    BY DEF WorkerOptions, OfKinds, HelpWords
  <2> QED BY <1>0, <2>1
<1> HIDE DEF verb
<1>5. PICK yes, req : yes = TRUE /\ req = IF set["--llm-required"] THEN TRUE ELSE None
  OBVIOUS
<1>6. yes # None /\ (req # None <=> set["--llm-required"])
  <2>1. TRUE # None
    BY NoneIsNoValue
  <2> QED BY <1>5, <2>1, Zenon
<1>7. Adds(verb, <<"--llm-analysis">>, Only(verb, "--llm-analysis", yes))
  BY <1>0, <1>4, <1>5, AddsFlag, WorkerGrammar
<1>8. Adds(verb, Opt("--config", config), Only(verb, "--config", config))
  BY <1>0, <1>2, <1>3, <1>4, AddsOpt, WorkerGrammar
<1>9. Adds(verb, Opt("--llm-profile", Value(p, "--llm-profile")), Only(verb, "--llm-profile", Value(p,
          "--llm-profile")))
  BY <1>0, <1>2, <1>3, <1>4, AddsOpt, WorkerGrammar
<1>10. Adds(verb, Opt("--llm-provider", LlmPackage(p, w, file)), Only(verb, "--llm-provider", LlmPackage(p, w, file)))
  BY <1>0, <1>2, <1>3, <1>4, AddsOpt, WorkerGrammar
<1>11. Adds(verb, Opt("--llm-provider-model-candidates", candidates), Only(verb, "--llm-provider-model-candidates",
           candidates))
  BY <1>0, <1>2, <1>3, <1>4, AddsOpt, WorkerGrammar
<1>12. Adds(verb, Flag("--llm-required", set["--llm-required"]), Only(verb, "--llm-required", req))
  BY <1>0, <1>4, <1>5, AddsFlagIf, WorkerGrammar
<1>13. Adds(verb, Number("--llm-retry-max-attempts", set["--llm-retry-max-attempts"]), Only(verb,
           "--llm-retry-max-attempts", set["--llm-retry-max-attempts"]))
  <2>1. "--llm-retry-max-attempts" \in Counts \ {"--mappers"}
    BY DEF Counts
  <2>2. set["--llm-retry-max-attempts"] \in 0 .. MaxNumber /\ set["--llm-retry-max-attempts"] >= 1
    BY <2>1, NumbersHaveWords, BudgetsHaveWords
  <2>3. Adds(verb, <<"--llm-retry-max-attempts", ToString(set["--llm-retry-max-attempts"])>>, Only(verb,
            "--llm-retry-max-attempts", set["--llm-retry-max-attempts"]))
    BY <1>0, <1>4, <2>2, AddsNumber, WorkerGrammar
  <2> QED BY <2>3 DEF Number
<1>14. Adds(verb, Number("--llm-retry-initial-backoff", set["--llm-retry-initial-backoff"]), Only(verb,
           "--llm-retry-initial-backoff", set["--llm-retry-initial-backoff"]))
  <2>1. "--llm-retry-initial-backoff" \in Counts \ {"--mappers"}
    BY DEF Counts
  <2>2. set["--llm-retry-initial-backoff"] \in 0 .. MaxNumber /\ set["--llm-retry-initial-backoff"] >= 1
    BY <2>1, NumbersHaveWords, BudgetsHaveWords
  <2>3. Adds(verb, <<"--llm-retry-initial-backoff", ToString(set["--llm-retry-initial-backoff"])>>, Only(verb,
            "--llm-retry-initial-backoff", set["--llm-retry-initial-backoff"]))
    BY <1>0, <1>4, <2>2, AddsNumber, WorkerGrammar
  <2> QED BY <2>3 DEF Number
<1>15. Adds(verb, Number("--llm-retry-max-backoff", set["--llm-retry-max-backoff"]), Only(verb,
           "--llm-retry-max-backoff", set["--llm-retry-max-backoff"]))
  <2>1. "--llm-retry-max-backoff" \in Counts \ {"--mappers"}
    BY DEF Counts
  <2>2. set["--llm-retry-max-backoff"] \in 0 .. MaxNumber /\ set["--llm-retry-max-backoff"] >= 1
    BY <2>1, NumbersHaveWords, BudgetsHaveWords
  <2>3. Adds(verb, <<"--llm-retry-max-backoff", ToString(set["--llm-retry-max-backoff"])>>, Only(verb,
            "--llm-retry-max-backoff", set["--llm-retry-max-backoff"]))
    BY <1>0, <1>4, <2>2, AddsNumber, WorkerGrammar
  <2> QED BY <2>3 DEF Number
<1>16. Adds(verb, Number("--llm-retry-backoff-multiplier", set["--llm-retry-backoff-multiplier"]), Only(verb,
           "--llm-retry-backoff-multiplier", set["--llm-retry-backoff-multiplier"]))
  <2>1. "--llm-retry-backoff-multiplier" \in Counts \ {"--mappers"}
    BY DEF Counts
  <2>2. set["--llm-retry-backoff-multiplier"] \in 0 .. MaxNumber /\ set["--llm-retry-backoff-multiplier"] >= 1
    BY <2>1, NumbersHaveWords, BudgetsHaveWords
  <2>3. Adds(verb, <<"--llm-retry-backoff-multiplier", ToString(set["--llm-retry-backoff-multiplier"])>>,
            Only(verb, "--llm-retry-backoff-multiplier", set["--llm-retry-backoff-multiplier"]))
    BY <1>0, <1>4, <2>2, AddsNumber, WorkerGrammar
  <2> QED BY <2>3 DEF Number
<1>17. Adds(verb, <<"--llm-retry-jitter-ratio", set["--llm-retry-jitter-ratio"]>>, Only(verb,
           "--llm-retry-jitter-ratio", set["--llm-retry-jitter-ratio"]))
  <2>1. PICK v : v = set["--llm-retry-jitter-ratio"]
    OBVIOUS
  <2>2. v \notin Dashed /\ v # None /\ v \in {"0", "1", "0.2"}
    BY <2>1, NoneIsNoValue, PlainWordsAreTaken DEF PlainWords
  <2>3. TakesWord(verb, v) /\ Accepts("ratio", v) /\ ValueOf("ratio", v) = v
    BY <2>2 DEF TakesWord, Accepts, ValueOf
  <2>4. Adds(verb, <<"--llm-retry-jitter-ratio", v>>, Only(verb, "--llm-retry-jitter-ratio", v))
    BY <1>0, <1>4, <2>2, <2>3, AddsValue, WorkerGrammar
  <2> QED BY <2>1, <2>4
<1>18. PICK s1, s2, s3, s4, s5, s6, s7, s8, s9, s10, s11 :
        /\ s1 = <<"--llm-analysis">>
        /\ s2 = s1 \o Opt("--config", config)
        /\ s3 = s2 \o Opt("--llm-profile", Value(p, "--llm-profile"))
        /\ s4 = s3 \o Opt("--llm-provider", LlmPackage(p, w, file))
        /\ s5 = s4 \o Opt("--llm-provider-model-candidates", candidates)
        /\ s6 = s5 \o Flag("--llm-required", set["--llm-required"])
        /\ s7 = s6 \o Number("--llm-retry-max-attempts", set["--llm-retry-max-attempts"])
        /\ s8 = s7 \o Number("--llm-retry-initial-backoff", set["--llm-retry-initial-backoff"])
        /\ s9 = s8 \o Number("--llm-retry-max-backoff", set["--llm-retry-max-backoff"])
        /\ s10 = s9 \o Number("--llm-retry-backoff-multiplier", set["--llm-retry-backoff-multiplier"])
        /\ s11 = s10 \o <<"--llm-retry-jitter-ratio", set["--llm-retry-jitter-ratio"]>>
  OBVIOUS
<1>19. buildLlmWorkerArgs(p, w, set, file) = s11
  BY <1>18 DEF buildLlmWorkerArgs
<1> HIDE DEF config, candidates
<1>20. PICK t1 : Adds(verb, s1, t1)
           /\ \A f \in DOMAIN Grammar[verb] : t1[f] = IF f = "--llm-analysis" THEN yes ELSE None
  <2>1. Adds(verb, s1, Only(verb, "--llm-analysis", yes))
    BY <1>7, <1>18
  <2>2. \A f \in DOMAIN Grammar[verb] : Only(verb, "--llm-analysis",
            yes)[f] = IF f = "--llm-analysis" THEN yes ELSE None
    BY DEF Only
  <2> QED BY <2>1, <2>2
<1>21. PICK t2 : /\ Adds(verb, s2, t2)
               /\ \A f \in DOMAIN Grammar[verb] : t2[f] = IF f = "--config" /\ config # None THEN config ELSE t1[f]
  <2>1. PICK s, v : s = Opt("--config", config) /\ v = config
    OBVIOUS
  <2>2. s2 = s1 \o s /\ Adds(verb, s, Only(verb, "--config", v)) /\ Adds(verb, s1, t1) /\ verb \in Hidden
    BY <1>0, <1>20, <1>8, <1>18, <2>1
  <2>3. PICK t : /\ Adds(verb, s2, t)
                 /\ \A f \in DOMAIN Grammar[verb] : t[f] = IF f = "--config" /\ v # None THEN v ELSE t1[f]
    BY <2>2, AddsThen
  <2> QED BY <2>1, <2>3
<1>22. PICK t3 : /\ Adds(verb, s3, t3)
               /\ \A f \in DOMAIN Grammar[verb] : t3[f] = IF f = "--llm-profile" /\ Value(p,
                    "--llm-profile") # None THEN Value(p, "--llm-profile") ELSE t2[f]
  <2>1. PICK s, v : s = Opt("--llm-profile", Value(p, "--llm-profile")) /\ v = Value(p, "--llm-profile")
    OBVIOUS
  <2>2. s3 = s2 \o s /\ Adds(verb, s, Only(verb, "--llm-profile", v)) /\ Adds(verb, s2, t2) /\ verb \in Hidden
    BY <1>0, <1>21, <1>9, <1>18, <2>1
  <2>3. PICK t : /\ Adds(verb, s3, t)
                 /\ \A f \in DOMAIN Grammar[verb] : t[f] = IF f = "--llm-profile" /\ v # None THEN v ELSE t2[f]
    BY <2>2, AddsThen
  <2> QED BY <2>1, <2>3
<1>23. PICK t4 : /\ Adds(verb, s4, t4)
               /\ \A f \in DOMAIN Grammar[verb] : t4[f] = IF f = "--llm-provider" /\ LlmPackage(p, w,
                    file) # None THEN LlmPackage(p, w, file) ELSE t3[f]
  <2>1. PICK s, v : s = Opt("--llm-provider", LlmPackage(p, w, file)) /\ v = LlmPackage(p, w, file)
    OBVIOUS
  <2>2. s4 = s3 \o s /\ Adds(verb, s, Only(verb, "--llm-provider", v)) /\ Adds(verb, s3, t3) /\ verb \in Hidden
    BY <1>0, <1>22, <1>10, <1>18, <2>1
  <2>3. PICK t : /\ Adds(verb, s4, t)
                 /\ \A f \in DOMAIN Grammar[verb] : t[f] = IF f = "--llm-provider" /\ v # None THEN v ELSE t3[f]
    BY <2>2, AddsThen
  <2> QED BY <2>1, <2>3
<1>24. PICK t5 : /\ Adds(verb, s5, t5)
               /\ \A f \in DOMAIN Grammar[verb] : t5[f] = IF f = "--llm-provider-model-candidates"
                    /\ candidates # None THEN candidates ELSE t4[f]
  <2>1. PICK s, v : s = Opt("--llm-provider-model-candidates", candidates) /\ v = candidates
    OBVIOUS
  <2>2. s5 = s4 \o s /\ Adds(verb, s, Only(verb, "--llm-provider-model-candidates", v)) /\ Adds(verb, s4, t4)
            /\ verb \in Hidden
    BY <1>0, <1>23, <1>11, <1>18, <2>1
  <2>3. PICK t : /\ Adds(verb, s5, t)
                 /\ \A f \in DOMAIN Grammar[verb] : t[f] = IF f = "--llm-provider-model-candidates"
                      /\ v # None THEN v ELSE t4[f]
    BY <2>2, AddsThen
  <2> QED BY <2>1, <2>3
<1>25. PICK t6 : /\ Adds(verb, s6, t6)
               /\ \A f \in DOMAIN Grammar[verb] : t6[f] = IF f = "--llm-required" /\ req # None THEN req ELSE t5[f]
  <2>1. PICK s, v : s = Flag("--llm-required", set["--llm-required"]) /\ v = req
    OBVIOUS
  <2>2. s6 = s5 \o s /\ Adds(verb, s, Only(verb, "--llm-required", v)) /\ Adds(verb, s5, t5) /\ verb \in Hidden
    BY <1>0, <1>24, <1>12, <1>18, <2>1
  <2>3. PICK t : /\ Adds(verb, s6, t)
                 /\ \A f \in DOMAIN Grammar[verb] : t[f] = IF f = "--llm-required" /\ v # None THEN v ELSE t5[f]
    BY <2>2, AddsThen
  <2> QED BY <2>1, <2>3
<1>26. PICK t7 : /\ Adds(verb, s7, t7)
               /\ \A f \in DOMAIN Grammar[verb] : t7[f] = IF f = "--llm-retry-max-attempts"
                    /\ set["--llm-retry-max-attempts"] # None THEN set["--llm-retry-max-attempts"] ELSE t6[f]
  <2>1. PICK s, v : s = Number("--llm-retry-max-attempts", set["--llm-retry-max-attempts"])
            /\ v = set["--llm-retry-max-attempts"]
    OBVIOUS
  <2>2. s7 = s6 \o s /\ Adds(verb, s, Only(verb, "--llm-retry-max-attempts", v)) /\ Adds(verb, s6, t6)
            /\ verb \in Hidden
    BY <1>0, <1>25, <1>13, <1>18, <2>1
  <2>3. PICK t : /\ Adds(verb, s7, t)
                 /\ \A f \in DOMAIN Grammar[verb] : t[f] = IF f = "--llm-retry-max-attempts"
                      /\ v # None THEN v ELSE t6[f]
    BY <2>2, AddsThen
  <2> QED BY <2>1, <2>3
<1>27. PICK t8 : /\ Adds(verb, s8, t8)
               /\ \A f \in DOMAIN Grammar[verb] : t8[f] = IF f = "--llm-retry-initial-backoff"
                    /\ set["--llm-retry-initial-backoff"] # None THEN set["--llm-retry-initial-backoff"] ELSE t7[f]
  <2>1. PICK s, v : s = Number("--llm-retry-initial-backoff", set["--llm-retry-initial-backoff"])
            /\ v = set["--llm-retry-initial-backoff"]
    OBVIOUS
  <2>2. s8 = s7 \o s /\ Adds(verb, s, Only(verb, "--llm-retry-initial-backoff", v)) /\ Adds(verb, s7, t7)
            /\ verb \in Hidden
    BY <1>0, <1>26, <1>14, <1>18, <2>1
  <2>3. PICK t : /\ Adds(verb, s8, t)
                 /\ \A f \in DOMAIN Grammar[verb] : t[f] = IF f = "--llm-retry-initial-backoff"
                      /\ v # None THEN v ELSE t7[f]
    BY <2>2, AddsThen
  <2> QED BY <2>1, <2>3
<1>28. PICK t9 : /\ Adds(verb, s9, t9)
               /\ \A f \in DOMAIN Grammar[verb] : t9[f] = IF f = "--llm-retry-max-backoff"
                    /\ set["--llm-retry-max-backoff"] # None THEN set["--llm-retry-max-backoff"] ELSE t8[f]
  <2>1. PICK s, v : s = Number("--llm-retry-max-backoff", set["--llm-retry-max-backoff"])
            /\ v = set["--llm-retry-max-backoff"]
    OBVIOUS
  <2>2. s9 = s8 \o s /\ Adds(verb, s, Only(verb, "--llm-retry-max-backoff", v)) /\ Adds(verb, s8, t8)
            /\ verb \in Hidden
    BY <1>0, <1>27, <1>15, <1>18, <2>1
  <2>3. PICK t : /\ Adds(verb, s9, t)
                 /\ \A f \in DOMAIN Grammar[verb] : t[f] = IF f = "--llm-retry-max-backoff"
                      /\ v # None THEN v ELSE t8[f]
    BY <2>2, AddsThen
  <2> QED BY <2>1, <2>3
<1>29. PICK t10 : /\ Adds(verb, s10, t10)
               /\ \A f \in DOMAIN Grammar[verb] : t10[f] = IF f = "--llm-retry-backoff-multiplier"
                    /\ set["--llm-retry-backoff-multiplier"] # None THEN set["--llm-retry-backoff-multiplier"] ELSE t9[f]
  <2>1. PICK s, v : s = Number("--llm-retry-backoff-multiplier", set["--llm-retry-backoff-multiplier"])
            /\ v = set["--llm-retry-backoff-multiplier"]
    OBVIOUS
  <2>2. s10 = s9 \o s /\ Adds(verb, s, Only(verb, "--llm-retry-backoff-multiplier", v)) /\ Adds(verb, s9, t9)
            /\ verb \in Hidden
    BY <1>0, <1>28, <1>16, <1>18, <2>1
  <2>3. PICK t : /\ Adds(verb, s10, t)
                 /\ \A f \in DOMAIN Grammar[verb] : t[f] = IF f = "--llm-retry-backoff-multiplier"
                      /\ v # None THEN v ELSE t9[f]
    BY <2>2, AddsThen
  <2> QED BY <2>1, <2>3
<1>30. PICK t11 : /\ Adds(verb, s11, t11)
               /\ \A f \in DOMAIN Grammar[verb] : t11[f] = IF f = "--llm-retry-jitter-ratio"
                    /\ set["--llm-retry-jitter-ratio"] # None THEN set["--llm-retry-jitter-ratio"] ELSE t10[f]
  <2>1. PICK s, v : s = <<"--llm-retry-jitter-ratio", set["--llm-retry-jitter-ratio"]>>
            /\ v = set["--llm-retry-jitter-ratio"]
    OBVIOUS
  <2>2. s11 = s10 \o s /\ Adds(verb, s, Only(verb, "--llm-retry-jitter-ratio", v)) /\ Adds(verb, s10, t10)
            /\ verb \in Hidden
    BY <1>0, <1>29, <1>17, <1>18, <2>1
  <2>3. PICK t : /\ Adds(verb, s11, t)
                 /\ \A f \in DOMAIN Grammar[verb] : t[f] = IF f = "--llm-retry-jitter-ratio"
                      /\ v # None THEN v ELSE t10[f]
    BY <2>2, AddsThen
  <2> QED BY <2>1, <2>3
<1>31. \A o \in {"--llm-analysis", "--config", "--llm-profile", "--llm-provider", "--llm-provider-model-candidates",
              "--llm-required", "--llm-retry-max-attempts", "--llm-retry-initial-backoff", "--llm-retry-max-backoff",
              "--llm-retry-backoff-multiplier", "--llm-retry-jitter-ratio", "--state-dir", "--project-root",
              "--output-language", "--indexes-file", "--plugin-root", "--global-llm-concurrency", "--llm-qpm-limit"} :
         o \in DOMAIN Grammar[verb]
  BY <1>0, WorkerGrammar
<1>32. \A o \in {"--state-dir", "--project-root", "--output-language", "--indexes-file", "--plugin-root",
              "--global-llm-concurrency", "--llm-qpm-limit"} : t11[o] = None
  BY <1>20, <1>21, <1>22, <1>23, <1>24, <1>25, <1>26, <1>27, <1>28, <1>29, <1>30, <1>31
<1>33. t11["--llm-analysis"] = yes /\ t11["--llm-required"] = req
  BY <1>20, <1>21, <1>22, <1>23, <1>24, <1>25, <1>26, <1>27, <1>28, <1>29, <1>30, <1>31
<1>34. t11["--config"] = config
  BY <1>20, <1>21, <1>22, <1>23, <1>24, <1>25, <1>26, <1>27, <1>28, <1>29, <1>30, <1>31
<1>35. t11["--llm-profile"] = Value(p, "--llm-profile") /\ t11["--llm-provider"] = LlmPackage(p, w, file)
  BY <1>20, <1>21, <1>22, <1>23, <1>24, <1>25, <1>26, <1>27, <1>28, <1>29, <1>30, <1>31
<1>36. /\ t11["--llm-retry-max-attempts"] = set["--llm-retry-max-attempts"]
       /\ t11["--llm-retry-initial-backoff"] = set["--llm-retry-initial-backoff"]
       /\ t11["--llm-retry-max-backoff"] = set["--llm-retry-max-backoff"]
       /\ t11["--llm-retry-backoff-multiplier"] = set["--llm-retry-backoff-multiplier"]
       /\ t11["--llm-retry-jitter-ratio"] = set["--llm-retry-jitter-ratio"]
  BY <1>20, <1>21, <1>22, <1>23, <1>24, <1>25, <1>26, <1>27, <1>28, <1>29, <1>30, <1>31
<1>37. LlmTold(p, w, set, file, t11)
  <2>1. t11["--llm-analysis"] # None
    BY <1>6, <1>33
  <2>2. t11["--llm-required"] # None <=> set["--llm-required"]
    BY <1>6, <1>33, Zenon
  <2>3. t11["--config"] = IF Value(p, "--config") = None /\ "derived" \notin w.files THEN None
                          ELSE FirstOf(<<Value(p, "--config"), "derived">>)
    BY <1>34 DEF config
  <2>4. \A s \in {"--llm-retry-max-attempts", "--llm-retry-initial-backoff", "--llm-retry-max-backoff",
                   "--llm-retry-backoff-multiplier", "--llm-retry-jitter-ratio"} : t11[s] = set[s]
    BY <1>36
  <2> QED BY <1>35, <2>1, <2>2, <2>3, <2>4, Zenon DEF LlmTold
<1> QED BY <1>19, <1>30, <1>32, <1>37 DEF verb

\* What a worker's line says of the build.
WorkerTold(p, w, set, file, slots, i, v) ==
  /\ \A s \in {"--output-language", "--plugin-root"} : v[s] = set[s]
  /\ v["--llm-analysis"] # None <=> set["--llm-analysis"]
  /\ set["--llm-analysis"] =>
       /\ LlmTold(p, w, set, file, v)
       /\ v["--global-llm-concurrency"]
            = splitIntegerBudget(set["--mappers"] * set["--llm-concurrency-per-mapper"], slots, i)
       /\ v["--llm-qpm-limit"] = splitIntegerBudget(set["--llm-qpm-limit"], slots, i)

(* The whole list of a worker.                                             *)
LEMMA WorkerArgsTell ==
  ASSUME NEW p, OptsFit("build", p.opts), NEW w \in BuildWorlds, NEW file, NEW set,
         set = resolveBuildConfig(p, w, file), NEW slots, NEW i,
         set["--llm-analysis"] =>
           /\ splitIntegerBudget(set["--mappers"] * set["--llm-concurrency-per-mapper"], slots, i) \in 1 .. MaxNumber
           /\ splitIntegerBudget(set["--llm-qpm-limit"], slots, i) \in 1 .. MaxNumber
  PROVE  LET q == Parse(buildWorkerArgs(p, w, set, file, slots, i), {}) IN
         /\ q.res = "parsed"
         /\ \E v : /\ \A o \in DOMAIN WorkerOptions : Value(q, o) = v[o]
                   /\ WorkerTold(p, w, set, file, slots, i, v)
<1> DEFINE verb == "batch-mapper-worker"
           include == IF Value(p, "--include") = None THEN None ELSE "paths"
           calls == splitIntegerBudget(set["--mappers"] * set["--llm-concurrency-per-mapper"], slots, i)
           perMinute == splitIntegerBudget(set["--llm-qpm-limit"], slots, i)
           llm == IF ~set["--llm-analysis"] THEN <<>>
                  ELSE buildLlmWorkerArgs(p, w, set, file) \o Number("--global-llm-concurrency", calls)
                       \o Number("--llm-qpm-limit", perMinute)
<1>0. verb \in Hidden /\ Grammar[verb] = WorkerOptions
  BY Commands DEF Hidden
<1>1. \A v \in {"state", "repo", "indexes", "paths"} : v \notin Dashed /\ v # None
  BY NoneIsNoValue, PlainWordsAreTaken DEF PlainWords
<1>2. \A o \in DOMAIN Grammar[verb] : o \notin HelpWords
  <2>1. \A o \in DOMAIN WorkerOptions : o \notin HelpWords
    BY DEF WorkerOptions, OfKinds, HelpWords
  <2> QED BY <1>0, <2>1
<1>3. /\ set["--output-language"] \notin Dashed \cup {None} /\ set["--plugin-root"] \notin Dashed
      /\ set["--llm-analysis"] \in BOOLEAN /\ set["--llm-required"] \in BOOLEAN
      /\ \A s \in Counts \ {"--mappers"} : set[s] \in {1, 2, 3, 4, 5, 30}
      /\ set["--llm-retry-jitter-ratio"] \in {"0", "1", "0.2"}
  BY SettingsFit DEF Switches
<1>4. include \notin Dashed
  BY <1>1, NoneIsNoValue
<1> HIDE DEF include, verb
<1>5. \A o \in {"--llm-analysis", "--config", "--llm-profile", "--llm-provider", "--llm-provider-model-candidates",
              "--llm-required", "--llm-retry-max-attempts", "--llm-retry-initial-backoff", "--llm-retry-max-backoff",
              "--llm-retry-backoff-multiplier", "--llm-retry-jitter-ratio", "--state-dir", "--project-root",
              "--output-language", "--indexes-file", "--plugin-root", "--global-llm-concurrency", "--llm-qpm-limit"} :
         o \in DOMAIN Grammar[verb]
  BY <1>0, WorkerGrammar
<1>6. \E more : /\ Adds(verb, llm, more)
                /\ \A o \in {"--state-dir", "--project-root", "--output-language", "--indexes-file",
                     "--plugin-root"} :
                     more[o] = None
                /\ more["--llm-analysis"] # None <=> set["--llm-analysis"]
                /\ set["--llm-analysis"] =>
                     /\ LlmTold(p, w, set, file, more)
                     /\ more["--global-llm-concurrency"] = calls /\ more["--llm-qpm-limit"] = perMinute
  <2>1. CASE ~set["--llm-analysis"]
    <3>1. llm = <<>> /\ Adds(verb, llm, Only(verb, "--llm-analysis", None))
      BY <1>0, <2>1, AddsNothing
    <3>2. \A o \in DOMAIN Grammar[verb] : Only(verb, "--llm-analysis", None)[o] = None
      BY DEF Only
    <3> QED BY <1>5, <2>1, <3>1, <3>2
  <2>2. CASE set["--llm-analysis"]
    <3>1. /\ \A o \in {"--config", "--llm-profile", "--llm-provider"} : Value(p, o) \notin Dashed
          /\ w.package \in {None, "pkg"} /\ w.candidates \in {None, "id", "bad"}
      BY TypedFits, BuildWorldsFit
    <3>2. PICK t1 : /\ Adds(verb, buildLlmWorkerArgs(p, w, set, file), t1)
                    /\ LlmTold(p, w, set, file, t1)
                    /\ \A o \in {"--state-dir", "--project-root", "--output-language", "--indexes-file",
                         "--plugin-root",
                                 "--global-llm-concurrency", "--llm-qpm-limit"} : t1[o] = None
      BY <1>3, <2>2, <3>1, LlmArgsTell DEF verb
    <3>3. PICK s1, s2, s3, a, b : /\ s1 = buildLlmWorkerArgs(p, w, set, file)
                                  /\ a = Number("--global-llm-concurrency", calls)
                                  /\ b = Number("--llm-qpm-limit", perMinute)
                                  /\ s2 = s1 \o a /\ s3 = s2 \o b
      OBVIOUS
    <3>4. llm = s3
      BY <2>2, <3>3
    <3>5. /\ Adds(verb, a, Only(verb, "--global-llm-concurrency", calls))
          /\ Adds(verb, b, Only(verb, "--llm-qpm-limit", perMinute))
          /\ calls # None /\ perMinute # None
      <4>1. calls \in 1 .. MaxNumber /\ perMinute \in 1 .. MaxNumber
        BY <2>2
      <4> HIDE DEF calls, perMinute
      <4>2. calls \in 0 .. MaxNumber /\ perMinute \in 0 .. MaxNumber /\ calls >= 1 /\ perMinute >= 1
        BY <4>1, NumbersHaveWords
      <4>3. calls # None /\ perMinute # None
        BY <4>2, NoneIsNoValue
      <4> QED BY <1>0, <1>2, <1>5, <3>3, <4>2, <4>3, AddsNumber, WorkerGrammar DEF Number
    <3> HIDE DEF calls, perMinute, llm
    <3>6. PICK t2 : /\ Adds(verb, s2, t2)
                    /\ \A f \in DOMAIN Grammar[verb] : t2[f] = IF f = "--global-llm-concurrency"
                         /\ calls # None THEN calls ELSE t1[f]
      BY <1>0, <3>2, <3>3, <3>5, AddsThen
    <3>7. PICK t3 : /\ Adds(verb, s3, t3)
                    /\ \A f \in DOMAIN Grammar[verb] : t3[f] = IF f = "--llm-qpm-limit"
                         /\ perMinute # None THEN perMinute ELSE t2[f]
      <4>1. PICK v : v = perMinute
        OBVIOUS
      <4>2. s3 = s2 \o b /\ Adds(verb, b, Only(verb, "--llm-qpm-limit", v)) /\ Adds(verb, s2, t2) /\ verb \in Hidden
        BY <1>0, <3>3, <3>5, <3>6, <4>1
      <4>3. PICK t : /\ Adds(verb, s3, t)
                     /\ \A f \in DOMAIN Grammar[verb] : t[f] = IF f = "--llm-qpm-limit" /\ v # None THEN v ELSE t2[f]
        BY <4>2, AddsThen
      <4> QED BY <4>1, <4>3
    <3>8. \A o \in {"--llm-analysis", "--config", "--llm-profile", "--llm-provider",
              "--llm-required", "--llm-retry-max-attempts", "--llm-retry-initial-backoff", "--llm-retry-max-backoff",
              "--llm-retry-backoff-multiplier", "--llm-retry-jitter-ratio", "--state-dir", "--project-root",
              "--output-language", "--indexes-file", "--plugin-root"} : t3[o] = t1[o]
      BY <1>5, <3>6, <3>7
    <3>9. t3["--global-llm-concurrency"] = calls /\ t3["--llm-qpm-limit"] = perMinute
      BY <1>5, <3>5, <3>6, <3>7
    <3>10. LlmTold(p, w, set, file, t3)
      BY <3>2, <3>8 DEF LlmTold
    <3>11. t3["--llm-analysis"] # None
      BY <3>10 DEF LlmTold
    <3> QED BY <2>2, <3>2, <3>4, <3>7, <3>8, <3>9, <3>10, <3>11
  <2> QED BY <1>3, <2>1, <2>2
<1>7. PICK more : /\ Adds(verb, llm, more)
                  /\ \A o \in {"--state-dir", "--project-root", "--output-language", "--indexes-file",
                       "--plugin-root"} :
                       more[o] = None
                  /\ more["--llm-analysis"] # None <=> set["--llm-analysis"]
                  /\ set["--llm-analysis"] =>
                       /\ LlmTold(p, w, set, file, more)
                       /\ more["--global-llm-concurrency"] = calls /\ more["--llm-qpm-limit"] = perMinute
  BY <1>6
<1>8. PICK s1, s2, s3, s4, s5, s6, s7, a1, a2, a3, a4, a5, a6 :
        /\ a1 = <<"--state-dir", "state">> /\ a2 = <<"--project-root", "repo">>
        /\ a3 = <<"--output-language", set["--output-language"]>> /\ a4 = <<"--indexes-file", "indexes">>
        /\ a5 = Opt("--include-paths-file", include) /\ a6 = Opt("--plugin-root", set["--plugin-root"])
        /\ s1 = <<verb>> \o a1 /\ s2 = s1 \o a2 /\ s3 = s2 \o a3 /\ s4 = s3 \o a4 /\ s5 = s4 \o a5
        /\ s6 = s5 \o a6 /\ s7 = s6 \o llm
  OBVIOUS
<1>9. buildWorkerArgs(p, w, set, file, slots, i) = s7
  BY <1>8 DEF buildWorkerArgs, include, verb
<1> HIDE DEF llm, calls, perMinute
<1>10. /\ Adds(verb, a1, Only(verb, "--state-dir", "state"))
       /\ Adds(verb, a2, Only(verb, "--project-root", "repo"))
       /\ Adds(verb, a3, Only(verb, "--output-language", set["--output-language"]))
       /\ Adds(verb, a4, Only(verb, "--indexes-file", "indexes"))
  BY <1>0, <1>1, <1>2, <1>3, <1>5, <1>8, TextAdds, WorkerGrammar
<1>11. /\ Adds(verb, a5, Only(verb, "--include-paths-file", include))
       /\ Adds(verb, a6, Only(verb, "--plugin-root", set["--plugin-root"]))
  BY <1>0, <1>2, <1>3, <1>4, <1>8, AddsOpt, WorkerGrammar
<1>12. PICK t1 : Tells(verb, s1, t1)
           /\ \A f \in DOMAIN Grammar[verb] : t1[f] = IF f = "--state-dir" THEN "state" ELSE None
  <2>1. \A f \in DOMAIN Grammar[verb] : Only(verb, "--state-dir",
            "state")[f] = IF f = "--state-dir" THEN "state" ELSE None
    BY DEF Only
  <2>2. Tells(verb, s1, Only(verb, "--state-dir", "state"))
    BY <1>0, <1>8, <1>10, TellsFirst
  <2> QED BY <2>1, <2>2
<1>13. PICK t2 : /\ Tells(verb, s2, t2)
                 /\ \A f \in DOMAIN Grammar[verb] : t2[f] = IF f = "--project-root"
                      /\ "repo" # None THEN "repo" ELSE t1[f]
  <2>1. PICK v : v = "repo"
    OBVIOUS
  <2>2. s2 = s1 \o a2 /\ Adds(verb, a2, Only(verb, "--project-root", v)) /\ Tells(verb, s1, t1) /\ verb \in Hidden
    BY <1>0, <1>8, <1>10, <1>12, <2>1
  <2>3. PICK t : /\ Tells(verb, s2, t)
                 /\ \A f \in DOMAIN Grammar[verb] : t[f] = IF f = "--project-root" /\ v # None THEN v ELSE t1[f]
    BY <2>2, TellsThen
  <2> QED BY <2>1, <2>3
<1>14. PICK t3 : /\ Tells(verb, s3, t3)
                 /\ \A f \in DOMAIN Grammar[verb] :
                      t3[f] = IF f = "--output-language"
                           /\ set["--output-language"] # None THEN set["--output-language"] ELSE t2[f]
  <2>1. PICK v : v = set["--output-language"]
    OBVIOUS
  <2>2. s3 = s2 \o a3 /\ Adds(verb, a3, Only(verb, "--output-language", v)) /\ Tells(verb, s2, t2) /\ verb \in Hidden
    BY <1>0, <1>8, <1>10, <1>13, <2>1
  <2>3. PICK t : /\ Tells(verb, s3, t)
                 /\ \A f \in DOMAIN Grammar[verb] : t[f] = IF f = "--output-language" /\ v # None THEN v ELSE t2[f]
    BY <2>2, TellsThen
  <2> QED BY <2>1, <2>3
<1>15. PICK t4 : /\ Tells(verb, s4, t4)
                 /\ \A f \in DOMAIN Grammar[verb] : t4[f] = IF f = "--indexes-file"
                      /\ "indexes" # None THEN "indexes" ELSE t3[f]
  <2>1. PICK v : v = "indexes"
    OBVIOUS
  <2>2. s4 = s3 \o a4 /\ Adds(verb, a4, Only(verb, "--indexes-file", v)) /\ Tells(verb, s3, t3) /\ verb \in Hidden
    BY <1>0, <1>8, <1>10, <1>14, <2>1
  <2>3. PICK t : /\ Tells(verb, s4, t)
                 /\ \A f \in DOMAIN Grammar[verb] : t[f] = IF f = "--indexes-file" /\ v # None THEN v ELSE t3[f]
    BY <2>2, TellsThen
  <2> QED BY <2>1, <2>3
<1>16. PICK t5 : /\ Tells(verb, s5, t5)
                 /\ \A f \in DOMAIN Grammar[verb] : t5[f] = IF f = "--include-paths-file"
                      /\ include # None THEN include ELSE t4[f]
  <2>1. PICK v : v = include
    OBVIOUS
  <2>2. s5 = s4 \o a5 /\ Adds(verb, a5, Only(verb, "--include-paths-file", v)) /\ Tells(verb, s4, t4)
            /\ verb \in Hidden
    BY <1>0, <1>8, <1>11, <1>15, <2>1
  <2>3. PICK t : /\ Tells(verb, s5, t)
                 /\ \A f \in DOMAIN Grammar[verb] : t[f] = IF f = "--include-paths-file" /\ v # None THEN v ELSE t4[f]
    BY <2>2, TellsThen
  <2> QED BY <2>1, <2>3
<1>17. PICK t6 : /\ Tells(verb, s6, t6)
                 /\ \A f \in DOMAIN Grammar[verb] :
                      t6[f] = IF f = "--plugin-root"
                           /\ set["--plugin-root"] # None THEN set["--plugin-root"] ELSE t5[f]
  <2>1. PICK v : v = set["--plugin-root"]
    OBVIOUS
  <2>2. s6 = s5 \o a6 /\ Adds(verb, a6, Only(verb, "--plugin-root", v)) /\ Tells(verb, s5, t5) /\ verb \in Hidden
    BY <1>0, <1>8, <1>11, <1>16, <2>1
  <2>3. PICK t : /\ Tells(verb, s6, t)
                 /\ \A f \in DOMAIN Grammar[verb] : t[f] = IF f = "--plugin-root" /\ v # None THEN v ELSE t5[f]
    BY <2>2, TellsThen
  <2> QED BY <2>1, <2>3
<1>18. PICK t7 : /\ Tells(verb, s7, t7)
                 /\ \A f \in DOMAIN Grammar[verb] : t7[f] = IF more[f] # None THEN more[f] ELSE t6[f]
  BY <1>0, <1>7, <1>8, <1>17, TellsBoth
<1>19. /\ \A o \in {"--state-dir", "--project-root", "--output-language", "--indexes-file"} : t7[o] # None
       /\ t7["--output-language"] = set["--output-language"] /\ t7["--plugin-root"] = set["--plugin-root"]
  BY <1>1, <1>3, <1>5, <1>7, <1>12, <1>13, <1>14, <1>15, <1>16, <1>17, <1>18
<1>20. ASSUME NEW o \in {"--llm-analysis", "--config", "--llm-profile", "--llm-provider", "--llm-required",
               "--llm-retry-max-attempts", "--llm-retry-initial-backoff", "--llm-retry-max-backoff",
               "--llm-retry-backoff-multiplier", "--llm-retry-jitter-ratio", "--global-llm-concurrency",
                    "--llm-qpm-limit"}
       PROVE  t7[o] = more[o]
  <2>1. t6[o] = None
    BY <1>5, <1>12, <1>13, <1>14, <1>15, <1>16, <1>17
  <2> QED BY <1>5, <1>18, <2>1
<1>21. WorkerTold(p, w, set, file, slots, i, t7)
  <2>1. t7["--llm-analysis"] # None <=> set["--llm-analysis"]
    BY <1>7, <1>20
  <2>2. ASSUME set["--llm-analysis"]
        PROVE  LlmTold(p, w, set, file, t7) /\ t7["--global-llm-concurrency"] = calls
             /\ t7["--llm-qpm-limit"] = perMinute
    <3>1. LlmTold(p, w, set, file, more)
      BY <1>7, <2>2
    <3>2. LlmTold(p, w, set, file, t7)
      BY <1>20, <3>1 DEF LlmTold
    <3> QED BY <1>7, <1>20, <2>2, <3>2
  <2> QED BY <1>19, <2>1, <2>2 DEF WorkerTold, calls, perMinute
<1>22. PICK rest : Adds(verb, rest, t7) /\ s7 = <<verb>> \o rest
  BY <1>18 DEF Tells
<1>23. /\ Parse(s7, {}).res = "parsed"
       /\ \A o \in DOMAIN Grammar[verb] : Value(Parse(s7, {}), o) = t7[o]
  <2>1. verb # "dashboard-server"
    BY DEF verb
  <2> QED BY <1>0, <1>19, <1>22, <2>1, ChildParses
<1> QED BY <1>0, <1>9, <1>21, <1>23

-----------------------------------------------------------------------------
(* The workers of a build.                                                 *)

(* A build with LLM analysis has no more workers than calls to share.      *)
LEMMA SlotsFit ==
  ASSUME NEW p, OptsFit("build", p.opts), NEW w \in BuildWorlds, NEW file, NEW set,
         set = resolveBuildConfig(p, w, file)
  PROVE  LET slots == workerSlotsFor(set)
             calls == set["--mappers"] * set["--llm-concurrency-per-mapper"]
         IN  /\ slots \in Nat \ {0}
             /\ calls \in 1 .. MaxNumber /\ set["--llm-qpm-limit"] \in 1 .. MaxNumber
             /\ set["--llm-analysis"] => slots \in 1 .. calls /\ slots \in 1 .. set["--llm-qpm-limit"]
<1> DEFINE m == set["--mappers"]
           c == set["--llm-concurrency-per-mapper"]
           limit == set["--llm-qpm-limit"]
           most == Maximum(1, Minimum(m, Maximum(1, Missing)))
           calls == m * c
           fewest == Minimum(calls, limit)
           slots == workerSlotsFor(set)
<1>1. /\ m \in {2, 3, 4, 5, HostMappers} /\ c \in {1, 2, 3, 4, 5} /\ limit \in {1, 2, 3, 4, 5}
  BY SettingsFit
<1>2. slots = IF set["--llm-analysis"] THEN Maximum(1, Minimum(most, fewest)) ELSE most
  BY DEF workerSlotsFor
<1> HIDE DEF m, c, limit, slots
<1>3. calls \in 1 .. MaxNumber /\ limit \in 1 .. MaxNumber
  <2>1. HostMappers \in Nat \ {0} /\ MaxNumber \in Nat /\ MaxNumber >= 30 /\ MaxNumber >= 5 * HostMappers
    BY NumbersHaveWords, BudgetsHaveWords
  <2>2. CASE m = HostMappers
    <3>1. c = 1 \/ c = 2 \/ c = 3 \/ c = 4 \/ c = 5
      BY <1>1
    <3> QED BY <1>1, <2>1, <2>2, <3>1
  <2>3. CASE m \in {2, 3, 4, 5}
    BY <1>1, <2>1, <2>3
  <2> QED BY <1>1, <2>2, <2>3
<1>4. m \in Nat /\ Missing \in Nat
  BY <1>1, BudgetsHaveWords
<1> HIDE DEF calls
<1>5. most \in Nat \ {0}
  BY <1>4 DEF Maximum, Minimum
<1>6. fewest \in 1 .. calls /\ fewest \in 1 .. limit
  BY <1>3, NumbersHaveWords DEF Minimum
<1> HIDE DEF most, fewest
<1>7. slots \in Nat \ {0}
  BY <1>2, <1>3, <1>5, <1>6, NumbersHaveWords DEF Maximum, Minimum
<1>8. set["--llm-analysis"] => slots \in 1 .. calls /\ slots \in 1 .. limit
  BY <1>2, <1>3, <1>5, <1>6, NumbersHaveWords DEF Maximum, Minimum
<1> QED BY <1>3, <1>7, <1>8 DEF slots, calls, m, c, limit

(* The configuration a worker finds is the build's, and it loads.          *)
LEMMA WorkerFinds ==
  ASSUME NEW p, NEW w \in BuildWorlds, NEW file,
         file = discoverConfigPath(w, FirstOf(<<Value(p, "--config"), "derived">>), w.pointer),
         ~buildRefused(p, w, file), NEW config,
         config = IF Value(p, "--config") = None /\ "derived" \notin w.files THEN None
                  ELSE FirstOf(<<Value(p, "--config"), "derived">>)
  PROVE  LET found == discoverConfigPath(w, config, w.pointer) IN
         /\ file # None => found = file
         /\ w.envProfile # "gone" => ~loadFails(w, found, config, None)
         /\ Value(p, "--llm-profile") # None => found # None /\ w.named
<1> DEFINE typed == Value(p, "--config")
           flag == Value(p, "--deploy-profile")
           found == discoverConfigPath(w, config, w.pointer)
<1>1. None # "derived" /\ None # "id"
  BY NoneIsNoValue DEF PlainWords
<1>2. FirstOf(<<typed, "derived">>) = IF typed # None THEN typed ELSE "derived"
  BY FirstOfTwo
<1>3. /\ ~loadFails(w, file, typed, flag)
      /\ flag # None => file # None /\ w.named
      /\ Value(p, "--llm-profile") # None => file # None /\ w.named
  BY DEF buildRefused
<1> HIDE DEF typed, flag
<1>4. PICK named : named = FirstOf(<<typed, "derived">>)
  OBVIOUS
<1>5. named # None /\ file = IF named \in w.files THEN named ELSE None
  BY <1>1, <1>2, <1>4 DEF discoverConfigPath, typed
<1>6. typed # None => file # None
  BY <1>3 DEF loadFails
<1>7. CASE file # None
  <2>1. named \in w.files /\ config = named
    BY <1>2, <1>4, <1>5, <1>7 DEF typed
  <2>2. found = named /\ file = named
    BY <1>5, <2>1 DEF discoverConfigPath
  <2>3. ASSUME w.envProfile # "gone"
        PROVE  ~loadFails(w, found, config, None)
    <3>1. ProfileName(w, None) = w.envProfile
      BY FirstOfTwo DEF ProfileName
    <3>2. w.envProfile \in {None, "id"}
      BY <2>3, BuildWorldsFit
    <3>3. CASE w.envProfile = None
      BY <1>5, <2>2, <3>1, <3>3 DEF loadFails
    <3>4. CASE w.envProfile = "id"
      <4>1. w.named
        <5>1. CASE flag # None
          BY <1>3, <5>1
        <5>2. CASE flag = None
          <6>1. ProfileName(w, flag) = "id"
            BY <3>1, <3>4, <5>2
          <6>2. Known(w, "id")
            BY <1>1, <1>3, <1>7, <6>1 DEF loadFails
          <6> QED BY <6>2 DEF Known
        <5> QED BY <5>1, <5>2
      <4>2. Known(w, "id")
        BY <4>1 DEF Known
      <4> QED BY <1>5, <2>2, <3>1, <3>4, <4>2 DEF loadFails
    <3> QED BY <3>2, <3>3, <3>4
  <2> QED BY <1>3, <2>2, <2>3
<1>8. CASE file = None
  <2>1. typed = None /\ "derived" \notin w.files /\ config = None
    BY <1>2, <1>4, <1>5, <1>6, <1>8 DEF typed
  <2>2. w.envProfile = None
    <3>1. w.files # {"id", "derived"}
      BY <2>1
    <3> QED BY <3>1, BuildWorldsFit
  <2>3. ProfileName(w, None) = None
    BY <2>2, FirstOfTwo DEF ProfileName
  <2>4. ~loadFails(w, found, config, None)
    BY <2>1, <2>3 DEF loadFails
  <2> QED BY <1>3, <1>8, <2>4
<1> QED BY <1>7, <1>8

\* What there is to say of the i-th of a build's workers.
Heard(p, w, set, package, file, slots, i, child) ==
  /\ child.line.res = "parsed"
  /\ w.envProfile # "gone" => child.ok
  /\ \A s \in {"--output-language", "--plugin-root"} : Value(child.line, s) = set[s]
  /\ Value(child.line, "--llm-analysis") # None <=> set["--llm-analysis"]
  /\ set["--llm-analysis"] =>
       /\ file # None => child.file = file
       /\ Value(child.line, "--llm-provider") = package
       /\ Value(child.line, "--llm-required") # None <=> set["--llm-required"]
       /\ \A s \in {"--llm-retry-max-attempts", "--llm-retry-initial-backoff", "--llm-retry-max-backoff",
                    "--llm-retry-backoff-multiplier", "--llm-retry-jitter-ratio"} : Value(child.line, s) = set[s]
       /\ Value(child.line, "--global-llm-concurrency")
            = splitIntegerBudget(set["--mappers"] * set["--llm-concurrency-per-mapper"], slots, i)
       /\ Value(child.line, "--llm-qpm-limit") = splitIntegerBudget(set["--llm-qpm-limit"], slots, i)

(* A worker has what its build resolved, and starts.                       *)
LEMMA WorkersHear ==
  ASSUME NEW p, OptsFit("build", p.opts), NEW w \in BuildWorlds, NEW file, NEW set, NEW slots, NEW i \in Nat \ {0},
         file = discoverConfigPath(w, FirstOf(<<Value(p, "--config"), "derived">>), w.pointer),
         set = resolveBuildConfig(p, w, file), slots = workerSlotsFor(set),
         ~buildRefused(p, w, file)
  PROVE  Heard(p, w, set, LlmPackage(p, w, file), file, slots, i, startWorker(w, buildWorkerArgs(p, w, set, file,
       slots, i)))
<1> DEFINE child == startWorker(w, buildWorkerArgs(p, w, set, file, slots, i))
           q == Parse(buildWorkerArgs(p, w, set, file, slots, i), {})
           calls == splitIntegerBudget(set["--mappers"] * set["--llm-concurrency-per-mapper"], slots, i)
           perMinute == splitIntegerBudget(set["--llm-qpm-limit"], slots, i)
<1>1. set["--llm-analysis"] => calls \in 1 .. MaxNumber /\ perMinute \in 1 .. MaxNumber
  <2>1. SUFFICES ASSUME set["--llm-analysis"] PROVE calls \in 1 .. MaxNumber /\ perMinute \in 1 .. MaxNumber
    OBVIOUS
  <2>2. PICK a, b : a = set["--mappers"] * set["--llm-concurrency-per-mapper"] /\ b = set["--llm-qpm-limit"]
    OBVIOUS
  <2>3. /\ a \in 1 .. MaxNumber /\ b \in 1 .. MaxNumber /\ slots \in 1 .. a /\ slots \in 1 .. b
    BY <2>1, <2>2, SlotsFit
  <2>4. a \in Nat \ {0} /\ b \in Nat \ {0}
    BY <2>3, NumbersHaveWords
  <2>5. splitIntegerBudget(a, slots, i) \in 1 .. a /\ splitIntegerBudget(b, slots, i) \in 1 .. b
    BY <2>3, <2>4, OnePartMore
  <2>6. splitIntegerBudget(a, slots, i) \in 1 .. MaxNumber /\ splitIntegerBudget(b, slots, i) \in 1 .. MaxNumber
    BY <2>3, <2>4, <2>5, NumbersHaveWords
  <2> QED BY <2>2, <2>6
<1>2. q.res = "parsed" /\ \E v : /\ \A o \in DOMAIN WorkerOptions : Value(q, o) = v[o]
                                 /\ WorkerTold(p, w, set, file, slots, i, v)
  BY <1>1, WorkerArgsTell
<1>3. PICK v : /\ \A o \in DOMAIN WorkerOptions : Value(q, o) = v[o]
               /\ WorkerTold(p, w, set, file, slots, i, v)
  BY <1>2
<1>4. \A o \in {"--llm-analysis", "--config", "--llm-profile", "--llm-provider", "--llm-required",
               "--llm-retry-max-attempts", "--llm-retry-initial-backoff", "--llm-retry-max-backoff",
               "--llm-retry-backoff-multiplier", "--llm-retry-jitter-ratio", "--global-llm-concurrency",
                    "--llm-qpm-limit",
               "--output-language", "--plugin-root"} : Value(q, o) = v[o]
  BY <1>3, WorkerGrammar
<1>5. /\ child.line = q
      /\ child.file = discoverConfigPath(w, Value(q, "--config"), w.pointer)
      /\ child.ok = (/\ q.res = "parsed"
                     /\ Value(q, "--llm-analysis") # None =>
                          /\ Value(q, "--llm-provider") # None
                          /\ ~loadFails(w, child.file, Value(q, "--config"), None)
                          /\ Value(q, "--llm-profile") # None => child.file # None /\ w.named
                          /\ w.loads)
  BY DEF startWorker
<1> HIDE DEF child, q, calls, perMinute
<1>6. Value(q, "--llm-analysis") # None <=> set["--llm-analysis"]
  BY <1>3, <1>4 DEF WorkerTold
<1>7. CASE ~set["--llm-analysis"]
  <2>1. child.ok
    BY <1>2, <1>5, <1>6, <1>7
  <2> QED BY <1>2, <1>3, <1>4, <1>5, <1>6, <1>7, <2>1 DEF Heard, WorkerTold, child
<1>8. CASE set["--llm-analysis"]
  <2>1. LlmTold(p, w, set, file, v) /\ v["--global-llm-concurrency"] = calls /\ v["--llm-qpm-limit"] = perMinute
    BY <1>3, <1>8 DEF WorkerTold, calls, perMinute
  <2>2. LlmPackage(p, w, file) # None /\ w.loads
    BY <1>8 DEF buildRefused
  <2>3. PICK config : config = IF Value(p, "--config") = None /\ "derived" \notin w.files THEN None
                               ELSE FirstOf(<<Value(p, "--config"), "derived">>)
    OBVIOUS
  <2>4. /\ Value(q, "--config") = config /\ Value(q, "--llm-profile") = Value(p, "--llm-profile")
        /\ Value(q, "--llm-provider") = LlmPackage(p, w, file)
        /\ Value(q, "--llm-required") # None <=> set["--llm-required"]
        /\ \A s \in {"--llm-retry-max-attempts", "--llm-retry-initial-backoff", "--llm-retry-max-backoff",
                     "--llm-retry-backoff-multiplier", "--llm-retry-jitter-ratio"} : Value(q, s) = set[s]
    BY <1>4, <2>1, <2>3 DEF LlmTold
  <2>5. /\ file # None => child.file = file
        /\ w.envProfile # "gone" => ~loadFails(w, child.file, config, None)
        /\ Value(p, "--llm-profile") # None => child.file # None /\ w.named
    BY <1>5, <2>3, <2>4, WorkerFinds
  <2>6. w.envProfile # "gone" => child.ok
    BY <1>2, <1>5, <2>2, <2>4, <2>5
  <2>7. \A s \in {"--output-language", "--plugin-root"} : Value(q, s) = set[s]
    BY <1>3, <1>4 DEF WorkerTold
  <2>8. Value(q, "--global-llm-concurrency") = calls /\ Value(q, "--llm-qpm-limit") = perMinute
    BY <1>4, <2>1
  <2> QED BY <1>2, <1>5, <1>6, <2>4, <2>5, <2>6, <2>7, <2>8 DEF Heard, child, calls, perMinute
<1> QED BY <1>7, <1>8

-----------------------------------------------------------------------------
(* The daemon.                                                             *)

(* A typed value is a server's setting.                                    *)
LEMMA ServeSettings ==
  ASSUME NEW p, NEW w, NEW pointer
  PROVE  LET d == runServe(p, w, pointer) IN
         /\ Value(p, "--host") # None => d.host = Value(p, "--host")
         /\ Value(p, "--port") # None => d.port = Value(p, "--port")
         /\ Value(p, "--registry") # None => d.registry = Value(p, "--registry")
         /\ Value(p, "--portal") # None => d.portal = Value(p, "--portal")
         /\ Value(p, "--project-route") # None => d.route = Value(p, "--project-route")
         /\ d.root = IF Value(p, "--project-root") # None THEN Value(p, "--project-root")
                     ELSE IF p.cmd = "serve" THEN "repo" ELSE None
         /\ d.line = p
         /\ d.file = discoverConfigPath(w, IF Value(p, "--config") # None THEN Value(p, "--config")
                                           ELSE IF p.cmd = "serve" THEN "derived" ELSE None, pointer)
<1> DEFINE d == runServe(p, w, pointer)
           named == FirstOf(<<Value(p, "--config"), IF p.cmd = "serve" THEN "derived" ELSE None>>)
           file == discoverConfigPath(w, named, pointer)
           Profile(s) == IF Value(p, "--serve-profile") # None THEN At(w, "profile", s) ELSE None
           Setting(s, default) ==
             FirstOf(<<Value(p, s), At(w, "env", s), Profile(s), Base(w, file, None, s), default>>)
           portal == FirstOf(<<Value(p, "--portal"), Profile("--portal"), FALSE>>)
           route == FirstOf(<<Value(p, "--project-route"), Profile("--project-route"), FALSE>>)
           registry == FirstOf(<<Value(p, "--registry"), Profile("--registry")>>)
           root == FirstOf(<<Value(p, "--project-root"), IF p.cmd = "serve" THEN "repo" ELSE None>>)
<1>1. /\ d.line = p /\ d.file = file /\ d.host = Setting("--host", "127.0.0.1") /\ d.port = Setting("--port", 0)
      /\ d.portal = portal /\ d.route = route /\ d.registry = registry /\ d.root = root
  BY DEF runServe
<1> HIDE DEF d
<1>2. \A s, default : Value(p, s) # None => Setting(s, default) = Value(p, s)
  BY FirstOfFive
<1>3. /\ Value(p, "--portal") # None => portal = Value(p, "--portal")
      /\ Value(p, "--project-route") # None => route = Value(p, "--project-route")
  BY FirstOfThree
<1>4. Value(p, "--registry") # None => registry = Value(p, "--registry")
  BY FirstOfTwo
<1>5. /\ root = IF Value(p, "--project-root") # None THEN Value(p, "--project-root")
                ELSE IF p.cmd = "serve" THEN "repo" ELSE None
      /\ named = IF Value(p, "--config") # None THEN Value(p, "--config")
                 ELSE IF p.cmd = "serve" THEN "derived" ELSE None
  BY FirstOfTwo
<1> HIDE DEF Setting, Profile, portal, route, registry, root, named
<1> QED BY <1>1, <1>2, <1>3, <1>4, <1>5 DEF file, d

\* The settings a start hands to its daemon.
Handed(a) ==
  /\ a.state \in {"project", "gateway"}
  /\ a.host # None /\ a.host \notin Dashed
  /\ a.port \in 0 .. MaxNumber /\ a.port <= 65535
  /\ \A v \in {a.root, a.config, a.profile, a.registry} : v \notin Dashed
  /\ a.portal \in BOOLEAN /\ a.route \in BOOLEAN

(* Both starts hand on values that can be passed.                          *)
LEMMA StartsHand ==
  ASSUME NEW p
  PROVE  /\ OptsFit("dashboard", p.opts) => Handed(StartDashboardArgs(p))
         /\ OptsFit("gateway", p.opts) => Handed(StartGatewayArgs(p))
<1>1. /\ None \notin Dashed /\ \A v \in {"127.0.0.1", "repo", "gatewayRegistry"} : v \notin Dashed /\ v # None
      /\ None \notin Int /\ 0 \in 0 .. MaxNumber
  BY NoneIsNoValue, PlainWordsAreTaken, NumbersHaveWords DEF PlainWords
<1>2. ASSUME NEW verb \in {"dashboard", "gateway"}, OptsFit(verb, p.opts)
      PROVE  /\ Value(p, "--host") \notin Dashed /\ Value(p, "--config") \notin Dashed
             /\ Value(p, "--serve-profile") \notin Dashed
             /\ Value(p, "--port") # None => Value(p, "--port") \in 0 .. MaxNumber /\ Value(p, "--port") <= 65535
             /\ verb = "dashboard" => Value(p, "--project-root") \notin Dashed /\ Value(p, "--registry") \notin Dashed
  <2>1. \A o \in {"--host", "--config", "--serve-profile"} : Grammar[verb][o] = "text"
    BY StartGrammar, Commands
  <2>2. Grammar[verb]["--port"] = "port"
    BY StartGrammar, Commands
  <2>3. verb = "dashboard" => \A o \in {"--project-root", "--registry"} : Grammar[verb][o] = "text"
    BY StartGrammar, Commands
  <2>4. \A o \in {"--host", "--config", "--serve-profile", "--project-root", "--registry"} :
          Value(p, o) # None => Fits(Grammar[verb][o], Value(p, o))
    BY <1>2 DEF OptsFit, Value
  <2>5. Value(p, "--port") # None => Fits("port", Value(p, "--port"))
    BY <1>2, <2>2 DEF OptsFit, Value
  <2>6. \A o : Value(p, o) = None => Value(p, o) \notin Dashed
    BY <1>1
  <2>7. \A v : Fits("text", v) => v \notin Dashed
    BY DEF Fits
  <2>8. \A v : Fits("port", v) => v \in 0 .. MaxNumber /\ v <= 65535
    BY DEF Fits
  <2> QED BY <2>1, <2>3, <2>4, <2>5, <2>6, <2>7, <2>8
<1>3. /\ FirstOf(<<Value(p, "--host"), "127.0.0.1">>) = (IF Value(p, "--host") # None THEN Value(p,
           "--host") ELSE "127.0.0.1")
      /\ FirstOf(<<Value(p, "--port"), 0>>) = (IF Value(p, "--port") # None THEN Value(p, "--port") ELSE 0)
      /\ FirstOf(<<Value(p, "--project-root"), "repo">>)
           = (IF Value(p, "--project-root") # None THEN Value(p, "--project-root") ELSE "repo")
  BY FirstOfTwo
<1>4. ASSUME OptsFit("dashboard", p.opts)
      PROVE  Handed(StartDashboardArgs(p))
  <2> DEFINE a == StartDashboardArgs(p)
  <2>1. /\ a.state = "project" /\ a.host = FirstOf(<<Value(p, "--host"), "127.0.0.1">>)
        /\ a.port = FirstOf(<<Value(p, "--port"), 0>>) /\ a.root = FirstOf(<<Value(p, "--project-root"), "repo">>)
        /\ a.config = Value(p, "--config") /\ a.profile = Value(p, "--serve-profile")
        /\ a.registry = Value(p, "--registry")
    BY DEF StartDashboardArgs
  <2>2. a.portal \in BOOLEAN /\ a.route \in BOOLEAN
    BY DEF StartDashboardArgs
  <2>3. "dashboard" \in {"dashboard", "gateway"}
    OBVIOUS
  <2> HIDE DEF a
  <2>4. a.host # None /\ a.host \notin Dashed /\ a.root \notin Dashed
    BY <1>1, <1>2, <1>3, <1>4, <2>1, <2>3
  <2>5. a.config \notin Dashed /\ a.profile \notin Dashed /\ a.registry \notin Dashed
    BY <1>2, <1>4, <2>1, <2>3
  <2>6. a.port \in 0 .. MaxNumber /\ a.port <= 65535
    BY <1>1, <1>2, <1>3, <1>4, <2>1, <2>3
  <2>7. Handed(a)
    BY <2>1, <2>2, <2>4, <2>5, <2>6 DEF Handed
  <2> QED BY <2>7 DEF a
<1>5. ASSUME OptsFit("gateway", p.opts)
      PROVE  Handed(StartGatewayArgs(p))
  <2> DEFINE a == StartGatewayArgs(p)
  <2>1. /\ a.state = "gateway" /\ a.host = FirstOf(<<Value(p, "--host"), "127.0.0.1">>)
        /\ a.port = FirstOf(<<Value(p, "--port"), 0>>) /\ a.root = None
        /\ a.config = Value(p, "--config") /\ a.profile = Value(p, "--serve-profile")
        /\ a.registry = "gatewayRegistry"
    BY DEF StartGatewayArgs, Registered
  <2>2. a.portal \in BOOLEAN /\ a.route \in BOOLEAN
    BY DEF StartGatewayArgs
  <2>3. "gateway" \in {"dashboard", "gateway"}
    OBVIOUS
  <2> HIDE DEF a
  <2>4. a.host # None /\ a.host \notin Dashed /\ a.root \notin Dashed
    BY <1>1, <1>2, <1>3, <1>5, <2>1, <2>3
  <2>5. a.config \notin Dashed /\ a.profile \notin Dashed /\ a.registry \notin Dashed
    BY <1>1, <1>2, <1>5, <2>1, <2>3
  <2>6. a.port \in 0 .. MaxNumber /\ a.port <= 65535
    BY <1>1, <1>2, <1>3, <1>5, <2>1, <2>3
  <2>7. Handed(a)
    BY <2>1, <2>2, <2>4, <2>5, <2>6 DEF Handed
  <2> QED BY <2>7 DEF a
<1> QED BY <1>4, <1>5

(* The whole list of a daemon.                                             *)
LEMMA DaemonArgsTell ==
  ASSUME NEW a, Handed(a)
  PROVE  LET q == Parse(daemonArgv(a), {}) IN
         /\ q.res = "parsed" /\ q.cmd = "dashboard-server"
         /\ Value(q, "--host") = a.host /\ Value(q, "--port") = a.port
         /\ Value(q, "--project-root") = a.root /\ Value(q, "--config") = a.config
         /\ Value(q, "--registry") = a.registry
         /\ a.portal => Value(q, "--portal") = TRUE
         /\ a.route => Value(q, "--project-route") = TRUE
<1> DEFINE verb == "dashboard-server"
<1>0. verb \in Hidden /\ Grammar[verb] = ServeOptions("daemon")
  BY Commands DEF Hidden
<1>1. \A v \in {"project", "gateway", "dist", "token"} : v \notin Dashed /\ v # None
  BY NoneIsNoValue, PlainWordsAreTaken DEF PlainWords
<1>2. \A o \in DOMAIN Grammar[verb] : o \notin HelpWords
  <2>1. \A o \in DOMAIN ServeOptions("daemon") : o \notin HelpWords
    BY DEF ServeOptions, OfKinds, HelpWords
  <2> QED BY <1>0, <2>1
<1>3. /\ \A o \in {"--state-dir", "--dist-dir", "--token", "--host", "--project-root", "--config", "--serve-profile",
                   "--registry"} : o \in DOMAIN Grammar[verb] /\ Grammar[verb][o] = "text"
      /\ "--port" \in DOMAIN Grammar[verb] /\ Grammar[verb]["--port"] = "port"
      /\ \A o \in {"--portal", "--project-route"} : o \in DOMAIN Grammar[verb] /\ Grammar[verb][o] = "flag"
  BY <1>0, ServerGrammar
<1>4. "--portal-assets" \in DOMAIN Grammar[verb]
  <2>1. "--portal-assets" \in DOMAIN ServeOptions("daemon")
    BY DEF ServeOptions, OfKinds
  <2> QED BY <1>0, <2>1
<1> HIDE DEF verb
<1>5. PICK portal, route : portal = (IF a.portal THEN TRUE ELSE None) /\ route = (IF a.route THEN TRUE ELSE None)
  OBVIOUS
<1>6. (a.portal => portal # None) /\ (a.route => route # None)
  BY <1>5, NoneIsNoValue, Zenon
<1>7. a.port \in 0 .. MaxNumber /\ a.port <= 65535 /\ a.port # None
  <2>1. a.port \in 0 .. MaxNumber /\ a.port <= 65535
    BY DEF Handed
  <2> QED BY <2>1, NoneIsNoValue, NumbersHaveWords
<1>8. PICK a1, a2, a3, a4, a5, a6, a7, a8, a9, a10, a11 :
        /\ a1 = <<"--state-dir", a.state>> /\ a2 = <<"--dist-dir", "dist">> /\ a3 = <<"--token", "token">>
        /\ a4 = <<"--host", a.host>> /\ a5 = Number("--port", a.port)
        /\ a6 = Opt("--project-root", a.root) /\ a7 = Opt("--config", a.config)
        /\ a8 = Opt("--serve-profile", a.profile) /\ a9 = Flag("--portal", a.portal)
        /\ a10 = Flag("--project-route", a.route) /\ a11 = Opt("--registry", a.registry)
  OBVIOUS
<1>9. PICK s1, s2, s3, s4, s5, s6, s7, s8, s9, s10, s11 :
        /\ s1 = <<verb>> \o a1 /\ s2 = s1 \o a2 /\ s3 = s2 \o a3 /\ s4 = s3 \o a4 /\ s5 = s4 \o a5
        /\ s6 = s5 \o a6 /\ s7 = s6 \o a7 /\ s8 = s7 \o a8 /\ s9 = s8 \o a9 /\ s10 = s9 \o a10 /\ s11 = s10 \o a11
  OBVIOUS
<1>10. daemonArgv(a) = s11
  BY <1>8, <1>9 DEF daemonArgv, verb
<1>11. /\ Adds(verb, a1, Only(verb, "--state-dir", a.state)) /\ Adds(verb, a2, Only(verb, "--dist-dir", "dist"))
       /\ Adds(verb, a3, Only(verb, "--token", "token")) /\ Adds(verb, a4, Only(verb, "--host", a.host))
  BY <1>0, <1>1, <1>2, <1>3, <1>8, TextAdds DEF Handed
<1>12. Adds(verb, a5, Only(verb, "--port", a.port))
  BY <1>0, <1>2, <1>3, <1>7, <1>8, AddsNumber DEF Number
<1>13. /\ Adds(verb, a6, Only(verb, "--project-root", a.root)) /\ Adds(verb, a7, Only(verb, "--config", a.config))
       /\ Adds(verb, a8, Only(verb, "--serve-profile", a.profile)) /\ Adds(verb, a11, Only(verb, "--registry",
            a.registry))
  BY <1>0, <1>2, <1>3, <1>8, AddsOpt DEF Handed
<1>14. Adds(verb, a9, Only(verb, "--portal", portal)) /\ Adds(verb, a10, Only(verb, "--project-route", route))
  BY <1>0, <1>2, <1>3, <1>5, <1>8, AddsFlagIf
<1>15. PICK t1 : Tells(verb, s1, t1)
           /\ \A f \in DOMAIN Grammar[verb] : t1[f] = IF f = "--state-dir" THEN a.state ELSE None
  <2>1. \A f \in DOMAIN Grammar[verb] : Only(verb, "--state-dir",
            a.state)[f] = IF f = "--state-dir" THEN a.state ELSE None
    BY DEF Only
  <2>2. Tells(verb, s1, Only(verb, "--state-dir", a.state))
    BY <1>0, <1>9, <1>11, TellsFirst
  <2> QED BY <2>1, <2>2
<1>16. PICK t2 : /\ Tells(verb, s2, t2)
                 /\ \A f \in DOMAIN Grammar[verb] : t2[f] = IF f = "--dist-dir"
                      /\ "dist" # None THEN "dist" ELSE t1[f]
  <2>1. PICK v : v = "dist"
    OBVIOUS
  <2>2. s2 = s1 \o a2 /\ Adds(verb, a2, Only(verb, "--dist-dir", v)) /\ Tells(verb, s1, t1) /\ verb \in Hidden
    BY <1>0, <1>9, <1>11, <1>15, <2>1
  <2>3. PICK t : /\ Tells(verb, s2, t)
                 /\ \A f \in DOMAIN Grammar[verb] : t[f] = IF f = "--dist-dir" /\ v # None THEN v ELSE t1[f]
    BY <2>2, TellsThen
  <2> QED BY <2>1, <2>3
<1>17. PICK t3 : /\ Tells(verb, s3, t3)
                 /\ \A f \in DOMAIN Grammar[verb] : t3[f] = IF f = "--token" /\ "token" # None THEN "token" ELSE t2[f]
  <2>1. PICK v : v = "token"
    OBVIOUS
  <2>2. s3 = s2 \o a3 /\ Adds(verb, a3, Only(verb, "--token", v)) /\ Tells(verb, s2, t2) /\ verb \in Hidden
    BY <1>0, <1>9, <1>11, <1>16, <2>1
  <2>3. PICK t : /\ Tells(verb, s3, t)
                 /\ \A f \in DOMAIN Grammar[verb] : t[f] = IF f = "--token" /\ v # None THEN v ELSE t2[f]
    BY <2>2, TellsThen
  <2> QED BY <2>1, <2>3
<1>18. PICK t4 : /\ Tells(verb, s4, t4)
                 /\ \A f \in DOMAIN Grammar[verb] : t4[f] = IF f = "--host" /\ a.host # None THEN a.host ELSE t3[f]
  <2>1. PICK v : v = a.host
    OBVIOUS
  <2>2. s4 = s3 \o a4 /\ Adds(verb, a4, Only(verb, "--host", v)) /\ Tells(verb, s3, t3) /\ verb \in Hidden
    BY <1>0, <1>9, <1>11, <1>17, <2>1
  <2>3. PICK t : /\ Tells(verb, s4, t)
                 /\ \A f \in DOMAIN Grammar[verb] : t[f] = IF f = "--host" /\ v # None THEN v ELSE t3[f]
    BY <2>2, TellsThen
  <2> QED BY <2>1, <2>3
<1>19. PICK t5 : /\ Tells(verb, s5, t5)
                 /\ \A f \in DOMAIN Grammar[verb] : t5[f] = IF f = "--port" /\ a.port # None THEN a.port ELSE t4[f]
  <2>1. PICK v : v = a.port
    OBVIOUS
  <2>2. s5 = s4 \o a5 /\ Adds(verb, a5, Only(verb, "--port", v)) /\ Tells(verb, s4, t4) /\ verb \in Hidden
    BY <1>0, <1>9, <1>12, <1>18, <2>1
  <2>3. PICK t : /\ Tells(verb, s5, t)
                 /\ \A f \in DOMAIN Grammar[verb] : t[f] = IF f = "--port" /\ v # None THEN v ELSE t4[f]
    BY <2>2, TellsThen
  <2> QED BY <2>1, <2>3
<1>20. PICK t6 : /\ Tells(verb, s6, t6)
                 /\ \A f \in DOMAIN Grammar[verb] : t6[f] = IF f = "--project-root"
                      /\ a.root # None THEN a.root ELSE t5[f]
  <2>1. PICK v : v = a.root
    OBVIOUS
  <2>2. s6 = s5 \o a6 /\ Adds(verb, a6, Only(verb, "--project-root", v)) /\ Tells(verb, s5, t5) /\ verb \in Hidden
    BY <1>0, <1>9, <1>13, <1>19, <2>1
  <2>3. PICK t : /\ Tells(verb, s6, t)
                 /\ \A f \in DOMAIN Grammar[verb] : t[f] = IF f = "--project-root" /\ v # None THEN v ELSE t5[f]
    BY <2>2, TellsThen
  <2> QED BY <2>1, <2>3
<1>21. PICK t7 : /\ Tells(verb, s7, t7)
                 /\ \A f \in DOMAIN Grammar[verb] : t7[f] = IF f = "--config"
                      /\ a.config # None THEN a.config ELSE t6[f]
  <2>1. PICK v : v = a.config
    OBVIOUS
  <2>2. s7 = s6 \o a7 /\ Adds(verb, a7, Only(verb, "--config", v)) /\ Tells(verb, s6, t6) /\ verb \in Hidden
    BY <1>0, <1>9, <1>13, <1>20, <2>1
  <2>3. PICK t : /\ Tells(verb, s7, t)
                 /\ \A f \in DOMAIN Grammar[verb] : t[f] = IF f = "--config" /\ v # None THEN v ELSE t6[f]
    BY <2>2, TellsThen
  <2> QED BY <2>1, <2>3
<1>22. PICK t8 : /\ Tells(verb, s8, t8)
                 /\ \A f \in DOMAIN Grammar[verb] : t8[f] = IF f = "--serve-profile"
                      /\ a.profile # None THEN a.profile ELSE t7[f]
  <2>1. PICK v : v = a.profile
    OBVIOUS
  <2>2. s8 = s7 \o a8 /\ Adds(verb, a8, Only(verb, "--serve-profile", v)) /\ Tells(verb, s7, t7) /\ verb \in Hidden
    BY <1>0, <1>9, <1>13, <1>21, <2>1
  <2>3. PICK t : /\ Tells(verb, s8, t)
                 /\ \A f \in DOMAIN Grammar[verb] : t[f] = IF f = "--serve-profile" /\ v # None THEN v ELSE t7[f]
    BY <2>2, TellsThen
  <2> QED BY <2>1, <2>3
<1>23. PICK t9 : /\ Tells(verb, s9, t9)
                 /\ \A f \in DOMAIN Grammar[verb] : t9[f] = IF f = "--portal" /\ portal # None THEN portal ELSE t8[f]
  <2>1. PICK v : v = portal
    OBVIOUS
  <2>2. s9 = s8 \o a9 /\ Adds(verb, a9, Only(verb, "--portal", v)) /\ Tells(verb, s8, t8) /\ verb \in Hidden
    BY <1>0, <1>9, <1>14, <1>22, <2>1
  <2>3. PICK t : /\ Tells(verb, s9, t)
                 /\ \A f \in DOMAIN Grammar[verb] : t[f] = IF f = "--portal" /\ v # None THEN v ELSE t8[f]
    BY <2>2, TellsThen
  <2> QED BY <2>1, <2>3
<1>24. PICK t10 : /\ Tells(verb, s10, t10)
                 /\ \A f \in DOMAIN Grammar[verb] : t10[f] = IF f = "--project-route"
                      /\ route # None THEN route ELSE t9[f]
  <2>1. PICK v : v = route
    OBVIOUS
  <2>2. s10 = s9 \o a10 /\ Adds(verb, a10, Only(verb, "--project-route", v)) /\ Tells(verb, s9, t9) /\ verb \in Hidden
    BY <1>0, <1>9, <1>14, <1>23, <2>1
  <2>3. PICK t : /\ Tells(verb, s10, t)
                 /\ \A f \in DOMAIN Grammar[verb] : t[f] = IF f = "--project-route" /\ v # None THEN v ELSE t9[f]
    BY <2>2, TellsThen
  <2> QED BY <2>1, <2>3
<1>25. PICK t11 : /\ Tells(verb, s11, t11)
                 /\ \A f \in DOMAIN Grammar[verb] : t11[f] = IF f = "--registry"
                      /\ a.registry # None THEN a.registry ELSE t10[f]
  <2>1. PICK v : v = a.registry
    OBVIOUS
  <2>2. s11 = s10 \o a11 /\ Adds(verb, a11, Only(verb, "--registry", v)) /\ Tells(verb, s10, t10) /\ verb \in Hidden
    BY <1>0, <1>9, <1>13, <1>24, <2>1
  <2>3. PICK t : /\ Tells(verb, s11, t)
                 /\ \A f \in DOMAIN Grammar[verb] : t[f] = IF f = "--registry" /\ v # None THEN v ELSE t10[f]
    BY <2>2, TellsThen
  <2> QED BY <2>1, <2>3
<1>26. /\ t11["--state-dir"] # None /\ t11["--dist-dir"] # None /\ t11["--token"] # None
       /\ t11["--portal-assets"] = None
  BY <1>15, <1>16, <1>17, <1>18, <1>19, <1>20, <1>21, <1>22, <1>23, <1>24, <1>25, <1>1, <1>3, <1>4 DEF Handed
<1>27. /\ t11["--host"] = a.host /\ t11["--port"] = a.port /\ t11["--project-root"] = a.root
       /\ t11["--config"] = a.config /\ t11["--registry"] = a.registry
  BY <1>15, <1>16, <1>17, <1>18, <1>19, <1>20, <1>21, <1>22, <1>23, <1>24, <1>25, <1>3, <1>7 DEF Handed
<1>28. t11["--portal"] = portal /\ t11["--project-route"] = route
  BY <1>15, <1>16, <1>17, <1>18, <1>19, <1>20, <1>21, <1>22, <1>23, <1>24, <1>25, <1>3
<1>29. PICK rest : Adds(verb, rest, t11) /\ s11 = <<verb>> \o rest
  BY <1>25 DEF Tells
<1>30. /\ Parse(s11, {}).res = "parsed" /\ Parse(s11, {}).cmd = verb
       /\ \A o \in DOMAIN Grammar[verb] : Value(Parse(s11, {}), o) = t11[o]
  <2>1. verb # "batch-mapper-worker"
    BY DEF verb
  <2> QED BY <1>0, <1>26, <1>29, <2>1, ChildParses
<1>31. PICK q : q = Parse(s11, {})
  OBVIOUS
<1>32. /\ Value(q, "--host") = a.host /\ Value(q, "--port") = a.port /\ Value(q, "--project-root") = a.root
       /\ Value(q, "--config") = a.config /\ Value(q, "--registry") = a.registry
       /\ Value(q, "--portal") = portal /\ Value(q, "--project-route") = route
  BY <1>3, <1>27, <1>28, <1>30, <1>31
<1>33. (a.portal => portal = TRUE) /\ (a.route => route = TRUE)
  BY <1>5
<1> QED BY <1>10, <1>30, <1>31, <1>32, <1>33 DEF verb

(* A daemon has what its start asked for, and listens where it says.       *)
LEMMA DaemonRuns ==
  ASSUME NEW a, Handed(a), NEW w
  PROVE  LET d == startDaemon(a, w) IN
         /\ d.line.res = "parsed" /\ Announced(d) = d.host
         /\ d.host = a.host /\ d.port = a.port /\ d.root = a.root
         /\ a.registry # None => d.registry = a.registry
         /\ a.portal => d.portal = TRUE
         /\ a.route => d.route = TRUE
         /\ d.file = discoverConfigPath(w, a.config, daemonPointer(a, w))
<1> DEFINE q == Parse(daemonArgv(a), {})
           r == runServe(q, w, daemonPointer(a, w))
           d == startDaemon(a, w)
<1>1. /\ q.res = "parsed" /\ q.cmd = "dashboard-server"
      /\ Value(q, "--host") = a.host /\ Value(q, "--port") = a.port
      /\ Value(q, "--project-root") = a.root /\ Value(q, "--config") = a.config
      /\ Value(q, "--registry") = a.registry
      /\ a.portal => Value(q, "--portal") = TRUE
      /\ a.route => Value(q, "--project-route") = TRUE
  BY DaemonArgsTell
<1>2. d = [r EXCEPT !.ok = @ /\ q.res = "parsed"]
  BY DEF startDaemon
<1>3. DOMAIN r = {"line", "file", "ok", "host", "port", "portal", "route", "registry", "embedding", "root"}
  BY DEF runServe
<1> HIDE DEF q, r, d
<1>4. /\ d.line = r.line /\ d.host = r.host /\ d.port = r.port /\ d.root = r.root /\ d.file = r.file
      /\ d.registry = r.registry /\ d.portal = r.portal /\ d.route = r.route
  BY <1>2, <1>3
<1>5. /\ Value(q, "--host") # None => r.host = Value(q, "--host")
      /\ Value(q, "--port") # None => r.port = Value(q, "--port")
      /\ Value(q, "--registry") # None => r.registry = Value(q, "--registry")
      /\ Value(q, "--portal") # None => r.portal = Value(q, "--portal")
      /\ Value(q, "--project-route") # None => r.route = Value(q, "--project-route")
      /\ r.root = IF Value(q, "--project-root") # None THEN Value(q, "--project-root")
                  ELSE IF q.cmd = "serve" THEN "repo" ELSE None
      /\ r.line = q
      /\ r.file = discoverConfigPath(w, IF Value(q, "--config") # None THEN Value(q, "--config")
                                        ELSE IF q.cmd = "serve" THEN "derived" ELSE None, daemonPointer(a, w))
  BY ServeSettings DEF r
<1>6. a.host # None /\ a.port # None /\ None # TRUE
  <2>1. a.host # None /\ a.port \in 0 .. MaxNumber
    BY DEF Handed
  <2>2. a.port # None
    BY <2>1, NoneIsNoValue, NumbersHaveWords
  <2>3. None # TRUE
    BY NoneIsNoValue
  <2> QED BY <2>1, <2>2, <2>3, Zenon
<1>7. d.host = a.host /\ d.port = a.port /\ d.root = a.root /\ (a.registry # None => d.registry = a.registry)
  BY <1>1, <1>4, <1>5, <1>6
<1>8. ASSUME a.portal PROVE d.portal = TRUE
  <2>1. PICK v : v = TRUE
    OBVIOUS
  <2>2. Value(q, "--portal") = v /\ v # None
    BY <1>1, <1>6, <1>8, <2>1, Zenon
  <2>3. d.portal = v
    BY <1>4, <1>5, <2>2
  <2> QED BY <2>1, <2>3, Zenon
<1>9. ASSUME a.route PROVE d.route = TRUE
  <2>1. PICK v : v = TRUE
    OBVIOUS
  <2>2. Value(q, "--project-route") = v /\ v # None
    BY <1>1, <1>6, <1>9, <2>1, Zenon
  <2>3. d.route = v
    BY <1>4, <1>5, <2>2
  <2> QED BY <2>1, <2>3, Zenon
<1>10. d.line.res = "parsed" /\ Announced(d) = d.host
  BY <1>1, <1>4, <1>5, <1>7 DEF Announced
<1>11. d.file = discoverConfigPath(w, a.config, daemonPointer(a, w))
  <2>1. PICK c : c = (IF Value(q, "--config") # None THEN Value(q, "--config")
                      ELSE IF q.cmd = "serve" THEN "derived" ELSE None)
    OBVIOUS
  <2>2. c = a.config
    BY <1>1, <2>1
  <2> QED BY <1>4, <1>5, <2>1, <2>2
<1> QED BY <1>7, <1>8, <1>9, <1>10, <1>11 DEF d

(* A daemon reads the file its start has read, when the start named it or  *)
(* UA_CONFIG names none.                                                   *)
LEMMA DaemonFinds ==
  ASSUME NEW a, NEW w, NEW file,
         file = discoverConfigPath(w, FirstOf(<<a.config, "derived">>), w.pointer), file # None,
         a.config # None \/ w.pointer = None
  PROVE  discoverConfigPath(w, a.config, daemonPointer(a, w)) = file
<1>1. None # "derived"
  BY NoneIsNoValue DEF PlainWords
<1>2. FirstOf(<<a.config, "derived">>) = IF a.config # None THEN a.config ELSE "derived"
  BY FirstOfTwo
<1>3. CASE a.config # None
  BY <1>2, <1>3 DEF discoverConfigPath
<1>4. CASE a.config = None
  <2>1. file = "derived" /\ "derived" \in w.files
    BY <1>1, <1>2, <1>4 DEF discoverConfigPath
  <2>2. daemonPointer(a, w) = "derived"
    BY <1>4, <2>1 DEF daemonPointer
  <2>3. PICK b : b = (IF "cwd" \in w.files THEN "cwd" ELSE None)
    OBVIOUS
  <2>4. FirstOf(<<"derived", b>>) = "derived"
    BY <1>1, FirstOfTwo
  <2> QED BY <1>4, <2>1, <2>2, <2>3, <2>4 DEF discoverConfigPath
<1> QED BY <1>3, <1>4

\* What is left on the line of a command after its end.
LEMMA TypedToStart ==
  ASSUME NEW p
  PROVE  /\ OptsFit("dashboard", p.opts) \/ OptsFit("serve", p.opts) =>
              Value(p, "--portal") \in {None, TRUE}
         /\ OptsFit("gateway", p.opts) =>
              \A o \in {"--portal", "--registry", "--project-root"} : Value(p, o) = None
<1>1. ASSUME NEW verb \in {"dashboard", "serve"}, OptsFit(verb, p.opts)
      PROVE  Value(p, "--portal") \in {None, TRUE}
  <2>1. Grammar[verb]["--portal"] = "flag"
    BY StartGrammar, ServerGrammar, Commands
  <2>2. Value(p, "--portal") # None => Fits("flag", Value(p, "--portal"))
    BY <1>1, <2>1 DEF OptsFit, Value
  <2>3. Fits("flag", Value(p, "--portal")) => Value(p, "--portal") = TRUE
    BY DEF Fits
  <2> QED BY <2>2, <2>3
<1>2. ASSUME OptsFit("gateway", p.opts), NEW o \in {"--portal", "--registry", "--project-root"}
      PROVE  Value(p, o) = None
  BY <1>2, StartGrammar, Commands DEF OptsFit, Value
<1> QED BY <1>1, <1>2

-----------------------------------------------------------------------------
(* The line.                                                               *)

\* LineFits of any parser.
ParserFits(p) ==
  /\ p = [cmd |-> p.cmd, act |-> p.act, opts |-> p.opts, pend |-> p.pend, pos |-> p.pos, res |-> p.res]
  /\ p.cmd \in Public \cup {"ops", None}
  /\ p.cmd = None => p.pend = None /\ DOMAIN p.opts = {}
  /\ p.pend # None => p.pend \in DOMAIN Grammar[p.cmd] /\ Grammar[p.cmd][p.pend] # "flag"
  /\ OptsFit(p.cmd, p.opts)

LEMMA LineFitsIs == LineFits <=> ParserFits(line)
BY DEF LineFits, ParserFits

(* A parser that has read nothing.                                         *)
LEMMA FreshFits == ParserFits(Fresh)
BY DEF ParserFits, Fresh, OptsFit

(* A parser that stops.                                                    *)
LEMMA EndedFits ==
  ASSUME NEW p, ParserFits(p), NEW how
  PROVE  ParserFits(Ended(p, how))
<1>1. PICK q : q = Ended(p, how)
  OBVIOUS
<1>2. q = [cmd |-> p.cmd, act |-> p.act, opts |-> p.opts, pend |-> p.pend, pos |-> p.pos, res |-> how]
  BY <1>1 DEF Ended, ParserFits
<1>3. q.cmd = p.cmd /\ q.act = p.act /\ q.opts = p.opts /\ q.pend = p.pend /\ q.pos = p.pos /\ q.res = how
  BY <1>2
<1>4. ParserFits(q)
  BY <1>2, <1>3 DEF ParserFits
<1> QED BY <1>1, <1>4

(* A parser that takes a value.                                            *)
LEMMA GivenFits ==
  ASSUME NEW p, ParserFits(p), p.cmd # None, NEW o, NEW v, v # None,
         o \notin {"mode", "--exclude-tests"} => o \in DOMAIN Grammar[p.cmd] /\ Fits(Grammar[p.cmd][o], v)
  PROVE  ParserFits(Given(p, o, v))
<1>1. PICK q, opts : q = Given(p, o, v) /\ opts = [f \in DOMAIN p.opts \cup {o} |-> IF f = o THEN v ELSE p.opts[f]]
  OBVIOUS
<1>2. q = [p EXCEPT !.opts = opts, !.pend = None]
  <2>1. PICK old : old = p.opts
    OBVIOUS
  <2> QED BY <1>1 DEF Given
<1>3. q = [cmd |-> p.cmd, act |-> p.act, opts |-> opts, pend |-> None, pos |-> p.pos, res |-> p.res]
  BY <1>2 DEF ParserFits
<1>4. q.cmd = p.cmd /\ q.act = p.act /\ q.opts = opts /\ q.pend = None /\ q.pos = p.pos /\ q.res = p.res
  BY <1>3
<1>5. DOMAIN opts = DOMAIN p.opts \cup {o} /\ opts[o] = v /\ \A f \in DOMAIN p.opts : f # o => opts[f] = p.opts[f]
  BY <1>1
<1>6. OptsFit(p.cmd, opts)
  BY <1>5 DEF OptsFit, ParserFits
<1>7. ParserFits(q)
  BY <1>3, <1>4, <1>6 DEF ParserFits
<1> QED BY <1>1, <1>7

\* What people type where a value belongs.
LEMMA SamplesFit ==
  ASSUME NEW kind, kind # "flag", NEW w \in Sample(kind), w \notin Dashed \/ kind = "signed", Accepts(kind, w)
  PROVE  ValueOf(kind, w) # None /\ Fits(kind, ValueOf(kind, w))
<1>1. \A u \in DOMAIN IntOf : IntOf[u] \in Int
  <2>1. ASSUME NEW u \in Numerals
        PROVE  IntOf[u] \in Int
    <3>1. \E n \in 0 .. MaxNumber : ToString(n) = u
      BY DEF Numerals
    <3>2. IntOf[u] = CHOOSE n \in 0 .. MaxNumber : ToString(n) = u
      BY DEF IntOf
    <3> QED BY <3>1, <3>2, NumbersHaveWords
  <2>2. ASSUME NEW u \in {"-3", "70000"}, u \notin Numerals
        PROVE  IntOf[u] \in Int
    BY <2>2 DEF IntOf
  <2>3. DOMAIN IntOf = Numerals \cup {"-3", "70000"}
    BY DEF IntOf
  <2> QED BY <2>1, <2>2, <2>3
<1>2. CASE kind = "count"
  <2>1. w \in {"2", "0"} /\ IsInt(w, 1) /\ ValueOf(kind, w) = IntOf[w]
    BY <1>2 DEF Sample, Accepts, ValueOf
  <2>2. IntOf[w] = 2
    BY <2>1, TypedNumbers DEF IsInt
  <2> QED BY <1>2, <2>1, <2>2, NoneIsNoValue DEF Fits
<1>3. CASE kind = "port"
  <2>1. w \in {"80", "70000"} /\ IsInt(w, 0) /\ IntOf[w] <= 65535 /\ ValueOf(kind, w) = IntOf[w]
    BY <1>3 DEF Sample, Accepts, ValueOf
  <2>2. IntOf[w] \in 0 .. MaxNumber
    BY <2>1, TypedNumbers
  <2>3. IntOf[w] \in Int
    BY <1>1, <2>1 DEF IsInt
  <2> QED BY <1>3, <2>1, <2>2, <2>3, NoneIsNoValue DEF Fits
<1>4. CASE kind \in {"natural", "signed"}
  <2>1. w \in DOMAIN IntOf /\ ValueOf(kind, w) = IntOf[w]
    <3>1. CASE kind = "natural"
      BY <3>1 DEF Accepts, ValueOf, IsInt
    <3>2. CASE kind = "signed"
      BY <3>2 DEF Accepts, ValueOf
    <3> QED BY <1>4, <3>1, <3>2
  <2> QED BY <1>1, <1>4, <2>1, NoneIsNoValue DEF Fits
<1>5. CASE kind \notin {"count", "port", "natural", "signed"}
  <2>1. ValueOf(kind, w) = w /\ w \notin Dashed
    BY <1>5 DEF ValueOf
  <2>2. w \in {"auto", "full", "id", "local", "project", "-3"}
    BY <1>5 DEF Sample
  <2>3. "-3" \in Dashed
    BY DEF Dashed
  <2>4. w # None
    <3>1. w \in PlainWords
      BY <2>1, <2>2, <2>3 DEF PlainWords
    <3> QED BY <3>1, NoneIsNoValue
  <2> QED BY <1>5, <2>1, <2>4 DEF Fits
<1> QED BY <1>2, <1>3, <1>4, <1>5

(* A word typed keeps the parser's options of their kinds.                 *)
LEMMA ReadWordFits ==
  ASSUME NEW p, ParserFits(p), NEW w \in Typed(p)
  PROVE  ParserFits(ReadWord(p, w))
<1>1. CASE p.res # "reading"
  BY <1>1 DEF ReadWord
<1>2. CASE p.res = "reading" /\ p.cmd = None
  <2>1. ReadWord(p, w) = ReadCommand(p, w)
    BY <1>2 DEF ReadWord
  <2>2. CASE w \in DOMAIN Grammar \cup DOMAIN Actions /\ w \notin HelpWords \cup {"help"}
    <3>1. PICK q : q = [p EXCEPT !.cmd = w]
      OBVIOUS
    <3>2. q = [cmd |-> w, act |-> p.act, opts |-> p.opts, pend |-> p.pend, pos |-> p.pos, res |-> p.res]
      BY <3>1 DEF ParserFits
    <3>3. q.cmd = w /\ q.act = p.act /\ q.opts = p.opts /\ q.pend = p.pend /\ q.pos = p.pos /\ q.res = p.res
      BY <3>2
    <3>4. w \in Public \cup {"ops"}
      <4>1. w \in Public \cup {"ops", "--help", "--bogus"}
        BY <1>2 DEF Typed
      <4>2. "--bogus" \notin DOMAIN Grammar \cup DOMAIN Actions /\ "--help" \in HelpWords
        BY DEF Grammar, Actions, HelpWords
      <4> QED BY <2>2, <4>1, <4>2
    <3>5. p.pend = None /\ DOMAIN p.opts = {}
      BY <1>2 DEF ParserFits
    <3>6. ParserFits(q)
      BY <3>2, <3>3, <3>4, <3>5 DEF ParserFits, OptsFit
    <3>7. ReadCommand(p, w) = q
      BY <2>2, <3>1 DEF ReadCommand
    <3> QED BY <2>1, <3>6, <3>7
  <2>3. CASE ~(w \in DOMAIN Grammar \cup DOMAIN Actions /\ w \notin HelpWords \cup {"help"})
    BY <2>1, <2>3, EndedFits DEF ReadCommand
  <2> QED BY <2>2, <2>3
<1>3. CASE p.res = "reading" /\ p.cmd # None /\ p.cmd \in DOMAIN Actions /\ p.act = None
  <2>1. ReadWord(p, w) = ReadAction(p, w)
    BY <1>3 DEF ReadWord
  <2>2. PICK res : res = IF p.cmd = "ops" THEN "parsed" ELSE p.res
    OBVIOUS
  <2>3. PICK q : q = [p EXCEPT !.act = w, !.res = res]
    OBVIOUS
  <2>4. q = [cmd |-> p.cmd, act |-> w, opts |-> p.opts, pend |-> p.pend, pos |-> p.pos, res |-> res]
    BY <2>3 DEF ParserFits
  <2>5. q.cmd = p.cmd /\ q.act = w /\ q.opts = p.opts /\ q.pend = p.pend /\ q.pos = p.pos /\ q.res = res
    BY <2>4
  <2>6. ParserFits(q)
    BY <2>4, <2>5 DEF ParserFits
  <2>7. \/ ReadAction(p, w) = q \/ ReadAction(p, w) = Ended(p, "help") \/ ReadAction(p, w) = Ended(p, "refused")
    BY <2>2, <2>3 DEF ReadAction
  <2> QED BY <2>1, <2>6, <2>7, EndedFits
<1>4. CASE p.res = "reading" /\ p.cmd # None /\ ~(p.cmd \in DOMAIN Actions /\ p.act = None) /\ p.pend # None
  <2>1. ReadWord(p, w) = ReadValue(p, w)
    BY <1>4 DEF ReadWord
  <2>2. PICK kind : kind = Grammar[p.cmd][p.pend]
    OBVIOUS
  <2>3. w \in Sample(kind) /\ kind # "flag" /\ p.pend \in DOMAIN Grammar[p.cmd] /\ p.cmd # "batch-mapper-worker"
    <3>1. w \in Sample(kind)
      BY <1>4, <2>2 DEF Typed
    <3>2. p.cmd \in Public \cup {"ops"}
      BY <1>4 DEF ParserFits
    <3> QED BY <1>4, <2>2, <3>1, <3>2 DEF ParserFits, Public
  <2>4. CASE (kind = "signed" \/ TakesWord(p.cmd, w)) /\ Accepts(kind, w)
    <3>1. w \notin Dashed \/ kind = "signed"
      BY <2>3, <2>4 DEF TakesWord
    <3>2. ValueOf(kind, w) # None /\ Fits(kind, ValueOf(kind, w))
      BY <2>3, <2>4, <3>1, SamplesFit
    <3>3. PICK v : v = ValueOf(kind, w)
      OBVIOUS
    <3>4. ParserFits(Given(p, p.pend, v))
      BY <1>4, <2>2, <2>3, <3>2, <3>3, GivenFits
    <3>5. ReadValue(p, w) = Given(p, p.pend, v)
      BY <2>2, <2>4, <3>3 DEF ReadValue
    <3> QED BY <2>1, <3>4, <3>5
  <2>5. CASE ~((kind = "signed" \/ TakesWord(p.cmd, w)) /\ Accepts(kind, w))
    BY <2>1, <2>2, <2>5, EndedFits DEF ReadValue
  <2> QED BY <2>4, <2>5
<1>5. CASE p.res = "reading" /\ p.cmd # None /\ ~(p.cmd \in DOMAIN Actions /\ p.act = None) /\ p.pend = None
  <2>1. ReadWord(p, w) = ReadOption(p, w)
    BY <1>5 DEF ReadWord
  <2>2. PICK how : how = IF p.cmd = "dashboard-server" THEN "refused" ELSE "help"
    OBVIOUS
  <2>3. \/ ReadOption(p, w) = Ended(p, how)
        \/ ReadOption(p, w) = ReadPositional(p, w)
        \/ ReadOption(p, w) = ReadFlag(p, w) /\ w \in DOMAIN Grammar[p.cmd] /\ Grammar[p.cmd][w] = "flag"
        \/ ReadOption(p, w) = [p EXCEPT !.pend = w] /\ w \in DOMAIN Grammar[p.cmd] /\ Grammar[p.cmd][w] # "flag"
    BY <2>2 DEF ReadOption
  <2>4. ParserFits(ReadPositional(p, w))
    <3>1. PICK q : q = [p EXCEPT !.pos = w]
      OBVIOUS
    <3>2. q = [cmd |-> p.cmd, act |-> p.act, opts |-> p.opts, pend |-> p.pend, pos |-> w, res |-> p.res]
      BY <3>1 DEF ParserFits
    <3>3. q.cmd = p.cmd /\ q.act = p.act /\ q.opts = p.opts /\ q.pend = p.pend /\ q.pos = w /\ q.res = p.res
      BY <3>2
    <3>4. ParserFits(q)
      BY <3>2, <3>3 DEF ParserFits
    <3>5. ReadPositional(p, w) = q \/ ReadPositional(p, w) = Ended(p, "refused")
      BY <3>1 DEF ReadPositional
    <3> QED BY <3>4, <3>5, EndedFits
  <2>5. ASSUME w \in DOMAIN Grammar[p.cmd], Grammar[p.cmd][w] = "flag"
        PROVE  ParserFits(ReadFlag(p, w))
    <3>1. PICK yes, no : yes = TRUE /\ no = FALSE
      OBVIOUS
    <3>2. yes # None
      BY <3>1, NoneIsNoValue
    <3>3. no # None
      BY <3>1, NoneIsNoValue
    <3>4. \/ ReadFlag(p, w) = Ended(p, "refused")
          \/ ReadFlag(p, w) = Given(p, "mode", w) /\ w \in {"--incremental", "--resume", "--backfill"}
          \/ ReadFlag(p, w) = Given(p, "--exclude-tests", no)
          \/ ReadFlag(p, w) = Given(p, w, yes)
      BY <3>1 DEF ReadFlag
    <3>5. ASSUME w \in {"--incremental", "--resume", "--backfill"}
          PROVE  w # None
      <4>1. {"--incremental", "--resume", "--backfill"} \subseteq DOMAIN Grammar["build"]
                /\ "build" \in DOMAIN Grammar
        BY Commands DEF BuildOptions, OfKinds
      <4>2. w \in Dashed
        BY <3>5, <4>1 DEF Dashed
      <4> QED BY <4>2, NoneIsNoValue
    <3>6. Fits("flag", yes)
      BY <3>1 DEF Fits
    <3>7. ParserFits(Given(p, w, yes))
      BY <1>5, <2>5, <3>2, <3>6, GivenFits
    <3>8. ParserFits(Given(p, "--exclude-tests", no))
      BY <1>5, <3>3, GivenFits
    <3>9. w \in {"--incremental", "--resume", "--backfill"} => ParserFits(Given(p, "mode", w))
      BY <1>5, <3>5, GivenFits
    <3> QED BY <3>4, <3>7, <3>8, <3>9, EndedFits
  <2>6. ASSUME w \in DOMAIN Grammar[p.cmd], Grammar[p.cmd][w] # "flag"
        PROVE  ParserFits([p EXCEPT !.pend = w])
    <3>1. PICK q : q = [p EXCEPT !.pend = w]
      OBVIOUS
    <3>2. q = [cmd |-> p.cmd, act |-> p.act, opts |-> p.opts, pend |-> w, pos |-> p.pos, res |-> p.res]
      BY <3>1 DEF ParserFits
    <3>3. q.cmd = p.cmd /\ q.act = p.act /\ q.opts = p.opts /\ q.pend = w /\ q.pos = p.pos /\ q.res = p.res
      BY <3>2
    <3>4. ParserFits(q)
      BY <1>5, <2>6, <3>2, <3>3 DEF ParserFits
    <3> QED BY <3>1, <3>4
  <2> QED BY <2>1, <2>3, <2>4, <2>5, <2>6, EndedFits
<1> QED BY <1>1, <1>2, <1>3, <1>4, <1>5

(* So does the end of the line.                                            *)
LEMMA EndFits ==
  ASSUME NEW p, ParserFits(p), NEW env
  PROVE  ParserFits(End(p, env))
<1>1. PICK opts : opts = Restrict(p.opts, Fields(p) \cap DOMAIN p.opts)
  OBVIOUS
<1>2. PICK q : q = [p EXCEPT !.res = "parsed", !.opts = opts]
  OBVIOUS
<1>3. PICK how : how = IF p.cmd = "ops" THEN "refused" ELSE "help"
  OBVIOUS
<1>4. \/ End(p, env) = p \/ End(p, env) = Ended(p, how) \/ End(p, env) = Ended(p, "refused")
      \/ End(p, env) = q
  <2>1. q = [p EXCEPT !.res = "parsed", !.opts = Restrict(@, Fields(p) \cap DOMAIN @)]
    BY <1>1, <1>2
  <2> QED BY <1>3, <2>1 DEF End
<1>5. DOMAIN opts \subseteq DOMAIN p.opts /\ \A o \in DOMAIN opts : opts[o] = p.opts[o]
  BY <1>1 DEF Restrict
<1>6. OptsFit(p.cmd, opts)
  BY <1>5 DEF OptsFit, ParserFits
<1>7. q = [cmd |-> p.cmd, act |-> p.act, opts |-> opts, pend |-> p.pend, pos |-> p.pos, res |-> "parsed"]
  BY <1>2 DEF ParserFits
<1>8. q.cmd = p.cmd /\ q.act = p.act /\ q.opts = opts /\ q.pend = p.pend /\ q.pos = p.pos /\ q.res = "parsed"
  BY <1>7
<1>9. ParserFits(q)
  BY <1>5, <1>6, <1>7, <1>8 DEF ParserFits
<1> QED BY <1>4, <1>9, EndedFits

(* The invariant: what a parser holds is of its kind, and the properties.  *)
LaunchSafe == LineFits /\ TypedWins /\ BudgetKept /\ ChildrenHear

(* Nothing is claimed of a command that has not run or was refused.        *)
LEMMA NotRun ==
  ASSUME ~Ran'
  PROVE  TypedWins' /\ BudgetKept' /\ ChildrenHear'
BY DEF TypedWins, BudgetKept, ChildrenHear, WorkerHears, OneConfig, DaemonHears, Started

(* A build and the workers it has started.                                 *)
LEMMA BuildStarted ==
  ASSUME line'.cmd = "build", OptsFit("build", line'.opts), world' \in BuildWorlds,
         NEW file, NEW set, NEW slots, NEW n,
         file = discoverConfigPath(world', FirstOf(<<Value(line', "--config"), "derived">>), world'.pointer),
         set = resolveBuildConfig(line', world', file), slots = workerSlotsFor(set),
         n = IF set["--batch-mode"] = "full" THEN 0 ELSE Segments(slots),
         ~buildRefused(line', world', file),
         parent' = [ok |-> TRUE, file |-> file, set |-> set, package |-> LlmPackage(line', world', file)],
         children' = [i \in 1..n |-> startWorker(world', buildWorkerArgs(line', world', set, file, slots, i))]
  PROVE  TypedWins' /\ BudgetKept' /\ ChildrenHear'
<1>1. /\ parent'.ok = TRUE /\ parent'.file = file /\ parent'.set = set
      /\ parent'.package = LlmPackage(line', world', file)
  OBVIOUS
<1>2. slots \in Nat \ {0} /\ n \in 0 .. slots
  <2>1. slots \in Nat \ {0}
    BY SlotsFit
  <2>2. Segments(slots) \in 0 .. slots
    BY <2>1, SegmentsFit
  <2> QED BY <2>1, <2>2
<1>3. DOMAIN children' = 1 .. n /\ Len(children') = n
  <2>1. DOMAIN children' = 1 .. n
    OBVIOUS
  <2>2. children' = [i \in 1 .. n |-> children'[i]]
    OBVIOUS
  <2>3. PICK kids : kids = children'
    OBVIOUS
  <2>4. kids = [i \in 1 .. n |-> kids[i]] /\ n \in Nat
    BY <1>2, <2>2, <2>3
  <2>5. Len(kids) = n
    BY <2>4
  <2> QED BY <2>1, <2>3, <2>5
<1>4. ASSUME NEW i \in 1 .. n
      PROVE  Heard(line', world', set, parent'.package, file, slots, i, children'[i])
  <2>1. i \in Nat \ {0}
    BY <1>2
  <2>2. children'[i] = startWorker(world', buildWorkerArgs(line', world', set, file, slots, i))
    OBVIOUS
  <2>3. Heard(line', world', set, LlmPackage(line', world', file), file, slots, i,
              startWorker(world', buildWorkerArgs(line', world', set, file, slots, i)))
    BY <2>1, WorkersHear
  <2> QED BY <1>1, <2>2, <2>3
<1>5. /\ \A s \in BuildSettings : FromCli(line', s) # None => set[s] = FromCli(line', s)
      /\ set["--llm-analysis"] \in BOOLEAN /\ set["--llm-required"] \in BOOLEAN
  BY SettingsFit DEF Switches
<1>6. TypedWins'
  BY <1>1, <1>5 DEF TypedWins, Started
<1>7. BudgetKept'
  <2>1. SUFFICES ASSUME set["--llm-analysis"]
        PROVE  /\ \A i \in DOMAIN children' : Value(children'[i].line, "--global-llm-concurrency") >= 1
               /\ Total(children', "--global-llm-concurrency") <= set["--mappers"] * set["--llm-concurrency-per-mapper"]
               /\ Total(children', "--llm-qpm-limit") <= set["--llm-qpm-limit"]
    BY <1>1 DEF BudgetKept
  <2>2. PICK a, b : a = set["--mappers"] * set["--llm-concurrency-per-mapper"] /\ b = set["--llm-qpm-limit"]
    OBVIOUS
  <2>3. /\ a \in 1 .. MaxNumber /\ b \in 1 .. MaxNumber /\ slots \in 1 .. a /\ slots \in 1 .. b
    BY <2>1, <2>2, SlotsFit
  <2>4. a \in Nat \ {0} /\ b \in Nat \ {0}
    BY <2>3, NumbersHaveWords
  <2>5. \A i \in 1 .. Len(children') :
          /\ Value(children'[i].line, "--global-llm-concurrency") = splitIntegerBudget(a, slots, i)
          /\ Value(children'[i].line, "--llm-qpm-limit") = splitIntegerBudget(b, slots, i)
    <3>1. ASSUME NEW i \in 1 .. n
          PROVE  /\ Value(children'[i].line, "--global-llm-concurrency") = splitIntegerBudget(a, slots, i)
                 /\ Value(children'[i].line, "--llm-qpm-limit") = splitIntegerBudget(b, slots, i)
      <4>1. Heard(line', world', set, parent'.package, file, slots, i, children'[i])
        BY <1>4
      <4> QED BY <2>1, <2>2, <4>1 DEF Heard
    <3> QED BY <1>3, <3>1
  <2>6. ASSUME NEW i \in 1 .. n
        PROVE  Value(children'[i].line, "--global-llm-concurrency") >= 1
    <3>1. i \in Nat \ {0}
      BY <1>2
    <3>2. splitIntegerBudget(a, slots, i) \in 1 .. a
      BY <2>3, <2>4, <3>1, OnePartMore
    <3>3. Value(children'[i].line, "--global-llm-concurrency") = splitIntegerBudget(a, slots, i)
      BY <1>3, <2>5
    <3> QED BY <2>4, <3>2, <3>3
  <2>9. Len(children') \in 0 .. slots
    BY <1>2, <1>3
  <2>10. PICK kids : kids = children'
    OBVIOUS
  <2>11. /\ Len(kids) \in 0 .. slots
         /\ \A i \in 1 .. Len(kids) : Value(kids[i].line, "--global-llm-concurrency") = splitIntegerBudget(a,
              slots, i)
         /\ \A i \in 1 .. Len(kids) : Value(kids[i].line, "--llm-qpm-limit") = splitIntegerBudget(b, slots, i)
    BY <2>5, <2>9, <2>10
  <2>7. Total(children', "--global-llm-concurrency") <= a
    <3>1. Total(kids, "--global-llm-concurrency") <= a
      BY <2>3, <2>4, <2>11, TotalKept
    <3> QED BY <2>10, <3>1
  <2>8. Total(children', "--llm-qpm-limit") <= b
    <3>1. Total(kids, "--llm-qpm-limit") <= b
      BY <2>3, <2>4, <2>11, TotalKept
    <3> QED BY <2>10, <3>1
  <2> QED BY <1>3, <2>2, <2>6, <2>7, <2>8
<1>8. OneConfig'
  <2>1. SUFFICES ASSUME file # None, set["--llm-analysis"], NEW i \in 1 .. n
        PROVE  children'[i].file = file
    BY <1>1, <1>3 DEF OneConfig
  <2> QED BY <1>4, <2>1 DEF Heard
<1>10. DaemonHears'
  BY DEF DaemonHears, Started
<1>9. ASSUME world'.envProfile # "gone", NEW i \in 1 .. n
      PROVE  LET p == children'[i].line IN
               /\ children'[i].ok
               /\ \A s \in {"--output-language", "--plugin-root"} : Value(p, s) = parent'.set[s]
               /\ (Value(p, "--llm-analysis") # None) = parent'.set["--llm-analysis"]
               /\ parent'.set["--llm-analysis"] =>
                    /\ Value(p, "--llm-provider") = parent'.package
                    /\ (Value(p, "--llm-required") # None) = parent'.set["--llm-required"]
                    /\ \A s \in {"--llm-retry-max-attempts", "--llm-retry-initial-backoff",
                                  "--llm-retry-max-backoff", "--llm-retry-backoff-multiplier",
                                  "--llm-retry-jitter-ratio"} : Value(p, s) = parent'.set[s]
  <2>2. Heard(line', world', set, parent'.package, file, slots, i, children'[i])
    BY <1>4
  <2>3. PICK a, r, la, lr : /\ a = Value(children'[i].line, "--llm-analysis") /\ r = Value(children'[i].line,
                                 "--llm-required")
                            /\ la = set["--llm-analysis"] /\ lr = set["--llm-required"]
    OBVIOUS
  <2>4. (a # None) = la
    <3>1. a # None <=> la
      BY <2>2, <2>3 DEF Heard
    <3>2. la = TRUE \/ la = FALSE
      BY <1>5, <2>3
    <3> QED BY <3>1, <3>2
  <2>5. la => (r # None) = lr
    <3>1. la => (r # None <=> lr)
      BY <2>2, <2>3 DEF Heard
    <3>2. lr = TRUE \/ lr = FALSE
      BY <1>5, <2>3
    <3> QED BY <3>1, <3>2
  <2>6. children'[i].ok /\ \A s \in {"--output-language", "--plugin-root"} : Value(children'[i].line, s) = set[s]
    BY <1>9, <2>2 DEF Heard
  <2>7. la => /\ Value(children'[i].line, "--llm-provider") = parent'.package
              /\ \A s \in {"--llm-retry-max-attempts", "--llm-retry-initial-backoff",
                           "--llm-retry-max-backoff", "--llm-retry-backoff-multiplier",
                           "--llm-retry-jitter-ratio"} : Value(children'[i].line, s) = set[s]
    BY <2>2, <2>3 DEF Heard
  <2>8. parent'.set = set
    BY <1>1
  <2> QED BY <2>3, <2>4, <2>5, <2>6, <2>7, <2>8
<1>11. WorkerHears'
  <2>1. DOMAIN children' = 1 .. n
    BY <1>3
  <2> QED BY <1>8, <1>9, <2>1, Zenon DEF WorkerHears
<1> QED BY <1>6, <1>7, <1>10, <1>11 DEF ChildrenHear

(* The server on show is the one the line asks for.                        *)
LEMMA ServerStarted ==
  ASSUME line'.cmd = "serve", NEW w, parent' = runServe(line', w, w.pointer)
  PROVE  TypedWins' /\ BudgetKept' /\ ChildrenHear'
<1>1. PICK p : p = line'
  OBVIOUS
<1>2. /\ Value(p, "--host") # None => parent'.host = Value(p, "--host")
      /\ Value(p, "--port") # None => parent'.port = Value(p, "--port")
      /\ Value(p, "--registry") # None => parent'.registry = Value(p, "--registry")
      /\ Value(p, "--portal") # None => parent'.portal = Value(p, "--portal")
      /\ Value(p, "--project-root") # None => parent'.root = Value(p, "--project-root")
  BY <1>1, ServeSettings
<1>3. TypedWins'
  <2>1. /\ Value(line', "--host") \in {None, parent'.host} /\ Value(line', "--port") \in {None, parent'.port}
        /\ Value(line', "--registry") \in {None, parent'.registry}
        /\ Value(line', "--portal") \in {None, parent'.portal}
        /\ Value(line', "--project-root") \in {None, parent'.root}
    BY <1>1, <1>2
  <2>2. ~Started' /\ line'.cmd # "build"
    BY DEF Started
  <2> QED BY <2>1, <2>2, Zenon DEF TypedWins
<1>4. BudgetKept' /\ ChildrenHear'
  BY DEF BudgetKept, ChildrenHear, WorkerHears, OneConfig, DaemonHears, Started
<1> QED BY <1>3, <1>4

(* A start and the daemon it has started.                                  *)
LEMMA DaemonStarted ==
  ASSUME \/ line'.cmd = "dashboard" /\ OptsFit("dashboard", line'.opts)
         \/ line'.cmd = "gateway" /\ OptsFit("gateway", line'.opts),
         NEW a, a = IF line'.cmd = "gateway" THEN StartGatewayArgs(line') ELSE StartDashboardArgs(line'),
         NEW file, file = discoverConfigPath(world', FirstOf(<<a.config, "derived">>), world'.pointer),
         parent' = [ok |-> TRUE, file |-> file, args |-> a],
         children' = <<startDaemon(a, world')>>
  PROVE  TypedWins' /\ BudgetKept' /\ ChildrenHear'
<1> DEFINE d == startDaemon(a, world')
<1>1. parent'.file = file /\ parent'.args = a /\ DOMAIN children' = {1} /\ children'[1] = d
  OBVIOUS
<1>2. Handed(a)
  BY StartsHand
<1>3. /\ d.line.res = "parsed" /\ Announced(d) = d.host
      /\ d.host = a.host /\ d.port = a.port /\ d.root = a.root
      /\ a.registry # None => d.registry = a.registry
      /\ a.portal => d.portal = TRUE
      /\ a.route => d.route = TRUE
      /\ d.file = discoverConfigPath(world', a.config, daemonPointer(a, world'))
  BY <1>2, DaemonRuns, ZenonT(30)
<1>4. PICK p : p = line'
  OBVIOUS
<1>5. /\ a.host = FirstOf(<<Value(p, "--host"), "127.0.0.1">>) /\ a.port = FirstOf(<<Value(p, "--port"), 0>>)
      /\ a.config = Value(p, "--config")
      /\ p.cmd = "dashboard" => /\ a.root = FirstOf(<<Value(p, "--project-root"), "repo">>)
                                /\ a.registry = Value(p, "--registry")
                                /\ a.portal <=> Value(p, "--portal") # None
  BY <1>4 DEF StartGatewayArgs, StartDashboardArgs
<1> HIDE DEF d
<1>6. /\ Value(p, "--host") # None => a.host = Value(p, "--host")
      /\ Value(p, "--port") # None => a.port = Value(p, "--port")
      /\ p.cmd = "dashboard" /\ Value(p, "--project-root") # None => a.root = Value(p, "--project-root")
  BY <1>5, FirstOfTwo
<1>7. /\ Value(line', "--host") \in {None, d.host} /\ Value(line', "--port") \in {None, d.port}
      /\ Value(line', "--registry") \in {None, d.registry}
      /\ Value(line', "--portal") \in {None, d.portal}
      /\ Value(line', "--project-root") \in {None, d.root}
  <2>1. Value(p, "--host") \in {None, d.host} /\ Value(p, "--port") \in {None, d.port}
    BY <1>3, <1>6
  <2>2. CASE p.cmd = "dashboard"
    <3>1. Value(p, "--registry") \in {None, d.registry} /\ Value(p, "--project-root") \in {None, d.root}
      BY <1>3, <1>5, <1>6, <2>2
    <3>2. Value(p, "--portal") \in {None, TRUE}
      BY <1>4, <2>2, TypedToStart
    <3>3. Value(p, "--portal") # None => d.portal = TRUE
      BY <1>3, <1>5, <2>2
    <3>4. Value(p, "--portal") \in {None, d.portal}
      BY <3>2, <3>3
    <3> QED BY <1>4, <2>1, <3>1, <3>4
  <2>3. CASE p.cmd = "gateway"
    <3>1. \A o \in {"--portal", "--registry", "--project-root"} : Value(p, o) = None
      BY <1>4, <2>3, TypedToStart
    <3> QED BY <1>4, <2>1, <3>1
  <2> QED BY <1>4, <2>2, <2>3
<1>8. TypedWins'
  <2>1. line'.cmd # "build" /\ line'.cmd # "serve"
    OBVIOUS
  <2>2. Daemon' = d
    BY <1>1 DEF Daemon
  <2> QED BY <1>7, <2>1, <2>2, Zenon DEF TypedWins
<1>9. BudgetKept'
  BY DEF BudgetKept
<1>10. OneConfig'
  <2>1. SUFFICES ASSUME file # None, ~(world'.pointer # None /\ Value(line', "--config") = None)
        PROVE  d.file = file
    BY <1>1 DEF OneConfig
  <2>2. a.config # None \/ world'.pointer = None
    BY <1>4, <1>5, <2>1
  <2> QED BY <1>3, <2>1, <2>2, DaemonFinds
<1>11. WorkerHears'
  BY <1>10 DEF WorkerHears
<1>12. DaemonHears'
  <2>1. Daemon' = d
    BY <1>1 DEF Daemon
  <2>2. a.registry \in {None, d.registry} /\ (a.portal => d.portal) /\ (a.route => d.route)
    BY <1>3
  <2> QED BY <1>1, <1>3, <2>1, <2>2, Zenon DEF DaemonHears
<1> QED BY <1>8, <1>9, <1>11, <1>12 DEF ChildrenHear

-----------------------------------------------------------------------------
(* Every step keeps it.                                                    *)
LEMMA LaunchSafeStep ==
  ASSUME LaunchSafe, [LaunchNext]_launchVars
  PROVE  LaunchSafe'
<1>1. CASE Type
  <2>1. PICK w \in Typed(line) : line' = ReadWord(line, w)
    BY <1>1 DEF Type
  <2>2. LineFits'
    <3>1. ParserFits(line)
      BY LineFitsIs DEF LaunchSafe
    <3>2. ParserFits(line')
      BY <2>1, <3>1, ReadWordFits
    <3> QED BY <3>2 DEF LineFits, ParserFits
  <2>3. ~Ran'
    BY <1>1 DEF Type, Ran
  <2> QED BY <2>2, <2>3, NotRun DEF LaunchSafe
<1>2. CASE Submit
  <2>1. PICK env : line' = End(line, env)
    BY <1>2 DEF Submit
  <2>2. LineFits'
    <3>1. ParserFits(line)
      BY LineFitsIs DEF LaunchSafe
    <3>2. ParserFits(line')
      BY <2>1, <3>1, EndFits
    <3> QED BY <3>2 DEF LineFits, ParserFits
  <2>3. ~Ran'
    BY <1>2 DEF Submit, Ran
  <2> QED BY <2>2, <2>3, NotRun DEF LaunchSafe
<1>3. CASE RunBuild
  <2>1. line' = line /\ line.cmd = "build" /\ OptsFit("build", line.opts)
    BY <1>3 DEF RunBuild, Runs, LaunchSafe, LineFits
  <2>2. PICK w \in BuildWorlds :
          LET file == discoverConfigPath(w, FirstOf(<<Value(line, "--config"), "derived">>), w.pointer)
              set == resolveBuildConfig(line, w, file)
              slots == workerSlotsFor(set)
          IN  /\ world' = w
              /\ IF buildRefused(line, w, file)
                 THEN parent' = [ok |-> FALSE] /\ children' = <<>>
                 ELSE /\ parent' = [ok |-> TRUE, file |-> file, set |-> set, package |-> LlmPackage(line, w, file)]
                      /\ children' = [i \in 1..(IF set["--batch-mode"] = "full" THEN 0 ELSE Segments(slots)) |->
                                        startWorker(w, buildWorkerArgs(line, w, set, file, slots, i))]
    BY <1>3 DEF RunBuild
  <2>3. PICK file : file = discoverConfigPath(w, FirstOf(<<Value(line, "--config"), "derived">>), w.pointer)
    OBVIOUS
  <2>4. PICK set : set = resolveBuildConfig(line, w, file)
    OBVIOUS
  <2>5. PICK slots : slots = workerSlotsFor(set)
    OBVIOUS
  <2>6. PICK n : n = IF set["--batch-mode"] = "full" THEN 0 ELSE Segments(slots)
    OBVIOUS
  <2>7. /\ world' = w
        /\ IF buildRefused(line, w, file)
           THEN parent' = [ok |-> FALSE] /\ children' = <<>>
           ELSE /\ parent' = [ok |-> TRUE, file |-> file, set |-> set, package |-> LlmPackage(line, w, file)]
                /\ children' = [i \in 1..n |-> startWorker(w, buildWorkerArgs(line, w, set, file, slots, i))]
    BY <2>2, <2>3, <2>4, <2>5, <2>6
  <2>8. LineFits'
    BY <2>1 DEF LineFits, LaunchSafe
  <2>9. CASE buildRefused(line, w, file)
    <3>1. ~Ran'
      BY <2>7, <2>9 DEF Ran
    <3> QED BY <2>8, <3>1, NotRun DEF LaunchSafe
  <2>10. CASE ~buildRefused(line, w, file)
    <3>1. TypedWins' /\ BudgetKept' /\ ChildrenHear'
      BY <2>1, <2>3, <2>4, <2>5, <2>6, <2>7, <2>10, BuildStarted
    <3> QED BY <2>8, <3>1 DEF LaunchSafe
  <2> QED BY <2>9, <2>10
<1>4. CASE RunServe
  <2>1. PICK w \in ServeWorlds : world' = w /\ parent' = runServe(line, w, w.pointer)
    BY <1>4 DEF RunServe
  <2>2. line' = line /\ line'.cmd = "serve"
    BY <1>4 DEF RunServe, Runs
  <2>3. TypedWins' /\ BudgetKept' /\ ChildrenHear'
    BY <2>1, <2>2, ServerStarted
  <2>4. LineFits'
    BY <2>2 DEF LineFits, LaunchSafe
  <2> QED BY <2>3, <2>4 DEF LaunchSafe
<1>5. CASE StartDaemon
  <2>1. /\ line' = line
        /\ \/ line.cmd = "dashboard" /\ OptsFit("dashboard", line.opts)
           \/ line.cmd = "gateway" /\ OptsFit("gateway", line.opts)
    BY <1>5 DEF StartDaemon, Runs, LaunchSafe, LineFits
  <2>2. PICK a : a = IF line.cmd = "gateway" THEN StartGatewayArgs(line) ELSE StartDashboardArgs(line)
    OBVIOUS
  <2>3. PICK w \in ServeWorlds :
          world' = w /\ RunStart(a, w, discoverConfigPath(w, FirstOf(<<a.config, "derived">>), w.pointer))
    BY <1>5, <2>2 DEF StartDaemon
  <2>4. PICK file : file = discoverConfigPath(w, FirstOf(<<a.config, "derived">>), w.pointer)
    OBVIOUS
  <2>5. \/ parent' = [ok |-> FALSE]
        \/ parent' = [ok |-> TRUE, file |-> file, args |-> a] /\ children' = <<startDaemon(a, w)>>
    BY <2>3, <2>4 DEF RunStart
  <2>6. LineFits'
    BY <2>1 DEF LineFits, LaunchSafe
  <2>7. CASE parent' = [ok |-> FALSE]
    <3>1. ~Ran'
      BY <2>7 DEF Ran
    <3> QED BY <2>6, <3>1, NotRun DEF LaunchSafe
  <2>8. CASE parent' = [ok |-> TRUE, file |-> file, args |-> a] /\ children' = <<startDaemon(a, w)>>
    <3>1. TypedWins' /\ BudgetKept' /\ ChildrenHear'
      BY <2>1, <2>2, <2>3, <2>4, <2>8, DaemonStarted
    <3> QED BY <2>6, <3>1 DEF LaunchSafe
  <2> QED BY <2>5, <2>7, <2>8
<1>6. CASE UNCHANGED launchVars
  BY <1>6 DEF launchVars, LaunchSafe, LineFits, TypedWins, BudgetKept, ChildrenHear, WorkerHears, OneConfig,
              DaemonHears, Ran, Started, Daemon
<1> QED BY <1>1, <1>2, <1>3, <1>4, <1>5, <1>6 DEF LaunchNext

(* It always holds.                                                        *)
LEMMA LaunchIsSafe == LaunchSpec => []LaunchSafe
<1>1. LaunchInit => LaunchSafe
  <2>1. SUFFICES ASSUME LaunchInit PROVE LaunchSafe
    OBVIOUS
  <2>2. ~Ran /\ line = Fresh
    BY <2>1 DEF LaunchInit, Ran
  <2>3. LineFits
    BY <2>2, FreshFits, LineFitsIs
  <2>4. TypedWins /\ BudgetKept /\ ChildrenHear
    BY <2>2 DEF TypedWins, BudgetKept, ChildrenHear, WorkerHears, OneConfig, DaemonHears, Started
  <2> QED BY <2>3, <2>4 DEF LaunchSafe
<1>2. LaunchSafe /\ [LaunchNext]_launchVars => LaunchSafe'
  BY LaunchSafeStep
<1> QED BY <1>1, <1>2, PTL DEF LaunchSpec

(* What the user typed is what a build, a server and a daemon run with,    *)
(* whatever environment, profile and file say (resolveBuildConfig,         *)
(* runServe).                                                              *)
THEOREM TypedValuesWin == LaunchSpec => []TypedWins
<1>1. LaunchSafe => TypedWins
  BY DEF LaunchSafe
<1> QED BY <1>1, LaunchIsSafe, PTL

(* The workers of a build share its concurrent calls and its calls a       *)
(* minute without exceeding them, and none gets nothing                    *)
(* (splitIntegerBudget, workerSlotsFor, buildWorkerArgs).                  *)
THEOREM BudgetsAreKept == LaunchSpec => []BudgetKept
<1>1. LaunchSafe => BudgetKept
  BY DEF LaunchSafe
<1> QED BY <1>1, LaunchIsSafe, PTL

(* Every worker and every daemon accepts the argument list its parent      *)
(* writes, reads from it what the parent resolved, and finds the same      *)
(* configuration (buildLlmWorkerArgs, daemonArgv and the hidden parsers).  *)
THEOREM ChildrenAreTold == LaunchSpec => []ChildrenHear
<1>1. LaunchSafe => ChildrenHear
  BY DEF LaunchSafe
<1> QED BY <1>1, LaunchIsSafe, PTL
=============================================================================
