------------------------------ MODULE LlmRunner ------------------------------
(***************************************************************************)
(* runLlmFileAnalysis: one call asks a provider about the files of a batch.*)
(* The files are cut into tasks, and up to Concurrency loops ("threads" of *)
(* one event loop) take task after task.  A task waits for its turn in the *)
(* throttle chain and for a model that is not cooling down, and asks; a    *)
(* task of several files asks for all of them at once and then for every   *)
(* file that the answer left out.  Retryable failures cool the model down, *)
(* and enough of them in a row skip the tasks that nobody has taken.       *)
(*                                                                         *)
(* llm[w] is the call that process w makes; Mapping adds the processes.    *)
(* A step is what one continuation does between two awaits on the provider *)
(* or on a timer.  Time is left out: a sleep ends at any moment, cooldowns *)
(* in the order they began; and one request stands for callWithRetry, with *)
(* all its attempts.                                                       *)
(***************************************************************************)
EXTENDS Naturals, Sequences, SequencesExt

CONSTANTS Workers,      \* the processes that may make calls
          Models,       \* the sequence of model candidates, may be empty
          Concurrency,  \* globalConcurrency of a process
          TaskSize,     \* taskFileCount (15 in every build)
          Threshold,    \* breakerRetryableFailureThreshold (5 in every build)
          Repeats       \* a batch answer may name a file twice

ASSUME LlmCountsArePositive ==
  /\ Concurrency \in Nat \ {0} /\ TaskSize \in Nat \ {0}
  /\ Threshold \in Nat \ {0}
ASSUME RepeatsIsBoolean == Repeats \in BOOLEAN
ASSUME ModelsAreListed == Models \in Seq(Range(Models))

VARIABLES llm,          \* per process, its current call
          required,     \* --llm-required
          unreadable    \* the files that readFile throws for

NoModel == 0
Candidates == DOMAIN Models
Threads == 1 .. Concurrency

(* createFileAnalysisTasks, and the scheduler's chunk                      *)
Chunks(items, size) ==
  [i \in 1 .. (Len(items) + size - 1) \div size |->
     SubSeq(items, (i - 1) * size + 1, IF i * size < Len(items) THEN i * size ELSE Len(items))]

Out == [at |-> "out", task |-> <<>>, model |-> NoModel, ahead |-> 0, missing |-> <<>>, bad |-> 0]
NoCall ==
  [end |-> "none", files |-> <<>>, tasks |-> <<>>, thread |-> [t \in Threads |-> Out],
   chain |-> <<>>, index |-> 1, cooling |-> <<>>, streak |-> 0, tripped |-> FALSE,
   texts |-> {}, analyzed |-> 0, failed |-> 0, skipped |-> 0]

(* The files of these tasks, each by its task and its place in it.         *)
SumLengths(tasks) == Cardinality(UNION {{i} \X DOMAIN tasks[i] : i \in DOMAIN tasks})

(* Mutation of Resume: the loop ends without counting what it leaves.      *)
ResumeSilently(c, t) ==
  IF c.tripped \/ c.tasks = <<>>
  THEN [c EXCEPT !.thread[t] = Out, !.tasks = <<>>,
                 !.end = IF \A u \in Threads \ {t} : c.thread[u] = Out THEN "done" ELSE @]
  ELSE [c EXCEPT !.thread[t] = [Out EXCEPT !.at = "throttle", !.task = Head(c.tasks)],
                 !.tasks = Tail(@), !.chain = Append(@, t)]
(* The loop of thread t goes on: it takes the next task and queues for its *)
(* turn.  Once the breaker has tripped it skips all that is left, without  *)
(* an await in between, and the last thread to end resolves Promise.all.   *)
Resume(c, t) ==
  IF c.tripped \/ c.tasks = <<>>
  THEN [c EXCEPT !.thread[t] = Out, !.tasks = <<>>, !.skipped = @ + SumLengths(c.tasks),
                 !.end = IF \A u \in Threads \ {t} : c.thread[u] = Out THEN "done" ELSE @]
  ELSE [c EXCEPT !.thread[t] = [Out EXCEPT !.at = "throttle", !.task = Head(c.tasks)],
                 !.tasks = Tail(@), !.chain = Append(@, t)]

(* All threads start at once, as many as there are tasks for, and each     *)
(* takes the next task; a batch has at least one file.                     *)
NewCall(files) ==
  LET tasks == Chunks(files, TaskSize)
      n == IF Concurrency < Len(tasks) THEN Concurrency ELSE Len(tasks)
  IN  [NoCall EXCEPT
         !.end = "open", !.files = files, !.tasks = SubSeq(tasks, n + 1, Len(tasks)),
         !.thread = [t \in Threads |->
            IF t <= n THEN [Out EXCEPT !.at = "throttle", !.task = tasks[t]] ELSE Out],
         !.chain = [t \in 1 .. n |-> t]]

-----------------------------------------------------------------------------
(* createModelGuard.  cooling lists the cooldowns that have not ended, the *)
(* first to end first; a model may be in it twice, and its last counts.    *)

Cool(c, m) == \A i \in DOMAIN c.cooling : c.cooling[i] # m
Until(c, m) == CHOOSE i \in DOMAIN c.cooling :
                 c.cooling[i] = m /\ \A j \in DOMAIN c.cooling : j > i => c.cooling[j] # m
After(m, n) == ((m + n - 1) % Len(Models)) + 1

(* findAvailable: the first candidate from m on that has cooled down.      *)
Available(c, m) ==
  LET free == {n \in 0 .. Len(Models) - 1 : Cool(c, After(m, n))}
  IN  IF free = {} THEN NoModel
      ELSE After(m, CHOOSE n \in free : \A k \in free : n <= k)

(* selectModel, for thread t whose turn it is                              *)
Selected(c, t) ==
  LET free == Available(c, c.index)
      next == CHOOSE m \in Candidates : \A n \in Candidates : Until(c, m) <= Until(c, n)
  IN  IF Models = <<>> THEN [c EXCEPT !.thread[t].at = "call"]
      ELSE IF free # NoModel
      THEN [c EXCEPT !.thread[t] = [@ EXCEPT !.at = "call", !.model = free], !.index = free]
      ELSE [c EXCEPT !.thread[t] = [@ EXCEPT !.at = "cooldown", !.model = next,
                                             !.ahead = Until(c, next)]]

(* cooldown: the current candidate moves on, also when it is not m.        *)
Cooled(c, m) ==
  IF m = NoModel THEN c
  ELSE LET hot == [c EXCEPT !.cooling = Append(@, m)]
           next == After(c.index, 1)
           free == Available(hot, next)
       IN  [hot EXCEPT !.index = IF free # NoModel THEN free ELSE next]

-----------------------------------------------------------------------------
(* What a task does to the call when it is over.                           *)

Tripped(c) == [c EXCEPT !.tripped = @ \/ c.streak >= Threshold]

Thrown(c) == [c EXCEPT !.end = "thrown"]

Succeeded(c, t) == Resume(Tripped([c EXCEPT !.streak = 0]), t)

(* n of the task's files get no text                                       *)
Failed(c, t, n, retryable) ==
  IF required THEN Thrown(c)
  ELSE LET counted == [c EXCEPT !.failed = @ + n, !.streak = IF retryable THEN @ + 1 ELSE 0]
           guarded == IF retryable THEN Cooled(counted, c.thread[t].model) ELSE counted
       IN  Resume(Tripped(guarded), t)

Texts(c, files, n) == [c EXCEPT !.texts = @ \cup files, !.analyzed = @ + n]

(* The end of runBatchFileAnalysisTask after an answer: the files that the *)
(* fallback could not analyse fail, and none of it counts for the breaker. *)
Answered(c, t, bad) ==
  IF bad > 0 /\ required THEN Thrown(c)
  ELSE Succeeded([c EXCEPT !.failed = @ + bad], t)

-----------------------------------------------------------------------------
(* The steps of thread t of process w.                                     *)

Step(w, c) == llm' = [llm EXCEPT ![w] = c] /\ UNCHANGED <<required, unreadable>>

(* awaitThrottleSlot: the chain lets the threads through in their order.   *)
Turn(w, t) ==
  LET c == llm[w]
  IN  /\ c.end = "open" /\ c.chain # <<>> /\ Head(c.chain) = t
      /\ Step(w, Selected([c EXCEPT !.chain = Tail(@)], t))

CooldownEnds(w) ==
  LET c == llm[w]
  IN  /\ c.end = "open" /\ c.cooling # <<>>
      /\ Step(w, [c EXCEPT !.cooling = Tail(@),
                           !.thread = [t \in Threads |->
                              [c.thread[t] EXCEPT !.ahead = IF @ > 0 THEN @ - 1 ELSE 0]]])

(* The cooldown that the thread waited for is over.  The model is taken    *)
(* without another look: a thread that failed meanwhile may have begun     *)
(* another cooldown of it.                                                 *)
Wake(w, t) ==
  LET c == llm[w]
  IN  /\ c.end = "open" /\ c.thread[t].at = "cooldown" /\ c.thread[t].ahead = 0
      /\ Step(w, [c EXCEPT !.thread[t].at = "call", !.index = c.thread[t].model])

(* readFile is inside the try of a single file and outside that of several.*)
CannotRead(w, t) ==
  LET c == llm[w]
      files == c.thread[t].task
  IN  /\ c.end = "open" /\ c.thread[t].at = "call"
      /\ Range(files) \cap unreadable # {}
      /\ Step(w, IF Len(files) > 1 THEN Thrown(c) ELSE Failed(c, t, 1, FALSE))

Asks(w, t) ==
  /\ llm[w].end = "open" /\ llm[w].thread[t].at = "call"
  /\ Range(llm[w].thread[t].task) \cap unreadable = {}

(* The request failed, with an error of a kind that may be retried (and    *)
(* was, to no avail) or of another.                                        *)
AskFails(w, t) ==
  LET c == llm[w]
  IN  /\ Asks(w, t)
      /\ \E retryable \in BOOLEAN : Step(w, Failed(c, t, Len(c.thread[t].task), retryable))

(* A batch answer has results for some of the files, none of them if it    *)
(* names only others.  Which of the files it leaves out does not matter    *)
(* here: it is the last ones.                                              *)
Answer(w, t) ==
  LET c == llm[w]
      files == c.thread[t].task
  IN  /\ Asks(w, t)
      /\ \E n \in (IF Len(files) = 1 THEN 1 ELSE 0) .. Len(files) :
         \E again \in IF Repeats /\ Len(files) > 1 /\ n > 0 THEN {0, 1} ELSE {0} :
           LET missing == SubSeq(files, n + 1, Len(files))
               told == Texts(c, Range(SubSeq(files, 1, n)), n + again)
           IN  Step(w, IF missing = <<>> THEN Answered(told, t, 0)
                       ELSE [told EXCEPT !.thread[t].at = "single", !.thread[t].missing = missing])

(* runSingleFileAnalysisFallback, for the next missing file                *)
Fallback(w, t) ==
  LET c == llm[w]
      th == c.thread[t]
  IN  /\ c.end = "open" /\ th.at = "single"
      /\ \E ok \in BOOLEAN :
           LET told == IF ok THEN Texts(c, {Head(th.missing)}, 1) ELSE c
               bad == IF ok THEN th.bad ELSE th.bad + 1
           IN  Step(w, IF Tail(th.missing) = <<>> THEN Answered(told, t, bad)
                       ELSE [told EXCEPT !.thread[t].missing = Tail(@), !.thread[t].bad = bad])

Runner(w) ==
  \/ \E t \in Threads : \/ Turn(w, t) \/ Wake(w, t) \/ CannotRead(w, t)
                        \/ AskFails(w, t) \/ Answer(w, t) \/ Fallback(w, t)
  \/ CooldownEnds(w)

-----------------------------------------------------------------------------
(* What a call reports adds up: when it returns, every file has its text,  *)
(* has failed or was skipped, each of them once, whatever the threads and  *)
(* their fallbacks made of them and wherever the breaker tripped.          *)
CallsAddUp ==
  \A w \in Workers :
    LET c == llm[w] IN
    c.end = "done" =>
      /\ Cardinality(c.texts) = c.analyzed
      /\ c.analyzed + c.failed + c.skipped = Len(c.files)
      /\ c.skipped > 0 => c.tripped

(* "Cooldown applied to a model after a retryable task failure": no call   *)
(* begins with a model that is cooling down.                               *)
ModelsRest ==
  [][\A w \in Workers, t \in Threads :
       llm[w].thread[t].at # "call" /\ llm'[w].thread[t].at = "call" /\ Models # <<>> =>
         Cool(llm[w], llm'[w].thread[t].model)]_llm

(* A failure moves the calls away from the model that failed, and not from *)
(* another that they have moved to since.                                  *)
SwitchesAreEarned ==
  [][\A w \in Workers :
       Len(llm'[w].cooling) > Len(llm[w].cooling) /\ llm'[w].index # llm[w].index =>
         Last(llm'[w].cooling) = llm[w].index]_llm

(* "--llm-required turns per-file failures into a build failure": without  *)
(* it no file fails the call.                                              *)
FailuresStayPerFile == \A w \in Workers : llm[w].end = "thrown" => required

-----------------------------------------------------------------------------
(* The invariant that CallsAddUp follows from.  Names is any set with the  *)
(* names of the files.                                                     *)

ThreadType(Names) ==
  [at : {"out", "throttle", "cooldown", "call", "single"}, task : Seq(Names),
   model : {NoModel} \cup Candidates, ahead : Nat, missing : Seq(Names), bad : Nat]

CallType(Names) ==
  [end : {"none", "open", "done", "thrown"}, files : Seq(Names), tasks : Seq(Seq(Names)),
   thread : [Threads -> ThreadType(Names)], chain : Seq(Threads), index : Nat \ {0},
   cooling : Seq(Candidates), streak : Nat, tripped : BOOLEAN, texts : SUBSET Names,
   analyzed : Nat, failed : Nat, skipped : Nat]

(* A model that is waited for is a candidate.                              *)
ModelsKnown(c) ==
  /\ Models # <<>> => c.index \in Candidates
  /\ \A t \in Threads : c.thread[t].at = "cooldown" => c.thread[t].model \in Candidates

(* The threads in the chain are those that wait for their turn.            *)
Queued(c) ==
  IsInjective(c.chain) /\ \A i \in DOMAIN c.chain : c.thread[c.chain[i]].at = "throttle"

(* The files of the tasks that nobody has taken, and those of its task for *)
(* which thread t has no text (yet, or for good).                          *)
Untaken(c) == UNION {Range(c.tasks[i]) : i \in DOMAIN c.tasks}
Held(c, t) == Range(c.thread[t].task) \ c.texts
Unsettled(c, threads) == Untaken(c) \cup UNION {Held(c, t) : t \in threads}

(* No file is in two tasks.                                                *)
TasksApart(c, threads) ==
  /\ \A i \in DOMAIN c.tasks : IsInjective(c.tasks[i]) /\ c.tasks[i] # <<>>
  /\ \A i, j \in DOMAIN c.tasks : i # j => Range(c.tasks[i]) \cap Range(c.tasks[j]) = {}
  /\ \A t \in threads :
       IsInjective(c.thread[t].task) /\ Range(c.thread[t].task) \cap Untaken(c) = {}
  /\ \A t, u \in threads :
       t # u => Range(c.thread[t].task) \cap Range(c.thread[u].task) = {}

(* What a thread still has to ask for.                                     *)
ThreadCounts(c, t) ==
  LET th == c.thread[t] IN
  /\ th.at = "out" => th.task = <<>>
  /\ th.at \in {"throttle", "cooldown", "call"} =>
       th.task # <<>> /\ th.missing = <<>> /\ th.bad = 0 /\ Held(c, t) = Range(th.task)
  /\ th.at = "single" =>
       /\ th.missing # <<>> /\ IsInjective(th.missing)
       /\ Range(th.missing) \subseteq Held(c, t)
       /\ Cardinality(Held(c, t)) = Len(th.missing) + th.bad

(* The files of a call are accounted for; "threads" are those at a task.   *)
Accounts(c, threads) ==
  /\ TasksApart(c, threads)
  /\ c.texts \cap Untaken(c) = {} /\ IsFiniteSet(c.texts)
  /\ IsFiniteSet(Unsettled(c, threads))
  /\ Cardinality(c.texts) + c.failed + c.skipped + Cardinality(Unsettled(c, threads)) = Len(c.files)
  /\ Repeats \/ c.analyzed = Cardinality(c.texts)
  /\ c.skipped > 0 => c.tripped

CallInv(c, threads) == Accounts(c, threads) /\ \A t \in threads : ThreadCounts(c, t)

(* With --llm-required the first failure ends the call.                    *)
Strict(c) == required => c.failed = 0 /\ c.skipped = 0 /\ c.streak = 0 /\ ~c.tripped

(* A call that throws is lost, and so are its accounts.                    *)
CallOK(c) ==
  /\ ModelsKnown(c) /\ Queued(c)
  /\ c.end \in {"open", "done"} => CallInv(c, Threads) /\ Strict(c)
  /\ c.end = "done" => c.tasks = <<>> /\ \A t \in Threads : c.thread[t].at = "out"

CallsInv == \A w \in Workers : CallOK(llm[w])
=============================================================================
