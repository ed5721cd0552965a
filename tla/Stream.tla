------------------------------- MODULE Stream -------------------------------
(***************************************************************************)
(* A MOVA stream (pci_mova/core/stream.py) and the commands that reach it  *)
(* (_make_cmd_handler() of pci_mova/kernel_main.py, and the MOVA Tools).   *)
(* The threads that work on it have no lock of the stream's between them:  *)
(*   - a tick thread, _loop(): one _tick() every 100 ms, here the steps    *)
(*     Loop, Read, UpdateCrb, Enter, Leave, Slow, or Fail;                 *)
(*   - the handlers, a thread for each connection and the thread of the    *)
(*     MOVA Tools: each runs the program of a command, the list of its     *)
(*     steps that remain, and then takes the next command;                 *)
(*   - the daemons: STOP is acknowledged at once and done by a thread of   *)
(*     its own, beside whatever its handler is sent next.                  *)
(* They share the status (module Status), whose methods lock it.           *)
(*                                                                         *)
(* A step touches the shared state once, or state no other thread reads in *)
(* between.  The kernel is outside: a tick may claim control or not.       *)
(*                                                                         *)
(* What start() and LOAD do rests on a look at the tick thread that may be *)
(* out of date when they act on it.  The history variables say when it is. *)
(***************************************************************************)
EXTENDS StatusLimits, Sequences, FiniteSets

CONSTANTS
  Handlers,     \* the connections and the MOVA Tools
  Daemons,      \* the threads of STOP alive at one time (bound)
  Threads,      \* the tick threads alive at one time (bound)
  NoThread,     \* no tick thread
  Commands,     \* the commands that each of the handlers is sent
  CrashLimit,   \* _CRASH_LIMIT
  SlowTicks     \* SLOW_TICK_DIVISOR

CommandNames == {"LOAD", "UNLOAD", "START", "STOP", "RESET", "CLEAR_ERRORS",
                 "MOVA_ON", "MOVA_OFF", "FORCE", "UNFORCE"}

Workers == Handlers \union Daemons

ASSUME StreamAssumption ==
  /\ NoThread \notin Threads
  /\ Handlers # {} /\ Handlers \intersect Daemons = {}
  /\ CrashLimit \in Nat \ {0} /\ SlowTicks \in Nat \ {0}
  /\ Commands \in [Handlers -> SUBSET CommandNames]

VARIABLES
  status, previous, warmupWait, forceWait, faults, movaOn, held,  \* see Status
  dataset,      \* whether _dataset is there
  running,      \* the event _running
  latest,       \* the tick thread _thread, or NoThread
  tick,         \* of each tick thread its next step and what it has read
  crashes,      \* _crash_count
  cycle,        \* _cycle, modulo SlowTicks
  claims,       \* whether output_mode shows forces or io[19] is set
  program,      \* the steps that each worker has to do
  awaited,      \* the thread that a worker joins, if it still exists
  unsure,       \* the workers whose look at _thread is out of date (history)
  raced,        \* whether such a one has made a thread (history)
  restored,     \* whether FORCE 0 has set the present status (history)
  orderly       \* whether the commands since the last that stopped the
                \* stream came one at a time, without forces and without
                \* a join that gave up (history)

S == INSTANCE Status

statusVars == <<status, previous, warmupWait, forceWait, faults, movaOn, held>>
threadVars == <<running, latest, tick, crashes, cycle>>
programs == <<program, awaited>>
history == <<unsure, raced, restored, orderly>>
vars == <<statusVars, dataset, threadVars, claims, programs, history>>

Dead == [at |-> "dead", due |-> "none"]
At(step) == [Dead EXCEPT !.at = step]
Alive == latest # NoThread /\ tick[latest].at # "dead"
Idle == \A w \in Workers : program[w] = <<>>

Init ==
  /\ S!Init
  /\ dataset = FALSE
  /\ running = FALSE /\ latest = NoThread
  /\ tick = [t \in Threads |-> Dead]
  /\ crashes = 0 /\ cycle = 0
  /\ claims = FALSE
  /\ program = [w \in Workers |-> <<>>] /\ awaited = [w \in Workers |-> NoThread]
  /\ unsure = {} /\ raced = FALSE /\ restored = FALSE /\ orderly = TRUE

-----------------------------------------------------------------------------
(* The tick thread t does the step `from' and goes on with `to'.           *)
Goes(t, from, to) ==
  /\ tick[t].at = from
  /\ tick' = [tick EXCEPT ![t] = At(to)]
  /\ UNCHANGED <<dataset, latest, programs, unsure, raced, orderly>>

(* _loop(): as long as it is running.                                      *)
Loop(t) ==
  /\ Goes(t, "loop", IF running THEN "read" ELSE "dead")
  /\ cycle' = IF running THEN (cycle + 1) % SlowTicks ELSE cycle
  /\ UNCHANGED <<statusVars, running, crashes, claims, restored>>

NeverNotReady == {"NOT_STARTED", "NO_DATASET", "OFF", "INIT"}

(* _update_crb_status(): the status that is due to the controller ready    *)
(* bit and to what the last tick of the kernel left.                       *)
Due(crb) ==
  IF ~crb /\ status \notin NeverNotReady \union {"NO_CRB"} THEN "NO_CRB"
  ELSE IF crb /\ status = "NO_CRB" THEN "WARMUP"
  ELSE IF crb /\ status = "WARMUP" /\ claims THEN "ON_CONTROL"
  ELSE "none"

(* read_inputs(), and the status read by _update_crb_status().             *)
Read(t) ==
  /\ tick[t].at = "read"
  /\ \E crb \in BOOLEAN : tick' = [tick EXCEPT ![t] = [at |-> "crb", due |-> Due(crb)]]
  /\ UNCHANGED <<statusVars, dataset, running, latest, crashes, cycle,
                 claims, programs, history>>

(* The status is set by what was read before, not by the status now.       *)
UpdateCrb(t) ==
  /\ Goes(t, "crb", "enter")
  /\ IF tick[t].due = "none" THEN UNCHANGED statusVars ELSE S!Set(tick[t].due)
  /\ UNCHANGED <<running, crashes, cycle, claims, restored>>

(* The states in which the kernel is not called.                           *)
NoKernel == {"NOT_STARTED", "NO_DATASET", "OFF"}

(* MovaKernel.tick() begins, or is left out.                               *)
Enter(t) ==
  /\ Goes(t, "enter", IF dataset /\ status \notin NoKernel THEN "kernel" ELSE "slow")
  /\ UNCHANGED <<statusVars, running, crashes, cycle, claims, restored>>

(* MovaKernel.tick() ends, with a mode made of its forces and with io[19]. *)
Leave(t) ==
  /\ Goes(t, "kernel", "slow")
  /\ claims' \in BOOLEAN
  /\ UNCHANGED <<statusVars, running, crashes, cycle, restored>>

(* The rest of _tick(), from the outputs to the logger, which are not kept *)
(* here, with the status's own tick once in SlowTicks.                     *)
Slow(t) ==
  /\ Goes(t, "slow", "loop")
  /\ IF cycle = 0 THEN S!Tick ELSE UNCHANGED statusVars
  /\ crashes' = 0
  /\ UNCHANGED <<running, cycle, claims, restored>>

(* start() sets its status in less than the second in which CrashLimit     *)
(* ticks fail (assumption).                                                *)
PromptStart == \A w \in Workers : program[w] # <<"WARMUP">>

(* Mutant of Fail: the limit is passed by.                                 *)
FailForEver(t) ==
  /\ tick[t].at \in {"read", "enter", "slow"}
  /\ Goes(t, tick[t].at, "loop")
  /\ crashes' = IF crashes < CrashLimit THEN crashes + 1 ELSE crashes
  /\ UNCHANGED <<statusVars, running, cycle, claims, restored>>

(* _tick() raises: at the limit the status shows it, and the loop ends.    *)
Fail(t) ==
  /\ tick[t].at \in {"read", "enter", "slow"}
  /\ crashes + 1 >= CrashLimit => PromptStart
  /\ Goes(t, tick[t].at, IF crashes + 1 >= CrashLimit THEN "failed" ELSE "loop")
  /\ crashes' = crashes + 1
  /\ IF crashes + 1 >= CrashLimit THEN S!Set("FAILED_RESTART") /\ restored' = FALSE
     ELSE UNCHANGED <<statusVars, restored>>
  /\ UNCHANGED <<running, cycle, claims>>

(* Mutant of Failed: the loop is not left.                                 *)
FailedGoesOn(t) ==
  /\ Goes(t, "failed", "loop")
  /\ UNCHANGED <<statusVars, running, crashes, cycle, claims, restored>>

(* At the limit the event is cleared and the loop left.                    *)
Failed(t) ==
  /\ Goes(t, "failed", "dead")
  /\ running' = FALSE
  /\ UNCHANGED <<statusVars, crashes, cycle, claims, restored>>

TickStep(t) ==
  \/ Loop(t) \/ Read(t) \/ UpdateCrb(t) \/ Enter(t) \/ Leave(t)
  \/ Slow(t) \/ Failed(t)

-----------------------------------------------------------------------------
(* The programs.  A status in a program is a call of status.set().         *)
StopSteps == <<"clear", "join", "await", "OFF">>              \* stop()
StartSteps == <<"check", "spawn", "WARMUP">>                  \* start()
LoadSteps == <<"load", "look">>                               \* load_dataset()

(* Mutant of LoadProgram: the stream runs on.                              *)
HotLoad == LoadSteps

(* LOAD stops the stream only if it finds a thread.                        *)
LoadProgram == IF Alive THEN StopSteps \o LoadSteps ELSE LoadSteps

(* The program of a command when it arrives.  CLEAR_ERRORS is the MOVA     *)
(* Tools' ReqResetErrorCount.  The forces that force_stage() writes are    *)
(* not kept here, only the status that goes with them.                     *)
ProgramOf(c) ==
  CASE c = "LOAD" -> LoadProgram
    [] c = "UNLOAD" -> StopSteps \o <<"drop">>
    [] c = "START" -> IF dataset /\ ~running THEN StartSteps ELSE <<>>
    [] c = "STOP" -> StopSteps
    [] c = "RESET" -> StopSteps \o <<"again">>
    [] c = "CLEAR_ERRORS" ->
         StopSteps \o (IF running THEN <<"unset", "resume">> ELSE <<"unset">>)
    [] c = "MOVA_ON" -> <<"set">>
    [] c = "MOVA_OFF" -> <<"unset">>
    [] c = "FORCE" -> <<"MANUAL_FORCE">>
    [] c = "UNFORCE" -> <<"previous">>

(* The handler does its command itself, but leaves STOP to a new thread.   *)
Serves(w, h, c) ==
  IF c = "STOP" THEN w \in Daemons /\ program[w] = <<>> ELSE w = h

Forces == {"FORCE", "UNFORCE"}

(* A command that finds nothing else at work and begins with stop().       *)
StopsAll(c) ==
  /\ ProgramOf(c) # <<>> /\ Head(ProgramOf(c)) = "clear"
  /\ \A t \in Threads : tick[t].at # "dead" => t = latest

Command(h) ==
  /\ program[h] = <<>>
  /\ \E c \in Commands[h], w \in Workers :
       /\ Serves(w, h, c)
       /\ program' = [program EXCEPT ![w] = ProgramOf(c)]
       /\ unsure' = unsure \ {w}
       /\ orderly' = (Idle /\ c \notin Forces /\ (orderly \/ StopsAll(c)))
  /\ UNCHANGED <<statusVars, dataset, threadVars, claims, awaited, raced, restored>>

(* Worker w does the step at the head of its program and continues with    *)
(* `rest', or with what the step leaves of it.                             *)
AtStep(w, step) == program[w] # <<>> /\ Head(program[w]) = step
Continues(w, rest) == program' = [program EXCEPT ![w] = rest] /\ UNCHANGED <<raced, orderly>>
Proceeds(w) == Continues(w, Tail(program[w]))

(* What a worker does when its look at the thread stays what it is.        *)
Keeps == UNCHANGED <<awaited, unsure, restored>>

SetStatus(w) ==
  /\ \E s \in S!MovaStatus :
       /\ AtStep(w, s) /\ S!Set(s)
       /\ restored' = IF s = status THEN restored ELSE s = "FAILED_RESTART"
  /\ Proceeds(w)
  /\ UNCHANGED <<dataset, threadVars, claims, awaited, unsure>>

(* Mutant of Clear: the event stays set.                                   *)
ClearMovaOnly(w) ==
  /\ AtStep(w, "clear") /\ Proceeds(w)
  /\ S!SetMovaOn(0)
  /\ Keeps /\ UNCHANGED <<dataset, threadVars, claims>>

(* stop(): the event is cleared and MOVA turned off in the buffers.        *)
Clear(w) ==
  /\ AtStep(w, "clear") /\ Proceeds(w)
  /\ running' = FALSE
  /\ S!SetMovaOn(0)
  /\ Keeps /\ UNCHANGED <<dataset, latest, tick, crashes, cycle, claims>>

(* stop() takes the thread that it will wait for.                          *)
Join(w) ==
  /\ AtStep(w, "join") /\ Proceeds(w)
  /\ awaited' = [awaited EXCEPT ![w] = latest]
  /\ unsure' = unsure \ {w}
  /\ UNCHANGED <<statusVars, dataset, threadVars, claims, restored>>

(* Mutant of Await: the thread is not waited for.                          *)
AwaitNothing(w) ==
  /\ AtStep(w, "await") /\ Proceeds(w)
  /\ awaited' = [awaited EXCEPT ![w] = NoThread]
  /\ UNCHANGED <<statusVars, dataset, threadVars, claims, unsure, restored>>

(* join() returns at the end of the thread.                                *)
Awaiting(w) == awaited[w] # NoThread /\ tick[awaited[w]].at # "dead"

Await(w) ==
  /\ AtStep(w, "await") /\ Proceeds(w)
  /\ ~Awaiting(w)
  /\ awaited' = [awaited EXCEPT ![w] = NoThread]
  /\ UNCHANGED <<statusVars, dataset, threadVars, claims, unsure, restored>>

(* join(timeout=2.0) returns before it: a tick, or a start in between, has *)
(* outlasted it.                                                           *)
GiveUp(w) ==
  /\ AtStep(w, "await") /\ Awaiting(w)
  /\ program' = [program EXCEPT ![w] = Tail(program[w])]
  /\ awaited' = [awaited EXCEPT ![w] = NoThread]
  /\ unsure' = unsure \union {w}
  /\ orderly' = FALSE
  /\ UNCHANGED <<statusVars, dataset, threadVars, claims, raced, restored>>

(* Mutant of Check: only the event is looked at.                           *)
CheckEvent(w) ==
  /\ AtStep(w, "check")
  /\ unsure' = unsure \ {w}
  /\ \/ running /\ Continues(w, <<>>) /\ UNCHANGED running
     \/ ~running /\ ~dataset /\ Continues(w, <<"NO_DATASET">>) /\ UNCHANGED running
     \/ ~running /\ dataset /\ Proceeds(w) /\ running' = TRUE
  /\ UNCHANGED <<statusVars, dataset, latest, tick, crashes, cycle, claims, awaited, restored>>

(* start(): not twice and not without a dataset; else the event is set.    *)
Check(w) ==
  /\ AtStep(w, "check")
  /\ unsure' = unsure \ {w}
  /\ \/ Alive /\ Continues(w, <<>>) /\ UNCHANGED running
     \/ ~Alive /\ ~dataset /\ Continues(w, <<"NO_DATASET">>) /\ UNCHANGED running
     \/ ~Alive /\ dataset /\ Proceeds(w) /\ running' = TRUE
  /\ UNCHANGED <<statusVars, dataset, latest, tick, crashes, cycle, claims, awaited, restored>>

(* start(), with the beginning of _loop().  What the others at work have   *)
(* seen of the thread is now out of date; who joined the thread that is    *)
(* gone, and gives its place to the new one, waits for nothing.            *)
Spawn(w) ==
  /\ AtStep(w, "spawn")
  /\ program' = [program EXCEPT ![w] = Tail(program[w])]
  /\ \E t \in Threads :
       /\ tick[t].at = "dead"
       /\ latest' = t
       /\ tick' = [tick EXCEPT ![t] = At("loop")]
       /\ awaited' = [v \in Workers |-> IF awaited[v] = t THEN NoThread ELSE awaited[v]]
  /\ crashes' = 0
  /\ unsure' = (unsure \union {v \in Workers : program[v] # <<>>}) \ {w}
  /\ raced' = (raced \/ w \in unsure)
  /\ UNCHANGED <<statusVars, dataset, running, cycle, claims, restored, orderly>>

(* MovaKernel.load_dataset() ends; a dataset that is accepted is adopted.  *)
Load(w) ==
  /\ AtStep(w, "load")
  /\ \/ Continues(w, <<>>) /\ UNCHANGED dataset
     \/ Proceeds(w) /\ dataset' = TRUE
  /\ Keeps /\ UNCHANGED <<statusVars, threadVars, claims>>

(* load_dataset() starts a stream that has no thread.                      *)
Look(w) ==
  /\ AtStep(w, "look")
  /\ Continues(w, IF Alive THEN <<>> ELSE <<"INIT">> \o StartSteps)
  /\ unsure' = unsure \ {w}
  /\ UNCHANGED <<statusVars, dataset, threadVars, claims, awaited, restored>>

(* UNLOAD, after the stop.                                                 *)
Drop(w) ==
  /\ AtStep(w, "drop") /\ Proceeds(w)
  /\ dataset' = FALSE
  /\ Keeps /\ UNCHANGED <<statusVars, threadVars, claims>>

(* RESET, after the stop: the dataset is loaded again if there is one.     *)
Again(w) ==
  /\ AtStep(w, "again")
  /\ Continues(w, IF dataset THEN <<"reload", "zero">> \o StartSteps ELSE <<>>)
  /\ Keeps /\ UNCHANGED <<statusVars, dataset, threadVars, claims>>

(* The kernel has loaded it, whatever it returns; then io[27] and io[19]   *)
(* are 0, and the output mode stays.                                       *)
Reload(w) ==
  /\ AtStep(w, "reload") /\ Proceeds(w)
  /\ Keeps /\ UNCHANGED <<statusVars, dataset, threadVars, claims>>

Zero(w) ==
  /\ AtStep(w, "zero") /\ Proceeds(w)
  /\ S!SetMovaOn(0)
  /\ claims' \in {FALSE, claims}
  /\ Keeps /\ UNCHANGED <<dataset, threadVars>>

(* CLEAR_ERRORS, after the stop, starts a stream again that was running.   *)
Resume(w) ==
  /\ AtStep(w, "resume")
  /\ Continues(w, IF dataset THEN <<"set">> \o StartSteps ELSE <<>>)
  /\ Keeps /\ UNCHANGED <<statusVars, dataset, threadVars, claims>>

(* SET_IO 27 <value>, ReqMOVAEnabledFlagSetting, and CLEAR_ERRORS.         *)
SetIo(w) ==
  /\ \/ AtStep(w, "set") /\ S!SetMovaOn(1)
     \/ AtStep(w, "unset") /\ S!SetMovaOn(0)
  /\ Proceeds(w)
  /\ Keeps /\ UNCHANGED <<dataset, threadVars, claims>>

(* force_stage(0): status.set() is called with the previous status.        *)
Unforce(w) ==
  /\ AtStep(w, "previous") /\ Continues(w, <<previous>>)
  /\ Keeps /\ UNCHANGED <<statusVars, dataset, threadVars, claims>>

WorkerStep(w) ==
  \/ SetStatus(w) \/ Clear(w) \/ Join(w) \/ Await(w) \/ Check(w) \/ Spawn(w)
  \/ Load(w) \/ Look(w) \/ Drop(w) \/ Again(w) \/ Reload(w) \/ Zero(w)
  \/ Resume(w) \/ SetIo(w) \/ Unforce(w)

Next ==
  \/ \E t \in Threads : TickStep(t) \/ Fail(t)
  \/ \E h \in Handlers : Command(h)
  \/ \E w \in Workers : WorkerStep(w) \/ GiveUp(w)

Spec == Init /\ [][Next]_vars

(* Every thread goes on: no lock of the stream's is held over a step that  *)
(* waits, and a worker waits only in join().                               *)
FairSpec ==
  /\ Spec
  /\ \A t \in Threads : WF_vars(TickStep(t))
  /\ \A w \in Workers : WF_vars(WorkerStep(w))

-----------------------------------------------------------------------------
TypeOK ==
  /\ S!TypeOK
  /\ dataset \in BOOLEAN /\ running \in BOOLEAN
  /\ latest \in Threads \union {NoThread}
  /\ \A t \in Threads :
       /\ tick[t].at \in {"dead", "loop", "read", "crb", "enter", "kernel",
                          "slow", "failed"}
       /\ tick[t].due \in {"none", "NO_CRB", "WARMUP", "ON_CONTROL"}
  /\ crashes \in Nat
  /\ cycle \in 0..SlowTicks - 1
  /\ claims \in BOOLEAN
  /\ \A w \in Workers : /\ program[w] = <<>> \/ Len(program[w]) \in 1..6
                        /\ awaited[w] \in Threads \union {NoThread}
  /\ unsure \subseteq Workers
  /\ raced \in BOOLEAN /\ restored \in BOOLEAN /\ orderly \in BOOLEAN

InKernel == {t \in Threads : tick[t].at = "kernel"}
Loading == {w \in Workers : AtStep(w, "load") \/ AtStep(w, "reload")}

(* There is one tick thread at most, whatever the connections, the MOVA    *)
(* Tools and the STOPs do at once, even if a stop gave up waiting for it,  *)
(* unless two starts have overtaken one another between the look of        *)
(* start() at the thread and the thread it makes.                          *)
OneTicker == ~raced => Cardinality({t \in Threads : tick[t].at # "dead"}) <= 1

(* Up to such a race a load of a dataset runs beside a tick only in a      *)
(* command that gave up waiting for the thread, or that another start has  *)
(* overtaken since it found none.                                          *)
Exclusive == ~raced /\ InKernel # {} => Loading \subseteq unsure

(* Up to such a race, with no command at work, the loop is over after      *)
(* FAILED_RESTART, at the latest with its next step, unless FORCE 0 has    *)
(* brought this status back.                                               *)
FailedStops ==
  Idle /\ ~raced /\ ~restored /\ status = "FAILED_RESTART"
    => ~Alive \/ tick[latest].at = "failed"

(* After commands that came one at a time, STOP with its daemon included,  *)
(* the stream shows OFF exactly if it does not tick: a live thread under a *)
(* status that keeps it from the kernel, or a status that claims control   *)
(* without a thread, cannot last.  Whatever went before, a command that    *)
(* stops the stream by itself makes it so again.                           *)
ShownAsItIs ==
  Idle /\ orderly
    => /\ status \in NoKernel => ~Alive
       /\ ~Alive => status \in NoKernel \union {"FAILED_RESTART"}

(* Under the stream's threads, however they interleave, the watchdogs of   *)
(* the status keep what they promise.                                      *)
WarmupReported == S!WarmupReported
ForceTimed == S!ForceTimed

(* A stream that stays started, by commands that came one at a time, calls *)
(* the kernel again and again: its tick fails at most CrashLimit - 1 times *)
(* in succession, and no start leaves it ticking without the kernel.       *)
KeepsTicking == <>[](running /\ orderly) => []<>(InKernel # {})

(* How many steps a program may still take that begins with a step.        *)
StepsFrom(step) ==
  LET Any(these, n) == IF step \in these THEN n ELSE 0
  IN  1 + Any({"previous"}, 11) + Any({"clear"}, 10) + Any({"join"}, 9)
        + Any({"await"}, 8) + Any({"OFF"}, 7) + Any({"again", "unset"}, 6)
        + Any({"load", "resume", "reload"}, 5) + Any({"look"}, 4)
        + Any({"INIT", "zero", "set"}, 3) + Any({"check"}, 2)
        + Any({"spawn"}, 1)
StepsLeft(w) == IF program[w] = <<>> THEN 0 ELSE StepsFrom(Head(program[w]))

(* A command comes to an end in a bounded number of its own steps, though  *)
(* it looks at the state again on its way and goes on as it finds it, and  *)
(* no tick thread and no other command puts anything before or behind it.  *)
CommandShrinks ==
  [][\A w \in Workers : program[w] # <<>> =>
       program'[w] = program[w] \/ StepsLeft(w)' < StepsLeft(w)]_vars

(* A command that no other disturbs ends, and without the time-out of its  *)
(* join(): the thread ends by itself.                                      *)
CommandsEnd ==
  \A w \in Workers : program[w] # <<>> ~> program[w] = <<>> \/ ~orderly
=============================================================================
