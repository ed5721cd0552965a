# MC_MOVA: specifications, model checking and proofs

MOVA is an adaptive controller of traffic signals. This repository runs the
MOVA M8 kernel, written in C for an embedded controller, as a shared library
under Python services:

- `M8.0/`, the kernel. In the Linux build (`M8.0/Makefile.linux`) its real-time
  tasks are functions called in turn from one thread.
- `pci_mova/`, which loads one copy of the library for each *stream* (a
  junction), ticks it every 100 ms, takes commands on a socket and serves pages.
- `cm5/`, the services of the controller board: a shared bus of IO points, the
  drivers of the signal controller, the UTC service (UG405), bus priority, logic
  blocks, a fixed-time plan.

The modules here are written from the C and Python sources. `PROJECT.json` maps
each definition to the lines it stands for, and lists the runs, the mutants, the
findings, the hazards and the theorems.

## 1. The system

### The kernel

| Component | State | Operations | Hard because | Correct when |
|---|---|---|---|---|
| Stage-forcing task, `genstg.c` | re-entry point of the coroutine, wait counters, forced stage, force bits, error count | one call every half second, from three callers; end of warm-up; error handling | everything it reads may change between two calls; it may be resumed in the middle of a wait | one force or none, on only with the controller's ready bit, MOVA enabled and few errors; waits end; locked out on errors |
| Choice of the stage, `stages_handler.c`, `stages_ep_handler.c`, `stages_codes_handler.c`, `junction_handler.c` | demands of three kinds, loop variables | three nested searches over a ring of stages | wrap-around both ways, three kinds of permission, recursion for the main stage | emergency before priority before normal, nearest permitted stage, an end |
| Confirm scan, `detscn.c` | present, previous, shown stage; counters | a scan every 100 ms | glitches, several confirms at once, banned changes | a stage counts after two scans, inputs that stay become the stage |
| Main loop, `monitr.c`, `mova.c`, `mova_stubs.c` | several-confirms marker, frame counters, warm-up | a tick every 100 ms, a frame every fifth | counters out of phase, fault that comes and goes | stopped on two faulty frames, restarted cold after two clear ones |
| Program controller, `program_controller.c` | ten markers, holds, timers | a scan every half second | which timer ends a green first | greens between minimum and maximum, warm-up complete before control |
| Stage demands, latches, end of saturation, optimisers | per stage, link and lane | parts of the same scan | many dataset switches, floating point | demands are kept until served, greens end |
| Detectors, error log, message ring | fault counters, rings of 100 and 50 | scan, log, read | wrap-around seen from two sides | each error reported once, faulty detectors excluded |
| Special conditioning, dataset reader, TMA, output | tables, statistics | load, evaluate, print | - | read what was written |

The kernel's parts call one another and share global tables (`Tcomshr`). Nothing
in the Linux build runs concurrently inside it: its interleavings are those of
coroutine calls at different rates and of writes by the wrapper between calls.

### pci_mova

| Component | State | Operations | Hard because | Correct when |
|---|---|---|---|---|
| Stream, `core/stream.py` | thread, event, status, dataset, buffers | tick; start, stop, load, force | tick thread and command threads share all this without a lock | one thread, none while loading, status tells the truth, keeps ticking |
| Commands, `kernel_main.py` | state file | LOAD UNLOAD START STOP RESET SET_IO FORCE ... on one thread for each connection, STOP on a further one; save, restore, shutdown | check and act are apart; killed in the middle of a save or a restore | a command ends, and leaves what it says; a restart resumes |
| Status and fault monitor, `core/state/` | status, watchdog counters, active faults | set, tick | counters shared by several states | time-outs are those of the present state, reported once |
| Wrapper, `core/kernel/wrapper.py` | ring positions, dividers | tick, poll | polls rings that wrap | nothing lost or read twice |
| IO drivers, `core/io/` | connection, latches | read, write, reconnect | dead peers, back-off | no stale ready bit |
| IPC, `ipc/` | clients | push, command, acknowledge | slow clients, reconnection | the tick never waits for a client |
| Manager, dataset parser, licence, log, web, MOVA Tools | registries | start-up, pages | - | - |

### cm5

| Component | State | Operations | Hard because | Correct when |
|---|---|---|---|---|
| IO bus and its server | owner and value of each point | write, read, subscribe, release | announced outside the lock | subscribers end up with the value of the point |
| UG405 service | operating mode, fault timer, pending replies | SET, watchdog, time-out, inform | SNMP, timer and bus threads | no control bits in standalone; replies arrive |
| Offline plan | active plan, offset applied last | tick, stand down, reload | writes the points UG405 releases, under the same owner | its offsets are on the street, nothing is left on |
| Conditioner, RTIG | timers, counters | callback, tick, expiry | callbacks race ticks | outputs follow their inputs |
| XKOP and RPDB drivers | connection, last sent | send, receive, reconnect | half-dead connections | the peer gets the latest values |
| AGD, FLIR, autodim, web pages, configuration | - | read one value, show pages | - | - |

`PROJECT.json` lists all components with their sources and what is left out of
each; the hazards of the code, at their lines, are in its `hazards`.

## 2. The modules

| Module | Models | Kind |
|---|---|---|
| `StageForcing` | what the stage-forcing task promises the controller | abstract specification |
| `Genstg` | `genstg.c` and the writers of what it reads | component; implements `StageForcing` |
| `NextStage` | the choice of the next stage | component (sequential) |
| `ProgramController` | the scan of the program controller with the junction handler's part of it | component |
| `MovaView` | what `Monitr` lets the parts it calls do to what it sees of them | operators, extended by all three |
| `ScanData` | the stages and banned changes of `StageScan` and `Monitr` | constants |
| `StageScan` | the stage confirms in `detscn()` | component; its `Scan` is a step of `Monitr` |
| `Monitr` | `monitr()`, `InputScan()`, `mova()`'s calls and the wrapper's drive | composition; contains `StageScan` |
| `StatusLimits` | the limits of `Status` and `Stream` | constants |
| `Status` | status, watchdogs and their faults | component, with the operators `Stream` works on the status with |
| `Stream` | the life of a stream under its thread, the handlers of its commands and the daemon threads of STOP | composition; contains `Status` |
| `StateFile` | the state file of the kernel process under commands, shutdown, kill and restart | component |
| `Utc` | the UTC service's mode, control bits and drops, with the offline plan | composition of the two services |
| `Rbe` | reply by exception: the bus's announcements, the two senders | component |
| `MC...` | constants of the runs | - |
| `...Proofs` | theorems of the module named | - |

`MonitrProofs` begins with the lemmas about `StageScan`, stated in terms of
`Monitr`'s variables, and `StreamProofs` in the same way with those about `Status`.
What is proved of the part thereby serves the whole, without a second proof.

Operators whose comment begins "Mutant of" are plausible bugs, used to see that
each property can fail; no specification uses them.

**Genstg.** `resume` is `g_startPoint`, and an action `Call(...)` is one call of
`genstg()`: `InitStart`, then the parts of `update_end()`, `stage_ending()` and
`intergreen_ending()` as disjuncts with their guards. `GenstgCall` is the call
by `mova()` or the wrapper, `GSCheck` the end of a warm-up
(`GS_check_and_update_io_flags()`), which calls the coroutine wherever it stands.
The other actions are the writers between two calls: confirms, ready bit, demand,
`MOVA_ON`, switch-off, detector faults, the error count, a dataset. They are
enabled at any time, so that the invariants hold for every order of callers. The
polarity of the contacts is abstracted; the read of `change[][]` one row and
column off is kept as in the code, a read outside the table gives any value.

**NextStage.** One behaviour is one call of `update_junction_next_stage()`. The
loops stay loops: `PassOver`, `Consider`, `EnterBody`, `StepBack`, `Choose` ... are
the turns of the `for` and the `while`, so that an endless loop is a behaviour.
The three searches share the steps and differ in `Demanded` and `Permitted`. The
recursive call with the reversionary demand is a return to the first pass. The
facility codes decide which stages a priority demand may not skip: any subset
of the demanded ones on the way.

**ProgramController.** One scan is one call of `program_controller()`. `block` is the
part that is next: "A" (`EndGreen`, `ContinueIntergreen`, `Green`,
`ChangeWithoutIntergreen`: the stage on the street, its timers and markers), "warm-up"
(`WarmupCheck`), "B" (`NoDemand`, `NextStage`, the minima, `Maximum` with the
emergency and priority markers), "C" (`SkipInWarmup`, `Cut`, `EndEarly`,
`StillSaturated`, `EndOfSaturation`: blocks C and D of the code), "change"
(`ChangeStage`). `SwitchOff` (`errhand.c`) and `WarmupAgain` come between two scans.
The traffic is a choice: which stage is demanded and how, whether a hold or an
extension is running, which of the maxima is in force, whether saturation has
ended, what the optimiser says. Times are in scans, those of the dataset are
constants.

**StageScan.** `Confirms` is the write of the inputs before a tick, `Scan` one pass
of the confirm part of `detscn()`; its alternatives are the branches (several
confirms, intergreen, running, first time, permitted, banned and counted).

**Monitr.** A tick has three phases: `Detscn` (the scan, and `InputScan()` with its
divider), `Frame` on every fifth (`CallMova`, `Suspect`, `SwitchOff`, `Glitch`,
`Restart`: the labels S124 to S134 by the value of `old31`), and `Drive`, the wrapper's
call of `genstg()`. The parts it calls are operators of `MovaView`: of the program
controller it keeps the warm-up and what starts a green (`Counted`), of `genstg()` that
going off control takes the force bits away and that forces are put on only on control
(`GenstgOutcomes`, `GSCheckOutcomes`). That `Genstg` and `ProgramController` do no more
than this is their property `SeenByLoop` and `CountsForLoop`. `mova()` is a coroutine
too: `resume` is its `g_startPoint`, and in `Mova` the first call of the process only
takes MOVA off control and returns (`mova.c:187-189`; forces that are on stay), the
second reaches no more than the end of its loop (198), and only from the third on a call
scans and calls `genstg()`. `FaultyDetector` and `WarmupAgain` are the other writers,
the error count itself is left out.

**Status.** `Set` and `Tick` are the two locked methods. `held`, the age of the
present status, is a history variable.

**Stream.** A tick thread goes through `Loop`, `Read`, `UpdateCrb`, `Enter`, `Leave`,
`Slow`, or `Fail` at any step that can raise, `Failed` at the limit; `Slow` is all of
`_tick()` after the kernel, from which no other thread reads anything in between.
`UpdateCrb` uses the status it read at `Read`, as the code does. The *workers* have a
`program`, the steps left of a command, each a step that touches the shared state
once. Handlers are the connections and the MOVA Tools (`CLEAR_ERRORS` is
`ReqResetErrorCount`, which stops the stream and starts it again); a daemon is the
thread to which a handler leaves a STOP while it takes its next command (`Serves`).
`ProgramOf` reads the state when the command arrives, as `handler()` does, and
`LoadProgram`, `Again`, `Resume` and `Look` read it again on the way. `Check` is the
look of `start()` at the thread together with the setting of the event, `Spawn` the new
thread, from its creation to its first step. `GiveUp` is a `join(timeout=2.0)` that
returns before the thread has ended. `Commands` says what each handler is sent. The
kernel is open: a tick may leave any output mode, any `io[19]`. Not in it: the speed
multiplier, the link greens, the state file and the shutdown (`StateFile`), the change
of the IO driver, plan switching. One assumption is named there, *PromptStart*:
`start()` sets WARMUP within the second in which ten ticks could fail.

Nothing keeps two commands apart in the code, and some properties do break when they
overlap (section 5). What is promised is therefore stated with history variables that
follow what happened, and not by leaving the overlaps out: `unsure`, the workers whose
look at the tick thread has gone out of date, because their join gave up or another
start made a thread since; `raced`, that such a worker has made a thread; `restored`, that
FORCE 0 has brought the present status back; `orderly`, that the commands came one at a
time, STOP's daemon included, since the last one that found no other at work and began
with `stop()`. Each exception is needed: without it TLC finds the property violated.

**StateFile.** Each thread does the steps of a job: `job` says which, `step` what is
next. Commands begin with the step their handler does first (`FirstStep`), go through
`Clear` and `Join` (`stop()`), `Load`, `Drop`, `Again`, `Start` or `SetIo`, and end
with the save: `Look` reads the stream, `Truncate` empties the file, `Write` fills it,
and either of the two may fail. `ToolsCommand` and `Zero` are the MOVA Tools, which
change the same stream and save nothing. `Boot`, `Open`, `Restore`, `RestoreMovaOn` and
`Ready` are the start, with commands served meanwhile; `Terminate` and `Exit` the
shutdown; `Kill` may come at any step. Of the tick thread only its end is left (`End`,
`FailOrTurnOff`). `unsaved` and `wanted` are history variables: whether the stream has
changed past the file, and what a restart should bring back. The MOVA Tools' load of
a dataset is left out: the module it imports (`pci_mova.api`) is not in the repository,
so it always fails.

**Utc.** `request` and `put` are the SNMP thread: the SET it is in, the write on the
bus that is next. A control SET looks at the mode for each bit and writes it in
another step. `thread` holds the watchdog, the drivers and the fault timers: each
may run `_drop_to_standalone()`, whose look at the mode (`Look`), write of it
(`Lower`) and release of the points (`Zero`) are three steps. `ScheduleTimer`,
`CancelFault`, `Expire` and `FaultTimeout` are the one fault timer; a timer that has
fired is not stopped by a cancellation. `runner` is the plan's thread, one point at
a time. `stray` is a history variable: the points written by nobody with the right
to it any more. Which plan is wanted and which offset its cycle is at are inputs. An
offset sets the points it names (`Named`) and leaves the others as they are.

**Rbe.** `Write` and `Announce` are the two halves of a bus write. `thread` holds the
send loop (`Wake`, `Clear`, `Take`, `Compare`) and the keepalive loop (`Due`); both
`Build` an inform from the bus as it is by then, and `Note` as sent what they had
taken. Without an instation address the batch is dropped and no failure is counted
(`Suppress`); the address may be set and taken away at any time (`SetAddress`).
`Answer`, `AnswerLost` and `GiveUp` are the network.

## 3. The runs

`tlc -config X.cfg MCModule`, all under five minutes with two workers.

| Run | Bounds | Shows |
|---|---|---|
| `genstg` | 2 stages of 3 channels, time-outs of 2 calls, 2 errors lock out, values to 3 | `OneForce`, `Lockout`, `BoundedWait`, `ForceOnlyWhenReady`, `WaitShrinks`, `SeenByLoop` (it does to MOVA what `Monitr` lets it do), and `KeepsPromise` (it implements `StageForcing`) |
| `next_stage` | 3 stages, every row of cells from banned, reserved and permitted, every set of demands | `EmergencyFirst`, `PrioritySecond`, `NormalRight`, `ChoicePermitted`, `Decides` |
| `next_stage_reserved` | the same | violated: a reserved change is allowed on the second pass |
| `program` | 3 stages, 4 the number that means none; minima, maxima, holds and limits of 1 or 2 scans; timers to 4 | `WaitsAfterMinimum`, `GreenBounded`, `EmergencyCuts`, `ChangeStands`, and `CountsForLoop` (it counts starts of green as `Monitr` does) |
| `monitr` | 2 stages with one banned change, 2 wrong scans, frames of 3 ticks, every phase of the three dividers | `TwoFaultyFrames`, `TwoClearFrames`, `ScansPaced`, `RestartIsCold`, `Recovers`, `Coupled`, `ConfirmedTwice`, `Settles` |
| `stream` | one connection and the daemon of its STOP, LOAD UNLOAD START STOP RESET, one tick thread alive, 2 failing ticks stop | `ShownAsItIs`, `KeepsTicking`, `CommandsEnd` |
| `stream_slow` | a connection that sends LOAD beside the MOVA Tools with CLEAR_ERRORS and both forces, two tick threads (symmetric), the first failing tick stops; ends where two starts have raced | `OneTicker`, `Exclusive`, `FailedStops`, `WarmupReported`, `ForceTimed` |
| `state_file` | one command handler beside the MOVA Tools and the main thread, one dataset in `DATASET_DIR` and one outside it | `RestartResumes` |
| `utc` | one control point, one driver, one timer, a plan of three offsets (one on, one that names nothing, one off) that is active in standalone and monitor | `OnlyStrays`, `FaultEnds`, `SilenceEnds`, `PlanRuns` |
| `utc_fault` | two drivers, no plan | violated: a lost connection ends in standalone if it does not recover |
| `rbe` | one inverted signal with two writers, keepalive configured, losses, an address that comes and goes, one failed inform a backlog | `Reported`, `SilenceDrops` |
| `rbe_changes` | one signal, one writer, an instation address, no keepalive, nothing lost | violated: a change that was announced is reported |

**Why the bounds are enough.** `NStages`: two stages make every case of "this stage, the
other, none", three make a ring in which forward and backward search differ and a banned
change has a way round; in the program controller three are needed for a change that is
replaced by another while it is awaited, and for a warm-up longer than one change.
`Timeout`, `MaxIg`, `MaxWarmup`, `MaxManualForce`, `CrashLimit`, `SlowTicks` and the
times of the program controller are times and counts compared with limits only, so that
"before, at, after" is all there is to reach; `Horizon` is past both limits, `TimerCap`
past the sum of any maximum and extension. `ErrLimit` is reached by the errors of the
model, one of weight 1 and one of the whole limit; `MaxByte` is what a count below the
limit and one more error can make, the width of the byte (127) being an assumption.
`FrameTicks` 3 leaves each of the three dividers free in its phase. `WrongScans` is 2
for the 5 of the code: a count that has begun and one that is full. `Threads` holds as
many threads as can be alive at once: one while commands that overlap do not both start
the stream, and in `stream_slow` a second, which is there only after a race. In `stream`
one daemon is enough for a STOP that overlaps with what follows it, and the commands of
the MOVA Tools do what RESET does; `stream_slow` has no STOP, whose steps are the first
of CLEAR_ERRORS. It ends at a race (`Unraced`), since `OneTicker`, `Exclusive` and
`FailedStops` promise nothing after one; that the two watchdogs go on is their
theorems'. In `Utc` no point and no plan depends on another, and the case of one point
differs from that of none in every loop; three offsets make a cycle in which a point is
put on, left and put off. One driver and one timer are enough for the races of a
connection that is lost and found with its own timer. A second driver meets one branch
more, the timer that already runs: it is taken in `utc_fault`. In `Rbe` every inform
carries all bits of the field, so that one bit stands for them; two writers are what it
takes to announce in the wrong order. A keepalive is a premise of `Reported` and
`SilenceDrops`, although the code's default is 0 (the shipped `ug405.cfg` has 10 s):
without one, a lost or overtaken change is never repaired and silence without changes
never counted. An instation address is a premise of both for the same reason
(`Reached`). `Deepest` is two above the limit the watchdog looks for. In `StateFile`
commands overlap with the MOVA Tools and the shutdown; two handlers that overlap are
excepted from `RestartResumes` and covered by its theorem. The theorems hold for every
value of the constants.

**Deadlock** is checked in every run but those of `Utc`: an outstation that is set
to standalone, without connections and plan, may rest.

**Fairness.** `NextStage`: the step of a loop, weakly; one thread, no waiting.
`StageScan`: the scan, weakly; the stream's thread makes one each tick. `Monitr`: the
tick weakly and the scans that read confirms strongly, because a scan that finds a new
dataset reads none and datasets are loaded rarely. `Stream`: each thread's steps weakly;
no lock of the stream is held over a wait, and a worker waits only in `join()`, which is
not enabled while the thread lives. A failing tick (`Fail`) and a join that gives up
(`GiveUp`) have none: the commands end because the threads they join do. `KeepsTicking`
speaks of streams that stay started by orderly commands, and `CrashLimit` ends a row of
failures; after a STOP that was overtaken the thread may go on without the kernel
(section 5). `Utc`: each thread's steps weakly, as no lock is held over a wait; the
plan's ticks strongly for each offset, because the clock brings the cycle to every
offset again and again but stays at none. The instation's SETs and the connections have
none. `Rbe`: each thread weakly, as the loops wake each second and an attempt times out;
that an inform of the keepalive is answered is not assumed but a premise of `Reported`, and
`SilenceDrops` has none at all. `StateFile` has no fairness, as nothing is promised
there but what a restart finds. `Genstg` and `ProgramController` have no fairness: the
first is driven only while MOVA is on control or warm, so that "the wait ends" would
assume what the other parts decide; `WaitShrinks` and `BoundedWait` say instead that
each call shortens the wait and that the wait is bounded in calls. For the second,
`GreenBounded` bounds the time itself, which is more than an end.

## 4. The proofs

All theorems hold for every value of the constants that satisfies the module's
`...Assumption`; TLC evaluates these assumptions in the runs.

| Theorem | Argument |
|---|---|
| `GenstgProofs`: `TypeCorrect`, `OneForceHolds`, `LockoutHolds`, `BoundedWaitHolds` | `Safe`, the conjunction of the three, is inductive with `TypeOK`. The lemmas speak of `Call` with any ready bit, flag and demand, since `GSCheck` enters it with values of its own: `CallType`, `CallSafe`. `OneForce` needs to know that the force on the channels is the stage the task remembers (`oldDemsta`). |
| `ForcesOnlyWhenReady`, `WaitsShrink` | action properties from the same invariant; only `ForceStage` puts channels on; a measure for the wait in which the grace for a wrong stage counts twice. |
| `LoopSeesTask` | `SeenByLoop` for every call, from wherever the coroutine stands: the ways through `Call` that leave control all take the force bits off (`GiveBack`), the one that puts a force on is entered on control (`CallSeen`); the other writers, and `GSCheck` with its own entry, follow. With it what `Monitr` is proved to do holds of the loop around the detailed task. |
| `TaskKeepsPromise` | every call maps to a step of `StageForcing` or a stutter, case by case. |
| `NextStageProofs`: `ChoiceIsPermitted` | the stage in the body of the loop has passed the test of the loop (`Tested`). |
| `DecisionsNear`, `CaughtForEver` | the lexicographic measure of passes, places and walk decreases with each step, unless the walk has come to a reserved change on the first normal pass (`Caught`); there the only steps are those of the inner loop, which keep it there. |
| `EmergencyIsFirst` | `EmergencyInv` says what the search has ruled out so far: no stage passed over could be approached; `FoundAt` shows that the stage chosen is then the one the definition `Found` names. |
| `NormalIsRight` | `NormalInv`: the changes on the way to every demanded stage passed over are banned (on the second pass: to every demanded stage), so the second pass chooses nothing the first could have, and giving up means that none can be approached. |
| `PriorityIsSecond` | `PriorityInv`: the same for the priority demands before which nothing else may have to be met (`Soles`); a reversionary demand can only make these fewer (`SolesShrink`). |
| `ProgramControllerProofs`: `TypeCorrect`, `WaitsAfterMinimumHolds`, `GreenBoundedHolds`, `EmergencyCutsHolds`, `ChangeStandsHolds` | `IInv` is inductive: `Control` ties block, marker, stage and warm-up together. `Minimum`, `Following` and `Times` say what holds of the minimum, the stage to follow and the timers only once nothing is left of the time before the last switch-off (`Settled`: a start of green was counted and its stage has ended). `Bounded` says how far past its maximum a green may be, as a sum of the two timers, which is what alternating holds, extensions and kinds of demand cannot stretch. `Cuts` follows an emergency demand through the blocks of one scan. |
| `LoopCountsGreens` | `CountsForLoop`: the marker of the last scan, with which the code finds a start of green, is an intergreen exactly when the stage of the scan before was 0 (`Control`), so a scan counts as `Counted` says (`CountedStep`). |
| `MonitrProofs`: `LoopStaysCoupled`, `LoopConfirmsTwice` | `TypeOK` and `Coupled` are inductive together for the scan by itself, and so for the loop around it, whose scans are `StageScan`'s (the lemma `LoopScansConfirms`). |
| `FaultyFramesStopMova`, `ClearFramesCallMova`, `RestartsAreCold` | `Remembers` ties `old31` to the last sample; `HeldDown` says a stopped MOVA is at the beginning of its warm-up, which needs that at most one scan of `InputScan()` falls between two frames, that is a relation between the two dividers. |
| `ScansAreRight` | `Paced`: within a frame `InputScan()` has scanned if its counter is behind the frame's, since both have the same period; so it has scanned once when the frame ends, and `mova()` scans once more if the last two samples are clear and it is past the first two calls of the process. |
| `StreamProofs`: `StatusTypeCorrect`, `ForceEndsInTime` | of `Status` by itself: the counter of the warm-up is its age (`WarmupTimed`), which makes the fault inductive. |
| `StreamReportsWarmup`, `StreamTimesForce` | the same invariants, in the stream: its threads and workers touch the status only through its methods (the lemma `StatusKept`). |
| `StreamTypeCorrect` | what may follow what in a program (`Shape`, `Precedes`) bounds its length through the looks at which it is continued. |
| `OneTickerHolds`, `ExclusiveHolds` | for any number of handlers, daemons and threads, whatever they are sent and whether joins give up or not. `Right` says what the step at the head of a program stands for: before `OFF`, `load` or `reload` the thread has ended, before `spawn` there is none. It holds of every worker that is not `unsure`, until a race (`Sound`): a new thread makes all others at work unsure, and a look makes a worker sure again. |
| `FailedStopsHolds` | `Over`: a thread under FAILED_RESTART is ending, or about to get its WARMUP from the start that made it; until a race or a FORCE 0 that restores that status, which are the theorem's only exceptions. |
| `ShownAsItIsHolds` | `Orderly`: while the commands come one at a time at most one worker is at work (`Lone`), and the head of its program says which of thread, event and status is behind the others (`InOrder`: `Places`, `Event`, `Shown`): a thread under OFF is about to get its WARMUP, a status without a thread is about to be set. A command that begins with `stop()` and finds nobody at work establishes it from any state. |
| `CommandsShrink` | for any number of workers: what may follow what bounds the steps that a program with a given head may still take (`StepsFrom`), through the looks at the state at which it is continued (`again`, `resume`, `look`, `previous`). |
| `UtcProofs`: `TypeCorrect`, `OnlyStraysHolds` | `IInv` adds to the types that the SNMP thread writes points only in a SET of control (`Writing`), and that out of control whatever is on by right belongs to a plan, or somebody who has lowered the mode still has to release it (`Owned`, `Releasing`); a plan that stands down has been at all points but those left (`StandingDown`). |
| `FaultIsKept` | the fault timer that is known still runs (`TimerRuns`): a fired one forgets itself, a cancelled one is forgotten with it; so whoever leaves the drop to the timer can rely on it until somebody's connection is found. |
| `RbeProofs`: `RbeTypeCorrect`, `KnowledgeLasts`, `NotedWasTold` | types for each thread's steps; then `RoundMoves` and `ToldMoves` say how a step may change a round and what the instation knows: an inform reads the bus when it is built, and who notes has been answered (`Tells`). |
| `ApartChangesReported` | `ApartInv`: the newest word on a signal, first the announcements, then what is pending, the round's, and what is noted, is what is on the bus (`Newest`); what is told within a round is what is noted after it (`Said`). Assumed besides `Apart`: what the run that violates `ChangesReported` has too, no losses, no keepalive, a mode that stays set, an instation address (`Plain`). |
| `StateFileProofs`: `RestartsResume`, `StateFileTypeCorrect` | `FileInv` is inductive. `Fits` says which steps each thread's job may be at. `Sync`: with nothing unsaved at most one thread is in a job, and it has its save before it, or it holds what the stream is, or nobody is at work and the file says what the stream is. `Restoring` and `Wants` follow a restart: until it is done the file and what was read of it stay what is expected, and the parts restored so far agree with it. |

Only model-checked: the liveness properties (`Decides`, `Settles`, `Recovers`,
`KeepsTicking`, `CommandsEnd`, `FaultEnds`, `SilenceEnds`, `PlanRuns`, `Reported`,
`SilenceDrops`), which the prover does not reach. Of `Decides`, `CommandsEnd`,
`FaultEnds` and `Reported` the part that needs no fairness is proved: that steps bring
the end nearer (`DecisionsNear`, `CommandsShrink`), that what leads to it is not given
up (`FaultIsKept`), and that what is reached lasts (`KnowledgeLasts`).
Nothing is proved about recursive definitions, and none is used.

## 5. What was found

Statements of the code's own comments that are not what the code does; each has a
run that ends in a counterexample.

1. **Reserved changes** (`next_stage_reserved`, `stages_handler.c:504`). A change
   reserved for emergency and priority keeps a normal demand in the inner loop for
   ever: the tick does not return. `CaughtForEver` and `DecisionsNear` say that there is
   no way out of it on any instance, and that nothing else keeps a choice from ending.
2. **One timer for two connections** (`utc_fault`, `svc_ug405.py:192`). The driver that
   reconnects cancels the countdown of the other, whose loss is then never acted on.
   `FaultIsKept` says that nothing but a reconnection does that.
3. **A change taken for one sent** (`rbe_changes`, `svc_ug405_rbe.py:296`). The value
   noted as sent is that of the change, the value sent is read from the bus later.
   `ApartChangesReported` says that it takes a change that overlaps with a round of the
   send loop.

Seen with TLC while modelling, in configurations that are not kept as runs:

- The table of changes is read with stage numbers that start at 1 while its rows
  start at 0 (`genstg.c:391-394`): the wait does not allow for the intergreen of the
  change being made.
- The program controller runs twice in a frame (`mova.c:207`, `mova_stubs.c:50-66`), so
  its timers run at twice the rate the comment asks for; never more, and once while the
  confirms are faulty and in the first two calls of `mova()` after the process has
  started, which do not scan (`mova.c:187-198`; `ScansAreRight`).
- With confirms that go bad at every other frame the warm-up ends and MOVA goes on
  control while the fault stands (`monitr.c:891`).
- With the controller not ready at the end of the warm-up the demanded stage stays 0,
  or the number that means none (`genstg.c:304`, `595`).
- The warm-up counts a green only if an intergreen came before it, so that changes
  without one prolong it. The wait timer never grows past one scan of waiting. A
  switch-off leaves the wait, the minimum marker and the demanded stage as they were
  through the warm-up; `WaitsAfterMinimum` says they are gone when it ends.
- With commands on two connections, or on one and the MOVA Tools, LOAD finds no thread,
  START makes one, and the kernel ticks while its tables are rebuilt
  (`kernel_main.py:214-217`; `wrapper.py:446-447` asks the caller to exclude it). The same
  happens when a tick outlasts the two seconds of the join. `Exclusive` says that, up
  to a race of two starts, there is no third way; "no load beside a tick" cannot be
  stated of this code.
- Two starts at once, from LOAD, START, RESET or the MOVA Tools, may both look before
  either has made its thread (`stream.py:115-126`): the kernel is then ticked by two.
  `OneTicker` says that nothing else makes a second thread, a join that gives up included.
- STOP is acknowledged before it is done (`kernel_main.py:357`): the OFF it sets may
  come after the next start and stay, and the tick thread then leaves the kernel
  uncalled, until a command that stops the stream by itself. That "a status shown is
  always true" cannot be stated either; `ShownAsItIs` says when it is, and that this
  command mends it. FORCE 0 and a join that gives up may do the same.
- UNLOAD has no dataset to save, so the state file stays: the next start restores the
  dataset that was unloaded, and runs it if it ran when it was saved
  (`kernel_main.py:61`). A LOAD that the kernel rejects has stopped the stream and saved
  nothing; neither do the MOVA Tools (`mova_tools.py:341-378`), the ten failures
  (`stream.py:214`) and the end of a force (`faults.py:177`). The file is emptied before
  it is written (`kernel_main.py:71`), so that a kill in between leaves the stream
  without a dataset. A dataset loaded from outside `DATASET_DIR` is saved by its name
  only and not found again. `RestartResumes` excepts these.
- The output mode left by the previous life of the stream counts as the kernel being on
  control (`stream.py:346`; the comment at 343 says that it has completed its warm-up):
  after STOP and START, or RESET, the first tick goes to ON_CONTROL and the warm-up
  watchdog is off.
- FORCE 0 on a stream that is not forced sets the status before the present one
  (`stream.py:464`), which after a start is OFF or INIT, and may be FAILED_RESTART over a
  thread that runs. `FailedStops` excepts that status only (`restored`), and
  `ShownAsItIs` what follows a force.
- A manual force is overwritten in the output buffer by the next kernel tick
  (`wrapper.py:548-549`).
- A SET of the operating mode or of control in modes 1 and 2 zeroes the points of the
  running plan (`svc_ug405.py`), which the plan does not notice before its next offset;
  a plan with one offset stays at zero (`svc_offline_plan.py:4-6` promises standing in),
  and so does a point until an offset names it.
  `PlanRuns`, of plans with more offsets and of the points each of them names, is what
  does hold. A plan that stands down late may write or zero points
  that the instation, by then in control, has set.
- A mode SET that was checked against a mode that has since dropped may go from
  standalone to control in one step. A fault timer that fires as the connection comes
  back still drops, and forgets a newer timer.
- The keepalive notes inverted values as sent; a batch put back in the hold-off
  overwrites a newer change; a failed inform forgets its changes; the clearing of the
  pending changes in standalone may clear one announced just after. `Reported` shows
  that the keepalive repairs all of them.

Read in the source, and not modelled:

- `reset_ep_links_cancel_marker()` (`links_ep_handler.c:706-732`) gives
  `DI_is_ep_link()` the index of a link where it takes its number, so that it looks at
  the type of the link before: the cancel markers of an emergency or priority link may
  stay set after its green.
- `PulseEngine._expire()` (`svc_rtig.py:151-155`) may end a pulse that a newer demand has
  just begun again.

## 6. Not modelled, and why

- The optimisers, estimators and the gap timers of lanes and links: floating-point
  formulas whose result is the moment a green ends, a choice in `ProgramController`.
- Special conditioning: an interpreter of rules in the dataset; what it may do to the
  control path is set demands, and these are arbitrary in `NextStage`.
- TMA, output, display, pages, logs, licence: nothing the control path reads back.
  With them the rings of messages and errors, and their polls.
- The watchdog between the kernel's tasks: `OutputScan()` sets it on each call
  (`mova_stubs.c:81`), so it never fires in this build.
- Sources outside the Linux build, vendored code, pages.
- How codes and detectors make demands, latch and clear them (`stages_codes_handler.c`,
  `stages_ep_handler.c`, `links_ep_handler.c`); detector faults; the
  sockets of the IPC and of the bus; the drivers; the conditioner and RTIG. Their state
  is an input where a module reads it; by themselves they remain to be done.

**Assumptions of the models.** The tick's parts run one after another, as in the Linux
build. An SNMP datagram arrives within its attempt or not at all. One junction with
one field of bits stands for all, as nothing crosses from one to another. A reader
and a writer of a Python attribute never tear. `join()` outlasts the last tick in
`StateFile`, the files of datasets stay as they are, and what was written before a kill
is there after it.

## 7. Plan

Done first, because the lights depend on it: the forces (`Genstg`), the choice of the
stage (`NextStage`), the confirms (`StageScan`), the loop that drives them (`Monitr`),
the process around it (`Status`, `Stream`), and its restart (`StateFile`). Then the
decision to leave a green (`ProgramController`), and the services of the board that may
force from outside (`Utc`, `Rbe`).

Left, in this order:

1. **Kernel**: `NextStage` and `ProgramController` in one scan.
2. **Demands**: codes, latches and their clearing, so that a demand is kept until
   served; the emergency and priority links of section 5 first.
3. **Rings** of 50 messages and 100 errors under their polls; **Ipc**.
4. **IOBus** by itself with ownership and refusal, the conditioner and RTIG as clients;
   the drivers.

Proofs left: the part of `Settles`, `KeepsTicking` and `PlanRuns` that needs no fairness.
