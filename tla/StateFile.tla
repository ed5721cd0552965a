------------------------------ MODULE StateFile ------------------------------
(***************************************************************************)
(* The kernel process of one stream (pci_mova/kernel_main.py): the file    *)
(* that keeps its dataset, io[MOVA_ON] and whether it runs, written at the *)
(* end of a command and at a shutdown, read when the process starts.  Each *)
(* of these threads does the steps of a job:                               *)
(*   - the main thread: the restore at the start and the shutdown;         *)
(*   - the handlers of commands, served before the restore has begun;      *)
(*   - the MOVA Tools server, started after it.                            *)
(* The tick thread shows here by its end only (module Stream has the rest).*)
(* The process may be killed at any step, and is then started again.       *)
(*                                                                         *)
(* Assumptions: join() outlasts the last tick; the files of datasets stay  *)
(* where and as they are, so that the kernel accepts again what it had     *)
(* accepted; what was written before a kill is there after it.             *)
(***************************************************************************)
CONSTANTS
  Datasets,   \* the datasets that LOAD may name
  Kept,       \* those of them that are in DATASET_DIR
  None,       \* no dataset, no file that can be read, nothing expected
  Handlers,   \* the threads that run commands at one time (bound)
  Main, Tools \* the main thread, the MOVA Tools server

ASSUME StateFileAssumption ==
  /\ None \notin Datasets /\ Kept \subseteq Datasets
  /\ Main # Tools /\ {Main, Tools} \cap Handlers = {}

Threads == Handlers \union {Main, Tools}

VARIABLES
  dataset,    \* _dataset
  running,    \* the event _running
  alive,      \* whether the tick thread is
  movaOn,     \* io[MOVA_ON] of the buffers
  file,       \* what the state file says; None also if it is cut short
  phase,      \* what the process is doing
  job,        \* what each thread is doing
  step,       \* the next step of it, or "idle"
  seen,       \* what each thread has read of the stream, Main also of the file
  unsaved,    \* the stream has changed past the file (history)
  wanted      \* the stream that a restart should bring back, or None (history)

streamVars == <<dataset, running, alive, movaOn>>
vars == <<streamVars, file, phase, job, step, seen, unsaved, wanted>>

Stream == [dataset |-> dataset, running |-> running, movaOn |-> movaOn]
Streams == [dataset : Datasets, running : BOOLEAN, movaOn : {0, 1}]

Idle == \A t \in Threads : step[t] = "idle"

(* No other thread than t is in the middle of something.                   *)
Alone(t) == \A u \in Threads \ {t} : step[u] = "idle"

(* A process that is not there, or has just been started.                  *)
Blank ==
  /\ dataset = None /\ running = FALSE /\ alive = FALSE /\ movaOn = 0
  /\ job = [t \in Threads |-> "none"] /\ step = [t \in Threads |-> "idle"]
  /\ seen = [t \in Threads |-> None]

Init ==
  /\ Blank
  /\ file = None
  /\ phase = "down"
  /\ unsaved = FALSE /\ wanted = None

-----------------------------------------------------------------------------
(* The jobs, and the step that the stop() of a job leads to.               *)
Commands == {"LOAD", "UNLOAD", "START", "STOP", "RESET", "MOVA_ON", "MOVA_OFF"}
AfterStop == [LOAD |-> "swap", UNLOAD |-> "drop", STOP |-> "look", RESET |-> "again",
              shutdown |-> "exit", recover |-> "zero", halt |-> "zero"]

(* A thread begins a job, or goes on with its next step.                   *)
Begins(t, j, s) ==
  /\ job' = [job EXCEPT ![t] = j]
  /\ step' = [step EXCEPT ![t] = s]

Goes(t, from, to) ==
  /\ step[t] = from
  /\ Begins(t, IF to = "idle" THEN "none" ELSE job[t], to)

(* A command ends with _save_state(), a job of the MOVA Tools does not.    *)
Afterwards(t) == IF job[t] \in Commands THEN "look" ELSE "idle"

(* The first step of a command when it arrives.                            *)
FirstStep(c) ==
  CASE c = "LOAD" -> IF alive THEN "clear" ELSE "load"
    [] c \in {"UNLOAD", "STOP", "RESET"} -> "clear"
    [] c = "START" -> IF dataset # None /\ ~running THEN "start" ELSE "look"
    [] c = "MOVA_ON" -> "on"
    [] c = "MOVA_OFF" -> "off"

(* The commands overlap: who saves last need not have seen the last state. *)
Command(h) ==
  /\ phase # "down" /\ step[h] = "idle"
  /\ \E c \in Commands : Begins(h, c, FirstStep(c))
  /\ unsaved' = (unsaved \/ ~Idle)
  /\ wanted' = None
  /\ UNCHANGED <<streamVars, file, phase, seen>>

(* ReqMOVAEnabledFlagSetting and ReqResetErrorCount of the MOVA Tools save *)
(* nothing.                                                                *)
ToolsCommand ==
  /\ phase \in {"up", "ending"} /\ step[Tools] = "idle"
  /\ \/ Begins(Tools, "enable", "on") \/ Begins(Tools, "disable", "off")
     \/ Begins(Tools, IF running THEN "recover" ELSE "halt", "clear")
  /\ unsaved' = TRUE /\ wanted' = None
  /\ UNCHANGED <<streamVars, file, phase, seen>>

-----------------------------------------------------------------------------
(* _save_state(): without a dataset it returns.                            *)
AfterSave(t) == IF job[t] = "shutdown" THEN "clear" ELSE "idle"

Look(t) ==
  /\ \/ /\ dataset = None
        /\ Goes(t, "look", AfterSave(t)) /\ UNCHANGED <<seen, unsaved>>
     \/ /\ dataset # None
        /\ Goes(t, "look", "truncate")
        /\ seen' = [seen EXCEPT ![t] = Stream]
        /\ unsaved' = (unsaved /\ ~Alone(t))
  /\ UNCHANGED <<streamVars, file, phase, wanted>>

(* open(..., "w") empties the file, or fails and leaves it.                *)
Truncate(t) ==
  /\ \/ /\ Goes(t, "truncate", "write")
        /\ file' = None /\ UNCHANGED <<unsaved, seen>>
     \/ /\ Goes(t, "truncate", AfterSave(t))
        /\ unsaved' = TRUE /\ seen' = [seen EXCEPT ![t] = None] /\ UNCHANGED file
  /\ UNCHANGED <<streamVars, phase, wanted>>

(* What was read is written, or the writing fails.  A shutdown expects to  *)
(* be resumed from here.                                                   *)
Write(t) ==
  /\ Goes(t, "write", AfterSave(t))
  /\ \/ /\ file' = seen[t] /\ UNCHANGED unsaved
        /\ wanted' = IF t = Main /\ ~unsaved /\ seen[t].dataset \in Kept
                       THEN seen[t] ELSE wanted
     \/ unsaved' = TRUE /\ UNCHANGED <<file, wanted>>
  /\ seen' = [seen EXCEPT ![t] = None]
  /\ UNCHANGED <<streamVars, phase>>

Save(t) == Look(t) \/ Truncate(t) \/ Write(t)

-----------------------------------------------------------------------------
others == <<file, phase, seen, wanted>>

(* stop(): the event is cleared and MOVA turned off, the thread joined.    *)
Clear(t) ==
  /\ Goes(t, "clear", "join")
  /\ running' = FALSE /\ movaOn' = 0
  /\ UNCHANGED <<dataset, alive, unsaved, others>>

Join(t) ==
  /\ ~alive /\ Goes(t, "join", AfterStop[job[t]])
  /\ UNCHANGED <<streamVars, unsaved, others>>

(* start(): not twice, and not without a dataset.                          *)
Started == IF alive \/ dataset' = None
             THEN UNCHANGED <<running, alive>>
             ELSE running' = TRUE /\ alive' = TRUE

Start(t) ==
  /\ Goes(t, "start", Afterwards(t))
  /\ UNCHANGED dataset /\ Started
  /\ UNCHANGED <<movaOn, unsaved, others>>

(* LOAD with load_dataset(): accepted, started and saved; or rejected,     *)
(* which leaves the stream stopped for it without a word in the file.      *)
Load(h) ==
  /\ \E first \in {"load", "swap"} :
       \/ /\ Goes(h, first, "look")
          /\ dataset' \in Datasets /\ Started /\ UNCHANGED unsaved
       \/ /\ Goes(h, first, "idle")
          /\ unsaved' = (unsaved \/ first = "swap")
          /\ UNCHANGED <<dataset, running, alive>>
  /\ UNCHANGED <<movaOn, others>>

(* UNLOAD, after the stop.                                                 *)
Drop(h) ==
  /\ Goes(h, "drop", "look")
  /\ dataset' = None
  /\ UNCHANGED <<running, alive, movaOn, unsaved, others>>

(* RESET, after the stop: the flags are 0 and the stream is started.       *)
Again(h) ==
  /\ IF dataset = None
       THEN Goes(h, "again", "look") /\ UNCHANGED movaOn
       ELSE Goes(h, "again", "start") /\ movaOn' = 0
  /\ UNCHANGED <<dataset, running, alive, unsaved, others>>

(* ReqResetErrorCount, after the stop: MOVA goes on if the stream ran.     *)
Zero ==
  /\ Goes(Tools, "zero",
          IF job[Tools] = "recover" /\ dataset # None THEN "on" ELSE "idle")
  /\ movaOn' = 0
  /\ UNCHANGED <<dataset, running, alive, unsaved, others>>

(* Mutant of SetIo: SET_IO does not save.                                  *)
SetIoUnsaved(t) ==
  LET after == IF job[t] = "recover" THEN "start" ELSE "idle" IN
  /\ \/ Goes(t, "on", after) /\ movaOn' = 1
     \/ Goes(t, "off", after) /\ movaOn' = 0
  /\ UNCHANGED <<dataset, running, alive, unsaved, others>>

(* SET_IO 27 <value>, or io[27] of the MOVA Tools.                         *)
SetIo(t) ==
  LET after == IF job[t] = "recover" THEN "start" ELSE Afterwards(t) IN
  /\ \/ Goes(t, "on", after) /\ movaOn' = 1
     \/ Goes(t, "off", after) /\ movaOn' = 0
  /\ UNCHANGED <<dataset, running, alive, unsaved, others>>

-----------------------------------------------------------------------------
(* _loop() ends once the event is cleared.                                 *)
End ==
  /\ alive /\ ~running /\ alive' = FALSE
  /\ UNCHANGED <<dataset, running, movaOn, job, step, unsaved, others>>

(* It ends itself after ten failures; a force that lasts too long turns    *)
(* MOVA off (FaultMonitor).  Neither is saved.                             *)
FailOrTurnOff ==
  /\ alive /\ running
  /\ \/ running' = FALSE /\ UNCHANGED movaOn
     \/ movaOn' = 0 /\ UNCHANGED running
  /\ unsaved' = TRUE
  /\ wanted' = IF phase = "ending" THEN wanted ELSE None
  /\ UNCHANGED <<dataset, alive, file, phase, job, step, seen>>

-----------------------------------------------------------------------------
(* The process starts: commands are served before the state is restored.   *)
Boot ==
  /\ phase = "down" /\ phase' = "restoring"
  /\ Begins(Main, "restore", "open")
  /\ UNCHANGED <<streamVars, file, seen, unsaved, wanted>>

(* _restore_state(): a file that cannot be read, or whose dataset is not   *)
(* under its name in DATASET_DIR, leaves the stream without one.           *)
Open ==
  /\ \/ /\ \/ file = None
           \/ file # None /\ file.dataset \notin Kept
        /\ Goes(Main, "open", "ready") /\ UNCHANGED seen
     \/ /\ file # None /\ file.dataset \in Kept
        /\ Goes(Main, "open", "restore")
        /\ seen' = [seen EXCEPT ![Main] = file]
  /\ UNCHANGED <<streamVars, file, phase, unsaved, wanted>>

Restore ==
  /\ Goes(Main, "restore", "movaon")
  /\ dataset' = seen[Main].dataset
  /\ IF seen[Main].running THEN Started ELSE UNCHANGED <<running, alive>>
  /\ UNCHANGED <<movaOn, unsaved, others>>

RestoreMovaOn ==
  /\ Goes(Main, "movaon", "ready")
  /\ movaOn' = IF seen[Main].movaOn = 1 THEN 1 ELSE movaOn
  /\ seen' = [seen EXCEPT ![Main] = None]
  /\ UNCHANGED <<dataset, running, alive, file, phase, unsaved, wanted>>

Ready ==
  /\ Goes(Main, "ready", "idle")
  /\ phase' = "up"
  /\ UNCHANGED <<streamVars, file, seen, unsaved, wanted>>

(* SIGTERM: the state is saved, then the stream stopped.                   *)
Terminate ==
  /\ phase = "up" /\ phase' = "ending"
  /\ Begins(Main, "shutdown", "look")
  /\ unsaved' = (unsaved \/ ~Idle)
  /\ wanted' = None
  /\ UNCHANGED <<streamVars, file, seen>>

(* The process is gone, and what it had in memory.                         *)
Gone ==
  /\ phase' = "down"
  /\ dataset' = None /\ running' = FALSE /\ alive' = FALSE /\ movaOn' = 0
  /\ job' = [t \in Threads |-> "none"] /\ step' = [t \in Threads |-> "idle"]
  /\ seen' = [t \in Threads |-> None]
  /\ unsaved' = FALSE
  /\ UNCHANGED file

Exit == step[Main] = "exit" /\ Gone /\ UNCHANGED wanted

(* Killed: what was in the middle of a change need not come back.          *)
Kill ==
  /\ phase # "down" /\ Gone
  /\ wanted' = IF phase # "up" THEN wanted
               ELSE IF Idle /\ ~unsaved /\ dataset \in Kept THEN Stream ELSE None

Next ==
  \/ \E h \in Handlers : Command(h) \/ Load(h) \/ Drop(h) \/ Again(h)
  \/ \E t \in Threads : Save(t) \/ Clear(t) \/ Join(t) \/ Start(t) \/ SetIo(t)
  \/ ToolsCommand \/ Zero
  \/ End \/ FailOrTurnOff
  \/ Boot \/ Open \/ Restore \/ RestoreMovaOn \/ Ready
  \/ Terminate \/ Exit \/ Kill

Spec == Init /\ [][Next]_vars

-----------------------------------------------------------------------------
Jobs == Commands \union {"none", "enable", "disable", "recover", "halt",
                         "restore", "shutdown"}
Steps == {"idle", "look", "truncate", "write", "clear", "join", "start", "load", "swap",
          "drop", "again", "zero", "on", "off", "open", "restore", "movaon", "ready", "exit"}

TypeOK ==
  /\ dataset \in Datasets \union {None}
  /\ running \in BOOLEAN /\ alive \in BOOLEAN /\ unsaved \in BOOLEAN
  /\ movaOn \in {0, 1}
  /\ file \in Streams \union {None} /\ wanted \in Streams \union {None}
  /\ phase \in {"down", "restoring", "up", "ending"}
  /\ seen \in [Threads -> Streams \union {None}]
  /\ job \in [Threads -> Jobs] /\ step \in [Threads -> Steps]

(* A stream comes back as it was: killed between two commands, or shut     *)
(* down, it has after the restart the dataset, io[MOVA_ON] and the thread  *)
(* it had, whatever commands, restarts and kills, also during a restore,   *)
(* went before.  The exceptions are what the code does not save: changes   *)
(* by the MOVA Tools or by the tick thread, the stop for a dataset that is *)
(* then rejected, commands that overlap, a write that fails, a dataset     *)
(* from outside DATASET_DIR, and that there is none (UNLOAD).              *)
RestartResumes ==
  phase = "up" /\ wanted # None => Stream = wanted
=============================================================================
