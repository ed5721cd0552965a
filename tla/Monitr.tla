------------------------------- MODULE Monitr -------------------------------
(***************************************************************************)
(* The main loop of the kernel: monitr() (M8.0/kernel/monitr.c), which the *)
(* stream's thread calls every 100 ms through MovaKernel.tick().  A tick   *)
(* is in order                                                             *)
(*   - a scan of the stage confirms (StageScan) and InputScan(), which     *)
(*     runs the program controller on every fifth call;                    *)
(*   - on every fifth tick, the frame: the fault "several stage confirms"  *)
(*     is looked for and, without it, mova() is called, which after its    *)
(*     first two calls runs the program controller and, once warm,         *)
(*     genstg();                                                           *)
(*   - on every fifth tick, if MOVA is on control, genstg() once more from *)
(*     the wrapper.                                                        *)
(*                                                                         *)
(* What the frame needs of the program controller and of genstg(), and     *)
(* the fields of mova, are in MovaView; one field is added, scans, how     *)
(* often CI_start_scan() ran within the frame (history).                   *)
(***************************************************************************)
EXTENDS ScanData, MovaView

CONSTANT
  FrameTicks        \* the ticks of a frame, of the gate of InputScan() and
                    \* of the wrapper's: 5

ASSUME MonitrAssumption == FrameTicks \in Nat \ {0}

VARIABLES
  confin, newstg, oldstg, savstg, snow, multi, wrongCount,  \* see StageScan
  phase,            \* the part of the tick that is next
  updateCount,      \* g_updateCount
  scanDiv,          \* _scan_div of InputScan()
  genstgDiv,        \* _genstg_div of the wrapper
  old31,            \* the state of the several-confirms fault
  resume,           \* g_startPoint of mova()
  mova,             \* MOVA as the frame sees it
  samples           \* multi at the last two frames (history)

D == INSTANCE StageScan

confirms == <<confin, newstg, oldstg, savstg, snow, multi, wrongCount>>
counters == <<updateCount, scanDiv, genstgDiv>>
vars == <<confirms, phase, counters, old31, resume, mova, samples>>

NoFault == 0        \* the values of old31
Suspected == 1
Stopped == 2
Clearing == -1

Init ==
  /\ D!Init
  /\ phase = "scan"
  /\ updateCount = 0
  /\ scanDiv \in 0..FrameTicks - 1
  /\ genstgDiv \in 0..FrameTicks - 1
  /\ old31 = NoFault
  /\ resume = "initStart"
  /\ mova = [warmup |-> -1, green |-> 0, onControl |-> 0, forced |-> 0,
             scans |-> 0]
  /\ samples = <<0, 0>>

-----------------------------------------------------------------------------
(* The three counters of ticks start again after FrameTicks.               *)
Following(count) == IF count + 1 >= FrameTicks THEN 0 ELSE count + 1

(* Mutant of Off: the force bits stay as they are.                         *)
OffForced(m) == [m EXCEPT !.onControl = 0, !.warmup = -1, !.green = 0]

(* Switch_MOVA_Off()                                                       *)
Off(m) == [m EXCEPT !.onControl = 0, !.forced = 0, !.warmup = -1, !.green = 0]

InWarmup(m) == m.warmup <= NStages

(* program_controller() on the stage on the street, and what it calls when *)
(* the warm-up is complete.                                                *)
ScanOutcomes(m, stage) ==
  LET after == [Counted(m, stage, NStages) EXCEPT !.scans = @ + 1]
  IN IF InWarmup(m) /\ ~InWarmup(after) THEN GSCheckOutcomes(after) ELSE {after}

(* mova() from its label S10 on: the scan and, once warm, genstg().        *)
UpdateOutcomes(m, stage) ==
  UNION {IF InWarmup(n) THEN {n} ELSE GenstgOutcomes(n) :
           n \in ScanOutcomes(m, stage)}

(* Mutant of Mova: the second call runs on into the scan.                  *)
MovaRunsOn(m) ==
  \/ /\ resume = "initStart" /\ resume' = "initEnd"
     /\ mova' = [m EXCEPT !.onControl = 0]
  \/ /\ resume # "initStart" /\ resume' = "updateEnd"
     /\ mova' \in UpdateOutcomes(m, snow)

(* A call of mova(), a coroutine, on m.  The first of the process only     *)
(* takes MOVA off control (initialise_working_data()), the second only     *)
(* comes to the end of the loop; no restart and no dataset repeats them.   *)
Mova(m) ==
  \/ /\ resume = "initStart" /\ resume' = "initEnd"
     /\ mova' = [m EXCEPT !.onControl = 0]
  \/ /\ resume = "initEnd" /\ resume' = "updateEnd"
     /\ mova' = m
  \/ /\ resume = "updateEnd" /\ UNCHANGED resume
     /\ mova' \in UpdateOutcomes(m, snow)

(* InputScan(), at the end of the scan: the gate of five calls.            *)
InputScan ==
  /\ scanDiv' = Following(scanDiv)
  /\ IF scanDiv' = 0 THEN mova' \in ScanOutcomes(mova, snow')
                     ELSE UNCHANGED mova

(* detscn(): the scan, or only InputScan() when there is a new dataset.    *)
Detscn ==
  /\ phase = "scan"
  /\ D!Scan \/ UNCHANGED confirms
  /\ InputScan
  /\ updateCount' = Following(updateCount)
  /\ phase' = IF updateCount' = 0 THEN "frame" ELSE "drive"
  /\ UNCHANGED <<genstgDiv, old31, resume, samples>>

(* The frame is over: what follows it, and the next frame's counts.        *)
FrameEnds ==
  /\ phase = "frame"
  /\ phase' = "drive"
  /\ samples' = <<samples[2], multi>>
  /\ UNCHANGED <<confirms, counters>>

NewFrame(m) == [m EXCEPT !.scans = 0]

(* Mutant of CallMova: called on the first clear frame after a glitch.     *)
CallMovaAnyway ==
  /\ multi = 0 /\ old31 \in {NoFault, Suspected}
  /\ FrameEnds
  /\ Mova(mova)
  /\ old31' = NoFault

(* No fault: mova() is called.                                             *)
CallMova ==
  /\ multi = 0 /\ old31 = NoFault
  /\ FrameEnds
  /\ Mova(mova)
  /\ UNCHANGED old31

(* "just gone OFF", or back off after a glitch on: mova() is skipped.      *)
Suspect ==
  /\ multi = 1 /\ old31 \in {NoFault, Clearing}
  /\ FrameEnds
  /\ old31' = IF old31 = NoFault THEN Suspected ELSE Stopped
  /\ UNCHANGED <<resume, mova>>

(* A second time, and every later time, MOVA is taken off control.         *)
SwitchOff ==
  /\ multi = 1 /\ old31 \in {Suspected, Stopped}
  /\ FrameEnds
  /\ old31' = Stopped
  /\ mova' = Off(mova)
  /\ UNCHANGED resume

(* Mutant of Glitch: a stop is never seen to clear.                        *)
GlitchStays ==
  /\ multi = 0 /\ old31 \in {Suspected, Stopped}
  /\ FrameEnds
  /\ old31' = IF old31 = Suspected THEN NoFault ELSE Stopped
  /\ UNCHANGED <<resume, mova>>

(* The confirms are clear for one frame: a glitch, or about to restart.    *)
Glitch ==
  /\ multi = 0 /\ old31 \in {Suspected, Stopped}
  /\ FrameEnds
  /\ old31' = IF old31 = Suspected THEN NoFault ELSE Clearing
  /\ UNCHANGED <<resume, mova>>

(* Mutant of Restart: MOVA restarts with the warm-up it had.               *)
RestartWarm ==
  /\ multi = 0 /\ old31 = Clearing
  /\ FrameEnds
  /\ old31' = NoFault
  /\ Mova(mova)

(* Clear for two frames: MOVA_RESTARTED, from the start of the warm-up.    *)
Restart ==
  /\ multi = 0 /\ old31 = Clearing
  /\ FrameEnds
  /\ old31' = NoFault
  /\ Mova([mova EXCEPT !.warmup = -1, !.green = 0])

(* MovaKernel.tick() after monitr(): the gate of five ticks for genstg().  *)
Drive ==
  /\ phase = "drive"
  /\ genstgDiv' = Following(genstgDiv)
  /\ \/ /\ genstgDiv' = 0 /\ mova.onControl = 1
        /\ \E m \in GenstgOutcomes(mova) :
             mova' = IF updateCount = 0 THEN NewFrame(m) ELSE m
     \/ /\ ~(genstgDiv' = 0 /\ mova.onControl = 1)
        /\ mova' = IF updateCount = 0 THEN NewFrame(mova) ELSE mova
  /\ phase' = "scan"
  /\ UNCHANGED <<confirms, updateCount, scanDiv, old31, resume, samples>>

(* Between ticks the confirms change.                                      *)
Confirms ==
  /\ phase = "scan"
  /\ D!Confirms
  /\ UNCHANGED <<phase, counters, old31, resume, mova, samples>>

(* handle_faulty_detector() takes MOVA off control and leaves its forces.  *)
FaultyDetector ==
  /\ phase = "scan" /\ mova.onControl = 1
  /\ mova' = [mova EXCEPT !.onControl = 0]
  /\ UNCHANGED <<confirms, phase, counters, old31, resume, samples>>

(* The stream when the controller is ready again, and handle_error_count() *)
(* when errors have aged: one more start of green and GS_check again.      *)
WarmupAgain ==
  /\ phase = "scan" /\ ~InWarmup(mova)
  /\ mova' = [mova EXCEPT !.warmup = NStages]
  /\ UNCHANGED <<confirms, phase, counters, old31, resume, samples>>

Frame == CallMova \/ Suspect \/ SwitchOff \/ Glitch \/ Restart
Tick == Detscn \/ Frame \/ Drive
Next == Tick \/ Confirms \/ FaultyDetector \/ WarmupAgain

Spec == Init /\ [][Next]_vars

(* The stream's thread calls tick() every 100 ms.  A scan that finds a new *)
(* dataset is rare: the scans that read the confirms are fair too.         *)
FairSpec == Spec /\ WF_vars(Tick) /\ SF_vars(Detscn /\ D!Scan)

-----------------------------------------------------------------------------
MovaType == [warmup : -1..NStages + 1, green : {0, 1}, onControl : {0, 1},
             forced : {0, 1}, scans : Nat]

(* The loop's own variables and the fault of the scan; the other variables *)
(* of the scan are StageScan's.                                            *)
TypeOK ==
  /\ phase \in {"scan", "frame", "drive"}
  /\ updateCount \in 0..FrameTicks - 1
  /\ scanDiv \in 0..FrameTicks - 1
  /\ genstgDiv \in 0..FrameTicks - 1
  /\ old31 \in {NoFault, Suspected, Stopped, Clearing}
  /\ resume \in {"initStart", "initEnd", "updateEnd"}
  /\ mova \in MovaType
  /\ samples \in {0, 1} \X {0, 1}
  /\ multi \in {0, 1}

(* Several confirms at two frames in succession take MOVA off control with *)
(* every force bit off, whatever the fault had been through before, and it *)
(* stays so up to the next frame.                                          *)
TwoFaultyFrames ==
  samples = <<1, 1>> => mova.onControl = 0 /\ mova.forced = 0

(* Within a frame mova() was called if it has gone on or scanned.          *)
MovaCalled == resume' # resume \/ mova'.scans > mova.scans

(* A frame that sees several confirms never calls mova(), and a second     *)
(* frame without them always does: a glitch costs it two calls, no more,   *)
(* wherever in mova() the fault finds it.                                  *)
TwoClearFrames ==
  [][phase = "frame" /\ phase' = "drive"
       => (samples' = <<0, 0>> <=> MovaCalled)]_vars

(* The scans of the program controller in a frame: one for InputScan(),    *)
(* and one for mova() if it is called and past its first two calls.  So in *)
(* every phase of the counters, which start again independently, and       *)
(* through every stop and restart.                                         *)
ScansPaced ==
  [][phase = "frame" /\ phase' = "drive"
       => mova'.scans = IF samples' = <<0, 0>> /\ resume = "updateEnd"
                        THEN 2 ELSE 1]_vars

(* After a stop MOVA goes through the whole warm-up: a restart finds it at *)
(* the beginning even if the stream or the error count moved it forward    *)
(* while it was stopped.                                                   *)
RestartIsCold ==
  [][old31 = Clearing /\ old31' = NoFault
       => mova'.warmup <= 0]_vars

(* Once no scan finds several confirms the fault goes away and mova() is   *)
(* called again.                                                           *)
Recovers ==
  <>[](~D!SeveralConfirms) => <>[](old31 = NoFault /\ samples = <<0, 0>>)

(* The scan in its frame is the scan by itself, with what it promises.     *)
ScansConfirms == D!Spec
Coupled == D!Coupled
ConfirmedTwice == D!ConfirmedTwice
Settles == D!Settles
=============================================================================
