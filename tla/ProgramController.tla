-------------------------- MODULE ProgramController --------------------------
(***************************************************************************)
(* The program controller of the MOVA kernel (M8.0/kernel/                 *)
(* program_controller.c) with the parts of the junction handler it drives  *)
(* (junction_handler.c, stages_handler.c, timers_manager.c): the decision  *)
(* when to leave a green.                                                  *)
(*                                                                         *)
(* A scan is one call of program_controller().  It is broken where the     *)
(* code comments break it: block A (the stage and its timers), the warm-up *)
(* check, block B (demands, minima, maxima, emergency and priority),       *)
(* blocks C and D (end of saturation and the optimiser); "block" is the    *)
(* part that is next and nothing else of the kernel runs in between.       *)
(* Between two scans MOVA may be switched off or its warm-up shortened.    *)
(*                                                                         *)
(* Times are counted in scans.  What the traffic decides - which stage has *)
(* a demand, the ends of saturation, the extensions, the optimiser - is a  *)
(* choice.  NextStage has the choice of the stage itself.                  *)
(***************************************************************************)
EXTENDS Integers, MovaView

CONSTANTS
  NStages, MaxStages,   \* the stages of the dataset; mxstag
  MinGreen,             \* absolute minimum green of each stage
  LinkMin, LinkVarMin,  \* longest minimum and variable minimum of a link
  HoldTime,             \* longest emergency or priority hold
  Maxes, Drifts,        \* the maximum greens in force, drift maxima with extra
  DriftGuard,           \* no drift maximum this soon after the minimum (3 s)
  EmergencyExt, PriorityExt,    \* limits of the extensions past the maximum
  GreenTime,            \* the longest of the maxima, minima and holds
  ExtTime,              \* the longest of the limits of extensions
  TimerCap              \* where signal_state_timer stops (300 s)

Stages == 1..NStages

ASSUME ProgramAssumption ==
  /\ NStages \in Nat \ {0} /\ MaxStages \in Nat /\ NStages <= MaxStages
  /\ MinGreen \in [Stages -> Nat \ {0}]
  /\ LinkMin \in Nat /\ LinkVarMin \in Nat /\ HoldTime \in Nat
  /\ Maxes \subseteq Nat /\ Maxes # {} /\ Drifts \subseteq Nat /\ Drifts # {}
  /\ DriftGuard \in Nat
  /\ EmergencyExt \in Nat /\ PriorityExt \in Nat
  /\ TimerCap \in Nat \ {0}

(* Every time of the dataset is below the cap of the timer.                *)
ASSUME TimesAssumption ==
  /\ \A s \in Stages : /\ MinGreen[s] <= GreenTime
                       /\ MinGreen[s] + DriftGuard <= TimerCap
  /\ LinkMin <= GreenTime /\ HoldTime <= GreenTime
  /\ \A m \in Maxes : m <= GreenTime
  /\ EmergencyExt <= ExtTime /\ PriorityExt <= ExtTime
  /\ GreenTime \in Nat /\ ExtTime \in Nat
  /\ GreenTime + ExtTime <= TimerCap

VARIABLES
  block,                  \* the part of the scan that is next
  current, previous,      \* current_stage, previous_stage: 0 in an intergreen
  marker, previousMarker, \* prog.marker, prog.previous_marker
  warmup,                 \* warmup_counter
  signal,                 \* signal_state_timer
  wait,                   \* wait_stage_change_timer
  stageMax,               \* stage_max_green_timer
  extMax,                 \* ep_ext_max_timer
  varMin,                 \* 1 when var_min_green_time is set: the absolute
                          \* minimum is over
  endsat,                 \* endsat_marker of each stage
  next, nextFor,          \* next_stage and the kind of demand it answers
  hold, ext,              \* ep_hold_marker, ep_ext_marker
  demanded                \* demanded_stage

stageVars == <<current, previous>>
timers == <<signal, wait, stageMax, extMax>>
nextVars == <<next, nextFor>>
epVars == <<hold, ext>>
vars == <<block, stageVars, marker, previousMarker, warmup, timers, varMin,
          endsat, nextVars, epVars, demanded>>

Intergreen == 0

StartIntergreen == 0          \* PROG_MARKER_...
ContinuedIntergreen == 1
AbsMin == 2
VarMin == 3
CheckingEndsat == 4
DelayAndStops == 5
DemandingChange == 6
MaxExpired == 7
WaitingChange == 8
EPChange == 9

NotYet == "not yet"           \* STAGE_ENDSAT_NOT_YET and ..._NOT_EXPIRED,
Expired == "expired"          \* which no test tells apart
Reached == "reached"

None == "none"
Emergency == "emergency"
Priority == "priority"
Normal == "normal"

InWarmup == warmup <= NStages

Init ==
  /\ block = "A"
  /\ current = Intergreen /\ previous = Intergreen
  /\ marker = ContinuedIntergreen /\ previousMarker = ContinuedIntergreen
  /\ warmup = -1
  /\ signal = 0 /\ wait = 0 /\ stageMax = 0 /\ extMax = 0
  /\ varMin = 0
  /\ endsat = [s \in Stages |-> NotYet]
  /\ next = MaxStages /\ nextFor = Normal
  /\ hold = None /\ ext = None
  /\ demanded = 0

-----------------------------------------------------------------------------
(* Block A: the stage on the street and where in its green it is.          *)

(* A timer counts scans up to its cap.  The code caps the signal state     *)
(* timer only; of the others nothing past the cap is told apart.           *)
Tick(t) == IF t < TimerCap THEN t + 1 ELSE t

ScanInitialUpdates(s) == previous' = current /\ current' = s

(* handle_junction_end_of_stage_updates(), but for the wait and the        *)
(* minimum, which the rest of the block goes on from.                      *)
EndOfStage ==
  /\ endsat' = [s \in Stages |-> NotYet]
  /\ stageMax' = 0 /\ extMax' = 0

SameStage == UNCHANGED <<endsat, stageMax, extMax>>

EndGreen ==
  /\ block = "A" /\ current # Intergreen
  /\ ScanInitialUpdates(Intergreen)
  /\ EndOfStage
  /\ signal' = 1 /\ wait' = 0 /\ varMin' = 0
  /\ marker' = StartIntergreen
  /\ block' = "warm-up"
  /\ UNCHANGED <<previousMarker, warmup, nextVars, epVars, demanded>>

ContinueIntergreen ==
  /\ block = "A" /\ current = Intergreen
  /\ ScanInitialUpdates(Intergreen)
  /\ SameStage
  /\ signal' = Tick(signal)
  /\ marker' = ContinuedIntergreen
  /\ block' = "warm-up"
  /\ UNCHANGED <<wait, varMin, previousMarker, warmup, nextVars, epVars, demanded>>

(* Mutant of GreenMarker: the minimum is over a scan early.                *)
GreenMarkerEarly(s, waiting, min, time) ==
  \/ waiting # 0
     /\ wait' = waiting + 1 /\ varMin' = min /\ marker' = WaitingChange
  \/ waiting = 0 /\ wait' = 0
     /\ \/ min = 1 /\ varMin' = 1 /\ marker' = VarMin
        \/ min = 0 /\ time + 1 < MinGreen[s] /\ varMin' = 0 /\ marker' = AbsMin
        \/ min = 0 /\ time + 1 >= MinGreen[s] /\ varMin' = 1 /\ marker' = VarMin

(* update_prog_marker_at_green_stage() with what it calls next: what the   *)
(* scan of a green goes on with depends on whether a change is awaited     *)
(* and on how far the minimum green is.                                    *)
GreenMarker(s, waiting, min, time) ==
  \/ waiting # 0
     /\ wait' = waiting + 1 /\ varMin' = min /\ marker' = WaitingChange
  \/ waiting = 0 /\ wait' = 0
     /\ \/ min = 1 /\ varMin' = 1 /\ marker' = VarMin
        \/ min = 0 /\ time < MinGreen[s] /\ varMin' = 0 /\ marker' = AbsMin
        \/ min = 0 /\ time >= MinGreen[s] /\ varMin' = 1 /\ marker' = VarMin

(* A green goes on, or starts after an intergreen.                         *)
Green(s) ==
  /\ block = "A" /\ current \in {Intergreen, s}
  /\ ScanInitialUpdates(s)
  /\ SameStage
  /\ signal' = IF current = s THEN Tick(signal) ELSE 1
  /\ GreenMarker(s, wait, varMin, signal')
  /\ block' = "warm-up"
  /\ UNCHANGED <<previousMarker, warmup, nextVars, epVars, demanded>>

(* "Stage change with no intergreen"                                       *)
ChangeWithoutIntergreen(s) ==
  /\ block = "A" /\ current \notin {Intergreen, s}
  /\ ScanInitialUpdates(s)
  /\ EndOfStage
  /\ signal' = 1
  /\ GreenMarker(s, 0, 0, 1)
  /\ block' = "warm-up"
  /\ UNCHANGED <<previousMarker, warmup, nextVars, epVars, demanded>>

-----------------------------------------------------------------------------
(* The warm-up check and the part of the scan it leads to.                 *)

(* Mutant of StartOfGreen: only after an intergreen of one scan.           *)
StartOfGreenShort == marker > ContinuedIntergreen
                     /\ previousMarker = StartIntergreen

(* The scan before found an intergreen, this one does not.                 *)
StartOfGreen == marker > ContinuedIntergreen
                /\ previousMarker <= ContinuedIntergreen

AfterWarmupCheck == IF marker >= CheckingEndsat THEN "change"
                    ELSE IF marker > ContinuedIntergreen THEN "B" ELSE "C"

(* GS_check_and_update_io_flags() as far as it concerns the junction: with *)
(* the controller ready and few errors the stage on the street is demanded.*)
GSCheck == demanded' \in {demanded, current}

(* warmup_check(): each start of green is counted, up to the end of the    *)
(* warm-up.                                                                *)
WarmupCheck ==
  /\ block = "warm-up"
  /\ warmup' = IF InWarmup /\ StartOfGreen THEN warmup + 1 ELSE warmup
  /\ IF warmup' # warmup /\ warmup' > NStages THEN GSCheck ELSE UNCHANGED demanded
  /\ block' = AfterWarmupCheck
  /\ UNCHANGED <<stageVars, marker, previousMarker, timers, varMin, endsat,
                 nextVars, epVars>>

(* change_stage() at the end of a scan.                                    *)
ChangeStage ==
  /\ block = "change"
  /\ demanded' = next /\ wait' = 1
  /\ previousMarker' = marker
  /\ block' = "A"
  /\ UNCHANGED <<stageVars, marker, warmup, signal, stageMax, extMax, varMin,
                 endsat, nextVars, epVars>>

-----------------------------------------------------------------------------
(* Block B: demands, minima and maxima, emergency and priority.            *)

(* decide_next_stage() found none.                                         *)
NoDemand ==
  /\ block = "B"
  /\ nextFor' = Normal /\ block' = "C"
  /\ UNCHANGED <<stageVars, marker, previousMarker, warmup, timers, varMin,
                 endsat, next, epVars, demanded>>

(* A stage is demanded; the time towards its maximum is counted, and in    *)
(* the absolute minimum that is all.                                       *)
NextStage(s, kind) ==
  /\ block = "B" /\ s # current
  /\ next' = s /\ nextFor' = kind
  /\ stageMax' = Tick(stageMax)
  /\ block' = IF varMin = 0 THEN "C" ELSE "minimum"
  /\ UNCHANGED <<stageVars, marker, previousMarker, warmup, signal, wait,
                 extMax, varMin, endsat, epVars, demanded>>

(* The end of handle_junction_next_stage_updates(): the minima of the      *)
(* links that lose their green and the holds on them.  They are over for   *)
(* good once they have been found over for a change to this stage.         *)
MinimaOver ==
  /\ block = "minimum" /\ endsat[next] # NotYet
  /\ hold' = None
  /\ marker' = CheckingEndsat
  /\ block' = "maximum"
  /\ UNCHANGED <<stageVars, previousMarker, warmup, timers, varMin, endsat,
                 nextVars, ext, demanded>>

Holds == IF signal < HoldTime THEN {None, Emergency, Priority} ELSE {None}

(* update_next_stage_endsat_marker_part1()                                 *)
LinkMinimum ==
  /\ block = "minimum" /\ endsat[next] = NotYet
  /\ signal < LinkMin
  /\ hold' \in Holds
  /\ block' = "C"
  /\ UNCHANGED <<stageVars, marker, previousMarker, warmup, timers, varMin,
                 endsat, nextVars, ext, demanded>>

LinkHeld ==
  /\ block = "minimum" /\ endsat[next] = NotYet
  /\ hold' \in Holds
  /\ hold' # None \/ signal < LinkVarMin
  /\ block' = "maximum"
  /\ UNCHANGED <<stageVars, marker, previousMarker, warmup, timers, varMin,
                 endsat, nextVars, ext, demanded>>

LinksFree ==
  /\ block = "minimum" /\ endsat[next] = NotYet
  /\ hold' = None
  /\ endsat' = [endsat EXCEPT ![next] = Expired]
  /\ marker' = CheckingEndsat
  /\ block' = "maximum"
  /\ UNCHANGED <<stageVars, previousMarker, warmup, timers, varMin, nextVars,
                 ext, demanded>>

(* is_junction_max_green_expired()                                         *)
MaxGreenMayExpire ==
  \/ \E m \in Maxes : stageMax >= m
  \/ /\ marker >= CheckingEndsat \/ signal >= MinGreen[current] + DriftGuard
     /\ \E d \in Drifts : stageMax >= d

MaxGreenMustExpire == \A m \in Maxes : stageMax >= m

(* An extension may go on, "timers.ep_ext_max_timer" and its limit allow.  *)
Extends(present, limit, expired) ==
  present /\ (expired => extMax' < limit)

(* Mutant of Kept: priority is looked at before an emergency demand.       *)
KeptAll(e, p, expired) ==
  \/ hold # None /\ ext' = None
  \/ hold # Emergency /\ Extends(e, EmergencyExt, expired) /\ ext' = Emergency
  \/ /\ hold = None /\ ~Extends(e, EmergencyExt, expired)
     /\ Extends(p, PriorityExt, expired) /\ ext' = Priority

(* What keeps the green: a hold, an extension and, unless an emergency     *)
(* stage is to follow, those of priority vehicles.                         *)
Kept(e, p, expired) ==
  \/ hold = Emergency /\ ext' = None
  \/ hold # Emergency /\ Extends(e, EmergencyExt, expired) /\ ext' = Emergency
  \/ /\ hold = Priority /\ ~Extends(e, EmergencyExt, expired)
     /\ nextFor # Emergency /\ ext' = None
  \/ /\ hold = None /\ ~Extends(e, EmergencyExt, expired)
     /\ nextFor # Emergency
     /\ Extends(p, PriorityExt, expired) /\ ext' = Priority

NotKept(e, p, expired) ==
  /\ hold # Emergency /\ ~Extends(e, EmergencyExt, expired)
  /\ \/ nextFor = Emergency
     \/ hold = None /\ ~Extends(p, PriorityExt, expired)
  /\ ext' = None

(* Mutant of ExtensionTime: the time past the maximum is not limited.      *)
ExtensionTimeLost(present, expired) == extMax

ExtensionTime(present, expired) ==
  IF expired /\ present THEN Tick(extMax) ELSE extMax

(* The expiry of the maximum green, and                                    *)
(* handle_junction_ep_timers_and_markers_updates() with the extensions     *)
(* e and p that are running: whether the green is kept, ends for its       *)
(* maximum, is cut for an emergency or priority stage, or goes on.         *)
Maximum(expired, e, p, truncate) ==
  /\ block = "maximum"
  /\ IF expired THEN MaxGreenMayExpire ELSE ~MaxGreenMustExpire
  /\ extMax' = ExtensionTime(e \/ p, expired)
  /\ \/ Kept(e, p, expired) /\ UNCHANGED marker
     \/ /\ NotKept(e, p, expired)
        /\ marker' = IF nextFor = Emergency \/ (nextFor = Priority /\ truncate)
                       THEN EPChange
                     ELSE IF expired THEN MaxExpired ELSE marker
  /\ block' = "C"
  /\ UNCHANGED <<stageVars, previousMarker, warmup, signal, wait, stageMax,
                 varMin, endsat, nextVars, hold, demanded>>

-----------------------------------------------------------------------------
(* Blocks C and D: the end of saturation and the optimiser.                *)

EndScan(m) == marker' = m /\ previousMarker' = m /\ block' = "A"

(* "Skip rest of program during warmup"                                    *)
SkipInWarmup ==
  /\ block = "C" /\ InWarmup
  /\ EndScan(marker)
  /\ UNCHANGED <<stageVars, warmup, timers, varMin, endsat, nextVars,
                 epVars, demanded>>

(* The maximum has expired or an emergency or priority stage is to follow. *)
Cut ==
  /\ block = "C" /\ ~InWarmup
  /\ marker \in {MaxExpired, EPChange}
  /\ block' = "change"
  /\ UNCHANGED <<stageVars, marker, previousMarker, warmup, timers, varMin,
                 endsat, nextVars, epVars, demanded>>

(* An intergreen or a minimum green: nothing more to decide.               *)
EndEarly ==
  /\ block = "C" /\ ~InWarmup /\ marker < CheckingEndsat
  /\ EndScan(marker)
  /\ UNCHANGED <<stageVars, warmup, timers, varMin, endsat, nextVars,
                 epVars, demanded>>

(* handle_junction_endsat_checking(): some link is still saturated.        *)
StillSaturated ==
  /\ block = "C" /\ ~InWarmup /\ marker = CheckingEndsat
  /\ endsat[next] # Reached
  /\ EndScan(marker)
  /\ UNCHANGED <<stageVars, warmup, timers, varMin, endsat, nextVars,
                 epVars, demanded>>

Held == hold # None \/ ext # None

(* Every link has reached the end of its saturation: an extension still    *)
(* keeps the green; much oversaturation ends it at once; a platoon sends   *)
(* the program back to look for the end of saturation; otherwise the       *)
(* optimiser decides.                                                      *)
EndOfSaturation(decision) ==
  /\ block = "C" /\ ~InWarmup /\ marker = CheckingEndsat
  /\ endsat' = [endsat EXCEPT ![next] = Reached]
  /\ \/ /\ Held
        /\ EndScan(DelayAndStops)
     \/ /\ ~Held /\ decision = "oversaturated"
        /\ marker' = DelayAndStops /\ block' = "change"
        /\ UNCHANGED previousMarker
     \/ /\ ~Held /\ decision = "platoon"
        /\ EndScan(CheckingEndsat)
     \/ /\ ~Held /\ decision = "continue"
        /\ EndScan(DelayAndStops)
     \/ /\ ~Held /\ decision = "change"
        /\ marker' = DemandingChange /\ block' = "change"
        /\ UNCHANGED previousMarker
  /\ UNCHANGED <<stageVars, warmup, timers, varMin, nextVars, epVars, demanded>>

-----------------------------------------------------------------------------
(* Mutant of SwitchOff: the warm-up is not repeated.                       *)
SwitchOffWarm ==
  /\ block = "A"
  /\ current' = Intergreen
  /\ next' = MaxStages
  /\ previousMarker' = ContinuedIntergreen
  /\ UNCHANGED <<block, previous, marker, warmup, timers, varMin, endsat,
                 nextFor, epVars, demanded>>

(* Switch_MOVA_Off() and the restart of monitr(): the warm-up starts again *)
(* without a word to the timers or the stage demanded.                     *)
SwitchOff ==
  /\ block = "A"
  /\ warmup' = -1
  /\ current' = Intergreen
  /\ next' = MaxStages
  /\ previousMarker' = ContinuedIntergreen
  /\ UNCHANGED <<block, previous, marker, timers, varMin, endsat, nextFor,
                 epVars, demanded>>

(* handle_error_count() and the stream when the controller is ready again: *)
(* one more start of green.                                                *)
WarmupAgain ==
  /\ block = "A" /\ ~InWarmup
  /\ warmup' = NStages
  /\ UNCHANGED <<block, stageVars, marker, previousMarker, timers, varMin,
                 endsat, nextVars, epVars, demanded>>

BlockA == \/ EndGreen \/ ContinueIntergreen
          \/ \E s \in Stages : Green(s) \/ ChangeWithoutIntergreen(s)
BlockB == \/ NoDemand
          \/ \E s \in Stages, kind \in {Emergency, Priority, Normal} :
               NextStage(s, kind)
          \/ MinimaOver \/ LinkMinimum \/ LinkHeld \/ LinksFree
          \/ \E expired, e, p, truncate \in BOOLEAN :
               Maximum(expired, e, p, truncate)
Decisions == {"oversaturated", "platoon", "continue", "change"}
BlocksCD == \/ SkipInWarmup \/ Cut \/ EndEarly \/ StillSaturated
            \/ \E decision \in Decisions : EndOfSaturation(decision)

Scan == BlockA \/ WarmupCheck \/ BlockB \/ BlocksCD \/ ChangeStage
Next == Scan \/ SwitchOff \/ WarmupAgain

Spec == Init /\ [][Next]_vars

-----------------------------------------------------------------------------
TypeOK ==
  /\ block \in {"A", "warm-up", "B", "minimum", "maximum", "C", "change"}
  /\ current \in 0..NStages /\ previous \in 0..NStages
  /\ marker \in 0..9 /\ previousMarker \in 0..9
  /\ warmup \in -1..NStages + 1
  /\ signal \in 0..TimerCap /\ wait \in 0..2
  /\ stageMax \in 0..TimerCap /\ extMax \in 0..TimerCap
  /\ varMin \in {0, 1}
  /\ endsat \in [Stages -> {NotYet, Expired, Reached}]
  /\ next \in Stages \union {MaxStages}
  /\ nextFor \in {Emergency, Priority, Normal}
  /\ hold \in {None, Emergency, Priority} /\ ext \in {None, Emergency, Priority}
  /\ demanded \in 0..NStages \union {MaxStages}

(* Once warm, a change is only awaited in a green that has had its         *)
(* absolute minimum, and to another stage than the one that is green:      *)
(* whatever was awaited when MOVA was switched off is forgotten before the *)
(* warm-up is over.                                                        *)
WaitsAfterMinimum ==
  ~InWarmup /\ wait # 0 =>
    /\ current # Intergreen
    /\ signal >= MinGreen[current]
    /\ block # "A" \/ demanded \in Stages \ {current}

(* Once warm, a green is not kept for ever from a stage that is demanded:  *)
(* whatever the extensions, holds and kinds of demand that alternate, the  *)
(* time with a demand stays within the maximum green, or the last minimum  *)
(* or hold if later, and the longest extension.                            *)
GreenBounded == ~InWarmup => stageMax <= GreenTime + ExtTime

(* Once warm, an awaited change stands: it is neither withdrawn nor        *)
(* replaced while the stage it is to end is green.                         *)
ChangeStands ==
  [][~InWarmup' /\ wait # 0 /\ wait' # 0 => demanded' = demanded]_vars

(* With the minima over, only an emergency vehicle of its own keeps a      *)
(* green from an emergency stage: at the end of a scan that did not demand *)
(* the change an emergency extension is running.                           *)
EmergencyCuts ==
  ~InWarmup /\ block = "A" /\ nextFor = Emergency
    /\ marker \in {CheckingEndsat, DelayAndStops, MaxExpired} /\ wait = 0
      => ext = Emergency

(* What the main loop sees of the scans, and the operator by which Monitr  *)
(* makes them: whatever the markers went through, a scan counts a start of *)
(* green exactly when the last scan found an intergreen and this one does  *)
(* not, and nothing else but a switch-off and its like moves the warm-up.  *)
Seen == [warmup |-> warmup,
         green |-> IF (IF block = "warm-up" THEN previous ELSE current) = Intergreen
                     THEN 0 ELSE 1]

CountsForLoop ==
  [][IF block = "warm-up"
       THEN Seen' = Counted(Seen, current, NStages)
       ELSE Seen' \in {Seen, [Seen EXCEPT !.warmup = NStages],
                       [warmup |-> -1, green |-> 0]}]_vars

=============================================================================
