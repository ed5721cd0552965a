------------------------------- MODULE Genstg -------------------------------
(***************************************************************************)
(* The stage-forcing task of the MOVA kernel, M8.0/kernel/genstg.c.        *)
(*                                                                         *)
(* genstg() is a coroutine: it is called every half second, runs from the  *)
(* re-entry point it stored last time and returns.  Between two calls the  *)
(* rest of the kernel and the wrapper may change everything the task       *)
(* reads: the stage on the street (snow), the controller's ready bit       *)
(* (crb), the demanded stage, and the io flags they share with it.  Those  *)
(* writers are the actions of the last section, enabled at any time.       *)
(*                                                                         *)
(* The contact polarity (stgdem / stgoff) is abstracted: a channel is in   *)
(* "control" when its contact is in the demanding position.                *)
(***************************************************************************)
EXTENDS Integers, FiniteSets, MovaView

CONSTANTS
  NStages,        \* Tcomshr->stages of the loaded dataset
  MaxStages,      \* mxstag, the number of force channels of control[]
  Timeout,        \* gnSTAGE_/gnINTERGREEN_NOT_ENDED_TIMEOUT, in calls
  ErrLimit,       \* error count at which MOVA locks itself out (20)
  MaxByte,        \* largest value of an io flag, a signed char (127)
  ErrVal,         \* the dataset's weight of each error
  Change,         \* change[][]: intergreens in tenths, -1 when forbidden
  MaxIg           \* longest intergreen a read of change[][] may give, in
                  \* calls; a read outside the table may give any up to it

ErrorIds == {"INVALID_STAGE_DEMANDED", "WRONG_STAGE_CONFIRMED",
             "STAGE_NOT_ENDED", "INTERGREEN_NOT_ENDED", "FAULTY_DETECTOR"}

Cells == (0..MaxStages - 1) \X (0..MaxStages - 1)

(* The time allowed for an intergreen, in calls of the task.               *)
Abs(n) == IF n < 0 THEN -n ELSE n
Allowance(tenths) == IF tenths = -1 THEN 0 ELSE Abs(tenths) \div 5

ASSUME GenstgAssumption ==
  /\ NStages \in Nat \ {0} /\ MaxStages \in Nat /\ NStages <= MaxStages
  /\ Timeout \in Nat \ {0}
  /\ ErrLimit \in Nat \ {0} /\ MaxByte \in Nat
  /\ ErrVal \in [ErrorIds -> Nat]
  /\ \A e \in ErrorIds : ErrLimit - 1 + ErrVal[e] <= MaxByte
  /\ MaxIg \in Nat
  /\ \A c \in Cells : Allowance(Change[c]) \in 0..MaxIg

VARIABLES
  resume,             \* g_startPoint, the re-entry point
  wrongStage,         \* wrong_stage_flag
  oldSnow,            \* stage running when the force was put on
  oldDemsta,          \* stage that was forced
  leaving,            \* leaving_stage_counter
  igCount,            \* intergreen_counter
  igTime,             \* nIntergreenTime, in calls
  control,            \* the channels of control[] that are on
  controllerReady,    \* io[CONTROLLER_READY], the task's copy of the CRB
  onControl,          \* io[ON_CONTROL]: 0 off, 1 on, 2 testing of forces
  movaOn,             \* io[MOVA_ON]
  errorCount,         \* io[ERROR_COUNT]
  snow,               \* stage on the street, 0 in an intergreen
  crb,                \* confin[mxconf-1], the controller's ready bit
  demsta              \* the demanded stage

taskVars == <<wrongStage, oldSnow, oldDemsta, leaving, igCount, igTime>>
inputVars == <<snow, crb>>
vars == <<resume, taskVars, control, controllerReady, onControl, movaOn,
          errorCount, inputVars, demsta>>

Stages == 1..NStages
HI == MaxStages + 1
TO == MaxStages + 2
Channels == 1..MaxStages + 2

(* The pattern that forces stage s: its force bit, HI and TO.              *)
ForceOf(s) == {s, HI, TO}

Init ==
  /\ resume = "InitStart"
  /\ wrongStage = 0
  /\ oldSnow = 0 /\ oldDemsta = 0
  /\ leaving = 0 /\ igCount = 0 /\ igTime = 0
  /\ control = {}
  /\ controllerReady = 0 /\ onControl = 0 /\ movaOn = 0 /\ errorCount = 0
  /\ snow = 0 /\ crb = 0 /\ demsta = 0

-----------------------------------------------------------------------------
(* The helpers of genstg().  "oc" is io[ON_CONTROL] at that point of the   *)
(* call.                                                                   *)

Finalize == /\ resume' = "UpdateEnd"
            /\ wrongStage' = 0

(* Mutant of GiveBack: the channels are left on.                           *)
GiveBackLeavesOn == control' = control /\ Finalize

GiveBack == control' = {} /\ Finalize

(* error_handler(): nothing is added or logged once MOVA is locked out;    *)
(* CRB_ON only logs; CRB_OFF goes off control without a weight.            *)
ErrorOutcome(weight) ==
  IF errorCount >= ErrLimit
    THEN onControl' = 0 /\ movaOn' = 0 /\ UNCHANGED errorCount
    ELSE /\ onControl' = 0
         /\ errorCount' = errorCount + weight
         /\ UNCHANGED movaOn

ErrorHandler(id) == ErrorOutcome(ErrVal[id]) /\ GiveBack

(* The table is read at [old_snow][old_demsta] although its rows and       *)
(* columns are numbered from 0; a read past its end gives anything.        *)
IgTimes(from, to) == IF <<from, to>> \in Cells
                       THEN {Allowance(Change[<<from, to>>])}
                       ELSE 0..MaxIg

(* Mutant of WrongStage: the flag is not set, every wrong stage is a first.*)
WrongStageForgiving(count, oc) ==
  /\ leaving' = count - 1
  /\ resume' = "StageEnding"
  /\ onControl' = oc
  /\ UNCHANGED <<wrongStage, control, movaOn, errorCount>>

(* wrong_stage_handler(): a first wrong stage is given one more chance.    *)
WrongStage(count, oc) ==
  \/ /\ wrongStage = 0
     /\ wrongStage' = 1
     /\ leaving' = count - 1
     /\ resume' = "StageEnding"
     /\ onControl' = oc
     /\ UNCHANGED <<control, movaOn, errorCount>>
  \/ /\ wrongStage = 1
     /\ leaving' = count
     /\ ErrorHandler("WRONG_STAGE_CONFIRMED")

(* post_stage_change_checks() when stage "to", forced in stage "from", or  *)
(* the intergreen or still "from" is on the street.                        *)
StageArrived(to) == snow = to /\ Finalize /\ UNCHANGED igTime

IntergreenEntered(from, to) == /\ snow # to /\ snow = 0
                               /\ igTime' \in IgTimes(from, to)
                               /\ resume' = "IntergreenEnding"
                               /\ UNCHANGED wrongStage

StageStillRunning(from, to) == /\ snow # to /\ snow # 0 /\ snow = from
                               /\ resume' = "StageEnding"
                               /\ UNCHANGED <<wrongStage, igTime>>

-----------------------------------------------------------------------------
(* One call of genstg(), entered with io[CONTROLLER_READY] = ready,        *)
(* io[ON_CONTROL] = oc and the demanded stage dem.                         *)

InitStart ==
  /\ resume = "InitStart"
  /\ wrongStage' = 0
  /\ controllerReady' = 0
  /\ resume' = "UpdateEnd"
  /\ UNCHANGED <<oldSnow, oldDemsta, leaving, igCount, igTime, control,
                 movaOn, errorCount>>

(* Mutant of AtUpdateEnd: a call in a wait starts a new round as well.     *)
AtUpdateEndAlways == resume # "InitStart"

AtUpdateEnd == resume = "UpdateEnd"

(* Mutant of Enabled: MOVA switched off is not noticed.                    *)
EnabledUnnoticed(oc) == oc

(* MOVA switched off takes ON_CONTROL with it.                             *)
Enabled(oc) == IF movaOn = 0 THEN 0 ELSE oc

TestingForces(ready, oc) ==
  /\ AtUpdateEnd /\ Enabled(oc) = 2
  /\ Finalize
  /\ onControl' = 2 /\ controllerReady' = ready
  /\ UNCHANGED <<oldSnow, oldDemsta, leaving, igCount, igTime, control,
                 movaOn, errorCount>>

ConsistentCrbs(ready, oc) ==
  /\ AtUpdateEnd /\ Enabled(oc) # 2
  /\ ready = 1 /\ crb = 1
  /\ controllerReady' = ready

InvalidDemand(ready, oc, dem) ==
  /\ ConsistentCrbs(ready, oc)
  /\ dem \notin Stages
  /\ oldSnow' = snow /\ oldDemsta' = dem
  /\ ErrorHandler("INVALID_STAGE_DEMANDED")
  /\ UNCHANGED <<leaving, igCount, igTime>>

OffControl(ready, oc, dem) ==
  /\ ConsistentCrbs(ready, oc)
  /\ dem \in Stages /\ Enabled(oc) = 0
  /\ oldSnow' = snow /\ oldDemsta' = dem
  /\ GiveBack
  /\ onControl' = 0
  /\ UNCHANGED <<leaving, igCount, igTime, movaOn, errorCount>>

ForceStage(ready, oc, dem) ==
  /\ ConsistentCrbs(ready, oc)
  /\ dem \in Stages /\ Enabled(oc) # 0
  /\ oldSnow' = snow /\ oldDemsta' = dem
  /\ control' = ForceOf(dem)
  /\ leaving' = 0 /\ igCount' = 0
  /\ \/ StageArrived(dem)
     \/ IntergreenEntered(snow, dem)
     \/ StageStillRunning(snow, dem)
  /\ onControl' = Enabled(oc)
  /\ UNCHANGED <<movaOn, errorCount>>

(* The task's copy of the ready bit follows the controller's.              *)
InconsistentCrbs(ready, oc) ==
  /\ AtUpdateEnd /\ Enabled(oc) # 2
  /\ ready # crb
  /\ controllerReady' = crb
  /\ GiveBack
  /\ \/ /\ movaOn = 0
        /\ onControl' = 0
        /\ UNCHANGED <<movaOn, errorCount>>
     \/ movaOn # 0 /\ crb = 0 /\ ErrorOutcome(0)
     \/ movaOn # 0 /\ crb = 1 /\ errorCount >= ErrLimit /\ ErrorOutcome(0)
     \/ /\ movaOn # 0 /\ crb = 1 /\ errorCount < ErrLimit
        /\ onControl' = Enabled(oc)
        /\ UNCHANGED <<movaOn, errorCount>>
  /\ UNCHANGED <<oldSnow, oldDemsta, leaving, igCount, igTime>>

OffCrbs(ready, oc) ==
  /\ AtUpdateEnd /\ Enabled(oc) # 2
  /\ ready = 0 /\ crb = 0
  /\ GiveBack
  /\ controllerReady' = ready /\ onControl' = Enabled(oc)
  /\ UNCHANGED <<oldSnow, oldDemsta, leaving, igCount, igTime, movaOn,
                 errorCount>>

(* Mutant of TimedOut: off control, the wait goes on.                      *)
TimedOutGoesOn(id, oc) ==
  \/ /\ oc = 0
     /\ onControl' = oc
     /\ UNCHANGED <<resume, wrongStage, control, movaOn, errorCount>>
  \/ oc # 0 /\ ErrorHandler(id)

(* A wait that ran out of time: an error, unless MOVA is off control.      *)
TimedOut(id, oc) ==
  \/ /\ oc = 0
     /\ GiveBack
     /\ onControl' = oc
     /\ UNCHANGED <<movaOn, errorCount>>
  \/ oc # 0 /\ ErrorHandler(id)

IntergreenEnding(ready, oc) ==
  /\ resume = "IntergreenEnding"
  /\ igCount' = igCount + 1
  /\ controllerReady' = ready
  /\ \/ /\ igCount' <= Timeout + igTime
        /\ \/ /\ snow = oldDemsta /\ Finalize
              /\ onControl' = oc
              /\ UNCHANGED <<leaving, control, movaOn, errorCount>>
           \/ /\ snow \notin {oldDemsta, oldSnow, 0}
              /\ WrongStage(leaving, oc)
           \/ /\ snow # oldDemsta /\ snow \in {oldSnow, 0}
              /\ onControl' = oc
              /\ UNCHANGED <<resume, wrongStage, leaving, control, movaOn,
                             errorCount>>
     \/ /\ igCount' > Timeout + igTime
        /\ TimedOut("INTERGREEN_NOT_ENDED", oc)
        /\ UNCHANGED leaving
  /\ UNCHANGED <<oldSnow, oldDemsta, igTime>>

StageEnding(ready, oc) ==
  /\ resume = "StageEnding"
  /\ controllerReady' = ready
  /\ \/ /\ leaving + 1 <= Timeout
        /\ leaving' = leaving + 1
        /\ \/ StageArrived(oldDemsta)
           \/ IntergreenEntered(oldSnow, oldDemsta)
           \/ StageStillRunning(oldSnow, oldDemsta)
        /\ onControl' = oc
        /\ UNCHANGED <<control, movaOn, errorCount>>
     \/ /\ leaving + 1 <= Timeout
        /\ snow \notin {oldDemsta, oldSnow, 0}
        /\ WrongStage(leaving + 1, oc)
        /\ UNCHANGED igTime
     \/ /\ leaving + 1 > Timeout
        /\ leaving' = leaving + 1
        /\ TimedOut("STAGE_NOT_ENDED", oc)
        /\ UNCHANGED igTime
  /\ UNCHANGED <<oldSnow, oldDemsta, igCount>>

Call(ready, oc, dem) ==
  /\ \/ InitStart /\ onControl' = oc
     \/ TestingForces(ready, oc)
     \/ InvalidDemand(ready, oc, dem)
     \/ OffControl(ready, oc, dem)
     \/ ForceStage(ready, oc, dem)
     \/ InconsistentCrbs(ready, oc)
     \/ OffCrbs(ready, oc)
     \/ IntergreenEnding(ready, oc)
     \/ StageEnding(ready, oc)
  /\ demsta' = dem
  /\ UNCHANGED inputVars

-----------------------------------------------------------------------------
(* The half-second calls: from mova(), or from the wrapper's tick.         *)
GenstgCall == Call(controllerReady, onControl, demsta)

(* Mutant of GSCheck: the error count is not looked at.                    *)
GSCheckUnlocked == crb = 1 /\ snow \in Stages /\ Call(1, movaOn, snow)

(* GS_check_and_update_io_flags(): a green has started and the warmup is   *)
(* over.  The current stage is demanded, ON_CONTROL becomes MOVA_ON, and   *)
(* the task is called "to set the force bits", wherever it was left.       *)
GSCheck ==
  \/ /\ errorCount >= ErrLimit
     /\ movaOn' = 0
     /\ UNCHANGED <<resume, taskVars, control, controllerReady, onControl,
                    errorCount, inputVars, demsta>>
  \/ /\ errorCount < ErrLimit
     /\ crb = 1 /\ snow \in Stages
     /\ Call(1, movaOn, snow)

-----------------------------------------------------------------------------
(* The other writers of the state the task reads.                          *)

(* detscn() confirms another stage, or an intergreen.                      *)
StageConfirm == \E s \in 0..NStages :
  /\ s # snow
  /\ snow' = s
  /\ UNCHANGED <<resume, taskVars, control, controllerReady, onControl,
                 movaOn, errorCount, crb, demsta>>

(* The wrapper copies the controller's ready bit in.                       *)
SetCrbBit ==
  /\ crb' = 1 - crb
  /\ UNCHANGED <<resume, taskVars, control, controllerReady, onControl,
                 movaOn, errorCount, snow, demsta>>

(* handle_junction_stage_changing() demands the next stage; that is        *)
(* mxstag from a reset until a next stage is chosen.                       *)
StageChanging == \E d \in Stages \union {MaxStages} :
  /\ d # demsta
  /\ demsta' = d
  /\ UNCHANGED <<resume, taskVars, control, controllerReady, onControl,
                 movaOn, errorCount, inputVars>>

(* The wrapper writes the operator's MOVA_ON at every tick; any value can  *)
(* be set, and ON_CONTROL inherits it.                                     *)
SetMovaOn == \E v \in 0..2 :
  /\ v # movaOn
  /\ movaOn' = v
  /\ UNCHANGED <<resume, taskVars, control, controllerReady, onControl,
                 errorCount, inputVars, demsta>>

(* Switch_MOVA_Off(): every channel off, and the task is not told.         *)
SwitchMovaOff ==
  /\ onControl' = 0
  /\ control' = {}
  /\ UNCHANGED <<resume, taskVars, controllerReady, movaOn, errorCount,
                 inputVars, demsta>>

(* detscn() finds a detector faulty; the channels are left as they are.    *)
FaultyDetector ==
  /\ errorCount < ErrLimit
  /\ errorCount' = errorCount + ErrVal["FAULTY_DETECTOR"]
  /\ IF errorCount' >= ErrLimit
       THEN onControl' = 0 /\ movaOn' = 0
       ELSE UNCHANGED <<onControl, movaOn>>
  /\ UNCHANGED <<resume, taskVars, control, controllerReady, inputVars,
                 demsta>>

(* The hourly pass: a locked-out MOVA stays off, else an error is forgiven.*)
HandleErrorCount ==
  /\ IF errorCount >= ErrLimit
       THEN onControl' = 0 /\ movaOn' = 0 /\ UNCHANGED errorCount
       ELSE /\ errorCount' = IF errorCount <= 0 THEN 0 ELSE errorCount - 1
            /\ UNCHANGED <<onControl, movaOn>>
  /\ UNCHANGED <<resume, taskVars, control, controllerReady, inputVars,
                 demsta>>

(* The wrapper loads a dataset: three flags are reset, the task is not.    *)
LoadDataset ==
  /\ onControl' = 0 /\ movaOn' = 0 /\ errorCount' = 0
  /\ UNCHANGED <<resume, taskVars, control, controllerReady, inputVars,
                 demsta>>

Next == \/ GenstgCall
        \/ GSCheck
        \/ StageConfirm
        \/ SetCrbBit
        \/ StageChanging
        \/ SetMovaOn
        \/ SwitchMovaOff
        \/ FaultyDetector
        \/ HandleErrorCount
        \/ LoadDataset

Spec == Init /\ [][Next]_vars

-----------------------------------------------------------------------------
Waiting == resume \in {"StageEnding", "IntergreenEnding"}

TypeOK ==
  /\ resume \in {"InitStart", "UpdateEnd", "StageEnding", "IntergreenEnding"}
  /\ wrongStage \in {0, 1}
  /\ oldSnow \in 0..NStages
  /\ oldDemsta \in 0..MaxStages
  /\ leaving \in Int /\ igCount \in Nat /\ igTime \in 0..MaxIg
  /\ control \subseteq Channels
  /\ controllerReady \in {0, 1}
  /\ onControl \in 0..2 /\ movaOn \in 0..2
  /\ errorCount \in 0..MaxByte
  /\ snow \in 0..NStages
  /\ crb \in {0, 1}
  /\ demsta \in 0..MaxStages

(* At most one stage is forced, with HI and TO, and it is a stage of the   *)
(* dataset: whatever the interleaving of the task with the other writers   *)
(* of control[], the channels never show a part of a force or two forces.  *)
OneForce == \/ control = {}
            \/ oldDemsta \in Stages /\ control = ForceOf(oldDemsta)

(* Lock-out: once the errors reach the limit MOVA is off control, and the  *)
(* end of a warmup, a stage change or the operator cannot put it back.     *)
Lockout == errorCount >= ErrLimit => onControl = 0

(* A wait is bounded: neither counter passes its timeout while the task    *)
(* waits, with the wrong-stage grace, the change from one wait to the      *)
(* other and calls from GS_check in any order.                             *)
BoundedWait == Waiting => leaving <= Timeout /\ igCount <= Timeout + MaxIg

(* A force is put on only with MOVA enabled and not locked out and with    *)
(* both copies of the ready bit set; and once a change is being watched    *)
(* its force is never replaced by another, only kept or taken off.         *)
ForceOnlyWhenReady ==
  [][control' \notin {control, {}} =>
       /\ ~Waiting
       /\ movaOn # 0 /\ onControl' # 0 /\ errorCount < ErrLimit
       /\ controllerReady' = 1 /\ crb = 1]_vars

(* Each call of the task uses up some of the wait it is in, or ends it:    *)
(* the grace given to a first wrong stage, which takes the leaving counter *)
(* back and may swap one wait for the other, cannot prolong it for ever.   *)
(* As neither counter passes its timeout, a wait takes a bounded number of *)
(* calls.                                                                  *)
WaitLeft == (Timeout - leaving) + (Timeout + MaxIg - igCount)
              + 2 * (1 - wrongStage)

WaitShrinks == [][GenstgCall /\ Waiting /\ Waiting' => WaitLeft' < WaitLeft]_vars

(* The task implements its promise.  A wait is a change being watched; the *)
(* force is read off the channels.                                         *)
Forced == IF control = {} THEN 0 ELSE oldDemsta

Promise == INSTANCE StageForcing
             WITH forced <- Forced, changing <- Waiting
KeepsPromise == Promise!AbstractSpec

(* What the main loop sees of the task and the channels, and the outcomes  *)
(* by which Monitr calls it: the calls of mova() and of the wrapper, the   *)
(* call at the end of the warmup, and what the other writers may do, which *)
(* is to turn MOVA off with its forces or take it off control without.     *)
View == [onControl |-> IF onControl = 0 THEN 0 ELSE 1,
         forced |-> IF control = {} THEN 0 ELSE 1]

OthersOutcomes(m) == {m, [m EXCEPT !.onControl = 0],
                      [m EXCEPT !.onControl = 0, !.forced = 0]}

SeenByLoop ==
  [][/\ GenstgCall => View' \in GenstgOutcomes(View)
     /\ GSCheck => View' \in GSCheckOutcomes(View)
     /\ View' \in OthersOutcomes(View) \/ GenstgCall \/ GSCheck]_vars
=============================================================================
