---------------------------- MODULE GenstgProofs ----------------------------
(* Proofs about the stage-forcing task, for every value of its constants.  *)
(* The lemmas treat one call of the task with the flags as parameters, so  *)
(* that the half-second calls and the call made by GS_check are two uses   *)
(* of the same lemma.                                                      *)
EXTENDS Genstg, TLAPS

(* A read of change[][], in or out of the table, gives an allowance.       *)
LEMMA IgTimesBounded ==
  ASSUME NEW from, NEW to
  PROVE  IgTimes(from, to) \subseteq 0..MaxIg
BY GenstgAssumption DEF IgTimes

(* One call keeps the types, whatever values it is entered with.           *)
LEMMA CallType ==
  ASSUME TypeOK, NEW ready \in {0, 1}, NEW oc \in 0..2,
         NEW dem \in 0..MaxStages, Call(ready, oc, dem)
  PROVE  TypeOK'
<1>0. /\ demsta' \in 0..MaxStages
      /\ snow' \in 0..NStages /\ crb' \in {0, 1}
  BY DEF Call, TypeOK, inputVars
<1>1. CASE InitStart /\ onControl' = oc
  BY <1>0, <1>1 DEF InitStart, TypeOK
<1>2. CASE TestingForces(ready, oc)
  BY <1>0, <1>2 DEF TestingForces, Finalize, TypeOK
<1>3. CASE InvalidDemand(ready, oc, dem)
  BY <1>0, <1>3, GenstgAssumption
     DEF InvalidDemand, ConsistentCrbs, ErrorHandler, ErrorOutcome, GiveBack,
         Finalize, ErrorIds, TypeOK
<1>4. CASE OffControl(ready, oc, dem)
  BY <1>0, <1>4 DEF OffControl, ConsistentCrbs, GiveBack, Finalize, TypeOK
<1>5. CASE ForceStage(ready, oc, dem)
  <2>1. control' \subseteq Channels
    BY <1>5, GenstgAssumption
       DEF ForceStage, ForceOf, HI, TO, Channels, Stages
  <2>2. igTime' \in 0..MaxIg
    BY <1>5, IgTimesBounded
       DEF ForceStage, StageArrived, IntergreenEntered, StageStillRunning,
           TypeOK
  <2>. QED
    BY <1>0, <1>5, <2>1, <2>2
       DEF ForceStage, ConsistentCrbs, StageArrived, IntergreenEntered,
           StageStillRunning, Finalize, Enabled, TypeOK
<1>6. CASE InconsistentCrbs(ready, oc)
  BY <1>0, <1>6
     DEF InconsistentCrbs, ErrorOutcome, GiveBack, Finalize, Enabled, TypeOK
<1>7. CASE OffCrbs(ready, oc)
  BY <1>0, <1>7 DEF OffCrbs, GiveBack, Finalize, Enabled, TypeOK
<1>8. CASE IntergreenEnding(ready, oc)
  BY <1>0, <1>8, GenstgAssumption
     DEF IntergreenEnding, WrongStage, TimedOut, ErrorHandler, ErrorOutcome,
         GiveBack, Finalize, ErrorIds, TypeOK
<1>9. CASE StageEnding(ready, oc)
  <2>1. igTime' \in 0..MaxIg
    BY <1>9, IgTimesBounded
       DEF StageEnding, StageArrived, IntergreenEntered, StageStillRunning,
           TypeOK
  <2>. QED
    BY <1>0, <1>9, <2>1, GenstgAssumption
       DEF StageEnding, StageArrived, IntergreenEntered, StageStillRunning,
           WrongStage, TimedOut, ErrorHandler, ErrorOutcome, GiveBack,
           Finalize, ErrorIds, TypeOK
<1>. QED
  BY <1>1, <1>2, <1>3, <1>4, <1>5, <1>6, <1>7, <1>8, <1>9 DEF Call

(* The state variables always have their types: in particular the error    *)
(* count never leaves the signed char the kernel keeps it in.              *)
THEOREM TypeCorrect == Spec => []TypeOK
<1>1. Init => TypeOK
  BY GenstgAssumption DEF Init, TypeOK
<1>2. TypeOK /\ [Next]_vars => TypeOK'
  <2>. SUFFICES ASSUME TypeOK, [Next]_vars PROVE TypeOK'
    OBVIOUS
  <2>1. CASE GenstgCall
    BY <2>1, CallType DEF GenstgCall, TypeOK
  <2>2. CASE GSCheck
    <3>1. CASE errorCount >= ErrLimit /\ movaOn' = 0
               /\ UNCHANGED <<resume, taskVars, control, controllerReady,
                              onControl, errorCount, inputVars, demsta>>
      BY <3>1 DEF TypeOK, taskVars, inputVars
    <3>2. CASE snow \in Stages /\ Call(1, movaOn, snow)
      <4>1. snow \in 0..MaxStages /\ movaOn \in 0..2
        BY GenstgAssumption DEF TypeOK
      <4>. QED
        BY <3>2, <4>1, CallType
    <3>. QED
      BY <2>2, <3>1, <3>2 DEF GSCheck
  <2>3. CASE StageConfirm
    BY <2>3 DEF StageConfirm, TypeOK, taskVars
  <2>4. CASE SetCrbBit
    BY <2>4 DEF SetCrbBit, TypeOK, taskVars
  <2>5. CASE StageChanging
    BY <2>5, GenstgAssumption
       DEF StageChanging, Stages, TypeOK, taskVars, inputVars
  <2>6. CASE SetMovaOn
    BY <2>6 DEF SetMovaOn, TypeOK, taskVars, inputVars
  <2>7. CASE SwitchMovaOff
    BY <2>7 DEF SwitchMovaOff, TypeOK, taskVars, inputVars
  <2>8. CASE FaultyDetector
    BY <2>8, GenstgAssumption
       DEF FaultyDetector, ErrorIds, TypeOK, taskVars, inputVars
  <2>9. CASE HandleErrorCount
    BY <2>9, GenstgAssumption DEF HandleErrorCount, TypeOK, taskVars, inputVars
  <2>10. CASE LoadDataset
    BY <2>10, GenstgAssumption DEF LoadDataset, TypeOK, taskVars, inputVars
  <2>11. CASE UNCHANGED vars
    BY <2>11 DEF vars, TypeOK, taskVars, inputVars
  <2>. QED
    BY <2>1, <2>2, <2>3, <2>4, <2>5, <2>6, <2>7, <2>8, <2>9, <2>10, <2>11
       DEF Next
<1>. QED
  BY <1>1, <1>2, PTL DEF Spec

-----------------------------------------------------------------------------
(* The three safety invariants are inductive together with the types.  A   *)
(* call keeps them if it is entered off control whenever MOVA is locked    *)
(* out, which is what Lockout gives the half-second calls and the guard of *)
(* GS_check gives its own.                                                 *)
Safe == OneForce /\ Lockout /\ BoundedWait

LEMMA CallSafe ==
  ASSUME TypeOK, Safe, NEW ready \in {0, 1}, NEW oc \in 0..2,
         NEW dem \in 0..MaxStages, errorCount >= ErrLimit => oc = 0,
         Call(ready, oc, dem)
  PROVE  Safe'
<1>1. CASE InitStart /\ onControl' = oc
  BY <1>1 DEF InitStart, Safe, OneForce, Lockout, BoundedWait, Waiting, ForceOf, HI, TO
<1>2. CASE TestingForces(ready, oc)
  BY <1>2 DEF TestingForces, Finalize, Enabled, Safe, OneForce, Lockout,
              BoundedWait, Waiting, ForceOf, HI, TO
<1>3. CASE InvalidDemand(ready, oc, dem)
  BY <1>3 DEF InvalidDemand, ErrorHandler, ErrorOutcome, GiveBack, Finalize,
              Safe, OneForce, Lockout, BoundedWait, Waiting
<1>4. CASE OffControl(ready, oc, dem)
  BY <1>4 DEF OffControl, GiveBack, Finalize, Safe, OneForce, Lockout,
              BoundedWait, Waiting
<1>5. CASE ForceStage(ready, oc, dem)
  BY <1>5, GenstgAssumption
     DEF ForceStage, StageArrived, IntergreenEntered, StageStillRunning,
         ConsistentCrbs, Finalize, Enabled, ForceOf, HI, TO, TypeOK, Safe,
         OneForce, Lockout, BoundedWait, Waiting
<1>6. CASE InconsistentCrbs(ready, oc)
  BY <1>6 DEF InconsistentCrbs, ErrorOutcome, GiveBack, Finalize, Enabled,
              TypeOK, Safe, OneForce, Lockout, BoundedWait, Waiting
<1>7. CASE OffCrbs(ready, oc)
  BY <1>7 DEF OffCrbs, GiveBack, Finalize, Enabled, Safe, OneForce, Lockout,
              BoundedWait, Waiting
<1>8. CASE IntergreenEnding(ready, oc)
  <2>1. OneForce'
    BY <1>8 DEF IntergreenEnding, WrongStage, TimedOut, ErrorHandler,
                GiveBack, Safe, OneForce, ForceOf, HI, TO
  <2>2. Lockout'
    BY <1>8 DEF IntergreenEnding, WrongStage, TimedOut, ErrorHandler,
                ErrorOutcome, Lockout
  <2>3. BoundedWait'
    BY <1>8, GenstgAssumption
       DEF IntergreenEnding, WrongStage, TimedOut, ErrorHandler, GiveBack,
           Finalize, TypeOK, Safe, BoundedWait, Waiting
  <2>. QED
    BY <2>1, <2>2, <2>3 DEF Safe
<1>9. CASE StageEnding(ready, oc)
  <2>1. OneForce'
    BY <1>9 DEF StageEnding, WrongStage, TimedOut, ErrorHandler, GiveBack,
                Safe, OneForce, ForceOf, HI, TO
  <2>2. Lockout'
    BY <1>9 DEF StageEnding, WrongStage, TimedOut, ErrorHandler,
                ErrorOutcome, Lockout
  <2>3. BoundedWait'
    BY <1>9, GenstgAssumption
       DEF StageEnding, StageArrived, IntergreenEntered, StageStillRunning,
           WrongStage, TimedOut, ErrorHandler, GiveBack, Finalize, TypeOK,
           Safe, BoundedWait, Waiting
  <2>. QED
    BY <2>1, <2>2, <2>3 DEF Safe
<1>. QED
  BY <1>1, <1>2, <1>3, <1>4, <1>5, <1>6, <1>7, <1>8, <1>9 DEF Call

(* Every step of the kernel keeps them.                                    *)
LEMMA NextSafe == TypeOK /\ Safe /\ [Next]_vars => Safe'
<1>. SUFFICES ASSUME TypeOK, Safe, [Next]_vars PROVE Safe'
  OBVIOUS
<1>. USE DEF Safe, OneForce, Lockout, BoundedWait, Waiting, ForceOf, HI, TO,
             taskVars, inputVars
<1>1. CASE GenstgCall
  BY <1>1, CallSafe DEF GenstgCall, TypeOK
<1>2. CASE GSCheck
  <2>1. CASE snow \in Stages /\ errorCount < ErrLimit /\ Call(1, movaOn, snow)
    <3>1. snow \in 0..MaxStages /\ movaOn \in 0..2
      BY GenstgAssumption DEF TypeOK
    <3>2. ~(errorCount >= ErrLimit)
      BY <2>1, GenstgAssumption DEF TypeOK
    <3>. QED
      BY <2>1, <3>1, <3>2, CallSafe
  <2>. QED
    BY <1>2, <2>1 DEF GSCheck
<1>3. CASE StageConfirm
  BY <1>3 DEF StageConfirm
<1>4. CASE SetCrbBit
  BY <1>4 DEF SetCrbBit
<1>5. CASE StageChanging
  BY <1>5 DEF StageChanging
<1>6. CASE SetMovaOn
  BY <1>6 DEF SetMovaOn
<1>7. CASE SwitchMovaOff
  BY <1>7 DEF SwitchMovaOff
<1>8. CASE FaultyDetector
  BY <1>8 DEF FaultyDetector
<1>9. CASE HandleErrorCount
  BY <1>9, GenstgAssumption DEF HandleErrorCount, TypeOK
<1>10. CASE LoadDataset
  BY <1>10, GenstgAssumption DEF LoadDataset
<1>11. CASE UNCHANGED vars
  BY <1>11 DEF vars
<1>. QED
  BY <1>1, <1>2, <1>3, <1>4, <1>5, <1>6, <1>7, <1>8, <1>9, <1>10, <1>11
     DEF Next

LEMMA SafeInvariant == Spec => []Safe
<1>1. Init => Safe
  BY GenstgAssumption DEF Init, Safe, OneForce, Lockout, BoundedWait, Waiting
<1>. QED
  BY <1>1, NextSafe, TypeCorrect, PTL DEF Spec

(* The channels never show two forces, or a part of one, whichever of the  *)
(* writers of control[] acts between two calls of the task.                *)
THEOREM OneForceHolds == Spec => []OneForce
BY SafeInvariant, PTL DEF Safe

(* No order of errors, warmups, commands and stage changes leaves MOVA on  *)
(* control with the error count at its limit.                              *)
THEOREM LockoutHolds == Spec => []Lockout
BY SafeInvariant, PTL DEF Safe

(* Neither counter passes its timeout while the task waits.                *)
THEOREM BoundedWaitHolds == Spec => []BoundedWait
BY SafeInvariant, PTL DEF Safe

-----------------------------------------------------------------------------
(* Only ForceStage puts channels on, and it asks for both ready bits, for  *)
(* MOVA enabled and, being on control, for an error count below the limit. *)
LEMMA CallForces ==
  ASSUME TypeOK, Safe, NEW ready \in {0, 1}, NEW oc \in 0..2,
         NEW dem \in 0..MaxStages, errorCount >= ErrLimit => oc = 0,
         Call(ready, oc, dem), control' \notin {control, {}}
  PROVE  /\ ~Waiting
         /\ movaOn # 0 /\ onControl' # 0 /\ errorCount < ErrLimit
         /\ controllerReady' = 1 /\ crb = 1
<1>1. ForceStage(ready, oc, dem)
  BY DEF Call, InitStart, TestingForces, InvalidDemand, OffControl,
         InconsistentCrbs, OffCrbs, IntergreenEnding, StageEnding, WrongStage,
         TimedOut, ErrorHandler, GiveBack
<1>. QED
  BY <1>1, GenstgAssumption
     DEF ForceStage, ConsistentCrbs, AtUpdateEnd, Enabled, Waiting, TypeOK

(* A force is put on only by a call that finds MOVA enabled, not locked    *)
(* out and ready on both sides, and never in the middle of a wait.         *)
THEOREM ForcesOnlyWhenReady == Spec => ForceOnlyWhenReady
<1>. DEFINE Right == control' \notin {control, {}} =>
                       /\ ~Waiting
                       /\ movaOn # 0 /\ onControl' # 0
                       /\ errorCount < ErrLimit
                       /\ controllerReady' = 1 /\ crb = 1
<1>1. TypeOK /\ Safe /\ [Next]_vars => [Right]_vars
  <2>. SUFFICES ASSUME TypeOK, Safe, Next, control' \notin {control, {}}
                PROVE  Right
    BY DEF vars
  <2>1. CASE GenstgCall
    BY <2>1, CallForces DEF GenstgCall, TypeOK, Safe, Lockout
  <2>2. CASE GSCheck
    <3>1. errorCount < ErrLimit /\ snow \in Stages /\ Call(1, movaOn, snow)
      BY <2>2 DEF GSCheck
    <3>2. snow \in 0..MaxStages /\ movaOn \in 0..2
      BY GenstgAssumption DEF TypeOK
    <3>3. ~(errorCount >= ErrLimit)
      BY <3>1, GenstgAssumption DEF TypeOK
    <3>. QED
      BY <3>1, <3>2, <3>3, CallForces
  <2>3. CASE \/ StageConfirm \/ SetCrbBit \/ StageChanging \/ SetMovaOn
             \/ SwitchMovaOff \/ FaultyDetector \/ HandleErrorCount
             \/ LoadDataset
    BY <2>3 DEF StageConfirm, SetCrbBit, StageChanging, SetMovaOn,
                SwitchMovaOff, FaultyDetector, HandleErrorCount, LoadDataset
  <2>. QED
    BY <2>1, <2>2, <2>3 DEF Next
<1>. QED
  BY <1>1, TypeCorrect, SafeInvariant, PTL DEF Spec, ForceOnlyWhenReady

(* The measure of a wait goes down with every call that does not end it.   *)
THEOREM WaitsShrink == Spec => WaitShrinks
<1>. DEFINE Less == GenstgCall /\ Waiting /\ Waiting' => WaitLeft' < WaitLeft
<1>1. TypeOK /\ TypeOK' /\ [Next]_vars => [Less]_vars
  <2>. SUFFICES ASSUME TypeOK, TypeOK', GenstgCall, Waiting, Waiting'
                PROVE  WaitLeft' < WaitLeft
    OBVIOUS
  <2>1. \/ IntergreenEnding(controllerReady, onControl)
        \/ StageEnding(controllerReady, onControl)
    BY DEF GenstgCall, Call, Waiting, InitStart, TestingForces, InvalidDemand,
           OffControl, ForceStage, ConsistentCrbs, InconsistentCrbs, OffCrbs,
           AtUpdateEnd
  <2>t. /\ leaving \in Int /\ igCount \in Int /\ wrongStage \in {0, 1}
        /\ leaving' \in Int /\ igCount' \in Int /\ wrongStage' \in {0, 1}
        /\ Timeout \in Int /\ MaxIg \in Int
    BY GenstgAssumption DEF TypeOK
  <2>2. CASE IntergreenEnding(controllerReady, onControl)
    <3>1. /\ igCount' = igCount + 1
          /\ \/ leaving' = leaving /\ wrongStage' = wrongStage
             \/ leaving' = leaving - 1 /\ wrongStage = 0 /\ wrongStage' = 1
      BY <2>2 DEF IntergreenEnding, WrongStage, TimedOut, ErrorHandler,
                  GiveBack, Finalize, Waiting
    <3>2. CASE leaving' = leaving /\ wrongStage' = wrongStage
      BY <3>1, <3>2, <2>t DEF WaitLeft
    <3>3. CASE leaving' = leaving - 1 /\ wrongStage = 0 /\ wrongStage' = 1
      BY <3>1, <3>3, <2>t DEF WaitLeft
    <3>. QED
      BY <3>1, <3>2, <3>3
  <2>3. CASE StageEnding(controllerReady, onControl)
    <3>1. /\ igCount' = igCount
          /\ \/ leaving' = leaving + 1 /\ wrongStage' = wrongStage
             \/ leaving' = leaving /\ wrongStage = 0 /\ wrongStage' = 1
      BY <2>3, GenstgAssumption DEF TypeOK, StageEnding, StageArrived, IntergreenEntered,
                  StageStillRunning, WrongStage, TimedOut, ErrorHandler,
                  GiveBack, Finalize, Waiting
    <3>2. CASE leaving' = leaving + 1 /\ wrongStage' = wrongStage
      BY <3>1, <3>2, <2>t DEF WaitLeft
    <3>3. CASE leaving' = leaving /\ wrongStage = 0 /\ wrongStage' = 1
      BY <3>1, <3>3, <2>t DEF WaitLeft
    <3>. QED
      BY <3>1, <3>2, <3>3
  <2>. QED
    BY <2>1, <2>2, <2>3
<1>. QED
  BY <1>1, TypeCorrect, PTL DEF Spec, WaitShrinks

-----------------------------------------------------------------------------
(* Refinement: each call is one step of the promise, or none.              *)
LEMMA CallPromise ==
  ASSUME TypeOK, Safe, NEW ready \in {0, 1}, NEW oc \in 0..2,
         NEW dem \in 0..MaxStages, Call(ready, oc, dem)
  PROVE  [Promise!AbstractNext]_(Promise!abstractVars)
<1>. USE DEF Promise!AbstractNext, Promise!abstractVars, Forced
<1>1. CASE \/ InitStart /\ onControl' = oc
           \/ TestingForces(ready, oc)
  BY <1>1 DEF InitStart, TestingForces, AtUpdateEnd, Finalize, Waiting, Safe,
              OneForce, ForceOf
<1>2. CASE \/ InvalidDemand(ready, oc, dem)
           \/ OffControl(ready, oc, dem)
           \/ InconsistentCrbs(ready, oc)
           \/ OffCrbs(ready, oc)
  <2>1. control' = {} /\ Waiting' = Waiting
    BY <1>2 DEF InvalidDemand, OffControl, InconsistentCrbs, OffCrbs,
                ConsistentCrbs, ErrorHandler, GiveBack, Finalize, AtUpdateEnd,
                Waiting
  <2>. QED
    BY <2>1 DEF Promise!Release
<1>3. CASE ForceStage(ready, oc, dem)
  <2>1. dem \in Promise!Stages /\ ~Waiting /\ Forced' = dem
    BY <1>3 DEF ForceStage, ConsistentCrbs, AtUpdateEnd, Waiting, ForceOf,
                Stages, Promise!Stages
  <2>2. Waiting' \in BOOLEAN
    BY DEF Waiting
  <2>. QED
    BY <2>1, <2>2 DEF Promise!Force
<1>4. CASE IntergreenEnding(ready, oc) \/ StageEnding(ready, oc)
  <2>1. Waiting /\ oldDemsta' = oldDemsta
    BY <1>4 DEF IntergreenEnding, StageEnding, Waiting
  <2>2. CASE control' = control /\ Waiting'
    BY <2>1, <2>2
  <2>3. CASE control' = control /\ ~Waiting'
    <3>. Promise!Complete
      BY <2>1, <2>3 DEF Promise!Complete, Waiting
    <3>. QED
      OBVIOUS
  <2>4. CASE control' = {} /\ ~Waiting'
    <3>. Promise!Abandon
      BY <2>1, <2>4 DEF Promise!Abandon, Waiting
    <3>. QED
      OBVIOUS
  <2>5. control' = control \/ (control' = {} /\ ~Waiting')
    BY <1>4 DEF IntergreenEnding, StageEnding, WrongStage, TimedOut,
                ErrorHandler, GiveBack, Finalize, Waiting
  <2>. QED
    BY <2>2, <2>3, <2>4, <2>5
<1>. QED
  BY <1>1, <1>2, <1>3, <1>4 DEF Call

(* The task, with everything else in the kernel acting at any moment,      *)
(* implements what StageForcing promises to the signal controller.         *)
THEOREM TaskKeepsPromise == Spec => KeepsPromise
<1>1. Init => Promise!AbstractInit
  BY DEF Init, Promise!AbstractInit, Forced, Waiting
<1>2. TypeOK /\ Safe /\ [Next]_vars
        => [Promise!AbstractNext]_(Promise!abstractVars)
  <2>. SUFFICES ASSUME TypeOK, Safe, [Next]_vars
                PROVE  [Promise!AbstractNext]_(Promise!abstractVars)
    OBVIOUS
  <2>. USE DEF Promise!abstractVars
  <2>1. CASE GenstgCall
    BY <2>1, CallPromise DEF GenstgCall, TypeOK
  <2>2. CASE GSCheck
    <3>1. snow \in Stages => snow \in 0..MaxStages
      BY GenstgAssumption DEF TypeOK
    <3>2. movaOn \in 0..2
      BY DEF TypeOK
    <3>3. CASE snow \in Stages /\ Call(1, movaOn, snow)
      BY <3>1, <3>2, <3>3, CallPromise
    <3>4. CASE UNCHANGED <<resume, taskVars, control>>
      BY <3>4 DEF Forced, Waiting, taskVars
    <3>. QED
      BY <2>2, <3>3, <3>4 DEF GSCheck
  <2>3. CASE \/ StageConfirm \/ SetCrbBit \/ StageChanging \/ SetMovaOn
             \/ FaultyDetector \/ HandleErrorCount \/ LoadDataset
             \/ UNCHANGED vars
    BY <2>3 DEF StageConfirm, SetCrbBit, StageChanging, SetMovaOn,
                FaultyDetector, HandleErrorCount, LoadDataset, vars, taskVars,
                Forced, Waiting
  <2>4. CASE SwitchMovaOff
    BY <2>4 DEF SwitchMovaOff, taskVars, Forced, Waiting,
                Promise!AbstractNext, Promise!Release
  <2>. QED
    BY <2>1, <2>2, <2>3, <2>4 DEF Next
<1>. QED
  BY <1>1, <1>2, TypeCorrect, SafeInvariant, PTL
     DEF Spec, KeepsPromise, Promise!AbstractSpec

-----------------------------------------------------------------------------
(* The view is a record of two bits, and so is what is made of it.         *)
Views == [onControl : {0, 1}, forced : {0, 1}]

LEMMA ViewType ==
  /\ View \in Views
  /\ View.onControl = 0 <=> onControl = 0
  /\ View.forced = 0 <=> control = {}
BY DEF View, Views

(* Two views differ in the two bits only.                                  *)
LEMMA ViewExcept ==
  ASSUME NEW v \in Views, NEW w \in Views
  PROVE  /\ w = [v EXCEPT !.onControl = w.onControl, !.forced = w.forced]
         /\ w.forced = v.forced => w = [v EXCEPT !.onControl = w.onControl]
<1>1. /\ v = [onControl |-> v.onControl, forced |-> v.forced]
      /\ w = [onControl |-> w.onControl, forced |-> w.forced]
  BY DEF Views
<1>. DEFINE u == [v EXCEPT !.onControl = w.onControl]
<1>2. u = [onControl |-> w.onControl, forced |-> v.forced]
  BY <1>1
<1>3. [u EXCEPT !.forced = w.forced] = w
  <2>. HIDE DEF u
  <2>. QED
    BY <1>1, <1>2
<1>4. [v EXCEPT !.onControl = w.onControl, !.forced = w.forced]
        = [u EXCEPT !.forced = w.forced]
  OBVIOUS
<1>. QED
  BY <1>1, <1>2, <1>3, <1>4

(* What makes a record an outcome of a call.                               *)
LEMMA OutcomeIs ==
  ASSUME NEW m, NEW n, NEW on \in {0, 1}, NEW f \in {0, 1},
         n = Leaves(m, on, f), n.onControl <= m.onControl,
         n.onControl < m.onControl => n.forced = 0,
         n.forced > m.forced => n.onControl = 1
  PROVE  n \in GenstgOutcomes(m)
<1>1. n \in {Leaves(m, o, g) : o \in {0, 1}, g \in {0, 1}}
  OBVIOUS
<1>. QED
  BY <1>1 DEF GenstgOutcomes

(* The view.  A call of the task, entered off control or on it: it turns   *)
(* MOVA off control only with the force bits, and forces only on control.  *)
LEMMA CallSeen ==
  ASSUME TypeOK, NEW ready \in {0, 1}, NEW oc \in 0..2,
         NEW dem \in 0..MaxStages, Call(ready, oc, dem), TypeOK'
  PROVE  View' \in GenstgOutcomes([View EXCEPT !.onControl = IF oc = 0 THEN 0 ELSE 1])
<1>. DEFINE on == IF oc = 0 THEN 0 ELSE 1
            m == [onControl |-> on, forced |-> View.forced]
<1>1. /\ onControl' # 0 => oc # 0
      /\ onControl' = 0 /\ oc # 0 => control' = {}
      /\ control' # {} /\ control = {} => onControl' # 0
  <2>1. CASE InitStart /\ onControl' = oc
    BY <2>1 DEF InitStart
  <2>2. CASE TestingForces(ready, oc)
    BY <2>2 DEF TestingForces, Enabled
  <2>3. CASE InvalidDemand(ready, oc, dem)
    BY <2>3 DEF InvalidDemand, ErrorHandler, ErrorOutcome, GiveBack
  <2>4. CASE OffControl(ready, oc, dem)
    BY <2>4 DEF OffControl, GiveBack
  <2>5. CASE ForceStage(ready, oc, dem)
    BY <2>5 DEF ForceStage, Enabled
  <2>6. CASE InconsistentCrbs(ready, oc)
    BY <2>6 DEF InconsistentCrbs, ErrorOutcome, GiveBack, Enabled
  <2>7. CASE OffCrbs(ready, oc)
    BY <2>7 DEF OffCrbs, GiveBack, Enabled
  <2>8. CASE IntergreenEnding(ready, oc)
    BY <2>8 DEF IntergreenEnding, WrongStage, TimedOut, ErrorHandler,
                ErrorOutcome, GiveBack
  <2>9. CASE StageEnding(ready, oc)
    BY <2>9 DEF StageEnding, WrongStage, TimedOut, ErrorHandler,
                ErrorOutcome, GiveBack
  <2>. QED
    BY <2>1, <2>2, <2>3, <2>4, <2>5, <2>6, <2>7, <2>8, <2>9 DEF Call
<1>2. on \in {0, 1} /\ (on = 0 <=> oc = 0)
  OBVIOUS
<1>. HIDE DEF on
<1>3. m \in Views /\ m.onControl = on /\ m.forced = View.forced
  BY <1>2, ViewType DEF Views
<1>4. /\ View' \in Views
      /\ View'.onControl \in {0, 1} /\ View'.forced \in {0, 1}
      /\ View'.onControl = 0 <=> onControl' = 0
      /\ View'.forced = 0 <=> control' = {}
  BY DEF View, Views
<1>. HIDE DEF m
<1>5. /\ [View EXCEPT !.onControl = on] = m
      /\ View' = [m EXCEPT !.onControl = View'.onControl, !.forced = View'.forced]
  BY <1>3, <1>4, ViewType, ViewExcept
<1>6. /\ View'.onControl <= m.onControl
      /\ View'.onControl < m.onControl => View'.forced = 0
      /\ View'.forced > m.forced => View'.onControl = 1
  BY <1>1, <1>2, <1>3, <1>4, ViewType DEF Views
<1>7. View' \in GenstgOutcomes(m)
  BY <1>4, <1>5, <1>6, OutcomeIs DEF Leaves
<1>. QED
  BY <1>5, <1>7 DEF on

(* Whatever acts, the task and the other writers leave of the channels and *)
(* of ON_CONTROL only what the main loop (Monitr) reckons with: the        *)
(* abstraction of genstg() in its frames is sound.                         *)
THEOREM LoopSeesTask == Spec => SeenByLoop
<1>. DEFINE Right == /\ GenstgCall => View' \in GenstgOutcomes(View)
                     /\ GSCheck => View' \in GSCheckOutcomes(View)
                     /\ View' \in OthersOutcomes(View) \/ GenstgCall \/ GSCheck
<1>1. TypeOK /\ TypeOK' /\ Safe /\ [Next]_vars => [Right]_vars
  <2>. SUFFICES ASSUME TypeOK, TypeOK', Safe, Next PROVE Right
    OBVIOUS
  <2>1. ASSUME GenstgCall PROVE View' \in GenstgOutcomes(View)
    <3>1. [View EXCEPT !.onControl = IF onControl = 0 THEN 0 ELSE 1] = View
      <4>1. View.onControl = IF onControl = 0 THEN 0 ELSE 1
        BY DEF View
      <4>2. View = [View EXCEPT !.onControl = View.onControl]
        BY ViewType, ViewExcept
      <4>. QED
        BY <4>1, <4>2
    <3>2. View' \in GenstgOutcomes(
                      [View EXCEPT !.onControl = IF onControl = 0 THEN 0 ELSE 1])
      BY <2>1, CallSeen DEF GenstgCall, TypeOK
    <3>. QED
      BY <3>1, <3>2
  <2>2. ASSUME GSCheck PROVE View' \in GSCheckOutcomes(View)
    <3>1. CASE UNCHANGED <<control, onControl>>
      BY <3>1 DEF View, GSCheckOutcomes
    <3>2. CASE snow \in Stages /\ Call(1, movaOn, snow)
      <4>. DEFINE on == IF movaOn = 0 THEN 0 ELSE 1
      <4>1. snow \in 0..MaxStages /\ movaOn \in 0..2
        BY GenstgAssumption DEF TypeOK
      <4>2. View' \in GenstgOutcomes([View EXCEPT !.onControl = on])
        BY <3>2, <4>1, CallSeen
      <4>3. on \in {0, 1}
        OBVIOUS
      <4>. HIDE DEF on
      <4>. QED
        BY <4>2, <4>3 DEF GSCheckOutcomes
    <3>. QED
      BY <2>2, <3>1, <3>2 DEF GSCheck
  <2>. DEFINE Others == View' \in OthersOutcomes(View)
  <2>3. ASSUME StageConfirm \/ SetCrbBit \/ StageChanging \/ SetMovaOn
        PROVE  Others
    BY <2>3 DEF StageConfirm, SetCrbBit, StageChanging, SetMovaOn, View,
                OthersOutcomes
  <2>4. ASSUME FaultyDetector \/ HandleErrorCount \/ LoadDataset
        PROVE  Others
    <3>1. /\ control' = control
          /\ onControl' = onControl \/ onControl' = 0
      BY <2>4 DEF FaultyDetector, HandleErrorCount, LoadDataset
    <3>2. View' = View \/ (View'.onControl = 0 /\ View'.forced = View.forced)
      BY <3>1 DEF View
    <3>3. View' \in Views
      BY DEF View, Views
    <3>. QED
      BY <3>2, <3>3, ViewType, ViewExcept DEF OthersOutcomes
  <2>5. ASSUME SwitchMovaOff PROVE Others
    <3>1. View'.onControl = 0 /\ View'.forced = 0 /\ View' \in Views
      BY <2>5 DEF SwitchMovaOff, View, Views
    <3>. QED
      BY <3>1, ViewType, ViewExcept DEF OthersOutcomes
  <2>6. View' \in OthersOutcomes(View) \/ GenstgCall \/ GSCheck
    BY <2>3, <2>4, <2>5 DEF Next
  <2>. QED
    BY <2>1, <2>2, <2>6
<1>. QED
  BY <1>1, TypeCorrect, SafeInvariant, PTL DEF Spec, SeenByLoop
=============================================================================
