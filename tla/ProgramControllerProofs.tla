----------------------- MODULE ProgramControllerProofs -----------------------
(* Proofs about the program controller, for every dataset.                 *)
EXTENDS ProgramController, TLAPS

(* Where a scan stands: how the blocks, the marker, the stage and the      *)
(* warm-up go together.                                                    *)
Control ==
  /\ wait = 2 => marker = WaitingChange /\ block \in {"warm-up", "change"}
  /\ block = "A" => /\ current = Intergreen <=> previousMarker <= ContinuedIntergreen
                    /\ warmup = -1 => current = Intergreen
  /\ block = "warm-up" =>
       /\ previous = Intergreen <=> previousMarker <= ContinuedIntergreen
       /\ current = Intergreen <=> marker <= ContinuedIntergreen
       /\ warmup = -1 => previous = Intergreen
       /\ marker \in {StartIntergreen, ContinuedIntergreen, AbsMin, VarMin,
                      WaitingChange}
       /\ marker = AbsMin => varMin = 0 /\ wait = 0
       /\ marker = VarMin => varMin = 1 /\ wait = 0
       /\ marker = WaitingChange => wait # 0
  /\ block \notin {"A", "warm-up"} =>
       /\ current = Intergreen <=> marker <= ContinuedIntergreen
       /\ warmup = -1 => current = Intergreen
  /\ block = "B" => \/ marker = AbsMin /\ varMin = 0 /\ wait = 0
                    \/ marker = VarMin /\ varMin = 1 /\ wait = 0
  /\ block = "minimum" => marker = VarMin /\ varMin = 1 /\ wait = 0
  /\ block = "maximum" =>
       /\ marker \in {VarMin, CheckingEndsat} /\ varMin = 1 /\ wait = 0
       /\ hold # None => signal < HoldTime
  /\ block = "C" =>
       /\ marker \in {StartIntergreen, ContinuedIntergreen, AbsMin, VarMin,
                      CheckingEndsat, MaxExpired, EPChange}
       /\ marker >= VarMin => varMin = 1
       /\ marker >= AbsMin => wait = 0
  /\ block = "change" =>
       \/ marker = WaitingChange /\ wait # 0
       \/ /\ marker \in {DelayAndStops, DemandingChange, MaxExpired, EPChange}
          /\ varMin = 1 /\ wait = 0

(* Nothing is left of the time before MOVA was last switched off: a start  *)
(* of green has been counted and its stage has ended.                      *)
Settled ==
  \/ warmup >= 1
  \/ /\ warmup = 0
     /\ \/ current = Intergreen
        \/ block = "warm-up" /\ previous = Intergreen

(* What holds then of the minimum, the stage to follow and the timers.     *)
Minimum ==
  /\ current = Intergreen => wait = 0 /\ varMin = 0 /\ stageMax = 0
  /\ block = "warm-up" /\ previous = Intergreen => wait = 0 /\ stageMax = 0
  /\ varMin = 1 => signal >= MinGreen[current]
  /\ wait # 0 => varMin = 1 /\ demanded = next /\ next \in Stages \ {current}

Following ==
  /\ block \in {"minimum", "maximum", "change"} => next \in Stages \ {current}
  /\ block = "C" /\ marker >= CheckingEndsat => next \in Stages \ {current}

Times ==
  /\ stageMax <= signal
  /\ block \in {"warm-up", "B"} /\ marker = VarMin =>
       stageMax < signal \/ signal = TimerCap
  /\ block \in {"warm-up", "B"} /\ marker = AbsMin =>
       stageMax < signal /\ signal < MinGreen[current]

(* How far a green may have gone on past its maximum.                      *)
Within == \/ stageMax < GreenTime
          \/ stageMax < GreenTime + extMax /\ extMax < ExtTime

Bounded ==
  /\ stageMax <= GreenTime + ExtTime
  /\ block \in {"A", "warm-up", "B"} /\ wait = 0 => Within
  /\ block \in {"minimum", "maximum"} =>
       \/ stageMax <= GreenTime
       \/ stageMax <= GreenTime + extMax /\ extMax < ExtTime
  /\ block = "C" /\ marker <= CheckingEndsat => Within

IInv == /\ TypeOK
        /\ Control
        /\ Settled => Minimum /\ Following /\ Times
        /\ ~InWarmup => Bounded

-----------------------------------------------------------------------------
LEMMA StagesInRange == \A s \in Stages : s \in 0..NStages /\ s # 0
BY ProgramAssumption DEF Stages

(* Every step keeps the types.                                             *)
LEMMA TypeStep ==
  ASSUME TypeOK, Control, Next
  PROVE  TypeOK'
<1>. USE ProgramAssumption, StagesInRange DEF StartIntergreen,
        ContinuedIntergreen, AbsMin, VarMin, CheckingEndsat, DelayAndStops,
        DemandingChange, MaxExpired, WaitingChange, EPChange, Intergreen,
        TypeOK, stageVars, timers, nextVars, epVars
<1>1. CASE EndGreen
  BY <1>1 DEF EndGreen, EndOfStage, ScanInitialUpdates
<1>2. CASE ContinueIntergreen
  BY <1>2 DEF ContinueIntergreen, SameStage, ScanInitialUpdates, Tick
<1>3. ASSUME NEW s \in Stages, Green(s)
      PROVE  TypeOK'
  <2>1. signal' \in 0..TimerCap
    BY <1>3 DEF Green, Tick
  <2>2. wait' \in 0..2 /\ varMin' \in {0, 1} /\ marker' \in 0..9
    BY <1>3 DEF Green, GreenMarker, Control
  <2>. QED
    BY <1>3, <2>1, <2>2 DEF Green, SameStage, ScanInitialUpdates
<1>4. ASSUME NEW s \in Stages, ChangeWithoutIntergreen(s)
      PROVE  TypeOK'
  BY <1>4 DEF ChangeWithoutIntergreen, GreenMarker, EndOfStage, ScanInitialUpdates
<1>5. CASE WarmupCheck
  BY <1>5 DEF WarmupCheck, StartOfGreen, AfterWarmupCheck, GSCheck, InWarmup
<1>6. CASE NoDemand
  BY <1>6 DEF NoDemand
<1>7. ASSUME NEW s \in Stages, NEW kind \in {Emergency, Priority, Normal}, NextStage(s, kind)
      PROVE  TypeOK'
  BY <1>7 DEF NextStage, Tick
<1>8. CASE MinimaOver
  BY <1>8 DEF MinimaOver
<1>9. CASE LinkMinimum
  BY <1>9 DEF LinkMinimum, Holds
<1>10. CASE LinkHeld
  <2>1. hold' \in {None, Emergency, Priority}
    BY <1>10 DEF LinkHeld, Holds
  <2>. QED
    BY <1>10, <2>1 DEF LinkHeld
<1>11. CASE LinksFree
  <2>1. endsat' \in [Stages -> {NotYet, Expired, Reached}]
    BY <1>11 DEF LinksFree
  <2>2. hold' \in {None, Emergency, Priority}
    BY <1>11 DEF LinksFree
  <2>. QED
    BY <1>11, <2>1, <2>2 DEF LinksFree
<1>12. ASSUME NEW expired \in BOOLEAN, NEW e \in BOOLEAN, NEW p \in BOOLEAN,
         NEW truncate \in BOOLEAN, Maximum(expired, e, p, truncate)
      PROVE  TypeOK'
  <2>1. marker' \in 0..9
    BY <1>12 DEF Maximum
  <2>2. ext' \in {None, Emergency, Priority}
    BY <1>12 DEF Maximum, Kept, NotKept
  <2>3. extMax' \in 0..TimerCap
    BY <1>12 DEF Maximum, ExtensionTime, Tick
  <2>. QED
    BY <1>12, <2>1, <2>2, <2>3 DEF Maximum
<1>13. CASE SkipInWarmup
  BY <1>13 DEF SkipInWarmup, EndScan
<1>14. CASE Cut
  BY <1>14 DEF Cut
<1>15. CASE EndEarly
  BY <1>15 DEF EndEarly, EndScan
<1>16. CASE StillSaturated
  BY <1>16 DEF StillSaturated, EndScan
<1>17. ASSUME NEW decision \in Decisions, EndOfSaturation(decision)
      PROVE  TypeOK'
  <2>1. endsat' \in [Stages -> {NotYet, Expired, Reached}]
    BY <1>17 DEF EndOfSaturation
  <2>2. /\ marker' \in 0..9 /\ previousMarker' \in 0..9
        /\ block' \in {"A", "change"}
    BY <1>17 DEF EndOfSaturation, EndScan
  <2>. QED
    BY <1>17, <2>1, <2>2 DEF EndOfSaturation
<1>18. CASE ChangeStage
  BY <1>18 DEF ChangeStage
<1>19. CASE SwitchOff
  BY <1>19 DEF SwitchOff
<1>20. CASE WarmupAgain
  BY <1>20 DEF WarmupAgain, InWarmup
<1>. QED
  BY <1>1, <1>2, <1>3, <1>4, <1>5, <1>6, <1>7, <1>8, <1>9, <1>10, <1>11,
     <1>12, <1>13, <1>14, <1>15, <1>16, <1>17, <1>18, <1>19, <1>20
     DEF Next, Scan, BlockA, BlockB, BlocksCD

(* Every step keeps block, marker, stage and warm-up together.             *)
LEMMA ControlStep ==
  ASSUME TypeOK, Control, Next
  PROVE  Control'
<1>. USE ProgramAssumption, StagesInRange DEF StartIntergreen,
        ContinuedIntergreen, AbsMin, VarMin, CheckingEndsat, DelayAndStops,
        DemandingChange, MaxExpired, WaitingChange, EPChange, Intergreen,
        TypeOK, Control, stageVars, timers, nextVars, epVars
<1>1. CASE EndGreen
  BY <1>1 DEF EndGreen, EndOfStage, ScanInitialUpdates
<1>2. CASE ContinueIntergreen
  BY <1>2 DEF ContinueIntergreen, SameStage, ScanInitialUpdates, Tick
<1>3. ASSUME NEW s \in Stages, Green(s)
      PROVE  Control'
  BY <1>3 DEF Green, GreenMarker, SameStage, ScanInitialUpdates, Tick
<1>4. ASSUME NEW s \in Stages, ChangeWithoutIntergreen(s)
      PROVE  Control'
  BY <1>4 DEF ChangeWithoutIntergreen, GreenMarker, EndOfStage, ScanInitialUpdates
<1>5. CASE WarmupCheck
  BY <1>5 DEF WarmupCheck, StartOfGreen, AfterWarmupCheck, GSCheck, InWarmup
<1>6. CASE NoDemand
  BY <1>6 DEF NoDemand
<1>7. ASSUME NEW s \in Stages, NEW kind \in {Emergency, Priority, Normal}, NextStage(s, kind)
      PROVE  Control'
  BY <1>7 DEF NextStage, Tick
<1>8. CASE MinimaOver
  BY <1>8 DEF MinimaOver
<1>9. CASE LinkMinimum
  BY <1>9 DEF LinkMinimum, Holds
<1>10. CASE LinkHeld
  BY <1>10 DEF LinkHeld, Holds
<1>11. CASE LinksFree
  BY <1>11 DEF LinksFree
<1>12. ASSUME NEW expired \in BOOLEAN, NEW e \in BOOLEAN, NEW p \in BOOLEAN,
         NEW truncate \in BOOLEAN, Maximum(expired, e, p, truncate)
      PROVE  Control'
  BY <1>12 DEF Maximum, ExtensionTime, Tick, Kept, NotKept, Extends
<1>13. CASE SkipInWarmup
  BY <1>13 DEF SkipInWarmup, EndScan
<1>14. CASE Cut
  BY <1>14 DEF Cut
<1>15. CASE EndEarly
  BY <1>15 DEF EndEarly, EndScan
<1>16. CASE StillSaturated
  BY <1>16 DEF StillSaturated, EndScan
<1>17. ASSUME NEW decision \in Decisions, EndOfSaturation(decision)
      PROVE  Control'
  BY <1>17 DEF EndOfSaturation, EndScan
<1>18. CASE ChangeStage
  BY <1>18 DEF ChangeStage
<1>19. CASE SwitchOff
  BY <1>19 DEF SwitchOff
<1>20. CASE WarmupAgain
  BY <1>20 DEF WarmupAgain, InWarmup
<1>. QED
  BY <1>1, <1>2, <1>3, <1>4, <1>5, <1>6, <1>7, <1>8, <1>9, <1>10, <1>11,
     <1>12, <1>13, <1>14, <1>15, <1>16, <1>17, <1>18, <1>19, <1>20
     DEF Next, Scan, BlockA, BlockB, BlocksCD

(* Every step keeps what holds of the minimum and of the stage to follow,  *)
(* or brings it about, once the kernel is settled.                         *)
LEMMA MinimumStep ==
  ASSUME TypeOK, Control, Settled => Minimum /\ Following, Next
  PROVE  Settled' => Minimum' /\ Following'
<1>. USE ProgramAssumption, StagesInRange DEF StartIntergreen,
        ContinuedIntergreen, AbsMin, VarMin, CheckingEndsat, DelayAndStops,
        DemandingChange, MaxExpired, WaitingChange, EPChange, Intergreen,
        TypeOK, Control, Settled, Minimum, Following, stageVars, timers,
        nextVars, epVars
<1>1. CASE EndGreen
  BY <1>1 DEF EndGreen, EndOfStage, ScanInitialUpdates
<1>2. CASE ContinueIntergreen
  BY <1>2 DEF ContinueIntergreen, SameStage, ScanInitialUpdates, Tick
<1>3. ASSUME NEW s \in Stages, Green(s)
      PROVE  Settled' => Minimum' /\ Following'
  BY <1>3 DEF Green, GreenMarker, SameStage, ScanInitialUpdates, Tick
<1>4. ASSUME NEW s \in Stages, ChangeWithoutIntergreen(s)
      PROVE  Settled' => Minimum' /\ Following'
  BY <1>4 DEF ChangeWithoutIntergreen, GreenMarker, EndOfStage, ScanInitialUpdates
<1>5. CASE WarmupCheck
  BY <1>5 DEF WarmupCheck, StartOfGreen, AfterWarmupCheck, GSCheck, InWarmup
<1>6. CASE NoDemand
  BY <1>6 DEF NoDemand
<1>7. ASSUME NEW s \in Stages, NEW kind \in {Emergency, Priority, Normal}, NextStage(s, kind)
      PROVE  Settled' => Minimum' /\ Following'
  BY <1>7 DEF NextStage, Tick
<1>8. CASE MinimaOver
  BY <1>8 DEF MinimaOver
<1>9. CASE LinkMinimum
  BY <1>9 DEF LinkMinimum, Holds
<1>10. CASE LinkHeld
  BY <1>10 DEF LinkHeld, Holds
<1>11. CASE LinksFree
  BY <1>11 DEF LinksFree
<1>12. ASSUME NEW expired \in BOOLEAN, NEW e \in BOOLEAN, NEW p \in BOOLEAN,
         NEW truncate \in BOOLEAN, Maximum(expired, e, p, truncate)
      PROVE  Settled' => Minimum' /\ Following'
  BY <1>12 DEF Maximum, ExtensionTime, Tick, Kept, NotKept, Extends
<1>13. CASE SkipInWarmup
  BY <1>13 DEF SkipInWarmup, EndScan
<1>14. CASE Cut
  BY <1>14 DEF Cut
<1>15. CASE EndEarly
  BY <1>15 DEF EndEarly, EndScan
<1>16. CASE StillSaturated
  BY <1>16 DEF StillSaturated, EndScan
<1>17. ASSUME NEW decision \in Decisions, EndOfSaturation(decision)
      PROVE  Settled' => Minimum' /\ Following'
  BY <1>17 DEF EndOfSaturation, EndScan
<1>18. CASE ChangeStage
  BY <1>18 DEF ChangeStage
<1>19. CASE SwitchOff
  BY <1>19 DEF SwitchOff
<1>20. CASE WarmupAgain
  BY <1>20 DEF WarmupAgain, InWarmup
<1>. QED
  BY <1>1, <1>2, <1>3, <1>4, <1>5, <1>6, <1>7, <1>8, <1>9, <1>10, <1>11,
     <1>12, <1>13, <1>14, <1>15, <1>16, <1>17, <1>18, <1>19, <1>20
     DEF Next, Scan, BlockA, BlockB, BlocksCD

(* Every step keeps the times of the green, once the kernel is settled.    *)
LEMMA TimesStep ==
  ASSUME TypeOK, Control, Settled => Minimum /\ Times, Next
  PROVE  Settled' => Times'
<1>. USE ProgramAssumption, TimesAssumption, StagesInRange DEF StartIntergreen,
        ContinuedIntergreen, AbsMin, VarMin, CheckingEndsat, DelayAndStops,
        DemandingChange, MaxExpired, WaitingChange, EPChange, Intergreen,
        TypeOK, Control, Settled, Minimum, Times, stageVars, timers, nextVars,
        epVars
<1>1. CASE EndGreen
  BY <1>1 DEF EndGreen, EndOfStage, ScanInitialUpdates
<1>2. CASE ContinueIntergreen
  BY <1>2 DEF ContinueIntergreen, SameStage, ScanInitialUpdates, Tick
<1>3. ASSUME NEW s \in Stages, Green(s)
      PROVE  Settled' => Times'
  BY <1>3 DEF Green, GreenMarker, SameStage, ScanInitialUpdates, Tick
<1>4. ASSUME NEW s \in Stages, ChangeWithoutIntergreen(s)
      PROVE  Settled' => Times'
  BY <1>4 DEF ChangeWithoutIntergreen, GreenMarker, EndOfStage, ScanInitialUpdates
<1>5. CASE WarmupCheck
  BY <1>5 DEF WarmupCheck, StartOfGreen, AfterWarmupCheck, GSCheck, InWarmup
<1>6. CASE NoDemand
  BY <1>6 DEF NoDemand
<1>7. ASSUME NEW s \in Stages, NEW kind \in {Emergency, Priority, Normal}, NextStage(s, kind)
      PROVE  Settled' => Times'
  BY <1>7 DEF NextStage, Tick
<1>8. CASE MinimaOver
  BY <1>8 DEF MinimaOver
<1>9. CASE LinkMinimum
  BY <1>9 DEF LinkMinimum, Holds
<1>10. CASE LinkHeld
  BY <1>10 DEF LinkHeld, Holds
<1>11. CASE LinksFree
  BY <1>11 DEF LinksFree
<1>12. ASSUME NEW expired \in BOOLEAN, NEW e \in BOOLEAN, NEW p \in BOOLEAN,
         NEW truncate \in BOOLEAN, Maximum(expired, e, p, truncate)
      PROVE  Settled' => Times'
  BY <1>12 DEF Maximum, ExtensionTime, Tick, Kept, NotKept, Extends
<1>13. CASE SkipInWarmup
  BY <1>13 DEF SkipInWarmup, EndScan
<1>14. CASE Cut
  BY <1>14 DEF Cut
<1>15. CASE EndEarly
  BY <1>15 DEF EndEarly, EndScan
<1>16. CASE StillSaturated
  BY <1>16 DEF StillSaturated, EndScan
<1>17. ASSUME NEW decision \in Decisions, EndOfSaturation(decision)
      PROVE  Settled' => Times'
  BY <1>17 DEF EndOfSaturation, EndScan
<1>18. CASE ChangeStage
  BY <1>18 DEF ChangeStage
<1>19. CASE SwitchOff
  BY <1>19 DEF SwitchOff
<1>20. CASE WarmupAgain
  BY <1>20 DEF WarmupAgain, InWarmup
<1>. QED
  BY <1>1, <1>2, <1>3, <1>4, <1>5, <1>6, <1>7, <1>8, <1>9, <1>10, <1>11,
     <1>12, <1>13, <1>14, <1>15, <1>16, <1>17, <1>18, <1>19, <1>20
     DEF Next, Scan, BlockA, BlockB, BlocksCD

(* There is a stage, so there is a minimum green.                          *)
LEMMA SomeTime ==
  /\ GreenTime \in Nat /\ GreenTime > 0 /\ ExtTime \in Nat
  /\ GreenTime + ExtTime <= TimerCap
  /\ LinkMin <= GreenTime /\ HoldTime <= GreenTime
  /\ EmergencyExt <= ExtTime /\ PriorityExt <= ExtTime
  /\ \A s \in Stages : MinGreen[s] \in Nat /\ MinGreen[s] <= GreenTime
  /\ \A m \in Maxes : m \in Nat /\ m <= GreenTime
<1>1. 1 \in Stages
  BY ProgramAssumption DEF Stages
<1>2. MinGreen[1] \in Nat \ {0} /\ MinGreen[1] <= GreenTime
  BY <1>1, ProgramAssumption, TimesAssumption
<1>. QED
  BY <1>2, ProgramAssumption, TimesAssumption

(* A green kept by an extension past its maximum: its time has not run out.*)
LEMMA ExtendedBelowLimit ==
  ASSUME NEW e \in BOOLEAN, NEW p \in BOOLEAN, NEW expired \in BOOLEAN,
         expired, hold = None, Kept(e, p, expired), extMax' \in Nat
  PROVE  (e \/ p) /\ extMax' < ExtTime
<1>1. \/ e /\ extMax' < EmergencyExt
      \/ p /\ extMax' < PriorityExt
  BY DEF Kept, Extends, None, Emergency, Priority
<1>. QED
  BY <1>1, SomeTime, ProgramAssumption

(* A green that is not kept past its maximum is marked for the change.     *)
LEMMA MarkedWhenExpired ==
  ASSUME NEW e \in BOOLEAN, NEW p \in BOOLEAN, NEW expired \in BOOLEAN,
         NEW truncate \in BOOLEAN, expired, Maximum(expired, e, p, truncate),
         NotKept(e, p, expired)
  PROVE  marker' \in {MaxExpired, EPChange}
BY DEF Maximum, Kept, NotKept, None, Emergency, Priority

(* The maximum that has not expired is later than the time in demand.      *)
LEMMA MaximumToCome ==
  ASSUME stageMax \in Nat, ~MaxGreenMustExpire
  PROVE  stageMax < GreenTime
BY SomeTime DEF MaxGreenMustExpire

(* Every step keeps the bound on the green, once warm.                     *)
LEMMA BoundedStep ==
  ASSUME TypeOK, Control, Settled => Minimum /\ Times, ~InWarmup => Bounded, Next
  PROVE  ~InWarmup' => Bounded'
<1>. USE ProgramAssumption, SomeTime, StagesInRange DEF StartIntergreen,
        ContinuedIntergreen, AbsMin, VarMin, CheckingEndsat, DelayAndStops,
        DemandingChange, MaxExpired, WaitingChange, EPChange, Intergreen,
        TypeOK, Control, Settled, Minimum, Times, InWarmup, Bounded, Within,
        stageVars, timers, nextVars, epVars
<1>1. CASE EndGreen
  BY <1>1 DEF EndGreen, EndOfStage, ScanInitialUpdates
<1>2. CASE ContinueIntergreen
  BY <1>2 DEF ContinueIntergreen, SameStage, ScanInitialUpdates, Tick
<1>3. ASSUME NEW s \in Stages, Green(s)
      PROVE  ~InWarmup' => Bounded'
  BY <1>3 DEF Green, GreenMarker, SameStage, ScanInitialUpdates, Tick
<1>4. ASSUME NEW s \in Stages, ChangeWithoutIntergreen(s)
      PROVE  ~InWarmup' => Bounded'
  BY <1>4 DEF ChangeWithoutIntergreen, GreenMarker, EndOfStage, ScanInitialUpdates
<1>5. CASE WarmupCheck
  BY <1>5 DEF WarmupCheck, StartOfGreen, AfterWarmupCheck, GSCheck, InWarmup
<1>6. CASE NoDemand
  BY <1>6 DEF NoDemand
<1>7. ASSUME NEW s \in Stages, NEW kind \in {Emergency, Priority, Normal}, NextStage(s, kind)
      PROVE  ~InWarmup' => Bounded'
  <2>. SUFFICES ASSUME ~InWarmup
                PROVE  Bounded'
    BY <1>7 DEF NextStage
  <2>1. Within /\ stageMax' \in {stageMax, stageMax + 1}
    BY <1>7 DEF NextStage, Tick
  <2>2. CASE varMin = 0
    <3>1. stageMax < signal /\ signal < MinGreen[current] /\ current \in Stages
      BY <1>7, <2>2 DEF NextStage, Stages
    <3>. QED
      BY <1>7, <2>1, <2>2, <3>1 DEF NextStage
  <2>3. CASE varMin = 1
    BY <1>7, <2>1, <2>3 DEF NextStage
  <2>. QED
    BY <2>2, <2>3
<1>8. CASE MinimaOver
  BY <1>8 DEF MinimaOver
<1>9. CASE LinkMinimum
  BY <1>9 DEF LinkMinimum, Holds
<1>10. CASE LinkHeld
  BY <1>10 DEF LinkHeld, Holds
<1>11. CASE LinksFree
  BY <1>11 DEF LinksFree
<1>12. ASSUME NEW expired \in BOOLEAN, NEW e \in BOOLEAN, NEW p \in BOOLEAN,
         NEW truncate \in BOOLEAN, Maximum(expired, e, p, truncate)
      PROVE  ~InWarmup' => Bounded'
  <2>. SUFFICES ASSUME ~InWarmup
                PROVE  Bounded'
    BY <1>12 DEF Maximum
  <2>1. /\ stageMax' = stageMax /\ block' = "C" /\ stageMax <= GreenTime + ExtTime
        /\ \/ stageMax <= GreenTime
           \/ stageMax <= GreenTime + extMax /\ extMax < ExtTime
    BY <1>12 DEF Maximum
  <2>2. CASE ~expired
    <3>1. stageMax < GreenTime
      BY <1>12, <2>2, MaximumToCome DEF Maximum
    <3>. QED
      BY <2>1, <3>1
  <2>3. CASE expired /\ marker' \in {MaxExpired, EPChange}
    BY <2>1, <2>3
  <2>4. CASE expired /\ hold # None
    <3>1. stageMax < GreenTime
      BY <1>12, <2>4 DEF Maximum
    <3>. QED
      BY <2>1, <3>1
  <2>5. CASE expired /\ Kept(e, p, expired) /\ hold = None
    <3>1. TypeOK'
      BY TypeStep
    <3>2. extMax' \in Nat
      BY <3>1 DEF TypeOK
    <3>3. (e \/ p) /\ extMax' < ExtTime
      BY <2>5, <3>2, ExtendedBelowLimit
    <3>4. extMax' = ExtensionTime(e \/ p, expired)
      BY <1>12 DEF Maximum
    <3>5. extMax' = Tick(extMax) /\ extMax' < ExtTime
      BY <2>5, <3>3, <3>4 DEF ExtensionTime
    <3>6. extMax' = extMax + 1
      BY <3>5 DEF Tick
    <3>. QED
      BY <2>1, <3>5, <3>6
  <2>. QED
    <3>1. CASE Kept(e, p, expired)
      BY <3>1, <2>2, <2>4, <2>5
    <3>2. CASE NotKept(e, p, expired) /\ marker' # marker
      BY <1>12, <3>2, <2>2, <2>3 DEF Maximum
    <3>3. CASE NotKept(e, p, expired) /\ marker' = marker
      <4>1. CASE expired
        <5>1. marker' \in {MaxExpired, EPChange}
          BY <1>12, <3>3, <4>1, MarkedWhenExpired
        <5>. QED
          BY <4>1, <5>1, <2>3
      <4>. QED
        BY <4>1, <2>2
    <3>. QED
      BY <1>12, <3>1, <3>2, <3>3 DEF Maximum
<1>13. CASE SkipInWarmup
  BY <1>13 DEF SkipInWarmup, EndScan
<1>14. CASE Cut
  BY <1>14 DEF Cut
<1>15. CASE EndEarly
  BY <1>15 DEF EndEarly, EndScan
<1>16. CASE StillSaturated
  BY <1>16 DEF StillSaturated, EndScan
<1>17. ASSUME NEW decision \in Decisions, EndOfSaturation(decision)
      PROVE  ~InWarmup' => Bounded'
  BY <1>17 DEF EndOfSaturation, EndScan
<1>18. CASE ChangeStage
  BY <1>18 DEF ChangeStage
<1>19. CASE SwitchOff
  BY <1>19 DEF SwitchOff
<1>20. CASE WarmupAgain
  BY <1>20 DEF WarmupAgain, InWarmup
<1>. QED
  BY <1>1, <1>2, <1>3, <1>4, <1>5, <1>6, <1>7, <1>8, <1>9, <1>10, <1>11,
     <1>12, <1>13, <1>14, <1>15, <1>16, <1>17, <1>18, <1>19, <1>20
     DEF Next, Scan, BlockA, BlockB, BlocksCD

-----------------------------------------------------------------------------
(* It holds at the start.                                                  *)
LEMMA IInvInit == Init => IInv
BY ProgramAssumption, SomeTime
   DEF Init, IInv, TypeOK, Control, Settled, InWarmup, Intergreen,
       ContinuedIntergreen, StartIntergreen

(* A step that changes nothing changes none of it.                         *)
LEMMA IInvStutter == IInv /\ UNCHANGED vars => IInv'
BY DEF vars, stageVars, timers, nextVars, epVars, IInv, TypeOK, Control, Settled,
       Minimum, Following, Times, InWarmup, Bounded, Within

(* The inductive invariant holds in every run.                             *)
THEOREM Inductive == Spec => []IInv
<1>1. IInv /\ Next => IInv'
  BY TypeStep, ControlStep, MinimumStep, TimesStep, BoundedStep DEF IInv
<1>2. IInv /\ [Next]_vars => IInv'
  BY <1>1, IInvStutter
<1>. QED
  BY <1>2, IInvInit, PTL DEF Spec

(* Every variable keeps its type.                                          *)
THEOREM TypeCorrect == Spec => []TypeOK
<1>1. IInv => TypeOK
  BY DEF IInv
<1>. QED
  BY <1>1, Inductive, PTL

(* Once warm, a change is only awaited in a green that has had its minimum *)
(* and to another stage, whatever was awaited before a restart.            *)
THEOREM WaitsAfterMinimumHolds == Spec => []WaitsAfterMinimum
<1>1. IInv => WaitsAfterMinimum
  BY ProgramAssumption DEF IInv, TypeOK, Settled, Minimum, InWarmup, WaitsAfterMinimum
<1>. QED
  BY <1>1, Inductive, PTL

(* Once warm, the green of a stage is kept from a demand for at most the   *)
(* longest maximum, minimum or hold and the longest extension.             *)
THEOREM GreenBoundedHolds == Spec => []GreenBounded
<1>1. IInv => GreenBounded
  BY DEF IInv, Bounded, GreenBounded
<1>. QED
  BY <1>1, Inductive, PTL

(* Once warm, an awaited change is neither withdrawn nor replaced.         *)
THEOREM ChangeStandsHolds == Spec => ChangeStands
<1>. DEFINE Stands == ~InWarmup' /\ wait # 0 /\ wait' # 0 => demanded' = demanded
<1>1. ASSUME IInv, IInv', [Next]_vars
      PROVE  Stands
  <2>. SUFFICES ASSUME ~InWarmup', wait # 0, wait' # 0, demanded' # demanded
                PROVE  FALSE
    OBVIOUS
  <2>1. WarmupCheck \/ ChangeStage
    BY <1>1 DEF Next, Scan, BlockA, BlockB, BlocksCD, EndGreen, ContinueIntergreen,
       Green, ChangeWithoutIntergreen, NoDemand, NextStage, MinimaOver, LinkMinimum,
       LinkHeld, LinksFree, Maximum, SkipInWarmup, Cut, EndEarly, StillSaturated,
       EndOfSaturation, SwitchOff, WarmupAgain, vars
  <2>2. CASE WarmupCheck
    <3>1. previous = Intergreen /\ block = "warm-up" /\ Settled
      BY <1>1, <2>2, ProgramAssumption
         DEF WarmupCheck, StartOfGreen, IInv, TypeOK, Control, Settled, InWarmup
    <3>. QED
      BY <1>1, <3>1 DEF IInv, Minimum
  <2>3. CASE ChangeStage
    <3>1. Settled /\ demanded' = next
      BY <1>1, <2>3, ProgramAssumption
         DEF ChangeStage, IInv, TypeOK, Settled, InWarmup
    <3>. QED
      BY <1>1, <3>1 DEF IInv, Minimum
  <2>. QED
    BY <2>1, <2>2, <2>3
<1>. QED
  BY <1>1, Inductive, PTL DEF Spec, ChangeStands

-----------------------------------------------------------------------------
(* What an emergency stage waits for through the last part of a scan.      *)
Cuts ==
  /\ block = "maximum" /\ marker = CheckingEndsat => hold = None
  /\ block \in {"A", "C"} /\ nextFor = Emergency /\ wait = 0
       /\ marker \in {CheckingEndsat, DelayAndStops, MaxExpired} => ext = Emergency

(* Every step keeps it.                                                    *)
LEMMA CutsStep ==
  ASSUME TypeOK, Control, Cuts, Next
  PROVE  Cuts'
<1>. USE ProgramAssumption, StagesInRange DEF StartIntergreen,
        ContinuedIntergreen, AbsMin, VarMin, CheckingEndsat, DelayAndStops,
        DemandingChange, MaxExpired, WaitingChange, EPChange, Intergreen,
        TypeOK, Control, Cuts, None, Emergency, Priority, Normal, stageVars,
        timers, nextVars, epVars
<1>1. CASE EndGreen
  BY <1>1 DEF EndGreen, EndOfStage, ScanInitialUpdates
<1>2. CASE ContinueIntergreen
  BY <1>2 DEF ContinueIntergreen, SameStage, ScanInitialUpdates, Tick
<1>3. ASSUME NEW s \in Stages, Green(s)
      PROVE  Cuts'
  BY <1>3 DEF Green, GreenMarker, SameStage, ScanInitialUpdates, Tick
<1>4. ASSUME NEW s \in Stages, ChangeWithoutIntergreen(s)
      PROVE  Cuts'
  BY <1>4 DEF ChangeWithoutIntergreen, GreenMarker, EndOfStage, ScanInitialUpdates
<1>5. CASE WarmupCheck
  BY <1>5 DEF WarmupCheck, StartOfGreen, AfterWarmupCheck, GSCheck, InWarmup
<1>6. CASE NoDemand
  BY <1>6 DEF NoDemand
<1>7. ASSUME NEW s \in Stages, NEW kind \in {Emergency, Priority, Normal}, NextStage(s, kind)
      PROVE  Cuts'
  BY <1>7 DEF NextStage, Tick
<1>8. CASE MinimaOver
  BY <1>8 DEF MinimaOver
<1>9. CASE LinkMinimum
  BY <1>9 DEF LinkMinimum, Holds
<1>10. CASE LinkHeld
  BY <1>10 DEF LinkHeld, Holds
<1>11. CASE LinksFree
  BY <1>11 DEF LinksFree
<1>12. ASSUME NEW expired \in BOOLEAN, NEW e \in BOOLEAN, NEW p \in BOOLEAN,
         NEW truncate \in BOOLEAN, Maximum(expired, e, p, truncate)
      PROVE  Cuts'
  <2>1. CASE Kept(e, p, expired) /\ marker' = marker
    BY <1>12, <2>1 DEF Maximum, Kept
  <2>2. CASE /\ NotKept(e, p, expired)
             /\ marker' = IF nextFor = Emergency \/ (nextFor = Priority /\ truncate)
                            THEN EPChange
                          ELSE IF expired THEN MaxExpired ELSE marker
    BY <1>12, <2>2 DEF Maximum
  <2>. QED
    BY <1>12, <2>1, <2>2 DEF Maximum
<1>13. CASE SkipInWarmup
  BY <1>13 DEF SkipInWarmup, EndScan
<1>14. CASE Cut
  BY <1>14 DEF Cut
<1>15. CASE EndEarly
  BY <1>15 DEF EndEarly, EndScan
<1>16. CASE StillSaturated
  BY <1>16 DEF StillSaturated, EndScan
<1>17. ASSUME NEW decision \in Decisions, EndOfSaturation(decision)
      PROVE  Cuts'
  BY <1>17 DEF EndOfSaturation, EndScan
<1>18. CASE ChangeStage
  BY <1>18 DEF ChangeStage
<1>19. CASE SwitchOff
  BY <1>19 DEF SwitchOff
<1>20. CASE WarmupAgain
  BY <1>20 DEF WarmupAgain, InWarmup
<1>. QED
  BY <1>1, <1>2, <1>3, <1>4, <1>5, <1>6, <1>7, <1>8, <1>9, <1>10, <1>11,
     <1>12, <1>13, <1>14, <1>15, <1>16, <1>17, <1>18, <1>19, <1>20
     DEF Next, Scan, BlockA, BlockB, BlocksCD

(* With the minima over, an emergency stage only waits for an emergency    *)
(* extension: not for a priority vehicle nor for the end of saturation.    *)
THEOREM EmergencyCutsHolds == Spec => []EmergencyCuts
<1>1. Init => Cuts
  BY DEF Init, Cuts, CheckingEndsat, DelayAndStops, MaxExpired, ContinuedIntergreen,
     None, Emergency, Priority, Normal
<1>2. TypeOK /\ Control /\ Cuts /\ [Next]_vars => Cuts'
  BY CutsStep DEF vars, stageVars, timers, nextVars, epVars, Cuts
<1>3. IInv => TypeOK /\ Control
  BY DEF IInv
<1>4. Cuts => EmergencyCuts
  BY DEF Cuts, EmergencyCuts
<1>. QED
  BY <1>1, <1>2, <1>3, <1>4, Inductive, PTL DEF Spec

-----------------------------------------------------------------------------
(* What the main loop sees is a record of two fields.                      *)
LEMMA SeenFields ==
  Seen = [warmup |-> Seen.warmup, green |-> Seen.green]
  /\ Seen.warmup = warmup /\ Seen.green \in {0, 1}
BY DEF Seen

(* Its fields, set one after the other or alone.                           *)
LEMMA SeenExcept ==
  ASSUME NEW a, NEW b, NEW c, NEW d, NEW v,
         v = [warmup |-> a, green |-> b]
  PROVE  /\ [v EXCEPT !.green = d, !.warmup = c] = [warmup |-> c, green |-> d]
         /\ [v EXCEPT !.warmup = c] = [warmup |-> c, green |-> b]
<1>. DEFINE u == [v EXCEPT !.green = d]
<1>1. u = [warmup |-> a, green |-> d]
  OBVIOUS
<1>2. [u EXCEPT !.warmup = c] = [warmup |-> c, green |-> d]
  <2>. HIDE DEF u
  <2>. QED
    BY <1>1
<1>3. [v EXCEPT !.green = d, !.warmup = c] = [u EXCEPT !.warmup = c]
  OBVIOUS
<1>4. [v EXCEPT !.warmup = c] = [warmup |-> c, green |-> b]
  OBVIOUS
<1>. QED
  BY <1>2, <1>3, <1>4

(* The warm-up check is the only step of a scan that the main loop sees,   *)
(* and it sees it count as Monitr lets it.                                 *)
LEMMA CountedStep ==
  ASSUME TypeOK, Control, WarmupCheck
  PROVE  Seen' = Counted(Seen, current, NStages)
<1>. DEFINE g == IF current = Intergreen THEN 0 ELSE 1
            w == IF (current # 0 /\ Seen.green = 0) /\ warmup <= NStages
                   THEN warmup + 1 ELSE warmup
<1>1. Counted(Seen, current, NStages) = [Seen EXCEPT !.green = g, !.warmup = w]
  BY SeenFields DEF Counted, Intergreen
<1>2. Seen.green = 0 <=> previousMarker <= ContinuedIntergreen
  BY DEF WarmupCheck, Control, Seen
<1>3. warmup' = w
  BY <1>2 DEF WarmupCheck, Control, StartOfGreen, InWarmup, TypeOK, Intergreen,
              ContinuedIntergreen
<1>4. Seen' = [warmup |-> warmup', green |-> g]
  BY DEF Seen, WarmupCheck, AfterWarmupCheck, stageVars
<1>. HIDE DEF g, w
<1>. QED
  BY <1>1, <1>3, <1>4, SeenFields, SeenExcept

(* Whatever the markers went through, a scan counts a start of green       *)
(* exactly when Monitr's scan does, and only a switch-off or a shortened   *)
(* warm-up changes otherwise what the main loop sees: the abstraction of   *)
(* the program controller in its ticks is sound.                           *)
THEOREM LoopCountsGreens == Spec => CountsForLoop
<1>. DEFINE Off == [warmup |-> -1, green |-> 0]
            Right == IF block = "warm-up"
                       THEN Seen' = Counted(Seen, current, NStages)
                       ELSE Seen' \in {Seen, [Seen EXCEPT !.warmup = NStages], Off}
<1>1. IInv /\ IInv' /\ [Next]_vars => [Right]_vars
  <2>. SUFFICES ASSUME TypeOK, Control, Next PROVE Right
    BY DEF IInv
  <2>1. CASE WarmupCheck
    BY <2>1, CountedStep DEF WarmupCheck
  <2>2. CASE SwitchOff
    BY <2>2 DEF SwitchOff, Seen, Intergreen
  <2>3. CASE WarmupAgain
    <3>1. /\ block = "A" /\ block' = "A"
          /\ warmup' = NStages /\ current' = current
      BY <2>3 DEF WarmupAgain, stageVars
    <3>2. Seen' = [warmup |-> NStages, green |-> Seen.green]
      BY <3>1 DEF Seen
    <3>3. [Seen EXCEPT !.warmup = NStages]
            = [warmup |-> NStages, green |-> Seen.green]
      BY SeenFields
    <3>. QED
      BY <3>1, <3>2, <3>3
  <2>4. CASE BlockA
    <3>1. /\ block = "A" /\ block' = "warm-up"
          /\ warmup' = warmup /\ previous' = current
      BY <2>4 DEF BlockA, EndGreen, ContinueIntergreen, Green,
                  ChangeWithoutIntergreen, ScanInitialUpdates
    <3>. QED
      BY <3>1 DEF Seen
  <2>5. CASE BlockB \/ BlocksCD \/ ChangeStage
    <3>1. /\ block # "warm-up" /\ block' # "warm-up"
          /\ warmup' = warmup /\ current' = current
      BY <2>5 DEF BlockB, NoDemand, NextStage, MinimaOver, LinkMinimum,
           LinkHeld, LinksFree, Maximum, BlocksCD, SkipInWarmup, Cut, EndEarly,
           StillSaturated, EndOfSaturation, EndScan, ChangeStage, stageVars
    <3>. QED
      BY <3>1 DEF Seen
  <2>. QED
    BY <2>1, <2>2, <2>3, <2>4, <2>5 DEF Next, Scan
<1>. QED
  BY <1>1, Inductive, PTL DEF Spec, CountsForLoop
=============================================================================
