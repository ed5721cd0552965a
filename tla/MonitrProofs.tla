---------------------------- MODULE MonitrProofs ----------------------------
(***************************************************************************)
(* Proofs about Monitr, for any number of stages, any banned changes and   *)
(* any number of ticks in a frame.                                         *)
(*                                                                         *)
(* The fault machine remembers the last frame only through old31, so the   *)
(* invariant ties old31 to the samples; that MOVA stays off between two    *)
(* faulty frames needs a bound on the warm-up, since InputScan() goes on   *)
(* counting starts of green: it scans once between two frames, which is    *)
(* what the counters of ticks say.                                         *)
(*                                                                         *)
(* First the scan of the confirms by itself (the instance D of StageScan). *)
(* TypeOK and Coupled are inductive together: what two scans in succession *)
(* mean is only known of the readings while savstg is the last reading,    *)
(* and the counter of wrong stages moves only from a stage to another.     *)
(***************************************************************************)
EXTENDS Monitr, TLAPS

ScanInv == D!TypeOK /\ D!Coupled

(* A reading is a stage or none.                                           *)
LEMMA ReadingType ==
  ASSUME confin \in SUBSET D!Stages
  PROVE  D!Reading \in 0..NStages
<1>1. CASE confin = {}
  BY <1>1, StageScanAssumption DEF D!Reading
<1>2. CASE confin # {}
  <2> DEFINE t == CHOOSE s \in confin : TRUE
  <2>1. t \in confin
    BY <1>2
  <2>2. D!Reading = t
    BY <1>2 DEF D!Reading
  <2> HIDE DEF t
  <2> QED BY <2>1, <2>2, StageScanAssumption DEF D!Stages
<1> QED BY <1>1, <1>2

(* What a scan does to an accepted reading: the conjuncts that the two     *)
(* invariants and ConfirmedTwice need, action by action.                   *)
LEMMA ScanStep ==
  ASSUME ScanInv, D!Scan
  PROVE  /\ ScanInv'
         /\ snow' # snow => newstg' = snow' /\ (newstg = snow' \/ multi' = 1)
<1> USE StageScanAssumption
<1>1. CASE D!SeveralConfirms /\ D!MultipleStages
  BY <1>1 DEF ScanInv, D!TypeOK, D!Coupled, D!Scan, D!MultipleStages
<1>2. CASE /\ ~D!SeveralConfirms /\ newstg' = D!Reading /\ multi' = 0
           /\ D!Reading = 0 /\ D!Intergreen
  <2>1. confin' = confin
    BY DEF D!Scan
  <2>2. newstg' = 0 /\ savstg' = 0 /\ multi' = 0 /\ wrongCount' = wrongCount
    BY <1>2 DEF D!Intergreen
  <2>3. CASE oldstg # 0 /\ savstg = 0
    BY <1>2, <2>1, <2>2, <2>3 DEF ScanInv, D!TypeOK, D!Coupled, D!Intergreen
  <2>4. CASE ~(oldstg # 0 /\ savstg = 0)
    BY <1>2, <2>1, <2>2, <2>4 DEF ScanInv, D!TypeOK, D!Coupled, D!Intergreen
  <2> QED BY <2>3, <2>4
<1>3. CASE /\ ~D!SeveralConfirms /\ newstg' = D!Reading /\ multi' = 0
           /\ D!Reading # 0 /\ D!OneStage(D!Reading)
  <2> DEFINE s == D!Reading
  <2>1. s \in 0..NStages
    BY ReadingType DEF ScanInv, D!TypeOK
  <2>2. confin' = confin /\ newstg' = s /\ savstg' = s /\ multi' = 0
    BY <1>3 DEF D!Scan, D!OneStage
  <2> HIDE DEF s
  <2>3. CASE D!FirstScan(s) /\ UNCHANGED <<oldstg, snow, wrongCount>>
    BY <2>1, <2>2, <2>3 DEF ScanInv, D!TypeOK, D!Coupled
  <2>4. CASE ~D!FirstScan(s) /\ D!Accept(s)
    BY <2>1, <2>2, <2>4 DEF ScanInv, D!TypeOK, D!Coupled, D!FirstScan, D!Accept
  <2>5. CASE ~D!FirstScan(s) /\ D!WrongStage(s)
    <3>1. CASE wrongCount + 1 >= WrongScans
      BY <2>4, <2>5, <3>1 DEF D!WrongStage
    <3>2. CASE ~(wrongCount + 1 >= WrongScans)
      <4>1. /\ wrongCount' = wrongCount + 1
            /\ UNCHANGED <<oldstg, snow>>
        BY <2>5, <3>2 DEF D!WrongStage
      <4>2. wrongCount' \in 0..WrongScans - 1
        BY <3>2, <4>1 DEF ScanInv, D!TypeOK
      <4> QED BY <2>1, <2>2, <4>1, <4>2 DEF ScanInv, D!TypeOK, D!Coupled
    <3> QED BY <3>1, <3>2
  <2> QED BY <1>3, <2>3, <2>4, <2>5 DEF D!OneStage, s
<1> QED BY <1>1, <1>2, <1>3 DEF D!Scan

LEMMA ConfirmsStep ==
  ASSUME ScanInv, D!Confirms \/ UNCHANGED D!vars
  PROVE  ScanInv' /\ snow' = snow
BY DEF ScanInv, D!TypeOK, D!Coupled, D!Confirms, D!vars, D!scanned

(* The variables stay in range and the statics of detscn() agree with the  *)
(* stage the rest of the kernel is shown.                                  *)
THEOREM StaysCoupled == D!Spec => [](D!TypeOK /\ D!Coupled)
<1>1. D!Init => ScanInv
  BY StageScanAssumption DEF D!Init, ScanInv, D!TypeOK, D!Coupled
<1>2. ScanInv /\ [D!Next]_(D!vars) => ScanInv'
  BY ScanStep, ConfirmsStep DEF D!Next
<1> QED BY <1>1, <1>2, PTL DEF D!Spec, ScanInv

(* The stage shown changes only to what two scans in succession read, or   *)
(* to an intergreen on several confirms: the debouncing of detscn().       *)
THEOREM StagesConfirmedTwice == D!Spec => D!ConfirmedTwice
<1>1. ScanInv /\ [D!Next]_(D!vars)
        => [snow' # snow => newstg' = snow' /\ (newstg = snow' \/ multi' = 1)]_(D!vars)
  BY ScanStep, ConfirmsStep DEF D!Next
<1>2. D!Spec => []ScanInv
  BY StaysCoupled DEF ScanInv
<1> QED BY <1>1, <1>2, PTL DEF D!Spec, D!ConfirmedTwice

-----------------------------------------------------------------------------
(* The loop around it.                                                     *)

(* The state of the fault says what the last frame saw.                    *)
Remembers == samples[2] = 1 <=> old31 \in {Suspected, Stopped}

(* Between two faulty frames InputScan() has scanned at most once.         *)
HeldDown ==
  samples = <<1, 1>> =>
    /\ mova.onControl = 0 /\ mova.forced = 0
    /\ mova.warmup <= 0
    /\ phase # "frame" /\ updateCount <= scanDiv => mova.warmup = -1

Inv == TypeOK /\ Remembers /\ HeldDown

-----------------------------------------------------------------------------
(* A counter of ticks stays in its range and starts again at the end.      *)
LEMMA FollowingRange ==
  ASSUME NEW c \in 0..FrameTicks - 1
  PROVE  /\ Following(c) \in 0..FrameTicks - 1
         /\ Following(c) = c + 1 \/ (Following(c) = 0 /\ c = FrameTicks - 1)
BY MonitrAssumption, StageScanAssumption DEF Following

(* genstg() changes neither the warm-up nor what the frame counts of it.   *)
LEMMA GenstgKeeps ==
  ASSUME NEW m \in MovaType, NEW n \in GenstgOutcomes(m)
  PROVE  n \in MovaType /\ n.warmup = m.warmup /\ n.scans = m.scans
<1>1. PICK on \in {0, 1}, f \in {0, 1} :
        n = [m EXCEPT !.onControl = on, !.forced = f]
  BY DEF GenstgOutcomes, Leaves
<1>2. m = [warmup |-> m.warmup, green |-> m.green, onControl |-> m.onControl,
           forced |-> m.forced, scans |-> m.scans]
  BY DEF MovaType
<1>3. n = [warmup |-> m.warmup, green |-> m.green, onControl |-> on,
           forced |-> f, scans |-> m.scans]
  BY <1>1, <1>2
<1> QED BY <1>3 DEF MovaType

LEMMA GSCheckKeeps ==
  ASSUME NEW m \in MovaType, NEW n \in GSCheckOutcomes(m)
  PROVE  n \in MovaType /\ n.warmup = m.warmup /\ n.scans = m.scans
<1>1. CASE n = m
  BY <1>1
<1>2. CASE n # m
  <2>1. PICK on \in {0, 1} : n \in GenstgOutcomes([m EXCEPT !.onControl = on])
    BY <1>2 DEF GSCheckOutcomes
  <2> DEFINE o == [m EXCEPT !.onControl = on]
  <2>2. o \in MovaType /\ o.warmup = m.warmup /\ o.scans = m.scans
    BY DEF MovaType
  <2>3. n \in GenstgOutcomes(o)
    BY <2>1
  <2> HIDE DEF o
  <2> QED BY <2>2, <2>3, GenstgKeeps
<1> QED BY <1>1, <1>2

(* A scan of the program controller counts one start of green at most, and *)
(* leaves control and forces alone until the warm-up is complete.          *)
LEMMA ScanCounts ==
  ASSUME NEW m \in MovaType, NEW stage, NEW n \in ScanOutcomes(m, stage)
  PROVE  /\ n \in MovaType
         /\ n.scans = m.scans + 1
         /\ m.warmup < NStages =>
              /\ n.warmup \in {m.warmup, m.warmup + 1}
              /\ n.onControl = m.onControl /\ n.forced = m.forced
<1> USE MonitrAssumption, StageScanAssumption
<1> DEFINE start == stage # 0 /\ m.green = 0
           counted == Counted(m, stage, NStages)
           after == [counted EXCEPT !.scans = @ + 1]
<1>1. /\ after \in MovaType
      /\ after.scans = m.scans + 1
      /\ after.warmup \in {m.warmup, m.warmup + 1}
      /\ after.onControl = m.onControl /\ after.forced = m.forced
  <2> DEFINE g == IF stage = 0 THEN 0 ELSE 1
             w == IF start /\ InWarmup(m) THEN m.warmup + 1 ELSE m.warmup
  <2>1. g \in {0, 1}
    OBVIOUS
  <2>2. w \in -1..NStages + 1 /\ w \in {m.warmup, m.warmup + 1}
    BY DEF MovaType, InWarmup
  <2>3. m = [warmup |-> m.warmup, green |-> m.green, onControl |-> m.onControl,
             forced |-> m.forced, scans |-> m.scans]
    BY DEF MovaType
  <2>4. counted = [m EXCEPT !.green = g, !.warmup = w]
    BY DEF Counted, InWarmup
  <2> HIDE DEF g, w, counted
  <2>5. counted = [warmup |-> w, green |-> g, onControl |-> m.onControl,
                   forced |-> m.forced, scans |-> m.scans]
    BY <2>3, <2>4
  <2>6. after = [warmup |-> w, green |-> g, onControl |-> m.onControl,
                 forced |-> m.forced, scans |-> m.scans + 1]
    BY <2>5
  <2>7. m.scans + 1 \in Nat
    BY DEF MovaType
  <2> QED BY <2>1, <2>2, <2>6, <2>7 DEF MovaType
<1>2. \/ n = after
      \/ InWarmup(m) /\ ~InWarmup(after) /\ n \in GSCheckOutcomes(after)
  BY DEF ScanOutcomes
<1> HIDE DEF after
<1>3. CASE n = after
  BY <1>1, <1>3
<1>4. CASE InWarmup(m) /\ ~InWarmup(after) /\ n \in GSCheckOutcomes(after)
  <2>1. ~(m.warmup < NStages)
    BY <1>1, <1>4 DEF InWarmup, MovaType
  <2> QED BY <1>1, <1>4, <2>1, GSCheckKeeps
<1> QED BY <1>2, <1>3, <1>4

LEMMA UpdateCounts ==
  ASSUME NEW m \in MovaType, NEW stage, NEW n \in UpdateOutcomes(m, stage)
  PROVE  /\ n \in MovaType
         /\ n.scans = m.scans + 1
         /\ m.warmup < NStages => n.warmup \in {m.warmup, m.warmup + 1}
<1>1. PICK o \in ScanOutcomes(m, stage) : n = o \/ n \in GenstgOutcomes(o)
  <2>1. PICK o \in ScanOutcomes(m, stage) :
          n \in IF InWarmup(o) THEN {o} ELSE GenstgOutcomes(o)
    BY DEF UpdateOutcomes
  <2> QED BY <2>1
<1>2. /\ o \in MovaType /\ o.scans = m.scans + 1
      /\ m.warmup < NStages => o.warmup \in {m.warmup, m.warmup + 1}
  BY ScanCounts
<1> QED BY <1>1, <1>2, GenstgKeeps

(* A call of mova() goes on or scans, and scans only past its first two    *)
(* calls.                                                                  *)
LEMMA MovaCounts ==
  ASSUME NEW m \in MovaType, m.scans = mova.scans, Mova(m)
  PROVE  /\ mova' \in MovaType
         /\ resume' \in {"initStart", "initEnd", "updateEnd"}
         /\ MovaCalled
         /\ mova'.scans = IF resume = "updateEnd" THEN mova.scans + 1
                          ELSE mova.scans
         /\ m.warmup < NStages => mova'.warmup \in {m.warmup, m.warmup + 1}
<1> USE DEF Mova, MovaCalled
<1>1. CASE resume = "initStart"
  <2>1. m = [warmup |-> m.warmup, green |-> m.green, onControl |-> m.onControl,
             forced |-> m.forced, scans |-> m.scans]
    BY DEF MovaType
  <2>2. mova' = [m EXCEPT !.onControl = 0] /\ resume' = "initEnd"
    BY <1>1
  <2>3. mova' = [warmup |-> m.warmup, green |-> m.green, onControl |-> 0,
                 forced |-> m.forced, scans |-> m.scans]
    BY <2>1, <2>2
  <2>4. mova' \in MovaType /\ mova'.scans = m.scans /\ mova'.warmup = m.warmup
    BY <2>3 DEF MovaType
  <2> QED BY <1>1, <2>2, <2>4
<1>2. CASE resume = "initEnd"
  BY <1>2
<1>3. CASE resume = "updateEnd"
  <2>1. mova' \in UpdateOutcomes(m, snow) /\ resume' = resume
    BY <1>3
  <2>2. /\ mova' \in MovaType /\ mova'.scans = m.scans + 1
        /\ m.warmup < NStages => mova'.warmup \in {m.warmup, m.warmup + 1}
    BY <2>1, UpdateCounts
  <2>3. m.scans \in Nat
    BY DEF MovaType
  <2>4. MovaCalled
    BY <2>2, <2>3
  <2>5. mova'.scans = mova.scans + 1
    BY <2>2
  <2>6. resume' \in {"initStart", "initEnd", "updateEnd"}
    BY <1>3, <2>1
  <2> HIDE DEF Mova, MovaCalled
  <2> QED BY <1>3, <2>2, <2>4, <2>5, <2>6
<1> QED BY <1>1, <1>2, <1>3

(* Taking MOVA off, and counting a new frame.                              *)
LEMMA OffKeeps ==
  ASSUME NEW m \in MovaType
  PROVE  /\ Off(m) \in MovaType
         /\ Off(m).scans = m.scans
         /\ Off(m).onControl = 0 /\ Off(m).forced = 0 /\ Off(m).warmup = -1
<1>1. m = [warmup |-> m.warmup, green |-> m.green, onControl |-> m.onControl,
           forced |-> m.forced, scans |-> m.scans]
  BY DEF MovaType
<1> DEFINE n == Off(m)
<1>def. n = [m EXCEPT !.onControl = 0, !.forced = 0, !.warmup = -1, !.green = 0]
  BY DEF Off
<1> HIDE DEF n
<1>2. n = [warmup |-> -1, green |-> 0, onControl |-> 0,
                forced |-> 0, scans |-> m.scans]
  BY <1>1, <1>def
<1>3. m.scans \in Nat
  BY DEF MovaType
<1>4. -1 \in -1..NStages + 1
  BY MonitrAssumption, StageScanAssumption
<1> QED BY <1>2, <1>3, <1>4 DEF MovaType, n

LEMMA ColdKeeps ==
  ASSUME NEW m \in MovaType
  PROVE  LET cold == [m EXCEPT !.warmup = -1, !.green = 0]
         IN  cold \in MovaType /\ cold.warmup = -1 /\ cold.scans = m.scans
<1> DEFINE cold == [m EXCEPT !.warmup = -1, !.green = 0]
<1>1. m = [warmup |-> m.warmup, green |-> m.green, onControl |-> m.onControl,
           forced |-> m.forced, scans |-> m.scans]
  BY DEF MovaType
<1>2. cold = [m EXCEPT !.warmup = -1, !.green = 0]
  OBVIOUS
<1> HIDE DEF cold
<1>3. cold = [warmup |-> -1, green |-> 0, onControl |-> m.onControl,
              forced |-> m.forced, scans |-> m.scans]
  BY <1>1, <1>2
<1>4. cold \in MovaType /\ cold.warmup = -1 /\ cold.scans = m.scans
  BY <1>3, MonitrAssumption, StageScanAssumption DEF MovaType
<1> QED BY <1>4 DEF cold

LEMMA NewFrameKeeps ==
  ASSUME NEW m \in MovaType
  PROVE  /\ NewFrame(m) \in MovaType /\ NewFrame(m).scans = 0
         /\ NewFrame(m).onControl = m.onControl /\ NewFrame(m).forced = m.forced
         /\ NewFrame(m).warmup = m.warmup
<1>1. m = [warmup |-> m.warmup, green |-> m.green, onControl |-> m.onControl,
           forced |-> m.forced, scans |-> m.scans]
  BY DEF MovaType
<1> DEFINE n == NewFrame(m)
<1>def. n = [m EXCEPT !.scans = 0]
  BY DEF NewFrame
<1> HIDE DEF n
<1>2. n = [warmup |-> m.warmup, green |-> m.green,
                     onControl |-> m.onControl, forced |-> m.forced,
                     scans |-> 0]
  BY <1>1, <1>def
<1>3. /\ m.warmup \in -1..NStages + 1 /\ m.green \in {0, 1}
      /\ m.onControl \in {0, 1} /\ m.forced \in {0, 1}
  BY DEF MovaType
<1> QED BY <1>2, <1>3 DEF MovaType, n

-----------------------------------------------------------------------------
(* One lemma for each action.                                              *)
LEMMA DetscnStep ==
  ASSUME Inv, Detscn
  PROVE  Inv'
<1> USE MonitrAssumption, StageScanAssumption
<1>1. /\ updateCount' \in 0..FrameTicks - 1
      /\ updateCount' = updateCount + 1 \/ (updateCount' = 0 /\ updateCount = FrameTicks - 1)
      /\ scanDiv' \in 0..FrameTicks - 1
      /\ scanDiv' = scanDiv + 1 \/ (scanDiv' = 0 /\ scanDiv = FrameTicks - 1)
  BY FollowingRange DEF Inv, TypeOK, Detscn, InputScan
<1>2. /\ mova' \in MovaType
      /\ \/ mova' = mova /\ scanDiv' # 0
         \/ scanDiv' = 0 /\ mova' \in ScanOutcomes(mova, snow')
  <2>1. CASE scanDiv' = 0
    BY <2>1, ScanCounts DEF Inv, TypeOK, Detscn, InputScan
  <2>2. CASE scanDiv' # 0
    BY <2>2 DEF Inv, TypeOK, Detscn, InputScan
  <2> QED BY <2>1, <2>2
<1>3. multi' \in {0, 1}
  BY DEF Inv, TypeOK, Detscn, D!Scan, D!MultipleStages, confirms
<1>4. /\ UNCHANGED <<genstgDiv, old31, resume, samples>>
      /\ phase = "scan"
      /\ phase' = IF updateCount' = 0 THEN "frame" ELSE "drive"
  BY DEF Detscn
<1>5. TypeOK'
  BY <1>1, <1>2, <1>3, <1>4 DEF Inv, TypeOK
<1>6. Remembers'
  BY <1>4 DEF Inv, Remembers
<1>7. HeldDown'
  <2> SUFFICES ASSUME samples' = <<1, 1>>
               PROVE  /\ mova'.onControl = 0 /\ mova'.forced = 0
                      /\ mova'.warmup <= 0
                      /\ phase' # "frame" /\ updateCount' <= scanDiv'
                           => mova'.warmup = -1
    BY DEF HeldDown
  <2>1. /\ mova.onControl = 0 /\ mova.forced = 0 /\ mova.warmup <= 0
        /\ updateCount <= scanDiv => mova.warmup = -1
    BY <1>4 DEF Inv, HeldDown
  <2>2. mova \in MovaType /\ updateCount \in Nat /\ scanDiv \in Nat
        /\ updateCount <= FrameTicks - 1
    BY DEF Inv, TypeOK
  <2>3. CASE mova' = mova /\ scanDiv' # 0
    <3>1. scanDiv' = scanDiv + 1
      BY <1>1, <2>3
    <3>2. phase' # "frame" => updateCount' = updateCount + 1
      BY <1>1, <1>4
    <3> QED BY <2>1, <2>2, <2>3, <3>1, <3>2
  <2>4. CASE scanDiv' = 0 /\ mova' \in ScanOutcomes(mova, snow')
    <3>1. scanDiv = FrameTicks - 1
      BY <1>1, <2>2, <2>4
    <3>2. mova.warmup = -1
      BY <2>1, <2>2, <3>1
    <3>3. /\ mova'.warmup \in {-1, 0}
          /\ mova'.onControl = 0 /\ mova'.forced = 0
      BY <2>1, <2>2, <2>4, <3>2, ScanCounts
    <3>4. phase' # "frame" => ~(updateCount' <= scanDiv')
      BY <1>1, <1>4, <2>2, <2>4
    <3> QED BY <3>3, <3>4
  <2> QED BY <1>2, <2>3, <2>4
<1> QED BY <1>5, <1>6, <1>7 DEF Inv

(* What every frame does besides its outcome.                              *)
LEMMA FrameStep ==
  ASSUME Inv, FrameEnds, mova' \in MovaType,
         resume' \in {"initStart", "initEnd", "updateEnd"},
         old31' \in {NoFault, Suspected, Stopped, Clearing},
         multi = 1 <=> old31' \in {Suspected, Stopped},
         multi = 1 /\ samples[2] = 1 => mova' = Off(mova)
  PROVE  Inv'
<1>1. /\ UNCHANGED <<updateCount, scanDiv, genstgDiv, multi>>
      /\ phase' = "drive"
      /\ samples' = <<samples[2], multi>>
  BY DEF FrameEnds, confirms, counters
<1>2. samples' \in {0, 1} \X {0, 1} /\ samples'[1] = samples[2] /\ samples'[2] = multi
  BY <1>1 DEF Inv, TypeOK
<1>3. TypeOK'
  BY <1>1, <1>2 DEF Inv, TypeOK
<1>4. Remembers'
  BY <1>2 DEF Remembers
<1>5. HeldDown'
  <2> SUFFICES ASSUME samples' = <<1, 1>>
               PROVE  /\ mova'.onControl = 0 /\ mova'.forced = 0
                      /\ mova'.warmup <= 0
                      /\ mova'.warmup = -1
    BY DEF HeldDown
  <2>1. multi = 1 /\ samples[2] = 1
    BY <1>2
  <2>2. mova' = Off(mova)
    BY <2>1
  <2>3. /\ Off(mova).onControl = 0 /\ Off(mova).forced = 0
        /\ Off(mova).warmup = -1
    BY OffKeeps DEF Inv, TypeOK
  <2> QED BY <2>2, <2>3
<1> QED BY <1>3, <1>4, <1>5 DEF Inv

(* Where the fault was says which of the last two frames were faulty,      *)
(* whether mova() is called in this one, and whether it scans.             *)
LEMMA FrameOutcomes ==
  ASSUME Inv, Frame
  PROVE  /\ Inv'
         /\ samples' = <<samples[2], multi>>
         /\ samples[2] = 0 /\ multi = 0 <=> MovaCalled
         /\ mova'.scans = IF samples[2] = 0 /\ multi = 0 /\ resume = "updateEnd"
                          THEN mova.scans + 1 ELSE mova.scans
         /\ old31 = Clearing /\ old31' = NoFault => mova'.warmup <= 0
<1> USE DEF NoFault, Suspected, Stopped, Clearing
<1>0. /\ mova \in MovaType /\ multi \in {0, 1}
      /\ samples[2] \in {0, 1}
      /\ samples[2] = 1 <=> old31 \in {Suspected, Stopped}
      /\ mova.scans \in Nat
      /\ resume \in {"initStart", "initEnd", "updateEnd"}
      /\ UNCHANGED <<resume, mova>> => ~MovaCalled
  BY DEF Inv, TypeOK, Remembers, MovaType, MovaCalled
<1>1. CASE CallMova
  <2>1. /\ mova' \in MovaType
        /\ resume' \in {"initStart", "initEnd", "updateEnd"}
        /\ MovaCalled
        /\ mova'.scans = IF resume = "updateEnd" THEN mova.scans + 1 ELSE mova.scans
    BY <1>0, <1>1, MovaCounts DEF CallMova
  <2>2. multi = 0 /\ old31 = 0 /\ old31' = 0 /\ FrameEnds
    BY <1>1 DEF CallMova
  <2>3. Inv'
    BY <2>1, <2>2, FrameStep
  <2> QED BY <1>0, <2>1, <2>2, <2>3 DEF FrameEnds
<1>2. CASE Suspect
  <2>1. /\ multi = 1 /\ old31 \in {0, -1} /\ FrameEnds /\ mova' = mova
        /\ old31' \in {1, 2} /\ resume' = resume
    BY <1>2 DEF Suspect
  <2>2. Inv'
    BY <1>0, <2>1, FrameStep
  <2> QED BY <1>0, <2>1, <2>2 DEF FrameEnds
<1>3. CASE SwitchOff
  <2>1. /\ multi = 1 /\ FrameEnds /\ mova' = Off(mova) /\ old31' = 2
        /\ resume' = resume
    BY <1>3 DEF SwitchOff
  <2>2. mova' \in MovaType /\ mova'.scans = mova.scans /\ ~MovaCalled
    BY <1>0, <2>1, OffKeeps DEF MovaCalled
  <2>3. Inv'
    BY <1>0, <2>1, <2>2, FrameStep
  <2> QED BY <1>0, <2>1, <2>2, <2>3 DEF FrameEnds
<1>4. CASE Glitch
  <2>1. /\ multi = 0 /\ old31 \in {1, 2} /\ FrameEnds /\ mova' = mova
        /\ old31' \in {0, -1} /\ resume' = resume
    BY <1>4 DEF Glitch
  <2>2. Inv'
    BY <1>0, <2>1, FrameStep
  <2> QED BY <1>0, <2>1, <2>2 DEF FrameEnds
<1>5. CASE Restart
  <2> DEFINE cold == [mova EXCEPT !.warmup = -1, !.green = 0]
  <2>1. cold \in MovaType /\ cold.warmup = -1 /\ cold.scans = mova.scans
    BY <1>0, ColdKeeps
  <2>2. multi = 0 /\ old31 = -1 /\ old31' = 0 /\ FrameEnds
        /\ Mova(cold)
    BY <1>5 DEF Restart
  <2> HIDE DEF cold
  <2>3. /\ mova' \in MovaType
        /\ resume' \in {"initStart", "initEnd", "updateEnd"}
        /\ MovaCalled
        /\ mova'.scans = IF resume = "updateEnd" THEN mova.scans + 1 ELSE mova.scans
        /\ mova'.warmup \in {-1, 0}
    BY <2>1, <2>2, MovaCounts, MonitrAssumption, StageScanAssumption
  <2>4. Inv'
    BY <2>2, <2>3, FrameStep
  <2> QED BY <1>0, <2>2, <2>3, <2>4 DEF FrameEnds
<1> QED BY <1>1, <1>2, <1>3, <1>4, <1>5 DEF Frame

LEMMA DriveStep ==
  ASSUME Inv, Drive
  PROVE  Inv'
<1>1. /\ UNCHANGED <<updateCount, scanDiv, old31, resume, samples, multi>>
      /\ phase = "drive" /\ phase' = "scan"
  BY DEF Drive, confirms
<1>2. genstgDiv' \in 0..FrameTicks - 1
  BY FollowingRange DEF Inv, TypeOK, Drive
<1>3. mova \in MovaType
  BY DEF Inv, TypeOK
<1>4. /\ mova' \in MovaType
      /\ mova.onControl = 0 => /\ mova'.onControl = 0 /\ mova'.forced = mova.forced
                               /\ mova'.warmup = mova.warmup
  <2>1. CASE /\ genstgDiv' = 0 /\ mova.onControl = 1
             /\ \E m \in GenstgOutcomes(mova) :
                  mova' = IF updateCount = 0 THEN NewFrame(m) ELSE m
    <3>1. PICK m \in GenstgOutcomes(mova) : mova' = NewFrame(m) \/ mova' = m
      BY <2>1
    <3>2. m \in MovaType
      BY <1>3, GenstgKeeps
    <3>3. mova' \in MovaType
      BY <3>1, <3>2, NewFrameKeeps
    <3> QED BY <2>1, <3>3
  <2>2. mova' = NewFrame(mova) \/ mova' = mova => mova' \in MovaType
          /\ mova'.onControl = mova.onControl /\ mova'.forced = mova.forced
          /\ mova'.warmup = mova.warmup
    BY <1>3, NewFrameKeeps
  <2> QED BY <2>1, <2>2 DEF Drive
<1>5. TypeOK'
  BY <1>1, <1>2, <1>4 DEF Inv, TypeOK
<1>6. Remembers' /\ HeldDown'
  BY <1>1, <1>4 DEF Inv, Remembers, HeldDown
<1> QED BY <1>5, <1>6 DEF Inv

LEMMA OtherSteps ==
  ASSUME Inv, Confirms \/ FaultyDetector \/ WarmupAgain \/ UNCHANGED vars
  PROVE  Inv'
<1>1. CASE Confirms
  BY <1>1 DEF Inv, TypeOK, Remembers, HeldDown, Confirms, counters,
              D!Confirms, D!scanned
<1>2. CASE UNCHANGED vars
  BY <1>2 DEF Inv, TypeOK, Remembers, HeldDown, vars, counters, confirms
<1>3. mova = [warmup |-> mova.warmup, green |-> mova.green,
              onControl |-> mova.onControl, forced |-> mova.forced,
              scans |-> mova.scans]
  BY DEF Inv, TypeOK, MovaType
<1>4. CASE FaultyDetector
  <2>1. mova' = [warmup |-> mova.warmup, green |-> mova.green,
                 onControl |-> 0, forced |-> mova.forced,
                 scans |-> mova.scans]
    BY <1>3, <1>4 DEF FaultyDetector
  <2>2. mova' \in MovaType
    BY <2>1 DEF Inv, TypeOK, MovaType
  <2>3. samples # <<1, 1>>
    BY <1>4 DEF Inv, HeldDown, FaultyDetector
  <2> QED BY <1>4, <2>2, <2>3 DEF Inv, TypeOK, Remembers, HeldDown, FaultyDetector,
                                  confirms, counters
<1>5. CASE WarmupAgain
  <2>1. mova' = [warmup |-> NStages, green |-> mova.green,
                 onControl |-> mova.onControl, forced |-> mova.forced,
                 scans |-> mova.scans]
    BY <1>3, <1>5 DEF WarmupAgain
  <2>2. mova' \in MovaType
    BY <2>1, MonitrAssumption, StageScanAssumption DEF Inv, TypeOK, MovaType
  <2>3. samples # <<1, 1>>
    BY <1>5, MonitrAssumption, StageScanAssumption DEF Inv, TypeOK, HeldDown, WarmupAgain, InWarmup, MovaType
  <2> QED BY <1>5, <2>2, <2>3 DEF Inv, TypeOK, Remembers, HeldDown, WarmupAgain,
                                  confirms, counters
<1> QED BY <1>1, <1>2, <1>4, <1>5

LEMMA Inductive == Spec => []Inv
<1>1. Init => Inv
  <2> SUFFICES ASSUME Init PROVE Inv
    OBVIOUS
  <2>1. mova \in MovaType
    BY MonitrAssumption, StageScanAssumption DEF Init, MovaType
  <2> QED BY <2>1, MonitrAssumption, StageScanAssumption DEF Init, D!Init, Inv, TypeOK, Remembers, HeldDown,
                                        NoFault, Suspected, Stopped, Clearing
<1>2. Inv /\ [Next]_vars => Inv'
  BY DetscnStep, FrameOutcomes, DriveStep, OtherSteps DEF Next, Tick
<1> QED BY <1>1, <1>2, PTL DEF Spec

-----------------------------------------------------------------------------
(* The variables of the loop stay in range.                                *)
THEOREM TypeCorrect == Spec => []TypeOK
BY Inductive, PTL DEF Inv

(* Two faulty frames in succession take MOVA off control and its force     *)
(* bits off until the next frame, for any sizes: monitr()'s S124.          *)
THEOREM FaultyFramesStopMova == Spec => []TwoFaultyFrames
<1>1. Inv => TwoFaultyFrames
  BY DEF Inv, HeldDown, TwoFaultyFrames
<1> QED BY <1>1, Inductive, PTL

(* mova() is called exactly in the frames that end two clear samples, its  *)
(* first two calls, which scan nothing, included.                          *)
THEOREM ClearFramesCallMova == Spec => TwoClearFrames
<1>1. Inv /\ [Next]_vars
        => [phase = "frame" /\ phase' = "drive"
              => (samples' = <<0, 0>> <=> MovaCalled)]_vars
  <2> SUFFICES ASSUME Inv, Next, phase = "frame", phase' = "drive"
               PROVE  samples' = <<0, 0>> <=> MovaCalled
    OBVIOUS
  <2>1. Frame
    BY DEF Next, Tick, Detscn, Drive, Confirms, FaultyDetector, WarmupAgain
  <2>2. /\ samples' = <<samples[2], multi>>
        /\ samples[2] = 0 /\ multi = 0 <=> MovaCalled
    BY <2>1, FrameOutcomes
  <2> QED BY <2>2
<1> QED BY <1>1, Inductive, PTL DEF Spec, TwoClearFrames

(* A restart after the fault finds the warm-up at its beginning.           *)
THEOREM RestartsAreCold == Spec => RestartIsCold
<1>1. Inv /\ [Next]_vars
        => [old31 = Clearing /\ old31' = NoFault => mova'.warmup <= 0]_vars
  <2> SUFFICES ASSUME Inv, Next, old31 = Clearing, old31' = NoFault
               PROVE  mova'.warmup <= 0
    OBVIOUS
  <2>1. Frame
    BY DEF Next, Tick, Detscn, Drive, Confirms, FaultyDetector, WarmupAgain,
           Clearing, NoFault
  <2> QED BY <2>1, FrameOutcomes
<1> QED BY <1>1, Inductive, PTL DEF Spec, RestartIsCold

(* The main loop implements the scan of the confirms: what is proved of    *)
(* StageScan by itself holds in the loop.                                  *)
LEMMA LoopScansConfirms == Spec => ScansConfirms
<1>1. Init => D!Init
  BY DEF Init
<1>2. [Next]_vars => [D!Next]_(D!vars)
  <2>1. UNCHANGED confirms => UNCHANGED D!vars
    BY DEF confirms, D!vars, D!scanned
  <2>2. UNCHANGED vars => UNCHANGED confirms
    BY DEF vars
  <2>3. Frame => UNCHANGED confirms
    BY DEF Frame, CallMova, Suspect, SwitchOff, Glitch, Restart, FrameEnds
  <2>4. Next => D!Next \/ UNCHANGED confirms
    BY <2>3 DEF Next, Tick, Detscn, Drive, Confirms, FaultyDetector, WarmupAgain, D!Next
  <2> QED BY <2>1, <2>2, <2>4
<1> QED BY <1>1, <1>2, PTL DEF Spec, ScansConfirms, D!Spec

(* In the loop too, the statics of detscn() agree with the shared stage    *)
(* and with the last reading.                                              *)
THEOREM LoopStaysCoupled == Spec => []Coupled
<1>1. D!TypeOK /\ D!Coupled => Coupled
  BY DEF Coupled
<1> QED BY <1>1, StaysCoupled, LoopScansConfirms, PTL DEF ScansConfirms

(* In the loop too, only two scans in succession that agree, or several    *)
(* confirms, change the stage shown.                                       *)
THEOREM LoopConfirmsTwice == Spec => ConfirmedTwice
BY StagesConfirmedTwice, LoopScansConfirms, PTL DEF ScansConfirms, ConfirmedTwice

-----------------------------------------------------------------------------
(* The scans of the frame before mova(): InputScan()'s when its counter    *)
(* has started again since the frame began.                                *)
Paced ==
  /\ phase = "frame" => updateCount = 0 /\ mova.scans = 1
  /\ phase = "scan" \/ (phase = "drive" /\ updateCount # 0)
       => mova.scans = IF scanDiv < updateCount THEN 1 ELSE 0

LEMMA NextPaced ==
  ASSUME Inv, Paced, [Next]_vars
  PROVE  Paced'
<1> USE MonitrAssumption, StageScanAssumption
<1>0. /\ mova \in MovaType /\ mova.scans \in Nat
      /\ updateCount \in 0..FrameTicks - 1 /\ scanDiv \in 0..FrameTicks - 1
      /\ samples \in {0, 1} \X {0, 1} /\ multi \in {0, 1}
  BY DEF Inv, TypeOK, MovaType
<1>1. CASE Detscn
  <2>1. /\ phase = "scan" /\ phase' = IF updateCount' = 0 THEN "frame" ELSE "drive"
        /\ UNCHANGED samples
    BY <1>1 DEF Detscn
  <2>2. /\ updateCount' = updateCount + 1 \/ (updateCount' = 0 /\ updateCount = FrameTicks - 1)
        /\ scanDiv' = scanDiv + 1 \/ (scanDiv' = 0 /\ scanDiv = FrameTicks - 1)
    BY <1>0, <1>1, FollowingRange DEF Detscn, InputScan
  <2>range. scanDiv' \in 0..FrameTicks - 1 /\ FrameTicks \in Nat
    BY <1>0, <1>1, FollowingRange DEF Detscn, InputScan
  <2>3. mova.scans = IF scanDiv < updateCount THEN 1 ELSE 0
    BY <2>1 DEF Paced
  <2>4. mova'.scans = IF scanDiv' = 0 THEN mova.scans + 1 ELSE mova.scans
    BY <1>0, <1>1, ScanCounts DEF Detscn, InputScan
  <2>5. CASE updateCount' = 0
    <3>1. updateCount = FrameTicks - 1
      BY <1>0, <2>2, <2>5
    <3>2. scanDiv' = 0 <=> ~(scanDiv < updateCount)
      BY <1>0, <2>2, <2>range, <3>1
    <3>3. phase' = "frame" /\ mova'.scans = 1
      BY <2>1, <2>3, <2>4, <2>5, <3>2
    <3> QED BY <2>5, <3>3 DEF Paced
  <2>6. CASE updateCount' # 0
    <3>1. phase' = "drive" /\ mova'.scans = IF scanDiv' < updateCount' THEN 1 ELSE 0
      BY <1>0, <2>1, <2>2, <2>3, <2>4, <2>6
    <3> QED BY <2>6, <3>1 DEF Paced
  <2> QED BY <2>5, <2>6
<1>2. CASE Frame
  <2>1. phase = "frame" /\ phase' = "drive" /\ UNCHANGED <<updateCount, scanDiv>>
    BY <1>2 DEF Frame, CallMova, Suspect, SwitchOff, Glitch, Restart, FrameEnds, counters
  <2>2. updateCount = 0
    BY <2>1 DEF Paced
  <2> QED BY <2>1, <2>2 DEF Paced
<1>3. CASE Drive
  <2>1. phase = "drive" /\ phase' = "scan" /\ UNCHANGED <<updateCount, scanDiv, samples>>
    BY <1>3 DEF Drive
  <2>2. PICK m \in GenstgOutcomes(mova) \union {mova} :
          mova' = IF updateCount = 0 THEN NewFrame(m) ELSE m
    BY <1>3 DEF Drive
  <2>3. m \in MovaType /\ m.scans = mova.scans
    BY <1>0, <2>2, GenstgKeeps
  <2>4. CASE updateCount = 0
    <3>1. mova'.scans = 0
      BY <2>2, <2>3, <2>4, NewFrameKeeps
    <3> QED BY <1>0, <2>1, <2>4, <3>1 DEF Paced
  <2>5. CASE updateCount # 0
    <3>1. mova'.scans = IF scanDiv < updateCount THEN 1 ELSE 0
      BY <2>1, <2>2, <2>3, <2>5 DEF Paced
    <3> QED BY <2>1, <2>5, <3>1 DEF Paced
  <2> QED BY <2>4, <2>5
<1>4. CASE Confirms \/ UNCHANGED vars
  BY <1>4 DEF Confirms, counters, vars, Paced
<1>5. CASE FaultyDetector \/ WarmupAgain
  <2>1. UNCHANGED <<phase, updateCount, scanDiv, samples>>
    BY <1>5 DEF FaultyDetector, WarmupAgain, counters
  <2>2. mova'.scans = mova.scans
    BY <1>0, <1>5 DEF FaultyDetector, WarmupAgain, MovaType
  <2> QED BY <2>1, <2>2 DEF Paced
<1> QED BY <1>1, <1>2, <1>3, <1>4, <1>5 DEF Next, Tick

(* The scans of the program controller in a frame: one, and one more when  *)
(* mova() is called past its first two calls, for any number of ticks in a *)
(* frame and wherever the counters stand when the kernel starts.           *)
THEOREM ScansAreRight == Spec => ScansPaced
<1>1. Init => Paced
  BY MonitrAssumption, StageScanAssumption DEF Init, Paced
<1>2. Inv /\ Paced /\ [Next]_vars
        => [phase = "frame" /\ phase' = "drive"
              => mova'.scans = IF samples' = <<0, 0>> /\ resume = "updateEnd"
                               THEN 2 ELSE 1]_vars
  <2> SUFFICES ASSUME Inv, Paced, Next, phase = "frame", phase' = "drive"
               PROVE  mova'.scans = IF samples' = <<0, 0>> /\ resume = "updateEnd"
                                    THEN 2 ELSE 1
    OBVIOUS
  <2>1. Frame
    BY DEF Next, Tick, Detscn, Drive, Confirms, FaultyDetector, WarmupAgain
  <2>2. /\ samples' = <<samples[2], multi>>
        /\ mova'.scans = IF samples[2] = 0 /\ multi = 0 /\ resume = "updateEnd"
                         THEN mova.scans + 1 ELSE mova.scans
    BY <2>1, FrameOutcomes
  <2>3. mova.scans = 1
    BY DEF Paced
  <2> QED BY <2>2, <2>3
<1> QED BY Inductive, NextPaced, <1>1, <1>2, PTL DEF Spec, ScansPaced
=============================================================================
