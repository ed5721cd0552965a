------------------------------ MODULE UtcProofs ------------------------------
(* Proofs about the UTC outstation, for any number of points, drivers,     *)
(* timers and plans.                                                       *)
EXTENDS Utc, TLAPS

(* Somebody has lowered the mode and will release the points.              *)
Releasing ==
  \/ request.at = "zero"
  \/ request.at = "stamp" /\ request.new < Control
  \/ \E t \in Threads : thread[t] = "zero"

(* Out of control, what is on by right is the plan's or will be released.  *)
Owned ==
  mode < Control /\ ~(points \subseteq stray) => Releasing \/ plan # NoPlan

(* A plan that stands down has come to all points but those left.          *)
StandingDown ==
  runner.at = "zero" /\ mode < Control /\ ~Releasing
    => points \ stray \subseteq runner.left

(* The SNMP thread writes points in a SET of control only.                 *)
Writing ==
  /\ put # NoPut => request.at \in {"set", "clear", "single"}
  /\ request.left # {} => request.at \in {"set", "clear"}

Rights == /\ runner # Resting => plan # NoPlan
          /\ Owned
          /\ StandingDown

IInv == /\ TypeOK
        /\ Writing
        /\ Rights

-----------------------------------------------------------------------------
LEMMA InitIInv == Init => IInv
<1>1. Init => TypeOK
  BY UtcAssumption DEF Init, TypeOK, NoRequest, NoPut, Resting, NoOffset, Positions,
     Standalone, Threads
<1>2. Init => Writing /\ Rights
  BY DEF Init, Writing, Rights, Owned, StandingDown, Resting, NoRequest
<1>3. QED
  BY <1>1, <1>2 DEF Init, IInv

LEMMA StutterIInv == IInv /\ UNCHANGED vars => IInv'
BY DEF IInv, TypeOK, Writing, Rights, Owned, StandingDown, Releasing, vars, snmp, faultVars, planVars

-----------------------------------------------------------------------------
(* Types, for the steps of each thread.                                    *)
LEMMA TypeSnmp ==
  ASSUME TypeOK,
         \/ \E new \in 1..3 : SetMode(new)
         \/ \E mask \in SUBSET Points : SetControl(mask)
         \/ \E p \in Points, on \in {0, 1} : SetSingle(p, on)
         \/ SnmpStep \/ Ages
  PROVE  TypeOK'
<1>1. ASSUME NEW new \in 1..3, SetMode(new) PROVE TypeOK'
  <2>1. request' = [at |-> "mode", new |-> new, mask |-> {}, left |-> {}]
    BY <1>1 DEF SetMode, NoRequest
  <2>2. new \in 0..3
    OBVIOUS
  <2>3. QED
    BY <1>1, <2>1, <2>2 DEF SetMode, TypeOK, faultVars, planVars
<1>2. ASSUME NEW mask \in SUBSET Points, SetControl(mask) PROVE TypeOK'
  <2>1. request' \in [at : {"idle", "mode", "stamp", "zero", "set", "clear", "single"},
                      new : 0..3, mask : SUBSET Points, left : SUBSET Points]
    <3>1. request' = [at |-> "set", new |-> 0, mask |-> mask, left |-> Points]
      BY <1>2 DEF SetControl
    <3>2. QED
      BY <3>1
  <2>2. QED
    BY <1>2, <2>1 DEF SetControl, TypeOK, faultVars, planVars
<1>3. ASSUME NEW p \in Points, NEW on \in {0, 1}, SetSingle(p, on) PROVE TypeOK'
  <2>1. request' = [at |-> "single", new |-> 0, mask |-> {}, left |-> {}]
    BY <1>3 DEF SetSingle, NoRequest
  <2>2. put' = <<p, IF mode >= Control THEN on ELSE 0>>
    BY <1>3 DEF SetSingle
  <2>3. put' \in Points \X {0, 1}
    BY <2>2
  <2>4. UNCHANGED <<mode, age, points, faultVars, delayed, planVars, stray>>
    BY <1>3 DEF SetSingle
  <2>5. QED
    BY <2>1, <2>3, <2>4 DEF TypeOK, faultVars, planVars
<1>4. CASE WriteMode
  BY <1>4 DEF WriteMode, TypeOK, faultVars, planVars
<1>5. CASE Stamp \/ Release \/ Ages
  BY <1>5 DEF Stamp, Release, Ages, ZeroOwned, TypeOK, NoRequest, snmp, faultVars, planVars
<1>6. ASSUME NEW r \in [at : {"idle", "mode", "stamp", "zero", "set", "clear", "single"},
                         new : 0..3, mask : SUBSET Points, left : SUBSET Points]
      PROVE  /\ Onwards(r) \in [at : {"idle", "mode", "stamp", "zero", "set", "clear", "single"},
                                new : 0..3, mask : SUBSET Points, left : SUBSET Points]
             /\ Onwards(r).at = "mode" => r.at = "mode" /\ Onwards(r).new = r.new
  <2>1. CASE r.left # {}
    BY <2>1 DEF Onwards
  <2>2. CASE r.left = {} /\ r.at = "set"
    <3>1. Onwards(r) = [at |-> "clear", new |-> r.new, mask |-> r.mask, left |-> Points]
      BY <2>2 DEF Onwards
    <3>2. QED
      BY <3>1
  <2>3. CASE r.left = {} /\ r.at # "set"
    BY <2>3 DEF Onwards, NoRequest
  <2>4. QED
    BY <2>1, <2>2, <2>3
<1>7. CASE Put
  <2>1. put \in Points \X {0, 1}
    BY <1>7 DEF Put, TypeOK
  <2>2. /\ request' \in [at : {"idle", "mode", "stamp", "zero", "set", "clear", "single"},
                         new : 0..3, mask : SUBSET Points, left : SUBSET Points]
        /\ request'.at = "mode" => request'.new # 0
    BY <1>6, <1>7 DEF Put, TypeOK
  <2>3. QED
    BY <1>7, <2>1, <2>2 DEF Put, Write, TypeOK, faultVars, planVars
<1>8. ASSUME NEW p \in Points, Bit(p) PROVE TypeOK'
  <2>1. /\ request' \in [at : {"idle", "mode", "stamp", "zero", "set", "clear", "single"},
                         new : 0..3, mask : SUBSET Points, left : SUBSET Points]
        /\ request'.at = "mode" => request'.new # 0
    <3> DEFINE rest == [request EXCEPT !.left = @ \ {p}]
    <3>1. /\ rest \in [at : {"idle", "mode", "stamp", "zero", "set", "clear", "single"},
                       new : 0..3, mask : SUBSET Points, left : SUBSET Points]
          /\ rest.at = request.at /\ rest.new = request.new
      BY DEF TypeOK
    <3>2. request' = rest \/ request' = Onwards(rest)
      BY <1>8 DEF Bit
    <3>3. request.at = "mode" => request.new # 0
      BY DEF TypeOK
    <3> HIDE DEF rest
    <3>4. QED
      BY <1>6, <3>1, <3>2, <3>3
  <2>2. put' \in {NoPut} \union (Points \X {0, 1})
    BY <1>8 DEF Bit
  <2>3. QED
    BY <1>8, <2>1, <2>2 DEF Bit, TypeOK, faultVars, planVars
<1>9. QED
  BY <1>1, <1>2, <1>3, <1>4, <1>5, <1>7, <1>8 DEF SnmpStep

LEMMA TypeFault ==
  ASSUME TypeOK,
         \/ TimedOut \/ Distrusted
         \/ \E t \in Threads : DropStep(t)
         \/ \E t \in Timers : TimerStep(t)
         \/ \E d \in Drivers : Connect(d) \/ Disconnect(d) \/ Report(d)
  PROVE  TypeOK'
<1>1. Timers \subseteq Threads /\ Drivers \subseteq Threads /\ "watchdog" \in Threads
  BY DEF Threads
<1>2. CASE TimedOut \/ Distrusted
  BY <1>1, <1>2 DEF TimedOut, Distrusted, Moves, TypeOK, snmp, planVars
<1>3. ASSUME NEW t \in Threads, DropStep(t) PROVE TypeOK'
  BY <1>3 DEF DropStep, Look, Lower, Zero, ZeroOwned, Standalone, Moves, TypeOK, snmp, planVars
<1>4. ASSUME NEW t \in Timers, TimerStep(t) PROVE TypeOK'
  BY <1>1, <1>4 DEF TimerStep, Expire, FaultTimeout, Moves, TypeOK, snmp, planVars
<1>5. ASSUME NEW d \in Drivers, Connect(d) \/ Disconnect(d) PROVE TypeOK'
  BY <1>1, <1>5 DEF Connect, Disconnect, Moves, TypeOK, snmp, planVars
<1>6. ASSUME NEW d \in Drivers, Report(d) PROVE TypeOK'
  BY <1>1, <1>6 DEF Report, DropAtOnce, ScheduleTimer, CancelFault, Moves, TypeOK, snmp, planVars
<1>7. QED
  BY <1>2, <1>3, <1>4, <1>5, <1>6

(* The plan's thread, at work on a name and an offset.                     *)
LEMMA TypeGoes ==
  ASSUME NEW r \in [at : {"idle", "set", "clear", "zero"},
                    off : SUBSET Points, left : SUBSET Points],
         NEW name \in Plans \union {NoPlan},
         NEW last \in Positions \union {NoOffset},
         Goes(r, name, last)
  PROVE  /\ runner' \in [at : {"idle", "set", "clear", "zero"},
                         off : SUBSET Points, left : SUBSET Points]
         /\ plan' \in Plans \union {NoPlan}
         /\ offset' \in Positions \union {NoOffset}
<1>1. CASE r.left # {}
  BY <1>1 DEF Goes
<1>2. CASE r.left = {} /\ r.at = "set" /\ r.off # {}
  <2>1. runner' = [at |-> "clear", off |-> {}, left |-> r.off]
    BY <1>2 DEF Goes
  <2>2. QED
    BY <1>2, <2>1 DEF Goes
<1>3. CASE r.left = {} /\ ~(r.at = "set" /\ r.off # {})
  BY <1>3 DEF Goes, Resting
<1>4. QED
  BY <1>1, <1>2, <1>3

LEMMA TypePlan ==
  ASSUME TypeOK,
         \/ \E wanted \in Plans \union {NoPlan}, pos \in Positions : PlanTick(wanted, pos)
         \/ RunnerStep \/ Reload
  PROVE  TypeOK'
<1>1. ASSUME NEW wanted \in Plans \union {NoPlan}, NEW pos \in Positions, PlanTick(wanted, pos)
      PROVE  TypeOK'
  <2>1. CASE mode < Control /\ mode \in ActiveModes /\ wanted # NoPlan
    <3>1. CASE Applied(IF plan = wanted THEN offset ELSE -1, pos)
      BY <1>1, <2>1, <3>1 DEF PlanTick, TypeOK, snmp, faultVars
    <3>2. CASE ~Applied(IF plan = wanted THEN offset ELSE -1, pos)
      <4> DEFINE on == Mask[wanted][pos]
                 off == Named[wanted][pos] \ on
                 r == [at |-> "set", off |-> off, left |-> on]
      <4>1. pos \in 0..Offsets - 1
        BY <3>2, UtcAssumption DEF Applied, Positions
      <4>2. on \in SUBSET Points /\ off \in SUBSET Points
        BY <2>1, <4>1, UtcAssumption
      <4>3. Goes(r, wanted, pos)
        BY <1>1, <2>1, <3>2 DEF PlanTick
      <4>4. r \in [at : {"idle", "set", "clear", "zero"},
                   off : SUBSET Points, left : SUBSET Points]
        BY <4>2
      <4> HIDE DEF r
      <4>5. QED
        BY <1>1, <4>3, <4>4, TypeGoes DEF PlanTick, TypeOK, snmp, faultVars
    <3>3. QED
      BY <3>1, <3>2
  <2>2. CASE /\ ~(mode < Control /\ mode \in ActiveModes /\ wanted # NoPlan)
             /\ plan # NoPlan
    <3> DEFINE r == [at |-> "zero", off |-> {}, left |-> Points]
    <3>1. Goes(r, plan, offset)
      BY <1>1, <2>2 DEF PlanTick
    <3>2. r \in [at : {"idle", "set", "clear", "zero"},
                 off : SUBSET Points, left : SUBSET Points]
      OBVIOUS
    <3> HIDE DEF r
    <3>3. QED
      BY <1>1, <3>1, <3>2, TypeGoes DEF PlanTick, TypeOK, snmp, faultVars
  <2>3. CASE /\ ~(mode < Control /\ mode \in ActiveModes /\ wanted # NoPlan)
             /\ plan = NoPlan
    BY <1>1, <2>3 DEF PlanTick, TypeOK, planVars, snmp, faultVars
  <2>4. QED
    BY <2>1, <2>2, <2>3
<1>2. ASSUME NEW p \in Points, PlanWrite(p) PROVE TypeOK'
  <2> DEFINE r == [runner EXCEPT !.left = @ \ {p}]
  <2>1. Goes(r, plan, offset)
    BY <1>2 DEF PlanWrite
  <2>2. r \in [at : {"idle", "set", "clear", "zero"},
               off : SUBSET Points, left : SUBSET Points]
    BY DEF TypeOK
  <2> HIDE DEF r
  <2>3. QED
    BY <1>2, <2>1, <2>2, TypeGoes DEF PlanWrite, Write, TypeOK, snmp, faultVars
<1>3. CASE Reload
  BY <1>3 DEF Reload, TypeOK, Resting, snmp, faultVars
<1>4. QED
  BY <1>1, <1>2, <1>3 DEF RunnerStep

LEMMA TypeStep == TypeOK /\ Next => TypeOK'
BY TypeSnmp, TypeFault, TypePlan DEF Next

-----------------------------------------------------------------------------
(* The rest, for steps that leave the points alone and do not lower the    *)
(* mode or end a release.                                                  *)
LEMMA Undisturbed ==
  ASSUME IInv, UNCHANGED <<mode, points, stray, plan, runner>>,
         Releasing => Releasing'
  PROVE  Rights'
BY DEF IInv, Rights, Owned, StandingDown

(* ... and for those after which all points are off.                       *)
LEMMA AllOff ==
  ASSUME IInv, points' = {}, UNCHANGED <<plan, runner>>
  PROVE  Rights'
BY DEF IInv, Rights, Owned, StandingDown

LEMMA RightsSnmp ==
  ASSUME IInv,
         \/ \E new \in 1..3 : SetMode(new)
         \/ \E mask \in SUBSET Points : SetControl(mask)
         \/ \E p \in Points, on \in {0, 1} : SetSingle(p, on)
         \/ SnmpStep \/ Ages
  PROVE  Rights'
<1> USE DEF planVars, faultVars
<1>1. ASSUME NEW new \in 1..3, SetMode(new)
      PROVE  Rights'
  BY <1>1, Undisturbed DEF SetMode, Releasing
<1>2. ASSUME NEW mask \in SUBSET Points, SetControl(mask)
      PROVE  Rights'
  BY <1>2, Undisturbed DEF SetControl, Releasing
<1>3. ASSUME NEW p \in Points, NEW on \in {0, 1}, SetSingle(p, on)
      PROVE  Rights'
  BY <1>3, Undisturbed DEF SetSingle, Releasing
<1>4. CASE WriteMode
  <2>1. mode' < Control => Releasing'
    BY <1>4 DEF WriteMode, Releasing, IInv, TypeOK
  <2>2. QED
    BY <1>4, <2>1 DEF WriteMode, IInv, Rights, Owned, StandingDown
<1>5. CASE Stamp
  <2>1. Releasing => Releasing'
    BY <1>5 DEF Stamp, Releasing, IInv, TypeOK
  <2>2. QED
    BY <1>5, <2>1, Undisturbed DEF Stamp
<1>6. CASE Release
  BY <1>6, AllOff DEF Release, ZeroOwned
<1>7. CASE Ages
  BY <1>7, Undisturbed DEF Ages, Releasing, snmp
<1>8. CASE Put
  <2>1. Releasing => Releasing'
    BY <1>8 DEF Put, Releasing, IInv, Writing
  <2>2. mode < Control => points' \ stray' \subseteq points \ stray
    BY <1>8 DEF Put, Write, IInv, TypeOK, Control
  <2>3. UNCHANGED <<mode, plan, runner>>
    BY <1>8 DEF Put
  <2>4. QED
    BY <2>1, <2>2, <2>3 DEF IInv, Rights, Owned, StandingDown
<1>9. ASSUME NEW p \in Points, Bit(p) PROVE Rights'
  <2>1. Releasing => Releasing'
    BY <1>9 DEF Bit, Releasing, IInv, Writing
  <2>2. QED
    BY <1>9, <2>1, Undisturbed DEF Bit
<1>10. QED
  BY <1>1, <1>2, <1>3, <1>4, <1>5, <1>6, <1>7, <1>8, <1>9 DEF SnmpStep

LEMMA WritingSnmp ==
  ASSUME IInv,
         \/ \E new \in 1..3 : SetMode(new)
         \/ \E mask \in SUBSET Points : SetControl(mask)
         \/ \E p \in Points, on \in {0, 1} : SetSingle(p, on)
         \/ SnmpStep \/ Ages
  PROVE  Writing'
<1> USE DEF IInv, Writing
<1>1. ASSUME NEW new \in 1..3, SetMode(new) PROVE Writing'
  BY <1>1 DEF SetMode, NoRequest
<1>2. ASSUME NEW mask \in SUBSET Points, SetControl(mask) PROVE Writing'
  BY <1>2 DEF SetControl
<1>3. ASSUME NEW p \in Points, NEW on \in {0, 1}, SetSingle(p, on) PROVE Writing'
  BY <1>3 DEF SetSingle, NoRequest
<1>4. CASE WriteMode \/ Stamp \/ Release \/ Ages
  BY <1>4 DEF WriteMode, Stamp, Release, Ages, NoRequest, snmp, TypeOK
<1>5. ASSUME NEW r, r \in [at : {"idle", "mode", "stamp", "zero", "set", "clear", "single"},
                           new : 0..3, mask : SUBSET Points, left : SUBSET Points],
             r.left # {} => r.at \in {"set", "clear"}
      PROVE  Onwards(r).left # {} => Onwards(r).at \in {"set", "clear"}
  BY <1>5 DEF Onwards, NoRequest
<1>6. CASE Put
  BY <1>5, <1>6 DEF Put, TypeOK
<1>7. ASSUME NEW p \in Points, Bit(p) PROVE Writing'
  <2> DEFINE rest == [request EXCEPT !.left = @ \ {p}]
  <2>1. /\ rest \in [at : {"idle", "mode", "stamp", "zero", "set", "clear", "single"},
                     new : 0..3, mask : SUBSET Points, left : SUBSET Points]
        /\ rest.at = request.at /\ request.at \in {"set", "clear"}
    BY <1>7 DEF TypeOK, Bit
  <2>2. \/ request' = rest
        \/ request' = Onwards(rest) /\ put' = NoPut
    BY <1>7 DEF Bit
  <2> HIDE DEF rest
  <2>3. QED
    BY <1>5, <2>1, <2>2
<1>8. QED
  BY <1>1, <1>2, <1>3, <1>4, <1>6, <1>7 DEF SnmpStep

LEMMA RightsFault ==
  ASSUME IInv,
         \/ TimedOut \/ Distrusted
         \/ \E t \in Threads : DropStep(t)
         \/ \E t \in Timers : TimerStep(t)
         \/ \E d \in Drivers : Connect(d) \/ Disconnect(d) \/ Report(d)
  PROVE  Rights'
<1> USE DEF planVars, snmp
<1>1. /\ Timers \subseteq Threads /\ Drivers \subseteq Threads /\ "watchdog" \in Threads
      /\ thread \in [Threads -> {"idle", "look", "lower", "zero", "armed", "fired",
                                 "found", "fault"}]
  BY DEF Threads, IInv, TypeOK
<1>2. ASSUME NEW t \in Threads, NEW from, NEW to, Moves(t, from, to), from # "zero",
             UNCHANGED request
      PROVE  Releasing => Releasing'
  BY <1>1, <1>2 DEF Moves, Releasing
<1>3. CASE TimedOut \/ Distrusted
  <2>1. Releasing => Releasing'
    BY <1>1, <1>2, <1>3 DEF TimedOut, Distrusted
  <2>2. QED
    BY <1>3, <2>1, Undisturbed DEF TimedOut, Distrusted
<1>4. ASSUME NEW t \in Threads, Look(t) PROVE Rights'
  <2>1. Releasing => Releasing'
    BY <1>2, <1>4 DEF Look
  <2>2. QED
    BY <1>4, <2>1, Undisturbed DEF Look
<1>5. ASSUME NEW t \in Threads, Lower(t) PROVE Rights'
  <2>1. Releasing'
    BY <1>1, <1>5 DEF Lower, Moves, Releasing
  <2>2. QED
    BY <1>5, <2>1 DEF Lower, IInv, Rights, Owned, StandingDown
<1>6. ASSUME NEW t \in Threads, Zero(t) PROVE Rights'
  BY <1>6, AllOff DEF Zero, ZeroOwned
<1>7. ASSUME NEW t \in Timers, TimerStep(t) PROVE Rights'
  <2>1. Releasing => Releasing'
    BY <1>1, <1>2, <1>7 DEF TimerStep, Expire, FaultTimeout
  <2>2. QED
    BY <1>7, <2>1, Undisturbed DEF TimerStep, Expire, FaultTimeout
<1>8. ASSUME NEW d \in Drivers, Connect(d) \/ Disconnect(d) \/ DropAtOnce(d) PROVE Rights'
  <2>1. Releasing => Releasing'
    BY <1>1, <1>2, <1>8 DEF Connect, Disconnect, DropAtOnce
  <2>2. QED
    BY <1>8, <2>1, Undisturbed DEF Connect, Disconnect, DropAtOnce
<1>9. ASSUME NEW d \in Drivers, ScheduleTimer(d) \/ CancelFault(d) PROVE Rights'
  <2>1. \A t \in Threads : thread[t] = "zero" => thread'[t] = "zero"
    BY <1>1, <1>9 DEF ScheduleTimer, CancelFault
  <2>2. Releasing => Releasing'
    BY <1>9, <2>1 DEF ScheduleTimer, CancelFault, Releasing
  <2>3. QED
    BY <1>9, <2>2, Undisturbed DEF ScheduleTimer, CancelFault
<1>10. QED
  BY <1>3, <1>4, <1>5, <1>6, <1>7, <1>8, <1>9 DEF DropStep, Report

(* The plan's thread: it owns what it sets until it has zeroed all.        *)
LEMMA RightsPlan ==
  ASSUME IInv,
         \/ \E wanted \in Plans \union {NoPlan}, pos \in Positions : PlanTick(wanted, pos)
         \/ RunnerStep \/ Reload
  PROVE  Rights'
<1> USE DEF snmp, faultVars
<1>1. ASSUME NEW wanted \in Plans \union {NoPlan}, NEW pos \in Positions, PlanTick(wanted, pos)
      PROVE  Rights'
  <2>1. /\ Releasing' = Releasing
        /\ UNCHANGED <<mode, points, stray>>
    BY <1>1 DEF PlanTick, Releasing
  <2>2. CASE mode < Control /\ mode \in ActiveModes /\ wanted # NoPlan
    <3>1. plan' # NoPlan /\ (runner' = runner \/ runner'.at # "zero")
      <4>1. CASE Applied(IF plan = wanted THEN offset ELSE -1, pos)
        BY <1>1, <2>2, <4>1 DEF PlanTick
      <4>2. CASE ~Applied(IF plan = wanted THEN offset ELSE -1, pos)
        <5> DEFINE r == [at |-> "set", off |-> Named[wanted][pos] \ Mask[wanted][pos],
                         left |-> Mask[wanted][pos]]
        <5>1. Goes(r, wanted, pos)
          BY <1>1, <2>2, <4>2 DEF PlanTick
        <5>2. r.at = "set"
          OBVIOUS
        <5> HIDE DEF r
        <5>3. CASE r.left # {}
          BY <2>2, <5>1, <5>2, <5>3 DEF Goes
        <5>4. CASE r.left = {} /\ r.off # {}
          <6>1. runner' = [at |-> "clear", off |-> {}, left |-> r.off] /\ plan' = wanted
            BY <5>1, <5>2, <5>4 DEF Goes
          <6>2. runner'.at # "zero"
            BY <6>1
          <6>3. QED
            BY <2>2, <6>1, <6>2
        <5>5. CASE r.left = {} /\ r.off = {}
          BY <2>2, <5>1, <5>2, <5>5 DEF Goes, Resting
        <5>6. QED
          BY <5>3, <5>4, <5>5
      <4>3. QED
        BY <4>1, <4>2
    <3>2. runner.at # "zero"
      BY <1>1 DEF PlanTick, Resting
    <3>3. QED
      BY <3>1, <3>2 DEF Rights, Owned, StandingDown
  <2>3. CASE /\ ~(mode < Control /\ mode \in ActiveModes /\ wanted # NoPlan)
             /\ plan # NoPlan
    <3>1. Goes([at |-> "zero", off |-> {}, left |-> Points], plan, offset)
      BY <1>1, <2>3 DEF PlanTick
    <3>2. points \subseteq Points
      BY DEF IInv, TypeOK
    <3>3. CASE Points = {}
      <4>1. points' = {} /\ runner' = Resting
        BY <2>1, <3>1, <3>2, <3>3 DEF Goes
      <4>2. QED
        BY <4>1 DEF Rights, Owned, StandingDown
    <3>4. CASE Points # {}
      <4>1. plan' = plan /\ runner'.left = Points
        BY <3>1, <3>4 DEF Goes
      <4>2. QED
        BY <2>1, <2>3, <3>2, <4>1 DEF Rights, Owned, StandingDown
    <3>5. QED
      BY <3>3, <3>4
  <2>4. CASE /\ ~(mode < Control /\ mode \in ActiveModes /\ wanted # NoPlan)
             /\ plan = NoPlan
    BY <1>1, <2>1, <2>4, Undisturbed DEF PlanTick, planVars
  <2>5. QED
    BY <2>2, <2>3, <2>4
<1>2. ASSUME NEW p \in Points, PlanWrite(p) PROVE Rights'
  <2> DEFINE r == [runner EXCEPT !.left = @ \ {p}]
  <2>1. Goes(r, plan, offset)
    BY <1>2 DEF PlanWrite
  <2>2. /\ Releasing' = Releasing
        /\ UNCHANGED mode
    BY <1>2 DEF PlanWrite, Releasing
  <2>3. plan # NoPlan
    BY <1>2 DEF PlanWrite, Resting, IInv, Rights
  <2>4. r.at = runner.at /\ r.left = runner.left \ {p}
    BY DEF IInv, TypeOK
  <2> HIDE DEF r
  <2>5. CASE runner.at = "zero"
    <3>1. points' \ stray' \subseteq (points \ stray) \ {p}
      BY <1>2, <2>5 DEF PlanWrite, Write
    <3>2. mode < Control /\ ~Releasing => points' \ stray' \subseteq runner.left \ {p}
      BY <2>5, <3>1 DEF IInv, Rights, StandingDown
    <3>3. CASE r.left # {}
      BY <2>1, <2>2, <2>3, <2>4, <3>2, <3>3 DEF Goes, Rights, Owned, StandingDown
    <3>4. CASE r.left = {}
      <4>1. runner' = Resting
        BY <2>1, <2>4, <2>5, <3>4 DEF Goes
      <4>2. QED
        BY <2>2, <2>4, <3>2, <3>4, <4>1 DEF Rights, Owned, StandingDown, Resting
    <3>5. QED
      BY <3>3, <3>4
  <2>6. CASE runner.at # "zero"
    <3>1. plan' # NoPlan
      BY <2>1, <2>3, <2>4, <2>6 DEF Goes
    <3>2. runner'.at # "zero"
      <4>1. \/ runner' \in {r, Resting}
            \/ runner' = [at |-> "clear", off |-> {}, left |-> r.off]
        BY <2>1 DEF Goes
      <4>2. CASE runner' = r
        BY <2>4, <2>6, <4>2
      <4>3. CASE runner' = Resting
        BY <4>3 DEF Resting
      <4>4. CASE runner' = [at |-> "clear", off |-> {}, left |-> r.off]
        BY <4>4
      <4>5. QED
        BY <4>1, <4>2, <4>3, <4>4
    <3>3. QED
      BY <3>1, <3>2 DEF Rights, Owned, StandingDown
  <2>7. QED
    BY <2>5, <2>6
<1>3. CASE Reload
  BY <1>3 DEF Reload, Rights, Owned, StandingDown, Resting
<1>4. QED
  BY <1>1, <1>2, <1>3 DEF RunnerStep

-----------------------------------------------------------------------------
LEMMA NextIInv == IInv /\ Next => IInv'
<1> SUFFICES ASSUME IInv, Next PROVE IInv'
  OBVIOUS
<1>1. TypeOK'
  BY TypeStep DEF IInv
<1>2. CASE \/ \E new \in 1..3 : SetMode(new)
           \/ \E mask \in SUBSET Points : SetControl(mask)
           \/ \E p \in Points, on \in {0, 1} : SetSingle(p, on)
           \/ SnmpStep \/ Ages
  BY <1>1, <1>2, WritingSnmp, RightsSnmp DEF IInv
<1>3. CASE \/ TimedOut \/ Distrusted
           \/ \E t \in Threads : DropStep(t)
           \/ \E t \in Timers : TimerStep(t)
           \/ \E d \in Drivers : Connect(d) \/ Disconnect(d) \/ Report(d)
  <2>1. UNCHANGED snmp
    BY <1>3 DEF TimedOut, Distrusted, DropStep, Look, Lower, Zero, TimerStep, Expire,
       FaultTimeout, Connect, Disconnect, Report, DropAtOnce, ScheduleTimer, CancelFault
  <2>2. QED
    BY <1>1, <1>3, <2>1, RightsFault DEF IInv, Writing, snmp
<1>4. CASE \/ \E wanted \in Plans \union {NoPlan}, pos \in Positions : PlanTick(wanted, pos)
           \/ RunnerStep \/ Reload
  <2>1. UNCHANGED snmp
    BY <1>4 DEF PlanTick, RunnerStep, PlanWrite, Reload
  <2>2. QED
    BY <1>1, <1>4, <2>1, RightsPlan DEF IInv, Writing, snmp
<1>5. QED
  BY <1>2, <1>3, <1>4 DEF Next

THEOREM Inductive == Spec => []IInv
BY InitIInv, NextIInv, StutterIInv, PTL DEF Spec

(* Every variable of the outstation keeps its type.                        *)
THEOREM TypeCorrect == Spec => []TypeOK
<1>1. IInv => TypeOK
  BY DEF IInv
<1>2. QED
  BY <1>1, Inductive, PTL

(* At rest, out of control and without a plan, nothing is on but what a    *)
(* SET of control put on after the mode it had looked at had fallen, and   *)
(* what the plan of a replaced file left: no drop, no SET of the mode and  *)
(* no standing down of a plan, in whatever order they overtake one         *)
(* another, leaves a point on.                                             *)
THEOREM OnlyStraysHolds == Spec => []OnlyStrays
<1>1. IInv => OnlyStrays
  <2> SUFFICES ASSUME IInv, AtRest, mode < Control, plan = NoPlan
               PROVE  points \subseteq stray
    BY DEF OnlyStrays
  <2>1. ~Releasing
    BY DEF AtRest, Releasing, NoRequest
  <2>2. QED
    BY <2>1 DEF IInv, Rights, Owned
<1>2. QED
  BY <1>1, Inductive, PTL

-----------------------------------------------------------------------------
(* The fault timer that is known has not ended, and a driver that reports  *)
(* its connection found has it.                                            *)
TimerRuns == timer # NoTimer => timer \in Timers /\ thread[timer] \in {"armed", "fired"}
FoundIsUp == \A d \in Drivers : thread[d] = "found" => d \in up

LEMMA InitFault == Init => TimerRuns /\ FoundIsUp
BY DEF Init, TimerRuns, FoundIsUp, Threads

LEMMA ThreadKinds ==
  /\ "watchdog" \in Threads /\ Timers \subseteq Threads /\ Drivers \subseteq Threads
  /\ "watchdog" \notin Timers \union Drivers /\ Timers \intersect Drivers = {}
  /\ NoTimer \notin Timers
BY UtcAssumption DEF Threads

(* The steps that touch neither a thread of a fault nor a connection.      *)
LEMMA FaultAside ==
  ASSUME \/ \E new \in 1..3 : SetMode(new)
         \/ \E mask \in SUBSET Points : SetControl(mask)
         \/ \E p \in Points, on \in {0, 1} : SetSingle(p, on)
         \/ SnmpStep \/ Ages
         \/ \E wanted \in Plans \union {NoPlan}, pos \in Positions : PlanTick(wanted, pos)
         \/ RunnerStep \/ Reload \/ UNCHANGED vars
  PROVE  UNCHANGED faultVars
BY DEF SetMode, SetControl, SetSingle, SnmpStep, WriteMode, Stamp, Release, Put, Bit, Ages,
   PlanTick, RunnerStep, PlanWrite, Reload, vars

(* A thread moves, and the others stand.                                   *)
LEMMA MovesOne ==
  ASSUME TypeOK, NEW t \in Threads, NEW from, NEW to, Moves(t, from, to)
  PROVE  thread[t] = from /\ thread'[t] = to /\ \A u \in Threads : u # t => thread'[u] = thread[u]
BY DEF Moves, TypeOK

LEMMA NextFault ==
  ASSUME TypeOK, TimerRuns, FoundIsUp, [Next]_vars
  PROVE  /\ TimerRuns' /\ FoundIsUp'
         /\ \A d \in Drivers : DealtWith(d) =>
              \/ DealtWith(d)'
              \/ mode' = Standalone
              \/ \E e \in up : CancelFault(e)
<1> DEFINE Kept == \A d \in Drivers : DealtWith(d) =>
                     \/ DealtWith(d)'
                     \/ mode' = Standalone
                     \/ \E e \in up : CancelFault(e)
<1> SUFFICES TimerRuns' /\ FoundIsUp' /\ Kept
  OBVIOUS
<1> USE ThreadKinds DEF TimerRuns, FoundIsUp, DealtWith
<1>1. CASE UNCHANGED faultVars
  BY <1>1 DEF faultVars
<1>2. CASE TimedOut \/ Distrusted
  <2>1. Moves("watchdog", "idle", "lower") /\ UNCHANGED <<timer, up>>
    BY <1>2 DEF TimedOut, Distrusted
  <2>2. \A u \in Timers \union Drivers : thread'[u] = thread[u]
    BY <2>1, MovesOne
  <2>. QED
    BY <2>1, <2>2
<1>3. ASSUME NEW t \in Threads, Look(t) PROVE TimerRuns' /\ FoundIsUp' /\ Kept
  <2>1. /\ thread[t] = "look" /\ thread'[t] = (IF mode > Standalone THEN "lower" ELSE "idle")
        /\ \A u \in Threads : u # t => thread'[u] = thread[u]
        /\ UNCHANGED <<timer, up, mode>>
    BY <1>3, MovesOne DEF Look
  <2>2. CASE mode > Standalone
    BY <2>1, <2>2
  <2>3. CASE ~(mode > Standalone)
    <3>1. mode' = Standalone
      BY <2>1, <2>3 DEF TypeOK, Standalone
    <3>. QED
      BY <2>1, <2>3, <3>1
  <2>. QED
    BY <2>2, <2>3
<1>4. ASSUME NEW t \in Threads, Lower(t) PROVE TimerRuns' /\ FoundIsUp' /\ Kept
  <2>1. /\ thread[t] = "lower" /\ thread'[t] = "zero"
        /\ \A u \in Threads : u # t => thread'[u] = thread[u]
        /\ UNCHANGED <<timer, up>> /\ mode' = Standalone
    BY <1>4, MovesOne DEF Lower
  <2>. QED
    BY <2>1
<1>5. ASSUME NEW t \in Threads, Zero(t) PROVE TimerRuns' /\ FoundIsUp' /\ Kept
  <2>1. /\ thread[t] = "zero" /\ thread'[t] = "idle"
        /\ \A u \in Threads : u # t => thread'[u] = thread[u]
        /\ UNCHANGED <<timer, up>>
    BY <1>5, MovesOne DEF Zero
  <2>. QED
    BY <2>1
<1>6. ASSUME NEW t \in Timers, Expire(t) PROVE TimerRuns' /\ FoundIsUp' /\ Kept
  <2>1. /\ thread[t] = "armed" /\ thread'[t] = "fired"
        /\ \A u \in Threads : u # t => thread'[u] = thread[u]
        /\ UNCHANGED <<timer, up>>
    BY <1>6, MovesOne DEF Expire
  <2>. QED
    BY <2>1
<1>7. ASSUME NEW t \in Timers, FaultTimeout(t) PROVE TimerRuns' /\ FoundIsUp' /\ Kept
  <2>1. /\ thread[t] = "fired" /\ thread'[t] = "look"
        /\ \A u \in Threads : u # t => thread'[u] = thread[u]
        /\ timer' = NoTimer /\ UNCHANGED up
    BY <1>7, MovesOne DEF FaultTimeout
  <2>. QED
    BY <2>1
<1>8. ASSUME NEW d \in Drivers, Connect(d) PROVE TimerRuns' /\ FoundIsUp' /\ Kept
  <2>1. /\ thread[d] = "idle" /\ thread'[d] = "found"
        /\ \A u \in Threads : u # d => thread'[u] = thread[u]
        /\ up' = up \union {d} /\ UNCHANGED timer
    BY <1>8, MovesOne DEF Connect
  <2>. QED
    BY <2>1
<1>9. ASSUME NEW d \in Drivers, Disconnect(d) PROVE TimerRuns' /\ FoundIsUp' /\ Kept
  <2>1. /\ thread[d] = "idle" /\ thread'[d] = "fault"
        /\ \A u \in Threads : u # d => thread'[u] = thread[u]
        /\ up' = up \ {d} /\ UNCHANGED timer
    BY <1>9, MovesOne DEF Disconnect
  <2>. QED
    BY <2>1
<1>10. ASSUME NEW d \in Drivers, DropAtOnce(d) PROVE TimerRuns' /\ FoundIsUp' /\ Kept
  <2>1. /\ thread[d] = "fault" /\ thread'[d] = (IF mode > Standalone THEN "lower" ELSE "idle")
        /\ \A u \in Threads : u # d => thread'[u] = thread[u]
        /\ UNCHANGED <<timer, up, mode>>
    BY <1>10, MovesOne DEF DropAtOnce
  <2>2. CASE mode > Standalone
    BY <2>1, <2>2
  <2>3. CASE ~(mode > Standalone)
    <3>1. mode' = Standalone
      BY <2>1, <2>3 DEF TypeOK, Standalone
    <3>. QED
      BY <2>1, <2>3, <3>1
  <2>. QED
    BY <2>2, <2>3
<1>11. ASSUME NEW d \in Drivers, ScheduleTimer(d) PROVE TimerRuns' /\ FoundIsUp' /\ Kept
  <2>1. CASE timer # NoTimer
    <3>1. /\ thread'[d] = "idle" /\ \A u \in Threads : u # d => thread'[u] = thread[u]
          /\ UNCHANGED <<timer, up>>
      BY <1>11, <2>1 DEF ScheduleTimer, TypeOK
    <3>2. timer \in Timers /\ thread'[timer] \in {"armed", "fired"}
      BY <2>1, <3>1
    <3>. QED
      BY <3>1, <3>2
  <2>2. CASE timer = NoTimer
    <3>1. PICK t \in Timers :
            /\ thread[t] = "idle" /\ timer' = t
            /\ thread' = [thread EXCEPT ![d] = "idle", ![t] = "armed"]
      BY <1>11, <2>2 DEF ScheduleTimer
    <3>2. /\ thread'[d] = "idle" /\ thread'[t] = "armed"
          /\ \A u \in Threads : u # d /\ u # t => thread'[u] = thread[u]
      BY <3>1 DEF TypeOK
    <3>3. UNCHANGED up
      BY <1>11 DEF ScheduleTimer
    <3>. QED
      BY <3>1, <3>2, <3>3
  <2>. QED
    BY <2>1, <2>2
<1>12. ASSUME NEW d \in Drivers, CancelFault(d) PROVE TimerRuns' /\ FoundIsUp' /\ Kept
  <2>1. d \in up /\ timer' = NoTimer /\ UNCHANGED up
    BY <1>12 DEF CancelFault
  <2>2. \A u \in Drivers : thread'[u] = "found" => thread[u] = "found"
    BY <1>12 DEF CancelFault
  <2>3. Kept
    BY <1>12, <2>1
  <2>. QED
    BY <2>1, <2>2, <2>3
<1>. QED
  BY <1>1, <1>2, <1>3, <1>4, <1>5, <1>6, <1>7, <1>8, <1>9, <1>10, <1>11, <1>12,
     FaultAside DEF Next, DropStep, TimerStep, Report

(* A lost connection that was reported is dealt with, through any number   *)
(* of timers, drivers and SETs, until the outstation has been in           *)
(* standalone or a connection is found again, be it another.               *)
THEOREM FaultIsKept == Spec => FaultKept
<1>1. TypeOK /\ TimerRuns /\ FoundIsUp /\ [Next]_vars => (TimerRuns /\ FoundIsUp)'
  BY NextFault
<1>2. TypeOK /\ TimerRuns /\ FoundIsUp /\ [Next]_vars
        => [\A d \in Drivers : DealtWith(d) =>
              \/ DealtWith(d)'
              \/ mode' = Standalone
              \/ \E e \in up : CancelFault(e)]_vars
  BY NextFault
<1>. QED
  BY InitFault, TypeCorrect, <1>1, <1>2, PTL DEF Spec, FaultKept
=============================================================================
