--------------------------------- MODULE Utc ---------------------------------
(***************************************************************************)
(* The UTC outstation of the controller board: the UG405 service           *)
(* (cm5/ug405/svc_ug405.py), the offline plan (cm5/offline_plan/           *)
(* svc_offline_plan.py) and the points both write on the bus as 'ug405'.   *)
(* The threads share the operating mode and the points without a lock:     *)
(*   - the SNMP thread, one SET of the instation at a time ("request"; the *)
(*     write on the bus that is next is "put");                            *)
(*   - the watchdog, a fault timer for each lost connection and, with no   *)
(*     delay, the driver itself: each may drop the outstation to           *)
(*     standalone, which is a look at the mode, a write of it and a        *)
(*     release of the points ("thread");                                   *)
(*   - the drivers, which report their connections lost and found;         *)
(*   - the plan, one tick each second ("runner").                          *)
(* One junction with one field of control bits is enough: nothing crosses  *)
(* from one to another.  OperationModeTimeout is on.                       *)
(***************************************************************************)
EXTENDS Integers

CONSTANTS
  Points,        \* the control points of the junction
  Drivers,       \* the drivers whose signals the mapping uses
  Timers,        \* the fault timers alive at one time (bound)
  NoTimer,
  Plans, NoPlan, \* the plans of the file
  Offsets,       \* the offsets of a plan: 0..Offsets - 1
  Named, Mask,   \* the points each offset of a plan names, and puts on
  ActiveModes    \* active_in_modes

ASSUME UtcAssumption ==
  /\ NoTimer \notin Timers /\ NoPlan \notin Plans
  /\ "watchdog" \notin Timers \union Drivers /\ Timers \intersect Drivers = {}
  /\ Offsets \in Nat \ {0}
  /\ Named \in [Plans -> [0..Offsets - 1 -> SUBSET Points]]
  /\ Mask \in [Plans -> [0..Offsets - 1 -> SUBSET Points]]
  /\ \A name \in Plans, o \in 0..Offsets - 1 : Mask[name][o] \subseteq Named[name][o]
  /\ ActiveModes \subseteq 1..3

VARIABLES
  mode,          \* op_mode['value']: 1 standalone, 2 monitor, 3 UTC control
  age,           \* "old" when op_mode['last_set'] is past the timeout
  points,        \* the points that are on
  request, put,  \* the SNMP thread
  thread,        \* watchdog, timers and drivers: the step that is next
  timer,         \* _fault_timer
  delayed,       \* 1 when io_fault_timeout is positive
  up,            \* the drivers that are connected
  plan, offset,  \* _active_plan and _last_offset_idx of the junction
  runner,        \* the plan's thread
  stray          \* points left on after the right to them had gone (history)

snmp == <<request, put>>
faultVars == <<thread, timer, up>>
planVars == <<plan, offset, runner>>
vars == <<mode, age, points, snmp, faultVars, delayed, planVars, stray>>

Standalone == 1
Control == 3

Threads == {"watchdog"} \union Timers \union Drivers
NoRequest == [at |-> "idle", new |-> 0, mask |-> {}, left |-> {}]
NoPut == <<>>
Resting == [at |-> "idle", off |-> {}, left |-> {}]
NoOffset == -2

Init ==
  /\ mode = Standalone /\ age = "old"
  /\ points = {} /\ stray = {}
  /\ request = NoRequest /\ put = NoPut
  /\ thread = [t \in Threads |-> "idle"]
  /\ timer = NoTimer /\ delayed \in {0, 1}
  /\ up = {}
  /\ plan = NoPlan /\ offset = NoOffset /\ runner = Resting

-----------------------------------------------------------------------------
(* The bus: a point written, and zero_owned_by('ug405').  A point goes on  *)
(* by right if its writer is the plan, or the instation in control.        *)
Write(p, value, byRight) ==
  /\ points' = IF value = 1 THEN points \union {p} ELSE points \ {p}
  /\ stray' = IF value = 1 /\ ~byRight THEN stray \union {p} ELSE stray \ {p}

ZeroOwned == points' = {} /\ stray' = {}

-----------------------------------------------------------------------------
(* SNMP: OpModeInstance.setValue()                                         *)

(* The mode may fall as it likes and rise by one.                          *)
SetMode(new) ==
  /\ request.at = "idle" /\ new <= mode + 1
  /\ request' = [NoRequest EXCEPT !.at = "mode", !.new = new]
  /\ UNCHANGED <<mode, age, points, put, faultVars, delayed, planVars, stray>>

WriteMode ==
  /\ request.at = "mode"
  /\ mode' = request.new
  /\ request' = [request EXCEPT !.at = "stamp"]
  /\ UNCHANGED <<age, points, put, faultVars, delayed, planVars, stray>>

(* Mutant of Stamp: going down to monitor keeps the points.                *)
StampKeeps ==
  /\ request.at = "stamp"
  /\ age' = "fresh"
  /\ request' = IF request.new < 2 THEN [request EXCEPT !.at = "zero"] ELSE NoRequest
  /\ UNCHANGED <<mode, points, put, faultVars, delayed, planVars, stray>>

(* last_set; outside UTC control the points are released.                  *)
Stamp ==
  /\ request.at = "stamp"
  /\ age' = "fresh"
  /\ request' = IF request.new < Control THEN [request EXCEPT !.at = "zero"]
                ELSE NoRequest
  /\ UNCHANGED <<mode, points, put, faultVars, delayed, planVars, stray>>

Release ==
  /\ request.at = "zero"
  /\ ZeroOwned
  /\ request' = NoRequest
  /\ UNCHANGED <<mode, age, put, faultVars, delayed, planVars>>

(* Time passes since the mode was last set.                                *)
Ages ==
  /\ age = "fresh" /\ age' = "old"
  /\ UNCHANGED <<mode, points, snmp, faultVars, delayed, planVars, stray>>

-----------------------------------------------------------------------------
(* SNMP: ControlBitmask.setValue() and ControlSingle.setValue()            *)

(* Mutant of SetControl: the instation's control keeps its mode alive.     *)
SetControlStamps(mask) ==
  /\ request.at = "idle"
  /\ request' = [at |-> "set", new |-> 0, mask |-> mask, left |-> Points]
  /\ age' = "fresh"
  /\ UNCHANGED <<mode, points, put, faultVars, delayed, planVars, stray>>

SetControl(mask) ==
  /\ request.at = "idle"
  /\ request' = [at |-> "set", new |-> 0, mask |-> mask, left |-> Points]
  /\ UNCHANGED <<mode, age, points, put, faultVars, delayed, planVars, stray>>

SetSingle(p, on) ==
  /\ request.at = "idle"
  /\ request' = [NoRequest EXCEPT !.at = "single"]
  /\ put' = <<p, IF mode >= Control THEN on ELSE 0>>
  /\ UNCHANGED <<mode, age, points, faultVars, delayed, planVars, stray>>

(* The first loop is followed by the second, the second by the next SET.   *)
Onwards(r) ==
  IF r.left # {} THEN r
  ELSE IF r.at = "set" THEN [r EXCEPT !.at = "clear", !.left = Points]
  ELSE NoRequest

(* "Anti-drop: set new bits first, clear old bits second": the mode is     *)
(* looked at for each bit, and again in the second loop.                   *)
Bit(p) ==
  /\ put = NoPut /\ p \in request.left
  /\ LET on == p \in request.mask /\ mode >= Control
         write == request.at = IF on THEN "set" ELSE "clear"
         rest == [request EXCEPT !.left = @ \ {p}]
     IN /\ put' = IF write THEN <<p, IF on THEN 1 ELSE 0>> ELSE NoPut
        /\ request' = IF write THEN rest ELSE Onwards(rest)
  /\ UNCHANGED <<mode, age, points, faultVars, delayed, planVars, stray>>

Put ==
  /\ put # NoPut
  /\ Write(put[1], put[2], mode >= Control)
  /\ put' = NoPut
  /\ request' = Onwards(request)
  /\ UNCHANGED <<mode, age, faultVars, delayed, planVars>>

-----------------------------------------------------------------------------
(* _drop_to_standalone(), by any of the threads                            *)

Moves(t, from, to) ==
  thread[t] = from /\ thread' = [thread EXCEPT ![t] = to]

Look(t) ==
  /\ Moves(t, "look", IF mode > Standalone THEN "lower" ELSE "idle")
  /\ UNCHANGED <<mode, age, points, snmp, timer, up, delayed, planVars, stray>>

Lower(t) ==
  /\ Moves(t, "lower", "zero")
  /\ mode' = Standalone
  /\ UNCHANGED <<age, points, snmp, timer, up, delayed, planVars, stray>>

Zero(t) ==
  /\ Moves(t, "zero", "idle")
  /\ ZeroOwned
  /\ UNCHANGED <<mode, age, snmp, timer, up, delayed, planVars>>

(* _watchdog(): the mode was not set for too long.                         *)
TimedOut ==
  /\ mode > Standalone /\ age = "old"
  /\ Moves("watchdog", "idle", "lower")
  /\ UNCHANGED <<mode, age, points, snmp, timer, up, delayed, planVars, stray>>

(* _watchdog(): a backlog of notifications, or a clock that jumps.         *)
Distrusted ==
  /\ mode > Standalone
  /\ Moves("watchdog", "idle", "lower")
  /\ UNCHANGED <<mode, age, points, snmp, timer, up, delayed, planVars, stray>>

-----------------------------------------------------------------------------
(* The connections and the fault timer                                     *)

Connect(d) ==
  /\ d \notin up /\ Moves(d, "idle", "found")
  /\ up' = up \union {d}
  /\ UNCHANGED <<mode, age, points, snmp, timer, delayed, planVars, stray>>

Disconnect(d) ==
  /\ d \in up /\ Moves(d, "idle", "fault")
  /\ up' = up \ {d}
  /\ UNCHANGED <<mode, age, points, snmp, timer, delayed, planVars, stray>>

(* _schedule_standalone(): with no delay the driver itself drops; a timer  *)
(* that is known is left to run.                                           *)
DropAtOnce(d) ==
  /\ delayed = 0
  /\ Moves(d, "fault", IF mode > Standalone THEN "lower" ELSE "idle")
  /\ UNCHANGED <<mode, age, points, snmp, timer, up, delayed, planVars, stray>>

ScheduleTimer(d) ==
  /\ delayed = 1 /\ thread[d] = "fault"
  /\ IF timer # NoTimer
       THEN thread' = [thread EXCEPT ![d] = "idle"] /\ UNCHANGED timer
       ELSE \E t \in {u \in Timers : thread[u] = "idle"} :
              /\ timer' = t
              /\ thread' = [thread EXCEPT ![d] = "idle", ![t] = "armed"]
  /\ UNCHANGED <<mode, age, points, snmp, up, delayed, planVars, stray>>

(* Mutant of CancelFault: the timer is cancelled and not forgotten.        *)
CancelFaultKept(d) ==
  /\ thread[d] = "found"
  /\ thread' = [t \in Threads |->
                  IF t = d \/ (t = timer /\ thread[t] = "armed") THEN "idle"
                  ELSE thread[t]]
  /\ UNCHANGED <<timer, mode, age, points, snmp, up, delayed, planVars, stray>>

(* _cancel_fault(): a timer that has fired is not stopped by this.         *)
CancelFault(d) ==
  /\ thread[d] = "found"
  /\ thread' = [t \in Threads |->
                  IF t = d \/ (t = timer /\ thread[t] = "armed") THEN "idle"
                  ELSE thread[t]]
  /\ timer' = NoTimer
  /\ UNCHANGED <<mode, age, points, snmp, up, delayed, planVars, stray>>

Expire(t) ==
  /\ Moves(t, "armed", "fired")
  /\ UNCHANGED <<mode, age, points, snmp, timer, up, delayed, planVars, stray>>

(* _fault_timeout() forgets the timer known, be it another by now.         *)
FaultTimeout(t) ==
  /\ Moves(t, "fired", "look")
  /\ timer' = NoTimer
  /\ UNCHANGED <<mode, age, points, snmp, up, delayed, planVars, stray>>

-----------------------------------------------------------------------------
(* The offline plan                                                        *)

(* Mutant of Applied: an offset is only applied when it is a later one.    *)
AppliedLater(last, pos) == pos <= last

(* _apply_offsets(): nothing to do for the offset applied last, or before  *)
(* the first one.                                                          *)
Applied(last, pos) == pos = last \/ pos < 0

(* The loops of _apply_offsets() and _zero_scn(), and what follows.        *)
Goes(r, name, last) ==
  IF r.left # {} THEN runner' = r /\ plan' = name /\ offset' = last
  ELSE IF r.at = "set" /\ r.off # {}
    THEN /\ runner' = [at |-> "clear", off |-> {}, left |-> r.off]
         /\ plan' = name /\ offset' = last
  ELSE /\ runner' = Resting
       /\ plan' = IF r.at = "zero" THEN NoPlan ELSE name
       /\ offset' = IF r.at = "zero" THEN NoOffset ELSE last

(* _tick() with the plan the timetable wants and the offset its cycle is   *)
(* at (-1: before the first).                                              *)
PlanTick(wanted, pos) ==
  /\ runner = Resting
  /\ IF mode < Control /\ mode \in ActiveModes /\ wanted # NoPlan
       THEN IF Applied(IF plan = wanted THEN offset ELSE -1, pos)
            THEN plan' = wanted /\ offset' = pos /\ UNCHANGED runner
            ELSE LET on == Mask[wanted][pos]
                 IN Goes([at |-> "set", off |-> Named[wanted][pos] \ on, left |-> on],
                         wanted, pos)
     ELSE IF plan # NoPlan
       THEN Goes([at |-> "zero", off |-> {}, left |-> Points], plan, offset)
     ELSE UNCHANGED planVars
  /\ UNCHANGED <<mode, age, points, snmp, faultVars, delayed, stray>>

PlanWrite(p) ==
  /\ p \in runner.left
  /\ Write(p, IF runner.at = "set" THEN 1 ELSE 0, TRUE)
  /\ Goes([runner EXCEPT !.left = @ \ {p}], plan, offset)
  /\ UNCHANGED <<mode, age, snmp, faultVars, delayed>>

(* A new plan file: what was active is forgotten, its points stay on.      *)
Reload ==
  /\ runner = Resting
  /\ plan' = NoPlan /\ offset' = NoOffset
  /\ stray' = IF mode < Control THEN stray \union points ELSE stray
  /\ UNCHANGED <<mode, age, points, snmp, faultVars, delayed, runner>>

-----------------------------------------------------------------------------
Positions == -1..Offsets - 1

SnmpStep == \/ WriteMode \/ Stamp \/ Release \/ Put
            \/ \E p \in Points : Bit(p)
DropStep(t) == Look(t) \/ Lower(t) \/ Zero(t)
TimerStep(t) == Expire(t) \/ FaultTimeout(t)
Report(d) == DropAtOnce(d) \/ ScheduleTimer(d) \/ CancelFault(d)
RunnerStep == \E p \in Points : PlanWrite(p)

Next ==
  \/ \E new \in 1..3 : SetMode(new)
  \/ \E mask \in SUBSET Points : SetControl(mask)
  \/ \E p \in Points, on \in {0, 1} : SetSingle(p, on)
  \/ SnmpStep
  \/ Ages \/ TimedOut \/ Distrusted
  \/ \E t \in Threads : DropStep(t)
  \/ \E t \in Timers : TimerStep(t)
  \/ \E d \in Drivers : Connect(d) \/ Disconnect(d) \/ Report(d)
  \/ \E wanted \in Plans \union {NoPlan}, pos \in Positions : PlanTick(wanted, pos)
  \/ RunnerStep
  \/ Reload

Spec == Init /\ [][Next]_vars

(* No thread waits for another.  The clock goes through every offset of a  *)
(* plan that the timetable has.                                            *)
FairSpec ==
  /\ Spec
  /\ WF_vars(SnmpStep) /\ WF_vars(Ages) /\ WF_vars(TimedOut)
  /\ \A t \in Threads : WF_vars(DropStep(t))
  /\ \A t \in Timers : WF_vars(TimerStep(t))
  /\ \A d \in Drivers : WF_vars(Report(d))
  /\ WF_vars(RunnerStep)
  /\ \A wanted \in Plans, pos \in 0..Offsets - 1 : SF_vars(PlanTick(wanted, pos))

-----------------------------------------------------------------------------
TypeOK ==
  /\ mode \in 1..3 /\ age \in {"fresh", "old"}
  /\ points \subseteq Points /\ stray \subseteq points
  /\ request \in [at : {"idle", "mode", "stamp", "zero", "set", "clear", "single"},
                  new : 0..3, mask : SUBSET Points, left : SUBSET Points]
  /\ request.at = "mode" => request.new # 0
  /\ put \in {NoPut} \union (Points \X {0, 1})
  /\ thread \in [Threads -> {"idle", "look", "lower", "zero", "armed", "fired",
                             "found", "fault"}]
  /\ timer \in Timers \union {NoTimer} /\ delayed \in {0, 1}
  /\ up \subseteq Drivers
  /\ plan \in Plans \union {NoPlan} /\ offset \in Positions \union {NoOffset}
  /\ runner \in [at : {"idle", "set", "clear", "zero"},
                 off : SUBSET Points, left : SUBSET Points]

AtRest ==
  /\ request = NoRequest /\ runner = Resting
  /\ \A t \in Threads : thread[t] \notin {"lower", "zero"}

(* With nobody at work, out of UTC control and without a plan, a point is  *)
(* on in two cases only: the instation's SET overtook the fall of the mode *)
(* it had looked at, or the file of the plan that set it was replaced.     *)
OnlyStrays == AtRest /\ mode < Control /\ plan = NoPlan => points \subseteq stray

(* A connection that is lost ends in standalone unless it comes back.      *)
(* svc_ug405.py:195, "standalone in %ds if not recovered".                 *)
FaultEnds ==
  \A d \in Drivers : thread[d] = "fault" ~> d \in up \/ mode = Standalone

(* A lost connection is being dealt with while it is reported, and while a *)
(* timer or its driver is on the way to standalone.                        *)
DealtWith(d) ==
  \/ thread[d] \in {"fault", "lower"}
  \/ \E t \in Timers : thread[t] \in {"armed", "fired", "look", "lower"}

(* Only standalone and a connection that comes back end that: no timer is  *)
(* relied on that does not run any more.  Which connection comes back, the *)
(* code does not ask.                                                      *)
FaultKept ==
  [][\A d \in Drivers : DealtWith(d) =>
       \/ DealtWith(d)'
       \/ mode' = Standalone
       \/ \E e \in up : CancelFault(e)]_vars

(* An instation that no longer sets the mode loses control, whatever else  *)
(* it sets.                                                                *)
SilenceEnds ==
  <>[](request.at \notin {"mode", "stamp", "zero"}) => <>[](mode = Standalone)

(* Left to itself in standalone, the outstation comes back to its plan:    *)
(* every offset sets the points it names again and again, whatever was     *)
(* zeroed under the plan before.  A plan with one offset is not: nothing   *)
(* applies that offset again while it is the one applied last.             *)
PlanRuns ==
  /\ Offsets > 1 /\ Standalone \in ActiveModes
  /\ <>[](mode = Standalone /\ request = NoRequest)
  => \A name \in Plans, o \in 0..Offsets - 1 :
       []<>(/\ plan = name /\ offset = o /\ runner = Resting
            /\ points \intersect Named[name][o] = Mask[name][o])
=============================================================================
