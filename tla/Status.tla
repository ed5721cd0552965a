------------------------------- MODULE Status -------------------------------
(***************************************************************************)
(* The status of a MOVA stream (pci_mova/core/state/status.py), with the   *)
(* faults it raises and clears in the FaultMonitor (faults.py).  set() is  *)
(* called by the thread of the stream and by the threads of the commands,  *)
(* tick() once a second by the thread of the stream; both hold the lock of *)
(* the status, so each is one step.  Two watchdogs run on the ticks: a     *)
(* warm-up that takes too long is reported, a manual force that is held    *)
(* too long is reported and MOVA is turned off.                            *)
(*                                                                         *)
(* No code sets MULTI_CONFIRMS, DEBUG_START, NO_LICENCE, NO_CONFIG or      *)
(* SHUTDOWN: they are not in MovaStatus here.                              *)
(***************************************************************************)
EXTENDS StatusLimits

VARIABLES
  status, previous,  \* _current and _previous
  warmupWait,        \* _warmup_wait
  forceWait,         \* _manual_force_wait
  faults,            \* the STATUS_ keys of the active faults
  movaOn,            \* io[27] of the stream's buffers
  held               \* the ticks since the status was entered (history)

vars == <<status, previous, warmupWait, forceWait, faults, movaOn, held>>

MovaStatus == {"NOT_STARTED", "NO_DATASET", "INIT", "OFF", "WARMUP",
               "ON_CONTROL", "NO_CRB", "MANUAL_FORCE", "FAILED_RESTART"}

Init ==
  /\ status = "OFF" /\ previous = "NOT_STARTED"
  /\ warmupWait = 0 /\ forceWait = 0
  /\ faults = {}
  /\ movaOn = 0
  /\ held = 0

-----------------------------------------------------------------------------
(* Mutant of Cleared: a warm-up left for NO_CRB keeps its fault.           *)
ClearedOnControlOnly(s) == IF s \in {"ON_CONTROL", "OFF"} THEN {status} ELSE {}

(* The fault that goes with a transition to s: that of the state left.     *)
Cleared(s) ==
  IF status = "WARMUP" \/ s \in {"ON_CONTROL", "OFF"} THEN {status} ELSE {}

(* Mutant of Set: counters that run are left alone.                        *)
SetKeepsWaits(s) ==
  \/ s = status /\ UNCHANGED vars
  \/ /\ s # status
     /\ status' = s /\ previous' = status
     /\ faults' = faults \ Cleared(s)
     /\ warmupWait' = IF s = "WARMUP" THEN 1 ELSE warmupWait
     /\ forceWait' = IF s = "MANUAL_FORCE" THEN 1 ELSE forceWait
     /\ held' = 0
     /\ UNCHANGED movaOn

(* set(): nothing for the present status.  ON_CONTROL and OFF reset both   *)
(* counters, the other states the counter of the state they leave.         *)
Set(s) ==
  \/ s = status /\ UNCHANGED vars
  \/ /\ s # status
     /\ status' = s /\ previous' = status
     /\ faults' = faults \ Cleared(s)
     /\ warmupWait' = IF s = "WARMUP" THEN 1
                      ELSE IF status = "WARMUP" \/ s \in {"ON_CONTROL", "OFF"} THEN 0
                      ELSE warmupWait
     /\ forceWait' = IF s = "MANUAL_FORCE" THEN 1
                     ELSE IF status = "MANUAL_FORCE" \/ s \in {"ON_CONTROL", "OFF"} THEN 0
                     ELSE forceWait
     /\ held' = 0
     /\ UNCHANGED movaOn

(* _tick_warmup(): at the limit the fault is raised, once.                 *)
WarmupExpires == status = "WARMUP" /\ warmupWait = MaxWarmup

WarmupWait ==
  IF warmupWait = 0 \/ status # "WARMUP" THEN 0
  ELSE IF warmupWait <= MaxWarmup THEN warmupWait + 1 ELSE warmupWait

(* _tick_manual_force(): at the limit the fault is raised.                 *)
ForceExpires == status = "MANUAL_FORCE" /\ forceWait >= MaxManualForce

(* _tick_manual_force(): the counter starts again from 0.                  *)
ForceWait ==
  IF forceWait = 0 \/ status # "MANUAL_FORCE" \/ ForceExpires THEN 0
  ELSE forceWait + 1

(* tick(), with _handle_status_fault(): an expired force turns MOVA off.   *)
Tick ==
  /\ warmupWait' = WarmupWait
  /\ forceWait' = ForceWait
  /\ faults' = faults \union (IF WarmupExpires THEN {"WARMUP"} ELSE {})
                      \union (IF ForceExpires THEN {"MANUAL_FORCE"} ELSE {})
  /\ movaOn' = IF ForceExpires THEN 0 ELSE movaOn
  /\ held' = IF held < Horizon THEN held + 1 ELSE held
  /\ UNCHANGED <<status, previous>>

(* The commands that write io[27].                                         *)
SetMovaOn(on) ==
  /\ movaOn' = on
  /\ UNCHANGED <<status, previous, warmupWait, forceWait, faults, held>>

Next ==
  \/ \E s \in MovaStatus : Set(s)
  \/ Tick
  \/ \E on \in {0, 1} : SetMovaOn(on)

Spec == Init /\ [][Next]_vars

-----------------------------------------------------------------------------
TypeOK ==
  /\ status \in MovaStatus /\ previous \in MovaStatus
  /\ warmupWait \in 0..MaxWarmup + 1
  /\ forceWait \in 0..MaxManualForce
  /\ faults \subseteq {"WARMUP", "MANUAL_FORCE"}
  /\ movaOn \in {0, 1}
  /\ held \in 0..Horizon

(* The warm-up fault is active exactly from the MaxWarmup-th second of a   *)
(* warm-up to its end, whatever the status and the counters went through   *)
(* before: _warmup_wait is the age of the present warm-up.                 *)
WarmupReported ==
  "WARMUP" \in faults <=> status = "WARMUP" /\ held >= MaxWarmup

(* The counter of a manual force is the age of the present force until the *)
(* limit, and 0 after it and in every other status: a force is timed out   *)
(* once, and never by the seconds of an earlier one.                       *)
ForceTimed ==
  forceWait = IF status = "MANUAL_FORCE" /\ held < MaxManualForce
              THEN held + 1 ELSE 0

(* A second of a manual force turns MOVA off exactly when it is the last   *)
(* one allowed.                                                            *)
ForceTurnsMovaOff ==
  [][Tick /\ ~UNCHANGED held /\ status = "MANUAL_FORCE" /\ movaOn = 1
       => (movaOn' = 0 <=> held' = MaxManualForce)]_vars

=============================================================================
