---------------------------- MODULE StatusLimits ----------------------------
(* The limits of the watchdogs of the status, common to the status         *)
(* (Status) and to the stream it belongs to (Stream).                      *)
EXTENDS Integers

CONSTANTS
  MaxWarmup,         \* MAX_WARMUP_SECONDS
  MaxManualForce,    \* MAX_MANUAL_FORCE_SECONDS
  Horizon            \* the ticks counted by the history variable held

ASSUME StatusAssumption ==
  /\ MaxWarmup \in Nat \ {0} /\ MaxManualForce \in Nat \ {0}
  /\ Horizon \in Nat /\ Horizon >= MaxWarmup /\ Horizon >= MaxManualForce
=============================================================================
