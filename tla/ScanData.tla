------------------------------ MODULE ScanData ------------------------------
(* The dataset of the scan of the stage confirms, common to the scan       *)
(* (StageScan) and to the loop it is part of (Monitr).                     *)
EXTENDS Integers

CONSTANTS
  NStages,          \* Tcomshr->stages
  Banned,           \* the pairs with change[][] = -1
  WrongScans        \* the scans a banned change is held off: 5

Stages == 1..NStages

ASSUME StageScanAssumption ==
  /\ NStages \in Nat \ {0}
  /\ Banned \subseteq Stages \X Stages
  /\ WrongScans \in Nat \ {0}
=============================================================================
