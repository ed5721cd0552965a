SPECIFICATION Spec
CONSTANTS
  NStages = 3
  MaxStages = 4
  MinGreen <- MCMinGreen
  LinkMin = 2
  LinkVarMin = 2
  HoldTime = 2
  Maxes = {2}
  Drifts = {1}
  DriftGuard = 1
  EmergencyExt = 1
  PriorityExt = 0
  GreenTime = 2
  ExtTime = 1
  TimerCap = 4
INVARIANTS
  WaitsAfterMinimum
  GreenBounded
  EmergencyCuts
PROPERTIES
  ChangeStands
  CountsForLoop
