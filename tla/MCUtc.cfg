SPECIFICATION FairSpec
CONSTANTS
  Points = {"a"}
  Drivers = {"xkop"}
  Timers = {"t1"}
  NoTimer = "none"
  Plans = {"day"}
  NoPlan = "none"
  Offsets = 3
  Named <- MCNamed
  Mask <- MCMask
  ActiveModes = {1, 2}
INVARIANT OnlyStrays
PROPERTIES FaultEnds SilenceEnds PlanRuns
CHECK_DEADLOCK FALSE
