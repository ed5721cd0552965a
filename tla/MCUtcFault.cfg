SPECIFICATION FairSpec
CONSTANTS
  Points = {"a"}
  Drivers = {"xkop", "rpdb"}
  Timers = {"t1"}
  NoTimer = "none"
  Plans = {}
  NoPlan = "none"
  Offsets = 1
  Named <- MCNamed
  Mask <- MCMask
  ActiveModes = {1, 2}
PROPERTIES FaultEnds
CHECK_DEADLOCK FALSE
