SPECIFICATION Spec
CONSTANTS
  MaxWarmup = 1
  MaxManualForce = 1
  Horizon = 1
  Ipc = Ipc
  Tools = Tools
  Handlers = {Ipc, Tools}
  Daemons = {}
  Threads = {t1, t2}
  NoThread = NoThread
  Commands <- MCBoth
  CrashLimit = 1
  SlowTicks = 1
INVARIANTS OneTicker Exclusive FailedStops WarmupReported ForceTimed
SYMMETRY ThreadSymmetry
CONSTRAINT Unraced
