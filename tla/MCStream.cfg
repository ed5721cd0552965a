SPECIFICATION FairSpec
CONSTANTS
  MaxWarmup = 1
  MaxManualForce = 1
  Horizon = 1
  Ipc = Ipc
  Tools = Tools
  Handlers = {Ipc}
  Daemons = {d1}
  Threads = {t1}
  NoThread = NoThread
  Commands <- MCLife
  CrashLimit = 2
  SlowTicks = 1
INVARIANTS ShownAsItIs
PROPERTIES KeepsTicking CommandsEnd
