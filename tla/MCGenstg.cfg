SPECIFICATION Spec
CONSTANTS
  NStages = 2
  MaxStages = 3
  Timeout = 2
  ErrLimit = 2
  MaxByte = 3
  MaxIg = 1
  ErrVal <- MCErrVal
  Change <- MCChange
INVARIANTS
  OneForce
  Lockout
  BoundedWait
PROPERTIES
  ForceOnlyWhenReady
  WaitShrinks
  KeepsPromise
  SeenByLoop
