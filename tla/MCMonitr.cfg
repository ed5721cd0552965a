SPECIFICATION FairSpec
CONSTANTS
  NStages = 2
  Banned <- MCBanned
  WrongScans = 2
  FrameTicks = 3
INVARIANTS
  TwoFaultyFrames
  Coupled
PROPERTIES
  TwoClearFrames
  ScansPaced
  RestartIsCold
  ConfirmedTwice
  Settles
  Recovers
