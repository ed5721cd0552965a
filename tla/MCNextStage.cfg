SPECIFICATION FairSpec
CONSTANTS
  NStages = 3
  MaxStages = 10
  Allowances <- MCReserved
  Markers <- MCMarkers
INVARIANTS
  NormalRight
  ChoicePermitted
  EmergencyFirst
  PrioritySecond
PROPERTIES
  Decides
