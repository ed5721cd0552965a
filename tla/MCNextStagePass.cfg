SPECIFICATION FairSpec
CONSTANTS
  NStages = 3
  MaxStages = 10
  Allowances <- MCReserved
  Markers <- MCMarkers
PROPERTIES
  AllowedOnSecondPass
