SPECIFICATION FairSpec
CONSTANTS
  Signals = {"g1"}
  Inverted = {"g1"}
  Writers = {"driver", "web"}
  KeepAlive = TRUE
  Lossy = TRUE
  Modes = {1, 2}
  Addresses = {TRUE, FALSE}
  Limit = 0
PROPERTIES Reported SilenceDrops
