SPECIFICATION Spec
CONSTANTS
  Signals = {"g1"}
  Inverted = {}
  Writers = {"driver"}
  KeepAlive = FALSE
  Lossy = FALSE
  Modes = {2}
  Addresses = {TRUE}
  Limit = 1
INVARIANT ChangesReported
