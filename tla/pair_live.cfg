SPECIFICATION LiveSpec
CONSTANTS
  Paths = {a}
  Contents = {1, 2}
  Digests = {"sha1"}
  Guarded = {"local", "remote"}
  EventsLive = TRUE
  MaxEdits = 1
  MaxFaults = 1
  MaxRulings = 2
PROPERTIES
  Converges
  ApprovalApplies
  KeptIsRestored
