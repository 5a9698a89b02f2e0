SPECIFICATION Spec
CONSTANTS
  Paths = {a}
  Contents = {1, 2}
  Digests = {"sha1"}
  Guarded = {}
  EventsLive = TRUE
  MaxEdits = 1
  MaxFaults = 0
  MaxRulings = 0
INVARIANTS
  KeepMineUploads
