SPECIFICATION Spec
CONSTANTS
  Paths = {a}
  Contents = {1, 2}
  Digests = {"sha1"}
  Guarded = {}
  EventsLive = TRUE
  MaxEdits = 3
  MaxFaults = 1
  MaxRulings = 0
INVARIANTS
  TypeOK
  CursorSafe
PROPERTIES
  NoRemoteLoss
  NoLocalLoss
