SPECIFICATION Spec
CONSTANTS
  Paths = {a}
  Contents = {1, 2}
  Digests = {"sha1", "none", "doc"}
  Guarded = {"local", "remote"}
  EventsLive = TRUE
  MaxEdits = 2
  MaxFaults = 0
  MaxRulings = 2
INVARIANTS
  CursorSafe
PROPERTIES
  NoRemoteLoss
  RemoteDeletesApproved
  LocalDeletesApproved
