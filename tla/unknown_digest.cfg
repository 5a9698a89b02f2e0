SPECIFICATION Spec
CONSTANTS
  Paths = {a}
  Contents = {1, 2}
  Digests = {"none"}
  Guarded = {}
  EventsLive = TRUE
  MaxEdits = 2
  MaxFaults = 0
  MaxRulings = 0
PROPERTIES
  UnknownIsNotDestroyed
