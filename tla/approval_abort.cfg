SPECIFICATION LiveSpec
CONSTANTS
  Paths = {a}
  Contents = {1}
  Digests = {"sha1"}
  Guarded = {"remote"}
  EventsLive = TRUE
  MaxEdits = 1
  MaxFaults = 1
  MaxRulings = 1
PROPERTIES
  ApprovalSurvives
