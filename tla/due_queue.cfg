SPECIFICATION LiveSpec
CONSTANTS
  N = 3
  ScanInterval <- MCScanInterval
  PollInterval = 1
  EventsDriven = {0}
  SweepDelays = {3}
  Unscheduled = {1}
  MaxPass = 2
  MaxRequests = 2
INVARIANTS
  TypeOK
  SleepsOrPops
  RequestsMerge
PROPERTIES
  NoOvertaking
  SweepIsRun
  RequestServed
\* Shutdown ends the loop.
CHECK_DEADLOCK FALSE
