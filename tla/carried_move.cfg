SPECIFICATION Spec
CONSTANTS
  Order <- SixPaths
  RootKnown = TRUE
  RootId = 100
  Elsewhere = 101
  MaxEdits = 3
  MaxFaults = 0
  Lag = FALSE
  Races = FALSE
PROPERTIES
  ConflictsKeepBoth
