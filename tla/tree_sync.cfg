SPECIFICATION Spec
CONSTANTS
  Order <- ThreeFolders
  RootKnown = TRUE
  RootId = 100
  Elsewhere = 101
  MaxEdits = 2
  MaxFaults = 1
  Lag = TRUE
  Races = TRUE
INVARIANTS
  TypeOK
  OneKind
  RecordsAreRemote
  IdleMeansAgreed
  Settles
  NeverStuck
PROPERTIES
  NoAuthoredLoss
  LocalEditsStay
