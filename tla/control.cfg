SPECIFICATION LiveSpec
CONSTANTS
  a = a
  b = b
  Items <- MCItems
  Spares <- MCSpares
  Guarded = {}
  MaxEvents = 4
INVARIANTS
  TypeOK
PROPERTIES
  OnlySeenGo
  AppliedIsReviewed
  ResyncIsKept
  ApprovalsAreSpent
  ResetRuns
  HoldLifts
  RequestsAnswered
  PlansAnsweredInOrder
  AppliesAnsweredInOrder
