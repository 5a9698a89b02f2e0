SPECIFICATION Spec
CONSTANTS
  Contents = {1, 2, 3}
  Ids = {1, 2}
INVARIANTS
  TypeOK
  Settles
PROPERTIES
  NoVersionLost
  DeletesAreAgreed
  UnknownIsLeftAlone
