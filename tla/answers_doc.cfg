SPECIFICATION AnswersSpec
CONSTANTS
  A = A
  B = B
  Kinds <- MCKinds
  Devices = {A, B}
  Lists <- MCLongLists
  Storages = {s1, s2}
  MaxItems = 3
  Capacity = 2
INVARIANTS
  FittingIsAccepted
