SPECIFICATION AnswersSpec
CONSTANTS
  A = A
  B = B
  Kinds <- MCKinds
  Devices = {A, B}
  Lists <- MCLists
  Storages = {s1, s2}
  MaxItems = 3
  Capacity = 2
PROPERTIES
  DeliversAnswers
