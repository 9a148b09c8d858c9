SPECIFICATION CliFairSpec
CHECK_DEADLOCK FALSE
CONSTANTS
  MaxGroup = 2
  ItemLists <- MCItemLists
  CellCount = 4
  Targets <- MCTargets
  Contents <- MCContents
  MaxOverwritten = 2
INVARIANTS
  RouteIsExplicit
  CleanExitRestores
  ProbeLeavesNoTrace
  ExitCodeIsHonest
  WritesArriveInOrder
PROPERTIES
  CliEnds
