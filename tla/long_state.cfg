SPECIFICATION LongStateSpec
CONSTANTS
  NumberLimit = 6
  WireMaximum = 4
  StageBits = 3
  MaxPoints = 4
  Readable <- MCReadable
INVARIANTS
  LongStateReadIsWhole
