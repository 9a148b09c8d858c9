SPECIFICATION BitFairSpec
CONSTANTS
  HalfRange = 4
  ResponseTimeout = 3
  InterByteTimeout = 2
  BlockModulus = 1
  RxCapacity = 1
  BitReads <- MCBitReads
  Operations <- MCOperations
  TransportFailures <- MCTransportFailures
INVARIANTS
  ClientIsHeld
  HonestBitWrite
  OneDeadlineForBoth
PROPERTIES
  BitWritesEnd
