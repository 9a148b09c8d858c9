SPECIFICATION UartFairSpec
CONSTANTS
  HalfRange = 4
  ResponseTimeout = 3
  InterByteTimeout = 2
  BlockModulus = 2
  RxCapacity = 2
  FrameSize = 2
  Operations <- MCOperations
  TransportFailures <- MCTransportFailures
INVARIANTS
  FacadeFollowsCore
  WireIsOwned
  AwaitedFramesWereSent
  DoubtfulUartIsNotReused
PROPERTIES
  UartRequestsEnd
