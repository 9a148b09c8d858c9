SPECIFICATION FairSpec
CONSTANTS
  HalfRange = 4
  ResponseTimeout = 3
  InterByteTimeout = 2
  BlockModulus = 2
  RxCapacity = 2
  Operations <- MCOperations
  TransportFailures <- MCTransportFailures
INVARIANTS
  DriverOwnership
PROPERTIES
  ResetOnlyByConfigure
  HonestOutcome
  LatchedTimeoutWins
  UnansweredRetiresTransport
  AnsweredInTime
  NoEarlyTimeout
  RequestsEnd
  ImplementsLifecycle
