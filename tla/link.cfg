SPECIFICATION LinkSpec
CONSTANTS
  HalfRange = 2
  ResponseTimeout = 1
  InterByteTimeout = 1
  BlockModulus = 3
  RxCapacity = 2
  MaxOutstanding = 2
  Operations <- MCOperations
  TransportFailures <- MCTransportFailures
INVARIANTS
  MonitorListsAgree
PROPERTIES
  AnswerBelongsToRequest
  DefiniteFailureIsTrue
  VerdictIsTrue
