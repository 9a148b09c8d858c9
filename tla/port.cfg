SPECIFICATION PortFairSpec
CONSTANTS
  Platforms <- MCPlatforms
  Size = 3
  MaxTimeout = 2
  MaxReceived = 1
PROPERTIES
  KeepsPromise
  PortCallsEnd
