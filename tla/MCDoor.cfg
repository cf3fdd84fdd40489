SPECIFICATION DoorSpec
CONSTANTS
  Address <- MCAddress
  Value <- MCValue
  Func <- MCFunc
  MaxCalls = 3
  Retries = 2
INVARIANTS ActuateIsTruthful UnconnectedIsReported
PROPERTIES OperationEnds
