SPECIFICATION Spec
CONSTANTS
  Address <- MCAddress
  Value <- MCValue
  Func <- MCFunc
  MaxCalls = 2
INVARIANTS TypeOK ReadIsCurrent WriteIsExecuted
PROPERTIES RepliesInOrder CallReturns
