SPECIFICATION ConnectionSpec
CONSTANTS
  c1 = c1
  c2 = c2
  p1 = p1
  p2 = p2
  NoCaller = NoCaller
  Caller <- MCCallers
  Port <- MCPorts
  CallsOf <- MCCallsOf
  DataSize = 2
  IdModulus = 8
  SizeModulus = 64
  FirstId = 7
  MaxCalls = 1
PROPERTIES WaitReturns
CHECK_DEADLOCK FALSE
