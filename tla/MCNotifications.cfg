SPECIFICATION NtfSpec
CONSTANTS
  Handle <- MCHandles
  Shape <- MCShapes
  SampleSize = 1
  dataSize = 10
  SIZE_MODULUS = 1024
  MaxFrames = 3
  MaxRequests = 2
PROPERTIES RingIsAQueue RingIsDrained DispatcherEnds
INVARIANTS RingAssertsHold FrameBoundary DeliveredInOrder LifetimeIsKept
CHECK_DEADLOCK FALSE
