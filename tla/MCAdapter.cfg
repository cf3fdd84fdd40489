SPECIFICATION AdapterSpec
CONSTANTS
  door1 = door1
  lift1 = lift1
  NoDevice = NoDevice
  Door <- MCDoors
  Lift <- MCLifts
  MaxSent = 2
  MaxInterrupts = 1
  MaxTime = 1
INVARIANTS AdapterTypeOK DeviceUsedByOne LastCommandWins
PROPERTIES SnapshotIsStable CommandsAreDone StateIsPublished
CHECK_DEADLOCK FALSE
