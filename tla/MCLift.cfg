SPECIFICATION LiftSpec
CONSTANTS
  Configured <- MCConfigured
  Floor <- MCFloor
  NotANumber = NotANumber
  Nothing = Nothing
  PlcFlag <- MCFlags
  PlcNumber <- MCNumbers
  Number <- MCNumber
  NetworkFails = TRUE
  MaxMoves = 1
INVARIANTS LiftTypeOK CommandIsTruthful EndIsTruthful ValidCommandSucceeds
CHECK_DEADLOCK FALSE
