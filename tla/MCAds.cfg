SPECIFICATION AdsSpec
CONSTANTS
  t1 = t1
  t2 = t2
  a = a
  b = b
  NoThread = NoThread
  OtherSymbol = OtherSymbol
  Thread <- MCThread
  Alias <- MCAlias
  Val <- MCVal
  Setting <- MCSetting
  MaxRoutes = 4
INVARIANTS AdsTypeOK NoDeadRoute SomeoneRuns ReadOwnValue
CHECK_DEADLOCK FALSE
