SPECIFICATION AdsSpec
CONSTANTS
  t1 = t1
  t2 = t2
  a = a
  b = b
  NoThread = NoThread
  OtherSymbol = OtherSymbol
  Thread <- MCThread
  Alias <- MCOneAlias
  Val <- MCVal
  Setting <- MCOneFailing
  MaxRoutes = 4
INVARIANTS FactoryCanRun
CHECK_DEADLOCK FALSE
