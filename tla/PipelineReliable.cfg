SPECIFICATION FairSpec
CONSTANTS
  t1 = t1
  t2 = t2
  Trades = {t1, t2}
  Info <- OppositeBook
  PnL <- Losing
  Qty = 10
  MaxOpen = 2
  DailyLossLimit = 2
  MaxManual = 1
  MaxCrashes = 0
  MaxDbFails = 0
  BusDrops = FALSE
  CustomReasons = FALSE
INVARIANTS
  BooksAgree
PROPERTIES
  ImplementsLifecycle
  IntradaySquaredOff
  ExitOrderSettles
CHECK_DEADLOCK FALSE
