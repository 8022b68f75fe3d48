SPECIFICATION Spec
CONSTANTS
  t1 = t1
  t2 = t2
  Trades = {t1}
  Info <- OneIntraday
  PnL <- Losing
  Qty = 10
  MaxOpen = 2
  DailyLossLimit = 2
  MaxManual = 2
  MaxCrashes = 1
  MaxDbFails = 2
  BusDrops = TRUE
  CustomReasons = TRUE
INVARIANTS
  NoGhost
  PendingHasOrder
  RowsMatchPositions
CHECK_DEADLOCK FALSE
