SPECIFICATION FairSpec
CONSTANTS
  t1 = t1
  t2 = t2
  Trades = {t1}
  Info <- OneIntraday
  PnL <- Losing
  Qty = 10
  MaxOpen = 2
  DailyLossLimit = 2
  MaxManual = 0
  MaxCrashes = 1
  MaxDbFails = 0
  BusDrops = FALSE
  CustomReasons = FALSE
PROPERTIES
  IntradaySquaredOff
CHECK_DEADLOCK FALSE
