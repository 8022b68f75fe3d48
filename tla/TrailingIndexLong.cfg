SPECIFICATION StopSpec
CONSTANTS
  Directions <- IndexLong
  Strategies <- AllStrategies
  Atrs = {0, 8}
  Entry = 40
  Risk = 8
  Quantity = 30
  Prices <- AllPrices
INVARIANTS
  TargetsTakeProfit
CHECK_DEADLOCK FALSE
