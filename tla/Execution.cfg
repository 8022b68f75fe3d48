SPECIFICATION ExecutionSpec
CONSTANTS
  zerodha = zerodha
  fyers = fyers
  dhan = dhan
  Brokers = {zerodha, fyers}
  Priority <- PrimaryFirst
  Configured = {zerodha, fyers, dhan}
  Ranking <- AllThree
  MaxFails = 4
  MaxSwitches = 1
  Callers = {c1, c2}
  AttemptsPerBroker = 3
  Threshold = 2
  HalfOpenMax = 2
  Directions = {"BULLISH", "BEARISH"}
  Strategies = {"SCALP", "INTRADAY", "BTST"}
  Atrs = {0, 8}
  Entry = 40
  Risk = 8
  Quantity = 30
  Prices <- AllPrices
INVARIANTS
  BreakerSound
  ActiveAvailable
  RunnerLeft
PROPERTIES
  ClosesOnProof
  CallReturns
  ActiveRecovers
  StopNeverLoosens
  ClosedByEndOfDay
CHECK_DEADLOCK FALSE
