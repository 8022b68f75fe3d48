SPECIFICATION Spec
CONSTANTS
  Capital = 100000
  LotSize <- IndexLots
  Desks = {"intraday", "btst"}
  Voters <- PlannersNeed
  Ttl <- SignalLife
  Period <- SignalPeriod
  Signals <- Advice
  Chain <- OptionList
  ScalpCooldown = 1
  DecisionInterval = 3
  Window = {4, 5}
  DayLength = 6
  LastDay = 2
  MaxRestarts = 1
  FlowUnderlyings = {"NIFTY"}
  FlowTicks <- MarketTicks
  Depths <- MarketBooks
  TickWindow = 4
  FlowInterval = 2
  MinTicks = 3
  SweepWindow = 2
  SweepLevels = 2
  LongWindow = 4
  ShortWindow = 3
  LargeLot = 20
  LotsKept = 4
  LevelsKept = 2
  ExpiryDay = TRUE
  Axis = 100
  MaxTicks = 5
  ProfileTicks <- AroundTheClose
  ProfileInterval = 2
  BalanceTicks = 1
  HistoryKept = 3
  SlotsPerDay = 4
  Close = 3
  ProfileExpiry = TRUE
  LastSlot = 8
  Symbols = {"index", "future"}
  Frames <- Timeframes
  FrameOrder <- Slowest
  Prices = {}
  MaxLate = 0
  LastMinute = 150
  Courses <- MarketCourses
  ChartSize = 60
  Needed = 20
  Fast = 9
  Slow = 21
  RsiPeriod = 14
  Analysts <- FourAnalysts
  Voices <- FourVoices
  Chains <- OneChain
  Regimes = {"NORMAL", "HIGH"}
  Multiplier <- Trust
  Threshold = 65
  SignalTtl = 1
  Cooldown <- Pauses
  MaxAge = 0
INVARIANTS
  OptionsKnown
CHECK_DEADLOCK FALSE
