SPECIFICATION Spec
CONSTANTS
  Symbols = {"index", "future"}
  Frames <- ThreeFrames
  FrameOrder <- ByLength
  Prices = {1, 2}
  MaxLate = 1
  LastMinute = 5
  Clients = {c1, c2, c3, c4}
  IpOf <- OneAddress
  Users = {u}
  MaxPerIp = 2
  Keys = {"ip"}
  Limits <- TwoTiers
  CleanupEvery = 3
  LastSecond = 6
  Capital = 100
  RiskPct = 10
  MaxDailyLoss = 20
  MaxOpen = 2
  VixHalt = 27
  Lot = 2
  LossStreak = 3
  RecoveryWins = 2
  WinStreak = 3
  MeanOver = 4
  MeanFrom = 3
  Stops = {2}
  Confidences = {20, 90}
  Kinds = {"SCALP", "BTST"}
  Vixes = {20, 24, 30}
  Outcomes <- Results
  MaxEnded = 5
  Spots = {9500, 10000, 10600}
  Premiums = {0, 100, 600}
  Theory <- AtExpiry
  Strike = 10000
  Quantities = {25, 250}
  ReferenceLot = 25
  Volume = 50000
  HourPct = {90, 250}
  Ivs = {0, 40}
  MaxTrades = 1
  Channels = {"signals", "ticks"}
  Handles = {"h1", "h2"}
  Wants <- TwoHandles
  HandleCapacity = 1
  MaxSent = 3
  Contracts = {"call", "put", "bank"}
  UnderlyingOf <- TwoIndices
  IdOf <- TwoIds
  MaxExposure = 2
  FillPrices = {100, 110}
  Tolerance = 2
  MaxDeals = 3
  WeeklyDay <- ThreeIndices
  MonthEnds <- ThreeMonths
  MaxShifts = 5
  Weeks = 2
  HolidayDays = {9, 10, 11, 14, 15, 18}
  MaxHolidays = 3
  FirstDay = 7
  LastDay = 20
  Morning = {3}
  MinBars <- FiveOrSix
  FirstNight = 4
  ScalpBars = {4}
  Hold = 2
  Courses <- ThreeMarkets
  Consulted <- QuietScalps
  MinSignals = 2
  MaxRuns = 2
  MaxFailures = 1
INVARIANT
  PauseOneDay
CHECK_DEADLOCK FALSE
