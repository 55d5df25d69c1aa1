SPECIFICATION Spec
CONSTANTS
  Callers = {c1, c2, c3}
  Windows <- MCWindows
  MaxReadings = 11
  Requests = {r1, r2}
  MaxPromotions = 7
  TradeIds = {t1}
  Writers = {w1, w2}
  Events = {e1, e2}
  MaxSeq = 3
  MaxTampering = 1
  Contracts = {k}
  Sources <- MCSources
  Lots = {1, 2}
  MaxRows = 2
  MaxDay = 2
  MaxUpserts = 4
  Shapes <- MCShapes
  SessionLength = 4
  DayLength = 20
  LookbackBars = 1
  AtrPeriod = 1
  HoldingBars = 2
  MarginSlack = 1
  RefreshAge = 1
  RescanMinutes = 10
  LastMinute = 4
  MaxLabelled = 2
  Variants <- MCVariants
  AvgEntry = 100
  InitialStop = 80
  ProfitTarget = 200
  RTargets = {2}
  BreakevenTrigger = 110
  BreakevenLevel = 100
  ScratchThreshold = 103
  MaxHolding = 9
  LateFrom = 2
  CushionFrom = 3
  LastSlot = 3
  Ticks <- MCTicks
  Underlyings = {u}
  NFolds = 3
  Embargo = 1
  HoldoutDays = 1
  MaxBarsHeld = 2
  MaxClosed = 1
  LastDay = 8
  MaxEmitted = 3
  Listed = {u, v}
  Syncs = {s1, s2}
  LastDate = 3
  Underlying = nifty
  Benchmark = nifty
  Future = nifty_fut
  OILookback = 1
  ChainLookback = 1
  MinPriorDays = 1
  Day = 1
  IvWindow = {0}
  LastClock = 1
  MaxQuotes = 1
  MaxEvaluated = 2
INVARIANTS
  WindowsKept LedgerExplainsStatus TamperShows OneSpecInForce RefusedOnlyWhenOvertaken
  LabelIsFinal ReplayIsTheLadder NoLeakage OneMembership VectorTellsTheMoment
CHECK_DEADLOCK FALSE
