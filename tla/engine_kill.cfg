SPECIFICATION Spec
CONSTANTS
  MaxConcurrent = 2
  MaxPremiumPct = 35
  ExposureCapPct = 40
  Cooldown = 1
  WatchLength = 3
  Stride = 2
  Premiums = {2}
  Slip = 1
  MaxBudgetLots = 2
  Equities = {10, 20}

PROPERTY KillStopsEntries
