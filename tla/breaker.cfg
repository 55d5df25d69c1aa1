SPECIFICATION Spec
CONSTANTS
  Operators = {a, b}
  AutoReasons = {"DAILY_LOSS_LIMIT_REACHED", "MAX_DRAWDOWN_REACHED"}
INVARIANTS TypeOK ManualTripHolds RearmReleases
PROPERTY Heals
