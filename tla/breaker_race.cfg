SPECIFICATION Spec
CONSTANTS
  Operators = {a}
  AutoReasons = {"DAILY_LOSS_LIMIT_REACHED", "MAX_DRAWDOWN_REACHED"}
PROPERTY RaceIsNarrow
