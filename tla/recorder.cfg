SPECIFICATION FairSpec
CONSTANTS
  FlushSize = 2
  MaxTicks = 3
  Names = 2
  DropCap = 1
  RefusalCap = 2
INVARIANTS TypeOK TicksOnce HealthIsTrue LongWaitNeedsRefusal RejectionsFew
PROPERTY ComesBack
