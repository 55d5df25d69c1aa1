SPECIFICATION FairSpec
CONSTANTS
  FlushSize = 2
  MaxTicks = 2
  Names = 1
  DropCap = 1
  RefusalCap = 1
PROPERTY IdleTicksFlushed
