SPECIFICATION LiveSpec
CONSTANTS
  AvgEntry = 10000
  InitialStop = 8000
  ProfitTarget = 20000
  RTargets = {2}
  BreakevenTrigger = 11000
  BreakevenLevel = 10000
  ScratchThreshold = 10300
  ScratchAfter = 1
  MaxHolding = 12
  LateFrom = 2
  CushionFrom = 3
  LastSlot = 3
  Markets = {"NSE"}
  EntryQty = 2
  LotSize = 1
  EntryFeePerLot = 0
  ExitFeePerLot = 0
  MaxQuoteAge = 300
  OrphanQuoteAge = 300
  OwnQuotes <- LiveQuotes
  SiblingQuotes <- LiveSiblings
PROPERTY EventuallyClosed
