SPECIFICATION Spec
CONSTANTS
  AvgEntry = 10000
  InitialStop = 8000
  ProfitTarget = 20000
  RTargets = {2}
  BreakevenTrigger = 11000
  BreakevenLevel = 10000
  ScratchThreshold = 10300
  ScratchAfter = 1
  MaxHolding = 12
  LateFrom = 2
  CushionFrom = 3
  LastSlot = 3
  Markets = {"NSE", "US"}
  EntryQty = 3
  LotSize = 2
  EntryFeePerLot = 7
  ExitFeePerLot = 3
  MaxQuoteAge = 300
  OrphanQuoteAge = 300
  OwnQuotes <- MCOwnQuotes
  SiblingQuotes <- MCSiblingQuotes
INVARIANTS TypeOK LogReplaysToRow LegsAddUp RungsOnce
PROPERTIES KeepsPromise NoSilentBreach NothingButExitsWhenDue DueTickSells EventBeforeRepoint
