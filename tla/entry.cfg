SPECIFICATION Spec
CONSTANTS
  MaxConcurrent = 2
  MaxPremiumPct = 2
  ExposureCapPct = 20
  Cooldown = 1
  MinFamilies = 2
  AgreementThreshold = 10
  SelectMinDte = 2
  SelectMaxDte = 10
  TargetDelta = 50
  MaxDeltaDistance = 20
  MaxSpreadPct = 10
  MinConfidence = 25
  MaxConfidence = 90
  ContentLookback = 2
  MaxQuoteAge = 0
  MaxTime = 2
  MaxRows = 2
  MaxSignals = 2
  Contract <- MCContract
  Contents <- MCContents
  Situations <- MCSituations
INVARIANTS SignalsTellTheTrade FreshPriceOnly
PROPERTY DenialsAreTrue
CHECK_DEADLOCK FALSE
