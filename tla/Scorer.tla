------------------------------- MODULE Scorer -------------------------------
(***************************************************************************)
(* From features to a direction: the detectors of the reference strategy   *)
(* (strategy/detectors, strategy/protocol.py) and the confluence rule      *)
(* (strategy/scorer.py).  All of it is pure.                               *)
(*                                                                         *)
(* Scores are in hundredths.  tanh is a clamp: odd, monotone and bounded,  *)
(* which is all the rule sees of it.  A feature that could not be computed *)
(* is Missing, a value no feature has.  A bar is a time in minutes and a   *)
(* close.                                                                  *)
(***************************************************************************)
EXTENDS Integers, Sequences, FiniteSets, FiniteSetsExt

CONSTANTS
  MinFamilies,        \* min_families
  AgreementThreshold  \* agreement_threshold

ASSUME ScorerAssumption == MinFamilies \in Nat \ {0} /\ AgreementThreshold \in 0..99

Missing == -999
OILookback == 30

Magnitude(x) == IF x < 0 THEN -x ELSE x
Squash(x) == IF x > 100 THEN 100 ELSE IF x < -100 THEN -100 ELSE x

Evidence(family, score) == {[family |-> family, score |-> score, weight |-> 1]}

-----------------------------------------------------------------------------
TrendStructure(features) ==
  IF features.trend = Missing THEN {} ELSE Evidence("structure", Squash(features.trend))

RelativeStrength(features) ==
  IF features.relative = Missing THEN {}
  ELSE Evidence("relative_strength", Squash(features.relative))

(* The price change since the last bar at least OI_LOOKBACK old, at half   *)
(* conviction unless open interest grows; no such bar, no opinion.         *)
OIPriceFlow(features) ==
  LET bars   == features.bars
      last   == bars[Len(bars)]
      before == {i \in 1..Len(bars) : bars[i].ts <= last.ts - OILookback}
      change == last.close - bars[Max(before)].close
  IN  IF features.oi_change = Missing \/ Len(bars) < 2 THEN {}
      ELSE IF before = {} THEN {}
      ELSE IF change = 0 THEN {}
      ELSE Evidence("flow", IF features.oi_change > 0 THEN Squash(change)
                            ELSE Squash(change) \div 2)

(* evaluate, strategy_for: an index is not measured against itself.        *)
Detect(features, is_index) ==
  TrendStructure(features) \cup OIPriceFlow(features)
    \cup (IF is_index THEN {} ELSE RelativeStrength(features))

-----------------------------------------------------------------------------
(* One weighted vote per family, whatever the number of its detectors; the *)
(* mean is compared without dividing.                                      *)
Weight(evidence)  == MapThenSumSet(LAMBDA e : e.weight, evidence)
OfFamily(f, evidence) == {e \in evidence : e.family = f}

Votes(sign, f, evidence) ==
  LET items == OfFamily(f, evidence)
  IN  MapThenSumSet(LAMBDA e : sign * e.score * e.weight, items)
        > AgreementThreshold * Weight(items)

Agreeing(sign, evidence) ==
  {f \in {e.family : e \in evidence} : Votes(sign, f, evidence)}

NoSignal == [direction |-> "NONE", strength |-> 0, weight |-> 1]

Signalled(direction, agreeing, evidence) ==
  LET counted == {e \in evidence : e.family \in agreeing}
  IN  [direction |-> direction,
       strength  |-> MapThenSumSet(LAMBDA e : Magnitude(e.score) * e.weight, counted),
       weight    |-> Weight(counted)]

(* ConfluenceScorer.score: enough families, and more of them than of the   *)
(* other side.  The confidence is strength / weight.                       *)
Score(evidence) ==
  LET bullish == Agreeing(1, evidence)
      bearish == Agreeing(-1, evidence)
  IN  IF Cardinality(bullish) >= MinFamilies /\ Cardinality(bullish) > Cardinality(bearish)
      THEN Signalled("BUY", bullish, evidence)
      ELSE IF Cardinality(bearish) >= MinFamilies /\ Cardinality(bearish) > Cardinality(bullish)
      THEN Signalled("SELL", bearish, evidence)
      ELSE NoSignal

Below(result, floor)  == result.strength < floor * result.weight
=============================================================================
