-------------------------- MODULE ContractSelector --------------------------
(***************************************************************************)
(* From a direction to one leg (strategy/contract_selector.py and the two  *)
(* helpers of engine/orchestrator.py around it).  All of it is pure.       *)
(*                                                                         *)
(* A candidate is [id, contract, bid, ask, ...], a contract [type, dte,    *)
(* strike, delta].  A snapshot is the set of candidates of one expiry;     *)
(* which of two equally close ones is taken is decided by the order in     *)
(* which the chain is read, that of their ids.  Deltas, and distances from *)
(* spot, are in hundredths.                                                *)
(***************************************************************************)
EXTENDS Integers, FiniteSets

CONSTANTS
  SelectMinDte, SelectMaxDte,     \* min_dte, max_dte
  TargetDelta,                    \* target_delta
  MaxDeltaDistance,               \* max_delta_distance
  MaxSpreadPct                    \* max_relative_spread, in hundredths

ASSUME SelectorAssumption ==
  /\ SelectMinDte \in Nat /\ SelectMaxDte \in Nat /\ TargetDelta \in 0..100
  /\ MaxDeltaDistance \in Nat /\ MaxSpreadPct \in Nat

NoDelta == 999
NoCandidate == [id |-> 0]

Absolute(x) == IF x < 0 THEN -x ELSE x

-----------------------------------------------------------------------------
OptionType(direction) == IF direction = "BUY" THEN "C" ELSE "P"

InWindow(c, direction) ==
  /\ c.contract.type = OptionType(direction)
  /\ c.bid > 0 /\ c.ask > 0 /\ c.ask >= c.bid
  /\ c.contract.dte \in SelectMinDte..SelectMaxDte

(* (ask - bid) / mid <= max_relative_spread.                               *)
InsideSpread(c) == 200 * (c.ask - c.bid) <= MaxSpreadPct * (c.ask + c.bid)

(* mid * lot_size <= max_premium_pct * equity.                             *)
Affordable(c, lot_size, budget) == (c.bid + c.ask) * lot_size <= 2 * budget

(* Distance of the delta from a target signed like it, or of the strike    *)
(* from spot when the vendor gives no delta.                               *)
Distance(c, spot) ==
  IF c.contract.delta # NoDelta
  THEN Absolute(c.contract.delta
                  - (IF c.contract.type = "C" THEN TargetDelta ELSE -TargetDelta))
  ELSE (100 * Absolute(c.contract.strike - spot)) \div spot

Closest(candidates, spot) ==
  LET nearest == {c \in candidates :
                    \A d \in candidates : Distance(c, spot) <= Distance(d, spot)}
  IN  CHOOSE c \in nearest : \A d \in nearest : c.id <= d.id

Denied(reason) == [selected |-> NoCandidate, reason |-> reason]

(* select_contract: each filter in turn names the reason when it leaves    *)
(* nothing.                                                                *)
SelectContract(candidates, direction, terms) ==
  LET in_window  == {c \in candidates : InWindow(c, direction)}
      tradeable  == {c \in in_window : InsideSpread(c)}
      affordable == {c \in tradeable : Affordable(c, terms.lot_size, terms.budget)}
      closest    == Closest(affordable, terms.spot)
  IN  IF in_window = {} THEN Denied("NO_CANDIDATES_IN_EXPIRY_WINDOW")
      ELSE IF tradeable = {} THEN Denied("NO_CONTRACT_INSIDE_SPREAD_LIMIT")
      ELSE IF affordable = {} THEN Denied("NO_AFFORDABLE_CONTRACT")
      ELSE IF Distance(closest, terms.spot) > MaxDeltaDistance
      THEN Denied("NO_CONTRACT_NEAR_TARGET_DELTA")
      ELSE [selected |-> closest, reason |-> "none"]

-----------------------------------------------------------------------------
(* chain_at_min_dte, on a chain that maps each loaded expiry, as its days  *)
(* to go, to its snapshot.                                                 *)
ChainAtMinDte(chain, min_dte) ==
  [dte \in {e \in DOMAIN chain : e >= min_dte} |-> chain[dte]]

Trials(chain, direction, terms) ==
  [dte \in DOMAIN chain |-> SelectContract(chain[dte], direction, terms)]

Nearest(dates) == CHOOSE e \in dates : \A f \in dates : e <= f

(* _select_across_expiries: the nearest expiry that selects; when none     *)
(* does, the reason of the nearest one inside the window, or, all of them  *)
(* being outside, of the nearest.  A faulty variant commits to the nearest *)
(* expiry.                                                                 *)
SelectNearestExpiry(chain, direction, terms) ==
  Trials(chain, direction, terms)[Nearest(DOMAIN chain)]

SelectAcrossExpiries(chain, direction, terms) ==
  LET trial       == Trials(chain, direction, terms)
      selecting   == {e \in DOMAIN chain : trial[e].selected # NoCandidate}
      informative == {e \in DOMAIN chain :
                        trial[e].reason # "NO_CANDIDATES_IN_EXPIRY_WINDOW"}
  IN  IF selecting # {} THEN trial[Nearest(selecting)]
      ELSE IF informative # {} THEN trial[Nearest(informative)]
      ELSE trial[Nearest(DOMAIN chain)]
=============================================================================
