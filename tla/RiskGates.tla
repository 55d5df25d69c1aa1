----------------------------- MODULE RiskGates -----------------------------
(***************************************************************************)
(* The gate chain an entry must clear (risk/gates.py) and the number of    *)
(* lots it may then ask for (risk/sizing.py), as functions of the proposal *)
(* and of the AccountState snapshot build_account_state made.              *)
(*                                                                         *)
(* account: halts (kill switch and breaker, as far as they are engaged),   *)
(*   breached (a daily, weekly or drawdown limit is reached), equity,      *)
(*   open (underlyings with an open trade), count, exposure, and for each  *)
(*   underlying the minutes since its last close, which count up to        *)
(*   Cooldown and stay there (also the value when it never closed).        *)
(* proposal: underlying, premium (of one lot, at mid), in_window (session  *)
(*   open, past its warm-up and before its cut-off), liquid.               *)
(* Percentages of equity are in hundredths.  event_blackout_gate always    *)
(* allows.                                                                 *)
(***************************************************************************)
EXTENDS Integers, FiniteSets

CONSTANTS
  MaxConcurrent,      \* max_concurrent
  MaxPremiumPct,      \* max_premium_pct
  ExposureCapPct,     \* exposure_cap_pct
  Cooldown            \* reentry_cooldown_minutes

ASSUME CapsAssumption ==
  /\ MaxConcurrent \in Nat \ {0} /\ Cooldown \in Nat
  /\ MaxPremiumPct \in Nat /\ ExposureCapPct \in Nat

Least(S) == CHOOSE x \in S : \A y \in S : x <= y

-----------------------------------------------------------------------------
KillSwitchGate(account) == "kill" \notin account.halts
BreakerGate(account)    == "breaker" \notin account.halts
SessionGates(proposal)  == proposal.in_window
LossGates(account)      == ~account.breached

MaxConcurrentGate(account) == account.count < MaxConcurrent

ExposureCap(equity) == (ExposureCapPct * equity) \div 100

(* One lot must fit under what the snapshot says is already committed.     *)
ExposureGate(proposal, account) ==
  /\ account.equity > 0
  /\ account.exposure + proposal.premium <= ExposureCap(account.equity)

(* No second position on an underlying, and none within the cooldown of    *)
(* any close on it.  Two faulty variants: each forgets one of the two.     *)
ClusterWithoutOpen(proposal, account) ==
  account.since_close[proposal.underlying] >= Cooldown

ClusterWithoutCooldown(proposal, account) ==
  proposal.underlying \notin account.open

CorrelationClusterGate(proposal, account) ==
  /\ proposal.underlying \notin account.open
  /\ account.since_close[proposal.underlying] >= Cooldown

LiquidityGate(proposal) == proposal.liquid

CapitalAvailableGate(proposal, account) ==
  /\ account.equity > 0
  /\ 100 * proposal.premium <= MaxPremiumPct * account.equity

(* run_gate_chain allows what every gate allows.                           *)
GateChainAllows(proposal, account) ==
  /\ KillSwitchGate(account) /\ BreakerGate(account)
  /\ SessionGates(proposal)
  /\ LossGates(account)
  /\ MaxConcurrentGate(account)
  /\ ExposureGate(proposal, account)
  /\ CorrelationClusterGate(proposal, account)
  /\ LiquidityGate(proposal)
  /\ CapitalAvailableGate(proposal, account)

-----------------------------------------------------------------------------
(* size_position: what the risk budget affords, capped by the premium of   *)
(* one trade, by the room left under the exposure cap, and by an equal     *)
(* slice of it per slot.  budget_lots is the risk budget over the stop     *)
(* distance, which the multiplier scales.                                  *)
CapLots(proposal, account) ==
  LET room == ExposureCap(account.equity) - account.exposure
  IN  {(MaxPremiumPct * account.equity) \div (100 * proposal.premium),
       IF room > 0 THEN room \div proposal.premium ELSE 0,
       ExposureCap(account.equity) \div (MaxConcurrent * proposal.premium)}

(* A faulty variant: the exposure cap is left to the gate, which tests one *)
(* lot only.                                                               *)
SizeWithoutRoom(proposal, account, budget_lots) ==
  Least({budget_lots, (MaxPremiumPct * account.equity) \div (100 * proposal.premium)})

SizePosition(proposal, account, budget_lots) ==
  Least({budget_lots} \cup CapLots(proposal, account))
=============================================================================
