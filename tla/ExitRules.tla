----------------------------- MODULE ExitRules -----------------------------
(***************************************************************************)
(* The exit rules of engine/monitor.py: pure functions of one open         *)
(* position, evaluated in a fixed priority order, first exit wins.         *)
(*                                                                         *)
(* What _record_fill writes into risk_params once, at entry, is a CONSTANT *)
(* here; percentages of the entry price are the price levels they denote.  *)
(* A position p is a record of what varies from tick to tick:              *)
(*   qty, stop, hwm, mark, taken  - lots, persisted stop, best mark seen,  *)
(*                                  current mark, R rungs already exited   *)
(*   day, slot  - 0 on the opening session's date, 1 on any later one; the *)
(*                slot of the session `now` falls in                       *)
(*   quiet      - the leg's quote content is 300 s old or more             *)
(*   expires    - the contract expires on the opening session's date       *)
(* The trade opens in slot 0, so the slot is also the session time held.   *)
(***************************************************************************)
EXTENDS Fills, FiniteSetsExt

CONSTANTS
  AvgEntry,           \* avg_entry
  InitialStop,        \* initial_stop_price, below the entry
  ProfitTarget,       \* profit_target
  RTargets,           \* r_multiple_targets
  BreakevenTrigger,   \* mark that arms the breakeven floor
  BreakevenLevel,     \* the floor itself
  ScratchThreshold,   \* excursion that exempts from the scratch rule
  ScratchAfter,       \* session slots before the scratch rule applies
  MaxHolding,         \* session slots of the theta guard
  LateFrom,           \* first slot of the last 30 minutes
  CushionFrom,        \* first slot of the last 15 minutes
  LastSlot            \* last slot of a session

ASSUME LevelsAssumption ==
  /\ AvgEntry \in Nat /\ InitialStop \in Nat /\ ProfitTarget \in Nat
  /\ BreakevenTrigger \in Nat /\ BreakevenLevel \in Nat
  /\ ScratchThreshold \in Nat
  /\ 0 < InitialStop /\ InitialStop < AvgEntry /\ 0 < BreakevenTrigger
  /\ RTargets \subseteq Nat /\ IsFiniteSet(RTargets)

ASSUME SlotsAssumption ==
  /\ ScratchAfter \in Nat /\ MaxHolding \in Nat
  /\ LateFrom \in Nat /\ CushionFrom \in Nat /\ LastSlot \in Nat
  /\ LateFrom <= CushionFrom /\ CushionFrom <= LastSlot

-----------------------------------------------------------------------------
Risk == AvgEntry - InitialStop

(* r_multiple >= target, without the division.                             *)
ReachesR(p, target) == p.mark - AvgEntry >= target * Risk

(* Session slots held: a position opened on an earlier date has held the   *)
(* whole of that session.                                                  *)
Held(p) == IF p.day = 0 THEN p.slot ELSE LastSlot + 1 + p.slot

(* _breakeven_floor: none until the best mark has reached the trigger.     *)
BreakevenFloor(p) == IF p.hwm >= BreakevenTrigger THEN {BreakevenLevel} ELSE {}

(* The trail gives back, from the best mark, the fraction of the entry     *)
(* price the initial stop risked (_initial_stop_pct).                      *)
TrailLevel(p) == (p.hwm * InitialStop) \div AvgEntry

EffectiveStop(p) == Max({p.stop, TrailLevel(p)} \cup BreakevenFloor(p))

StopReason(p, level) ==
  IF level \in BreakevenFloor(p) THEN "BREAKEVEN_STOP"
  ELSE IF level > InitialStop THEN "TRAILING_STOP" ELSE "STOP_LOSS"

(* round(qty * 0.5) rounds a half to the even neighbour.                   *)
HalfRounded(n) ==
  LET half == n \div 2
  IN  IF n % 2 = 0 \/ half % 2 = 0 THEN half ELSE half + 1

RungQty(p) == Smaller(Larger(1, HalfRounded(p.qty)), p.qty)

DueRungs(p) == {r \in RTargets \ p.taken : ReachesR(p, r)}

-----------------------------------------------------------------------------
(* session_close_exit_check: the last 15 minutes, or the last 30 for a leg *)
(* that went quiet. A faulty variant is off by one slot.                   *)
ClosesAfterCushion(p) == p.slot > CushionFrom \/ (p.quiet /\ p.slot > LateFrom)

ClosesSession(p) ==
  \/ p.slot >= CushionFrom
  \/ p.quiet /\ p.slot >= LateFrom

Rule(fires, reason, qty) == [fires |-> fires, reason |-> reason, qty |-> qty]

(* The checks in priority order. Each is a condition, the reason it gives  *)
(* and the lots it asks for.                                               *)
Checks(p, blackout) ==
  << Rule(p.mark <= p.stop, StopReason(p, p.stop), p.qty),
     Rule(p.mark <= EffectiveStop(p), StopReason(p, EffectiveStop(p)), p.qty),
     Rule(p.day # 0, "OVERNIGHT_EXIT", p.qty),
     Rule(ClosesSession(p), "EOD_EXIT", p.qty),
     Rule(p.expires /\ (p.day # 0 \/ p.slot >= LateFrom), "EXPIRY_EXIT", p.qty),
     Rule(Held(p) >= MaxHolding, "TIME_EXIT", p.qty),
     Rule(blackout, "EVENT_EXIT", p.qty),
     Rule(p.mark >= ProfitTarget, "PROFIT_TARGET", p.qty),
     Rule(DueRungs(p) # {}, "PARTIAL_EXIT", RungQty(p)),
     Rule(Held(p) >= ScratchAfter /\ p.hwm < ScratchThreshold, "SCRATCH_EXIT", p.qty) >>

Fired(checks) == {i \in 1..10 : checks[i].fires}

Hold    == [reason |-> "NO_ACTION", qty |-> 0]
Ratchet == [reason |-> "STOP_RATCHET", qty |-> 0]

(* evaluate_exits: the first check that asks for lots; a ratchet, which    *)
(* asks for none, only when no exit fired.                                 *)
EvaluateExits(p, blackout) ==
  LET checks == Checks(p, blackout)
      fired  == Fired(checks)
      first  == checks[Min(fired)]
  IN  IF fired # {} THEN [reason |-> first.reason, qty |-> first.qty]
      ELSE IF EffectiveStop(p) > p.stop THEN Ratchet ELSE Hold

(* The rung a PARTIAL_EXIT decision names: the lowest not yet taken.       *)
RungTaken(p) == Min(DueRungs(p))
=============================================================================
