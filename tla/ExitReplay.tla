----------------------------- MODULE ExitReplay -----------------------------
(***************************************************************************)
(* The sweep of exit rules over recorded prices (backtest/exit_replay.py): *)
(* one trade of one lot is walked through the minutes of its session under *)
(* several variants of the ladder, which is the engine's own (ExitRules).  *)
(* A variant is [scratch, guard]: the slots before the scratch rule        *)
(* applies, beyond the session when it is off, and whether a single lot    *)
(* takes no rung.                                                          *)
(*                                                                         *)
(* A minute is a session slot, and the path the last price in each that    *)
(* had one, a zero included.  Left out: fees, and the statistics over many *)
(* trades.  The exit price is in thousandths.                              *)
(***************************************************************************)
EXTENDS Integers, Sequences, FiniteSets, FiniteSetsExt

CONSTANTS
  AvgEntry, InitialStop, ProfitTarget, RTargets, BreakevenTrigger, BreakevenLevel,
  ScratchThreshold, MaxHolding, LateFrom, CushionFrom, LastSlot,   \* as in ExitRules
  Variants,           \* [scratch, guard]
  Ticks               \* what a minute may bring: sequences of prices

(* The levels of a sweep: the trigger is some way above the entry, the     *)
(* initial stop below it; a path has at least a price a minute.            *)
ASSUME ReplayAssumption ==
  /\ AvgEntry \in Nat /\ InitialStop \in Nat /\ 0 < InitialStop /\ InitialStop < AvgEntry
  /\ BreakevenTrigger \in Nat /\ AvgEntry < BreakevenTrigger /\ BreakevenLevel \in Nat
  /\ LastSlot \in Nat /\ \A v \in Variants : v.scratch \in Nat
  /\ \A prices \in Ticks : prices \in Seq(Nat) /\ prices # <<>>

VARIABLES
  path,               \* [slot, mark] of each minute so far
  walk,               \* variant -> its position
  expires,            \* the contract expires on this date
  over                \* the path has ended

replay_vars == <<path, walk, expires, over>>

Ladder(after, targets) ==
  INSTANCE ExitRules WITH ScratchAfter <- after, RTargets <- targets

Fresh == [qty |-> 1, stop |-> InitialStop, hwm |-> AvgEntry, reason |-> "none", sold |-> 0]

ReplayInit ==
  /\ path = <<>> /\ walk = [v \in Variants |-> Fresh]
  /\ expires \in BOOLEAN /\ over = FALSE

-----------------------------------------------------------------------------
(* mark x (1 - EXIT_SLIPPAGE).                                             *)
Fill(mark) == 991 * mark

(* The best mark so far.  A faulty variant starts it anew every minute.    *)
NewBest(w, mark) == mark
Best(w, mark)    == Max({w.hwm, mark})

Targets(v, qty) == IF v.guard /\ qty < 2 THEN {} ELSE RTargets

Seen(w, slot, mark) ==
  [qty |-> w.qty, stop |-> w.stop, hwm |-> Best(w, mark), mark |-> mark, taken |-> {},
   day |-> 0, slot |-> slot, quiet |-> FALSE, expires |-> expires]

Decide(v, p) == Ladder(v.scratch, Targets(v, p.qty))!EvaluateExits(p, FALSE)

(* One minute of one variant.                                              *)
Walked(v, slot, mark) ==
  LET w == walk[v]
      p == Seen(w, slot, mark)
      d == Decide(v, p)
  IN  IF w.qty = 0 \/ mark <= 0 THEN w
      ELSE IF d.reason = "NO_ACTION" THEN [w EXCEPT !.hwm = p.hwm]
      ELSE IF d.reason = "STOP_RATCHET"
      THEN [w EXCEPT !.hwm = p.hwm,
                     !.stop = Ladder(v.scratch, Targets(v, p.qty))!EffectiveStop(p)]
      ELSE [w EXCEPT !.hwm = p.hwm, !.qty = w.qty - d.qty, !.reason = d.reason,
                     !.sold = Fill(mark)]

(* _resample keeps the last of a minute's prices; a minute without one is  *)
(* not in the path.                                                        *)
Minute(slot, prices) ==
  LET mark == prices[Len(prices)]
  IN  /\ ~over /\ \A i \in 1..Len(path) : path[i].slot < slot
      /\ path' = Append(path, [slot |-> slot, mark |-> mark])
      /\ walk' = [v \in Variants |-> Walked(v, slot, mark)]
      /\ UNCHANGED <<expires, over>>

(* What no rule closed is closed at the last price there is; a path of     *)
(* less than two minutes is no trade.                                      *)
Forced(w) ==
  IF w.qty = 0 THEN w
  ELSE [w EXCEPT !.qty = 0, !.reason = "EOD_FORCED", !.sold = Fill(path[Len(path)].mark)]

PathEnds ==
  /\ ~over /\ Len(path) >= 2 /\ over' = TRUE
  /\ walk' = [v \in Variants |-> Forced(walk[v])]
  /\ UNCHANGED <<path, expires>>

ReplayNext ==
  \/ \E slot \in 0..LastSlot, prices \in Ticks : Minute(slot, prices)
  \/ PathEnds

ReplaySpec == ReplayInit /\ [][ReplayNext]_replay_vars

-----------------------------------------------------------------------------
(* The ladder without a memory: a position in minute i with the best mark  *)
(* so far, and the stop that mark calls for.                               *)
BestSoFar(i) == Max({AvgEntry} \cup {path[j].mark : j \in 1..i})

Level(best) ==
  Ladder(0, RTargets)!EffectiveStop([stop |-> InitialStop, hwm |-> best])

Memoryless(i) ==
  [qty |-> 1, stop |-> Level(BestSoFar(i)), hwm |-> BestSoFar(i), mark |-> path[i].mark,
   taken |-> {}, day |-> 0, slot |-> path[i].slot, quiet |-> FALSE, expires |-> expires]

Exits(v) ==
  {i \in 1..Len(path) : path[i].mark > 0
                          /\ Decide(v, Memoryless(i)).reason \notin {"NO_ACTION", "STOP_RATCHET"}}

(* A variant sells where, and why, the ladder says of the best mark so far *)
(* alone: the stop it ratchets along, minute by minute, adds nothing, and  *)
(* so no variant's path decides but its rules.  With a rule less it never  *)
(* sells sooner.                                                           *)
ReplayIsTheLadder ==
  \A v \in Variants :
    /\ IF Exits(v) # {}
       THEN /\ walk[v].reason = Decide(v, Memoryless(Min(Exits(v)))).reason
            /\ walk[v].sold = Fill(path[Min(Exits(v))].mark)
       ELSE walk[v].reason = (IF over THEN "EOD_FORCED" ELSE "none")
    /\ \A u \in Variants :
         u.scratch >= v.scratch /\ (v.guard => u.guard) /\ Exits(u) # {}
           => Exits(v) # {} /\ Min(Exits(v)) <= Min(Exits(u))
=============================================================================
