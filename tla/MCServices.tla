----------------------------- MODULE MCServices -----------------------------
(***************************************************************************)
(* The nine services around the engine, which share no state: in a        *)
(* behaviour one of them, `part`, moves, and the others stand still.       *)
(*                                                                         *)
(* A master of one contract is written by the syncs of two vendors and a   *)
(* poller of one of them.  A session of Outcomes has four minutes, and its *)
(* bars, of a quiet minute and of a rise, decide an outcome within two.    *)
(* ExitReplay meets, in hundredths of the entry price, nothing, a loss,    *)
(* two rises past the breakeven trigger, and the target.                   *)
(***************************************************************************)
EXTENDS RateLimiter, Promotion, EventLog, InstrumentMaster, Outcomes, ExitReplay,
        WalkForward, Watchlist, FeatureBackfill

VARIABLE part

MCWindows == {<<2, 1>>, <<5, 2>>, <<9, 3>>}

MCSources ==
  [sync_a |-> [vendor |-> "p", spells |-> "sync"],
   sync_b |-> [vendor |-> "q", spells |-> "sync"],
   poll_a |-> [vendor |-> "p", spells |-> "chain"]]

MCShapes ==
  {[high |-> 11, low |-> 9, close |-> 10], [high |-> 14, low |-> 9, close |-> 11]}

MCVariants == [scratch : {1, MaxHolding}, guard : BOOLEAN]

MCTicks == {<<0>>, <<75>>, <<145>>, <<210>>, <<75, 120>>}

Inits ==
  /\ LimiterInit /\ PromotionInit /\ LogInit /\ MasterInit
  /\ OutcomesInit /\ ReplayInit /\ FoldsInit /\ WatchlistInit /\ FeatureInit

Parts ==
  {"limiter", "promotion", "log", "master", "outcomes", "replay", "folds", "watchlist",
   "features"}

Init ==
  /\ part \in Parts /\ Inits
  /\ (part # "replay" => ~expires) /\ (part # "folds" => open = {})

OnlyPartMoves ==
  /\ UNCHANGED part
  /\ IF part = "limiter" THEN TRUE ELSE UNCHANGED limiter_vars
  /\ IF part = "promotion" THEN TRUE ELSE UNCHANGED promotion_vars
  /\ IF part = "log" THEN TRUE ELSE UNCHANGED log_vars
  /\ IF part = "master" THEN TRUE ELSE UNCHANGED master_vars
  /\ IF part = "outcomes" THEN TRUE ELSE UNCHANGED outcome_vars
  /\ IF part = "replay" THEN TRUE ELSE UNCHANGED replay_vars
  /\ IF part = "folds" THEN TRUE ELSE UNCHANGED folds_vars
  /\ IF part = "watchlist" THEN TRUE ELSE UNCHANGED watchlist_vars
  /\ IF part = "features" THEN TRUE ELSE UNCHANGED feature_vars

Next ==
  \/ part = "limiter" /\ LimiterNext /\ OnlyPartMoves
  \/ part = "promotion" /\ PromotionNext /\ OnlyPartMoves
  \/ part = "log" /\ LogNext /\ OnlyPartMoves
  \/ part = "master" /\ MasterNext /\ OnlyPartMoves
  \/ part = "outcomes" /\ OutcomesNext /\ OnlyPartMoves
  \/ part = "replay" /\ ReplayNext /\ OnlyPartMoves
  \/ part = "folds" /\ FoldsNext /\ OnlyPartMoves
  \/ part = "watchlist" /\ WatchlistNext /\ OnlyPartMoves
  \/ part = "features" /\ FeatureNext /\ OnlyPartMoves

vars == <<part, limiter_vars, promotion_vars, log_vars, master_vars, outcome_vars,
          replay_vars, folds_vars, watchlist_vars, feature_vars>>

Spec == Init /\ [][Next]_vars
=============================================================================
