---------------------------- MODULE EngineCycle ----------------------------
(***************************************************************************)
(* One segment's engine process (engine/live_loop.py, run_segment): cycles *)
(* over the watchlist in one task and one database session each, entries   *)
(* interleaved with exit sweeps, every entry judged against an AccountState*)
(* that was read at the start of the cycle and again after every fill.     *)
(* Around it: the API, which engages and releases the kill switch and the  *)
(* breaker whenever an operator asks for it; the passing minutes; a        *)
(* database error, after which the session answers nothing more until the  *)
(* next cycle opens another; and the loss of the process.                  *)
(*                                                                         *)
(* What the exit rules do to one trade is ExitTick's subject; here a sweep *)
(* shrinks or closes any of the open trades.  What an entry tick computes  *)
(* before the gates (features, score, contract) is an input.               *)
(***************************************************************************)
EXTENDS RiskGates, FiniteSetsExt

CONSTANTS
  WatchLength,        \* names on the watchlist, visited in order
  Stride,             \* EXIT_SWEEP_EVERY_N_UNDERLYINGS
  Premiums,           \* premiums of one lot a proposal may have, at mid
  Slip,               \* most a fill may cost over mid, per lot
  MaxBudgetLots,      \* most lots a risk budget affords
  Equities            \* equities a snapshot may hold

ASSUME CycleAssumption ==
  /\ WatchLength \in Nat \ {0} /\ Stride \in Nat \ {0}
  /\ Premiums \subseteq Nat \ {0} /\ Slip \in Nat /\ MaxBudgetLots \in Nat
  /\ Equities # {} /\ Equities \subseteq Nat

Underlyings == 1..WatchLength
Halts == {"kill", "breaker"}

VARIABLES
  halts,              \* system_state.kill_engaged, risk_state.breaker_status
  breached,           \* the loss and drawdown figures of risk_state
  equity,             \* the latest equity_snapshots row
  open,               \* open trades per underlying
  cost,               \* premium_paid of those, per underlying
  since_close,        \* minutes since the last close, per underlying
  pc,                 \* what the engine does next
  pos,                \* the watchlist position it has come to
  account,            \* its AccountState snapshot
  halt_reason,        \* whether a health halt is on this cycle
  poisoned,           \* the session awaits a rollback nobody issues
  unswept,            \* entry ticks since the last exit sweep that ran
  fresh               \* halts engaged since this cycle began

db     == <<halts, breached, equity>>
book   == <<open, cost, since_close>>
engine == <<pc, pos, account, halt_reason, poisoned, unswept>>
vars   == <<db, book, engine, fresh>>

Total(f) == FoldFunction(+, 0, f)

-----------------------------------------------------------------------------
Held == {u \in Underlyings : open[u] > 0}

(* The open trades of the segment, by their number on the underlying.      *)
OpenTrades == UNION {{<<u, k>> : k \in 1..open[u]} : u \in Underlyings}

(* build_account_state: everything the gates read, from the database as it *)
(* is now.  A faulty variant reads the kill switch and not the breaker.    *)
KillOnlyState ==
  [halts |-> halts \ {"breaker"}, breached |-> breached, equity |-> equity,
   open |-> Held, count |-> Cardinality(OpenTrades),
   exposure |-> Total(cost), since_close |-> since_close]

AccountState ==
  [halts |-> halts, breached |-> breached, equity |-> equity,
   open |-> Held, count |-> Cardinality(OpenTrades),
   exposure |-> Total(cost), since_close |-> since_close]

NoAccount ==
  [halts |-> Halts, breached |-> TRUE, equity |-> 0, open |-> {}, count |-> 0,
   exposure |-> 0, since_close |-> [u \in Underlyings |-> 0]]

Init ==
  /\ halts = {} /\ breached = FALSE /\ equity \in Equities
  /\ open = [u \in Underlyings |-> 0] /\ cost = [u \in Underlyings |-> 0]
  /\ since_close = [u \in Underlyings |-> Cooldown]
  /\ pc = "idle" /\ pos = 0 /\ account = NoAccount
  /\ halt_reason = FALSE /\ poisoned = FALSE /\ unswept = 0 /\ fresh = {}

BetweenCycles ==
  /\ pc' = "idle" /\ pos' = 0 /\ account' = NoAccount
  /\ halt_reason' = FALSE /\ poisoned' = FALSE /\ unswept' = 0 /\ fresh' = {}

-----------------------------------------------------------------------------
(* A cycle opens a session, reads the account and checks the engine's      *)
(* health.  An exception of the health check is caught, and leaves the     *)
(* session to fail from here on.                                           *)
StartCycle ==
  /\ pc = "idle"
  /\ account' = AccountState /\ fresh' = {}
  /\ halt_reason' \in BOOLEAN /\ poisoned' \in BOOLEAN
  /\ pc' = "sweep" /\ pos' = 0 /\ unswept' = 0
  /\ UNCHANGED <<db, book>>

(* _sweep_exits, one transaction per trade: some positions leave, some in  *)
(* part, and a database error may end it early.  The account is not read   *)
(* again.  In a session that has already failed every tick of it raises.   *)
(* A faulty variant of it keeps the closed positions' money committed.     *)
LeaveCommitted(closed, halved) ==
  /\ open' = [u \in Underlyings |-> IF u \in closed THEN open[u] - 1 ELSE open[u]]
  /\ cost' = [u \in Underlyings |-> IF u \in halved THEN (cost[u] + 1) \div 2 ELSE cost[u]]
  /\ since_close' = [u \in Underlyings |-> IF u \in closed THEN 0 ELSE since_close[u]]

Leave(closed, halved) ==
  /\ open' = [u \in Underlyings |-> IF u \in closed THEN open[u] - 1 ELSE open[u]]
  /\ cost' = [u \in Underlyings |->
                IF u \in closed THEN (IF open[u] = 1 THEN 0 ELSE cost[u] \div 2)
                ELSE IF u \in halved THEN (cost[u] + 1) \div 2 ELSE cost[u]]
  /\ since_close' = [u \in Underlyings |-> IF u \in closed THEN 0 ELSE since_close[u]]

(* A position that cost what two lots may cost can leave in part.          *)
Divisible == {u \in Held : cost[u] >= 2 * Least(Premiums)}

SweepExits ==
  IF poisoned
  THEN UNCHANGED <<book, poisoned, unswept>>
  ELSE /\ \E closed \in SUBSET Held : \E halved \in SUBSET (Divisible \ closed) :
            Leave(closed, halved)
       /\ unswept' = 0 /\ poisoned' \in BOOLEAN

(* The leading sweep, and the interleaved ones.                            *)
Sweep ==
  /\ pc = "sweep" /\ SweepExits
  /\ IF pos = WatchLength THEN pc' = "final" /\ pos' = pos
                          ELSE pc' = "entry" /\ pos' = pos + 1
  /\ UNCHANGED <<db, account, halt_reason, fresh>>

(* The final one, after which the cycle reads its snapshot no more.        *)
FinalSweep ==
  /\ pc = "final" /\ SweepExits
  /\ pc' = "update"
  /\ account' = NoAccount /\ halt_reason' = FALSE /\ fresh' = {}
  /\ UNCHANGED <<db, pos>>

-----------------------------------------------------------------------------
(* Where the loop goes after the tick of position pos.  A faulty variant   *)
(* leaves the exits to the sweeps around the watchlist.                    *)
NeverInterleaved ==
  IF pos = WatchLength THEN pc' = "final" /\ pos' = pos
  ELSE pc' = "entry" /\ pos' = pos + 1

NextPosition ==
  IF pos % Stride = 0 THEN pc' = "sweep" /\ pos' = pos
  ELSE IF pos = WatchLength THEN pc' = "final" /\ pos' = pos
  ELSE pc' = "entry" /\ pos' = pos + 1

(* No signal, a rejection at whatever stage, or an exception of the tick   *)
(* itself, which the loop logs before it goes on with the same session.    *)
EntryRefused ==
  /\ pc = "entry" /\ NextPosition
  /\ poisoned' \in {poisoned, TRUE}
  /\ unswept' = unswept + 1
  /\ UNCHANGED <<db, book, account, halt_reason, fresh>>

(* The signal clears every gate and its order fills, in part or in whole,  *)
(* at up to Slip over mid: _record_fill's transaction.                     *)
EntryFills ==
  \E premium \in Premiums, budget_lots \in 1..MaxBudgetLots, paid_over \in 0..Slip :
    LET u == pos
        proposal == [underlying |-> u, premium |-> premium,
                     in_window |-> TRUE, liquid |-> TRUE]
        lots == SizePosition(proposal, account, budget_lots)
    IN  /\ pc = "entry" /\ ~poisoned /\ ~halt_reason
        /\ GateChainAllows(proposal, account)
        /\ \E filled \in 1..lots :
             cost' = [cost EXCEPT ![u] = @ + filled * (premium + paid_over)]
        /\ open' = [open EXCEPT ![u] = @ + 1]
        /\ pc' = "filled" /\ unswept' = unswept + 1
        /\ UNCHANGED <<db, since_close, pos, account, halt_reason, poisoned, fresh>>

(* signals.decision becomes TAKEN, and the loop reads the account again.   *)
(* Trades and snapshots are queried; the two rows with the halts come from *)
(* session.get, which answers from the database or, as commits expire      *)
(* nothing, with the object this session already has.  A faulty variant    *)
(* goes on with the snapshot it has.                                       *)
KeepAccount ==
  /\ pc = "filled" /\ NextPosition
  /\ UNCHANGED <<db, book, account, halt_reason, poisoned, unswept, fresh>>

RebuildAccount ==
  /\ pc = "filled" /\ NextPosition
  /\ \E kept \in SUBSET Halts :
       account' = [AccountState EXCEPT !.halts = (halts \ kept) \cup (account.halts \cap kept)]
  /\ UNCHANGED <<db, book, halt_reason, poisoned, unswept, fresh>>

(* The commit of the decision fails: the trade is on disk, its signal      *)
(* reads REJECTED, and the loop goes on with the account it had.           *)
RebuildFails ==
  /\ pc = "filled" /\ NextPosition
  /\ poisoned' = TRUE
  /\ UNCHANGED <<db, book, account, halt_reason, unswept, fresh>>

(* update_equity_and_risk_state recomputes the figures, and may trip the   *)
(* breaker over them; with a failed session it raises, and nothing is      *)
(* written.  The session is closed either way.                             *)
EndCycle ==
  /\ pc = "update" /\ BetweenCycles
  /\ IF poisoned THEN UNCHANGED db
     ELSE /\ equity' \in Equities /\ breached' \in BOOLEAN
          /\ halts' = IF breached' THEN halts \cup {"breaker"} ELSE halts
  /\ UNCHANGED book

(* The process dies and is started again.                                  *)
Crash ==
  /\ pc # "idle" /\ BetweenCycles
  /\ UNCHANGED <<db, book>>

-----------------------------------------------------------------------------
(* The API, and the automatic re-arm of the breaker.                       *)
Engage(h) ==
  /\ h \notin halts
  /\ halts' = halts \cup {h}
  /\ fresh' = IF pc \in {"idle", "update"} THEN {} ELSE fresh \cup {h}
  /\ UNCHANGED <<breached, equity, book, engine>>

Release(h) ==
  /\ h \in halts
  /\ halts' = halts \ {h} /\ fresh' = fresh \ {h}
  /\ UNCHANGED <<breached, equity, book, engine>>

(* A minute passes, in a cycle or between two: `now` is read again for     *)
(* every underlying, the close times of the snapshot stay what they are.   *)
Aged(ages) == [u \in Underlyings |-> IF ages[u] < Cooldown THEN ages[u] + 1 ELSE Cooldown]

Minute ==
  /\ since_close' = Aged(since_close)
  /\ account' = IF pc \in {"idle", "update"} THEN NoAccount
                ELSE [account EXCEPT !.since_close = Aged(@)]
  /\ UNCHANGED <<db, open, cost, pc, pos, halt_reason, poisoned, unswept, fresh>>

Next ==
  \/ StartCycle \/ Sweep \/ FinalSweep
  \/ EntryRefused \/ EntryFills \/ RebuildAccount \/ RebuildFails
  \/ EndCycle \/ Crash
  \/ \E h \in Halts : Engage(h) \/ Release(h)
  \/ Minute

Spec == Init /\ [][Next]_vars

-----------------------------------------------------------------------------
AccountType ==
  [halts : SUBSET Halts, breached : BOOLEAN, equity : Nat, open : SUBSET Underlyings,
   count : Nat, exposure : Nat, since_close : [Underlyings -> 0..Cooldown]]

(* Rows and loop variables have their types; an underlying costs something *)
(* exactly while a trade is open on it.                                    *)
TypeOK ==
  /\ halts \subseteq Halts /\ breached \in BOOLEAN /\ equity \in Equities
  /\ open \in [Underlyings -> Nat] /\ cost \in [Underlyings -> Nat]
  /\ since_close \in [Underlyings -> 0..Cooldown]
  /\ pc \in {"idle", "sweep", "entry", "filled", "final", "update"}
  /\ pos \in 0..WatchLength /\ account \in AccountType
  /\ halt_reason \in BOOLEAN /\ poisoned \in BOOLEAN
  /\ unswept \in Nat /\ fresh \subseteq Halts
  /\ \A u \in Underlyings : cost[u] > 0 <=> open[u] > 0

(* Never more open positions than max_concurrent, although every entry of  *)
(* a cycle is judged against a snapshot: the six-positions-in-one-tick     *)
(* failure of 2026-08-07 does not come back, also not after a fill whose   *)
(* rebuild failed.                                                         *)
MaxConcurrentHeld == Cardinality(OpenTrades) <= MaxConcurrent

(* Never two positions on one underlying.                                  *)
OneOpenPerUnderlying == \A u \in Underlyings : open[u] <= 1

Enters(u) == open'[u] > open[u]

(* No entry on an underlying within the cooldown of any close on it, the   *)
(* closes the snapshot has not seen included.                              *)
CooldownKept ==
  [][\A u \in Underlyings : Enters(u) => since_close[u] >= Cooldown]_vars

(* What an entry leaves committed is over the exposure cap by at most what *)
(* that one fill paid over mid: earlier overshoots do not add up.          *)
ExposureCapKept ==
  [][\A u \in Underlyings : Enters(u) =>
       Total(cost') <= ExposureCap(equity) + MaxBudgetLots * Slip]_vars

(* A halt that stood when the cycle began, and stands, stops every entry   *)
(* of the cycle.                                                           *)
StandingHaltStopsEntries ==
  [][(\E u \in Underlyings : Enters(u)) => halts \subseteq fresh]_vars

(* No more than Stride entry ticks between two exit sweeps, and none after *)
(* the last, in a session that works; in one that does not there are no    *)
(* entries either.                                                         *)
ExitsLookedAt ==
  ~poisoned => unswept <= Stride /\ (pc = "update" => unswept = 0)

(* What the docstring of POST /kill says: the gate chain reads the switch  *)
(* on every evaluation, so that it takes effect on the next tick.          *)
KillStopsEntries ==
  [][(\E u \in Underlyings : Enters(u)) => "kill" \notin halts]_vars
=============================================================================
