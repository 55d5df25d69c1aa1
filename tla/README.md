# Kairodex: specifications

TLA+ modules, TLC configurations and machine-checked proofs kept beside the
Kairodex sources. Kairodex is a paper-trading platform for options: it records
market data, searches a watchlist for entries, simulates the orders, and monitors
the positions until they are out. Everything below is about the Python package
`src/src/kairodex/` (paths are relative to it unless they start with `docs/`).

Run a model with `tlc -workers 2 -config exit_tick.cfg MCExitTick.tla`, a proof with
`tlapm ExitTick_proofs.tla`. `PROJECT.json` lists the runs, the faulty variants each
property is tested against, the source lines of every definition, the findings, the
hazards and the theorems.

## 1. The system

Processes, each an asyncio program over one Postgres database (READ COMMITTED,
SQLAlchemy sessions with `expire_on_commit=False`) and a Redis channel:

| process | what it does | writes |
|---|---|---|
| `ingest --market` | polls chains, streams ticks, syncs instruments and watchlists | quotes, bars, instruments, feed_health |
| `engine --segment` (four: nse_stock, nse_index, us_stock, us_index) | the trading loop: one task, one session per cycle | signals, trades, trade_events, orders, fills, position_marks, equity_snapshots, risk_state |
| `api` | dashboard, operator controls, WebSocket relay | risk_state, system_state, strategies, audit_log |
| `jobs`, CLI | backtests, exports, rollups | their own tables |

An engine is the only writer of its trades. It shares `risk_state` (the breaker) and
`system_state` (the kill switch) with the API, and reads the quotes `ingest` writes.

### Inventory

| component | state it keeps | operations | what is hard about it | what makes it correct |
|---|---|---|---|---|
| exit rules, `engine/monitor.py` | none (pure) | `evaluate_exits` and ten checks | priority order, partial quantities, level derived from three sources | a breach always exits; nothing optional runs inside the closing cushion |
| exit tick, `engine/orchestrator.py` `run_exit_tick` | trades row with risk_params, trade_events, fills, position_marks | one pass per open trade | several commits in one tick, failover to another instrument, orders refused or filled in part | the log replays to the row, legs add up, the level never falls, a due position leaves |
| fills, `execution/*` | none (pure) | `compute_fill`, `synthesize_quote`, `forced_exit_quote` | stale, wide, thin, missing books | never more than asked for, never from a refused book |
| gates and sizing, `risk/gates.py`, `risk/sizing.py` | none (pure) | `run_gate_chain`, `size_position` | judged on a snapshot | scarcity limits |
| live loop, `engine/live_loop.py`, `risk/loader.py` | the cycle, the AccountState snapshot | `run_segment`, `_sweep_exits`, `build_account_state` | snapshots grow stale, one session fails for a whole cycle, crashes | limits hold through it, exits stay looked at, halts stop entries |
| accounting, `risk/accounting.py`, and controls, `api/routers/control.py` | risk_state, system_state, equity_snapshots | `update_equity_and_risk_state`, `segment_breaker`, `kill_switch` | two writers of one row without a lock | an operator's decision stands; columns agree |
| event log, `engine/event_log.py` | hash chain per trade | `append_event`, `verify_chain` | two writers of one tip; rows changed behind its back | a chain nobody touched verifies; one that verifies is what was appended |
| entry tick, `engine/orchestrator.py` `run_entry_tick` | signals, trades, feature vectors | chain, score, selection, gates, sizing, fill, record | the signal's decision is a second commit; fresh rows repeat old prices; a contract with several rows | the tables tell one story; no entry at a stale price; a denial is true |
| strategy, `strategy/*` | none (pure) | detectors, scorer, contract selection | missing features, ties, the order of filters and expiries | nothing eligible is denied |
| recorder, `data/recorder.py` | tick buffer, feed_health | polling, streaming, flush, teardown, reconnect | three tasks, a buffer emptied before the write, one health row, an exception in a task nobody awaits | a tick is in one place; the row tells what happened; waits are earned; the stream comes back |
| ingest and sync, `data/ingest.py`, `data/sync.py` | instruments, versioned specs, memberships, bars, quotes | upserts, `record_spec`, `sync_watchlist`, batch writes | overlapping sessions, two vendors and two spellings, repeated runs | one row per contract and vendor, one spec in force, one membership |
| rate limiter, `data/upstox/ratelimit.py` | recent hits | `acquire` | several windows and waiters, the exact edge | no window holds more than its limit |
| features, `features/*` | feature_vectors, atm_iv_daily | point-in-time read, vector, daily volatility | rows that come in after the evaluation | the vector a signal links to is the one of its moment |
| outcomes, `backtest/backfill.py`, `backtest/resolve.py`, `backtest/backfill_features.py` | signal outcomes, rebuilt vectors | labelling, rebuilding, nightly or by hand | bars that come late, windows cut short, links committed behind their vectors | a label is final, a rebuild looks at nothing later |
| research, `backtest/runner.py`, `validation.py`, `exit_replay.py` | none | walk-forward folds, held-out period, replay of the ladder | closed days, fold boundaries, stops that remember | no fold learns from what it is scored on; the replay is the live ladder |
| promotion, `api/routers/strategies.py` | strategy status, ledger | `promote_strategy` | two requests that read one status | the ledger explains the status |
| WebSocket relay, `api/ws.py` | one subscription per client | `stream` | two tasks, teardown in any order | not modelled |
| pricing, analytics, export, streaming bus, other routers | derived, read-only | numerics, aggregates, files, notifications | numerics | not modelled |

`PROJECT.json` (`components`) says which are modelled, in part or not at all, and why.

## 2. Modules

```
 HeldPosition   (what a position promises)
      ^  refines
 ExitTick  --EXTENDS--> ExitRules --EXTENDS--> Fills
      ^                    ^       <--INSTANCE-- ExitReplay
 ExitTick_proofs    ExitRules_proofs            MCExitTick (instances)

 EngineCycle --EXTENDS--> RiskGates             MCEngineCycle
      ^
 EngineCycle_proofs

 EntryTick --EXTENDS--> RiskGates, Fills, Scorer, ContractSelector   MCEntryTick
      ^
 EntryTick_proofs

 BreakerControl <-- BreakerControl_proofs       MCBreakerControl
 TickRecorder   <-- TickRecorder_proofs         MCTickRecorder

 RateLimiter   Promotion   EventLog   InstrumentMaster   Outcomes
 ExitReplay    WalkForward Watchlist  FeatureBackfill    MCServices (all nine)
   Sessions_proofs: EventLog, Promotion, Watchlist, InstrumentMaster, RateLimiter
   Research_proofs: WalkForward, FeatureBackfill, Outcomes, ExitReplay
```

* **Fills** - `compute_fill`, and the books an order is priced against: observed,
  modelled (`synthesize_quote`) or forced. Prices are integers; a quote and a book
  carry their age in seconds.
* **ExitRules** - the checks of `evaluate_exits` as a sequence of (condition, reason,
  lots) in the code's order. Percentages of the entry price become the price levels
  they denote; the clock is a session slot.
* **ExitTick** - one trade and its monitoring. Each disjunct of `Next` is one
  transaction of `run_exit_tick`:

  | action | code path |
  |---|---|
  | `NoQuoteTick` | no quote at all, nothing written |
  | `Repoint` | `_latest_quote_with_failover` up to the commit of INSTRUMENT_REPOINTED |
  | `NoAction`, `MoveStop` | no decision; STOP_RATCHET with its STOP_MOVED event |
  | `NoBookToExitOn`, `FillRefused` | the two EXIT_FAILED paths |
  | `FillExit` | order, fill, leg accounting, CLOSED or PARTIAL_EXIT |
  | `ForceExit`, `FinishForced` | the commit of EXIT_FORCED, then the rest |
  | `Interrupt` | the process or session is lost between two commits of a tick |
  | `PassTime` | the clock, between ticks |

  `trade` is the row with its risk_params, `log` what the event chain replays to,
  `fills` and `marks` the other tables, `pending` what a tick holds in memory between
  its transactions, `last` what the tick that just finished saw and did.
* **HeldPosition** - the abstract specification: lots leave only for money, the
  protective level rises only, out is out (docs/ARCHITECTURE.md:563, no averaging down,
  no pyramiding). `ExitTick` implements it with lots = `trade.qty`, proceeds = the fills'
  money, level = the level of the stored row.
* **RiskGates**, **EngineCycle** - the gate chain and sizing on an AccountState
  snapshot, and `run_segment` around them: the cycle's account, leading, interleaved and
  final sweeps, entries, the account read again after a fill, the end-of-cycle update; a
  database error leaves the session failing (`poisoned`) until the next cycle, nobody
  rolls it back; the API engages and releases halts at any moment; a crash loses the
  cycle. What exits do to one trade is `ExitTick`'s subject, so a sweep here closes or
  shrinks any of the open trades.
* **BreakerControl** - the two columns of the breaker, statement by statement. The engine
  loads the row, reads `breaker_reason` again, and writes; a request loads, and commits.
  An UPDATE carries only the columns that differ from what that session loaded
  (`Flush`), an INSERT fails if another session has inserted.

* **EntryTick** - one underlying's entry ticks over the quotes the recorder writes. A tick
  is as many steps as it has commits, and can be lost between any two:

  | action | code path |
  |---|---|
  | `Evaluate` | `load_chain`, the feature vector's commit, detectors and score |
  | `Reject` | the first of the stages that refuses, in the code's order (`RejectReason`), and the commit of the signal |
  | `RecordFill` | `_record_fill` up to `append_event`'s commit: signal, trade and FILLED together, the signal still REJECTED for no reason |
  | `MarkTaken` | the commit that turns the decision into TAKEN |
  | `Raise` | an exception of the tick's code after its flush: `live_loop` logs it and goes on to the next name with the same session, where the flushed signal waits |
  | `SessionCommits` | that session's next commit, of another name's tick or of an exit, stores it |
  | `Abandon` | a failed statement, after which the session commits nothing it holds, the closing of the session, or the end of the process |
  | `WriteQuote`, `TimePasses` | the recorder, and the clock |

  **Scorer** holds the detectors and the confluence rule (scores in hundredths, tanh as a
  clamp), **ContractSelector** the choice of a leg in the order of its filters, and
  `QuoteContentSince` how old a price is when fresh rows repeat it.
* **TickRecorder** - `run_market`'s three tasks: the stream with its teardown and
  reconnects, the periodic flush it starts and cancels, the poller. A flush is
  `Take`, which nothing interrupts, and three awaits, a step each (`WriteBatch`,
  `LoadHealth`, `CommitHealth`); any of these can fail, and where the exception goes depends on the task and on the place
  (`Raise`): out of the loop body into the teardown, out of the teardown into the handler,
  out of the periodic flush into a task that nobody awaits before the teardown. The health
  row is loaded and written as SQLAlchemy does it (`Written`: an UPDATE carries what
  differs, an INSERT everything, and fails when there is a row). `Restart` may happen at
  any moment.
* **RateLimiter** - `acquire` by several coroutines under several windows at once; a turn
  between two awaits is one step.
* **Promotion** - requests that read a status, and commit a transition later.
* **EventLog** - `append_event` in two steps by several writers, the unique key, rows that
  are changed, deleted or made up behind the log's back, and `verify_events`. A hash is
  the tuple it is computed from.
* **InstrumentMaster** - `upsert_instrument` and `record_spec` in sessions that commit
  every so many rows: what a SELECT sees, row locks, the unique keys, clocks read before
  a lock is waited for.
* **Watchlist** - `sync_watchlist` by runs that overlap, over days.
* **Outcomes** - bars that come in minute by minute, in part or late
  (`recover_underlying_bars`, ON CONFLICT DO NOTHING), and the labelling of signals by
  whichever run comes by (`resolve_forward_outcome`, `_resolve_one`, `_load_bars`).
* **ExitReplay** - the sweep of exit variants over a recorded path; its ladder is an
  instance of `ExitRules`, the engine's own.
* **WalkForward** - a run over the bars of a calendar with closed days, its folds, the
  embargo that takes a bar for a day, and the held-out period.
* **FeatureBackfill** - the point-in-time read of an underlying's inputs, the vector stored
  of it and its link, the runs that rebuild vectors (their link is committed with the next
  commit), and the tables that go on filling meanwhile. A vector is the rows it was made of.

The last nine share no state. `MCServices` checks them in one run: a variable `part` says
which of them moves in a behaviour, so that the run's states are the sum of theirs, not
the product.

Operators named as faulty variants (`ForgetBestMark`, `TrustCopy`, ...) belong to no
specification. Each is a plausible mistake in the definition that follows it, and
`PROJECT.json` pairs it with the property that detects it.

## 3. What is checked

| run | instance | shows |
|---|---|---|
| `exit_tick` | three lots of two units, both markets, marks at 70, 100 and 140 of an entry at 100 (on a second instrument at 100 and 200), books of depth 4 and 40, stale, wide, crossed, thin in open interest, unpublished; four slots | the log replays to the row (`LogReplaysToRow`), legs add up (`LegsAddUp`), rungs are taken once (`RungsOnce`), the promise of a held position (`KeepsPromise`), no breach is passed over (`NoSilentBreach`), only stops and the clock act when due (`NothingButExitsWhenDue`), a due NSE tick above its level sells (`DueTickSells`), the repoint event precedes the row (`EventBeforeRepoint`) |
| `exit_live` | two lots, NSE, books that are stale, wide or thin | the position is closed in the end (`EventuallyClosed`) |
| `engine_cycle` | three names, two slots, a sweep after every second name, cooldown of one minute, two equities | `MaxConcurrentHeld`, `OneOpenPerUnderlying`, `CooldownKept`, `ExposureCapKept`, `StandingHaltStopsEntries`, `ExitsLookedAt` |
| `breaker` | two concurrent requests, two limits | `ManualTripHolds`, `RearmReleases`, `Heals` |
| `recorder` | buffer of two, three ticks, two names, caps of one and two seconds | `TicksOnce`, `HealthIsTrue`, `LongWaitNeedsRefusal`, `RejectionsFew`, and that a teardown ends in a new attempt (`ComesBack`) |
| `entry` | four instrument rows of three contracts and two expiries, one contract twice; four kinds of quote; fourteen situations, one for each stage that refuses and the two markets | `SignalsTellTheTrade`, `FreshPriceOnly`, `DenialsAreTrue` |
| `services` | the nine services, one at a time | `WindowsKept` (limiter), `LedgerExplainsStatus` (promotion), `TamperShows` (log), `OneSpecInForce` and `RefusedOnlyWhenOvertaken` (master), `LabelIsFinal` (outcomes), `ReplayIsTheLadder` (replay), `NoLeakage` (folds), `OneMembership` (watchlist), `VectorTellsTheMoment` (features) |
| `exit_high_water`, `exit_mandatory`, `engine_kill`, `breaker_race`, `recorder_idle` | smaller instances of the same | five places where the code does not do what a comment or docstring says, below |

Why the bounds are enough. Three lots make a partial fill, a rounded half and a last
single lot all happen; two units per lot and fees that differ per side tell lots, units
and sides apart; one R rung is what `_DEFAULT_R_MULTIPLE_TARGETS` has, and it needs two
ticks to be taken in part and asked for again. The marks include one below the initial
stop, one that arms breakeven and lifts the trail, the rung and the profit target. Four
slots are the regions between which the clock rules change: early, past the scratch
time, the last 30 minutes, the last 15; day 1 stands for every later date. Three names
with a stride of two give a leading, an interleaved and a final sweep and a tail; two
slots let the third signal meet a full book. Two requests are enough for one to overtake
another, and two limits for one automatic reason to turn into another.

The bounds of the other runs:

* `recorder`: with a buffer of two, the third tick is one that arrives behind a flush;
  two names make a rejection in the middle of a pass; caps of one and two tell the two
  kinds of backoff apart. What the three tasks do to the row and the buffer does not depend
  on more ticks; `TickRecorder_proofs` removes the bounds.
* `entry`: two rows and two signals in three units of time, of which one is already too
  old for a price. A price repeated by a fresh row, a contract whose two rows differ, an
  expiry outside the window and every reason to refuse occur. The nearer expiry is outside
  the selector's window, so that the search over expiries has to go on.
* `services`: three windows of which each is the tightest at some time, and three callers;
  seven promotions, enough for the whole graph and a race in it; two writers, three events
  and one change behind the log; three sessions of two vendors and two spellings on one
  contract, for which a third row can never be committed, over three days; a session of
  four minutes, and outcomes decided within two; a calendar of eight days and three
  folds; two instruments, two overlapping runs, three midnights; a day of one minute with
  one quote and two signals, the underlying being its own benchmark and the future apart.
  Distinct states by part, roughly, in thousands: limiter 9, promotion 10, log 87,
  master 346, outcomes 110, replay 5, folds 13, watchlist 13, features 167.

A system stops in `entry` and `services` when its counters are used up, so deadlock is not
checked there; it is in the others.

`TIME_EXIT` (three sessions held) can never decide: on any date after the opening one
OVERNIGHT_EXIT comes first. `EVENT_EXIT` cannot either: the live loop passes no
blackout. Both checks are in the model as they are in the code.

### Fairness

Only `exit_live`, `Heals`, `ComesBack` and `IdleTicksFlushed` need any.

* A tick that began ends, in its last commit or by being lost; the clock advances
  between ticks (`PassTime`); and not every forced exit is lost between its two
  commits (strong fairness of `FinishForced`): `run_segment` sweeps again every minute
  and retries. Nothing is assumed of books: every quote may be unfillable.
* If the position stays open, some tick finds the mark above its level again and again
  (`UnbreachedTick`). This is an assumption about the market, and a necessary one: a leg
  that stays below its level is answered by a stop rule on every tick, which may not use
  the forced book (finding `exit_mandatory`).
* The engine goes on with its cycles and does not lose every update of `risk_state`; the
  API owes nothing.
* The event loop runs the recorder's stream task and its periodic flush when they can go
  on (weak fairness of `StreamStep` and `FlusherStep`), and systemd starts the process
  again. The vendor owes no tick, no end of a stream and no accepted handshake; of the
  poller nothing is asked.

### Findings

1. `exit_high_water`: a tick whose exit fails stores the mark and not the high-water
   mark, contrary to `monitor.py:381`; what the mark would have protected is forgotten.
2. `exit_mandatory`: inside the closing cushion a stop that cannot fill is never forced,
   contrary to the comment at `orchestrator.py:999`.
3. `engine_kill`: a kill engaged within a cycle does not stop that cycle's entries,
   contrary to the docstring at `control.py:79`. What does hold is
   `StandingHaltStopsEntries`.
4. `breaker_race`: the second read narrows the race for the reason only; a re-arm
   committed between the load and that read leaves ARMED beside a limit reason, contrary
   to `accounting.py:150`. `Heals` shows it lasts until the next undisturbed cycle. The
   window is short when the object was no longer in the session and is loaded afresh.
5. `recorder_idle`: one failed write ends the periodic flush for the rest of a connection
   (its task is awaited in the teardown only), so the ticks of a quiet market stay in
   memory, contrary to `recorder.py:512`. `TicksOnce` shows that none is counted twice or
   forgotten for it, `ComesBack` that the connection's end cleans up.

Smaller disagreements, and limits that a reader of the code should know, of which the
models take account and no run makes a finding:

* `ingest.py:70`: a contract cannot get two rows with one vendor's key. The natural key is
  unique, and so is the key of each vendor on an exchange (migration `b6f5e4d3c2a1`, after the
  duplicates of 2026-08-18/19). What is left of the race is that the database refuses the
  statement of the session that came second, which loses what it had not committed, up to
  500 rows of a sync. `RefusedOnlyWhenOvertaken` says that nobody else is refused.
  `OneSpecInForce` and `OneMembership` have an exception each (`strayed`, `overlapped`): a
  session that waited for a lock past midnight, two syncs parted by a midnight.
* `live_loop.py:419`: an exception of an entry tick is logged and the session neither rolled
  back nor closed, so a tick that raises between its flush (`orchestrator.py:430`) and its
  commit leaves a signal that the next name's commit stores: REJECTED, with neither stage nor
  reason. In the table it looks like a fill whose second commit was lost, but has no trade;
  `SignalsTellTheTrade` says that those two are the only ways a signal comes by no reason
  (`unfinished` remembers which signals are of ticks that raised).
* `ingest.py:102`: two syncs that update rows in opposite orders lock each other out, and
  PostgreSQL fails one (`Rollback`).
* A chain cut off at its end verifies (`verify_events` has no expected length), and the
  sequence numbers are not required to be contiguous: `TamperShows` says what follows all
  the same.
* `backfill_features.py:17`, "recoverable exactly", does not hold of rows that come in
  after the evaluation and carry an earlier time, hence the last disjunct of
  `VectorTellsTheMoment`. The link to a vector is committed with the next commit and lost
  if the run is interrupted.
* The bar of the running minute is written as far as it has come (`Refresh`) and stays so:
  labels are made of it.
* `_select_across_expiries` says it returns the first snapshot's failure; it returns the
  one that tells most.
* With two rows for a contract, the age of a price is looked up on the row the trade is
  booked on, which need not be the row that priced it; `FreshPriceOnly` is stated of the
  trades where it is.
* The promotion endpoint does not make its UPDATE depend on the status it read, nor run the
  gates again: two requests can both succeed from one status, and the ledger tells.
* In the recorder, a stream flush clears the error a rejected poll wrote, within seconds; an
  ordinary drop after refused handshakes sleeps once more at their length; the row says
  connected before the handshake.
* On the US market a leg without volume has no book to be forced on; `DueTickSells` is
  stated of NSE.
* `exit_replay.py:220` closes at the last price unchecked, a zero included.

## 4. What is proved

Every theorem holds for every value of the constants that satisfies the named
assumptions (`LevelsAssumption`, `SlotsAssumption`, `TradeAssumption`,
`QuotesAssumption`, `ReasonsAssumption`, `CapsAssumption`, `CycleAssumption`,
`RecorderAssumption`, `EntryAssumption`, `RowsAssumption`, `ScorerAssumption`,
`SelectorAssumption`, `LogAssumption`, `WatchlistAssumption`, `MasterAssumption`,
`WindowsAssumption`, `FoldsAssumption`, `FeatureAssumption`, `OutcomesAssumption`,
`ReplayAssumption`, `UnitAssumption`, `FloorAssumption`): any prices, levels, rungs, lot
sizes, fees, quotes, numbers of requests and limits, any watchlist, stride and caps, any
buffer and waits, any contracts, sessions, calendars, days and runs. The assumptions give
types and the order of thresholds the configuration gives them; TLC evaluates each in the
runs. `PROJECT.json` lists 38 theorems; the eight modules that hold them rest on some 340
lemmas.

**BreakerControl_proofs**: `TypeCorrect`, `TripStands`, `RearmStands`. The two
properties speak of the row; they are not inductive, for an engine that is about to
write, or a request that holds an older copy, could break them in the next step.
`IInv` adds `LoadedFromRow` (an object is what the row was, or an absent row stays so
for it), `TripProtected` (while a trip stands, an engine past its second read holds the
manual reason, and what it or any copy would write leaves the row alone) and
`RearmProtected` (while a re-arm stands, no engine past the second read holds it).

**ExitRules_proofs**: `DecisionsAreSound`. Of any position, at any mark and moment, a sale is
of one lot at least and of all at most, and a decision that keeps a lot, be it a hold, a ratchet
or a partial exit, is made only where none of the eight full exits was due; a ratchet's stop lies
between the stored one and the mark. The module also has the lemmas about the pure operators the
exit tick's proofs rest on: the least of a finite set of naturals, what a fill may return, that
the effective stop is a natural no lower than any of its sources and rises with the best mark,
and which checks decide (`DecisionFacts`, `BreachFires`, `DueExits`, `RungIsNew`).

**ExitTick_proofs**: `TypeCorrect`, `LogIsTheRow`, `LegsSum`, `NoRungTwice`,
`BreachesAreActedOn`, `DueTicksOnlyExit`, `DueTicksSell`, `ImplementsHeldPosition`,
`EventsComeFirst`.
The inductive invariant `IInv` is `TypeOK /\ LogReplaysToRow /\ LegsAddUp /\ RungsCounted
/\ HalfWay`. `RungsCounted` says that the rungs in the log are those the row has taken,
or one more once it is closed, from which `RungsOnce` follows by cardinality. `HalfWay`
says what a tick between its transactions may rely on: after EXIT_FORCED the row still
holds at least the lots the order filled and the price is positive. The refinement maps
`FillExit` and `FinishForced` to `Sell`, `NoAction` and `MoveStop` to `Protect` or a
stutter, everything else to a stutter. `DueTicksSell` needs two assumptions of its own.
95% of a positive `Decimal` is positive, so the unit of the model's integers has to be small
enough for that (`UnitAssumption`); and a breakeven floor above the mark that arms it would be
a stop that fires on a leg above the stored level, and a stop does not force its fill
(`FloorAssumption`: no segment's YAML has such a floor, and nothing in the code forbids one).

**EngineCycle_proofs**: `ConcurrencyIsCapped`, `OnePerUnderlying`, `SweptInTime`,
`CooldownStands`, `StandingHaltStands`. An entry is judged against a snapshot, and none of
the limits is inductive without saying how far the snapshot may be from the database:
`SnapshotHolds` (while the session works, every open trade is in the snapshot, which
counts no fewer than there are, and knows the last close of every underlying it takes for
free), `HaltsSeen` (a halt it does not show was engaged within the cycle), `SweepsCounted`
(at each position of the list, how many ticks have gone by without a sweep, from which
`ExitsLookedAt`; it rests on four lemmas about division). A fill makes the snapshot wrong,
and the steps that follow it either read the account again or leave the session failing,
in which no entry is made.

The second half is about money, `TypeCorrect` and `ExposureIsCapped`. `MoneyInv` adds to the
types `SnapshotCovers`: before an entry the snapshot takes no less for committed than the open
trades cost, and has the latest equity; a sweep only lowers what is committed, and a fill is
followed by a new snapshot. With it, what sizing may grant (`SizeFits`) and the gate's own test
bound what one fill leaves committed (`FillMoney`). The sums are folds over a set in an order
nobody knows; what they keep (`SumsExist`, `SumsOfLess`, `SumsOfMore`) is shown by looking at
the smallest set for which a claim would fail, instead of by the induction the provers lack.

**TickRecorder_proofs**: `TypeCorrect`, `TicksAccountedFor`, `HealthIsTold`,
`LongWaitsAreEarned`, `RejectionsAreFew`. `IInv` is `Control /\ Memory /\ RowInv`.
`Control`: the flusher is off from the last flush of a teardown until keys are resolved
again, a long wait was doubled after a refusal, a pass has had one rejection at most before
it polls chains. `Memory`: the buffer and the batches are disjoint, without repetition, and
hold what is neither stored nor lost. `RowInv`: what a copy of the health row may be, task
by task, so that no task's write can undo what the waiting one has reported.

**EntryTick_proofs**: `TablesTellOneStory`, `PricesAreFresh`, `DenialsTellTrue`. `IInv` is
`TablesTyped /\ TickTrue /\ LeftoverTrue /\ TradesPriced` with the two state properties. `TickTrue`: a
tick under way knows only rows that are there, none later than its own moment, and between its
last two commits the newest signal is the one it is about to call taken. `LeftoverTrue`: what a
tick that raised has left in its session is one rejected signal of a moment whose features are
stored, and no tick of the name runs beside it. `TradesPriced`: the row
that priced a trade is there and was when the trade was opened; the recorder writes at the
clock alone, so that the run of equal prices behind a trade does not change afterwards.
`DenialsTellTrue` is of one step from `IInv`; it rests on what the selector returns, filter
by filter and over the expiries it tries (`SelectDenies` and the lemmas about `Nearest` and `Closest`).

**Sessions_proofs**, for tables that several sessions write and the limiter that several callers share:

* Log, `VerifiedMeansUntouched`. Whatever is done to the table, each of its hashes is that
  of an appended row or the first one, and each appended row has its own (`HashesHaveRows`);
  since a hash is what it was computed from, a row that verifies is one that was appended.
  As long as nobody appends to a changed table what was appended is a chain (`Untouched`),
  and a verified part of a chain has no gap.
* Ledger, `LedgerStands`, from what a waiting request has read being true of the ledger as
  long as it was then (`ReadTrue`).
* Watchlist, `ListedOnce`: the rows committed and those a run holds, taken together, have
  one for each instrument that no overlap is recorded of (`OneInSight`).
* Instrument master, `OneLotInForce` and `OnlyOvertakenAreRefused`. What is true of the committed
  rows alone is not inductive, since what breaks it comes from sessions that hold rows nobody else
  sees. `MasterInv` adds `OneWriter` (a row is in one session's hands at most), `OneContract` (an
  id is of one contract, whoever tells of it, a session that has only looked included), `Apart`
  (no two rows clash, neither committed, nor as one session sees them, nor in two sessions'
  hands), `Timelines` (specifications follow each other without a gap, as committed and as each
  session sees them), from which a day is in exactly one of them, `Dated` (no specification is of
  a day to come) and `FitsUnlessOvertaken` (what a session found still fits what it would see,
  until another commits a row of its contract).
* Limiter, `LimitsAreKept`. `LimiterInv`: every request let through within the longest
  window is in the deque, and the deque holds nothing else. That no wait means room in
  every window (`NoWaitMeansRoom`) is an argument about cardinalities of finite sets.

**Research_proofs**:

* Folds, `FoldsLearnNothing`. The invariant is small (each outcome ends on an open day, as
  many bars on as it was held), the work is arithmetic: bars counted as days fall short by
  the closed days between, and the embargo, multiplied out over the fold's span, covers that.
* Features, `VectorsTellTheMoment`. The property is not inductive: a rebuild holds links it
  has not committed, and the tables a vector was read from go on filling. `FeatureInv` adds
  `VolatilityOfQuotes`, `SignalsTrue` (what a signal saw is what was known at its instant, and
  what was known stays known: `Before`) and `PendingStands` (the link a run holds back
  is as true as a committed one).
* Labels, `LabelsStand`. `OutcomesInv` is types, `BarsFollow` (the bars stored are those up to
  some minute, without a gap) and the property. A label that was drawn from a part of the
  table stands in any longer one: the bars before the signal are all there, and what a later
  bar could add lies behind the bar that decided, or behind the window.
* Replay, `ReplayStands`. `ReplayInv`: a variant that has not sold stands at the best mark of
  the path so far and at the stop that mark alone calls for (`VariantsStand`), so that the
  ratcheted stop adds nothing to a decision (`StopTellsNothing`); with a rule less, fewer
  checks fire (`FewerRules`).

Only model-checked, as liveness under fairness is out of the provers' reach:
`EventuallyClosed`, `Heals` and `ComesBack`. Every safety property of a passing run is proved.

## 5. Abstractions

* Decimal arithmetic is integer arithmetic in a unit that the instances keep exact; the
  cost model is a flat fee per lot and side; the half-tick floor of the modelled spread
  (prices under 0.25) is left out.
* Instants are session slots; the slot of a tick does not change during it. Held session
  time is the slot, plus a session for a later date.
* A quote is any member of a set at any tick, so that every order of prices and books is
  considered; how long the leg has been quiet is a bit of the quote.
* Orders, context columns, stream messages, logging and the audit log are left out.
  `EngineCycle` takes any proposal in the session window, where `EntryTick` says how one
  comes about; the two are checked apart, since a cycle's limits do not depend on which
  contract was chosen.
* A hash is what it was computed from, so collisions are left out; scores are hundredths
  and tanh a clamp; a minute of bars is never left out by the vendor, and one that filled a
  gap later would change labels; a feature vector is the set of rows its inputs come from.
* A subscription's keys, the quality flags of ticks, the depth table, the labels' fees, the
  metrics and the statistics of the gates are left out.
* What fails between two commits of an exit tick, and inside `_record_fill`, is a statement or the
  process: the code there makes rows of values already computed. So no half of such a
  transaction is left for a later commit to store.
* The instrument master's vendors are a parameter; `make_client` gives each exchange one, so that
  two keys on one row come from the vendor changing. The instance has two.
* `size_position`'s last refusal, SIZE_EXCEEDS_CEILING (one lot risks too much), is left out, so that `RiskGates` allows no fewer entries than the code. `BookLeg` keeps the
  accumulators up on the leg that closes the row, where the code leaves them as they were and
  nothing reads them. The log's first stop is the position's opening one; FILLED carries none.
* `session.get` in `build_account_state` may answer from the database or from the session's
  own object; `RebuildAccount` allows both.

## 6. Coverage and plan

The map covers about 30% of the package's lines. Done: the exit side, the entry side, the
engine cycle, the breaker, the recorder, the log, the writers of reference data, labels,
features, folds and replay, each of them with its properties proved.

### Not modelled, and why

* **Pricing** (implied volatility, greeks, synthetic spreads' calibration) and the
  **indicators** behind the features are floating-point numerics: a model over integers
  would be about itself. `metalabel.py`, `metrics.py` and the statistics of the gates are
  numerics of the same kind.
* **Analytics**, **export** and the reading **routers** select, sum and serialise; they
  change no state the rest depends on.
* **Streaming bus** and **WebSocket relay**: a message lost there changes what a browser
  shows. The teardown of `ws.py` (a cancellation passes its `suppress(Exception)` and skips
  the unsubscribe) is a hazard without a property.
* **Provider clients** beyond their limiter are HTTP, protobuf and authentication against
  services outside the repository.
* **Migrations, YAML configuration, the scheduler and most CLI commands** are data and
  thin wrappers; what they start is modelled where it changes state.

### Left to do

1. `WsStream`: two tasks of one client and their teardown in any order.
2. The choice of the keys to subscribe, with its cap, as part of `TickRecorder`.
3. `EntryTick` in place of the proposals of `EngineCycle`, for one underlying.
4. Proofs: what a cycle may leave open once `EntryTick` takes the place of its proposals.
