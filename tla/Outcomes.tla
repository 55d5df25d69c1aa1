------------------------------ MODULE Outcomes ------------------------------
(***************************************************************************)
(* What became of the signals of one underlying: its one-minute bars come  *)
(* in late and in pieces (data/recorder.py recover_underlying_bars,        *)
(* data/ingest.py write_underlying_bars_batch), and runs of the backfill   *)
(* (backtest/backfill.py, nightly from jobs.py or by hand) label signals   *)
(* with what the bars then say (backtest/resolve.py).                      *)
(*                                                                         *)
(* Minutes are numbered through the sessions, which the wall clock sets    *)
(* DayLength apart.  A vendor leaves out no minute (one that filled a gap  *)
(* later would change labels) and also returns the bar of the running one, *)
(* as far as it has come.  A run only adds outcomes, in one commit, and is *)
(* one step.  A bar is [high, low, close] in points; the risk unit is the  *)
(* pair [num, den].  Left out: the second vendor's bars, an underlying the *)
(* vendor refuses, and the run's counters.                                 *)
(***************************************************************************)
EXTENDS Integers, Sequences, FiniteSets, FiniteSetsExt, SequencesExt

CONSTANTS
  Shapes,             \* the bars a minute may bring
  SessionLength, DayLength,       \* minutes of a session, minutes to the next one
  LookbackBars, AtrPeriod, HoldingBars,    \* lookback_bars, _ATR_PERIOD, max_holding_bars
  MarginSlack,        \* the extra minutes of a load's margin
  RefreshAge,         \* BAR_REFRESH_INTERVAL
  RescanMinutes,      \* OUTCOME_RESCAN_DAYS
  LastMinute, MaxLabelled         \* bounds: minutes, signals

ASSUME OutcomesAssumption ==
  /\ SessionLength \in Nat \ {0} /\ DayLength \in Nat /\ SessionLength <= DayLength
  /\ LookbackBars \in Nat /\ AtrPeriod \in 1..LookbackBars /\ HoldingBars \in Nat \ {0}
  /\ MarginSlack \in Nat /\ RefreshAge \in Nat /\ RescanMinutes \in Nat
  /\ LastMinute \in Nat /\ MaxLabelled \in Nat

VARIABLES
  minute,             \* the running minute
  market,             \* the bars of the minutes before it
  bars,               \* underlying_bars: minute -> bar
  labelled            \* signals: [at, direction, outcome]

outcome_vars == <<minute, market, bars, labelled>>

NoOutcome == [reason |-> "none"]

OutcomesInit ==
  /\ minute = 0 /\ market = [m \in {} |-> NoOutcome] /\ bars = [m \in {} |-> NoOutcome]
  /\ labelled = <<>>

SessionOf(m) == m \div SessionLength
WallClock(m) == SessionOf(m) * DayLength + (m % SessionLength)

(* The minute closes, on a bar it alone knew, and the next one begins.     *)
MinuteCloses(shape) ==
  /\ minute < LastMinute /\ minute' = minute + 1
  /\ market' = [m \in 0..minute |-> IF m = minute THEN shape ELSE market[m]]
  /\ UNCHANGED <<bars, labelled>>

Signal(direction) ==
  /\ Len(labelled) < MaxLabelled
  /\ labelled' = Append(labelled, [at |-> minute, direction |-> direction, outcome |-> NoOutcome])
  /\ UNCHANGED <<minute, market, bars>>

-----------------------------------------------------------------------------
(* ON CONFLICT DO NOTHING.  A faulty variant updates the row.              *)
UpdateBars(new, old) ==
  [m \in DOMAIN new \cup DOMAIN old |-> IF m \in DOMAIN new THEN new[m] ELSE old[m]]

InsertBars(new, old) ==
  [m \in DOMAIN new \cup DOMAIN old |-> IF m \in DOMAIN old THEN old[m] ELSE new[m]]

(* recover_underlying_bars: everything since the day of the newest bar, if *)
(* that is old enough, up to and with the running minute or without it.    *)
Stale == IF DOMAIN bars = {} THEN TRUE
         ELSE WallClock(minute) - WallClock(Max(DOMAIN bars)) >= RefreshAge

RefreshSince ==
  IF DOMAIN bars = {} THEN 0 ELSE SessionOf(Max(DOMAIN bars)) * SessionLength

Refresh(running) ==
  LET closed == [m \in {n \in DOMAIN market : n >= RefreshSince} |-> market[m]]
  IN  /\ Stale
      /\ bars' = InsertBars(UpdateBars([m \in {minute} |-> running], closed), bars)
      /\ UNCHANGED <<minute, market, labelled>>

RefreshClosed ==
  /\ Stale
  /\ bars' = InsertBars([m \in {n \in DOMAIN market : n >= RefreshSince} |-> market[m]], bars)
  /\ UNCHANGED <<minute, market, labelled>>

-----------------------------------------------------------------------------
(* Wilder's average of the true ranges of a window, exactly.               *)
Spread(a, b) == IF a < b THEN b - a ELSE a - b

TrueRange(bar, before) ==
  Max({bar.high - bar.low, Spread(bar.high, before.close), Spread(bar.low, before.close)})

Smoothed(sofar, range) ==
  [num |-> sofar.num * (AtrPeriod - 1) + range * sofar.den, den |-> sofar.den * AtrPeriod]

Atr(window) ==
  LET ranges == [i \in 1..(Len(window) - 1) |-> TrueRange(window[i + 1], window[i])]
      first  == FoldLeft(+, 0, SubSeq(ranges, 1, AtrPeriod))
  IN  FoldLeft(Smoothed, [num |-> first, den |-> AtrPeriod],
               SubSeq(ranges, AtrPeriod + 1, Len(ranges)))

(* resolve_forward_outcome: a stop of one risk unit, a target of two; a    *)
(* bar that reaches both has reached the stop.                             *)
Favourable(bar, direction) == IF direction = "BUY" THEN bar.high ELSE -bar.low
Adverse(bar, direction)    == IF direction = "BUY" THEN bar.low ELSE -bar.high
Signed(price, direction)   == IF direction = "BUY" THEN price ELSE -price

HitsStop(bar, direction, entry, atr) ==
  (Adverse(bar, direction) - Signed(entry, direction)) * atr.den <= -atr.num

HitsTarget(bar, direction, entry, atr) ==
  (Favourable(bar, direction) - Signed(entry, direction)) * atr.den >= 2 * atr.num

ResolveForward(direction, entry, atr, forward) ==
  LET ended == {i \in 1..Len(forward) : HitsStop(forward[i], direction, entry, atr)
                                          \/ HitsTarget(forward[i], direction, entry, atr)}
      held  == IF ended = {} THEN Len(forward) ELSE Min(ended)
      walked == {forward[i] : i \in 1..held}
  IN  [reason |-> IF ended = {} THEN "TIME"
                  ELSE IF HitsStop(forward[held], direction, entry, atr) THEN "STOP" ELSE "TARGET",
       held |-> held, entry |-> entry, atr |-> atr, close |-> forward[held].close,
       mfe |-> Max({0} \cup {Favourable(b, direction) - Signed(entry, direction) : b \in walked}),
       mae |-> Max({0} \cup {Signed(entry, direction) - Adverse(b, direction) : b \in walked})]

(* _resolve_one, over the minutes that were loaded: the entry bar is the   *)
(* last at or before the signal, the forward bars are those that follow it *)
(* in its session.  A window cut short that reached neither stop nor       *)
(* target is no outcome; a faulty variant takes it for one.                *)
InOrder(minutes) ==
  [i \in 1..Cardinality(minutes) |->
     CHOOSE m \in minutes : Cardinality({n \in minutes : n < m}) = i - 1]
BarsOf(minutes)  == [i \in 1..Len(minutes) |-> bars[minutes[i]]]

ForwardMinutes(signal, loaded) ==
  LET later == {m \in loaded : m > signal.at /\ SessionOf(m) = SessionOf(signal.at)}
  IN  InOrder({m \in later : Cardinality({n \in later : n < m}) < HoldingBars})

UpToEntry(signal, loaded) == {m \in loaded : m <= signal.at}

Window(signal, loaded) ==
  LET before == UpToEntry(signal, loaded)
  IN  InOrder({m \in before : Cardinality({n \in before : n > m}) <= LookbackBars})

Unknown(signal, loaded) ==
  \/ Cardinality(UpToEntry(signal, loaded)) <= LookbackBars
  \/ Atr(BarsOf(Window(signal, loaded))).num <= 0
  \/ ForwardMinutes(signal, loaded) = <<>>

Scored(signal, loaded) ==
  LET window == Window(signal, loaded)
  IN  ResolveForward(signal.direction, bars[Last(window)].close, Atr(BarsOf(window)),
                     BarsOf(ForwardMinutes(signal, loaded)))

ResolveTruncated(signal, loaded) ==
  IF Unknown(signal, loaded) THEN NoOutcome ELSE Scored(signal, loaded)

ResolveOne(signal, loaded) ==
  LET outcome   == Scored(signal, loaded)
      truncated == Len(ForwardMinutes(signal, loaded)) < HoldingBars
  IN  IF Unknown(signal, loaded) \/ (outcome.reason = "TIME" /\ truncated)
      THEN NoOutcome ELSE outcome

-----------------------------------------------------------------------------
(* _load_bars: the margin before the first signal of the run to the margin *)
(* after its last.                                                         *)
LoadMargin == HoldingBars + LookbackBars + MarginSlack

LoadBars(selected) ==
  LET times == {WallClock(labelled[k].at) : k \in selected}
  IN  {m \in DOMAIN bars : WallClock(m) \in (Min(times) - LoadMargin)..(Max(times) + LoadMargin)}

Backfill(since, overwrite) ==
  LET selected == {k \in 1..Len(labelled) :
                     /\ WallClock(labelled[k].at) >= since
                     /\ overwrite \/ labelled[k].outcome = NoOutcome}
      outcome(k) == ResolveOne(labelled[k], LoadBars(selected))
  IN  /\ selected # {} /\ Cardinality(LoadBars(selected)) > LookbackBars
      /\ labelled' = [k \in 1..Len(labelled) |->
                        IF k \in selected /\ outcome(k) # NoOutcome
                        THEN [labelled[k] EXCEPT !.outcome = outcome(k)] ELSE labelled[k]]
      /\ UNCHANGED <<minute, market, bars>>

OutcomesNext ==
  \/ \E shape \in Shapes : MinuteCloses(shape) \/ Refresh(shape)
  \/ RefreshClosed
  \/ \E direction \in {"BUY", "SELL"} : Signal(direction)
  \/ \E since \in {0, WallClock(minute) - RescanMinutes}, overwrite \in BOOLEAN :
       Backfill(since, overwrite)

OutcomesSpec == OutcomesInit /\ [][OutcomesNext]_outcome_vars

-----------------------------------------------------------------------------
(* A label is final: whenever it was written, in whatever company, next to *)
(* however few bars, it is the one the whole table gives now, and that no  *)
(* bar still to come will change.                                          *)
LabelIsFinal ==
  \A k \in 1..Len(labelled) :
    labelled[k].outcome # NoOutcome =>
      labelled[k].outcome = ResolveOne(labelled[k], DOMAIN bars)
=============================================================================
