----------------------------- MODULE EntryTick -----------------------------
(***************************************************************************)
(* One underlying's entry ticks (engine/orchestrator.py run_entry_tick)    *)
(* over the quotes the recorder keeps writing.  A tick is three steps, as  *)
(* its commits divide it:                                                  *)
(*   Evaluate   loads the chain, commits the feature vector, scores and    *)
(*              flushes the signal                                         *)
(*   Reject, RecordFill   selects, gates, sizes and prices; one commit     *)
(*              writes the signal with the reason it was rejected for, or  *)
(*              the signal with its trade and the FILLED event             *)
(*   MarkTaken  a second commit turns the decision into TAKEN              *)
(* Between any two of them the recorder writes, and the tick may end:      *)
(*   Raise    its code raises; live_loop logs that and goes on to the next *)
(*            name with the same session, where the flushed signal waits   *)
(*   SessionCommits   the session's next commit, of another name's tick or *)
(*            an exit sweep, stores that signal                            *)
(*   Abandon  a statement fails, after which the session commits nothing   *)
(*            it holds, the session is closed, or the process dies         *)
(* In _record_fill, rows are made of values already computed and sent: what *)
(* fails there is a statement.                                             *)
(*                                                                         *)
(* Instruments are numbered rows; two of them may be rows of one contract. *)
(* Time is a count of seconds, a quote row the content written at one.     *)
(* Lots, account, features, spot and the segment's config do not change    *)
(* within a tick and come with it, as one of Situations.  Left out: the    *)
(* columns that only describe a trade (context_entry, risk_params, greeks),*)
(* the broker's order rows and LEG_INSTRUMENT_NOT_FOUND, since a leg is    *)
(* loaded from an instrument row of the very contract then looked up.      *)
(***************************************************************************)
EXTENDS RiskGates, Fills, Scorer, ContractSelector

CONSTANTS
  Contract,           \* instruments -> [type, dte, strike, delta]
  Contents,           \* instruments -> what a quote row may say (records of Fills)
  Situations,         \* what a tick finds besides quotes
  MinConfidence, MaxConfidence,   \* config.*_confidence, in hundredths
  ContentLookback,    \* _CONTENT_LOOKBACK, and _CHAIN_QUOTE_LOOKBACK
  MaxQuoteAge,        \* the broker's limit on the age of a price
  MaxTime, MaxRows, MaxSignals    \* bounds: clock, quote rows, signals

ASSUME EntryAssumption ==
  /\ MinConfidence \in 0..100 /\ MaxConfidence \in 0..101
  /\ MaxQuoteAge \in Nat /\ ContentLookback \in Nat /\ MaxQuoteAge < ContentLookback
  /\ MaxTime \in Nat /\ MaxRows \in Nat /\ MaxSignals \in Nat

Instruments == DOMAIN Contract
Times == 0..MaxTime

(* The types of the rows and of what comes with a tick.                    *)
ASSUME RowsAssumption ==
  /\ Instruments \subseteq Nat \ {0}
  /\ \A i \in Instruments :
       /\ Contract[i].dte \in Nat /\ Contract[i].strike \in Int /\ Contract[i].delta \in Int
       /\ Contents[i] \subseteq
            [mark : Int, bid : Int, ask : Int, bid_sz : Nat, ask_sz : Nat, age : Nat,
             oi : Nat, volume : Nat, quiet : BOOLEAN]
  /\ \A s \in Situations :
       /\ s.spot \in Nat /\ s.underlying_lot \in Nat /\ s.leg_lot \in Nat
       /\ s.min_dte \in Int /\ s.budget_lots \in Int
       /\ s.account.equity \in Int /\ s.account.exposure \in Int

VARIABLES
  clock,
  quotes,             \* option_quotes: <<instrument, time>> -> content
  tick,               \* the tick under way
  vectors,            \* feature_vectors: the times one was written for
  signals, trades,    \* the tables, a row's id its place
  filled,             \* trades with a FILLED event
  leftover,           \* the signal a tick that raised left in its session, if any
  unfinished          \* signals stored for a tick that had raised

tables == <<signals, trades, filled>>
vars == <<clock, quotes, tick, vectors, tables, leftover, unfinished>>

NoTick == [at |-> "none"]

Init ==
  /\ clock = 0
  /\ quotes = [row \in {} |-> NoQuote]
  /\ tick = NoTick
  /\ vectors = {} /\ signals = <<>> /\ trades = <<>> /\ filled = {}
  /\ leftover = <<>> /\ unfinished = {}

-----------------------------------------------------------------------------
(* A row of an instrument and a time is written once: ON CONFLICT DO       *)
(* NOTHING.                                                                *)
WriteQuote(i, content) ==
  /\ Cardinality(DOMAIN quotes) < MaxRows
  /\ <<i, clock>> \notin DOMAIN quotes
  /\ quotes' = [row \in DOMAIN quotes \cup {<<i, clock>>} |->
                  IF row = <<i, clock>> THEN content ELSE quotes[row]]
  /\ UNCHANGED <<clock, tick, vectors, tables, leftover, unfinished>>

TimePasses ==
  /\ clock < MaxTime
  /\ clock' = clock + 1
  /\ UNCHANGED <<quotes, tick, vectors, tables, leftover, unfinished>>

-----------------------------------------------------------------------------
(* The times of an instrument's rows in the lookback that ends at now.     *)
RowTimes(i, now) ==
  {t \in Times : <<i, t>> \in DOMAIN quotes /\ t <= now /\ t >= now - ContentLookback}

(* _candidates_from_chain: a leg without both sides is no candidate, unless *)
(* the market's books are modelled.                                        *)
Book(q, market) ==
  IF q.bid # NoPrice /\ q.ask # NoPrice THEN Observed(q, q.bid, q.ask)
  ELSE IF market = "US" THEN SynthesizeQuote(q) ELSE NoBook

Candidate(i, now, market) ==
  LET ts   == Max(RowTimes(i, now))
      book == Book(quotes[<<i, ts>>], market)
  IN  [id |-> i, contract |-> Contract[i], ts |-> ts, bid |-> book.bid,
       ask |-> book.ask, bid_sz |-> book.bid_sz, ask_sz |-> book.ask_sz, oi |-> book.oi]

(* load_chain: of the two nearest expiries listed, those with a quoted leg. *)
ListedExpiries == {Contract[i].dte : i \in Instruments}

NearestTwo == {e \in ListedExpiries :
                 Cardinality({f \in ListedExpiries : f < e}) < 2}

Quoted(dte, now) ==
  {i \in Instruments : Contract[i].dte = dte /\ RowTimes(i, now) # {}}

LoadChain(now, market) ==
  [dte \in {e \in NearestTwo : Quoted(e, now) # {}} |->
     {c \in {Candidate(i, now, market) : i \in Quoted(dte, now)} : c.bid # NoPrice}]

(* A session visits a name once: its next tick is in another.              *)
Evaluate(situation) ==
  LET result == Score(Detect(situation.features, situation.is_index))
  IN  /\ tick.at = "none" /\ leftover = <<>> /\ Len(signals) < MaxSignals
      /\ vectors' = vectors \cup {clock}
      /\ tick' = IF result.direction = "NONE" THEN NoTick
                 ELSE [at |-> "evaluated", now |-> clock, situation |-> situation,
                       chain |-> LoadChain(clock, situation.market), result |-> result]
      /\ UNCHANGED <<clock, quotes, tables, leftover, unfinished>>

-----------------------------------------------------------------------------
(* underlying_lot_size, then leg_lot_size where the leg has a spec of its  *)
(* own; 0 when there is none.  A US contract is for 100 shares.            *)
LotSize(s) ==
  IF s.market = "US" THEN 100 ELSE s.underlying_lot

LegLotSize(s) ==
  IF s.market = "NSE" /\ s.leg_lot > 0 THEN s.leg_lot ELSE LotSize(s)

(* _resolve_leg_instrument_id: of several rows of one contract the one     *)
(* quoted last, or the first.                                              *)
LegRows(c) == {i \in Instruments : Contract[i] = c.contract}

LastQuoted(i, now) ==
  Max({0} \cup {t + 1 : t \in {u \in Times : u <= now /\ <<i, u>> \in DOMAIN quotes}})

ResolveLeg(c, now) ==
  LET freshest == {i \in LegRows(c) :
                     \A j \in LegRows(c) : LastQuoted(j, now) <= LastQuoted(i, now)}
  IN  Min(freshest)

SameContent(q, r) ==
  q.bid = r.bid /\ q.ask = r.ask /\ q.mark = r.mark /\ q.volume = r.volume

(* _quote_content_since.  A faulty variant believes the time of the row.   *)
QuoteRowSince(i, ts) == ts

QuoteContentSince(i, ts) ==
  LET window    == RowTimes(i, ts)
      different == {t \in window : ~SameContent(quotes[<<i, t>>], quotes[<<i, ts>>])}
  IN  IF <<i, ts>> \notin DOMAIN quotes THEN ts
      ELSE IF different = {} THEN ts - ContentLookback
      ELSE Min({t \in window : t > Max(different)})

-----------------------------------------------------------------------------
(* The stages of run_entry_tick after the signal was added to its session, *)
(* each reached when none before it refuses.                               *)
Terms(s) ==
  [spot |-> s.spot, lot_size |-> LotSize(s),
   budget |-> (MaxPremiumPct * s.account.equity) \div 100]

Selection(t) ==
  SelectAcrossExpiries(ChainAtMinDte(t.chain, t.situation.min_dte), t.result.direction,
                       Terms(t.situation))

Proposal(t) ==
  LET c == Selection(t).selected
      s == t.situation
  IN  [underlying |-> s.underlying, in_window |-> s.in_window, liquid |-> s.liquid,
       premium |-> ((c.bid + c.ask) * LegLotSize(s)) \div 2]

Lots(t) == SizePosition(Proposal(t), t.situation.account, t.situation.budget_lots)

Execution(t) ==
  LET c    == Selection(t).selected
      since == QuoteContentSince(ResolveLeg(c, t.now), c.ts)
  IN  ComputeFill("BUY", Lots(t),
        [bid |-> c.bid, ask |-> c.ask, bid_sz |-> c.bid_sz, ask_sz |-> c.ask_sz,
         age |-> t.now - since, oi |-> c.oi], MaxQuoteAge)

RejectReason(t) ==
  LET s == t.situation
  IN  IF s.halted THEN "HEALTH"
      ELSE IF Below(t.result, MinConfidence) THEN "BELOW_MIN_CONFIDENCE"
      ELSE IF ~Below(t.result, MaxConfidence) THEN "ABOVE_MAX_CONFIDENCE"
      ELSE IF s.spot = 0 \/ DOMAIN t.chain = {} THEN "NO_CHAIN_DATA"
      ELSE IF LotSize(s) = 0 THEN "NO_LOT_SIZE"
      ELSE IF DOMAIN ChainAtMinDte(t.chain, t.situation.min_dte) = {} THEN "NO_EXPIRY_AT_MIN_DTE"
      ELSE IF Selection(t).selected = NoCandidate THEN Selection(t).reason
      ELSE IF ~GateChainAllows(Proposal(t), s.account) THEN "GATE"
      ELSE IF Lots(t) <= 0 THEN "SIZING"
      ELSE IF Execution(t).filled <= 0 THEN "EXECUTION"
      ELSE "none"

SignalRow(t, reason, decision) ==
  [ts |-> t.now, decision |-> decision, reason |-> reason]

Reject ==
  /\ tick.at = "evaluated"
  /\ RejectReason(tick) # "none"
  /\ signals' = Append(signals, SignalRow(tick, RejectReason(tick), "REJECTED"))
  /\ tick' = NoTick
  /\ UNCHANGED <<clock, quotes, vectors, trades, filled, leftover, unfinished>>

(* _record_fill: append_event's commit writes signal, trade and event.     *)
(* The signal still says REJECTED, for no reason.  A trade remembers here  *)
(* which candidate it was priced by.                                       *)
TradeRow(t) ==
  LET c == Selection(t).selected
  IN  [signal |-> Len(signals) + 1, instrument |-> ResolveLeg(c, t.now),
       opened |-> t.now, priced_by |-> c, qty |-> Execution(t).filled]

(* A faulty variant commits the signal, and the trade only later.          *)
RecordFillLater ==
  /\ tick.at = "evaluated"
  /\ RejectReason(tick) = "none"
  /\ signals' = Append(signals, SignalRow(tick, "none", "REJECTED"))
  /\ tick' = [tick EXCEPT !.at = "filled"]
  /\ UNCHANGED <<clock, quotes, vectors, trades, filled, leftover, unfinished>>

RecordFill ==
  /\ tick.at = "evaluated"
  /\ RejectReason(tick) = "none"
  /\ signals' = Append(signals, SignalRow(tick, "none", "REJECTED"))
  /\ trades' = Append(trades, TradeRow(tick))
  /\ filled' = filled \cup {Len(trades) + 1}
  /\ tick' = [tick EXCEPT !.at = "filled"]
  /\ UNCHANGED <<clock, quotes, vectors, leftover, unfinished>>

MarkTaken ==
  /\ tick.at = "filled"
  /\ signals' = [signals EXCEPT ![Len(signals)].decision = "TAKEN"]
  /\ tick' = NoTick
  /\ UNCHANGED <<clock, quotes, vectors, trades, filled, leftover, unfinished>>

Raise ==
  /\ tick.at = "evaluated"
  /\ leftover' = <<SignalRow(tick, "none", "REJECTED")>>
  /\ tick' = NoTick
  /\ UNCHANGED <<clock, quotes, vectors, tables, unfinished>>

SessionCommits ==
  /\ leftover # <<>>
  /\ signals' = signals \o leftover
  /\ unfinished' = unfinished \cup {Len(signals) + 1}
  /\ leftover' = <<>>
  /\ UNCHANGED <<clock, quotes, tick, vectors, trades, filled>>

Abandon ==
  /\ tick.at # "none" \/ leftover # <<>>
  /\ tick' = NoTick /\ leftover' = <<>>
  /\ UNCHANGED <<clock, quotes, vectors, tables, unfinished>>

Next ==
  \/ \E i \in Instruments : \E content \in Contents[i] : WriteQuote(i, content)
  \/ TimePasses
  \/ \E situation \in Situations : Evaluate(situation)
  \/ Reject
  \/ RecordFill
  \/ MarkTaken
  \/ Raise
  \/ SessionCommits
  \/ Abandon

Spec == Init /\ [][Next]_vars

-----------------------------------------------------------------------------
(* The tables tell one story of every decision, at every moment, after any *)
(* crash and whatever a tick that raised left behind: a trade hangs on one *)
(* signal of its own that names no reason, and has its FILLED event; a     *)
(* signal with a reason was not taken and has no trade; one without a      *)
(* reason has its trade, whether or not the second commit came to call it  *)
(* TAKEN, or is of a tick that raised, and then it is REJECTED without     *)
(* one; and no signal lacks its features.                                  *)
SignalsTellTheTrade ==
  /\ \A k \in 1..Len(trades) :
       /\ k \in filled
       /\ trades[k].qty > 0
       /\ trades[k].signal \in 1..Len(signals)
       /\ signals[trades[k].signal].reason = "none"
       /\ \A m \in 1..Len(trades) : trades[m].signal = trades[k].signal => m = k
  /\ \A n \in 1..Len(signals) :
       LET traded == \E k \in 1..Len(trades) : trades[k].signal = n
       IN  /\ signals[n].ts \in vectors
           /\ signals[n].decision = "TAKEN" => traded
           /\ signals[n].reason = "none" => (traded <=> n \notin unfinished)

(* When the run of equal rows that ends at time ts began.                  *)
RunStart(i, ts) ==
  LET times == {t \in Times : <<i, t>> \in DOMAIN quotes /\ t <= ts}
  IN  Min({t \in times : \A u \in times :
             u >= t => SameContent(quotes[<<i, u>>], quotes[<<i, ts>>])})

(* No position is opened at a price the market stopped quoting: the price  *)
(* a trade is filled by had appeared within the age limit, however many    *)
(* fresh rows repeated an older one.  Where a contract has several rows    *)
(* this holds of a trade booked on the row that priced it.                 *)
FreshPriceOnly ==
  \A k \in 1..Len(trades) :
    trades[k].instrument = trades[k].priced_by.id =>
      trades[k].opened - RunStart(trades[k].instrument, trades[k].priced_by.ts) <= MaxQuoteAge

(* Whatever the order of the filters and of the expiries, a signal denied  *)
(* at contract selection had no loaded contract that passes them all, and  *)
(* one denied for the expiry window had none inside it.                    *)
Eligible(t) ==
  {c \in UNION {t.chain[e] : e \in {e \in DOMAIN t.chain : e >= t.situation.min_dte}} :
     /\ InWindow(c, t.result.direction) /\ InsideSpread(c)
     /\ Affordable(c, LotSize(t.situation), Terms(t.situation).budget)
     /\ Distance(c, t.situation.spot) <= MaxDeltaDistance}

SelectionDenials ==
  {"NO_CANDIDATES_IN_EXPIRY_WINDOW", "NO_CONTRACT_INSIDE_SPREAD_LIMIT",
   "NO_AFFORDABLE_CONTRACT", "NO_CONTRACT_NEAR_TARGET_DELTA"}

DenialIsTrue ==
  Len(signals') > Len(signals) =>
    LET reason == signals'[Len(signals')].reason
    IN  /\ reason \in SelectionDenials => Eligible(tick) = {}
        /\ reason = "NO_CANDIDATES_IN_EXPIRY_WINDOW" =>
             \A e \in DOMAIN tick.chain : \A c \in tick.chain[e] :
               e >= tick.situation.min_dte => ~InWindow(c, tick.result.direction)

DenialsAreTrue == [][DenialIsTrue]_vars
=============================================================================
