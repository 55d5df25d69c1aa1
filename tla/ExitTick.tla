------------------------------ MODULE ExitTick ------------------------------
(***************************************************************************)
(* run_exit_tick (engine/orchestrator.py) over the life of one paper trade:*)
(* what one monitoring pass reads, decides, executes and commits.          *)
(*                                                                         *)
(* The engine process is the only writer of its trades and runs one tick   *)
(* at a time, so a tick interleaves with nothing but the clock, the quotes *)
(* it happens to read, and the loss of its process or session.  Grain: one *)
(* action per transaction.  append_event commits, so a tick that repoints  *)
(* the trade, or forces an exit, has two transactions and can be lost      *)
(* between them; every other tick is a single action, and one that is lost *)
(* before its commit changed nothing.                                      *)
(*                                                                         *)
(* Quotes are inputs: any quote of OwnQuotes may be the latest row of the  *)
(* trade's instrument at any tick, and any of SiblingQuotes the latest row *)
(* of a duplicate instrument row.  The clock is a session slot on the      *)
(* opening date (day 0) or on some later one (day 1, over and over).       *)
(***************************************************************************)
EXTENDS ExitRules

CONSTANTS
  Markets,            \* markets the trade may be on: a subset of {"NSE", "US"}
  EntryQty,           \* lots the entry filled
  LotSize,            \* units per lot
  EntryFeePerLot,     \* entry costs, per lot
  ExitFeePerLot,      \* exit costs, per lot (the cost model, flattened)
  MaxQuoteAge,        \* EXIT_MAX_QUOTE_AGE_MS, in seconds
  OrphanQuoteAge,     \* _ORPHAN_QUOTE_AGE_S
  OwnQuotes,          \* quote rows the trade's own leg may show
  SiblingQuotes       \* quote rows a duplicate instrument may show

QuoteType == [mark : Nat \ {0}, bid : Int, ask : Int, bid_sz : Nat, ask_sz : Nat,
              age : Nat, oi : Nat, volume : Nat, quiet : BOOLEAN]

ASSUME TradeAssumption ==
  /\ Markets # {} /\ Markets \subseteq {"NSE", "US"}
  /\ EntryQty \in Nat \ {0} /\ LotSize \in Nat \ {0}
  /\ EntryFeePerLot \in Nat /\ ExitFeePerLot \in Nat
  /\ MaxQuoteAge \in Nat /\ OrphanQuoteAge \in Nat

ASSUME QuotesAssumption ==
  OwnQuotes \subseteq QuoteType /\ SiblingQuotes \subseteq QuoteType

(* The unit is small enough for 95% of a price to be one: a column that    *)
(* holds a price at all holds no less than two units.                      *)
ASSUME UnitAssumption ==
  \A q \in OwnQuotes \cup SiblingQuotes : \A price \in {q.mark, q.bid, q.ask} :
     price \in {NoPrice, 0} \/ price >= 2

(* breakeven_floor_pct is below breakeven_trigger_pct in every segment.    *)
ASSUME FloorAssumption == BreakevenLevel < BreakevenTrigger

VARIABLES
  market, expires,    \* what is fixed about the trade: its market, and whether
                      \*   the contract expires on the opening date
  day, slot,          \* the clock
  trade,              \* the trades row, risk_params included
  log,                \* the trade_events chain, replayed
  fills,              \* the SELL rows of fills, summed
  marks,              \* the highest position_marks row
  pc,                 \* where the tick stands between its transactions
  pending,            \* what a tick that is half way holds in memory
  last                \* what the tick that just finished saw and did

vars == <<market, expires, day, slot, trade, log, fills, marks, pc, pending, last>>
env  == <<market, expires>>
clock == <<day, slot>>

-----------------------------------------------------------------------------
Reasons ==
  {"BREAKEVEN_STOP", "TRAILING_STOP", "STOP_LOSS", "OVERNIGHT_EXIT", "EOD_EXIT",
   "EXPIRY_EXIT", "TIME_EXIT", "EVENT_EXIT", "PROFIT_TARGET", "PARTIAL_EXIT",
   "SCRATCH_EXIT"}

Stops == {"BREAKEVEN_STOP", "TRAILING_STOP", "STOP_LOSS"}

(* The reasons that may use the forced book, and a faulty variant that     *)
(* forgets one.                                                            *)
NoOvernightExits == {"EOD_EXIT", "EXPIRY_EXIT"}
MandatoryExits == {"EOD_EXIT", "OVERNIGHT_EXIT", "EXPIRY_EXIT"}

Open == trade.closed = "no"

(* What the row holds right after _record_fill: hwm_price is not among the *)
(* risk_params it writes (0 here), and no entry fee is allocated yet.      *)
OpenedTrade ==
  [qty |-> EntryQty, stop |-> InitialStop, hwm |-> 0, taken |-> {},
   closed |-> "no", leg |-> 0, premium |-> AvgEntry * EntryQty * LotSize,
   gross |-> 0, net |-> 0, fees |-> EntryFeePerLot * EntryQty,
   fees_left |-> EntryFeePerLot * EntryQty, cum_qty |-> 0, cum_value |-> 0]

EmptyLog == [sold |-> 0, value |-> 0, stop |-> InitialStop, closed |-> 0,
             rungs |-> 0, leg |-> 0]

NoPending == [quote |-> NoQuote, reason |-> "none", asked |-> 0,
              filled |-> 0, price |-> 0]

NoTick == [breached |-> FALSE, reason |-> "none", result |-> "none"]

Init ==
  /\ market \in Markets /\ expires \in BOOLEAN
  /\ day = 0 /\ slot = 0
  /\ trade = OpenedTrade /\ log = EmptyLog
  /\ fills = [qty |-> 0, value |-> 0] /\ marks = 0
  /\ pc = "idle" /\ pending = NoPending /\ last = NoTick

-----------------------------------------------------------------------------
(* The best mark: the stored one, or this quote's when that is higher. A   *)
(* faulty variant takes this quote's.                                      *)
ForgetBestMark(q) == q.mark
BestMark(q) == Larger(trade.hwm, q.mark)

(* The Position run_exit_tick builds from the row and the quote it read;   *)
(* how long the quote has not changed is looked up near the close only.    *)
Position(q) ==
  [qty |-> trade.qty, stop |-> trade.stop, hwm |-> BestMark(q),
   mark |-> q.mark, taken |-> trade.taken, day |-> day, slot |-> slot,
   quiet |-> q.quiet /\ slot >= LateFrom, expires |-> expires]

(* The live loop never passes blackout_active.                             *)
Decision(q) == EvaluateExits(Position(q), FALSE)

Request(d, book) == ComputeFill("SELL", d.qty, book, MaxQuoteAge)

Marked(q) == marks' = Larger(marks, q.mark)

(* The level the row as it stands protects the position at: the higher of  *)
(* the stop, the trail of the stored best mark and the breakeven floor.    *)
RowLevel == EffectiveStop([stop |-> trade.stop, hwm |-> trade.hwm])

Finished(q, reason, result) ==
  /\ pc' = "idle" /\ pending' = NoPending
  /\ last' = [breached |-> q # NoQuote /\ q.mark <= RowLevel,
              reason |-> reason, result |-> result]

(* A tick goes on with quote q when its own leg showed q and there was     *)
(* nothing fresher to fail over to, or after the failover chose it; then   *)
(* the repointed instrument_id goes to disk with its next commit.          *)
Reads(q) ==
  \/ pc = "idle" /\ Open /\ q \in OwnQuotes
  \/ pc = "repointed" /\ q = pending.quote

LegRead == IF pc = "repointed" THEN log.leg ELSE trade.leg

-----------------------------------------------------------------------------
(* _latest_quote_with_failover found nothing at all: no mark is written.   *)
NoQuoteTick ==
  /\ pc = "idle" /\ Open
  /\ Finished(NoQuote, "none", "no_quote")
  /\ UNCHANGED <<env, clock, trade, log, fills, marks>>

(* The leg has no quote, or only a dark one, and a duplicate instrument    *)
(* row has a fresher one: INSTRUMENT_REPOINTED commits before the row has  *)
(* been touched. A faulty variant writes the row and leaves the event to a *)
(* commit that may not come.                                               *)
RepointRowFirst(own, sibling) ==
  /\ pc = "idle" /\ Open
  /\ own = NoQuote \/ (own.age > OrphanQuoteAge /\ sibling.age < own.age)
  /\ trade' = [trade EXCEPT !.leg = 1 - trade.leg]
  /\ pc' = "repointed" /\ pending' = [NoPending EXCEPT !.quote = sibling]
  /\ last' = NoTick
  /\ UNCHANGED <<env, clock, log, fills, marks>>

Repoint(own, sibling) ==
  /\ pc = "idle" /\ Open
  /\ own = NoQuote \/ (own.age > OrphanQuoteAge /\ sibling.age < own.age)
  /\ log' = [log EXCEPT !.leg = 1 - trade.leg]
  /\ pc' = "repointed" /\ pending' = [NoPending EXCEPT !.quote = sibling]
  /\ last' = NoTick
  /\ UNCHANGED <<env, clock, trade, fills, marks>>

(* No rule fires: the mark and the high-water mark are kept.               *)
NoAction(q, d) ==
  /\ Reads(q) /\ d = Hold
  /\ trade' = [trade EXCEPT !.hwm = BestMark(q), !.leg = LegRead]
  /\ Marked(q) /\ Finished(q, "none", "hold")
  /\ UNCHANGED <<env, clock, log, fills>>

(* STOP_RATCHET: the stop moves up, its STOP_MOVED event in the same       *)
(* transaction. A faulty variant writes no event.                          *)
MoveStopUnlogged(q, d) ==
  /\ Reads(q) /\ d = Ratchet
  /\ trade' = [trade EXCEPT !.hwm = BestMark(q), !.leg = LegRead,
                            !.stop = EffectiveStop(Position(q))]
  /\ Marked(q) /\ Finished(q, "none", "ratchet")
  /\ UNCHANGED <<env, clock, log, fills>>

MoveStop(q, d) ==
  /\ Reads(q) /\ d = Ratchet
  /\ trade' = [trade EXCEPT !.hwm = BestMark(q), !.leg = LegRead,
                            !.stop = EffectiveStop(Position(q))]
  /\ log' = [log EXCEPT !.stop = EffectiveStop(Position(q))]
  /\ Marked(q) /\ Finished(q, "none", "ratchet")
  /\ UNCHANGED <<env, clock, fills>>

(* An exit that cannot be executed: EXIT_FAILED and the mark are written,  *)
(* risk_params is not.                                                     *)
FailExit(q, d) ==
  /\ trade' = [trade EXCEPT !.leg = LegRead]
  /\ Marked(q) /\ Finished(q, d.reason, "failed")
  /\ UNCHANGED <<env, clock, log, fills>>

(* _exit_quote can model no book: the tick returns before any fallback.    *)
NoBookToExitOn(q, d) ==
  /\ Reads(q) /\ d.qty > 0
  /\ ExitQuote(market, q) = NoBook
  /\ FailExit(q, d)

(* The fill model refuses the order, and a forced book is either not this  *)
(* reason's to use or is refused as well.                                  *)
FillRefused(q, d) ==
  LET book == ExitQuote(market, q)
  IN  /\ Reads(q) /\ d.qty > 0 /\ book # NoBook
      /\ Request(d, book).filled = 0
      /\ d.reason \in MandatoryExits =>
           Request(d, ForcedExitQuote(book, d.qty)).filled = 0
      /\ FailExit(q, d)

-----------------------------------------------------------------------------
(* This leg's share of the entry fees not yet allocated. A faulty variant  *)
(* divides by the lots of the entry.                                       *)
FeesOfEntryQty(filled) == (trade.fees_left * filled) \div EntryQty
EntryFees(filled) == (trade.fees_left * filled) \div trade.qty

(* The rungs taken once a leg has been booked: none is added when the row  *)
(* closes, and one is whatever part of the order the book took. A faulty   *)
(* variant waits for the book to take all of it.                           *)
RungOf(q, reason) ==
  IF reason = "PARTIAL_EXIT" THEN {RungTaken(Position(q))} ELSE {}

TakenIfWhole(q, reason, filled) ==
  IF filled = Decision(q).qty THEN trade.taken \cup RungOf(q, reason) ELSE trade.taken

TakenAfter(q, reason, filled) ==
  IF filled = trade.qty THEN trade.taken ELSE trade.taken \cup RungOf(q, reason)

(* The bookkeeping of a leg that did fill: its share of the entry cost and *)
(* of the entry fees is realised, the row shrinks, and CLOSED or           *)
(* PARTIAL_EXIT commits with it.                                           *)
BookLeg(q, reason, filled, price) ==
  LET left  == trade.qty - filled
      done  == left <= 0
      value == price * filled * LotSize
      cost  == AvgEntry * filled * LotSize
      exit_fees  == ExitFeePerLot * filled
  IN  /\ trade' = [qty       |-> left,
                   stop      |-> trade.stop,
                   hwm       |-> BestMark(q),
                   taken     |-> TakenAfter(q, reason, filled),
                   closed    |-> IF done THEN reason ELSE "no",
                   leg       |-> LegRead,
                   premium   |-> trade.premium - cost,
                   gross     |-> trade.gross + value - cost,
                   net       |-> trade.net + value - cost - EntryFees(filled) - exit_fees,
                   fees      |-> trade.fees + exit_fees,
                   fees_left |-> trade.fees_left - EntryFees(filled),
                   cum_qty   |-> trade.cum_qty + filled,
                   cum_value |-> trade.cum_value + value]
      /\ log' = [log EXCEPT !.sold = @ + filled,
                            !.value = @ + value,
                            !.closed = IF done THEN @ + 1 ELSE @,
                            !.rungs = @ + Cardinality(RungOf(q, reason))]
      /\ fills' = [qty |-> fills.qty + filled, value |-> fills.value + value]

(* The order fills, in whole or in part, against the leg's own book.       *)
FillExit(q, d) ==
  LET book == ExitQuote(market, q)
      got == Request(d, book)
  IN  /\ Reads(q) /\ d.qty > 0 /\ book # NoBook /\ got.filled > 0
      /\ BookLeg(q, d.reason, got.filled, got.price)
      /\ Marked(q) /\ Finished(q, d.reason, "filled")
      /\ UNCHANGED <<env, clock>>

(* A mandatory exit the fill model refused is executed again on the forced *)
(* book.  EXIT_FORCED commits first, with the mark and nothing else.       *)
ForceExit(q, d) ==
  LET book == ExitQuote(market, q)
      got == Request(d, ForcedExitQuote(book, d.qty))
  IN  /\ Reads(q) /\ d.qty > 0 /\ book # NoBook
      /\ Request(d, book).filled = 0
      /\ d.reason \in MandatoryExits /\ got.filled > 0
      /\ trade' = [trade EXCEPT !.leg = LegRead]
      /\ Marked(q)
      /\ pc' = "forced"
      /\ pending' = [quote |-> q, reason |-> d.reason, asked |-> d.qty,
                     filled |-> got.filled, price |-> got.price]
      /\ last' = NoTick
      /\ UNCHANGED <<env, clock, log, fills>>

(* ... and then the order, its fill, the row and CLOSED.                   *)
FinishForced ==
  /\ pc = "forced"
  /\ BookLeg(pending.quote, pending.reason, pending.filled, pending.price)
  /\ Finished(pending.quote, pending.reason, "filled")
  /\ UNCHANGED <<env, clock, marks>>

-----------------------------------------------------------------------------
(* The process dies, or the database session fails, between two commits of *)
(* a tick: what it held in memory is gone, what it committed stays.        *)
Interrupt ==
  /\ pc # "idle"
  /\ pc' = "idle" /\ pending' = NoPending /\ last' = NoTick
  /\ UNCHANGED <<env, clock, trade, log, fills, marks>>

(* Time passes between ticks; a tick works with the `now` it started with. *)
PassTime ==
  /\ pc = "idle" /\ Open
  /\ IF slot < LastSlot THEN slot' = slot + 1 /\ day' = day
                        ELSE slot' = 0 /\ day' = 1
  /\ last' = NoTick
  /\ UNCHANGED <<env, trade, log, fills, marks, pc, pending>>

(* Once the row is closed the sweep no longer selects it.                  *)
Closed == ~Open /\ UNCHANGED vars

Monitor(q) ==
  \E d \in {Decision(q)} :
     \/ NoAction(q, d) \/ MoveStop(q, d) \/ NoBookToExitOn(q, d)
     \/ FillRefused(q, d) \/ FillExit(q, d) \/ ForceExit(q, d)

QuotesRead == IF pc = "repointed" THEN {pending.quote} ELSE OwnQuotes

Next ==
  \/ NoQuoteTick
  \/ \E own \in OwnQuotes \cup {NoQuote}, sibling \in SiblingQuotes : Repoint(own, sibling)
  \/ \E q \in QuotesRead : Monitor(q)
  \/ FinishForced
  \/ Interrupt
  \/ PassTime
  \/ Closed

Spec == Init /\ [][Next]_vars

(* Fairness of the liveness run.  A tick that has begun ends, in its last  *)
(* commit or by being lost; the clock advances between ticks; the engine,  *)
(* which sweeps every minute of the session, does not lose every forced    *)
(* exit between its two commits; and the leg is not for ever at or below   *)
(* its protective level whenever it is looked at (strong fairness of       *)
(* UnbreachedTick, with what enables it written out).  Nothing is assumed  *)
(* of the book: every quote may be stale, thin or too wide.                *)
UnbreachedTick == \E q \in OwnQuotes : pc = "idle" /\ q.mark > RowLevel /\ Monitor(q)

Fairness ==
  /\ WF_vars(Interrupt)
  /\ SF_vars(PassTime)
  /\ SF_vars(FinishForced)
  /\ []<>(pc = "idle" /\ Open) => []<><<UnbreachedTick>>_vars

LiveSpec == Spec /\ Fairness

-----------------------------------------------------------------------------
TradeType ==
  [qty : 0..EntryQty, stop : Nat, hwm : Nat, taken : SUBSET RTargets,
   closed : Reasons \cup {"no"}, leg : {0, 1}, premium : Int, gross : Int,
   net : Int, fees : Int, fees_left : Int, cum_qty : 0..EntryQty, cum_value : Int]

LogType ==
  [sold : 0..EntryQty, value : Int, stop : Nat, closed : {0, 1}, rungs : Nat,
   leg : {0, 1}]

PendingType ==
  [quote : OwnQuotes \cup SiblingQuotes \cup {NoQuote}, reason : Reasons \cup {"none"},
   asked : 0..EntryQty, filled : 0..EntryQty, price : Int]

LastType ==
  [breached : BOOLEAN, reason : Reasons \cup {"none"},
   result : {"none", "no_quote", "hold", "ratchet", "failed", "filled"}]

(* The variables have the types of the columns and JSON fields they stand  *)
(* for, and a tick holds a quote or an execution only while it is under    *)
(* way.                                                                    *)
TypeOK ==
  /\ market \in Markets /\ expires \in BOOLEAN
  /\ day \in {0, 1} /\ slot \in 0..LastSlot
  /\ trade \in TradeType /\ log \in LogType
  /\ fills \in [qty : 0..EntryQty, value : Int] /\ marks \in Nat
  /\ pc \in {"idle", "repointed", "forced"}
  /\ pending \in PendingType /\ last \in LastType
  /\ pc = "repointed" => pending.quote # NoQuote
  /\ pc = "forced" => pending.quote # NoQuote /\ pending.filled > 0

(* The event log replays to the trades row, and both to the fills: the     *)
(* lots and the money that left, the stop, and one CLOSED event for a      *)
(* closed row (ARCHITECTURE.md, principle 2: every other trading table is  *)
(* a projection of the log).  It holds after every commit, through repoint *)
(* and forced exits that are lost half way.                                *)
LogReplaysToRow ==
  /\ log.sold = EntryQty - trade.qty /\ log.sold = fills.qty
  /\ log.value = fills.value
  /\ log.stop = trade.stop
  /\ log.closed = IF Open THEN 0 ELSE 1
  /\ Open <=> trade.qty > 0

(* However many legs a position leaves in, their P&L adds up to that of    *)
(* one exit at the average price: what was realised is the proceeds less   *)
(* the cost of the lots that left, the unrealised cost and the unallocated *)
(* entry fees are those of the lots that remain, and avg_exit is the       *)
(* proceeds over the lots sold (cum_value over cum_qty).                   *)
LegsAddUp ==
  LET sold == fills.qty
  IN  /\ trade.premium = AvgEntry * trade.qty * LotSize
      /\ trade.fees_left = EntryFeePerLot * trade.qty
      /\ trade.gross = fills.value - AvgEntry * sold * LotSize
      /\ trade.net = trade.gross - (EntryFeePerLot + ExitFeePerLot) * sold
      /\ trade.fees = EntryFeePerLot * EntryQty + ExitFeePerLot * sold
      /\ trade.cum_qty = sold /\ trade.cum_value = fills.value

(* Each R rung is exited at most once in the life of the trade, also when  *)
(* the book took only a part of it, and whatever is lost in between.       *)
RungsOnce == log.rungs <= Cardinality(RTargets)

(* The trade keeps what any held position promises, with the fills' money  *)
(* and the level of the stored row: no tick, failed, partial, forced or    *)
(* lost half way, forgets a higher stop, buys back or sells after the end. *)
Promise == INSTANCE HeldPosition WITH
             EntryLots <- EntryQty, FirstStop <- InitialStop,
             lots <- trade.qty, proceeds <- fills.value, level <- RowLevel

KeepsPromise == Promise!HeldSpec

Due == day # 0 \/ slot >= CushionFrom \/ (expires /\ slot >= LateFrom)

TickEnds == last' # last /\ last'.result \notin {"none", "no_quote"}

(* A tick that sees the mark at or below that level sells, or puts an      *)
(* EXIT_FAILED event in the log; it never just carries on.                 *)
NoSilentBreach ==
  [][TickEnds /\ last'.breached => last'.result \in {"filled", "failed"}]_vars

(* From the closing cushion on nothing but a stop or the clock decides: no *)
(* tick holds, moves the stop or takes a fraction of the position, which   *)
(* would carry the rest overnight.                                         *)
NothingButExitsWhenDue ==
  [][TickEnds /\ Due =>
       /\ last'.result \in {"filled", "failed"}
       /\ last'.reason \in Stops \cup MandatoryExits]_vars

(* On NSE a tick from the cushion on, that sees the leg above its          *)
(* protective level, sells at least one lot, whatever the book: a refusal  *)
(* is answered by the forced fill.                                         *)
DueTickSells ==
  [][TickEnds /\ Due /\ market = "NSE" /\ ~last'.breached =>
       trade'.qty < trade.qty]_vars

(* The row's instrument changes only to the one the log already names:     *)
(* INSTRUMENT_REPOINTED is on disk before the row is.                      *)
EventBeforeRepoint == [][trade'.leg # trade.leg => trade'.leg = log.leg]_vars

(* Nothing is held for ever: an NSE position is closed in the end, on      *)
(* whatever books its leg shows, once it is past the close.                *)
EventuallyClosed == market = "NSE" => <>(trade.closed # "no")

-----------------------------------------------------------------------------
(* What evaluate_exits' docstring says of the tick: hwm_price is persisted *)
(* on every path, so that the level a dropped ratchet would have set is    *)
(* derived again on the next tick.  The level the row protects at is then  *)
(* the one its position_marks imply.                                       *)
LevelFollowsMarks ==
  pc = "idle" /\ Open => RowLevel = EffectiveStop([stop |-> trade.stop, hwm |-> marks])

(* What the comment above the forced fill says: a time-mandatory exit may  *)
(* not simply not happen.                                                  *)
MandatoryExitHappens ==
  [][TickEnds /\ Due => trade'.qty < trade.qty]_vars
=============================================================================
