-------------------------- MODULE ExitTick_proofs --------------------------
(***************************************************************************)
(* What one paper trade keeps through any sequence of ticks, quotes, books,*)
(* repoints, forced exits and losses in between, for every size of the     *)
(* position, every level, every fee and every set of quotes.               *)
(***************************************************************************)
EXTENDS ExitTick, ExitRules_proofs

-----------------------------------------------------------------------------
(* A tick is half way only on an open trade, with a quote it has read, and *)
(* a forced exit that has executed sold a part of the position for money.  *)
HalfWay ==
  /\ pc # "idle" => Open
  /\ pc = "repointed" => pending.quote \in SiblingQuotes
  /\ pc = "forced" =>
       /\ pending.quote \in OwnQuotes \cup SiblingQuotes
       /\ pending.reason \in MandatoryExits
       /\ pending.filled \in 1..trade.qty /\ pending.price \in Nat \ {0}

(* Every rung exited so far is remembered, up to the leg that closed.      *)
RungsCounted ==
  /\ Open => log.rungs = Cardinality(trade.taken)
  /\ log.rungs <= Cardinality(RTargets)

IInv == TypeOK /\ LogReplaysToRow /\ LegsAddUp /\ RungsCounted /\ HalfWay

-----------------------------------------------------------------------------
(* Exact arithmetic of the legs: shares of a product, and of the fees.     *)
LEMMA ShareOf ==
  ASSUME NEW a \in Int, NEW n \in Int, NEW f \in Int, NEW l \in Int
  PROVE  /\ a * (n - f) * l = a * n * l - a * f * l
         /\ a * (n + f) * l = a * n * l + a * f * l
         /\ a * (n - f) = a * n - a * f
         /\ a * (n + f) = a * n + a * f
         /\ a * n * l \in Int /\ a * n \in Int
  OBVIOUS

LEMMA FeeShare ==
  ASSUME NEW e \in Nat, NEW n \in Nat \ {0}, NEW f \in Nat
  PROVE  ((e * n) * f) \div n = e * f
<1>1. (e * n) * f = (e * f) * n /\ e * f \in Nat
  OBVIOUS
<1>2. \A k \in Nat : (k * n) \div n = k
  OBVIOUS
<1>3. QED
  BY <1>1, <1>2

(* Books the engine builds are books.                                      *)
LEMMA BookType ==
  ASSUME NEW q \in QuoteType, NEW m
  PROVE  ExitQuote(m, q) \in Books
<1>1. SynthesizeQuote(q) \in Books
  BY DEF SynthesizeQuote, ModelledSize, Smaller, NoBook, NoPrice, Books, QuoteType
<1>2. QED
  BY <1>1 DEF ExitQuote, Observed, OrMark, Books, QuoteType

LEMMA ForcedBookType ==
  ASSUME NEW book \in Books, NEW qty \in Nat
  PROVE  ForcedExitQuote(book, qty) \in Books
  BY DEF ForcedExitQuote, Larger, Books

-----------------------------------------------------------------------------
(* What a tick goes on with is a quote, on an open trade.                  *)
LEMMA ReadsQuote ==
  ASSUME IInv, NEW q, Reads(q)
  PROVE  /\ q \in QuoteType /\ q \in OwnQuotes \cup SiblingQuotes
         /\ Open /\ trade.qty \in Nat \ {0}
         /\ pc # "forced"
  BY QuotesAssumption, TradeAssumption
  DEF IInv, HalfWay, Reads, LogReplaysToRow, TypeOK, TradeType

LEMMA NoQuoteIsNoQuote == NoQuote \notin QuoteType
  BY DEF NoQuote, QuoteType

(* The position of a tick protects at the row's level or above.            *)
LEMMA PositionFacts ==
  ASSUME IInv, NEW q \in QuoteType
  PROVE  /\ Position(q).qty = trade.qty /\ Position(q).mark = q.mark
         /\ Position(q).taken = trade.taken
         /\ Position(q).stop = trade.stop /\ Position(q).stop \in Nat
         /\ Position(q).hwm = BestMark(q) /\ BestMark(q) \in Nat
         /\ BestMark(q) >= trade.hwm
         /\ EffectiveStop(Position(q)) \in Nat
         /\ EffectiveStop(Position(q)) >= trade.stop
         /\ RowLevel \in Nat /\ EffectiveStop(Position(q)) >= RowLevel
<1> DEFINE row == [stop |-> trade.stop, hwm |-> trade.hwm]
<1>1. /\ BestMark(q) \in Nat /\ BestMark(q) >= trade.hwm
      /\ trade.stop \in Nat /\ trade.hwm \in Nat
  BY DEF IInv, TypeOK, TradeType, BestMark, Larger, QuoteType
<1>2. /\ Position(q).qty = trade.qty /\ Position(q).mark = q.mark
      /\ Position(q).taken = trade.taken
      /\ Position(q).stop = trade.stop /\ Position(q).hwm = BestMark(q)
  BY DEF Position
<1>3. EffectiveStop(Position(q)) \in Nat /\ EffectiveStop(Position(q)) >= trade.stop
  BY <1>1, <1>2, EffectiveStopFacts
<1>4. row.stop = trade.stop /\ row.hwm = trade.hwm
  OBVIOUS
<1>5. EffectiveStop(row) \in Nat /\ EffectiveStop(row) <= EffectiveStop(Position(q))
  <2> HIDE DEF row
  <2>1. QED
    BY <1>1, <1>2, <1>4, EffectiveStopFacts, EffectiveStopRises
<1>6. RowLevel = EffectiveStop(row)
  BY DEF RowLevel
<1>7. QED
  BY <1>1, <1>2, <1>3, <1>5, <1>6

(* An order asks for a part of the position, and names a rung only when    *)
(* that was not taken before.                                              *)
LEMMA OrderFacts ==
  ASSUME IInv, NEW q, Reads(q), NEW d, d = Decision(q), d.qty > 0
  PROVE  /\ d.qty \in 1..trade.qty /\ d.reason \in Reasons
         /\ d.reason = "PARTIAL_EXIT" =>
              RungTaken(Position(q)) \in RTargets \ trade.taken
<1>1. q \in QuoteType /\ trade.qty \in Nat \ {0}
  BY ReadsQuote
<1>2. Position(q).qty = trade.qty /\ Position(q).taken = trade.taken
  BY <1>1, PositionFacts
<1>3. d \notin {Hold, Ratchet}
  BY DEF Hold, Ratchet
<1>4. /\ d.qty \in 1..trade.qty /\ d.reason \in ExitReasons
      /\ d.reason = "PARTIAL_EXIT" => DueRungs(Position(q)) # {}
  BY <1>1, <1>2, <1>3, DecisionType DEF Decision
<1>5. QED
  BY <1>2, <1>4, RungIsNew DEF ExitReasons, Reasons

(* What it gets is between nothing and all of it, for money.               *)
LEMMA RequestFacts ==
  ASSUME NEW d, d.qty \in Nat, NEW book \in Books, NEW got, got = Request(d, book)
  PROVE  /\ got.filled \in 0..d.qty /\ got.price \in Nat
         /\ got.filled > 0 => got.price > 0
<1>1. book.bid \in Int /\ book.ask \in Int /\ book.bid_sz \in Nat
  BY DEF Books
<1>2. QED
  BY <1>1, SellFills DEF Request

-----------------------------------------------------------------------------
(* The leg BookLeg books, once for both of its callers: a part of the      *)
(* position, sold for money, under a reason that names a new rung if any.  *)
Leg(q, reason, filled, price) ==
  /\ q \in QuoteType
  /\ reason \in Reasons
  /\ filled \in 1..trade.qty /\ price \in Nat \ {0}
  /\ reason = "PARTIAL_EXIT" => RungTaken(Position(q)) \in RTargets \ trade.taken

(* The rungs counted in the log go up by the one that joins those taken,   *)
(* and stay within the targets when the row closes without noting it.      *)
LEMMA RungStep ==
  ASSUME IInv, NEW q, NEW reason, NEW filled, NEW price,
         Leg(q, reason, filled, price), Open
  PROVE  LET more == log.rungs + Cardinality(RungOf(q, reason))
             taken == trade.taken \cup RungOf(q, reason)
         IN  /\ taken \in SUBSET RTargets
             /\ more = Cardinality(taken) /\ more \in Nat
             /\ more <= Cardinality(RTargets)
<1>1. /\ IsFiniteSet(RTargets) /\ trade.taken \in SUBSET RTargets
      /\ IsFiniteSet(trade.taken)
      /\ log.rungs = Cardinality(trade.taken) /\ Cardinality(trade.taken) \in Nat
  BY FS_Subset, FS_CardinalityType, LevelsAssumption
  DEF IInv, RungsCounted, TypeOK, TradeType
<1>2. CASE reason = "PARTIAL_EXIT"
  <2> DEFINE r == RungTaken(Position(q))
  <2>1. RungOf(q, reason) = {r} /\ r \in RTargets /\ r \notin trade.taken
    BY <1>2 DEF RungOf, Leg
  <2>2. Cardinality({r}) = 1
    BY FS_Singleton
  <2>3. Cardinality(trade.taken \cup {r}) = Cardinality(trade.taken) + 1
    BY <1>1, <2>1, FS_AddElement
  <2>4. trade.taken \cup {r} \in SUBSET RTargets
    BY <1>1, <2>1
  <2>5. Cardinality(trade.taken \cup {r}) <= Cardinality(RTargets)
    BY <1>1, <2>4, FS_Subset
  <2>6. QED
    BY <1>1, <2>1, <2>2, <2>3, <2>4, <2>5
<1>3. CASE reason # "PARTIAL_EXIT"
  <2>1. RungOf(q, reason) = {} /\ Cardinality({}) = 0
    BY <1>3, FS_EmptySet DEF RungOf
  <2>2. Cardinality(trade.taken) <= Cardinality(RTargets)
    BY <1>1, FS_Subset
  <2>3. QED
    BY <1>1, <2>1, <2>2
<1>4. QED
  BY <1>2, <1>3

(* Booking a leg keeps types, the replay of the log, the sums over the     *)
(* legs and the count of the rungs.                                        *)
LEMMA BookLegKeeps ==
  ASSUME IInv, Open,
         NEW q, NEW reason, NEW filled, NEW price,
         Leg(q, reason, filled, price), BookLeg(q, reason, filled, price)
  PROVE  /\ trade' \in TradeType /\ log' \in LogType
         /\ fills' \in [qty : 0..EntryQty, value : Int]
         /\ LogReplaysToRow' /\ LegsAddUp' /\ RungsCounted'
<1>1. /\ trade \in TradeType /\ log \in LogType
      /\ fills \in [qty : 0..EntryQty, value : Int]
      /\ filled \in 1..trade.qty /\ price \in Nat \ {0} /\ reason \in Reasons
      /\ EntryQty \in Nat \ {0} /\ LotSize \in Nat \ {0}
      /\ EntryFeePerLot \in Nat /\ ExitFeePerLot \in Nat /\ AvgEntry \in Nat
  BY TradeAssumption, LevelsAssumption DEF IInv, TypeOK, Leg
<1>2. trade.qty \in 1..EntryQty /\ fills.qty = EntryQty - trade.qty
      /\ log.sold = fills.qty /\ log.closed = 0
  BY <1>1 DEF IInv, LogReplaysToRow, TradeType
<1>3. BestMark(q) \in Nat /\ LegRead \in {0, 1}
  BY <1>1, PositionFacts DEF Leg, LegRead, TradeType, LogType
<1>4. EntryFees(filled) = EntryFeePerLot * filled
  BY <1>1, <1>2, FeeShare DEF EntryFees, IInv, LegsAddUp
<1> DEFINE value == price * filled * LotSize
           cost  == AvgEntry * filled * LotSize
           more  == log.rungs + Cardinality(RungOf(q, reason))
<1>5. value \in Int /\ cost \in Int /\ EntryFeePerLot * filled \in Int
      /\ ExitFeePerLot * filled \in Int
  BY <1>1
<1>6. /\ trade.taken \cup RungOf(q, reason) \in SUBSET RTargets
      /\ more = Cardinality(trade.taken \cup RungOf(q, reason))
      /\ more \in Nat /\ more <= Cardinality(RTargets)
  BY RungStep
<1> DEFINE done == trade.qty - filled <= 0
           row  == [qty |-> trade.qty - filled, stop |-> trade.stop,
                    hwm |-> BestMark(q), taken |-> TakenAfter(q, reason, filled),
                    closed |-> IF done THEN reason ELSE "no", leg |-> LegRead,
                    premium |-> trade.premium - cost,
                    gross |-> trade.gross + value - cost,
                    net |-> trade.net + value - cost - EntryFees(filled)
                              - ExitFeePerLot * filled,
                    fees |-> trade.fees + ExitFeePerLot * filled,
                    fees_left |-> trade.fees_left - EntryFees(filled),
                    cum_qty |-> trade.cum_qty + filled,
                    cum_value |-> trade.cum_value + value]
<1>a. /\ trade' = row
      /\ log' = [log EXCEPT !.sold = log.sold + filled, !.value = log.value + value,
                            !.closed = IF done THEN log.closed + 1 ELSE log.closed,
                            !.rungs = more]
      /\ fills' = [qty |-> fills.qty + filled, value |-> fills.value + value]
  BY Zenon DEF BookLeg
<1>b. done <=> trade.qty = filled
  BY <1>1, <1>2
<1> HIDE DEF done, value, cost, more
<1>7. /\ trade'.qty = trade.qty - filled /\ trade'.stop = trade.stop
      /\ trade'.hwm = BestMark(q) /\ trade'.leg = LegRead
      /\ trade'.taken = TakenAfter(q, reason, filled)
      /\ trade'.closed = IF trade.qty = filled THEN reason ELSE "no"
      /\ trade'.premium = trade.premium - cost
      /\ trade'.gross = trade.gross + value - cost
      /\ trade'.net = trade.net + value - cost - EntryFees(filled) - ExitFeePerLot * filled
      /\ trade'.fees = trade.fees + ExitFeePerLot * filled
      /\ trade'.fees_left = trade.fees_left - EntryFees(filled)
      /\ trade'.cum_qty = trade.cum_qty + filled
      /\ trade'.cum_value = trade.cum_value + value
  BY <1>a, <1>b
<1>8. /\ log' = [sold |-> log.sold + filled, value |-> log.value + value,
                  stop |-> log.stop, closed |-> IF trade.qty = filled THEN 1 ELSE 0,
                  rungs |-> more, leg |-> log.leg]
      /\ fills' = [qty |-> fills.qty + filled, value |-> fills.value + value]
  <2>1. (IF done THEN log.closed + 1 ELSE log.closed) = IF trade.qty = filled THEN 1 ELSE 0
    BY <1>2, <1>b
  <2>2. log = [sold |-> log.sold, value |-> log.value, stop |-> log.stop,
               closed |-> log.closed, rungs |-> log.rungs, leg |-> log.leg]
    BY <1>1 DEF LogType
  <2>3. QED
    BY <1>a, <2>1, <2>2
<1>9. trade' \in TradeType
  <2>1. TakenAfter(q, reason, filled) \in SUBSET RTargets
    BY <1>1, <1>6 DEF TakenAfter, TradeType
  <2>2. trade' = [qty |-> trade'.qty, stop |-> trade'.stop, hwm |-> trade'.hwm,
                  taken |-> trade'.taken, closed |-> trade'.closed, leg |-> trade'.leg,
                  premium |-> trade'.premium, gross |-> trade'.gross,
                  net |-> trade'.net, fees |-> trade'.fees,
                  fees_left |-> trade'.fees_left, cum_qty |-> trade'.cum_qty,
                  cum_value |-> trade'.cum_value]
    BY <1>a
  <2>3. trade.cum_qty = fills.qty
    BY DEF IInv, LegsAddUp
  <2>4. QED
    BY <1>1, <1>2, <1>3, <1>4, <1>5, <1>7, <2>1, <2>2, <2>3 DEF TradeType
<1>10. log' \in LogType /\ fills' \in [qty : 0..EntryQty, value : Int]
  BY <1>1, <1>2, <1>5, <1>6, <1>8 DEF LogType
<1>11. LogReplaysToRow'
  <2>1. Open' <=> trade.qty # filled
    BY <1>1, <1>7 DEF Open, Reasons
  <2>2. log.value = fills.value /\ log.stop = trade.stop
    BY DEF IInv, LogReplaysToRow
  <2>3. log'.sold = EntryQty - trade'.qty /\ log'.sold = fills'.qty
    BY <1>1, <1>2, <1>7, <1>8
  <2>4. log'.value = fills'.value /\ log'.stop = trade'.stop
    BY <1>7, <1>8, <2>2
  <2>5. log'.closed = IF Open' THEN 0 ELSE 1
    BY <1>8, <2>1
  <2>6. Open' <=> trade'.qty > 0
    BY <1>1, <1>2, <1>7, <2>1
  <2>7. QED
    BY <2>3, <2>4, <2>5, <2>6 DEF LogReplaysToRow
<1>12. LegsAddUp'
  <2>1. fills'.qty = fills.qty + filled /\ fills'.value = fills.value + value
    BY <1>8
  <2>2. /\ AvgEntry * (trade.qty - filled) * LotSize = AvgEntry * trade.qty * LotSize - cost
        /\ AvgEntry * (fills.qty + filled) * LotSize = AvgEntry * fills.qty * LotSize + cost
        /\ EntryFeePerLot * (trade.qty - filled)
             = EntryFeePerLot * trade.qty - EntryFeePerLot * filled
        /\ ExitFeePerLot * (fills.qty + filled)
             = ExitFeePerLot * fills.qty + ExitFeePerLot * filled
        /\ (EntryFeePerLot + ExitFeePerLot) * (fills.qty + filled)
             = (EntryFeePerLot + ExitFeePerLot) * fills.qty
               + EntryFeePerLot * filled + ExitFeePerLot * filled
    BY <1>1, <1>2, ShareOf DEF cost
  <2>3. /\ AvgEntry * trade.qty * LotSize \in Int /\ AvgEntry * fills.qty * LotSize \in Int
        /\ EntryFeePerLot * trade.qty \in Int /\ ExitFeePerLot * fills.qty \in Int
        /\ (EntryFeePerLot + ExitFeePerLot) * fills.qty \in Int
        /\ EntryFeePerLot * EntryQty \in Int
    BY <1>1, <1>2
  <2>4. /\ trade.premium = AvgEntry * trade.qty * LotSize
        /\ trade.fees_left = EntryFeePerLot * trade.qty
        /\ trade.gross = fills.value - AvgEntry * fills.qty * LotSize
        /\ trade.net = trade.gross - (EntryFeePerLot + ExitFeePerLot) * fills.qty
        /\ trade.fees = EntryFeePerLot * EntryQty + ExitFeePerLot * fills.qty
        /\ trade.cum_qty = fills.qty /\ trade.cum_value = fills.value
    BY DEF IInv, LegsAddUp
  <2>5. fills.value \in Int /\ trade.gross \in Int
    BY <1>1 DEF TradeType
  <2>6. /\ trade'.premium = AvgEntry * trade'.qty * LotSize
        /\ trade'.fees_left = EntryFeePerLot * trade'.qty
    BY <1>4, <1>5, <1>7, <2>2, <2>3, <2>4
  <2>7. trade'.gross = fills'.value - AvgEntry * fills'.qty * LotSize
    BY <1>5, <1>7, <2>1, <2>2, <2>3, <2>4, <2>5
  <2>8. trade'.net = trade'.gross - (EntryFeePerLot + ExitFeePerLot) * fills'.qty
    BY <1>4, <1>5, <1>7, <2>1, <2>2, <2>3, <2>4, <2>5
  <2>9. /\ trade'.fees = EntryFeePerLot * EntryQty + ExitFeePerLot * fills'.qty
        /\ trade'.cum_qty = fills'.qty /\ trade'.cum_value = fills'.value
    BY <1>5, <1>7, <2>1, <2>2, <2>3, <2>4
  <2>10. QED
    BY <2>6, <2>7, <2>8, <2>9 DEF LegsAddUp
<1>13. RungsCounted'
  <2>1. log'.rungs = more
    BY <1>1, <1>8 DEF LogType
  <2>2. trade.qty # filled => trade'.taken = trade.taken \cup RungOf(q, reason)
    BY <1>1, <1>7 DEF TakenAfter
  <2>3. Open' => trade.qty # filled
    BY <1>1, <1>7 DEF Open, Reasons
  <2>4. QED
    BY <1>6, <2>1, <2>2, <2>3 DEF RungsCounted
<1>14. QED
  BY <1>9, <1>10, <1>11, <1>12, <1>13

-----------------------------------------------------------------------------
(* A step that sells nothing, and keeps the logged stop equal to the row's.*)
SameLegs ==
  /\ trade'.qty = trade.qty /\ trade'.closed = trade.closed
  /\ trade'.taken = trade.taken
  /\ trade'.premium = trade.premium /\ trade'.gross = trade.gross
  /\ trade'.net = trade.net /\ trade'.fees = trade.fees
  /\ trade'.fees_left = trade.fees_left
  /\ trade'.cum_qty = trade.cum_qty /\ trade'.cum_value = trade.cum_value
  /\ log'.sold = log.sold /\ log'.value = log.value
  /\ log'.closed = log.closed /\ log'.rungs = log.rungs
  /\ log'.stop = trade'.stop /\ fills' = fills

LEMMA SameLegsKeep ==
  ASSUME IInv, SameLegs
  PROVE  /\ LogReplaysToRow' /\ LegsAddUp' /\ RungsCounted'
         /\ Open' = Open
<1>1. Open' = Open
  BY DEF SameLegs, Open
<1>2. LogReplaysToRow'
  BY <1>1 DEF SameLegs, IInv, LogReplaysToRow
<1>3. LegsAddUp'
  BY DEF SameLegs, IInv, LegsAddUp
<1>4. RungsCounted'
  BY <1>1 DEF SameLegs, IInv, RungsCounted
<1>5. QED
  BY <1>1, <1>2, <1>3, <1>4

(* The trade as it was opened satisfies the invariant.                     *)
LEMMA InitIInv == Init => IInv
<1> SUFFICES ASSUME Init PROVE IInv
  OBVIOUS
<1> USE DEF Init
<1>1. /\ EntryQty \in Nat \ {0} /\ LotSize \in Nat \ {0} /\ AvgEntry \in Nat
      /\ InitialStop \in Nat /\ EntryFeePerLot \in Nat /\ ExitFeePerLot \in Nat
      /\ LastSlot \in Nat /\ IsFiniteSet(RTargets)
  BY TradeAssumption, LevelsAssumption, SlotsAssumption
<1>2. /\ AvgEntry * EntryQty * LotSize \in Int /\ EntryFeePerLot * EntryQty \in Int
      /\ AvgEntry * 0 * LotSize = 0 /\ (EntryFeePerLot + ExitFeePerLot) * 0 = 0
      /\ ExitFeePerLot * 0 = 0
  BY <1>1
<1>3. TypeOK
  BY <1>1, <1>2
  DEF TypeOK, TradeType, LogType, PendingType, LastType, OpenedTrade, EmptyLog,
      NoPending, NoTick
<1>4. LogReplaysToRow
  BY <1>1 DEF LogReplaysToRow, OpenedTrade, EmptyLog, Open
<1>5. LegsAddUp
  BY <1>1, <1>2 DEF LegsAddUp, OpenedTrade
<1>6. RungsCounted
  <2>1. Cardinality({}) = 0 /\ Cardinality(RTargets) \in Nat
    BY <1>1, FS_EmptySet, FS_CardinalityType
  <2>2. QED
    BY <2>1 DEF RungsCounted, OpenedTrade, EmptyLog
<1>7. QED
  BY <1>3, <1>4, <1>5, <1>6 DEF IInv, HalfWay

(* The outcome of no tick is typed.                                        *)
LEMMA NoTickType == NoTick \in LastType
  BY DEF NoTick, LastType

-----------------------------------------------------------------------------
(* The steps between the ticks, and the ones that end a tick without an    *)
(* order.                                                                  *)
LEMMA NoQuoteTickKeeps == IInv /\ NoQuoteTick => IInv'
<1> SUFFICES ASSUME IInv, NoQuoteTick PROVE IInv'
  OBVIOUS
<1>1. SameLegs
  BY DEF NoQuoteTick, SameLegs, IInv, LogReplaysToRow
<1>2. TypeOK'
  BY TradeAssumption
  DEF NoQuoteTick, Finished, env, clock, IInv, TypeOK, PendingType, LastType,
      NoPending
<1>3. HalfWay'
  BY DEF NoQuoteTick, Finished, HalfWay
<1>4. QED
  BY <1>1, <1>2, <1>3, SameLegsKeep DEF IInv

LEMMA RepointKeeps ==
  ASSUME IInv, NEW own, NEW sibling \in SiblingQuotes, Repoint(own, sibling)
  PROVE  IInv'
<1>1. log \in LogType /\ trade \in TradeType
  BY DEF IInv, TypeOK
<1>2. log' \in LogType /\ SameLegs
  BY <1>1 DEF Repoint, SameLegs, LogType, TradeType, IInv, LogReplaysToRow
<1>3. sibling \in QuoteType /\ sibling # NoQuote
  BY QuotesAssumption, NoQuoteIsNoQuote
<1>4. pending' \in PendingType /\ pending'.quote = sibling
  BY TradeAssumption DEF Repoint, NoPending, PendingType
<1>5. TypeOK'
  BY <1>2, <1>3, <1>4, NoTickType DEF Repoint, env, clock, IInv, TypeOK
<1>6. HalfWay'
  BY <1>4 DEF Repoint, HalfWay, Open
<1>7. QED
  BY <1>2, <1>5, <1>6, SameLegsKeep DEF IInv

LEMMA InterruptKeeps == IInv /\ Interrupt => IInv'
<1> SUFFICES ASSUME IInv, Interrupt PROVE IInv'
  OBVIOUS
<1>1. SameLegs
  BY DEF Interrupt, SameLegs, IInv, LogReplaysToRow
<1>2. TypeOK'
  BY TradeAssumption, NoTickType DEF Interrupt, env, clock, IInv, TypeOK, PendingType, NoPending
<1>3. HalfWay'
  BY DEF Interrupt, HalfWay
<1>4. QED
  BY <1>1, <1>2, <1>3, SameLegsKeep DEF IInv

LEMMA PassTimeKeeps == IInv /\ PassTime => IInv'
<1> SUFFICES ASSUME IInv, PassTime PROVE IInv'
  OBVIOUS
<1>1. SameLegs
  BY DEF PassTime, SameLegs, IInv, LogReplaysToRow
<1>2. TypeOK'
  BY SlotsAssumption, NoTickType DEF PassTime, env, IInv, TypeOK
<1>3. HalfWay'
  BY DEF PassTime, HalfWay
<1>4. QED
  BY <1>1, <1>2, <1>3, SameLegsKeep DEF IInv

LEMMA UnchangedKeeps == IInv /\ UNCHANGED vars => IInv'
<1> SUFFICES ASSUME IInv, UNCHANGED vars PROVE IInv'
  OBVIOUS
<1>1. SameLegs
  BY DEF vars, SameLegs, IInv, LogReplaysToRow
<1>2. TypeOK' /\ HalfWay'
  BY DEF vars, IInv, TypeOK, HalfWay, Open
<1>3. QED
  BY <1>1, <1>2, SameLegsKeep DEF IInv

(* What ends a tick leaves it typed and not half way.                      *)
LEMMA FinishedKeeps ==
  ASSUME IInv, NEW q, NEW reason \in Reasons \cup {"none"},
         NEW result \in {"none", "no_quote", "hold", "ratchet", "failed", "filled"},
         Finished(q, reason, result)
  PROVE  /\ pc' = "idle" /\ pending' \in PendingType /\ last' \in LastType
         /\ HalfWay'
<1>1. pending' \in PendingType
  BY TradeAssumption DEF Finished, NoPending, PendingType
<1>2. QED
  BY <1>1 DEF Finished, LastType, HalfWay

(* The mark a tick writes is a mark.                                       *)
LEMMA MarkedType ==
  ASSUME IInv, NEW q \in QuoteType, Marked(q)
  PROVE  marks' \in Nat
  BY DEF IInv, TypeOK, Marked, Larger, QuoteType

LEMMA LegReadType == IInv => LegRead \in {0, 1}
  BY DEF IInv, TypeOK, LegRead, TradeType, LogType

-----------------------------------------------------------------------------
(* The ticks that end without a leg.                                       *)
LEMMA NoActionKeeps ==
  ASSUME IInv, NEW q, NEW d, NoAction(q, d)
  PROVE  IInv'
<1>1. q \in QuoteType
  BY ReadsQuote DEF NoAction
<1>2. BestMark(q) \in Nat /\ LegRead \in {0, 1} /\ marks' \in Nat
  BY <1>1, PositionFacts, LegReadType, MarkedType DEF NoAction
<1>3. trade \in TradeType
  BY DEF IInv, TypeOK
<1>4. trade' \in TradeType /\ SameLegs
  BY <1>2, <1>3 DEF NoAction, TradeType, SameLegs, IInv, LogReplaysToRow
<1>5. pc' = "idle" /\ pending' \in PendingType /\ last' \in LastType /\ HalfWay'
  BY FinishedKeeps DEF NoAction
<1>6. TypeOK'
  BY <1>2, <1>4, <1>5 DEF NoAction, env, clock, IInv, TypeOK
<1>7. QED
  BY <1>4, <1>5, <1>6, SameLegsKeep DEF IInv

LEMMA MoveStopKeeps ==
  ASSUME IInv, NEW q, NEW d, MoveStop(q, d)
  PROVE  IInv'
<1>1. q \in QuoteType
  BY ReadsQuote DEF MoveStop
<1>2. /\ BestMark(q) \in Nat /\ LegRead \in {0, 1} /\ marks' \in Nat
      /\ EffectiveStop(Position(q)) \in Nat
  BY <1>1, PositionFacts, LegReadType, MarkedType DEF MoveStop
<1>3. trade \in TradeType /\ log \in LogType
  BY DEF IInv, TypeOK
<1>4. trade' \in TradeType /\ log' \in LogType /\ SameLegs
  BY <1>2, <1>3 DEF MoveStop, TradeType, LogType, SameLegs
<1>5. pc' = "idle" /\ pending' \in PendingType /\ last' \in LastType /\ HalfWay'
  BY FinishedKeeps DEF MoveStop
<1>6. TypeOK'
  BY <1>2, <1>4, <1>5 DEF MoveStop, env, clock, IInv, TypeOK
<1>7. QED
  BY <1>4, <1>5, <1>6, SameLegsKeep DEF IInv

LEMMA FailExitKeeps ==
  ASSUME IInv, NEW q, NEW d, Reads(q), d = Decision(q), d.qty > 0, FailExit(q, d)
  PROVE  IInv'
<1>1. q \in QuoteType /\ d.reason \in Reasons
  BY ReadsQuote, OrderFacts
<1>2. LegRead \in {0, 1} /\ marks' \in Nat
  BY <1>1, LegReadType, MarkedType DEF FailExit
<1>3. trade \in TradeType
  BY DEF IInv, TypeOK
<1>4. trade' \in TradeType /\ SameLegs
  BY <1>2, <1>3 DEF FailExit, TradeType, SameLegs, IInv, LogReplaysToRow
<1>5. pc' = "idle" /\ pending' \in PendingType /\ last' \in LastType /\ HalfWay'
  BY <1>1, FinishedKeeps DEF FailExit
<1>6. TypeOK'
  BY <1>2, <1>4, <1>5 DEF FailExit, env, clock, IInv, TypeOK
<1>7. QED
  BY <1>4, <1>5, <1>6, SameLegsKeep DEF IInv

-----------------------------------------------------------------------------
(* The ticks that sell.                                                    *)
LEMMA FillExitLeg ==
  ASSUME IInv, NEW q, NEW d, d = Decision(q), FillExit(q, d)
  PROVE  LET got == Request(d, ExitQuote(market, q))
         IN  Open /\ Leg(q, d.reason, got.filled, got.price)
<1> DEFINE exit_book == ExitQuote(market, q)
           got       == Request(d, exit_book)
<1>1. Reads(q) /\ d.qty > 0 /\ got.filled > 0
  BY DEF FillExit
<1>2. q \in QuoteType /\ Open /\ trade.qty \in Nat \ {0}
  BY <1>1, ReadsQuote
<1>3. /\ d.qty \in 1..trade.qty /\ d.reason \in Reasons
      /\ d.reason = "PARTIAL_EXIT" => RungTaken(Position(q)) \in RTargets \ trade.taken
  BY <1>1, OrderFacts
<1>4. got.filled \in 1..trade.qty /\ got.price \in Nat \ {0}
  <2>1. exit_book \in Books /\ d.qty \in Nat
    BY <1>2, <1>3, BookType
  <2>2. got.filled \in 0..d.qty /\ got.price \in Nat /\ (got.filled > 0 => got.price > 0)
    BY <2>1, RequestFacts
  <2>3. QED
    BY <1>1, <1>2, <1>3, <2>2
<1>5. QED
  BY <1>2, <1>3, <1>4 DEF Leg

LEMMA FillExitKeeps ==
  ASSUME IInv, NEW q, NEW d, d = Decision(q), FillExit(q, d)
  PROVE  IInv'
<1> DEFINE got == Request(d, ExitQuote(market, q))
<1>1. /\ Reads(q) /\ BookLeg(q, d.reason, got.filled, got.price)
      /\ Marked(q) /\ Finished(q, d.reason, "filled")
      /\ UNCHANGED <<env, clock>>
  BY DEF FillExit
<1>2. Open /\ Leg(q, d.reason, got.filled, got.price)
  BY FillExitLeg
<1> HIDE DEF got
<1>3. /\ trade' \in TradeType /\ log' \in LogType
      /\ fills' \in [qty : 0..EntryQty, value : Int]
      /\ LogReplaysToRow' /\ LegsAddUp' /\ RungsCounted'
  BY <1>1, <1>2, BookLegKeeps
<1>4. pc' = "idle" /\ pending' \in PendingType /\ last' \in LastType /\ HalfWay'
  BY <1>1, <1>2, FinishedKeeps DEF Leg
<1>5. marks' \in Nat
  BY <1>1, <1>2, MarkedType DEF Leg
<1>6. TypeOK'
  BY <1>1, <1>3, <1>4, <1>5 DEF env, clock, IInv, TypeOK
<1>7. QED
  BY <1>3, <1>4, <1>6 DEF IInv

LEMMA ForceExitKeeps ==
  ASSUME IInv, NEW q, NEW d, d = Decision(q), ForceExit(q, d)
  PROVE  IInv'
<1> DEFINE exit_book == ExitQuote(market, q)
           got       == Request(d, ForcedExitQuote(exit_book, d.qty))
<1>1. /\ Reads(q) /\ d.qty > 0 /\ got.filled > 0 /\ d.reason \in MandatoryExits
      /\ trade' = [trade EXCEPT !.leg = LegRead] /\ Marked(q) /\ pc' = "forced"
      /\ pending' = [quote |-> q, reason |-> d.reason, asked |-> d.qty,
                     filled |-> got.filled, price |-> got.price]
      /\ last' = NoTick /\ UNCHANGED <<env, clock, log, fills>>
  BY DEF ForceExit
<1>2. /\ q \in QuoteType /\ q \in OwnQuotes \cup SiblingQuotes
      /\ Open /\ trade.qty \in Nat \ {0}
  BY <1>1, ReadsQuote
<1>3. d.qty \in 1..trade.qty /\ d.reason \in Reasons
  BY <1>1, OrderFacts
<1>4. got.filled \in 1..trade.qty /\ got.price \in Nat \ {0}
  <2>1. exit_book \in Books /\ d.qty \in Nat
    BY <1>2, <1>3, BookType
  <2>2. ForcedExitQuote(exit_book, d.qty) \in Books
    BY <2>1, ForcedBookType
  <2>3. got.filled \in 0..d.qty /\ got.price \in Nat /\ (got.filled > 0 => got.price > 0)
    BY <2>1, <2>2, RequestFacts
  <2>4. QED
    BY <1>1, <1>2, <1>3, <2>3
<1> HIDE DEF exit_book, got
<1>5. trade \in TradeType /\ LegRead \in {0, 1} /\ marks' \in Nat
  BY <1>1, <1>2, LegReadType, MarkedType DEF IInv, TypeOK
<1>6. trade' \in TradeType /\ trade'.qty = trade.qty /\ SameLegs
  BY <1>1, <1>5 DEF TradeType, SameLegs, IInv, LogReplaysToRow
<1>7. pending' \in PendingType
  <2>1. got.filled \in 0..EntryQty /\ d.qty \in 0..EntryQty /\ got.price \in Int
    BY <1>3, <1>4, <1>5, TradeAssumption DEF TradeType
  <2>2. QED
    BY <1>1, <1>2, <1>3, <2>1 DEF PendingType
<1>8. HalfWay'
  BY <1>1, <1>2, <1>4, <1>6, SameLegsKeep DEF HalfWay
<1>9. q # NoQuote
  BY <1>2, NoQuoteIsNoQuote
<1>10. TypeOK'
  BY <1>1, <1>4, <1>5, <1>6, <1>7, <1>9, NoTickType DEF env, clock, IInv, TypeOK
<1>11. QED
  BY <1>6, <1>8, <1>10, SameLegsKeep DEF IInv

LEMMA FinishForcedLeg ==
  ASSUME IInv, FinishForced
  PROVE  /\ Open
         /\ Leg(pending.quote, pending.reason, pending.filled, pending.price)
<1>1. /\ Open /\ pending.quote \in OwnQuotes \cup SiblingQuotes
      /\ pending.reason \in MandatoryExits
      /\ pending.filled \in 1..trade.qty /\ pending.price \in Nat \ {0}
  BY DEF FinishForced, IInv, HalfWay
<1>2. pending.quote \in QuoteType
  BY <1>1, QuotesAssumption
<1>3. QED
  BY <1>1, <1>2 DEF Leg, MandatoryExits, Reasons

LEMMA FinishForcedKeeps == IInv /\ FinishForced => IInv'
<1> SUFFICES ASSUME IInv, FinishForced PROVE IInv'
  OBVIOUS
<1> DEFINE q == pending.quote
<1>1. /\ BookLeg(q, pending.reason, pending.filled, pending.price)
      /\ Finished(q, pending.reason, "filled")
      /\ UNCHANGED <<env, clock, marks>> /\ pc = "forced"
  BY DEF FinishForced
<1>2. Open /\ Leg(q, pending.reason, pending.filled, pending.price)
  BY FinishForcedLeg
<1>3. /\ trade' \in TradeType /\ log' \in LogType
      /\ fills' \in [qty : 0..EntryQty, value : Int]
      /\ LogReplaysToRow' /\ LegsAddUp' /\ RungsCounted'
  BY <1>1, <1>2, BookLegKeeps
<1>4. pc' = "idle" /\ pending' \in PendingType /\ last' \in LastType /\ HalfWay'
  BY <1>1, <1>2, FinishedKeeps DEF Leg
<1>5. TypeOK'
  BY <1>1, <1>3, <1>4 DEF env, clock, IInv, TypeOK
<1>6. QED
  BY <1>3, <1>4, <1>5 DEF IInv

-----------------------------------------------------------------------------
(* One monitoring pass, and then every step, keeps the invariant.          *)
LEMMA MonitorKeeps ==
  ASSUME IInv, NEW q, Monitor(q)
  PROVE  IInv'
<1> DEFINE d == Decision(q)
<1> HIDE DEF d
<1>1. d = Decision(q)
  BY DEF d
<1>2. \/ NoAction(q, d) \/ MoveStop(q, d) \/ NoBookToExitOn(q, d)
      \/ FillRefused(q, d) \/ FillExit(q, d) \/ ForceExit(q, d)
  BY DEF Monitor, d
<1>3. CASE NoAction(q, d)
  BY <1>3, NoActionKeeps
<1>4. CASE MoveStop(q, d)
  BY <1>4, MoveStopKeeps
<1>5. CASE NoBookToExitOn(q, d) \/ FillRefused(q, d)
  BY <1>1, <1>5, FailExitKeeps DEF NoBookToExitOn, FillRefused
<1>6. CASE FillExit(q, d)
  BY <1>1, <1>6, FillExitKeeps
<1>7. CASE ForceExit(q, d)
  BY <1>1, <1>7, ForceExitKeeps
<1>8. QED
  BY <1>2, <1>3, <1>4, <1>5, <1>6, <1>7

LEMMA StepIInv == IInv /\ [Next]_vars => IInv'
<1> SUFFICES ASSUME IInv, [Next]_vars PROVE IInv'
  OBVIOUS
<1>1. CASE NoQuoteTick
  BY <1>1, NoQuoteTickKeeps
<1>2. ASSUME NEW own, NEW sibling \in SiblingQuotes, Repoint(own, sibling)
      PROVE  IInv'
  BY <1>2, RepointKeeps
<1>3. ASSUME NEW q, Monitor(q) PROVE IInv'
  BY <1>3, MonitorKeeps
<1>4. CASE FinishForced
  BY <1>4, FinishForcedKeeps
<1>5. CASE Interrupt
  BY <1>5, InterruptKeeps
<1>6. CASE PassTime
  BY <1>6, PassTimeKeeps
<1>7. CASE Closed \/ UNCHANGED vars
  BY <1>7, UnchangedKeeps DEF Closed
<1>8. QED
  BY <1>1, <1>2, <1>3, <1>4, <1>5, <1>6, <1>7 DEF Next

LEMMA Inductive == Spec => []IInv
  BY InitIInv, StepIInv, PTL DEF Spec

-----------------------------------------------------------------------------
(* Every variable keeps its type, for every instance.                      *)
THEOREM TypeCorrect == Spec => []TypeOK
<1>1. IInv => TypeOK
  BY DEF IInv
<1>2. QED
  BY <1>1, Inductive, PTL

(* The event log replays to the row and to the fills after every commit of *)
(* run_exit_tick, whatever is lost between two of them.                    *)
THEOREM LogIsTheRow == Spec => []LogReplaysToRow
<1>1. IInv => LogReplaysToRow
  BY DEF IInv
<1>2. QED
  BY <1>1, Inductive, PTL

(* The P&L, the cost and the fees of any sequence of partial legs are      *)
(* those of one exit at the average price, for every entry, size and fee.  *)
THEOREM LegsSum == Spec => []LegsAddUp
<1>1. IInv => LegsAddUp
  BY DEF IInv
<1>2. QED
  BY <1>1, Inductive, PTL

(* No R rung is exited twice, for any set of targets.                      *)
THEOREM NoRungTwice == Spec => []RungsOnce
<1>1. IInv => RungsOnce
  BY DEF IInv, RungsCounted, RungsOnce
<1>2. QED
  BY <1>1, Inductive, PTL

-----------------------------------------------------------------------------
(* A tick that goes on with q and does not hold or ratchet has an order to *)
(* execute; one that does has seen the mark above the row's level.         *)
LEMMA CarriesOnUnbreached ==
  ASSUME IInv, NEW q, Reads(q), Decision(q) \in {Hold, Ratchet}
  PROVE  ~(q.mark <= RowLevel)
<1>1. q \in QuoteType /\ trade.qty \in Nat \ {0}
  BY ReadsQuote
<1>2. /\ Position(q).qty = trade.qty /\ Position(q).mark = q.mark
      /\ EffectiveStop(Position(q)) \in Nat /\ RowLevel \in Nat
      /\ EffectiveStop(Position(q)) >= RowLevel
  BY <1>1, PositionFacts
<1>3. ~(Position(q).mark <= EffectiveStop(Position(q)))
  BY <1>1, <1>2, BreachFires DEF Decision
<1>4. QED
  BY <1>1, <1>2, <1>3 DEF QuoteType

(* How a step ends a tick: without a quote, by carrying on, or with an     *)
(* order it filled or failed, which a forced exit had decided before.      *)
LEMMA TickOutcomes ==
  ASSUME IInv, [Next]_vars, last' # last, last'.result \notin {"none", "no_quote"}
  PROVE  \/ \E q : /\ Reads(q) /\ Decision(q) \in {Hold, Ratchet}
                   /\ last'.breached = (q # NoQuote /\ q.mark <= RowLevel)
         \/ \E q : /\ Reads(q) /\ Decision(q).qty > 0
                   /\ last'.reason = Decision(q).reason
                   /\ last'.result \in {"filled", "failed"}
         \/ /\ pc = "forced" /\ last'.reason = pending.reason
            /\ last'.result = "filled"
<1>1. CASE NoQuoteTick
  BY <1>1 DEF NoQuoteTick, Finished
<1>2. ASSUME NEW own, NEW sibling, Repoint(own, sibling) PROVE FALSE
  BY <1>2 DEF Repoint, NoTick
<1>3. ASSUME NEW q, Monitor(q)
      PROVE  \/ /\ Reads(q) /\ Decision(q) \in {Hold, Ratchet}
                /\ last'.breached = (q # NoQuote /\ q.mark <= RowLevel)
             \/ /\ Reads(q) /\ Decision(q).qty > 0
                /\ last'.reason = Decision(q).reason
                /\ last'.result \in {"filled", "failed"}
  <2> DEFINE d == Decision(q)
  <2>1. CASE NoAction(q, d) \/ MoveStop(q, d)
    <3>1. Reads(q) /\ d \in {Hold, Ratchet}
      BY <2>1 DEF NoAction, MoveStop
    <3>2. \/ Finished(q, "none", "hold") \/ Finished(q, "none", "ratchet")
      BY <2>1 DEF NoAction, MoveStop
    <3>3. last'.breached = (q # NoQuote /\ q.mark <= RowLevel)
      BY <3>2 DEF Finished
    <3>4. QED
      BY <3>1, <3>3
  <2>2. CASE NoBookToExitOn(q, d) \/ FillRefused(q, d)
    <3>1. Reads(q) /\ d.qty > 0 /\ Finished(q, d.reason, "failed")
      BY <2>2 DEF NoBookToExitOn, FillRefused, FailExit
    <3>2. QED
      BY <3>1 DEF Finished
  <2>3. CASE FillExit(q, d)
    <3>1. Reads(q) /\ d.qty > 0 /\ Finished(q, d.reason, "filled")
      BY <2>3 DEF FillExit
    <3>2. QED
      BY <3>1 DEF Finished
  <2>4. CASE ForceExit(q, d)
    BY <2>4 DEF ForceExit, NoTick
  <2>5. QED
    BY <1>3, <2>1, <2>2, <2>3, <2>4 DEF Monitor
<1>4. CASE FinishForced
  BY <1>4 DEF FinishForced, Finished
<1>5. CASE Interrupt \/ PassTime \/ Closed \/ UNCHANGED vars
  BY <1>5 DEF Interrupt, PassTime, Closed, NoTick, vars
<1>6. QED
  BY <1>1, <1>2, <1>3, <1>4, <1>5 DEF Next

(* A tick that sees the mark at or below the level of the stored row sells *)
(* or logs that it could not, for every ladder of levels and every quote.  *)
THEOREM BreachesAreActedOn == Spec => NoSilentBreach
<1>1. IInv /\ [Next]_vars =>
        (TickEnds /\ last'.breached => last'.result \in {"filled", "failed"})
  <2> SUFFICES ASSUME IInv, [Next]_vars, TickEnds, last'.breached
               PROVE  last'.result \in {"filled", "failed"}
    OBVIOUS
  <2>1. ASSUME NEW q, Reads(q), Decision(q) \in {Hold, Ratchet},
               last'.breached = (q # NoQuote /\ q.mark <= RowLevel)
        PROVE  FALSE
    BY <2>1, CarriesOnUnbreached
  <2>2. QED
    BY <2>1, TickOutcomes DEF TickEnds
<1>2. QED
  BY <1>1, Inductive, PTL DEF Spec, NoSilentBreach

(* Once an exit is due by the clock, the first check that fires is a stop  *)
(* or a mandatory exit.                                                    *)
LEMMA DueDecision ==
  ASSUME IInv, NEW q, Reads(q), Due
  PROVE  Decision(q).qty > 0 /\ Decision(q).reason \in Stops \cup MandatoryExits
<1>1. q \in QuoteType /\ trade.qty \in Nat \ {0} /\ Position(q).qty = trade.qty
  BY ReadsQuote, PositionFacts
<1>2. /\ Position(q).day = day /\ Position(q).slot = slot
      /\ Position(q).expires = expires
  BY DEF Position
<1>3. /\ Decision(q).qty \in 1..trade.qty
      /\ Decision(q).reason \in {"BREAKEVEN_STOP", "TRAILING_STOP", "STOP_LOSS",
                                 "OVERNIGHT_EXIT", "EOD_EXIT", "EXPIRY_EXIT"}
  BY <1>1, <1>2, DueExits DEF Decision, Due
<1>4. QED
  BY <1>1, <1>3 DEF Stops, MandatoryExits

(* From the closing cushion on a tick ends by selling or failing to sell,  *)
(* under a stop or a mandatory reason, for every quote and calendar.       *)
THEOREM DueTicksOnlyExit == Spec => NothingButExitsWhenDue
<1>1. IInv /\ [Next]_vars =>
        (TickEnds /\ Due => /\ last'.result \in {"filled", "failed"}
                            /\ last'.reason \in Stops \cup MandatoryExits)
  <2> SUFFICES ASSUME IInv, [Next]_vars, TickEnds, Due
               PROVE  /\ last'.result \in {"filled", "failed"}
                      /\ last'.reason \in Stops \cup MandatoryExits
    OBVIOUS
  <2>1. ASSUME NEW q, Reads(q)
        PROVE  /\ Decision(q) \notin {Hold, Ratchet}
               /\ Decision(q).reason \in Stops \cup MandatoryExits
    BY <2>1, DueDecision DEF Hold, Ratchet
  <2>2. pc = "forced" => pending.reason \in MandatoryExits
    BY DEF IInv, HalfWay
  <2>3. QED
    BY <2>1, <2>2, TickOutcomes DEF TickEnds
<1>2. QED
  BY <1>1, Inductive, PTL DEF Spec, NothingButExitsWhenDue

-----------------------------------------------------------------------------
(* A mark above the row's level is above the level it sets itself as well: *)
(* the trail stays below the mark it follows, and the breakeven floor      *)
(* below the mark that arms it.                                            *)
LEMMA UnbreachedIsAbove ==
  ASSUME IInv, NEW q \in QuoteType, ~(q.mark <= RowLevel)
  PROVE  ~(Position(q).mark <= Position(q).stop)
         /\ ~(Position(q).mark <= EffectiveStop(Position(q)))
<1> DEFINE row == [stop |-> trade.stop, hwm |-> trade.hwm]
           p   == Position(q)
<1>1. /\ p.mark = q.mark /\ p.stop = trade.stop /\ p.hwm = BestMark(q)
      /\ p.stop \in Nat /\ p.hwm \in Nat /\ RowLevel \in Nat
      /\ q.mark \in Nat \ {0}
  BY PositionFacts DEF QuoteType
<1>2. row.stop = trade.stop /\ row.hwm = trade.hwm /\ RowLevel = EffectiveStop(row)
  BY DEF RowLevel
<1>3. trade.stop \in Nat /\ trade.hwm \in Nat
  BY DEF IInv, TypeOK, TradeType
<1>4. p.hwm = trade.hwm \/ p.hwm = q.mark
  BY <1>1 DEF BestMark, Larger
<1> HIDE DEF row, p
<1>5. /\ trade.stop <= RowLevel /\ TrailLevel(row) <= RowLevel
      /\ \A b \in BreakevenFloor(row) : b <= RowLevel
      /\ TrailLevel(row) \in Int
  <2>1. TrailLevel(row) = (trade.hwm * InitialStop) \div AvgEntry
    BY <1>2 DEF TrailLevel
  <2>2. TrailLevel(row) \in Int
    BY <1>3, <2>1, LevelsAssumption
  <2>3. QED
    BY <1>2, <1>3, <2>2, EffectiveStopFacts
<1>6. EffectiveStop(p) \in {p.stop, TrailLevel(p)} \cup BreakevenFloor(p)
  BY <1>1, EffectiveStopFacts
<1>7. TrailLevel(p) \in Int /\ TrailLevel(p) < q.mark
  <2>1. CASE p.hwm = trade.hwm
    <3>1. TrailLevel(p) = TrailLevel(row)
      BY <1>2, <2>1 DEF TrailLevel
    <3>2. QED
      BY <1>1, <1>5, <3>1
  <2>2. CASE p.hwm = q.mark
    <3>1. TrailLevel(p) = (q.mark * InitialStop) \div AvgEntry
      BY <2>2 DEF TrailLevel
    <3>2. /\ q.mark * InitialStop \in Nat
          /\ q.mark * InitialStop < q.mark * AvgEntry
          /\ q.mark * AvgEntry \in Nat
      BY <1>1, LevelsAssumption
    <3>3. \A n \in Nat, m \in Nat \ {0}, k \in Nat :
             n < k * m => n \div m \in Nat /\ n \div m < k
      OBVIOUS
    <3>4. QED
      BY <1>1, <3>1, <3>2, <3>3, LevelsAssumption
  <2>3. QED
    BY <1>4, <2>1, <2>2
<1>8. \A b \in BreakevenFloor(p) : b \in Nat /\ b < q.mark
  <2>1. CASE p.hwm = trade.hwm
    <3>1. BreakevenFloor(p) = BreakevenFloor(row)
      BY <1>2, <2>1 DEF BreakevenFloor
    <3>2. \A b \in BreakevenFloor(p) : b \in Nat
      BY LevelsAssumption DEF BreakevenFloor
    <3>3. QED
      BY <1>1, <1>5, <3>1, <3>2
  <2>2. CASE p.hwm = q.mark
    BY <1>1, <2>2, LevelsAssumption, FloorAssumption DEF BreakevenFloor
  <2>3. QED
    BY <1>4, <2>1, <2>2
<1>9. ~(p.mark <= p.stop) /\ ~(p.mark <= EffectiveStop(p))
  BY <1>1, <1>3, <1>5, <1>6, <1>7, <1>8
<1>10. QED
  BY <1>9 DEF p

(* On NSE any quote makes a book, with a price on its bid or its ask.      *)
LEMMA ObservedHasPrice ==
  ASSUME NEW q \in OwnQuotes \cup SiblingQuotes, NEW book, book = ExitQuote("NSE", q)
  PROVE  /\ book # NoBook /\ book \in Books
         /\ book.bid >= 2
<1>1. /\ q \in QuoteType /\ q.mark \in Nat \ {0} /\ q.bid \in Int /\ q.ask \in Int
      /\ q.mark \in {NoPrice, 0} \/ q.mark >= 2
      /\ q.bid \in {NoPrice, 0} \/ q.bid >= 2
  BY QuotesAssumption, UnitAssumption DEF QuoteType
<1>2. book = Observed(q, OrMark(q.bid, q), OrMark(q.ask, q))
  BY DEF ExitQuote
<1>3. book.bid = OrMark(q.bid, q)
  BY <1>2 DEF Observed
<1>4. book.bid >= 2
  BY <1>1, <1>3 DEF OrMark, NoPrice
<1>5. book # NoBook
  BY <1>4 DEF NoBook, NoPrice
<1>6. QED
  BY <1>1, <1>4, <1>5, BookType

(* The forced book takes at least a part of any order.                     *)
LEMMA ForcedBookFills ==
  ASSUME NEW book \in Books, book.bid >= 2, NEW d, d.qty \in Nat \ {0}
  PROVE  Request(d, ForcedExitQuote(book, d.qty)).filled > 0
<1> DEFINE forced == ForcedExitQuote(book, d.qty)
           price  == (95 * book.bid) \div 100
<1>1. book.bid \in Nat /\ price \in Nat /\ price > 0
  BY DEF Books
<1>2. /\ forced.bid = price /\ forced.ask = price /\ forced.bid_sz = 4 * d.qty
      /\ forced.age = 0 /\ forced.oi = 0
  <2>1. book.bid > 0 /\ Larger(d.qty, 1) = d.qty
    BY <1>1 DEF Larger
  <2>2. QED
    BY <2>1 DEF ForcedExitQuote
<1> HIDE DEF forced, price
<1>3. MaxFillable("SELL", forced) = d.qty
  BY <1>2 DEF MaxFillable, TopOfBook
<1>4. Smaller(d.qty, MaxFillable("SELL", forced)) = d.qty
  BY <1>3 DEF Smaller
<1>5. ~Rejected("SELL", d.qty, forced, MaxQuoteAge)
  BY <1>1, <1>2, <1>4, TradeAssumption DEF Rejected
<1>6. Request(d, forced).filled = d.qty
  BY <1>4, <1>5 DEF Request, ComputeFill
<1>7. QED
  BY <1>6 DEF forced

(* So a due tick that sees the leg above its level fails no order.         *)
LEMMA DueOrderFills ==
  ASSUME IInv, NEW q, Reads(q), NEW d, d = Decision(q), Due, market = "NSE",
         ~(q.mark <= RowLevel)
  PROVE  ~NoBookToExitOn(q, d) /\ ~FillRefused(q, d)
<1>1. /\ q \in QuoteType /\ q \in OwnQuotes \cup SiblingQuotes
      /\ trade.qty \in Nat \ {0} /\ Position(q).qty = trade.qty
  BY ReadsQuote, PositionFacts
<1>2. /\ Position(q).day = day /\ Position(q).slot = slot
      /\ Position(q).expires = expires
  BY DEF Position
<1>3. d.qty \in 1..trade.qty /\ d.reason \in MandatoryExits
  BY <1>1, <1>2, UnbreachedIsAbove, DueExits DEF Decision, Due, MandatoryExits
<1>4. /\ ExitQuote(market, q) # NoBook
      /\ Request(d, ForcedExitQuote(ExitQuote(market, q), d.qty)).filled > 0
  BY <1>1, <1>3, ObservedHasPrice, ForcedBookFills
<1>5. QED
  BY <1>3, <1>4 DEF NoBookToExitOn, FillRefused

(* A leg that is booked leaves fewer lots.                                 *)
LEMMA LegShrinks ==
  ASSUME IInv, NEW q, NEW reason, NEW filled, NEW price,
         Leg(q, reason, filled, price), BookLeg(q, reason, filled, price)
  PROVE  trade'.qty < trade.qty
<1>1. trade.qty \in Nat /\ filled \in 1..trade.qty
  BY TradeAssumption DEF IInv, TypeOK, TradeType, Leg
<1>2. trade'.qty = trade.qty - filled
  BY Zenon DEF BookLeg
<1>3. QED
  BY <1>1, <1>2

(* On NSE a tick that is due, and sees the leg above its level, sells: the *)
(* forced book is there for every quote, and takes every mandatory order.  *)
THEOREM DueTicksSell == Spec => DueTickSells
<1>1. ASSUME IInv, [Next]_vars, TickEnds, Due, market = "NSE", ~last'.breached
      PROVE  trade'.qty < trade.qty
  <2>1. CASE NoQuoteTick
    BY <1>1, <2>1 DEF NoQuoteTick, Finished, TickEnds
  <2>2. ASSUME NEW own, NEW sibling, Repoint(own, sibling) PROVE FALSE
    BY <1>1, <2>2 DEF Repoint, NoTick, TickEnds
  <2>3. ASSUME NEW q, Monitor(q) PROVE trade'.qty < trade.qty
    <3> DEFINE d   == Decision(q)
               got == Request(d, ExitQuote(market, q))
    <3>1. CASE NoAction(q, d) \/ MoveStop(q, d)
      <4>1. Reads(q) /\ d \in {Hold, Ratchet}
        BY <3>1 DEF NoAction, MoveStop
      <4>2. QED
        BY <1>1, <4>1, DueDecision DEF Hold, Ratchet
    <3>2. CASE NoBookToExitOn(q, d) \/ FillRefused(q, d)
      <4>1. Reads(q) /\ Finished(q, d.reason, "failed")
        BY <3>2 DEF NoBookToExitOn, FillRefused, FailExit
      <4>2. q \in QuoteType
        BY <1>1, <4>1, ReadsQuote
      <4>3. ~(q.mark <= RowLevel)
        BY <1>1, <4>1, <4>2, NoQuoteIsNoQuote DEF Finished
      <4>4. QED
        BY <1>1, <3>2, <4>1, <4>3, DueOrderFills
    <3>3. CASE FillExit(q, d)
      <4>1. BookLeg(q, d.reason, got.filled, got.price)
        BY <3>3 DEF FillExit
      <4>2. Leg(q, d.reason, got.filled, got.price)
        BY <1>1, <3>3, FillExitLeg
      <4>3. QED
        BY <1>1, <4>1, <4>2, LegShrinks
    <3>4. CASE ForceExit(q, d)
      BY <1>1, <3>4 DEF ForceExit, NoTick, TickEnds
    <3>5. QED
      BY <2>3, <3>1, <3>2, <3>3, <3>4 DEF Monitor
  <2>4. CASE FinishForced
    <3>1. BookLeg(pending.quote, pending.reason, pending.filled, pending.price)
      BY <2>4 DEF FinishForced
    <3>2. Leg(pending.quote, pending.reason, pending.filled, pending.price)
      BY <1>1, <2>4, FinishForcedLeg
    <3>3. QED
      BY <1>1, <3>1, <3>2, LegShrinks
  <2>5. CASE Interrupt \/ PassTime \/ Closed \/ UNCHANGED vars
    BY <1>1, <2>5 DEF Interrupt, PassTime, Closed, NoTick, vars, TickEnds
  <2>6. QED
    BY <1>1, <2>1, <2>2, <2>3, <2>4, <2>5 DEF Next
<1>2. QED
  BY <1>1, Inductive, PTL DEF Spec, DueTickSells

-----------------------------------------------------------------------------
(* The level of the row rises when the stop and the best mark do.          *)
LEMMA RowRises ==
  ASSUME IInv, IInv', trade'.stop >= trade.stop, trade'.hwm >= trade.hwm
  PROVE  RowLevel \in Nat /\ RowLevel' \in Nat /\ RowLevel' >= RowLevel
<1> DEFINE before == [stop |-> trade.stop, hwm |-> trade.hwm]
           after  == [stop |-> trade'.stop, hwm |-> trade'.hwm]
<1>1. /\ before.stop = trade.stop /\ before.hwm = trade.hwm
      /\ after.stop = trade'.stop /\ after.hwm = trade'.hwm
  OBVIOUS
<1>2. /\ trade.stop \in Nat /\ trade.hwm \in Nat
      /\ trade'.stop \in Nat /\ trade'.hwm \in Nat
  BY DEF IInv, TypeOK, TradeType
<1>3. RowLevel = EffectiveStop(before) /\ RowLevel' = EffectiveStop(after)
  BY DEF RowLevel
<1> HIDE DEF before, after
<1>4. /\ EffectiveStop(before) \in Nat /\ EffectiveStop(after) \in Nat
      /\ EffectiveStop(before) <= EffectiveStop(after)
  BY <1>1, <1>2, EffectiveStopFacts, EffectiveStopRises
<1>5. QED
  BY <1>3, <1>4

(* A leg is a Sell of the abstract position.                               *)
LEMMA LegSells ==
  ASSUME IInv, IInv', Open, NEW q, NEW reason, NEW filled, NEW price,
         Leg(q, reason, filled, price), BookLeg(q, reason, filled, price)
  PROVE  Promise!Sell
<1>1. /\ trade.qty \in Nat \ {0} /\ filled \in 1..trade.qty /\ price \in Nat \ {0}
      /\ LotSize \in Nat \ {0} /\ fills.value \in Int
  BY TradeAssumption DEF IInv, TypeOK, TradeType, LogReplaysToRow, Leg
<1>2. /\ trade'.qty = trade.qty - filled /\ trade'.stop = trade.stop
      /\ trade'.hwm = BestMark(q)
      /\ fills'.value = fills.value + price * filled * LotSize
  BY Zenon DEF BookLeg
<1>3. price * filled * LotSize \in Int /\ price * filled * LotSize > 0
  <2>1. price * filled \in Nat \ {0}
    BY <1>1
  <2>2. QED
    BY <1>1, <2>1
<1>4. trade'.stop >= trade.stop /\ trade'.hwm >= trade.hwm
  BY <1>2, PositionFacts DEF Leg, IInv, TypeOK, TradeType
<1>5. RowLevel' >= RowLevel
  BY <1>4, RowRises
<1>6. QED
  BY <1>1, <1>2, <1>3, <1>5 DEF Promise!Sell

(* A step without a leg is a Protect or a stutter.                         *)
LEMMA NoLegProtects ==
  ASSUME IInv, IInv', Open, trade'.qty = trade.qty, fills' = fills,
         trade'.stop >= trade.stop, trade'.hwm >= trade.hwm
  PROVE  Promise!Protect \/ UNCHANGED Promise!heldVars
<1>1. RowLevel \in Nat /\ RowLevel' \in Nat /\ RowLevel' >= RowLevel
  BY RowRises
<1>2. trade.qty > 0
  BY DEF IInv, LogReplaysToRow
<1>3. CASE RowLevel' > RowLevel
  BY <1>2, <1>3 DEF Promise!Protect
<1>4. CASE RowLevel' = RowLevel
  BY <1>4 DEF Promise!heldVars
<1>5. QED
  BY <1>1, <1>3, <1>4

(* Every step of the trade is a step of the held position, or none.        *)
LEMMA HeldStep ==
  IInv /\ IInv' /\ [Next]_vars =>
    [Promise!Sell \/ Promise!Protect]_(Promise!heldVars)
<1> SUFFICES ASSUME IInv, IInv', [Next]_vars
             PROVE  \/ Promise!Sell \/ Promise!Protect
                    \/ UNCHANGED Promise!heldVars
  OBVIOUS
<1>1. trade \in TradeType /\ trade.stop \in Nat /\ trade.hwm \in Nat
  BY DEF IInv, TypeOK, TradeType
<1>2. CASE UNCHANGED <<trade, fills>>
  BY <1>2 DEF Promise!heldVars, RowLevel
<1>3. ASSUME NEW q, Monitor(q)
      PROVE  Promise!Sell \/ Promise!Protect \/ UNCHANGED Promise!heldVars
  <2> DEFINE d == Decision(q)
  <2>1. CASE NoAction(q, d) \/ MoveStop(q, d)
    <3>1. q \in QuoteType /\ Open
      BY <2>1, ReadsQuote DEF NoAction, MoveStop
    <3>2. /\ BestMark(q) >= trade.hwm /\ EffectiveStop(Position(q)) >= trade.stop
      BY <3>1, PositionFacts
    <3>3. /\ trade'.qty = trade.qty /\ fills' = fills
          /\ trade'.hwm = BestMark(q)
          /\ trade'.stop = trade.stop \/ trade'.stop = EffectiveStop(Position(q))
      BY <1>1, <2>1 DEF NoAction, MoveStop, TradeType
    <3>4. trade'.stop >= trade.stop /\ trade'.hwm >= trade.hwm
      BY <1>1, <3>2, <3>3
    <3>5. QED
      BY <3>1, <3>3, <3>4, NoLegProtects
  <2>2. CASE NoBookToExitOn(q, d) \/ FillRefused(q, d) \/ ForceExit(q, d)
    <3>1. Open
      BY <2>2, ReadsQuote DEF NoBookToExitOn, FillRefused, ForceExit
    <3>2. trade' = [trade EXCEPT !.leg = LegRead] /\ fills' = fills
      BY <2>2 DEF NoBookToExitOn, FillRefused, ForceExit, FailExit
    <3>3. trade'.qty = trade.qty /\ trade'.stop >= trade.stop /\ trade'.hwm >= trade.hwm
      BY <1>1, <3>2 DEF TradeType
    <3>4. QED
      BY <3>1, <3>2, <3>3, NoLegProtects
  <2>3. CASE FillExit(q, d)
    <3> DEFINE got == Request(d, ExitQuote(market, q))
    <3>1. Open /\ Leg(q, d.reason, got.filled, got.price)
      BY <2>3, FillExitLeg
    <3>2. BookLeg(q, d.reason, got.filled, got.price)
      BY <2>3 DEF FillExit
    <3> HIDE DEF got, d
    <3>3. QED
      BY <3>1, <3>2, LegSells
  <2>4. QED
    BY <1>3, <2>1, <2>2, <2>3 DEF Monitor
<1>4. CASE FinishForced
  <2>1. Open /\ Leg(pending.quote, pending.reason, pending.filled, pending.price)
    BY <1>4, FinishForcedLeg
  <2>2. QED
    BY <1>4, <2>1, LegSells DEF FinishForced
<1>5. QED
  BY <1>2, <1>3, <1>4
  DEF Next, NoQuoteTick, Repoint, Interrupt, PassTime, Closed, vars

(* The trade implements the held position it promises: lots only leave,    *)
(* each leg for money, the protective level only rises, and what is closed *)
(* stays closed; for every level, size, fee and set of quotes.             *)
THEOREM ImplementsHeldPosition == Spec => KeepsPromise
<1>1. Init => Promise!HeldInit
  <2> SUFFICES ASSUME Init PROVE Promise!HeldInit
    OBVIOUS
  <2> DEFINE row == [stop |-> InitialStop, hwm |-> 0]
  <2>1. RowLevel = EffectiveStop(row)
    BY DEF RowLevel, Init, OpenedTrade
  <2>2. row.stop = InitialStop /\ row.hwm = 0
    OBVIOUS
  <2> HIDE DEF row
  <2>3. TrailLevel(row) = 0 /\ BreakevenFloor(row) = {} /\ InitialStop \in Nat
    BY <2>2, LevelsAssumption DEF TrailLevel, BreakevenFloor
  <2>4. EffectiveStop(row) = InitialStop
    BY <2>2, <2>3, EffectiveStopFacts
  <2>5. QED
    BY <2>1, <2>4 DEF Promise!HeldInit, Init, OpenedTrade
<1>2. IInv /\ IInv' /\ [Next]_vars =>
        [Promise!Sell \/ Promise!Protect]_(Promise!heldVars)
  BY HeldStep
<1>3. QED
  BY <1>1, <1>2, Inductive, PTL DEF Spec, KeepsPromise, Promise!HeldSpec

(* The row's instrument changes only to the one INSTRUMENT_REPOINTED has   *)
(* put in the log, for every set of quotes and duplicate rows.             *)
THEOREM EventsComeFirst == Spec => EventBeforeRepoint
<1>1. IInv /\ [Next]_vars => (trade'.leg # trade.leg => trade'.leg = log.leg)
  <2> SUFFICES ASSUME IInv, [Next]_vars, trade'.leg # trade.leg
               PROVE  trade'.leg = log.leg
    OBVIOUS
  <2>1. trade \in TradeType
    BY DEF IInv, TypeOK
  <2>2. LegRead \in {trade.leg, log.leg}
    BY DEF LegRead
  <2>3. ASSUME NEW q, Monitor(q) PROVE trade'.leg = LegRead
    <3> DEFINE d == Decision(q)
    <3>1. CASE NoAction(q, d) \/ MoveStop(q, d)
      BY <2>1, <3>1 DEF NoAction, MoveStop, TradeType
    <3>2. CASE NoBookToExitOn(q, d) \/ FillRefused(q, d) \/ ForceExit(q, d)
      <4>1. trade' = [trade EXCEPT !.leg = LegRead]
        BY <3>2 DEF NoBookToExitOn, FillRefused, FailExit, ForceExit
      <4>2. QED
        BY <2>1, <4>1 DEF TradeType
    <3>3. CASE FillExit(q, d)
      BY <3>3 DEF FillExit, BookLeg
    <3>4. QED
      BY <2>3, <3>1, <3>2, <3>3 DEF Monitor
  <2>4. FinishForced => trade'.leg = LegRead
    BY DEF FinishForced, BookLeg
  <2>5. QED
    BY <2>2, <2>3, <2>4
    DEF Next, NoQuoteTick, Repoint, Interrupt, PassTime, Closed, vars
<1>2. QED
  BY <1>1, Inductive, PTL DEF Spec, EventBeforeRepoint
=============================================================================
