------------------------------- MODULE Fills -------------------------------
(***************************************************************************)
(* The fill model every simulated order goes through (execution/fills.py,  *)
(* execution/simulator.py), and the three ways the engine comes by the     *)
(* book it prices an order against: the observed one, the one modelled for *)
(* the US vendor that publishes no book (execution/synthetic_quote.py) and *)
(* the penalised one a mandatory exit falls back to.  All of it is pure.   *)
(*                                                                         *)
(* Prices are integers in the smallest unit the fractions below divide, so *)
(* the Decimal arithmetic of the source is exact here too.  A quote row    *)
(* and a book carry their age in seconds instead of a timestamp.  Every    *)
(* book the engine builds has chain_complete = True, so that field, and    *)
(* the rejection it leads to, are left out.                                *)
(***************************************************************************)
EXTENDS Integers

(* A price column that is NULL.                                            *)
NoPrice == -1

(* The absence of a quote row, and of a book that can be modelled.         *)
NoQuote == [mark |-> 0, bid |-> NoPrice, ask |-> NoPrice, bid_sz |-> 0,
            ask_sz |-> 0, age |-> 0, oi |-> 0, volume |-> 0, quiet |-> FALSE]
NoBook  == [bid |-> NoPrice, ask |-> NoPrice, bid_sz |-> 0, ask_sz |-> 0,
            age |-> 0, oi |-> 0]

Books == [bid : Int, ask : Int, bid_sz : Nat, ask_sz : Nat, age : Nat, oi : Nat]

Smaller(a, b) == IF a < b THEN a ELSE b
Larger(a, b)  == IF a > b THEN a ELSE b

-----------------------------------------------------------------------------
(* compute_fill rejects before pricing: a stale, empty or crossed book,    *)
(* a spread over 500 bps of mid, an order over 10% of open interest, or a  *)
(* top of book whose quarter does not hold one lot.                        *)
TopOfBook(side, book) == IF side = "BUY" THEN book.ask_sz ELSE book.bid_sz

MaxFillable(side, book) == TopOfBook(side, book) \div 4

Rejected(side, qty, book, max_age) ==
  \/ book.age > max_age
  \/ book.bid <= 0 \/ book.ask <= 0 \/ book.ask < book.bid
  \/ 40 * (book.ask - book.bid) > book.ask + book.bid
  \/ book.oi > 0 /\ 10 * qty > book.oi
  \/ Smaller(qty, MaxFillable(side, book)) <= 0

(* mid + 0.6 * half the spread when buying, mid - 0.6 * half when selling. *)
FillPrice(side, book) ==
  IF side = "BUY" THEN (book.bid + 4 * book.ask) \div 5
                  ELSE (4 * book.bid + book.ask) \div 5

(* A faulty variant fills what the book holds, not what was asked for.     *)
FillWholeBook(side, qty, book, max_age) ==
  IF Rejected(side, qty, book, max_age)
  THEN [filled |-> 0, price |-> 0]
  ELSE [filled |-> MaxFillable(side, book), price |-> FillPrice(side, book)]

ComputeFill(side, qty, book, max_age) ==
  IF Rejected(side, qty, book, max_age)
  THEN [filled |-> 0, price |-> 0]
  ELSE [filled |-> Smaller(qty, MaxFillable(side, book)),
        price  |-> FillPrice(side, book)]

-----------------------------------------------------------------------------
(* synthesize_quote: a 4% book around the last price, its size a twentieth *)
(* of the day's volume, at most 50 and not offered at all below 4. The     *)
(* half-tick floor of its spread, which bites under a price of 0.25, is    *)
(* left out.                                                               *)
ModelledSize(volume) == Smaller(volume \div 20, 50)

SynthesizeQuote(q) ==
  LET half == q.mark \div 50
      size == ModelledSize(q.volume)
  IN  IF q.mark - half <= 0 \/ size < 4
      THEN NoBook
      ELSE [bid |-> q.mark - half, ask |-> q.mark + half, bid_sz |-> size,
            ask_sz |-> size, age |-> q.age, oi |-> q.oi]

(* `x or mark`: a NULL and a zero price both fall back to the mark.        *)
OrMark(x, q) == IF x \in {NoPrice, 0} THEN q.mark ELSE x

Observed(q, bid, ask) ==
  [bid |-> bid, ask |-> ask, bid_sz |-> q.bid_sz, ask_sz |-> q.ask_sz,
   age |-> q.age, oi |-> q.oi]

(* _exit_quote: the observed book on NSE, on the US market the observed    *)
(* one only when both sides are published and the modelled one otherwise.  *)
ExitQuote(market, q) ==
  IF market = "NSE"
  THEN Observed(q, OrMark(q.bid, q), OrMark(q.ask, q))
  ELSE IF q.bid # NoPrice /\ q.ask # NoPrice
       THEN Observed(q, q.bid, q.ask)
       ELSE SynthesizeQuote(q)

(* forced_exit_quote: a locked, fresh market 5% under the last bid, deep   *)
(* enough for the quarter rule to let the whole order through.             *)
ForcedExitQuote(book, qty) ==
  LET base  == IF book.bid > 0 THEN book.bid ELSE book.ask
      price == (95 * base) \div 100
      size  == 4 * Larger(qty, 1)
  IN  [bid |-> price, ask |-> price, bid_sz |-> size, ask_sz |-> size,
       age |-> 0, oi |-> 0]
=============================================================================
