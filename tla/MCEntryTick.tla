----------------------------- MODULE MCEntryTick -----------------------------
(***************************************************************************)
(* An instance of EntryTick: calls of two expiries, the nearer of them     *)
(* outside the selector's window, one contract with two instrument rows,   *)
(* and a put without a delta; four kinds of quote; and one situation for   *)
(* every stage a signal can be denied at.  Prices are in hundredths, a     *)
(* unit of time is longer than a price may be old.                         *)
(***************************************************************************)
EXTENDS EntryTick

MCContract ==
  LET call == [type |-> "C", dte |-> 2, strike |-> 100, delta |-> 45]
  IN  <<[call EXCEPT !.dte = 1], call, call,
        [type |-> "P", dte |-> 2, strike |-> 97, delta |-> NoDelta]>>

Row(mark, half, size) ==
  [mark |-> mark, bid |-> mark - half, ask |-> mark + half, bid_sz |-> size,
   ask_sz |-> size, age |-> 0, oi |-> 0, volume |-> 1000, quiet |-> FALSE]

(* A price, the next one, a book too wide, and a price nobody published a  *)
(* book for.                                                               *)
MCContents ==
  <<{Row(2000, 10, 40)},
    {Row(2000, 10, 40), Row(2100, 10, 40), Row(2000, 500, 40),
     [Row(2000, 0, 0) EXCEPT !.bid = NoPrice, !.ask = NoPrice]},
    {Row(2000, 10, 40)},
    {Row(2000, 10, 40)}>>

Bullish == [trend |-> 60, relative |-> 40, oi_change |-> 1,
            bars |-> <<[ts |-> 0, close |-> 100], [ts |-> 30, close |-> 120]>>]
Bearish == [trend |-> -60, relative |-> -40, oi_change |-> Missing, bars |-> <<>>]
Torn    == [Bullish EXCEPT !.trend = -60, !.oi_change = Missing]

Account == [halts |-> {}, breached |-> FALSE, equity |-> 1000000, open |-> {},
            count |-> 0, exposure |-> 0, since_close |-> [u |-> Cooldown]]

Usual == [features |-> Bullish, is_index |-> FALSE, market |-> "NSE", spot |-> 100,
          underlying |-> "u", underlying_lot |-> 5, leg_lot |-> 0, min_dte |-> 0,
          halted |-> FALSE, in_window |-> TRUE, liquid |-> TRUE, account |-> Account,
          budget_lots |-> 2]

MCSituations ==
  {Usual,
   [Usual EXCEPT !.features = Bearish], [Usual EXCEPT !.features = Torn],
   [Usual EXCEPT !.features.trend = 20, !.features.relative = 20],
   [Usual EXCEPT !.is_index = TRUE, !.features.trend = 100],
   [Usual EXCEPT !.halted = TRUE], [Usual EXCEPT !.spot = 0],
   [Usual EXCEPT !.underlying_lot = 0], [Usual EXCEPT !.underlying_lot = 20], [Usual EXCEPT !.min_dte = 3],
   [Usual EXCEPT !.leg_lot = 20], [Usual EXCEPT !.account.open = {"u"}],
   [Usual EXCEPT !.budget_lots = 0],
   [Usual EXCEPT !.market = "US", !.account.equity = 50000000]}
=============================================================================
