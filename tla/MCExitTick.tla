----------------------------- MODULE MCExitTick -----------------------------
(***************************************************************************)
(* Small instances of ExitTick.  Prices are in hundredths of a rupee: an   *)
(* entry at 100.00 with its stop at 80.00, so that 2R is 140.00, the       *)
(* target 200.00, the breakeven trigger 110.00 and the scratch threshold   *)
(* 103.00, as config/segments.py sets them for nse_stock.  All marks are   *)
(* multiples of 10.00, which keeps every fraction of the model exact.      *)
(* A session has four slots: early, past the scratch time, the last 30     *)
(* minutes, the last 15.                                                   *)
(***************************************************************************)
EXTENDS ExitTick

Row(mark, half, size, age) ==
  [mark |-> mark, bid |-> mark - half, ask |-> mark + half, bid_sz |-> size,
   ask_sz |-> size, age |-> age, oi |-> 0, volume |-> 0, quiet |-> FALSE]

(* The US vendor publishes a price and a volume, no book.                  *)
Unpublished(mark, volume) ==
  [Row(mark, 0, 0, 30) EXCEPT !.volume = volume, !.bid = NoPrice, !.ask = NoPrice]

(* At the stop and at the rung: a locked book that holds one lot, one that *)
(* holds all, a spread of 20% and more, a last row ten minutes old, and    *)
(* books to be modelled.  Beside them a leg that went quiet, a crossed     *)
(* book, open interest too small for more than one lot, and a stale row    *)
(* with nothing but a price.                                               *)
MCOwnQuotes ==
  {Row(7000, 0, 4, 30), Row(7000, 0, 40, 30), Row(7000, 1000, 40, 30),
   Row(7000, 0, 40, 600), Unpublished(7000, 0), Unpublished(7000, 1000),
   Row(14000, 0, 4, 30), Row(14000, 0, 40, 30), Row(14000, 2000, 40, 30),
   Row(14000, 0, 40, 600), Unpublished(14000, 0), Unpublished(14000, 1000),
   [Row(10000, 0, 4, 30) EXCEPT !.quiet = TRUE],
   [Row(10000, 0, 40, 30) EXCEPT !.ask = 9000],
   [Row(14000, 0, 40, 30) EXCEPT !.oi = 15],
   [Row(7000, 0, 40, 600) EXCEPT !.bid = NoPrice, !.ask = NoPrice]}

(* Fewer for the runs that look for one counterexample.                    *)
FewQuotes ==
  {Row(7000, 0, 4, 30), Row(7000, 0, 40, 600), Row(14000, 0, 0, 30),
   Row(14000, 0, 4, 30), Row(14000, 0, 40, 600)}

(* For liveness: books that never let the whole position go, above and     *)
(* below its level, and a dark duplicate to fail over to.                  *)
LiveQuotes == {Row(7000, 0, 40, 600), Row(14000, 0, 40, 600),
               Row(14000, 2000, 40, 30), Row(12000, 0, 4, 30)}
LiveSiblings == {Row(14000, 0, 0, 400)}

MCSiblingQuotes == {Row(10000, 0, 40, 30), Row(20000, 0, 4, 30)}
=============================================================================
