---------------------------- MODULE HeldPosition ----------------------------
(***************************************************************************)
(* What a paper position promises, whatever the quotes, books, clocks and  *)
(* crashes: lots only leave, each leg for money; the protective level only *)
(* rises; and a position that is out stays out.  A long position is never  *)
(* averaged down, pyramided or reopened under the same trade.              *)
(***************************************************************************)
EXTENDS Integers

CONSTANTS EntryLots,    \* lots the position was opened with
          FirstStop     \* the protective level it was opened with

VARIABLES lots,         \* lots still held
          proceeds,     \* money the lots that left were sold for
          level         \* the level the position is protected at

heldVars == <<lots, proceeds, level>>

HeldInit == lots = EntryLots /\ proceeds = 0 /\ level = FirstStop

Sell ==
  /\ lots > 0
  /\ lots' \in 0..(lots - 1)
  /\ proceeds' > proceeds
  /\ level' >= level

Protect ==
  /\ lots > 0
  /\ level' > level
  /\ UNCHANGED <<lots, proceeds>>

HeldSpec == HeldInit /\ [][Sell \/ Protect]_heldVars
=============================================================================
