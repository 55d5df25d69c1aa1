---------------------------- MODULE WalkForward ----------------------------
(***************************************************************************)
(* The walk-forward folds of a research run (cli.py backtest-run, the      *)
(* replay of backtest/runner.py over daily bars, and the splits and the    *)
(* held-out period of backtest/validation.py).                             *)
(*                                                                         *)
(* Of the days before Today only an open one has a bar.  A run over some   *)
(* of them emits at most one signal per underlying and bar, with the       *)
(* number of bars its outcome took: at most MaxBarsHeld, and no more than  *)
(* the run has.  The folds count those bars as days.  Moments of the folds *)
(* are in NFolds-ths of a day.                                             *)
(*                                                                         *)
(* Left out: what the detectors see in a bar, the metrics and the gates.   *)
(***************************************************************************)
EXTENDS Integers, FiniteSets, FiniteSetsExt

CONSTANTS
  Underlyings,
  NFolds, Embargo,            \* n_folds, embargo in days
  HoldoutDays, MaxBarsHeld,   \* holdout_days, max_holding_bars
  MaxClosed,          \* of the calendar: closed days within a holding
  LastDay, MaxEmitted \* bounds: days, signals of a run

ASSUME FoldsAssumption ==
  /\ NFolds \in Nat \ {0, 1} /\ MaxBarsHeld \in Nat \ {0} /\ MaxClosed \in Nat
  /\ Embargo \in Nat /\ HoldoutDays \in Nat /\ LastDay \in Nat /\ MaxEmitted \in Nat
  /\ MaxClosed <= Embargo     \* what the embargo of the code absorbs

VARIABLES
  open,               \* the days before Today that have a bar
  range_end,          \* to_ts of the run; -1 before there is one
  emitted             \* its signals: [on, underlying, held, ends]

folds_vars == <<open, range_end, emitted>>

Today == LastDay

(* The bars after a day, and the day of the n-th of them.                  *)
After(d, last)    == {o \in open : d < o /\ o <= last}
NthAfter(d, n)    == CHOOSE o \in open : o > d /\ Cardinality(After(d, o)) = n

Closed(from, to)  == {d \in from..to : d \notin open}

FoldsInit ==
  /\ open \in SUBSET (0..(Today - 1))
  /\ \A d, o \in open :
       Cardinality(After(d, o)) <= MaxBarsHeld => Cardinality(Closed(d, o)) <= MaxClosed
  /\ range_end = -1 /\ emitted = {}

(* assert_not_touching_holdout.                                            *)
StartRun(to) ==
  /\ to <= Today - HoldoutDays
  /\ range_end' = to /\ emitted' = {}
  /\ UNCHANGED open

(* run_backtest: a signal on a bar, resolved on those that follow it in    *)
(* the run.                                                                *)
Emit(d, underlying, held) ==
  /\ d \in open /\ d <= range_end /\ Cardinality(emitted) < MaxEmitted
  /\ held \in 1..Min({MaxBarsHeld, Cardinality(After(d, range_end))})
  /\ \A s \in emitted : s.on < d \/ s.underlying # underlying
  /\ emitted' = emitted \cup {[on |-> d, underlying |-> underlying, held |-> held,
                               ends |-> NthAfter(d, held)]}
  /\ UNCHANGED <<open, range_end>>

FoldsNext ==
  \/ \E to \in 0..LastDay : StartRun(to)
  \/ \E d \in 0..LastDay, underlying \in Underlyings, held \in 1..MaxBarsHeld :
       Emit(d, underlying, held)

FoldsSpec == FoldsInit /\ [][FoldsNext]_folds_vars

-----------------------------------------------------------------------------
(* walk_forward_splits.  _resolution_end takes a bar for a day.            *)
Moment(d)   == NFolds * d
FirstOn     == Min({s.on : s \in emitted})
Span        == Max({s.on : s \in emitted}) - FirstOn
TestStart(i) == Moment(FirstOn) + Span * i
ResolutionEnd(s) == Moment(s.on + s.held)

Train(i) ==
  {s \in emitted : /\ Moment(s.on) < TestStart(i)
                   /\ ResolutionEnd(s) <= TestStart(i) - Moment(Embargo)}

(* The end of a fold's test is the start of the next one's, and only the   *)
(* last fold has it.  A faulty variant gives it to every fold.             *)
TestClosed(i) ==
  {s \in emitted : TestStart(i) <= Moment(s.on) /\ Moment(s.on) <= TestStart(i + 1)}

Test(i) ==
  {s \in emitted : /\ TestStart(i) <= Moment(s.on)
                   /\ \/ Moment(s.on) < TestStart(i + 1)
                      \/ i = NFolds - 1 /\ Moment(s.on) = TestStart(i + 1)}

Folds ==
  IF Cardinality(emitted) < 2 THEN {}
  ELSE IF Span = 0 THEN {}
  ELSE {i \in 1..(NFolds - 1) : Train(i) # {} /\ Test(i) # {}}

-----------------------------------------------------------------------------
(* No fold learns from what it is scored on: the bars that decided a       *)
(* training outcome are over when the test begins, the closed days that    *)
(* _resolution_end does not count included; no two folds score one signal; *)
(* and no outcome of the run reaches into the days still held out.         *)
NoLeakage ==
  /\ \A i \in Folds :
       /\ \A s \in Train(i) : Moment(s.ends) <= TestStart(i)
       /\ \A j \in Folds : i # j => Test(i) \cap Test(j) = {}
  /\ \A s \in emitted : s.ends <= Today - HoldoutDays
=============================================================================
