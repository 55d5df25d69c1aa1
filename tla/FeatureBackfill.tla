--------------------------- MODULE FeatureBackfill ---------------------------
(***************************************************************************)
(* What the engine saw when it signalled, and what is stored of it: the    *)
(* point-in-time read of an underlying's inputs (features/loader.py,       *)
(* features/iv_history.py), the feature vector made of them and linked to  *)
(* the signal (features/store.py, run_entry_tick), and the runs that       *)
(* rebuild the vectors of signals without one (backtest/                   *)
(* backfill_features.py), while the recorder and the nightly job go on     *)
(* writing the tables the inputs come from.                                *)
(*                                                                         *)
(* Rows are written once, so that a bar or a quote stands for its content: *)
(* a context is the times of the rows it is made of, a day's implied       *)
(* volatility the set of quotes it is the median of.  The chain is one leg *)
(* of one expiry.  An evaluation or a rebuild reads in one step.  Left     *)
(* out: evaluations that give no signal, which leave a vector nobody links *)
(* to, the five days of bars a read goes back, days without a session, the *)
(* instruments a run cannot find, and other versions of the registry.      *)
(***************************************************************************)
EXTENDS Integers, FiniteSets, FiniteSetsExt, Sequences

CONSTANTS
  Underlying, Benchmark, Future,  \* the series of bars read: may coincide
  OILookback,         \* OI_LOOKBACK
  ChainLookback,      \* _CHAIN_QUOTE_LOOKBACK
  MinPriorDays,       \* MIN_PRIOR_SESSIONS
  Day,                \* minutes of a day
  IvWindow,           \* the minutes of a day its volatility is read in
  LastClock, MaxQuotes, MaxEvaluated       \* bounds: minutes, quotes, signals

ASSUME FeatureAssumption ==
  /\ OILookback \in Nat /\ ChainLookback \in Nat /\ MinPriorDays \in Nat
  /\ Day \in Nat \ {0} /\ IvWindow \subseteq 0..(Day - 1)
  /\ LastClock \in Nat /\ MaxQuotes \in Nat /\ MaxEvaluated \in Nat

VARIABLES
  clock,
  newest,             \* series -> the minute of its newest bar
  quotes,             \* option_quotes of the leg: [at, streamed]
  atm_iv,             \* atm_iv_daily: day -> quotes
  storing,            \* whether the engine deployed stores its vectors
  evaluated,          \* signals: [at, link, saw, known, live]
  vectors,            \* feature_vectors: as_of -> [id, inputs]
  rebuild             \* the run: signals to do, the link not yet committed

feature_vars == <<clock, newest, quotes, atm_iv, storing, evaluated, vectors, rebuild>>

SeriesRead == {Underlying, Benchmark, Future}
NoLink    == 0
NoRebuild == [todo |-> {}, signal |-> 0, link |-> NoLink]

FeatureInit ==
  /\ clock = 0 /\ newest = [s \in SeriesRead |-> -1] /\ quotes = {}
  /\ atm_iv = [d \in {} |-> {}] /\ storing = FALSE
  /\ evaluated = <<>> /\ vectors = [t \in {} |-> NoLink] /\ rebuild = NoRebuild

Tables  == <<newest, quotes, atm_iv>>
Engine  == <<storing, evaluated, vectors, rebuild>>

DayOf(t) == t \div Day

-----------------------------------------------------------------------------
(* The tables fill: bars up to the running minute's or the one before,     *)
(* with none left out; quotes late by up to a minute; a day's volatility   *)
(* from the streamed quotes of its window, as often as it is asked for.    *)
ClockTicks ==
  clock < LastClock /\ clock' = clock + 1 /\ UNCHANGED <<Tables, Engine>>

RefreshBars(s, upto) ==
  /\ upto > newest[s] /\ newest' = [newest EXCEPT ![s] = upto]
  /\ UNCHANGED <<clock, quotes, atm_iv, Engine>>

WriteQuote(q) ==
  /\ q.at >= 0 /\ Cardinality(quotes) < MaxQuotes
  /\ \A other \in quotes : other.at # q.at
  /\ quotes' = quotes \cup {q}
  /\ UNCHANGED <<clock, newest, atm_iv, Engine>>

WindowQuotes(day) ==
  {q.at : q \in {p \in quotes : p.streamed /\ DayOf(p.at) = day /\ p.at % Day \in IvWindow}}

(* Today, by the nightly job, or any day before, by hand.                  *)
AskedDays == 0..DayOf(clock)

RecordAtmIv(day) ==
  /\ atm_iv' = [d \in (DOMAIN atm_iv \ {day}) \cup (IF WindowQuotes(day) = {} THEN {} ELSE {day}) |->
                  IF d = day THEN WindowQuotes(day) ELSE atm_iv[d]]
  /\ UNCHANGED <<clock, newest, quotes, Engine>>

-----------------------------------------------------------------------------
(* build_context and load_index_bars: nothing later than as_of.            *)
BarsUpTo(s, as_of) == {m \in 0..newest[s] : m <= as_of}

LatestQuote(as_of) ==
  LET fresh == {q.at : q \in {p \in quotes : as_of - ChainLookback <= p.at /\ p.at <= as_of}}
  IN  IF fresh = {} THEN {} ELSE {Max(fresh)}

PriorIv(as_of) == {d \in DOMAIN atm_iv : d < DayOf(as_of)}

IvHistory(as_of) ==
  IF LatestQuote(as_of) = {} \/ Cardinality(PriorIv(as_of)) < MinPriorDays
  THEN {} ELSE {<<d, atm_iv[d]>> : d \in PriorIv(as_of)}

BuildContext(as_of, prior_as_of) ==
  [bars        |-> BarsUpTo(Underlying, as_of),
   volumes     |-> BarsUpTo(Underlying, as_of) \cap BarsUpTo(Future, as_of),
   index_bars  |-> BarsUpTo(Benchmark, as_of),
   chain       |-> LatestQuote(as_of),
   prior_chain |-> LatestQuote(prior_as_of),
   iv_history  |-> IvHistory(as_of)]

HasInputs(context) == context.bars # {} \/ context.chain # {}

(* What the tables hold from before or at an instant.                      *)
Known(t) ==
  <<[s \in SeriesRead |-> BarsUpTo(s, t)], {q \in quotes : q.at <= t},
    {<<d, atm_iv[d]>> : d \in PriorIv(t)}>>

(* write_feature_vector: a row for an instant is replaced, its id kept.    *)
Upserted(as_of, inputs) ==
  LET id == IF as_of \in DOMAIN vectors THEN vectors[as_of].id
            ELSE Cardinality(DOMAIN vectors) + 1
  IN  [t \in DOMAIN vectors \cup {as_of} |->
         IF t = as_of THEN [id |-> id, inputs |-> inputs] ELSE vectors[t]]

-----------------------------------------------------------------------------
(* An evaluation that signals; an earlier engine stored no vector.         *)
Evaluate ==
  LET context == BuildContext(clock, clock - OILookback)
      stored  == IF storing THEN Upserted(clock, context) ELSE vectors
  IN  /\ Len(evaluated) < MaxEvaluated /\ HasInputs(context)
      /\ \A k \in 1..Len(evaluated) : evaluated[k].at # clock
      /\ vectors' = stored
      /\ evaluated' = Append(evaluated,
           [at |-> clock, link |-> IF storing THEN stored[clock].id ELSE NoLink,
            saw |-> context, known |-> Known(clock), live |-> storing])
      /\ UNCHANGED <<clock, Tables, storing, rebuild>>

DeployStoring ==
  /\ ~storing /\ storing' = TRUE
  /\ UNCHANGED <<clock, Tables, evaluated, vectors, rebuild>>

(* backfill_feature_vectors.  A run told to overwrite takes every signal,  *)
(* and from then on what the engine stored is not what stands.             *)
SelectSignals(overwrite) ==
  /\ rebuild = NoRebuild
  /\ rebuild' = [rebuild EXCEPT !.todo =
                   {k \in 1..Len(evaluated) : overwrite \/ evaluated[k].link = NoLink}]
  /\ evaluated' = [k \in 1..Len(evaluated) |->
                     [evaluated[k] EXCEPT !.live = @ /\ ~overwrite]]
  /\ UNCHANGED <<clock, Tables, storing, vectors>>

Linked ==
  IF rebuild.link = NoLink THEN evaluated
  ELSE [evaluated EXCEPT ![rebuild.signal].link = rebuild.link]

(* A faulty variant gives the context no earlier chain.                    *)
RebuiltWithoutPrior(signal) == [BuildContext(signal.at, signal.at) EXCEPT !.prior_chain = {}]

Rebuilt(signal) == BuildContext(signal.at, signal.at - OILookback)

(* The commit of a vector commits the link to the one before it as well.   *)
Reconstruct ==
  LET k == Min(rebuild.todo)
      signal == evaluated[k]
  IN  /\ rebuild.todo # {}
      /\ IF HasInputs(Rebuilt(signal))
         THEN /\ vectors' = Upserted(signal.at, Rebuilt(signal))
              /\ evaluated' = Linked
              /\ rebuild' = [todo |-> rebuild.todo \ {k}, signal |-> k,
                             link |-> vectors'[signal.at].id]
         ELSE /\ rebuild' = [rebuild EXCEPT !.todo = @ \ {k}]
              /\ UNCHANGED <<vectors, evaluated>>
      /\ UNCHANGED <<clock, Tables, storing>>

(* The commit at the end of a run and of every so many signals.            *)
CommitLink ==
  /\ rebuild.link # NoLink
  /\ evaluated' = Linked /\ rebuild' = [rebuild EXCEPT !.signal = 0, !.link = NoLink]
  /\ UNCHANGED <<clock, Tables, storing, vectors>>

Interrupt ==
  /\ rebuild # NoRebuild /\ rebuild' = NoRebuild
  /\ UNCHANGED <<clock, Tables, storing, evaluated, vectors>>

FeatureNext ==
  \/ ClockTicks \/ Evaluate \/ DeployStoring
  \/ \E s \in SeriesRead, upto \in {clock - 1, clock} : RefreshBars(s, upto)
  \/ \E at \in {clock - 1, clock}, streamed \in BOOLEAN :
       WriteQuote([at |-> at, streamed |-> streamed])
  \/ \E day \in AskedDays : RecordAtmIv(day)
  \/ \E overwrite \in BOOLEAN : SelectSignals(overwrite)
  \/ Reconstruct \/ CommitLink \/ Interrupt

FeatureSpec == FeatureInit /\ [][FeatureNext]_feature_vars

-----------------------------------------------------------------------------
(* The vector a signal links to is the one of its instant.  It tells what  *)
(* the engine saw then, exactly if the engine stored it, and otherwise but *)
(* for rows of that time or before that came in since: a run interrupted,  *)
(* repeated, told to overwrite, or under way while the engine signals,     *)
(* never takes a later row or another signal's, nor leaves an input out.   *)
VectorTellsTheMoment ==
  \A k \in 1..Len(evaluated) :
    LET signal == evaluated[k]
    IN  signal.link # NoLink =>
          /\ signal.at \in DOMAIN vectors /\ vectors[signal.at].id = signal.link
          /\ \/ vectors[signal.at].inputs = signal.saw
             \/ ~signal.live /\ Known(signal.at) # signal.known
=============================================================================
