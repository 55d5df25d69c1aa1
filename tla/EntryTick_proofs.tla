-------------------------- MODULE EntryTick_proofs --------------------------
(***************************************************************************)
(* What the entry ticks keep for any instruments, quotes and situations:   *)
(* that the tables tell one story of a decision, that a price is fresh,    *)
(* and that a reason for a denial is true.                                 *)
(***************************************************************************)
EXTENDS EntryTick, WellFoundedInduction, SequenceTheorems, TLAPS

-----------------------------------------------------------------------------
(* A non-empty set of naturals has a least element; a bounded one has a    *)
(* greatest.                                                               *)
LEMMA LeastExists ==
  ASSUME NEW S \in SUBSET Nat, S # {}
  PROVE  \E x \in S : \A y \in S : x <= y
<1>1. PICK x \in S : \A y \in S : <<y, x>> \notin OpToRel(<, Nat)
  BY NatLessThanWellFounded, WFMin
<1>2. \A y \in S : ~(y < x)
  BY <1>1, Zenon DEF OpToRel
<1>3. QED
  BY <1>2

LEMMA MinIsLeast ==
  ASSUME NEW S \in SUBSET Nat, S # {}
  PROVE  Min(S) \in S /\ \A y \in S : Min(S) <= y
  BY LeastExists DEF Min

LEMMA MaxIsGreatest ==
  ASSUME NEW n \in Nat, NEW S \in SUBSET (0..n), S # {}
  PROVE  Max(S) \in S /\ \A y \in S : y <= Max(S)
<1> DEFINE gaps == {n - y : y \in S}
<1>1. gaps \in SUBSET Nat /\ gaps # {}
  <2>1. \A y \in S : y \in 0..n
    OBVIOUS
  <2>2. \A y \in S : n - y \in Nat
    BY <2>1
  <2>3. QED
    BY <2>2
<1>2. PICK g \in gaps : \A h \in gaps : g <= h
  <2> HIDE DEF gaps
  <2>1. QED
    BY <1>1, LeastExists
<1>3. PICK x \in S : g = n - x
  BY <1>2
<1>4. \A y \in S : x >= y
  BY <1>2, <1>3
<1>5. QED
  BY <1>4 DEF Max

-----------------------------------------------------------------------------
(* What contract selection does, in terms of what it promises.             *)
LEMMA NearestIsFirst ==
  ASSUME NEW dates \in SUBSET Nat, dates # {}
  PROVE  Nearest(dates) \in dates /\ \A e \in dates : Nearest(dates) <= e
  BY LeastExists DEF Nearest

(* A candidate that tells its own row: one of an instrument, at a time.    *)
Candidates ==
  [id : Instruments, contract : {Contract[i] : i \in Instruments}, ts : Times,
   bid : Int, ask : Int, bid_sz : Nat, ask_sz : Nat, oi : Nat]

LEMMA DistanceIsNat ==
  ASSUME NEW c \in Candidates, NEW spot \in Nat \ {0}
  PROVE  Distance(c, spot) \in Nat
<1>1. PICK i \in Instruments : c.contract = Contract[i]
  BY DEF Candidates
<1>2. c.contract.strike \in Int /\ c.contract.delta \in Int /\ TargetDelta \in Int
  BY <1>1, RowsAssumption, SelectorAssumption
<1>3. \A x \in Int : Absolute(x) \in Nat
  BY DEF Absolute
<1>4. 100 * Absolute(c.contract.strike - spot) \in Nat
  BY <1>2, <1>3
<1>5. \A n \in Nat : n \div spot \in Nat
  OBVIOUS
<1>6. (100 * Absolute(c.contract.strike - spot)) \div spot \in Nat
  BY <1>4, <1>5
<1>7. Absolute(c.contract.delta - (IF c.contract.type = "C" THEN TargetDelta
                                   ELSE -TargetDelta)) \in Nat
  BY <1>2, <1>3
<1>8. QED
  BY <1>6, <1>7 DEF Distance

LEMMA ClosestIsClosest ==
  ASSUME NEW S \in SUBSET Candidates, S # {}, NEW spot \in Nat \ {0}
  PROVE  Closest(S, spot) \in S
           /\ \A d \in S : Distance(Closest(S, spot), spot) <= Distance(d, spot)
<1> DEFINE nearest == {c \in S : \A d \in S : Distance(c, spot) <= Distance(d, spot)}
           reach   == {Distance(c, spot) : c \in S}
           ids     == {c.id : c \in nearest}
<1>1. PICK near \in S : \A d \in S : Distance(near, spot) <= Distance(d, spot)
  <2>1. reach \in SUBSET Nat /\ reach # {}
    BY DistanceIsNat
  <2>2. PICK m \in reach : \A n \in reach : m <= n
    <3> HIDE DEF reach
    <3>1. QED
      BY <2>1, LeastExists
  <2>3. QED
    BY <2>2
<1>2. nearest # {}
  BY <1>1
<1>3. PICK e \in nearest : \A d \in nearest : e.id <= d.id
  <2>1. ids \in SUBSET Nat /\ ids # {}
    <3>1. \A c \in nearest : c.id \in Instruments
      BY DEF Candidates
    <3>2. QED
      BY <1>2, <3>1, RowsAssumption
  <2>2. PICK m \in ids : \A n \in ids : m <= n
    <3> HIDE DEF ids
    <3>1. QED
      BY <2>1, LeastExists
  <2>3. QED
    BY <2>2
<1>4. Closest(S, spot) \in nearest
  BY <1>3 DEF Closest
<1>5. QED
  BY <1>4

LEMMA NoCandidateIsNone == NoCandidate \notin Candidates
<1>1. ASSUME NoCandidate \in Candidates PROVE FALSE
  <2>1. NoCandidate.id \in Instruments
    BY <1>1 DEF Candidates
  <2>2. NoCandidate.id = 0
    BY DEF NoCandidate
  <2>3. QED
    BY <2>1, <2>2, RowsAssumption
<1>2. QED
  BY <1>1

(* One expiry: what is selected passed every filter; what is denied had    *)
(* nothing that passes them.                                               *)
Passes(c, direction, terms) ==
  /\ InWindow(c, direction) /\ InsideSpread(c)
  /\ Affordable(c, terms.lot_size, terms.budget)
  /\ Distance(c, terms.spot) <= MaxDeltaDistance

LEMMA SelectContractFacts ==
  ASSUME NEW S \in SUBSET Candidates, NEW direction, NEW terms, terms.spot \in Nat \ {0},
         NEW got, got = SelectContract(S, direction, terms)
  PROVE  /\ got.selected # NoCandidate =>
              /\ got.selected \in S /\ Passes(got.selected, direction, terms)
              /\ got.reason = "none"
         /\ got.selected = NoCandidate =>
              /\ got.reason \in SelectionDenials
              /\ \A c \in S : ~Passes(c, direction, terms)
         /\ got.reason = "NO_CANDIDATES_IN_EXPIRY_WINDOW" =>
              \A c \in S : ~InWindow(c, direction)
<1> DEFINE in_window  == {c \in S : InWindow(c, direction)}
           tradeable  == {c \in in_window : InsideSpread(c)}
           affordable == {c \in tradeable : Affordable(c, terms.lot_size, terms.budget)}
           closest    == Closest(affordable, terms.spot)
<1>1. affordable \subseteq S /\ affordable \in SUBSET Candidates
  OBVIOUS
<1>2. CASE in_window = {}
  <2>1. got = Denied("NO_CANDIDATES_IN_EXPIRY_WINDOW")
    BY <1>2 DEF SelectContract
  <2>2. \A c \in S : ~InWindow(c, direction)
    BY <1>2
  <2>3. QED
    BY <2>1, <2>2 DEF Denied, SelectionDenials, Passes
<1>3. CASE in_window # {} /\ tradeable = {}
  <2>1. got = Denied("NO_CONTRACT_INSIDE_SPREAD_LIMIT")
    BY <1>3 DEF SelectContract
  <2>2. \A c \in S : ~(InWindow(c, direction) /\ InsideSpread(c))
    BY <1>3
  <2>3. QED
    BY <2>1, <2>2 DEF Denied, SelectionDenials, Passes
<1>4. CASE in_window # {} /\ tradeable # {} /\ affordable = {}
  <2>1. got = Denied("NO_AFFORDABLE_CONTRACT")
    BY <1>4 DEF SelectContract
  <2>2. \A c \in S : ~(InWindow(c, direction) /\ InsideSpread(c)
                        /\ Affordable(c, terms.lot_size, terms.budget))
    BY <1>4
  <2>3. QED
    BY <2>1, <2>2 DEF Denied, SelectionDenials, Passes
<1>5. CASE affordable # {}
  <2>1. in_window # {} /\ tradeable # {}
    BY <1>5
  <2>2. /\ closest \in affordable
        /\ \A d \in affordable : Distance(closest, terms.spot) <= Distance(d, terms.spot)
    <3> HIDE DEF affordable
    <3>1. QED
      BY <1>1, <1>5, ClosestIsClosest
  <2>3. closest \in S /\ closest # NoCandidate
    BY <1>1, <2>2, NoCandidateIsNone
  <2>4. CASE Distance(closest, terms.spot) > MaxDeltaDistance
    <3>1. got = Denied("NO_CONTRACT_NEAR_TARGET_DELTA")
      BY <1>5, <2>1, <2>4 DEF SelectContract
    <3>2. \A d \in affordable : Distance(d, terms.spot) > MaxDeltaDistance
      <4>1. \A d \in affordable : Distance(d, terms.spot) \in Nat
        BY <1>1, DistanceIsNat
      <4> HIDE DEF affordable, closest
      <4>2. QED
        BY <2>2, <2>4, <4>1, SelectorAssumption
    <3>3. \A c \in S : Passes(c, direction, terms) => c \in affordable
      BY DEF Passes
    <3>4. \A c \in S : Passes(c, direction, terms) => ~(Distance(c, terms.spot) > MaxDeltaDistance)
      BY DistanceIsNat, SelectorAssumption DEF Passes
    <3>5. \A c \in S : ~Passes(c, direction, terms)
      BY <3>2, <3>3, <3>4
    <3>6. QED
      BY <3>1, <3>5 DEF Denied, SelectionDenials
  <2>5. CASE ~(Distance(closest, terms.spot) > MaxDeltaDistance)
    <3>1. got = [selected |-> closest, reason |-> "none"]
      BY <1>5, <2>1, <2>5 DEF SelectContract
    <3>2. Distance(closest, terms.spot) <= MaxDeltaDistance
      BY <2>3, <2>5, DistanceIsNat, SelectorAssumption
    <3>3. Passes(closest, direction, terms)
      BY <2>2, <3>2 DEF Passes
    <3>4. QED
      BY <2>3, <3>1, <3>3
  <2>6. QED
    BY <2>4, <2>5
<1>6. QED
  BY <1>2, <1>3, <1>4, <1>5

(* The chain: what is selected comes from an expiry of it and passed every *)
(* filter; a denial is true of every expiry.                               *)
LEMMA SelectionFacts ==
  ASSUME NEW chain, DOMAIN chain \in SUBSET Nat, DOMAIN chain # {},
         \A e \in DOMAIN chain : chain[e] \in SUBSET Candidates,
         NEW direction, NEW terms, terms.spot \in Nat \ {0},
         NEW got, got = SelectAcrossExpiries(chain, direction, terms)
  PROVE  /\ got.selected # NoCandidate =>
              \E e \in DOMAIN chain : got.selected \in chain[e]
                                        /\ Passes(got.selected, direction, terms)
         /\ got.selected = NoCandidate =>
              /\ got.reason \in SelectionDenials
              /\ \A e \in DOMAIN chain : \A c \in chain[e] : ~Passes(c, direction, terms)
              /\ got.reason = "NO_CANDIDATES_IN_EXPIRY_WINDOW" =>
                   \A e \in DOMAIN chain : \A c \in chain[e] : ~InWindow(c, direction)
<1> DEFINE trial       == Trials(chain, direction, terms)
           selecting   == {e \in DOMAIN chain : trial[e].selected # NoCandidate}
           informative == {e \in DOMAIN chain :
                             trial[e].reason # "NO_CANDIDATES_IN_EXPIRY_WINDOW"}
<1>1. \A e \in DOMAIN chain : trial[e] = SelectContract(chain[e], direction, terms)
  BY DEF Trials
<1>2. \A e \in DOMAIN chain :
        /\ trial[e].selected # NoCandidate =>
             trial[e].selected \in chain[e] /\ Passes(trial[e].selected, direction, terms)
        /\ trial[e].selected = NoCandidate =>
             /\ trial[e].reason \in SelectionDenials
             /\ \A c \in chain[e] : ~Passes(c, direction, terms)
        /\ trial[e].reason = "NO_CANDIDATES_IN_EXPIRY_WINDOW" =>
             \A c \in chain[e] : ~InWindow(c, direction)
  BY <1>1, SelectContractFacts
<1>3. got = IF selecting # {} THEN trial[Nearest(selecting)]
            ELSE IF informative # {} THEN trial[Nearest(informative)]
            ELSE trial[Nearest(DOMAIN chain)]
  BY DEF SelectAcrossExpiries
<1> HIDE DEF trial
<1>4. CASE selecting # {}
  <2>1. Nearest(selecting) \in selecting
    BY <1>4, NearestIsFirst
  <2>2. got = trial[Nearest(selecting)]
    BY <1>3, <1>4
  <2>3. QED
    BY <1>2, <2>1, <2>2
<1>5. CASE selecting = {}
  <2>1. \A e \in DOMAIN chain : trial[e].selected = NoCandidate
    BY <1>5
  <2>2. CASE informative # {}
    <3>1. Nearest(informative) \in informative
      BY <2>2, NearestIsFirst
    <3>2. got = trial[Nearest(informative)]
      BY <1>3, <1>5, <2>2
    <3>3. QED
      BY <1>2, <2>1, <3>1, <3>2
  <2>3. CASE informative = {}
    <3>1. Nearest(DOMAIN chain) \in DOMAIN chain
      BY NearestIsFirst
    <3>2. got = trial[Nearest(DOMAIN chain)]
      BY <1>3, <1>5, <2>3
    <3>3. \A e \in DOMAIN chain : trial[e].reason = "NO_CANDIDATES_IN_EXPIRY_WINDOW"
      BY <2>3
    <3>4. QED
      BY <1>2, <2>1, <3>1, <3>2, <3>3
  <2>4. QED
    BY <2>2, <2>3
<1>6. QED
  BY <1>4, <1>5

-----------------------------------------------------------------------------
(* The invariant.  A tick that runs knows only rows that are there, and    *)
(* none later than its moment; the recorder adds rows at the clock alone,  *)
(* so what a trade was priced by does not change behind it.                *)
ReasonsNamed ==
  SelectionDenials \cup
  {"HEALTH", "BELOW_MIN_CONFIDENCE", "ABOVE_MAX_CONFIDENCE", "NO_CHAIN_DATA", "NO_LOT_SIZE",
   "NO_EXPIRY_AT_MIN_DTE", "GATE", "SIZING", "EXECUTION", "none"}

SignalRows == [ts : Times, decision : {"REJECTED", "TAKEN"}, reason : ReasonsNamed]

TradeRows ==
  [signal : Nat, instrument : Instruments, opened : Times, priced_by : Candidates,
   qty : Nat \ {0}]

TablesTyped ==
  /\ clock \in Times
  /\ \A row \in DOMAIN quotes :
       /\ \E i \in Instruments, t \in 0..clock : row = <<i, t>>
       /\ quotes[row] \in [mark : Int, bid : Int, ask : Int, bid_sz : Nat, ask_sz : Nat,
                           age : Nat, oi : Nat, volume : Nat, quiet : BOOLEAN]
  /\ signals \in Seq(SignalRows) /\ trades \in Seq(TradeRows)
  /\ unfinished \subseteq 1..Len(signals)

(* A row that priced something is there, and not from the future.          *)
Priced(c, now) == <<c.id, c.ts>> \in DOMAIN quotes /\ c.ts <= now /\ now <= clock

TickTrue ==
  tick = NoTick \/
  /\ tick = [at |-> tick.at, now |-> tick.now, situation |-> tick.situation,
             chain |-> tick.chain, result |-> tick.result]
  /\ tick.at \in {"evaluated", "filled"}
  /\ tick.now \in vectors /\ tick.now \in Times /\ tick.situation \in Situations
  /\ DOMAIN tick.chain \in SUBSET Nat
  /\ \A e \in DOMAIN tick.chain :
       tick.chain[e] \in SUBSET Candidates /\ \A c \in tick.chain[e] : Priced(c, tick.now)
  /\ tick.at = "filled" => /\ signals # <<>> /\ signals[Len(signals)].reason = "none"
                            /\ Len(signals) \notin unfinished

(* What a tick that raised left behind: nothing, or a signal of a moment   *)
(* that has its features, while no tick runs.                              *)
LeftRow(t) == [ts |-> t, decision |-> "REJECTED", reason |-> "none"]

LeftoverTrue ==
  \/ leftover = <<>>
  \/ tick = NoTick /\ \E t \in vectors \cap Times : leftover = <<LeftRow(t)>>

TradesPriced == \A k \in 1..Len(trades) : Priced(trades[k].priced_by, trades[k].opened)

IInv ==
  /\ TablesTyped /\ TickTrue /\ LeftoverTrue /\ TradesPriced
  /\ SignalsTellTheTrade /\ FreshPriceOnly

-----------------------------------------------------------------------------
LEMMA InitIInv == Init => IInv
<1> SUFFICES ASSUME Init PROVE IInv
  OBVIOUS
<1>1. /\ clock = 0 /\ DOMAIN quotes = {} /\ tick = NoTick
      /\ signals = <<>> /\ trades = <<>> /\ leftover = <<>> /\ unfinished = {}
  BY DEF Init
<1>2. TablesTyped
  BY <1>1, EntryAssumption DEF TablesTyped, Times
<1>3. Len(trades) = 0 /\ Len(signals) = 0
  BY <1>1
<1>4. QED
  BY <1>1, <1>2, <1>3
  DEF IInv, TickTrue, LeftoverTrue, TradesPriced, SignalsTellTheTrade, FreshPriceOnly

(* What the loader makes of an instrument quoted lately tells a row that   *)
(* is there.                                                               *)
LEMMA CandidateTold ==
  ASSUME IInv, NEW i \in Instruments, RowTimes(i, clock) # {}, NEW market
  PROVE  /\ Candidate(i, clock, market) \in Candidates
         /\ Priced(Candidate(i, clock, market), clock)
<1> DEFINE ts   == Max(RowTimes(i, clock))
           q    == quotes[<<i, ts>>]
           book == Book(q, market)
<1>1. RowTimes(i, clock) \in SUBSET (0..MaxTime) /\ MaxTime \in Nat
  BY EntryAssumption DEF RowTimes, Times
<1>2. ts \in RowTimes(i, clock)
  BY <1>1, MaxIsGreatest
<1>3. ts \in Times /\ <<i, ts>> \in DOMAIN quotes /\ ts <= clock
  BY <1>2 DEF RowTimes
<1>4. q \in [mark : Int, bid : Int, ask : Int, bid_sz : Nat, ask_sz : Nat,
             age : Nat, oi : Nat, volume : Nat, quiet : BOOLEAN]
  BY <1>3 DEF IInv, TablesTyped
<1>5. ModelledSize(q.volume) \in Nat
  BY <1>4 DEF ModelledSize, Smaller
<1>6. /\ book.bid \in Int /\ book.ask \in Int
      /\ book.bid_sz \in Nat /\ book.ask_sz \in Nat /\ book.oi \in Nat
  <2> HIDE DEF q
  <2>1. q.mark \div 50 \in Int
    BY <1>4
  <2>2. CASE q.bid # NoPrice /\ q.ask # NoPrice
    BY <1>4, <2>2 DEF Book, Observed
  <2>3. CASE ~(q.bid # NoPrice /\ q.ask # NoPrice) /\ market = "US"
    BY <1>4, <1>5, <2>1, <2>3 DEF Book, SynthesizeQuote, NoBook, NoPrice
  <2>4. CASE ~(q.bid # NoPrice /\ q.ask # NoPrice) /\ market # "US"
    BY <2>4 DEF Book, NoBook, NoPrice
  <2>5. QED
    BY <2>2, <2>3, <2>4
<1> DEFINE cand == Candidate(i, clock, market)
<1>7. cand = [id |-> i, contract |-> Contract[i], ts |-> ts, bid |-> book.bid,
       ask |-> book.ask, bid_sz |-> book.bid_sz, ask_sz |-> book.ask_sz, oi |-> book.oi]
  BY DEF Candidate
<1> HIDE DEF ts, q, book, cand
<1>8. cand \in Candidates
  BY <1>3, <1>6, <1>7 DEF Candidates
<1>9. Priced(cand, clock)
  BY <1>3, <1>7 DEF Priced, IInv, TablesTyped, Times
<1>10. QED
  BY <1>8, <1>9 DEF cand

LEMMA ChainTold ==
  ASSUME IInv, NEW market
  PROVE  LET chain == LoadChain(clock, market)
         IN  /\ DOMAIN chain \in SUBSET Nat
             /\ \A e \in DOMAIN chain :
                  /\ chain[e] \in SUBSET Candidates
                  /\ \A c \in chain[e] : Priced(c, clock)
<1> DEFINE chain == LoadChain(clock, market)
<1>1. DOMAIN chain \in SUBSET Nat
  BY RowsAssumption DEF LoadChain, NearestTwo, ListedExpiries
<1>2. ASSUME NEW e \in DOMAIN chain, NEW c \in chain[e]
      PROVE  c \in Candidates /\ Priced(c, clock)
  <2>1. PICK i \in Quoted(e, clock) : c = Candidate(i, clock, market)
    BY DEF LoadChain
  <2>2. i \in Instruments /\ RowTimes(i, clock) # {}
    BY DEF Quoted
  <2>3. QED
    BY <2>1, <2>2, CandidateTold
<1>3. QED
  BY <1>1, <1>2

-----------------------------------------------------------------------------
(* What the stages of a tick come to, whichever of them the tick ends in.  *)
MinDteChain == ChainAtMinDte(tick.chain, tick.situation.min_dte)

LEMMA MinDteChainTold ==
  ASSUME IInv, tick.at = "evaluated"
  PROVE  /\ tick.situation \in Situations /\ tick.now \in Times
         /\ DOMAIN MinDteChain \in SUBSET Nat
         /\ DOMAIN MinDteChain =
              {e \in DOMAIN tick.chain : e >= tick.situation.min_dte}
         /\ \A e \in DOMAIN MinDteChain :
              /\ MinDteChain[e] = tick.chain[e]
              /\ MinDteChain[e] \in SUBSET Candidates
              /\ \A c \in MinDteChain[e] : Priced(c, tick.now)
<1>1. tick # NoTick
  BY DEF NoTick
<1>2. QED
  BY <1>1 DEF IInv, TickTrue, MinDteChain, ChainAtMinDte

LEMMA TickSelection ==
  ASSUME IInv, tick.at = "evaluated", tick.situation.spot # 0, DOMAIN MinDteChain # {},
         NEW got, got = Selection(tick)
  PROVE  /\ got.selected # NoCandidate =>
              /\ got.selected \in Candidates /\ Priced(got.selected, tick.now)
              /\ InWindow(got.selected, tick.result.direction)
         /\ got.selected = NoCandidate =>
              /\ got.reason \in SelectionDenials
              /\ Eligible(tick) = {}
              /\ got.reason = "NO_CANDIDATES_IN_EXPIRY_WINDOW" =>
                   \A e \in DOMAIN tick.chain : \A c \in tick.chain[e] :
                     e >= tick.situation.min_dte => ~InWindow(c, tick.result.direction)
<1> DEFINE terms     == Terms(tick.situation)
           direction == tick.result.direction
<1>1. got = SelectAcrossExpiries(MinDteChain, direction, terms)
  BY DEF Selection, MinDteChain
<1>2. /\ terms.spot \in Nat \ {0} /\ terms.lot_size = LotSize(tick.situation)
      /\ terms.spot = tick.situation.spot
  BY MinDteChainTold, RowsAssumption DEF Terms
<1> HIDE DEF terms
<1>3. /\ DOMAIN MinDteChain \in SUBSET Nat
      /\ \A e \in DOMAIN MinDteChain : MinDteChain[e] \in SUBSET Candidates
  BY MinDteChainTold
<1>4. CASE got.selected # NoCandidate
  <2>1. PICK e \in DOMAIN MinDteChain : got.selected \in MinDteChain[e]
                                          /\ Passes(got.selected, direction, terms)
    BY <1>1, <1>2, <1>3, <1>4, SelectionFacts
  <2>2. QED
    BY <1>4, <2>1, MinDteChainTold DEF Passes
<1>5. CASE got.selected = NoCandidate
  <2>1. /\ got.reason \in SelectionDenials
        /\ \A e \in DOMAIN MinDteChain : \A c \in MinDteChain[e] :
             ~Passes(c, direction, terms)
        /\ got.reason = "NO_CANDIDATES_IN_EXPIRY_WINDOW" =>
             \A e \in DOMAIN MinDteChain : \A c \in MinDteChain[e] : ~InWindow(c, direction)
    BY <1>1, <1>2, <1>3, <1>5, SelectionFacts
  <2>2. ASSUME NEW c \in Eligible(tick) PROVE FALSE
    <3>1. PICK e \in DOMAIN MinDteChain : c \in MinDteChain[e]
      BY MinDteChainTold DEF Eligible
    <3>2. Passes(c, direction, terms)
      BY <1>2 DEF Eligible, Passes, terms
    <3>3. QED
      BY <2>1, <3>1, <3>2
  <2>3. got.reason = "NO_CANDIDATES_IN_EXPIRY_WINDOW" =>
          \A e \in DOMAIN tick.chain : \A c \in tick.chain[e] :
            e >= tick.situation.min_dte => ~InWindow(c, direction)
    BY <2>1, MinDteChainTold
  <2>4. QED
    BY <1>5, <2>1, <2>2, <2>3
<1>6. QED
  BY <1>4, <1>5

(* Every reason is one of the names; one of contract selection is the      *)
(* selector's own; and a tick that ends in none got past every stage.      *)
LEMMA ReasonsTold ==
  ASSUME IInv, tick.at = "evaluated"
  PROVE  /\ RejectReason(tick) \in ReasonsNamed
         /\ RejectReason(tick) \in SelectionDenials =>
              /\ tick.situation.spot # 0 /\ DOMAIN MinDteChain # {}
              /\ Selection(tick).selected = NoCandidate
              /\ RejectReason(tick) = Selection(tick).reason
         /\ RejectReason(tick) = "none" =>
              /\ tick.situation.spot # 0 /\ DOMAIN MinDteChain # {}
              /\ Selection(tick).selected # NoCandidate
              /\ LotSize(tick.situation) # 0
              /\ ~(Execution(tick).filled <= 0)
<1> DEFINE s == tick.situation
           reason == RejectReason(tick)
<1>1. CASE \/ s.halted \/ Below(tick.result, MinConfidence)
           \/ ~Below(tick.result, MaxConfidence)
           \/ s.spot = 0 \/ DOMAIN tick.chain = {} \/ LotSize(s) = 0
           \/ DOMAIN MinDteChain = {}
  <2>1. reason \in {"HEALTH", "BELOW_MIN_CONFIDENCE", "ABOVE_MAX_CONFIDENCE", "NO_CHAIN_DATA",
                    "NO_LOT_SIZE", "NO_EXPIRY_AT_MIN_DTE"}
    BY <1>1 DEF RejectReason, MinDteChain
  <2>2. QED
    BY <2>1 DEF ReasonsNamed, SelectionDenials
<1>2. CASE /\ ~s.halted /\ ~Below(tick.result, MinConfidence)
           /\ Below(tick.result, MaxConfidence)
           /\ s.spot # 0 /\ DOMAIN tick.chain # {} /\ LotSize(s) # 0
           /\ DOMAIN MinDteChain # {}
  <2>1. reason = IF Selection(tick).selected = NoCandidate THEN Selection(tick).reason
                 ELSE IF ~GateChainAllows(Proposal(tick), s.account) THEN "GATE"
                 ELSE IF Lots(tick) <= 0 THEN "SIZING"
                 ELSE IF Execution(tick).filled <= 0 THEN "EXECUTION"
                 ELSE "none"
    BY <1>2 DEF RejectReason, MinDteChain
  <2>2. CASE Selection(tick).selected = NoCandidate
    <3>1. Selection(tick).reason \in SelectionDenials /\ reason = Selection(tick).reason
      BY <1>2, <2>1, <2>2, TickSelection
    <3>2. "none" \notin SelectionDenials
      BY DEF SelectionDenials
    <3>3. QED
      BY <1>2, <2>2, <3>1, <3>2 DEF ReasonsNamed
  <2>3. CASE Selection(tick).selected # NoCandidate
    <3> HIDE DEF reason
    <3>1. /\ reason \in {"GATE", "SIZING", "EXECUTION", "none"}
          /\ reason = "none" => ~(Execution(tick).filled <= 0)
      BY <2>1, <2>3
    <3>2. reason \in ReasonsNamed /\ reason \notin SelectionDenials
      BY <3>1 DEF ReasonsNamed, SelectionDenials
    <3>3. QED
      BY <1>2, <2>3, <3>1, <3>2 DEF reason
  <2>4. QED
    BY <2>2, <2>3
<1>3. QED
  BY <1>1, <1>2

(* How many lots are asked for is a number: the premium of one is above    *)
(* zero, both sides of the book being quoted.                              *)
LEMMA LotsAreNumbers ==
  ASSUME IInv, tick.at = "evaluated", tick.situation.spot # 0, DOMAIN MinDteChain # {},
         Selection(tick).selected # NoCandidate, LotSize(tick.situation) # 0
  PROVE  Lots(tick) \in Int
<1> DEFINE s == tick.situation
           c == Selection(tick).selected
           p == Proposal(tick).premium
           a == s.account
<1>1. c \in Candidates /\ InWindow(c, tick.result.direction)
  BY TickSelection
<1>2. c.bid \in Nat \ {0} /\ c.ask \in Nat \ {0}
  BY <1>1 DEF Candidates, InWindow
<1>3. s.underlying_lot \in Nat /\ s.leg_lot \in Nat /\ a.equity \in Int /\ a.exposure \in Int
        /\ s.budget_lots \in Int
  BY MinDteChainTold, RowsAssumption
<1>4. LegLotSize(s) \in Nat \ {0}
  BY <1>3 DEF LegLotSize, LotSize
<1>5. p \in Nat \ {0}
  <2>1. \A x, y, l \in Nat \ {0} : ((x + y) * l) \div 2 \in Nat \ {0}
    <3>1. ASSUME NEW x \in Nat \ {0}, NEW y \in Nat \ {0}, NEW l \in Nat \ {0}
          PROVE  (x + y) * l \in Nat /\ (x + y) * l >= 2
      <4>1. x + y >= 2 /\ l >= 1
        OBVIOUS
      <4>2. \A m, n \in Nat : m >= 2 /\ n >= 1 => m * n >= 2
        OBVIOUS
      <4>3. QED
        BY <4>1, <4>2
    <3>2. \A m \in Nat : m >= 2 => m \div 2 \in Nat \ {0}
      OBVIOUS
    <3>3. QED
      BY <3>1, <3>2
  <2>2. p = ((c.bid + c.ask) * LegLotSize(s)) \div 2
    BY DEF Proposal
  <2>3. QED
    BY <1>2, <1>4, <2>1, <2>2
<1>6. ExposureCap(a.equity) \in Int /\ MaxPremiumPct * a.equity \in Int
  BY <1>3, CapsAssumption DEF ExposureCap
<1>7. \A x \in Int, y \in Nat \ {0} : x \div y \in Int
  OBVIOUS
<1>8. 100 * p \in Nat \ {0} /\ MaxConcurrent * p \in Nat \ {0}
  BY <1>5, CapsAssumption
<1> HIDE DEF p
<1> DEFINE room == ExposureCap(a.equity) - a.exposure
           u == (MaxPremiumPct * a.equity) \div (100 * p)
           v == IF room > 0 THEN room \div p ELSE 0
           w == ExposureCap(a.equity) \div (MaxConcurrent * p)
<1>9. u \in Int /\ v \in Int /\ w \in Int
  <2>1. u \in Int /\ w \in Int
    BY <1>6, <1>7, <1>8
  <2>2. room \in Int
    BY <1>3, <1>6
  <2>3. room \div p \in Int
    BY <1>5, <1>7, <2>2
  <2>4. QED
    BY <2>1, <2>3
<1>10. CapLots(Proposal(tick), a) = {u, v, w}
  BY DEF CapLots, p
<1> HIDE DEF u, v, w
<1>11. Least({s.budget_lots} \cup CapLots(Proposal(tick), a)) \in {s.budget_lots, u, v, w}
  <2>1. \A b, x, y, z \in Int : \E i \in {b, x, y, z} : \A j \in {b, x, y, z} : i <= j
    OBVIOUS
  <2>2. {s.budget_lots} \cup CapLots(Proposal(tick), a) = {s.budget_lots, u, v, w}
    BY <1>10
  <2>3. \E i \in {s.budget_lots, u, v, w} : \A j \in {s.budget_lots, u, v, w} : i <= j
    BY <1>3, <1>9, <2>1
  <2>4. QED
    BY <2>2, <2>3, Zenon DEF Least
<1>12. QED
  BY <1>3, <1>9, <1>11 DEF Lots, SizePosition

(* A contract some candidate is of has a row to book the trade on.         *)
LEMMA LegIsThere ==
  ASSUME NEW c \in Candidates, NEW now
  PROVE  ResolveLeg(c, now) \in Instruments
<1> DEFINE last  == {LastQuoted(j, now) : j \in LegRows(c)}
           freshest == {i \in LegRows(c) :
                          \A j \in LegRows(c) : LastQuoted(j, now) <= LastQuoted(i, now)}
<1>1. LegRows(c) # {} /\ LegRows(c) \subseteq Instruments
  <2>1. PICK i \in Instruments : c.contract = Contract[i]
    BY DEF Candidates
  <2>2. QED
    BY <2>1 DEF LegRows
<1>2. ASSUME NEW j PROVE LastQuoted(j, now) \in 0..(MaxTime + 1)
  <2> DEFINE ends == {0} \cup {t + 1 : t \in {u \in Times : u <= now
                                                /\ <<j, u>> \in DOMAIN quotes}}
  <2>1. MaxTime \in Nat /\ MaxTime + 1 \in Nat /\ \A t \in Times : t + 1 \in 0..(MaxTime + 1)
    BY EntryAssumption DEF Times
  <2>2. ends \subseteq 0..(MaxTime + 1) /\ ends # {}
    <3>1. \A x \in ends : x = 0 \/ \E t \in Times : x = t + 1
      OBVIOUS
    <3>2. 0 \in 0..(MaxTime + 1) /\ 0 \in ends
      BY <2>1
    <3> HIDE DEF ends
    <3>3. QED
      BY <2>1, <3>1, <3>2
  <2>3. LastQuoted(j, now) = Max(ends)
    BY DEF LastQuoted
  <2> HIDE DEF ends
  <2>4. QED
    BY <2>1, <2>2, <2>3, MaxIsGreatest
<1>3. last \in SUBSET (0..(MaxTime + 1)) /\ last # {} /\ MaxTime + 1 \in Nat
  BY <1>1, <1>2, EntryAssumption
<1>4. PICK i \in LegRows(c) : LastQuoted(i, now) = Max(last)
  <2> HIDE DEF last
  <2>1. Max(last) \in last
    BY <1>3, MaxIsGreatest
  <2>2. QED
    BY <2>1 DEF last
<1>5. \A j \in LegRows(c) : LastQuoted(j, now) <= Max(last)
  <2>1. \A x \in last : x <= Max(last)
    <3> HIDE DEF last
    <3>1. QED
      BY <1>3, MaxIsGreatest
  <2>2. QED
    BY <2>1
<1>6. i \in freshest
  BY <1>4, <1>5
<1>7. freshest \in SUBSET Nat /\ freshest # {}
  BY <1>1, <1>6, RowsAssumption
<1>8. Min(freshest) \in freshest
  <2> HIDE DEF freshest
  <2>1. QED
    BY <1>7, MinIsLeast
<1>9. QED
  BY <1>1, <1>8 DEF ResolveLeg

(* The fill a tick ends in: of a lot at least, off a row that is there,    *)
(* whose content is not older than the broker allows.                      *)
LEMMA FillTold ==
  ASSUME IInv, tick.at = "evaluated", RejectReason(tick) = "none",
         NEW c, c = Selection(tick).selected
  PROVE  /\ c \in Candidates /\ Priced(c, tick.now)
         /\ Execution(tick).filled \in Nat \ {0}
         /\ ~(tick.now - QuoteContentSince(ResolveLeg(c, tick.now), c.ts) > MaxQuoteAge)
<1> DEFINE since == QuoteContentSince(ResolveLeg(c, tick.now), c.ts)
           book  == [bid |-> c.bid, ask |-> c.ask, bid_sz |-> c.bid_sz,
                     ask_sz |-> c.ask_sz, age |-> tick.now - since, oi |-> c.oi]
<1>1. /\ tick.situation.spot # 0 /\ DOMAIN MinDteChain # {}
      /\ c # NoCandidate /\ LotSize(tick.situation) # 0
      /\ ~(Execution(tick).filled <= 0)
  BY ReasonsTold
<1>2. c \in Candidates /\ Priced(c, tick.now) /\ Lots(tick) \in Int
  BY <1>1, TickSelection, LotsAreNumbers
<1>3. Execution(tick) = ComputeFill("BUY", Lots(tick), book, MaxQuoteAge)
  BY DEF Execution
<1>4. book.ask_sz \in Nat /\ book.age = tick.now - since
  BY <1>2 DEF Candidates
<1> HIDE DEF book, since
<1>5. ~Rejected("BUY", Lots(tick), book, MaxQuoteAge)
  BY <1>1, <1>3 DEF ComputeFill
<1>6. MaxFillable("BUY", book) \in Int
  BY <1>4 DEF MaxFillable, TopOfBook
<1>7. Execution(tick).filled \in Int
  BY <1>2, <1>3, <1>5, <1>6 DEF ComputeFill, Smaller
<1>8. ~(tick.now - since > MaxQuoteAge)
  BY <1>4, <1>5 DEF Rejected
<1>9. QED
  BY <1>1, <1>2, <1>7, <1>8 DEF since

-----------------------------------------------------------------------------
(* The run of equal rows that ends at a row did not begin before the       *)
(* moment the engine takes the content to be from, if that moment is       *)
(* within the lookback.                                                    *)
LEMMA SinceIsTrue ==
  ASSUME IInv, NEW i \in Instruments, NEW ts \in Times, <<i, ts>> \in DOMAIN quotes,
         NEW now \in Times, ts <= now,
         ~(now - QuoteContentSince(i, ts) > MaxQuoteAge)
  PROVE  RunStart(i, ts) \in Nat /\ now - RunStart(i, ts) <= MaxQuoteAge
<1> DEFINE window    == RowTimes(i, ts)
           different == {t \in window : ~SameContent(quotes[<<i, t>>], quotes[<<i, ts>>])}
           later     == {t \in window : t > Max(different)}
           times     == {t \in Times : <<i, t>> \in DOMAIN quotes /\ t <= ts}
           run       == {t \in times : \A u \in times :
                           u >= t => SameContent(quotes[<<i, u>>], quotes[<<i, ts>>])}
<1>1. /\ MaxTime \in Nat /\ Times = 0..MaxTime /\ ContentLookback \in Nat
      /\ MaxQuoteAge \in Nat /\ MaxQuoteAge < ContentLookback
  BY EntryAssumption DEF Times
<1>2. \A t : t \in window <=> t \in Times /\ <<i, t>> \in DOMAIN quotes /\ t <= ts
                                /\ t >= ts - ContentLookback
  BY DEF RowTimes
<1>3. QuoteContentSince(i, ts) = IF different = {} THEN ts - ContentLookback ELSE Min(later)
  BY DEF QuoteContentSince
<1>4. RunStart(i, ts) = Min(run)
  BY DEF RunStart
<1>5. ts \in run
  <2>1. \A u \in times : u >= ts => u = ts
    BY <1>1
  <2>2. ts \in times /\ SameContent(quotes[<<i, ts>>], quotes[<<i, ts>>])
    BY <1>1 DEF SameContent
  <2>3. QED
    BY <2>1, <2>2
<1>6. run \in SUBSET Nat /\ run # {} /\ \A t \in run : t \in times
  <2>1. \A t \in run : t \in times /\ t \in Times
    OBVIOUS
  <2> HIDE DEF run, times
  <2>2. QED
    BY <1>1, <1>5, <2>1
<1>7. Min(run) \in run /\ Min(run) \in Nat
  <2> HIDE DEF run
  <2>1. QED
    BY <1>6, MinIsLeast
<1>8. different # {}
  <2> SUFFICES ASSUME different = {} PROVE FALSE
    OBVIOUS
  <2>1. QuoteContentSince(i, ts) = ts - ContentLookback
    BY <1>3
  <2>2. QED
    BY <1>1, <2>1
<1>9. Max(different) \in different
  <2>1. different \in SUBSET (0..MaxTime)
    BY <1>1, <1>2
  <2> HIDE DEF different
  <2>2. QED
    BY <1>1, <1>8, <2>1, MaxIsGreatest
<1>10. Max(different) \in times /\ Max(different) \in 0..MaxTime
         /\ ~SameContent(quotes[<<i, Max(different)>>], quotes[<<i, ts>>])
         /\ Max(different) >= ts - ContentLookback
  <2>1. \A t \in different : t \in window /\ ~SameContent(quotes[<<i, t>>], quotes[<<i, ts>>])
    OBVIOUS
  <2> HIDE DEF different, window
  <2>2. QED
    BY <1>1, <1>2, <1>9, <2>1
<1>11. Min(run) > Max(different)
  <2> SUFFICES ASSUME Max(different) >= Min(run) PROVE FALSE
    BY <1>7, <1>10
  <2>1. \A u \in times : u >= Min(run) => SameContent(quotes[<<i, u>>], quotes[<<i, ts>>])
    BY <1>7
  <2>2. QED
    BY <1>10, <2>1
<1>12. Min(run) \in later
  <2>1. Min(run) \in times
    BY <1>6, <1>7
  <2>2. Min(run) \in Times /\ <<i, Min(run)>> \in DOMAIN quotes /\ Min(run) <= ts
    BY <2>1
  <2>3. Min(run) >= ts - ContentLookback
    BY <1>1, <1>7, <1>10, <1>11
  <2>4. Min(run) \in window
    <3> HIDE DEF window
    <3>1. QED
      BY <1>2, <2>2, <2>3
  <2>5. QED
    BY <1>11, <2>4
<1>13. Min(later) <= Min(run) /\ Min(later) \in Nat
  <2>1. later \in SUBSET Nat /\ later # {}
    <3>1. \A t \in later : t \in Times
      BY DEF RowTimes
    <3>2. Times \subseteq Nat
      BY <1>1
    <3> HIDE DEF later
    <3>3. QED
      BY <1>12, <3>1, <3>2
  <2> HIDE DEF later
  <2>2. QED
    BY <1>12, <2>1, MinIsLeast
<1>14. QuoteContentSince(i, ts) = Min(later)
  BY <1>3, <1>8
<1> HIDE DEF run, later
<1>15. QED
  BY <1>1, <1>4, <1>7, <1>13, <1>14

-----------------------------------------------------------------------------
(* The steps.  The recorder's row is at the clock: no run of rows that     *)
(* ended before it, and none a trade was priced by, changes.               *)
LEMMA RunStays ==
  ASSUME NEW i, NEW ts, NEW row, row \notin DOMAIN quotes,
         DOMAIN quotes' = DOMAIN quotes \cup {row},
         \A r \in DOMAIN quotes : quotes'[r] = quotes[r],
         \A t \in Times : t <= ts => row # <<i, t>>,
         <<i, ts>> \in DOMAIN quotes
  PROVE  RunStart(i, ts)' = RunStart(i, ts)
<1> DEFINE times == {t \in Times : <<i, t>> \in DOMAIN quotes /\ t <= ts}
           after == {t \in Times : <<i, t>> \in DOMAIN quotes' /\ t <= ts}
<1>1. after = times
  OBVIOUS
<1>2. \A t \in times : quotes'[<<i, t>>] = quotes[<<i, t>>]
  OBVIOUS
<1>3. quotes'[<<i, ts>>] = quotes[<<i, ts>>]
  OBVIOUS
<1>4. {t \in after : \A u \in after :
         u >= t => SameContent(quotes'[<<i, u>>], quotes'[<<i, ts>>])}
      = {t \in times : \A u \in times :
           u >= t => SameContent(quotes[<<i, u>>], quotes[<<i, ts>>])}
  BY <1>1, <1>2, <1>3
<1>5. QED
  BY <1>4 DEF RunStart

LEMMA WriteQuoteKeeps ==
  ASSUME IInv, NEW i \in Instruments, NEW content \in Contents[i], WriteQuote(i, content)
  PROVE  IInv'
<1> DEFINE row == <<i, clock>>
<1>1. /\ row \notin DOMAIN quotes
      /\ DOMAIN quotes' = DOMAIN quotes \cup {row}
      /\ quotes'[row] = content
      /\ \A r \in DOMAIN quotes : quotes'[r] = quotes[r]
      /\ UNCHANGED <<clock, tick, vectors, signals, trades, filled, leftover, unfinished>>
  BY DEF WriteQuote, tables
<1>2. TablesTyped'
  <2>1. clock \in Nat
    BY EntryAssumption DEF IInv, TablesTyped, Times
  <2>2. content \in [mark : Int, bid : Int, ask : Int, bid_sz : Nat, ask_sz : Nat,
                     age : Nat, oi : Nat, volume : Nat, quiet : BOOLEAN]
    BY RowsAssumption
  <2>3. \E j \in Instruments, t \in 0..clock : row = <<j, t>>
    BY <2>1
  <2>4. \A r \in DOMAIN quotes' :
          /\ \E j \in Instruments, t \in 0..clock : r = <<j, t>>
          /\ quotes'[r] \in [mark : Int, bid : Int, ask : Int, bid_sz : Nat, ask_sz : Nat,
                             age : Nat, oi : Nat, volume : Nat, quiet : BOOLEAN]
    <3> HIDE DEF row
    <3>1. QED
      BY <1>1, <2>2, <2>3 DEF IInv, TablesTyped
  <2>5. QED
    BY <1>1, <2>4 DEF IInv, TablesTyped
<1>3. \A c, now : Priced(c, now) => Priced(c, now)'
  BY <1>1 DEF Priced
<1>4. TickTrue' /\ LeftoverTrue'
  BY <1>1, <1>3 DEF IInv, TickTrue, LeftoverTrue
<1>5. TradesPriced'
  BY <1>1, <1>3 DEF IInv, TradesPriced
<1>6. SignalsTellTheTrade'
  BY <1>1 DEF IInv, SignalsTellTheTrade
<1>7. FreshPriceOnly'
  <2> SUFFICES ASSUME NEW k \in 1..Len(trades),
                      trades[k].instrument = trades[k].priced_by.id
               PROVE  (trades[k].opened
                         - RunStart(trades[k].instrument, trades[k].priced_by.ts)
                           <= MaxQuoteAge)'
    BY <1>1 DEF FreshPriceOnly
  <2> DEFINE c == trades[k].priced_by
  <2>1. Priced(c, trades[k].opened)
    BY DEF IInv, TradesPriced
  <2>2. trades[k] \in TradeRows
    BY DEF IInv, TablesTyped
  <2>3. c.ts \in Int /\ clock \in Int /\ trades[k].opened \in Int /\ Times \subseteq Int
    <3>1. c \in Candidates /\ c.ts \in Times /\ trades[k].opened \in Times
      BY <2>2 DEF TradeRows, Candidates
    <3>2. Times \subseteq Int /\ clock \in Times
      BY EntryAssumption DEF Times, IInv, TablesTyped
    <3>3. QED
      BY <3>1, <3>2
  <2>4. c.ts <= clock
    BY <2>1, <2>3 DEF Priced
  <2>5. \A t \in Times : t <= c.ts => row # <<c.id, t>>
    <3> SUFFICES ASSUME NEW t \in Times, t <= c.ts, row = <<c.id, t>> PROVE FALSE
      OBVIOUS
    <3>1. c.id = i /\ t = clock
      OBVIOUS
    <3>2. c.ts = clock
      BY <2>3, <2>4, <3>1
    <3>3. QED
      BY <1>1, <2>1, <3>1, <3>2 DEF Priced
  <2>6. RunStart(c.id, c.ts)' = RunStart(c.id, c.ts)
    BY <1>1, <2>1, <2>5, RunStays DEF Priced
  <2>7. QED
    BY <1>1, <2>6 DEF IInv, FreshPriceOnly
<1>8. QED
  BY <1>2, <1>4, <1>5, <1>6, <1>7 DEF IInv

LEMMA TimePassesKeeps == ASSUME IInv, TimePasses PROVE IInv'
<1>1. clock' = clock + 1 /\ clock < MaxTime
        /\ UNCHANGED <<quotes, tick, vectors, signals, trades, filled, leftover, unfinished>>
  BY DEF TimePasses, tables
<1>2. clock \in 0..MaxTime /\ MaxTime \in Nat /\ clock' \in Times /\ clock \in Nat
  BY <1>1, EntryAssumption DEF IInv, TablesTyped, Times
<1>3. TablesTyped'
  <2>1. \A i \in Instruments, t \in 0..clock : t \in 0..clock'
    BY <1>1, <1>2
  <2>2. QED
    BY <1>1, <1>2, <2>1 DEF IInv, TablesTyped
<1>4. ASSUME NEW c, NEW now \in Times, Priced(c, now) PROVE Priced(c, now)'
  BY <1>1, <1>2, <1>4 DEF Priced, Times
<1>5. TickTrue' /\ LeftoverTrue'
  BY <1>1, <1>4 DEF IInv, TickTrue, LeftoverTrue
<1>6. TradesPriced'
  <2>1. \A k \in 1..Len(trades) : trades[k].opened \in Times
    <3>1. \A k \in 1..Len(trades) : trades[k] \in TradeRows
      BY DEF IInv, TablesTyped
    <3>2. QED
      BY <3>1 DEF TradeRows
  <2>2. QED
    BY <1>1, <1>4, <2>1 DEF IInv, TradesPriced
<1>7. SignalsTellTheTrade'
  BY <1>1 DEF IInv, SignalsTellTheTrade
<1>8. FreshPriceOnly'
  BY <1>1 DEF IInv, FreshPriceOnly, RunStart
<1>9. QED
  BY <1>3, <1>5, <1>6, <1>7, <1>8 DEF IInv

(* Whatever leaves the tables of a tick alone, or only tells of one more   *)
(* instant, keeps the story.                                               *)
LEMMA TickOnlyKeeps ==
  ASSUME IInv, UNCHANGED <<clock, quotes, signals, trades, filled, unfinished>>,
         vectors \subseteq vectors', TickTrue', LeftoverTrue'
  PROVE  IInv'
<1>1. TablesTyped'
  BY DEF IInv, TablesTyped
<1>2. TradesPriced'
  BY DEF IInv, TradesPriced, Priced
<1>3. SignalsTellTheTrade'
  BY DEF IInv, SignalsTellTheTrade
<1>4. FreshPriceOnly'
  BY DEF IInv, FreshPriceOnly, RunStart
<1>5. QED
  BY <1>1, <1>2, <1>3, <1>4 DEF IInv

LEMMA EvaluateKeeps ==
  ASSUME IInv, NEW situation \in Situations, Evaluate(situation)
  PROVE  IInv'
<1> DEFINE result == Score(Detect(situation.features, situation.is_index))
           chain == LoadChain(clock, situation.market)
<1>1. /\ vectors' = vectors \cup {clock}
      /\ tick' = IF result.direction = "NONE" THEN NoTick
                 ELSE [at |-> "evaluated", now |-> clock, situation |-> situation,
                       chain |-> chain, result |-> result]
      /\ UNCHANGED <<clock, quotes, signals, trades, filled, leftover, unfinished>>
      /\ leftover = <<>>
  BY DEF Evaluate, tables
<1>2. /\ DOMAIN chain \in SUBSET Nat
      /\ \A e \in DOMAIN chain :
           chain[e] \in SUBSET Candidates /\ \A c \in chain[e] : Priced(c, clock)
  BY ChainTold
<1> HIDE DEF result, chain
<1>3. TickTrue'
  <2>1. CASE result.direction = "NONE"
    BY <1>1, <2>1 DEF TickTrue
  <2>2. CASE result.direction # "NONE"
    <3>1. tick' = [at |-> "evaluated", now |-> clock, situation |-> situation,
                   chain |-> chain, result |-> result]
      BY <1>1, <2>2
    <3>2. clock \in Times /\ clock \in vectors'
      BY <1>1 DEF IInv, TablesTyped
    <3>3. QED
      BY <1>1, <1>2, <3>1, <3>2 DEF TickTrue, Priced
  <2>3. QED
    BY <2>1, <2>2
<1>4. LeftoverTrue'
  BY <1>1 DEF LeftoverTrue
<1>5. QED
  BY <1>1, <1>3, <1>4, TickOnlyKeeps

LEMMA AbandonKeeps == ASSUME IInv, Abandon PROVE IInv'
<1>1. /\ TickTrue' /\ LeftoverTrue'
      /\ UNCHANGED <<clock, quotes, vectors, signals, trades, filled, unfinished>>
  BY DEF Abandon, TickTrue, LeftoverTrue, tables
<1>2. QED
  BY <1>1, TickOnlyKeeps

LEMMA RaiseKeeps == ASSUME IInv, Raise PROVE IInv'
<1>1. /\ tick.at = "evaluated" /\ tick' = NoTick
      /\ leftover' = <<SignalRow(tick, "none", "REJECTED")>>
      /\ UNCHANGED <<clock, quotes, vectors, signals, trades, filled, unfinished>>
  BY DEF Raise, tables
<1>2. tick.now \in vectors \cap Times
  BY <1>1 DEF IInv, TickTrue, NoTick
<1>3. leftover' = <<LeftRow(tick.now)>>
  BY <1>1 DEF SignalRow, LeftRow
<1>4. TickTrue' /\ LeftoverTrue'
  BY <1>1, <1>2, <1>3 DEF TickTrue, LeftoverTrue
<1>5. QED
  BY <1>1, <1>4, TickOnlyKeeps

(* What SignalsTellTheTrade says of one signal.                            *)
TellsTrade(n) ==
  LET traded == \E k \in 1..Len(trades) : trades[k].signal = n
  IN  /\ signals[n].ts \in vectors
      /\ signals[n].decision = "TAKEN" => traded
      /\ signals[n].reason = "none" => (traded <=> n \notin unfinished)

(* A signal more, and where it ends up.                                    *)
LEMMA SignalAdded ==
  ASSUME IInv, NEW row \in SignalRows, signals' = Append(signals, row)
  PROVE  /\ signals' \in Seq(SignalRows) /\ Len(signals') = Len(signals) + 1
         /\ Len(signals) \in Nat
         /\ signals'[Len(signals) + 1] = row
         /\ \A n \in 1..Len(signals) : signals'[n] = signals[n]
  BY DEF IInv, TablesTyped

(* The session's next commit adds a signal without a reason or a trade.    *)
LEMMA SessionCommitsKeeps == ASSUME IInv, SessionCommits PROVE IInv'
<1>1. /\ leftover # <<>> /\ signals' = signals \o leftover
      /\ unfinished' = unfinished \cup {Len(signals) + 1} /\ leftover' = <<>>
      /\ UNCHANGED <<clock, quotes, tick, vectors, trades, filled>>
  BY DEF SessionCommits
<1>2. PICK t \in vectors \cap Times : leftover = <<LeftRow(t)>>
  BY <1>1 DEF IInv, LeftoverTrue
<1>3. tick = NoTick
  BY <1>1 DEF IInv, LeftoverTrue
<1>4. LeftRow(t) \in SignalRows
  BY DEF LeftRow, SignalRows, ReasonsNamed
<1>5. signals' = Append(signals, LeftRow(t))
  <2>1. signals \in Seq(SignalRows)
    BY DEF IInv, TablesTyped
  <2>2. QED
    BY <1>1, <1>2, <1>4, <2>1
<1>6. /\ signals' \in Seq(SignalRows) /\ Len(signals') = Len(signals) + 1
      /\ Len(signals) \in Nat
      /\ signals'[Len(signals) + 1] = LeftRow(t)
      /\ \A n \in 1..Len(signals) : signals'[n] = signals[n]
  BY <1>4, <1>5, SignalAdded
<1>7. /\ \A n \in 1..Len(signals') : n \in 1..Len(signals) \/ n = Len(signals) + 1
      /\ \A n \in 1..Len(signals) : n \in 1..Len(signals') /\ n # Len(signals) + 1
      /\ Len(signals) + 1 \in 1..Len(signals')
  BY <1>6
<1>8. TablesTyped'
  BY <1>1, <1>6, <1>7 DEF IInv, TablesTyped
<1>9. TickTrue' /\ LeftoverTrue' /\ TradesPriced'
  BY <1>1, <1>3 DEF IInv, TickTrue, LeftoverTrue, TradesPriced, Priced
<1>10. SignalsTellTheTrade'
  <2>1. ASSUME NEW k \in 1..Len(trades)
        PROVE  /\ k \in filled' /\ trades[k].qty > 0
               /\ trades[k].signal \in 1..Len(signals')
               /\ signals'[trades[k].signal].reason = "none"
               /\ \A m \in 1..Len(trades) : trades[m].signal = trades[k].signal => m = k
    BY <1>1, <1>6, <1>7 DEF IInv, SignalsTellTheTrade
  <2>2. ASSUME NEW n \in 1..Len(signals')
        PROVE  TellsTrade(n)'
    <3>1. CASE n \in 1..Len(signals)
      <4>1. TellsTrade(n) /\ signals'[n] = signals[n] /\ n # Len(signals) + 1
        BY <1>6, <1>7, <3>1 DEF IInv, SignalsTellTheTrade, TellsTrade
      <4>2. QED
        BY <1>1, <4>1 DEF TellsTrade
    <3>2. CASE n = Len(signals) + 1
      <4>1. \A k \in 1..Len(trades) : trades[k].signal # n
        BY <1>7, <3>2 DEF IInv, SignalsTellTheTrade
      <4>2. /\ signals'[n].ts = t /\ signals'[n].decision = "REJECTED"
            /\ n \in unfinished'
        BY <1>1, <1>6, <3>2 DEF LeftRow
      <4>3. QED
        BY <1>1, <1>2, <4>1, <4>2 DEF TellsTrade
    <3>3. QED
      BY <1>7, <3>1, <3>2
  <2>3. QED
    BY <1>1, <2>1, <2>2 DEF SignalsTellTheTrade, TellsTrade
<1>11. FreshPriceOnly'
  BY <1>1 DEF IInv, FreshPriceOnly, RunStart
<1>12. QED
  BY <1>8, <1>9, <1>10, <1>11 DEF IInv

LEMMA RejectKeeps == ASSUME IInv, Reject PROVE IInv'
<1> DEFINE row == SignalRow(tick, RejectReason(tick), "REJECTED")
<1>1. /\ tick.at = "evaluated" /\ RejectReason(tick) # "none"
      /\ signals' = Append(signals, row)
      /\ tick' = NoTick
      /\ UNCHANGED <<clock, quotes, vectors, trades, filled, leftover, unfinished>>
  BY DEF Reject
<1>2. tick.now \in Times /\ tick.now \in vectors
  BY <1>1 DEF IInv, TickTrue, NoTick
<1>3. /\ row = [ts |-> tick.now, decision |-> "REJECTED", reason |-> RejectReason(tick)]
      /\ row \in SignalRows
  BY <1>1, <1>2, ReasonsTold DEF SignalRow, SignalRows
<1> HIDE DEF row
<1>4. /\ signals' \in Seq(SignalRows) /\ Len(signals') = Len(signals) + 1
      /\ Len(signals) \in Nat
      /\ signals'[Len(signals) + 1] = row
      /\ \A n \in 1..Len(signals) : signals'[n] = signals[n]
  BY <1>1, <1>3, SignalAdded
<1>5. TablesTyped'
  BY <1>1, <1>4 DEF IInv, TablesTyped
<1>6. TickTrue' /\ LeftoverTrue'
  BY <1>1 DEF TickTrue, IInv, LeftoverTrue
<1>7. TradesPriced'
  BY <1>1 DEF IInv, TradesPriced, Priced
<1>8. SignalsTellTheTrade'
  <2>1. \A n \in 1..Len(signals') : n \in 1..Len(signals) \/ n = Len(signals) + 1
    BY <1>4
  <2>2. \A n \in 1..Len(signals) : n \in 1..Len(signals')
    BY <1>4
  <2>3. ASSUME NEW k \in 1..Len(trades)
        PROVE  /\ k \in filled' /\ trades[k].qty > 0
               /\ trades[k].signal \in 1..Len(signals')
               /\ signals'[trades[k].signal].reason = "none"
               /\ \A m \in 1..Len(trades) : trades[m].signal = trades[k].signal => m = k
    BY <1>1, <1>4, <2>2 DEF IInv, SignalsTellTheTrade
  <2>4. ASSUME NEW n \in 1..Len(signals')
        PROVE  TellsTrade(n)'
    <3>1. CASE n \in 1..Len(signals)
      <4>1. TellsTrade(n) /\ signals'[n] = signals[n]
        BY <1>4, <3>1 DEF IInv, SignalsTellTheTrade, TellsTrade
      <4>2. QED
        BY <1>1, <4>1 DEF TellsTrade
    <3>2. CASE n = Len(signals) + 1
      BY <1>1, <1>2, <1>3, <1>4, <3>2 DEF TellsTrade
    <3>3. QED
      BY <2>1, <3>1, <3>2
  <2>5. QED
    BY <1>1, <2>3, <2>4 DEF SignalsTellTheTrade, TellsTrade
<1>9. FreshPriceOnly'
  BY <1>1 DEF IInv, FreshPriceOnly, RunStart
<1>10. QED
  BY <1>5, <1>6, <1>7, <1>8, <1>9 DEF IInv

LEMMA RecordFillKeeps == ASSUME IInv, RecordFill PROVE IInv'
<1>0. PICK c : c = Selection(tick).selected
  OBVIOUS
<1> DEFINE row   == SignalRow(tick, "none", "REJECTED")
           trade == TradeRow(tick)
           last  == Len(trades) + 1
<1>1. /\ tick.at = "evaluated" /\ RejectReason(tick) = "none"
      /\ signals' = Append(signals, row) /\ trades' = Append(trades, trade)
      /\ filled' = filled \cup {last}
      /\ tick' = [tick EXCEPT !.at = "filled"]
      /\ UNCHANGED <<clock, quotes, vectors, leftover, unfinished>>
  BY DEF RecordFill
<1>2. tick # NoTick /\ tick.now \in Times /\ tick.now \in vectors
  BY <1>1 DEF IInv, TickTrue, NoTick
<1>3. /\ c \in Candidates /\ Priced(c, tick.now)
      /\ Execution(tick).filled \in Nat \ {0}
      /\ ~(tick.now - QuoteContentSince(ResolveLeg(c, tick.now), c.ts) > MaxQuoteAge)
  BY <1>0, <1>1, FillTold
<1>4. /\ row = [ts |-> tick.now, decision |-> "REJECTED", reason |-> "none"]
      /\ row \in SignalRows
  BY <1>2 DEF SignalRow, SignalRows, ReasonsNamed
<1>5. /\ trade = [signal |-> Len(signals) + 1, instrument |-> ResolveLeg(c, tick.now),
                  opened |-> tick.now, priced_by |-> c, qty |-> Execution(tick).filled]
      /\ Len(signals) \in Nat /\ Len(trades) \in Nat
      /\ ResolveLeg(c, tick.now) \in Instruments
  BY <1>0, <1>3, LegIsThere DEF TradeRow, IInv, TablesTyped
<1>6. trade \in TradeRows
  BY <1>2, <1>3, <1>5 DEF TradeRows
<1> HIDE DEF row, trade
<1>7. /\ signals' \in Seq(SignalRows) /\ Len(signals') = Len(signals) + 1
      /\ signals'[Len(signals) + 1] = row
      /\ \A n \in 1..Len(signals) : signals'[n] = signals[n]
  BY <1>1, <1>4, SignalAdded
<1>8. /\ trades' \in Seq(TradeRows) /\ Len(trades') = last
      /\ trades'[last] = trade
      /\ \A k \in 1..Len(trades) : trades'[k] = trades[k]
  BY <1>1, <1>6 DEF IInv, TablesTyped
<1>9. /\ \A n \in 1..Len(signals') : n \in 1..Len(signals) \/ n = Len(signals) + 1
      /\ \A k \in 1..Len(trades') : k \in 1..Len(trades) \/ k = last
      /\ \A n \in 1..Len(signals) : n \in 1..Len(signals')
      /\ Len(signals) + 1 \notin 1..Len(signals)
      /\ Len(signals) + 1 \in 1..Len(signals')
  BY <1>5, <1>7, <1>8
<1>10. TablesTyped' /\ Len(signals) + 1 \notin unfinished
  BY <1>1, <1>7, <1>8, <1>9 DEF IInv, TablesTyped
<1>11. TickTrue' /\ LeftoverTrue'
  <2>1. tick' = [at |-> "filled", now |-> tick.now, situation |-> tick.situation,
                 chain |-> tick.chain, result |-> tick.result]
    BY <1>1, <1>2 DEF IInv, TickTrue
  <2>2. /\ signals' # <<>> /\ signals'[Len(signals')].reason = "none"
        /\ Len(signals') \notin unfinished'
    BY <1>1, <1>4, <1>5, <1>7, <1>10
  <2>3. leftover = <<>>
    BY <1>2 DEF IInv, LeftoverTrue
  <2>4. QED
    BY <1>1, <1>2, <2>1, <2>2, <2>3 DEF IInv, TickTrue, LeftoverTrue, Priced
<1>12. TradesPriced'
  <2>1. trade.priced_by = c /\ trade.opened = tick.now
    BY <1>5
  <2>2. ASSUME NEW k \in 1..Len(trades') PROVE Priced(trades[k].priced_by, trades[k].opened)'
    <3>1. CASE k \in 1..Len(trades)
      BY <1>1, <1>8, <3>1 DEF IInv, TradesPriced, Priced
    <3>2. CASE k = last
      BY <1>1, <1>3, <1>8, <2>1, <3>2 DEF Priced
    <3>3. QED
      BY <1>9, <3>1, <3>2
  <2>3. QED
    BY <2>2 DEF TradesPriced
<1>13. SignalsTellTheTrade'
  <2>1. ASSUME NEW k \in 1..Len(trades')
        PROVE  /\ k \in filled' /\ trades'[k].qty > 0
               /\ trades'[k].signal \in 1..Len(signals')
               /\ signals'[trades'[k].signal].reason = "none"
               /\ \A m \in 1..Len(trades') : trades'[m].signal = trades'[k].signal => m = k
    <3>1. CASE k \in 1..Len(trades)
      <4>1. /\ trades'[k] = trades[k] /\ k \in filled /\ trades[k].qty > 0
            /\ trades[k].signal \in 1..Len(signals)
            /\ signals[trades[k].signal].reason = "none"
            /\ \A m \in 1..Len(trades) : trades[m].signal = trades[k].signal => m = k
        BY <1>8, <3>1 DEF IInv, SignalsTellTheTrade
      <4>2. trades'[last].signal = Len(signals) + 1
        BY <1>5, <1>8
      <4>3. \A m \in 1..Len(trades') : trades'[m].signal = trades'[k].signal => m = k
        BY <1>8, <1>9, <4>1, <4>2
      <4>4. QED
        BY <1>1, <1>7, <1>9, <4>1, <4>3
    <3>2. CASE k = last
      <4>1. trades'[k].signal = Len(signals) + 1 /\ trades'[k].qty > 0 /\ k \in filled'
        BY <1>1, <1>3, <1>5, <1>8, <3>2
      <4>2. \A m \in 1..Len(trades) : trades'[m].signal # Len(signals) + 1
        BY <1>8, <1>9 DEF IInv, SignalsTellTheTrade
      <4>3. signals'[Len(signals) + 1].reason = "none"
        BY <1>4, <1>7
      <4>4. QED
        BY <1>9, <3>2, <4>1, <4>2, <4>3
    <3>3. QED
      BY <1>9, <3>1, <3>2
  <2>2. ASSUME NEW n \in 1..Len(signals') PROVE TellsTrade(n)'
    <3>1. CASE n \in 1..Len(signals)
      <4>1. TellsTrade(n) /\ signals'[n] = signals[n]
        BY <1>7, <3>1 DEF IInv, SignalsTellTheTrade, TellsTrade
      <4>2. \A k \in 1..Len(trades) : k \in 1..Len(trades') /\ trades'[k] = trades[k]
        BY <1>5, <1>8
      <4>3. trades'[last].signal # n
        BY <1>5, <1>8, <1>9, <3>1
      <4>4. (\E k \in 1..Len(trades') : trades'[k].signal = n)
              <=> (\E k \in 1..Len(trades) : trades[k].signal = n)
        BY <1>9, <4>2, <4>3
      <4>5. QED
        BY <1>1, <4>1, <4>4 DEF TellsTrade
    <3>2. CASE n = Len(signals) + 1
      <4>1. last \in 1..Len(trades') /\ trades'[last].signal = n
        BY <1>5, <1>8, <3>2
      <4>2. signals'[n].ts = tick.now /\ n \notin unfinished'
        BY <1>1, <1>4, <1>7, <1>10, <3>2
      <4>3. QED
        BY <1>1, <1>2, <4>1, <4>2 DEF TellsTrade
    <3>3. QED
      BY <1>9, <3>1, <3>2
  <2>3. QED
    BY <2>1, <2>2 DEF SignalsTellTheTrade, TellsTrade
<1>14. FreshPriceOnly'
  <2> SUFFICES ASSUME NEW k \in 1..Len(trades'), trades'[k].instrument = trades'[k].priced_by.id
               PROVE  (trades[k].opened
                         - RunStart(trades[k].instrument, trades[k].priced_by.ts)
                           <= MaxQuoteAge)'
    BY DEF FreshPriceOnly
  <2>1. CASE k \in 1..Len(trades)
    BY <1>1, <1>8, <2>1 DEF IInv, FreshPriceOnly, RunStart
  <2>2. CASE k = last
    <3>1. /\ trades'[k].opened = tick.now /\ trades'[k].priced_by = c
          /\ trades'[k].instrument = c.id /\ ResolveLeg(c, tick.now) = c.id
      BY <1>5, <1>8, <2>2
    <3>2. /\ c.id \in Instruments /\ c.ts \in Times /\ <<c.id, c.ts>> \in DOMAIN quotes
          /\ c.ts <= tick.now
          /\ ~(tick.now - QuoteContentSince(c.id, c.ts) > MaxQuoteAge)
      BY <1>3, <3>1 DEF Candidates, Priced
    <3>3. tick.now - RunStart(c.id, c.ts) <= MaxQuoteAge
      BY <1>2, <3>2, SinceIsTrue
    <3>4. RunStart(c.id, c.ts)' = RunStart(c.id, c.ts)
      BY <1>1 DEF RunStart
    <3>5. QED
      BY <3>1, <3>3, <3>4
  <2>3. QED
    BY <1>9, <2>1, <2>2
<1>15. QED
  BY <1>10, <1>11, <1>12, <1>13, <1>14 DEF IInv

(* The second commit finds the signal the first one wrote.                 *)
LEMMA MarkTakenKeeps == ASSUME IInv, MarkTaken PROVE IInv'
<1> DEFINE last == Len(signals)
<1>1. /\ tick.at = "filled" /\ signals' = [signals EXCEPT ![last].decision = "TAKEN"]
      /\ tick' = NoTick
      /\ UNCHANGED <<clock, quotes, vectors, trades, filled, leftover, unfinished>>
  BY DEF MarkTaken
<1>2. signals # <<>> /\ signals[last].reason = "none" /\ last \notin unfinished
  BY <1>1 DEF IInv, TickTrue, NoTick
<1>3. signals \in Seq(SignalRows) /\ last \in 1..Len(signals)
  BY <1>2 DEF IInv, TablesTyped
<1>4. /\ \A n \in 1..Len(signals) : n # last => signals'[n] = signals[n]
      /\ signals'[last] = [signals[last] EXCEPT !.decision = "TAKEN"]
      /\ DOMAIN signals' = DOMAIN signals
  BY <1>1, <1>3
<1>5. /\ signals[last] \in SignalRows /\ signals'[last] \in SignalRows
      /\ signals'[last].ts = signals[last].ts /\ signals'[last].reason = signals[last].reason
  <2>1. signals[last] \in SignalRows
    BY <1>3
  <2>2. signals[last] \in [ts : Times, decision : {"REJECTED", "TAKEN"}, reason : ReasonsNamed]
    BY <2>1 DEF SignalRows
  <2>3. signals'[last] = [ts |-> signals[last].ts, decision |-> "TAKEN",
                          reason |-> signals[last].reason]
    BY <1>4, <2>2
  <2>4. QED
    BY <2>1, <2>2, <2>3 DEF SignalRows
<1>6. signals' \in Seq(SignalRows) /\ Len(signals') = Len(signals)
  BY <1>1, <1>3, <1>5
<1>7. TablesTyped'
  BY <1>1, <1>6 DEF IInv, TablesTyped
<1>8. TickTrue' /\ LeftoverTrue'
  BY <1>1 DEF TickTrue, IInv, LeftoverTrue
<1>9. TradesPriced'
  BY <1>1 DEF IInv, TradesPriced, Priced
<1>10. \A n \in 1..Len(signals) :
         signals'[n].ts = signals[n].ts /\ signals'[n].reason = signals[n].reason
           /\ (signals'[n].decision = "TAKEN" => signals[n].decision = "TAKEN" \/ n = last)
  BY <1>4, <1>5
<1>11. SignalsTellTheTrade'
  <2>1. \E k \in 1..Len(trades) : trades[k].signal = last
    BY <1>2, <1>3 DEF IInv, SignalsTellTheTrade
  <2>2. ASSUME NEW n \in 1..Len(signals) PROVE TellsTrade(n)'
    <3>1. TellsTrade(n)
      BY DEF IInv, SignalsTellTheTrade, TellsTrade
    <3>2. QED
      BY <1>1, <1>10, <2>1, <3>1 DEF TellsTrade
  <2>3. ASSUME NEW k \in 1..Len(trades)
        PROVE  /\ k \in filled /\ trades[k].qty > 0
               /\ trades[k].signal \in 1..Len(signals)
               /\ signals'[trades[k].signal].reason = "none"
               /\ \A m \in 1..Len(trades) : trades[m].signal = trades[k].signal => m = k
    BY <1>10 DEF IInv, SignalsTellTheTrade
  <2>4. QED
    BY <1>1, <1>6, <2>2, <2>3 DEF SignalsTellTheTrade, TellsTrade
<1>12. FreshPriceOnly'
  BY <1>1 DEF IInv, FreshPriceOnly, RunStart
<1>13. QED
  BY <1>7, <1>8, <1>9, <1>11, <1>12 DEF IInv

LEMMA StepIInv == IInv /\ [Next]_vars => IInv'
<1> SUFFICES ASSUME IInv, [Next]_vars PROVE IInv'
  OBVIOUS
<1>1. CASE UNCHANGED vars
  <2>1. UNCHANGED <<clock, quotes, signals, trades, filled, unfinished>> /\ vectors \subseteq vectors'
    BY <1>1 DEF vars, tables
  <2>2. TickTrue' /\ LeftoverTrue'
    BY <1>1 DEF vars, tables, IInv, TickTrue, LeftoverTrue, Priced
  <2>3. QED
    BY <2>1, <2>2, TickOnlyKeeps
<1>2. QED
  BY <1>1, WriteQuoteKeeps, TimePassesKeeps, EvaluateKeeps, RejectKeeps, RecordFillKeeps,
     MarkTakenKeeps, RaiseKeeps, SessionCommitsKeeps, AbandonKeeps DEF Next

-----------------------------------------------------------------------------
(* At every moment, after any crash and whatever a tick that raised left   *)
(* behind, a trade hangs on one signal of its own that names no reason and *)
(* has its FILLED event, a signal without a reason has its trade or is of  *)
(* a tick that raised, and no signal lacks its features: for any           *)
(* instruments, situations and caps.                                       *)
THEOREM TablesTellOneStory == Spec => []SignalsTellTheTrade
<1>1. IInv => SignalsTellTheTrade
  BY DEF IInv
<1>2. QED
  BY <1>1, InitIInv, StepIInv, PTL DEF Spec

(* The price a trade is filled by had appeared within the age limit,       *)
(* however many fresh rows repeated an older one, for any quotes.          *)
THEOREM PricesAreFresh == Spec => []FreshPriceOnly
<1>1. IInv => FreshPriceOnly
  BY DEF IInv
<1>2. QED
  BY <1>1, InitIInv, StepIInv, PTL DEF Spec

(* A signal denied at contract selection had no loaded contract that       *)
(* passes the filters, and one denied for the expiry window had none       *)
(* inside it, for any chain and any limits.                                *)
THEOREM DenialsTellTrue == Spec => DenialsAreTrue
<1>1. IInv /\ [Next]_vars => DenialIsTrue
  <2> SUFFICES ASSUME IInv, [Next]_vars, Len(signals') > Len(signals) PROVE DenialIsTrue
    BY DEF DenialIsTrue
  <2>1. signals \in Seq(SignalRows) /\ Len(signals) \in Nat
    BY DEF IInv, TablesTyped
  <2>2. \/ Reject \/ RecordFill \/ SessionCommits
    <3>1. CASE MarkTaken
      <4>1. signals' = [signals EXCEPT ![Len(signals)].decision = "TAKEN"]
        BY <3>1 DEF MarkTaken
      <4>2. DOMAIN signals' = DOMAIN signals
        BY <4>1
      <4>3. DOMAIN signals = 1..Len(signals)
        BY <2>1
      <4>4. Len(signals') = Len(signals)
        BY <2>1, <4>2, <4>3, LenProperties, MarkTakenKeeps, <3>1 DEF IInv, TablesTyped
      <4>5. QED
        BY <2>1, <4>4
    <3>2. CASE UNCHANGED signals
      BY <2>1, <3>2
    <3>3. QED
      BY <3>1, <3>2 DEF Next, vars, tables, WriteQuote, TimePasses, Evaluate, Raise, Abandon
  <2>3. CASE RecordFill
    <3>1. signals' = Append(signals, SignalRow(tick, "none", "REJECTED"))
      BY <2>3 DEF RecordFill
    <3>2. signals'[Len(signals')] = SignalRow(tick, "none", "REJECTED")
      BY <2>1, <3>1
    <3>3. signals'[Len(signals')].reason = "none"
      BY <3>2 DEF SignalRow
    <3>4. QED
      BY <3>3 DEF DenialIsTrue, SelectionDenials
  <2>4. CASE Reject
    <3>1. /\ signals' = Append(signals, SignalRow(tick, RejectReason(tick), "REJECTED"))
          /\ tick.at = "evaluated"
      BY <2>4 DEF Reject
    <3>2. signals'[Len(signals')] = SignalRow(tick, RejectReason(tick), "REJECTED")
      BY <2>1, <3>1
    <3>3. signals'[Len(signals')].reason = RejectReason(tick)
      BY <3>2 DEF SignalRow
    <3>4. CASE RejectReason(tick) \notin SelectionDenials
      <4>1. "NO_CANDIDATES_IN_EXPIRY_WINDOW" \in SelectionDenials
        BY DEF SelectionDenials
      <4>2. QED
        BY <3>3, <3>4, <4>1 DEF DenialIsTrue
    <3>5. CASE RejectReason(tick) \in SelectionDenials
      <4>1. /\ tick.situation.spot # 0 /\ DOMAIN MinDteChain # {}
            /\ Selection(tick).selected = NoCandidate
            /\ RejectReason(tick) = Selection(tick).reason
        BY <3>1, <3>5, ReasonsTold
      <4>2. /\ Eligible(tick) = {}
            /\ Selection(tick).reason = "NO_CANDIDATES_IN_EXPIRY_WINDOW" =>
                 \A e \in DOMAIN tick.chain : \A c \in tick.chain[e] :
                   e >= tick.situation.min_dte => ~InWindow(c, tick.result.direction)
        BY <3>1, <4>1, TickSelection
      <4>3. QED
        BY <3>3, <4>1, <4>2 DEF DenialIsTrue
    <3>6. QED
      BY <3>4, <3>5
  <2>5. CASE SessionCommits
    <3>1. PICK t : leftover = <<LeftRow(t)>>
      BY <2>5 DEF SessionCommits, IInv, LeftoverTrue
    <3>2. signals' = signals \o <<LeftRow(t)>>
      BY <2>5, <3>1 DEF SessionCommits
    <3>3. signals'[Len(signals')] = LeftRow(t)
      BY <2>1, <3>2
    <3>4. signals'[Len(signals')].reason = "none"
      BY <3>3 DEF LeftRow
    <3>5. QED
      BY <3>4 DEF DenialIsTrue, SelectionDenials
  <2>6. QED
    BY <2>2, <2>3, <2>4, <2>5
<1>2. QED
  BY <1>1, InitIInv, StepIInv, PTL DEF Spec, DenialsAreTrue
=============================================================================
