-------------------------- MODULE ExitRules_proofs --------------------------
(***************************************************************************)
(* What the fill model and the exit rules guarantee of any book, any quote *)
(* and any position: the facts the life of a trade rests on.               *)
(***************************************************************************)
EXTENDS ExitRules, FiniteSetTheorems, WellFoundedInduction, TLAPS

-----------------------------------------------------------------------------
(* A non-empty set of naturals has a least element, and Min is it.         *)
LEMMA MinIsLeast ==
  ASSUME NEW S \in SUBSET Nat, S # {}
  PROVE  Min(S) \in S /\ \A y \in S : Min(S) <= y
<1>1. PICK x \in S : \A y \in S : <<y, x>> \notin OpToRel(<, Nat)
  BY NatLessThanWellFounded, WFMin
<1>2. \A y \in S : ~(y < x)
  BY <1>1, Zenon DEF OpToRel
<1>3. \A y \in S : x <= y
  BY <1>2
<1>4. QED
  BY <1>3 DEF Min

(* Multiplying and dividing keep the order of naturals.                    *)
LEMMA ScaleKeepsOrder ==
  ASSUME NEW x \in Nat, NEW y \in Nat, NEW m \in Nat, NEW d \in Nat \ {0}, x <= y
  PROVE  (x * m) \div d \in Nat /\ (x * m) \div d <= (y * m) \div d
<1>1. x * m \in Nat /\ y * m \in Nat /\ x * m <= y * m
  OBVIOUS
<1>2. \A i, j \in Nat : i <= j => i \div d \in Nat /\ i \div d <= j \div d
  OBVIOUS
<1>3. QED
  BY <1>1, <1>2

-----------------------------------------------------------------------------
(* A SELL never fills more than was asked for, and what it fills it fills  *)
(* at a price above zero, whatever the book.                               *)
LEMMA SellFills ==
  ASSUME NEW qty \in Nat, NEW book, book.bid \in Int, book.ask \in Int,
         book.bid_sz \in Nat, NEW max_age, NEW got,
         got = ComputeFill("SELL", qty, book, max_age)
  PROVE  /\ got.filled \in 0..qty
         /\ got.price \in Nat
         /\ got.filled > 0 => got.price > 0
<1>1. CASE Rejected("SELL", qty, book, max_age)
  BY <1>1 DEF ComputeFill
<1>2. CASE ~Rejected("SELL", qty, book, max_age)
  <2>1. /\ got.filled = Smaller(qty, MaxFillable("SELL", book))
        /\ got.price = FillPrice("SELL", book)
    BY <1>2 DEF ComputeFill
  <2>2. MaxFillable("SELL", book) \in Nat
    BY DEF MaxFillable, TopOfBook
  <2>3. book.bid > 0 /\ book.ask >= book.bid
    BY <1>2 DEF Rejected
  <2>4. FillPrice("SELL", book) \in Nat /\ FillPrice("SELL", book) > 0
    BY <2>3 DEF FillPrice
  <2>5. QED
    BY <2>1, <2>2, <2>4 DEF Smaller
<1>3. QED
  BY <1>1, <1>2

-----------------------------------------------------------------------------
(* The protective level is a price, at least the stop and the trail, and   *)
(* rises with the stop and with the best mark.                             *)
LEMMA EffectiveStopFacts ==
  ASSUME NEW p, p.stop \in Nat, p.hwm \in Nat
  PROVE  /\ EffectiveStop(p) \in Nat
         /\ EffectiveStop(p) >= p.stop
         /\ EffectiveStop(p) >= TrailLevel(p)
         /\ \A b \in BreakevenFloor(p) : EffectiveStop(p) >= b
         /\ EffectiveStop(p) \in {p.stop, TrailLevel(p)} \cup BreakevenFloor(p)
<1>1. TrailLevel(p) \in Nat
  <2>1. p.hwm <= p.hwm /\ AvgEntry \in Nat \ {0} /\ InitialStop \in Nat
    BY LevelsAssumption
  <2>2. QED
    BY <2>1, ScaleKeepsOrder DEF TrailLevel
<1>2. BreakevenLevel \in Nat /\ BreakevenFloor(p) \in {{}, {BreakevenLevel}}
  BY LevelsAssumption DEF BreakevenFloor
<1>3. \A y \in {p.stop, TrailLevel(p)} \cup BreakevenFloor(p) : y \in Nat
  BY <1>1, <1>2
<1>4. /\ EffectiveStop(p) \in {p.stop, TrailLevel(p)} \cup BreakevenFloor(p)
      /\ \A y \in {p.stop, TrailLevel(p)} \cup BreakevenFloor(p) : EffectiveStop(p) >= y
  <2> DEFINE S == {p.stop, TrailLevel(p)} \cup BreakevenFloor(p)
  <2>1. \E x \in S : \A y \in S : x >= y
    <3>1. CASE BreakevenFloor(p) = {}
      BY <1>1, <3>1
    <3>2. CASE BreakevenFloor(p) = {BreakevenLevel}
      BY <1>1, <1>2, <3>2
    <3>3. QED
      BY <1>2, <3>1, <3>2
  <2>2. Max(S) \in S /\ \A y \in S : Max(S) >= y
    BY <2>1, Zenon DEF Max
  <2>3. QED
    BY <2>2, Zenon DEF EffectiveStop
<1>5. QED
  BY <1>3, <1>4

LEMMA EffectiveStopRises ==
  ASSUME NEW p, p.stop \in Nat, p.hwm \in Nat,
         NEW r, r.stop \in Nat, r.hwm \in Nat,
         p.stop <= r.stop, p.hwm <= r.hwm
  PROVE  EffectiveStop(p) <= EffectiveStop(r)
<1>1. TrailLevel(p) \in Nat /\ TrailLevel(p) <= TrailLevel(r) /\ TrailLevel(r) \in Nat
  <2>1. r.hwm <= r.hwm /\ AvgEntry \in Nat \ {0} /\ InitialStop \in Nat
    BY LevelsAssumption
  <2>2. QED
    BY <2>1, ScaleKeepsOrder DEF TrailLevel
<1>2. \A b \in BreakevenFloor(p) : b \in Nat /\ b \in BreakevenFloor(r)
  BY LevelsAssumption DEF BreakevenFloor
<1>3. EffectiveStop(p) \in {p.stop, TrailLevel(p)} \cup BreakevenFloor(p)
  BY EffectiveStopFacts
<1>4. /\ EffectiveStop(r) \in Nat
      /\ EffectiveStop(r) >= r.stop
      /\ EffectiveStop(r) >= TrailLevel(r)
      /\ \A b \in BreakevenFloor(r) : EffectiveStop(r) >= b
  BY EffectiveStopFacts
<1>5. CASE EffectiveStop(p) = p.stop
  BY <1>4, <1>5
<1>6. CASE EffectiveStop(p) = TrailLevel(p)
  BY <1>1, <1>4, <1>6
<1>7. CASE EffectiveStop(p) \in BreakevenFloor(p)
  BY <1>2, <1>4, <1>7
<1>8. QED
  BY <1>3, <1>5, <1>6, <1>7

-----------------------------------------------------------------------------
ExitReasons ==
  {"BREAKEVEN_STOP", "TRAILING_STOP", "STOP_LOSS", "OVERNIGHT_EXIT", "EOD_EXIT",
   "EXPIRY_EXIT", "TIME_EXIT", "EVENT_EXIT", "PROFIT_TARGET", "PARTIAL_EXIT",
   "SCRATCH_EXIT"}

(* A partial exit asks for at least one lot and at most the position.      *)
LEMMA RungQtyType ==
  ASSUME NEW p, p.qty \in Nat \ {0}
  PROVE  RungQty(p) \in 1..p.qty
<1>1. HalfRounded(p.qty) \in Nat
  BY DEF HalfRounded
<1>2. QED
  BY <1>1 DEF RungQty, Smaller, Larger

(* Whatever a check asks for is part of the position, under a known        *)
(* reason, and PARTIAL_EXIT only when a rung is due.                       *)
CheckOK(p, c) ==
  /\ c.qty \in 1..p.qty /\ c.reason \in ExitReasons
  /\ c.reason = "PARTIAL_EXIT" /\ c.fires => DueRungs(p) # {}

LEMMA ChecksOK ==
  ASSUME NEW p, p.qty \in Nat \ {0}, NEW blackout, NEW i \in 1..10
  PROVE  CheckOK(p, Checks(p, blackout)[i])
<1>1. p.qty \in 1..p.qty
  OBVIOUS
<1>2. \A level : StopReason(p, level) \in {"BREAKEVEN_STOP", "TRAILING_STOP", "STOP_LOSS"}
  BY DEF StopReason
<1>3. CASE i = 1
  BY <1>1, <1>2, <1>3 DEF Checks, Rule, CheckOK, ExitReasons
<1>4. CASE i = 2
  BY <1>1, <1>2, <1>4 DEF Checks, Rule, CheckOK, ExitReasons
<1>5. CASE i \in {3, 4, 5, 6, 7, 8, 10}
  BY <1>1, <1>5 DEF Checks, Rule, CheckOK, ExitReasons
<1>6. CASE i = 9
  <2>1. Checks(p, blackout)[9] = Rule(DueRungs(p) # {}, "PARTIAL_EXIT", RungQty(p))
    BY DEF Checks
  <2>2. RungQty(p) \in 1..p.qty
    BY RungQtyType
  <2>3. /\ Checks(p, blackout)[9].qty = RungQty(p)
        /\ Checks(p, blackout)[9].reason = "PARTIAL_EXIT"
        /\ Checks(p, blackout)[9].fires = (DueRungs(p) # {})
    BY <2>1 DEF Rule
  <2>4. Checks(p, blackout)[9].fires => DueRungs(p) # {}
    BY <2>3
  <2>5. QED
    BY <1>6, <2>2, <2>3, <2>4 DEF CheckOK, ExitReasons
<1>7. QED
  BY <1>3, <1>4, <1>5, <1>6

(* evaluate_exits asks for lots exactly when a check fires, and then for   *)
(* what the first of those asks for.                                       *)
LEMMA DecisionFacts ==
  ASSUME NEW p, NEW blackout, NEW d, d = EvaluateExits(p, blackout)
  PROVE  \/ d \in {Hold, Ratchet} /\ Fired(Checks(p, blackout)) = {}
         \/ \E i \in Fired(Checks(p, blackout)) :
              /\ \A j \in Fired(Checks(p, blackout)) : i <= j
              /\ d = [reason |-> Checks(p, blackout)[i].reason,
                      qty    |-> Checks(p, blackout)[i].qty]
<1> DEFINE fired == Fired(Checks(p, blackout))
<1>1. fired \in SUBSET Nat
  BY DEF Fired
<1>2. CASE fired = {}
  BY <1>2 DEF EvaluateExits
<1>3. CASE fired # {}
  <2>1. Min(fired) \in fired /\ \A j \in fired : Min(fired) <= j
    BY <1>1, <1>3, MinIsLeast
  <2>2. d = [reason |-> Checks(p, blackout)[Min(fired)].reason,
             qty    |-> Checks(p, blackout)[Min(fired)].qty]
    BY <1>3 DEF EvaluateExits
  <2>3. QED
    BY <2>1, <2>2
<1>4. QED
  BY <1>2, <1>3

(* So a decision either leaves the position alone, or asks for a part of   *)
(* it that is not empty.                                                   *)
LEMMA DecisionType ==
  ASSUME NEW p, p.qty \in Nat \ {0}, NEW blackout,
         NEW d, d = EvaluateExits(p, blackout)
  PROVE  \/ d \in {Hold, Ratchet}
         \/ /\ d.qty \in 1..p.qty /\ d.reason \in ExitReasons
            /\ d.reason = "PARTIAL_EXIT" => DueRungs(p) # {}
<1>1. CASE d \in {Hold, Ratchet}
  BY <1>1
<1>2. CASE d \notin {Hold, Ratchet}
  <2>1. PICK i \in Fired(Checks(p, blackout)) :
          d = [reason |-> Checks(p, blackout)[i].reason,
               qty    |-> Checks(p, blackout)[i].qty]
    BY <1>2, DecisionFacts
  <2>2. i \in 1..10 /\ Checks(p, blackout)[i].fires
    BY DEF Fired
  <2>3. CheckOK(p, Checks(p, blackout)[i])
    BY <2>2, ChecksOK
  <2>4. QED
    BY <2>1, <2>2, <2>3 DEF CheckOK
<1>3. QED
  BY <1>1, <1>2

(* What each of the first eight checks waits for.                          *)
LEMMA FullExitsFire ==
  ASSUME NEW p, NEW blackout \in BOOLEAN,
         \A j \in 1..8 : j \notin Fired(Checks(p, blackout))
  PROVE  /\ ~(p.mark <= p.stop) /\ ~(p.mark <= EffectiveStop(p))
         /\ p.day = 0 /\ ~ClosesSession(p) /\ ~(Held(p) >= MaxHolding) /\ ~blackout
         /\ ~(p.mark >= ProfitTarget)
<1> DEFINE checks == Checks(p, blackout)
<1>1. \A j \in 1..8 : ~checks[j].fires
  BY DEF Fired
<1>2. /\ checks[1] = Rule(p.mark <= p.stop, StopReason(p, p.stop), p.qty)
      /\ checks[2] = Rule(p.mark <= EffectiveStop(p), StopReason(p, EffectiveStop(p)), p.qty)
      /\ checks[3] = Rule(p.day # 0, "OVERNIGHT_EXIT", p.qty)
      /\ checks[4] = Rule(ClosesSession(p), "EOD_EXIT", p.qty)
      /\ checks[6] = Rule(Held(p) >= MaxHolding, "TIME_EXIT", p.qty)
      /\ checks[7] = Rule(blackout, "EVENT_EXIT", p.qty)
      /\ checks[8] = Rule(p.mark >= ProfitTarget, "PROFIT_TARGET", p.qty)
  BY DEF Checks
<1>3. /\ checks[1].fires = (p.mark <= p.stop)
      /\ checks[2].fires = (p.mark <= EffectiveStop(p))
      /\ checks[3].fires = (p.day # 0)
      /\ checks[4].fires = ClosesSession(p)
      /\ checks[6].fires = (Held(p) >= MaxHolding)
      /\ checks[7].fires = blackout
      /\ checks[8].fires = (p.mark >= ProfitTarget)
  BY <1>2 DEF Rule
<1>4. /\ ~checks[1].fires /\ ~checks[2].fires /\ ~checks[3].fires /\ ~checks[4].fires
      /\ ~checks[6].fires /\ ~checks[7].fires /\ ~checks[8].fires
  BY <1>1
<1> HIDE DEF checks
<1>5. QED
  BY <1>3, <1>4, Zenon

(* Every check but the ninth asks for the whole position.                  *)
LEMMA WholePosition ==
  ASSUME NEW p, NEW blackout, NEW i \in 1..10, i # 9
  PROVE  Checks(p, blackout)[i].qty = p.qty
  BY DEF Checks, Rule

(* evaluate_exits decides soundly of any position, at any mark and moment: *)
(* an exit sells between one lot and all of them, for a known reason, and  *)
(* only a partial exit sells less than all.  Whatever keeps a lot, be it a *)
(* hold, a ratchet or a partial exit, does so only while the mark is above *)
(* the protective level and below the target, on the day of the entry,     *)
(* before the session closes for the position, within its holding time and *)
(* outside a blackout.  A ratchet's stop is above the stored one and below *)
(* the mark, so storing it neither loosens the stop nor sells by itself.   *)
THEOREM DecisionsAreSound ==
  ASSUME NEW p, p.qty \in Nat \ {0}, p.stop \in Nat, p.hwm \in Nat, p.mark \in Int,
         p.day \in Nat, p.slot \in Nat, NEW blackout \in BOOLEAN,
         NEW d, d = EvaluateExits(p, blackout)
  PROVE  /\ d.qty \in 0..p.qty
         /\ d.qty > 0 => d.reason \in ExitReasons
         /\ d.qty = 0 => d \in {Hold, Ratchet}
         /\ d.qty > 0 /\ d.qty < p.qty => d.reason = "PARTIAL_EXIT" /\ DueRungs(p) # {}
         /\ d.qty < p.qty =>
              /\ EffectiveStop(p) < p.mark /\ p.mark < ProfitTarget
              /\ p.day = 0 /\ ~ClosesSession(p) /\ Held(p) < MaxHolding /\ ~blackout
         /\ d = Ratchet => p.stop < EffectiveStop(p) /\ EffectiveStop(p) < p.mark
<1> DEFINE fired == Fired(Checks(p, blackout))
<1>1. EffectiveStop(p) \in Nat /\ ProfitTarget \in Nat /\ MaxHolding \in Nat
  BY EffectiveStopFacts, LevelsAssumption, SlotsAssumption
<1>2. Held(p) \in Nat
  BY SlotsAssumption DEF Held
<1>3. ASSUME \A j \in 1..8 : j \notin fired
      PROVE  /\ EffectiveStop(p) < p.mark /\ p.mark < ProfitTarget
             /\ p.day = 0 /\ ~ClosesSession(p) /\ Held(p) < MaxHolding /\ ~blackout
  <2>1. /\ ~(p.mark <= EffectiveStop(p)) /\ ~(p.mark >= ProfitTarget)
        /\ p.day = 0 /\ ~ClosesSession(p) /\ ~(Held(p) >= MaxHolding) /\ ~blackout
    BY <1>3, FullExitsFire
  <2>2. QED
    BY <1>1, <1>2, <2>1
<1>4. CASE fired = {}
  <2>1. d = IF EffectiveStop(p) > p.stop THEN Ratchet ELSE Hold
    BY <1>4 DEF EvaluateExits
  <2>2. Hold.qty = 0 /\ Ratchet.qty = 0 /\ Hold # Ratchet
    BY DEF Hold, Ratchet
  <2>3. d \in {Hold, Ratchet} /\ d.qty = 0 /\ (d = Ratchet => p.stop < EffectiveStop(p))
    BY <1>1, <2>1, <2>2
  <2>4. QED
    BY <1>3, <1>4, <2>3
<1>5. CASE fired # {}
  <2>1. PICK i \in fired :
          /\ \A j \in fired : i <= j
          /\ d = [reason |-> Checks(p, blackout)[i].reason,
                  qty    |-> Checks(p, blackout)[i].qty]
    BY <1>5, DecisionFacts
  <2>2. i \in 1..10 /\ Checks(p, blackout)[i].fires
    BY DEF Fired
  <2>3. CheckOK(p, Checks(p, blackout)[i])
    BY <2>2, ChecksOK
  <2>4. d.qty \in 1..p.qty /\ d.reason \in ExitReasons
    BY <2>1, <2>3 DEF CheckOK
  <2>5. d # Ratchet
    BY <2>4 DEF Ratchet
  <2>6. d.qty < p.qty => i = 9
    BY <2>1, <2>2, <2>4, WholePosition
  <2>7. CASE i = 9
    <3>1. \A j \in 1..8 : j \notin fired
      BY <2>1, <2>7
    <3>2. Checks(p, blackout)[9] = Rule(DueRungs(p) # {}, "PARTIAL_EXIT", RungQty(p))
      BY DEF Checks
    <3>3. d.reason = "PARTIAL_EXIT"
      BY <2>1, <2>7, <3>2 DEF Rule
    <3>4. DueRungs(p) # {}
      BY <2>1, <2>2, <2>3, <3>3 DEF CheckOK
    <3>5. QED
      BY <1>3, <2>4, <2>5, <3>1, <3>3, <3>4
  <2>8. CASE i # 9
    <3>1. d.qty = p.qty
      BY <2>4, <2>6, <2>8
    <3>2. QED
      BY <2>4, <2>5, <3>1
  <2>9. QED
    BY <2>7, <2>8
<1>6. QED
  BY <1>4, <1>5

(* A mark at or below the protective level fires a check.                  *)
LEMMA BreachFires ==
  ASSUME NEW p, p.qty \in Nat \ {0}, p.mark <= EffectiveStop(p), NEW blackout,
         NEW d, d = EvaluateExits(p, blackout)
  PROVE  d \notin {Hold, Ratchet}
<1>1. 2 \in Fired(Checks(p, blackout))
  <2>1. (p.mark <= EffectiveStop(p)) = TRUE
    OBVIOUS
  <2>2. Checks(p, blackout)[2] = Rule(TRUE, StopReason(p, EffectiveStop(p)), p.qty)
    BY <2>1 DEF Checks
  <2>3. Checks(p, blackout)[2].fires = TRUE
    BY <2>2 DEF Rule
  <2>4. QED
    BY <2>3 DEF Fired
<1>2. PICK i \in Fired(Checks(p, blackout)) :
        d = [reason |-> Checks(p, blackout)[i].reason,
             qty    |-> Checks(p, blackout)[i].qty]
  BY <1>1, DecisionFacts
<1>3. d.qty \in 1..p.qty
  BY <1>2, ChecksOK DEF Fired, CheckOK
<1>4. QED
  BY <1>3 DEF Hold, Ratchet

(* On a later date, in the closing cushion, or late on the day the         *)
(* contract expires, one of the first five checks decides, and asks for    *)
(* the whole position; above its protective level it is one of the clock's.*)
LEMMA DueExits ==
  ASSUME NEW p, p.qty \in Nat \ {0},
         p.day # 0 \/ p.slot >= CushionFrom \/ (p.expires /\ p.slot >= LateFrom),
         NEW blackout, NEW d, d = EvaluateExits(p, blackout)
  PROVE  /\ d.qty \in 1..p.qty
         /\ d.reason \in {"BREAKEVEN_STOP", "TRAILING_STOP", "STOP_LOSS",
                          "OVERNIGHT_EXIT", "EOD_EXIT", "EXPIRY_EXIT"}
         /\ ~(p.mark <= p.stop) /\ ~(p.mark <= EffectiveStop(p)) =>
              d.reason \in {"OVERNIGHT_EXIT", "EOD_EXIT", "EXPIRY_EXIT"}
<1>1. \E j \in {3, 4, 5} : j \in Fired(Checks(p, blackout))
  <2>1. CASE p.day # 0
    <3>1. Checks(p, blackout)[3] = Rule(TRUE, "OVERNIGHT_EXIT", p.qty)
      BY <2>1 DEF Checks
    <3>2. Checks(p, blackout)[3].fires = TRUE
      BY <3>1 DEF Rule
    <3>3. QED
      BY <3>2 DEF Fired
  <2>2. CASE p.slot >= CushionFrom
    <3>1. ClosesSession(p) = TRUE
      BY <2>2 DEF ClosesSession
    <3>2. Checks(p, blackout)[4] = Rule(TRUE, "EOD_EXIT", p.qty)
      BY <3>1 DEF Checks
    <3>3. Checks(p, blackout)[4].fires = TRUE
      BY <3>2 DEF Rule
    <3>4. QED
      BY <3>3 DEF Fired
  <2>3. CASE p.expires /\ p.slot >= LateFrom
    <3>1. (p.expires /\ (p.day # 0 \/ p.slot >= LateFrom)) = TRUE
      BY <2>3
    <3>2. Checks(p, blackout)[5] = Rule(TRUE, "EXPIRY_EXIT", p.qty)
      BY <3>1 DEF Checks
    <3>3. Checks(p, blackout)[5].fires = TRUE
      BY <3>2 DEF Rule
    <3>4. QED
      BY <3>3 DEF Fired
  <2>4. QED
    BY <2>1, <2>2, <2>3
<1>2. PICK i \in Fired(Checks(p, blackout)) :
        /\ \A j \in Fired(Checks(p, blackout)) : i <= j
        /\ d = [reason |-> Checks(p, blackout)[i].reason,
                qty    |-> Checks(p, blackout)[i].qty]
  BY <1>1, DecisionFacts
<1>3. i \in 1..5
  <2>1. i \in 1..10
    BY DEF Fired
  <2>2. QED
    BY <1>1, <1>2, <2>1
<1>4. \A level : StopReason(p, level) \in {"BREAKEVEN_STOP", "TRAILING_STOP", "STOP_LOSS"}
  BY DEF StopReason
<1>5. Checks(p, blackout)[i].reason \in
        {"BREAKEVEN_STOP", "TRAILING_STOP", "STOP_LOSS",
         "OVERNIGHT_EXIT", "EOD_EXIT", "EXPIRY_EXIT"}
  BY <1>3, <1>4 DEF Checks, Rule
<1>6. CheckOK(p, Checks(p, blackout)[i])
  BY <1>3, ChecksOK
<1>7. ASSUME ~(p.mark <= p.stop), ~(p.mark <= EffectiveStop(p))
      PROVE  Checks(p, blackout)[i].reason \in {"OVERNIGHT_EXIT", "EOD_EXIT", "EXPIRY_EXIT"}
  <2>1. (p.mark <= p.stop) = FALSE /\ (p.mark <= EffectiveStop(p)) = FALSE
    BY <1>7
  <2>2. /\ Checks(p, blackout)[1] = Rule(FALSE, StopReason(p, p.stop), p.qty)
        /\ Checks(p, blackout)[2] = Rule(FALSE, StopReason(p, EffectiveStop(p)), p.qty)
    BY <2>1 DEF Checks
  <2>3. Checks(p, blackout)[1].fires = FALSE /\ Checks(p, blackout)[2].fires = FALSE
    BY <2>2 DEF Rule
  <2>4. i \in 3..5
    <3>1. Checks(p, blackout)[i].fires
      BY DEF Fired
    <3>2. QED
      BY <1>3, <2>3, <3>1
  <2>5. QED
    BY <2>4 DEF Checks, Rule
<1>8. QED
  BY <1>2, <1>5, <1>6, <1>7 DEF CheckOK

(* The rung a partial exit names is a target that was not taken before.    *)
LEMMA RungIsNew ==
  ASSUME NEW p, DueRungs(p) # {}
  PROVE  RungTaken(p) \in RTargets \ p.taken
<1>1. DueRungs(p) \in SUBSET Nat /\ DueRungs(p) \subseteq RTargets \ p.taken
  BY LevelsAssumption DEF DueRungs
<1>2. QED
  BY <1>1, MinIsLeast DEF RungTaken
=============================================================================
