--------------------------- MODULE Research_proofs ---------------------------
(***************************************************************************)
(* What research may take from the past: the folds of a run learn nothing  *)
(* of what they are scored on, a rebuilt vector nothing the engine did not *)
(* see, a label is the one the whole table of bars gives, and a variant of *)
(* the exit rules is judged by its rules alone.                            *)
(***************************************************************************)
EXTENDS WalkForward, FeatureBackfill, Outcomes, ExitReplay, FiniteSetTheorems,
        SequenceTheorems, WellFoundedInduction, TLAPS

-----------------------------------------------------------------------------
(* A non-empty set of naturals has a least element, and a bounded one a    *)
(* greatest.                                                               *)
LEMMA MinIsLeast ==
  ASSUME NEW S \in SUBSET Nat, S # {}
  PROVE  Min(S) \in S /\ \A y \in S : Min(S) <= y
<1>1. PICK x \in S : \A y \in S : <<y, x>> \notin OpToRel(<, Nat)
  BY NatLessThanWellFounded, WFMin
<1>2. \A y \in S : ~(y < x)
  BY <1>1, Zenon DEF OpToRel
<1>3. \A y \in S : x <= y
  BY <1>2
<1>4. QED
  BY <1>3 DEF Min

LEMMA MaxIsGreatest ==
  ASSUME NEW n \in Nat, NEW S \in SUBSET (0..n), S # {}
  PROVE  Max(S) \in S /\ \A y \in S : y <= Max(S)
<1> DEFINE T == {n - y : y \in S}
<1>1. T \in SUBSET Nat /\ T # {}
  <2>1. \A y \in S : n - y \in Nat
    OBVIOUS
  <2>2. QED
    BY <2>1
<1>2. PICK t \in T : \A u \in T : t <= u
  <2> HIDE DEF T
  <2>1. QED
    BY <1>1, MinIsLeast
<1>3. PICK x \in S : t = n - x
  OBVIOUS
<1>4. \A y \in S : x >= y
  BY <1>2, <1>3
<1>5. QED
  BY <1>4 DEF Max

(* Multiplying keeps the order of naturals, and what is not less has not   *)
(* been less before.                                                       *)
LEMMA TimesKeepsOrder ==
  ASSUME NEW m \in Nat, NEW x \in Int, NEW y \in Int, x <= y
  PROVE  m * x <= m * y /\ x * m <= y * m
<1>1. y - x \in Nat
  OBVIOUS
<1>2. m * (y - x) \in Nat
  BY <1>1
<1>3. m * (y - x) = m * y - m * x /\ m * x \in Int /\ m * y \in Int
  OBVIOUS
<1>4. x * m = m * x /\ y * m = m * y
  OBVIOUS
<1>5. QED
  BY <1>2, <1>3, <1>4

-----------------------------------------------------------------------------
(* WalkForward.  The days that have a bar, and the outcomes of a run: each *)
(* ends on a day of the run, as many bars on as it was held.               *)
OpenDays == open \in SUBSET (0..(Today - 1))

Calendar ==
  \A d, o \in open :
    Cardinality(After(d, o)) <= MaxBarsHeld => Cardinality(Closed(d, o)) <= MaxClosed

Resolved(s) ==
  /\ s.on \in open /\ s.ends \in open /\ s.held \in 1..MaxBarsHeld
  /\ s.on < s.ends /\ s.ends <= range_end
  /\ Cardinality(After(s.on, s.ends)) = s.held

FoldsInv ==
  /\ OpenDays /\ Calendar
  /\ range_end \in Int /\ (range_end = -1 \/ range_end <= Today - HoldoutDays)
  /\ \A s \in emitted : Resolved(s)

LEMMA OpenAre ==
  ASSUME OpenDays
  PROVE  /\ LastDay \in Nat /\ open \in SUBSET (0..LastDay)
         /\ \A d \in open : d \in Nat /\ d <= LastDay
<1>1. LastDay \in Nat /\ Today = LastDay
  BY FoldsAssumption DEF Today
<1>2. \A d \in 0..(LastDay - 1) : d \in 0..LastDay /\ d \in Nat /\ d <= LastDay
  BY <1>1
<1>3. open \in SUBSET (0..(LastDay - 1))
  BY <1>1 DEF OpenDays
<1>4. QED
  BY <1>1, <1>2, <1>3

LEMMA AfterFinite ==
  ASSUME OpenDays, NEW d \in Nat, NEW last \in Int
  PROVE  /\ After(d, last) \in SUBSET open /\ After(d, last) \in SUBSET (0..LastDay)
         /\ IsFiniteSet(After(d, last)) /\ Cardinality(After(d, last)) \in Nat
<1>1. After(d, last) \in SUBSET open /\ After(d, last) \in SUBSET (0..LastDay)
  BY OpenAre DEF After
<1>2. IsFiniteSet(0..LastDay)
  BY FS_Interval, FoldsAssumption
<1>3. IsFiniteSet(After(d, last))
  BY <1>1, <1>2, FS_Subset
<1>4. QED
  BY <1>1, <1>3, FS_CardinalityType

(* The n-th bar after a day is there, and within the run, when the run has *)
(* as many.                                                                *)
LEMMA NthIsThere ==
  ASSUME OpenDays, NEW d \in open, NEW last \in Int, NEW n \in Nat \ {0},
         n <= Cardinality(After(d, last))
  PROVE  /\ NthAfter(d, n) \in open /\ NthAfter(d, n) > d /\ NthAfter(d, n) <= last
         /\ Cardinality(After(d, NthAfter(d, n))) = n
<1>1. /\ d \in Nat /\ LastDay \in Nat /\ open \in SUBSET (0..LastDay)
      /\ \A o \in open : o \in Nat
  BY OpenAre
<1> DEFINE far == {o \in After(d, last) : n <= Cardinality(After(d, o))}
<1>2. far # {}
  <2>1. After(d, last) # {}
    BY FS_EmptySet
  <2>2. PICK m \in After(d, last) : \A o \in After(d, last) : o <= m
    BY <1>1, <2>1, AfterFinite, MaxIsGreatest
  <2>3. After(d, m) = After(d, last)
    <3>1. \A o \in open : o \in Int
      BY <1>1
    <3>2. \A o \in open : d < o /\ o <= last => o <= m
      BY <2>2 DEF After
    <3>3. m \in open /\ m <= last
      BY <2>2 DEF After
    <3>4. \A o \in open : o <= m => o <= last
      BY <3>1, <3>3
    <3>5. QED
      BY <3>2, <3>4 DEF After
  <2>4. QED
    BY <2>2, <2>3
<1>3. far \in SUBSET Nat
  BY <1>1, AfterFinite
<1>4. PICK o \in far : \A p \in far : o <= p
  <2> HIDE DEF far
  <2>1. QED
    BY <1>2, <1>3, MinIsLeast
<1>5. /\ o \in open /\ d < o /\ o <= last /\ n <= Cardinality(After(d, o)) /\ o \in Nat
      /\ IsFiniteSet(After(d, o)) /\ Cardinality(After(d, o)) \in Nat
  BY <1>1, <1>4, AfterFinite DEF After
<1>6. Cardinality(After(d, o)) = n
  <2> SUFFICES ASSUME Cardinality(After(d, o)) # n PROVE FALSE
    OBVIOUS
  <2> DEFINE less == After(d, o) \ {o}
  <2>1. o \in After(d, o)
    BY <1>1, <1>5 DEF After
  <2>2. IsFiniteSet(less) /\ Cardinality(less) = Cardinality(After(d, o)) - 1
    BY <1>5, <2>1, FS_RemoveElement
  <2>3. n <= Cardinality(less) /\ less # {}
    <3>1. n <= Cardinality(less) /\ Cardinality(less) # 0
      BY <1>5, <2>2
    <3>2. QED
      BY <3>1, FS_EmptySet
  <2>4. less \in SUBSET (0..LastDay)
    BY <1>1, <1>5, AfterFinite
  <2>5. PICK m \in less : \A p \in less : p <= m
    <3> HIDE DEF less
    <3>1. QED
      BY <1>1, <2>3, <2>4, MaxIsGreatest
  <2>6. m \in open /\ d < m /\ m < o /\ m \in Nat
    BY <1>1, <1>5, <2>5 DEF After
  <2>7. After(d, m) = less
    <3>1. \A p \in open : p \in Nat
      BY <1>1
    <3>2. \A p : p \in After(d, m) => p \in less
      BY <1>5, <2>6, <3>1 DEF After
    <3>3. \A p : p \in less => p \in After(d, m)
      BY <2>5 DEF After
    <3>4. QED
      BY <3>2, <3>3
  <2>8. m \in far
    BY <1>5, <2>3, <2>6, <2>7 DEF After
  <2>9. QED
    BY <1>4, <1>5, <2>6, <2>8
<1>7. /\ NthAfter(d, n) \in open /\ NthAfter(d, n) > d
      /\ Cardinality(After(d, NthAfter(d, n))) = n
  BY <1>1, <1>5, <1>6 DEF NthAfter
<1>8. NthAfter(d, n) <= last
  <2>1. PICK e : e = NthAfter(d, n)
    OBVIOUS
  <2>2. e \in open /\ d < e /\ e \in Nat /\ Cardinality(After(d, e)) = n
    BY <1>1, <1>7, <2>1
  <2> SUFFICES ASSUME last < e PROVE FALSE
    BY <2>1, <2>2
  <2>3. e \in After(d, e) /\ e \notin After(d, last)
    BY <2>2 DEF After
  <2>4. After(d, last) \in SUBSET After(d, e)
    <3>1. \A b \in open : b <= last => b <= e
      BY <1>1, <2>2
    <3>2. QED
      BY <3>1 DEF After
  <2>5. IsFiniteSet(After(d, e)) /\ Cardinality(After(d, e)) = n
    BY <1>1, <2>2, AfterFinite
  <2>6. /\ Cardinality(After(d, last)) <= Cardinality(After(d, e))
        /\ Cardinality(After(d, e)) = Cardinality(After(d, last)) => After(d, e) = After(d, last)
    BY <2>4, <2>5, FS_Subset
  <2>7. Cardinality(After(d, last)) \in Nat
    BY <1>1, AfterFinite
  <2>8. QED
    BY <2>3, <2>5, <2>6, <2>7
<1>9. QED
  BY <1>7, <1>8

(* An outcome ends no more days on than bars it was held and closed days   *)
(* the calendar has within them.                                           *)
LEMMA EndsSoon ==
  ASSUME OpenDays, Calendar, NEW s, Resolved(s)
  PROVE  s.ends <= s.on + s.held + MaxClosed
<1>1. /\ s.on \in Nat /\ s.ends \in Nat /\ s.held \in 1..MaxBarsHeld /\ s.on < s.ends
      /\ s.on \in open /\ s.ends \in open /\ MaxBarsHeld \in Nat /\ MaxClosed \in Nat
      /\ Cardinality(After(s.on, s.ends)) = s.held
  BY FoldsAssumption, OpenAre DEF Resolved
<1> DEFINE days   == (s.on + 1)..s.ends
           traded == After(s.on, s.ends)
           closed == Closed(s.on, s.ends)
<1>2. IsFiniteSet(days) /\ Cardinality(days) = s.ends - s.on
  <2>1. PICK a, b \in Int : a = s.on + 1 /\ b = s.ends
    BY <1>1
  <2>2. IsFiniteSet(a..b) /\ Cardinality(a..b) = IF a > b THEN 0 ELSE b - a + 1
    BY FS_Interval
  <2>3. QED
    BY <1>1, <2>1, <2>2
<1>3. IsFiniteSet(traded) /\ Cardinality(traded) = s.held
  <2>1. PICK a, b \in Nat : a = s.on /\ b = s.ends
    BY <1>1
  <2>2. IsFiniteSet(After(a, b))
    BY AfterFinite
  <2>3. QED
    BY <1>1, <2>1, <2>2
<1>4. IsFiniteSet(closed) /\ Cardinality(closed) \in Nat
  <2>1. IsFiniteSet(s.on..s.ends) /\ closed \in SUBSET (s.on..s.ends)
    <3>1. PICK a, b \in Int : a = s.on /\ b = s.ends
      BY <1>1
    <3>2. IsFiniteSet(a..b)
      BY FS_Interval
    <3>3. QED
      BY <3>1, <3>2 DEF Closed
  <2>2. QED
    BY <2>1, FS_Subset, FS_CardinalityType
<1>5. Cardinality(closed) <= MaxClosed
  BY <1>1 DEF Calendar
<1>6. days \in SUBSET (traded \cup closed)
  BY <1>1 DEF After, Closed
<1> HIDE DEF days, traded, closed
<1>7. /\ IsFiniteSet(traded \cup closed)
      /\ Cardinality(traded \cup closed) =
           Cardinality(traded) + Cardinality(closed) - Cardinality(traded \cap closed)
  BY <1>3, <1>4, FS_Union
<1>8. Cardinality(traded \cap closed) \in Nat
  BY <1>3, FS_Intersection, FS_CardinalityType
<1>9. Cardinality(days) <= Cardinality(traded \cup closed)
  BY <1>6, <1>7, FS_Subset
<1>10. QED
  BY <1>1, <1>2, <1>3, <1>4, <1>5, <1>7, <1>8, <1>9

(* The tests of the folds follow each other.                               *)
LEMMA SpanFacts ==
  ASSUME FoldsInv, emitted # {}
  PROVE  FirstOn \in Nat /\ Span \in Nat
<1> DEFINE ons == {s.on : s \in emitted}
<1>1. /\ ons \in SUBSET (0..LastDay) /\ ons # {} /\ ons \in SUBSET Nat /\ LastDay \in Nat
      /\ \A y \in ons : y \in Nat
  <2>1. \A s \in emitted : s.on \in 0..LastDay /\ s.on \in Nat
    BY OpenAre DEF FoldsInv, Resolved
  <2>2. QED
    BY <2>1, FoldsAssumption
<1> HIDE DEF ons
<1>2. Min(ons) \in ons /\ \A y \in ons : Min(ons) <= y
  BY <1>1, MinIsLeast
<1>3. Max(ons) \in ons /\ \A y \in ons : y <= Max(ons)
  BY <1>1, MaxIsGreatest
<1>4. FirstOn = Min(ons) /\ Span = Max(ons) - Min(ons)
  BY DEF FirstOn, Span, ons
<1>5. Min(ons) \in Nat /\ Max(ons) \in Nat /\ Min(ons) <= Max(ons)
  BY <1>1, <1>2, <1>3
<1>6. QED
  BY <1>4, <1>5

LEMMA FoldsInvShows == FoldsInv => NoLeakage
<1> SUFFICES ASSUME FoldsInv PROVE NoLeakage
  OBVIOUS
<1>1. /\ NFolds \in Nat /\ Embargo \in Nat /\ MaxClosed \in Nat /\ MaxClosed <= Embargo
      /\ HoldoutDays \in Nat /\ Today \in Nat
  BY FoldsAssumption DEF Today
<1>2. \A s \in emitted : /\ s.on \in Nat /\ s.held \in Nat /\ s.ends \in Nat
                         /\ s.ends <= s.on + s.held + MaxClosed
                         /\ s.ends <= Today - HoldoutDays
  <2> SUFFICES ASSUME NEW s \in emitted
               PROVE  /\ s.on \in Nat /\ s.held \in Nat /\ s.ends \in Nat
                      /\ s.ends <= s.on + s.held + MaxClosed
                      /\ s.ends <= Today - HoldoutDays
    OBVIOUS
  <2>1. Resolved(s) /\ OpenDays /\ Calendar
    BY DEF FoldsInv
  <2>2. s.on \in Nat /\ s.held \in Nat /\ s.ends \in Nat /\ s.ends <= range_end
    BY <2>1, OpenAre DEF Resolved
  <2>3. s.ends <= s.on + s.held + MaxClosed
    BY <2>1, EndsSoon
  <2>4. range_end \in Int /\ range_end <= Today - HoldoutDays
    BY <2>2 DEF FoldsInv
  <2>5. QED
    BY <1>1, <2>2, <2>3, <2>4
<1>3. ASSUME NEW i \in Folds, NEW s \in Train(i) PROVE Moment(s.ends) <= TestStart(i)
  <2>1. /\ s \in emitted
        /\ NFolds * (s.on + s.held) <= TestStart(i) - NFolds * Embargo
    BY DEF Train, ResolutionEnd, Moment
  <2>2. i \in Int /\ FirstOn \in Nat /\ Span \in Nat
    BY <2>1, SpanFacts, <1>1 DEF Folds
  <2>3. TestStart(i) \in Int
    BY <1>1, <2>2 DEF TestStart, Moment
  <2>4. s.ends <= s.on + s.held + Embargo /\ s.on + s.held \in Nat /\ s.ends \in Nat
    BY <1>1, <1>2, <2>1
  <2> DEFINE a == s.on + s.held
  <2>5. NFolds * s.ends <= NFolds * (a + Embargo)
    BY <1>1, <2>4, TimesKeepsOrder
  <2> HIDE DEF a
  <2>6. NFolds * (a + Embargo) = NFolds * a + NFolds * Embargo
    BY <1>1, <2>4 DEF a
  <2>7. NFolds * a <= TestStart(i) - NFolds * Embargo
    BY <2>1 DEF a
  <2>8. NFolds * a \in Int /\ NFolds * Embargo \in Int /\ NFolds * s.ends \in Int
    BY <1>1, <2>4 DEF a
  <2>9. NFolds * s.ends <= TestStart(i)
    BY <2>3, <2>5, <2>6, <2>7, <2>8
  <2>10. QED
    BY <2>9 DEF Moment
<1>4. ASSUME NEW i \in Folds, NEW j \in Folds, i < j PROVE Test(i) \cap Test(j) = {}
  <2> SUFFICES ASSUME NEW s \in Test(i), s \in Test(j) PROVE FALSE
    OBVIOUS
  <2>1. /\ s \in emitted /\ TestStart(j) <= Moment(s.on)
        /\ Moment(s.on) < TestStart(i + 1) \/ i = NFolds - 1
    BY DEF Test
  <2>2. i \in 1..(NFolds - 1) /\ j \in 1..(NFolds - 1) /\ FirstOn \in Nat /\ Span \in Nat
    BY <2>1, SpanFacts DEF Folds
  <2>3. Span * (i + 1) <= Span * j
    BY <1>1, <1>4, <2>2, TimesKeepsOrder
  <2>4. /\ TestStart(i + 1) <= TestStart(j)
        /\ TestStart(i + 1) \in Int /\ TestStart(j) \in Int /\ Moment(s.on) \in Int
    <3>1. /\ Moment(FirstOn) \in Int /\ Span * (i + 1) \in Int /\ Span * j \in Int
          /\ Moment(s.on) \in Int
      BY <1>1, <1>2, <2>1, <2>2 DEF Moment
    <3>2. QED
      BY <2>3, <3>1 DEF TestStart
  <2>5. i # NFolds - 1
    BY <1>1, <1>4, <2>2
  <2>6. QED
    BY <2>1, <2>4, <2>5
<1>5. \A i, j \in Folds : i # j => Test(i) \cap Test(j) = {}
  <2>1. \A i \in Folds : i \in Int
    BY <1>1 DEF Folds
  <2>2. \A i, j \in Folds : i # j => i < j \/ j < i
    BY <2>1
  <2>3. QED
    BY <1>4, <2>2
<1>6. QED
  BY <1>2, <1>3, <1>5 DEF NoLeakage

LEMMA InitFolds == FoldsInit => FoldsInv
  BY DEF FoldsInit, FoldsInv, OpenDays, Calendar

LEMMA StepFolds == FoldsInv /\ [FoldsNext]_folds_vars => FoldsInv'
<1> SUFFICES ASSUME FoldsInv, [FoldsNext]_folds_vars PROVE FoldsInv'
  OBVIOUS
<1>1. ASSUME NEW to \in 0..LastDay, StartRun(to) PROVE FoldsInv'
  <2>1. /\ range_end' \in Int /\ range_end' <= Today - HoldoutDays
        /\ emitted' = {} /\ open' = open
    BY <1>1, FoldsAssumption DEF StartRun
  <2>2. OpenDays' /\ Calendar'
    BY <2>1 DEF FoldsInv, OpenDays, Calendar, After, Closed, Today
  <2>3. QED
    BY <2>1, <2>2 DEF FoldsInv, Today
<1>2. ASSUME NEW d \in 0..LastDay, NEW underlying \in Underlyings, NEW held \in 1..MaxBarsHeld,
             Emit(d, underlying, held)
      PROVE  FoldsInv'
  <2>1. PICK new : new = [on |-> d, underlying |-> underlying, held |-> held,
                          ends |-> NthAfter(d, held)]
    OBVIOUS
  <2>2. /\ d \in open /\ emitted' = emitted \cup {new} /\ UNCHANGED <<open, range_end>>
        /\ held \in 1..Min({MaxBarsHeld, Cardinality(After(d, range_end))})
    BY <1>2, <2>1 DEF Emit
  <2>3. OpenDays /\ range_end \in Int /\ d \in Nat /\ LastDay \in Nat
    BY <1>2, FoldsAssumption DEF FoldsInv
  <2>4. held \in Nat \ {0} /\ held <= Cardinality(After(d, range_end))
    <3>1. Cardinality(After(d, range_end)) \in Nat /\ MaxBarsHeld \in Nat
      BY <2>3, AfterFinite, FoldsAssumption
    <3>2. PICK both : both = {MaxBarsHeld, Cardinality(After(d, range_end))}
      OBVIOUS
    <3>3. Min(both) \in both /\ \A y \in both : Min(both) <= y
      BY <3>1, <3>2, MinIsLeast
    <3>4. Min(both) <= Cardinality(After(d, range_end)) /\ held \in 1..Min(both) /\ Min(both) \in Nat
      BY <2>2, <3>1, <3>2, <3>3
    <3>5. QED
      BY <3>1, <3>4
  <2>5. /\ NthAfter(d, held) \in open /\ NthAfter(d, held) > d /\ NthAfter(d, held) <= range_end
        /\ Cardinality(After(d, NthAfter(d, held))) = held
    BY <2>2, <2>3, <2>4, NthIsThere
  <2>6. Resolved(new)
    BY <1>2, <2>1, <2>2, <2>3, <2>5 DEF Resolved, OpenDays
  <2>7. \A s \in emitted' : Resolved(s)
    BY <2>2, <2>6 DEF FoldsInv
  <2>8. QED
    BY <2>2, <2>7 DEF FoldsInv, OpenDays, Calendar, Resolved, After, Closed, Today
<1>3. CASE UNCHANGED folds_vars
  BY <1>3 DEF folds_vars, FoldsInv, OpenDays, Calendar, Resolved, After, Closed, Today
<1>4. QED
  BY <1>1, <1>2, <1>3 DEF FoldsNext

(* However many folds, whatever the calendar and the holdings, no fold     *)
(* learns from the bars it is scored on and none is scored twice.          *)
THEOREM FoldsLearnNothing == FoldsSpec => []NoLeakage
<1>1. FoldsInv => NoLeakage
  BY FoldsInvShows
<1>2. QED
  BY <1>1, InitFolds, StepFolds, PTL DEF FoldsSpec

-----------------------------------------------------------------------------
(* FeatureBackfill.  What was known, and the context that is made of it.   *)
Quotes   == [at : 0..LastClock, streamed : BOOLEAN]
Recorded == Nat \X (SUBSET Nat)
Contexts ==
  [bars : SUBSET Nat, volumes : SUBSET Nat, index_bars : SUBSET Nat, chain : SUBSET Nat,
   prior_chain : SUBSET Nat, iv_history : SUBSET Recorded]
Knowns  == [SeriesRead -> SUBSET Nat] \X (SUBSET Quotes) \X (SUBSET Recorded)
Signals == [at : Nat, link : Nat, saw : Contexts, known : Knowns, live : BOOLEAN]

LatestOf(seen, as_of) ==
  LET fresh == {q.at : q \in {p \in seen : as_of - ChainLookback <= p.at /\ p.at <= as_of}}
  IN  IF fresh = {} THEN {} ELSE {Max(fresh)}

ContextOf(known, t) ==
  [bars        |-> known[1][Underlying],
   volumes     |-> known[1][Underlying] \cap known[1][Future],
   index_bars  |-> known[1][Benchmark],
   chain       |-> LatestOf(known[2], t),
   prior_chain |-> LatestOf(known[2], t - OILookback),
   iv_history  |-> IF LatestOf(known[2], t) = {} \/ Cardinality({p[1] : p \in known[3]}) < MinPriorDays
                   THEN {} ELSE known[3]]

(* Whoever knew the one may know the other later: rows come in, none goes. *)
Before(earlier, later) ==
  /\ \A s \in SeriesRead : earlier[1][s] \subseteq later[1][s]
  /\ earlier[2] \subseteq later[2]
  /\ \A p \in earlier[3] : \E q \in later[3] : q[1] = p[1] /\ p[2] \subseteq q[2]

OneADay(known) == \A p, q \in known[3] : p[1] = q[1] => p = q

FeatureType ==
  /\ clock \in 0..LastClock /\ newest \in [SeriesRead -> Int] /\ quotes \in SUBSET Quotes
  /\ DOMAIN atm_iv \in SUBSET Nat /\ \A d \in DOMAIN atm_iv : atm_iv[d] \in SUBSET Nat
  /\ storing \in BOOLEAN /\ evaluated \in Seq(Signals)
  /\ IsFiniteSet(DOMAIN vectors) /\ \A t \in DOMAIN vectors : vectors[t].id \in Nat \ {0}
  /\ rebuild \in [todo : SUBSET (1..Len(evaluated)), signal : Nat, link : Nat]

VolatilityOfQuotes ==
  \A d \in DOMAIN atm_iv : atm_iv[d] # {} /\ atm_iv[d] \subseteq WindowQuotes(d)

(* Signals are of different instants, were made of what was known, which   *)
(* is known yet, and those whose vector the engine's is have a link and    *)
(* are not to be rebuilt.                                                  *)
SignalsTrue ==
  /\ \A j, k \in 1..Len(evaluated) : j # k => evaluated[j].at # evaluated[k].at
  /\ \A k \in 1..Len(evaluated) :
       /\ evaluated[k].saw = ContextOf(evaluated[k].known, evaluated[k].at)
       /\ Before(evaluated[k].known, Known(evaluated[k].at))
       /\ evaluated[k].live => evaluated[k].link # NoLink /\ k \notin rebuild.todo

Stands(signal, link) ==
  /\ signal.at \in DOMAIN vectors /\ vectors[signal.at].id = link
  /\ \/ vectors[signal.at].inputs = signal.saw
     \/ ~signal.live /\ Known(signal.at) # signal.known

(* The link a run has not committed yet.                                   *)
PendingStands ==
  rebuild.link # NoLink =>
    rebuild.signal \in 1..Len(evaluated) /\ Stands(evaluated[rebuild.signal], rebuild.link)

FeatureInv ==
  FeatureType /\ VolatilityOfQuotes /\ SignalsTrue /\ VectorTellsTheMoment /\ PendingStands

-----------------------------------------------------------------------------
(* A read of an instant is made of what is known of it.                    *)
LEMMA KnownTyped ==
  ASSUME FeatureType, NEW t \in Nat
  PROVE  Known(t) \in Knowns /\ OneADay(Known(t))
<1>1. [s \in SeriesRead |-> BarsUpTo(s, t)] \in [SeriesRead -> SUBSET Nat]
  <2>1. \A s \in SeriesRead : BarsUpTo(s, t) \in SUBSET Nat
    BY DEF FeatureType, BarsUpTo
  <2>2. QED
    BY <2>1
<1>2. {q \in quotes : q.at <= t} \in SUBSET Quotes
  BY DEF FeatureType
<1>3. {<<d, atm_iv[d]>> : d \in PriorIv(t)} \in SUBSET Recorded
  BY DEF FeatureType, PriorIv, Recorded
<1>4. PICK k : k = Known(t)
  OBVIOUS
<1>5. /\ k = <<k[1], k[2], k[3]>> /\ k[1] = [s \in SeriesRead |-> BarsUpTo(s, t)]
      /\ k[2] = {q \in quotes : q.at <= t} /\ k[3] = {<<d, atm_iv[d]>> : d \in PriorIv(t)}
  BY <1>4 DEF Known
<1>6. OneADay(k)
  BY <1>5 DEF OneADay
<1>7. k \in Knowns
  BY <1>1, <1>2, <1>3, <1>5 DEF Knowns
<1>8. QED
  BY <1>4, <1>6, <1>7

LEMMA ReadIsOfKnown ==
  ASSUME FeatureType, NEW t \in Nat
  PROVE  BuildContext(t, t - OILookback) = ContextOf(Known(t), t)
<1> DEFINE known == Known(t)
<1>1. /\ known[1] = [s \in SeriesRead |-> BarsUpTo(s, t)]
      /\ known[2] = {q \in quotes : q.at <= t}
      /\ known[3] = {<<d, atm_iv[d]>> : d \in PriorIv(t)}
  BY DEF Known
<1> HIDE DEF known
<1>2. \A s \in SeriesRead : known[1][s] = BarsUpTo(s, t)
  BY <1>1
<1>3. Underlying \in SeriesRead /\ Benchmark \in SeriesRead /\ Future \in SeriesRead
  BY DEF SeriesRead
<1>4. ASSUME NEW as_of \in Int, as_of <= t PROVE LatestOf(known[2], as_of) = LatestQuote(as_of)
  <2>1. \A q \in quotes : q.at \in Int
    BY DEF FeatureType, Quotes
  <2>2. {p \in known[2] : as_of - ChainLookback <= p.at /\ p.at <= as_of} =
        {p \in quotes : as_of - ChainLookback <= p.at /\ p.at <= as_of}
    BY <1>1, <1>4, <2>1
  <2>3. QED
    BY <2>2 DEF LatestOf, LatestQuote
<1>5. LatestOf(known[2], t) = LatestQuote(t)
  BY <1>4
<1>6. LatestOf(known[2], t - OILookback) = LatestQuote(t - OILookback)
  BY <1>4, FeatureAssumption
<1>7. {p[1] : p \in known[3]} = PriorIv(t)
  <2>1. \A d \in PriorIv(t) : <<d, atm_iv[d]>> \in known[3] /\ <<d, atm_iv[d]>>[1] = d
    BY <1>1
  <2>2. \A p \in known[3] : p[1] \in PriorIv(t)
    BY <1>1
  <2>3. \A d : d \in {p[1] : p \in known[3]} => d \in PriorIv(t)
    BY <2>2
  <2>4. \A d : d \in PriorIv(t) => d \in {p[1] : p \in known[3]}
    BY <2>1
  <2>5. QED
    BY <2>3, <2>4
<1>8. QED
  BY <1>1, <1>2, <1>3, <1>5, <1>6, <1>7 DEF BuildContext, ContextOf, IvHistory, known

LEMMA ReadTyped ==
  ASSUME FeatureType, NEW t \in Nat
  PROVE  BuildContext(t, t - OILookback) \in Contexts
<1>1. \A s \in SeriesRead : BarsUpTo(s, t) \in SUBSET Nat
  BY DEF FeatureType, BarsUpTo
<1>2. ASSUME NEW as_of \in Int PROVE LatestQuote(as_of) \in SUBSET Nat
  <2> DEFINE fresh == {q.at : q \in {p \in quotes : as_of - ChainLookback <= p.at /\ p.at <= as_of}}
  <2>1. fresh \in SUBSET (0..LastClock) /\ LastClock \in Nat
    BY FeatureAssumption DEF FeatureType, Quotes
  <2>2. LatestQuote(as_of) = IF fresh = {} THEN {} ELSE {Max(fresh)}
    BY DEF LatestQuote
  <2> HIDE DEF fresh
  <2>3. fresh # {} => Max(fresh) \in Nat
    <3> SUFFICES ASSUME fresh # {} PROVE Max(fresh) \in Nat
      OBVIOUS
    <3>1. Max(fresh) \in fresh
      BY <2>1, MaxIsGreatest
    <3>2. fresh \in SUBSET Nat
      BY <2>1
    <3>3. QED
      BY <3>1, <3>2
  <2>4. QED
    BY <2>2, <2>3
<1>3. IvHistory(t) \in SUBSET Recorded
  BY DEF IvHistory, FeatureType, PriorIv, Recorded
<1>4. Underlying \in SeriesRead /\ Benchmark \in SeriesRead /\ Future \in SeriesRead
  BY DEF SeriesRead
<1>5. t \in Int /\ t - OILookback \in Int
  BY FeatureAssumption
<1>6. QED
  BY <1>1, <1>2, <1>3, <1>4, <1>5 DEF BuildContext, Contexts

-----------------------------------------------------------------------------
(* Two that are each before the other are the same.                        *)
LEMMA BeforeBothWays ==
  ASSUME NEW a \in Knowns, NEW b \in Knowns, OneADay(a), OneADay(b), Before(a, b), Before(b, a)
  PROVE  a = b
<1>1. a = <<a[1], a[2], a[3]>> /\ b = <<b[1], b[2], b[3]>>
  BY DEF Knowns
<1>2. a[1] = b[1]
  <2>1. a[1] \in [SeriesRead -> SUBSET Nat] /\ b[1] \in [SeriesRead -> SUBSET Nat]
    BY DEF Knowns
  <2>2. \A s \in SeriesRead : a[1][s] = b[1][s]
    BY DEF Before
  <2>3. QED
    BY <2>1, <2>2
<1>3. a[2] = b[2]
  BY DEF Before
<1>4. ASSUME NEW x \in Knowns, NEW y \in Knowns, OneADay(x), Before(x, y), Before(y, x),
             NEW p \in x[3]
      PROVE  p \in y[3]
  <2>1. PICK q \in y[3] : q[1] = p[1] /\ p[2] \subseteq q[2]
    BY <1>4 DEF Before
  <2>2. PICK r \in x[3] : r[1] = q[1] /\ q[2] \subseteq r[2]
    BY <1>4 DEF Before
  <2>3. r = p
    BY <1>4, <2>1, <2>2 DEF OneADay
  <2>4. p = <<p[1], p[2]>> /\ q = <<q[1], q[2]>>
    <3>1. p \in Recorded /\ q \in Recorded
      BY <1>4 DEF Knowns
    <3>2. \A e \in Recorded : e = <<e[1], e[2]>>
      BY DEF Recorded
    <3>3. QED
      BY <3>1, <3>2
  <2>5. QED
    BY <2>1, <2>2, <2>3, <2>4
<1>5. a[3] = b[3]
  BY <1>4
<1>6. QED
  BY <1>1, <1>2, <1>3, <1>5

(* When rows come in, what is known of an instant is known yet.            *)
TablesGrow ==
  /\ \A s \in SeriesRead : newest[s] <= newest'[s]
  /\ quotes \subseteq quotes'
  /\ \A d \in DOMAIN atm_iv : d \in DOMAIN atm_iv' /\ atm_iv[d] \subseteq atm_iv'[d]

LEMMA KnownGrows ==
  ASSUME FeatureType, FeatureType', TablesGrow, NEW t \in Nat
  PROVE  Before(Known(t), Known(t)')
<1>1. \A s \in SeriesRead : BarsUpTo(s, t) \subseteq BarsUpTo(s, t)'
  BY DEF FeatureType, TablesGrow, BarsUpTo
<1>2. {q \in quotes : q.at <= t} \subseteq {q \in quotes' : q.at <= t}
  BY DEF TablesGrow
<1>3. \A d \in PriorIv(t) : d \in PriorIv(t)' /\ atm_iv[d] \subseteq atm_iv'[d]
  BY DEF TablesGrow, PriorIv
<1>4. /\ Known(t)[1] = [s \in SeriesRead |-> BarsUpTo(s, t)]
      /\ Known(t)[2] = {q \in quotes : q.at <= t}
      /\ Known(t)[3] = {<<d, atm_iv[d]>> : d \in PriorIv(t)}
      /\ Known(t)'[1] = [s \in SeriesRead |-> BarsUpTo(s, t)']
      /\ Known(t)'[2] = {q \in quotes' : q.at <= t}
      /\ Known(t)'[3] = {<<d, atm_iv'[d]>> : d \in PriorIv(t)'}
  BY DEF Known
<1>5. \A p \in Known(t)[3] : \E q \in Known(t)'[3] : q[1] = p[1] /\ p[2] \subseteq q[2]
  <2> SUFFICES ASSUME NEW d \in PriorIv(t)
               PROVE  \E q \in Known(t)'[3] : q[1] = d /\ atm_iv[d] \subseteq q[2]
    BY <1>4
  <2>1. <<d, atm_iv'[d]>> \in Known(t)'[3]
    BY <1>3, <1>4
  <2>2. QED
    BY <1>3, <2>1
<1>6. \A s \in SeriesRead : Known(t)[1][s] \subseteq Known(t)'[1][s]
  BY <1>1, <1>4
<1>7. QED
  BY <1>2, <1>4, <1>5, <1>6 DEF Before

-----------------------------------------------------------------------------
KnowsWell == \A t \in Nat : Known(t) \in Knowns /\ OneADay(Known(t))

LEMMA TypeKnowsWell == FeatureType => KnowsWell
  BY KnownTyped DEF KnowsWell

(* What a step of the tables keeps: of every signal all that was known is  *)
(* known yet, and what has come in since does not go again.                *)
LEMMA BeforeGoesOn ==
  ASSUME NEW a \in Knowns, NEW b \in Knowns, NEW c \in Knowns, Before(a, b), Before(b, c)
  PROVE  Before(a, c)
<1>1. \A s \in SeriesRead : a[1][s] \subseteq c[1][s]
  BY DEF Before
<1>2. a[2] \subseteq c[2]
  BY DEF Before
<1>3. ASSUME NEW p \in a[3] PROVE \E r \in c[3] : r[1] = p[1] /\ p[2] \subseteq r[2]
  <2>1. PICK q \in b[3] : q[1] = p[1] /\ p[2] \subseteq q[2]
    BY DEF Before
  <2>2. PICK r \in c[3] : r[1] = q[1] /\ q[2] \subseteq r[2]
    BY DEF Before
  <2>3. QED
    BY <2>1, <2>2
<1>4. QED
  BY <1>1, <1>2, <1>3 DEF Before

LEMMA StandsStill ==
  ASSUME FeatureType, FeatureType', TablesGrow, UNCHANGED vectors, NEW signal \in Signals,
         Before(signal.known, Known(signal.at))
  PROVE  /\ Before(signal.known, Known(signal.at)')
         /\ \A link : Stands(signal, link) => Stands(signal, link)'
<1> DEFINE was == Known(signal.at)
           is  == Known(signal.at)'
<1>1. signal.at \in Nat /\ signal.known \in Knowns
  BY DEF Signals
<1>2. was \in Knowns /\ OneADay(was) /\ is \in Knowns /\ OneADay(is) /\ Before(was, is)
  <2>1. was \in Knowns /\ OneADay(was) /\ Before(was, is)
    BY <1>1, KnownTyped, KnownGrows
  <2>2. FeatureType' => KnowsWell'
    BY TypeKnowsWell, PTL
  <2>3. QED
    BY <1>1, <2>1, <2>2 DEF KnowsWell
<1>3. Before(signal.known, is)
  BY <1>1, <1>2, BeforeGoesOn
<1>4. is = signal.known => was = signal.known
  BY <1>1, <1>2, BeforeBothWays
<1>5. \A link : Stands(signal, link) => Stands(signal, link)'
  BY <1>4 DEF Stands
<1>6. QED
  BY <1>3, <1>5

LEMMA TablesKeep ==
  ASSUME FeatureInv, FeatureType', VolatilityOfQuotes', TablesGrow, UNCHANGED Engine
  PROVE  FeatureInv'
<1>1. UNCHANGED <<storing, evaluated, vectors, rebuild>> /\ FeatureType
  BY DEF Engine, FeatureInv
<1>2. ASSUME NEW k \in 1..Len(evaluated)
      PROVE  /\ Before(evaluated[k].known, Known(evaluated[k].at)')
             /\ \A link : Stands(evaluated[k], link) => Stands(evaluated[k], link)'
  <2>1. PICK signal : signal = evaluated[k]
    OBVIOUS
  <2>2. signal \in Signals /\ Before(signal.known, Known(signal.at))
    BY <1>1, <2>1 DEF FeatureType, FeatureInv, SignalsTrue
  <2>3. /\ Before(signal.known, Known(signal.at)')
        /\ \A link : Stands(signal, link) => Stands(signal, link)'
    BY <1>1, <2>2, StandsStill
  <2>4. QED
    BY <1>1, <2>1, <2>3
<1>3. SignalsTrue'
  BY <1>1, <1>2 DEF FeatureInv, SignalsTrue
<1>4. VectorTellsTheMoment'
  <2>1. \A k \in 1..Len(evaluated) :
          evaluated[k].link # NoLink => Stands(evaluated[k], evaluated[k].link)
    BY DEF FeatureInv, VectorTellsTheMoment, Stands
  <2>2. \A k \in 1..Len(evaluated) :
          evaluated[k].link # NoLink => Stands(evaluated[k], evaluated[k].link)'
    BY <1>1, <1>2, <2>1
  <2>3. QED
    BY <1>1, <2>2 DEF VectorTellsTheMoment, Stands
<1>5. PendingStands'
  BY <1>1, <1>2 DEF FeatureInv, PendingStands
<1>6. QED
  BY <1>3, <1>4, <1>5 DEF FeatureInv

-----------------------------------------------------------------------------
(* The steps of the tables.                                                *)
LEMMA WindowGrows ==
  ASSUME quotes \subseteq quotes', NEW day
  PROVE  WindowQuotes(day) \subseteq WindowQuotes(day)'
  BY DEF WindowQuotes

LEMMA ClockKeeps == FeatureInv /\ ClockTicks => FeatureInv'
<1> SUFFICES ASSUME FeatureInv, ClockTicks PROVE FeatureInv'
  OBVIOUS
<1>1. /\ clock' \in 0..LastClock /\ UNCHANGED <<newest, quotes, atm_iv>>
      /\ UNCHANGED <<storing, evaluated, vectors, rebuild>>
  BY FeatureAssumption DEF ClockTicks, FeatureInv, FeatureType, Tables, Engine
<1>2. FeatureType'
  BY <1>1 DEF FeatureInv, FeatureType
<1>3. TablesGrow
  BY <1>1 DEF FeatureInv, FeatureType, TablesGrow
<1>4. VolatilityOfQuotes'
  BY <1>1 DEF FeatureInv, VolatilityOfQuotes, WindowQuotes
<1>5. QED
  BY <1>1, <1>2, <1>3, <1>4, TablesKeep DEF Engine

LEMMA BarsKeep ==
  ASSUME FeatureInv, NEW s \in SeriesRead, NEW upto \in {clock - 1, clock}, RefreshBars(s, upto)
  PROVE  FeatureInv'
<1>1. /\ newest' = [newest EXCEPT ![s] = upto] /\ newest[s] < upto
      /\ UNCHANGED <<clock, quotes, atm_iv, storing, evaluated, vectors, rebuild>>
  BY FeatureAssumption DEF RefreshBars, FeatureInv, FeatureType, Engine
<1>2. upto \in Int /\ newest \in [SeriesRead -> Int]
  BY DEF FeatureInv, FeatureType
<1>3. FeatureType'
  BY <1>1, <1>2 DEF FeatureInv, FeatureType
<1>4. TablesGrow
  BY <1>1, <1>2 DEF TablesGrow
<1>5. VolatilityOfQuotes'
  BY <1>1 DEF FeatureInv, VolatilityOfQuotes, WindowQuotes
<1>6. QED
  BY <1>1, <1>3, <1>4, <1>5, TablesKeep DEF Engine

LEMMA QuoteKeeps ==
  ASSUME FeatureInv, NEW at \in {clock - 1, clock}, NEW streamed \in BOOLEAN,
         WriteQuote([at |-> at, streamed |-> streamed])
  PROVE  FeatureInv'
<1>1. PICK q : q = [at |-> at, streamed |-> streamed]
  OBVIOUS
<1>2. /\ quotes' = quotes \cup {q} /\ q.at >= 0
      /\ UNCHANGED <<clock, newest, atm_iv, storing, evaluated, vectors, rebuild>>
  BY <1>1 DEF WriteQuote, Engine
<1>3. q \in Quotes
  BY <1>1, <1>2, FeatureAssumption DEF FeatureInv, FeatureType, Quotes
<1>4. FeatureType'
  BY <1>2, <1>3 DEF FeatureInv, FeatureType
<1>5. TablesGrow
  BY <1>2 DEF TablesGrow, FeatureInv, FeatureType
<1>6. VolatilityOfQuotes'
  BY <1>2, WindowGrows DEF FeatureInv, VolatilityOfQuotes
<1>7. QED
  BY <1>2, <1>4, <1>5, <1>6, TablesKeep DEF Engine

LEMMA VolatilityKeeps ==
  ASSUME FeatureInv, NEW day \in AskedDays, RecordAtmIv(day)
  PROVE  FeatureInv'
<1> DEFINE window == WindowQuotes(day)
<1>1. UNCHANGED <<clock, newest, quotes, storing, evaluated, vectors, rebuild>>
  BY DEF RecordAtmIv, Engine
<1>2. /\ DOMAIN atm_iv' = (DOMAIN atm_iv \ {day}) \cup (IF window = {} THEN {} ELSE {day})
      /\ \A d \in DOMAIN atm_iv' : atm_iv'[d] = IF d = day THEN window ELSE atm_iv[d]
  BY DEF RecordAtmIv
<1>3. window \in SUBSET Nat /\ day \in Nat
  <2>1. clock \div Day \in Int
    BY FeatureAssumption DEF FeatureInv, FeatureType
  <2>2. day \in Nat
    BY <2>1 DEF AskedDays, DayOf
  <2>3. window \in SUBSET Nat
    BY DEF FeatureInv, FeatureType, WindowQuotes, Quotes
  <2>4. QED
    BY <2>2, <2>3
<1>4. day \in DOMAIN atm_iv => atm_iv[day] # {} /\ atm_iv[day] \subseteq window
  BY DEF FeatureInv, VolatilityOfQuotes
<1>5. \A d : WindowQuotes(d)' = WindowQuotes(d)
  BY <1>1 DEF WindowQuotes
<1> HIDE DEF window
<1>6. FeatureType'
  BY <1>1, <1>2, <1>3 DEF FeatureInv, FeatureType
<1>7. TablesGrow
  <2>1. \A d \in DOMAIN atm_iv : d \in DOMAIN atm_iv' /\ atm_iv[d] \subseteq atm_iv'[d]
    BY <1>2, <1>4
  <2>2. QED
    BY <1>1, <2>1 DEF TablesGrow, FeatureInv, FeatureType
<1>8. VolatilityOfQuotes'
  BY <1>2, <1>5 DEF FeatureInv, VolatilityOfQuotes, window
<1>9. QED
  BY <1>1, <1>6, <1>7, <1>8, TablesKeep DEF Engine

-----------------------------------------------------------------------------
(* The steps of the engine and of the runs, while the tables stand.        *)
LEMMA SameKnown ==
  ASSUME UNCHANGED <<newest, quotes, atm_iv>>
  PROVE  \A t : Known(t)' = Known(t)
  BY DEF Known, BarsUpTo, PriorIv

(* The row of an instant takes the inputs and keeps its id, no other moves. *)
OnlyAt(t, inputs, new) ==
  /\ DOMAIN new = DOMAIN vectors \cup {t} /\ IsFiniteSet(DOMAIN new)
  /\ \A u \in DOMAIN new : new[u].id \in Nat \ {0}
  /\ new[t].inputs = inputs
  /\ t \in DOMAIN vectors => new[t].id = vectors[t].id
  /\ \A u \in DOMAIN vectors : u # t => new[u] = vectors[u]

LEMMA UpsertFacts ==
  ASSUME FeatureType, NEW t \in Nat, NEW inputs
  PROVE  OnlyAt(t, inputs, Upserted(t, inputs))
<1> DEFINE id == IF t \in DOMAIN vectors THEN vectors[t].id ELSE Cardinality(DOMAIN vectors) + 1
<1>1. id \in Nat \ {0}
  <2>1. Cardinality(DOMAIN vectors) \in Nat
    BY FS_CardinalityType DEF FeatureType
  <2>2. QED
    BY <2>1 DEF FeatureType
<1>2. PICK new : new = Upserted(t, inputs)
  OBVIOUS
<1>3. new = [u \in DOMAIN vectors \cup {t} |->
               IF u = t THEN [id |-> id, inputs |-> inputs] ELSE vectors[u]]
  BY <1>2 DEF Upserted
<1>4. t \in DOMAIN vectors => id = vectors[t].id
  OBVIOUS
<1> HIDE DEF id
<1>5. IsFiniteSet(DOMAIN vectors \cup {t})
  BY FS_AddElement DEF FeatureType
<1>6. OnlyAt(t, inputs, new)
  BY <1>1, <1>3, <1>4, <1>5 DEF FeatureType, OnlyAt
<1>7. QED
  BY <1>2, <1>6

(* A vector read again where nothing has come in is the one the engine     *)
(* saw.                                                                    *)
LEMMA ReadAgain ==
  ASSUME FeatureInv, NEW k \in 1..Len(evaluated),
         Known(evaluated[k].at) = evaluated[k].known
  PROVE  Rebuilt(evaluated[k]) = evaluated[k].saw
<1>1. evaluated[k].at \in Nat
  <2>1. evaluated[k] \in Signals
    BY DEF FeatureInv, FeatureType
  <2>2. QED
    BY <2>1 DEF Signals
<1>2. Rebuilt(evaluated[k]) = ContextOf(Known(evaluated[k].at), evaluated[k].at)
  BY <1>1, ReadIsOfKnown DEF Rebuilt, FeatureInv
<1>3. QED
  BY <1>2 DEF FeatureInv, SignalsTrue

LEMMA EvaluateKeeps == FeatureInv /\ Evaluate => FeatureInv'
<1> SUFFICES ASSUME FeatureInv, Evaluate PROVE FeatureInv'
  OBVIOUS
<1>1. PICK context : context = BuildContext(clock, clock - OILookback)
  OBVIOUS
<1>2. PICK stored : stored = IF storing THEN Upserted(clock, context) ELSE vectors
  OBVIOUS
<1>3. PICK signal : signal = [at |-> clock, link |-> IF storing THEN stored[clock].id ELSE NoLink,
                              saw |-> context, known |-> Known(clock), live |-> storing]
  OBVIOUS
<1>4. /\ \A k \in 1..Len(evaluated) : evaluated[k].at # clock
      /\ vectors' = stored /\ evaluated' = Append(evaluated, signal)
      /\ UNCHANGED <<clock, newest, quotes, atm_iv, storing, rebuild>>
  BY <1>1, <1>2, <1>3 DEF Evaluate, Tables
<1>5. /\ FeatureType /\ clock \in Nat /\ evaluated \in Seq(Signals) /\ Len(evaluated) \in Nat
      /\ storing \in BOOLEAN
  BY DEF FeatureInv, FeatureType
<1>6. /\ IsFiniteSet(DOMAIN stored) /\ \A t \in DOMAIN stored : stored[t].id \in Nat \ {0}
      /\ \A t \in DOMAIN vectors : t \in DOMAIN stored /\ (t # clock => stored[t] = vectors[t])
      /\ storing => clock \in DOMAIN stored /\ stored[clock].inputs = context
  <2>1. CASE storing
    <3>1. stored = Upserted(clock, context)
      BY <1>2, <2>1
    <3>2. OnlyAt(clock, context, stored)
      BY <1>5, <3>1, UpsertFacts
    <3>3. QED
      BY <3>2 DEF OnlyAt
  <2>2. CASE ~storing
    BY <1>2, <1>5, <2>2 DEF FeatureType
  <2>3. QED
    BY <2>1, <2>2
<1>7. signal \in Signals
  <2>1. context \in Contexts /\ Known(clock) \in Knowns
    BY <1>1, <1>5, ReadTyped, KnownTyped
  <2>2. (IF storing THEN stored[clock].id ELSE NoLink) \in Nat
    BY <1>6 DEF NoLink
  <2>3. QED
    BY <1>3, <1>5, <2>1, <2>2 DEF Signals
<1>8. /\ Len(evaluated') = Len(evaluated) + 1 /\ evaluated' \in Seq(Signals)
      /\ evaluated'[Len(evaluated) + 1] = signal
      /\ \A k \in 1..Len(evaluated) : evaluated'[k] = evaluated[k]
  BY <1>4, <1>5, <1>7
<1>9. \A k \in 1..Len(evaluated') : k \in 1..Len(evaluated) \/ k = Len(evaluated) + 1
  BY <1>5, <1>8
<1>10. \A k \in 1..Len(evaluated) : k \in 1..Len(evaluated') /\ k # Len(evaluated) + 1
  BY <1>5, <1>8
<1>11. /\ signal.at = clock /\ signal.saw = context /\ signal.known = Known(clock)
       /\ signal.live = storing
       /\ storing => signal.link = stored[clock].id /\ signal.link # NoLink
       /\ ~storing => signal.link = NoLink
  BY <1>3, <1>6 DEF NoLink
<1>12. \A t : Known(t)' = Known(t)
  BY <1>4, SameKnown
<1>13. FeatureType'
  <2>1. rebuild.todo \in SUBSET (1..Len(evaluated'))
    BY <1>10 DEF FeatureInv, FeatureType
  <2>2. rebuild \in [todo : SUBSET (1..Len(evaluated')), signal : Nat, link : Nat]
    BY <2>1 DEF FeatureInv, FeatureType
  <2>3. QED
    BY <1>4, <1>5, <1>6, <1>8, <2>2 DEF FeatureType
<1>14. VolatilityOfQuotes'
  BY <1>4 DEF FeatureInv, VolatilityOfQuotes, WindowQuotes
<1>15. SignalsTrue'
  <2>1. \A j, k \in 1..Len(evaluated') : j # k => evaluated'[j].at # evaluated'[k].at
    BY <1>4, <1>8, <1>9, <1>11 DEF FeatureInv, SignalsTrue
  <2>2. /\ signal.saw = ContextOf(signal.known, signal.at)
        /\ Before(signal.known, Known(signal.at))
    BY <1>1, <1>5, <1>11, ReadIsOfKnown DEF Before
  <2>3. Len(evaluated) + 1 \notin rebuild.todo
    BY <1>5 DEF FeatureType
  <2>4. ASSUME NEW k \in 1..Len(evaluated')
        PROVE  /\ evaluated'[k].saw = ContextOf(evaluated'[k].known, evaluated'[k].at)
               /\ Before(evaluated'[k].known, Known(evaluated'[k].at))
               /\ evaluated'[k].live => evaluated'[k].link # NoLink /\ k \notin rebuild.todo
    <3>1. CASE k \in 1..Len(evaluated)
      BY <1>8, <3>1 DEF FeatureInv, SignalsTrue
    <3>2. CASE k = Len(evaluated) + 1
      BY <1>8, <1>11, <2>2, <2>3, <3>2
    <3>3. QED
      BY <1>9, <3>1, <3>2
  <2>5. QED
    BY <1>4, <1>12, <2>1, <2>4 DEF SignalsTrue
<1>16. ASSUME NEW k \in 1..Len(evaluated), NEW link, Stands(evaluated[k], link)
       PROVE  Stands(evaluated[k], link)'
  <2>1. /\ evaluated'[k] = evaluated[k] /\ evaluated[k].at # clock
        /\ vectors'[evaluated[k].at] = vectors[evaluated[k].at]
        /\ evaluated[k].at \in DOMAIN vectors'
    BY <1>4, <1>6, <1>8, <1>16 DEF Stands
  <2>2. QED
    BY <1>12, <1>16, <2>1 DEF Stands
<1>17. VectorTellsTheMoment'
  <2>1. \A k \in 1..Len(evaluated) :
          evaluated[k].link # NoLink => Stands(evaluated[k], evaluated[k].link)
    BY DEF FeatureInv, VectorTellsTheMoment, Stands
  <2>2. \A k \in 1..Len(evaluated) :
          evaluated'[k].link # NoLink => Stands(evaluated[k], evaluated[k].link)'
    BY <1>8, <1>16, <2>1
  <2>3. signal.link # NoLink => /\ signal.at \in DOMAIN vectors'
                                /\ vectors'[signal.at].id = signal.link
                                /\ vectors'[signal.at].inputs = signal.saw
    <3>1. CASE storing
      BY <1>4, <1>6, <1>11, <3>1
    <3>2. CASE ~storing
      BY <1>11, <3>2
    <3>3. QED
      BY <3>1, <3>2
  <2>4. QED
    BY <1>8, <1>9, <2>2, <2>3 DEF VectorTellsTheMoment, Stands
<1>18. PendingStands'
  BY <1>4, <1>8, <1>10, <1>16 DEF FeatureInv, PendingStands
<1>19. QED
  BY <1>13, <1>14, <1>15, <1>17, <1>18 DEF FeatureInv

LEMMA SelectKeeps ==
  ASSUME FeatureInv, NEW overwrite \in BOOLEAN, SelectSignals(overwrite)
  PROVE  FeatureInv'
<1>1. PICK todo : todo = {k \in 1..Len(evaluated) : overwrite \/ evaluated[k].link = NoLink}
  OBVIOUS
<1>2. /\ rebuild = NoRebuild /\ rebuild' = [rebuild EXCEPT !.todo = todo]
      /\ evaluated' = [k \in 1..Len(evaluated) |->
                         [evaluated[k] EXCEPT !.live = evaluated[k].live /\ ~overwrite]]
      /\ UNCHANGED <<clock, newest, quotes, atm_iv, storing, vectors>>
  BY <1>1 DEF SelectSignals, Tables
<1>3. rebuild' = [todo |-> todo, signal |-> 0, link |-> NoLink]
  BY <1>2 DEF NoRebuild
<1>4. /\ FeatureType /\ evaluated \in Seq(Signals) /\ Len(evaluated) \in Nat
      /\ \A k \in 1..Len(evaluated) : evaluated[k] \in Signals
  BY DEF FeatureInv, FeatureType
<1>5. \A k \in 1..Len(evaluated) :
        /\ evaluated'[k] \in Signals
        /\ evaluated'[k].at = evaluated[k].at /\ evaluated'[k].link = evaluated[k].link
        /\ evaluated'[k].saw = evaluated[k].saw /\ evaluated'[k].known = evaluated[k].known
        /\ evaluated'[k].live = (evaluated[k].live /\ ~overwrite)
  BY <1>2, <1>4 DEF Signals
<1>6. evaluated' \in Seq(Signals) /\ Len(evaluated') = Len(evaluated)
  BY <1>2, <1>4, <1>5
<1>7. \A t : Known(t)' = Known(t)
  BY <1>2, SameKnown
<1>8. FeatureType'
  BY <1>1, <1>2, <1>3, <1>4, <1>6 DEF FeatureType, NoLink
<1>9. VolatilityOfQuotes'
  BY <1>2 DEF FeatureInv, VolatilityOfQuotes, WindowQuotes
<1>10. SignalsTrue'
  <2>1. \A j, k \in 1..Len(evaluated) : j # k => evaluated'[j].at # evaluated'[k].at
    BY <1>5 DEF FeatureInv, SignalsTrue
  <2>2. ASSUME NEW k \in 1..Len(evaluated)
        PROVE  /\ evaluated'[k].saw = ContextOf(evaluated'[k].known, evaluated'[k].at)
               /\ Before(evaluated'[k].known, Known(evaluated'[k].at))
    BY <1>5 DEF FeatureInv, SignalsTrue
  <2>3. ASSUME NEW k \in 1..Len(evaluated), evaluated'[k].live
        PROVE  evaluated'[k].link # NoLink /\ k \notin todo
    <3>1. evaluated[k].live /\ ~overwrite /\ evaluated'[k].link = evaluated[k].link
      BY <1>5, <2>3
    <3>2. evaluated[k].link # NoLink
      BY <3>1 DEF FeatureInv, SignalsTrue
    <3>3. QED
      BY <1>1, <3>1, <3>2
  <2>4. QED
    BY <1>3, <1>6, <1>7, <2>1, <2>2, <2>3 DEF SignalsTrue
<1>11. VectorTellsTheMoment'
  <2> SUFFICES ASSUME NEW k \in 1..Len(evaluated), evaluated'[k].link # NoLink
               PROVE  Stands(evaluated[k], evaluated[k].link)'
    BY <1>6 DEF VectorTellsTheMoment, Stands
  <2>1. Stands(evaluated[k], evaluated[k].link)
    BY <1>5 DEF FeatureInv, VectorTellsTheMoment, Stands
  <2>2. QED
    BY <1>2, <1>5, <1>7, <2>1 DEF Stands
<1>12. PendingStands'
  BY <1>3 DEF PendingStands
<1>13. QED
  BY <1>8, <1>9, <1>10, <1>11, <1>12 DEF FeatureInv

(* Committing the link of a run to the vector before changes a link, and   *)
(* only to what stands.                                                    *)
LEMMA LinkedFacts ==
  ASSUME FeatureInv
  PROVE  /\ Linked \in Seq(Signals) /\ Len(Linked) = Len(evaluated)
         /\ \A k \in 1..Len(evaluated) :
              /\ Linked[k].at = evaluated[k].at /\ Linked[k].saw = evaluated[k].saw
              /\ Linked[k].known = evaluated[k].known /\ Linked[k].live = evaluated[k].live
              /\ Linked[k].link # NoLink => Stands(evaluated[k], Linked[k].link)
              /\ evaluated[k].link # NoLink => Linked[k].link # NoLink
<1>1. /\ evaluated \in Seq(Signals) /\ Len(evaluated) \in Nat /\ rebuild.link \in Nat
      /\ \A k \in 1..Len(evaluated) : evaluated[k] \in Signals
  BY DEF FeatureInv, FeatureType
<1>2. \A k \in 1..Len(evaluated) :
        evaluated[k].link # NoLink => Stands(evaluated[k], evaluated[k].link)
  BY DEF FeatureInv, VectorTellsTheMoment, Stands
<1>3. CASE rebuild.link = NoLink
  BY <1>1, <1>2, <1>3 DEF Linked
<1>4. CASE rebuild.link # NoLink
  <2>1. PICK n : n = rebuild.signal
    OBVIOUS
  <2>2. n \in 1..Len(evaluated) /\ Stands(evaluated[n], rebuild.link)
    BY <1>4, <2>1 DEF FeatureInv, PendingStands
  <2>3. PICK linked : linked = [evaluated[n] EXCEPT !.link = rebuild.link]
    OBVIOUS
  <2>4. /\ linked \in Signals /\ linked.at = evaluated[n].at /\ linked.saw = evaluated[n].saw
        /\ linked.known = evaluated[n].known /\ linked.live = evaluated[n].live
        /\ linked.link = rebuild.link
    BY <1>1, <2>2, <2>3 DEF Signals
  <2>5. Linked = [evaluated EXCEPT ![n] = linked]
    BY <1>4, <2>1, <2>3 DEF Linked
  <2>6. /\ Linked \in Seq(Signals) /\ Len(Linked) = Len(evaluated)
        /\ \A k \in 1..Len(evaluated) : Linked[k] = IF k = n THEN linked ELSE evaluated[k]
    BY <1>1, <2>2, <2>4, <2>5
  <2>7. QED
    BY <1>2, <1>4, <2>2, <2>4, <2>6
<1>5. QED
  BY <1>3, <1>4

LEMMA CommitLinkKeeps == FeatureInv /\ CommitLink => FeatureInv'
<1> SUFFICES ASSUME FeatureInv, CommitLink PROVE FeatureInv'
  OBVIOUS
<1>1. /\ evaluated' = Linked /\ rebuild' = [rebuild EXCEPT !.signal = 0, !.link = NoLink]
      /\ UNCHANGED <<clock, newest, quotes, atm_iv, storing, vectors>>
  BY DEF CommitLink, Tables
<1>2. /\ evaluated' \in Seq(Signals) /\ Len(evaluated') = Len(evaluated)
      /\ \A k \in 1..Len(evaluated) :
           /\ evaluated'[k].at = evaluated[k].at /\ evaluated'[k].saw = evaluated[k].saw
           /\ evaluated'[k].known = evaluated[k].known /\ evaluated'[k].live = evaluated[k].live
           /\ evaluated'[k].link # NoLink => Stands(evaluated[k], evaluated'[k].link)
           /\ evaluated[k].link # NoLink => evaluated'[k].link # NoLink
  BY <1>1, LinkedFacts
<1>3. \A t : Known(t)' = Known(t)
  BY <1>1, SameKnown
<1>4. FeatureType /\ rebuild'.todo = rebuild.todo /\ rebuild'.link = NoLink
  BY <1>1 DEF FeatureInv, FeatureType
<1>5. FeatureType'
  BY <1>1, <1>2, <1>4 DEF FeatureType, NoLink
<1>6. VolatilityOfQuotes'
  BY <1>1 DEF FeatureInv, VolatilityOfQuotes, WindowQuotes
<1>7. SignalsTrue'
  BY <1>2, <1>3, <1>4 DEF FeatureInv, SignalsTrue
<1>8. VectorTellsTheMoment'
  <2> SUFFICES ASSUME NEW k \in 1..Len(evaluated), evaluated'[k].link # NoLink
               PROVE  Stands(evaluated[k], evaluated[k].link)'
    BY <1>2 DEF VectorTellsTheMoment, Stands
  <2>1. Stands(evaluated[k], evaluated'[k].link)
    BY <1>2
  <2>2. QED
    BY <1>1, <1>2, <1>3, <2>1 DEF Stands
<1>9. PendingStands'
  BY <1>4 DEF PendingStands
<1>10. QED
  BY <1>5, <1>6, <1>7, <1>8, <1>9 DEF FeatureInv

LEMMA InterruptKeeps == FeatureInv /\ Interrupt => FeatureInv'
<1> SUFFICES ASSUME FeatureInv, Interrupt PROVE FeatureInv'
  OBVIOUS
<1>1. /\ rebuild' = NoRebuild
      /\ UNCHANGED <<clock, newest, quotes, atm_iv, storing, evaluated, vectors>>
  BY DEF Interrupt, Tables
<1>2. \A t : Known(t)' = Known(t)
  BY <1>1, SameKnown
<1>3. rebuild'.todo = {} /\ rebuild'.link = NoLink /\ rebuild'.signal = 0
  BY <1>1 DEF NoRebuild
<1>4. FeatureType'
  BY <1>1 DEF FeatureInv, FeatureType, NoRebuild, NoLink
<1>5. VolatilityOfQuotes'
  BY <1>1 DEF FeatureInv, VolatilityOfQuotes, WindowQuotes
<1>6. SignalsTrue'
  BY <1>1, <1>2, <1>3 DEF FeatureInv, SignalsTrue
<1>7. VectorTellsTheMoment'
  BY <1>1, <1>2 DEF FeatureInv, VectorTellsTheMoment
<1>8. PendingStands'
  BY <1>3 DEF PendingStands
<1>9. QED
  BY <1>4, <1>5, <1>6, <1>7, <1>8 DEF FeatureInv

LEMMA ReconstructKeeps == FeatureInv /\ Reconstruct => FeatureInv'
<1> SUFFICES ASSUME FeatureInv, Reconstruct PROVE FeatureInv'
  OBVIOUS
<1>1. PICK k : k = Min(rebuild.todo)
  OBVIOUS
<1>2. PICK signal : signal = evaluated[k]
  OBVIOUS
<1>3. /\ FeatureType /\ evaluated \in Seq(Signals) /\ Len(evaluated) \in Nat
      /\ rebuild.todo \in SUBSET (1..Len(evaluated))
      /\ rebuild.signal \in Nat /\ rebuild.link \in Nat
  BY DEF FeatureInv, FeatureType
<1>4. /\ k \in rebuild.todo /\ k \in 1..Len(evaluated)
      /\ signal \in Signals /\ signal.at \in Nat
  <2>1. rebuild.todo \in SUBSET Nat /\ rebuild.todo # {}
    BY <1>3 DEF Reconstruct
  <2>2. k \in rebuild.todo
    BY <1>1, <2>1, MinIsLeast
  <2>3. k \in 1..Len(evaluated) /\ signal \in Signals
    BY <1>2, <1>3, <2>2
  <2>4. QED
    BY <2>2, <2>3 DEF Signals
<1>5. UNCHANGED <<clock, newest, quotes, atm_iv, storing>>
  BY DEF Reconstruct, Tables
<1>6. \A t : Known(t)' = Known(t)
  BY <1>5, SameKnown
<1>7. VolatilityOfQuotes'
  BY <1>5 DEF FeatureInv, VolatilityOfQuotes, WindowQuotes
<1>8. CASE HasInputs(Rebuilt(signal))
  <2>1. PICK id : id = vectors'[signal.at].id
    OBVIOUS
  <2>2. /\ vectors' = Upserted(signal.at, Rebuilt(signal)) /\ evaluated' = Linked
        /\ rebuild' = [todo |-> rebuild.todo \ {k}, signal |-> k, link |-> id]
    BY <1>1, <1>2, <1>8, <2>1 DEF Reconstruct
  <2>3. OnlyAt(signal.at, Rebuilt(signal), vectors')
    BY <1>3, <1>4, <2>2, UpsertFacts
  <2>4. /\ signal.at \in DOMAIN vectors' /\ vectors'[signal.at].inputs = Rebuilt(signal)
        /\ id \in Nat \ {0} /\ IsFiniteSet(DOMAIN vectors')
        /\ \A t \in DOMAIN vectors' : vectors'[t].id \in Nat \ {0}
        /\ \A t \in DOMAIN vectors : t \in DOMAIN vectors' /\ vectors'[t].id = vectors[t].id
        /\ \A t \in DOMAIN vectors : t # signal.at => vectors'[t] = vectors[t]
    BY <2>1, <2>3 DEF OnlyAt
  <2>5. /\ evaluated' \in Seq(Signals) /\ Len(evaluated') = Len(evaluated)
        /\ \A j \in 1..Len(evaluated) :
             /\ evaluated'[j].at = evaluated[j].at /\ evaluated'[j].saw = evaluated[j].saw
             /\ evaluated'[j].known = evaluated[j].known /\ evaluated'[j].live = evaluated[j].live
             /\ evaluated'[j].link # NoLink => Stands(evaluated[j], evaluated'[j].link)
             /\ evaluated[j].link # NoLink => evaluated'[j].link # NoLink
    BY <2>2, LinkedFacts
  <2>6. rebuild'.todo = rebuild.todo \ {k} /\ rebuild'.signal = k /\ rebuild'.link = id
    BY <2>2
  <2>7. FeatureType'
    <3>1. rebuild' \in [todo : SUBSET (1..Len(evaluated)), signal : Nat, link : Nat]
      BY <1>3, <1>4, <2>2, <2>4
    <3>2. QED
      BY <1>3, <1>5, <2>4, <2>5, <3>1 DEF FeatureType
  <2>8. SignalsTrue'
    BY <1>6, <2>5, <2>6 DEF FeatureInv, SignalsTrue
  <2>9. ~signal.live
    BY <1>2, <1>4 DEF FeatureInv, SignalsTrue
  <2>10. vectors'[signal.at].inputs = signal.saw \/ Known(signal.at) # signal.known
    BY <1>2, <1>4, <2>4, ReadAgain
  <2>11. ASSUME NEW j \in 1..Len(evaluated), NEW link, Stands(evaluated[j], link)
         PROVE  Stands(evaluated[j], link)'
    <3>1. /\ evaluated[j].at \in DOMAIN vectors' /\ vectors'[evaluated[j].at].id = link
          /\ \/ vectors[evaluated[j].at].inputs = evaluated[j].saw
             \/ ~evaluated[j].live /\ Known(evaluated[j].at) # evaluated[j].known
      BY <2>4, <2>11 DEF Stands
    <3>2. CASE j = k
      BY <1>2, <1>6, <2>5, <2>9, <2>10, <3>1, <3>2 DEF Stands
    <3>3. CASE j # k
      <4>1. evaluated[j].at # signal.at
        BY <1>2, <1>4, <3>3 DEF FeatureInv, SignalsTrue
      <4>2. vectors'[evaluated[j].at] = vectors[evaluated[j].at]
        BY <2>4, <2>11, <4>1 DEF Stands
      <4>3. QED
        BY <1>6, <2>5, <3>1, <4>2 DEF Stands
    <3>4. QED
      BY <3>2, <3>3
  <2>12. VectorTellsTheMoment'
    <3>1. \A j \in 1..Len(evaluated) :
            evaluated'[j].link # NoLink => Stands(evaluated[j], evaluated[j].link)'
      <4> SUFFICES ASSUME NEW j \in 1..Len(evaluated), evaluated'[j].link # NoLink
                   PROVE  Stands(evaluated[j], evaluated[j].link)'
        OBVIOUS
      <4>1. PICK link : link = evaluated'[j].link
        OBVIOUS
      <4>2. Stands(evaluated[j], link)'
        BY <2>5, <2>11, <4>1
      <4>3. QED
        BY <4>1, <4>2 DEF Stands
    <3>2. QED
      BY <2>5, <3>1 DEF VectorTellsTheMoment, Stands
  <2>13. PendingStands'
    <3>1. Stands(evaluated[k], id)'
      BY <1>2, <1>4, <1>6, <2>1, <2>4, <2>5, <2>9, <2>10 DEF Stands
    <3>2. QED
      BY <1>4, <2>5, <2>6, <3>1 DEF PendingStands, Stands
  <2>14. QED
    BY <1>7, <2>7, <2>8, <2>12, <2>13 DEF FeatureInv
<1>9. CASE ~HasInputs(Rebuilt(signal))
  <2>1. /\ rebuild' = [rebuild EXCEPT !.todo = rebuild.todo \ {k}]
        /\ UNCHANGED <<vectors, evaluated>>
    BY <1>1, <1>2, <1>9 DEF Reconstruct
  <2>2. /\ rebuild'.todo = rebuild.todo \ {k} /\ rebuild'.signal = rebuild.signal
        /\ rebuild'.link = rebuild.link
    BY <2>1 DEF FeatureInv, FeatureType
  <2>3. FeatureType'
    BY <1>3, <1>5, <2>1 DEF FeatureType
  <2>4. SignalsTrue'
    BY <1>6, <2>1, <2>2 DEF FeatureInv, SignalsTrue
  <2>5. VectorTellsTheMoment'
    BY <1>6, <2>1 DEF FeatureInv, VectorTellsTheMoment
  <2>6. PendingStands'
    BY <1>6, <2>1, <2>2 DEF FeatureInv, PendingStands, Stands
  <2>7. QED
    BY <1>7, <2>3, <2>4, <2>5, <2>6 DEF FeatureInv
<1>10. QED
  BY <1>8, <1>9

-----------------------------------------------------------------------------
LEMMA InitFeatures == FeatureInit => FeatureInv
<1> SUFFICES ASSUME FeatureInit PROVE FeatureInv
  OBVIOUS
<1>1. /\ clock = 0 /\ newest = [s \in SeriesRead |-> -1] /\ quotes = {}
      /\ atm_iv = [d \in {} |-> {}] /\ storing = FALSE
      /\ evaluated = <<>> /\ vectors = [t \in {} |-> NoLink] /\ rebuild = NoRebuild
  BY DEF FeatureInit
<1>2. FeatureType
  <2>1. evaluated \in Seq(Signals) /\ Len(evaluated) = 0
    BY <1>1
  <2>2. IsFiniteSet(DOMAIN vectors) /\ DOMAIN vectors = {}
    BY <1>1, FS_EmptySet
  <2>3. rebuild \in [todo : SUBSET (1..Len(evaluated)), signal : Nat, link : Nat]
    BY <1>1 DEF NoRebuild, NoLink
  <2>4. DOMAIN atm_iv = {} /\ newest \in [SeriesRead -> Int] /\ clock \in 0..LastClock
    BY <1>1, FeatureAssumption
  <2>5. quotes \in SUBSET Quotes /\ storing \in BOOLEAN
    BY <1>1
  <2>6. QED
    BY <2>1, <2>2, <2>3, <2>4, <2>5 DEF FeatureType
<1>3. Len(evaluated) = 0 /\ rebuild.link = NoLink /\ DOMAIN atm_iv = {}
  BY <1>1 DEF NoRebuild
<1>4. QED
  BY <1>2, <1>3 DEF FeatureInv, VolatilityOfQuotes, SignalsTrue, VectorTellsTheMoment, PendingStands

LEMMA NothingMoves ==
  ASSUME FeatureInv, storing' \in BOOLEAN,
         UNCHANGED <<clock, newest, quotes, atm_iv, evaluated, vectors, rebuild>>
  PROVE  FeatureInv'
<1>1. \A t : Known(t)' = Known(t)
  BY SameKnown
<1>2. FeatureType'
  BY DEF FeatureInv, FeatureType
<1>3. VolatilityOfQuotes'
  BY DEF FeatureInv, VolatilityOfQuotes, WindowQuotes
<1>4. SignalsTrue'
  BY <1>1 DEF FeatureInv, SignalsTrue
<1>5. VectorTellsTheMoment' /\ PendingStands'
  BY <1>1 DEF FeatureInv, VectorTellsTheMoment, PendingStands, Stands
<1>6. QED
  BY <1>2, <1>3, <1>4, <1>5 DEF FeatureInv

LEMMA StepFeatures == FeatureInv /\ [FeatureNext]_feature_vars => FeatureInv'
<1> SUFFICES ASSUME FeatureInv, [FeatureNext]_feature_vars PROVE FeatureInv'
  OBVIOUS
<1>1. CASE ClockTicks
  BY <1>1, ClockKeeps
<1>2. CASE Evaluate
  BY <1>2, EvaluateKeeps
<1>3. CASE DeployStoring
  <2>1. storing' = TRUE /\ UNCHANGED <<clock, newest, quotes, atm_iv, evaluated, vectors, rebuild>>
    BY <1>3 DEF DeployStoring, Tables
  <2>2. QED
    BY <2>1, NothingMoves
<1>4. ASSUME NEW s \in SeriesRead, NEW upto \in {clock - 1, clock}, RefreshBars(s, upto)
      PROVE  FeatureInv'
  BY <1>4, BarsKeep
<1>5. ASSUME NEW at \in {clock - 1, clock}, NEW streamed \in BOOLEAN,
             WriteQuote([at |-> at, streamed |-> streamed])
      PROVE  FeatureInv'
  BY <1>5, QuoteKeeps
<1>6. ASSUME NEW day \in AskedDays, RecordAtmIv(day) PROVE FeatureInv'
  BY <1>6, VolatilityKeeps
<1>7. ASSUME NEW overwrite \in BOOLEAN, SelectSignals(overwrite) PROVE FeatureInv'
  BY <1>7, SelectKeeps
<1>8. CASE Reconstruct
  BY <1>8, ReconstructKeeps
<1>9. CASE CommitLink
  BY <1>9, CommitLinkKeeps
<1>10. CASE Interrupt
  BY <1>10, InterruptKeeps
<1>11. CASE UNCHANGED feature_vars
  BY <1>11, NothingMoves DEF feature_vars, FeatureInv, FeatureType
<1>12. QED
  BY <1>1, <1>2, <1>3, <1>4, <1>5, <1>6, <1>7, <1>8, <1>9, <1>10, <1>11 DEF FeatureNext

(* A signal's vector tells what the engine saw, whatever came in since and *)
(* however often a rebuild was interrupted, repeated or told to overwrite. *)
THEOREM VectorsTellTheMoment == FeatureSpec => []VectorTellsTheMoment
<1>1. FeatureInv => VectorTellsTheMoment
  BY DEF FeatureInv
<1>2. QED
  BY <1>1, InitFeatures, StepFeatures, PTL DEF FeatureSpec
-----------------------------------------------------------------------------
(* Outcomes.  Dividing, and the minutes of a session: they follow each     *)
(* other, on the wall clock as they do in number.                          *)
LEMMA DivideFacts ==
  ASSUME NEW m \in Nat, NEW d \in Nat \ {0}
  PROVE  m % d \in 0..(d - 1) /\ m \div d \in Nat /\ m = d * (m \div d) + (m % d)
<1>1. m % d \in 0..(d - 1) /\ m \div d \in Int
  OBVIOUS
<1>2. m = d * (m \div d) + (m % d)
  OBVIOUS
<1>3. m \div d \in Nat
  <2> DEFINE q == m \div d
             r == m % d
  <2>1. q \in Int /\ r \in 0..(d - 1) /\ m = d * q + r
    BY <1>1, <1>2
  <2> HIDE DEF q, r
  <2> SUFFICES q >= 0
    BY <2>1 DEF q
  <2> SUFFICES ASSUME q <= -1 PROVE FALSE
    BY <2>1
  <2>2. d * q <= d * (-1)
    BY <2>1, TimesKeepsOrder
  <2>3. d * (-1) = -d /\ d * q \in Int
    BY <2>1
  <2>4. QED
    BY <2>1, <2>2, <2>3
<1>4. QED
  BY <1>1, <1>2, <1>3

LEMMA SessionFacts ==
  ASSUME NEW m \in Nat, NEW n \in Nat, m <= n
  PROVE  /\ SessionOf(m) \in Nat /\ SessionOf(m) <= SessionOf(n)
         /\ WallClock(m) \in Nat /\ WallClock(m) <= WallClock(n)
         /\ SessionOf(m) = SessionOf(n) => WallClock(n) = WallClock(m) + (n - m)
<1> DEFINE L == SessionLength
           q == m \div L
           r == m % L
           u == n \div L
           v == n % L
<1>1. L \in Nat \ {0} /\ DayLength \in Nat /\ L <= DayLength
  BY OutcomesAssumption
<1>2. /\ q \in Nat /\ r \in 0..(L - 1) /\ m = L * q + r
      /\ u \in Nat /\ v \in 0..(L - 1) /\ n = L * u + v
  BY <1>1, DivideFacts
<1>3. /\ SessionOf(m) = q /\ WallClock(m) = q * DayLength + r
      /\ SessionOf(n) = u /\ WallClock(n) = u * DayLength + v
  BY DEF SessionOf, WallClock
<1> HIDE DEF L, q, r, u, v
<1>4. q <= u
  <2> SUFFICES ASSUME u + 1 <= q PROVE FALSE
    BY <1>2
  <2>1. L * (u + 1) <= L * q
    BY <1>1, <1>2, TimesKeepsOrder
  <2>2. L * (u + 1) = L * u + L /\ L * u \in Nat /\ L * q \in Nat
    BY <1>1, <1>2
  <2>3. QED
    BY <1>1, <1>2, <2>1, <2>2
<1>5. q * DayLength \in Nat /\ u * DayLength \in Nat
  BY <1>1, <1>2
<1>6. CASE q = u
  <2>1. L * q \in Nat
    BY <1>1, <1>2
  <2>2. r <= v /\ v - r = n - m
    BY <1>1, <1>2, <1>6, <2>1
  <2>3. QED
    BY <1>1, <1>2, <1>3, <1>5, <1>6, <2>2
<1>7. CASE q + 1 <= u
  <2>1. (q + 1) * DayLength <= u * DayLength
    BY <1>1, <1>2, <1>7, TimesKeepsOrder
  <2>2. (q + 1) * DayLength = q * DayLength + DayLength
    BY <1>1, <1>2
  <2>3. q # u
    BY <1>2, <1>7
  <2>4. QED
    BY <1>1, <1>2, <1>3, <1>5, <1>7, <2>1, <2>2, <2>3
<1>8. QED
  BY <1>2, <1>4, <1>6, <1>7

LEMMA ClockFacts ==
  /\ \A m \in Nat : WallClock(m) \in Nat
  /\ \A m, n \in Nat : m <= n => WallClock(m) <= WallClock(n)
<1>1. ASSUME NEW m \in Nat, NEW n \in Nat, m <= n
      PROVE  WallClock(m) \in Nat /\ WallClock(m) <= WallClock(n)
  BY <1>1, SessionFacts
<1>2. \A m \in Nat : m <= m
  OBVIOUS
<1>3. QED
  BY <1>1, <1>2

(* Minutes that follow each other, in order.                               *)
LEMMA IntervalInOrder ==
  ASSUME NEW a \in Int, NEW b \in Int, a <= b + 1
  PROVE  InOrder(a..b) = [i \in 1..(b - a + 1) |-> a + i - 1]
<1>1. Cardinality(a..b) = b - a + 1
  BY FS_Interval
<1>2. ASSUME NEW m \in a..b PROVE Cardinality({n \in a..b : n < m}) = m - a
  <2>1. {n \in a..b : n < m} = a..(m - 1)
    OBVIOUS
  <2>2. m - 1 \in Int /\ a <= m
    OBVIOUS
  <2>3. Cardinality(a..(m - 1)) = IF a > m - 1 THEN 0 ELSE (m - 1) - a + 1
    BY <2>2, FS_Interval
  <2>4. Cardinality(a..(m - 1)) = m - a
    BY <2>2, <2>3
  <2>5. QED
    BY <2>1, <2>4
<1>3. ASSUME NEW i \in 1..(b - a + 1)
      PROVE  (CHOOSE m \in a..b : Cardinality({n \in a..b : n < m}) = i - 1) = a + i - 1
  <2>1. a + i - 1 \in a..b
    OBVIOUS
  <2>2. Cardinality({n \in a..b : n < a + i - 1}) = i - 1
    BY <1>2, <2>1
  <2>3. \A m \in a..b : Cardinality({n \in a..b : n < m}) = i - 1 => m = a + i - 1
    BY <1>2
  <2>4. QED
    BY <2>1, <2>2, <2>3
<1>4. QED
  BY <1>1, <1>3 DEF InOrder

(* A labelling that does not end the sequence says the same of any longer  *)
(* one.                                                                    *)
LEMMA PrefixDecides ==
  ASSUME NEW direction, NEW entry, NEW atr, NEW f, NEW g,
         Len(f) \in Nat, Len(g) \in Nat, Len(f) <= Len(g),
         \A i \in 1..Len(f) : g[i] = f[i],
         ResolveForward(direction, entry, atr, f).reason # "TIME"
  PROVE  ResolveForward(direction, entry, atr, g) = ResolveForward(direction, entry, atr, f)
<1> DEFINE Ends(s, i) == \/ HitsStop(s[i], direction, entry, atr)
                         \/ HitsTarget(s[i], direction, entry, atr)
           ended(s) == {i \in 1..Len(s) : Ends(s, i)}
           held(s)  == IF ended(s) = {} THEN Len(s) ELSE Min(ended(s))
           walked(s) == {s[i] : i \in 1..held(s)}
<1>1. ended(f) # {}
  BY DEF ResolveForward
<1>2. ended(f) \in SUBSET ended(g) /\ ended(f) \in SUBSET Nat /\ ended(g) \in SUBSET Nat
  OBVIOUS
<1>3. \A i \in ended(g) : i <= Len(f) => i \in ended(f)
  OBVIOUS
<1>4. \A i \in ended(f) : i <= Len(f)
  OBVIOUS
<1>5. Min(ended(f)) \in ended(f) /\ Min(ended(g)) \in ended(g)
        /\ (\A i \in ended(f) : Min(ended(f)) <= i) /\ (\A i \in ended(g) : Min(ended(g)) <= i)
  <2> HIDE DEF ended
  <2>1. ended(g) # {}
    BY <1>1, <1>2
  <2>2. QED
    BY <1>1, <1>2, <2>1, MinIsLeast
<1>6. Min(ended(f)) = Min(ended(g))
  <2>1. PICK x, y \in Nat : x = Min(ended(f)) /\ y = Min(ended(g))
    BY <1>2, <1>5
  <2>2. x <= Len(f) /\ y <= x
    BY <1>2, <1>4, <1>5, <2>1
  <2>3. y \in ended(f)
    BY <1>3, <1>5, <2>1, <2>2
  <2>4. x <= y
    BY <1>5, <2>1, <2>3
  <2>5. QED
    BY <2>1, <2>2, <2>4
<1>7. held(f) = held(g) /\ held(f) \in 1..Len(f)
  BY <1>1, <1>2, <1>5, <1>6
<1>8. g[held(f)] = f[held(f)]
  BY <1>7
<1>9. walked(f) = walked(g)
  <2>1. \A i \in 1..held(f) : i \in 1..Len(f)
    BY <1>7
  <2> HIDE DEF held
  <2>2. QED
    BY <1>7, <2>1
<1>10. ended(g) # {}
  BY <1>1, <1>2
<1>11. QED
  BY <1>1, <1>7, <1>8, <1>9, <1>10, Zenon DEF ResolveForward

-----------------------------------------------------------------------------
(* What a run loads, of the bars of the minutes to k, for a signal: a      *)
(* stretch of them with all that may follow it until its window is over.   *)
LoadedWell(loaded, at, k) ==
  /\ loaded \in SUBSET (0..k)
  /\ \A x, y \in loaded : x..y \subseteq loaded
  /\ \A m \in at..k : m <= at + HoldingBars /\ SessionOf(m) = SessionOf(at) => m \in loaded

Following(at, k) ==
  {m \in (at + 1)..k : m <= at + HoldingBars /\ SessionOf(m) = SessionOf(at)}

LEMMA EntryIsLoaded ==
  ASSUME NEW k \in Int, NEW at \in 0..k, NEW loaded, LoadedWell(loaded, at, k)
  PROVE  at \in loaded
  BY OutcomesAssumption DEF LoadedWell

LEMMA WholeTableWell ==
  ASSUME NEW k \in Int, NEW at \in 0..k
  PROVE  LoadedWell(0..k, at, k)
  BY DEF LoadedWell

LEMMA WindowFacts ==
  ASSUME NEW k \in Int, NEW signal, signal.at \in 0..k, NEW loaded,
         LoadedWell(loaded, signal.at, k),
         Cardinality(UpToEntry(signal, loaded)) > LookbackBars
  PROVE  /\ signal.at - LookbackBars \in 0..k
         /\ Window(signal, loaded) = InOrder((signal.at - LookbackBars)..signal.at)
<1> DEFINE at     == signal.at
           before == UpToEntry(signal, loaded)
<1>1. /\ at \in 0..k /\ LookbackBars \in Nat /\ at \in loaded /\ loaded \in SUBSET (0..k)
      /\ \A x, y \in loaded : x..y \subseteq loaded
  BY OutcomesAssumption, EntryIsLoaded DEF LoadedWell
<1>2. before = {m \in loaded : m <= at}
  BY DEF UpToEntry
<1> HIDE DEF at, before
<1>3. PICK m \in before : \A n \in before : m <= n
  <2>1. \A n \in before : n \in Nat
    BY <1>1, <1>2
  <2>2. at \in before
    BY <1>1, <1>2
  <2>3. QED
    BY <2>1, <2>2, MinIsLeast
<1>4. m \in Nat /\ m <= at /\ m \in loaded
  BY <1>1, <1>2, <1>3
<1>5. before = m..at
  <2>1. m..at \subseteq loaded
    BY <1>1, <1>4
  <2>2. \A n \in before : n \in m..at
    BY <1>1, <1>2, <1>3, <1>4
  <2>3. \A n \in m..at : n <= at
    BY <1>1, <1>4
  <2>4. QED
    BY <1>2, <2>1, <2>2, <2>3
<1>6. Cardinality(before) = at - m + 1
  <2>1. PICK b \in Int : b = at
    BY <1>1
  <2>2. Cardinality(m..b) = IF m > b THEN 0 ELSE b - m + 1
    BY <1>4, FS_Interval
  <2>3. QED
    BY <1>4, <1>5, <2>1, <2>2
<1>7. m <= at - LookbackBars
  BY <1>1, <1>4, <1>6 DEF before
<1>8. ASSUME NEW n \in before
      PROVE  Cardinality({o \in before : o > n}) = at - n
  <2>1. PICK b \in Int : b = at
    BY <1>1
  <2>2. n \in Int /\ m <= n /\ n <= b
    BY <1>4, <1>5, <2>1
  <2>3. {o \in before : o > n} = (n + 1)..b
    BY <1>4, <1>5, <2>1, <2>2
  <2>4. Cardinality((n + 1)..b) = IF n + 1 > b THEN 0 ELSE b - (n + 1) + 1
    BY <2>2, FS_Interval
  <2>5. Cardinality((n + 1)..b) = b - n
    BY <2>2, <2>4
  <2>6. QED
    BY <2>1, <2>3, <2>5
<1>9. {n \in before : Cardinality({o \in before : o > n}) <= LookbackBars}
        = (at - LookbackBars)..at
  <2>1. \A n \in before : Cardinality({o \in before : o > n}) = at - n
    BY <1>8
  <2>2. {n \in before : Cardinality({o \in before : o > n}) <= LookbackBars}
          = {n \in before : at - n <= LookbackBars}
    BY <2>1
  <2>3. {n \in before : at - n <= LookbackBars} = (at - LookbackBars)..at
    BY <1>1, <1>4, <1>5, <1>7
  <2>4. QED
    BY <2>2, <2>3
<1>10. Window(signal, loaded)
         = InOrder({n \in before : Cardinality({o \in before : o > n}) <= LookbackBars})
  BY DEF Window, before
<1>11. at - LookbackBars \in 0..k
  BY <1>1, <1>4, <1>7
<1>12. QED
  BY <1>9, <1>10, <1>11 DEF at

LEMMA FollowingFacts ==
  ASSUME NEW k \in Int, NEW at \in 0..k
  PROVE  \E e \in at..k : e <= at + HoldingBars /\ Following(at, k) = (at + 1)..e
<1>1. at \in Nat /\ k \in Nat /\ HoldingBars \in Nat
  BY OutcomesAssumption
<1>2. CASE Following(at, k) = {}
  <2>1. (at + 1)..at = {}
    BY <1>1
  <2>2. QED
    BY <1>1, <1>2, <2>1
<1>3. CASE Following(at, k) # {}
  <2>1. Following(at, k) \in SUBSET (0..k)
    BY <1>1 DEF Following
  <2>2. PICK e \in Following(at, k) : \A m \in Following(at, k) : m <= e
    BY <1>1, <1>3, <2>1, MaxIsGreatest
  <2>3. /\ e \in Nat /\ at + 1 <= e /\ e <= k /\ e <= at + HoldingBars
        /\ SessionOf(e) = SessionOf(at)
    BY <1>1, <2>2 DEF Following
  <2>4. ASSUME NEW m \in (at + 1)..e PROVE m \in Following(at, k)
    <3>1. m \in Nat /\ at <= m /\ m <= e
      BY <1>1, <2>3
    <3>2. /\ SessionOf(at) <= SessionOf(m) /\ SessionOf(m) <= SessionOf(e)
          /\ SessionOf(at) \in Nat /\ SessionOf(m) \in Nat
      BY <1>1, <2>3, <3>1, SessionFacts
    <3>3. SessionOf(m) = SessionOf(at)
      BY <2>3, <3>2
    <3>4. QED
      BY <1>1, <2>3, <3>1, <3>3 DEF Following
  <2>5. \A m \in Following(at, k) : m \in (at + 1)..e
    BY <1>1, <2>2, <2>3 DEF Following
  <2>6. Following(at, k) = (at + 1)..e
    BY <2>4, <2>5
  <2>7. e \in at..k
    BY <1>1, <2>3
  <2>8. QED
    BY <2>3, <2>6, <2>7
<1>4. QED
  BY <1>2, <1>3

LEMMA ForwardFacts ==
  ASSUME NEW k \in Int, NEW signal, signal.at \in 0..k, NEW loaded,
         LoadedWell(loaded, signal.at, k)
  PROVE  ForwardMinutes(signal, loaded) = InOrder(Following(signal.at, k))
<1> DEFINE later == {m \in loaded : m > signal.at /\ SessionOf(m) = SessionOf(signal.at)}
<1>1. PICK at \in Nat : at = signal.at /\ at \in 0..k
  OBVIOUS
<1>2. /\ HoldingBars \in Nat /\ at \in loaded /\ loaded \in SUBSET (0..k)
      /\ \A x, y \in loaded : x..y \subseteq loaded
      /\ \A m \in at..k : m <= at + HoldingBars /\ SessionOf(m) = SessionOf(at) => m \in loaded
  BY <1>1, OutcomesAssumption, EntryIsLoaded DEF LoadedWell
<1>3. ASSUME NEW m \in later
      PROVE  Cardinality({n \in later : n < m}) = m - at - 1
  <2>1. m \in Nat /\ at < m /\ m \in loaded /\ SessionOf(m) = SessionOf(at)
    BY <1>1, <1>2
  <2>2. ASSUME NEW n \in (at + 1)..(m - 1) PROVE n \in later
    <3>1. n \in Nat /\ at < n /\ n < m /\ n \in at..m
      BY <1>1, <2>1
    <3>2. n \in loaded
      BY <1>2, <2>1, <3>1
    <3>3. /\ SessionOf(at) <= SessionOf(n) /\ SessionOf(n) <= SessionOf(m)
          /\ SessionOf(at) \in Nat /\ SessionOf(n) \in Nat
      BY <1>1, <2>1, <3>1, SessionFacts
    <3>4. SessionOf(n) = SessionOf(at)
      BY <2>1, <3>3
    <3>5. QED
      BY <1>1, <3>1, <3>2, <3>4
  <2>3. \A n \in later : n < m => n \in (at + 1)..(m - 1)
    BY <1>1, <1>2, <2>1
  <2>4. \A n \in (at + 1)..(m - 1) : n < m
    BY <1>1, <2>1
  <2>5. {n \in later : n < m} = (at + 1)..(m - 1)
    BY <2>2, <2>3, <2>4
  <2>6. at + 1 \in Int /\ m - 1 \in Int /\ at + 1 <= m
    BY <1>1, <2>1
  <2>7. Cardinality((at + 1)..(m - 1)) =
          IF at + 1 > m - 1 THEN 0 ELSE (m - 1) - (at + 1) + 1
    BY <2>6, FS_Interval
  <2>8. Cardinality((at + 1)..(m - 1)) = m - at - 1
    BY <1>1, <2>1, <2>7
  <2>9. QED
    BY <2>5, <2>8
<1>4. {m \in later : Cardinality({n \in later : n < m}) < HoldingBars} = Following(at, k)
  <2>1. ASSUME NEW m \in later, Cardinality({n \in later : n < m}) < HoldingBars
        PROVE  m \in Following(at, k)
    <3>1. m \in 0..k /\ at < m /\ SessionOf(m) = SessionOf(at) /\ m - at - 1 < HoldingBars
      BY <1>1, <1>2, <1>3, <2>1
    <3>2. QED
      BY <1>1, <1>2, <3>1 DEF Following
  <2>2. ASSUME NEW m \in Following(at, k)
        PROVE  m \in later /\ Cardinality({n \in later : n < m}) < HoldingBars
    <3>1. m \in at..k /\ at < m /\ m <= at + HoldingBars /\ SessionOf(m) = SessionOf(at)
      BY <1>1, <2>2 DEF Following
    <3>2. m \in later
      BY <1>1, <1>2, <3>1
    <3>3. Cardinality({n \in later : n < m}) = m - at - 1
      BY <1>3, <3>2
    <3>4. QED
      BY <1>1, <1>2, <3>1, <3>2, <3>3
  <2> HIDE DEF later
  <2>3. QED
    BY <2>1, <2>2
<1>5. QED
  BY <1>1, <1>4 DEF ForwardMinutes

-----------------------------------------------------------------------------
(* ResolveOne, of any table of bars.                                       *)
Of(table, minutes) == [i \in 1..Len(minutes) |-> table[minutes[i]]]

Measure(signal, loaded, table) == Atr(Of(table, Window(signal, loaded)))

ScoreBy(signal, loaded, table) ==
  ResolveForward(signal.direction, table[Last(Window(signal, loaded))].close,
                 Measure(signal, loaded, table), Of(table, ForwardMinutes(signal, loaded)))

Undecided(signal, loaded, table) ==
  \/ Cardinality(UpToEntry(signal, loaded)) <= LookbackBars
  \/ Measure(signal, loaded, table).num <= 0
  \/ ForwardMinutes(signal, loaded) = <<>>
  \/ /\ ScoreBy(signal, loaded, table).reason = "TIME"
     /\ Len(ForwardMinutes(signal, loaded)) < HoldingBars

LabelBy(signal, loaded, table) ==
  IF Undecided(signal, loaded, table) THEN NoOutcome ELSE ScoreBy(signal, loaded, table)

LEMMA ResolveOneIs ==
  \A signal, loaded : ResolveOne(signal, loaded) = LabelBy(signal, loaded, bars)
<1> TAKE signal, loaded
<1>1. Scored(signal, loaded) = ScoreBy(signal, loaded, bars)
  BY DEF Scored, ScoreBy, Measure, BarsOf, Of
<1>2. Unknown(signal, loaded) <=>
        \/ Cardinality(UpToEntry(signal, loaded)) <= LookbackBars
        \/ Measure(signal, loaded, bars).num <= 0
        \/ ForwardMinutes(signal, loaded) = <<>>
  BY DEF Unknown, Measure, BarsOf, Of
<1>3. QED
  BY <1>1, <1>2 DEF ResolveOne, LabelBy, Undecided

(* A signal whose minute has no bar yet has no label.                      *)
LEMMA LabelNeedsBars ==
  ASSUME NEW k \in Int, NEW signal, NEW loaded \in SUBSET (0..k), NEW table,
         signal.at \in Nat, LabelBy(signal, loaded, table) # NoOutcome
  PROVE  signal.at \in 0..k
<1> SUFFICES ASSUME signal.at > k PROVE FALSE
  OBVIOUS
<1> DEFINE later == {m \in loaded : m > signal.at /\ SessionOf(m) = SessionOf(signal.at)}
<1>1. later = {}
  <2>1. PICK at \in Nat : at = signal.at
    OBVIOUS
  <2>2. \A m \in loaded : m \in Int /\ ~(m > at)
    BY <2>1
  <2>3. QED
    BY <2>1, <2>2
<1>2. {m \in later : Cardinality({n \in later : n < m}) < HoldingBars} = {}
  BY <1>1
<1>3. ForwardMinutes(signal, loaded) = InOrder({})
  BY <1>2 DEF ForwardMinutes
<1>4. InOrder({}) = <<>>
  BY FS_EmptySet DEF InOrder
<1>5. QED
  BY <1>3, <1>4 DEF LabelBy, Undecided

(* A label drawn from a part of a table is the one that any longer table   *)
(* gives which has the same bars at the minutes they share.                *)
LEMMA LabelStands ==
  ASSUME NEW k \in Int, NEW last \in Int, k <= last, NEW signal, signal.at \in Nat,
         NEW loaded, LoadedWell(loaded, signal.at, k), NEW table, NEW longer,
         \A m \in 0..k : longer[m] = table[m],
         LabelBy(signal, loaded, table) # NoOutcome
  PROVE  LabelBy(signal, 0..last, longer) = LabelBy(signal, loaded, table)
<1>1. PICK at \in Nat : at = signal.at
  OBVIOUS
<1>2. at \in 0..k /\ at \in 0..last /\ LookbackBars \in Nat /\ HoldingBars \in Nat \ {0}
  BY <1>1, LabelNeedsBars, OutcomesAssumption DEF LoadedWell
<1>3. /\ ~Undecided(signal, loaded, table)
      /\ Cardinality(UpToEntry(signal, loaded)) > LookbackBars
  <2>1. ~Undecided(signal, loaded, table)
    BY DEF LabelBy
  <2>2. UpToEntry(signal, loaded) \in SUBSET (0..k)
    BY DEF UpToEntry, LoadedWell
  <2>3. Cardinality(UpToEntry(signal, loaded)) \in Nat
    <3>1. IsFiniteSet(0..k)
      BY 0 \in Int, FS_Interval
    <3>2. IsFiniteSet(UpToEntry(signal, loaded))
      BY <2>2, <3>1, FS_Subset
    <3>3. QED
      BY <3>2, FS_CardinalityType
  <2>4. QED
    BY <1>2, <2>1, <2>3 DEF Undecided
<1> DEFINE from == at - LookbackBars
<1>4. from \in 0..k /\ Window(signal, loaded) = InOrder(from..at)
  BY <1>1, <1>2, <1>3, WindowFacts
<1>5. LoadedWell(0..last, at, last)
  BY <1>2, WholeTableWell
<1>6. /\ Cardinality(UpToEntry(signal, 0..last)) > LookbackBars
      /\ ~(Cardinality(UpToEntry(signal, 0..last)) <= LookbackBars)
  <2>1. UpToEntry(signal, 0..last) = 0..at
    BY <1>1, <1>2 DEF UpToEntry
  <2>2. Cardinality(0..at) = at + 1
    BY <1>1, FS_Interval
  <2>3. QED
    BY <1>2, <1>4, <2>1, <2>2
<1>7. Window(signal, 0..last) = InOrder(from..at)
  BY <1>1, <1>2, <1>5, <1>6, WindowFacts
<1>8. InOrder(from..at) = [i \in 1..(at - from + 1) |-> from + i - 1]
  <2>1. from \in Int /\ at \in Int /\ from <= at + 1
    BY <1>2, <1>4
  <2> HIDE DEF from
  <2>2. QED
    BY <2>1, IntervalInOrder
<1> DEFINE window == InOrder(from..at)
<1>9. /\ Len(window) = LookbackBars + 1 /\ window[Len(window)] = at
      /\ \A i \in 1..Len(window) : window[i] \in 0..k
  BY <1>2, <1>4, <1>8
<1>10. /\ Of(longer, window) = Of(table, window)
       /\ longer[Last(window)] = table[Last(window)]
  <2> HIDE DEF window
  <2>1. QED
    BY <1>2, <1>9 DEF Of, Last
<1>11. /\ Measure(signal, 0..last, longer) = Measure(signal, loaded, table)
       /\ longer[Last(Window(signal, 0..last))] = table[Last(Window(signal, loaded))]
  BY <1>4, <1>7, <1>10 DEF Measure
<1>12. PICK e \in at..k : e <= at + HoldingBars /\ Following(at, k) = (at + 1)..e
  BY <1>2, FollowingFacts
<1>13. PICK z \in at..last : z <= at + HoldingBars /\ Following(at, last) = (at + 1)..z
  BY <1>2, FollowingFacts
<1>14. e <= z /\ e \in Nat /\ z \in Nat
  <2>1. Following(at, k) \in SUBSET Following(at, last)
    BY <1>2 DEF Following
  <2>2. e \in Nat /\ z \in Nat
    BY <1>12, <1>13
  <2>3. CASE e = at
    BY <1>13, <2>2, <2>3
  <2>4. CASE e # at
    <3>1. e \in (at + 1)..e
      BY <1>12, <2>2, <2>4
    <3>2. QED
      BY <1>12, <1>13, <2>1, <2>2, <3>1
  <2>5. QED
    BY <2>2, <2>3, <2>4
<1> DEFINE seen == ForwardMinutes(signal, loaded)
           all  == ForwardMinutes(signal, 0..last)
<1>15. /\ seen = [i \in 1..(e - at) |-> at + i] /\ Len(seen) = e - at
       /\ all = [i \in 1..(z - at) |-> at + i] /\ Len(all) = z - at
  <2>1. seen = InOrder((at + 1)..e) /\ all = InOrder((at + 1)..z)
    BY <1>1, <1>2, <1>5, <1>12, <1>13, ForwardFacts
  <2>2. at + 1 \in Int /\ e \in Int /\ z \in Int /\ at + 1 <= e + 1 /\ at + 1 <= z + 1
    BY <1>12, <1>13
  <2>3. /\ InOrder((at + 1)..e) = [i \in 1..(e - (at + 1) + 1) |-> at + 1 + i - 1]
        /\ InOrder((at + 1)..z) = [i \in 1..(z - (at + 1) + 1) |-> at + 1 + i - 1]
    BY <2>2, IntervalInOrder
  <2>4. /\ e - (at + 1) + 1 = e - at /\ z - (at + 1) + 1 = z - at
        /\ \A i \in Int : at + 1 + i - 1 = at + i
        /\ e - at \in Nat /\ z - at \in Nat
    BY <1>12, <1>13
  <2>5. seen = [i \in 1..(e - at) |-> at + i] /\ all = [i \in 1..(z - at) |-> at + i]
    BY <2>1, <2>3, <2>4
  <2>6. QED
    BY <2>4, <2>5
<1> DEFINE f == Of(table, seen)
           g == Of(longer, all)
<1>16. /\ f = [i \in 1..(e - at) |-> table[at + i]] /\ Len(f) = e - at
       /\ g = [i \in 1..(z - at) |-> longer[at + i]] /\ Len(g) = z - at
  <2>1. f = [i \in 1..(e - at) |-> table[at + i]] /\ g = [i \in 1..(z - at) |-> longer[at + i]]
    BY <1>15 DEF Of
  <2>2. QED
    BY <1>14, <1>12, <1>13, <2>1
<1>17. /\ Len(f) \in Nat /\ Len(g) \in Nat /\ Len(f) <= Len(g)
       /\ \A i \in 1..Len(f) : g[i] = f[i]
  <2> HIDE DEF f, g
  <2>1. e - at \in Nat /\ z - at \in Nat /\ e - at <= z - at
    BY <1>12, <1>13, <1>14
  <2>2. \A i \in 1..(e - at) : i \in 1..(z - at) /\ longer[at + i] = table[at + i]
    BY <1>2, <1>12, <1>13, <1>14
  <2>3. QED
    BY <1>16, <2>1, <2>2
<1>18. seen # <<>> /\ all # <<>>
  <2>1. seen # <<>>
    BY <1>3 DEF Undecided
  <2>2. e # at
    <3> SUFFICES ASSUME e = at PROVE FALSE
      OBVIOUS
    <3>1. seen = <<>>
      BY <1>15
    <3>2. QED
      BY <2>1, <3>1
  <2>3. Len(all) > 0
    BY <1>12, <1>14, <1>15, <2>2
  <2>4. QED
    BY <2>1, <2>3
<1> DEFINE scored == ScoreBy(signal, loaded, table)
           score  == ScoreBy(signal, 0..last, longer)
           entry  == table[Last(Window(signal, loaded))].close
           atr    == Measure(signal, loaded, table)
<1>19. /\ scored = ResolveForward(signal.direction, entry, atr, f)
       /\ score = ResolveForward(signal.direction, entry, atr, g)
  BY <1>11 DEF ScoreBy
<1>20. CASE scored.reason = "TIME"
  <2>1. ~(Len(seen) < HoldingBars)
    BY <1>3, <1>20 DEF Undecided
  <2>2. e = at + HoldingBars /\ z = e
    BY <1>2, <1>12, <1>13, <1>14, <1>15, <2>1
  <2>3. f = g
    <3>1. \A i \in 1..(e - at) : longer[at + i] = table[at + i]
      BY <1>2, <1>12
    <3>2. QED
      BY <1>16, <2>2, <3>1
  <2>4. Len(all) = Len(seen)
    BY <1>15, <2>2
  <2>5. ~Undecided(signal, 0..last, longer)
    <3>1. ~(Len(all) < HoldingBars)
      BY <2>1, <2>4
    <3>2. ~(Measure(signal, 0..last, longer).num <= 0)
      BY <1>3, <1>11 DEF Undecided
    <3>3. QED
      BY <1>6, <1>18, <3>1, <3>2 DEF Undecided
  <2>6. QED
    BY <1>3, <1>19, <2>3, <2>5 DEF LabelBy
<1>21. CASE scored.reason # "TIME"
  <2>1. score = scored
    <3> HIDE DEF f, g, entry, atr
    <3>1. QED
      BY <1>17, <1>19, <1>21, PrefixDecides
  <2>2. ~Undecided(signal, 0..last, longer)
    <3>1. ~(Measure(signal, 0..last, longer).num <= 0)
      BY <1>3, <1>11 DEF Undecided
    <3>2. QED
      BY <1>6, <1>18, <1>21, <2>1, <3>1 DEF Undecided
  <2>3. QED
    BY <1>3, <2>1, <2>2 DEF LabelBy
<1>22. QED
  BY <1>20, <1>21

-----------------------------------------------------------------------------
(* The bars stored are those of the first minutes, without a hole: a       *)
(* refresh starts at the session of the newest, and the vendor leaves out  *)
(* none.  What is stored of a minute stays.                                *)
BarsFollow ==
  /\ minute \in 0..LastMinute /\ DOMAIN market = 0..(minute - 1)
  /\ \E k \in (-1)..minute : DOMAIN bars = 0..k

LabelsTyped ==
  /\ Len(labelled) \in Nat /\ labelled = [k \in 1..Len(labelled) |-> labelled[k]]
  /\ \A k \in 1..Len(labelled) :
       /\ labelled[k].at \in 0..minute
       /\ labelled[k] = [at |-> labelled[k].at, direction |-> labelled[k].direction,
                         outcome |-> labelled[k].outcome]

OutcomesInv == BarsFollow /\ LabelsTyped /\ LabelIsFinal

LabelsFinal ==
  \A k \in 1..Len(labelled) :
    labelled[k].outcome # NoOutcome =>
      labelled[k].outcome = LabelBy(labelled[k], DOMAIN bars, bars)

LEMMA FinalBy == LabelIsFinal <=> LabelsFinal
  BY ResolveOneIs DEF LabelIsFinal, LabelsFinal

LEMMA InitOutcomes == OutcomesInit => OutcomesInv
<1> SUFFICES ASSUME OutcomesInit PROVE OutcomesInv
  OBVIOUS
<1>1. minute = 0 /\ DOMAIN market = {} /\ DOMAIN bars = {} /\ labelled = <<>>
  BY DEF OutcomesInit
<1>2. BarsFollow
  <2>1. 0..(-1) = {} /\ -1 \in (-1)..0
    OBVIOUS
  <2>2. QED
    BY <1>1, <2>1, OutcomesAssumption DEF BarsFollow
<1>3. LabelsTyped
  BY <1>1 DEF LabelsTyped
<1>4. LabelIsFinal
  BY <1>1 DEF LabelIsFinal
<1>5. QED
  BY <1>2, <1>3, <1>4 DEF OutcomesInv

(* More minutes and more bars leave the labels that are there.             *)
LEMMA MoreBarsKeep ==
  ASSUME OutcomesInv, UNCHANGED labelled,
         minute' \in 0..LastMinute, minute <= minute', DOMAIN market' = 0..(minute' - 1),
         NEW k \in (-1)..minute, DOMAIN bars = 0..k,
         NEW l \in (-1)..minute', DOMAIN bars' = 0..l, k <= l,
         \A m \in 0..k : bars'[m] = bars[m]
  PROVE  OutcomesInv'
<1>1. BarsFollow'
  BY DEF BarsFollow
<1>2. LabelsTyped'
  <2>1. \A m \in 0..minute : m \in 0..minute'
    BY DEF OutcomesInv, BarsFollow
  <2>2. QED
    BY <2>1 DEF OutcomesInv, LabelsTyped
<1>3. LabelIsFinal'
  <2>1. PICK n, t, before, after : n = Len(labelled) /\ t = labelled /\ before = bars /\ after = bars'
    OBVIOUS
  <2>0. LabelIsFinal' <=> LabelsFinal'
    BY FinalBy, PTL
  <2> SUFFICES ASSUME NEW j \in 1..n, t[j].outcome # NoOutcome
               PROVE  t[j].outcome = LabelBy(t[j], 0..l, after)
    BY <2>0, <2>1 DEF LabelsFinal
  <2>2. t[j].outcome = LabelBy(t[j], 0..k, before)
    BY <2>1, FinalBy DEF OutcomesInv, LabelsFinal
  <2>3. t[j].at \in Nat
    BY <2>1 DEF OutcomesInv, LabelsTyped, BarsFollow
  <2>4. k \in Int /\ l \in Int
    BY DEF OutcomesInv, BarsFollow
  <2>5. t[j].at \in 0..k
    BY <2>2, <2>3, <2>4, LabelNeedsBars
  <2>6. LoadedWell(0..k, t[j].at, k)
    BY <2>4, <2>5, WholeTableWell
  <2>7. \A m \in 0..k : after[m] = before[m]
    BY <2>1
  <2>8. LabelBy(t[j], 0..k, before) # NoOutcome
    BY <2>2
  <2>9. LabelBy(t[j], 0..l, after) = LabelBy(t[j], 0..k, before)
    BY <2>3, <2>4, <2>6, <2>7, <2>8, LabelStands
  <2>10. QED
    BY <2>2, <2>9
<1>4. QED
  BY <1>1, <1>2, <1>3 DEF OutcomesInv

LEMMA MinuteKeeps ==
  ASSUME OutcomesInv, NEW shape, MinuteCloses(shape)
  PROVE  OutcomesInv'
<1>1. PICK k \in (-1)..minute : DOMAIN bars = 0..k
  BY DEF OutcomesInv, BarsFollow
<1>2. minute \in 0..LastMinute /\ LastMinute \in Nat /\ minute < LastMinute
  BY OutcomesAssumption DEF OutcomesInv, BarsFollow, MinuteCloses
<1>3. /\ minute' = minute + 1 /\ DOMAIN market' = 0..minute /\ bars' = bars
      /\ UNCHANGED labelled
  BY DEF MinuteCloses
<1>4. minute' \in 0..LastMinute /\ minute <= minute' /\ k \in (-1)..minute' /\ k <= k
  BY <1>1, <1>2, <1>3
<1>5. DOMAIN market' = 0..(minute' - 1)
  BY <1>2, <1>3
<1>6. DOMAIN bars' = 0..k /\ \A m \in 0..k : bars'[m] = bars[m]
  BY <1>1, <1>3
<1>7. QED
  BY <1>1, <1>3, <1>4, <1>5, <1>6, MoreBarsKeep

(* What a refresh adds follows what is there, up to the running minute or  *)
(* to the last that closed.                                                *)
LEMMA RefreshAdds ==
  ASSUME OutcomesInv, NEW k \in (-1)..minute, DOMAIN bars = 0..k,
         NEW new, NEW l \in {minute - 1, minute},
         DOMAIN new = RefreshSince..l, bars' = InsertBars(new, bars)
  PROVE  \E last \in (-1)..minute :
           /\ k <= last /\ DOMAIN bars' = 0..last /\ \A m \in 0..k : bars'[m] = bars[m]
<1>1. minute \in Nat /\ k \in Int /\ l \in Int /\ l <= minute /\ -1 <= l
  BY DEF OutcomesInv, BarsFollow
<1>2. RefreshSince \in Nat /\ RefreshSince <= k + 1
  <2>1. CASE k = -1
    <3>1. DOMAIN bars = {}
      BY <2>1
    <3>2. QED
      BY <2>1, <3>1 DEF RefreshSince
  <2>2. CASE k # -1
    <3>1. k \in 0..k /\ k \in Nat
      BY <1>1, <2>2
    <3>2. Max(DOMAIN bars) = k
      <4>1. \A m \in 0..k : m <= k
        BY <1>1
      <4>2. /\ Max(DOMAIN bars) \in DOMAIN bars
            /\ \A m \in DOMAIN bars : m <= Max(DOMAIN bars)
        BY <3>1, MaxIsGreatest
      <4>3. PICK x \in 0..k : x = Max(DOMAIN bars)
        BY <4>2
      <4>4. k <= x
        BY <3>1, <4>2, <4>3
      <4>5. QED
        BY <1>1, <4>1, <4>3, <4>4
    <3>3. RefreshSince = (k \div SessionLength) * SessionLength
      BY <3>1, <3>2 DEF RefreshSince, SessionOf
    <3>4. /\ k \div SessionLength \in Nat /\ k % SessionLength \in Nat /\ SessionLength \in Nat
          /\ k = SessionLength * (k \div SessionLength) + (k % SessionLength)
      <4>1. SessionLength \in Nat \ {0}
        BY OutcomesAssumption
      <4>2. /\ k % SessionLength \in 0..(SessionLength - 1) /\ k \div SessionLength \in Nat
            /\ k = SessionLength * (k \div SessionLength) + (k % SessionLength)
        BY <3>1, <4>1, DivideFacts
      <4>3. QED
        BY <4>1, <4>2
    <3>5. /\ (k \div SessionLength) * SessionLength = SessionLength * (k \div SessionLength)
          /\ (k \div SessionLength) * SessionLength \in Nat
      BY <3>4
    <3>6. QED
      BY <1>1, <3>3, <3>4, <3>5
  <2>3. QED
    BY <2>1, <2>2
<1> DEFINE last == IF l <= k THEN k ELSE l
<1>3. last \in (-1)..minute /\ k <= last
  BY <1>1
<1>4. DOMAIN bars' = 0..last
  <2>1. DOMAIN bars' = (RefreshSince..l) \cup (0..k)
    BY DEF InsertBars
  <2>2. (RefreshSince..l) \cup (0..k) = 0..last
    BY <1>1, <1>2
  <2>3. QED
    BY <2>1, <2>2
<1>5. \A m \in 0..k : bars'[m] = bars[m]
  BY DEF InsertBars
<1>6. QED
  BY <1>3, <1>4, <1>5

LEMMA RefreshKeeps ==
  ASSUME OutcomesInv, RefreshClosed \/ \E shape \in Shapes : Refresh(shape)
  PROVE  OutcomesInv'
<1>1. PICK k \in (-1)..minute : DOMAIN bars = 0..k
  BY DEF OutcomesInv, BarsFollow
<1>2. minute \in 0..LastMinute /\ LastMinute \in Nat /\ DOMAIN market = 0..(minute - 1)
  BY OutcomesAssumption DEF OutcomesInv, BarsFollow
<1>3. UNCHANGED <<minute, market, labelled>>
  BY DEF Refresh, RefreshClosed
<1>4. RefreshSince <= minute /\ RefreshSince \in Nat
  <2>1. CASE DOMAIN bars = {}
    BY <1>2, <2>1 DEF RefreshSince
  <2>2. CASE DOMAIN bars # {}
    <3>1. k \in Nat /\ k <= minute
      BY <1>1, <1>2, <2>2
    <3>2. Max(DOMAIN bars) \in 0..k
      BY <1>1, <2>2, <3>1, MaxIsGreatest
    <3>3. PICK m \in Nat : m = Max(DOMAIN bars) /\ m <= minute
      BY <1>2, <3>1, <3>2
    <3>4. /\ m \div SessionLength \in Nat /\ m % SessionLength \in Nat /\ SessionLength \in Nat
          /\ m = SessionLength * (m \div SessionLength) + (m % SessionLength)
      BY DivideFacts, OutcomesAssumption
    <3>5. /\ (m \div SessionLength) * SessionLength = SessionLength * (m \div SessionLength)
          /\ (m \div SessionLength) * SessionLength \in Nat
      BY <3>4
    <3>6. RefreshSince = (m \div SessionLength) * SessionLength
      BY <2>2, <3>3 DEF RefreshSince, SessionOf
    <3>7. QED
      BY <1>2, <3>3, <3>4, <3>5, <3>6
  <2>3. QED
    BY <2>1, <2>2
<1> DEFINE closed == [m \in {n \in DOMAIN market : n >= RefreshSince} |-> market[m]]
<1>5. DOMAIN closed = RefreshSince..(minute - 1)
  BY <1>2, <1>4
<1>6. ASSUME RefreshClosed
      PROVE  \E last \in (-1)..minute :
               /\ k <= last /\ DOMAIN bars' = 0..last /\ \A m \in 0..k : bars'[m] = bars[m]
  <2>1. bars' = InsertBars(closed, bars)
    BY <1>6 DEF RefreshClosed
  <2> HIDE DEF closed
  <2>2. QED
    BY <1>1, <1>5, <2>1, RefreshAdds
<1>7. ASSUME NEW shape \in Shapes, Refresh(shape)
      PROVE  \E last \in (-1)..minute :
               /\ k <= last /\ DOMAIN bars' = 0..last /\ \A m \in 0..k : bars'[m] = bars[m]
  <2> DEFINE new == UpdateBars([m \in {minute} |-> shape], closed)
  <2>1. bars' = InsertBars(new, bars)
    BY <1>7 DEF Refresh
  <2>2. DOMAIN new = {minute} \cup (RefreshSince..(minute - 1))
    BY <1>5 DEF UpdateBars
  <2>3. {minute} \cup (RefreshSince..(minute - 1)) = RefreshSince..minute
    BY <1>2, <1>4
  <2>4. DOMAIN new = RefreshSince..minute
    BY <2>2, <2>3
  <2> HIDE DEF new
  <2>5. QED
    BY <1>1, <2>1, <2>4, RefreshAdds
<1>8. PICK last \in (-1)..minute :
        /\ k <= last /\ DOMAIN bars' = 0..last /\ \A m \in 0..k : bars'[m] = bars[m]
  BY <1>6, <1>7
<1>9. /\ minute' \in 0..LastMinute /\ minute <= minute' /\ DOMAIN market' = 0..(minute' - 1)
      /\ last \in (-1)..minute' /\ UNCHANGED labelled
  BY <1>2, <1>3, <1>8
<1>10. QED
  BY <1>1, <1>8, <1>9, MoreBarsKeep

LEMMA SignalKeeps ==
  ASSUME OutcomesInv, NEW direction, Signal(direction)
  PROVE  OutcomesInv'
<1> DEFINE n   == Len(labelled)
           new == [at |-> minute, direction |-> direction, outcome |-> NoOutcome]
<1>1. /\ n \in Nat /\ labelled = [k \in 1..n |-> labelled[k]]
      /\ labelled' = Append(labelled, new) /\ UNCHANGED <<minute, market, bars>>
  BY DEF OutcomesInv, LabelsTyped, Signal
<1>2. /\ Len(labelled') = n + 1 /\ labelled' = [k \in 1..(n + 1) |-> labelled'[k]]
      /\ labelled'[n + 1] = new /\ \A k \in 1..n : labelled'[k] = labelled[k]
  <2> DEFINE T == {labelled[k] : k \in 1..n} \cup {new}
  <2>1. labelled \in [1..n -> T]
    BY <1>1
  <2>2. labelled \in Seq(T)
    BY <1>1, <2>1, SeqDef
  <2> HIDE DEF T, new
  <2>3. new \in T
    BY DEF T
  <2>4. Append(labelled, new) \in Seq(T)
    BY <2>2, <2>3
  <2>5. /\ Len(Append(labelled, new)) = n + 1 /\ Append(labelled, new)[n + 1] = new
        /\ \A k \in 1..n : Append(labelled, new)[k] = labelled[k]
    BY <2>2, <2>3
  <2>6. Append(labelled, new) = [k \in 1..(n + 1) |-> Append(labelled, new)[k]]
    BY <2>4, <2>5, LenProperties
  <2>7. QED
    BY <1>1, <2>5, <2>6
<1>3. BarsFollow'
  BY <1>1 DEF OutcomesInv, BarsFollow
<1>4. LabelsTyped'
  <2>1. minute \in 0..minute
    BY DEF OutcomesInv, BarsFollow
  <2>2. ASSUME NEW k \in 1..(n + 1)
        PROVE  /\ labelled'[k].at \in 0..minute
               /\ labelled'[k] = [at |-> labelled'[k].at, direction |-> labelled'[k].direction,
                                  outcome |-> labelled'[k].outcome]
    <3>1. CASE k = n + 1
      BY <1>2, <2>1, <3>1
    <3>2. CASE k \in 1..n
      BY <1>2, <3>2 DEF OutcomesInv, LabelsTyped
    <3>3. QED
      BY <1>1, <3>1, <3>2
  <2>3. QED
    BY <1>1, <1>2, <2>2 DEF LabelsTyped
<1>5. LabelIsFinal'
  <2>1. LabelsFinal' <=> LabelIsFinal'
    BY FinalBy, PTL
  <2>2. LabelsFinal
    BY FinalBy DEF OutcomesInv
  <2>3. ASSUME NEW k \in 1..(n + 1), labelled'[k].outcome # NoOutcome
        PROVE  labelled'[k].outcome = LabelBy(labelled'[k], DOMAIN bars, bars)
    <3>1. k \in 1..n
      BY <1>1, <1>2, <2>3
    <3>2. QED
      BY <1>2, <2>2, <2>3, <3>1 DEF LabelsFinal
  <2>4. LabelsFinal'
    BY <1>1, <1>2, <2>3 DEF LabelsFinal
  <2>5. QED
    BY <2>1, <2>4
<1>6. QED
  BY <1>3, <1>4, <1>5 DEF OutcomesInv

(* A run loads well for every signal it labels.                            *)
LEMMA LoadsWell ==
  ASSUME OutcomesInv, NEW k \in (-1)..minute, DOMAIN bars = 0..k,
         NEW selected \in SUBSET (1..Len(labelled)), NEW j \in selected
  PROVE  LoadedWell(LoadBars(selected), labelled[j].at, k)
<1> DEFINE times  == {WallClock(labelled[i].at) : i \in selected}
           loaded == LoadBars(selected)
<1>1. minute \in Nat /\ k \in Int /\ \A i \in selected : labelled[i].at \in 0..minute
  BY DEF OutcomesInv, LabelsTyped, BarsFollow
<1>2. WallClock(minute) \in Nat /\ times \in SUBSET (0..WallClock(minute)) /\ times # {}
  <2>1. WallClock(minute) \in Nat
    BY <1>1, ClockFacts
  <2>2. ASSUME NEW i \in selected PROVE WallClock(labelled[i].at) \in 0..WallClock(minute)
    <3>1. PICK at \in Nat : at = labelled[i].at /\ at <= minute
      BY <1>1
    <3>2. WallClock(at) \in Nat /\ WallClock(at) <= WallClock(minute)
      BY <1>1, <3>1, ClockFacts
    <3>3. WallClock(at) \in 0..WallClock(minute)
      BY <2>1, <3>2
    <3>4. QED
      BY <3>1, <3>3
  <2>3. QED
    BY <2>1, <2>2
<1>3. /\ Min(times) \in times /\ Max(times) \in times
      /\ \A t \in times : Min(times) <= t /\ t <= Max(times)
  <2> HIDE DEF times
  <2>1. times \in SUBSET Nat
    BY <1>2
  <2>2. QED
    BY <1>2, <2>1, MinIsLeast, MaxIsGreatest
<1>4. PICK lo, hi \in Int :
        /\ lo = Min(times) - LoadMargin /\ hi = Max(times) + LoadMargin
        /\ \A t \in times : lo <= t /\ t + HoldingBars <= hi
  <2>1. HoldingBars \in Nat /\ LoadMargin \in Nat /\ HoldingBars <= LoadMargin
    BY OutcomesAssumption DEF LoadMargin
  <2> HIDE DEF times
  <2>2. \A t \in times : t \in Nat
    BY <1>2
  <2>3. PICK a, b \in Nat : a = Min(times) /\ b = Max(times)
    BY <1>3, <2>2
  <2>4. \A t \in times : t \in Nat /\ a <= t /\ t <= b
    BY <1>3, <2>2, <2>3
  <2>5. a - LoadMargin \in Int /\ b + LoadMargin \in Int
    BY <2>1, <2>3
  <2>6. \A t \in times : a - LoadMargin <= t /\ t + HoldingBars <= b + LoadMargin
    BY <2>1, <2>3, <2>4
  <2>7. QED
    BY <2>3, <2>5, <2>6
<1>5. loaded = {m \in 0..k : WallClock(m) \in lo..hi}
  BY <1>4 DEF LoadBars
<1> HIDE DEF loaded
<1>6. ASSUME NEW x \in loaded, NEW y \in loaded, NEW z \in x..y PROVE z \in loaded
  <2>1. /\ x \in Nat /\ y \in Nat /\ z \in Nat /\ z \in 0..k /\ x <= z /\ z <= y
        /\ lo <= WallClock(x) /\ WallClock(y) <= hi
    BY <1>1, <1>5
  <2>2. /\ WallClock(x) \in Nat /\ WallClock(z) \in Nat /\ WallClock(y) \in Nat
        /\ WallClock(x) <= WallClock(z) /\ WallClock(z) <= WallClock(y)
    BY <2>1, ClockFacts
  <2>3. QED
    BY <1>4, <1>5, <2>1, <2>2
<1>7. PICK at \in Nat : at = labelled[j].at
  BY <1>1
<1>8. ASSUME NEW m \in at..k, m <= at + HoldingBars, SessionOf(m) = SessionOf(at)
      PROVE  m \in loaded
  <2>1. m \in Nat /\ at <= m /\ m \in 0..k /\ HoldingBars \in Nat
    BY <1>1, <1>7, OutcomesAssumption
  <2>2. WallClock(m) = WallClock(at) + (m - at) /\ WallClock(at) \in Nat
    BY <1>8, <2>1, SessionFacts
  <2>3. WallClock(at) \in times
    BY <1>7
  <2>4. lo <= WallClock(at) /\ WallClock(at) + HoldingBars <= hi
    BY <1>4, <2>3
  <2>5. WallClock(m) \in lo..hi
    BY <1>4, <1>8, <2>1, <2>2, <2>4
  <2>6. QED
    BY <1>5, <2>1, <2>5
<1>9. loaded \in SUBSET (0..k)
  BY <1>5
<1>10. \A x, y \in loaded : x..y \subseteq loaded
  BY <1>6
<1>11. QED
  BY <1>7, <1>8, <1>9, <1>10 DEF LoadedWell, loaded

LEMMA BackfillKeeps ==
  ASSUME OutcomesInv, NEW since, NEW overwrite, Backfill(since, overwrite)
  PROVE  OutcomesInv'
<1> DEFINE selected == {k \in 1..Len(labelled) :
                          /\ WallClock(labelled[k].at) >= since
                          /\ overwrite \/ labelled[k].outcome = NoOutcome}
           outcome(k) == ResolveOne(labelled[k], LoadBars(selected))
           n == Len(labelled)
<1>1. /\ labelled' = [k \in 1..n |-> IF k \in selected /\ outcome(k) # NoOutcome
                                     THEN [labelled[k] EXCEPT !.outcome = outcome(k)]
                                     ELSE labelled[k]]
      /\ UNCHANGED <<minute, market, bars>>
  BY DEF Backfill
<1>2. n \in Nat /\ selected \in SUBSET (1..n)
  BY DEF OutcomesInv, LabelsTyped
<1>3. ASSUME NEW k \in 1..n
      PROVE  /\ labelled'[k].at = labelled[k].at
             /\ labelled'[k].direction = labelled[k].direction
             /\ labelled'[k].outcome = IF k \in selected /\ outcome(k) # NoOutcome
                                       THEN outcome(k) ELSE labelled[k].outcome
             /\ labelled'[k] = [at |-> labelled'[k].at, direction |-> labelled'[k].direction,
                                outcome |-> labelled'[k].outcome]
  <2>1. labelled[k] = [at |-> labelled[k].at, direction |-> labelled[k].direction,
                       outcome |-> labelled[k].outcome]
    BY DEF OutcomesInv, LabelsTyped
  <2> HIDE DEF outcome, selected
  <2>2. labelled'[k] = IF k \in selected /\ outcome(k) # NoOutcome
                       THEN [labelled[k] EXCEPT !.outcome = outcome(k)] ELSE labelled[k]
    BY <1>1
  <2>3. [labelled[k] EXCEPT !.outcome = outcome(k)]
          = [at |-> labelled[k].at, direction |-> labelled[k].direction, outcome |-> outcome(k)]
    BY <2>1
  <2>4. QED
    BY <2>1, <2>2, <2>3
<1>4. Len(labelled') = n /\ DOMAIN labelled' = 1..n /\ labelled' = [k \in 1..n |-> labelled'[k]]
  <2> HIDE DEF outcome, selected
  <2>1. DOMAIN labelled' = 1..n /\ labelled' = [k \in 1..n |-> labelled'[k]]
    BY <1>1
  <2>2. Len(labelled') = n
    BY <1>1, <1>2
  <2>3. QED
    BY <2>1, <2>2
<1>5. BarsFollow'
  BY <1>1 DEF OutcomesInv, BarsFollow
<1>6. LabelsTyped'
  <2>1. \A k \in 1..n : labelled[k].at \in 0..minute
    BY DEF OutcomesInv, LabelsTyped
  <2> HIDE DEF outcome, selected
  <2>2. QED
    BY <1>1, <1>2, <1>3, <1>4, <2>1 DEF LabelsTyped
<1>7. LabelsFinal'
  <2>1. PICK k \in (-1)..minute : DOMAIN bars = 0..k
    BY DEF OutcomesInv, BarsFollow
  <2>2. ASSUME NEW j \in 1..n, labelled'[j].outcome # NoOutcome
        PROVE  labelled'[j].outcome = LabelBy(labelled'[j], 0..k, bars)
    <3>1. k \in Int /\ labelled[j].at \in Nat
      BY DEF OutcomesInv, LabelsTyped, BarsFollow
    <3>2. labelled'[j].outcome = LabelBy(labelled[j], 0..k, bars)
      <4>1. CASE j \in selected /\ outcome(j) # NoOutcome
        <5>1. LoadedWell(LoadBars(selected), labelled[j].at, k)
          BY <1>2, <2>1, <4>1, LoadsWell
        <5>2. outcome(j) = LabelBy(labelled[j], LoadBars(selected), bars)
          BY ResolveOneIs
        <5> HIDE DEF selected
        <5>3. LabelBy(labelled[j], LoadBars(selected), bars) # NoOutcome
          BY <4>1, <5>2
        <5>4. LabelBy(labelled[j], 0..k, bars) = LabelBy(labelled[j], LoadBars(selected), bars)
          BY <3>1, <5>1, <5>3, LabelStands
        <5> HIDE DEF outcome
        <5>5. QED
          BY <1>3, <4>1, <5>2, <5>4
      <4>2. CASE ~(j \in selected /\ outcome(j) # NoOutcome)
        <5> HIDE DEF outcome, selected
        <5>1. labelled'[j].outcome = labelled[j].outcome
          BY <1>3, <4>2
        <5>2. QED
          BY <2>1, <2>2, <5>1, FinalBy DEF OutcomesInv, LabelsFinal
      <4>3. QED
        BY <4>1, <4>2
    <3>3. LabelBy(labelled'[j], 0..k, bars) = LabelBy(labelled[j], 0..k, bars)
      <4>1. ASSUME NEW loaded PROVE
              /\ ForwardMinutes(labelled'[j], loaded) = ForwardMinutes(labelled[j], loaded)
              /\ UpToEntry(labelled'[j], loaded) = UpToEntry(labelled[j], loaded)
              /\ Window(labelled'[j], loaded) = Window(labelled[j], loaded)
        <5> HIDE DEF outcome, selected
        <5>1. labelled'[j].at = labelled[j].at
          BY <1>3
        <5>2. UpToEntry(labelled'[j], loaded) = UpToEntry(labelled[j], loaded)
          BY <5>1 DEF UpToEntry
        <5>3. QED
          BY <5>1, <5>2 DEF ForwardMinutes, Window
      <4>2. labelled'[j].direction = labelled[j].direction
        BY <1>3
      <4> HIDE DEF outcome, selected
      <4>3. QED
        BY <4>1, <4>2 DEF LabelBy, Undecided, ScoreBy, Measure
    <3>4. QED
      BY <3>2, <3>3
  <2> HIDE DEF outcome, selected
  <2>3. QED
    BY <1>1, <1>4, <2>1, <2>2 DEF LabelsFinal
<1>8. LabelIsFinal' <=> LabelsFinal'
  BY FinalBy, PTL
<1>9. QED
  BY <1>5, <1>6, <1>7, <1>8 DEF OutcomesInv

LEMMA StepOutcomes == OutcomesInv /\ [OutcomesNext]_outcome_vars => OutcomesInv'
<1> SUFFICES ASSUME OutcomesInv, [OutcomesNext]_outcome_vars PROVE OutcomesInv'
  OBVIOUS
<1>1. CASE \E shape \in Shapes : MinuteCloses(shape)
  BY <1>1, MinuteKeeps
<1>2. CASE RefreshClosed \/ \E shape \in Shapes : Refresh(shape)
  BY <1>2, RefreshKeeps
<1>3. CASE \E direction \in {"BUY", "SELL"} : Signal(direction)
  BY <1>3, SignalKeeps
<1>4. CASE \E since \in {0, WallClock(minute) - RescanMinutes}, overwrite \in BOOLEAN :
             Backfill(since, overwrite)
  BY <1>4, BackfillKeeps
<1>5. CASE UNCHANGED outcome_vars
  <2>1. UNCHANGED <<minute, market, bars, labelled>>
    BY <1>5 DEF outcome_vars
  <2>2. BarsFollow' /\ LabelsTyped'
    BY <2>1 DEF OutcomesInv, BarsFollow, LabelsTyped
  <2>3. LabelsFinal'
    BY <2>1, FinalBy DEF OutcomesInv, LabelsFinal
  <2>4. LabelIsFinal' <=> LabelsFinal'
    BY FinalBy, PTL
  <2>5. QED
    BY <2>2, <2>3, <2>4 DEF OutcomesInv
<1>6. QED
  BY <1>1, <1>2, <1>3, <1>4, <1>5 DEF OutcomesNext

(* A label is the one the whole table gives, whatever it was drawn from    *)
(* and whatever has come in since (_resolve_one, write_underlying_bars_    *)
(* batch).                                                                 *)
THEOREM LabelsStand == OutcomesSpec => []LabelIsFinal
<1>1. OutcomesInv => LabelIsFinal
  BY DEF OutcomesInv
<1>2. QED
  BY <1>1, InitOutcomes, StepOutcomes, PTL DEF OutcomesSpec

-----------------------------------------------------------------------------
(* ExitReplay.  Dividing keeps the order, and undoes multiplying; the      *)
(* greatest element of a set is one that no other exceeds.                 *)
LEMMA DivideKeepsOrder ==
  ASSUME NEW m \in Nat, NEW n \in Nat, m <= n, NEW d \in Nat \ {0}
  PROVE  m \div d <= n \div d
<1> DEFINE q == m \div d
           r == m % d
           u == n \div d
           v == n % d
<1>1. q \in Nat /\ r \in 0..(d - 1) /\ m = d * q + r
  BY DivideFacts
<1>2. u \in Nat /\ v \in 0..(d - 1) /\ n = d * u + v
  BY DivideFacts
<1> HIDE DEF q, r, u, v
<1> SUFFICES ASSUME u + 1 <= q PROVE FALSE
  BY <1>1, <1>2 DEF q, u
<1>3. d * (u + 1) <= d * q
  BY <1>1, <1>2, TimesKeepsOrder
<1>4. d * (u + 1) = d * u + d /\ d * u \in Nat /\ d * q \in Nat
  BY <1>1, <1>2
<1>5. QED
  BY <1>1, <1>2, <1>3, <1>4

LEMMA DivideUndoes ==
  ASSUME NEW n \in Nat, NEW d \in Nat \ {0}
  PROVE  (n * d) \div d = n
<1> DEFINE m == n * d
           q == m \div d
           r == m % d
<1>1. m \in Nat /\ m = d * n
  OBVIOUS
<1>2. q \in Nat /\ r \in 0..(d - 1) /\ m = d * q + r
  BY <1>1, DivideFacts
<1> HIDE DEF m, q, r
<1>3. ~(q + 1 <= n)
  <2> SUFFICES ASSUME q + 1 <= n PROVE FALSE
    OBVIOUS
  <2>1. d * (q + 1) <= d * n
    BY <1>2, TimesKeepsOrder
  <2>2. d * (q + 1) = d * q + d /\ d * q \in Nat /\ d * n \in Nat
    BY <1>2
  <2>3. QED
    BY <1>1, <1>2, <2>1, <2>2
<1>4. ~(n + 1 <= q)
  <2> SUFFICES ASSUME n + 1 <= q PROVE FALSE
    OBVIOUS
  <2>1. d * (n + 1) <= d * q
    BY <1>2, TimesKeepsOrder
  <2>2. d * (n + 1) = d * n + d /\ d * q \in Nat /\ d * n \in Nat
    BY <1>2
  <2>3. QED
    BY <1>1, <1>2, <2>1, <2>2
<1>5. q = n
  BY <1>2, <1>3, <1>4
<1>6. QED
  BY <1>5 DEF q, m

LEMMA MaxIs ==
  ASSUME NEW S \in SUBSET Int, NEW x \in S, \A y \in S : y <= x
  PROVE  Max(S) = x
<1>1. \A z \in S : (\A y \in S : z >= y) => z = x
  OBVIOUS
<1>2. \A y \in S : x >= y
  OBVIOUS
<1>3. QED
  BY <1>1, <1>2 DEF Max

-----------------------------------------------------------------------------
(* The protective level that a best mark calls for: the greatest of the    *)
(* initial stop, the trail and, once it is armed, the breakeven floor.     *)
Trail(best) == (best * InitialStop) \div AvgEntry
Floor(best) == IF best >= BreakevenTrigger THEN {BreakevenLevel} ELSE {}
Calls(stop, best) == {stop, Trail(best)} \cup Floor(best)

LEMMA LadderLevel ==
  ASSUME NEW after, NEW targets, NEW p
  PROVE  Ladder(after, targets)!EffectiveStop(p) = Max(Calls(p.stop, p.hwm))
  BY DEF Ladder!Max, Max, Ladder!EffectiveStop, Ladder!TrailLevel, Ladder!BreakevenFloor,
         Calls, Trail, Floor

LEMMA LevelIs ==
  ASSUME NEW best
  PROVE  Level(best) = Max(Calls(InitialStop, best))
  BY LadderLevel DEF Level

LEMMA TrailFacts ==
  /\ \A b \in Nat : Trail(b) \in Nat /\ Trail(b) <= b
  /\ Trail(AvgEntry) = InitialStop
<1>1. /\ AvgEntry \in Nat \ {0} /\ InitialStop \in Nat /\ InitialStop <= AvgEntry
  BY ReplayAssumption
<1>2. ASSUME NEW b \in Nat PROVE Trail(b) \in Nat /\ Trail(b) <= b
  <2>1. b * InitialStop \in Nat /\ b * AvgEntry \in Nat /\ b * InitialStop <= b * AvgEntry
    BY <1>1, TimesKeepsOrder
  <2>2. (b * InitialStop) \div AvgEntry <= (b * AvgEntry) \div AvgEntry
    BY <1>1, <2>1, DivideKeepsOrder
  <2>3. (b * AvgEntry) \div AvgEntry = b
    BY <1>1, DivideUndoes
  <2>4. (b * InitialStop) \div AvgEntry \in Nat
    BY <1>1, <2>1, DivideFacts
  <2>5. QED
    BY <2>2, <2>3, <2>4 DEF Trail
<1>3. Trail(AvgEntry) = InitialStop
  <2>1. AvgEntry * InitialStop = InitialStop * AvgEntry
    BY <1>1
  <2>2. (InitialStop * AvgEntry) \div AvgEntry = InitialStop
    BY <1>1, DivideUndoes
  <2>3. QED
    BY <2>1, <2>2 DEF Trail
<1>4. QED
  BY <1>2, <1>3

(* The level is one of what calls for it, and the greatest.                *)
LEMMA LevelFacts ==
  ASSUME NEW b \in Nat
  PROVE  /\ Calls(InitialStop, b) \in SUBSET Nat
         /\ Level(b) \in Calls(InitialStop, b) /\ Level(b) \in Nat
         /\ \A x \in Calls(InitialStop, b) : x <= Level(b)
<1>1. InitialStop \in Nat /\ Trail(b) \in Nat /\ BreakevenLevel \in Nat
  BY ReplayAssumption, TrailFacts
<1>2. Calls(InitialStop, b) \in SUBSET Nat
  BY <1>1 DEF Calls, Floor
<1> DEFINE n == InitialStop + Trail(b) + BreakevenLevel
<1>3. n \in Nat /\ \A x \in Calls(InitialStop, b) : x <= n
  BY <1>1 DEF Calls, Floor
<1>4. Calls(InitialStop, b) \in SUBSET (0..n) /\ Calls(InitialStop, b) # {}
  BY <1>2, <1>3 DEF Calls
<1> HIDE DEF n
<1>5. QED
  BY <1>2, <1>3, <1>4, LevelIs, MaxIsGreatest

(* A stop between the initial one and the level changes nothing of it.     *)
LEMMA StopAddsNothing ==
  ASSUME NEW after, NEW targets, NEW p, p.hwm \in Nat, p.stop \in Nat,
         InitialStop <= p.stop, p.stop <= Level(p.hwm)
  PROVE  Ladder(after, targets)!EffectiveStop(p) = Level(p.hwm)
<1>1. PICK b \in Nat, s \in Nat : b = p.hwm /\ s = p.stop
  OBVIOUS
<1>2. /\ Calls(InitialStop, b) \in SUBSET Nat
      /\ Level(b) \in Calls(InitialStop, b) /\ Level(b) \in Nat
      /\ \A x \in Calls(InitialStop, b) : x <= Level(b)
  BY LevelFacts
<1>3. InitialStop \in Nat /\ InitialStop <= s /\ s <= Level(b)
  BY <1>1, ReplayAssumption
<1>4. Calls(s, b) \in SUBSET Int /\ \A x \in Calls(s, b) : x <= Level(b)
  BY <1>2, <1>3 DEF Calls
<1>5. Level(b) \in Calls(s, b)
  <2>1. CASE Level(b) = InitialStop
    <3>1. s = Level(b)
      BY <1>2, <1>3, <2>1
    <3>2. QED
      BY <3>1 DEF Calls
  <2>2. CASE Level(b) # InitialStop
    BY <1>2, <2>2 DEF Calls
  <2>3. QED
    BY <2>1, <2>2
<1>6. Max(Calls(s, b)) = Level(b)
  BY <1>4, <1>5, MaxIs
<1>7. QED
  BY <1>1, <1>6, LadderLevel

LEMMA LevelAtEntry == Level(AvgEntry) = InitialStop
<1>1. /\ AvgEntry \in Nat /\ InitialStop \in Nat /\ BreakevenTrigger \in Nat
      /\ ~(AvgEntry >= BreakevenTrigger)
  BY ReplayAssumption
<1>2. Calls(InitialStop, AvgEntry) = {InitialStop}
  BY <1>1, TrailFacts DEF Calls, Floor
<1>3. QED
  BY <1>1, <1>2, LevelFacts

(* The level does not fall, and a mark that stays under it does not raise  *)
(* it.                                                                     *)
LEMMA LevelRises ==
  ASSUME NEW b \in Nat, NEW c \in Nat, b <= c
  PROVE  /\ Level(b) <= Level(c)
         /\ b >= AvgEntry /\ c <= Level(b) => Level(c) = Level(b)
<1>1. /\ AvgEntry \in Nat \ {0} /\ InitialStop \in Nat /\ InitialStop < AvgEntry
      /\ BreakevenTrigger \in Nat /\ BreakevenLevel \in Nat
  BY ReplayAssumption
<1>2. Trail(b) \in Nat /\ Trail(c) \in Nat /\ Trail(b) <= b /\ Trail(c) <= c
  BY TrailFacts
<1>3. Trail(b) <= Trail(c)
  <2>1. b * InitialStop \in Nat /\ c * InitialStop \in Nat /\ b * InitialStop <= c * InitialStop
    BY <1>1, TimesKeepsOrder
  <2>2. QED
    BY <1>1, <2>1, DivideKeepsOrder DEF Trail
<1>4. /\ Level(b) \in Calls(InitialStop, b) /\ Level(b) \in Nat
      /\ \A x \in Calls(InitialStop, b) : x <= Level(b)
      /\ Level(c) \in Calls(InitialStop, c) /\ Level(c) \in Nat
      /\ \A x \in Calls(InitialStop, c) : x <= Level(c)
  BY LevelFacts
<1>5. Floor(b) \subseteq Floor(c)
  BY <1>1 DEF Floor
<1>6. Level(b) <= Level(c)
  <2>1. CASE Level(b) = Trail(b)
    <3>1. Trail(c) <= Level(c)
      BY <1>4 DEF Calls
    <3>2. QED
      BY <1>2, <1>3, <1>4, <2>1, <3>1
  <2>2. CASE Level(b) # Trail(b)
    BY <1>4, <1>5, <2>2 DEF Calls
  <2>3. QED
    BY <2>1, <2>2
<1>7. ASSUME b >= AvgEntry, c <= Level(b)
      PROVE  Level(c) = Level(b)
  <2>1. CASE b = c
    BY <2>1
  <2>2. CASE b < c
    <3>1. Level(b) > b
      BY <1>4, <1>7, <2>2
    <3>2. Level(b) # InitialStop /\ Level(b) # Trail(b)
      BY <1>1, <1>2, <1>4, <1>7, <3>1
    <3>3. Level(b) \in Floor(b)
      BY <1>4, <3>2 DEF Calls
    <3>4. Level(b) = BreakevenLevel /\ Floor(c) = {BreakevenLevel}
      BY <1>5, <3>3 DEF Floor
    <3>5. InitialStop <= BreakevenLevel /\ Trail(c) <= BreakevenLevel
      BY <1>1, <1>2, <1>4, <1>7, <3>1, <3>4
    <3>6. Calls(InitialStop, c) = {InitialStop, Trail(c), BreakevenLevel}
      BY <3>4 DEF Calls
    <3>7. Level(c) <= BreakevenLevel
      BY <1>1, <1>4, <3>5, <3>6
    <3>8. QED
      BY <1>4, <1>6, <3>4, <3>7
  <2>3. QED
    BY <2>1, <2>2
<1>8. QED
  BY <1>6, <1>7

-----------------------------------------------------------------------------
(* The checks of the ladder on a position of one lot, and those that fire. *)
ChecksOf(v, p) == Ladder(v.scratch, Targets(v, p.qty))!Checks(p, FALSE)
FiresOf(v, p)  == {i \in 1..10 : ChecksOf(v, p)[i].fires}
Holding == {"NO_ACTION", "STOP_RATCHET"}

(* Positions the sweep asks about.                                         *)
Asked(p) ==
  /\ p.qty = 1 /\ p.stop \in Nat /\ p.hwm \in Nat /\ p.mark \in Nat /\ p.taken = {}
  /\ p.day = 0 /\ p.slot \in Nat /\ p.quiet = FALSE /\ p.expires \in BOOLEAN
  /\ InitialStop <= p.stop /\ p.stop <= Level(p.hwm)

StopName(best, level) ==
  IF level \in Floor(best) THEN "BREAKEVEN_STOP"
  ELSE IF level > InitialStop THEN "TRAILING_STOP" ELSE "STOP_LOSS"

DueTargets(v, p) ==
  {r \in Targets(v, 1) : p.mark - AvgEntry >= r * (AvgEntry - InitialStop)}

IsRule(c, fires, reason) == (c.fires <=> fires) /\ c.reason = reason /\ c.qty = 1

LEMMA ChecksAre ==
  ASSUME NEW v, NEW p, Asked(p)
  PROVE  /\ IsRule(ChecksOf(v, p)[1], p.mark <= p.stop, StopName(p.hwm, p.stop))
         /\ IsRule(ChecksOf(v, p)[2], p.mark <= Level(p.hwm), StopName(p.hwm, Level(p.hwm)))
         /\ IsRule(ChecksOf(v, p)[3], FALSE, "OVERNIGHT_EXIT")
         /\ IsRule(ChecksOf(v, p)[4], p.slot >= CushionFrom, "EOD_EXIT")
         /\ IsRule(ChecksOf(v, p)[5], p.expires /\ p.slot >= LateFrom, "EXPIRY_EXIT")
         /\ IsRule(ChecksOf(v, p)[6], p.slot >= MaxHolding, "TIME_EXIT")
         /\ IsRule(ChecksOf(v, p)[7], FALSE, "EVENT_EXIT")
         /\ IsRule(ChecksOf(v, p)[8], p.mark >= ProfitTarget, "PROFIT_TARGET")
         /\ IsRule(ChecksOf(v, p)[9], DueTargets(v, p) # {}, "PARTIAL_EXIT")
         /\ IsRule(ChecksOf(v, p)[10], p.slot >= v.scratch /\ p.hwm < ScratchThreshold,
                   "SCRATCH_EXIT")
<1> DEFINE a == v.scratch
           t == Targets(v, p.qty)
           checks == ChecksOf(v, p)
<1>1. p.qty = 1 /\ p.day = 0 /\ p.quiet = FALSE /\ p.taken = {} /\ p.expires \in BOOLEAN
  BY DEF Asked
<1>2. Ladder(a, t)!EffectiveStop(p) = Level(p.hwm)
  BY StopAddsNothing DEF Asked
<1>3. \A level : Ladder(a, t)!StopReason(p, level) = StopName(p.hwm, level)
  BY DEF Ladder!StopReason, Ladder!BreakevenFloor, StopName, Floor
<1>4. Ladder(a, t)!ClosesSession(p) <=> p.slot >= CushionFrom
  BY <1>1 DEF Ladder!ClosesSession
<1>5. Ladder(a, t)!Held(p) = p.slot
  BY <1>1 DEF Ladder!Held
<1>6. Ladder(a, t)!DueRungs(p) = DueTargets(v, p)
  BY <1>1 DEF Ladder!DueRungs, Ladder!ReachesR, Ladder!Risk, DueTargets
<1>7. Ladder(a, t)!RungQty(p) = 1
  BY <1>1 DEF Ladder!RungQty, Ladder!HalfRounded, Ladder!Smaller, Ladder!Larger
<1>8. checks =
        << [fires |-> p.mark <= p.stop, reason |-> Ladder(a, t)!StopReason(p, p.stop),
             qty |-> p.qty],
           [fires |-> p.mark <= Ladder(a, t)!EffectiveStop(p), reason |-> Ladder(a,
             t)!StopReason(p, Ladder(a, t)!EffectiveStop(p)), qty |-> p.qty],
           [fires |-> p.day # 0, reason |-> "OVERNIGHT_EXIT", qty |-> p.qty],
           [fires |-> Ladder(a, t)!ClosesSession(p), reason |-> "EOD_EXIT", qty |-> p.qty],
           [fires |-> p.expires /\ (p.day # 0 \/ p.slot >= LateFrom), reason |-> "EXPIRY_EXIT",
             qty |-> p.qty],
           [fires |-> Ladder(a, t)!Held(p) >= MaxHolding, reason |-> "TIME_EXIT", qty |-> p.qty],
           [fires |-> FALSE, reason |-> "EVENT_EXIT", qty |-> p.qty],
           [fires |-> p.mark >= ProfitTarget, reason |-> "PROFIT_TARGET", qty |-> p.qty],
           [fires |-> Ladder(a, t)!DueRungs(p) # {}, reason |-> "PARTIAL_EXIT",
             qty |-> Ladder(a, t)!RungQty(p)],
           [fires |-> Ladder(a, t)!Held(p) >= a /\ p.hwm < ScratchThreshold,
             reason |-> "SCRATCH_EXIT", qty |-> p.qty] >>
  BY Zenon DEF ChecksOf, Ladder!Checks, Ladder!Rule
<1> HIDE DEF checks
<1>9. IsRule(checks[1], p.mark <= p.stop, StopName(p.hwm, p.stop))
  <2>1. checks[1] = [fires |-> p.mark <= p.stop, reason |-> Ladder(a, t)!StopReason(p, p.stop),
                      qty |-> p.qty]
    BY <1>8
  <2> HIDE DEF t
  <2>2. checks[1].fires = (p.mark <= p.stop)
    BY <2>1, SMT
  <2>3. checks[1].fires <=> (p.mark <= p.stop)
    BY <2>2, Zenon
  <2>4. (p.mark <= p.stop) <=> (p.mark <= p.stop)
    BY <1>1, <1>3
  <2>5. checks[1].reason = StopName(p.hwm, p.stop) /\ checks[1].qty = 1
    BY <1>1, <1>3, <2>1
  <2>6. QED
    BY <2>3, <2>4, <2>5 DEF IsRule
<1>10. IsRule(checks[2], p.mark <= Level(p.hwm), StopName(p.hwm, Level(p.hwm)))
  <2>1. checks[2] = [fires |-> p.mark <= Ladder(a, t)!EffectiveStop(p), reason |-> Ladder(a,
                      t)!StopReason(p, Ladder(a, t)!EffectiveStop(p)), qty |-> p.qty]
    BY <1>8
  <2> HIDE DEF t
  <2>2. checks[2].fires = (p.mark <= Ladder(a, t)!EffectiveStop(p))
    BY <2>1, SMT
  <2>3. checks[2].fires <=> (p.mark <= Ladder(a, t)!EffectiveStop(p))
    BY <2>2, Zenon
  <2>4. (p.mark <= Ladder(a, t)!EffectiveStop(p)) <=> (p.mark <= Level(p.hwm))
    BY <1>1, <1>2, <1>3
  <2>5. checks[2].reason = StopName(p.hwm, Level(p.hwm)) /\ checks[2].qty = 1
    BY <1>1, <1>2, <1>3, <2>1
  <2>6. QED
    BY <2>3, <2>4, <2>5 DEF IsRule
<1>11. IsRule(checks[3], FALSE, "OVERNIGHT_EXIT")
  <2>1. checks[3] = [fires |-> p.day # 0, reason |-> "OVERNIGHT_EXIT", qty |-> p.qty]
    BY <1>8
  <2> HIDE DEF t
  <2>2. checks[3].fires = (p.day # 0)
    BY <2>1, SMT
  <2>3. checks[3].fires <=> (p.day # 0)
    BY <2>2, Zenon
  <2>4. (p.day # 0) <=> (FALSE)
    BY <1>1
  <2>5. checks[3].reason = "OVERNIGHT_EXIT" /\ checks[3].qty = 1
    BY <1>1, <2>1
  <2>6. QED
    BY <2>3, <2>4, <2>5 DEF IsRule
<1>12. IsRule(checks[4], p.slot >= CushionFrom, "EOD_EXIT")
  <2>1. checks[4] = [fires |-> Ladder(a, t)!ClosesSession(p), reason |-> "EOD_EXIT",
                      qty |-> p.qty]
    BY <1>8
  <2> HIDE DEF t
  <2>2. checks[4].fires = (Ladder(a, t)!ClosesSession(p))
    BY <2>1, SMT
  <2>3. checks[4].fires <=> (Ladder(a, t)!ClosesSession(p))
    BY <2>2, Zenon
  <2>4. (Ladder(a, t)!ClosesSession(p)) <=> (p.slot >= CushionFrom)
    BY <1>1, <1>4
  <2>5. checks[4].reason = "EOD_EXIT" /\ checks[4].qty = 1
    BY <1>1, <1>4, <2>1
  <2>6. QED
    BY <2>3, <2>4, <2>5 DEF IsRule
<1>13. IsRule(checks[5], p.expires /\ p.slot >= LateFrom, "EXPIRY_EXIT")
  <2>1. checks[5] = [fires |-> p.expires /\ (p.day # 0 \/ p.slot >= LateFrom),
                      reason |-> "EXPIRY_EXIT", qty |-> p.qty]
    BY <1>8
  <2> HIDE DEF t
  <2>2. checks[5].fires = (p.expires /\ (p.day # 0 \/ p.slot >= LateFrom))
    BY <2>1, SMT
  <2>3. checks[5].fires <=> (p.expires /\ (p.day # 0 \/ p.slot >= LateFrom))
    BY <2>2, Zenon
  <2>4. (p.expires /\ (p.day # 0 \/ p.slot >= LateFrom)) <=> (p.expires /\ p.slot >= LateFrom)
    BY <1>1
  <2>5. checks[5].reason = "EXPIRY_EXIT" /\ checks[5].qty = 1
    BY <1>1, <2>1
  <2>6. QED
    BY <2>3, <2>4, <2>5 DEF IsRule
<1>14. IsRule(checks[6], p.slot >= MaxHolding, "TIME_EXIT")
  <2>1. checks[6] = [fires |-> Ladder(a, t)!Held(p) >= MaxHolding, reason |-> "TIME_EXIT",
                      qty |-> p.qty]
    BY <1>8
  <2> HIDE DEF t
  <2>2. checks[6].fires = (Ladder(a, t)!Held(p) >= MaxHolding)
    BY <2>1, SMT
  <2>3. checks[6].fires <=> (Ladder(a, t)!Held(p) >= MaxHolding)
    BY <2>2, Zenon
  <2>4. (Ladder(a, t)!Held(p) >= MaxHolding) <=> (p.slot >= MaxHolding)
    BY <1>1, <1>5
  <2>5. checks[6].reason = "TIME_EXIT" /\ checks[6].qty = 1
    BY <1>1, <1>5, <2>1
  <2>6. QED
    BY <2>3, <2>4, <2>5 DEF IsRule
<1>15. IsRule(checks[7], FALSE, "EVENT_EXIT")
  <2>1. checks[7] = [fires |-> FALSE, reason |-> "EVENT_EXIT", qty |-> p.qty]
    BY <1>8
  <2> HIDE DEF t
  <2>2. checks[7].fires = (FALSE)
    BY <2>1, SMT
  <2>3. checks[7].fires <=> (FALSE)
    BY <2>2, Zenon
  <2>4. (FALSE) <=> (FALSE)
    BY <1>1
  <2>5. checks[7].reason = "EVENT_EXIT" /\ checks[7].qty = 1
    BY <1>1, <2>1
  <2>6. QED
    BY <2>3, <2>4, <2>5 DEF IsRule
<1>16. IsRule(checks[8], p.mark >= ProfitTarget, "PROFIT_TARGET")
  <2>1. checks[8] = [fires |-> p.mark >= ProfitTarget, reason |-> "PROFIT_TARGET",
                      qty |-> p.qty]
    BY <1>8
  <2> HIDE DEF t
  <2>2. checks[8].fires = (p.mark >= ProfitTarget)
    BY <2>1, SMT
  <2>3. checks[8].fires <=> (p.mark >= ProfitTarget)
    BY <2>2, Zenon
  <2>4. (p.mark >= ProfitTarget) <=> (p.mark >= ProfitTarget)
    BY <1>1
  <2>5. checks[8].reason = "PROFIT_TARGET" /\ checks[8].qty = 1
    BY <1>1, <2>1
  <2>6. QED
    BY <2>3, <2>4, <2>5 DEF IsRule
<1>17. IsRule(checks[9], DueTargets(v, p) # {}, "PARTIAL_EXIT")
  <2>1. checks[9] = [fires |-> Ladder(a, t)!DueRungs(p) # {}, reason |-> "PARTIAL_EXIT",
                      qty |-> Ladder(a, t)!RungQty(p)]
    BY <1>8
  <2> HIDE DEF t
  <2>2. checks[9].fires = (Ladder(a, t)!DueRungs(p) # {})
    BY <2>1, SMT
  <2>3. checks[9].fires <=> (Ladder(a, t)!DueRungs(p) # {})
    BY <2>2, Zenon
  <2>4. (Ladder(a, t)!DueRungs(p) # {}) <=> (DueTargets(v, p) # {})
    BY <1>6, <1>7
  <2>5. checks[9].reason = "PARTIAL_EXIT" /\ checks[9].qty = 1
    BY <1>6, <1>7, <2>1
  <2>6. QED
    BY <2>3, <2>4, <2>5 DEF IsRule
<1>18. IsRule(checks[10], p.slot >= v.scratch /\ p.hwm < ScratchThreshold, "SCRATCH_EXIT")
  <2>1. checks[10] = [fires |-> Ladder(a, t)!Held(p) >= a /\ p.hwm < ScratchThreshold,
                      reason |-> "SCRATCH_EXIT", qty |-> p.qty]
    BY <1>8
  <2> HIDE DEF t
  <2>2. checks[10].fires = (Ladder(a, t)!Held(p) >= a /\ p.hwm < ScratchThreshold)
    BY <2>1, SMT
  <2>3. checks[10].fires <=> (Ladder(a, t)!Held(p) >= a /\ p.hwm < ScratchThreshold)
    BY <2>2, Zenon
  <2>4. (Ladder(a, t)!Held(p) >= a /\ p.hwm < ScratchThreshold)
          <=> (p.slot >= v.scratch /\ p.hwm < ScratchThreshold)
    BY <1>1, <1>5
  <2>5. checks[10].reason = "SCRATCH_EXIT" /\ checks[10].qty = 1
    BY <1>1, <1>5, <2>1
  <2>6. QED
    BY <2>3, <2>4, <2>5 DEF IsRule
<1>19. QED
  BY <1>9, <1>10, <1>11, <1>12, <1>13, <1>14, <1>15, <1>16, <1>17, <1>18 DEF checks

LEMMA DecisionIs ==
  ASSUME NEW v, NEW p, Asked(p)
  PROVE  /\ FiresOf(v, p) = {} =>
              Decide(v, p).reason = IF Level(p.hwm) > p.stop THEN "STOP_RATCHET" ELSE "NO_ACTION"
         /\ FiresOf(v, p) # {} =>
              /\ Min(FiresOf(v, p)) \in FiresOf(v, p)
              /\ \A i \in FiresOf(v, p) : Min(FiresOf(v, p)) <= i
              /\ Decide(v, p) =
                   [reason |-> ChecksOf(v, p)[Min(FiresOf(v, p))].reason, qty |-> 1]
              /\ Decide(v, p).reason \notin Holding
<1> DEFINE a == v.scratch
           t == Targets(v, p.qty)
           fired == FiresOf(v, p)
<1>1. Ladder(a, t)!EffectiveStop(p) = Level(p.hwm)
  BY StopAddsNothing DEF Asked
<1>2. Ladder(a, t)!Fired(ChecksOf(v, p)) = fired
  BY DEF Ladder!Fired, FiresOf
<1>3. Ladder(a, t)!Min(fired) = Min(fired)
  BY DEF Ladder!Min, Min
<1>4. Decide(v, p) =
        IF fired # {}
        THEN [reason |-> ChecksOf(v, p)[Min(fired)].reason, qty |-> ChecksOf(v, p)[Min(fired)].qty]
        ELSE IF Level(p.hwm) > p.stop THEN [reason |-> "STOP_RATCHET", qty |-> 0]
        ELSE [reason |-> "NO_ACTION", qty |-> 0]
  <2> HIDE DEF t, fired
  <2>1. QED
    BY <1>1, <1>2, <1>3
       DEF Decide, Ladder!EvaluateExits, Ladder!Ratchet, Ladder!Hold, ChecksOf, t
<1>5. ASSUME fired # {}
      PROVE  /\ Min(fired) \in fired /\ \A i \in fired : Min(fired) <= i
             /\ Decide(v, p) = [reason |-> ChecksOf(v, p)[Min(fired)].reason, qty |-> 1]
             /\ Decide(v, p).reason \notin Holding
  <2>1. fired \in SUBSET Nat /\ fired \in SUBSET (1..10)
    BY DEF FiresOf
  <2> HIDE DEF fired
  <2>2. Min(fired) \in fired /\ \A i \in fired : Min(fired) <= i
    BY <1>5, <2>1, MinIsLeast
  <2>3. ASSUME NEW i \in 1..10
        PROVE  ChecksOf(v, p)[i].qty = 1 /\ ChecksOf(v, p)[i].reason \notin Holding
    <3>1. \A best, level : StopName(best, level) \notin Holding
      BY DEF StopName, Holding
    <3>2. {"OVERNIGHT_EXIT", "EOD_EXIT", "EXPIRY_EXIT", "TIME_EXIT", "EVENT_EXIT",
           "PROFIT_TARGET", "PARTIAL_EXIT", "SCRATCH_EXIT"} \cap Holding = {}
      BY DEF Holding
    <3>3. i \in {1, 2, 3, 4, 5, 6, 7, 8, 9, 10}
      OBVIOUS
    <3>4. QED
      BY <3>1, <3>2, <3>3, ChecksAre DEF IsRule
  <2>4. QED
    BY <1>4, <1>5, <2>1, <2>2, <2>3
<1>6. QED
  BY <1>4, <1>5

(* Two positions that differ in the stop alone, of which one stands at the *)
(* level: they are sold alike.                                             *)
LEMMA StopTellsNothing ==
  ASSUME NEW v, NEW p, Asked(p), NEW q, Asked(q),
         q.stop = Level(q.hwm), q.hwm = p.hwm, q.mark = p.mark, q.slot = p.slot,
         q.expires = p.expires, p.mark <= p.stop => p.stop = q.stop
  PROVE  /\ FiresOf(v, p) = {} <=> FiresOf(v, q) = {}
         /\ FiresOf(v, p) # {} => Decide(v, p) = Decide(v, q)
<1> DEFINE f == FiresOf(v, p)
           g == FiresOf(v, q)
           level == Level(p.hwm)
<1>1. /\ p.stop \in Nat /\ p.mark \in Nat /\ level \in Nat /\ p.stop <= level
      /\ f \in SUBSET (1..10) /\ g \in SUBSET (1..10)
  BY LevelFacts DEF Asked, FiresOf
<1>2. DueTargets(v, p) = DueTargets(v, q)
  BY DEF DueTargets
<1>3. \A i \in 3..10 : /\ ChecksOf(v, p)[i].fires <=> ChecksOf(v, q)[i].fires
                      /\ ChecksOf(v, p)[i].reason = ChecksOf(v, q)[i].reason
  <2>1. \A i \in 3..10 : i \in {3, 4, 5, 6, 7, 8, 9, 10}
    OBVIOUS
  <2>2. QED
    BY <1>2, <2>1, ChecksAre DEF IsRule
<1>4. /\ 1 \in f <=> p.mark <= p.stop
      /\ 2 \in f <=> p.mark <= level
      /\ 1 \in g <=> p.mark <= level
      /\ 2 \in g <=> p.mark <= level
      /\ ChecksOf(v, p)[1].reason = StopName(p.hwm, p.stop)
      /\ ChecksOf(v, p)[2].reason = StopName(p.hwm, level)
      /\ ChecksOf(v, q)[1].reason = StopName(p.hwm, level)
  BY ChecksAre DEF FiresOf, IsRule
<1>5. CASE p.mark <= level
  <2>1. 2 \in f /\ 1 \in g
    BY <1>4, <1>5
  <2>2. Decide(v, q) = [reason |-> StopName(p.hwm, level), qty |-> 1]
    <3>1. Min(g) = 1
      <4>1. Min(g) \in g /\ Min(g) <= 1
        BY <2>1, DecisionIs
      <4>2. QED
        BY <1>1, <4>1
    <3>2. QED
      BY <1>4, <2>1, <3>1, DecisionIs
  <2>3. Decide(v, p) = [reason |-> StopName(p.hwm, level), qty |-> 1]
    <3>1. Min(f) \in f /\ Min(f) <= 2 /\ (1 \in f => Min(f) <= 1)
      BY <2>1, DecisionIs
    <3>2. \/ Min(f) = 1 /\ 1 \in f
          \/ Min(f) = 2
      BY <1>1, <3>1
    <3>3. 1 \in f => p.stop = level
      BY <1>4
    <3>4. ChecksOf(v, p)[Min(f)].reason = StopName(p.hwm, level)
      BY <1>4, <3>2, <3>3
    <3>5. QED
      BY <2>1, <3>4, DecisionIs
  <2>4. QED
    BY <2>1, <2>2, <2>3
<1>6. CASE ~(p.mark <= level)
  <2>1. 1 \notin f /\ 2 \notin f /\ 1 \notin g /\ 2 \notin g
    BY <1>1, <1>4, <1>6
  <2>2. \A i \in 3..10 : i \in f <=> i \in g
    BY <1>3 DEF FiresOf
  <2>3. f = g /\ f \in SUBSET (3..10)
    <3>1. \A i \in 1..10 : i \in {1, 2} \/ i \in 3..10
      OBVIOUS
    <3> HIDE DEF f, g
    <3>2. \A i \in 1..10 : (i \in f <=> i \in g) /\ (i \in f => i \in 3..10)
      BY <2>1, <2>2, <3>1
    <3>3. QED
      BY <1>1, <3>2
  <2>4. ASSUME f # {} PROVE Decide(v, p) = Decide(v, q)
    <3>1. Min(f) \in 3..10
      BY <2>3, <2>4, DecisionIs
    <3>2. ChecksOf(v, p)[Min(f)].reason = ChecksOf(v, q)[Min(g)].reason
      BY <1>3, <2>3, <3>1
    <3>3. /\ Decide(v, p) = [reason |-> ChecksOf(v, p)[Min(f)].reason, qty |-> 1]
          /\ Decide(v, q) = [reason |-> ChecksOf(v, q)[Min(g)].reason, qty |-> 1]
      BY <2>3, <2>4, DecisionIs
    <3>4. QED
      BY <3>2, <3>3
  <2>5. QED
    BY <2>3, <2>4
<1>7. QED
  BY <1>5, <1>6

(* A variant with a rule less finds no exit that the other does not.       *)
LEMMA FewerRules ==
  ASSUME NEW u, NEW v, u.scratch \in Nat, v.scratch \in Nat, u.scratch >= v.scratch,
         v.guard => u.guard, NEW p, Asked(p)
  PROVE  FiresOf(u, p) \in SUBSET FiresOf(v, p)
<1>1. p.slot \in Nat
  BY DEF Asked
<1>2. DueTargets(u, p) \in SUBSET DueTargets(v, p)
  BY DEF DueTargets, Targets
<1>3. p.slot >= u.scratch => p.slot >= v.scratch
  BY <1>1
<1>4. \A i \in 1..8 : ChecksOf(u, p)[i].fires <=> ChecksOf(v, p)[i].fires
  <2>1. \A i \in 1..8 : i \in {1, 2, 3, 4, 5, 6, 7, 8}
    OBVIOUS
  <2>2. QED
    BY <2>1, ChecksAre DEF IsRule
<1>5. \A i \in {9, 10} : ChecksOf(u, p)[i].fires => ChecksOf(v, p)[i].fires
  BY <1>2, <1>3, ChecksAre DEF IsRule
<1>6. \A i \in 1..10 : i \in 1..8 \/ i \in {9, 10}
  OBVIOUS
<1>7. QED
  BY <1>4, <1>5, <1>6 DEF FiresOf

(* What the sweep knows of a path s of a contract that expires or not (e): *)
(* the marks up to a minute, the best of them, the position that stands    *)
(* there, and the minutes in which the ladder sells it.                    *)
Minutes == [slot : 0..LastSlot, mark : Nat]
MarksOf(s, i) == {AvgEntry} \cup {s[j].mark : j \in 1..i}
BestOf(s, i)  == Max(MarksOf(s, i))

StandsAt(stop, hwm, priced, e) ==
  [qty |-> 1, stop |-> stop, hwm |-> hwm, mark |-> priced.mark, taken |-> {}, day |-> 0,
   slot |-> priced.slot, quiet |-> FALSE, expires |-> e]

MemoryOf(s, e, i) == StandsAt(Level(BestOf(s, i)), BestOf(s, i), s[i], e)
SalesOf(s, e, v)  == {i \in 1..Len(s) : s[i].mark > 0 /\ FiresOf(v, MemoryOf(s, e, i)) # {}}

BestTold(s) ==
  \A i \in 0..Len(s) : /\ BestOf(s, i) \in Nat /\ BestOf(s, i) \in MarksOf(s, i)
                       /\ \A x \in MarksOf(s, i) : x <= BestOf(s, i)

(* The best of two is one of them, and not less than either.               *)
LEMMA MaxOfTwo ==
  ASSUME NEW x \in Nat, NEW y \in Nat
  PROVE  Max({x, y}) = IF y >= x THEN y ELSE x
<1>1. CASE y >= x
  BY <1>1, MaxIs
<1>2. CASE ~(y >= x)
  BY <1>2, MaxIs
<1>3. QED
  BY <1>1, <1>2

LEMMA BestAtEntry == BestTold(<<>>) /\ BestOf(<<>>, 0) = AvgEntry
<1>1. AvgEntry \in Nat
  BY ReplayAssumption
<1>2. MarksOf(<<>>, 0) = {AvgEntry}
  BY DEF MarksOf
<1>3. BestOf(<<>>, 0) = AvgEntry
  BY <1>1, <1>2, MaxIs DEF BestOf
<1>4. \A i \in 0..Len(<<>>) : i = 0
  OBVIOUS
<1>5. QED
  BY <1>1, <1>2, <1>3, <1>4 DEF BestTold

LEMMA BestGrows ==
  ASSUME NEW s \in Seq(Minutes), NEW priced \in Minutes, BestTold(s)
  PROVE  LET t == Append(s, priced)
         IN  /\ t \in Seq(Minutes) /\ Len(t) = Len(s) + 1 /\ t[Len(t)] = priced
             /\ \A i \in 1..Len(s) : t[i] = s[i]
             /\ \A i \in 0..Len(s) : BestOf(t, i) = BestOf(s, i)
             /\ BestOf(t, Len(t)) = Max({BestOf(s, Len(s)), priced.mark})
             /\ BestTold(t)
<1> DEFINE t == Append(s, priced)
           n == Len(s)
           b == BestOf(s, n)
           c == Max({b, priced.mark})
<1>1. /\ t \in Seq(Minutes) /\ Len(t) = n + 1 /\ t[n + 1] = priced /\ n \in Nat
      /\ \A i \in 1..n : t[i] = s[i]
  OBVIOUS
<1>2. priced.mark \in Nat
  BY DEF Minutes
<1> HIDE DEF t, n
<1>3. \A i \in 0..n : MarksOf(t, i) = MarksOf(s, i)
  <2>1. ASSUME NEW i \in 0..n PROVE \A j \in 1..i : j \in 1..n
    BY <1>1
  <2>2. QED
    BY <1>1, <2>1 DEF MarksOf
<1>4. \A i \in 0..n : BestOf(t, i) = BestOf(s, i)
  BY <1>3 DEF BestOf
<1>5. b \in Nat /\ b \in MarksOf(s, n) /\ \A x \in MarksOf(s, n) : x <= b
  BY <1>1 DEF BestTold, n
<1> HIDE DEF b
<1>6. MarksOf(t, n + 1) = MarksOf(s, n) \cup {priced.mark}
  <2>1. 1..(n + 1) = (1..n) \cup {n + 1}
    BY <1>1
  <2>2. MarksOf(t, n + 1) = {AvgEntry} \cup {t[j].mark : j \in 1..n} \cup {t[n + 1].mark}
    BY <2>1 DEF MarksOf
  <2>3. {t[j].mark : j \in 1..n} = {s[j].mark : j \in 1..n}
    BY <1>1
  <2>4. QED
    BY <1>1, <2>2, <2>3 DEF MarksOf
<1>7. /\ c \in Nat /\ c \in MarksOf(t, n + 1)
      /\ b <= c /\ priced.mark <= c
  <2>1. c = IF priced.mark >= b THEN priced.mark ELSE b
    BY <1>2, <1>5, MaxOfTwo
  <2>2. QED
    BY <1>2, <1>5, <1>6, <2>1
<1> HIDE DEF c
<1>8. MarksOf(t, n + 1) \in SUBSET Int /\ \A x \in MarksOf(t, n + 1) : x <= c
  <2>1. MarksOf(s, n) \in SUBSET Nat
    <3>1. \A j \in 1..n : s[j] \in Minutes
      BY DEF n
    <3>2. \A j \in 1..n : s[j].mark \in Nat
      BY <3>1 DEF Minutes
    <3>3. QED
      BY <3>2, ReplayAssumption DEF MarksOf
  <2>2. QED
    BY <1>2, <1>5, <1>6, <1>7, <2>1
<1>9. BestOf(t, n + 1) = c
  BY <1>7, <1>8, MaxIs DEF BestOf
<1>10. BestTold(t)
  <2>1. \A i \in 0..Len(t) : i \in 0..n \/ i = n + 1
    BY <1>1
  <2>2. QED
    BY <1>3, <1>4, <1>7, <1>8, <1>9, <2>1 DEF BestTold, n
<1>11. QED
  BY <1>1, <1>4, <1>9, <1>10 DEF t, n, c, b

(* What the ladder is asked in a minute, it is asked of a position whose   *)
(* stop is the level.                                                      *)
LEMMA MemoryAsked ==
  ASSUME NEW s \in Seq(Minutes), BestTold(s), NEW e \in BOOLEAN, NEW i \in 1..Len(s)
  PROVE  Asked(MemoryOf(s, e, i))
<1> DEFINE b == BestOf(s, i)
<1>1. s[i] \in Minutes /\ b \in Nat
  BY DEF BestTold
<1>2. s[i].slot \in Nat /\ s[i].mark \in Nat
  BY <1>1, ReplayAssumption DEF Minutes
<1> HIDE DEF b
<1>3. Level(b) \in Nat /\ InitialStop <= Level(b)
  BY <1>1, LevelFacts DEF Calls
<1>4. QED
  BY <1>1, <1>2, <1>3 DEF Asked, MemoryOf, StandsAt, b

(* The stop a ratchet moves to.                                            *)
StopOf(v, p) == Ladder(v.scratch, Targets(v, p.qty))!EffectiveStop(p)

SoldAlike(v, b, p, q) ==
  /\ FiresOf(v, q) # {} =>
       /\ Decide(v, p).reason = Decide(v, q).reason /\ Decide(v, p).qty = 1
       /\ Decide(v, p).reason \notin Holding
  /\ FiresOf(v, q) = {} =>
       \/ Decide(v, p).reason = "STOP_RATCHET" /\ StopOf(v, p) = Level(p.hwm)
       \/ Decide(v, p).reason = "NO_ACTION" /\ Level(p.hwm) = Level(b)

(* One minute: the position that carries its stop along from a best mark b *)
(* is sold when, and for the reason that, the one at the level of the new  *)
(* best is; and if it is not, its stop ends up at that level.              *)
LEMMA OneMinute ==
  ASSUME NEW v, NEW b \in Nat, b >= AvgEntry,
         NEW p, Asked(p), p.stop = Level(b), p.hwm = Max({b, p.mark}),
         NEW q, Asked(q), q.stop = Level(q.hwm), q.hwm = p.hwm, q.mark = p.mark,
         q.slot = p.slot, q.expires = p.expires
  PROVE  SoldAlike(v, b, p, q)
<1>1. PICK mark \in Nat, c \in Nat : mark = p.mark /\ c = p.hwm
  BY DEF Asked
<1>2. c = IF mark >= b THEN mark ELSE b
  <2>1. c = Max({b, mark})
    BY <1>1
  <2>2. QED
    BY <2>1, MaxOfTwo
<1>3. b <= c /\ mark <= c
  BY <1>2
<1>4. /\ Level(b) \in Nat /\ InitialStop <= Level(b)
      /\ Level(c) \in Nat /\ InitialStop <= Level(c) /\ Level(b) <= Level(c)
  BY <1>3, LevelFacts, LevelRises DEF Calls
<1>5. p.mark <= p.stop => p.stop = q.stop
  <2> SUFFICES ASSUME mark <= Level(b) PROVE Level(b) = Level(c)
    BY <1>1
  <2>1. c = b \/ c <= Level(b)
    BY <1>2
  <2>2. QED
    BY <1>3, <2>1, LevelRises
<1>6. /\ FiresOf(v, p) = {} <=> FiresOf(v, q) = {}
      /\ FiresOf(v, p) # {} => Decide(v, p) = Decide(v, q)
  BY <1>5, StopTellsNothing
<1>7. ASSUME FiresOf(v, q) # {}
      PROVE  /\ Decide(v, p).reason = Decide(v, q).reason /\ Decide(v, p).qty = 1
             /\ Decide(v, p).reason \notin Holding
  <2>1. FiresOf(v, p) # {} /\ Decide(v, p).reason = Decide(v, q).reason
    BY <1>6, <1>7
  <2>2. QED
    BY <2>1, DecisionIs
<1>8. ASSUME FiresOf(v, q) = {}
      PROVE  \/ /\ Decide(v, p).reason = "STOP_RATCHET"
                /\ StopOf(v, p) = Level(c)
             \/ Decide(v, p).reason = "NO_ACTION" /\ Level(c) = Level(b)
  <2>1. Decide(v, p).reason = IF Level(c) > Level(b) THEN "STOP_RATCHET" ELSE "NO_ACTION"
    BY <1>1, <1>6, <1>8, DecisionIs
  <2>2. StopOf(v, p) = Level(c)
    BY <1>1, <1>4, StopAddsNothing DEF Asked, StopOf
  <2>3. QED
    BY <1>4, <2>1, <2>2
<1>9. QED
  BY <1>1, <1>7, <1>8 DEF SoldAlike

(* A minute more adds at most itself to the minutes that sell.             *)
LEMMA SalesGrow ==
  ASSUME NEW s \in Seq(Minutes), NEW priced \in Minutes, BestTold(s), NEW e, NEW v
  PROVE  LET t == Append(s, priced)
             sells == priced.mark > 0 /\ FiresOf(v, MemoryOf(t, e, Len(t))) # {}
         IN  /\ \A i \in 1..Len(s) : MemoryOf(t, e, i) = MemoryOf(s, e, i)
             /\ SalesOf(t, e, v) = SalesOf(s, e, v) \cup (IF sells THEN {Len(t)} ELSE {})
<1> DEFINE t == Append(s, priced)
           n == Len(s)
<1>1. /\ t \in Seq(Minutes) /\ Len(t) = n + 1 /\ t[n + 1] = priced /\ n \in Nat
      /\ \A i \in 1..n : t[i] = s[i] /\ BestOf(t, i) = BestOf(s, i)
  <2>1. \A i \in 1..n : i \in 0..n
    OBVIOUS
  <2>2. /\ t \in Seq(Minutes) /\ Len(t) = n + 1 /\ t[Len(t)] = priced
        /\ \A i \in 1..n : t[i] = s[i]
        /\ \A i \in 0..n : BestOf(t, i) = BestOf(s, i)
    BY BestGrows
  <2>3. n \in Nat
    OBVIOUS
  <2> HIDE DEF t, n
  <2>4. QED
    BY <2>1, <2>2, <2>3
<1> HIDE DEF t, n
<1>2. \A i \in 1..n : MemoryOf(t, e, i) = MemoryOf(s, e, i)
  BY <1>1 DEF MemoryOf
<1>3. \A i \in 1..n : i \in SalesOf(t, e, v) <=> i \in SalesOf(s, e, v)
  BY <1>1, <1>2 DEF SalesOf, n
<1>4. n + 1 \in SalesOf(t, e, v) <=> priced.mark > 0 /\ FiresOf(v, MemoryOf(t, e, n + 1)) # {}
  BY <1>1 DEF SalesOf
<1>5. SalesOf(t, e, v) \in SUBSET ((1..n) \cup {n + 1}) /\ SalesOf(s, e, v) \in SUBSET (1..n)
  BY <1>1 DEF SalesOf, n
<1>6. QED
  BY <1>1, <1>2, <1>3, <1>4, <1>5 DEF t, n

(* What comes last in a set of minutes changes nothing of its first.       *)
LEMMA FirstStands ==
  ASSUME NEW n \in Nat, NEW S \in SUBSET (1..n), S # {}, NEW T, T = S \cup {n + 1} \/ T = S
  PROVE  Min(T) = Min(S) /\ Min(S) \in 1..n
<1>1. S \in SUBSET Nat /\ T \in SUBSET Nat /\ T # {} /\ S \in SUBSET T
  <2>1. CASE T = S
    BY <2>1
  <2>2. CASE T = S \cup {n + 1}
    BY <2>2
  <2>3. QED
    BY <2>1, <2>2
<1>2. /\ Min(S) \in S /\ \A y \in S : Min(S) <= y
      /\ Min(T) \in T /\ \A y \in T : Min(T) <= y
  BY <1>1, MinIsLeast
<1> PICK x \in S, y \in T : x = Min(S) /\ y = Min(T)
  BY <1>2
<1>3. y <= x /\ x \in 1..n /\ y \in Nat
  BY <1>1, <1>2
<1>4. y \in S
  BY <1>3
<1>5. x <= y
  BY <1>2, <1>4
<1>6. QED
  BY <1>3, <1>5

(* Where a variant stands after a path.                                    *)
Sold(w, s, e, v) ==
  LET i == Min(SalesOf(s, e, v))
  IN  w.qty = 0 /\ w.reason = Decide(v, MemoryOf(s, e, i)).reason /\ w.sold = Fill(s[i].mark)

Held(w, s) ==
  /\ w = [qty |-> 1, stop |-> w.stop, hwm |-> w.hwm, reason |-> "none", sold |-> 0]
  /\ w.stop = Level(BestOf(s, Len(s))) /\ w.hwm = BestOf(s, Len(s))

PositionStands(w, s, e, v) == IF SalesOf(s, e, v) # {} THEN Sold(w, s, e, v) ELSE Held(w, s)

Ended(w, s, e, v) ==
  IF SalesOf(s, e, v) # {} THEN Sold(w, s, e, v) ELSE w.qty = 0 /\ w.reason = "EOD_FORCED"

LEMMA WalkedStands ==
  ASSUME path \in Seq(Minutes), BestTold(path), expires \in BOOLEAN,
         NEW v \in Variants, PositionStands(walk[v], path, expires, v),
         NEW slot \in 0..LastSlot, NEW mark \in Nat
  PROVE  PositionStands(Walked(v, slot, mark), Append(path, [slot |-> slot, mark |-> mark]),
                        expires, v)
<1> DEFINE priced == [slot |-> slot, mark |-> mark]
           t == Append(path, priced)
           n == Len(path)
           w == walk[v]
           old == SalesOf(path, expires, v)
           new == SalesOf(t, expires, v)
           b == BestOf(path, n)
           c == Max({b, mark})
<1>1. priced \in Minutes /\ priced.mark = mark /\ priced.slot = slot
  BY DEF Minutes
<1> HIDE DEF priced
<1>2. /\ t \in Seq(Minutes) /\ Len(t) = n + 1 /\ t[n + 1] = priced /\ n \in Nat
      /\ \A i \in 1..n : t[i] = path[i]
      /\ BestOf(t, n + 1) = c /\ BestTold(t)
  <2>1. /\ t \in Seq(Minutes) /\ Len(t) = n + 1 /\ t[Len(t)] = priced
        /\ \A i \in 1..n : t[i] = path[i]
        /\ BestOf(t, Len(t)) = Max({b, priced.mark}) /\ BestTold(t)
    BY <1>1, BestGrows
  <2>2. n \in Nat
    OBVIOUS
  <2> HIDE DEF t, n, b
  <2>3. QED
    BY <1>1, <2>1, <2>2
<1>3. /\ \A i \in 1..n : MemoryOf(t, expires, i) = MemoryOf(path, expires, i)
      /\ new = old \cup (IF mark > 0 /\ FiresOf(v, MemoryOf(t, expires, n + 1)) # {}
                         THEN {n + 1} ELSE {})
  <2>1. /\ \A i \in 1..n : MemoryOf(t, expires, i) = MemoryOf(path, expires, i)
        /\ new = old \cup (IF priced.mark > 0 /\ FiresOf(v, MemoryOf(t, expires, Len(t))) # {}
                           THEN {Len(t)} ELSE {})
    BY <1>1, SalesGrow
  <2> HIDE DEF t, n, old, new
  <2>2. QED
    BY <1>1, <1>2, <2>1
<1>4. old \in SUBSET (1..n)
  BY DEF SalesOf
<1>5. b \in Nat /\ AvgEntry <= b
  BY <1>2 DEF BestTold, MarksOf
<1>6. MemoryOf(t, expires, n + 1) = StandsAt(Level(c), c, priced, expires)
  BY <1>2 DEF MemoryOf
<1> HIDE DEF t, n, w, old, new, b
<1>7. CASE old # {}
  <2>1. Sold(w, path, expires, v)
    BY <1>7 DEF PositionStands, w, old
  <2>2. Walked(v, slot, mark) = w
    BY <2>1 DEF Walked, Sold, w
  <2>3. new # {} /\ Min(new) = Min(old) /\ Min(old) \in 1..n
    BY <1>2, <1>3, <1>4, <1>7, FirstStands
  <2>4. Sold(w, t, expires, v)
    BY <1>2, <1>3, <2>1, <2>3 DEF Sold, old, new
  <2>5. QED
    BY <2>2, <2>3, <2>4 DEF PositionStands, t, priced, new
<1>8. CASE old = {}
  <2>1. /\ w = [qty |-> 1, stop |-> w.stop, hwm |-> w.hwm, reason |-> "none", sold |-> 0]
        /\ w.stop = Level(b) /\ w.hwm = b
    BY <1>8 DEF PositionStands, Held, w, old, b, n
  <2> DEFINE p == Seen(w, slot, mark)
             q == MemoryOf(t, expires, n + 1)
             d == Decide(v, p)
  <2>2. p = StandsAt(Level(b), c, priced, expires) /\ w.qty = 1 /\ p.qty = 1 /\ p.hwm = c
    <3>1. w.qty = 1
      BY <2>1
    <3>2. Best(w, mark) = c
      BY <2>1 DEF Best
    <3> HIDE DEF c
    <3>3. p = [qty |-> 1, stop |-> w.stop, hwm |-> c, mark |-> mark, taken |-> {}, day |-> 0,
               slot |-> slot, quiet |-> FALSE, expires |-> expires]
      BY <3>1, <3>2 DEF Seen
    <3>4. QED
      BY <1>1, <2>1, <3>1, <3>3 DEF StandsAt
  <2>3. CASE mark = 0
    <3>1. Walked(v, slot, mark) = w
      BY <2>3 DEF Walked, w
    <3>2. new = {}
      BY <1>3, <1>8, <2>3
    <3>3. c = b
      BY <1>5, <2>3, MaxOfTwo
    <3>4. Held(w, t)
      BY <1>2, <2>1, <3>3 DEF Held
    <3>5. QED
      BY <3>1, <3>2, <3>4 DEF PositionStands, t, priced, new
  <2>4. CASE mark > 0
    <3>1. /\ FiresOf(v, q) # {} =>
               d.reason = Decide(v, q).reason /\ d.qty = 1 /\ d.reason \notin Holding
          /\ FiresOf(v, q) = {} =>
               \/ /\ d.reason = "STOP_RATCHET"
                  /\ StopOf(v, p) = Level(c)
               \/ d.reason = "NO_ACTION" /\ Level(c) = Level(b)
      <4>1. Asked(q)
        <5>1. BestTold(t) /\ n + 1 \in 1..Len(t)
          BY <1>2
        <5>2. QED
          BY <1>2, <5>1, MemoryAsked
      <4>2. /\ q.stop = Level(c) /\ q.hwm = c /\ q.mark = mark /\ q.slot = slot
            /\ q.expires = expires
        <5>1. q = StandsAt(Level(c), c, priced, expires)
          BY <1>6
        <5> HIDE DEF q, c
        <5>2. QED
          BY <1>1, <5>1 DEF StandsAt
      <4> HIDE DEF q
      <4>3. c \in Nat /\ b <= c
        BY <1>5, MaxOfTwo
      <4> HIDE DEF c
      <4>4. /\ p.stop = Level(b) /\ p.hwm = c /\ p.mark = mark /\ p.slot = slot
            /\ p.expires = expires
            /\ p.qty = 1 /\ p.taken = {} /\ p.day = 0 /\ p.quiet = FALSE
        BY <1>1, <2>2 DEF StandsAt
      <4> HIDE DEF p, d
      <4>5. Level(b) \in Nat /\ InitialStop <= Level(b) /\ Level(b) <= Level(c)
        BY <1>5, <4>3, LevelFacts, LevelRises DEF Calls
      <4>6. Asked(p)
        BY <4>3, <4>4, <4>5, ReplayAssumption DEF Asked
      <4>7. p.hwm = Max({b, p.mark}) /\ b >= AvgEntry
        BY <1>5, <4>4 DEF c
      <4>8. /\ q.stop = Level(q.hwm) /\ q.hwm = p.hwm /\ q.mark = p.mark
            /\ q.slot = p.slot /\ q.expires = p.expires
            /\ b \in Nat /\ p.stop = Level(b)
        BY <1>5, <4>2, <4>4
      <4>9. SoldAlike(v, b, p, q)
        BY <4>1, <4>6, <4>7, <4>8, OneMinute
      <4>10. QED
        BY <4>4, <4>9 DEF SoldAlike, d
    <3> HIDE DEF q, c
    <3>2. Walked(v, slot, mark) =
            IF d.reason = "NO_ACTION" THEN [w EXCEPT !.hwm = p.hwm]
            ELSE IF d.reason = "STOP_RATCHET"
            THEN [w EXCEPT !.hwm = p.hwm,
                           !.stop = StopOf(v, p)]
            ELSE [w EXCEPT !.hwm = p.hwm, !.qty = w.qty - d.qty, !.reason = d.reason,
                           !.sold = Fill(mark)]
      BY <2>2, <2>4 DEF Walked, StopOf, w
    <3> HIDE DEF p, d
    <3>3. CASE FiresOf(v, q) # {}
      <4>1. new = {n + 1}
        BY <1>3, <1>8, <2>4, <3>3 DEF q
      <4>2. Min(new) = n + 1
        <5>1. new \in SUBSET Nat /\ new # {}
          BY <1>2, <4>1
        <5>2. QED
          BY <4>1, <5>1, MinIsLeast
      <4>3. Walked(v, slot, mark) =
              [w EXCEPT !.hwm = p.hwm, !.qty = w.qty - d.qty, !.reason = d.reason,
                        !.sold = Fill(mark)]
        BY <3>1, <3>2, <3>3 DEF Holding
      <4>4. /\ Walked(v, slot, mark).qty = 0 /\ Walked(v, slot, mark).reason = d.reason
            /\ Walked(v, slot, mark).sold = Fill(mark)
        BY <2>1, <3>1, <3>3, <4>3
      <4>5. Sold(Walked(v, slot, mark), t, expires, v)
        BY <1>1, <1>2, <3>1, <3>3, <4>2, <4>4 DEF Sold, new, q
      <4>6. QED
        BY <4>1, <4>5 DEF PositionStands, t, priced, new
    <3>4. CASE FiresOf(v, q) = {}
      <4>1. new = {}
        BY <1>3, <1>8, <3>4 DEF q
      <4>2. /\ Walked(v, slot, mark) =
                 [qty |-> 1, stop |-> Walked(v, slot, mark).stop,
                  hwm |-> Walked(v, slot, mark).hwm, reason |-> "none", sold |-> 0]
            /\ Walked(v, slot, mark).stop = Level(c) /\ Walked(v, slot, mark).hwm = c
        <5>1. CASE d.reason = "NO_ACTION" /\ Level(c) = Level(b)
          BY <2>1, <2>2, <3>2, <5>1
        <5>2. CASE /\ d.reason = "STOP_RATCHET"
                   /\ StopOf(v, p) = Level(c)
          <6>1. Walked(v, slot, mark) = [w EXCEPT !.hwm = c, !.stop = Level(c)]
            BY <2>2, <3>2, <5>2
          <6>2. DOMAIN w = {"qty", "stop", "hwm", "reason", "sold"}
            BY <2>1
          <6>3. w.qty = 1 /\ w.reason = "none" /\ w.sold = 0
            BY <2>1
          <6>4. Walked(v, slot, mark) =
                  [qty |-> w.qty, stop |-> Level(c), hwm |-> c, reason |-> w.reason,
                   sold |-> w.sold]
            BY <6>1, <6>2
          <6>5. QED
            BY <6>3, <6>4
        <5>3. QED
          BY <3>1, <3>4, <5>1, <5>2
      <4>3. Held(Walked(v, slot, mark), t)
        BY <1>2, <4>2 DEF Held
      <4>4. QED
        BY <4>1, <4>3 DEF PositionStands, t, priced, new
    <3>5. QED
      BY <3>3, <3>4
  <2>5. mark = 0 \/ mark > 0
    OBVIOUS
  <2>6. QED
    BY <2>3, <2>4, <2>5
<1>9. QED
  BY <1>7, <1>8

(* ReplayIsTheLadder is not inductive, for it says nothing of a position   *)
(* still held.  What makes it so: a variant that has not sold stands at    *)
(* the best mark there was and at the level that mark calls for.           *)
PathTyped ==
  /\ path \in Seq(Minutes) /\ expires \in BOOLEAN /\ over \in BOOLEAN
  /\ walk = [v \in Variants |-> walk[v]]

VariantsStand ==
  \A v \in Variants : IF over THEN Ended(walk[v], path, expires, v)
                      ELSE PositionStands(walk[v], path, expires, v)

ReplayInv == PathTyped /\ BestTold(path) /\ VariantsStand

LEMMA ReplayInitInv == ReplayInit => ReplayInv
<1> SUFFICES ASSUME ReplayInit PROVE ReplayInv
  OBVIOUS
<1> USE DEF ReplayInit
<1>1. PathTyped
  <2>1. path \in Seq(Minutes)
    OBVIOUS
  <2>2. walk = [v \in Variants |-> walk[v]]
    OBVIOUS
  <2>3. expires \in BOOLEAN /\ over \in BOOLEAN
    OBVIOUS
  <2>4. QED
    BY <2>1, <2>2, <2>3 DEF PathTyped
<1>2. BestTold(path) /\ BestOf(path, Len(path)) = AvgEntry
  BY BestAtEntry
<1>3. ASSUME NEW v \in Variants PROVE PositionStands(walk[v], path, expires, v)
  <2>1. SalesOf(path, expires, v) = {}
    BY DEF SalesOf
  <2>2. walk[v] = Fresh
    OBVIOUS
  <2>3. Held(walk[v], path)
    BY <1>2, <2>2, LevelAtEntry DEF Held, Fresh
  <2>4. QED
    BY <2>1, <2>3 DEF PositionStands
<1>4. QED
  BY <1>1, <1>2, <1>3 DEF ReplayInv, VariantsStand

LEMMA MinuteInv ==
  ASSUME ReplayInv, NEW slot \in 0..LastSlot, NEW prices \in Ticks, Minute(slot, prices)
  PROVE  ReplayInv'
<1> DEFINE mark == prices[Len(prices)]
           priced == [slot |-> slot, mark |-> mark]
<1>1. mark \in Nat
  <2>1. prices \in Seq(Nat) /\ prices # <<>>
    BY ReplayAssumption
  <2>2. Len(prices) \in 1..Len(prices)
    BY <2>1
  <2>3. QED
    BY <2>1, <2>2
<1>2. /\ ~over /\ path' = Append(path, priced) /\ expires' = expires /\ over' = over
      /\ walk' = [v \in Variants |-> Walked(v, slot, mark)]
  BY DEF Minute
<1> HIDE DEF mark
<1>3. priced \in Minutes
  BY <1>1 DEF Minutes
<1>4. /\ path \in Seq(Minutes) /\ expires \in BOOLEAN /\ over \in BOOLEAN /\ BestTold(path)
      /\ \A v \in Variants : PositionStands(walk[v], path, expires, v)
  BY <1>2 DEF ReplayInv, PathTyped, VariantsStand
<1>5. path' \in Seq(Minutes) /\ BestTold(path')
  BY <1>2, <1>3, <1>4, BestGrows
<1>6. ASSUME NEW v \in Variants PROVE PositionStands(walk'[v], path', expires', v)
  <2>1. PositionStands(Walked(v, slot, mark), Append(path, priced), expires, v)
    BY <1>1, <1>4, WalkedStands
  <2>2. walk'[v] = Walked(v, slot, mark)
    BY <1>2
  <2>3. QED
    BY <1>2, <2>1, <2>2
<1>7. PathTyped'
  BY <1>2, <1>4, <1>5 DEF PathTyped
<1>8. QED
  BY <1>2, <1>5, <1>6, <1>7 DEF ReplayInv, VariantsStand

LEMMA PathEndsInv ==
  ASSUME ReplayInv, PathEnds
  PROVE  ReplayInv'
<1>1. /\ ~over /\ over' = TRUE /\ path' = path /\ expires' = expires
      /\ walk' = [v \in Variants |-> Forced(walk[v])]
      /\ PathTyped /\ BestTold(path) /\ \A v \in Variants : PositionStands(walk[v], path, expires, v)
  BY DEF PathEnds, ReplayInv, VariantsStand
<1>2. ASSUME NEW v \in Variants PROVE Ended(Forced(walk[v]), path, expires, v)
  <2>1. CASE SalesOf(path, expires, v) # {}
    BY <1>1, <2>1 DEF PositionStands, Ended, Sold, Forced
  <2>2. CASE SalesOf(path, expires, v) = {}
    <3>1. walk[v] = [qty |-> 1, stop |-> walk[v].stop, hwm |-> walk[v].hwm, reason |-> "none",
                     sold |-> 0]
      BY <1>1, <2>2 DEF PositionStands, Held
    <3>2. Forced(walk[v]).qty = 0 /\ Forced(walk[v]).reason = "EOD_FORCED"
      BY <3>1 DEF Forced
    <3>3. QED
      BY <2>2, <3>2 DEF Ended
  <2>3. QED
    BY <2>1, <2>2
<1>3. PathTyped'
  BY <1>1 DEF PathTyped
<1>4. ASSUME NEW v \in Variants PROVE Ended(walk'[v], path', expires', v)
  BY <1>1, <1>2
<1>5. BestTold(path')
  BY <1>1
<1>6. QED
  BY <1>1, <1>3, <1>4, <1>5 DEF ReplayInv, VariantsStand

LEMMA ReplayStep == ReplayInv /\ [ReplayNext]_replay_vars => ReplayInv'
<1> SUFFICES ASSUME ReplayInv, [ReplayNext]_replay_vars PROVE ReplayInv'
  OBVIOUS
<1>1. ASSUME NEW slot \in 0..LastSlot, NEW prices \in Ticks, Minute(slot, prices)
      PROVE  ReplayInv'
  BY <1>1, MinuteInv
<1>2. CASE PathEnds
  BY <1>2, PathEndsInv
<1>3. CASE UNCHANGED replay_vars
  BY <1>3 DEF replay_vars, ReplayInv, PathTyped, VariantsStand
<1>4. QED
  BY <1>1, <1>2, <1>3 DEF ReplayNext

LEMMA ExitsAre ==
  ASSUME ReplayInv, NEW v
  PROVE  /\ Exits(v) = SalesOf(path, expires, v) /\ Exits(v) \in SUBSET Nat
         /\ \A i \in 1..Len(path) : Memoryless(i) = MemoryOf(path, expires, i)
<1>1. \A i \in 1..Len(path) : Memoryless(i) = MemoryOf(path, expires, i)
  BY DEF Memoryless, MemoryOf, StandsAt, BestSoFar, BestOf, MarksOf
<1>2. ASSUME NEW i \in 1..Len(path)
      PROVE  Decide(v, Memoryless(i)).reason \notin Holding
               <=> FiresOf(v, MemoryOf(path, expires, i)) # {}
  <2>1. Asked(MemoryOf(path, expires, i))
    BY MemoryAsked DEF ReplayInv, PathTyped
  <2>2. Memoryless(i) = MemoryOf(path, expires, i)
    BY <1>1
  <2>3. QED
    BY <2>1, <2>2, DecisionIs DEF Holding
<1>3. QED
  BY <1>1, <1>2 DEF Exits, SalesOf, Holding

(* A variant sells where, and why, the ladder says of the best mark alone, *)
(* and with a rule less never sooner: what the sweep compares is its       *)
(* variants' rules.                                                        *)
THEOREM ReplayStands == ReplaySpec => []ReplayIsTheLadder
<1>1. ReplayInv => ReplayIsTheLadder
  <2> SUFFICES ASSUME ReplayInv, NEW v \in Variants
               PROVE  /\ IF Exits(v) # {}
                         THEN /\ walk[v].reason = Decide(v, Memoryless(Min(Exits(v)))).reason
                              /\ walk[v].sold = Fill(path[Min(Exits(v))].mark)
                         ELSE walk[v].reason = (IF over THEN "EOD_FORCED" ELSE "none")
                      /\ \A u \in Variants :
                           u.scratch >= v.scratch /\ (v.guard => u.guard) /\ Exits(u) # {}
                             => Exits(v) # {} /\ Min(Exits(v)) <= Min(Exits(u))
    BY DEF ReplayIsTheLadder
  <2>1. ASSUME Exits(v) # {}
        PROVE  /\ walk[v].reason = Decide(v, Memoryless(Min(Exits(v)))).reason
               /\ walk[v].sold = Fill(path[Min(Exits(v))].mark)
    <3>1. Sold(walk[v], path, expires, v)
      BY <2>1, ExitsAre DEF ReplayInv, VariantsStand, PositionStands, Ended
    <3>2. Min(Exits(v)) \in 1..Len(path)
      BY <2>1, ExitsAre, MinIsLeast DEF Exits
    <3>3. QED
      BY <2>1, <3>1, <3>2, ExitsAre DEF Sold
  <2>2. ASSUME Exits(v) = {}
        PROVE  walk[v].reason = (IF over THEN "EOD_FORCED" ELSE "none")
    <3>1. SalesOf(path, expires, v) = {}
      BY <2>2, ExitsAre
    <3>2. CASE over
      BY <3>1, <3>2 DEF ReplayInv, VariantsStand, Ended
    <3>3. CASE ~over
      <4>1. Held(walk[v], path)
        BY <3>1, <3>3 DEF ReplayInv, VariantsStand, PositionStands
      <4>2. walk[v] = [qty |-> 1, stop |-> walk[v].stop, hwm |-> walk[v].hwm,
                       reason |-> "none", sold |-> 0]
        BY <4>1 DEF Held
      <4>3. walk[v].reason = "none"
        BY <4>2
      <4>4. QED
        BY <3>3, <4>3
    <3>4. QED
      BY <3>2, <3>3
  <2>3. ASSUME NEW u \in Variants, u.scratch >= v.scratch, v.guard => u.guard, Exits(u) # {}
        PROVE  Exits(v) # {} /\ Min(Exits(v)) <= Min(Exits(u))
    <3>1. \A i \in 1..Len(path) : FiresOf(u, MemoryOf(path, expires, i))
                                    \in SUBSET FiresOf(v, MemoryOf(path, expires, i))
      <4>1. \A i \in 1..Len(path) : Asked(MemoryOf(path, expires, i))
        BY MemoryAsked DEF ReplayInv, PathTyped
      <4>2. u.scratch \in Nat /\ v.scratch \in Nat
        BY ReplayAssumption
      <4>3. QED
        BY <2>3, <4>1, <4>2, FewerRules
    <3>2. Exits(u) \in SUBSET Exits(v)
      BY <3>1, ExitsAre DEF SalesOf
    <3>3. Min(Exits(u)) \in Exits(u)
      BY <2>3, ExitsAre, MinIsLeast
    <3>4. QED
      BY <3>2, <3>3, ExitsAre, MinIsLeast
  <2>4. QED
    BY <2>1, <2>2, <2>3
<1>2. QED
  BY <1>1, ReplayInitInv, ReplayStep, PTL DEF ReplaySpec

=============================================================================
