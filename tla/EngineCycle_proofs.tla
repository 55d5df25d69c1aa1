------------------------- MODULE EngineCycle_proofs -------------------------
(***************************************************************************)
(* The scarcity limits of the engine cycle for any watchlist, stride, caps *)
(* and cooldown: entries are judged against a snapshot of the account, and *)
(* what makes that sound is how the snapshot may differ from the database. *)
(* In the second half the same for the money: sums of what the open trades *)
(* cost, and the exposure cap that is kept to within one fill's slippage.  *)
(***************************************************************************)
EXTENDS EngineCycle, FiniteSetTheorems, WellFoundedInduction, TLAPS

IsAccount(a) ==
  /\ a = [halts |-> a.halts, breached |-> a.breached, equity |-> a.equity,
          open |-> a.open, count |-> a.count, exposure |-> a.exposure,
          since_close |-> a.since_close]
  /\ a.halts \subseteq Halts /\ a.count \in Nat

Shape ==
  /\ open \in [Underlyings -> Nat] /\ since_close \in [Underlyings -> Nat]
  /\ IsFiniteSet(OpenTrades) /\ IsAccount(account) /\ halts \subseteq Halts
  /\ pos \in Nat /\ unswept \in Nat /\ poisoned \in BOOLEAN

(* Before an entry the snapshot misses no open trade, counts no fewer than *)
(* there are, and has the right age of the last close of every underlying  *)
(* it takes for free: what a sweep closes meanwhile it takes for open.     *)
SnapshotHolds ==
  pc \in {"sweep", "entry"} /\ ~poisoned =>
    /\ Held \subseteq account.open
    /\ Cardinality(OpenTrades) <= account.count
    /\ \A u \in Underlyings : u \in account.open \/ since_close[u] = account.since_close[u]

(* A halt the snapshot does not show was engaged within the cycle.         *)
HaltsSeen ==
  pc \in {"sweep", "entry", "filled"} => halts \subseteq fresh \cup account.halts

(* How many ticks may have gone by without a sweep, position by position.  *)
SweepsCounted ==
  /\ pc = "sweep" => pos % Stride = 0
  /\ pc \in {"entry", "filled"} => pos > 0
  /\ ~poisoned => /\ pc = "entry"  => unswept = (pos - 1) % Stride
                  /\ pc = "filled" => unswept = ((pos - 1) % Stride) + 1
                  /\ pc = "update" => unswept = 0
                  /\ unswept <= Stride
  /\ pc = "filled" => ~poisoned

IInv ==
  /\ Shape /\ SnapshotHolds /\ HaltsSeen /\ SweepsCounted
  /\ OneOpenPerUnderlying /\ MaxConcurrentHeld

-----------------------------------------------------------------------------
(* Facts of arithmetic: counting modulo any divisor.                       *)
LEMMA DivMod ==
  ASSUME NEW m \in Nat, NEW d \in Nat, d > 0
  PROVE  m % d \in 0..(d-1) /\ m \div d \in Int /\ m = d * (m \div d) + (m % d)
<1>1. m % d \in 0..(d-1) /\ m \div d \in Int
  OBVIOUS
<1>2. m = d * (m \div d) + (m % d)
  OBVIOUS
<1>3. QED
  BY <1>1, <1>2

LEMMA MulMono ==
  ASSUME NEW d \in Nat, NEW a \in Int, NEW b \in Int, a < b
  PROVE  d * a + d <= d * b
<1>1. d * (a + 1) <= d * b
  OBVIOUS
<1>2. d * (a + 1) = d * a + d
  OBVIOUS
<1>3. QED
  BY <1>1, <1>2

LEMMA ModUnique ==
  ASSUME NEW d \in Nat, d > 0, NEW q \in Int, NEW r \in 0..(d-1), NEW m \in Nat, m = d * q + r
  PROVE  m % d = r
<1> DEFINE p == m \div d
           s == m % d
<1>1. p \in Int /\ s \in 0..(d-1) /\ m = d * p + s
  BY DivMod
<1>2. d * p + s = d * q + r
  BY <1>1
<1> HIDE DEF p, s
<1>3. d * p \in Int /\ d * q \in Int
  BY <1>1
<1>4. ~(p < q)
  <2>1. p < q => d * p + d <= d * q
    BY <1>1, MulMono
  <2>2. QED
    BY <2>1, <1>1, <1>2, <1>3
<1>5. ~(q < p)
  <2>1. q < p => d * q + d <= d * p
    BY <1>1, MulMono
  <2>2. QED
    BY <2>1, <1>1, <1>2, <1>3
<1>6. p = q
  BY <1>1, <1>4, <1>5
<1>7. s = r
  BY <1>1, <1>2, <1>3, <1>6
<1>8. QED
  BY <1>7 DEF s

LEMMA ModStep ==
  ASSUME NEW n \in Nat, NEW d \in Nat, d > 0
  PROVE  /\ n % d \in 0..(d-1)
         /\ (n + 1) % d = IF (n % d) + 1 = d THEN 0 ELSE (n % d) + 1
<1> DEFINE q == n \div d
           r == n % d
<1>1. q \in Int /\ r \in 0..(d-1) /\ n = d * q + r
  BY DivMod
<1> HIDE DEF q, r
<1>2. ASSUME r + 1 = d PROVE (n + 1) % d = 0
  <2>1. d * (q + 1) = d * q + d /\ d * q \in Int
    BY <1>1
  <2>2. n + 1 = d * (q + 1) + 0
    BY <1>1, <1>2, <2>1
  <2>3. q + 1 \in Int /\ 0 \in 0..(d-1) /\ n + 1 \in Nat
    BY <1>1
  <2>4. QED
    BY <2>2, <2>3, ModUnique
<1>3. ASSUME r + 1 # d PROVE (n + 1) % d = r + 1
  <2>1. d * q \in Int
    BY <1>1
  <2>2. n + 1 = d * q + (r + 1)
    BY <1>1, <2>1
  <2>3. r + 1 \in 0..(d-1) /\ n + 1 \in Nat
    BY <1>1, <1>3
  <2>4. QED
    BY <1>1, <2>2, <2>3, ModUnique
<1>4. QED
  BY <1>1, <1>2, <1>3 DEF r
-----------------------------------------------------------------------------
(* Fewer open trades of each underlying are fewer open trades.             *)
LEMMA FewerTrades ==
  ASSUME IInv, open' \in [Underlyings -> Nat],
         \A u \in Underlyings : open'[u] <= open[u]
  PROVE  /\ OpenTrades' \subseteq OpenTrades /\ Held' \subseteq Held
         /\ IsFiniteSet(OpenTrades') /\ Cardinality(OpenTrades') <= Cardinality(OpenTrades)
         /\ OneOpenPerUnderlying' /\ MaxConcurrentHeld'
<1>1. open \in [Underlyings -> Nat] /\ IsFiniteSet(OpenTrades)
  BY DEF IInv, Shape
<1>2. OpenTrades' \subseteq OpenTrades
  BY <1>1 DEF OpenTrades
<1>3. Held' \subseteq Held
  BY <1>1 DEF Held
<1>4. IsFiniteSet(OpenTrades') /\ Cardinality(OpenTrades') <= Cardinality(OpenTrades)
  BY <1>1, <1>2, FS_Subset
<1>5. OneOpenPerUnderlying'
  BY <1>1 DEF IInv, OneOpenPerUnderlying
<1>6. MaxConcurrentHeld'
  <2>1. /\ Cardinality(OpenTrades) \in Nat /\ Cardinality(OpenTrades') \in Nat
        /\ MaxConcurrent \in Nat
    BY <1>1, <1>4, FS_CardinalityType, CapsAssumption
  <2>2. QED
    BY <1>4, <2>1 DEF IInv, MaxConcurrentHeld
<1>7. QED
  BY <1>2, <1>3, <1>4, <1>5, <1>6

(* The snapshot just read.                                                 *)
LEMMA AccountStateFacts ==
  ASSUME IInv
  PROVE  /\ IsAccount(AccountState) /\ AccountState.halts = halts
         /\ AccountState.open = Held /\ AccountState.count = Cardinality(OpenTrades)
         /\ AccountState.since_close = since_close
<1>1. Cardinality(OpenTrades) \in Nat
  BY FS_CardinalityType DEF IInv, Shape
<1>2. QED
  BY <1>1 DEF AccountState, IsAccount, IInv, Shape

LEMMA NoAccountIsOne == IsAccount(NoAccount)
  BY DEF NoAccount, IsAccount, Halts

LEMMA InitIInv == Init => IInv
<1> SUFFICES ASSUME Init PROVE IInv
  OBVIOUS
<1>1. /\ open = [u \in Underlyings |-> 0] /\ halts = {} /\ pc = "idle" /\ pos = 0
      /\ since_close = [u \in Underlyings |-> Cooldown]
      /\ account = NoAccount /\ poisoned = FALSE /\ unswept = 0
  BY DEF Init
<1>2. OpenTrades = {}
  BY <1>1 DEF OpenTrades
<1>3. Stride \in Nat /\ Cooldown \in Nat /\ MaxConcurrent \in Nat
  BY CycleAssumption, CapsAssumption
<1>4. IsFiniteSet(OpenTrades) /\ Cardinality(OpenTrades) = 0
  BY <1>2, FS_EmptySet
<1>5. Shape
  BY <1>1, <1>3, <1>4, NoAccountIsOne DEF Shape
<1>6. SnapshotHolds /\ HaltsSeen /\ SweepsCounted
  BY <1>1, <1>3 DEF SnapshotHolds, HaltsSeen, SweepsCounted
<1>7. OneOpenPerUnderlying /\ MaxConcurrentHeld
  BY <1>1, <1>3, <1>4 DEF OneOpenPerUnderlying, MaxConcurrentHeld
<1>8. QED
  BY <1>5, <1>6, <1>7 DEF IInv

-----------------------------------------------------------------------------
LEMMA StartCycleKeeps == ASSUME IInv, StartCycle PROVE IInv'
<1>1. /\ account' = AccountState /\ pc' = "sweep" /\ pos' = 0 /\ unswept' = 0
      /\ poisoned' \in BOOLEAN /\ UNCHANGED <<db, book>>
  BY DEF StartCycle
<1>2. UNCHANGED <<halts, open, since_close>>
  BY <1>1 DEF db, book
<1>3. OpenTrades' = OpenTrades /\ Held' = Held
  BY <1>2 DEF OpenTrades, Held
<1>4. Shape'
  BY <1>1, <1>2, <1>3, AccountStateFacts DEF IInv, Shape
<1>5. SnapshotHolds'
  <2>1. Cardinality(OpenTrades) \in Nat
    BY FS_CardinalityType DEF IInv, Shape
  <2>2. QED
    BY <1>1, <1>2, <1>3, <2>1, AccountStateFacts DEF SnapshotHolds
<1>6. HaltsSeen'
  BY <1>1, <1>2, AccountStateFacts DEF HaltsSeen
<1>7. SweepsCounted'
  <2>1. Stride \in Nat /\ Stride > 0
    BY CycleAssumption
  <2>2. 0 % Stride = 0 /\ 0 <= Stride
    BY <2>1
  <2>3. QED
    BY <1>1, <2>2 DEF SweepsCounted
<1>8. OneOpenPerUnderlying' /\ MaxConcurrentHeld'
  BY <1>2, <1>3 DEF IInv, OneOpenPerUnderlying, MaxConcurrentHeld
<1>9. QED
  BY <1>4, <1>5, <1>6, <1>7, <1>8 DEF IInv

(* A sweep only takes trades away, and of underlyings that were held.      *)
LEMMA SweepFacts ==
  ASSUME IInv, SweepExits
  PROVE  /\ open' \in [Underlyings -> Nat] /\ since_close' \in [Underlyings -> Nat]
         /\ \A u \in Underlyings : open'[u] <= open[u]
         /\ \A u \in Underlyings : u \in Held \/ since_close'[u] = since_close[u]
         /\ poisoned' \in BOOLEAN /\ (poisoned => poisoned')
         /\ ~poisoned => unswept' = 0
         /\ poisoned => unswept' = unswept
<1>1. /\ open \in [Underlyings -> Nat] /\ since_close \in [Underlyings -> Nat]
      /\ poisoned \in BOOLEAN
  BY DEF IInv, Shape
<1>2. CASE poisoned
  BY <1>1, <1>2 DEF SweepExits, book
<1>3. CASE ~poisoned
  <2>1. /\ unswept' = 0 /\ poisoned' \in BOOLEAN
        /\ \E closed \in SUBSET Held : \E halved \in SUBSET (Divisible \ closed) :
             Leave(closed, halved)
    BY <1>3 DEF SweepExits
  <2>2. PICK closed \in SUBSET Held :
          /\ open' = [u \in Underlyings |-> IF u \in closed THEN open[u] - 1 ELSE open[u]]
          /\ since_close' = [u \in Underlyings |-> IF u \in closed THEN 0 ELSE since_close[u]]
    BY <2>1 DEF Leave
  <2>3. \A u \in closed : u \in Underlyings /\ open[u] \in Nat /\ open[u] > 0
    BY <1>1, <2>2 DEF Held
  <2>4. QED
    BY <1>1, <1>3, <2>1, <2>2, <2>3
<1>4. QED
  BY <1>1, <1>2, <1>3

LEMMA SweepKeeps == ASSUME IInv, Sweep PROVE IInv'
<1>1. /\ pc = "sweep" /\ SweepExits
      /\ \/ pos = WatchLength /\ pc' = "final" /\ pos' = pos
         \/ pc' = "entry" /\ pos' = pos + 1
      /\ UNCHANGED <<halts, account, fresh>>
  BY DEF Sweep, db
<1>2. /\ OpenTrades' \subseteq OpenTrades /\ Held' \subseteq Held
      /\ IsFiniteSet(OpenTrades') /\ Cardinality(OpenTrades') <= Cardinality(OpenTrades)
      /\ OneOpenPerUnderlying' /\ MaxConcurrentHeld'
  BY <1>1, SweepFacts, FewerTrades
<1>3. unswept' \in Nat
  <2>1. poisoned \in BOOLEAN /\ unswept \in Nat
    BY DEF IInv, Shape
  <2>2. QED
    BY <1>1, <2>1, SweepFacts
<1>4. Shape'
  <2>1. IsAccount(account) /\ halts \subseteq Halts /\ pos \in Nat
    BY DEF IInv, Shape
  <2>2. IsAccount(account') /\ halts' \subseteq Halts /\ pos' \in Nat
    BY <1>1, <2>1
  <2>3. QED
    BY <1>1, <1>2, <1>3, <2>2, SweepFacts DEF Shape
<1>5. SnapshotHolds'
  <2> SUFFICES ASSUME ~poisoned'
               PROVE  /\ Held' \subseteq account'.open
                      /\ Cardinality(OpenTrades') <= account'.count
                      /\ \A u \in Underlyings :
                           u \in account'.open \/ since_close'[u] = account'.since_close[u]
    BY DEF SnapshotHolds
  <2>1. /\ Held \subseteq account.open /\ Cardinality(OpenTrades) <= account.count
        /\ \A u \in Underlyings : u \in account.open \/ since_close[u] = account.since_close[u]
    BY <1>1, SweepFacts DEF IInv, SnapshotHolds
  <2>2. /\ Cardinality(OpenTrades) \in Nat /\ Cardinality(OpenTrades') \in Nat
        /\ account.count \in Nat
    BY <1>2, FS_CardinalityType DEF IInv, Shape, IsAccount
  <2>3. Cardinality(OpenTrades') <= account.count
    BY <1>2, <2>1, <2>2
  <2>4. QED
    BY <1>1, <1>2, <2>1, <2>3, SweepFacts
<1>6. HaltsSeen'
  BY <1>1 DEF IInv, HaltsSeen
<1>7. SweepsCounted'
  <2>1. pos \in Nat /\ pos % Stride = 0 /\ Stride \in Nat
    BY <1>1, CycleAssumption DEF IInv, Shape, SweepsCounted
  <2>2. (pos + 1) - 1 = pos /\ pos + 1 > 0
    BY <2>1
  <2>3. poisoned \in BOOLEAN /\ (~poisoned' => unswept' = 0 /\ unswept' <= Stride)
    BY <1>1, <2>1, SweepFacts DEF IInv, Shape
  <2>4. pc' = "entry" => pos' > 0 /\ (pos' - 1) % Stride = 0
    BY <1>1, <2>1, <2>2
  <2>5. QED
    BY <1>1, <2>3, <2>4 DEF SweepsCounted
<1>8. QED
  BY <1>2, <1>4, <1>5, <1>6, <1>7 DEF IInv

LEMMA FinalSweepKeeps == ASSUME IInv, FinalSweep PROVE IInv'
<1>1. /\ SweepExits /\ pc' = "update" /\ account' = NoAccount
      /\ UNCHANGED <<halts, pos>>
  BY DEF FinalSweep, db
<1>2. /\ IsFiniteSet(OpenTrades') /\ OneOpenPerUnderlying' /\ MaxConcurrentHeld'
  BY <1>1, SweepFacts, FewerTrades
<1>3. /\ unswept' \in Nat /\ (~poisoned' => unswept' = 0 /\ unswept' <= Stride)
  <2>1. poisoned \in BOOLEAN /\ unswept \in Nat /\ Stride \in Nat
    BY CycleAssumption DEF IInv, Shape
  <2>2. QED
    BY <1>1, <2>1, SweepFacts
<1>4. Shape'
  <2>1. halts \subseteq Halts /\ pos \in Nat
    BY DEF IInv, Shape
  <2>2. IsAccount(account') /\ halts' \subseteq Halts /\ pos' \in Nat
    BY <1>1, <2>1, NoAccountIsOne
  <2>3. QED
    BY <1>1, <1>2, <1>3, <2>2, SweepFacts DEF Shape
<1>5. SnapshotHolds' /\ HaltsSeen' /\ SweepsCounted'
  BY <1>1, <1>3 DEF SnapshotHolds, HaltsSeen, SweepsCounted
<1>6. QED
  BY <1>2, <1>4, <1>5 DEF IInv

(* After the tick of a position, and what the next one owes.               *)
LEMMA NextPositionFacts ==
  ASSUME IInv, pc \in {"entry", "filled"}, NextPosition
  PROVE  /\ pos' \in Nat /\ pc' \in {"sweep", "final", "entry"}
         /\ pc' = "sweep" => pos' % Stride = 0
         /\ pc' = "entry" => pos' > 0 /\ (pos' - 1) % Stride = ((pos - 1) % Stride) + 1
         /\ (pos - 1) % Stride \in Nat /\ ((pos - 1) % Stride) + 1 <= Stride
<1>1. pos \in Nat /\ pos > 0 /\ Stride \in Nat /\ Stride > 0
  BY CycleAssumption DEF IInv, Shape, SweepsCounted
<1>2. pos - 1 \in Nat /\ (pos - 1) + 1 = pos
  BY <1>1
<1>3. /\ (pos - 1) % Stride \in 0..(Stride - 1)
      /\ pos % Stride = IF ((pos - 1) % Stride) + 1 = Stride
                         THEN 0 ELSE ((pos - 1) % Stride) + 1
  BY <1>1, <1>2, ModStep
<1>4. (pos + 1) - 1 = pos /\ pos + 1 \in Nat /\ pos + 1 > 0
  BY <1>1
<1>5. \/ pos % Stride = 0 /\ pc' = "sweep" /\ pos' = pos
      \/ pc' = "final" /\ pos' = pos
      \/ pos % Stride # 0 /\ pc' = "entry" /\ pos' = pos + 1
  BY DEF NextPosition
<1>6. (pos - 1) % Stride \in Nat /\ ((pos - 1) % Stride) + 1 <= Stride
  BY <1>1, <1>3
<1>7. pos % Stride # 0 => pos % Stride = ((pos - 1) % Stride) + 1
  BY <1>3
<1>8. QED
  BY <1>1, <1>4, <1>5, <1>6, <1>7

LEMMA EntryRefusedKeeps == ASSUME IInv, EntryRefused PROVE IInv'
<1>1. /\ pc = "entry" /\ NextPosition /\ poisoned' \in {poisoned, TRUE}
      /\ unswept' = unswept + 1
      /\ UNCHANGED <<halts, open, since_close, account, fresh>>
  BY DEF EntryRefused, db, book
<1>2. OpenTrades' = OpenTrades /\ Held' = Held
  BY <1>1 DEF OpenTrades, Held
<1>3. /\ poisoned \in BOOLEAN /\ poisoned' \in BOOLEAN /\ (~poisoned' => ~poisoned)
      /\ unswept \in Nat
  <2>1. poisoned \in BOOLEAN /\ unswept \in Nat
    BY DEF IInv, Shape
  <2>2. poisoned' \in BOOLEAN
    BY <1>1, <2>1, Zenon
  <2>3. ~poisoned' => ~poisoned
    BY <1>1, Zenon
  <2>4. QED
    BY <2>1, <2>2, <2>3
<1>4. Shape'
  <2>1. pos' \in Nat /\ unswept' \in Nat
    BY <1>1, <1>3, NextPositionFacts
  <2>2. QED
    BY <1>1, <1>2, <1>3, <2>1 DEF IInv, Shape
<1>5. SnapshotHolds'
  BY <1>1, <1>2, <1>3 DEF IInv, SnapshotHolds
<1>6. HaltsSeen'
  BY <1>1 DEF IInv, HaltsSeen
<1>7. SweepsCounted'
  <2>1. ~poisoned' => unswept' = ((pos - 1) % Stride) + 1
    BY <1>1, <1>3 DEF IInv, SweepsCounted
  <2>2. QED
    BY <1>1, <2>1, NextPositionFacts DEF SweepsCounted
<1>8. OneOpenPerUnderlying' /\ MaxConcurrentHeld'
  BY <1>1, <1>2 DEF IInv, OneOpenPerUnderlying, MaxConcurrentHeld
<1>9. QED
  BY <1>4, <1>5, <1>6, <1>7, <1>8 DEF IInv

(* What the gates let through: a free slot, a free underlying that has     *)
(* cooled down, and no halt in the snapshot.                               *)
LEMMA EntryFillsFacts ==
  ASSUME IInv, EntryFills
  PROVE  /\ pc = "entry" /\ ~poisoned /\ pc' = "filled" /\ unswept' = unswept + 1
         /\ open' = [open EXCEPT ![pos] = @ + 1]
         /\ UNCHANGED <<halts, since_close, pos, account, poisoned, fresh>>
         /\ account.halts = {} /\ pos \notin account.open
         /\ account.count < MaxConcurrent /\ account.since_close[pos] >= Cooldown
<1>1. PICK premium \in Premiums :
        GateChainAllows([underlying |-> pos, premium |-> premium,
                         in_window |-> TRUE, liquid |-> TRUE], account)
  BY DEF EntryFills
<1>2. "kill" \notin account.halts /\ "breaker" \notin account.halts
  BY <1>1 DEF GateChainAllows, KillSwitchGate, BreakerGate
<1>3. account.halts = {}
  BY <1>2 DEF IInv, Shape, IsAccount, Halts
<1>4. account.count < MaxConcurrent
  BY <1>1 DEF GateChainAllows, MaxConcurrentGate
<1>5. pos \notin account.open /\ account.since_close[pos] >= Cooldown
  BY <1>1 DEF GateChainAllows, CorrelationClusterGate
<1>6. QED
  BY <1>3, <1>4, <1>5 DEF EntryFills, db

LEMMA EntryFillsKeeps == ASSUME IInv, EntryFills PROVE IInv'
<1>1. /\ open \in [Underlyings -> Nat] /\ IsFiniteSet(OpenTrades) /\ account.count \in Nat
      /\ unswept \in Nat
  BY DEF IInv, Shape, IsAccount
<1>2. /\ Held \subseteq account.open /\ Cardinality(OpenTrades) <= account.count
  BY EntryFillsFacts DEF IInv, SnapshotHolds
<1>3. open' \in [Underlyings -> Nat] /\ unswept' \in Nat
  BY <1>1, EntryFillsFacts
<1>4. IsFiniteSet(OpenTrades') /\ OneOpenPerUnderlying' /\ MaxConcurrentHeld'
  <2>1. CASE pos \in Underlyings
    <3>1. open[pos] = 0
      BY <1>1, <1>2, <2>1, EntryFillsFacts DEF Held
    <3>2. \A u \in Underlyings : open'[u] = IF u = pos THEN 1 ELSE open[u]
      BY <1>1, <3>1, EntryFillsFacts
    <3>3. OpenTrades' = OpenTrades \cup {<<pos, 1>>}
      <4>1. \A x \in OpenTrades' : x \in OpenTrades \cup {<<pos, 1>>}
        BY <1>1, <3>2 DEF OpenTrades
      <4>2. \A x \in OpenTrades : x \in OpenTrades'
        BY <1>1, <3>1, <3>2 DEF OpenTrades
      <4>3. <<pos, 1>> \in OpenTrades'
        BY <2>1, <3>2 DEF OpenTrades
      <4>4. QED
        BY <4>1, <4>2, <4>3
    <3>4. /\ IsFiniteSet(OpenTrades') /\ Cardinality(OpenTrades) \in Nat
          /\ Cardinality(OpenTrades') \in {Cardinality(OpenTrades), Cardinality(OpenTrades) + 1}
      BY <1>1, <3>3, FS_AddElement, FS_CardinalityType
    <3>5. Cardinality(OpenTrades') <= MaxConcurrent
      BY <1>1, <1>2, <3>4, EntryFillsFacts, CapsAssumption
    <3>6. QED
      BY <3>2, <3>4, <3>5 DEF IInv, OneOpenPerUnderlying, MaxConcurrentHeld
  <2>2. CASE pos \notin Underlyings
    <3>1. open' = open
      BY <1>1, <2>2, EntryFillsFacts
    <3>2. OpenTrades' = OpenTrades
      BY <3>1 DEF OpenTrades
    <3>3. QED
      BY <1>1, <3>1, <3>2 DEF IInv, OneOpenPerUnderlying, MaxConcurrentHeld
  <2>3. QED
    BY <2>1, <2>2
<1>5. Shape'
  BY <1>3, <1>4, EntryFillsFacts DEF IInv, Shape
<1>6. SnapshotHolds' /\ HaltsSeen'
  BY EntryFillsFacts DEF IInv, SnapshotHolds, HaltsSeen
<1>7. SweepsCounted'
  <2>1. /\ pos > 0 /\ pos \in Nat /\ unswept = (pos - 1) % Stride
        /\ Stride \in Nat /\ Stride > 0
    BY EntryFillsFacts, CycleAssumption DEF IInv, Shape, SweepsCounted
  <2>2. (pos - 1) % Stride \in 0..(Stride - 1)
    <3>1. pos - 1 \in Nat
      BY <2>1
    <3>2. QED
      BY <2>1, <3>1, ModStep
  <2>3. ((pos - 1) % Stride) + 1 <= Stride
    BY <2>1, <2>2
  <2>4. /\ pc' = "filled" /\ pos' = pos /\ poisoned' = poisoned /\ ~poisoned
        /\ unswept' = unswept + 1
    BY EntryFillsFacts
  <2>5. QED
    BY <2>1, <2>3, <2>4 DEF SweepsCounted
<1>8. QED
  BY <1>4, <1>5, <1>6, <1>7 DEF IInv

LEMMA RebuildAccountKeeps == ASSUME IInv, RebuildAccount PROVE IInv'
<1>1. /\ pc = "filled" /\ NextPosition
      /\ UNCHANGED <<halts, open, since_close, poisoned, unswept, fresh>>
  BY DEF RebuildAccount, db, book
<1>2. PICK kept \in SUBSET Halts :
        account' = [AccountState EXCEPT !.halts = (halts \ kept) \cup (account.halts \cap kept)]
  BY DEF RebuildAccount
<1>3. halts \subseteq Halts /\ account.halts \subseteq Halts
  BY DEF IInv, Shape, IsAccount
<1>4. /\ IsAccount(account') /\ account'.halts = (halts \ kept) \cup (account.halts \cap kept)
      /\ account'.open = Held /\ account'.count = Cardinality(OpenTrades)
      /\ account'.since_close = since_close
  <2>1. AccountState = [halts |-> AccountState.halts, breached |-> AccountState.breached,
           equity |-> AccountState.equity, open |-> AccountState.open,
           count |-> AccountState.count, exposure |-> AccountState.exposure,
           since_close |-> AccountState.since_close]
    BY AccountStateFacts DEF IsAccount
  <2>2. Cardinality(OpenTrades) \in Nat
    BY FS_CardinalityType DEF IInv, Shape
  <2>3. QED
    BY <1>2, <1>3, <2>1, <2>2, AccountStateFacts DEF IsAccount
<1>5. OpenTrades' = OpenTrades /\ Held' = Held
  BY <1>1 DEF OpenTrades, Held
<1>6. Shape'
  BY <1>1, <1>4, <1>5, NextPositionFacts DEF IInv, Shape
<1>7. SnapshotHolds'
  <2>1. Cardinality(OpenTrades) \in Nat
    BY FS_CardinalityType DEF IInv, Shape
  <2>2. QED
    BY <1>1, <1>4, <1>5, <2>1 DEF SnapshotHolds
<1>8. HaltsSeen'
  BY <1>1, <1>4 DEF IInv, HaltsSeen
<1>9. SweepsCounted'
  <2>1. unswept = ((pos - 1) % Stride) + 1 /\ ~poisoned
    BY <1>1 DEF IInv, SweepsCounted
  <2>2. QED
    BY <1>1, <2>1, NextPositionFacts DEF SweepsCounted
<1>10. OneOpenPerUnderlying' /\ MaxConcurrentHeld'
  BY <1>1, <1>5 DEF IInv, OneOpenPerUnderlying, MaxConcurrentHeld
<1>11. QED
  BY <1>6, <1>7, <1>8, <1>9, <1>10 DEF IInv

LEMMA RebuildFailsKeeps == ASSUME IInv, RebuildFails PROVE IInv'
<1>1. /\ pc = "filled" /\ NextPosition /\ poisoned' = TRUE
      /\ UNCHANGED <<halts, open, since_close, account, unswept, fresh>>
  BY DEF RebuildFails, db, book
<1>2. OpenTrades' = OpenTrades
  BY <1>1 DEF OpenTrades
<1>3. Shape'
  BY <1>1, <1>2, NextPositionFacts DEF IInv, Shape
<1>4. SnapshotHolds' /\ HaltsSeen'
  BY <1>1 DEF IInv, SnapshotHolds, HaltsSeen
<1>5. SweepsCounted'
  BY <1>1, NextPositionFacts DEF SweepsCounted
<1>6. OneOpenPerUnderlying' /\ MaxConcurrentHeld'
  BY <1>1, <1>2 DEF IInv, OneOpenPerUnderlying, MaxConcurrentHeld
<1>7. QED
  BY <1>3, <1>4, <1>5, <1>6 DEF IInv

(* Between two cycles nothing of the engine's is left.                     *)
LEMMA BetweenCyclesKeeps ==
  ASSUME IInv, BetweenCycles, UNCHANGED book, halts' \subseteq Halts
  PROVE  IInv'
<1>1. /\ pc' = "idle" /\ pos' = 0 /\ account' = NoAccount /\ poisoned' = FALSE /\ unswept' = 0
      /\ UNCHANGED <<open, since_close>>
  BY DEF BetweenCycles, book
<1>2. OpenTrades' = OpenTrades
  BY <1>1 DEF OpenTrades
<1>3. Stride \in Nat
  BY CycleAssumption
<1>4. Shape'
  BY <1>1, <1>2, NoAccountIsOne DEF IInv, Shape
<1>5. SnapshotHolds' /\ HaltsSeen' /\ SweepsCounted'
  BY <1>1, <1>3 DEF SnapshotHolds, HaltsSeen, SweepsCounted
<1>6. OneOpenPerUnderlying' /\ MaxConcurrentHeld'
  BY <1>1, <1>2 DEF IInv, OneOpenPerUnderlying, MaxConcurrentHeld
<1>7. QED
  BY <1>4, <1>5, <1>6 DEF IInv

(* A halt set or lifted touches nothing but the halts.                     *)
LEMMA HaltKeeps ==
  ASSUME IInv, NEW h \in Halts, Engage(h) \/ Release(h)
  PROVE  IInv'
<1>1. UNCHANGED <<open, since_close, pc, pos, account, poisoned, unswept>>
  BY DEF Engage, Release, book, engine
<1>2. OpenTrades' = OpenTrades /\ Held' = Held
  BY <1>1 DEF OpenTrades, Held
<1>3. halts' \subseteq Halts
  BY DEF Engage, Release, IInv, Shape
<1>4. Shape'
  BY <1>1, <1>2, <1>3 DEF IInv, Shape
<1>5. SnapshotHolds' /\ SweepsCounted'
  BY <1>1, <1>2 DEF IInv, SnapshotHolds, SweepsCounted
<1>6. HaltsSeen'
  BY <1>1 DEF Engage, Release, IInv, HaltsSeen
<1>7. OneOpenPerUnderlying' /\ MaxConcurrentHeld'
  BY <1>1, <1>2 DEF IInv, OneOpenPerUnderlying, MaxConcurrentHeld
<1>8. QED
  BY <1>4, <1>5, <1>6, <1>7 DEF IInv

LEMMA MinuteKeeps == ASSUME IInv, Minute PROVE IInv'
<1>1. /\ since_close' = Aged(since_close)
      /\ account' = IF pc \in {"idle", "update"} THEN NoAccount
                    ELSE [account EXCEPT !.since_close = Aged(@)]
      /\ UNCHANGED <<halts, open, pc, pos, poisoned, unswept, fresh>>
  BY DEF Minute, db
<1>2. OpenTrades' = OpenTrades /\ Held' = Held
  BY <1>1 DEF OpenTrades, Held
<1>3. since_close' \in [Underlyings -> Nat]
  BY <1>1, CapsAssumption DEF Aged, IInv, Shape
<1>4. IsAccount(account)
  BY DEF IInv, Shape
<1>5. pc \notin {"idle", "update"} =>
        /\ IsAccount(account') /\ account'.open = account.open
        /\ account'.count = account.count /\ account'.halts = account.halts
        /\ account'.since_close = Aged(account.since_close)
  BY <1>1, <1>4 DEF IsAccount
<1>6. IsAccount(account')
  BY <1>1, <1>5, NoAccountIsOne
<1>7. Shape'
  BY <1>1, <1>2, <1>3, <1>6 DEF IInv, Shape
<1>8. SnapshotHolds'
  BY <1>1, <1>2, <1>5 DEF IInv, SnapshotHolds, Aged
<1>9. HaltsSeen'
  BY <1>1, <1>5 DEF IInv, HaltsSeen
<1>10. SweepsCounted'
  BY <1>1 DEF IInv, SweepsCounted
<1>11. OneOpenPerUnderlying' /\ MaxConcurrentHeld'
  BY <1>1, <1>2 DEF IInv, OneOpenPerUnderlying, MaxConcurrentHeld
<1>12. QED
  BY <1>7, <1>8, <1>9, <1>10, <1>11 DEF IInv

LEMMA StepIInv == IInv /\ [Next]_vars => IInv'
<1> SUFFICES ASSUME IInv, [Next]_vars PROVE IInv'
  OBVIOUS
<1>1. CASE StartCycle
  BY <1>1, StartCycleKeeps
<1>2. CASE Sweep
  BY <1>2, SweepKeeps
<1>3. CASE FinalSweep
  BY <1>3, FinalSweepKeeps
<1>4. CASE EntryRefused
  BY <1>4, EntryRefusedKeeps
<1>5. CASE EntryFills
  BY <1>5, EntryFillsKeeps
<1>6. CASE RebuildAccount
  BY <1>6, RebuildAccountKeeps
<1>7. CASE RebuildFails
  BY <1>7, RebuildFailsKeeps
<1>8. CASE EndCycle
  <2>1. halts' \subseteq Halts
    BY <1>8 DEF EndCycle, db, IInv, Shape, Halts
  <2>2. QED
    BY <1>8, <2>1, BetweenCyclesKeeps DEF EndCycle
<1>9. CASE Crash
  <2>1. halts' \subseteq Halts
    BY <1>9 DEF Crash, db, IInv, Shape
  <2>2. QED
    BY <1>9, <2>1, BetweenCyclesKeeps DEF Crash
<1>10. ASSUME NEW h \in Halts, Engage(h) \/ Release(h) PROVE IInv'
  BY <1>10, HaltKeeps
<1>11. CASE Minute
  BY <1>11, MinuteKeeps
<1>12. CASE UNCHANGED vars
  BY <1>12 DEF vars, db, book, engine, IInv, Shape, SnapshotHolds, HaltsSeen, SweepsCounted,
               OneOpenPerUnderlying, MaxConcurrentHeld, OpenTrades, Held
<1>13. QED
  BY <1>1, <1>2, <1>3, <1>4, <1>5, <1>6, <1>7, <1>8, <1>9, <1>10, <1>11, <1>12 DEF Next

LEMMA Inductive == Spec => []IInv
  BY InitIInv, StepIInv, PTL DEF Spec

-----------------------------------------------------------------------------
(* Only a fill adds a trade.                                               *)
LEMMA OnlyFillsEnter ==
  ASSUME IInv, [Next]_vars, NEW u \in Underlyings, Enters(u)
  PROVE  EntryFills /\ u = pos
<1>1. open \in [Underlyings -> Nat] /\ open' \in [Underlyings -> Nat]
  BY StepIInv DEF IInv, Shape
<1>2. ~(open'[u] <= open[u]) /\ open' # open
  BY <1>1 DEF Enters
<1>3. ~Sweep /\ ~FinalSweep
  BY <1>2, SweepFacts DEF Sweep, FinalSweep
<1>4. EntryFills
  BY <1>2, <1>3 DEF Next, StartCycle, EntryRefused, RebuildAccount, RebuildFails, EndCycle,
       Crash, Engage, Release, Minute, vars, book
<1>5. u = pos
  BY <1>1, <1>2, <1>4, EntryFillsFacts
<1>6. QED
  BY <1>4, <1>5

(* Never more than max_concurrent trades are open, for any watchlist, caps *)
(* and stride, although the count is the snapshot's.                       *)
THEOREM ConcurrencyIsCapped == Spec => []MaxConcurrentHeld
<1>1. IInv => MaxConcurrentHeld
  BY DEF IInv
<1>2. QED
  BY <1>1, Inductive, PTL

(* Never two trades are open on one underlying.                            *)
THEOREM OnePerUnderlying == Spec => []OneOpenPerUnderlying
<1>1. IInv => OneOpenPerUnderlying
  BY DEF IInv
<1>2. QED
  BY <1>1, Inductive, PTL

(* No more than Stride entry ticks part two sweeps of a session that works,*)
(* and none follows its last, for any stride and length of the watchlist.  *)
THEOREM SweptInTime == Spec => []ExitsLookedAt
<1>1. IInv => ExitsLookedAt
  BY DEF IInv, SweepsCounted, ExitsLookedAt
<1>2. QED
  BY <1>1, Inductive, PTL

(* No entry falls into the cooldown of a close, seen or unseen by the      *)
(* snapshot: what closed since it was read it still takes for open.        *)
THEOREM CooldownStands == Spec => CooldownKept
<1>1. IInv /\ [Next]_vars => [\A u \in Underlyings : Enters(u) => since_close[u] >= Cooldown]_vars
  <2> SUFFICES ASSUME IInv, [Next]_vars, NEW u \in Underlyings, Enters(u)
               PROVE  since_close[u] >= Cooldown
    OBVIOUS
  <2>1. EntryFills /\ u = pos
    BY OnlyFillsEnter
  <2>2. u \notin account.open /\ account.since_close[u] >= Cooldown
    BY <2>1, EntryFillsFacts
  <2>3. since_close[u] = account.since_close[u]
    BY <2>1, <2>2, EntryFillsFacts DEF IInv, SnapshotHolds
  <2>4. QED
    BY <2>2, <2>3
<1>2. QED
  BY <1>1, Inductive, PTL DEF CooldownKept, Spec

(* A halt that stands since before the cycle lets no entry through.        *)
THEOREM StandingHaltStands == Spec => StandingHaltStopsEntries
<1>1. IInv /\ [Next]_vars => [(\E u \in Underlyings : Enters(u)) => halts \subseteq fresh]_vars
  <2> SUFFICES ASSUME IInv, [Next]_vars, NEW u \in Underlyings, Enters(u)
               PROVE  halts \subseteq fresh
    OBVIOUS
  <2>1. EntryFills
    BY OnlyFillsEnter
  <2>2. account.halts = {} /\ pc = "entry"
    BY <2>1, EntryFillsFacts
  <2>3. QED
    BY <2>2 DEF IInv, HaltsSeen
<1>2. QED
  BY <1>1, Inductive, PTL DEF StandingHaltStopsEntries, Spec

-----------------------------------------------------------------------------
(* Sums over the underlyings.  The fold takes its indices away one by one, *)
(* always the one that is chosen of those left: what is true of the empty  *)
(* set, and of a set when it is of that set without an index, is true of   *)
(* all, by a least set for which it is not.                                *)
Pick(s) == CHOOSE x \in s : TRUE

MakesSums(g, f) ==
  g = [s \in SUBSET DOMAIN f |-> IF s = {} THEN 0 ELSE f[Pick(s)] + g[s \ {Pick(s)}]]

Sums(f) == CHOOSE g : MakesSums(g, f)

LEMMA TotalIsASum == ASSUME NEW f PROVE Total(f) = Sums(f)[DOMAIN f]
  BY DEF Total, FoldFunction, FoldFunctionOnSet, MapThenFoldSet, Sums, MakesSums, Pick

LEMMA LeastNumber ==
  ASSUME NEW S \in SUBSET Nat, S # {}
  PROVE  \E x \in S : \A y \in S : x <= y
<1>1. PICK x \in S : \A y \in S : <<y, x>> \notin OpToRel(<, Nat)
  BY NatLessThanWellFounded, WFMin
<1>2. \A y \in S : ~(y < x)
  BY <1>1, Zenon DEF OpToRel
<1>3. QED
  BY <1>2

LEMMA LeastSet ==
  ASSUME NEW T, IsFiniteSet(T), NEW W \in SUBSET (SUBSET T), W # {}
  PROVE  \E s \in W : \A x \in s : s \ {x} \notin W
<1> DEFINE N == {Cardinality(s) : s \in W}
<1>1. \A s \in W : IsFiniteSet(s) /\ Cardinality(s) \in Nat
  BY FS_Subset, FS_CardinalityType
<1>2. N \in SUBSET Nat /\ N # {}
  BY <1>1
<1>3. PICK n \in N : \A m \in N : n <= m
  <2> HIDE DEF N
  <2>1. QED
    BY <1>2, LeastNumber
<1>4. PICK s \in W : n = Cardinality(s)
  OBVIOUS
<1>5. ASSUME NEW x \in s, s \ {x} \in W PROVE FALSE
  <2>1. Cardinality(s \ {x}) = Cardinality(s) - 1
    BY <1>1, FS_RemoveElement
  <2>2. n <= Cardinality(s \ {x}) /\ n \in Nat
    BY <1>2, <1>3, <1>5
  <2>3. QED
    BY <1>4, <2>1, <2>2
<1>6. QED
  BY <1>5

LEMMA SumsExist ==
  ASSUME NEW f, IsFiniteSet(DOMAIN f)
  PROVE  MakesSums(Sums(f), f)
<1> DEFINE D == DOMAIN f
           Step(g, s) == IF s = {} THEN 0 ELSE f[Pick(s)] + g[s \ {Pick(s)}]
           Good(n) == \E g : \A s \in SUBSET D : Cardinality(s) <= n => g[s] = Step(g, s)
           bad == {n \in Nat : ~Good(n)}
<1>1. \A s \in SUBSET D : IsFiniteSet(s) /\ Cardinality(s) \in Nat
  BY FS_Subset, FS_CardinalityType
<1>2. \A s \in SUBSET D : s # {} => /\ Pick(s) \in s /\ s \ {Pick(s)} \in SUBSET D
                                    /\ Cardinality(s \ {Pick(s)}) = Cardinality(s) - 1
  <2> SUFFICES ASSUME NEW s \in SUBSET D, s # {}
               PROVE  /\ Pick(s) \in s /\ s \ {Pick(s)} \in SUBSET D
                      /\ Cardinality(s \ {Pick(s)}) = Cardinality(s) - 1
    OBVIOUS
  <2>1. Pick(s) \in s
    BY DEF Pick
  <2>2. QED
    BY <1>1, <2>1, FS_RemoveElement
<1>3. bad = {}
  <2> SUFFICES ASSUME bad # {} PROVE FALSE
    OBVIOUS
  <2>1. PICK n \in bad : \A m \in bad : n <= m
    <3>1. bad \in SUBSET Nat
      OBVIOUS
    <3> HIDE DEF bad
    <3>2. QED
      BY <3>1, LeastNumber
  <2>2. n \in Nat /\ ~Good(n)
    OBVIOUS
  <2>3. PICK g : \A s \in SUBSET D : Cardinality(s) < n => g[s] = Step(g, s)
    <3>1. CASE n = 0
      BY <1>1, <3>1
    <3>2. CASE n # 0
      <4>1. n - 1 \in Nat /\ n - 1 \notin bad
        <5> HIDE DEF bad
        <5>1. n - 1 \in Nat /\ ~(n <= n - 1)
          BY <2>2, <3>2
        <5>2. QED
          BY <2>1, <5>1
      <4>2. Good(n - 1)
        BY <4>1
      <4>3. PICK h : \A s \in SUBSET D : Cardinality(s) <= n - 1 => h[s] = Step(h, s)
        BY <4>2
      <4>4. \A s \in SUBSET D : Cardinality(s) < n => Cardinality(s) <= n - 1
        BY <1>1, <2>2
      <4>5. QED
        BY <4>3, <4>4
    <3>3. QED
      BY <3>1, <3>2
  <2> DEFINE h == [s \in SUBSET D |-> IF Cardinality(s) = n THEN Step(g, s) ELSE g[s]]
  <2>4. ASSUME NEW s \in SUBSET D, Cardinality(s) <= n PROVE h[s] = Step(h, s)
    <3>1. Step(h, s) = Step(g, s)
      <4>1. CASE s = {}
        BY <4>1
      <4>2. CASE s # {}
        <5>1. s \ {Pick(s)} \in SUBSET D /\ Cardinality(s \ {Pick(s)}) # n
          BY <1>1, <1>2, <2>2, <2>4, <4>2
        <5>2. h[s \ {Pick(s)}] = g[s \ {Pick(s)}]
          BY <5>1
        <5>3. QED
          BY <4>2, <5>2
      <4>3. QED
        BY <4>1, <4>2
    <3>2. CASE Cardinality(s) = n
      BY <3>1, <3>2
    <3>3. CASE Cardinality(s) # n
      <4>1. Cardinality(s) < n
        BY <1>1, <2>2, <2>4, <3>3
      <4>2. h[s] = g[s]
        BY <3>3
      <4>3. QED
        BY <2>3, <3>1, <4>1, <4>2
    <3>4. QED
      BY <3>2, <3>3
  <2>5. Good(n)
    <3> HIDE DEF h, Step
    <3>1. QED
      BY <2>4
  <2>6. QED
    BY <2>2, <2>5
<1>4. Cardinality(D) \in Nat /\ \A s \in SUBSET D : Cardinality(s) <= Cardinality(D)
  BY FS_Subset, FS_CardinalityType
<1>5. PICK g : \A s \in SUBSET D : g[s] = Step(g, s)
  <2>1. Good(Cardinality(D))
    BY <1>3, <1>4
  <2>2. PICK g : \A s \in SUBSET D : Cardinality(s) <= Cardinality(D) => g[s] = Step(g, s)
    BY <2>1
  <2>3. QED
    BY <1>4, <2>2
<1> DEFINE h == [s \in SUBSET D |-> g[s]]
<1>6. ASSUME NEW s \in SUBSET D PROVE h[s] = Step(h, s)
  <2>1. h[s] = g[s] /\ (s # {} => h[s \ {Pick(s)}] = g[s \ {Pick(s)}])
    BY <1>2
  <2>2. QED
    BY <1>5, <2>1
<1>7. MakesSums(h, f)
  <2>1. h = [s \in SUBSET D |-> h[s]]
    OBVIOUS
  <2>2. h = [s \in SUBSET D |-> Step(h, s)]
    <3> HIDE DEF h, Step
    <3>1. QED
      BY <1>6, <2>1
  <2> HIDE DEF h
  <2>3. QED
    BY <2>2 DEF MakesSums
<1> HIDE DEF h
<1>8. QED
  BY <1>7, Zenon DEF Sums

(* The sum of no indices is 0, that of some is that of one less and what   *)
(* the function has there.                                                 *)
LEMMA SumsStep ==
  ASSUME NEW f, IsFiniteSet(DOMAIN f)
  PROVE  /\ Sums(f)[{}] = 0
         /\ \A s \in SUBSET DOMAIN f : s # {} =>
              /\ Pick(s) \in s /\ s \ {Pick(s)} \in SUBSET DOMAIN f
              /\ Sums(f)[s] = f[Pick(s)] + Sums(f)[s \ {Pick(s)}]
<1>1. Sums(f) = [s \in SUBSET DOMAIN f |->
                   IF s = {} THEN 0 ELSE f[Pick(s)] + Sums(f)[s \ {Pick(s)}]]
  BY SumsExist DEF MakesSums
<1>2. \A s \in SUBSET DOMAIN f :
        Sums(f)[s] = IF s = {} THEN 0 ELSE f[Pick(s)] + Sums(f)[s \ {Pick(s)}]
  BY <1>1
<1>3. \A s \in SUBSET DOMAIN f : s # {} => Pick(s) \in s
  BY DEF Pick
<1>4. QED
  BY <1>2, <1>3

LEMMA SumsAreNat ==
  ASSUME NEW D, IsFiniteSet(D), NEW f \in [D -> Nat], NEW s \in SUBSET D
  PROVE  Sums(f)[s] \in Nat
<1> DEFINE W == {t \in SUBSET D : Sums(f)[t] \notin Nat}
<1>1. CASE W = {}
  BY <1>1
<1>2. CASE W # {}
  <2>1. W \in SUBSET (SUBSET D)
    OBVIOUS
  <2>2. PICK t \in W : \A x \in t : t \ {x} \notin W
    <3> HIDE DEF W
    <3>1. QED
      BY <1>2, <2>1, LeastSet
  <2>3. t # {}
    <3>1. DOMAIN f = D /\ Sums(f)[{}] = 0
      BY SumsStep
    <3>2. QED
      BY <3>1
  <2>4. /\ Pick(t) \in t /\ t \ {Pick(t)} \in SUBSET D
        /\ Sums(f)[t] = f[Pick(t)] + Sums(f)[t \ {Pick(t)}]
    BY <2>3, SumsStep
  <2>5. Sums(f)[t \ {Pick(t)}] \in Nat /\ f[Pick(t)] \in Nat
    BY <2>2, <2>4
  <2>6. Sums(f)[t] \in Nat
    BY <2>4, <2>5
  <2>7. QED
    BY <2>6
<1>3. QED
  BY <1>1, <1>2

LEMMA SumsOfLess ==
  ASSUME NEW D, IsFiniteSet(D), NEW f \in [D -> Nat], NEW g \in [D -> Nat],
         \A u \in D : f[u] <= g[u], NEW s \in SUBSET D
  PROVE  Sums(f)[s] <= Sums(g)[s]
<1> DEFINE W == {t \in SUBSET D : ~(Sums(f)[t] <= Sums(g)[t])}
<1>1. CASE W = {}
  BY <1>1
<1>2. CASE W # {}
  <2>1. W \in SUBSET (SUBSET D)
    OBVIOUS
  <2>2. PICK t \in W : \A x \in t : t \ {x} \notin W
    <3> HIDE DEF W
    <3>1. QED
      BY <1>2, <2>1, LeastSet
  <2>3. t # {}
    <3>1. DOMAIN f = D /\ DOMAIN g = D /\ Sums(f)[{}] = 0 /\ Sums(g)[{}] = 0
      BY SumsStep
    <3>2. QED
      BY <3>1
  <2>4. /\ Pick(t) \in t /\ t \ {Pick(t)} \in SUBSET D
        /\ Sums(f)[t] = f[Pick(t)] + Sums(f)[t \ {Pick(t)}]
        /\ Sums(g)[t] = g[Pick(t)] + Sums(g)[t \ {Pick(t)}]
    BY <2>3, SumsStep
  <2>5. /\ Sums(f)[t \ {Pick(t)}] \in Nat /\ f[Pick(t)] \in Nat
        /\ Sums(g)[t \ {Pick(t)}] \in Nat /\ g[Pick(t)] \in Nat /\ f[Pick(t)] <= g[Pick(t)]
    BY <2>4, SumsAreNat
  <2>6. Sums(f)[t \ {Pick(t)}] <= Sums(g)[t \ {Pick(t)}]
    BY <2>2, <2>4
  <2>7. Sums(f)[t] <= Sums(g)[t]
    BY <2>4, <2>5, <2>6
  <2>8. QED
    BY <2>7
<1>3. QED
  BY <1>1, <1>2

LEMMA SumsOfMore ==
  ASSUME NEW D, IsFiniteSet(D), NEW f \in [D -> Nat], NEW g \in [D -> Nat],
         NEW u \in D, NEW x \in Nat,
         \A v \in D : g[v] = IF v = u THEN f[v] + x ELSE f[v], NEW s \in SUBSET D
  PROVE  Sums(g)[s] = IF u \in s THEN Sums(f)[s] + x ELSE Sums(f)[s]
<1> DEFINE Fits(t) == Sums(g)[t] = IF u \in t THEN Sums(f)[t] + x ELSE Sums(f)[t]
           W == {t \in SUBSET D : ~Fits(t)}
<1>1. CASE W = {}
  BY <1>1
<1>2. CASE W # {}
  <2>1. W \in SUBSET (SUBSET D)
    OBVIOUS
  <2>2. PICK t \in W : \A y \in t : t \ {y} \notin W
    <3> HIDE DEF W
    <3>1. QED
      BY <1>2, <2>1, LeastSet
  <2>3. t # {}
    BY SumsStep
  <2> DEFINE p == Pick(t)
             r == t \ {p}
  <2>4. /\ p \in t /\ r \in SUBSET D /\ p \in D
        /\ Sums(f)[t] = f[p] + Sums(f)[r] /\ Sums(g)[t] = g[p] + Sums(g)[r]
    BY <2>3, SumsStep
  <2>5. /\ Sums(f)[r] \in Nat /\ f[p] \in Nat /\ Sums(f)[t] \in Nat
    BY <2>4, SumsAreNat
  <2>6. Sums(g)[r] = IF u \in r THEN Sums(f)[r] + x ELSE Sums(f)[r]
    BY <2>2, <2>4
  <2>7. g[p] = IF p = u THEN f[p] + x ELSE f[p]
    BY <2>4
  <2>8. Fits(t)
    <3>1. CASE p = u
      <4>1. u \notin r /\ u \in t
        BY <2>4, <3>1
      <4> HIDE DEF p, r
      <4>2. QED
        BY <2>4, <2>5, <2>6, <2>7, <3>1, <4>1
    <3>2. CASE p # u
      <4>1. u \in r <=> u \in t
        BY <3>2
      <4> HIDE DEF p, r
      <4>2. QED
        BY <2>4, <2>5, <2>6, <2>7, <3>2, <4>1
    <3>3. QED
      BY <3>1, <3>2
  <2>9. QED
    BY <2>8
<1>3. QED
  BY <1>1, <1>2

(* A total is a natural number, grows with what it is the total of, and    *)
(* with what is added on one underlying by just that.                      *)
LEMMA UnderlyingsFinite == IsFiniteSet(Underlyings)
  BY FS_Interval, CycleAssumption DEF Underlyings

LEMMA TotalIsNat ==
  ASSUME NEW f \in [Underlyings -> Nat]
  PROVE  Total(f) \in Nat
  BY TotalIsASum, UnderlyingsFinite, SumsAreNat

LEMMA TotalOfLess ==
  ASSUME NEW f \in [Underlyings -> Nat], NEW g \in [Underlyings -> Nat],
         \A u \in Underlyings : f[u] <= g[u]
  PROVE  Total(f) <= Total(g)
  BY TotalIsASum, UnderlyingsFinite, SumsOfLess

LEMMA TotalOfMore ==
  ASSUME NEW f \in [Underlyings -> Nat], NEW u \in Underlyings, NEW x \in Nat
  PROVE  Total([f EXCEPT ![u] = @ + x]) = Total(f) + x
<1> DEFINE g == [f EXCEPT ![u] = @ + x]
<1>1. g \in [Underlyings -> Nat] /\ DOMAIN g = Underlyings /\ DOMAIN f = Underlyings
  OBVIOUS
<1>2. Sums(g)[Underlyings] = Sums(f)[Underlyings] + x
  <2>1. Underlyings \in SUBSET Underlyings
    OBVIOUS
  <2>2. \A v \in Underlyings : g[v] = IF v = u THEN f[v] + x ELSE f[v]
    OBVIOUS
  <2> HIDE DEF g
  <2>3. Sums(g)[Underlyings] = IF u \in Underlyings THEN Sums(f)[Underlyings] + x
                               ELSE Sums(f)[Underlyings]
    BY <1>1, <2>1, <2>2, UnderlyingsFinite, SumsOfMore
  <2>4. QED
    BY <2>3
<1>3. QED
  BY <1>1, <1>2, TotalIsASum

-----------------------------------------------------------------------------
(* Money.  While the session works the snapshot takes no less for          *)
(* committed than is, and has the equity of the latest row: sweeps only    *)
(* set money free, and a fill is followed by a new snapshot or a failing   *)
(* session.                                                                *)
SnapshotCovers ==
  pc \in {"sweep", "entry"} /\ ~poisoned =>
    Total(cost) <= account.exposure /\ account.equity = equity

MoneyInv == TypeOK /\ SnapshotCovers

LEMMA NoAccountTyped == NoAccount \in AccountType
  BY CapsAssumption DEF NoAccount, AccountType, Halts

LEMMA AccountStateTyped ==
  ASSUME IInv, TypeOK
  PROVE  /\ AccountState \in AccountType
         /\ AccountState.exposure = Total(cost) /\ AccountState.equity = equity
<1>1. Total(cost) \in Nat
  BY TotalIsNat DEF TypeOK
<1>2. Cardinality(OpenTrades) \in Nat
  BY FS_CardinalityType DEF IInv, Shape
<1>3. equity \in Nat /\ Held \in SUBSET Underlyings
  BY CycleAssumption DEF TypeOK, Held
<1>4. QED
  BY <1>1, <1>2, <1>3 DEF AccountState, AccountType, TypeOK

LEMMA InitMoney == Init => MoneyInv
<1> SUFFICES ASSUME Init PROVE MoneyInv
  OBVIOUS
<1>1. TypeOK
  <2>1. /\ WatchLength \in Nat /\ Cooldown \in Nat /\ 0 \in 0..WatchLength
        /\ Cooldown \in 0..Cooldown
    BY CapsAssumption, CycleAssumption
  <2>2. /\ halts = {} /\ breached = FALSE /\ equity \in Equities /\ pc = "idle" /\ pos = 0
        /\ halt_reason = FALSE /\ poisoned = FALSE /\ unswept = 0 /\ fresh = {}
    BY DEF Init
  <2>3. /\ open = [u \in Underlyings |-> 0] /\ cost = [u \in Underlyings |-> 0]
        /\ since_close = [u \in Underlyings |-> Cooldown] /\ account \in AccountType
    BY NoAccountTyped DEF Init
  <2>4. /\ open \in [Underlyings -> Nat] /\ cost \in [Underlyings -> Nat]
        /\ since_close \in [Underlyings -> 0..Cooldown]
        /\ \A u \in Underlyings : cost[u] > 0 <=> open[u] > 0
    BY <2>1, <2>3
  <2>5. QED
    BY <2>1, <2>2, <2>3, <2>4 DEF TypeOK
<1>2. SnapshotCovers
  BY DEF Init, SnapshotCovers
<1>3. QED
  BY <1>1, <1>2 DEF MoneyInv

LEMMA StartCycleMoney == ASSUME IInv, MoneyInv, StartCycle PROVE MoneyInv'
<1>1. /\ account' = AccountState /\ fresh' = {} /\ halt_reason' \in BOOLEAN
      /\ poisoned' \in BOOLEAN /\ pc' = "sweep" /\ pos' = 0 /\ unswept' = 0
      /\ UNCHANGED <<halts, breached, equity, open, cost, since_close>>
  BY DEF StartCycle, db, book
<1>2. 0 \in 0..WatchLength
  BY CycleAssumption
<1>3. TypeOK'
  BY <1>1, <1>2, AccountStateTyped DEF MoneyInv, TypeOK
<1>4. SnapshotCovers'
  <2>1. Total(cost) \in Nat
    BY TotalIsNat DEF MoneyInv, TypeOK
  <2>2. Total(cost') = Total(cost)
    BY <1>1
  <2>3. QED
    BY <1>1, <2>1, <2>2, AccountStateTyped DEF MoneyInv, SnapshotCovers
<1>5. QED
  BY <1>3, <1>4 DEF MoneyInv

(* A sweep sets money free, and all of an underlying's when its trade goes.*)
LEMMA SweepMoney ==
  ASSUME IInv, TypeOK, SweepExits
  PROVE  /\ open' \in [Underlyings -> Nat] /\ cost' \in [Underlyings -> Nat]
         /\ since_close' \in [Underlyings -> 0..Cooldown]
         /\ \A u \in Underlyings : cost'[u] <= cost[u] /\ (cost'[u] > 0 <=> open'[u] > 0)
         /\ poisoned' \in BOOLEAN /\ (poisoned => poisoned') /\ unswept' \in Nat
         /\ Total(cost') <= Total(cost)
<1>1. /\ open \in [Underlyings -> Nat] /\ cost \in [Underlyings -> Nat]
      /\ since_close \in [Underlyings -> 0..Cooldown] /\ poisoned \in BOOLEAN /\ unswept \in Nat
      /\ \A u \in Underlyings : cost[u] > 0 <=> open[u] > 0
  BY DEF TypeOK
<1>2. poisoned' \in BOOLEAN /\ (poisoned => poisoned') /\ unswept' \in Nat
  BY <1>1, SweepFacts
<1>3. /\ open' \in [Underlyings -> Nat] /\ cost' \in [Underlyings -> Nat]
      /\ since_close' \in [Underlyings -> 0..Cooldown]
      /\ \A u \in Underlyings : cost'[u] <= cost[u] /\ (cost'[u] > 0 <=> open'[u] > 0)
  <2>1. CASE poisoned
    <3>1. UNCHANGED <<open, cost, since_close>>
      BY <2>1 DEF SweepExits, book
    <3>2. QED
      BY <1>1, <3>1
  <2>2. CASE ~poisoned
    <3>1. PICK closed \in SUBSET Held : \E halved \in SUBSET (Divisible \ closed) :
            Leave(closed, halved)
      BY <2>2 DEF SweepExits
    <3>2. PICK halved \in SUBSET (Divisible \ closed) : Leave(closed, halved)
      BY <3>1
    <3>3. /\ open' = [u \in Underlyings |-> IF u \in closed THEN open[u] - 1 ELSE open[u]]
          /\ cost' = [u \in Underlyings |->
                        IF u \in closed THEN (IF open[u] = 1 THEN 0 ELSE cost[u] \div 2)
                        ELSE IF u \in halved THEN (cost[u] + 1) \div 2 ELSE cost[u]]
          /\ since_close' = [u \in Underlyings |-> IF u \in closed THEN 0 ELSE since_close[u]]
      BY <3>2 DEF Leave
    <3>4. \A u \in closed : open[u] = 1
      BY <1>1 DEF Held, IInv, OneOpenPerUnderlying
    <3>5. \A u \in halved : open[u] > 0 /\ u \in Underlyings /\ u \notin closed
      BY DEF Held, Divisible
    <3>6. \A n \in Nat : (n + 1) \div 2 \in Nat /\ (n > 0 => (n + 1) \div 2 <= n /\ (n + 1) \div 2 > 0)
      OBVIOUS
    <3>7. ASSUME NEW u \in Underlyings
          PROVE  /\ open'[u] \in Nat /\ cost'[u] \in Nat /\ since_close'[u] \in 0..Cooldown
                 /\ cost'[u] <= cost[u] /\ (cost'[u] > 0 <=> open'[u] > 0)
      <4>1. CASE u \in closed
        <5>1. open'[u] = 0 /\ cost'[u] = 0 /\ since_close'[u] = 0
          BY <3>3, <3>4, <4>1
        <5>2. QED
          BY <1>1, <5>1, CapsAssumption
      <4>2. CASE u \notin closed
        <5>1. /\ open'[u] = open[u] /\ since_close'[u] = since_close[u]
              /\ cost'[u] = IF u \in halved THEN (cost[u] + 1) \div 2 ELSE cost[u]
          BY <3>3, <4>2
        <5>2. CASE u \in halved
          BY <1>1, <3>5, <3>6, <5>1, <5>2
        <5>3. CASE u \notin halved
          BY <1>1, <5>1, <5>3
        <5>4. QED
          BY <5>2, <5>3
      <4>3. QED
        BY <4>1, <4>2
    <3>8. QED
      BY <3>3, <3>7
  <2>3. QED
    BY <1>1, <2>1, <2>2
<1>4. Total(cost') <= Total(cost)
  BY <1>1, <1>3, TotalOfLess
<1>5. QED
  BY <1>2, <1>3, <1>4

LEMMA SweepKeepsMoney == ASSUME IInv, MoneyInv, Sweep \/ FinalSweep PROVE MoneyInv'
<1> USE DEF MoneyInv
<1>1. SweepExits /\ UNCHANGED <<halts, breached, equity>>
  BY DEF Sweep, FinalSweep, db
<1>2. Total(cost) \in Nat /\ Total(cost') \in Nat /\ Total(cost') <= Total(cost)
  BY <1>1, TotalIsNat, SweepMoney DEF TypeOK
<1>3. CASE Sweep
  <2>1. /\ pc = "sweep" /\ UNCHANGED <<account, halt_reason, fresh>>
        /\ pc' \in {"final", "entry"} /\ pos' \in 0..WatchLength
    BY <1>3, CycleAssumption DEF Sweep, TypeOK
  <2>2. TypeOK'
    BY <1>1, <2>1, SweepMoney DEF TypeOK
  <2>3. SnapshotCovers'
    <3>1. account.exposure \in Nat
      BY DEF TypeOK, AccountType
    <3>2. ASSUME ~poisoned' PROVE Total(cost') <= account'.exposure /\ account'.equity = equity'
      <4>1. Total(cost) <= account.exposure /\ account.equity = equity
        BY <1>1, <2>1, <3>2, SweepMoney DEF SnapshotCovers
      <4>2. QED
        BY <1>1, <1>2, <2>1, <3>1, <4>1
    <3>3. QED
      BY <3>2 DEF SnapshotCovers
  <2>4. QED
    BY <2>2, <2>3
<1>4. CASE FinalSweep
  <2>1. /\ pc' = "update" /\ account' = NoAccount /\ halt_reason' = FALSE /\ fresh' = {}
        /\ UNCHANGED pos
    BY <1>4 DEF FinalSweep
  <2>2. TypeOK'
    BY <1>1, <2>1, SweepMoney, NoAccountTyped DEF TypeOK
  <2>3. SnapshotCovers'
    BY <2>1 DEF SnapshotCovers
  <2>4. QED
    BY <2>2, <2>3
<1>5. QED
  BY <1>3, <1>4

LEMMA NextPositionTyped ==
  ASSUME TypeOK, NextPosition
  PROVE  pc' \in {"sweep", "final", "entry"} /\ pos' \in 0..WatchLength
  BY CycleAssumption DEF TypeOK, NextPosition

LEMMA EntryRefusedMoney == ASSUME IInv, MoneyInv, EntryRefused PROVE MoneyInv'
<1>1. /\ pc = "entry" /\ NextPosition /\ poisoned' \in {poisoned, TRUE}
      /\ unswept' = unswept + 1
      /\ UNCHANGED <<halts, breached, equity, open, cost, since_close, account, halt_reason,
                     fresh>>
  BY DEF EntryRefused, db, book
<1>2. poisoned \in BOOLEAN /\ poisoned' \in BOOLEAN /\ (~poisoned' => ~poisoned)
  <2>1. poisoned \in BOOLEAN
    BY DEF MoneyInv, TypeOK
  <2>2. poisoned' \in BOOLEAN
    BY <1>1, <2>1, Zenon
  <2>3. ~poisoned' => ~poisoned
    BY <1>1, Zenon
  <2>4. QED
    BY <2>1, <2>2, <2>3
<1>3. TypeOK'
  BY <1>1, <1>2, NextPositionTyped DEF MoneyInv, TypeOK
<1>4. SnapshotCovers'
  BY <1>1, <1>2 DEF MoneyInv, SnapshotCovers
<1>5. QED
  BY <1>3, <1>4 DEF MoneyInv

(* Dividing a natural by another gives one, which times the divisor is no  *)
(* more; and multiplying keeps the order.                                  *)
LEMMA MulKeeps ==
  ASSUME NEW d \in Nat, NEW a \in Int, NEW b \in Int, a <= b
  PROVE  d * a <= d * b
<1>1. CASE a = b
  BY <1>1
<1>2. CASE a < b
  <2>1. d * a + d <= d * b /\ d * a \in Int /\ d * b \in Int
    BY <1>2, MulMono
  <2>2. QED
    BY <2>1
<1>3. QED
  BY <1>1, <1>2

LEMMA DivIsNat ==
  ASSUME NEW m \in Nat, NEW d \in Nat, d > 0
  PROVE  m \div d \in Nat /\ d * (m \div d) <= m
<1> DEFINE q == m \div d
           r == m % d
<1>1. q \in Int /\ r \in 0..(d - 1) /\ m = d * q + r
  BY DivMod
<1> HIDE DEF q, r
<1>2. d * q \in Int /\ d * 0 = 0
  BY <1>1
<1>3. d * q <= m
  BY <1>1, <1>2
<1>4. ~(q < 0)
  <2>1. q < 0 => d * q + d <= 0
    BY <1>1, <1>2, MulMono
  <2>2. QED
    BY <1>1, <1>2, <2>1
<1>5. QED
  BY <1>1, <1>3, <1>4 DEF q

LEMMA LeastIsLeast ==
  ASSUME NEW S \in SUBSET Nat, NEW x \in S
  PROVE  Least(S) \in Nat /\ Least(S) <= x
<1>1. \E y \in S : \A z \in S : y <= z
  BY LeastNumber
<1>2. QED
  BY <1>1 DEF Least

(* What size_position allows fits under the exposure cap of the snapshot.  *)
LEMMA SizeFits ==
  ASSUME NEW proposal, proposal.premium \in Nat \ {0},
         NEW a, a.equity \in Nat, a.exposure \in Nat, NEW budget \in Nat,
         NEW filled \in 1..SizePosition(proposal, a, budget)
  PROVE  filled <= budget /\ a.exposure + filled * proposal.premium <= ExposureCap(a.equity)
<1>1. PICK premium \in Nat \ {0}, equity_ \in Nat, exposure \in Nat :
        premium = proposal.premium /\ equity_ = a.equity /\ exposure = a.exposure
  OBVIOUS
<1> DEFINE cap == ExposureCap(equity_)
           room == cap - exposure
           share == IF room > 0 THEN room \div premium ELSE 0
           most == (MaxPremiumPct * equity_) \div (100 * premium)
           slice == cap \div (MaxConcurrent * premium)
           S == {budget} \cup {most, share, slice}
<1>2. cap \in Nat
  <2>1. ExposureCapPct * equity_ \in Nat
    BY CapsAssumption
  <2>2. QED
    BY <2>1, DivIsNat DEF ExposureCap
<1> HIDE DEF cap
<1>3. share \in Nat /\ (room > 0 => premium * share <= room)
  <2>1. CASE room > 0
    <3>1. room \in Nat /\ premium \in Nat /\ premium > 0
      BY <1>2, <2>1
    <3> HIDE DEF room
    <3>2. QED
      BY <2>1, <3>1, DivIsNat
  <2>2. CASE ~(room > 0)
    BY <2>2
  <2>3. QED
    BY <2>1, <2>2
<1>4. most \in Nat
  <2>1. MaxPremiumPct * equity_ \in Nat /\ 100 * premium \in Nat /\ 100 * premium > 0
    BY CapsAssumption
  <2>2. QED
    BY <2>1, DivIsNat
<1>5. slice \in Nat
  <2>1. MaxConcurrent * premium \in Nat /\ MaxConcurrent * premium > 0
    <3>1. MaxConcurrent \in Nat \ {0}
      BY CapsAssumption
    <3>2. MaxConcurrent * 1 <= MaxConcurrent * premium
      BY <3>1, MulKeeps
    <3>3. QED
      BY <3>1, <3>2
  <2>2. QED
    BY <1>2, <2>1, DivIsNat
<1>6. SizePosition(proposal, a, budget) = Least(S)
  BY <1>1 DEF SizePosition, CapLots, cap
<1> HIDE DEF share, most, slice
<1>7. S \in SUBSET Nat /\ budget \in S /\ share \in S
  BY <1>3, <1>4, <1>5
<1> HIDE DEF S
<1>8. filled \in Nat /\ filled >= 1 /\ filled <= budget /\ filled <= share
  <2>1. Least(S) \in Nat /\ Least(S) <= budget /\ Least(S) <= share
    BY <1>7, LeastIsLeast
  <2>2. QED
    BY <1>3, <1>6, <2>1
<1>9. room > 0
  BY <1>3, <1>8 DEF share
<1>10. premium * filled <= premium * share
  BY <1>3, <1>8, MulKeeps
<1>11. exposure + filled * premium <= cap
  <2>1. premium * filled = filled * premium /\ premium * filled \in Nat /\ premium * share \in Nat
    BY <1>3, <1>8
  <2>2. QED
    BY <1>2, <1>3, <1>9, <1>10, <2>1
<1>12. QED
  BY <1>1, <1>8, <1>11 DEF cap

(* What a fill commits fits under the cap, but for what it paid over mid.  *)
LEMMA FillMoney ==
  ASSUME IInv, MoneyInv, EntryFills
  PROVE  /\ pos \in Underlyings
         /\ cost' \in [Underlyings -> Nat] /\ cost'[pos] > 0
         /\ \A u \in Underlyings \ {pos} : cost'[u] = cost[u]
         /\ Total(cost) <= account.exposure =>
              Total(cost') <= ExposureCap(account.equity) + MaxBudgetLots * Slip
<1>1. pos \in Underlyings
  BY EntryFillsFacts, CycleAssumption DEF IInv, SweepsCounted, MoneyInv, TypeOK, Underlyings
<1>2. PICK premium \in Premiums, budget_lots \in 1..MaxBudgetLots, paid_over \in 0..Slip :
        \E filled \in 1..SizePosition([underlying |-> pos, premium |-> premium,
                                       in_window |-> TRUE, liquid |-> TRUE],
                                      account, budget_lots) :
          cost' = [cost EXCEPT ![pos] = @ + filled * (premium + paid_over)]
  BY DEF EntryFills
<1> DEFINE proposal == [underlying |-> pos, premium |-> premium, in_window |-> TRUE,
                        liquid |-> TRUE]
<1>3. PICK filled \in 1..SizePosition(proposal, account, budget_lots) :
        cost' = [cost EXCEPT ![pos] = @ + filled * (premium + paid_over)]
  BY <1>2
<1>4. /\ proposal.premium = premium /\ premium \in Nat \ {0} /\ budget_lots \in Nat
      /\ MaxBudgetLots \in Nat /\ Slip \in Nat /\ paid_over \in Nat /\ paid_over <= Slip
      /\ budget_lots <= MaxBudgetLots
  BY CycleAssumption
<1> HIDE DEF proposal
<1>5. account.equity \in Nat /\ account.exposure \in Nat
  BY DEF MoneyInv, TypeOK, AccountType
<1>6. filled \in Nat \ {0}
  OBVIOUS
<1>7. /\ filled <= budget_lots
      /\ account.exposure + filled * premium <= ExposureCap(account.equity)
  BY <1>4, <1>5, SizeFits
<1>8. filled * paid_over <= MaxBudgetLots * Slip
  <2>1. filled * paid_over <= filled * Slip
    BY <1>4, <1>6, MulKeeps
  <2>2. Slip * filled <= Slip * MaxBudgetLots
    BY <1>4, <1>6, <1>7, MulKeeps
  <2>3. /\ Slip * filled = filled * Slip /\ Slip * MaxBudgetLots = MaxBudgetLots * Slip
        /\ filled * paid_over \in Nat /\ filled * Slip \in Nat /\ MaxBudgetLots * Slip \in Nat
    BY <1>4, <1>6
  <2>4. QED
    BY <2>1, <2>2, <2>3
<1> DEFINE x == filled * (premium + paid_over)
<1>9. x = filled * premium + filled * paid_over /\ filled * premium \in Nat
      /\ filled * paid_over \in Nat /\ x \in Nat
  BY <1>4, <1>6
<1>10. x > 0
  <2>1. filled * 1 <= filled * (premium + paid_over)
    BY <1>4, <1>6, MulKeeps
  <2>2. QED
    BY <1>6, <1>9, <2>1
<1>11. ExposureCap(account.equity) \in Nat /\ MaxBudgetLots * Slip \in Nat
  <2>1. ExposureCapPct * account.equity \in Nat
    BY <1>5, CapsAssumption
  <2>2. QED
    BY <1>4, <2>1, DivIsNat DEF ExposureCap
<1> HIDE DEF x
<1>12. account.exposure + x <= ExposureCap(account.equity) + MaxBudgetLots * Slip
  BY <1>5, <1>7, <1>8, <1>9, <1>11
<1>13. cost \in [Underlyings -> Nat] /\ cost' = [cost EXCEPT ![pos] = @ + x]
  BY <1>3 DEF MoneyInv, TypeOK, x
<1>14. /\ cost' \in [Underlyings -> Nat] /\ cost'[pos] > 0
       /\ \A u \in Underlyings \ {pos} : cost'[u] = cost[u]
  BY <1>1, <1>9, <1>10, <1>13
<1>15. Total(cost') = Total(cost) + x /\ Total(cost) \in Nat
  BY <1>1, <1>9, <1>13, TotalOfMore, TotalIsNat
<1>16. QED
  BY <1>1, <1>5, <1>9, <1>11, <1>12, <1>14, <1>15

LEMMA EntryFillsMoney == ASSUME IInv, MoneyInv, EntryFills PROVE MoneyInv'
<1>1. /\ pc' = "filled" /\ open' = [open EXCEPT ![pos] = @ + 1]
      /\ unswept' = unswept + 1
      /\ UNCHANGED <<halts, breached, equity, since_close, pos, account, halt_reason, poisoned,
                     fresh>>
  BY DEF EntryFills, db
<1>2. /\ open \in [Underlyings -> Nat] /\ \A u \in Underlyings : cost[u] > 0 <=> open[u] > 0
  BY DEF MoneyInv, TypeOK
<1>3. /\ pos \in Underlyings /\ cost' \in [Underlyings -> Nat] /\ cost'[pos] > 0
      /\ \A u \in Underlyings \ {pos} : cost'[u] = cost[u]
  BY FillMoney
<1>4. /\ open' \in [Underlyings -> Nat]
      /\ \A u \in Underlyings : cost'[u] > 0 <=> open'[u] > 0
  BY <1>1, <1>2, <1>3
<1>5. TypeOK'
  BY <1>1, <1>3, <1>4 DEF MoneyInv, TypeOK
<1>6. SnapshotCovers'
  BY <1>1 DEF SnapshotCovers
<1>7. QED
  BY <1>5, <1>6 DEF MoneyInv

LEMMA RebuildAccountMoney == ASSUME IInv, MoneyInv, RebuildAccount PROVE MoneyInv'
<1>1. /\ pc = "filled" /\ NextPosition
      /\ UNCHANGED <<halts, breached, equity, open, cost, since_close, halt_reason, poisoned,
                     unswept, fresh>>
  BY DEF RebuildAccount, db, book
<1>2. PICK kept \in SUBSET Halts :
        account' = [AccountState EXCEPT !.halts = (halts \ kept) \cup (account.halts \cap kept)]
  BY DEF RebuildAccount
<1>3. (halts \ kept) \cup (account.halts \cap kept) \in SUBSET Halts
  BY DEF MoneyInv, TypeOK
<1>4. AccountState \in AccountType
  BY AccountStateTyped DEF MoneyInv
<1>5. /\ account' \in AccountType /\ account'.exposure = AccountState.exposure
      /\ account'.equity = AccountState.equity
  <2> DEFINE seen == (halts \ kept) \cup (account.halts \cap kept)
  <2>1. account' = [AccountState EXCEPT !.halts = seen] /\ seen \in SUBSET Halts
    BY <1>2, <1>3
  <2> HIDE DEF seen
  <2>2. QED
    BY <1>4, <2>1 DEF AccountType
<1>6. TypeOK'
  BY <1>1, <1>5, NextPositionTyped DEF MoneyInv, TypeOK
<1>7. SnapshotCovers'
  <2>1. Total(cost) \in Nat /\ Total(cost') = Total(cost)
    BY <1>1, TotalIsNat DEF MoneyInv, TypeOK
  <2>2. account'.exposure = Total(cost) /\ account'.equity = equity
    BY <1>5, AccountStateTyped DEF MoneyInv
  <2>3. QED
    BY <1>1, <2>1, <2>2 DEF SnapshotCovers
<1>8. QED
  BY <1>6, <1>7 DEF MoneyInv

LEMMA RebuildFailsMoney == ASSUME IInv, MoneyInv, RebuildFails PROVE MoneyInv'
<1>1. /\ NextPosition /\ poisoned' = TRUE
      /\ UNCHANGED <<halts, breached, equity, open, cost, since_close, account, halt_reason,
                     unswept, fresh>>
  BY DEF RebuildFails, db, book
<1>2. TypeOK'
  BY <1>1, NextPositionTyped DEF MoneyInv, TypeOK
<1>3. SnapshotCovers'
  BY <1>1 DEF SnapshotCovers
<1>4. QED
  BY <1>2, <1>3 DEF MoneyInv

LEMMA BetweenCyclesMoney ==
  ASSUME MoneyInv, BetweenCycles, UNCHANGED book,
         halts' \subseteq Halts, breached' \in BOOLEAN, equity' \in Equities
  PROVE  MoneyInv'
<1>1. /\ pc' = "idle" /\ pos' = 0 /\ account' = NoAccount /\ halt_reason' = FALSE
      /\ poisoned' = FALSE /\ unswept' = 0 /\ fresh' = {}
      /\ UNCHANGED <<open, cost, since_close>>
  BY DEF BetweenCycles, book
<1>2. 0 \in 0..WatchLength
  BY CycleAssumption
<1>3. TypeOK'
  BY <1>1, <1>2, NoAccountTyped DEF MoneyInv, TypeOK
<1>4. SnapshotCovers'
  BY <1>1 DEF SnapshotCovers
<1>5. QED
  BY <1>3, <1>4 DEF MoneyInv

LEMMA HaltMoney ==
  ASSUME MoneyInv, NEW h \in Halts, Engage(h) \/ Release(h)
  PROVE  MoneyInv'
<1>1. UNCHANGED <<breached, equity, open, cost, since_close, pc, pos, account, halt_reason,
                  poisoned, unswept>>
  BY DEF Engage, Release, book, engine
<1>2. halts' \subseteq Halts /\ fresh' \subseteq Halts
  BY DEF Engage, Release, MoneyInv, TypeOK
<1>3. TypeOK'
  BY <1>1, <1>2 DEF MoneyInv, TypeOK
<1>4. SnapshotCovers'
  BY <1>1 DEF MoneyInv, SnapshotCovers
<1>5. QED
  BY <1>3, <1>4 DEF MoneyInv

LEMMA MinuteMoney == ASSUME MoneyInv, Minute PROVE MoneyInv'
<1>1. /\ since_close' = Aged(since_close)
      /\ account' = IF pc \in {"idle", "update"} THEN NoAccount
                    ELSE [account EXCEPT !.since_close = Aged(@)]
      /\ UNCHANGED <<halts, breached, equity, open, cost, pc, pos, halt_reason, poisoned,
                     unswept, fresh>>
  BY DEF Minute, db
<1>2. \A ages \in [Underlyings -> 0..Cooldown] : Aged(ages) \in [Underlyings -> 0..Cooldown]
  BY CapsAssumption DEF Aged
<1>3. account \in AccountType /\ since_close \in [Underlyings -> 0..Cooldown]
  BY DEF MoneyInv, TypeOK
<1>4. Aged(account.since_close) \in [Underlyings -> 0..Cooldown]
  BY <1>2, <1>3 DEF AccountType
<1>5. pc \notin {"idle", "update"} =>
        /\ account' \in AccountType /\ account'.exposure = account.exposure
        /\ account'.equity = account.equity
  BY <1>1, <1>3, <1>4 DEF AccountType
<1>6. TypeOK'
  BY <1>1, <1>2, <1>3, <1>5, NoAccountTyped DEF MoneyInv, TypeOK
<1>7. SnapshotCovers'
  BY <1>1, <1>5 DEF MoneyInv, SnapshotCovers
<1>8. QED
  BY <1>6, <1>7 DEF MoneyInv

LEMMA StepMoney == IInv /\ MoneyInv /\ [Next]_vars => MoneyInv'
<1> SUFFICES ASSUME IInv, MoneyInv, [Next]_vars PROVE MoneyInv'
  OBVIOUS
<1>1. CASE StartCycle
  BY <1>1, StartCycleMoney
<1>2. CASE Sweep \/ FinalSweep
  BY <1>2, SweepKeepsMoney
<1>3. CASE EntryRefused
  BY <1>3, EntryRefusedMoney
<1>4. CASE EntryFills
  BY <1>4, EntryFillsMoney
<1>5. CASE RebuildAccount
  BY <1>5, RebuildAccountMoney
<1>6. CASE RebuildFails
  BY <1>6, RebuildFailsMoney
<1>7. CASE EndCycle
  <2>1. BetweenCycles /\ UNCHANGED book
    BY <1>7 DEF EndCycle
  <2>2. halts' \subseteq Halts /\ breached' \in BOOLEAN /\ equity' \in Equities
    BY <1>7 DEF EndCycle, db, MoneyInv, TypeOK, Halts
  <2>3. QED
    BY <2>1, <2>2, BetweenCyclesMoney
<1>8. CASE Crash
  <2>1. BetweenCycles /\ UNCHANGED book
    BY <1>8 DEF Crash
  <2>2. halts' \subseteq Halts /\ breached' \in BOOLEAN /\ equity' \in Equities
    BY <1>8 DEF Crash, db, MoneyInv, TypeOK
  <2>3. QED
    BY <2>1, <2>2, BetweenCyclesMoney
<1>9. ASSUME NEW h \in Halts, Engage(h) \/ Release(h) PROVE MoneyInv'
  BY <1>9, HaltMoney
<1>10. CASE Minute
  BY <1>10, MinuteMoney
<1>11. CASE UNCHANGED vars
  BY <1>11 DEF vars, db, book, engine, MoneyInv, TypeOK, SnapshotCovers
<1>12. QED
  BY <1>1, <1>2, <1>3, <1>4, <1>5, <1>6, <1>7, <1>8, <1>9, <1>10, <1>11 DEF Next

LEMMA MoneyInductive == Spec => []MoneyInv
  BY InitMoney, StepMoney, Inductive, PTL DEF Spec

(* Rows, snapshot and loop variables have their types, and an underlying   *)
(* costs something exactly while a trade is open on it.                    *)
THEOREM TypeCorrect == Spec => []TypeOK
<1>1. MoneyInv => TypeOK
  BY DEF MoneyInv
<1>2. QED
  BY <1>1, MoneyInductive, PTL

(* For any premiums, caps, budgets and slippage: what an entry leaves      *)
(* committed is over the exposure cap by no more than that one fill paid   *)
(* over mid, since the next entry is sized against what it left.           *)
THEOREM ExposureIsCapped == Spec => ExposureCapKept
<1>1. IInv /\ MoneyInv /\ [Next]_vars =>
        [\A u \in Underlyings : Enters(u) =>
           Total(cost') <= ExposureCap(equity) + MaxBudgetLots * Slip]_vars
  <2> SUFFICES ASSUME IInv, MoneyInv, [Next]_vars, NEW u \in Underlyings, Enters(u)
               PROVE  Total(cost') <= ExposureCap(equity) + MaxBudgetLots * Slip
    OBVIOUS
  <2>1. EntryFills
    BY OnlyFillsEnter
  <2>2. Total(cost) <= account.exposure /\ account.equity = equity
    BY <2>1, EntryFillsFacts DEF MoneyInv, SnapshotCovers
  <2>3. QED
    BY <2>1, <2>2, FillMoney
<1>2. QED
  BY <1>1, Inductive, MoneyInductive, PTL DEF ExposureCapKept, Spec
=============================================================================
