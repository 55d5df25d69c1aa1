--------------------------- MODULE Sessions_proofs ---------------------------
(***************************************************************************)
(* What tables keep that any number of sessions write side by side: the    *)
(* promotion ledger, the log of events, the watchlist, the instrument      *)
(* master; and what the limiter keeps that a provider's clients share.     *)
(***************************************************************************)
EXTENDS Promotion, EventLog, Watchlist, InstrumentMaster, RateLimiter,
        FiniteSetTheorems, SequenceTheorems, WellFoundedInduction, TLAPS

-----------------------------------------------------------------------------
(* Promotion.                                                              *)
(* What a request has read: a legal transition from the status the ledger  *)
(* led to when it had as many rows as the request saw.                     *)
ReadTrue(q) ==
  /\ q.to \in Transitions[q.from] /\ q.from \in Statuses
  /\ q.seen \in 0..Len(ledger)
  /\ q.from = Before(q.seen + 1)

LedgerRows == [to : Statuses, from : Statuses, seen : Nat]

LedgerType ==
  /\ status \in Statuses /\ ledger \in Seq(LedgerRows)
  /\ request \in [Requests -> LedgerRows \cup {NoRequest}]

RequestsTrue ==
  \A r \in Requests : request[r] # NoRequest => ReadTrue(request[r])

LedgerInv == LedgerType /\ LedgerExplainsStatus /\ RequestsTrue

-----------------------------------------------------------------------------
(* Every status a transition leads to is one that has transitions.         *)
LEMMA TransitionsClosed ==
  /\ "draft" \in Statuses
  /\ \A s \in Statuses : Transitions[s] \subseteq Statuses
  BY DEF Statuses, Transitions

(* A request that is there is not the mark of none.                        *)
LEMMA RowIsNoMark == NoRequest \notin LedgerRows
  BY DEF NoRequest, LedgerRows, Statuses, Transitions

LEMMA InitLedger == PromotionInit => LedgerInv
<1> SUFFICES ASSUME PromotionInit PROVE LedgerInv
  OBVIOUS
<1>1. Len(ledger) = 0 /\ ledger \in Seq(LedgerRows)
  BY DEF PromotionInit
<1>2. QED
  BY <1>1, TransitionsClosed
  DEF PromotionInit, LedgerInv, LedgerType, LedgerExplainsStatus, RequestsTrue, Before

(* What the ledger led to stays so when a row is added.                    *)
LEMMA BeforeStays ==
  ASSUME ledger \in Seq(LedgerRows), NEW row \in LedgerRows, ledger' = Append(ledger, row),
         NEW k \in 1..(Len(ledger) + 1)
  PROVE  Before(k)' = Before(k)
  BY DEF Before

(* A request that reads the status reads where the ledger leads.           *)
LEMMA ReadKeeps ==
  ASSUME LedgerInv, NEW r \in Requests, NEW to \in Statuses, ReadStatus(r, to)
  PROVE  LedgerInv'
<1> DEFINE q == [to |-> to, from |-> status, seen |-> Len(ledger)]
<1>1. q \in LedgerRows /\ ReadTrue(q)
  BY DEF LedgerInv, LedgerType, LedgerExplainsStatus, ReadStatus, ReadTrue, LedgerRows
<1>2. UNCHANGED <<status, ledger>> /\ request' = [request EXCEPT ![r] = q]
  BY DEF ReadStatus
<1>3. LedgerType' /\ LedgerExplainsStatus'
  BY <1>1, <1>2 DEF LedgerInv, LedgerType, LedgerExplainsStatus, Before
<1>4. RequestsTrue'
  BY <1>1, <1>2 DEF LedgerInv, LedgerType, RequestsTrue, ReadTrue, Before
<1>5. QED
  BY <1>3, <1>4 DEF LedgerInv

(* A commit adds a row that tells what its request had read.               *)
LEMMA PromoteKeeps ==
  ASSUME LedgerInv, NEW r \in Requests, Promote(r)
  PROVE  LedgerInv'
<1> DEFINE q == request[r]
<1>1. q \in LedgerRows /\ ReadTrue(q)
  BY DEF LedgerInv, LedgerType, RequestsTrue, Promote
<1>2. /\ status' = q.to /\ ledger' = Append(ledger, q)
      /\ request' = [request EXCEPT ![r] = NoRequest]
  BY DEF Promote
<1>3. LedgerType'
  BY <1>1, <1>2 DEF LedgerInv, LedgerType, LedgerRows
<1>4. Len(ledger') = Len(ledger) + 1 /\ ledger'[Len(ledger) + 1] = q
      /\ \A k \in 1..Len(ledger) : ledger'[k] = ledger[k]
  BY <1>1, <1>2 DEF LedgerInv, LedgerType
<1>5. \A k \in 1..(Len(ledger) + 1) : Before(k)' = Before(k)
  BY <1>1, <1>2, BeforeStays DEF LedgerInv, LedgerType
<1>6. LedgerExplainsStatus'
  <2>1. (status = Before(Len(ledger) + 1))'
    <3>1. Len(ledger) \in Nat
      BY DEF LedgerInv, LedgerType
    <3>2. QED
      BY <1>2, <1>4, <3>1 DEF Before
  <2>2. ASSUME NEW k \in 1..(Len(ledger) + 1)
        PROVE  (/\ ledger[k].to \in Transitions[ledger[k].from]
                /\ ledger[k].seen < k
                /\ ledger[k].from = Before(ledger[k].seen + 1))'
    <3>1. CASE k \in 1..Len(ledger)
      <4>1. ledger[k] \in LedgerRows
        BY <3>1 DEF LedgerInv, LedgerType
      <4>2. ledger[k].seen \in Nat
        BY <4>1 DEF LedgerRows
      <4>3. /\ ledger[k].to \in Transitions[ledger[k].from]
            /\ ledger[k].seen < k
            /\ ledger[k].from = Before(ledger[k].seen + 1)
        BY <3>1 DEF LedgerInv, LedgerExplainsStatus
      <4>4. Before(ledger[k].seen + 1)' = Before(ledger[k].seen + 1)
        <5>1. ledger[k].seen + 1 \in 1..(Len(ledger) + 1) /\ ledger'[k] = ledger[k]
          BY <3>1, <4>2, <4>3, <1>4 DEF LedgerInv, LedgerType
        <5>2. QED
          BY <5>1, <1>4, <4>2 DEF Before, LedgerInv, LedgerType
      <4>5. QED
        BY <3>1, <4>3, <4>4, <1>4
    <3>2. CASE k = Len(ledger) + 1
      <4>1. q.seen + 1 \in 1..(Len(ledger) + 1) /\ ledger'[k] = q
        BY <3>2, <1>1, <1>4 DEF ReadTrue, LedgerInv, LedgerType
      <4>2. Before(ledger[k].seen + 1)' = Before(q.seen + 1)
        BY <4>1, <1>4, <1>1 DEF Before, LedgerInv, LedgerType, ReadTrue
      <4>3. QED
        BY <3>2, <4>1, <4>2, <1>1 DEF ReadTrue, LedgerInv, LedgerType
    <3>3. QED
      BY <3>1, <3>2 DEF LedgerInv, LedgerType
  <2>3. QED
    BY <1>4, <2>1, <2>2 DEF LedgerExplainsStatus, LedgerInv, LedgerType
<1>7. RequestsTrue'
  <2>1. ASSUME NEW s \in Requests, request'[s] # NoRequest
        PROVE  ReadTrue(request[s])'
    <3>1. request'[s] = request[s] /\ ReadTrue(request[s])
      BY <1>2, <2>1 DEF LedgerInv, LedgerType, RequestsTrue
    <3>2. request[s].seen + 1 \in 1..(Len(ledger) + 1)
      BY <3>1 DEF ReadTrue, LedgerInv, LedgerType
    <3>3. Before(request[s].seen + 1)' = Before(request[s].seen + 1)
      BY <3>1, <3>2, <1>4 DEF Before, ReadTrue, LedgerInv, LedgerType
    <3>4. QED
      BY <3>1, <3>2, <3>3, <1>4 DEF ReadTrue, LedgerInv, LedgerType
  <2>2. QED
    BY <2>1 DEF RequestsTrue
<1>8. QED
  BY <1>3, <1>6, <1>7 DEF LedgerInv

LEMMA StepLedger == LedgerInv /\ [PromotionNext]_promotion_vars => LedgerInv'
<1> SUFFICES ASSUME LedgerInv, [PromotionNext]_promotion_vars PROVE LedgerInv'
  OBVIOUS
<1>1. ASSUME NEW r \in Requests, NEW to \in Statuses, ReadStatus(r, to) PROVE LedgerInv'
  BY <1>1, ReadKeeps
<1>2. ASSUME NEW r \in Requests, Promote(r) PROVE LedgerInv'
  BY <1>2, PromoteKeeps
<1>3. ASSUME NEW r \in Requests, GiveUp(r) PROVE LedgerInv'
  BY <1>3
  DEF GiveUp, LedgerInv, LedgerType, LedgerExplainsStatus, RequestsTrue, ReadTrue, Before
<1>4. CASE UNCHANGED promotion_vars
  BY <1>4 DEF promotion_vars, LedgerInv, LedgerType, LedgerExplainsStatus, RequestsTrue,
              ReadTrue, Before
<1>5. QED
  BY <1>1, <1>2, <1>3, <1>4 DEF PromotionNext

(* The last row of the ledger leads to the status, and every row is a      *)
(* legal transition from what its request had read, for any number of      *)
(* overlapping requests and rows.                                          *)
THEOREM LedgerStands == PromotionSpec => []LedgerExplainsStatus
<1>1. LedgerInv => LedgerExplainsStatus
  BY DEF LedgerInv
<1>2. QED
  BY <1>1, InitLedger, StepLedger, PTL DEF PromotionSpec

-----------------------------------------------------------------------------
(* EventLog.                                                               *)
(* A row is what its five columns are.                                     *)
IsRow(r) ==
  /\ r = [trade |-> r.trade, seq |-> r.seq, event |-> r.event,
          prev |-> r.prev, hash |-> r.hash]
  /\ r.seq \in Nat \ {0}

(* A set of rows is a chain: of one trade the sequence numbers run from 1  *)
(* without a gap or a repetition, and each row starts from the hash of the *)
(* one before.                                                             *)
LinkedIn(r, events) ==
  IF r.seq = 1 THEN r.prev = Genesis
  ELSE \E q \in events : q.trade = r.trade /\ q.seq = r.seq - 1 /\ q.hash = r.prev

Chain(events) ==
  /\ \A r, q \in events : SameKey(r, q) => r = q
  /\ \A r \in events : LinkedIn(r, events)

(* Whatever happened to the table: what writers inserted has its own hash, *)
(* and every hash in the table is that of such a row, or the first one.    *)
RowsType ==
  /\ \A r \in table \cup appended : IsRow(r) /\ r.seq <= MaxSeq
  /\ \A w \in Writers : tip[w] # NoRowToInsert => IsRow(tip[w]) /\ HashHolds(tip[w])
  /\ tip = [w \in Writers |-> tip[w]]
  /\ tampered \in Nat /\ mixed \in BOOLEAN

HashesHaveRows ==
  /\ \A a \in appended : HashHolds(a)
  /\ \A r \in table : r.hash = Genesis \/ \E a \in appended : a.hash = r.hash

(* Before anything is changed the table is what was inserted; as long as   *)
(* nothing is inserted after, what was inserted is a chain.                *)
Untouched ==
  /\ tampered = 0 => table = appended /\ ~mixed
  /\ ~mixed => Chain(appended)
  /\ tampered = 0 =>
       \A w \in Writers : tip[w] # NoRowToInsert => LinkedIn(tip[w], table)

LogInv == RowsType /\ HashesHaveRows /\ Untouched

-----------------------------------------------------------------------------
(* A bounded set of rows has a last one.                                   *)
LEMMA LastExists ==
  ASSUME NEW events, events # {}, NEW n \in Nat,
         \A r \in events : r.seq \in Nat /\ r.seq <= n
  PROVE  LastOf(events) \in events /\ \A q \in events : q.seq <= LastOf(events).seq
<1> DEFINE gaps == {n - r.seq : r \in events}
<1>1. gaps \subseteq Nat /\ gaps # {}
  OBVIOUS
<1>2. PICK g \in gaps : \A h \in gaps : <<h, g>> \notin OpToRel(<, Nat)
  <2> HIDE DEF gaps
  <2>1. QED
    BY <1>1, NatLessThanWellFounded, WFMin
<1>3. \A h \in gaps : ~(h < g)
  <2> HIDE DEF gaps
  <2>1. QED
    BY <1>1, <1>2, Zenon DEF OpToRel
<1>4. PICK r \in events : g = n - r.seq
  OBVIOUS
<1>5. \A q \in events : q.seq <= r.seq
  <2>1. SUFFICES ASSUME NEW q \in events PROVE q.seq <= r.seq
    OBVIOUS
  <2>2. ~(n - q.seq < n - r.seq)
    BY <1>3, <1>4
  <2>3. q.seq \in Nat /\ r.seq \in Nat
    OBVIOUS
  <2>4. QED
    BY <2>2, <2>3
<1>6. QED
  BY <1>5 DEF LastOf

(* Two rows of one hash that both hold are one row.                        *)
LEMMA HashDecides ==
  ASSUME NEW r, NEW q, IsRow(r), IsRow(q), HashHolds(r), HashHolds(q), r.hash = q.hash
  PROVE  r = q
  BY DEF IsRow, HashHolds, ComputeHash

(* No hash is the first one.                                               *)
LEMMA HashIsNoGenesis ==
  ASSUME NEW r, HashHolds(r)
  PROVE  r.hash # Genesis
  BY DEF HashHolds, ComputeHash, Genesis

-----------------------------------------------------------------------------
LEMMA InitLog == LogInit => LogInv
<1> SUFFICES ASSUME LogInit PROVE LogInv
  OBVIOUS
<1>1. /\ table = {} /\ appended = {} /\ tampered = 0 /\ mixed = FALSE
      /\ tip = [w \in Writers |-> NoRowToInsert]
  BY DEF LogInit
<1>2. RowsType
  BY <1>1 DEF RowsType
<1>3. HashesHaveRows
  BY <1>1 DEF HashesHaveRows
<1>4. Untouched
  BY <1>1 DEF Untouched, Chain
<1>5. QED
  BY <1>2, <1>3, <1>4 DEF LogInv

(* The row a writer is about to insert follows the last one it sees.       *)
LEMMA NextRowType ==
  ASSUME LogInv, LogAssumption, NEW trade \in TradeIds, NEW event \in Events
  PROVE  /\ IsRow(NextRow(trade, event)) /\ HashHolds(NextRow(trade, event))
         /\ LinkedIn(NextRow(trade, event), table)
<1> DEFINE events == OfTrade(trade, table)
<1>1. CASE events = {}
  BY <1>1 DEF NextRow, IsRow, HashHolds, LinkedIn
<1>2. CASE events # {}
  <2>1. \A r \in events : r.seq \in Nat /\ r.seq <= MaxSeq
    BY DEF OfTrade, LogInv, RowsType, IsRow
  <2>2. LastOf(events) \in events
    BY <1>2, <2>1, LastExists, LogAssumption DEF LogAssumption
  <2>3. /\ LastOf(events) \in table /\ LastOf(events).trade = trade
        /\ LastOf(events).seq \in Nat \ {0}
    BY <2>2 DEF OfTrade, LogInv, RowsType, IsRow
  <2>4. QED
    BY <1>2, <2>3 DEF NextRow, IsRow, HashHolds, LinkedIn
<1>3. QED
  BY <1>1, <1>2

LEMMA ReadTipKeeps ==
  ASSUME LogInv, NEW w \in Writers, NEW trade \in TradeIds, NEW event \in Events,
         ReadTip(w, trade, event)
  PROVE  LogInv'
<1> DEFINE x == NextRow(trade, event)
<1>1. IsRow(x) /\ HashHolds(x) /\ LinkedIn(x, table)
  BY NextRowType, LogAssumption
<1>2. tip' = [tip EXCEPT ![w] = x] /\ UNCHANGED <<table, appended, tampered, mixed>>
  BY DEF ReadTip
<1>3. RowsType'
  BY <1>1, <1>2 DEF LogInv, RowsType
<1>4. HashesHaveRows'
  BY <1>2 DEF LogInv, HashesHaveRows
<1>5. Untouched'
  BY <1>1, <1>2 DEF LogInv, RowsType, Untouched
<1>6. QED
  BY <1>3, <1>4, <1>5 DEF LogInv

(* An insert into an untouched table makes the chain one longer; one into  *)
(* a table that was touched only adds a row with its own hash.             *)
LEMMA InsertKeeps ==
  ASSUME LogInv, NEW w \in Writers, Insert(w)
  PROVE  LogInv'
<1> DEFINE x == tip[w]
<1>1. /\ x # NoRowToInsert /\ IsRow(x) /\ HashHolds(x) /\ x.seq <= MaxSeq
      /\ \A r \in table : ~SameKey(r, x)
  BY DEF Insert, LogInv, RowsType
<1>2. /\ table' = table \cup {x} /\ appended' = appended \cup {x}
      /\ tip' = [tip EXCEPT ![w] = NoRowToInsert]
      /\ mixed' = (tampered > 0) /\ tampered' = tampered
  BY DEF Insert
<1>3. RowsType'
  BY <1>1, <1>2 DEF LogInv, RowsType
<1>4. HashesHaveRows'
  BY <1>1, <1>2 DEF LogInv, HashesHaveRows
<1>5. ASSUME ~mixed' PROVE tampered = 0 /\ table = appended /\ Chain(appended)
  <2>1. ~(tampered > 0) /\ tampered \in Nat
    BY <1>2, <1>5 DEF LogInv, RowsType
  <2>2. tampered = 0
    BY <2>1
  <2>3. QED
    BY <2>2 DEF LogInv, Untouched
<1>6. ASSUME ~mixed' PROVE Chain(appended')
  <2>1. LinkedIn(x, table)
    BY <1>1, <1>5, <1>6 DEF LogInv, Untouched
  <2>2. \A r \in appended' : LinkedIn(r, appended')
    BY <1>2, <1>5, <1>6, <2>1 DEF Chain, LinkedIn
  <2>3. \A r, q \in appended' : SameKey(r, q) => r = q
    BY <1>1, <1>2, <1>5, <1>6 DEF Chain, SameKey
  <2>4. QED
    BY <2>2, <2>3 DEF Chain
<1>7. Untouched'
  <2>1. (tampered = 0 => table = appended /\ ~mixed)'
    BY <1>2 DEF LogInv, RowsType, Untouched
  <2>2. (~mixed => Chain(appended))'
    BY <1>6
  <2>3. ASSUME tampered = 0, NEW v \in Writers, tip'[v] # NoRowToInsert
        PROVE  LinkedIn(tip'[v], table')
    BY <1>2, <2>3 DEF LogInv, RowsType, Untouched, LinkedIn
  <2>4. QED
    BY <1>2, <2>1, <2>2, <2>3 DEF Untouched
<1>8. QED
  BY <1>3, <1>4, <1>7 DEF LogInv

(* A change behind the log's back leaves hashes that some row had.         *)
LEMMA TamperKeeps ==
  ASSUME LogInv, NEW r, Delete(r) \/ (r \in Invented /\ Forge(r))
  PROVE  LogInv'
<1>1. /\ UNCHANGED <<tip, appended, mixed>> /\ tampered' = tampered + 1
      /\ table' \subseteq table \cup {r}
      /\ r \in table' => r \in table \/ r \in Invented
  BY DEF Delete, Forge
<1>2. ASSUME r \in Invented
      PROVE  /\ IsRow(r) /\ r.seq <= MaxSeq
             /\ r.hash = Genesis \/ \E a \in appended : a.hash = r.hash
  <2>1. IsRow(r) /\ r.seq <= MaxSeq /\ r.hash \in Hashes
    BY <1>2, LogAssumption DEF Invented, IsRow, LogAssumption
  <2>2. QED
    BY <2>1 DEF Hashes, LogInv, HashesHaveRows
<1>3. RowsType'
  BY <1>1, <1>2 DEF LogInv, RowsType
<1>4. HashesHaveRows'
  BY <1>1, <1>2 DEF LogInv, HashesHaveRows
<1>5. Untouched'
  BY <1>1 DEF LogInv, RowsType, Untouched
<1>6. QED
  BY <1>3, <1>4, <1>5 DEF LogInv

LEMMA StepLog == LogInv /\ [LogNext]_log_vars => LogInv'
<1> SUFFICES ASSUME LogInv, [LogNext]_log_vars PROVE LogInv'
  OBVIOUS
<1>1. ASSUME NEW w \in Writers, NEW trade \in TradeIds, NEW event \in Events,
             ReadTip(w, trade, event)
      PROVE  LogInv'
  BY <1>1, ReadTipKeeps
<1>2. ASSUME NEW w \in Writers, Insert(w) PROVE LogInv'
  BY <1>2, InsertKeeps
<1>3. ASSUME NEW w \in Writers, Drop(w) PROVE LogInv'
  BY <1>3 DEF Drop, LogInv, RowsType, HashesHaveRows, Untouched
<1>4. ASSUME NEW r \in table, Delete(r) PROVE LogInv'
  BY <1>4, TamperKeeps
<1>5. ASSUME NEW r \in Invented, Forge(r) PROVE LogInv'
  BY <1>5, TamperKeeps
<1>6. CASE UNCHANGED log_vars
  BY <1>6 DEF log_vars, LogInv, RowsType, HashesHaveRows, Untouched
<1>7. QED
  BY <1>1, <1>2, <1>3, <1>4, <1>5, <1>6 DEF LogNext

-----------------------------------------------------------------------------
(* A chain verifies.                                                       *)
LEMMA ChainVerifies ==
  ASSUME LogInv, tampered = 0, NEW trade \in TradeIds
  PROVE  VerifyChain(trade)
<1> DEFINE events == OfTrade(trade, table)
<1> SUFFICES ASSUME NEW r \in events
             PROVE  r.prev = PrevExpected(r, events) /\ HashHolds(r)
  BY DEF VerifyChain
<1> DEFINE before == {q \in events : q.seq < r.seq}
<1>1. /\ r \in table /\ r.trade = trade /\ HashHolds(r)
      /\ Chain(table) /\ LinkedIn(r, table)
      /\ \A q \in events : q \in table /\ q.trade = trade /\ q.seq \in Nat \ {0}
  BY DEF OfTrade, LogInv, RowsType, HashesHaveRows, Untouched, Chain, IsRow
<1>2. CASE r.seq = 1
  <2>1. before = {}
    BY <1>1, <1>2
  <2>2. QED
    BY <1>1, <1>2, <2>1 DEF PrevExpected, LinkedIn
<1>3. CASE r.seq # 1
  <2>1. PICK q \in table : q.trade = trade /\ q.seq = r.seq - 1 /\ q.hash = r.prev
    BY <1>1, <1>3 DEF LinkedIn
  <2>2. q \in before /\ r.seq \in Nat
    BY <1>1, <2>1 DEF OfTrade
  <2>3. \A p \in before : p.seq <= q.seq
    BY <1>1, <2>1, <2>2
  <2>4. LastOf(before) \in before /\ \A p \in before : p.seq <= LastOf(before).seq
    BY <2>2, <2>3 DEF LastOf
  <2>5. LastOf(before).seq = q.seq
    BY <1>1, <2>1, <2>2, <2>3, <2>4
  <2>6. LastOf(before) = q
    BY <1>1, <2>1, <2>4, <2>5 DEF Chain, SameKey
  <2>7. QED
    BY <1>1, <2>1, <2>2, <2>6 DEF PrevExpected
<1>4. QED
  BY <1>2, <1>3

(* What verifies was inserted.                                             *)
LEMMA VerifiedIsAppended ==
  ASSUME LogInv, NEW trade \in TradeIds, VerifyChain(trade)
  PROVE  OfTrade(trade, table) \subseteq appended
<1> SUFFICES ASSUME NEW r \in OfTrade(trade, table) PROVE r \in appended
  OBVIOUS
<1>1. HashHolds(r) /\ r \in table /\ IsRow(r)
  BY DEF VerifyChain, OfTrade, LogInv, RowsType
<1>2. PICK a \in appended : a.hash = r.hash
  BY <1>1, HashIsNoGenesis DEF LogInv, HashesHaveRows
<1>3. IsRow(a) /\ HashHolds(a)
  BY DEF LogInv, RowsType, HashesHaveRows
<1>4. QED
  BY <1>1, <1>2, <1>3, HashDecides

(* And of what was inserted none is missing before another.                *)
LEMMA VerifiedHasNoGap ==
  ASSUME LogInv, LogAssumption, NEW trade \in TradeIds, VerifyChain(trade), ~mixed,
         NEW r \in OfTrade(trade, table), r.seq # 1
  PROVE  \E q \in OfTrade(trade, table) : q.seq = r.seq - 1
<1> DEFINE events   == OfTrade(trade, table)
           before == {q \in events : q.seq < r.seq}
<1>1. r \in appended /\ r.trade = trade /\ r.seq \in Nat
  BY VerifiedIsAppended DEF OfTrade, LogInv, RowsType, IsRow
<1>2. PICK a \in appended : a.trade = trade /\ a.seq = r.seq - 1 /\ a.hash = r.prev
  BY <1>1 DEF LogInv, Untouched, Chain, LinkedIn
<1>3. IsRow(a) /\ HashHolds(a) /\ r.prev # Genesis
  BY <1>2, HashIsNoGenesis DEF LogInv, RowsType, HashesHaveRows
<1>4. r.prev = PrevExpected(r, events)
  BY DEF VerifyChain
<1>5. before # {}
  BY <1>3, <1>4 DEF PrevExpected
<1>6. LastOf(before) \in before
  <2>1. \A q \in before : q.seq \in Nat /\ q.seq <= MaxSeq
    BY DEF OfTrade, LogInv, RowsType, IsRow
  <2>2. QED
    BY <1>5, <2>1, LastExists DEF LogAssumption
<1>7. LastOf(before).hash = a.hash
  BY <1>2, <1>4, <1>5 DEF PrevExpected
<1>8. LastOf(before) \in appended /\ LastOf(before) \in events
  BY <1>6, VerifiedIsAppended
<1>9. IsRow(LastOf(before)) /\ HashHolds(LastOf(before))
  BY <1>8 DEF LogInv, RowsType, HashesHaveRows
<1>10. LastOf(before) = a
  BY <1>3, <1>7, <1>9, HashDecides
<1>11. QED
  BY <1>2, <1>8, <1>10

(* A chain nobody touched verifies, and one that verifies consists of rows *)
(* as they were appended, without a gap as long as nothing was appended to *)
(* what had been changed: for any trades, writers, events and changes.     *)
THEOREM VerifiedMeansUntouched == LogSpec => []TamperShows
<1>1. LogInv => TamperShows
  BY ChainVerifies, VerifiedIsAppended, VerifiedHasNoGap, LogAssumption DEF TamperShows
<1>2. QED
  BY <1>1, InitLog, StepLog, PTL DEF LogSpec

-----------------------------------------------------------------------------
(* Watchlist.                                                              *)
Members == [of : Listed, from : Nat]

SyncType == sync \in [Syncs -> [today : Nat, added : SUBSET Members]]

(* The rows that are there and those the runs hold: what a commit may make *)
(* of them.                                                                *)
InSight == members \cup UNION {sync[s].added : s \in Syncs}

OneInSight ==
  \A i \in Listed \ overlapped :
    \A m, n \in InSight : m.of = i /\ n.of = i => m = n

MembersInv == date \in Nat /\ SyncType /\ OneInSight

-----------------------------------------------------------------------------
LEMMA InitMembers == WatchlistInit => MembersInv
<1> SUFFICES ASSUME WatchlistInit PROVE MembersInv
  OBVIOUS
<1>1. date \in Nat /\ members = {} /\ sync = [s \in Syncs |-> NoSync]
  BY DEF WatchlistInit
<1>2. NoSync \in [today : Nat, added : SUBSET Members]
  BY WatchlistAssumption DEF NoSync
<1>3. SyncType
  BY <1>1, <1>2 DEF SyncType
<1>4. InSight = {}
  BY <1>1 DEF InSight, NoSync
<1>5. QED
  BY <1>1, <1>3, <1>4 DEF MembersInv, OneInSight

(* Whatever only takes rows out of sight, and forgives no overlap, keeps   *)
(* one of each.                                                            *)
LEMMA FewerInSight ==
  ASSUME OneInSight, InSight' \subseteq InSight, overlapped \subseteq overlapped'
  PROVE  OneInSight'
  BY DEF OneInSight

LEMMA AddMemberKeeps ==
  ASSUME MembersInv, NEW s \in Syncs, NEW i \in Listed, AddMember(s, i)
  PROVE  MembersInv'
<1> DEFINE row == [of |-> i, from |-> sync[s].today]
<1>1. sync[s] \in [today : Nat, added : SUBSET Members]
  BY DEF MembersInv, SyncType
<1>2. row \in Members
  BY <1>1 DEF Members
<1>3. /\ sync' = [sync EXCEPT ![s].added = @ \cup {row}]
      /\ members' = members /\ date' = date
      /\ \A m \in members \cup sync[s].added : m.of # i
  BY DEF AddMember, AlreadyActive
<1>4. \A o \in Syncs : sync'[o].added = IF o = s THEN sync[s].added \cup {row}
                                        ELSE sync[o].added
  BY <1>3 DEF MembersInv, SyncType
<1>5. SyncType'
  BY <1>1, <1>2, <1>3 DEF MembersInv, SyncType
<1>6. InSight' = InSight \cup {row}
  BY <1>3, <1>4 DEF InSight
<1>7. /\ overlapped \subseteq overlapped'
      /\ i \notin overlapped' => \A o \in Syncs \ {s} : \A m \in sync[o].added : m.of # i
  BY DEF AddMember
<1>8. i \notin overlapped' => \A m \in InSight : m.of # i
  BY <1>3, <1>7 DEF InSight
<1>9. OneInSight'
  <2> SUFFICES ASSUME NEW j \in Listed \ overlapped', NEW m \in InSight', NEW n \in InSight',
                      m.of = j, n.of = j
               PROVE  m = n
    BY DEF OneInSight
  <2>1. CASE j = i
    BY <2>1, <1>6, <1>8
  <2>2. CASE j # i
    BY <2>2, <1>6, <1>7 DEF MembersInv, OneInSight
  <2>3. QED
    BY <2>1, <2>2
<1>10. QED
  BY <1>3, <1>5, <1>9 DEF MembersInv

LEMMA StepMembers == MembersInv /\ [WatchlistNext]_watchlist_vars => MembersInv'
<1> SUFFICES ASSUME MembersInv, [WatchlistNext]_watchlist_vars PROVE MembersInv'
  OBVIOUS
<1>1. NoSync \in [today : Nat, added : SUBSET Members] /\ NoSync.added = {}
  BY WatchlistAssumption DEF NoSync
<1>2. CASE NextDate
  BY <1>2 DEF NextDate, MembersInv, SyncType, OneInSight, InSight
<1>3. ASSUME NEW s \in Syncs, Begin(s) PROVE MembersInv'
  <2>1. /\ sync' = [sync EXCEPT ![s].today = date]
        /\ UNCHANGED <<date, members, overlapped>>
    BY <1>3 DEF Begin
  <2>2. SyncType' /\ \A o \in Syncs : sync'[o].added = sync[o].added
    BY <2>1 DEF MembersInv, SyncType
  <2>3. InSight' = InSight
    BY <2>1, <2>2 DEF InSight
  <2>4. QED
    BY <2>1, <2>2, <2>3, FewerInSight DEF MembersInv
<1>4. ASSUME NEW s \in Syncs, CommitMembers(s) PROVE MembersInv'
  <2>1. /\ sync' = [sync EXCEPT ![s] = NoSync]
        /\ members' = members \cup sync[s].added /\ UNCHANGED <<date, overlapped>>
    BY <1>4 DEF CommitMembers
  <2>2. SyncType'
    BY <1>1, <2>1 DEF MembersInv, SyncType
  <2>3. \A o \in Syncs : sync'[o].added \subseteq sync[o].added
    BY <1>1, <2>1 DEF MembersInv, SyncType
  <2>4. InSight' \subseteq InSight
    BY <2>1, <2>3 DEF InSight
  <2>5. QED
    BY <2>1, <2>2, <2>4, FewerInSight DEF MembersInv
<1>5. ASSUME NEW s \in Syncs, Abandon(s) PROVE MembersInv'
  <2>1. sync' = [sync EXCEPT ![s] = NoSync] /\ UNCHANGED <<date, members, overlapped>>
    BY <1>5 DEF Abandon
  <2>2. SyncType'
    BY <1>1, <2>1 DEF MembersInv, SyncType
  <2>3. \A o \in Syncs : sync'[o].added \subseteq sync[o].added
    BY <1>1, <2>1 DEF MembersInv, SyncType
  <2>4. InSight' \subseteq InSight
    BY <2>1, <2>3 DEF InSight
  <2>5. QED
    BY <2>1, <2>2, <2>4, FewerInSight DEF MembersInv
<1>6. ASSUME NEW s \in Syncs, NEW i \in Listed, AddMember(s, i) PROVE MembersInv'
  BY <1>6, AddMemberKeeps
<1>7. CASE UNCHANGED watchlist_vars
  BY <1>7 DEF watchlist_vars, MembersInv, SyncType, OneInSight, InSight
<1>8. QED
  BY <1>2, <1>3, <1>4, <1>5, <1>6, <1>7 DEF WatchlistNext

LEMMA OneInSightIsEnough == MembersInv => OneMembership
<1> SUFFICES ASSUME MembersInv, NEW i \in Listed, i \notin overlapped
             PROVE  ~(Cardinality(Returned(i)) > 1)
  BY DEF OneMembership
<1>1. \A m, n \in Returned(i) : m = n
  BY DEF MembersInv, OneInSight, InSight, Returned
<1>2. CASE Returned(i) = {}
  BY <1>2, FS_EmptySet
<1>3. ASSUME NEW m \in Returned(i) PROVE ~(Cardinality(Returned(i)) > 1)
  <2>1. Returned(i) = {m}
    BY <1>1, <1>3
  <2>2. Cardinality({m}) = 1
    BY FS_Singleton
  <2>3. QED
    BY <2>1, <2>2
<1>4. QED
  BY <1>2, <1>3

(* No underlying is returned twice to a reader of the watchlist, but one   *)
(* that two overlapping runs both took for new: for any list, any number   *)
(* of runs and however many days go by.                                    *)
THEOREM ListedOnce == WatchlistSpec => []OneMembership
  BY InitMembers, StepMembers, OneInSightIsEnough, PTL DEF WatchlistSpec

-----------------------------------------------------------------------------
(* RateLimiter.  A non-empty set of naturals has a least element, and a    *)
(* finite one of integers a greatest.                                      *)
LEMMA MinIsLeast ==
  ASSUME NEW S \in SUBSET Nat, S # {}
  PROVE  Min(S) \in S /\ \A y \in S : Min(S) <= y
<1>1. PICK x \in S : \A y \in S : <<y, x>> \notin OpToRel(<, Nat)
  BY NatLessThanWellFounded, WFMin
<1>2. \A y \in S : ~(y < x)
  BY <1>1, Zenon DEF OpToRel
<1>3. \A y \in S : x <= y
  BY <1>2
<1>4. QED
  BY <1>3 DEF Min

LEMMA FiniteHasGreatest ==
  ASSUME NEW S \in SUBSET Int, IsFiniteSet(S), S # {}
  PROVE  Max(S) \in S /\ \A y \in S : y <= Max(S)
<1> DEFINE HasGreatest(T) == \E x \in T : \A y \in T : x >= y
           bad == {n \in Nat : \E T \in SUBSET Int :
                     /\ IsFiniteSet(T) /\ T # {} /\ Cardinality(T) = n
                     /\ ~HasGreatest(T)}
<1>1. bad = {}
  <2> SUFFICES ASSUME bad # {} PROVE FALSE
    OBVIOUS
  <2>1. bad \in SUBSET Nat
    OBVIOUS
  <2>2. PICK n \in bad : \A m \in bad : n <= m
    <3> HIDE DEF bad
    <3>1. PICK n \in bad : \A m \in bad : <<m, n>> \notin OpToRel(<, Nat)
      BY <2>1, NatLessThanWellFounded, WFMin
    <3>2. \A m \in bad : ~(m < n)
      BY <2>1, <3>1, Zenon DEF OpToRel
    <3>3. QED
      BY <2>1, <3>2
  <2>3. PICK T \in SUBSET Int : /\ IsFiniteSet(T) /\ T # {} /\ Cardinality(T) = n
                                /\ ~HasGreatest(T)
    OBVIOUS
  <2>4. PICK x \in T : TRUE
    BY <2>3
  <2> DEFINE R == T \ {x}
  <2>5. IsFiniteSet(R) /\ Cardinality(R) = n - 1 /\ R \in SUBSET Int /\ n \in Nat
    BY <2>3, FS_RemoveElement
  <2>6. CASE R = {}
    <3>1. \A y \in T : x >= y
      BY <2>6
    <3>2. QED
      BY <2>3, <3>1
  <2>7. CASE R # {}
    <3>1. Cardinality(R) \in Nat /\ n - 1 \in Nat
      BY <2>5, FS_CardinalityType
    <3>2. n - 1 \notin bad
      BY <2>2, <2>5
    <3>3. HasGreatest(R)
      BY <2>5, <2>7, <3>1, <3>2
    <3>4. PICK r \in R : \A y \in R : r >= y
      BY <3>3
    <3>5. CASE x >= r
      <4>1. \A y \in T : x >= y
        BY <3>4, <3>5
      <4>2. QED
        BY <2>3, <4>1
    <3>6. CASE r >= x
      <4>1. \A y \in T : r >= y
        BY <3>4, <3>6
      <4>2. QED
        BY <2>3, <4>1
    <3>7. QED
      BY <3>5, <3>6
  <2>8. QED
    BY <2>6, <2>7
<1>2. HasGreatest(S)
  <2>1. Cardinality(S) \in Nat
    BY FS_CardinalityType
  <2>2. QED
    BY <1>1, <2>1
<1>3. QED
  BY <1>2 DEF Max

(* Every request let through within the longest window is in the deque,    *)
(* and the deque holds nothing else.                                       *)
LimiterInv ==
  /\ reading \in Nat
  /\ hits \subseteq admitted /\ admitted \subseteq 0..(reading - 1)
  /\ \A t \in admitted : \A w \in Windows : reading - t <= w[1] => t \in hits
  /\ WindowsKept

LEMMA InitLimiter == LimiterInit => LimiterInv
<1> SUFFICES ASSUME LimiterInit PROVE LimiterInv
  OBVIOUS
<1>1. reading = 0 /\ hits = {} /\ admitted = {}
  BY DEF LimiterInit
<1>2. WindowsKept
  <2>1. \A w \in Windows : w[2] >= 0
    BY WindowsAssumption
  <2>2. ASSUME NEW w \in Windows, NEW end \in 0..MaxReadings
        PROVE  Cardinality({t \in admitted : end - w[1] < t /\ t <= end}) <= w[2]
    <3>1. {t \in admitted : end - w[1] < t /\ t <= end} = {}
      BY <1>1
    <3>2. QED
      BY <2>1, <3>1, FS_EmptySet
  <2>3. QED
    BY <2>2 DEF WindowsKept
<1>3. QED
  BY <1>1, <1>2 DEF LimiterInv

LEMMA AdmittedIsFinite ==
  ASSUME LimiterInv, NEW S \in SUBSET admitted
  PROVE  S \subseteq Nat /\ IsFiniteSet(S)
<1>1. 0..(reading - 1) \subseteq Nat /\ IsFiniteSet(0..(reading - 1))
  BY FS_Interval DEF LimiterInv
<1>2. S \in SUBSET (0..(reading - 1))
  BY DEF LimiterInv
<1>3. QED
  BY <1>1, <1>2, FS_Subset

(* Nobody has to wait only if each window has room, or its oldest hit has  *)
(* reached the end that does not count.                                    *)
LEMMA NoWaitMeansRoom ==
  ASSUME LimiterInv, NEW kept \in SUBSET admitted, Wait(reading, kept) <= 0, NEW w \in Windows
  PROVE  \/ Cardinality(InWindow(w, reading, kept)) < w[2]
         \/ reading - w[1] \in kept
<1> DEFINE inside(v) == InWindow(v, reading, kept)
           wait(v)   == WaitFor(v, reading, kept)
           waits     == {wait(v) : v \in Windows}
<1>1. ASSUME NEW v \in Windows
      PROVE  /\ v[1] \in Nat \ {0} /\ v[2] \in Nat \ {0}
             /\ inside(v) \subseteq kept /\ inside(v) \subseteq Nat
             /\ Cardinality(inside(v)) \in Nat
             /\ Cardinality(inside(v)) >= v[2] =>
                  Min(inside(v)) \in inside(v) /\ Min(inside(v)) \in Nat
             /\ wait(v) \in Int
  <2>1. inside(v) \subseteq kept /\ inside(v) \in SUBSET admitted
    BY DEF InWindow
  <2>2. inside(v) \subseteq Nat /\ IsFiniteSet(inside(v)) /\ Cardinality(inside(v)) \in Nat
    BY <2>1, AdmittedIsFinite, FS_CardinalityType
  <2>3. v[1] \in Nat \ {0} /\ v[2] \in Nat \ {0}
    BY WindowsAssumption
  <2>4. Cardinality(inside(v)) >= v[2] => inside(v) # {}
    BY <2>2, <2>3, FS_EmptySet
  <2>5. Cardinality(inside(v)) >= v[2] =>
          Min(inside(v)) \in inside(v) /\ Min(inside(v)) \in Nat
    BY <2>2, <2>4, MinIsLeast
  <2>6. wait(v) = IF Cardinality(inside(v)) >= v[2] THEN v[1] - (reading - Min(inside(v)))
                  ELSE 0
    BY DEF WaitFor
  <2>7. wait(v) \in Int
    BY <2>3, <2>5, <2>6 DEF LimiterInv
  <2>8. QED
    BY <2>1, <2>2, <2>3, <2>5, <2>7
<1>2. waits \in SUBSET Int /\ waits # {} /\ IsFiniteSet(waits)
  <2>1. waits \in SUBSET Int /\ waits # {}
    BY <1>1, WindowsAssumption
  <2>2. [v \in Windows |-> wait(v)] \in Surjection(Windows, waits)
    BY DEF Surjection
  <2>3. QED
    BY <2>1, <2>2, FS_Surjection, WindowsAssumption
<1>3. Wait(reading, kept) = Max(waits)
  BY DEF Wait
<1>4. Max(waits) \in Int /\ wait(w) <= Max(waits)
  <2>1. wait(w) \in waits
    OBVIOUS
  <2> HIDE DEF waits
  <2>2. QED
    BY <1>2, <2>1, FiniteHasGreatest
<1>5. wait(w) <= 0
  BY <1>1, <1>3, <1>4
<1>6. CASE Cardinality(inside(w)) >= w[2]
  <2>1. wait(w) = w[1] - (reading - Min(inside(w)))
    BY <1>6 DEF WaitFor
  <2>2. Min(inside(w)) \in kept /\ reading - Min(inside(w)) <= w[1]
    BY <1>1, <1>6 DEF InWindow
  <2>3. Min(inside(w)) = reading - w[1]
    BY <1>1, <1>5, <1>6, <2>1, <2>2 DEF LimiterInv
  <2>4. QED
    BY <2>2, <2>3
<1>7. QED
  BY <1>1, <1>6

(* A request let through without waiting overfills no window, wherever it  *)
(* ends.                                                                   *)
LEMMA AdmitKeepsWindows ==
  ASSUME LimiterInv, Wait(reading, Remembered(reading)) <= 0, reading < MaxReadings,
         admitted' = admitted \cup {reading}
  PROVE  WindowsKept'
<1> SUFFICES ASSUME NEW w \in Windows, NEW end \in 0..MaxReadings
             PROVE  Cardinality({t \in admitted' : end - w[1] < t /\ t <= end}) <= w[2]
  BY DEF WindowsKept
<1> DEFINE kept   == Remembered(reading)
           old(e) == {t \in admitted : e - w[1] < t /\ t <= e}
           new    == {t \in admitted' : end - w[1] < t /\ t <= end}
           recent == {t \in admitted : reading - w[1] < t}
<1>1. /\ w[1] \in Nat \ {0} /\ w[2] \in Nat \ {0} /\ MaxReadings \in Nat /\ reading \in Nat
      /\ \A t \in admitted : t \in Nat /\ t < reading
  BY WindowsAssumption DEF LimiterInv
<1>2. kept \in SUBSET admitted
  BY DEF Remembered, LimiterInv
<1>3. \A S \in SUBSET admitted : IsFiniteSet(S) /\ Cardinality(S) \in Nat
  BY AdmittedIsFinite, FS_CardinalityType
<1>4. \A e \in 0..MaxReadings : Cardinality(old(e)) <= w[2]
  BY DEF LimiterInv, WindowsKept
<1>5. Cardinality(recent) < w[2]
  <2>1. recent \subseteq InWindow(w, reading, kept)
    <3> SUFFICES ASSUME NEW t \in recent PROVE t \in InWindow(w, reading, kept)
      OBVIOUS
    <3>1. t \in admitted /\ reading - t <= w[1]
      BY <1>1
    <3>2. t \in hits
      BY <3>1 DEF LimiterInv
    <3>3. QED
      BY <3>1, <3>2 DEF InWindow, Remembered
  <2>2. InWindow(w, reading, kept) \in SUBSET admitted
    BY <1>2 DEF InWindow
  <2>3. CASE Cardinality(InWindow(w, reading, kept)) < w[2]
    <3>1. Cardinality(recent) <= Cardinality(InWindow(w, reading, kept))
      BY <1>3, <2>1, <2>2, FS_Subset
    <3>2. recent \in SUBSET admitted
      OBVIOUS
    <3> HIDE DEF recent
    <3>3. QED
      BY <1>1, <1>3, <2>2, <2>3, <3>1, <3>2
  <2>4. CASE reading - w[1] \in kept
    <3> DEFINE oldest == reading - w[1]
               before == reading - 1
    <3>1. oldest \in admitted /\ oldest \in Nat
      BY <1>1, <1>2, <2>4
    <3>2. before \in 0..MaxReadings
      BY <1>1, <3>1
    <3>3. old(before) = recent \cup {oldest}
      <4>1. ASSUME NEW t \in old(before) PROVE t \in recent \cup {oldest}
        BY <1>1
      <4>2. ASSUME NEW t \in recent \cup {oldest} PROVE t \in old(before)
        BY <1>1, <3>1
      <4>3. QED
        BY <4>1, <4>2
    <3>4. oldest \notin recent /\ recent \in SUBSET admitted
      BY <1>1
    <3>5. Cardinality(recent \cup {oldest}) = Cardinality(recent) + 1
      <4> HIDE DEF recent, oldest
      <4>1. QED
        BY <1>3, <3>4, FS_AddElement
    <3>6. Cardinality(recent) + 1 <= w[2]
      BY <1>4, <3>2, <3>3, <3>5
    <3> HIDE DEF recent
    <3>7. QED
      BY <1>1, <1>3, <3>4, <3>6
  <2>5. QED
    BY <1>2, <2>3, <2>4, NoWaitMeansRoom
<1>6. CASE end < reading
  <2>1. new = old(end)
    BY <1>1, <1>6
  <2>2. QED
    BY <1>4, <2>1
<1>7. CASE end >= reading
  <2>1. new \subseteq recent \cup {reading}
    BY <1>1, <1>7
  <2>2. recent \in SUBSET admitted
    OBVIOUS
  <2>3. IsFiniteSet(recent \cup {reading})
          /\ Cardinality(recent \cup {reading}) <= Cardinality(recent) + 1
    <3> HIDE DEF recent
    <3>1. QED
      BY <1>3, <2>2, FS_AddElement
  <2>4. Cardinality(new) <= Cardinality(recent \cup {reading}) /\ Cardinality(new) \in Nat
          /\ Cardinality(recent \cup {reading}) \in Nat
    BY <2>1, <2>3, FS_Subset, FS_CardinalityType
  <2> HIDE DEF new, recent
  <2>5. QED
    BY <1>1, <1>3, <1>5, <2>2, <2>3, <2>4 DEF new
<1>8. QED
  BY <1>1, <1>6, <1>7

LEMMA StepLimiter == LimiterInv /\ [LimiterNext]_limiter_vars => LimiterInv'
<1> SUFFICES ASSUME LimiterInv, [LimiterNext]_limiter_vars PROVE LimiterInv'
  OBVIOUS
<1>1. /\ reading \in Nat /\ \A t \in admitted : t \in Nat /\ t < reading
      /\ \A w \in Windows : w[1] \in Nat
  BY WindowsAssumption DEF LimiterInv
<1>2. CASE TimeGoesOn
  <2>1. reading' = reading + 1 /\ hits' = hits /\ admitted' = admitted
    BY <1>2 DEF TimeGoesOn
  <2>2. WindowsKept'
    BY <2>1 DEF LimiterInv, WindowsKept
  <2>3. QED
    BY <1>1, <2>1, <2>2 DEF LimiterInv
<1>3. ASSUME NEW c \in Callers, Acquire(c) PROVE LimiterInv'
  <2> DEFINE kept == Remembered(reading)
             wait == Wait(reading, kept)
  <2>1. reading' = reading + 1 /\ reading < MaxReadings /\ kept \subseteq hits
    BY <1>3 DEF Acquire, Remembered
  <2>2. \A t \in admitted : \A w \in Windows : reading + 1 - t <= w[1] => t \in kept
    <3>1. ASSUME NEW t \in admitted, NEW w \in Windows, reading + 1 - t <= w[1]
          PROVE  t \in kept
      <4>1. reading - t <= w[1]
        BY <1>1, <3>1
      <4>2. t \in hits
        BY <4>1 DEF LimiterInv
      <4>3. QED
        BY <4>1, <4>2 DEF Remembered
    <3>2. QED
      BY <3>1
  <2>3. kept \subseteq admitted /\ admitted \subseteq 0..(reading - 1)
    BY <2>1 DEF LimiterInv
  <2>4. 0..(reading - 1) \subseteq 0..reading /\ reading \in 0..reading /\ reading' - 1 = reading
    BY <1>1, <2>1
  <2>5. CASE wait <= 0
    <3>1. hits' = kept \cup {reading} /\ admitted' = admitted \cup {reading}
      BY <1>3, <2>5 DEF Acquire
    <3>2. WindowsKept'
      BY <2>1, <2>5, <3>1, AdmitKeepsWindows
    <3> HIDE DEF kept
    <3>3. admitted' \subseteq 0..(reading' - 1) /\ hits' \subseteq admitted'
      BY <2>3, <2>4, <3>1
    <3>4. ASSUME NEW t \in admitted', NEW w \in Windows, reading' - t <= w[1]
          PROVE  t \in hits'
      <4>1. reading + 1 - t <= w[1]
        BY <1>1, <2>1, <2>3, <2>4, <3>3, <3>4
      <4>2. QED
        BY <2>2, <3>1, <4>1
    <3>5. QED
      BY <1>1, <2>1, <3>2, <3>3, <3>4 DEF LimiterInv
  <2>6. CASE ~(wait <= 0)
    <3>1. hits' = kept /\ admitted' = admitted
      BY <1>3, <2>6 DEF Acquire
    <3>2. WindowsKept'
      BY <3>1 DEF LimiterInv, WindowsKept
    <3> HIDE DEF kept
    <3>3. admitted' \subseteq 0..(reading' - 1) /\ hits' \subseteq admitted'
      BY <2>3, <2>4, <3>1
    <3>4. ASSUME NEW t \in admitted', NEW w \in Windows, reading' - t <= w[1]
          PROVE  t \in hits'
      <4>1. reading + 1 - t <= w[1]
        BY <1>1, <2>1, <2>3, <2>4, <3>3, <3>4
      <4>2. QED
        BY <2>2, <3>1, <4>1
    <3>5. QED
      BY <1>1, <2>1, <3>2, <3>3, <3>4 DEF LimiterInv
  <2>7. QED
    BY <2>5, <2>6
<1>4. CASE UNCHANGED limiter_vars
  BY <1>4 DEF limiter_vars, LimiterInv, WindowsKept
<1>5. QED
  BY <1>2, <1>3, <1>4 DEF LimiterNext

(* However many coroutines interleave, sleep and are late to wake, no      *)
(* window of any of the limits holds more requests than it allows.         *)
THEOREM LimitsAreKept == LimiterSpec => []WindowsKept
<1>1. LimiterInv => WindowsKept
  BY DEF LimiterInv
<1>2. QED
  BY <1>1, InitLimiter, StepLimiter, PTL DEF LimiterSpec

-----------------------------------------------------------------------------
(* InstrumentMaster.  What is in the tables and in the hands of sessions.  *)
Ids      == 1..MaxRows
Vendors  == {Sources[s].vendor : s \in Sessions}
MasterRows ==
  [contract : Contracts, symbol : {Sources[s].spells : s \in Sessions},
   vendors : SUBSET Vendors, seen : 0..MaxUpserts]
SpecRows == [to : Int, lot : Nat]
Finds ==
  [at : {"found"}, id : Ids, contract : Contracts, lot : Nat, today : 0..MaxDay,
   seen : 0..MaxUpserts, keys : SUBSET Vendors]

RowTable(t)  == DOMAIN t \in SUBSET Ids /\ \A i \in DOMAIN t : t[i] \in MasterRows
SpecTable(t) == DOMAIN t \in SUBSET (Ids \X (0..MaxDay)) /\ \A k \in DOMAIN t : t[k] \in SpecRows

MasterType ==
  /\ day \in 0..MaxDay /\ upserts \in 0..MaxUpserts
  /\ RowTable(rows) /\ SpecTable(specs)
  /\ new_rows = [s \in Sessions |-> new_rows[s]]
  /\ new_specs = [s \in Sessions |-> new_specs[s]]
  /\ step = [s \in Sessions |-> step[s]]
  /\ \A s \in Sessions :
       /\ RowTable(new_rows[s]) /\ SpecTable(new_specs[s])
       /\ step[s] \in Finds \cup {Idle}
  /\ overtaken \subseteq Sessions

(* A row is in one session's hands at most, its specs with it.             *)
OneWriter ==
  /\ \A s, o \in Sessions : s # o => DOMAIN new_rows[s] \cap DOMAIN new_rows[o] = {}
  /\ \A s \in Sessions : \A k \in DOMAIN new_specs[s] : k[1] \in DOMAIN new_rows[s]

(* An id is of one contract, whoever tells of it.                          *)
Tells(i, k) ==
  \/ i \in DOMAIN rows /\ rows[i].contract = k
  \/ \E o \in Sessions : i \in DOMAIN new_rows[o] /\ new_rows[o][i].contract = k
  \/ \E o \in Sessions : step[o] # Idle /\ step[o].id = i /\ step[o].contract = k

OneContract == \A i \in Ids : \A k, l \in Contracts : Tells(i, k) /\ Tells(i, l) => k = l

(* What the constraints keep: rows that are committed do not clash, nor    *)
(* those a session sees, nor those two sessions hold.                      *)
NoClashIn(t) == \A i, j \in DOMAIN t : i # j => ~Clash(t[i], t[j])

Apart ==
  /\ NoClashIn(rows)
  /\ \A s \in Sessions : NoClashIn(RowsOf(s))
  /\ \A s, o \in Sessions : s # o =>
       \A i \in DOMAIN new_rows[s], j \in DOMAIN new_rows[o] :
         ~Clash(new_rows[s][i], new_rows[o][j])

(* The specs of an id follow each other without a gap: the last is open,   *)
(* every other is closed the day before the next one starts.               *)
Timeline(t, i) ==
  \A d \in Starts(i, t) :
    LET to == t[<<i, d>>].to
    IN  IF to = Forever THEN \A e \in Starts(i, t) : e <= d
        ELSE /\ d <= to /\ to + 1 \in Starts(i, t)
             /\ \A e \in Starts(i, t) : e <= d \/ e >= to + 1

Timelines ==
  \A i \in Ids \ strayed :
    Timeline(specs, i) /\ \A s \in Sessions : Timeline(SpecsOf(s), i)

(* No spec is of a day to come.                                            *)
Dated ==
  /\ \A k \in DOMAIN specs : k[2] <= day
  /\ \A s \in Sessions : \A k \in DOMAIN new_specs[s] : k[2] <= day
  /\ \A s \in Sessions : step[s] # Idle => step[s].today <= day

(* What a session found still fits the tables, until another overtakes it. *)
Fits(s, u) == ~RowRefused(s, u) /\ \A d \in Starts(u.id, SpecsOf(s)) : d <= u.today

FitsUnlessOvertaken ==
  \A s \in Sessions : step[s] # Idle /\ s \notin overtaken => Fits(s, step[s])

MasterInv ==
  MasterType /\ OneWriter /\ OneContract /\ Apart /\ Timelines /\ Dated /\ FitsUnlessOvertaken

-----------------------------------------------------------------------------
(* A bounded non-empty set of naturals has a greatest element.             *)
LEMMA GreatestExists ==
  ASSUME NEW n \in Nat, NEW S \in SUBSET (0..n), S # {}
  PROVE  \E x \in S : \A y \in S : y <= x
<1>1. S \in SUBSET Int /\ IsFiniteSet(S) /\ \A y \in S : y \in Nat
  <2>1. 0..n \subseteq Int /\ IsFiniteSet(0..n)
    BY FS_Interval
  <2>2. IsFiniteSet(S)
    BY <2>1, FS_Subset
  <2>3. QED
    BY <2>1, <2>2
<1>2. QED
  BY <1>1, FiniteHasGreatest

(* One table over another.                                                 *)
LEMMA OverFacts ==
  ASSUME NEW new, NEW old
  PROVE  /\ DOMAIN Over(new, old) = DOMAIN new \cup DOMAIN old
         /\ \A x \in DOMAIN new : Over(new, old)[x] = new[x]
         /\ \A x \in DOMAIN old \ DOMAIN new : Over(new, old)[x] = old[x]
  BY DEF Over

LEMMA OverTyped ==
  ASSUME NEW new, NEW old, SpecTable(new), SpecTable(old)
  PROVE  SpecTable(Over(new, old))
  BY DEF SpecTable, Over

LEMMA InSightTyped ==
  ASSUME MasterType, NEW s \in Sessions
  PROVE  RowTable(RowsOf(s)) /\ SpecTable(SpecsOf(s))
<1>1. RowTable(rows) /\ SpecTable(specs) /\ RowTable(new_rows[s]) /\ SpecTable(new_specs[s])
  BY DEF MasterType
<1>2. RowTable(RowsOf(s))
  <2>1. /\ DOMAIN RowsOf(s) = DOMAIN new_rows[s] \cup DOMAIN rows
        /\ \A x \in DOMAIN new_rows[s] : RowsOf(s)[x] = new_rows[s][x]
        /\ \A x \in DOMAIN rows \ DOMAIN new_rows[s] : RowsOf(s)[x] = rows[x]
    BY OverFacts DEF RowsOf
  <2>2. QED
    BY <1>1, <2>1 DEF RowTable
<1>3. SpecTable(SpecsOf(s))
  <2>1. /\ DOMAIN SpecsOf(s) = DOMAIN new_specs[s] \cup DOMAIN specs
        /\ \A x \in DOMAIN new_specs[s] : SpecsOf(s)[x] = new_specs[s][x]
        /\ \A x \in DOMAIN specs \ DOMAIN new_specs[s] : SpecsOf(s)[x] = specs[x]
    BY OverFacts DEF SpecsOf
  <2>2. QED
    BY <1>1, <2>1 DEF SpecTable
<1>4. QED
  BY <1>2, <1>3

-----------------------------------------------------------------------------
LEMMA StartsAre ==
  ASSUME NEW t, SpecTable(t), NEW i
  PROVE  /\ \A d : d \in Starts(i, t) <=> <<i, d>> \in DOMAIN t
         /\ Starts(i, t) \in SUBSET (0..MaxDay)
         /\ \A d \in Starts(i, t) : t[<<i, d>>] \in SpecRows
<1>1. \A k \in DOMAIN t : k = <<k[1], k[2]>> /\ k[2] \in 0..MaxDay
  BY DEF SpecTable
<1>2. ASSUME NEW d, d \in Starts(i, t) PROVE <<i, d>> \in DOMAIN t /\ d \in 0..MaxDay
  <2>1. PICK k \in DOMAIN t : k[1] = i /\ k[2] = d
    BY <1>2 DEF Starts
  <2>2. QED
    BY <1>1, <2>1
<1>3. ASSUME NEW d, <<i, d>> \in DOMAIN t PROVE d \in Starts(i, t)
  BY <1>3 DEF Starts
<1>4. QED
  BY <1>2, <1>3 DEF SpecTable

(* Tables that say the same of an id have the same timeline of it.         *)
SameOf(t, u, i) ==
  \A d : /\ <<i, d>> \in DOMAIN t <=> <<i, d>> \in DOMAIN u
         /\ <<i, d>> \in DOMAIN t => t[<<i, d>>] = u[<<i, d>>]

LEMMA SameTimeline ==
  ASSUME NEW t, NEW u, SpecTable(t), SpecTable(u), NEW i, SameOf(t, u, i), Timeline(t, i)
  PROVE  Timeline(u, i)
<1>1. \A d : d \in Starts(i, t) <=> <<i, d>> \in DOMAIN t
  BY StartsAre
<1>2. \A d : d \in Starts(i, u) <=> <<i, d>> \in DOMAIN u
  BY StartsAre
<1>3. Starts(i, u) = Starts(i, t)
  BY <1>1, <1>2 DEF SameOf
<1>4. \A d \in Starts(i, t) : u[<<i, d>>] = t[<<i, d>>]
  BY <1>1 DEF SameOf
<1>5. QED
  BY <1>3, <1>4 DEF Timeline

(* A timeline puts one lot in force on every day from its first.           *)
LEMMA TimelineHasOne ==
  ASSUME NEW i, SpecTable(specs), Timeline(specs, i), NEW first \in Starts(i, specs),
         NEW d \in first..(MaxDay + 1)
  PROVE  Cardinality(InForce(i, d)) = 1
<1> DEFINE starts == Starts(i, specs)
           past   == {e \in starts : e <= d}
           to(e)  == specs[<<i, e>>].to
<1>1. /\ starts \in SUBSET (0..MaxDay) /\ MaxDay \in Nat /\ first \in 0..MaxDay /\ d \in Nat
      /\ d <= MaxDay + 1 /\ first <= d
      /\ \A e \in starts : e \in Nat /\ to(e) \in Int
  BY StartsAre, MasterAssumption DEF SpecRows
<1>2. PICK a \in past : \A e \in past : e <= a
  <2>1. past \in SUBSET (0..MaxDay) /\ past # {}
    BY <1>1
  <2> HIDE DEF past
  <2>2. QED
    BY <1>1, <2>1, GreatestExists
<1>3. \A e \in starts : IF to(e) = Forever THEN \A b \in starts : b <= e
                        ELSE /\ e <= to(e) /\ to(e) + 1 \in starts
                             /\ \A b \in starts : b <= e \/ b >= to(e) + 1
  BY DEF Timeline
<1> HIDE DEF starts, to
<1>4. d <= to(a)
  <2>1. a \in starts /\ a <= d
    OBVIOUS
  <2>2. CASE to(a) = Forever
    BY <1>1, <2>2 DEF Forever
  <2>3. CASE to(a) # Forever
    <3>1. to(a) + 1 \in starts /\ a <= to(a)
      BY <1>3, <2>1, <2>3
    <3>2. ~(to(a) + 1 <= d)
      <4> SUFFICES ASSUME to(a) + 1 <= d PROVE FALSE
        OBVIOUS
      <4>1. to(a) + 1 \in past
        BY <3>1
      <4>2. QED
        BY <1>1, <1>2, <2>1, <3>1, <4>1
    <3>3. QED
      BY <1>1, <2>1, <3>2
  <2>4. QED
    BY <2>2, <2>3
<1>5. ASSUME NEW b \in past, d <= to(b) PROVE b = a
  <2>1. a \in starts /\ b \in starts /\ a <= d /\ b <= a
    BY <1>2
  <2>2. CASE to(b) = Forever
    BY <1>1, <1>3, <2>1, <2>2
  <2>3. CASE to(b) # Forever
    <3>1. a <= b \/ a >= to(b) + 1
      BY <1>3, <2>1, <2>3
    <3>2. QED
      BY <1>1, <1>5, <2>1, <3>1
  <2>4. QED
    BY <2>2, <2>3
<1>6. InForce(i, d) = {a}
  <2>1. InForce(i, d) = {e \in past : d <= to(e)}
    BY DEF InForce, starts, to
  <2>2. QED
    BY <1>4, <1>5, <2>1
<1>7. QED
  BY <1>6, FS_Singleton

LEMMA MasterInvShows == MasterInv => OneSpecInForce /\ RefusedOnlyWhenOvertaken
<1> SUFFICES ASSUME MasterInv PROVE OneSpecInForce /\ RefusedOnlyWhenOvertaken
  OBVIOUS
<1>1. OneSpecInForce
  <2> SUFFICES ASSUME NEW i \in DOMAIN rows \ strayed, NEW first \in Starts(i, specs),
                      NEW d \in first..(MaxDay + 1)
               PROVE  Cardinality(InForce(i, d)) = 1
    BY DEF OneSpecInForce
  <2>1. i \in Ids \ strayed /\ SpecTable(specs)
    BY DEF MasterInv, MasterType, RowTable
  <2>2. Timeline(specs, i)
    BY <2>1 DEF MasterInv, Timelines
  <2>3. QED
    BY <2>1, <2>2, TimelineHasOne
<1>2. RefusedOnlyWhenOvertaken
  <2> SUFFICES ASSUME NEW s \in Sessions, step[s] # Idle, s \notin overtaken,
                      Refused(s, step[s])
               PROVE  FALSE
    BY DEF RefusedOnlyWhenOvertaken
  <2> DEFINE u == step[s]
             t == SpecsOf(s)
  <2>1. u \in Finds /\ SpecTable(t)
    BY InSightTyped DEF MasterInv, MasterType
  <2>2. ~RowRefused(s, u) /\ \A d \in Starts(u.id, t) : d <= u.today
    BY DEF MasterInv, FitsUnlessOvertaken, Fits
  <2>3. <<u.id, u.today>> \in DOMAIN t /\ t[<<u.id, u.today>>].to # Forever /\ u.id \notin strayed
    BY <2>2 DEF Refused, SpecRefused
  <2>4. Timeline(t, u.id) /\ u.today \in 0..MaxDay
    BY <2>1, <2>3 DEF MasterInv, Timelines, Finds
  <2>5. u.today \in Starts(u.id, t) /\ t[<<u.id, u.today>>].to \in Int
    BY <2>1, <2>3, StartsAre DEF SpecRows
  <2> HIDE DEF u, t
  <2>6. /\ u.today <= t[<<u.id, u.today>>].to
        /\ t[<<u.id, u.today>>].to + 1 \in Starts(u.id, t)
    BY <2>3, <2>4, <2>5 DEF Timeline
  <2>7. t[<<u.id, u.today>>].to + 1 <= u.today
    BY <2>2, <2>6
  <2>8. QED
    BY <2>4, <2>5, <2>6, <2>7
<1>3. QED
  BY <1>1, <1>2

-----------------------------------------------------------------------------
LEMMA NothingIsEmpty ==
  /\ DOMAIN Nothing = {} /\ RowTable(Nothing) /\ SpecTable(Nothing)
  BY DEF Nothing, RowTable, SpecTable

(* Laying nothing over a table changes nothing.                            *)
LEMMA OverNothing ==
  ASSUME NEW t, NEW i
  PROVE  SameOf(t, Over(Nothing, t), i)
<1>1. /\ DOMAIN Over(Nothing, t) = DOMAIN Nothing \cup DOMAIN t
      /\ \A x \in DOMAIN t \ DOMAIN Nothing : Over(Nothing, t)[x] = t[x]
  BY OverFacts
<1>2. /\ DOMAIN Over(Nothing, t) = DOMAIN t
      /\ \A x \in DOMAIN t : Over(Nothing, t)[x] = t[x]
  BY <1>1, NothingIsEmpty
<1>3. QED
  BY <1>2 DEF SameOf

LEMMA InitMaster == MasterInit => MasterInv
<1> SUFFICES ASSUME MasterInit PROVE MasterInv
  OBVIOUS
<1>1. /\ day = 0 /\ upserts = 0 /\ rows = Nothing /\ specs = Nothing
      /\ step = [s \in Sessions |-> Idle]
      /\ new_rows = [s \in Sessions |-> Nothing] /\ new_specs = [s \in Sessions |-> Nothing]
      /\ overtaken = {}
  BY DEF MasterInit, Clean
<1>2. MasterType
  BY <1>1, NothingIsEmpty, MasterAssumption DEF MasterType
<1>3. OneWriter /\ Dated /\ FitsUnlessOvertaken
  BY <1>1, NothingIsEmpty DEF OneWriter, Dated, FitsUnlessOvertaken
<1>4. OneContract /\ Apart
  <2>1. OneContract
    BY <1>1, NothingIsEmpty DEF OneContract, Tells
  <2>2. \A s \in Sessions : DOMAIN RowsOf(s) = {}
    BY <1>1, NothingIsEmpty DEF RowsOf, Over
  <2>3. QED
    BY <1>1, <2>1, <2>2, NothingIsEmpty DEF Apart, NoClashIn
<1>5. Timelines
  <2>1. \A i : Starts(i, Nothing) = {}
    BY NothingIsEmpty DEF Starts
  <2>2. \A i : Timeline(Nothing, i)
    BY <2>1 DEF Timeline
  <2>3. ASSUME NEW s \in Sessions, NEW i PROVE Timeline(SpecsOf(s), i)
    <3>1. SpecsOf(s) = Over(Nothing, Nothing)
      BY <1>1 DEF SpecsOf
    <3>2. SpecTable(SpecsOf(s))
      BY <1>2, InSightTyped
    <3>3. QED
      BY <2>2, <3>1, <3>2, NothingIsEmpty, OverNothing, SameTimeline
  <2>4. QED
    BY <1>1, <2>2, <2>3 DEF Timelines
<1>6. QED
  BY <1>2, <1>3, <1>4, <1>5 DEF MasterInv

-----------------------------------------------------------------------------
(* What tells nothing new keeps contracts apart.                           *)
LEMMA NoneNew ==
  ASSUME OneContract, \A i, k : Tells(i, k)' => Tells(i, k)
  PROVE  OneContract'
  BY DEF OneContract

LEMMA SameTablesKeep ==
  ASSUME MasterInv, day' \in 0..MaxDay, day <= day', upserts' \in 0..MaxUpserts,
         UNCHANGED <<rows, specs, pending, overtaken, strayed>>
  PROVE  MasterInv'
<1>1. UNCHANGED <<step, new_rows, new_specs>>
  BY DEF pending
<1>2. MasterType'
  BY <1>1 DEF MasterInv, MasterType
<1>3. \A s \in Sessions : RowsOf(s)' = RowsOf(s) /\ SpecsOf(s)' = SpecsOf(s)
  BY <1>1 DEF RowsOf, SpecsOf
<1>4. OneWriter' /\ OneContract'
  BY <1>1, NoneNew DEF MasterInv, OneWriter, Tells
<1>5. Apart' /\ Timelines'
  BY <1>1, <1>3 DEF MasterInv, Apart, NoClashIn, Timelines
<1>6. Dated'
  <2>1. \A s \in Sessions : SpecTable(new_specs[s])
    BY DEF MasterInv, MasterType
  <2>2. SpecTable(specs) /\ day \in Nat /\ day' \in Nat
    BY MasterAssumption DEF MasterInv, MasterType
  <2>3. \A k \in DOMAIN specs : k[2] \in Nat
    BY <2>2, MasterAssumption DEF SpecTable
  <2>4. \A s \in Sessions : \A k \in DOMAIN new_specs[s] : k[2] \in Nat
    BY <2>1, MasterAssumption DEF SpecTable
  <2>5. \A s \in Sessions : step[s] # Idle => step[s].today \in Nat
    BY MasterAssumption DEF MasterInv, MasterType, Finds
  <2>6. QED
    BY <1>1, <2>2, <2>3, <2>4, <2>5 DEF MasterInv, Dated
<1>7. FitsUnlessOvertaken'
  <2>1. \A s \in Sessions : Fits(s, step[s])' <=> Fits(s, step[s])
    BY <1>1, <1>3 DEF Fits, RowRefused, WrittenRow
  <2>2. QED
    BY <1>1, <2>1 DEF MasterInv, FitsUnlessOvertaken
<1>8. QED
  BY <1>2, <1>4, <1>5, <1>6, <1>7 DEF MasterInv

-----------------------------------------------------------------------------
(* What a look finds: a row of the contract, by a key no other in sight    *)
(* has or, none having the vendor's, by its name; or, when none has either, *)
(* an id nobody tells of.                                                  *)
LEMMA LookFinds ==
  ASSUME MasterInv, NEW s \in Sessions, NEW contract \in Contracts,
         NEW found, found = Match(s, contract), found = {} => FreeIds # {},
         NEW id, id = IF found = {} THEN Min(FreeIds) ELSE Freshest(found, RowsOf(s))
  PROVE  /\ id \in Ids
         /\ found # {} => id \in DOMAIN RowsOf(s) /\ RowsOf(s)[id].contract = contract
         /\ found = {} =>
              /\ \A k : ~Tells(id, k)
              /\ \A j \in DOMAIN RowsOf(s) :
                   RowsOf(s)[j].contract = contract => RowsOf(s)[j].symbol # Sources[s].spells
         /\ \/ found # {} /\ Sources[s].vendor \in RowsOf(s)[id].vendors
            \/ \A j \in DOMAIN RowsOf(s) :
                 RowsOf(s)[j].contract = contract => Sources[s].vendor \notin RowsOf(s)[j].vendors
<1> DEFINE keyed == {i \in DOMAIN RowsOf(s) : RowsOf(s)[i].contract = contract
                                               /\ Sources[s].vendor \in RowsOf(s)[i].vendors}
           seens == {RowsOf(s)[i].seen : i \in found}
<1>1. found = IF keyed # {} THEN keyed ELSE NaturalMatch(s, contract)
  BY DEF Match
<1>2. \A i \in found : i \in DOMAIN RowsOf(s) /\ RowsOf(s)[i].contract = contract
  BY <1>1 DEF NaturalMatch
<1>3. RowTable(RowsOf(s))
  BY InSightTyped DEF MasterInv
<1>4. CASE found = {}
  <2>1. FreeIds \in SUBSET Ids /\ FreeIds \in SUBSET Nat
    BY MasterAssumption DEF FreeIds, Ids
  <2>2. id \in FreeIds
    BY <1>4, <2>1, MinIsLeast
  <2>3. /\ id \notin DOMAIN rows
        /\ \A o \in Sessions : id \notin DOMAIN new_rows[o]
        /\ \A o \in Sessions : step[o] # Idle => step[o].id # id
    <3>1. /\ id \notin DOMAIN rows /\ id \notin UNION {DOMAIN new_rows[o] : o \in Sessions}
          /\ id \notin {step[o].id : o \in {p \in Sessions : step[p] # Idle}}
      BY <2>2 DEF FreeIds
    <3>2. \A o \in Sessions : step[o] # Idle => o \in {p \in Sessions : step[p] # Idle}
      OBVIOUS
    <3>3. QED
      BY <3>1, <3>2
  <2>4. \A k : ~Tells(id, k)
    BY <2>3 DEF Tells
  <2>5. keyed = {}
    BY <1>1, <1>4
  <2>6. NaturalMatch(s, contract) = {}
    BY <1>1, <1>4, <2>5
  <2>7. \A j \in DOMAIN RowsOf(s) :
          RowsOf(s)[j].contract = contract => RowsOf(s)[j].symbol # Sources[s].spells
    BY <2>6 DEF NaturalMatch
  <2>8. QED
    BY <1>4, <2>1, <2>2, <2>4, <2>5, <2>7
<1>5. CASE found # {}
  <2>1. seens \in SUBSET (0..MaxUpserts) /\ seens # {} /\ MaxUpserts \in Nat
    <3>1. \A i \in found : RowsOf(s)[i] \in MasterRows
      BY <1>2, <1>3 DEF RowTable
    <3>2. \A i \in found : RowsOf(s)[i].seen \in 0..MaxUpserts
      BY <3>1 DEF MasterRows
    <3>3. QED
      BY <1>5, <3>2, MasterAssumption
  <2>2. PICK m \in seens : \A n \in seens : n <= m
    <3> HIDE DEF seens
    <3>1. QED
      BY <2>1, GreatestExists
  <2>3. \E i \in found : \A j \in found : RowsOf(s)[j].seen <= RowsOf(s)[i].seen
    BY <2>2
  <2>4. id \in found
    BY <1>5, <2>3 DEF Freshest
  <2>5. id \in DOMAIN RowsOf(s) /\ RowsOf(s)[id].contract = contract /\ id \in Ids
    BY <1>2, <1>3, <2>4 DEF RowTable
  <2>6. keyed # {} => Sources[s].vendor \in RowsOf(s)[id].vendors
    BY <1>1, <2>4
  <2>7. QED
    BY <1>5, <2>5, <2>6
<1>6. QED
  BY <1>4, <1>5

(* A row in a session's sight tells.                                       *)
LEMMA SightTells ==
  ASSUME NEW s \in Sessions, NEW i \in DOMAIN RowsOf(s)
  PROVE  Tells(i, RowsOf(s)[i].contract)
<1>1. /\ DOMAIN RowsOf(s) = DOMAIN new_rows[s] \cup DOMAIN rows
      /\ \A x \in DOMAIN new_rows[s] : RowsOf(s)[x] = new_rows[s][x]
      /\ \A x \in DOMAIN rows \ DOMAIN new_rows[s] : RowsOf(s)[x] = rows[x]
  BY OverFacts DEF RowsOf
<1>2. QED
  BY <1>1 DEF Tells

(* What a look has just found fits what it saw.                            *)
LEMMA FoundFits ==
  ASSUME MasterInv, NEW s \in Sessions, NEW contract \in Contracts,
         NEW found, found = Match(s, contract), found = {} => FreeIds # {},
         NEW u, u.id = IF found = {} THEN Min(FreeIds) ELSE Freshest(found, RowsOf(s)),
         u.contract = contract, u.today = day,
         u.keys = IF found = {} THEN {} ELSE RowsOf(s)[u.id].vendors
  PROVE  Fits(s, u)
<1> DEFINE v == Sources[s].vendor
           seen == RowsOf(s)
           w == WrittenRow(s, u)
<1>1. PICK id : id = u.id
  OBVIOUS
<1>2. /\ found # {} => id \in DOMAIN seen /\ seen[id].contract = contract
      /\ found = {} => \A k : ~Tells(id, k)
      /\ found = {} => \A j \in DOMAIN seen :
                         seen[j].contract = contract => seen[j].symbol # Sources[s].spells
      /\ \/ found # {} /\ v \in seen[id].vendors
         \/ \A j \in DOMAIN seen : seen[j].contract = contract => v \notin seen[j].vendors
  BY <1>1, LookFinds
<1>3. RowTable(seen) /\ NoClashIn(seen) /\ v \in Vendors
  BY InSightTyped DEF MasterInv, Apart, Vendors
<1>4. ASSUME NEW j \in DOMAIN seen \ {id}, Clash(seen[j], w) PROVE FALSE
  <2>1. CASE found = {}
    <3>1. id \notin DOMAIN seen
      BY <1>2, <2>1, SightTells
    <3>2. w.contract = contract /\ w.symbol = Sources[s].spells /\ w.vendors = {v}
      BY <1>1, <3>1 DEF WrittenRow
    <3>3. QED
      BY <1>2, <1>4, <2>1, <3>2 DEF Clash
  <2>2. CASE found # {}
    <3>1. id \in DOMAIN seen /\ seen[id] \in MasterRows /\ seen[id].contract = contract
      BY <1>2, <1>3, <2>2 DEF RowTable
    <3>2. w = [seen[id] EXCEPT !.seen = u.seen,
                 !.vendors = IF v \in u.keys THEN @ ELSE u.keys \cup {v}]
      BY <1>1, <3>1 DEF WrittenRow
    <3>3. /\ w.contract = contract /\ w.symbol = seen[id].symbol
          /\ w.vendors = IF v \in seen[id].vendors THEN seen[id].vendors
                         ELSE seen[id].vendors \cup {v}
      BY <1>1, <2>2, <3>1, <3>2 DEF MasterRows
    <3>4. ~Clash(seen[j], seen[id])
      BY <1>3, <1>4, <3>1 DEF NoClashIn
    <3> HIDE DEF w
    <3>5. QED
      BY <1>2, <1>4, <3>1, <3>3, <3>4 DEF Clash
  <2>3. QED
    BY <2>1, <2>2
<1>5. ~RowRefused(s, u)
  BY <1>1, <1>4 DEF RowRefused
<1>6. \A d \in Starts(u.id, SpecsOf(s)) : d <= u.today
  <2>1. /\ DOMAIN SpecsOf(s) = DOMAIN new_specs[s] \cup DOMAIN specs
        /\ SpecTable(SpecsOf(s))
    BY OverFacts, InSightTyped DEF SpecsOf, MasterInv
  <2>2. \A k \in DOMAIN SpecsOf(s) : k[2] <= day
    BY <2>1 DEF MasterInv, Dated
  <2>3. QED
    BY <2>2 DEF Starts
<1>7. QED
  BY <1>5, <1>6 DEF Fits

(* A session another does not touch sees what it saw.                      *)
LEMMA SameSightFits ==
  ASSUME NEW s \in Sessions, Fits(s, step[s]), RowsOf(s)' = RowsOf(s),
         SpecsOf(s)' = SpecsOf(s), step'[s] = step[s]
  PROVE  Fits(s, step[s])'
  BY DEF Fits, RowRefused, WrittenRow

LEMMA LookKeeps ==
  ASSUME MasterInv, NEW s \in Sessions, NEW contract \in Contracts,
         NEW lot \in Lots \cup {0}, Look(s, contract, lot)
  PROVE  MasterInv'
<1>1. PICK found : found = Match(s, contract)
  OBVIOUS
<1>2. PICK id : id = IF found = {} THEN Min(FreeIds) ELSE Freshest(found, RowsOf(s))
  OBVIOUS
<1>3. PICK u : u = [at |-> "found", id |-> id, contract |-> contract,
                    lot |-> lot, today |-> day, seen |-> upserts + 1,
                    keys |-> IF found = {} THEN {} ELSE RowsOf(s)[id].vendors]
  OBVIOUS
<1>4. /\ step[s] = Idle /\ upserts < MaxUpserts /\ upserts' = upserts + 1
      /\ found = {} => FreeIds # {}
      /\ step' = [step EXCEPT ![s] = u]
      /\ UNCHANGED <<day, rows, specs, new_rows, new_specs, overtaken, strayed>>
  BY <1>1, <1>2, <1>3 DEF Look
<1>5. /\ id \in Ids
      /\ found # {} => id \in DOMAIN RowsOf(s) /\ RowsOf(s)[id].contract = contract
      /\ found = {} => \A k : ~Tells(id, k)
  BY <1>1, <1>2, <1>4, LookFinds
<1>6. u \in Finds /\ u # Idle /\ upserts' \in 0..MaxUpserts
  <2>1. upserts + 1 \in 0..MaxUpserts
    BY <1>4, MasterAssumption DEF MasterInv, MasterType
  <2>2. lot \in Nat /\ day \in 0..MaxDay
    BY MasterAssumption DEF MasterInv, MasterType
  <2>3. u.keys \in SUBSET Vendors
    <3>1. found # {} => RowsOf(s)[id] \in MasterRows
      BY <1>5, InSightTyped DEF MasterInv, RowTable
    <3>2. QED
      BY <1>3, <3>1 DEF MasterRows
  <2>6. u \in Finds
    BY <1>3, <1>5, <2>1, <2>2, <2>3 DEF Finds
  <2>4. u.at # Idle.at
    BY <1>3 DEF Idle
  <2>5. QED
    BY <1>4, <2>1, <2>4, <2>6
<1>7. step'[s] = u /\ \A o \in Sessions \ {s} : step'[o] = step[o]
  BY <1>4 DEF MasterInv, MasterType
<1>8. MasterType'
  BY <1>4, <1>6, <1>7 DEF MasterInv, MasterType
<1>9. OneWriter' /\ Apart' /\ Timelines' /\ Dated'
  <2>1. \A o \in Sessions : RowsOf(o)' = RowsOf(o) /\ SpecsOf(o)' = SpecsOf(o)
    BY <1>4 DEF RowsOf, SpecsOf
  <2>2. day \in Int /\ u.today = day
    BY <1>3, MasterAssumption DEF MasterInv, MasterType
  <2>3. Dated'
    BY <1>4, <1>7, <2>2 DEF MasterInv, Dated
  <2>4. QED
    BY <1>4, <2>1, <2>3 DEF MasterInv, OneWriter, Apart, NoClashIn, Timelines
<1>10. /\ u.id = id /\ u.contract = contract
  BY <1>3
<1>11. OneContract'
  <2>1. \A i, k : Tells(i, k)' => Tells(i, k) \/ (i = id /\ k = contract)
    BY <1>4, <1>7, <1>10 DEF Tells
  <2>2. CASE found # {}
    <3>1. Tells(id, contract)
      BY <1>5, <2>2, SightTells
    <3>2. \A i, k : Tells(i, k)' => Tells(i, k)
      BY <2>1, <3>1
    <3>3. QED
      BY <3>2 DEF MasterInv, OneContract
  <2>3. CASE found = {}
    <3>1. \A k : ~Tells(id, k)
      BY <1>5, <2>3
    <3>2. QED
      BY <2>1, <3>1 DEF MasterInv, OneContract
  <2>4. QED
    BY <2>2, <2>3
<1>12. FitsUnlessOvertaken'
  <2>1. \A o \in Sessions : RowsOf(o)' = RowsOf(o) /\ SpecsOf(o)' = SpecsOf(o)
    BY <1>4 DEF RowsOf, SpecsOf
  <2>2. Fits(s, u)
    <3>1. /\ u.id = IF found = {} THEN Min(FreeIds) ELSE Freshest(found, RowsOf(s))
          /\ u.contract = contract /\ u.today = day
          /\ u.keys = IF found = {} THEN {} ELSE RowsOf(s)[u.id].vendors
      BY <1>2, <1>3
    <3>2. QED
      BY <1>1, <1>4, <3>1, FoundFits
  <2>3. Fits(s, step[s])'
    BY <1>7, <2>1, <2>2 DEF Fits, RowRefused, WrittenRow
  <2>4. \A o \in Sessions \ {s} : Fits(o, step[o]) => Fits(o, step[o])'
    BY <1>7, <2>1, SameSightFits
  <2>5. QED
    BY <1>4, <1>7, <2>3, <2>4 DEF MasterInv, FitsUnlessOvertaken
<1>13. QED
  BY <1>8, <1>9, <1>11, <1>12 DEF MasterInv

-----------------------------------------------------------------------------
(* The last spec is open: an id none is open of has none.                  *)
LEMMA LastIsOpen ==
  ASSUME NEW t, SpecTable(t), NEW i, Timeline(t, i), OpenStarts(i, t) = {}
  PROVE  Starts(i, t) = {}
<1> SUFFICES ASSUME Starts(i, t) # {} PROVE FALSE
  OBVIOUS
<1>1. Starts(i, t) \in SUBSET (0..MaxDay) /\ MaxDay \in Nat
  BY StartsAre, MasterAssumption
<1>2. PICK a \in Starts(i, t) : \A e \in Starts(i, t) : e <= a
  BY <1>1, GreatestExists
<1>3. t[<<i, a>>].to # Forever /\ t[<<i, a>>].to \in Int /\ a \in Nat
  BY <1>1, StartsAre DEF OpenStarts, SpecRows
<1>4. a <= t[<<i, a>>].to /\ t[<<i, a>>].to + 1 \in Starts(i, t)
  BY <1>3 DEF Timeline
<1>5. QED
  BY <1>2, <1>3, <1>4

(* Closing the last yesterday and opening the next today keeps a timeline.  *)
LEMMA CloseAndOpen ==
  ASSUME NEW t, SpecTable(t), NEW after, NEW i, Timeline(t, i),
         NEW from \in OpenStarts(i, t), NEW today \in 0..MaxDay, from < today,
         Starts(i, after) = Starts(i, t) \cup {today},
         after[<<i, today>>].to = Forever, after[<<i, from>>].to = today - 1,
         \A d \in Starts(i, t) \ {from} : after[<<i, d>>].to = t[<<i, d>>].to
  PROVE  Timeline(after, i)
<1> DEFINE starts == Starts(i, t)
<1>1. /\ from \in starts /\ t[<<i, from>>].to = Forever /\ MaxDay \in Nat
      /\ \A e \in starts : e \in 0..MaxDay
      /\ \A e \in starts : t[<<i, e>>].to \in Int
  BY StartsAre, MasterAssumption DEF OpenStarts, SpecRows
<1>2. \A e \in starts : e <= from
  BY <1>1 DEF Timeline
<1> SUFFICES ASSUME NEW d \in starts \cup {today}
             PROVE  LET to == after[<<i, d>>].to
                    IN  IF to = Forever THEN \A e \in starts \cup {today} : e <= d
                        ELSE /\ d <= to /\ to + 1 \in starts \cup {today}
                             /\ \A e \in starts \cup {today} : e <= d \/ e >= to + 1
  BY DEF Timeline
<1> HIDE DEF starts
<1>3. CASE d = today
  <2>1. \A e \in starts \cup {today} : e <= today
    <3>1. \A e \in starts : e \in Int /\ e <= from
      BY <1>1, <1>2
    <3>2. from \in Int /\ today \in Int
      BY <1>1, <3>1
    <3>3. QED
      BY <3>1, <3>2
  <2>2. QED
    BY <1>3, <2>1
<1>4. CASE d = from
  <2>1. today - 1 # Forever /\ today \in Int /\ from \in Int
    BY <1>1 DEF Forever
  <2>2. after[<<i, d>>].to = today - 1 /\ d <= today - 1 /\ today - 1 + 1 = today
    BY <1>4, <2>1
  <2>3. \A e \in starts \cup {today} : e <= d \/ e >= today
    BY <1>2, <1>4, <2>1
  <2>4. QED
    BY <2>1, <2>2, <2>3
<1>5. CASE d \in starts /\ d # from
  <2> DEFINE to == t[<<i, d>>].to
  <2>1. after[<<i, d>>].to = to /\ to \in Int
    BY <1>1, <1>5 DEF starts
  <2>2. to # Forever
    <3> SUFFICES ASSUME to = Forever PROVE FALSE
      OBVIOUS
    <3>1. from <= d
      BY <1>1, <1>5 DEF Timeline, starts
    <3>2. QED
      BY <1>1, <1>2, <1>5, <3>1
  <2>3. /\ d <= to /\ to + 1 \in starts
        /\ \A e \in starts : e <= d \/ e >= to + 1
    BY <1>5, <2>2 DEF Timeline, starts
  <2>4. today >= to + 1
    BY <1>1, <1>2, <2>1, <2>3
  <2> HIDE DEF to
  <2>5. QED
    BY <2>1, <2>2, <2>3, <2>4
<1>6. QED
  BY <1>3, <1>4, <1>5

(* Recording a spec keeps every timeline, but that of an id it writes with  *)
(* a date older than its last.                                             *)
LEMMA RecordSpecKeeps ==
  ASSUME MasterInv, NEW s \in Sessions, NEW u \in Finds, NEW put, put = RecordSpec(s, u)
  PROVE  /\ SpecTable(put)
         /\ \A k \in DOMAIN put : k \in DOMAIN new_specs[s] \/ k[1] = u.id
         /\ \A i \in Ids \ strayed :
              i # u.id \/ ~(u.lot > 0 /\ \E d \in Starts(u.id, SpecsOf(s)) : d > u.today) =>
                Timeline(Over(put, specs), i)
<1> DEFINE own   == new_specs[s]
           sight == SpecsOf(s)
           after == Over(put, specs)
           open  == OpenStarts(u.id, sight)
           from  == CHOOSE d \in open : TRUE
           fresh == [to |-> Forever, lot |-> u.lot]
           key   == <<u.id, u.today>>
           last  == <<u.id, from>>
           shut  == [sight[last] EXCEPT !.to = ClosedOn(u.today)]
<1>1. /\ SpecTable(own) /\ SpecTable(specs) /\ SpecTable(sight)
      /\ \A i \in Ids \ strayed : Timeline(sight, i)
  BY InSightTyped DEF MasterInv, MasterType, Timelines
<1>2. /\ u.id \in Ids /\ u.lot \in Nat /\ u.today \in 0..MaxDay /\ MaxDay \in Nat
      /\ fresh \in SpecRows /\ fresh.to = Forever
      /\ key \in Ids \X (0..MaxDay)
  BY MasterAssumption DEF Finds, SpecRows, Forever
<1>3. /\ DOMAIN sight = DOMAIN own \cup DOMAIN specs
      /\ \A x \in DOMAIN own : sight[x] = own[x]
      /\ \A x \in DOMAIN specs \ DOMAIN own : sight[x] = specs[x]
  BY OverFacts DEF SpecsOf
<1>4. /\ DOMAIN after = DOMAIN put \cup DOMAIN specs
      /\ \A x \in DOMAIN put : after[x] = put[x]
      /\ \A x \in DOMAIN specs \ DOMAIN put : after[x] = specs[x]
  BY DEF Over
<1>5. \A i : \A d : d \in Starts(i, sight) <=> <<i, d>> \in DOMAIN sight
  BY <1>1, StartsAre
<1>6. put = IF u.lot = 0 THEN own
            ELSE IF open = {} THEN Put(key, fresh, own)
            ELSE IF sight[last].lot = u.lot THEN own
            ELSE IF from = u.today THEN Put(key, fresh, own)
            ELSE Put(key, fresh, Put(last, shut, own))
  BY DEF RecordSpec
<1>7. open # {} => /\ from \in open /\ from \in Starts(u.id, sight)
                   /\ last \in DOMAIN sight /\ sight[last] \in SpecRows
                   /\ sight[last].to = Forever /\ last \in Ids \X (0..MaxDay)
                   /\ from \in 0..MaxDay
  BY <1>1, <1>2, StartsAre DEF OpenStarts
<1> HIDE DEF sight, after, open, from, fresh, key, last, shut
<1>8. CASE put = own
  <2>1. after = sight
    BY <1>8 DEF after, sight, SpecsOf
  <2>2. QED
    BY <1>1, <1>8, <2>1 DEF after
<1>9. CASE u.lot # 0 /\ put = Put(key, fresh, own) /\ (open = {} \/ from = u.today)
  <2>1. /\ DOMAIN put = {key} \cup DOMAIN own /\ put[key] = fresh
        /\ \A x \in DOMAIN own \ {key} : put[x] = own[x]
    BY <1>9 DEF Put, Over
  <2>2. SpecTable(put) /\ SpecTable(after)
    <3>1. SpecTable(put)
      BY <1>1, <1>2, <2>1 DEF SpecTable
    <3>2. QED
      BY <1>1, <1>4, <3>1 DEF SpecTable
  <2>3. /\ DOMAIN after = {key} \cup DOMAIN sight /\ after[key] = fresh
        /\ \A x \in DOMAIN sight \ {key} : after[x] = sight[x]
    BY <1>3, <1>4, <2>1
  <2>4. \A i : i # u.id => SameOf(sight, after, i)
    BY <2>3 DEF SameOf, key
  <2>5. \A i \in Ids \ strayed : i # u.id => Timeline(after, i)
    BY <1>1, <2>2, <2>4, SameTimeline
  <2>6. \A d : d \in Starts(u.id, after) <=> d = u.today \/ d \in Starts(u.id, sight)
    BY <1>5, <2>2, <2>3, StartsAre DEF key
  <2>7. u.id \notin strayed => Timeline(after, u.id)
    <3> SUFFICES ASSUME u.id \notin strayed PROVE Timeline(after, u.id)
      OBVIOUS
    <3>1. Timeline(sight, u.id)
      BY <1>1, <1>2
    <3>2. CASE open = {}
      <4>1. Starts(u.id, sight) = {}
        BY <1>1, <3>1, <3>2, LastIsOpen DEF open
      <4>2. Starts(u.id, after) = {u.today}
        BY <2>6, <4>1
      <4>3. after[<<u.id, u.today>>].to = Forever
        BY <1>2, <2>3 DEF key
      <4>4. u.today <= u.today
        BY <1>2
      <4>5. QED
        BY <4>2, <4>3, <4>4 DEF Timeline
    <3>3. CASE open # {} /\ from = u.today
      <4>1. Starts(u.id, after) = Starts(u.id, sight)
        BY <1>7, <2>6, <3>3
      <4>2. \A d \in Starts(u.id, sight) :
              after[<<u.id, d>>].to = sight[<<u.id, d>>].to
        <5>1. key = last
          BY <3>3 DEF key, last
        <5>2. after[key].to = sight[key].to
          BY <1>2, <1>7, <2>3, <3>3, <5>1
        <5>3. \A d \in Starts(u.id, sight) : <<u.id, d>> \in DOMAIN sight
          BY <1>5
        <5>4. QED
          BY <2>3, <5>2, <5>3
      <4>3. QED
        BY <3>1, <4>1, <4>2 DEF Timeline
    <3>4. QED
      BY <1>9, <3>2, <3>3
  <2>8. QED
    BY <2>1, <2>2, <2>5, <2>7 DEF after, key
<1>10. CASE /\ u.lot # 0 /\ open # {} /\ from # u.today
            /\ put = Put(key, fresh, Put(last, shut, own))
  <2> DEFINE mid == Put(last, shut, own)
  <2>1. /\ DOMAIN mid = {last} \cup DOMAIN own /\ mid[last] = shut
        /\ \A x \in DOMAIN own \ {last} : mid[x] = own[x]
    BY DEF Put, Over
  <2>2. /\ DOMAIN put = {key} \cup DOMAIN mid /\ put[key] = fresh
        /\ \A x \in DOMAIN mid \ {key} : put[x] = mid[x]
    BY <1>10 DEF Put, Over
  <2> HIDE DEF mid
  <2>3. key # last
    BY <1>10 DEF key, last
  <2>4. shut \in SpecRows /\ shut.to = u.today - 1
    <3>1. ClosedOn(u.today) = u.today - 1 /\ u.today - 1 \in Int
      BY <1>2 DEF ClosedOn
    <3>2. QED
      BY <1>7, <1>10, <3>1 DEF shut, SpecRows
  <2>5. SpecTable(put) /\ SpecTable(after)
    <3>1. SpecTable(mid)
      BY <1>1, <1>7, <1>10, <2>1, <2>4 DEF SpecTable
    <3>2. SpecTable(put)
      BY <1>2, <2>2, <3>1 DEF SpecTable
    <3>3. QED
      BY <1>1, <1>4, <3>2 DEF SpecTable
  <2>6. /\ DOMAIN after = {key, last} \cup DOMAIN sight
        /\ after[key] = fresh /\ after[last] = shut
        /\ \A x \in DOMAIN sight \ {key, last} : after[x] = sight[x]
    BY <1>3, <1>4, <2>1, <2>2, <2>3
  <2>7. \A i : i # u.id => SameOf(sight, after, i)
    BY <2>6 DEF SameOf, key, last
  <2>8. \A i \in Ids \ strayed : i # u.id => Timeline(after, i)
    BY <1>1, <2>5, <2>7, SameTimeline
  <2>9. \A d : d \in Starts(u.id, after) <=> d = u.today \/ d \in Starts(u.id, sight)
    BY <1>5, <1>7, <1>10, <2>5, <2>6, StartsAre DEF key, last
  <2>10. ASSUME u.id \notin strayed,
                ~(u.lot > 0 /\ \E d \in Starts(u.id, sight) : d > u.today)
         PROVE  Timeline(after, u.id)
    <3>1. from < u.today
      BY <1>2, <1>7, <1>10, <2>10
    <3>2. Starts(u.id, after) = Starts(u.id, sight) \cup {u.today}
      BY <2>9
    <3>3. after[<<u.id, u.today>>].to = Forever /\ after[<<u.id, from>>].to = u.today - 1
      BY <1>2, <2>4, <2>6 DEF key, last
    <3>4. \A d \in Starts(u.id, sight) \ {from} :
            after[<<u.id, d>>].to = sight[<<u.id, d>>].to
      <4>1. ASSUME NEW d \in Starts(u.id, sight), d # from PROVE d # u.today
        <5>1. Timeline(sight, u.id) /\ from \in Starts(u.id, sight)
                /\ sight[<<u.id, from>>].to = Forever
          BY <1>1, <1>2, <1>7, <1>10, <2>10 DEF last
        <5>2. d <= from
          BY <5>1 DEF Timeline
        <5>3. d \in 0..MaxDay
          BY <1>1, StartsAre
        <5>4. QED
          BY <1>2, <1>7, <1>10, <3>1, <5>2, <5>3
      <4>2. QED
        BY <1>5, <2>6, <4>1 DEF key, last
    <3>5. Timeline(sight, u.id) /\ from \in OpenStarts(u.id, sight)
      BY <1>1, <1>2, <1>7, <1>10, <2>10 DEF open
    <3>6. QED
      BY <1>1, <1>2, <3>1, <3>2, <3>3, <3>4, <3>5, CloseAndOpen
  <2>11. QED
    BY <2>1, <2>2, <2>5, <2>8, <2>10 DEF after, key, last, sight
<1>11. QED
  BY <1>6, <1>8, <1>9, <1>10

-----------------------------------------------------------------------------
(* The specs of a session are of dates it saw or of the day it read.       *)
LEMMA RecordSpecDates ==
  ASSUME MasterInv, NEW s \in Sessions, NEW u \in Finds, NEW put, put = RecordSpec(s, u)
  PROVE  \A k \in DOMAIN put : k \in DOMAIN SpecsOf(s) \/ k = <<u.id, u.today>>
<1> DEFINE own   == new_specs[s]
           sight == SpecsOf(s)
           open  == OpenStarts(u.id, sight)
           from  == CHOOSE d \in open : TRUE
           fresh == [to |-> Forever, lot |-> u.lot]
           key   == <<u.id, u.today>>
           last  == <<u.id, from>>
           shut  == [sight[last] EXCEPT !.to = ClosedOn(u.today)]
<1>1. DOMAIN sight = DOMAIN own \cup DOMAIN specs /\ SpecTable(sight)
  BY OverFacts, InSightTyped DEF SpecsOf, MasterInv
<1>2. put = IF u.lot = 0 THEN own
            ELSE IF open = {} THEN Put(key, fresh, own)
            ELSE IF sight[last].lot = u.lot THEN own
            ELSE IF from = u.today THEN Put(key, fresh, own)
            ELSE Put(key, fresh, Put(last, shut, own))
  BY DEF RecordSpec
<1>3. open # {} => last \in DOMAIN sight
  BY <1>1, StartsAre DEF OpenStarts
<1> HIDE DEF sight, open, from, fresh, key, last, shut
<1>4. DOMAIN Put(key, fresh, own) = {key} \cup DOMAIN own
  BY DEF Put, Over
<1>5. DOMAIN Put(key, fresh, Put(last, shut, own)) = {key} \cup {last} \cup DOMAIN own
  BY DEF Put, Over
<1>6. \A k \in DOMAIN put : k \in DOMAIN sight \/ k = key
  BY <1>1, <1>2, <1>3, <1>4, <1>5
<1>7. QED
  BY <1>6 DEF sight, key

(* What a write makes of its row is of the same contract.                  *)
MadeOf(u, w) == u \in Finds /\ w \in MasterRows /\ w.contract = u.contract

LEMMA RowWritten ==
  ASSUME MasterInv, NEW s \in Sessions, NEW u, u = step[s], u # Idle,
         NEW w, w = WrittenRow(s, u)
  PROVE  MadeOf(u, w)
<1>1. u \in Finds
  BY DEF MasterInv, MasterType
<1>2. /\ u.id \in Ids /\ u.contract \in Contracts /\ u.seen \in 0..MaxUpserts
      /\ Sources[s].vendor \in Vendors /\ u.keys \in SUBSET Vendors
  BY <1>1 DEF Finds, Vendors
<1>3. CASE u.id \in DOMAIN RowsOf(s)
  <2> DEFINE r == RowsOf(s)[u.id]
             v == Sources[s].vendor
  <2>1. w = [r EXCEPT !.seen = u.seen,
                      !.vendors = IF v \in u.keys THEN @ ELSE u.keys \cup {v}]
    BY <1>3 DEF WrittenRow
  <2>2. r \in MasterRows
    BY <1>3, InSightTyped DEF MasterInv, MasterType, RowTable
  <2>3. Tells(u.id, r.contract) /\ Tells(u.id, u.contract)
    BY <1>3, SightTells DEF Tells
  <2> HIDE DEF r
  <2>4. r.contract = u.contract
    BY <1>2, <2>2, <2>3 DEF MasterInv, OneContract, MasterRows
  <2>5. w \in MasterRows /\ w.contract = r.contract
    <3>1. PICK keys : keys = IF v \in u.keys THEN r.vendors ELSE u.keys \cup {v}
      OBVIOUS
    <3>2. keys \in SUBSET Vendors
      BY <1>2, <2>2, <3>1 DEF MasterRows
    <3>3. w = [r EXCEPT !.seen = u.seen, !.vendors = keys]
      BY <2>1, <2>2, <3>1 DEF MasterRows
    <3>4. QED
      BY <1>2, <2>2, <3>2, <3>3 DEF MasterRows
  <2>6. QED
    BY <1>1, <2>4, <2>5 DEF MadeOf
<1>4. CASE u.id \notin DOMAIN RowsOf(s)
  <2>1. w = [contract |-> u.contract, symbol |-> Sources[s].spells,
             vendors |-> {Sources[s].vendor}, seen |-> u.seen]
    BY <1>4 DEF WrittenRow
  <2>2. w \in MasterRows
    BY <1>2, <2>1 DEF MasterRows
  <2>3. QED
    BY <1>1, <2>1, <2>2 DEF MadeOf
<1>5. QED
  BY <1>3, <1>4

LEMMA WriteKeeps ==
  ASSUME MasterInv, NEW s \in Sessions, Write(s)
  PROVE  MasterInv'
<1>1. PICK u : u = step[s]
  OBVIOUS
<1>2. PICK w : w = WrittenRow(s, u)
  OBVIOUS
<1>3. PICK put : put = RecordSpec(s, u)
  OBVIOUS
<1>4. /\ u # Idle /\ ~Locked(s, u.id)
      /\ new_rows' = [new_rows EXCEPT ![s] = Over([i \in {u.id} |-> w], new_rows[s])]
      /\ new_specs' = [new_specs EXCEPT ![s] = put]
      /\ step' = [step EXCEPT ![s] = Idle]
      /\ strayed' = IF u.lot > 0 /\ \E d \in Starts(u.id, SpecsOf(s)) : d > u.today
                    THEN strayed \cup {u.id} ELSE strayed
      /\ ~ClashAwaited(s, u) /\ ~RowRefused(s, u)
      /\ overtaken' = overtaken \ {s}
      /\ UNCHANGED <<day, upserts, rows, specs>>
  BY <1>1, <1>2, <1>3 DEF Write
<1>5. MadeOf(u, w)
  BY <1>1, <1>2, <1>4, RowWritten
<1>6. u.id \in Ids
  BY <1>5 DEF MadeOf, Finds
<1>7. /\ SpecTable(put)
      /\ \A k \in DOMAIN put : k \in DOMAIN new_specs[s] \/ k[1] = u.id
      /\ \A i \in Ids \ strayed :
           i # u.id \/ ~(u.lot > 0 /\ \E d \in Starts(u.id, SpecsOf(s)) : d > u.today) =>
             Timeline(Over(put, specs), i)
  BY <1>3, <1>5, RecordSpecKeeps DEF MadeOf
<1>8. /\ step'[s] = Idle /\ new_specs'[s] = put
      /\ \A o \in Sessions \ {s} :
           step'[o] = step[o] /\ new_rows'[o] = new_rows[o] /\ new_specs'[o] = new_specs[o]
      /\ step' = [o \in Sessions |-> step'[o]]
      /\ new_rows' = [o \in Sessions |-> new_rows'[o]]
      /\ new_specs' = [o \in Sessions |-> new_specs'[o]]
  BY <1>4 DEF MasterInv, MasterType
<1>9. /\ DOMAIN new_rows'[s] = {u.id} \cup DOMAIN new_rows[s]
      /\ new_rows'[s][u.id] = w
      /\ \A x \in DOMAIN new_rows[s] \ {u.id} : new_rows'[s][x] = new_rows[s][x]
  <2>1. new_rows'[s] = Over([i \in {u.id} |-> w], new_rows[s])
    BY <1>4 DEF MasterInv, MasterType
  <2>2. QED
    BY <2>1 DEF Over
<1>10. MasterType'
  <2>1. RowTable(new_rows'[s])
    <3>1. RowTable(new_rows[s])
      BY DEF MasterInv, MasterType
    <3>2. QED
      BY <1>5, <1>6, <1>9, <3>1 DEF RowTable, MadeOf
  <2>2. \A o \in Sessions : RowTable(new_rows'[o]) /\ SpecTable(new_specs'[o])
                              /\ step'[o] \in Finds \cup {Idle}
    BY <1>7, <1>8, <2>1 DEF MasterInv, MasterType
  <2>3. QED
    BY <1>4, <1>8, <2>2 DEF MasterInv, MasterType
<1>11. \A o \in Sessions \ {s} : u.id \notin DOMAIN new_rows[o]
  BY <1>4 DEF Locked
<1>12. OneWriter'
  <2>1. \A o \in Sessions \ {s} : DOMAIN new_rows'[o] \cap DOMAIN new_rows'[s] = {}
    BY <1>8, <1>9, <1>11 DEF MasterInv, OneWriter
  <2>2. \A o \in Sessions \ {s} : \A k \in DOMAIN new_specs'[o] : k[1] \in DOMAIN new_rows'[o]
    BY <1>8 DEF MasterInv, OneWriter
  <2>3. \A k \in DOMAIN put : k[1] \in DOMAIN new_rows'[s]
    BY <1>7, <1>9 DEF MasterInv, OneWriter
  <2>4. QED
    BY <1>8, <2>1, <2>2, <2>3 DEF MasterInv, OneWriter
<1>13. Apart'
  <2>1. /\ DOMAIN RowsOf(s)' = {u.id} \cup DOMAIN RowsOf(s)
        /\ RowsOf(s)'[u.id] = w
        /\ \A x \in DOMAIN RowsOf(s) \ {u.id} : RowsOf(s)'[x] = RowsOf(s)[x]
    <3>1. /\ DOMAIN RowsOf(s) = DOMAIN new_rows[s] \cup DOMAIN rows
          /\ \A x \in DOMAIN new_rows[s] : RowsOf(s)[x] = new_rows[s][x]
          /\ \A x \in DOMAIN rows \ DOMAIN new_rows[s] : RowsOf(s)[x] = rows[x]
      BY OverFacts DEF RowsOf
    <3>2. RowsOf(s)' = Over(new_rows'[s], rows)
      BY <1>4 DEF RowsOf
    <3>3. /\ DOMAIN RowsOf(s)' = DOMAIN new_rows'[s] \cup DOMAIN rows
          /\ \A x \in DOMAIN new_rows'[s] : RowsOf(s)'[x] = new_rows'[s][x]
          /\ \A x \in DOMAIN rows \ DOMAIN new_rows'[s] : RowsOf(s)'[x] = rows[x]
      BY <3>2 DEF Over
    <3>4. QED
      BY <1>9, <3>1, <3>3
  <2>2. \A i \in DOMAIN RowsOf(s) \ {u.id} : ~Clash(RowsOf(s)[i], w) /\ ~Clash(w, RowsOf(s)[i])
    BY <1>2, <1>4 DEF RowRefused, Clash
  <2>3. NoClashIn(RowsOf(s)')
    BY <2>1, <2>2 DEF MasterInv, Apart, NoClashIn
  <2>4. \A o \in Sessions \ {s} : RowsOf(o)' = RowsOf(o)
    BY <1>4, <1>8 DEF RowsOf
  <2>5. \A o \in Sessions \ {s} : \A i \in DOMAIN new_rows[o] :
          ~Clash(new_rows[o][i], w) /\ ~Clash(w, new_rows[o][i])
    BY <1>2, <1>4, <1>11 DEF ClashAwaited, Clash
  <2>6. ASSUME NEW o \in Sessions, NEW p \in Sessions, o # p,
               NEW i \in DOMAIN new_rows'[o], NEW j \in DOMAIN new_rows'[p]
        PROVE  ~Clash(new_rows'[o][i], new_rows'[p][j])
    <3>1. CASE o # s /\ p # s
      BY <1>8, <2>6, <3>1 DEF MasterInv, Apart
    <3>2. CASE o = s
      <4>1. new_rows'[p] = new_rows[p]
        BY <1>8, <2>6, <3>2
      <4>2. CASE i = u.id
        BY <1>9, <2>5, <2>6, <3>2, <4>1, <4>2
      <4>3. CASE i # u.id
        BY <1>9, <2>6, <3>2, <4>1, <4>3 DEF MasterInv, Apart
      <4>4. QED
        BY <4>2, <4>3
    <3>3. CASE p = s
      <4>1. new_rows'[o] = new_rows[o]
        BY <1>8, <2>6, <3>3
      <4>2. CASE j = u.id
        BY <1>9, <2>5, <2>6, <3>3, <4>1, <4>2
      <4>3. CASE j # u.id
        BY <1>9, <2>6, <3>3, <4>1, <4>3 DEF MasterInv, Apart
      <4>4. QED
        BY <4>2, <4>3
    <3>4. QED
      BY <3>1, <3>2, <3>3
  <2>7. \A o \in Sessions : NoClashIn(RowsOf(o)')
    BY <2>3, <2>4 DEF MasterInv, Apart
  <2>8. NoClashIn(rows')
    BY <1>4 DEF MasterInv, Apart
  <2>9. QED
    BY <2>6, <2>7, <2>8 DEF Apart, NoClashIn
<1>14. OneContract'
  <2>1. ASSUME NEW o \in Sessions, NEW i \in DOMAIN new_rows'[o]
        PROVE  \/ i \in DOMAIN new_rows[o] /\ new_rows'[o][i] = new_rows[o][i]
               \/ i = u.id /\ new_rows'[o][i] = w
    BY <1>8, <1>9
  <2>2. Tells(u.id, u.contract)
    BY <1>1, <1>4 DEF Tells
  <2>3. \A i, k : Tells(i, k)' => Tells(i, k)
    <3> SUFFICES ASSUME NEW i, NEW k, Tells(i, k)' PROVE Tells(i, k)
      OBVIOUS
    <3>1. CASE i \in DOMAIN rows /\ rows[i].contract = k
      BY <3>1 DEF Tells
    <3>2. ASSUME NEW o \in Sessions, i \in DOMAIN new_rows'[o], new_rows'[o][i].contract = k
          PROVE  Tells(i, k)
      <4>1. CASE i \in DOMAIN new_rows[o] /\ new_rows'[o][i] = new_rows[o][i]
        BY <3>2, <4>1 DEF Tells
      <4>2. CASE i = u.id /\ new_rows'[o][i] = w
        BY <1>5, <2>2, <3>2, <4>2 DEF MadeOf
      <4>3. QED
        BY <2>1, <3>2, <4>1, <4>2
    <3>3. ASSUME NEW o \in Sessions, step'[o] # Idle, step'[o].id = i, step'[o].contract = k
          PROVE  Tells(i, k)
      BY <1>8, <3>3 DEF Tells
    <3>4. QED
      BY <1>4, <3>1, <3>2, <3>3 DEF Tells
  <2>4. QED
    BY <2>3, NoneNew DEF MasterInv
<1>15. Timelines'
  <2> SUFFICES ASSUME NEW i \in Ids, i \notin strayed'
               PROVE  Timeline(specs, i) /\ \A o \in Sessions : Timeline(SpecsOf(o)', i)
    BY <1>4 DEF Timelines
  <2>1. i \in Ids \ strayed
    BY <1>4
  <2>2. Timeline(specs, i)
    BY <2>1 DEF MasterInv, Timelines
  <2>3. ASSUME NEW o \in Sessions PROVE Timeline(SpecsOf(o)', i)
    <3>1. CASE o # s
      <4>1. SpecsOf(o)' = SpecsOf(o)
        BY <1>4, <1>8, <3>1 DEF SpecsOf
      <4>2. QED
        BY <2>1, <4>1 DEF MasterInv, Timelines
    <3>2. CASE o = s
      <4>1. SpecsOf(s)' = Over(put, specs)
        BY <1>4, <1>8 DEF SpecsOf
      <4>2. i # u.id \/ ~(u.lot > 0 /\ \E d \in Starts(u.id, SpecsOf(s)) : d > u.today)
        BY <1>4
      <4>3. QED
        BY <1>7, <2>1, <3>2, <4>1, <4>2
    <3>3. QED
      BY <3>1, <3>2
  <2>4. QED
    BY <2>2, <2>3
<1>16. Dated'
  <2>1. \A k \in DOMAIN put : k \in DOMAIN SpecsOf(s) \/ k = <<u.id, u.today>>
    BY <1>3, <1>5, RecordSpecDates DEF MadeOf
  <2>2. DOMAIN SpecsOf(s) = DOMAIN new_specs[s] \cup DOMAIN specs
    BY OverFacts DEF SpecsOf
  <2>3. u.today <= day
    BY <1>1, <1>4 DEF MasterInv, Dated
  <2>4. \A k \in DOMAIN put : k[2] <= day
    BY <2>1, <2>2, <2>3 DEF MasterInv, Dated
  <2>5. QED
    BY <1>4, <1>8, <2>4 DEF MasterInv, Dated
<1>17. FitsUnlessOvertaken'
  <2>1. \A o \in Sessions \ {s} : RowsOf(o)' = RowsOf(o) /\ SpecsOf(o)' = SpecsOf(o)
    BY <1>4, <1>8 DEF RowsOf, SpecsOf
  <2>2. \A o \in Sessions \ {s} : Fits(o, step[o]) => Fits(o, step[o])'
    BY <1>8, <2>1, SameSightFits
  <2>3. QED
    BY <1>4, <1>8, <2>2 DEF MasterInv, FitsUnlessOvertaken
<1>18. QED
  BY <1>10, <1>12, <1>13, <1>14, <1>15, <1>16, <1>17 DEF MasterInv

-----------------------------------------------------------------------------
LEMMA CommitKeeps ==
  ASSUME MasterInv, NEW s \in Sessions, Commit(s)
  PROVE  MasterInv'
<1>1. /\ rows' = RowsOf(s) /\ specs' = SpecsOf(s)
      /\ new_rows' = [new_rows EXCEPT ![s] = Nothing]
      /\ new_specs' = [new_specs EXCEPT ![s] = Nothing]
      /\ overtaken' = overtaken \cup
           {o \in Sessions \ {s} : step[o] # Idle
              /\ \E i \in DOMAIN new_rows[s] : new_rows[s][i].contract = step[o].contract}
      /\ step[s] = Idle
      /\ UNCHANGED <<day, upserts, step, strayed>>
  BY DEF Commit
<1>2. /\ new_rows'[s] = Nothing /\ new_specs'[s] = Nothing
      /\ \A o \in Sessions \ {s} :
           new_rows'[o] = new_rows[o] /\ new_specs'[o] = new_specs[o]
      /\ new_rows' = [o \in Sessions |-> new_rows'[o]]
      /\ new_specs' = [o \in Sessions |-> new_specs'[o]]
  BY <1>1 DEF MasterInv, MasterType
<1>3. /\ DOMAIN RowsOf(s) = DOMAIN new_rows[s] \cup DOMAIN rows
      /\ \A x \in DOMAIN new_rows[s] : RowsOf(s)[x] = new_rows[s][x]
      /\ \A x \in DOMAIN rows \ DOMAIN new_rows[s] : RowsOf(s)[x] = rows[x]
  BY OverFacts DEF RowsOf
<1>4. DOMAIN Nothing = {} /\ RowTable(Nothing) /\ SpecTable(Nothing)
  BY NothingIsEmpty
<1>5. MasterType'
  <2>1. RowTable(RowsOf(s)) /\ SpecTable(SpecsOf(s))
    BY InSightTyped DEF MasterInv
  <2>2. \A o \in Sessions : RowTable(new_rows'[o]) /\ SpecTable(new_specs'[o])
    BY <1>2, <1>4 DEF MasterInv, MasterType
  <2>3. QED
    BY <1>1, <1>2, <2>1, <2>2 DEF MasterInv, MasterType
<1>6. \A o \in Sessions \ {s} : DOMAIN new_rows[o] \cap DOMAIN new_rows[s] = {}
  BY DEF MasterInv, OneWriter
<1>7. OneWriter'
  BY <1>2, <1>4 DEF MasterInv, OneWriter
<1>8. /\ DOMAIN SpecsOf(s) = DOMAIN new_specs[s] \cup DOMAIN specs
      /\ \A o \in Sessions : DOMAIN new_specs'[o] \subseteq DOMAIN new_specs[o]
  BY <1>2, <1>4, OverFacts DEF SpecsOf
<1>9. OneContract'
  <2>1. \A o \in Sessions : \A i \in DOMAIN new_rows'[o] :
          i \in DOMAIN new_rows[o] /\ new_rows'[o][i] = new_rows[o][i]
    BY <1>2, <1>4
  <2>2. \A i, k : Tells(i, k)' => Tells(i, k)
    <3>1. \A i \in DOMAIN rows' : Tells(i, rows'[i].contract)
      BY <1>1, SightTells
    <3>2. QED
      BY <1>1, <2>1, <3>1 DEF Tells
  <2>3. QED
    BY <1>1, <2>2, NoneNew DEF MasterInv
<1>10. Timelines'
  <2> SUFFICES ASSUME NEW i \in Ids \ strayed
               PROVE  Timeline(SpecsOf(s), i) /\ \A o \in Sessions : Timeline(SpecsOf(o)', i)
    BY <1>1 DEF Timelines
  <2>1. \A o \in Sessions : Timeline(SpecsOf(o), i)
    BY DEF MasterInv, Timelines
  <2>2. ASSUME NEW o \in Sessions PROVE Timeline(SpecsOf(o)', i)
    <3>1. SpecsOf(o)' = Over(new_specs'[o], SpecsOf(s))
      BY <1>1 DEF SpecsOf
    <3>2. SpecTable(SpecsOf(o)') /\ SpecTable(SpecsOf(s)) /\ SpecTable(SpecsOf(o))
      <4>1. /\ SpecTable(new_specs'[o])
            /\ SpecTable(SpecsOf(s)) /\ SpecTable(SpecsOf(o))
        BY <1>5, InSightTyped DEF MasterInv, MasterType
      <4>2. SpecTable(Over(new_specs'[o], SpecsOf(s)))
        BY <4>1, OverTyped
      <4>3. QED
        BY <3>1, <4>1, <4>2
    <3>3. CASE o = s
      BY <1>2, <2>1, <3>1, <3>2, <3>3, OverNothing, SameTimeline
    <3>4. CASE o # s
      <4>1. /\ DOMAIN SpecsOf(s) = DOMAIN new_specs[s] \cup DOMAIN specs
            /\ \A x \in DOMAIN specs \ DOMAIN new_specs[s] : SpecsOf(s)[x] = specs[x]
            /\ DOMAIN SpecsOf(o) = DOMAIN new_specs[o] \cup DOMAIN specs
            /\ \A x \in DOMAIN new_specs[o] : SpecsOf(o)[x] = new_specs[o][x]
            /\ \A x \in DOMAIN specs \ DOMAIN new_specs[o] : SpecsOf(o)[x] = specs[x]
        BY OverFacts DEF SpecsOf
      <4>2. /\ DOMAIN SpecsOf(o)' = DOMAIN new_specs[o] \cup DOMAIN SpecsOf(s)
            /\ \A x \in DOMAIN new_specs[o] : SpecsOf(o)'[x] = new_specs[o][x]
            /\ \A x \in DOMAIN SpecsOf(s) \ DOMAIN new_specs[o] : SpecsOf(o)'[x] = SpecsOf(s)[x]
        BY <1>2, <3>1, <3>4 DEF Over
      <4>3. CASE i \in DOMAIN new_rows[o]
        <5>1. \A d : <<i, d>> \notin DOMAIN new_specs[s]
          BY <1>6, <3>4, <4>3 DEF MasterInv, OneWriter
        <5>2. SameOf(SpecsOf(o), SpecsOf(o)', i)
          BY <4>1, <4>2, <5>1 DEF SameOf
        <5>3. QED
          BY <2>1, <3>2, <5>2, SameTimeline
      <4>4. CASE i \notin DOMAIN new_rows[o]
        <5>1. \A d : <<i, d>> \notin DOMAIN new_specs[o]
          BY <4>4 DEF MasterInv, OneWriter
        <5>2. SameOf(SpecsOf(s), SpecsOf(o)', i)
          BY <4>2, <5>1 DEF SameOf
        <5>3. QED
          BY <2>1, <3>2, <5>2, SameTimeline
      <4>5. QED
        BY <4>3, <4>4
    <3>5. QED
      BY <3>3, <3>4
  <2>3. QED
    BY <2>1, <2>2
<1>11. Dated'
  BY <1>1, <1>8 DEF MasterInv, Dated
<1>12. ASSUME NEW o \in Sessions
       PROVE  /\ DOMAIN RowsOf(o)' = DOMAIN RowsOf(o) \cup DOMAIN new_rows[s]
              /\ o # s => \A x \in DOMAIN new_rows[s] : RowsOf(o)'[x] = new_rows[s][x]
              /\ o # s => \A x \in DOMAIN RowsOf(o) \ DOMAIN new_rows[s] :
                           RowsOf(o)'[x] = RowsOf(o)[x]
              /\ o # s => \A x \in DOMAIN RowsOf(o)' :
                           \/ x \in DOMAIN new_rows[o]
                           \/ x \in DOMAIN RowsOf(s) /\ RowsOf(o)'[x] = RowsOf(s)[x]
              /\ o = s => \A x \in DOMAIN RowsOf(s) : RowsOf(s)'[x] = RowsOf(s)[x]
  <2>1. RowsOf(o)' = Over(new_rows'[o], RowsOf(s))
    BY <1>1 DEF RowsOf
  <2>2. /\ DOMAIN RowsOf(o)' = DOMAIN new_rows'[o] \cup DOMAIN RowsOf(s)
        /\ \A x \in DOMAIN new_rows'[o] : RowsOf(o)'[x] = new_rows'[o][x]
        /\ \A x \in DOMAIN RowsOf(s) \ DOMAIN new_rows'[o] : RowsOf(o)'[x] = RowsOf(s)[x]
    BY <2>1 DEF Over
  <2>3. /\ DOMAIN RowsOf(o) = DOMAIN new_rows[o] \cup DOMAIN rows
        /\ \A x \in DOMAIN new_rows[o] : RowsOf(o)[x] = new_rows[o][x]
        /\ \A x \in DOMAIN rows \ DOMAIN new_rows[o] : RowsOf(o)[x] = rows[x]
    BY OverFacts DEF RowsOf
  <2>4. CASE o = s
    BY <1>2, <1>3, <1>4, <2>2, <2>3, <2>4
  <2>5. CASE o # s
    <3>1. new_rows'[o] = new_rows[o] /\ DOMAIN new_rows[o] \cap DOMAIN new_rows[s] = {}
      BY <1>2, <1>6, <2>5
    <3>2. QED
      BY <1>3, <2>2, <2>3, <2>5, <3>1
  <2>6. QED
    BY <2>4, <2>5
<1>13. Apart'
  <2>1. NoClashIn(rows')
    BY <1>1 DEF MasterInv, Apart
  <2>2. ASSUME NEW o \in Sessions PROVE NoClashIn(RowsOf(o)')
    <3>1. CASE o = s
      <4>1. DOMAIN RowsOf(s)' = DOMAIN RowsOf(s)
        BY <1>3, <1>12
      <4>2. \A x \in DOMAIN RowsOf(s) : RowsOf(s)'[x] = RowsOf(s)[x]
        BY <1>12
      <4>3. NoClashIn(RowsOf(s))
        BY DEF MasterInv, Apart
      <4>4. NoClashIn(RowsOf(s)')
        BY <4>1, <4>2, <4>3 DEF NoClashIn
      <4>5. QED
        BY <3>1, <4>4
    <3>2. CASE o # s
      <4> SUFFICES ASSUME NEW i \in DOMAIN RowsOf(o)', NEW j \in DOMAIN RowsOf(o)', i # j
                   PROVE  ~Clash(RowsOf(o)'[i], RowsOf(o)'[j])
        BY DEF NoClashIn
      <4>1. /\ \A x \in DOMAIN new_rows[o] : x \in DOMAIN RowsOf(o) /\ RowsOf(o)[x] = new_rows[o][x]
            /\ \A x \in DOMAIN new_rows[o] : x \notin DOMAIN new_rows[s]
        BY <1>6, <3>2 DEF RowsOf, Over
      <4>2. CASE i \notin DOMAIN new_rows[s] /\ j \notin DOMAIN new_rows[s]
        BY <1>12, <3>2, <4>2 DEF MasterInv, Apart, NoClashIn
      <4>3. CASE i \in DOMAIN new_rows[s] /\ j \notin DOMAIN new_rows[o]
        <5>1. i \notin DOMAIN new_rows[o] /\ j \notin DOMAIN new_rows[o]
          BY <4>1, <4>3
        <5>2. /\ RowsOf(o)'[i] = RowsOf(s)[i] /\ RowsOf(o)'[j] = RowsOf(s)[j]
              /\ i \in DOMAIN RowsOf(s) /\ j \in DOMAIN RowsOf(s)
          BY <1>12, <3>2, <5>1
        <5>3. QED
          BY <5>2 DEF MasterInv, Apart, NoClashIn
      <4>4. CASE j \in DOMAIN new_rows[s] /\ i \notin DOMAIN new_rows[o]
        <5>1. i \notin DOMAIN new_rows[o] /\ j \notin DOMAIN new_rows[o]
          BY <4>1, <4>4
        <5>2. /\ RowsOf(o)'[i] = RowsOf(s)[i] /\ RowsOf(o)'[j] = RowsOf(s)[j]
              /\ i \in DOMAIN RowsOf(s) /\ j \in DOMAIN RowsOf(s)
          BY <1>12, <3>2, <5>1
        <5>3. QED
          BY <5>2 DEF MasterInv, Apart, NoClashIn
      <4>5. CASE i \in DOMAIN new_rows[s] /\ j \in DOMAIN new_rows[o]
        <5>1. RowsOf(o)'[i] = new_rows[s][i] /\ RowsOf(o)'[j] = new_rows[o][j]
          BY <1>12, <3>2, <4>1, <4>5
        <5>2. QED
          BY <3>2, <4>5, <5>1 DEF MasterInv, Apart
      <4>6. CASE j \in DOMAIN new_rows[s] /\ i \in DOMAIN new_rows[o]
        <5>1. RowsOf(o)'[j] = new_rows[s][j] /\ RowsOf(o)'[i] = new_rows[o][i]
          BY <1>12, <3>2, <4>1, <4>6
        <5>2. QED
          BY <3>2, <4>6, <5>1 DEF MasterInv, Apart
      <4>7. QED
        BY <4>1, <4>2, <4>3, <4>4, <4>5, <4>6
    <3>3. QED
      BY <3>1, <3>2
  <2>3. ASSUME NEW o \in Sessions, NEW p \in Sessions, o # p,
               NEW i \in DOMAIN new_rows'[o], NEW j \in DOMAIN new_rows'[p]
        PROVE  ~Clash(new_rows'[o][i], new_rows'[p][j])
    <3>1. o # s /\ p # s
      BY <1>2, <1>4
    <3>2. QED
      BY <1>2, <2>3, <3>1 DEF MasterInv, Apart
  <2>4. QED
    BY <2>1, <2>2, <2>3 DEF Apart, NoClashIn
<1>14. FitsUnlessOvertaken'
  <2> SUFFICES ASSUME NEW o \in Sessions, step[o] # Idle, o \notin overtaken'
               PROVE  Fits(o, step[o])'
    BY <1>1 DEF FitsUnlessOvertaken
  <2> DEFINE u == step[o]
  <2>1. /\ o # s /\ o \notin overtaken
        /\ \A i \in DOMAIN new_rows[s] : new_rows[s][i].contract # u.contract
    BY <1>1
  <2>2. Fits(o, u) /\ MadeOf(u, WrittenRow(o, u)) /\ u \in Finds
    BY <2>1, RowWritten DEF MasterInv, FitsUnlessOvertaken, MadeOf
  <2>3. u.id \notin DOMAIN new_rows[s]
    <3>1. SUFFICES ASSUME u.id \in DOMAIN new_rows[s] PROVE FALSE
      OBVIOUS
    <3>2. Tells(u.id, u.contract) /\ Tells(u.id, new_rows[s][u.id].contract)
      BY <3>1 DEF Tells
    <3>3. new_rows[s][u.id].contract \in Contracts /\ u.contract \in Contracts /\ u.id \in Ids
      BY <2>2, <3>1 DEF MasterInv, MasterType, RowTable, MasterRows, Finds
    <3>4. QED
      BY <2>1, <3>1, <3>2, <3>3 DEF MasterInv, OneContract
  <2>4. /\ DOMAIN RowsOf(o)' = DOMAIN RowsOf(o) \cup DOMAIN new_rows[s]
        /\ \A x \in DOMAIN new_rows[s] : RowsOf(o)'[x] = new_rows[s][x]
        /\ \A x \in DOMAIN RowsOf(o) \ DOMAIN new_rows[s] : RowsOf(o)'[x] = RowsOf(o)[x]
    BY <1>12, <2>1
  <2>5. WrittenRow(o, step[o])' = WrittenRow(o, u)
    BY <1>1, <2>3, <2>4 DEF WrittenRow
  <2>6. ~RowRefused(o, step[o])'
    <3>1. SUFFICES ASSUME NEW i \in DOMAIN RowsOf(o)' \ {u.id},
                          Clash(RowsOf(o)'[i], WrittenRow(o, u))
                   PROVE  FALSE
      BY <1>1, <2>5 DEF RowRefused
    <3>2. i \notin DOMAIN new_rows[s]
      BY <2>1, <2>2, <2>4, <3>1 DEF Clash, MadeOf
    <3>3. i \in DOMAIN RowsOf(o) /\ RowsOf(o)'[i] = RowsOf(o)[i]
      BY <2>4, <3>2
    <3>4. QED
      BY <2>2, <3>1, <3>3 DEF Fits, RowRefused
  <2>7. \A d \in Starts(u.id, SpecsOf(o))' : d <= u.today
    <3>1. SpecsOf(o)' = Over(new_specs[o], SpecsOf(s))
      BY <1>1, <1>2, <2>1 DEF SpecsOf
    <3>2. /\ DOMAIN SpecsOf(o)' = DOMAIN new_specs[o] \cup DOMAIN SpecsOf(s)
          /\ DOMAIN SpecsOf(o) = DOMAIN new_specs[o] \cup DOMAIN specs
      BY <3>1, OverFacts DEF SpecsOf
    <3>3. \A k \in DOMAIN new_specs[s] : k[1] # u.id
      BY <2>3 DEF MasterInv, OneWriter
    <3>4. \A k \in DOMAIN SpecsOf(o)' : k[1] = u.id => k \in DOMAIN SpecsOf(o)
      BY <1>8, <3>2, <3>3
    <3>5. Starts(u.id, SpecsOf(o)') \subseteq Starts(u.id, SpecsOf(o))
      BY <3>4 DEF Starts
    <3>6. QED
      BY <1>1, <2>2, <3>5 DEF Fits
  <2>8. QED
    BY <1>1, <2>6, <2>7 DEF Fits
<1>15. QED
  BY <1>1, <1>5, <1>7, <1>9, <1>10, <1>11, <1>13, <1>14 DEF MasterInv

LEMMA RollbackKeeps ==
  ASSUME MasterInv, NEW s \in Sessions, Rollback(s)
  PROVE  MasterInv'
<1>1. /\ step' = [step EXCEPT ![s] = Idle]
      /\ new_rows' = [new_rows EXCEPT ![s] = Nothing]
      /\ new_specs' = [new_specs EXCEPT ![s] = Nothing]
      /\ overtaken' = overtaken \ {s}
      /\ UNCHANGED <<day, upserts, rows, specs, strayed>>
  BY DEF Rollback
<1>2. /\ step'[s] = Idle /\ new_rows'[s] = Nothing /\ new_specs'[s] = Nothing
      /\ \A o \in Sessions \ {s} :
           step'[o] = step[o] /\ new_rows'[o] = new_rows[o] /\ new_specs'[o] = new_specs[o]
      /\ step' = [o \in Sessions |-> step'[o]]
      /\ new_rows' = [o \in Sessions |-> new_rows'[o]]
      /\ new_specs' = [o \in Sessions |-> new_specs'[o]]
  BY <1>1 DEF MasterInv, MasterType
<1>3. DOMAIN Nothing = {} /\ RowTable(Nothing) /\ SpecTable(Nothing)
  BY NothingIsEmpty
<1>4. MasterType'
  <2>1. \A o \in Sessions : RowTable(new_rows'[o]) /\ SpecTable(new_specs'[o])
                              /\ step'[o] \in Finds \cup {Idle}
    BY <1>2, <1>3 DEF MasterInv, MasterType
  <2>2. QED
    BY <1>1, <1>2, <2>1 DEF MasterInv, MasterType
<1>5. \A o \in Sessions : \A i \in DOMAIN new_rows'[o] :
        o # s /\ i \in DOMAIN new_rows[o] /\ new_rows'[o] = new_rows[o]
  BY <1>2, <1>3
<1>6. OneWriter'
  BY <1>2, <1>3 DEF MasterInv, OneWriter
<1>7. RowsOf(s)' = Over(Nothing, rows)
      /\ \A o \in Sessions \ {s} : RowsOf(o)' = RowsOf(o) /\ SpecsOf(o)' = SpecsOf(o)
  BY <1>1, <1>2 DEF RowsOf, SpecsOf
<1>8. OneContract'
  <2>1. \A i, k : Tells(i, k)' => Tells(i, k)
    BY <1>1, <1>2, <1>5 DEF Tells
  <2>2. QED
    BY <2>1, NoneNew DEF MasterInv
<1>9. Timelines'
  <2> SUFFICES ASSUME NEW i \in Ids \ strayed
               PROVE  Timeline(specs, i) /\ \A o \in Sessions : Timeline(SpecsOf(o)', i)
    BY <1>1 DEF Timelines
  <2>1. Timeline(specs, i) /\ \A o \in Sessions : Timeline(SpecsOf(o), i)
    BY DEF MasterInv, Timelines
  <2>2. SpecsOf(s)' = Over(Nothing, specs)
    BY <1>1, <1>2 DEF SpecsOf
  <2>3. SpecTable(specs) /\ SpecTable(Over(Nothing, specs))
    <3>1. SpecTable(specs)
      BY DEF MasterInv, MasterType
    <3>2. /\ DOMAIN Over(Nothing, specs) = DOMAIN specs
          /\ \A x \in DOMAIN specs : Over(Nothing, specs)[x] = specs[x]
      BY <1>3 DEF Over
    <3>3. QED
      BY <3>1, <3>2 DEF SpecTable
  <2>4. Timeline(SpecsOf(s)', i)
    BY <2>1, <2>2, <2>3, OverNothing, SameTimeline
  <2>5. \A o \in Sessions \ {s} : SpecsOf(o)' = SpecsOf(o)
    BY <1>1, <1>2 DEF SpecsOf
  <2>6. QED
    BY <2>1, <2>4, <2>5
<1>10. Dated'
  BY <1>1, <1>2, <1>3 DEF MasterInv, Dated
<1>11. Apart'
  <2>1. NoClashIn(RowsOf(s)')
    <3>1. DOMAIN RowsOf(s)' = DOMAIN rows /\ \A x \in DOMAIN rows : RowsOf(s)'[x] = rows[x]
      BY <1>3, <1>7 DEF Over
    <3>2. QED
      BY <3>1 DEF MasterInv, Apart, NoClashIn
  <2>2. \A o \in Sessions \ {s} : NoClashIn(RowsOf(o)')
    BY <1>7 DEF MasterInv, Apart
  <2>3. NoClashIn(rows')
    BY <1>1 DEF MasterInv, Apart
  <2>4. ASSUME NEW o \in Sessions, NEW p \in Sessions, o # p,
               NEW i \in DOMAIN new_rows'[o], NEW j \in DOMAIN new_rows'[p]
        PROVE  ~Clash(new_rows'[o][i], new_rows'[p][j])
    BY <1>5, <2>4 DEF MasterInv, Apart
  <2>5. QED
    BY <2>1, <2>2, <2>3, <2>4 DEF Apart, NoClashIn
<1>12. FitsUnlessOvertaken'
  <2>1. \A o \in Sessions \ {s} : Fits(o, step[o]) => Fits(o, step[o])'
    BY <1>2, <1>7, SameSightFits
  <2>2. QED
    BY <1>1, <1>2, <2>1 DEF MasterInv, FitsUnlessOvertaken
<1>13. QED
  BY <1>1, <1>4, <1>6, <1>8, <1>9, <1>10, <1>11, <1>12 DEF MasterInv

LEMMA StepMaster == MasterInv /\ [MasterNext]_master_vars => MasterInv'
<1> SUFFICES ASSUME MasterInv, [MasterNext]_master_vars PROVE MasterInv'
  OBVIOUS
<1>1. CASE Midnight
  <2>1. day' \in 0..MaxDay /\ day <= day' /\ upserts' \in 0..MaxUpserts
    BY <1>1, MasterAssumption DEF Midnight, MasterInv, MasterType
  <2>2. QED
    BY <1>1, <2>1, SameTablesKeep DEF Midnight
<1>2. ASSUME NEW s \in Sessions, NEW contract \in Contracts, NEW lot \in Lots \cup {0},
             Look(s, contract, lot)
      PROVE  MasterInv'
  BY <1>2, LookKeeps
<1>3. ASSUME NEW s \in Sessions, Write(s) PROVE MasterInv'
  BY <1>3, WriteKeeps
<1>4. ASSUME NEW s \in Sessions, Commit(s) PROVE MasterInv'
  BY <1>4, CommitKeeps
<1>5. ASSUME NEW s \in Sessions, Rollback(s) PROVE MasterInv'
  BY <1>5, RollbackKeeps
<1>6. CASE UNCHANGED master_vars
  <2>1. day' \in 0..MaxDay /\ day <= day' /\ upserts' \in 0..MaxUpserts
    BY <1>6, MasterAssumption DEF master_vars, MasterInv, MasterType
  <2>2. QED
    BY <1>6, <2>1, SameTablesKeep DEF master_vars
<1>7. QED
  BY <1>1, <1>2, <1>3, <1>4, <1>5, <1>6 DEF MasterNext

LEMMA MasterInvAlways == MasterSpec => []MasterInv
  BY InitMaster, StepMaster, PTL DEF MasterSpec

(* Whatever sessions write side by side, whichever rolls back, a contract  *)
(* has one lot in force on every day since its first, but for a row whose  *)
(* writer waited past a midnight.                                          *)
THEOREM OneLotInForce == MasterSpec => []OneSpecInForce
  BY MasterInvAlways, MasterInvShows, PTL

(* However syncs and pollers interleave, commit and roll back, no unique   *)
(* constraint refuses an upsert that nobody overtook, but on a row that    *)
(* strayed.                                                                *)
THEOREM OnlyOvertakenAreRefused == MasterSpec => []RefusedOnlyWhenOvertaken
  BY MasterInvAlways, MasterInvShows, PTL
=============================================================================
