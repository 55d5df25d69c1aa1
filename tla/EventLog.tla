------------------------------ MODULE EventLog ------------------------------
(***************************************************************************)
(* The hash-chained events of the trades (engine/event_log.py; the table   *)
(* of store/models.py with its unique (trade_id, seq)).  A writer reads    *)
(* the tip of a trade's chain and inserts the next row later; the second   *)
(* of two that read one tip fails on the constraint.                       *)
(*                                                                         *)
(* Rows may also be changed behind the log's back, by a repair by hand or  *)
(* a restored backup: changed and deleted, moved, copied and made up.      *)
(* Nobody who does so computes hashes: each row has one some row had.      *)
(*                                                                         *)
(* A hash is what it was computed from.  So are its collisions left out.   *)
(***************************************************************************)
EXTENDS Naturals, FiniteSets, FiniteSetsExt

CONSTANTS
  TradeIds, Writers, Events,
  MaxSeq,             \* bound: events of a trade
  MaxTampering        \* bound: rows changed behind the log's back

ASSUME LogAssumption == MaxSeq \in Nat /\ MaxTampering \in Nat

VARIABLES
  table,              \* trade_events
  tip,                \* each writer: the row it is about to insert, if any
  appended,           \* every row a writer inserted, for the property
  tampered,           \* rows changed behind the log's back
  mixed               \* a writer inserted after rows had been changed

log_vars == <<table, tip, appended, tampered, mixed>>

Genesis == <<>>
ComputeHash(trade, seq, event, prev) == <<prev, trade, seq, event>>

NoRowToInsert == [trade |-> "none"]

LogInit ==
  /\ table = {} /\ tip = [w \in Writers |-> NoRowToInsert]
  /\ appended = {} /\ tampered = 0 /\ mixed = FALSE

OfTrade(trade, rows) == {r \in rows : r.trade = trade}

(* order_by(seq.desc()).limit(1)                                           *)
LastOf(rows) == CHOOSE r \in rows : \A q \in rows : q.seq <= r.seq

-----------------------------------------------------------------------------
(* append_event up to the insert.  A faulty variant chains every event to  *)
(* the first one.                                                          *)
NextRowUnchained(trade, event) ==
  LET rows == OfTrade(trade, table)
      seq  == IF rows = {} THEN 1 ELSE LastOf(rows).seq + 1
  IN  [trade |-> trade, seq |-> seq, event |-> event, prev |-> Genesis,
       hash |-> ComputeHash(trade, seq, event, Genesis)]

NextRow(trade, event) ==
  LET rows == OfTrade(trade, table)
      seq  == IF rows = {} THEN 1 ELSE LastOf(rows).seq + 1
      prev == IF rows = {} THEN Genesis ELSE LastOf(rows).hash
  IN  [trade |-> trade, seq |-> seq, event |-> event, prev |-> prev,
       hash |-> ComputeHash(trade, seq, event, prev)]

ReadTip(w, trade, event) ==
  /\ tip[w] = NoRowToInsert
  /\ tip' = [tip EXCEPT ![w] = NextRow(trade, event)]
  /\ UNCHANGED <<table, appended, tampered, mixed>>

SameKey(r, q) == r.trade = q.trade /\ r.seq = q.seq

Insert(w) ==
  /\ tip[w] # NoRowToInsert /\ tip[w].seq <= MaxSeq
  /\ ~\E r \in table : SameKey(r, tip[w])
  /\ table' = table \cup {tip[w]} /\ appended' = appended \cup {tip[w]}
  /\ tip' = [tip EXCEPT ![w] = NoRowToInsert]
  /\ mixed' = (tampered > 0) /\ UNCHANGED tampered

(* The constraint refuses the row, or the process dies.                    *)
Drop(w) ==
  /\ tip[w] # NoRowToInsert
  /\ tip' = [tip EXCEPT ![w] = NoRowToInsert] /\ UNCHANGED <<table, appended, tampered, mixed>>

-----------------------------------------------------------------------------
Hashes == {r.hash : r \in table} \cup {Genesis}

Invented ==
  [trade : TradeIds, seq : 1..MaxSeq, event : Events, prev : Hashes, hash : Hashes]

Delete(r) ==
  /\ tampered < MaxTampering /\ tampered' = tampered + 1
  /\ table' = table \ {r} /\ UNCHANGED <<tip, appended, mixed>>

Forge(r) ==
  /\ tampered < MaxTampering /\ tampered' = tampered + 1
  /\ table' = {q \in table : ~SameKey(q, r)} \cup {r} /\ UNCHANGED <<tip, appended, mixed>>

LogNext ==
  \/ \E w \in Writers :
       \/ \E trade \in TradeIds, event \in Events : ReadTip(w, trade, event)
       \/ Insert(w)
       \/ Drop(w)
  \/ \E r \in table : Delete(r)
  \/ \E r \in Invented : Forge(r)

LogSpec == LogInit /\ [][LogNext]_log_vars

-----------------------------------------------------------------------------
(* verify_chain, verify_events: each row in the order of seq.              *)
PrevExpected(r, rows) ==
  LET before == {q \in rows : q.seq < r.seq}
  IN  IF before = {} THEN Genesis ELSE LastOf(before).hash

HashHolds(r) == r.hash = ComputeHash(r.trade, r.seq, r.event, r.prev)

VerifyChain(trade) ==
  LET rows == OfTrade(trade, table)
  IN  \A r \in rows : r.prev = PrevExpected(r, rows) /\ HashHolds(r)

(* A chain nobody touched verifies, whatever the writers did to each       *)
(* other.  One that verifies consists of rows as they were appended, and,  *)
(* while nobody has appended to what was tampered with, misses none but at *)
(* its end: a chain cut off there verifies.                                *)
TamperShows ==
  \A trade \in TradeIds :
    LET rows == OfTrade(trade, table)
    IN  /\ tampered = 0 => VerifyChain(trade)
        /\ VerifyChain(trade) =>
             /\ rows \subseteq appended
             /\ mixed \/ \A r \in rows :
                         r.seq = 1 \/ \E q \in rows : q.seq = r.seq - 1
=============================================================================
