----------------------------- MODULE Promotion -----------------------------
(***************************************************************************)
(* A strategy's status and the ledger that explains it                     *)
(* (promote_strategy, api/routers/strategies.py; the transition graph of   *)
(* core/enums.py).  A request reads the status and checks the transition;  *)
(* one commit writes the new status and the ledger row.  The UPDATE takes  *)
(* the strategy's row lock before the INSERT draws its number, so that the *)
(* numbers follow the commits.  Nothing makes the UPDATE depend on the     *)
(* status that was read.  The audit log repeats the ledger.                *)
(***************************************************************************)
EXTENDS Naturals, Sequences

CONSTANTS
  Requests,           \* concurrent calls of the endpoint
  MaxPromotions       \* bound: ledger rows

VARIABLES
  status,             \* strategies.status
  ledger,             \* strategy_promotions, by number
  request             \* each request: nothing, or what it read and wants

promotion_vars == <<status, ledger, request>>

Transitions ==
  [draft       |-> {"backtested"},  backtested |-> {"validated"},
   validated   |-> {"shadow"},      shadow     |-> {"paper_small", "retired"},
   paper_small |-> {"paper_full", "retired"},
   paper_full  |-> {"retired"},     retired    |-> {}]

Statuses == DOMAIN Transitions

NoRequest == [to |-> "none"]

PromotionInit ==
  /\ status = "draft" /\ ledger = <<>> /\ request = [r \in Requests |-> NoRequest]

(* session.get, and 409 unless the transition is legal.  A faulty variant  *)
(* forgets the check.                                                      *)
ReadStatusUnchecked(r, to) ==
  /\ request[r] = NoRequest
  /\ request' = [request EXCEPT ![r] = [to |-> to, from |-> status, seen |-> Len(ledger)]]
  /\ UNCHANGED <<status, ledger>>

ReadStatus(r, to) ==
  /\ request[r] = NoRequest /\ to \in Transitions[status]
  /\ request' = [request EXCEPT ![r] = [to |-> to, from |-> status, seen |-> Len(ledger)]]
  /\ UNCHANGED <<status, ledger>>

Promote(r) ==
  /\ request[r] # NoRequest /\ Len(ledger) < MaxPromotions
  /\ status' = request[r].to
  /\ ledger' = Append(ledger, request[r])
  /\ request' = [request EXCEPT ![r] = NoRequest]

(* The transaction fails, or the process dies.                             *)
GiveUp(r) ==
  /\ request[r] # NoRequest
  /\ request' = [request EXCEPT ![r] = NoRequest] /\ UNCHANGED <<status, ledger>>

PromotionNext ==
  \E r \in Requests :
    \/ \E to \in Statuses : ReadStatus(r, to)
    \/ Promote(r)
    \/ GiveUp(r)

PromotionSpec == PromotionInit /\ [][PromotionNext]_promotion_vars

-----------------------------------------------------------------------------
Before(k) == IF k = 1 THEN "draft" ELSE ledger[k - 1].to

(* The ledger accounts for the status: its last row leads there, each row  *)
(* is a legal transition, and each starts where the one before it led,     *)
(* unless its request had read the status before that one committed.       *)
LedgerExplainsStatus ==
  /\ status = Before(Len(ledger) + 1)
  /\ \A k \in 1..Len(ledger) :
       /\ ledger[k].to \in Transitions[ledger[k].from]
       /\ ledger[k].seen < k
       /\ ledger[k].from = Before(ledger[k].seen + 1)
=============================================================================
