--------------------------- MODULE BreakerControl ---------------------------
(***************************************************************************)
(* The breaker columns of one segment's risk_state row, and the two kinds  *)
(* of process that write them without a lock: the engine, at the end of    *)
(* every cycle (update_equity_and_risk_state, risk/accounting.py), and the *)
(* API, whenever an operator asks (segment_breaker, api/routers/control.py)*)
(*                                                                         *)
(* Each works on an ORM object: it SELECTs the row, assigns attributes,    *)
(* and at the commit an UPDATE goes out for the attributes that differ     *)
(* from what that session loaded, or an INSERT when there was no row.  The *)
(* engine reads breaker_reason a second time, and nothing else, before it  *)
(* decides.  Grain: one action per statement.                              *)
(***************************************************************************)
EXTENDS Naturals

CONSTANTS
  Operators,          \* concurrent API requests
  AutoReasons         \* the limit breaches that trip the breaker by themselves

(* "MANUAL_" is the prefix of no automatic reason.                         *)
ASSUME ReasonsAssumption == {"none", "MANUAL_HALT"} \cap AutoReasons = {}

VARIABLES
  row,                \* the row, or NoRow
  breach,             \* what the figures (trades, marks, date) call for now
  pc, held,           \* the engine: its step, and the object it works on
  assessed,           \* what it found the figures to call for
  step, copy,         \* each request: its step, and the object it works on
  order,              \* the operators' standing order: the last request that
                      \*   raced with nobody, none after one that did
  touched             \* a request committed since the engine's second read

vars == <<row, breach, pc, held, assessed, step, copy, order, touched>>
engine == <<pc, held, assessed>>
api == <<step, copy>>

-----------------------------------------------------------------------------
None   == "none"
Manual == "MANUAL_HALT"

Breaker(status, reason) == [status |-> status, reason |-> reason]

NoRow == Breaker("absent", None)
Rows  == [status : {"ARMED", "TRIPPED"}, reason : AutoReasons \cup {None, Manual}]

(* What the flush of a session leaves in the database: the columns it has  *)
(* changed, over whatever is there now.                                    *)
Flush(loaded, wanted) ==
  Breaker(IF wanted.status # loaded.status THEN wanted.status ELSE row.status,
          IF wanted.reason # loaded.reason THEN wanted.reason ELSE row.reason)

(* An INSERT where another session has inserted meanwhile raises.          *)
Saves(loaded) == loaded = NoRow => row = NoRow
Saved(loaded, wanted) == IF loaded = NoRow THEN wanted ELSE Flush(loaded, wanted)

Init ==
  /\ row = NoRow /\ breach \in AutoReasons \cup {None}
  /\ pc = "idle" /\ held = NoRow /\ assessed = None
  /\ step = [o \in Operators |-> "idle"] /\ copy = [o \in Operators |-> NoRow]
  /\ order = None /\ touched = FALSE

-----------------------------------------------------------------------------
(* A loss is booked, or a day or a week begins.                            *)
FiguresChange ==
  /\ breach' \in (AutoReasons \cup {None}) \ {breach}
  /\ UNCHANGED <<row, engine, api, order, touched>>

EngineLoad ==
  /\ pc = "idle"
  /\ pc' = "loaded" /\ held' = row /\ assessed' = breach
  /\ UNCHANGED <<row, breach, api, order, touched>>

(* session.refresh(..., attribute_names=["breaker_reason"]); a faulty      *)
(* variant trusts the object it has.                                       *)
TrustCopy ==
  /\ pc = "loaded"
  /\ pc' = "refreshed" /\ touched' = FALSE
  /\ UNCHANGED <<row, breach, held, assessed, api, order>>

EngineRefresh ==
  /\ pc = "loaded"
  /\ held' = IF held = NoRow THEN NoRow ELSE [held EXCEPT !.reason = row.reason]
  /\ pc' = "refreshed" /\ touched' = FALSE
  /\ UNCHANGED <<row, breach, assessed, api, order>>

(* A manual trip is kept; otherwise the figures decide, afresh each cycle. *)
(* A faulty variant leaves a manually halted row as it found it.           *)
KeepsReasonOnly ==
  IF held.reason = Manual THEN held
  ELSE Breaker(IF assessed = None THEN "ARMED" ELSE "TRIPPED", assessed)

Wanted ==
  IF held.reason = Manual THEN Breaker("TRIPPED", Manual)
  ELSE Breaker(IF assessed = None THEN "ARMED" ELSE "TRIPPED", assessed)

EngineUpdate ==
  /\ pc = "refreshed"
  /\ row' = IF Saves(held) THEN Saved(held, Wanted) ELSE row
  /\ pc' = "idle" /\ held' = NoRow /\ assessed' = None /\ touched' = FALSE
  /\ UNCHANGED <<breach, api, order>>

(* The update is lost with its session or its process.                     *)
EngineLost ==
  /\ pc # "idle"
  /\ pc' = "idle" /\ held' = NoRow /\ assessed' = None /\ touched' = FALSE
  /\ UNCHANGED <<row, breach, api, order>>

-----------------------------------------------------------------------------
Request(o, action) ==
  /\ step[o] = "idle"
  /\ step' = [step EXCEPT ![o] = action] /\ copy' = [copy EXCEPT ![o] = row]
  /\ UNCHANGED <<row, breach, engine, order, touched>>

(* What a request asks for.  Two faulty variants: one leaves the reason to *)
(* the engine, one writes a reason of its own.                             *)
ArmsOnly(o) ==
  IF step[o] = "trip" THEN Breaker("TRIPPED", Manual)
  ELSE Breaker("ARMED", copy[o].reason)

NotesRearm(o) ==
  IF step[o] = "trip" THEN Breaker("TRIPPED", Manual) ELSE Breaker("ARMED", "MANUAL_REARM")

Asked(o) ==
  IF step[o] = "trip" THEN Breaker("TRIPPED", Manual) ELSE Breaker("ARMED", None)

(* The request's commit.  It raced with nobody when the row is still what  *)
(* it loaded and the engine is not between its second read and its UPDATE. *)
Commit(o) ==
  /\ step[o] # "idle"
  /\ row' = IF Saves(copy[o]) THEN Saved(copy[o], Asked(o)) ELSE row
  /\ order' = IF row = copy[o] /\ pc # "refreshed" THEN step[o] ELSE None
  /\ touched' = (pc = "refreshed")
  /\ step' = [step EXCEPT ![o] = "idle"] /\ copy' = [copy EXCEPT ![o] = NoRow]
  /\ UNCHANGED <<breach, engine>>

Next ==
  \/ FiguresChange
  \/ EngineLoad \/ EngineRefresh \/ EngineUpdate \/ EngineLost
  \/ \E o \in Operators :
       Request(o, "trip") \/ Request(o, "rearm") \/ Commit(o)

(* The engine goes on with its cycles, and does not lose every update.     *)
Fairness == WF_vars(EngineLoad) /\ SF_vars(EngineRefresh) /\ SF_vars(EngineUpdate)

Spec == Init /\ [][Next]_vars /\ Fairness

-----------------------------------------------------------------------------
(* The columns hold a status and a reason the code writes; an object is    *)
(* held only while a request or an update is under way.                    *)
TypeOK ==
  /\ row \in Rows \cup {NoRow} /\ breach \in AutoReasons \cup {None}
  /\ pc \in {"idle", "loaded", "refreshed"}
  /\ held \in Rows \cup {NoRow} /\ assessed \in AutoReasons \cup {None}
  /\ step \in [Operators -> {"idle", "trip", "rearm"}]
  /\ copy \in [Operators -> Rows \cup {NoRow}]
  /\ order \in {None, "trip", "rearm"} /\ touched \in BOOLEAN
  /\ pc = "idle" => held = NoRow
  /\ \A o \in Operators : step[o] = "idle" => copy[o] = NoRow

(* A manual trip that did not fall between the engine's second read and    *)
(* its UPDATE stays: no cycle, whatever the figures do and whatever its    *)
(* object was loaded from, arms the breaker or renames the reason before   *)
(* an operator re-arms it.                                                 *)
ManualTripHolds == order = "trip" => row = Breaker("TRIPPED", Manual)

(* A re-arm that did not fall there releases: the manual halt does not     *)
(* come back by itself from an object the engine had loaded before.        *)
RearmReleases == order = "rearm" => row.reason # Manual

(* Whatever requests and updates did to each other, once no request is     *)
(* under way any more the two columns agree again, and stay so.            *)
Quiet == \A o \in Operators : step[o] = "idle"
Coherent == row.status = "TRIPPED" <=> row.reason # None

Heals == <>[]Quiet => <>[]Coherent

(* What the comment above the second read says it achieves: only a request *)
(* between it and the UPDATE can spoil the update.                         *)
RaceIsNarrow ==
  [][pc = "refreshed" /\ pc' = "idle" /\ row' # row /\ ~touched /\ Saves(held)
       => row' = Wanted]_vars
=============================================================================
