----------------------- MODULE BreakerControl_proofs -----------------------
(***************************************************************************)
(* What the breaker columns keep through any number of concurrent requests *)
(* and automatic reasons.                                                  *)
(***************************************************************************)
EXTENDS BreakerControl, TLAPS

-----------------------------------------------------------------------------
(* No object outlives the absence of the row it was loaded from: a row is  *)
(* never deleted.                                                          *)
LoadedFromRow ==
  row = NoRow => held = NoRow /\ \A o \in Operators : copy[o] = NoRow

(* Why a standing trip survives an update under way: the engine either has *)
(* yet to read the reason, or has read the manual one, or works on no row, *)
(* and then its INSERT raises.                                             *)
TripProtected ==
  order = "trip" =>
    /\ row = Breaker("TRIPPED", Manual)
    /\ pc = "refreshed" => held = NoRow \/ held.reason = Manual

(* Why a standing re-arm survives: no engine past its second read holds    *)
(* the manual reason any more.                                             *)
RearmProtected ==
  order = "rearm" =>
    /\ row.reason # Manual
    /\ pc = "refreshed" => held.reason # Manual

IInv == TypeOK /\ LoadedFromRow /\ TripProtected /\ RearmProtected

-----------------------------------------------------------------------------
(* The first state has no row and no standing order.                       *)
LEMMA InitIInv == Init => IInv
  BY DEF Init, IInv, TypeOK, LoadedFromRow, TripProtected, RearmProtected,
         NoRow, Rows, Breaker, None

(* A flush over an existing row leaves columns of the right types.         *)
LEMMA SavedType ==
  ASSUME TypeOK, LoadedFromRow,
         NEW loaded \in Rows \cup {NoRow}, NEW wanted \in Rows,
         row = NoRow => loaded = NoRow
  PROVE  Saved(loaded, wanted) \in Rows
  BY DEF TypeOK, LoadedFromRow, Saved, Flush, Rows, NoRow, Breaker, None

(* What the engine wants, and what a request asks for, are rows.           *)
LEMMA WantedType == TypeOK => Wanted \in Rows
  BY DEF TypeOK, Wanted, Rows, Breaker, None, Manual, NoRow

LEMMA AskedType == ASSUME NEW o \in Operators PROVE Asked(o) \in Rows
  BY DEF Asked, Rows, Breaker, None, Manual

-----------------------------------------------------------------------------
(* Types, and LoadedFromRow, are kept by every step.                       *)
LEMMA StepTypeOK == IInv /\ [Next]_vars => TypeOK' /\ LoadedFromRow'
<1> SUFFICES ASSUME IInv, [Next]_vars PROVE TypeOK' /\ LoadedFromRow'
  OBVIOUS
<1> USE DEF IInv
<1>1. CASE FiguresChange
  BY <1>1 DEF FiguresChange, TypeOK, LoadedFromRow, engine, api
<1>2. CASE EngineLoad
  BY <1>2 DEF EngineLoad, TypeOK, LoadedFromRow, api
<1>3. CASE EngineRefresh
  BY <1>3 DEF EngineRefresh, TypeOK, LoadedFromRow, api, Rows, NoRow, Breaker, None
<1>4. CASE EngineUpdate
  <2>1. row' \in Rows \cup {NoRow} /\ (row' = NoRow => row = NoRow)
    BY <1>4, SavedType, WantedType
    DEF EngineUpdate, TypeOK, LoadedFromRow, Saves, Rows, NoRow, Breaker
  <2>2. QED
    BY <1>4, <2>1 DEF EngineUpdate, TypeOK, LoadedFromRow, api, None
<1>5. CASE EngineLost
  BY <1>5 DEF EngineLost, TypeOK, LoadedFromRow, api, None
<1>6. ASSUME NEW o \in Operators, Request(o, "trip") \/ Request(o, "rearm")
      PROVE  TypeOK' /\ LoadedFromRow'
  BY <1>6 DEF Request, TypeOK, LoadedFromRow, engine
<1>7. ASSUME NEW o \in Operators, Commit(o)
      PROVE  TypeOK' /\ LoadedFromRow'
  <2>1. row' \in Rows \cup {NoRow} /\ (row' = NoRow => row = NoRow)
    BY <1>7, SavedType, AskedType
    DEF Commit, TypeOK, LoadedFromRow, Saves, Rows, NoRow, Breaker
  <2>2. QED
    BY <1>7, <2>1 DEF Commit, TypeOK, LoadedFromRow, engine
<1>8. CASE UNCHANGED vars
  BY <1>8 DEF vars, engine, api, TypeOK, LoadedFromRow
<1>9. QED
  BY <1>1, <1>2, <1>3, <1>4, <1>5, <1>6, <1>7, <1>8 DEF Next

(* The engine's UPDATE leaves a protected order as it is.                  *)
LEMMA UpdateKeepsOrders ==
  IInv /\ EngineUpdate => TripProtected' /\ RearmProtected'
<1> SUFFICES ASSUME IInv, EngineUpdate PROVE TripProtected' /\ RearmProtected'
  OBVIOUS
<1>1. ASSUME order = "trip" PROVE row' = Breaker("TRIPPED", Manual)
  <2>1. CASE held = NoRow
    BY <1>1, <2>1 DEF IInv, TripProtected, EngineUpdate, Saves, NoRow, Breaker
  <2>2. CASE held # NoRow /\ held.reason = Manual
    BY <1>1, <2>2
    DEF IInv, TripProtected, EngineUpdate, Saves, Saved, Flush, Wanted, Breaker
  <2>3. QED
    BY <1>1, <2>1, <2>2 DEF IInv, TripProtected, EngineUpdate
<1>2. ASSUME order = "rearm" PROVE row'.reason # Manual
  <2>1. held.reason # Manual /\ Wanted.reason = assessed /\ assessed # Manual
    BY <1>2, ReasonsAssumption
    DEF IInv, RearmProtected, EngineUpdate, Wanted, Breaker, TypeOK, None, Manual
  <2>2. row' = row \/ row' = Wanted \/ row'.reason \in {Wanted.reason, row.reason}
    BY DEF EngineUpdate, Saved, Flush, Breaker
  <2>3. QED
    BY <1>2, <2>1, <2>2 DEF IInv, RearmProtected
<1>3. QED
  BY <1>1, <1>2 DEF EngineUpdate, TripProtected, RearmProtected

(* A commit that becomes the standing order leaves the row it asked for.   *)
LEMMA CommitMakesOrders ==
  ASSUME IInv, NEW o \in Operators, Commit(o)
  PROVE  TripProtected' /\ RearmProtected'
<1>1. ASSUME order' # None PROVE row = copy[o] /\ pc # "refreshed" /\ pc' = pc
  BY <1>1 DEF Commit, engine
<1>2. ASSUME order' # None PROVE row' = Asked(o) /\ order' = step[o]
  <2>1. CASE copy[o] = NoRow
    BY <1>1, <1>2, <2>1 DEF Commit, Saves, Saved
  <2>2. CASE copy[o] # NoRow
    <3>1. row' = Flush(row, Asked(o)) /\ row \in Rows
      BY <1>1, <1>2, <2>2 DEF Commit, Saves, Saved, IInv, TypeOK
    <3>2. QED
      BY <1>2, <3>1, AskedType DEF Commit, Flush, Breaker, Rows
  <2>3. QED
    BY <2>1, <2>2
<1>3. QED
  BY <1>1, <1>2 DEF TripProtected, RearmProtected, Asked, Breaker, None, Manual

(* Protected orders stay protected in every step.                          *)
LEMMA StepOrders == IInv /\ [Next]_vars => TripProtected' /\ RearmProtected'
<1> SUFFICES ASSUME IInv, [Next]_vars PROVE TripProtected' /\ RearmProtected'
  OBVIOUS
<1> USE DEF IInv, TripProtected, RearmProtected
<1>1. CASE FiguresChange
  BY <1>1 DEF FiguresChange, engine
<1>2. CASE EngineLoad
  BY <1>2 DEF EngineLoad
<1>3. CASE EngineRefresh
  BY <1>3 DEF EngineRefresh, TypeOK, Rows, NoRow, Breaker, None, Manual
<1>4. CASE EngineUpdate
  BY <1>4, UpdateKeepsOrders
<1>5. CASE EngineLost
  BY <1>5 DEF EngineLost
<1>6. ASSUME NEW o \in Operators, Request(o, "trip") \/ Request(o, "rearm")
      PROVE  TripProtected' /\ RearmProtected'
  BY <1>6 DEF Request, engine
<1>7. ASSUME NEW o \in Operators, Commit(o)
      PROVE  TripProtected' /\ RearmProtected'
  BY <1>7, CommitMakesOrders
<1>8. CASE UNCHANGED vars
  BY <1>8 DEF vars, engine
<1>9. QED
  BY <1>1, <1>2, <1>3, <1>4, <1>5, <1>6, <1>7, <1>8 DEF Next

(* The strengthened invariant holds for any operators and reasons.         *)
LEMMA Inductive == Spec => []IInv
<1>1. IInv /\ [Next]_vars => IInv'
  BY StepTypeOK, StepOrders DEF IInv
<1>2. QED
  BY InitIInv, <1>1, PTL DEF Spec

(* The columns keep their types.                                           *)
THEOREM TypeCorrect == Spec => []TypeOK
<1>1. IInv => TypeOK
  BY DEF IInv
<1>2. QED
  BY <1>1, Inductive, PTL

(* A manual trip that did not fall between the engine's second read and    *)
(* its UPDATE stands until an operator re-arms the breaker, for any number *)
(* of requests at a time and any set of automatic reasons.                 *)
THEOREM TripStands == Spec => []ManualTripHolds
<1>1. IInv => ManualTripHolds
  BY DEF IInv, TripProtected, ManualTripHolds
<1>2. QED
  BY <1>1, Inductive, PTL

(* A re-arm that did not fall there lets go of the manual halt for good.   *)
THEOREM RearmStands == Spec => []RearmReleases
<1>1. IInv => RearmReleases
  BY DEF IInv, RearmProtected, RearmReleases
<1>2. QED
  BY <1>1, Inductive, PTL
=============================================================================
