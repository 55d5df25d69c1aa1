----------------------------- MODULE Watchlist -----------------------------
(***************************************************************************)
(* The membership rows of one segment's watchlist (sync_watchlist,         *)
(* data/sync.py) and the read every consumer of the watchlist makes        *)
(* (watchlist_instruments, data/recorder.py).  A sync takes the date once, *)
(* looks at its instruments one by one, and commits them together; the     *)
(* row's key is the instrument and the date it starts on.  Nothing ever    *)
(* ends a membership.                                                      *)
(***************************************************************************)
EXTENDS Naturals, FiniteSets

CONSTANTS
  Listed,             \* instruments on the list
  Syncs,              \* runs of the command that may overlap
  LastDate            \* bound: days

ASSUME WatchlistAssumption == LastDate \in Nat

VARIABLES
  date,
  members,            \* committed rows: [of, from]
  sync,               \* each run: its date, and the rows it has added
  overlapped          \* instruments looked at while another run had added them

watchlist_vars == <<date, members, sync, overlapped>>

NoSync == [today |-> LastDate + 1, added |-> {}]

WatchlistInit ==
  /\ date = 0 /\ members = {} /\ sync = [s \in Syncs |-> NoSync] /\ overlapped = {}

NextDate == date < LastDate /\ date' = date + 1 /\ UNCHANGED <<members, sync, overlapped>>

Begin(s) ==
  /\ sync[s] = NoSync
  /\ sync' = [sync EXCEPT ![s].today = date]
  /\ UNCHANGED <<date, members, overlapped>>

(* A run sees what is committed and what it has added itself.  A faulty    *)
(* variant asks for a row that starts today.                               *)
StartsToday(s, i) == [of |-> i, from |-> sync[s].today] \in members \cup sync[s].added

AlreadyActive(s, i) == \E m \in members \cup sync[s].added : m.of = i

AddMember(s, i) ==
  /\ sync[s] # NoSync /\ ~AlreadyActive(s, i)
  /\ sync' = [sync EXCEPT ![s].added = @ \cup {[of |-> i, from |-> sync[s].today]}]
  /\ overlapped' = IF \E o \in Syncs \ {s} : \E m \in sync[o].added : m.of = i
                   THEN overlapped \cup {i} ELSE overlapped
  /\ UNCHANGED <<date, members>>

(* All of them or, when one is there already or the run dies, none.        *)
CommitMembers(s) ==
  /\ sync[s] # NoSync /\ sync[s].added \cap members = {}
  /\ members' = members \cup sync[s].added
  /\ sync' = [sync EXCEPT ![s] = NoSync] /\ UNCHANGED <<date, overlapped>>

Abandon(s) ==
  /\ sync[s] # NoSync
  /\ sync' = [sync EXCEPT ![s] = NoSync] /\ UNCHANGED <<date, members, overlapped>>

WatchlistNext ==
  \/ NextDate
  \/ \E s \in Syncs :
       Begin(s) \/ CommitMembers(s) \/ Abandon(s) \/ \E i \in Listed : AddMember(s, i)

WatchlistSpec == WatchlistInit /\ [][WatchlistNext]_watchlist_vars

-----------------------------------------------------------------------------
(* watchlist_instruments, with a row for each membership in force.         *)
Returned(i) == {m \in members : m.of = i /\ m.from <= date}

(* An underlying is listed, and so recorded, evaluated and entered, once,  *)
(* on whatever days the command is run again; but for two runs at a time   *)
(* that a midnight parts, for on one day the key refuses the second.       *)
OneMembership ==
  \A i \in Listed :
    Cardinality(Returned(i)) > 1 => i \in overlapped
=============================================================================
