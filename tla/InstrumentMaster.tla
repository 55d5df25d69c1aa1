-------------------------- MODULE InstrumentMaster --------------------------
(***************************************************************************)
(* The instrument rows and their contract specifications (data/ingest.py,  *)
(* data/sync.py), as sessions write them side by side: a sync of a         *)
(* vendor's instrument master, which commits every 500 rows, and a chain   *)
(* poller, which commits every chain.  One upsert is two steps:            *)
(*   Look    the SELECTs for the row, and the reading of the clock         *)
(*   Write   the flush, which inserts or updates the row and so holds its  *)
(*           lock until the commit, and then record_spec                   *)
(* A session reads what is committed and what it wrote itself; the unique  *)
(* constraints look across all of them.                                    *)
(*                                                                         *)
(* A contract stands for its exchange, expiry, strike and type, and has    *)
(* one key at each vendor; a sync and a poller spell its symbol            *)
(* differently.  A sync's record carries a lot, which stands for lot and   *)
(* tick size, a poller's none.  Left out: segment and underlying_symbol,   *)
(* which an upsert overwrites, and the chain_snapshots and option_quotes   *)
(* rows that join the poller's commit.                                     *)
(***************************************************************************)
EXTENDS Integers, FiniteSets, FiniteSetsExt

CONSTANTS
  Contracts,          \* derivatives
  Sources,            \* sessions -> [vendor, spells]: who asks, and how it spells
  Lots,               \* lots a sync may find; 0 is none
  MaxRows, MaxDay, MaxUpserts     \* bounds: rows, days, upserts

ASSUME MasterAssumption ==
  MaxRows \in Nat /\ MaxDay \in Nat /\ MaxUpserts \in Nat /\ Lots \subseteq Nat \ {0}

Sessions == DOMAIN Sources
Forever == MaxDay + 10

VARIABLES
  day,
  upserts,            \* upserts so far, the clock of last_seen
  rows,               \* instruments: id -> [contract, symbol, vendors, seen]
  specs,              \* instrument_specs: <<id, valid_from>> -> [to, lot]
  step,               \* each session: what the upsert under way has found
  new_rows, new_specs,    \* each session: what it wrote and has not committed
  overtaken,          \* sessions another has committed a row of the contract to,
                      \* since they looked for it
  strayed             \* ids written with a date older than their last spec's

pending == <<step, new_rows, new_specs>>
master_vars == <<day, upserts, rows, specs, pending, overtaken, strayed>>

Idle == [at |-> "idle"]
Nothing == [n \in {} |-> Idle]
Clean == [s \in Sessions |-> Nothing]

MasterInit ==
  /\ day = 0 /\ upserts = 0 /\ rows = Nothing /\ specs = Nothing
  /\ step = [s \in Sessions |-> Idle] /\ new_rows = Clean /\ new_specs = Clean
  /\ overtaken = {} /\ strayed = {}

Over(new, old) ==
  [x \in DOMAIN new \cup DOMAIN old |-> IF x \in DOMAIN new THEN new[x] ELSE old[x]]

RowsOf(s)  == Over(new_rows[s], rows)
SpecsOf(s) == Over(new_specs[s], specs)

-----------------------------------------------------------------------------
(* By the vendor's key whatever the symbol, else by the natural key.  A    *)
(* faulty variant asks for the natural key only.                           *)
NaturalMatch(s, contract) ==
  {i \in DOMAIN RowsOf(s) : RowsOf(s)[i].contract = contract
                              /\ RowsOf(s)[i].symbol = Sources[s].spells}

Match(s, contract) ==
  LET keyed == {i \in DOMAIN RowsOf(s) : RowsOf(s)[i].contract = contract
                                           /\ Sources[s].vendor \in RowsOf(s)[i].vendors}
  IN  IF keyed # {} THEN keyed ELSE NaturalMatch(s, contract)

Freshest(ids, found) == CHOOSE i \in ids : \A j \in ids : found[j].seen <= found[i].seen

FreeIds ==
  (1..MaxRows) \ (DOMAIN rows \cup (UNION {DOMAIN new_rows[o] : o \in Sessions})
                    \cup {step[o].id : o \in {p \in Sessions : step[p] # Idle}})

Look(s, contract, lot) ==
  LET found == Match(s, contract)
      id    == IF found = {} THEN Min(FreeIds) ELSE Freshest(found, RowsOf(s))
  IN  /\ step[s] = Idle /\ upserts < MaxUpserts
      /\ found = {} => FreeIds # {}
      /\ lot > 0 => Sources[s].spells = "sync"
      /\ upserts' = upserts + 1
      /\ step' = [step EXCEPT ![s] =
           [at |-> "found", id |-> id, contract |-> contract, lot |-> lot, today |-> day,
            seen |-> upserts', keys |-> IF found = {} THEN {} ELSE RowsOf(s)[id].vendors]]
      /\ UNCHANGED <<day, rows, specs, new_rows, new_specs, overtaken, strayed>>

-----------------------------------------------------------------------------
(* The row an UPDATE touches is locked by whoever wrote it, until his      *)
(* commit.                                                                 *)
Locked(s, i) == \E o \in Sessions \ {s} : i \in DOMAIN new_rows[o]

(* A vendor's key is added to those the row had when it was found; an      *)
(* unchanged column is not in the UPDATE.                                  *)
WrittenRow(s, u) ==
  IF u.id \in DOMAIN RowsOf(s)
  THEN [RowsOf(s)[u.id] EXCEPT !.seen = u.seen,
          !.vendors = IF Sources[s].vendor \in u.keys THEN @
                      ELSE u.keys \cup {Sources[s].vendor}]
  ELSE [contract |-> u.contract, symbol |-> Sources[s].spells,
        vendors |-> {Sources[s].vendor}, seen |-> u.seen]

(* The unique constraint on the natural key and the unique index on each   *)
(* vendor's.  A statement waits for a row in its way that is not yet       *)
(* committed, and fails on one that is, or that its own session wrote.     *)
Clash(old, new) ==
  /\ old.contract = new.contract
  /\ old.symbol = new.symbol \/ old.vendors \cap new.vendors # {}

ClashAwaited(s, u) ==
  \E o \in Sessions \ {s} : \E i \in DOMAIN new_rows[o] \ {u.id} :
    Clash(new_rows[o][i], WrittenRow(s, u))

RowRefused(s, u) ==
  \E i \in DOMAIN RowsOf(s) \ {u.id} : Clash(RowsOf(s)[i], WrittenRow(s, u))

(* record_spec: nothing to do, a correction in place, or the open row      *)
(* closed yesterday and the next one opened today; by a faulty variant     *)
(* closed today.                                                           *)
ClosedToday(today) == today
ClosedOn(today)    == today - 1

Starts(i, table) == {k[2] : k \in {j \in DOMAIN table : j[1] = i}}
OpenStarts(i, table) == {d \in Starts(i, table) : table[<<i, d>>].to = Forever}

Put(k, spec, table) == Over([x \in {k} |-> spec], table)

RecordSpec(s, u) ==
  LET table == SpecsOf(s)
      open  == OpenStarts(u.id, table)
      from  == CHOOSE d \in open : TRUE
      fresh == [to |-> Forever, lot |-> u.lot]
      opened(old) == Put(<<u.id, u.today>>, fresh, old)
  IN  IF u.lot = 0 THEN new_specs[s]
      ELSE IF open = {} THEN opened(new_specs[s])
      ELSE IF table[<<u.id, from>>].lot = u.lot THEN new_specs[s]
      ELSE IF from = u.today THEN opened(new_specs[s])
      ELSE opened(Put(<<u.id, from>>, [table[<<u.id, from>>] EXCEPT !.to = ClosedOn(u.today)],
                      new_specs[s]))

(* valid_from is part of the key: a closed row of today's date is in the   *)
(* way of the next.                                                        *)
SpecRefused(s, u) ==
  u.lot > 0 /\ <<u.id, u.today>> \in DOMAIN SpecsOf(s)
            /\ SpecsOf(s)[<<u.id, u.today>>].to # Forever

Write(s) ==
  LET u == step[s]
  IN  /\ u # Idle /\ ~Locked(s, u.id)
      /\ ~ClashAwaited(s, u) /\ ~RowRefused(s, u) /\ ~SpecRefused(s, u)
      /\ new_rows' = [new_rows EXCEPT ![s] =
           Over([i \in {u.id} |-> WrittenRow(s, u)], new_rows[s])]
      /\ new_specs' = [new_specs EXCEPT ![s] = RecordSpec(s, u)]
      /\ step' = [step EXCEPT ![s] = Idle]
      /\ strayed' = IF u.lot > 0 /\ \E d \in Starts(u.id, SpecsOf(s)) : d > u.today
                    THEN strayed \cup {u.id} ELSE strayed
      /\ overtaken' = overtaken \ {s}
      /\ UNCHANGED <<day, upserts, rows, specs>>

Commit(s) ==
  /\ step[s] = Idle /\ new_rows[s] # Nothing
  /\ rows' = RowsOf(s) /\ specs' = SpecsOf(s)
  /\ new_rows' = [new_rows EXCEPT ![s] = Nothing]
  /\ new_specs' = [new_specs EXCEPT ![s] = Nothing]
  /\ overtaken' = overtaken \cup
       {o \in Sessions \ {s} : step[o] # Idle
          /\ \E i \in DOMAIN new_rows[s] : new_rows[s][i].contract = step[o].contract}
  /\ UNCHANGED <<day, upserts, step, strayed>>

(* A constraint refuses a statement, two sessions lock each other out, or  *)
(* the process dies: nothing of the transaction stays.                     *)
Rollback(s) ==
  /\ step[s] # Idle \/ new_rows[s] # Nothing
  /\ step' = [step EXCEPT ![s] = Idle]
  /\ new_rows' = [new_rows EXCEPT ![s] = Nothing]
  /\ new_specs' = [new_specs EXCEPT ![s] = Nothing]
  /\ overtaken' = overtaken \ {s}
  /\ UNCHANGED <<day, upserts, rows, specs, strayed>>

Midnight ==
  /\ day < MaxDay /\ day' = day + 1
  /\ UNCHANGED <<upserts, rows, specs, pending, overtaken, strayed>>

MasterNext ==
  \/ Midnight
  \/ \E s \in Sessions :
       \/ \E contract \in Contracts, lot \in Lots \cup {0} : Look(s, contract, lot)
       \/ Write(s) \/ Commit(s) \/ Rollback(s)

MasterSpec == MasterInit /\ [][MasterNext]_master_vars

-----------------------------------------------------------------------------
(* On every day since its first spec a contract has one lot in force, and  *)
(* one only, whoever wrote which on which day, side by side or again and   *)
(* again; but for a row whose writer waited past a midnight for another's  *)
(* lock and then wrote the older date.                                     *)
InForce(i, d) ==
  {from \in Starts(i, specs) : from <= d /\ d <= specs[<<i, from>>].to}

OneSpecInForce ==
  \A i \in DOMAIN rows \ strayed :
    \A first \in Starts(i, specs) : \A d \in first..(MaxDay + 1) :
      Cardinality(InForce(i, d)) = 1

(* A refused statement costs a sync its batch and a poller its chain.  It  *)
(* happens to a session only when another committed a row of the contract  *)
(* after it had looked: the key is looked for before the symbol, so that a *)
(* spelling of its own does not have one session refused for ever, and no  *)
(* spec of today's date is in the way, but on a row that strayed.          *)
Refused(s, u) == RowRefused(s, u) \/ (SpecRefused(s, u) /\ u.id \notin strayed)

RefusedOnlyWhenOvertaken ==
  \A s \in Sessions : step[s] # Idle /\ Refused(s, step[s]) => s \in overtaken
=============================================================================
