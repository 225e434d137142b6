----------------------------- MODULE StateTable ------------------------------
(***************************************************************************)
(* One StateTable over a campaign: rows are appended and removed by the    *)
(* sequential phases, written in place by any phase, and the table goes    *)
(* through a save and a load (core_save, WriteTable / ReadTable).          *)
(***************************************************************************)
EXTENDS StateTableOps

CONSTANTS Row,     \* the values a row can hold
          MaxId    \* bound of the model: the last id that may be issued

ASSUME MaxIdAssumption == MaxId \in Nat

VARIABLES table,   \* the struct
          saved    \* the table as the last save wrote it

vars == <<table, saved>>

Init ==
  /\ table = EmptyTable
  /\ saved = SavedForm(EmptyTable)

\* A birth, an order, a new unit: the id is the table's to issue.
Add(row) ==
  /\ table.next_id_value <= MaxId
  /\ table' = AppendRow(table, row)
  /\ UNCHANGED saved

\* RemoveRow is asked for any id a caller may hold: live, dead, not yet
\* issued or the invalid 0.
Drop(id) ==
  /\ table' = RemoveRow(table, id)
  /\ UNCHANGED saved

\* A phase writes the row of an id it looked up.
Write(id, row) ==
  /\ FindRow(table, id) # kNoRow
  /\ table' = SetRow(table, id, row)
  /\ UNCHANGED saved

Save ==
  /\ saved' = SavedForm(table)
  /\ UNCHANGED table

Load ==
  /\ table' = RebuildLookup(saved)
  /\ UNCHANGED saved

Next ==
  \/ \E row \in Row : Add(row)
  \/ \E id \in 0..MaxId : Drop(id)
  \/ \E id \in 0..MaxId, row \in Row : Write(id, row)
  \/ Save
  \/ Load

Spec == Init /\ [][Next]_vars

-----------------------------------------------------------------------------
\* The shape of the struct and of what a save stores; the lookup leads to
\* rows that exist.
Shape(t) ==
  t \in [rows          : Seq(Row),
         row_ids       : Seq(1..MaxId),
         row_by_id     : UNION {[0..(n - 1) -> 0..Len(t.rows)] : n \in 0..(MaxId + 1)},
         next_id_value : 1..(MaxId + 1)]

SavedShape(s) ==
  s \in [rows : Seq(Row), row_ids : Seq(1..MaxId), next_id_value : 1..(MaxId + 1)]

TypeOK == Shape(table) /\ SavedShape(saved)

\* The dense arrays name each entity once, below the counter.
Dense(t) ==
  /\ Len(t.rows) = Len(t.row_ids)
  /\ \A i \in 1..Len(t.row_ids) : t.row_ids[i] < t.next_id_value
  /\ \A i, j \in 1..Len(t.row_ids) : t.row_ids[i] = t.row_ids[j] => i = j

\* The lookup says for every id where its entity stands, and for every id
\* with no entity - removed, never issued, the invalid 0 - that it has none:
\* a stale reference reads as "gone", never as somebody else.
Indexed(t) ==
  /\ DOMAIN t.row_by_id = 0..(t.next_id_value - 1)
       \/ (DOMAIN t.row_by_id = {} /\ t.row_ids = <<>>)
  /\ \A i \in 1..Len(t.row_ids) : FindRow(t, t.row_ids[i]) = i
  /\ \A id \in DOMAIN t.row_by_id :
       t.row_by_id[id] # kNoRow =>
         /\ t.row_by_id[id] \in 1..Len(t.row_ids)
         /\ t.row_ids[t.row_by_id[id]] = id

LookupAgrees == Dense(table) /\ Indexed(table) /\ Dense(saved)

\* A save taken now and loaded later is this very table: every id leads to
\* the row it leads to today, and the next id issued is the one that would
\* have been issued - not one above the largest survivor, which would give
\* the id of an entity that died before the save to somebody else.
RoundTrip ==
  LET loaded == RebuildLookup(SavedForm(table)) IN
  /\ SavedForm(loaded) = SavedForm(table)
  /\ \A id \in 0..(MaxId + 1) : FindRow(loaded, id) = FindRow(table, id)

\* The table as the map it stands for.
Live(t) == [id \in StoredIds(t) |-> RowOf(t, id)]

Map == INSTANCE EntityMap
         WITH live <- Live(table),
              next <- table.next_id_value,
              kept <- [live |-> Live(RebuildLookup(saved)), next |-> saved.next_id_value]

\* Swapping, shrinking, saving and loading are invisible: the table behaves
\* as a map whose ids are issued once and drop only the entity named.
ImplementsEntityMap == Map!Spec
=============================================================================
