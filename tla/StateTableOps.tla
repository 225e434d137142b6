---------------------------- MODULE StateTableOps ----------------------------
(***************************************************************************)
(* The operations of StateTable (include/core_common/state_table_ops.h),   *)
(* the one storage layout of every entity kind, as pure operators on a     *)
(* record with the four fields of the struct.                              *)
(*                                                                         *)
(* The code counts rows from 0 and writes kNoRow = 0xFFFFFFFF; a sequence  *)
(* counts from 1, so here row r of the code is r + 1 and kNoRow is 0.      *)
(* row_by_id is indexed by the raw id value from 0, as in the code.        *)
(***************************************************************************)
EXTENDS Integers, Sequences

kNoRow == 0

\* A table no row was ever appended to: the struct's default members.
EmptyTable ==
  [rows |-> <<>>, row_ids |-> <<>>, row_by_id |-> [id \in {} |-> kNoRow],
   next_id_value |-> 1]

FindRow(t, id) ==
  IF id \in DOMAIN t.row_by_id THEN t.row_by_id[id] ELSE kNoRow

AppendWithId(t, row, id) ==
  [rows          |-> Append(t.rows, row),
   row_ids       |-> Append(t.row_ids, id),
   row_by_id     |-> [i \in 0..id |-> IF i = id THEN Len(t.rows) + 1
                                                ELSE FindRow(t, i)],
   next_id_value |-> id + 1]

\* mutant: the id taken from the row count
Bug_IdFromRowCount(t, row) == AppendWithId(t, row, Len(t.rows) + 1)

AppendRow(t, row) == AppendWithId(t, row, t.next_id_value)

\* mutant: the vacated entry cleared before the moved row's is written, which
\* resurrects the id of a removed last row
Bug_ClearedFirst(t, id, row) ==
  [t.row_by_id EXCEPT ![id] = kNoRow, ![t.row_ids[Len(t.rows)]] = row]

\* Swap-with-last. On the last row itself the move is the identity, and the
\* vacated lookup entry is written last, as in the code.
LookupWithout(t, id, row) ==
  [t.row_by_id EXCEPT ![t.row_ids[Len(t.rows)]] = row, ![id] = kNoRow]

LastInto(s, row) == [i \in 1..(Len(s) - 1) |-> IF i = row THEN s[Len(s)] ELSE s[i]]

RemoveRow(t, id) ==
  LET row == FindRow(t, id) IN
  IF row = kNoRow THEN t ELSE
    [rows          |-> LastInto(t.rows, row),
     row_ids       |-> LastInto(t.row_ids, row),
     row_by_id     |-> LookupWithout(t, id, row),
     next_id_value |-> t.next_id_value]

\* What a save stores of a table, and the table a load makes of it: the
\* lookup is rebuilt, the counter is taken from the save and never lowered
\* (ReadTable refuses a stored id at or above the counter, so the raise is
\* only ever the identity on a table the save itself wrote).
SavedForm(t) ==
  [rows |-> t.rows, row_ids |-> t.row_ids, next_id_value |-> t.next_id_value]

StoredIds(s) == {s.row_ids[i] : i \in DOMAIN s.row_ids}

\* mutant: the counter recomputed from the survivors
Bug_CounterOfSurvivors(s) ==
  CHOOSE n \in {1} \cup {id + 1 : id \in StoredIds(s)} : \A id \in StoredIds(s) : n > id

RaisedCounter(s) ==
  CHOOSE n \in {s.next_id_value} \cup {id + 1 : id \in StoredIds(s)} :
    n >= s.next_id_value /\ \A id \in StoredIds(s) : n > id

RebuildLookup(s) ==
  [rows          |-> s.rows,
   row_ids       |-> s.row_ids,
   row_by_id     |-> [id \in 0..(RaisedCounter(s) - 1) |->
                        IF id \in StoredIds(s)
                        THEN CHOOSE i \in DOMAIN s.row_ids : s.row_ids[i] = id
                        ELSE kNoRow],
   next_id_value |-> RaisedCounter(s)]

\* The live entity of an id: what a caller reads through FindRow.
RowOf(t, id) == t.rows[FindRow(t, id)]
SetRow(t, id, row) ==
  [t EXCEPT !.rows = [t.rows EXCEPT ![FindRow(t, id)] = row]]
=============================================================================
