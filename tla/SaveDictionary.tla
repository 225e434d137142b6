--------------------------- MODULE SaveDictionary ---------------------------
(***************************************************************************)
(* "Saves store keys, not indices": a row names a definition by its index  *)
(* in a table of the game and holds amounts in the order of that table's   *)
(* rows; a save carries the table's keys, and a load finds each key's      *)
(* place in the tables the game has by then (core_save,                    *)
(* save_dictionary.cpp).                                                   *)
(*                                                                         *)
(* The rows are those of StateTable's campaign; a row is [def, amounts].   *)
(* One kind of definition stands for the nine.                             *)
(***************************************************************************)
EXTENDS StateTable

CONSTANTS Tables,      \* the key columns the game's table has had or will have
          FirstTable   \* the one this campaign is played with

NoDef == 0   \* kInvalidDefIdValue; definitions count from 1

\* What the program's tables and rows are, the theorem about the dictionary
\* assumes it by name: the table reader refuses a table with a key twice
\* (FindDuplicateKey), and no row names what the table it lives under has not.
TablesSound ==
  /\ FirstTable \in Tables
  /\ \A keys \in Tables :
       keys \in Seq(STRING) /\ \A i, j \in DOMAIN keys : keys[i] = keys[j] => i = j
RowsFit ==
  \A row \in Row :
    /\ row.def \in 0..Len(FirstTable)
    /\ row.amounts \in Seq(Int) /\ Len(row.amounts) <= Len(FirstTable)

-----------------------------------------------------------------------------
IndexOf(keys, key) ==
  IF \E i \in DOMAIN keys : keys[i] = key THEN CHOOSE i \in DOMAIN keys : keys[i] = key
  ELSE NoDef

\* mutant: a table of the old size is the old table
Bug_IdentityBySize(to_live, live_count) == Len(to_live) = live_count

IsIdentity(to_live, live_count) ==
  Len(to_live) = live_count /\ \A i \in DOMAIN to_live : to_live[i] = i

BuildRemap(saved_keys, live_keys) ==
  LET to_live == [i \in 1..Len(saved_keys) |-> IndexOf(live_keys, saved_keys[i])] IN
  [to_live    |-> to_live,
   live_count |-> Len(live_keys),
   identity   |-> IsIdentity(to_live, Len(live_keys))]

\* SaveSink: a row the table has no place for aborts the save.
Writable(keys, row) == row.def <= Len(keys) /\ Len(row.amounts) <= Len(keys)

\* LoadSource: a key that is gone is refused where it is used, and only there.
ReadDefId(remap, def) == IF def = NoDef THEN NoDef ELSE remap.to_live[def]
DefIdRefused(remap, def) ==
  def # NoDef /\ (def > Len(remap.to_live) \/ ReadDefId(remap, def) = NoDef)

AmountsRefused(remap, amounts) ==
  /\ ~remap.identity
  /\ \E i \in DOMAIN amounts :
       i > Len(remap.to_live) \/ (remap.to_live[i] = NoDef /\ amounts[i] # 0)

\* Verbatim under the same table, length included; otherwise a full column a
\* live key, and nothing stays nothing.
ReadAmounts(remap, amounts) ==
  IF remap.identity \/ amounts = <<>> THEN amounts
  ELSE [target \in 1..remap.live_count |->
          LET from == {i \in DOMAIN amounts : remap.to_live[i] = target} IN
          IF from = {} THEN 0 ELSE amounts[CHOOSE i \in from : \A j \in from : j <= i]]

ReadRow(remap, row) ==
  [def |-> ReadDefId(remap, row.def), amounts |-> ReadAmounts(remap, row.amounts)]

Refused(remap, s) ==
  \E i \in DOMAIN s.rows :
    DefIdRefused(remap, s.rows[i].def) \/ AmountsRefused(remap, s.rows[i].amounts)

ReadTable(remap, s) == [s EXCEPT !.rows = [i \in DOMAIN @ |-> ReadRow(remap, @[i])]]

-----------------------------------------------------------------------------
\* What a row says when its indices are read as keys.
GramsOf(keys, row) ==
  [key \in {keys[i] : i \in {j \in DOMAIN row.amounts : row.amounts[j] # 0}} |->
     row.amounts[IndexOf(keys, key)]]
Meaning(keys, row) ==
  [names |-> IF row.def = NoDef THEN {} ELSE {keys[row.def]}, grams |-> GramsOf(keys, row)]
Uses(keys, row) == Meaning(keys, row).names \cup DOMAIN GramsOf(keys, row)

\* Read under `live`, the save written under `written` is refused exactly when
\* something it uses is gone, and otherwise says what it said, of the same
\* entities.
ReadsAs(s, written, live) ==
  LET remap  == BuildRemap(written, live)
      loaded == ReadTable(remap, s)
      usesOnlyLive ==
        \A i \in DOMAIN s.rows : Uses(written, s.rows[i]) \subseteq {live[k] : k \in DOMAIN live}
  IN
  /\ \A i \in DOMAIN s.rows : Writable(written, s.rows[i])
  /\ Refused(remap, s) <=> ~usesOnlyLive
  /\ usesOnlyLive =>
       /\ loaded.row_ids = s.row_ids /\ loaded.next_id_value = s.next_id_value
       /\ \A i \in DOMAIN s.rows : Meaning(live, loaded.rows[i]) = Meaning(written, s.rows[i])

\* Rows keep their meaning through a load under any other table, and through a
\* second save and load under a third: no grams under another key, none lost
\* with a key that went, no row unreadable that names nothing lost, and a
\* loaded world can be saved again.
KeysKept ==
  \A live \in Tables :
    LET remap == BuildRemap(FirstTable, live) IN
    /\ ReadsAs(saved, FirstTable, live)
    /\ ~Refused(remap, saved) =>
         \A later \in Tables : ReadsAs(ReadTable(remap, saved), live, later)
=============================================================================
