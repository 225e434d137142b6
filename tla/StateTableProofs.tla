--------------------------- MODULE StateTableProofs --------------------------
(***************************************************************************)
(* StateTable for every set of row values and every number of ids: the     *)
(* lookup never disagrees with the rows, a save loaded back is the table   *)
(* it was taken of, and the whole implements EntityMap.                    *)
(*                                                                         *)
(* Good(t) is inductive through every operation: Shape and Dense say what  *)
(* the arrays are, Indexed that the lookup is their inverse.  Each         *)
(* operation has a lemma that it preserves Good and a lemma that says what *)
(* it does to Live(t), the map the table stands for.                       *)
(*                                                                         *)
(* Two parts follow.  When the rows are orders, the batch, the withdrawals,*)
(* the judgement and the sweep of the dead keep the table good and do what *)
(* they say: SessionProofs and PostProofs cite these for their books.  And *)
(* the save's dictionary, for every table of definitions and every row: a  *)
(* load under other tables is refused exactly when something the save uses *)
(* is gone, and otherwise keeps what every row says.                       *)
(***************************************************************************)
EXTENDS SaveDictionary, OrderBookOps, SequenceTheorems, TLAPS

Good(t) == Shape(t) /\ Dense(t) /\ Indexed(t)
GoodSave(s) == SavedShape(s) /\ Dense(s)
IInv == Good(table) /\ GoodSave(saved)

\* An empty table is good: the first state.
LEMMA EmptyGood == Good(EmptyTable) /\ GoodSave(SavedForm(EmptyTable))
  <1>1. Shape(EmptyTable)
    <2>1. EmptyTable.row_by_id \in [0..(0 - 1) -> 0..Len(EmptyTable.rows)]
      BY DEF EmptyTable
    <2>2. 0 \in 0..(MaxId + 1) /\ 1 \in 1..(MaxId + 1)
      BY MaxIdAssumption
    <2> QED BY <2>1, <2>2 DEF Shape, EmptyTable
  <1>2. Dense(EmptyTable) /\ Indexed(EmptyTable)
    BY DEF Dense, Indexed, EmptyTable
  <1> QED BY <1>1, <1>2 DEF Good, GoodSave, SavedShape, SavedForm, Shape, Dense, EmptyTable

\* What Good says of the parts of a table, in the forms the proofs use.
LEMMA GoodParts ==
  ASSUME NEW t, Good(t)
  PROVE  /\ t.next_id_value \in 1..(MaxId + 1)
         /\ t.rows \in Seq(Row)
         /\ t.row_ids \in Seq(1..MaxId)
         /\ Len(t.rows) \in Nat
         /\ Len(t.row_ids) = Len(t.rows)
         /\ \A i \in 1..Len(t.rows) :
              /\ t.row_ids[i] \in 1..MaxId
              /\ t.row_ids[i] < t.next_id_value
              /\ t.row_ids[i] \in DOMAIN t.row_by_id
              /\ t.row_by_id[t.row_ids[i]] = i
         /\ \A i, j \in 1..Len(t.rows) : t.row_ids[i] = t.row_ids[j] => i = j
         /\ \A id \in DOMAIN t.row_by_id :
              /\ t.row_by_id[id] \in 0..Len(t.rows)
              /\ t.row_by_id[id] # kNoRow =>
                   t.row_by_id[id] \in 1..Len(t.rows) /\ t.row_ids[t.row_by_id[id]] = id
         /\ DOMAIN t.row_by_id \subseteq 0..(t.next_id_value - 1)
         /\ t.row_ids # <<>> => DOMAIN t.row_by_id = 0..(t.next_id_value - 1)
  <1>1. /\ t.next_id_value \in 1..(MaxId + 1)
        /\ t.rows \in Seq(Row)
        /\ t.row_ids \in Seq(1..MaxId)
    BY DEF Good, Shape
  <1>2. Len(t.rows) \in Nat /\ Len(t.row_ids) = Len(t.rows)
    BY <1>1 DEF Good, Dense
  <1>3. \A i \in 1..Len(t.rows) : t.row_ids[i] \in 1..MaxId
    BY <1>1, <1>2, ElementOfSeq
  <1>4. /\ \A i \in 1..Len(t.rows) : t.row_ids[i] < t.next_id_value
        /\ \A i, j \in 1..Len(t.rows) : t.row_ids[i] = t.row_ids[j] => i = j
    BY <1>2 DEF Good, Dense
  <1>5. PICK n \in 0..(MaxId + 1) : t.row_by_id \in [0..(n - 1) -> 0..Len(t.rows)]
    BY DEF Good, Shape
  <1>6. \A i \in 1..Len(t.rows) :
          t.row_ids[i] \in DOMAIN t.row_by_id /\ t.row_by_id[t.row_ids[i]] = i
    BY <1>2, <1>3, SMTT(30) DEF Good, Indexed, FindRow, kNoRow
  <1>7. \A id \in DOMAIN t.row_by_id :
              /\ t.row_by_id[id] \in 0..Len(t.rows)
              /\ t.row_by_id[id] # kNoRow =>
                   t.row_by_id[id] \in 1..Len(t.rows) /\ t.row_ids[t.row_by_id[id]] = id
    BY <1>2, <1>5 DEF Good, Indexed
  <1>8. /\ DOMAIN t.row_by_id \subseteq 0..(t.next_id_value - 1)
        /\ t.row_ids # <<>> => DOMAIN t.row_by_id = 0..(t.next_id_value - 1)
    BY DEF Good, Indexed
  <1> QED BY <1>1, <1>2, <1>3, <1>4, <1>6, <1>7, <1>8

\* The same parts, put together again.
LEMMA PartsGood ==
  ASSUME NEW t,
         t = [rows |-> t.rows, row_ids |-> t.row_ids, row_by_id |-> t.row_by_id,
              next_id_value |-> t.next_id_value],
         t.rows \in Seq(Row), t.row_ids \in Seq(1..MaxId),
         t.next_id_value \in 1..(MaxId + 1),
         Len(t.row_ids) = Len(t.rows),
         t.row_by_id \in [0..(t.next_id_value - 1) -> 0..Len(t.rows)],
         \A i \in 1..Len(t.rows) :
           t.row_ids[i] < t.next_id_value /\ t.row_by_id[t.row_ids[i]] = i,
         \A id \in 0..(t.next_id_value - 1) :
           t.row_by_id[id] # kNoRow => t.row_ids[t.row_by_id[id]] = id
  PROVE  Good(t)
  <1>1. t.next_id_value \in 0..(MaxId + 1)
    BY MaxIdAssumption
  <1>2. Shape(t)
    <2>1. t.row_by_id \in UNION {[0..(n - 1) -> 0..Len(t.rows)] : n \in 0..(MaxId + 1)}
      BY <1>1
    <2> QED BY <2>1 DEF Shape
  <1>3. Dense(t)
    BY DEF Dense
  <1>4. \A i \in 1..Len(t.row_ids) : FindRow(t, t.row_ids[i]) = i
    <2> SUFFICES ASSUME NEW i \in 1..Len(t.rows) PROVE FindRow(t, t.row_ids[i]) = i
      OBVIOUS
    <2>1. t.row_ids[i] \in 1..MaxId
      BY ElementOfSeq
    <2>2. t.row_ids[i] \in 0..(t.next_id_value - 1)
      BY <2>1, MaxIdAssumption
    <2> QED BY <2>2 DEF FindRow
  <1>5. \A id \in 0..(t.next_id_value - 1) :
          t.row_by_id[id] # kNoRow => t.row_by_id[id] \in 1..Len(t.row_ids)
    BY DEF kNoRow
  <1> QED BY <1>2, <1>3, <1>4, <1>5 DEF Good, Indexed

\* Appending keeps a table good: the new id is above every id in it.
LEMMA AppendGood ==
  ASSUME NEW t, Good(t), NEW row \in Row, t.next_id_value <= MaxId
  PROVE  Good(AppendRow(t, row))
  <1> DEFINE u == AppendRow(t, row)
  <1>1. /\ u.rows = Append(t.rows, row) /\ u.row_ids = Append(t.row_ids, t.next_id_value)
        /\ u.row_by_id = [i \in 0..t.next_id_value |->
                            IF i = t.next_id_value THEN Len(t.rows) + 1 ELSE FindRow(t, i)]
        /\ u.next_id_value = t.next_id_value + 1
        /\ u = [rows |-> u.rows, row_ids |-> u.row_ids, row_by_id |-> u.row_by_id,
                next_id_value |-> u.next_id_value]
    BY DEF AppendRow, AppendWithId
  <1> HIDE DEF u
  <1>2. /\ t.next_id_value \in 1..MaxId /\ t.rows \in Seq(Row) /\ t.row_ids \in Seq(1..MaxId)
        /\ Len(t.rows) \in Nat /\ Len(t.row_ids) = Len(t.rows)
    BY GoodParts, MaxIdAssumption
  <1>3. /\ u.rows \in Seq(Row) /\ Len(u.rows) = Len(t.rows) + 1
        /\ u.row_ids \in Seq(1..MaxId) /\ Len(u.row_ids) = Len(t.rows) + 1
        /\ u.next_id_value \in 1..(MaxId + 1)
        /\ u.row_ids[Len(t.rows) + 1] = t.next_id_value
        /\ \A i \in 1..Len(t.rows) : u.row_ids[i] = t.row_ids[i]
    BY <1>1, <1>2, MaxIdAssumption
  <1>4. \A i \in 0..t.next_id_value : FindRow(t, i) \in 0..Len(t.rows)
    BY <1>2, GoodParts DEF FindRow, kNoRow
  <1>5. u.row_by_id \in [0..(u.next_id_value - 1) -> 0..Len(u.rows)]
    <2>1. 0..(u.next_id_value - 1) = 0..t.next_id_value
      BY <1>1, <1>2
    <2> QED BY <2>1, <1>1, <1>2, <1>3, <1>4
  <1>6. \A i \in 1..Len(u.rows) :
          u.row_ids[i] < u.next_id_value /\ u.row_by_id[u.row_ids[i]] = i
    <2> SUFFICES ASSUME NEW i \in 1..(Len(t.rows) + 1)
                 PROVE  u.row_ids[i] < u.next_id_value /\ u.row_by_id[u.row_ids[i]] = i
      BY <1>3
    <2>1. CASE i = Len(t.rows) + 1
      BY <2>1, <1>1, <1>2, <1>3
    <2>2. CASE i \in 1..Len(t.rows)
      <3>1. /\ t.row_ids[i] \in 1..MaxId /\ t.row_ids[i] < t.next_id_value
            /\ FindRow(t, t.row_ids[i]) = i
        BY <2>2, GoodParts DEF FindRow
      <3> QED BY <3>1, <2>2, <1>1, <1>2, <1>3, SMTT(30)
    <2> QED BY <2>1, <2>2, <1>2
  <1>7. \A id \in 0..(u.next_id_value - 1) :
          u.row_by_id[id] # kNoRow => u.row_ids[u.row_by_id[id]] = id
    <2> SUFFICES ASSUME NEW id \in 0..(u.next_id_value - 1), u.row_by_id[id] # kNoRow
                 PROVE  u.row_ids[u.row_by_id[id]] = id
      OBVIOUS
    <2>0. id \in 0..t.next_id_value
      BY <1>1, <1>2
    <2>1. CASE id = t.next_id_value
      BY <2>1, <1>1, <1>2, <1>3
    <2>2. CASE id # t.next_id_value
      <3>1. u.row_by_id[id] = FindRow(t, id)
        BY <2>0, <2>2, <1>1
      <3>2. FindRow(t, id) \in 1..Len(t.rows) /\ t.row_ids[FindRow(t, id)] = id
        BY <3>1, GoodParts DEF FindRow
      <3> QED BY <3>1, <3>2, <1>3
    <2> QED BY <2>1, <2>2
  <1>8. Good(u)
    BY <1>1, <1>3, <1>5, <1>6, <1>7, PartsGood
  <1> QED BY <1>8 DEF u

\* Removing keeps a table good: the moved row's entry follows it, the
\* removed id leads nowhere.
LEMMA RemoveGood ==
  ASSUME NEW t, Good(t), NEW id, FindRow(t, id) # kNoRow
  PROVE  Good(RemoveRow(t, id))
  <1> DEFINE row  == FindRow(t, id)
             last == Len(t.rows)
             moved == t.row_ids[last]
             u    == RemoveRow(t, id)
  <1>1. /\ u.rows = LastInto(t.rows, row) /\ u.row_ids = LastInto(t.row_ids, row)
        /\ u.row_by_id = LookupWithout(t, id, row)
        /\ u.next_id_value = t.next_id_value
        /\ u = [rows |-> u.rows, row_ids |-> u.row_ids, row_by_id |-> u.row_by_id,
                next_id_value |-> u.next_id_value]
    BY DEF RemoveRow
  <1> HIDE DEF u
  <1>2. /\ id \in DOMAIN t.row_by_id /\ row = t.row_by_id[id]
        /\ row \in 1..last /\ t.row_ids[row] = id
    BY GoodParts DEF FindRow, kNoRow
  <1>3. /\ last \in Nat \ {0} /\ last \in 1..last /\ Len(t.row_ids) = last
        /\ moved \in DOMAIN t.row_by_id /\ t.row_by_id[moved] = last
    BY <1>2, GoodParts, SMTT(30)
  <1>4. DOMAIN t.row_by_id = 0..(t.next_id_value - 1)
    <2>1. t.row_ids # <<>>
      BY <1>3
    <2> QED BY <2>1, GoodParts
  <1> HIDE DEF row, last, moved
  <1>5. /\ u.rows \in Seq(Row) /\ Len(u.rows) = last - 1
        /\ u.row_ids \in Seq(1..MaxId) /\ Len(u.row_ids) = last - 1
        /\ \A i \in 1..(last - 1) :
             u.row_ids[i] = IF i = row THEN moved ELSE t.row_ids[i]
    <2>1. ASSUME NEW S, NEW s \in Seq(S), Len(s) = last
          PROVE  /\ LastInto(s, row) \in Seq(S)
                 /\ Len(LastInto(s, row)) = last - 1
                 /\ \A i \in 1..(last - 1) :
                      LastInto(s, row)[i] = IF i = row THEN s[last] ELSE s[i]
      <3>1. LastInto(s, row) = [i \in 1..(last - 1) |-> IF i = row THEN s[last] ELSE s[i]]
        BY <2>1 DEF LastInto
      <3>2. \A i \in 1..last : s[i] \in S
        BY <2>1, ElementOfSeq
      <3> QED BY <3>1, <3>2, <1>3
    <2>2. t.rows \in Seq(Row) /\ t.row_ids \in Seq(1..MaxId)
      BY GoodParts
    <2>3. u.rows \in Seq(Row) /\ Len(u.rows) = last - 1
      BY <1>1, <2>1, <2>2 DEF last
    <2>4. /\ u.row_ids \in Seq(1..MaxId) /\ Len(u.row_ids) = last - 1
          /\ \A i \in 1..(last - 1) :
               u.row_ids[i] = IF i = row THEN t.row_ids[last] ELSE t.row_ids[i]
      BY <1>1, <1>3, <2>1, <2>2
    <2> QED BY <2>3, <2>4 DEF moved
  <1>6. u.row_by_id = [k \in 0..(t.next_id_value - 1) |->
                         IF k = id THEN kNoRow ELSE IF k = moved THEN row ELSE t.row_by_id[k]]
    BY <1>1, <1>4 DEF LookupWithout, moved, last
  <1>7. \A k \in 0..(t.next_id_value - 1) :
          /\ t.row_by_id[k] \in 0..last
          /\ t.row_by_id[k] # kNoRow => t.row_by_id[k] \in 1..last /\ t.row_ids[t.row_by_id[k]] = k
    BY <1>4, GoodParts DEF last
  <1>8. ASSUME NEW k \in 0..(t.next_id_value - 1), k # id, k # moved, t.row_by_id[k] # kNoRow
        PROVE  t.row_by_id[k] \in 1..(last - 1) /\ t.row_by_id[k] # row
    <2>1. t.row_by_id[k] \in 1..last /\ t.row_ids[t.row_by_id[k]] = k
      BY <1>7, <1>8
    <2>2. t.row_by_id[k] # last
      BY <2>1, <1>8 DEF moved
    <2>3. t.row_by_id[k] # row
      BY <2>1, <1>8, <1>2
    <2> QED BY <2>1, <2>2, <2>3, <1>3
  <1>9. id # moved => row \in 1..(last - 1)
    <2>1. id # moved => row # last
      BY <1>2 DEF moved
    <2> QED BY <2>1, <1>2, <1>3
  <1>10. u.row_by_id \in [0..(u.next_id_value - 1) -> 0..Len(u.rows)]
    <2> SUFFICES ASSUME NEW k \in 0..(t.next_id_value - 1)
                 PROVE  u.row_by_id[k] \in 0..(last - 1)
      BY <1>1, <1>5, <1>6
    <2>1. CASE k = id
      BY <2>1, <1>3, <1>6 DEF kNoRow
    <2>2. CASE k # id /\ k = moved
      BY <2>2, <1>3, <1>6, <1>9
    <2>3. CASE k # id /\ k # moved
      <3>1. u.row_by_id[k] = t.row_by_id[k]
        BY <2>3, <1>6
      <3> QED BY <3>1, <2>3, <1>3, <1>8 DEF kNoRow
    <2> QED BY <2>1, <2>2, <2>3
  <1>11. \A i \in 1..Len(u.rows) :
           u.row_ids[i] < u.next_id_value /\ u.row_by_id[u.row_ids[i]] = i
    <2> SUFFICES ASSUME NEW i \in 1..(last - 1)
                 PROVE  u.row_ids[i] < t.next_id_value /\ u.row_by_id[u.row_ids[i]] = i
      BY <1>1, <1>5
    <2>1. /\ i \in 1..last /\ i # last
          /\ t.row_ids[i] \in 0..(t.next_id_value - 1) /\ t.row_by_id[t.row_ids[i]] = i
          /\ t.row_ids[i] < t.next_id_value
      <3>1. i \in 1..last /\ i # last
        BY <1>3
      <3>2. t.row_ids[i] \in DOMAIN t.row_by_id /\ t.row_by_id[t.row_ids[i]] = i
            /\ t.row_ids[i] < t.next_id_value
        BY <3>1, GoodParts DEF last
      <3> QED BY <3>1, <3>2, <1>4
    <2>2. moved \in 0..(t.next_id_value - 1) /\ moved < t.next_id_value
      <3>1. moved < t.next_id_value
        BY <1>3, GoodParts DEF moved, last
      <3> QED BY <3>1, <1>3, <1>4
    <2>3. CASE i = row
      <3>1. moved # id
        BY <2>1, <2>3, <1>2, <1>3
      <3>2. u.row_ids[i] = moved
        BY <2>3, <1>5
      <3> QED BY <3>1, <3>2, <2>2, <2>3, <1>6
    <2>4. CASE i # row
      <3>1. t.row_ids[i] # id /\ t.row_ids[i] # moved
        BY <2>1, <2>4, <1>2, <1>3
      <3>2. u.row_ids[i] = t.row_ids[i]
        BY <2>4, <1>5
      <3> QED BY <3>1, <3>2, <2>1, <1>6
    <2> QED BY <2>3, <2>4
  <1>12. \A k \in 0..(u.next_id_value - 1) :
           u.row_by_id[k] # kNoRow => u.row_ids[u.row_by_id[k]] = k
    <2> SUFFICES ASSUME NEW k \in 0..(t.next_id_value - 1), u.row_by_id[k] # kNoRow
                 PROVE  u.row_ids[u.row_by_id[k]] = k
      BY <1>1
    <2>1. k # id
      BY <1>6
    <2>2. CASE k = moved
      BY <2>1, <2>2, <1>5, <1>6, <1>9
    <2>3. CASE k # moved
      <3>1. u.row_by_id[k] = t.row_by_id[k]
        BY <2>1, <2>3, <1>6
      <3> QED BY <3>1, <2>1, <2>3, <1>5, <1>7, <1>8
    <2> QED BY <2>2, <2>3
  <1>13. Good(u)
    BY <1>1, <1>5, <1>10, <1>11, <1>12, GoodParts, PartsGood
  <1> QED BY <1>13 DEF u

\* What the next id of a good saved table is: the stored counter itself.
LEMMA CounterKept ==
  ASSUME NEW s, GoodSave(s)
  PROVE  RaisedCounter(s) = s.next_id_value
  <1>1. s.next_id_value \in 1..(MaxId + 1) /\ s.row_ids \in Seq(1..MaxId)
    BY DEF GoodSave, SavedShape
  <1>2. \A id \in StoredIds(s) : id \in 1..MaxId /\ id < s.next_id_value
    <2> SUFFICES ASSUME NEW i \in DOMAIN s.row_ids
                 PROVE  s.row_ids[i] \in 1..MaxId /\ s.row_ids[i] < s.next_id_value
      BY DEF StoredIds
    <2>1. i \in 1..Len(s.row_ids)
      BY <1>1
    <2> QED BY <2>1, <1>1, ElementOfSeq DEF GoodSave, Dense
  <1>3. \A n \in {s.next_id_value} \cup {id + 1 : id \in StoredIds(s)} :
          n >= s.next_id_value => n = s.next_id_value
    BY <1>1, <1>2, MaxIdAssumption
  <1>4. s.next_id_value >= s.next_id_value /\ \A id \in StoredIds(s) : s.next_id_value > id
    BY <1>1, <1>2, MaxIdAssumption
  <1> QED BY <1>3, <1>4 DEF RaisedCounter

\* A load gives a good table with the stored rows, ids and counter.
LEMMA RebuildGood ==
  ASSUME NEW s, GoodSave(s)
  PROVE  /\ Good(RebuildLookup(s))
         /\ SavedForm(RebuildLookup(s)) = s
  <1> DEFINE u == RebuildLookup(s)
  <1>1. /\ s = [rows |-> s.rows, row_ids |-> s.row_ids, next_id_value |-> s.next_id_value]
        /\ s.rows \in Seq(Row) /\ s.row_ids \in Seq(1..MaxId) /\ s.next_id_value \in 1..(MaxId + 1)
        /\ Len(s.rows) = Len(s.row_ids) /\ Len(s.rows) \in Nat
    BY DEF GoodSave, SavedShape, Dense
  <1>2. /\ u.rows = s.rows /\ u.row_ids = s.row_ids /\ u.next_id_value = s.next_id_value
        /\ u.row_by_id = [id \in 0..(s.next_id_value - 1) |->
                            IF id \in StoredIds(s)
                            THEN CHOOSE i \in DOMAIN s.row_ids : s.row_ids[i] = id
                            ELSE kNoRow]
        /\ u = [rows |-> u.rows, row_ids |-> u.row_ids, row_by_id |-> u.row_by_id,
                next_id_value |-> u.next_id_value]
    BY CounterKept DEF RebuildLookup
  <1> HIDE DEF u
  <1>3. DOMAIN s.row_ids = 1..Len(s.rows)
    BY <1>1
  <1>4. \A id \in StoredIds(s) :
          /\ (CHOOSE i \in DOMAIN s.row_ids : s.row_ids[i] = id) \in 1..Len(s.rows)
          /\ s.row_ids[CHOOSE i \in DOMAIN s.row_ids : s.row_ids[i] = id] = id
    BY <1>3 DEF StoredIds
  <1>5. u.row_by_id \in [0..(u.next_id_value - 1) -> 0..Len(u.rows)]
    <2> SUFFICES ASSUME NEW id \in 0..(s.next_id_value - 1)
                 PROVE  u.row_by_id[id] \in 0..Len(s.rows)
      BY <1>2
    <2>1. CASE id \in StoredIds(s)
      <3>1. u.row_by_id[id] \in 1..Len(s.rows)
        <4>1. u.row_by_id[id] = CHOOSE i \in DOMAIN s.row_ids : s.row_ids[i] = id
          BY <2>1, <1>2
        <4> QED BY <4>1, <2>1, <1>4
      <3> QED BY <3>1, <1>1
    <2>2. CASE id \notin StoredIds(s)
      BY <2>2, <1>1, <1>2 DEF kNoRow
    <2> QED BY <2>1, <2>2
  <1>6. \A i \in 1..Len(u.rows) :
          u.row_ids[i] < u.next_id_value /\ u.row_by_id[u.row_ids[i]] = i
    <2> SUFFICES ASSUME NEW i \in 1..Len(s.rows)
                 PROVE  s.row_ids[i] < s.next_id_value /\ u.row_by_id[s.row_ids[i]] = i
      BY <1>2
    <2>1. s.row_ids[i] \in StoredIds(s)
      BY <1>3 DEF StoredIds
    <2>2. s.row_ids[i] < s.next_id_value
      BY <1>1 DEF GoodSave, Dense
    <2>3. s.row_ids[i] \in 1..MaxId
      BY <1>1, ElementOfSeq
    <2>4. s.row_ids[i] \in 0..(s.next_id_value - 1)
      BY <2>2, <2>3, <1>1, MaxIdAssumption
    <2>5. \A j \in 1..Len(s.rows) : s.row_ids[j] = s.row_ids[i] => j = i
      BY <1>1 DEF GoodSave, Dense
    <2>6. u.row_by_id[s.row_ids[i]] \in 1..Len(s.rows)
             /\ s.row_ids[u.row_by_id[s.row_ids[i]]] = s.row_ids[i]
      <3>1. u.row_by_id[s.row_ids[i]] = CHOOSE j \in DOMAIN s.row_ids : s.row_ids[j] = s.row_ids[i]
        BY <2>1, <2>4, <1>2
      <3> QED BY <3>1, <2>1, <1>4
    <2> QED BY <2>2, <2>5, <2>6
  <1>7. \A id \in 0..(u.next_id_value - 1) :
          u.row_by_id[id] # kNoRow => u.row_ids[u.row_by_id[id]] = id
    BY <1>2, <1>4
  <1>8. Good(u)
    BY <1>1, <1>2, <1>5, <1>6, <1>7, PartsGood
  <1>9. SavedForm(u) = s
    BY <1>1, <1>2 DEF SavedForm
  <1> QED BY <1>8, <1>9 DEF u

\* Writing a row in place touches nothing the lookup depends on.
LEMMA WriteGood ==
  ASSUME NEW t, Good(t), NEW id, FindRow(t, id) # kNoRow, NEW row \in Row
  PROVE  Good(SetRow(t, id, row))
  <1> DEFINE u == SetRow(t, id, row)
  <1>0. t = [rows |-> t.rows, row_ids |-> t.row_ids, row_by_id |-> t.row_by_id,
             next_id_value |-> t.next_id_value]
    BY DEF Good, Shape
  <1>1. /\ u.rows = [t.rows EXCEPT ![FindRow(t, id)] = row] /\ u.row_ids = t.row_ids
        /\ u.row_by_id = t.row_by_id /\ u.next_id_value = t.next_id_value
        /\ u = [rows |-> u.rows, row_ids |-> u.row_ids, row_by_id |-> u.row_by_id,
                next_id_value |-> u.next_id_value]
    BY <1>0 DEF SetRow
  <1> HIDE DEF u
  <1>2. FindRow(t, id) \in 1..Len(t.rows) /\ t.row_ids # <<>>
    BY GoodParts DEF FindRow, kNoRow
  <1>3. u.rows \in Seq(Row) /\ Len(u.rows) = Len(t.rows)
    BY <1>1, <1>2, GoodParts
  <1>4. u.row_by_id \in [0..(u.next_id_value - 1) -> 0..Len(u.rows)]
    <2>1. PICK n \in 0..(MaxId + 1) : t.row_by_id \in [0..(n - 1) -> 0..Len(t.rows)]
      BY DEF Good, Shape
    <2>2. DOMAIN t.row_by_id = 0..(t.next_id_value - 1)
      BY <1>2, GoodParts
    <2> QED BY <2>1, <2>2, <1>1, <1>3
  <1>5. /\ t.next_id_value \in 1..(MaxId + 1) /\ t.row_ids \in Seq(1..MaxId)
        /\ Len(t.row_ids) = Len(t.rows)
        /\ DOMAIN t.row_by_id = 0..(t.next_id_value - 1)
    BY <1>2, GoodParts
  <1>6. \A i \in 1..Len(u.rows) :
          u.row_ids[i] < u.next_id_value /\ u.row_by_id[u.row_ids[i]] = i
    BY <1>1, <1>3, GoodParts
  <1>7. \A k \in 0..(u.next_id_value - 1) :
          u.row_by_id[k] # kNoRow => u.row_ids[u.row_by_id[k]] = k
    BY <1>1, <1>5, GoodParts
  <1>8. Good(u)
    BY <1>1, <1>3, <1>4, <1>5, <1>6, <1>7, PartsGood
  <1> QED BY <1>8 DEF u

-----------------------------------------------------------------------------
(***************************************************************************)
(* What each operation does to the map a table stands for.                 *)
(***************************************************************************)

\* Live reads the row that bears the id.
LEMMA LiveAt ==
  ASSUME NEW t, Good(t)
  PROVE  /\ DOMAIN Live(t) = StoredIds(t)
         /\ StoredIds(t) = {t.row_ids[i] : i \in 1..Len(t.rows)}
         /\ \A i \in 1..Len(t.rows) : Live(t)[t.row_ids[i]] = t.rows[i]
         /\ \A id : FindRow(t, id) # kNoRow <=> id \in StoredIds(t)
  <1>1. DOMAIN t.row_ids = 1..Len(t.rows)
    BY GoodParts
  <1>2. StoredIds(t) = {t.row_ids[i] : i \in 1..Len(t.rows)}
    BY <1>1 DEF StoredIds
  <1>3. \A i \in 1..Len(t.rows) : FindRow(t, t.row_ids[i]) = i
    BY GoodParts DEF FindRow
  <1>4. \A id : FindRow(t, id) # kNoRow => id \in StoredIds(t)
    BY <1>2, GoodParts DEF FindRow, kNoRow
  <1>5. \A id : id \in StoredIds(t) => FindRow(t, id) # kNoRow
    BY <1>2, <1>3 DEF kNoRow
  <1> QED BY <1>2, <1>3, <1>4, <1>5 DEF Live, RowOf

\* Two good tables with the same id-to-row pairs are the same map.
LEMMA SameLive ==
  ASSUME NEW t, Good(t), NEW f,
         f = [id \in DOMAIN f |-> f[id]],
         DOMAIN f = StoredIds(t),
         \A i \in 1..Len(t.rows) : f[t.row_ids[i]] = t.rows[i]
  PROVE  Live(t) = f
  <1>1. \A id \in StoredIds(t) : Live(t)[id] = f[id]
    BY LiveAt
  <1> QED BY <1>1 DEF Live

\* To add a row is to give the next id its value (AppendRow).
LEMMA AppendLive ==
  ASSUME NEW t, Good(t), NEW row \in Row, t.next_id_value <= MaxId
  PROVE  Live(AppendRow(t, row)) =
           [id \in StoredIds(t) \cup {t.next_id_value} |->
              IF id = t.next_id_value THEN row ELSE Live(t)[id]]
  <1> DEFINE u == AppendRow(t, row)
             f == [id \in StoredIds(t) \cup {t.next_id_value} |->
                     IF id = t.next_id_value THEN row ELSE Live(t)[id]]
  <1>1. u.rows = Append(t.rows, row) /\ u.row_ids = Append(t.row_ids, t.next_id_value)
    BY DEF AppendRow, AppendWithId
  <1>2. Good(u)
    BY AppendGood
  <1> HIDE DEF u
  <1>3. /\ Len(t.rows) \in Nat /\ Len(t.row_ids) = Len(t.rows)
        /\ t.rows \in Seq(Row) /\ t.row_ids \in Seq(1..MaxId)
        /\ t.next_id_value \in Nat
    BY GoodParts, MaxIdAssumption
  <1>4. /\ Len(u.rows) = Len(t.rows) + 1
        /\ u.rows[Len(t.rows) + 1] = row /\ u.row_ids[Len(t.rows) + 1] = t.next_id_value
        /\ \A i \in 1..Len(t.rows) : u.rows[i] = t.rows[i] /\ u.row_ids[i] = t.row_ids[i]
    BY <1>1, <1>3
  <1>5. StoredIds(u) = StoredIds(t) \cup {t.next_id_value}
    <2>1. StoredIds(u) = {u.row_ids[i] : i \in 1..(Len(t.rows) + 1)}
      BY <1>2, <1>4, LiveAt
    <2>2. StoredIds(t) = {t.row_ids[i] : i \in 1..Len(t.rows)}
      BY LiveAt
    <2>3. ASSUME NEW id \in StoredIds(u) PROVE id \in StoredIds(t) \cup {t.next_id_value}
      BY <2>1, <2>2, <1>3, <1>4, SMTT(30)
    <2>4. ASSUME NEW id \in StoredIds(t) PROVE id \in StoredIds(u)
      BY <2>1, <2>2, <1>3, <1>4, SMTT(30)
    <2>5. t.next_id_value \in StoredIds(u)
      BY <2>1, <1>3, <1>4
    <2> QED BY <2>3, <2>4, <2>5
  <1>6. \A i \in 1..Len(u.rows) : f[u.row_ids[i]] = u.rows[i]
    <2> SUFFICES ASSUME NEW i \in 1..(Len(t.rows) + 1) PROVE f[u.row_ids[i]] = u.rows[i]
      BY <1>4
    <2>1. CASE i = Len(t.rows) + 1
      BY <2>1, <1>4
    <2>2. CASE i \in 1..Len(t.rows)
      <3>1. t.row_ids[i] \in StoredIds(t) /\ t.row_ids[i] # t.next_id_value
        BY <2>2, <1>3, LiveAt, GoodParts, SMTT(30)
      <3>2. Live(t)[t.row_ids[i]] = t.rows[i]
        BY <2>2, LiveAt
      <3> QED BY <2>2, <3>1, <3>2, <1>4
    <2> QED BY <2>1, <2>2, <1>3
  <1>7. Live(u) = f
    <2> HIDE DEF f
    <2>1. f = [id \in DOMAIN f |-> f[id]] /\ DOMAIN f = StoredIds(t) \cup {t.next_id_value}
      BY DEF f
    <2> QED BY <2>1, <1>2, <1>5, <1>6, SameLive
  <1> QED BY <1>7 DEF u

\* To remove one, last or not, takes its id away and no other (RemoveRow).
LEMMA RemoveLive ==
  ASSUME NEW t, Good(t), NEW id, FindRow(t, id) # kNoRow
  PROVE  Live(RemoveRow(t, id)) = [k \in StoredIds(t) \ {id} |-> Live(t)[k]]
  <1> DEFINE u    == RemoveRow(t, id)
             f    == [k \in StoredIds(t) \ {id} |-> Live(t)[k]]
             row  == FindRow(t, id)
             last == Len(t.rows)
  <1>1. u.rows = LastInto(t.rows, row) /\ u.row_ids = LastInto(t.row_ids, row)
    BY DEF RemoveRow
  <1>2. Good(u)
    BY RemoveGood
  <1>3. row \in 1..last /\ t.row_ids[row] = id /\ last \in Nat /\ Len(t.row_ids) = last
    BY GoodParts DEF FindRow, kNoRow
  <1>4. \A i, j \in 1..last : t.row_ids[i] = t.row_ids[j] => i = j
    BY GoodParts
  <1>5. /\ StoredIds(t) = {t.row_ids[i] : i \in 1..last}
        /\ \A i \in 1..last : Live(t)[t.row_ids[i]] = t.rows[i]
    BY LiveAt
  <1> HIDE DEF u, row, last
  <1>6. /\ Len(u.rows) = last - 1
        /\ \A i \in 1..(last - 1) :
             /\ u.rows[i] = IF i = row THEN t.rows[last] ELSE t.rows[i]
             /\ u.row_ids[i] = IF i = row THEN t.row_ids[last] ELSE t.row_ids[i]
    BY <1>1, <1>3 DEF LastInto, last
  <1>7. StoredIds(u) = {u.row_ids[i] : i \in 1..(last - 1)}
    BY <1>2, <1>6, LiveAt
  <1>8. ASSUME NEW i \in 1..(last - 1)
        PROVE  u.row_ids[i] \in StoredIds(t) \ {id} /\ f[u.row_ids[i]] = u.rows[i]
    <2>1. CASE i = row
      <3>1. t.row_ids[last] # id
        BY <2>1, <1>3, <1>4
      <3> QED BY <2>1, <3>1, <1>3, <1>5, <1>6
    <2>2. CASE i # row
      <3>1. t.row_ids[i] # id
        BY <2>2, <1>3, <1>4
      <3> QED BY <2>2, <3>1, <1>3, <1>5, <1>6
    <2> QED BY <2>1, <2>2
  <1>9. ASSUME NEW k \in StoredIds(t) \ {id} PROVE k \in StoredIds(u)
    <2>1. PICK i \in 1..last : t.row_ids[i] = k
      BY <1>5
    <2>2. i # row
      BY <2>1, <1>3
    <2>3. CASE i = last
      <3>1. row \in 1..(last - 1)
        BY <2>2, <2>3, <1>3
      <3> QED BY <3>1, <2>1, <2>3, <1>6, <1>7
    <2>4. CASE i # last
      <3>1. i \in 1..(last - 1)
        BY <2>4, <1>3
      <3> QED BY <3>1, <2>1, <2>2, <1>6, <1>7
    <2> QED BY <2>3, <2>4
  <1>10. StoredIds(u) = StoredIds(t) \ {id}
    BY <1>7, <1>8, <1>9
  <1>11. Live(u) = f
    <2>1. \A i \in 1..Len(u.rows) : f[u.row_ids[i]] = u.rows[i]
      BY <1>6, <1>8
    <2> HIDE DEF f
    <2>2. f = [k \in DOMAIN f |-> f[k]] /\ DOMAIN f = StoredIds(t) \ {id}
      BY DEF f
    <2> QED BY <2>1, <2>2, <1>2, <1>10, SameLive
  <1> QED BY <1>11 DEF u

\* To write through an id changes the value of that id alone.
LEMMA WriteLive ==
  ASSUME NEW t, Good(t), NEW id, FindRow(t, id) # kNoRow, NEW row \in Row
  PROVE  Live(SetRow(t, id, row)) = [Live(t) EXCEPT ![id] = row]
  <1> DEFINE u == SetRow(t, id, row)
             f == [Live(t) EXCEPT ![id] = row]
  <1>1. u.rows = [t.rows EXCEPT ![FindRow(t, id)] = row] /\ u.row_ids = t.row_ids
    BY DEF SetRow, Good, Shape
  <1>2. Good(u)
    BY WriteGood
  <1> HIDE DEF u
  <1>3. /\ FindRow(t, id) \in 1..Len(t.rows) /\ t.row_ids[FindRow(t, id)] = id
        /\ t.rows \in Seq(Row)
    BY GoodParts DEF FindRow, kNoRow
  <1>4. /\ Len(u.rows) = Len(t.rows)
        /\ \A i \in 1..Len(t.rows) :
             u.rows[i] = IF i = FindRow(t, id) THEN row ELSE t.rows[i]
    BY <1>1, <1>3
  <1>5. StoredIds(u) = StoredIds(t)
    BY <1>1 DEF StoredIds
  <1>6. \A i \in 1..Len(u.rows) : f[u.row_ids[i]] = u.rows[i]
    <2> SUFFICES ASSUME NEW i \in 1..Len(t.rows) PROVE f[t.row_ids[i]] = u.rows[i]
      BY <1>1, <1>4
    <2>1. t.row_ids[i] \in DOMAIN Live(t) /\ Live(t)[t.row_ids[i]] = t.rows[i]
      BY LiveAt
    <2>2. t.row_ids[i] = id <=> i = FindRow(t, id)
      BY <1>3, GoodParts
    <2> QED BY <2>1, <2>2, <1>4
  <1>7. Live(u) = f
    <2> HIDE DEF f
    <2>1. f = [k \in DOMAIN f |-> f[k]] /\ DOMAIN f = StoredIds(t)
      BY LiveAt DEF f
    <2> QED BY <2>1, <1>2, <1>5, <1>6, SameLive
  <1> QED BY <1>7 DEF u

\* Live depends on the arrays alone: a table saved and loaded is the map it was.
LEMMA ReloadLive ==
  ASSUME NEW t, Good(t), NEW u, Good(u), SavedForm(u) = SavedForm(t)
  PROVE  Live(u) = Live(t) /\ \A id : FindRow(u, id) = FindRow(t, id)
  <1>1. u.rows = t.rows /\ u.row_ids = t.row_ids
    BY DEF SavedForm
  <1>2. Live(u) = Live(t)
    <2>1. Live(t) = [k \in DOMAIN Live(t) |-> Live(t)[k]]
      BY DEF Live
    <2>2. DOMAIN Live(t) = StoredIds(u)
      <3>1. StoredIds(u) = StoredIds(t)
        BY <1>1 DEF StoredIds
      <3> QED BY <3>1 DEF Live
    <2>3. \A i \in 1..Len(u.rows) : Live(t)[u.row_ids[i]] = u.rows[i]
      BY <1>1, LiveAt
    <2> QED BY <2>1, <2>2, <2>3, SameLive
  <1>3. ASSUME NEW id PROVE FindRow(u, id) = FindRow(t, id)
    <2>1. CASE id \in StoredIds(t)
      <3>1. PICK i \in 1..Len(t.rows) : t.row_ids[i] = id
        BY <2>1, LiveAt
      <3>2. FindRow(t, id) = i
        BY <3>1, GoodParts DEF FindRow
      <3>3. FindRow(u, id) = i
        BY <3>1, <1>1, GoodParts DEF FindRow
      <3> QED BY <3>2, <3>3
    <2>2. CASE id \notin StoredIds(t)
      <3>1. StoredIds(u) = StoredIds(t)
        BY <1>1 DEF StoredIds
      <3> QED BY <2>2, <3>1, LiveAt
    <2> QED BY <2>1, <2>2
  <1> QED BY <1>2, <1>3

-----------------------------------------------------------------------------
\* Every operation of the table, and a save, keeps both tables good.
LEMMA Inductive == Spec => []IInv
  <1>1. Init => IInv
    BY EmptyGood DEF Init, IInv
  <1>2. IInv /\ [Next]_vars => IInv'
    <2> SUFFICES ASSUME IInv, [Next]_vars PROVE IInv'
      OBVIOUS
    <2>1. ASSUME NEW row \in Row, Add(row) PROVE IInv'
      BY <2>1, AppendGood DEF IInv, Add, GoodSave
    <2>2. ASSUME NEW id \in 0..MaxId, Drop(id) PROVE IInv'
      <3>1. CASE FindRow(table, id) = kNoRow
        BY <2>2, <3>1 DEF IInv, Drop, RemoveRow, GoodSave
      <3>2. CASE FindRow(table, id) # kNoRow
        BY <2>2, <3>2, RemoveGood DEF IInv, Drop, GoodSave
      <3> QED BY <3>1, <3>2
    <2>3. ASSUME NEW id \in 0..MaxId, NEW row \in Row, Write(id, row) PROVE IInv'
      BY <2>3, WriteGood DEF IInv, Write, GoodSave
    <2>4. CASE Save
      BY <2>4 DEF IInv, Save, SavedForm, Good, GoodSave, Shape, SavedShape, Dense
    <2>5. CASE Load
      BY <2>5, RebuildGood DEF IInv, Load
    <2>6. CASE UNCHANGED vars
      BY <2>6 DEF vars, IInv
    <2> QED BY <2>1, <2>2, <2>3, <2>4, <2>5, <2>6 DEF Next
  <1> QED BY <1>1, <1>2, PTL DEF Spec

\* The struct keeps its shape: its lookup never leads past the last row.
THEOREM TypeCorrect == Spec => []TypeOK
  <1>1. IInv => TypeOK
    BY DEF IInv, Good, GoodSave, TypeOK
  <1> QED BY <1>1, Inductive, PTL

\* The lookup is the inverse of the dense arrays whatever was removed, moved
\* or loaded: a stale id finds nobody.
THEOREM LookupCorrect == Spec => []LookupAgrees
  <1>1. IInv => LookupAgrees
    BY DEF IInv, Good, GoodSave, LookupAgrees
  <1> QED BY <1>1, Inductive, PTL

\* What is saved of a sound table is a sound save.
LEMMA SaveOfGood ==
  ASSUME NEW t, Good(t)
  PROVE  GoodSave(SavedForm(t))
  BY DEF Good, GoodSave, SavedForm, Shape, SavedShape, Dense

\* A save loaded at once is the table it was taken of, counter included.
THEOREM RoundTripHolds == Spec => []RoundTrip
  <1>1. IInv => RoundTrip
    <2> SUFFICES ASSUME IInv PROVE RoundTrip
      OBVIOUS
    <2>1. GoodSave(SavedForm(table))
      BY SaveOfGood DEF IInv
    <2>2. /\ Good(RebuildLookup(SavedForm(table)))
          /\ SavedForm(RebuildLookup(SavedForm(table))) = SavedForm(table)
      BY <2>1, RebuildGood
    <2> QED BY <2>2, ReloadLive DEF RoundTrip, IInv
  <1> QED BY <1>1, Inductive, PTL

\* The table, with its moving rows, implements a map from ids to entities.
THEOREM Refinement == Spec => ImplementsEntityMap
  <1>1. Init => Map!Init
    <2> SUFFICES ASSUME Init PROVE Map!Init
      OBVIOUS
    <2>1. Live(EmptyTable) = [id \in {} |-> 0]
      <3>1. StoredIds(EmptyTable) = {}
        BY DEF StoredIds, EmptyTable
      <3> QED BY <3>1 DEF Live
    <2>2. Live(RebuildLookup(SavedForm(EmptyTable))) = Live(EmptyTable)
      BY EmptyGood, RebuildGood, ReloadLive
    <2> QED BY <2>1, <2>2 DEF Init, Map!Init, EmptyTable, SavedForm
  <1>2. IInv /\ IInv' /\ [Next]_vars => [Map!Next]_(Map!vars)
    <2> SUFFICES ASSUME IInv, IInv', [Next]_vars PROVE [Map!Next]_(Map!vars)
      OBVIOUS
    <2>0. Good(table) /\ GoodSave(saved) /\ DOMAIN Live(table) = StoredIds(table)
      BY DEF IInv, Live
    <2>1. ASSUME NEW row \in Row, Add(row) PROVE Map!Add(row)
      <3>1. table.next_id_value <= MaxId /\ table' = AppendRow(table, row) /\ saved' = saved
        BY <2>1 DEF Add
      <3>2. Live(AppendRow(table, row)) =
              [id \in DOMAIN Live(table) \cup {table.next_id_value} |->
                 IF id = table.next_id_value THEN row ELSE Live(table)[id]]
        BY <2>0, <3>1, AppendLive
      <3>3. table'.next_id_value = table.next_id_value + 1
        BY <3>1 DEF AppendRow, AppendWithId
      <3> QED BY <3>1, <3>2, <3>3 DEF Map!Add
    <2>2. ASSUME NEW id \in 0..MaxId, Drop(id) PROVE [Map!Next]_(Map!vars)
      <3>1. CASE FindRow(table, id) = kNoRow
        BY <2>2, <3>1 DEF Drop, RemoveRow, Map!vars
      <3>2. CASE FindRow(table, id) # kNoRow
        <4>1. table' = RemoveRow(table, id) /\ saved' = saved
          BY <2>2 DEF Drop
        <4>2. id \in DOMAIN Live(table)
          BY <2>0, <3>2, LiveAt
        <4>3. Live(RemoveRow(table, id)) = [k \in DOMAIN Live(table) \ {id} |-> Live(table)[k]]
          BY <2>0, <3>2, RemoveLive
        <4>4. table'.next_id_value = table.next_id_value
          BY <4>1, <3>2 DEF RemoveRow
        <4>5. Map!Drop(id)
          BY <4>1, <4>2, <4>3, <4>4 DEF Map!Drop
        <4> QED BY <4>2, <4>5 DEF Map!Next
      <3> QED BY <3>1, <3>2
    <2>3. ASSUME NEW id \in 0..MaxId, NEW row \in Row, Write(id, row) PROVE Map!Next
      <3>1. FindRow(table, id) # kNoRow /\ table' = SetRow(table, id, row) /\ saved' = saved
        BY <2>3 DEF Write
      <3>2. id \in DOMAIN Live(table)
        BY <2>0, <3>1, LiveAt
      <3>3. Live(SetRow(table, id, row)) = [Live(table) EXCEPT ![id] = row]
        BY <2>0, <3>1, WriteLive
      <3>4. table'.next_id_value = table.next_id_value
        BY <2>0, <3>1 DEF SetRow, Good, Shape
      <3>5. Map!Write(id, row)
        BY <3>1, <3>2, <3>3, <3>4 DEF Map!Write
      <3> QED BY <3>2, <3>5 DEF Map!Next
    <2>4. CASE Save
      <3>1. saved' = SavedForm(table) /\ table' = table
        BY <2>4 DEF Save
      <3>2. Live(RebuildLookup(SavedForm(table))) = Live(table)
        BY <2>0, SaveOfGood, RebuildGood, ReloadLive
      <3>3. SavedForm(table).next_id_value = table.next_id_value
        BY DEF SavedForm
      <3>4. Map!Keep
        BY <3>1, <3>2, <3>3 DEF Map!Keep
      <3> QED BY <3>4 DEF Map!Next
    <2>5. CASE Load
      <3>1. table' = RebuildLookup(saved) /\ saved' = saved
        BY <2>5 DEF Load
      <3>2. RebuildLookup(saved).next_id_value = saved.next_id_value
        BY <2>0, CounterKept DEF RebuildLookup
      <3>3. Map!Restore
        BY <3>1, <3>2 DEF Map!Restore
      <3> QED BY <3>3 DEF Map!Next
    <2>6. CASE UNCHANGED vars
      BY <2>6 DEF vars, Map!vars
    <2> QED BY <2>1, <2>2, <2>3, <2>4, <2>5, <2>6 DEF Next, Map!Next
  <1> QED BY <1>1, <1>2, Inductive, PTL DEF Spec, Map!Spec, ImplementsEntityMap

-----------------------------------------------------------------------------
(* A table whose rows are orders: the batch into the book, the sweep out.  *)

\* A good book's rows, ids, lookup and map, in the forms the proofs use.
LEMMA BookParts ==
  ASSUME NEW b, Good(b)
  PROVE  /\ b.next_id_value \in 1..(MaxId + 1)
         /\ b.rows \in Seq(Row) /\ b.row_ids \in Seq(1..MaxId)
         /\ Len(b.rows) \in Nat /\ Len(b.row_ids) = Len(b.rows)
         /\ DOMAIN b.rows = 1..Len(b.rows) /\ DOMAIN b.row_ids = 1..Len(b.rows)
         /\ \A r \in 1..Len(b.rows) :
              /\ b.rows[r] \in Row
              /\ b.row_ids[r] \in 1..MaxId /\ b.row_ids[r] < b.next_id_value
              /\ FindRow(b, b.row_ids[r]) = r
              /\ b.row_ids[r] \in StoredIds(b) /\ Live(b)[b.row_ids[r]] = b.rows[r]
         /\ \A r, q \in 1..Len(b.rows) : b.row_ids[r] = b.row_ids[q] => r = q
         /\ \A id : FindRow(b, id) # kNoRow <=> id \in StoredIds(b)
         /\ \A id \in StoredIds(b) :
              /\ FindRow(b, id) \in 1..Len(b.rows) /\ b.row_ids[FindRow(b, id)] = id
              /\ Live(b)[id] = b.rows[FindRow(b, id)]
              /\ id \in 1..MaxId /\ id < b.next_id_value
<1>1. /\ b.next_id_value \in 1..(MaxId + 1)
      /\ b.rows \in Seq(Row) /\ b.row_ids \in Seq(1..MaxId)
      /\ Len(b.rows) \in Nat /\ Len(b.row_ids) = Len(b.rows)
      /\ \A r \in 1..Len(b.rows) :
              /\ b.row_ids[r] \in 1..MaxId /\ b.row_ids[r] < b.next_id_value
              /\ b.row_ids[r] \in DOMAIN b.row_by_id /\ b.row_by_id[b.row_ids[r]] = r
      /\ \A r, q \in 1..Len(b.rows) : b.row_ids[r] = b.row_ids[q] => r = q
  BY GoodParts
<1>2. DOMAIN b.rows = 1..Len(b.rows) /\ DOMAIN b.row_ids = 1..Len(b.rows)
  BY <1>1
<1>3. \A r \in 1..Len(b.rows) : b.rows[r] \in Row
  BY <1>1, ElementOfSeq
<1>4. \A r \in 1..Len(b.rows) : FindRow(b, b.row_ids[r]) = r
  BY <1>1 DEF FindRow
<1>5. StoredIds(b) = {b.row_ids[r] : r \in 1..Len(b.rows)}
  BY <1>2 DEF StoredIds
<1>6. \A id : FindRow(b, id) # kNoRow <=> id \in StoredIds(b)
  BY LiveAt
<1>7. \A r \in 1..Len(b.rows) : Live(b)[b.row_ids[r]] = b.rows[r]
  BY <1>4, <1>5 DEF Live, RowOf
<1>8. \A id \in StoredIds(b) :
              /\ FindRow(b, id) \in 1..Len(b.rows) /\ b.row_ids[FindRow(b, id)] = id
              /\ Live(b)[id] = b.rows[FindRow(b, id)]
              /\ id \in 1..MaxId /\ id < b.next_id_value
  BY <1>1, <1>4, <1>5, <1>7
<1>9. \A r \in 1..Len(b.rows) : b.row_ids[r] \in StoredIds(b)
  BY <1>5
<1> QED BY <1>1, <1>2, <1>3, <1>4, <1>6, <1>7, <1>8, <1>9

\* AppendRow gives the row the counter's id, and nothing else changes.
LEMMA AppendBook ==
  ASSUME NEW b, Good(b), NEW row \in Row, b.next_id_value <= MaxId
  PROVE  /\ Good(AppendRow(b, row))
         /\ AppendRow(b, row).next_id_value = b.next_id_value + 1
         /\ AppendRow(b, row).row_ids = Append(b.row_ids, b.next_id_value)
         /\ Live(AppendRow(b, row)) =
              [id \in StoredIds(b) \cup {b.next_id_value} |->
                 IF id = b.next_id_value THEN row ELSE Live(b)[id]]
<1>1. /\ AppendRow(b, row).next_id_value = b.next_id_value + 1
      /\ AppendRow(b, row).row_ids = Append(b.row_ids, b.next_id_value)
  BY DEF AppendRow, AppendWithId
<1> QED BY <1>1, AppendGood, AppendLive

\* RemoveRow takes that id out of the map, whichever row it moves.
LEMMA RemoveBook ==
  ASSUME NEW b, Good(b), NEW id
  PROVE  /\ Good(RemoveRow(b, id))
         /\ RemoveRow(b, id).next_id_value = b.next_id_value
         /\ Live(RemoveRow(b, id)) = [k \in StoredIds(b) \ {id} |-> Live(b)[k]]
<1>1. CASE FindRow(b, id) = kNoRow
  <2>1. RemoveRow(b, id) = b
    BY <1>1 DEF RemoveRow
  <2>2. StoredIds(b) \ {id} = StoredIds(b)
    BY <1>1, BookParts
  <2>3. Live(b) = [k \in StoredIds(b) |-> Live(b)[k]]
    BY DEF Live
  <2> QED BY <2>1, <2>2, <2>3
<1>2. CASE FindRow(b, id) # kNoRow
  <2>1. RemoveRow(b, id).next_id_value = b.next_id_value
    BY <1>2 DEF RemoveRow
  <2> QED BY <1>2, <2>1, RemoveGood, RemoveLive
<1> QED BY <1>1, <1>2

\* Rows rewritten in place, each where it stands.
LEMMA RowsBook ==
  ASSUME NEW b, Good(b), NEW rows \in Seq(Row), Len(rows) = Len(b.rows)
  PROVE  LET c == [b EXCEPT !.rows = rows] IN
         /\ Good(c)
         /\ c.rows = rows /\ c.row_ids = b.row_ids /\ c.next_id_value = b.next_id_value
         /\ StoredIds(c) = StoredIds(b)
         /\ \A id : FindRow(c, id) = FindRow(b, id)
         /\ Live(c) = [id \in StoredIds(b) |-> rows[FindRow(b, id)]]
<1> DEFINE c == [b EXCEPT !.rows = rows]
<1>1. b = [rows |-> b.rows, row_ids |-> b.row_ids, row_by_id |-> b.row_by_id,
           next_id_value |-> b.next_id_value]
  BY DEF Good, Shape
<1>2. /\ c.rows = rows /\ c.row_ids = b.row_ids /\ c.row_by_id = b.row_by_id
      /\ c.next_id_value = b.next_id_value
      /\ c = [rows |-> c.rows, row_ids |-> c.row_ids, row_by_id |-> c.row_by_id,
              next_id_value |-> c.next_id_value]
  BY <1>1
<1> HIDE DEF c
<1>3. \A id : FindRow(c, id) = FindRow(b, id)
  BY <1>2 DEF FindRow
<1>4. Shape(c)
  BY <1>2 DEF Good, Shape
<1>5. Dense(c) /\ Indexed(c)
  BY <1>2, <1>3 DEF Good, Dense, Indexed
<1>6. StoredIds(c) = StoredIds(b)
  BY <1>2 DEF StoredIds
<1>7. Live(c) = [id \in StoredIds(b) |-> rows[FindRow(b, id)]]
  BY <1>2, <1>3, <1>6 DEF Live, RowOf
<1>8. Good(c)
  BY <1>4, <1>5 DEF Good
<1> QED BY <1>2, <1>3, <1>6, <1>7, <1>8 DEF c

\* The row as a withdrawal of it leaves it.
Withdrawn(row) ==
  IF row.status \in Cancellable THEN [row EXCEPT !.status = kCancelled] ELSE row

\* The rows are orders: withdrawn or judged they are still such rows.
OrderRows ==
  \A row \in Row :
    /\ "status" \in DOMAIN row /\ row.status \in OrderStatus
    /\ Withdrawn(row) \in Row /\ Judged(row) \in Row

\* MarkCancelled rewrites the row of that id, if it stands and may be withdrawn.
LEMMA MarkBook ==
  ASSUME OrderRows, NEW b, Good(b), NEW id
  PROVE  /\ Good(MarkCancelled(b, id))
         /\ MarkCancelled(b, id).row_ids = b.row_ids
         /\ MarkCancelled(b, id).next_id_value = b.next_id_value
         /\ Live(MarkCancelled(b, id)) =
              [k \in StoredIds(b) |-> IF k = id THEN Withdrawn(Live(b)[k]) ELSE Live(b)[k]]
<1> DEFINE row == FindRow(b, id)
<1>1. CASE row # kNoRow /\ b.rows[row].status \in Cancellable
  <2> DEFINE new == Withdrawn(b.rows[row])
             rows == [b.rows EXCEPT ![row] = new]
  <2>1. id \in StoredIds(b) /\ row \in 1..Len(b.rows) /\ b.rows[row] \in Row
    BY <1>1, BookParts
  <2>2. new \in Row /\ new = [b.rows[row] EXCEPT !.status = kCancelled]
    BY <1>1, <2>1 DEF Withdrawn, OrderRows
  <2>3. MarkCancelled(b, id) = [b EXCEPT !.rows = rows]
    BY <1>1, <2>2 DEF MarkCancelled
  <2> HIDE DEF new
  <2>4. /\ rows \in Seq(Row) /\ Len(rows) = Len(b.rows)
        /\ \A r \in 1..Len(b.rows) : rows[r] = IF r = row THEN new ELSE b.rows[r]
    BY <2>1, <2>2, BookParts
  <2> HIDE DEF rows, row
  <2>5. /\ Good(MarkCancelled(b, id)) /\ MarkCancelled(b, id).row_ids = b.row_ids
        /\ MarkCancelled(b, id).next_id_value = b.next_id_value
        /\ Live(MarkCancelled(b, id)) = [k \in StoredIds(b) |-> rows[FindRow(b, k)]]
    BY <2>3, <2>4, RowsBook
  <2>6. ASSUME NEW k \in StoredIds(b)
        PROVE  rows[FindRow(b, k)] = IF k = id THEN Withdrawn(Live(b)[k]) ELSE Live(b)[k]
    <3>1. FindRow(b, k) \in 1..Len(b.rows) /\ Live(b)[k] = b.rows[FindRow(b, k)]
      BY BookParts
    <3>2. FindRow(b, k) = row <=> k = id
      BY <2>1, BookParts DEF row
    <3>3. new = Withdrawn(b.rows[row])
      BY DEF new
    <3> QED BY <2>4, <3>1, <3>2, <3>3
  <2> QED BY <2>5, <2>6
<1>2. CASE ~(row # kNoRow /\ b.rows[row].status \in Cancellable)
  <2>1. MarkCancelled(b, id) = b
    BY <1>2 DEF MarkCancelled
  <2>2. \A k \in StoredIds(b) : k = id => Withdrawn(Live(b)[k]) = Live(b)[k]
    BY <1>2, BookParts DEF Withdrawn
  <2>3. Live(b) = [k \in StoredIds(b) |-> Live(b)[k]]
    BY DEF Live
  <2> QED BY <2>1, <2>2, <2>3
<1> QED BY <1>1, <1>2

\* The folds of this module.
Issues == INSTANCE FoldProofs WITH Op <- AppendRow
Marks == INSTANCE FoldProofs WITH Op <- MarkCancelled
Removals == INSTANCE FoldProofs WITH Op <- RemoveRow
Collects == INSTANCE FoldProofs WITH Op <- Collected

\* One fold, two names: as SequencesExt and as FoldProofs give it.
LEMMA SameFolds ==
  ASSUME NEW base, NEW seq
  PROVE  /\ Issues!FoldLeft(AppendRow, base, seq) = FoldLeft(AppendRow, base, seq)
         /\ Marks!FoldLeft(MarkCancelled, base, seq) = FoldLeft(MarkCancelled, base, seq)
         /\ Removals!FoldLeft(RemoveRow, base, seq) = FoldLeft(RemoveRow, base, seq)
         /\ Collects!FoldLeft(Collected, base, seq) = FoldLeft(Collected, base, seq)
<1>1. Issues!FoldLeft(AppendRow, base, seq) = FoldLeft(AppendRow, base, seq)
  BY DEF FoldLeft, Issues!FoldLeft, MapThenFoldSet, Issues!MapThenFoldSet, Max, Issues!Max
<1>2. Marks!FoldLeft(MarkCancelled, base, seq) = FoldLeft(MarkCancelled, base, seq)
  BY DEF FoldLeft, Marks!FoldLeft, MapThenFoldSet, Marks!MapThenFoldSet, Max, Marks!Max
<1>3. Removals!FoldLeft(RemoveRow, base, seq) = FoldLeft(RemoveRow, base, seq)
  BY DEF FoldLeft, Removals!FoldLeft, MapThenFoldSet, Removals!MapThenFoldSet, Max, Removals!Max
<1>4. Collects!FoldLeft(Collected, base, seq) = FoldLeft(Collected, base, seq)
  BY DEF FoldLeft, Collects!FoldLeft, MapThenFoldSet, Collects!MapThenFoldSet, Max, Collects!Max
<1> QED BY <1>1, <1>2, <1>3, <1>4

\* The book after the first k issues of a batch.
IssuedTo(b, s, k, c) ==
  /\ Good(c) /\ Len(c.rows) = Len(b.rows) + k
  /\ \A r \in 1..Len(b.rows) : c.row_ids[r] = b.row_ids[r]
  /\ \A r \in 1..k : c.row_ids[Len(b.rows) + r] = b.next_id_value + r - 1
  /\ c.next_id_value = b.next_id_value + k
  /\ Live(c) = [id \in StoredIds(b) \cup (b.next_id_value .. (b.next_id_value + k - 1)) |->
                  IF id \in StoredIds(b) THEN Live(b)[id] ELSE s[id - b.next_id_value + 1]]

\* The stored ids are the map's.
LEMMA StoredIs == ASSUME NEW b PROVE StoredIds(b) = DOMAIN Live(b)
  BY DEF Live

\* Appending the issues of a batch gives them the ids from the counter on.
LEMMA IssuesBook ==
  ASSUME NEW b, Good(b), NEW s \in Seq(Row),
         b.next_id_value + Len(s) <= MaxId + 1
  PROVE  IssuedTo(b, s, Len(s), FoldLeft(AppendRow, b, s))
<1> DEFINE n == Len(s)
<1>1. n \in Nat /\ DOMAIN s = 1..n /\ \A k \in 1..n : s[k] \in Row
  BY ElementOfSeq
<1>2. b.next_id_value \in Nat /\ b.next_id_value + n <= MaxId + 1
  BY BookParts
<1> HIDE DEF n
<1>3. PICK g : Issues!IsSteps(g, n, b, s) /\ FoldLeft(AppendRow, b, s) = g[n]
  BY <1>1, Issues!FoldSteps, SameFolds
<1> DEFINE D == {k \in Nat : k <= n => IssuedTo(b, s, k, g[k])}
<1>4. 0 \in D
  <2>1. g[0] = b
    BY <1>1, <1>3 DEF Issues!IsSteps
  <2>2. StoredIds(b) \cup (b.next_id_value .. (b.next_id_value + 0 - 1)) = StoredIds(b)
    BY <1>2
  <2>3. Live(b) = [id \in StoredIds(b) |-> Live(b)[id]]
    BY DEF Live
  <2>4. IssuedTo(b, s, 0, b)
    BY <1>2, <2>2, <2>3, BookParts DEF IssuedTo
  <2> QED BY <2>1, <2>4
<1>5. ASSUME NEW k \in Nat, k \in D
      PROVE  k + 1 \in D
  <2> SUFFICES ASSUME k + 1 <= n PROVE IssuedTo(b, s, k + 1, g[k + 1])
    OBVIOUS
  <2>1. k + 1 \in 0..n /\ k + 1 \in 1..n /\ k + 1 # 0 /\ (k + 1) - 1 = k /\ k <= n
    BY <1>1
  <2>2. g[k + 1] = AppendRow(g[k], s[k + 1])
    BY <1>3, <2>1 DEF Issues!IsSteps
  <2> DEFINE c == g[k]
             next == b.next_id_value
  <2>3. IssuedTo(b, s, k, c)
    BY <1>5, <2>1
  <2>4. c.next_id_value = next + k /\ c.next_id_value <= MaxId /\ next \in Nat
    BY <1>1, <1>2, <2>1, <2>3, MaxIdAssumption DEF IssuedTo
  <2> HIDE DEF c, next
  <2>5. /\ Good(AppendRow(c, s[k + 1]))
        /\ AppendRow(c, s[k + 1]).next_id_value = next + k + 1
        /\ AppendRow(c, s[k + 1]).row_ids = Append(c.row_ids, next + k)
        /\ Live(AppendRow(c, s[k + 1])) =
              [id \in StoredIds(c) \cup {next + k} |->
                 IF id = next + k THEN s[k + 1] ELSE Live(c)[id]]
    <3>1. Good(c) /\ s[k + 1] \in Row
      BY <1>1, <2>1, <2>3 DEF IssuedTo
    <3> HIDE DEF D
    <3>2. /\ Good(AppendRow(c, s[k + 1]))
          /\ AppendRow(c, s[k + 1]).next_id_value = c.next_id_value + 1
          /\ AppendRow(c, s[k + 1]).row_ids = Append(c.row_ids, c.next_id_value)
          /\ Live(AppendRow(c, s[k + 1])) =
              [id \in StoredIds(c) \cup {c.next_id_value} |->
                 IF id = c.next_id_value THEN s[k + 1] ELSE Live(c)[id]]
      BY <2>4, <3>1, AppendBook
    <3> QED BY <2>4, <3>2
  <2>6. /\ StoredIds(c) = StoredIds(b) \cup (next .. (next + k - 1))
        /\ \A id \in StoredIds(c) :
             Live(c)[id] = IF id \in StoredIds(b) THEN Live(b)[id] ELSE s[id - next + 1]
    BY <2>3, StoredIs DEF IssuedTo, next
  <2>7. \A id \in StoredIds(b) : id \in Int /\ id < next
    BY BookParts DEF next
  <2>8. StoredIds(c) \cup {next + k} = StoredIds(b) \cup (next .. (next + (k + 1) - 1))
    BY <2>4, <2>6
  <2>9. ASSUME NEW id \in StoredIds(c) \cup {next + k}
        PROVE  (IF id = next + k THEN s[k + 1] ELSE Live(c)[id])
                 = (IF id \in StoredIds(b) THEN Live(b)[id] ELSE s[id - next + 1])
    <3>1. CASE id = next + k
      <4>1. id \notin StoredIds(b)
        BY <2>4, <2>7, <3>1
      <4>2. id - next + 1 = k + 1
        BY <2>4, <3>1
      <4> QED BY <3>1, <4>1, <4>2
    <3>2. CASE id # next + k
      BY <2>6, <2>9, <3>2
    <3> QED BY <3>1, <3>2
  <2>10. next + (k + 1) = next + k + 1
    BY <2>4
  <2> DEFINE d == AppendRow(c, s[k + 1])
             m == Len(b.rows)
  <2>11. /\ c.row_ids \in Seq(1..MaxId) /\ Len(c.row_ids) = m + k /\ m \in Nat
         /\ \A r \in 1..m : c.row_ids[r] = b.row_ids[r]
         /\ \A r \in 1..k : c.row_ids[m + r] = next + r - 1
    <3>1. Good(c) /\ Len(c.rows) = m + k
      BY <2>3 DEF IssuedTo
    <3>2. c.row_ids \in Seq(1..MaxId) /\ Len(c.row_ids) = Len(c.rows)
      BY <3>1, BookParts
    <3>3. m \in Nat
      BY BookParts
    <3> QED BY <2>3, <3>1, <3>2, <3>3 DEF IssuedTo, next
  <2>12. d.row_ids = Append(c.row_ids, next + k) /\ Good(d)
    BY <2>5
  <2>13. Len(d.rows) = Len(d.row_ids)
    BY <2>12, BookParts
  <2> HIDE DEF d, m
  <2> DEFINE ids == c.row_ids
             more == d.row_ids
  <2>14. next + k \in 1..MaxId
    <3>1. next \in 1..(MaxId + 1)
      BY BookParts DEF next
    <3> QED BY <2>4, <3>1, MaxIdAssumption
  <2>15. /\ ids \in Seq(1..MaxId) /\ Len(ids) = m + k /\ m \in Nat /\ next + k \in 1..MaxId
         /\ more = Append(ids, next + k) /\ Len(d.rows) = Len(more)
    BY <2>11, <2>12, <2>13, <2>14
  <2> HIDE DEF ids, more
  <2>16. /\ Len(more) = m + (k + 1) /\ more[m + k + 1] = next + k
         /\ \A r \in 1..(m + k) : more[r] = ids[r]
    BY <2>15
  <2>17. \A r \in 1..m : more[r] = b.row_ids[r]
    BY <2>11, <2>15, <2>16 DEF ids
  <2>18. \A r \in 1..(k + 1) : more[m + r] = next + r - 1
    <3> SUFFICES ASSUME NEW r \in 1..(k + 1) PROVE more[m + r] = next + r - 1
      OBVIOUS
    <3>1. CASE r = k + 1
      BY <2>4, <2>15, <2>16, <3>1
    <3>2. CASE r # k + 1
      <4>1. r \in 1..k /\ m + r \in 1..(m + k)
        BY <2>15, <3>2
      <4>2. more[m + r] = ids[m + r]
        BY <2>16, <4>1
      <4>3. ids[m + r] = next + r - 1
        BY <2>11, <4>1 DEF ids
      <4> QED BY <4>2, <4>3
    <3> QED BY <3>1, <3>2
  <2>19. Live(d) = [id \in StoredIds(b) \cup (next .. (next + (k + 1) - 1)) |->
                      IF id \in StoredIds(b) THEN Live(b)[id] ELSE s[id - next + 1]]
    BY <2>5, <2>8, <2>9 DEF d
  <2>20. Good(d) /\ d.next_id_value = next + (k + 1)
    BY <2>5, <2>10 DEF d
  <2>21. Len(d.rows) = m + (k + 1)
    BY <2>15, <2>16
  <2>22. IssuedTo(b, s, k + 1, d)
    BY <2>17, <2>18, <2>19, <2>20, <2>21 DEF IssuedTo, next, m, more
  <2> QED BY <2>2, <2>22 DEF c, d
<1>6. n \in D
  <2> HIDE DEF D
  <2> QED BY <1>1, <1>4, <1>5, Issues!Upwards
<1> QED BY <1>1, <1>3, <1>6 DEF n

\* The book after the first k withdrawals of a batch.
MarkedTo(b, s, k, c) ==
  /\ Good(c) /\ c.row_ids = b.row_ids
  /\ c.next_id_value = b.next_id_value
  /\ Live(c) = [id \in StoredIds(b) |->
                  IF id \in {s[j] : j \in 1..k} THEN Withdrawn(Live(b)[id]) ELSE Live(b)[id]]

\* Marking the withdrawals of a batch rewrites the rows they name, once or often.
LEMMA MarksBook ==
  ASSUME OrderRows, NEW b, Good(b), NEW s, NEW n \in Nat, DOMAIN s = 1..n
  PROVE  MarkedTo(b, s, n, FoldLeft(MarkCancelled, b, s))
<1>1. PICK g : Marks!IsSteps(g, n, b, s) /\ FoldLeft(MarkCancelled, b, s) = g[n]
  BY Marks!FoldSteps, SameFolds
<1> DEFINE D == {k \in Nat : k <= n => MarkedTo(b, s, k, g[k])}
<1>2. 0 \in D
  <2>1. g[0] = b
    BY <1>1 DEF Marks!IsSteps
  <2>2. {s[j] : j \in 1..0} = {}
    OBVIOUS
  <2>3. Live(b) = [id \in StoredIds(b) |-> Live(b)[id]]
    BY DEF Live
  <2>4. MarkedTo(b, s, 0, b)
    BY <2>2, <2>3 DEF MarkedTo
  <2> QED BY <2>1, <2>4
<1>3. ASSUME NEW k \in Nat, k \in D
      PROVE  k + 1 \in D
  <2> SUFFICES ASSUME k + 1 <= n PROVE MarkedTo(b, s, k + 1, g[k + 1])
    OBVIOUS
  <2>1. k + 1 \in 0..n /\ k + 1 # 0 /\ (k + 1) - 1 = k /\ k <= n
    OBVIOUS
  <2>2. g[k + 1] = MarkCancelled(g[k], s[k + 1])
    BY <1>1, <2>1 DEF Marks!IsSteps
  <2> DEFINE c == g[k]
             a == s[k + 1]
             before == {s[j] : j \in 1..k}
             after == {s[j] : j \in 1..(k + 1)}
  <2>3. MarkedTo(b, s, k, c)
    BY <1>3, <2>1
  <2>4. after = before \cup {a}
    OBVIOUS
  <2> HIDE DEF c, a, before, after
  <2>5. /\ Good(c) /\ c.next_id_value = b.next_id_value /\ c.row_ids = b.row_ids
        /\ StoredIds(c) = StoredIds(b)
        /\ \A id \in StoredIds(b) :
             Live(c)[id] = IF id \in before THEN Withdrawn(Live(b)[id]) ELSE Live(b)[id]
    BY <2>3, StoredIs DEF MarkedTo, before
  <2>6. /\ Good(MarkCancelled(c, a)) /\ MarkCancelled(c, a).row_ids = b.row_ids
        /\ MarkCancelled(c, a).next_id_value = b.next_id_value
        /\ Live(MarkCancelled(c, a)) =
             [id \in StoredIds(b) |-> IF id = a THEN Withdrawn(Live(c)[id]) ELSE Live(c)[id]]
    BY <2>5, MarkBook
  <2>7. \A id \in StoredIds(b) : Withdrawn(Withdrawn(Live(b)[id])) = Withdrawn(Live(b)[id])
    <3> SUFFICES ASSUME NEW id \in StoredIds(b)
                 PROVE  Withdrawn(Withdrawn(Live(b)[id])) = Withdrawn(Live(b)[id])
      OBVIOUS
    <3>1. Live(b)[id] \in Row
      BY BookParts
    <3> QED BY <3>1 DEF Withdrawn, OrderRows, Cancellable, kCancelled, kPending, kAccepted
  <2>8. ASSUME NEW id \in StoredIds(b)
        PROVE  (IF id = a THEN Withdrawn(Live(c)[id]) ELSE Live(c)[id])
                 = (IF id \in after THEN Withdrawn(Live(b)[id]) ELSE Live(b)[id])
    BY <2>4, <2>5, <2>7
  <2> QED BY <2>2, <2>6, <2>8 DEF MarkedTo, c, a, after
<1>4. n \in D
  <2> HIDE DEF D
  <2> QED BY <1>2, <1>3, Marks!Upwards
<1> QED BY <1>1, <1>4

\* The book after the first k removals of a sweep.
RemovedTo(b, s, k, c) ==
  /\ Good(c)
  /\ c.next_id_value = b.next_id_value
  /\ Live(c) = [id \in StoredIds(b) \ {s[j] : j \in 1..k} |-> Live(b)[id]]

\* Removing ids one after another takes those ids out, whatever rows each moves.
LEMMA RemovalsBook ==
  ASSUME NEW b, Good(b), NEW s, NEW n \in Nat, DOMAIN s = 1..n
  PROVE  RemovedTo(b, s, n, FoldLeft(RemoveRow, b, s))
<1>1. PICK g : Removals!IsSteps(g, n, b, s) /\ FoldLeft(RemoveRow, b, s) = g[n]
  BY Removals!FoldSteps, SameFolds
<1> DEFINE D == {k \in Nat : k <= n => RemovedTo(b, s, k, g[k])}
<1>2. 0 \in D
  <2>1. g[0] = b
    BY <1>1 DEF Removals!IsSteps
  <2>2. StoredIds(b) \ {s[j] : j \in 1..0} = StoredIds(b)
    OBVIOUS
  <2>3. Live(b) = [id \in StoredIds(b) |-> Live(b)[id]]
    BY DEF Live
  <2>4. RemovedTo(b, s, 0, b)
    BY <2>2, <2>3 DEF RemovedTo
  <2> QED BY <2>1, <2>4
<1>3. ASSUME NEW k \in Nat, k \in D
      PROVE  k + 1 \in D
  <2> SUFFICES ASSUME k + 1 <= n PROVE RemovedTo(b, s, k + 1, g[k + 1])
    OBVIOUS
  <2>1. k + 1 \in 0..n /\ k + 1 # 0 /\ (k + 1) - 1 = k /\ k <= n
    OBVIOUS
  <2>2. g[k + 1] = RemoveRow(g[k], s[k + 1])
    BY <1>1, <2>1 DEF Removals!IsSteps
  <2> DEFINE c == g[k]
             a == s[k + 1]
             before == {s[j] : j \in 1..k}
             after == {s[j] : j \in 1..(k + 1)}
  <2>3. RemovedTo(b, s, k, c)
    BY <1>3, <2>1
  <2>4. after = before \cup {a}
    OBVIOUS
  <2> HIDE DEF c, a, before, after
  <2>5. /\ Good(c) /\ c.next_id_value = b.next_id_value
        /\ StoredIds(c) = StoredIds(b) \ before
        /\ \A id \in StoredIds(b) \ before : Live(c)[id] = Live(b)[id]
    BY <2>3, StoredIs DEF RemovedTo, before
  <2>6. /\ Good(RemoveRow(c, a))
        /\ RemoveRow(c, a).next_id_value = b.next_id_value
        /\ Live(RemoveRow(c, a)) = [id \in StoredIds(c) \ {a} |-> Live(c)[id]]
    BY <2>5, RemoveBook
  <2>7. StoredIds(c) \ {a} = StoredIds(b) \ after
    BY <2>4, <2>5
  <2>8. \A id \in StoredIds(b) \ after : Live(c)[id] = Live(b)[id]
    BY <2>4, <2>5
  <2> QED BY <2>2, <2>6, <2>7, <2>8 DEF RemovedTo, c, a, after
<1>4. n \in D
  <2> HIDE DEF D
  <2> QED BY <1>2, <1>3, Removals!Upwards
<1> QED BY <1>1, <1>4

\* The answers collected from the first k rows.
CollectedTo(e, k, done) ==
  /\ done \in Seq({e[i] : i \in 1..k})
  /\ \A j \in 1..Len(done) : done[j].answer \in Terminal
  /\ \A i \in 1..k : e[i].answer \in Terminal => \E j \in 1..Len(done) : done[j] = e[i]
  /\ \A i, j \in 1..Len(done) : done[i].order = done[j].order => i = j

\* The sweep collects every entry with an answer, and each once.
LEMMA CollectsAll ==
  ASSUME NEW e, NEW n \in Nat, DOMAIN e = 1..n,
         \A i, j \in 1..n : e[i].order = e[j].order => i = j
  PROVE  CollectedTo(e, n, FoldLeft(Collected, <<>>, e))
<1>1. PICK g : Collects!IsSteps(g, n, <<>>, e) /\ FoldLeft(Collected, <<>>, e) = g[n]
  BY Collects!FoldSteps, SameFolds
<1> DEFINE D == {k \in Nat : k <= n => CollectedTo(e, k, g[k])}
<1>2. 0 \in D
  <2>1. g[0] = <<>>
    BY <1>1 DEF Collects!IsSteps
  <2>2. CollectedTo(e, 0, <<>>)
    BY DEF CollectedTo
  <2> QED BY <2>1, <2>2
<1>3. ASSUME NEW k \in Nat, k \in D
      PROVE  k + 1 \in D
  <2> SUFFICES ASSUME k + 1 <= n PROVE CollectedTo(e, k + 1, g[k + 1])
    OBVIOUS
  <2>1. k + 1 \in 0..n /\ k + 1 # 0 /\ (k + 1) - 1 = k /\ k <= n /\ k + 1 \in 1..n
    OBVIOUS
  <2>2. g[k + 1] = Collected(g[k], e[k + 1])
    BY <1>1, <2>1 DEF Collects!IsSteps
  <2> DEFINE done == g[k]
             new == e[k + 1]
             old == {e[i] : i \in 1..k}
             all == {e[i] : i \in 1..(k + 1)}
  <2>3. CollectedTo(e, k, done)
    BY <1>3, <2>1
  <2>4. all = old \cup {new} /\ 1..(k + 1) = (1..k) \cup {k + 1}
    OBVIOUS
  <2> HIDE DEF done, all
  <2>5. done \in Seq(old) /\ done \in Seq(all) /\ Len(done) \in Nat
    <3>1. done \in Seq(old)
      BY <2>3 DEF CollectedTo
    <3>2. old \subseteq all
      BY <2>4
    <3> HIDE DEF old
    <3> QED BY <3>1, <3>2
  <2>6. \A j \in 1..Len(done) : \E i \in 1..k : done[j] = e[i]
    <3>1. \A j \in 1..Len(done) : done[j] \in old
      BY <2>5, ElementOfSeq
    <3> QED BY <3>1
  <2> HIDE DEF old
  <2>7. CASE new.answer \notin Terminal
    <3>1. g[k + 1] = done
      BY <2>2, <2>7 DEF Collected, done, new
    <3>2. CollectedTo(e, k + 1, done)
      BY <2>3, <2>4, <2>5, <2>7 DEF CollectedTo, all, new
    <3> QED BY <3>1, <3>2
  <2>8. CASE new.answer \in Terminal
    <3>1. g[k + 1] = Append(done, new)
      BY <2>2, <2>8 DEF Collected, done, new
    <3> DEFINE more == Append(done, new)
    <3>2. new \in all
      BY <2>4
    <3>3. /\ more \in Seq(all) /\ Len(more) = Len(done) + 1
          /\ more[Len(done) + 1] = new
          /\ \A j \in 1..Len(done) : more[j] = done[j]
      <4> HIDE DEF new
      <4> QED BY <2>5, <3>2
    <3>4. 1..Len(more) = (1..Len(done)) \cup {Len(done) + 1}
      BY <2>5, <3>3
    <3> HIDE DEF more
    <3>5. \A j \in 1..Len(done) : done[j].order # new.order
      <4> SUFFICES ASSUME NEW j \in 1..Len(done) PROVE done[j].order # new.order
        OBVIOUS
      <4>1. PICK i \in 1..k : done[j] = e[i]
        BY <2>6
      <4>2. i \in 1..n /\ i # k + 1
        BY <2>1
      <4> QED BY <2>1, <4>1, <4>2
    <3>6. \A j \in 1..Len(more) : more[j].answer \in Terminal
      BY <2>3, <2>8, <3>3, <3>4 DEF CollectedTo
    <3>7. \A i \in 1..(k + 1) : e[i].answer \in Terminal => \E j \in 1..Len(more) : more[j] = e[i]
      <4> SUFFICES ASSUME NEW i \in 1..(k + 1), e[i].answer \in Terminal
                   PROVE  \E j \in 1..Len(more) : more[j] = e[i]
        OBVIOUS
      <4>1. CASE i = k + 1
        BY <3>3, <3>4, <4>1
      <4>2. CASE i # k + 1
        <5>1. PICK j \in 1..Len(done) : done[j] = e[i]
          BY <2>3, <2>4, <4>2 DEF CollectedTo
        <5> QED BY <3>3, <3>4, <5>1
      <4> QED BY <4>1, <4>2
    <3>8. \A i, j \in 1..Len(more) : more[i].order = more[j].order => i = j
      BY <2>3, <3>3, <3>4, <3>5 DEF CollectedTo
    <3>9. CollectedTo(e, k + 1, more)
      BY <3>3, <3>6, <3>7, <3>8 DEF CollectedTo, all
    <3> QED BY <3>1, <3>9 DEF more
  <2> QED BY <2>7, <2>8
<1>4. n \in D
  <2> HIDE DEF D
  <2> QED BY <1>2, <1>3, Collects!Upwards
<1> QED BY <1>1, <1>4

\* The judgment of what is still pending rewrites rows, and no id changes.
LEMMA JudgeBook ==
  ASSUME OrderRows, NEW b, Good(b)
  PROVE  /\ Good(JudgedBook(b))
         /\ JudgedBook(b).next_id_value = b.next_id_value
         /\ Live(JudgedBook(b)) = [id \in StoredIds(b) |-> Judged(Live(b)[id])]
<1> DEFINE rows == [r \in DOMAIN b.rows |-> Judged(b.rows[r])]
<1>1. rows \in Seq(Row) /\ Len(rows) = Len(b.rows)
  <2>1. DOMAIN b.rows = 1..Len(b.rows) /\ Len(b.rows) \in Nat
        /\ \A r \in 1..Len(b.rows) : b.rows[r] \in Row
    BY BookParts
  <2>2. \A r \in 1..Len(b.rows) : Judged(b.rows[r]) \in Row
    BY <2>1 DEF OrderRows
  <2> QED BY <2>1, <2>2
<1>2. JudgedBook(b) = [b EXCEPT !.rows = rows]
  BY DEF JudgedBook
<1>3. \A id \in StoredIds(b) : rows[FindRow(b, id)] = Judged(Live(b)[id])
  BY BookParts
<1> HIDE DEF rows
<1> QED BY <1>1, <1>2, <1>3, RowsBook

\* What a sweep emits of a map of orders: each that has its answer, once.
Answered(live, answers) ==
  /\ answers \in Seq([order : 1..MaxId, answer : Terminal])
  /\ \A j \in 1..Len(answers) :
       answers[j].order \in DOMAIN live /\ answers[j].answer = live[answers[j].order].status
  /\ \A id \in DOMAIN live : live[id].status \in Terminal =>
       \E j \in 1..Len(answers) : answers[j].order = id
  /\ \A i, j \in 1..Len(answers) : answers[i].order = answers[j].order => i = j

\* What a sweep leaves of it.
Opened(live) == {id \in DOMAIN live : live[id].status \notin Terminal}

\* The answers a sweep emits are those of the map, each once.
LEMMA DoneIs ==
  ASSUME NEW b, Good(b)
  PROVE  Answered(Live(b), Done(b))
<1> DEFINE e == Entries(b)
           n == Len(b.rows)
           done == Done(b)
<1>1. /\ n \in Nat /\ DOMAIN e = 1..n
      /\ \A r \in 1..n : /\ e[r] = [order |-> b.row_ids[r], answer |-> b.rows[r].status]
                         /\ e[r].order \in 1..MaxId
                         /\ e[r].order \in StoredIds(b) /\ e[r].answer = Live(b)[e[r].order].status
      /\ \A r, q \in 1..n : e[r].order = e[q].order => r = q
      /\ \A id \in StoredIds(b) : \E r \in 1..n : e[r].order = id
  <2>1. n \in Nat /\ DOMAIN e = 1..n
    BY BookParts DEF Entries
  <2>2. \A r \in 1..n : e[r] = [order |-> b.row_ids[r], answer |-> b.rows[r].status]
    BY <2>1 DEF Entries
  <2> HIDE DEF e
  <2>0. \A r \in 1..n : e[r].order = b.row_ids[r] /\ e[r].answer = b.rows[r].status
    <3> SUFFICES ASSUME NEW r \in 1..n
                 PROVE  e[r].order = b.row_ids[r] /\ e[r].answer = b.rows[r].status
      OBVIOUS
    <3>1. e[r] = [order |-> b.row_ids[r], answer |-> b.rows[r].status]
      BY <2>2
    <3> QED BY <3>1
  <2>3. \A r \in 1..n : /\ e[r].order \in 1..MaxId
                        /\ e[r].order \in StoredIds(b) /\ e[r].answer = Live(b)[e[r].order].status
    BY <2>0, BookParts
  <2>4. \A r, q \in 1..n : e[r].order = e[q].order => r = q
    BY <2>0, BookParts
  <2>5. \A id \in StoredIds(b) : \E r \in 1..n : e[r].order = id
    BY <2>0, BookParts
  <2> QED BY <2>1, <2>2, <2>3, <2>4, <2>5
<1> HIDE DEF e, n
<1>2. CollectedTo(e, n, done)
  BY <1>1, CollectsAll DEF Done, e
<1> HIDE DEF done
<1>3. done \in Seq({e[r] : r \in 1..n}) /\ Len(done) \in Nat
  BY <1>2 DEF CollectedTo
<1>4. \A j \in 1..Len(done) : \E r \in 1..n : done[j] = e[r]
  <2>1. \A j \in 1..Len(done) : done[j] \in {e[r] : r \in 1..n}
    BY <1>3, ElementOfSeq
  <2> QED BY <2>1
<1>5. ASSUME NEW j \in 1..Len(done)
      PROVE  /\ done[j] \in [order : 1..MaxId, answer : Terminal]
             /\ done[j].order \in StoredIds(b)
             /\ done[j].answer = Live(b)[done[j].order].status
  <2>1. PICK r \in 1..n : done[j] = e[r]
    BY <1>4
  <2>2. done[j].answer \in Terminal
    BY <1>2 DEF CollectedTo
  <2>3. /\ e[r].order \in 1..MaxId /\ e[r].order \in StoredIds(b)
        /\ e[r].answer = Live(b)[e[r].order].status
        /\ e[r] = [order |-> b.row_ids[r], answer |-> b.rows[r].status]
    BY <1>1
  <2>4. e[r] \in [order : 1..MaxId, answer : Terminal]
    BY <2>1, <2>2, <2>3
  <2> QED BY <2>1, <2>3, <2>4
<1>6. done \in Seq([order : 1..MaxId, answer : Terminal])
  <2> DEFINE X == {e[r] : r \in 1..n}
             Y == [order : 1..MaxId, answer : Terminal]
  <2>1. done \in Seq(X) /\ \A j \in 1..Len(done) : done[j] \in Y
    BY <1>3, <1>5
  <2> HIDE DEF X, Y
  <2>2. done \in Seq(Y)
    BY <2>1
  <2> QED BY <2>2 DEF Y
<1>7. ASSUME NEW id \in StoredIds(b), Live(b)[id].status \in Terminal
      PROVE  \E j \in 1..Len(done) : done[j].order = id
  <2>1. PICK r \in 1..n : e[r].order = id
    BY <1>1
  <2>2. e[r].answer \in Terminal
    BY <1>1, <1>7, <2>1
  <2>3. \E j \in 1..Len(done) : done[j] = e[r]
    BY <1>2, <2>2 DEF CollectedTo
  <2> QED BY <2>1, <2>3
<1>8. \A i, j \in 1..Len(done) : done[i].order = done[j].order => i = j
  BY <1>2 DEF CollectedTo
<1> QED BY <1>5, <1>6, <1>7, <1>8, StoredIs DEF Answered, done

\* A sweep leaves the open orders and nothing else.
LEMMA SweepBook ==
  ASSUME NEW b, Good(b)
  PROVE  /\ Good(WithoutDone(b))
         /\ WithoutDone(b).next_id_value = b.next_id_value
         /\ Live(WithoutDone(b)) = [id \in Opened(Live(b)) |-> Live(b)[id]]
<1> DEFINE done == Done(b)
           n == Len(done)
           s == [k \in DOMAIN done |-> done[k].order]
<1>1. Answered(Live(b), done)
  BY DoneIs
<1>2. WithoutDone(b) = FoldLeft(RemoveRow, b, s)
  BY DEF WithoutDone
<1> HIDE DEF done
<1>3. n \in Nat /\ DOMAIN s = 1..n /\ \A k \in 1..n : s[k] = done[k].order
  BY <1>1 DEF Answered
<1> HIDE DEF s, n
<1>4. RemovedTo(b, s, n, WithoutDone(b))
  BY <1>2, <1>3, RemovalsBook
<1>5. StoredIds(b) \ {s[j] : j \in 1..n} = Opened(Live(b))
  <2>1. ASSUME NEW id \in StoredIds(b), NEW j \in 1..n, id = s[j]
        PROVE  Live(b)[id].status \in Terminal
    <3>1. done[j] \in [order : 1..MaxId, answer : Terminal]
      BY <1>1, <1>3, ElementOfSeq DEF Answered, n
    <3> QED BY <1>1, <1>3, <2>1, <3>1 DEF Answered, n
  <2>2. ASSUME NEW id \in StoredIds(b), Live(b)[id].status \in Terminal
        PROVE  \E j \in 1..n : id = s[j]
    BY <1>1, <1>3, <2>2, StoredIs, SMTT(30) DEF Answered, n
  <2> QED BY <2>1, <2>2, StoredIs DEF Opened
<1> QED BY <1>4, <1>5 DEF RemovedTo

-----------------------------------------------------------------------------
(* The dictionary of a save.                                               *)

\* A table of the game, and the rows that can live under it.
Distinct(keys) ==
  keys \in Seq(STRING) /\ \A i, j \in DOMAIN keys : keys[i] = keys[j] => i = j

Fits(keys, row) ==
  /\ row.def \in 0..Len(keys)
  /\ row.amounts \in Seq(Int) /\ Len(row.amounts) <= Len(keys)

KeysOf(keys) == {keys[k] : k \in DOMAIN keys}

-----------------------------------------------------------------------------
(* The remap.                                                              *)

\* A key is found where it is, and nowhere else.
LEMMA IndexIs ==
  ASSUME NEW keys, Distinct(keys)
  PROVE  /\ Len(keys) \in Nat /\ DOMAIN keys = 1..Len(keys)
         /\ \A i \in 1..Len(keys) : IndexOf(keys, keys[i]) = i
         /\ \A key : key \in KeysOf(keys)
              => IndexOf(keys, key) \in 1..Len(keys) /\ keys[IndexOf(keys, key)] = key
         /\ \A key : key \notin KeysOf(keys) => IndexOf(keys, key) = NoDef
<1>1. Len(keys) \in Nat /\ DOMAIN keys = 1..Len(keys)
  BY DEF Distinct
<1>2. ASSUME NEW i \in 1..Len(keys)
      PROVE  IndexOf(keys, keys[i]) = i
  <2>1. \E j \in DOMAIN keys : keys[j] = keys[i]
    BY <1>1
  <2>2. \A j \in DOMAIN keys : keys[j] = keys[i] => j = i
    BY <1>1 DEF Distinct
  <2> QED BY <2>1, <2>2 DEF IndexOf
<1>3. ASSUME NEW key, key \in KeysOf(keys)
      PROVE  IndexOf(keys, key) \in 1..Len(keys) /\ keys[IndexOf(keys, key)] = key
  BY <1>1, <1>3 DEF IndexOf, KeysOf
<1>4. ASSUME NEW key, key \notin KeysOf(keys)
      PROVE  IndexOf(keys, key) = NoDef
  BY <1>4 DEF IndexOf, KeysOf
<1> QED BY <1>1, <1>2, <1>3, <1>4

\* The remap leads each written key to its live place; it is the identity only
\* between a table and itself.
LEMMA RemapIs ==
  ASSUME NEW written, NEW live, Distinct(written), Distinct(live), NEW m, m = BuildRemap(written, live)
  PROVE  /\ Len(m.to_live) = Len(written) /\ DOMAIN m.to_live = 1..Len(written)
         /\ \A i \in 1..Len(written) : m.to_live[i] = IndexOf(live, written[i])
         /\ m.live_count = Len(live)
         /\ m.identity \in BOOLEAN
         /\ m.identity => written = live
<1> DEFINE to == [i \in 1..Len(written) |-> IndexOf(live, written[i])]
<1>1. m.to_live = to /\ m.live_count = Len(live) /\ m.identity = IsIdentity(to, Len(live))
  BY DEF BuildRemap
<1>2. Len(written) \in Nat /\ Len(live) \in Nat /\ DOMAIN written = 1..Len(written) /\ DOMAIN live = 1..Len(live)
  BY IndexIs
<1>3. Len(to) = Len(written) /\ DOMAIN to = 1..Len(written)
      /\ \A i \in 1..Len(written) : to[i] = IndexOf(live, written[i])
  BY <1>2
<1> HIDE DEF to
<1>4. ASSUME IsIdentity(to, Len(live)) PROVE written = live
  <2>1. Len(written) = Len(live)
    BY <1>3, <1>4 DEF IsIdentity
  <2>2. ASSUME NEW i \in 1..Len(written) PROVE written[i] = live[i]
    <3>1. IndexOf(live, written[i]) = i /\ i # NoDef
      BY <1>3, <1>4 DEF IsIdentity, NoDef
    <3>2. written[i] \in KeysOf(live)
      BY <3>1, IndexIs
    <3> QED BY <3>1, <3>2, IndexIs
  <2>3. written \in Seq(STRING) /\ live \in Seq(STRING)
    BY DEF Distinct
  <2> QED BY <1>2, <2>1, <2>2, <2>3
<1>5. IsIdentity(to, Len(live)) \in BOOLEAN
  BY DEF IsIdentity
<1> QED BY <1>1, <1>3, <1>4, <1>5

-----------------------------------------------------------------------------
(* A row.                                                                  *)

\* What a row uses: the definition it names, and those it holds something of.
LEMMA UsesAre ==
  ASSUME NEW keys, NEW row
  PROVE  Uses(keys, row) = (IF row.def = NoDef THEN {} ELSE {keys[row.def]})
                             \cup {keys[i] : i \in {j \in DOMAIN row.amounts : row.amounts[j] # 0}}
BY DEF Uses, Meaning, GramsOf

\* A row is refused exactly when it uses a key that is gone.
LEMMA RowRefused ==
  ASSUME NEW written, NEW live, Distinct(written), Distinct(live), NEW m, m = BuildRemap(written, live),
         NEW row, Fits(written, row)
  PROVE  DefIdRefused(m, row.def) \/ AmountsRefused(m, row.amounts)
           <=> ~(Uses(written, row) \subseteq KeysOf(live))
<1> DEFINE held == {j \in DOMAIN row.amounts : row.amounts[j] # 0}
<1>1. /\ Len(m.to_live) = Len(written) /\ Len(written) \in Nat
      /\ \A i \in 1..Len(written) : m.to_live[i] = IndexOf(live, written[i])
      /\ m.identity \in BOOLEAN /\ (m.identity => written = live)
  BY RemapIs, IndexIs
<1>2. \A i \in 1..Len(written) : m.to_live[i] = NoDef <=> written[i] \notin KeysOf(live)
  BY <1>1, IndexIs DEF NoDef
<1>3. /\ row.def \in 0..Len(written) /\ Len(row.amounts) \in Nat
      /\ DOMAIN row.amounts = 1..Len(row.amounts) /\ Len(row.amounts) <= Len(written)
  BY DEF Fits
<1>4. DefIdRefused(m, row.def) <=> row.def # NoDef /\ written[row.def] \notin KeysOf(live)
  BY <1>1, <1>2, <1>3 DEF DefIdRefused, ReadDefId, NoDef
<1>5. AmountsRefused(m, row.amounts) <=> \E i \in held : written[i] \notin KeysOf(live)
  <2>1. CASE m.identity
    <3>1. DOMAIN written = 1..Len(written) /\ written = live
      BY <1>1, <2>1, IndexIs
    <3>2. \A i \in held : written[i] \in KeysOf(live)
      BY <1>1, <1>3, <3>1 DEF KeysOf
    <3> QED BY <2>1, <3>2 DEF AmountsRefused
  <2>2. CASE ~m.identity
    BY <1>1, <1>2, <1>3, <2>2 DEF AmountsRefused
  <2> QED BY <1>1, <2>1, <2>2
<1> QED BY <1>4, <1>5, UsesAre

\* A row that is not refused says under the live table what it said, and fits
\* it.
LEMMA RowKept ==
  ASSUME NEW written, NEW live, Distinct(written), Distinct(live), NEW m, m = BuildRemap(written, live),
         NEW row, Fits(written, row), Uses(written, row) \subseteq KeysOf(live)
  PROVE  /\ Fits(live, ReadRow(m, row))
         /\ Meaning(live, ReadRow(m, row)) = Meaning(written, row)
<1> DEFINE r == ReadRow(m, row)
           n == Len(row.amounts)
<1>1. /\ Len(written) \in Nat /\ Len(live) \in Nat
      /\ \A i \in 1..Len(written) : m.to_live[i] = IndexOf(live, written[i])
      /\ m.live_count = Len(live)
      /\ m.identity \in BOOLEAN /\ (m.identity => written = live)
  BY RemapIs, IndexIs
<1>2. /\ row.def \in 0..Len(written) /\ n \in Nat /\ n <= Len(written)
      /\ DOMAIN row.amounts = 1..n /\ row.amounts \in Seq(Int)
      /\ \A i \in 1..n : row.amounts[i] \in Int
  BY DEF Fits
<1>3. r.def = ReadDefId(m, row.def) /\ r.amounts = ReadAmounts(m, row.amounts)
  BY DEF ReadRow
<1>4. /\ row.def # NoDef => written[row.def] \in KeysOf(live)
      /\ \A i \in 1..n : row.amounts[i] # 0 => written[i] \in KeysOf(live)
  BY <1>2, UsesAre
<1> HIDE DEF r, n
<1>5. /\ r.def \in 0..Len(live)
      /\ (IF r.def = NoDef THEN {} ELSE {live[r.def]}) = (IF row.def = NoDef THEN {} ELSE {written[row.def]})
  <2>1. CASE row.def = NoDef
    BY <1>1, <1>3, <2>1 DEF ReadDefId, NoDef
  <2>2. CASE row.def # NoDef
    <3>1. row.def \in 1..Len(written)
      BY <1>1, <1>2, <2>2 DEF NoDef
    <3>2. r.def = IndexOf(live, written[row.def])
      BY <1>1, <1>3, <2>2, <3>1 DEF ReadDefId
    <3>3. r.def \in 1..Len(live) /\ live[r.def] = written[row.def]
      BY <1>4, <2>2, <3>2, IndexIs
    <3> QED BY <1>1, <2>2, <3>3 DEF NoDef
  <2> QED BY <2>1, <2>2
<1>6. /\ r.amounts \in Seq(Int) /\ Len(r.amounts) <= Len(live)
      /\ GramsOf(live, r) = GramsOf(written, row)
  <2>1. CASE m.identity
    <3>1. r.amounts = row.amounts /\ written = live
      BY <1>1, <1>3, <2>1 DEF ReadAmounts
    <3> QED BY <1>2, <3>1 DEF GramsOf, n
  <2>2. CASE row.amounts = <<>>
    <3>1. r.amounts = row.amounts
      BY <1>3, <2>2 DEF ReadAmounts
    <3>2. GramsOf(live, r) = GramsOf(written, row)
      BY <2>2, <3>1 DEF GramsOf
    <3> QED BY <1>1, <2>2, <3>1, <3>2
  <2>3. CASE ~m.identity /\ row.amounts # <<>>
    <3> DEFINE From(t) == {i \in 1..n : m.to_live[i] = t}
               col == [t \in 1..Len(live) |->
                         IF From(t) = {} THEN 0
                         ELSE row.amounts[CHOOSE i \in From(t) : \A j \in From(t) : j <= i]]
    <3>1. r.amounts = col
      BY <1>1, <1>2, <1>3, <2>3 DEF ReadAmounts
    <3>2. ASSUME NEW i \in 1..n, written[i] \in KeysOf(live)
          PROVE  LET t == IndexOf(live, written[i]) IN t \in 1..Len(live) /\ From(t) = {i} /\ live[t] = written[i]
      <4> DEFINE t == IndexOf(live, written[i])
      <4>1. t \in 1..Len(live) /\ live[t] = written[i] /\ i \in 1..Len(written) /\ i \in From(t)
        BY <1>1, <1>2, <3>2, IndexIs
      <4>2. ASSUME NEW j \in From(t) PROVE j = i
        <5>1. j \in 1..n /\ j \in 1..Len(written) /\ IndexOf(live, written[j]) = t /\ t # NoDef
          BY <1>1, <1>2, <4>1, <4>2 DEF NoDef
        <5>2. written[j] \in KeysOf(live)
          BY <5>1, IndexIs
        <5>3. written[j] = written[i]
          BY <4>1, <5>1, <5>2, IndexIs
        <5> QED BY <4>1, <5>1, <5>3, IndexIs
      <4> QED BY <4>1, <4>2
    <3>3. ASSUME NEW t \in 1..Len(live), NEW i \in From(t)
          PROVE  written[i] \in KeysOf(live) /\ t = IndexOf(live, written[i]) /\ i \in 1..n
      <4>1. i \in 1..Len(written) /\ m.to_live[i] = t /\ t # NoDef
        BY <1>1, <1>2 DEF NoDef
      <4> QED BY <1>1, <4>1, IndexIs
    <3>4. \A t \in 1..Len(live), i \in 1..n : From(t) = {i} => col[t] = row.amounts[i]
      BY <1>2
    <3>5. \A t \in 1..Len(live) : From(t) = {} => col[t] = 0
      OBVIOUS
    <3>6. \A t \in 1..Len(live) : From(t) = {} \/ \E i \in 1..n : From(t) = {i}
      BY <3>2, <3>3
    <3> HIDE DEF From
    <3>7. col \in [1..Len(live) -> Int]
      <4>1. \A t \in 1..Len(live) : col[t] \in Int
        BY <1>2, <3>4, <3>5, <3>6
      <4> QED BY <4>1
    <3>8. DOMAIN col = 1..Len(live)
      OBVIOUS
    <3> HIDE DEF col
    <3>9. col \in Seq(Int) /\ Len(col) = Len(live)
      BY <1>1, <3>7
    <3> DEFINE keysThen == {written[i] : i \in {j \in 1..n : row.amounts[j] # 0}}
               keysNow  == {live[t] : t \in {k \in 1..Len(live) : col[k] # 0}}
    <3>10. ASSUME NEW t \in 1..Len(live), col[t] # 0
           PROVE  \E i \in 1..n : row.amounts[i] # 0 /\ written[i] = live[t]
      <4>1. PICK i \in 1..n : From(t) = {i}
        BY <3>5, <3>6, <3>10
      <4>2. col[t] = row.amounts[i] /\ i \in From(t)
        BY <3>4, <4>1
      <4>3. written[i] \in KeysOf(live) /\ t = IndexOf(live, written[i])
        BY <3>3, <4>2
      <4> QED BY <3>10, <4>2, <4>3, IndexIs
    <3>11. ASSUME NEW i \in 1..n, row.amounts[i] # 0
           PROVE  LET t == IndexOf(live, written[i])
                  IN t \in 1..Len(live) /\ live[t] = written[i] /\ col[t] = row.amounts[i]
      BY <1>4, <3>2, <3>4, <3>11
    <3>12. keysNow = keysThen
      <4>1. keysNow \subseteq keysThen
        BY <3>10
      <4>2. ASSUME NEW i \in 1..n, row.amounts[i] # 0 PROVE written[i] \in keysNow
        BY <3>11, <4>2
      <4> QED BY <4>1, <4>2
    <3>13. ASSUME NEW key \in keysThen PROVE col[IndexOf(live, key)] = row.amounts[IndexOf(written, key)]
      <4>1. PICK i \in 1..n : row.amounts[i] # 0 /\ key = written[i]
        OBVIOUS
      <4>2. IndexOf(written, key) = i
        BY <1>1, <1>2, <4>1, IndexIs
      <4> QED BY <3>11, <4>1, <4>2
    <3>14. /\ GramsOf(live, r) = [key \in keysNow |-> col[IndexOf(live, key)]]
           /\ GramsOf(written, row) = [key \in keysThen |-> row.amounts[IndexOf(written, key)]]
      BY <1>2, <3>1, <3>8 DEF GramsOf
    <3> HIDE DEF keysNow, keysThen
    <3>15. GramsOf(live, r) = GramsOf(written, row)
      BY <3>12, <3>13, <3>14
    <3> QED BY <1>1, <3>1, <3>9, <3>15
  <2> QED BY <1>1, <2>1, <2>2, <2>3
<1>7. Fits(live, r)
  BY <1>5, <1>6 DEF Fits
<1>8. Meaning(live, r) = Meaning(written, row)
  BY <1>5, <1>6 DEF Meaning
<1> QED BY <1>7, <1>8 DEF r

-----------------------------------------------------------------------------
(* The table.                                                              *)

\* A save, as it is written under a table: its fields, and rows that fit.
SaveFits(keys, s) ==
  /\ DOMAIN s = {"rows", "row_ids", "next_id_value"}
  /\ \A i \in DOMAIN s.rows : Fits(keys, s.rows[i])

\* What reading a table does to it.
LEMMA TableIs ==
  ASSUME NEW m, NEW keys, NEW s, SaveFits(keys, s)
  PROVE  LET t == ReadTable(m, s) IN
         /\ DOMAIN t = DOMAIN s /\ t.row_ids = s.row_ids /\ t.next_id_value = s.next_id_value
         /\ DOMAIN t.rows = DOMAIN s.rows
         /\ \A i \in DOMAIN s.rows : t.rows[i] = ReadRow(m, s.rows[i])
<1> DEFINE rows == [i \in DOMAIN s.rows |-> ReadRow(m, s.rows[i])]
<1>1. ReadTable(m, s) = [s EXCEPT !.rows = rows]
  BY DEF ReadTable
<1>2. DOMAIN rows = DOMAIN s.rows /\ \A i \in DOMAIN s.rows : rows[i] = ReadRow(m, s.rows[i])
  OBVIOUS
<1> HIDE DEF rows
<1> QED BY <1>1, <1>2 DEF SaveFits

\* A save is read right under any table, and what is read fits that table.
LEMMA TableRead ==
  ASSUME NEW written, NEW live, Distinct(written), Distinct(live), NEW s, SaveFits(written, s)
  PROVE  /\ ReadsAs(s, written, live)
         /\ ~Refused(BuildRemap(written, live), s) => SaveFits(live, ReadTable(BuildRemap(written, live), s))
<1> DEFINE m == BuildRemap(written, live)
           t == ReadTable(m, s)
           usesOnlyLive == \A i \in DOMAIN s.rows : Uses(written, s.rows[i]) \subseteq KeysOf(live)
<1>1. /\ DOMAIN t = DOMAIN s /\ t.row_ids = s.row_ids /\ t.next_id_value = s.next_id_value
      /\ DOMAIN t.rows = DOMAIN s.rows
      /\ \A i \in DOMAIN s.rows : t.rows[i] = ReadRow(m, s.rows[i])
  BY TableIs
<1>2. \A i \in DOMAIN s.rows : Fits(written, s.rows[i])
  BY DEF SaveFits
<1>3. Refused(m, s) <=> ~usesOnlyLive
  <2>1. ASSUME NEW i \in DOMAIN s.rows
        PROVE  DefIdRefused(m, s.rows[i].def) \/ AmountsRefused(m, s.rows[i].amounts)
                 <=> ~(Uses(written, s.rows[i]) \subseteq KeysOf(live))
    BY <1>2, RowRefused
  <2> HIDE DEF m
  <2> QED BY <2>1 DEF Refused
<1>4. \A i \in DOMAIN s.rows : Writable(written, s.rows[i])
  BY <1>2 DEF Fits, Writable
<1>5. ASSUME usesOnlyLive, NEW i \in DOMAIN s.rows
      PROVE  Fits(live, t.rows[i]) /\ Meaning(live, t.rows[i]) = Meaning(written, s.rows[i])
  BY <1>1, <1>2, <1>5, RowKept
<1>6. SaveFits(live, t) <=> \A i \in DOMAIN t.rows : Fits(live, t.rows[i])
  BY <1>1 DEF SaveFits
<1> HIDE DEF m, t, usesOnlyLive
<1>7. usesOnlyLive => SaveFits(live, t)
  BY <1>1, <1>5, <1>6
<1>8. ReadsAs(s, written, live)
  <2>1. usesOnlyLive =>
          /\ t.row_ids = s.row_ids /\ t.next_id_value = s.next_id_value
          /\ \A i \in DOMAIN s.rows : Meaning(live, t.rows[i]) = Meaning(written, s.rows[i])
    BY <1>1, <1>5
  <2> QED BY <1>3, <1>4, <2>1 DEF ReadsAs, m, t, usesOnlyLive, KeysOf
<1> QED BY <1>3, <1>7, <1>8 DEF m, t

-----------------------------------------------------------------------------
(* The theorem.                                                            *)

\* Whatever has happened to the table before the save, it is read under any
\* table of the game as it was written, or refused for a key that is gone, and
\* so is a save of what was read (save_dictionary.cpp, BuildRemap, ReadDefId,
\* ReadAmounts).
THEOREM KeysStay == ASSUME TablesSound, RowsFit PROVE Spec => []KeysKept
<1>1. IInv => KeysKept
  <2> SUFFICES ASSUME IInv, NEW live \in Tables
               PROVE  LET m == BuildRemap(FirstTable, live) IN
                      /\ ReadsAs(saved, FirstTable, live)
                      /\ ~Refused(m, saved) =>
                           \A later \in Tables : ReadsAs(ReadTable(m, saved), live, later)
    BY DEF KeysKept
  <2>1. \A keys \in Tables : Distinct(keys)
    BY DEF TablesSound, Distinct
  <2>2. FirstTable \in Tables
    BY DEF TablesSound
  <2>3. SaveFits(FirstTable, saved)
    <3>1. /\ DOMAIN saved = {"rows", "row_ids", "next_id_value"}
          /\ saved.rows \in Seq(Row)
      BY DEF IInv, GoodSave, SavedShape
    <3>2. \A i \in DOMAIN saved.rows : saved.rows[i] \in Row
      BY <3>1
    <3> QED BY <3>1, <3>2 DEF RowsFit, SaveFits, Fits
  <2> QED BY <2>1, <2>2, <2>3, TableRead
<1> QED BY <1>1, Inductive, PTL
=============================================================================
