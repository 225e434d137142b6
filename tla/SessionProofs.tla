--------------------------- MODULE SessionProofs ---------------------------
(***************************************************************************)
(* What holds of the boundary session in every reachable state, for every  *)
(* set of kinds and every bound: the promised id stays the order's id, the *)
(* session implements OrderProtocol, the journal can be replayed.          *)
(*                                                                         *)
(* The book is followed as a map, id -> row (Live), through one step: the  *)
(* issues add ids from the counter on, the withdrawals mark, the consumers *)
(* and the last judgment rewrite rows in place, the sweep takes the        *)
(* answered ids out.  Each is a fold or a rewrite of the table, with a     *)
(* lemma that says what it does to the map; StepFates puts them together.  *)
(* SessionInv, which is inductive, says of the world and of the save that  *)
(* the rows rest (accepted, under the id they were promised) and that the  *)
(* batch's rows are fresh and numbered on from the book's counter.         *)
(***************************************************************************)
EXTENDS SessionJournal, SequenceTheorems, TLAPS

\* The order rows a book may hold at any point of a step.
Refusals == {"kNone", "kChairmanAway", "kNoVacancy", "kNoConsumer"}
AnyRow == [kind : Kind, status : OrderStatus, refusal : Refusals, promised : 1..MaxOrder]

\* The book is a state table of orders: what is proved of that holds of it.
T == INSTANCE StateTableProofs
       WITH Row <- AnyRow, MaxId <- MaxOrder, table <- world.orders, saved <- saved.world.orders,
            Tables <- {}, FirstTable <- <<>>

\* A sound book, and the map id -> row it stands for.
GoodBook(b) == T!Good(b)
Live(b) == [id \in StoredIds(b) |-> RowOf(b, id)]

\* The row as a withdrawal of it leaves it.
Withdrawn(row) ==
  IF row.status \in Cancellable THEN [row EXCEPT !.status = kCancelled] ELSE row

\* One code, two names.
LEMMA SameOperators ==
  ASSUME NEW b, NEW id, NEW row
  PROVE  /\ T!FindRow(b, id) = FindRow(b, id)
         /\ T!AppendRow(b, row) = AppendRow(b, row)
         /\ T!RemoveRow(b, id) = RemoveRow(b, id)
         /\ T!StoredIds(b) = StoredIds(b)
         /\ T!Live(b) = Live(b)
         /\ T!kNoRow = kNoRow
<1>1. T!kNoRow = kNoRow /\ T!StoredIds(b) = StoredIds(b)
  BY DEF kNoRow, T!kNoRow, StoredIds, T!StoredIds
<1>2. \A k : T!FindRow(b, k) = FindRow(b, k)
  BY <1>1 DEF FindRow, T!FindRow
<1>3. T!AppendRow(b, row) = AppendRow(b, row)
  BY <1>2 DEF AppendRow, T!AppendRow, AppendWithId, T!AppendWithId
<1>4. T!RemoveRow(b, id) = RemoveRow(b, id)
  BY <1>1, <1>2 DEF RemoveRow, T!RemoveRow, LastInto, T!LastInto, LookupWithout, T!LookupWithout
<1>5. T!Live(b) = Live(b)
  BY <1>1, <1>2 DEF Live, T!Live, RowOf, T!RowOf
<1> QED BY <1>1, <1>2, <1>3, <1>4, <1>5

\* And of the orders in it.
LEMMA SameBookOperators ==
  ASSUME NEW b, NEW id, NEW row, NEW e
  PROVE  /\ T!MarkCancelled(b, id) = MarkCancelled(b, id)
         /\ T!Collected(e, row) = Collected(e, row)
         /\ T!Withdrawn(row) = Withdrawn(row) /\ T!Judged(row) = Judged(row)
         /\ T!JudgedBook(b) = JudgedBook(b) /\ T!Entries(b) = Entries(b)
         /\ T!OrderStatus = OrderStatus /\ T!Terminal = Terminal
<1>1. /\ T!OrderStatus = OrderStatus /\ T!Terminal = Terminal /\ T!Cancellable = Cancellable
      /\ T!kCancelled = kCancelled /\ T!kPending = kPending /\ T!kRefused = kRefused
  BY DEF OrderStatus, T!OrderStatus, Terminal, T!Terminal, Cancellable, T!Cancellable,
         kPending, T!kPending, kAccepted, T!kAccepted, kActive, T!kActive, kDone, T!kDone,
         kRefused, T!kRefused, kCancelled, T!kCancelled
<1>2. T!MarkCancelled(b, id) = MarkCancelled(b, id)
  BY <1>1, SameOperators DEF MarkCancelled, T!MarkCancelled
<1>3. T!Collected(e, row) = Collected(e, row)
  BY <1>1 DEF Collected, T!Collected
<1>4. T!Withdrawn(row) = Withdrawn(row)
  BY <1>1 DEF Withdrawn, T!Withdrawn
<1>5. \A q : T!Judged(q) = Judged(q)
  BY <1>1 DEF Judged, T!Judged
<1>6. T!JudgedBook(b) = JudgedBook(b)
  BY <1>5 DEF JudgedBook, T!JudgedBook
<1>7. T!Entries(b) = Entries(b)
  BY DEF Entries, T!Entries
<1> QED BY <1>1, <1>2, <1>3, <1>4, <1>5, <1>6, <1>7

\* And of the folds over them.
LEMMA SameFolds ==
  ASSUME NEW b, NEW s
  PROVE  /\ T!FoldLeft(T!AppendRow, b, s) = FoldLeft(AppendRow, b, s)
         /\ T!FoldLeft(T!MarkCancelled, b, s) = FoldLeft(MarkCancelled, b, s)
         /\ T!FoldLeft(T!RemoveRow, b, s) = FoldLeft(RemoveRow, b, s)
         /\ T!FoldLeft(T!Collected, b, s) = FoldLeft(Collected, b, s)
         /\ T!Done(b) = Done(b) /\ T!WithoutDone(b) = WithoutDone(b)
<1>1. T!FoldLeft(T!AppendRow, b, s) = FoldLeft(AppendRow, b, s)
  BY DEF FoldLeft, T!FoldLeft, MapThenFoldSet, T!MapThenFoldSet, Max, T!Max,
         AppendRow, T!AppendRow, AppendWithId, T!AppendWithId, FindRow, T!FindRow,
         kNoRow, T!kNoRow
<1>2. T!FoldLeft(T!MarkCancelled, b, s) = FoldLeft(MarkCancelled, b, s)
  BY DEF FoldLeft, T!FoldLeft, MapThenFoldSet, T!MapThenFoldSet, Max, T!Max,
         MarkCancelled, T!MarkCancelled, FindRow, T!FindRow, kNoRow, T!kNoRow,
         Cancellable, T!Cancellable, kPending, T!kPending, kAccepted,
         T!kAccepted, kCancelled, T!kCancelled
<1>3. \A c, q : T!FoldLeft(T!RemoveRow, c, q) = FoldLeft(RemoveRow, c, q)
  BY DEF FoldLeft, T!FoldLeft, MapThenFoldSet, T!MapThenFoldSet, Max, T!Max,
         RemoveRow, T!RemoveRow, LastInto, T!LastInto, LookupWithout, T!LookupWithout,
         FindRow, T!FindRow, kNoRow, T!kNoRow
<1>4. \A c, q : T!FoldLeft(T!Collected, c, q) = FoldLeft(Collected, c, q)
  BY DEF FoldLeft, T!FoldLeft, MapThenFoldSet, T!MapThenFoldSet, Max, T!Max,
         Collected, T!Collected, Terminal, T!Terminal, kDone, T!kDone,
         kRefused, T!kRefused, kCancelled, T!kCancelled
<1>5. T!Done(b) = Done(b)
  <2>1. T!Entries(b) = Entries(b)
    BY SameBookOperators
  <2> QED BY <1>4, <2>1 DEF Done, T!Done
<1>6. T!WithoutDone(b) = WithoutDone(b)
  BY <1>3, <1>5 DEF WithoutDone, T!WithoutDone
<1> QED BY <1>1, <1>2, <1>3, <1>4, <1>5, <1>6

\* Withdrawn or judged, the rows are still orders.
LEMMA RowsAreOrders == T!OrderRows
<1> SUFFICES ASSUME NEW row \in AnyRow
             PROVE  /\ "status" \in DOMAIN row /\ row.status \in T!OrderStatus
                    /\ T!Withdrawn(row) \in AnyRow /\ T!Judged(row) \in AnyRow
  BY DEF T!OrderRows
<1>1. "status" \in DOMAIN row /\ row.status \in OrderStatus
  BY DEF AnyRow
<1>2. Withdrawn(row) \in AnyRow
  BY DEF Withdrawn, AnyRow, OrderStatus, kCancelled
<1>3. Judged(row) \in AnyRow
  BY DEF Judged, AnyRow, OrderStatus, Refusals, kRefused
<1> QED BY <1>1, <1>2, <1>3, SameBookOperators

\* What a good book's parts are, in the forms the proofs use.
LEMMA BookParts ==
  ASSUME NEW b, GoodBook(b)
  PROVE  /\ b.next_id_value \in 1..(MaxOrder + 1)
         /\ b.rows \in Seq(AnyRow) /\ b.row_ids \in Seq(1..MaxOrder)
         /\ Len(b.rows) \in Nat /\ Len(b.row_ids) = Len(b.rows)
         /\ DOMAIN b.rows = 1..Len(b.rows) /\ DOMAIN b.row_ids = 1..Len(b.rows)
         /\ \A r \in 1..Len(b.rows) :
              /\ b.rows[r] \in AnyRow
              /\ b.row_ids[r] \in 1..MaxOrder /\ b.row_ids[r] < b.next_id_value
              /\ FindRow(b, b.row_ids[r]) = r
              /\ b.row_ids[r] \in StoredIds(b) /\ Live(b)[b.row_ids[r]] = b.rows[r]
         /\ \A r, q \in 1..Len(b.rows) : b.row_ids[r] = b.row_ids[q] => r = q
         /\ \A id : FindRow(b, id) # kNoRow <=> id \in StoredIds(b)
         /\ \A id \in StoredIds(b) :
              /\ FindRow(b, id) \in 1..Len(b.rows) /\ b.row_ids[FindRow(b, id)] = id
              /\ Live(b)[id] = b.rows[FindRow(b, id)]
              /\ id \in 1..MaxOrder /\ id < b.next_id_value
<1>1. T!Good(b)
  BY DEF GoodBook
<1>2. /\ T!StoredIds(b) = StoredIds(b) /\ T!Live(b) = Live(b) /\ T!kNoRow = kNoRow
      /\ \A id : T!FindRow(b, id) = FindRow(b, id)
  BY SameOperators
<1>3. /\ b.next_id_value \in 1..(MaxOrder + 1)
      /\ b.rows \in Seq(AnyRow) /\ b.row_ids \in Seq(1..MaxOrder)
      /\ Len(b.rows) \in Nat /\ Len(b.row_ids) = Len(b.rows)
      /\ DOMAIN b.rows = 1..Len(b.rows) /\ DOMAIN b.row_ids = 1..Len(b.rows)
      /\ \A r, q \in 1..Len(b.rows) : b.row_ids[r] = b.row_ids[q] => r = q
  BY <1>1, T!BookParts, BoundAssumption
<1>4. \A r \in 1..Len(b.rows) :
        /\ b.rows[r] \in AnyRow
        /\ b.row_ids[r] \in 1..MaxOrder /\ b.row_ids[r] < b.next_id_value
        /\ T!FindRow(b, b.row_ids[r]) = r
        /\ b.row_ids[r] \in T!StoredIds(b) /\ T!Live(b)[b.row_ids[r]] = b.rows[r]
  BY <1>1, T!BookParts, BoundAssumption
<1>5. \A id : T!FindRow(b, id) # T!kNoRow <=> id \in T!StoredIds(b)
  BY <1>1, T!BookParts, BoundAssumption
<1>6. \A id \in T!StoredIds(b) :
        /\ T!FindRow(b, id) \in 1..Len(b.rows) /\ b.row_ids[T!FindRow(b, id)] = id
        /\ T!Live(b)[id] = b.rows[T!FindRow(b, id)]
        /\ id \in 1..MaxOrder /\ id < b.next_id_value
  BY <1>1, T!BookParts, BoundAssumption
<1>7. \A r \in 1..Len(b.rows) :
        /\ FindRow(b, b.row_ids[r]) = r
        /\ b.row_ids[r] \in StoredIds(b) /\ Live(b)[b.row_ids[r]] = b.rows[r]
  BY <1>2, <1>4
<1>8. \A id : FindRow(b, id) # kNoRow <=> id \in StoredIds(b)
  BY <1>2, <1>5
<1>9. \A id \in StoredIds(b) :
        /\ FindRow(b, id) \in 1..Len(b.rows) /\ b.row_ids[FindRow(b, id)] = id
        /\ Live(b)[id] = b.rows[FindRow(b, id)]
        /\ id \in 1..MaxOrder /\ id < b.next_id_value
  BY <1>2, <1>6
<1> QED BY <1>3, <1>4, <1>7, <1>8, <1>9

\* Rows rewritten in place, each where it stands.
LEMMA RowsBook ==
  ASSUME NEW b, GoodBook(b), NEW rows \in Seq(AnyRow), Len(rows) = Len(b.rows)
  PROVE  LET c == [b EXCEPT !.rows = rows] IN
         /\ GoodBook(c)
         /\ c.rows = rows /\ c.row_ids = b.row_ids /\ c.next_id_value = b.next_id_value
         /\ StoredIds(c) = StoredIds(b)
         /\ \A id : FindRow(c, id) = FindRow(b, id)
         /\ Live(c) = [id \in StoredIds(b) |-> rows[FindRow(b, id)]]
<1> DEFINE c == [b EXCEPT !.rows = rows]
<1>1. /\ T!Good(c)
      /\ c.rows = rows /\ c.row_ids = b.row_ids /\ c.next_id_value = b.next_id_value
      /\ T!StoredIds(c) = T!StoredIds(b)
      /\ \A id : T!FindRow(c, id) = T!FindRow(b, id)
      /\ T!Live(c) = [id \in T!StoredIds(b) |-> rows[T!FindRow(b, id)]]
  BY T!RowsBook, BoundAssumption DEF GoodBook
<1> HIDE DEF c
<1>2. GoodBook(c) /\ StoredIds(c) = StoredIds(b) /\ \A id : FindRow(c, id) = FindRow(b, id)
  BY <1>1, SameOperators DEF GoodBook
<1>3. Live(c) = [id \in StoredIds(b) |-> rows[FindRow(b, id)]]
  <2>1. T!Live(c) = Live(c) /\ T!StoredIds(b) = StoredIds(b)
    BY SameOperators
  <2>2. \A id : T!FindRow(b, id) = FindRow(b, id)
    BY SameOperators
  <2> QED BY <1>1, <2>1, <2>2
<1> QED BY <1>1, <1>2, <1>3 DEF c

\* The book after the first k issues of a batch.
IssuedTo(b, s, k, c) ==
  /\ GoodBook(c)
  /\ c.next_id_value = b.next_id_value + k
  /\ Live(c) = [id \in StoredIds(b) \cup (b.next_id_value .. (b.next_id_value + k - 1)) |->
                  IF id \in StoredIds(b) THEN Live(b)[id] ELSE s[id - b.next_id_value + 1]]

\* The stored ids are the map's.
LEMMA StoredIs == ASSUME NEW b PROVE StoredIds(b) = DOMAIN Live(b)
  BY DEF Live

\* Appending the issues of a batch gives them the ids from the counter on.
LEMMA IssuesBook ==
  ASSUME NEW b, GoodBook(b), NEW s \in Seq(AnyRow),
         b.next_id_value + Len(s) <= MaxOrder + 1
  PROVE  IssuedTo(b, s, Len(s), FoldLeft(AppendRow, b, s))
<1>1. T!IssuedTo(b, s, Len(s), FoldLeft(AppendRow, b, s))
  BY T!IssuesBook, BoundAssumption, SameFolds DEF GoodBook
<1> QED BY <1>1, SameOperators DEF T!IssuedTo, IssuedTo, GoodBook

\* The book after the first k withdrawals of a batch.
MarkedTo(b, s, k, c) ==
  /\ GoodBook(c)
  /\ c.next_id_value = b.next_id_value
  /\ Live(c) = [id \in StoredIds(b) |->
                  IF id \in {s[j] : j \in 1..k} THEN Withdrawn(Live(b)[id]) ELSE Live(b)[id]]

\* Marking the withdrawals of a batch rewrites the rows they name, once or often.
LEMMA MarksBook ==
  ASSUME NEW b, GoodBook(b), NEW s, NEW n \in Nat, DOMAIN s = 1..n
  PROVE  MarkedTo(b, s, n, FoldLeft(MarkCancelled, b, s))
<1>1. T!MarkedTo(b, s, n, FoldLeft(MarkCancelled, b, s))
  BY T!MarksBook, BoundAssumption, SameFolds, RowsAreOrders DEF GoodBook
<1> QED BY <1>1, SameOperators, SameBookOperators DEF T!MarkedTo, MarkedTo, GoodBook

\* A row rewritten by the consumers, and by the sweep's judgement.
LEMMA ReadRow ==
  ASSUME NEW row \in AnyRow, NEW tick
  PROVE  Consumed(Gated(row, tick), tick) \in AnyRow /\ Judged(row) \in AnyRow
<1>1. Gated(row, tick) \in AnyRow
  BY DEF Gated, AnyRow, OrderStatus, Refusals, kRefused
<1>2. ASSUME NEW q \in AnyRow PROVE Consumed(q, tick) \in AnyRow
  <2>1. Closed(q) \in AnyRow
    BY DEF Closed, AnyRow, OrderStatus, Refusals, kRefused, kDone
  <2> QED BY <2>1 DEF Consumed, AnyRow, OrderStatus, kAccepted, kDone
<1>3. Judged(row) \in AnyRow
  BY DEF Judged, AnyRow, OrderStatus, Refusals, kRefused
<1> QED BY <1>1, <1>2, <1>3

\* The consumers rewrite each row by what it is, and no id changes.
LEMMA ReadBook ==
  ASSUME NEW b, GoodBook(b), NEW tick
  PROVE  /\ GoodBook(Read(b, tick))
         /\ Read(b, tick).next_id_value = b.next_id_value
         /\ Live(Read(b, tick)) =
              [id \in StoredIds(b) |-> Consumed(Gated(Live(b)[id], tick), tick)]
<1> DEFINE rows == [r \in DOMAIN b.rows |-> Consumed(Gated(b.rows[r], tick), tick)]
<1>1. rows \in Seq(AnyRow) /\ Len(rows) = Len(b.rows)
  <2>1. DOMAIN b.rows = 1..Len(b.rows) /\ Len(b.rows) \in Nat
        /\ \A r \in 1..Len(b.rows) : b.rows[r] \in AnyRow
    BY BookParts
  <2>2. \A r \in 1..Len(b.rows) : Consumed(Gated(b.rows[r], tick), tick) \in AnyRow
    BY <2>1, ReadRow
  <2> QED BY <2>1, <2>2
<1>2. Read(b, tick) = [b EXCEPT !.rows = rows]
  BY DEF Read
<1>3. \A id \in StoredIds(b) :
        rows[FindRow(b, id)] = Consumed(Gated(Live(b)[id], tick), tick)
  BY BookParts
<1> HIDE DEF rows
<1> QED BY <1>1, <1>2, <1>3, RowsBook

\* The judgment of what is still pending rewrites rows, and no id changes.
LEMMA JudgeBook ==
  ASSUME NEW b, GoodBook(b)
  PROVE  /\ GoodBook(JudgedBook(b))
         /\ JudgedBook(b).next_id_value = b.next_id_value
         /\ Live(JudgedBook(b)) = [id \in StoredIds(b) |-> Judged(Live(b)[id])]
  BY T!JudgeBook, BoundAssumption, SameOperators, SameBookOperators, RowsAreOrders DEF GoodBook

\* What a sweep emits of a map of orders: each that has its answer, once.
Answered(live, answers) ==
  /\ answers \in Seq([order : 1..MaxOrder, answer : Terminal])
  /\ \A j \in 1..Len(answers) :
       answers[j].order \in DOMAIN live /\ answers[j].answer = live[answers[j].order].status
  /\ \A id \in DOMAIN live : live[id].status \in Terminal =>
       \E j \in 1..Len(answers) : answers[j].order = id
  /\ \A i, j \in 1..Len(answers) : answers[i].order = answers[j].order => i = j

\* What a sweep leaves of it.
Opened(live) == {id \in DOMAIN live : live[id].status \notin Terminal}

\* The answers a sweep emits are those of the map, each once.
LEMMA DoneIs ==
  ASSUME NEW b, GoodBook(b)
  PROVE  Answered(Live(b), Done(b))
<1>1. T!Answered(Live(b), Done(b))
  BY T!DoneIs, BoundAssumption, SameOperators, SameFolds DEF GoodBook
<1> QED BY <1>1, SameBookOperators DEF T!Answered, Answered

\* A sweep leaves the open orders and nothing else.
LEMMA SweepBook ==
  ASSUME NEW b, GoodBook(b)
  PROVE  /\ GoodBook(WithoutDone(b))
         /\ WithoutDone(b).next_id_value = b.next_id_value
         /\ Live(WithoutDone(b)) = [id \in Opened(Live(b)) |-> Live(b)[id]]
<1>1. T!Opened(Live(b)) = Opened(Live(b))
  BY SameBookOperators DEF T!Opened, Opened
<1>2. /\ T!Good(T!WithoutDone(b)) /\ T!WithoutDone(b).next_id_value = b.next_id_value
      /\ T!Live(T!WithoutDone(b)) = [id \in T!Opened(T!Live(b)) |-> T!Live(b)[id]]
  BY T!SweepBook, BoundAssumption DEF GoodBook
<1>3. T!WithoutDone(b) = WithoutDone(b)
  BY SameFolds
<1>4. T!Live(b) = Live(b) /\ T!Live(WithoutDone(b)) = Live(WithoutDone(b))
  BY SameOperators
<1> QED BY <1>1, <1>2, <1>3, <1>4 DEF GoodBook

\* A row between two steps: accepted, or it would have been swept.
Resting(row, id) ==
  row \in AnyRow /\ row.status = kAccepted /\ row.refusal = "kNone" /\ row.promised = id

\* A book between two steps.
RestingBook(b) == GoodBook(b) /\ \A id \in StoredIds(b) : Resting(Live(b)[id], id)

\* A staged row, with the id it was promised.
Fresh(row, id) ==
  row \in AnyRow /\ row.status = kPending /\ row.refusal = "kNone" /\ row.promised = id

\* A batch whose rows have the ids the book's counter will give them.
BatchFor(b, batch) ==
  /\ batch \in [issued : Seq(AnyRow), cancelled : Seq(1..MaxOrder)]
  /\ b.next_id_value + Len(batch.issued) <= MaxOrder + 1
  /\ \A k \in 1..Len(batch.issued) : Fresh(batch.issued[k], b.next_id_value + k - 1)

\* The ids that are open when a step begins.
OpenIds(b, batch) ==
  StoredIds(b) \cup (b.next_id_value .. (b.next_id_value + Len(batch.issued) - 1))

\* What may have become of the order of an id when a step has looked at it.
Fate(row, id, revoked) ==
  /\ row \in AnyRow /\ row.promised = id
  /\ IF id \in revoked THEN row.status = kCancelled
     ELSE \/ row.status = kAccepted /\ row.refusal = "kNone"
          \/ row.status \in {kDone, kRefused}

\* A fate for every order that is open.
FateIn(w, batch, fate) ==
  /\ DOMAIN fate = OpenIds(w.orders, batch)
  /\ \A id \in DOMAIN fate : Fate(fate[id], id, RevokedBy(batch))

\* What the gate, the consumers and the judgment make of one row, withdrawn or
\* not: a withdrawn order is cancelled and nothing else.
LEMMA FateOfRow ==
  ASSUME NEW id, NEW tick, NEW row, Resting(row, id) \/ Fresh(row, id), NEW revoked,
         NEW wished, wished = IF id \in revoked THEN Withdrawn(row) ELSE row
  PROVE  Fate(Judged(Consumed(Gated(wished, tick), tick)), id, revoked)
<1> DEFINE seen == Gated(wished, tick)
           read == Consumed(seen, tick)
<1>1. /\ row \in AnyRow /\ row.status \in {kAccepted, kPending}
      /\ row.refusal = "kNone" /\ row.promised = id
  BY DEF Resting, Fresh
<1>2. CASE id \in revoked
  <2>1. wished = [row EXCEPT !.status = kCancelled]
    BY <1>1, <1>2 DEF Withdrawn, Cancellable
  <2>2. wished \in AnyRow /\ wished.status = kCancelled /\ wished.promised = id
    BY <1>1, <2>1 DEF AnyRow, OrderStatus
  <2> HIDE DEF seen, read
  <2>3. seen = wished
    BY <2>2 DEF seen, Gated, kCancelled, kPending
  <2>4. read = seen
    BY <2>2, <2>3 DEF read, Consumed, kCancelled, kPending, kAccepted
  <2>5. Judged(read) = wished
    BY <2>2, <2>3, <2>4 DEF Judged, kCancelled, kPending
  <2> QED BY <1>2, <2>2, <2>5 DEF Fate, read, seen
<1>3. CASE id \notin revoked
  <2>1. wished = row
    BY <1>3
  <2> HIDE DEF seen, read
  <2>2. /\ seen \in AnyRow /\ seen.promised = id
        /\ \/ seen.status = kRefused
           \/ seen.status \in {kAccepted, kPending} /\ seen.refusal = "kNone"
    <3>1. CASE tick \in AwayTicks /\ row.status = kPending /\ row.kind \notin DistrictDoor
      <4>1. seen = [row EXCEPT !.status = kRefused, !.refusal = "kChairmanAway"]
        BY <2>1, <3>1 DEF seen, Gated
      <4> QED BY <1>1, <4>1 DEF AnyRow, OrderStatus, Refusals
    <3>2. CASE ~(tick \in AwayTicks /\ row.status = kPending /\ row.kind \notin DistrictDoor)
      <4>1. seen = row
        BY <2>1, <3>2 DEF seen, Gated
      <4> QED BY <1>1, <4>1
    <3> QED BY <3>1, <3>2
  <2>3. /\ read \in AnyRow /\ read.promised = id
        /\ \/ read.status \in {kRefused, kDone}
           \/ read.status \in {kAccepted, kPending} /\ read.refusal = "kNone"
    <3>1. CASE seen.status = kAccepted /\ DayCloses(tick)
      <4>1. read = Closed(seen)
        BY <3>1 DEF read, Consumed, kAccepted, kPending
      <4>2. CASE seen.kind \in Failing
        <5>1. read = [seen EXCEPT !.status = kRefused, !.refusal = "kNoVacancy"]
          BY <4>1, <4>2 DEF Closed
        <5> QED BY <2>2, <5>1 DEF AnyRow, OrderStatus, Refusals
      <4>3. CASE seen.kind \notin Failing
        <5>1. read = [seen EXCEPT !.status = kDone]
          BY <4>1, <4>3 DEF Closed
        <5> QED BY <2>2, <5>1 DEF AnyRow, OrderStatus, Refusals
      <4> QED BY <4>2, <4>3
    <3>2. CASE seen.status = kPending /\ seen.kind \in Waiting
      <4>1. ~(seen.status = kAccepted)
        BY <3>2 DEF kPending, kAccepted
      <4>2. seen.kind \notin Settling
        BY <3>2, KindAssumption
      <4>3. read = [seen EXCEPT !.status = kAccepted]
        BY <3>2, <4>1, <4>2 DEF read, Consumed
      <4> QED BY <2>2, <3>2, <4>3 DEF AnyRow, OrderStatus, Refusals, kPending, kRefused
    <3>3. CASE seen.status = kPending /\ seen.kind \in Settling
      <4>1. ~(seen.status = kAccepted)
        BY <3>3 DEF kPending, kAccepted
      <4>2. seen.kind \notin Waiting
        BY <3>3, KindAssumption
      <4>3. read = [seen EXCEPT !.status = kDone]
        BY <3>3, <4>1, <4>2 DEF read, Consumed
      <4> QED BY <2>2, <4>3 DEF AnyRow, OrderStatus, Refusals
    <3>4. CASE /\ ~(seen.status = kAccepted /\ DayCloses(tick))
               /\ ~(seen.status = kPending /\ seen.kind \in Waiting)
               /\ ~(seen.status = kPending /\ seen.kind \in Settling)
      <4>1. read = seen
        BY <3>4 DEF read, Consumed
      <4> QED BY <2>2, <4>1
    <3> QED BY <3>1, <3>2, <3>3, <3>4
  <2>4. CASE read.status = kPending
    <3>1. Judged(read) = [read EXCEPT !.status = kRefused, !.refusal = "kNoConsumer"]
      BY <2>4 DEF Judged
    <3>2. Judged(read) \in AnyRow /\ Judged(read).promised = id /\ Judged(read).status = kRefused
      BY <2>3, <3>1 DEF AnyRow, OrderStatus, Refusals
    <3> QED BY <1>3, <3>2 DEF Fate, read, seen
  <2>5. CASE read.status # kPending
    <3>1. Judged(read) = read
      BY <2>5 DEF Judged
    <3> QED BY <1>3, <2>3, <2>5, <3>1 DEF Fate, read, seen
  <2> QED BY <2>4, <2>5
<1> QED BY <1>2, <1>3

\* A step, order by order: what is open has a fate, what has its answer is
\* answered, once and by its fate, and the rest stands.
LEMMA StepFates ==
  ASSUME NEW w, NEW batch, RestingBook(w.orders), BatchFor(w.orders, batch)
  PROVE  LET v == StepOf(w, batch) IN
         /\ v.orders.next_id_value = w.orders.next_id_value + Len(batch.issued)
         /\ GoodBook(v.orders)
         /\ \E fate : /\ FateIn(w, batch, fate)
                      /\ Live(v.orders) = [id \in Opened(fate) |-> fate[id]]
                      /\ Answered(fate, v.step_events)
<1> DEFINE b == w.orders
           next == b.next_id_value
           n == Len(batch.issued)
           tick == w.tick + 1
           b1 == FoldLeft(AppendRow, b, batch.issued)
           b2 == FoldLeft(MarkCancelled, b1, batch.cancelled)
           b3 == Read(b2, tick)
           b4 == JudgedBook(b3)
           fate == Live(b4)
           v == StepOf(w, batch)
<1>1. v.orders = WithoutDone(b4) /\ v.step_events = Done(b4)
  BY DEF StepOf, ApplyBatch, SweptBook, Answers
<1>2. n \in Nat /\ next \in Nat /\ GoodBook(b)
  BY BookParts DEF RestingBook, BatchFor
<1> HIDE DEF v
<1>3. IssuedTo(b, batch.issued, n, b1)
  BY <1>2, IssuesBook DEF BatchFor
<1> HIDE DEF b1
<1>4. /\ GoodBook(b1) /\ b1.next_id_value = next + n
      /\ StoredIds(b1) = OpenIds(b, batch)
      /\ \A id \in OpenIds(b, batch) :
           Live(b1)[id] = IF id \in StoredIds(b) THEN Live(b)[id] ELSE batch.issued[id - next + 1]
  BY <1>3, StoredIs DEF IssuedTo, OpenIds
<1>5. ASSUME NEW id \in OpenIds(b, batch)
      PROVE  Resting(Live(b1)[id], id) \/ Fresh(Live(b1)[id], id)
  <2>1. CASE id \in StoredIds(b)
    BY <1>4, <2>1 DEF RestingBook
  <2>2. CASE id \notin StoredIds(b)
    <3>1. id \in next .. (next + n - 1)
      BY <2>2 DEF OpenIds
    <3>2. id - next + 1 \in 1..n /\ next + (id - next + 1) - 1 = id
      <4>1. \A i, a, k \in Int : i \in a .. (a + k - 1) =>
              i - a + 1 \in 1..k /\ a + (i - a + 1) - 1 = i
        OBVIOUS
      <4>2. id \in Int /\ next \in Int /\ n \in Int
        BY <1>2, <3>1
      <4> HIDE DEF next, n
      <4> QED BY <3>1, <4>1, <4>2
    <3>3. Fresh(batch.issued[id - next + 1], id)
      <4> DEFINE k == id - next + 1
      <4>1. Fresh(batch.issued[k], next + k - 1)
        BY <3>2 DEF BatchFor
      <4>2. next + k - 1 = id
        BY <3>2
      <4> HIDE DEF k
      <4>3. Fresh(batch.issued[k], id)
        BY <4>1, <4>2
      <4> QED BY <4>3 DEF k
    <3> QED BY <1>4, <2>2, <3>3
  <2> QED BY <2>1, <2>2
<1> DEFINE m == Len(batch.cancelled)
           revoked == RevokedBy(batch)
<1>6. m \in Nat /\ DOMAIN batch.cancelled = 1..m
      /\ revoked = {batch.cancelled[j] : j \in 1..m}
  BY DEF BatchFor, RevokedBy
<1> HIDE DEF m, revoked
<1>7. MarkedTo(b1, batch.cancelled, m, b2)
  BY <1>4, <1>6, MarksBook
<1> HIDE DEF b2
<1>8. /\ GoodBook(b2) /\ b2.next_id_value = next + n
      /\ StoredIds(b2) = OpenIds(b, batch)
      /\ \A id \in OpenIds(b, batch) :
           Live(b2)[id] = IF id \in revoked THEN Withdrawn(Live(b1)[id]) ELSE Live(b1)[id]
  BY <1>4, <1>6, <1>7, StoredIs DEF MarkedTo
<1> HIDE DEF tick
<1>9. /\ GoodBook(b3) /\ b3.next_id_value = next + n
      /\ StoredIds(b3) = OpenIds(b, batch)
      /\ \A id \in OpenIds(b, batch) :
           Live(b3)[id] = Consumed(Gated(Live(b2)[id], tick), tick)
  BY <1>8, ReadBook, StoredIs
<1> HIDE DEF b3
<1>10. /\ GoodBook(b4) /\ b4.next_id_value = next + n
       /\ DOMAIN fate = OpenIds(b, batch)
       /\ \A id \in OpenIds(b, batch) : fate[id] = Judged(Live(b3)[id])
  BY <1>9, JudgeBook, StoredIs
<1> HIDE DEF b4
<1>11. ASSUME NEW id \in OpenIds(b, batch)
       PROVE  Fate(fate[id], id, revoked)
  <2> DEFINE wished == Live(b2)[id]
             row == Live(b1)[id]
  <2>1. wished = IF id \in revoked THEN Withdrawn(row) ELSE row
    BY <1>8
  <2>2. fate[id] = Judged(Consumed(Gated(wished, tick), tick))
    BY <1>9, <1>10
  <2>3. Resting(row, id) \/ Fresh(row, id)
    BY <1>5
  <2> HIDE DEF wished, row
  <2> QED BY <2>1, <2>2, <2>3, FateOfRow
<1>12. FateIn(w, batch, fate)
  BY <1>10, <1>11 DEF FateIn, revoked
<1>13. /\ GoodBook(WithoutDone(b4)) /\ WithoutDone(b4).next_id_value = next + n
       /\ Live(WithoutDone(b4)) = [id \in Opened(fate) |-> fate[id]]
       /\ Answered(fate, Done(b4))
  BY <1>10, SweepBook, DoneIs
<1> HIDE DEF fate
<1> QED BY <1>1, <1>12, <1>13 DEF v

-----------------------------------------------------------------------------
\* A completed world and the batch that waits for its next step.
Sound(w, batch) ==
  /\ w = [tick |-> w.tick, orders |-> w.orders, step_events |-> w.step_events]
  /\ w.tick \in 0..MaxTick
  /\ w.step_events \in Seq([order : 1..MaxOrder, answer : Terminal])
  /\ RestingBook(w.orders)
  /\ BatchFor(w.orders, batch)

\* The inductive invariant of the session.
SessionInv ==
  /\ Sound(world, staged)
  /\ Sound(saved.world, saved.staged) /\ saved.world.step_events = <<>>

\* An empty batch waits for any book.
LEMMA NoBatch ==
  ASSUME NEW b, GoodBook(b)
  PROVE  BatchFor(b, EmptyBatch)
<1>1. b.next_id_value \in 1..(MaxOrder + 1)
  BY BookParts
<1> QED BY <1>1, BoundAssumption DEF BatchFor, EmptyBatch

\* The first world is sound.
LEMMA StartSound == Sound(StartWorld, EmptyBatch)
<1>1. T!Good(T!EmptyTable)
  BY T!EmptyGood, BoundAssumption
<1>2. T!EmptyTable = EmptyTable
  BY DEF EmptyTable, T!EmptyTable, kNoRow, T!kNoRow
<1>3. GoodBook(EmptyTable)
  BY <1>1, <1>2 DEF GoodBook
<1>4. StoredIds(EmptyTable) = {}
  BY DEF StoredIds, EmptyTable
<1>5. RestingBook(EmptyTable) /\ BatchFor(EmptyTable, EmptyBatch)
  BY <1>3, <1>4, NoBatch DEF RestingBook
<1>6. 0 \in 0..MaxTick
  BY BoundAssumption
<1> QED BY <1>5, <1>6 DEF Sound, StartWorld

\* A step leaves a sound world and an empty batch.
LEMMA StepSound ==
  ASSUME NEW w, NEW batch, Sound(w, batch), w.tick < MaxTick
  PROVE  Sound(StepOf(w, batch), EmptyBatch)
<1> DEFINE v == StepOf(w, batch)
<1>1. /\ v = [tick |-> v.tick, orders |-> v.orders, step_events |-> v.step_events]
      /\ v.tick = w.tick + 1
  BY DEF StepOf
<1>2. RestingBook(w.orders) /\ BatchFor(w.orders, batch)
  BY DEF Sound
<1>3. /\ GoodBook(v.orders)
      /\ \E fate : /\ FateIn(w, batch, fate)
                   /\ Live(v.orders) = [id \in Opened(fate) |-> fate[id]]
                   /\ Answered(fate, v.step_events)
  BY <1>2, StepFates
<1> HIDE DEF v
<1>4. PICK fate : /\ FateIn(w, batch, fate)
                  /\ Live(v.orders) = [id \in Opened(fate) |-> fate[id]]
                  /\ Answered(fate, v.step_events)
  BY <1>3
<1>5. ASSUME NEW id \in StoredIds(v.orders)
      PROVE  Resting(Live(v.orders)[id], id)
  <2>1. id \in Opened(fate) /\ Live(v.orders)[id] = fate[id]
    BY <1>4, StoredIs
  <2>2. id \in DOMAIN fate /\ fate[id].status \notin Terminal
    BY <2>1 DEF Opened
  <2>3. Fate(fate[id], id, RevokedBy(batch))
    BY <1>4, <2>2 DEF FateIn
  <2>4. fate[id].status = kAccepted /\ fate[id].refusal = "kNone"
    BY <2>2, <2>3 DEF Fate, Terminal
  <2> QED BY <2>1, <2>3, <2>4 DEF Resting, Fate
<1>6. RestingBook(v.orders)
  BY <1>3, <1>5 DEF RestingBook
<1>7. v.tick \in 0..MaxTick
  BY <1>1, BoundAssumption DEF Sound
<1>8. v.step_events \in Seq([order : 1..MaxOrder, answer : Terminal])
  BY <1>4 DEF Answered
<1>9. BatchFor(v.orders, EmptyBatch)
  BY <1>3, NoBatch
<1>10. Sound(v, EmptyBatch)
  BY <1>1, <1>6, <1>7, <1>8, <1>9 DEF Sound
<1> QED BY <1>10 DEF v

\* An issue promises the id the book will give.
LEMMA IssueSound ==
  ASSUME NEW w, NEW batch, Sound(w, batch), NEW kind \in Kind, Promise(w, batch) <= MaxOrder
  PROVE  Sound(w, [batch EXCEPT !.issued = Append(@, StagedRow(kind, Promise(w, batch)))])
<1> DEFINE b == w.orders
           next == b.next_id_value
           n == Len(batch.issued)
           row == StagedRow(kind, Promise(w, batch))
           more == Append(batch.issued, row)
           c == [batch EXCEPT !.issued = more]
<1>1. n \in Nat /\ next \in 1..(MaxOrder + 1) /\ batch.issued \in Seq(AnyRow)
  BY BookParts DEF Sound, RestingBook, BatchFor
<1>2. Promise(w, batch) = next + n
  BY DEF Promise, StagedIdBase
<1>3. next + n \in 1..MaxOrder
  BY <1>1, <1>2, BoundAssumption
<1>4. Fresh(row, next + n)
  BY <1>2, <1>3 DEF Fresh, StagedRow, AnyRow, OrderStatus, Refusals
<1> HIDE DEF row
<1>5. /\ more \in Seq(AnyRow) /\ Len(more) = n + 1
      /\ more[n + 1] = row
      /\ \A k \in 1..n : more[k] = batch.issued[k]
  BY <1>1, <1>4 DEF Fresh
<1>6. c.issued = more /\ c.cancelled = batch.cancelled
      /\ c = [issued |-> more, cancelled |-> batch.cancelled]
      /\ batch.cancelled \in Seq(1..MaxOrder)
  <2>1. /\ batch = [issued |-> batch.issued, cancelled |-> batch.cancelled]
        /\ batch.cancelled \in Seq(1..MaxOrder)
    BY DEF Sound, BatchFor
  <2> HIDE DEF more
  <2> QED BY <2>1
<1> HIDE DEF more
<1>7. ASSUME NEW k \in 1..Len(more)
      PROVE  Fresh(more[k], next + k - 1)
  <2>1. CASE k = n + 1
    <3>1. next + k - 1 = next + n
      BY <1>1, <2>1
    <3> QED BY <1>4, <1>5, <2>1, <3>1
  <2>2. CASE k # n + 1
    <3>1. k \in 1..n
      BY <1>1, <1>5, <2>2
    <3> HIDE DEF next
    <3> QED BY <1>5, <3>1 DEF Sound, BatchFor, next
  <2> QED BY <2>1, <2>2
<1>8. next + Len(more) <= MaxOrder + 1
  BY <1>1, <1>3, <1>5, BoundAssumption
<1> HIDE DEF c
<1>9. BatchFor(b, c)
  BY <1>5, <1>6, <1>7, <1>8 DEF BatchFor
<1>10. Sound(w, c)
  BY <1>9 DEF Sound
<1> QED BY <1>10 DEF c, more, row

\* A withdrawal leaves the batch's rows alone.
LEMMA CancelSound ==
  ASSUME NEW w, NEW batch, Sound(w, batch), NEW id \in 1..MaxOrder
  PROVE  Sound(w, WithCancelled(batch, id))
<1> DEFINE c == WithCancelled(batch, id)
           more == Append(batch.cancelled, id)
<1>1. batch.cancelled \in Seq(1..MaxOrder) /\ batch.issued \in Seq(AnyRow)
  BY DEF Sound, BatchFor
<1>2. more \in Seq(1..MaxOrder)
  BY <1>1
<1>3. c.issued = batch.issued /\ c.cancelled = more
      /\ c = [issued |-> batch.issued, cancelled |-> more]
  <2>1. batch = [issued |-> batch.issued, cancelled |-> batch.cancelled]
    BY DEF Sound, BatchFor
  <2>2. c = [batch EXCEPT !.cancelled = more]
    BY DEF WithCancelled
  <2> HIDE DEF c, more
  <2> QED BY <2>1, <2>2
<1> HIDE DEF c, more
<1>4. BatchFor(w.orders, c)
  BY <1>1, <1>2, <1>3 DEF Sound, BatchFor
<1>5. Sound(w, c)
  BY <1>4 DEF Sound
<1> QED BY <1>5 DEF c

\* Every action of the session keeps the invariant.
LEMMA SessionStep ==
  ASSUME SessionInv, [Next]_svars
  PROVE  SessionInv'
<1>1. CASE AdvanceStep
  <2>1. Sound(world', staged')
    BY <1>1, StepSound DEF AdvanceStep, SessionInv
  <2> QED BY <1>1, <2>1 DEF AdvanceStep, SessionInv
<1>2. ASSUME NEW kind \in Kind, IssueOrder(kind)
      PROVE  SessionInv'
  <2>1. Promise(world, staged) <= MaxOrder
    BY <1>2 DEF IssueOrder, Promise
  <2>2. Sound(world', staged')
    BY <1>2, <2>1, IssueSound DEF IssueOrder, SessionInv
  <2> QED BY <1>2, <2>2 DEF IssueOrder, SessionInv
<1>3. ASSUME NEW id \in 1..MaxOrder, CancelOrder(id)
      PROVE  SessionInv'
  <2>1. Sound(world', staged')
    BY <1>3, CancelSound DEF CancelOrder, SessionInv
  <2> QED BY <1>3, <2>1 DEF CancelOrder, SessionInv
<1>4. CASE Save
  <2> DEFINE w == [world EXCEPT !.step_events = <<>>]
  <2>1. world = [tick |-> world.tick, orders |-> world.orders, step_events |-> world.step_events]
    BY DEF SessionInv, Sound
  <2>2. w = [tick |-> world.tick, orders |-> world.orders, step_events |-> <<>>]
    BY <2>1
  <2>3. Sound(w, staged) /\ w.step_events = <<>>
    BY <2>2 DEF SessionInv, Sound
  <2>4. saved'.world = w /\ saved'.staged = staged
    BY <1>4 DEF Save
  <2> HIDE DEF w
  <2> QED BY <1>4, <2>3, <2>4 DEF Save, SessionInv
<1>5. CASE ReplaceWorld
  <2>1. BatchFor(saved.world.orders, EmptyBatch)
    BY NoBatch DEF SessionInv, Sound, RestingBook
  <2>2. Sound(saved.world, EmptyBatch)
    BY <2>1 DEF SessionInv, Sound
  <2> QED BY <1>5, <2>2 DEF ReplaceWorld, Replaced, SessionInv
<1>6. CASE ReplaceWorldWithBatch
  BY <1>6 DEF ReplaceWorldWithBatch, Replaced, SessionInv
<1>7. CASE UNCHANGED svars
  BY <1>7 DEF svars, SessionInv
<1> QED BY <1>1, <1>2, <1>3, <1>4, <1>5, <1>6, <1>7 DEF Next

\* The session is sound in every reachable state.
LEMMA SessionSound == Spec => []SessionInv
<1>1. Init => SessionInv
  <2>1. StartWorld.step_events = <<>>
    BY DEF StartWorld
  <2> QED BY <2>1, StartSound DEF Init, SessionInv
<1> QED BY <1>1, SessionStep, PTL DEF Spec

\* Every world and batch is well typed: between two steps the book holds
\* accepted rows only, whatever the step read, refused or settled
\* (EventsSlot::SweepOrderBook leaves no answered row behind).
THEOREM SessionTypes == Spec => []TypeOK
<1>1. SessionInv => TypeOK
  <2> SUFFICES ASSUME SessionInv PROVE TypeOK
    OBVIOUS
  <2> DEFINE rows == world.orders.rows
             issued == staged.issued
             Y == [kind : Kind, status : {kAccepted}, refusal : {"kNone"}, promised : 1..MaxOrder]
  <2>1. GoodBook(world.orders) /\ issued \in Seq(AnyRow)
    BY DEF SessionInv, Sound, RestingBook, BatchFor
  <2>2. rows \in Seq(AnyRow) /\ world.orders.row_ids \in Seq(1..MaxOrder)
    BY <2>1, BookParts
  <2>3. \A r \in 1..Len(rows) : rows[r] \in Y
    <3> SUFFICES ASSUME NEW r \in 1..Len(rows) PROVE rows[r] \in Y
      OBVIOUS
    <3> DEFINE id == world.orders.row_ids[r]
    <3>1. id \in StoredIds(world.orders) /\ Live(world.orders)[id] = rows[r]
      BY <2>1, BookParts
    <3>2. Resting(rows[r], id)
      BY <3>1 DEF SessionInv, Sound, RestingBook
    <3> QED BY <3>2 DEF Resting, AnyRow
  <2>4. \A k \in 1..Len(issued) : issued[k] \in Row
    <3> SUFFICES ASSUME NEW k \in 1..Len(issued) PROVE issued[k] \in Row
      OBVIOUS
    <3> DEFINE id == world.orders.next_id_value + k - 1
    <3>1. Fresh(issued[k], id)
      BY DEF SessionInv, Sound, BatchFor
    <3> QED BY <3>1 DEF Fresh, AnyRow, Row
  <2>5. staged.cancelled \in Seq(1..MaxOrder)
    BY DEF SessionInv, Sound, BatchFor
  <2> DEFINE Whole == AnyRow
             Staged == Row
  <2>6. rows \in Seq(Whole) /\ issued \in Seq(Whole) /\ \A k \in 1..Len(issued) : issued[k] \in Staged
    BY <2>1, <2>2, <2>4
  <2> HIDE DEF Y, Whole, Staged, rows, issued
  <2>7. rows \in Seq(Y)
    BY <2>3, <2>6
  <2>8. issued \in Seq(Staged)
    BY <2>6
  <2> USE DEF Y, Staged, rows, issued
  <2> QED BY <2>2, <2>5, <2>7, <2>8 DEF TypeOK, SessionInv, Sound
<1> QED BY <1>1, SessionSound, PTL

\* A sound session keeps its promises.
LEMMA PromiseOfSound ==
  ASSUME SessionInv
  PROVE  PromiseKept
<1>1. \A r \in DOMAIN world.orders.rows : world.orders.rows[r].promised = world.orders.row_ids[r]
  <2> SUFFICES ASSUME NEW r \in DOMAIN world.orders.rows
               PROVE  world.orders.rows[r].promised = world.orders.row_ids[r]
    OBVIOUS
  <2>1. GoodBook(world.orders)
    BY DEF SessionInv, Sound, RestingBook
  <2> DEFINE id == world.orders.row_ids[r]
  <2>2. id \in StoredIds(world.orders) /\ Live(world.orders)[id] = world.orders.rows[r]
    BY <2>1, BookParts
  <2>3. Resting(Live(world.orders)[id], id)
    BY <2>2 DEF SessionInv, Sound, RestingBook
  <2> QED BY <2>2, <2>3 DEF Resting
<1>2. \A k \in DOMAIN staged.issued : staged.issued[k].promised = StagedIdBase(world) + k - 1
  <2>1. staged.issued \in Seq(AnyRow)
        /\ \A k \in 1..Len(staged.issued) :
             Fresh(staged.issued[k], world.orders.next_id_value + k - 1)
    BY DEF SessionInv, Sound, BatchFor
  <2> QED BY <2>1 DEF Fresh, StagedIdBase
<1> QED BY <1>1, <1>2 DEF PromiseKept

\* The id a caller was told at the issue is the id its row has, for as long as it
\* waits in the batch or stands in the book (session.cpp, IssueOrder; ONE APPENDER
\* of order_state.h).
THEOREM PromisesKept == Spec => []PromiseKept
  BY SessionSound, PromiseOfSound, PTL

-----------------------------------------------------------------------------
\* The life of an id, read off the book's counter and the batch's length.
LEMMA LifeIs ==
  ASSUME NEW w, NEW batch, Sound(w, batch), NEW id \in 1..MaxOrder
  PROVE  LifeOf(w, batch)[id] =
           IF id \in StoredIds(w.orders) THEN "standing"
           ELSE IF id < w.orders.next_id_value THEN "gone"
           ELSE IF id < w.orders.next_id_value + Len(batch.issued) THEN "promised" ELSE "none"
<1>1. GoodBook(w.orders) /\ w.orders.next_id_value \in Nat /\ Len(batch.issued) \in Nat
  <2>1. GoodBook(w.orders) /\ batch.issued \in Seq(AnyRow)
    BY DEF Sound, RestingBook, BatchFor
  <2> QED BY <2>1, BookParts
<1>2. FindRow(w.orders, id) # kNoRow <=> id \in StoredIds(w.orders)
  BY <1>1, BookParts
<1> QED BY <1>1, <1>2 DEF LifeOf, IsStagedIssue, StagedIdBase

\* The ids that are open are those that stand or are promised.
LEMMA OpenIs ==
  ASSUME NEW w, NEW batch, Sound(w, batch), NEW id \in 1..MaxOrder
  PROVE  id \in OpenIds(w.orders, batch) <=> LifeOf(w, batch)[id] \in {"standing", "promised"}
<1>1. /\ w.orders.next_id_value \in Nat /\ Len(batch.issued) \in Nat
      /\ \A k \in StoredIds(w.orders) : k < w.orders.next_id_value
  <2>1. GoodBook(w.orders) /\ batch.issued \in Seq(AnyRow)
    BY DEF Sound, RestingBook, BatchFor
  <2> QED BY <2>1, BookParts
<1> QED BY <1>1, LifeIs DEF OpenIds

\* The words with which an id is answered.
WordFor(answers, id) ==
  {answers[k].answer : k \in {j \in DOMAIN answers : answers[j].order = id}}

\* What the protocol lets a step make of an order.
StepOfLife(old, new, word, withdrawn) ==
  IF old \in {"none", "gone"}
  THEN new = old /\ word = {}
  ELSE \/ new = "standing" /\ word = {} /\ ~withdrawn
       \/ new = "gone" /\ word = {"cancelled"} /\ withdrawn
       \/ new = "gone" /\ word \in {{"done"}, {"refused"}} /\ ~withdrawn

\* A step makes of every order what the protocol lets it.
LEMMA StepLife ==
  ASSUME NEW w, NEW batch, Sound(w, batch), w.tick < MaxTick, NEW id \in 1..MaxOrder
  PROVE  StepOfLife(LifeOf(w, batch)[id], LifeOf(StepOf(w, batch), EmptyBatch)[id],
                    WordFor(StepOf(w, batch).step_events, id), id \in RevokedBy(batch))
<1> DEFINE v == StepOf(w, batch)
           next == w.orders.next_id_value
           n == Len(batch.issued)
           old == LifeOf(w, batch)[id]
           new == LifeOf(v, EmptyBatch)[id]
           word == WordFor(v.step_events, id)
<1>1. Sound(v, EmptyBatch)
  BY StepSound
<1>2. /\ v.orders.next_id_value = next + n
      /\ \E fate : /\ FateIn(w, batch, fate)
                   /\ Live(v.orders) = [k \in Opened(fate) |-> fate[k]]
                   /\ Answered(fate, v.step_events)
  BY StepFates DEF Sound
<1> HIDE DEF v
<1>3. PICK fate : /\ FateIn(w, batch, fate)
                  /\ Live(v.orders) = [k \in Opened(fate) |-> fate[k]]
                  /\ Answered(fate, v.step_events)
  BY <1>2
<1>4. next \in Nat /\ n \in Nat
  <2>1. GoodBook(w.orders) /\ batch.issued \in Seq(AnyRow)
    BY DEF Sound, RestingBook, BatchFor
  <2> QED BY <2>1, BookParts
<1>5. /\ StoredIds(v.orders) = Opened(fate)
      /\ DOMAIN fate = OpenIds(w.orders, batch)
      /\ DOMAIN v.step_events = 1..Len(v.step_events)
  BY <1>3, StoredIs DEF FateIn, Answered
<1>6. new = IF id \in Opened(fate) THEN "standing" ELSE IF id < next + n THEN "gone" ELSE "none"
  <2>1. Len(EmptyBatch.issued) = 0 /\ next + n + 0 = next + n
    BY <1>4 DEF EmptyBatch
  <2> HIDE DEF new, next, n
  <2> QED BY <1>1, <1>2, <1>5, <2>1, LifeIs DEF new
<1>7. old = IF id \in StoredIds(w.orders) THEN "standing"
            ELSE IF id < next THEN "gone" ELSE IF id < next + n THEN "promised" ELSE "none"
  BY LifeIs
<1>8. id \in OpenIds(w.orders, batch) <=> old \in {"standing", "promised"}
  BY OpenIs
<1>9. \A k \in StoredIds(w.orders) : k < next
  BY BookParts DEF Sound, RestingBook
<1>10. CASE id \notin OpenIds(w.orders, batch)
  <2>1. id \notin Opened(fate)
    BY <1>5, <1>10 DEF Opened
  <2>2. word = {}
    BY <1>3, <1>5, <1>10 DEF Answered, WordFor
  <2>3. old = IF id < next THEN "gone" ELSE "none"
    BY <1>7, <1>8, <1>10
  <2>4. id < next => id < next + n
    BY <1>4
  <2>5. old = "none" => ~(id < next + n)
    BY <1>7, <1>8, <1>10, <2>3
  <2>6. new = old
    BY <1>6, <2>1, <2>3, <2>4, <2>5
  <2> QED BY <2>2, <2>3, <2>6 DEF StepOfLife, v
<1>11. CASE id \in OpenIds(w.orders, batch)
  <2>1. old \in {"standing", "promised"} /\ id < next + n
    <3>1. old \in {"standing", "promised"}
      BY <1>8, <1>11
    <3>2. CASE id \in StoredIds(w.orders)
      <4>1. id < next
        BY <1>9, <3>2
      <4> HIDE DEF next, n
      <4>2. id < next + n
        BY <1>4, <4>1
      <4> QED BY <3>1, <4>2
    <3>3. CASE id \notin StoredIds(w.orders)
      BY <1>7, <3>1, <3>3
    <3> QED BY <3>1, <3>2, <3>3
  <2>2. Fate(fate[id], id, RevokedBy(batch))
    BY <1>3, <1>5, <1>11 DEF FateIn
  <2>3. CASE fate[id].status \in Terminal
    <3>1. id \notin Opened(fate)
      BY <2>3 DEF Opened
    <3>2. new = "gone"
      BY <1>6, <2>1, <3>1
    <3>3. PICK j \in 1..Len(v.step_events) : v.step_events[j].order = id
      BY <1>3, <1>5, <1>11, <2>3 DEF Answered
    <3>4. \A k \in 1..Len(v.step_events) :
            v.step_events[k].order = id => v.step_events[k].answer = fate[id].status
      BY <1>3 DEF Answered
    <3>5. word = {fate[id].status}
      BY <1>5, <3>3, <3>4 DEF WordFor
    <3>6. IF id \in RevokedBy(batch) THEN word = {"cancelled"} ELSE word \in {{"done"}, {"refused"}}
      <4>1. CASE id \in RevokedBy(batch)
        BY <2>2, <3>5, <4>1 DEF Fate, kCancelled
      <4>2. CASE id \notin RevokedBy(batch)
        <5>1. fate[id].status \in {kDone, kRefused}
          BY <2>2, <2>3, <4>2 DEF Fate, Terminal, kDone, kRefused, kCancelled, kAccepted
        <5> QED BY <3>5, <4>2, <5>1 DEF kDone, kRefused
      <4> QED BY <4>1, <4>2
    <3> QED BY <2>1, <3>2, <3>6 DEF StepOfLife, v
  <2>4. CASE fate[id].status \notin Terminal
    <3>1. id \in Opened(fate)
      BY <1>5, <1>11, <2>4 DEF Opened
    <3>2. new = "standing"
      BY <1>6, <3>1
    <3>3. id \notin RevokedBy(batch)
      BY <2>2, <2>4 DEF Fate, Terminal
    <3>4. \A k \in 1..Len(v.step_events) : v.step_events[k].order # id
      <4> SUFFICES ASSUME NEW k \in 1..Len(v.step_events), v.step_events[k].order = id
                   PROVE  FALSE
        OBVIOUS
      <4>1. v.step_events[k] \in [order : 1..MaxOrder, answer : Terminal]
        BY <1>3, ElementOfSeq DEF Answered
      <4>2. v.step_events[k].answer = fate[id].status
        BY <1>3 DEF Answered
      <4> QED BY <2>4, <4>1, <4>2
    <3>5. word = {}
      BY <1>5, <3>4 DEF WordFor
    <3> QED BY <2>1, <3>2, <3>3, <3>5 DEF StepOfLife, v
  <2> QED BY <2>3, <2>4
<1> QED BY <1>10, <1>11

\* The lives are a function of the ids.
LEMMA LifeShape ==
  ASSUME NEW w, NEW batch
  PROVE  LifeOf(w, batch) = [id \in 1..MaxOrder |-> LifeOf(w, batch)[id]]
  BY DEF LifeOf

\* No order is answered twice by what a step emits.
LEMMA AnsweredOnce ==
  ASSUME NEW fate, NEW answers, Answered(fate, answers)
  PROVE  /\ \A j, k \in DOMAIN answers : answers[j].order = answers[k].order => j = k
         /\ \A k \in DOMAIN answers : answers[k].order \in 1..MaxOrder
<1>1. /\ answers \in Seq([order : 1..MaxOrder, answer : Terminal])
      /\ \A i, j \in 1..Len(answers) : answers[i].order = answers[j].order => i = j
  BY DEF Answered
<1> DEFINE Y == [order : 1..MaxOrder, answer : Terminal]
<1>2. \A y \in Y : y.order \in 1..MaxOrder
  OBVIOUS
<1> HIDE DEF Y
<1>3. answers \in Seq(Y)
  BY <1>1 DEF Y
<1>4. DOMAIN answers = 1..Len(answers) /\ \A k \in 1..Len(answers) : answers[k] \in Y
  BY <1>3, ElementOfSeq
<1>5. \A k \in DOMAIN answers : answers[k].order \in 1..MaxOrder
  BY <1>2, <1>4
<1> QED BY <1>1, <1>4, <1>5

\* A step of the session is a step of the protocol.
LEMMA AdvanceImplements ==
  ASSUME SessionInv, AdvanceStep
  PROVE  Protocol!AdvanceStep
<1>1. /\ Sound(world, staged) /\ world.tick < MaxTick
      /\ world' = StepOf(world, staged) /\ staged' = EmptyBatch /\ saved' = saved
  BY DEF SessionInv, AdvanceStep
<1>2. RevokedBy(staged') = {}
  BY <1>1 DEF RevokedBy, EmptyBatch
<1>3. \A id \in 1..MaxOrder :
        StepOfLife(LifeOf(world, staged)[id], LifeOf(world', staged')[id],
                   WordFor(world'.step_events, id), id \in RevokedBy(staged))
  BY <1>1, StepLife
<1>4. \E fate : Answered(fate, world'.step_events)
  BY <1>1, StepFates DEF Sound
<1>5. /\ \A j, k \in DOMAIN world'.step_events :
           world'.step_events[j].order = world'.step_events[k].order => j = k
      /\ \A k \in DOMAIN world'.step_events : world'.step_events[k].order \in 1..MaxOrder
  BY <1>4, AnsweredOnce
<1> QED BY <1>1, <1>2, <1>3, <1>5 DEF Protocol!AdvanceStep, StepOfLife, WordFor

\* An issue is the protocol's: the next id, and only it.
LEMMA IssueImplements ==
  ASSUME SessionInv, NEW kind \in Kind, IssueOrder(kind)
  PROVE  Protocol!Issue
<1> DEFINE next == world.orders.next_id_value
           n == Len(staged.issued)
           new == next + n
           before == LifeOf(world, staged)
           after == LifeOf(world', staged')
<1>1. /\ Sound(world, staged) /\ world' = world /\ saved' = saved
      /\ staged' = [staged EXCEPT !.issued = Append(@, StagedRow(kind, Promise(world, staged)))]
      /\ new <= MaxOrder
  BY DEF SessionInv, IssueOrder, StagedIdBase
<1>2. /\ next \in 1..(MaxOrder + 1) /\ n \in Nat
      /\ \A id \in StoredIds(world.orders) : id < next
  <2>1. GoodBook(world.orders) /\ staged.issued \in Seq(AnyRow)
    BY <1>1 DEF Sound, RestingBook, BatchFor
  <2> QED BY <2>1, BookParts
<1>3. new \in 1..MaxOrder
  BY <1>1, <1>2, BoundAssumption
<1>4. Sound(world', staged')
  <2>1. Promise(world, staged) <= MaxOrder
    BY <1>1 DEF Promise, StagedIdBase
  <2> QED BY <1>1, <2>1, IssueSound
<1>5. Len(staged'.issued) = n + 1 /\ staged'.cancelled = staged.cancelled
  <2> DEFINE row == StagedRow(kind, Promise(world, staged))
  <2>1. staged = [issued |-> staged.issued, cancelled |-> staged.cancelled]
        /\ staged.issued \in Seq(AnyRow)
    BY <1>1 DEF Sound, BatchFor
  <2> HIDE DEF row
  <2>2. staged' = [staged EXCEPT !.issued = Append(staged.issued, row)]
    BY <1>1 DEF row
  <2>3. staged'.issued = Append(staged.issued, row) /\ staged'.cancelled = staged.cancelled
    BY <2>1, <2>2
  <2>4. staged'.issued \in Seq(AnyRow)
    BY <1>4 DEF Sound, BatchFor
  <2> QED BY <2>1, <2>3, <2>4
<1>6. \A id \in 1..MaxOrder :
        /\ before[id] = IF id \in StoredIds(world.orders) THEN "standing"
                        ELSE IF id < next THEN "gone"
                        ELSE IF id < new THEN "promised" ELSE "none"
        /\ after[id] = IF id \in StoredIds(world.orders) THEN "standing"
                       ELSE IF id < next THEN "gone"
                       ELSE IF id < next + (n + 1) THEN "promised" ELSE "none"
  BY <1>1, <1>4, <1>5, LifeIs, ZenonT(60)
<1> HIDE DEF before, after
<1>7. before[new] = "none" /\ after[new] = "promised"
  BY <1>2, <1>3, <1>6
<1>8. \A earlier \in 1..(new - 1) : before[earlier] # "none"
  <2> SUFFICES ASSUME NEW earlier \in 1..(new - 1) PROVE before[earlier] # "none"
    OBVIOUS
  <2>1. earlier \in 1..MaxOrder /\ earlier < new
    BY <1>2, <1>3, BoundAssumption
  <2> QED BY <1>6, <2>1
<1>9. \A id \in 1..MaxOrder : id # new => after[id] = before[id]
  <2> SUFFICES ASSUME NEW id \in 1..MaxOrder, id # new PROVE after[id] = before[id]
    OBVIOUS
  <2>1. id < next + (n + 1) <=> id < new
    BY <1>2
  <2> QED BY <1>6, <2>1
<1>10. after = [before EXCEPT ![new] = "promised"]
  <2>1. /\ before = [id \in 1..MaxOrder |-> before[id]]
        /\ after = [id \in 1..MaxOrder |-> after[id]]
    BY LifeShape DEF before, after
  <2> HIDE DEF new
  <2> QED BY <2>1, <1>3, <1>7, <1>9
<1>11. RevokedBy(staged') = RevokedBy(staged)
  BY <1>5 DEF RevokedBy
<1> QED BY <1>1, <1>3, <1>7, <1>8, <1>10, <1>11 DEF Protocol!Issue, before, after

\* A withdrawal is the protocol's: only of an order that is open.
LEMMA CancelImplements ==
  ASSUME SessionInv, NEW id \in 1..MaxOrder, CancelOrder(id)
  PROVE  Protocol!Withdraw
<1>1. /\ Sound(world, staged) /\ world' = world /\ saved' = saved
      /\ staged' = WithCancelled(staged, id) /\ MayCancel(world, staged, id)
  BY DEF SessionInv, CancelOrder
<1>2. /\ staged = [issued |-> staged.issued, cancelled |-> staged.cancelled]
      /\ staged.cancelled \in Seq(1..MaxOrder)
  BY <1>1 DEF Sound, BatchFor
<1>3. staged'.issued = staged.issued /\ staged'.cancelled = Append(staged.cancelled, id)
  BY <1>1, <1>2 DEF WithCancelled
<1>4. LifeOf(world', staged') = LifeOf(world, staged)
  BY <1>1, <1>3 DEF LifeOf, IsStagedIssue
<1>5. RevokedBy(staged') = RevokedBy(staged) \cup {id}
  <2> DEFINE old == staged.cancelled
             more == Append(staged.cancelled, id)
  <2>1. /\ DOMAIN old = 1..Len(old) /\ Len(old) \in Nat
        /\ DOMAIN more = (1..Len(old)) \cup {Len(old) + 1}
        /\ more[Len(old) + 1] = id
        /\ \A k \in 1..Len(old) : more[k] = old[k]
    BY <1>2
  <2> HIDE DEF old, more
  <2>2. {more[k] : k \in DOMAIN more} = {old[k] : k \in DOMAIN old} \cup {id}
    BY <2>1
  <2> QED BY <1>3, <2>2 DEF RevokedBy, old, more
<1>6. LifeOf(world, staged)[id] \in {"promised", "standing"}
  <2>1. GoodBook(world.orders)
    BY <1>1 DEF Sound, RestingBook
  <2>2. CASE FindRow(world.orders, id) # kNoRow
    BY <2>1, <2>2, <1>1, BookParts, LifeIs
  <2>3. CASE FindRow(world.orders, id) = kNoRow
    <3>1. IsStagedIssue(world, staged, id)
      BY <1>1, <2>3 DEF MayCancel
    <3>2. ~(id < world.orders.next_id_value)
      BY <2>1, <3>1, BookParts DEF IsStagedIssue, StagedIdBase
    <3> QED BY <1>1, <3>1, <3>2, LifeIs DEF IsStagedIssue, StagedIdBase
  <2> QED BY <2>2, <2>3
<1> QED BY <1>1, <1>4, <1>5, <1>6 DEF Protocol!Withdraw

\* The session implements the protocol: every order is answered once and by one
\* word, a withdrawal accepted is that word, nothing is lost in silence, through
\* saves and through loads with the batch and without it (session.cpp).
THEOREM SessionRefinement == Spec => ImplementsOrderProtocol
<1>1. Init => Protocol!Init
  <2> SUFFICES ASSUME Init PROVE Protocol!Init
    OBVIOUS
  <2>1. LifeOf(StartWorld, EmptyBatch) = [id \in 1..MaxOrder |-> "none"]
    <3>1. ASSUME NEW id \in 1..MaxOrder
          PROVE  LifeOf(StartWorld, EmptyBatch)[id] = "none"
      <4>1. StoredIds(StartWorld.orders) = {} /\ StartWorld.orders.next_id_value = 1
            /\ Len(EmptyBatch.issued) = 0
        BY DEF StoredIds, StartWorld, EmptyTable, EmptyBatch
      <4>2. LifeOf(StartWorld, EmptyBatch)[id] =
              IF id \in StoredIds(StartWorld.orders) THEN "standing"
              ELSE IF id < StartWorld.orders.next_id_value THEN "gone"
              ELSE IF id < StartWorld.orders.next_id_value + Len(EmptyBatch.issued)
                   THEN "promised" ELSE "none"
        BY StartSound, LifeIs
      <4> QED BY <4>1, <4>2
    <3> QED BY <3>1, LifeShape
  <2>2. RevokedBy(EmptyBatch) = {}
    BY DEF RevokedBy, EmptyBatch
  <2>3. StartWorld.step_events = <<>>
    BY DEF StartWorld
  <2> QED BY <2>1, <2>2, <2>3 DEF Init, Protocol!Init
<1>2. SessionInv /\ [Next]_svars => [Protocol!Next]_(Protocol!vars)
  <2> SUFFICES ASSUME SessionInv, [Next]_svars PROVE [Protocol!Next]_(Protocol!vars)
    OBVIOUS
  <2>1. CASE AdvanceStep
    BY <2>1, AdvanceImplements DEF Protocol!Next
  <2>2. ASSUME NEW kind \in Kind, IssueOrder(kind) PROVE Protocol!Next
    BY <2>2, IssueImplements DEF Protocol!Next
  <2>3. ASSUME NEW id \in 1..MaxOrder, CancelOrder(id) PROVE Protocol!Next
    BY <2>3, CancelImplements DEF Protocol!Next
  <2>4. CASE Save
    <3> DEFINE w == [world EXCEPT !.step_events = <<>>]
    <3>1. world = [tick |-> world.tick, orders |-> world.orders, step_events |-> world.step_events]
      BY DEF SessionInv, Sound
    <3>2. w.orders = world.orders
      BY <3>1
    <3>3. saved'.world = w /\ saved'.staged = staged /\ world' = world /\ staged' = staged
      BY <2>4 DEF Save
    <3> HIDE DEF w
    <3>4. LifeOf(saved'.world, saved'.staged) = LifeOf(world, staged)
      BY <3>2, <3>3 DEF LifeOf, IsStagedIssue, StagedIdBase
    <3>5. Protocol!Save
      BY <3>3, <3>4 DEF Protocol!Save
    <3> QED BY <3>5 DEF Protocol!Next
  <2>5. CASE ReplaceWorld
    <3>1. world' = saved.world /\ staged' = EmptyBatch /\ saved' = saved
      BY <2>5 DEF ReplaceWorld, Replaced
    <3>2. Sound(saved.world, saved.staged) /\ Sound(saved.world, EmptyBatch)
          /\ saved.world.step_events = <<>>
      <4>1. SessionInv'
        BY <2>5, SessionStep DEF Next
      <4> QED BY <3>1, <4>1 DEF SessionInv
    <3>3. ASSUME NEW id \in 1..MaxOrder
          PROVE  LifeOf(saved.world, EmptyBatch)[id] =
                   IF LifeOf(saved.world, saved.staged)[id] = "promised" THEN "none"
                   ELSE LifeOf(saved.world, saved.staged)[id]
      <4> DEFINE next == saved.world.orders.next_id_value
                 n == Len(saved.staged.issued)
      <4>1. next \in Nat /\ n \in Nat
        <5>1. GoodBook(saved.world.orders) /\ saved.staged.issued \in Seq(AnyRow)
          BY <3>2 DEF Sound, RestingBook, BatchFor
        <5> QED BY <5>1, BookParts
      <4>2. Len(EmptyBatch.issued) = 0
        BY DEF EmptyBatch
      <4>3. LifeOf(saved.world, EmptyBatch)[id] =
              IF id \in StoredIds(saved.world.orders) THEN "standing"
              ELSE IF id < next THEN "gone"
              ELSE IF id < next + 0 THEN "promised" ELSE "none"
        BY <3>2, <4>2, LifeIs
      <4>4. LifeOf(saved.world, saved.staged)[id] =
              IF id \in StoredIds(saved.world.orders) THEN "standing"
              ELSE IF id < next THEN "gone"
              ELSE IF id < next + n THEN "promised" ELSE "none"
        BY <3>2, LifeIs
      <4> HIDE DEF next, n
      <4> QED BY <4>1, <4>3, <4>4
    <3>4. RevokedBy(EmptyBatch) = {}
      BY DEF RevokedBy, EmptyBatch
    <3>5. LifeOf(world', staged') =
            [id \in 1..MaxOrder |->
               IF LifeOf(saved.world, saved.staged)[id] = "promised" THEN "none"
               ELSE LifeOf(saved.world, saved.staged)[id]]
      BY <3>1, <3>3, LifeShape
    <3>6. Protocol!Forget
      BY <3>1, <3>2, <3>4, <3>5 DEF Protocol!Forget
    <3> QED BY <3>6 DEF Protocol!Next
  <2>6. CASE ReplaceWorldWithBatch
    <3>1. Protocol!Resume
      BY <2>6 DEF ReplaceWorldWithBatch, Replaced, SessionInv, Protocol!Resume
    <3> QED BY <3>1 DEF Protocol!Next
  <2>7. CASE UNCHANGED svars
    BY <2>7 DEF svars, Protocol!vars
  <2> QED BY <2>1, <2>2, <2>3, <2>4, <2>5, <2>6, <2>7 DEF Next
<1> QED BY <1>1, <1>2, SessionSound, PTL DEF Spec, Protocol!Spec, ImplementsOrderProtocol
-----------------------------------------------------------------------------
\* The journal.
JournalEntry ==
  [tick : 0..MaxTick, sequence : Nat, verb : {"issue", "cancel"},
   kind : Kind \cup {"none"}, order_id : 1..MaxOrder]

\* What a replay that begins where o says has come to at the journal's end.
ReplayOf(o, entries) ==
  FoldLeft(Redone, [world |-> o.world, staged |-> o.staged],
           SubSeq(entries, o.entry, Len(entries)))

\* It is at the world of a tick already passed, and the steps from there bring
\* it to this world and this batch.
Reaches(s, w, batch) ==
  /\ s.world.tick \in Nat /\ w.tick \in Nat /\ s.world.tick <= w.tick
  /\ AdvancedTo(s, w.tick) = [world |-> w, staged |-> batch]

\* The inductive invariant of the journal, beside the session's.
JournalInv ==
  /\ batch_sequence \in Nat
  /\ journal \in Seq(JournalEntry)
  /\ origin.entry \in 1..(Len(journal) + 1)
  /\ Reaches(ReplayOf(origin, journal), world, staged)

\* The folds of a replay.
Steps == INSTANCE FoldProofs WITH Op <- Advanced
Entered == INSTANCE FoldProofs WITH Op <- Redone

\* One code, two names: the fold of the replay, as FoldProofs has it.
LEMMA SameReplays ==
  ASSUME NEW base, NEW seq
  PROVE  /\ Steps!FoldLeft(Advanced, base, seq) = FoldLeft(Advanced, base, seq)
         /\ Entered!FoldLeft(Redone, base, seq) = FoldLeft(Redone, base, seq)
<1>1. Steps!FoldLeft(Advanced, base, seq) = FoldLeft(Advanced, base, seq)
  BY DEF FoldLeft, Steps!FoldLeft, MapThenFoldSet, Steps!MapThenFoldSet, Max, Steps!Max
<1>2. Entered!FoldLeft(Redone, base, seq) = FoldLeft(Redone, base, seq)
  BY DEF FoldLeft, Entered!FoldLeft, MapThenFoldSet, Entered!MapThenFoldSet, Max, Entered!Max
<1> QED BY <1>1, <1>2

\* A state of the session that is where a replay should be needs no step.
LEMMA ReachesItself ==
  ASSUME NEW w, NEW batch, w.tick \in Nat
  PROVE  Reaches([world |-> w, staged |-> batch], w, batch)
<1> DEFINE s == [world |-> w, staged |-> batch]
           none == [step \in 1..(w.tick - w.tick) |-> step]
<1>1. DOMAIN none = 1..0 /\ 0 \in Nat
  OBVIOUS
<1> HIDE DEF none
<1>2. PICK g : Steps!IsSteps(g, 0, s, none) /\ FoldLeft(Advanced, s, none) = g[0]
  BY <1>1, Steps!FoldSteps, SameReplays
<1>3. FoldLeft(Advanced, s, none) = s
  BY <1>2 DEF Steps!IsSteps
<1>4. AdvancedTo(s, w.tick) = s
  BY <1>3 DEF AdvancedTo, none
<1> QED BY <1>4 DEF Reaches

\* One step more of the world is one step more of the replay.
LEMMA ReachesStep ==
  ASSUME NEW s, NEW w, NEW batch, Reaches(s, w, batch)
  PROVE  Reaches(s, StepOf(w, batch), EmptyBatch)
<1> DEFINE n == w.tick - s.world.tick
           steps == [step \in 1..n |-> step]
           more == [step \in 1..(n + 1) |-> step]
           v == StepOf(w, batch)
<1>1. n \in Nat /\ v.tick = w.tick + 1 /\ v.tick \in Nat /\ s.world.tick <= v.tick
      /\ s.world.tick \in Nat /\ v.tick - s.world.tick = n + 1
  BY DEF Reaches, StepOf
<1> HIDE DEF n
<1>2. steps \in Seq(Nat) /\ n + 1 \in Nat /\ more = Append(steps, n + 1)
  <2>1. steps \in Seq(Nat) /\ Len(steps) = n
    BY <1>1
  <2>2. Append(steps, n + 1) \in Seq(Nat) /\ Len(Append(steps, n + 1)) = n + 1
        /\ \A k \in 1..(n + 1) : Append(steps, n + 1)[k] = k
    BY <1>1, <2>1
  <2>3. more \in Seq(Nat) /\ Len(more) = n + 1 /\ \A k \in 1..(n + 1) : more[k] = k
    BY <1>1
  <2> HIDE DEF steps, more
  <2> QED BY <1>1, <2>1, <2>2, <2>3
<1>3. FoldLeft(Advanced, s, steps) = [world |-> w, staged |-> batch]
  BY DEF Reaches, AdvancedTo, n
<1> HIDE DEF steps, more
<1>4. FoldLeft(Advanced, s, more) = Advanced(FoldLeft(Advanced, s, steps), n + 1)
  <2>1. steps \in Seq(Nat) /\ n + 1 \in Nat
    BY <1>2
  <2>2. Steps!FoldLeft(Advanced, s, Append(steps, n + 1))
          = Advanced(Steps!FoldLeft(Advanced, s, steps), n + 1)
    BY <2>1, Steps!FoldOne
  <2> QED BY <1>2, <2>2, SameReplays
<1> HIDE DEF v
<1>5. Advanced([world |-> w, staged |-> batch], n + 1) = [world |-> v, staged |-> EmptyBatch]
  BY DEF Advanced, v
<1>6. AdvancedTo(s, v.tick) = FoldLeft(Advanced, s, more)
  BY <1>1 DEF AdvancedTo, more
<1>7. Reaches(s, v, EmptyBatch)
  BY <1>1, <1>3, <1>4, <1>5, <1>6 DEF Reaches
<1> QED BY <1>7 DEF v

\* One entry more in the journal is one entry more of the replay.
LEMMA ReplayOne ==
  ASSUME NEW o, NEW entries \in Seq(JournalEntry), o.entry \in 1..(Len(entries) + 1),
         NEW e \in JournalEntry
  PROVE  ReplayOf(o, Append(entries, e)) = Redone(ReplayOf(o, entries), e)
<1> DEFINE X == JournalEntry
           m == o.entry
           n == Len(entries)
           tail == SubSeq(entries, m, n)
           more == SubSeq(Append(entries, e), m, n + 1)
<1>1. entries \in Seq(X) /\ e \in X
  OBVIOUS
<1> HIDE DEF X
<1>2. n \in Nat /\ Len(Append(entries, e)) = n + 1
  BY <1>1
<1>3. tail \in Seq(X) /\ more = Append(tail, e)
  <2>1. /\ tail \in Seq(X) /\ Len(tail) = n - m + 1
        /\ \A k \in 1..(n - m + 1) : tail[k] = entries[m + k - 1]
    BY <1>1, <1>2
  <2>2. /\ Append(entries, e) \in Seq(X)
        /\ \A k \in 1..n : Append(entries, e)[k] = entries[k]
        /\ Append(entries, e)[n + 1] = e
    BY <1>1, <1>2
  <2>3. /\ more \in Seq(X) /\ Len(more) = n - m + 2
        /\ \A k \in 1..(n - m + 2) : more[k] = Append(entries, e)[m + k - 1]
    <3> DEFINE longer == Append(entries, e)
    <3>1. longer \in Seq(X) /\ Len(longer) = n + 1 /\ m \in 1..(n + 1) /\ n \in Nat
      BY <1>2, <2>2
    <3> HIDE DEF longer, m, n
    <3>2. SubSeq(longer, m, n + 1) \in Seq(X)
      BY <3>1
    <3>3. /\ Len(SubSeq(longer, m, n + 1)) = n - m + 2
          /\ \A k \in 1..(n - m + 2) : SubSeq(longer, m, n + 1)[k] = longer[m + k - 1]
      BY <3>1
    <3> QED BY <3>2, <3>3 DEF longer
  <2> DEFINE l == n - m + 1
  <2>4. /\ l \in Nat /\ n - m + 2 = l + 1
        /\ \A k \in 1..l : m + k - 1 \in 1..n
        /\ m + (l + 1) - 1 = n + 1
    BY <1>2, SMTT(30)
  <2> HIDE DEF l, tail, more, m, n
  <2>5. Len(tail) = l /\ Len(more) = l + 1
    BY <2>1, <2>3, <2>4 DEF l
  <2>6. \A k \in 1..l : more[k] = tail[k]
    <3> SUFFICES ASSUME NEW k \in 1..l PROVE more[k] = tail[k]
      OBVIOUS
    <3>1. k \in 1..(n - m + 2) /\ k \in 1..(n - m + 1)
      BY <2>4 DEF l
    <3>2. more[k] = Append(entries, e)[m + k - 1] /\ tail[k] = entries[m + k - 1]
      BY <2>1, <2>3, <3>1
    <3> QED BY <2>2, <2>4, <3>2
  <2>7. more[l + 1] = e
    <3>1. l + 1 \in 1..(n - m + 2)
      BY <2>4
    <3>2. more[l + 1] = Append(entries, e)[m + (l + 1) - 1]
      BY <2>3, <3>1
    <3> QED BY <2>2, <2>4, <3>2
  <2>8. Append(tail, e) \in Seq(X) /\ Len(Append(tail, e)) = l + 1
        /\ (\A k \in 1..l : Append(tail, e)[k] = tail[k]) /\ Append(tail, e)[l + 1] = e
    BY <1>1, <2>1, <2>4, <2>5
  <2>9. \A k \in 1..(l + 1) : more[k] = Append(tail, e)[k]
    <3> SUFFICES ASSUME NEW k \in 1..(l + 1) PROVE more[k] = Append(tail, e)[k]
      OBVIOUS
    <3>1. k \in 1..l \/ k = l + 1
      BY <2>4
    <3> QED BY <2>6, <2>7, <2>8, <3>1
  <2> QED BY <2>1, <2>3, <2>4, <2>5, <2>8, <2>9
<1> DEFINE base == [world |-> o.world, staged |-> o.staged]
<1>4. ReplayOf(o, entries) = FoldLeft(Redone, base, tail)
  BY DEF ReplayOf
<1>5. ReplayOf(o, Append(entries, e)) = FoldLeft(Redone, base, more)
  BY <1>2 DEF ReplayOf
<1> HIDE DEF tail, more, base
<1>6. FoldLeft(Redone, base, Append(tail, e)) = Redone(FoldLeft(Redone, base, tail), e)
  <2>1. tail \in Seq(X) /\ e \in X
    BY <1>1, <1>3
  <2>2. Entered!FoldLeft(Redone, base, Append(tail, e))
          = Redone(Entered!FoldLeft(Redone, base, tail), e)
    BY <2>1, Entered!FoldOne
  <2> QED BY <2>2, SameReplays
<1> QED BY <1>3, <1>4, <1>5, <1>6

\* A replay that begins behind the journal's last entry is where it begins.
LEMMA ReplayNone ==
  ASSUME NEW o, NEW entries \in Seq(JournalEntry), o.entry = Len(entries) + 1
  PROVE  ReplayOf(o, entries) = [world |-> o.world, staged |-> o.staged]
<1> DEFINE X == JournalEntry
           tail == SubSeq(entries, o.entry, Len(entries))
           base == [world |-> o.world, staged |-> o.staged]
<1>1. entries \in Seq(X)
  OBVIOUS
<1> HIDE DEF X
<1>2. DOMAIN tail = 1..0 /\ 0 \in Nat
  BY <1>1
<1> HIDE DEF tail, base
<1>3. PICK g : Entered!IsSteps(g, 0, base, tail) /\ FoldLeft(Redone, base, tail) = g[0]
  BY <1>2, Entered!FoldSteps, SameReplays, SMTT(30)
<1>4. FoldLeft(Redone, base, tail) = base
  BY <1>3 DEF Entered!IsSteps
<1> QED BY <1>4 DEF ReplayOf, tail, base

\* Every step of the journalled session is one of the session, or leaves its
\* world, its batch and its save alone.
LEMMA JournalIsSession ==
  ASSUME [JournalNext]_jvars
  PROVE  [Next]_svars
  BY DEF JournalNext, jvars, svars, Next, JournaledStep, JournaledIssue, JournaledCancel,
         TakeJournal, JournaledSave, JournaledReplace

\* So a behaviour of it is a behaviour of the session.
LEMMA JournalSession == JournalSpec => Spec
<1>1. JournalInit => Init
  BY DEF JournalInit
<1> QED BY <1>1, JournalIsSession, PTL DEF JournalSpec, Spec

\* What holds of the session holds of it with its journal and its stamp.
THEOREM JournalKeepsPromises == JournalSpec => []PromiseKept /\ ImplementsOrderProtocol
  BY JournalSession, PromisesKept, SessionRefinement, PTL

\* An entry recorded for what an action did to the batch, which done again does
\* the same, leaves the journal one that replays.
LEMMA EntryStands ==
  ASSUME SessionInv, JournalInv,
         NEW verb \in {"issue", "cancel"}, NEW kind \in Kind \cup {"none"},
         NEW id \in 1..MaxOrder, Record(verb, kind, id), UNCHANGED world,
         Redone(ReplayOf(origin, journal), Entry(verb, kind, id))
           = [world |-> world, staged |-> staged']
  PROVE  JournalInv'
<1> DEFINE e == Entry(verb, kind, id)
           X == JournalEntry
<1>1. e \in X
  BY DEF SessionInv, Sound, JournalInv, Entry, JournalEntry
<1>2. /\ journal' = Append(journal, e) /\ batch_sequence' \in Nat /\ origin' = origin
      /\ world' = world
  BY DEF Record, JournalInv
<1>3. ReplayOf(origin', journal') = [world |-> world', staged |-> staged']
  BY <1>1, <1>2, ReplayOne DEF JournalInv
<1>4. Reaches(ReplayOf(origin', journal'), world', staged')
  BY <1>2, <1>3, ReachesItself DEF SessionInv, Sound
<1>5. journal' \in Seq(X) /\ origin'.entry \in 1..(Len(journal') + 1)
  <2>1. journal \in Seq(X) /\ origin.entry \in 1..(Len(journal) + 1)
    BY DEF JournalInv
  <2> HIDE DEF X, e
  <2>2. journal' \in Seq(X) /\ Len(journal') = Len(journal) + 1 /\ Len(journal) \in Nat
    BY <1>1, <1>2, <2>1
  <2> QED BY <1>2, <2>1, <2>2
<1> QED BY <1>2, <1>4, <1>5 DEF JournalInv

\* Every action keeps the journal one that replays.
LEMMA JournalStep ==
  ASSUME SessionInv, JournalInv, [JournalNext]_jvars
  PROVE  JournalInv'
<1> DEFINE again == ReplayOf(origin, journal)
<1>1. CASE JournaledStep
  <2>1. /\ world' = StepOf(world, staged) /\ staged' = EmptyBatch
        /\ journal' = journal /\ origin' = origin /\ batch_sequence' = 0
    BY <1>1 DEF JournaledStep, AdvanceStep
  <2>2. Reaches(again, StepOf(world, staged), EmptyBatch)
    BY ReachesStep DEF JournalInv
  <2> QED BY <2>1, <2>2 DEF JournalInv
<1>2. ASSUME NEW kind \in Kind, JournaledIssue(kind)
      PROVE  JournalInv'
  <2> DEFINE id == Promise(world, staged)
             e == Entry("issue", kind, id)
  <2>1. /\ world' = world
        /\ staged' = [staged EXCEPT !.issued = Append(@, StagedRow(kind, id))]
        /\ Record("issue", kind, id) /\ id <= MaxOrder
    BY <1>2 DEF JournaledIssue, IssueOrder, Promise
  <2>2. id \in 1..MaxOrder
    <3>1. GoodBook(world.orders) /\ staged.issued \in Seq(AnyRow)
      BY DEF SessionInv, Sound, RestingBook, BatchFor
    <3>2. world.orders.next_id_value \in 1..(MaxOrder + 1) /\ Len(staged.issued) \in Nat
      BY <3>1, BookParts
    <3> QED BY <2>1, <3>2, BoundAssumption DEF Promise, StagedIdBase
  <2>3. AdvancedTo(again, e.tick) = [world |-> world, staged |-> staged]
    BY DEF JournalInv, Reaches, Entry
  <2>4. e.verb = "issue" /\ e.kind = kind
    BY DEF Entry
  <2> HIDE DEF again, e
  <2>5. Redone(again, e) = [world |-> world, staged |-> staged']
    <3> DEFINE at == AdvancedTo(again, e.tick)
    <3>1. at = [world |-> world, staged |-> staged]
      BY <2>3
    <3>2. Redone(again, e) =
            [at EXCEPT !.staged.issued =
               Append(@, StagedRow(e.kind, Promise(at.world, at.staged)))]
      BY <2>4 DEF Redone
    <3> HIDE DEF at
    <3> QED BY <2>1, <2>4, <3>1, <3>2
  <2> QED BY <2>1, <2>2, <2>5, EntryStands DEF again, e
<1>3. ASSUME NEW id \in 1..MaxOrder, JournaledCancel(id)
      PROVE  JournalInv'
  <2> DEFINE e == Entry("cancel", "none", id)
  <2>1. /\ world' = world /\ staged' = WithCancelled(staged, id)
        /\ MayCancel(world, staged, id) /\ Record("cancel", "none", id)
    BY <1>3 DEF JournaledCancel, CancelOrder
  <2>2. AdvancedTo(again, e.tick) = [world |-> world, staged |-> staged]
    BY DEF JournalInv, Reaches, Entry
  <2>3. e.verb = "cancel" /\ e.order_id = id
    BY DEF Entry
  <2> HIDE DEF again, e
  <2>4. Redone(again, e) = [world |-> world, staged |-> staged']
    <3> DEFINE at == AdvancedTo(again, e.tick)
    <3>1. at = [world |-> world, staged |-> staged]
      BY <2>2
    <3>2. Redone(again, e) =
            IF MayCancel(at.world, at.staged, id)
            THEN [at EXCEPT !.staged = WithCancelled(@, id)] ELSE at
      BY <2>3 DEF Redone
    <3> HIDE DEF at
    <3> QED BY <2>1, <3>1, <3>2
  <2> QED BY <2>1, <2>4, EntryStands DEF again, e
<1>4. CASE TakeJournal
  <2>1. /\ journal' = <<>> /\ world' = world /\ staged' = staged
        /\ batch_sequence' = batch_sequence
        /\ origin' = [world |-> world, staged |-> staged, entry |-> 1]
    BY <1>4 DEF TakeJournal
  <2>2. journal' \in Seq(JournalEntry) /\ Len(journal') = 0 /\ origin'.entry = Len(journal') + 1
    BY <2>1
  <2>3. ReplayOf(origin', journal') = [world |-> origin'.world, staged |-> origin'.staged]
    BY <2>2, ReplayNone
  <2>4. Reaches(ReplayOf(origin', journal'), world', staged')
    BY <2>1, <2>3, ReachesItself DEF SessionInv, Sound
  <2> QED BY <2>1, <2>2, <2>4 DEF JournalInv
<1>5. CASE JournaledSave
  BY <1>5 DEF JournaledSave, Save, JournalInv
<1>6. CASE JournaledReplace
  <2>1. /\ journal' = journal /\ batch_sequence' = 0
        /\ origin' = [world |-> world', staged |-> staged', entry |-> Len(journal) + 1]
    BY <1>6 DEF JournaledReplace, Resumed
  <2>2. world'.tick \in Nat
    BY <1>6 DEF JournaledReplace, ReplaceWorld, ReplaceWorldWithBatch, Replaced, SessionInv, Sound
  <2>3. journal' \in Seq(JournalEntry) /\ origin'.entry = Len(journal') + 1
        /\ Len(journal') \in Nat
    BY <2>1 DEF JournalInv
  <2>4. ReplayOf(origin', journal') = [world |-> world', staged |-> staged']
    BY <2>1, <2>3, ReplayNone
  <2>5. Reaches(ReplayOf(origin', journal'), world', staged')
    BY <2>2, <2>4, ReachesItself
  <2>6. origin'.entry \in 1..(Len(journal') + 1)
    BY <2>3
  <2> QED BY <2>1, <2>3, <2>5, <2>6 DEF JournalInv
<1>7. CASE UNCHANGED jvars
  BY <1>7 DEF jvars, JournalInv
<1> QED BY <1>1, <1>2, <1>3, <1>4, <1>5, <1>6, <1>7 DEF JournalNext

\* The journal done again from the save it was kept beside, or from the load it
\* was cut at, gives this world and this batch, after any number of steps, issues,
\* withdrawals, saves and loads (session.h, JournalEntry).
THEOREM Replay == JournalSpec => []Replayable
<1>1. JournalInit => JournalInv
  <2> SUFFICES ASSUME JournalInit PROVE JournalInv
    OBVIOUS
  <2>1. /\ journal = <<>> /\ batch_sequence = 0
        /\ world = StartWorld /\ staged = EmptyBatch
        /\ origin = [world |-> StartWorld, staged |-> EmptyBatch, entry |-> 1]
    BY DEF JournalInit, Init
  <2>2. journal \in Seq(JournalEntry) /\ Len(journal) = 0 /\ origin.entry = Len(journal) + 1
    BY <2>1
  <2>3. ReplayOf(origin, journal) = [world |-> origin.world, staged |-> origin.staged]
    BY <2>2, ReplayNone
  <2>4. Reaches(ReplayOf(origin, journal), world, staged)
    BY <2>1, <2>3, ReachesItself DEF StartWorld
  <2> QED BY <2>1, <2>2, <2>4 DEF JournalInv
<1>2. JournalInv => Replayable
  BY DEF JournalInv, Reaches, ReplayOf, Replayable
<1>3. SessionInv /\ JournalInv /\ [JournalNext]_jvars => JournalInv'
  BY JournalStep
<1> QED BY <1>1, <1>2, <1>3, JournalSession, SessionSound, PTL DEF JournalSpec
=============================================================================
