----------------------------- MODULE PostProofs -----------------------------
(***************************************************************************)
(* Posts and standing work for every village, every staff of places and    *)
(* every bound: one man has one answer, posts change at the close and by   *)
(* an order given before it, no place is filled twice.                     *)
(*                                                                         *)
(* PostsInv is inductive: between two steps every order in the book is an  *)
(* accepted one, no man has two works or two appointments or one of each,  *)
(* and a man at work who holds a post has asked to be dismissed of it.  A  *)
(* step is followed pass by pass - the batch into the book, the orphans    *)
(* and the works that ended, posts read, works read, the close, the sweep -*)
(* each with what it may do to a row, and the passes in turn row by row,   *)
(* by the fold's induction.                                                *)
(***************************************************************************)
EXTENDS PostOrders, FiniteSetTheorems, SequenceTheorems, TLAPS

-----------------------------------------------------------------------------
(* The book of this module.                                                *)

Refusals == {"kNone", "kNoSuchSubject", "kRuleForbids", "kNotEligible", "kNoVacancy",
             "kConflictsWithActive", "kWrongLand", "kSiteExhausted", "kChairmanAway",
             "kNoConsumer"}

PostOf(row) == [profession |-> row.profession, unit |-> row.unit]

\* The order rows a book may hold at any point of a step.
AnyRow ==
  {row \in [kind : PostVerb \cup {kAssignWork, kReleaseWork}, resident : Named,
            profession : {post.profession : post \in Post \cup {NoPost}},
            unit : {post.unit : post \in Post \cup {NoPost}}, target : Target \cup {"none"},
            status : OrderStatus, refusal : Refusals] :
     PostOf(row) \in IF row.kind = kAppoint THEN Post ELSE {NoPost}}

\* The book is a state table of orders: what is proved of that holds of it.
T == INSTANCE StateTableProofs
       WITH Row <- AnyRow, MaxId <- MaxOrder, table <- world.orders, saved <- world.orders,
            Tables <- {}, FirstTable <- <<>>

\* A sound book, and the map id -> row it stands for.
GoodBook(b) == T!Good(b)
Live(b) == [id \in StoredIds(b) |-> RowOf(b, id)]

\* The row as a withdrawal of it leaves it.
Withdrawn(row) ==
  IF row.status \in Cancellable THEN [row EXCEPT !.status = kCancelled] ELSE row

\* One code, two names.
LEMMA SameOperators ==
  ASSUME NEW b, NEW id, NEW row
  PROVE  /\ T!FindRow(b, id) = FindRow(b, id)
         /\ T!AppendRow(b, row) = AppendRow(b, row)
         /\ T!RemoveRow(b, id) = RemoveRow(b, id)
         /\ T!StoredIds(b) = StoredIds(b)
         /\ T!Live(b) = Live(b)
         /\ T!kNoRow = kNoRow
<1>1. T!kNoRow = kNoRow /\ T!StoredIds(b) = StoredIds(b)
  BY DEF kNoRow, T!kNoRow, StoredIds, T!StoredIds
<1>2. \A k : T!FindRow(b, k) = FindRow(b, k)
  BY <1>1 DEF FindRow, T!FindRow
<1>3. T!AppendRow(b, row) = AppendRow(b, row)
  BY <1>2 DEF AppendRow, T!AppendRow, AppendWithId, T!AppendWithId
<1>4. T!RemoveRow(b, id) = RemoveRow(b, id)
  BY <1>1, <1>2 DEF RemoveRow, T!RemoveRow, LastInto, T!LastInto, LookupWithout, T!LookupWithout
<1>5. T!Live(b) = Live(b)
  BY <1>1, <1>2 DEF Live, T!Live, RowOf, T!RowOf
<1> QED BY <1>1, <1>2, <1>3, <1>4, <1>5

\* And of the orders in it.
LEMMA SameBookOperators ==
  ASSUME NEW b, NEW id, NEW row, NEW e
  PROVE  /\ T!MarkCancelled(b, id) = MarkCancelled(b, id)
         /\ T!Collected(e, row) = Collected(e, row)
         /\ T!Withdrawn(row) = Withdrawn(row) /\ T!Judged(row) = Judged(row)
         /\ T!JudgedBook(b) = JudgedBook(b) /\ T!Entries(b) = Entries(b)
         /\ T!OrderStatus = OrderStatus /\ T!Terminal = Terminal
<1>1. /\ T!OrderStatus = OrderStatus /\ T!Terminal = Terminal /\ T!Cancellable = Cancellable
      /\ T!kCancelled = kCancelled /\ T!kPending = kPending /\ T!kRefused = kRefused
  BY DEF OrderStatus, T!OrderStatus, Terminal, T!Terminal, Cancellable, T!Cancellable,
         kPending, T!kPending, kAccepted, T!kAccepted, kActive, T!kActive, kDone, T!kDone,
         kRefused, T!kRefused, kCancelled, T!kCancelled
<1>2. T!MarkCancelled(b, id) = MarkCancelled(b, id)
  BY <1>1, SameOperators DEF MarkCancelled, T!MarkCancelled
<1>3. T!Collected(e, row) = Collected(e, row)
  BY <1>1 DEF Collected, T!Collected
<1>4. T!Withdrawn(row) = Withdrawn(row)
  BY <1>1 DEF Withdrawn, T!Withdrawn
<1>5. \A q : T!Judged(q) = Judged(q)
  BY <1>1 DEF Judged, T!Judged
<1>6. T!JudgedBook(b) = JudgedBook(b)
  BY <1>5 DEF JudgedBook, T!JudgedBook
<1>7. T!Entries(b) = Entries(b)
  BY DEF Entries, T!Entries
<1> QED BY <1>1, <1>2, <1>3, <1>4, <1>5, <1>6, <1>7

\* And of the folds over them.
LEMMA SameFolds ==
  ASSUME NEW b, NEW s
  PROVE  /\ T!FoldLeft(T!AppendRow, b, s) = FoldLeft(AppendRow, b, s)
         /\ T!FoldLeft(T!MarkCancelled, b, s) = FoldLeft(MarkCancelled, b, s)
         /\ T!FoldLeft(T!RemoveRow, b, s) = FoldLeft(RemoveRow, b, s)
         /\ T!FoldLeft(T!Collected, b, s) = FoldLeft(Collected, b, s)
         /\ T!Done(b) = Done(b) /\ T!WithoutDone(b) = WithoutDone(b)
<1>1. T!FoldLeft(T!AppendRow, b, s) = FoldLeft(AppendRow, b, s)
  BY DEF FoldLeft, T!FoldLeft, MapThenFoldSet, T!MapThenFoldSet, Max, T!Max,
         AppendRow, T!AppendRow, AppendWithId, T!AppendWithId, FindRow, T!FindRow,
         kNoRow, T!kNoRow
<1>2. T!FoldLeft(T!MarkCancelled, b, s) = FoldLeft(MarkCancelled, b, s)
  BY DEF FoldLeft, T!FoldLeft, MapThenFoldSet, T!MapThenFoldSet, Max, T!Max,
         MarkCancelled, T!MarkCancelled, FindRow, T!FindRow, kNoRow, T!kNoRow,
         Cancellable, T!Cancellable, kPending, T!kPending, kAccepted,
         T!kAccepted, kCancelled, T!kCancelled
<1>3. \A c, q : T!FoldLeft(T!RemoveRow, c, q) = FoldLeft(RemoveRow, c, q)
  BY DEF FoldLeft, T!FoldLeft, MapThenFoldSet, T!MapThenFoldSet, Max, T!Max,
         RemoveRow, T!RemoveRow, LastInto, T!LastInto, LookupWithout, T!LookupWithout,
         FindRow, T!FindRow, kNoRow, T!kNoRow
<1>4. \A c, q : T!FoldLeft(T!Collected, c, q) = FoldLeft(Collected, c, q)
  BY DEF FoldLeft, T!FoldLeft, MapThenFoldSet, T!MapThenFoldSet, Max, T!Max,
         Collected, T!Collected, Terminal, T!Terminal, kDone, T!kDone,
         kRefused, T!kRefused, kCancelled, T!kCancelled
<1>5. T!Done(b) = Done(b)
  <2>1. T!Entries(b) = Entries(b)
    BY SameBookOperators
  <2> QED BY <1>4, <2>1 DEF Done, T!Done
<1>6. T!WithoutDone(b) = WithoutDone(b)
  BY <1>3, <1>5 DEF WithoutDone, T!WithoutDone
<1> QED BY <1>1, <1>2, <1>3, <1>4, <1>5, <1>6

\* An order of the batch is such a row, and so is a row rewritten.
LEMMA RowParts ==
  ASSUME NEW row \in AnyRow
  PROVE  /\ row.kind \in PostVerb \cup {kAssignWork, kReleaseWork}
         /\ row.resident \in Named /\ row.status \in OrderStatus /\ row.refusal \in Refusals
         /\ PostOf(row) \in IF row.kind = kAppoint THEN Post ELSE {NoPost}
         /\ "status" \in DOMAIN row
  BY DEF AnyRow

LEMMA RowSet ==
  ASSUME NEW row \in AnyRow, NEW status \in OrderStatus, NEW refusal \in Refusals
  PROVE  LET q == [row EXCEPT !.status = status, !.refusal = refusal] IN
         /\ q \in AnyRow /\ q.status = status /\ q.refusal = refusal
         /\ q.kind = row.kind /\ q.resident = row.resident /\ q.target = row.target
         /\ PostOf(q) = PostOf(row)
  BY DEF AnyRow, PostOf

LEMMA StatusSet ==
  ASSUME NEW row \in AnyRow, NEW status \in OrderStatus
  PROVE  LET q == [row EXCEPT !.status = status] IN
         /\ q \in AnyRow /\ q.status = status /\ q.refusal = row.refusal
         /\ q.kind = row.kind /\ q.resident = row.resident /\ q.target = row.target
         /\ PostOf(q) = PostOf(row)
  BY DEF AnyRow, PostOf

LEMMA OrderRowIs ==
  ASSUME NEW row \in OrderRow
  PROVE  row \in AnyRow /\ row.status = kPending /\ row.refusal = "kNone"
<1>1. CASE row \in {Given(kAppoint, m, post, "none") : m \in Named, post \in Post}
  <2>1. PICK m \in Named, post \in Post : row = Given(kAppoint, m, post, "none")
    BY <1>1
  <2>2. post = [profession |-> post.profession, unit |-> post.unit]
    BY DEF Post
  <2> QED BY <2>1, <2>2 DEF Given, AnyRow, PostOf, PostVerb, OrderStatus, Refusals, kAppoint
<1>2. CASE row \in {Given(kind, m, NoPost, "none") : kind \in {kDismiss, kReleaseWork}, m \in Named}
  BY <1>2 DEF Given, AnyRow, PostOf, NoPost, PostVerb, OrderStatus, Refusals, kAppoint, kDismiss,
              kReleaseWork
<1>3. CASE row \in {Given(kAssignWork, m, NoPost, target) : m \in Named, target \in Target}
  BY <1>3 DEF Given, AnyRow, PostOf, NoPost, PostVerb, OrderStatus, Refusals, kAppoint,
              kAssignWork
<1> QED BY <1>1, <1>2, <1>3 DEF OrderRow

\* Withdrawn or judged, the rows are still orders.
LEMMA RowsAreOrders == T!OrderRows
<1> SUFFICES ASSUME NEW row \in AnyRow
             PROVE  /\ "status" \in DOMAIN row /\ row.status \in T!OrderStatus
                    /\ T!Withdrawn(row) \in AnyRow /\ T!Judged(row) \in AnyRow
  BY DEF T!OrderRows
<1>1. "status" \in DOMAIN row /\ row.status \in OrderStatus
  BY RowParts
<1>2. Withdrawn(row) \in AnyRow
  BY StatusSet DEF Withdrawn, OrderStatus
<1>3. Judged(row) \in AnyRow
  <2>1. kRefused \in OrderStatus /\ "kNoConsumer" \in Refusals
    BY DEF OrderStatus, Refusals
  <2>2. [row EXCEPT !.status = kRefused, !.refusal = "kNoConsumer"] \in AnyRow
    BY <2>1, RowSet
  <2> QED BY <2>2 DEF Judged
<1> QED BY <1>1, <1>2, <1>3, SameBookOperators

\* What a good book's parts are, in the forms the proofs use.
LEMMA BookParts ==
  ASSUME NEW b, GoodBook(b)
  PROVE  /\ b.next_id_value \in 1..(MaxOrder + 1)
         /\ b.rows \in Seq(AnyRow) /\ b.row_ids \in Seq(1..MaxOrder)
         /\ Len(b.rows) \in Nat /\ Len(b.row_ids) = Len(b.rows)
         /\ DOMAIN b.rows = 1..Len(b.rows) /\ DOMAIN b.row_ids = 1..Len(b.rows)
         /\ \A r \in 1..Len(b.rows) :
              /\ b.rows[r] \in AnyRow
              /\ b.row_ids[r] \in 1..MaxOrder /\ b.row_ids[r] < b.next_id_value
              /\ FindRow(b, b.row_ids[r]) = r
              /\ b.row_ids[r] \in StoredIds(b) /\ Live(b)[b.row_ids[r]] = b.rows[r]
         /\ \A r, q \in 1..Len(b.rows) : b.row_ids[r] = b.row_ids[q] => r = q
         /\ \A id : FindRow(b, id) # kNoRow <=> id \in StoredIds(b)
         /\ \A id \in StoredIds(b) :
              /\ FindRow(b, id) \in 1..Len(b.rows) /\ b.row_ids[FindRow(b, id)] = id
              /\ Live(b)[id] = b.rows[FindRow(b, id)]
              /\ id \in 1..MaxOrder /\ id < b.next_id_value
<1>1. T!Good(b)
  BY DEF GoodBook
<1>2. /\ T!StoredIds(b) = StoredIds(b) /\ T!Live(b) = Live(b) /\ T!kNoRow = kNoRow
      /\ \A id : T!FindRow(b, id) = FindRow(b, id)
  BY SameOperators
<1>3. /\ b.next_id_value \in 1..(MaxOrder + 1)
      /\ b.rows \in Seq(AnyRow) /\ b.row_ids \in Seq(1..MaxOrder)
      /\ Len(b.rows) \in Nat /\ Len(b.row_ids) = Len(b.rows)
      /\ DOMAIN b.rows = 1..Len(b.rows) /\ DOMAIN b.row_ids = 1..Len(b.rows)
      /\ \A r, q \in 1..Len(b.rows) : b.row_ids[r] = b.row_ids[q] => r = q
  BY <1>1, T!BookParts, BoundAssumption
<1>4. \A r \in 1..Len(b.rows) :
        /\ b.rows[r] \in AnyRow
        /\ b.row_ids[r] \in 1..MaxOrder /\ b.row_ids[r] < b.next_id_value
        /\ T!FindRow(b, b.row_ids[r]) = r
        /\ b.row_ids[r] \in T!StoredIds(b) /\ T!Live(b)[b.row_ids[r]] = b.rows[r]
  BY <1>1, T!BookParts, BoundAssumption
<1>5. \A id : T!FindRow(b, id) # T!kNoRow <=> id \in T!StoredIds(b)
  BY <1>1, T!BookParts, BoundAssumption
<1>6. \A id \in T!StoredIds(b) :
        /\ T!FindRow(b, id) \in 1..Len(b.rows) /\ b.row_ids[T!FindRow(b, id)] = id
        /\ T!Live(b)[id] = b.rows[T!FindRow(b, id)]
        /\ id \in 1..MaxOrder /\ id < b.next_id_value
  BY <1>1, T!BookParts, BoundAssumption
<1>7. \A r \in 1..Len(b.rows) :
        /\ FindRow(b, b.row_ids[r]) = r
        /\ b.row_ids[r] \in StoredIds(b) /\ Live(b)[b.row_ids[r]] = b.rows[r]
  BY <1>2, <1>4
<1>8. \A id : FindRow(b, id) # kNoRow <=> id \in StoredIds(b)
  BY <1>2, <1>5
<1>9. \A id \in StoredIds(b) :
        /\ FindRow(b, id) \in 1..Len(b.rows) /\ b.row_ids[FindRow(b, id)] = id
        /\ Live(b)[id] = b.rows[FindRow(b, id)]
        /\ id \in 1..MaxOrder /\ id < b.next_id_value
  BY <1>2, <1>6
<1> QED BY <1>3, <1>4, <1>7, <1>8, <1>9

\* Rows rewritten in place, each where it stands.
LEMMA RowsBook ==
  ASSUME NEW b, GoodBook(b), NEW rows \in Seq(AnyRow), Len(rows) = Len(b.rows)
  PROVE  LET c == [b EXCEPT !.rows = rows] IN
         /\ GoodBook(c)
         /\ c.rows = rows /\ c.row_ids = b.row_ids /\ c.next_id_value = b.next_id_value
         /\ StoredIds(c) = StoredIds(b)
         /\ \A id : FindRow(c, id) = FindRow(b, id)
         /\ Live(c) = [id \in StoredIds(b) |-> rows[FindRow(b, id)]]
<1> DEFINE c == [b EXCEPT !.rows = rows]
<1>1. /\ T!Good(c)
      /\ c.rows = rows /\ c.row_ids = b.row_ids /\ c.next_id_value = b.next_id_value
      /\ T!StoredIds(c) = T!StoredIds(b)
      /\ \A id : T!FindRow(c, id) = T!FindRow(b, id)
      /\ T!Live(c) = [id \in T!StoredIds(b) |-> rows[T!FindRow(b, id)]]
  BY T!RowsBook, BoundAssumption DEF GoodBook
<1> HIDE DEF c
<1>2. GoodBook(c) /\ StoredIds(c) = StoredIds(b) /\ \A id : FindRow(c, id) = FindRow(b, id)
  BY <1>1, SameOperators DEF GoodBook
<1>3. Live(c) = [id \in StoredIds(b) |-> rows[FindRow(b, id)]]
  <2>1. T!Live(c) = Live(c) /\ T!StoredIds(b) = StoredIds(b)
    BY SameOperators
  <2>2. \A id : T!FindRow(b, id) = FindRow(b, id)
    BY SameOperators
  <2> QED BY <1>1, <2>1, <2>2
<1> QED BY <1>1, <1>2, <1>3 DEF c

\* The batch leaves the rows where they stood, each as it was or withdrawn, and
\* puts behind them the rows issued, with the ids from the counter on.
LEMMA BatchRows ==
  ASSUME NEW b, GoodBook(b), NEW issued \in Seq(OrderRow), NEW cancelled \in Seq(1..MaxOrder),
         b.next_id_value + Len(issued) <= MaxOrder + 1
  PROVE  LET c == ApplyBatch(b, issued, cancelled)
             n == Len(b.rows)
         IN /\ GoodBook(c) /\ Len(c.rows) = n + Len(issued)
            /\ c.next_id_value = b.next_id_value + Len(issued)
            /\ \A r \in 1..n :
                 /\ c.row_ids[r] = b.row_ids[r]
                 /\ c.rows[r] = IF \E k \in DOMAIN cancelled : cancelled[k] = b.row_ids[r]
                                THEN Withdrawn(b.rows[r]) ELSE b.rows[r]
            /\ \A k \in 1..Len(issued) :
                 /\ c.row_ids[n + k] = b.next_id_value + k - 1
                 /\ c.rows[n + k] \in {issued[k], Withdrawn(issued[k])}
<1> DEFINE n == Len(b.rows)
           next == b.next_id_value
           i == Len(issued)
           d == FoldLeft(AppendRow, b, issued)
           c == FoldLeft(MarkCancelled, d, cancelled)
<1>1. issued \in Seq(AnyRow) /\ i \in Nat
  BY OrderRowIs
<1>2. T!IssuedTo(b, issued, i, d)
  BY <1>1, T!IssuesBook, BoundAssumption, SameFolds DEF GoodBook
<1>3. /\ GoodBook(d) /\ Len(d.rows) = n + i /\ d.next_id_value = next + i
      /\ \A r \in 1..n : d.row_ids[r] = b.row_ids[r]
      /\ \A r \in 1..i : d.row_ids[n + r] = next + r - 1
      /\ Live(d) = [id \in StoredIds(b) \cup (next .. (next + i - 1)) |->
                      IF id \in StoredIds(b) THEN Live(b)[id] ELSE issued[id - next + 1]]
  BY <1>2, SameOperators DEF T!IssuedTo, GoodBook
<1>4. n \in Nat /\ next \in Nat
  BY BookParts
<1> HIDE DEF d
<1>5. DOMAIN cancelled = 1..Len(cancelled) /\ Len(cancelled) \in Nat
  OBVIOUS
<1>6. T!MarkedTo(d, cancelled, Len(cancelled), c)
  BY <1>3, <1>5, T!MarksBook, BoundAssumption, SameFolds, RowsAreOrders DEF GoodBook
<1> HIDE DEF c
<1>7. /\ GoodBook(c) /\ c.row_ids = d.row_ids /\ c.next_id_value = d.next_id_value
      /\ Live(c) = [id \in StoredIds(d) |->
                      IF id \in {cancelled[j] : j \in 1..Len(cancelled)}
                      THEN Withdrawn(Live(d)[id]) ELSE Live(d)[id]]
  BY <1>6, SameOperators, SameBookOperators DEF T!MarkedTo, GoodBook
<1>8. Len(c.rows) = n + i
  <2>1. Len(c.row_ids) = Len(c.rows)
    BY <1>7, BookParts
  <2>2. Len(d.row_ids) = Len(d.rows)
    BY <1>3, BookParts
  <2> QED BY <1>3, <1>7, <2>1, <2>2
<1>9. ASSUME NEW r \in 1..(n + i)
      PROVE  c.rows[r] = IF \E k \in DOMAIN cancelled : cancelled[k] = d.row_ids[r]
                         THEN Withdrawn(d.rows[r]) ELSE d.rows[r]
  <2>1. c.rows[r] = Live(c)[c.row_ids[r]]
    BY <1>7, <1>8, BookParts
  <2>2. d.rows[r] = Live(d)[d.row_ids[r]] /\ d.row_ids[r] \in StoredIds(d)
    BY <1>3, BookParts
  <2> DEFINE id == d.row_ids[r]
  <2>3. c.rows[r] = IF id \in {cancelled[j] : j \in 1..Len(cancelled)}
                    THEN Withdrawn(Live(d)[id]) ELSE Live(d)[id]
    BY <1>7, <2>1, <2>2
  <2>4. id \in {cancelled[j] : j \in 1..Len(cancelled)} <=>
          \E k \in DOMAIN cancelled : cancelled[k] = id
    BY <1>5
  <2> QED BY <2>2, <2>3, <2>4
<1>10. ASSUME NEW r \in 1..n
       PROVE  d.rows[r] = b.rows[r]
  <2>0. r \in 1..Len(d.rows)
    BY <1>1, <1>3, <1>4
  <2>1. d.rows[r] = Live(d)[d.row_ids[r]]
    BY <1>3, <2>0, BookParts
  <2>2. b.rows[r] = Live(b)[b.row_ids[r]] /\ b.row_ids[r] \in StoredIds(b)
    BY BookParts
  <2> QED BY <1>3, <2>1, <2>2
<1>11. ASSUME NEW k \in 1..i
       PROVE  d.rows[n + k] = issued[k]
  <2>1. n + k \in 1..Len(d.rows) /\ d.row_ids[n + k] = next + k - 1
    BY <1>1, <1>3, <1>4
  <2>2. d.rows[n + k] = Live(d)[next + k - 1]
    <3>1. \A r \in 1..Len(d.rows) : d.rows[r] = Live(d)[d.row_ids[r]]
      BY <1>3, BookParts
    <3> QED BY <2>1, <3>1
  <2>3. next + k - 1 \in next .. (next + i - 1) /\ (next + k - 1) - next + 1 = k
    BY <1>1, <1>4
  <2>4. next + k - 1 \notin StoredIds(b)
    <3>1. \A id \in StoredIds(b) : id \in Nat /\ id < next
      BY BookParts
    <3> QED BY <1>4, <2>3, <3>1
  <2> QED BY <1>3, <2>2, <2>3, <2>4
<1>12. ASSUME NEW r \in 1..n
       PROVE  /\ c.row_ids[r] = b.row_ids[r]
              /\ c.rows[r] = IF \E k \in DOMAIN cancelled : cancelled[k] = b.row_ids[r]
                             THEN Withdrawn(b.rows[r]) ELSE b.rows[r]
  <2>1. r \in 1..(n + i)
    BY <1>1, <1>4
  <2> QED BY <1>3, <1>7, <1>9, <1>10, <2>1
<1>13. ASSUME NEW k \in 1..i
       PROVE  /\ c.row_ids[n + k] = next + k - 1
              /\ c.rows[n + k] \in {issued[k], Withdrawn(issued[k])}
  <2>1. n + k \in 1..(n + i)
    BY <1>1, <1>4
  <2> QED BY <1>3, <1>7, <1>9, <1>11, <2>1
<1>14. ApplyBatch(b, issued, cancelled) = c
  BY DEF ApplyBatch, c, d
<1> QED BY <1>3, <1>7, <1>8, <1>12, <1>13, <1>14

\* What the sweep leaves are rows of the book it found, under their ids, and
\* neither pending nor answered.
LEMMA SweptRows ==
  ASSUME NEW b, GoodBook(b)
  PROVE  LET c == SweptBook(b) IN
         /\ GoodBook(c) /\ c.next_id_value = b.next_id_value
         /\ \A r \in 1..Len(c.rows) : \E q \in 1..Len(b.rows) :
              /\ c.rows[r] = b.rows[q] /\ c.row_ids[r] = b.row_ids[q]
              /\ b.rows[q].status \notin Terminal \cup {kPending}
         /\ \A q \in 1..Len(b.rows) : b.rows[q].status \notin Terminal \cup {kPending} =>
              \E r \in 1..Len(c.rows) : c.rows[r] = b.rows[q]
<1> DEFINE d == JudgedBook(b)
           c == WithoutDone(d)
<1>1. GoodBook(d) /\ d.next_id_value = b.next_id_value
      /\ Live(d) = [id \in StoredIds(b) |-> Judged(Live(b)[id])]
  BY T!JudgeBook, BoundAssumption, SameOperators, SameBookOperators, RowsAreOrders DEF GoodBook
<1> HIDE DEF d
<1>2. T!Opened(Live(d)) = {id \in DOMAIN Live(d) : Live(d)[id].status \notin Terminal}
  BY SameBookOperators DEF T!Opened
<1>3. /\ GoodBook(c) /\ c.next_id_value = d.next_id_value
      /\ Live(c) = [id \in T!Opened(Live(d)) |-> Live(d)[id]]
  <2>1. /\ T!Good(T!WithoutDone(d)) /\ T!WithoutDone(d).next_id_value = d.next_id_value
        /\ T!Live(T!WithoutDone(d)) = [id \in T!Opened(T!Live(d)) |-> T!Live(d)[id]]
    BY <1>1, T!SweepBook, BoundAssumption DEF GoodBook
  <2>2. T!WithoutDone(d) = c /\ T!Live(d) = Live(d) /\ T!Live(c) = Live(c)
    BY SameOperators, SameFolds
  <2> HIDE DEF c
  <2> QED BY <2>1, <2>2 DEF GoodBook
<1> HIDE DEF c
<1>4. ASSUME NEW r \in 1..Len(c.rows)
      PROVE  \E q \in 1..Len(b.rows) :
              /\ c.rows[r] = b.rows[q] /\ c.row_ids[r] = b.row_ids[q]
              /\ b.rows[q].status \notin Terminal \cup {kPending}
  <2> DEFINE id == c.row_ids[r]
  <2>1. id \in StoredIds(c) /\ c.rows[r] = Live(c)[id]
    BY <1>3, BookParts
  <2>2. DOMAIN Live(c) = StoredIds(c)
    BY DEF Live
  <2>3. id \in StoredIds(b) /\ c.rows[r] = Judged(Live(b)[id]) /\ c.rows[r].status \notin Terminal
    BY <1>1, <1>2, <1>3, <2>1, <2>2
  <2>4. FindRow(b, id) \in 1..Len(b.rows) /\ b.row_ids[FindRow(b, id)] = id
        /\ Live(b)[id] = b.rows[FindRow(b, id)] /\ b.rows[FindRow(b, id)] \in AnyRow
    BY <2>3, BookParts
  <2> HIDE DEF id
  <2>5. PICK q \in 1..Len(b.rows) : q = FindRow(b, id)
    BY <2>4
  <2>6. ASSUME b.rows[q].status = kPending PROVE FALSE
    <3>1. Judged(b.rows[q]).status = kRefused
      BY <2>4, <2>5, <2>6 DEF Judged, AnyRow
    <3> QED BY <2>3, <2>4, <2>5, <3>1 DEF Terminal
  <2>7. Judged(b.rows[q]) = b.rows[q]
    BY <2>6 DEF Judged
  <2> QED BY <2>3, <2>4, <2>5, <2>6, <2>7 DEF id
<1>5. SweptBook(b) = c
  BY DEF SweptBook, c, d
<1>6. ASSUME NEW q \in 1..Len(b.rows), b.rows[q].status \notin Terminal \cup {kPending}
      PROVE  \E r \in 1..Len(c.rows) : c.rows[r] = b.rows[q]
  <2> DEFINE id == b.row_ids[q]
  <2>1. id \in StoredIds(b) /\ Live(b)[id] = b.rows[q]
    BY BookParts
  <2> HIDE DEF id
  <2>2. Judged(b.rows[q]) = b.rows[q]
    BY <1>6 DEF Judged
  <2>3. id \in DOMAIN Live(d) /\ Live(d)[id] = b.rows[q]
    BY <1>1, <2>1, <2>2
  <2>4. id \in DOMAIN Live(c) /\ Live(c)[id] = b.rows[q]
    BY <1>2, <1>3, <1>6, <2>3
  <2>5. id \in StoredIds(c)
    BY <2>4 DEF Live
  <2>6. FindRow(c, id) \in 1..Len(c.rows) /\ Live(c)[id] = c.rows[FindRow(c, id)]
    BY <1>3, <2>5, BookParts
  <2> QED BY <2>4, <2>6
<1> QED BY <1>1, <1>3, <1>4, <1>5, <1>6

-----------------------------------------------------------------------------
(* A world in the middle of the labour sub-step.                           *)

At(w, r) == w.orders.rows[r]
Rows(w)  == 1..Len(w.orders.rows)

UnitState  == {"site", "stands", "demolishing"}
PlaceState == {"open", "worked out", "planted"}

IsWorld(w) ==
  /\ w = [tick |-> w.tick, orders |-> w.orders, post |-> w.post, units |-> w.units,
          places |-> w.places]
  /\ w.tick \in Nat /\ GoodBook(w.orders)
  /\ w.post \in [DOMAIN w.post -> Post \cup {NoPost}] /\ DOMAIN w.post \subseteq Resident
  /\ w.units \in [DOMAIN w.units -> UnitState]
  /\ w.places \in [DOMAIN w.places -> PlaceState]

\* One order, whatever has come of it.
SameOrder(a, b) ==
  b.kind = a.kind /\ b.resident = a.resident /\ b.target = a.target /\ PostOf(b) = PostOf(a)

\* The readers of the book give answers and posts, and leave the rest alone.
Kept(w, v) ==
  /\ IsWorld(v) /\ v.tick = w.tick /\ v.units = w.units /\ v.places = w.places
  /\ DOMAIN v.post = DOMAIN w.post
  /\ v.orders.row_ids = w.orders.row_ids /\ v.orders.next_id_value = w.orders.next_id_value
  /\ Rows(v) = Rows(w) /\ Len(v.orders.rows) = Len(w.orders.rows)
  /\ \A r \in Rows(w) : SameOrder(At(w, r), At(v, r))

LEMMA WorldParts ==
  ASSUME NEW w, IsWorld(w)
  PROVE  /\ Len(w.orders.rows) \in Nat /\ Rows(w) \subseteq Nat
         /\ DOMAIN w.orders.rows = Rows(w)
         /\ w.orders.rows \in [Rows(w) -> AnyRow]
         /\ \A r \in Rows(w) : At(w, r) \in AnyRow
<1>1. /\ Len(w.orders.rows) \in Nat /\ DOMAIN w.orders.rows = Rows(w)
      /\ w.orders.rows \in Seq(AnyRow)
      /\ \A r \in Rows(w) : w.orders.rows[r] \in AnyRow
  BY BookParts DEF IsWorld, Rows
<1>2. w.orders.rows \in [Rows(w) -> AnyRow]
  BY <1>1 DEF Rows
<1> QED BY <1>1, <1>2 DEF Rows, At

LEMMA RowSettled ==
  ASSUME NEW row \in AnyRow, NEW status \in OrderStatus, NEW refusal \in Refusals
  PROVE  LET q == [row EXCEPT !.status = status, !.refusal = refusal] IN
         q \in AnyRow /\ q.status = status /\ q.refusal = refusal /\ SameOrder(row, q)
<1> DEFINE q == [row EXCEPT !.status = status, !.refusal = refusal]
<1>1. /\ q \in AnyRow /\ q.status = status /\ q.refusal = refusal
      /\ q.kind = row.kind /\ q.resident = row.resident /\ q.target = row.target
      /\ PostOf(q) = PostOf(row)
  BY RowSet
<1> HIDE DEF q
<1>2. SameOrder(row, q)
  BY <1>1 DEF SameOrder
<1> QED BY <1>1, <1>2 DEF q

LEMMA RefusedIs ==
  ASSUME NEW row \in AnyRow, NEW refusal \in Refusals
  PROVE  /\ RefusedRow(row, refusal) \in AnyRow
         /\ SameOrder(row, RefusedRow(row, refusal))
         /\ RefusedRow(row, refusal).status = kRefused
         /\ RefusedRow(row, refusal).refusal = refusal
<1> DEFINE q == [row EXCEPT !.status = kRefused, !.refusal = refusal]
<1>1. kRefused \in OrderStatus
  BY DEF OrderStatus
<1>2. q \in AnyRow /\ q.status = kRefused /\ q.refusal = refusal /\ SameOrder(row, q)
  BY <1>1, RowSettled
<1>3. RefusedRow(row, refusal) = q
  BY DEF RefusedRow
<1> HIDE DEF q
<1> QED BY <1>2, <1>3

LEMMA KeptSelf ==
  ASSUME NEW w, IsWorld(w)
  PROVE  Kept(w, w)
  BY DEF Kept, SameOrder

LEMMA KeptOn ==
  ASSUME NEW w, NEW u, NEW v, Kept(w, u), Kept(u, v)
  PROVE  Kept(w, v)
  BY DEF Kept, SameOrder

\* Rows rewritten where they stand, each still the same order.
LEMMA RewrittenIs ==
  ASSUME NEW w, IsWorld(w), NEW new \in [Rows(w) -> AnyRow],
         \A r \in Rows(w) : SameOrder(At(w, r), new[r])
  PROVE  LET v == [w EXCEPT !.orders.rows = new] IN
         Kept(w, v) /\ v.post = w.post /\ \A r \in Rows(w) : At(v, r) = new[r]
<1> DEFINE c == [w.orders EXCEPT !.rows = new]
           v == [w EXCEPT !.orders.rows = new]
<1>1. Len(w.orders.rows) \in Nat /\ GoodBook(w.orders)
  BY WorldParts DEF IsWorld
<1>2. new \in Seq(AnyRow) /\ Len(new) = Len(w.orders.rows)
  BY <1>1 DEF Rows
<1>3. /\ GoodBook(c) /\ c.rows = new /\ c.row_ids = w.orders.row_ids
      /\ c.next_id_value = w.orders.next_id_value
  BY <1>1, <1>2, RowsBook
<1>4. v = [tick |-> w.tick, orders |-> c, post |-> w.post, units |-> w.units,
           places |-> w.places]
  BY DEF IsWorld
<1> HIDE DEF c, v
<1>5. /\ v.tick = w.tick /\ v.orders = c /\ v.post = w.post /\ v.units = w.units
      /\ v.places = w.places
  BY <1>4
<1>6. IsWorld(v)
  BY <1>3, <1>4, <1>5 DEF IsWorld
<1>7. \A r \in Rows(w) : At(v, r) = new[r]
  BY <1>3, <1>5 DEF At
<1>8. Rows(v) = Rows(w) /\ Len(v.orders.rows) = Len(w.orders.rows)
  BY <1>2, <1>3, <1>5 DEF Rows
<1>9. Kept(w, v)
  BY <1>3, <1>5, <1>6, <1>7, <1>8 DEF Kept
<1> QED BY <1>5, <1>7, <1>9 DEF v

\* One row settled: it gets the answer, and no other row anything.
LEMMA SettledIs ==
  ASSUME NEW w, IsWorld(w), NEW r \in Rows(w), NEW status \in OrderStatus,
         NEW refusal \in Refusals
  PROVE  LET v == Settled(w, r, status, refusal) IN
         /\ Kept(w, v) /\ v.post = w.post
         /\ At(v, r).status = status /\ At(v, r).refusal = refusal
         /\ \A q \in Rows(w) : q # r => At(v, q) = At(w, q)
<1> DEFINE row == [At(w, r) EXCEPT !.status = status, !.refusal = refusal]
           new == [q \in Rows(w) |-> IF q = r THEN row ELSE At(w, q)]
           v == [w EXCEPT !.orders.rows = new]
<1>1. At(w, r) \in AnyRow
  BY WorldParts
<1>2. /\ row \in AnyRow /\ row.status = status /\ row.refusal = refusal
      /\ SameOrder(At(w, r), row)
  BY <1>1, RowSettled
<1>3. Settled(w, r, status, refusal) = v
  <2>1. w = [tick |-> w.tick, orders |-> w.orders, post |-> w.post, units |-> w.units,
             places |-> w.places]
    BY DEF IsWorld
  <2>2. w.orders = [rows |-> w.orders.rows, row_ids |-> w.orders.row_ids,
                    row_by_id |-> w.orders.row_by_id, next_id_value |-> w.orders.next_id_value]
    BY DEF IsWorld, GoodBook, T!Good, T!Shape
  <2>3. DOMAIN w.orders.rows = Rows(w) /\ w.orders.rows = [q \in Rows(w) |-> w.orders.rows[q]]
    BY WorldParts
  <2>4. row = [[At(w, r) EXCEPT !.status = status] EXCEPT !.refusal = refusal]
    BY <1>1 DEF AnyRow
  <2> HIDE DEF row
  <2> QED BY <2>1, <2>2, <2>3, <2>4 DEF Settled, At
<1> HIDE DEF row
<1>4. new \in [Rows(w) -> AnyRow] /\ \A q \in Rows(w) : SameOrder(At(w, q), new[q])
  BY <1>2, WorldParts DEF SameOrder
<1>5. new[r] = row /\ \A q \in Rows(w) : q # r => new[q] = At(w, q)
  OBVIOUS
<1> HIDE DEF new
<1> QED BY <1>2, <1>3, <1>4, <1>5, RewrittenIs

-----------------------------------------------------------------------------
(* The batch taken, and refused if the chairman is away.                   *)

IsBatch(w, batch) ==
  /\ batch.issued \in Seq(OrderRow) /\ batch.cancelled \in Seq(1..MaxOrder)
  /\ w.orders.next_id_value + Len(batch.issued) <= MaxOrder + 1

WithdrawnIn(batch, id) == \E k \in DOMAIN batch.cancelled : batch.cancelled[k] = id

\* v is w with the batch in its book: what stood stands or is withdrawn, what
\* was issued waits, or is answered already.
Taken(w, batch, v) ==
  /\ IsWorld(v) /\ v.post = w.post /\ v.units = w.units /\ v.places = w.places
  /\ v.tick = w.tick + 1
  /\ Len(v.orders.rows) = Len(w.orders.rows) + Len(batch.issued)
  /\ v.orders.next_id_value = w.orders.next_id_value + Len(batch.issued)
  /\ \A r \in Rows(w) :
       /\ r \in Rows(v) /\ v.orders.row_ids[r] = w.orders.row_ids[r]
       /\ SameOrder(At(w, r), At(v, r))
       /\ At(v, r).status \in {kAccepted, kCancelled}
       /\ At(v, r).status = kAccepted => ~WithdrawnIn(batch, w.orders.row_ids[r])
  /\ \A k \in 1..Len(batch.issued) :
       LET r == Len(w.orders.rows) + k IN
       /\ r \in Rows(v) /\ v.orders.row_ids[r] >= w.orders.next_id_value
       /\ SameOrder(batch.issued[k], At(v, r))
       /\ At(v, r).status \in {kPending, kCancelled, kRefused}
       /\ At(v, r).refusal \in {"kNone", "kChairmanAway"}

LEMMA BegunIs ==
  ASSUME NEW w, IsWorld(w), NEW batch, IsBatch(w, batch),
         \A r \in Rows(w) : At(w, r).status = kAccepted
  PROVE  Taken(w, batch, Begun(w, batch))
<1> DEFINE b == w.orders
           c == ApplyBatch(b, batch.issued, batch.cancelled)
           n == Len(b.rows)
           v == Begun(w, batch)
<1>1. /\ GoodBook(c) /\ Len(c.rows) = n + Len(batch.issued)
      /\ c.next_id_value = b.next_id_value + Len(batch.issued)
      /\ \A r \in 1..n :
           /\ c.row_ids[r] = b.row_ids[r]
           /\ c.rows[r] = IF WithdrawnIn(batch, b.row_ids[r])
                          THEN Withdrawn(b.rows[r]) ELSE b.rows[r]
      /\ \A k \in 1..Len(batch.issued) :
           /\ c.row_ids[n + k] = b.next_id_value + k - 1
           /\ c.rows[n + k] \in {batch.issued[k], Withdrawn(batch.issued[k])}
  <2>1. GoodBook(b) /\ batch.issued \in Seq(OrderRow) /\ batch.cancelled \in Seq(1..MaxOrder)
        /\ b.next_id_value + Len(batch.issued) <= MaxOrder + 1
    BY DEF IsWorld, IsBatch
  <2> HIDE DEF b
  <2> QED BY <2>1, BatchRows DEF WithdrawnIn
<1> HIDE DEF c
<1>2. v = [tick |-> w.tick + 1, orders |-> c, post |-> w.post, units |-> w.units,
           places |-> w.places]
  <2>1. w = [tick |-> w.tick, orders |-> w.orders, post |-> w.post, units |-> w.units,
             places |-> w.places]
    BY DEF IsWorld
  <2>2. c = ApplyBatch(w.orders, batch.issued, batch.cancelled)
    BY DEF c
  <2>3. v = [[w EXCEPT !.tick = w.tick + 1] EXCEPT !.orders = c]
    BY <2>1, <2>2 DEF Begun
  <2> HIDE DEF v
  <2> QED BY <2>1, <2>3
<1> HIDE DEF v
<1>3. /\ v.tick = w.tick + 1 /\ v.orders = c /\ v.post = w.post /\ v.units = w.units
      /\ v.places = w.places
  BY <1>2
<1>4. IsWorld(v)
  <2>1. w.tick + 1 \in Nat
    BY DEF IsWorld
  <2> QED BY <1>1, <1>2, <1>3, <2>1 DEF IsWorld
<1>5. n \in Nat /\ Len(batch.issued) \in Nat /\ b.next_id_value \in Nat
      /\ DOMAIN batch.issued = 1..Len(batch.issued)
  BY BookParts DEF IsWorld, IsBatch
<1> DEFINE i == Len(batch.issued)
<1>9. Rows(w) = 1..n /\ Rows(v) = 1..(n + i) /\ n \in Nat /\ i \in Nat
  BY <1>1, <1>3, <1>5 DEF Rows
<1>10. /\ 1..n \subseteq 1..(n + i) /\ \A k \in 1..i : n + k \in 1..(n + i)
       /\ \A k \in 1..i : b.next_id_value + k - 1 >= b.next_id_value
  <2>1. \A x, y, z \in Nat : /\ 1..x \subseteq 1..(x + y)
                            /\ \A k \in 1..y : x + k \in 1..(x + y) /\ z + k - 1 >= z
    OBVIOUS
  <2> HIDE DEF n, i, b
  <2> QED BY <1>5, <1>9, <2>1
<1>6. ASSUME NEW row \in AnyRow
      PROVE  SameOrder(row, row) /\ SameOrder(row, Withdrawn(row))
             /\ Withdrawn(row).refusal = row.refusal
             /\ (row.status \in Cancellable => Withdrawn(row).status = kCancelled)
  BY StatusSet DEF SameOrder, Withdrawn, OrderStatus
<1>7. ASSUME NEW r \in Rows(w)
      PROVE  /\ r \in Rows(v) /\ v.orders.row_ids[r] = w.orders.row_ids[r]
             /\ SameOrder(At(w, r), At(v, r))
             /\ At(v, r).status \in {kAccepted, kCancelled}
             /\ At(v, r).status = kAccepted => ~WithdrawnIn(batch, w.orders.row_ids[r])
  <2>1. r \in 1..n /\ r \in Rows(v)
    BY <1>9, <1>10
  <2>2. At(w, r) \in AnyRow /\ At(w, r).status = kAccepted
    BY WorldParts
  <2>3. At(v, r) = IF WithdrawnIn(batch, b.row_ids[r]) THEN Withdrawn(At(w, r)) ELSE At(w, r)
    BY <1>1, <1>3, <2>1 DEF At
  <2>4. kAccepted \in Cancellable /\ kCancelled # kAccepted
    BY DEF Cancellable, kAccepted, kCancelled
  <2> QED BY <1>1, <1>3, <1>6, <2>1, <2>2, <2>3, <2>4
<1>8. ASSUME NEW k \in 1..Len(batch.issued)
      PROVE  LET r == n + k IN
             /\ r \in Rows(v) /\ v.orders.row_ids[r] >= w.orders.next_id_value
             /\ SameOrder(batch.issued[k], At(v, r))
             /\ At(v, r).status \in {kPending, kCancelled, kRefused}
             /\ At(v, r).refusal \in {"kNone", "kChairmanAway"}
  <2>1. n + k \in Rows(v) /\ c.row_ids[n + k] >= w.orders.next_id_value
    BY <1>1, <1>9, <1>10
  <2>2. batch.issued[k] \in AnyRow /\ batch.issued[k].status = kPending
        /\ batch.issued[k].refusal = "kNone"
    BY <1>5, OrderRowIs DEF IsBatch
  <2>3. kPending \in Cancellable
    BY DEF Cancellable
  <2>4. At(v, n + k) \in {batch.issued[k], Withdrawn(batch.issued[k])}
    BY <1>1, <1>3 DEF At
  <2> QED BY <1>3, <1>6, <2>1, <2>2, <2>3, <2>4
<1> QED BY <1>1, <1>3, <1>4, <1>7, <1>8 DEF Taken, v

LEMMA GatedIs ==
  ASSUME NEW w, NEW batch, NEW u, Taken(w, batch, u)
  PROVE  Taken(w, batch, Gated(u))
<1> DEFINE Answer(row) == IF row.status = kPending THEN RefusedRow(row, "kChairmanAway") ELSE row
           new == [r \in Rows(u) |-> Answer(At(u, r))]
           v == [u EXCEPT !.orders.rows = new]
<1>1. CASE u.tick \notin AwayTicks
  BY <1>1 DEF Gated
<1>2. CASE u.tick \in AwayTicks
  <2>1. IsWorld(u)
    BY DEF Taken
  <2>2. ASSUME NEW row \in AnyRow
        PROVE  /\ Answer(row) \in AnyRow /\ SameOrder(row, Answer(row))
               /\ \/ Answer(row) = row
                  \/ /\ row.status = kPending /\ Answer(row).status = kRefused
                     /\ Answer(row).refusal = "kChairmanAway"
    <3>1. "kChairmanAway" \in Refusals
      BY DEF Refusals
    <3>2. CASE row.status = kPending
      BY <3>1, <3>2, RefusedIs
    <3>3. CASE row.status # kPending
      BY <3>3 DEF SameOrder
    <3> QED BY <3>2, <3>3
  <2>3. /\ new \in [Rows(u) -> AnyRow] /\ \A r \in Rows(u) : SameOrder(At(u, r), new[r])
        /\ \A r \in Rows(u) : \/ new[r] = At(u, r)
                              \/ /\ At(u, r).status = kPending /\ new[r].status = kRefused
                                 /\ new[r].refusal = "kChairmanAway"
    BY <2>1, <2>2, WorldParts
  <2>4. Gated(u) = v
    <3>1. DOMAIN u.orders.rows = Rows(u)
      BY <2>1, WorldParts
    <3> QED BY <1>2, <3>1 DEF Gated, At
  <2> HIDE DEF new, Answer
  <2>5. /\ Kept(u, v) /\ v.post = u.post /\ \A r \in Rows(u) : At(v, r) = new[r]
    BY <2>1, <2>3, RewrittenIs
  <2> HIDE DEF v
  <2>6. ASSUME NEW r \in Rows(u)
        PROVE  /\ r \in Rows(v) /\ v.orders.row_ids[r] = u.orders.row_ids[r]
               /\ SameOrder(At(u, r), At(v, r))
               /\ \/ At(v, r) = At(u, r)
                  \/ /\ At(u, r).status = kPending /\ At(v, r).status = kRefused
                     /\ At(v, r).refusal = "kChairmanAway"
    BY <2>3, <2>5 DEF Kept
  <2>7. kAccepted # kPending /\ kCancelled # kPending /\ kRefused # kPending
    BY DEF kAccepted, kCancelled, kRefused, kPending
  <2>8. \A a, b, c : SameOrder(a, b) /\ SameOrder(b, c) => SameOrder(a, c)
    BY DEF SameOrder
  <2>9. ASSUME NEW r \in Rows(w)
        PROVE  /\ r \in Rows(v) /\ v.orders.row_ids[r] = w.orders.row_ids[r]
               /\ SameOrder(At(w, r), At(v, r))
               /\ At(v, r).status \in {kAccepted, kCancelled}
               /\ At(v, r).status = kAccepted => ~WithdrawnIn(batch, w.orders.row_ids[r])
    BY <2>6, <2>7, <2>8 DEF Taken
  <2>10. ASSUME NEW k \in 1..Len(batch.issued)
         PROVE  LET r == Len(w.orders.rows) + k IN
                /\ r \in Rows(v) /\ v.orders.row_ids[r] >= w.orders.next_id_value
                /\ SameOrder(batch.issued[k], At(v, r))
                /\ At(v, r).status \in {kPending, kCancelled, kRefused}
                /\ At(v, r).refusal \in {"kNone", "kChairmanAway"}
    <3> DEFINE r == Len(w.orders.rows) + k
    <3>1. /\ r \in Rows(u) /\ u.orders.row_ids[r] >= w.orders.next_id_value
          /\ SameOrder(batch.issued[k], At(u, r))
          /\ At(u, r).status \in {kPending, kCancelled, kRefused}
          /\ At(u, r).refusal \in {"kNone", "kChairmanAway"}
      BY DEF Taken
    <3> HIDE DEF r
    <3>2. /\ r \in Rows(v) /\ v.orders.row_ids[r] >= w.orders.next_id_value
          /\ SameOrder(batch.issued[k], At(v, r))
          /\ At(v, r).status \in {kPending, kCancelled, kRefused}
          /\ At(v, r).refusal \in {"kNone", "kChairmanAway"}
      BY <2>6, <2>8, <3>1
    <3> QED BY <3>2 DEF r
  <2> QED BY <2>4, <2>5, <2>9, <2>10 DEF Taken, Kept
<1> QED BY <1>1, <1>2

-----------------------------------------------------------------------------
(* What the book says of a man, and one order read.                        *)

\* An accepted order of the man m, of one of these kinds.
Stands(w, r, kinds, m) ==
  /\ r \in Rows(w) /\ At(w, r).status = kAccepted
  /\ At(w, r).kind \in kinds /\ At(w, r).resident = m

LEMMA BookSays ==
  ASSUME NEW w, IsWorld(w), NEW m
  PROVE  /\ \A r : r \in StandingWork(w, m) <=> Stands(w, r, {kAssignWork}, m)
         /\ AppointmentIsWaiting(w, m) <=> \E r : Stands(w, r, {kAppoint}, m)
         /\ \A self : HasWaitingPostOrder(w, m, self) <=>
              \E r : Stands(w, r, PostVerb, m) /\ r # self
         /\ DismissalIsInTheBook(w, m) <=>
              \E r \in Rows(w) : /\ At(w, r).kind = kDismiss /\ At(w, r).resident = m
                                 /\ At(w, r).status \notin {kRefused, kCancelled}
         /\ ReleaseIsInTheBook(w, m) <=>
              \E r \in Rows(w) : /\ At(w, r).kind = kReleaseWork /\ At(w, r).resident = m
                                 /\ At(w, r).status \notin {kRefused, kCancelled}
         /\ \A self : WorkOrderCameFirst(w, m, self) <=>
              \E r \in Rows(w) : /\ r < self /\ At(w, r).kind = kAssignWork
                                 /\ At(w, r).resident = m /\ At(w, r).status = kPending
<1>1. DOMAIN w.orders.rows = Rows(w)
  BY WorldParts
<1>2. \A kind : OrdersOf(w, m, kind) =
        {r \in Rows(w) : At(w, r).kind = kind /\ At(w, r).resident = m}
  BY <1>1 DEF OrdersOf, At
<1>3. \A kind, r : r \in Accepted(w, OrdersOf(w, m, kind)) <=> Stands(w, r, {kind}, m)
  BY <1>2 DEF Accepted, Stands, At
<1>4. \A self : HasWaitingPostOrder(w, m, self) <=>
        \E r : Stands(w, r, PostVerb, m) /\ r # self
  BY <1>2 DEF HasWaitingPostOrder, Accepted, Stands, At, PostVerb
<1>5. /\ \A r : r \in StandingWork(w, m) <=> Stands(w, r, {kAssignWork}, m)
      /\ AppointmentIsWaiting(w, m) <=> \E r : Stands(w, r, {kAppoint}, m)
  BY <1>3 DEF StandingWork, AppointmentIsWaiting
<1>6. \A kind : InTheBook(w, OrdersOf(w, m, kind)) # {} <=>
        \E r \in Rows(w) : /\ At(w, r).kind = kind /\ At(w, r).resident = m
                           /\ At(w, r).status \notin {kRefused, kCancelled}
  BY <1>2 DEF InTheBook, At
<1>7. \A self : WorkOrderCameFirst(w, m, self) <=>
        \E r \in Rows(w) : /\ r < self /\ At(w, r).kind = kAssignWork
                           /\ At(w, r).resident = m /\ At(w, r).status = kPending
  BY <1>2 DEF WorkOrderCameFirst, At
<1> QED BY <1>4, <1>5, <1>6, <1>7 DEF DismissalIsInTheBook, ReleaseIsInTheBook

LEMMA WaitsBeside ==
  ASSUME NEW w, IsWorld(w), NEW m, NEW self, NEW r, Stands(w, r, PostVerb, m), r # self
  PROVE  HasWaitingPostOrder(w, m, self)
  BY BookSays

\* The answers a check can give.
LEMMA ChecksAre ==
  ASSUME NEW w, NEW order
  PROVE  /\ CheckPostOrder(w, order) \in Refusals /\ CheckAssignWork(w, order) \in Refusals
         /\ CheckPostOrder(w, order) = "kNone" => Lives(w, order.resident)
         /\ CheckAssignWork(w, order) = "kNone" =>
              Lives(w, order.resident) /\ ~AppointmentIsWaiting(w, order.resident)
  BY DEF CheckPostOrder, CheckAppointment, CheckDismissal, CheckAssignWork, Refusals

\* An order of the posts read: it stands if the man lives, nothing else of his
\* waits, and his work, if he has one, is being ended.
ReadAs(u, r, row) ==
  LET order == At(u, r)
      m     == order.resident
  IN IF order.status # kPending \/ order.kind \notin PostVerb THEN row = order
     ELSE /\ SameOrder(order, row)
          /\ \/ /\ row.status = kRefused
                /\ row.refusal = "kConflictsWithActive" =>
                     \/ StandingWork(u, m) # {} \/ HasWaitingPostOrder(u, m, r)
                     \/ WorkOrderCameFirst(u, m, r)
             \/ /\ row.status = kAccepted /\ row.refusal = "kNone" /\ Lives(u, m)
                /\ ~HasWaitingPostOrder(u, m, r)
                /\ order.kind = kAppoint =>
                     /\ ~WorkOrderCameFirst(u, m, r)
                     /\ StandingWork(u, m) # {} => ReleaseIsInTheBook(u, m)

LEMMA ReadPostIs ==
  ASSUME NEW u, IsWorld(u), NEW r \in Rows(u)
  PROVE  LET v == ReadPostOrder(u, r) IN
         /\ Kept(u, v) /\ v.post = u.post /\ ReadAs(u, r, At(v, r))
         /\ \A q \in Rows(u) : q # r => At(v, q) = At(u, q)
<1> DEFINE order == At(u, r)
           refusal == CheckPostOrder(u, order)
           v == ReadPostOrder(u, r)
<1>1. order = u.orders.rows[r]
  BY DEF At
<1>2. CASE order.status # kPending \/ order.kind \notin PostVerb
  <2>1. v = u
    BY <1>1, <1>2 DEF ReadPostOrder
  <2> QED BY <1>2, <2>1, KeptSelf DEF ReadAs
<1>3. CASE ~(order.status # kPending \/ order.kind \notin PostVerb) /\ refusal # "kNone"
  <2>1. v = Settled(u, r, kRefused, refusal)
    BY <1>1, <1>3 DEF ReadPostOrder
  <2>2. kRefused \in OrderStatus /\ refusal \in Refusals
    BY ChecksAre DEF OrderStatus
  <2>3. refusal = "kConflictsWithActive" => StandingWork(u, order.resident) # {}
    BY DEF CheckPostOrder, CheckAppointment, CheckDismissal
  <2> HIDE DEF refusal, v
  <2>4. /\ Kept(u, v) /\ v.post = u.post /\ At(v, r).status = kRefused /\ At(v, r).refusal = refusal
        /\ \A q \in Rows(u) : q # r => At(v, q) = At(u, q)
    BY <2>1, <2>2, SettledIs
  <2>5. SameOrder(order, At(v, r))
    BY <2>4 DEF Kept
  <2>6. ReadAs(u, r, At(v, r))
    BY <1>3, <2>3, <2>4, <2>5 DEF ReadAs
  <2> QED BY <2>4, <2>6 DEF v
<1>4. CASE ~(order.status # kPending \/ order.kind \notin PostVerb) /\ refusal = "kNone"
           /\ ConflictsWithTheBook(u, r)
  <2>1. v = Settled(u, r, kRefused, "kConflictsWithActive")
    BY <1>1, <1>4 DEF ReadPostOrder
  <2>2. kRefused \in OrderStatus /\ "kConflictsWithActive" \in Refusals
    BY DEF OrderStatus, Refusals
  <2>3. HasWaitingPostOrder(u, order.resident, r) \/ WorkOrderCameFirst(u, order.resident, r)
    BY <1>1, <1>4 DEF ConflictsWithTheBook
  <2> HIDE DEF refusal, v
  <2>4. /\ Kept(u, v) /\ v.post = u.post /\ At(v, r).status = kRefused
        /\ \A q \in Rows(u) : q # r => At(v, q) = At(u, q)
    BY <2>1, <2>2, SettledIs
  <2>5. SameOrder(order, At(v, r))
    BY <2>4 DEF Kept
  <2>6. ReadAs(u, r, At(v, r))
    BY <1>4, <2>3, <2>4, <2>5 DEF ReadAs
  <2> QED BY <2>4, <2>6 DEF v
<1>5. CASE ~(order.status # kPending \/ order.kind \notin PostVerb) /\ refusal = "kNone"
           /\ ~ConflictsWithTheBook(u, r)
  <2>1. v = Settled(u, r, kAccepted, "kNone")
    BY <1>1, <1>5 DEF ReadPostOrder
  <2>2. kAccepted \in OrderStatus /\ "kNone" \in Refusals
    BY DEF OrderStatus, Refusals
  <2>3. /\ Lives(u, order.resident) /\ ~HasWaitingPostOrder(u, order.resident, r)
        /\ order.kind = kAppoint => ~WorkOrderCameFirst(u, order.resident, r)
    BY <1>1, <1>5, ChecksAre DEF ConflictsWithTheBook
  <2>4. order.kind = kAppoint /\ StandingWork(u, order.resident) # {} =>
          ReleaseIsInTheBook(u, order.resident)
    BY <1>5 DEF CheckPostOrder, CheckAppointment
  <2> HIDE DEF refusal, v
  <2>5. /\ Kept(u, v) /\ v.post = u.post
        /\ At(v, r).status = kAccepted /\ At(v, r).refusal = "kNone"
        /\ \A q \in Rows(u) : q # r => At(v, q) = At(u, q)
    BY <2>1, <2>2, SettledIs
  <2>6. SameOrder(order, At(v, r))
    BY <2>5 DEF Kept
  <2>7. ReadAs(u, r, At(v, r))
    BY <1>5, <2>3, <2>4, <2>5, <2>6 DEF ReadAs
  <2> QED BY <2>5, <2>7 DEF v
<1> QED BY <1>2, <1>3, <1>4, <1>5

-----------------------------------------------------------------------------
(* The passes over the book's rows.                                        *)

Applies == INSTANCE FoldProofs WITH Op <- ApplyPostOrder
Posts   == INSTANCE FoldProofs WITH Op <- ReadPostOrder
Works   == INSTANCE FoldProofs WITH Op <- ReadWorkOrder

\* One fold, two names: as SequencesExt and as FoldProofs give it.
LEMMA SamePasses ==
  ASSUME NEW w, NEW seq
  PROVE  /\ Applies!FoldLeft(ApplyPostOrder, w, seq) = FoldLeft(ApplyPostOrder, w, seq)
         /\ Posts!FoldLeft(ReadPostOrder, w, seq) = FoldLeft(ReadPostOrder, w, seq)
         /\ Works!FoldLeft(ReadWorkOrder, w, seq) = FoldLeft(ReadWorkOrder, w, seq)
<1>1. Applies!FoldLeft(ApplyPostOrder, w, seq) = FoldLeft(ApplyPostOrder, w, seq)
  BY DEF FoldLeft, Applies!FoldLeft, MapThenFoldSet, Applies!MapThenFoldSet, Max, Applies!Max
<1>2. Posts!FoldLeft(ReadPostOrder, w, seq) = FoldLeft(ReadPostOrder, w, seq)
  BY DEF FoldLeft, Posts!FoldLeft, MapThenFoldSet, Posts!MapThenFoldSet, Max, Posts!Max
<1>3. Works!FoldLeft(ReadWorkOrder, w, seq) = FoldLeft(ReadWorkOrder, w, seq)
  BY DEF FoldLeft, Works!FoldLeft, MapThenFoldSet, Works!MapThenFoldSet, Max, Works!Max
<1> QED BY <1>1, <1>2, <1>3

\* A pass is one row after another, from the first to the last.
LEMMA PassSteps ==
  ASSUME NEW w, IsWorld(w)
  PROVE  LET n == Len(w.orders.rows) IN
         /\ \E g : /\ g[0] = w /\ g[n] = ApplyPostOrders(w)
                   /\ \A k \in 1..n : g[k] = ApplyPostOrder(g[k - 1], k)
         /\ \E g : /\ g[0] = w /\ g[n] = ReadPostOrders(w)
                   /\ \A k \in 1..n : g[k] = ReadPostOrder(g[k - 1], k)
         /\ \E g : /\ g[0] = w /\ CloseOrphanedWork(g[n]) = ReadWorkOrders(w)
                   /\ \A k \in 1..n : g[k] = ReadWorkOrder(g[k - 1], k)
<1> DEFINE n == Len(w.orders.rows)
           seq == [r \in DOMAIN w.orders.rows |-> r]
<1>1. n \in Nat /\ DOMAIN seq = 1..n /\ \A k \in 1..n : seq[k] = k
  BY WorldParts DEF Rows
<1>2. /\ ApplyPostOrders(w) = FoldLeft(ApplyPostOrder, w, seq)
      /\ ReadPostOrders(w) = FoldLeft(ReadPostOrder, w, seq)
      /\ ReadWorkOrders(w) = CloseOrphanedWork(FoldLeft(ReadWorkOrder, w, seq))
  BY DEF ApplyPostOrders, ReadPostOrders, ReadWorkOrders, OverRows
<1> HIDE DEF n, seq
<1>3. \A k \in 1..n : k \in 0..n /\ k # 0
  BY <1>1
<1>4. 0 \in 0..n
  BY <1>1
<1>5. PICK g : Applies!IsSteps(g, n, w, seq) /\ FoldLeft(ApplyPostOrder, w, seq) = g[n]
  BY <1>1, Applies!FoldSteps, SamePasses
<1>6. PICK h : Posts!IsSteps(h, n, w, seq) /\ FoldLeft(ReadPostOrder, w, seq) = h[n]
  BY <1>1, Posts!FoldSteps, SamePasses
<1>7. PICK f : Works!IsSteps(f, n, w, seq) /\ FoldLeft(ReadWorkOrder, w, seq) = f[n]
  BY <1>1, Works!FoldSteps, SamePasses
<1>8. /\ g[0] = w /\ g[n] = ApplyPostOrders(w)
      /\ \A k \in 1..n : g[k] = ApplyPostOrder(g[k - 1], k)
  BY <1>1, <1>2, <1>3, <1>4, <1>5 DEF Applies!IsSteps
<1>9. /\ h[0] = w /\ h[n] = ReadPostOrders(w)
      /\ \A k \in 1..n : h[k] = ReadPostOrder(h[k - 1], k)
  BY <1>1, <1>2, <1>3, <1>4, <1>6 DEF Posts!IsSteps
<1>10. /\ f[0] = w /\ CloseOrphanedWork(f[n]) = ReadWorkOrders(w)
       /\ \A k \in 1..n : f[k] = ReadWorkOrder(f[k - 1], k)
  BY <1>1, <1>2, <1>3, <1>4, <1>7 DEF Works!IsSteps
<1> QED BY <1>8, <1>9, <1>10 DEF n

\* A row is read in a world whose rows before it have been read and whose rows
\* behind it have not.
LEMMA PostsRead ==
  ASSUME NEW w, IsWorld(w)
  PROVE  LET v == ReadPostOrders(w) IN
         /\ Kept(w, v) /\ v.post = w.post
         /\ \A r \in Rows(w) : \E u :
              /\ Kept(w, u) /\ u.post = w.post /\ ReadAs(u, r, At(v, r))
              /\ \A q \in Rows(w) : q < r => At(u, q) = At(v, q)
              /\ \A q \in Rows(w) : q >= r => At(u, q) = At(w, q)
<1> DEFINE n == Len(w.orders.rows)
           v == ReadPostOrders(w)
<1>1. PICK g : /\ g[0] = w /\ g[n] = v
               /\ \A k \in 1..n : g[k] = ReadPostOrder(g[k - 1], k)
  BY PassSteps
<1>2. n \in Nat /\ Rows(w) = 1..n
  BY WorldParts DEF Rows
<1> HIDE DEF n, v
<1> DEFINE P(k) == /\ Kept(w, g[k]) /\ g[k].post = w.post
                   /\ \A q \in 1..n : q > k => At(g[k], q) = At(w, q)
                   /\ \A q \in 1..n : q <= k => At(g[k], q) = At(g[q], q)
           D == {k \in Nat : k <= n => P(k)}
<1>3. 0 \in D
  BY <1>1, KeptSelf
<1>4. ASSUME NEW k \in Nat, k \in D
      PROVE  k + 1 \in D
  <2> SUFFICES ASSUME k + 1 <= n PROVE P(k + 1)
    OBVIOUS
  <2>1. k + 1 \in 1..n /\ (k + 1) - 1 = k /\ k <= n
    BY <1>2
  <2>2. P(k)
    BY <1>4, <2>1
  <2>3. g[k + 1] = ReadPostOrder(g[k], k + 1)
    BY <1>1, <2>1
  <2>4. IsWorld(g[k]) /\ Rows(g[k]) = 1..n
    BY <1>2, <2>2 DEF Kept
  <2>5. /\ Kept(g[k], g[k + 1]) /\ g[k + 1].post = g[k].post
        /\ \A q \in 1..n : q # k + 1 => At(g[k + 1], q) = At(g[k], q)
    <3>1. PICK r \in 1..n : r = k + 1
      BY <2>1
    <3>2. \A q \in Rows(g[k]) : q # r => At(ReadPostOrder(g[k], r), q) = At(g[k], q)
      BY <2>4, ReadPostIs
    <3>3. Kept(g[k], ReadPostOrder(g[k], r)) /\ ReadPostOrder(g[k], r).post = g[k].post
      BY <2>4, ReadPostIs
    <3> QED BY <2>3, <2>4, <3>1, <3>2, <3>3
  <2>6. Kept(w, g[k + 1]) /\ g[k + 1].post = w.post
    BY <2>2, <2>5, KeptOn
  <2>7. \A q \in 1..n : q > k + 1 => At(g[k + 1], q) = At(w, q)
    BY <2>2, <2>5
  <2>8. \A q \in 1..n : q <= k + 1 => At(g[k + 1], q) = At(g[q], q)
    BY <2>2, <2>5
  <2> QED BY <2>6, <2>7, <2>8
<1>5. \A k \in 0..n : P(k)
  <2> HIDE DEF P
  <2>1. Nat \subseteq D
    <3> HIDE DEF D
    <3> QED BY <1>3, <1>4, Posts!Upwards
  <2> QED BY <1>2, <2>1
<1>6. Kept(w, v) /\ v.post = w.post
  BY <1>1, <1>2, <1>5
<1>7. ASSUME NEW r \in 1..n
      PROVE  /\ Kept(w, g[r - 1]) /\ g[r - 1].post = w.post /\ ReadAs(g[r - 1], r, At(v, r))
             /\ \A q \in 1..n : q < r => At(g[r - 1], q) = At(v, q)
             /\ \A q \in 1..n : q >= r => At(g[r - 1], q) = At(w, q)
  <2>1. r - 1 \in 0..n /\ n \in 0..n /\ r <= n /\ r \in Int
    BY <1>2
  <2>2. P(r - 1) /\ P(n)
    BY <1>5, <2>1
  <2>3. IsWorld(g[r - 1]) /\ r \in Rows(g[r - 1]) /\ g[r] = ReadPostOrder(g[r - 1], r)
    BY <1>1, <1>2, <2>2 DEF Kept
  <2>4. ReadAs(g[r - 1], r, At(g[r], r))
    BY <2>3, ReadPostIs
  <2>5. At(v, r) = At(g[r], r)
    BY <1>1, <2>1, <2>2
  <2>6. \A q \in 1..n : q < r => At(g[r - 1], q) = At(v, q)
    BY <1>1, <1>2, <2>1, <2>2
  <2>7. \A q \in 1..n : q >= r => At(g[r - 1], q) = At(w, q)
    BY <1>2, <2>1, <2>2
  <2> QED BY <2>2, <2>4, <2>5, <2>6, <2>7
<1> QED BY <1>2, <1>6, <1>7 DEF v

-----------------------------------------------------------------------------
(* The places of the posts.                                                *)

HeldIn(w, p) == {m \in DOMAIN w.post : w.post[m].profession = p}

NoMoreThan(old, new, limit) ==
  Cardinality(new) <= limit \/ Cardinality(new) <= Cardinality(old)

PlacesKept(w, v) ==
  /\ \A u \in Unit : \A p \in DOMAIN Slots[u] : Slots[u][p] # 0 =>
       NoMoreThan(Holders(w, p, u), Holders(v, p, u), Slots[u][p])
  /\ \A p \in SinglePost : NoMoreThan(HeldIn(w, p), HeldIn(v, p), 1)

LEMMA HoldersFinite ==
  ASSUME NEW w, IsWorld(w)
  PROVE  /\ \A p, u : /\ IsFiniteSet(Holders(w, p, u)) /\ Cardinality(Holders(w, p, u)) \in Nat
         /\ \A p : IsFiniteSet(HeldIn(w, p)) /\ Cardinality(HeldIn(w, p)) \in Nat
<1>1. IsFiniteSet(DOMAIN w.post)
  BY PeopleAssumption, FS_Subset DEF IsWorld, Resident
<1>2. \A p, u : Holders(w, p, u) \subseteq DOMAIN w.post
  BY DEF Holders
<1>3. \A p : HeldIn(w, p) \subseteq DOMAIN w.post
  BY DEF HeldIn
<1> QED BY <1>1, <1>2, <1>3, FS_Subset, FS_CardinalityType

LEMMA PlacesOn ==
  ASSUME NEW w, NEW u, NEW v, IsWorld(w), IsWorld(u), IsWorld(v), PlacesKept(w, u),
         PlacesKept(u, v)
  PROVE  PlacesKept(w, v)
<1>1. ASSUME NEW a, NEW b, NEW c, NEW limit \in Nat, Cardinality(a) \in Nat,
             Cardinality(b) \in Nat, Cardinality(c) \in Nat,
             NoMoreThan(a, b, limit), NoMoreThan(b, c, limit)
      PROVE  NoMoreThan(a, c, limit)
  BY <1>1 DEF NoMoreThan
<1>2. ASSUME NEW x \in Unit, NEW p \in DOMAIN Slots[x], Slots[x][p] # 0
      PROVE  NoMoreThan(Holders(w, p, x), Holders(v, p, x), Slots[x][p])
  <2>1. Slots[x][p] \in Nat
    BY SlotsAssumption
  <2>2. NoMoreThan(Holders(w, p, x), Holders(u, p, x), Slots[x][p])
    BY <1>2 DEF PlacesKept
  <2>3. NoMoreThan(Holders(u, p, x), Holders(v, p, x), Slots[x][p])
    BY <1>2 DEF PlacesKept
  <2>4. /\ Cardinality(Holders(w, p, x)) \in Nat /\ Cardinality(Holders(u, p, x)) \in Nat
        /\ Cardinality(Holders(v, p, x)) \in Nat
    BY HoldersFinite
  <2> QED BY <1>1, <2>1, <2>2, <2>3, <2>4
<1>3. ASSUME NEW p \in SinglePost
      PROVE  NoMoreThan(HeldIn(w, p), HeldIn(v, p), 1)
  <2>1. NoMoreThan(HeldIn(w, p), HeldIn(u, p), 1) /\ NoMoreThan(HeldIn(u, p), HeldIn(v, p), 1)
    BY DEF PlacesKept
  <2>2. /\ Cardinality(HeldIn(w, p)) \in Nat /\ Cardinality(HeldIn(u, p)) \in Nat
        /\ Cardinality(HeldIn(v, p)) \in Nat
    BY HoldersFinite
  <2> QED BY <1>1, <2>1, <2>2
<1> QED BY <1>2, <1>3 DEF PlacesKept

\* What is no post is none of a unit's, and of no profession there is one of.
LEMMA PlaceIsPost ==
  /\ \A u \in Unit : \A p \in DOMAIN Slots[u] : [profession |-> p, unit |-> u] \in Post
  /\ \A u \in Unit : \A p \in DOMAIN Slots[u] : [profession |-> p, unit |-> u] # NoPost
  /\ \A p \in SinglePost : p # NoPost.profession
  /\ \A post \in Post : /\ post.unit \in Unit /\ post.profession \in DOMAIN Slots[post.unit]
                        /\ post = [profession |-> post.profession, unit |-> post.unit]
<1>1. \A u \in Unit : \A p \in DOMAIN Slots[u] : [profession |-> p, unit |-> u] \in Post
  BY DEF Post
<1>2. \A post \in Post : /\ post.unit \in Unit /\ post.profession \in DOMAIN Slots[post.unit]
                         /\ post = [profession |-> post.profession, unit |-> post.unit]
  BY DEF Post
<1>3. \A p \in SinglePost : p # NoPost.profession
  BY SlotsAssumption DEF NoPost
<1> QED BY <1>1, <1>2, <1>3, SlotsAssumption

\* Nobody fills a place by losing his.
LEMMA FewerHold ==
  ASSUME NEW w, NEW v, IsWorld(w), DOMAIN v.post = DOMAIN w.post,
         \A m \in DOMAIN w.post : v.post[m] \in {w.post[m], NoPost}
  PROVE  PlacesKept(w, v)
<1>1. ASSUME NEW u \in Unit, NEW p \in DOMAIN Slots[u]
      PROVE  NoMoreThan(Holders(w, p, u), Holders(v, p, u), Slots[u][p])
  <2>1. Holders(v, p, u) \in SUBSET Holders(w, p, u)
    BY PlaceIsPost DEF Holders
  <2>2. Cardinality(Holders(v, p, u)) <= Cardinality(Holders(w, p, u))
    BY <2>1, HoldersFinite, FS_Subset
  <2> QED BY <2>2 DEF NoMoreThan
<1>2. ASSUME NEW p \in SinglePost
      PROVE  NoMoreThan(HeldIn(w, p), HeldIn(v, p), 1)
  <2>1. HeldIn(v, p) \in SUBSET HeldIn(w, p)
    BY PlaceIsPost DEF HeldIn
  <2>2. Cardinality(HeldIn(v, p)) <= Cardinality(HeldIn(w, p))
    BY <2>1, HoldersFinite, FS_Subset
  <2> QED BY <2>2 DEF NoMoreThan
<1> QED BY <1>1, <1>2 DEF PlacesKept

\* One man moved to a vacant place fills none twice.
LEMMA OneMoved ==
  ASSUME NEW w, NEW v, IsWorld(w), NEW m \in DOMAIN w.post, NEW post \in Post,
         v.post = [w.post EXCEPT ![m] = post], Vacant(w, post.profession, post.unit, m)
  PROVE  PlacesKept(w, v)
<1>1. /\ DOMAIN v.post = DOMAIN w.post /\ v.post[m] = post
      /\ \A k \in DOMAIN w.post : k # m => v.post[k] = w.post[k]
  BY DEF IsWorld
<1>2. ASSUME NEW u \in Unit, NEW p \in DOMAIN Slots[u], Slots[u][p] # 0
      PROVE  NoMoreThan(Holders(w, p, u), Holders(v, p, u), Slots[u][p])
  <2>1. CASE post = [profession |-> p, unit |-> u]
    <3> DEFINE others == Holders(w, p, u) \ {m}
    <3>1. Cardinality(others) < Slots[u][p]
      BY <1>2, <2>1 DEF Vacant
    <3>2. Holders(v, p, u) = others \cup {m} /\ m \notin others
      BY <1>1, <2>1 DEF Holders
    <3>3. IsFiniteSet(others)
      BY HoldersFinite, FS_RemoveElement
    <3> HIDE DEF others
    <3>4. Cardinality(others \cup {m}) = Cardinality(others) + 1 /\ Cardinality(others) \in Nat
      <4>1. Cardinality(others) \in Nat
        BY <3>3, FS_CardinalityType
      <4> QED BY <3>2, <3>3, <4>1, FS_AddElement
    <3>5. Slots[u][p] \in Nat
      BY SlotsAssumption
    <3>6. Cardinality(others) + 1 <= Slots[u][p]
      BY <3>1, <3>4, <3>5
    <3> QED BY <3>2, <3>4, <3>6 DEF NoMoreThan
  <2>2. CASE post # [profession |-> p, unit |-> u]
    <3>1. Holders(v, p, u) \in SUBSET Holders(w, p, u)
      BY <1>1, <2>2 DEF Holders
    <3>2. Cardinality(Holders(v, p, u)) <= Cardinality(Holders(w, p, u))
      BY <3>1, HoldersFinite, FS_Subset
    <3> QED BY <3>2 DEF NoMoreThan
  <2> QED BY <2>1, <2>2
<1>3. ASSUME NEW p \in SinglePost
      PROVE  NoMoreThan(HeldIn(w, p), HeldIn(v, p), 1)
  <2>1. CASE post.profession = p
    <3>1. \A k \in DOMAIN w.post : k # m => w.post[k].profession # p
      BY <2>1 DEF Vacant, HeldAnywhere
    <3>2. HeldIn(v, p) = {m}
      BY <1>1, <2>1, <3>1 DEF HeldIn
    <3>3. Cardinality({m}) = 1
      BY FS_Singleton
    <3> QED BY <3>2, <3>3 DEF NoMoreThan
  <2>2. CASE post.profession # p
    <3>1. HeldIn(v, p) \in SUBSET HeldIn(w, p)
      BY <1>1, <2>2 DEF HeldIn
    <3>2. Cardinality(HeldIn(v, p)) <= Cardinality(HeldIn(w, p))
      BY <3>1, HoldersFinite, FS_Subset
    <3> QED BY <3>2 DEF NoMoreThan
  <2> QED BY <2>1, <2>2
<1> QED BY <1>2, <1>3 DEF PlacesKept

-----------------------------------------------------------------------------
(* The day's close.                                                        *)

\* An accepted order of the posts is carried out or refused, and no other row
\* and no other man is touched.
AppliedAs(u, r, v) ==
  LET order == At(u, r)
      m     == order.resident
  IN IF order.status # kAccepted \/ order.kind \notin PostVerb THEN v = u
     ELSE \/ At(v, r).status = kRefused /\ v.post = u.post
          \/ /\ At(v, r).status = kDone /\ m \in DOMAIN u.post
             /\ v.post = [u.post EXCEPT ![m] = PostOf(order)]

LEMMA ApplyPostIs ==
  ASSUME NEW u, IsWorld(u), NEW r \in Rows(u)
  PROVE  LET v == ApplyPostOrder(u, r) IN
         /\ Kept(u, v) /\ PlacesKept(u, v) /\ AppliedAs(u, r, v)
         /\ \A q \in Rows(u) : q # r => At(v, q) = At(u, q)
<1> DEFINE order == At(u, r)
           m == order.resident
           refusal == CheckPostOrder(u, order)
           v == ApplyPostOrder(u, r)
<1>1. order = u.orders.rows[r] /\ order \in AnyRow
  BY WorldParts DEF At
<1>2. ASSUME NEW x, IsWorld(x), x.post = u.post
      PROVE  PlacesKept(u, x)
  BY <1>2, FewerHold
<1>3. CASE order.status # kAccepted \/ order.kind \notin PostVerb
  <2>1. v = u
    BY <1>1, <1>3 DEF ApplyPostOrder
  <2> QED BY <1>2, <1>3, <2>1, KeptSelf DEF AppliedAs
<1>4. CASE ~(order.status # kAccepted \/ order.kind \notin PostVerb) /\ refusal # "kNone"
  <2>1. v = Settled(u, r, kRefused, refusal)
    BY <1>1, <1>4 DEF ApplyPostOrder
  <2>2. kRefused \in OrderStatus /\ refusal \in Refusals
    BY ChecksAre DEF OrderStatus
  <2> HIDE DEF refusal, v
  <2>3. /\ Kept(u, v) /\ v.post = u.post /\ At(v, r).status = kRefused
        /\ \A q \in Rows(u) : q # r => At(v, q) = At(u, q)
    BY <2>1, <2>2, SettledIs
  <2>4. PlacesKept(u, v)
    BY <1>2, <2>3 DEF Kept
  <2>5. AppliedAs(u, r, v)
    BY <1>4, <2>3 DEF AppliedAs
  <2> QED BY <2>3, <2>4, <2>5 DEF v
<1>5. CASE ~(order.status # kAccepted \/ order.kind \notin PostVerb) /\ refusal = "kNone"
  <2> DEFINE x == [u EXCEPT !.post[m] = PostOf(order)]
             post == [u.post EXCEPT ![m] = PostOf(order)]
  <2>1. v = Settled(x, r, kDone, "kNone")
    BY <1>1, <1>5 DEF ApplyPostOrder, PostOf
  <2>2. m \in DOMAIN u.post
    BY <1>5, ChecksAre DEF Lives
  <2>3. PostOf(order) \in Post \cup {NoPost}
    BY <1>1, RowParts
  <2>4. x = [tick |-> u.tick, orders |-> u.orders, post |-> post, units |-> u.units,
             places |-> u.places]
    BY DEF IsWorld
  <2>5. post \in [DOMAIN post -> Post \cup {NoPost}] /\ DOMAIN post = DOMAIN u.post
    BY <2>3 DEF IsWorld
  <2> HIDE DEF x, post
  <2>8. /\ x.tick = u.tick /\ x.orders = u.orders /\ x.post = post /\ x.units = u.units
        /\ x.places = u.places
    BY <2>4
  <2>9. IsWorld(x)
    BY <2>4, <2>5, <2>8 DEF IsWorld
  <2>6. PlacesKept(u, x)
    <3>1. CASE order.kind = kAppoint
      <4>1. PostOf(order) \in Post
        BY <1>1, <3>1, RowParts
      <4>2. Vacant(u, order.profession, order.unit, m)
        BY <1>5, <3>1 DEF CheckPostOrder, CheckAppointment
      <4>3. PostOf(order).profession = order.profession /\ PostOf(order).unit = order.unit
        BY DEF PostOf
      <4> QED BY <2>2, <2>8, <4>1, <4>2, <4>3, OneMoved DEF post
    <3>2. CASE order.kind # kAppoint
      <4>1. PostOf(order) = NoPost
        BY <1>1, <3>2, RowParts
      <4>2. \A k \in DOMAIN u.post : x.post[k] \in {u.post[k], NoPost}
        BY <2>8, <4>1 DEF post
      <4>3. DOMAIN x.post = DOMAIN u.post
        BY <2>5, <2>8
      <4> QED BY <4>2, <4>3, FewerHold
    <3> QED BY <3>1, <3>2
  <2>10. Kept(u, x) /\ Rows(x) = Rows(u) /\ \A q : At(x, q) = At(u, q)
    BY <2>5, <2>8, <2>9 DEF Kept, Rows, At, SameOrder
  <2>11. kDone \in OrderStatus /\ "kNone" \in Refusals
    BY DEF OrderStatus, Refusals
  <2> HIDE DEF v, refusal
  <2>12. /\ Kept(x, v) /\ v.post = x.post /\ At(v, r).status = kDone
         /\ \A q \in Rows(x) : q # r => At(v, q) = At(x, q)
    BY <2>1, <2>9, <2>10, <2>11, SettledIs
  <2>13. Kept(u, v)
    BY <2>10, <2>12, KeptOn
  <2>14. PlacesKept(u, v)
    <3>1. IsWorld(v) /\ PlacesKept(x, v)
      BY <2>9, <2>12, FewerHold DEF Kept
    <3> QED BY <2>6, <2>9, <3>1, PlacesOn
  <2>15. AppliedAs(u, r, v)
    BY <1>5, <2>2, <2>8, <2>12 DEF AppliedAs, post
  <2> QED BY <2>10, <2>12, <2>13, <2>14, <2>15 DEF v
<1> QED BY <1>3, <1>4, <1>5

\* Of the orders of the posts a man has one at most that stands.
OnePost(w) ==
  \A m, r, q : Stands(w, r, PostVerb, m) /\ Stands(w, q, PostVerb, m) => r = q

\* u is w with the orders of its first k rows carried out.
AppliedTo(w, k, u) ==
  /\ Kept(w, u) /\ PlacesKept(w, u)
  /\ \A r \in Rows(w) :
       IF r <= k /\ At(w, r).status = kAccepted /\ At(w, r).kind \in PostVerb
       THEN At(u, r).status \in {kDone, kRefused} ELSE At(u, r) = At(w, r)
  /\ \A m \in DOMAIN w.post :
       \/ u.post[m] = w.post[m]
       \/ \E q : Stands(w, q, PostVerb, m) /\ u.post[m] = PostOf(At(w, q))
  /\ \A q, m : q <= k /\ Stands(w, q, PostVerb, m) /\ At(u, q).status = kDone
                 => m \in DOMAIN w.post /\ u.post[m] = PostOf(At(w, q))

LEMMA AppliedOne ==
  ASSUME NEW w, IsWorld(w), OnePost(w), NEW k \in Nat, k + 1 \in Rows(w),
         NEW u, AppliedTo(w, k, u)
  PROVE  AppliedTo(w, k + 1, ApplyPostOrder(u, k + 1))
<1> DEFINE r == k + 1
           v == ApplyPostOrder(u, r)
           order == At(u, r)
           m == order.resident
<1>1. Kept(w, u) /\ IsWorld(u) /\ Rows(u) = Rows(w) /\ DOMAIN u.post = DOMAIN w.post
  BY DEF AppliedTo, Kept
<1>2. r \in Rows(w) /\ r \in Nat /\ ~(r <= k) /\ \A q \in Nat : q <= r => q <= k \/ q = r
  OBVIOUS
<1>3. order = At(w, r)
  BY <1>2 DEF AppliedTo
<1> HIDE DEF r
<1>4. /\ Kept(u, v) /\ PlacesKept(u, v) /\ AppliedAs(u, r, v)
      /\ \A q \in Rows(w) : q # r => At(v, q) = At(u, q)
  BY <1>1, <1>2, ApplyPostIs
<1> HIDE DEF v
<1>5. Kept(w, v)
  BY <1>1, <1>4, KeptOn
<1>6. PlacesKept(w, v)
  <2>1. IsWorld(v) /\ PlacesKept(w, u)
    BY <1>5 DEF Kept, AppliedTo
  <2> QED BY <1>1, <1>4, <2>1, PlacesOn
<1>7. Rows(w) \subseteq Nat
  BY WorldParts
<1>8. CASE order.status # kAccepted \/ order.kind \notin PostVerb
  <2>1. v = u
    BY <1>4, <1>8 DEF AppliedAs
  <2>2. \A q \in Rows(w) : At(w, q).status = kAccepted /\ At(w, q).kind \in PostVerb
          => (q <= r <=> q <= k)
    BY <1>2, <1>3, <1>7, <1>8
  <2>3. ASSUME NEW q, NEW man, q <= r, Stands(w, q, PostVerb, man), At(u, q).status = kDone
        PROVE  man \in DOMAIN w.post /\ u.post[man] = PostOf(At(w, q))
    <3>1. q <= k
      BY <2>2, <2>3 DEF Stands
    <3> QED BY <2>3, <3>1 DEF AppliedTo
  <2>4. \A q \in Rows(w) :
          IF q <= r /\ At(w, q).status = kAccepted /\ At(w, q).kind \in PostVerb
          THEN At(u, q).status \in {kDone, kRefused} ELSE At(u, q) = At(w, q)
    BY <2>2 DEF AppliedTo
  <2>5. \A man \in DOMAIN w.post :
          \/ u.post[man] = w.post[man]
          \/ \E q : Stands(w, q, PostVerb, man) /\ u.post[man] = PostOf(At(w, q))
    BY DEF AppliedTo
  <2>6. AppliedTo(w, r, u)
    BY <1>5, <1>6, <2>1, <2>3, <2>4, <2>5 DEF AppliedTo
  <2> QED BY <2>1, <2>6 DEF r, v
<1>9. CASE ~(order.status # kAccepted \/ order.kind \notin PostVerb)
  <2>1. Stands(w, r, PostVerb, m)
    BY <1>2, <1>3, <1>9 DEF Stands
  <2>2. \/ At(v, r).status = kRefused /\ v.post = u.post
        \/ /\ At(v, r).status = kDone /\ m \in DOMAIN u.post
           /\ v.post = [u.post EXCEPT ![m] = PostOf(order)]
    BY <1>4, <1>9 DEF AppliedAs
  <2>3. ASSUME NEW q \in Rows(w)
        PROVE  IF q <= r /\ At(w, q).status = kAccepted /\ At(w, q).kind \in PostVerb
               THEN At(v, q).status \in {kDone, kRefused} ELSE At(v, q) = At(w, q)
    <3>1. CASE q = r
      BY <1>2, <1>3, <1>9, <2>2, <3>1
    <3>2. CASE q # r
      BY <1>2, <1>4, <1>7, <3>2 DEF AppliedTo
    <3> QED BY <3>1, <3>2
  <2>4. ASSUME NEW man \in DOMAIN w.post
        PROVE  \/ v.post[man] = w.post[man]
               \/ \E q : Stands(w, q, PostVerb, man) /\ v.post[man] = PostOf(At(w, q))
    <3>1. CASE v.post[man] = u.post[man]
      BY <3>1 DEF AppliedTo
    <3>2. CASE v.post[man] # u.post[man]
      <4>1. man = m /\ v.post[man] = PostOf(order)
        BY <1>1, <2>2, <3>2
      <4> QED BY <1>3, <2>1, <4>1
    <3> QED BY <3>1, <3>2
  <2>5. ASSUME NEW q, NEW man, q <= r, Stands(w, q, PostVerb, man), At(v, q).status = kDone
        PROVE  man \in DOMAIN w.post /\ v.post[man] = PostOf(At(w, q))
    <3>1. CASE q = r
      <4>1. man = m
        BY <1>3, <2>5, <3>1 DEF Stands
      <4>2. kDone # kRefused
        BY DEF kDone, kRefused
      <4> QED BY <1>1, <1>3, <2>2, <2>5, <3>1, <4>1, <4>2
    <3>2. CASE q # r
      <4>1. q \in Rows(w) /\ q <= k /\ At(u, q).status = kDone
        BY <1>2, <1>4, <1>7, <2>5, <3>2 DEF Stands
      <4>2. man \in DOMAIN w.post /\ u.post[man] = PostOf(At(w, q))
        BY <2>5, <4>1 DEF AppliedTo
      <4>3. man # m
        BY <2>1, <2>5, <3>2 DEF OnePost
      <4> QED BY <1>1, <2>2, <4>2, <4>3
    <3> QED BY <3>1, <3>2
  <2>6. AppliedTo(w, r, v)
    BY <1>5, <1>6, <2>3, <2>4, <2>5 DEF AppliedTo
  <2> QED BY <2>6 DEF r, v
<1> QED BY <1>8, <1>9

LEMMA PostsApplied ==
  ASSUME NEW w, IsWorld(w), OnePost(w)
  PROVE  AppliedTo(w, Len(w.orders.rows), ApplyPostOrders(w))
<1> DEFINE n == Len(w.orders.rows)
           v == ApplyPostOrders(w)
<1>1. PICK g : /\ g[0] = w /\ g[n] = v
               /\ \A k \in 1..n : g[k] = ApplyPostOrder(g[k - 1], k)
  BY PassSteps
<1>2. n \in Nat /\ Rows(w) = 1..n /\ Rows(w) \subseteq Nat
  BY WorldParts DEF Rows
<1> HIDE DEF n, v
<1> DEFINE D == {k \in Nat : k <= n => AppliedTo(w, k, g[k])}
<1>3. 0 \in D
  <2>1. PlacesKept(w, w) /\ Kept(w, w)
    BY KeptSelf, FewerHold
  <2>2. \A r \in Rows(w) : ~(r <= 0)
    BY <1>2
  <2>3. AppliedTo(w, 0, w)
    BY <2>1, <2>2 DEF AppliedTo, Stands
  <2> QED BY <1>1, <2>3
<1>4. ASSUME NEW k \in Nat, k \in D
      PROVE  k + 1 \in D
  <2> SUFFICES ASSUME k + 1 <= n PROVE AppliedTo(w, k + 1, g[k + 1])
    OBVIOUS
  <2>1. k + 1 \in 1..n /\ (k + 1) - 1 = k /\ k <= n
    BY <1>2
  <2>2. g[k + 1] = ApplyPostOrder(g[k], k + 1)
    BY <1>1, <2>1
  <2> QED BY <1>2, <1>4, <2>1, <2>2, AppliedOne
<1>5. n \in D
  <2> HIDE DEF D
  <2> QED BY <1>2, <1>3, <1>4, Applies!Upwards
<1> QED BY <1>1, <1>2, <1>5 DEF v, n

\* What a close makes of the village.
ClosedTo(w, v) ==
  /\ Kept(w, v) /\ PlacesKept(w, v)
  /\ \A r \in Rows(w) :
       \/ At(v, r) = At(w, r)
       \/ /\ DayCloses(w.tick) /\ At(v, r).status \in {kDone, kRefused}
          /\ At(w, r).status = kAccepted /\ At(w, r).kind \in PostVerb
  /\ DayCloses(w.tick) =>
       /\ \A r \in Rows(w) : ~(At(v, r).status = kAccepted /\ At(v, r).kind \in PostVerb)
       /\ \A m \in DOMAIN w.post : v.post[m] # NoPost => UnitStands(w, v.post[m].unit)
  /\ \A m \in DOMAIN w.post : v.post[m] # w.post[m] =>
       /\ DayCloses(w.tick)
       /\ \/ \E q : Stands(w, q, PostVerb, m) /\ v.post[m] = PostOf(At(w, q))
          \/ /\ v.post[m] = NoPost
             /\ \E post : /\ post # NoPost /\ ~UnitStands(w, post.unit)
                          /\ \/ post = w.post[m]
                             \/ \E q : Stands(w, q, PostVerb, m) /\ post = PostOf(At(w, q))
  /\ \A q, m : Stands(w, q, {kDismiss}, m) /\ At(v, q).status = kDone =>
       m \in DOMAIN w.post /\ v.post[m] = NoPost

LEMMA CloseIs ==
  ASSUME NEW w, IsWorld(w), OnePost(w)
  PROVE  ClosedTo(w, Close(w))
<1>1. CASE ~DayCloses(w.tick)
  <2>1. PlacesKept(w, w) /\ Kept(w, w)
    BY KeptSelf, FewerHold
  <2>2. \A q, m : ~(Stands(w, q, {kDismiss}, m) /\ At(w, q).status = kDone)
    BY DEF Stands, kAccepted, kDone
  <2>3. Close(w) = w
    BY <1>1 DEF Close
  <2> QED BY <1>1, <2>1, <2>2, <2>3 DEF ClosedTo
<1>2. CASE DayCloses(w.tick)
  <2> DEFINE u == ApplyPostOrders(w)
             Kept1(m) == IF u.post[m] # NoPost /\ ~UnitStands(u, u.post[m].unit)
                         THEN NoPost ELSE u.post[m]
             post == [m \in DOMAIN u.post |-> Kept1(m)]
             v == Close(w)
  <2>1. AppliedTo(w, Len(w.orders.rows), u)
    BY PostsApplied
  <2>2. v = VacatePostsWithNoUnit(u)
    BY <1>2 DEF Close
  <2> HIDE DEF u
  <2>3. IsWorld(u) /\ Kept(w, u) /\ DOMAIN u.post = DOMAIN w.post /\ u.units = w.units
        /\ Rows(u) = Rows(w)
    BY <2>1 DEF AppliedTo, Kept
  <2>4. v = [tick |-> u.tick, orders |-> u.orders, post |-> post, units |-> u.units,
             places |-> u.places]
    BY <2>2, <2>3 DEF VacatePostsWithNoUnit, IsWorld
  <2>5. /\ DOMAIN post = DOMAIN u.post /\ \A m \in DOMAIN u.post : post[m] = Kept1(m)
        /\ post \in [DOMAIN u.post -> Post \cup {NoPost}]
    BY <2>3 DEF IsWorld
  <2> HIDE DEF v, post
  <2>6. /\ v.tick = u.tick /\ v.orders = u.orders /\ v.post = post /\ v.units = u.units
        /\ v.places = u.places
    BY <2>4
  <2>7. IsWorld(v)
    BY <2>3, <2>4, <2>5, <2>6 DEF IsWorld
  <2>8. Rows(v) = Rows(u) /\ \A q : At(v, q) = At(u, q)
    BY <2>6 DEF Rows, At
  <2>9. Kept(u, v)
    BY <2>5, <2>6, <2>7, <2>8 DEF Kept, SameOrder
  <2>10. Kept(w, v)
    BY <2>3, <2>9, KeptOn
  <2>11. PlacesKept(w, v)
    <3>1. PlacesKept(u, v)
      BY <2>3, <2>5, <2>6, FewerHold
    <3>2. PlacesKept(w, u)
      BY <2>1 DEF AppliedTo
    <3> QED BY <2>3, <2>7, <3>1, <3>2, PlacesOn
  <2>12. ASSUME NEW r \in Rows(w)
         PROVE  /\ \/ At(v, r) = At(w, r)
                   \/ /\ At(v, r).status \in {kDone, kRefused}
                      /\ At(w, r).status = kAccepted /\ At(w, r).kind \in PostVerb
                /\ ~(At(v, r).status = kAccepted /\ At(v, r).kind \in PostVerb)
    <3>1. r <= Len(w.orders.rows)
      BY WorldParts DEF Rows
    <3>2. IF At(w, r).status = kAccepted /\ At(w, r).kind \in PostVerb
          THEN At(v, r).status \in {kDone, kRefused} ELSE At(v, r) = At(w, r)
      BY <2>1, <2>8, <3>1 DEF AppliedTo
    <3>3. kAccepted # kDone /\ kAccepted # kRefused
      BY DEF kAccepted, kDone, kRefused
    <3> QED BY <3>2, <3>3
  <2>13. \A x : UnitStands(u, x) <=> UnitStands(w, x)
    BY <2>3 DEF UnitStands
  <2>14. \A m \in DOMAIN w.post : v.post[m] # NoPost => UnitStands(w, v.post[m].unit)
    BY <2>3, <2>5, <2>6, <2>13
  <2>15. ASSUME NEW m \in DOMAIN w.post, v.post[m] # w.post[m]
         PROVE  \/ \E q : Stands(w, q, PostVerb, m) /\ v.post[m] = PostOf(At(w, q))
                \/ /\ v.post[m] = NoPost
                   /\ \E p : /\ p # NoPost /\ ~UnitStands(w, p.unit)
                             /\ \/ p = w.post[m]
                                \/ \E q : Stands(w, q, PostVerb, m) /\ p = PostOf(At(w, q))
    <3>1. \/ u.post[m] = w.post[m]
          \/ \E q : Stands(w, q, PostVerb, m) /\ u.post[m] = PostOf(At(w, q))
      BY <2>1 DEF AppliedTo
    <3>2. CASE v.post[m] = u.post[m]
      BY <2>15, <3>1, <3>2
    <3>3. CASE v.post[m] # u.post[m]
      <4>1. v.post[m] = NoPost /\ u.post[m] # NoPost /\ ~UnitStands(w, u.post[m].unit)
        BY <2>3, <2>5, <2>6, <2>13, <3>3
      <4> QED BY <3>1, <4>1
    <3> QED BY <3>2, <3>3
  <2>16. ASSUME NEW q, NEW m, Stands(w, q, {kDismiss}, m), At(v, q).status = kDone
         PROVE  m \in DOMAIN w.post /\ v.post[m] = NoPost
    <3>1. q \in Rows(w) /\ q <= Len(w.orders.rows) /\ At(w, q) \in AnyRow
          /\ At(w, q).kind = kDismiss
      BY <2>16, WorldParts DEF Stands, Rows
    <3>2. Stands(w, q, PostVerb, m) /\ At(u, q).status = kDone
      BY <2>8, <2>16 DEF Stands, PostVerb
    <3>3. m \in DOMAIN w.post /\ u.post[m] = PostOf(At(w, q))
      BY <2>1, <3>1, <3>2 DEF AppliedTo
    <3>4. PostOf(At(w, q)) = NoPost
      BY <3>1, RowParts DEF kDismiss, kAppoint
    <3> QED BY <2>3, <2>5, <2>6, <3>3, <3>4
  <2>17. ClosedTo(w, v)
    BY <1>2, <2>10, <2>11, <2>12, <2>14, <2>15, <2>16 DEF ClosedTo
  <2> QED BY <2>17 DEF v
<1> QED BY <1>1, <1>2

-----------------------------------------------------------------------------
(* The posts read.                                                         *)

\* The orders of a man's work that the posts' reader sees before this row.
WorkBefore(w, r) ==
  \E q \in Rows(w) : /\ q < r /\ At(w, q).kind = kAssignWork /\ At(w, q).status = kPending
                     /\ At(w, q).resident = At(w, r).resident

\* No release has been carried out or stands: it is carried out as it is read.
ReleasesWait(w) ==
  \A r \in Rows(w) : At(w, r).kind = kReleaseWork =>
    At(w, r).status \in {kPending, kRefused, kCancelled}

\* What the reading of the posts makes of the book.
PostsReadTo(w, v) ==
  /\ Kept(w, v) /\ v.post = w.post
  /\ \A r \in Rows(w) : At(w, r).status # kPending \/ At(w, r).kind \notin PostVerb =>
       At(v, r) = At(w, r)
  /\ \A r \in Rows(w) : At(w, r).status = kPending /\ At(w, r).kind \in PostVerb =>
       /\ At(v, r).status \in {kAccepted, kRefused}
       /\ At(v, r).status = kAccepted =>
            Lives(w, At(w, r).resident) /\ At(v, r).refusal = "kNone"
       /\ At(v, r).status = kAccepted /\ At(w, r).kind = kAppoint =>
            /\ ~WorkBefore(w, r)
            /\ (\E s : Stands(w, s, {kAssignWork}, At(w, r).resident)) =>
                 \E q \in Rows(w) : /\ At(w, q).kind = kReleaseWork /\ At(w, q).status = kPending
                                    /\ At(w, q).resident = At(w, r).resident
       /\ At(v, r).status = kRefused /\ At(v, r).refusal = "kConflictsWithActive" =>
            \/ \E s : Stands(w, s, {kAssignWork}, At(w, r).resident)
            \/ \E q \in Rows(w) : /\ q # r /\ At(w, q).kind \in PostVerb
                                  /\ At(w, q).resident = At(w, r).resident
            \/ WorkBefore(w, r)
  /\ OnePost(v)

LEMMA PostsReadIs ==
  ASSUME NEW w, IsWorld(w), OnePost(w), ReleasesWait(w)
  PROVE  PostsReadTo(w, ReadPostOrders(w))
<1> DEFINE v == ReadPostOrders(w)
           Seen(u, r) == /\ Kept(w, u) /\ u.post = w.post /\ ReadAs(u, r, At(v, r))
                         /\ \A q \in Rows(w) : q < r => At(u, q) = At(v, q)
                         /\ \A q \in Rows(w) : q >= r => At(u, q) = At(w, q)
<1>1. Kept(w, v) /\ v.post = w.post /\ \A r \in Rows(w) : \E u : Seen(u, r)
  BY PostsRead
<1>2. Rows(w) \subseteq Nat /\ Rows(v) = Rows(w)
  BY <1>1, WorldParts DEF Kept
<1> HIDE DEF v
<1>3. ASSUME NEW r \in Rows(w), At(w, r).status # kPending \/ At(w, r).kind \notin PostVerb
      PROVE  At(v, r) = At(w, r)
  <2>1. PICK u : Seen(u, r)
    BY <1>1
  <2>2. At(u, r) = At(w, r)
    BY <1>2, <2>1
  <2> QED BY <1>3, <2>1, <2>2 DEF ReadAs
<1>4. ASSUME NEW r \in Rows(w), NEW u, Seen(u, r)
      PROVE  /\ IsWorld(u) /\ Rows(u) = Rows(w) /\ At(u, r) = At(w, r)
             /\ \A q \in Rows(w) :
                  At(u, q) \in {At(w, q), At(v, q)} /\ SameOrder(At(w, q), At(u, q))
             /\ \A q \in Rows(w) : At(w, q).kind \notin PostVerb => At(u, q) = At(w, q)
             /\ \A m, q : Stands(u, q, {kAssignWork}, m) <=> Stands(w, q, {kAssignWork}, m)
             /\ \A m : WorkOrderCameFirst(u, m, r) <=>
                  \E q \in Rows(w) : /\ q < r /\ At(w, q).kind = kAssignWork
                                     /\ At(w, q).resident = m /\ At(w, q).status = kPending
  <2>1. IsWorld(u) /\ Rows(u) = Rows(w) /\ At(u, r) = At(w, r)
        /\ \A q \in Rows(w) : SameOrder(At(w, q), At(u, q))
    BY <1>2, <1>4 DEF Kept
  <2>2. \A q \in Rows(w) : At(u, q) \in {At(w, q), At(v, q)}
    BY <1>2, <1>4
  <2>3. \A q \in Rows(w) : At(w, q).kind \notin PostVerb => At(u, q) = At(w, q)
    BY <1>3, <2>2
  <2>4. \A q \in Rows(w) : At(u, q).kind = kAssignWork \/ At(w, q).kind = kAssignWork =>
          At(u, q) = At(w, q)
    BY <2>1, <2>3 DEF SameOrder, PostVerb, kAssignWork, kAppoint, kDismiss
  <2>5. \A m, q : Stands(u, q, {kAssignWork}, m) <=> Stands(w, q, {kAssignWork}, m)
    BY <2>1, <2>4 DEF Stands
  <2>6. \A m : WorkOrderCameFirst(u, m, r) <=>
          \E q \in Rows(w) : /\ q < r /\ At(w, q).kind = kAssignWork
                             /\ At(w, q).resident = m /\ At(w, q).status = kPending
    BY <2>1, <2>4, BookSays
  <2> QED BY <2>1, <2>2, <2>3, <2>5, <2>6
<1>5. ASSUME NEW r \in Rows(w), At(w, r).status = kPending, At(w, r).kind \in PostVerb
      PROVE  /\ At(v, r).status \in {kAccepted, kRefused}
             /\ At(v, r).status = kAccepted =>
                  Lives(w, At(w, r).resident) /\ At(v, r).refusal = "kNone"
             /\ At(v, r).status = kAccepted /\ At(w, r).kind = kAppoint =>
                  /\ ~WorkBefore(w, r)
                  /\ (\E s : Stands(w, s, {kAssignWork}, At(w, r).resident)) =>
                       \E q \in Rows(w) :
                         /\ At(w, q).kind = kReleaseWork /\ At(w, q).status = kPending
                         /\ At(w, q).resident = At(w, r).resident
             /\ At(v, r).status = kRefused /\ At(v, r).refusal = "kConflictsWithActive" =>
                  \/ \E s : Stands(w, s, {kAssignWork}, At(w, r).resident)
                  \/ \E q \in Rows(w) : /\ q # r /\ At(w, q).kind \in PostVerb
                                        /\ At(w, q).resident = At(w, r).resident
                  \/ WorkBefore(w, r)
  <2> DEFINE m == At(w, r).resident
  <2>1. PICK u : Seen(u, r)
    BY <1>1
  <2> HIDE DEF Seen
  <2>7. /\ IsWorld(u) /\ Rows(u) = Rows(w) /\ At(u, r) = At(w, r)
        /\ \A q \in Rows(w) : SameOrder(At(w, q), At(u, q))
        /\ \A q \in Rows(w) : At(w, q).kind \notin PostVerb => At(u, q) = At(w, q)
        /\ \A man, q : Stands(u, q, {kAssignWork}, man) <=> Stands(w, q, {kAssignWork}, man)
    BY <1>4, <2>1
  <2>8. \A man : WorkOrderCameFirst(u, man, r) <=>
          \E q \in Rows(w) : /\ q < r /\ At(w, q).kind = kAssignWork
                             /\ At(w, q).resident = man /\ At(w, q).status = kPending
    BY <1>4, <2>1
  <2>9. WorkOrderCameFirst(u, m, r) <=> WorkBefore(w, r)
    BY <2>8 DEF WorkBefore
  <2> HIDE DEF m
  <2>2. /\ IsWorld(u) /\ Rows(u) = Rows(w) /\ At(u, r) = At(w, r)
        /\ \A q \in Rows(w) : SameOrder(At(w, q), At(u, q))
        /\ \A q \in Rows(w) : At(w, q).kind \notin PostVerb => At(u, q) = At(w, q)
        /\ \A q : Stands(u, q, {kAssignWork}, m) <=> Stands(w, q, {kAssignWork}, m)
        /\ WorkOrderCameFirst(u, m, r) <=> WorkBefore(w, r)
    BY <2>7, <2>9
  <2>3. /\ StandingWork(u, m) # {} <=> \E s : Stands(w, s, {kAssignWork}, m)
        /\ HasWaitingPostOrder(u, m, r) => \E q \in Rows(w) : /\ q # r /\ At(w, q).kind \in PostVerb
                                                              /\ At(w, q).resident = m
    <3>1. StandingWork(u, m) # {} <=> \E s : Stands(u, s, {kAssignWork}, m)
      BY <2>2, BookSays
    <3>2. HasWaitingPostOrder(u, m, r) => \E q : Stands(u, q, PostVerb, m) /\ q # r
      <4>1. IsWorld(u)
        BY <2>2
      <4>2. \A self : HasWaitingPostOrder(u, m, self) <=>
              \E q : Stands(u, q, PostVerb, m) /\ q # self
        BY <4>1, BookSays
      <4> QED BY <4>2
    <3> QED BY <2>2, <3>1, <3>2 DEF Stands, SameOrder
  <2>4. ReleaseIsInTheBook(u, m) =>
          \E q \in Rows(w) : /\ At(w, q).kind = kReleaseWork /\ At(w, q).status = kPending
                             /\ At(w, q).resident = m
    <3> SUFFICES ASSUME ReleaseIsInTheBook(u, m)
                 PROVE  \E q \in Rows(w) :
                          /\ At(w, q).kind = kReleaseWork /\ At(w, q).status = kPending
                          /\ At(w, q).resident = m
      OBVIOUS
    <3>1. PICK q \in Rows(w) : /\ At(u, q).kind = kReleaseWork /\ At(u, q).resident = m
                               /\ At(u, q).status \notin {kRefused, kCancelled}
      BY <2>2, BookSays
    <3>2. At(w, q).kind = kReleaseWork
      BY <2>2, <3>1 DEF SameOrder
    <3>3. At(u, q) = At(w, q)
      BY <2>2, <3>2 DEF PostVerb, kReleaseWork, kAppoint, kDismiss
    <3> QED BY <3>1, <3>2, <3>3 DEF ReleasesWait
  <2>5. /\ \/ /\ At(v, r).status = kRefused
              /\ At(v, r).refusal = "kConflictsWithActive" =>
                   \/ StandingWork(u, m) # {} \/ HasWaitingPostOrder(u, m, r)
                   \/ WorkOrderCameFirst(u, m, r)
           \/ /\ At(v, r).status = kAccepted /\ At(v, r).refusal = "kNone" /\ Lives(u, m)
              /\ ~HasWaitingPostOrder(u, m, r)
              /\ At(w, r).kind = kAppoint =>
                   /\ ~WorkOrderCameFirst(u, m, r)
                   /\ StandingWork(u, m) # {} => ReleaseIsInTheBook(u, m)
    BY <1>5, <2>1, <2>2 DEF ReadAs, Seen, m
  <2>6. kAccepted # kRefused /\ (Lives(u, m) <=> Lives(w, m))
    BY <2>1 DEF kAccepted, kRefused, Lives, Seen
  <2> QED BY <2>2, <2>3, <2>4, <2>5, <2>6 DEF m
<1>6. OnePost(v)
  <2>1. ASSUME NEW m, NEW q, NEW r, Stands(v, q, PostVerb, m), Stands(v, r, PostVerb, m), q < r
        PROVE  FALSE
    <3>1. /\ q \in Rows(w) /\ r \in Rows(w)
          /\ At(w, q).kind \in PostVerb /\ At(w, r).kind \in PostVerb
          /\ At(w, q).resident = m /\ At(w, r).resident = m
          /\ At(v, q).status = kAccepted /\ At(v, r).status = kAccepted
      BY <1>1, <1>2, <2>1 DEF Stands, Kept, SameOrder
    <3>2. CASE At(w, r).status = kPending
      <4>1. PICK u : Seen(u, r)
        BY <1>1, <3>1
      <4>2. /\ IsWorld(u) /\ Rows(u) = Rows(w) /\ At(u, r) = At(w, r) /\ At(u, q) = At(v, q)
        <5>1. At(u, q) = At(v, q)
          BY <2>1, <3>1, <4>1
        <5> HIDE DEF Seen
        <5> QED BY <1>4, <3>1, <4>1, <5>1
      <4>3. Stands(u, q, PostVerb, m)
        BY <2>1, <4>2, <3>1 DEF Stands
      <4>4. HasWaitingPostOrder(u, m, r)
        <5>1. q # r /\ IsWorld(u)
          BY <1>2, <2>1, <3>1, <4>2
        <5> QED BY <4>3, <5>1, WaitsBeside
      <4>5. At(v, r).status = kRefused
        BY <3>1, <3>2, <4>1, <4>2, <4>4 DEF ReadAs
      <4> QED BY <3>1, <4>5 DEF kAccepted, kRefused
    <3>3. CASE At(w, r).status # kPending
      <4>1. At(v, r) = At(w, r) /\ Stands(w, r, PostVerb, m)
        BY <1>3, <3>1, <3>3 DEF Stands
      <4>2. CASE At(w, q).status # kPending
        <5>1. Stands(w, q, PostVerb, m)
          BY <1>3, <3>1, <4>2 DEF Stands
        <5>2. q = r
          BY <4>1, <5>1 DEF OnePost
        <5> QED BY <1>2, <2>1, <3>1, <5>2
      <4>3. CASE At(w, q).status = kPending
        <5>1. PICK u : Seen(u, q)
          BY <1>1, <3>1
        <5>2. /\ IsWorld(u) /\ Rows(u) = Rows(w) /\ At(u, q) = At(w, q)
          BY <1>4, <3>1, <5>1
        <5>3. At(u, r) = At(w, r)
          BY <1>2, <2>1, <3>1, <5>1
        <5>4. Stands(u, r, PostVerb, m) /\ r # q
          BY <1>2, <2>1, <3>1, <4>1, <5>2, <5>3 DEF Stands
        <5>5. HasWaitingPostOrder(u, m, q)
          BY <5>2, <5>4, WaitsBeside
        <5>6. At(v, q).status = kRefused
          BY <3>1, <4>3, <5>1, <5>2, <5>5 DEF ReadAs
        <5> QED BY <3>1, <5>6 DEF kAccepted, kRefused
      <4> QED BY <4>2, <4>3
    <3> QED BY <3>2, <3>3
  <2> SUFFICES ASSUME NEW m, NEW q, NEW r, Stands(v, q, PostVerb, m), Stands(v, r, PostVerb, m)
               PROVE  q = r
    BY DEF OnePost
  <2>2. q \in Nat /\ r \in Nat
    BY <1>2 DEF Stands
  <2> QED BY <2>1, <2>2
<1>7. PostsReadTo(w, v)
  BY <1>1, <1>3, <1>5, <1>6 DEF PostsReadTo
<1> QED BY <1>7 DEF v

-----------------------------------------------------------------------------
(* The works read.                                                         *)

WorkVerb == {kAssignWork, kReleaseWork}

\* Of the orders of work a man has one at most that stands.
OneWork(w) ==
  \A m, r, q : Stands(w, r, {kAssignWork}, m) /\ Stands(w, q, {kAssignWork}, m) => r = q

\* An order of work read: the man's older work gives way to it, or ends with it.
WorkReadAs(u, r, v) ==
  LET order == At(u, r)
      m     == order.resident
  IN IF order.status # kPending \/ order.kind \notin WorkVerb THEN v = u
     ELSE /\ \/ At(v, r).status = kRefused /\ \A q \in Rows(u) : q # r => At(v, q) = At(u, q)
             \/ /\ \A q \in Rows(u) : q # r =>
                     /\ ~Stands(v, q, {kAssignWork}, m)
                     /\ \/ At(v, q) = At(u, q)
                        \/ /\ Stands(u, q, {kAssignWork}, m)
                           /\ At(v, q).status \in {kCancelled, kDone}
                /\ \/ At(v, r).status = kDone
                   \/ /\ At(v, r).status = kAccepted /\ order.kind = kAssignWork
                      /\ Lives(u, m) /\ ~AppointmentIsWaiting(u, m)
          /\ order.kind = kReleaseWork /\ At(v, r).status = kRefused =>
               ~Lives(u, m) \/ ~\E q : Stands(u, q, {kAssignWork}, m)

LEMMA StandingIs ==
  ASSUME NEW u, IsWorld(u), OneWork(u), NEW m, StandingWork(u, m) # {}
  PROVE  LET s == StandingWorkRow(u, m) IN
         /\ Stands(u, s, {kAssignWork}, m)
         /\ \A q : Stands(u, q, {kAssignWork}, m) => q = s
<1>1. \A q : q \in StandingWork(u, m) <=> Stands(u, q, {kAssignWork}, m)
  BY BookSays
<1>2. PICK q \in StandingWork(u, m) : TRUE
  OBVIOUS
<1>3. q \in Nat /\ \A p \in StandingWork(u, m) : p = q
  BY <1>1, <1>2, WorldParts DEF OneWork, Stands
<1>4. \A p \in StandingWork(u, m) : q <= p
  BY <1>3
<1>5. StandingWorkRow(u, m) \in StandingWork(u, m)
  BY <1>2, <1>4 DEF StandingWorkRow
<1> QED BY <1>1, <1>3, <1>5

\* The standing work taken back or ended.
LEMMA WorkEnds ==
  ASSUME NEW u, IsWorld(u), OneWork(u), NEW m, StandingWork(u, m) # {},
         NEW status \in {kCancelled, kDone}
  PROVE  LET v == Settled(u, StandingWorkRow(u, m), status, "kNone") IN
         /\ Kept(u, v) /\ v.post = u.post
         /\ \A q \in Rows(u) :
              /\ ~Stands(v, q, {kAssignWork}, m)
              /\ \/ At(v, q) = At(u, q)
                 \/ Stands(u, q, {kAssignWork}, m) /\ At(v, q).status = status
<1> DEFINE s == StandingWorkRow(u, m)
           v == Settled(u, s, status, "kNone")
<1>1. Stands(u, s, {kAssignWork}, m) /\ \A q : Stands(u, q, {kAssignWork}, m) => q = s
  BY StandingIs
<1>2. s \in Rows(u) /\ status \in OrderStatus /\ "kNone" \in Refusals /\ status # kAccepted
  BY <1>1 DEF Stands, OrderStatus, Refusals, kCancelled, kDone, kAccepted
<1> HIDE DEF s
<1>3. /\ Kept(u, v) /\ v.post = u.post /\ At(v, s).status = status
      /\ \A q \in Rows(u) : q # s => At(v, q) = At(u, q)
  BY <1>2, SettledIs
<1> HIDE DEF v
<1>4. ASSUME NEW q \in Rows(u)
      PROVE  /\ ~Stands(v, q, {kAssignWork}, m)
             /\ \/ At(v, q) = At(u, q)
                \/ Stands(u, q, {kAssignWork}, m) /\ At(v, q).status = status
  BY <1>1, <1>2, <1>3 DEF Stands
<1> QED BY <1>3, <1>4 DEF v, s

LEMMA ReadWorkIs ==
  ASSUME NEW u, IsWorld(u), OneWork(u), NEW r \in Rows(u)
  PROVE  LET v == ReadWorkOrder(u, r) IN
         Kept(u, v) /\ v.post = u.post /\ WorkReadAs(u, r, v)
<1> DEFINE order == At(u, r)
           m == order.resident
           v == ReadWorkOrder(u, r)
<1>1. order = u.orders.rows[r] /\ kAssignWork # kReleaseWork
  BY DEF At, kAssignWork, kReleaseWork
<1>2. /\ {kRefused, kAccepted, kDone} \subseteq OrderStatus
      /\ {"kNone", "kNoSuchSubject", "kRuleForbids"} \subseteq Refusals
      /\ kRefused # kAccepted /\ kRefused # kDone /\ kDone # kAccepted /\ kPending # kAccepted
  BY DEF OrderStatus, Refusals, kRefused, kAccepted, kDone, kPending
<1>3. CASE order.status # kPending \/ order.kind \notin WorkVerb
  <2>1. v = u
    BY <1>1, <1>3 DEF ReadWorkOrder, WorkVerb
  <2> QED BY <1>3, <2>1, KeptSelf DEF WorkReadAs
<1>4. CASE order.status = kPending /\ order.kind = kAssignWork
  <2> DEFINE refusal == CheckAssignWork(u, order)
             x == Superseded(u, m)
  <2>1. v = IF refusal # "kNone" THEN Settled(u, r, kRefused, refusal)
            ELSE Settled(x, r, kAccepted, "kNone")
    BY <1>1, <1>4 DEF ReadWorkOrder, ReadAssignWork
  <2>2. refusal \in Refusals /\ (refusal = "kNone" => Lives(u, m) /\ ~AppointmentIsWaiting(u, m))
    BY ChecksAre
  <2> HIDE DEF refusal, v
  <2>3. CASE refusal # "kNone"
    <3>1. /\ Kept(u, v) /\ v.post = u.post /\ At(v, r).status = kRefused
          /\ \A q \in Rows(u) : q # r => At(v, q) = At(u, q)
      BY <1>2, <2>1, <2>2, <2>3, SettledIs
    <3>2. WorkReadAs(u, r, v)
      <4>1. order.status = kPending /\ order.kind \in WorkVerb /\ order.kind # kReleaseWork
        BY <1>1, <1>4 DEF WorkVerb
      <4> QED BY <3>1, <4>1 DEF WorkReadAs
    <3> QED BY <3>1, <3>2 DEF v
  <2>4. CASE refusal = "kNone"
    <3>1. /\ Kept(u, x) /\ x.post = u.post
          /\ \A q \in Rows(u) :
               /\ ~Stands(x, q, {kAssignWork}, m)
               /\ \/ At(x, q) = At(u, q)
                  \/ Stands(u, q, {kAssignWork}, m) /\ At(x, q).status = kCancelled
      <4>1. CASE StandingWork(u, m) = {}
        <5>1. x = u
          BY <4>1 DEF Superseded
        <5>2. \A q : ~Stands(u, q, {kAssignWork}, m)
          BY <4>1, BookSays
        <5>3. Kept(u, u)
          BY KeptSelf
        <5> HIDE DEF x, m
        <5> QED BY <5>1, <5>2, <5>3
      <4>2. CASE StandingWork(u, m) # {}
        <5>1. x = Settled(u, StandingWorkRow(u, m), kCancelled, "kNone")
          BY <4>2 DEF Superseded
        <5> HIDE DEF x, m
        <5> QED BY <4>2, <5>1, WorkEnds
      <4> QED BY <4>1, <4>2
    <3> HIDE DEF x
    <3>2. IsWorld(x) /\ Rows(x) = Rows(u)
      BY <3>1 DEF Kept
    <3>3. v = Settled(x, r, kAccepted, "kNone")
      BY <2>1, <2>4
    <3>4. /\ Kept(x, v) /\ v.post = x.post /\ At(v, r).status = kAccepted
          /\ \A q \in Rows(u) : q # r => At(v, q) = At(x, q)
      BY <1>2, <3>2, <3>3, SettledIs
    <3>5. Kept(u, v)
      BY <3>1, <3>4, KeptOn
    <3>6. Rows(v) = Rows(u)
      BY <3>5 DEF Kept
    <3> HIDE DEF m
    <3>7. ASSUME NEW q \in Rows(u), q # r
          PROVE  /\ ~Stands(v, q, {kAssignWork}, m)
                 /\ \/ At(v, q) = At(u, q)
                    \/ /\ Stands(u, q, {kAssignWork}, m)
                       /\ At(v, q).status \in {kCancelled, kDone}
      BY <3>1, <3>2, <3>4, <3>6, <3>7 DEF Stands
    <3>8. Lives(u, m) /\ ~AppointmentIsWaiting(u, m)
      BY <2>2, <2>4
    <3>9. WorkReadAs(u, r, v)
      <4>1. order.status = kPending /\ order.kind \in WorkVerb /\ order.kind # kReleaseWork
        BY <1>1, <1>4 DEF WorkVerb
      <4>2. m = order.resident
        BY DEF m
      <4> HIDE DEF order
      <4> QED BY <1>2, <1>4, <3>4, <3>7, <3>8, <4>1, <4>2 DEF WorkReadAs, order
    <3> QED BY <3>1, <3>4, <3>5, <3>9 DEF v
  <2> QED BY <2>3, <2>4
<1>5. CASE order.status = kPending /\ order.kind = kReleaseWork
  <2> DEFINE x == Settled(u, StandingWorkRow(u, m), kDone, "kNone")
  <2>1. v = IF ~Lives(u, m) THEN Settled(u, r, kRefused, "kNoSuchSubject")
            ELSE IF StandingWork(u, m) = {} THEN Settled(u, r, kRefused, "kRuleForbids")
            ELSE Settled(x, r, kDone, "kNone")
    BY <1>1, <1>5 DEF ReadWorkOrder, ReadReleaseWork
  <2> HIDE DEF v
  <2>2. CASE ~Lives(u, m) \/ StandingWork(u, m) = {}
    <3>1. PICK refusal \in Refusals : v = Settled(u, r, kRefused, refusal)
      BY <1>2, <2>1, <2>2
    <3>2. /\ Kept(u, v) /\ v.post = u.post /\ At(v, r).status = kRefused
          /\ \A q \in Rows(u) : q # r => At(v, q) = At(u, q)
      BY <1>2, <3>1, SettledIs
    <3>3. ~Lives(u, m) \/ ~\E q : Stands(u, q, {kAssignWork}, m)
      BY <2>2, BookSays
    <3>4. WorkReadAs(u, r, v)
      <4>1. order.status = kPending /\ order.kind \in WorkVerb
        BY <1>5 DEF WorkVerb
      <4> QED BY <3>2, <3>3, <4>1 DEF WorkReadAs
    <3> QED BY <3>2, <3>4 DEF v
  <2>3. CASE Lives(u, m) /\ StandingWork(u, m) # {}
    <3>1. /\ Kept(u, x) /\ x.post = u.post
          /\ \A q \in Rows(u) :
               /\ ~Stands(x, q, {kAssignWork}, m)
               /\ \/ At(x, q) = At(u, q)
                  \/ Stands(u, q, {kAssignWork}, m) /\ At(x, q).status = kDone
      <4> HIDE DEF m
      <4> QED BY <2>3, WorkEnds
    <3>2. v = Settled(x, r, kDone, "kNone")
      BY <2>1, <2>3
    <3> HIDE DEF x
    <3>3. IsWorld(x) /\ Rows(x) = Rows(u)
      BY <3>1 DEF Kept
    <3>4. /\ Kept(x, v) /\ v.post = x.post /\ At(v, r).status = kDone
          /\ \A q \in Rows(u) : q # r => At(v, q) = At(x, q)
      BY <1>2, <3>2, <3>3, SettledIs
    <3>5. Kept(u, v)
      BY <3>1, <3>4, KeptOn
    <3>6. Rows(v) = Rows(u)
      BY <3>5 DEF Kept
    <3> HIDE DEF m
    <3>7. ASSUME NEW q \in Rows(u), q # r
          PROVE  /\ ~Stands(v, q, {kAssignWork}, m)
                 /\ \/ At(v, q) = At(u, q)
                    \/ /\ Stands(u, q, {kAssignWork}, m)
                       /\ At(v, q).status \in {kCancelled, kDone}
      BY <3>1, <3>3, <3>4, <3>6, <3>7 DEF Stands
    <3>8. WorkReadAs(u, r, v)
      <4>1. order.status = kPending /\ order.kind \in WorkVerb
        BY <1>5 DEF WorkVerb
      <4>2. m = order.resident
        BY DEF m
      <4> QED BY <1>2, <3>4, <3>7, <4>1, <4>2 DEF WorkReadAs
    <3> QED BY <3>1, <3>4, <3>5, <3>8 DEF v
  <2> QED BY <2>2, <2>3
<1> QED BY <1>3, <1>4, <1>5 DEF WorkVerb

\* What may have come of one row when the first k have been read.
WorkRow(w, k, r, row) ==
  LET order == At(w, r) IN
  \/ row = order
  \/ /\ order.kind = kAssignWork /\ order.status = kAccepted
     /\ row.status \in {kCancelled, kDone}
  \/ /\ order.kind \in WorkVerb /\ order.status = kPending /\ r <= k
     /\ \/ row.status \in {kRefused, kCancelled, kDone}
        \/ row.status = kAccepted /\ order.kind = kAssignWork /\ Lives(w, order.resident)

\* A man's work and his appointment stand together only as long as the release
\* that was the appointment's condition is still to be read.
ReleaseIsToCome(w, k, m) ==
  /\ Lives(w, m)
  /\ \E p \in Rows(w) : /\ p > k /\ At(w, p).kind = kReleaseWork
                        /\ At(w, p).status = kPending /\ At(w, p).resident = m

WorksReadTo(w, k, u) ==
  /\ Kept(w, u) /\ u.post = w.post /\ OneWork(u)
  /\ \A r \in Rows(w) : WorkRow(w, k, r, At(u, r))
  /\ \A r \in Rows(w) : r <= k /\ At(w, r).kind \in WorkVerb => At(u, r).status # kPending
  /\ \A m, q, s : Stands(u, q, {kAssignWork}, m) /\ Stands(w, s, {kAppoint}, m)
                    => ReleaseIsToCome(w, k, m)

LEMMA WorkReadOne ==
  ASSUME NEW w, IsWorld(w), NEW k \in Nat, k + 1 \in Rows(w), NEW u, WorksReadTo(w, k, u)
  PROVE  WorksReadTo(w, k + 1, ReadWorkOrder(u, k + 1))
<1> DEFINE r == k + 1
           v == ReadWorkOrder(u, r)
<1>1. Kept(w, u) /\ u.post = w.post /\ OneWork(u) /\ IsWorld(u) /\ Rows(u) = Rows(w)
      /\ \A m : Lives(u, m) <=> Lives(w, m)
  BY DEF WorksReadTo, Kept, Lives
<1>2. /\ r \in Rows(w) /\ r \in Nat /\ r > k /\ ~(r <= k) /\ Rows(w) \subseteq Nat
      /\ \A q \in Nat : /\ q <= k => q <= r
                        /\ q <= r /\ q # r => q <= k
                        /\ q > k /\ q # r => q > r
  BY WorldParts
<1> HIDE DEF r
<1> DEFINE order == At(u, r)
           m == order.resident
<1>3. Kept(u, v) /\ v.post = u.post /\ WorkReadAs(u, r, v)
  BY <1>1, <1>2, ReadWorkIs
<1> HIDE DEF v
<1>4. Kept(w, v) /\ v.post = w.post /\ Rows(v) = Rows(w)
  BY <1>1, <1>3, KeptOn DEF Kept
<1>5. /\ kPending \notin {kAccepted, kRefused, kCancelled, kDone}
      /\ kAccepted \notin {kRefused, kCancelled, kDone}
      /\ kAssignWork # kReleaseWork /\ kAppoint \notin WorkVerb
  BY DEF kPending, kAccepted, kRefused, kCancelled, kDone, kAssignWork, kReleaseWork,
         kAppoint, WorkVerb
<1>6. \A q \in Rows(w) : /\ At(u, q).kind = At(w, q).kind /\ At(v, q).kind = At(w, q).kind
                         /\ At(u, q).resident = At(w, q).resident
                         /\ At(v, q).resident = At(w, q).resident
  BY <1>1, <1>4 DEF Kept, SameOrder
<1>7. \A q \in Rows(w) : WorkRow(w, k, q, At(u, q))
  BY DEF WorksReadTo
<1>8. \A q \in Rows(w) : \A row : WorkRow(w, k, q, row) => WorkRow(w, r, q, row)
  BY <1>2 DEF WorkRow
<1>9. \A p \in Rows(w) : p > k /\ At(w, p).status = kPending => At(u, p) = At(w, p)
  BY <1>2, <1>5, <1>7 DEF WorkRow
<1>10. \A q, s, man : Stands(u, q, {kAssignWork}, man) /\ Stands(w, s, {kAppoint}, man)
                        => ReleaseIsToCome(w, k, man)
  BY DEF WorksReadTo
<1>11. CASE order.status # kPending \/ order.kind \notin WorkVerb
  <2>1. v = u
    BY <1>3, <1>11 DEF WorkReadAs
  <2>2. ASSUME NEW q \in Rows(w), q <= r, At(w, q).kind \in WorkVerb
        PROVE  At(u, q).status # kPending
    <3>1. CASE q = r
      BY <1>6, <1>11, <2>2, <3>1
    <3>2. CASE q # r
      BY <1>2, <2>2, <3>2 DEF WorksReadTo
    <3> QED BY <3>1, <3>2
  <2>3. ASSUME NEW man, ReleaseIsToCome(w, k, man)
        PROVE  ReleaseIsToCome(w, r, man)
    <3>1. PICK p \in Rows(w) : /\ p > k /\ At(w, p).kind = kReleaseWork
                               /\ At(w, p).status = kPending /\ At(w, p).resident = man
      BY <2>3 DEF ReleaseIsToCome
    <3>2. p # r
      BY <1>9, <1>11, <3>1 DEF WorkVerb
    <3>3. p > r
      BY <1>2, <3>1, <3>2
    <3> QED BY <2>3, <3>1, <3>3 DEF ReleaseIsToCome
  <2>4. WorksReadTo(w, r, u)
    BY <1>1, <1>7, <1>8, <1>10, <2>2, <2>3 DEF WorksReadTo
  <2> QED BY <2>1, <2>4 DEF r, v
<1>12. CASE ~(order.status # kPending \/ order.kind \notin WorkVerb)
  <2>1. order = At(w, r)
    BY <1>2, <1>5, <1>7, <1>12 DEF WorkRow
  <2>2. /\ \/ At(v, r).status = kRefused /\ \A q \in Rows(w) : q # r => At(v, q) = At(u, q)
           \/ /\ \A q \in Rows(w) : q # r =>
                   /\ ~Stands(v, q, {kAssignWork}, m)
                   /\ \/ At(v, q) = At(u, q)
                      \/ /\ Stands(u, q, {kAssignWork}, m)
                         /\ At(v, q).status \in {kCancelled, kDone}
              /\ \/ At(v, r).status = kDone
                 \/ /\ At(v, r).status = kAccepted /\ order.kind = kAssignWork
                    /\ Lives(w, m) /\ ~AppointmentIsWaiting(u, m)
        /\ order.kind = kReleaseWork /\ At(v, r).status = kRefused =>
             ~Lives(w, m) \/ ~\E q : Stands(u, q, {kAssignWork}, m)
    BY <1>1, <1>3, <1>12 DEF WorkReadAs
  <2>3. m = At(w, r).resident /\ order.kind = At(w, r).kind /\ order.kind \in WorkVerb
        /\ At(w, r).status = kPending
    BY <1>12, <2>1
  <2> HIDE DEF order, m
  <2>4. \A q \in Rows(w) : q # r => \/ At(v, q) = At(u, q)
                                    \/ /\ Stands(u, q, {kAssignWork}, m)
                                       /\ At(v, q).status \in {kCancelled, kDone}
    BY <2>2
  <2>5. ASSUME NEW q \in Rows(w)
        PROVE  WorkRow(w, r, q, At(v, q))
    <3>1. CASE q = r
      BY <1>2, <2>2, <2>3, <3>1 DEF WorkRow
    <3>2. CASE q # r /\ At(v, q) = At(u, q)
      BY <1>7, <1>8, <3>2
    <3>3. CASE q # r /\ Stands(u, q, {kAssignWork}, m) /\ At(v, q).status \in {kCancelled, kDone}
      <4>1. At(u, q).status = kAccepted /\ At(w, q).kind = kAssignWork
        BY <1>6, <3>3 DEF Stands
      <4>2. \/ At(w, q).status = kAccepted
            \/ At(w, q).kind \in WorkVerb /\ At(w, q).status = kPending /\ q <= k
        BY <1>5, <1>7, <4>1 DEF WorkRow
      <4> QED BY <1>2, <3>3, <4>1, <4>2 DEF WorkRow
    <3> QED BY <2>4, <3>1, <3>2, <3>3
  <2>6. ASSUME NEW q \in Rows(w), q <= r, At(w, q).kind \in WorkVerb
        PROVE  At(v, q).status # kPending
    <3>1. CASE q = r
      BY <1>5, <2>2, <3>1
    <3>2. CASE q # r
      <4>1. At(u, q).status # kPending
        BY <1>2, <2>6, <3>2 DEF WorksReadTo
      <4> QED BY <1>5, <2>4, <3>2, <4>1
    <3> QED BY <3>1, <3>2
  <2>7. ASSUME NEW man, NEW q, Stands(v, q, {kAssignWork}, man)
        PROVE  \/ q # r /\ Stands(u, q, {kAssignWork}, man)
               \/ /\ q = r /\ man = m /\ ~AppointmentIsWaiting(u, m)
                  /\ \A s \in Rows(w) : s # r => ~Stands(v, s, {kAssignWork}, m)
    <3>1. q \in Rows(w) /\ At(v, q).status = kAccepted /\ At(w, q).kind = kAssignWork
          /\ At(w, q).resident = man
      BY <1>4, <1>6, <2>7 DEF Stands
    <3>2. CASE q # r
      <4>1. At(v, q) = At(u, q)
        BY <1>5, <2>4, <3>1, <3>2
      <4> QED BY <1>1, <1>6, <3>1, <3>2, <4>1 DEF Stands
    <3>3. CASE q = r
      BY <1>5, <2>2, <2>3, <3>1, <3>3
    <3> QED BY <3>2, <3>3
  <2>8. OneWork(v)
    <3>1. ASSUME NEW man, NEW q, NEW s, Stands(v, q, {kAssignWork}, man),
                 Stands(v, s, {kAssignWork}, man)
          PROVE  q = s
      <4>1. q \in Rows(w) /\ s \in Rows(w)
        BY <1>4, <3>1 DEF Stands
      <4> QED BY <1>1, <2>7, <3>1, <4>1 DEF OneWork
    <3> QED BY <3>1 DEF OneWork
  <2>9. ASSUME NEW man, NEW q, NEW s, Stands(v, q, {kAssignWork}, man),
               Stands(w, s, {kAppoint}, man)
        PROVE  ReleaseIsToCome(w, r, man)
    <3>1. CASE q = r /\ man = m /\ ~AppointmentIsWaiting(u, m)
      <4>1. s \in Rows(w) /\ At(w, s).kind = kAppoint
        BY <2>9 DEF Stands
      <4>2. At(u, s) = At(w, s)
        BY <1>5, <1>7, <4>1 DEF WorkRow, WorkVerb
      <4>3. Stands(u, s, {kAppoint}, m)
        BY <1>1, <2>9, <3>1, <4>2 DEF Stands
      <4> QED BY <1>1, <3>1, <4>3, BookSays
    <3>2. CASE q # r /\ Stands(u, q, {kAssignWork}, man)
      <4>1. PICK p \in Rows(w) : /\ p > k /\ At(w, p).kind = kReleaseWork
                                 /\ At(w, p).status = kPending /\ At(w, p).resident = man
        BY <1>10, <2>9, <3>2 DEF ReleaseIsToCome
      <4>2. Lives(w, man)
        BY <1>10, <2>9, <3>2 DEF ReleaseIsToCome
      <4>3. ASSUME p = r PROVE FALSE
        <5>1. man = m /\ order.kind = kReleaseWork
          BY <2>3, <4>1, <4>3
        <5>2. At(v, r).status # kRefused
          BY <2>2, <3>2, <4>2, <5>1
        <5>3. q \in Rows(w)
          BY <1>1, <3>2 DEF Stands
        <5> QED BY <2>2, <2>9, <3>2, <5>1, <5>2, <5>3
      <4>4. p > r
        BY <1>2, <4>1, <4>3
      <4> QED BY <4>1, <4>2, <4>4 DEF ReleaseIsToCome
    <3> QED BY <2>7, <2>9, <3>1, <3>2
  <2>10. WorksReadTo(w, r, v)
    BY <1>4, <2>5, <2>6, <2>8, <2>9 DEF WorksReadTo
  <2> QED BY <2>10 DEF r, v
<1> QED BY <1>11, <1>12

LEMMA WorksRead ==
  ASSUME NEW w, IsWorld(w), OneWork(w),
         \A m, q, s : Stands(w, q, {kAssignWork}, m) /\ Stands(w, s, {kAppoint}, m)
                        => ReleaseIsToCome(w, 0, m)
  PROVE  \E u : /\ WorksReadTo(w, Len(w.orders.rows), u)
                /\ ReadWorkOrders(w) = CloseOrphanedWork(u)
<1> DEFINE n == Len(w.orders.rows)
<1>1. PICK g : /\ g[0] = w /\ CloseOrphanedWork(g[n]) = ReadWorkOrders(w)
               /\ \A k \in 1..n : g[k] = ReadWorkOrder(g[k - 1], k)
  BY PassSteps
<1>2. n \in Nat /\ Rows(w) = 1..n /\ Rows(w) \subseteq Nat
  BY WorldParts DEF Rows
<1> HIDE DEF n
<1> DEFINE D == {k \in Nat : k <= n => WorksReadTo(w, k, g[k])}
<1>3. 0 \in D
  <2>1. \A r \in Rows(w) : ~(r <= 0)
    BY <1>2
  <2>2. WorksReadTo(w, 0, w)
    BY <2>1, KeptSelf DEF WorksReadTo, WorkRow
  <2> QED BY <1>1, <2>2
<1>4. ASSUME NEW k \in Nat, k \in D
      PROVE  k + 1 \in D
  <2> SUFFICES ASSUME k + 1 <= n PROVE WorksReadTo(w, k + 1, g[k + 1])
    OBVIOUS
  <2>1. k + 1 \in 1..n /\ (k + 1) - 1 = k /\ k <= n
    BY <1>2
  <2>2. g[k + 1] = ReadWorkOrder(g[k], k + 1)
    BY <1>1, <2>1
  <2> QED BY <1>2, <1>4, <2>1, <2>2, WorkReadOne
<1>5. n \in D
  <2> HIDE DEF D
  <2> QED BY <1>2, <1>3, <1>4, Works!Upwards
<1> QED BY <1>1, <1>2, <1>5 DEF n

\* What the closing of orphaned works leaves: each with its man alive, its
\* place open, and no post of his that nobody is ending.
OrphansClosed(w, v) ==
  /\ Kept(w, v) /\ v.post = w.post
  /\ \A r \in Rows(w) : \/ At(v, r) = At(w, r)
                        \/ /\ At(w, r).kind = kAssignWork /\ At(w, r).status = kAccepted
                           /\ At(v, r).status \in {kRefused, kDone}
  /\ \A r \in Rows(w) : At(v, r).kind = kAssignWork /\ At(v, r).status = kAccepted =>
       LET order == At(w, r) IN
       /\ At(v, r) = order /\ Lives(w, order.resident)
       /\ order.target \in DOMAIN w.places /\ w.places[order.target] = "open"
       /\ w.post[order.resident] = NoPost \/ DismissalIsInTheBook(w, order.resident)

LEMMA OrphansIs ==
  ASSUME NEW w, IsWorld(w)
  PROVE  OrphansClosed(w, CloseOrphanedWork(w))
<1> DEFINE new == [r \in Rows(w) |-> ClosedIfOrphaned(w, At(w, r))]
           v == [w EXCEPT !.orders.rows = new]
<1>1. CloseOrphanedWork(w) = v
  <2>1. DOMAIN w.orders.rows = Rows(w)
    BY WorldParts
  <2> QED BY <2>1 DEF CloseOrphanedWork, At
<1>2. ASSUME NEW r \in Rows(w)
      PROVE  LET order == At(w, r)
                 row == ClosedIfOrphaned(w, order)
             IN /\ row \in AnyRow /\ SameOrder(order, row)
                /\ \/ row = order
                   \/ /\ order.kind = kAssignWork /\ order.status = kAccepted
                      /\ row.status \in {kRefused, kDone}
                /\ order.kind = kAssignWork /\ row.status = kAccepted =>
                     /\ row = order /\ Lives(w, order.resident)
                     /\ order.target \in DOMAIN w.places /\ w.places[order.target] = "open"
                     /\ \/ w.post[order.resident] = NoPost
                        \/ DismissalIsInTheBook(w, order.resident)
  <2> DEFINE order == At(w, r)
             row == ClosedIfOrphaned(w, order)
             done == [order EXCEPT !.status = kDone]
  <2>1. order \in AnyRow
    BY WorldParts
  <2>2. /\ {kRefused, kDone} \subseteq OrderStatus /\ kAccepted \notin {kRefused, kDone}
        /\ {"kNoSuchSubject", "kSiteExhausted", "kConflictsWithActive"} \subseteq Refusals
    BY DEF OrderStatus, Refusals, kRefused, kDone, kAccepted
  <2> HIDE DEF order
  <2>3. ASSUME NEW refusal \in Refusals
        PROVE  /\ RefusedRow(order, refusal) \in AnyRow
               /\ SameOrder(order, RefusedRow(order, refusal))
               /\ RefusedRow(order, refusal).status = kRefused
    BY <2>1, RefusedIs
  <2>4. done \in AnyRow /\ SameOrder(order, done) /\ done.status = kDone
    BY <2>1, <2>2, StatusSet DEF SameOrder
  <2>5. SameOrder(order, order)
    BY DEF SameOrder
  <2>6. \/ row = order /\ (order.kind = kAssignWork => order.status # kAccepted)
        \/ /\ row = order /\ Lives(w, order.resident)
           /\ order.target \in DOMAIN w.places
           /\ w.places[order.target] \notin {"worked out", "planted"}
           /\ w.post[order.resident] = NoPost \/ DismissalIsInTheBook(w, order.resident)
        \/ /\ order.kind = kAssignWork /\ order.status = kAccepted
           /\ \/ row = RefusedRow(order, "kNoSuchSubject")
              \/ row = RefusedRow(order, "kSiteExhausted")
              \/ row = RefusedRow(order, "kConflictsWithActive")
              \/ row = done
    BY DEF ClosedIfOrphaned
  <2>7. \A t \in DOMAIN w.places : w.places[t] \notin {"worked out", "planted"} =>
          w.places[t] = "open"
    BY DEF IsWorld, PlaceState
  <2> HIDE DEF row, done
  <2>8. /\ row \in AnyRow /\ SameOrder(order, row)
        /\ \/ row = order
           \/ /\ order.kind = kAssignWork /\ order.status = kAccepted
              /\ row.status \in {kRefused, kDone}
    BY <2>1, <2>2, <2>3, <2>4, <2>5, <2>6
  <2>9. ASSUME order.kind = kAssignWork /\ row.status = kAccepted
        PROVE  /\ row = order /\ Lives(w, order.resident)
               /\ order.target \in DOMAIN w.places /\ w.places[order.target] = "open"
               /\ \/ w.post[order.resident] = NoPost
                  \/ DismissalIsInTheBook(w, order.resident)
    BY <2>2, <2>3, <2>4, <2>6, <2>7, <2>9
  <2> QED BY <2>8, <2>9 DEF row, order
<1>3. new \in [Rows(w) -> AnyRow] /\ \A r \in Rows(w) : SameOrder(At(w, r), new[r])
  BY <1>2
<1>4. \A r \in Rows(w) : new[r] = ClosedIfOrphaned(w, At(w, r))
  OBVIOUS
<1> HIDE DEF new
<1>5. /\ Kept(w, v) /\ v.post = w.post /\ \A r \in Rows(w) : At(v, r) = new[r]
  BY <1>3, RewrittenIs
<1> HIDE DEF v
<1>6. \A r \in Rows(w) : At(v, r).kind = At(w, r).kind
  BY <1>5 DEF Kept, SameOrder
<1>7. OrphansClosed(w, v)
  BY <1>2, <1>4, <1>5, <1>6 DEF OrphansClosed
<1> QED BY <1>1, <1>7
-----------------------------------------------------------------------------
(* The labour sub-step, pass by pass.                                      *)

\* No man has both a work and an appointment that stand.
Apart(w) ==
  \A m, q, s : ~(Stands(w, q, {kAssignWork}, m) /\ Stands(w, s, {kAppoint}, m))

\* No order is under way: each is answered, accepted or still to be read.
Quiet(w) == \A r \in Rows(w) : At(w, r).status # kActive

Upright(w) ==
  /\ IsWorld(w) /\ OnePost(w) /\ OneWork(w) /\ Apart(w) /\ Quiet(w) /\ ReleasesWait(w)

\* A man at work who holds a post is on his way out of it.
Ending(w) ==
  \A m \in DOMAIN w.post : w.post[m] # NoPost /\ (\E q : Stands(w, q, {kAssignWork}, m)) =>
    \E s : Stands(w, s, {kDismiss}, m)

\* A village between two steps.
Sound(w) ==
  /\ Upright(w) /\ Ending(w)
  /\ \A r \in Rows(w) : At(w, r).status = kAccepted

\* Where an order row of the day comes from: it stood in the book, or came with
\* the batch and has an id of its own.
CameFrom(w, batch, a, q) ==
  \/ /\ q \in Rows(w) /\ a.orders.row_ids[q] = w.orders.row_ids[q]
     /\ SameOrder(At(w, q), At(a, q)) /\ At(a, q).status \in {kAccepted, kCancelled}
     /\ At(a, q).status = kAccepted => ~WithdrawnIn(batch, w.orders.row_ids[q])
  \/ /\ a.orders.row_ids[q] >= w.orders.next_id_value
     /\ At(a, q).status \in {kPending, kCancelled, kRefused}
     /\ \E k \in 1..Len(batch.issued) : /\ q = Len(w.orders.rows) + k
                                        /\ SameOrder(batch.issued[k], At(a, q))

LEMMA TakenRows ==
  ASSUME NEW w, IsWorld(w), NEW batch, IsBatch(w, batch), NEW a, Taken(w, batch, a),
         NEW q \in Rows(a)
  PROVE  CameFrom(w, batch, a, q)
<1> DEFINE n == Len(w.orders.rows)
           i == Len(batch.issued)
<1>1. n \in Nat /\ i \in Nat /\ Rows(w) = 1..n /\ Rows(a) = 1..(n + i)
  <2>1. n \in Nat /\ i \in Nat /\ Len(a.orders.rows) = n + i
    BY WorldParts DEF IsBatch, Taken
  <2> QED BY <2>1 DEF Rows
<1>2. CASE q \in Rows(w)
  BY <1>2 DEF Taken, CameFrom
<1>3. CASE q \notin Rows(w)
  <2>1. q - n \in 1..i /\ q = n + (q - n)
    <3> HIDE DEF n, i
    <3> QED BY <1>1, <1>3
  <2>2. PICK k \in 1..i : q = n + k
    BY <2>1
  <2>3. LET r == n + k IN
        /\ a.orders.row_ids[r] >= w.orders.next_id_value
        /\ SameOrder(batch.issued[k], At(a, r))
        /\ At(a, r).status \in {kPending, kCancelled, kRefused}
    BY DEF Taken
  <2> QED BY <2>2, <2>3 DEF CameFrom
<1> QED BY <1>2, <1>3

LEMMA TakenIs ==
  ASSUME NEW w, Sound(w), NEW batch, IsBatch(w, batch), NEW a, Taken(w, batch, a)
  PROVE  /\ Upright(a)
         /\ \A q, kinds, m : Stands(a, q, kinds, m) =>
              Stands(w, q, kinds, m) /\ ~WithdrawnIn(batch, w.orders.row_ids[q])
         /\ \A q \in Rows(a) : At(a, q).status # kDone
<1>1. IsWorld(w) /\ IsWorld(a)
  BY DEF Sound, Upright, Taken
<1>2. \A q \in Rows(a) : CameFrom(w, batch, a, q)
  BY <1>1, TakenRows
<1>3. /\ kAccepted \notin {kPending, kCancelled, kRefused}
      /\ {kActive, kDone} \cap {kAccepted, kPending, kCancelled, kRefused} = {}
      /\ PostVerb \cap {kReleaseWork} = {}
  BY DEF kAccepted, kPending, kCancelled, kRefused, kActive, kDone, PostVerb, kReleaseWork,
         kAppoint, kDismiss
<1>4. ASSUME NEW q, NEW kinds, NEW m, Stands(a, q, kinds, m)
      PROVE  Stands(w, q, kinds, m) /\ ~WithdrawnIn(batch, w.orders.row_ids[q])
  <2>1. q \in Rows(a) /\ At(a, q).status = kAccepted /\ At(a, q).kind \in kinds
        /\ At(a, q).resident = m
    BY <1>4 DEF Stands
  <2>2. /\ q \in Rows(w) /\ SameOrder(At(w, q), At(a, q))
        /\ ~WithdrawnIn(batch, w.orders.row_ids[q])
    BY <1>2, <1>3, <2>1 DEF CameFrom
  <2>3. At(w, q).status = kAccepted
    BY <2>2 DEF Sound
  <2> QED BY <2>1, <2>2, <2>3 DEF Stands, SameOrder
<1>5. OnePost(a) /\ OneWork(a) /\ Apart(a)
  <2>1. OnePost(w) /\ OneWork(w) /\ Apart(w)
    BY DEF Sound, Upright
  <2>2. OnePost(a)
    BY <1>4, <2>1 DEF OnePost
  <2>3. OneWork(a)
    BY <1>4, <2>1 DEF OneWork
  <2>4. Apart(a)
    BY <1>4, <2>1 DEF Apart
  <2> QED BY <2>2, <2>3, <2>4
<1>6. \A q \in Rows(a) : At(a, q).status \in {kAccepted, kPending, kCancelled, kRefused}
  BY <1>2 DEF CameFrom
<1>7. ReleasesWait(a)
  <2>1. ASSUME NEW q \in Rows(a), At(a, q).kind = kReleaseWork, At(a, q).status = kAccepted
        PROVE  FALSE
    <3>1. q \in Rows(w) /\ At(w, q).kind = kReleaseWork
      BY <1>2, <1>3, <2>1 DEF CameFrom, SameOrder
    <3>2. At(w, q).status \in {kPending, kRefused, kCancelled} /\ At(w, q).status = kAccepted
      BY <3>1 DEF Sound, Upright, ReleasesWait
    <3> QED BY <1>3, <3>2
  <2> QED BY <1>6, <2>1 DEF ReleasesWait
<1>8. Quiet(a) /\ \A q \in Rows(a) : At(a, q).status # kDone
  BY <1>3, <1>6 DEF Quiet
<1> QED BY <1>1, <1>4, <1>5, <1>7, <1>8 DEF Upright

LEMMA ClosedIs ==
  ASSUME NEW a, Upright(a), NEW b, ClosedTo(a, b)
  PROVE  /\ Upright(b)
         /\ \A q, kinds, m : Stands(b, q, kinds, m) => Stands(a, q, kinds, m)
<1>1. Kept(a, b) /\ IsWorld(b) /\ Rows(b) = Rows(a)
  BY DEF ClosedTo, Kept
<1>2. \A q \in Rows(a) : \/ At(b, q) = At(a, q)
                         \/ /\ At(b, q).status \in {kDone, kRefused}
                            /\ At(a, q).kind \in PostVerb
  BY DEF ClosedTo
<1>3. {kAccepted, kActive} \cap {kDone, kRefused} = {} /\ kReleaseWork \notin PostVerb
  BY DEF kAccepted, kActive, kDone, kRefused, PostVerb, kReleaseWork, kAppoint, kDismiss
<1>4. \A q, kinds, m : Stands(b, q, kinds, m) => Stands(a, q, kinds, m)
  BY <1>1, <1>2, <1>3 DEF Stands
<1>5. OnePost(a) /\ OneWork(a) /\ Apart(a) /\ Quiet(a) /\ ReleasesWait(a)
  BY DEF Upright
<1>6. OnePost(b)
  BY <1>4, <1>5 DEF OnePost
<1>7. OneWork(b)
  BY <1>4, <1>5 DEF OneWork
<1>8. Apart(b)
  BY <1>4, <1>5 DEF Apart
<1>9. Quiet(b)
  BY <1>1, <1>2, <1>3, <1>5 DEF Quiet
<1>10. ReleasesWait(b)
  <2>1. \A q \in Rows(a) : At(b, q).kind = At(a, q).kind
    BY <1>1 DEF Kept, SameOrder
  <2> QED BY <1>1, <1>2, <1>3, <1>5, <2>1 DEF ReleasesWait
<1> QED BY <1>1, <1>4, <1>6, <1>7, <1>8, <1>9, <1>10 DEF Upright

LEMMA ReadIs ==
  ASSUME NEW b, Upright(b), NEW c, PostsReadTo(b, c)
  PROVE  /\ IsWorld(c) /\ OnePost(c) /\ OneWork(c) /\ Quiet(c) /\ ReleasesWait(c)
         /\ \A r \in Rows(c) : At(c, r).kind \in PostVerb => At(c, r).status # kPending
         /\ \A m, q, s : Stands(c, q, {kAssignWork}, m) /\ Stands(c, s, {kAppoint}, m)
                           => ReleaseIsToCome(c, 0, m)
<1>1. Kept(b, c) /\ IsWorld(c) /\ IsWorld(b) /\ Rows(c) = Rows(b) /\ OnePost(c)
      /\ DOMAIN c.post = DOMAIN b.post /\ Rows(b) \subseteq Nat \ {0}
  <2>1. Rows(b) \subseteq Nat \ {0}
    BY WorldParts DEF Upright, Rows
  <2> QED BY <2>1 DEF PostsReadTo, Kept, Upright
<1>2. \A q \in Rows(b) : /\ At(c, q).kind = At(b, q).kind
                         /\ At(c, q).resident = At(b, q).resident
  BY <1>1 DEF Kept, SameOrder
<1>3. \A q \in Rows(b) : \/ /\ At(c, q) = At(b, q)
                             /\ ~(At(b, q).status = kPending /\ At(b, q).kind \in PostVerb)
                         \/ /\ At(b, q).status = kPending /\ At(b, q).kind \in PostVerb
                            /\ At(c, q).status \in {kAccepted, kRefused}
  BY DEF PostsReadTo
<1>4. /\ {kActive, kPending} \cap {kAccepted, kRefused} = {}
      /\ PostVerb \cap {kReleaseWork, kAssignWork} = {}
  BY DEF kAccepted, kActive, kPending, kRefused, PostVerb, kReleaseWork, kAssignWork,
         kAppoint, kDismiss
<1>5. OneWork(b) /\ Apart(b) /\ Quiet(b) /\ ReleasesWait(b)
  BY DEF Upright
<1>6. \A q, m : Stands(c, q, {kAssignWork}, m) => Stands(b, q, {kAssignWork}, m)
  BY <1>1, <1>2, <1>3, <1>4 DEF Stands
<1>7. OneWork(c)
  BY <1>5, <1>6 DEF OneWork
<1>8. Quiet(c)
  BY <1>1, <1>3, <1>4, <1>5 DEF Quiet
<1>9. ReleasesWait(c)
  BY <1>1, <1>2, <1>3, <1>4, <1>5 DEF ReleasesWait
<1>10. \A r \in Rows(c) : At(c, r).kind \in PostVerb => At(c, r).status # kPending
  BY <1>1, <1>2, <1>3, <1>4
<1>11. ASSUME NEW m, NEW q, NEW s, Stands(c, q, {kAssignWork}, m), Stands(c, s, {kAppoint}, m)
       PROVE  ReleaseIsToCome(c, 0, m)
  <2>1. Stands(b, q, {kAssignWork}, m)
    BY <1>6, <1>11
  <2>2. s \in Rows(b) /\ At(b, s).kind = kAppoint /\ At(b, s).resident = m
        /\ At(c, s).status = kAccepted
    BY <1>1, <1>2, <1>11 DEF Stands
  <2>3. ASSUME At(c, s) = At(b, s)
        PROVE  FALSE
    <3>1. Stands(b, s, {kAppoint}, m)
      BY <2>2, <2>3 DEF Stands
    <3> QED BY <1>5, <2>1, <3>1 DEF Apart
  <2>4. At(b, s).status = kPending /\ At(b, s).kind \in PostVerb
    BY <1>3, <2>2, <2>3
  <2>5. /\ Lives(b, m)
        /\ \E p \in Rows(b) : /\ At(b, p).kind = kReleaseWork /\ At(b, p).status = kPending
                              /\ At(b, p).resident = m
    BY <2>1, <2>2, <2>4 DEF PostsReadTo
  <2>6. PICK p \in Rows(b) : /\ At(b, p).kind = kReleaseWork /\ At(b, p).status = kPending
                             /\ At(b, p).resident = m
    BY <2>5
  <2>7. At(c, p) = At(b, p) /\ p > 0
    BY <1>1, <1>3, <1>4, <2>6
  <2>8. Lives(c, m)
    BY <1>1, <2>5 DEF Lives
  <2> QED BY <1>1, <2>6, <2>7, <2>8 DEF ReleaseIsToCome
<1> QED BY <1>1, <1>7, <1>8, <1>9, <1>10, <1>11

\* The works read and the orphaned ones closed: nothing but orders of work has
\* changed, and every work that stands is one a man can go to.
WorkedTo(c, v) ==
  /\ Kept(c, v) /\ v.post = c.post
  /\ OnePost(v) /\ OneWork(v) /\ Apart(v) /\ Quiet(v)
  /\ \A r \in Rows(c) : At(c, r).kind \in PostVerb \/ At(c, r).status \notin {kPending, kAccepted}
                          => At(v, r) = At(c, r)
  /\ \A r \in Rows(c) : At(v, r).status = kAccepted =>
       /\ At(v, r).kind # kReleaseWork
       /\ At(c, r).status = kAccepted \/ Lives(c, At(v, r).resident)
  /\ \A r \in Rows(c) : At(v, r).kind = kAssignWork /\ At(v, r).status = kAccepted =>
       LET order == At(v, r) IN
       /\ Lives(c, order.resident)
       /\ order.target \in DOMAIN c.places /\ c.places[order.target] = "open"
       /\ c.post[order.resident] # NoPost =>
            \E s \in Rows(c) : /\ At(c, s).kind = kDismiss /\ At(c, s).resident = order.resident
                               /\ At(c, s).status \in {kPending, kAccepted, kDone}

LEMMA WorkedIs ==
  ASSUME NEW c, IsWorld(c), OnePost(c), OneWork(c), Quiet(c), ReleasesWait(c),
         \A m, q, s : Stands(c, q, {kAssignWork}, m) /\ Stands(c, s, {kAppoint}, m)
                        => ReleaseIsToCome(c, 0, m)
  PROVE  WorkedTo(c, ReadWorkOrders(c))
<1> DEFINE n == Len(c.orders.rows)
           v == ReadWorkOrders(c)
<1>1. PICK d : WorksReadTo(c, n, d) /\ v = CloseOrphanedWork(d)
  BY WorksRead
<1>2. Kept(c, d) /\ IsWorld(d) /\ Rows(d) = Rows(c) /\ d.post = c.post /\ d.places = c.places
  BY <1>1 DEF WorksReadTo, Kept
<1>3. OrphansClosed(d, v)
  BY <1>1, <1>2, OrphansIs
<1> HIDE DEF v
<1>4. Kept(c, v) /\ v.post = c.post /\ Rows(v) = Rows(c)
  <2>1. Kept(d, v) /\ v.post = d.post /\ Rows(v) = Rows(d)
    BY <1>3 DEF OrphansClosed, Kept
  <2> QED BY <1>2, <2>1, KeptOn
<1>5. \A r \in Rows(c) : /\ At(d, r).kind = At(c, r).kind /\ At(v, r).kind = At(c, r).kind
                         /\ At(d, r).resident = At(c, r).resident
                         /\ At(v, r).resident = At(c, r).resident
  BY <1>2, <1>4 DEF Kept, SameOrder
<1>6. /\ {kAccepted, kActive, kPending} \cap {kRefused, kCancelled, kDone} = {}
      /\ kAccepted # kPending /\ kActive # kAccepted
      /\ PostVerb \cap WorkVerb = {} /\ {kAssignWork, kReleaseWork} = WorkVerb
      /\ kAssignWork # kReleaseWork
  BY DEF kAccepted, kActive, kPending, kRefused, kCancelled, kDone, PostVerb, WorkVerb,
         kAssignWork, kReleaseWork, kAppoint, kDismiss
<1>7. \A r \in Rows(c) : WorkRow(c, n, r, At(d, r))
  BY <1>1 DEF WorksReadTo
<1>8. \A r \in Rows(c) : \/ At(v, r) = At(d, r)
                         \/ At(c, r).kind = kAssignWork /\ At(v, r).status \in {kRefused, kDone}
  BY <1>2, <1>3, <1>5 DEF OrphansClosed
<1>9. \A r \in Rows(c) : At(c, r).kind \in PostVerb => At(d, r) = At(c, r) /\ At(v, r) = At(c, r)
  BY <1>6, <1>7, <1>8 DEF WorkRow
<1>10. ASSUME NEW r \in Rows(c), At(c, r).status \notin {kPending, kAccepted}
       PROVE  At(v, r) = At(c, r)
  <2>1. At(d, r) = At(c, r)
    BY <1>7, <1>10 DEF WorkRow
  <2>2. CASE At(v, r) = At(d, r)
    BY <2>1, <2>2
  <2>3. CASE At(v, r) # At(d, r)
    <3>1. At(d, r).status = kAccepted
      BY <1>2, <1>3, <2>3 DEF OrphansClosed
    <3> QED BY <1>10, <2>1, <3>1
  <2> QED BY <2>2, <2>3
<1>11. \A q, kinds, m : Stands(v, q, kinds, m) => Stands(d, q, kinds, m)
  BY <1>2, <1>4, <1>6, <1>8 DEF Stands
<1>12. OneWork(v)
  <2>1. OneWork(d)
    BY <1>1 DEF WorksReadTo
  <2> QED BY <1>11, <2>1 DEF OneWork
<1>13. OnePost(v)
  <2>1. \A q, m : Stands(v, q, PostVerb, m) => Stands(c, q, PostVerb, m)
    BY <1>4, <1>5, <1>9 DEF Stands
  <2> QED BY <2>1 DEF OnePost
<1>14. Apart(v)
  <2>1. ASSUME NEW m, NEW q, NEW s, Stands(v, q, {kAssignWork}, m), Stands(v, s, {kAppoint}, m)
        PROVE  FALSE
    <3>1. Stands(d, q, {kAssignWork}, m)
      BY <1>11, <2>1
    <3>2. s \in Rows(c) /\ At(c, s).kind = kAppoint /\ kAppoint \in PostVerb
      BY <1>4, <1>5, <2>1 DEF Stands, PostVerb
    <3>3. Stands(c, s, {kAppoint}, m)
      BY <1>4, <1>9, <2>1, <3>2 DEF Stands
    <3>4. ReleaseIsToCome(c, n, m)
      BY <1>1, <3>1, <3>3 DEF WorksReadTo
    <3>5. \A p \in Rows(c) : ~(p > n)
      BY WorldParts DEF Rows
    <3> QED BY <3>4, <3>5 DEF ReleaseIsToCome
  <2> QED BY <2>1 DEF Apart
<1>15. Quiet(v)
  BY <1>4, <1>6, <1>7, <1>8 DEF Quiet, WorkRow
<1>16. ASSUME NEW r \in Rows(c), At(v, r).status = kAccepted
       PROVE  /\ At(v, r).kind # kReleaseWork
              /\ At(c, r).status = kAccepted \/ Lives(c, At(v, r).resident)
  <2>1. At(d, r) = At(v, r)
    BY <1>6, <1>8, <1>16
  <2>2. \/ At(d, r) = At(c, r)
        \/ At(c, r).kind = kAssignWork /\ Lives(c, At(c, r).resident)
    BY <1>6, <1>7, <1>16, <2>1 DEF WorkRow
  <2>3. CASE At(d, r) = At(c, r)
    <3>1. At(c, r).kind = kReleaseWork => At(c, r).status # kAccepted
      BY <1>6 DEF ReleasesWait
    <3> QED BY <1>16, <2>1, <2>3, <3>1
  <2>4. CASE At(c, r).kind = kAssignWork /\ Lives(c, At(c, r).resident)
    BY <1>5, <1>6, <2>4
  <2> QED BY <2>2, <2>3, <2>4
<1>17. ASSUME NEW r \in Rows(c), At(v, r).kind = kAssignWork, At(v, r).status = kAccepted
       PROVE  LET order == At(v, r) IN
              /\ Lives(c, order.resident)
              /\ order.target \in DOMAIN c.places /\ c.places[order.target] = "open"
              /\ c.post[order.resident] # NoPost =>
                   \E s \in Rows(c) : /\ At(c, s).kind = kDismiss
                                      /\ At(c, s).resident = order.resident
                                      /\ At(c, s).status \in {kPending, kAccepted, kDone}
  <2> DEFINE order == At(v, r)
             m == order.resident
  <2>1. /\ order = At(d, r) /\ Lives(d, m)
        /\ order.target \in DOMAIN d.places /\ d.places[order.target] = "open"
        /\ d.post[m] = NoPost \/ DismissalIsInTheBook(d, m)
    BY <1>2, <1>3, <1>17 DEF OrphansClosed
  <2> HIDE DEF order, m
  <2>2. ASSUME DismissalIsInTheBook(d, m)
        PROVE  \E s \in Rows(c) : /\ At(c, s).kind = kDismiss /\ At(c, s).resident = m
                                  /\ At(c, s).status \in {kPending, kAccepted, kDone}
    <3>1. PICK s \in Rows(d) : /\ At(d, s).kind = kDismiss /\ At(d, s).resident = m
                               /\ At(d, s).status \notin {kRefused, kCancelled}
      BY <1>2, <2>2, BookSays
    <3>2. s \in Rows(c) /\ At(c, s).kind = kDismiss /\ kDismiss \in PostVerb
      BY <1>2, <1>5, <3>1 DEF PostVerb
    <3>3. At(d, s) = At(c, s)
      BY <1>9, <3>2
    <3>4. At(c, s).status \in OrderStatus /\ At(c, s).status # kActive
      <4>1. At(c, s) \in AnyRow
        BY <3>2, WorldParts
      <4> QED BY <3>2, <4>1, RowParts DEF Quiet
    <3>5. At(c, s).status \in {kPending, kAccepted, kDone}
      BY <3>1, <3>3, <3>4 DEF OrderStatus
    <3> QED BY <3>1, <3>2, <3>3, <3>5
  <2>3. Lives(c, m)
    BY <1>2, <2>1 DEF Lives
  <2> QED BY <1>2, <2>1, <2>2, <2>3 DEF m, order
<1>18. WorkedTo(c, v)
  BY <1>4, <1>9, <1>10, <1>12, <1>13, <1>14, <1>15, <1>16, <1>17 DEF WorkedTo
<1> QED BY <1>18 DEF v

\* The sub-step is a batch taken, a close, the posts read and the works read.
LEMMA LabourIs ==
  ASSUME NEW w, Sound(w), NEW batch, IsBatch(w, batch)
  PROVE  \E a, b, c : /\ Taken(w, batch, a) /\ Upright(a)
                      /\ ClosedTo(a, b) /\ Upright(b)
                      /\ PostsReadTo(b, c) /\ WorkedTo(c, Labour(w, batch))
<1> DEFINE a == Gated(Begun(w, batch))
           b == Close(a)
           c == ReadPostOrders(b)
<1>1. Taken(w, batch, a)
  <2>1. Taken(w, batch, Begun(w, batch))
    BY BegunIs DEF Sound, Upright
  <2> QED BY <2>1, GatedIs
<1>2. Labour(w, batch) = ReadWorkOrders(c)
  BY DEF Labour, RunAssignmentDecisions
<1> HIDE DEF a
<1>3. Upright(a)
  BY <1>1, TakenIs
<1>4. ClosedTo(a, b)
  BY <1>3, CloseIs DEF Upright
<1> HIDE DEF b
<1>5. Upright(b)
  BY <1>3, <1>4, ClosedIs
<1>6. PostsReadTo(b, c)
  BY <1>5, PostsReadIs DEF Upright
<1> HIDE DEF c
<1>7. /\ IsWorld(c) /\ OnePost(c) /\ OneWork(c) /\ Quiet(c) /\ ReleasesWait(c)
      /\ \A m, q, s : Stands(c, q, {kAssignWork}, m) /\ Stands(c, s, {kAppoint}, m)
                        => ReleaseIsToCome(c, 0, m)
  BY <1>5, <1>6, ReadIs
<1>8. WorkedTo(c, ReadWorkOrders(c))
  BY <1>7, WorkedIs
<1> QED BY <1>1, <1>2, <1>3, <1>4, <1>5, <1>6, <1>8
-----------------------------------------------------------------------------
(* A step.                                                                 *)

\* The posts that orders accepted before the step, and not withdrawn in it,
\* ask for a man.
AskedOf(w, batch, m) ==
  {PostOf(At(w, q)) : q \in {s \in Rows(w) : /\ Stands(w, s, PostVerb, m)
                                             /\ ~WithdrawnIn(batch, w.orders.row_ids[s])}}

\* The men and their posts after the step's labour.
Posted(w, batch, v) ==
  /\ v.tick = w.tick + 1 /\ v.units = w.units /\ v.places = w.places
  /\ DOMAIN v.post = DOMAIN w.post /\ PlacesKept(w, v)
  /\ DayCloses(v.tick) => \A m \in DOMAIN w.post :
       v.post[m] # NoPost => UnitStands(w, v.post[m].unit)
  /\ \A m \in DOMAIN w.post : v.post[m] # w.post[m] =>
       /\ DayCloses(v.tick)
       /\ \/ v.post[m] \in AskedOf(w, batch, m)
          \/ /\ v.post[m] = NoPost
             /\ \E post \in AskedOf(w, batch, m) \cup {w.post[m]} :
                  post # NoPost /\ ~UnitStands(w, post.unit)

\* An order of the book after it: a work that can be gone to, or an order of a
\* post, given since the last close.
Answered(w, v, row, id) ==
  /\ row.kind # kReleaseWork
  /\ (\E q \in Rows(w) : At(w, q).resident = row.resident) \/ Lives(w, row.resident)
  /\ DayCloses(v.tick) /\ row.kind \in PostVerb => id >= w.orders.next_id_value
  /\ row.kind = kAssignWork =>
       /\ Lives(w, row.resident)
       /\ row.target \in DOMAIN w.places /\ w.places[row.target] = "open"

LEMMA LabourKeeps ==
  ASSUME NEW w, Sound(w), NEW batch, IsBatch(w, batch)
  PROVE  LET v == Labour(w, batch) IN
         /\ IsWorld(v) /\ Posted(w, batch, v)
         /\ v.orders.next_id_value = w.orders.next_id_value + Len(batch.issued)
         /\ OnePost(v) /\ OneWork(v) /\ Apart(v) /\ Ending(v) /\ Quiet(v)
         /\ \A r \in Rows(v) : At(v, r).status = kAccepted =>
              Answered(w, v, At(v, r), v.orders.row_ids[r])
<1> DEFINE v == Labour(w, batch)
<1>1. PICK a, b, c : /\ Taken(w, batch, a) /\ Upright(a)
                     /\ ClosedTo(a, b) /\ Upright(b)
                     /\ PostsReadTo(b, c) /\ WorkedTo(c, v)
  BY LabourIs
<1> HIDE DEF v
<1>2. IsWorld(w) /\ IsWorld(a) /\ IsWorld(b) /\ IsWorld(c)
  BY <1>1 DEF Sound, Upright, PostsReadTo, Kept
<1>3. /\ a.tick = w.tick + 1 /\ a.units = w.units /\ a.places = w.places /\ a.post = w.post
      /\ a.orders.next_id_value = w.orders.next_id_value + Len(batch.issued)
  BY <1>1 DEF Taken
<1>4. /\ b.tick = a.tick /\ b.units = a.units /\ b.places = a.places
      /\ DOMAIN b.post = DOMAIN a.post /\ Rows(b) = Rows(a)
      /\ b.orders.row_ids = a.orders.row_ids /\ b.orders.next_id_value = a.orders.next_id_value
      /\ \A r \in Rows(a) : SameOrder(At(a, r), At(b, r))
  BY <1>1 DEF ClosedTo, Kept
<1>5. /\ c.tick = b.tick /\ c.units = b.units /\ c.places = b.places /\ c.post = b.post
      /\ Rows(c) = Rows(b)
      /\ c.orders.row_ids = b.orders.row_ids /\ c.orders.next_id_value = b.orders.next_id_value
      /\ \A r \in Rows(b) : SameOrder(At(b, r), At(c, r))
  BY <1>1 DEF PostsReadTo, Kept
<1>6. /\ v.tick = c.tick /\ v.units = c.units /\ v.places = c.places /\ v.post = c.post
      /\ IsWorld(v) /\ Rows(v) = Rows(c)
      /\ v.orders.row_ids = c.orders.row_ids /\ v.orders.next_id_value = c.orders.next_id_value
      /\ \A r \in Rows(c) : SameOrder(At(c, r), At(v, r))
      /\ OnePost(v) /\ OneWork(v) /\ Apart(v) /\ Quiet(v)
  BY <1>1 DEF WorkedTo, Kept
<1>7. /\ v.tick = a.tick /\ v.post = b.post /\ v.units = w.units /\ v.places = w.places
      /\ Rows(v) = Rows(a) /\ v.orders.row_ids = a.orders.row_ids
      /\ DOMAIN v.post = DOMAIN w.post
      /\ v.orders.next_id_value = w.orders.next_id_value + Len(batch.issued)
  BY <1>3, <1>4, <1>5, <1>6
<1>8. \A q \in Rows(a) : CameFrom(w, batch, a, q)
  BY <1>1, <1>2, TakenRows
<1>9. \A q, kinds, m : Stands(a, q, kinds, m) =>
        Stands(w, q, kinds, m) /\ ~WithdrawnIn(batch, w.orders.row_ids[q])
  BY <1>1, TakenIs
<1>10. Posted(w, batch, v)
  <2>1. PlacesKept(w, v)
    <3>1. PlacesKept(a, b)
      BY <1>1 DEF ClosedTo
    <3>2. (\A p, u : Holders(w, p, u) = Holders(a, p, u)) /\ \A p : HeldIn(w, p) = HeldIn(a, p)
      BY <1>3 DEF Holders, HeldIn
    <3>3. (\A p, u : Holders(v, p, u) = Holders(b, p, u)) /\ \A p : HeldIn(v, p) = HeldIn(b, p)
      BY <1>7 DEF Holders, HeldIn
    <3> QED BY <3>1, <3>2, <3>3 DEF PlacesKept
  <2>2. \A u : UnitStands(a, u) <=> UnitStands(w, u)
    BY <1>3 DEF UnitStands
  <2>3. DayCloses(v.tick) => \A m \in DOMAIN w.post :
          v.post[m] # NoPost => UnitStands(w, v.post[m].unit)
    BY <1>1, <1>3, <1>7, <2>2 DEF ClosedTo
  <2>4. ASSUME NEW m, NEW q, Stands(a, q, PostVerb, m)
        PROVE  PostOf(At(a, q)) \in AskedOf(w, batch, m)
    <3>1. Stands(w, q, PostVerb, m) /\ ~WithdrawnIn(batch, w.orders.row_ids[q]) /\ q \in Rows(w)
      BY <1>9, <2>4 DEF Stands
    <3>2. PostOf(At(a, q)) = PostOf(At(w, q))
      BY <1>1, <3>1 DEF Taken, SameOrder
    <3> QED BY <3>1, <3>2 DEF AskedOf
  <2>5. ASSUME NEW m \in DOMAIN w.post, v.post[m] # w.post[m]
        PROVE  /\ DayCloses(v.tick)
               /\ \/ v.post[m] \in AskedOf(w, batch, m)
                  \/ /\ v.post[m] = NoPost
                     /\ \E post \in AskedOf(w, batch, m) \cup {w.post[m]} :
                          post # NoPost /\ ~UnitStands(w, post.unit)
    <3>1. /\ DayCloses(a.tick)
          /\ \/ \E q : Stands(a, q, PostVerb, m) /\ v.post[m] = PostOf(At(a, q))
             \/ /\ v.post[m] = NoPost
                /\ \E post : /\ post # NoPost /\ ~UnitStands(w, post.unit)
                             /\ \/ post = w.post[m]
                                \/ \E q : Stands(a, q, PostVerb, m) /\ post = PostOf(At(a, q))
      BY <1>1, <1>3, <1>7, <2>2, <2>5 DEF ClosedTo
    <3> QED BY <1>7, <2>4, <3>1
  <2> QED BY <1>3, <1>7, <2>1, <2>3, <2>5 DEF Posted
<1>11. /\ {kAccepted, kDone} \cap {kPending, kCancelled, kRefused} = {} /\ kAccepted # kDone
       /\ kDismiss \in PostVerb /\ kPending \notin {kRefused, kCancelled}
  BY DEF kAccepted, kDone, kPending, kCancelled, kRefused, PostVerb
\* The rows of the passes, seen from the last.
<1>12. \A r \in Rows(a) :
         /\ At(b, r).kind = At(a, r).kind /\ At(b, r).resident = At(a, r).resident
         /\ At(c, r).kind = At(a, r).kind /\ At(c, r).resident = At(a, r).resident
         /\ At(v, r).kind = At(a, r).kind /\ At(v, r).resident = At(a, r).resident
  BY <1>4, <1>5, <1>6 DEF SameOrder
<1>13. \A r \in Rows(a) : At(c, r).status = kAccepted =>
         \/ At(b, r) = At(c, r) /\ At(a, r) = At(c, r)
         \/ /\ At(a, r).kind \in PostVerb /\ At(b, r).status = kPending /\ At(a, r) = At(b, r)
            /\ Lives(w, At(a, r).resident)
  <2> SUFFICES ASSUME NEW r \in Rows(a), At(c, r).status = kAccepted
               PROVE  \/ At(b, r) = At(c, r) /\ At(a, r) = At(c, r)
                      \/ /\ At(a, r).kind \in PostVerb /\ At(b, r).status = kPending
                         /\ At(a, r) = At(b, r) /\ Lives(w, At(a, r).resident)
    OBVIOUS
  <2>1. \/ At(b, r) = At(a, r)
        \/ At(b, r).status \in {kDone, kRefused} /\ At(a, r).kind \in PostVerb
    BY <1>1 DEF ClosedTo
  <2>2. CASE At(b, r).status = kPending /\ At(b, r).kind \in PostVerb
    <3>1. Lives(b, At(b, r).resident)
      BY <1>1, <1>4, <2>2 DEF PostsReadTo
    <3>2. At(b, r) = At(a, r)
      BY <1>11, <2>1, <2>2
    <3> QED BY <1>3, <1>4, <2>2, <3>1, <3>2 DEF Lives
  <2>3. CASE ~(At(b, r).status = kPending /\ At(b, r).kind \in PostVerb)
    <3>1. At(c, r) = At(b, r)
      BY <1>1, <1>4, <2>3 DEF PostsReadTo
    <3> QED BY <1>11, <2>1, <3>1
  <2> QED BY <2>2, <2>3
<1>14. ASSUME NEW r \in Rows(a), At(a, r).status = kAccepted
       PROVE  r \in Rows(w) /\ At(w, r).resident = At(a, r).resident
  BY <1>8, <1>11, <1>14 DEF CameFrom, SameOrder
<1>15. ASSUME NEW r \in Rows(v), At(v, r).status = kAccepted
       PROVE  Answered(w, v, At(v, r), v.orders.row_ids[r])
  <2> DEFINE row == At(v, r)
  <2>1. r \in Rows(a) /\ row.kind = At(a, r).kind /\ row.resident = At(a, r).resident
    BY <1>7, <1>12
  <2>2. /\ row.kind # kReleaseWork
        /\ At(c, r).status = kAccepted \/ Lives(c, row.resident)
    BY <1>1, <1>6, <1>15 DEF WorkedTo
  <2>3. row.kind = kAssignWork =>
          /\ Lives(c, row.resident)
          /\ row.target \in DOMAIN c.places /\ c.places[row.target] = "open"
    BY <1>1, <1>6, <1>15 DEF WorkedTo
  <2>4. \A m : Lives(c, m) <=> Lives(w, m)
    BY <1>6, <1>7 DEF Lives
  <2>5. (\E q \in Rows(w) : At(w, q).resident = row.resident) \/ Lives(w, row.resident)
    <3>1. CASE Lives(c, row.resident)
      BY <2>4, <3>1
    <3>2. CASE At(c, r).status = kAccepted
      BY <1>13, <1>14, <2>1, <3>2
    <3> QED BY <2>2, <3>1, <3>2
  <2>6. ASSUME DayCloses(v.tick), row.kind \in PostVerb
        PROVE  v.orders.row_ids[r] >= w.orders.next_id_value
    <3>1. At(c, r).status = kAccepted
      <4>1. At(v, r) = At(c, r)
        BY <1>1, <1>4, <1>5, <1>12, <2>1, <2>6 DEF WorkedTo
      <4> QED BY <1>15, <4>1
    <3>2. ~(At(b, r).status = kAccepted)
      BY <1>1, <1>7, <1>12, <2>1, <2>6 DEF ClosedTo
    <3>3. At(a, r).status = kPending
      BY <1>13, <2>1, <3>1, <3>2
    <3> QED BY <1>7, <1>8, <1>11, <2>1, <3>3 DEF CameFrom
  <2> HIDE DEF row
  <2>7. Answered(w, v, row, v.orders.row_ids[r])
    BY <1>5, <1>6, <1>7, <2>2, <2>3, <2>4, <2>5, <2>6 DEF Answered
  <2> QED BY <2>7 DEF row
<1>16. Ending(v)
  <2> SUFFICES ASSUME NEW m \in DOMAIN v.post, v.post[m] # NoPost,
                      NEW q, Stands(v, q, {kAssignWork}, m)
               PROVE  \E s : Stands(v, s, {kDismiss}, m)
    BY DEF Ending
  <2>1. q \in Rows(c) /\ At(v, q).kind = kAssignWork /\ At(v, q).status = kAccepted
        /\ At(v, q).resident = m /\ c.post[m] # NoPost
    BY <1>6 DEF Stands
  <2>2. PICK s \in Rows(c) : /\ At(c, s).kind = kDismiss /\ At(c, s).resident = m
                             /\ At(c, s).status \in {kPending, kAccepted, kDone}
    BY <1>1, <2>1 DEF WorkedTo
  <2>3. s \in Rows(a) /\ s \in Rows(b) /\ At(a, s).kind = kDismiss /\ At(b, s).kind = kDismiss
        /\ At(a, s).resident = m
    BY <1>4, <1>5, <1>12, <2>2
  <2>4. At(c, s).status # kPending
    <3>1. \A r \in Rows(c) : At(c, r).kind \in PostVerb => At(c, r).status # kPending
      BY <1>1, ReadIs
    <3> QED BY <1>11, <2>2, <3>1
  <2>5. ASSUME At(c, s).status = kDone
        PROVE  FALSE
    <3>1. At(b, s).status = kDone
      <4>1. \/ At(c, s) = At(b, s)
            \/ At(c, s).status \in {kAccepted, kRefused}
        BY <1>1, <1>11, <2>3 DEF PostsReadTo
      <4> QED BY <1>11, <2>5, <4>1
    <3>2. At(a, s).status # kDone
      BY <1>1, <2>3, TakenIs
    <3>3. At(a, s).status = kAccepted
      BY <1>1, <2>3, <3>1, <3>2 DEF ClosedTo
    <3>4. Stands(a, s, {kDismiss}, m)
      BY <2>3, <3>3 DEF Stands
    <3>5. b.post[m] = NoPost
      BY <1>1, <3>1, <3>4 DEF ClosedTo
    <3> QED BY <1>7, <3>5
  <2>6. At(v, s) = At(c, s)
    BY <1>1, <1>11, <2>2 DEF WorkedTo
  <2>7. Stands(v, s, {kDismiss}, m)
    BY <1>6, <2>2, <2>4, <2>5, <2>6 DEF Stands
  <2> QED BY <2>7
<1> QED BY <1>6, <1>7, <1>10, <1>15, <1>16 DEF v

LEMMA SweptIs ==
  ASSUME NEW w, Sound(w), NEW batch, IsBatch(w, batch)
  PROVE  LET e == Labour(w, batch)
             v == [e EXCEPT !.orders = SweptBook(e.orders)]
         IN /\ Sound(v) /\ Posted(w, batch, v)
            /\ \A r \in Rows(v) : Answered(w, v, At(v, r), v.orders.row_ids[r])
<1> DEFINE e == Labour(w, batch)
           v == [e EXCEPT !.orders = SweptBook(e.orders)]
           c == SweptBook(e.orders)
<1>1. /\ IsWorld(e) /\ Posted(w, batch, e)
      /\ OnePost(e) /\ OneWork(e) /\ Apart(e) /\ Ending(e) /\ Quiet(e)
      /\ \A r \in Rows(e) : At(e, r).status = kAccepted =>
           Answered(w, e, At(e, r), e.orders.row_ids[r])
  BY LabourKeeps
<1> HIDE DEF e
<1>2. v = [tick |-> e.tick, orders |-> c, post |-> e.post, units |-> e.units,
           places |-> e.places]
  BY <1>1 DEF IsWorld
<1>3. /\ GoodBook(c)
      /\ \A r \in 1..Len(c.rows) : \E q \in 1..Len(e.orders.rows) :
           /\ c.rows[r] = e.orders.rows[q] /\ c.row_ids[r] = e.orders.row_ids[q]
           /\ e.orders.rows[q].status \notin Terminal \cup {kPending}
      /\ \A q \in 1..Len(e.orders.rows) :
           e.orders.rows[q].status \notin Terminal \cup {kPending} =>
             \E r \in 1..Len(c.rows) : c.rows[r] = e.orders.rows[q]
  BY <1>1, SweptRows DEF IsWorld
<1> HIDE DEF v, c
<1>4. /\ v.tick = e.tick /\ v.orders = c /\ v.post = e.post /\ v.units = e.units
      /\ v.places = e.places
  BY <1>2
<1>5. IsWorld(v)
  BY <1>1, <1>2, <1>3, <1>4 DEF IsWorld
<1>6. ASSUME NEW r \in Rows(v)
      PROVE  \E q \in Rows(e) : /\ At(v, r) = At(e, q)
                                /\ v.orders.row_ids[r] = e.orders.row_ids[q]
                                /\ At(e, q).status = kAccepted
  <2>1. PICK q \in Rows(e) : /\ At(v, r) = At(e, q) /\ v.orders.row_ids[r] = e.orders.row_ids[q]
                             /\ At(e, q).status \notin Terminal \cup {kPending}
    BY <1>3, <1>4 DEF Rows, At
  <2>2. At(e, q).status \in OrderStatus /\ At(e, q).status # kActive
    <3>1. At(e, q) \in AnyRow
      BY <1>1, WorldParts
    <3> QED BY <1>1, <3>1, RowParts DEF Quiet
  <2>3. At(e, q).status = kAccepted
    BY <2>1, <2>2 DEF OrderStatus, Terminal
  <2> QED BY <2>1, <2>3
<1>7. ASSUME NEW q, NEW kinds, NEW m, Stands(e, q, kinds, m)
      PROVE  \E r : Stands(v, r, kinds, m)
  <2>1. kAccepted \notin Terminal \cup {kPending}
    BY DEF kAccepted, kPending, Terminal, kDone, kRefused, kCancelled
  <2>2. PICK r \in Rows(v) : At(v, r) = At(e, q)
    BY <1>3, <1>4, <1>7, <2>1 DEF Rows, At, Stands
  <2> QED BY <1>7, <2>2 DEF Stands
<1>8. ASSUME NEW r, NEW kinds, NEW m, Stands(v, r, kinds, m)
      PROVE  \E q : Stands(e, q, kinds, m) /\ v.orders.row_ids[r] = e.orders.row_ids[q]
  BY <1>6, <1>8 DEF Stands
<1>9. ASSUME NEW r \in Rows(v), NEW s \in Rows(v), v.orders.row_ids[r] = v.orders.row_ids[s]
      PROVE  r = s
  <2>1. r \in 1..Len(c.rows) /\ s \in 1..Len(c.rows) /\ c.row_ids[r] = c.row_ids[s]
    BY <1>4, <1>9 DEF Rows
  <2> QED BY <1>3, <2>1, BookParts
<1>10. OnePost(v)
  <2> SUFFICES ASSUME NEW m, NEW r, NEW s, Stands(v, r, PostVerb, m), Stands(v, s, PostVerb, m)
               PROVE  r = s
    BY DEF OnePost
  <2>1. PICK q : Stands(e, q, PostVerb, m) /\ v.orders.row_ids[r] = e.orders.row_ids[q]
    BY <1>8
  <2>2. PICK p : Stands(e, p, PostVerb, m) /\ v.orders.row_ids[s] = e.orders.row_ids[p]
    BY <1>8
  <2>3. q = p
    BY <1>1, <2>1, <2>2 DEF OnePost
  <2>4. r \in Rows(v) /\ s \in Rows(v)
    BY DEF Stands
  <2> QED BY <1>9, <2>1, <2>2, <2>3, <2>4
<1>11. OneWork(v)
  <2> SUFFICES ASSUME NEW m, NEW r, NEW s, Stands(v, r, {kAssignWork}, m),
                      Stands(v, s, {kAssignWork}, m)
               PROVE  r = s
    BY DEF OneWork
  <2>1. PICK q : Stands(e, q, {kAssignWork}, m) /\ v.orders.row_ids[r] = e.orders.row_ids[q]
    BY <1>8
  <2>2. PICK p : Stands(e, p, {kAssignWork}, m) /\ v.orders.row_ids[s] = e.orders.row_ids[p]
    BY <1>8
  <2>3. q = p
    BY <1>1, <2>1, <2>2 DEF OneWork
  <2>4. r \in Rows(v) /\ s \in Rows(v)
    BY DEF Stands
  <2> QED BY <1>9, <2>1, <2>2, <2>3, <2>4
<1>12. Apart(v)
  <2> SUFFICES ASSUME NEW m, NEW r, NEW s, Stands(v, r, {kAssignWork}, m),
                      Stands(v, s, {kAppoint}, m)
               PROVE  FALSE
    BY DEF Apart
  <2>1. PICK q : Stands(e, q, {kAssignWork}, m)
    BY <1>8
  <2>2. PICK p : Stands(e, p, {kAppoint}, m)
    BY <1>8
  <2> QED BY <1>1, <2>1, <2>2 DEF Apart
<1>13. Ending(v)
  <2> SUFFICES ASSUME NEW m \in DOMAIN v.post, v.post[m] # NoPost,
                      NEW r, Stands(v, r, {kAssignWork}, m)
               PROVE  \E s : Stands(v, s, {kDismiss}, m)
    BY DEF Ending
  <2>1. PICK q : Stands(e, q, {kAssignWork}, m)
    BY <1>8
  <2>2. PICK p : Stands(e, p, {kDismiss}, m)
    BY <1>1, <1>4, <2>1 DEF Ending
  <2> QED BY <1>7, <2>2
<1>14. ASSUME NEW r \in Rows(v)
       PROVE  Answered(w, v, At(v, r), v.orders.row_ids[r])
  BY <1>1, <1>4, <1>6 DEF Answered
<1>15. \A r \in Rows(v) : At(v, r).status = kAccepted
  BY <1>6
<1>16. Quiet(v) /\ ReleasesWait(v)
  BY <1>14, <1>15 DEF Quiet, ReleasesWait, Answered, kAccepted, kActive
<1>17. Posted(w, batch, v)
  <2>1. (\A p, u : Holders(v, p, u) = Holders(e, p, u)) /\ \A p : HeldIn(v, p) = HeldIn(e, p)
    BY <1>4 DEF Holders, HeldIn
  <2>2. PlacesKept(w, v)
    BY <1>1, <2>1 DEF Posted, PlacesKept
  <2> QED BY <1>1, <1>4, <2>2 DEF Posted
<1>18. Sound(v)
  BY <1>5, <1>10, <1>11, <1>12, <1>13, <1>15, <1>16 DEF Sound, Upright
<1> QED BY <1>14, <1>17, <1>18 DEF v, e

-----------------------------------------------------------------------------
(* The invariant.                                                          *)

\* No order stands of a man who has not come yet: nobody could be at work
\* when the district gives him a post.
PostsInv ==
  /\ Sound(world) /\ IsBatch(world, staged) /\ world.tick <= MaxTick
  /\ expected \subseteq Specialist /\ expected \cap DOMAIN world.post = {}
  /\ \A r \in Rows(world) : At(world, r).resident \notin expected

\* What does not touch the book keeps it sound, if no man at work gets a post.
LEMMA SameBook ==
  ASSUME NEW w, Sound(w), NEW v, IsWorld(v), v.orders = w.orders,
         \A m \in DOMAIN v.post : v.post[m] # NoPost =>
           \/ m \in DOMAIN w.post /\ w.post[m] # NoPost
           \/ \A r \in Rows(w) : At(w, r).resident # m
  PROVE  Sound(v)
<1>1. Rows(v) = Rows(w) /\ \A r : At(v, r) = At(w, r)
  BY DEF Rows, At
<1>2. \A q, kinds, m : Stands(v, q, kinds, m) <=> Stands(w, q, kinds, m)
  BY <1>1 DEF Stands
<1>3. OnePost(v) /\ OneWork(v) /\ Apart(v)
  <2>1. OnePost(w) /\ OneWork(w) /\ Apart(w)
    BY DEF Sound, Upright
  <2>2. OnePost(v)
    BY <1>2, <2>1 DEF OnePost
  <2>3. OneWork(v)
    BY <1>2, <2>1 DEF OneWork
  <2>4. Apart(v)
    BY <1>2, <2>1 DEF Apart
  <2> QED BY <2>2, <2>3, <2>4
<1>4. Quiet(v) /\ ReleasesWait(v) /\ \A r \in Rows(v) : At(v, r).status = kAccepted
  BY <1>1 DEF Sound, Upright, Quiet, ReleasesWait
<1>5. Ending(v)
  <2> SUFFICES ASSUME NEW m \in DOMAIN v.post, v.post[m] # NoPost,
                      NEW q, Stands(v, q, {kAssignWork}, m)
               PROVE  \E s : Stands(v, s, {kDismiss}, m)
    BY DEF Ending
  <2>1. Stands(w, q, {kAssignWork}, m) /\ q \in Rows(w) /\ At(w, q).resident = m
    BY <1>2 DEF Stands
  <2>2. m \in DOMAIN w.post /\ w.post[m] # NoPost
    BY <2>1
  <2>3. PICK s : Stands(w, s, {kDismiss}, m)
    BY <2>1, <2>2 DEF Sound, Ending
  <2> QED BY <1>2, <2>3
<1> QED BY <1>3, <1>4, <1>5 DEF Sound, Upright

LEMMA InitSound == Init => PostsInv
<1> SUFFICES ASSUME Init PROVE PostsInv
  OBVIOUS
<1>1. GoodBook(EmptyTable)
  <2>1. T!EmptyTable = EmptyTable
    BY DEF EmptyTable, T!EmptyTable
  <2> QED BY <2>1, T!EmptyGood, BoundAssumption DEF GoodBook
<1>2. EmptyTable.rows = <<>> /\ EmptyTable.next_id_value = 1
  BY DEF EmptyTable
<1>3. Len(<<>>) = 0 /\ 1..Len(<<>>) = {}
  OBVIOUS
<1>4. world.orders = EmptyTable /\ Rows(world) = {}
  BY <1>2, <1>3 DEF Init, Rows
<1>5. IsWorld(world)
  <2>1. DOMAIN world.post = Villager /\ world.post = [m \in Villager |-> NoPost]
    BY DEF Init
  <2>2. DOMAIN world.units = Unit /\ world.units \in [Unit -> UnitState]
    BY DEF Init, UnitState
  <2>3. DOMAIN world.places = Target /\ world.places \in [Target -> PlaceState]
    BY DEF Init, PlaceState
  <2>4. world = [tick |-> world.tick, orders |-> world.orders, post |-> world.post,
                 units |-> world.units, places |-> world.places]
    BY DEF Init
  <2>5. world.tick \in Nat
    BY DEF Init
  <2> QED BY <1>1, <1>4, <2>1, <2>2, <2>3, <2>4, <2>5 DEF IsWorld, Resident
<1>6. Sound(world)
  BY <1>4, <1>5 DEF Init, Sound, Upright, OnePost, OneWork, Apart, Quiet, ReleasesWait, Ending,
                    Stands
<1>7. IsBatch(world, staged)
  <2>1. staged.issued = <<>> /\ staged.cancelled = <<>>
    BY DEF Init, EmptyBatch
  <2> QED BY <1>2, <1>3, <1>4, <2>1, BoundAssumption DEF IsBatch
<1>8. world.tick <= MaxTick /\ expected = Specialist /\ DOMAIN world.post = Villager
  BY BoundAssumption DEF Init
<1> QED BY <1>4, <1>6, <1>7, <1>8, PeopleAssumption DEF PostsInv

\* A step of the labour: what it makes of the village.
LEMMA StepIs ==
  ASSUME PostsInv, Step
  PROVE  /\ Sound(world') /\ Posted(world, staged, world') /\ PostsInv'
         /\ \A r \in Rows(world') : Answered(world, world', At(world', r),
                                             world'.orders.row_ids[r])
<1>1. Sound(world) /\ IsBatch(world, staged) /\ world.tick < MaxTick
  BY DEF PostsInv, Step
<1>2. /\ Sound(world') /\ Posted(world, staged, world')
      /\ \A r \in Rows(world') : Answered(world, world', At(world', r),
                                          world'.orders.row_ids[r])
  BY <1>1, SweptIs DEF Step
<1>3. IsBatch(world', staged')
  <2>1. staged'.issued = <<>> /\ staged'.cancelled = <<>> /\ Len(<<>>) = 0
    BY DEF Step, EmptyBatch
  <2>2. world'.orders.next_id_value \in 1..(MaxOrder + 1)
    BY <1>2, BookParts DEF Sound, Upright, IsWorld
  <2> QED BY <2>1, <2>2, BoundAssumption DEF IsBatch
<1>4. world.tick \in Nat /\ world'.tick = world.tick + 1 /\ DOMAIN world'.post = DOMAIN world.post
  BY <1>1, <1>2 DEF Posted, Sound, Upright, IsWorld
<1>5. world'.tick <= MaxTick /\ expected' = expected
  BY <1>1, <1>4, BoundAssumption DEF Step
<1>6. \A r \in Rows(world') : At(world', r).resident \notin expected
  <2> SUFFICES ASSUME NEW r \in Rows(world')
               PROVE  At(world', r).resident \notin expected
    OBVIOUS
  <2>1. \/ \E q \in Rows(world) : At(world, q).resident = At(world', r).resident
        \/ Lives(world, At(world', r).resident)
    BY <1>2 DEF Answered
  <2> QED BY <2>1 DEF PostsInv, Lives
<1>7. PostsInv'
  BY <1>2, <1>3, <1>4, <1>5, <1>6 DEF PostsInv
<1> QED BY <1>2, <1>7

\* What happens elsewhere leaves the book alone, and gives no post to a man who
\* lived here.
LEMMA ElsewhereIs ==
  ASSUME PostsInv, Elsewhere
  PROVE  /\ IsWorld(world') /\ world'.orders = world.orders /\ world'.tick = world.tick
         /\ staged' = staged /\ expected' \subseteq expected
         /\ expected' \cap DOMAIN world'.post = {}
         /\ \A m \in DOMAIN world'.post :
              \/ m \in DOMAIN world.post /\ world'.post[m] = world.post[m]
              \/ m \in expected /\ m \notin DOMAIN world.post
<1>1. IsWorld(world) /\ expected \cap DOMAIN world.post = {} /\ expected \subseteq Specialist
  BY DEF PostsInv, Sound, Upright
<1>2. /\ world = [tick |-> world.tick, orders |-> world.orders, post |-> world.post,
                  units |-> world.units, places |-> world.places]
      /\ world.tick \in Nat /\ GoodBook(world.orders)
      /\ world.post \in [DOMAIN world.post -> Post \cup {NoPost}]
      /\ DOMAIN world.post \subseteq Resident
      /\ world.units \in [DOMAIN world.units -> UnitState]
      /\ world.places \in [DOMAIN world.places -> PlaceState]
  BY <1>1 DEF IsWorld
<1>3. ASSUME NEW post, NEW units, NEW places,
             world' = [tick |-> world.tick, orders |-> world.orders, post |-> post,
                       units |-> units, places |-> places],
             post \in [DOMAIN post -> Post \cup {NoPost}], DOMAIN post \subseteq Resident,
             units \in [DOMAIN units -> UnitState], places \in [DOMAIN places -> PlaceState]
      PROVE  IsWorld(world') /\ world'.orders = world.orders /\ world'.tick = world.tick
             /\ world'.post = post
  <2>1. /\ world'.tick = world.tick /\ world'.orders = world.orders /\ world'.post = post
        /\ world'.units = units /\ world'.places = places
    BY <1>3
  <2>2. IsWorld(world')
    BY <1>2, <1>3, <2>1 DEF IsWorld
  <2> QED BY <2>1, <2>2
<1>4. ASSUME NEW m \in Resident, Dies(m)
      PROVE  /\ IsWorld(world') /\ world'.orders = world.orders /\ world'.tick = world.tick
             /\ world'.post = [other \in DOMAIN world.post \ {m} |-> world.post[other]]
             /\ staged' = staged /\ expected' = expected
  <2> DEFINE post == [other \in DOMAIN world.post \ {m} |-> world.post[other]]
  <2>1. world' = [tick |-> world.tick, orders |-> world.orders, post |-> post,
                  units |-> world.units, places |-> world.places]
    BY <1>2, <1>4 DEF Dies
  <2>2. post \in [DOMAIN post -> Post \cup {NoPost}] /\ DOMAIN post \subseteq Resident
    BY <1>2
  <2> HIDE DEF post
  <2>3. /\ IsWorld(world') /\ world'.orders = world.orders /\ world'.tick = world.tick
        /\ world'.post = post
    BY <1>2, <1>3, <2>1, <2>2
  <2> QED BY <1>4, <2>3 DEF Dies, post
<1>5. ASSUME NEW m \in Specialist, NEW p \in Post, Arrives(m, p)
      PROVE  /\ IsWorld(world') /\ world'.orders = world.orders /\ world'.tick = world.tick
             /\ DOMAIN world'.post = DOMAIN world.post \cup {m}
             /\ \A k \in DOMAIN world.post : k # m => world'.post[k] = world.post[k]
             /\ staged' = staged /\ expected' = expected \ {m} /\ m \in expected
  <2> DEFINE held == IF p.unit \in DOMAIN world.units THEN p ELSE NoPost
             post == [other \in DOMAIN world.post \cup {m} |->
                        IF other = m THEN held ELSE world.post[other]]
  <2>1. world' = [tick |-> world.tick, orders |-> world.orders, post |-> post,
                  units |-> world.units, places |-> world.places]
    BY <1>2, <1>5 DEF Arrives
  <2>2. held \in Post \cup {NoPost}
    OBVIOUS
  <2> HIDE DEF held
  <2>3. /\ post \in [DOMAIN post -> Post \cup {NoPost}] /\ DOMAIN post \subseteq Resident
        /\ DOMAIN post = DOMAIN world.post \cup {m}
        /\ \A k \in DOMAIN world.post : k # m => post[k] = world.post[k]
    BY <1>2, <2>2 DEF Resident
  <2> HIDE DEF post
  <2>4. /\ IsWorld(world') /\ world'.orders = world.orders /\ world'.tick = world.tick
        /\ world'.post = post
    BY <1>2, <1>3, <2>1, <2>3
  <2> QED BY <1>5, <2>3, <2>4 DEF Arrives
<1>6. ASSUME NEW u \in Unit, Built(u) \/ TakeDown(u) \/ UnitGoes(u)
      PROVE  /\ IsWorld(world') /\ world'.orders = world.orders /\ world'.tick = world.tick
             /\ world'.post = world.post /\ staged' = staged /\ expected' = expected
  <2>1. \E units : /\ world' = [tick |-> world.tick, orders |-> world.orders,
                                post |-> world.post, units |-> units, places |-> world.places]
                   /\ units \in [DOMAIN units -> UnitState]
    <3>1. CASE Built(u)
      <4> DEFINE units == [world.units EXCEPT ![u] = "stands"]
      <4>1. world' = [tick |-> world.tick, orders |-> world.orders, post |-> world.post,
                      units |-> units, places |-> world.places]
        BY <1>2, <3>1 DEF Built
      <4>2. units \in [DOMAIN units -> UnitState]
        BY <1>2 DEF UnitState
      <4> QED BY <4>1, <4>2
    <3>2. CASE TakeDown(u)
      <4> DEFINE units == [world.units EXCEPT ![u] = "demolishing"]
      <4>1. world' = [tick |-> world.tick, orders |-> world.orders, post |-> world.post,
                      units |-> units, places |-> world.places]
        BY <1>2, <3>2 DEF TakeDown
      <4>2. units \in [DOMAIN units -> UnitState]
        BY <1>2 DEF UnitState
      <4> QED BY <4>1, <4>2
    <3>3. CASE UnitGoes(u)
      <4> DEFINE units == [other \in DOMAIN world.units \ {u} |-> world.units[other]]
      <4>1. world' = [tick |-> world.tick, orders |-> world.orders, post |-> world.post,
                      units |-> units, places |-> world.places]
        BY <1>2, <3>3 DEF UnitGoes
      <4>2. units \in [DOMAIN units -> UnitState]
        BY <1>2
      <4> QED BY <4>1, <4>2
    <3> QED BY <1>6, <3>1, <3>2, <3>3
  <2>2. staged' = staged /\ expected' = expected
    BY <1>6 DEF Built, TakeDown, UnitGoes
  <2> QED BY <1>2, <1>3, <2>1, <2>2
<1>7. ASSUME NEW t \in Target,
             PlaceGoes(t) \/ \E how \in {"worked out", "planted"} : PlaceIsDone(t, how)
      PROVE  /\ IsWorld(world') /\ world'.orders = world.orders /\ world'.tick = world.tick
             /\ world'.post = world.post /\ staged' = staged /\ expected' = expected
  <2>1. \E places : /\ world' = [tick |-> world.tick, orders |-> world.orders,
                                 post |-> world.post, units |-> world.units, places |-> places]
                    /\ places \in [DOMAIN places -> PlaceState]
    <3>1. CASE PlaceGoes(t)
      <4> DEFINE places == [other \in DOMAIN world.places \ {t} |-> world.places[other]]
      <4>1. world' = [tick |-> world.tick, orders |-> world.orders, post |-> world.post,
                      units |-> world.units, places |-> places]
        BY <1>2, <3>1 DEF PlaceGoes
      <4>2. places \in [DOMAIN places -> PlaceState]
        BY <1>2
      <4> QED BY <4>1, <4>2
    <3>2. ASSUME NEW how \in {"worked out", "planted"}, PlaceIsDone(t, how)
          PROVE  \E places : /\ world' = [tick |-> world.tick, orders |-> world.orders,
                                          post |-> world.post, units |-> world.units,
                                          places |-> places]
                             /\ places \in [DOMAIN places -> PlaceState]
      <4> DEFINE places == [world.places EXCEPT ![t] = how]
      <4>1. world' = [tick |-> world.tick, orders |-> world.orders, post |-> world.post,
                      units |-> world.units, places |-> places]
        BY <1>2, <3>2 DEF PlaceIsDone
      <4>2. places \in [DOMAIN places -> PlaceState]
        BY <1>2 DEF PlaceState
      <4> QED BY <4>1, <4>2
    <3> QED BY <1>7, <3>1, <3>2
  <2>2. staged' = staged /\ expected' = expected
    BY <1>7 DEF PlaceGoes, PlaceIsDone
  <2> QED BY <1>2, <1>3, <2>1, <2>2
<1>8. CASE \E m \in Resident : Dies(m)
  BY <1>1, <1>4, <1>8
<1>9. CASE \E m \in Specialist : \E p \in Post : Arrives(m, p)
  BY <1>1, <1>5, <1>9
<1>10. CASE \E u \in Unit : Built(u) \/ TakeDown(u) \/ UnitGoes(u)
  BY <1>1, <1>6, <1>10
<1>11. CASE \E t \in Target :
              PlaceGoes(t) \/ \E how \in {"worked out", "planted"} : PlaceIsDone(t, how)
  BY <1>1, <1>7, <1>11
<1> QED BY <1>8, <1>9, <1>10, <1>11 DEF Elsewhere

\* Between two steps the book stands as it is, and nobody who lives here gets a
\* post.
LEMMA BetweenIs ==
  ASSUME PostsInv, [Next]_vars, ~Step
  PROVE  /\ PostsInv' /\ world'.tick = world.tick
         /\ \A m \in DOMAIN world.post \cap DOMAIN world'.post :
              world'.post[m] = world.post[m]
<1>1. Sound(world) /\ IsBatch(world, staged)
  BY DEF PostsInv
<1>2. CASE UNCHANGED vars
  BY <1>2 DEF vars, PostsInv
<1>3. ASSUME NEW row \in OrderRow, IssueOrder(row)
      PROVE  PostsInv' /\ world' = world
  <2>1. world' = world /\ expected' = expected /\ staged'.cancelled = staged.cancelled
        /\ staged'.issued = Append(staged.issued, row)
    BY <1>3 DEF IssueOrder
  <2>2. world.orders.next_id_value + Len(staged.issued) <= MaxOrder
    BY <1>3 DEF IssueOrder, Promised
  <2>3. world.orders.next_id_value \in Nat
    BY <1>1, BookParts DEF Sound, Upright, IsWorld
  <2>4. IsBatch(world, staged')
    BY <1>1, <2>1, <2>2, <2>3, BoundAssumption DEF IsBatch
  <2>5. IsBatch(world', staged')
    BY <2>1, <2>4
  <2> QED BY <2>1, <2>5 DEF PostsInv
<1>4. ASSUME NEW id \in 1..MaxOrder, CancelOrder(id)
      PROVE  PostsInv' /\ world' = world
  <2>1. world' = world /\ expected' = expected /\ staged'.issued = staged.issued
        /\ staged'.cancelled = Append(staged.cancelled, id)
    BY <1>4 DEF CancelOrder
  <2>2. IsBatch(world, staged')
    BY <1>1, <2>1 DEF IsBatch
  <2>3. IsBatch(world', staged')
    BY <2>1, <2>2
  <2> QED BY <2>1, <2>3 DEF PostsInv
<1>5. CASE Elsewhere
  <2>1. /\ IsWorld(world') /\ world'.orders = world.orders /\ world'.tick = world.tick
        /\ staged' = staged /\ expected' \subseteq expected
        /\ expected' \cap DOMAIN world'.post = {}
        /\ \A m \in DOMAIN world'.post :
             \/ m \in DOMAIN world.post /\ world'.post[m] = world.post[m]
             \/ m \in expected /\ m \notin DOMAIN world.post
    BY <1>5, ElsewhereIs
  <2>2. \A m \in DOMAIN world'.post : world'.post[m] # NoPost =>
          \/ m \in DOMAIN world.post /\ world.post[m] # NoPost
          \/ \A r \in Rows(world) : At(world, r).resident # m
    BY <2>1 DEF PostsInv
  <2>3. Sound(world')
    BY <1>1, <2>1, <2>2, SameBook
  <2>4. Rows(world') = Rows(world) /\ \A r : At(world', r) = At(world, r)
    BY <2>1 DEF Rows, At
  <2>5. IsBatch(world', staged')
    BY <1>1, <2>1 DEF IsBatch
  <2>6. \A r \in Rows(world') : At(world', r).resident \notin expected'
    BY <2>1, <2>4 DEF PostsInv
  <2>7. world'.tick <= MaxTick /\ expected' \subseteq Specialist
    BY <2>1 DEF PostsInv
  <2>8. PostsInv'
    BY <2>1, <2>3, <2>5, <2>6, <2>7 DEF PostsInv
  <2> QED BY <2>1, <2>8
<1>6. CASE \E row \in OrderRow : IssueOrder(row)
  BY <1>3, <1>6
<1>7. CASE \E id \in 1..MaxOrder : CancelOrder(id)
  BY <1>4, <1>7
<1> QED BY <1>2, <1>5, <1>6, <1>7 DEF Next

\* The village stays sound whatever is ordered, withdrawn or befalls it.
THEOREM PostsStaySound == Spec => []PostsInv
<1>1. PostsInv /\ [Next]_vars => PostsInv'
  BY StepIs, BetweenIs
<1> QED BY <1>1, InitSound, PTL DEF Spec

\* Every row, post, unit and place is of its type, and between two steps every
\* order in the book is an accepted one.
THEOREM PostsTyped == Spec => []TypeOK
<1>1. PostsInv => TypeOK
  <2> SUFFICES ASSUME PostsInv PROVE TypeOK
    OBVIOUS
  <2>1. Sound(world) /\ IsWorld(world) /\ IsBatch(world, staged) /\ world.tick <= MaxTick
    BY DEF PostsInv, Sound, Upright
  <2>2. world.tick \in 0..MaxTick
    BY <2>1, BoundAssumption DEF IsWorld
  <2>3. /\ DOMAIN world.post \subseteq Resident
        /\ \A m \in DOMAIN world.post : world.post[m] \in Post \cup {NoPost}
        /\ \A u \in DOMAIN world.units : world.units[u] \in UnitState
        /\ \A t \in DOMAIN world.places : world.places[t] \in PlaceState
    BY <2>1 DEF IsWorld
  <2>4. \A r \in DOMAIN world.orders.rows : world.orders.rows[r].status = kAccepted
    BY <2>1, WorldParts DEF Sound, At
  <2> QED BY <2>1, <2>2, <2>3, <2>4 DEF TypeOK, UnitState, PlaceState, IsBatch
<1> QED BY <1>1, PostsStaySound, PTL

-----------------------------------------------------------------------------
(* The properties.                                                         *)

\* Posts change at the close alone, and by an order that stood before it; and
\* no order of a post waits for a second close.
THEOREM PostsSettleAtTheClose == Spec => SettledAtTheClose
<1>1. ASSUME PostsInv, [Next]_vars
      PROVE  PostsChangeAtTheClose /\ AnsweredByTheClose
  <2>1. CASE Step
    <3>1. /\ Posted(world, staged, world') /\ Sound(world')
          /\ \A r \in Rows(world') : Answered(world, world', At(world', r),
                                              world'.orders.row_ids[r])
      BY <1>1, <2>1, StepIs
    <3>2. IsWorld(world) /\ IsWorld(world') /\ world.tick \in Nat
      BY <1>1, <3>1 DEF PostsInv, Sound, Upright, IsWorld
    <3>3. world'.tick # world.tick
      BY <3>1, <3>2 DEF Posted
    <3>4. Closed <=> DayCloses(world'.tick)
      BY <3>3 DEF Closed, Stepped
    <3>5. ASSUME NEW m, NEW post \in AskedOf(world, staged, m)
          PROVE  post \in Asked(m)
      <4>1. PICK q \in Rows(world) : /\ Stands(world, q, PostVerb, m)
                                     /\ ~WithdrawnIn(staged, world.orders.row_ids[q])
                                     /\ post = PostOf(At(world, q))
        BY <3>5 DEF AskedOf
      <4>2. q \in DOMAIN world.orders.rows
        BY <3>2, <4>1, WorldParts
      <4> QED BY <4>1, <4>2 DEF Asked, Stands, WithdrawnIn, PostOf, At
    <3>6. PostsChangeAtTheClose
      <4> SUFFICES ASSUME NEW m \in DOMAIN world.post \cap DOMAIN world'.post,
                          world'.post[m] # world.post[m]
                   PROVE  /\ Closed
                          /\ \/ world'.post[m] \in Asked(m)
                             \/ /\ world'.post[m] = NoPost
                                /\ \E post \in Asked(m) \cup {world.post[m]} :
                                     post # NoPost /\ ~UnitStands(world, post.unit)
        BY DEF PostsChangeAtTheClose
      <4>1. /\ DayCloses(world'.tick)
            /\ \/ world'.post[m] \in AskedOf(world, staged, m)
               \/ /\ world'.post[m] = NoPost
                  /\ \E post \in AskedOf(world, staged, m) \cup {world.post[m]} :
                       post # NoPost /\ ~UnitStands(world, post.unit)
        BY <3>1 DEF Posted
      <4> QED BY <3>4, <3>5, <4>1
    <3>7. AnsweredByTheClose
      <4>1. DOMAIN world'.orders.rows = Rows(world')
        BY <3>2, WorldParts
      <4> QED BY <3>1, <3>4, <4>1 DEF AnsweredByTheClose, Answered, At
    <3> QED BY <3>6, <3>7
  <2>2. CASE ~Step
    <3>1. /\ world'.tick = world.tick
          /\ \A m \in DOMAIN world.post \cap DOMAIN world'.post :
               world'.post[m] = world.post[m]
      BY <1>1, <2>2, BetweenIs
    <3> QED BY <3>1 DEF PostsChangeAtTheClose, AnsweredByTheClose, Closed, Stepped
  <2> QED BY <2>1, <2>2
<1>2. PostsInv /\ [Next]_vars => [PostsChangeAtTheClose /\ AnsweredByTheClose]_vars
  BY <1>1
<1> QED BY <1>2, PostsStaySound, PTL DEF Spec, SettledAtTheClose

\* No close fills a place twice or leaves a man on the post of a unit that is
\* gone, and no work stands that nobody can do.
THEOREM PlacesStayRight == Spec => PlacesHeldRight
<1>1. ASSUME PostsInv, [Next]_vars
      PROVE  PostsHeldRight /\ NoImmortalWork
  <2>1. CASE Step
    <3>1. /\ Posted(world, staged, world') /\ Sound(world')
          /\ \A r \in Rows(world') : Answered(world, world', At(world', r),
                                              world'.orders.row_ids[r])
      BY <1>1, <2>1, StepIs
    <3>2. IsWorld(world')
      BY <3>1 DEF Sound, Upright
    <3>3. Closed => DayCloses(world'.tick)
      BY DEF Closed
    <3>4. ASSUME NEW u \in Unit, NEW p \in DOMAIN Slots[u], Slots[u][p] # 0
          PROVE  NoMore(Holders(world, p, u), Slots[u][p])
      <4>1. NoMoreThan(Holders(world, p, u), Holders(world', p, u), Slots[u][p])
        BY <3>1, <3>4 DEF Posted, PlacesKept
      <4> QED BY <4>1 DEF NoMore, NoMoreThan, Holders
    <3>5. ASSUME NEW p \in SinglePost
          PROVE  NoMore(HeldBy(p), 1)
      <4>1. NoMoreThan(HeldIn(world, p), HeldIn(world', p), 1)
        BY <3>1 DEF Posted, PlacesKept
      <4> QED BY <4>1 DEF NoMore, NoMoreThan, HeldBy, HeldIn
    <3>6. ASSUME Closed
          PROVE  \A m \in DOMAIN world'.post :
                   world'.post[m] # NoPost => UnitStands(world, world'.post[m].unit)
      BY <3>1, <3>3, <3>6 DEF Posted
    <3>7. PostsHeldRight
      BY <3>4, <3>5, <3>6 DEF PostsHeldRight
    <3>8. NoImmortalWork
      <4>1. DOMAIN world'.orders.rows = Rows(world')
        BY <3>2, WorldParts
      <4> QED BY <3>1, <4>1 DEF NoImmortalWork, Answered, At
    <3> QED BY <3>7, <3>8
  <2>2. CASE ~Step
    <3>1. world'.tick = world.tick
      BY <1>1, <2>2, BetweenIs
    <3> QED BY <3>1 DEF PostsHeldRight, NoImmortalWork, Closed, Stepped
  <2> QED BY <2>1, <2>2
<1>2. PostsInv /\ [Next]_vars => [PostsHeldRight /\ NoImmortalWork]_vars
  BY <1>1
<1> QED BY <1>2, PostsStaySound, PTL DEF Spec, PlacesHeldRight

\* Of a set in which any two are the same there is at most one.
LEMMA AtMostOne ==
  ASSUME NEW S, \A x, y \in S : x = y
  PROVE  IsFiniteSet(S) /\ Cardinality(S) \in {0, 1} /\ (Cardinality(S) = 1 <=> S # {})
<1>1. CASE S = {}
  BY <1>1, FS_EmptySet
<1>2. CASE S # {}
  <2>1. PICK x : S = {x}
    BY <1>2
  <2> QED BY <2>1, FS_Singleton
<1> QED BY <1>1, <1>2

LEMMA OneAnswerHolds ==
  ASSUME PostsInv
  PROVE  OneAnswer
<1>1. Sound(world) /\ IsWorld(world)
  BY DEF PostsInv, Sound, Upright
<1>2. ASSUME NEW m \in DOMAIN world.post
      PROVE  LET standing(kind) == OrdersOf(world, m, kind) IN
             /\ Cardinality(standing(kAssignWork)) <= 1
             /\ Cardinality(standing(kAppoint)) + Cardinality(standing(kDismiss)) <= 1
             /\ standing(kAssignWork) # {} =>
                  standing(kAppoint) = {} /\ (world.post[m] # NoPost => standing(kDismiss) # {})
  <2> DEFINE work == OrdersOf(world, m, kAssignWork)
             in == OrdersOf(world, m, kAppoint)
             out == OrdersOf(world, m, kDismiss)
  <2>1. \A kind, r : r \in OrdersOf(world, m, kind) <=> Stands(world, r, {kind}, m)
    BY <1>1, WorldParts DEF OrdersOf, Stands, At, Sound
  <2>2. \A r : /\ r \in work <=> Stands(world, r, {kAssignWork}, m)
               /\ r \in in <=> Stands(world, r, {kAppoint}, m)
               /\ r \in out <=> Stands(world, r, {kDismiss}, m)
    BY <2>1
  <2> HIDE DEF work, in, out
  <2>3. \A r : Stands(world, r, {kAppoint}, m) \/ Stands(world, r, {kDismiss}, m)
                 => Stands(world, r, PostVerb, m)
    BY DEF Stands, PostVerb
  <2>4. OnePost(world) /\ OneWork(world) /\ Apart(world) /\ Ending(world)
    BY <1>1 DEF Sound, Upright
  <2>5. \A x, y \in work : x = y
    BY <2>2, <2>4 DEF OneWork
  <2>6. \A x, y \in in \cup out : x = y
    BY <2>2, <2>3, <2>4 DEF OnePost
  <2>7. in = {} \/ out = {}
    <3>1. ASSUME NEW x \in in, NEW y \in out
          PROVE  FALSE
      <4>1. x = y
        BY <2>6
      <4> QED BY <2>2, <4>1 DEF Stands, kAppoint, kDismiss
    <3> QED BY <3>1
  <2>8. Cardinality(work) <= 1
    BY <2>5, AtMostOne
  <2>9. Cardinality(in) + Cardinality(out) <= 1
    <3>1. Cardinality(in) \in {0, 1} /\ (Cardinality(in) = 1 <=> in # {})
      BY <2>6, AtMostOne
    <3>2. Cardinality(out) \in {0, 1} /\ (Cardinality(out) = 1 <=> out # {})
      BY <2>6, AtMostOne
    <3> QED BY <2>7, <3>1, <3>2
  <2>10. work # {} => in = {}
    BY <2>2, <2>4 DEF Apart
  <2>11. work # {} => (world.post[m] # NoPost => out # {})
    BY <2>2, <2>4 DEF Ending
  <2> QED BY <2>8, <2>9, <2>10, <2>11 DEF work, in, out
<1> QED BY <1>2 DEF OneAnswer

\* Two orders of one free man in one batch: the reading of the posts refuses
\* the appointment for the work if the work came first, and never the work's
\* side of it otherwise.
LEMMA FirstComesFirstHolds ==
  ASSUME PostsInv
  PROVE  FirstComesFirst
<1> DEFINE v == Labour(world, staged)
           n == Len(world.orders.rows)
<1>1. Sound(world) /\ IsWorld(world) /\ IsBatch(world, staged)
  BY DEF PostsInv, Sound, Upright
<1>2. PICK a, b, c : /\ Taken(world, staged, a) /\ Upright(a)
                     /\ ClosedTo(a, b) /\ Upright(b)
                     /\ PostsReadTo(b, c) /\ WorkedTo(c, v)
  BY <1>1, LabourIs
<1> HIDE DEF v
<1>3. n \in Nat /\ DOMAIN staged.issued = 1..Len(staged.issued)
      /\ DOMAIN world.orders.rows = Rows(world)
  BY <1>1, WorldParts DEF IsBatch
<1> HIDE DEF n
<1>4. /\ Rows(b) = Rows(a) /\ Rows(c) = Rows(a)
      /\ \A r \in Rows(a) : /\ At(b, r).kind = At(a, r).kind
                            /\ At(b, r).resident = At(a, r).resident
                            /\ At(c, r).kind = At(a, r).kind
  BY <1>2 DEF ClosedTo, PostsReadTo, Kept, SameOrder
<1>5. /\ kAccepted \notin {kPending, kCancelled, kRefused} /\ kAppoint \in PostVerb
      /\ kPending \notin {kCancelled, kRefused}
      /\ kAssignWork \notin PostVerb /\ kAppoint # kAssignWork
      /\ "kConflictsWithActive" \notin {"kNone", "kChairmanAway"}
  BY DEF kAccepted, kPending, kCancelled, kRefused, PostVerb, kAppoint, kAssignWork, kDismiss
<1>6. \A q \in Rows(a) : CameFrom(world, staged, a, q)
  BY <1>1, <1>2, TakenRows
\* What was issued reaches the readers as it was issued, or is answered.
<1>7. ASSUME NEW k \in DOMAIN staged.issued
      PROVE  /\ n + k \in Rows(a)
             /\ At(a, n + k).kind = staged.issued[k].kind
             /\ At(a, n + k).resident = staged.issued[k].resident
             /\ At(a, n + k).status \in {kPending, kCancelled, kRefused}
             /\ At(a, n + k).refusal \in {"kNone", "kChairmanAway"}
             /\ At(b, n + k) = At(a, n + k)
  <2>1. LET r == Len(world.orders.rows) + k IN
        /\ r \in Rows(a) /\ SameOrder(staged.issued[k], At(a, r))
        /\ At(a, r).status \in {kPending, kCancelled, kRefused}
        /\ At(a, r).refusal \in {"kNone", "kChairmanAway"}
    BY <1>2, <1>3 DEF Taken
  <2>2. /\ n + k \in Rows(a) /\ SameOrder(staged.issued[k], At(a, n + k))
        /\ At(a, n + k).status \in {kPending, kCancelled, kRefused}
        /\ At(a, n + k).refusal \in {"kNone", "kChairmanAway"}
    BY <2>1 DEF n
  <2>3. At(b, n + k) = At(a, n + k)
    BY <1>2, <1>5, <2>2 DEF ClosedTo
  <2> QED BY <2>2, <2>3 DEF SameOrder
<1>8. ASSUME NEW i \in DOMAIN staged.issued, NEW j \in DOMAIN staged.issued, i < j,
             NEW m, staged.issued[i].resident = m, staged.issued[j].resident = m,
             {staged.issued[i].kind, staged.issued[j].kind} = {kAppoint, kAssignWork},
             OnlyTheseTwo(m, i, j),
             At(v, n + j).status = kAccepted, At(v, n + i).refusal = "kConflictsWithActive"
      PROVE  FALSE
  <2>1. i \in Nat /\ j \in Nat /\ n + i < n + j /\ n + i # n + j
    BY <1>3, <1>8
  <2>2. CASE staged.issued[i].kind = kAssignWork /\ staged.issued[j].kind = kAppoint
    <3>1. At(v, n + j) = At(c, n + j)
      BY <1>2, <1>4, <1>5, <1>7, <2>2 DEF WorkedTo
    <3>2. At(b, n + j).status = kPending /\ At(b, n + j).kind = kAppoint
      <4>1. At(c, n + j) # At(b, n + j)
        BY <1>5, <1>7, <1>8, <3>1
      <4> QED BY <1>2, <1>4, <1>7, <2>2, <4>1 DEF PostsReadTo
    <3>3. ~WorkBefore(b, n + j)
      BY <1>2, <1>4, <1>5, <1>7, <1>8, <3>1, <3>2 DEF PostsReadTo
    <3>4. At(b, n + i).status # kPending
      <4>1. /\ At(b, n + i).kind = kAssignWork /\ n + i \in Rows(b)
            /\ At(b, n + i).resident = At(b, n + j).resident
        BY <1>4, <1>7, <1>8, <2>2
      <4> QED BY <2>1, <3>3, <4>1 DEF WorkBefore
    <3>5. At(c, n + i) = At(b, n + i)
      BY <1>2, <1>4, <1>7, <3>4 DEF PostsReadTo
    <3>6. At(v, n + i) = At(c, n + i)
      BY <1>2, <1>4, <1>5, <1>7, <3>4, <3>5 DEF WorkedTo
    <3> QED BY <1>5, <1>7, <1>8, <3>5, <3>6
  <2>3. CASE staged.issued[i].kind = kAppoint /\ staged.issued[j].kind = kAssignWork
    <3>1. At(v, n + i) = At(c, n + i)
      BY <1>2, <1>4, <1>5, <1>7, <2>3 DEF WorkedTo
    <3>2. At(b, n + i).status = kPending
      <4>1. At(c, n + i) # At(b, n + i)
        BY <1>5, <1>7, <1>8, <3>1
      <4> QED BY <1>2, <1>4, <1>7, <4>1 DEF PostsReadTo
    <3>3. At(c, n + i).status = kRefused /\ At(c, n + i).refusal = "kConflictsWithActive"
      <4>1. /\ At(c, n + i).status \in {kAccepted, kRefused}
            /\ At(c, n + i).status = kAccepted => At(c, n + i).refusal = "kNone"
        BY <1>2, <1>4, <1>5, <1>7, <2>3, <3>2 DEF PostsReadTo
      <4> QED BY <1>5, <1>8, <3>1, <4>1
    <3>4. At(b, n + i).resident = m /\ n + i \in Rows(b) /\ At(b, n + i).kind \in PostVerb
      BY <1>4, <1>5, <1>7, <1>8, <2>3
    <3>5. \/ \E s : Stands(b, s, {kAssignWork}, m)
          \/ \E q \in Rows(b) : /\ q # n + i /\ At(b, q).kind \in PostVerb
                                /\ At(b, q).resident = m
          \/ WorkBefore(b, n + i)
      BY <1>2, <3>2, <3>3, <3>4 DEF PostsReadTo
\* Every row of his is one of the two.
    <3>6. ASSUME NEW q \in Rows(a), At(b, q).resident = m
          PROVE  q = n + i \/ q = n + j
      <4>1. CameFrom(world, staged, a, q)
        BY <1>6
      <4>2. At(a, q).resident = m
        BY <1>4, <3>6
      <4>3. CASE q \in Rows(world) /\ SameOrder(At(world, q), At(a, q))
        <5>1. At(world, q).resident = m
          BY <4>2, <4>3 DEF SameOrder
        <5> QED BY <1>3, <1>8, <4>3, <5>1 DEF OnlyTheseTwo, At
      <4>4. ASSUME NEW k \in 1..Len(staged.issued), q = n + k,
                   SameOrder(staged.issued[k], At(a, q))
            PROVE  q = n + i \/ q = n + j
        <5>1. staged.issued[k].resident = m
          BY <4>2, <4>4 DEF SameOrder
        <5>2. k \in {i, j}
          BY <1>3, <1>8, <5>1 DEF OnlyTheseTwo
        <5> QED BY <4>4, <5>2
      <4> QED BY <4>1, <4>3, <4>4 DEF CameFrom, n
    <3>7. At(b, n + j).kind = kAssignWork /\ At(b, n + i).kind = kAppoint
      BY <1>7, <2>3
    <3>8. CASE \E s : Stands(b, s, {kAssignWork}, m)
      <4>1. PICK s : Stands(b, s, {kAssignWork}, m)
        BY <3>8
      <4>2. Stands(a, s, {kAssignWork}, m)
        BY <1>2, <4>1, ClosedIs
      <4>3. Stands(world, s, {kAssignWork}, m)
        BY <1>1, <1>2, <4>2, TakenIs
      <4> QED BY <1>3, <1>8, <4>3 DEF OnlyTheseTwo, Stands, At
    <3>9. CASE \E q \in Rows(b) : /\ q # n + i /\ At(b, q).kind \in PostVerb
                                  /\ At(b, q).resident = m
      BY <1>4, <1>5, <3>6, <3>7, <3>9
    <3>10. CASE WorkBefore(b, n + i)
      <4>1. PICK q \in Rows(b) : /\ q < n + i /\ At(b, q).kind = kAssignWork
                                 /\ At(b, q).resident = m
        BY <3>4, <3>10 DEF WorkBefore
      <4>2. q = n + j
        BY <1>4, <1>5, <3>6, <3>7, <4>1
      <4> QED BY <1>3, <2>1, <4>1, <4>2
    <3> QED BY <3>5, <3>8, <3>9, <3>10
  <2> QED BY <1>5, <1>8, <2>2, <2>3
<1>9. \A k \in DOMAIN staged.issued : v.orders.rows[Len(world.orders.rows) + k] = At(v, n + k)
  BY DEF At, n
<1>10. \A i, j \in DOMAIN staged.issued :
         LET m == staged.issued[i].resident IN
         (/\ i < j /\ staged.issued[j].resident = m /\ Lives(world, m)
          /\ {staged.issued[i].kind, staged.issued[j].kind} = {kAppoint, kAssignWork}
          /\ OnlyTheseTwo(m, i, j))
         => ~(/\ At(v, n + j).status = kAccepted
              /\ At(v, n + i).refusal = "kConflictsWithActive")
  BY <1>8
<1> HIDE DEF n
<1> QED BY <1>9, <1>10 DEF FirstComesFirst, v

\* One man has one answer, and of two answers given at once the first.
THEOREM OrdersStayAnswered == Spec => []OrdersAnswered
<1>1. PostsInv => OrdersAnswered
  BY OneAnswerHolds, FirstComesFirstHolds DEF OrdersAnswered
<1> QED BY <1>1, PostsStaySound, PTL
=============================================================================
