---------------------------- MODULE OrderBookOps -----------------------------
(***************************************************************************)
(* The order book (WorldState::orders, a StateTable of OrderRow) as pure   *)
(* operators: what the engine does to it at the start of a step            *)
(* (StepEngine::ApplyStaged) and what the events slot does to it at the    *)
(* end (EventsSlot::SweepOrderBook).                                       *)
(*                                                                         *)
(* An order row is a record with a `status`, a `refusal` and whatever the  *)
(* module that extends this one needs to know about the order.             *)
(***************************************************************************)
EXTENDS StateTableOps, SequencesExt

kPending   == "pending"
kAccepted  == "accepted"
kActive    == "active"
kDone      == "done"
kRefused   == "refused"
kCancelled == "cancelled"

OrderStatus == {kPending, kAccepted, kActive, kDone, kRefused, kCancelled}
Cancellable == {kPending, kAccepted}
Terminal    == {kDone, kRefused, kCancelled}

-----------------------------------------------------------------------------
\* A cancellation of an id that is gone, or of a row already begun or
\* answered, is silently nothing.
MarkCancelled(book, id) ==
  LET row == FindRow(book, id) IN
  IF row # kNoRow /\ book.rows[row].status \in Cancellable
  THEN [book EXCEPT !.rows[row].status = kCancelled]
  ELSE book

\* mutant: the cancellations first, so one of an order issued in the same
\* batch finds no row
Bug_CancelsFirst(book, issued, cancelled) ==
  FoldLeft(AppendRow, FoldLeft(MarkCancelled, book, cancelled), issued)

\* The batch in its fixed order: issues are appended in arrival order, then
\* the cancellations are marked.
ApplyBatch(book, issued, cancelled) ==
  FoldLeft(MarkCancelled, FoldLeft(AppendRow, book, issued), cancelled)

-----------------------------------------------------------------------------

\* A row still pending after every consumer has looked at it is refused.
Judged(row) ==
  IF row.status = kPending
  THEN [row EXCEPT !.status = kRefused, !.refusal = "kNoConsumer"]
  ELSE row

JudgedBook(book) == [book EXCEPT !.rows = [r \in DOMAIN book.rows |-> Judged(book.rows[r])]]

\* One row of the sweep: an answer, if its status is a terminal one.
Collected(done, entry) ==
  IF entry.answer \in Terminal THEN Append(done, entry) ELSE done

Entries(book) ==
  [r \in DOMAIN book.rows |-> [order |-> book.row_ids[r], answer |-> book.rows[r].status]]

Done(book) == FoldLeft(Collected, <<>>, Entries(book))

\* Removal is by id and after the sweep: a removal moves the last row.
WithoutDone(book) ==
  FoldLeft(RemoveRow, book, [k \in DOMAIN Done(book) |-> Done(book)[k].order])

\* SweepOrderBook: the book it leaves and, in row order, the answers it emits.
SweptBook(book) == WithoutDone(JudgedBook(book))

Answers(book) == Done(JudgedBook(book))
=============================================================================
