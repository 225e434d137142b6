------------------------------- MODULE Session -------------------------------
(***************************************************************************)
(* The boundary session (core_boundary/session.cpp): orders issued and     *)
(* withdrawn between steps, the step that answers them, and the world      *)
(* replaced by a load, with the waiting batch or without it.  Its journal  *)
(* and its stamp are SessionJournal's, its event log is EventLog's.        *)
(*                                                                         *)
(* A step is one action here: StepEngine shows that it is one function of  *)
(* the completed world, the batch and the world's draws.  Of the world     *)
(* this module keeps the tick, the order book and the outbox, and of a     *)
(* consumer only whether it settles a kind at once, lets it wait for the   *)
(* day's close (the posts) or does not exist.                              *)
(***************************************************************************)
EXTENDS OrderBookOps, FiniteSets

CONSTANTS kTicksPerDay,
          Kind,          \* the kinds of order told apart
          DistrictDoor,  \* those the chairman gives from the district
          Waiting,       \* those accepted, and settled at the day's close
          Failing,       \*   of which the second look then refuses these
          Settling,      \* those settled in the step that reads them
          AwayTicks,     \* the ticks the chairman is in the district
          MaxTick,       \* bounds of the model: the last tick completed,
          MaxOrder,      \*   the last order id promised,
          MaxIssued,     \*   the orders of one batch,
          MaxCancelled   \*   its withdrawals

ASSUME KindAssumption ==
  /\ DistrictDoor \subseteq Kind /\ Waiting \subseteq Kind /\ Settling \subseteq Kind
  /\ Waiting \cap Settling = {} /\ Failing \subseteq Waiting

ASSUME BoundAssumption == MaxTick \in Nat /\ MaxOrder \in Nat

VARIABLES world,           \* State(): the completed world
          staged,          \* staged_
          saved            \* what the last save holds: a world and its batch

svars == <<world, staged, saved>>

EmptyBatch == [issued |-> <<>>, cancelled |-> <<>>]

StartWorld == [tick |-> 0, orders |-> EmptyTable, step_events |-> <<>>]

Init ==
  /\ world = StartWorld
  /\ staged = EmptyBatch
  /\ saved = [world |-> StartWorld, staged |-> EmptyBatch]

-----------------------------------------------------------------------------
(* A step.                                                                 *)

DayCloses(tick) == tick % kTicksPerDay = kTicksPerDay - 1

\* RefuseVillageOrdersWhileAway, ahead of every consumer.
Gated(row, tick) ==
  IF tick \in AwayTicks /\ row.status = kPending /\ row.kind \notin DistrictDoor
  THEN [row EXCEPT !.status = kRefused, !.refusal = "kChairmanAway"]
  ELSE row

\* What is checked a second time at the close may be refused there.
Closed(row) ==
  IF row.kind \in Failing
  THEN [row EXCEPT !.status = kRefused, !.refusal = "kNoVacancy"]
  ELSE [row EXCEPT !.status = kDone]

\* A waiting order is settled by a close after the step that read it: the
\* close comes first.
Consumed(row, tick) ==
  CASE row.status = kAccepted /\ DayCloses(tick)      -> Closed(row)
    [] row.status = kPending /\ row.kind \in Waiting  -> [row EXCEPT !.status = kAccepted]
    [] row.status = kPending /\ row.kind \in Settling -> [row EXCEPT !.status = kDone]
    [] OTHER -> row

Read(book, tick) ==
  [book EXCEPT !.rows = [r \in DOMAIN book.rows |-> Consumed(Gated(book.rows[r], tick), tick)]]

StepOf(w, batch) ==
  LET tick == w.tick + 1
      book == Read(ApplyBatch(w.orders, batch.issued, batch.cancelled), tick)
  IN [tick |-> tick, orders |-> SweptBook(book), step_events |-> Answers(book)]

AdvanceStep ==
  /\ world.tick < MaxTick
  /\ world' = StepOf(world, staged)
  /\ staged' = EmptyBatch
  /\ UNCHANGED saved

-----------------------------------------------------------------------------
(* Orders.                                                                 *)

StagedIdBase(w) == w.orders.next_id_value

\* The row as it is staged; `promised` is a history field, the id the caller
\* was told.
StagedRow(kind, promised) ==
  [kind |-> kind, status |-> kPending, refusal |-> "kNone", promised |-> promised]

IsStagedIssue(w, batch, id) ==
  StagedIdBase(w) <= id /\ id < StagedIdBase(w) + Len(batch.issued)

\* mutant: the id promised counts the standing rows, not the counter
Bug_PromiseByRows(w, batch) == Len(w.orders.rows) + Len(batch.issued) + 1

Promise(w, batch) == StagedIdBase(w) + Len(batch.issued)

IssueOrder(kind) ==
  LET promised == Promise(world, staged) IN
  /\ Len(staged.issued) < MaxIssued
  /\ StagedIdBase(world) + Len(staged.issued) <= MaxOrder
  /\ staged' = [staged EXCEPT !.issued = Append(@, StagedRow(kind, promised))]
  /\ UNCHANGED <<world, saved>>

\* An id of the book may be withdrawn until work on it began, one of the batch
\* always; any other is refused, and nothing is staged.
MayCancel(w, batch, id) ==
  LET row == FindRow(w.orders, id) IN
  IF row # kNoRow THEN w.orders.rows[row].status \in Cancellable
  ELSE IsStagedIssue(w, batch, id)

WithCancelled(batch, id) == [batch EXCEPT !.cancelled = Append(@, id)]

CancelOrder(id) ==
  /\ MayCancel(world, staged, id)
  /\ Len(staged.cancelled) < MaxCancelled
  /\ staged' = WithCancelled(staged, id)
  /\ UNCHANGED <<world, saved>>

-----------------------------------------------------------------------------
(* The save and the load.                                                  *)

\* The presentation writes State() and StagedBatch(); the outbox is not
\* written.
Save ==
  /\ saved' = [world |-> [world EXCEPT !.step_events = <<>>], staged |-> staged]
  /\ UNCHANGED <<world, staged>>

Replaced(w, batch) ==
  /\ world' = w
  /\ staged' = batch
  /\ UNCHANGED saved

ReplaceWorld == Replaced(saved.world, EmptyBatch)

\* The caller asks BatchBelongsTo, which a save's own batch always passes.
ReplaceWorldWithBatch == Replaced(saved.world, saved.staged)

Next ==
  \/ AdvanceStep
  \/ \E kind \in Kind : IssueOrder(kind)
  \/ \E id \in 1..MaxOrder : CancelOrder(id)
  \/ Save
  \/ ReplaceWorld
  \/ ReplaceWorldWithBatch

Spec == Init /\ [][Next]_svars

-----------------------------------------------------------------------------
Row == [kind : Kind, status : {kPending, kAccepted}, refusal : {"kNone"}, promised : 1..MaxOrder]

TypeOK ==
  /\ world.tick \in 0..MaxTick
  /\ world.orders.rows \in Seq([kind : Kind, status : {kAccepted}, refusal : {"kNone"},
                                promised : 1..MaxOrder])
  /\ world.orders.row_ids \in Seq(1..MaxOrder)
  /\ world.step_events \in Seq([order : 1..MaxOrder, answer : Terminal])
  /\ staged.issued \in Seq(Row) /\ staged.cancelled \in Seq(1..MaxOrder)

\* The id told at the moment of issue is the id the row carries for as long as
\* it stands (order_state.h, THE ONE APPENDER), through other orders, other
\* withdrawals, the sweep's swaps and a save taken with the batch waiting.
PromiseKept ==
  /\ \A r \in DOMAIN world.orders.rows : world.orders.rows[r].promised = world.orders.row_ids[r]
  /\ \A k \in DOMAIN staged.issued : staged.issued[k].promised = StagedIdBase(world) + k - 1

LifeOf(w, batch) ==
  [id \in 1..MaxOrder |->
     IF FindRow(w.orders, id) # kNoRow THEN "standing"
     ELSE IF id < StagedIdBase(w) THEN "gone"
     ELSE IF IsStagedIssue(w, batch, id) THEN "promised" ELSE "none"]

RevokedBy(batch) == {batch.cancelled[k] : k \in DOMAIN batch.cancelled}

Protocol == INSTANCE OrderProtocol
              WITH Id      <- 1..MaxOrder,
                   life    <- LifeOf(world, staged),
                   revoked <- RevokedBy(staged),
                   answers <- world.step_events,
                   kept    <- [life    |-> LifeOf(saved.world, saved.staged),
                               revoked |-> RevokedBy(saved.staged)]

\* Every order is answered once, a withdrawal accepted is always the answer,
\* nothing leaves the book in silence and nothing answered stays in it.
ImplementsOrderProtocol == Protocol!Spec
=============================================================================
