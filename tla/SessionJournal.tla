--------------------------- MODULE SessionJournal ----------------------------
(***************************************************************************)
(* The session's record of what was asked of it: the journal of issues and *)
(* withdrawals, the sequence numbers of its entries and the serial of the  *)
(* stamp (core_boundary/session.cpp).  Every action is an action of        *)
(* Session and what it does to these three.                                *)
(***************************************************************************)
EXTENDS Session

CONSTANT MaxJournal      \* bound of the model: the entries the journal is let grow to

VARIABLES serial,          \* serial_, of the stamp
          batch_sequence,  \* batch_sequence_
          journal,         \* journal_
          origin           \* history: where a replay of the journal begins

jvars == <<world, staged, saved, serial, batch_sequence, journal, origin>>

JournalInit ==
  /\ Init
  /\ serial = 0
  /\ batch_sequence = 0
  /\ journal = <<>>
  /\ origin = [world |-> StartWorld, staged |-> EmptyBatch, entry |-> 1]

JournaledStep ==
  /\ AdvanceStep
  /\ serial' = serial + 1
  /\ batch_sequence' = 0
  /\ UNCHANGED <<journal, origin>>

\* mutant: an entry names the step that will read it, not the tick it was
\* made at
Bug_TickOfStep(verb, kind, id) ==
  [tick |-> world.tick + 1, sequence |-> batch_sequence,
   verb |-> verb, kind |-> kind, order_id |-> id]

Entry(verb, kind, id) ==
  [tick |-> world.tick, sequence |-> batch_sequence,
   verb |-> verb, kind |-> kind, order_id |-> id]

Record(verb, kind, id) ==
  /\ Len(journal) < MaxJournal
  /\ journal' = Append(journal, Entry(verb, kind, id))
  /\ batch_sequence' = batch_sequence + 1
  /\ UNCHANGED <<serial, origin>>

JournaledIssue(kind) ==
  /\ IssueOrder(kind)
  /\ Record("issue", kind, Promise(world, staged))

JournaledCancel(id) ==
  /\ CancelOrder(id)
  /\ Record("cancel", "none", id)

TakeJournal ==
  /\ journal' = <<>>
  /\ origin' = [world |-> world, staged |-> staged, entry |-> 1]
  /\ UNCHANGED <<world, staged, saved, serial, batch_sequence>>

JournaledSave == Save /\ UNCHANGED <<serial, batch_sequence, journal, origin>>

\* The journal stays as it is, the carried batch is not entered in it, and a
\* replay across a load is the caller's to cut: it begins here.
Resumed ==
  /\ serial' = 0
  /\ batch_sequence' = 0
  /\ origin' = [world |-> world', staged |-> staged', entry |-> Len(journal) + 1]
  /\ UNCHANGED journal

JournaledReplace == (ReplaceWorld \/ ReplaceWorldWithBatch) /\ Resumed

JournalNext ==
  \/ JournaledStep
  \/ \E kind \in Kind : JournaledIssue(kind)
  \/ \E id \in 1..MaxOrder : JournaledCancel(id)
  \/ TakeJournal
  \/ JournaledSave
  \/ JournaledReplace

JournalSpec == JournalInit /\ [][JournalNext]_jvars

-----------------------------------------------------------------------------
\* One entry done again by whoever replays: advance to its tick, then issue or
\* cancel through the session.
Advanced(s, step) == [world |-> StepOf(s.world, s.staged), staged |-> EmptyBatch]

AdvancedTo(s, tick) ==
  FoldLeft(Advanced, s, [step \in 1..(tick - s.world.tick) |-> step])

Redone(s, entry) ==
  LET at == AdvancedTo(s, entry.tick) IN
  IF entry.verb = "issue"
  THEN [at EXCEPT !.staged.issued = Append(@, StagedRow(entry.kind, Promise(at.world, at.staged)))]
  ELSE IF MayCancel(at.world, at.staged, entry.order_id)
       THEN [at EXCEPT !.staged = WithCancelled(@, entry.order_id)]
       ELSE at

\* The journal done again, from the save it was kept beside or the load it was
\* cut at, gives this world and this batch, whatever was withdrawn and
\* whichever step took it (session.h, JournalEntry).
Replayable ==
  LET entries == SubSeq(journal, origin.entry, Len(journal))
      start   == [world |-> origin.world, staged |-> origin.staged]
      again   == AdvancedTo(FoldLeft(Redone, start, entries), world.tick)
  IN again.world = world /\ again.staged = staged
=============================================================================
