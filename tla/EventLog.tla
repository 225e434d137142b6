------------------------------ MODULE EventLog -------------------------------
(***************************************************************************)
(* The session's event log and its readers (core_boundary/session.cpp).    *)
(*                                                                         *)
(* One log for all readers: `events` is what is held, `log_origin` the     *)
(* stream position of its first event, and a reader is an absolute         *)
(* position in the stream.  The front is trimmed to the slowest reader,    *)
(* and after a step no reader is left more than event_log_held_limit       *)
(* events behind.  What a step emits is the simulation's affair and is     *)
(* any sequence of events here.                                            *)
(***************************************************************************)
EXTENDS Integers, Sequences

CONSTANTS Event,                 \* SimEvent
          event_log_held_limit,  \* SessionConfig's, refused by CreateSession when 0
          MaxStream,             \* bounds of the model: the stream's length and
          MaxReader,             \*   the readers opened
          MaxOutbox              \*   and the events of one step

ASSUME LimitAssumption == event_log_held_limit \in Nat \ {0}
ASSUME BoundAssumption == MaxStream \in Nat /\ MaxReader \in Nat /\ MaxOutbox \in Nat

VARIABLES events,         \* events_
          log_origin,     \* log_origin_
          cursor,         \* default_cursor_ and the cursor of each of readers_
          lost,           \* default_lost_ and the lost of each of readers_
          next_reader_id  \* next_reader_id_

lvars == <<events, log_origin, cursor, lost, next_reader_id>>

Default == 0                     \* the reader that has no id and is never closed
Open    == DOMAIN cursor
Outbox  == UNION {[1..n -> Event] : n \in 0..MaxOutbox}

Init ==
  /\ events = <<>>
  /\ log_origin = 0
  /\ cursor = [r \in {Default} |-> 0]
  /\ lost = [r \in {Default} |-> 0]
  /\ next_reader_id = 1

-----------------------------------------------------------------------------
EndOf(log) == log_origin + Len(log)
LogEnd     == EndOf(events)

Window(r) == SubSeq(events, cursor[r] - log_origin + 1, Len(events))

Slowest(positions) ==
  CHOOSE p \in {positions[r] : r \in DOMAIN positions} :
    \A r \in DOMAIN positions : p <= positions[r]

TrimToSlowestReader(log, positions) ==
  /\ events' = SubSeq(log, Slowest(positions) - log_origin + 1, Len(log))
  /\ log_origin' = Slowest(positions)

OldestKept(log) == EndOf(log) - event_log_held_limit

\* mutant: what a reader was carried past is noted anew each time
Bug_LostAnew(log, r) == IF cursor[r] < OldestKept(log) THEN OldestKept(log) - cursor[r] ELSE lost[r]

LostBy(log, r) ==
  IF cursor[r] < OldestKept(log) THEN lost[r] + (OldestKept(log) - cursor[r]) ELSE lost[r]

CarriedTo(log, r) == IF cursor[r] < OldestKept(log) THEN OldestKept(log) ELSE cursor[r]

\* No reader holds more than the limit.  While the whole stream fits, nobody
\* can be over it, and the log is left alone.
HoldTheLogLimit(log) ==
  IF EndOf(log) <= event_log_held_limit
  THEN events' = log /\ UNCHANGED <<log_origin, cursor, lost>>
  ELSE /\ cursor' = [r \in Open |-> CarriedTo(log, r)]
       /\ lost' = [r \in Open |-> LostBy(log, r)]
       /\ TrimToSlowestReader(log, cursor')

-----------------------------------------------------------------------------
\* A step drains its outbox into the log, and then the limit is held.
Step(outbox) ==
  /\ LogEnd + Len(outbox) <= MaxStream
  /\ HoldTheLogLimit(events \o outbox)
  /\ UNCHANGED next_reader_id

\* A count above the window's size acknowledges the whole window.
AdvancedCursor(position, count) ==
  IF count < LogEnd - position THEN position + count ELSE LogEnd

AcknowledgeEvents(r, count) ==
  /\ cursor' = [cursor EXCEPT ![r] = AdvancedCursor(@, count)]
  /\ TrimToSlowestReader(events, cursor')
  /\ UNCHANGED <<lost, next_reader_id>>

OpenEventReader ==
  LET id == next_reader_id IN
  /\ id <= MaxReader
  /\ cursor' = [r \in Open \cup {id} |-> IF r = id THEN LogEnd ELSE cursor[r]]
  /\ lost' = [r \in Open \cup {id} |-> IF r = id THEN 0 ELSE lost[r]]
  /\ next_reader_id' = id + 1
  /\ UNCHANGED <<events, log_origin>>

\* mutant: what only the closed reader was holding is not freed
Bug_Closed(r) ==
  /\ cursor' = [other \in Open \ {r} |-> cursor[other]]
  /\ lost' = [other \in Open \ {r} |-> lost[other]]
  /\ UNCHANGED <<events, log_origin, next_reader_id>>

CloseEventReader(r) ==
  /\ cursor' = [other \in Open \ {r} |-> cursor[other]]
  /\ lost' = [other \in Open \ {r} |-> lost[other]]
  /\ TrimToSlowestReader(events, cursor')
  /\ UNCHANGED next_reader_id

\* The readers are subscriptions: they stay open, at the start of an empty log.
ReplaceWorld ==
  /\ events' = <<>>
  /\ log_origin' = 0
  /\ cursor' = [r \in Open |-> 0]
  /\ lost' = [r \in Open |-> 0]
  /\ UNCHANGED next_reader_id

Next ==
  \/ \E outbox \in Outbox : Step(outbox)
  \/ \E r \in Open : \E count \in 0..(event_log_held_limit + 1) : AcknowledgeEvents(r, count)
  \/ OpenEventReader
  \/ \E r \in Open \ {Default} : CloseEventReader(r)
  \/ ReplaceWorld

Spec == Init /\ [][Next]_lvars

-----------------------------------------------------------------------------
TypeOK ==
  /\ events \in Seq(Event)
  /\ log_origin \in Nat
  /\ next_reader_id \in Nat \ {0}
  /\ Default \in Open
  /\ Open \subseteq 0..(next_reader_id - 1)
  /\ cursor \in [Open -> Nat]
  /\ lost \in [Open -> Nat]

\* What WindowOf asserts: no event was freed while a reader still needed it,
\* and no reader is ahead of the stream.
CursorsWithin == \A r \in Open : log_origin <= cursor[r] /\ cursor[r] <= LogEnd

\* Nothing is held that nobody needs, whoever acknowledged, was carried
\* forward or was closed last.
HeldForSomeone == \E r \in Open : cursor[r] = log_origin

\* Between calls the log holds no more than the limit, whatever its readers do.
HeldWithinLimit == Len(events) <= event_log_held_limit

\* Whatever is held some reader still needs, and it is within the limit: a
\* closing, an acknowledgement and the limit all trim the front there and then.
HeldRight == HeldForSomeone /\ HeldWithinLimit

Readers == INSTANCE EventReaders
             WITH queue  <- [r \in Open |-> Window(r)],
                  lost   <- lost,
                  issued <- next_reader_id - 1

\* The shared, trimmed log is to each reader a queue of its own: it sees every
\* event once and in order, or finds it counted among the lost.
ImplementsEventReaders == Readers!Spec
=============================================================================
