---------------------------- MODULE EventReaders -----------------------------
(***************************************************************************)
(* What the session promises the readers of its events                     *)
(* (core_boundary/session.h, events): each has a queue of its own, filled  *)
(* by every step and emptied by nobody else, which holds the newest        *)
(* event_log_held_limit events; what it could not hold is counted.  There  *)
(* is no shared log here, no position and no trimming.                     *)
(***************************************************************************)
EXTENDS Integers, Sequences

CONSTANTS Outbox,               \* the sequences of events a step may emit
          event_log_held_limit

VARIABLES queue,   \* reader -> the events it has yet to acknowledge
          lost,    \* reader -> how many it was carried past
          issued   \* the ids handed out so far are 1..issued; 0 is the default reader

vars == <<queue, lost, issued>>

Default == 0

Surplus(q) == IF Len(q) > event_log_held_limit THEN Len(q) - event_log_held_limit ELSE 0

Newest(q) == SubSeq(q, Surplus(q) + 1, Len(q))

Init ==
  /\ queue = [r \in {Default} |-> <<>>]
  /\ lost = [r \in {Default} |-> 0]
  /\ issued = 0

Emit ==
  \E outbox \in Outbox :
    /\ queue' = [r \in DOMAIN queue |-> Newest(queue[r] \o outbox)]
    /\ lost' = [r \in DOMAIN queue |-> lost[r] + Surplus(queue[r] \o outbox)]
    /\ UNCHANGED issued

Acknowledge ==
  \E r \in DOMAIN queue : \E count \in 0..Len(queue[r]) :
    /\ queue' = [queue EXCEPT ![r] = SubSeq(@, count + 1, Len(@))]
    /\ UNCHANGED <<lost, issued>>

Open ==
  /\ issued' = issued + 1
  /\ queue' = [r \in DOMAIN queue \cup {issued'} |-> IF r = issued' THEN <<>> ELSE queue[r]]
  /\ lost' = [r \in DOMAIN queue \cup {issued'} |-> IF r = issued' THEN 0 ELSE lost[r]]

Close ==
  \E r \in DOMAIN queue \ {Default} :
    /\ queue' = [other \in DOMAIN queue \ {r} |-> queue[other]]
    /\ lost' = [other \in DOMAIN queue \ {r} |-> lost[other]]
    /\ UNCHANGED issued

Replace ==
  /\ queue' = [r \in DOMAIN queue |-> <<>>]
  /\ lost' = [r \in DOMAIN queue |-> 0]
  /\ UNCHANGED issued

Next == Emit \/ Acknowledge \/ Open \/ Close \/ Replace

Spec == Init /\ [][Next]_vars
=============================================================================
