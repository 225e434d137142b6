--------------------------- MODULE EventLogProofs ----------------------------
(***************************************************************************)
(* The event log, for any number of readers and events and any limit: the  *)
(* assertion of WindowOf, the two bounds on what is held, and that every   *)
(* reader has a queue of its own.  Then the fast-forward over the log: it  *)
(* is the log's specification with a clock and a loop, so the log's        *)
(* results are its own, and it stops where it says it does for every limit *)
(* of the log.                                                             *)
(*                                                                         *)
(* Everything is said of what is left of a sequence behind a position,     *)
(* From(s, d): a window is From(events, cursor - log_origin), trimming and *)
(* acknowledging are From, and From of From is From.                       *)
(***************************************************************************)
EXTENDS FastForward, SequenceTheorems, FiniteSetTheorems, WellFoundedInduction, TLAPS

From(s, d) == SubSeq(s, d + 1, Len(s))

-----------------------------------------------------------------------------
(* Sequences.                                                              *)

\* The members of what is left.
LEMMA FromFacts ==
  ASSUME NEW S, NEW s \in Seq(S), NEW d \in 0..Len(s)
  PROVE  /\ From(s, d) \in Seq(S)
         /\ Len(From(s, d)) = Len(s) - d
         /\ \A i \in 1..(Len(s) - d) : From(s, d)[i] = s[d + i]
<1>1. Len(s) \in Nat /\ \A i \in (d + 1)..Len(s) : s[i] \in S
  BY LenProperties, ElementOfSeq
<1>2. /\ SubSeq(s, d + 1, Len(s)) \in Seq(S)
      /\ Len(SubSeq(s, d + 1, Len(s))) = IF d + 1 <= Len(s) THEN Len(s) - (d + 1) + 1 ELSE 0
      /\ \A i \in 1..(Len(s) - (d + 1) + 1) : SubSeq(s, d + 1, Len(s))[i] = s[(d + 1) + i - 1]
  <2>1. d + 1 \in Int /\ Len(s) \in Int
    BY <1>1
  <2> QED BY <1>1, <2>1, SubSeqProperties
<1>3. IF d + 1 <= Len(s) THEN Len(s) - (d + 1) + 1 = Len(s) - d ELSE Len(s) - d = 0
  BY <1>1
<1>4. \A i \in 1..(Len(s) - d) : i \in 1..(Len(s) - (d + 1) + 1) /\ (d + 1) + i - 1 = d + i
  BY <1>1
<1> QED BY <1>1, <1>2, <1>3, <1>4 DEF From

\* Dropping twice is dropping once.
LEMMA FromFrom ==
  ASSUME NEW S, NEW s \in Seq(S), NEW d \in 0..Len(s), NEW e \in 0..(Len(s) - d)
  PROVE  From(From(s, d), e) = From(s, d + e)
<1>1. Len(s) \in Nat
  BY LenProperties
<1>2. /\ From(s, d) \in Seq(S) /\ Len(From(s, d)) = Len(s) - d
      /\ \A i \in 1..(Len(s) - d) : From(s, d)[i] = s[d + i]
  BY FromFacts
<1>3. e \in 0..Len(From(s, d)) /\ d + e \in 0..Len(s)
  BY <1>1, <1>2
<1>4. /\ From(From(s, d), e) \in Seq(S) /\ Len(From(From(s, d), e)) = Len(s) - d - e
      /\ \A i \in 1..(Len(s) - d - e) : From(From(s, d), e)[i] = From(s, d)[e + i]
  BY <1>2, <1>3, FromFacts, SMTT(30)
<1>5. /\ From(s, d + e) \in Seq(S) /\ Len(From(s, d + e)) = Len(s) - (d + e)
      /\ \A i \in 1..(Len(s) - (d + e)) : From(s, d + e)[i] = s[(d + e) + i]
  BY <1>3, FromFacts
<1>6. \A i \in 1..(Len(s) - d - e) : From(From(s, d), e)[i] = From(s, d + e)[i]
  <2> TAKE i \in 1..(Len(s) - d - e)
  <2>1. e + i \in 1..(Len(s) - d) /\ i \in 1..(Len(s) - (d + e)) /\ d + (e + i) = (d + e) + i
    BY <1>1
  <2> QED BY <1>2, <1>4, <1>5, <2>1
<1>7. Len(s) - (d + e) = Len(s) - d - e
  BY <1>1
<1> QED BY <1>4, <1>5, <1>6, <1>7, SeqEqual

\* What is appended stays at the end.
LEMMA FromConcat ==
  ASSUME NEW S, NEW s \in Seq(S), NEW t \in Seq(S), NEW d \in 0..Len(s)
  PROVE  From(s \o t, d) = From(s, d) \o t
<1>1. Len(s) \in Nat /\ Len(t) \in Nat
  BY LenProperties
<1>2. /\ s \o t \in Seq(S) /\ Len(s \o t) = Len(s) + Len(t)
      /\ \A i \in 1..(Len(s) + Len(t)) : (s \o t)[i] = IF i <= Len(s) THEN s[i] ELSE t[i - Len(s)]
  BY ConcatProperties
<1>3. /\ From(s, d) \in Seq(S) /\ Len(From(s, d)) = Len(s) - d
      /\ \A i \in 1..(Len(s) - d) : From(s, d)[i] = s[d + i]
  BY FromFacts
<1>4. d \in 0..Len(s \o t)
  BY <1>1, <1>2
<1>5. /\ From(s \o t, d) \in Seq(S) /\ Len(From(s \o t, d)) = Len(s) + Len(t) - d
      /\ \A i \in 1..(Len(s) + Len(t) - d) : From(s \o t, d)[i] = (s \o t)[d + i]
  <2> DEFINE u == s \o t
  <2>1. u \in Seq(S) /\ Len(u) = Len(s) + Len(t) /\ d \in 0..Len(u)
    BY <1>2, <1>4
  <2> HIDE DEF u
  <2>2. /\ From(u, d) \in Seq(S) /\ Len(From(u, d)) = Len(u) - d
        /\ \A i \in 1..(Len(u) - d) : From(u, d)[i] = u[d + i]
    BY <2>1, FromFacts
  <2>3. /\ From(u, d) \in Seq(S) /\ Len(From(u, d)) = Len(s) + Len(t) - d
        /\ \A i \in 1..(Len(s) + Len(t) - d) : From(u, d)[i] = u[d + i]
    BY <2>1, <2>2
  <2> QED BY <2>3 DEF u
<1>6. /\ From(s, d) \o t \in Seq(S) /\ Len(From(s, d) \o t) = (Len(s) - d) + Len(t)
      /\ \A i \in 1..((Len(s) - d) + Len(t)) :
           (From(s, d) \o t)[i] = IF i <= Len(s) - d THEN From(s, d)[i] ELSE t[i - (Len(s) - d)]
  <2> DEFINE u == From(s, d)
  <2>1. u \in Seq(S) /\ Len(u) = Len(s) - d
    BY <1>3
  <2> HIDE DEF u
  <2>2. /\ u \o t \in Seq(S) /\ Len(u \o t) = Len(u) + Len(t)
        /\ \A i \in 1..(Len(u) + Len(t)) :
             (u \o t)[i] = IF i <= Len(u) THEN u[i] ELSE t[i - Len(u)]
    BY <2>1, ConcatProperties
  <2>3. /\ u \o t \in Seq(S) /\ Len(u \o t) = (Len(s) - d) + Len(t)
        /\ \A i \in 1..((Len(s) - d) + Len(t)) :
             (u \o t)[i] = IF i <= Len(s) - d THEN u[i] ELSE t[i - (Len(s) - d)]
    BY <2>1, <2>2
  <2> QED BY <2>3 DEF u
<1>7. \A i \in 1..(Len(s) + Len(t) - d) : From(s \o t, d)[i] = (From(s, d) \o t)[i]
  <2> TAKE i \in 1..(Len(s) + Len(t) - d)
  <2>1. /\ d + i \in 1..(Len(s) + Len(t)) /\ i \in 1..((Len(s) - d) + Len(t))
        /\ (i <= Len(s) - d) <=> (d + i <= Len(s))
        /\ i <= Len(s) - d => i \in 1..(Len(s) - d)
        /\ i - (Len(s) - d) = (d + i) - Len(s)
    BY <1>1
  <2> QED BY <1>2, <1>3, <1>5, <1>6, <2>1
<1>8. (Len(s) - d) + Len(t) = Len(s) + Len(t) - d
  BY <1>1
<1> QED BY <1>5, <1>6, <1>7, <1>8, SeqEqual

\* Nothing dropped, everything dropped.
LEMMA FromEnds ==
  ASSUME NEW S, NEW s \in Seq(S)
  PROVE  From(s, 0) = s /\ From(s, Len(s)) = <<>>
<1>1. Len(s) \in Nat
  BY LenProperties
<1>2. SubSeq(s, 0 + 1, Len(s)) = s
  BY SubSeqFull
<1>3. SubSeq(s, Len(s) + 1, Len(s)) = <<>>
  BY <1>1, SubSeqEmpty
<1> QED BY <1>2, <1>3 DEF From

-----------------------------------------------------------------------------
(* The slowest reader.                                                     *)

\* A set of positions has a least one.
LEMMA LeastOf ==
  ASSUME NEW T \in SUBSET Nat, T # {}
  PROVE  \E m \in T : \A n \in T : m <= n
<1> DEFINE Below(n) == 0..(n - 1)
           B == {Below(n) : n \in T}
<1>1. \A n \in T : IsFiniteSet(Below(n)) /\ Below(n) \in SUBSET Nat
  <2> TAKE n \in T
  <2>1. n - 1 \in Int /\ 0 \in Int
    OBVIOUS
  <2>2. IsFiniteSet(0..(n - 1))
    BY <2>1, FS_Interval
  <2> QED BY <2>2
<1>2. B \subseteq FiniteSubsetsOf(Nat) /\ B # {}
  BY <1>1 DEF FiniteSubsetsOf
<1>3. IsWellFoundedOn(StrictSubsetOrdering(Nat), FiniteSubsetsOf(Nat))
  BY FS_StrictSubsetOrderingWellFounded
<1> HIDE DEF B
<1>4. PICK x \in B : \A y \in B : ~(<<y, x>> \in StrictSubsetOrdering(Nat))
  BY <1>2, <1>3, WFMin
<1> USE DEF B
<1>5. PICK m \in T : x = Below(m)
  BY <1>4
<1>6. \A n \in T : m <= n
  <2> SUFFICES ASSUME NEW n \in T, ~(m <= n)
               PROVE  FALSE
    OBVIOUS
  <2>1. n \in Nat /\ m \in Nat /\ n < m
    OBVIOUS
  <2>2. Below(n) \subseteq Below(m) /\ n \in Below(m) /\ n \notin Below(n)
    BY <2>1
  <2>3. <<Below(n), Below(m)>> \in StrictSubsetOrdering(Nat)
    BY <1>1, <2>2 DEF StrictSubsetOrdering
  <2>4. Below(n) \in B
    OBVIOUS
  <2> QED BY <1>4, <1>5, <2>3, <2>4
<1> QED BY <1>6

\* TrimToSlowestReader's loop finds a reader no other is behind.
LEMMA SlowestIsLeast ==
  ASSUME NEW D, D # {}, NEW positions \in [D -> Nat]
  PROVE  /\ \E r \in D : positions[r] = Slowest(positions)
         /\ \A r \in D : Slowest(positions) <= positions[r]
         /\ Slowest(positions) \in Nat
<1> DEFINE T == {positions[r] : r \in DOMAIN positions}
<1>1. DOMAIN positions = D /\ T \in SUBSET Nat /\ T # {}
  OBVIOUS
<1>2. \E m \in T : \A n \in T : m <= n
  BY <1>1, LeastOf
<1>3. \E p \in T : \A r \in DOMAIN positions : p <= positions[r]
  BY <1>2
<1>4. Slowest(positions) \in T /\ \A r \in DOMAIN positions : Slowest(positions) <= positions[r]
  BY <1>3 DEF Slowest
<1> QED BY <1>1, <1>4

-----------------------------------------------------------------------------
(* The log.                                                                *)

\* Trimming changes no reader's window, ends where the log ended, and leaves
\* some reader at the front.
LEMMA Trimmed ==
  ASSUME log_origin \in Nat,
         NEW log \in Seq(Event), NEW D, D # {}, NEW positions \in [D -> Nat],
         \A r \in D : log_origin <= positions[r] /\ positions[r] <= log_origin + Len(log),
         TrimToSlowestReader(log, positions)
  PROVE  /\ events' \in Seq(Event) /\ log_origin' \in Nat
         /\ log_origin' + Len(events') = log_origin + Len(log)
         /\ \A r \in D : log_origin' <= positions[r]
         /\ \E r \in D : positions[r] = log_origin'
         /\ \A r \in D : From(events', positions[r] - log_origin') = From(log, positions[r] - log_origin)
<1> DEFINE p == Slowest(positions)
<1>1. p \in Nat /\ (\A r \in D : p <= positions[r]) /\ \E r \in D : positions[r] = p
  BY SlowestIsLeast
<1>2. events' = SubSeq(log, p - log_origin + 1, Len(log)) /\ log_origin' = p
  BY DEF TrimToSlowestReader
<1> HIDE DEF p
<1>3. Len(log) \in Nat
  BY LenProperties
<1>4. p - log_origin \in 0..Len(log)
  BY <1>1, <1>3
<1>5. events' = From(log, p - log_origin)
  BY <1>2 DEF From
<1>6. events' \in Seq(Event) /\ Len(events') = Len(log) - (p - log_origin)
  BY <1>4, <1>5, FromFacts
<1>7. \A r \in D : From(events', positions[r] - p) = From(log, positions[r] - log_origin)
  <2> TAKE r \in D
  <2>1. /\ positions[r] - p \in 0..(Len(log) - (p - log_origin))
        /\ (p - log_origin) + (positions[r] - p) = positions[r] - log_origin
    BY <1>1, <1>3
  <2>2. From(From(log, p - log_origin), positions[r] - p) =
          From(log, (p - log_origin) + (positions[r] - p))
    BY <1>4, <2>1, FromFrom
  <2> QED BY <1>5, <2>1, <2>2
<1> QED BY <1>1, <1>2, <1>3, <1>6, <1>7

Inv == TypeOK /\ CursorsWithin /\ HeldForSomeone /\ HeldWithinLimit

\* What Inv says of the numbers, written without the log's operators.
LEMMA InvFacts ==
  ASSUME Inv
  PROVE  /\ events \in Seq(Event) /\ Len(events) \in Nat /\ log_origin \in Nat
         /\ cursor \in [Open -> Nat] /\ lost \in [Open -> Nat] /\ Default \in Open
         /\ next_reader_id \in Nat \ {0} /\ Open \subseteq 0..(next_reader_id - 1)
         /\ \A r \in Open : log_origin <= cursor[r] /\ cursor[r] <= log_origin + Len(events)
         /\ \E r \in Open : cursor[r] = log_origin
         /\ Len(events) <= event_log_held_limit
BY LenProperties DEF Inv, TypeOK, CursorsWithin, HeldForSomeone, HeldWithinLimit, LogEnd, EndOf

\* A reader's window, as what is left behind its position.
LEMMA WindowIsFrom ==
  \A r \in Open : Window(r) = From(events, cursor[r] - log_origin)
BY DEF Window, From

\* A window after a step is read by the cursor after it (ReadEvents).
LEMMA WindowIsFromNext ==
  \A r \in Open' : Window(r)' = From(events', cursor'[r] - log_origin')
BY DEF Window, From

\* Inv after a step is Inv of its primed parts.
LEMMA InvNext ==
  ASSUME events' \in Seq(Event), log_origin' \in Nat,
         NEW D, Default \in D, cursor' \in [D -> Nat], lost' \in [D -> Nat],
         next_reader_id' \in Nat \ {0}, D \subseteq 0..(next_reader_id' - 1),
         \A r \in D : log_origin' <= cursor'[r] /\ cursor'[r] <= log_origin' + Len(events'),
         \E r \in D : cursor'[r] = log_origin',
         Len(events') <= event_log_held_limit
  PROVE  Inv' /\ Open' = D
<1>1. Open' = D
  BY DEF Open
<1> QED BY <1>1 DEF Inv, TypeOK, CursorsWithin, HeldForSomeone, HeldWithinLimit, LogEnd, EndOf

\* HoldTheLogLimit: nobody is ahead, nobody is over, and each window is the
\* newest of what it was.
LEMMA Held ==
  ASSUME Inv, NEW log \in Seq(Event), Len(events) <= Len(log),
         HoldTheLogLimit(log), UNCHANGED next_reader_id
  PROVE  /\ Inv' /\ Open' = Open
         /\ \A r \in Open : lost'[r] = LostBy(log, r)
         /\ \A r \in Open : Window(r)' = From(log, CarriedTo(log, r) - log_origin)
<1> USE LimitAssumption
<1>1. /\ events \in Seq(Event) /\ Len(events) \in Nat /\ log_origin \in Nat
      /\ cursor \in [Open -> Nat] /\ lost \in [Open -> Nat] /\ Default \in Open
      /\ next_reader_id \in Nat \ {0} /\ Open \subseteq 0..(next_reader_id - 1)
      /\ \A r \in Open : log_origin <= cursor[r] /\ cursor[r] <= log_origin + Len(events)
      /\ \E r \in Open : cursor[r] = log_origin
  BY InvFacts
<1>2. Len(log) \in Nat /\ Len(events) <= Len(log) /\ event_log_held_limit \in Nat
  BY LenProperties
<1>3. \A r \in Open : /\ cursor[r] \in Nat /\ lost[r] \in Nat
                     /\ log_origin <= cursor[r] /\ cursor[r] <= log_origin + Len(log)
  <2> TAKE r \in Open
  <2>1. cursor[r] \in Nat /\ lost[r] \in Nat
    BY <1>1
  <2>2. log_origin <= cursor[r] /\ cursor[r] <= log_origin + Len(events)
    BY <1>1
  <2> QED BY <1>1, <1>2, <2>1, <2>2
<1> DEFINE kept == log_origin + Len(log) - event_log_held_limit
<1>4. /\ kept \in Int /\ OldestKept(log) = kept
      /\ \A r \in Open : /\ CarriedTo(log, r) = IF cursor[r] < kept THEN kept ELSE cursor[r]
                         /\ LostBy(log, r) = IF cursor[r] < kept THEN lost[r] + (kept - cursor[r]) ELSE lost[r]
  BY <1>1, <1>2 DEF OldestKept, EndOf, CarriedTo, LostBy
<1>5. CASE log_origin + Len(log) <= event_log_held_limit
  <2>1. events' = log /\ log_origin' = log_origin /\ cursor' = cursor /\ lost' = lost
    BY <1>5 DEF HoldTheLogLimit, EndOf
  <2>2. \A r \in Open : ~(cursor[r] < kept)
    <3> TAKE r \in Open
    <3>1. cursor[r] \in Nat /\ kept <= 0
      BY <1>1, <1>2, <1>3, <1>5
    <3> QED BY <1>4, <3>1
  <2>3. Len(log) <= event_log_held_limit
    BY <1>1, <1>2, <1>5
  <2>4. \A r \in Open : cursor[r] <= log_origin + Len(log)
    BY <1>3
  <2>5. Inv' /\ Open' = Open
    BY <1>1, <2>1, <2>3, <2>4, InvNext
  <2>6. \A r \in Open : CarriedTo(log, r) = cursor[r] /\ LostBy(log, r) = lost[r]
    BY <1>4, <2>2
  <2> QED BY <2>1, <2>5, <2>6, WindowIsFromNext
<1>6. CASE ~(log_origin + Len(log) <= event_log_held_limit)
  <2>1. /\ cursor' = [r \in Open |-> CarriedTo(log, r)]
        /\ lost' = [r \in Open |-> LostBy(log, r)]
        /\ TrimToSlowestReader(log, cursor')
    BY <1>6 DEF HoldTheLogLimit, EndOf
  <2>2. kept \in Nat
    BY <1>1, <1>2, <1>6
  <2>3. \A r \in Open : CarriedTo(log, r) \in Nat /\ LostBy(log, r) \in Nat
    BY <1>3, <1>4, <2>2
  <2>4. \A r \in Open : /\ log_origin <= CarriedTo(log, r) /\ kept <= CarriedTo(log, r)
                       /\ CarriedTo(log, r) <= log_origin + Len(log)
    <3> TAKE r \in Open
    <3>1. /\ cursor[r] \in Nat /\ log_origin <= cursor[r] /\ cursor[r] <= log_origin + Len(log)
          /\ kept <= log_origin + Len(log) /\ log_origin \in Nat
      BY <1>1, <1>2, <1>3
    <3>2. CarriedTo(log, r) = IF cursor[r] < kept THEN kept ELSE cursor[r]
      BY <1>4
    <3> HIDE DEF kept
    <3> QED BY <1>2, <2>2, <3>1, <3>2
  <2>5. cursor' \in [Open -> Nat] /\ lost' \in [Open -> Nat]
    BY <2>1, <2>3
  <2>6. \A r \in Open : /\ cursor'[r] = CarriedTo(log, r)
                       /\ log_origin <= cursor'[r] /\ cursor'[r] <= log_origin + Len(log)
    BY <2>1, <2>4
  <2>7. Open # {}
    BY <1>1
  <2>8. /\ events' \in Seq(Event) /\ log_origin' \in Nat
        /\ log_origin' + Len(events') = log_origin + Len(log)
        /\ \A r \in Open : log_origin' <= cursor'[r]
        /\ \E r \in Open : cursor'[r] = log_origin'
        /\ \A r \in Open : From(events', cursor'[r] - log_origin') = From(log, cursor'[r] - log_origin)
    <3>1. \A r \in Open : log_origin <= cursor'[r] /\ cursor'[r] <= log_origin + Len(log)
      BY <2>6
    <3>2. TrimToSlowestReader(log, cursor') /\ log_origin \in Nat
      BY <1>1, <2>1
    <3> DEFINE c == cursor'
    <3>3. c \in [Open -> Nat] /\ TrimToSlowestReader(log, c)
      BY <2>5, <3>2
    <3>4. \A r \in Open : log_origin <= c[r] /\ c[r] <= log_origin + Len(log)
      BY <3>1
    <3> HIDE DEF c
    <3>5. /\ events' \in Seq(Event) /\ log_origin' \in Nat
          /\ log_origin' + Len(events') = log_origin + Len(log)
          /\ \A r \in Open : log_origin' <= c[r]
          /\ \E r \in Open : c[r] = log_origin'
          /\ \A r \in Open : From(events', c[r] - log_origin') = From(log, c[r] - log_origin)
      BY <2>7, <3>2, <3>3, <3>4, Trimmed
    <3> QED BY <3>5 DEF c
  <2>9. kept <= log_origin'
    BY <2>4, <2>6, <2>8
  <2>10. Len(events') \in Nat
    BY <2>8, LenProperties
  <2>11. Len(events') <= event_log_held_limit
    BY <1>1, <1>2, <2>8, <2>9, <2>10
  <2>12. Inv' /\ Open' = Open
    BY <1>1, <2>5, <2>6, <2>8, <2>11, InvNext
  <2> QED BY <2>1, <2>6, <2>8, <2>12, WindowIsFromNext
<1> QED BY <1>5, <1>6

-----------------------------------------------------------------------------
(* The readers' queues.                                                    *)

\* A sequence of events a step may emit is a sequence of events.
LEMMA OutboxIsSeq == ASSUME NEW outbox \in Outbox PROVE outbox \in Seq(Event)
<1>1. PICK n \in 0..MaxOutbox : outbox \in [1..n -> Event]
  BY DEF Outbox
<1>2. n \in Nat
  BY BoundAssumption
<1> QED BY <1>1, <1>2, SeqDef

\* What the abstract queue keeps of a reader's window and a step's events is
\* what the log leaves behind the position the reader is carried to.
LEMMA QueueOf ==
  ASSUME Inv, NEW outbox \in Seq(Event), NEW r \in Open
  PROVE  /\ Readers!Newest(Window(r) \o outbox) =
              From(events \o outbox, CarriedTo(events \o outbox, r) - log_origin)
         /\ lost[r] + Readers!Surplus(Window(r) \o outbox) = LostBy(events \o outbox, r)
<1> USE LimitAssumption
<1> DEFINE log == events \o outbox
           d   == cursor[r] - log_origin
           q   == Window(r) \o outbox
           kept == log_origin + Len(log) - event_log_held_limit
<1>1. /\ events \in Seq(Event) /\ Len(events) \in Nat /\ log_origin \in Nat
      /\ cursor[r] \in Nat /\ lost[r] \in Nat
      /\ log_origin <= cursor[r] /\ cursor[r] <= log_origin + Len(events)
  BY InvFacts
<1>2. /\ log \in Seq(Event) /\ Len(log) = Len(events) + Len(outbox) /\ Len(outbox) \in Nat
  BY <1>1, ConcatProperties, LenProperties
<1>3. d \in 0..Len(events)
  BY <1>1
<1>4. q = From(log, d)
  <2>1. Window(r) = From(events, d)
    BY WindowIsFrom
  <2>2. From(events \o outbox, d) = From(events, d) \o outbox
    BY <1>1, <1>3, FromConcat
  <2> QED BY <2>1, <2>2
<1>5. /\ CarriedTo(log, r) = IF cursor[r] < kept THEN kept ELSE cursor[r]
      /\ LostBy(log, r) = IF cursor[r] < kept THEN lost[r] + (kept - cursor[r]) ELSE lost[r]
  BY <1>1, <1>2 DEF CarriedTo, LostBy, OldestKept, EndOf
<1>6. kept \in Int /\ kept = log_origin + Len(log) - event_log_held_limit /\ kept <= log_origin + Len(log)
  BY <1>1, <1>2
<1> HIDE DEF log, q, kept
<1>7. d \in 0..Len(log) /\ Len(log) \in Nat
  BY <1>1, <1>2, <1>3
<1>8. q \in Seq(Event) /\ Len(q) = Len(log) - d
  BY <1>2, <1>4, <1>7, FromFacts
<1>9. /\ Readers!Surplus(q) = CarriedTo(log, r) - cursor[r]
      /\ lost[r] + Readers!Surplus(q) = LostBy(log, r)
      /\ Readers!Surplus(q) \in 0..(Len(log) - d)
      /\ d + Readers!Surplus(q) = CarriedTo(log, r) - log_origin
  <2>1. Len(q) = log_origin + Len(log) - cursor[r]
    BY <1>1, <1>7, <1>8
  <2>2. Readers!Surplus(q) = IF Len(q) > event_log_held_limit THEN Len(q) - event_log_held_limit ELSE 0
    BY DEF Readers!Surplus
  <2>3. CASE cursor[r] < kept
    <3>1. CarriedTo(log, r) = kept /\ LostBy(log, r) = lost[r] + (kept - cursor[r])
      BY <1>5, <2>3
    <3>2. Len(q) > event_log_held_limit /\ Len(q) - event_log_held_limit = kept - cursor[r]
      BY <1>1, <1>6, <1>7, <2>1, <2>3, SMTT(30)
    <3>3. Readers!Surplus(q) = kept - cursor[r]
      BY <2>2, <3>2
    <3>4. kept - cursor[r] \in 0..(Len(log) - d) /\ d + (kept - cursor[r]) = kept - log_origin
      BY <1>1, <1>6, <1>7, <2>3, SMTT(30)
    <3> QED BY <3>1, <3>3, <3>4
  <2>4. CASE ~(cursor[r] < kept)
    <3>1. CarriedTo(log, r) = cursor[r] /\ LostBy(log, r) = lost[r]
      BY <1>5, <2>4
    <3>2. ~(Len(q) > event_log_held_limit)
      BY <1>1, <1>6, <1>7, <2>1, <2>4, SMTT(30)
    <3>3. Readers!Surplus(q) = 0
      BY <2>2, <3>2
    <3>4. /\ 0 \in 0..(Len(log) - d) /\ d + 0 = cursor[r] - log_origin
          /\ cursor[r] - cursor[r] = 0 /\ lost[r] + 0 = lost[r]
      BY <1>1, <1>7
    <3> QED BY <3>1, <3>3, <3>4
  <2> QED BY <2>3, <2>4
<1>10. Readers!Newest(q) = From(q, Readers!Surplus(q))
  BY DEF Readers!Newest, From
<1>11. From(From(log, d), Readers!Surplus(q)) = From(log, d + Readers!Surplus(q))
  BY <1>2, <1>7, <1>9, FromFrom
<1>12. Readers!Newest(q) = From(log, CarriedTo(log, r) - log_origin)
  BY <1>4, <1>9, <1>10, <1>11
<1> QED BY <1>9, <1>12 DEF log, q

\* A step fills every queue.
LEMMA StepEmits ==
  ASSUME Inv, NEW outbox \in Outbox, Step(outbox)
  PROVE  Inv' /\ Readers!Emit
<1> DEFINE log == events \o outbox
<1>1. outbox \in Seq(Event) /\ events \in Seq(Event) /\ Len(events) \in Nat
  BY OutboxIsSeq, InvFacts
<1>2. log \in Seq(Event) /\ Len(events) <= Len(log)
  BY <1>1, ConcatProperties, LenProperties
<1>3. HoldTheLogLimit(log) /\ next_reader_id' = next_reader_id
  BY DEF Step
<1> HIDE DEF log
<1>4. /\ Inv' /\ Open' = Open
      /\ \A r \in Open : lost'[r] = LostBy(log, r)
      /\ \A r \in Open : Window(r)' = From(log, CarriedTo(log, r) - log_origin)
  BY <1>2, <1>3, Held
<1>5. \A r \in Open : /\ Window(r)' = Readers!Newest(Window(r) \o outbox)
                     /\ lost'[r] = lost[r] + Readers!Surplus(Window(r) \o outbox)
  BY <1>1, <1>4, QueueOf DEF log
<1>6. lost' \in [Open -> Nat]
  BY <1>4 DEF Inv, TypeOK
<1>7. [r \in Open |-> Window(r)]' = [r \in Open |-> Readers!Newest(Window(r) \o outbox)]
  BY <1>4, <1>5
<1>8. lost' = [r \in Open |-> lost[r] + Readers!Surplus(Window(r) \o outbox)]
  BY <1>5, <1>6
<1> QED BY <1>3, <1>4, <1>7, <1>8 DEF Readers!Emit

\* Trimming to positions no reader moved backwards to: Inv holds, and each
\* window is what is left behind the new position.
LEMMA TrimKeeps ==
  ASSUME Inv, NEW D, Default \in D, NEW positions \in [D -> Nat],
         \A r \in D : log_origin <= positions[r] /\ positions[r] <= log_origin + Len(events),
         cursor' = positions, lost' \in [D -> Nat],
         D \subseteq 0..(next_reader_id - 1), UNCHANGED next_reader_id,
         TrimToSlowestReader(events, positions)
  PROVE  /\ Inv' /\ Open' = D
         /\ \A r \in D : Window(r)' = From(events, positions[r] - log_origin)
<1>1. /\ events \in Seq(Event) /\ Len(events) \in Nat /\ log_origin \in Nat
      /\ next_reader_id \in Nat \ {0} /\ Len(events) <= event_log_held_limit
  BY InvFacts
<1>2. D # {}
  OBVIOUS
<1>3. /\ events' \in Seq(Event) /\ log_origin' \in Nat
      /\ log_origin' + Len(events') = log_origin + Len(events)
      /\ \A r \in D : log_origin' <= positions[r]
      /\ \E r \in D : positions[r] = log_origin'
      /\ \A r \in D : From(events', positions[r] - log_origin') = From(events, positions[r] - log_origin)
  BY <1>1, <1>2, Trimmed, ZenonT(60)
<1>4. Len(events') \in Nat /\ log_origin <= log_origin'
  <2>1. PICK r \in D : positions[r] = log_origin'
    BY <1>3
  <2> QED BY <1>3, <2>1, LenProperties
<1>5. Len(events') <= event_log_held_limit
  BY <1>1, <1>3, <1>4, LimitAssumption
<1>6. \A r \in D : log_origin' <= positions[r] /\ positions[r] <= log_origin' + Len(events')
  BY <1>3
<1>7. Inv' /\ Open' = D
  BY <1>1, <1>3, <1>5, <1>6, InvNext
<1> QED BY <1>3, <1>7, WindowIsFromNext

\* A reader that acknowledges shortens its own queue and no other.
LEMMA AcknowledgeShortens ==
  ASSUME Inv, NEW r \in Open, NEW count \in Nat, AcknowledgeEvents(r, count)
  PROVE  Inv' /\ Readers!Acknowledge
<1>1. /\ events \in Seq(Event) /\ Len(events) \in Nat /\ log_origin \in Nat
      /\ cursor \in [Open -> Nat] /\ lost \in [Open -> Nat] /\ Default \in Open
      /\ Open \subseteq 0..(next_reader_id - 1)
      /\ \A o \in Open : log_origin <= cursor[o] /\ cursor[o] <= log_origin + Len(events)
  BY InvFacts
<1>2. cursor[r] \in Nat /\ log_origin <= cursor[r] /\ cursor[r] <= log_origin + Len(events)
  BY <1>1
<1> DEFINE to == AdvancedCursor(cursor[r], count)
           moved == [cursor EXCEPT ![r] = to]
           d == cursor[r] - log_origin
<1>3. to = IF count < log_origin + Len(events) - cursor[r] THEN cursor[r] + count
           ELSE log_origin + Len(events)
  BY <1>1, <1>2 DEF AdvancedCursor, LogEnd, EndOf
<1>4. to \in Nat /\ cursor[r] <= to /\ to <= log_origin + Len(events)
  BY <1>1, <1>2, <1>3, SMTT(30)
<1>5. cursor' = moved /\ TrimToSlowestReader(events, cursor')
      /\ lost' = lost /\ next_reader_id' = next_reader_id
  BY DEF AcknowledgeEvents
<1> HIDE DEF to
<1>6. /\ moved \in [Open -> Nat] /\ moved[r] = to
      /\ \A o \in Open : o # r => moved[o] = cursor[o]
  BY <1>1, <1>4
<1> HIDE DEF moved
<1>7. \A o \in Open : log_origin <= moved[o] /\ moved[o] <= log_origin + Len(events)
  <2> TAKE o \in Open
  <2>1. CASE o = r
    BY <1>1, <1>2, <1>4, <1>6, <2>1
  <2>2. CASE o # r
    BY <1>1, <1>6, <2>2
  <2> QED BY <2>1, <2>2
<1>8. /\ Inv' /\ Open' = Open
      /\ \A o \in Open : Window(o)' = From(events, moved[o] - log_origin)
  BY <1>1, <1>5, <1>6, <1>7, TrimKeeps
<1>9. Window(r) = From(events, d) /\ d \in 0..Len(events)
  BY <1>1, <1>2, WindowIsFrom
<1>10. Len(Window(r)) = Len(events) - d
  BY <1>1, <1>9, FromFacts
<1>11. to - cursor[r] \in 0..Len(Window(r)) /\ d + (to - cursor[r]) = to - log_origin
  BY <1>1, <1>2, <1>4, <1>10, SMTT(30)
<1>12. From(Window(r), to - cursor[r]) = From(events, to - log_origin)
  <2>1. to - cursor[r] \in 0..(Len(events) - d)
    BY <1>10, <1>11
  <2> HIDE DEF d
  <2>2. From(From(events, d), to - cursor[r]) = From(events, d + (to - cursor[r]))
    BY <1>1, <1>9, <2>1, FromFrom
  <2> QED BY <1>9, <1>11, <2>2
<1>13. Window(r)' = SubSeq(Window(r), (to - cursor[r]) + 1, Len(Window(r)))
  BY <1>6, <1>8, <1>12 DEF From
<1>14. \A o \in Open : o # r => Window(o)' = Window(o)
  BY <1>6, <1>8, WindowIsFrom
<1> DEFINE queue == [o \in Open |-> Window(o)]
<1>15. queue' = [queue EXCEPT ![r] = SubSeq(queue[r], (to - cursor[r]) + 1, Len(queue[r]))]
  BY <1>8, <1>13, <1>14
<1>16. r \in DOMAIN queue /\ to - cursor[r] \in 0..Len(queue[r])
  BY <1>11
<1> QED BY <1>5, <1>8, <1>15, <1>16 DEF Readers!Acknowledge

\* A new reader's queue is empty, and the others' are as they were.
LEMMA OpenAdds ==
  ASSUME Inv, OpenEventReader
  PROVE  Inv' /\ Readers!Open
<1> PICK id : id = next_reader_id
  OBVIOUS
<1> DEFINE D == Open \cup {id}
<1>1. /\ events \in Seq(Event) /\ Len(events) \in Nat /\ log_origin \in Nat
      /\ cursor \in [Open -> Nat] /\ lost \in [Open -> Nat] /\ Default \in Open
      /\ next_reader_id \in Nat \ {0} /\ Open \subseteq 0..(next_reader_id - 1)
      /\ \A r \in Open : log_origin <= cursor[r] /\ cursor[r] <= log_origin + Len(events)
      /\ \E r \in Open : cursor[r] = log_origin
      /\ Len(events) <= event_log_held_limit
  BY InvFacts
<1>2. /\ cursor' = [r \in D |-> IF r = id THEN log_origin + Len(events) ELSE cursor[r]]
      /\ lost' = [r \in D |-> IF r = id THEN 0 ELSE lost[r]]
      /\ next_reader_id' = id + 1 /\ events' = events /\ log_origin' = log_origin
  BY DEF OpenEventReader, LogEnd, EndOf
<1>3. id \notin Open
  BY <1>1
<1>4. /\ cursor' \in [D -> Nat] /\ lost' \in [D -> Nat] /\ Default \in D
      /\ next_reader_id' \in Nat \ {0} /\ D \subseteq 0..(next_reader_id' - 1)
  BY <1>1, <1>2
<1>5. /\ cursor'[id] = log_origin + Len(events) /\ id \in D
      /\ \A r \in Open : cursor'[r] = cursor[r] /\ r \in D
  BY <1>2, <1>3
<1>6. \A r \in D : log_origin' <= cursor'[r] /\ cursor'[r] <= log_origin' + Len(events')
  <2> TAKE r \in D
  <2>1. CASE r = id
    BY <1>1, <1>2, <1>5, <2>1
  <2>2. CASE r \in Open
    BY <1>1, <1>2, <1>5, <2>2
  <2> QED BY <2>1, <2>2
<1>7. \E r \in D : cursor'[r] = log_origin'
  BY <1>1, <1>2, <1>5
<1>8. Inv' /\ Open' = D
  BY <1>1, <1>2, <1>4, <1>6, <1>7, InvNext
<1>9. \A r \in Open : Window(r)' = Window(r)
  BY <1>2, <1>5, <1>8, WindowIsFrom, WindowIsFromNext
<1>10. Window(id)' = <<>>
  <2>1. (log_origin + Len(events)) - log_origin = Len(events)
    BY <1>1
  <2>2. From(events, Len(events)) = <<>>
    BY <1>1, FromEnds
  <2>3. Window(id)' = From(events', cursor'[id] - log_origin')
    BY <1>5, <1>8, WindowIsFromNext
  <2> QED BY <1>2, <1>5, <2>1, <2>2, <2>3
<1> DEFINE queue == [r \in Open |-> Window(r)]
<1>11. queue' = [r \in D |-> IF r = id THEN <<>> ELSE queue[r]]
  <2>1. queue' = [r \in D |-> Window(r)']
    BY <1>8
  <2>2. \A r \in D : Window(r)' = IF r = id THEN <<>> ELSE queue[r]
    BY <1>3, <1>9, <1>10
  <2> QED BY <2>1, <2>2
<1>12. (next_reader_id - 1)' = (next_reader_id - 1) + 1 /\ (next_reader_id - 1)' = id
  BY <1>1, <1>2
<1> QED BY <1>2, <1>8, <1>11, <1>12 DEF Readers!Open

\* A reader closed takes its queue with it and no other's.
LEMMA CloseRemoves ==
  ASSUME Inv, NEW r \in Open \ {Default}, CloseEventReader(r)
  PROVE  Inv' /\ Readers!Close
<1> DEFINE D == Open \ {r}
           left == [o \in D |-> cursor[o]]
<1>1. /\ cursor \in [Open -> Nat] /\ lost \in [Open -> Nat] /\ Default \in Open
      /\ Open \subseteq 0..(next_reader_id - 1)
      /\ \A o \in Open : log_origin <= cursor[o] /\ cursor[o] <= log_origin + Len(events)
  BY InvFacts
<1>2. /\ cursor' = left /\ lost' = [o \in D |-> lost[o]]
      /\ TrimToSlowestReader(events, left) /\ next_reader_id' = next_reader_id
  BY DEF CloseEventReader
<1>3. /\ left \in [D -> Nat] /\ lost' \in [D -> Nat] /\ Default \in D
      /\ D \subseteq 0..(next_reader_id - 1)
      /\ \A o \in D : log_origin <= left[o] /\ left[o] <= log_origin + Len(events)
  BY <1>1, <1>2
<1>4. /\ Inv' /\ Open' = D
      /\ \A o \in D : Window(o)' = From(events, left[o] - log_origin)
  BY <1>2, <1>3, TrimKeeps
<1>5. \A o \in D : Window(o)' = Window(o)
  BY <1>4, WindowIsFrom
<1> DEFINE queue == [o \in Open |-> Window(o)]
<1>6. queue' = [o \in D |-> queue[o]]
  <2>1. queue' = [o \in D |-> Window(o)']
    BY <1>4
  <2> QED BY <1>5, <2>1
<1> QED BY <1>2, <1>4, <1>6 DEF Readers!Close, Readers!Default, Default

\* A load empties every queue and closes none.
LEMMA ReplaceEmpties ==
  ASSUME Inv, ReplaceWorld
  PROVE  Inv' /\ Readers!Replace
<1>1. Default \in Open /\ Open \subseteq 0..(next_reader_id - 1) /\ next_reader_id \in Nat \ {0}
  BY InvFacts
<1>2. /\ events' = <<>> /\ log_origin' = 0 /\ next_reader_id' = next_reader_id
      /\ cursor' = [r \in Open |-> 0] /\ lost' = [r \in Open |-> 0]
  BY DEF ReplaceWorld
<1>3. events' \in Seq(Event) /\ Len(events') = 0
  BY <1>2, EmptySeq
<1>4. cursor' \in [Open -> Nat] /\ lost' \in [Open -> Nat] /\ \A r \in Open : cursor'[r] = 0
  BY <1>2
<1>5. Inv' /\ Open' = Open
  <2>1. \A r \in Open : log_origin' <= cursor'[r] /\ cursor'[r] <= log_origin' + Len(events')
    BY <1>2, <1>3, <1>4
  <2>2. Len(events') <= event_log_held_limit
    BY <1>3, LimitAssumption
  <2>3. \E r \in Open : cursor'[r] = log_origin'
    BY <1>1, <1>2, <1>4
  <2> QED BY <1>1, <1>2, <1>3, <1>4, <2>1, <2>2, <2>3, InvNext
<1>6. \A r \in Open : Window(r)' = <<>>
  <2> TAKE r \in Open
  <2>1. Window(r)' = From(events', cursor'[r] - log_origin')
    BY <1>5, WindowIsFromNext
  <2>2. From(<<>>, 0) = <<>>
    BY EmptySeq, FromEnds
  <2>3. cursor'[r] - log_origin' = 0
    BY <1>2, <1>4
  <2> QED BY <1>2, <2>1, <2>2, <2>3
<1> DEFINE queue == [r \in Open |-> Window(r)]
<1>7. queue' = [r \in Open |-> <<>>]
  BY <1>5, <1>6
<1> QED BY <1>2, <1>5, <1>7 DEF Readers!Replace

-----------------------------------------------------------------------------
(* The results.                                                            *)

\* A session opens with an empty log, and with one reader who misses nothing.
LEMMA InitInv == Init => Inv /\ Readers!Init
<1> SUFFICES ASSUME Init PROVE Inv /\ Readers!Init
  OBVIOUS
<1>1. /\ events = <<>> /\ log_origin = 0 /\ next_reader_id = 1 /\ Open = {Default}
      /\ cursor = [r \in {Default} |-> 0] /\ lost = [r \in {Default} |-> 0]
  BY DEF Init, Open
<1>2. events \in Seq(Event) /\ Len(events) = 0
  BY <1>1, EmptySeq
<1>3. Inv
  BY <1>1, <1>2, LimitAssumption
     DEF Inv, TypeOK, CursorsWithin, HeldForSomeone, HeldWithinLimit, LogEnd, EndOf, Default
<1>4. Window(Default) = <<>>
  <2>1. From(<<>>, 0) = <<>>
    BY EmptySeq, FromEnds
  <2>2. Window(Default) = From(events, cursor[Default] - log_origin)
    BY <1>1, WindowIsFrom
  <2> QED BY <1>1, <2>1, <2>2
<1>5. [r \in Open |-> Window(r)] = [r \in {Default} |-> <<>>]
  BY <1>1, <1>4
<1> QED BY <1>1, <1>3, <1>5 DEF Readers!Init, Readers!Default, Default

\* A step of the log keeps its invariant and is a step of the readers, or none.
LEMMA NextInv == Inv /\ [Next]_lvars => Inv' /\ [Readers!Next]_(Readers!vars)
<1> SUFFICES ASSUME Inv, [Next]_lvars
             PROVE  Inv' /\ [Readers!Next]_(Readers!vars)
  OBVIOUS
<1>1. CASE \E outbox \in Outbox : Step(outbox)
  BY <1>1, StepEmits DEF Readers!Next
<1>2. CASE \E r \in Open : \E count \in 0..(event_log_held_limit + 1) : AcknowledgeEvents(r, count)
  <2>1. PICK r \in Open, count \in 0..(event_log_held_limit + 1) : AcknowledgeEvents(r, count)
    BY <1>2
  <2>2. count \in Nat
    BY LimitAssumption
  <2> QED BY <2>1, <2>2, AcknowledgeShortens DEF Readers!Next
<1>3. CASE OpenEventReader
  BY <1>3, OpenAdds DEF Readers!Next
<1>4. CASE \E r \in Open \ {Default} : CloseEventReader(r)
  BY <1>4, CloseRemoves DEF Readers!Next
<1>5. CASE ReplaceWorld
  BY <1>5, ReplaceEmpties DEF Readers!Next
<1>6. CASE UNCHANGED lvars
  <2>1. /\ events' = events /\ log_origin' = log_origin /\ cursor' = cursor
        /\ lost' = lost /\ next_reader_id' = next_reader_id
    BY <1>6 DEF lvars
  <2>2. Inv'
    BY <2>1 DEF Inv, TypeOK, CursorsWithin, HeldForSomeone, HeldWithinLimit, LogEnd, EndOf, Open
  <2>3. [r \in Open |-> Window(r)]' = [r \in Open |-> Window(r)]
    BY <2>1 DEF Window, Open
  <2> QED BY <2>1, <2>2, <2>3 DEF Readers!vars
<1> QED BY <1>1, <1>2, <1>3, <1>4, <1>5, <1>6 DEF Next

\* Every reachable log keeps the four, for every limit and any readers.
THEOREM Invariance == Spec => []Inv
<1>1. Init => Inv
  BY InitInv
<1>2. Inv /\ [Next]_lvars => Inv'
  BY NextInv
<1> QED BY <1>1, <1>2, PTL DEF Spec

\* The positions, counters and ids keep their types: none underflows.
THEOREM TypeCorrect == Spec => []TypeOK
<1>1. Inv => TypeOK
  BY DEF Inv
<1> QED BY <1>1, Invariance, PTL

\* WindowOf's assertion never fails.
THEOREM WindowSafe == Spec => []CursorsWithin
<1>1. Inv => CursorsWithin
  BY DEF Inv
<1> QED BY <1>1, Invariance, PTL

\* Whatever is held, some reader still needs, and it is within the limit.
THEOREM HeldRightly == Spec => []HeldRight
<1>1. Inv => HeldRight
  BY DEF Inv, HeldRight
<1> QED BY <1>1, Invariance, PTL

\* Every reader has a queue of its own: the shared log implements
\* EventReaders.
THEOREM Refinement == Spec => ImplementsEventReaders
<1>1. Init => Readers!Init
  BY InitInv
<1>2. Inv /\ [Next]_lvars => [Readers!Next]_(Readers!vars)
  BY NextInv
<1> QED BY <1>1, <1>2, Invariance, PTL DEF Spec, ImplementsEventReaders, Readers!Spec

-----------------------------------------------------------------------------
(* The fast-forward.                                                       *)

\* Every call of the session is a call of the log, or leaves it alone.
LEMMA FastIsLog == [FastNext]_fvars => [Next]_lvars
<1> SUFFICES ASSUME [FastNext]_fvars PROVE [Next]_lvars
  OBVIOUS
<1>1. CASE AdvanceStep
  BY <1>1 DEF AdvanceStep, Stepped, Next
<1>2. ASSUME NEW target \in Target, NEW step_budget \in StepBudget,
             BeginAdvanceUntil(target, step_budget)
      PROVE  [Next]_lvars
  BY <1>2 DEF BeginAdvanceUntil, lvars
<1>3. ASSUME NEW outbox \in Outbox, RunStep(outbox)
      PROVE  [Next]_lvars
  BY <1>3 DEF RunStep, Stepped, Next
<1>4. CASE BudgetSpent
  BY <1>4 DEF BudgetSpent, lvars
<1>5. CASE ReaderCall
  BY <1>5 DEF ReaderCall, Next
<1>6. CASE LoadWorld
  BY <1>6 DEF LoadWorld, Next
<1>7. CASE UNCHANGED fvars
  BY <1>7 DEF fvars, lvars
<1> QED BY <1>1, <1>2, <1>3, <1>4, <1>5, <1>6, <1>7 DEF FastNext

\* The session with its clock implements the log without it.
THEOREM FastImplementsLog == FastSpec => Spec
<1>1. FastInit => Init
  BY DEF FastInit
<1> QED BY <1>1, FastIsLog, PTL DEF FastSpec, Spec

\* The readers keep their queues through every fast-forward.
THEOREM FastKeepsReaders == FastSpec => []Inv /\ ImplementsEventReaders
BY FastImplementsLog, Invariance, Refinement, PTL

-----------------------------------------------------------------------------
Calls == [target : Target, asked : StepBudget, steps_run : Nat]

RunOK == run = NoRun \/ (run \in Calls /\ run.steps_run <= Budget(run.asked))

\* A budget is a number of steps, 0 or not.
LEMMA BudgetIsNat == \A asked \in StepBudget : Budget(asked) \in Nat
BY StepLimitAssumption DEF Budget

\* The call in progress is one that was made, and has not run past its budget.
LEMMA RunIsCall ==
  ASSUME RunOK, TypeOK, [FastNext]_fvars
  PROVE  RunOK'
<1>1. ASSUME NEW target \in Target, NEW step_budget \in StepBudget,
             BeginAdvanceUntil(target, step_budget)
      PROVE  RunOK'
  <2>1. \/ run' = run
        \/ run' = [target |-> target, asked |-> step_budget, steps_run |-> 0]
    BY <1>1 DEF BeginAdvanceUntil
  <2>2. CASE run' = run
    BY <2>2 DEF RunOK, NoRun
  <2>3. CASE run' = [target |-> target, asked |-> step_budget, steps_run |-> 0]
    <3>1. run' \in Calls /\ run'.steps_run = 0 /\ run'.asked = step_budget
      BY <2>3 DEF Calls
    <3>2. 0 <= Budget(step_budget)
      BY BudgetIsNat
    <3> QED BY <3>1, <3>2 DEF RunOK
  <2> QED BY <2>1, <2>2, <2>3
<1>2. ASSUME NEW outbox \in Outbox, RunStep(outbox)
      PROVE  RunOK'
  <2>1. run \in Calls /\ run.steps_run <= Budget(run.asked) /\ ~(run.steps_run >= Budget(run.asked))
    BY <1>2 DEF RunOK, RunStep, Spent
  <2>2. run' = NoRun \/ run' = [run EXCEPT !.steps_run = run.steps_run + 1]
    BY <1>2 DEF RunStep
  <2>3. run.steps_run \in Nat /\ run.asked \in StepBudget /\ Budget(run.asked) \in Nat
    BY <2>1, BudgetIsNat DEF Calls
  <2>4. CASE run' = [run EXCEPT !.steps_run = run.steps_run + 1]
    <3>1. /\ run' \in Calls /\ run'.asked = run.asked /\ run'.steps_run = run.steps_run + 1
      BY <2>1, <2>3, <2>4 DEF Calls
    <3>2. run.steps_run + 1 <= Budget(run.asked)
      BY <2>1, <2>3
    <3> QED BY <3>1, <3>2 DEF RunOK
  <2>5. CASE run' = NoRun
    BY <2>5 DEF RunOK, NoRun
  <2> QED BY <2>2, <2>4, <2>5
<1>3. CASE BudgetSpent
  BY <1>3 DEF BudgetSpent, RunOK, NoRun
<1>4. CASE AdvanceStep \/ ReaderCall \/ LoadWorld \/ UNCHANGED fvars
  BY <1>4 DEF AdvanceStep, ReaderCall, LoadWorld, fvars, RunOK, NoRun
<1> QED BY <1>1, <1>2, <1>3, <1>4 DEF FastNext

\* What a step put into the log is its outbox: a question asked of the log
\* from first_new on is the question asked of the outbox.
LEMMA AskedOfOutbox ==
  ASSUME NEW log \in Seq(Event), NEW outbox \in Seq(Event), NEW target, NEW at
  PROVE  /\ HasInterrupting(log \o outbox, Len(log)) <=> Interrupts(outbox)
         /\ TargetMet(target, at, log \o outbox, Len(log)) = Reached(target, at, outbox)
<1>1. /\ Len(log) \in Nat /\ Len(outbox) \in Nat /\ Len(log \o outbox) = Len(log) + Len(outbox)
      /\ DOMAIN outbox = 1..Len(outbox)
      /\ \A i \in 1..(Len(log) + Len(outbox)) :
           (log \o outbox)[i] = IF i <= Len(log) THEN log[i] ELSE outbox[i - Len(log)]
  BY ConcatProperties, LenProperties
<1>2. \A k \in 1..Len(outbox) : /\ Len(log) + k \in (Len(log) + 1)..Len(log \o outbox)
                                /\ (log \o outbox)[Len(log) + k] = outbox[k]
  <2> TAKE k \in 1..Len(outbox)
  <2>1. Len(log) + k \in 1..(Len(log) + Len(outbox)) /\ ~(Len(log) + k <= Len(log))
        /\ (Len(log) + k) - Len(log) = k
    BY <1>1
  <2> QED BY <1>1, <2>1
<1>3. \A i \in (Len(log) + 1)..Len(log \o outbox) : /\ i - Len(log) \in 1..Len(outbox)
                                                    /\ (log \o outbox)[i] = outbox[i - Len(log)]
  <2> TAKE i \in (Len(log) + 1)..Len(log \o outbox)
  <2>1. i \in 1..(Len(log) + Len(outbox)) /\ ~(i <= Len(log)) /\ i - Len(log) \in 1..Len(outbox)
    BY <1>1
  <2> QED BY <1>1, <2>1
<1>4. HasInterrupting(log \o outbox, Len(log)) <=> Interrupts(outbox)
  <2>1. (\E k \in (Len(log) + 1)..Len(log \o outbox) : (log \o outbox)[k].severity = "kInterrupting")
        <=> (\E k \in 1..Len(outbox) : outbox[k].severity = "kInterrupting")
    BY <1>2, <1>3
  <2> QED BY <1>1, <2>1 DEF HasInterrupting, Interrupts
<1>5. \A kind : (\E k \in (Len(log) + 1)..Len(log \o outbox) : (log \o outbox)[k].kind = kind)
                <=> (\E k \in (0 + 1)..Len(outbox) : outbox[k].kind = kind)
  BY <1>2, <1>3, SMTT(30)
<1>6. TargetMet(target, at, log \o outbox, Len(log)) = Reached(target, at, outbox)
  BY <1>5 DEF TargetMet, Reached
<1> QED BY <1>4, <1>6

\* A fast-forward runs past nothing it was to stop at and reports what stopped
\* it, although its log may have let the event go by then.
LEMMA StepStopsRightly ==
  ASSUME RunOK, TypeOK, FastNext, run # NoRun
  PROVE  GoesOnOrReports
<1>1. run \in Calls /\ run.steps_run <= Budget(run.asked)
  BY DEF RunOK
<1>2. run.steps_run \in Nat /\ Budget(run.asked) \in Nat
  BY <1>1, BudgetIsNat DEF Calls
<1>3. ASSUME NEW outbox \in Outbox, RunStep(outbox)
      PROVE  GoesOnOrReports
  <2>1. events \in Seq(Event) /\ outbox \in Seq(Event)
    BY OutboxIsSeq DEF TypeOK
  <2>2. tick' = tick + 1 /\ step_events' = outbox
    BY <1>3 DEF RunStep, Stepped
  <2> DEFINE met == TargetMet(run.target, tick + 1, events \o outbox, Len(events))
             interrupting == HasInterrupting(events \o outbox, Len(events))
  <2>3. met = Reached(run.target, tick', step_events') /\ (interrupting <=> Interrupts(step_events'))
    BY <2>1, <2>2, AskedOfOutbox
  <2>4. IF met \/ (~met /\ interrupting)
        THEN /\ run' = NoRun
             /\ report' = Report(IF met THEN "kTargetReached" ELSE "kInterrupted", run.steps_run + 1)
        ELSE run' = [run EXCEPT !.steps_run = run.steps_run + 1]
    BY <1>3 DEF RunStep, AskedLog
  <2> HIDE DEF met, interrupting
  <2>5. CASE met
    <3>1. run' = NoRun /\ report' = Report("kTargetReached", run.steps_run + 1)
      BY <2>4, <2>5
    <3>2. report'.outcome = "kTargetReached"
      BY <3>1 DEF Report
    <3> QED BY <2>3, <2>5, <3>1, <3>2 DEF GoesOnOrReports
  <2>6. CASE ~met /\ interrupting
    <3>1. run' = NoRun /\ report' = Report("kInterrupted", run.steps_run + 1)
      BY <2>4, <2>6
    <3>2. report'.outcome = "kInterrupted"
      BY <3>1 DEF Report
    <3> QED BY <2>3, <2>6, <3>1, <3>2 DEF GoesOnOrReports
  <2>7. CASE ~met /\ ~interrupting
    <3>1. run' = [run EXCEPT !.steps_run = run.steps_run + 1]
      BY <2>4, <2>7
    <3>2. run'.steps_run = run.steps_run + 1
      BY <1>1, <3>1 DEF Calls
    <3>3. run' # NoRun
      BY <1>2, <3>2 DEF NoRun
    <3> QED BY <2>3, <2>7, <3>3 DEF GoesOnOrReports
  <2> QED BY <2>5, <2>6, <2>7
<1>4. CASE BudgetSpent
  <2>1. run' = NoRun /\ report' = Report("kBudgetSpent", run.steps_run) /\ tick' = tick
        /\ run.steps_run >= Budget(run.asked)
    BY <1>4 DEF BudgetSpent, Spent
  <2>2. run.steps_run = Budget(run.asked)
    BY <1>1, <1>2, <2>1
  <2>3. report'.outcome = "kBudgetSpent" /\ report'.steps_run = run.steps_run
    BY <2>1 DEF Report
  <2> QED BY <2>1, <2>2, <2>3 DEF GoesOnOrReports
<1>5. FastNext => (\E outbox \in Outbox : RunStep(outbox)) \/ BudgetSpent
  BY DEF FastNext, AdvanceStep, BeginAdvanceUntil, ReaderCall, LoadWorld
<1> QED BY <1>3, <1>4, <1>5

\* The note of AdvanceUntil holds for every log limit, budget and target.
THEOREM StopsRightlyHolds == FastSpec => StopsRightly
<1>1. FastInit => RunOK /\ TypeOK
  BY InitInv DEF FastInit, RunOK, Inv, NoRun
<1>2. RunOK /\ TypeOK /\ [FastNext]_fvars => RunOK'
  BY RunIsCall
<1>3. RunOK /\ TypeOK /\ [FastNext]_fvars => [run # NoRun => GoesOnOrReports]_fvars
  BY StepStopsRightly
<1>4. FastSpec => []TypeOK
  BY FastImplementsLog, TypeCorrect, PTL
<1> QED BY <1>1, <1>2, <1>3, <1>4, PTL DEF FastSpec, StopsRightly
=============================================================================
