------------------------------ MODULE StepEngine -----------------------------
(***************************************************************************)
(* StepEngine (core_sim/step_engine.cpp): two buffers, six phases with a   *)
(* barrier after each, the parallel ones spread over worker threads.       *)
(*                                                                         *)
(* A parallel phase is handed to the scheduler as a task set; enkiTS cuts  *)
(* it into ranges and runs each range on some worker (external).  A worker *)
(* does the items of its range one by one, and an item is two actions: it  *)
(* reads, and later writes what it made of what it read, so that another   *)
(* worker's writes can fall in between.                                    *)
(***************************************************************************)
EXTENDS StepWorld

CONSTANTS Worker,      \* the threads that execute ranges
          Genesis,     \* the worlds a campaign or a load begins with
          Subject,     \* the resident ids an order may name
          MaxTick,     \* bound of the model: the last tick completed
          MaxOrder     \* bound of the model: the last order id issued

ASSUME GenesisAssumption ==
  \A w \in Genesis : IsWorld(w) /\ WellFormed(w) /\ Housed(w)

VARIABLES previous,    \* the completed world, immutable for the whole step
          current,     \* the world being built
          staged,      \* staged_issued_ and staged_cancelled_
          phase,       \* the slot being run, "idle" between steps
          ranges,      \* the ranges of the task set no worker has taken yet
          hold,        \* what each worker is executing
          drawn        \* history: the batch taken and the draws of this step

vars == <<previous, current, staged, phase, ranges, hold, drawn>>

kIdle == "idle"
Free  == [at |-> 0, end |-> 0]
EmptyBatch == [issued |-> <<>>, cancelled |-> <<>>]

Init ==
  /\ previous \in Genesis
  /\ current = previous
  /\ staged = EmptyBatch
  /\ phase = kIdle
  /\ ranges = {}
  /\ hold = [w \in Worker |-> Free]
  /\ drawn = [batch |-> EmptyBatch, chance |-> Quiet]

-----------------------------------------------------------------------------
(* Between steps.                                                          *)

OrderRow == [resident : Subject, status : {kPending}, refusal : {"kNone"}]

Issue(row) ==
  /\ phase = kIdle
  /\ previous.orders.next_id_value + Len(staged.issued) <= MaxOrder
  /\ staged' = [staged EXCEPT !.issued = Append(@, row)]
  /\ UNCHANGED <<previous, current, phase, ranges, hold, drawn>>

\* The ids the staged rows will carry.
Promised ==
  previous.orders.next_id_value .. (previous.orders.next_id_value + Len(staged.issued) - 1)

\* The boundary lets an id through that the book holds or the batch promised;
\* one a step, a bound of the model.
Cancel(id) ==
  /\ phase = kIdle
  /\ staged.cancelled = <<>>
  /\ id \in Promised \/ FindRow(previous.orders, id) # kNoRow
  /\ staged' = [staged EXCEPT !.cancelled = Append(@, id)]
  /\ UNCHANGED <<previous, current, phase, ranges, hold, drawn>>

ResetWorld(w) ==
  /\ phase = kIdle
  /\ previous' = w
  /\ current' = w
  /\ staged' = EmptyBatch
  /\ UNCHANGED <<phase, ranges, hold, drawn>>

-----------------------------------------------------------------------------
(* A step.                                                                 *)

\* mutant: the decisions slot ahead of the needs
Bug_DecisionsFirst(p) ==
  CASE p = kTimeAndWeather -> kDecisions
    [] p = kDecisions      -> kNeeds
    [] p = kNeeds          -> kProduction
    [] p = kProduction     -> kMetrics
    [] p = kMetrics        -> kEvents

After(p) ==
  CASE p = kTimeAndWeather -> kNeeds
    [] p = kNeeds          -> kDecisions
    [] p = kDecisions      -> kProduction
    [] p = kProduction     -> kMetrics
    [] p = kMetrics        -> kEvents

Stretch(b, e) == [at |-> b, end |-> e]

Items(range) == range.at .. range.end

\* What the scheduler may make of a task set of n items: ranges that cover
\* every item once.  One worker runs the whole of it as one range.
Cuts(n) ==
  IF Cardinality(Worker) = 1 /\ n > 0 THEN {{Stretch(1, n)}}
  ELSE {cut \in SUBSET {range \in [at : 1..n, end : 1..n] : range.at <= range.end} :
          \A i \in 1..n : \E range \in cut :
             i \in Items(range) /\ \A other \in cut : i \in Items(other) => other = range}

\* Entering a slot with the world `w` as the one being built.
Enter(p, w) ==
  /\ phase' = p
  /\ current' = w
  /\ ranges' \in IF p \in Parallel THEN Cuts(ItemCount(p, w)) ELSE {{}}

\* AdvanceStep: the copy and the staged batch.
BeginStep ==
  /\ phase = kIdle
  /\ previous.tick < MaxTick
  /\ \E chance \in Chances(previous) : drawn' = [batch |-> staged, chance |-> chance]
  /\ staged' = EmptyBatch
  /\ Enter(kTimeAndWeather, Prologue(previous, staged.issued, staged.cancelled))
  /\ UNCHANGED <<previous, hold>>

RunTimeAndWeather ==
  /\ phase = kTimeAndWeather
  /\ Enter(After(phase), TimeAndWeather(previous, current, drawn.chance))
  /\ UNCHANGED <<previous, staged, hold, drawn>>

RunDecisions ==
  /\ phase = kDecisions
  /\ Enter(After(phase), Decisions(current, drawn.chance))
  /\ UNCHANGED <<previous, staged, hold, drawn>>

\* The last slot and the swap of the buffers.
RunEvents ==
  /\ phase = kEvents
  /\ previous' = Events(previous, current)
  /\ current' = previous
  /\ phase' = kIdle
  /\ UNCHANGED <<staged, ranges, hold, drawn>>

Claimed(range) ==
  [at |-> range.at, end |-> range.end, part |-> ItemOf(phase, previous, current, range.at)]

\* A free worker takes a range and reads for its first item ...
Take(w) ==
  /\ hold[w] = Free
  /\ \E range \in ranges :
       /\ ranges' = ranges \ {range}
       /\ hold' = [hold EXCEPT ![w] = Claimed(range)]
  /\ UNCHANGED <<previous, current, staged, phase, drawn>>

\* ... or reads for the next item of the range it has.
Read(w) ==
  /\ hold[w] # Free
  /\ "part" \notin DOMAIN hold[w]
  /\ hold' = [hold EXCEPT ![w] = Claimed(hold[w])]
  /\ UNCHANGED <<previous, current, staged, phase, ranges, drawn>>

\* mutant: an item that leaves by an exception, its range never finished
Bug_Thrown(h) == Stretch(h.at, h.end)

NextItem(h) == IF h.at = h.end THEN Free ELSE Stretch(h.at + 1, h.end)

Write(w) ==
  /\ "part" \in DOMAIN hold[w]
  /\ current' = Stored(current, hold[w].part)
  /\ hold' = [hold EXCEPT ![w] = NextItem(hold[w])]
  /\ UNCHANGED <<previous, staged, phase, ranges, drawn>>

AllDone == ranges = {} /\ \A w \in Worker : hold[w] = Free

\* WaitforTask returns when every range has run.
Barrier ==
  /\ phase \in Parallel
  /\ AllDone
  /\ Enter(After(phase), current)
  /\ UNCHANGED <<previous, staged, hold, drawn>>

Between ==
  \/ \E row \in OrderRow : Issue(row)
  \/ \E id \in 1..MaxOrder : Cancel(id)
  \/ \E w \in Genesis : ResetWorld(w)
  \/ BeginStep

Sequential == RunTimeAndWeather \/ RunDecisions \/ RunEvents

Work(w) == Take(w) \/ Read(w) \/ Write(w)

Next == Between \/ Sequential \/ Barrier \/ \E w \in Worker : Work(w)

Spec == Init /\ [][Next]_vars

\* The sim thread and the scheduler's threads run: a slot that can be left
\* for ever is left, a worker that can go on for ever goes on.  This is weak
\* fairness of (Sequential \/ Barrier) and of every Work(w), with "enabled"
\* and "taken" written out: only those steps move `phase` out of a slot, and
\* only Work(w) moves hold[w].  Nothing is assumed of the caller, who may
\* never ask for a step.
CanLeave   == phase # kIdle /\ (phase \in Parallel => AllDone)
CanWork(w) == hold[w] # Free \/ ranges # {}

Fairness ==
  /\ <>[]CanLeave => []<><<phase # kIdle /\ phase' # phase>>_vars
  /\ \A w \in Worker : <>[]CanWork(w) => []<><<hold'[w] # hold[w]>>_vars

FairSpec == Spec /\ Fairness

-----------------------------------------------------------------------------
Worlds ==
  [tick : 0..MaxTick, weather : Weather,
   residents : Seq([id : Nat, family : Nat, heavy : BOOLEAN,
                    satiety : 0..kMetricMax, memory : -1..kMetricMax]),
   families : Seq([id : Nat, pantry : Nat, mood : 0..kMetricMax]),
   fields : Seq([drought_run : 0..kRunCap]),
   orders : [rows : Seq([resident : Subject, status : OrderStatus, refusal : STRING]),
             row_ids : Seq(1..MaxOrder), row_by_id : UNION {[0..(n - 1) -> 0..MaxOrder] : n \in 0..(MaxOrder + 1)},
             next_id_value : 1..(MaxOrder + 1)],
   step_events : Seq([order : 1..MaxOrder, answer : Terminal]),
   next_resident : Nat, next_family : Nat,
   ledger : [harvest : Nat, eaten : Nat, lost : Nat]]

TypeOK ==
  /\ previous \in Worlds
  /\ current \in Worlds
  /\ staged.issued \in Seq(OrderRow) /\ staged.cancelled \in Seq(1..MaxOrder)
  /\ phase \in Parallel \cup {kIdle, kTimeAndWeather, kDecisions, kEvents}

\* The assertion of FamilyNeedKcal (family_meal.cpp): while the needs run,
\* the two buffers' resident rows of one index are one person, which is what
\* lets a meal read yesterday's work of a row instead of looking it up.
RowsMatch ==
  phase = kNeeds =>
    /\ Len(previous.residents) = Len(current.residents)
    /\ \A r \in DOMAIN current.residents : previous.residents[r].id = current.residents[r].id

\* Through deaths, births and weddings a completed world has no household
\* nobody lives in and nobody without one, and no id stands twice.
HouseholdsHold == phase = kIdle =>
  WellFormed(previous) /\ Housed(previous)

\* Whoever dies, is born or marries, and in whatever phase the tables move:
\* a row stays a person's while his family eats, and a household its members'.
PeopleHold == RowsMatch /\ HouseholdsHold

\* The year balances (world.cpp, FoldPantryFlows): what the plots brought
\* less what was eaten and what was lost is what the pantries hold more than
\* they held - though no parallel phase keeps an account, and the fold only
\* sees the difference of two buffers at two hours of the day.
LedgerBalances == phase = kIdle =>
  \E w \in Genesis : Unbooked(previous) = Unbooked(w)

Atomic == INSTANCE AtomicStep
            WITH world <- previous, inbox <- IF phase = kIdle THEN staged ELSE drawn.batch,
                 Id <- 1..MaxOrder, Step <- StepOf, Chances <- Chances

\* A step is one atomic function of the completed world, the staged batch and
\* the draws: the number of workers, the cut into ranges, who took which
\* range and how their reads and writes fell cannot be seen in the result
\* (step.h, "the result cannot depend on worker count").
ImplementsAtomicStep == Atomic!Spec

\* A step begun is finished: every range is run, every barrier passes.
StepEnds == (phase # kIdle) ~> (phase = kIdle)
=============================================================================
