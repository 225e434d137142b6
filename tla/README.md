# TLA+ verification of the kolkhoz core

The core simulates a village hour by hour: a world of flat tables is advanced
by a step of six phases, three of them spread over worker threads; a session
on its boundary takes orders, journals them, hands out events and runs the
time forward.  Everything a player does reaches the world as an order in a
batch, and everything he learns comes back as an event or as the completed
state.  The modules here model the parts whose correctness is a matter of
order - of threads, of phases, of passes over one book, of hours of the day,
of a save taken between two of them - and leave out the agronomy.

Contents: 1 the system, 2 the modules and what in the code they stand for,
3 the runs, 4 fairness, 5 the proofs, 6 the findings, 7 observations that are
not findings, 8 what is not modelled, 9 the plan.

## 1. The system

| Component | State | Operations | Depends on / talks to |
|---|---|---|---|
| State tables (`core_common/state_table*.h`) | rows, their ids, lookup by id, id counter | append, remove (swap with last), find, rebuild after a load | every subsystem; the save |
| Step engine (`core_sim`) | previous and current buffer, staged batch | `AdvanceStep`, `StageOrders`, `ResetWorld` | the six slots; enkiTS |
| World (`core_world`) | the wiring of the slots, the order sweep, the folds of the year's book | `DecisionsSlot`, `EventsSlot` | all subsystems, in one order |
| Session (`core_boundary`) | staged batch, journal, stamp, event log, readers | issue, cancel, step, fast-forward, acknowledge, load | the engine; the presentation |
| Labour (`core_labor`) | posts and standing work (on residents and in the book), placement, the day's hours | read orders, close the day, place, pay | order book, units, fields |
| Residents (`core_residents`) | people, households, pantries, moods, deaths | meal, demography, burial, trade, theft, audit | labour, production, ledger |
| Production (`core_production`) | fields, herds, shops, stocks, the plan, the trip, visits | field phases, orders, the year's turn | time, residents, construction |
| Construction (`core_construction`) | sites, materials, phases, decay | start, supply, complete, demolish | logistics, labour, stores |
| Logistics (`core_logistics`) | loads, tasks, the day's plan of legs | bind, plan, serve, drop | labour, production, construction |
| Save (`core_save`) | none; a byte stream | write and read tables, remap the dictionary | all tables |
| Time (`core_time`) | tick, calendar, weather | advance, draw the day | all |

How they interact: nobody calls a subsystem from outside.  The presentation
stages orders; the next step appends them to the book in issue order, marks the
withdrawals, then runs the slots.  In the sequential decisions slot the
chairman's gate comes first, then the labour's readers, the residents, the
production and the construction; each settles the rows of its kinds.  The
events slot books the pantries' flows, checks that nothing was left unread and
sweeps what is done.  Everything outside a phase's own rows is read from the
immutable previous buffer or from the state as the phase found it.

What is hard here, and what correctness means:

- **Tables**: an id, once issued, never names anybody else - across swaps,
  saves, and deaths that happened before a save.
- **The step**: the result is one function of the completed world, the batch
  and the draws, whatever the number of workers and however they interleave;
  every step begun ends.
- **Row indices across buffers**: the meal reads yesterday's work by row
  index, right only as long as no table moved between the two buffers.
- **Books kept by difference**: no parallel phase writes the ledger; the year
  balances only if each hour has one writer of the pantries.
- **Orders**: an id is promised before its row exists; every order is answered
  once, by the withdrawal if one was accepted.
- **Events**: one log and many readers; nobody loses an event to another, what
  is lost is counted, and the memory is bounded.
- **The fast-forward** stops where it was asked to, and stops.
- **Posts and work**: two passes read one book, posts are settled at the day's
  close, and work is settled at once; a man must never come to have both.
- **The trip**: a gate that is asked before the trip is decided, weather that
  moves one thing and must move two others, one summons at a time for three
  causes, visits that must find him at home.
- **Works on a unit**: what a works holds back lies in a stock that other doors
  take from; what is on its way is kept twice; a parent comes down with its
  modules; a stock with no room to go to keeps its row alive.
- **The district's year**: one debt is taken through four doors, each of which
  must leave out what the others already have; a turn clears marks in the
  middle of the hour that read them; a cart's goods wait at a full store.
- **The groom's logistics**: tasks are tied to loads by address and rebuilt every
  morning; the day's plan is an estimate drawn again in the middle of what it
  planned, from a chairman's word, a lost horse or a heap just reaped.
- **A row of land**: three books on one row - the phases, the chain of three
  seasons, the winter's dose - are moved by the crew, the chairman, the snow and
  the turn, which may come at any phase; every mark has a place where it may
  stand, and the save refuses the rest.
- **The day of labour**: a plan made at midnight meets fallen horses, ended
  works, ambulances and a chairman's word at noon; every hour must be paid once,
  every wait ended by one of its ends, and the kind of the day asked by the
  placement, the pay and the close must be one answer.

`PROJECT.json` lists every component, those without a module too, and the
hazards at their lines.

## 2. The modules

Every module has one action per operation of the code.  Names are the code's.
Definitions that start with `Bug_` are deliberate mistakes: no specification
uses them, they are there to show that each property can fail.  Modules that
end in `Proofs` hold the theorems (section 5).

### State tables: `StateTableOps`, `StateTable`, `EntityMap`

`StateTableOps` is the struct as a record (`rows`, `row_ids`, `row_by_id`,
`next_id_value`) and its functions as operators; rows count from 1, 0 is
`kNoRow`.  `StateTable` is one table over a campaign: `Add`, `Drop` (any id: live,
dead, never issued), `Write`, `Save` and `Load`, where a save stores rows, ids
and counter and a load rebuilds the lookup and may not lower the counter.
`EntityMap` is the promise: a map from ids that are issued once.
`ImplementsEntityMap` is the refinement.  The other modules with an order book
take their book from the same operators.

### The save's dictionary: `SaveDictionary`

The same campaign, whose saves are read under other tables of definitions.  A
row names a definition by its index and holds amounts in the order of the
table; `BuildRemap` finds each saved key's place in the live table, `ReadDefId`
and `ReadAmounts` are the two readers, with what they refuse apart
(`DefIdRefused`, `AmountsRefused`), and `ReadTable` reads every row of the
saved table.  Meaning is what a row says in keys: `KeysKept` asks that it is
kept by a load under any table, and by a second save and load under a third.

### The step: `StepWorld`, `StepEngine`, `AtomicStep`, `OrderBookOps`

`StepWorld` is the work of the phases on a world cut to residents, families,
fields, the order book, the outbox and three accounts.  A parallel phase is
given per item (`FamilyMeal`, `FieldGrowth`, `FamilyMetrics`); sequential ones
are operators.  `OrderBookOps` is the batch (`ApplyStaged`) and the sweep.
`StepEngine` runs it: two buffers, `phase`, and workers that take ranges of the
task set.  An item is two actions, `Take`/`Read` and `Write`, so other workers'
writes fall in between; the scheduler's cut of the task set is any set of
ranges that covers each item once.  `Barrier` is the wait for the task set, and
`RunEvents` ends the step with the swap of the buffers.
`AtomicStep` is the promise of `core_sim/step.h`: a step is one function.  The
refinement maps its world to `previous`, and its inbox to the staged batch or,
during a step, to the batch the step took.

Data is cut to what the properties tell apart: satiety, pantries and moods are
small integers, a plot yields one unit, a birth, a death or a wedding a day at
most (`Chances`).

### The session: `Session`, `OrderProtocol`, `SessionJournal`

`Session` has `IssueOrder`, `CancelOrder`, `AdvanceStep`, `Save`,
`ReplaceWorld` with the waiting batch and without.  A step is one action - that
this is sound is what `StepEngine` shows.  A consumer is reduced to whether it
settles a kind at once, lets it wait for the close (and may refuse it there),
or does not exist; the gate on the chairman's absence is kept.  `OrderProtocol`
has no book and no rows: only the life of every id, what was withdrawn, and the
answers.  `SessionJournal` adds the journal, its sequence numbers and the
stamp's serial to each action; `AdvancedTo` and `Redone` are what somebody who
replays does, and `Replayable` compares.

### Events and time: `EventLog`, `EventReaders`, `FastForward`

`EventLog` has the held events, the position of the first of them, a cursor and
a loss count per reader; `Step`, `AcknowledgeEvents`, `OpenEventReader`,
`CloseEventReader`, `ReplaceWorld`.  `EventReaders` is the promise: a bounded
queue per reader, with no log in common.  `FastForward` adds the tick and the
loop of `AdvanceUntil`, one action per step (`RunStep`) and one for its giving
up (`BudgetSpent`).  Its other calls cannot come while the loop runs: the
session belongs to one thread.

### Posts and standing work: `PostOrders`

The men with their posts, units under construction, standing and being
demolished, places of work, the book.  A step applies the batch, runs the gate,
the labour sub-step in its order - at the day's last hour the vacating of posts
without a unit and the application of what waited, then the orphaned works, the
post orders, the work orders - and the sweep.  `Elsewhere` is what the rest of
the core does in between: a death, a specialist's arrival, a building finished,
taken down or gone, a place worked out, planted over or removed; it may happen
between any two steps, more freely than in the code, where it comes inside them.

### The trip and the visits: `DistrictTrip`

One action, `Step`, with the orders of the batch: the gate
(`RefuseVillageOrdersWhileAway`), the residents' part (write-offs and the store
audit, which move the reputation), the production's orders (book a trip,
bargain), `RunDistrictTrip` (letter, summons' morning, departure, return), the
day's block at dawn (verdict, announced visits, arriving visits), and last the
comparison with the line of the pencil.  The variables besides `world` are
history: whether he is really gone, whether he booked today and whether a
visit was held today.
Weather, verdict, surplus in the stores and the remark of an audit are drawn.
Everything moves the reputation by one point; the line and the scale are
constants.  `TermAssumption` (a letter at least one day after the cause, a
summons at least three) states what the tables have (1 and 2) and the
catalogue does not require.  The visits of a dawn are held in their order, by a
fold of `HeldIfDue` over those that stand: a visit that calls another calls it
for tomorrow.

### Works on the units: `BuildingSite`, `Passes`

One `Hour` is one engine step on the units' rows: labour drains the crew's seam,
production obeys its two orders (pause, empty a store) and moves grams - the
day's takers, the emptying, the supply's legs, at the evening the stock of what
is taken down - and construction obeys its own order, walks the rows (age and
supply at midnight, what was supplied in the other hours) and finishes what has
no labour left.  `TakeForSite` takes from the unit, the stores nearest first and
the pit; `Cart` lands a leg; `CompleteBuild`, `CompleteRepair`,
`CompleteInsulation` and the end of a demolition are the four ends of a works;
`Collapse` is the fifth.  `AddTo` clamps at nought as the code's does: that is
why `GramsKept` is worth asking.  Which rung costs what is a ladder of small
recipes per type.  `Passes` has the two combinators the modules of this sort are
written with: `With` for a value that is used twice, `Through` for a walk over
rows in order.

### The year with the district: `DistrictYear`

`DawnStep` and `EveningStep` are the engine's steps at the hours anything here
happens in: orders (a delivery for the plan on the district's cart or on own
ones, a lot, a head, a loan, a fund unsealed), hauled lots, the collection, the
deliveries that arrive, on the snow's day the debt off the fields, and in the
turn's hour `RunYearStart` and `AnnouncePlan` - the shipment, the loan's
repayment, the verdict and its court, the limit's new points, the new figure.
`Reap`, `Haul`, `Eat` and `Shut` are what the rest of the village does to
fields and stores in between.  `book` is history: grams and heads that came in,
the years as they were closed, loans and courts as they happened.  Deliveries
and livestock on the road are state tables of `StateTableOps`, with its swap on
removal.

### The day of labour: `LabourDay`

One `Hour` is the engine's step as the hands see it: the placement at midnight
(posts and substitutes, standing orders, the plan), at hour one the release of
work that lost its horse, the top-up and the seats on the goods carts, later
top-ups for a day declared working and for works that stand uncrewed, the
working hour (measured on arrival, works taken off the seam, ends that send
home), the release of passengers' waits, at the last hour the close; then the
chairman's rush orders, the sick cars, what production and construction open,
and the watchdog's walk over the waits.  A plan is any one that leaves no able
hand beside a job he could take; horses go to the plough, the goods carts and
the crews in that order.  `dawn` and `dusk` keep what the placement and the
close read of the day.

### The groom's logistics: `Logistics`

A slot of the step is an action: `ReadTaskOrders` (a level or a pause of a task),
`RunAssignmentDecisions` (the placement and the top-ups give a carter a load that
is offered; `RunHour` lets each, in the order of ids, go on along his chain by
`FollowThePlan` and cart), `RunTasks` (at midnight `SyncTasks`, `MarkServed`,
`AgeAndRaise`), `BuildPlan` at the hour after, `Replan` at every later one, and
`RunProductionDecisions` with what lays, prices and closes loads.  `tasks` is a
state table of `StateTableOps`; a load is its address, so one that is gone and
lies again is met by whatever task still names it.  `BuildGroomPlan` deals each
cart its chain from the rings of the levels, keeps what of the earlier plan has
begun (`Begun`), and runs the clock from there: a leg there, a leg with the
load, and the loads the clock does not reach kept in their place.  How long a
ride is and what other carts leave are two numbers it may reckon (`Estimates`).
`book` is history: the mornings each task has waited.

### A row of land: `Fields`

One row over the years.  `Dawn`, `Day` and `Evening` are the engine's step at the
hours anything happens to it: the day's first hour (`RunFields`; at the turn
`RunYearStart` before it, in November `SayLostWinterSlots` after), the working hours, and
the last (the station's column, the winter's dose, the end of a meadow's cut).
`Decide` is what every step does once the labour is over, in the order of
`RunDecisionsOfTheHour`: orders, `AdvanceFinishedField`, `KeepColumnField`.
`world.f` is `FieldRow` (the phase and its work, the crop, the chain and its
standing mark, the autumn furrow, what of a reaping is laid, the soil, the
dose), `world.col` what the station's column has worked on it, `world.b` history:
the whole of a reaping and what was laid of it, the slot of the chain in
preparation and the last one sown, the sowings again that are excused less those
there were, rests, hay, and what November said.  Work is
counted in parts of a phase, seed and dose in halves, soil and weather in
grades.  What the rest of the village does is chosen: hands, seed, carts, dung,
how far the column gets, whether the other fields are in.

## 3. The runs

`MC*.tla` give a module its constants, `*.cfg` name what is checked.  Every
bound is a named constant.

| Run | What it asks | Instance and why it is enough |
|---|---|---|
| MCStateTable | `LookupAgrees`, `RoundTrip`, `KeysKept`, `ImplementsEntityMap` | two row values, ids to 4: removal at the front, middle and end, of a moved row, and a save older than the last death; tables of definitions reordered, shorter, longer, and of the old size with a key replaced.  The proofs of section 5 lift the bound for all four. |
| MCStepEngine | `ImplementsAtomicStep`, `PeopleHold`, `LedgerBalances`, `StepEnds` | two workers, two yards, three people, two fields, three steps of a three-hour day: every cut of every phase, a death of a last member, a birth, a wedding that empties a yard, an order issued and withdrawn, the plot's hour and the meal's.  Two workers and two items show every pair of reads and writes. |
| MCSessionJournal | `PromiseKept`, `ImplementsOrderProtocol`, `Replayable` | three kinds (settled at once, at the close, refused at the close), two ids, two entries of the journal, three ticks of a two-tick day: an id promised, saved with the batch and without, loaded, withdrawn, swapped, and the journal done again. |
| MCFastForward | `HeldRight`, `ImplementsEventReaders`, `StopsRightly`, `RunEnds` | a limit of two events, steps that emit none to two, two readers besides the default one, every kind of target, one that never comes. |
| MCPostOrders | `OrdersAnswered`, `SettledAtTheClose`, `PlacesHeldRight` | two villagers (symmetric) and one specialist, a unit that stands and one still a site, one post with one place, one of a kind for the village, two closes, three orders, one withdrawal, two events from elsewhere.  The proofs of section 5 lift the bounds for all three. |
| MCDistrictTrip | `AwayIsOneThing`, `CalledOnce`, `VisitsMeetHim` | a day of four ticks, one for each hour something happens at, months and years of three days, seven days of every weather, one order a step: two summonses in a row, a departure held, a return late in the mud, more than two months, two turns of the year. |
| MCBuildingSite | `GramsKept`, `SitesHold`, `FloorHolds` | three farms of three rows and six or fewer grams: a store with a barn to raise and plots to mark; a worn church store beside the yard that replaces it; a fallen house, a yard and its module.  A day of two hours, a floor after two idle days, no bound on the time.  `Careful`: no emptying and works on one store (section 7). |
| MCDistrictYear | `GramsKept`, `OnceAYear`, `SeedStays` | years of two days with two ticks each, grain and tools, stores that fill up, two lots and one place for a head, a court after two failed years.  Three lives: a year and a half full of orders, three turns without any, two turns with two orders. |
| MCLabourDay | `WaitsAreHonest`, `DayIsCounted`, `PricedAlike` | three men, one of them the groom with a substitute to find, two horses; a harvest, a goods cart, a ploughing by order, a site, the yard's care; days of six hours, every second a day off, four days; at most two of an order, a fallen horse and an ambulance. |
| MCLogistics | `TasksBindLoads`, `PlanHeeds`, `WaitingRises`, `ReplanGoesOn` | a store being emptied and a winter dose at the start, a heap and a works' supply that come; two carters, three days of six hours, three of them light; a day of waiting for each step of the ageing.  Five lives: two orders of the chairman, two loads that come, go or are priced anew, or one of those with an order, a threat at dawn or a carter who loses his place: a removal from the middle of the tasks, a load back at its address, a level raised twice, a re-plan with a leg under way and one on the way home. |
| MCFields | `RowLoads`, `ReapedToTheGram`, `SoilSettled`, `SlotsInTurn`, `LostSlotIsSaid`, `OneCutAYear` | years of six days, one for each season the code asks about; days of four ticks, phases of two parts; oats, rye and clover.  Nine lives of one to three and a half years: the canon's chain by the crew, by the spring and by the autumn column; a rye named first, with the fallow behind it; chains named over chains and taken off; oats after oats; a meadow, a mown fallow and a stand of clover, marked, ploughed up and removed.  A reaping over the snow, a phase over the turn, half a seed, half a dose and a dose that comes late are in them.  `Careful`: nobody marks a meadow over a part-turned furrow (section 6).  Section 5 proves all of them for any bounds. |
| MCUnloadable | `RowLoads` | the same instance without `Careful`; it must end in a counterexample. |

Every property of a passing run has a mutant in `PROJECT.json`: a definition
of the model replaced by a plausible mistake, under which the property fails.
A property made of named parts (`PeopleHold`, `OrdersAnswered`, `PlacesHeldRight`,
`CalledOnce`, `AwayIsOneThing`, `SitesHold`, `OnceAYear`, `DayIsCounted`) asks one
question in several places, and its mutant breaks one of them.

What the properties say beyond the obvious:

- `ImplementsAtomicStep` would fail at the first read of a field some other
  item writes; its mutant lets a meal look at a neighbour's pantry.
- `RowsMatch`, in `PeopleHold`, is the assertion of `FamilyNeedKcal`.  Its mistake puts the
  decisions ahead of the needs: a removal then makes a row somebody else's.
- `ImplementsOrderProtocol` covers the withdrawal staged in the same batch as
  its order, the order answered by the step that also withdraws it, and a save
  that carries the batch.
- `FirstComesFirst`, in `OrdersAnswered`, compares the two passes: of a work and an appointment given
  to one free man in one batch the later yields, though posts are read first.
- `AbroadIsAway`, in `AwayIsOneThing`, ties the ticks the gate reads to departures and returns that
  happened, through postponements, mud and summonses that take over a trip.
- `HeldRight` is two facts about the log at once: no more than the limit is
  held, and the first event held is one somebody has still to read.
- `WorksOwnTheirRecipe`, in `SitesHold`, relates a works to the stock it stands in: whoever else
  takes from that stock, what the works began with is there when it ends.
- `FloorHolds` is about what a delivery may not do: a supply that has waited
  long enough to be served first is served first till it is complete.
- `CourtOnce`, in `OnceAYear`, compares the series kept by the plan with the series counted over
  the years as they were closed, weather years left out.
- `SeedStays` looks at a whole step, in the turn's hour on either of the two
  days the seed is read on: whatever doors took in it, the seed is left.
- `PricedAlike` follows each man through release, ambulance and evening to the
  price he was charged; its mutant counts the series up at the first man paid.

- `TasksBindLoads` fails if tasks are removed by row while they are scanned: the
  row moved into the gap is passed over, and a load is carted that is gone.
- `WaitingRises` compares the level with mornings counted beside the code's
  day-mark, through pauses, doors, services and a load that came back.
- `ReplanGoesOn` looks at two plans of one day: what was begun stays, and the
  rest goes on from where it ended.
- `RowLoads` is the save's own test of a row, asked at every tick instead of at
  the load: marks that outlive the state they belong to are found where they
  are left.
- `ReapedToTheGram` adds up shares rounded down in the evenings, by the hand-over
  to the column and by the last lay, and in a snow what is lost.
- `SoilSettled` holds a dose to being paid once and a field to resting once a
  year, where a fallow may be dunged late, sown, skipped or met by the turn.
- `SlotsInTurn` counts the seasons of the chain beside the code's standing mark:
  the code moves slots, the history numbers them.  No season is sown again or
  after a later one, but once for each turn that finds a fresh chain's winter
  crop half sown (section 7).
- `LostSlotIsSaid` compares what November says of next year's slot with what the
  turn makes of it, a snow, a sowing and a reaping later.

Deadlock is not checked where the model stops at its bounds
(`CHECK_DEADLOCK FALSE`); `MCStateTable` and
`MCBuildingSite` go on past theirs and check it.  That
a step or a run cannot hang is `StepEnds` and `RunEnds`, not deadlock checking.

## 4. Fairness

- `StepEngine`: a worker that can go on for ever goes on, and a slot that can
  be left for ever is left.  The first is what a thread of the scheduler does
  with a range it took and with ranges in the pipe (enkiTS wakes sleepers when a
  set is added, and the waiting thread itself works); the second is the loop of
  `AdvanceStep`.  It is weak fairness of these actions with "enabled" and
  "taken" written out, since only they move `phase` and `hold`.  The caller is
  assumed to do nothing: he may never ask for a step.
- `FastForward`: weak fairness of `RunStep` and `BudgetSpent`, the body and the
  exit of one loop on its own thread.  Nothing is assumed of the targets: one
  never comes, and `RunEnds` rests on the session's own limit.
- Every other specification is a safety specification.

## 5. The proofs

Checked by TLAPS for every value of the constants that meets the modules'
assumptions.  Each part has its proofs in a module of its own beside it; the
listed theorems stand last in theirs.

**`StateTableProofs`** (assumes `MaxIdAssumption`: the bound is a natural
number).  `LookupAgrees` alone is not inductive: a removal needs to know what
the arrays hold.  The invariant is `Good(table) /\ GoodSave(saved)`: the shape,
the density of the arrays (one id once, below the counter) and the lookup as
their inverse, for the table; shape and density for the save.  Each operation
has a lemma that it keeps `Good` (`AppendGood`, `RemoveGood`, `RebuildGood`,
`WriteGood`) and one that says what it does to the map the table stands for
(`AppendLive`, `RemoveLive`, `ReloadLive`, `WriteLive`).  From them:
`TypeCorrect`, `LookupCorrect`, `RoundTripHolds` and `Refinement`
(`Spec => ImplementsEntityMap`).

The rows of a table may be orders, and two modules keep such a book.  What they
need of it is proved here once, for any rows: appending the batch, marking the
withdrawn, judging, collecting the answered and sweeping them out keep the table
good and change exactly the rows they name (`IssuesBook`, `MarksBook`,
`JudgeBook`, `CollectsAll`, `SweepBook`).  `SessionProofs` and `PostProofs`
instantiate the module with their rows.

Last comes the save's dictionary (hypotheses of its theorem: `TablesSound`, keys
are strings and no table has one twice, which the table reader refuses;
`RowsFit`, a row names nothing the table it lives under has not; TLC evaluates
both on the instance of `MCStateTable`).  Rows live under the first table all
along, which is `Good` and `GoodSave`; the rest is said of one row.  `RemapIs`:
the remap leads every written key to its live place, and takes itself for the
identity only between a table and itself.  `RowRefused`: a row is refused exactly
when it uses a key that is gone.  `RowKept`: otherwise it says what it said and
fits the live table - so the same two facts hold of what was read, under a third
table.  Result: `KeysStay` (`Spec => []KeysKept`), for any tables and rows.

**`StepEngineProofs`** (`ClockAssumption`: a day has three
hours or more, the code's 24; `ScaleAssumption`: the scales are natural numbers
and the dowry's divisor is not zero, as the catalogue asks; `GenesisAssumption`:
the first world has its rows, ids and households in order, as genesis builds
it).  First comes the work of the phases.  `ItemFrame` is why threads
do not matter: what an item of a parallel phase computes is the same whichever
others have been written, because it reads only rows no item of the phase
writes.  `AtOnceOneMore` says that one more item stored over any set of items
done at once is that set with the item.  Sums over pantries and accounts, which
the library does not prove, are taken apart by well-foundedness over finite
sets.  `StepStands` follows a whole step through its six slots: ids stay apart,
people housed, and the fold books what the phases did to the pantries.
The engine follows.  Its invariant `EngineInv` says that in a
sequential slot the world being built is what the slot begins with (`Start`);
in a parallel one it is that world with exactly those items done at once that
nobody owes, no item is owed twice, and what a worker has read is what his item
makes of the start.  Items are stored one by one in any order, so this is the
strengthening every other fact rests on: `PeopleStay`, `BookBalances` (the
balance before the fold, less what is still to be booked) and `StepIsAtomic`,
the refinement of `AtomicStep`, for any number of workers and any cut of the
task sets.

**`EventLogProofs`** (`LimitAssumption`: the limit is positive;
`BoundAssumption`).  `HeldRight` is not inductive: it needs that somebody waits for the first
event held, that every cursor is within, and that no window exceeds the limit;
the invariant `Inv` joins them to the type.  All is said of `From(s, d)`, what
is left of a sequence behind a position: trimming, acknowledging and windows
are `From`, and `From` of `From` is `From`.  `Slowest` is shown to exist and to
be the least, from well-foundedness and finiteness of the readers.  Results:
`TypeCorrect`, `WindowSafe`, `HeldRightly`, `Refinement`
(`Spec => ImplementsEventReaders`).

The second half of the module (`StepLimitAssumption`) is about `FastForward`.
Every step of the session's time is a step of the log or leaves it alone (`FastImplementsLog`), so readers
keep their queues through runs (`FastKeepsReaders`).  `StopsRightlyHolds` needs
that the run in progress was a call and has not passed its budget (`RunOK`) and
that asking the log from `first_new` on is asking the outbox (`AskedOfOutbox`).

**`FoldProofs`** (no assumption).  A fold goes over a sequence with an operator,
and a theorem cannot take an operator; a module can.  `FoldProofs` declares it
as its constant `Op`, and a proof about a fold instantiates the module with the
operation folded.  `FoldSteps` then gives the values of the beginnings of the
sequence, each one application from the one before; what must be shown of every
length goes by the least length it fails for (`Upwards`).  The session's
passes over the book, its replay and the district's visits are proved so.

**`SessionProofs`** (`KindAssumption`: the kinds that wait and those that settle
at once are apart, and only a waiting order may fail at the close, as the
consumers are written; `BoundAssumption`).  The book is followed as the map
from ids to rows it stands for (`Live`), by the lemmas of `StateTableProofs`:
`StepFates` says of each order what one step makes of it - a withdrawn one is
cancelled, one that is answered leaves the book and is answered once, the rest
stand as they were - through the issues, the marks, the consumers, the close
and the sweep.  `SessionInv` is a sound book at rest and a batch that continues
it (ids promised in order from the counter), in the world and in the save;
without the save's half a load would undo it.  Results: `SessionTypes`,
`PromisesKept`, `SessionRefinement` (`Spec => ImplementsOrderProtocol`).
`JournalInv` adds that what the journal makes of its origin is this world and
this batch: `Replay` (`Replayable`), and `JournalKeepsPromises` brings the two
results over to the session with its journal.

**`TripProofs`** (`HourAssumption`: the departure is before the return within a
day; `TermAssumption`: a summons is three days away or more; `TableAssumption`:
the reputation's scale, the visits' table; `BoundAssumption`).  `AbroadIsAway`
says nothing of tomorrow, so the invariant `Kept` does: an own trip is over
before the day of a summons, mud or not - it leaves tomorrow at the latest and
the summons is three days away, which is where `TermAssumption` is needed -, a
summoned trip is the summons' own hours, none is overdue, none is missed, and
the pencil's mark waits only for another's summons.  A step is followed through
its parts (`StepParts`), each with what it may do to the row.  `GateStep` is the
point of it: the gate, asked before the trip is decided and before the weather
holds it, is asked about exactly the ticks he is away in.  `MetInv` remembers of
a day with a visit that only a trip booked since can leave on it.  Results:
`TripSound`, `TripTypes`, `AwayTheorem`, `CalledTheorem`, `VisitsTheorem` - all
the properties of the run, for every horizon, calendar and table.

**`PostProofs`** (`PeopleAssumption`: the residents are finitely many, a
specialist to come does not live here yet, a site is a unit; `SlotsAssumption`:
the number of a post's places is a natural number and "none" is the name of no
profession; `BoundAssumption`).  `OneAnswer` is not inductive: it speaks of
those who live here, and a work that named a man still to come would stand beside
the post he arrives with; and it says nothing of what the ids of the book and of
the waiting batch are.  The invariant `PostsInv` says of a village between two steps that every order in the
book is an accepted one (`Quiet` within the step: none is under way), that no man
has two works, two orders of a post, or a work and an appointment (`OneWork`,
`OnePost`, `Apart`), that a man at work who holds a post has asked to leave it
(`Ending`), and that no order names a specialist still to come, who will get his
post from the district.  A step is followed pass by pass: the batch into the book
(`Taken`), the works whose place or man is gone (`ClosedTo`), the posts read
(`PostsReadTo`), the works read (`WorkedTo`), the close, the sweep.  Each pass is
a fold over the rows, with what it may do to a row and to the posts as its
invariant, row by row; between the two readers the order of rows says which of two
came first (`WorkOrderCameFirst`), which is where `FirstComesFirst` comes from.
Results: `PostsStaySound`, `PostsTyped`, `OrdersStayAnswered`,
`PostsSettleAtTheClose`, `PlacesStayRight` - all the properties of the run.

**`FieldProofs`** (`CalendarAssumption`: a day has working hours and a year ends
after its season; `AmountsAssumption`: amounts are natural numbers, a phase has
work; `CropAssumption`: a winter crop is no stand and is reaped later than the
fallow is ploughed, as `crops.csv` has it; `SeasonAssumption`: a winter crop is
reaped before its sowing opens, any other after its sowing has closed, and on the
first of November no sowing is open, as it has too; `LivesAssumption`: a life
begins with a row at rest).  No property of a row is inductive.  `RowLoads` speaks of columns
one handler sets and another clears a season later, so `IsRow` says which marks a
kind and a phase may have.  `SoilSettled` counts rests: `Rested` is what keeps a
row out of a second one until the turn - it stands under the winter crop it was
rested for, which the snow does not take, or was reaped of it too late for
another fallow.  `OneCutAYear` needs the hay in the book to be that of the cut
under way, at most its laid share of the season's, or of a cut mown this year
(`HayOf`); and that there is none before the month cuts open.  Between ticks a
column may be kept by rain on a finished field (`DayIn`, `ColumnKept`), and the
last tick of a day leaves nothing that only waits for it (`NightIn`): that is what
the turn of the year, at the next dawn, begins with.  Their conjunction is
`FieldInv`; TLC found it invariant on the instance of `MCFields` before it was
proved.  A tick is followed handler by handler, each with a lemma of what it
keeps.

The other three speak of history, and rest on a second invariant, `AccountInv`,
which is inductive beside the first (and was model-checked with it).  Of the
slots: a slot in preparation is later than the one sown last (`Prepared`), and
what is sown last cannot be sown again - its crop stands, its time is over, or it
is a winter crop's that was last year's (`FirstUsed`, `SecondUsed`); the turn
moves the chain and this account with it.  Under a standing mark both may take up
an excuse instead, and a sowing that goes on before its months (`EarlySown`) has
earned one more than it needs.  This is where `SeasonAssumption` is
needed: a winter crop reaped in the month it is sown in could be sown twice.  Of
the grams: what is laid is the share of the whole, short of it by less than a
gram in each part (`SharesLaid`), so that the last share is what is left.  Of
November's word: it is the answer `ArrivingWinterSlotLost` would still give
(`Announced`), to the turn, and then the answer of `WinterSlotLost` (`Foretold`):
no sowing is open after it, the snow leaves a winter crop, and an order that
changes the chain withdraws the word.

Results: `FieldInvariant`, `RowsLoad` (under `Careful`, see section 6),
`SoilIsSettled`, `OneCutIsGiven`, `AccountsStand`, `SlotsAreSownInTurn`,
`ReapingIsWhole`, `LostSlotIsForetold` - all the properties of the run, for any
crops, weather, hands and chains, and lives of any length.

What stays with the model checker:

- liveness (`StepEnds`, `RunEnds`), which the provers do not reach;
- the properties of `BuildingSite` and `DistrictYear` (grams summed over stores,
  each moved by a door of its own), of `LabourDay` and of `Logistics`: no step of
  theirs is beyond the provers, and their invariants are still to be found.

## 6. Findings

A run that must end in a counterexample.

`MCUnloadable`: `MarkMeadow` turns an idle fallow into a meadow and leaves its
autumn furrow's mark (`meadow_mark.cpp:300-303`); `PreviewFallow` does not ask for
it (`meadow_mark.cpp:124-127`).  A furrow the turn found part-turned stands
on just such a fallow once its chain is taken off.  The mark may stand "on
kPlowing ... or on kIdle with work owed" (`land_state.h:617-618`), and the load
fails on any other row (`save_rows.cpp:1424-1428`): the game saved next does not
load.  Ploughing the meadow up again leaves an idle row with the mark and no work
owed, which is refused as well.

## 7. Observations

Met while modelling, and not made a run of.  The code and its texts disagree:

- The emptying of a store carries from its whole stock (`field_haul.cpp:773`) and
  takes along what a repair holds back there; the repair then builds in grams
  that lie elsewhere.  `unit_state.h:242-244` has every other taker take only
  what is not reserved.  `GramsKept` fails in `MCBuildingSite` with `Careful = FALSE`.
- The snow day takes off the fields a debt own carts are already carrying
  (`district_plan.cpp:236`); the collection's door counts it out
  (`district_carts.cpp:103-105`).  `OwedOnce` of `DistrictYear` says it, and fails
  as an invariant of `MCDistrictYear`.
- A mown fallow ploughed up in the middle of its cut and marked again is cut a
  second time in the year: the cut's shares go and no day of a cut is
  kept, against "ONE CUT A CALENDAR YEAR" (`field_work.cpp:1038`).  `OneCutAYear`
  leaves such years out.  What was mown since the morning's lay is dropped.
- A heap carted off to the last gram keeps its name, though `reaped_resource` is
  Invalid exactly when `reaped_grams` is 0 (`land_state.h`).
- `manure_state.h` leaves the uncarted part of a dose in the heap; with
  `manure_late_spread_free` `CancelLateManure` spreads it for nothing.
- A winter crop whose reaping has gone on till its own slot is the next again is
  lost to `ArrivingWinterSlotLost`, which does not take a reaping for a crop in
  hand (`land_state.h:831-832`), and in hand to `WinterSlotLost`
  (`land_state.h:804-806`), though the second "answers the same field the same
  way" (`land_state.h:820-821`).  `LostSlotIsSaid` leaves such a field out.
- A fresh chain's winter crop still being sown at the turn is not its
  `first_winter_standing`, which asks for `kGrowing`
  (`production_system.cpp:858-861`): the mark stays, the next turn holds the chain
  again, and the same season is sown a second time the next autumn - against "the
  turn into its year holds the chain once more and spends it"
  (`land_state.h:316-324`).  `MCFields` reaches it in the life that names a rye
  first.  `SlotsInTurn` has it as its one exception: each turn that finds that
  sowing unfinished excuses one sowing again, and anything beyond fails.
- After a load that carries the waiting batch the next journal entry has
  sequence 0 (`session.cpp:708`), though `JournalEntry::sequence` is documented
  as the position in that batch (`session.h:403-405`).
- A long unbudgeted run carries a reader past events of its own steps
  (`session.cpp:441`); `session.h:556-559` says it holds every one.
- An appointment is refused because of a work order of the same batch that is
  then refused itself (`labor_system.cpp:383`); `manual/76-work-orders.md:120-131`
  says the one it conflicts with stays.
- A fall to the pencil's line in the step in which a blizzard moves the standing
  summons is neither marked nor asked (`district_trip.cpp:290`), against
  `district_trip.h:53-56`: the summons no longer has the day it had a tick ago.
  `PencilAsked` is therefore said of the other steps.
- After a failed year, a year nothing was asked of calls him again
  (`district_trip.cpp:268`, `district_trip.h:46`): no verdict was written.
- What is carted to an upgrade in an hour is held back by the walk over the rows
  at the end of that hour, and construction reads its orders before the walk
  (`construction_system.cpp:338`): a works started in that hour takes the grams
  just delivered, which `site_supply.cpp:35-36` says it must not.
- The last ripe field reaped on a day off worked for the harvest makes its own
  close read a day off (`day_off.cpp:76`): the evening's rest, the series and the
  labour book follow the close, the pay the morning.  The comment above the
  other half of the condition (`day_off.cpp:31-33`) guards against just that.
- A carter on a paused load carts it to the end of the day, and in the hour of
  the pause the plan as it stood can still send one onto it: neither `FollowThePlan` nor
  `RunHour` looks at `paused`.  `logistics_system.cpp:208-212` has him finish the
  hour and not be sent back.  `PlanHeeds` is therefore said of the plan.
- A task's `aged_from_day` is "the day of the last trip on it"
  (`logistics_state.h:169-171`), but only what a carter stands on at midnight is
  marked: a load carted by the top-up or along a chain ages on.
- A re-plan between the halves of a pooled trip drops the second
  (`logistics_plan.cpp:965-970`), so a loaded cart turns round with its load;
  `logistics_state.h:20-21` has what is loaded carried to the end.
- The harvest's switch turned at midday changes the day's kind as well: the hole
  `rush.cpp:117-120` shuts for the cancelled day off.
- A day off declared working on the same day is not in the series when it is
  worked (the series is counted at midnight): the first costs nothing, though
  `order_state.h:647-662` gives it the same price.

Others:

- The seed is asked for when the sowing opens and taken when it ends: the second
  of two fields may be sown with none.
- On a cancelled day a man whose job vanished and who is placed again by a later
  top-up is charged twice; a day declared working in its last hour is answered
  Done and has no effect; a declaration for today overwrites a cancellation
  that stands for a later day.
- After a re-plan a cart sets out at the hour its last leg's arrival falls in,
  some minutes before it arrives (`logistics_plan.cpp:976`).
- Without a horse yard the tasks stand still but their day-marks do not: the days
  count when a yard is there again.
- Posts' holders and substitutes are not asked whether they are rested.
- A driver who was paid off keeps `rides_horse`, so his passengers' cart reads as
  come.
- The livestock order counts the heads in the herds and not those on the road
  (`district_limit.cpp:313-315`): several may be bought for one place.
- What an own delivery brings above the debt is dropped at the turn though its
  order was Done; a request given in the turn's hour is Done and cleared.

- A load puts the stamp's serial back to 0, so "two stamps with equal serials
  name the same state" (`session.h:178-180`) holds between loads only.
- `TakeJournal`'s comment says the journal begins anew when the world is
  replaced (`session.h:1138`); the code keeps it, and a line below says so.
- The race `CancelOrder`'s comment describes (`session.h:1037-1041`) cannot
  occur: nothing runs between the look and the staging.
- No consumer sets `kActive`; the statuses after `kAccepted` are the terminal
  ones.
- The comment on `row_by_id` (`state_table.h`) says it has an entry for id 0
  always; a fresh table has none.
- The rows of the book do not stand in issue order after a sweep (swap with
  last): of two appointments accepted in different days for one place, the
  later given may be applied first (`labor_system.cpp:399-401`).
- The night trade returns to the pantries in an hour of its own; were it the
  plot's or the meal's, `FoldPantryFlows` would book it as theirs.
- Terms of the summons shorter than three days pass the catalogue and would let
  a summons' morning overwrite a trip he is still on in the mud; see
  `TermAssumption`.

## 8. What is not modelled

- **The ranking of a placement, hauling prices, rations, spoilage, yields**: long pure functions
  over floats; their inputs and outputs stay in bounds by clamps, and what would
  be worth saying about them is numerical.
- **Shops, felling and digging, burial and housing, the alarms' waits**: state
  machines worth a module each; section 9.
- **The save's byte stream, CSV tables, log, reports**: pure I/O.
- **enkiTS**: vendored; what the engine relies on is an assumption of
  `StepEngine` (every item in exactly one range, the wait returns when all have
  run).
- In `PostOrders`: the day's placement and pay, `ApplyStandingWork`, the rush
  (the three are in `LabourDay`), and changes of age and eligibility (constants).
- In `DistrictTrip`: what a visit finds, how a year is judged, prices of the
  bargain and the avatars' rules of it.
- In `BuildingSite`: prices and seams (a seam is days), suspended works, graves,
  plots, fires, winter stops, roads, raised flags, the families of a house that
  falls; days off, mowing days and crewless days in the idle count.  Two hours
  stand for the day's, and a brigade does one deed in an hour.
- In `DistrictYear`: one position, which is also the seed and the payment in
  kind, for all; the figure the worked land gives (a choice), how much carters
  get done (a choice), the arithmetic of the reputation and the positions' mean,
  the milk, the auditor's debt, the machine station's column, the ceilings of an
  unsealed fund, the event at the gate.
- In `LabourDay`: the ranking of a plan, the avral, the other posts and modules
  and the pay of a sitting post, people's carts and carriers on foot, truancy,
  funerals, rain and frost, holidays and closed years, leisure, deaths by day;
  horses fall at midnight only, a car's passenger is alone, the hospital's term
  is a choice.
- In `Logistics`: a trip's halves and back loads (one loaded leg to the receiver),
  carriers on foot and their pairs, the people's cart, riders and the evening's
  seats, the price drawn from the plan, shelf life, cold and the sites' queue in
  the order of a ring, the lamp's clock, a lost horse yard, roads rebuilt, the
  ranking of the placement (any load that is offered).
- In `Fields`: one row, the others a choice; a day late, a stress or a repeated
  year costs a grade where the code multiplies factors, and the floor of a late
  sowing is never reached; straw, rot, area, contour, the price of a cart, the weather's
  alarms; a heap is its name.

## 9. Plan

Order of the work, the most important first; done parts are the ones above.

1. State tables, the step, the session, the events, posts, the trip, works on
   the units, the year with the district, the day of labour, the save's
   dictionary, the groom's logistics, a row of land: done.
2. **Proofs** (below): the modules added last are written for them, with
   functions over the rows and no RECURSIVE operator.
3. **Shops** (a batch between its input, its hands and a full store), **burial and
   housing** (a family between a house that falls and one that is finished),
   **the alarms' waits** of production; last the **herds**' heads (a birth with no
   roof to go to, a gift that waits for a neighbour).

Runs that only repeat a comparison gave their place to new ones, as the first
disagreements of section 7 did.

Proofs to come: the groom's tasks and their loads; the waits of a day of labour;
then the grams of a building site and of a year, which are sums over stores.
