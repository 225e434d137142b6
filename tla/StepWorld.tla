------------------------------ MODULE StepWorld ------------------------------
(***************************************************************************)
(* The work of the six phases of one step on a world cut down to the       *)
(* tables their interplay is about: residents, families, fields, the order *)
(* book, the outbox and the year's ledger.                                 *)
(*                                                                         *)
(* A sequential phase is an operator from <previous, current> to the new   *)
(* current.  A parallel phase is given per item: ItemOf is what one item   *)
(* computes from what it reads, Stored is the write of its owned rows, and *)
(* AtOnce is the phase with a set of items done simultaneously from the    *)
(* same world - the meaning buffer-law rules 4 to 7 (core_sim/step.h) give *)
(* a parallel phase.                                                       *)
(*                                                                         *)
(* Rows stand in sequences, as in the tables; a row carries its id, and a  *)
(* removal is swap-with-last.  Amounts and metrics are small integers.     *)
(***************************************************************************)
EXTENDS OrderBookOps

CONSTANTS kTicksPerDay,   \* 24 in the code
          kMetricMax,     \* 100 in the code
          kDowryDivisor,  \* 4 in the code: a dowry is a quarter of the pantry
          kRunCap,        \* 255 in the code: a run of days saturates there
          Weather         \* the weathers told apart: a hot day or not

ASSUME ClockAssumption == kTicksPerDay \in Nat /\ kTicksPerDay >= 3
ASSUME ScaleAssumption ==
  kMetricMax \in Nat /\ kDowryDivisor \in Nat \ {0} /\ kRunCap \in Nat

Hour(tick) == tick % kTicksPerDay
NewDay(w)  == Hour(w.tick) = 0
PlotHour(w) == Hour(w.tick) = kTicksPerDay - 2
MealHour(w) == Hour(w.tick) = kTicksPerDay - 1

RowOfId(rows, id) ==
  IF \E r \in DOMAIN rows : rows[r].id = id
  THEN CHOOSE r \in DOMAIN rows : rows[r].id = id
  ELSE kNoRow

Without(rows, id) ==
  IF RowOfId(rows, id) = kNoRow THEN rows ELSE LastInto(rows, RowOfId(rows, id))

\* The rows of a family's members; membership is read off every resident.
Members(w, f) == {r \in DOMAIN w.residents : w.residents[r].family = w.families[f].id}

Lives(w, family) == \E r \in DOMAIN w.residents : w.residents[r].family = family

-----------------------------------------------------------------------------
(* The start of the step and phase 1.                                      *)

\* ApplyStaged: the outbox is emptied, the batch applied.
Prologue(w, issued, cancelled) ==
  [w EXCEPT !.step_events = <<>>, !.orders = ApplyBatch(w.orders, issued, cancelled)]

TimeAndWeather(previous, current, chance) ==
  [current EXCEPT !.tick = previous.tick + 1, !.weather = chance.weather]

-----------------------------------------------------------------------------
(* Phase 2, needs: one meal a day per family, at the last hour.            *)

NoRows == [r \in {} |-> 0]
NothingWritten == [families |-> NoRows, residents |-> NoRows, fields |-> NoRows]

\* The heavy-day surcharge is read from the previous buffer by row index.
NeedKcal(previous, current, f) ==
  SumFunction([r \in Members(current, f) |->
           IF r \in DOMAIN previous.residents /\ previous.residents[r].heavy THEN 2 ELSE 1])

\* mutant: the pantry of whatever family the first resident belongs to
Bug_NeighboursPantry(current, f, need) ==
  LET other == RowOfId(current.families, current.residents[1].family)
  IN IF current.families[other].pantry < need THEN current.families[other].pantry ELSE need

EatenKcal(current, f, need) ==
  IF current.families[f].pantry < need THEN current.families[f].pantry ELSE need

\* How much of the norm was met; a household that owes nobody is fed.
SatietyTarget(eaten, need) == IF need = 0 THEN kMetricMax ELSE (kMetricMax * eaten) \div need

Toward(value, target) ==
  IF value < target THEN value + 1 ELSE IF value > target THEN value - 1 ELSE value

FamilyMeal(previous, current, f) ==
  LET need  == NeedKcal(previous, current, f)
      eaten == EatenKcal(current, f, need)
  IN IF ~MealHour(current) THEN NothingWritten ELSE
     [families  |-> [g \in {f} |-> [current.families[f] EXCEPT !.pantry = @ - eaten]],
      residents |-> [r \in Members(current, f) |->
                       [current.residents[r] EXCEPT
                          !.satiety = Toward(@, SatietyTarget(eaten, need))]],
      fields    |-> NoRows]

-----------------------------------------------------------------------------
(* Phase 3, decisions: the orders, the day's labour, the day's demography. *)

\* A consumer answers every pending order: its subject lives, or it does not.
OrderTaken(w, row) ==
  IF row.status # kPending THEN row
  ELSE IF RowOfId(w.residents, row.resident) # kNoRow
       THEN [row EXCEPT !.status = kDone]
       ELSE [row EXCEPT !.status = kRefused, !.refusal = "kNoSuchSubject"]

TakeOrders(w) ==
  [w EXCEPT !.orders.rows = [r \in DOMAIN w.orders.rows |-> OrderTaken(w, w.orders.rows[r])]]

\* The morning's placement puts somebody on heavy work; the day's close, at
\* the last hour, takes everybody's work off.
Labour(w, chance) ==
  [w EXCEPT !.residents = [r \in DOMAIN w.residents |->
     [w.residents[r] EXCEPT
        !.heavy = IF MealHour(w) THEN FALSE
                  ELSE IF NewDay(w) THEN w.residents[r].id = chance.heavy
                  ELSE w.residents[r].heavy]]]

\* mutant: an uninherited pantry vanishes with its row
Bug_PantryGone(w, family) == [w EXCEPT !.families = Without(w.families, family)]

\* The pantry goes to the first household in row order somebody lives in;
\* with no such household it is booked as lost.
Inherited(w, family) ==
  LET left  == w.families[RowOfId(w.families, family)].pantry
      heirs == {f \in DOMAIN w.families : w.families[f].id # family /\ Lives(w, w.families[f].id)}
      heir  == CHOOSE f \in heirs : \A g \in heirs : f <= g
      given == IF heirs = {} THEN [w EXCEPT !.ledger.lost = @ + left]
               ELSE [w EXCEPT !.families[heir].pantry = @ + left]
  IN [given EXCEPT !.families = Without(given.families, family)]

DropFamilyIfEmpty(w, family) ==
  IF Lives(w, family) \/ RowOfId(w.families, family) = kNoRow THEN w ELSE Inherited(w, family)

\* mutant: the emptied household keeps its row
Bug_RemoveResidentOnly(w, id) == [w EXCEPT !.residents = Without(w.residents, id)]

RemoveResident(w, id) ==
  LET r == RowOfId(w.residents, id) IN
  IF r = kNoRow THEN w
  ELSE DropFamilyIfEmpty([w EXCEPT !.residents = Without(w.residents, id)], w.residents[r].family)

Newborn(w, family) ==
  [id |-> w.next_resident, family |-> family, heavy |-> FALSE, satiety |-> kMetricMax, memory |-> -1]

Birth(w, mother) ==
  LET family == w.residents[RowOfId(w.residents, mother)].family IN
  [w EXCEPT !.residents = Append(@, Newborn(w, family)), !.next_resident = @ + 1]

PassDowry(w, from, to) ==
  LET source == RowOfId(w.families, from)
      target == RowOfId(w.families, to)
      share  == w.families[source].pantry \div kDowryDivisor
  IN [w EXCEPT !.families[source].pantry = @ - share, !.families[target].pantry = @ + share]

MovedIn(w, people, home) ==
  [w EXCEPT !.residents = [r \in DOMAIN w.residents |->
     IF w.residents[r].id \in people THEN [w.residents[r] EXCEPT !.family = home]
     ELSE w.residents[r]]]

\* The wedding into a new household: the row, both dowries, the couple moved
\* in, their old yards dropped if emptied.
Wed(w, bride, groom) ==
  LET home      == w.next_family
      bride_was == w.residents[RowOfId(w.residents, bride)].family
      groom_was == w.residents[RowOfId(w.residents, groom)].family
      founded   == [w EXCEPT !.families = Append(@, [id |-> home, pantry |-> 0, mood |-> kMetricMax]),
                             !.next_family = @ + 1]
      gifted    == PassDowry(PassDowry(founded, bride_was, home), groom_was, home)
      moved     == MovedIn(gifted, {bride, groom}, home)
  IN DropFamilyIfEmpty(DropFamilyIfEmpty(moved, bride_was), groom_was)

Happens(w, turn) ==
  CASE turn.kind = "death"   -> RemoveResident(w, turn.who)
    [] turn.kind = "birth"   -> Birth(w, turn.who)
    [] turn.kind = "wedding" -> Wed(w, turn.who, turn.with)
    [] turn.kind = "quiet"   -> w

Demography(w, chance) == IF NewDay(w) THEN Happens(w, chance.turn) ELSE w

Decisions(w, chance) == Demography(TakeOrders(Labour(w, chance)), chance)

-----------------------------------------------------------------------------
(* Phase 4, production: a field counts its run of hot days, once a day.    *)

FieldGrowth(current, f) ==
  IF ~NewDay(current) THEN NothingWritten ELSE
  [families |-> NoRows, residents |-> NoRows,
   fields   |-> [g \in {f} |->
     [current.fields[f] EXCEPT
        !.drought_run = IF current.weather # "hot" THEN 0
                        ELSE IF @ < kRunCap THEN @ + 1 ELSE kRunCap]]]

-----------------------------------------------------------------------------
(* Phase 5, metrics: the plot, the family's mood and its members' memory.  *)

\* A garden pays whoever is left in the yard.
PlotYield(current, f) == IF PlotHour(current) THEN 1 ELSE 0

\* The mean satiety of the members; an empty row keeps its last value.
Mood(current, f) ==
  LET mine == Members(current, f) IN
  IF mine = {} THEN current.families[f].mood
  ELSE SumFunction([r \in mine |-> current.residents[r].satiety]) \div Cardinality(mine)

\* Seeded by the first reading, then moved once a day.
Remembered(current, r) ==
  IF current.residents[r].memory < 0 \/ NewDay(current)
  THEN current.residents[r].satiety ELSE current.residents[r].memory

FamilyMetrics(current, f) ==
  [families  |-> [g \in {f} |-> [current.families[f] EXCEPT
                                   !.pantry = @ + PlotYield(current, f),
                                   !.mood   = Mood(current, f)]],
   residents |-> [r \in Members(current, f) |->
                    [current.residents[r] EXCEPT !.memory = Remembered(current, r)]],
   fields    |-> NoRows]

-----------------------------------------------------------------------------
(* The parallel phases by item.                                            *)

kTimeAndWeather == "time_and_weather"
kNeeds          == "needs"
kDecisions      == "decisions"
kProduction     == "production"
kMetrics        == "metrics"
kEvents         == "events"

Parallel == {kNeeds, kProduction, kMetrics}

\* ParallelItemCount reads the state being built.
ItemCount(phase, current) ==
  IF phase = kProduction THEN Len(current.fields) ELSE Len(current.families)

ItemOf(phase, previous, current, item) ==
  CASE phase = kNeeds      -> FamilyMeal(previous, current, item)
    [] phase = kProduction -> FieldGrowth(current, item)
    [] phase = kMetrics    -> FamilyMetrics(current, item)

Over(rows, part) == [r \in DOMAIN rows |-> IF r \in DOMAIN part THEN part[r] ELSE rows[r]]

\* The write of one item: the rows it owns, in any table.
Stored(w, part) ==
  [w EXCEPT !.families  = Over(w.families, part.families),
            !.residents = Over(w.residents, part.residents),
            !.fields    = Over(w.fields, part.fields)]

\* Each row as its writer left it, or as it was; parts[i] is what item i wrote.
Merged(rows, parts) ==
  [r \in DOMAIN rows |->
     IF \E i \in DOMAIN parts : r \in DOMAIN parts[i]
     THEN parts[CHOOSE i \in DOMAIN parts : r \in DOMAIN parts[i]][r]
     ELSE rows[r]]

AtOnce(phase, previous, w, items) ==
  [w EXCEPT
     !.families  = Merged(w.families,  [i \in items |-> ItemOf(phase, previous, w, i).families]),
     !.residents = Merged(w.residents, [i \in items |-> ItemOf(phase, previous, w, i).residents]),
     !.fields    = Merged(w.fields,    [i \in items |-> ItemOf(phase, previous, w, i).fields])]

-----------------------------------------------------------------------------
(* Phase 6, events: the pantries' flows go into the book, then the sweep.  *)

PantryOf(w, id) == w.families[RowOfId(w.families, id)].pantry

\* What every household both buffers know gained over the step.
PantryFlow(previous, current) ==
  SumFunction([f \in {g \in DOMAIN current.families :
                  RowOfId(previous.families, current.families[g].id) # kNoRow}
         |-> current.families[f].pantry - PantryOf(previous, current.families[f].id)])

\* mutant: whatever is not the meal's hour is taken for the plot's
Bug_FoldOtherHour(previous, current) ==
  IF MealHour(current) THEN [current.ledger EXCEPT !.eaten = @ - PantryFlow(previous, current)]
  ELSE [current.ledger EXCEPT !.harvest = @ + PantryFlow(previous, current)]

\* FoldPantryFlows: at the plot's hour and at the meal's, and at no other,
\* the pantries' difference between the buffers is that flow.
FoldPantryFlows(previous, current) ==
  CASE PlotHour(current) ->
         [current.ledger EXCEPT !.harvest = @ + PantryFlow(previous, current)]
    [] MealHour(current) ->
         [current.ledger EXCEPT !.eaten = @ - PantryFlow(previous, current)]
    [] OTHER -> current.ledger

Events(previous, current) ==
  [current EXCEPT !.ledger = FoldPantryFlows(previous, current),
                  !.orders = SweptBook(current.orders),
                  !.step_events = current.step_events \o Answers(current.orders)]

-----------------------------------------------------------------------------
(* The step as a whole, phase after phase.  A batch is what the boundary   *)
(* staged; `chance` is what the step's random draws will come out as: the  *)
(* weather of the day, who is put on heavy work, the day's demography.     *)

AfterTime(w, batch, chance) ==
  TimeAndWeather(w, Prologue(w, batch.issued, batch.cancelled), chance)

ItemsOf(phase, current) == 1..ItemCount(phase, current)

AfterNeeds(w, batch, chance) ==
  LET current == AfterTime(w, batch, chance)
  IN AtOnce(kNeeds, w, current, ItemsOf(kNeeds, current))

AfterDecisions(w, batch, chance) == Decisions(AfterNeeds(w, batch, chance), chance)

AfterProduction(w, batch, chance) ==
  LET current == AfterDecisions(w, batch, chance)
  IN AtOnce(kProduction, w, current, ItemsOf(kProduction, current))

AfterMetrics(w, batch, chance) ==
  LET current == AfterProduction(w, batch, chance)
  IN AtOnce(kMetrics, w, current, ItemsOf(kMetrics, current))

StepOf(w, batch, chance) == Events(w, AfterMetrics(w, batch, chance))

Quiet == [kind |-> "quiet"]

Turns(w) ==
  LET ids == {w.residents[r].id : r \in DOMAIN w.residents} IN
  {Quiet} \cup [kind : {"death", "birth"}, who : ids]
          \cup [kind : {"wedding"}, who : ids, with : ids]

\* The weddings the day would not plan are not drawn: two people of one yard.
Plausible(w, turn) ==
  turn.kind = "wedding" =>
    w.residents[RowOfId(w.residents, turn.who)].family
      # w.residents[RowOfId(w.residents, turn.with)].family

\* Weather, placement and demography are drawn when a day begins.
Chances(w) ==
  IF Hour(w.tick + 1) = 0
  THEN [weather : Weather,
        heavy   : {0} \cup {w.residents[r].id : r \in DOMAIN w.residents},
        turn    : {turn \in Turns(w) : Plausible(w, turn)}]
  ELSE {[weather |-> w.weather, heavy |-> 0, turn |-> Quiet]}

\* No two rows of a table carry one id, and the counters are above them all.
IdsOnce(rows, next) ==
  /\ \A r \in DOMAIN rows : rows[r].id < next
  /\ \A r, s \in DOMAIN rows : rows[r].id = rows[s].id => r = s

WellFormed(w) ==
  /\ IdsOnce(w.residents, w.next_resident)
  /\ IdsOnce(w.families, w.next_family)

\* Nobody without a household, and no household without anybody.
Housed(w) ==
  {w.residents[r].family : r \in DOMAIN w.residents}
    = {w.families[f].id : f \in DOMAIN w.families}

\* The tables a world is made of, the book and the outbox left open.
ResidentRow == [id : Nat, family : Nat, heavy : BOOLEAN, satiety : Int, memory : Int]
FamilyRow   == [id : Nat, pantry : Int, mood : Int]
FieldRow    == [drought_run : Nat]

WorldWith(book, outbox) ==
  [tick : Nat, weather : Weather, residents : Seq(ResidentRow), families : Seq(FamilyRow),
   fields : Seq(FieldRow), orders : {book}, step_events : {outbox},
   next_resident : Nat, next_family : Nat,
   ledger : [harvest : Int, eaten : Int, lost : Int]]

IsWorld(w) == w \in WorldWith(w.orders, w.step_events)

Stock(w) == SumFunction([f \in DOMAIN w.families |-> w.families[f].pantry])

\* What the pantries hold beyond what the year's book says came and went.
Unbooked(w) == Stock(w) - w.ledger.harvest + w.ledger.eaten + w.ledger.lost
=============================================================================
