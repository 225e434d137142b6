---------------------------- MODULE DistrictYear ----------------------------
(* The village's year with the district (core_production): the plan that is *)
(* named in January and judged at the turn, the four doors grain leaves by  *)
(* for it, the lots and heads bought on the limit, and the loan of seed.    *)
(*                                                                          *)
(* A day has two ticks, the dawn and the evening.  A step advances the      *)
(* clock, reads the orders, and runs what the hour brings, in the code's    *)
(* order.  What the fields give, what is eaten and which store is shut      *)
(* comes from outside, between steps.  Grams are small numbers.             *)
EXTENDS StateTableOps, FiniteSets, FiniteSetsExt, Passes

CONSTANTS
  Res,           \* goods, 1..n in the order of the dense vectors
  Grain,         \* the plan's position, the loan's seed, the payment in kind
  Room,          \* [Res -> Nat]: what the stores of a good hold
  StartStock,    \* [Res -> Nat]
  DaysPerMonth, DaysPerYear,
  SeedNorm,      \* [0..DaysPerYear-1 -> Nat]: seed the stores must keep that day
  SettledSnow,   \* the day of the year on which the cover may settle
  FirstDue,      \* first_plan_start_stock_percent of the start stock
  Dues,          \* figures the worked land may give
  MetPercent,    \* plan_met_share
  SnowPercent,   \* weather_year_snow_share
  ToTrial,       \* plan_failed_years_to_trial
  Lots,          \* lot |-> [goods, points, heads, grain, logs]: its price in
                 \* points and in grain; logs are fetched by own carts
  Places,        \* places for stock, roofs and yards
  BasePoints, MetPoints, CarryPercent,
  DeliveryDays,  \* a set: the base days and the delay drawn over them
  MarkupPercent, \* goods_loan_markup
  Kept,          \* what a repayment may have to keep for the next position
  Lives          \* bounds of a run, each a record: its last tick, and the most
                 \* orders, grams reaped, grams eaten and doors shut or opened

ASSUME ResAssumption == Res = 1..Cardinality(Res) /\ Grain \in Res
ASSUME CalendarAssumption ==
  /\ DaysPerMonth \in Nat \ {0} /\ DaysPerYear \in Nat \ {0}
  /\ DaysPerYear % DaysPerMonth = 0 /\ SettledSnow \in 0..(DaysPerYear - 1)
  /\ SeedNorm \in [0..(DaysPerYear - 1) -> Nat]
ASSUME KnobAssumption == /\ MetPercent \in 1..100 /\ SnowPercent \in 1..100
                         /\ ToTrial \in Nat \ {0} /\ MarkupPercent \in Nat

VARIABLES
  world,  \* the state the functions below read and write
  book    \* what really happened, told beside it
vars == <<world, book>>

Nil == [r \in Res |-> 0]
Carries(goods) == \E r \in Res : goods[r] > 0
EachRes(f(_, _), w) == Through(f, w, Upto(Cardinality(Res)))
Total(t, count(_)) == MapThenSumSet(LAMBDA i : count(t.rows[i]), DOMAIN t.rows)

(* -- the calendar ------------------------------------------------------- *)
Day(w) == w.tick \div 2
Evening(w) == w.tick % 2 = 1
DayOfYear(day) == day % DaysPerYear
YearOf(day) == day \div DaysPerYear
NewYearsDawn(w) == ~Evening(w) /\ DayOfYear(Day(w)) = 0
SeedDayAtTheTurn(w) == Above(Day(w), 1)

(* -- the stores' doors -------------------------------------------------- *)
SomeStoreAccepts(w, r) == ~w.shut[r]
DeliverToStores(w, r, amount) ==
  IF w.shut[r] THEN 0 ELSE Least(amount, Above(Room[r], w.stock[r]))

HeldForSeed(w, asOf) == Above(SeedNorm[DayOfYear(asOf)], w.unsealed)
DeliverableForPlan(w, asOf, withHeaps) ==
  Above(w.stock[Grain] + (IF withHeaps THEN w.heap ELSE 0), HeldForSeed(w, asOf))
DeliverableAboveSeed(w, asOf) == DeliverableForPlan(w, asOf, TRUE)
\* mutant: the heap on the field frees the seed in the barn
Bug_HeapsFreeTheSeed(w, asOf) == Least(w.stock[Grain], DeliverableAboveSeed(w, asOf))
DeliverableFromStores(w, asOf) == DeliverableForPlan(w, asOf, FALSE)

Owed(w) == Above(w.plan.due, w.plan.delivered)
\* The position grows by what is taken out of the stores for it.
ShipFromStores(w, grams) ==
  LET taken == Least(grams, w.stock[Grain])
  IN [w EXCEPT !.stock[Grain] = @ - taken, !.plan.delivered = @ + taken]

(* -- the district's carts: requests, own deliveries, collections --------- *)
OutboundPendingGrams(w) ==
  Total(w.deliveries, LAMBDA row : IF row.outbound THEN row.goods[Grain] ELSE 0)

LowerPlanRequest(w, delivered) ==
  [w EXCEPT !.plan.requested = Above(@, delivered)]

\* An order of `amount` for the plan, nought being what is owed: raised with
\* the district's cart, or put on a row of the village's own.
RequestPlanDelivery(w, order) ==
  LET pending == OutboundPendingGrams(w)
      owed    == w.plan.due - w.plan.delivered - pending
      asked   == IF order.amount > 0 THEN order.amount ELSE owed
      more    == IF order.amount > 0 THEN asked ELSE asked - w.plan.requested
      wanted  == Least(asked, DeliverableFromStores(w, Day(w)) - pending)
      row     == [goods |-> [Nil EXCEPT ![Grain] = wanted], own |-> TRUE,
                  outbound |-> TRUE, arrive |-> Day(w)]
  IN IF ~w.plan.announced \/ w.plan.due <= 0 THEN w
     ELSE IF order.own
     THEN IF wanted <= 0 THEN w
          ELSE [LowerPlanRequest(w, wanted)
                  EXCEPT !.deliveries = AppendRow(@, row)]
     ELSE IF more <= 0 THEN w ELSE [w EXCEPT !.plan.requested = @ + more]

DistrictCollectsToday(w) ==
  Day(w) % DaysPerMonth = DaysPerMonth - 1 /\ ~w.mud

SettleDistrictCollection(w) ==
  LET wanted == Least(w.plan.requested,
                      DeliverableFromStores(w, Day(w)) - OutboundPendingGrams(w))
  IN IF ~DistrictCollectsToday(w) \/ wanted <= 0 THEN w
     ELSE [ShipFromStores(w, wanted) EXCEPT !.plan.requested = @ - wanted]

\* One row of the own carts: `budget` grams of it are through the door today,
\* in the order of the goods.
CartRow(w, i, budget) ==
  LET cartGood(a, r) ==
        LET row    == a.w.deliveries.rows[i]
            wanted == Least(row.goods[r], a.left)
            moved  == IF row.outbound
                      THEN Least(wanted, DeliverableFromStores(a.w, Day(a.w)))
                      ELSE DeliverToStores(a.w, r, wanted)
            w1     == IF row.outbound THEN ShipFromStores(a.w, moved)
                      ELSE [a.w EXCEPT !.stock[r] = @ + moved]
        IN IF wanted <= 0 THEN a
           ELSE [w    |-> [w1 EXCEPT !.deliveries.rows[i].goods[r] = @ - moved],
                 left |-> a.left - moved]
  IN EachRes(cartGood, [w |-> w, left |-> budget]).w

Ripe(w) == {i \in DOMAIN w.deliveries.rows : w.deliveries.rows[i].arrive <= Day(w)}
OwnRows(w) == {i \in Ripe(w) : w.deliveries.rows[i].own}
Movable(w, i) ==
  LET row == w.deliveries.rows[i] IN
  MapThenSumSet(LAMBDA r :
    Least(row.goods[r], IF row.outbound THEN DeliverableFromStores(w, Day(w))
                        ELSE IF w.shut[r] THEN 0 ELSE Above(Room[r], w.stock[r])),
    {r \in Res : row.goods[r] > 0})

\* Rows emptied in the walk go after it, by id.
\* mutant: by the index they had in the walk
DropEmptied(w, rows) ==
  LET drop(w1, i) == IF i \notin rows THEN w1 ELSE
        [w1 EXCEPT !.deliveries = RemoveRow(@, w.deliveries.row_ids[i])]
  IN Through(drop, w, Upto(Len(w.deliveries.rows)))
\* mutant: the cart leaves with what found no room
Bug_EmptyAmong(w, rows) == rows
EmptyAmong(w, rows) == {i \in rows : ~Carries(w.deliveries.rows[i].goods)}

\* carted[i]: what the carters' day on row i comes to.
SettleDistrictLotHauling(w, carted) ==
  LET cart(w1, i) == IF i \notin OwnRows(w1) THEN w1
                     ELSE CartRow(w1, i, Least(carted[i], Movable(w1, i)))
      after == Through(cart, w, Upto(Len(w.deliveries.rows)))
  IN With(after, LAMBDA w1 : DropEmptied(w1, EmptyAmong(w1, OwnRows(w1))))

(* -- the limit ---------------------------------------------------------- *)
ArriveLimitDeliveries(w) ==
  LET carts == Ripe(w) \ OwnRows(w)
      place(i, w1, r) ==
        LET placed == DeliverToStores(w1, r, w1.deliveries.rows[i].goods[r])
        IN [w1 EXCEPT !.stock[r] = @ + placed,
                      !.deliveries.rows[i].goods[r] = @ - placed]
      arrive(w1, i) == IF i \notin carts THEN w1
                       ELSE EachRes(LAMBDA w2, r : place(i, w2, r), w1)
  IN With(Through(arrive, w, Upto(Len(w.deliveries.rows))),
          LAMBDA w1 : DropEmptied(w1, EmptyAmong(w1, carts)))

ArriveLivestock(w) ==
  LET landed == {i \in DOMAIN w.arrivals.rows : w.arrivals.rows[i].arrive <= Day(w)}
      land(w1, i) == IF i \notin landed THEN w1 ELSE
        [w1 EXCEPT !.heads = @ + w.arrivals.rows[i].heads,
                   !.arrivals = RemoveRow(@, w.arrivals.row_ids[i])]
  IN Through(land, w, Upto(Len(w.arrivals.rows)))

KolkhozHeads(w) == w.heads
LotRefused(w, lot, points) ==
  \/ Lots[lot].heads > 0 /\ KolkhozHeads(w) + Lots[lot].heads > Places
  \/ \E r \in Res : Lots[lot].goods[r] > 0 /\ ~SomeStoreAccepts(w, r)
  \/ points < Lots[lot].points

\* In grain, asked whole and above the seed; else in points.
PayLotInGrain(w, price) == [w EXCEPT !.stock[Grain] = @ - price, !.paid = price]

OrderLimitLot(w, order, days) ==
  LET lot     == Lots[order.lot]
      inGrain == order.inGrain /\ lot.grain > 0
      refused == \/ LotRefused(w, order.lot, IF inGrain THEN lot.points ELSE w.points)
                 \/ inGrain /\ DeliverableFromStores(w, Day(w)) < lot.grain
      payed   == IF inGrain THEN PayLotInGrain(w, lot.grain)
                 ELSE [w EXCEPT !.points = @ - lot.points]
  IN IF refused THEN w
     ELSE IF lot.heads > 0
     THEN [payed EXCEPT !.arrivals =
             AppendRow(@, [heads |-> lot.heads, arrive |-> Day(w) + days])]
     ELSE [payed EXCEPT !.deliveries =
             AppendRow(@, [goods |-> lot.goods, own |-> order.own \/ lot.logs,
                           outbound |-> FALSE, arrive |-> Day(w) + days])]

YearLimitPoints(w, met) == BasePoints + (IF met THEN MetPoints ELSE 0)
                           + Above(w.plan.delivered, w.plan.due)
TurnLimitYear(w, points) ==
  [w EXCEPT !.points = points + (@ * CarryPercent) \div 100]

(* -- the loan of seed --------------------------------------------------- *)
WithMarkup(grams) == (grams * (100 + MarkupPercent) + 50) \div 100
GoodsLoanCeiling(w) == SeedNorm[DayOfYear(Day(w))]

\* mutant: the district lends in the turn's own hour too
Bug_LoanRefused(w) ==
  \/ GoodsLoanCeiling(w) <= 0
  \/ w.loan.taken > 0
  \/ w.loan.owed >= GoodsLoanCeiling(w)
  \/ ~SomeStoreAccepts(w, Grain)
LoanRefused(w) ==
  \/ NewYearsDawn(w)
  \/ GoodsLoanCeiling(w) <= 0
  \/ w.loan.taken > 0
  \/ w.loan.owed >= GoodsLoanCeiling(w)
  \/ ~SomeStoreAccepts(w, Grain)

TakeGoodsLoan(w, order, days) ==
  LET ceiling == GoodsLoanCeiling(w)
      lent == IF order.amount > 0 /\ order.amount < ceiling THEN order.amount ELSE ceiling
  IN IF LoanRefused(w) THEN w ELSE
     [w EXCEPT !.loan.taken = @ + lent, !.loan.owed = @ + WithMarkup(lent),
               !.deliveries = AppendRow(@, [goods |-> [Nil EXCEPT ![Grain] = lent],
                                            own |-> FALSE, outbound |-> FALSE,
                                            arrive |-> Day(w) + days])]

\* Out of the stores alone, above the seed and above what the next year's
\* position needs; the rest takes the markup again.
RepayGoodsLoans(w, kept) ==
  LET canPay == Above(DeliverableAboveSeed(w, SeedDayAtTheTurn(w)), w.heap + kept)
      paid   == Least(w.loan.owed, canPay)
  IN [w EXCEPT !.stock[Grain] = @ - paid, !.repaid = paid, !.loan.taken = 0,
               !.loan.owed = IF @ > paid THEN WithMarkup(@ - paid) ELSE 0]

(* -- the plan ----------------------------------------------------------- *)
TakePlanDebtFromFields(w, asOf) ==
  LET taken == Least(w.heap, Least(Owed(w), DeliverableAboveSeed(w, asOf)))
  IN IF ~w.plan.announced \/ taken <= 0 THEN w
     ELSE LowerPlanRequest([w EXCEPT !.heap = @ - taken,
                                     !.plan.delivered = @ + taken], taken)

TurnWillShip(w) == Least(Owed(w), DeliverableAboveSeed(w, SeedDayAtTheTurn(w)))
DeliverPlan(w) ==
  With(TakePlanDebtFromFields(w, SeedDayAtTheTurn(w)),
       LAMBDA w1 : ShipFromStores(w1, TurnWillShip(w1)))

PositionDelivered(due, delivered) == due <= 0 \/ 100 * delivered >= MetPercent * due
FailedOnlyBySnow(plan, snowed) ==
  snowed > 0 /\ 100 * snowed >= SnowPercent * (plan.due - plan.delivered)

\* mutant: a weather year forgives the years before it
Bug_Series(plan, met, weather) == IF met \/ weather THEN 0 ELSE plan.failed + 1
Series(plan, met, weather) ==
  IF met THEN 0 ELSE IF weather THEN plan.failed ELSE plan.failed + 1
ReachedTheTrial(plan, series) == series = ToTrial /\ series # plan.failed

NotOutbound(w) ==
  LET drop(w1, i) == IF ~w.deliveries.rows[i].outbound THEN w1 ELSE
        [w1 EXCEPT !.deliveries = RemoveRow(@, w.deliveries.row_ids[i])]
  IN Through(drop, w, Upto(Len(w.deliveries.rows)))

\* The verdict, and everything that goes with the year's figure.
JudgePlan(w, snowed) ==
  LET plan    == w.plan
      met     == PositionDelivered(plan.due, plan.delivered)
      weather == ~met /\ FailedOnlyBySnow(plan, snowed)
      series  == Series(plan, met, weather)
      judged  == IF plan.due <= 0 THEN w ELSE
        [w EXCEPT !.plan.failed = series,
                  !.court = ReachedTheTrial(plan, series)]
  IN [NotOutbound(judged)
        EXCEPT !.closed = plan.delivered, !.plan.due = 0, !.plan.announced = FALSE, !.plan.requested = 0,
               !.unsealed = 0]

AnnouncePlan(w, due) ==
  [w EXCEPT !.plan.due = due, !.plan.delivered = 0, !.plan.announced = TRUE]

RunYearStart(w, kept, snowed) ==
  With(RepayGoodsLoans(DeliverPlan(w), kept), LAMBDA w1 :
    LET met    == w1.plan.due > 0 /\ PositionDelivered(w1.plan.due, w1.plan.delivered)
        points == YearLimitPoints(w1, met)
    IN TurnLimitYear(JudgePlan(w1, snowed), points))

(* -- the step ----------------------------------------------------------- *)
NoOrder == [kind |-> "none"]
Orders ==
  {NoOrder, [kind |-> "unseal"]}
  \cup [kind : {"deliver"}, own : BOOLEAN, amount : {0, 1}]
  \cup [kind : {"lot"}, lot : DOMAIN Lots, own : BOOLEAN, inGrain : BOOLEAN]
  \cup [kind : {"loan"}, amount : {0, 1}]

Consume(w, order, days) ==
  CASE order.kind = "none"    -> w
    [] order.kind = "unseal"  -> [w EXCEPT !.unsealed = @ + 1]
    [] order.kind = "deliver" -> RequestPlanDelivery(w, order)
    [] order.kind = "lot"     -> OrderLimitLot(w, order, days)
    [] order.kind = "loan"    -> TakeGoodsLoan(w, order, days)

Settle(w, carted) ==
  With(SettleDistrictLotHauling(w, carted), LAMBDA w1 :
    With(SettleDistrictCollection(w1), LAMBDA w2 :
      With(ArriveLimitDeliveries(w2), ArriveLivestock)))

Turned(w, kept, snowed, due) == AnnouncePlan(RunYearStart(w, kept, snowed), due)

\* The hour strikes: the mud is the day's.
Woken(mud) ==
  [world EXCEPT !.tick = @ + 1, !.mud = mud, !.paid = 0, !.repaid = 0,
                !.closed = 0, !.court = FALSE]
\* The first plan's letter lies in the box on the first morning.
WithFirstPlan(w) == IF w.tick = 1 THEN AnnouncePlan(w, FirstDue) ELSE w

(* -- what really happened ----------------------------------------------- *)
OnCarts(w, r) ==
  Total(w.deliveries, LAMBDA row : IF row.outbound THEN 0 ELSE row.goods[r])
OnTheRoad(w) == Total(w.arrivals, LAMBDA row : row.heads)
Deliverable(order) == order.kind = "deliver"

\* w: after the orders; w2: after the step.
Told(w, w2, order, snowed) ==
  [book EXCEPT
     !.grams  = [r \in Res |-> @[r] + OnCarts(w, r) - OnCarts(world, r)
                   - (IF r = Grain THEN w2.paid + w2.repaid + w2.closed ELSE 0)],
     !.heads  = @ + OnTheRoad(w) - OnTheRoad(world),
     !.opened = w.unsealed,
     !.lent   = IF w.loan.owed > world.loan.owed
                THEN [@ EXCEPT ![YearOf(Day(w))] = @ + 1] ELSE @,
     !.over   = ~NewYearsDawn(w) /\ (@ \/ (Deliverable(order) /\ order.amount > 0)),
     !.years  = IF NewYearsDawn(w)
                THEN Append(@, [due |-> w.plan.due, sent |-> w2.closed,
                                snowed |-> snowed])
                ELSE @,
     !.trials = @ + (IF w2.court THEN 1 ELSE 0),
     !.left.ticks = @ - 1,
     !.left.orders = IF order = NoOrder THEN @ ELSE @ - 1]

Init ==
  /\ world = [tick |-> 0, stock |-> StartStock, heap |-> 0, unsealed |-> 0,
              shut |-> [r \in Res |-> FALSE], mud |-> FALSE,
              plan |-> [due |-> 0, delivered |-> 0, requested |-> 0,
                        announced |-> FALSE, failed |-> 0],
              loan |-> [owed |-> 0, taken |-> 0], points |-> BasePoints,
              deliveries |-> EmptyTable, arrivals |-> EmptyTable, heads |-> 0,
              paid |-> 0, repaid |-> 0, closed |-> 0, court |-> FALSE]
  /\ \E life \in Lives :
     book = [grams |-> StartStock, heads |-> 0, opened |-> 0, over |-> FALSE,
             lent |-> [y \in 0..YearOf(life.ticks) |-> 0], years |-> <<>>,
             trials |-> 0, left |-> life]

EveningStep ==
  /\ book.left.ticks > 0 /\ ~Evening(world)
  /\ \E order \in Orders :
       /\ order = NoOrder \/ book.left.orders > 0
       /\ \E days \in IF order.kind \in {"lot", "loan"} THEN DeliveryDays ELSE {0} :
          \E w \in {WithFirstPlan(Consume(Woken(world.mud), order, days))} :
          \E carted \in [OwnRows(w) -> 0..2] :
          \E w2 \in {Settle(w, carted)} :
            /\ world' = w2
            /\ book' = Told(w, w2, order, 0)

DawnStep ==
  /\ book.left.ticks > 0 /\ Evening(world)
  /\ \E order \in Orders, mud \in BOOLEAN :
       /\ order = NoOrder \/ book.left.orders > 0
       /\ \E days \in IF order.kind \in {"lot", "loan"} THEN DeliveryDays ELSE {0} :
          \E w \in {Consume(Woken(mud), order, days)} :
          \E kept \in IF NewYearsDawn(w) THEN Kept ELSE {0},
             snowed \in IF NewYearsDawn(w) THEN {0, w.plan.due} ELSE {0},
             due \in IF NewYearsDawn(w) THEN Dues ELSE {0},
             settles \in {FALSE, DayOfYear(Day(w)) = SettledSnow} :
          \E w1 \in {IF NewYearsDawn(w) THEN Turned(w, kept, snowed, due) ELSE w} :
          \E w2 \in {IF settles THEN TakePlanDebtFromFields(w1, Day(w)) ELSE w1} :
            /\ world' = w2
            /\ book' = Told(w, w2, order, snowed)

(* -- the life outside --------------------------------------------------- *)
Reap ==
  /\ book.left.reaped > 0
  /\ world' = [world EXCEPT !.heap = @ + 1]
  /\ book' = [book EXCEPT !.grams[Grain] = @ + 1, !.left.reaped = @ - 1]

Haul ==
  LET placed == DeliverToStores(world, Grain, Least(world.heap, 1))
  IN /\ placed > 0
     /\ world' = [world EXCEPT !.heap = @ - placed, !.stock[Grain] = @ + placed]
     /\ UNCHANGED book

Eat ==
  /\ book.left.eaten > 0 /\ world.stock[Grain] > 0
  /\ world' = [world EXCEPT !.stock[Grain] = @ - 1]
  /\ book' = [book EXCEPT !.grams[Grain] = @ - 1, !.left.eaten = @ - 1]

\* A store stops taking a good, or takes it again.
Shut(r) ==
  /\ book.left.shuts > 0
  /\ world' = [world EXCEPT !.shut[r] = ~@]
  /\ book' = [book EXCEPT !.left.shuts = @ - 1]

Next == EveningStep \/ DawnStep \/ Reap \/ Haul \/ Eat \/ \E r \in Res : Shut(r)
Spec == Init /\ [][Next]_vars

(* -- properties --------------------------------------------------------- *)
\* No count of the district's books goes below nothing, and no store is left
\* with less than nothing by a door that took more than it asked.
TypeOK ==
  /\ \A r \in Res : world.stock[r] \in 0..Room[r]
  /\ world.heap \in Nat /\ world.points \in Nat /\ world.unsealed \in Nat
  /\ \A f \in {"due", "delivered", "requested", "failed"} : world.plan[f] \in Nat
  /\ world.loan.owed \in Nat /\ world.loan.taken \in Nat
  /\ \A i \in DOMAIN world.deliveries.rows :
       LET row == world.deliveries.rows[i]
       IN Carries(row.goods) /\ (row.outbound => row.own)

\* Every gram bought, lent or grown is in a store, on the field, on a cart or
\* against the plan until it is eaten or paid away, and every head bought is
\* on the road or in the herd: a cart's goods are offered to the stores good
\* by good, what does not fit waits, and an emptied row goes without another
\* (SettleDistrictLotHauling, ArriveLimitDeliveries, ArriveLivestock,
\* DeliverPlan, RepayGoodsLoans).
GramsKept ==
  /\ \A r \in Res :
       world.stock[r] + OnCarts(world, r)
         + (IF r = Grain THEN world.heap + world.plan.delivered ELSE 0) = book.grams[r]
  /\ world.heads + OnTheRoad(world) = book.heads

\* Whatever the district takes in an hour, the stores are left with the seed
\* that hour reads: the collection, the own carts, the payment in kind, the
\* turn's shipment and the loan's repayment, in whatever order they come; and
\* what it takes off the fields leaves the seed between fields and stores
\* (DeliverableForPlan: the heaps do not free the stores' seed).
SeedLeft(have) ==
  \E asOf \in {Day(world')} \cup
     (IF NewYearsDawn(world') THEN {SeedDayAtTheTurn(world')} ELSE {}) :
    have >= Above(SeedNorm[DayOfYear(asOf)], book'.opened)
SeedStays ==
  [][world'.tick > world.tick =>
       /\ world'.stock[Grain] < world.stock[Grain] => SeedLeft(world'.stock[Grain])
       /\ world'.heap < world.heap => SeedLeft(world'.stock[Grain] + world'.heap)]_vars

\* The series of failed years is the failed years since the last met one, the
\* years the snow took left out, and the court is announced once each time it
\* grows to the threshold (JudgePlan).
Met(y) == PositionDelivered(book.years[y].due, book.years[y].sent)
Failed(y) == book.years[y].due > 0 /\ ~Met(y)
             /\ ~(book.years[y].snowed > 0
                  /\ 100 * book.years[y].snowed
                       >= SnowPercent * (book.years[y].due - book.years[y].sent))
SeriesAt(n) ==
  Cardinality({y \in 1..n : Failed(y) /\ \A z \in y..n : ~(book.years[z].due > 0 /\ Met(z))})
CourtOnce ==
  LET years == DOMAIN book.years IN
  /\ world.plan.failed = SeriesAt(Len(book.years))
  /\ book.trials = Cardinality({y \in years : Failed(y) /\ SeriesAt(y) = ToTrial})

\* The district lends seed once in a year of the calendar, though the year's
\* mark is cleared in the middle of the hour in which its orders were read
\* (TakeGoodsLoan, RepayGoodsLoans).
OneLoanAYear == \A y \in DOMAIN book.lent : book.lent[y] <= 1

\* When nothing above the debt was ever asked for, what stands asked of the
\* district's cart is part of what neither came nor is on the own carts: the
\* same goods are asked of one transport (RequestPlanDelivery,
\* LowerPlanRequest, SettleDistrictCollection, TakePlanDebtFromFields).
AskedOnce ==
  ~book.over /\ world.plan.requested > 0 =>
    world.plan.delivered + OutboundPendingGrams(world) + world.plan.requested
      <= world.plan.due

\* What may come once comes once: a court and a loan counted over the years as
\* they were closed, and not by the marks the turn clears in the middle of its
\* hour; a debt asked of one transport.
OnceAYear == CourtOnce /\ OneLoanAYear /\ AskedOnce

\* Of what is owed, nothing is brought by two doors: what came and what is on
\* the own carts is no more than the figure, when no order asked above it
\* (RequestPlanDelivery: "what an own delivery already carries is owed no
\* second time").
OwedOnce ==
  ~book.over =>
    world.plan.delivered + OutboundPendingGrams(world) <= world.plan.due
=============================================================================
