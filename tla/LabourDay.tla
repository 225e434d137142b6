----------------------------- MODULE LabourDay -----------------------------
(* The day of labour (core_labor): the morning's placement, the top-ups    *)
(* that place whom the morning left, the seats on the goods carts and the  *)
(* waits they make, the working hour, the pay, the day off the chairman    *)
(* cancels and what it costs, and the watchdog over the waits (core_world).*)
(*                                                                         *)
(* One Hour is one engine step.  Which hand goes to which job is the       *)
(* placement's choice here: any plan that leaves no able hand idle beside  *)
(* a job he could take.  A norm-day is the work of one hour, rest falls by *)
(* one an hour, and a road is the hour a man begins at.                    *)
EXTENDS Integers, Sequences, FiniteSets, FiniteSetsExt, Passes

CONSTANTS
  Men,          \* residents of working age, 1..n in id order
  Walk,         \* [Men -> Nat]: hours on foot to any work
  Holder,       \* the man whose post is the herd's yard, or Nobody
  Ordered,      \* the chairman's standing orders: a set of [man, job]
  Jobs,         \* job |-> [kind, opens, work]: the day it opens, its norm-days
  Horses,       \* the team's first number
  Sunrise, Sunset, LastHour,
  Week,         \* every Week-th day is the day off
  LastDay,      \* bound: days lived
  MaxRest,      \* a rested man
  FreeDays,     \* the avatar's cancelled days off without a price
  Term,         \* wait_limit_hours, rounded up
  MaxTurns      \* bound: orders given, horses fallen, ambulances sent for, in all

Nobody == 0
NoWork == "none"
Gone == -1
Unmeasured == -1

ASSUME MenAssumption ==
  Men = 1..Cardinality(Men) /\ Walk \in [Men -> Nat] /\ Holder \in Men \cup {Nobody}
ASSUME HoursAssumption == 1 < Sunrise /\ Sunrise < Sunset /\ Sunset <= LastHour
ASSUME JobsAssumption == NoWork \notin DOMAIN Jobs /\ Term \in Nat \ {0} /\ Week > 1

VARIABLE world
vars == <<world>>

NoWait ==
  [since |-> -1, term |-> 0, driver |-> Nobody, due |-> 0, polled |-> 0, carried |-> FALSE]
Unplaced ==
  [work |-> NoWork, horse |-> FALSE, cart |-> Nobody, from |-> Unmeasured,
   norm |-> 0, away |-> FALSE, home |-> FALSE]

NoDawn == [cancelled |-> FALSE]
NoDusk == [free |-> FALSE]

Kind(j) == Jobs[j].kind
Set(w, m, row) == [w EXCEPT !.man[m] = row]
Each(f(_, _), w) == Through(f, w, Upto(Cardinality(Men)))
\* Every man of `men` is given his row.
Write(w, men, row(_)) ==
  Each(LAMBDA w1, m : IF m \in men THEN Set(w1, m, row(m)) ELSE w1, w)

(* -- the day off (core_common/day_off.cpp) ------------------------------ *)
IsRestDay(day) == day % Week = Week - 1
HarvestStands(w) == \E j \in DOMAIN Jobs : Kind(j) = "harvest" /\ w.seam[j] > 0
GatherShortStands(w) == w.said # 0 /\ w.said \in {w.day, w.day + 1}
IsDayOffIn(w, day) ==
  /\ IsRestDay(day) /\ (w.cancelled = 0 \/ w.cancelled # day)
  /\ ~(w.harvesting /\ day >= w.day /\ HarvestStands(w) /\ GatherShortStands(w))
IsCancelledDayOff(w) == w.cancelled # 0 /\ w.cancelled = w.day /\ IsRestDay(w.day)

(* -- who may be placed, on what ----------------------------------------- *)
IsHorseWork(j) == Kind(j) = "plowing"
Holds(w, m) == w.man[m].work # NoWork
InTraces(w, m) ==
  /\ Holds(w, m)
  /\ \/ IsHorseWork(w.man[m].work)
     \/ w.man[m].horse /\ Kind(w.man[m].work) \in {"hauling", "harvest"}
HorsesInTraces(w) == Cardinality({m \in Men : InTraces(w, m)})

Offered(w) == {j \in DOMAIN Jobs : /\ w.seam[j] > 0
                                   /\ IsDayOffIn(w, w.day) => Kind(j) = "care"}
Crewed(w, j) == \E m \in Men : w.man[m].work = j
HolderRests(w) == IsDayOffIn(w, w.day)

\* In the district, or lying at home for its car.
OffWork(w, m) == w.out[m] # "no"
Candidates(w) ==
  {m \in Men : /\ ~OffWork(w, m) /\ w.rest[m] > 0
               /\ m = Holder => ~HolderRests(w) /\ ~Holds(w, m)}

\* Every plan that puts `hands` on `jobs`, a hand a job, with the horses left.
Plans(hands, jobs, horses) ==
  LET onHorse(p) == Cardinality({m \in hands : p[m] # NoWork /\ IsHorseWork(p[m])})
  IN {p \in [hands -> jobs \cup {NoWork}] :
        /\ \A m, n \in hands : m # n /\ p[m] = p[n] => p[m] = NoWork
        /\ onHorse(p) <= horses
        /\ \A m \in hands, j \in jobs :
             p[m] = NoWork /\ (\A n \in hands : p[n] # j)
               => IsHorseWork(j) /\ onHorse(p) = horses}

\* The horses the plan deals: the plough's, the goods carts', the crews'.
Mounted(p, horses) ==
  LET on(kinds) == {m \in DOMAIN p : p[m] # NoWork /\ Kind(p[m]) \in kinds}
      ahead(m) == CASE Kind(p[m]) = "plowing" -> 0
                    [] Kind(p[m]) = "hauling" -> Cardinality(on({"plowing"}))
                    [] OTHER -> Cardinality(on({"plowing", "hauling"}))
      before(m) == ahead(m) + Cardinality({n \in on({Kind(p[m])}) : n < m})
  IN {m \in on({"plowing", "hauling", "harvest"}) : before(m) < horses}

\* The plan written on the men: a new target, its road measured anew.
Place(w, p, horses) ==
  LET placed == {m \in DOMAIN p : p[m] # NoWork}
      on == Mounted(p, horses)
      row(m) == [w.man[m] EXCEPT !.work = p[m], !.horse = m \in on,
                                 !.cart = Nobody, !.from = Unmeasured]
  IN Write([w EXCEPT !.idle = @ \ placed], placed, row)

(* -- the morning -------------------------------------------------------- *)
Care == CHOOSE j \in DOMAIN Jobs : Kind(j) = "care"

\* At the day's turn the fields' phases and the loads of this day open, before
\* the placement.
OpenTodaysFieldPhases(w) ==
  [w EXCEPT !.seam = [j \in DOMAIN Jobs |->
     IF w.hour = 0 /\ Jobs[j].opens = w.day /\ Kind(j) # "construction"
     THEN Jobs[j].work ELSE w.seam[j]]]

\* On the cancelled day off itself the series counts one more.
StandDownRushes(w) ==
  IF IsCancelledDayOff(w) THEN [w EXCEPT !.series = @ + 1] ELSE w

FreeSubstitutes(w) ==
  {m \in Men \ {Holder} : ~Holds(w, m) /\ ~OffWork(w, m)}
FreeSubstitute(w) ==
  CHOOSE m \in FreeSubstitutes(w) :
    \A n \in FreeSubstitutes(w) : \/ w.rest[m] > w.rest[n]
                                  \/ w.rest[m] = w.rest[n] /\ m <= n
Give(w, m, j) == Set(w, m, [w.man[m] EXCEPT !.work = j, !.from = Unmeasured])

\* The herd's holder goes to his yard; on a day off a free man stands in.
AssignPostHolders(w) ==
  IF Holder = Nobody \/ OffWork(w, Holder) \/ w.seam[Care] = 0 THEN w
  ELSE IF IsDayOffIn(w, w.day) /\ FreeSubstitutes(w) # {}
  THEN Give(w, FreeSubstitute(w), Care)
  ELSE Give(w, Holder, Care)

\* The chairman overrules the placement, last: no horse comes with him but to
\* a plough, and carting he keeps what the morning gave him.
ApplyStandingWork(w) ==
  LET stands == {o \in Ordered : /\ IsDayOffIn(w, w.day) => o.job = Care
                                 /\ ~OffWork(w, o.man) /\ w.rest[o.man] > 0
                                 /\ w.seam[o.job] > 0}
      sent(m) == CHOOSE o \in stands : o.man = m
      work(m) == LET j == sent(m).job
                 IN [w.man[m] EXCEPT !.work = j, !.from = Unmeasured,
                       !.horse = IF Kind(j) = "hauling" THEN w.man[m].horse
                                 ELSE IsHorseWork(j)]
      men == {o.man : o \in stands}
  IN Write([w EXCEPT !.idle = @ \ men], men, work)

\* Yesterday's work is wiped, the care is filled, the posts go out first, and
\* then the list.
StartDay(w) ==
  LET empty(m) == Unplaced
      wiped == [Write(w, Men, empty) EXCEPT
                         !.idle = {}, !.booked = [m \in Men |-> {}], !.worked = {},
                         !.seam[Care] = Jobs[Care].work,
                         !.dawn = [cancelled |-> IsCancelledDayOff(w)],
                         !.dusk = NoDusk]
      ready == AssignPostHolders(StandDownRushes(wiped))
      list == {m \in Candidates(ready) : ~Holds(ready, m)}
  IN {ApplyStandingWork(Place([ready EXCEPT !.idle = list], p, ready.horses)) :
        p \in Plans(list, Offered(ready), ready.horses)}

(* -- the top-ups -------------------------------------------------------- *)
\* One horse back above the herd: a crew walks and keeps its work; then the
\* carters of what does not spoil, then any, lose the day's job.
ReleaseOne(w) ==
  LET of(kinds) == {m \in Men : InTraces(w, m) /\ Kind(w.man[m].work) \in kinds}
      timber == {m \in of({"hauling"}) : Jobs[w.man[m].work].timber}
      freed == IF timber # {} THEN Max(timber) ELSE Max(of({"hauling", "plowing"}))
      crew == Max(of({"harvest"}))
      mates == {m \in Men : w.man[m].work = w.man[crew].work}
      walks(m) == [w.man[m] EXCEPT !.from = Unmeasured,
                                   !.horse = m # crew /\ w.man[m].horse]
  IN IF HorsesInTraces(w) <= w.horses THEN w
     ELSE IF of({"harvest"}) # {}
     THEN Write(w, mates, walks)
     ELSE [w EXCEPT !.man[freed] = Unplaced, !.idle = @ \cup {freed}]
ReleaseHorselessWork(w) == Each(LAMBDA w1, i : ReleaseOne(w1), w)

Bug_TopUpDay(w) ==
  LET jobs == {j \in Offered(w) : ~Crewed(w, j)}
      list == {m \in Candidates(w) : ~Holds(w, m)}
  IN {Place(w, p, w.horses) : p \in Plans(list, jobs, w.horses)}
\* Whom the morning left is placed on what nobody stands on, with the horses
\* it left.
TopUpDay(w) ==
  LET released == ReleaseHorselessWork(w)
      jobs == {j \in Offered(released) : ~Crewed(released, j)}
      list == {m \in Candidates(released) : ~Holds(released, m)}
      left == Above(released.horses, HorsesInTraces(released))
  IN IF jobs = {} \/ list = {} THEN {released}
     ELSE {ReleaseHorselessWork(Place(released, p, left)) : p \in Plans(list, jobs, left)}

UncrewedWorksBesideIdleHands(w) ==
  /\ \E m \in w.idle : ~Holds(w, m)
  /\ \E j \in DOMAIN Jobs : Kind(j) = "construction" /\ w.seam[j] > 0 /\ ~Crewed(w, j)

PlacementOwed(w) == w.owed /\ w.cancelled = w.day

(* -- the goods carts' passengers ---------------------------------------- *)
Carts(w) == {m \in Men : /\ Holds(w, m) /\ Kind(w.man[m].work) = "hauling"
                         /\ w.man[m].horse}
Walkers(w) == {m \in Men : /\ Holds(w, m) /\ ~w.man[m].horse
                           /\ Kind(w.man[m].work) \notin {"hauling", "plowing"}
                           /\ Walk[m] > 0}

\* A seat on the first cart, by how long its driver is in coming: he is at his
\* point at sunrise or an hour later, and the wait has its term.
Seat(w, m, since, arrives, carried) ==
  LET driver == Min(Carts(w))
  IN [w EXCEPT !.man[m] = [w.man[m] EXCEPT !.cart = driver, !.from = arrives],
               !.wait[m] = [since |-> since, term |-> Term, driver |-> driver,
                            due |-> Least(arrives, since + Term), polled |-> since,
                            carried |-> carried]]
SeatCartPassengers(w) ==
  {w} \cup
  IF Carts(w) = {} THEN {}
  ELSE {Seat(w, m, Sunrise, Sunrise + wait, carried) :
          m \in Walkers(w), wait \in 0..Term, carried \in BOOLEAN}

(* -- the pay ------------------------------------------------------------ *)
FreeDaysOffLeft(w) == Above(FreeDays, w.free)

Bug_BookRushAtPay(w, m) ==
  IF ~IsCancelledDayOff(w) \/ w.man[m].norm = 0 THEN w
  ELSE LET price == IF FreeDaysOffLeft(w) > 0 THEN 0 ELSE w.series
       IN [w EXCEPT !.rest[m] = Above(@, price), !.booked[m] = @ \cup {price},
                    !.free = IF FreeDaysOffLeft(w) > 0 THEN @ + 1 ELSE @]
\* The cancelled day's rest, by its number in the series, off a man who
\* delivered; a free day has no price.
BookRushAtPay(w, m) ==
  IF ~IsCancelledDayOff(w) \/ w.man[m].norm = 0 THEN w
  ELSE LET price == IF FreeDaysOffLeft(w) > 0 THEN 0 ELSE w.series
       IN [w EXCEPT !.rest[m] = Above(@, price), !.booked[m] = @ \cup {price}]

\* The norm-days to the family's account, and the job closed; the horse, the
\* seat and the hours away stay written on him.
PayDay(w, m) ==
  LET priced == BookRushAtPay(w, m)
  IN [priced EXCEPT !.unpaid = @ - w.man[m].norm,
                    !.worked = IF w.man[m].norm > 0 THEN @ \cup {m} ELSE @,
                    !.man[m] = [w.man[m] EXCEPT !.work = NoWork, !.norm = 0,
                                         !.from = Unmeasured]]

(* -- the hour ----------------------------------------------------------- *)
Road(w, m) == Sunrise + (IF w.man[m].horse \/ IsHorseWork(w.man[m].work)
                         THEN 0 ELSE Walk[m])
\* A road measured anew strikes the seat that was for the old one.
Measured(w, m) ==
  IF w.man[m].from # Unmeasured THEN w
  ELSE Set(w, m, [w.man[m] EXCEPT !.cart = Nobody, !.from = Road(w, m)])

ReleasedHome(w, m) == Set(w, m, [w.man[m] EXCEPT !.home = TRUE])

\* One worker's hour: his norm-day off the seam, his rest, and past his limit
\* he goes home paid.
WorkHour(w, m) ==
  LET j == w.man[m].work
      out == Set(w, m, [w.man[m] EXCEPT !.away = TRUE])
      done == [out EXCEPT !.seam[j] = @ - 1, !.unpaid = @ + 1,
                          !.rest[m] = Above(@, 1),
                          !.man[m] = [out.man[m] EXCEPT !.norm = @ + 1,
                                        !.home = Kind(j) = "care" /\ w.seam[j] = 1]]
  IN IF w.hour < w.man[m].from \/ w.hour >= Sunset THEN w
     ELSE IF w.seam[j] = 0 THEN out
     ELSE IF done.rest[m] = 0 THEN PayDay(done, m) ELSE done

RunOne(w, m) ==
  LET j == w.man[m].work
  IN IF j = NoWork THEN w
     ELSE IF w.seam[j] = Gone THEN PayDay(w, m)
     ELSE IF Kind(j) = "care" /\ (w.man[m].home \/ w.seam[j] = 0) THEN ReleasedHome(w, m)
     ELSE With(Measured(w, m), LAMBDA w1 : WorkHour(w1, m))
\* The workers in id order, then every hand of a care the hour drained.
RunHour(w) ==
  LET release(w1, m) == IF w1.man[m].work = Care /\ w1.seam[Care] = 0
                        THEN ReleasedHome(w1, m) ELSE w1
  IN Each(release, Each(RunOne, w))

(* -- the waits ---------------------------------------------------------- *)
Waits(w, m) == w.wait[m] # NoWait
PassengersCartCame(w, m) == w.man[w.wait[m].driver].horse /\ w.wait[m].carried

ClearPassengerWaits(w, dayEnds) ==
  LET over(m) == \/ dayEnds
                 \/ ~Holds(w, m)
                 \/ w.man[m].cart # w.wait[m].driver
                 \/ w.hour >= w.wait[m].due /\ PassengersCartCame(w, m)
  IN [w EXCEPT !.wait = [m \in Men |-> IF Waits(w, m) /\ over(m) THEN NoWait ELSE w.wait[m]]]

Bug_Inspect(w, m) ==
  LET wait == w.wait[m]
  IN /\ Holds(w, m) /\ w.man[m].cart = wait.driver
     /\ w.man[wait.driver].horse
     /\ w.hour <= wait.since + wait.term + 1
\* An honest wait: on his work, for a cart he rides, within its term.
Inspect(w, m) ==
  LET wait == w.wait[m]
  IN /\ Holds(w, m) /\ w.man[m].cart = wait.driver
     /\ w.man[wait.driver].horse
     /\ w.hour <= wait.since + wait.term

\* He walks: the seat is struck and the road measured again.
Emergency(w, m) ==
  [w EXCEPT !.man[m] = [w.man[m] EXCEPT !.cart = Nobody, !.from = Unmeasured],
            !.wait[m] = NoWait]

\* Each wait begun is polled every hour, and at its own beginning.
WalkOne(w, m) ==
  IF ~Waits(w, m) \/ w.wait[m].since > w.hour THEN w
  ELSE IF w.hour - w.wait[m].polled < 1 /\ w.hour # w.wait[m].since THEN w
  ELSE LET polled == [w EXCEPT !.wait[m].polled = w.hour]
       IN IF Inspect(w, m) THEN polled ELSE Emergency(polled, m)
WalkHour(w) == Each(WalkOne, w)

(* -- the day's close ---------------------------------------------------- *)
\* The cancelled day is lived and spent; a day off taken breaks the series.
CloseRushDay(w) ==
  IF IsCancelledDayOff(w)
  THEN [w EXCEPT !.free = IF FreeDaysOffLeft(w) > 0 THEN @ + 1 ELSE @, !.cancelled = 0]
  ELSE IF IsDayOffIn(w, w.day) THEN [w EXCEPT !.series = 0] ELSE w

\* Everybody's day is paid, and the rest is balanced: a day at home gives it
\* back, a day off more, and a holder out on his day off pays one step.
CloseDay(w) ==
  LET paid == Each(LAMBDA w1, m : IF Holds(w1, m) THEN PayDay(w1, m) ELSE w1, w)
      off == IsDayOffIn(paid, paid.day)
      balance(m) ==
        LET r == paid.rest[m]
            walkedOff == paid.man[m].away /\ r = 0
            rested(x) == Least(MaxRest, x + (IF off THEN 2 ELSE 1))
        IN IF ~paid.man[m].away \/ walkedOff THEN rested(r)
           ELSE IF off /\ m = Holder THEN Above(r, 1) ELSE r
      empty(m) == Unplaced
  IN CloseRushDay([Write(paid, Men, empty) EXCEPT
                               !.rest = [m \in Men |-> balance(m)],
                               !.dusk = [free |-> FreeDaysOffLeft(paid) > 0]])

(* -- the chairman's orders ---------------------------------------------- *)
NextDayOff(w) == CHOOSE day \in (w.day + 1)..(w.day + Week) : IsRestDay(day)

\* `enable` 1 declares today working; `enable` 0 cancels the next weekly day
\* off, one order, one day; the harvest's switch stands until it is turned.
ReadRushOrders(w) ==
  LET given == [w EXCEPT !.turns = @ + 1]
      today == IF ~IsDayOffIn(w, w.day) THEN {}
               ELSE {[given EXCEPT !.cancelled = w.day, !.owed = TRUE]}
      ahead == IF w.cancelled # 0 /\ w.cancelled >= w.day THEN {}
               ELSE {[given EXCEPT !.cancelled = NextDayOff(w)]}
      switch == {[given EXCEPT !.harvesting = ~@]}
  IN {w} \cup IF w.turns = MaxTurns THEN {} ELSE today \cup ahead \cup switch

(* -- the rest of the decisions ------------------------------------------ *)
\* The ambulance sent for at the day's turn, before a minute of the placement
\* is worked; it comes in a later hour and carries him out; a day on he is back.
DistrictCars(w) ==
  LET sent(m) == [w EXCEPT !.out[m] = "waits", !.man[m] = Unplaced, !.turns = @ + 1]
      taken(m) == [w EXCEPT !.out[m] = "away", !.man[m] = Unplaced]
      back(m) == [w EXCEPT !.out[m] = "no"]
  IN {w} \cup {sent(m) : m \in {n \in Men : w.hour = 0 /\ w.turns < MaxTurns /\ ~OffWork(w, n)}}
         \cup {taken(m) : m \in {n \in Men : w.hour > 0 /\ w.out[n] = "waits"}}
         \cup {back(m) : m \in {n \in Men : w.out[n] = "away"}}

\* The hour's production: a phase worked off moves its field on, a horse may
\* fall on the herd's day, and at the close the gathering count says its word.
Production(w) ==
  LET moved == [w EXCEPT !.seam = [j \in DOMAIN Jobs |->
                  IF w.seam[j] = 0 /\ Kind(j) \in {"harvest", "plowing"} THEN Gone
                  ELSE w.seam[j]]]
      fallen == IF moved.hour = 0 /\ moved.turns < MaxTurns /\ moved.horses > 0
                THEN {[moved EXCEPT !.horses = @ - 1, !.turns = @ + 1]} ELSE {}
      said == IF moved.hour = LastHour /\ HarvestStands(moved)
              THEN {[moved EXCEPT !.said = moved.day + 1]} ELSE {}
  IN {moved} \cup fallen \cup said

\* A works done leaves its site, and one supplied opens in its hour.
Construction(w) ==
  LET done == [w EXCEPT !.seam = [j \in DOMAIN Jobs |->
                 IF w.seam[j] = 0 /\ Kind(j) = "construction" THEN Gone ELSE w.seam[j]]]
      opens == {j \in done.unopened : Jobs[j].opens <= done.day}
  IN {done} \cup {[done EXCEPT !.seam[j] = Jobs[j].work, !.unopened = @ \ {j}] : j \in opens}

(* -- the step ----------------------------------------------------------- *)
If(condition, next(_), w) == IF condition THEN next(w) ELSE {w}

\* The top-up of a day off declared working, in the hour after the order.
DeclaredPlacement(w) == If(w.hour > 1 /\ PlacementOwed(w), TopUpDay, w)
OwedCleared(w) ==
  IF w.hour # 0 \/ ~PlacementOwed(w) THEN [w EXCEPT !.owed = FALSE] ELSE w
LaterTopUp(w) == If(w.hour >= 2 /\ UncrewedWorksBesideIdleHands(w), TopUpDay, w)
Closed(w) == IF w.hour = LastHour THEN CloseDay(w) ELSE w

\* The placement's part of the hour, then the work, the waits and the close.
RunAssignmentDecisions(w) ==
  LET placed == UNION {DeclaredPlacement(w1) :
                         w1 \in If(w.hour = 0, StartDay, OpenTodaysFieldPhases(w))}
      topped == UNION {If(w1.hour = 1, TopUpDay, OwedCleared(w1)) : w1 \in placed}
      seated == UNION {If(w1.hour = 1, SeatCartPassengers, w1) : w1 \in topped}
      crewed == UNION {LaterTopUp(w1) : w1 \in seated}
  IN {Closed(ClearPassengerWaits(RunHour(w1), w.hour = LastHour)) : w1 \in crewed}

Clock(w) == IF w.hour < LastHour THEN [w EXCEPT !.hour = @ + 1]
            ELSE [w EXCEPT !.hour = 0, !.day = @ + 1]

Init ==
  world = [hour |-> 0, day |-> 0,
           man |-> [m \in Men |-> Unplaced], rest |-> [m \in Men |-> MaxRest],
           wait |-> [m \in Men |-> NoWait], out |-> [m \in Men |-> "no"],
           idle |-> {}, horses |-> Horses,
           seam |-> [j \in DOMAIN Jobs |-> Gone],
           unopened |-> {j \in DOMAIN Jobs : Kind(j) = "construction"},
           cancelled |-> 0, owed |-> FALSE, series |-> 0, free |-> 0,
           harvesting |-> FALSE, said |-> 0,
           turns |-> 0,
           booked |-> [m \in Men |-> {}], worked |-> {}, unpaid |-> 0,
           dawn |-> NoDawn,
           dusk |-> NoDusk]

Hour ==
  /\ world.day <= LastDay
  /\ \E w1 \in RunAssignmentDecisions(world) : \E w2 \in ReadRushOrders(w1) :
     \E w3 \in DistrictCars(w2) : \E w4 \in Production(w3) :
     \E w5 \in Construction(w4) : world' = Clock(WalkHour(w5))
Next == Hour
Spec == Init /\ [][Next]_vars

(* -- what the day promises ---------------------------------------------- *)
\* A wait that has begun is on work that still stands, for a cart he rides
\* whose driver has a horse, and no older than its term: whatever ends a work,
\* a seat or a cart, the same hour's end or the watchdog strikes the wait, and
\* none is carried over midnight (watchdog.h, labor_system.cpp 3562).
WaitsAreHonest ==
  \A m \in Men : Waits(world, m) =>
    LET wait == world.wait[m]
    IN /\ world.hour # 0
       /\ wait.since < world.hour =>
            /\ Holds(world, m) /\ world.man[m].cart = wait.driver
            /\ world.man[wait.driver].horse
            /\ world.hour - 1 <= wait.since + wait.term

\* Every norm-day taken off a work is paid or still written on the man who did
\* it: no placement, release, ambulance or lost work loses a man's hours.
WorkIsPaid ==
  world.unpaid = MapThenSumSet(LAMBDA m : world.man[m].norm, Men)

\* From the first top-up on no more horses are in the traces than the herd
\* has, whatever the chairman ordered to the plough and whatever fell at dawn.
TracesWithinHerd == world.hour > 1 => HorsesInTraces(world) <= world.horses

\* The day's hands and horses are counted once: what worked is paid, and what
\* is lent is there.
DayIsCounted == WorkIsPaid /\ TracesWithinHerd

\* Everybody who worked a day off cancelled ahead is charged its one price,
\* the day's number in the series, or nothing on a free day - the last man
\* paid as the first (rush.h, BookRushAtPay).
PricedAlike ==
  world.hour = 0 /\ world.dawn.cancelled =>
    /\ world.series >= 1
    /\ \A m \in world.worked :
         world.booked[m] = {IF world.dusk.free THEN 0 ELSE world.series}
=============================================================================
