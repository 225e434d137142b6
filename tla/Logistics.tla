------------------------------ MODULE Logistics ------------------------------
(* The groom's logistics (core_logistics): one task for each load lying in  *)
(* the world, its level raised as it waits, the day's plan of the carts and *)
(* its re-plans, the chairman's doors to the tasks, and the carters the     *)
(* labour hour sends along the plan.                                        *)
(*                                                                          *)
(* The hour runs its sub-steps in the order of DecisionsSlot: the doors,    *)
(* the labour hour, the tasks, the plan, and what production does to the    *)
(* loads.  A load is its address; its seam, the carting still owed, is a    *)
(* small number.  All carters have a horse.  Trips to and from a load are   *)
(* drawn as one loaded leg to its receiver.                                 *)
EXTENDS StateTableOps, FiniteSets, Passes

LOCAL INSTANCE SequencesExt

CONSTANTS
  Loads,         \* addresses: a kind and the id of the row the load lies on
  Heap,          \* of them, the field heaps,
  Site,          \* the supplies of works,
  Dose,          \* and the fields' winter doses
  DefaultLevel,  \* [Loads -> Levels]
  Carters,       \* 1..n, in the order of their ids
  Reach,         \* pairs of loads within the road limit of each other
  MaxChainLoads,
  AgeBackgroundDays, AgeOrdinaryDays,
  Sunrise, Sunset, LastHour,
  Estimates,     \* what the plan's clock may reckon: the hours of a ride, and
                 \* whether other carts leave it carting
  Cap,           \* the most carting a load owes
  FirstLoads,    \* the sets of loads that may lie at the start
  LastDay,       \* bounds of a run: its days, and
  Lives          \* how often the chairman orders, a load comes, goes or is
                 \* priced, works open or a carter loses his, a threat stands at dawn

ASSUME CartersAssumption == Carters = 1..Cardinality(Carters)
ASSUME KindsAssumption ==
  /\ Heap \subseteq Loads /\ Site \subseteq Loads /\ Dose \subseteq Loads
  /\ Heap \cap (Site \cup Dose) = {} /\ Site \cap Dose = {}
  /\ DefaultLevel \in [Loads -> 0..3] /\ Reach \subseteq Loads \X Loads
ASSUME HoursAssumption ==
  /\ {Sunrise, Sunset, LastHour, Cap, LastDay} \subseteq Nat
  /\ 1 < Sunrise /\ Sunrise < Sunset /\ Sunset <= LastHour
  /\ AgeBackgroundDays \in Nat \ {0} /\ AgeOrdinaryDays \in Nat \ {0}
  /\ MaxChainLoads \in Nat \ {0} /\ Estimates \subseteq [ride : Nat, left : BOOLEAN]

VARIABLES
  day, hour, slot,  \* the clock, and the sub-step that comes next
  loads,            \* [lies, seam, born]: which lie, what carting each owes,
                    \* and the mark heap_born
  tasks,            \* logistics_tasks
  plan,             \* groom_plan
  work,             \* the load each carter stands on
  book              \* mornings each task has waited, told beside the code,
                    \* and what is left of its life
vars == <<day, hour, slot, loads, tasks, plan, work, book>>

kUrgent == 0
kTerm == 1
kOrdinary == 2
kBackground == 3
Levels == kUrgent..kBackground

NoLoad == "none"
NoTask == 0
Home == "home"
Receiver == "receiver"

IdsOf(t) == {t.row_ids[i] : i \in DOMAIN t.row_ids}
LoadOf(t, id) == RowOf(t, id).load
TaskedLoads(t) == {t.rows[i].load : i \in DOMAIN t.rows}
TaskRowOfWork(t, l) ==
  IF l \in TaskedLoads(t) THEN CHOOSE i \in DOMAIN t.rows : t.rows[i].load = l ELSE kNoRow
EachRow(t, f(_)) == [t EXCEPT !.rows = [i \in DOMAIN t.rows |-> f(t.rows[i])]]
Tasked(t, l) == l \in TaskedLoads(t)
PausedLoad(t, l) == \E i \in DOMAIN t.rows : t.rows[i].load = l /\ t.rows[i].paused
Served(l) == \E c \in Carters : work[c] = l

(* -- the tasks ----------------------------------------------------------- *)
TaskFor(l) ==
  [load |-> l, level |-> DefaultLevel[l], base |-> DefaultLevel[l],
   paused |-> FALSE, over_fields |-> FALSE, aged |-> day]

\* The loads in the tables' order: the order in which rows are appended.
InOrder(set) == SetToSeq(set)
AppendTasks(t, set) ==
  Through(LAMBDA u, l : IF Tasked(u, l) THEN u ELSE AppendRow(u, TaskFor(l)),
          t, InOrder(set))

\* mutant: removed by row number as they are met, in a scan of the old length
Bug_RemovedInTheScan ==
  Through(LAMBDA t, i : IF i \in DOMAIN t.rows /\ t.rows[i].load \notin loads.lies
                        THEN RemoveRow(t, t.row_ids[i]) ELSE t,
          tasks, Upto(Len(tasks.rows)))
\* Tasks whose load is gone, collected by id before the first is removed.
GoneTasks == SelectSeq(tasks.row_ids, LAMBDA id : LoadOf(tasks, id) \notin loads.lies)
WithoutGone == Through(RemoveRow, tasks, GoneTasks)
SyncTasks == AppendTasks(WithoutGone, loads.lies)
AppendNewHeapTasks == AppendTasks(tasks, loads.lies \cap Heap)

MarkServed(t) == EachRow(t, LAMBDA row : IF Served(row.load) THEN [row EXCEPT !.aged = day]
                                                             ELSE row)

AgedLevel(base, days) ==
  CASE base = kBackground /\ days >= AgeBackgroundDays + AgeOrdinaryDays -> kTerm
    [] base = kBackground /\ days >= AgeBackgroundDays
                          /\ days < AgeBackgroundDays + AgeOrdinaryDays -> kOrdinary
    [] base = kOrdinary /\ days >= AgeOrdinaryDays -> kTerm
    [] OTHER -> base

\* mutant: a paused task goes on ageing
Bug_PausedAges(row) == row
\* A paused task's count stands still: its start moves with the days.
Held(row) == IF row.paused /\ row.aged < day THEN [row EXCEPT !.aged = @ + 1] ELSE row
\* A heap that rots by tomorrow, or feed while a herd is hungry.
Threats == {{}, Heap}
AgeAndRaise(t, threatened) ==
  LET Aged(row) ==
        LET now  == Held(row)
            days == IF row.load \in Dose THEN 0 ELSE Above(day, now.aged)
        IN [now EXCEPT !.level = IF row.load \in threatened \/ row.base = kUrgent
                                 THEN kUrgent ELSE AgedLevel(row.base, days)]
  IN EachRow(t, Aged)

(* -- the chairman's doors ------------------------------------------------ *)
Order(id) ==
  [kind : {"level"}, task : {id}, level : Levels, enable : {FALSE}]
    \cup [kind : {"pause"}, task : {id}, level : {kOrdinary}, enable : BOOLEAN]
    \cup (IF LoadOf(tasks, id) \in Site
          THEN [kind : {"level"}, task : {id}, level : {RowOf(tasks, id).base},
                enable : {TRUE}]
          ELSE {})

Stale(p) == [p EXCEPT !.stale = TRUE]

\* Refused when it stands as asked; the ageing is counted from today.
SetTaskLevel(o) ==
  LET row    == RowOf(tasks, o.task)
      stands == row.base = o.level /\ row.level = o.level /\ row.over_fields = o.enable
      raised == o.level = kUrgent /\ row.level # kUrgent
  IN /\ ~stands
     /\ tasks' = SetRow(tasks, o.task, [row EXCEPT !.base = o.level, !.level = o.level,
                                                   !.over_fields = o.enable, !.aged = day])
     /\ plan' = [Stale(plan) EXCEPT !.urgent = @ \/ raised]

\* mutant: the plan is not told
Bug_PauseUntold(p) == p
TellPlan(p) == Stale(p)
PauseTask(o) ==
  LET row == RowOf(tasks, o.task) IN
  /\ row.paused # o.enable
  /\ tasks' = SetRow(tasks, o.task,
                     [row EXCEPT !.paused = o.enable,
                                 !.aged = IF o.enable THEN @ ELSE day])
  /\ plan' = TellPlan(plan)

(* -- the plan of the carts ----------------------------------------------- *)
\* mutant: what sets out this very hour is planned anew
Bug_BegunBefore(legs) == SelectSeq(legs, LAMBDA leg : leg.depart < hour)
\* What of a plan is begun by now is never broken.
Begun(legs) == SelectSeq(legs, LAMBDA leg : leg.depart <= hour)

OpenTasks(t) ==
  {i \in DOMAIN t.rows : ~t.rows[i].paused /\ loads.seam[t.rows[i].load] > 0}
LongerWaiting(t, i, j) ==
  t.rows[i].aged < t.rows[j].aged \/ (t.rows[i].aged = t.rows[j].aged /\ i < j)
Ring(t, level) ==
  LET rows == {i \in OpenTasks(t) : t.rows[i].level = level}
      rank(i) == Cardinality({j \in rows : LongerWaiting(t, j, i)}) + 1
  IN [n \in 1..Cardinality(rows) |-> CHOOSE i \in rows : rank(i) = n]
Turned(ring, turn) ==
  [n \in DOMAIN ring |-> ring[((n + turn - 1) % Len(ring)) + 1]]

\* A cart's chain: its own load, paused or not, then the open tasks by level,
\* each level's ring turned one for every cart before it.
CartChain(t, c, turn) ==
  LET own   == TaskRowOfWork(t, work[c])
      first == IF own = kNoRow THEN <<>> ELSE <<own>>
      rest  == Turned(Ring(t, 0), turn) \o Turned(Ring(t, 1), turn)
                 \o Turned(Ring(t, 2), turn) \o Turned(Ring(t, 3), turn)
      whole == first \o SelectSeq(rest, LAMBDA i : i # own
                                          /\ <<work[c], t.rows[i].load>> \in Reach)
  IN SubSeq(whole, 1, IF Len(whole) < MaxChainLoads THEN Len(whole) ELSE MaxChainLoads)

Leg(id, from, to, depart, arrive) ==
  [task |-> id, from |-> from, to |-> to, depart |-> depart, arrive |-> arrive,
   loaded |-> FALSE, kept |-> FALSE]

\* The clock of one cart: on to each load of its chain with carting left that
\* the light still holds, the others kept in their place; then home.
RunTheClock(t, legs, chain, start, from, e) ==
  LET GoOn(m, i) ==
        LET id    == t.row_ids[i]
            l     == t.rows[i].load
            left  == i \in OpenTasks(t) /\ (e.left \/ m.legs = legs)
            fits  == ~m.evening /\ m.now + 2 * e.ride < Sunset
            there == m.now + e.ride
        IN IF left /\ fits
           THEN [m EXCEPT !.legs = @ \o
                    <<Leg(NoTask, m.at, l, m.now, there),
                      [Leg(id, l, Receiver, there, there + 1) EXCEPT !.loaded = TRUE]>>,
                          !.at = Receiver, !.now = there + 1]
           ELSE [m EXCEPT !.legs = Append(@, [Leg(id, l, l, m.now, m.now)
                                               EXCEPT !.kept = TRUE]),
                          !.evening = @ \/ left]
      done == Through(GoOn, [legs |-> legs, at |-> from, now |-> start,
                             evening |-> FALSE], chain)
  IN IF start >= Sunset THEN legs
     ELSE Append(done.legs, Leg(NoTask, done.at, Home, done.now,
                                done.now + IF done.at = Home THEN 0 ELSE e.ride))

AtWork == {c \in Carters : work[c] # NoLoad}

\* The plan from the hour `out` on; `earlier` are the carts of the plan of today
\* it takes the place of.
BuildGroomPlan(t, earlier, out, e) ==
  LET CartOf(c) ==
        LET turn  == Cardinality({d \in AtWork : d < c})
            kept  == IF c \in DOMAIN earlier THEN Begun(earlier[c]) ELSE <<>>
            last  == kept[Len(kept)]
            start == IF kept # <<>> /\ last.arrive > out THEN last.arrive ELSE out
        IN RunTheClock(t, kept, CartChain(t, c, turn), start,
                       IF kept = <<>> THEN Home ELSE last.to, e)
  IN [day |-> day, stale |-> FALSE, urgent |-> FALSE, carts |-> [c \in AtWork |-> CartOf(c)]]

CartsChanged == DOMAIN plan.carts # AtWork

\* On its loaded leg, or come to the load and not gone with it yet.
CartHeld(legs) ==
  \E i \in DOMAIN legs :
    /\ legs[i].loaded
    /\ \/ legs[i].depart <= hour /\ hour < legs[i].arrive
       \/ i > 1 /\ hour < legs[i].depart /\ legs[i - 1].arrive <= hour
SomeCartFree == \E c \in DOMAIN plan.carts : ~CartHeld(plan.carts[c])

(* -- the sub-steps of an hour -------------------------------------------- *)
Next1(s) ==
  CASE s = "doors" -> "labour" [] s = "labour" -> "tasks" [] s = "tasks" -> "plan"
    [] s = "plan" -> "world" [] s = "world" -> "doors"
At(s) == slot = s /\ slot' = Next1(s) /\ UNCHANGED <<day, hour>>

Spend(what) == book.left[what] > 0 /\ book' = [book EXCEPT !.left[what] = @ - 1]

\* The mornings told: what a door counts from today has waited none.
Recounted(b, id) ==
  [b EXCEPT !.waited = [i \in DOMAIN @ \cup {id} |-> IF i = id THEN 0 ELSE @[i]],
            !.fresh = IF hour = 0 THEN @ \cup {id} ELSE @]

ReadTaskOrders ==
  /\ At("doors")
  /\ UNCHANGED <<loads, work>>
  /\ \/ UNCHANGED <<tasks, plan, book>>
     \/ /\ book.left.orders > 0
        /\ \E id \in IdsOf(tasks) : \E o \in Order(id) :
             /\ \/ o.kind = "level" /\ SetTaskLevel(o)
                \/ o.kind = "pause" /\ PauseTask(o)
             /\ LET b == [book EXCEPT !.left.orders = @ - 1]
                IN book' = IF o.kind = "pause" /\ o.enable THEN b ELSE Recounted(b, id)

Offered == {l \in loads.lies : loads.seam[l] > 0 /\ ~PausedLoad(tasks, l)}

\* A load above the doses waits for a carter.
HigherLoadWaits(h) ==
  \E i \in DOMAIN tasks.rows :
    LET row == tasks.rows[i] IN
    /\ row.load \notin Dose /\ row.level <= kOrdinary /\ h.seam[row.load] > 0
    /\ \A c \in Carters : h.work[c] # row.load

\* The next load of his chain with carting left, once his own is carted.
FollowThePlan(h, c) ==
  LET l     == h.work[c]
      own   == TaskRowOfWork(tasks, l)
      holds == own # kNoRow /\ l \in Site \cap loads.lies
      legs  == IF c \in DOMAIN plan.carts THEN plan.carts[c] ELSE <<>>
      goes(i) ==
        LET id  == legs[i].task
            row == RowOf(tasks, id)
        IN /\ FindRow(tasks, id) # kNoRow
           /\ holds => row.level <= tasks.rows[own].level
           /\ row.load \in Dose => ~HigherLoadWaits(h)
           /\ h.seam[row.load] > 0
      on == {i \in DOMAIN legs : goes(i)}
  IN IF l = NoLoad \/ plan.day # day THEN h
     ELSE IF h.seam[l] > 0 \/ on = {} THEN h
     ELSE [h EXCEPT !.work[c] =
             LoadOf(tasks, legs[CHOOSE i \in on : \A j \in on : i <= j].task)]

RunHour(h) ==
  LET Worked(g, c) ==
        With(FollowThePlan(g, c), LAMBDA f :
          IF f.work[c] = NoLoad \/ hour \notin Sunrise..(Sunset - 1) THEN f
          ELSE [f EXCEPT !.seam[f.work[c]] = Above(@, 1)])
  IN Through(Worked, h, Upto(Cardinality(Carters)))

\* The morning places everybody; the top-up of the first hour, and of a later
\* one when works open beside idle hands, places the idle alone, on what nobody
\* stands on.
Placed(w) ==
  IF hour = 0 THEN \A c \in Carters : w[c] \in Offered \cup {NoLoad}
  ELSE \A c \in Carters :
         \/ w[c] = work[c]
         \/ work[c] = NoLoad /\ w[c] \in Offered /\ ~Served(w[c])
\* The world alone ends a placement before the close.
Fallen(w) == \E c \in Carters : work[c] # NoLoad /\ w = [work EXCEPT ![c] = NoLoad]

RunAssignmentDecisions ==
  /\ At("labour")
  /\ UNCHANGED <<tasks, plan>>
  /\ \E w \in [Carters -> Loads \cup {NoLoad}] :
       LET ends == RunHour([work |-> w, seam |-> loads.seam])
       IN /\ \/ Placed(w) /\ (hour <= 1 \/ w = work) /\ book' = book
             \/ hour > 1 /\ w # work /\ (Placed(w) \/ Fallen(w)) /\ Spend("shifts")
          /\ loads' = [loads EXCEPT !.seam = ends.seam]
          /\ work' = IF hour = LastHour THEN [c \in Carters |-> NoLoad] ELSE ends.work

\* A morning older, but what was served, held, or is counted from this day on.
Morning(b, t) ==
  [b EXCEPT !.fresh = {},
            !.waited = [id \in IdsOf(t) |->
              LET row == RowOf(t, id) IN
              IF id \notin DOMAIN @ \/ Served(row.load) THEN 0
              ELSE IF row.paused \/ id \in b.fresh THEN @[id] ELSE @[id] + 1]]

RunTasks ==
  /\ At("tasks")
  /\ UNCHANGED <<loads, plan, work>>
  /\ IF hour # 0 THEN UNCHANGED <<tasks, book>>
     ELSE LET synced == SyncTasks IN
          \E threatened \in Threats :
            /\ threatened = {} \/ book.left.threats > 0
            /\ tasks' = AgeAndRaise(MarkServed(synced), threatened)
            /\ book' = Morning([book EXCEPT !.left.threats =
                                  IF threatened = {} THEN @ ELSE @ - 1], synced)

\* At the first hour the day's plan; every later hour it is planned again when
\* a door, another set of carts or a heap of the day has made it old.
BuildPlan ==
  /\ At("plan")
  /\ hour <= 1
  /\ UNCHANGED <<loads, tasks, work, book>>
  /\ IF hour = 0 THEN UNCHANGED plan
     ELSE \E e \in Estimates : plan' = BuildGroomPlan(tasks, <<>>, Sunrise, e)

Replan ==
  /\ At("plan")
  /\ hour > 1
  /\ UNCHANGED work
  /\ LET all   == IF loads.born THEN AppendNewHeapTasks ELSE tasks
         made  == IdsOf(all) \ IdsOf(tasks)
         out   == IF Sunrise > hour + 1 THEN Sunrise ELSE hour + 1
         stale == \/ plan.stale \/ plan.urgent \/ CartsChanged
                  \/ made # {} /\ SomeCartFree
     IN /\ tasks' = all
        /\ book' = [book EXCEPT !.waited = [id \in DOMAIN @ \cup made |->
                                              IF id \in made THEN 0 ELSE @[id]]]
        /\ loads' = [loads EXCEPT !.born = FALSE]
        /\ IF stale
           THEN \E e \in Estimates : plan' = BuildGroomPlan(all, plan.carts, out, e)
           ELSE UNCHANGED plan

\* A load appears, is gone - carted to nothing, or closed by the mud - or its
\* seam is written anew; then the clock goes on.  A plan of another day is no
\* plan: its carts are let go at midnight.
Loaded ==
  \/ UNCHANGED <<loads, book>>
  \/ /\ Spend("news")
     /\ \/ \E l \in Loads \ loads.lies : \E owed \in {0, Cap} :
             loads' = [loads EXCEPT !.lies = @ \cup {l}, !.seam[l] = owed,
                                    !.born = @ \/ l \in Heap]
        \/ \E l \in loads.lies :
             loads' = [loads EXCEPT !.lies = @ \ {l}, !.seam[l] = 0]
        \/ \E l \in loads.lies :
             /\ loads.seam[l] = 0
             /\ hour = LastHour \/ l \in Site
             /\ loads' = [loads EXCEPT !.seam[l] = Cap]

RunProductionDecisions ==
  /\ slot = "world" /\ slot' = "doors"
  /\ hour < LastHour \/ day < LastDay
  /\ Loaded
  /\ hour' = IF hour = LastHour THEN 0 ELSE hour + 1
  /\ day' = IF hour = LastHour THEN day + 1 ELSE day
  /\ plan' = IF hour = LastHour THEN [plan EXCEPT !.carts = <<>>] ELSE plan
  /\ UNCHANGED <<tasks, work>>

Init ==
  /\ day = 1 /\ hour = 0 /\ slot = "doors"
  /\ \E lies \in FirstLoads :
       loads = [lies |-> lies, seam |-> [l \in Loads |-> IF l \in lies THEN Cap ELSE 0],
                born |-> TRUE]
  /\ tasks = EmptyTable
  /\ plan = [day |-> 0, stale |-> FALSE, urgent |-> FALSE, carts |-> <<>>]
  /\ work = [c \in Carters |-> NoLoad]
  /\ \E life \in Lives : book = [waited |-> <<>>, fresh |-> {}, left |-> life]

Next ==
  \/ ReadTaskOrders \/ RunAssignmentDecisions \/ RunTasks \/ BuildPlan \/ Replan
  \/ RunProductionDecisions

Spec == Init /\ [][Next]_vars

(* -- properties ---------------------------------------------------------- *)
Today == plan.day = day
CartLegs(c) == {plan.carts[c][i] : i \in DOMAIN plan.carts[c]}
Planned == slot = "world" /\ hour > 0

\* One task a load, a load a task: no two tasks cart one load, after the
\* morning's sync the tasks are the loads that lie, and a heap born since has
\* its task by the next plan of its day (SyncTasks, AppendNewHeapTasks).
TasksBindLoads ==
  /\ \A i, j \in DOMAIN tasks.rows : tasks.rows[i].load = tasks.rows[j].load => i = j
  /\ slot = "plan" /\ hour = 0 => TaskedLoads(tasks) = loads.lies
  /\ ~loads.born /\ hour > 1 => loads.lies \cap Heap \subseteq TaskedLoads(tasks)
  /\ DOMAIN book.waited = IdsOf(tasks)

\* When the hour's plan is drawn it is the plan of the carts that are there, it
\* owes nobody a re-plan, every load it names is still a task, and it sends no
\* cart out any more for a load the chairman has paused (BuildPlan, Replan).
PlanHeeds ==
  Planned =>
    /\ Today /\ ~plan.stale /\ ~plan.urgent /\ DOMAIN plan.carts = AtWork
    /\ \A c \in DOMAIN plan.carts : \A leg \in CartLegs(c) : leg.task # NoTask =>
         /\ leg.task \in IdsOf(tasks)
         /\ leg.loaded /\ leg.depart > hour => ~RowOf(tasks, leg.task).paused

\* A day's cart goes one way: what is not merely kept in its place begins
\* where and not before the last ended.
OneWay(legs) ==
  LET way == SelectSeq(legs, LAMBDA leg : ~leg.kept)
  IN \A i \in 1..(Len(way) - 1) :
       /\ way[i + 1].from = way[i].to
       /\ way[i + 1].depart >= way[i].arrive

\* A re-plan goes on from where each cart is: it keeps every leg begun, it
\* sends nobody anywhere before the next hour, and what it adds to the way
\* begins where the way ended (BuildGroomPlan: "a begun leg is never broken").
ReplanGoesOn ==
  [][\A c \in DOMAIN plan.carts \cap DOMAIN plan'.carts :
       Today /\ Today' /\ plan' # plan =>
         LET begun == {i \in DOMAIN plan.carts[c] : plan.carts[c][i].depart <= hour} IN
         /\ \A i \in begun : i \in DOMAIN plan'.carts[c] /\ plan'.carts[c][i] = plan.carts[c][i]
         /\ \A i \in DOMAIN plan'.carts[c] \ begun : plan'.carts[c][i].depart > hour
         /\ OneWay(plan'.carts[c])]_vars

\* What a task's level is raised by is the mornings it waited: those on which
\* nobody was placed on it and it was not held, counted from the last door
\* that set it, whatever tasks came and went and whichever load came back at
\* its address.  No waiting makes it urgent (MarkServed, AgeAndRaise).
Lines(base) ==
  CASE base = kBackground -> {AgeBackgroundDays, AgeBackgroundDays + AgeOrdinaryDays}
    [] base = kOrdinary -> {AgeOrdinaryDays}
    [] OTHER -> {}
WaitingRises ==
  slot = "plan" /\ hour = 0 =>
    \A id \in IdsOf(tasks) :
      LET row == RowOf(tasks, id)
          by  == {n \in Lines(row.base) : row.load \notin Dose /\ book.waited[id] >= n}
      IN row.level = kUrgent \/ row.level = row.base - Cardinality(by)
=============================================================================
