---------------------------- MODULE BuildingSite ----------------------------
(* The works on the farm's units: marking, starting, supplying, building,  *)
(* mending, insulating and taking down (core_construction), with the part  *)
(* of core_production that moves grams between them in the same step: the  *)
(* supply legs, the emptied store and the stock of what is taken down.     *)
(*                                                                         *)
(* One Hour is one engine step: labour drains a seam, production moves     *)
(* grams and reads its two orders, construction reads its own order and    *)
(* then walks the rows.  Grams are small numbers.  Prices, distances along *)
(* roads and wording are left out: a way is known only by its sender.      *)
EXTENDS Integers, Sequences, SequencesExt, FiniteSets, FiniteSetsExt, Passes

CONSTANTS
  Units,        \* ids of unit rows, 1..n in the order of the table
  Place,        \* [Units -> Int]: where a row stands, on a line
  Res,          \* resources, 1..k, in id order
  Part, Straw,  \* the resource of repairs, the resource of the coat
  Types,        \* type |-> [ladder, stores, ages, old, eternal, over, free,
                \* heated, pausable, church]
  NoType,       \* "no parent type"
  PitRes,       \* what the pit digs
  Starts,       \* the worlds a run may begin in
  Endowment,    \* what every one of them holds, gram for gram
  FloorDays,    \* site_supply_floor_after_days
  MaxWear,      \* the top of the wear scale, in parts a repair eats
  Careful       \* the chairman keeps emptying orders and works apart

ASSUME UnitsAssumption == Units = 1..Cardinality(Units) /\ Place \in [Units -> Int]
ASSUME ResAssumption == Res = 1..Cardinality(Res) /\ {Part, Straw, PitRes} \subseteq Res
ASSUME FloorAssumption == FloorDays \in Nat \ {0} /\ MaxWear \in Nat \ {0}

VARIABLE world
vars == <<world>>

Nobody == 0
Pit == 0
Nil == [r \in Res |-> 0]
NoUnit == [phase |-> "gone"]
Phases == {"none", "marked", "delivering", "building", "repairing",
           "insulating", "demolishing"}

(* -- amounts ------------------------------------------------------------ *)
\* AddTo: a difference never leaves a stock below nought.
AddTo(amounts, r, delta) ==
  [amounts EXCEPT ![r] = IF @ + delta > 0 THEN @ + delta ELSE 0]

SumTo(f, k) == LET sum[n \in 0..k] == IF n = 0 THEN 0 ELSE sum[n - 1] + f[n] IN sum[k]
Total(amounts) == SumTo(amounts, Cardinality(Res))
Sum(a, b) == [r \in Res |-> a[r] + b[r]]
Spend(a, b) == [r \in Res |-> Above(a[r], b[r])]

(* -- rows --------------------------------------------------------------- *)
Rows(w) == {u \in Units : w.unit[u].phase # "gone"}
TypeOf(row) == Types[row.type]
Ladder(row) == TypeOf(row).ladder
Step(row, level) == Ladder(row)[level]
Idle(row) ==
  [row EXCEPT !.phase = "none", !.target = 0, !.days = 0, !.need = 0,
              !.reserved = Nil, !.awaiting = Nil, !.legs = <<>>,
              !.idle = 0, !.moved = FALSE, !.seam = FALSE]
NewRow(type, parent) ==
  [type |-> type, level |-> 0, phase |-> "marked", target |-> 1, days |-> 0,
   need |-> 0, paused |-> FALSE, emptying |-> 0, wear |-> 0, lived |-> FALSE,
   insulated |-> FALSE, parent |-> parent, stock |-> Nil, reserved |-> Nil,
   awaiting |-> Nil, legs |-> <<>>, idle |-> 0, moved |-> FALSE, seam |-> FALSE]

InOrder(S) == SetToSortSeq(S, <)
\* A walk of the table in row order; a row gone on the way is passed over.
Walk(f(_, _), w) ==
  LET visit(w1, u) == IF w1.unit[u].phase = "gone" THEN w1 ELSE f(w1, u)
  IN Through(visit, w, Upto(Cardinality(Units)))
EachRes(f(_, _), w) == Through(f, w, Upto(Cardinality(Res)))

Put(w, u, row) == [w EXCEPT !.unit[u] = row]
RemoveRow(w, u) == Put(w, u, NoUnit)

Bug_UnreservedOf(row, r) == row.stock[r]
\* What any taker other than the unit's own works may have.
UnreservedOf(row, r) == Above(row.stock[r], row.reserved[r])

Awaits(row) == Total(row.awaiting) > 0
FixedForSite(row, r) == row.stock[r] + row.awaiting[r]

Standing(row) == row.phase # "gone" /\ row.level > 0
StandsSoundAsParent(row) == Standing(row) /\ ~row.paused
ModuleParentSound(w, row) ==
  row.parent = Nobody \/ StandsSoundAsParent(w.unit[row.parent])

(* -- the stores' door --------------------------------------------------- *)
AnotherHome(w, u, r) ==
  \E o \in Rows(w) \ {u} : /\ Standing(w.unit[o]) /\ w.unit[o].emptying = 0
                           /\ r \in TypeOf(w.unit[o]).stores
EmptyingShutsOut(w, u, r) == w.unit[u].emptying # 0 /\ AnotherHome(w, u, r)
Accepts(w, u, r) ==
  /\ Standing(w.unit[u])
  /\ r \in TypeOf(w.unit[u]).stores
  /\ ~EmptyingShutsOut(w, u, r)
RoomOf(row) == Above(Step(row, row.level).room, Total(row.stock))

\* `amount` of r dealt over the rows of `doors` in id order, none above its
\* room: what each of them takes.
Dealt(w, doors, r, amount) ==
  [u \in doors |->
     Least(RoomOf(w.unit[u]),
           Above(amount, MapThenSumSet(LAMBDA o : RoomOf(w.unit[o]),
                                       {o \in doors : o < u})))]
Fill(w, dealt, r) ==
  [w EXCEPT !.unit = [u \in Units |->
     IF u \in DOMAIN dealt
     THEN [w.unit[u] EXCEPT !.stock[r] = @ + dealt[u]] ELSE w.unit[u]]]
Placed(dealt) == MapThenSumSet(LAMBDA u : dealt[u], DOMAIN dealt)

DoorsFor(w, r) == {u \in Rows(w) : Accepts(w, u, r)}
DeliverToStores(w, r, amount) == Dealt(w, DoorsFor(w, r), r, amount)

\* A collapsed house's own door: any numbered store but itself, whatever it
\* is the home of.
DeliverOut(w, from, r, amount) ==
  Dealt(w, {u \in Rows(w) \ {from} : Standing(w.unit[u])}, r, amount)

(* -- who gives to a site ------------------------------------------------ *)
Distance(u, o) == IF Place[u] < Place[o] THEN Place[o] - Place[u]
                                         ELSE Place[u] - Place[o]
Givers(w, site, r) ==
  {u \in Rows(w) \ {site} : Standing(w.unit[u]) /\ UnreservedOf(w.unit[u], r) > 0}
NearestFirst(site, givers) ==
  SetToSortSeq(givers, LAMBDA a, b : \/ Distance(site, a) < Distance(site, b)
                                     \/ /\ Distance(site, a) = Distance(site, b)
                                        /\ a < b)
Has(w, giver, r) == IF giver = Pit THEN w.lying[r] ELSE UnreservedOf(w.unit[giver], r)

\* What lies at the pit first, then the stores, the nearest first; each gives
\* what it has until `wanted` is met.
GivesFor(w, site, r, wanted) ==
  LET order == (IF w.lying[r] > 0 THEN <<Pit>> ELSE <<>>)
                 \o NearestFirst(site, Givers(w, site, r))
      before(k) == MapThenSumSet(LAMBDA j : Has(w, order[j], r), 1..(k - 1))
  IN SelectSeq([k \in 1..Len(order) |->
                  [from |-> order[k],
                   grams |-> Least(Has(w, order[k], r), Above(wanted, before(k)))]],
               LAMBDA give : give.grams > 0)

WithLeg(legs, from, r, grams) ==
  LET at == {k \in 1..Len(legs) : legs[k].from = from}
  IN IF at = {} THEN Append(legs, [from |-> from, grams |-> AddTo(Nil, r, grams)])
     ELSE [legs EXCEPT ![Min(at)].grams[r] = @ + grams]

TakeForSite(w, site, r, wanted) ==
  LET take(w1, give) ==
        LET drawn == IF give.from = Pit THEN [w1 EXCEPT !.lying[r] = @ - give.grams]
                     ELSE [w1 EXCEPT !.unit[give.from].stock = AddTo(@, r, -give.grams)]
        IN [drawn EXCEPT !.unit[site].legs = WithLeg(@, give.from, r, give.grams),
                         !.unit[site].awaiting[r] = @ + give.grams]
  IN Through(take, w, GivesFor(w, site, r, wanted))

\* TakeFromStores: the coat's straw, in row order and on the unit at once.
TakeFromStores(w, site, r, wanted) ==
  LET givers == Givers(w, site, r)
      give(u) == Least(UnreservedOf(w.unit[u], r),
                       Above(wanted, MapThenSumSet(LAMBDA o : UnreservedOf(w.unit[o], r),
                                                   {o \in givers : o < u})))
  IN [w EXCEPT !.unit = [u \in Units |->
        IF u \in givers THEN [w.unit[u] EXCEPT !.stock = AddTo(@, r, -give(u))]
        ELSE IF u = site
        THEN [w.unit[u] EXCEPT !.stock[r] = @ + MapThenSumSet(give, givers)]
        ELSE w.unit[u]]]

FoldAwaitingIntoStock(row) ==
  [row EXCEPT !.stock = Sum(@, row.awaiting), !.awaiting = Nil, !.legs = <<>>,
              !.seam = FALSE]

(* -- the works' own life ------------------------------------------------ *)
\* The lines a unit's works ask for: a level's recipe, or a repair's parts.
IsRepair(row) == row.target = row.level /\ row.level > 0
Lines(row) == IF IsRepair(row) THEN AddTo(Nil, Part, row.need)
              ELSE Step(row, row.target).recipe

HoldBack(row) ==
  IF row.level = 0 THEN row
  ELSE [row EXCEPT !.reserved =
          [r \in Res |-> IF Lines(row)[r] > 0
                         THEN Least(row.stock[r], Lines(row)[r]) ELSE @[r]]]

CompleteBuild(w, u) ==
  LET row == w.unit[u]
      used == Step(row, row.target).recipe
      built == [row EXCEPT !.stock = Spend(@, used), !.level = row.target, !.wear = 0]
  IN [Put(w, u, Idle(FoldAwaitingIntoStock(built))) EXCEPT !.builtIn = Sum(@, used)]

CompleteRepair(w, u) ==
  LET row == w.unit[u]
      used == AddTo(Nil, Part, row.need)
      mended == [row EXCEPT !.stock = Spend(@, used), !.wear = 0]
  IN [Put(w, u, Idle(FoldAwaitingIntoStock(mended))) EXCEPT !.builtIn = Sum(@, used)]

CompleteInsulation(w, u) ==
  LET row == w.unit[u]
      used == AddTo(Nil, Straw, row.reserved[Straw])
      coated == [row EXCEPT !.stock = Spend(@, used), !.insulated = TRUE]
  IN [Put(w, u, Idle(FoldAwaitingIntoStock(coated))) EXCEPT !.builtIn = Sum(@, used)]

OpenLabour(w, u) ==
  LET row == w.unit[u]
      phase == IF IsRepair(row) THEN "repairing" ELSE "building"
      days == IF IsRepair(row) THEN 1 ELSE Step(row, row.target).days
      open == Put(w, u, [row EXCEPT !.phase = phase, !.days = days])
  IN IF days > 0 THEN open
     ELSE IF phase = "repairing" THEN CompleteRepair(open, u) ELSE CompleteBuild(open, u)

\* The day's fixing (take) or the hour's look: what the lines still lack is
\* taken for the site, what is on it is held back, and with every line on the
\* site itself the labour opens.
DeliverSite(w, u, take) ==
  LET fix(w1, r) ==
        LET lacking == Above(Lines(w1.unit[u])[r], FixedForSite(w1.unit[u], r))
        IN IF take /\ lacking > 0 THEN TakeForSite(w1, u, r, lacking) ELSE w1
      look(w1) ==
        IF \A r \in Res : w1.unit[u].stock[r] >= Lines(w1.unit[u])[r]
        THEN OpenLabour(w1, u) ELSE w1
  IN With(EachRes(fix, w), LAMBDA w1 : With([w1 EXCEPT !.unit[u] = HoldBack(@)], look))

DeliverInsulation(w, u) ==
  LET need == w.unit[u].reserved[Straw]
      have == w.unit[u].stock[Straw]
      open(w1) == IF w1.unit[u].stock[Straw] >= need
                  THEN [w1 EXCEPT !.unit[u].days = 1] ELSE w1
  IN IF have >= need THEN w
     ELSE With(TakeFromStores(w, u, Straw, Above(need, have)), open)

Fed(w, row) == ModuleParentSound(w, row) /\ ~row.paused
DeliverMaterials(w) ==
  LET deliver(w1, u) ==
        IF ~Fed(w1, w1.unit[u]) THEN w1
        ELSE CASE w1.unit[u].phase = "delivering" -> DeliverSite(w1, u, TRUE)
               [] w1.unit[u].phase = "insulating" -> DeliverInsulation(w1, u)
               [] OTHER -> w1
  IN Walk(deliver, w)
OpenSuppliedSites(w) ==
  LET look(w1, u) == IF w1.unit[u].phase = "delivering" /\ Fed(w1, w1.unit[u])
                     THEN DeliverSite(w1, u, FALSE) ELSE w1
  IN Walk(look, w)

Bug_FinishSites(w) ==
  LET finish(w1, u) ==
        LET row == w1.unit[u]
        IN CASE row.days > 0 -> w1
             [] row.phase = "building" -> CompleteBuild(w1, u)
             [] row.phase = "repairing" -> CompleteRepair(w1, u)
             [] row.phase = "demolishing" -> RemoveRow(w1, u)
             [] OTHER -> w1
  IN Walk(finish, w)
FinishSites(w) ==
  LET finish(w1, u) ==
        LET row == w1.unit[u]
        IN CASE row.days > 0 -> w1
             [] row.phase = "building" -> CompleteBuild(w1, u)
             [] row.phase = "repairing" -> CompleteRepair(w1, u)
             [] row.phase = "demolishing" /\ row.stock = Nil -> RemoveRow(w1, u)
             [] row.phase = "insulating" /\ row.stock[Straw] >= row.reserved[Straw]
                  -> CompleteInsulation(w1, u)
             [] OTHER -> w1
  IN Walk(finish, w)

\* An old house at the top of the scale: its stock goes out through a door of
\* its own, what no store has room for is booked lost, and the row goes.
MoveStockOut(w, u) ==
  LET out(w1, r) ==
        LET dealt == DeliverOut(w1, u, r, w.unit[u].stock[r])
        IN [Fill(w1, dealt, r) EXCEPT
              !.lost[r] = @ + Above(w.unit[u].stock[r], Placed(dealt))]
  IN EachRes(out, [w EXCEPT !.unit[u].stock = Nil])
Collapse(w, u) == RemoveRow(MoveStockOut(w, u), u)

\* The wear of a day on the rows of `worn`: a stopped unit does not wear, a
\* site is not a building yet, and only an old house falls at the top.
Ages(row) == Standing(row) /\ ~row.paused /\ TypeOf(row).ages
AgeUnits(w, worn) ==
  LET aged == [w EXCEPT !.unit = [u \in Units |->
        IF u \in worn /\ Ages(w.unit[u])
        THEN [w.unit[u] EXCEPT !.wear = Least(@ + 1, MaxWear)] ELSE w.unit[u]]]
      fallen == {u \in worn : /\ Ages(w.unit[u]) /\ TypeOf(w.unit[u]).old
                              /\ aged.unit[u].wear = MaxWear}
  IN Through(Collapse, aged, InOrder(fallen))

(* -- the chairman's orders --------------------------------------------- *)
\* Each answers the next world, or the same one when the code refuses.
HeldFor(w, u, r) ==
  w.unit[u].stock[r] + w.unit[u].awaiting[r] + w.lying[r]
    + MapThenSumSet(LAMBDA o : UnreservedOf(w.unit[o], r), Givers(w, u, r))
ShortfallOf(w, u, level) ==
  IF Step(w.unit[u], level).marking THEN {}
  ELSE {r \in Res : HeldFor(w, u, r) < Step(w.unit[u], level).recipe[r]}

OpenWorks(w, u, level) ==
  LET open == [w EXCEPT !.unit[u].target = level]
  IN IF Step(w.unit[u], level).marking THEN CompleteBuild(open, u)
     ELSE DeliverSite([open EXCEPT !.unit[u].phase = "delivering", !.unit[u].days = 0],
                      u, TRUE)

ParentForModule(w, type) ==
  {u \in Rows(w) : w.unit[u].type = Types[type].over /\ StandsSoundAsParent(w.unit[u])}
MarkSite(w, type) ==
  LET free == {u \in Units : w.unit[u] = NoUnit /\ ~w.spent[u]}
      parents == ParentForModule(w, type)
      parent == IF Types[type].over = NoType THEN Nobody ELSE Min(parents)
      first == Types[type].free /\ \A u \in Rows(w) : w.unit[u].type # type
      row == NewRow(type, parent)
  IN IF free = {} \/ (Types[type].over # NoType /\ parents = {}) THEN w
     ELSE [Put(w, Min(free), IF first THEN [Idle(row) EXCEPT !.level = 1] ELSE row)
             EXCEPT !.spent[Min(free)] = TRUE]

StartWorks(w, u) ==
  LET row == w.unit[u]
  IN IF /\ row.phase = "marked" /\ ModuleParentSound(w, row)
        /\ ShortfallOf(w, u, row.target) = {}
     THEN OpenWorks(w, u, row.target) ELSE w

StartUpgrade(w, u) ==
  LET row == w.unit[u]
      next == row.level + 1
  IN IF /\ Standing(row) /\ row.phase = "none" /\ ModuleParentSound(w, row)
        /\ next <= Len(Ladder(row)) /\ ShortfallOf(w, u, next) = {}
     THEN OpenWorks(w, u, next) ELSE w

StartRepair(w, u) ==
  LET row == w.unit[u]
  IN IF /\ Standing(row) /\ row.phase = "none" /\ TypeOf(row).ages /\ ~TypeOf(row).old
        /\ row.wear > 0
     THEN [w EXCEPT !.unit[u].phase = "delivering", !.unit[u].target = row.level,
                    !.unit[u].need = row.wear, !.unit[u].days = 0]
     ELSE w

StartInsulation(w, u) ==
  LET row == w.unit[u]
      need == TypeOf(row).heated
      held == row.stock[Straw]
                + MapThenSumSet(LAMBDA o : UnreservedOf(w.unit[o], Straw),
                                Givers(w, u, Straw))
      open == [w EXCEPT !.unit[u].phase = "insulating", !.unit[u].target = row.level,
                        !.unit[u].days = 0, !.unit[u].reserved = AddTo(Nil, Straw, need)]
  IN IF ~(/\ Standing(row) /\ row.phase = "none" /\ ~row.insulated
          /\ need > 0 /\ held >= need) THEN w
     ELSE IF row.stock[Straw] >= need THEN [open EXCEPT !.unit[u].days = 1]
     ELSE DeliverInsulation(open, u)

DemolishOne(w, u) ==
  LET row == w.unit[u]
      down == [FoldAwaitingIntoStock(row) EXCEPT
                 !.level = 0, !.reserved = Nil, !.phase = "demolishing",
                 !.target = 0, !.days = 1]
  IN IF row.phase = "marked" THEN RemoveRow(w, u)
     ELSE IF row.phase = "demolishing" \/ row.lived THEN w ELSE Put(w, u, down)

ModulesToTake(w, u) ==
  {m \in Rows(w) \ {u} : w.unit[m].parent = u /\ w.unit[m].phase # "demolishing"}
Demolish(w, u) ==
  LET row == w.unit[u]
      modules == ModulesToTake(w, u)
      stands(m) == TypeOf(w.unit[m]).eternal
                     \/ (w.unit[m].phase # "marked" /\ w.unit[m].lived)
  IN IF \/ row.phase = "demolishing" \/ TypeOf(row).eternal
        \/ \E m \in modules : stands(m)
        \/ (row.lived /\ row.phase # "marked")
     THEN w
     ELSE Through(DemolishOne, w, <<u>> \o InOrder(modules))

Obey(w, order) ==
  CASE order.kind = "mark" -> MarkSite(w, order.type)
    [] order.kind = "start" -> StartWorks(w, order.unit)
    [] order.kind = "upgrade" -> StartUpgrade(w, order.unit)
    [] order.kind = "repair" -> StartRepair(w, order.unit)
    [] order.kind = "insulate" -> StartInsulation(w, order.unit)
    [] order.kind = "demolish" -> Demolish(w, order.unit)
    [] OTHER -> w

(* -- production's half of the hour ------------------------------------- *)
\* A site is paused while work goes on at it, a standing unit if its type may
\* be; a store being emptied pauses its carrying and not itself.
WorkAtSite(row) == row.phase \in {"delivering", "building", "demolishing"}
SetPaused(w, u) ==
  LET row == w.unit[u]
  IN IF row.level = 0 /\ ~WorkAtSite(row) THEN w
     ELSE IF row.emptying # 0 /\ ~WorkAtSite(row)
     THEN [w EXCEPT !.unit[u].emptying = 3 - @]
     ELSE IF row.paused \/ TypeOf(row).pausable \/ WorkAtSite(row)
     THEN [w EXCEPT !.unit[u].paused = ~@] ELSE w
EmptyStore(w, u) ==
  IF w.unit[u].emptying # 0 THEN [w EXCEPT !.unit[u].emptying = 0]
  ELSE IF \E r \in Res : AnotherHome(w, u, r)
  THEN [w EXCEPT !.unit[u].emptying = 1] ELSE w
Command(w, order) ==
  CASE order.kind = "pause" -> SetPaused(w, order.unit)
    [] order.kind = "empty" -> EmptyStore(w, order.unit)
    [] OTHER -> w

\* A taker of the day (the saw, the issue): whatever is not held back.
Use(w, u, r) ==
  LET grams == UnreservedOf(w.unit[u], r)
  IN [w EXCEPT !.unit[u].stock = AddTo(@, r, -grams), !.used[r] = @ + grams]

\* The perevalka: what the order shuts out leaves through the stores' door,
\* up to the hour's budget, counted on the whole stock.
SettleStoreEmptying(w, u, budget) ==
  LET carry(acc, r) ==
        IF ~EmptyingShutsOut(acc.w, u, r) THEN acc
        ELSE LET dealt == DeliverToStores(acc.w, r, Least(acc.w.unit[u].stock[r], acc.left))
             IN [w |-> [Fill(acc.w, dealt, r) EXCEPT !.unit[u].stock =
                          AddTo(@, r, -Placed(dealt))],
                 left |-> acc.left - Placed(dealt)]
  IN IF w.unit[u].emptying # 1 THEN w
     ELSE EachRes(carry, [w |-> w, left |-> budget]).w

DropEmptyFront(row) ==
  LET live == {k \in 1..Len(row.legs) : Total(row.legs[k].grams) > 0}
      first == IF live = {} THEN Len(row.legs) + 1 ELSE Min(live)
  IN [row EXCEPT !.legs = SubSeq(@, first, Len(@)),
                 !.seam = @ /\ first = 1]

\* `budget` grams of the front leg land on the site, resource by resource.
Cart(row, budget) ==
  LET front == row.legs[1].grams
      moved == [r \in Res |->
                  Least(Least(front[r], row.awaiting[r]),
                        Above(budget, MapThenSumSet(LAMBDA o : front[o], 1..(r - 1))))]
      land(grams) == [row EXCEPT !.legs[1].grams = Spend(@, grams),
                                 !.awaiting = Spend(@, grams), !.stock = Sum(@, grams),
                                 !.moved = @ \/ Total(grams) > 0]
  IN With(moved, land)

OnSupplyFloor(row) == row.idle >= FloorDays /\ Awaits(row)
Bug_SettleSupplyIdleDays(row) ==
  LET moved == [row EXCEPT !.moved = FALSE]
  IN IF ~Awaits(row) \/ row.moved THEN [moved EXCEPT !.idle = 0]
     ELSE IF row.paused THEN moved
     ELSE [moved EXCEPT !.idle = Least(@ + 1, FloorDays)]
SettleSupplyIdleDays(row) ==
  LET moved == [row EXCEPT !.moved = FALSE]
  IN IF ~Awaits(row) THEN [moved EXCEPT !.idle = 0]
     ELSE IF row.moved THEN (IF OnSupplyFloor(row) THEN moved ELSE [moved EXCEPT !.idle = 0])
     ELSE IF row.paused THEN moved
     ELSE [moved EXCEPT !.idle = Least(@ + 1, FloorDays)]

SettleSiteSupply(row, budget, evening) ==
  LET carted(open) == IF open.legs # <<>> /\ open.seam /\ budget > 0
                      THEN Cart(open, budget) ELSE open
      written(left) == [left EXCEPT !.seam = left.legs # <<>> /\ ~left.paused]
      settled(done) == IF evening THEN SettleSupplyIdleDays(done) ELSE done
      dropped == With(With(DropEmptyFront(row), carted), DropEmptyFront)
  IN IF row.legs = <<>> THEN settled(row) ELSE With(With(dropped, written), settled)
SupplyAll(w, site, budget, evening) ==
  [w EXCEPT !.unit = [u \in Units |->
     IF u \in Rows(w)
     THEN SettleSiteSupply(w.unit[u], IF u = site THEN budget ELSE 0, evening)
     ELSE NoUnit]]

SettleDemolitionStock(w) ==
  LET settle(w1, u) ==
        LET out(w2, r) ==
              LET dealt == DeliverToStores(w2, r, w2.unit[u].stock[r])
              IN [Fill(w2, dealt, r) EXCEPT !.unit[u].stock[r] = @ - Placed(dealt)]
        IN IF w1.unit[u].phase # "demolishing" THEN w1
           ELSE EachRes(out, w1)
  IN Walk(settle, w)

(* -- the hour ------------------------------------------------------------ *)
\* The two hours that differ: the first and the last of the day.
Midnight == 0
Evening == 1

\* Labour drains the crew's seam.  The morning places nobody on a paused site
\* nor, unless it is being taken down, on a module whose parent does not stand
\* sound; who was placed in the morning works the day out.
Crewable(w, u) ==
  LET row == w.unit[u]
  IN /\ row.phase # "gone" /\ row.days > 0
     /\ w.hour = Midnight => /\ ~row.paused
                             /\ row.phase = "demolishing" \/ ModuleParentSound(w, row)
Labour(w, u) == IF u \in Units THEN [w EXCEPT !.unit[u].days = @ - 1] ELSE w

RunConstructionDecisions(w, order, worn) ==
  LET walk(w1) == IF w.hour = Midnight
                  THEN With(AgeUnits(w1, worn), DeliverMaterials) ELSE OpenSuppliedSites(w1)
  IN With(With(Obey(w, order), walk), FinishSites)

RunProductionDecisions(w, order, work, use) ==
  LET taken(w1) == IF use = Nobody THEN w1 ELSE Use(w1, use, PitRes)
      emptied(w1) == IF work.kind = "empty"
                     THEN SettleStoreEmptying(w1, work.unit, work.grams) ELSE w1
      supplied(w1) == SupplyAll(w1, IF work.kind = "cart" THEN work.unit ELSE Nobody,
                                work.grams, w.hour = Evening)
      settled(w1) == IF w.hour = Evening THEN SettleDemolitionStock(w1) ELSE w1
  IN With(With(With(With(Command(w, order), taken), emptied), supplied), settled)

\* Orders that may be given; the rest are refused and leave the world alone.
Orders(w) ==
  [kind : {"none"}]
    \cup [kind : {"mark"}, type : w.open]
    \cup [kind : {"start"}, unit : {u \in Rows(w) : w.unit[u].phase = "marked"}]
    \cup [kind : {"upgrade", "repair", "insulate"},
          unit : {u \in Rows(w) : Standing(w.unit[u]) /\ w.unit[u].phase = "none"}]
    \cup [kind : {"demolish", "pause"}, unit : Rows(w)]
    \cup [kind : {"empty"}, unit : {u \in Rows(w) : /\ Standing(w.unit[u])
                                                  /\ TypeOf(w.unit[u]).church}]

\* A careful chairman does not order works on a store that is being emptied,
\* nor empties a store that stands under works.
Apart(w, order) ==
  CASE order.kind \in {"upgrade", "repair", "insulate"} -> w.unit[order.unit].emptying = 0
    [] order.kind = "empty" -> w.unit[order.unit].phase = "none"
    [] OTHER -> TRUE

Nothing == [kind |-> "rest", unit |-> Nobody, grams |-> 0]
Works(w) ==
  {Nothing}
    \cup [kind : {"crew"}, unit : {u \in Rows(w) : Crewable(w, u)}, grams : {0}]
    \cup UNION {[kind : {"cart"}, unit : {u}, grams : {1, Total(w.unit[u].legs[1].grams)} \ {0}] :
                 u \in {u \in Rows(w) : /\ w.unit[u].seam /\ w.unit[u].legs # <<>>
                                        /\ w.unit[u].emptying = 0}}
    \cup UNION {[kind : {"empty"}, unit : {u}, grams : 1..Total(w.unit[u].stock)] :
                 u \in {u \in Rows(w) : w.unit[u].emptying = 1}}

\* The engine's order of the sub-steps: labour, production, construction.
Hour(order, work, use, worn) ==
  \E laboured \in {IF work.kind = "crew" THEN Labour(world, work.unit) ELSE world} :
  \E produced \in {RunProductionDecisions(laboured, order, work, use)} :
  \E built \in {RunConstructionDecisions(produced, order, worn)} :
    world' = [built EXCEPT !.hour = 1 - @]

Init == world \in Starts
Next ==
  \E order \in Orders(world), work \in Works(world) :
    /\ Careful => Apart(world, order)
    /\ \/ Hour(order, work, Nobody, {})
       \/ /\ order.kind = "none" /\ work = Nothing /\ world.hour = Evening
          /\ \E use \in {u \in Rows(world) : /\ Standing(world.unit[u])
                                             /\ UnreservedOf(world.unit[u], PitRes) > 0} :
               Hour(order, work, use, {})
       \/ /\ order.kind = "none" /\ world.hour = Midnight
          /\ \E worn \in Rows(world) : Hour(order, work, Nobody, {worn})
Spec == Init /\ [][Next]_vars

(* -- properties ---------------------------------------------------------- *)
\* Every row is of a known type and phase and holds amounts of known goods.
TypeOK ==
  /\ world.hour \in 0..1
  /\ \A u \in Rows(world) :
       LET row == world.unit[u]
       IN /\ row.phase \in Phases /\ row.type \in DOMAIN Types
          /\ row.stock \in [Res -> Nat] /\ row.awaiting \in [Res -> Nat]
          /\ row.level \in 0..Len(Ladder(row)) /\ row.target \in 0..Len(Ladder(row))
          /\ row.phase \in {"marked", "demolishing"} => row.level = 0
          /\ (row.phase # "demolishing" /\ row.level = 0) =>
               row.phase \in {"marked", "delivering", "building"}

\* Where the grams of r are: on rows, on their way to a site, at the pit, in
\* the walls, taken by the day's takers, or booked lost.
GramsOf(r) ==
  MapThenSumSet(LAMBDA u : FixedForSite(world.unit[u], r), Rows(world))
    + world.lying[r] + world.builtIn[r] + world.used[r] + world.lost[r]

\* No gram is made or lost by works: what a works takes, carts, builds in,
\* gives back when it is taken down and loses when a house falls adds up to
\* what there was (AddTo's clamp at nought never bites, and built_in never
\* books what was not on the site: construction_system.cpp, CompleteBuild).
GramsKept == \A r \in Res : GramsOf(r) = Endowment[r]

\* The two homes of what is on its way agree gram for gram, and what a
\* standing unit holds back is never more than lies in it (unit_state.h,
\* `legs` and `reserved`).
LegsAreAwaiting ==
  \A u \in Rows(world) : LET row == world.unit[u] IN
    \A r \in Res :
      /\ row.awaiting[r] = MapThenSumSet(LAMBDA k : row.legs[k].grams[r], 1..Len(row.legs))
      /\ row.reserved[r] <= row.stock[r]

\* A parent comes down with its modules: no module is left standing, marked
\* or going up on a row that is gone or is being taken down (Demolish).
NoOrphanModule ==
  \A u \in Rows(world) : LET row == world.unit[u] IN
    row.parent # Nobody /\ row.phase # "demolishing" =>
      Standing(world.unit[row.parent])

\* What a works started with stays its own: a new building has its whole
\* recipe on the plot or on the way from the start, and a works whose labour
\* is open has every line on the unit, held back where the unit stands.
WorksOwnTheirRecipe ==
  \A u \in Rows(world) : LET row == world.unit[u] IN \A r \in Res :
    /\ row.phase = "delivering" /\ row.level = 0 =>
         FixedForSite(row, r) >= Lines(row)[r]
    /\ row.phase \in {"building", "repairing"} =>
         /\ row.stock[r] >= Lines(row)[r]
         /\ row.level > 0 => row.reserved[r] >= Lines(row)[r]

\* What hangs on a unit's row hangs on it whole: its carting, its holding
\* back, its parent and its recipe.
SitesHold == LegsAreAwaiting /\ NoOrphanModule /\ WorksOwnTheirRecipe

\* A supply that stood on the floor stays on it until nothing more awaits:
\* neither a delivery nor a new fixing takes it off (SettleSupplyIdleDays).
FloorHolds ==
  [][\A u \in Rows(world) :
       OnSupplyFloor(world.unit[u]) /\ world'.unit[u].phase # "gone" =>
         \/ OnSupplyFloor(world'.unit[u])
         \/ ~Awaits(world'.unit[u])]_vars
=============================================================================
