----------------------------- MODULE PostOrders ------------------------------
(***************************************************************************)
(* Posts and standing work (core_labor: posts.cpp, work_orders.cpp and the *)
(* order book's part of labor_system.cpp).                                 *)
(*                                                                         *)
(* A post stands on the resident's row and changes at the day's close; a   *)
(* standing work is the accepted kAssignWork row itself.  One man, one     *)
(* answer: the two must not stand together, though they are read by two    *)
(* passes, settled at different hours, and either may be withdrawn, die    *)
(* with its man or lose its unit in between.                               *)
(*                                                                         *)
(* A step is one action of the labour sub-step with the batch before it    *)
(* and the sweep behind it; what the other subsystems do to residents,     *)
(* units and places of work in the rest of the step is `Elsewhere`.  The   *)
(* day's placement and pay are not modelled.                               *)
(***************************************************************************)
EXTENDS OrderBookOps, FiniteSets

CONSTANTS kTicksPerDay,
          Villager,      \* those who live here when the campaign begins
          Specialist,    \* those the district may send later
          Unit,
          Site,          \* those of them marked out and not built yet
          Slots,         \* unit -> the posts it carries -> their places, 0 for no ceiling
          SinglePost,    \* the posts of which a village has one
          Eligible,      \* who may hold what: <<resident, profession>>
          Minor,         \* who is under the working age
          Target,        \* the places of work an order may name
          WrongLand,     \* those whose land never carries the work named
          AwayTicks,     \* the ticks the chairman is in the district
          Named,         \* bounds of the model: the residents orders name,
          MaxTick,       \*   the last tick completed,
          MaxOrder,      \*   the last order id issued,
          MaxIssued,     \*   the orders of one batch,
          MaxCancelled,  \*   its withdrawals,
          MaxElsewhere   \*   and what befalls the village from elsewhere

ASSUME PeopleAssumption ==
  Villager \cap Specialist = {} /\ IsFiniteSet(Villager \cup Specialist) /\ Site \subseteq Unit

ASSUME BoundAssumption == MaxTick \in Nat /\ MaxOrder \in Nat

Resident   == Villager \cup Specialist

NoPost == [profession |-> "none", unit |-> "none"]
Post   == UNION {[profession : DOMAIN Slots[u], unit : {u}] : u \in Unit}

\* "none" is the name of no profession.
ASSUME SlotsAssumption ==
  /\ NoPost \notin Post /\ "none" \notin SinglePost
  /\ \A u \in Unit : \A p \in DOMAIN Slots[u] : Slots[u][p] \in Nat

kAppoint     == "appoint"
kDismiss     == "dismiss"
kAssignWork  == "assign"
kReleaseWork == "release"
PostVerb     == {kAppoint, kDismiss}

Given(kind, m, post, target) ==
  [kind |-> kind, resident |-> m, profession |-> post.profession, unit |-> post.unit,
   target |-> target, status |-> kPending, refusal |-> "kNone"]

\* What the boundary lets through: each verb with the fields it needs.
OrderRow ==
  {Given(kAppoint, m, post, "none") : m \in Named, post \in Post}
    \cup {Given(kind, m, NoPost, "none") : kind \in {kDismiss, kReleaseWork}, m \in Named}
    \cup {Given(kAssignWork, m, NoPost, target) : m \in Named, target \in Target}

VARIABLES world,     \* the completed world, cut down to:
                     \*   tick, orders,
                     \*   post    resident -> ResidentRow::post, of those who live here,
                     \*   units   unit -> "site", "stands" or "demolishing",
                     \*   places  place of work -> "open", "worked out" or "planted"
          staged,    \* the batch the boundary staged
          expected,  \* the specialists still to come
          befallen   \* history: how much has come from elsewhere

vars == <<world, staged, expected, befallen>>

EmptyBatch == [issued |-> <<>>, cancelled |-> <<>>]

Init ==
  /\ world = [tick |-> 0, orders |-> EmptyTable, post |-> [m \in Villager |-> NoPost],
              units |-> [u \in Unit |-> IF u \in Site THEN "site" ELSE "stands"],
              places |-> [t \in Target |-> "open"]]
  /\ staged = EmptyBatch
  /\ expected = Specialist
  /\ befallen = 0

-----------------------------------------------------------------------------
(* What the book says of a man.                                            *)

Lives(w, m) == m \in DOMAIN w.post

OrdersOf(w, m, kind) ==
  {r \in DOMAIN w.orders.rows : w.orders.rows[r].kind = kind /\ w.orders.rows[r].resident = m}

Accepted(w, rows) == {r \in rows : w.orders.rows[r].status = kAccepted}

InTheBook(w, rows) == {r \in rows : w.orders.rows[r].status \notin {kRefused, kCancelled}}

StandingWork(w, m) == Accepted(w, OrdersOf(w, m, kAssignWork))

\* mutant: what is granted and not yet applied is not asked
Bug_AskTheRow(w, m) == FALSE

AppointmentIsWaiting(w, m) == Accepted(w, OrdersOf(w, m, kAppoint)) # {}

HasWaitingPostOrder(w, m, self) ==
  Accepted(w, OrdersOf(w, m, kAppoint) \cup OrdersOf(w, m, kDismiss)) \ {self} # {}

DismissalIsInTheBook(w, m) == InTheBook(w, OrdersOf(w, m, kDismiss)) # {}

ReleaseIsInTheBook(w, m) == InTheBook(w, OrdersOf(w, m, kReleaseWork)) # {}

\* mutant: an unread work order anywhere in the batch
Bug_WorkOrderUnread(w, m, self) ==
  \E r \in OrdersOf(w, m, kAssignWork) : w.orders.rows[r].status = kPending

\* The row index tells first from second inside one batch.
WorkOrderCameFirst(w, m, self) ==
  \E r \in OrdersOf(w, m, kAssignWork) : r < self /\ w.orders.rows[r].status = kPending

Settled(w, r, status, refusal) ==
  [w EXCEPT !.orders.rows[r].status = status, !.orders.rows[r].refusal = refusal]

-----------------------------------------------------------------------------
(* Posts.                                                                  *)

\* FindStaffSlot: a site marked out, or coming down, is at level 0 and carries
\* no post.
HasPlace(w, u, p) == w.units[u] = "stands" /\ p \in DOMAIN Slots[u]

Holders(w, p, u) == {m \in DOMAIN w.post : w.post[m] = [profession |-> p, unit |-> u]}

HeldAnywhere(w, p, except) == \E m \in DOMAIN w.post \ {except} : w.post[m].profession = p

Vacant(w, p, u, m) ==
  /\ p \in SinglePost => ~HeldAnywhere(w, p, m)
  /\ Slots[u][p] # 0 => Cardinality(Holders(w, p, u) \ {m}) < Slots[u][p]

CheckAppointment(w, order) ==
  LET m == order.resident
      p == order.profession
      u == order.unit
  IN IF ~Lives(w, m) \/ u \notin DOMAIN w.units THEN "kNoSuchSubject"
     ELSE IF ~HasPlace(w, u, p)                 THEN "kRuleForbids"
     ELSE IF <<m, p>> \notin Eligible           THEN "kNotEligible"
     ELSE IF ~Vacant(w, p, u, m)                THEN "kNoVacancy"
     ELSE IF StandingWork(w, m) # {} /\ ~ReleaseIsInTheBook(w, m) THEN "kConflictsWithActive"
     ELSE "kNone"

CheckDismissal(w, order) ==
  IF ~Lives(w, order.resident) THEN "kNoSuchSubject"
  ELSE IF w.post[order.resident] = NoPost THEN "kRuleForbids"
  ELSE "kNone"

CheckPostOrder(w, order) ==
  IF order.kind = kAppoint THEN CheckAppointment(w, order) ELSE CheckDismissal(w, order)

ConflictsWithTheBook(w, r) ==
  LET order == w.orders.rows[r] IN
  \/ HasWaitingPostOrder(w, order.resident, r)
  \/ order.kind = kAppoint /\ WorkOrderCameFirst(w, order.resident, r)

ReadPostOrder(w, r) ==
  LET order   == w.orders.rows[r]
      refusal == CheckPostOrder(w, order)
  IN IF order.status # kPending \/ order.kind \notin PostVerb THEN w
     ELSE IF refusal # "kNone"          THEN Settled(w, r, kRefused, refusal)
     ELSE IF ConflictsWithTheBook(w, r) THEN Settled(w, r, kRefused, "kConflictsWithActive")
     ELSE Settled(w, r, kAccepted, "kNone")

\* mutant: what was accepted in the morning is not looked at again
Bug_ApplyUnchecked(w, r) ==
  LET order == w.orders.rows[r] IN
  IF order.status # kAccepted \/ order.kind \notin PostVerb THEN w
  ELSE Settled([w EXCEPT !.post = [m \in DOMAIN @ |->
                  IF m = order.resident
                  THEN [profession |-> order.profession, unit |-> order.unit] ELSE @[m]]],
               r, kDone, "kNone")


\* Everything is checked a second time: a man who holds a post is moved.
ApplyPostOrder(w, r) ==
  LET order   == w.orders.rows[r]
      refusal == CheckPostOrder(w, order)
  IN IF order.status # kAccepted \/ order.kind \notin PostVerb THEN w
     ELSE IF refusal # "kNone" THEN Settled(w, r, kRefused, refusal)
     ELSE Settled([w EXCEPT !.post[order.resident] =
                     [profession |-> order.profession, unit |-> order.unit]], r, kDone, "kNone")

UnitStands(w, u) == u \in DOMAIN w.units /\ w.units[u] # "demolishing"

VacatePostsWithNoUnit(w) ==
  [w EXCEPT !.post = [m \in DOMAIN @ |->
     IF @[m] # NoPost /\ ~UnitStands(w, @[m].unit) THEN NoPost ELSE @[m]]]

-----------------------------------------------------------------------------
(* Standing work.                                                          *)

CheckAssignWork(w, order) ==
  LET m == order.resident IN
  IF ~Lives(w, m) \/ order.target \notin DOMAIN w.places THEN "kNoSuchSubject"
  ELSE IF w.post[m] # NoPost /\ ~DismissalIsInTheBook(w, m) THEN "kConflictsWithActive"
  ELSE IF AppointmentIsWaiting(w, m) THEN "kConflictsWithActive"
  ELSE IF m \in Minor                THEN "kNotEligible"
  ELSE IF order.target \in WrongLand THEN "kWrongLand"
  ELSE "kNone"

\* The standing order of a man: the first of the book's rows.
StandingWorkRow(w, m) == CHOOSE r \in StandingWork(w, m) : \A s \in StandingWork(w, m) : r <= s

\* A newer order takes the older one back.
Superseded(w, m) ==
  IF StandingWork(w, m) = {} THEN w ELSE Settled(w, StandingWorkRow(w, m), kCancelled, "kNone")

ReadAssignWork(w, r) ==
  LET order   == w.orders.rows[r]
      refusal == CheckAssignWork(w, order)
  IN IF refusal # "kNone" THEN Settled(w, r, kRefused, refusal)
     ELSE Settled(Superseded(w, order.resident), r, kAccepted, "kNone")

ReadReleaseWork(w, r) ==
  LET m == w.orders.rows[r].resident IN
  IF ~Lives(w, m)                 THEN Settled(w, r, kRefused, "kNoSuchSubject")
  ELSE IF StandingWork(w, m) = {} THEN Settled(w, r, kRefused, "kRuleForbids")
  ELSE Settled(Settled(w, StandingWorkRow(w, m), kDone, "kNone"), r, kDone, "kNone")

ReadWorkOrder(w, r) ==
  LET order == w.orders.rows[r] IN
  CASE order.status = kPending /\ order.kind = kAssignWork  -> ReadAssignWork(w, r)
    [] order.status = kPending /\ order.kind = kReleaseWork -> ReadReleaseWork(w, r)
    [] OTHER -> w

RefusedRow(order, refusal) == [order EXCEPT !.status = kRefused, !.refusal = refusal]

\* The one answer is asked again in every step, not only when it is given.
ClosedIfOrphaned(w, order) ==
  LET m == order.resident IN
  IF order.kind # kAssignWork \/ order.status # kAccepted THEN order
  ELSE IF ~Lives(w, m) \/ order.target \notin DOMAIN w.places
                                                THEN RefusedRow(order, "kNoSuchSubject")
  ELSE IF w.places[order.target] = "worked out" THEN RefusedRow(order, "kSiteExhausted")
  ELSE IF w.places[order.target] = "planted"    THEN [order EXCEPT !.status = kDone]
  ELSE IF w.post[m] # NoPost /\ ~DismissalIsInTheBook(w, m)
                                                THEN RefusedRow(order, "kConflictsWithActive")
  ELSE order

CloseOrphanedWork(w) ==
  [w EXCEPT !.orders.rows = [r \in DOMAIN @ |-> ClosedIfOrphaned(w, @[r])]]

-----------------------------------------------------------------------------
(* The labour sub-step.                                                    *)

DayCloses(tick) == tick % kTicksPerDay = kTicksPerDay - 1

\* RefuseVillageOrdersWhileAway: none of the four is given from the district.
Gated(w) ==
  IF w.tick \notin AwayTicks THEN w
  ELSE [w EXCEPT !.orders.rows = [r \in DOMAIN @ |->
          IF @[r].status = kPending THEN RefusedRow(@[r], "kChairmanAway") ELSE @[r]]]

OverRows(Handler(_, _), w) == FoldLeft(Handler, w, [r \in DOMAIN w.orders.rows |-> r])

ApplyPostOrders(w) == OverRows(ApplyPostOrder, w)
ReadPostOrders(w)  == OverRows(ReadPostOrder, w)
ReadWorkOrders(w)  == CloseOrphanedWork(OverRows(ReadWorkOrder, w))

Close(w) == IF DayCloses(w.tick) THEN VacatePostsWithNoUnit(ApplyPostOrders(w)) ELSE w

\* mutant: the orders of the day's last step take effect in it
Bug_ReadThenClose(w) == Close(ReadWorkOrders(ReadPostOrders(w)))

\* Reading comes last.
RunAssignmentDecisions(w) == ReadWorkOrders(ReadPostOrders(Close(w)))

Begun(w, batch) ==
  [w EXCEPT !.tick = @ + 1, !.orders = ApplyBatch(@, batch.issued, batch.cancelled)]

Labour(w, batch) == RunAssignmentDecisions(Gated(Begun(w, batch)))

Step ==
  /\ world.tick < MaxTick
  /\ LET after == Labour(world, staged) IN
     world' = [after EXCEPT !.orders = SweptBook(after.orders)]
  /\ staged' = EmptyBatch
  /\ UNCHANGED <<expected, befallen>>

-----------------------------------------------------------------------------
(* Between steps, and in the rest of a step.                               *)

Promised == world.orders.next_id_value + Len(staged.issued)

IssueOrder(row) ==
  /\ Len(staged.issued) < MaxIssued /\ Promised <= MaxOrder
  /\ staged' = [staged EXCEPT !.issued = Append(@, row)]
  /\ UNCHANGED <<world, expected, befallen>>

\* Whatever stands in the book is pending or accepted, and may be withdrawn.
CancelOrder(id) ==
  /\ Len(staged.cancelled) < MaxCancelled
  /\ id < Promised /\ (FindRow(world.orders, id) # kNoRow \/ id >= world.orders.next_id_value)
  /\ staged' = [staged EXCEPT !.cancelled = Append(@, id)]
  /\ UNCHANGED <<world, expected, befallen>>

Dies(m) ==
  /\ Lives(world, m)
  /\ world' = [world EXCEPT !.post = [other \in DOMAIN @ \ {m} |-> @[other]]]
  /\ UNCHANGED <<staged, expected>>

\* The district's specialist is appointed at once, with no order and no
\* question of places.
Arrives(m, post) ==
  /\ m \in expected
  /\ LET held == IF post.unit \in DOMAIN world.units THEN post ELSE NoPost IN
     world' = [world EXCEPT !.post = [other \in DOMAIN @ \cup {m} |->
                                        IF other = m THEN held ELSE @[other]]]
  /\ expected' = expected \ {m}
  /\ UNCHANGED staged

Built(u) ==
  /\ u \in DOMAIN world.units /\ world.units[u] = "site"
  /\ world' = [world EXCEPT !.units[u] = "stands"]
  /\ UNCHANGED <<staged, expected>>

TakeDown(u) ==
  /\ u \in DOMAIN world.units /\ world.units[u] = "stands"
  /\ world' = [world EXCEPT !.units[u] = "demolishing"]
  /\ UNCHANGED <<staged, expected>>

\* Taken down to the end, or fallen.
UnitGoes(u) ==
  /\ u \in DOMAIN world.units
  /\ world' = [world EXCEPT !.units = [other \in DOMAIN @ \ {u} |-> @[other]]]
  /\ UNCHANGED <<staged, expected>>

PlaceIsDone(t, how) ==
  /\ t \in DOMAIN world.places /\ world.places[t] = "open"
  /\ world' = [world EXCEPT !.places[t] = how]
  /\ UNCHANGED <<staged, expected>>

PlaceGoes(t) ==
  /\ t \in DOMAIN world.places
  /\ world' = [world EXCEPT !.places = [other \in DOMAIN @ \ {t} |-> @[other]]]
  /\ UNCHANGED <<staged, expected>>

Elsewhere ==
  /\ befallen < MaxElsewhere
  /\ befallen' = befallen + 1
  /\ \/ \E m \in Resident : Dies(m)
     \/ \E m \in Specialist : \E post \in Post : Arrives(m, post)
     \/ \E u \in Unit : Built(u) \/ TakeDown(u) \/ UnitGoes(u)
     \/ \E t \in Target : PlaceGoes(t) \/ \E how \in {"worked out", "planted"} : PlaceIsDone(t, how)

Next ==
  \/ Step
  \/ \E row \in OrderRow : IssueOrder(row)
  \/ \E id \in 1..MaxOrder : CancelOrder(id)
  \/ Elsewhere

Spec == Init /\ [][Next]_vars
-----------------------------------------------------------------------------
TypeOK ==
  /\ world.tick \in 0..MaxTick
  /\ DOMAIN world.post \subseteq Resident
  /\ \A m \in DOMAIN world.post : world.post[m] \in Post \cup {NoPost}
  /\ \A r \in DOMAIN world.orders.rows : world.orders.rows[r].status = kAccepted
  /\ \A u \in DOMAIN world.units : world.units[u] \in {"site", "stands", "demolishing"}
  /\ \A t \in DOMAIN world.places : world.places[t] \in {"open", "worked out", "planted"}
  /\ staged.issued \in Seq(OrderRow) /\ staged.cancelled \in Seq(1..MaxOrder)

\* One man has one answer to what he does (manual/76-work-orders.md, 2): never
\* a standing work beside a post nobody is ending or a post on its way, nor
\* two of either, though the two are accepted by different passes, applied at
\* different hours, and the dismissal a work was granted on may be taken back.
OneAnswer ==
  \A m \in DOMAIN world.post :
    LET standing(kind) == OrdersOf(world, m, kind) IN
    /\ Cardinality(standing(kAssignWork)) <= 1
    /\ Cardinality(standing(kAppoint)) + Cardinality(standing(kDismiss)) <= 1
    /\ standing(kAssignWork) # {} =>
         standing(kAppoint) = {} /\ (world.post[m] # NoPost => standing(kDismiss) # {})

OnlyTheseTwo(m, i, j) ==
  /\ world.post[m] = NoPost
  /\ \A r \in DOMAIN world.orders.rows : world.orders.rows[r].resident # m
  /\ \A k \in DOMAIN staged.issued \ {i, j} : staged.issued[k].resident # m

\* Of an appointment and a work given to one free man in one batch the one
\* given second yields, whichever of the two it is and though the posts are
\* read before the works (work_orders.h, WorkOrderCameFirst).
FirstComesFirst ==
  LET read == Labour(world, staged).orders.rows
      row  == [k \in DOMAIN staged.issued |-> read[Len(world.orders.rows) + k]]
  IN \A i, j \in DOMAIN staged.issued :
       LET m == staged.issued[i].resident IN
       (/\ i < j /\ staged.issued[j].resident = m /\ Lives(world, m)
        /\ {staged.issued[i].kind, staged.issued[j].kind} = {kAppoint, kAssignWork}
        /\ OnlyTheseTwo(m, i, j))
       => ~(row[j].status = kAccepted /\ row[i].refusal = "kConflictsWithActive")

\* What a man is told to do is one thing, and of two things told at once the
\* first (PostOrders' two readers of one book, labor_system.cpp).
OrdersAnswered == OneAnswer /\ FirstComesFirst

Stepped == world'.tick # world.tick
Closed  == Stepped /\ DayCloses(world'.tick)

\* What the day's close may make of a man: what he was, or what an order
\* accepted before this step, and not withdrawn, asks for him.
Asked(m) ==
  {[profession |-> world.orders.rows[r].profession, unit |-> world.orders.rows[r].unit] :
     r \in {s \in DOMAIN world.orders.rows :
              /\ world.orders.rows[s].resident = m /\ world.orders.rows[s].kind \in PostVerb
              /\ \A k \in DOMAIN staged.cancelled : staged.cancelled[k] # world.orders.row_ids[s]}}

PostsChangeAtTheClose ==
  \A m \in DOMAIN world.post \cap DOMAIN world'.post :
    world'.post[m] # world.post[m] =>
      /\ Closed
      /\ \/ world'.post[m] \in Asked(m)
         \/ /\ world'.post[m] = NoPost
            /\ \E post \in Asked(m) \cup {world.post[m]} :
                 post # NoPost /\ ~UnitStands(world, post.unit)

AnsweredByTheClose ==
  Closed => \A r \in DOMAIN world'.orders.rows :
    world'.orders.rows[r].kind \in PostVerb
      => world'.orders.row_ids[r] >= world.orders.next_id_value

\* A man's post changes at the day's close and at no other hour, by an order
\* given in an earlier step or because the unit is gone or going; nothing
\* given in the day's last step takes effect in it (manual/74-posts.md, 3).
\* And a post order waits for one close and not for a second: whatever stood
\* in the book before a close is answered by it.
SettledAtTheClose == [][PostsChangeAtTheClose /\ AnsweredByTheClose]_vars

NoMore(place, limit) ==
  Cardinality(place') <= limit \/ Cardinality(place') <= Cardinality(place)

HeldBy(p) == {m \in DOMAIN world.post : world.post[m].profession = p}

\* However many orders for one place were accepted in a day, and whoever moved
\* or was sent there meanwhile, a close fills no place twice; and nobody is
\* left on a post of a unit that is gone or going once the day has closed on it
\* (posts.h: until then only a dismissal cleared a post).
PostsHeldRight ==
  /\ Stepped =>
       /\ \A u \in Unit : \A p \in DOMAIN Slots[u] :
            Slots[u][p] # 0 => NoMore(Holders(world, p, u), Slots[u][p])
       /\ \A p \in SinglePost : NoMore(HeldBy(p), 1)
  /\ Closed => \A m \in DOMAIN world'.post :
       world'.post[m] # NoPost => UnitStands(world, world'.post[m].unit)

\* A standing work whose man is dead, whose place is gone or is done with
\* stands no longer than the next step (work_orders.cpp, MEM-001): nobody else
\* could ever close it.
NoImmortalWork ==
  Stepped => \A r \in DOMAIN world'.orders.rows :
    LET order == world'.orders.rows[r] IN
    order.kind = kAssignWork =>
      /\ Lives(world, order.resident)
      /\ order.target \in DOMAIN world.places /\ world.places[order.target] = "open"

\* Nobody stands where there is no place for him: on a post or at a work.
PlacesHeldRight == [][PostsHeldRight /\ NoImmortalWork]_vars
=============================================================================
