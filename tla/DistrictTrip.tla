----------------------------- MODULE DistrictTrip -----------------------------
(***************************************************************************)
(* The chairman's trips to the district (core_production: district_trip,   *)
(* district_visit and the hours of production_system that run them;        *)
(* core_common: chairman_away).                                            *)
(*                                                                         *)
(* He goes on a trip of his own once a month, or on a summons; a blizzard  *)
(* holds him and mud brings him back a day late.  While he is away the     *)
(* village's orders are refused and the district's visits wait.  A summons *)
(* has a cause, and there is one at a time: the one for a reputation that  *)
(* fell to the line may have to wait for another's return.                 *)
(*                                                                         *)
(* A step is one action: the gate, the residents' and the production's     *)
(* part of the decisions slot, in their order.  What a visit finds, how a  *)
(* year is judged, the weather and the orders given are any.  Everything   *)
(* that moves the reputation moves it by one point.                        *)
(***************************************************************************)
EXTENDS Integers, Sequences, FiniteSets, SequencesExt

CONSTANTS kTicksPerDay, kDaysPerMonth, kDaysPerYear,
          depart_hour, return_hour,
          audit_hour,                  \* the hour of the store audit
          summon_letter_delay_days, summon_after_letter_days,
          notice_days,                 \* from a regular visit's announcement to its day
          plan_trade_min_reputation,   \* the line of the pencil
          kReputationMax,              \* 100 in the code
          StartReputation,             \* what the avatars begin with
          Regular,                     \* the regular visits' faces and days
          BargainDays,                 \* the days the plan may be bargained
          MaxTick,                     \* bounds of the model: the last tick completed
          MaxGiven                     \*   and the orders of one batch

\* The catalogue refuses a return that is not after the departure.
ASSUME HourAssumption ==
  /\ {kTicksPerDay, depart_hour, return_hour, audit_hour} \subseteq Nat
  /\ 0 < depart_hour /\ depart_hour < return_hour /\ return_hour < kTicksPerDay
  /\ 0 < audit_hour /\ audit_hour < kTicksPerDay

\* The tables' terms are 1 and 2.  The catalogue lets shorter ones through,
\* which would call him while the mud still keeps him from an own trip.
ASSUME TermAssumption ==
  /\ {summon_letter_delay_days, summon_after_letter_days} \subseteq Nat
  /\ summon_letter_delay_days >= 1 /\ summon_letter_delay_days + summon_after_letter_days >= 3

Weather == {"fair", "mud", "blizzard"}
Cause   == {"kNone", "kFailedYear", "kAuditDiscrepancy", "kOnThePencil"}

DistrictDoor == {"kTradePlan"}
VillageDoor  == {"kTripToDistrict", "kWriteOffShortage"}

Face == {"kKarasev", "kStozharov", "kPolushkina", "kZhernova", "kKorenev"}

\* The tables give the visits' notice and days, and the avatars' first
\* reputation on the scale of the code's.
ASSUME TableAssumption ==
  /\ kReputationMax \in Nat /\ StartReputation \subseteq 0..kReputationMax
  /\ notice_days \in Nat
  /\ IsFiniteSet(Regular) /\ Regular \subseteq [face : Face, day : Nat]

ASSUME BoundAssumption == MaxTick \in Nat

VARIABLES world,     \* the completed world, cut down to the chairman, the visits, the
                     \*   weather, the verdict and the step's events and answers
          abroad,    \* history: departed, and not returned
          booked,    \*   his own trip was booked today
          met        \*   a visit was held today

vars == <<world, abroad, booked, met>>

Init ==
  /\ world \in [tick : {0}, weather : {"fair"},
                away_from_tick : {0}, away_until_tick : {0}, away_summoned : {FALSE},
                last_trip_day : {0}, summon_letter_day : {0}, summon_day : {0},
                summon_cause : {"kNone"}, pencil_pending : {FALSE},
                raikom_reputation : StartReputation, reputation_recovery_owed : {FALSE},
                plan_traded_year : {0}, last_verdict : {"kNone"}, visits : {<<>>},
                events : {{}}, answers : {{}}]
  /\ abroad = FALSE
  /\ booked = FALSE
  /\ met = FALSE

-----------------------------------------------------------------------------
TickAt(day, hour) == day * kTicksPerDay + hour
DayOf(w)          == w.tick \div kTicksPerDay
HourOf(w)         == w.tick % kTicksPerDay
MonthIndex(day)   == day \div kDaysPerMonth
YearMark(w)       == DayOf(w) \div kDaysPerYear + 1
Dawn(w)           == HourOf(w) = 0
YearTurns(w)      == DayOf(w) % kDaysPerYear = 0

Emit(w, event) == [w EXCEPT !.events = @ \cup {event}]

Answered(w, kind, refusal) == [w EXCEPT !.answers = @ \cup {[kind |-> kind, refusal |-> refusal]}]

Raised(w)  == [w EXCEPT !.raikom_reputation = IF @ < kReputationMax THEN @ + 1 ELSE @]
Lowered(w) == [w EXCEPT !.raikom_reputation = IF @ > 0 THEN @ - 1 ELSE @]

-----------------------------------------------------------------------------
(* Is he away (chairman_away.cpp).                                         *)

WeatherHoldsDeparture(w) == w.weather = "blizzard"

\* Both ends are away; a departure that the weather holds is not.
ChairmanAway(w) ==
  /\ ~(w.tick = w.away_from_tick /\ WeatherHoldsDeparture(w))
  /\ w.away_from_tick # 0 /\ w.away_from_tick <= w.tick /\ w.tick <= w.away_until_tick

RefuseVillageOrdersWhileAway(w, kinds) ==
  IF ChairmanAway(w)
  THEN [w EXCEPT !.answers = {[kind |-> k, refusal |-> "kChairmanAway"] : k \in kinds \ DistrictDoor}]
  ELSE w

Open(w, kinds) == {k \in kinds : \A a \in w.answers : a.kind # k}

\* mutant: a trip that leaves today is no day away
Bug_StillAwayOnly(w) ==
  /\ w.away_from_tick # 0 /\ w.away_from_tick < TickAt(DayOf(w), 0)
  /\ w.away_until_tick > TickAt(DayOf(w), 0)

\* Whether he is away at any hour of today, as far as the dawn can know.
AwayToday(w) ==
  LET dawn       == TickAt(DayOf(w), 0)
      stillAway  == w.away_from_tick # 0 /\ w.away_from_tick < dawn /\ w.away_until_tick > dawn
      leaves     == w.away_from_tick # 0 /\ w.away_from_tick >= dawn
                      /\ w.away_from_tick < dawn + kTicksPerDay
      summoned   == w.summon_day # 0 /\ w.summon_day = DayOf(w)
  IN stillAway \/ (~WeatherHoldsDeparture(w) /\ (leaves \/ summoned))

-----------------------------------------------------------------------------
(* The summons and the trip (district_trip.cpp).                           *)

\* mutant: a new cause takes the place of the one that stands
Bug_Resummoned(w, cause) ==
  [w EXCEPT !.summon_letter_day = DayOf(w) + summon_letter_delay_days,
            !.summon_day = DayOf(w) + summon_letter_delay_days + summon_after_letter_days,
            !.summon_cause = cause]

\* One summons at a time.
SummonChairman(w, cause) ==
  IF w.summon_day # 0 THEN w
  ELSE [w EXCEPT !.summon_letter_day = DayOf(w) + summon_letter_delay_days,
                 !.summon_day = DayOf(w) + summon_letter_delay_days + summon_after_letter_days,
                 !.summon_cause = cause]

ClearTrip(w) == [w EXCEPT !.away_from_tick = 0, !.away_until_tick = 0, !.away_summoned = FALSE]

LastTripDay(day) == day + 1

\* mutant: the summons is moved and the hours he is away are not
Bug_DayMovedAlone(w) ==
  IF WeatherHoldsDeparture(w)
  THEN IF w.away_summoned THEN Emit([w EXCEPT !.summon_day = @ + 1], "kSummonPostponed")
       ELSE Emit(ClearTrip(w), "kTripCancelled")
  ELSE Emit([w EXCEPT !.away_until_tick =
                         IF w.weather = "mud" THEN TickAt(DayOf(w) + 1, depart_hour) ELSE @,
                      !.last_trip_day = IF w.away_summoned THEN @ ELSE LastTripDay(DayOf(w))],
            "kTripDeparted")

\* A blizzard moves a summons a day and cancels a trip of his own; in the mud
\* he is back the next morning.
Depart(w) ==
  IF WeatherHoldsDeparture(w)
  THEN IF w.away_summoned
       THEN Emit([w EXCEPT !.summon_day = @ + 1,
                           !.away_from_tick = @ + kTicksPerDay,
                           !.away_until_tick = @ + kTicksPerDay], "kSummonPostponed")
       ELSE Emit(ClearTrip(w), "kTripCancelled")
  ELSE Emit([w EXCEPT !.away_until_tick =
                         IF w.weather = "mud" THEN TickAt(DayOf(w) + 1, depart_hour) ELSE @,
                      !.last_trip_day = IF w.away_summoned THEN @ ELSE LastTripDay(DayOf(w))],
            "kTripDeparted")

OnThePencil(w) == w.raikom_reputation <= plan_trade_min_reputation

\* The summons that brought him there ends with the trip, and the pencil that
\* waited for it calls him if he is still on it.
Return(w) ==
  LET home == Emit(ClearTrip(w), "kTripReturned")
      over == [home EXCEPT !.summon_letter_day = 0, !.summon_day = 0, !.summon_cause = "kNone",
                           !.pencil_pending = FALSE]
  IN IF ~w.away_summoned THEN home
     ELSE IF w.pencil_pending /\ OnThePencil(w) THEN SummonChairman(over, "kOnThePencil")
     ELSE over

\* The day's first tick: the letter, and the morning of a summons, to which a
\* trip of his own gives way.
SummonsMorning(w) ==
  LET said == IF w.summon_letter_day # 0 /\ DayOf(w) = w.summon_letter_day
              THEN Emit(w, "kSummonLetter") ELSE w
  IN IF w.summon_day # 0 /\ DayOf(w) = w.summon_day /\ ~w.away_summoned
     THEN [said EXCEPT !.away_from_tick = TickAt(DayOf(w), depart_hour),
                       !.away_until_tick = TickAt(DayOf(w), return_hour),
                       !.away_summoned = TRUE]
     ELSE said

ReturnIsDue(w) ==
  w.away_until_tick # 0 /\ w.tick >= w.away_until_tick /\ w.tick > w.away_from_tick

RunDistrictTrip(w) ==
  LET now == IF Dawn(w) THEN SummonsMorning(w) ELSE w
  IN CASE now.away_from_tick # 0 /\ now.tick = now.away_from_tick -> Depart(now)
       [] ~(now.away_from_tick # 0 /\ now.tick = now.away_from_tick) /\ ReturnIsDue(now) -> Return(now)
       [] OTHER -> now

\* mutant: the comparison is made once a day
Bug_ComparedAtDawn(previous, w) ==
  IF Dawn(w) /\ ~OnThePencil(previous) /\ OnThePencil(w) /\ w.summon_day = 0
  THEN SummonChairman(w, "kOnThePencil")
  ELSE w

\* A crossing of the line calls him; while another summons stands, and stood a
\* tick ago, it is marked.
SummonOnThePencil(previous, w) ==
  LET stoodBefore == /\ previous.summon_day = w.summon_day
                     /\ previous.summon_cause = w.summon_cause
  IN IF OnThePencil(previous) \/ ~OnThePencil(w) THEN w
     ELSE IF w.summon_day = 0 THEN SummonChairman(w, "kOnThePencil")
     ELSE IF stoodBefore /\ w.summon_cause # "kOnThePencil"
          THEN [w EXCEPT !.pencil_pending = TRUE]
          ELSE w

-----------------------------------------------------------------------------
(* The orders.                                                             *)

TakeWriteOffOrders(w, kinds) ==
  IF "kWriteOffShortage" \in kinds THEN Lowered(Answered(w, "kWriteOffShortage", "kNone")) ELSE w

RunStoreAudit(w, remarks) == IF HourOf(w) = audit_hour /\ remarks THEN Lowered(w) ELSE w

TripDay(w) == IF HourOf(w) < depart_hour THEN DayOf(w) ELSE DayOf(w) + 1

OrderTripToDistrict(w) ==
  IF w.away_from_tick # 0 \/ w.summon_day # 0
  THEN Answered(w, "kTripToDistrict", "kChairmanAway")
  ELSE IF w.last_trip_day # 0 /\ MonthIndex(w.last_trip_day - 1) = MonthIndex(TripDay(w))
  THEN Answered(w, "kTripToDistrict", "kTripThisMonth")
  ELSE Answered([w EXCEPT !.away_from_tick = TickAt(TripDay(w), depart_hour),
                          !.away_until_tick = TickAt(TripDay(w), return_hour),
                          !.away_summoned = FALSE], "kTripToDistrict", "kNone")

OrderTradePlan(w) ==
  LET refusal == CASE ~ChairmanAway(w) -> "kNotEligible"
                   [] ChairmanAway(w) /\ (DayOf(w) \notin BargainDays
                                            \/ w.plan_traded_year = YearMark(w)) -> "kTradeClosed"
                   [] OTHER -> IF w.raikom_reputation < plan_trade_min_reputation
                               THEN "kReputationTooLow" ELSE "kNone"
  IN IF refusal # "kNone" THEN Answered(w, "kTradePlan", refusal)
     ELSE Lowered(Answered([w EXCEPT !.plan_traded_year = YearMark(w)], "kTradePlan", "kNone"))

ConsumeProductionOrders(w, kinds) ==
  LET booking == IF "kTripToDistrict" \in kinds THEN OrderTripToDistrict(w) ELSE w
  IN IF "kTradePlan" \in kinds THEN OrderTradePlan(booking) ELSE booking

-----------------------------------------------------------------------------
(* The district's visits (district_visit.cpp).                             *)

SeniorOfChannel(face) ==
  CASE face = "kKarasev" -> "kStozharov" [] face = "kPolushkina" -> "kZhernova" [] OTHER -> face

Visit(face, kind, day) == [face |-> face, kind |-> kind, arrive_day |-> day]

CallExtraordinary(w, face) ==
  IF \E k \in DOMAIN w.visits : w.visits[k].face = face THEN w
  ELSE [w EXCEPT !.visits = Append(@, Visit(face, "kExtraordinary", DayOf(w) + 1))]

AnnounceRegularVisits(w) ==
  LET day == DayOf(w) + notice_days
      new == {r \in Regular : r.day = day /\ ~\E k \in DOMAIN w.visits :
                                w.visits[k].face = r.face /\ w.visits[k].arrive_day = day}
  IN [w EXCEPT !.visits = @ \o SetToSeq({Visit(r.face, "kRegular", day) : r \in new})]

\* A finding needs a surplus above the limit and a face that counts the
\* stores; the seizure takes the surplus.
Held(held, visit) ==
  LET w     == [held.world EXCEPT !.visits = RemoveFirst(@, visit)]
      found == held.surplus /\ visit.face \in {"kPolushkina", "kZhernova"}
      after == IF found
               THEN [SummonChairman(Lowered(w), "kAuditDiscrepancy")
                       EXCEPT !.reputation_recovery_owed = TRUE]
               ELSE IF w.reputation_recovery_owed
               THEN Raised([w EXCEPT !.reputation_recovery_owed = FALSE]) ELSE w
      said  == Emit(after, "kDistrictVisit")
  IN [surplus |-> held.surplus /\ ~found,
      world   |-> IF found /\ visit.kind = "kRegular"
                  THEN CallExtraordinary(said, SeniorOfChannel(visit.face)) ELSE said]

Due(w, visit) == visit.arrive_day <= DayOf(w)

HeldIfDue(held, visit) == IF Due(held.world, visit) THEN Held(held, visit) ELSE held

\* In the order they were announced or called; what a visit calls is not due.
ArriveDistrictVisits(w, surplus) ==
  LET Later(visit) == IF Due(w, visit) THEN [visit EXCEPT !.arrive_day = DayOf(w) + 1] ELSE visit
  IN IF AwayToday(w)
     THEN [w EXCEPT !.visits = [k \in DOMAIN @ |-> Later(@[k])]]
     ELSE FoldLeft(HeldIfDue, [world |-> w, surplus |-> surplus], w.visits).world

-----------------------------------------------------------------------------
(* The step.                                                               *)

\* The verdict is taken only of a year that something was asked of.
JudgePlan(w, year) ==
  CASE year = "kNone"   -> w
    [] year = "kMet"    -> Emit(Raised([w EXCEPT !.last_verdict = year]), "kPlanMet")
    [] year = "kFailed" ->
         CallExtraordinary(
           Emit(Lowered([w EXCEPT !.last_verdict = year, !.reputation_recovery_owed = TRUE]),
                "kPlanFailed"), "kKorenev")

SummonIfTheYearFailed(w) ==
  IF w.last_verdict = "kFailed" THEN SummonChairman(w, "kFailedYear") ELSE w

RunYearStart(w, chance) ==
  LET beyond == IF chance.beyond THEN Raised(w) ELSE w     \* StepReputationBeyondPlan
  IN SummonIfTheYearFailed(JudgePlan(beyond, chance.year))

RunDay(w, chance) ==
  LET turned == IF YearTurns(w) THEN RunYearStart(w, chance) ELSE w
  IN ArriveDistrictVisits(AnnounceRegularVisits(turned), chance.surplus)

RunProductionDecisions(previous, w, kinds, chance) ==
  LET hour == RunDistrictTrip(ConsumeProductionOrders(w, kinds))
  IN SummonOnThePencil(previous, IF Dawn(w) THEN RunDay(hour, chance) ELSE hour)

StepOf(w, kinds, chance) ==
  LET begun == [w EXCEPT !.tick = @ + 1, !.weather = chance.weather, !.events = {}, !.answers = {}]
      gated == RefuseVillageOrdersWhileAway(begun, kinds)
      lived == RunStoreAudit(TakeWriteOffOrders(gated, Open(gated, kinds)), chance.remarks)
  IN RunProductionDecisions(w, lived, Open(gated, kinds), chance)

\* What a step may meet: the day's weather and what stands in the stores come
\* at dawn, the verdict at the year's turn, the audit at its hour.
Chances(w) ==
  LET tick == w.tick + 1
      dawn == tick % kTicksPerDay = 0
      turn == dawn /\ (tick \div kTicksPerDay) % kDaysPerYear = 0
  IN [weather : IF dawn THEN Weather ELSE {w.weather},
      surplus : IF dawn /\ w.visits # <<>> THEN BOOLEAN ELSE {FALSE},
      year    : IF turn THEN {"kNone", "kMet", "kFailed"} ELSE {"kNone"},
      beyond  : IF turn THEN BOOLEAN ELSE {FALSE},
      remarks : IF tick % kTicksPerDay = audit_hour THEN BOOLEAN ELSE {FALSE}]

Departed(w) == "kTripDeparted" \in w.events
Returned(w) == "kTripReturned" \in w.events
Booked(w)   == [kind |-> "kTripToDistrict", refusal |-> "kNone"] \in w.answers

Step(kinds) ==
  /\ world.tick < MaxTick
  /\ \E chance \in Chances(world) : world' = StepOf(world, kinds, chance)
  /\ abroad' = (Departed(world') \/ (abroad /\ ~Returned(world')))
  /\ booked' = (Booked(world') \/ (booked /\ ~Dawn(world')))
  /\ met' = ("kDistrictVisit" \in world'.events \/ (met /\ ~Dawn(world')))

Next == \E kinds \in SUBSET (VillageDoor \cup DistrictDoor) :
          Cardinality(kinds) <= MaxGiven /\ Step(kinds)

Spec == Init /\ [][Next]_vars

-----------------------------------------------------------------------------
TypeOK ==
  /\ world.tick \in 0..MaxTick /\ world.weather \in Weather
  /\ world.away_from_tick \in Nat /\ world.away_until_tick \in Nat
  /\ world.raikom_reputation \in 0..kReputationMax
  /\ world.summon_cause \in Cause
  /\ world.summon_cause = "kNone" <=> world.summon_day = 0
  /\ world.away_from_tick = 0 <=> world.away_until_tick = 0
  /\ world.visits \in Seq([face : Face, kind : {"kRegular", "kExtraordinary"}, arrive_day : Nat])

\* He is away by his ticks exactly when he has departed and not returned, and
\* then his return is still to come: neither a blizzard at the departure, nor
\* mud, nor a summons over a trip already booked parts the two, and nobody is
\* left in the district (district_trip.cpp, RunDistrictTrip).
AbroadIsAway ==
  /\ abroad <=> (world.away_from_tick # 0 /\ world.away_from_tick <= world.tick)
  /\ abroad => world.tick < world.away_until_tick

Away == abroad \/ abroad'

\* The gate runs before the trip is decided in the same tick, and yet an order
\* to the village is refused exactly in the ticks he is away in, the two ends
\* included, and the plan is bargained in no other (chairman_away.h).
GateTruthful ==
  \A answer \in world'.answers :
    /\ answer.kind = "kWriteOffShortage" => (answer.refusal = "kChairmanAway" <=> Away)
    /\ answer.kind = "kTradePlan" => (answer.refusal = "kNotEligible" <=> ~Away)

\* The ticks on his row are his absence, and the village is told the same.
AwayIsOneThing == [][AbroadIsAway' /\ GateTruthful]_vars

\* A summons is obeyed at its hour, and until he is back from it keeps its
\* cause and its day but for a blizzard at that hour, whatever else calls him
\* (district_trip.h: he cannot refuse, and one is not doubled).
SummonsKept ==
  [][/\ world'.summon_day # 0 /\ world'.tick >= TickAt(world'.summon_day, depart_hour)
          => abroad' /\ world'.away_summoned
     /\ world.summon_day # 0 =>
          \/ abroad /\ world.away_summoned /\ ~abroad'
          \/ /\ world'.summon_cause = world.summon_cause
             /\ \/ world'.summon_day = world.summon_day
                \/ /\ world'.weather = "blizzard"
                   /\ world'.tick = TickAt(world.summon_day, depart_hour)
                   /\ world'.summon_day = world.summon_day + 1]_vars

\* A visit held at dawn meets him: he is not in the district, and does not
\* leave that day unless he books his own trip after the visit
\* (district_trip.h, AwayToday).
VisitsMeetHim ==
  [][/\ "kDistrictVisit" \in world'.events => ~Away
     /\ Departed(world') /\ met' => ~world'.away_summoned /\ booked']_vars

Crosses == ~OnThePencil(world) /\ OnThePencil(world')

\* A reputation that falls to the line is asked about: by a summons for it, by
\* the summons the same step's event brought, or by the mark that waits for
\* another's return, which then calls him if he is still on the pencil
\* (district_trip.h, SummonOnThePencil).  A summons that a blizzard moves in
\* that very step is the exception: that step marks nothing (README, 7).
PencilAsked ==
  [][/\ Crosses =>
          \/ world'.summon_cause = "kOnThePencil"
          \/ world'.pencil_pending
          \/ world'.summon_day # 0 /\ world.summon_day = 0
          \/ "kSummonPostponed" \in world'.events
     /\ world.pencil_pending /\ ~world'.pencil_pending /\ OnThePencil(world')
          => world'.summon_cause = "kOnThePencil"
     /\ world'.pencil_pending =>
          world'.summon_day # 0 /\ world'.summon_cause # "kOnThePencil"]_vars

\* Of the three causes that call him none takes another's place and none is
\* lost: the one summons stands as it was given, and the line of the pencil is
\* asked at the crossing or when he is back (SummonChairman, SummonOnThePencil).
CalledOnce == SummonsKept /\ PencilAsked
=============================================================================
