------------------------------ MODULE TripProofs ------------------------------
(***************************************************************************)
(* The chairman's trips, proved: DistrictTrip.                             *)
(*                                                                         *)
(* A step is followed through its parts, each described by what it may do  *)
(* with a world: the gate and the orders (Ordered), his hour (Risen at     *)
(* dawn, LeftAt and Back at another), the dawn's visits (Called), which    *)
(* are a fold over the visits that stand, and the crossing of the line     *)
(* (Asked).  The invariant is Kept: a trip of his own is over before the   *)
(* day of a summons, because a summons is three days away or more; a       *)
(* summoned trip is the summons' own; none is overdue and none missed; the *)
(* pencil's mark waits only for another's summons.                         *)
(***************************************************************************)
EXTENDS DistrictTrip, FiniteSetTheorems, SequenceTheorems, TLAPS

\* A product of days and ticks, by its order.
LEMMA Product ==
  ASSUME NEW d \in Nat, NEW e \in Nat, NEW t \in Nat, NEW h \in 0..(t - 1), NEW k \in 0..(t - 1)
  PROVE  /\ d * t + h \in Nat
         /\ d < e => d * t + h < e * t + k
         /\ d * t + h + t = (d + 1) * t + h
<1>1. \A x \in Nat : x * t \in Nat
  OBVIOUS
<1>2. (d + 1) * t = d * t + t
  OBVIOUS
<1>3. ASSUME d < e PROVE d * t + h < e * t + k
  <2> DEFINE x == e - (d + 1)
  <2>1. x \in Nat /\ e = (d + 1) + x
    BY <1>3
  <2> HIDE DEF x
  <2>2. ((d + 1) + x) * t = (d + 1) * t + x * t
    BY <2>1
  <2>3. x * t \in Nat /\ d * t \in Nat
    BY <1>1, <2>1
  <2> QED BY <1>2, <2>1, <2>2, <2>3
<1> QED BY <1>1, <1>2, <1>3

Day(n) == n \div kTicksPerDay
Hour(n) == n % kTicksPerDay
AnHour == 0..(kTicksPerDay - 1)

\* The hours of the tables, on the clock.
LEMMA Hours == /\ depart_hour \in AnHour /\ return_hour \in AnHour /\ 0 \in AnHour
               /\ 0 < depart_hour /\ depart_hour < return_hour
               /\ audit_hour \in AnHour /\ kTicksPerDay \in Nat /\ kTicksPerDay # 0
  BY HourAssumption DEF AnHour

\* Ticks are ordered by day, then by hour.
LEMMA Ticks ==
  ASSUME NEW d \in Nat, NEW e \in Nat, NEW h \in AnHour, NEW k \in AnHour
  PROVE  /\ TickAt(d, h) \in Nat
         /\ TickAt(d, h) < TickAt(e, k) <=> d < e \/ (d = e /\ h < k)
         /\ TickAt(d, h) = TickAt(e, k) <=> d = e /\ h = k
         /\ TickAt(d, h) + kTicksPerDay = TickAt(d + 1, h)
<1>1. kTicksPerDay \in Nat
  BY Hours
<1>2. /\ TickAt(d, h) \in Nat /\ TickAt(e, k) \in Nat
      /\ d < e => TickAt(d, h) < TickAt(e, k)
      /\ e < d => TickAt(e, k) < TickAt(d, h)
      /\ TickAt(d, h) + kTicksPerDay = TickAt(d + 1, h)
  BY <1>1, Product DEF TickAt, AnHour
<1>3. d = e => (TickAt(d, h) < TickAt(e, k) <=> h < k) /\ (TickAt(d, h) = TickAt(e, k) <=> h = k)
  <2>1. d * kTicksPerDay \in Nat
    BY <1>1
  <2> DEFINE p == d * kTicksPerDay
  <2>2. p \in Nat /\ h \in Nat /\ k \in Nat
    BY <2>1, <1>1 DEF AnHour
  <2>3. TickAt(d, h) = p + h /\ TickAt(d, k) = p + k
    BY DEF TickAt
  <2> HIDE DEF p
  <2> QED BY <2>2, <2>3
<1>4. d < e \/ d = e \/ e < d
  OBVIOUS
<1> QED BY <1>2, <1>3, <1>4

\* A tick is its day and its hour.
LEMMA Clock ==
  ASSUME NEW n \in Nat
  PROVE  Day(n) \in Nat /\ Hour(n) \in AnHour /\ n = TickAt(Day(n), Hour(n))
  BY Hours DEF Day, Hour, AnHour, TickAt

\* The next tick is the day's next hour, or the next day's dawn.
LEMMA NextHour ==
  ASSUME NEW n \in Nat
  PROVE  \/ Day(n + 1) = Day(n) /\ Hour(n + 1) = Hour(n) + 1
         \/ Day(n + 1) = Day(n) + 1 /\ Hour(n + 1) = 0
<1> DEFINE d == Day(n)  h == Hour(n)  e == Day(n + 1)  k == Hour(n + 1)  t == kTicksPerDay
<1>1. d \in Nat /\ e \in Nat /\ h \in AnHour /\ k \in AnHour /\ n = TickAt(d, h) /\ n + 1 = TickAt(e, k)
  BY Clock
<1>2. t \in Nat /\ t # 0 /\ AnHour = 0..(t - 1)
  BY Hours DEF AnHour
<1> HIDE DEF d, h, e, k, t
<1>3. CASE h + 1 < t
  <2>1. h + 1 \in AnHour
    BY <1>1, <1>2, <1>3
  <2>2. TickAt(d, h + 1) = n + 1
    <3>1. d * t \in Nat /\ n = d * t + h /\ h \in Nat
      BY <1>1, <1>2 DEF TickAt, t
    <3> QED BY <3>1 DEF TickAt, t
  <2>3. d = e /\ h + 1 = k
    BY <1>1, <2>1, <2>2, Ticks
  <2> QED BY <2>3 DEF d, h, e, k
<1>4. CASE ~(h + 1 < t)
  <2>1. h = t - 1 /\ 0 \in AnHour /\ d + 1 \in Nat
    BY <1>1, <1>2, <1>4
  <2>2. TickAt(d + 1, 0) = n + 1
    <3>1. d * t \in Nat /\ n = d * t + h /\ (d + 1) * t = d * t + t
      BY <1>1, <1>2 DEF TickAt, t
    <3> QED BY <3>1, <2>1, <1>2 DEF TickAt, t
  <2>3. d + 1 = e /\ 0 = k
    BY <1>1, <2>1, <2>2, Ticks
  <2> QED BY <2>3 DEF d, h, e, k
<1> QED BY <1>3, <1>4

-----------------------------------------------------------------------------
(* A world, and what the operations of a step leave of it.                 *)

Columns == {"tick", "weather", "away_from_tick", "away_until_tick", "away_summoned",
            "last_trip_day", "summon_letter_day", "summon_day", "summon_cause",
            "pencil_pending", "raikom_reputation", "reputation_recovery_owed",
            "plan_traded_year", "last_verdict", "visits", "events", "answers"}

AVisit == [face : Face, kind : {"kRegular", "kExtraordinary"}, arrive_day : Nat]

IsWorld(w) ==
  /\ DOMAIN w = Columns
  /\ w.tick \in Nat /\ w.weather \in Weather
  /\ w.away_from_tick \in Nat /\ w.away_until_tick \in Nat /\ w.away_summoned \in BOOLEAN
  /\ w.summon_day \in Nat /\ w.summon_cause \in Cause /\ w.pencil_pending \in BOOLEAN
  /\ w.summon_cause = "kNone" <=> w.summon_day = 0
  /\ w.raikom_reputation \in 0..kReputationMax
  /\ w.visits \in Seq(AVisit)

SameHours(v, w) ==
  /\ w.tick = v.tick /\ w.weather = v.weather
  /\ w.away_from_tick = v.away_from_tick /\ w.away_until_tick = v.away_until_tick
  /\ w.away_summoned = v.away_summoned

SameSummons(v, w) ==
  /\ w.summon_day = v.summon_day /\ w.summon_cause = v.summon_cause
  /\ w.pencil_pending = v.pencil_pending

SameTrip(v, w) == SameHours(v, w) /\ SameSummons(v, w)

SameSaid(v, w) == w.events = v.events /\ w.answers = v.answers

\* A world's day is its tick's.
LEMMA DayIs ==
  ASSUME NEW w, IsWorld(w)
  PROVE  DayOf(w) \in Nat /\ DayOf(w) + 1 \in Nat /\ DayOf(w) = Day(w.tick)
<1>1. w.tick \in Nat
  BY DEF IsWorld
<1>2. Day(w.tick) \in Nat
  BY <1>1, Clock
<1> QED BY <1>2 DEF DayOf, Day

\* The reputation moves within its scale.
LEMMA Moved ==
  ASSUME NEW w, IsWorld(w)
  PROVE  /\ IsWorld(Lowered(w)) /\ SameTrip(w, Lowered(w)) /\ SameSaid(w, Lowered(w))
         /\ IsWorld(Raised(w)) /\ SameTrip(w, Raised(w)) /\ SameSaid(w, Raised(w))
<1> DEFINE l == w.raikom_reputation
           down == IF l > 0 THEN l - 1 ELSE l
           up == IF l < kReputationMax THEN l + 1 ELSE l
<1>1. l \in 0..kReputationMax /\ down \in 0..kReputationMax /\ up \in 0..kReputationMax
  BY TableAssumption DEF IsWorld
<1>2. Lowered(w) = [w EXCEPT !.raikom_reputation = down] /\ Raised(w) = [w EXCEPT !.raikom_reputation = up]
  BY DEF Lowered, Raised
<1> HIDE DEF down, up
<1> QED BY <1>1, <1>2 DEF IsWorld, Columns, SameTrip, SameHours, SameSummons, SameSaid

\* An event is all that Emit adds.
LEMMA Emitted ==
  ASSUME NEW w, IsWorld(w), NEW e
  PROVE  /\ IsWorld(Emit(w, e)) /\ SameTrip(w, Emit(w, e))
         /\ Emit(w, e).events = w.events \cup {e} /\ Emit(w, e).answers = w.answers
         /\ Emit(w, e).raikom_reputation = w.raikom_reputation
BY DEF Emit, IsWorld, Columns, SameTrip, SameHours, SameSummons

\* An answer is all that Answered adds.
LEMMA GivenAnswer ==
  ASSUME NEW w, IsWorld(w), NEW kind, NEW refusal
  PROVE  /\ IsWorld(Answered(w, kind, refusal)) /\ SameTrip(w, Answered(w, kind, refusal))
         /\ Answered(w, kind, refusal).events = w.events
         /\ Answered(w, kind, refusal).answers = w.answers \cup {[kind |-> kind, refusal |-> refusal]}
BY DEF Answered, IsWorld, Columns, SameTrip, SameHours, SameSummons

\* A summons is three days away or more, and there is one at a time.
LEMMA Summoned ==
  ASSUME NEW w, IsWorld(w), NEW cause \in Cause \ {"kNone"}
  PROVE  /\ IsWorld(SummonChairman(w, cause)) /\ SameHours(w, SummonChairman(w, cause))
         /\ SameSaid(w, SummonChairman(w, cause))
         /\ SummonChairman(w, cause).pencil_pending = w.pencil_pending
         /\ SummonChairman(w, cause).raikom_reputation = w.raikom_reputation
         /\ w.summon_day # 0 => SameSummons(w, SummonChairman(w, cause))
         /\ w.summon_day = 0 => /\ SummonChairman(w, cause).summon_day >= DayOf(w) + 3
                                /\ SummonChairman(w, cause).summon_cause = cause
<1> DEFINE letter == DayOf(w) + summon_letter_delay_days
           called == DayOf(w) + summon_letter_delay_days + summon_after_letter_days
           v == [w EXCEPT !.summon_letter_day = letter, !.summon_day = called, !.summon_cause = cause]
<1>1. DayOf(w) \in Nat
  BY DayIs
<1>2. called \in Nat /\ called >= DayOf(w) + 3 /\ called # 0
  BY <1>1, TermAssumption
<1>3. SummonChairman(w, cause) = IF w.summon_day # 0 THEN w ELSE v
  BY DEF SummonChairman
<1> HIDE DEF letter, called
<1>4. /\ IsWorld(v) /\ SameHours(w, v) /\ SameSaid(w, v) /\ v.pencil_pending = w.pencil_pending
      /\ v.raikom_reputation = w.raikom_reputation /\ v.summon_day = called /\ v.summon_cause = cause
  BY <1>2 DEF IsWorld, Columns, SameHours, SameSaid
<1> HIDE DEF v
<1> QED BY <1>2, <1>3, <1>4 DEF SameHours, SameSummons, SameSaid

-----------------------------------------------------------------------------
(* The gate and the residents' part of the step.                           *)

Begun(v, chance) == [v EXCEPT !.tick = @ + 1, !.weather = chance.weather, !.events = {}, !.answers = {}]

Gated(v, kinds, chance) == RefuseVillageOrdersWhileAway(Begun(v, chance), kinds)

Lived(v, kinds, chance) ==
  RunStoreAudit(TakeWriteOffOrders(Gated(v, kinds, chance), Open(Gated(v, kinds, chance), kinds)),
                chance.remarks)

\* The next tick has come, and what is known of the trip is what was.
TickLater(v, w, weather) ==
  /\ w.tick = v.tick + 1 /\ w.weather = weather
  /\ w.away_from_tick = v.away_from_tick /\ w.away_until_tick = v.away_until_tick
  /\ w.away_summoned = v.away_summoned
  /\ SameSummons(v, w)

\* An order to the village is refused for his absence, and the others are not.
VillageRefused(w) ==
  \A answer \in w.answers :
    answer.kind = "kWriteOffShortage" => (answer.refusal = "kChairmanAway" <=> ChairmanAway(w))

\* The step's beginning: the next tick and its weather.
LEMMA BegunWorld ==
  ASSUME NEW v, IsWorld(v), NEW chance, chance.weather \in Weather
  PROVE  /\ IsWorld(Begun(v, chance)) /\ TickLater(v, Begun(v, chance), chance.weather)
         /\ Begun(v, chance).events = {} /\ Begun(v, chance).answers = {}
         /\ Begun(v, chance).raikom_reputation = v.raikom_reputation
<1> DEFINE n == v.tick + 1  x == chance.weather
<1>1. n \in Nat /\ x \in Weather
  BY DEF IsWorld
<1>2. Begun(v, chance) = [v EXCEPT !.tick = n, !.weather = x, !.events = {}, !.answers = {}]
  BY DEF Begun
<1> HIDE DEF n, x
<1>3. /\ IsWorld(Begun(v, chance)) /\ Begun(v, chance).tick = n /\ Begun(v, chance).weather = x
      /\ Begun(v, chance).away_from_tick = v.away_from_tick
      /\ Begun(v, chance).away_until_tick = v.away_until_tick
      /\ Begun(v, chance).away_summoned = v.away_summoned
      /\ SameSummons(v, Begun(v, chance))
      /\ Begun(v, chance).events = {} /\ Begun(v, chance).answers = {}
      /\ Begun(v, chance).raikom_reputation = v.raikom_reputation
  BY <1>1, <1>2 DEF IsWorld, Columns, SameSummons
<1> QED BY <1>3 DEF TickLater, n, x

\* Where he is, is asked of the hours alone.
LEMMA SameAway ==
  ASSUME NEW v, NEW w, SameHours(v, w)
  PROVE  ChairmanAway(w) <=> ChairmanAway(v)
BY DEF SameHours, ChairmanAway, WeatherHoldsDeparture

\* The gate answers only when he is away, and then every order but a door of
\* the district's.
LEMMA GatedWorld ==
  ASSUME NEW w, IsWorld(w), w.events = {}, w.answers = {}, NEW kinds
  PROVE  /\ IsWorld(RefuseVillageOrdersWhileAway(w, kinds))
         /\ SameTrip(w, RefuseVillageOrdersWhileAway(w, kinds))
         /\ RefuseVillageOrdersWhileAway(w, kinds).events = {}
         /\ \A answer \in RefuseVillageOrdersWhileAway(w, kinds).answers :
              answer.refusal = "kChairmanAway" /\ answer.kind \notin DistrictDoor /\ ChairmanAway(w)
         /\ ChairmanAway(w) => \A k \in kinds \ DistrictDoor :
              \E answer \in RefuseVillageOrdersWhileAway(w, kinds).answers : answer.kind = k
<1> DEFINE said == {[kind |-> k, refusal |-> "kChairmanAway"] : k \in kinds \ DistrictDoor}
           v == [w EXCEPT !.answers = said]
<1>1. RefuseVillageOrdersWhileAway(w, kinds) = IF ChairmanAway(w) THEN v ELSE w
  BY DEF RefuseVillageOrdersWhileAway
<1>2. /\ \A answer \in said : answer.refusal = "kChairmanAway" /\ answer.kind \notin DistrictDoor
      /\ \A k \in kinds \ DistrictDoor : \E answer \in said : answer.kind = k
  <2>1. ASSUME NEW answer \in said
        PROVE  answer.refusal = "kChairmanAway" /\ answer.kind \notin DistrictDoor
    <3>1. PICK k \in kinds \ DistrictDoor : answer = [kind |-> k, refusal |-> "kChairmanAway"]
      OBVIOUS
    <3>2. answer.kind = k /\ answer.refusal = "kChairmanAway"
      BY <3>1
    <3> QED BY <3>2
  <2>2. ASSUME NEW k \in kinds \ DistrictDoor
        PROVE  \E answer \in said : answer.kind = k
    <3>1. [kind |-> k, refusal |-> "kChairmanAway"] \in said
      OBVIOUS
    <3>2. [kind |-> k, refusal |-> "kChairmanAway"].kind = k
      OBVIOUS
    <3> HIDE DEF said
    <3> QED BY <3>1, <3>2
  <2> QED BY <2>1, <2>2
<1> HIDE DEF said
<1>3. IsWorld(v) /\ SameTrip(w, v) /\ v.events = w.events /\ v.answers = said
  BY DEF IsWorld, Columns, SameTrip, SameHours, SameSummons
<1> HIDE DEF v
<1> QED BY <1>1, <1>2, <1>3 DEF SameTrip, SameHours, SameSummons

\* The residents' part and the store audit leave his trip.
LEMMA LivedWorld ==
  ASSUME NEW v, IsWorld(v), NEW kinds, NEW chance, chance.weather \in Weather
  PROVE  LET w == Lived(v, kinds, chance) IN
         /\ IsWorld(w) /\ TickLater(v, w, chance.weather) /\ w.events = {}
         /\ VillageRefused(w)
         /\ \A answer \in w.answers :
              /\ answer.kind # "kTradePlan"
              /\ answer.kind = "kTripToDistrict" => answer.refusal # "kNone"
<1> DEFINE b == Begun(v, chance)
           g == Gated(v, kinds, chance)
           open == Open(g, kinds)
           t == TakeWriteOffOrders(g, open)
           w == Lived(v, kinds, chance)
<1>1. IsWorld(b) /\ TickLater(v, b, chance.weather) /\ b.events = {} /\ b.answers = {}
  BY BegunWorld
<1>2. /\ IsWorld(g) /\ SameTrip(b, g) /\ g.events = {}
      /\ \A answer \in g.answers :
           answer.refusal = "kChairmanAway" /\ answer.kind \notin DistrictDoor /\ ChairmanAway(b)
      /\ ChairmanAway(b) => \A k \in kinds \ DistrictDoor : \E answer \in g.answers : answer.kind = k
  <2> HIDE DEF b
  <2>1. g = RefuseVillageOrdersWhileAway(b, kinds)
    BY DEF b, Gated
  <2> HIDE DEF g
  <2> QED BY <1>1, <2>1, GatedWorld
<1>3. "kWriteOffShortage" \in open => ~ChairmanAway(b)
  <2> HIDE DEF b, g
  <2> QED BY <1>2 DEF Open, open, DistrictDoor
<1> HIDE DEF b, g, open
<1>4. t = IF "kWriteOffShortage" \in open
          THEN Lowered(Answered(g, "kWriteOffShortage", "kNone")) ELSE g
  BY DEF TakeWriteOffOrders
<1> DEFINE a == Answered(g, "kWriteOffShortage", "kNone")
<1>5. /\ IsWorld(a) /\ SameTrip(g, a) /\ a.events = {}
      /\ a.answers = g.answers \cup {[kind |-> "kWriteOffShortage", refusal |-> "kNone"]}
  BY <1>2, GivenAnswer
<1> HIDE DEF a
<1>6. IsWorld(Lowered(a)) /\ SameTrip(a, Lowered(a)) /\ SameSaid(a, Lowered(a))
  BY <1>5, Moved
<1>7. /\ IsWorld(t) /\ SameTrip(g, t) /\ t.events = {}
      /\ \A answer \in t.answers :
           \/ answer \in g.answers
           \/ answer = [kind |-> "kWriteOffShortage", refusal |-> "kNone"] /\ ~ChairmanAway(b)
  <2>1. CASE "kWriteOffShortage" \in open
    <3>1. t = Lowered(a)
      BY <1>4, <2>1 DEF a
    <3> HIDE DEF t
    <3> QED BY <3>1, <1>3, <1>5, <1>6, <2>1 DEF SameTrip, SameHours, SameSummons, SameSaid
  <2>2. CASE "kWriteOffShortage" \notin open
    BY <1>2, <1>4, <2>2 DEF SameTrip, SameHours, SameSummons
  <2> QED BY <2>1, <2>2
<1> HIDE DEF t
<1>8. IsWorld(w) /\ SameTrip(t, w) /\ w.events = {} /\ w.answers = t.answers
  <2>1. w = IF HourOf(t) = audit_hour /\ chance.remarks THEN Lowered(t) ELSE t
    BY DEF Lived, RunStoreAudit, t, open, g
  <2>2. IsWorld(Lowered(t)) /\ SameTrip(t, Lowered(t)) /\ SameSaid(t, Lowered(t))
    BY <1>7, Moved
  <2> HIDE DEF w
  <2> QED BY <1>7, <2>1, <2>2 DEF SameTrip, SameHours, SameSummons, SameSaid
<1> HIDE DEF w
<1>9. SameTrip(b, w)
  BY <1>2, <1>7, <1>8 DEF SameTrip, SameHours, SameSummons
<1>10. TickLater(v, w, chance.weather)
  BY <1>1, <1>9 DEF TickLater, SameTrip, SameHours, SameSummons
<1>11. ChairmanAway(w) <=> ChairmanAway(b)
  BY <1>9, SameAway DEF SameTrip
<1>12. \A answer \in w.answers :
         /\ answer.kind = "kWriteOffShortage" => (answer.refusal = "kChairmanAway" <=> ChairmanAway(b))
         /\ answer.kind # "kTradePlan"
         /\ answer.kind = "kTripToDistrict" => answer.refusal # "kNone"
  <2> SUFFICES ASSUME NEW answer \in w.answers
               PROVE  /\ answer.kind = "kWriteOffShortage"
                           => (answer.refusal = "kChairmanAway" <=> ChairmanAway(b))
                      /\ answer.kind # "kTradePlan"
                      /\ answer.kind = "kTripToDistrict" => answer.refusal # "kNone"
    OBVIOUS
  <2>1. CASE answer \in g.answers
    BY <1>2, <2>1 DEF DistrictDoor
  <2>2. CASE answer = [kind |-> "kWriteOffShortage", refusal |-> "kNone"] /\ ~ChairmanAway(b)
    BY <2>2
  <2> QED BY <1>7, <1>8, <2>1, <2>2
<1> QED BY <1>8, <1>10, <1>11, <1>12 DEF VillageRefused, w

-----------------------------------------------------------------------------
(* The production's orders.                                                *)

\* The two tails of a trip of his own that leaves on day x: it is over before
\* the second dawn after, mud or not.
LeavesOn(w, x) ==
  /\ w.away_from_tick = TickAt(x, depart_hour)
  /\ w.away_until_tick \in {TickAt(x, return_hour), TickAt(x + 1, depart_hour)}

\* The orders took a trip of his own: today's or tomorrow's, after this hour.
BookedNow(v, w) ==
  /\ v.away_from_tick = 0 /\ v.summon_day = 0
  /\ ~w.away_summoned /\ w.tick < w.away_from_tick
  /\ \E x \in Nat : LeavesOn(w, x) /\ x <= DayOf(w) + 1

\* The plan is bargained where he is.
BargainRefused(w) ==
  \A answer \in w.answers :
    answer.kind = "kTradePlan" => (answer.refusal = "kNotEligible" <=> ~ChairmanAway(w))

Consumed(v, w) ==
  /\ IsWorld(w) /\ w.tick = v.tick /\ w.weather = v.weather /\ SameSummons(v, w)
  /\ w.events = v.events
  /\ VillageRefused(w) /\ BargainRefused(w)
  /\ \/ SameHours(v, w) /\ ~Booked(w)
     \/ BookedNow(v, w) /\ Booked(w)

\* The first day whose departure is still to come.
LEMMA TripDayIs ==
  ASSUME NEW w, IsWorld(w)
  PROVE  /\ TripDay(w) \in Nat /\ TripDay(w) <= DayOf(w) + 1
         /\ w.tick < TickAt(TripDay(w), depart_hour)
         /\ TickAt(TripDay(w), depart_hour) \in Nat /\ TickAt(TripDay(w), return_hour) \in Nat
<1> DEFINE d == Day(w.tick)  h == Hour(w.tick)
<1>1. d \in Nat /\ h \in AnHour /\ w.tick = TickAt(d, h) /\ DayOf(w) = d /\ HourOf(w) = h
  BY Clock DEF IsWorld, DayOf, HourOf, Day, Hour
<1> HIDE DEF d, h
<1>2. TripDay(w) = IF h < depart_hour THEN d ELSE d + 1
  BY <1>1 DEF TripDay
<1> HIDE DEF TripDay
<1>3. TripDay(w) \in Nat /\ TripDay(w) <= d + 1
  BY <1>1, <1>2
<1>4. TickAt(d, h) < TickAt(TripDay(w), depart_hour)
  BY <1>1, <1>2, <1>3, Ticks, Hours
<1> QED BY <1>1, <1>3, <1>4, Ticks, Hours

\* A trip of his own is taken only with no trip and no summons before him.
LEMMA TripOrdered ==
  ASSUME NEW w, IsWorld(w)
  PROVE  LET v == OrderTripToDistrict(w) IN
         /\ IsWorld(v) /\ v.tick = w.tick /\ v.weather = w.weather /\ SameSummons(w, v)
         /\ v.events = w.events
         /\ \E refusal :
              /\ v.answers = w.answers \cup {[kind |-> "kTripToDistrict", refusal |-> refusal]}
              /\ \/ SameHours(w, v) /\ refusal # "kNone"
                 \/ BookedNow(w, v) /\ refusal = "kNone"
<1> DEFINE from == TickAt(TripDay(w), depart_hour)
           until == TickAt(TripDay(w), return_hour)
           trip == [w EXCEPT !.away_from_tick = from, !.away_until_tick = until, !.away_summoned = FALSE]
           v == OrderTripToDistrict(w)
<1>1. from \in Nat /\ until \in Nat /\ w.tick < from /\ TripDay(w) \in Nat /\ TripDay(w) <= DayOf(w) + 1
  BY TripDayIs
<1>2. \/ v = Answered(w, "kTripToDistrict", "kChairmanAway")
      \/ v = Answered(w, "kTripToDistrict", "kTripThisMonth")
      \/ /\ v = Answered(trip, "kTripToDistrict", "kNone")
         /\ w.away_from_tick = 0 /\ w.summon_day = 0
  BY DEF OrderTripToDistrict
<1>3. ASSUME NEW refusal, refusal # "kNone", v = Answered(w, "kTripToDistrict", refusal)
      PROVE  /\ IsWorld(v) /\ SameTrip(w, v) /\ v.events = w.events
             /\ v.answers = w.answers \cup {[kind |-> "kTripToDistrict", refusal |-> refusal]}
  <2> HIDE DEF v
  <2> QED BY <1>3, GivenAnswer
<1>4. ASSUME v = Answered(trip, "kTripToDistrict", "kNone"), w.away_from_tick = 0, w.summon_day = 0
      PROVE  /\ IsWorld(v) /\ v.tick = w.tick /\ v.weather = w.weather /\ SameSummons(w, v)
             /\ v.events = w.events /\ BookedNow(w, v)
             /\ v.answers = w.answers \cup {[kind |-> "kTripToDistrict", refusal |-> "kNone"]}
  <2> HIDE DEF from, until
  <2>1. /\ IsWorld(trip) /\ trip.tick = w.tick /\ trip.weather = w.weather /\ SameSummons(w, trip)
        /\ trip.events = w.events /\ trip.answers = w.answers
        /\ trip.away_from_tick = from /\ trip.away_until_tick = until /\ trip.away_summoned = FALSE
    BY <1>1 DEF IsWorld, Columns, SameSummons
  <2> HIDE DEF trip, v
  <2>2. /\ IsWorld(v) /\ SameTrip(trip, v) /\ v.events = trip.events
        /\ v.answers = trip.answers \cup {[kind |-> "kTripToDistrict", refusal |-> "kNone"]}
    BY <1>4, <2>1, GivenAnswer
  <2>3. /\ v.away_from_tick = from /\ v.away_until_tick = until /\ ~v.away_summoned
        /\ v.tick = w.tick /\ v.weather = w.weather /\ SameSummons(w, v)
    BY <2>1, <2>2 DEF SameTrip, SameHours, SameSummons
  <2>4. LeavesOn(v, TripDay(w)) /\ DayOf(v) = DayOf(w)
    BY <2>3 DEF LeavesOn, from, until, DayOf
  <2>5. BookedNow(w, v)
    BY <1>1, <1>4, <2>3, <2>4 DEF BookedNow
  <2> QED BY <2>1, <2>2, <2>3, <2>5
<1> HIDE DEF v
<1> QED BY <1>2, <1>3, <1>4 DEF v, SameTrip, SameHours

\* The bargain is not open to a chairman who is at home.
LEMMA TradeOrdered ==
  ASSUME NEW w, IsWorld(w)
  PROVE  LET v == OrderTradePlan(w) IN
         /\ IsWorld(v) /\ SameTrip(w, v) /\ v.events = w.events
         /\ \E refusal :
              /\ v.answers = w.answers \cup {[kind |-> "kTradePlan", refusal |-> refusal]}
              /\ refusal = "kNotEligible" <=> ~ChairmanAway(w)
<1> DEFINE r == CASE ~ChairmanAway(w) -> "kNotEligible"
                  [] ChairmanAway(w) /\ (DayOf(w) \notin BargainDays
                                            \/ w.plan_traded_year = YearMark(w)) -> "kTradeClosed"
                  [] OTHER -> IF w.raikom_reputation < plan_trade_min_reputation
                              THEN "kReputationTooLow" ELSE "kNone"
           p == [w EXCEPT !.plan_traded_year = YearMark(w)]
           a == Answered(p, "kTradePlan", "kNone")
           v == OrderTradePlan(w)
<1>1. r = "kNotEligible" <=> ~ChairmanAway(w)
  OBVIOUS
<1>2. v = IF r # "kNone" THEN Answered(w, "kTradePlan", r) ELSE Lowered(a)
  BY DEF OrderTradePlan
<1> HIDE DEF r, v
<1>3. IsWorld(p) /\ SameTrip(w, p) /\ p.events = w.events /\ p.answers = w.answers
  BY DEF IsWorld, Columns, SameTrip, SameHours, SameSummons
<1> HIDE DEF p
<1>4. /\ IsWorld(a) /\ SameTrip(p, a) /\ a.events = p.events
      /\ a.answers = p.answers \cup {[kind |-> "kTradePlan", refusal |-> "kNone"]}
  BY <1>3, GivenAnswer
<1> HIDE DEF a
<1>5. IsWorld(Lowered(a)) /\ SameTrip(a, Lowered(a)) /\ SameSaid(a, Lowered(a))
  BY <1>4, Moved
<1>6. CASE r # "kNone"
  <2>1. v = Answered(w, "kTradePlan", r)
    BY <1>2, <1>6
  <2> QED BY <1>1, <2>1, GivenAnswer DEF v
<1>7. CASE r = "kNone"
  <2>1. v = Lowered(a)
    BY <1>2, <1>7
  <2>2. /\ IsWorld(v) /\ SameTrip(w, v) /\ v.events = w.events
        /\ v.answers = w.answers \cup {[kind |-> "kTradePlan", refusal |-> "kNone"]}
    BY <1>3, <1>4, <1>5, <2>1 DEF SameTrip, SameHours, SameSummons, SameSaid
  <2> QED BY <1>1, <1>7, <2>2 DEF v
<1> QED BY <1>6, <1>7

\* A trip that is booked takes him nowhere yet.
LEMMA BookedIsNotAway ==
  ASSUME NEW v, NEW w, IsWorld(v), IsWorld(w), w.tick = v.tick, BookedNow(v, w)
  PROVE  ~ChairmanAway(w) /\ ~ChairmanAway(v)
BY DEF BookedNow, ChairmanAway, IsWorld

\* The production's orders.
LEMMA ConsumedWorld ==
  ASSUME NEW v, IsWorld(v), NEW kinds, VillageRefused(v),
         \A answer \in v.answers :
              /\ answer.kind # "kTradePlan"
              /\ answer.kind = "kTripToDistrict" => answer.refusal # "kNone"
  PROVE  Consumed(v, ConsumeProductionOrders(v, kinds))
<1> DEFINE b == IF "kTripToDistrict" \in kinds THEN OrderTripToDistrict(v) ELSE v
           w == ConsumeProductionOrders(v, kinds)
<1>1. /\ IsWorld(b) /\ b.tick = v.tick /\ b.weather = v.weather /\ SameSummons(v, b)
      /\ b.events = v.events
      /\ \A answer \in b.answers :
           answer \in v.answers \/ answer.kind = "kTripToDistrict"
      /\ \/ SameHours(v, b) /\ ~Booked(b)
         \/ BookedNow(v, b) /\ Booked(b)
  <2>1. ~Booked(v)
    BY DEF Booked
  <2>2. CASE "kTripToDistrict" \in kinds
    <3>1. b = OrderTripToDistrict(v)
      BY <2>2
    <3> HIDE DEF b
    <3>2. /\ IsWorld(b) /\ b.tick = v.tick /\ b.weather = v.weather /\ SameSummons(v, b)
          /\ b.events = v.events
      BY <3>1, TripOrdered
    <3>3. PICK refusal :
            /\ b.answers = v.answers \cup {[kind |-> "kTripToDistrict", refusal |-> refusal]}
            /\ \/ SameHours(v, b) /\ refusal # "kNone"
               \/ BookedNow(v, b) /\ refusal = "kNone"
      BY <3>1, TripOrdered
    <3>4. [kind |-> "kTripToDistrict", refusal |-> refusal].refusal = refusal
      OBVIOUS
    <3>5. Booked(b) <=> refusal = "kNone"
      BY <2>1, <3>3, <3>4 DEF Booked
    <3> QED BY <3>2, <3>3, <3>5
  <2>3. CASE "kTripToDistrict" \notin kinds
    BY <2>1, <2>3 DEF SameHours, SameSummons
  <2> QED BY <2>2, <2>3
<1>2. w = IF "kTradePlan" \in kinds THEN OrderTradePlan(b) ELSE b
  BY DEF ConsumeProductionOrders
<1> HIDE DEF b, w
<1>3. /\ IsWorld(w) /\ SameTrip(b, w) /\ w.events = b.events
      /\ \A answer \in w.answers :
           answer \in b.answers \/ (answer.kind = "kTradePlan"
                                      /\ (answer.refusal = "kNotEligible" <=> ~ChairmanAway(b)))
      /\ Booked(w) <=> Booked(b)
  <2>1. CASE "kTradePlan" \in kinds
    <3>1. w = OrderTradePlan(b)
      BY <1>2, <2>1
    <3>2. IsWorld(w) /\ SameTrip(b, w) /\ w.events = b.events
      BY <1>1, <3>1, TradeOrdered
    <3>3. PICK refusal :
            /\ w.answers = b.answers \cup {[kind |-> "kTradePlan", refusal |-> refusal]}
            /\ refusal = "kNotEligible" <=> ~ChairmanAway(b)
      BY <1>1, <3>1, TradeOrdered
    <3> QED BY <3>2, <3>3 DEF Booked
  <2>2. CASE "kTradePlan" \notin kinds
    BY <1>1, <1>2, <2>2 DEF SameTrip, SameHours, SameSummons
  <2> QED BY <2>1, <2>2
<1>4. ChairmanAway(w) <=> ChairmanAway(b)
  BY <1>3, SameAway DEF SameTrip
<1>5. ChairmanAway(b) <=> ChairmanAway(v)
  BY <1>1, SameAway, BookedIsNotAway
<1>6. VillageRefused(w) /\ BargainRefused(w)
  BY <1>1, <1>3, <1>4, <1>5 DEF VillageRefused, BargainRefused
<1>7. /\ w.tick = v.tick /\ w.weather = v.weather /\ SameSummons(v, w) /\ w.events = v.events
      /\ SameHours(v, b) => SameHours(v, w)
      /\ BookedNow(v, b) => BookedNow(v, w)
  BY <1>1, <1>3 DEF SameTrip, SameHours, SameSummons, BookedNow, LeavesOn, DayOf
<1> QED BY <1>1, <1>3, <1>6, <1>7 DEF Consumed, w

-----------------------------------------------------------------------------
(* His hour (RunDistrictTrip).                                             *)

\* The morning of a summons takes his hours; the letter is an event.
Risen(v, w) ==
  /\ IsWorld(w) /\ w.tick = v.tick /\ w.weather = v.weather /\ SameSummons(v, w)
  /\ w.answers = v.answers /\ w.raikom_reputation = v.raikom_reputation
  /\ w.events \in {v.events, v.events \cup {"kSummonLetter"}}
  /\ \/ SameHours(v, w) /\ ~(v.summon_day # 0 /\ DayOf(v) = v.summon_day /\ ~v.away_summoned)
     \/ /\ v.summon_day # 0 /\ DayOf(v) = v.summon_day /\ ~v.away_summoned
        /\ w.away_from_tick = TickAt(v.summon_day, depart_hour)
        /\ w.away_until_tick = TickAt(v.summon_day, return_hour)
        /\ w.away_summoned

\* The morning does what Risen says.
LEMMA MorningWorld ==
  ASSUME NEW v, IsWorld(v)
  PROVE  Risen(v, SummonsMorning(v))
<1> DEFINE letter == v.summon_letter_day # 0 /\ DayOf(v) = v.summon_letter_day
           called == v.summon_day # 0 /\ DayOf(v) = v.summon_day /\ ~v.away_summoned
           said == IF letter THEN Emit(v, "kSummonLetter") ELSE v
           from == TickAt(DayOf(v), depart_hour)
           until == TickAt(DayOf(v), return_hour)
           gone == [said EXCEPT !.away_from_tick = from, !.away_until_tick = until, !.away_summoned = TRUE]
           w == SummonsMorning(v)
<1>1. DayOf(v) \in Nat
  BY DayIs
<1>2. from \in Nat /\ until \in Nat
  BY <1>1, Ticks, Hours
<1>3. called => from = TickAt(v.summon_day, depart_hour) /\ until = TickAt(v.summon_day, return_hour)
  OBVIOUS
<1>4. /\ IsWorld(said) /\ SameTrip(v, said) /\ said.answers = v.answers
      /\ said.raikom_reputation = v.raikom_reputation
      /\ said.events \in {v.events, v.events \cup {"kSummonLetter"}}
  <2>1. CASE letter
    <3>1. said = Emit(v, "kSummonLetter")
      BY <2>1
    <3> HIDE DEF said
    <3> QED BY <3>1, Emitted
  <2>2. CASE ~letter
    BY <2>2 DEF SameTrip, SameHours, SameSummons
  <2> QED BY <2>1, <2>2
<1>5. w = IF called THEN gone ELSE said
  <2>1. called <=> v.summon_day # 0 /\ DayOf(v) = v.summon_day /\ ~v.away_summoned
    OBVIOUS
  <2> QED BY DEF SummonsMorning
<1> HIDE DEF from, until, said, w
<1>6. /\ IsWorld(gone) /\ gone.tick = said.tick /\ gone.weather = said.weather /\ SameSummons(said, gone)
      /\ gone.answers = said.answers /\ gone.events = said.events
      /\ gone.raikom_reputation = said.raikom_reputation
      /\ gone.away_from_tick = from /\ gone.away_until_tick = until /\ gone.away_summoned = TRUE
  BY <1>2, <1>4 DEF IsWorld, Columns, SameSummons
<1> HIDE DEF gone
<1>7. Risen(v, w)
  <2>1. CASE called
    BY <1>3, <1>4, <1>5, <1>6, <2>1 DEF Risen, SameTrip, SameHours, SameSummons
  <2>2. CASE ~called
    BY <1>4, <1>5, <2>2 DEF Risen, SameTrip, SameHours, SameSummons
  <2> QED BY <2>1, <2>2
<1> QED BY <1>7 DEF w

\* What the departure's hour does with him.
Postponed(v, w) ==
  /\ v.away_summoned /\ w.away_summoned
  /\ w.summon_day = v.summon_day + 1
  /\ w.away_from_tick = v.away_from_tick + kTicksPerDay
  /\ w.away_until_tick = v.away_until_tick + kTicksPerDay
  /\ w.events = v.events \cup {"kSummonPostponed"}

CalledOff(v, w) ==
  /\ ~v.away_summoned /\ ~w.away_summoned
  /\ w.summon_day = v.summon_day
  /\ w.away_from_tick = 0 /\ w.away_until_tick = 0
  /\ w.events = v.events \cup {"kTripCancelled"}

Gone(v, w) ==
  /\ w.away_summoned = v.away_summoned
  /\ w.summon_day = v.summon_day
  /\ w.away_from_tick = v.away_from_tick
  /\ w.away_until_tick \in {v.away_until_tick, TickAt(DayOf(v) + 1, depart_hour)}
  /\ w.events = v.events \cup {"kTripDeparted"}

LeftAt(v, w) ==
  /\ IsWorld(w) /\ w.tick = v.tick /\ w.weather = v.weather
  /\ w.summon_cause = v.summon_cause /\ w.pencil_pending = v.pencil_pending
  /\ w.answers = v.answers /\ w.raikom_reputation = v.raikom_reputation
  /\ \/ WeatherHoldsDeparture(v) /\ (Postponed(v, w) \/ CalledOff(v, w))
     \/ ~WeatherHoldsDeparture(v) /\ Gone(v, w)

\* A trip that is struck out.
LEMMA ClearedWorld ==
  ASSUME NEW v, IsWorld(v)
  PROVE  LET w == ClearTrip(v) IN
         /\ IsWorld(w) /\ w.tick = v.tick /\ w.weather = v.weather /\ SameSummons(v, w)
         /\ w.answers = v.answers /\ w.events = v.events /\ w.raikom_reputation = v.raikom_reputation
         /\ w.away_from_tick = 0 /\ w.away_until_tick = 0 /\ w.away_summoned = FALSE
BY DEF ClearTrip, IsWorld, Columns, SameSummons

\* A departure does what LeftAt says.
LEMMA DepartWorld ==
  ASSUME NEW v, IsWorld(v), v.away_summoned => v.summon_day # 0
  PROVE  LeftAt(v, Depart(v))
<1> DEFINE w == Depart(v)
<1>1. DayOf(v) \in Nat
  BY DayIs
<1>2. CASE WeatherHoldsDeparture(v) /\ v.away_summoned
  <2> DEFINE d == v.summon_day + 1
             f == v.away_from_tick + kTicksPerDay
             u == v.away_until_tick + kTicksPerDay
             later == [v EXCEPT !.summon_day = d, !.away_from_tick = f, !.away_until_tick = u]
  <2>1. d \in Nat /\ d # 0 /\ f \in Nat /\ u \in Nat /\ v.summon_cause # "kNone"
    BY <1>2, Hours, SMTT(30) DEF IsWorld
  <2>2. w = Emit(later, "kSummonPostponed")
    BY <1>2 DEF Depart
  <2> HIDE DEF d, f, u
  <2>3. /\ IsWorld(later) /\ later.tick = v.tick /\ later.weather = v.weather
        /\ later.summon_cause = v.summon_cause /\ later.pencil_pending = v.pencil_pending
        /\ later.answers = v.answers /\ later.events = v.events
        /\ later.raikom_reputation = v.raikom_reputation
        /\ later.summon_day = d /\ later.away_from_tick = f /\ later.away_until_tick = u
        /\ later.away_summoned = v.away_summoned
    BY <2>1 DEF IsWorld, Columns
  <2> HIDE DEF later
  <2>4. /\ IsWorld(w) /\ SameTrip(later, w) /\ w.events = later.events \cup {"kSummonPostponed"}
        /\ w.answers = later.answers /\ w.raikom_reputation = later.raikom_reputation
    BY <2>2, <2>3, Emitted
  <2> HIDE DEF w
  <2>5. Postponed(v, w)
    BY <1>2, <2>3, <2>4 DEF Postponed, SameTrip, SameHours, SameSummons, d, f, u
  <2>6. LeftAt(v, w)
    BY <1>2, <2>3, <2>4, <2>5 DEF LeftAt, SameTrip, SameHours, SameSummons
  <2> QED BY <2>6 DEF w
<1>3. CASE WeatherHoldsDeparture(v) /\ ~v.away_summoned
  <2> DEFINE home == ClearTrip(v)
  <2>1. w = Emit(home, "kTripCancelled")
    BY <1>3 DEF Depart
  <2>2. /\ IsWorld(home) /\ home.tick = v.tick /\ home.weather = v.weather /\ SameSummons(v, home)
        /\ home.answers = v.answers /\ home.events = v.events
        /\ home.raikom_reputation = v.raikom_reputation
        /\ home.away_from_tick = 0 /\ home.away_until_tick = 0 /\ home.away_summoned = FALSE
    BY ClearedWorld
  <2> HIDE DEF home
  <2>3. /\ IsWorld(w) /\ SameTrip(home, w) /\ w.events = home.events \cup {"kTripCancelled"}
        /\ w.answers = home.answers /\ w.raikom_reputation = home.raikom_reputation
    BY <2>1, <2>2, Emitted
  <2> HIDE DEF w
  <2>4. CalledOff(v, w)
    BY <1>3, <2>2, <2>3 DEF CalledOff, SameTrip, SameHours, SameSummons
  <2>5. LeftAt(v, w)
    BY <1>3, <2>2, <2>3, <2>4 DEF LeftAt, SameTrip, SameHours, SameSummons
  <2> QED BY <2>5 DEF w
<1>4. CASE ~WeatherHoldsDeparture(v)
  <2> DEFINE u == IF v.weather = "mud" THEN TickAt(DayOf(v) + 1, depart_hour) ELSE v.away_until_tick
             l == IF v.away_summoned THEN v.last_trip_day ELSE LastTripDay(DayOf(v))
             gone == [v EXCEPT !.away_until_tick = u, !.last_trip_day = l]
  <2>1. u \in Nat /\ u \in {v.away_until_tick, TickAt(DayOf(v) + 1, depart_hour)}
    <3>1. DayOf(v) + 1 \in Nat
      BY <1>1
    <3>2. TickAt(DayOf(v) + 1, depart_hour) \in Nat
      BY <3>1, Ticks, Hours
    <3> QED BY <3>2 DEF IsWorld
  <2>2. w = Emit(gone, "kTripDeparted")
    BY <1>4 DEF Depart
  <2> HIDE DEF u, l
  <2>3. /\ IsWorld(gone) /\ gone.tick = v.tick /\ gone.weather = v.weather /\ SameSummons(v, gone)
        /\ gone.answers = v.answers /\ gone.events = v.events
        /\ gone.raikom_reputation = v.raikom_reputation
        /\ gone.away_from_tick = v.away_from_tick /\ gone.away_until_tick = u
        /\ gone.away_summoned = v.away_summoned
    BY <2>1 DEF IsWorld, Columns, SameSummons
  <2> HIDE DEF gone
  <2>4. /\ IsWorld(w) /\ SameTrip(gone, w) /\ w.events = gone.events \cup {"kTripDeparted"}
        /\ w.answers = gone.answers /\ w.raikom_reputation = gone.raikom_reputation
    BY <2>2, <2>3, Emitted
  <2> HIDE DEF w
  <2>5. Gone(v, w)
    BY <2>1, <2>3, <2>4 DEF Gone, SameTrip, SameHours, SameSummons
  <2>6. LeftAt(v, w)
    BY <1>4, <2>3, <2>4, <2>5 DEF LeftAt, SameTrip, SameHours, SameSummons
  <2> QED BY <2>6 DEF w
<1> QED BY <1>2, <1>3, <1>4

\* He is back: from a summons, with nothing that called him, or called again.
Back(v, w) ==
  /\ IsWorld(w) /\ w.tick = v.tick /\ w.weather = v.weather
  /\ w.answers = v.answers /\ w.raikom_reputation = v.raikom_reputation
  /\ w.events = v.events \cup {"kTripReturned"}
  /\ w.away_from_tick = 0 /\ w.away_until_tick = 0 /\ ~w.away_summoned
  /\ \/ ~v.away_summoned /\ SameSummons(v, w)
     \/ /\ v.away_summoned /\ ~w.pencil_pending
        /\ IF v.pencil_pending /\ OnThePencil(v)
           THEN w.summon_cause = "kOnThePencil" /\ w.summon_day >= DayOf(v) + 3
           ELSE w.summon_day = 0

\* A return does what Back says.
LEMMA ReturnWorld ==
  ASSUME NEW v, IsWorld(v)
  PROVE  Back(v, Return(v))
<1> DEFINE clear == ClearTrip(v)
           home == Emit(clear, "kTripReturned")
           over == [home EXCEPT !.summon_letter_day = 0, !.summon_day = 0, !.summon_cause = "kNone",
                                !.pencil_pending = FALSE]
           again == SummonChairman(over, "kOnThePencil")
           w == Return(v)
<1>1. w = IF ~v.away_summoned THEN home
          ELSE IF v.pencil_pending /\ OnThePencil(v) THEN again ELSE over
  BY DEF Return
<1>2. /\ IsWorld(home) /\ home.tick = v.tick /\ home.weather = v.weather /\ SameSummons(v, home)
      /\ home.answers = v.answers /\ home.events = v.events \cup {"kTripReturned"}
      /\ home.raikom_reputation = v.raikom_reputation
      /\ home.away_from_tick = 0 /\ home.away_until_tick = 0 /\ home.away_summoned = FALSE
  <2>1. /\ IsWorld(clear) /\ clear.tick = v.tick /\ clear.weather = v.weather /\ SameSummons(v, clear)
        /\ clear.answers = v.answers /\ clear.events = v.events
        /\ clear.raikom_reputation = v.raikom_reputation
        /\ clear.away_from_tick = 0 /\ clear.away_until_tick = 0 /\ clear.away_summoned = FALSE
    BY ClearedWorld
  <2> HIDE DEF clear
  <2>2. /\ IsWorld(home) /\ SameTrip(clear, home) /\ home.events = clear.events \cup {"kTripReturned"}
        /\ home.answers = clear.answers /\ home.raikom_reputation = clear.raikom_reputation
    BY <2>1, Emitted
  <2> HIDE DEF home
  <2> QED BY <2>1, <2>2 DEF SameTrip, SameHours, SameSummons
<1> HIDE DEF home
<1>3. /\ IsWorld(over) /\ SameHours(home, over)
      /\ over.answers = home.answers /\ over.events = home.events
      /\ over.raikom_reputation = home.raikom_reputation
      /\ over.summon_day = 0 /\ over.pencil_pending = FALSE
  BY <1>2 DEF IsWorld, Columns, SameHours, Cause
<1> HIDE DEF over
<1>4. /\ IsWorld(again) /\ SameHours(over, again) /\ SameSaid(over, again)
      /\ again.pencil_pending = over.pencil_pending
      /\ again.raikom_reputation = over.raikom_reputation
      /\ again.summon_day >= DayOf(over) + 3 /\ again.summon_cause = "kOnThePencil"
  <2>1. "kOnThePencil" \in Cause \ {"kNone"}
    BY DEF Cause
  <2> QED BY <1>3, <2>1, Summoned
<1>5. DayOf(over) = DayOf(v)
  BY <1>2, <1>3 DEF SameHours, DayOf
<1> HIDE DEF again, w
<1>6. CASE ~v.away_summoned
  <2>1. w = home
    BY <1>1, <1>6
  <2> QED BY <2>1, <1>2, <1>6 DEF Back, w
<1>7. CASE v.away_summoned /\ v.pencil_pending /\ OnThePencil(v)
  <2>1. w = again
    BY <1>1, <1>7
  <2>2. Back(v, w)
    BY <2>1, <1>2, <1>3, <1>4, <1>5, <1>7 DEF Back, SameHours, SameSaid
  <2> QED BY <2>2 DEF w
<1>8. CASE v.away_summoned /\ ~(v.pencil_pending /\ OnThePencil(v))
  <2>1. w = over
    BY <1>1, <1>8
  <2>2. Back(v, w)
    BY <2>1, <1>2, <1>3, <1>8 DEF Back, SameHours
  <2> QED BY <2>2 DEF w
<1> QED BY <1>6, <1>7, <1>8

-----------------------------------------------------------------------------
(* The visits (ArriveDistrictVisits) and the year's turn.                  *)

Visits == INSTANCE FoldProofs WITH Op <- HeldIfDue

\* A finite set's members in some order.
LEMMA InSomeOrder ==
  ASSUME NEW X, NEW S \in SUBSET X, IsFiniteSet(S)
  PROVE  SetToSeq(S) \in Seq(X)
<1>1. PICK n \in Nat : ExistsBijection(1..n, S)
  BY FS_NatBijection
<1>2. Cardinality(S) = n
  BY <1>1, FS_CountingElements
<1>3. \E f \in [1..Cardinality(S) -> S] : IsInjective(f)
  BY <1>1, <1>2 DEF ExistsBijection, Bijection, Injection
<1>4. SetToSeq(S) \in [1..n -> S]
  BY <1>2, <1>3 DEF SetToSeq
<1>5. SetToSeq(S) \in [1..n -> X]
  BY <1>4
<1> QED BY <1>5

\* What is left of a sequence without a first element.
LEMMA OneRemoved ==
  ASSUME NEW X, NEW s \in Seq(X), NEW e
  PROVE  RemoveFirst(s, e) \in Seq(X)
<1> DEFINE I == {i \in 1..Len(s) : s[i] = e}
           p == IF I # {} THEN Min(I) ELSE 0
<1>1. RemoveFirst(s, e) = IF I # {} THEN RemoveAt(s, p) ELSE s
  BY DEF RemoveFirst, SelectInSeq
<1>2. ASSUME I # {} PROVE p \in 1..Len(s)
  <2>1. I \in SUBSET Nat
    OBVIOUS
  <2>2. \E m \in I : \A n \in I : m <= n
    BY <1>2, <2>1, Visits!FirstOf
  <2>3. Min(I) \in I
    BY <2>2 DEF Min
  <2> QED BY <1>2, <2>3
<1>3. ASSUME NEW i \in 1..Len(s)
      PROVE  RemoveAt(s, i) \in Seq(X)
  <2>1. Len(s) \in Nat
    OBVIOUS
  <2>2. SubSeq(s, 1, i - 1) \in Seq(X)
    <3>1. \A j \in 1..(i - 1) : s[j] \in X
      BY <2>1
    <3> QED BY <3>1, SubSeqProperties
  <2>3. SubSeq(s, i + 1, Len(s)) \in Seq(X)
    <3>1. \A j \in (i + 1)..Len(s) : s[j] \in X
      BY <2>1
    <3> QED BY <3>1, SubSeqProperties
  <2> QED BY <2>2, <2>3, ConcatProperties DEF RemoveAt
<1> HIDE DEF I, p
<1> QED BY <1>1, <1>2, <1>3

\* What a dawn may add to the world: events of the year and of visits, and a
\* summons where there is none.
Told == {"kPlanMet", "kPlanFailed", "kDistrictVisit"}

Called(v, w) ==
  /\ IsWorld(w) /\ SameHours(v, w) /\ w.pencil_pending = v.pencil_pending
  /\ \/ SameSummons(v, w)
     \/ /\ v.summon_day = 0 /\ w.summon_day >= DayOf(v) + 3
        /\ w.summon_cause \in {"kFailedYear", "kAuditDiscrepancy"}
  /\ w.answers = v.answers
  /\ \A e : e \notin Told => (e \in w.events <=> e \in v.events)

NoVisit(v, w) == "kDistrictVisit" \in w.events => "kDistrictVisit" \in v.events

\* A world that differs by what it says at most has called nobody.
LEMMA CalledStill ==
  ASSUME NEW v, NEW w, IsWorld(w), SameTrip(v, w), w.answers = v.answers,
         NEW e \in Told, w.events = v.events \/ w.events = v.events \cup {e}
  PROVE  Called(v, w)
BY DEF Called, SameTrip, SameSummons

\* Two parts of the day in a row: the first summons stands.
LEMMA CalledOn ==
  ASSUME NEW u, NEW v, NEW w, IsWorld(v), Called(u, v), Called(v, w)
  PROVE  Called(u, w)
<1>1. DayOf(v) = DayOf(u) /\ DayOf(u) \in Nat
  BY Clock DEF Called, SameHours, DayOf, Day, IsWorld
<1>2. SameHours(u, w) /\ w.answers = u.answers /\ w.pencil_pending = u.pencil_pending
  BY DEF Called, SameHours
<1>3. \A e : e \notin Told => (e \in w.events <=> e \in u.events)
  BY DEF Called
<1>4. \/ SameSummons(u, w)
      \/ /\ u.summon_day = 0 /\ w.summon_day >= DayOf(u) + 3
         /\ w.summon_cause \in {"kFailedYear", "kAuditDiscrepancy"}
  BY <1>1, <1>2 DEF Called, SameSummons
<1> QED BY <1>2, <1>3, <1>4 DEF Called

\* A summons for the year or for the audit.
LEMMA CalledBySummons ==
  ASSUME NEW w, IsWorld(w), NEW cause \in {"kFailedYear", "kAuditDiscrepancy"}
  PROVE  Called(w, SummonChairman(w, cause)) /\ NoVisit(w, SummonChairman(w, cause))
<1>1. cause \in Cause \ {"kNone"}
  BY DEF Cause
<1> QED BY <1>1, Summoned DEF Called, NoVisit, SameSaid, SameSummons

\* An extraordinary visit is a row of visits.
LEMMA ExtraordinaryWorld ==
  ASSUME NEW w, IsWorld(w), NEW face \in Face
  PROVE  LET v == CallExtraordinary(w, face) IN
         IsWorld(v) /\ SameTrip(w, v) /\ SameSaid(w, v)
<1> DEFINE visit == Visit(face, "kExtraordinary", DayOf(w) + 1)
           rows == Append(w.visits, visit)
           v == [w EXCEPT !.visits = rows]
<1>1. DayOf(w) + 1 \in Nat
  BY DayIs
<1>2. visit \in AVisit
  BY <1>1 DEF Visit, AVisit
<1> HIDE DEF visit
<1>3. rows \in Seq(AVisit)
  BY <1>2, AppendProperties DEF IsWorld
<1> HIDE DEF rows
<1>4. IsWorld(v) /\ SameTrip(w, v) /\ SameSaid(w, v)
  BY <1>3 DEF IsWorld, Columns, SameTrip, SameHours, SameSummons, SameSaid
<1>5. CallExtraordinary(w, face) \in {w, v}
  BY DEF CallExtraordinary, rows, visit
<1> HIDE DEF v
<1> QED BY <1>4, <1>5 DEF SameTrip, SameHours, SameSummons, SameSaid

\* The announcement adds rows of visits.
LEMMA AnnouncedWorld ==
  ASSUME NEW w, IsWorld(w)
  PROVE  LET v == AnnounceRegularVisits(w) IN
         IsWorld(v) /\ SameTrip(w, v) /\ SameSaid(w, v)
<1> DEFINE day == DayOf(w) + notice_days
           new == {r \in Regular : r.day = day /\ ~\E k \in DOMAIN w.visits :
                                w.visits[k].face = r.face /\ w.visits[k].arrive_day = day}
           coming == {Visit(r.face, "kRegular", day) : r \in new}
           rows == w.visits \o SetToSeq(coming)
           v == [w EXCEPT !.visits = rows]
<1>1. day \in Nat
  BY DayIs, TableAssumption
<1>2. new \in SUBSET Regular
  OBVIOUS
<1> HIDE DEF day, new
<1>3. coming \in SUBSET AVisit
  <2> SUFFICES ASSUME NEW r \in new PROVE Visit(r.face, "kRegular", day) \in AVisit
    OBVIOUS
  <2>1. r.face \in Face
    BY <1>2, TableAssumption
  <2> QED BY <1>1, <2>1 DEF Visit, AVisit
<1>4. IsFiniteSet(coming)
  <2>1. IsFiniteSet(new)
    BY <1>2, TableAssumption, FS_Subset
  <2> DEFINE f == [r \in new |-> Visit(r.face, "kRegular", day)]
  <2>2. f \in Surjection(new, coming)
    BY DEF Surjection
  <2> HIDE DEF f, coming
  <2> QED BY <2>1, <2>2, FS_Surjection
<1> HIDE DEF coming
<1>5. rows \in Seq(AVisit)
  <2>1. SetToSeq(coming) \in Seq(AVisit)
    BY <1>3, <1>4, InSomeOrder
  <2> QED BY <2>1, ConcatProperties DEF IsWorld
<1> HIDE DEF rows
<1>6. IsWorld(v) /\ SameTrip(w, v) /\ SameSaid(w, v)
  BY <1>5 DEF IsWorld, Columns, SameTrip, SameHours, SameSummons, SameSaid
<1>7. AnnounceRegularVisits(w) = v
  BY DEF AnnounceRegularVisits, rows, coming, new, day
<1> QED BY <1>6, <1>7

\* A reputation that is owed is no part of the trip.
LEMMA OwedWorld ==
  ASSUME NEW w, IsWorld(w), NEW x
  PROVE  LET v == [w EXCEPT !.reputation_recovery_owed = x] IN
         IsWorld(v) /\ SameTrip(w, v) /\ SameSaid(w, v)
BY DEF IsWorld, Columns, SameTrip, SameHours, SameSummons, SameSaid

\* A visit that is held may summon him, and nothing else of his changes.
LEMMA HeldWorld ==
  ASSUME NEW held, IsWorld(held.world), NEW visit \in AVisit
  PROVE  Called(held.world, Held(held, visit).world)
<1> DEFINE start == held.world
           rows == RemoveFirst(start.visits, visit)
           w == [start EXCEPT !.visits = rows]
           found == held.surplus /\ visit.face \in {"kPolushkina", "kZhernova"}
           summoned == SummonChairman(Lowered(w), "kAuditDiscrepancy")
           caught == [summoned EXCEPT !.reputation_recovery_owed = TRUE]
           clean == IF w.reputation_recovery_owed
                    THEN Raised([w EXCEPT !.reputation_recovery_owed = FALSE]) ELSE w
           after == IF found THEN caught ELSE clean
           said == Emit(after, "kDistrictVisit")
           over == IF found /\ visit.kind = "kRegular"
                   THEN CallExtraordinary(said, SeniorOfChannel(visit.face)) ELSE said
<1>1. Held(held, visit).world = over
  <2>1. Held(held, visit) = [surplus |-> held.surplus /\ ~found, world |-> over]
    BY DEF Held
  <2> HIDE DEF over, found
  <2> QED BY <2>1
<1> HIDE DEF start, found
<1>2. IsWorld(w) /\ SameTrip(start, w) /\ SameSaid(start, w)
  <2>1. IsWorld(start)
    BY DEF start
  <2>2. rows \in Seq(AVisit)
    BY <2>1, OneRemoved DEF IsWorld
  <2> HIDE DEF rows
  <2> QED BY <2>1, <2>2 DEF IsWorld, Columns, SameTrip, SameHours, SameSummons, SameSaid
<1> HIDE DEF w
<1>3. Called(w, summoned) /\ IsWorld(caught) /\ SameTrip(summoned, caught) /\ SameSaid(summoned, caught)
  <2>1. IsWorld(Lowered(w)) /\ SameTrip(w, Lowered(w)) /\ SameSaid(w, Lowered(w))
    BY <1>2, Moved
  <2>2. Called(w, Lowered(w))
    BY <2>1, CalledStill DEF Told, SameSaid
  <2>3. Called(Lowered(w), summoned)
    BY <2>1, CalledBySummons
  <2>4. Called(w, summoned) /\ IsWorld(summoned)
    BY <2>1, <2>2, <2>3, CalledOn DEF Called
  <2> HIDE DEF summoned
  <2> QED BY <2>4, OwedWorld
<1>4. IsWorld(clean) /\ SameTrip(w, clean) /\ SameSaid(w, clean)
  <2> DEFINE o == [w EXCEPT !.reputation_recovery_owed = FALSE]
  <2>1. IsWorld(o) /\ SameTrip(w, o) /\ SameSaid(w, o)
    BY <1>2, OwedWorld
  <2> HIDE DEF o
  <2>2. IsWorld(Raised(o)) /\ SameTrip(o, Raised(o)) /\ SameSaid(o, Raised(o))
    BY <2>1, Moved
  <2>3. clean \in {Raised(o), w}
    BY DEF o
  <2> HIDE DEF clean
  <2> QED BY <1>2, <2>1, <2>2, <2>3 DEF SameTrip, SameHours, SameSummons, SameSaid
<1>5. Called(start, after) /\ IsWorld(after)
  <2>1. Called(start, w)
    BY <1>2, CalledStill DEF Told, SameSaid
  <2>2. Called(summoned, caught) /\ Called(w, clean)
    BY <1>3, <1>4, CalledStill DEF Told, SameSaid
  <2>3. IsWorld(summoned)
    BY <1>3 DEF Called
  <2> HIDE DEF summoned, caught, clean
  <2>4. Called(start, summoned)
    BY <1>2, <1>3, <2>1, CalledOn
  <2>5. Called(start, caught)
    BY <2>2, <2>3, <2>4, CalledOn
  <2>6. Called(start, clean)
    BY <1>2, <2>1, <2>2, CalledOn
  <2> QED BY <1>3, <1>4, <2>5, <2>6
<1> HIDE DEF after
<1>6. Called(start, said) /\ IsWorld(said)
  <2>1. /\ IsWorld(said) /\ SameTrip(after, said)
        /\ said.events = after.events \cup {"kDistrictVisit"} /\ said.answers = after.answers
    BY <1>5, Emitted
  <2> HIDE DEF said
  <2>2. Called(after, said)
    BY <2>1, CalledStill DEF Told
  <2> QED BY <1>5, <2>1, <2>2, CalledOn
<1> HIDE DEF said
<1>7. Called(start, over)
  <2>1. SeniorOfChannel(visit.face) \in Face
    BY DEF SeniorOfChannel, AVisit, Face
  <2> DEFINE senior == CallExtraordinary(said, SeniorOfChannel(visit.face))
  <2>2. IsWorld(senior) /\ SameTrip(said, senior) /\ SameSaid(said, senior)
    BY <1>6, <2>1, ExtraordinaryWorld
  <2> HIDE DEF senior
  <2>3. Called(said, senior)
    BY <2>2, CalledStill DEF Told, SameSaid
  <2>4. Called(start, senior)
    BY <1>6, <2>3, CalledOn
  <2>5. over \in {senior, said}
    BY DEF senior
  <2> QED BY <1>6, <2>4, <2>5
<1> QED BY <1>1, <1>7 DEF start

\* The same of a visit that is held if it is due.
LEMMA HeldIfDueWorld ==
  ASSUME NEW held, IsWorld(held.world), NEW visit \in AVisit
  PROVE  Called(held.world, HeldIfDue(held, visit).world)
<1>1. Called(held.world, held.world)
  BY CalledStill DEF SameTrip, SameHours, SameSummons, Told
<1> QED BY <1>1, HeldWorld DEF HeldIfDue

\* The dawn's visits: none on a day that he is away.
LEMMA ArrivedWorld ==
  ASSUME NEW w, IsWorld(w), NEW surplus
  PROVE  /\ Called(w, ArriveDistrictVisits(w, surplus))
         /\ AwayToday(w) => NoVisit(w, ArriveDistrictVisits(w, surplus))
<1> DEFINE v == ArriveDistrictVisits(w, surplus)
<1>1. CASE AwayToday(w)
  <2> DEFINE Deferred(visit) == IF Due(w, visit) THEN [visit EXCEPT !.arrive_day = DayOf(w) + 1] ELSE visit
             rows == [k \in DOMAIN w.visits |-> Deferred(w.visits[k])]
  <2>1. v = [w EXCEPT !.visits = rows]
    BY <1>1 DEF ArriveDistrictVisits
  <2>2. \A visit \in AVisit : Deferred(visit) \in AVisit
    <3>1. DayOf(w) + 1 \in Nat
      BY DayIs
    <3> QED BY <3>1 DEF AVisit
  <2>3. rows \in Seq(AVisit)
    <3> DEFINE n == Len(w.visits)
    <3>1. n \in Nat /\ DOMAIN w.visits = 1..n /\ \A k \in 1..n : w.visits[k] \in AVisit
      BY DEF IsWorld
    <3>2. rows \in [1..n -> AVisit]
      <4> HIDE DEF Deferred
      <4> QED BY <2>2, <3>1
    <3> HIDE DEF rows, n
    <3> QED BY <3>1, <3>2
  <2> HIDE DEF rows, v
  <2>4. IsWorld(v) /\ SameTrip(w, v) /\ SameSaid(w, v)
    BY <2>1, <2>3 DEF IsWorld, Columns, SameTrip, SameHours, SameSummons, SameSaid
  <2>5. Called(w, v) /\ NoVisit(w, v)
    BY <2>4, CalledStill DEF Told, SameSaid, NoVisit
  <2> QED BY <2>5 DEF v
<1>2. CASE ~AwayToday(w)
  <2> DEFINE base == [world |-> w, surplus |-> surplus]
             rows == w.visits
             n == Len(rows)
  <2>1. v = FoldLeft(HeldIfDue, base, rows).world
    BY <1>2 DEF ArriveDistrictVisits
  <2>2. n \in Nat /\ DOMAIN rows = 1..n /\ \A k \in 1..n : rows[k] \in AVisit
    BY DEF IsWorld
  <2>3. base.world = w
    OBVIOUS
  <2> HIDE DEF base, rows, n, v
  <2>4. PICK g : Visits!IsSteps(g, n, base, rows) /\ Visits!FoldLeft(HeldIfDue, base, rows) = g[n]
    BY <2>2, Visits!FoldSteps
  <2>5. FoldLeft(HeldIfDue, base, rows) = g[n]
    BY <2>4 DEF FoldLeft, Visits!FoldLeft, MapThenFoldSet, Visits!MapThenFoldSet, Max, Visits!Max
  <2> DEFINE D == {k \in Nat : k <= n => Called(w, g[k].world)}
  <2>6. 0 \in D
    <3>1. g[0] = base
      BY <2>2, <2>4 DEF Visits!IsSteps
    <3>2. Called(w, w)
      BY CalledStill DEF SameTrip, SameHours, SameSummons, Told
    <3> QED BY <2>3, <3>1, <3>2
  <2>7. ASSUME NEW k \in Nat, k \in D PROVE k + 1 \in D
    <3> SUFFICES ASSUME k + 1 <= n PROVE Called(w, g[k + 1].world)
      OBVIOUS
    <3>1. k + 1 \in 0..n /\ k + 1 \in 1..n /\ k + 1 # 0 /\ (k + 1) - 1 = k /\ k <= n
      BY <2>2
    <3>2. g[k + 1] = HeldIfDue(g[k], rows[k + 1])
      BY <2>4, <3>1 DEF Visits!IsSteps
    <3>3. Called(w, g[k].world)
      BY <2>7, <3>1
    <3>4. IsWorld(g[k].world) /\ rows[k + 1] \in AVisit
      BY <2>2, <3>1, <3>3 DEF Called
    <3>5. Called(g[k].world, g[k + 1].world)
      BY <3>2, <3>4, HeldIfDueWorld
    <3> QED BY <3>3, <3>4, <3>5, CalledOn
  <2>8. n \in D
    <3> HIDE DEF D
    <3> QED BY <2>2, <2>6, <2>7, Visits!Upwards
  <2>9. Called(w, v)
    BY <2>1, <2>2, <2>5, <2>8
  <2> QED BY <1>2, <2>9 DEF v
<1> QED BY <1>1, <1>2

\* The verdict and its extraordinary visit.
LEMMA JudgedWorld ==
  ASSUME NEW w, IsWorld(w), NEW year \in {"kNone", "kMet", "kFailed"}
  PROVE  Called(w, JudgePlan(w, year)) /\ NoVisit(w, JudgePlan(w, year))
<1> DEFINE v == JudgePlan(w, year)
<1>1. CASE year = "kNone"
  <2>1. v = w
    BY <1>1 DEF JudgePlan
  <2> QED BY <2>1, CalledStill DEF SameTrip, SameHours, SameSummons, Told, NoVisit
<1>2. CASE year = "kMet"
  <2> DEFINE p == [w EXCEPT !.last_verdict = year]
             r == Raised(p)
  <2>1. v = Emit(r, "kPlanMet")
    BY <1>2 DEF JudgePlan
  <2>2. IsWorld(p) /\ SameTrip(w, p) /\ SameSaid(w, p)
    BY DEF IsWorld, Columns, SameTrip, SameHours, SameSummons, SameSaid
  <2> HIDE DEF p
  <2>3. IsWorld(r) /\ SameTrip(p, r) /\ SameSaid(p, r)
    BY <2>2, Moved
  <2> HIDE DEF r, v
  <2>4. IsWorld(v) /\ SameTrip(r, v) /\ v.events = r.events \cup {"kPlanMet"} /\ v.answers = r.answers
    BY <2>1, <2>3, Emitted
  <2>5. SameTrip(w, v) /\ v.events = w.events \cup {"kPlanMet"} /\ v.answers = w.answers
    BY <2>2, <2>3, <2>4 DEF SameTrip, SameHours, SameSummons, SameSaid
  <2>6. Called(w, v) /\ NoVisit(w, v)
    BY <2>4, <2>5, CalledStill DEF Told, NoVisit
  <2> QED BY <2>6 DEF v
<1>3. CASE year = "kFailed"
  <2> DEFINE p == [w EXCEPT !.last_verdict = year, !.reputation_recovery_owed = TRUE]
             r == Lowered(p)
             e == Emit(r, "kPlanFailed")
  <2>1. v = CallExtraordinary(e, "kKorenev")
    BY <1>3 DEF JudgePlan
  <2>2. IsWorld(p) /\ SameTrip(w, p) /\ SameSaid(w, p)
    BY DEF IsWorld, Columns, SameTrip, SameHours, SameSummons, SameSaid
  <2> HIDE DEF p
  <2>3. IsWorld(r) /\ SameTrip(p, r) /\ SameSaid(p, r)
    BY <2>2, Moved
  <2> HIDE DEF r
  <2>4. IsWorld(e) /\ SameTrip(r, e) /\ e.events = r.events \cup {"kPlanFailed"} /\ e.answers = r.answers
    BY <2>3, Emitted
  <2> HIDE DEF e, v
  <2>5. IsWorld(v) /\ SameTrip(e, v) /\ SameSaid(e, v)
    BY <2>1, <2>4, ExtraordinaryWorld DEF Face
  <2>6. SameTrip(w, v) /\ v.events = w.events \cup {"kPlanFailed"} /\ v.answers = w.answers
    BY <2>2, <2>3, <2>4, <2>5 DEF SameTrip, SameHours, SameSummons, SameSaid
  <2>7. Called(w, v) /\ NoVisit(w, v)
    BY <2>5, <2>6, CalledStill DEF Told, NoVisit
  <2> QED BY <2>7 DEF v
<1> QED BY <1>1, <1>2, <1>3

\* No visit, and no visit after it.
LEMMA NoVisitOn ==
  ASSUME NEW u, NEW v, NEW w, NoVisit(u, v), NoVisit(v, w)
  PROVE  NoVisit(u, w)
BY DEF NoVisit

\* The year's turn may summon him.
LEMMA TurnedWorld ==
  ASSUME NEW w, IsWorld(w), NEW chance, chance.year \in {"kNone", "kMet", "kFailed"}
  PROVE  Called(w, RunYearStart(w, chance)) /\ NoVisit(w, RunYearStart(w, chance))
<1> DEFINE b == IF chance.beyond THEN Raised(w) ELSE w
           j == JudgePlan(b, chance.year)
           v == IF j.last_verdict = "kFailed" THEN SummonChairman(j, "kFailedYear") ELSE j
<1>1. RunYearStart(w, chance) = v
  BY DEF RunYearStart, SummonIfTheYearFailed
<1>2. IsWorld(b) /\ SameTrip(w, b) /\ SameSaid(w, b)
  BY Moved DEF SameTrip, SameHours, SameSummons, SameSaid
<1> HIDE DEF b
<1>3. Called(w, b) /\ NoVisit(w, b)
  BY <1>2, CalledStill DEF Told, SameSaid, NoVisit
<1>4. Called(b, j) /\ NoVisit(b, j) /\ IsWorld(j)
  BY <1>2, JudgedWorld DEF Called
<1> HIDE DEF j
<1>5. Called(w, j) /\ NoVisit(w, j)
  BY <1>2, <1>3, <1>4, CalledOn, NoVisitOn
<1>6. Called(j, SummonChairman(j, "kFailedYear")) /\ NoVisit(j, SummonChairman(j, "kFailedYear"))
  BY <1>4, CalledBySummons
<1>7. /\ Called(w, SummonChairman(j, "kFailedYear"))
      /\ NoVisit(w, SummonChairman(j, "kFailedYear"))
  BY <1>4, <1>5, <1>6, CalledOn, NoVisitOn
<1> QED BY <1>1, <1>5, <1>7

\* The dawn's part of the step: at most one new summons, and no visit on a
\* day that he is away.
LEMMA DayWorld ==
  ASSUME NEW w, IsWorld(w), NEW chance, chance.year \in {"kNone", "kMet", "kFailed"}
  PROVE  /\ Called(w, RunDay(w, chance))
         /\ AwayToday(w) => NoVisit(w, RunDay(w, chance))
<1> DEFINE t == IF YearTurns(w) THEN RunYearStart(w, chance) ELSE w
           a == AnnounceRegularVisits(t)
           v == ArriveDistrictVisits(a, chance.surplus)
<1>1. RunDay(w, chance) = v
  BY DEF RunDay
<1>2. Called(w, t) /\ NoVisit(w, t) /\ IsWorld(t)
  <2>1. Called(w, w) /\ NoVisit(w, w)
    BY CalledStill DEF SameTrip, SameHours, SameSummons, Told, NoVisit
  <2> QED BY <2>1, TurnedWorld DEF Called
<1> HIDE DEF t
<1>3. IsWorld(a) /\ SameTrip(t, a) /\ SameSaid(t, a)
  BY <1>2, AnnouncedWorld
<1> HIDE DEF a
<1>4. Called(t, a) /\ NoVisit(t, a)
  BY <1>3, CalledStill DEF Told, SameSaid, NoVisit
<1>5. Called(w, a) /\ NoVisit(w, a)
  BY <1>2, <1>4, CalledOn, NoVisitOn
<1>6. Called(a, v) /\ (AwayToday(a) => NoVisit(a, v))
  BY <1>3, ArrivedWorld
<1> HIDE DEF v
<1>7. Called(w, v)
  BY <1>3, <1>5, <1>6, CalledOn
<1>8. AwayToday(w) => AwayToday(a)
  <2>1. SameHours(w, a) /\ (SameSummons(w, a) \/ w.summon_day = 0)
    BY <1>5 DEF Called
  <2> QED BY <2>1 DEF AwayToday, SameHours, SameSummons, WeatherHoldsDeparture, DayOf
<1> QED BY <1>1, <1>5, <1>6, <1>7, <1>8, NoVisitOn

-----------------------------------------------------------------------------
(* The invariant, and the parts of a step that keep it.                    *)

\* What a crossing of the line makes of the day's world.
Asked(v, w, p) ==
  /\ IsWorld(p) /\ SameHours(w, p) /\ SameSaid(w, p) /\ p.raikom_reputation = w.raikom_reputation
  /\ IF OnThePencil(v) \/ ~OnThePencil(w) THEN SameSummons(w, p)
     ELSE IF w.summon_day = 0
     THEN /\ p.summon_day >= DayOf(w) + 3 /\ p.summon_cause = "kOnThePencil"
          /\ p.pencil_pending = w.pencil_pending
     ELSE /\ p.summon_day = w.summon_day /\ p.summon_cause = w.summon_cause
          /\ IF /\ v.summon_day = w.summon_day /\ v.summon_cause = w.summon_cause
                /\ w.summon_cause # "kOnThePencil"
             THEN p.pencil_pending ELSE p.pencil_pending = w.pencil_pending

\* A crossing of the line does what Asked says.
LEMMA AskedWorld ==
  ASSUME NEW v, NEW w, IsWorld(w)
  PROVE  Asked(v, w, SummonOnThePencil(v, w))
<1> DEFINE stood == v.summon_day = w.summon_day /\ v.summon_cause = w.summon_cause
           marked == [w EXCEPT !.pencil_pending = TRUE]
           called == SummonChairman(w, "kOnThePencil")
           p == SummonOnThePencil(v, w)
<1>1. p = IF OnThePencil(v) \/ ~OnThePencil(w) THEN w
          ELSE IF w.summon_day = 0 THEN called
          ELSE IF stood /\ w.summon_cause # "kOnThePencil" THEN marked ELSE w
  BY DEF SummonOnThePencil
<1>2. /\ IsWorld(marked) /\ SameHours(w, marked) /\ SameSaid(w, marked)
      /\ marked.raikom_reputation = w.raikom_reputation
      /\ marked.summon_day = w.summon_day /\ marked.summon_cause = w.summon_cause
      /\ marked.pencil_pending = TRUE
  BY DEF IsWorld, Columns, SameHours, SameSaid
<1>3. /\ IsWorld(called) /\ SameHours(w, called) /\ SameSaid(w, called)
      /\ called.raikom_reputation = w.raikom_reputation /\ called.pencil_pending = w.pencil_pending
      /\ w.summon_day = 0 => called.summon_day >= DayOf(w) + 3 /\ called.summon_cause = "kOnThePencil"
  <2>1. "kOnThePencil" \in Cause \ {"kNone"}
    BY DEF Cause
  <2> QED BY <2>1, Summoned
<1>4. SameHours(w, w) /\ SameSaid(w, w) /\ SameSummons(w, w)
  BY DEF SameHours, SameSaid, SameSummons
<1> HIDE DEF marked, called, p
<1>5. Asked(v, w, p)
  BY <1>1, <1>2, <1>3, <1>4 DEF Asked
<1> QED BY <1>5 DEF p

\* A trip of his own is over before any summons' day; a summoned one is the
\* summons' own; none is overdue, and no summons is missed.
Kept(w) ==
  /\ IsWorld(w)
  /\ w.away_from_tick = 0 => w.away_until_tick = 0 /\ ~w.away_summoned
  /\ w.away_from_tick # 0 => w.tick < w.away_until_tick
  /\ w.away_from_tick # 0 /\ ~w.away_summoned =>
       \E x \in Nat : LeavesOn(w, x) /\ x <= DayOf(w) + 1 /\ (w.summon_day # 0 => x + 2 <= w.summon_day)
  /\ w.away_summoned => w.summon_day # 0 /\ LeavesOn(w, w.summon_day)
  /\ w.summon_day # 0 /\ ~w.away_summoned => DayOf(w) < w.summon_day
  /\ w.pencil_pending => w.summon_day # 0 /\ w.summon_cause # "kOnThePencil"

\* The same at the next tick, before his hour is run.
Ready(w) ==
  /\ IsWorld(w)
  /\ w.away_from_tick = 0 => w.away_until_tick = 0 /\ ~w.away_summoned
  /\ w.away_from_tick # 0 => w.tick <= w.away_until_tick
  /\ w.away_from_tick # 0 /\ ~w.away_summoned =>
       \E x \in Nat : LeavesOn(w, x) /\ x <= DayOf(w) + 1 /\ (w.summon_day # 0 => x + 2 <= w.summon_day)
  /\ w.away_summoned => w.summon_day # 0 /\ LeavesOn(w, w.summon_day)
  /\ w.summon_day # 0 /\ ~w.away_summoned => DayOf(w) <= w.summon_day
  /\ w.pencil_pending => w.summon_day # 0 /\ w.summon_cause # "kOnThePencil"

\* The world as the orders leave it to his hour.
Ordered(v, w) ==
  /\ IsWorld(w) /\ w.tick = v.tick + 1 /\ SameSummons(v, w) /\ w.events = {}
  /\ VillageRefused(w) /\ BargainRefused(w)
  /\ \/ /\ w.away_from_tick = v.away_from_tick /\ w.away_until_tick = v.away_until_tick
        /\ w.away_summoned = v.away_summoned /\ ~Booked(w)
     \/ BookedNow(v, w) /\ Booked(w)

\* The ends of a trip, on the clock.
LEMMA Ends ==
  ASSUME NEW w, NEW x \in Nat, LeavesOn(w, x)
  PROVE  /\ w.away_from_tick \in Nat /\ w.away_until_tick \in Nat
         /\ w.away_from_tick < w.away_until_tick
         /\ \A d \in Nat : /\ w.away_from_tick # TickAt(d, 0) /\ w.away_until_tick # TickAt(d, 0)
                           /\ x + 2 <= d => w.away_until_tick < TickAt(d, 0)
                           /\ TickAt(d, 0) <= w.away_until_tick => d <= x + 1
<1> DEFINE a == TickAt(x, depart_hour)
           b == TickAt(x, return_hour)
           c == TickAt(x + 1, depart_hour)
<1>1. a \in Nat /\ b \in Nat /\ c \in Nat /\ a < b /\ a < c
  <2>1. x + 1 \in Nat /\ x < x + 1
    OBVIOUS
  <2> QED BY <2>1, Ticks, Hours
<1>2. ASSUME NEW d \in Nat
      PROVE  /\ a # TickAt(d, 0) /\ b # TickAt(d, 0) /\ c # TickAt(d, 0) /\ TickAt(d, 0) \in Nat
             /\ x + 2 <= d => b < TickAt(d, 0) /\ c < TickAt(d, 0)
  <2>1. x + 1 \in Nat /\ (x + 2 <= d => x < d /\ x + 1 < d)
    OBVIOUS
  <2>2. a # TickAt(d, 0) /\ b # TickAt(d, 0) /\ c # TickAt(d, 0) /\ TickAt(d, 0) \in Nat
    BY <2>1, Ticks, Hours
  <2> QED BY <2>1, <2>2, Ticks, Hours
<1> HIDE DEF a, b, c
<1>3. w.away_from_tick = a /\ w.away_until_tick \in {b, c}
  BY DEF LeavesOn, a, b, c
<1>4. ASSUME NEW d \in Nat
      PROVE  /\ w.away_from_tick # TickAt(d, 0) /\ w.away_until_tick # TickAt(d, 0)
             /\ x + 2 <= d => w.away_until_tick < TickAt(d, 0)
             /\ TickAt(d, 0) <= w.away_until_tick => d <= x + 1
  <2>1. x + 2 <= d \/ d <= x + 1
    OBVIOUS
  <2> QED BY <1>1, <1>2, <1>3, <2>1
<1> QED BY <1>1, <1>3, <1>4

\* The orders bring a kept world to the next tick.
LEMMA OrderedReady ==
  ASSUME NEW v, NEW w, Kept(v), Ordered(v, w)
  PROVE  Ready(w)
<1>1. IsWorld(v) /\ IsWorld(w) /\ w.tick = v.tick + 1 /\ SameSummons(v, w)
  BY DEF Kept, Ordered
<1>2. /\ DayOf(v) \in Nat /\ DayOf(w) \in Nat
      /\ DayOf(w) = DayOf(v) \/ DayOf(w) = DayOf(v) + 1
  <2>1. v.tick \in Nat
    BY <1>1 DEF IsWorld
  <2> QED BY <1>1, <2>1, DayIs, NextHour
<1>3. CASE /\ w.away_from_tick = v.away_from_tick /\ w.away_until_tick = v.away_until_tick
           /\ w.away_summoned = v.away_summoned
  <2>1. ASSUME w.away_from_tick # 0, ~w.away_summoned
        PROVE  \E x \in Nat : /\ LeavesOn(w, x) /\ x <= DayOf(w) + 1
                              /\ (w.summon_day # 0 => x + 2 <= w.summon_day)
    <3>1. PICK x \in Nat : /\ LeavesOn(v, x) /\ x <= DayOf(v) + 1
                           /\ (v.summon_day # 0 => x + 2 <= v.summon_day)
      BY <1>3, <2>1 DEF Kept
    <3>2. LeavesOn(w, x)
      BY <1>3, <3>1 DEF LeavesOn
    <3>3. x <= DayOf(w) + 1
      BY <1>2, <3>1
    <3> QED BY <1>1, <3>1, <3>2, <3>3 DEF SameSummons
  <2>2. w.away_summoned => w.summon_day # 0 /\ LeavesOn(w, w.summon_day)
    BY <1>1, <1>3 DEF Kept, SameSummons, LeavesOn
  <2>3. w.away_from_tick # 0 => w.tick <= w.away_until_tick
    BY <1>1, <1>3 DEF Kept, IsWorld
  <2>4. w.summon_day # 0 /\ ~w.away_summoned => DayOf(w) <= w.summon_day
    <3>1. w.summon_day \in Nat
      BY <1>1 DEF IsWorld
    <3> QED BY <1>1, <1>2, <1>3, <3>1 DEF Kept, SameSummons
  <2> QED BY <1>1, <1>3, <2>1, <2>2, <2>3, <2>4 DEF Ready, Kept, SameSummons
<1>4. CASE BookedNow(v, w)
  <2>1. PICK x \in Nat : LeavesOn(w, x) /\ x <= DayOf(w) + 1
    BY <1>4 DEF BookedNow
  <2>2. w.away_from_tick < w.away_until_tick
    BY <2>1, Ends
  <2>3. w.summon_day = 0 /\ ~w.away_summoned /\ w.tick < w.away_from_tick
    BY <1>1, <1>4 DEF BookedNow, SameSummons
  <2>4. /\ w.tick \in Nat /\ w.away_from_tick \in Nat /\ w.away_until_tick \in Nat
        /\ ~w.pencil_pending
    BY <1>1, <2>3 DEF IsWorld, Kept, SameSummons
  <2>5. w.away_from_tick # 0 /\ w.tick <= w.away_until_tick
    BY <2>2, <2>3, <2>4
  <2> QED BY <1>1, <2>1, <2>3, <2>4, <2>5 DEF Ready
<1> QED BY <1>3, <1>4 DEF Ordered

\* At dawn nobody leaves or returns, and the morning of a summons finds no trip.
LEMMA DawnTrip ==
  ASSUME NEW w, Ready(w), Hour(w.tick) = 0
  PROVE  LET h == RunDistrictTrip(w) IN
         /\ Risen(w, h) /\ Kept(h)
         /\ ~SameHours(w, h) => w.away_from_tick = 0
<1> DEFINE h == SummonsMorning(w)
           d == DayOf(w)
<1>1. IsWorld(w) /\ d \in Nat /\ w.tick = TickAt(d, 0) /\ Dawn(w)
  <2>1. IsWorld(w) /\ w.tick \in Nat
    BY DEF Ready, IsWorld
  <2> QED BY <2>1, DayIs, Clock DEF Dawn, HourOf, Hour
<1>2. Risen(w, h)
  BY <1>1, MorningWorld
<1> HIDE DEF h
<1>3. ASSUME w.away_from_tick # 0
      PROVE  /\ w.tick # w.away_from_tick /\ w.tick < w.away_until_tick
             /\ ~w.away_summoned /\ w.summon_day # 0 => w.summon_day # d
  <2>1. w.tick <= w.away_until_tick /\ w.tick \in Nat /\ w.away_until_tick \in Nat
    BY <1>3, <1>1 DEF Ready, IsWorld
  <2>2. CASE w.away_summoned
    <3>1. w.summon_day \in Nat /\ LeavesOn(w, w.summon_day)
      BY <1>1, <2>2 DEF Ready, IsWorld
    <3>2. w.away_from_tick # w.tick /\ w.away_until_tick # w.tick
      BY <1>1, <3>1, Ends
    <3> QED BY <2>1, <2>2, <3>2
  <2>3. CASE ~w.away_summoned
    <3>1. PICK x \in Nat : LeavesOn(w, x) /\ (w.summon_day # 0 => x + 2 <= w.summon_day)
      BY <1>3, <2>3 DEF Ready
    <3>2. w.away_from_tick # w.tick /\ w.away_until_tick # w.tick /\ d <= x + 1
      BY <1>1, <2>1, <3>1, Ends
    <3>3. w.summon_day # 0 => w.summon_day # d
      BY <1>1, <3>1, <3>2 DEF IsWorld
    <3> QED BY <2>1, <3>2, <3>3
  <2> QED BY <2>2, <2>3
<1>4. DayOf(h) = d /\ h.tick = w.tick
  BY <1>2 DEF Risen, DayOf
<1>5. ASSUME SameHours(w, h), ~(w.summon_day # 0 /\ d = w.summon_day /\ ~w.away_summoned)
      PROVE  Kept(h) /\ (~SameHours(w, h) => w.away_from_tick = 0)
  <2>1. Kept(h)
    <3>1. ASSUME h.away_from_tick # 0, ~h.away_summoned
          PROVE  \E x \in Nat : /\ LeavesOn(h, x) /\ x <= DayOf(h) + 1
                                /\ (h.summon_day # 0 => x + 2 <= h.summon_day)
      <4>1. PICK x \in Nat : /\ LeavesOn(w, x) /\ x <= DayOf(w) + 1
                             /\ (w.summon_day # 0 => x + 2 <= w.summon_day)
        BY <1>5, <3>1 DEF SameHours, Ready
      <4>2. LeavesOn(h, x)
        BY <1>5, <4>1 DEF LeavesOn, SameHours
      <4> QED BY <1>2, <1>4, <4>1, <4>2 DEF Risen, SameSummons
    <3>2. h.away_summoned => h.summon_day # 0 /\ LeavesOn(h, h.summon_day)
      BY <1>2, <1>5 DEF Ready, Risen, SameSummons, SameHours, LeavesOn
    <3>3. h.summon_day # 0 /\ ~h.away_summoned => DayOf(h) < h.summon_day
      <4>1. w.summon_day \in Nat
        BY <1>1 DEF IsWorld
      <4> QED BY <1>1, <1>2, <1>4, <1>5, <4>1 DEF Ready, Risen, SameSummons, SameHours
    <3>4. h.pencil_pending => h.summon_day # 0 /\ h.summon_cause # "kOnThePencil"
      BY <1>2 DEF Ready, Risen, SameSummons
    <3>5. /\ h.away_from_tick = 0 => h.away_until_tick = 0 /\ ~h.away_summoned
          /\ h.away_from_tick # 0 => h.tick < h.away_until_tick
      BY <1>3, <1>5 DEF Ready, SameHours
    <3> QED BY <1>2, <3>1, <3>2, <3>3, <3>4, <3>5 DEF Kept, Risen
  <2> QED BY <1>5, <2>1
<1>6. ASSUME w.summon_day # 0, d = w.summon_day, ~w.away_summoned
      PROVE  Kept(h) /\ (~SameHours(w, h) => w.away_from_tick = 0)
  <2>1. w.away_from_tick = 0
    BY <1>3, <1>6
  <2>2. h.summon_day = d /\ h.away_summoned /\ LeavesOn(h, h.summon_day) /\ h.summon_day # 0
    BY <1>2, <1>6 DEF Risen, SameSummons, LeavesOn
  <2>3. h.away_from_tick # 0 /\ h.tick < h.away_until_tick
    <3>1. h.away_from_tick = TickAt(d, depart_hour) /\ h.away_until_tick = TickAt(d, return_hour)
      BY <1>2, <1>6 DEF Risen
    <3> QED BY <1>1, <1>4, <3>1, Ticks, Hours
  <2>4. h.pencil_pending => h.summon_day # 0 /\ h.summon_cause # "kOnThePencil"
    BY <1>2 DEF Ready, Risen, SameSummons
  <2>5. Kept(h)
    BY <1>2, <2>2, <2>3, <2>4 DEF Kept, Risen
  <2> QED BY <2>1, <2>5
<1>7. Kept(h) /\ (~SameHours(w, h) => w.away_from_tick = 0)
  BY <1>2, <1>5, <1>6 DEF Risen
<1>8. RunDistrictTrip(w) = h
  <2>1. ~(h.away_from_tick # 0 /\ h.tick = h.away_from_tick) /\ ~ReturnIsDue(h)
    <3>1. h.tick \in Nat /\ h.away_until_tick \in Nat /\ h.away_from_tick \in Nat
      BY <1>7 DEF Kept, IsWorld
    <3>2. h.away_from_tick # 0 => h.tick # h.away_from_tick
      <4>1. CASE h.away_summoned
        <5>1. h.summon_day \in Nat /\ LeavesOn(h, h.summon_day)
          BY <1>7, <4>1 DEF Kept, IsWorld
        <5> QED BY <1>1, <1>4, <5>1, Ends
      <4>2. CASE ~h.away_summoned
        <5> SUFFICES ASSUME h.away_from_tick # 0 PROVE h.tick # h.away_from_tick
          OBVIOUS
        <5>1. PICK x \in Nat : LeavesOn(h, x)
          BY <1>7, <4>2 DEF Kept
        <5> QED BY <1>1, <1>4, <5>1, Ends
      <4> QED BY <4>1, <4>2
    <3> QED BY <1>7, <3>1, <3>2 DEF Kept, ReturnIsDue
  <2> QED BY <1>1, <2>1 DEF RunDistrictTrip, h
<1> QED BY <1>2, <1>7, <1>8

\* At any other hour he leaves, is back, or stays as he is.
InHour(w, h) ==
  \/ w.away_from_tick # 0 /\ w.tick = w.away_from_tick /\ LeftAt(w, h)
  \/ /\ w.away_from_tick # 0 /\ w.away_from_tick < w.tick /\ w.away_until_tick = w.tick
     /\ Back(w, h)
  \/ h = w /\ (w.away_from_tick # 0 => w.tick # w.away_from_tick /\ w.tick < w.away_until_tick)

\* His hour does what InHour says.
LEMMA HourTrip ==
  ASSUME NEW w, Ready(w), Hour(w.tick) # 0
  PROVE  InHour(w, RunDistrictTrip(w))
<1>1. /\ IsWorld(w) /\ ~Dawn(w) /\ w.tick \in Nat /\ w.away_from_tick \in Nat
      /\ w.away_until_tick \in Nat
  BY DEF Ready, IsWorld, Dawn, HourOf, Hour
<1>2. w.away_from_tick # 0 => w.away_from_tick < w.away_until_tick
  <2>1. CASE w.away_summoned
    <3>1. w.summon_day \in Nat /\ LeavesOn(w, w.summon_day)
      BY <2>1 DEF Ready, IsWorld
    <3> QED BY <3>1, Ends
  <2>2. CASE ~w.away_summoned
    <3> SUFFICES ASSUME w.away_from_tick # 0 PROVE w.away_from_tick < w.away_until_tick
      OBVIOUS
    <3>1. PICK x \in Nat : LeavesOn(w, x)
      BY <2>2 DEF Ready
    <3> QED BY <3>1, Ends
  <2> QED BY <2>1, <2>2
<1>3. CASE w.away_from_tick # 0 /\ w.tick = w.away_from_tick
  <2>1. RunDistrictTrip(w) = Depart(w)
    BY <1>1, <1>3 DEF RunDistrictTrip
  <2>2. LeftAt(w, Depart(w))
    BY <1>1, DepartWorld DEF Ready
  <2> QED BY <1>3, <2>1, <2>2 DEF InHour
<1>4. CASE ~(w.away_from_tick # 0 /\ w.tick = w.away_from_tick) /\ ReturnIsDue(w)
  <2>1. RunDistrictTrip(w) = Return(w)
    BY <1>1, <1>4 DEF RunDistrictTrip
  <2>2. w.away_from_tick # 0 /\ w.away_from_tick < w.tick /\ w.away_until_tick = w.tick
    BY <1>1, <1>2, <1>4 DEF Ready, ReturnIsDue
  <2> QED BY <1>1, <2>1, <2>2, ReturnWorld DEF InHour
<1>5. CASE ~(w.away_from_tick # 0 /\ w.tick = w.away_from_tick) /\ ~ReturnIsDue(w)
  <2>1. RunDistrictTrip(w) = w
    BY <1>1, <1>5 DEF RunDistrictTrip
  <2>2. w.away_from_tick # 0 => w.tick # w.away_from_tick /\ w.tick < w.away_until_tick
    BY <1>1, <1>2, <1>5 DEF Ready, ReturnIsDue
  <2> QED BY <2>1, <2>2 DEF InHour
<1> QED BY <1>3, <1>4, <1>5

\* His hour ends what is due, so that the world is kept again.
LEMMA HourKept ==
  ASSUME NEW w, NEW h, Ready(w), Hour(w.tick) # 0, InHour(w, h),
         w.summon_day # 0 /\ ~w.away_summoned => DayOf(w) < w.summon_day
  PROVE  Kept(h)
<1> DEFINE d == DayOf(w)
<1>1. IsWorld(w) /\ d \in Nat /\ Hour(w.tick) \in AnHour /\ w.tick = TickAt(d, Hour(w.tick))
  <2>1. IsWorld(w) /\ w.tick \in Nat
    BY DEF Ready, IsWorld
  <2> QED BY <2>1, DayIs, Clock
<1>2. CASE w.away_from_tick # 0 /\ w.tick = w.away_from_tick /\ LeftAt(w, h)
  <2>1. IsWorld(h) /\ h.tick = w.tick /\ DayOf(h) = d
    BY <1>2 DEF LeftAt, DayOf
  <2>2. CASE Postponed(w, h)
    <3> DEFINE k == w.summon_day
    <3>1. k \in Nat /\ k # 0 /\ LeavesOn(w, k) /\ h.summon_day = k + 1 /\ h.away_summoned
      BY <1>1, <2>2 DEF Ready, IsWorld, Postponed
    <3>2. /\ TickAt(k, depart_hour) + kTicksPerDay = TickAt(k + 1, depart_hour)
          /\ TickAt(k, return_hour) + kTicksPerDay = TickAt(k + 1, return_hour)
          /\ TickAt(k + 1, depart_hour) + kTicksPerDay = TickAt(k + 2, depart_hour)
      <4>1. k + 1 \in Nat /\ (k + 1) + 1 = k + 2
        BY <3>1
      <4> QED BY <3>1, <4>1, Ticks, Hours, SMTT(30)
    <3>3. LeavesOn(h, k + 1)
      <4>1. (k + 1) + 1 = k + 2
        BY <3>1
      <4> QED BY <2>2, <3>1, <3>2, <4>1 DEF LeavesOn, Postponed
    <3>4. h.away_from_tick # 0 /\ h.tick < h.away_until_tick
      <4>1. h.away_from_tick < h.away_until_tick
        BY <3>1, <3>3, Ends
      <4>2. h.away_from_tick = w.tick + kTicksPerDay
        BY <1>2, <2>2 DEF Postponed
      <4> QED BY <1>1, <2>1, <4>1, <4>2, Hours, SMTT(30) DEF IsWorld
    <3>5. h.pencil_pending => h.summon_cause # "kOnThePencil"
      BY <1>2 DEF LeftAt, Ready
    <3> QED BY <2>1, <3>1, <3>3, <3>4, <3>5 DEF Kept
  <2>3. CASE CalledOff(w, h)
    BY <1>2, <2>1, <2>3 DEF Kept, CalledOff, LeftAt, Ready
  <2>4. CASE Gone(w, h)
    <3>1. h.tick = TickAt(d, depart_hour) /\ h.away_from_tick = h.tick
      <4>1. \E x \in Nat : LeavesOn(w, x)
        BY <1>1, <1>2 DEF Ready, IsWorld
      <4>2. PICK x \in Nat : w.away_from_tick = TickAt(x, depart_hour)
        BY <4>1 DEF LeavesOn
      <4>3. x = d
        BY <1>1, <1>2, <4>2, Ticks, Hours
      <4> QED BY <1>2, <2>1, <2>4, <4>2, <4>3 DEF Gone
    <3>2. \A x \in Nat : LeavesOn(w, x) => x = d /\ LeavesOn(h, x)
      <4> SUFFICES ASSUME NEW x \in Nat, LeavesOn(w, x) PROVE x = d /\ LeavesOn(h, x)
        OBVIOUS
      <4>1. TickAt(x, depart_hour) = TickAt(d, depart_hour)
        BY <1>2, <2>1, <3>1 DEF LeavesOn
      <4>2. x = d
        BY <1>1, <4>1, Ticks, Hours
      <4> QED BY <2>4, <4>2 DEF LeavesOn, Gone
    <3>3. h.away_from_tick # 0 /\ h.tick < h.away_until_tick
      <4>1. \E x \in Nat : LeavesOn(h, x)
        BY <1>1, <1>2, <3>2 DEF Ready, IsWorld
      <4> QED BY <1>2, <3>1, <4>1, <2>4, Ends DEF Gone
    <3>4. ASSUME ~h.away_summoned
          PROVE  \E x \in Nat : /\ LeavesOn(h, x) /\ x <= DayOf(h) + 1
                                /\ (h.summon_day # 0 => x + 2 <= h.summon_day)
      <4>1. PICK x \in Nat : /\ LeavesOn(w, x) /\ x <= DayOf(w) + 1
                             /\ (w.summon_day # 0 => x + 2 <= w.summon_day)
        BY <1>2, <2>4, <3>4 DEF Ready, Gone
      <4> QED BY <2>1, <2>4, <3>2, <4>1 DEF Gone
    <3>5. h.away_summoned => h.summon_day # 0 /\ LeavesOn(h, h.summon_day)
      BY <1>1, <2>4, <3>2 DEF Ready, Gone, IsWorld
    <3>6. h.pencil_pending => h.summon_day # 0 /\ h.summon_cause # "kOnThePencil"
      BY <1>2, <2>4 DEF LeftAt, Ready, Gone
    <3>7. h.summon_day # 0 /\ ~h.away_summoned => DayOf(h) < h.summon_day
      BY <2>1, <2>4 DEF Gone
    <3> QED BY <2>1, <3>3, <3>4, <3>5, <3>6, <3>7 DEF Kept
  <2> QED BY <1>2, <2>2, <2>3, <2>4 DEF LeftAt
<1>3. CASE Back(w, h)
  <2>1. IsWorld(h) /\ DayOf(h) = d /\ h.away_from_tick = 0 /\ h.away_until_tick = 0 /\ ~h.away_summoned
    BY <1>3 DEF Back, DayOf
  <2>2. CASE ~w.away_summoned /\ SameSummons(w, h)
    BY <2>1, <2>2 DEF Kept, Ready, SameSummons
  <2>3. CASE w.away_summoned /\ ~h.pencil_pending
    <3>1. h.summon_day = 0 \/ h.summon_day >= d + 3
      BY <1>3, <2>3 DEF Back, SameSummons
    <3>2. h.summon_day # 0 => d < h.summon_day
      BY <1>1, <2>1, <3>1 DEF IsWorld
    <3> QED BY <2>1, <2>3, <3>2 DEF Kept
  <2> QED BY <1>3, <2>2, <2>3 DEF Back
<1>4. CASE h = w /\ (w.away_from_tick # 0 => w.tick # w.away_from_tick /\ w.tick < w.away_until_tick)
  BY <1>4 DEF Kept, Ready
<1> QED BY <1>2, <1>3, <1>4 DEF InHour

\* A summons by the day leaves three days for a trip that stands.
LEMMA CalledKept ==
  ASSUME NEW w, NEW d, Kept(w), Called(w, d)
  PROVE  Kept(d)
<1>1. IsWorld(w) /\ IsWorld(d) /\ DayOf(d) = DayOf(w) /\ DayOf(w) \in Nat
  BY DayIs DEF Kept, Called, SameHours, DayOf
<1>2. ASSUME d.away_from_tick # 0, ~d.away_summoned
      PROVE  \E x \in Nat : LeavesOn(d, x) /\ x <= DayOf(d) + 1 /\ (d.summon_day # 0 => x + 2 <= d.summon_day)
  <2>1. PICK x \in Nat : LeavesOn(w, x) /\ x <= DayOf(w) + 1 /\ (w.summon_day # 0 => x + 2 <= w.summon_day)
    BY <1>2 DEF Kept, Called, SameHours
  <2>2. LeavesOn(d, x)
    BY <2>1 DEF LeavesOn, Called, SameHours
  <2>3. d.summon_day # 0 => x + 2 <= d.summon_day
    <3>1. d.summon_day \in Nat
      BY <1>1 DEF IsWorld
    <3> QED BY <1>1, <2>1, <3>1 DEF Called, SameSummons
  <2> QED BY <1>1, <2>1, <2>2, <2>3
<1>3. d.away_summoned => d.summon_day # 0 /\ LeavesOn(d, d.summon_day)
  BY DEF Kept, Called, SameHours, SameSummons, LeavesOn
<1>4. d.summon_day # 0 /\ ~d.away_summoned => DayOf(d) < d.summon_day
  <2>1. d.summon_day \in Nat
    BY <1>1 DEF IsWorld
  <2> QED BY <1>1, <2>1 DEF Kept, Called, SameHours, SameSummons
<1>5. d.pencil_pending => d.summon_day # 0 /\ d.summon_cause # "kOnThePencil"
  BY DEF Kept, Called, SameSummons
<1>6. /\ d.away_from_tick = 0 => d.away_until_tick = 0 /\ ~d.away_summoned
      /\ d.away_from_tick # 0 => d.tick < d.away_until_tick
  BY DEF Kept, Called, SameHours
<1> QED BY <1>1, <1>2, <1>3, <1>4, <1>5, <1>6 DEF Kept

\* So does a summons for the pencil.
LEMMA AskedKept ==
  ASSUME NEW v, NEW d, NEW p, Kept(d), Asked(v, d, p)
  PROVE  Kept(p)
<1>1. IsWorld(d) /\ IsWorld(p) /\ DayOf(d) = DayOf(p) /\ DayOf(d) \in Nat
  BY DayIs DEF Kept, Asked, SameHours, DayOf
<1>2. /\ p.summon_day = d.summon_day \/ (d.summon_day = 0 /\ p.summon_day >= DayOf(d) + 3)
      /\ p.pencil_pending => p.summon_day # 0 /\ p.summon_cause # "kOnThePencil"
  BY DEF Kept, Asked, SameSummons
<1>3. p.summon_day \in Nat
  BY <1>1 DEF IsWorld
<1>4. ASSUME p.away_from_tick # 0, ~p.away_summoned
      PROVE  \E x \in Nat : LeavesOn(p, x) /\ x <= DayOf(p) + 1 /\ (p.summon_day # 0 => x + 2 <= p.summon_day)
  <2>1. PICK x \in Nat : LeavesOn(d, x) /\ x <= DayOf(d) + 1 /\ (d.summon_day # 0 => x + 2 <= d.summon_day)
    BY <1>4 DEF Kept, Asked, SameHours
  <2>2. LeavesOn(p, x)
    BY <2>1 DEF LeavesOn, Asked, SameHours
  <2> QED BY <1>1, <1>2, <1>3, <2>1, <2>2
<1>5. p.away_summoned => p.summon_day # 0 /\ LeavesOn(p, p.summon_day)
  BY <1>2 DEF Kept, Asked, SameHours, LeavesOn
<1>6. p.summon_day # 0 /\ ~p.away_summoned => DayOf(p) < p.summon_day
  BY <1>1, <1>2, <1>3 DEF Kept, Asked, SameHours
<1>7. /\ p.away_from_tick = 0 => p.away_until_tick = 0 /\ ~p.away_summoned
      /\ p.away_from_tick # 0 => p.tick < p.away_until_tick
  BY DEF Kept, Asked, SameHours
<1> QED BY <1>1, <1>2, <1>4, <1>5, <1>6, <1>7 DEF Kept

-----------------------------------------------------------------------------
(* The step.                                                               *)

OrderedOf(v, kinds, chance) ==
  ConsumeProductionOrders(Lived(v, kinds, chance), Open(Gated(v, kinds, chance), kinds))
TripOf(v, kinds, chance) == RunDistrictTrip(OrderedOf(v, kinds, chance))
DawnOf(v, kinds, chance) ==
  IF Dawn(Lived(v, kinds, chance)) THEN RunDay(TripOf(v, kinds, chance), chance)
  ELSE TripOf(v, kinds, chance)

\* The step, by its parts.
LEMMA StepIs ==
  ASSUME NEW v, NEW kinds, NEW chance
  PROVE  StepOf(v, kinds, chance) = SummonOnThePencil(v, DawnOf(v, kinds, chance))
BY DEF StepOf, RunProductionDecisions, DawnOf, TripOf, OrderedOf, Lived, Gated, Begun

\* A step from v to p, by the world b the orders leave, h after his hour and d
\* after the dawn's visits.
Stepped(v, b, h, d, p) ==
  /\ Kept(v) /\ Ordered(v, b) /\ Ready(b)
  /\ IF Hour(b.tick) = 0
     THEN /\ Risen(b, h) /\ (~SameHours(b, h) => b.away_from_tick = 0)
          /\ Called(h, d) /\ (AwayToday(h) => NoVisit(h, d))
     ELSE InHour(b, h) /\ d = h /\ b.weather = v.weather
  /\ Asked(v, d, p)
  /\ Kept(h) /\ Kept(d) /\ Kept(p)

\* Every step the model takes is of that form.
LEMMA StepParts ==
  ASSUME NEW v, Kept(v), NEW kinds, NEW chance \in Chances(v)
  PROVE  \E b, h, d : Stepped(v, b, h, d, StepOf(v, kinds, chance))
<1> DEFINE l == Lived(v, kinds, chance)
           b == OrderedOf(v, kinds, chance)
           h == TripOf(v, kinds, chance)
           d == DawnOf(v, kinds, chance)
           p == StepOf(v, kinds, chance)
<1>1. IsWorld(v) /\ v.tick \in Nat
  BY DEF Kept, IsWorld
<1>2. /\ chance.weather \in Weather /\ chance.year \in {"kNone", "kMet", "kFailed"}
      /\ Hour(v.tick + 1) # 0 => chance.weather = v.weather
  BY <1>1 DEF Chances, IsWorld, Hour
<1>3. /\ IsWorld(l) /\ TickLater(v, l, chance.weather) /\ l.events = {} /\ VillageRefused(l)
      /\ \A answer \in l.answers :
           /\ answer.kind # "kTradePlan"
           /\ answer.kind = "kTripToDistrict" => answer.refusal # "kNone"
  BY <1>1, <1>2, LivedWorld
<1>4. b = ConsumeProductionOrders(l, Open(Gated(v, kinds, chance), kinds))
  BY DEF OrderedOf
<1> HIDE DEF l
<1>5. Consumed(l, b)
  <2> HIDE DEF b
  <2> QED BY <1>3, <1>4, ConsumedWorld
<1> HIDE DEF b
<1>6. Ordered(v, b) /\ b.weather = chance.weather /\ b.tick = v.tick + 1
  <2>1. /\ IsWorld(b) /\ b.tick = v.tick + 1 /\ SameSummons(v, b) /\ b.events = {}
        /\ VillageRefused(b) /\ BargainRefused(b) /\ b.weather = chance.weather
    BY <1>3, <1>5 DEF Consumed, TickLater, SameSummons
  <2>2. \/ /\ b.away_from_tick = v.away_from_tick /\ b.away_until_tick = v.away_until_tick
           /\ b.away_summoned = v.away_summoned /\ ~Booked(b)
        \/ BookedNow(v, b) /\ Booked(b)
    BY <1>3, <1>5 DEF Consumed, TickLater, SameHours, BookedNow, SameSummons
  <2> QED BY <2>1, <2>2 DEF Ordered
<1>7. Ready(b)
  BY <1>6, OrderedReady
<1>8. h = RunDistrictTrip(b)
  BY DEF TripOf, b
<1>9. d = IF Hour(b.tick) = 0 THEN RunDay(h, chance) ELSE h
  <2>1. Dawn(l) <=> Hour(b.tick) = 0
    BY <1>3, <1>6 DEF TickLater, Dawn, HourOf, Hour
  <2>2. d = IF Dawn(l) THEN RunDay(h, chance) ELSE h
    BY DEF DawnOf, l
  <2> HIDE DEF d
  <2> QED BY <2>1, <2>2
<1>10. p = SummonOnThePencil(v, d)
  BY StepIs
<1> HIDE DEF h, d, p
<1>11. CASE Hour(b.tick) = 0
  <2>1. Risen(b, h) /\ Kept(h) /\ (~SameHours(b, h) => b.away_from_tick = 0)
    BY <1>7, <1>8, <1>11, DawnTrip
  <2>2. IsWorld(h)
    BY <2>1 DEF Kept
  <2>3. Called(h, d) /\ (AwayToday(h) => NoVisit(h, d))
    BY <1>2, <1>9, <1>11, <2>2, DayWorld
  <2>4. Kept(d)
    BY <2>1, <2>3, CalledKept
  <2>5. Asked(v, d, p)
    BY <1>10, <2>4, AskedWorld DEF Kept
  <2>6. Kept(p)
    BY <2>4, <2>5, AskedKept
  <2>7. Stepped(v, b, h, d, p)
    BY <1>6, <1>7, <1>11, <2>1, <2>3, <2>4, <2>5, <2>6 DEF Stepped, Kept
  <2> QED BY <2>7 DEF p
<1>12. CASE Hour(b.tick) # 0
  <2>1. InHour(b, h)
    BY <1>7, <1>8, <1>12, HourTrip
  <2>2. b.summon_day # 0 /\ ~b.away_summoned => DayOf(b) < b.summon_day
    <3>1. DayOf(b) = DayOf(v)
      <4>1. Day(b.tick) = Day(v.tick)
        BY <1>1, <1>6, <1>12, NextHour
      <4> QED BY <4>1 DEF DayOf, Day
    <3>2. b.summon_day = v.summon_day /\ (b.summon_day # 0 => b.away_summoned = v.away_summoned)
      BY <1>6 DEF Ordered, SameSummons, BookedNow
    <3> QED BY <3>1, <3>2 DEF Kept
  <2>3. Kept(h)
    BY <1>7, <1>12, <2>1, <2>2, HourKept
  <2>4. d = h
    BY <1>9, <1>12
  <2>5. Asked(v, d, p)
    BY <1>10, <2>3, <2>4, AskedWorld DEF Kept
  <2>6. Kept(p)
    BY <2>3, <2>4, <2>5, AskedKept
  <2>7. b.weather = v.weather
    BY <1>2, <1>6, <1>12
  <2>8. Stepped(v, b, h, d, p)
    BY <1>6, <1>7, <1>12, <2>1, <2>3, <2>4, <2>5, <2>6, <2>7 DEF Stepped, Kept
  <2> QED BY <2>8 DEF p
<1> QED BY <1>11, <1>12

-----------------------------------------------------------------------------
(* What a step may do with him.                                            *)

\* He has left by his ticks.
Where(w) == w.away_from_tick # 0 /\ w.away_from_tick <= w.tick

\* The history of a step from a state in which he is abroad or not.
AbroadAfter(abr, w) == Departed(w) \/ (abr /\ ~Returned(w))

\* What the clocks of a step's worlds are.
LEMMA StepClock ==
  ASSUME NEW v, NEW b, NEW h, NEW d, NEW p, Stepped(v, b, h, d, p)
  PROVE  /\ v.tick \in Nat /\ p.tick = v.tick + 1 /\ b.tick = p.tick /\ h.tick = p.tick
         /\ v.away_from_tick \in Nat /\ v.away_until_tick \in Nat
         /\ b.away_from_tick \in Nat /\ b.away_until_tick \in Nat
         /\ h.away_from_tick \in Nat
         /\ SameHours(h, p)
         /\ DayOf(p) \in Nat /\ DayOf(b) = DayOf(p) /\ DayOf(h) = DayOf(p)
         /\ Hour(p.tick) \in AnHour /\ p.tick = TickAt(DayOf(p), Hour(p.tick))
<1>1. IsWorld(v) /\ IsWorld(b) /\ IsWorld(h) /\ IsWorld(p)
  BY DEF Stepped, Kept, Ready
<1>2. /\ v.tick \in Nat /\ v.away_from_tick \in Nat /\ v.away_until_tick \in Nat
      /\ b.away_from_tick \in Nat /\ b.away_until_tick \in Nat /\ h.away_from_tick \in Nat
      /\ p.tick \in Nat
  BY <1>1 DEF IsWorld
<1>3. SameHours(h, p) /\ b.tick = v.tick + 1 /\ h.tick = b.tick
  <2>1. SameHours(d, p) /\ b.tick = v.tick + 1
    BY DEF Stepped, Asked, Ordered
  <2>2. CASE Hour(b.tick) = 0
    BY <2>1, <2>2 DEF Stepped, Risen, Called, SameHours
  <2>3. CASE Hour(b.tick) # 0
    BY <2>1, <2>3 DEF Stepped, InHour, LeftAt, Back, SameHours
  <2> QED BY <2>1, <2>2, <2>3
<1>4. /\ DayOf(p) \in Nat /\ Hour(p.tick) \in AnHour /\ p.tick = TickAt(DayOf(p), Hour(p.tick))
  BY <1>1, <1>2, DayIs, Clock
<1> QED BY <1>1, <1>2, <1>3, <1>4 DEF SameHours, DayOf

\* The events of a step that say where he is are those of his hour.
LEMMA StepEvents ==
  ASSUME NEW v, NEW b, NEW h, NEW d, NEW p, Stepped(v, b, h, d, p)
  PROVE  /\ p.answers = b.answers
         /\ \A e : e \notin Told => (e \in p.events <=> e \in h.events)
         /\ Hour(b.tick) = 0 => h.events \subseteq {"kSummonLetter"}
         /\ Hour(b.tick) # 0 => d = h /\ p.events = h.events
<1>1. b.events = {} /\ p.events = d.events /\ p.answers = d.answers
  BY DEF Stepped, Ordered, Asked, SameSaid
<1>2. CASE Hour(b.tick) = 0
  BY <1>1, <1>2 DEF Stepped, Risen, Called
<1>3. CASE Hour(b.tick) # 0
  BY <1>1, <1>3 DEF Stepped, InHour, LeftAt, Back
<1> QED BY <1>2, <1>3

\* A trip's end is not at dawn.
LEMMA NotAtDawn ==
  ASSUME NEW w, Kept(w) \/ Ready(w), w.away_from_tick # 0, NEW d \in Nat
  PROVE  /\ w.away_from_tick # TickAt(d, 0) /\ w.away_until_tick # TickAt(d, 0)
         /\ w.away_from_tick < w.away_until_tick
<1>1. CASE w.away_summoned
  <2>1. w.summon_day \in Nat /\ LeavesOn(w, w.summon_day)
    BY <1>1 DEF Kept, Ready, IsWorld
  <2> QED BY <2>1, Ends
<1>2. CASE ~w.away_summoned
  <2>1. PICK x \in Nat : LeavesOn(w, x)
    BY <1>2 DEF Kept, Ready
  <2> QED BY <2>1, Ends
<1> QED BY <1>1, <1>2

\* What his hour may be at another hour than dawn, with the events that say it.
LEMMA HourCases ==
  ASSUME NEW v, NEW b, NEW h, NEW d, NEW p, Stepped(v, b, h, d, p), Hour(b.tick) # 0
  PROVE  \/ /\ b.away_from_tick # 0 /\ p.tick = b.away_from_tick
            /\ WeatherHoldsDeparture(b) /\ (Postponed(b, h) \/ CalledOff(b, h))
            /\ ~Departed(p) /\ ~Returned(p)
         \/ /\ b.away_from_tick # 0 /\ p.tick = b.away_from_tick
            /\ ~WeatherHoldsDeparture(b) /\ Gone(b, h)
            /\ Departed(p) /\ ~Returned(p)
         \/ /\ b.away_from_tick # 0 /\ b.away_from_tick < p.tick /\ b.away_until_tick = p.tick
            /\ Back(b, h) /\ ~Departed(p) /\ Returned(p)
         \/ /\ h = b /\ (b.away_from_tick # 0 => p.tick # b.away_from_tick /\ p.tick < b.away_until_tick)
            /\ ~Departed(p) /\ ~Returned(p)
<1>1. /\ p.tick = b.tick /\ b.events = {} /\ p.events = h.events /\ InHour(b, h)
  BY StepClock, StepEvents DEF Stepped, Ordered
<1>2. Departed(p) <=> "kTripDeparted" \in h.events
  BY <1>1 DEF Departed
<1>3. Returned(p) <=> "kTripReturned" \in h.events
  BY <1>1 DEF Returned
<1>4. CASE b.away_from_tick # 0 /\ b.tick = b.away_from_tick /\ LeftAt(b, h)
  BY <1>1, <1>2, <1>3, <1>4 DEF LeftAt, Postponed, CalledOff, Gone
<1>5. CASE /\ b.away_from_tick # 0 /\ b.away_from_tick < b.tick /\ b.away_until_tick = b.tick
           /\ Back(b, h)
  BY <1>1, <1>2, <1>3, <1>5 DEF Back
<1>6. CASE h = b /\ (b.away_from_tick # 0 => b.tick # b.away_from_tick /\ b.tick < b.away_until_tick)
  BY <1>1, <1>2, <1>3, <1>6
<1> QED BY <1>1, <1>4, <1>5, <1>6 DEF InHour

\* What the orders do to his hours: nothing, or a trip that is still to come.
LEMMA OrderCases ==
  ASSUME NEW v, NEW b, NEW h, NEW d, NEW p, Stepped(v, b, h, d, p)
  PROVE  \/ /\ b.away_from_tick = v.away_from_tick /\ b.away_until_tick = v.away_until_tick
            /\ b.away_summoned = v.away_summoned /\ ~Booked(p)
         \/ /\ v.away_from_tick = 0 /\ v.summon_day = 0 /\ b.summon_day = 0
            /\ b.away_from_tick # 0 /\ p.tick < b.away_from_tick /\ ~b.away_summoned
            /\ Booked(p)
<1>1. Booked(p) <=> Booked(b)
  BY StepEvents DEF Booked
<1>2. Ordered(v, b) /\ b.tick = p.tick /\ p.tick \in Nat /\ b.away_from_tick \in Nat
  <2>1. Ordered(v, b)
    BY DEF Stepped
  <2>2. b.tick = p.tick /\ p.tick = v.tick + 1 /\ v.tick \in Nat /\ b.away_from_tick \in Nat
    BY StepClock
  <2> QED BY <2>1, <2>2
<1>3. BookedNow(v, b) => /\ v.away_from_tick = 0 /\ v.summon_day = 0 /\ ~b.away_summoned
                         /\ p.tick < b.away_from_tick
  BY <1>2 DEF BookedNow
<1>4. p.tick < b.away_from_tick => b.away_from_tick # 0
  BY <1>2
<1>5. b.summon_day = v.summon_day
  BY <1>2 DEF Ordered, SameSummons
<1>6. \/ /\ b.away_from_tick = v.away_from_tick /\ b.away_until_tick = v.away_until_tick
         /\ b.away_summoned = v.away_summoned /\ ~Booked(b)
      \/ BookedNow(v, b) /\ Booked(b)
  BY <1>2 DEF Ordered
<1> QED BY <1>1, <1>3, <1>4, <1>5, <1>6

\* His ticks and the history agree after the step if they did before it.
LEMMA AbroadStep ==
  ASSUME NEW v, NEW b, NEW h, NEW d, NEW p, Stepped(v, b, h, d, p)
  PROVE  AbroadAfter(Where(v), p) <=> Where(p)
<1>1. /\ v.tick \in Nat /\ p.tick = v.tick + 1 /\ b.tick = p.tick
      /\ v.away_from_tick \in Nat /\ b.away_from_tick \in Nat /\ h.away_from_tick \in Nat
      /\ p.away_from_tick = h.away_from_tick
  BY StepClock DEF SameHours
<1>2. CASE Hour(b.tick) = 0
  <2>1. ~Departed(p) /\ ~Returned(p)
    BY <1>2, StepEvents DEF Departed, Returned, Told
  <2>2. p.tick = TickAt(DayOf(p), 0) /\ DayOf(p) \in Nat
    BY <1>1, <1>2, StepClock
  <2>3. h.away_from_tick # p.tick
    <3> SUFFICES ASSUME h.away_from_tick # 0 PROVE h.away_from_tick # p.tick
      BY <1>1
    <3>1. Kept(h)
      BY DEF Stepped
    <3> QED BY <2>2, <3>1, NotAtDawn
  <2>4. CASE SameHours(b, h)
    <3>1. h.away_from_tick = b.away_from_tick
      BY <2>4 DEF SameHours
    <3> QED BY <1>1, <2>1, <2>3, <3>1, OrderCases DEF AbroadAfter, Where
  <2>5. CASE ~SameHours(b, h)
    <3>1. b.away_from_tick = 0
      BY <1>2, <2>5 DEF Stepped
    <3>2. v.away_from_tick = 0
      BY <1>1, <3>1, OrderCases
    <3>3. p.tick < h.away_from_tick
      <4>1. h.away_from_tick = TickAt(b.summon_day, depart_hour) /\ DayOf(b) = b.summon_day
        BY <1>2, <2>5 DEF Stepped, Risen
      <4>2. DayOf(b) = DayOf(p)
        BY StepClock
      <4> QED BY <2>2, <4>1, <4>2, Ticks, Hours
    <3> QED BY <1>1, <2>1, <3>2, <3>3 DEF AbroadAfter, Where
  <2> QED BY <2>4, <2>5
<1>3. CASE Hour(b.tick) # 0
  <2>1. CASE /\ b.away_from_tick # 0 /\ p.tick = b.away_from_tick
             /\ Postponed(b, h) \/ CalledOff(b, h)
             /\ ~Departed(p) /\ ~Returned(p)
    <3>1. ~Where(v)
      BY <1>1, <2>1, OrderCases DEF Where
    <3>2. ~Where(p)
      BY <1>1, <2>1, Hours DEF Where, Postponed, CalledOff
    <3> QED BY <2>1, <3>1, <3>2 DEF AbroadAfter
  <2>2. CASE b.away_from_tick # 0 /\ p.tick = b.away_from_tick /\ Gone(b, h) /\ Departed(p)
    BY <1>1, <2>2 DEF AbroadAfter, Where, Gone
  <2>3. CASE Back(b, h) /\ ~Departed(p) /\ Returned(p)
    BY <1>1, <2>3 DEF AbroadAfter, Where, Back
  <2>4. CASE /\ h = b /\ (b.away_from_tick # 0 => p.tick # b.away_from_tick)
             /\ ~Departed(p) /\ ~Returned(p)
    BY <1>1, <2>4, OrderCases DEF AbroadAfter, Where
  <2> QED BY <1>3, <2>1, <2>2, <2>3, <2>4, HourCases
<1> QED BY <1>2, <1>3

\* The gate, which runs before his hour is known, asks for exactly the ticks
\* that he is away in.
LEMMA GateStep ==
  ASSUME NEW v, NEW b, NEW h, NEW d, NEW p, Stepped(v, b, h, d, p)
  PROVE  ChairmanAway(b) <=> Where(v) \/ AbroadAfter(Where(v), p)
<1>1. /\ v.tick \in Nat /\ p.tick = v.tick + 1 /\ b.tick = p.tick
      /\ v.away_from_tick \in Nat /\ v.away_until_tick \in Nat
      /\ b.away_from_tick \in Nat /\ b.away_until_tick \in Nat
  BY StepClock
<1>2. Where(v) => v.tick < v.away_until_tick
  BY DEF Stepped, Kept, Where
<1>3. Where(v) => ChairmanAway(b)
  BY <1>1, <1>2, OrderCases DEF Where, ChairmanAway
<1>4. Departed(p) => ChairmanAway(b)
  <2> SUFFICES ASSUME Departed(p) PROVE ChairmanAway(b)
    OBVIOUS
  <2>1. Hour(b.tick) # 0
    BY StepEvents DEF Departed, Told
  <2>2. b.away_from_tick # 0 /\ p.tick = b.away_from_tick /\ ~WeatherHoldsDeparture(b)
    BY <2>1, HourCases
  <2>3. Ready(b)
    BY DEF Stepped
  <2>4. b.tick <= b.away_until_tick
    BY <2>2, <2>3 DEF Ready
  <2> QED BY <1>1, <2>2, <2>4 DEF ChairmanAway
<1>5. ASSUME ChairmanAway(b), ~Where(v) PROVE Departed(p)
  <2>1. b.away_from_tick # 0 /\ b.away_from_tick = b.tick /\ ~WeatherHoldsDeparture(b)
    BY <1>1, <1>5, OrderCases DEF ChairmanAway, Where
  <2>2. Hour(b.tick) # 0
    <3> SUFFICES ASSUME Hour(b.tick) = 0 PROVE FALSE
      OBVIOUS
    <3>1. b.tick = TickAt(DayOf(p), 0) /\ DayOf(p) \in Nat
      BY <1>1, StepClock
    <3>2. Ready(b)
      BY DEF Stepped
    <3> QED BY <2>1, <3>1, <3>2, NotAtDawn
  <2> QED BY <1>1, <2>1, <2>2, HourCases
<1> QED BY <1>3, <1>4, <1>5 DEF AbroadAfter

\* What comes of a summons that stands, by the step's hour.
Obeyed(v, p) == v.away_summoned /\ Where(v) /\ ~Where(p)

PutOff(v, h, p) ==
  /\ h.summon_day = v.summon_day + 1 /\ h.summon_cause = v.summon_cause
  /\ p.weather = "blizzard" /\ p.tick = TickAt(v.summon_day, depart_hour)
  /\ "kSummonPostponed" \in p.events

\* A summons stands, is put off by a blizzard, or was obeyed and is over.
LEMMA SummonsFate ==
  ASSUME NEW v, NEW b, NEW h, NEW d, NEW p, Stepped(v, b, h, d, p), v.summon_day # 0
  PROVE  \/ SameSummons(v, h)
         \/ PutOff(v, h, p) /\ h.pencil_pending = v.pencil_pending
         \/ /\ Obeyed(v, p) /\ d = h /\ ~h.pencil_pending
            /\ h.raikom_reputation = b.raikom_reputation
            /\ h.summon_day # 0 => h.summon_cause = "kOnThePencil"
            /\ v.pencil_pending /\ OnThePencil(h) => h.summon_day # 0
<1>1. SameSummons(v, b) /\ IsWorld(b)
  BY DEF Stepped, Ordered
<1>2. /\ v.tick \in Nat /\ p.tick = v.tick + 1 /\ b.tick = p.tick /\ SameHours(h, p)
      /\ v.away_from_tick \in Nat /\ b.away_from_tick \in Nat
  BY StepClock
<1>3. /\ b.away_from_tick = v.away_from_tick /\ b.away_until_tick = v.away_until_tick
      /\ b.away_summoned = v.away_summoned
  BY OrderCases
<1>4. CASE Hour(b.tick) = 0
  <2>1. SameSummons(b, h)
    BY <1>4 DEF Stepped, Risen
  <2> QED BY <1>1, <2>1 DEF SameSummons
<1>5. CASE Hour(b.tick) # 0
  <2>1. InHour(b, h) /\ d = h /\ p.events = h.events
    <3>1. InHour(b, h) /\ d = h
      BY <1>5 DEF Stepped
    <3> QED BY <1>5, <3>1, StepEvents
  <2>2. CASE b.away_from_tick # 0 /\ b.tick = b.away_from_tick /\ LeftAt(b, h)
    <3>1. h.weather = b.weather /\ h.summon_cause = b.summon_cause /\ h.pencil_pending = b.pencil_pending
      BY <2>2 DEF LeftAt
    <3>2. CASE WeatherHoldsDeparture(b) /\ Postponed(b, h)
      <4>1. Ready(b)
        BY DEF Stepped
      <4>2. LeavesOn(b, b.summon_day)
        BY <3>2, <4>1 DEF Ready, Postponed
      <4>3. p.tick = TickAt(v.summon_day, depart_hour)
        BY <1>1, <1>2, <2>2, <4>2 DEF LeavesOn, SameSummons
      <4>4. p.weather = "blizzard" /\ "kSummonPostponed" \in p.events
        BY <1>2, <2>1, <3>1, <3>2 DEF SameHours, WeatherHoldsDeparture, Postponed
      <4> QED BY <1>1, <3>1, <3>2, <4>3, <4>4 DEF PutOff, Postponed, SameSummons
    <3>3. CASE CalledOff(b, h) \/ Gone(b, h)
      BY <1>1, <3>1, <3>3 DEF SameSummons, CalledOff, Gone
    <3> QED BY <2>2, <3>2, <3>3 DEF LeftAt
  <2>3. CASE b.away_from_tick # 0 /\ b.away_from_tick < b.tick /\ Back(b, h)
    <3>1. CASE ~b.away_summoned /\ SameSummons(b, h)
      BY <1>1, <3>1 DEF SameSummons
    <3>2. CASE b.away_summoned
      <4>1. Obeyed(v, p)
        BY <1>2, <1>3, <2>3, <3>2 DEF Obeyed, Where, Back, SameHours
      <4>2. ~h.pencil_pending /\ h.raikom_reputation = b.raikom_reputation
        BY <2>3, <3>2 DEF Back
      <4>3. OnThePencil(h) <=> OnThePencil(b)
        BY <4>2 DEF OnThePencil
      <4>4. h.summon_day # 0 => h.summon_cause = "kOnThePencil"
        BY <2>3, <3>2 DEF Back
      <4>5. ASSUME v.pencil_pending, OnThePencil(h) PROVE h.summon_day # 0
        <5>1. h.summon_day >= DayOf(b) + 3 /\ h.summon_cause = "kOnThePencil"
          BY <1>1, <2>3, <3>2, <4>3, <4>5 DEF Back, SameSummons
        <5>2. DayOf(b) \in Nat
          BY <1>1, DayIs
        <5> QED BY <5>1, <5>2
      <4> QED BY <2>1, <4>1, <4>2, <4>4, <4>5
    <3> QED BY <2>3, <3>1, <3>2 DEF Back
  <2>4. CASE h = b
    BY <1>1, <2>4
  <2> QED BY <2>1, <2>2, <2>3, <2>4 DEF InHour
<1> QED BY <1>4, <1>5

\* The day's visits and a crossing of the line leave a summons that stands.
LEMMA SummonsStands ==
  ASSUME NEW v, NEW b, NEW h, NEW d, NEW p, Stepped(v, b, h, d, p), h.summon_day # 0
  PROVE  /\ SameSummons(h, d)
         /\ p.summon_day = h.summon_day /\ p.summon_cause = h.summon_cause
         /\ d.pencil_pending => p.pencil_pending
<1>1. SameSummons(h, d)
  <2>1. CASE Hour(b.tick) = 0
    BY <2>1 DEF Stepped, Called
  <2>2. CASE Hour(b.tick) # 0
    BY <2>2 DEF Stepped, SameSummons
  <2> QED BY <2>1, <2>2
<1>2. Asked(v, d, p)
  BY DEF Stepped
<1>3. IsWorld(d) /\ IsWorld(p)
  BY DEF Stepped, Kept
<1> QED BY <1>1, <1>2, <1>3 DEF Asked, SameSummons, IsWorld

\* The two conjuncts of SummonsKept, of a step from v to p.
LEMMA SummonsStep ==
  ASSUME NEW v, NEW b, NEW h, NEW d, NEW p, Stepped(v, b, h, d, p)
  PROVE  /\ p.summon_day # 0 /\ p.tick >= TickAt(p.summon_day, depart_hour) => Where(p) /\ p.away_summoned
         /\ v.summon_day # 0 =>
              \/ Obeyed(v, p)
              \/ /\ p.summon_cause = v.summon_cause
                 /\ \/ p.summon_day = v.summon_day
                    \/ /\ p.weather = "blizzard" /\ p.tick = TickAt(v.summon_day, depart_hour)
                       /\ p.summon_day = v.summon_day + 1
<1>1. ASSUME p.summon_day # 0, p.tick >= TickAt(p.summon_day, depart_hour)
      PROVE  Where(p) /\ p.away_summoned
  <2>1. Kept(p) /\ IsWorld(p) /\ p.summon_day \in Nat /\ p.tick \in Nat
    BY DEF Stepped, Kept, IsWorld
  <2>2. /\ DayOf(p) \in Nat /\ Hour(p.tick) \in AnHour /\ p.tick = TickAt(DayOf(p), Hour(p.tick))
    BY StepClock
  <2>3. p.away_summoned
    <3> SUFFICES ASSUME ~p.away_summoned PROVE FALSE
      OBVIOUS
    <3>1. DayOf(p) < p.summon_day
      BY <1>1, <2>1 DEF Kept
    <3>2. p.tick < TickAt(p.summon_day, depart_hour) /\ TickAt(p.summon_day, depart_hour) \in Nat
      BY <2>1, <2>2, <3>1, Ticks, Hours
    <3> QED BY <1>1, <2>1, <3>2
  <2>4. LeavesOn(p, p.summon_day) /\ p.away_from_tick # 0
    BY <2>1, <2>3 DEF Kept
  <2>5. p.away_from_tick <= p.tick
    BY <1>1, <2>1, <2>4 DEF LeavesOn
  <2> QED BY <2>3, <2>4, <2>5 DEF Where
<1>2. ASSUME v.summon_day # 0, ~Obeyed(v, p)
      PROVE  /\ p.summon_cause = v.summon_cause
             /\ \/ p.summon_day = v.summon_day
                \/ /\ p.weather = "blizzard" /\ p.tick = TickAt(v.summon_day, depart_hour)
                   /\ p.summon_day = v.summon_day + 1
  <2>1. v.summon_day \in Nat
    BY DEF Stepped, Kept, IsWorld
  <2>2. CASE SameSummons(v, h)
    <3>1. h.summon_day # 0
      BY <1>2, <2>2 DEF SameSummons
    <3> QED BY <2>2, <3>1, SummonsStands DEF SameSummons
  <2>3. CASE PutOff(v, h, p)
    <3>1. h.summon_day # 0
      BY <2>1, <2>3 DEF PutOff
    <3> QED BY <2>3, <3>1, SummonsStands DEF PutOff
  <2> QED BY <1>2, <2>2, <2>3, SummonsFate
<1> QED BY <1>1, <1>2

\* The three conjuncts of PencilAsked, of a step from v to p.
LEMMA PencilStep ==
  ASSUME NEW v, NEW b, NEW h, NEW d, NEW p, Stepped(v, b, h, d, p)
  PROVE  /\ ~OnThePencil(v) /\ OnThePencil(p) =>
              \/ p.summon_cause = "kOnThePencil"
              \/ p.pencil_pending
              \/ p.summon_day # 0 /\ v.summon_day = 0
              \/ "kSummonPostponed" \in p.events
         /\ v.pencil_pending /\ ~p.pencil_pending /\ OnThePencil(p) => p.summon_cause = "kOnThePencil"
         /\ p.pencil_pending => p.summon_day # 0 /\ p.summon_cause # "kOnThePencil"
<1>1. Asked(v, d, p) /\ Kept(v) /\ Kept(p)
  BY DEF Stepped
<1>2. OnThePencil(p) <=> OnThePencil(d)
  BY <1>1 DEF Asked, OnThePencil
<1>3. ASSUME ~OnThePencil(v), OnThePencil(p), p.summon_cause # "kOnThePencil", ~p.pencil_pending,
             ~(p.summon_day # 0 /\ v.summon_day = 0), "kSummonPostponed" \notin p.events
      PROVE  FALSE
  <2>1. d.summon_day # 0 /\ p.summon_day = d.summon_day /\ p.summon_cause = d.summon_cause
    BY <1>1, <1>2, <1>3 DEF Asked
  <2>2. ~(v.summon_day = d.summon_day /\ v.summon_cause = d.summon_cause)
    BY <1>1, <1>2, <1>3, <2>1 DEF Asked
  <2>3. v.summon_day # 0 /\ v.summon_day \in Nat
    BY <1>1, <1>3, <2>1 DEF Kept, IsWorld
  <2>4. CASE SameSummons(v, h)
    <3>1. h.summon_day # 0
      BY <2>3, <2>4 DEF SameSummons
    <3> QED BY <2>2, <2>4, <3>1, SummonsStands DEF SameSummons
  <2>5. CASE PutOff(v, h, p)
    BY <1>3, <2>5 DEF PutOff
  <2>6. CASE d = h /\ (h.summon_day # 0 => h.summon_cause = "kOnThePencil")
    BY <1>3, <2>1, <2>6
  <2> QED BY <2>3, <2>4, <2>5, <2>6, SummonsFate
<1>4. ASSUME v.pencil_pending, ~p.pencil_pending, OnThePencil(p)
      PROVE  p.summon_cause = "kOnThePencil"
  <2>1. v.summon_day # 0 /\ v.summon_day \in Nat
    BY <1>1, <1>4 DEF Kept, IsWorld
  <2>2. CASE SameSummons(v, h)
    <3>1. h.summon_day # 0 /\ h.pencil_pending
      BY <1>4, <2>1, <2>2 DEF SameSummons
    <3>2. d.pencil_pending /\ p.pencil_pending
      BY <3>1, SummonsStands DEF SameSummons
    <3> QED BY <1>4, <3>2
  <2>3. CASE PutOff(v, h, p) /\ h.pencil_pending = v.pencil_pending
    <3>1. h.summon_day # 0 /\ h.pencil_pending
      BY <1>4, <2>1, <2>3 DEF PutOff
    <3>2. d.pencil_pending /\ p.pencil_pending
      BY <3>1, SummonsStands DEF SameSummons
    <3> QED BY <1>4, <3>2
  <2>4. CASE /\ d = h /\ (h.summon_day # 0 => h.summon_cause = "kOnThePencil")
             /\ v.pencil_pending /\ OnThePencil(h) => h.summon_day # 0
    <3>1. h.summon_day # 0 /\ h.summon_cause = "kOnThePencil"
      BY <1>2, <1>4, <2>4
    <3> QED BY <3>1, SummonsStands
  <2> QED BY <2>1, <2>2, <2>3, <2>4, SummonsFate
<1>5. p.pencil_pending => p.summon_day # 0 /\ p.summon_cause # "kOnThePencil"
  BY <1>1 DEF Kept
<1> QED BY <1>3, <1>4, <1>5

-----------------------------------------------------------------------------
(* The visits and the history.                                             *)

\* After a visit nobody but a trip booked since leaves that day.
MetInv(w, hasBooked, hasMet) ==
  /\ hasMet /\ ~WeatherHoldsDeparture(w)
  /\ w.away_from_tick # 0 /\ w.tick < w.away_from_tick /\ w.away_from_tick < TickAt(DayOf(w) + 1, 0)
  => ~w.away_summoned /\ hasBooked

\* A visit is held at a dawn that finds him at home for the day.
LEMMA VisitAtDawn ==
  ASSUME NEW v, NEW b, NEW h, NEW d, NEW p, Stepped(v, b, h, d, p), "kDistrictVisit" \in p.events
  PROVE  Hour(b.tick) = 0 /\ ~AwayToday(h)
<1>1. /\ b.events = {} /\ p.events = d.events
  BY DEF Stepped, Ordered, Asked, SameSaid
<1>2. Hour(b.tick) = 0
  <2> SUFFICES ASSUME Hour(b.tick) # 0 PROVE FALSE
    OBVIOUS
  <2>1. InHour(b, h) /\ p.events = h.events
    <3>1. InHour(b, h)
      BY DEF Stepped
    <3> QED BY <3>1, StepEvents
  <2>2. CASE LeftAt(b, h)
    BY <1>1, <2>1, <2>2 DEF LeftAt, Postponed, CalledOff, Gone
  <2>3. CASE Back(b, h)
    BY <1>1, <2>1, <2>3 DEF Back
  <2>4. CASE h = b
    BY <1>1, <2>1, <2>4
  <2> QED BY <2>1, <2>2, <2>3, <2>4 DEF InHour
<1>3. h.events \subseteq {"kSummonLetter"}
  BY <1>2, StepEvents
<1>4. AwayToday(h) => NoVisit(h, d)
  BY <1>2 DEF Stepped
<1> QED BY <1>1, <1>2, <1>3, <1>4 DEF NoVisit

\* A visit meets him: he is away neither at this tick nor at the last.
LEMMA VisitStep ==
  ASSUME NEW v, NEW b, NEW h, NEW d, NEW p, Stepped(v, b, h, d, p), "kDistrictVisit" \in p.events
  PROVE  ~Where(v) /\ ~AbroadAfter(Where(v), p)
<1>1. Hour(b.tick) = 0 /\ ~AwayToday(h)
  BY VisitAtDawn
<1>2. ~Departed(p) /\ ~Returned(p)
  BY <1>1, StepEvents DEF Departed, Returned, Told
<1>3. AbroadAfter(Where(v), p) <=> Where(v)
  BY <1>2 DEF AbroadAfter
<1>4. /\ b.tick = p.tick /\ h.tick = p.tick /\ SameHours(h, p) /\ h.away_from_tick \in Nat
      /\ p.tick \in Nat /\ p.tick = TickAt(DayOf(p), 0) /\ DayOf(p) \in Nat /\ DayOf(h) = DayOf(p)
  BY <1>1, StepClock DEF SameHours
<1>5. ASSUME Where(p) PROVE FALSE
  <2>1. Kept(h) /\ h.away_from_tick # 0
    BY <1>4, <1>5 DEF Stepped, Where, SameHours
  <2>2. h.away_from_tick # p.tick
    BY <1>4, <2>1, NotAtDawn
  <2>3. h.away_from_tick < p.tick /\ p.tick < h.away_until_tick
    BY <1>4, <1>5, <2>1, <2>2 DEF Where, SameHours, Kept
  <2>4. h.away_until_tick \in Nat
    BY <2>1 DEF Kept, IsWorld
  <2> QED BY <1>1, <1>4, <2>1, <2>3, <2>4 DEF AwayToday
<1> QED BY <1>3, <1>5, AbroadStep

\* On a day a visit was held nobody but a trip booked since departs.
LEMMA DepartedStep ==
  ASSUME NEW v, NEW b, NEW h, NEW d, NEW p, Stepped(v, b, h, d, p), NEW bk \in BOOLEAN, NEW mt \in BOOLEAN,
         MetInv(v, bk, mt), Departed(p), mt
  PROVE  ~p.away_summoned /\ bk
<1>1. Hour(b.tick) # 0
  BY StepEvents DEF Departed, Told
<1>2. /\ b.away_from_tick # 0 /\ p.tick = b.away_from_tick
      /\ ~WeatherHoldsDeparture(b) /\ Gone(b, h)
  BY <1>1, HourCases
<1>3. /\ v.tick \in Nat /\ p.tick = v.tick + 1 /\ b.tick = p.tick /\ v.away_from_tick \in Nat
      /\ SameHours(h, p) /\ DayOf(p) \in Nat /\ p.tick = TickAt(DayOf(p), Hour(p.tick))
      /\ Hour(p.tick) \in AnHour
  BY StepClock
<1>4. v.away_from_tick = b.away_from_tick /\ v.away_summoned = b.away_summoned
  <2>1. ~(p.tick < b.away_from_tick)
    BY <1>2, <1>3
  <2> QED BY <2>1, OrderCases
<1>5. DayOf(v) = DayOf(p)
  BY <1>1, <1>3, NextHour DEF DayOf, Day
<1>6. p.tick < TickAt(DayOf(v) + 1, 0)
  <2>1. DayOf(p) + 1 \in Nat /\ DayOf(p) < DayOf(p) + 1
    BY <1>3
  <2> QED BY <1>3, <1>5, <2>1, Ticks, Hours
<1>7. ~WeatherHoldsDeparture(v)
  <2>1. b.weather = v.weather
    BY <1>1 DEF Stepped
  <2> QED BY <1>2, <2>1 DEF WeatherHoldsDeparture
<1>8. v.away_from_tick # 0 /\ v.tick < v.away_from_tick /\ v.away_from_tick < TickAt(DayOf(v) + 1, 0)
  <2>1. v.away_from_tick = p.tick /\ p.tick = b.away_from_tick
    BY <1>2, <1>4
  <2>2. v.tick < p.tick
    BY <1>3
  <2> QED BY <1>2, <1>6, <2>1, <2>2
<1>9. ~v.away_summoned /\ bk
  BY <1>7, <1>8 DEF MetInv
<1> QED BY <1>2, <1>3, <1>4, <1>9 DEF Gone, SameHours

\* What is known of the day of a visit is known at the next tick.
LEMMA MetStep ==
  ASSUME NEW v, NEW b, NEW h, NEW d, NEW p, Stepped(v, b, h, d, p), NEW bk \in BOOLEAN, NEW mt \in BOOLEAN,
         MetInv(v, bk, mt)
  PROVE  MetInv(p, Booked(p) \/ (bk /\ ~Dawn(p)),
                   "kDistrictVisit" \in p.events \/ (mt /\ ~Dawn(p)))
<1> DEFINE hasBooked == Booked(p) \/ (bk /\ ~Dawn(p))
           hasMet    == "kDistrictVisit" \in p.events \/ (mt /\ ~Dawn(p))
<1> SUFFICES ASSUME hasMet, ~WeatherHoldsDeparture(p), p.away_from_tick # 0, p.tick < p.away_from_tick,
                    p.away_from_tick < TickAt(DayOf(p) + 1, 0)
             PROVE  ~p.away_summoned /\ hasBooked
  BY DEF MetInv
<1>1. /\ v.tick \in Nat /\ p.tick = v.tick + 1 /\ b.tick = p.tick /\ v.away_from_tick \in Nat
      /\ h.tick = p.tick /\ h.away_from_tick \in Nat
      /\ SameHours(h, p) /\ DayOf(p) \in Nat /\ p.tick = TickAt(DayOf(p), Hour(p.tick))
      /\ Hour(p.tick) \in AnHour /\ DayOf(h) = DayOf(p)
  BY StepClock
<1>2. Dawn(p) <=> Hour(b.tick) = 0
  BY <1>1 DEF Dawn, HourOf, Hour
<1>3. CASE Hour(b.tick) = 0
  <2>1. "kDistrictVisit" \in p.events
    BY <1>2, <1>3
  <2>2. ~AwayToday(h)
    BY <2>1, VisitAtDawn
  <2>3. TickAt(DayOf(p) + 1, 0) = p.tick + kTicksPerDay /\ p.tick = TickAt(DayOf(p), 0)
    BY <1>1, <1>3, Ticks, Hours
  <2>4. ~WeatherHoldsDeparture(h) /\ h.away_from_tick = p.away_from_tick
    BY <1>1 DEF SameHours, WeatherHoldsDeparture
  <2>5. h.away_from_tick # 0 /\ h.away_from_tick >= p.tick /\ h.away_from_tick < p.tick + kTicksPerDay
    BY <1>1, <2>3, <2>4
  <2> QED BY <1>1, <2>2, <2>3, <2>4, <2>5 DEF AwayToday
<1>4. CASE Hour(b.tick) # 0
  <2>1. mt /\ ~Dawn(p)
    BY <1>2, <1>4, VisitAtDawn
  <2>2. DayOf(v) = DayOf(p)
    BY <1>1, <1>4, NextHour DEF DayOf, Day
  <2>3. b.weather = v.weather
    BY <1>4 DEF Stepped
  <2>4. CASE h = b
    <3>1. /\ b.away_from_tick = p.away_from_tick /\ b.away_summoned = p.away_summoned
          /\ b.weather = p.weather
      BY <1>1, <2>4 DEF SameHours
    <3>2. CASE b.away_from_tick = v.away_from_tick /\ b.away_summoned = v.away_summoned
      <4>1. v.tick < v.away_from_tick
        BY <1>1, <3>1, <3>2
      <4>2. ~WeatherHoldsDeparture(v)
        BY <2>3, <3>1 DEF WeatherHoldsDeparture
      <4> QED BY <2>1, <2>2, <3>1, <3>2, <4>1, <4>2 DEF MetInv
    <3>3. CASE ~b.away_summoned /\ Booked(p)
      BY <3>1, <3>3
    <3> QED BY <3>2, <3>3, OrderCases
  <2>5. CASE WeatherHoldsDeparture(b) /\ (Postponed(b, h) \/ CalledOff(b, h))
    <3>1. h.weather = b.weather
      BY <1>4, <2>4 DEF Stepped, InHour, LeftAt, Back
    <3> QED BY <1>1, <2>5, <3>1 DEF SameHours, WeatherHoldsDeparture
  <2>6. CASE p.tick = b.away_from_tick /\ Gone(b, h)
    BY <1>1, <2>6 DEF Gone, SameHours
  <2>7. CASE Back(b, h)
    BY <1>1, <2>7 DEF Back, SameHours
  <2> QED BY <1>4, <2>4, <2>5, <2>6, <2>7, HourCases
<1> QED BY <1>3, <1>4

-----------------------------------------------------------------------------
(* The theorems.                                                           *)

\* The row as it is kept, the history it agrees with, and the day's visit.
TripInv ==
  /\ Kept(world) /\ world.tick <= MaxTick
  /\ abroad \in BOOLEAN /\ booked \in BOOLEAN /\ met \in BOOLEAN
  /\ abroad <=> Where(world)
  /\ MetInv(world, booked, met)

\* What a step from a sound state is: its world by the parts of the step, and
\* the histories after it.
LEMMA NextIs ==
  ASSUME TripInv, Next
  PROVE  /\ \E b, h, d : Stepped(world, b, h, d, world')
         /\ abroad' = AbroadAfter(Where(world), world')
         /\ booked' = (Booked(world') \/ (booked /\ ~Dawn(world')))
         /\ met' = ("kDistrictVisit" \in world'.events \/ (met /\ ~Dawn(world')))
<1>1. PICK kinds \in SUBSET (VillageDoor \cup DistrictDoor) : Step(kinds)
  BY DEF Next
<1>2. PICK chance \in Chances(world) : world' = StepOf(world, kinds, chance)
  BY <1>1 DEF Step
<1>3. \E b, h, d : Stepped(world, b, h, d, world')
  BY <1>2, StepParts DEF TripInv
<1>4. abroad' = AbroadAfter(Where(world), world')
  <2>1. abroad' = (Departed(world') \/ (abroad /\ ~Returned(world')))
    BY <1>1 DEF Step
  <2> QED BY <2>1 DEF AbroadAfter, TripInv
<1> QED BY <1>1, <1>3, <1>4 DEF Step

\* The chairman is at home, with no summons, when the world begins.
LEMMA InitSound == Init => TripInv
<1> SUFFICES ASSUME Init PROVE TripInv
  OBVIOUS
<1>1. /\ world.tick = 0 /\ world.weather = "fair" /\ world.away_from_tick = 0
      /\ world.away_until_tick = 0 /\ world.away_summoned = FALSE /\ world.summon_day = 0
      /\ world.summon_cause = "kNone" /\ world.pencil_pending = FALSE
      /\ world.raikom_reputation \in StartReputation /\ world.visits = <<>>
      /\ DOMAIN world = Columns
  BY DEF Init, Columns
<1>2. IsWorld(world)
  <2>1. world.visits \in Seq(AVisit)
    BY <1>1
  <2>2. world.weather \in Weather /\ world.summon_cause \in Cause
    BY <1>1 DEF Weather, Cause
  <2>3. world.raikom_reputation \in 0..kReputationMax
    BY <1>1, TableAssumption
  <2>4. /\ world.tick \in Nat /\ world.away_from_tick \in Nat /\ world.away_until_tick \in Nat
        /\ world.summon_day \in Nat
    BY <1>1
  <2>5. world.away_summoned \in BOOLEAN /\ world.pencil_pending \in BOOLEAN
    BY <1>1
  <2>6. world.summon_cause = "kNone" <=> world.summon_day = 0
    BY <1>1
  <2> QED BY <1>1, <2>1, <2>2, <2>3, <2>4, <2>5, <2>6 DEF IsWorld
<1>3. Kept(world) /\ world.tick <= MaxTick
  BY <1>1, <1>2, BoundAssumption DEF Kept
<1>4. abroad = FALSE /\ booked = FALSE /\ met = FALSE /\ ~Where(world)
  BY <1>1 DEF Init, Where
<1>5. MetInv(world, booked, met)
  BY <1>1 DEF MetInv
<1> QED BY <1>3, <1>4, <1>5 DEF TripInv

\* Every step keeps it.
LEMMA NextSound == TripInv /\ [Next]_vars => TripInv'
<1> SUFFICES ASSUME TripInv, [Next]_vars PROVE TripInv'
  OBVIOUS
<1>1. CASE Next
  <2>1. PICK b, h, d : Stepped(world, b, h, d, world')
    BY <1>1, NextIs
  <2>2. Kept(world') /\ world'.tick <= MaxTick
    <3>1. Kept(world') /\ world'.tick = world.tick + 1 /\ world.tick \in Nat
      <4>1. Kept(world')
        BY <2>1 DEF Stepped
      <4> QED BY <2>1, <4>1, StepClock
    <3>2. world.tick < MaxTick
      BY <1>1 DEF Next, Step
    <3> QED BY <3>1, <3>2, BoundAssumption
  <2>3. abroad' \in BOOLEAN /\ (abroad' <=> Where(world'))
    <3>1. abroad' = AbroadAfter(Where(world), world')
      BY <1>1, NextIs
    <3>2. AbroadAfter(Where(world), world') <=> Where(world')
      BY <2>1, AbroadStep
    <3>3. AbroadAfter(Where(world), world') \in BOOLEAN
      BY DEF AbroadAfter
    <3> QED BY <3>1, <3>2, <3>3
  <2>4. MetInv(world', booked', met')
    <3>1. MetInv(world, booked, met) /\ booked \in BOOLEAN /\ met \in BOOLEAN
      BY DEF TripInv
    <3>2. MetInv(world', Booked(world') \/ (booked /\ ~Dawn(world')),
                 "kDistrictVisit" \in world'.events \/ (met /\ ~Dawn(world')))
      BY <2>1, <3>1, MetStep
    <3> QED BY <1>1, <3>2, NextIs
  <2>5. booked' \in BOOLEAN /\ met' \in BOOLEAN
    <3>1. booked \in BOOLEAN /\ Booked(world') \in BOOLEAN
      BY DEF TripInv, Booked
    <3> QED BY <1>1, <3>1, NextIs
  <2> QED BY <2>2, <2>3, <2>4, <2>5 DEF TripInv
<1>2. CASE UNCHANGED vars
  BY <1>2 DEF TripInv, vars
<1> QED BY <1>1, <1>2

\* A trip of his own is over before a summons' day, a summoned one is the
\* summons' own, none is overdue and none is missed; the row says where he is;
\* and after a visit nobody but a trip booked since leaves that day.
THEOREM TripSound == Spec => []TripInv
  BY InitSound, NextSound, PTL DEF Spec

\* Types, and what goes together on the row: a summons and its cause, a
\* departure and a return.
THEOREM TripTypes == Spec => []TypeOK
<1>1. TripInv => TypeOK
  <2> SUFFICES ASSUME TripInv PROVE TypeOK
    OBVIOUS
  <2>1. Kept(world) /\ IsWorld(world) /\ world.tick <= MaxTick
    BY DEF TripInv, Kept
  <2>2. world.tick \in 0..MaxTick
    BY <2>1, BoundAssumption DEF IsWorld
  <2>3. world.away_from_tick = 0 <=> world.away_until_tick = 0
    BY <2>1 DEF Kept, IsWorld
  <2> QED BY <2>1, <2>2, <2>3 DEF TypeOK, IsWorld, AVisit
<1> QED BY <1>1, TripSound, PTL

\* AbroadIsAway is a part of the invariant.
LEMMA AwayOfInv == TripInv => AbroadIsAway
<1> SUFFICES ASSUME TripInv PROVE AbroadIsAway
  OBVIOUS
<1>1. abroad <=> Where(world)
  BY DEF TripInv
<1>2. Where(world) => world.tick < world.away_until_tick
  BY DEF TripInv, Kept, Where
<1> QED BY <1>1, <1>2 DEF AbroadIsAway, Where

\* The gate's answers, by the step's histories.
LEMMA GateOfStep == TripInv /\ Next => GateTruthful
<1> SUFFICES ASSUME TripInv, Next PROVE GateTruthful
  OBVIOUS
<1>1. PICK b, h, d : Stepped(world, b, h, d, world')
  BY NextIs
<1>2. ChairmanAway(b) <=> Away
  <2>1. abroad' = AbroadAfter(Where(world), world') /\ (abroad <=> Where(world))
    BY NextIs DEF TripInv
  <2> QED BY <1>1, <2>1, GateStep DEF Away
<1>3. VillageRefused(b) /\ BargainRefused(b) /\ world'.answers = b.answers
  BY <1>1, StepEvents DEF Stepped, Ordered
<1> QED BY <1>2, <1>3 DEF GateTruthful, VillageRefused, BargainRefused

\* Whatever the orders, the weather and the summonses, the ticks on his row are
\* his absence, and the village is refused in exactly the ticks of it
\* (chairman_away.h; district_trip.cpp, RunDistrictTrip).
THEOREM AwayTheorem == Spec => AwayIsOneThing
<1>1. TripInv /\ TripInv' /\ [Next]_vars => [AbroadIsAway' /\ GateTruthful]_vars
  <2>1. TripInv' => AbroadIsAway'
    <3>1. TripInv => AbroadIsAway
      BY AwayOfInv
    <3> QED BY <3>1, PTL
  <2> QED BY <2>1, GateOfStep
<1> QED BY <1>1, TripSound, PTL DEF Spec, AwayIsOneThing

\* Nobody takes a summons' place and nothing that calls him is lost: a summons
\* is obeyed at its hour and moved by a blizzard alone, and the line of the
\* pencil is asked at the crossing or marked till he is back (SummonChairman,
\* SummonOnThePencil).
THEOREM CalledTheorem == Spec => CalledOnce
<1>1. TripInv /\ Next
      => /\ world'.summon_day # 0 /\ world'.tick >= TickAt(world'.summon_day, depart_hour)
              => abroad' /\ world'.away_summoned
         /\ world.summon_day # 0 =>
              \/ abroad /\ world.away_summoned /\ ~abroad'
              \/ /\ world'.summon_cause = world.summon_cause
                 /\ \/ world'.summon_day = world.summon_day
                    \/ /\ world'.weather = "blizzard"
                       /\ world'.tick = TickAt(world.summon_day, depart_hour)
                       /\ world'.summon_day = world.summon_day + 1
  <2> SUFFICES ASSUME TripInv, Next
               PROVE  /\ world'.summon_day # 0 /\ world'.tick >= TickAt(world'.summon_day, depart_hour)
                           => abroad' /\ world'.away_summoned
                      /\ world.summon_day # 0 =>
                           \/ abroad /\ world.away_summoned /\ ~abroad'
                           \/ /\ world'.summon_cause = world.summon_cause
                              /\ \/ world'.summon_day = world.summon_day
                                 \/ /\ world'.weather = "blizzard"
                                    /\ world'.tick = TickAt(world.summon_day, depart_hour)
                                    /\ world'.summon_day = world.summon_day + 1
    OBVIOUS
  <2>1. PICK b, h, d : Stepped(world, b, h, d, world')
    BY NextIs
  <2>2. (abroad <=> Where(world)) /\ (abroad' <=> Where(world'))
    BY <2>1, NextIs, AbroadStep DEF TripInv
  <2> QED BY <2>1, <2>2, SummonsStep DEF Obeyed
<1>2. TripInv /\ Next
      => /\ Crosses =>
              \/ world'.summon_cause = "kOnThePencil"
              \/ world'.pencil_pending
              \/ world'.summon_day # 0 /\ world.summon_day = 0
              \/ "kSummonPostponed" \in world'.events
         /\ world.pencil_pending /\ ~world'.pencil_pending /\ OnThePencil(world')
              => world'.summon_cause = "kOnThePencil"
         /\ world'.pencil_pending => world'.summon_day # 0 /\ world'.summon_cause # "kOnThePencil"
  <2> SUFFICES ASSUME TripInv, Next
               PROVE  /\ Crosses =>
                           \/ world'.summon_cause = "kOnThePencil"
                           \/ world'.pencil_pending
                           \/ world'.summon_day # 0 /\ world.summon_day = 0
                           \/ "kSummonPostponed" \in world'.events
                      /\ world.pencil_pending /\ ~world'.pencil_pending /\ OnThePencil(world')
                           => world'.summon_cause = "kOnThePencil"
                      /\ world'.pencil_pending =>
                           world'.summon_day # 0 /\ world'.summon_cause # "kOnThePencil"
    OBVIOUS
  <2>1. PICK b, h, d : Stepped(world, b, h, d, world')
    BY NextIs
  <2>2. OnThePencil(world)' <=> OnThePencil(world')
    BY DEF OnThePencil
  <2> QED BY <2>1, PencilStep DEF Crosses
<1> QED BY <1>1, <1>2, TripSound, PTL DEF Spec, CalledOnce, SummonsKept, PencilAsked

\* A visit held at dawn meets him, and nobody who was called away leaves on its
\* day (district_trip.h, AwayToday).
THEOREM VisitsTheorem == Spec => VisitsMeetHim
<1>1. TripInv /\ Next
      => /\ "kDistrictVisit" \in world'.events => ~Away
         /\ Departed(world') /\ met' => ~world'.away_summoned /\ booked'
  <2> SUFFICES ASSUME TripInv, Next
               PROVE  /\ "kDistrictVisit" \in world'.events => ~Away
                      /\ Departed(world') /\ met' => ~world'.away_summoned /\ booked'
    OBVIOUS
  <2>1. PICK b, h, d : Stepped(world, b, h, d, world')
    BY NextIs
  <2>2. abroad' = AbroadAfter(Where(world), world') /\ (abroad <=> Where(world))
    BY NextIs DEF TripInv
  <2>3. "kDistrictVisit" \in world'.events => ~Away
    BY <2>1, <2>2, VisitStep DEF Away
  <2>4. ASSUME Departed(world'), met' PROVE ~world'.away_summoned /\ booked'
    <3>1. "kDistrictVisit" \notin world'.events
      <4>1. AbroadAfter(Where(world), world')
        BY <2>4 DEF AbroadAfter
      <4> QED BY <2>1, <4>1, VisitStep
    <3>2. ~Dawn(world')
      BY <2>4, <3>1, NextIs
    <3>3. met /\ (booked' <=> Booked(world') \/ booked)
      BY <2>4, <3>1, <3>2, NextIs
    <3>4. MetInv(world, booked, met) /\ booked \in BOOLEAN /\ met \in BOOLEAN
      BY DEF TripInv
    <3> QED BY <2>1, <2>4, <3>3, <3>4, DepartedStep
  <2> QED BY <2>3, <2>4
<1> QED BY <1>1, TripSound, PTL DEF Spec, VisitsMeetHim
=============================================================================
