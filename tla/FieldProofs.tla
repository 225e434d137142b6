------------------------------ MODULE FieldProofs ------------------------------
(***************************************************************************)
(* A row of land, proved: Fields.                                          *)
(*                                                                         *)
(* Every operation is shown to keep the row (IsRow: its columns, what is   *)
(* laid of a reaping, what the marks say of each other, the furrow, the    *)
(* soil) and to keep three accounts beside it: the rests of the year       *)
(* (RestsBy), the hay of the year (HayIn) and where a column the rain      *)
(* keeps may stand.  The ticks are then followed through their parts.      *)
(* What is left to the next tick matters: nothing a year's turn asks about *)
(* is still waiting to be finished when it comes (NightIn).                *)
(*                                                                         *)
(* The second half keeps the books beside the row (Books): which slot of   *)
(* the chain was sown last, what is laid of the whole that is reaped, and  *)
(* what November has said of the slot to come (Announced, Foretold).       *)
(***************************************************************************)
EXTENDS Fields, SequenceTheorems, TLAPS

-----------------------------------------------------------------------------
(* Numbers and days.                                                       *)

\* The constants, each as a number.
LEMMA Numbers ==
  /\ Parts \in Nat /\ Parts > 0 /\ SeasonHay \in Nat
  /\ FloorSoil \in Nat /\ FullSoil \in Nat /\ FloorSoil <= FullSoil
  /\ Recovery \in Nat /\ PenaltyYears \in Nat /\ StressCap \in Nat /\ Norm \in Nat
  /\ LastHour \in Nat /\ LastHour > 1
  /\ SeasonLastDay \in Nat /\ FallowMonth \in Nat /\ CutMonth \in Nat
  /\ CutMonthEnd \in Nat
  /\ Never \in Int /\ Never \notin Nat
  BY AmountsAssumption, CalendarAssumption DEF Never

\* What the least of two numbers is, and what one has above another.
LEMMA LeastIs ==
  ASSUME NEW a \in Int, NEW b \in Int
  PROVE  /\ Least(a, b) \in {a, b} /\ Least(a, b) <= a /\ Least(a, b) <= b
         /\ Above(a, b) \in Nat /\ (a >= b => Above(a, b) = a - b) /\ (a <= b => Above(a, b) = 0)
  BY DEF Least, Above

\* A share of a whole, rounded down.
LEMMA Divided ==
  ASSUME NEW a \in Nat, NEW p \in Nat, p > 0
  PROVE  a \div p \in Nat /\ (a \div p) * p <= a
  OBVIOUS

\* Products of numbers, by their parts.
LEMMA Products ==
  ASSUME NEW a \in Nat, NEW b \in Nat, NEW c \in Nat
  PROVE  /\ a * b \in Nat /\ a * (b + c) = a * b + a * c /\ (a + b) * c = a * c + b * c
         /\ a > 0 /\ b > 0 => a * b > 0
  OBVIOUS

\* A year has days, a month has days.
LEMMA Calendar ==
  /\ MonthsPerYear \in Nat /\ DaysPerMonth \in Nat /\ DaysPerMonth > 0
  /\ DaysPerYear \in Nat /\ DaysPerYear > 0 /\ SeasonLastDay < DaysPerYear
<1>1. MonthsPerYear \in Nat /\ DaysPerMonth \in Nat /\ MonthsPerYear > 0 /\ DaysPerMonth > 0
  BY CalendarAssumption
<1>2. MonthsPerYear * DaysPerMonth \in Nat /\ MonthsPerYear * DaysPerMonth > 0
  BY <1>1, Products
<1> QED BY <1>1, <1>2, CalendarAssumption DEF DaysPerYear

\* A day has its year, its day of the year and its month.
LEMMA Dates ==
  ASSUME NEW day \in Nat
  PROVE  /\ YearOf(day) \in Nat /\ DayOfYear(day) \in 0..(DaysPerYear - 1)
         /\ MonthOf(day) \in Nat
         /\ day = YearOf(day) * DaysPerYear + DayOfYear(day)
<1> DEFINE n == DaysPerYear
<1>1. n \in Nat /\ n > 0
  BY Calendar
<1> HIDE DEF n
<1>2. day \div n \in Nat /\ day % n \in 0..(n - 1) /\ day = (day \div n) * n + (day % n)
  BY <1>1
<1>3. DayOfYear(day) \in Nat
  BY <1>1, <1>2 DEF DayOfYear, n
<1>4. MonthOf(day) \in Nat
  <2>1. DaysPerMonth \in Nat /\ DaysPerMonth > 0
    BY Calendar
  <2> QED BY <1>3, <2>1 DEF MonthOf
<1> QED BY <1>1, <1>2, <1>4 DEF YearOf, DayOfYear, n

\* Months do not go back within a year.
LEMMA MonthsRise ==
  ASSUME NEW a \in Nat, NEW p \in Nat, p > 0
  PROVE  a \div p <= (a + 1) \div p
<1> DEFINE x == a \div p  y == (a + 1) \div p
<1>1. x \in Nat /\ y \in Nat /\ x * p <= a /\ (a + 1) < (y + 1) * p
  <2> DEFINE r == (a + 1) % p
  <2>1. /\ x \in Nat /\ y \in Nat /\ r \in 0..(p - 1)
        /\ x * p <= a /\ a + 1 = y * p + r
    OBVIOUS
  <2> HIDE DEF x, y, r
  <2>2. (y + 1) * p = y * p + p /\ y * p \in Nat
    BY <2>1
  <2> QED BY <2>1, <2>2
<1> HIDE DEF x, y
<1>2. ASSUME y < x PROVE FALSE
  <2> DEFINE d == x - (y + 1)
  <2>2. d \in Nat /\ x = (y + 1) + d
    BY <1>1, <1>2
  <2> HIDE DEF d
  <2>3. x * p = (y + 1) * p + d * p /\ d * p \in Nat /\ (y + 1) * p \in Nat
    BY <1>1, <2>2, Products
  <2> QED BY <1>1, <2>3
<1> QED BY <1>1, <1>2 DEF x, y

\* The day after: another of the year, or the first of the next.
LEMMA NextDay ==
  ASSUME NEW day \in Nat
  PROVE  LET e == day + 1 IN
         /\ DayOfYear(e) # 0 => /\ YearOf(e) = YearOf(day) /\ DayOfYear(e) = DayOfYear(day) + 1
                                /\ MonthOf(day) <= MonthOf(e)
         /\ DayOfYear(e) = 0 => /\ YearOf(e) = YearOf(day) + 1
                                /\ DayOfYear(day) = DaysPerYear - 1
<1> DEFINE e == day + 1  n == DaysPerYear
           x == YearOf(day)  y == YearOf(e)  h == DayOfYear(day)  k == DayOfYear(e)
<1>1. /\ n \in Nat /\ n > 0 /\ x \in Nat /\ y \in Nat /\ h \in 0..(n - 1) /\ k \in 0..(n - 1)
      /\ day = x * n + h /\ day + 1 = y * n + k
  <2>1. n \in Nat /\ n > 0 /\ e \in Nat
    BY Calendar
  <2>2. x \in Nat /\ h \in 0..(n - 1) /\ day = x * n + h
    BY Dates
  <2>3. y \in Nat /\ k \in 0..(n - 1) /\ e = y * n + k
    <3> HIDE DEF e
    <3> QED BY <2>1, Dates
  <2> QED BY <2>1, <2>2, <2>3
<1> HIDE DEF x, y, h, k, n
<1>2. x * n \in Nat /\ y * n \in Nat
  BY <1>1
<1>3. ASSUME NEW a \in Nat, NEW b \in Nat, a < b
      PROVE  a * n + n <= b * n
  <2> DEFINE d == b - (a + 1)
  <2>1. d \in Nat /\ b = (a + 1) + d
    BY <1>3
  <2> HIDE DEF d
  <2>2. a + 1 \in Nat /\ 1 \in Nat /\ ((a + 1) + d) * n = (a + 1) * n + d * n
        /\ (a + 1) * n = a * n + 1 * n /\ d * n \in Nat /\ a * n \in Nat
    BY <1>1, <2>1, Products
  <2> QED BY <1>1, <2>1, <2>2
<1>4. ~(y < x)
  BY <1>1, <1>2, <1>3
<1>5. ASSUME x < y PROVE k = 0 /\ h = n - 1 /\ y = x + 1
  <2>1. x * n + n <= y * n
    BY <1>1, <1>3, <1>5
  <2>2. k = 0 /\ h = n - 1 /\ y * n = x * n + n
    BY <1>1, <1>2, <2>1
  <2>3. ASSUME x + 1 < y PROVE FALSE
    <3>1. (x + 1) * n + n <= y * n /\ (x + 1) * n = x * n + n
      BY <1>1, <1>3, <2>3
    <3> QED BY <1>1, <1>2, <2>2, <3>1
  <2> QED BY <1>1, <1>5, <2>2, <2>3
<1>6. ASSUME x = y PROVE k = h + 1
  BY <1>1, <1>2, <1>6
<1>7. k # 0 => x = y /\ k = h + 1
  BY <1>1, <1>4, <1>5, <1>6
<1>8. k = 0 => y = x + 1 /\ h = n - 1
  BY <1>1, <1>4, <1>5, <1>6
<1>9. k # 0 => MonthOf(day) <= MonthOf(e)
  <2> SUFFICES ASSUME k # 0 PROVE MonthOf(day) <= MonthOf(e)
    OBVIOUS
  <2>1. DayOfYear(e) = DayOfYear(day) + 1 /\ DayOfYear(day) \in Nat
    BY <1>1, <1>7 DEF h, k
  <2>2. DayOfYear(day) \div DaysPerMonth <= (DayOfYear(day) + 1) \div DaysPerMonth
    BY <2>1, MonthsRise, Calendar
  <2> QED BY <2>1, <2>2 DEF MonthOf
<1> QED BY <1>7, <1>8, <1>9 DEF x, y, h, k, n

\* The first day of a month is the day after one of the month before.
LEMMA FirstOfMonth ==
  ASSUME NEW day \in Nat, DayOfYear(day + 1) # 0, DayOfYear(day + 1) % DaysPerMonth = 0
  PROVE  MonthOf(day) < MonthOf(day + 1)
<1> DEFINE a == DayOfYear(day)  p == DaysPerMonth
<1>1. a \in Nat /\ p \in Nat /\ p > 0 /\ DayOfYear(day + 1) = a + 1
  <2>1. DayOfYear(day + 1) = DayOfYear(day) + 1
    BY NextDay
  <2>2. DayOfYear(day) \in 0..(DaysPerYear - 1) /\ DaysPerYear \in Nat
    BY Dates, Calendar
  <2> QED BY <2>1, <2>2, Calendar
<1>2. (a + 1) % p = 0
  BY <1>1
<1> HIDE DEF a, p
<1> DEFINE x == a \div p  y == (a + 1) \div p
<1>3. x \in Nat /\ y \in Nat /\ x * p <= a /\ (a + 1) = y * p
  <2> DEFINE r == (a + 1) % p
  <2>1. x \in Nat /\ y \in Nat /\ x * p <= a /\ a + 1 = y * p + r /\ r = 0
    BY <1>1, <1>2
  <2> QED BY <1>1, <2>1
<1>4. MonthOf(day) = x /\ MonthOf(day + 1) = y
  BY <1>1 DEF MonthOf, a, p
<1> HIDE DEF x, y
<1>5. ASSUME y <= x PROVE FALSE
  <2> DEFINE d == x - y
  <2>1. d \in Nat /\ x = y + d
    BY <1>3, <1>5
  <2> HIDE DEF d
  <2>2. x * p = y * p + d * p /\ d * p \in Nat /\ y * p \in Nat
    BY <1>1, <1>3, <2>1, Products
  <2> QED BY <1>1, <1>2, <1>3, <2>2
<1>6. x < y
  BY <1>3, <1>5
<1> QED BY <1>4, <1>6

\* What a crop is.
LEMMA CropIs ==
  ASSUME NEW c \in Crops
  PROVE  /\ c # None => Crop[c].to \in Nat /\ Crop[c].seed \in Nat /\ Crop[c].delta \in Int
                        /\ Crop[c].reapFrom \in Nat /\ Crop[c].from \in Nat
         /\ Winter(c) => ~Perennial(c) /\ ~Ages(c) /\ FallowMonth < Crop[c].reapFrom
         /\ Winter(c) => c # None
         /\ Ages(c) => c # None
  BY CropAssumption DEF Crops, Winter, Perennial, Ages
-----------------------------------------------------------------------------
(* The row.                                                                *)

RowColumns ==
  {"kind", "mown_fallow", "phase", "crop", "last_crop", "repeat_years", "work",
   "harvest_work", "laid_share", "laid_grams", "slots", "assigned", "skips", "plowed",
   "furrowing", "furrow_day", "sown_day", "reaped_day", "mown_day", "cut_day", "summers",
   "sown_share", "stress", "fertility", "applied", "booked", "rest_owed", "dose", "heap"}

Stamp == Nat \cup {Never}
Chain == Crops \X Crops \X Crops

\* A dose: what of it is due is of what was booked, and it is named by that.
IsDose(d) ==
  /\ DOMAIN d = {"named", "booked", "due", "priced"}
  /\ d.booked \in Nat /\ d.due \in 0..d.booked
  /\ d.named <=> d.booked > 0

\* The columns, each by itself.
Typed(f) ==
  /\ DOMAIN f = RowColumns
  /\ f.kind \in {"arable", "meadow", "gone"}
  /\ f.phase \in {"idle", "plowing", "harrowing", "sowing", "growing", "harvest"}
  /\ f.work \in 0..Parts
  /\ f.crop \in Crops /\ f.last_crop \in Crops /\ f.slots \in Chain
  /\ f.repeat_years \in 0..PenaltyYears /\ f.summers \in 0..Len(Summers)
  /\ f.sown_day \in Stamp /\ f.reaped_day \in Stamp /\ f.mown_day \in Stamp
  /\ f.sown_share \in 0..2 /\ f.stress \in Nat
  /\ f.fertility \in FloorSoil..(FullSoil + Norm) /\ f.applied \in 0..Norm
  /\ IsDose(f.dose)

\* What is laid of a reaping, while there is one.
Laying(f) ==
  /\ f.laid_share \in 0..Parts /\ f.laid_grams \in Nat
  /\ f.phase # "harvest" => f.harvest_work = 0 /\ f.laid_share = 0 /\ f.laid_grams = 0
  /\ f.phase = "harvest" => f.harvest_work = Parts
  /\ f.kind = "meadow" /\ f.phase = "harvest" =>
       f.laid_grams * Parts <= SeasonHay * f.laid_share

\* What the columns say of each other: the marks by the kind and the phase.
Standing(f) ==
  /\ f.kind = "gone" => f.phase = "idle" /\ f.reaped_day = Never /\ f.mown_day = Never
  /\ f.kind = "meadow" => f.phase \in {"growing", "harvest"}
  /\ f.mown_fallow => f.kind = "meadow"
  /\ f.kind = "arable" /\ f.phase = "harvest" => f.crop # None
  /\ f.rest_owed => f.phase \in {"harrowing", "sowing"} /\ Winter(f.crop)

\* The furrow of the autumn is open on bare ground and is not yet a ploughing.
Furrow(f) ==
  /\ f.furrowing => f.crop = None /\ ~f.plowed
  /\ f.furrowing /\ f.kind = "arable" => f.phase \in {"plowing", "idle"}
  /\ Careful /\ f.furrowing => f.phase = "plowing" \/ (f.phase = "idle" /\ f.work > 0)

\* The soil and the dose in it.
Soil(f) ==
  /\ f.booked => f.applied > 0 /\ ~f.dose.named
  /\ f.fertility <= FullSoil + (IF f.booked THEN f.applied ELSE 0)

IsRow(f) == Typed(f) /\ Laying(f) /\ Standing(f) /\ Furrow(f) /\ Soil(f)

-----------------------------------------------------------------------------
(* The world.                                                              *)

IsWorld(w) ==
  /\ DOMAIN w = {"f", "day", "air", "sky", "cover", "col", "b"}
  /\ w.day \in Nat /\ w.col \in {Never} \cup 0..Parts
  /\ IsRow(w.f)
  /\ DOMAIN w.b = {"whole", "laid", "short", "hay", "broken", "slot", "used", "excused",
                   "rests", "said"}
  /\ w.b.hay \in Nat /\ w.b.rests \in Nat

Mowing(w) == w.f.kind = "meadow" /\ w.f.phase = "harvest"

\* Later in the year than the fallow is ploughed.
Late(day) == MonthOf(day) > FallowMonth

\* A row that has had the rest of the year of that day: under the winter crop
\* it was rested for, or reaped of it since, too late for another fallow.
Rested(f, day) ==
  \/ f.kind = "arable" /\ f.phase = "growing" /\ Winter(f.crop)
  \/ f.kind = "arable" /\ f.phase = "harvest" /\ Winter(f.crop) /\ Late(day)
  \/ /\ ThisYear(f.reaped_day, day) /\ Late(day)
     /\ f.kind = "arable" => /\ ~f.rest_owed
                             /\ f.crop = None => f.phase = "idle" \/ f.furrowing

\* The rests of the year, as of that day.
RestsBy(w, day) == w.b.rests \in {0, 1} /\ (w.b.rests = 1 => Rested(w.f, day))

\* The hay of the year: of the cut under way, or of one mown this year.
HayOf(w) ==
  ~w.b.broken =>
    /\ w.b.hay <= SeasonHay
    /\ IF Mowing(w) THEN w.b.hay = w.f.laid_grams
       ELSE w.b.hay # 0 => ThisYear(w.f.mown_day, w.day)

\* No hay, and no cut under way: so it is before the cuts are opened.
NoHay(w) == w.b.hay = 0 /\ ~Mowing(w)
HayIn(w) == HayOf(w) /\ (MonthOf(w.day) < CutMonth => NoHay(w))

\* A column that has done every hectare and is kept by the rain stands at the
\* sowing or the reaping.
ColumnKept(w) ==
  w.col = Parts => w.f.kind = "arable" /\ w.f.phase \in {"sowing", "harvest"}

\* Between ticks.
Tilled(w) == w.col = Parts => w.f.phase \notin {"plowing", "harrowing"}

\* After the last tick of a day nothing is left that only waits for the next.
NightIn(w) ==
  /\ ColumnKept(w)
  /\ Arable(w.f) /\ w.f.phase = "harvest" => w.f.work > 0
  /\ w.f.furrowing /\ w.f.phase = "plowing" => w.f.work > 0
  /\ DayOfYear(w.day) >= SeasonLastDay => ~Mowing(w)

\* What a kept column has to say of the tick before.
DayIn(w) ==
  Arable(w.f) /\ w.f.phase = "harvest" /\ w.col = Parts /\ w.sky # "rain" => w.f.work = 0

LeftIn(l) ==
  /\ DOMAIN l = {"last", "orders", "chains", "marks", "dung", "seeds", "column"}
  /\ l.last \in Nat /\ l.orders \in Nat /\ l.chains \subseteq Chain /\ l.seeds \subseteq 0..2

FieldInv ==
  /\ IsWorld(world) /\ Tilled(world) /\ HayIn(world)
  /\ hour \in 0..LastHour /\ LeftIn(left)
  /\ world.b.rests \in {0, 1}
  /\ ~(hour = 0 /\ NewYear(world)) => RestsBy(world, world.day)
  /\ hour = LastHour => NightIn(world)
  /\ hour \in 1..(LastHour - 1) => DayIn(world)

-----------------------------------------------------------------------------
(* Frames.                                                                 *)

\* A world by its columns alone.
Shaped(w) ==
  /\ DOMAIN w = {"f", "day", "air", "sky", "cover", "col", "b"}
  /\ DOMAIN w.f = RowColumns
  /\ DOMAIN w.b = {"whole", "laid", "short", "hay", "broken", "slot", "used", "excused",
                   "rests", "said"}

\* The day, the weather, the column and the accounts stay.
Beside(w, v) ==
  /\ DOMAIN v = DOMAIN w
  /\ v.day = w.day /\ v.air = w.air /\ v.sky = w.sky /\ v.cover = w.cover /\ v.col = w.col
  /\ DOMAIN v.b = DOMAIN w.b
  /\ v.b.hay = w.b.hay /\ v.b.rests = w.b.rests /\ (v.b.broken <=> w.b.broken)

\* What every operation does: it keeps the world, the day and the accounts.
Goes(w, v, day) ==
  /\ IsWorld(v)
  /\ v.day = w.day /\ v.air = w.air /\ v.sky = w.sky /\ v.cover = w.cover
  /\ RestsBy(w, day) => RestsBy(v, day)
  /\ HayOf(w) => HayOf(v)

\* No cut is begun and no hay is laid but of the one under way.
Quiet(w, v) == ~Mowing(w) => ~Mowing(v) /\ v.b.hay \in {0, w.b.hay}

\* One operation after another.
LEMMA GoesOn ==
  ASSUME NEW w, NEW v, NEW u, NEW day, Goes(w, v, day), Goes(v, u, day)
  PROVE  Goes(w, u, day)
  BY DEF Goes

\* And none at all.
LEMMA Remains ==
  ASSUME NEW w, NEW day, IsWorld(w)
  PROVE  Goes(w, w, day)
  BY DEF Goes

\* A world has the columns of one.
LEMMA WorldIsShaped ==
  ASSUME NEW w, IsWorld(w)
  PROVE  Shaped(w)
  BY DEF Shaped, IsWorld, IsRow, Typed

\* A change of the row that is not a cut's.
LEMMA RowStep ==
  ASSUME NEW w, NEW v, NEW day, IsWorld(w), Beside(w, v), IsRow(v.f),
         Rested(w.f, day) => Rested(v.f, day),
         ~Mowing(w), ~Mowing(v), v.f.mown_day = w.f.mown_day
  PROVE  Goes(w, v, day) /\ Quiet(w, v) /\ v.col = w.col
<1>1. IsWorld(v)
  BY DEF IsWorld, Beside
<1>2. HayOf(w) => HayOf(v)
  BY DEF HayOf, Beside
<1>3. RestsBy(w, day) => RestsBy(v, day)
  BY DEF RestsBy, Beside
<1> QED BY <1>1, <1>2, <1>3 DEF Goes, Beside, Quiet

\* A change of the row that the cut does not see.
LEMMA CutStands ==
  ASSUME NEW w, NEW v, NEW day, IsWorld(w), Beside(w, v), IsRow(v.f),
         Rested(w.f, day) => Rested(v.f, day),
         v.f.kind = w.f.kind, v.f.phase = w.f.phase, v.f.laid_grams = w.f.laid_grams,
         v.f.mown_day = w.f.mown_day
  PROVE  Goes(w, v, day) /\ Quiet(w, v) /\ v.col = w.col
<1>1. IsWorld(v)
  BY DEF IsWorld, Beside
<1>2. HayOf(w) => HayOf(v)
  BY DEF HayOf, Beside, Mowing
<1>3. RestsBy(w, day) => RestsBy(v, day)
  BY DEF RestsBy, Beside
<1> QED BY <1>1, <1>2, <1>3 DEF Goes, Beside, Quiet, Mowing

\* Another stage of the column is another column of the same world.
LEMMA ColumnMoves ==
  ASSUME NEW w, IsWorld(w), NEW n \in {Never} \cup 0..Parts, NEW day
  PROVE  LET v == [w EXCEPT !.col = n]
         IN Goes(w, v, day) /\ Quiet(w, v) /\ v.col = n /\ v.f = w.f /\ v.b = w.b
<1> DEFINE v == [w EXCEPT !.col = n]
<1>1. /\ DOMAIN v = DOMAIN w /\ v.f = w.f /\ v.day = w.day /\ v.air = w.air
      /\ v.sky = w.sky /\ v.cover = w.cover /\ v.b = w.b /\ v.col = n
  BY DEF IsWorld
<1> HIDE DEF v
<1>2. IsWorld(v)
  BY <1>1 DEF IsWorld
<1>3. RestsBy(w, day) => RestsBy(v, day)
  BY <1>1 DEF RestsBy
<1>4. HayOf(w) => HayOf(v)
  BY <1>1 DEF HayOf, Mowing
<1> QED BY <1>1, <1>2, <1>3, <1>4 DEF Goes, Quiet, Mowing, v

-----------------------------------------------------------------------------
(* What a reaping lays.                                                    *)

\* What a stand loses in a summer is a number.
LEMMA StandIs ==
  ASSUME NEW f, Typed(f)
  PROVE  StandOfSummer(f).loss \in Nat
<1>1. Len(Summers) \in Nat /\ Len(Summers) > 0
  BY AmountsAssumption
<1> DEFINE i == Least(IF f.summers = 0 THEN 1 ELSE f.summers, Len(Summers))
<1>2. i \in 1..Len(Summers)
  BY <1>1 DEF Typed, Least
<1> HIDE DEF i
<1>3. Summers[i] \in [loss : Nat, banks : BOOLEAN]
  BY <1>2, AmountsAssumption, ElementOfSeq
<1>4. Summers[i].loss \in Nat
  BY <1>3
<1> QED BY <1>4 DEF StandOfSummer, i

\* So is what a sowing is late by.
LEMMA LateIs ==
  ASSUME NEW c \in Crops, c # None, NEW day \in Nat
  PROVE  LateOnDay(c, day) \in Nat
<1>1. Crop[c].to \in Nat /\ DaysPerMonth \in Nat
  BY CropIs, Calendar
<1>2. Crop[c].to + 1 \in Nat
  BY <1>1
<1>3. (Crop[c].to + 1) * DaysPerMonth \in Nat
  BY <1>1, <1>2, Products
<1>4. (Crop[c].to + 1) * DaysPerMonth - 1 \in Int
  BY <1>3
<1>5. DayOfYear(day) \in Int
  BY Dates
<1>6. Above(DayOfYear(day), (Crop[c].to + 1) * DaysPerMonth - 1) \in Nat
  BY <1>4, <1>5, LeastIs
<1> QED BY <1>6 DEF LateOnDay

\* And what a field gives.
LEMMA YieldIs ==
  ASSUME NEW f, Typed(f), f.crop # None
  PROVE  Yield(f) \in Nat
<1>1. LateSowing(f) \in Nat
  BY LateIs DEF LateSowing, Typed, Stamp
<1>2. SoilFertility(f) \in Int
  BY Numbers DEF SoilFertility, Least, Typed
<1> DEFINE loss == IF Ages(f.crop) THEN StandOfSummer(f).loss ELSE 0
<1>3. loss \in Nat
  BY StandIs
<1> HIDE DEF loss
<1> DEFINE x == Above(SoilFertility(f), loss + f.stress + LateSowing(f))
<1>4. x \in Nat
  BY <1>1, <1>2, <1>3 DEF Above, Typed
<1> HIDE DEF x
<1>5. f.sown_share \in Nat
  BY DEF Typed
<1>6. f.sown_share * x \in Nat
  BY <1>4, <1>5, Products
<1> QED BY <1>6 DEF Yield, x, loss

\* What is laid at once is a number, of a share that is one of the parts.
LEMMA LaidNowIs ==
  ASSUME NEW f, Typed(f), Laying(f), f.phase = "harvest", NEW whole \in Nat
  PROVE  LaidNow(f, whole) \in Nat /\ MownShareNow(f) \in 0..Parts
<1>1. /\ f.harvest_work = Parts /\ f.work \in 0..Parts /\ Parts \in Nat /\ Parts > 0
      /\ f.laid_share \in 0..Parts /\ f.laid_grams \in Nat
  BY Numbers DEF Typed, Laying
<1>2. MownShareNow(f) \in 0..Parts
  BY <1>1 DEF MownShareNow
<1>3. Above(whole, f.laid_grams) \in Nat
  BY <1>1 DEF Above
<1>4. ASSUME MownShareNow(f) > f.laid_share
      PROVE  (whole * (MownShareNow(f) - f.laid_share)) \div f.harvest_work \in Nat
  <2> DEFINE n == MownShareNow(f) - f.laid_share
  <2>1. n \in Nat
    BY <1>1, <1>2, <1>4
  <2> HIDE DEF n
  <2> DEFINE m == whole * n
  <2>2. m \in Nat
    BY <2>1, Products
  <2> HIDE DEF m
  <2>3. m \div Parts \in Nat
    BY <1>1, <2>2, Divided
  <2> QED BY <1>1, <2>3 DEF m, n
<1>5. ~(MownShareNow(f) <= f.laid_share) => MownShareNow(f) > f.laid_share
  BY <1>1, <1>2
<1> QED BY <1>2, <1>3, <1>4, <1>5 DEF LaidNow

\* The meadow's shares never lay more than their part of the season's hay.
LEMMA MeadowShare ==
  ASSUME NEW f, Typed(f), Laying(f), f.kind = "meadow", f.phase = "harvest"
  PROVE  LET grams == LaidNow(f, SeasonHay)
             share == IF MownShareNow(f) > f.laid_share THEN MownShareNow(f) ELSE f.laid_share
         IN /\ grams \in Nat /\ share \in 0..Parts
            /\ (f.laid_grams + grams) * Parts <= SeasonHay * share
<1> DEFINE s == f.laid_share  g == f.laid_grams  m == MownShareNow(f)  H == SeasonHay
           P == Parts
<1>1. /\ s \in 0..P /\ g \in Nat /\ m \in 0..P /\ H \in Nat /\ P \in Nat /\ P > 0
      /\ g * P <= H * s /\ f.harvest_work = P /\ LaidNow(f, H) \in Nat
  BY Numbers, LaidNowIs DEF Laying
<1>2. LaidNow(f, H) = IF m > s /\ m = P THEN Above(H, g)
                      ELSE IF m <= s THEN 0 ELSE (H * (m - s)) \div P
  BY <1>1 DEF LaidNow
<1> HIDE DEF s, g, m, H, P
<1>3. CASE m > s /\ m = P
  <2>1. Above(H, g) = (IF g <= H THEN H - g ELSE 0)
    BY <1>1 DEF Above
  <2>2. ASSUME g > H PROVE FALSE
    <3> DEFINE d == g - (H + 1)  e == P - s
    <3>1. d \in Nat /\ g = (H + 1) + d /\ e \in Nat /\ P = s + e
      BY <1>1, <2>2
    <3> HIDE DEF d, e
    <3>2. (H + 1) \in Nat /\ g * P = (H + 1) * P + d * P /\ (H + 1) * P = H * P + 1 * P
          /\ d * P \in Nat /\ H * P = H * (s + e) /\ H * (s + e) = H * s + H * e
          /\ H * e \in Nat /\ H * s \in Nat /\ 1 * P = P
      BY <1>1, <3>1, Products
    <3> QED BY <1>1, <3>2
  <2>3. g + LaidNow(f, H) = H
    BY <1>1, <1>2, <1>3, <2>1, <2>2
  <2>4. H * P <= H * m
    BY <1>1, <1>3
  <2> QED BY <1>1, <1>3, <2>3, <2>4 DEF s, g, m, H, P
<1>4. CASE m <= s
  <2>1. LaidNow(f, H) = 0 /\ g + 0 = g
    BY <1>1, <1>2, <1>4
  <2>2. (g + LaidNow(f, H)) * P <= H * s
    BY <1>1, <2>1
  <2> QED BY <1>1, <1>4, <2>2 DEF s, g, m, H, P
<1>5. CASE m > s /\ m # P
  <2> DEFINE e == m - s  q == (H * e) \div P  h == H * e
  <2>1. e \in Nat /\ m = s + e
    BY <1>1, <1>5
  <2> HIDE DEF e
  <2>2. h \in Nat /\ q = h \div P
    BY <1>1, <2>1, Products
  <2> HIDE DEF h, q
  <2>3. q \in Nat /\ q * P <= h
    BY <1>1, <2>2, Divided
  <2>4. LaidNow(f, H) = q
    BY <1>1, <1>2, <1>5 DEF q, e
  <2>5. (g + q) * P = g * P + q * P /\ H * (s + e) = H * s + H * e /\ g * P \in Nat
        /\ H * s \in Nat /\ q * P \in Nat /\ H * m = H * (s + e)
    BY <1>1, <2>1, <2>3, Products
  <2>6. (g + q) * P <= H * m
    BY <1>1, <2>2, <2>3, <2>5 DEF h
  <2> QED BY <1>1, <1>5, <2>4, <2>6 DEF s, g, m, H, P
<1> QED BY <1>1, <1>3, <1>4, <1>5

\* A share of the whole is no more than the whole.
LEMMA ShareOfHay ==
  ASSUME NEW f, Laying(f), f.kind = "meadow", f.phase = "harvest"
  PROVE  f.laid_grams <= SeasonHay /\ (f.laid_share = 0 => f.laid_grams = 0)
<1> DEFINE s == f.laid_share  g == f.laid_grams  H == SeasonHay  P == Parts
<1>1. s \in 0..P /\ g \in Nat /\ H \in Nat /\ P \in Nat /\ P > 0 /\ g * P <= H * s
  BY Numbers DEF Laying
<1> HIDE DEF s, g, H, P
<1>2. ASSUME g > H PROVE FALSE
  <2> DEFINE d == g - (H + 1)  e == P - s
  <2>1. d \in Nat /\ g = (H + 1) + d /\ e \in Nat /\ P = s + e
    BY <1>1, <1>2
  <2> HIDE DEF d, e
  <2>2. (H + 1) \in Nat /\ g * P = (H + 1) * P + d * P /\ (H + 1) * P = H * P + 1 * P
        /\ d * P \in Nat /\ H * P = H * (s + e) /\ H * (s + e) = H * s + H * e
        /\ H * e \in Nat /\ H * s \in Nat /\ 1 * P = P
    BY <1>1, <2>1, Products
  <2> QED BY <1>1, <2>2
<1>3. ASSUME s = 0 PROVE g = 0
  <2>1. H * s = 0
    BY <1>1, <1>3
  <2>2. g > 0 => g * P > 0
    BY <1>1, Products
  <2> QED BY <1>1, <2>1, <2>2
<1> QED BY <1>1, <1>2, <1>3 DEF s, g, H, P

-----------------------------------------------------------------------------
(* The reaping and the cut.                                                *)

\* What the day's shares leave of the row as it was.
SameStage(f, g) ==
  /\ g.kind = f.kind /\ g.phase = f.phase /\ g.crop = f.crop /\ g.work = f.work
  /\ g.furrowing = f.furrowing /\ g.mown_day = f.mown_day /\ g.reaped_day = f.reaped_day
  /\ g.rest_owed = f.rest_owed

\* Work done on the row.
LEMMA WorkMoves ==
  ASSUME NEW w, IsWorld(w), NEW n \in 0..Parts, w.f.phase = "idle" => n = w.f.work, NEW day
  PROVE  LET v == [w EXCEPT !.f.work = n]
         IN /\ Goes(w, v, day) /\ Quiet(w, v) /\ v.col = w.col /\ v.b = w.b
            /\ v.f = [w.f EXCEPT !.work = n] /\ v.f.work = n
            /\ SameStage([w.f EXCEPT !.work = n], v.f) /\ v.f.kind = w.f.kind
            /\ v.f.phase = w.f.phase /\ v.f.crop = w.f.crop /\ v.f.furrowing = w.f.furrowing
            /\ v.f.rest_owed = w.f.rest_owed
<1> DEFINE v == [w EXCEPT !.f.work = n]  g == [w.f EXCEPT !.work = n]
<1>1. IsRow(w.f) /\ Shaped(w)
  BY WorldIsShaped DEF IsWorld
<1>2. v.f = g /\ v.b = w.b /\ Beside(w, v)
  BY <1>1 DEF Shaped, Beside
<1> HIDE DEF v
<1>3. /\ DOMAIN g = RowColumns /\ g.work = n /\ SameStage([w.f EXCEPT !.work = n], g)
      /\ g.kind = w.f.kind /\ g.phase = w.f.phase /\ g.crop = w.f.crop
      /\ g.furrowing = w.f.furrowing /\ g.rest_owed = w.f.rest_owed
      /\ g.mown_day = w.f.mown_day /\ g.laid_grams = w.f.laid_grams
      /\ g.reaped_day = w.f.reaped_day
  BY <1>1 DEF Shaped, RowColumns, SameStage
<1>4. IsRow(g)
  <2>1. Typed(g)
    BY <1>1 DEF IsRow, Typed, RowColumns
  <2>2. Laying(g)
    BY <1>1 DEF IsRow, Typed, Laying, RowColumns
  <2>3. Standing(g)
    BY <1>1 DEF IsRow, Typed, Standing, RowColumns
  <2>4. Furrow(g)
    BY <1>1 DEF IsRow, Typed, Furrow, RowColumns
  <2>5. Soil(g)
    BY <1>1 DEF IsRow, Typed, Soil, RowColumns
  <2> QED BY <2>1, <2>2, <2>3, <2>4, <2>5 DEF IsRow
<1>5. Rested(w.f, day) => Rested(g, day)
  BY <1>3 DEF Rested
<1> HIDE DEF g
<1>6. Goes(w, v, day) /\ Quiet(w, v) /\ v.col = w.col
  BY <1>2, <1>3, <1>4, <1>5, CutStands
<1> QED BY <1>2, <1>3, <1>6 DEF v, g

\* A share laid of a crop.
LEMMA LayReapedGoes ==
  ASSUME NEW w, IsWorld(w), NEW day
  PROVE  LET v == LayReapedShare(w)
         IN /\ Goes(w, v, day) /\ Quiet(w, v) /\ v.col = w.col
            /\ SameStage(w.f, v.f) /\ (v.b.broken <=> w.b.broken)
<1> DEFINE f == w.f  v == LayReapedShare(w)  grams == LaidNow(f, Yield(f))
           share == IF MownShareNow(f) > f.laid_share THEN MownShareNow(f) ELSE f.laid_share
           load == IF grams > 0 THEN f.crop ELSE f.heap
           sum == f.laid_grams + grams
           g == [f EXCEPT !.laid_share = share, !.laid_grams = sum, !.heap = load]
<1>1. IsRow(f) /\ Shaped(w)
  BY WorldIsShaped DEF IsWorld
<1>2. CASE ~(Arable(f) /\ f.phase = "harvest" /\ f.crop # None)
  <2>1. v = w
    BY <1>2 DEF LayReapedShare
  <2> QED BY <2>1, Remains DEF Quiet, SameStage, Mowing
<1>3. CASE Arable(f) /\ f.phase = "harvest" /\ f.crop # None
  <2>1. grams \in Nat /\ MownShareNow(f) \in 0..Parts
    BY <1>1, <1>3, YieldIs, LaidNowIs DEF IsRow
  <2>2. share \in 0..Parts /\ sum \in Nat
    BY <1>1, <2>1 DEF IsRow, Laying
  <2>3. v = [w EXCEPT !.f = g, !.b.laid = @ + grams]
    BY <1>1, <1>3, <2>1 DEF LayReapedShare, LayShare, Shaped, RowColumns
  <2> HIDE DEF share, sum, load, grams
  <2>4. v.f = g /\ Beside(w, v)
    BY <1>1, <2>3 DEF Shaped, Beside
  <2> HIDE DEF v
  <2>5. /\ DOMAIN g = RowColumns /\ SameStage(f, g)
        /\ g.laid_share = share /\ g.laid_grams = sum
    BY <1>1 DEF Shaped, RowColumns, SameStage
  <2>6. IsRow(g)
    <3>1. Typed(g)
      BY <1>1 DEF IsRow, Typed, RowColumns
    <3>2. Laying(g)
      BY <1>1, <1>3, <2>2 DEF IsRow, Typed, Laying, RowColumns, Arable
    <3>3. Standing(g)
      BY <1>1 DEF IsRow, Typed, Standing, RowColumns
    <3>4. Furrow(g)
      BY <1>1 DEF IsRow, Typed, Furrow, RowColumns
    <3>5. Soil(g)
      BY <1>1 DEF IsRow, Typed, Soil, RowColumns
    <3> QED BY <3>1, <3>2, <3>3, <3>4, <3>5 DEF IsRow
  <2>7. Rested(f, day) => Rested(g, day)
    BY <2>5 DEF Rested, SameStage
  <2> HIDE DEF g
  <2>8. ~Mowing(w) /\ ~Mowing(v)
    BY <1>3, <2>4, <2>5 DEF Mowing, Arable, SameStage
  <2> QED BY <2>4, <2>5, <2>6, <2>7, <2>8, RowStep DEF SameStage, v, Beside
<1> QED BY <1>2, <1>3

\* A share laid of the hay.
LEMMA LayMownGoes ==
  ASSUME NEW w, IsWorld(w), NEW day
  PROVE  LET v == LayMownShare(w)
         IN /\ Goes(w, v, day) /\ Quiet(w, v) /\ v.col = w.col
            /\ SameStage(w.f, v.f) /\ (v.b.broken <=> w.b.broken)
            /\ (~Mowing(w) => v = w)
<1> DEFINE f == w.f  v == LayMownShare(w)  grams == LaidNow(f, SeasonHay)
           share == IF MownShareNow(f) > f.laid_share THEN MownShareNow(f) ELSE f.laid_share
           load == IF grams > 0 THEN "hay" ELSE f.heap
           sum == f.laid_grams + grams
           g == [f EXCEPT !.laid_share = share, !.laid_grams = sum, !.heap = load]
<1>1. IsRow(f) /\ Shaped(w)
  BY WorldIsShaped DEF IsWorld
<1>2. CASE ~Mowing(w)
  <2>1. v = w
    BY <1>2 DEF LayMownShare, Mowing
  <2> QED BY <2>1, Remains DEF Quiet, SameStage, Mowing
<1>3. CASE Mowing(w)
  <2>1. grams \in Nat /\ share \in 0..Parts /\ sum * Parts <= SeasonHay * share
    BY <1>1, <1>3, MeadowShare DEF IsRow, Mowing
  <2>2. sum \in Nat /\ w.b.hay + grams \in Nat
    BY <1>1, <2>1 DEF IsRow, Laying, IsWorld
  <2>3. v = [w EXCEPT !.f = g, !.b.hay = @ + grams]
    BY <1>1, <1>3, <2>1 DEF LayMownShare, LayShare, Shaped, RowColumns, Mowing
  <2> HIDE DEF share, load, grams
  <2>4. /\ v.f = g /\ DOMAIN v = DOMAIN w /\ v.b = [w.b EXCEPT !.hay = @ + grams]
        /\ v.day = w.day /\ v.air = w.air /\ v.sky = w.sky /\ v.cover = w.cover
        /\ v.col = w.col
    BY <1>1, <2>3 DEF Shaped
  <2>5. /\ DOMAIN v.b = DOMAIN w.b /\ v.b.hay = w.b.hay + grams /\ v.b.rests = w.b.rests
        /\ v.b.broken = w.b.broken
    BY <1>1, <2>4 DEF Shaped
  <2> HIDE DEF v
  <2>6. /\ DOMAIN g = RowColumns /\ SameStage(f, g)
        /\ g.laid_share = share /\ g.laid_grams = f.laid_grams + grams
    BY <1>1 DEF Shaped, RowColumns, SameStage
  <2> HIDE DEF sum
  <2>7. IsRow(g)
    <3>1. Typed(g)
      BY <1>1 DEF IsRow, Typed, RowColumns
    <3>2. Laying(g)
      BY <1>1, <1>3, <2>1, <2>2 DEF IsRow, Typed, Laying, RowColumns, Mowing
    <3>3. Standing(g)
      BY <1>1 DEF IsRow, Typed, Standing, RowColumns
    <3>4. Furrow(g)
      BY <1>1 DEF IsRow, Typed, Furrow, RowColumns
    <3>5. Soil(g)
      BY <1>1 DEF IsRow, Typed, Soil, RowColumns
    <3> QED BY <3>1, <3>2, <3>3, <3>4, <3>5 DEF IsRow
  <2>8. Rested(f, day) => Rested(g, day)
    BY <2>6 DEF Rested, SameStage
  <2> HIDE DEF g
  <2>9. IsWorld(v)
    BY <2>2, <2>4, <2>5, <2>7 DEF IsWorld
  <2>10. RestsBy(w, day) => RestsBy(v, day)
    BY <2>4, <2>5, <2>8 DEF RestsBy
  <2>11. Mowing(v)
    BY <1>3, <2>4, <2>6 DEF Mowing, SameStage
  <2>12. HayOf(w) => HayOf(v)
    <3> SUFFICES ASSUME HayOf(w), ~v.b.broken
                 PROVE  v.b.hay <= SeasonHay /\ v.b.hay = v.f.laid_grams
      BY <2>11 DEF HayOf
    <3>1. w.b.hay = f.laid_grams
      BY <1>3, <2>5 DEF HayOf
    <3>2. v.b.hay = v.f.laid_grams
      BY <2>4, <2>5, <2>6, <3>1
    <3>3. v.f.laid_grams <= SeasonHay
      BY <2>4, <2>7, <2>11, ShareOfHay DEF IsRow, Mowing
    <3> QED BY <3>2, <3>3
  <2> QED BY <1>3, <2>4, <2>5, <2>6, <2>9, <2>10, <2>12 DEF Goes, Quiet, SameStage, v
<1> QED BY <1>2, <1>3

\* The meadow back to grass, with the day of the cut when there was one.
LEMMA GrassGoes ==
  ASSUME NEW w, IsWorld(w), Mowing(w), NEW mown \in BOOLEAN,
         mown \/ w.f.laid_share = 0, NEW day
  PROVE  LET v == [w EXCEPT !.f = GrassAgain(@, mown, w.day)]
         IN /\ Goes(w, v, day) /\ v.col = w.col /\ v.b = w.b
            /\ v.f.kind = "meadow" /\ v.f.phase = "growing"
<1> DEFINE f == w.f  v == [w EXCEPT !.f = GrassAgain(@, mown, w.day)]
           stamp == IF mown THEN w.day ELSE f.mown_day
           g == [f EXCEPT !.work = 0, !.harvest_work = 0, !.laid_share = 0, !.laid_grams = 0,
                          !.mown_day = stamp, !.phase = "growing"]
<1>1. IsRow(f) /\ Shaped(w) /\ w.day \in Nat
  BY WorldIsShaped DEF IsWorld
<1>2. v = [w EXCEPT !.f = g]
  BY <1>1 DEF GrassAgain, NoReaping, Shaped, RowColumns
<1>3. stamp \in Stamp
  BY <1>1 DEF Stamp, IsRow, Typed
<1> HIDE DEF stamp
<1>4. v.f = g /\ v.b = w.b /\ Beside(w, v)
  BY <1>1, <1>2 DEF Shaped, Beside
<1> HIDE DEF v
<1>5. /\ DOMAIN g = RowColumns /\ g.kind = "meadow" /\ g.phase = "growing"
      /\ g.mown_day = stamp /\ g.reaped_day = f.reaped_day
  BY <1>1, Mowing(w) DEF Shaped, RowColumns, Mowing
<1>6. IsRow(g)
  <2>1. Typed(g)
    BY <1>1, <1>3, Numbers DEF IsRow, Typed, RowColumns
  <2>2. Laying(g)
    BY <1>1, Numbers DEF IsRow, Typed, Laying, RowColumns
  <2>3. Standing(g)
    BY <1>1, Mowing(w) DEF IsRow, Typed, Standing, RowColumns, Mowing
  <2>4. Furrow(g)
    BY <1>1, Mowing(w) DEF IsRow, Typed, Furrow, RowColumns, Mowing
  <2>5. Soil(g)
    BY <1>1 DEF IsRow, Typed, Soil, RowColumns
  <2> QED BY <2>1, <2>2, <2>3, <2>4, <2>5 DEF IsRow
<1> HIDE DEF g
<1>7. Rested(f, day) => Rested(g, day)
  BY <1>5, Mowing(w) DEF Rested, Mowing
<1>8. IsWorld(v)
  BY <1>4, <1>6 DEF IsWorld, Beside
<1>9. RestsBy(w, day) => RestsBy(v, day)
  BY <1>4, <1>7 DEF RestsBy
<1>10. HayOf(w) => HayOf(v)
  <2> SUFFICES ASSUME HayOf(w), ~w.b.broken
               PROVE  /\ w.b.hay <= SeasonHay
                      /\ w.b.hay # 0 => ThisYear(v.f.mown_day, v.day)
    BY <1>4, <1>5 DEF HayOf, Mowing
  <2>1. w.b.hay <= SeasonHay /\ w.b.hay = f.laid_grams
    BY Mowing(w) DEF HayOf
  <2>2. CASE mown
    <3>1. v.f.mown_day = v.day /\ v.day # Never
      BY <1>1, <1>4, <1>5, <2>2, Numbers DEF stamp, Beside
    <3> QED BY <2>1, <3>1 DEF ThisYear
  <2>3. CASE w.f.laid_share = 0
    <3>1. f.laid_grams = 0
      BY <1>1, <2>3, ShareOfHay, Mowing(w) DEF IsRow, Mowing
    <3> QED BY <2>1, <3>1
  <2> QED BY <2>2, <2>3
<1> QED BY <1>4, <1>5, <1>8, <1>9, <1>10 DEF Goes, Beside, v

\* A meadow mown through keeps the account of its hay (FinishHarvest).
LEMMA MowGoes ==
  ASSUME NEW w, IsWorld(w), Mowing(w), NEW day
  PROVE  LET v == MowMeadow(w)
         IN Goes(w, v, day) /\ v.col = w.col /\ v.f.kind = "meadow" /\ v.f.phase = "growing"
<1> DEFINE a == [w EXCEPT !.f.work = 0]  b == LayMownShare(a)
<1>1. 0 \in 0..Parts
  BY Numbers
<1>2. Goes(w, a, day) /\ a.col = w.col /\ Mowing(a)
  BY <1>1, WorkMoves, Mowing(w) DEF Mowing
<1>3. IsWorld(a) /\ a.day = w.day
  BY <1>2 DEF Goes
<1> HIDE DEF a
<1>4. Goes(a, b, day) /\ b.col = a.col /\ SameStage(a.f, b.f)
  BY <1>3, LayMownGoes
<1>5. IsWorld(b) /\ Mowing(b) /\ b.day = w.day
  BY <1>2, <1>3, <1>4 DEF Goes, Mowing, SameStage
<1> HIDE DEF b
<1> DEFINE v == [b EXCEPT !.f = GrassAgain(@, TRUE, b.day)]
<1>6. Goes(b, v, day) /\ v.col = b.col /\ v.f.kind = "meadow" /\ v.f.phase = "growing"
  BY <1>5, GrassGoes
<1>7. MowMeadow(w) = v
  BY <1>5 DEF MowMeadow, a, b
<1> HIDE DEF v
<1> QED BY <1>2, <1>4, <1>6, <1>7, GoesOn

\* And one whose cut the season closes (CloseMeadowCut).
LEMMA CloseCutGoes ==
  ASSUME NEW w, IsWorld(w), Mowing(w), NEW day
  PROVE  LET v == CloseMeadowCut(w)
         IN Goes(w, v, day) /\ v.col = w.col /\ v.f.kind = "meadow" /\ v.f.phase = "growing"
<1> DEFINE b == LayMownShare(w)
<1>1. Goes(w, b, day) /\ b.col = w.col /\ SameStage(w.f, b.f)
  BY LayMownGoes
<1>2. IsWorld(b) /\ Mowing(b) /\ b.day = w.day
  BY <1>1, Mowing(w) DEF Goes, Mowing, SameStage
<1>3. b.f.laid_share \in Nat
  BY <1>2, Numbers DEF IsWorld, IsRow, Laying
<1> HIDE DEF b
<1> DEFINE mown == b.f.laid_share > 0
           v == [b EXCEPT !.f = GrassAgain(@, mown, b.day)]
<1>4. mown \in BOOLEAN /\ (mown \/ b.f.laid_share = 0)
  BY <1>3
<1>5. CloseMeadowCut(w) = v
  BY <1>2, WorldIsShaped DEF CloseMeadowCut, b, Shaped, mown
<1> HIDE DEF mown
<1>6. Goes(b, v, day) /\ v.col = b.col /\ v.f.kind = "meadow" /\ v.f.phase = "growing"
  BY <1>2, <1>4, GrassGoes
<1> HIDE DEF v
<1> QED BY <1>1, <1>5, <1>6, GoesOn

\* What a crop leaves in the soil is within its bounds.
LEMMA SoilIs ==
  ASSUME NEW f, Typed(f), f.crop # None
  PROVE  /\ Repeated(f) \in 0..PenaltyYears /\ SoilAfter(f) \in FloorSoil..FullSoil
         /\ SoilFertility(f) \in FloorSoil..FullSoil
<1>1. /\ f.repeat_years \in Nat /\ PenaltyYears \in Nat /\ f.fertility \in Nat
      /\ f.fertility >= FloorSoil /\ FloorSoil \in Nat /\ FullSoil \in Nat
      /\ FloorSoil <= FullSoil /\ Crop[f.crop].delta \in Int
  BY Numbers, CropIs DEF Typed
<1>2. Repeated(f) \in 0..PenaltyYears
  BY <1>1 DEF Repeated, Least
<1> DEFINE banked == IF Ages(f.crop) /\ ~StandOfSummer(f).banks THEN 0 ELSE Crop[f.crop].delta
           soil == f.fertility + banked - Repeated(f)
<1>3. banked \in Int
  BY <1>1
<1> HIDE DEF banked
<1>4. soil \in Int
  BY <1>1, <1>2, <1>3
<1> HIDE DEF soil
<1>5. Least(IF soil < FloorSoil THEN FloorSoil ELSE soil, FullSoil) \in FloorSoil..FullSoil
  BY <1>1, <1>4 DEF Least
<1>6. SoilAfter(f) \in FloorSoil..FullSoil
  BY <1>5 DEF SoilAfter, soil, banked
<1>7. SoilFertility(f) \in FloorSoil..FullSoil
  BY <1>1 DEF SoilFertility, Least
<1> QED BY <1>2, <1>6, <1>7

\* The snow takes no winter crop, so it takes no rest that was had (LoseFieldToSnow).
LEMMA SnowGoes ==
  ASSUME NEW w, IsWorld(w), Arable(w.f), w.f.phase \in {"growing", "harvest"},
         w.f.crop # None, ~Winter(w.f.crop), NEW day
  PROVE  LET v == LoseFieldToSnow(w)
         IN /\ Goes(w, v, day) /\ v.col = w.col /\ v.f.kind = "arable" /\ v.f.phase = "idle"
            /\ ~v.f.furrowing /\ v.b.hay \in {0, w.b.hay}
<1> DEFINE u == LayReapedShare(w)
<1>0. Goes(w, u, day) /\ u.col = w.col /\ SameStage(w.f, u.f) /\ Quiet(w, u) /\ ~Mowing(w)
  BY LayReapedGoes DEF Arable, Mowing
<1>1. Goes(w, u, day) /\ u.col = w.col /\ SameStage(w.f, u.f) /\ u.b.hay \in {0, w.b.hay}
  BY <1>0 DEF Quiet
<1>2. /\ IsWorld(u) /\ u.f.kind = "arable" /\ u.f.phase \in {"growing", "harvest"}
      /\ u.f.crop # None /\ ~Winter(u.f.crop)
  BY <1>1 DEF Goes, SameStage, Arable
<1> HIDE DEF u
<1> DEFINE f == u.f
           history == EndReaping(u.b, IF f.phase = "harvest" THEN u.b.whole ELSE Yield(f),
                                 StandingYield(f))
           v == [u EXCEPT !.f = LostUnderSnow(@), !.b = history]
           soil == SoilFertility(f)
           g == [f EXCEPT !.work = 0, !.harvest_work = 0, !.laid_share = 0, !.laid_grams = 0,
                   !.last_crop = f.crop, !.repeat_years = 0, !.crop = None, !.phase = "idle",
                   !.stress = 0, !.applied = 0, !.booked = FALSE, !.fertility = soil]
<1>3. IsRow(f) /\ Shaped(u)
  BY <1>2, WorldIsShaped DEF IsWorld
<1>4. LoseFieldToSnow(w) = v
  BY <1>3 DEF LoseFieldToSnow, u, Shaped
<1>5. /\ DOMAIN history = DOMAIN u.b /\ history.hay = u.b.hay /\ history.rests = u.b.rests
      /\ history.broken = u.b.broken
  BY <1>3 DEF EndReaping, Shaped
<1>6. soil \in FloorSoil..FullSoil
  BY <1>2, <1>3, SoilIs DEF IsRow
<1>7. LostUnderSnow(f) = g
  BY <1>3 DEF LostUnderSnow, NoReaping, Shaped, RowColumns
<1> HIDE DEF soil, history
<1>8. v.f = g /\ Beside(u, v)
  BY <1>3, <1>5, <1>7 DEF Shaped, Beside
<1> HIDE DEF v
<1>9. /\ DOMAIN g = RowColumns /\ g.kind = "arable" /\ g.phase = "idle" /\ g.crop = None
      /\ g.reaped_day = f.reaped_day /\ g.rest_owed = f.rest_owed /\ g.mown_day = f.mown_day
      /\ ~g.furrowing
  BY <1>2, <1>3 DEF Shaped, RowColumns, IsRow, Furrow
<1>10. IsRow(g)
  <2>1. Typed(g)
    <3>1. 0 \in 0..Norm /\ 0 \in 0..PenaltyYears /\ 0 \in 0..Parts /\ 0 \in Nat
          /\ soil \in FloorSoil..(FullSoil + Norm) /\ None \in Crops
      BY <1>6, Numbers DEF Crops
    <3>2. Typed(f)
      BY <1>3 DEF IsRow
    <3> HIDE DEF f
    <3> QED BY <1>3, <3>1, <3>2 DEF Typed, RowColumns
  <2>2. Laying(g)
    BY <1>2, <1>3, Numbers DEF IsRow, Typed, Laying, RowColumns
  <2>3. Standing(g)
    BY <1>2, <1>3 DEF IsRow, Typed, Standing, RowColumns
  <2>4. Furrow(g)
    BY <1>2, <1>3 DEF IsRow, Typed, Furrow, RowColumns
  <2>5. Soil(g)
    BY <1>3, <1>6, Numbers DEF IsRow, Typed, Soil, RowColumns
  <2> QED BY <2>1, <2>2, <2>3, <2>4, <2>5 DEF IsRow
<1>11. Rested(f, day) => Rested(g, day)
  BY <1>2, <1>3, <1>9 DEF Rested, IsRow, Standing
<1> HIDE DEF g
<1>12. ~Mowing(u) /\ ~Mowing(v)
  BY <1>2, <1>8, <1>9 DEF Mowing
<1>13. Goes(u, v, day) /\ v.col = u.col
  BY <1>2, <1>8, <1>9, <1>10, <1>11, <1>12, RowStep
<1>14. v.b.hay = u.b.hay
  BY <1>8 DEF Beside
<1> QED BY <1>1, <1>4, <1>8, <1>9, <1>13, <1>14, GoesOn

\* The row of a field reaped.
LEMMA ReapedRow ==
  ASSUME NEW f, IsRow(f), f.kind = "arable", f.phase = "harvest", NEW day \in Nat
  PROVE  LET g == Reaped(Settled(f, day), day)
         IN /\ IsRow(g) /\ g.kind = "arable" /\ g.phase \in {"growing", "idle"}
            /\ g.mown_day = f.mown_day
            /\ Rested(f, day) => Rested(g, day)
<1> DEFINE years == Repeated(f)  soil == SoilAfter(f)
           cut == IF Perennial(f.crop) THEN day ELSE f.cut_day
           e == [f EXCEPT !.work = 0, !.harvest_work = 0, !.laid_share = 0, !.laid_grams = 0,
                   !.repeat_years = years, !.fertility = soil, !.applied = 0,
                   !.booked = FALSE, !.last_crop = f.crop, !.stress = 0, !.cut_day = cut]
           summers == IF Ages(e.crop)
                      THEN Least((IF e.summers = 0 THEN 1 ELSE e.summers) + 1, Len(Summers))
                      ELSE e.summers
           stand == [e EXCEPT !.phase = "growing", !.summers = summers]
           bare == [e EXCEPT !.phase = "idle", !.crop = None, !.reaped_day = day]
<1>1. /\ DOMAIN f = RowColumns /\ f.crop # None /\ f.crop \in Crops /\ ~f.rest_owed
      /\ ~f.furrowing
  BY DEF IsRow, Typed, Standing, Furrow
<1>2. years \in 0..PenaltyYears /\ soil \in FloorSoil..FullSoil
  BY <1>1, SoilIs DEF IsRow
<1>3. Settled(f, day) = e
  BY <1>1 DEF Settled, NoReaping, RowColumns
<1> HIDE DEF years, soil, cut
<1>4. /\ DOMAIN e = RowColumns /\ e.kind = "arable" /\ e.crop = f.crop
      /\ e.mown_day = f.mown_day /\ e.reaped_day = f.reaped_day /\ ~e.rest_owed
      /\ ~e.furrowing /\ e.phase = "harvest" /\ e.summers = f.summers
  BY <1>1 DEF RowColumns
<1>5. summers \in 0..Len(Summers)
  <2>1. Len(Summers) \in Nat /\ f.summers \in 0..Len(Summers)
    BY AmountsAssumption DEF IsRow, Typed
  <2> HIDE DEF e
  <2> QED BY <1>4, <2>1 DEF Least
<1>6. Typed(e) /\ Soil(e)
  <2>1. Typed(e)
    <3>1. 0 \in 0..Norm /\ 0 \in 0..Parts /\ 0 \in Nat
          /\ soil \in FloorSoil..(FullSoil + Norm)
      BY <1>2, Numbers
    <3>2. Typed(f)
      BY DEF IsRow
    <3> QED BY <1>1, <1>2, <3>1, <3>2 DEF Typed, RowColumns
  <2>2. Soil(e)
    BY <1>1, <1>2, Numbers DEF IsRow, Typed, Soil, RowColumns
  <2> QED BY <2>1, <2>2
<1>7. e.harvest_work = 0 /\ e.laid_share = 0 /\ e.laid_grams = 0 /\ ~e.mown_fallow
  BY <1>1 DEF RowColumns, IsRow, Standing
<1> HIDE DEF e, summers
<1>8. CASE Stays(e)
  <2>1. Reaped(e, day) = stand
    BY <1>4, <1>8 DEF Reaped, RowColumns, summers
  <2>2. /\ stand.kind = "arable" /\ stand.phase = "growing" /\ stand.crop = f.crop
        /\ stand.mown_day = f.mown_day /\ stand.reaped_day = f.reaped_day
        /\ ~stand.rest_owed
    BY <1>4 DEF RowColumns
  <2>3. IsRow(stand)
    <3>1. Typed(stand)
      BY <1>4, <1>5, <1>6 DEF Typed, RowColumns
    <3>2. Laying(stand)
      BY <1>4, <1>7, Numbers DEF Laying, RowColumns
    <3>3. Standing(stand) /\ Furrow(stand)
      BY <1>4, <1>7 DEF Standing, Furrow, RowColumns
    <3>4. Soil(stand)
      BY <1>4, <1>6 DEF Soil, RowColumns
    <3> QED BY <3>1, <3>2, <3>3, <3>4 DEF IsRow
  <2>4. Perennial(f.crop) /\ ~Winter(f.crop)
    BY <1>1, <1>4, <1>8, CropIs DEF Stays
  <2>5. Rested(f, day) => Rested(stand, day)
    BY <1>1, <2>2, <2>4 DEF Rested
  <2> HIDE DEF stand
  <2> QED BY <1>3, <2>1, <2>2, <2>3, <2>5
<1>9. CASE ~Stays(e)
  <2>1. Reaped(e, day) = bare
    BY <1>4, <1>9 DEF Reaped, RowColumns
  <2>2. /\ bare.kind = "arable" /\ bare.phase = "idle" /\ bare.crop = None
        /\ bare.mown_day = f.mown_day /\ bare.reaped_day = day /\ ~bare.rest_owed
    BY <1>4 DEF RowColumns
  <2>3. IsRow(bare)
    <3>1. Typed(bare)
      BY <1>4, <1>6 DEF Typed, RowColumns, Stamp, Crops
    <3>2. Laying(bare)
      BY <1>4, <1>7, Numbers DEF Laying, RowColumns
    <3>3. Standing(bare) /\ Furrow(bare)
      BY <1>4, <1>7 DEF Standing, Furrow, RowColumns
    <3>4. Soil(bare)
      BY <1>4, <1>6 DEF Soil, RowColumns
    <3> QED BY <3>1, <3>2, <3>3, <3>4 DEF IsRow
  <2>4. ThisYear(bare.reaped_day, day)
    BY <2>2, Numbers DEF ThisYear
  <2>5. Rested(f, day) => Late(day)
    BY DEF Rested
  <2>6. Rested(f, day) => Rested(bare, day)
    BY <2>2, <2>4, <2>5 DEF Rested
  <2> HIDE DEF bare
  <2> QED BY <1>3, <2>1, <2>2, <2>3, <2>6
<1> QED BY <1>8, <1>9

\* A reaping that ends, of grain or of hay.
LEMMA HarvestGoes ==
  ASSUME NEW w, IsWorld(w), w.f.phase = "harvest", NEW day, Arable(w.f) => day = w.day
  PROVE  LET v == FinishHarvest(w)
         IN /\ Goes(w, v, day) /\ Quiet(w, v) /\ v.col = w.col /\ v.f.kind = w.f.kind
            /\ v.f.phase \in {"growing", "idle"}
<1>1. CASE w.f.kind = "meadow"
  <2>1. Mowing(w)
    BY <1>1 DEF Mowing
  <2>2. FinishHarvest(w) = MowMeadow(w)
    BY <1>1 DEF FinishHarvest
  <2> QED BY <1>1, <2>1, <2>2, MowGoes DEF Quiet
<1>2. CASE w.f.kind # "meadow"
  <2>1. IsRow(w.f)
    BY DEF IsWorld
  <2>2. w.f.kind = "arable" /\ w.f.crop # None
    BY <1>2, <2>1 DEF IsRow, Typed, Standing
  <2>3. FinishHarvest(w) = Harvest(w)
    BY <2>2 DEF FinishHarvest
  <2> DEFINE u == LayReapedShare(w)
  <2>4. Goes(w, u, day) /\ u.col = w.col /\ SameStage(w.f, u.f)
    BY LayReapedGoes
  <2>5. /\ IsWorld(u) /\ u.f.kind = "arable" /\ u.f.phase = "harvest" /\ u.day = w.day
        /\ day = w.day
    BY <2>2, <2>4 DEF Goes, SameStage, Arable
  <2>6. IsRow(u.f) /\ Shaped(u) /\ w.day \in Nat
    BY <2>5, WorldIsShaped DEF IsWorld
  <2> HIDE DEF u
  <2> DEFINE g == Reaped(Settled(u.f, w.day), w.day)
             history == EndReaping(u.b, u.b.whole, 0)
             v == [u EXCEPT !.f = g, !.b = history]
  <2>7. Harvest(w) = v
    BY <2>5, <2>6 DEF Harvest, u, Shaped
  <2>8. /\ DOMAIN history = DOMAIN u.b /\ history.hay = u.b.hay
        /\ history.rests = u.b.rests /\ history.broken = u.b.broken
    BY <2>6 DEF EndReaping, Shaped
  <2>9. /\ IsRow(g) /\ g.kind = "arable" /\ g.phase \in {"growing", "idle"}
        /\ g.mown_day = u.f.mown_day /\ (Rested(u.f, day) => Rested(g, day))
    BY <2>5, <2>6, ReapedRow
  <2> HIDE DEF g, history
  <2>10. v.f = g /\ Beside(u, v)
    BY <2>6, <2>8 DEF Shaped, Beside
  <2> HIDE DEF v
  <2>11. ~Mowing(u) /\ ~Mowing(v)
    BY <2>5, <2>9, <2>10 DEF Mowing
  <2>12. Goes(u, v, day) /\ Quiet(u, v) /\ v.col = u.col
    BY <2>5, <2>9, <2>10, <2>11, RowStep
  <2>13. Quiet(w, v)
    BY <2>2, <2>4, <2>9, <2>10, <2>12, LayReapedGoes DEF Quiet, Mowing, u
  <2> QED BY <2>2, <2>3, <2>4, <2>7, <2>9, <2>10, <2>12, <2>13, GoesOn
<1> QED BY <1>1, <1>2

\* A stand ploughed up.
LEMMA StandEnds ==
  ASSUME NEW f, IsRow(f), f.kind = "arable", f.phase = "growing", Ages(f.crop), NEW day
  PROVE  LET g == EndGrassStand(f)
         IN /\ IsRow(g) /\ g.kind = "arable" /\ g.phase = "idle" /\ g.mown_day = f.mown_day
            /\ g.furrowing = f.furrowing /\ g.crop = None
            /\ Rested(f, day) => Rested(g, day)
<1> DEFINE g == [f EXCEPT !.last_crop = f.crop, !.crop = None, !.summers = 0, !.work = 0,
                          !.stress = 0, !.phase = "idle"]
<1>1. /\ DOMAIN f = RowColumns /\ f.crop # None /\ f.crop \in Crops /\ ~f.rest_owed
      /\ ~f.furrowing /\ ~Winter(f.crop)
  BY CropIs DEF IsRow, Typed, Standing, Furrow
<1>2. EndGrassStand(f) = g
  BY <1>1 DEF EndGrassStand
<1>3. /\ DOMAIN g = RowColumns /\ g.kind = "arable" /\ g.phase = "idle" /\ g.crop = None
      /\ g.mown_day = f.mown_day /\ g.reaped_day = f.reaped_day /\ ~g.rest_owed
      /\ g.furrowing = f.furrowing
  BY <1>1 DEF RowColumns
<1>4. IsRow(g)
  <2>1. Typed(g)
    BY <1>1, Numbers, AmountsAssumption DEF IsRow, Typed, RowColumns, Crops
  <2>2. Laying(g)
    BY <1>1, Numbers DEF IsRow, Laying, RowColumns
  <2>3. Standing(g) /\ Furrow(g)
    BY <1>1, <1>3 DEF IsRow, Standing, Furrow, RowColumns
  <2>4. Soil(g)
    BY <1>1 DEF IsRow, Soil, RowColumns
  <2> QED BY <2>1, <2>2, <2>3, <2>4 DEF IsRow
<1>5. Rested(f, day) => Rested(g, day)
  BY <1>1, <1>3 DEF Rested
<1> HIDE DEF g
<1> QED BY <1>2, <1>3, <1>4, <1>5

-----------------------------------------------------------------------------
(* The heap, the weather and the dose.                                     *)

\* A load carted off the row's heap.
LEMMA CarryShareGoes ==
  ASSUME NEW w, IsWorld(w), NEW cart, NEW day
  PROVE  LET v == CarryShare(w, cart)
         IN /\ Goes(w, v, day) /\ Quiet(w, v) /\ v.col = w.col /\ SameStage(w.f, v.f)
<1> DEFINE v == CarryShare(w, cart)  load == IF cart THEN None ELSE w.f.heap
           g == [w.f EXCEPT !.heap = load]
<1>1. IsRow(w.f) /\ Shaped(w)
  BY WorldIsShaped DEF IsWorld
<1>2. v = [w EXCEPT !.f = g]
  BY <1>1 DEF CarryShare, Shaped, RowColumns
<1> HIDE DEF load
<1>3. v.f = g /\ Beside(w, v)
  BY <1>1, <1>2 DEF Shaped, Beside
<1> HIDE DEF v
<1>4. DOMAIN g = RowColumns /\ SameStage(w.f, g) /\ g.laid_grams = w.f.laid_grams
  BY <1>1 DEF Shaped, RowColumns, SameStage
<1>5. IsRow(g)
  <2>1. Typed(g)
    BY <1>1 DEF IsRow, Typed, RowColumns
  <2>2. Laying(g)
    BY <1>1 DEF IsRow, Typed, Laying, RowColumns
  <2>3. Standing(g) /\ Furrow(g)
    BY <1>1 DEF IsRow, Typed, Standing, Furrow, RowColumns
  <2>4. Soil(g)
    BY <1>1 DEF IsRow, Typed, Soil, RowColumns
  <2> QED BY <2>1, <2>2, <2>3, <2>4 DEF IsRow
<1>6. Rested(w.f, day) => Rested(g, day)
  BY <1>4 DEF Rested, SameStage
<1> HIDE DEF g
<1> QED BY <1>3, <1>4, <1>5, <1>6, CutStands DEF SameStage, v

\* A day of drought or of rain.
LEMMA StressedGoes ==
  ASSUME NEW w, IsWorld(w), NEW day
  PROVE  LET v == Stressed(w)
         IN /\ Goes(w, v, day) /\ Quiet(w, v) /\ v.b = w.b /\ v.col = w.col
            /\ SameStage(w.f, v.f)
<1> DEFINE v == Stressed(w)  stress == Least(w.f.stress + 1, StressCap)
           g == [w.f EXCEPT !.stress = stress]
           bad == w.f.phase = "growing" /\ w.f.crop # None /\ (w.sky = "rain" \/ w.air >= Hot)
<1>1. IsRow(w.f) /\ Shaped(w)
  BY WorldIsShaped DEF IsWorld
<1>2. CASE ~bad
  <2>1. v = w
    BY <1>2 DEF Stressed
  <2> QED BY <2>1, Remains DEF Quiet, SameStage
<1>3. CASE bad
  <2>1. v = [w EXCEPT !.f = g]
    BY <1>1, <1>3 DEF Stressed, Shaped, RowColumns
  <2>2. stress \in Nat
    BY <1>1, Numbers DEF Least, IsRow, Typed
  <2> HIDE DEF stress, bad
  <2>3. v.f = g /\ v.b = w.b /\ Beside(w, v)
    BY <1>1, <2>1 DEF Shaped, Beside
  <2> HIDE DEF v
  <2>4. DOMAIN g = RowColumns /\ SameStage(w.f, g) /\ g.laid_grams = w.f.laid_grams
    BY <1>1 DEF Shaped, RowColumns, SameStage
  <2>5. IsRow(g)
    <3>1. Typed(g)
      BY <1>1, <2>2 DEF IsRow, Typed, RowColumns
    <3>2. Laying(g)
      BY <1>1 DEF IsRow, Typed, Laying, RowColumns
    <3>3. Standing(g) /\ Furrow(g)
      BY <1>1 DEF IsRow, Typed, Standing, Furrow, RowColumns
    <3>4. Soil(g)
      BY <1>1 DEF IsRow, Typed, Soil, RowColumns
    <3> QED BY <3>1, <3>2, <3>3, <3>4 DEF IsRow
  <2>6. Rested(w.f, day) => Rested(g, day)
    BY <2>4 DEF Rested, SameStage
  <2> HIDE DEF g
  <2> QED BY <2>3, <2>4, <2>5, <2>6, CutStands DEF SameStage, v
<1> QED BY <1>2, <1>3

\* Of a dose nothing but its own columns is changed.
DoseAlone(f, g) ==
  /\ DOMAIN g = RowColumns /\ SameStage(f, g)
  /\ g.laid_share = f.laid_share /\ g.laid_grams = f.laid_grams
  /\ g.harvest_work = f.harvest_work /\ g.mown_fallow = f.mown_fallow
  /\ g.last_crop = f.last_crop /\ g.slots = f.slots /\ g.repeat_years = f.repeat_years
  /\ g.summers = f.summers /\ g.sown_day = f.sown_day /\ g.sown_share = f.sown_share
  /\ g.stress = f.stress /\ g.plowed = f.plowed

\* A row on which only the dose and the soil have changed.
LEMMA DoseRow ==
  ASSUME NEW f, IsRow(f), NEW g, DoseAlone(f, g), IsDose(g.dose), g.applied \in 0..Norm,
         g.fertility \in FloorSoil..(FullSoil + Norm), Soil(g)
  PROVE  IsRow(g)
<1>1. Typed(g)
  BY DEF IsRow, Typed, DoseAlone, SameStage
<1>2. Laying(g)
  BY DEF IsRow, Laying, DoseAlone, SameStage
<1>3. Standing(g) /\ Furrow(g)
  BY DEF IsRow, Standing, Furrow, DoseAlone, SameStage
<1> QED BY <1>1, <1>2, <1>3 DEF IsRow

\* Such a change as a step.
LEMMA DoseStep ==
  ASSUME NEW w, IsWorld(w), NEW g, IsRow(g), DoseAlone(w.f, g), NEW day
  PROVE  LET v == [w EXCEPT !.f = g]
         IN Goes(w, v, day) /\ Quiet(w, v) /\ v.col = w.col /\ v.f = g
<1> DEFINE v == [w EXCEPT !.f = g]
<1>1. Shaped(w)
  BY WorldIsShaped
<1>2. v.f = g /\ Beside(w, v)
  BY <1>1 DEF Shaped, Beside
<1> HIDE DEF v
<1>3. Rested(w.f, day) => Rested(g, day)
  BY DEF Rested, DoseAlone, SameStage
<1> QED BY <1>2, <1>3, CutStands DEF SameStage, DoseAlone, v

\* Part of a dose brought: what has come so far is the year's dose, unpaid.
LEMMA BroughtRow ==
  ASSUME NEW f, IsRow(f), f.dose.due > 0, NEW n \in 1..f.dose.due
  PROVE  LET g == WriteAppliedShare([f EXCEPT !.dose.due = @ - n])
         IN IsRow(g) /\ DoseAlone(f, g) /\ g.dose = [f.dose EXCEPT !.due = @ - n]
<1> DEFINE d == [f.dose EXCEPT !.due = @ - n]  e == [f EXCEPT !.dose = d]
           arrived == d.booked - d.due  share == Least(arrived, Norm)
           g == [e EXCEPT !.applied = share, !.booked = FALSE]
<1>1. /\ DOMAIN f = RowColumns /\ IsDose(f.dose) /\ f.applied \in 0..Norm
      /\ f.fertility \in FloorSoil..(FullSoil + Norm) /\ Soil(f)
  BY DEF IsRow, Typed
<1>2. [f EXCEPT !.dose.due = @ - n] = e
  BY <1>1 DEF RowColumns, IsDose
<1>3. /\ d.booked = f.dose.booked /\ d.due = f.dose.due - n /\ DOMAIN d = DOMAIN f.dose
      /\ d.named = f.dose.named
  BY <1>1 DEF IsDose
<1>4. f.dose.booked \in Nat /\ f.dose.due \in 0..f.dose.booked /\ f.dose.named
  BY <1>1 DEF IsDose
<1>5. IsDose(d) /\ d.named
  BY <1>1, <1>3, <1>4 DEF IsDose
<1>6. arrived \in Nat /\ arrived > 0
  BY <1>3, <1>4
<1>7. share \in 0..Norm
  BY <1>6, Numbers DEF Least
<1> HIDE DEF d
<1>8. e.dose = d /\ DOMAIN e = RowColumns
  BY <1>1 DEF RowColumns
<1> HIDE DEF share
<1>9. WriteAppliedShare(e) = g
  BY <1>6, <1>8 DEF WriteAppliedShare, share
<1> HIDE DEF arrived
<1>10. DoseAlone(f, g) /\ g.dose = d /\ g.applied = share /\ ~g.booked
       /\ g.fertility = f.fertility
  BY <1>1 DEF DoseAlone, SameStage, RowColumns
<1> HIDE DEF g, e
<1>11. Soil(g)
  BY <1>1, <1>4, <1>5, <1>10 DEF Soil
<1>12. IsRow(g)
  BY <1>1, <1>5, <1>7, <1>10, <1>11, DoseRow
<1> QED BY <1>2, <1>9, <1>10, <1>12 DEF d

\* What the carts brought is written off the dose (SettleManureDoses).
LEMMA SettleGoes ==
  ASSUME NEW w, IsWorld(w), NEW moved \in Nat, moved <= w.f.dose.due, NEW day
  PROVE  LET v == SettleManureDoses(w, moved)
         IN Goes(w, v, day) /\ Quiet(w, v) /\ v.col = w.col /\ SameStage(w.f, v.f)
<1> DEFINE f == w.f  v == SettleManureDoses(w, moved)
<1>1. IsRow(f) /\ Shaped(w)
  BY WorldIsShaped DEF IsWorld
<1>2. CASE ~ManureDoseStands(f) \/ moved = 0
  <2>1. v = w
    BY <1>2 DEF SettleManureDoses
  <2> QED BY <2>1, Remains DEF Quiet, SameStage
<1>3. CASE ManureDoseStands(f) /\ moved # 0
  <2> DEFINE e == WriteAppliedShare([f EXCEPT !.dose.due = @ - moved])
             p == e.dose.priced /\ e.dose.due > 0
             d == [e.dose EXCEPT !.priced = p]
             g == [e EXCEPT !.dose = d]
  <2>1. f.dose.due \in Nat /\ f.dose.due > 0 /\ moved \in 1..f.dose.due
    BY <1>1, <1>3 DEF ManureDoseStands, IsRow, Typed, IsDose
  <2>2. IsRow(e) /\ DoseAlone(f, e)
    BY <1>1, <2>1, BroughtRow
  <2>3. v = [w EXCEPT !.f = [e EXCEPT !.dose.priced = @ /\ e.dose.due > 0]]
    BY <1>3 DEF SettleManureDoses
  <2> HIDE DEF e
  <2>4. DOMAIN e = RowColumns /\ IsDose(e.dose) /\ Soil(e)
    BY <2>2 DEF IsRow, Typed
  <2>5. [e EXCEPT !.dose.priced = @ /\ e.dose.due > 0] = g
    BY <2>4 DEF RowColumns, IsDose
  <2> HIDE DEF p
  <2>6. IsDose(d) /\ d.named = e.dose.named
    BY <2>4 DEF IsDose
  <2> HIDE DEF d
  <2>7. DoseAlone(e, g) /\ g.dose = d /\ g.applied = e.applied /\ g.fertility = e.fertility
        /\ g.booked = e.booked
    BY <2>4 DEF DoseAlone, SameStage, RowColumns
  <2> HIDE DEF g
  <2>8. Soil(g)
    BY <2>4, <2>6, <2>7 DEF Soil
  <2>9. IsRow(g)
    BY <2>2, <2>6, <2>7, <2>8, DoseRow DEF IsRow, Typed
  <2>10. DoseAlone(f, g)
    BY <2>2, <2>7 DEF DoseAlone, SameStage
  <2>11. SameStage(f, g)
    BY <2>10 DEF DoseAlone
  <2>12. v = [w EXCEPT !.f = g]
    BY <2>3, <2>5
  <2> HIDE DEF v
  <2>13. Goes(w, v, day) /\ Quiet(w, v) /\ v.col = w.col /\ v.f = g
    BY <2>9, <2>10, <2>12, DoseStep
  <2> QED BY <2>11, <2>13 DEF v
<1> QED BY <1>2, <1>3

\* Whether the dose is work tonight (PriceManureDoses).
LEMMA PriceGoes ==
  ASSUME NEW w, IsWorld(w), NEW day
  PROVE  LET v == PriceManureDoses(w)
         IN Goes(w, v, day) /\ Quiet(w, v) /\ v.col = w.col /\ SameStage(w.f, v.f)
<1> DEFINE f == w.f  p == SledgeDay(w) /\ ManureDoseStands(w.f)
           d == [f.dose EXCEPT !.priced = p]  g == [f EXCEPT !.dose = d]
<1>1. IsRow(f) /\ Shaped(w) /\ DOMAIN f = RowColumns /\ IsDose(f.dose) /\ Soil(f)
  BY WorldIsShaped DEF IsWorld, IsRow, Typed
<1>2. PriceManureDoses(w) = [w EXCEPT !.f = g]
  BY <1>1 DEF PriceManureDoses, Shaped, RowColumns, IsDose
<1> HIDE DEF p
<1>3. IsDose(d) /\ d.named = f.dose.named
  BY <1>1 DEF IsDose
<1> HIDE DEF d
<1>4. DoseAlone(f, g) /\ g.dose = d /\ g.applied = f.applied /\ g.fertility = f.fertility
      /\ g.booked = f.booked
  BY <1>1 DEF DoseAlone, SameStage, RowColumns
<1> HIDE DEF g
<1>5. Soil(g)
  BY <1>1, <1>3, <1>4 DEF Soil
<1>6. IsRow(g)
  BY <1>1, <1>3, <1>4, <1>5, DoseRow DEF IsRow, Typed
<1> QED BY <1>2, <1>4, <1>6, DoseStep DEF DoseAlone

\* A dose booked or topped up (BookManureDoses).
LEMMA BookGoes ==
  ASSUME NEW w, IsWorld(w), NEW dung \in Nat, NEW day
  PROVE  LET v == BookManureDoses(w, dung)
         IN Goes(w, v, day) /\ Quiet(w, v) /\ v.col = w.col /\ SameStage(w.f, v.f)
<1> DEFINE f == w.f  v == BookManureDoses(w, dung)
           added == Least(dung, Above(Norm, f.dose.booked))
           wants == /\ Arable(f) /\ f.phase = "idle" /\ WillBeWorked(f)
                    /\ IF f.dose.named THEN f.dose.booked < Norm ELSE f.applied = 0
           booked == f.dose.booked + added  due == f.dose.due + added
           d == [f.dose EXCEPT !.named = TRUE, !.booked = booked, !.due = due]
           g == [f EXCEPT !.dose = d]
<1>1. IsRow(f) /\ Shaped(w) /\ DOMAIN f = RowColumns /\ IsDose(f.dose) /\ Soil(f)
  BY WorldIsShaped DEF IsWorld, IsRow, Typed
<1>2. CASE ~wants \/ added = 0
  <2>1. v = w
    BY <1>2 DEF BookManureDoses
  <2> QED BY <2>1, Remains DEF Quiet, SameStage
<1>3. CASE wants /\ added # 0
  <2>1. added \in Nat /\ added > 0
    BY <1>1, <1>3, Numbers DEF Least, Above, IsDose
  <2>2. v = [w EXCEPT !.f = g]
    <3>1. v = IF ~wants \/ added = 0 THEN w ELSE [w EXCEPT !.f.dose = d]
      BY DEF BookManureDoses
    <3> HIDE DEF wants, v, added, d
    <3>2. [w EXCEPT !.f.dose = d] = [w EXCEPT !.f = g]
      BY <1>1 DEF Shaped, RowColumns
    <3> QED BY <1>3, <3>1, <3>2
  <2>3. booked \in Nat /\ booked > 0 /\ due \in 0..booked
    BY <1>1, <2>1 DEF IsDose
  <2> HIDE DEF added, booked, due
  <2>4. IsDose(d)
    BY <1>1, <2>3 DEF IsDose
  <2> HIDE DEF d
  <2>5. ~f.booked
    BY <1>1, <1>3 DEF Soil
  <2>6. DoseAlone(f, g) /\ g.dose = d /\ g.applied = f.applied /\ g.fertility = f.fertility
        /\ g.booked = f.booked
    BY <1>1 DEF DoseAlone, SameStage, RowColumns
  <2> HIDE DEF g
  <2>7. Soil(g)
    BY <1>1, <2>5, <2>6 DEF Soil
  <2>8. IsRow(g)
    BY <1>1, <2>4, <2>6, <2>7, DoseRow DEF IsRow, Typed
  <2> QED BY <2>2, <2>6, <2>8, DoseStep DEF DoseAlone
<1> QED BY <1>2, <1>3

\* A dose that is cancelled leaves what it brought.
LEMMA CancelledRow ==
  ASSUME NEW f, IsRow(f), NEW dung \in Nat
  PROVE  LET g == CancelLateManure(f, dung)
         IN IsRow(g) /\ DoseAlone(f, g) /\ ~g.dose.named
<1> DEFINE late == IF LateSpreadFree THEN Least(f.dose.due, dung) ELSE 0
           e == IF late = 0 THEN f ELSE WriteAppliedShare([f EXCEPT !.dose.due = @ - late])
           g == [e EXCEPT !.dose = NoDose]
<1>1. DOMAIN f = RowColumns /\ IsDose(f.dose)
  BY DEF IsRow, Typed
<1>2. CASE ~f.dose.named
  <2>1. CancelLateManure(f, dung) = f
    BY <1>2 DEF CancelLateManure
  <2> QED BY <1>1, <1>2, <2>1 DEF DoseAlone, SameStage
<1>3. CASE f.dose.named
  <2>1. CancelLateManure(f, dung) = g
    BY <1>3 DEF CancelLateManure
  <2>2. late \in Nat /\ late <= f.dose.due /\ f.dose.due \in Nat
    BY <1>1 DEF Least, IsDose
  <2> HIDE DEF late
  <2>3. IsRow(e) /\ DoseAlone(f, e)
    <3>1. CASE late = 0
      BY <1>1, <3>1 DEF DoseAlone, SameStage
    <3>2. CASE late # 0
      <4>1. late \in 1..f.dose.due /\ f.dose.due > 0
        BY <2>2, <3>2
      <4> QED BY <3>2, <4>1, BroughtRow
    <3> QED BY <3>1, <3>2
  <2> HIDE DEF e
  <2>4. DOMAIN e = RowColumns /\ Soil(e)
    BY <2>3 DEF IsRow, Typed
  <2>5. DoseAlone(e, g) /\ g.dose = NoDose /\ g.applied = e.applied
        /\ g.fertility = e.fertility /\ g.booked = e.booked
    BY <2>4 DEF DoseAlone, SameStage, RowColumns
  <2> HIDE DEF g
  <2>6. IsDose(NoDose) /\ ~NoDose.named
    BY DEF IsDose, NoDose
  <2>7. Soil(g)
    BY <2>4, <2>5, <2>6 DEF Soil
  <2>8. IsRow(g)
    BY <2>3, <2>5, <2>6, <2>7, DoseRow DEF IsRow, Typed
  <2>9. DoseAlone(f, g)
    BY <2>3, <2>5 DEF DoseAlone, SameStage
  <2> QED BY <2>1, <2>5, <2>6, <2>8, <2>9
<1> QED BY <1>2, <1>3

-----------------------------------------------------------------------------
(* Preparation and sowing.                                                 *)

\* The seasons of a chain are crops.
LEMMA SlotsAre ==
  ASSUME NEW f, Typed(f)
  PROVE  f.slots[1] \in Crops /\ f.slots[2] \in Crops /\ f.slots[3] \in Crops
  BY DEF Typed, Chain

RowOpened(f, phase, day) ==
  [f EXCEPT !.phase = phase, !.sown_day = IF phase = "sowing" THEN day ELSE @,
            !.work = Parts, !.harvest_work = IF phase = "harvest" THEN Parts ELSE 0]

\* A phase opened: the row it leaves (OpenPhase).
LEMMA OpenedIs ==
  ASSUME NEW w, Shaped(w), NEW phase
  PROVE  LET v == OpenPhase(w, phase)
         IN Beside(w, v) /\ Shaped(v) /\ v.f = RowOpened(w.f, phase, w.day)
<1> DEFINE v == OpenPhase(w, phase)  g == RowOpened(w.f, phase, w.day)
           sown == IF phase = "sowing" THEN w.day ELSE w.f.sown_day
           reaping == IF phase = "harvest" THEN Parts ELSE 0
           whole == IF phase = "harvest" /\ Arable(w.f) THEN Yield(w.f) ELSE 0
           history == [w.b EXCEPT !.whole = whole]
<1>1. g = [w.f EXCEPT !.phase = phase, !.sown_day = sown, !.work = Parts,
                      !.harvest_work = reaping]
  BY DEF RowOpened, Shaped, RowColumns
<1>2. v = [w EXCEPT !.f.phase = phase, !.f.sown_day = sown, !.f.work = Parts,
                    !.f.harvest_work = reaping, !.b.whole = whole]
  BY DEF OpenPhase, Shaped, RowColumns
<1> HIDE DEF v, g, sown, reaping, whole
<1>3. /\ DOMAIN v = DOMAIN w /\ v.day = w.day /\ v.air = w.air /\ v.sky = w.sky
      /\ v.cover = w.cover /\ v.col = w.col /\ v.b = history
      /\ v.f = [w.f EXCEPT !.phase = phase, !.sown_day = sown, !.work = Parts,
                           !.harvest_work = reaping]
  BY <1>2 DEF Shaped, RowColumns
<1>4. /\ DOMAIN history = DOMAIN w.b /\ history.hay = w.b.hay /\ history.rests = w.b.rests
      /\ history.broken = w.b.broken
  BY DEF Shaped
<1> HIDE DEF history
<1>5. DOMAIN g = RowColumns
  BY <1>1 DEF Shaped
<1> QED BY <1>1, <1>3, <1>4, <1>5 DEF Beside, Shaped, v, g

\* A phase opened on a row that is not being reaped.
LEMMA OpenedRow ==
  ASSUME NEW f, Typed(f), Laying(f), Soil(f), f.phase # "harvest", NEW day \in Nat,
         NEW phase \in {"plowing", "harrowing", "sowing", "harvest"}
  PROVE  LET g == RowOpened(f, phase, day)
         IN /\ Typed(g) /\ Laying(g) /\ Soil(g)
            /\ g.phase = phase /\ g.work = Parts /\ g.kind = f.kind /\ g.crop = f.crop
            /\ g.mown_fallow = f.mown_fallow /\ g.rest_owed = f.rest_owed
            /\ g.furrowing = f.furrowing /\ g.plowed = f.plowed
            /\ g.reaped_day = f.reaped_day /\ g.mown_day = f.mown_day
            /\ g.laid_grams = 0
<1> DEFINE sown == IF phase = "sowing" THEN day ELSE f.sown_day
           reaping == IF phase = "harvest" THEN Parts ELSE 0
           g == [f EXCEPT !.phase = phase, !.sown_day = sown, !.work = Parts,
                          !.harvest_work = reaping]
<1>1. RowOpened(f, phase, day) = g
  BY DEF RowOpened, Typed, RowColumns
<1>2. sown \in Stamp /\ Parts \in 0..Parts /\ 0 \in 0..Parts
  BY Numbers DEF Typed, Stamp
<1>3. /\ phase # "harvest" => reaping = 0
      /\ phase = "harvest" => reaping = Parts
  OBVIOUS
<1> HIDE DEF sown, reaping
<1>4. DOMAIN g = RowColumns
  BY DEF Typed
<1>5. Typed(g)
  BY <1>2 DEF Typed, RowColumns
<1>6. /\ g.phase = phase /\ g.harvest_work = reaping /\ g.laid_share = 0 /\ g.laid_grams = 0
      /\ g.kind = f.kind /\ g.work = Parts /\ g.crop = f.crop
      /\ g.mown_fallow = f.mown_fallow /\ g.rest_owed = f.rest_owed
      /\ g.furrowing = f.furrowing /\ g.plowed = f.plowed
      /\ g.reaped_day = f.reaped_day /\ g.mown_day = f.mown_day
  BY DEF Typed, Laying, RowColumns
<1>7. Soil(g)
  BY DEF Typed, Soil, RowColumns
<1> HIDE DEF g
<1>8. 0 * Parts <= SeasonHay * 0
  BY Numbers
<1>9. Laying(g)
  BY <1>2, <1>3, <1>6, <1>8 DEF Laying
<1> QED BY <1>1, <1>5, <1>6, <1>7, <1>9

\* The dose paid into the soil.
PaidDose(f) ==
  IF f.applied > 0 /\ ~f.booked
  THEN [f EXCEPT !.fertility = @ + f.applied, !.booked = TRUE] ELSE f

\* A dose paid into the soil is one that is no longer carted.
LEMMA PaidRow ==
  ASSUME NEW f, IsRow(f), ~f.dose.named
  PROVE  LET g == PaidDose(f) IN IsRow(g) /\ DoseAlone(f, g)
<1>1. DOMAIN f = RowColumns /\ Soil(f) /\ f.applied \in 0..Norm
      /\ f.fertility \in FloorSoil..(FullSoil + Norm) /\ IsDose(f.dose)
  BY DEF IsRow, Typed
<1>2. CASE ~(f.applied > 0 /\ ~f.booked)
  BY <1>1, <1>2 DEF PaidDose, DoseAlone, SameStage
<1>3. CASE f.applied > 0 /\ ~f.booked
  <2> DEFINE soil == f.fertility + f.applied
             g == [f EXCEPT !.fertility = soil, !.booked = TRUE]
  <2>1. PaidDose(f) = g
    BY <1>1, <1>3 DEF PaidDose, RowColumns
  <2>2. f.fertility <= FullSoil
    <3>1. f.fertility <= FullSoil + (IF f.booked THEN f.applied ELSE 0)
      BY <1>1 DEF Soil
    <3>2. f.fertility <= FullSoil + 0
      BY <1>3, <3>1
    <3> QED BY <1>1, <3>2, Numbers
  <2>3. soil \in FloorSoil..(FullSoil + Norm) /\ soil <= FullSoil + f.applied
    BY <1>1, <2>2, Numbers
  <2> HIDE DEF soil
  <2>4. DoseAlone(f, g) /\ g.dose = f.dose /\ g.applied = f.applied /\ g.fertility = soil
        /\ g.booked
    BY <1>1 DEF DoseAlone, SameStage, RowColumns
  <2> HIDE DEF g
  <2>5. Soil(g)
    BY <1>3, <2>3, <2>4 DEF Soil
  <2>6. IsRow(g)
    BY <1>1, <2>3, <2>4, <2>5, DoseRow
  <2> QED BY <2>1, <2>4, <2>6
<1> QED BY <1>2, <1>3

\* Ground taken into work, for a crop of the chain or for its rest.
LEMMA PlowingGoes ==
  ASSUME NEW w, IsWorld(w), w.f.kind = "arable", w.f.phase # "harvest",
         NEW slot \in 0..2, NEW start, NEW dung \in Nat, NEW day,
         start = "black_fallow" => slot # Fallow /\ Winter(w.f.slots[slot]),
         Rested(w.f, day) =>
           /\ ThisYear(w.f.reaped_day, day) /\ Late(day)
           /\ start # "black_fallow" /\ slot # Fallow /\ w.f.slots[slot] # None
  PROVE  LET v == OpenPlowing(w, slot, start, dung)
         IN /\ Goes(w, v, day) /\ Quiet(w, v) /\ v.col = w.col /\ v.f.kind = "arable"
            /\ v.f.phase \in {"plowing", "harrowing"} /\ ~v.f.furrowing
<1> DEFINE crop == IF slot = Fallow THEN None ELSE w.f.slots[slot]
           black == start = "black_fallow"
           harrows == black \/ w.f.plowed
           rest == IF ~harrows /\ w.f.furrowing /\ w.f.work > 0 THEN w.f.work ELSE Parts
           phase == IF harrows THEN "harrowing" ELSE "plowing"
           a == CancelLateManure(w.f, dung)
           p == PaidDose(a)
           skips == p.skips /\ crop # None /\ crop = p.slots[1] /\ Winter(crop)
           plowed == p.plowed /\ black
           o == [p EXCEPT !.furrowing = FALSE, !.crop = crop, !.furrow_day = Never,
                          !.skips = skips, !.rest_owed = black, !.plowed = plowed]
           history == [w.b EXCEPT !.slot = slot]
           u == [w EXCEPT !.f = o, !.b = history]
           x == OpenPhase(u, phase)
           g == [x.f EXCEPT !.work = rest]
           v == [x EXCEPT !.f.work = rest]
<1>1. IsRow(w.f) /\ Shaped(w) /\ w.day \in Nat
  BY WorldIsShaped DEF IsWorld
<1>2. IsRow(a) /\ DoseAlone(w.f, a) /\ ~a.dose.named
  BY <1>1, CancelledRow
<1>3. IsRow(p) /\ DoseAlone(a, p)
  BY <1>2, PaidRow
<1>4. OpenPlowing(w, slot, start, dung) = v
  <2>1. o = [p EXCEPT
          !.furrowing = FALSE, !.crop = crop, !.furrow_day = Never,
          !.skips = @ /\ crop # None /\ crop = p.slots[1] /\ Winter(crop),
          !.rest_owed = black, !.plowed = @ /\ black]
    BY <1>3 DEF IsRow, Typed, RowColumns
  <2>2. [w EXCEPT !.f = [p EXCEPT
          !.furrowing = FALSE, !.crop = crop, !.furrow_day = Never,
          !.skips = @ /\ crop # None /\ crop = p.slots[1] /\ Winter(crop),
          !.rest_owed = black, !.plowed = @ /\ black], !.b.slot = slot] = u
    <3> HIDE DEF o
    <3> QED BY <1>1, <2>1 DEF Shaped
  <2> QED BY <1>1, <2>2 DEF OpenPlowing, PaidDose
<1>5. crop \in Crops /\ (black => Winter(crop) /\ crop # None)
  BY <1>1, SlotsAre, CropIs DEF IsRow, Fallow, Crops
<1>6. rest \in 0..Parts /\ phase \in {"plowing", "harrowing"} /\ (black => phase = "harrowing")
  BY <1>1, Numbers DEF IsRow, Typed
<1>7. DoseAlone(w.f, p)
  BY <1>2, <1>3 DEF DoseAlone, SameStage
<1>8. Rested(w.f, day) => ThisYear(w.f.reaped_day, day) /\ Late(day) /\ ~black /\ crop # None
  OBVIOUS
<1> HIDE DEF crop, black, rest, phase, a, p, skips, plowed
<1>9. /\ DOMAIN o = RowColumns /\ o.kind = "arable" /\ o.phase = w.f.phase /\ o.crop = crop
      /\ o.furrowing = FALSE /\ o.rest_owed = black /\ o.reaped_day = w.f.reaped_day
      /\ o.mown_day = w.f.mown_day /\ o.mown_fallow = w.f.mown_fallow
  BY <1>3, <1>7 DEF IsRow, Typed, RowColumns, DoseAlone, SameStage
<1>10. Typed(o)
  BY <1>3, <1>5 DEF IsRow, Typed, RowColumns
<1>11. Laying(o)
  BY <1>3 DEF IsRow, Typed, Laying, RowColumns
<1>12. Soil(o)
  BY <1>3 DEF IsRow, Typed, Soil, RowColumns
<1>13. DOMAIN history = DOMAIN w.b /\ history.hay = w.b.hay /\ history.rests = w.b.rests
       /\ history.broken = w.b.broken
  BY <1>1 DEF Shaped
<1> HIDE DEF o, history
<1>14. u.f = o /\ Beside(w, u) /\ Shaped(u)
  BY <1>1, <1>9, <1>13 DEF Shaped, Beside
<1> HIDE DEF u
<1>15. Beside(u, x) /\ Shaped(x) /\ x.f = RowOpened(o, phase, u.day)
  BY <1>14, OpenedIs
<1>16. u.day \in Nat /\ o.phase # "harvest"
  BY <1>1, <1>9, <1>14 DEF Beside
<1>17. /\ Typed(x.f) /\ Laying(x.f) /\ Soil(x.f)
       /\ x.f.phase = phase /\ x.f.kind = "arable" /\ x.f.crop = crop
       /\ x.f.mown_fallow = w.f.mown_fallow /\ x.f.rest_owed = black
       /\ x.f.furrowing = FALSE /\ x.f.reaped_day = w.f.reaped_day
       /\ x.f.mown_day = w.f.mown_day
  BY <1>6, <1>9, <1>10, <1>11, <1>12, <1>15, <1>16, OpenedRow
<1> HIDE DEF x
<1>18. v.f = g /\ Beside(x, v)
  BY <1>15 DEF Shaped, Beside
<1> HIDE DEF v
<1>19. /\ DOMAIN g = RowColumns /\ g.phase = phase /\ g.kind = "arable" /\ g.crop = crop
       /\ g.mown_fallow = w.f.mown_fallow /\ g.rest_owed = black
       /\ g.furrowing = FALSE /\ g.reaped_day = w.f.reaped_day
       /\ g.mown_day = w.f.mown_day
  BY <1>17 DEF Typed, RowColumns
<1>20. IsRow(g)
  <2>1. Typed(g)
    BY <1>6, <1>17 DEF Typed, RowColumns
  <2>2. Laying(g)
    BY <1>17 DEF Typed, Laying, RowColumns
  <2>3. Soil(g)
    BY <1>17 DEF Typed, Soil, RowColumns
  <2> HIDE DEF g
  <2>4. ~w.f.mown_fallow
    BY <1>1 DEF IsRow, Standing
  <2>5. Standing(g) /\ Furrow(g)
    BY <1>5, <1>6, <1>19, <2>4 DEF Standing, Furrow
  <2> QED BY <2>1, <2>2, <2>3, <2>5 DEF IsRow
<1> HIDE DEF g
<1>21. Rested(w.f, day) => Rested(g, day)
  BY <1>8, <1>19 DEF Rested
<1>22. Beside(w, v)
  BY <1>14, <1>15, <1>18 DEF Beside
<1>23. ~Mowing(w) /\ ~Mowing(v)
  BY <1>6, <1>18, <1>19 DEF Mowing
<1>24. Goes(w, v, day) /\ Quiet(w, v) /\ v.col = w.col
  BY <1>18, <1>19, <1>20, <1>21, <1>22, <1>23, RowStep
<1> QED BY <1>4, <1>6, <1>18, <1>19, <1>24

\* The autumn's furrow.
LEMMA ZyabGoes ==
  ASSUME NEW w, IsWorld(w), w.f.kind = "arable", w.f.phase = "idle", ~w.f.plowed, NEW day
  PROVE  LET v == OpenZyab(w)
         IN /\ Goes(w, v, day) /\ Quiet(w, v) /\ v.col = w.col /\ v.f.kind = "arable"
            /\ v.f.phase = "plowing"
<1> DEFINE o == [w.f EXCEPT !.crop = None, !.furrow_day = Never, !.furrowing = TRUE]
           u == [w EXCEPT !.f = o]
           v == OpenPhase(u, "plowing")
<1>1. IsRow(w.f) /\ Shaped(w) /\ w.day \in Nat
  BY WorldIsShaped DEF IsWorld
<1>2. OpenZyab(w) = v
  BY <1>1 DEF OpenZyab, Shaped
<1>3. /\ DOMAIN o = RowColumns /\ o.kind = "arable" /\ o.phase = "idle" /\ o.crop = None
      /\ o.furrowing /\ ~o.rest_owed /\ o.reaped_day = w.f.reaped_day
      /\ o.mown_day = w.f.mown_day /\ ~o.mown_fallow /\ ~o.plowed
  BY <1>1 DEF IsRow, Standing, Typed, RowColumns
<1>4. Typed(o)
  BY <1>1 DEF IsRow, Typed, RowColumns, Crops
<1>5. Laying(o)
  BY <1>1 DEF IsRow, Typed, Laying, RowColumns
<1>6. Soil(o)
  BY <1>1 DEF IsRow, Typed, Soil, RowColumns
<1> HIDE DEF o
<1>7. u.f = o /\ Beside(w, u) /\ Shaped(u)
  BY <1>1, <1>3 DEF Shaped, Beside
<1> HIDE DEF u
<1>8. Beside(u, v) /\ v.f = RowOpened(o, "plowing", u.day) /\ u.day \in Nat
  BY <1>1, <1>7, OpenedIs DEF Beside
<1> HIDE DEF v
<1>9. /\ Typed(v.f) /\ Laying(v.f) /\ Soil(v.f)
      /\ v.f.phase = "plowing" /\ v.f.kind = "arable" /\ v.f.crop = None
      /\ ~v.f.mown_fallow /\ ~v.f.rest_owed /\ v.f.furrowing /\ ~v.f.plowed
      /\ v.f.reaped_day = w.f.reaped_day /\ v.f.mown_day = w.f.mown_day
  BY <1>3, <1>4, <1>5, <1>6, <1>8, OpenedRow
<1>10. IsRow(v.f)
  BY <1>9 DEF IsRow, Standing, Furrow
<1>11. Rested(w.f, day) => Rested(v.f, day)
  BY <1>9 DEF Rested
<1>12. Beside(w, v) /\ ~Mowing(w) /\ ~Mowing(v)
  BY <1>7, <1>8, <1>9 DEF Beside, Mowing
<1> QED BY <1>2, <1>9, <1>10, <1>11, <1>12, RowStep

\* A rest keeps the soil under its ceiling.
LEMMA RestRow ==
  ASSUME NEW f, IsRow(f)
  PROVE  LET g == Rest(f)
         IN /\ IsRow(g) /\ SameStage(f, g) /\ g.laid_grams = f.laid_grams
            /\ g.slots = f.slots /\ g.assigned = f.assigned /\ g.plowed = f.plowed
<1> DEFINE ceiling == FullSoil + (IF f.booked THEN f.applied ELSE 0)
           soil == Least(f.fertility + Recovery, ceiling)
           g == [f EXCEPT !.fertility = soil, !.last_crop = None, !.repeat_years = 0]
<1>1. /\ DOMAIN f = RowColumns /\ f.fertility \in FloorSoil..(FullSoil + Norm)
      /\ f.applied \in 0..Norm /\ f.fertility <= ceiling
  BY DEF IsRow, Typed, Soil
<1>2. ceiling \in FullSoil..(FullSoil + Norm)
  BY <1>1, Numbers
<1>3. Rest(f) = g
  BY <1>1 DEF Rest, RowColumns
<1> HIDE DEF ceiling
<1>4. soil \in FloorSoil..(FullSoil + Norm) /\ soil <= ceiling
  BY <1>1, <1>2, Numbers DEF Least
<1> HIDE DEF soil
<1>5. 0 \in 0..PenaltyYears
  BY Numbers
<1>6. Typed(g)
  BY <1>4, <1>5 DEF IsRow, Typed, RowColumns, Crops
<1>7. Laying(g)
  BY <1>1 DEF IsRow, Laying, RowColumns
<1>8. Standing(g) /\ Furrow(g)
  BY <1>1 DEF IsRow, Standing, Furrow, RowColumns
<1>9. Soil(g)
  BY <1>1, <1>4 DEF IsRow, Soil, RowColumns, ceiling
<1>10. SameStage(f, g) /\ g.laid_grams = f.laid_grams
       /\ g.slots = f.slots /\ g.assigned = f.assigned /\ g.plowed = f.plowed
  BY <1>1 DEF SameStage, RowColumns
<1> HIDE DEF g
<1> QED BY <1>3, <1>6, <1>7, <1>8, <1>9, <1>10 DEF IsRow

\* The sowing is done, or the fallow's furrow harrowed.
LEMMA SowingGoes ==
  ASSUME NEW w, IsWorld(w), w.f.phase \in {"harrowing", "sowing"}, NEW seed \in 0..2, NEW day
  PROVE  LET v == FinishSowing(w, seed)
         IN /\ Goes(w, v, day) /\ Quiet(w, v) /\ v.col = w.col
            /\ v.f.kind = w.f.kind /\ v.f.phase = "growing"
<1> DEFINE f == w.f  rests == f.rest_owed /\ f.crop # None
           r == IF rests THEN Rest(f) ELSE f
           e == [r EXCEPT !.furrow_day = Never, !.rest_owed = FALSE, !.phase = "growing",
                          !.work = 0]
           share == IF Crop[f.crop].seed = 0 THEN 2 ELSE seed
           summers == IF Ages(f.crop) THEN 1 ELSE 0
           s == [e EXCEPT !.sown_share = share, !.summers = summers, !.stress = 0]
<1>1. IsRow(f) /\ Shaped(w)
  BY WorldIsShaped DEF IsWorld
<1>2. f.kind = "arable" /\ ~f.furrowing /\ ~f.mown_fallow
  BY <1>1 DEF IsRow, Typed, Standing, Furrow
<1>3. IsRow(r) /\ SameStage(f, r)
  BY <1>1, RestRow DEF SameStage
<1> HIDE DEF r
<1>4. /\ DOMAIN r = RowColumns /\ r.kind = "arable" /\ ~r.furrowing /\ ~r.mown_fallow
      /\ r.crop = f.crop /\ r.mown_day = f.mown_day /\ r.reaped_day = f.reaped_day
      /\ r.phase = f.phase
  BY <1>2, <1>3 DEF SameStage, IsRow, Typed, Standing
<1>5. /\ DOMAIN e = RowColumns /\ e.kind = "arable" /\ e.phase = "growing" /\ e.crop = f.crop
      /\ ~e.furrowing /\ ~e.mown_fallow /\ e.rest_owed = FALSE
      /\ e.mown_day = f.mown_day /\ e.reaped_day = f.reaped_day
      /\ e.harvest_work = 0 /\ e.laid_share = 0 /\ e.laid_grams = 0
  BY <1>3, <1>4 DEF RowColumns, IsRow, Laying
<1>6. Typed(e)
  <2>1. 0 \in 0..Parts
    BY Numbers
  <2> QED BY <1>3, <2>1 DEF IsRow, Typed, RowColumns
<1>7. Soil(e)
  BY <1>3, <1>4 DEF IsRow, Soil, RowColumns
<1> HIDE DEF e
<1>8. Laying(e) /\ Standing(e) /\ Furrow(e)
  BY <1>5, Numbers DEF Laying, Standing, Furrow
<1>9. CASE f.crop = None
  <2> DEFINE v == [w EXCEPT !.f = e]
  <2>1. FinishSowing(w, seed) = v
    BY <1>9 DEF FinishSowing, e, r
  <2>2. v.f = e /\ Beside(w, v)
    BY <1>1 DEF Shaped, Beside
  <2> HIDE DEF v
  <2>3. IsRow(e)
    BY <1>6, <1>7, <1>8 DEF IsRow
  <2>4. ~Rested(f, day)
    BY <1>2, <1>9 DEF Rested
  <2>5. ~Mowing(w) /\ ~Mowing(v)
    BY <1>2, <1>5, <2>2 DEF Mowing
  <2> QED BY <1>2, <1>5, <2>1, <2>2, <2>3, <2>4, <2>5, RowStep
<1>10. CASE f.crop # None
  <2>1. share \in 0..2
    OBVIOUS
  <2>2. summers \in 0..Len(Summers)
    BY AmountsAssumption
  <2> HIDE DEF share, summers
  <2>3. /\ DOMAIN s = RowColumns /\ s.kind = "arable" /\ s.phase = "growing"
        /\ s.crop = f.crop /\ ~s.furrowing /\ ~s.mown_fallow /\ s.rest_owed = FALSE
        /\ s.mown_day = f.mown_day /\ s.reaped_day = f.reaped_day
        /\ s.harvest_work = 0 /\ s.laid_share = 0 /\ s.laid_grams = 0
    BY <1>5 DEF RowColumns
  <2>4. Typed(s)
    BY <1>6, <2>1, <2>2 DEF Typed, RowColumns
  <2>5. Soil(s)
    BY <1>5, <1>7 DEF Soil, RowColumns
  <2> HIDE DEF s
  <2>6. Laying(s) /\ Standing(s) /\ Furrow(s)
    BY <2>3, Numbers DEF Laying, Standing, Furrow
  <2>7. IsRow(s)
    BY <2>4, <2>5, <2>6 DEF IsRow
  <2> DEFINE told == IF rests THEN w.b.rests + 1 ELSE w.b.rests
             c == [w.b EXCEPT !.rests = told]
             h == Sown(c)
             v == [w EXCEPT !.f = s, !.b = h]
  <2>8. FinishSowing(w, seed) = v
    <3>1. FinishSowing(w, seed) = [w EXCEPT !.f = s, !.b = Sown(
             [w.b EXCEPT !.rests = IF rests THEN @ + 1 ELSE @])]
      BY <1>10 DEF FinishSowing, r, e, s, share, summers
    <3>2. [w.b EXCEPT !.rests = IF rests THEN @ + 1 ELSE @] = c
      BY <1>1 DEF Shaped
    <3> HIDE DEF rests, c, s
    <3> QED BY <3>1, <3>2
  <2>9. /\ DOMAIN c = DOMAIN w.b /\ c.hay = w.b.hay /\ c.rests = told
        /\ c.broken = w.b.broken
    BY <1>1 DEF Shaped
  <2> HIDE DEF c, told
  <2>10. /\ DOMAIN h = DOMAIN w.b /\ h.hay = w.b.hay /\ h.rests = told
         /\ h.broken = w.b.broken
    BY <1>1, <2>9 DEF Sown, Shaped
  <2> HIDE DEF h
  <2>11. /\ v.f = s /\ v.b = h /\ DOMAIN v = DOMAIN w /\ v.day = w.day /\ v.air = w.air
         /\ v.sky = w.sky /\ v.cover = w.cover /\ v.col = w.col
    BY <1>1 DEF Shaped
  <2> HIDE DEF v
  <2>12. ~Mowing(w) /\ ~Mowing(v)
    BY <1>2, <2>3, <2>11 DEF Mowing
  <2>13. told \in Nat
    BY DEF told, IsWorld
  <2>14. IsWorld(v)
    BY <2>7, <2>10, <2>11, <2>13 DEF IsWorld
  <2>15. HayOf(w) => HayOf(v)
    BY <2>3, <2>10, <2>11, <2>12 DEF HayOf
  <2>16. ASSUME RestsBy(w, day) PROVE RestsBy(v, day)
    <3>1. CASE ~rests
      <4>1. told = w.b.rests
        BY <3>1 DEF told
      <4>2. Rested(f, day) => Rested(s, day)
        BY <1>2, <1>10, <2>3 DEF Rested
      <4> QED BY <2>10, <2>11, <2>16, <4>1, <4>2 DEF RestsBy
    <3>2. CASE rests
      <4>1. Winter(f.crop)
        BY <1>1, <3>2 DEF IsRow, Standing
      <4>2. ~Rested(f, day)
        BY <1>2, <3>2 DEF Rested
      <4>3. w.b.rests = 0
        BY <2>16, <4>2 DEF RestsBy
      <4>4. told = 1
        BY <3>2, <4>3 DEF told
      <4>5. Rested(s, day)
        BY <2>3, <4>1 DEF Rested
      <4> QED BY <2>10, <2>11, <4>4, <4>5 DEF RestsBy
    <3> QED BY <3>1, <3>2
  <2>17. Goes(w, v, day)
    BY <2>11, <2>14, <2>15, <2>16 DEF Goes
  <2> QED BY <1>2, <2>3, <2>8, <2>10, <2>11, <2>12, <2>17 DEF Quiet
<1> QED BY <1>9, <1>10

\* A phase opened after another on an arable row.
LEMMA NextPhase ==
  ASSUME NEW w, IsWorld(w), w.f.kind = "arable", ~w.f.furrowing, NEW day,
         NEW phase \in {"harrowing", "sowing", "harvest"},
         phase = "harrowing" => w.f.phase = "plowing",
         phase = "sowing" => w.f.phase = "harrowing" /\ w.f.crop # None,
         phase = "harvest" => w.f.phase = "growing" /\ w.f.crop # None /\
                                (Winter(w.f.crop) => Late(day))
  PROVE  LET v == OpenPhase(w, phase)
         IN /\ Goes(w, v, day) /\ Quiet(w, v) /\ v.col = w.col /\ v.f.kind = "arable"
            /\ v.f.phase = phase /\ ~v.f.furrowing /\ v.f.work = Parts /\ v.f.crop = w.f.crop
<1> DEFINE v == OpenPhase(w, phase)
<1>1. IsRow(w.f) /\ Shaped(w) /\ w.day \in Nat /\ w.f.phase # "harvest"
  BY WorldIsShaped DEF IsWorld
<1>2. Beside(w, v) /\ v.f = RowOpened(w.f, phase, w.day)
  BY <1>1, OpenedIs
<1> HIDE DEF v
<1>3. /\ Typed(v.f) /\ Laying(v.f) /\ Soil(v.f)
      /\ v.f.phase = phase /\ v.f.work = Parts /\ v.f.kind = "arable" /\ v.f.crop = w.f.crop
      /\ v.f.mown_fallow = w.f.mown_fallow /\ v.f.rest_owed = w.f.rest_owed
      /\ v.f.furrowing = w.f.furrowing
      /\ v.f.reaped_day = w.f.reaped_day /\ v.f.mown_day = w.f.mown_day
  BY <1>1, <1>2, OpenedRow DEF IsRow
<1>4. Standing(v.f) /\ Furrow(v.f)
  BY <1>1, <1>3 DEF IsRow, Standing, Furrow
<1>5. IsRow(v.f)
  BY <1>3, <1>4 DEF IsRow
<1>6. Rested(w.f, day) => Rested(v.f, day)
  BY <1>1, <1>3 DEF Rested
<1>7. ~Mowing(w) /\ ~Mowing(v)
  BY <1>3 DEF Mowing
<1> QED BY <1>2, <1>3, <1>5, <1>6, <1>7, RowStep DEF v

\* The furrow turned: the ground is ploughed and lies.
LEMMA FurrowTurned ==
  ASSUME NEW w, IsWorld(w), w.f.phase = "plowing", w.f.furrowing, w.f.work = 0, NEW day
  PROVE  LET v == AdvanceFinishedField(w, 0)
         IN /\ Goes(w, v, day) /\ Quiet(w, v) /\ v.col = w.col
            /\ v.f.kind = w.f.kind /\ v.f.phase = "idle" /\ ~v.f.furrowing
<1> DEFINE g == [w.f EXCEPT !.furrowing = FALSE, !.plowed = TRUE, !.furrow_day = Never,
                            !.phase = "idle"]
           v == [w EXCEPT !.f = g]
<1>1. IsRow(w.f) /\ Shaped(w)
  BY WorldIsShaped DEF IsWorld
<1>2. w.f.kind = "arable"
  BY <1>1 DEF IsRow, Typed, Standing
<1>3. AdvanceFinishedField(w, 0) = v
  BY DEF AdvanceFinishedField, Working
<1>4. v.f = g /\ Beside(w, v)
  BY <1>1 DEF Shaped, Beside
<1> HIDE DEF v
<1>5. /\ DOMAIN g = RowColumns /\ g.kind = "arable" /\ g.phase = "idle" /\ ~g.furrowing
      /\ g.crop = w.f.crop /\ g.rest_owed = w.f.rest_owed /\ ~g.rest_owed
      /\ g.reaped_day = w.f.reaped_day /\ g.mown_day = w.f.mown_day /\ ~g.mown_fallow
  BY <1>1, <1>2 DEF IsRow, Typed, Standing, RowColumns
<1>6. Typed(g)
  BY <1>1 DEF IsRow, Typed, RowColumns
<1>7. Laying(g)
  BY <1>1 DEF IsRow, Typed, Laying, RowColumns
<1>8. Soil(g)
  BY <1>1 DEF IsRow, Typed, Soil, RowColumns
<1> HIDE DEF g
<1>9. IsRow(g)
  BY <1>5, <1>6, <1>7, <1>8 DEF IsRow, Standing, Furrow
<1>10. Rested(w.f, day) => Rested(g, day)
  BY <1>2, <1>5 DEF Rested
<1>11. ~Mowing(w) /\ ~Mowing(v)
  BY <1>2, <1>4, <1>5 DEF Mowing
<1> QED BY <1>2, <1>3, <1>4, <1>5, <1>9, <1>10, <1>11, RowStep

\* A finished phase, whichever it is (AdvanceFinishedField).
LEMMA AdvanceGoes ==
  ASSUME NEW w, IsWorld(w), NEW seed \in 0..2, NEW day,
         w.f.kind = "arable" /\ w.f.phase = "harvest" /\ w.f.work = 0 => day = w.day
  PROVE  LET v == AdvanceFinishedField(w, seed)
         IN /\ Goes(w, v, day) /\ Quiet(w, v) /\ v.col = w.col /\ v.f.kind = w.f.kind
            /\ w.f.phase \notin {"plowing", "harrowing"} =>
                 v.f.phase \notin {"plowing", "harrowing"}
            /\ v.f.phase = "harvest" => v = w /\ w.f.work > 0
            /\ v.f.furrowing /\ v.f.phase = "plowing" => v.f.work > 0
            /\ v = w \/ v.f.phase = "harrowing" \/ v.f.phase = "sowing"
                 \/ v.f.phase \in {"growing", "idle"}
            /\ w.f.phase = "plowing" /\ w.f.work = 0 => v.f.phase # "plowing"
<1> DEFINE f == w.f  v == AdvanceFinishedField(w, seed)
<1>1. IsRow(f) /\ f.work \in Nat /\ (f.phase \in {"plowing", "harrowing", "sowing"} => f.kind = "arable")
  <2>1. IsRow(f) /\ Typed(f) /\ Standing(f)
    BY DEF IsWorld, IsRow
  <2>2. f.work \in 0..Parts
    BY <2>1 DEF Typed
  <2>3. f.phase \in {"plowing", "harrowing", "sowing"} => f.kind = "arable"
    BY <2>1 DEF Standing, Typed
  <2> QED BY <2>1, <2>2, <2>3, Numbers
<1>2. CASE ~Working(f) \/ f.work > 0
  <2>1. v = w
    BY <1>2 DEF AdvanceFinishedField
  <2>2. f.phase \in {"plowing", "harvest"} => f.work > 0
    BY <1>2 DEF Working
  <2> HIDE DEF v
  <2>3. Goes(w, v, day) /\ Quiet(w, v)
    BY <2>1, Remains DEF Quiet
  <2> QED BY <1>1, <2>1, <2>2, <2>3 DEF v
<1>3. CASE Working(f) /\ f.work = 0 /\ f.phase = "plowing" /\ f.furrowing
  <2>1. v = AdvanceFinishedField(w, 0)
    BY <1>3 DEF AdvanceFinishedField
  <2> HIDE DEF v
  <2> QED BY <1>3, <2>1, FurrowTurned DEF v
<1>4. CASE Working(f) /\ f.work = 0 /\ f.phase = "plowing" /\ ~f.furrowing
  <2> DEFINE u == OpenPhase(w, "harrowing")  g == [u.f EXCEPT !.furrow_day = w.day]
             x == [u EXCEPT !.f = g]
  <2>1. /\ Goes(w, u, day) /\ Quiet(w, u) /\ u.col = w.col /\ u.f.kind = "arable"
        /\ u.f.phase = "harrowing" /\ ~u.f.furrowing
    BY <1>1, <1>4, NextPhase
  <2> HIDE DEF u
  <2>2. IsWorld(u)
    BY <2>1 DEF Goes
  <2>3. IsRow(u.f) /\ Shaped(u)
    BY <2>2, WorldIsShaped DEF IsWorld
  <2>4. v = x
    BY <1>4, <2>3 DEF AdvanceFinishedField, u, Shaped
  <2>5. /\ DoseAlone(u.f, g) /\ g.dose = u.f.dose /\ g.applied = u.f.applied
        /\ g.fertility = u.f.fertility /\ g.booked = u.f.booked
    BY <2>3 DEF DoseAlone, SameStage, Shaped, RowColumns
  <2> HIDE DEF g
  <2>6. Soil(g)
    BY <2>3, <2>5 DEF IsRow, Soil
  <2>7. IsRow(g)
    BY <2>3, <2>5, <2>6, DoseRow DEF IsRow, Typed
  <2>8. Goes(u, x, day) /\ Quiet(u, x) /\ x.col = u.col /\ x.f = g
    BY <2>2, <2>5, <2>7, DoseStep
  <2> HIDE DEF v, x
  <2>9. g.kind = "arable" /\ g.phase = "harrowing"
    BY <2>1, <2>5 DEF DoseAlone, SameStage
  <2>10. Quiet(w, x)
    BY <2>1, <2>8, <2>9 DEF Quiet, Mowing
  <2>11. Goes(w, x, day)
    BY <2>1, <2>8, GoesOn
  <2> QED BY <1>1, <1>4, <2>1, <2>4, <2>8, <2>9, <2>10, <2>11 DEF v
<1>5. CASE Working(f) /\ f.work = 0 /\ f.phase = "harrowing" /\ f.crop = None
  <2>1. v = FinishSowing(w, seed)
    BY <1>5 DEF AdvanceFinishedField
  <2> HIDE DEF v
  <2> QED BY <1>5, <2>1, SowingGoes DEF v
<1>6. CASE Working(f) /\ f.work = 0 /\ f.phase = "harrowing" /\ f.crop # None
  <2>1. v = w \/ v = OpenPhase(w, "sowing")
    BY <1>6 DEF AdvanceFinishedField
  <2>2. ~f.furrowing
    BY <1>1, <1>6 DEF IsRow, Furrow
  <2> HIDE DEF v
  <2>3. CASE v = w
    <3>1. Goes(w, v, day) /\ Quiet(w, v)
      BY <2>3, Remains DEF Quiet
    <3> QED BY <1>6, <2>3, <3>1 DEF v
  <2>4. CASE v = OpenPhase(w, "sowing")
    BY <1>1, <1>6, <2>2, <2>4, NextPhase DEF v
  <2> QED BY <2>1, <2>3, <2>4
<1>7. CASE Working(f) /\ f.work = 0 /\ f.phase = "sowing"
  <2>1. v = w \/ v = FinishSowing(w, seed)
    BY <1>7 DEF AdvanceFinishedField
  <2> HIDE DEF v
  <2>2. CASE v = w
    <3>1. Goes(w, v, day) /\ Quiet(w, v)
      BY <2>2, Remains DEF Quiet
    <3> QED BY <1>7, <2>2, <3>1 DEF v
  <2>3. CASE v = FinishSowing(w, seed)
    BY <1>7, <2>3, SowingGoes DEF v
  <2> QED BY <2>1, <2>2, <2>3
<1>8. CASE Working(f) /\ f.work = 0 /\ f.phase = "harvest"
  <2>1. v = FinishHarvest(w)
    BY <1>8 DEF AdvanceFinishedField
  <2>2. Arable(f) => day = w.day
    BY <1>8 DEF Arable
  <2> HIDE DEF v
  <2> QED BY <1>8, <2>1, <2>2, HarvestGoes DEF v
<1>9. Working(f) => f.phase \in {"plowing", "harrowing", "sowing", "harvest"}
  BY DEF Working
<1> QED BY <1>1, <1>2, <1>3, <1>4, <1>5, <1>6, <1>7, <1>8, <1>9

-----------------------------------------------------------------------------
(* The fields' day.                                                        *)

\* The first day the cut may be begun.
OpensCut(w) == MonthOf(w.day) = CutMonth /\ DayOfYear(w.day) % DaysPerMonth = 0

\* What the fields' day leaves as it was for the column, the meadow's mark and
\* the hay of the months before the cut.
Tends(w, v) ==
  /\ v.col = w.col /\ v.f.kind = w.f.kind
  /\ w.f.phase \in {"sowing", "harvest"} => v.f.phase \notin {"plowing", "harrowing"}
  /\ v.f.furrowing => w.f.furrowing \/ v.f.phase = "plowing"
  /\ MonthOf(w.day) < CutMonth /\ NoHay(w) => NoHay(v)

\* Where no cut is under way and no hay is in, none comes of a quiet step.
LEMMA QuietIsNoHay ==
  ASSUME NEW w, NEW v, Quiet(w, v), NoHay(w)
  PROVE  NoHay(v)
  BY DEF Quiet, NoHay

\* Idle ground is ploughed for no rest a second time in a year (TrySow).
LEMMA TrySowGoes ==
  ASSUME NEW w, IsWorld(w), w.f.kind = "arable", w.f.phase = "idle", NEW in, in.dung \in Nat
  PROVE  LET v == TrySow(w, in) IN Goes(w, v, w.day) /\ Quiet(w, v) /\ Tends(w, v)
<1> DEFINE f == w.f  v == TrySow(w, in)
<1>1. IsRow(f) /\ Typed(f) /\ ~f.rest_owed
  BY DEF IsWorld, IsRow, Standing
<1>2. Rested(f, w.day) => ThisYear(f.reaped_day, w.day) /\ Late(w.day)
  BY DEF Rested
<1>3. f.slots[1] \in Crops /\ f.slots[2] \in Crops
  BY <1>1, SlotsAre
<1>4. \/ v = w
      \/ v = OpenZyab(w) /\ ~f.plowed
      \/ v = OpenPlowing(w, Fallow, "ground", in.dung) /\ MonthOf(w.day) = FallowMonth
      \/ v = OpenPlowing(w, 1, "ground", in.dung) /\ f.slots[1] # None
      \/ v = OpenPlowing(w, 2, "ground", in.dung) /\ f.slots[2] # None
  <2>1. \/ v = w
        \/ v = OpenZyab(w) /\ ZyabDue(f, w.day)
        \/ v = OpenPlowing(w, Fallow, "ground", in.dung) /\ MonthOf(w.day) = FallowMonth
        \/ v = OpenPlowing(w, 1, "ground", in.dung) /\ f.slots[1] # None
        \/ v = TrySowWinter(w, in.dung)
    BY DEF TrySow
  <2>2. \/ TrySowWinter(w, in.dung) = w
        \/ TrySowWinter(w, in.dung) = OpenPlowing(w, 2, "ground", in.dung) /\ Winter(f.slots[2])
    BY Zenon DEF TrySowWinter, WinterWindowOpen
  <2>3. ZyabDue(f, w.day) => ~f.plowed
    BY DEF ZyabDue
  <2>4. Winter(f.slots[2]) => f.slots[2] # None
    BY DEF Winter
  <2> HIDE DEF v
  <2> QED BY Zenon, <2>1, <2>2, <2>3, <2>4
<1> HIDE DEF v
<1>5. CASE v = w
  <2>1. Goes(w, v, w.day) /\ Quiet(w, v)
    BY <1>5, Remains DEF Quiet
  <2> QED BY <1>5, <2>1 DEF Tends, v
<1>6. CASE v = OpenZyab(w) /\ ~f.plowed
  <2>1. /\ Goes(w, v, w.day) /\ Quiet(w, v) /\ v.col = w.col /\ v.f.kind = "arable"
        /\ v.f.phase = "plowing"
    BY <1>6, ZyabGoes
  <2>2. Tends(w, v)
    BY <2>1, QuietIsNoHay DEF Tends
  <2> QED BY <2>1, <2>2 DEF v
<1>7. ASSUME NEW slot \in 0..2, v = OpenPlowing(w, slot, "ground", in.dung),
             Rested(f, w.day) => slot # Fallow /\ f.slots[slot] # None
      PROVE  Goes(w, v, w.day) /\ Quiet(w, v) /\ Tends(w, v)
  <2>1. /\ w.f.phase # "harvest" /\ "ground" # "black_fallow"
        /\ Rested(w.f, w.day) =>
             /\ ThisYear(w.f.reaped_day, w.day) /\ Late(w.day)
             /\ "ground" # "black_fallow" /\ slot # Fallow /\ w.f.slots[slot] # None
    BY <1>2, <1>7
  <2>2. /\ Goes(w, v, w.day) /\ Quiet(w, v) /\ v.col = w.col /\ v.f.kind = "arable"
        /\ ~v.f.furrowing
    BY <1>7, <2>1, PlowingGoes, ZenonT(60)
  <2>3. Tends(w, v)
    BY <2>2, QuietIsNoHay DEF Tends
  <2> QED BY <2>2, <2>3
<1>8. CASE v = OpenPlowing(w, Fallow, "ground", in.dung) /\ MonthOf(w.day) = FallowMonth
  <2>1. ~Late(w.day)
    BY <1>8, Numbers DEF Late
  <2>2. Fallow \in 0..2
    BY DEF Fallow
  <2> QED BY <1>2, <1>7, <1>8, <2>1, <2>2 DEF v
<1>9. CASE v = OpenPlowing(w, 1, "ground", in.dung) /\ f.slots[1] # None
  BY <1>7, <1>9 DEF v, Fallow
<1>10. CASE v = OpenPlowing(w, 2, "ground", in.dung) /\ f.slots[2] # None
  BY <1>7, <1>10 DEF v, Fallow
<1> QED BY <1>4, <1>5, <1>6, <1>8, <1>9, <1>10

\* A black fallow is harrowed for the winter crop it rests for.
LEMMA BlackFallowGoes ==
  ASSUME NEW w, IsWorld(w), w.f.kind = "arable", w.f.phase \in {"growing", "harvest"},
         w.f.crop = None, NEW dung \in Nat
  PROVE  LET v == TrySowOnBlackFallow(w, dung)
         IN Goes(w, v, w.day) /\ Quiet(w, v) /\ Tends(w, v)
<1> DEFINE f == w.f  v == TrySowOnBlackFallow(w, dung)  slot == NextSlot(f)
<1>1. IsRow(f) /\ Typed(f) /\ ~f.rest_owed /\ ~f.furrowing /\ f.phase = "growing"
  BY DEF IsWorld, IsRow, Standing, Furrow
<1>2. ~Rested(f, w.day)
  BY <1>1 DEF Rested, Winter
<1>3. slot \in 0..2 /\ slot # Fallow
  BY DEF NextSlot, Fallow
<1>4. v = w \/ (v = OpenPlowing(w, slot, "black_fallow", dung) /\ Winter(f.slots[slot]))
  BY DEF TrySowOnBlackFallow, WinterWindowOpen
<1> HIDE DEF v, slot
<1>5. CASE v = w
  <2>1. Goes(w, v, w.day) /\ Quiet(w, v)
    BY <1>5, Remains DEF Quiet
  <2> QED BY <1>5, <2>1 DEF Tends, v
<1>6. CASE v = OpenPlowing(w, slot, "black_fallow", dung) /\ Winter(f.slots[slot])
  <2>1. /\ w.f.phase # "harvest" /\ slot # Fallow /\ Winter(w.f.slots[slot])
        /\ ~Rested(w.f, w.day)
    BY <1>1, <1>2, <1>3, <1>6
  <2>2. /\ Goes(w, v, w.day) /\ Quiet(w, v) /\ v.col = w.col /\ v.f.kind = "arable"
        /\ ~v.f.furrowing
    BY <1>3, <1>6, <2>1, PlowingGoes, ZenonT(60)
  <2>3. Tends(w, v)
    BY <1>1, <2>2, QuietIsNoHay DEF Tends
  <2> QED BY <2>2, <2>3 DEF v
<1> QED BY <1>4, <1>5, <1>6

\* A meadow mown this year is not opened for another cut (RunMeadow).
LEMMA MeadowGoes ==
  ASSUME NEW w, IsWorld(w), w.f.kind = "meadow", OpensCut(w) => NoHay(w)
  PROVE  LET v == RunMeadow(w) IN Goes(w, v, w.day) /\ Tends(w, v)
<1> DEFINE f == w.f  v == RunMeadow(w)  u == OpenPhase(w, "harvest")
           inMonths == MonthOf(w.day) \in CutMonth..CutMonthEnd
           due == OpensCut(w) \/ (inMonths /\ ~ThisYear(f.mown_day, w.day))
<1>1. IsRow(f) /\ Shaped(w) /\ w.day \in Nat
  BY WorldIsShaped DEF IsWorld
<1>2. ~(OpensCut(w) /\ f.phase = "harvest")
  BY DEF NoHay, Mowing
<1>3. v = IF f.phase = "growing" /\ due THEN u ELSE w
  BY <1>2 DEF RunMeadow, OpensCut
<1> HIDE DEF u
<1>4. CASE ~(f.phase = "growing" /\ due)
  <2>1. Goes(w, v, w.day) /\ v = w
    BY <1>3, <1>4, Remains
  <2> HIDE DEF v
  <2> QED BY <2>1 DEF Tends, v
<1>5. CASE f.phase = "growing" /\ due
  <2>1. v = u
    BY <1>3, <1>5
  <2> HIDE DEF v
  <2>2. Beside(w, u) /\ u.f = RowOpened(f, "harvest", w.day)
    BY <1>1, OpenedIs DEF u
  <2>3. /\ Typed(u.f) /\ Laying(u.f) /\ Soil(u.f)
        /\ u.f.phase = "harvest" /\ u.f.kind = "meadow" /\ u.f.crop = f.crop
        /\ u.f.mown_fallow = f.mown_fallow /\ u.f.rest_owed = f.rest_owed
        /\ u.f.furrowing = f.furrowing /\ u.f.plowed = f.plowed
        /\ u.f.reaped_day = f.reaped_day /\ u.f.mown_day = f.mown_day
        /\ u.f.laid_grams = 0
    BY <1>1, <1>5, <2>2, OpenedRow DEF IsRow
  <2>4. Standing(u.f) /\ Furrow(u.f)
    BY <1>1, <1>5, <2>3 DEF IsRow, Standing, Furrow
  <2>5. IsWorld(u)
    BY <2>2, <2>3, <2>4 DEF IsWorld, Beside, IsRow
  <2>6. Rested(f, w.day) => Rested(u.f, w.day)
    BY <2>3 DEF Rested
  <2>7. RestsBy(w, w.day) => RestsBy(u, w.day)
    BY <2>2, <2>6 DEF RestsBy, Beside
  <2>8. ~Mowing(w) /\ Mowing(u)
    BY <1>5, <2>3 DEF Mowing
  <2>9. HayOf(w) => HayOf(u)
    <3> SUFFICES ASSUME HayOf(w), ~w.b.broken PROVE w.b.hay = 0
      BY <2>2, <2>3, <2>8, Numbers DEF HayOf, Beside
    <3>1. CASE OpensCut(w)
      BY <3>1 DEF NoHay
    <3>2. CASE ~OpensCut(w)
      BY <1>5, <2>8, <3>2 DEF HayOf
    <3> QED BY <3>1, <3>2
  <2>10. Goes(w, u, w.day)
    BY <2>2, <2>5, <2>7, <2>9 DEF Goes, Beside
  <2>11. ~(MonthOf(w.day) < CutMonth)
    BY <1>1, <1>5, Dates, Numbers DEF OpensCut
  <2>12. Tends(w, u)
    BY <1>5, <2>2, <2>3, <2>11 DEF Tends, Beside
  <2> QED BY <2>1, <2>10, <2>12 DEF v
<1> QED BY <1>4, <1>5

\* The fields' day, once the shares are laid.
LEMMA LaidFieldsGo ==
  ASSUME NEW w, IsWorld(w), OpensCut(w) => NoHay(w), NEW in, in.dung \in Nat
  PROVE  LET v == RunLaidFields(w, in) IN Goes(w, v, w.day) /\ Tends(w, v)
<1> DEFINE f == w.f  v == RunLaidFields(w, in)
<1>1. IsRow(f) /\ f.crop \in Crops /\ f.kind \in {"arable", "meadow", "gone"} /\ w.day \in Nat
  BY DEF IsWorld, IsRow, Typed
<1>2. ASSUME v = w PROVE Goes(w, v, w.day) /\ Tends(w, v)
  <2>1. Goes(w, v, w.day)
    BY <1>2, Remains
  <2> HIDE DEF v
  <2> QED BY <1>2, <2>1 DEF Tends
<1>3. CASE f.kind = "meadow"
  <2>1. v = RunMeadow(w)
    BY <1>3 DEF RunLaidFields, Arable
  <2> QED BY <1>3, <2>1, MeadowGoes
<1>4. CASE f.kind = "arable" /\ f.phase = "idle"
  <2>1. v = TrySow(w, in)
    BY <1>4 DEF RunLaidFields, Arable
  <2> QED BY <1>4, <2>1, TrySowGoes
<1>5. CASE f.kind = "arable" /\ f.phase \in {"growing", "harvest"} /\ f.crop = None
  <2>1. v = TrySowOnBlackFallow(w, in.dung)
    BY <1>5 DEF RunLaidFields, Arable
  <2> QED BY <1>5, <2>1, BlackFallowGoes
<1>6. CASE f.kind = "arable" /\ f.phase \in {"growing", "harvest"} /\ f.crop # None
  <2>1. \/ v = LoseFieldToSnow(w) /\ ~Winter(f.crop)
        \/ v = OpenPhase(w, "harvest") /\ f.phase = "growing" /\ ReapingMayOpen(f, w.day)
        \/ v = w
    BY <1>6 DEF RunLaidFields, Arable
  <2> HIDE DEF v
  <2>2. CASE v = LoseFieldToSnow(w) /\ ~Winter(f.crop)
    <3>1. /\ Goes(w, v, w.day) /\ v.col = w.col /\ v.f.kind = "arable" /\ v.f.phase = "idle"
          /\ ~v.f.furrowing /\ v.b.hay \in {0, w.b.hay}
      BY <1>6, <2>2, SnowGoes DEF Arable
    <3>2. Tends(w, v)
      BY <1>6, <3>1 DEF Tends, NoHay, Mowing
    <3> QED BY <3>1, <3>2 DEF v
  <2>3. CASE v = OpenPhase(w, "harvest") /\ f.phase = "growing" /\ ReapingMayOpen(f, w.day)
    <3>1. Winter(f.crop) => Late(w.day)
      <4>1. MonthOf(w.day) >= Crop[f.crop].reapFrom /\ Crop[f.crop].reapFrom \in Nat
        BY <1>1, <1>6, <2>3, CropIs DEF ReapingMayOpen
      <4>2. Winter(f.crop) => FallowMonth < Crop[f.crop].reapFrom
        BY <1>1, CropIs
      <4>3. MonthOf(w.day) \in Nat /\ FallowMonth \in Nat
        BY <1>1, Dates, Numbers
      <4> QED BY <4>1, <4>2, <4>3 DEF Late
    <3>2. ~f.furrowing
      BY <1>1, <1>6 DEF IsRow, Furrow
    <3>3. /\ Goes(w, v, w.day) /\ Quiet(w, v) /\ v.col = w.col /\ v.f.kind = "arable"
          /\ v.f.phase = "harvest" /\ ~v.f.furrowing
      BY <1>6, <2>3, <3>1, <3>2, NextPhase
    <3>4. Tends(w, v)
      BY <1>6, <3>3, QuietIsNoHay DEF Tends
    <3> QED BY <3>3, <3>4 DEF v
  <2> QED BY <1>2, <2>1, <2>2, <2>3 DEF v
<1>7. CASE \/ f.kind = "gone"
           \/ f.kind = "arable" /\ f.phase \notin {"idle", "growing", "harvest"}
  <2>1. v = w
    BY <1>7 DEF RunLaidFields, Arable
  <2> QED BY <1>2, <2>1
<1> QED BY <1>1, <1>3, <1>4, <1>5, <1>6, <1>7

\* The fields' day.
LEMMA FieldsGo ==
  ASSUME NEW w, IsWorld(w), OpensCut(w) => NoHay(w), NEW in, in.dung \in Nat
  PROVE  LET v == RunFields(w, in) IN Goes(w, v, w.day) /\ Tends(w, v)
<1> DEFINE a == LayReapedShare(w)  b == LayMownShare(a)  v == RunLaidFields(b, in)
<1>1. Goes(w, a, w.day) /\ Quiet(w, a) /\ a.col = w.col /\ SameStage(w.f, a.f)
  BY LayReapedGoes
<1>2. IsWorld(a) /\ a.day = w.day
  BY <1>1 DEF Goes
<1> HIDE DEF a
<1>3. Goes(a, b, w.day) /\ Quiet(a, b) /\ b.col = a.col /\ SameStage(a.f, b.f)
  BY <1>2, LayMownGoes
<1>4. IsWorld(b) /\ b.day = w.day
  BY <1>2, <1>3 DEF Goes
<1> HIDE DEF b
<1>5. NoHay(w) => NoHay(b)
  BY <1>1, <1>3, QuietIsNoHay
<1>6. OpensCut(b) => NoHay(b)
  BY <1>4, <1>5 DEF OpensCut
<1>7. Goes(b, v, w.day) /\ Tends(b, v)
  BY <1>4, <1>6, LaidFieldsGo
<1>8. RunFields(w, in) = v
  BY DEF RunFields, a, b
<1> HIDE DEF v
<1>9. Goes(w, v, w.day)
  BY <1>1, <1>3, <1>7, GoesOn
<1>10. Tends(w, v)
  BY <1>1, <1>3, <1>4, <1>5, <1>7 DEF Tends, SameStage
<1> QED BY <1>8, <1>9, <1>10

-----------------------------------------------------------------------------
(* The year's turn.                                                        *)

\* A furrow broken off at the turn is one with work left in it.
FurrowOpen(f) == f.furrowing /\ f.phase = "plowing" => f.work > 0

\* What the turn does to a row it finds arable.
Turned(f, g) ==
  /\ IsRow(g) /\ g.kind = "arable"
  /\ f.phase \in {"sowing", "harvest"} => g.phase = f.phase
  /\ FurrowOpen(g)

\* A fallow that ends at the turn.
LEMMA EndFallowRow ==
  ASSUME NEW f, IsRow(f), f.kind = "arable", FurrowOpen(f)
  PROVE  Turned(f, EndFallow(f))
<1> DEFINE soil == SoilFertility(f)
           g == [f EXCEPT !.phase = "idle", !.applied = 0, !.booked = FALSE,
                          !.fertility = soil]
<1>1. CASE ~(f.phase = "growing" /\ f.crop = None)
  BY <1>1 DEF EndFallow, Turned
<1>2. CASE f.phase = "growing" /\ f.crop = None
  <2>1. EndFallow(f) = g
    BY <1>2 DEF EndFallow
  <2>2. DOMAIN f = RowColumns /\ ~f.furrowing /\ ~f.rest_owed /\ ~f.mown_fallow
    BY <1>2 DEF IsRow, Typed, Furrow, Standing
  <2>3. soil \in FloorSoil..FullSoil
    BY Numbers DEF SoilFertility, Least, IsRow, Typed
  <2> HIDE DEF soil
  <2>4. /\ g.kind = "arable" /\ g.phase = "idle" /\ ~g.furrowing /\ ~g.rest_owed
        /\ ~g.mown_fallow /\ ~g.booked /\ g.fertility = soil
    BY <2>2 DEF RowColumns
  <2>5. 0 \in 0..Norm /\ soil \in FloorSoil..(FullSoil + Norm) /\ soil <= FullSoil + 0
    BY <2>3, Numbers
  <2>6. Typed(g)
    BY <2>5 DEF IsRow, Typed, RowColumns
  <2>7. Laying(g)
    BY <1>2 DEF IsRow, Typed, Laying, RowColumns
  <2> HIDE DEF g
  <2>8. Standing(g) /\ Furrow(g) /\ Soil(g)
    BY <2>4, <2>5 DEF Standing, Furrow, Soil
  <2>9. FurrowOpen(g)
    BY <2>4 DEF FurrowOpen
  <2> QED BY <1>2, <2>1, <2>4, <2>6, <2>7, <2>8, <2>9 DEF Turned, IsRow
<1> QED BY <1>1, <1>2

\* A rest at the turn.
LEMMA TurnRestRow ==
  ASSUME NEW f, IsRow(f), f.kind = "arable", FurrowOpen(f)
  PROVE  Turned(f, Rest(f))
  BY RestRow DEF Turned, FurrowOpen, SameStage

\* A preparation given up at the turn (ReleaseUnsownPreparation).
LEMMA ReleaseRow ==
  ASSUME NEW f, IsRow(f), f.kind = "arable", FurrowOpen(f)
  PROVE  Turned(f, ReleaseUnsownPreparation(f))
<1>1. DOMAIN f = RowColumns /\ Parts \in Nat
  BY Numbers DEF IsRow, Typed
<1> DEFINE a == [f EXCEPT !.furrow_day = Never, !.phase = "idle"]
           b == [f EXCEPT !.furrowing = FALSE, !.work = 0]
           turned == /\ f.phase = "harrowing"
                     /\ ThisYear(f.furrow_day, f.reaped_day) /\ f.furrow_day >= f.reaped_day
           plowed == f.plowed \/ turned
           c == [f EXCEPT !.plowed = plowed, !.furrow_day = Never, !.rest_owed = FALSE,
                          !.crop = None, !.phase = "idle", !.work = 0]
<1>2. CASE f.furrowing /\ f.phase = "plowing"
  <2>1. ReleaseUnsownPreparation(f) = a
    BY <1>2 DEF ReleaseUnsownPreparation
  <2>2. /\ a.kind = "arable" /\ a.phase = "idle" /\ a.work = f.work /\ a.crop = f.crop
        /\ a.furrowing = f.furrowing /\ a.plowed = f.plowed /\ a.rest_owed = f.rest_owed
        /\ a.mown_fallow = f.mown_fallow
    BY <1>1 DEF RowColumns
  <2>3. Typed(a)
    BY <1>1 DEF IsRow, Typed, RowColumns
  <2>4. Laying(a)
    BY <1>1, <1>2 DEF IsRow, Laying, RowColumns
  <2>5. Soil(a)
    BY <1>1 DEF IsRow, Soil, RowColumns
  <2> HIDE DEF a
  <2>6. ~f.rest_owed /\ ~f.mown_fallow /\ f.crop = None /\ ~f.plowed /\ f.work > 0
    BY <1>2 DEF IsRow, Standing, Furrow, FurrowOpen
  <2>7. Standing(a) /\ Furrow(a) /\ FurrowOpen(a)
    BY <2>2, <2>6 DEF Standing, Furrow, FurrowOpen
  <2> QED BY <1>2, <2>1, <2>2, <2>3, <2>4, <2>5, <2>7 DEF Turned, IsRow
<1>3. CASE f.furrowing /\ f.phase # "plowing"
  <2>1. ReleaseUnsownPreparation(f) = b
    BY <1>3 DEF ReleaseUnsownPreparation
  <2>2. f.phase = "idle" /\ ~f.rest_owed /\ ~f.mown_fallow
    BY <1>3 DEF IsRow, Standing, Furrow
  <2>3. /\ b.kind = "arable" /\ b.phase = "idle" /\ b.work = 0
        /\ ~b.furrowing /\ ~b.rest_owed /\ ~b.mown_fallow
    BY <1>1, <2>2 DEF RowColumns
  <2>4. Typed(b)
    BY <1>1 DEF IsRow, Typed, RowColumns
  <2>5. Laying(b)
    BY <1>1, <2>2 DEF IsRow, Laying, RowColumns
  <2>6. Soil(b)
    BY <1>1 DEF IsRow, Soil, RowColumns
  <2> HIDE DEF b
  <2>7. Standing(b) /\ Furrow(b) /\ FurrowOpen(b)
    BY <2>3 DEF Standing, Furrow, FurrowOpen
  <2> QED BY <2>1, <2>2, <2>3, <2>4, <2>5, <2>6, <2>7 DEF Turned, IsRow
<1>4. CASE ~f.furrowing /\ Unsown(f)
  <2>1. ReleaseUnsownPreparation(f) = c
    <3>1. ReleaseUnsownPreparation(f) =
            [f EXCEPT !.plowed = @ \/ turned, !.furrow_day = Never, !.rest_owed = FALSE,
                      !.crop = None, !.phase = "idle", !.work = 0]
      BY <1>4 DEF ReleaseUnsownPreparation
    <3> HIDE DEF turned
    <3> QED BY <1>1, <3>1 DEF RowColumns
  <2> HIDE DEF plowed
  <2>2. f.phase \in {"plowing", "harrowing"} /\ ~f.mown_fallow
    BY <1>4 DEF Unsown, IsRow, Standing
  <2>3. /\ c.kind = "arable" /\ c.phase = "idle" /\ c.work = 0
        /\ ~c.furrowing /\ ~c.rest_owed /\ ~c.mown_fallow
    BY <1>1, <1>4, <2>2 DEF RowColumns
  <2>4. Typed(c)
    BY <1>1 DEF IsRow, Typed, RowColumns, Crops
  <2>5. Laying(c)
    BY <1>1, <2>2 DEF IsRow, Laying, RowColumns
  <2>6. Soil(c)
    BY <1>1 DEF IsRow, Soil, RowColumns
  <2> HIDE DEF c
  <2>7. Standing(c) /\ Furrow(c) /\ FurrowOpen(c)
    BY <2>3 DEF Standing, Furrow, FurrowOpen
  <2> QED BY <2>1, <2>2, <2>3, <2>4, <2>5, <2>6, <2>7 DEF Turned, IsRow
<1>5. CASE ~f.furrowing /\ ~Unsown(f)
  <2>1. ReleaseUnsownPreparation(f) = f
    BY <1>5 DEF ReleaseUnsownPreparation
  <2> QED BY <2>1 DEF Turned
<1> QED BY <1>2, <1>3, <1>4, <1>5

\* A chain that moves on (TurnChain).
LEMMA ChainRow ==
  ASSUME NEW f, IsRow(f), f.kind = "arable", FurrowOpen(f)
  PROVE  Turned(f, TurnChain(f))
<1> DEFINE skips == ~FirstWinterStanding(f)
           slots == <<f.slots[2], f.slots[3], f.slots[1]>>
           a == [f EXCEPT !.skips = skips]  b == [f EXCEPT !.slots = slots]
<1>1. DOMAIN f = RowColumns
  BY DEF IsRow, Typed
<1>2. slots \in Chain
  BY SlotsAre DEF IsRow, Chain
<1>3. TurnChain(f) \in {a, b}
  BY DEF TurnChain
<1> HIDE DEF skips, slots
<1>4. Turned(f, a)
  <2>1. Typed(a)
    BY <1>1 DEF IsRow, Typed, RowColumns
  <2>2. Laying(a)
    BY <1>1 DEF IsRow, Laying, RowColumns
  <2>3. Standing(a) /\ Furrow(a) /\ FurrowOpen(a) /\ a.kind = "arable" /\ a.phase = f.phase
    BY <1>1 DEF IsRow, Standing, Furrow, FurrowOpen, RowColumns
  <2>4. Soil(a)
    BY <1>1 DEF IsRow, Soil, RowColumns
  <2> HIDE DEF a
  <2> QED BY <2>1, <2>2, <2>3, <2>4 DEF Turned, IsRow
<1>5. Turned(f, b)
  <2>1. Typed(b)
    BY <1>1, <1>2 DEF IsRow, Typed, RowColumns
  <2>2. Laying(b)
    BY <1>1 DEF IsRow, Laying, RowColumns
  <2>3. Standing(b) /\ Furrow(b) /\ FurrowOpen(b) /\ b.kind = "arable" /\ b.phase = f.phase
    BY <1>1 DEF IsRow, Standing, Furrow, FurrowOpen, RowColumns
  <2>4. Soil(b)
    BY <1>1 DEF IsRow, Soil, RowColumns
  <2> HIDE DEF b
  <2> QED BY <2>1, <2>2, <2>3, <2>4 DEF Turned, IsRow
<1> QED BY <1>3, <1>4, <1>5

\* A stand another season is named over.
LEMMA NamedOverStandRow ==
  ASSUME NEW f, IsRow(f), f.kind = "arable", FurrowOpen(f)
  PROVE  Turned(f, EndNamedOverStand(f))
<1> DEFINE g == [f EXCEPT !.last_crop = f.crop, !.crop = None, !.phase = "idle", !.stress = 0]
           ends == f.phase = "growing" /\ Perennial(f.crop) /\ f.slots[1] # f.crop
<1>1. CASE ~ends
  <2>1. EndNamedOverStand(f) = f
    BY <1>1 DEF EndNamedOverStand
  <2> QED BY <2>1 DEF Turned
<1>2. CASE ends
  <2>1. EndNamedOverStand(f) = g
    BY <1>2, Zenon DEF EndNamedOverStand
  <2>2. DOMAIN f = RowColumns /\ f.crop # None
    BY <1>2 DEF IsRow, Typed, Perennial
  <2>3. ~f.furrowing /\ ~f.rest_owed /\ ~f.mown_fallow
    BY <1>2, <2>2 DEF IsRow, Furrow, Standing
  <2>4. /\ g.kind = "arable" /\ g.phase = "idle" /\ ~g.furrowing /\ ~g.rest_owed
        /\ ~g.mown_fallow
    BY <2>2, <2>3 DEF RowColumns
  <2>5. Typed(g)
    BY <2>2 DEF IsRow, Typed, RowColumns, Crops
  <2>6. Laying(g)
    BY <1>2, <2>2 DEF IsRow, Laying, RowColumns
  <2>7. Soil(g)
    BY <2>2 DEF IsRow, Soil, RowColumns
  <2> HIDE DEF g
  <2>8. Standing(g) /\ Furrow(g) /\ FurrowOpen(g)
    BY <2>4 DEF Standing, Furrow, FurrowOpen
  <2> QED BY <1>2, <2>1, <2>4, <2>5, <2>6, <2>7, <2>8 DEF Turned, IsRow
<1> QED BY <1>1, <1>2

\* The turn of a row (TurnField).
LEMMA TurnRow ==
  ASSUME NEW f, IsRow(f), f.kind = "arable", FurrowOpen(f), NEW day
  PROVE  Turned(f, TurnField(f, day))
<1> DEFINE a == EndFallow(f)  b == IF StoodBare(f, day) THEN Rest(a) ELSE a
           c == ReleaseUnsownPreparation(b)  d == TurnChain(c)  e == EndNamedOverStand(d)
<1>1. Turned(f, a)
  BY EndFallowRow
<1> HIDE DEF a
<1>2. Turned(a, b)
  BY <1>1, TurnRestRow DEF Turned
<1> HIDE DEF b
<1>3. Turned(b, c)
  BY <1>2, ReleaseRow DEF Turned
<1> HIDE DEF c
<1>4. Turned(c, d)
  BY <1>3, ChainRow DEF Turned
<1> HIDE DEF d
<1>5. Turned(d, e)
  BY <1>4, NamedOverStandRow DEF Turned
<1>6. TurnField(f, day) = e
  BY DEF TurnField, a, b, c, d
<1> HIDE DEF e
<1> QED BY <1>1, <1>2, <1>3, <1>4, <1>5, <1>6 DEF Turned

\* A field that stood bare over the year has had no rest in it.
LEMMA BareIsUnrested ==
  ASSUME NEW f, IsRow(f), f.kind = "arable", NEW day \in Nat, DayOfYear(day + 1) = 0,
         StoodBare(f, day + 1)
  PROVE  ~Rested(f, day)
<1>1. YearOf(day + 1) = YearOf(day) + 1 /\ YearOf(day) \in Nat
  BY NextDay, Dates
<1>2. YearOf(day + 1) - 1 = YearOf(day)
  BY <1>1
<1>3. CASE f.phase = "growing" /\ f.crop = None
  <2>1. ~f.furrowing
    BY <1>3 DEF IsRow, Furrow
  <2> QED BY <1>3, <2>1 DEF Rested, Winter
<1>4. CASE Unsown(f) /\ ~(f.reaped_day # Never /\ YearOf(f.reaped_day) = YearOf(day + 1) - 1)
  BY <1>2, <1>4 DEF Rested, ThisYear, Unsown
<1>5. CASE f.phase = "idle" /\ ~(f.reaped_day # Never /\ YearOf(f.reaped_day) = YearOf(day + 1) - 1)
  BY <1>2, <1>5 DEF Rested, ThisYear
<1> QED BY <1>3, <1>4, <1>5 DEF StoodBare

\* The year's turn rests a field that has not rested, and begins the hay anew.
LEMMA YearStartGoes ==
  ASSUME NEW w, IsWorld(w), NEW day \in Nat, w.day = day + 1, DayOfYear(w.day) = 0,
         RestsBy(w, day), ~Mowing(w), FurrowOpen(w.f), NEW dung \in Nat
  PROVE  LET v == RunYearStart(w, dung)
         IN /\ IsWorld(v) /\ v.day = w.day /\ v.air = w.air /\ v.sky = w.sky
            /\ v.cover = w.cover /\ v.col = w.col
            /\ v.b.rests \in {0, 1} /\ HayOf(v) /\ NoHay(v)
            /\ w.f.phase \in {"sowing", "harvest"} => v.f.phase = w.f.phase
<1> DEFINE f == w.f  g == IF Arable(f) THEN TurnField(f, w.day) ELSE f
           history == TurnHistory(w.b, f, w.day)
           u == [w EXCEPT !.f = g, !.b = history]
           bare == Arable(f) /\ StoodBare(f, w.day)
           v == BookManureDoses(u, dung)
<1>1. IsRow(f) /\ Shaped(w)
  BY WorldIsShaped DEF IsWorld
<1>2. IsRow(g) /\ (f.phase \in {"sowing", "harvest"} => g.phase = f.phase) /\ g.kind = f.kind
  BY <1>1, TurnRow DEF Turned, Arable
<1>3. RunYearStart(w, dung) = v
  BY <1>1 DEF RunYearStart, Shaped
<1>4. /\ DOMAIN history = DOMAIN w.b /\ history.hay = 0 /\ history.broken = FALSE
      /\ history.rests = IF bare THEN w.b.rests + 1 ELSE w.b.rests
  BY <1>1 DEF TurnHistory, Shaped
<1>5. bare => w.b.rests = 0
  BY <1>1, BareIsUnrested DEF RestsBy, Arable
<1>6. history.rests \in {0, 1}
  BY <1>4, <1>5 DEF RestsBy
<1> HIDE DEF g, history, bare
<1>7. /\ DOMAIN u = DOMAIN w /\ u.f = g /\ u.b = history /\ u.day = w.day /\ u.air = w.air
      /\ u.sky = w.sky /\ u.cover = w.cover /\ u.col = w.col
  BY <1>1 DEF Shaped
<1> HIDE DEF u
<1>8. IsWorld(u)
  BY <1>2, <1>4, <1>6, <1>7 DEF IsWorld
<1>9. ~Mowing(u)
  <2>1. CASE Arable(f)
    BY <1>2, <1>7, <2>1 DEF Mowing, Arable
  <2>2. CASE ~Arable(f)
    BY <1>7, <2>2 DEF Mowing, g
  <2> QED BY <2>1, <2>2
<1>10. HayOf(u) /\ NoHay(u)
  BY <1>4, <1>7, <1>9, Numbers DEF HayOf, NoHay
<1>11. Goes(u, v, "any") /\ Quiet(u, v) /\ v.col = u.col /\ SameStage(u.f, v.f)
       /\ v.b.rests = u.b.rests
  <2>1. Goes(u, v, "any") /\ Quiet(u, v) /\ v.col = u.col /\ SameStage(u.f, v.f)
    BY <1>8, BookGoes
  <2>2. v.b = u.b
    BY <1>8 DEF BookManureDoses, IsWorld
  <2> QED BY <2>1, <2>2
<1>12. NoHay(v)
  BY <1>10, <1>11, QuietIsNoHay
<1> HIDE DEF v
<1>13. IsWorld(v) /\ HayOf(v) /\ v.day = u.day /\ v.air = u.air /\ v.sky = u.sky
       /\ v.cover = u.cover
  BY <1>10, <1>11 DEF Goes
<1> QED BY <1>2, <1>3, <1>6, <1>7, <1>11, <1>12, <1>13 DEF SameStage

-----------------------------------------------------------------------------
(* Orders.                                                                 *)

\* What an order leaves: no ground is taken into work by it, and a phase that
\* goes on goes on as it stood.
Obeys(w, v) ==
  /\ v.col = w.col
  /\ w.f.phase \notin {"plowing", "harrowing"} => v.f.phase \notin {"plowing", "harrowing"}
  /\ v.f.kind = "arable" /\ v.f.phase = "harvest" =>
       w.f.kind = "arable" /\ w.f.phase = "harvest" /\ v.f.work = w.f.work
  /\ v.f.furrowing /\ v.f.phase = "plowing" =>
       w.f.furrowing /\ w.f.phase = "plowing" /\ v.f.work = w.f.work

\* The chain named on the row.
NamedChain(f, slots, named) == [f EXCEPT !.slots = slots, !.assigned = named, !.skips = named]

\* A chain named.
LEMMA NamedRow ==
  ASSUME NEW f, IsRow(f), NEW slots \in Chain, NEW named
  PROVE  LET g == NamedChain(f, slots, named)
         IN IsRow(g) /\ SameStage(f, g)
<1> DEFINE g == [f EXCEPT !.slots = slots, !.assigned = named, !.skips = named]
<1>1. DOMAIN f = RowColumns
  BY DEF IsRow, Typed
<1>2. Typed(g)
  BY <1>1 DEF IsRow, Typed, RowColumns
<1>3. Laying(g)
  BY <1>1 DEF IsRow, Laying, RowColumns
<1>4. Standing(g) /\ Furrow(g)
  BY <1>1 DEF IsRow, Standing, Furrow, RowColumns
<1>5. Soil(g)
  BY <1>1 DEF IsRow, Soil, RowColumns
<1>6. SameStage(f, g)
  BY <1>1 DEF SameStage, RowColumns
<1> HIDE DEF g
<1>7. IsRow(g) /\ SameStage(f, g)
  BY <1>2, <1>3, <1>4, <1>5, <1>6 DEF IsRow
<1> QED BY <1>7 DEF g, NamedChain

\* A mown fallow ploughed up.
LEMMA PloughedUpRow ==
  ASSUME NEW f, IsRow(f), f.kind = "meadow", f.mown_fallow, NEW day
  PROVE  LET g == PloughUpMownFallow(f)
         IN /\ IsRow(g) /\ g.kind = "arable" /\ g.phase = "idle" /\ g.mown_day = f.mown_day
            /\ (Rested(f, day) => Rested(g, day))
<1> DEFINE g == [f EXCEPT !.work = 0, !.harvest_work = 0, !.laid_share = 0, !.laid_grams = 0,
                          !.kind = "arable", !.mown_fallow = FALSE, !.phase = "idle"]
<1>1. DOMAIN f = RowColumns /\ ~f.rest_owed /\ f.phase \in {"growing", "harvest"}
  BY DEF IsRow, Typed, Standing
<1>2. PloughUpMownFallow(f) = g
  BY <1>1 DEF PloughUpMownFallow, NoReaping, RowColumns
<1>3. /\ g.kind = "arable" /\ g.phase = "idle" /\ g.mown_day = f.mown_day
      /\ g.reaped_day = f.reaped_day /\ ~g.rest_owed /\ ~g.mown_fallow
      /\ g.furrowing = f.furrowing /\ g.crop = f.crop /\ g.plowed = f.plowed
      /\ g.harvest_work = 0 /\ g.laid_share = 0 /\ g.laid_grams = 0
  BY <1>1 DEF RowColumns
<1>4. Typed(g)
  <2>1. 0 \in 0..Parts
    BY Numbers
  <2> QED BY <1>1, <2>1 DEF IsRow, Typed, RowColumns
<1>5. Soil(g)
  BY <1>1 DEF IsRow, Soil, RowColumns
<1> HIDE DEF g
<1>6. Laying(g) /\ Standing(g) /\ Furrow(g)
  BY <1>1, <1>3, Numbers DEF IsRow, Laying, Standing, Furrow
<1>7. Rested(f, day) => Rested(g, day)
  BY <1>3 DEF Rested
<1> QED BY <1>2, <1>3, <1>4, <1>5, <1>6, <1>7 DEF IsRow

\* The order that names a chain (SetRotation).
LEMMA RotationGoes ==
  ASSUME NEW w, IsWorld(w), NEW slots \in Chain, NEW day
  PROVE  LET v == SetRotation(w, slots) IN Goes(w, v, day) /\ Quiet(w, v) /\ Obeys(w, v)
<1> DEFINE f == w.f  v == SetRotation(w, slots)
           mown == f.kind = "meadow" /\ f.mown_fallow
           stand == Arable(f) /\ Ages(f.crop)
           named == \E i \in 1..3 : slots[i] # None
           freed == IF stand /\ f.phase = "growing" THEN EndGrassStand(f) ELSE f
           up == PloughUpMownFallow(freed)
           g == NamedChain(up, slots, named)
           broke == mown /\ f.phase = "harvest"
           broken == w.b.broken \/ broke
           history == [w.b EXCEPT !.slot = 0, !.used = 0, !.excused = 0, !.said = "unasked",
                                  !.broken = broken]
           u == [w EXCEPT !.f = g, !.b = history]
           still == ~(Arable(f) \/ mown) \/ (stand /\ f.phase = "harvest")
<1>1. IsRow(f) /\ Shaped(w)
  BY WorldIsShaped DEF IsWorld
<1>2. CASE still
  <2>1. v = w
    BY <1>2, Zenon DEF SetRotation
  <2> HIDE DEF v
  <2>2. Goes(w, v, day)
    BY <2>1, Remains
  <2> QED BY <2>1, <2>2 DEF Quiet, Obeys, v
<1>3. CASE ~still
  <2>1. v = u
    <3> DEFINE told == [w.b EXCEPT !.slot = 0, !.used = 0, !.excused = 0, !.said = "unasked",
                                   !.broken = w.b.broken \/ (mown /\ f.phase = "harvest")]
    <3>1. told = history
      OBVIOUS
    <3>2. v = IF still THEN w ELSE [w EXCEPT !.f = g, !.b = told]
      BY Zenon DEF SetRotation, NamedChain
    <3> HIDE DEF v, still, g, history, told
    <3> QED BY <1>3, <3>1, <3>2
  <2> HIDE DEF v
  <2>2. /\ IsRow(freed) /\ freed.kind = f.kind /\ freed.mown_day = f.mown_day
        /\ (freed = f \/ (f.kind = "arable" /\ f.phase = "growing" /\ freed.phase = "idle"))
        /\ (Rested(f, day) => Rested(freed, day))
    BY <1>1, StandEnds DEF Arable
  <2>3. CASE Arable(f)
    <3>1. freed.kind = "arable"
      BY <2>2, <2>3 DEF Arable
    <3> HIDE DEF freed
    <3>2. up = freed
      BY <3>1 DEF PloughUpMownFallow
    <3> HIDE DEF up
    <3>3. IsRow(g) /\ SameStage(freed, g)
      BY <2>2, <3>2, NamedRow
    <3>4. ~mown
      BY <2>3 DEF Arable
    <3> HIDE DEF g, mown, stand
    <3>5. (history.broken <=> w.b.broken) /\ DOMAIN history = DOMAIN w.b
          /\ history.hay = w.b.hay /\ history.rests = w.b.rests
      BY <1>1, <3>4 DEF Shaped
    <3> HIDE DEF history
    <3>6. u.f = g /\ Beside(w, u)
      BY <1>1, <3>5 DEF Shaped, Beside
    <3> HIDE DEF u
    <3>7. Rested(f, day) => Rested(g, day)
      BY <2>2, <3>3 DEF Rested, SameStage
    <3>8. ~Mowing(w) /\ ~Mowing(u) /\ u.f.mown_day = f.mown_day
      BY <2>2, <2>3, <3>1, <3>3, <3>6 DEF Mowing, SameStage, Arable
    <3>9. Goes(w, u, day) /\ Quiet(w, u) /\ u.col = w.col
      BY <3>3, <3>6, <3>7, <3>8, RowStep
    <3>10. Obeys(w, u)
      BY <2>2, <3>3, <3>6, <3>9 DEF Obeys, SameStage
    <3> QED BY <2>1, <3>9, <3>10 DEF v
  <2>4. CASE mown
    <3>1. freed = f
      BY <2>2, <2>4
    <3>2. /\ IsRow(up) /\ up.kind = "arable" /\ up.phase = "idle" /\ up.mown_day = f.mown_day
          /\ (Rested(f, day) => Rested(up, day))
      <4> HIDE DEF freed
      <4> QED BY <1>1, <2>4, <3>1, PloughedUpRow
    <3> HIDE DEF up, freed
    <3>3. IsRow(g) /\ SameStage(up, g)
      BY <3>2, NamedRow
    <3>4. f.kind = "meadow"
      BY <2>4
    <3>5. ~broken => ~w.b.broken /\ f.phase # "harvest"
      BY <2>4
    <3> HIDE DEF g, mown, stand, broken
    <3>6. history.broken = broken /\ DOMAIN history = DOMAIN w.b
          /\ history.hay = w.b.hay /\ history.rests = w.b.rests
      BY <1>1 DEF Shaped
    <3> HIDE DEF history
    <3>7. /\ u.f = g /\ u.b = history /\ DOMAIN u = DOMAIN w /\ u.day = w.day
          /\ u.air = w.air /\ u.sky = w.sky /\ u.cover = w.cover /\ u.col = w.col
      BY <1>1 DEF Shaped
    <3> HIDE DEF u
    <3>8. /\ g.kind = "arable" /\ g.phase = "idle" /\ g.mown_day = f.mown_day
      BY <3>2, <3>3 DEF SameStage
    <3>9. Rested(f, day) => Rested(g, day)
      BY <3>2, <3>3 DEF Rested, SameStage
    <3>10. IsWorld(u)
      BY <3>3, <3>6, <3>7 DEF IsWorld
    <3>11. RestsBy(w, day) => RestsBy(u, day)
      BY <3>6, <3>7, <3>9 DEF RestsBy
    <3>12. ~Mowing(u)
      BY <3>7, <3>8 DEF Mowing
    <3>13. HayOf(w) => HayOf(u)
      BY <3>5, <3>6, <3>7, <3>8, <3>12 DEF HayOf, Mowing
    <3>14. Goes(w, u, day)
      BY <3>7, <3>10, <3>11, <3>13 DEF Goes
    <3>15. Quiet(w, u)
      BY <3>6, <3>7, <3>12 DEF Quiet
    <3>16. Obeys(w, u)
      BY <3>7, <3>8 DEF Obeys
    <3> QED BY <2>1, <3>14, <3>15, <3>16 DEF v
  <2> QED BY <1>3, <2>3, <2>4
<1> QED BY <1>2, <1>3

\* The two rows that orders make.
LEMMA GroundIsRow ==
  /\ IsRow(Gone) /\ Gone.kind = "gone" /\ Gone.phase = "idle" /\ Gone.furrowing = FALSE
  /\ IsRow(NewMeadow) /\ NewMeadow.kind = "meadow" /\ NewMeadow.phase = "growing"
  /\ NewMeadow.mown_day = Never /\ NewMeadow.reaped_day = Never
<1>1. /\ 0 \in 0..Parts /\ 0 \in 0..PenaltyYears /\ 0 \in 0..Norm /\ 0 \in Nat /\ 2 \in 0..2
      /\ FullSoil \in FloorSoil..(FullSoil + Norm) /\ FullSoil <= FullSoil + 0
  BY Numbers
<1>2. 0 \in 0..Len(Summers)
  BY AmountsAssumption
<1>3. None \in Crops /\ <<None, None, None>> \in Chain
  BY DEF Crops, Chain
<1>4. IsDose(NoDose) /\ ~NoDose.named
  BY DEF IsDose, NoDose
<1>5. ASSUME NEW f, DOMAIN f = RowColumns,
             f.kind \in {"gone", "meadow"}, f.mown_fallow = FALSE,
             f.phase = (IF f.kind = "gone" THEN "idle" ELSE "growing"),
             f.crop = None, f.last_crop = None, f.repeat_years = 0, f.work = 0,
             f.harvest_work = 0, f.laid_share = 0, f.laid_grams = 0,
             f.slots = <<None, None, None>>, f.furrowing = FALSE, f.sown_day = Never,
             f.reaped_day = Never, f.mown_day = Never, f.summers = 0, f.sown_share = 2,
             f.stress = 0, f.fertility = FullSoil, f.applied = 0, f.booked = FALSE,
             f.rest_owed = FALSE, f.dose = NoDose
      PROVE  IsRow(f)
  <2>1. Typed(f)
    BY <1>1, <1>2, <1>3, <1>4, <1>5 DEF Typed, Stamp
  <2>2. Laying(f) /\ Standing(f) /\ Furrow(f) /\ Soil(f)
    BY <1>1, <1>5 DEF Laying, Standing, Furrow, Soil
  <2> QED BY <2>1, <2>2 DEF IsRow
<1>6. IsRow(Gone) /\ Gone.kind = "gone" /\ Gone.phase = "idle" /\ Gone.furrowing = FALSE
  BY <1>5 DEF Gone, Ground, RowColumns
<1>7. /\ IsRow(NewMeadow) /\ NewMeadow.kind = "meadow" /\ NewMeadow.phase = "growing"
      /\ NewMeadow.mown_day = Never /\ NewMeadow.reaped_day = Never
  BY <1>5 DEF NewMeadow, Ground, RowColumns
<1> QED BY <1>6, <1>7

\* The order that removes a row (RemoveField).
LEMMA RemoveGoes ==
  ASSUME NEW w, IsWorld(w), NEW day
  PROVE  LET v == RemoveField(w) IN Goes(w, v, day) /\ Quiet(w, v) /\ Obeys(w, v)
<1> DEFINE v == RemoveField(w)  u == [w EXCEPT !.f = Gone, !.b = NoHistory]
<1>1. Shaped(w)
  BY WorldIsShaped
<1>2. v = w \/ v = u
  BY DEF RemoveField
<1> HIDE DEF v
<1>3. CASE v = w
  <2>1. Goes(w, v, day)
    BY <1>3, Remains
  <2> QED BY <1>3, <2>1 DEF Quiet, Obeys, v
<1>4. CASE v = u
  <2>1. /\ u.f = Gone /\ u.b = NoHistory /\ DOMAIN u = DOMAIN w /\ u.day = w.day
        /\ u.air = w.air /\ u.sky = w.sky /\ u.cover = w.cover /\ u.col = w.col
    BY <1>1 DEF Shaped
  <2> HIDE DEF u
  <2>2. /\ DOMAIN NoHistory = DOMAIN w.b /\ NoHistory.hay = 0 /\ NoHistory.rests = 0
    BY <1>1 DEF Shaped, NoHistory
  <2>3. IsWorld(u)
    BY <2>1, <2>2, GroundIsRow DEF IsWorld
  <2>4. RestsBy(u, day)
    BY <2>1, <2>2 DEF RestsBy
  <2>5. ~Mowing(u)
    BY <2>1, GroundIsRow DEF Mowing
  <2>6. HayOf(u)
    BY <2>1, <2>2, <2>5, Numbers DEF HayOf
  <2>7. Goes(w, u, day)
    BY <2>1, <2>3, <2>4, <2>6 DEF Goes
  <2>8. Quiet(w, u) /\ Obeys(w, u)
    BY <2>1, <2>2, <2>5, GroundIsRow DEF Quiet, Obeys
  <2> QED BY <1>4, <2>7, <2>8 DEF v
<1> QED BY <1>2, <1>3, <1>4

\* The order that marks a meadow (MarkMeadow).
LEMMA MarkGoes ==
  ASSUME NEW w, IsWorld(w), NEW day,
         Careful => ~(w.f.furrowing /\ w.f.phase = "idle")
  PROVE  LET v == MarkMeadow(w) IN Goes(w, v, day) /\ Quiet(w, v) /\ Obeys(w, v)
<1> DEFINE f == w.f  v == MarkMeadow(w)
           fallow == Arable(f) /\ ~HasRotation(f) /\ f.phase = "idle" /\ f.heap = None
           a == [w EXCEPT !.f = NewMeadow]
           g == [f EXCEPT !.kind = "meadow", !.mown_fallow = TRUE, !.phase = "growing",
                          !.work = 0]
           history == [w.b EXCEPT !.said = "unasked"]
           b == [w EXCEPT !.f = g, !.b = history]
<1>1. IsRow(f) /\ Shaped(w)
  BY WorldIsShaped DEF IsWorld
<1>2. (v = a /\ f.kind = "gone") \/ (v = b /\ fallow) \/ v = w
  <2>1. [w EXCEPT !.f = g, !.b.said = "unasked"] = b
    <3> HIDE DEF g
    <3> QED BY <1>1 DEF Shaped
  <2>2. (v = a /\ f.kind = "gone") \/ (v = [w EXCEPT !.f = g, !.b.said = "unasked"] /\ fallow)
        \/ v = w
    BY DEF MarkMeadow
  <2> HIDE DEF v, a, b, fallow
  <2> QED BY <2>1, <2>2
<1> HIDE DEF v
<1>3. CASE v = w
  <2>1. Goes(w, v, day)
    BY <1>3, Remains
  <2> QED BY <1>3, <2>1 DEF Quiet, Obeys, v
<1>4. CASE v = a /\ f.kind = "gone"
  <2>1. a.f = NewMeadow /\ Beside(w, a)
    BY <1>1 DEF Shaped, Beside
  <2> HIDE DEF a
  <2>2. f.reaped_day = Never /\ f.mown_day = Never /\ f.phase = "idle"
    BY <1>1, <1>4 DEF IsRow, Standing
  <2>3. ~Rested(f, day)
    BY <1>4, <2>2 DEF Rested, ThisYear
  <2>4. ~Mowing(w) /\ ~Mowing(a)
    BY <1>4, <2>1, GroundIsRow DEF Mowing
  <2>5. Goes(w, a, day) /\ Quiet(w, a) /\ a.col = w.col
    BY <2>1, <2>2, <2>3, <2>4, GroundIsRow, RowStep
  <2>6. Obeys(w, a)
    BY <2>1, <2>5, GroundIsRow DEF Obeys
  <2> QED BY <1>4, <2>5, <2>6 DEF v
<1>5. CASE v = b /\ fallow
  <2>1. f.kind = "arable" /\ f.phase = "idle" /\ ~f.rest_owed
    BY <1>1, <1>5 DEF Arable, IsRow, Standing
  <2>2. /\ DOMAIN g = RowColumns /\ g.kind = "meadow" /\ g.phase = "growing"
        /\ g.mown_day = f.mown_day /\ g.reaped_day = f.reaped_day /\ ~g.rest_owed
        /\ g.furrowing = f.furrowing /\ g.crop = f.crop /\ g.plowed = f.plowed
    BY <1>1, <2>1 DEF Shaped, RowColumns
  <2>3. Typed(g)
    <3>1. 0 \in 0..Parts
      BY Numbers
    <3> QED BY <1>1, <3>1 DEF IsRow, Typed, RowColumns
  <2>4. Laying(g)
    BY <1>1, <2>1 DEF IsRow, Typed, Laying, RowColumns
  <2>5. Soil(g)
    BY <1>1 DEF IsRow, Typed, Soil, RowColumns
  <2> HIDE DEF g
  <2>6. Standing(g) /\ Furrow(g)
    BY <1>1, <2>1, <2>2 DEF IsRow, Standing, Furrow
  <2>7. Rested(f, day) => Rested(g, day)
    BY <2>1, <2>2 DEF Rested
  <2>8. /\ DOMAIN history = DOMAIN w.b /\ history.hay = w.b.hay
        /\ history.rests = w.b.rests /\ history.broken = w.b.broken
    BY <1>1 DEF Shaped
  <2> HIDE DEF history
  <2>9. b.f = g /\ Beside(w, b)
    BY <1>1, <2>8 DEF Shaped, Beside
  <2> HIDE DEF b, fallow
  <2>10. ~Mowing(w) /\ ~Mowing(b)
    BY <2>1, <2>2, <2>9 DEF Mowing
  <2>11. IsRow(g)
    BY <2>3, <2>4, <2>5, <2>6 DEF IsRow
  <2>12. Goes(w, b, day) /\ Quiet(w, b) /\ b.col = w.col
    BY <2>2, <2>7, <2>9, <2>10, <2>11, RowStep
  <2>13. Obeys(w, b)
    BY <2>2, <2>9, <2>12 DEF Obeys
  <2> QED BY <1>5, <2>12, <2>13 DEF v
<1> QED BY <1>2, <1>3, <1>4, <1>5

\* An order that may be given.
IsOrder(order, f) ==
  /\ order.kind = "chain" => order.slots \in Chain
  /\ order.kind = "mark" /\ Careful => ~(f.furrowing /\ f.phase = "idle")

\* Any order.
LEMMA OrderGoes ==
  ASSUME NEW w, IsWorld(w), NEW order, IsOrder(order, w.f), NEW day
  PROVE  LET v == Ordered(w, order) IN Goes(w, v, day) /\ Quiet(w, v) /\ Obeys(w, v)
<1> DEFINE v == Ordered(w, order)
<1>1. CASE order.kind = "chain"
  <2>1. v = SetRotation(w, order.slots) /\ order.slots \in Chain
    BY <1>1 DEF Ordered, IsOrder
  <2> HIDE DEF v
  <2> QED BY <2>1, RotationGoes DEF v
<1>2. CASE order.kind = "remove"
  <2>1. v = RemoveField(w)
    BY <1>2 DEF Ordered
  <2> HIDE DEF v
  <2> QED BY <2>1, RemoveGoes DEF v
<1>3. CASE order.kind = "mark"
  <2>1. v = MarkMeadow(w) /\ (Careful => ~(w.f.furrowing /\ w.f.phase = "idle"))
    BY <1>3 DEF Ordered, IsOrder
  <2> HIDE DEF v
  <2> QED BY <2>1, MarkGoes DEF v
<1>4. CASE order.kind \notin {"chain", "remove", "mark"}
  <2>1. v = w
    BY <1>4 DEF Ordered
  <2> HIDE DEF v
  <2>2. Goes(w, v, day)
    BY <2>1, Remains
  <2> QED BY <2>1, <2>2 DEF Quiet, Obeys, v
<1> QED BY <1>1, <1>2, <1>3, <1>4

-----------------------------------------------------------------------------
(* What a tick may not do to the dose that is being carted.                *)

DoseKept(w, v) == v.f.dose \in {w.f.dose, NoDose}

\* An opened phase.
LEMMA OpenedDose ==
  ASSUME NEW w, Shaped(w), NEW phase
  PROVE  LET v == OpenPhase(w, phase) IN Shaped(v) /\ v.f.dose = w.f.dose
<1> DEFINE v == OpenPhase(w, phase)
<1>1. Shaped(v) /\ v.f = RowOpened(w.f, phase, w.day)
  BY OpenedIs
<1> HIDE DEF v
<1>2. v.f.dose = w.f.dose
  BY <1>1 DEF RowOpened, Shaped, RowColumns
<1> QED BY <1>1, <1>2 DEF v

\* A share laid.
LEMMA LaidDose ==
  ASSUME NEW w, Shaped(w)
  PROVE  /\ Shaped(LayReapedShare(w)) /\ LayReapedShare(w).f.dose = w.f.dose
         /\ Shaped(LayMownShare(w)) /\ LayMownShare(w).f.dose = w.f.dose
<1> DEFINE g(grams, load) == LayShare(w.f, grams, load)
<1>1. ASSUME NEW grams, NEW load
      PROVE  DOMAIN g(grams, load) = RowColumns /\ g(grams, load).dose = w.f.dose
  BY DEF LayShare, Shaped, RowColumns
<1> HIDE DEF g
<1>2. ASSUME NEW grams, NEW load
      PROVE  LET v == [w EXCEPT !.f = g(grams, load), !.b.laid = @ + grams]
                 u == [w EXCEPT !.f = g(grams, load), !.b.hay = @ + grams]
             IN Shaped(v) /\ v.f.dose = w.f.dose /\ Shaped(u) /\ u.f.dose = w.f.dose
  BY <1>1 DEF Shaped
<1> DEFINE n == LaidNow(w.f, Yield(w.f))  m == LaidNow(w.f, SeasonHay)  crop == w.f.crop
           v == [w EXCEPT !.f = g(n, crop), !.b.laid = @ + n]
           u == [w EXCEPT !.f = g(m, "hay"), !.b.hay = @ + m]
<1>3. LayReapedShare(w) = w \/ LayReapedShare(w) = v
  BY DEF LayReapedShare, g
<1>4. LayMownShare(w) = w \/ LayMownShare(w) = u
  BY DEF LayMownShare, g
<1> HIDE DEF n, m, crop
<1>5. Shaped(v) /\ v.f.dose = w.f.dose
  BY <1>2
<1>6. Shaped(u) /\ u.f.dose = w.f.dose
  BY <1>2
<1> HIDE DEF v, u
<1> QED BY <1>3, <1>4, <1>5, <1>6

\* A sowing that ends.
LEMMA SownDose ==
  ASSUME NEW w, Shaped(w), NEW seed
  PROVE  FinishSowing(w, seed).f.dose = w.f.dose
<1> DEFINE rests == w.f.rest_owed /\ w.f.crop # None
           r == IF rests THEN Rest(w.f) ELSE w.f
           e == [r EXCEPT !.furrow_day = Never, !.rest_owed = FALSE, !.phase = "growing",
                          !.work = 0]
           share == IF Crop[w.f.crop].seed = 0 THEN 2 ELSE seed
           summers == IF Ages(w.f.crop) THEN 1 ELSE 0
           s == [e EXCEPT !.sown_share = share, !.summers = summers, !.stress = 0]
           b == Sown([w.b EXCEPT !.rests = IF rests THEN @ + 1 ELSE @])
<1>1. DOMAIN r = RowColumns /\ r.dose = w.f.dose
  BY DEF Rest, Shaped, RowColumns
<1> HIDE DEF r
<1>2. DOMAIN e = RowColumns /\ e.dose = w.f.dose
  BY <1>1 DEF RowColumns
<1>3. FinishSowing(w, seed) = IF w.f.crop = None THEN [w EXCEPT !.f = e]
                              ELSE [w EXCEPT !.f = s, !.b = b]
  BY Zenon DEF FinishSowing, r
<1> HIDE DEF e, share, summers, b
<1>4. s.dose = w.f.dose
  BY <1>2 DEF RowColumns
<1> HIDE DEF s
<1> QED BY <1>2, <1>3, <1>4 DEF Shaped

\* A reaping that ends.
LEMMA HarvestDose ==
  ASSUME NEW w, Shaped(w)
  PROVE  FinishHarvest(w).f.dose = w.f.dose
<1>1. CASE w.f.kind = "meadow"
  <2> DEFINE a == [w EXCEPT !.f.work = 0]  l == LayMownShare(a)
             g == GrassAgain(l.f, TRUE, w.day)
  <2>1. Shaped(a) /\ a.f.dose = w.f.dose
    BY DEF Shaped, RowColumns
  <2> HIDE DEF a
  <2>2. Shaped(l) /\ l.f.dose = w.f.dose
    BY <2>1, LaidDose
  <2> HIDE DEF l
  <2>3. g.dose = w.f.dose
    BY <2>2 DEF GrassAgain, NoReaping, Shaped, RowColumns
  <2>4. FinishHarvest(w) = [l EXCEPT !.f = g]
    BY <1>1 DEF FinishHarvest, MowMeadow, l, a
  <2> HIDE DEF g
  <2> QED BY <2>2, <2>3, <2>4 DEF Shaped
<1>2. CASE w.f.kind # "meadow" /\ w.f.crop = None
  BY <1>2 DEF FinishHarvest, Shaped, RowColumns
<1>3. CASE w.f.kind # "meadow" /\ w.f.crop # None
  <2> DEFINE l == LayReapedShare(w)  e == Settled(l.f, w.day)  g == Reaped(e, w.day)
             b == EndReaping(l.b, l.b.whole, 0)
  <2>1. Shaped(l) /\ l.f.dose = w.f.dose
    BY LaidDose
  <2>2. FinishHarvest(w) = [l EXCEPT !.f = g, !.b = b]
    BY <1>3 DEF FinishHarvest, Harvest
  <2> HIDE DEF l, b
  <2>3. DOMAIN e = RowColumns /\ e.dose = w.f.dose
    BY <2>1 DEF Settled, NoReaping, Shaped, RowColumns
  <2> HIDE DEF e
  <2>4. g.dose = w.f.dose
    BY <2>3 DEF Reaped, RowColumns
  <2> HIDE DEF g
  <2> QED BY <2>1, <2>2, <2>4 DEF Shaped
<1> QED BY <1>1, <1>2, <1>3

\* Whatever phase is finished, the dose stands.
LEMMA AdvanceDose ==
  ASSUME NEW w, Shaped(w), NEW seed
  PROVE  AdvanceFinishedField(w, seed).f.dose = w.f.dose
<1> DEFINE f == w.f  v == AdvanceFinishedField(w, seed)
           g == [f EXCEPT !.furrowing = FALSE, !.plowed = TRUE, !.furrow_day = Never,
                          !.phase = "idle"]
           o == OpenPhase(w, "harrowing")
<1>1. \/ v = w
      \/ v = [w EXCEPT !.f = g]
      \/ v = [o EXCEPT !.f.furrow_day = w.day]
      \/ v = FinishSowing(w, seed)
      \/ v = OpenPhase(w, "sowing")
      \/ v = FinishHarvest(w)
  BY Zenon DEF AdvanceFinishedField, Working
<1>2. Shaped(o) /\ o.f.dose = f.dose /\ OpenPhase(w, "sowing").f.dose = f.dose
  BY OpenedDose
<1> HIDE DEF v, o
<1>3. g.dose = f.dose
  BY DEF Shaped, RowColumns
<1> HIDE DEF g
<1>4. [w EXCEPT !.f = g].f.dose = f.dose
  BY <1>3 DEF Shaped
<1>5. [o EXCEPT !.f.furrow_day = w.day].f.dose = f.dose
  BY <1>2 DEF Shaped, RowColumns
<1>6. FinishSowing(w, seed).f.dose = f.dose /\ FinishHarvest(w).f.dose = f.dose
  BY SownDose, HarvestDose
<1> QED BY <1>1, <1>2, <1>4, <1>5, <1>6 DEF v

\* An order leaves the dose or a row without one.
LEMMA OrderDose ==
  ASSUME NEW w, Shaped(w), NEW order
  PROVE  DoseKept(w, Ordered(w, order))
<1> DEFINE f == w.f  v == Ordered(w, order)
           mown == f.kind = "meadow" /\ f.mown_fallow
           stand == Arable(f) /\ Ages(f.crop)
           named == \E i \in 1..3 : order.slots[i] # None
           freed == IF stand /\ f.phase = "growing" THEN EndGrassStand(f) ELSE f
           up == PloughUpMownFallow(freed)
           c == NamedChain(up, order.slots, named)
           told == [w.b EXCEPT !.slot = 0, !.used = 0, !.excused = 0, !.said = "unasked",
                               !.broken = w.b.broken \/ (mown /\ f.phase = "harvest")]
           g == [f EXCEPT !.kind = "meadow", !.mown_fallow = TRUE, !.phase = "growing",
                          !.work = 0]
<1>1. SetRotation(w, order.slots) = w \/
        SetRotation(w, order.slots) = [w EXCEPT !.f = c, !.b = told]
  BY Zenon DEF SetRotation, NamedChain
<1>2. RemoveField(w) = w \/ RemoveField(w) = [w EXCEPT !.f = Gone, !.b = NoHistory]
  BY DEF RemoveField
<1>3. \/ MarkMeadow(w) \in {w, [w EXCEPT !.f = NewMeadow]}
      \/ MarkMeadow(w) = [w EXCEPT !.f = g, !.b.said = "unasked"]
  BY DEF MarkMeadow
<1>4. v \in {w, SetRotation(w, order.slots), RemoveField(w), MarkMeadow(w)}
  BY DEF Ordered
<1> HIDE DEF v, told, named
<1>5. DOMAIN freed = RowColumns /\ freed.dose = f.dose
  BY DEF Shaped, EndGrassStand, RowColumns
<1> HIDE DEF freed
<1>6. DOMAIN up = RowColumns /\ up.dose = f.dose
  BY <1>5 DEF PloughUpMownFallow, NoReaping, RowColumns
<1> HIDE DEF up
<1>7. c.dose = f.dose
  BY <1>6 DEF NamedChain, RowColumns
<1> HIDE DEF c
<1>8. g.dose = f.dose
  BY DEF Shaped, RowColumns
<1> HIDE DEF g
<1>9. Gone.dose = NoDose /\ NewMeadow.dose = NoDose
  BY DEF Gone, NewMeadow, Ground
<1>10. /\ [w EXCEPT !.f = c, !.b = told].f = c
       /\ [w EXCEPT !.f = Gone, !.b = NoHistory].f = Gone
       /\ [w EXCEPT !.f = NewMeadow].f = NewMeadow
       /\ [w EXCEPT !.f = g, !.b.said = "unasked"].f = g
  BY DEF Shaped
<1>11. v.f.dose \in {f.dose, NoDose}
  BY <1>1, <1>2, <1>3, <1>4, <1>7, <1>8, <1>9, <1>10
<1> QED BY <1>11 DEF DoseKept, v

-----------------------------------------------------------------------------
(* What every tick does, and the column kept on a row.                     *)

Keeps(w, v, day) == Goes(w, v, day) /\ Quiet(w, v) /\ DoseKept(w, v)

\* One operation after another.
LEMMA KeepsOn ==
  ASSUME NEW w, NEW v, NEW u, NEW day, Keeps(w, v, day), Keeps(v, u, day)
  PROVE  Keeps(w, u, day)
<1>1. Goes(w, u, day)
  BY GoesOn DEF Keeps
<1>2. Quiet(w, u)
  BY DEF Keeps, Quiet
<1>3. DoseKept(w, u)
  BY DEF Keeps, DoseKept
<1> QED BY <1>1, <1>2, <1>3 DEF Keeps

\* And none at all.
LEMMA KeepsStill ==
  ASSUME NEW w, IsWorld(w), NEW day
  PROVE  Keeps(w, w, day)
BY Remains DEF Keeps, Quiet, DoseKept

\* Work done.
LEMMA WorkKeeps ==
  ASSUME NEW w, IsWorld(w), NEW n \in 0..Parts, w.f.phase = "idle" => n = w.f.work, NEW day
  PROVE  LET v == [w EXCEPT !.f.work = n]
         IN /\ Keeps(w, v, day) /\ v.col = w.col /\ v.f.work = n /\ v.f.kind = w.f.kind
            /\ v.f.phase = w.f.phase /\ v.f.furrowing = w.f.furrowing
            /\ v.f.heap = w.f.heap /\ v.f.dose = w.f.dose
<1> DEFINE v == [w EXCEPT !.f.work = n]
<1>1. /\ Goes(w, v, day) /\ Quiet(w, v) /\ v.col = w.col /\ v.f = [w.f EXCEPT !.work = n]
      /\ v.f.work = n /\ v.f.kind = w.f.kind /\ v.f.phase = w.f.phase
      /\ v.f.furrowing = w.f.furrowing
  BY WorkMoves
<1> HIDE DEF v
<1>2. v.f.dose = w.f.dose /\ v.f.heap = w.f.heap
  BY <1>1, WorldIsShaped DEF Shaped, RowColumns
<1> QED BY <1>1, <1>2 DEF Keeps, DoseKept, v

\* A load carted.
LEMMA CarryShareKeeps ==
  ASSUME NEW w, IsWorld(w), NEW cart, NEW day
  PROVE  LET v == CarryShare(w, cart)
         IN Keeps(w, v, day) /\ v.col = w.col /\ SameStage(w.f, v.f) /\ v.f.dose = w.f.dose
<1> DEFINE v == CarryShare(w, cart)
<1>1. Goes(w, v, day) /\ Quiet(w, v) /\ v.col = w.col /\ SameStage(w.f, v.f)
  BY CarryShareGoes
<1>2. v.f.dose = w.f.dose
  BY WorldIsShaped DEF CarryShare, Shaped, RowColumns
<1> QED BY <1>1, <1>2 DEF Keeps, DoseKept

\* A stage of the column.
LEMMA ColumnKeeps ==
  ASSUME NEW w, IsWorld(w), NEW n \in {Never} \cup 0..Parts, NEW day
  PROVE  LET v == [w EXCEPT !.col = n]
         IN Keeps(w, v, day) /\ v.col = n /\ v.f = w.f
BY ColumnMoves DEF Keeps, DoseKept

\* The column has its share of the crew's work (HoldCrewShare).
LEMMA HoldGoes ==
  ASSUME NEW w, IsWorld(w), w.f.phase # "idle", w.col # Never, NEW day
  PROVE  LET v == HoldCrewShare(w)
         IN /\ Keeps(w, v, day) /\ v.col = w.col /\ v.f.kind = w.f.kind
            /\ v.f.phase = w.f.phase /\ v.f.furrowing = w.f.furrowing
            /\ w.col = Parts => v.f.work = 0
            /\ w.col # Parts /\ w.f.work > 0 => v.f.work > 0
<1> DEFINE n == Least(w.f.work, Above(Parts, w.col))
<1>1. w.f.work \in 0..Parts /\ w.col \in 0..Parts /\ Parts \in Nat
  BY Numbers DEF IsWorld, IsRow, Typed
<1>2. /\ n \in 0..Parts /\ (w.col = Parts => n = 0)
      /\ (w.col # Parts /\ w.f.work > 0 => n > 0)
  BY <1>1 DEF Least, Above
<1>3. HoldCrewShare(w) = [w EXCEPT !.f.work = n]
  BY DEF HoldCrewShare
<1> HIDE DEF n
<1> QED BY <1>2, <1>3, WorkKeeps

\* A reaping of grain under way.
Reaping(w) == w.f.kind = "arable" /\ w.f.phase = "harvest"

\* A column that is kept stands at a sowing or a reaping, where it stood there before.
LEMMA KeepColumnGoes ==
  ASSUME NEW w, IsWorld(w), Tilled(w), FurrowOpen(w.f), Reaping(w) => w.f.work > 0,
         NEW season, NEW cart, NEW day
  PROVE  LET v == KeepColumnField(w, season, cart)
         IN /\ Keeps(w, v, day) /\ v.col \in {w.col, Never} /\ ColumnKept(v)
            /\ FurrowOpen(v.f) /\ DayIn(v)
            /\ Reaping(v) => /\ Reaping(w)
                             /\ v.f.work > 0 \/ (v.col = Parts /\ v.sky # "rain")
<1> DEFINE v == KeepColumnField(w, season, cart)
<1>1. Parts # Never /\ w.f.work \in 0..Parts
  BY Numbers DEF Never, IsWorld, IsRow, Typed
<1>2. CASE w.col = Never
  <2>1. v = w
    BY <1>2 DEF KeepColumnField
  <2> HIDE DEF v
  <2> QED BY <1>1, <1>2, <2>1, KeepsStill DEF ColumnKept, DayIn, v
<1>3. CASE w.col # Never /\ InSeasonChain(w.f, season)
  <2>1. w.f.kind = "arable" /\ w.f.phase \in {"plowing", "harrowing", "sowing", "harvest"}
    BY <1>3 DEF InSeasonChain, Arable
  <2>2. ColumnKept(w)
    BY <2>1 DEF Tilled, ColumnKept
  <2>3. CASE RainStopsWork(w)
    <3>1. v = w /\ w.sky = "rain"
      BY <1>3, <2>3 DEF KeepColumnField, RainStopsWork
    <3> HIDE DEF v
    <3> QED BY <2>2, <3>1, KeepsStill DEF DayIn, v
  <2>4. CASE ~RainStopsWork(w)
    <3>1. v = HoldCrewShare(w)
      BY <1>3, <2>4 DEF KeepColumnField
    <3> HIDE DEF v
    <3>2. /\ Keeps(w, v, day) /\ v.col = w.col /\ v.f.kind = w.f.kind
          /\ v.f.phase = w.f.phase /\ v.f.furrowing = w.f.furrowing
          /\ (w.col = Parts => v.f.work = 0)
          /\ (w.col # Parts /\ w.f.work > 0 => v.f.work > 0)
      BY <1>3, <2>1, <3>1, HoldGoes
    <3>3. v.sky = w.sky
      BY <3>2 DEF Keeps, Goes
    <3>4. ColumnKept(v)
      BY <2>2, <3>2 DEF ColumnKept
    <3>5. FurrowOpen(v.f)
      BY <2>2, <3>2 DEF FurrowOpen, ColumnKept
    <3>6. DayIn(v)
      BY <3>2 DEF DayIn
    <3>7. Reaping(v) => Reaping(w) /\ (v.f.work > 0 \/ (v.col = Parts /\ v.sky # "rain"))
      BY <2>1, <2>4, <3>2, <3>3 DEF Reaping, RainStopsWork
    <3> QED BY <3>2, <3>4, <3>5, <3>6, <3>7 DEF v
  <2> QED BY <2>3, <2>4
<1>4. CASE w.col # Never /\ ~InSeasonChain(w.f, season)
  <2> DEFINE goes == cart /\ season = "autumn" /\ ColumnHere(w, season)
             u == CarryShare(w, goes)
  <2>1. v = [u EXCEPT !.col = Never]
    BY <1>4, Zenon DEF KeepColumnField
  <2>2. Keeps(w, u, day) /\ u.col = w.col /\ SameStage(w.f, u.f)
    BY CarryShareKeeps
  <2> HIDE DEF v, u
  <2>3. IsWorld(u)
    BY <2>2 DEF Keeps, Goes
  <2>4. Keeps(u, v, day) /\ v.col = Never /\ v.f = u.f
    BY <2>1, <2>3, ColumnKeeps
  <2>5. Keeps(w, v, day)
    BY <2>2, <2>4, KeepsOn
  <2>6. ColumnKept(v) /\ DayIn(v)
    BY <1>1, <2>4 DEF ColumnKept, DayIn
  <2>7. FurrowOpen(v.f)
    BY <2>2, <2>4 DEF FurrowOpen, SameStage
  <2>8. Reaping(v) => Reaping(w) /\ v.f.work > 0
    BY <2>2, <2>4 DEF Reaping, SameStage
  <2> QED BY <2>4, <2>5, <2>6, <2>7, <2>8 DEF v
<1> QED BY <1>2, <1>3, <1>4

\* Order, finished phase and column: what every tick does once labour is over.
LEMMA DecideGoes ==
  ASSUME NEW w, IsWorld(w), Tilled(w), NEW in, IsOrder(in.order, w.f), in.seed \in 0..2,
         NEW day, Reaping(w) /\ w.f.work = 0 => day = w.day
  PROVE  LET v == Decide(w, in)
         IN /\ Keeps(w, v, day) /\ v.col \in {w.col, Never} /\ ColumnKept(v)
            /\ FurrowOpen(v.f) /\ DayIn(v)
            /\ Reaping(v) => /\ Reaping(w) /\ w.f.work > 0
                             /\ v.f.work > 0 \/ (v.col = Parts /\ v.sky # "rain")
<1> DEFINE u == Ordered(w, in.order)  s == AdvanceFinishedField(u, in.seed)
           v == KeepColumnField(s, left.column, in.cart)
<1>1. Goes(w, u, day) /\ Quiet(w, u) /\ Obeys(w, u) /\ DoseKept(w, u)
  BY OrderGoes, OrderDose, WorldIsShaped
<1>2. IsWorld(u) /\ u.day = w.day /\ Keeps(w, u, day)
  BY <1>1 DEF Goes, Keeps
<1>3. u.f.kind = "arable" /\ u.f.phase = "harvest" =>
        Reaping(w) /\ u.f.work = w.f.work
  BY <1>1 DEF Obeys, Reaping
<1>4. u.col = w.col /\ (w.f.phase \notin {"plowing", "harrowing"} =>
                          u.f.phase \notin {"plowing", "harrowing"})
  BY <1>1 DEF Obeys
<1> HIDE DEF u
<1>5. /\ Goes(u, s, day) /\ Quiet(u, s) /\ s.col = u.col /\ s.f.kind = u.f.kind
      /\ (u.f.phase \notin {"plowing", "harrowing"} =>
            s.f.phase \notin {"plowing", "harrowing"})
      /\ (s.f.phase = "harvest" => s = u /\ u.f.work > 0)
      /\ (s.f.furrowing /\ s.f.phase = "plowing" => s.f.work > 0)
  BY <1>2, <1>3, AdvanceGoes
<1>6. s.f.dose = u.f.dose
  BY <1>2, AdvanceDose, WorldIsShaped
<1> HIDE DEF s
<1>7. Keeps(u, s, day) /\ IsWorld(s)
  BY <1>5, <1>6 DEF Keeps, DoseKept, Goes
<1>8. Tilled(s) /\ FurrowOpen(s.f)
  BY <1>4, <1>5 DEF Tilled, FurrowOpen
<1>9. Reaping(s) => Reaping(w) /\ w.f.work > 0 /\ s.f.work > 0
  BY <1>3, <1>5 DEF Reaping
<1>10. /\ Keeps(s, v, day) /\ v.col \in {s.col, Never} /\ ColumnKept(v)
       /\ FurrowOpen(v.f) /\ DayIn(v)
       /\ (Reaping(v) => Reaping(s) /\ (v.f.work > 0 \/ (v.col = Parts /\ v.sky # "rain")))
  BY <1>7, <1>8, <1>9, KeepColumnGoes
<1>11. v = Decide(w, in)
  BY DEF Decide, s, u
<1> HIDE DEF v
<1>12. Keeps(w, v, day)
  BY <1>2, <1>7, <1>10, KeepsOn
<1> QED BY <1>4, <1>5, <1>9, <1>10, <1>11, <1>12

-----------------------------------------------------------------------------
(* The column's day.                                                       *)

\* What the phases following one another leave true of the row.
FollowedBy(s, r) ==
  /\ Keeps(s.w, r.w, s.w.day) /\ r.w.col = s.w.col
  /\ s.w.f.phase # "plowing" => r.w.f.phase # "plowing"
  /\ ~Reaping(s.w) => ~Reaping(r.w)
  /\ r.halt = "rain" => r = s \/ (RainStopsWork(r.w) /\ Arable(r.w.f))

\* One phase of the column's.
LEMMA FollowGoes ==
  ASSUME NEW s, DOMAIN s = {"w", "halt"}, IsWorld(s.w), NEW season, NEW seed \in 0..2
  PROVE  LET r == FollowColumn(s, season, seed)
         IN /\ FollowedBy(s, r) /\ DOMAIN r = {"w", "halt"}
            /\ s.halt = "no" /\ InSeasonChain(s.w.f, season) /\ ~RainStopsWork(s.w) =>
                 r.w.f.phase # "plowing" /\ ~Reaping(r.w)
<1> DEFINE r == FollowColumn(s, season, seed)  w == s.w
           u == [w EXCEPT !.f.work = 0]  d == AdvanceFinishedField(u, seed)
           halt == IF d.f.phase = w.f.phase THEN "waits" ELSE "no"
<1>1. Keeps(w, w, w.day)
  BY KeepsStill
<1>2. CASE s.halt # "no" \/ ~InSeasonChain(w.f, season)
  <2>1. r = s
    BY <1>2 DEF FollowColumn
  <2> HIDE DEF r
  <2> QED BY <1>1, <1>2, <2>1 DEF FollowedBy, r
<1>3. CASE s.halt = "no" /\ InSeasonChain(w.f, season) /\ RainStopsWork(w)
  <2>1. r = [s EXCEPT !.halt = "rain"]
    BY <1>3 DEF FollowColumn
  <2> HIDE DEF r
  <2>2. r.w = w /\ DOMAIN r = {"w", "halt"}
    BY <2>1
  <2> QED BY <1>1, <1>3, <2>2 DEF FollowedBy, InSeasonChain, r
<1>4. CASE s.halt = "no" /\ InSeasonChain(w.f, season) /\ ~RainStopsWork(w)
  <2>1. r = [w |-> d, halt |-> halt]
    BY <1>4, Zenon DEF FollowColumn
  <2>2. w.f.phase # "idle"
    BY <1>4 DEF InSeasonChain
  <2>3. /\ Keeps(w, u, w.day) /\ u.col = w.col /\ u.f.work = 0 /\ u.f.kind = w.f.kind
        /\ u.f.phase = w.f.phase
    BY <2>2, WorkKeeps, Numbers
  <2> HIDE DEF u
  <2>4. IsWorld(u) /\ u.day = w.day
    BY <2>3 DEF Keeps, Goes
  <2>5. /\ Goes(u, d, w.day) /\ Quiet(u, d) /\ d.col = u.col /\ d.f.kind = u.f.kind
        /\ (d.f.phase = "harvest" => u.f.work > 0)
        /\ (d = u \/ d.f.phase \in {"harrowing", "sowing", "growing", "idle"})
        /\ (u.f.phase = "plowing" => d.f.phase # "plowing")
    BY <2>3, <2>4, AdvanceGoes
  <2>6. d.f.dose = u.f.dose
    BY <2>4, AdvanceDose, WorldIsShaped
  <2> HIDE DEF d
  <2>7. Keeps(w, d, w.day)
    <3>1. Keeps(u, d, w.day)
      BY <2>5, <2>6 DEF Keeps, DoseKept
    <3> QED BY <2>3, <3>1, KeepsOn
  <2>8. d.f.phase # "plowing" /\ ~Reaping(d)
    BY <2>3, <2>5 DEF Reaping
  <2> HIDE DEF r
  <2>9. r.w = d /\ r.halt # "rain" /\ DOMAIN r = {"w", "halt"}
    BY <2>1
  <2> QED BY <2>3, <2>5, <2>7, <2>8, <2>9 DEF FollowedBy, r
<1> QED BY <1>2, <1>3, <1>4

\* And one after another.
LEMMA FollowsOn ==
  ASSUME NEW s, NEW r, NEW q, FollowedBy(s, r), FollowedBy(r, q)
  PROVE  FollowedBy(s, q)
<1>1. r.w.day = s.w.day
  BY DEF FollowedBy, Keeps, Goes
<1>2. Keeps(s.w, q.w, s.w.day)
  BY <1>1, KeepsOn DEF FollowedBy
<1> QED BY <1>2 DEF FollowedBy

\* What the column leaves at night: it is kept at a sowing or a reaping only,
\* and nothing it has done waits for the morning.
ColumnLeaves(v) == ColumnKept(v) /\ FurrowOpen(v.f) /\ (Reaping(v) => v.f.work > 0)

\* A row of which every hectare is worked (FinishColumnField).
LEMMA FinishGoes ==
  ASSUME NEW w, IsWorld(w), NEW season, InSeasonChain(w.f, season), ~RainStopsWork(w),
         NEW in, in.seed \in 0..2
  PROVE  LET v == FinishColumnField(w, season, in)
         IN Keeps(w, v, w.day) /\ ColumnLeaves(v)
<1> DEFINE v == FinishColumnField(w, season, in)  s == [w |-> w, halt |-> "no"]
           r == FollowColumn(s, season, in.seed)  q == FollowColumn(r, season, in.seed)
           p == FollowColumn(q, season, in.seed)
           u == IF InSeasonChain(p.w.f, season) THEN [p.w EXCEPT !.f.work = 0] ELSE p.w
           goes == in.cart /\ season = "autumn"
           c == CarryShare(u, goes)
<1>1. v = IF p.halt = "rain" THEN p.w ELSE [c EXCEPT !.col = Never]
  BY Zenon DEF FinishColumnField
<1>2. DOMAIN s = {"w", "halt"} /\ s.w = w /\ s.halt = "no"
  OBVIOUS
<1> HIDE DEF s, v
<1>3. /\ FollowedBy(s, r) /\ DOMAIN r = {"w", "halt"}
      /\ r.w.f.phase # "plowing" /\ ~Reaping(r.w)
  BY <1>2, FollowGoes
<1> HIDE DEF r
<1>4. IsWorld(r.w) /\ (r.halt = "rain" => RainStopsWork(r.w) /\ Arable(r.w.f))
  BY <1>2, <1>3 DEF FollowedBy, Keeps, Goes
<1>5. FollowedBy(r, q) /\ DOMAIN q = {"w", "halt"}
  BY <1>3, <1>4, FollowGoes
<1> HIDE DEF q
<1>6. IsWorld(q.w)
  BY <1>5 DEF FollowedBy, Keeps, Goes
<1>7. FollowedBy(q, p)
  BY <1>5, <1>6, FollowGoes
<1> HIDE DEF p
<1>8. Keeps(w, p.w, w.day) /\ p.w.col = w.col
  <2>1. FollowedBy(s, p)
    BY <1>3, <1>5, <1>7, FollowsOn
  <2> QED BY <1>2, <2>1 DEF FollowedBy
<1>9. IsWorld(p.w) /\ p.w.f.phase # "plowing" /\ ~Reaping(p.w)
  BY <1>3, <1>5, <1>7 DEF FollowedBy, Keeps, Goes
<1>10. CASE p.halt = "rain"
  <2>1. RainStopsWork(p.w) /\ Arable(p.w.f)
    BY <1>4, <1>5, <1>7, <1>10 DEF FollowedBy
  <2>2. ColumnLeaves(p.w)
    BY <1>9, <2>1 DEF ColumnLeaves, ColumnKept, RainStopsWork, FurrowOpen, Arable
  <2> QED BY <1>1, <1>8, <1>10, <2>2 DEF v
<1>11. CASE p.halt # "rain"
  <2>1. Keeps(p.w, u, w.day) /\ u.f.phase # "plowing" /\ ~Reaping(u)
    <3>1. CASE InSeasonChain(p.w.f, season)
      <4> DEFINE e == [p.w EXCEPT !.f.work = 0]
      <4>1. p.w.f.phase # "idle"
        BY <3>1 DEF InSeasonChain
      <4>2. Keeps(p.w, e, w.day) /\ e.f.phase = p.w.f.phase /\ e.f.kind = p.w.f.kind
        BY <1>9, <4>1, WorkKeeps, Numbers
      <4>3. u = e
        BY <3>1
      <4> HIDE DEF e, u
      <4>4. Keeps(p.w, u, w.day) /\ u.f.phase # "plowing" /\ ~Reaping(u)
        BY <1>9, <4>2, <4>3 DEF Reaping
      <4> QED BY <4>4 DEF u
    <3>2. CASE ~InSeasonChain(p.w.f, season)
      BY <1>9, <3>2, KeepsStill
    <3> QED BY <3>1, <3>2
  <2> HIDE DEF u
  <2>2. IsWorld(u)
    BY <2>1 DEF Keeps, Goes
  <2>3. Keeps(u, c, w.day) /\ SameStage(u.f, c.f)
    BY <2>2, CarryShareKeeps
  <2> HIDE DEF c
  <2>4. IsWorld(c)
    BY <2>3 DEF Keeps, Goes
  <2>5. v = [c EXCEPT !.col = Never]
    BY <1>1, <1>11
  <2>6. Keeps(c, v, w.day) /\ v.col = Never /\ v.f = c.f
    BY <2>4, <2>5, ColumnKeeps
  <2>7. Keeps(w, v, w.day)
    BY <1>8, <2>1, <2>3, <2>6, KeepsOn
  <2>8. ColumnLeaves(v)
    BY <2>1, <2>3, <2>6, Numbers
    DEF ColumnLeaves, ColumnKept, FurrowOpen, Reaping, SameStage
  <2> QED BY <2>7, <2>8 DEF v
<1> QED BY <1>10, <1>11

\* The column's day leaves nothing of a furrow or a reaping for the morning.
LEMMA ColumnDayGoes ==
  ASSUME NEW w, IsWorld(w), ColumnLeaves(w), NEW season, NEW in, in.seed \in 0..2,
         in.column \in 0..Parts
  PROVE  LET v == WorkColumnDay(w, season, in)
         IN Keeps(w, v, w.day) /\ ColumnLeaves(v)
<1> DEFINE v == WorkColumnDay(w, season, in)
           n == IF w.col = Never THEN Parts - w.f.work ELSE w.col
           b == [w EXCEPT !.col = n]
           m == Least(b.col + in.column, Parts)
           d == [b EXCEPT !.col = m]
<1>1. CASE in.column = 0 \/ ~InSeasonChain(w.f, season) \/ w.f.work = 0
  <2>1. v = w
    BY <1>1 DEF WorkColumnDay
  <2> HIDE DEF v
  <2> QED BY <2>1, KeepsStill DEF v
<1>2. CASE /\ in.column # 0 /\ InSeasonChain(w.f, season) /\ w.f.work # 0
  <2>1. /\ w.f.work \in 0..Parts /\ w.col \in {Never} \cup 0..Parts /\ Parts \in Nat
        /\ Never \notin 0..Parts
    BY Numbers DEF IsWorld, IsRow, Typed
  <2>2. n \in 0..Parts /\ (n = Parts => w.col = Parts)
    BY <1>2, <2>1
  <2>3. b = [w EXCEPT !.col = IF w.col = Never THEN Parts - w.f.work ELSE w.col]
    OBVIOUS
  <2>4. v = IF RainStopsWork(b) THEN b
            ELSE IF d.col = Parts THEN FinishColumnField(d, season, in) ELSE HoldCrewShare(d)
    BY <1>2, Zenon DEF WorkColumnDay
  <2> HIDE DEF n
  <2>5. Keeps(w, b, w.day) /\ b.col = n /\ b.f = w.f
    BY <2>2, ColumnKeeps
  <2> HIDE DEF b
  <2>6. IsWorld(b) /\ b.day = w.day /\ b.sky = w.sky
    BY <2>5 DEF Keeps, Goes
  <2>7. m \in 0..Parts
    BY <2>1, <2>2, <2>5 DEF Least
  <2> HIDE DEF m
  <2>8. Keeps(b, d, w.day) /\ d.col = m /\ d.f = b.f
    BY <2>6, <2>7, ColumnKeeps
  <2> HIDE DEF d
  <2>9. IsWorld(d) /\ d.day = w.day /\ d.sky = w.sky
    BY <2>6, <2>8 DEF Keeps, Goes
  <2>10. Keeps(w, d, w.day)
    BY <2>5, <2>8, KeepsOn
  <2>11. CASE RainStopsWork(b)
    <3>1. ColumnLeaves(b)
      BY <2>2, <2>5 DEF ColumnLeaves, ColumnKept, FurrowOpen, Reaping
    <3>2. v = b
      BY <2>4, <2>11
    <3> HIDE DEF v
    <3> QED BY <2>5, <3>1, <3>2 DEF v
  <2>12. CASE ~RainStopsWork(b) /\ d.col = Parts
    <3>1. v = FinishColumnField(d, season, in)
      BY <2>4, <2>12
    <3> HIDE DEF v
    <3>2. InSeasonChain(d.f, season) /\ ~RainStopsWork(d)
      BY <1>2, <2>5, <2>6, <2>8, <2>9, <2>12 DEF RainStopsWork
    <3>3. Keeps(d, v, d.day) /\ ColumnLeaves(v)
      BY <2>9, <3>1, <3>2, FinishGoes
    <3>4. Keeps(w, v, w.day)
      BY <2>9, <2>10, <3>3, KeepsOn
    <3> QED BY <3>3, <3>4 DEF v
  <2>13. CASE ~RainStopsWork(b) /\ d.col # Parts
    <3>1. v = HoldCrewShare(d)
      BY <2>4, <2>13
    <3> HIDE DEF v
    <3>2. d.f.phase # "idle" /\ d.col # Never /\ d.f.work > 0
      BY <1>2, <2>1, <2>5, <2>7, <2>8 DEF InSeasonChain
    <3>3. Keeps(d, v, w.day) /\ v.col = d.col /\ v.f.work > 0
      BY <2>9, <2>13, <3>1, <3>2, HoldGoes
    <3>4. Keeps(w, v, w.day)
      BY <2>10, <3>3, KeepsOn
    <3>5. ColumnLeaves(v)
      BY <2>13, <3>3 DEF ColumnLeaves, ColumnKept, FurrowOpen
    <3> QED BY <3>4, <3>5 DEF v
  <2> QED BY <2>11, <2>12, <2>13
<1> QED BY <1>1, <1>2

-----------------------------------------------------------------------------
(* The ticks after the first.                                              *)

\* What the carts took and brought.
LEMMA CarryGoes ==
  ASSUME NEW w, IsWorld(w), NEW in, in.moved \in Nat,
         in.moved <= w.f.dose.due \/ w.f.dose = NoDose, NEW day
  PROVE  LET v == Carry(w, in)
         IN Goes(w, v, day) /\ Quiet(w, v) /\ v.col = w.col /\ SameStage(w.f, v.f)
<1> DEFINE u == CarryShare(w, in.cart)  v == SettleManureDoses(u, in.moved)
<1>1. Keeps(w, u, day) /\ u.col = w.col /\ SameStage(w.f, u.f) /\ u.f.dose = w.f.dose
  BY CarryShareKeeps
<1>2. v = Carry(w, in)
  BY DEF Carry
<1> HIDE DEF u
<1>3. IsWorld(u) /\ Goes(w, u, day) /\ Quiet(w, u)
  BY <1>1 DEF Keeps, Goes
<1>4. CASE in.moved <= w.f.dose.due
  <2>1. Goes(u, v, day) /\ Quiet(u, v) /\ v.col = u.col /\ SameStage(u.f, v.f)
    BY <1>1, <1>3, <1>4, SettleGoes
  <2> HIDE DEF v
  <2>2. Goes(w, v, day)
    BY <1>3, <2>1, GoesOn
  <2> QED BY <1>1, <1>2, <1>3, <2>1, <2>2 DEF Quiet, SameStage
<1>5. CASE w.f.dose = NoDose
  <2>1. ~u.f.dose.named
    BY <1>1, <1>5 DEF NoDose
  <2>2. v = u
    BY <2>1 DEF SettleManureDoses, ManureDoseStands
  <2> HIDE DEF v
  <2> QED BY <1>1, <1>2, <1>3, <2>2
<1> QED BY <1>4, <1>5

\* What a tick is given of hands, an order, seed and carts.
IsGiven(w, in) ==
  /\ in.hands \in 0..w.f.work /\ (w.f.phase = "idle" => in.hands = 0)
  /\ IsOrder(in.order, w.f) /\ in.seed \in 0..2
  /\ in.moved \in Nat /\ in.moved <= w.f.dose.due
  /\ in.dung \in Nat /\ in.column \in 0..Parts

\* The hands, and what is decided after them.
LEMMA HandsGoes ==
  ASSUME NEW w, IsWorld(w), Tilled(w), NEW in, IsGiven(w, in)
  PROVE  LET u == [w EXCEPT !.f.work = @ - in.hands]
             v == Decide(u, in)
         IN /\ Keeps(w, v, w.day) /\ ColumnKept(v) /\ FurrowOpen(v.f) /\ DayIn(v)
            /\ in.moved <= v.f.dose.due \/ v.f.dose = NoDose
            /\ DayIn(w) => ColumnLeaves(v)
<1> DEFINE n == w.f.work - in.hands  u == [w EXCEPT !.f.work = n]
           v == Decide(u, in)
<1>1. w.f.work \in 0..Parts
  BY DEF IsWorld, IsRow, Typed
<1>2. n \in 0..Parts /\ n <= w.f.work /\ (w.f.phase = "idle" => n = w.f.work)
  BY <1>1, Numbers DEF IsGiven
<1>3. u = [w EXCEPT !.f.work = @ - in.hands]
  OBVIOUS
<1> HIDE DEF n
<1>4. /\ Keeps(w, u, w.day) /\ u.col = w.col /\ u.f.work = n /\ u.f.kind = w.f.kind
      /\ u.f.phase = w.f.phase /\ u.f.furrowing = w.f.furrowing /\ u.f.dose = w.f.dose
  BY <1>2, WorkKeeps
<1> HIDE DEF u
<1>5. IsWorld(u) /\ u.day = w.day /\ u.sky = w.sky /\ Tilled(u)
  BY <1>4 DEF Keeps, Goes, Tilled
<1>6. IsOrder(in.order, u.f) /\ in.seed \in 0..2
  BY <1>4 DEF IsGiven, IsOrder
<1>7. /\ Keeps(u, v, w.day) /\ v.col \in {u.col, Never} /\ ColumnKept(v)
      /\ FurrowOpen(v.f) /\ DayIn(v)
      /\ (Reaping(v) => /\ Reaping(u) /\ u.f.work > 0
                        /\ v.f.work > 0 \/ (v.col = Parts /\ v.sky # "rain"))
  BY <1>5, <1>6, DecideGoes
<1> HIDE DEF v
<1>8. Keeps(w, v, w.day)
  BY <1>4, <1>7, KeepsOn
<1>9. v.sky = w.sky
  BY <1>8 DEF Keeps, Goes
<1>10. in.moved <= v.f.dose.due \/ v.f.dose = NoDose
  BY <1>8 DEF IsGiven, Keeps, DoseKept
<1>11. ASSUME DayIn(w) PROVE ColumnLeaves(v)
  <2>1. ASSUME Reaping(v) PROVE v.f.work > 0
    <3> SUFFICES ASSUME v.col = Parts, v.sky # "rain" PROVE FALSE
      BY <1>7, <2>1
    <3>1. w.col = Parts /\ Reaping(w) /\ n > 0
      BY <1>4, <1>7, <2>1, Numbers DEF Reaping, Never
    <3>2. w.f.work = 0
      BY <1>9, <1>11, <3>1 DEF DayIn, Reaping, Arable
    <3> QED BY <1>2, <3>1, <3>2
  <2> QED BY <1>7, <2>1 DEF ColumnLeaves
<1> QED BY <1>3, <1>7, <1>8, <1>10, <1>11 DEF v

\* A working hour.
LEMMA WorkingTickGoes ==
  ASSUME NEW w, IsWorld(w), Tilled(w), NEW in, IsGiven(w, in)
  PROVE  LET v == WorkingTick(w, in)
         IN Goes(w, v, w.day) /\ Quiet(w, v) /\ ColumnKept(v) /\ DayIn(v)
<1> DEFINE u == Decide([w EXCEPT !.f.work = @ - in.hands], in)  v == Carry(u, in)
<1>1. /\ Keeps(w, u, w.day) /\ ColumnKept(u) /\ DayIn(u)
      /\ in.moved <= u.f.dose.due \/ u.f.dose = NoDose
  BY HandsGoes
<1>2. v = WorkingTick(w, in)
  BY DEF WorkingTick
<1> HIDE DEF u
<1>3. IsWorld(u) /\ Goes(w, u, w.day) /\ Quiet(w, u) /\ in.moved \in Nat
  BY <1>1 DEF Keeps, Goes, IsGiven
<1>4. Goes(u, v, w.day) /\ Quiet(u, v) /\ v.col = u.col /\ SameStage(u.f, v.f)
  BY <1>1, <1>3, CarryGoes
<1> HIDE DEF v
<1>5. Goes(w, v, w.day)
  BY <1>3, <1>4, GoesOn
<1>6. Quiet(w, v)
  BY <1>3, <1>4 DEF Quiet
<1>7. v.sky = u.sky
  BY <1>4 DEF Goes
<1>8. ColumnKept(v) /\ DayIn(v)
  BY <1>1, <1>4, <1>7 DEF ColumnKept, DayIn, SameStage, Arable
<1> QED BY <1>2, <1>5, <1>6, <1>8

\* At the season's end no cut is left under way.
LEMMA CutsCloseGoes ==
  ASSUME NEW w, IsWorld(w), ColumnLeaves(w)
  PROVE  LET v == CloseMeadowCutsAtSeasonsEnd(w)
         IN /\ Goes(w, v, w.day) /\ Quiet(w, v) /\ ColumnLeaves(v)
            /\ DayOfYear(w.day) >= SeasonLastDay => ~Mowing(v)
<1> DEFINE v == CloseMeadowCutsAtSeasonsEnd(w)  u == LayMownShare(w)
<1>1. CASE ~(MeadowCutEndsTonight(w) /\ Mowing(w))
  <2>1. v = w
    BY <1>1 DEF CloseMeadowCutsAtSeasonsEnd, Mowing
  <2>2. DayOfYear(w.day) >= SeasonLastDay => ~Mowing(w)
    BY <1>1 DEF MeadowCutEndsTonight
  <2> HIDE DEF v
  <2>3. Goes(w, w, w.day)
    BY Remains
  <2> QED BY <2>1, <2>2, <2>3 DEF Quiet, v
<1>2. CASE MeadowCutEndsTonight(w) /\ Mowing(w)
  <2>1. v = CloseMeadowCut(u)
    BY <1>2 DEF CloseMeadowCutsAtSeasonsEnd, Mowing
  <2>2. Goes(w, u, w.day) /\ u.col = w.col /\ SameStage(w.f, u.f)
    BY LayMownGoes
  <2> HIDE DEF u, v
  <2>3. IsWorld(u) /\ Mowing(u)
    BY <1>2, <2>2 DEF Goes, Mowing, SameStage
  <2>4. Goes(u, v, w.day) /\ v.col = u.col /\ v.f.kind = "meadow" /\ v.f.phase = "growing"
    BY <2>1, <2>3, CloseCutGoes
  <2>5. Goes(w, v, w.day)
    BY <2>2, <2>4, GoesOn
  <2>6. w.col # Parts
    BY <1>2 DEF ColumnLeaves, ColumnKept, Mowing
  <2>7. ColumnLeaves(v) /\ ~Mowing(v)
    BY <2>2, <2>4, <2>6 DEF ColumnLeaves, ColumnKept, FurrowOpen, Reaping, Mowing
  <2> QED BY <1>2, <2>5, <2>7 DEF Quiet, v
<1> QED BY <1>1, <1>2

\* The last tick of a day.
LEMMA LastTickGoes ==
  ASSUME NEW w, IsWorld(w), Tilled(w), DayIn(w), NEW in, IsGiven(w, in)
  PROVE  LET v == LastTick(w, in)
         IN /\ Goes(w, v, w.day) /\ Quiet(w, v) /\ NightIn(v)
<1> DEFINE d == Decide([w EXCEPT !.f.work = @ - in.hands], in)
           c == IF ColumnHere(w, left.column) THEN WorkColumnDay(d, left.column, in) ELSE d
           a == Carry(c, in)
           b == IF SledgeDay(w) THEN BookManureDoses(a, in.dung) ELSE a
           p == PriceManureDoses(b)  v == CloseMeadowCutsAtSeasonsEnd(p)
<1>1. /\ Keeps(w, d, w.day) /\ ColumnLeaves(d)
      /\ in.moved <= d.f.dose.due \/ d.f.dose = NoDose
  BY HandsGoes
<1>2. v = LastTick(w, in)
  BY Zenon DEF LastTick
<1> HIDE DEF d
<1>3. /\ IsWorld(d) /\ d.day = w.day /\ in.moved \in Nat /\ in.seed \in 0..2
      /\ in.dung \in Nat /\ in.column \in 0..Parts
  BY <1>1 DEF Keeps, Goes, IsGiven
<1>4. Keeps(d, c, w.day) /\ ColumnLeaves(c)
  BY <1>1, <1>3, ColumnDayGoes, KeepsStill
<1> HIDE DEF c
<1>5. Keeps(w, c, w.day)
  BY <1>1, <1>4, KeepsOn
<1>6. IsWorld(c) /\ (in.moved <= c.f.dose.due \/ c.f.dose = NoDose)
  BY <1>1, <1>4 DEF Keeps, Goes, DoseKept
<1>7. Goes(c, a, w.day) /\ Quiet(c, a) /\ a.col = c.col /\ SameStage(c.f, a.f)
  BY <1>3, <1>6, CarryGoes
<1> HIDE DEF a
<1>8. IsWorld(a)
  BY <1>7 DEF Goes
<1>9. Goes(a, b, w.day) /\ Quiet(a, b) /\ b.col = a.col /\ SameStage(a.f, b.f)
  <2>1. CASE SledgeDay(w)
    BY <1>3, <1>8, <2>1, BookGoes
  <2>2. CASE ~SledgeDay(w)
    <3>1. b = a /\ Goes(a, a, w.day)
      BY <1>8, <2>2, Remains
    <3> HIDE DEF b
    <3>2. Goes(a, b, w.day) /\ Quiet(a, b) /\ b.col = a.col /\ SameStage(a.f, b.f)
      BY <3>1 DEF Quiet, SameStage
    <3> QED BY <3>2 DEF b
  <2> QED BY <2>1, <2>2
<1> HIDE DEF b
<1>10. IsWorld(b)
  BY <1>9 DEF Goes
<1>11. Goes(b, p, w.day) /\ Quiet(b, p) /\ p.col = b.col /\ SameStage(b.f, p.f)
  BY <1>10, PriceGoes
<1> HIDE DEF p
<1>12. Goes(w, p, w.day) /\ IsWorld(p) /\ p.day = w.day
  BY <1>5, <1>7, <1>9, <1>11 DEF Keeps, Goes
<1>13. Quiet(w, p)
  BY <1>5, <1>7, <1>9, <1>11 DEF Keeps, Quiet
<1>14. ColumnLeaves(p)
  BY <1>4, <1>7, <1>9, <1>11
  DEF ColumnLeaves, ColumnKept, FurrowOpen, Reaping, SameStage
<1>15. /\ Goes(p, v, w.day) /\ Quiet(p, v) /\ ColumnLeaves(v)
       /\ (DayOfYear(w.day) >= SeasonLastDay => ~Mowing(v))
  BY <1>12, <1>14, CutsCloseGoes
<1> HIDE DEF v
<1>16. Goes(w, v, w.day)
  BY <1>12, <1>15, GoesOn
<1>17. Quiet(w, v)
  BY <1>13, <1>15 DEF Quiet
<1>18. NightIn(v)
  <2>1. v.day = w.day
    BY <1>16 DEF Goes
  <2> QED BY <1>15, <2>1 DEF ColumnLeaves, NightIn, FurrowOpen, Reaping, Arable
<1> QED BY <1>2, <1>16, <1>17, <1>18

-----------------------------------------------------------------------------
(* The first tick of a day.                                                *)

\* The fields' day rests no field: it is the sowing that does, and the turn.
Told(w) ==
  /\ DOMAIN w = {"f", "day", "air", "sky", "cover", "col", "b"}
  /\ DOMAIN w.b = {"whole", "laid", "short", "hay", "broken", "slot", "used", "excused",
                   "rests", "said"}
RestsStay(w, v) == Told(v) /\ v.b.rests = w.b.rests

\* A step of the row alone.
LEMMA RowAlone ==
  ASSUME NEW w, Told(w), NEW f
  PROVE  RestsStay(w, [w EXCEPT !.f = f])
BY DEF Told, RestsStay

\* A phase opened.
LEMMA OpenedRests ==
  ASSUME NEW w, Told(w), NEW phase
  PROVE  RestsStay(w, OpenPhase(w, phase))
<1> DEFINE whole == IF phase = "harvest" /\ Arable(w.f) THEN Yield(w.f) ELSE 0
<1>1. OpenPhase(w, phase) = [w EXCEPT
        !.f.phase = phase, !.f.sown_day = IF phase = "sowing" THEN w.day ELSE @,
        !.f.work = Parts, !.f.harvest_work = IF phase = "harvest" THEN Parts ELSE 0,
        !.b.whole = whole]
  BY Zenon DEF OpenPhase
<1> HIDE DEF whole
<1> QED BY <1>1 DEF Told, RestsStay

\* A share laid.
LEMMA LaidRests ==
  ASSUME NEW w, Told(w)
  PROVE  RestsStay(w, LayReapedShare(w)) /\ RestsStay(w, LayMownShare(w))
<1> DEFINE n == LaidNow(w.f, Yield(w.f))  m == LaidNow(w.f, SeasonHay)
           g == LayShare(w.f, n, w.f.crop)  h == LayShare(w.f, m, "hay")
           v == [w EXCEPT !.f = g, !.b.laid = @ + n]
           u == [w EXCEPT !.f = h, !.b.hay = @ + m]
<1>1. LayReapedShare(w) = w \/ LayReapedShare(w) = v
  BY DEF LayReapedShare
<1>2. LayMownShare(w) = w \/ LayMownShare(w) = u
  BY DEF LayMownShare
<1> HIDE DEF n, m, g, h
<1>3. RestsStay(w, v) /\ RestsStay(w, u) /\ RestsStay(w, w)
  BY DEF Told, RestsStay
<1> HIDE DEF v, u
<1> QED BY <1>1, <1>2, <1>3

\* A ploughing opened.
LEMMA PlowingRests ==
  ASSUME NEW w, Told(w), NEW slot, NEW start, NEW dung
  PROVE  RestsStay(w, OpenPlowing(w, slot, start, dung))
<1> DEFINE crop == IF slot = Fallow THEN None ELSE w.f.slots[slot]
           black == start = "black_fallow"
           harrows == black \/ w.f.plowed
           rest == IF ~harrows /\ w.f.furrowing /\ w.f.work > 0 THEN w.f.work ELSE Parts
           p == PaidDose(CancelLateManure(w.f, dung))
           f == [p EXCEPT
             !.furrowing = FALSE, !.crop = crop, !.furrow_day = Never,
             !.skips = @ /\ crop # None /\ crop = p.slots[1] /\ Winter(crop),
             !.rest_owed = black, !.plowed = @ /\ black]
           phase == IF harrows THEN "harrowing" ELSE "plowing"
           u == [w EXCEPT !.f = f, !.b.slot = slot]  x == OpenPhase(u, phase)
<1>1. OpenPlowing(w, slot, start, dung) = [x EXCEPT !.f.work = rest]
  BY Zenon DEF OpenPlowing, PaidDose
<1> HIDE DEF f, phase, rest
<1>2. RestsStay(w, u)
  BY DEF Told, RestsStay
<1> HIDE DEF u
<1>3. RestsStay(u, x)
  BY <1>2, OpenedRests DEF RestsStay
<1> HIDE DEF x
<1>4. RestsStay(x, [x EXCEPT !.f.work = rest])
  BY <1>3 DEF Told, RestsStay
<1> QED BY <1>1, <1>2, <1>3, <1>4 DEF RestsStay, u, x

\* The fields' day, by its operations.
LEMMA FieldsRest ==
  ASSUME NEW w, Told(w), NEW in
  PROVE  RestsStay(w, RunFields(w, in))
<1> DEFINE a == LayReapedShare(w)  b == LayMownShare(a)  v == RunLaidFields(b, in)
<1>1. RestsStay(w, a)
  BY LaidRests
<1> HIDE DEF a
<1>2. RestsStay(a, b)
  BY <1>1, LaidRests DEF RestsStay
<1>3. RunFields(w, in) = v
  BY DEF RunFields, a
<1> HIDE DEF b
<1>4. Told(b) /\ b.b.rests = w.b.rests
  BY <1>1, <1>2 DEF RestsStay
<1>5. \A slot, start : RestsStay(b, OpenPlowing(b, slot, start, in.dung))
  BY <1>4, PlowingRests
<1>6. RestsStay(b, b) /\ \A phase : RestsStay(b, OpenPhase(b, phase))
  BY <1>4, OpenedRests DEF RestsStay
<1>7. RestsStay(b, OpenZyab(b))
  <2> DEFINE f == [b.f EXCEPT !.crop = None, !.furrow_day = Never, !.furrowing = TRUE]
             u == [b EXCEPT !.f = f]
  <2>1. OpenZyab(b) = OpenPhase(u, "plowing")
    BY DEF OpenZyab
  <2> HIDE DEF f
  <2>2. RestsStay(b, u)
    BY <1>4, RowAlone
  <2> HIDE DEF u
  <2>3. RestsStay(u, OpenPhase(u, "plowing"))
    BY <2>2, OpenedRests DEF RestsStay
  <2> QED BY <2>1, <2>2, <2>3 DEF RestsStay
<1>8. RestsStay(b, CloseMeadowCut(b))
  <2> DEFINE l == LayMownShare(b)
  <2>1. RestsStay(b, l)
    BY <1>4, LaidRests
  <2>2. PICK f : CloseMeadowCut(b) = [l EXCEPT !.f = f]
    BY DEF CloseMeadowCut
  <2> HIDE DEF l
  <2>3. RestsStay(l, [l EXCEPT !.f = f])
    BY <2>1, RowAlone DEF RestsStay
  <2> QED BY <2>1, <2>2, <2>3 DEF RestsStay
<1>9. RestsStay(b, RunMeadow(b))
  <2> DEFINE c == CloseMeadowCut(b)
  <2>1. RunMeadow(b) \in {b, c, OpenPhase(b, "harvest"), OpenPhase(c, "harvest")}
    BY DEF RunMeadow
  <2> HIDE DEF c
  <2>2. RestsStay(b, c)
    BY <1>8 DEF c
  <2>3. RestsStay(c, OpenPhase(c, "harvest"))
    BY <2>2, OpenedRests DEF RestsStay
  <2> QED BY <1>6, <2>1, <2>2, <2>3 DEF RestsStay
<1>10. RestsStay(b, LoseFieldToSnow(b))
  <2> DEFINE l == LayReapedShare(b)
  <2>1. RestsStay(b, l)
    BY <1>4, LaidRests
  <2>2. PICK f, whole, lost : LoseFieldToSnow(b) = [l EXCEPT !.f = f,
                                                    !.b = EndReaping(l.b, whole, lost)]
    BY DEF LoseFieldToSnow
  <2> HIDE DEF l
  <2> DEFINE h == EndReaping(l.b, whole, lost)
  <2>3. DOMAIN h = DOMAIN l.b /\ h.rests = l.b.rests
    BY <2>1 DEF EndReaping, RestsStay, Told
  <2> HIDE DEF h
  <2>4. RestsStay(l, [l EXCEPT !.f = f, !.b = h])
    BY <2>1, <2>3 DEF RestsStay, Told
  <2> QED BY <2>1, <2>2, <2>4 DEF RestsStay, h
<1>11. RestsStay(b, TrySowWinter(b, in.dung))
  BY <1>5, <1>6, Zenon DEF TrySowWinter
<1>12. RestsStay(b, TrySowOnBlackFallow(b, in.dung))
  BY <1>5, <1>6, Zenon DEF TrySowOnBlackFallow
<1>13. RestsStay(b, TrySow(b, in))
  <2>1. \/ TrySow(b, in) \in {b, OpenZyab(b), TrySowWinter(b, in.dung)}
        \/ \E slot : TrySow(b, in) = OpenPlowing(b, slot, "ground", in.dung)
    BY DEF TrySow
  <2> QED BY <1>5, <1>6, <1>7, <1>11, <2>1
<1>14. v \in {b, RunMeadow(b), TrySow(b, in), TrySowOnBlackFallow(b, in.dung),
              LoseFieldToSnow(b), OpenPhase(b, "harvest")}
  BY DEF RunLaidFields
<1> HIDE DEF v
<1>15. RestsStay(b, v)
  BY <1>6, <1>9, <1>10, <1>12, <1>13, <1>14
<1> QED BY <1>3, <1>4, <1>15 DEF RestsStay

\* The row as the night leaves it and the morning finds it.
Morning(n, w) ==
  /\ DOMAIN w = DOMAIN n /\ w.f = n.f /\ w.col = n.col /\ w.day = n.day + 1
  /\ DOMAIN w.b = DOMAIN n.b /\ w.b.hay = n.b.hay /\ w.b.rests = n.b.rests
  /\ w.b.broken = n.b.broken

\* A row that has had the year's rest has it the next day.
LEMMA RestedOn ==
  ASSUME NEW f, IsRow(f), NEW day \in Nat, DayOfYear(day + 1) # 0, Rested(f, day)
  PROVE  Rested(f, day + 1)
<1>1. YearOf(day + 1) = YearOf(day) /\ MonthOf(day) <= MonthOf(day + 1)
  BY NextDay
<1>2. MonthOf(day) \in Nat /\ MonthOf(day + 1) \in Nat /\ FallowMonth \in Nat
  BY Dates, Numbers
<1>3. Late(day) => Late(day + 1)
  BY <1>1, <1>2 DEF Late
<1>4. ThisYear(f.reaped_day, day) => ThisYear(f.reaped_day, day + 1)
  BY <1>1 DEF ThisYear
<1> QED BY <1>3, <1>4 DEF Rested

\* What the night leaves the morning finds, but for the date.
LEMMA Overnight ==
  ASSUME NEW n, IsWorld(n), NightIn(n), RestsBy(n, n.day), HayIn(n), NEW w, Morning(n, w)
  PROVE  /\ IsWorld(w) /\ ColumnLeaves(w) /\ RestsBy(w, n.day)
         /\ DayOfYear(w.day) = 0 => ~Mowing(w)
         /\ DayOfYear(w.day) # 0 =>
              RestsBy(w, w.day) /\ HayIn(w) /\ (OpensCut(w) => NoHay(w))
<1>1. n.day \in Nat /\ n.day + 1 \in Nat /\ w.day = n.day + 1 /\ IsRow(n.f)
  BY DEF IsWorld, Morning
<1>2. IsWorld(w)
  BY <1>1 DEF IsWorld, Morning
<1>3. ColumnLeaves(w)
  BY DEF NightIn, Morning, ColumnLeaves, ColumnKept, FurrowOpen, Reaping, Arable
<1>4. RestsBy(w, n.day)
  BY DEF RestsBy, Morning
<1>5. ASSUME DayOfYear(w.day) = 0 PROVE ~Mowing(w)
  <2>1. DayOfYear(n.day) = DaysPerYear - 1 /\ SeasonLastDay < DaysPerYear
        /\ SeasonLastDay \in Nat /\ DaysPerYear \in Nat
    BY <1>1, <1>5, NextDay, Calendar, Numbers
  <2>2. ~Mowing(n)
    BY <2>1 DEF NightIn
  <2> QED BY <2>2 DEF Mowing, Morning
<1>6. ASSUME DayOfYear(w.day) # 0
      PROVE  RestsBy(w, w.day) /\ HayIn(w) /\ (OpensCut(w) => NoHay(w))
  <2>1. YearOf(w.day) = YearOf(n.day) /\ MonthOf(n.day) <= MonthOf(w.day)
    BY <1>1, <1>6, NextDay
  <2>2. MonthOf(n.day) \in Nat /\ MonthOf(w.day) \in Nat /\ CutMonth \in Nat
    BY <1>1, Dates, Numbers
  <2>3. RestsBy(w, w.day)
    BY <1>1, <1>4, <1>6, RestedOn DEF RestsBy, Morning
  <2>4. HayOf(w)
    <3>1. HayOf(n) /\ (Mowing(w) <=> Mowing(n))
      BY DEF HayIn, Mowing, Morning
    <3>2. ThisYear(n.f.mown_day, n.day) => ThisYear(w.f.mown_day, w.day)
      BY <2>1 DEF ThisYear, Morning
    <3> QED BY <3>1, <3>2 DEF HayOf, Morning
  <2>5. MonthOf(n.day) < CutMonth => NoHay(w)
    BY DEF HayIn, NoHay, Mowing, Morning
  <2>6. OpensCut(w) => NoHay(w)
    <3>1. OpensCut(w) => MonthOf(n.day) < CutMonth
      BY <1>1, <1>6, FirstOfMonth DEF OpensCut
    <3> QED BY <2>5, <3>1
  <2> QED BY <2>1, <2>2, <2>3, <2>4, <2>5, <2>6 DEF HayIn
<1> QED BY <1>2, <1>3, <1>4, <1>5, <1>6

\* What November says is said beside the row.
LEMMA SayGoes ==
  ASSUME NEW w, IsWorld(w)
  PROVE  LET v == SayLostWinterSlots(w)
         IN /\ IsWorld(v) /\ v.day = w.day /\ v.f = w.f /\ v.col = w.col
            /\ v.b.hay = w.b.hay /\ v.b.rests = w.b.rests /\ v.b.broken = w.b.broken
<1> DEFINE said == IF ~Arable(w.f) THEN "unasked"
                   ELSE IF ArrivingWinterSlotLost(w.f) THEN "lost" ELSE "kept"
           history == [w.b EXCEPT !.said = said]  v == [w EXCEPT !.b = history]
<1>1. SayLostWinterSlots(w) = v
  BY DEF SayLostWinterSlots
<1> HIDE DEF said
<1>2. /\ DOMAIN history = DOMAIN w.b /\ history.hay = w.b.hay
      /\ history.rests = w.b.rests /\ history.broken = w.b.broken
  BY DEF IsWorld
<1> HIDE DEF history
<1>3. /\ DOMAIN v = DOMAIN w /\ v.day = w.day /\ v.f = w.f /\ v.col = w.col /\ v.b = history
  BY DEF IsWorld
<1> HIDE DEF v
<1>4. IsWorld(v)
  BY <1>2, <1>3 DEF IsWorld
<1> QED BY <1>1, <1>2, <1>3, <1>4

\* What the first tick of a day leaves true.
MorningIn(v) ==
  /\ IsWorld(v) /\ Tilled(v) /\ HayIn(v) /\ v.b.rests \in {0, 1}
  /\ DayOfYear(v.day) # 0 => RestsBy(v, v.day)

\* A day of drought or of rain leaves it so.
LEMMA StressedMorning ==
  ASSUME NEW w, MorningIn(w)
  PROVE  LET v == Stressed(w) IN MorningIn(v) /\ v.day = w.day
<1> DEFINE v == Stressed(w)
<1>1. /\ Goes(w, v, w.day) /\ Quiet(w, v) /\ v.b = w.b /\ v.col = w.col
      /\ SameStage(w.f, v.f)
  BY StressedGoes DEF MorningIn
<1> HIDE DEF v
<1>2. IsWorld(v) /\ v.day = w.day
  BY <1>1 DEF Goes
<1>3. Tilled(v)
  BY <1>1 DEF MorningIn, Tilled, SameStage
<1>4. HayIn(v)
  <2>1. NoHay(w) => NoHay(v)
    BY <1>1, QuietIsNoHay
  <2> QED BY <1>1, <1>2, <2>1 DEF MorningIn, HayIn, Goes
<1>5. DayOfYear(v.day) # 0 => RestsBy(v, v.day)
  BY <1>1, <1>2 DEF MorningIn, Goes
<1> QED BY <1>1, <1>2, <1>3, <1>4, <1>5 DEF MorningIn, v

\* A day of the year: the fields' day comes before anything is decided.
LEMMA MorningGoes ==
  ASSUME NEW w, IsWorld(w), ColumnLeaves(w), DayOfYear(w.day) # 0,
         RestsBy(w, w.day), HayIn(w), OpensCut(w) => NoHay(w),
         NEW in, IsOrder(in.order, w.f), in.seed \in 0..2, in.dung \in Nat,
         in.order.kind = "mark" /\ Careful => ~w.f.furrowing
  PROVE  LET v == FirstTick(w, in) IN MorningIn(v) /\ v.day = w.day
<1> DEFINE r == RunFields(w, in)  d == Decide(r, in)
           x == IF DayOfYear(d.day) = November * DaysPerMonth THEN SayLostWinterSlots(d) ELSE d
<1>1. ColumnKept(w)
  BY DEF ColumnLeaves
<1>2. Goes(w, r, w.day) /\ Tends(w, r)
  BY <1>1, FieldsGo
<1> HIDE DEF r
<1>3. IsWorld(r) /\ r.day = w.day /\ Tilled(r)
  BY <1>1, <1>2 DEF Goes, Tends, ColumnKept, Tilled
<1>4. IsOrder(in.order, r.f)
  BY <1>2 DEF IsOrder, Tends
<1>5. Keeps(r, d, w.day) /\ ColumnKept(d)
  BY <1>3, <1>4, DecideGoes
<1> HIDE DEF d
<1>6. Goes(w, d, w.day)
  BY <1>2, <1>5, GoesOn DEF Keeps
<1>7. IsWorld(d) /\ d.day = w.day /\ RestsBy(d, w.day) /\ HayOf(d)
  BY <1>6 DEF Goes, HayIn
<1>8. MonthOf(d.day) < CutMonth => NoHay(d)
  <2>1. MonthOf(w.day) < CutMonth /\ NoHay(w) => NoHay(r)
    BY <1>2 DEF Tends
  <2>2. NoHay(r) => NoHay(d)
    BY <1>5, QuietIsNoHay DEF Keeps
  <2> QED BY <1>7, <2>1, <2>2 DEF HayIn
<1>9. Tilled(d)
  BY <1>5 DEF ColumnKept, Tilled
<1>10. FirstTick(w, in) = Stressed(x)
  <2>1. Decide(r, in) = d /\ RunFields(w, in) = r
    BY DEF d, r
  <2>2. ~NewYear(w) /\ ~NewYear(d)
    BY <1>7 DEF NewYear
  <2> QED BY <2>1, <2>2 DEF FirstTick, DayStart
<1>11. /\ IsWorld(x) /\ x.day = d.day /\ x.f = d.f /\ x.col = d.col /\ x.b.hay = d.b.hay
       /\ x.b.rests = d.b.rests /\ x.b.broken = d.b.broken
  BY <1>7, SayGoes
<1> HIDE DEF x
<1>12. RestsBy(x, x.day) /\ x.b.rests \in {0, 1}
  BY <1>7, <1>11 DEF RestsBy
<1>13. HayIn(x)
  BY <1>7, <1>8, <1>11 DEF HayIn, HayOf, NoHay, Mowing
<1>14. Tilled(x)
  BY <1>9, <1>11 DEF Tilled
<1>15. MorningIn(x) /\ x.day = w.day
  BY <1>7, <1>11, <1>12, <1>13, <1>14 DEF MorningIn
<1> QED BY <1>10, <1>15, StressedMorning

\* The first day of a year: the turn comes first, and the fields' day after it.
LEMMA NewYearGoes ==
  ASSUME NEW w, IsWorld(w), ColumnLeaves(w), DayOfYear(w.day) = 0,
         NEW day \in Nat, w.day = day + 1, RestsBy(w, day), ~Mowing(w),
         NEW in, IsOrder(in.order, w.f), in.seed \in 0..2, in.dung \in Nat
  PROVE  LET v == FirstTick(w, in) IN MorningIn(v) /\ v.day = w.day
<1> DEFINE d == Decide(w, in)  y == RunYearStart(d, in.dung)  x == RunFields(y, in)
<1>1. Tilled(w) /\ (Reaping(w) => w.f.work # 0)
  BY DEF ColumnLeaves, ColumnKept, Tilled
<1>2. Keeps(w, d, day) /\ ColumnKept(d) /\ FurrowOpen(d.f)
  BY <1>1, DecideGoes
<1> HIDE DEF d
<1>3. Goes(w, d, day) /\ ~Mowing(d)
  BY <1>2 DEF Keeps, Quiet
<1>4. IsWorld(d) /\ d.day = w.day /\ RestsBy(d, day)
  BY <1>3 DEF Goes
<1>5. /\ IsWorld(y) /\ y.day = w.day /\ y.col = d.col
      /\ y.b.rests \in {0, 1} /\ HayOf(y) /\ NoHay(y)
      /\ (d.f.phase \in {"sowing", "harvest"} => y.f.phase = d.f.phase)
  BY <1>2, <1>3, <1>4, YearStartGoes
<1> HIDE DEF y
<1>6. Goes(y, x, w.day) /\ Tends(y, x)
  BY <1>5, FieldsGo
<1>7. x.b.rests = y.b.rests
  BY <1>5, FieldsRest DEF RestsStay, Told, IsWorld
<1>8. FirstTick(w, in) = Stressed(x)
  <2>1. RunYearStart(d, in.dung) = y /\ Decide(w, in) = d
    BY DEF y, d
  <2>2. NewYear(w) /\ NewYear(d)
    BY <1>4 DEF NewYear
  <2> QED BY <2>1, <2>2 DEF FirstTick, DayStart
<1> HIDE DEF x
<1>9. IsWorld(x) /\ x.day = w.day /\ HayOf(x) /\ x.b.rests \in {0, 1}
  BY <1>5, <1>6, <1>7 DEF Goes
<1>10. HayIn(x)
  BY <1>5, <1>6, <1>9 DEF Tends, HayIn
<1>11. Tilled(x)
  BY <1>2, <1>5, <1>6 DEF Tends, ColumnKept, Tilled
<1>12. MorningIn(x)
  BY <1>9, <1>10, <1>11 DEF MorningIn
<1> QED BY <1>8, <1>9, <1>12, StressedMorning

-----------------------------------------------------------------------------
(* The life of a row.                                                      *)

\* A row at rest is a row.
LEMMA RestIsRow ==
  ASSUME NEW f, AtRest(f)
  PROVE  IsRow(f) /\ f.phase # "harvest"
<1> DEFINE g == [Ground EXCEPT !.kind = f.kind, !.phase = f.phase, !.crop = f.crop,
                               !.slots = f.slots, !.assigned = f.assigned,
                               !.skips = f.skips, !.summers = f.summers,
                               !.fertility = f.fertility]
<1>1. /\ 0 \in 0..Parts /\ 0 \in 0..PenaltyYears /\ 0 \in 0..Norm /\ 0 \in Nat /\ 2 \in 0..2
      /\ FloorSoil..FullSoil \subseteq FloorSoil..(FullSoil + Norm)
      /\ \A n \in FloorSoil..FullSoil : n <= FullSoil + 0
  BY Numbers
<1>2. /\ f = g /\ f.kind \in {"arable", "meadow"} /\ f.crop \in Crops
      /\ f.phase \in {"idle", "growing"} /\ (f.kind = "meadow" => f.phase = "growing")
      /\ f.slots \in Chain /\ f.summers \in 0..Len(Summers)
      /\ f.fertility \in FloorSoil..FullSoil
  BY DEF AtRest, Chain
<1>3. None \in Crops
  BY DEF Crops
<1>4. IsDose(NoDose) /\ ~NoDose.named
  BY DEF IsDose, NoDose
<1>5. /\ DOMAIN g = RowColumns /\ g.mown_fallow = FALSE /\ g.last_crop = None
      /\ g.repeat_years = 0 /\ g.work = 0 /\ g.harvest_work = 0 /\ g.laid_share = 0
      /\ g.laid_grams = 0 /\ g.furrowing = FALSE /\ g.sown_day = Never
      /\ g.reaped_day = Never /\ g.mown_day = Never /\ g.sown_share = 2 /\ g.stress = 0
      /\ g.applied = 0 /\ g.booked = FALSE /\ g.rest_owed = FALSE /\ g.dose = NoDose
  BY DEF Ground, RowColumns
<1> HIDE DEF g
<1>6. Typed(f)
  BY <1>1, <1>2, <1>3, <1>4, <1>5 DEF Typed, Stamp
<1>7. Laying(f) /\ Standing(f) /\ Furrow(f)
  BY <1>1, <1>2, <1>5 DEF Laying, Standing, Furrow
<1>8. Soil(f)
  BY <1>1, <1>2, <1>5 DEF Soil
<1> QED BY <1>2, <1>6, <1>7, <1>8 DEF IsRow

\* So a life begins with one.
LEMMA BeginsIn == Init => FieldInv
<1> SUFFICES ASSUME Init PROVE FieldInv
  OBVIOUS
<1>1. PICK life \in Lives :
        /\ world = [f |-> life.f, day |-> 0, air |-> 0, sky |-> "dry", cover |-> FALSE,
                    col |-> Never, b |-> NoHistory]
        /\ left = [last |-> life.last, orders |-> life.orders, chains |-> life.chains,
                   marks |-> life.marks, dung |-> life.dung, seeds |-> life.seeds,
                   column |-> life.column]
  BY DEF Init
<1>2. /\ AtRest(life.f) /\ life.last \in Nat /\ life.orders \in Nat
      /\ life.chains \subseteq Chain /\ life.seeds \subseteq 0..2
  BY LivesAssumption DEF Chain
<1>3. IsRow(world.f) /\ world.f.phase # "harvest"
  BY <1>1, <1>2, RestIsRow
<1>4. /\ world.b = NoHistory /\ world.col = Never /\ world.day = 0
      /\ DOMAIN world = {"f", "day", "air", "sky", "cover", "col", "b"}
  BY <1>1
<1>5. /\ DOMAIN NoHistory = {"whole", "laid", "short", "hay", "broken", "slot", "used",
                             "excused", "rests", "said"}
      /\ NoHistory.hay = 0 /\ NoHistory.rests = 0
  BY DEF NoHistory
<1>6. IsWorld(world)
  BY <1>3, <1>4, <1>5 DEF IsWorld
<1>7. Tilled(world)
  BY <1>4, Numbers DEF Tilled
<1>8. HayIn(world) /\ RestsBy(world, world.day) /\ world.b.rests \in {0, 1}
  BY <1>3, <1>4, <1>5, Numbers DEF HayIn, HayOf, NoHay, Mowing, RestsBy
<1>9. LeftIn(left)
  BY <1>1, <1>2 DEF LeftIn
<1>10. hour = 0 /\ LastHour \in Nat /\ LastHour > 1
  BY Numbers DEF Init
<1> QED BY <1>6, <1>7, <1>8, <1>9, <1>10 DEF FieldInv

\* What may be given to a tick is what a tick may be given.
LEMMA OrdersAre ==
  ASSUME LeftIn(left), NEW order \in Orders(world)
  PROVE  /\ IsOrder(order, world.f)
         /\ order.kind = "mark" /\ Careful => ~world.f.furrowing
         /\ order.kind # "none" => left.orders > 0
<1>1. left.chains \subseteq Chain /\ left.orders \in Nat
  BY DEF LeftIn
<1>2. /\ order.kind = "chain" => order.slots \in left.chains
      /\ order.kind = "mark" /\ Careful => ~world.f.furrowing
      /\ order.kind # "none" => left.orders # 0
  BY DEF Orders
<1> QED BY <1>1, <1>2 DEF IsOrder

\* The seed found, in halves.
LEMMA SeedsAre ==
  ASSUME LeftIn(left), NEW seed \in Seeds(world)
  PROVE  seed \in 0..2
BY DEF LeftIn, Seeds

\* The dung in the heap.
LEMMA DungIs ==
  ASSUME NEW dung \in Dung(world)
  PROVE  dung \in Nat
BY Numbers DEF Dung

\* What the carts moved is of what is due.
LEMMA MovedIs ==
  ASSUME IsWorld(world), NEW moved \in Moved(world)
  PROVE  moved \in Nat /\ moved <= world.f.dose.due
<1>1. world.f.dose.due \in Nat
  BY DEF IsWorld, IsRow, Typed, IsDose
<1> QED BY <1>1 DEF Moved

\* The hands are of the work there is, and idle ground has none.
LEMMA HandsAre ==
  ASSUME IsWorld(world), NEW hands \in Hands(world)
  PROVE  hands \in 0..world.f.work /\ (world.f.phase = "idle" => hands = 0)
<1>1. world.f.work \in Nat
  BY Numbers DEF IsWorld, IsRow, Typed
<1> QED BY <1>1 DEF Hands, Working

\* An order given is one less to give.
LEMMA SpendsIn ==
  ASSUME LeftIn(left), NEW order \in Orders(world), Spend(order)
  PROVE  LeftIn(left')
<1>1. order.kind # "none" => left.orders > 0
  BY OrdersAre
<1> DEFINE orders == IF order.kind = "none" THEN left.orders ELSE left.orders - 1
<1>2. orders \in Nat
  BY <1>1 DEF LeftIn
<1>3. left' = [left EXCEPT !.orders = orders]
  BY DEF Spend
<1> HIDE DEF orders
<1> QED BY <1>2, <1>3 DEF LeftIn

\* The first tick of a day.
LEMMA DawnIn == FieldInv /\ Dawn => FieldInv'
<1> SUFFICES ASSUME FieldInv, Dawn PROVE FieldInv'
  OBVIOUS
<1>1. LastHour \in Nat /\ LastHour > 1
  BY Numbers
<1>2. hour = LastHour /\ hour' = 0
  BY DEF Dawn
<1>3. /\ IsWorld(world) /\ NightIn(world) /\ RestsBy(world, world.day) /\ HayIn(world)
      /\ LeftIn(left)
  BY <1>1, <1>2 DEF FieldInv
<1>4. PICK order \in Orders(world), seed \in Seeds(world), clear \in BOOLEAN,
           dung \in Dung(world), sky \in Weather[MonthOf(world.day + 1)] :
        /\ world' = FirstTick(
             [world EXCEPT !.day = @ + 1, !.air = sky.air, !.sky = sky.sky,
                           !.cover = sky.cover, !.b.short = 0],
             In(0, order, seed, clear, FALSE, dung, 0, 0))
        /\ Spend(order)
  BY DEF Dawn
<1> DEFINE w == [world EXCEPT !.day = @ + 1, !.air = sky.air, !.sky = sky.sky,
                              !.cover = sky.cover, !.b.short = 0]
           in == In(0, order, seed, clear, FALSE, dung, 0, 0)
<1>5. world' = FirstTick(w, in)
  BY <1>4
<1>6. Morning(world, w)
  BY <1>3 DEF IsWorld, Morning
<1>7. in.order = order /\ in.seed = seed /\ in.dung = dung
  BY DEF In
<1> HIDE DEF w, in
<1>8. /\ IsWorld(w) /\ ColumnLeaves(w) /\ RestsBy(w, world.day)
      /\ (DayOfYear(w.day) = 0 => ~Mowing(w))
      /\ (DayOfYear(w.day) # 0 =>
            RestsBy(w, w.day) /\ HayIn(w) /\ (OpensCut(w) => NoHay(w)))
  BY <1>3, <1>6, Overnight
<1>9. /\ IsOrder(in.order, w.f) /\ in.seed \in 0..2 /\ in.dung \in Nat
      /\ (in.order.kind = "mark" /\ Careful => ~w.f.furrowing)
  BY <1>3, <1>6, <1>7, OrdersAre, SeedsAre, DungIs DEF Morning
<1>10. world.day \in Nat /\ w.day = world.day + 1
  BY <1>3, <1>6 DEF IsWorld, Morning
<1> DEFINE v == FirstTick(w, in)
<1>11. MorningIn(v)
  BY <1>8, <1>9, <1>10, MorningGoes, NewYearGoes
<1>12. LeftIn(left')
  BY <1>3, <1>4, SpendsIn
<1> HIDE DEF v
<1>13. world' = v
  BY <1>5 DEF v
<1> QED BY <1>1, <1>2, <1>11, <1>12, <1>13 DEF MorningIn, FieldInv, NewYear

\* The hours only count anew what history tells.
Recounts(w, v) ==
  /\ DOMAIN v = DOMAIN w /\ v.f = w.f /\ v.day = w.day /\ v.col = w.col /\ v.sky = w.sky
  /\ DOMAIN v.b = DOMAIN w.b /\ v.b.hay = w.b.hay /\ v.b.broken = w.b.broken

\* A count begun anew keeps the world.
LEMMA RecountGoes ==
  ASSUME NEW w, IsWorld(w), Tilled(w), HayIn(w), NEW v, Recounts(w, v),
         v.b.rests \in {0, 1}, v.b.rests = 1 => v.b.rests = w.b.rests /\ RestsBy(w, w.day)
  PROVE  IsWorld(v) /\ Tilled(v) /\ HayIn(v) /\ RestsBy(v, v.day)
<1>1. IsWorld(v)
  BY DEF IsWorld, Recounts
<1>2. Tilled(v)
  BY DEF Tilled, Recounts
<1>3. HayIn(v)
  BY DEF HayIn, HayOf, NoHay, Mowing, Recounts
<1>4. RestsBy(v, v.day)
  BY DEF RestsBy, Recounts
<1> QED BY <1>1, <1>2, <1>3, <1>4

\* A quiet step of the same day keeps the account of the hay.
LEMMA HayStays ==
  ASSUME NEW w, NEW v, HayIn(w), Goes(w, v, w.day), Quiet(w, v)
  PROVE  HayIn(v) /\ IsWorld(v) /\ v.day = w.day
<1>1. NoHay(w) => NoHay(v)
  BY QuietIsNoHay
<1> QED BY <1>1 DEF HayIn, Goes

\* A working hour.
LEMMA DayStepIn == FieldInv /\ Day => FieldInv'
<1> SUFFICES ASSUME FieldInv, Day PROVE FieldInv'
  OBVIOUS
<1>1. LastHour \in Nat /\ LastHour > 1
  BY Numbers
<1>2. hour \in 0..LastHour /\ hour < LastHour - 1 /\ hour' = hour + 1
  BY DEF Day, FieldInv
<1>3. /\ IsWorld(world) /\ Tilled(world) /\ HayIn(world) /\ LeftIn(left)
      /\ world.b.rests \in {0, 1}
      /\ (~(hour = 0 /\ NewYear(world)) => RestsBy(world, world.day))
  BY DEF FieldInv
<1>4. PICK order \in Orders(world), hands \in Hands(world), seed \in Seeds(world),
           cart \in Carts(world), moved \in Moved(world) :
        /\ world' = WorkingTick(
             [world EXCEPT !.b.short = 0,
                           !.b.rests = IF NewYear(world) /\ hour = 0 THEN 0 ELSE @,
                           !.b.said = IF NewYear(world) THEN "unasked" ELSE @],
             In(hands, order, seed, FALSE, cart, 0, moved, 0))
        /\ Spend(order)
  BY DEF Day
<1> DEFINE rests == IF NewYear(world) /\ hour = 0 THEN 0 ELSE world.b.rests
           said == IF NewYear(world) THEN "unasked" ELSE world.b.said
           w == [world EXCEPT !.b.short = 0, !.b.rests = rests, !.b.said = said]
           in == In(hands, order, seed, FALSE, cart, 0, moved, 0)
<1>5. world' = WorkingTick(w, in)
  <2>1. w = [world EXCEPT !.b.short = 0,
                          !.b.rests = IF NewYear(world) /\ hour = 0 THEN 0 ELSE @,
                          !.b.said = IF NewYear(world) THEN "unasked" ELSE @]
    BY <1>3 DEF IsWorld
  <2> QED BY <1>4, <2>1
<1>6. rests \in {0, 1} /\ (rests = 1 => rests = world.b.rests /\ RestsBy(world, world.day))
  BY <1>3
<1>7. /\ in.hands = hands /\ in.order = order /\ in.seed = seed /\ in.moved = moved
      /\ in.dung = 0 /\ in.column = 0
  BY DEF In
<1> HIDE DEF rests, said, in
<1>8. Recounts(world, w) /\ w.b.rests = rests
  BY <1>3 DEF IsWorld, Recounts
<1> HIDE DEF w
<1>9. IsWorld(w) /\ Tilled(w) /\ HayIn(w) /\ RestsBy(w, w.day) /\ w.f = world.f
  BY <1>3, <1>6, <1>8, RecountGoes DEF Recounts
<1>10. IsGiven(w, in)
  BY <1>3, <1>4, <1>7, <1>9, Numbers, OrdersAre, SeedsAre, MovedIs, HandsAre DEF IsGiven
<1> DEFINE v == WorkingTick(w, in)
<1>11. Goes(w, v, w.day) /\ Quiet(w, v) /\ ColumnKept(v) /\ DayIn(v)
  BY <1>9, <1>10, WorkingTickGoes
<1> HIDE DEF v
<1>12. HayIn(v) /\ IsWorld(v) /\ v.day = w.day
  BY <1>9, <1>11, HayStays
<1>13. RestsBy(v, v.day) /\ v.b.rests \in {0, 1}
  BY <1>9, <1>11, <1>12 DEF Goes, RestsBy
<1>14. Tilled(v)
  BY <1>11 DEF ColumnKept, Tilled
<1>15. LeftIn(left')
  BY <1>3, <1>4, SpendsIn
<1>16. world' = v
  BY <1>5 DEF v
<1>17. hour' \in 0..LastHour /\ hour' # 0 /\ hour' # LastHour
  BY <1>1, <1>2
<1> QED BY <1>11, <1>12, <1>13, <1>14, <1>15, <1>16, <1>17 DEF FieldInv

\* The last tick of a day.
LEMMA EveningIn == FieldInv /\ Evening => FieldInv'
<1> SUFFICES ASSUME FieldInv, Evening PROVE FieldInv'
  OBVIOUS
<1>1. LastHour \in Nat /\ LastHour > 1
  BY Numbers
<1>2. hour = LastHour - 1 /\ hour' = LastHour
  BY DEF Evening
<1>3. hour \in 1..(LastHour - 1) /\ hour # 0
  BY <1>1, <1>2
<1>4. /\ IsWorld(world) /\ Tilled(world) /\ HayIn(world) /\ LeftIn(left)
      /\ world.b.rests \in {0, 1} /\ RestsBy(world, world.day) /\ DayIn(world)
  BY <1>3 DEF FieldInv
<1>5. PICK order \in Orders(world), hands \in Hands(world), seed \in Seeds(world),
           cart \in Carts(world), dung \in Dung(world), moved \in Moved(world),
           column \in IF ColumnHere(world, left.column) THEN 0..Parts ELSE {0} :
        /\ world' = LastTick([world EXCEPT !.b.short = 0],
                             In(hands, order, seed, FALSE, cart, dung, moved, column))
        /\ Spend(order)
  BY DEF Evening
<1> DEFINE w == [world EXCEPT !.b.short = 0]
           in == In(hands, order, seed, FALSE, cart, dung, moved, column)
<1>6. world' = LastTick(w, in)
  BY <1>5
<1>7. Recounts(world, w) /\ w.b.rests = world.b.rests
  BY <1>4 DEF IsWorld, Recounts
<1>8. /\ in.hands = hands /\ in.order = order /\ in.seed = seed /\ in.moved = moved
      /\ in.dung = dung /\ in.column = column
  BY DEF In
<1> HIDE DEF w, in
<1>9. /\ IsWorld(w) /\ Tilled(w) /\ HayIn(w) /\ RestsBy(w, w.day) /\ w.f = world.f
  BY <1>4, <1>7, RecountGoes DEF Recounts
<1>10. DayIn(w)
  BY <1>4, <1>7 DEF DayIn, Recounts
<1>11. in.column \in 0..Parts
  BY <1>5, <1>8, Numbers
<1>12. IsGiven(w, in)
  BY <1>4, <1>5, <1>8, <1>9, <1>11, OrdersAre, SeedsAre, DungIs, MovedIs, HandsAre
  DEF IsGiven
<1> DEFINE v == LastTick(w, in)
<1>13. Goes(w, v, w.day) /\ Quiet(w, v) /\ NightIn(v)
  BY <1>9, <1>10, <1>12, LastTickGoes
<1> HIDE DEF v
<1>14. HayIn(v) /\ IsWorld(v) /\ v.day = w.day
  BY <1>9, <1>13, HayStays
<1>15. RestsBy(v, v.day) /\ v.b.rests \in {0, 1}
  BY <1>9, <1>13, <1>14 DEF Goes, RestsBy
<1>16. Tilled(v)
  BY <1>13 DEF NightIn, ColumnKept, Tilled
<1>17. LeftIn(left')
  BY <1>4, <1>5, SpendsIn
<1>18. world' = v
  BY <1>6 DEF v
<1>19. hour' \in 0..LastHour /\ hour' # 0 /\ hour' \notin 1..(LastHour - 1)
  BY <1>1, <1>2
<1> QED BY <1>2, <1>13, <1>14, <1>15, <1>16, <1>17, <1>18, <1>19 DEF FieldInv

\* At every tick the row, its column and the accounts beside it stand together.
THEOREM FieldInvariant == Spec => []FieldInv
<1>1. FieldInv /\ UNCHANGED vars => FieldInv'
  BY DEF FieldInv, vars, LeftIn, NewYear
<1>2. FieldInv /\ [Next]_vars => FieldInv'
  BY <1>1, DawnIn, DayStepIn, EveningIn DEF Next
<1> QED BY BeginsIn, <1>2, PTL DEF Spec

\* A row that stands is one the save's reader takes.
LEMMA InvLoads == Careful /\ FieldInv => RowLoads
<1> SUFFICES ASSUME Careful, FieldInv PROVE RowLoads
  OBVIOUS
<1>1. /\ IsRow(world.f) /\ world.day \in Nat /\ world.col \in {Never} \cup 0..Parts
      /\ hour \in 0..LastHour
  BY DEF FieldInv, IsWorld
<1>2. Parts \in Nat /\ world.f.harvest_work \in {0, Parts}
  BY <1>1, Numbers DEF IsRow, Laying
<1>3. /\ world.f.slots[1] \in Crops /\ world.f.slots[2] \in Crops
      /\ world.f.slots[3] \in Crops
  BY <1>1, SlotsAre DEF IsRow
<1>4. TypeOK
  BY <1>1, <1>2, <1>3 DEF TypeOK, IsRow, Typed, Laying, Crops
<1>5. /\ world.f.rest_owed => world.f.phase \in {"harrowing", "sowing"} /\ world.f.crop # None
      /\ world.f.mown_fallow => world.f.kind = "meadow"
  BY <1>1, CropIs DEF IsRow, Typed, Standing
<1>6. /\ world.f.booked => world.f.applied > 0
      /\ world.f.furrowing => /\ world.f.phase = "plowing" \/
                                 (world.f.phase = "idle" /\ world.f.work > 0)
                              /\ world.f.crop = None /\ ~world.f.plowed
      /\ world.f.dose.due \in 0..world.f.dose.booked
      /\ (world.f.dose.named <=> world.f.dose.booked > 0)
      /\ world.f.sown_share \in 0..2
  BY <1>1 DEF IsRow, Soil, Furrow, Typed, IsDose
<1> QED BY <1>4, <1>5, <1>6 DEF RowLoads

\* A game saved at any tick is a game that loads, where nobody marks a meadow
\* over a part-turned furrow: the row passes the save's reader (save_rows.cpp).
THEOREM RowsLoad == ASSUME Careful PROVE Spec => []RowLoads
<1>1. FieldInv => RowLoads
  BY InvLoads
<1> QED BY <1>1, FieldInvariant, PTL

\* Its soil is settled.
LEMMA InvSettled == FieldInv => SoilSettled
BY DEF FieldInv, IsWorld, IsRow, Soil, SoilSettled

\* The soil stands above its ceiling only under a paid dose, no dose is paid
\* while it is carted, and a field rests at most once a year: by the sowing of
\* its fallow or by the turn of the year, never by both.
THEOREM SoilIsSettled == Spec => []SoilSettled
BY InvSettled, FieldInvariant, PTL

\* And its hay is of one cut.
LEMMA InvOneCut == FieldInv => OneCutAYear
<1> SUFFICES ASSUME FieldInv PROVE OneCutAYear
  OBVIOUS
<1>1. HayOf(world)
  BY DEF FieldInv, HayIn
<1> QED BY <1>1 DEF HayOf, OneCutAYear

\* A meadow gives one season's hay a year, but where ploughing up broke a cut
\* off: the cut that closes is not opened again before the year turns.
THEOREM OneCutIsGiven == Spec => []OneCutAYear
BY InvOneCut, FieldInvariant, PTL

-----------------------------------------------------------------------------
(* The books kept beside the row: the slots, the grams, what November said. *)

\* The crop of a slot stands on the field.
Stands(f, slot) ==
  f.kind = "arable" /\ f.phase = "growing" /\ f.crop = f.slots[slot] /\ f.crop # None

\* A sowing that goes on before its months are there was found by a turn.
EarlySown(f, month) == f.phase = "sowing" /\ ~(month >= Crop[f.crop].from)

\* A slot in preparation is later than the one sown last, or excused; under a
\* standing mark, or for the year to come, it is a winter crop's, and is sown
\* in its time or excused once more.
Prepared(f, slot, used, excused, month) ==
  /\ f.kind = "arable" /\ f.phase \in {"plowing", "harrowing", "sowing"}
  /\ f.crop = f.slots[slot] /\ f.crop # None
  /\ slot = 2 => ~f.skips
  /\ slot = 2 \/ f.skips => Winter(f.crop)
  /\ slot > used \/ (f.skips /\ excused >= 1)
  /\ EarlySown(f, month) =>
       /\ slot # 2
       /\ f.skips => excused >= (IF slot > used THEN 1 ELSE 2)

\* This year's slot has been sown: it cannot be sown again, for its crop
\* stands, or its time is over, or it is a winter crop's and was last year's -
\* unless it is excused.
FirstUsed(f, excused, month) ==
  IF f.skips THEN /\ Winter(f.slots[1])
                  /\ excused >= 1 \/ (Stands(f, 1) /\ month >= Crop[f.crop].from)
  ELSE /\ f.slots[1] # None
       /\ Winter(f.slots[1]) \/ month > Crop[f.slots[1]].to \/ Stands(f, 1)

\* The next year's has: its winter crop stands till the turn.
SecondUsed(f, month) ==
  ~f.skips /\ Stands(f, 2) /\ Winter(f.crop) /\ month >= Crop[f.crop].from

SlotsIn(f, b, month) ==
  /\ b.excused \in Nat /\ b.slot \in 0..2 /\ b.used \in 0..2
  /\ f.kind = "gone" => b.used = 0
  /\ b.slot # 0 => Prepared(f, b.slot, b.used, b.excused, month)
  /\ b.used = 1 => FirstUsed(f, b.excused, month)
  /\ b.used = 2 => SecondUsed(f, month)

\* No reaping is of a year to come.
Dated(f, day) == f.reaped_day # Never => YearOf(f.reaped_day) <= YearOf(day)

\* What shares of a whole are laid to: no more than they are, and short of
\* that by less than a gram in each of their parts; all of it, at the last.
SharesLaid(whole, share, grams) ==
  /\ grams * Parts <= whole * share
  /\ whole * share <= grams * Parts + (Parts - 1) * share
  /\ share = Parts => grams = whole

GramsIn(f, b) ==
  /\ b.laid = f.laid_grams /\ b.whole = Yield(f)
  /\ SharesLaid(b.whole, f.laid_share, f.laid_grams)
Grams(w) == IF Reaping(w) THEN GramsIn(w.f, w.b) ELSE w.b.laid = 0

\* And what a reaping ended short of is what ReapedToTheGram lets it be.
Rounded(w) == w.b.short = 0 \/ (w.sky = "snow" /\ w.b.short \in 1..(Parts - 1))

\* The books as of a day.
Books(w, day) ==
  SlotsIn(w.f, w.b, MonthOf(day)) /\ Dated(w.f, day) /\ Grams(w) /\ Rounded(w)

\* What November said still holds of the row, till the turn.
Announced(w, day) ==
  w.b.said # "unasked" =>
    /\ w.f.kind = "arable" /\ MonthOf(day) >= November
    /\ w.b.said = "lost" <=> ArrivingWinterSlotLost(w.f)

\* And after it.
StillReaped(f) == f.phase = "harvest" /\ f.crop = f.slots[1] /\ Winter(f.crop)
Foretold(w) ==
  w.b.said # "unasked" =>
    /\ w.f.kind = "arable"
    /\ ~StillReaped(w.f) => (w.b.said = "lost" <=> WinterSlotLost(w.f, w.day))

\* What a step does to the books.
Carries(w, v, day) ==
  /\ Books(w, day) => Books(v, day)
  /\ Books(w, day) /\ Announced(w, day) => Announced(v, day)
Foretells(w, v) == Books(w, w.day) /\ Foretold(w) => Foretold(v)

\* One step after another.
LEMMA CarriesOn ==
  ASSUME NEW w, NEW v, NEW u, NEW day, Carries(w, v, day), Carries(v, u, day)
  PROVE  Carries(w, u, day)
BY DEF Carries

\* Nothing the books ask about is changed.
SameBooked(f, g) ==
  /\ g.kind = f.kind /\ g.slots = f.slots /\ g.skips = f.skips
  /\ g.assigned = f.assigned /\ g.reaped_day = f.reaped_day
  /\ f.kind = "arable" => g.phase = f.phase /\ g.crop = f.crop
  /\ f.kind = "arable" /\ f.phase = "harvest" =>
       /\ g.laid_share = f.laid_share /\ g.laid_grams = f.laid_grams
       /\ Yield(g) = Yield(f)
Unmoved(w, v) ==
  /\ v.sky = w.sky /\ v.day = w.day /\ SameBooked(w.f, v.f)
  /\ v.b.slot = w.b.slot /\ v.b.used = w.b.used /\ v.b.excused = w.b.excused
  /\ v.b.said = w.b.said /\ v.b.laid = w.b.laid /\ v.b.short = w.b.short
  /\ Reaping(w) => v.b.whole = w.b.whole

\* So the books stand as they did.
LEMMA UnmovedCarries ==
  ASSUME NEW w, NEW v, Unmoved(w, v), NEW day
  PROVE  Carries(w, v, day) /\ Foretells(w, v)
<1> DEFINE f == w.f  g == v.f  m == MonthOf(day)
<1>1. SameBooked(f, g)
  BY DEF Unmoved
<1> HIDE DEF m
<1>2. ASSUME SlotsIn(f, w.b, m) PROVE SlotsIn(g, v.b, m)
  <2>1. \A slot : Stands(f, slot) => Stands(g, slot) /\ g.crop = f.crop
    BY <1>1 DEF SameBooked, Stands
  <2>2. v.b.slot # 0 => Prepared(g, v.b.slot, v.b.used, v.b.excused, m)
    BY <1>1, <1>2 DEF SlotsIn, Prepared, EarlySown, SameBooked, Unmoved
  <2>3. v.b.used = 1 => FirstUsed(g, v.b.excused, m)
    BY <1>1, <1>2, <2>1 DEF SlotsIn, FirstUsed, SameBooked, Unmoved
  <2>4. v.b.used = 2 => SecondUsed(g, m)
    BY <1>1, <1>2, <2>1 DEF SlotsIn, SecondUsed, SameBooked, Unmoved
  <2> QED BY <1>1, <1>2, <2>2, <2>3, <2>4 DEF SlotsIn, SameBooked, Unmoved
<1>3. Dated(f, day) => Dated(g, day)
  BY <1>1 DEF Dated, SameBooked
<1>4. Grams(w) => Grams(v)
  BY <1>1 DEF Grams, GramsIn, Reaping, SameBooked, Unmoved
<1>5. Rounded(w) => Rounded(v)
  BY DEF Rounded, Unmoved
<1>6. Announced(w, day) => Announced(v, day)
  BY <1>1 DEF Announced, ArrivingWinterSlotLost, HasRotation, SameBooked, Unmoved
<1>7. Foretold(w) => Foretold(v)
  BY <1>1 DEF Foretold, StillReaped, WinterSlotLost, HasRotation, SameBooked, Unmoved
<1> QED BY <1>2, <1>3, <1>4, <1>5, <1>6, <1>7 DEF Carries, Foretells, Books, m

\* And one such step after another.
LEMMA UnmovedOn ==
  ASSUME NEW w, NEW v, NEW u, Unmoved(w, v), Unmoved(v, u)
  PROVE  Unmoved(w, u)
BY DEF Unmoved, SameBooked, Reaping
LEMMA UnmovedStill ==
  ASSUME NEW w
  PROVE  Unmoved(w, w)
BY DEF Unmoved, SameBooked

\* A world with another row, or another history.
LEMMA ColumnsOf ==
  ASSUME NEW w, Shaped(w), NEW g, NEW h
  PROVE  LET v == [w EXCEPT !.f = g, !.b = h]  u == [w EXCEPT !.f = g] IN
         /\ v.f = g /\ v.b = h /\ v.sky = w.sky /\ v.day = w.day
         /\ u.f = g /\ u.b = w.b /\ u.sky = w.sky /\ u.day = w.day
BY DEF Shaped

\* What a field gives is of the sowing, the soil and the weather.
LEMMA YieldStays ==
  ASSUME NEW f, NEW g, g.crop = f.crop, g.sown_share = f.sown_share,
         g.fertility = f.fertility, g.summers = f.summers, g.stress = f.stress,
         g.sown_day = f.sown_day
  PROVE  Yield(g) = Yield(f)
<1>1. SoilFertility(g) = SoilFertility(f) /\ LateSowing(g) = LateSowing(f)
  BY DEF SoilFertility, LateSowing
<1>2. StandOfSummer(g) = StandOfSummer(f)
  BY DEF StandOfSummer
<1> QED BY <1>1, <1>2 DEF Yield

\* A row of which no column is changed that the books know.
Alike(f, g) ==
  /\ g.kind = f.kind /\ g.phase = f.phase /\ g.crop = f.crop /\ g.slots = f.slots
  /\ g.skips = f.skips /\ g.assigned = f.assigned /\ g.reaped_day = f.reaped_day
  /\ g.laid_share = f.laid_share /\ g.laid_grams = f.laid_grams
  /\ g.sown_share = f.sown_share /\ g.sown_day = f.sown_day /\ g.summers = f.summers
  /\ g.fertility = f.fertility /\ g.stress = f.stress
\* Or a meadow whose mark is not.
Grassed(f, g) ==
  /\ f.kind # "arable" /\ g.kind = f.kind /\ g.slots = f.slots /\ g.skips = f.skips
  /\ g.assigned = f.assigned /\ g.reaped_day = f.reaped_day
LEMMA AlikeIsBooked ==
  ASSUME NEW f, NEW g, Alike(f, g) \/ Grassed(f, g)
  PROVE  SameBooked(f, g)
<1>1. Alike(f, g) => SameBooked(f, g)
  BY YieldStays DEF Alike, SameBooked
<1>2. Grassed(f, g) => SameBooked(f, g)
  BY DEF Grassed, SameBooked
<1> QED BY <1>1, <1>2

\* A change of such a row alone.
LEMMA AlikeUnmoved ==
  ASSUME NEW w, Shaped(w), NEW g, SameBooked(w.f, g)
  PROVE  Unmoved(w, [w EXCEPT !.f = g])
<1> DEFINE v == [w EXCEPT !.f = g]
<1>1. v.f = g /\ v.b = w.b /\ v.sky = w.sky /\ v.day = w.day
  BY ColumnsOf
<1> HIDE DEF v
<1> QED BY <1>1 DEF Unmoved, v

\* Work done, a stage of the column, a load carted, a day of bad weather.
LEMMA WorkUnmoved ==
  ASSUME NEW w, IsWorld(w), NEW n
  PROVE  Unmoved(w, [w EXCEPT !.f.work = n])
<1> DEFINE g == [w.f EXCEPT !.work = n]
<1>1. Shaped(w)
  BY WorldIsShaped
<1>2. [w EXCEPT !.f.work = n] = [w EXCEPT !.f = g]
  BY <1>1 DEF Shaped
<1>3. Alike(w.f, g)
  BY <1>1 DEF Alike, Shaped, RowColumns
<1> HIDE DEF g
<1> QED BY <1>1, <1>2, <1>3, AlikeIsBooked, AlikeUnmoved
LEMMA ColumnUnmoved ==
  ASSUME NEW w, IsWorld(w), NEW n
  PROVE  Unmoved(w, [w EXCEPT !.col = n])
<1> DEFINE v == [w EXCEPT !.col = n]
<1>1. v.f = w.f /\ v.b = w.b /\ v.sky = w.sky /\ v.day = w.day
  BY DEF IsWorld
<1> HIDE DEF v
<1> QED BY <1>1 DEF Unmoved, SameBooked, v
LEMMA CartUnmoved ==
  ASSUME NEW w, IsWorld(w), NEW cart
  PROVE  Unmoved(w, CarryShare(w, cart))
<1> DEFINE load == IF cart THEN None ELSE w.f.heap  g == [w.f EXCEPT !.heap = load]
<1>1. Shaped(w)
  BY WorldIsShaped
<1>2. CarryShare(w, cart) = [w EXCEPT !.f = g]
  BY <1>1 DEF CarryShare, Shaped, RowColumns
<1> HIDE DEF load
<1>3. Alike(w.f, g)
  BY <1>1 DEF Alike, Shaped, RowColumns
<1> HIDE DEF g
<1> QED BY <1>1, <1>2, <1>3, AlikeIsBooked, AlikeUnmoved
LEMMA StressUnmoved ==
  ASSUME NEW w, IsWorld(w)
  PROVE  Unmoved(w, Stressed(w))
<1> DEFINE stress == Least(w.f.stress + 1, StressCap)  g == [w.f EXCEPT !.stress = stress]
<1>1. Shaped(w)
  BY WorldIsShaped
<1>2. CASE Stressed(w) = w
  BY <1>2, UnmovedStill
<1>3. CASE Stressed(w) # w
  <2>1. w.f.phase = "growing" /\ Stressed(w) = [w EXCEPT !.f = g]
    BY <1>1, <1>3 DEF Stressed, Shaped, RowColumns
  <2> HIDE DEF stress
  <2>2. SameBooked(w.f, g)
    BY <1>1, <2>1 DEF SameBooked, Shaped, RowColumns
  <2> HIDE DEF g
  <2> QED BY <1>1, <2>1, <2>2, AlikeUnmoved
<1> QED BY <1>2, <1>3

\* The dose, its price and its booking.
LEMMA DoseUnmoved ==
  ASSUME NEW w, IsWorld(w), NEW d
  PROVE  Unmoved(w, [w EXCEPT !.f = [w.f EXCEPT !.dose = d]])
<1> DEFINE g == [w.f EXCEPT !.dose = d]
<1>1. Shaped(w)
  BY WorldIsShaped
<1>2. Alike(w.f, g)
  BY <1>1 DEF Alike, Shaped, RowColumns
<1> HIDE DEF g
<1>3. Unmoved(w, [w EXCEPT !.f = g])
  BY <1>1, <1>2, AlikeIsBooked, AlikeUnmoved
<1> QED BY <1>3 DEF g
LEMMA PriceUnmoved ==
  ASSUME NEW w, IsWorld(w)
  PROVE  Unmoved(w, PriceManureDoses(w))
<1> DEFINE p == SledgeDay(w) /\ ManureDoseStands(w.f)  d == [w.f.dose EXCEPT !.priced = p]
<1>1. PriceManureDoses(w) = [w EXCEPT !.f = [w.f EXCEPT !.dose = d]]
  BY WorldIsShaped DEF PriceManureDoses, Shaped, RowColumns
<1> HIDE DEF d
<1> QED BY <1>1, DoseUnmoved
LEMMA BookUnmoved ==
  ASSUME NEW w, IsWorld(w), NEW dung
  PROVE  Unmoved(w, BookManureDoses(w, dung))
<1>1. PICK d : BookManureDoses(w, dung) = w \/ BookManureDoses(w, dung) = [w EXCEPT !.f.dose = d]
  BY DEF BookManureDoses
<1>2. [w EXCEPT !.f.dose = d] = [w EXCEPT !.f = [w.f EXCEPT !.dose = d]]
  BY WorldIsShaped DEF Shaped, RowColumns
<1> QED BY <1>1, <1>2, DoseUnmoved, UnmovedStill
LEMMA SettleUnmoved ==
  ASSUME NEW w, IsWorld(w), NEW moved
  PROVE  Unmoved(w, SettleManureDoses(w, moved))
<1> DEFINE f == w.f  e == [f EXCEPT !.dose.due = @ - moved]  a == WriteAppliedShare(e)
           g == [a EXCEPT !.dose.priced = @ /\ a.dose.due > 0]
<1>1. Shaped(w)
  BY WorldIsShaped
<1>2. SettleManureDoses(w, moved) = w \/ SettleManureDoses(w, moved) = [w EXCEPT !.f = g]
  BY DEF SettleManureDoses
<1>3. DOMAIN e = RowColumns /\ Alike(f, e)
  BY <1>1 DEF Alike, Shaped, RowColumns
<1> HIDE DEF e
<1>4. DOMAIN a = RowColumns /\ Alike(e, a)
  BY <1>3 DEF Alike, RowColumns, WriteAppliedShare
<1> HIDE DEF a
<1>5. Alike(a, g)
  BY <1>4 DEF Alike, RowColumns
<1> HIDE DEF g
<1>6. Alike(f, g)
  BY <1>3, <1>4, <1>5 DEF Alike
<1> QED BY <1>1, <1>2, <1>6, AlikeIsBooked, AlikeUnmoved, UnmovedStill

\* A share of the hay, and a meadow back to grass.
LEMMA MownUnmoved ==
  ASSUME NEW w, IsWorld(w)
  PROVE  Unmoved(w, LayMownShare(w)) /\ LayMownShare(w).f.kind = w.f.kind
<1> DEFINE f == w.f  grams == LaidNow(f, SeasonHay)  g == LayShare(f, grams, "hay")
           h == [w.b EXCEPT !.hay = @ + grams]  v == [w EXCEPT !.f = g, !.b = h]
<1>1. Shaped(w)
  BY WorldIsShaped
<1>2. CASE f.kind = "meadow" /\ f.phase = "harvest"
  <2>1. LayMownShare(w) = v
    BY <1>1, <1>2 DEF LayMownShare, Shaped
  <2> HIDE DEF grams
  <2>2. Grassed(f, g)
    BY <1>1, <1>2 DEF Grassed, LayShare, Shaped, RowColumns
  <2>3. /\ h.slot = w.b.slot /\ h.used = w.b.used /\ h.excused = w.b.excused /\ h.said = w.b.said
        /\ h.laid = w.b.laid /\ h.short = w.b.short /\ h.whole = w.b.whole
    BY <1>1 DEF Shaped
  <2> HIDE DEF g, h
  <2>4. v.f = g /\ v.b = h /\ v.sky = w.sky /\ v.day = w.day
    BY <1>1, ColumnsOf
  <2>5. SameBooked(f, g)
    BY <2>2, AlikeIsBooked
  <2> HIDE DEF v
  <2> QED BY <2>1, <2>2, <2>3, <2>4, <2>5 DEF Unmoved, Grassed
<1>3. CASE ~(f.kind = "meadow" /\ f.phase = "harvest")
  <2>1. LayMownShare(w) = w
    BY <1>3 DEF LayMownShare
  <2> QED BY <2>1, UnmovedStill
<1> QED BY <1>2, <1>3
LEMMA GrassUnmoved ==
  ASSUME NEW w, IsWorld(w), w.f.kind # "arable", NEW mown, NEW day
  PROVE  LET v == [w EXCEPT !.f = GrassAgain(@, mown, day)]
         IN Unmoved(w, v) /\ v.f.kind = w.f.kind
<1> DEFINE g == GrassAgain(w.f, mown, day)  v == [w EXCEPT !.f = g]
<1>1. Shaped(w)
  BY WorldIsShaped
<1>2. Grassed(w.f, g)
  BY <1>1 DEF Grassed, GrassAgain, NoReaping, Shaped, RowColumns
<1> HIDE DEF g
<1>3. Unmoved(w, v)
  BY <1>1, <1>2, AlikeIsBooked, AlikeUnmoved
<1>4. v.f.kind = w.f.kind
  BY <1>1, <1>2 DEF Grassed, Shaped
<1> HIDE DEF v
<1> QED BY <1>3, <1>4 DEF v, g

\* A phase opened is all that is changed of what the books ask about.
SameChain(f, g) ==
  /\ g.kind = f.kind /\ g.slots = f.slots /\ g.skips = f.skips
  /\ g.assigned = f.assigned /\ g.reaped_day = f.reaped_day
SameTold(b, c) ==
  c.slot = b.slot /\ c.used = b.used /\ c.excused = b.excused /\ c.said = b.said
LEMMA OpenedBooks ==
  ASSUME NEW w, Shaped(w), NEW phase
  PROVE  LET v == OpenPhase(w, phase)  f == w.f  g == v.f IN
         /\ v.sky = w.sky /\ v.day = w.day /\ Shaped(v)
         /\ SameChain(f, g) /\ g.phase = phase /\ g.crop = f.crop /\ g.dose = f.dose
         /\ g.laid_share = f.laid_share /\ g.laid_grams = f.laid_grams
         /\ g.sown_share = f.sown_share /\ g.summers = f.summers
         /\ g.fertility = f.fertility /\ g.stress = f.stress
         /\ phase # "sowing" => g.sown_day = f.sown_day
         /\ SameTold(w.b, v.b) /\ v.b.laid = w.b.laid /\ v.b.short = w.b.short
         /\ v.b.whole = IF phase = "harvest" /\ Arable(f) THEN Yield(f) ELSE 0
<1> DEFINE v == OpenPhase(w, phase)
           sown == IF phase = "sowing" THEN w.day ELSE w.f.sown_day
           reaping == IF phase = "harvest" THEN Parts ELSE 0
           whole == IF phase = "harvest" /\ Arable(w.f) THEN Yield(w.f) ELSE 0
           h == [w.b EXCEPT !.whole = whole]
           g == [w.f EXCEPT !.phase = phase, !.sown_day = sown, !.work = Parts,
                            !.harvest_work = reaping]
<1>1. v = [w EXCEPT !.f.phase = phase, !.f.sown_day = sown, !.f.work = Parts,
                    !.f.harvest_work = reaping, !.b.whole = whole]
  BY DEF OpenPhase, Shaped, RowColumns
<1>2. Shaped(v)
  BY OpenedIs
<1>3. phase # "sowing" => sown = w.f.sown_day
  OBVIOUS
<1> HIDE DEF v, sown, reaping, whole
<1>4. v.f = g /\ v.b = h /\ v.sky = w.sky /\ v.day = w.day
  BY <1>1 DEF Shaped, RowColumns
<1>5. /\ SameChain(w.f, g) /\ g.phase = phase /\ g.crop = w.f.crop /\ g.dose = w.f.dose
      /\ g.laid_share = w.f.laid_share /\ g.laid_grams = w.f.laid_grams
      /\ g.sown_share = w.f.sown_share /\ g.summers = w.f.summers
      /\ g.fertility = w.f.fertility /\ g.stress = w.f.stress /\ g.sown_day = sown
  BY DEF SameChain, Shaped, RowColumns
<1>6. SameTold(w.b, h) /\ h.laid = w.b.laid /\ h.short = w.b.short /\ h.whole = whole
  BY DEF SameTold, Shaped
<1> HIDE DEF g, h
<1> QED BY <1>2, <1>3, <1>4, <1>5, <1>6 DEF v, whole

\* What the column holds of the hands' work.
LEMMA HoldUnmoved ==
  ASSUME NEW w, IsWorld(w)
  PROVE  Unmoved(w, HoldCrewShare(w))
<1> DEFINE n == Least(w.f.work, Above(Parts, w.col))
<1>1. HoldCrewShare(w) = [w EXCEPT !.f.work = n]
  BY WorldIsShaped DEF HoldCrewShare, Shaped, RowColumns
<1> HIDE DEF n
<1> QED BY <1>1, WorkUnmoved

\* The cut: mown through, closed or begun.
LEMMA MowUnmoved ==
  ASSUME NEW w, IsWorld(w), Mowing(w)
  PROVE  Unmoved(w, MowMeadow(w)) /\ MowMeadow(w).f.kind = w.f.kind
<1> DEFINE a == [w EXCEPT !.f.work = 0]  b == LayMownShare(a)
           v == [b EXCEPT !.f = GrassAgain(@, TRUE, w.day)]
<1>1. 0 \in 0..Parts
  BY Numbers
<1>2. IsWorld(a) /\ a.f.kind = w.f.kind
  BY <1>1, WorkMoves DEF Mowing, Goes
<1>3. Unmoved(w, a)
  BY WorkUnmoved
<1>4. MowMeadow(w) = v
  BY DEF MowMeadow
<1> HIDE DEF a
<1>5. IsWorld(b)
  BY <1>2, LayMownGoes DEF Goes
<1>6. Unmoved(a, b) /\ b.f.kind = a.f.kind
  BY <1>2, MownUnmoved
<1> HIDE DEF b
<1>7. Unmoved(b, v) /\ v.f.kind = b.f.kind
  <2>1. b.f.kind # "arable"
    BY <1>2, <1>6 DEF Mowing
  <2> QED BY <1>5, <2>1, GrassUnmoved, ZenonT(60)
<1> HIDE DEF v
<1>8. Unmoved(w, b)
  BY <1>3, <1>6, UnmovedOn
<1> QED BY <1>2, <1>4, <1>6, <1>7, <1>8, UnmovedOn
LEMMA CloseUnmoved ==
  ASSUME NEW w, IsWorld(w), Mowing(w)
  PROVE  Unmoved(w, CloseMeadowCut(w)) /\ CloseMeadowCut(w).f.kind = w.f.kind
<1> DEFINE b == LayMownShare(w)  mown == b.f.laid_share > 0
           v == [b EXCEPT !.f = GrassAgain(@, mown, w.day)]
<1>1. IsWorld(b)
  BY LayMownGoes DEF Goes
<1>2. Unmoved(w, b) /\ b.f.kind = w.f.kind
  BY MownUnmoved
<1>3. CloseMeadowCut(w) = v
  BY <1>1, WorldIsShaped DEF CloseMeadowCut, Shaped
<1> HIDE DEF b, mown
<1>4. Unmoved(b, v) /\ v.f.kind = b.f.kind
  BY <1>1, <1>2, GrassUnmoved DEF Mowing
<1> HIDE DEF v
<1> QED BY <1>2, <1>3, <1>4, UnmovedOn
LEMMA CutUnmoved ==
  ASSUME NEW w, IsWorld(w), w.f.kind # "arable"
  PROVE  Unmoved(w, OpenPhase(w, "harvest"))
<1> DEFINE v == OpenPhase(w, "harvest")
<1>1. /\ v.sky = w.sky /\ v.day = w.day /\ SameChain(w.f, v.f)
      /\ SameTold(w.b, v.b) /\ v.b.laid = w.b.laid /\ v.b.short = w.b.short
  BY OpenedBooks, WorldIsShaped
<1> HIDE DEF v
<1>2. SameBooked(w.f, v.f)
  BY <1>1 DEF SameBooked, SameChain
<1>3. ~Reaping(w)
  BY DEF Reaping
<1> QED BY <1>1, <1>2, <1>3 DEF Unmoved, SameTold, v
LEMMA MeadowUnmoved ==
  ASSUME NEW w, IsWorld(w), w.f.kind = "meadow"
  PROVE  Unmoved(w, RunMeadow(w))
<1> DEFINE closing == OpensCut(w) /\ w.f.phase = "harvest"
           u == IF closing THEN CloseMeadowCut(w) ELSE w  v == RunMeadow(w)
<1>1. IsWorld(u) /\ Unmoved(w, u) /\ u.f.kind = "meadow"
  <2>1. CASE closing
    <3>1. Mowing(w)
      BY <2>1 DEF Mowing
    <3>2. IsWorld(CloseMeadowCut(w))
      BY <3>1, CloseCutGoes DEF Goes
    <3> QED BY <2>1, <3>1, <3>2, CloseUnmoved
  <2>2. CASE ~closing
    BY <2>2, UnmovedStill
  <2> QED BY <2>1, <2>2
<1>2. v = u \/ v = OpenPhase(u, "harvest")
  <2>1. \/ v = (IF closing THEN CloseMeadowCut(w) ELSE w)
        \/ v = OpenPhase(IF closing THEN CloseMeadowCut(w) ELSE w, "harvest")
    BY DEF RunMeadow, OpensCut
  <2> QED BY <2>1
<1> HIDE DEF u, v
<1>3. Unmoved(u, OpenPhase(u, "harvest"))
  BY <1>1, CutUnmoved
<1>4. Unmoved(w, v)
  BY <1>1, <1>2, <1>3, UnmovedOn
<1> QED BY <1>4 DEF v
LEMMA SeasonsEndUnmoved ==
  ASSUME NEW w, IsWorld(w)
  PROVE  Unmoved(w, CloseMeadowCutsAtSeasonsEnd(w))
<1> DEFINE a == LayMownShare(w)  v == CloseMeadowCutsAtSeasonsEnd(w)
<1>1. v = w \/ (Mowing(w) /\ v = CloseMeadowCut(a))
  BY DEF CloseMeadowCutsAtSeasonsEnd, Mowing
<1>2. IsWorld(a) /\ (Mowing(w) => Mowing(a))
  <2>1. Goes(w, a, w.day) /\ SameStage(w.f, a.f)
    BY LayMownGoes
  <2> QED BY <2>1 DEF Goes, SameStage, Mowing
<1>3. Unmoved(w, a)
  BY MownUnmoved
<1> HIDE DEF a, v
<1>4. Mowing(w) => Unmoved(a, CloseMeadowCut(a))
  BY <1>2, CloseUnmoved
<1>5. Unmoved(w, v)
  BY <1>1, <1>3, <1>4, UnmovedOn, UnmovedStill
<1> QED BY <1>5 DEF v

-----------------------------------------------------------------------------
(* The grams of a reaping.                                                 *)

\* The share of a day is laid so.
LEMMA ShareIsLaid ==
  ASSUME NEW f, Typed(f), Laying(f), f.phase = "harvest", NEW whole \in Nat,
         SharesLaid(whole, f.laid_share, f.laid_grams)
  PROVE  LET grams == LaidNow(f, whole)
             share == IF MownShareNow(f) > f.laid_share THEN MownShareNow(f) ELSE f.laid_share
         IN /\ grams \in Nat /\ share \in 0..Parts
            /\ SharesLaid(whole, share, f.laid_grams + grams)
            /\ f.work = 0 => share = Parts
<1> DEFINE s == f.laid_share  g == f.laid_grams  m == MownShareNow(f)  W == whole
           P == Parts  grams == LaidNow(f, W)  share == IF m > s THEN m ELSE s  h == g + grams
<1>1. /\ s \in 0..P /\ g \in Nat /\ m \in 0..P /\ W \in Nat /\ P \in Nat /\ P > 0
      /\ f.harvest_work = P /\ grams \in Nat /\ (f.work = 0 => m = P)
  BY Numbers, LaidNowIs DEF Laying, MownShareNow
<1>2. /\ g * P <= W * s /\ W * s <= g * P + (P - 1) * s /\ (s = P => g = W)
  BY DEF SharesLaid
<1>3. grams = IF m > s /\ m = P THEN Above(W, g)
              ELSE IF m <= s THEN 0 ELSE (W * (m - s)) \div P
  BY <1>1 DEF LaidNow
<1> HIDE DEF s, g, m, W, P, grams
<1>4. (h * P <= W * share /\ W * share <= h * P + (P - 1) * share /\ (share = P => h = W))
      => SharesLaid(whole, share, h)
  BY DEF SharesLaid, W, P
<1>5. CASE m > s /\ m = P
  <2>1. Above(W, g) = (IF g <= W THEN W - g ELSE 0)
    BY <1>1 DEF Above
  <2>2. ASSUME g > W PROVE FALSE
    <3> DEFINE d == g - (W + 1)  e == P - s
    <3>1. d \in Nat /\ g = (W + 1) + d /\ e \in Nat /\ P = s + e
      BY <1>1, <2>2
    <3> HIDE DEF d, e
    <3>2. (W + 1) \in Nat /\ g * P = (W + 1) * P + d * P /\ (W + 1) * P = W * P + 1 * P
          /\ d * P \in Nat /\ W * P = W * (s + e) /\ W * (s + e) = W * s + W * e
          /\ W * e \in Nat /\ W * s \in Nat /\ 1 * P = P
      BY <1>1, <3>1, Products
    <3> QED BY <1>1, <1>2, <3>1, <3>2
  <2>3. h = W /\ share = P
    BY <1>1, <1>3, <1>5, <2>1, <2>2
  <2>4. (P - 1) \in Nat /\ (P - 1) * P \in Nat /\ W * P \in Nat
    BY <1>1, Products
  <2>5. h * P <= W * share /\ W * share <= h * P + (P - 1) * share
    BY <2>3, <2>4
  <2> QED BY <1>1, <1>4, <2>3, <2>5 DEF s, g, m, W, P, grams
<1>6. CASE m <= s
  <2>1. h = g /\ share = s /\ (m = P => s = P)
    BY <1>1, <1>3, <1>6
  <2> QED BY <1>1, <1>2, <1>4, <2>1 DEF s, g, m, W, P, grams
<1>7. CASE m > s /\ m # P
  <2> DEFINE e == m - s  i == W * e  q == i \div P  o == P - 1
  <2>1. e \in Nat /\ e > 0 /\ m = s + e /\ o \in Nat /\ P = o + 1
    BY <1>1, <1>7
  <2>2. grams = q
    BY <1>1, <1>3, <1>7
  <2> HIDE DEF e, o
  <2>3. i \in Nat
    BY <1>1, <2>1, Products
  <2> HIDE DEF i
  <2>4. q \in Nat /\ q * P <= i /\ i <= q * P + o
    BY <1>1, <2>1, <2>3
  <2> HIDE DEF q
  <2>5. /\ (g + q) * P = g * P + q * P /\ W * m = W * s + i /\ o * m = o * s + o * e
        /\ g * P \in Nat /\ W * s \in Nat /\ q * P \in Nat /\ o * s \in Nat /\ o * e \in Nat
    BY <1>1, <2>1, <2>4, Products DEF i
  <2>6. o <= o * e
    <3> DEFINE c == e - 1
    <3>1. c \in Nat /\ e = c + 1
      BY <2>1
    <3> HIDE DEF c
    <3>2. o * e = o * c + o * 1 /\ o * c \in Nat /\ o * 1 = o
      BY <2>1, <3>1, Products
    <3> QED BY <2>1, <3>2
  <2>7. (P - 1) * s = o * s /\ (P - 1) * m = o * m
    BY <2>1, <1>1
  <2>8. (g + q) * P <= W * m /\ W * m <= (g + q) * P + (P - 1) * m
    BY <1>2, <2>3, <2>4, <2>1, <2>5, <2>6, <2>7
  <2>9. h = g + q /\ share = m /\ m # P
    BY <1>1, <1>7, <2>2
  <2> QED BY <1>1, <1>4, <2>8, <2>9 DEF s, g, m, W, P, grams
<1> QED BY <1>1, <1>5, <1>6, <1>7

\* A step that leaves the chain, its stage and what was told of it alone
\* carries the books, if it keeps the grams.
SameStand(w, v) ==
  /\ v.sky = w.sky /\ v.day = w.day /\ SameChain(w.f, v.f) /\ SameTold(w.b, v.b)
  /\ v.f.phase = w.f.phase /\ v.f.crop = w.f.crop
LEMMA StandCarries ==
  ASSUME NEW w, NEW v, SameStand(w, v),
         Grams(w) /\ Rounded(w) => Grams(v) /\ Rounded(v), NEW day
  PROVE  Carries(w, v, day) /\ Foretells(w, v)
<1> DEFINE f == w.f  g == v.f  m == MonthOf(day)
<1>1. SameChain(f, g) /\ SameTold(w.b, v.b) /\ g.phase = f.phase /\ g.crop = f.crop
  BY DEF SameStand
<1> HIDE DEF m
<1>2. SlotsIn(f, w.b, m) => SlotsIn(g, v.b, m)
  BY <1>1
  DEF SlotsIn, Prepared, EarlySown, FirstUsed, SecondUsed, Stands, SameChain, SameTold
<1>3. Dated(f, day) => Dated(g, day)
  BY <1>1 DEF Dated, SameChain
<1>4. Announced(w, day) => Announced(v, day)
  BY <1>1 DEF Announced, ArrivingWinterSlotLost, HasRotation, SameChain, SameTold
<1>5. Foretold(w) => Foretold(v)
  BY <1>1 DEF Foretold, StillReaped, WinterSlotLost, HasRotation, SameChain, SameTold,
              SameStand
<1> QED BY <1>2, <1>3, <1>4, <1>5 DEF Carries, Foretells, Books, m

\* A share laid of a reaping.
LEMMA LaidIs ==
  ASSUME NEW w, IsWorld(w), Reaping(w)
  PROVE  LET v == LayReapedShare(w) IN
         /\ SameStand(w, v) /\ v.b.short = w.b.short /\ v.b.whole = w.b.whole
         /\ Yield(v.f) = Yield(w.f) /\ v.f.work = w.f.work
         /\ Grams(w) => Grams(v) /\ (w.f.work = 0 => v.f.laid_share = Parts)
<1> DEFINE f == w.f  v == LayReapedShare(w)  grams == LaidNow(f, Yield(f))
           share == IF MownShareNow(f) > f.laid_share THEN MownShareNow(f) ELSE f.laid_share
           load == IF grams > 0 THEN f.crop ELSE f.heap
           sum == f.laid_grams + grams  told == w.b.laid + grams
           g == [f EXCEPT !.laid_share = share, !.laid_grams = sum, !.heap = load]
           h == [w.b EXCEPT !.laid = told]
<1>1. IsRow(f) /\ Shaped(w) /\ f.kind = "arable" /\ f.phase = "harvest"
  BY WorldIsShaped DEF IsWorld, Reaping
<1>2. f.crop # None
  BY <1>1 DEF IsRow, Standing
<1>3. v = [w EXCEPT !.f = g, !.b = h]
  BY <1>1, <1>2 DEF LayReapedShare, LayShare, Arable, Shaped, RowColumns
<1>4. Yield(f) \in Nat
  BY <1>1, <1>2, YieldIs DEF IsRow
<1>5. ASSUME Grams(w)
      PROVE  SharesLaid(w.b.whole, share, sum) /\ told = sum /\ (f.work = 0 => share = Parts)
  <2>1. w.b.laid = f.laid_grams /\ w.b.whole = Yield(f)
        /\ SharesLaid(w.b.whole, f.laid_share, f.laid_grams)
    BY <1>1, <1>5 DEF Grams, GramsIn, Reaping
  <2> QED BY <1>1, <1>4, <2>1, ShareIsLaid DEF IsRow
<1> HIDE DEF v, share, load, sum, told, grams
<1>6. /\ SameChain(f, g) /\ g.phase = f.phase /\ g.crop = f.crop
      /\ g.laid_share = share /\ g.laid_grams = sum
      /\ g.sown_share = f.sown_share /\ g.fertility = f.fertility /\ g.summers = f.summers
      /\ g.stress = f.stress /\ g.sown_day = f.sown_day /\ g.work = f.work
  BY <1>1 DEF SameChain, Shaped, RowColumns
<1>7. SameTold(w.b, h) /\ h.laid = told /\ h.short = w.b.short /\ h.whole = w.b.whole
  BY <1>1 DEF SameTold, Shaped
<1> HIDE DEF g, h
<1>8. v.f = g /\ v.b = h /\ v.sky = w.sky /\ v.day = w.day
  BY <1>1, <1>3, ColumnsOf
<1>9. Yield(g) = Yield(f)
  BY <1>6, YieldStays
<1>10. SameStand(w, v)
  BY <1>6, <1>7, <1>8 DEF SameStand
<1>11. Grams(w) => Grams(v)
  <2> SUFFICES ASSUME Grams(w) PROVE Grams(v)
    OBVIOUS
  <2>1. w.b.whole = Yield(f)
    BY <1>1 DEF Grams, GramsIn, Reaping
  <2> QED BY <1>1, <1>5, <1>6, <1>7, <1>8, <1>9, <2>1 DEF Grams, GramsIn, Reaping, SameChain
<1> QED BY <1>5, <1>6, <1>7, <1>8, <1>9, <1>10, <1>11 DEF v

LEMMA LaidCarries ==
  ASSUME NEW w, IsWorld(w), NEW day
  PROVE  LET v == LayReapedShare(w)
         IN Carries(w, v, day) /\ Foretells(w, v) /\ SameStand(w, v)
<1> DEFINE v == LayReapedShare(w)
<1>1. CASE Reaping(w)
  <2>1. SameStand(w, v) /\ v.b.short = w.b.short /\ (Grams(w) => Grams(v))
    BY <1>1, LaidIs
  <2> HIDE DEF v
  <2>2. Rounded(w) => Rounded(v)
    BY <2>1 DEF Rounded, SameStand
  <2>3. Carries(w, v, day) /\ Foretells(w, v)
    BY <2>1, <2>2, StandCarries
  <2> QED BY <2>1, <2>3 DEF v
<1>2. CASE ~Reaping(w)
  <2>1. v = w
    BY <1>2 DEF LayReapedShare, Reaping, Arable
  <2> QED BY <2>1 DEF Carries, Foretells, SameStand, SameChain, SameTold
<1> QED BY <1>1, <1>2

-----------------------------------------------------------------------------
(* Ground taken into work, as the books have it.                           *)

\* What is done with the dose then does not touch the chain.
LEMMA DosedChain ==
  ASSUME NEW f, DOMAIN f = RowColumns, NEW dung
  PROVE  LET a == CancelLateManure(f, dung)  p == PaidDose(a)
         IN DOMAIN p = RowColumns /\ SameChain(f, p)
<1> DEFINE late == IF LateSpreadFree THEN Least(f.dose.due, dung) ELSE 0
           e == [f EXCEPT !.dose.due = @ - late]  x == WriteAppliedShare(e)
           s == IF late = 0 THEN f ELSE x
           a == CancelLateManure(f, dung)
<1>1. DOMAIN e = RowColumns /\ SameChain(f, e)
  BY DEF RowColumns, SameChain
<1>2. a = IF f.dose.named THEN [s EXCEPT !.dose = NoDose] ELSE f
  BY DEF CancelLateManure
<1> HIDE DEF e, late, a
<1>3. DOMAIN x = RowColumns /\ SameChain(e, x)
  BY <1>1 DEF RowColumns, SameChain, WriteAppliedShare
<1> HIDE DEF x
<1>4. DOMAIN s = RowColumns /\ SameChain(f, s)
  BY <1>1, <1>3 DEF SameChain
<1> HIDE DEF s
<1>5. DOMAIN a = RowColumns /\ SameChain(f, a)
  BY <1>2, <1>4 DEF RowColumns, SameChain
<1> HIDE DEF a
<1>6. DOMAIN PaidDose(a) = RowColumns /\ SameChain(a, PaidDose(a))
  BY <1>5 DEF PaidDose, RowColumns, SameChain
<1> QED BY <1>5, <1>6 DEF SameChain, a

LEMMA PlowingBooks ==
  ASSUME NEW w, Shaped(w), NEW slot, NEW start, NEW dung
  PROVE  LET v == OpenPlowing(w, slot, start, dung)  f == w.f  g == v.f
             crop == IF slot = Fallow THEN None ELSE f.slots[slot]
         IN /\ v.sky = w.sky /\ v.day = w.day
            /\ g.kind = f.kind /\ g.slots = f.slots /\ g.assigned = f.assigned
            /\ g.reaped_day = f.reaped_day /\ g.crop = crop
            /\ g.phase \in {"plowing", "harrowing"}
            /\ g.skips = (f.skips /\ crop # None /\ crop = f.slots[1] /\ Winter(crop))
            /\ v.b.slot = slot /\ v.b.used = w.b.used /\ v.b.excused = w.b.excused
            /\ v.b.said = w.b.said /\ v.b.laid = w.b.laid /\ v.b.short = w.b.short
<1> DEFINE crop == IF slot = Fallow THEN None ELSE w.f.slots[slot]
           black == start = "black_fallow"
           harrows == black \/ w.f.plowed
           rest == IF ~harrows /\ w.f.furrowing /\ w.f.work > 0 THEN w.f.work ELSE Parts
           phase == IF harrows THEN "harrowing" ELSE "plowing"
           a == CancelLateManure(w.f, dung)
           p == PaidDose(a)
           skips == p.skips /\ crop # None /\ crop = p.slots[1] /\ Winter(crop)
           plowed == p.plowed /\ black
           o == [p EXCEPT !.furrowing = FALSE, !.crop = crop, !.furrow_day = Never,
                          !.skips = skips, !.rest_owed = black, !.plowed = plowed]
           history == [w.b EXCEPT !.slot = slot]
           u == [w EXCEPT !.f = o, !.b = history]
           x == OpenPhase(u, phase)
           g == [x.f EXCEPT !.work = rest]
           v == [x EXCEPT !.f.work = rest]
<1>1. DOMAIN p = RowColumns /\ SameChain(w.f, p)
  BY DosedChain DEF Shaped
<1>2. OpenPlowing(w, slot, start, dung) = v
  <2>1. o = [p EXCEPT
          !.furrowing = FALSE, !.crop = crop, !.furrow_day = Never,
          !.skips = @ /\ crop # None /\ crop = p.slots[1] /\ Winter(crop),
          !.rest_owed = black, !.plowed = @ /\ black]
    BY <1>1 DEF RowColumns
  <2>2. [w EXCEPT !.f = [p EXCEPT
          !.furrowing = FALSE, !.crop = crop, !.furrow_day = Never,
          !.skips = @ /\ crop # None /\ crop = p.slots[1] /\ Winter(crop),
          !.rest_owed = black, !.plowed = @ /\ black], !.b.slot = slot] = u
    <3> HIDE DEF o
    <3> QED BY <2>1 DEF Shaped
  <2> QED BY <2>2 DEF OpenPlowing, PaidDose
<1>3. phase \in {"plowing", "harrowing"} /\ phase # "harvest"
  OBVIOUS
<1>4. skips = (w.f.skips /\ crop # None /\ crop = w.f.slots[1] /\ Winter(crop))
  BY <1>1 DEF SameChain
<1> HIDE DEF crop, black, rest, phase, a, p, skips, plowed
<1>5. /\ DOMAIN o = RowColumns /\ o.kind = w.f.kind /\ o.slots = w.f.slots
      /\ o.assigned = w.f.assigned /\ o.reaped_day = w.f.reaped_day
      /\ o.crop = crop /\ o.skips = skips
  BY <1>1 DEF SameChain, RowColumns
<1>6. /\ DOMAIN history = DOMAIN w.b /\ history.slot = slot /\ history.used = w.b.used
      /\ history.excused = w.b.excused /\ history.said = w.b.said
      /\ history.laid = w.b.laid /\ history.short = w.b.short
  BY DEF Shaped
<1> HIDE DEF o, history
<1>7. u.f = o /\ u.b = history /\ u.sky = w.sky /\ u.day = w.day /\ Shaped(u)
  BY <1>5, <1>6 DEF Shaped
<1> HIDE DEF u
<1>8. /\ x.sky = u.sky /\ x.day = u.day /\ Shaped(x) /\ SameChain(o, x.f)
      /\ x.f.phase = phase /\ x.f.crop = o.crop
      /\ SameTold(history, x.b) /\ x.b.laid = history.laid /\ x.b.short = history.short
  BY <1>7, OpenedBooks
<1> HIDE DEF x
<1>9. v.f = g /\ v.b = x.b /\ v.sky = x.sky /\ v.day = x.day
  BY <1>8 DEF Shaped
<1>10. SameChain(x.f, g) /\ g.phase = x.f.phase /\ g.crop = x.f.crop
  BY <1>8 DEF SameChain, Shaped, RowColumns
<1> HIDE DEF v, g
<1> QED
  BY <1>2, <1>3, <1>4, <1>5, <1>6, <1>7, <1>8, <1>9, <1>10 DEF SameChain, SameTold, crop

\* The seasons of a crop, in the months of a year.
LEMMA SeasonIs ==
  ASSUME NEW c \in Crops, c # None
  PROVE  /\ Crop[c].from \in Nat /\ Crop[c].to \in Nat /\ Crop[c].reapFrom \in Nat
         /\ Crop[c].reapTo \in Nat /\ Crop[c].from <= Crop[c].to
         /\ Winter(c) <=> Crop[c].winter
         /\ Crop[c].winter => Crop[c].reapTo < Crop[c].from
         /\ ~Crop[c].winter => Crop[c].to < Crop[c].reapFrom
         /\ November \in Nat /\ Crop[c].to < November
         /\ WinterLastSowingMonth(c) \in Nat /\ WinterLastSowingMonth(c) < November
<1>1. c \in DOMAIN Crop /\ Crop[c].from \in Nat /\ Crop[c].to \in Nat /\ Crop[c].grace \in BOOLEAN
      /\ Crop[c].reapFrom \in Nat /\ Crop[c].reapTo \in Nat /\ Crop[c].winter \in BOOLEAN
  BY CropAssumption DEF Crops
<1>2. Crop[c].to + (IF Crop[c].grace THEN 1 ELSE 0) < November /\ November \in Nat
      /\ Crop[c].from <= Crop[c].to
      /\ (IF Crop[c].winter THEN Crop[c].reapTo < Crop[c].from ELSE Crop[c].to < Crop[c].reapFrom)
  BY <1>1, SeasonAssumption
<1>3. Winter(c) <=> Crop[c].winter
  BY DEF Winter
<1> DEFINE t == Crop[c].to  a == t + 1  n == MonthsPerYear
<1>4. a \in Nat /\ n \in Nat /\ n > 0
  BY <1>1, CalendarAssumption
<1> HIDE DEF a, n
<1>5. a % n \in Nat /\ a % n <= a
  <2> DEFINE r == a % n  q == a \div n
  <2>1. r \in Nat /\ q \in Nat /\ a = n * q + r
    BY <1>4
  <2> HIDE DEF r, q
  <2>2. n * q \in Nat
    BY <1>4, <2>1
  <2> QED BY <1>4, <2>1, <2>2 DEF r
<1>6. WinterLastSowingMonth(c) \in Nat /\ WinterLastSowingMonth(c) < November
  <2>1. WinterLastSowingMonth(c) = IF Crop[c].grace THEN a % n ELSE t
    BY DEF WinterLastSowingMonth, a, n
  <2>2. a = t + 1 /\ t \in Nat
    BY <1>1 DEF a
  <2> HIDE DEF t
  <2>3. t + (IF Crop[c].grace THEN 1 ELSE 0) < November
    BY <1>2 DEF t
  <2> QED BY <1>1, <1>2, <1>5, <2>1, <2>2, <2>3
<1> QED BY <1>1, <1>2, <1>3, <1>6

\* Nothing is sown, standing or reaped on the row.
Bare(f) == f.phase \notin {"sowing", "growing", "harvest"} \/ f.crop = None
LEMMA BareIs ==
  ASSUME NEW f, Bare(f)
  PROVE  /\ \A slot : ~Stands(f, slot)
         /\ ~StillReaped(f)
         /\ \A day : WinterSlotLost(f, day) <=> /\ Winter(f.slots[1]) /\ ~f.skips /\ f.assigned
                                                /\ ~ThisYear(f.reaped_day, day)
         /\ ArrivingWinterSlotLost(f) <=> Winter(f.slots[2]) /\ ~f.skips /\ f.assigned
BY DEF Bare, Stands, StillReaped, WinterSlotLost, ArrivingWinterSlotLost, HasRotation, Winter

\* A step of the work on such a row carries the books, if the slot it leaves
\* in preparation is.
LEMMA BareCarries ==
  ASSUME NEW w, NEW v, NEW day, Bare(w.f), Bare(v.f), w.f.kind = "arable",
         v.sky = w.sky, v.day = w.day, SameChain(w.f, v.f),
         v.b.slot \in 0..2, v.b.used = w.b.used, v.b.excused = w.b.excused, v.b.said = w.b.said,
         v.b.short = w.b.short, Grams(w) => Grams(v),
         SlotsIn(w.f, w.b, MonthOf(day)) /\ v.b.slot # 0 =>
           Prepared(v.f, v.b.slot, v.b.used, v.b.excused, MonthOf(day))
  PROVE  Carries(w, v, day) /\ Foretells(w, v)
<1> DEFINE f == w.f  g == v.f  m == MonthOf(day)
<1>1. SlotsIn(f, w.b, m) /\ v.b.slot # 0 => Prepared(g, v.b.slot, v.b.used, v.b.excused, m)
  OBVIOUS
<1>2. SlotsIn(f, w.b, m) => SlotsIn(g, v.b, m)
  <2> HIDE DEF m
  <2>1. SlotsIn(f, w.b, m) => w.b.used # 2 /\ (w.b.used = 1 => FirstUsed(g, w.b.excused, m))
    BY BareIs DEF SlotsIn, FirstUsed, SecondUsed, SameChain
  <2> QED BY <1>1, <2>1 DEF SlotsIn, SameChain
<1>3. Dated(f, day) => Dated(g, day)
  BY DEF Dated, SameChain
<1>4. Rounded(w) => Rounded(v)
  BY DEF Rounded
<1>5. Announced(w, day) => Announced(v, day)
  BY BareIs DEF Announced, SameChain
<1>6. Foretold(w) => Foretold(v)
  BY BareIs DEF Foretold, SameChain
<1> QED BY <1>2, <1>3, <1>4, <1>5, <1>6 DEF Carries, Foretells, Books

\* Ground is taken into work for the season whose turn it is: this year's only
\* while it is not used, the next year's only for its winter crop.
LEMMA PlowingCarries ==
  ASSUME NEW w, IsWorld(w), w.f.kind = "arable", w.f.phase # "harvest", Bare(w.f),
         NEW slot \in 0..2, NEW start, NEW dung, MonthOf(w.day) < November,
         slot # 0 => w.f.slots[slot] # None,
         slot = 0 /\ w.f.skips => ~Winter(w.f.slots[1]),
         slot = 1 => w.f.skips \/ (/\ ~Winter(w.f.slots[1])
                                   /\ MonthOf(w.day) <= Crop[w.f.slots[1]].to),
         slot = 2 => ~w.f.skips /\ Winter(w.f.slots[2])
  PROVE  LET v == OpenPlowing(w, slot, start, dung)
         IN Carries(w, v, w.day) /\ Foretells(w, v)
<1> DEFINE f == w.f  v == OpenPlowing(w, slot, start, dung)  g == v.f  m == MonthOf(w.day)
           crop == IF slot = Fallow THEN None ELSE f.slots[slot]
<1>1. /\ v.sky = w.sky /\ v.day = w.day
      /\ g.kind = f.kind /\ g.slots = f.slots /\ g.assigned = f.assigned
      /\ g.reaped_day = f.reaped_day /\ g.crop = crop
      /\ g.phase \in {"plowing", "harrowing"}
      /\ g.skips = (f.skips /\ crop # None /\ crop = f.slots[1] /\ Winter(crop))
      /\ v.b.slot = slot /\ v.b.used = w.b.used /\ v.b.excused = w.b.excused
      /\ v.b.said = w.b.said /\ v.b.laid = w.b.laid /\ v.b.short = w.b.short
  BY PlowingBooks, WorldIsShaped
<1>2. slot = Fallow => crop = None
  OBVIOUS
<1>3. slot # 0 => crop = f.slots[slot] /\ crop # None
  BY DEF Fallow
<1>4. m \in Nat /\ November \in Nat /\ IsRow(f) /\ (slot = 1 => Crop[f.slots[1]].to \in Nat)
  <2>1. IsRow(f) /\ f.slots[1] \in Crops
    BY SlotsAre DEF IsWorld, IsRow
  <2> QED BY <2>1, Dates, SeasonAssumption, CropIs DEF IsWorld
<1> HIDE DEF v, crop
<1>5. ASSUME SlotsIn(f, w.b, m) PROVE SlotsIn(g, v.b, m)
  <2> HIDE DEF m
  <2>0. w.b.excused \in Nat
    BY <1>5 DEF SlotsIn
  <2>1. /\ w.b.used \in {0, 1}
        /\ w.b.used = 1 => /\ f.slots[1] # None
                           /\ f.skips => Winter(f.slots[1]) /\ w.b.excused >= 1
    BY <1>5, BareIs DEF SlotsIn, FirstUsed, SecondUsed, Winter
  <2>2. w.b.used = 1 => Winter(f.slots[1]) \/ m > Crop[f.slots[1]].to
    BY <1>5, BareIs DEF SlotsIn, FirstUsed
  <2>3. w.b.used = 1 => FirstUsed(g, w.b.excused, m)
    <3>1. CASE w.b.used = 1 /\ f.skips
      <4>1. slot = 1
        BY <2>1, <3>1
      <4>2. g.skips /\ Winter(g.slots[1])
        BY <1>1, <1>3, <2>1, <3>1, <4>1
      <4> QED BY <2>1, <3>1, <4>2 DEF FirstUsed
    <3>2. CASE w.b.used = 1 /\ ~f.skips
      BY <1>1, <2>1, <2>2, <3>2 DEF FirstUsed
    <3> QED BY <3>1, <3>2
  <2>4. slot = 1 => w.b.used = 0 \/ f.skips
    BY <1>4, <2>1, <2>2 DEF m
  <2>5. slot # 0 => Prepared(g, slot, w.b.used, w.b.excused, m)
    <3>1. slot # 0 => slot > w.b.used \/ (g.skips /\ w.b.excused >= 1)
      <4>1. CASE slot = 1 /\ w.b.used = 1
        BY <1>1, <1>3, <2>1, <2>4, <4>1
      <4>2. CASE slot # 0 /\ ~(slot = 1 /\ w.b.used = 1)
        BY <2>1, <4>2
      <4> QED BY <4>1, <4>2
    <3>2. slot = 2 => ~g.skips /\ Winter(g.crop)
      <4>1. g.crop = crop /\ g.skips = (f.skips /\ crop # None /\ crop = f.slots[1] /\ Winter(crop))
        BY <1>1
      <4>2. slot = 2 => crop = f.slots[2]
        BY <1>3
      <4> HIDE DEF g, f
      <4> QED BY <4>1, <4>2 DEF f
    <3>3. g.skips => Winter(g.crop)
      BY <1>1
    <3>4. ~EarlySown(g, m)
      BY <1>1 DEF EarlySown
    <3> QED BY <1>1, <1>3, <3>1, <3>2, <3>3, <3>4 DEF Prepared
  <2> QED BY <1>1, <1>5, <2>0, <2>1, <2>3, <2>5 DEF SlotsIn
<1>6. Dated(f, w.day) => Dated(g, w.day)
  BY <1>1 DEF Dated
<1>7. Grams(w) => Grams(v)
  BY <1>1 DEF Grams, Reaping
<1>8. Rounded(w) => Rounded(v)
  BY <1>1 DEF Rounded
<1>9. Announced(w, w.day) => Announced(v, w.day)
  BY <1>1, <1>4 DEF Announced
<1>10. Foretold(w) => Foretold(v)
  <2>1. Bare(g)
    BY <1>1 DEF Bare
  <2>2. Winter(f.slots[1]) => (g.skips <=> f.skips)
    <3>1. CASE slot = 0
      BY <1>1, <3>1
    <3>2. CASE slot = 1
      BY <1>1, <1>3, <3>2
    <3>3. CASE slot = 2
      BY <1>1, <3>3
    <3> QED BY <3>1, <3>2, <3>3
  <2>3. WinterSlotLost(g, w.day) <=> WinterSlotLost(f, w.day)
    BY <1>1, <2>1, <2>2, BareIs
  <2> QED BY <1>1, <2>1, <2>3, BareIs DEF Foretold
<1> QED BY <1>5, <1>6, <1>7, <1>8, <1>9, <1>10 DEF Carries, Foretells, Books, v, m

\* The autumn's furrow is opened with no slot in preparation.
LEMMA ZyabCarries ==
  ASSUME NEW w, IsWorld(w), w.f.kind = "arable", w.f.phase = "idle"
  PROVE  LET v == OpenZyab(w) IN Carries(w, v, w.day) /\ Foretells(w, v)
<1> DEFINE o == [w.f EXCEPT !.crop = None, !.furrow_day = Never, !.furrowing = TRUE]
           u == [w EXCEPT !.f = o]
           v == OpenPhase(u, "plowing")
<1>1. Shaped(w)
  BY WorldIsShaped
<1>2. OpenZyab(w) = v
  BY <1>1 DEF OpenZyab, Shaped
<1>3. DOMAIN o = RowColumns /\ o.crop = None /\ SameChain(w.f, o)
  BY <1>1 DEF Shaped, RowColumns, SameChain
<1> HIDE DEF o
<1>4. u.f = o /\ u.b = w.b /\ u.sky = w.sky /\ u.day = w.day /\ Shaped(u)
  BY <1>1, <1>3 DEF Shaped
<1> HIDE DEF u
<1>5. /\ v.sky = u.sky /\ v.day = u.day /\ SameChain(o, v.f)
      /\ v.f.phase = "plowing" /\ v.f.crop = None
      /\ SameTold(w.b, v.b) /\ v.b.laid = w.b.laid /\ v.b.short = w.b.short
  BY <1>3, <1>4, OpenedBooks
<1> HIDE DEF v
<1>6. Bare(w.f) /\ Bare(v.f) /\ SameChain(w.f, v.f)
  BY <1>3, <1>5 DEF Bare, SameChain
<1>7. Grams(w) => Grams(v)
  BY <1>5 DEF Grams, Reaping
<1>8. ASSUME SlotsIn(w.f, w.b, MonthOf(w.day))
      PROVE  v.b.slot \in 0..2 /\ (v.b.slot # 0 => FALSE)
  BY <1>5, <1>8 DEF SlotsIn, Prepared, SameTold
<1>9. CASE v.b.slot \in 0..2
  <2>1. SlotsIn(w.f, w.b, MonthOf(w.day)) /\ v.b.slot # 0 =>
          Prepared(v.f, v.b.slot, v.b.used, v.b.excused, MonthOf(w.day))
    BY <1>8
  <2>2. v.sky = w.sky /\ v.day = w.day /\ v.b.used = w.b.used /\ v.b.excused = w.b.excused
        /\ v.b.said = w.b.said /\ v.b.short = w.b.short
    BY <1>4, <1>5 DEF SameTold
  <2> QED BY <1>2, <1>6, <1>7, <1>9, <2>1, <2>2, BareCarries
<1>10. CASE v.b.slot \notin 0..2
  <2>1. ~\E day : Books(w, day)
    BY <1>5, <1>10 DEF Books, SlotsIn, SameTold
  <2> QED BY <1>2, <2>1 DEF Carries, Foretells
<1> QED BY <1>9, <1>10

\* Idle ground (TrySow).
LEMMA TrySowCarries ==
  ASSUME NEW w, IsWorld(w), w.f.kind = "arable", w.f.phase = "idle", NEW in
  PROVE  LET v == TrySow(w, in) IN Carries(w, v, w.day) /\ Foretells(w, v)
<1> DEFINE f == w.f  v == TrySow(w, in)  m == MonthOf(w.day)
<1>1. /\ IsRow(f) /\ Bare(f) /\ f.slots[1] \in Crops /\ f.slots[2] \in Crops
      /\ m \in Nat /\ FallowMonth \in Nat /\ November \in Nat /\ FallowMonth < November
  <2>1. IsRow(f) /\ f.slots[1] \in Crops /\ f.slots[2] \in Crops
    BY SlotsAre DEF IsWorld, IsRow
  <2>2. Bare(f)
    BY DEF Bare
  <2> QED BY <2>1, <2>2, Dates, SeasonAssumption, Numbers DEF IsWorld
<1>2. \/ v = w
      \/ v = OpenZyab(w)
      \/ /\ v = OpenPlowing(w, Fallow, "ground", in.dung) /\ m = FallowMonth
         /\ f.slots[1] = None \/ ~f.skips
      \/ /\ v = OpenPlowing(w, 1, "ground", in.dung) /\ f.slots[1] # None
         /\ f.skips \/ ~Winter(f.slots[1])
         /\ ~(m > Crop[f.slots[1]].to)
      \/ /\ v = OpenPlowing(w, 2, "ground", in.dung) /\ ~f.skips /\ Winter(f.slots[2])
         /\ m <= WinterLastSowingMonth(f.slots[2])
  <2>1. \/ v = w
        \/ v = OpenZyab(w)
        \/ /\ v = OpenPlowing(w, Fallow, "ground", in.dung) /\ m = FallowMonth
           /\ f.slots[1] = None \/ WinterSlotLost(f, w.day)
        \/ /\ v = OpenPlowing(w, 1, "ground", in.dung) /\ f.slots[1] # None
           /\ f.skips \/ ~Winter(f.slots[1])
           /\ ~(m > Crop[f.slots[1]].to)
        \/ v = TrySowWinter(w, in.dung) /\ (~f.skips \/ WinterSlotLost(f, w.day))
    BY <1>1, CropIs DEF TrySow
  <2>2. \/ TrySowWinter(w, in.dung) = w
        \/ /\ TrySowWinter(w, in.dung) = OpenPlowing(w, 2, "ground", in.dung)
           /\ Winter(f.slots[2]) /\ m <= WinterLastSowingMonth(f.slots[2])
    BY Zenon DEF TrySowWinter, WinterWindowOpen
  <2>3. WinterSlotLost(f, w.day) => ~f.skips
    BY DEF WinterSlotLost
  <2> HIDE DEF v, m
  <2> QED BY Zenon, <2>1, <2>2, <2>3
<1> HIDE DEF v
<1>3. CASE v = w
  BY <1>3 DEF Carries, Foretells, v
<1>4. CASE v = OpenZyab(w)
  BY <1>4, ZyabCarries DEF v
<1>5. CASE /\ v = OpenPlowing(w, Fallow, "ground", in.dung) /\ m = FallowMonth
           /\ f.slots[1] = None \/ ~f.skips
  <2>1. MonthOf(w.day) < November /\ (0 = 0 /\ f.skips => ~Winter(f.slots[1]))
    BY <1>1, <1>5 DEF Winter
  <2>2. v = OpenPlowing(w, 0, "ground", in.dung)
    BY <1>5 DEF Fallow
  <2> QED BY <1>1, <2>1, <2>2, PlowingCarries DEF v
<1>6. CASE /\ v = OpenPlowing(w, 1, "ground", in.dung) /\ f.slots[1] # None
           /\ f.skips \/ ~Winter(f.slots[1])
           /\ ~(m > Crop[f.slots[1]].to)
  <2>1. MonthOf(w.day) < November /\ MonthOf(w.day) <= Crop[f.slots[1]].to
    BY <1>1, <1>6, SeasonIs
  <2> QED BY <1>1, <1>6, <2>1, PlowingCarries DEF v
<1>7. CASE /\ v = OpenPlowing(w, 2, "ground", in.dung) /\ ~f.skips /\ Winter(f.slots[2])
           /\ m <= WinterLastSowingMonth(f.slots[2])
  <2>1. f.slots[2] # None
    BY <1>7 DEF Winter
  <2>2. MonthOf(w.day) < November
    BY <1>1, <1>7, <2>1, SeasonIs
  <2> QED BY <1>1, <1>7, <2>1, <2>2, PlowingCarries DEF v
<1> QED BY <1>2, <1>3, <1>4, <1>5, <1>6, <1>7

\* A black fallow (TrySowOnBlackFallow).
LEMMA BlackFallowCarries ==
  ASSUME NEW w, IsWorld(w), w.f.kind = "arable", w.f.phase \in {"growing", "harvest"},
         w.f.crop = None, NEW dung
  PROVE  LET v == TrySowOnBlackFallow(w, dung)
         IN Carries(w, v, w.day) /\ Foretells(w, v)
<1> DEFINE f == w.f  v == TrySowOnBlackFallow(w, dung)  slot == NextSlot(f)
           m == MonthOf(w.day)
<1>1. /\ IsRow(f) /\ Bare(f) /\ f.phase # "harvest" /\ f.slots[1] \in Crops
      /\ f.slots[2] \in Crops /\ m \in Nat
  <2>1. IsRow(f) /\ f.slots[1] \in Crops /\ f.slots[2] \in Crops
    BY SlotsAre DEF IsWorld, IsRow
  <2>2. Bare(f) /\ f.phase # "harvest"
    BY <2>1 DEF Bare, IsRow, Standing
  <2> QED BY <2>1, <2>2, Dates DEF IsWorld
<1>2. slot = (IF f.skips THEN 1 ELSE 2)
  BY DEF NextSlot
<1>3. v = w \/ /\ v = OpenPlowing(w, slot, "black_fallow", dung) /\ Winter(f.slots[slot])
               /\ m <= WinterLastSowingMonth(f.slots[slot])
  BY DEF TrySowOnBlackFallow, WinterWindowOpen
<1> HIDE DEF v, slot
<1>4. CASE v = w
  BY <1>4 DEF Carries, Foretells, v
<1>5. CASE /\ v = OpenPlowing(w, slot, "black_fallow", dung) /\ Winter(f.slots[slot])
           /\ m <= WinterLastSowingMonth(f.slots[slot])
  <2>1. f.slots[slot] # None /\ f.slots[slot] \in Crops
    BY <1>1, <1>2, <1>5 DEF Winter
  <2>2. MonthOf(w.day) < November
    BY <1>1, <1>5, <2>1, SeasonIs
  <2>3. slot \in 0..2 /\ slot # 0 /\ (slot = 1 => f.skips) /\ (slot = 2 => ~f.skips)
    BY <1>2
  <2> QED BY <1>1, <1>5, <2>1, <2>2, <2>3, PlowingCarries DEF v
<1> QED BY <1>3, <1>4, <1>5

-----------------------------------------------------------------------------
(* The reaping and the snow, as the books have them.                       *)

\* A crop that is reaped, or that may be, was sown as the season it is: the
\* slot stays used when it is gone.
LEMMA UsedStays ==
  ASSUME NEW f, NEW b, NEW m \in Nat, SlotsIn(f, b, m), f.phase \in {"growing", "harvest"},
         f.crop \in Crops, f.crop # None,
         f.phase = "growing" => IF Winter(f.crop) THEN m <= Crop[f.crop].reapTo
                                ELSE m >= Crop[f.crop].reapFrom,
         NEW g, g.kind = f.kind, g.slots = f.slots, g.skips = f.skips,
         NEW c, c.slot = b.slot, c.used = b.used, c.excused = b.excused
  PROVE  SlotsIn(g, c, m)
<1>1. b.slot = 0
  BY DEF SlotsIn, Prepared
<1>2. /\ Crop[f.crop].from \in Nat /\ Crop[f.crop].to \in Nat
      /\ Crop[f.crop].reapFrom \in Nat /\ Crop[f.crop].reapTo \in Nat
      /\ Winter(f.crop) => Crop[f.crop].reapTo < Crop[f.crop].from
      /\ ~Winter(f.crop) => Crop[f.crop].to < Crop[f.crop].reapFrom
  BY SeasonIs
<1>3. ASSUME Winter(f.crop), f.phase = "growing" PROVE ~(m >= Crop[f.crop].from)
  BY <1>2, <1>3
<1>4. ASSUME ~Winter(f.crop), f.phase = "growing" PROVE m > Crop[f.crop].to
  BY <1>2, <1>4
<1>5. b.used # 2
  BY <1>3 DEF SlotsIn, SecondUsed, Stands
<1>6. b.used = 1 =>
        IF f.skips THEN Winter(f.slots[1]) /\ b.excused >= 1
        ELSE /\ f.slots[1] # None
             /\ Winter(f.slots[1]) \/ m > Crop[f.slots[1]].to
  BY <1>3, <1>4 DEF SlotsIn, FirstUsed, Stands
<1>7. b.used = 1 => FirstUsed(g, b.excused, m)
  BY <1>6 DEF FirstUsed
<1> QED BY <1>1, <1>5, <1>7 DEF SlotsIn

\* The reaping is opened: of the whole, and with nothing of it laid.
LEMMA ReapingCarries ==
  ASSUME NEW w, IsWorld(w), w.f.kind = "arable", w.f.phase = "growing", w.f.crop # None,
         ReapingMayOpen(w.f, w.day)
  PROVE  LET v == OpenPhase(w, "harvest") IN Carries(w, v, w.day) /\ Foretells(w, v)
<1> DEFINE f == w.f  v == OpenPhase(w, "harvest")  g == v.f  m == MonthOf(w.day)
<1>1. /\ v.sky = w.sky /\ v.day = w.day
      /\ SameChain(f, g) /\ g.phase = "harvest" /\ g.crop = f.crop
      /\ g.laid_share = f.laid_share /\ g.laid_grams = f.laid_grams
      /\ g.sown_share = f.sown_share /\ g.summers = f.summers
      /\ g.fertility = f.fertility /\ g.stress = f.stress /\ g.sown_day = f.sown_day
      /\ SameTold(w.b, v.b) /\ v.b.laid = w.b.laid /\ v.b.short = w.b.short
      /\ v.b.whole = Yield(f)
  BY OpenedBooks, WorldIsShaped DEF Arable
<1>2. IsRow(f) /\ f.crop \in Crops /\ m \in Nat /\ f.laid_share = 0 /\ f.laid_grams = 0
  BY Dates DEF IsWorld, IsRow, Typed, Laying
<1>3. /\ m >= Crop[f.crop].reapFrom /\ (Winter(f.crop) => m <= Crop[f.crop].reapTo)
      /\ Winter(f.crop) => ~(m >= November)
  <2>1. m >= Crop[f.crop].reapFrom /\ (Crop[f.crop].winter => m <= Crop[f.crop].reapTo)
    BY DEF ReapingMayOpen
  <2> QED BY <1>2, <2>1, SeasonIs
<1>4. Yield(f) \in Nat
  BY <1>2, YieldIs DEF IsRow
<1> HIDE DEF v, m
<1>5. SlotsIn(f, w.b, m) => SlotsIn(g, v.b, m)
  <2> HIDE DEF g, f
  <2>1. g.kind = f.kind /\ g.slots = f.slots /\ g.skips = f.skips
        /\ v.b.slot = w.b.slot /\ v.b.used = w.b.used /\ v.b.excused = w.b.excused
    BY <1>1 DEF SameChain, SameTold
  <2> QED BY <1>2, <1>3, <2>1, UsedStays DEF f
<1>6. Dated(f, w.day) => Dated(g, w.day)
  BY <1>1 DEF Dated, SameChain
<1>7. Grams(w) => Grams(v)
  <2>1. Yield(g) = Yield(f)
    BY <1>1, YieldStays
  <2>2. Grams(w) => w.b.laid = 0
    BY DEF Grams, Reaping
  <2>3. SharesLaid(Yield(f), 0, 0)
    <3> DEFINE y == Yield(f)
    <3>1. y \in Nat
      BY <1>4
    <3> HIDE DEF y
    <3>2. 0 * Parts = 0 /\ y * 0 = 0 /\ (Parts - 1) * 0 = 0 /\ 0 # Parts
      BY <3>1, Numbers
    <3>3. SharesLaid(y, 0, 0)
      BY <3>2 DEF SharesLaid
    <3> QED BY <3>3 DEF y
  <2> QED BY <1>1, <1>2, <2>1, <2>2, <2>3 DEF Grams, GramsIn, Reaping, SameChain
<1>8. Rounded(w) => Rounded(v)
  BY <1>1 DEF Rounded
<1>9. Announced(w, w.day) => Announced(v, w.day)
  <2> SUFFICES ASSUME Announced(w, w.day), w.b.said # "unasked"
               PROVE  ArrivingWinterSlotLost(g) <=> ArrivingWinterSlotLost(f)
    BY <1>1 DEF Announced, SameChain, SameTold
  <2>1. ~Winter(f.crop)
    BY <1>3 DEF Announced, m
  <2> QED BY <1>1, <2>1 DEF ArrivingWinterSlotLost, HasRotation, SameChain
<1>10. Foretold(w) => Foretold(v)
  BY <1>1 DEF Foretold, StillReaped, WinterSlotLost, HasRotation, SameChain, SameTold
<1> QED BY <1>5, <1>6, <1>7, <1>8, <1>9, <1>10 DEF Carries, Foretells, Books, v, m

\* What the snow leaves unsaid of a whole is less than a gram for every part.
LEMMA SnowRounds ==
  ASSUME NEW whole \in Nat, NEW share \in 0..Parts, NEW grams \in Nat,
         SharesLaid(whole, share, grams)
  PROVE  whole - grams - (whole * (Parts - share)) \div Parts \in 0..(Parts - 1)
<1> DEFINE P == Parts  W == whole  s == share  G == grams  e == P - s  i == W * e
           q == i \div P
<1>1. /\ P \in Nat /\ P > 0 /\ W \in Nat /\ s \in 0..P /\ G \in Nat
      /\ G * P <= W * s /\ W * s <= G * P + (P - 1) * s /\ (s = P => G = W)
  BY Numbers DEF SharesLaid
<1> HIDE DEF P, W, s, G
<1>2. e \in Nat /\ P = s + e
  BY <1>1
<1> HIDE DEF e
<1>3. i \in Nat
  BY <1>1, <1>2, Products
<1>4. W * P = W * s + i /\ W * s \in Nat /\ W * P \in Nat
  BY <1>1, <1>2, Products
<1> HIDE DEF i
<1>5. q \in Nat /\ q * P <= i /\ i <= q * P + (P - 1)
  BY <1>1, <1>3
<1> HIDE DEF q
<1>6. CASE s = P
  <2>1. e = 0
    BY <1>1, <1>2, <1>6
  <2>2. i = 0
    BY <1>1, <2>1 DEF i
  <2>3. q = 0
    <3>1. q > 0 => q * P > 0
      BY <1>1, <1>5, Products
    <3> QED BY <1>1, <1>5, <2>2, <3>1
  <2>4. W - G - q \in 0..(P - 1)
    BY <1>1, <1>6, <2>3
  <2> QED BY <2>4 DEF P, W, s, G, e, i, q
<1>7. CASE s # P
  <2> DEFINE o == P - 1  d == W - G - q
  <2>1. o \in Nat /\ P = o + 1 /\ s <= o /\ d \in Int
    BY <1>1, <1>5, <1>7
  <2>2. o * s + o <= o * P
    <3> DEFINE c == o - s
    <3>1. c \in Nat /\ o = s + c
      BY <1>1, <2>1
    <3> HIDE DEF c
    <3>2. o * P = o * o + o * 1 /\ o * 1 = o /\ o * o = o * (s + c) /\ o * (s + c) = o * s + o * c
          /\ o * c \in Nat /\ o * s \in Nat
      <4>1. o * (o + 1) = o * o + o * 1
        BY <2>1, Products
      <4>2. o * (s + c) = o * s + o * c /\ o * c \in Nat /\ o * s \in Nat
        BY <1>1, <2>1, <3>1, Products
      <4> QED BY <2>1, <3>1, <4>1, <4>2
    <3> QED BY <2>1, <3>2
  <2>3. d * P = W * P - G * P - q * P
    <3>1. W = d + (G + q)
      BY <1>1, <1>5, <2>1
    <3> HIDE DEF d
    <3>2. (d + (G + q)) * P = d * P + (G + q) * P
      BY <1>1, <1>5, <2>1
    <3>3. (G + q) * P = G * P + q * P
      BY <1>1, <1>5
    <3> QED BY <1>1, <1>5, <2>1, <3>1, <3>2, <3>3
  <2> HIDE DEF d
  <2>4. (P - 1) * s = o * s /\ G * P \in Nat /\ q * P \in Nat /\ o * s \in Nat /\ o * P \in Nat
        /\ d * P \in Int
    BY <1>1, <1>5, <2>1, Products
  <2>5. d * P >= 0 /\ d * P <= o * P
    BY <1>1, <1>3, <1>4, <1>5, <2>1, <2>2, <2>3, <2>4
  <2>6. d >= 0
    <3> SUFFICES ASSUME d < 0 PROVE FALSE
      BY <2>1
    <3> DEFINE n == 0 - d
    <3>1. n \in Nat /\ n > 0 /\ d = 0 - n
      BY <2>1
    <3> HIDE DEF n
    <3>2. n * P > 0 /\ n * P \in Nat /\ d * P = 0 - n * P
      BY <1>1, <3>1, Products
    <3> QED BY <2>4, <2>5, <3>2
  <2>7. d <= o
    <3> SUFFICES ASSUME d > o PROVE FALSE
      BY <2>1
    <3> DEFINE n == d - o
    <3>1. n \in Nat /\ n > 0 /\ d = o + n
      BY <2>1
    <3> HIDE DEF n
    <3>2. (o + n) * P = o * P + n * P /\ n * P > 0 /\ n * P \in Nat
      BY <1>1, <2>1, <3>1, Products
    <3> QED BY <2>4, <2>5, <3>1, <3>2
  <2>8. d \in 0..(P - 1)
    BY <2>1, <2>6, <2>7
  <2> QED BY <2>8 DEF d, P, W, s, G, e, i, q
<1> QED BY <1>6, <1>7

LEMMA NothingLaid ==
  ASSUME NEW whole \in Nat
  PROVE  SharesLaid(whole, 0, 0)
<1>1. 0 * Parts = 0 /\ whole * 0 = 0 /\ (Parts - 1) * 0 = 0 /\ 0 # Parts
  BY Numbers
<1> QED BY <1>1 DEF SharesLaid

\* The snow takes no winter crop, and none before its season of reaping
\* (LoseFieldToSnow).
LEMMA SnowCarries ==
  ASSUME NEW w, IsWorld(w), w.f.kind = "arable", w.f.phase \in {"growing", "harvest"},
         w.f.crop # None, ~Winter(w.f.crop), w.sky = "snow",
         MonthOf(w.day) >= Crop[w.f.crop].reapFrom
  PROVE  LET v == LoseFieldToSnow(w) IN Carries(w, v, w.day) /\ Foretells(w, v)
<1> DEFINE u == LayReapedShare(w)
<1>1. IsWorld(u) /\ Carries(w, u, w.day) /\ Foretells(w, u) /\ SameStand(w, u)
  BY LayReapedGoes, LaidCarries DEF Goes
<1>2. /\ u.f.kind = "arable" /\ u.f.phase \in {"growing", "harvest"} /\ u.f.crop # None
      /\ ~Winter(u.f.crop) /\ u.sky = "snow" /\ u.day = w.day
      /\ MonthOf(w.day) >= Crop[u.f.crop].reapFrom
  BY <1>1 DEF SameStand, SameChain
<1> DEFINE v == [u EXCEPT
                   !.f = LostUnderSnow(@),
                   !.b = EndReaping(@, IF u.f.phase = "harvest" THEN @.whole ELSE Yield(u.f),
                                    StandingYield(u.f))]
<1>3. LoseFieldToSnow(w) = v
  BY DEF LoseFieldToSnow
<1> HIDE DEF u
<1> DEFINE f == u.f  whole == IF f.phase = "harvest" THEN u.b.whole ELSE Yield(f)
           lost == StandingYield(f)  short == whole - u.b.laid - lost
           g == LostUnderSnow(f)  h == EndReaping(u.b, whole, lost)  m == MonthOf(w.day)
<1>4. Shaped(u) /\ IsRow(f) /\ f.crop \in Crops /\ m \in Nat
  BY <1>1, WorldIsShaped, Dates DEF IsWorld, IsRow, Typed
<1>5. v.f = g /\ v.b = h /\ v.sky = u.sky /\ v.day = u.day
  BY <1>4 DEF Shaped
<1>6. SameChain(f, g) /\ g.phase = "idle" /\ g.crop = None
  BY <1>4 DEF LostUnderSnow, NoReaping, SameChain, Shaped, RowColumns
<1>7. SameTold(u.b, h) /\ h.short = short /\ h.laid = 0
  BY <1>4 DEF EndReaping, SameTold, Shaped
<1>8. Grams(u) => short \in 0..(Parts - 1)
  <2>1. Yield(f) \in Nat
    BY <1>2, <1>4, YieldIs DEF IsRow
  <2>2. f.laid_share \in 0..Parts /\ f.laid_grams \in Nat
        /\ (f.phase = "growing" => f.laid_share = 0 /\ f.laid_grams = 0)
    BY <1>4 DEF IsRow, Laying
  <2>3. Grams(u) => /\ whole = Yield(f) /\ u.b.laid = f.laid_grams
                    /\ SharesLaid(Yield(f), f.laid_share, f.laid_grams)
    BY <1>2, <2>1, <2>2, NothingLaid DEF Grams, GramsIn, Reaping
  <2>4. lost = (Yield(f) * (Parts - f.laid_share)) \div Parts
    BY DEF StandingYield
  <2> HIDE DEF f, whole, lost
  <2> QED BY <2>1, <2>2, <2>3, <2>4, SnowRounds
<1> HIDE DEF v, g, h, whole, lost, short
<1>9. SlotsIn(f, u.b, m) => SlotsIn(g, h, m)
  <2>1. g.kind = f.kind /\ g.slots = f.slots /\ g.skips = f.skips
        /\ h.slot = u.b.slot /\ h.used = u.b.used /\ h.excused = u.b.excused
    BY <1>6, <1>7 DEF SameChain, SameTold
  <2> QED BY <1>2, <1>4, <2>1, UsedStays
<1>10. Dated(f, w.day) => Dated(g, w.day)
  BY <1>6 DEF Dated, SameChain
<1>11. Grams(v)
  BY <1>5, <1>6, <1>7 DEF Grams, Reaping
<1>12. Grams(u) => Rounded(v)
  <2>1. short \in 0..(Parts - 1) => short = 0 \/ short \in 1..(Parts - 1)
    BY Numbers
  <2> QED BY <1>2, <1>5, <1>7, <1>8, <2>1 DEF Rounded
<1>13. Bare(g) /\ ~StillReaped(f)
  BY <1>2, <1>6 DEF Bare, StillReaped
<1>14. Announced(u, w.day) => Announced(v, w.day)
  <2>1. ArrivingWinterSlotLost(f) <=> ArrivingWinterSlotLost(g)
    BY <1>2, <1>6, <1>13, BareIs DEF ArrivingWinterSlotLost, SameChain, HasRotation
  <2> QED BY <1>5, <1>6, <1>7, <2>1 DEF Announced, SameChain, SameTold
<1>15. Foretold(u) => Foretold(v)
  <2>1. WinterSlotLost(f, w.day) <=> WinterSlotLost(g, w.day)
    BY <1>2, <1>6, <1>13, BareIs DEF WinterSlotLost, SameChain, HasRotation
  <2> QED BY <1>2, <1>5, <1>6, <1>7, <1>13, <2>1 DEF Foretold, SameChain, SameTold
<1>16. Carries(u, v, w.day) /\ Foretells(u, v)
  BY <1>2, <1>5, <1>9, <1>10, <1>11, <1>12, <1>14, <1>15 DEF Carries, Foretells, Books, m
<1>17. Foretells(w, v)
  BY <1>1, <1>2, <1>16 DEF Foretells, Carries
<1> QED BY <1>1, <1>3, <1>16, <1>17, CarriesOn

\* A reaping ends when its whole is laid (FinishHarvest).
LEMMA HarvestCarries ==
  ASSUME NEW w, IsWorld(w), Reaping(w), w.f.work = 0
  PROVE  LET v == FinishHarvest(w) IN Carries(w, v, w.day)
<1> DEFINE u == LayReapedShare(w)
<1>1. /\ IsWorld(u) /\ Carries(w, u, w.day) /\ SameStand(w, u)
      /\ Grams(w) => Grams(u) /\ u.f.laid_share = Parts
  BY LayReapedGoes, LaidCarries, LaidIs DEF Goes
<1>2. u.f.kind = "arable" /\ u.f.phase = "harvest" /\ u.sky = w.sky /\ u.day = w.day
  BY <1>1 DEF SameStand, SameChain, Reaping
<1> DEFINE v == [u EXCEPT !.f = Reaped(Settled(@, w.day), w.day),
                          !.b = EndReaping(@, @.whole, 0)]
<1>3. FinishHarvest(w) = v
  <2>1. w.f.crop # None /\ w.f.kind # "meadow"
    BY DEF Reaping, IsWorld, IsRow, Standing
  <2> QED BY <2>1 DEF FinishHarvest, Harvest
<1> HIDE DEF u
<1> DEFINE f == u.f  e == Settled(f, w.day)  g == Reaped(e, w.day)
           h == EndReaping(u.b, u.b.whole, 0)  m == MonthOf(w.day)
<1>4. Shaped(u) /\ IsRow(f) /\ f.crop \in Crops /\ f.crop # None /\ m \in Nat
  BY <1>1, <1>2, WorldIsShaped, Dates DEF IsWorld, IsRow, Typed, Standing
<1>5. v.f = g /\ v.b = h /\ v.sky = u.sky /\ v.day = u.day
  BY <1>4 DEF Shaped
<1>6. DOMAIN e = RowColumns /\ SameChain(f, e) /\ e.crop = f.crop
  BY <1>4 DEF Settled, NoReaping, SameChain, Shaped, RowColumns
<1> HIDE DEF e
<1>7. /\ g.kind = f.kind /\ g.slots = f.slots /\ g.skips = f.skips /\ g.assigned = f.assigned
      /\ \/ Stays(e) /\ g.phase = "growing" /\ g.crop = f.crop /\ g.reaped_day = f.reaped_day
         \/ g.phase = "idle" /\ g.crop = None /\ g.reaped_day = w.day
  <2>1. CASE Stays(e)
    BY <1>6, <2>1 DEF Reaped, SameChain, RowColumns
  <2>2. CASE ~Stays(e)
    BY <1>6, <2>2 DEF Reaped, SameChain, RowColumns
  <2> QED BY <2>1, <2>2
<1>8. SameTold(u.b, h) /\ h.short = u.b.whole - u.b.laid - 0 /\ h.laid = 0
  BY <1>4 DEF EndReaping, SameTold, Shaped
<1>9. Grams(u) /\ u.f.laid_share = Parts => h.short = 0
  <2>1. Yield(f) \in Nat
    BY <1>4, YieldIs DEF IsRow
  <2>2. Grams(u) /\ u.f.laid_share = Parts => u.b.whole = Yield(f) /\ u.b.laid = u.b.whole
    BY <1>2 DEF Grams, GramsIn, Reaping, SharesLaid
  <2> QED BY <1>8, <2>1, <2>2
<1>10. Stays(e) => ~Winter(f.crop)
  BY <1>4, <1>6, CropIs DEF Stays
<1> HIDE DEF v, g, h
<1>11. SlotsIn(f, u.b, m) => SlotsIn(g, h, m)
  <2>1. g.kind = f.kind /\ g.slots = f.slots /\ g.skips = f.skips
        /\ h.slot = u.b.slot /\ h.used = u.b.used /\ h.excused = u.b.excused
    BY <1>7, <1>8 DEF SameTold
  <2> QED BY <1>2, <1>4, <2>1, UsedStays
<1>12. Dated(f, w.day) => Dated(g, w.day)
  <2>1. YearOf(w.day) \in Nat
    BY Dates DEF IsWorld
  <2> QED BY <1>7, <2>1 DEF Dated
<1>13. Grams(v)
  BY <1>5, <1>7, <1>8 DEF Grams, Reaping
<1>14. Grams(u) /\ u.f.laid_share = Parts => Rounded(v)
  BY <1>5, <1>9 DEF Rounded
<1>15. Announced(u, w.day) => Announced(v, w.day)
  <2>1. ArrivingWinterSlotLost(f) <=> ArrivingWinterSlotLost(g)
    BY <1>2, <1>7, <1>10 DEF ArrivingWinterSlotLost, HasRotation
  <2> QED BY <1>5, <1>7, <1>8, <2>1 DEF Announced, SameTold
<1>16. Books(w, w.day) => Books(v, w.day)
  BY <1>1, <1>5, <1>11, <1>12, <1>13, <1>14 DEF Carries, Books, m
<1>17. Books(w, w.day) /\ Announced(w, w.day) => Announced(v, w.day)
  BY <1>1, <1>15 DEF Carries
<1> QED BY <1>3, <1>16, <1>17 DEF Carries

-----------------------------------------------------------------------------
(* The phases, as the books have them.                                     *)

\* A sowing done, or a fallow's furrow harrowed.
LEMMA SownBooks ==
  ASSUME NEW w, Shaped(w), NEW seed
  PROVE  LET v == FinishSowing(w, seed)  f == w.f  g == v.f  b == w.b  c == v.b IN
         /\ v.sky = w.sky /\ v.day = w.day /\ SameChain(f, g)
         /\ g.phase = "growing" /\ g.crop = f.crop
         /\ c.said = b.said /\ c.laid = b.laid /\ c.short = b.short
         /\ IF f.crop = None \/ b.slot = 0 THEN SameTold(b, c)
            ELSE /\ c.slot = 0 /\ c.used = b.slot
                 /\ c.excused = (IF b.slot <= b.used THEN b.excused - 1 ELSE b.excused)
<1> DEFINE f == w.f  rests == f.rest_owed /\ f.crop # None
           r == IF rests THEN Rest(f) ELSE f
           e == [r EXCEPT !.furrow_day = Never, !.rest_owed = FALSE, !.phase = "growing",
                          !.work = 0]
           share == IF Crop[f.crop].seed = 0 THEN 2 ELSE seed
           summers == IF Ages(f.crop) THEN 1 ELSE 0
           s == [e EXCEPT !.sown_share = share, !.summers = summers, !.stress = 0]
           told == IF rests THEN w.b.rests + 1 ELSE w.b.rests
           c == [w.b EXCEPT !.rests = told]
           h == Sown(c)
<1>1. DOMAIN r = RowColumns /\ SameChain(f, r) /\ r.crop = f.crop
  BY DEF Rest, Shaped, SameChain, RowColumns
<1>2. f.crop = None => FinishSowing(w, seed) = [w EXCEPT !.f = e]
  BY DEF FinishSowing
<1>3. f.crop # None => FinishSowing(w, seed) = [w EXCEPT !.f = s, !.b = h]
  <2> SUFFICES ASSUME f.crop # None
               PROVE  FinishSowing(w, seed) = [w EXCEPT !.f = s, !.b = h]
    OBVIOUS
  <2>1. FinishSowing(w, seed) = [w EXCEPT !.f = s, !.b = Sown(
           [w.b EXCEPT !.rests = IF rests THEN @ + 1 ELSE @])]
    BY DEF FinishSowing
  <2>2. [w.b EXCEPT !.rests = IF rests THEN @ + 1 ELSE @] = c
    BY DEF Shaped
  <2> HIDE DEF rests, c, s
  <2> QED BY <2>1, <2>2
<1> HIDE DEF r, share, summers, told
<1>4. DOMAIN e = RowColumns /\ SameChain(f, e) /\ e.phase = "growing" /\ e.crop = f.crop
  BY <1>1 DEF SameChain, RowColumns
<1> HIDE DEF e
<1>5. SameChain(f, s) /\ s.phase = "growing" /\ s.crop = f.crop
  BY <1>4 DEF SameChain, RowColumns
<1> HIDE DEF s
<1>6. DOMAIN c = DOMAIN w.b /\ SameTold(w.b, c) /\ c.laid = w.b.laid /\ c.short = w.b.short
  BY DEF Shaped, SameTold
<1> HIDE DEF c
<1>7. /\ h.said = w.b.said /\ h.laid = w.b.laid /\ h.short = w.b.short
      /\ IF w.b.slot = 0 THEN SameTold(w.b, h)
         ELSE /\ h.slot = 0 /\ h.used = w.b.slot
              /\ h.excused = (IF w.b.slot <= w.b.used THEN w.b.excused - 1 ELSE w.b.excused)
  <2>1. CASE w.b.slot = 0
    BY <1>6, <2>1 DEF Sown, SameTold
  <2>2. CASE w.b.slot # 0
    BY <1>6, <2>2 DEF Sown, Shaped, SameTold
  <2> QED BY <2>1, <2>2
<1> HIDE DEF h
<1>8. CASE f.crop = None
  <2> DEFINE v == [w EXCEPT !.f = e]
  <2>1. v.f = e /\ v.b = w.b /\ v.sky = w.sky /\ v.day = w.day
    BY ColumnsOf
  <2> HIDE DEF v
  <2> QED BY <1>2, <1>4, <1>8, <2>1 DEF v, SameTold
<1>9. CASE f.crop # None
  <2> DEFINE v == [w EXCEPT !.f = s, !.b = h]
  <2>1. v.f = s /\ v.b = h /\ v.sky = w.sky /\ v.day = w.day
    BY ColumnsOf
  <2> HIDE DEF v
  <2> QED BY <1>3, <1>5, <1>7, <1>9, <2>1 DEF v
<1> QED BY <1>8, <1>9

\* What is sown is the slot in preparation, later than the one sown before it.
LEMMA SowingCarries ==
  ASSUME NEW w, IsWorld(w), w.f.kind = "arable", w.f.phase = "sowing", w.f.crop # None,
         NEW seed, NEW day
  PROVE  LET v == FinishSowing(w, seed) IN Carries(w, v, day)
<1> DEFINE f == w.f  v == FinishSowing(w, seed)  g == v.f  b == w.b  c == v.b
           m == MonthOf(day)
<1>1. /\ v.sky = w.sky /\ v.day = w.day /\ SameChain(f, g)
      /\ g.phase = "growing" /\ g.crop = f.crop
      /\ c.said = b.said /\ c.laid = b.laid /\ c.short = b.short
      /\ b.slot = 0 => SameTold(b, c)
      /\ b.slot # 0 => /\ c.slot = 0 /\ c.used = b.slot
                       /\ c.excused = (IF b.slot <= b.used THEN b.excused - 1 ELSE b.excused)
  BY SownBooks, WorldIsShaped
<1> HIDE DEF v, m
<1>2. ASSUME SlotsIn(f, b, m) PROVE SlotsIn(g, c, m)
  <2>1. /\ b.slot \in 0..2 /\ b.used \in 0..2 /\ b.excused \in Nat /\ b.used # 2
        /\ b.used = 1 =>
             IF f.skips THEN Winter(f.slots[1]) /\ b.excused >= 1
             ELSE /\ f.slots[1] # None
                  /\ Winter(f.slots[1]) \/ m > Crop[f.slots[1]].to
    BY <1>2 DEF SlotsIn, FirstUsed, SecondUsed, Stands
  <2>2. CASE b.slot = 0
    <3>1. c.used = 1 => FirstUsed(g, c.excused, m)
      BY <1>1, <2>1, <2>2 DEF FirstUsed, SameChain, SameTold
    <3> QED BY <1>1, <2>1, <2>2, <3>1 DEF SlotsIn, SameChain, SameTold
  <2>3. CASE b.slot # 0
    <3>1. /\ f.crop = f.slots[b.slot]
          /\ b.slot = 2 => ~f.skips
          /\ b.slot = 2 \/ f.skips => Winter(f.crop)
          /\ b.slot > b.used \/ (f.skips /\ b.excused >= 1)
          /\ ~(m >= Crop[f.crop].from) =>
               /\ b.slot # 2
               /\ f.skips => b.excused >= (IF b.slot > b.used THEN 1 ELSE 2)
      BY <1>2, <2>3 DEF SlotsIn, Prepared, EarlySown
    <3>2. Stands(g, b.slot)
      BY <1>1, <3>1 DEF Stands, SameChain
    <3>3. /\ c.slot = 0 /\ c.used = b.slot
          /\ c.excused = (IF b.slot <= b.used THEN b.excused - 1 ELSE b.excused)
      BY <1>1, <2>3
    <3>4. c.excused \in Nat
      <4> HIDE DEF b, c, f
      <4> QED BY <2>1, <3>1, <3>3
    <3>5. f.skips => c.excused >= 1 \/ m >= Crop[f.crop].from
      <4> HIDE DEF b, c, f
      <4> QED BY <2>1, <3>1, <3>3
    <3>6. c.used = 1 => FirstUsed(g, c.excused, m)
      BY <1>1, <3>1, <3>2, <3>3, <3>5 DEF FirstUsed, SameChain
    <3>7. c.used = 2 => SecondUsed(g, m)
      BY <1>1, <3>1, <3>2, <3>3 DEF SecondUsed, SameChain
    <3> QED BY <1>1, <2>1, <3>3, <3>4, <3>6, <3>7 DEF SlotsIn, SameChain
  <2> QED BY <2>2, <2>3
<1>3. Dated(f, day) => Dated(g, day)
  BY <1>1 DEF Dated, SameChain
<1>4. Grams(w) => Grams(v)
  BY <1>1 DEF Grams, Reaping
<1>5. Rounded(w) => Rounded(v)
  BY <1>1 DEF Rounded
<1>6. Announced(w, day) => Announced(v, day)
  BY <1>1 DEF Announced, ArrivingWinterSlotLost, HasRotation, SameChain
<1> QED BY <1>2, <1>3, <1>4, <1>5, <1>6 DEF Carries, Books, v, m

\* A step from one phase of the preparation to another.
LEMMA WorkCarries ==
  ASSUME NEW w, NEW v, NEW day, v.sky = w.sky, v.day = w.day, w.f.kind = "arable",
         SameChain(w.f, v.f), Bare(w.f), Bare(v.f), v.f.phase # "harvest",
         SameTold(w.b, v.b), v.b.laid = w.b.laid, v.b.short = w.b.short,
         w.b.slot # 0 /\ Prepared(w.f, w.b.slot, w.b.used, w.b.excused, MonthOf(day)) =>
           Prepared(v.f, w.b.slot, w.b.used, w.b.excused, MonthOf(day)),
         w.f.phase # "harvest"
  PROVE  Carries(w, v, day)
<1>1. Grams(w) => Grams(v)
  BY DEF Grams, Reaping
<1>2. CASE w.b.slot \in 0..2
  <2>1. /\ v.b.slot = w.b.slot /\ v.b.used = w.b.used
        /\ v.b.excused = w.b.excused /\ v.b.said = w.b.said
    BY DEF SameTold
  <2>2. SlotsIn(w.f, w.b, MonthOf(day)) /\ v.b.slot # 0 =>
          Prepared(v.f, v.b.slot, v.b.used, v.b.excused, MonthOf(day))
    BY <2>1 DEF SlotsIn
  <2> QED BY <1>1, <1>2, <2>1, <2>2, BareCarries
<1>3. CASE w.b.slot \notin 0..2
  BY <1>3 DEF Carries, Books, SlotsIn
<1> QED BY <1>2, <1>3

\* The sowing is opened within its months: a winter crop's before November.
LEMMA OpenSowingCarries ==
  ASSUME NEW w, IsWorld(w), w.f.kind = "arable", w.f.phase = "harrowing", w.f.crop # None,
         SowingMayOpen(w), NEW day \in Nat, day = w.day \/ MonthOf(w.day) = 0
  PROVE  LET v == OpenPhase(w, "sowing") IN Carries(w, v, day)
<1> DEFINE f == w.f  v == OpenPhase(w, "sowing")  g == v.f  m == MonthOf(day)
<1>1. /\ v.sky = w.sky /\ v.day = w.day /\ SameChain(f, g)
      /\ g.phase = "sowing" /\ g.crop = f.crop
      /\ SameTold(w.b, v.b) /\ v.b.laid = w.b.laid /\ v.b.short = w.b.short
  BY OpenedBooks, WorldIsShaped
<1>2. f.crop \in Crops /\ m \in Nat /\ MonthOf(w.day) \in Nat
  BY Dates DEF IsWorld, IsRow, Typed
<1>3. /\ MonthOf(w.day) >= Crop[f.crop].from
      /\ Winter(f.crop) => MonthOf(w.day) <= WinterLastSowingMonth(f.crop)
  BY <1>2, SeasonIs DEF SowingMayOpen
<1>4. m >= Crop[f.crop].from /\ (Winter(f.crop) => m < November)
  <2>1. /\ Crop[f.crop].from \in Nat /\ Crop[f.crop].reapTo \in Nat /\ November \in Nat
        /\ Winter(f.crop) => Crop[f.crop].reapTo < Crop[f.crop].from
        /\ WinterLastSowingMonth(f.crop) \in Nat /\ WinterLastSowingMonth(f.crop) < November
    BY <1>2, SeasonIs
  <2>2. CASE day = w.day
    BY <1>2, <1>3, <2>1, <2>2
  <2>3. CASE MonthOf(w.day) = 0
    BY <1>2, <1>3, <2>1, <2>3
  <2> QED BY <2>2, <2>3
<1> HIDE DEF v, m
<1>5. SlotsIn(f, w.b, m) => SlotsIn(g, v.b, m)
  <2> SUFFICES ASSUME SlotsIn(f, w.b, m) PROVE SlotsIn(g, v.b, m)
    OBVIOUS
  <2>1. w.b.used # 2 /\ (w.b.used = 1 => FirstUsed(g, w.b.excused, m))
    BY <1>1 DEF SlotsIn, FirstUsed, SecondUsed, Stands, SameChain
  <2>2. w.b.slot # 0 => Prepared(g, w.b.slot, w.b.used, w.b.excused, m)
    BY <1>1, <1>4 DEF SlotsIn, Prepared, EarlySown, SameChain
  <2> QED BY <1>1, <2>1, <2>2 DEF SlotsIn, SameChain, SameTold
<1>6. Dated(f, day) => Dated(g, day)
  BY <1>1 DEF Dated, SameChain
<1>7. Grams(w) => Grams(v)
  BY <1>1 DEF Grams, Reaping
<1>8. Rounded(w) => Rounded(v)
  BY <1>1 DEF Rounded
<1>9. Announced(w, day) => Announced(v, day)
  <2> SUFFICES ASSUME Announced(w, day), w.b.said # "unasked"
               PROVE  ArrivingWinterSlotLost(g) <=> ArrivingWinterSlotLost(f)
    BY <1>1 DEF Announced, SameChain, SameTold
  <2>1. November \in Nat
    BY SeasonAssumption
  <2>2. ~Winter(f.crop)
    BY <1>2, <1>4, <2>1 DEF Announced, m
  <2> QED BY <1>1, <2>2 DEF ArrivingWinterSlotLost, HasRotation, SameChain
<1> QED BY <1>5, <1>6, <1>7, <1>8, <1>9 DEF Carries, Books, v, m

\* The phases in their turn (AdvanceFinishedField).
LEMMA AdvanceCarries ==
  ASSUME NEW w, IsWorld(w), NEW seed, NEW day \in Nat, day = w.day \/ MonthOf(w.day) = 0,
         Reaping(w) /\ w.f.work = 0 => day = w.day
  PROVE  LET v == AdvanceFinishedField(w, seed) IN Carries(w, v, day)
<1> DEFINE f == w.f  v == AdvanceFinishedField(w, seed)
<1>1. Shaped(w) /\ IsRow(f)
  BY WorldIsShaped DEF IsWorld
<1>2. f.phase \in {"plowing", "harrowing", "sowing"} => f.kind = "arable"
  BY <1>1 DEF IsRow, Typed, Standing
<1>3. CASE v = w
  BY <1>3 DEF Carries
<1>4. CASE v # w
  <2>0. Working(f) /\ ~(f.work > 0)
    BY <1>4 DEF AdvanceFinishedField
  <2>1. CASE f.phase = "plowing" /\ f.furrowing
    <3> DEFINE g == [f EXCEPT !.furrowing = FALSE, !.plowed = TRUE, !.furrow_day = Never,
                              !.phase = "idle"]
    <3>1. v = [w EXCEPT !.f = g]
      BY <2>0, <2>1 DEF AdvanceFinishedField
    <3>2. SameChain(f, g) /\ g.phase = "idle"
      BY <1>1 DEF SameChain, Shaped, RowColumns
    <3> HIDE DEF g, v
    <3>3. v.f = g /\ v.b = w.b /\ v.sky = w.sky /\ v.day = w.day
      BY <1>1, <3>1, ColumnsOf
    <3>4. ~Prepared(f, w.b.slot, w.b.used, w.b.excused, MonthOf(day))
      BY <1>1, <2>1 DEF IsRow, Furrow, Prepared
    <3>5. Bare(f) /\ Bare(v.f) /\ SameTold(w.b, v.b) /\ v.f.phase # "harvest"
      BY <2>1, <3>2, <3>3 DEF Bare, SameTold
    <3>6. Carries(w, v, day)
      BY <1>2, <2>1, <3>2, <3>3, <3>4, <3>5, WorkCarries
    <3> QED BY <3>6 DEF v
  <2>2. CASE f.phase = "plowing" /\ ~f.furrowing
    <3> DEFINE u == OpenPhase(w, "harrowing")
    <3>1. v = [u EXCEPT !.f.furrow_day = w.day]
      BY <2>0, <2>2 DEF AdvanceFinishedField
    <3>2. /\ u.sky = w.sky /\ u.day = w.day /\ Shaped(u)
          /\ SameChain(f, u.f) /\ u.f.phase = "harrowing" /\ u.f.crop = f.crop
          /\ SameTold(w.b, u.b) /\ u.b.laid = w.b.laid /\ u.b.short = w.b.short
      BY <1>1, OpenedBooks
    <3> HIDE DEF u, v
    <3>3. /\ v.sky = u.sky /\ v.day = u.day /\ v.b = u.b
          /\ SameChain(u.f, v.f) /\ v.f.phase = "harrowing" /\ v.f.crop = u.f.crop
      BY <3>1, <3>2 DEF Shaped, RowColumns, SameChain
    <3>4. SameChain(f, v.f)
      BY <3>2, <3>3 DEF SameChain
    <3>5. Bare(f) /\ Bare(v.f)
      BY <2>2, <3>3 DEF Bare
    <3>6. Prepared(f, w.b.slot, w.b.used, w.b.excused, MonthOf(day)) =>
            Prepared(v.f, w.b.slot, w.b.used, w.b.excused, MonthOf(day))
      BY <3>2, <3>3, <3>4 DEF Prepared, EarlySown, SameChain
    <3>7. SameTold(w.b, v.b) /\ v.b.laid = w.b.laid /\ v.b.short = w.b.short
          /\ v.sky = w.sky /\ v.day = w.day
      BY <3>2, <3>3
    <3>8. Carries(w, v, day)
      BY <1>2, <2>2, <3>3, <3>4, <3>5, <3>6, <3>7, WorkCarries
    <3> QED BY <3>8 DEF v
  <2>3. CASE f.phase \in {"harrowing", "sowing"} /\ f.crop = None
    <3>1. v = FinishSowing(w, seed)
      BY <1>4, <2>0, <2>3 DEF AdvanceFinishedField
    <3>2. /\ v.sky = w.sky /\ v.day = w.day /\ SameChain(f, v.f)
          /\ v.f.phase = "growing" /\ v.f.crop = f.crop
          /\ v.b.laid = w.b.laid /\ v.b.short = w.b.short /\ SameTold(w.b, v.b)
      BY <1>1, <2>3, <3>1, SownBooks
    <3> HIDE DEF v
    <3>3. Bare(f) /\ Bare(v.f) /\ ~Prepared(f, w.b.slot, w.b.used, w.b.excused, MonthOf(day))
      BY <2>3, <3>2 DEF Bare, Prepared
    <3>4. Carries(w, v, day)
      BY <1>2, <2>3, <3>2, <3>3, WorkCarries
    <3> QED BY <3>4 DEF v
  <2>4. CASE f.phase = "harrowing" /\ f.crop # None
    <3>1. v = OpenPhase(w, "sowing") /\ SowingMayOpen(w)
      BY <1>4, <2>0, <2>4 DEF AdvanceFinishedField
    <3> QED BY <1>2, <2>4, <3>1, OpenSowingCarries
  <2>5. CASE f.phase = "sowing" /\ f.crop # None
    <3>1. v = FinishSowing(w, seed)
      BY <1>4, <2>0, <2>5 DEF AdvanceFinishedField
    <3> QED BY <1>2, <2>5, <3>1, SowingCarries
  <2>6. CASE f.phase = "harvest"
    <3>1. v = FinishHarvest(w)
      BY <2>0, <2>6 DEF AdvanceFinishedField
    <3>2. CASE f.kind = "meadow"
      <4>1. v = MowMeadow(w) /\ Mowing(w)
        BY <2>6, <3>1, <3>2 DEF FinishHarvest, Mowing
      <4> QED BY <4>1, MowUnmoved, UnmovedCarries
    <3>3. CASE f.kind = "arable"
      <4>1. f.work = 0 /\ Reaping(w)
        BY <1>1, <2>0, <2>6, <3>3 DEF IsRow, Typed, Reaping
      <4> QED BY <3>1, <4>1, HarvestCarries
    <3>4. f.kind \in {"meadow", "arable"}
      BY <1>1, <2>6 DEF IsRow, Typed, Standing
    <3> QED BY <3>2, <3>3, <3>4
  <2> QED BY <2>0, <2>1, <2>2, <2>3, <2>4, <2>5, <2>6 DEF Working
<1> QED BY <1>3, <1>4

-----------------------------------------------------------------------------
(* Orders, as the books have them.                                         *)

\* Where the chain is named anew, or the row removed, the slots begin anew.
LEMMA AnewCarries ==
  ASSUME NEW w, NEW v, v.sky = w.sky, v.b.slot = 0, v.b.used = 0, v.b.said = "unasked",
         v.b.excused \in {w.b.excused, 0}, v.b.short = w.b.short \/ v.b.short = 0,
         v.f.reaped_day \in {w.f.reaped_day, Never}, Grams(w) => Grams(v), NEW day
  PROVE  Carries(w, v, day)
<1>1. SlotsIn(w.f, w.b, MonthOf(day)) => SlotsIn(v.f, v.b, MonthOf(day))
  BY DEF SlotsIn
<1>2. Dated(w.f, day) => Dated(v.f, day)
  BY DEF Dated
<1>3. Rounded(w) => Rounded(v)
  BY DEF Rounded
<1>4. Announced(v, day)
  BY DEF Announced
<1> QED BY <1>1, <1>2, <1>3, <1>4 DEF Carries, Books

\* The chain named on the row, what is reaped of it as it was.
LEMMA NamedBooks ==
  ASSUME NEW f, DOMAIN f = RowColumns, NEW slots, NEW named
  PROVE  LET g == NamedChain(f, slots, named) IN
         /\ g.kind = f.kind /\ g.phase = f.phase /\ g.reaped_day = f.reaped_day
         /\ g.laid_share = f.laid_share /\ g.laid_grams = f.laid_grams /\ Yield(g) = Yield(f)
<1> DEFINE g == NamedChain(f, slots, named)
<1>1. /\ g.kind = f.kind /\ g.phase = f.phase /\ g.reaped_day = f.reaped_day
      /\ g.laid_share = f.laid_share /\ g.laid_grams = f.laid_grams
      /\ g.crop = f.crop /\ g.sown_share = f.sown_share /\ g.fertility = f.fertility
      /\ g.summers = f.summers /\ g.stress = f.stress /\ g.sown_day = f.sown_day
  BY DEF NamedChain, RowColumns
<1> HIDE DEF g
<1>2. Yield(g) = Yield(f)
  BY <1>1, YieldStays
<1> QED BY <1>1, <1>2 DEF g

LEMMA RotationCarries ==
  ASSUME NEW w, IsWorld(w), NEW slots, NEW day
  PROVE  Carries(w, SetRotation(w, slots), day)
<1> DEFINE f == w.f  v == SetRotation(w, slots)
           mown == f.kind = "meadow" /\ f.mown_fallow
           stand == Arable(f) /\ Ages(f.crop)
           named == \E i \in 1..3 : slots[i] # None
           freed == IF stand /\ f.phase = "growing" THEN EndGrassStand(f) ELSE f
           up == PloughUpMownFallow(freed)
           g == NamedChain(up, slots, named)
           broken == w.b.broken \/ (mown /\ f.phase = "harvest")
           history == [w.b EXCEPT !.slot = 0, !.used = 0, !.excused = 0, !.said = "unasked",
                                  !.broken = broken]
           u == [w EXCEPT !.f = g, !.b = history]
           still == ~(Arable(f) \/ mown) \/ (stand /\ f.phase = "harvest")
<1>1. Shaped(w)
  BY WorldIsShaped
<1>2. CASE still
  <2>1. v = w
    BY <1>2, Zenon DEF SetRotation
  <2> QED BY <2>1 DEF Carries
<1>3. CASE ~still
  <2>1. v = u
    <3> DEFINE told == [w.b EXCEPT !.slot = 0, !.used = 0, !.excused = 0, !.said = "unasked",
                                   !.broken = w.b.broken \/ (mown /\ f.phase = "harvest")]
    <3>1. told = history
      OBVIOUS
    <3>2. v = IF still THEN w ELSE [w EXCEPT !.f = g, !.b = told]
      BY Zenon DEF SetRotation, NamedChain
    <3> HIDE DEF v, still, g, history, told
    <3> QED BY <1>3, <3>1, <3>2
  <2>2. /\ history.slot = 0 /\ history.used = 0 /\ history.said = "unasked"
        /\ history.excused = 0 /\ history.short = w.b.short
        /\ history.laid = w.b.laid /\ history.whole = w.b.whole
    BY <1>1 DEF Shaped
  <2>3. /\ DOMAIN freed = RowColumns /\ freed.reaped_day = f.reaped_day
        /\ freed.kind = f.kind
        /\ freed = f \/ (f.phase # "harvest" /\ freed.phase = "idle")
    BY <1>1 DEF EndGrassStand, Shaped, RowColumns
  <2> HIDE DEF freed
  <2>4. /\ DOMAIN up = RowColumns /\ up.reaped_day = f.reaped_day
        /\ up = f \/ (~Reaping(w) /\ up.phase # "harvest")
    <3>1. CASE up = freed
      BY <2>3, <3>1 DEF Reaping
    <3>2. CASE up # freed
      <4>1. up = [NoReaping(freed) EXCEPT !.kind = "arable", !.mown_fallow = FALSE,
                                          !.phase = "idle"] /\ freed.kind = "meadow"
        BY <3>2 DEF PloughUpMownFallow
      <4> HIDE DEF up
      <4>2. DOMAIN up = RowColumns /\ up.reaped_day = freed.reaped_day /\ up.phase = "idle"
        BY <2>3, <4>1 DEF NoReaping, RowColumns
      <4> QED BY <2>3, <4>1, <4>2 DEF Reaping
    <3> QED BY <3>1, <3>2
  <2> HIDE DEF up, named
  <2>5. /\ g.kind = up.kind /\ g.phase = up.phase /\ g.reaped_day = up.reaped_day
        /\ g.laid_share = up.laid_share /\ g.laid_grams = up.laid_grams
        /\ Yield(g) = Yield(up)
    BY <2>4, NamedBooks
  <2> HIDE DEF g, history
  <2>6. u.f = g /\ u.b = history /\ u.sky = w.sky
    BY <1>1, ColumnsOf
  <2> HIDE DEF u
  <2>7. Grams(w) => Grams(u)
    <3>1. CASE up = f
      BY <2>2, <2>5, <2>6, <3>1 DEF Grams, GramsIn, Reaping
    <3>2. CASE ~Reaping(w) /\ up.phase # "harvest"
      BY <2>2, <2>5, <2>6, <3>2 DEF Grams, Reaping
    <3> QED BY <2>4, <3>1, <3>2
  <2>8. Carries(w, u, day)
    BY <2>2, <2>4, <2>5, <2>6, <2>7, AnewCarries
  <2> QED BY <2>1, <2>8
<1> QED BY <1>2, <1>3

LEMMA RemoveCarries ==
  ASSUME NEW w, IsWorld(w), NEW day
  PROVE  Carries(w, RemoveField(w), day)
<1> DEFINE v == RemoveField(w)  u == [w EXCEPT !.f = Gone, !.b = NoHistory]
<1>1. CASE v = w
  BY <1>1 DEF Carries
<1>2. CASE v # w
  <2>1. v = u
    BY <1>2 DEF RemoveField
  <2>2. u.f = Gone /\ u.b = NoHistory /\ u.sky = w.sky
    BY WorldIsShaped, ColumnsOf
  <2> HIDE DEF u
  <2>3. /\ NoHistory.slot = 0 /\ NoHistory.used = 0 /\ NoHistory.said = "unasked"
        /\ NoHistory.excused = 0 /\ NoHistory.short = 0 /\ NoHistory.laid = 0
    BY DEF NoHistory
  <2>4. Gone.reaped_day = Never /\ Gone.kind = "gone"
    BY DEF Gone, Ground
  <2>5. Grams(u)
    BY <2>2, <2>3, <2>4 DEF Grams, Reaping
  <2>6. Carries(w, u, day)
    BY <2>2, <2>3, <2>4, <2>5, AnewCarries
  <2> QED BY <2>1, <2>6
<1> QED BY <1>1, <1>2

LEMMA MarkCarries ==
  ASSUME NEW w, IsWorld(w), NEW day
  PROVE  Carries(w, MarkMeadow(w), day)
<1> DEFINE f == w.f  v == MarkMeadow(w)  m == MonthOf(day)
           fallow == Arable(f) /\ ~HasRotation(f) /\ f.phase = "idle" /\ f.heap = None
           a == [w EXCEPT !.f = NewMeadow]
           g == [f EXCEPT !.kind = "meadow", !.mown_fallow = TRUE, !.phase = "growing",
                          !.work = 0]
           history == [w.b EXCEPT !.said = "unasked"]
           b == [w EXCEPT !.f = g, !.b = history]
<1>1. Shaped(w)
  BY WorldIsShaped
<1>2. (v = a /\ f.kind = "gone") \/ (v = b /\ fallow) \/ v = w
  <2>1. [w EXCEPT !.f = g, !.b.said = "unasked"] = b
    <3> HIDE DEF g
    <3> QED BY <1>1 DEF Shaped
  <2>2. (v = a /\ f.kind = "gone") \/ (v = [w EXCEPT !.f = g, !.b.said = "unasked"] /\ fallow)
        \/ v = w
    BY DEF MarkMeadow
  <2> HIDE DEF v, a, b, fallow
  <2> QED BY <2>1, <2>2
<1> HIDE DEF v, m
<1>3. CASE v = w
  BY <1>3 DEF Carries, v
<1>4. CASE v = a /\ f.kind = "gone"
  <2>1. a.f = NewMeadow /\ a.b = w.b /\ a.sky = w.sky
    BY <1>1, ColumnsOf
  <2> HIDE DEF a
  <2>2. NewMeadow.kind = "meadow" /\ NewMeadow.reaped_day = Never
    BY GroundIsRow
  <2>3. SlotsIn(f, w.b, m) => SlotsIn(NewMeadow, w.b, m)
    BY <1>4, <2>2 DEF SlotsIn, Prepared
  <2>4. Dated(NewMeadow, day)
    BY <2>2 DEF Dated
  <2>5. Grams(w) => Grams(a)
    BY <1>4, <2>1, <2>2 DEF Grams, Reaping
  <2>6. Rounded(w) => Rounded(a)
    BY <2>1 DEF Rounded
  <2>7. Announced(w, day) => Announced(a, day)
    BY <1>4, <2>1 DEF Announced
  <2> QED BY <1>4, <2>1, <2>3, <2>4, <2>5, <2>6, <2>7 DEF Carries, Books, m, v
<1>5. CASE v = b /\ fallow
  <2>1. f.kind = "arable" /\ f.phase = "idle"
    BY <1>5 DEF Arable
  <2>2. /\ g.kind = "meadow" /\ g.reaped_day = f.reaped_day
        /\ g.slots = f.slots /\ g.skips = f.skips
    BY <1>1 DEF Shaped, RowColumns
  <2>3. /\ history.slot = w.b.slot /\ history.used = w.b.used /\ history.excused = w.b.excused
        /\ history.said = "unasked" /\ history.laid = w.b.laid
        /\ history.short = w.b.short
    BY <1>1 DEF Shaped
  <2> HIDE DEF g, history, fallow
  <2>4. b.f = g /\ b.b = history /\ b.sky = w.sky
    BY <1>1, ColumnsOf
  <2> HIDE DEF b
  <2>5. SlotsIn(f, w.b, m) => SlotsIn(g, history, m)
    <3> SUFFICES ASSUME SlotsIn(f, w.b, m) PROVE SlotsIn(g, history, m)
      OBVIOUS
    <3>1. /\ w.b.slot = 0 /\ w.b.used # 2 /\ w.b.used \in 0..2
          /\ w.b.excused \in Nat
      BY <2>1 DEF SlotsIn, Prepared, SecondUsed, Stands
    <3>2. w.b.used = 1 => FirstUsed(g, w.b.excused, m)
      BY <2>1, <2>2 DEF SlotsIn, FirstUsed, Stands
    <3> QED BY <2>2, <2>3, <3>1, <3>2 DEF SlotsIn
  <2>6. Dated(f, day) => Dated(g, day)
    BY <2>2 DEF Dated
  <2>7. Grams(w) => Grams(b)
    BY <2>1, <2>2, <2>3, <2>4 DEF Grams, Reaping
  <2>8. Rounded(w) => Rounded(b)
    BY <2>3, <2>4 DEF Rounded
  <2>9. Announced(b, day)
    BY <2>3, <2>4 DEF Announced
  <2> QED BY <1>5, <2>4, <2>5, <2>6, <2>7, <2>8, <2>9 DEF Carries, Books, m, v
<1> QED BY <1>2, <1>3, <1>4, <1>5

\* Any order.
LEMMA OrderCarries ==
  ASSUME NEW w, IsWorld(w), NEW order, NEW day
  PROVE  Carries(w, Ordered(w, order), day)
<1>1. Ordered(w, order) \in {SetRotation(w, order.slots), RemoveField(w), MarkMeadow(w), w}
  BY DEF Ordered
<1>2. Carries(w, w, day)
  BY DEF Carries
<1> QED BY <1>1, <1>2, RotationCarries, RemoveCarries, MarkCarries

-----------------------------------------------------------------------------
(* The year's turn, as the books have it.                                  *)

\* What the turn keeps of a row: what is sown, reaped or a standing winter
\* crop stays so, and nothing else becomes one.
Held(f, g) ==
  /\ DOMAIN g = RowColumns
  /\ g.kind = f.kind /\ g.assigned = f.assigned /\ g.reaped_day = f.reaped_day
  /\ \/ g.phase = f.phase /\ g.crop = f.crop
     \/ /\ f.phase \notin {"sowing", "harvest"} /\ ~(f.phase = "growing" /\ Winter(f.crop))
        /\ g.phase \notin {"sowing", "growing", "harvest"}
  /\ f.phase = "harvest" =>
       /\ g.laid_share = f.laid_share /\ g.laid_grams = f.laid_grams
       /\ Yield(g) = Yield(f)

LEMMA HeldOn ==
  ASSUME NEW f, NEW g, NEW h, Held(f, g), Held(g, h)
  PROVE  Held(f, h)
<1>1. f.phase = "harvest" => g.phase = "harvest"
  BY DEF Held
<1> QED BY <1>1 DEF Held

\* The parts of the turn, one by one.
LEMMA FallowHeld ==
  ASSUME NEW f, DOMAIN f = RowColumns
  PROVE  LET g == EndFallow(f) IN Held(f, g) /\ g.slots = f.slots /\ g.skips = f.skips
<1> DEFINE soil == SoilFertility(f)
           g == [f EXCEPT !.phase = "idle", !.applied = 0, !.booked = FALSE,
                          !.fertility = soil]
<1>1. CASE ~(f.phase = "growing" /\ f.crop = None)
  BY <1>1 DEF EndFallow, Held
<1>2. CASE f.phase = "growing" /\ f.crop = None
  <2>1. EndFallow(f) = g
    BY <1>2 DEF EndFallow
  <2> HIDE DEF soil
  <2>2. /\ DOMAIN g = RowColumns /\ g.kind = f.kind /\ g.assigned = f.assigned
        /\ g.reaped_day = f.reaped_day /\ g.phase = "idle"
        /\ g.slots = f.slots /\ g.skips = f.skips
    BY DEF RowColumns
  <2> HIDE DEF g
  <2> QED BY <1>2, <2>1, <2>2 DEF Held, Winter
<1> QED BY <1>1, <1>2

LEMMA RestHeld ==
  ASSUME NEW f, DOMAIN f = RowColumns, f.phase # "harvest"
  PROVE  LET g == Rest(f) IN Held(f, g) /\ g.slots = f.slots /\ g.skips = f.skips
  BY DEF Rest, Held, RowColumns

LEMMA ReleaseHeld ==
  ASSUME NEW f, IsRow(f), f.kind = "arable"
  PROVE  LET g == ReleaseUnsownPreparation(f)
         IN Held(f, g) /\ g.slots = f.slots /\ g.skips = f.skips
<1> DEFINE a == [f EXCEPT !.furrow_day = Never, !.phase = "idle"]
           b == [f EXCEPT !.furrowing = FALSE, !.work = 0]
           turned == /\ f.phase = "harrowing"
                     /\ ThisYear(f.furrow_day, f.reaped_day) /\ f.furrow_day >= f.reaped_day
           plowed == f.plowed \/ turned
           c == [f EXCEPT !.plowed = plowed, !.furrow_day = Never, !.rest_owed = FALSE,
                          !.crop = None, !.phase = "idle", !.work = 0]
           g == ReleaseUnsownPreparation(f)
<1>1. DOMAIN f = RowColumns
  BY DEF IsRow, Typed
<1>2. CASE f.furrowing /\ f.phase = "plowing"
  <2>1. g = a
    BY <1>2 DEF ReleaseUnsownPreparation
  <2> HIDE DEF g
  <2> QED BY <1>1, <1>2, <2>1 DEF Held, RowColumns, g
<1>3. CASE f.furrowing /\ f.phase # "plowing"
  <2>1. g = b /\ f.phase = "idle"
    BY <1>3 DEF ReleaseUnsownPreparation, IsRow, Furrow
  <2> HIDE DEF g
  <2> QED BY <1>1, <2>1 DEF Held, RowColumns, g
<1>4. CASE ~f.furrowing /\ Unsown(f)
  <2>1. g = c
    <3>1. g = [f EXCEPT !.plowed = @ \/ turned, !.furrow_day = Never, !.rest_owed = FALSE,
                        !.crop = None, !.phase = "idle", !.work = 0]
      BY <1>4 DEF ReleaseUnsownPreparation
    <3> HIDE DEF turned, g
    <3> QED BY <1>1, <3>1 DEF RowColumns
  <2> HIDE DEF plowed, g
  <2>2. f.phase \in {"plowing", "harrowing"}
    BY <1>4 DEF Unsown
  <2>3. /\ DOMAIN c = RowColumns /\ c.kind = f.kind /\ c.assigned = f.assigned
        /\ c.reaped_day = f.reaped_day /\ c.phase = "idle"
        /\ c.slots = f.slots /\ c.skips = f.skips
    BY <1>1 DEF RowColumns
  <2> HIDE DEF c
  <2> QED BY <2>1, <2>2, <2>3 DEF Held, g
<1>5. CASE ~f.furrowing /\ ~Unsown(f)
  <2>1. g = f
    BY <1>5 DEF ReleaseUnsownPreparation
  <2> QED BY <1>1, <2>1 DEF Held
<1> QED BY <1>2, <1>3, <1>4, <1>5

LEMMA ChainHeld ==
  ASSUME NEW f, DOMAIN f = RowColumns
  PROVE  LET g == TurnChain(f) IN
         /\ Held(f, g)
         /\ f.skips => g.slots = f.slots /\ (g.skips <=> ~FirstWinterStanding(f))
         /\ ~f.skips => /\ g.slots = <<f.slots[2], f.slots[3], f.slots[1]>>
                        /\ g.skips = f.skips
<1> DEFINE skips == ~FirstWinterStanding(f)
           slots == <<f.slots[2], f.slots[3], f.slots[1]>>
           a == [f EXCEPT !.skips = skips]  b == [f EXCEPT !.slots = slots]  g == TurnChain(f)
<1>1. (f.skips => g = a) /\ (~f.skips => g = b)
  BY DEF TurnChain
<1> HIDE DEF skips, slots, g
<1>2. /\ DOMAIN a = RowColumns /\ a.kind = f.kind /\ a.assigned = f.assigned
      /\ a.reaped_day = f.reaped_day /\ a.phase = f.phase /\ a.crop = f.crop
      /\ a.laid_share = f.laid_share /\ a.laid_grams = f.laid_grams
      /\ a.sown_share = f.sown_share /\ a.fertility = f.fertility
      /\ a.summers = f.summers /\ a.stress = f.stress /\ a.sown_day = f.sown_day
      /\ a.slots = f.slots /\ a.skips = skips
  BY DEF RowColumns
<1>3. /\ DOMAIN b = RowColumns /\ b.kind = f.kind /\ b.assigned = f.assigned
      /\ b.reaped_day = f.reaped_day /\ b.phase = f.phase /\ b.crop = f.crop
      /\ b.laid_share = f.laid_share /\ b.laid_grams = f.laid_grams
      /\ b.sown_share = f.sown_share /\ b.fertility = f.fertility
      /\ b.summers = f.summers /\ b.stress = f.stress /\ b.sown_day = f.sown_day
      /\ b.slots = slots /\ b.skips = f.skips
  BY DEF RowColumns
<1> HIDE DEF a, b
<1>4. Yield(a) = Yield(f) /\ Yield(b) = Yield(f)
  BY <1>2, <1>3, YieldStays
<1>5. Held(f, g)
  BY <1>1, <1>2, <1>3, <1>4 DEF Held
<1> QED BY <1>1, <1>2, <1>3, <1>5 DEF g, skips, slots

LEMMA NamedOverHeld ==
  ASSUME NEW f, DOMAIN f = RowColumns, f.crop \in Crops
  PROVE  LET g == EndNamedOverStand(f)
         IN Held(f, g) /\ g.slots = f.slots /\ g.skips = f.skips
<1> DEFINE h == [f EXCEPT !.last_crop = f.crop, !.crop = None, !.phase = "idle", !.stress = 0]
           ends == f.phase = "growing" /\ Perennial(f.crop) /\ f.slots[1] # f.crop
           g == EndNamedOverStand(f)
<1>1. CASE ~ends
  <2>1. g = f
    BY <1>1 DEF EndNamedOverStand
  <2> QED BY <2>1 DEF Held
<1>2. CASE ends
  <2>1. g = h
    BY <1>2, Zenon DEF EndNamedOverStand
  <2> HIDE DEF g
  <2>2. f.phase = "growing" /\ ~Winter(f.crop)
    BY <1>2, CropIs
  <2>3. /\ DOMAIN h = RowColumns /\ h.kind = f.kind /\ h.assigned = f.assigned
        /\ h.reaped_day = f.reaped_day /\ h.phase = "idle"
        /\ h.slots = f.slots /\ h.skips = f.skips
    BY DEF RowColumns
  <2> HIDE DEF h
  <2> QED BY <2>1, <2>2, <2>3 DEF Held, g
<1> QED BY <1>1, <1>2

\* The turn of a row.
LEMMA TurnHeld ==
  ASSUME NEW f, IsRow(f), f.kind = "arable", FurrowOpen(f), NEW day
  PROVE  LET g == TurnField(f, day)
             stands == f.phase = "growing" /\ Winter(f.crop) /\ f.crop = f.slots[1] IN
         /\ Held(f, g)
         /\ f.skips => g.slots = f.slots /\ (g.skips <=> ~stands)
         /\ ~f.skips => g.slots = <<f.slots[2], f.slots[3], f.slots[1]>> /\ ~g.skips
<1> DEFINE a == EndFallow(f)  b == IF StoodBare(f, day) THEN Rest(a) ELSE a
           c == ReleaseUnsownPreparation(b)  d == TurnChain(c)  e == EndNamedOverStand(d)
           stands == f.phase = "growing" /\ Winter(f.crop) /\ f.crop = f.slots[1]
<1>1. Turned(f, a) /\ Held(f, a) /\ a.slots = f.slots /\ a.skips = f.skips
  BY EndFallowRow, FallowHeld DEF IsRow, Typed
<1>2. StoodBare(f, day) => a.phase # "harvest"
  BY <1>1 DEF StoodBare, Unsown, Held
<1> HIDE DEF a
<1>3. Turned(a, b) /\ Held(a, b) /\ b.slots = a.slots /\ b.skips = a.skips
  <2>1. IsRow(a) /\ a.kind = "arable" /\ FurrowOpen(a) /\ DOMAIN a = RowColumns
    BY <1>1 DEF Turned, IsRow, Typed
  <2>2. CASE StoodBare(f, day)
    <3>1. b = Rest(a)
      BY <2>2
    <3> HIDE DEF b
    <3>2. Turned(a, Rest(a)) /\ Held(a, Rest(a)) /\ Rest(a).slots = a.slots
          /\ Rest(a).skips = a.skips
      BY <1>2, <2>1, <2>2, TurnRestRow, RestHeld
    <3> QED BY <3>1, <3>2
  <2>3. CASE ~StoodBare(f, day)
    <3>1. b = a
      BY <2>3
    <3> QED BY <2>1, <3>1 DEF Turned, Held
  <2> QED BY <2>2, <2>3
<1> HIDE DEF b
<1>4. Turned(b, c) /\ Held(b, c) /\ c.slots = b.slots /\ c.skips = b.skips
  BY <1>3, ReleaseRow, ReleaseHeld DEF Turned
<1> HIDE DEF c
<1>5. /\ Turned(c, d) /\ Held(c, d)
      /\ c.skips => d.slots = c.slots /\ (d.skips <=> ~FirstWinterStanding(c))
      /\ ~c.skips => d.slots = <<c.slots[2], c.slots[3], c.slots[1]>> /\ d.skips = c.skips
  BY <1>4, ChainRow, ChainHeld DEF Turned, IsRow, Typed
<1> HIDE DEF d
<1>6. Held(d, e) /\ e.slots = d.slots /\ e.skips = d.skips
  BY <1>5, NamedOverHeld DEF Turned, IsRow, Typed
<1>7. TurnField(f, day) = e
  BY DEF TurnField, a, b, c, d
<1> HIDE DEF e
<1>8. Held(f, c) /\ Held(f, e)
  BY <1>1, <1>3, <1>4, <1>5, <1>6, HeldOn
<1>9. c.slots = f.slots /\ c.skips = f.skips
  BY <1>1, <1>3, <1>4
<1>10. f.skips => (FirstWinterStanding(c) <=> stands)
  BY <1>8, <1>9 DEF FirstWinterStanding, Held
<1> HIDE DEF stands
<1>11. e.slots = d.slots /\ e.skips = d.skips
  BY <1>6
<1>12. f.skips => e.slots = f.slots /\ (e.skips <=> ~stands)
  BY <1>5, <1>9, <1>10, <1>11, Zenon
<1>13. ~f.skips => e.slots = <<f.slots[2], f.slots[3], f.slots[1]>> /\ ~e.skips
  BY <1>5, <1>9, <1>11, Zenon
<1> QED BY <1>7, <1>8, <1>12, <1>13 DEF stands

\* The slots are counted from the new year's, one of them over.
LEMMA TurnedSlots ==
  ASSUME NEW f, NEW g, Held(f, g), NEW b, NEW c, NEW m, NEW n, SlotsIn(f, b, m),
         f.kind # "arable" => g = f,
         f.kind = "arable" /\ f.skips =>
           /\ g.slots = f.slots
           /\ g.skips <=> ~(f.phase = "growing" /\ Winter(f.crop) /\ f.crop = f.slots[1]),
         f.kind = "arable" /\ ~f.skips =>
           g.slots = <<f.slots[2], f.slots[3], f.slots[1]>> /\ ~g.skips,
         f.phase # "sowing" => c.slot = 0,
         f.skips =>
           /\ f.phase = "sowing" => c.slot = b.slot
           /\ c.used = b.used
           /\ c.excused = (IF f.phase = "sowing" /\ b.slot # 0 THEN b.excused + 1
                           ELSE b.excused),
         ~f.skips =>
           /\ f.phase = "sowing" => c.slot = Above(b.slot, 1)
           /\ c.used = Above(b.used, 1)
           /\ c.excused = 0
  PROVE  SlotsIn(g, c, n)
<1>1. b.slot \in 0..2 /\ b.used \in 0..2 /\ b.excused \in Nat
  BY DEF SlotsIn
<1>2. Above(0, 1) = 0 /\ Above(1, 1) = 0 /\ Above(2, 1) = 1
  BY DEF Above
<1>3. c.slot \in 0..2 /\ c.used \in 0..2 /\ c.excused \in Nat
  BY <1>1, <1>2
<1>4. CASE f.kind = "arable" /\ ~f.skips
  <2>1. g.slots[1] = f.slots[2] /\ ~g.skips /\ g.kind = "arable"
    BY <1>4 DEF Held
  <2>2. ASSUME c.slot # 0 PROVE Prepared(g, c.slot, c.used, c.excused, n)
    <3>1. b.slot = 2 /\ f.phase = "sowing" /\ c.slot = 1
      BY <1>1, <1>2, <1>4, <2>2
    <3>2. /\ f.crop = f.slots[2] /\ f.crop # None /\ 2 > b.used
      BY <1>4, <3>1 DEF SlotsIn, Prepared
    <3>3. c.used = 0
      BY <1>1, <1>2, <1>4, <3>2
    <3>4. g.phase = "sowing" /\ g.crop = f.crop
      BY <3>1 DEF Held
    <3> QED BY <2>1, <3>1, <3>2, <3>3, <3>4 DEF Prepared
  <2>3. c.used # 2
    BY <1>1, <1>2, <1>4
  <2>4. ASSUME c.used = 1 PROVE FirstUsed(g, c.excused, n)
    <3>1. b.used = 2
      BY <1>1, <1>2, <1>4, <2>4
    <3>2. f.slots[2] # None /\ Winter(f.slots[2])
      BY <3>1 DEF SlotsIn, SecondUsed, Stands
    <3> QED BY <2>1, <3>2 DEF FirstUsed
  <2> QED BY <1>3, <2>1, <2>2, <2>3, <2>4 DEF SlotsIn
<1>5. CASE f.kind = "arable" /\ f.skips
  <2>1. c.used = b.used /\ g.slots = f.slots /\ g.kind = "arable"
    BY <1>5 DEF Held
  <2>2. c.used # 2
    BY <1>5, <2>1 DEF SlotsIn, SecondUsed
  <2>3. ASSUME c.used = 1 PROVE FirstUsed(g, c.excused, n)
    <3>1. Winter(f.slots[1]) /\ f.slots[1] # None /\ (b.excused >= 1 \/ Stands(f, 1))
      BY <1>5, <2>1, <2>3 DEF SlotsIn, FirstUsed, Winter
    <3>2. b.excused >= 1 => c.excused >= 1
      BY <1>1, <1>5
    <3>3. Stands(f, 1) => ~g.skips
      BY <1>5, <3>1 DEF Stands
    <3> QED BY <2>1, <3>1, <3>2, <3>3 DEF FirstUsed
  <2>4. ASSUME c.slot # 0 PROVE Prepared(g, c.slot, c.used, c.excused, n)
    <3>1. f.phase = "sowing" /\ c.slot = b.slot /\ c.excused = b.excused + 1
      BY <1>5, <2>4
    <3>2. /\ f.crop = f.slots[b.slot] /\ f.crop # None /\ b.slot # 2 /\ Winter(f.crop)
          /\ b.slot > b.used \/ b.excused >= 1
      BY <1>5, <2>4, <3>1 DEF SlotsIn, Prepared
    <3>3. g.phase = "sowing" /\ g.crop = f.crop
      BY <3>1 DEF Held
    <3>4. g.skips
      BY <1>5, <3>1
    <3>5. c.excused >= 1 /\ c.excused >= (IF c.slot > c.used THEN 1 ELSE 2)
      BY <1>1, <2>1, <3>1, <3>2
    <3> QED BY <2>1, <3>1, <3>2, <3>3, <3>4, <3>5 DEF Prepared
  <2> QED BY <1>3, <2>1, <2>2, <2>3, <2>4 DEF SlotsIn
<1>6. CASE f.kind # "arable"
  <2>1. b.slot = 0 /\ b.used # 2 /\ g = f /\ c.slot = 0
    <3>1. b.slot = 0 /\ b.used # 2 /\ g = f
      BY <1>6 DEF SlotsIn, Prepared, SecondUsed, Stands
    <3> QED BY <1>2, <3>1
  <2>2. CASE f.skips
    <3>1. c.used = b.used /\ c.excused = b.excused
      BY <2>1, <2>2
    <3>2. c.used = 1 => FirstUsed(g, c.excused, n)
      BY <1>6, <2>1, <2>2, <3>1 DEF SlotsIn, FirstUsed, Stands
    <3> QED BY <1>3, <2>1, <3>1, <3>2 DEF SlotsIn
  <2>3. CASE ~f.skips
    <3>1. c.used = 0
      BY <1>1, <1>2, <2>1, <2>3
    <3> QED BY <1>3, <2>1, <3>1 DEF SlotsIn
  <2> QED BY <2>2, <2>3
<1> QED BY <1>4, <1>5, <1>6

\* What November said of the arriving slot is what the turn finds of it.
LEMMA TurnedTold ==
  ASSUME NEW w, NEW v, NEW day \in Nat, v.day = day + 1, DayOfYear(v.day) = 0,
         Held(w.f, v.f), Dated(w.f, day), IsRow(w.f), Announced(w, day),
         v.b.said = w.b.said,
         w.f.kind = "arable" /\ w.f.skips =>
           /\ v.f.slots = w.f.slots
           /\ v.f.skips <=> ~(w.f.phase = "growing" /\ Winter(w.f.crop)
                                /\ w.f.crop = w.f.slots[1]),
         w.f.kind = "arable" /\ ~w.f.skips =>
           v.f.slots = <<w.f.slots[2], w.f.slots[3], w.f.slots[1]>> /\ ~v.f.skips
  PROVE  Foretold(v)
<1> DEFINE f == w.f  g == v.f
<1>1. ASSUME v.b.said # "unasked", ~StillReaped(g)
      PROVE  v.b.said = "lost" <=> WinterSlotLost(g, v.day)
  <2>1. f.kind = "arable" /\ (v.b.said = "lost" <=> ArrivingWinterSlotLost(f))
    BY <1>1 DEF Announced
  <2>2. ~ThisYear(g.reaped_day, v.day)
    <3>1. g.reaped_day = f.reaped_day /\ f.reaped_day \in Nat \cup {Never}
      BY DEF Held, IsRow, Typed, Stamp
    <3>2. YearOf(v.day) = YearOf(day) + 1 /\ YearOf(day) \in Nat
      BY NextDay, Dates
    <3>3. f.reaped_day # Never => YearOf(f.reaped_day) \in Nat
      BY <3>1, Dates
    <3> QED BY <3>1, <3>2, <3>3 DEF ThisYear, Dated
  <2>3. g.assigned = f.assigned
    BY DEF Held
  <2>4. CASE f.skips
    <3>1. ~ArrivingWinterSlotLost(f)
      BY <2>4 DEF ArrivingWinterSlotLost
    <3>2. ~WinterSlotLost(g, v.day)
      <4>1. CASE g.skips
        BY <4>1 DEF WinterSlotLost
      <4>2. CASE ~g.skips
        <5>1. f.phase = "growing" /\ Winter(f.crop) /\ f.crop = g.slots[1]
          BY <2>1, <2>4, <4>2
        <5>2. g.phase = "growing" /\ g.crop = f.crop
          BY <5>1 DEF Held
        <5> QED BY <5>1, <5>2 DEF WinterSlotLost
      <4> QED BY <4>1, <4>2
    <3> QED BY <2>1, <3>1, <3>2
  <2>5. CASE ~f.skips
    <3>1. g.slots[1] = f.slots[2] /\ ~g.skips
      BY <2>1, <2>5
    <3>2. CASE ~Winter(f.slots[2])
      BY <2>1, <3>1, <3>2 DEF WinterSlotLost, ArrivingWinterSlotLost
    <3>3. CASE Winter(f.slots[2])
      <4>1. (f.crop = f.slots[2] /\ f.phase \in {"sowing", "growing"}) <=>
              (g.crop = g.slots[1] /\ g.phase \in {"sowing", "growing"})
        BY <3>1, <3>3 DEF Held
      <4>2. ~(g.crop = g.slots[1] /\ g.phase = "harvest")
        BY <1>1, <3>1, <3>3 DEF StillReaped
      <4> HIDE DEF f, g
      <4> QED BY <2>1, <2>2, <2>3, <2>5, <3>1, <3>3, <4>1, <4>2
              DEF WinterSlotLost, ArrivingWinterSlotLost, HasRotation
    <3> QED BY <3>2, <3>3
  <2> QED BY <2>4, <2>5
<1>2. v.b.said # "unasked" => g.kind = "arable"
  BY DEF Announced, Held
<1> QED BY <1>1, <1>2 DEF Foretold

\* At the turn the books of the old year become the books of the new.
LEMMA YearStartBooks ==
  ASSUME NEW w, IsWorld(w), NEW day \in Nat, w.day = day + 1, DayOfYear(w.day) = 0,
         FurrowOpen(w.f), NEW dung \in Nat, Books(w, day), Announced(w, day)
  PROVE  LET v == RunYearStart(w, dung) IN Books(v, v.day) /\ Foretold(v)
<1> DEFINE f == w.f  g == IF Arable(f) THEN TurnField(f, w.day) ELSE f
           history == TurnHistory(w.b, f, w.day)
           u == [w EXCEPT !.f = g, !.b = history]
           v == BookManureDoses(u, dung)
           bare == Arable(f) /\ StoodBare(f, w.day)
<1>1. IsRow(f) /\ Shaped(w)
  BY WorldIsShaped DEF IsWorld
<1>2. RunYearStart(w, dung) = v
  BY <1>1 DEF RunYearStart, Shaped
<1>3. /\ IsRow(g) /\ Held(f, g)
      /\ f.kind # "arable" => g = f
      /\ f.kind = "arable" /\ f.skips =>
           /\ g.slots = f.slots
           /\ g.skips <=> ~(f.phase = "growing" /\ Winter(f.crop) /\ f.crop = f.slots[1])
      /\ f.kind = "arable" /\ ~f.skips =>
           g.slots = <<f.slots[2], f.slots[3], f.slots[1]>> /\ ~g.skips
  <2>1. CASE Arable(f)
    <3>1. g = TurnField(f, w.day) /\ f.kind = "arable"
      BY <2>1 DEF Arable
    <3> HIDE DEF g
    <3> QED BY <1>1, <3>1, TurnRow, TurnHeld DEF Turned
  <2>2. CASE ~Arable(f)
    BY <1>1, <2>2 DEF Arable, Held, IsRow, Typed
  <2> QED BY <2>1, <2>2
<1>4. /\ DOMAIN history = DOMAIN w.b /\ history.hay = 0
      /\ history.rests = IF bare THEN w.b.rests + 1 ELSE w.b.rests
      /\ f.phase # "sowing" => history.slot = 0
      /\ f.skips =>
           /\ f.phase = "sowing" => history.slot = w.b.slot
           /\ history.used = w.b.used
           /\ history.excused = (IF f.phase = "sowing" /\ w.b.slot # 0 THEN w.b.excused + 1
                                 ELSE w.b.excused)
      /\ ~f.skips =>
           /\ f.phase = "sowing" => history.slot = Above(w.b.slot, 1)
           /\ history.used = Above(w.b.used, 1)
           /\ history.excused = 0
      /\ history.said = w.b.said /\ history.laid = w.b.laid
      /\ history.whole = w.b.whole /\ history.short = w.b.short
  BY <1>1 DEF TurnHistory, Shaped
<1>5. history.rests \in Nat
  BY <1>4 DEF IsWorld
<1> HIDE DEF g, history, bare
<1>6. /\ DOMAIN u = DOMAIN w /\ u.f = g /\ u.b = history /\ u.day = w.day
      /\ u.sky = w.sky /\ u.col = w.col
  BY <1>1 DEF Shaped
<1> HIDE DEF u
<1>7. IsWorld(u)
  BY <1>3, <1>4, <1>5, <1>6 DEF IsWorld
<1>8. SlotsIn(u.f, u.b, MonthOf(u.day))
  <2>1. SlotsIn(f, w.b, MonthOf(day))
    BY DEF Books
  <2> QED BY <1>3, <1>4, <1>6, <2>1, TurnedSlots
<1>9. Dated(u.f, u.day)
  <2>1. YearOf(w.day) = YearOf(day) + 1 /\ YearOf(day) \in Nat
    BY NextDay, Dates
  <2>2. g.reaped_day = f.reaped_day /\ f.reaped_day \in Nat \cup {Never}
    BY <1>1, <1>3 DEF Held, IsRow, Typed, Stamp
  <2>3. f.reaped_day # Never => YearOf(f.reaped_day) \in Nat
    BY <2>2, Dates
  <2> QED BY <1>6, <2>1, <2>2, <2>3 DEF Dated, Books
<1>10. Grams(u)
  <2>1. Reaping(u) <=> Reaping(w)
    BY <1>3, <1>6 DEF Reaping, Held
  <2>2. Reaping(w) => g.laid_share = f.laid_share /\ g.laid_grams = f.laid_grams
                      /\ Yield(g) = Yield(f)
    BY <1>3 DEF Reaping, Held
  <2>3. Grams(w)
    BY DEF Books
  <2> QED BY <1>4, <1>6, <2>1, <2>2, <2>3 DEF Grams, GramsIn
<1>11. Rounded(u)
  BY <1>4, <1>6 DEF Books, Rounded
<1>12. Foretold(u)
  BY <1>1, <1>3, <1>4, <1>6, TurnedTold DEF Books
<1>13. Carries(u, v, u.day) /\ Foretells(u, v) /\ v.day = u.day
  BY <1>7, BookUnmoved, UnmovedCarries DEF Unmoved
<1> HIDE DEF v
<1> QED BY <1>2, <1>8, <1>9, <1>10, <1>11, <1>12, <1>13 DEF Carries, Foretells, Books

-----------------------------------------------------------------------------
(* The fields' day, as the books have it.                                  *)

LEMMA ForetellsOn ==
  ASSUME NEW w, NEW v, NEW u, v.day = w.day, Carries(w, v, w.day), Foretells(w, v),
         Carries(v, u, v.day), Foretells(v, u)
  PROVE  Carries(w, u, w.day) /\ Foretells(w, u)
BY DEF Carries, Foretells

LEMMA LaidFieldsCarry ==
  ASSUME NEW w, IsWorld(w), NEW in
  PROVE  LET v == RunLaidFields(w, in) IN Carries(w, v, w.day) /\ Foretells(w, v)
<1> DEFINE f == w.f  v == RunLaidFields(w, in)
<1>1. f.kind \in {"arable", "meadow", "gone"}
  BY DEF IsWorld, IsRow, Typed
<1>2. ASSUME v = w PROVE Carries(w, v, w.day) /\ Foretells(w, v)
  BY <1>2 DEF Carries, Foretells
<1>3. CASE f.kind = "meadow"
  <2>1. v = RunMeadow(w)
    BY <1>3 DEF RunLaidFields, Arable
  <2> QED BY <1>3, <2>1, MeadowUnmoved, UnmovedCarries
<1>4. CASE f.kind = "arable" /\ f.phase = "idle"
  <2>1. v = TrySow(w, in)
    BY <1>4 DEF RunLaidFields, Arable
  <2> QED BY <1>4, <2>1, TrySowCarries
<1>5. CASE f.kind = "arable" /\ f.phase \in {"growing", "harvest"} /\ f.crop = None
  <2>1. v = TrySowOnBlackFallow(w, in.dung)
    BY <1>5 DEF RunLaidFields, Arable
  <2> QED BY <1>5, <2>1, BlackFallowCarries
<1>6. CASE f.kind = "arable" /\ f.phase \in {"growing", "harvest"} /\ f.crop # None
  <2>1. \/ /\ v = LoseFieldToSnow(w) /\ ~Winter(f.crop) /\ w.sky = "snow"
           /\ MonthOf(w.day) >= Crop[f.crop].reapFrom
        \/ v = OpenPhase(w, "harvest") /\ f.phase = "growing" /\ ReapingMayOpen(f, w.day)
        \/ v = w
    BY <1>6 DEF RunLaidFields, Arable
  <2> QED BY <1>2, <1>6, <2>1, SnowCarries, ReapingCarries
<1>7. CASE \/ f.kind = "gone"
           \/ f.kind = "arable" /\ f.phase \notin {"idle", "growing", "harvest"}
  <2>1. v = w
    BY <1>7 DEF RunLaidFields, Arable
  <2> QED BY <1>2, <2>1
<1> QED BY <1>1, <1>3, <1>4, <1>5, <1>6, <1>7

LEMMA FieldsCarry ==
  ASSUME NEW w, IsWorld(w), NEW in
  PROVE  LET v == RunFields(w, in) IN Carries(w, v, w.day) /\ Foretells(w, v)
<1> DEFINE a == LayReapedShare(w)  b == LayMownShare(a)  v == RunLaidFields(b, in)
<1>1. IsWorld(a) /\ a.day = w.day /\ Carries(w, a, w.day) /\ Foretells(w, a)
  BY LayReapedGoes, LaidCarries DEF Goes
<1> HIDE DEF a
<1>2. IsWorld(b) /\ b.day = a.day /\ Carries(a, b, a.day) /\ Foretells(a, b)
  BY <1>1, LayMownGoes, MownUnmoved, UnmovedCarries DEF Goes
<1> HIDE DEF b
<1>3. Carries(b, v, b.day) /\ Foretells(b, v)
  BY <1>2, LaidFieldsCarry
<1>4. RunFields(w, in) = v
  BY DEF RunFields, a, b
<1> HIDE DEF v
<1>5. Carries(w, b, w.day) /\ Foretells(w, b)
  BY <1>1, <1>2, ForetellsOn
<1> QED BY <1>1, <1>2, <1>3, <1>4, <1>5, ForetellsOn

-----------------------------------------------------------------------------
(* The ticks, as the books have them.                                      *)

LEMMA KeepColumnUnmoved ==
  ASSUME NEW w, IsWorld(w), NEW season, NEW cart
  PROVE  Unmoved(w, KeepColumnField(w, season, cart))
<1> DEFINE goes == cart /\ season = "autumn" /\ ColumnHere(w, season)
           u == CarryShare(w, goes)  c == [u EXCEPT !.col = Never]
           v == KeepColumnField(w, season, cart)
<1>1. v = w \/ v = HoldCrewShare(w) \/ v = c
  BY Zenon DEF KeepColumnField
<1> HIDE DEF v, goes
<1>2. Keeps(w, u, w.day) /\ Unmoved(w, u)
  BY CarryShareKeeps, CartUnmoved
<1> HIDE DEF u
<1>3. IsWorld(u)
  BY <1>2 DEF Keeps, Goes
<1>4. Unmoved(u, c)
  BY <1>3, ColumnUnmoved
<1> HIDE DEF c
<1>5. Unmoved(w, c)
  BY <1>2, <1>4, UnmovedOn
<1> QED BY <1>1, <1>5, HoldUnmoved, UnmovedStill DEF v

LEMMA DecideCarries ==
  ASSUME NEW w, IsWorld(w), NEW in, IsOrder(in.order, w.f), in.seed \in 0..2,
         NEW day \in Nat, day = w.day \/ MonthOf(w.day) = 0,
         Reaping(w) /\ w.f.work = 0 => day = w.day
  PROVE  Carries(w, Decide(w, in), day)
<1> DEFINE u == Ordered(w, in.order)  s == AdvanceFinishedField(u, in.seed)
           v == KeepColumnField(s, left.column, in.cart)
<1>1. Goes(w, u, day) /\ Obeys(w, u) /\ Carries(w, u, day)
  BY OrderGoes, OrderCarries
<1>2. IsWorld(u) /\ u.day = w.day
  BY <1>1 DEF Goes
<1>3. Reaping(u) /\ u.f.work = 0 => day = u.day
  BY <1>1, <1>2 DEF Obeys, Reaping
<1> HIDE DEF u
<1>4. Goes(u, s, day)
  BY <1>2, <1>3, AdvanceGoes DEF Reaping
<1>5. Carries(u, s, day)
  BY <1>2, <1>3, AdvanceCarries
<1> HIDE DEF s
<1>6. IsWorld(s)
  BY <1>4 DEF Goes
<1>7. Carries(s, v, day)
  BY <1>6, KeepColumnUnmoved, UnmovedCarries
<1>8. v = Decide(w, in)
  BY DEF Decide, s, u
<1> HIDE DEF v
<1>9. Carries(w, s, day)
  BY <1>1, <1>5, CarriesOn
<1> QED BY <1>7, <1>8, <1>9, CarriesOn

LEMMA WorkedOut ==
  ASSUME NEW w, IsWorld(w), w.f.phase # "idle"
  PROVE  LET v == [w EXCEPT !.f.work = 0] IN IsWorld(v) /\ v.day = w.day /\ Unmoved(w, v)
<1> DEFINE v == [w EXCEPT !.f.work = 0]
<1>1. Goes(w, v, "any") /\ v.f.phase = w.f.phase
  BY WorkMoves, Numbers
<1>2. Unmoved(w, v)
  BY WorkUnmoved
<1> QED BY <1>1, <1>2 DEF Goes

LEMMA FollowCarries ==
  ASSUME NEW s, DOMAIN s = {"w", "halt"}, IsWorld(s.w), NEW season, NEW seed \in 0..2
  PROVE  LET r == FollowColumn(s, season, seed)
         IN Carries(s.w, r.w, s.w.day) /\ r.w.day = s.w.day
<1> DEFINE r == FollowColumn(s, season, seed)  w == s.w
           u == [w EXCEPT !.f.work = 0]  d == AdvanceFinishedField(u, seed)
           halt == IF d.f.phase = w.f.phase THEN "waits" ELSE "no"
<1>1. FollowedBy(s, r)
  BY FollowGoes
<1>2. r.w.day = w.day
  BY <1>1 DEF FollowedBy, Keeps, Goes
<1>3. r.w = w \/ (r = [w |-> d, halt |-> halt] /\ InSeasonChain(w.f, season))
  <2>1. r = s \/ r = [s EXCEPT !.halt = "rain"]
        \/ (r = [w |-> d, halt |-> halt] /\ InSeasonChain(w.f, season))
    BY Zenon DEF FollowColumn
  <2> HIDE DEF r, d
  <2> QED BY <2>1
<1> HIDE DEF r
<1>4. CASE r.w = w
  BY <1>2, <1>4 DEF Carries, r
<1>5. CASE r = [w |-> d, halt |-> halt] /\ InSeasonChain(w.f, season)
  <2>1. w.f.phase # "idle"
    BY <1>5 DEF InSeasonChain
  <2>2. IsWorld(u) /\ u.day = w.day /\ Unmoved(w, u)
    BY <2>1, WorkedOut
  <2>3. Carries(w, u, w.day)
    BY <2>2, UnmovedCarries
  <2> HIDE DEF u
  <2>4. w.day \in Nat
    BY DEF IsWorld
  <2>5. Carries(u, d, w.day)
    BY <2>2, <2>4, AdvanceCarries
  <2> HIDE DEF d
  <2>6. r.w = d
    BY <1>5
  <2> QED BY <1>2, <2>3, <2>5, <2>6, CarriesOn DEF r
<1> QED BY <1>3, <1>4, <1>5

LEMMA FinishCarries ==
  ASSUME NEW w, IsWorld(w), NEW season, NEW in, in.seed \in 0..2
  PROVE  Carries(w, FinishColumnField(w, season, in), w.day)
<1> DEFINE v == FinishColumnField(w, season, in)  s == [w |-> w, halt |-> "no"]
           r == FollowColumn(s, season, in.seed)  q == FollowColumn(r, season, in.seed)
           p == FollowColumn(q, season, in.seed)
           u == IF InSeasonChain(p.w.f, season) THEN [p.w EXCEPT !.f.work = 0] ELSE p.w
           goes == in.cart /\ season = "autumn"
           c == CarryShare(u, goes)
<1>1. v = IF p.halt = "rain" THEN p.w ELSE [c EXCEPT !.col = Never]
  BY Zenon DEF FinishColumnField
<1>2. DOMAIN s = {"w", "halt"} /\ s.w = w
  OBVIOUS
<1> HIDE DEF s, v
<1>3. FollowedBy(s, r) /\ DOMAIN r = {"w", "halt"} /\ Carries(w, r.w, w.day)
      /\ r.w.day = w.day
  BY <1>2, FollowGoes, FollowCarries
<1> HIDE DEF r
<1>4. IsWorld(r.w)
  BY <1>3 DEF FollowedBy, Keeps, Goes
<1>5. FollowedBy(r, q) /\ DOMAIN q = {"w", "halt"} /\ Carries(r.w, q.w, w.day)
      /\ q.w.day = w.day
  BY <1>3, <1>4, FollowGoes, FollowCarries
<1> HIDE DEF q
<1>6. IsWorld(q.w)
  BY <1>5 DEF FollowedBy, Keeps, Goes
<1>7. FollowedBy(q, p) /\ Carries(q.w, p.w, w.day)
  BY <1>5, <1>6, FollowGoes, FollowCarries
<1> HIDE DEF p
<1>8. IsWorld(p.w)
  BY <1>7 DEF FollowedBy, Keeps, Goes
<1>9. Carries(w, p.w, w.day)
  BY <1>3, <1>5, <1>7, CarriesOn
<1>10. IsWorld(u) /\ Unmoved(p.w, u)
  <2>1. CASE InSeasonChain(p.w.f, season)
    <3> DEFINE e == [p.w EXCEPT !.f.work = 0]
    <3>1. p.w.f.phase # "idle"
      BY <2>1 DEF InSeasonChain
    <3>2. IsWorld(e) /\ Unmoved(p.w, e)
      BY <1>8, <3>1, WorkedOut
    <3>3. u = e
      BY <2>1
    <3> HIDE DEF e
    <3> QED BY <3>2, <3>3
  <2>2. CASE ~InSeasonChain(p.w.f, season)
    BY <1>8, <2>2, UnmovedStill
  <2> QED BY <2>1, <2>2
<1> HIDE DEF u
<1>11. Keeps(u, c, w.day) /\ Unmoved(u, c)
  BY <1>10, CarryShareKeeps, CartUnmoved
<1> HIDE DEF c
<1>12. Unmoved(c, [c EXCEPT !.col = Never])
  BY <1>11, ColumnUnmoved DEF Keeps, Goes
<1>13. Carries(w, [c EXCEPT !.col = Never], w.day)
  <2>1. Unmoved(p.w, [c EXCEPT !.col = Never])
    BY <1>10, <1>11, <1>12, UnmovedOn
  <2>2. Carries(p.w, [c EXCEPT !.col = Never], w.day)
    BY <2>1, UnmovedCarries
  <2> QED BY <1>9, <2>2, CarriesOn
<1> QED BY <1>1, <1>9, <1>13 DEF v

LEMMA ColumnDayCarries ==
  ASSUME NEW w, IsWorld(w), NEW season, NEW in, in.seed \in 0..2, in.column \in 0..Parts
  PROVE  Carries(w, WorkColumnDay(w, season, in), w.day)
<1> DEFINE v == WorkColumnDay(w, season, in)
           n == IF w.col = Never THEN Parts - w.f.work ELSE w.col
           b == [w EXCEPT !.col = n]
           m == Least(b.col + in.column, Parts)
           d == [b EXCEPT !.col = m]
<1>1. /\ w.f.work \in 0..Parts /\ w.col \in {Never} \cup 0..Parts /\ Parts \in Nat
  BY Numbers DEF IsWorld, IsRow, Typed
<1>2. n \in 0..Parts
  BY <1>1
<1>3. v \in {w, b, FinishColumnField(d, season, in), HoldCrewShare(d)}
  <2>1. b = [w EXCEPT !.col = IF w.col = Never THEN Parts - w.f.work ELSE w.col]
    OBVIOUS
  <2>2. v = w \/ v = b \/ v = FinishColumnField(d, season, in) \/ v = HoldCrewShare(d)
    BY Zenon DEF WorkColumnDay
  <2> HIDE DEF v, b, d
  <2> QED BY <2>2
<1> HIDE DEF v, n
<1>4. Keeps(w, b, w.day) /\ b.col = n
  BY <1>2, ColumnKeeps
<1>5. Unmoved(w, b)
  BY ColumnUnmoved
<1> HIDE DEF b
<1>6. IsWorld(b) /\ b.day = w.day
  BY <1>4 DEF Keeps, Goes
<1>7. m \in 0..Parts
  BY <1>1, <1>2, <1>4 DEF Least
<1> HIDE DEF m
<1>8. Keeps(b, d, w.day)
  BY <1>6, <1>7, ColumnKeeps
<1>9. Unmoved(b, d)
  BY <1>6, ColumnUnmoved
<1> HIDE DEF d
<1>10. IsWorld(d) /\ d.day = w.day /\ Unmoved(w, d)
  BY <1>5, <1>6, <1>8, <1>9, UnmovedOn DEF Keeps, Goes
<1>11. Carries(w, b, w.day) /\ Carries(w, d, w.day)
  BY <1>5, <1>10, UnmovedCarries
<1>12. Carries(d, FinishColumnField(d, season, in), w.day)
  BY <1>10, FinishCarries
<1>13. Carries(d, HoldCrewShare(d), w.day)
  BY <1>10, HoldUnmoved, UnmovedCarries
<1>14. Carries(w, FinishColumnField(d, season, in), w.day)
  BY <1>11, <1>12, CarriesOn
<1>15. Carries(w, HoldCrewShare(d), w.day)
  BY <1>11, <1>13, CarriesOn
<1>16. Carries(w, w, w.day)
  BY DEF Carries
<1> QED BY <1>3, <1>11, <1>14, <1>15, <1>16 DEF v

LEMMA CarryUnmoved ==
  ASSUME NEW w, IsWorld(w), NEW in
  PROVE  Unmoved(w, Carry(w, in))
<1> DEFINE u == CarryShare(w, in.cart)
<1>1. Keeps(w, u, w.day) /\ Unmoved(w, u)
  BY CarryShareKeeps, CartUnmoved
<1>2. Carry(w, in) = SettleManureDoses(u, in.moved)
  BY DEF Carry
<1> HIDE DEF u
<1>3. Unmoved(u, SettleManureDoses(u, in.moved))
  BY <1>1, SettleUnmoved DEF Keeps, Goes
<1> QED BY <1>1, <1>2, <1>3, UnmovedOn

\* The hands, and what is decided after them.
LEMMA HandsCarry ==
  ASSUME NEW w, IsWorld(w), NEW in, IsGiven(w, in)
  PROVE  Carries(w, Decide([w EXCEPT !.f.work = @ - in.hands], in), w.day)
<1> DEFINE n == w.f.work - in.hands  u == [w EXCEPT !.f.work = n]
<1>1. w.f.work \in 0..Parts
  BY DEF IsWorld, IsRow, Typed
<1>2. n \in 0..Parts /\ (w.f.phase = "idle" => n = w.f.work)
  BY <1>1, Numbers DEF IsGiven
<1>3. u = [w EXCEPT !.f.work = @ - in.hands]
  OBVIOUS
<1> HIDE DEF n
<1>4. /\ Goes(w, u, w.day) /\ u.f.phase = w.f.phase /\ u.f.furrowing = w.f.furrowing
  BY <1>2, WorkMoves
<1>5. Unmoved(w, u)
  BY WorkUnmoved
<1> HIDE DEF u
<1>6. IsWorld(u) /\ u.day = w.day /\ w.day \in Nat
  BY <1>4 DEF Goes, IsWorld
<1>7. IsOrder(in.order, u.f) /\ in.seed \in 0..2
  BY <1>4 DEF IsGiven, IsOrder
<1>8. Carries(u, Decide(u, in), w.day)
  BY <1>6, <1>7, DecideCarries
<1>9. Carries(w, u, w.day)
  BY <1>5, UnmovedCarries
<1> QED BY <1>3, <1>8, <1>9, CarriesOn

LEMMA WorkingTickCarries ==
  ASSUME NEW w, IsWorld(w), Tilled(w), NEW in, IsGiven(w, in)
  PROVE  Carries(w, WorkingTick(w, in), w.day)
<1> DEFINE u == Decide([w EXCEPT !.f.work = @ - in.hands], in)
<1>1. Keeps(w, u, w.day) /\ Carries(w, u, w.day)
  BY HandsGoes, HandsCarry
<1>2. WorkingTick(w, in) = Carry(u, in)
  BY DEF WorkingTick
<1> HIDE DEF u
<1>3. Carries(u, Carry(u, in), w.day)
  BY <1>1, CarryUnmoved, UnmovedCarries DEF Keeps, Goes
<1> QED BY <1>1, <1>2, <1>3, CarriesOn

LEMMA LastTickCarries ==
  ASSUME NEW w, IsWorld(w), Tilled(w), DayIn(w), NEW in, IsGiven(w, in)
  PROVE  Carries(w, LastTick(w, in), w.day)
<1> DEFINE d == Decide([w EXCEPT !.f.work = @ - in.hands], in)
           c == IF ColumnHere(w, left.column) THEN WorkColumnDay(d, left.column, in) ELSE d
           a == Carry(c, in)
           b == IF SledgeDay(w) THEN BookManureDoses(a, in.dung) ELSE a
           p == PriceManureDoses(b)  v == CloseMeadowCutsAtSeasonsEnd(p)
<1>1. /\ Keeps(w, d, w.day) /\ ColumnLeaves(d) /\ Carries(w, d, w.day)
      /\ in.moved <= d.f.dose.due \/ d.f.dose = NoDose
  BY HandsGoes, HandsCarry
<1>2. v = LastTick(w, in)
  BY Zenon DEF LastTick
<1> HIDE DEF d
<1>3. /\ IsWorld(d) /\ d.day = w.day /\ in.moved \in Nat /\ in.seed \in 0..2
      /\ in.dung \in Nat /\ in.column \in 0..Parts
  BY <1>1 DEF Keeps, Goes, IsGiven
<1>4. Keeps(d, c, w.day)
  BY <1>1, <1>3, ColumnDayGoes, KeepsStill
<1>5. Carries(d, c, w.day)
  <2>1. Carries(d, d, w.day)
    BY DEF Carries
  <2> QED BY <1>3, <2>1, ColumnDayCarries
<1> HIDE DEF c
<1>6. IsWorld(c) /\ (in.moved <= c.f.dose.due \/ c.f.dose = NoDose)
  BY <1>1, <1>4 DEF Keeps, Goes, DoseKept
<1>7. IsWorld(a) /\ Unmoved(c, a)
  BY <1>3, <1>6, CarryGoes, CarryUnmoved DEF Goes
<1> HIDE DEF a
<1>8. IsWorld(b) /\ Unmoved(a, b)
  <2>1. CASE SledgeDay(w)
    BY <1>3, <1>7, <2>1, BookGoes, BookUnmoved DEF Goes
  <2>2. CASE ~SledgeDay(w)
    BY <1>7, <2>2, UnmovedStill
  <2> QED BY <2>1, <2>2
<1> HIDE DEF b
<1>9. IsWorld(p) /\ Unmoved(b, p)
  BY <1>8, PriceGoes, PriceUnmoved DEF Goes
<1> HIDE DEF p
<1>10. Unmoved(p, v)
  BY <1>9, SeasonsEndUnmoved
<1> HIDE DEF v
<1>11. Unmoved(c, v)
  BY <1>7, <1>8, <1>9, <1>10, UnmovedOn
<1>12. Carries(c, v, w.day)
  BY <1>11, UnmovedCarries
<1>13. Carries(w, c, w.day)
  BY <1>1, <1>5, CarriesOn
<1> QED BY <1>2, <1>12, <1>13, CarriesOn

-----------------------------------------------------------------------------
(* The night, and the first tick of a day, as the books have them.         *)

\* A count begun anew.
LEMMA RecountCarries ==
  ASSUME NEW w, NEW v, v.f = w.f, v.b.slot = w.b.slot, v.b.used = w.b.used,
         v.b.excused = w.b.excused, v.b.laid = w.b.laid, v.b.whole = w.b.whole,
         v.b.short = 0, v.b.said \in {w.b.said, "unasked"}, NEW day
  PROVE  Carries(w, v, day)
<1>1. SlotsIn(w.f, w.b, MonthOf(day)) => SlotsIn(v.f, v.b, MonthOf(day))
  BY DEF SlotsIn
<1>2. Grams(w) => Grams(v)
  BY DEF Grams, GramsIn, Reaping
<1>3. Rounded(v)
  BY DEF Rounded
<1>4. Announced(w, day) => Announced(v, day)
  BY DEF Announced
<1> QED BY <1>1, <1>2, <1>3, <1>4 DEF Carries, Books

\* A day of the same year only makes it later.
LEMMA BooksAge ==
  ASSUME NEW w, IsWorld(w), NEW day \in Nat, DayOfYear(day + 1) # 0, Books(w, day)
  PROVE  /\ Books(w, day + 1)
         /\ Announced(w, day) => Announced(w, day + 1)
<1> DEFINE f == w.f  m == MonthOf(day)  n == MonthOf(day + 1)
<1>1. YearOf(day + 1) = YearOf(day) /\ m <= n /\ m \in Nat /\ n \in Nat
  BY NextDay, Dates
<1>2. /\ f.crop # None => Crop[f.crop].from \in Nat
      /\ f.slots[1] # None => Crop[f.slots[1]].to \in Nat
  <2>1. f.crop \in Crops /\ f.slots[1] \in Crops
    BY SlotsAre DEF IsWorld, IsRow, Typed
  <2> QED BY <2>1, CropIs
<1>3. Dated(f, day + 1)
  BY <1>1 DEF Books, Dated
<1> HIDE DEF m, n
<1>4. SlotsIn(f, w.b, n)
  <2>1. SlotsIn(f, w.b, m)
    BY DEF Books, m
  <2>2. Prepared(f, w.b.slot, w.b.used, w.b.excused, m) =>
          Prepared(f, w.b.slot, w.b.used, w.b.excused, n)
    <3>1. f.crop # None /\ m >= Crop[f.crop].from => n >= Crop[f.crop].from
      BY <1>1, <1>2
    <3> QED BY <3>1 DEF Prepared, EarlySown
  <2>3. FirstUsed(f, w.b.excused, m) => FirstUsed(f, w.b.excused, n)
    <3>1. f.crop # None /\ m >= Crop[f.crop].from => n >= Crop[f.crop].from
      BY <1>1, <1>2
    <3>2. f.slots[1] # None /\ m > Crop[f.slots[1]].to => n > Crop[f.slots[1]].to
      BY <1>1, <1>2
    <3> QED BY <3>1, <3>2 DEF FirstUsed, Stands
  <2>4. SecondUsed(f, m) => SecondUsed(f, n)
    BY <1>1, <1>2 DEF SecondUsed, Stands
  <2> QED BY <2>1, <2>2, <2>3, <2>4 DEF SlotsIn
<1>5. Announced(w, day) => Announced(w, day + 1)
  <2>1. November \in Nat
    BY SeasonAssumption
  <2>2. m >= November => n >= November
    BY <1>1, <2>1
  <2> QED BY <2>2 DEF Announced, m, n
<1> QED BY <1>3, <1>4, <1>5 DEF Books, n

\* What November says is so when it is said.
LEMMA SayBooks ==
  ASSUME NEW w, IsWorld(w), DayOfYear(w.day) = November * DaysPerMonth, Books(w, w.day)
  PROVE  LET v == SayLostWinterSlots(w) IN Books(v, w.day) /\ Announced(v, w.day)
<1> DEFINE said == IF ~Arable(w.f) THEN "unasked"
                   ELSE IF ArrivingWinterSlotLost(w.f) THEN "lost" ELSE "kept"
           h == [w.b EXCEPT !.said = said]  v == [w EXCEPT !.b = h]
<1>1. SayLostWinterSlots(w) = v
  BY DEF SayLostWinterSlots
<1>2. /\ said # "unasked" => w.f.kind = "arable"
      /\ said # "unasked" => (said = "lost" <=> ArrivingWinterSlotLost(w.f))
  BY DEF Arable
<1> HIDE DEF said
<1>3. /\ h.slot = w.b.slot /\ h.used = w.b.used /\ h.excused = w.b.excused /\ h.laid = w.b.laid
      /\ h.whole = w.b.whole /\ h.short = w.b.short /\ h.said = said
  BY DEF IsWorld
<1> HIDE DEF h
<1>4. v.f = w.f /\ v.b = h /\ v.sky = w.sky
  BY DEF IsWorld
<1> HIDE DEF v
<1>5. MonthOf(w.day) = November
  <2>1. November \in Nat /\ DaysPerMonth \in Nat /\ DaysPerMonth > 0
    BY SeasonAssumption, Calendar
  <2>2. \A a \in Nat, q \in Nat : q > 0 => (a * q) \div q = a
    OBVIOUS
  <2> QED BY <2>1, <2>2 DEF MonthOf
<1>6. Announced(v, w.day)
  <2>1. November \in Nat
    BY SeasonAssumption
  <2> QED BY <1>2, <1>3, <1>4, <1>5, <2>1 DEF Announced
<1>7. SlotsIn(v.f, v.b, MonthOf(w.day))
  BY <1>3, <1>4 DEF Books, SlotsIn
<1>8. Grams(v) /\ Rounded(v)
  BY <1>3, <1>4 DEF Books, Grams, GramsIn, Reaping, Rounded
<1> QED BY <1>1, <1>4, <1>6, <1>7, <1>8 DEF Books, v

LEMMA StressedBooks ==
  ASSUME NEW w, IsWorld(w), NEW day, Books(w, day)
  PROVE  LET v == Stressed(w) IN
         /\ v.day = w.day /\ Books(v, day)
         /\ Announced(w, day) => Announced(v, day)
         /\ day = w.day /\ Foretold(w) => Foretold(v)
<1>1. Unmoved(w, Stressed(w))
  BY StressUnmoved
<1>2. Carries(w, Stressed(w), day) /\ Foretells(w, Stressed(w))
  BY <1>1, UnmovedCarries
<1> QED BY <1>1, <1>2 DEF Carries, Foretells, Unmoved

LEMMA MorningBooks ==
  ASSUME NEW w, IsWorld(w), ColumnLeaves(w), DayOfYear(w.day) # 0,
         OpensCut(w) => NoHay(w),
         NEW in, IsOrder(in.order, w.f), in.seed \in 0..2, in.dung \in Nat,
         in.order.kind = "mark" /\ Careful => ~w.f.furrowing,
         Books(w, w.day), Announced(w, w.day)
  PROVE  LET v == FirstTick(w, in) IN Books(v, w.day) /\ Announced(v, w.day)
<1> DEFINE r == RunFields(w, in)  d == Decide(r, in)
           x == IF DayOfYear(d.day) = November * DaysPerMonth THEN SayLostWinterSlots(d) ELSE d
<1>1. ColumnKept(w)
  BY DEF ColumnLeaves
<1>2. Goes(w, r, w.day) /\ Tends(w, r) /\ Carries(w, r, w.day)
  BY <1>1, FieldsGo, FieldsCarry
<1> HIDE DEF r
<1>3. IsWorld(r) /\ r.day = w.day /\ w.day \in Nat
  BY <1>2 DEF Goes, IsWorld
<1>4. IsOrder(in.order, r.f)
  BY <1>2 DEF IsOrder, Tends
<1>5. Tilled(r)
  BY <1>1, <1>2 DEF Tends, ColumnKept, Tilled
<1>6. Keeps(r, d, w.day) /\ Carries(r, d, w.day)
  BY <1>3, <1>4, <1>5, DecideGoes, DecideCarries
<1> HIDE DEF d
<1>7. IsWorld(d) /\ d.day = w.day
  BY <1>3, <1>6 DEF Keeps, Goes
<1>8. Books(d, w.day) /\ Announced(d, w.day)
  BY <1>2, <1>6 DEF Carries
<1>9. FirstTick(w, in) = Stressed(x)
  <2>1. Decide(r, in) = d /\ RunFields(w, in) = r
    BY DEF d, r
  <2>2. ~NewYear(w) /\ ~NewYear(d)
    BY <1>7 DEF NewYear
  <2> QED BY <2>1, <2>2 DEF FirstTick, DayStart
<1>10. DayOfYear(d.day) = November * DaysPerMonth =>
         LET u == SayLostWinterSlots(d) IN Books(u, w.day) /\ Announced(u, w.day)
  BY <1>7, <1>8, SayBooks
<1>11. IsWorld(x) /\ Books(x, w.day) /\ Announced(x, w.day)
  BY <1>7, <1>8, <1>10, SayGoes
<1> HIDE DEF x
<1> QED BY <1>9, <1>11, StressedBooks

LEMMA NewYearBooks ==
  ASSUME NEW w, IsWorld(w), ColumnLeaves(w), DayOfYear(w.day) = 0,
         NEW day \in Nat, w.day = day + 1, RestsBy(w, day), ~Mowing(w),
         NEW in, IsOrder(in.order, w.f), in.seed \in 0..2, in.dung \in Nat,
         Books(w, day), Announced(w, day)
  PROVE  LET v == FirstTick(w, in) IN Books(v, w.day) /\ Foretold(v)
<1> DEFINE d == Decide(w, in)  y == RunYearStart(d, in.dung)  x == RunFields(y, in)
<1>1. Tilled(w) /\ (Reaping(w) => w.f.work # 0)
  BY DEF ColumnLeaves, ColumnKept, Tilled
<1>2. MonthOf(w.day) = 0
  BY Calendar DEF MonthOf
<1>3. Keeps(w, d, day) /\ FurrowOpen(d.f) /\ Carries(w, d, day)
  BY <1>1, <1>2, DecideGoes, DecideCarries
<1> HIDE DEF d
<1>4. IsWorld(d) /\ d.day = w.day /\ RestsBy(d, day) /\ ~Mowing(d)
  BY <1>3 DEF Keeps, Goes, Quiet
<1>5. Books(d, day) /\ Announced(d, day)
  BY <1>3 DEF Carries
<1>6. Books(y, y.day) /\ Foretold(y)
  BY <1>3, <1>4, <1>5, YearStartBooks
<1>7. IsWorld(y) /\ y.day = d.day /\ NoHay(y)
  BY <1>3, <1>4, YearStartGoes
<1> HIDE DEF y
<1>8. IsWorld(x) /\ x.day = y.day /\ Carries(y, x, y.day) /\ Foretells(y, x)
  BY <1>7, FieldsGo, FieldsCarry DEF Goes
<1>9. FirstTick(w, in) = Stressed(x)
  <2>1. RunYearStart(d, in.dung) = y /\ Decide(w, in) = d
    BY DEF y, d
  <2>2. NewYear(w) /\ NewYear(d)
    BY <1>4 DEF NewYear
  <2> QED BY <2>1, <2>2 DEF FirstTick, DayStart
<1> HIDE DEF x
<1>10. Books(x, w.day) /\ Foretold(x) /\ x.day = w.day
  BY <1>4, <1>6, <1>7, <1>8 DEF Carries, Foretells
<1> QED BY <1>8, <1>9, <1>10, StressedBooks

-----------------------------------------------------------------------------
(* The life of a row, as the books have it.                                *)

\* Between ticks the books stand as of the day, and what November said with
\* them; on the first day of a year, till its first hour is over, what it said
\* is of the slot the turn has brought.
AccountInv ==
  /\ Books(world, world.day)
  /\ IF hour = 0 /\ NewYear(world) THEN Foretold(world) ELSE Announced(world, world.day)

LEMMA AccountsBegin == Init => AccountInv
<1> SUFFICES ASSUME Init PROVE AccountInv
  OBVIOUS
<1>1. PICK life \in Lives :
        world = [f |-> life.f, day |-> 0, air |-> 0, sky |-> "dry", cover |-> FALSE,
                 col |-> Never, b |-> NoHistory]
  BY DEF Init
<1>2. AtRest(life.f)
  BY LivesAssumption
<1>3. world.f.phase # "harvest" /\ world.f.reaped_day = Never
  <2>1. world.f.phase # "harvest"
    BY <1>1, <1>2, RestIsRow
  <2> DEFINE g == [Ground EXCEPT !.kind = life.f.kind, !.phase = life.f.phase,
                                 !.crop = life.f.crop, !.slots = life.f.slots,
                                 !.assigned = life.f.assigned, !.skips = life.f.skips,
                                 !.summers = life.f.summers, !.fertility = life.f.fertility]
  <2>2. g.reaped_day = Never
    BY DEF Ground
  <2>3. life.f = g
    BY <1>2 DEF AtRest
  <2> HIDE DEF g
  <2> QED BY <1>1, <2>1, <2>2, <2>3
<1>4. /\ world.b = NoHistory
      /\ NoHistory.slot = 0 /\ NoHistory.used = 0 /\ NoHistory.excused = 0
      /\ NoHistory.laid = 0 /\ NoHistory.short = 0 /\ NoHistory.said = "unasked"
  BY <1>1 DEF NoHistory
<1>5. SlotsIn(world.f, world.b, MonthOf(world.day))
  BY <1>4 DEF SlotsIn
<1>6. Dated(world.f, world.day) /\ Grams(world) /\ Rounded(world)
  BY <1>3, <1>4 DEF Dated, Grams, Reaping, Rounded
<1>7. Foretold(world) /\ Announced(world, world.day)
  BY <1>4 DEF Foretold, Announced
<1> QED BY <1>5, <1>6, <1>7 DEF AccountInv, Books

LEMMA AccountsDawn == FieldInv /\ AccountInv /\ Dawn => AccountInv'
<1> SUFFICES ASSUME FieldInv, AccountInv, Dawn PROVE AccountInv'
  OBVIOUS
<1>1. LastHour \in Nat /\ LastHour > 1 /\ hour = LastHour /\ hour' = 0
  BY Numbers DEF Dawn
<1>2. /\ IsWorld(world) /\ NightIn(world) /\ RestsBy(world, world.day) /\ HayIn(world)
      /\ LeftIn(left) /\ Books(world, world.day) /\ Announced(world, world.day)
  BY <1>1 DEF FieldInv, AccountInv
<1>3. PICK order \in Orders(world), seed \in Seeds(world), clear \in BOOLEAN,
           dung \in Dung(world), sky \in Weather[MonthOf(world.day + 1)] :
        world' = FirstTick(
             [world EXCEPT !.day = @ + 1, !.air = sky.air, !.sky = sky.sky,
                           !.cover = sky.cover, !.b.short = 0],
             In(0, order, seed, clear, FALSE, dung, 0, 0))
  BY DEF Dawn
<1> DEFINE w == [world EXCEPT !.day = @ + 1, !.air = sky.air, !.sky = sky.sky,
                              !.cover = sky.cover, !.b.short = 0]
           in == In(0, order, seed, clear, FALSE, dung, 0, 0)
<1>4. world' = FirstTick(w, in)
  BY <1>3
<1>5. Morning(world, w)
  BY <1>2 DEF IsWorld, Morning
<1>6. /\ w.f = world.f /\ w.b.slot = world.b.slot /\ w.b.used = world.b.used
      /\ w.b.excused = world.b.excused /\ w.b.laid = world.b.laid /\ w.b.whole = world.b.whole
      /\ w.b.short = 0 /\ w.b.said = world.b.said
  BY <1>2 DEF IsWorld
<1>7. in.order = order /\ in.seed = seed /\ in.dung = dung
  BY DEF In
<1> HIDE DEF w, in
<1>8. /\ IsWorld(w) /\ ColumnLeaves(w) /\ RestsBy(w, world.day)
      /\ (DayOfYear(w.day) = 0 => ~Mowing(w))
      /\ (DayOfYear(w.day) # 0 =>
            RestsBy(w, w.day) /\ HayIn(w) /\ (OpensCut(w) => NoHay(w)))
  BY <1>2, <1>5, Overnight
<1>9. /\ IsOrder(in.order, w.f) /\ in.seed \in 0..2 /\ in.dung \in Nat
      /\ (in.order.kind = "mark" /\ Careful => ~w.f.furrowing)
  BY <1>2, <1>5, <1>7, OrdersAre, SeedsAre, DungIs DEF Morning
<1>10. world.day \in Nat /\ w.day = world.day + 1
  BY <1>2, <1>5 DEF IsWorld, Morning
<1>11. Books(w, world.day) /\ Announced(w, world.day)
  BY <1>2, <1>6, RecountCarries DEF Carries
<1> DEFINE v == FirstTick(w, in)
<1>12. CASE DayOfYear(w.day) # 0
  <2>1. Books(w, w.day) /\ Announced(w, w.day)
    BY <1>8, <1>10, <1>11, <1>12, BooksAge
  <2>2. Books(v, w.day) /\ Announced(v, w.day)
    BY <1>8, <1>9, <1>12, <2>1, MorningBooks
  <2>3. v.day = w.day
    BY <1>8, <1>9, <1>12, MorningGoes
  <2> HIDE DEF v
  <2>4. ~NewYear(v)
    BY <1>12, <2>3 DEF NewYear
  <2> QED BY <1>4, <2>2, <2>3, <2>4 DEF AccountInv, NewYear, v
<1>13. CASE DayOfYear(w.day) = 0
  <2>1. Books(v, w.day) /\ Foretold(v)
    BY <1>8, <1>9, <1>10, <1>11, <1>13, NewYearBooks
  <2>2. v.day = w.day
    BY <1>8, <1>9, <1>10, <1>13, NewYearGoes
  <2> HIDE DEF v
  <2>3. NewYear(v)
    BY <1>13, <2>2 DEF NewYear
  <2> QED BY <1>1, <1>4, <2>1, <2>2, <2>3 DEF AccountInv, NewYear, v
<1> QED BY <1>12, <1>13

LEMMA AccountsDay == FieldInv /\ AccountInv /\ Day => AccountInv'
<1> SUFFICES ASSUME FieldInv, AccountInv, Day PROVE AccountInv'
  OBVIOUS
<1>1. hour \in 0..LastHour /\ hour' = hour + 1
  BY DEF Day, FieldInv
<1>2. /\ IsWorld(world) /\ Tilled(world) /\ HayIn(world) /\ LeftIn(left)
      /\ world.b.rests \in {0, 1}
      /\ (~(hour = 0 /\ NewYear(world)) => RestsBy(world, world.day))
      /\ Books(world, world.day)
      /\ (~NewYear(world) => Announced(world, world.day))
  BY DEF FieldInv, AccountInv
<1>3. PICK order \in Orders(world), hands \in Hands(world), seed \in Seeds(world),
           cart \in Carts(world), moved \in Moved(world) :
        world' = WorkingTick(
             [world EXCEPT !.b.short = 0,
                           !.b.rests = IF NewYear(world) /\ hour = 0 THEN 0 ELSE @,
                           !.b.said = IF NewYear(world) THEN "unasked" ELSE @],
             In(hands, order, seed, FALSE, cart, 0, moved, 0))
  BY DEF Day
<1> DEFINE rests == IF NewYear(world) /\ hour = 0 THEN 0 ELSE world.b.rests
           said == IF NewYear(world) THEN "unasked" ELSE world.b.said
           w == [world EXCEPT !.b.short = 0, !.b.rests = rests, !.b.said = said]
           in == In(hands, order, seed, FALSE, cart, 0, moved, 0)
<1>4. world' = WorkingTick(w, in)
  <2>1. w = [world EXCEPT !.b.short = 0,
                          !.b.rests = IF NewYear(world) /\ hour = 0 THEN 0 ELSE @,
                          !.b.said = IF NewYear(world) THEN "unasked" ELSE @]
    BY <1>2 DEF IsWorld
  <2> QED BY <1>3, <2>1
<1>5. rests \in {0, 1} /\ (rests = 1 => rests = world.b.rests /\ RestsBy(world, world.day))
  BY <1>2
<1>6. said \in {world.b.said, "unasked"} /\ (NewYear(world) => said = "unasked")
  OBVIOUS
<1>7. /\ in.hands = hands /\ in.order = order /\ in.seed = seed /\ in.moved = moved
      /\ in.dung = 0 /\ in.column = 0
  BY DEF In
<1> HIDE DEF rests, said, in
<1>8. Recounts(world, w) /\ w.b.rests = rests
  BY <1>2 DEF IsWorld, Recounts
<1>9. /\ w.f = world.f /\ w.b.slot = world.b.slot /\ w.b.used = world.b.used
      /\ w.b.excused = world.b.excused /\ w.b.laid = world.b.laid /\ w.b.whole = world.b.whole
      /\ w.b.short = 0 /\ w.b.said = said /\ w.day = world.day
  BY <1>2 DEF IsWorld
<1> HIDE DEF w
<1>10. IsWorld(w) /\ Tilled(w)
  BY <1>2, <1>5, <1>8, RecountGoes
<1>11. IsGiven(w, in)
  BY <1>2, <1>3, <1>7, <1>9, Numbers, OrdersAre, SeedsAre, MovedIs, HandsAre DEF IsGiven
<1>12. Carries(world, w, w.day)
  BY <1>6, <1>9, RecountCarries
<1>13. Books(w, w.day) /\ Announced(w, w.day)
  <2>1. CASE NewYear(world)
    BY <1>2, <1>6, <1>9, <1>12, <2>1 DEF Carries, Announced
  <2>2. CASE ~NewYear(world)
    BY <1>2, <1>9, <1>12, <2>2 DEF Carries
  <2> QED BY <2>1, <2>2
<1> DEFINE v == WorkingTick(w, in)
<1>14. Goes(w, v, w.day) /\ Carries(w, v, w.day)
  BY <1>10, <1>11, WorkingTickGoes, WorkingTickCarries
<1>15. world' = v
  BY <1>4
<1> HIDE DEF v
<1>16. Books(v, v.day) /\ Announced(v, v.day)
  BY <1>13, <1>14 DEF Carries, Goes
<1>17. hour' # 0
  BY <1>1, Numbers
<1> QED BY <1>15, <1>16, <1>17 DEF AccountInv

LEMMA AccountsEvening == FieldInv /\ AccountInv /\ Evening => AccountInv'
<1> SUFFICES ASSUME FieldInv, AccountInv, Evening PROVE AccountInv'
  OBVIOUS
<1>1. LastHour \in Nat /\ LastHour > 1 /\ hour = LastHour - 1 /\ hour' = LastHour
  BY Numbers DEF Evening
<1>2. hour \in 1..(LastHour - 1) /\ hour # 0 /\ hour' # 0
  BY <1>1
<1>3. /\ IsWorld(world) /\ Tilled(world) /\ HayIn(world) /\ LeftIn(left)
      /\ world.b.rests \in {0, 1} /\ RestsBy(world, world.day) /\ DayIn(world)
      /\ Books(world, world.day) /\ Announced(world, world.day)
  BY <1>2 DEF FieldInv, AccountInv
<1>4. PICK order \in Orders(world), hands \in Hands(world), seed \in Seeds(world),
           cart \in Carts(world), dung \in Dung(world), moved \in Moved(world),
           column \in IF ColumnHere(world, left.column) THEN 0..Parts ELSE {0} :
        world' = LastTick([world EXCEPT !.b.short = 0],
                          In(hands, order, seed, FALSE, cart, dung, moved, column))
  BY DEF Evening
<1> DEFINE w == [world EXCEPT !.b.short = 0]
           in == In(hands, order, seed, FALSE, cart, dung, moved, column)
<1>5. world' = LastTick(w, in)
  BY <1>4
<1>6. Recounts(world, w) /\ w.b.rests = world.b.rests
  BY <1>3 DEF IsWorld, Recounts
<1>7. /\ w.f = world.f /\ w.b.slot = world.b.slot /\ w.b.used = world.b.used
      /\ w.b.excused = world.b.excused /\ w.b.laid = world.b.laid /\ w.b.whole = world.b.whole
      /\ w.b.short = 0 /\ w.b.said = world.b.said /\ w.day = world.day
  BY <1>3 DEF IsWorld
<1>8. /\ in.hands = hands /\ in.order = order /\ in.seed = seed /\ in.moved = moved
      /\ in.dung = dung /\ in.column = column
  BY DEF In
<1> HIDE DEF w, in
<1>9. IsWorld(w) /\ Tilled(w)
  BY <1>3, <1>6, RecountGoes
<1>10. DayIn(w)
  BY <1>3, <1>6 DEF DayIn, Recounts
<1>11. in.column \in 0..Parts
  BY <1>4, <1>8, Numbers
<1>12. IsGiven(w, in)
  BY <1>3, <1>4, <1>7, <1>8, <1>11, OrdersAre, SeedsAre, DungIs, MovedIs, HandsAre
  DEF IsGiven
<1>13. Books(w, w.day) /\ Announced(w, w.day)
  BY <1>3, <1>7, RecountCarries DEF Carries
<1> DEFINE v == LastTick(w, in)
<1>14. Goes(w, v, w.day) /\ Carries(w, v, w.day)
  BY <1>9, <1>10, <1>12, LastTickGoes, LastTickCarries
<1>15. world' = v
  BY <1>5
<1> HIDE DEF v
<1>16. Books(v, v.day) /\ Announced(v, v.day)
  BY <1>13, <1>14 DEF Carries, Goes
<1> QED BY <1>2, <1>15, <1>16 DEF AccountInv

\* At every tick the books stand beside the row.
LEMMA AccountsStand == Spec => []AccountInv
<1>1. AccountInv /\ UNCHANGED vars => AccountInv'
  BY DEF AccountInv, vars, NewYear
<1>2. FieldInv /\ AccountInv /\ [Next]_vars => AccountInv'
  BY <1>1, AccountsDawn, AccountsDay, AccountsEvening DEF Next
<1> QED BY AccountsBegin, FieldInvariant, <1>2, PTL DEF Spec

\* A season of the chain is sown once and never after a later one: the slot in
\* preparation is later than the one sown last, or its time is over - but for a
\* fresh chain's winter crop the turn finds half sown, which is sown again once
\* for every such turn, and no more (production_system.cpp, RunYearStart:
\* first_winter_standing is only of a crop that is growing).
THEOREM SlotsAreSownInTurn == Spec => []SlotsInTurn
<1>1. AccountInv => SlotsInTurn
  BY DEF AccountInv, Books, SlotsIn, SlotsInTurn
<1> QED BY <1>1, AccountsStand, PTL

\* However the days, the crew, the column and the rain divide a reaping, it
\* lays the whole the field grew to the gram; and what the snow takes is the
\* rest of it, but for less than a gram in each part it is reaped in.
THEOREM ReapingIsWhole == Spec => []ReapedToTheGram
<1>1. AccountInv => ReapedToTheGram
  BY DEF AccountInv, Books, Rounded, ReapedToTheGram
<1> QED BY <1>1, AccountsStand, PTL

\* What the first of November said of the arriving winter slot is what the
\* turn then finds, but for a crop still being reaped when its slot is there
\* again.
THEOREM LostSlotIsForetold == Spec => []LostSlotIsSaid
<1>1. AccountInv => LostSlotIsSaid
  BY DEF AccountInv, Foretold, StillReaped, LostSlotIsSaid
<1> QED BY <1>1, AccountsStand, PTL
=============================================================================
