------------------------------- MODULE Fields -------------------------------
(* One row of land over the years (core_production: field_work, the fields' *)
(* half of production_system and production_orders, manure_cart, the        *)
(* machine station's column; core_common: the meadow's mark): the phases    *)
(* from plough to stubble, the chain of three seasons and its turn, the     *)
(* fallow and its rest, the autumn furrow, the winter's dose, the meadow.   *)
(*                                                                          *)
(* A step is one tick at the hours anything happens here: the day's first,  *)
(* its working hours, its last.  Work is counted in the parts a phase is    *)
(* worked in, seed and dose in halves, soil and weather in grades.  What    *)
(* the rest of the village decides is chosen: the hands, the seed found,    *)
(* the carts, the dung in the heap, whether the other fields are in.        *)
EXTENDS Integers, Sequences, Passes

CONSTANTS
  Crop,          \* crop |-> [winter, perennial, ages, grace, from, to, warmth,
                 \*           reapFrom, reapTo, seed, delta]
  None,          \* no crop
  MonthsPerYear, DaysPerMonth, LastHour,
  November,      \* the month the lost winter slot is said in
  FallowMonth,   \* fallow_plow_month
  CutMonth, CutMonthEnd,  \* meadow_cut_month, meadow_cut_month_end
  SeasonLastDay, \* growing_season_last_day
  FirstCutDays,  \* perennial_first_cut_days
  Parts,         \* the parts every working phase is worked in
  SeasonHay,     \* grams a meadow gives in a season
  FloorSoil, FullSoil,  \* fertility_floor, 100
  Recovery,      \* fallow_recovery
  PenaltyYears,  \* repeat_penalty_max_years
  StressCap,     \* stress_cap
  Hot,           \* the air drought begins at
  Summers,       \* grass_stand: <<[loss, banks], ...>>
  Norm,          \* a whole dose of manure, in halves
  LateSpreadFree,  \* manure_late_spread_free
  SpringMonths, AutumnMonths,  \* when the station's column works
  Weather,       \* month |-> the days it may have, [air, sky, cover]
  Lives,         \* bounds: [f, last, orders, chains, marks, dung, seeds, column]
  Careful        \* nobody marks a meadow over a part-turned furrow

Crops == DOMAIN Crop \cup {None}

\* A year ends after its season (GrowingSeasonLastDay), a day has working hours.
ASSUME CalendarAssumption ==
  /\ MonthsPerYear \in Nat \ {0} /\ DaysPerMonth \in Nat \ {0}
  /\ LastHour \in Nat /\ LastHour > 1
  /\ SeasonLastDay \in Nat /\ SeasonLastDay < MonthsPerYear * DaysPerMonth
  /\ FallowMonth \in Nat /\ CutMonth \in Nat /\ CutMonthEnd \in Nat
ASSUME AmountsAssumption ==
  /\ Parts \in Nat \ {0} /\ SeasonHay \in Nat
  /\ FloorSoil \in Nat /\ FullSoil \in Nat /\ FloorSoil <= FullSoil
  /\ {Recovery, PenaltyYears, StressCap, Norm} \subseteq Nat
  /\ Summers \in Seq([loss : Nat, banks : BOOLEAN]) /\ Summers # <<>>
\* As crops.csv has them: no winter crop is a stand, and it is reaped later
\* than the fallow is ploughed.
ASSUME CropAssumption ==
  /\ None \notin DOMAIN Crop
  /\ \A c \in DOMAIN Crop :
       /\ Crop[c] \in [winter : BOOLEAN, perennial : BOOLEAN, ages : BOOLEAN,
                       grace : BOOLEAN, from : Nat, to : Nat, warmth : Int,
                       reapFrom : Nat, reapTo : Nat, seed : Nat, delta : Int]
       /\ Crop[c].winter =>
            ~Crop[c].perennial /\ ~Crop[c].ages /\ FallowMonth < Crop[c].reapFrom

\* And as the year has them: a winter crop is reaped before its sowing opens,
\* any other after its sowing has closed, and on the first of November no
\* sowing is open any more, the month of grace included.
ASSUME SeasonAssumption ==
  /\ November \in Nat /\ FallowMonth < November
  /\ \A c \in DOMAIN Crop :
       /\ Crop[c].from <= Crop[c].to
       /\ Crop[c].to + (IF Crop[c].grace THEN 1 ELSE 0) < November
       /\ IF Crop[c].winter THEN Crop[c].reapTo < Crop[c].from
          ELSE Crop[c].to < Crop[c].reapFrom

VARIABLES world,  \* the row `f`, the day and its weather, the hectares of the
                  \* column on the row, and `b`, history told beside them
          hour,
          left    \* bounds: what this life has left
vars == <<world, hour, left>>

Never == -1
DaysPerYear == MonthsPerYear * DaysPerMonth
YearOf(day) == day \div DaysPerYear
DayOfYear(day) == day % DaysPerYear
MonthOf(day) == DayOfYear(day) \div DaysPerMonth
NewYear(w) == DayOfYear(w.day) = 0
ThisYear(stamp, day) == stamp # Never /\ YearOf(stamp) = YearOf(day)

Arable(f) == f.kind = "arable"
Working(f) == f.phase \in {"plowing", "harrowing", "sowing", "harvest"}
Thaw(w) == w.air >= 0
Winter(c) == c # None /\ Crop[c].winter
Perennial(c) == c # None /\ Crop[c].perennial
Ages(c) == c # None /\ Crop[c].ages

NoDose == [named |-> FALSE, booked |-> 0, due |-> 0, priced |-> FALSE]
Ground ==
  [kind |-> "arable", mown_fallow |-> FALSE, phase |-> "idle", crop |-> None,
   last_crop |-> None, repeat_years |-> 0, work |-> 0, harvest_work |-> 0,
   laid_share |-> 0, laid_grams |-> 0, slots |-> <<None, None, None>>,
   assigned |-> FALSE, skips |-> FALSE, plowed |-> FALSE, furrowing |-> FALSE,
   furrow_day |-> Never, sown_day |-> Never, reaped_day |-> Never,
   mown_day |-> Never, cut_day |-> Never, summers |-> 0, sown_share |-> 2,
   stress |-> 0, fertility |-> FullSoil, applied |-> 0, booked |-> FALSE,
   rest_owed |-> FALSE, dose |-> NoDose, heap |-> None]
Gone == [Ground EXCEPT !.kind = "gone"]
NewMeadow == [Ground EXCEPT !.kind = "meadow", !.phase = "growing"]

\* A row as a life begins with it: bare, under a crop or a meadow, with nothing
\* owed, carted or half done.
AtRest(f) ==
  /\ f = [Ground EXCEPT !.kind = f.kind, !.phase = f.phase, !.crop = f.crop,
                        !.slots = f.slots, !.assigned = f.assigned, !.skips = f.skips,
                        !.summers = f.summers, !.fertility = f.fertility]
  /\ f.kind \in {"arable", "meadow"} /\ f.crop \in Crops
  /\ f.phase \in (IF f.kind = "meadow" THEN {"growing"} ELSE {"idle", "growing"})
  /\ f.slots \in Crops \X Crops \X Crops
  /\ f.summers \in 0..Len(Summers) /\ f.fertility \in FloorSoil..FullSoil
ASSUME LivesAssumption ==
  \A life \in Lives :
    /\ AtRest(life.f)
    /\ life.last \in Nat /\ life.orders \in Nat
    /\ life.chains \subseteq Crops \X Crops \X Crops /\ life.seeds \subseteq 0..2

\* History: of the reaping under way its whole and what was laid of it; what
\* the last one ended short of its whole; the hay of the year and whether a
\* cut was broken off; the slot in preparation and the last one sown, counted
\* from this year's; the sowings out of turn that are excused, less those there
\* were; the rests since the turn; what November said.
NoHistory ==
  [whole |-> 0, laid |-> 0, short |-> 0, hay |-> 0, broken |-> FALSE, slot |-> 0,
   used |-> 0, excused |-> 0, rests |-> 0, said |-> "unasked"]

(* -- what a field gives ------------------------------------------------- *)
SoilFertility(f) == Least(f.fertility, FullSoil)
StandOfSummer(f) ==
  Summers[Least(IF f.summers = 0 THEN 1 ELSE f.summers, Len(Summers))]

\* A day past the window costs a grade: a winter crop's in its month of grace,
\* an annual's but in the first spring.
LateOnDay(c, day) ==
  IF \/ Perennial(c)
     \/ Winter(c) /\ ~Crop[c].grace
     \/ ~Winter(c) /\ day < DaysPerYear
  THEN 0 ELSE Above(DayOfYear(day), (Crop[c].to + 1) * DaysPerMonth - 1)
LateSowing(f) == IF f.sown_day = Never THEN 0 ELSE LateOnDay(f.crop, f.sown_day)
LateSowingReturnsItsSeed(f, day) ==
  Above(SoilFertility(f), LateOnDay(f.crop, day)) >= Crop[f.crop].seed

Yield(f) ==
  LET loss == IF Ages(f.crop) THEN StandOfSummer(f).loss ELSE 0
  IN f.sown_share * Above(SoilFertility(f), loss + f.stress + LateSowing(f))
StandingYield(f) == (Yield(f) * (Parts - f.laid_share)) \div Parts

\* What is cut since the last lay goes onto the row's own heap; a heap of
\* another crop is written off.  The last lay takes what is left of the whole.
MownShareNow(f) == f.harvest_work - f.work
\* mutant: the last lay goes by its share, as the others do
Bug_LaidNow(f, whole) ==
  IF MownShareNow(f) <= f.laid_share THEN 0
  ELSE (whole * (MownShareNow(f) - f.laid_share)) \div f.harvest_work
LaidNow(f, whole) ==
  IF MownShareNow(f) > f.laid_share /\ MownShareNow(f) = f.harvest_work
  THEN Above(whole, f.laid_grams)
  ELSE IF MownShareNow(f) <= f.laid_share THEN 0
  ELSE (whole * (MownShareNow(f) - f.laid_share)) \div f.harvest_work
LayShare(f, grams, load) ==
  [f EXCEPT !.laid_share = IF MownShareNow(f) > @ THEN MownShareNow(f) ELSE @,
            !.laid_grams = @ + grams, !.heap = IF grams > 0 THEN load ELSE @]
LayReapedShare(w) ==
  LET Lay(grams) == [w EXCEPT !.f = LayShare(@, grams, w.f.crop), !.b.laid = @ + grams]
  IN IF Arable(w.f) /\ w.f.phase = "harvest" /\ w.f.crop # None
     THEN Lay(LaidNow(w.f, Yield(w.f))) ELSE w
LayMownShare(w) ==
  LET Lay(grams) == [w EXCEPT !.f = LayShare(@, grams, "hay"), !.b.hay = @ + grams]
  IN IF w.f.kind = "meadow" /\ w.f.phase = "harvest" THEN Lay(LaidNow(w.f, SeasonHay)) ELSE w

NoReaping(f) ==
  [f EXCEPT !.work = 0, !.harvest_work = 0, !.laid_share = 0, !.laid_grams = 0]
\* The grams of a reaping that ends, and of the whole the year grew.
EndReaping(b, whole, lost) ==
  [b EXCEPT !.short = whole - b.laid - lost, !.whole = 0, !.laid = 0]

(* -- phases -------------------------------------------------------------- *)
OpenPhase(w, phase) ==
  [w EXCEPT !.f.phase = phase,
            !.f.sown_day = IF phase = "sowing" THEN w.day ELSE @,
            !.f.work = Parts,
            !.f.harvest_work = IF phase = "harvest" THEN Parts ELSE 0,
            !.b.whole = IF phase = "harvest" /\ Arable(w.f) THEN Yield(w.f) ELSE 0]

\* The meadow goes back to grass: mown through, or the rest left standing.
\* mutant: the day of a cut mown through is not kept
Bug_GrassAgain(f, mown, day) == [NoReaping(f) EXCEPT !.phase = "growing"]
GrassAgain(f, mown, day) ==
  [NoReaping(f) EXCEPT !.mown_day = IF mown THEN day ELSE @, !.phase = "growing"]
MowMeadow(w) ==
  [LayMownShare([w EXCEPT !.f.work = 0]) EXCEPT !.f = GrassAgain(@, TRUE, w.day)]
CloseMeadowCut(w) ==
  [LayMownShare(w) EXCEPT !.f = GrassAgain(@, @.laid_share > 0, w.day)]

\* mutant: the dose's cap is not settled with the crop the snow took
Bug_LostUnderSnow(f) ==
  [NoReaping(f) EXCEPT
     !.last_crop = f.crop, !.repeat_years = 0, !.crop = None, !.phase = "idle",
     !.stress = 0, !.applied = 0, !.booked = FALSE]
\* What the snow leaves of the row.
LostUnderSnow(f) ==
  [NoReaping(f) EXCEPT
     !.last_crop = f.crop, !.repeat_years = 0, !.crop = None, !.phase = "idle",
     !.stress = 0, !.applied = 0, !.booked = FALSE, !.fertility = SoilFertility(f)]
LoseFieldToSnow(w) ==
  LET Lost(laid) ==
        [laid EXCEPT
           !.f = LostUnderSnow(@),
           !.b = EndReaping(@, IF laid.f.phase = "harvest" THEN @.whole ELSE Yield(laid.f),
                            StandingYield(laid.f))]
  IN Lost(LayReapedShare(w))

\* What a crop leaves in the soil: its delta (a stand's only while it banks),
\* less a grade for every year it was repeated, up to the ceiling.
Repeated(f) ==
  IF ~Perennial(f.crop) /\ f.crop = f.last_crop
  THEN Least(f.repeat_years + 1, PenaltyYears) ELSE 0
SoilAfter(f) ==
  LET banked == IF Ages(f.crop) /\ ~StandOfSummer(f).banks THEN 0 ELSE Crop[f.crop].delta
      soil == f.fertility + banked - Repeated(f)
  IN Least(IF soil < FloorSoil THEN FloorSoil ELSE soil, FullSoil)
Settled(f, day) ==
  [NoReaping(f) EXCEPT
     !.repeat_years = Repeated(f), !.fertility = SoilAfter(f), !.applied = 0,
     !.booked = FALSE, !.last_crop = f.crop, !.stress = 0,
     !.cut_day = IF Perennial(f.crop) THEN day ELSE @]
Stays(f) == Perennial(f.crop) /\ f.slots[2] = f.crop
Reaped(f, day) ==
  IF Stays(f)
  THEN [f EXCEPT !.phase = "growing",
                 !.summers = IF Ages(f.crop)
                             THEN Least((IF @ = 0 THEN 1 ELSE @) + 1, Len(Summers)) ELSE @]
  ELSE [f EXCEPT !.phase = "idle", !.crop = None, !.reaped_day = day]
Harvest(w) ==
  [LayReapedShare(w) EXCEPT !.f = Reaped(Settled(@, w.day), w.day),
                            !.b = EndReaping(@, @.whole, 0)]
FinishHarvest(w) ==
  IF w.f.kind = "meadow" THEN MowMeadow(w)
  ELSE IF w.f.crop = None THEN [w EXCEPT !.f.phase = "idle"]
  ELSE Harvest(w)

EndGrassStand(f) ==
  [f EXCEPT !.last_crop = f.crop, !.crop = None, !.summers = 0, !.work = 0,
            !.stress = 0, !.phase = "idle"]

(* -- the winter's dose ---------------------------------------------------- *)
SledgeDay(w) == w.cover
ManureDoseStands(f) == f.dose.named /\ f.dose.due > 0 /\ f.heap = None
WriteAppliedShare(f) ==
  LET arrived == f.dose.booked - f.dose.due
  IN IF arrived <= 0 THEN f
     ELSE [f EXCEPT !.applied = Least(arrived, Norm), !.booked = FALSE]
CancelLateManure(f, dung) ==
  LET late == IF LateSpreadFree THEN Least(f.dose.due, dung) ELSE 0
      spread == IF late = 0 THEN f ELSE WriteAppliedShare([f EXCEPT !.dose.due = @ - late])
  IN IF f.dose.named THEN [spread EXCEPT !.dose = NoDose] ELSE f

\* Booked for ground that will be worked and has no dose of this cycle; a
\* standing booking is topped up to the norm.
HasRotation(f) == f.assigned
WillBeWorked(f) == HasRotation(f) \/ f.sown_day # Never
BookManureDoses(w, dung) ==
  LET f == w.f
      added == Least(dung, Above(Norm, f.dose.booked))
      wants == /\ Arable(f) /\ f.phase = "idle" /\ WillBeWorked(f)
               /\ IF f.dose.named THEN f.dose.booked < Norm ELSE f.applied = 0
  IN IF ~wants \/ added = 0 THEN w
     ELSE [w EXCEPT !.f.dose = [f.dose EXCEPT !.named = TRUE, !.booked = @ + added,
                                              !.due = @ + added]]
PriceManureDoses(w) ==
  [w EXCEPT !.f.dose.priced = SledgeDay(w) /\ ManureDoseStands(w.f)]
SettleManureDoses(w, moved) ==
  LET f == w.f
  IN IF ~ManureDoseStands(f) \/ moved = 0 THEN w
     ELSE [w EXCEPT !.f = LET g == WriteAppliedShare([f EXCEPT !.dose.due = @ - moved])
                          IN [g EXCEPT !.dose.priced = @ /\ g.dose.due > 0]]

(* -- preparation and sowing ------------------------------------------------ *)
\* Work is opened for a slot, counted from this year's; slot 0 is a fallow's
\* furrow.  The standing mark is spent, but by a winter crop named first.
Fallow == 0
OpenPlowing(w, slot, start, dung) ==
  LET crop == IF slot = Fallow THEN None ELSE w.f.slots[slot]
      black == start = "black_fallow"
      harrows == black \/ w.f.plowed
      rest == IF ~harrows /\ w.f.furrowing /\ w.f.work > 0 THEN w.f.work ELSE Parts
      Paid(f) == IF f.applied > 0 /\ ~f.booked
                 THEN [f EXCEPT !.fertility = @ + f.applied, !.booked = TRUE] ELSE f
      Opened(f) == [f EXCEPT
        !.furrowing = FALSE, !.crop = crop, !.furrow_day = Never,
        !.skips = @ /\ crop # None /\ crop = f.slots[1] /\ Winter(crop),
        !.rest_owed = black, !.plowed = @ /\ black]
  IN [OpenPhase([w EXCEPT !.f = Opened(Paid(CancelLateManure(@, dung))), !.b.slot = slot],
                IF harrows THEN "harrowing" ELSE "plowing")
        EXCEPT !.f.work = rest]

OpenZyab(w) ==
  OpenPhase([w EXCEPT !.f = [@ EXCEPT !.crop = None, !.furrow_day = Never,
                                      !.furrowing = TRUE]], "plowing")

RipenDays(c) ==
  IF Crop[c].winter \/ Crop[c].perennial THEN 0
  ELSE Above(Crop[c].reapFrom * DaysPerMonth, (Crop[c].to + 1) * DaysPerMonth - 1)
CropHasRipened(f, day) == f.sown_day = Never \/ day - f.sown_day >= RipenDays(f.crop)
WinterLastSowingMonth(c) ==
  IF Crop[c].grace THEN (Crop[c].to + 1) % MonthsPerYear ELSE Crop[c].to
SowingMayOpen(w) ==
  LET c == w.f.crop
  IN /\ MonthOf(w.day) >= Crop[c].from /\ w.air >= Crop[c].warmth
     /\ Crop[c].winter => MonthOf(w.day) <= WinterLastSowingMonth(c)
     /\ RipenDays(c) > 0 => DayOfYear(w.day) + RipenDays(c) <= SeasonLastDay
SowingHasSeed(c, seed) == Crop[c].seed = 0 \/ seed > 0

\* The chain's seasons are sown in turn: what is sown is of a later slot than
\* what was sown before it, or it takes up an excuse.
Sown(b) ==
  IF b.slot = 0 THEN b
  ELSE [b EXCEPT !.excused = IF b.slot <= b.used THEN @ - 1 ELSE @, !.used = b.slot,
                 !.slot = 0]
Rest(f) ==
  LET ceiling == FullSoil + (IF f.booked THEN f.applied ELSE 0)
  IN [f EXCEPT !.fertility = Least(@ + Recovery, ceiling), !.last_crop = None,
               !.repeat_years = 0]
FinishSowing(w, seed) ==
  LET f == w.f
      rests == f.rest_owed /\ f.crop # None
      rested == [(IF rests THEN Rest(f) ELSE f) EXCEPT
        !.furrow_day = Never, !.rest_owed = FALSE, !.phase = "growing", !.work = 0]
      sown == [rested EXCEPT
        !.sown_share = IF Crop[f.crop].seed = 0 THEN 2 ELSE seed,
        !.summers = IF Ages(f.crop) THEN 1 ELSE 0, !.stress = 0]
  IN IF f.crop = None THEN [w EXCEPT !.f = rested]
     ELSE [w EXCEPT !.f = sown,
                    !.b = Sown([w.b EXCEPT !.rests = IF rests THEN @ + 1 ELSE @])]

RainStopsWork(w) == w.sky = "rain" /\ w.f.phase \in {"sowing", "harvest"}
FrostStopsFieldWork(w) == w.f.furrowing /\ w.f.phase = "plowing" /\ ~Thaw(w)

AdvanceFinishedField(w, seed) ==
  LET f == w.f
  IN IF ~Working(f) \/ f.work > 0 THEN w
     ELSE CASE f.phase = "plowing" /\ f.furrowing ->
                 [w EXCEPT !.f = [f EXCEPT !.furrowing = FALSE, !.plowed = TRUE,
                                           !.furrow_day = Never, !.phase = "idle"]]
            [] f.phase = "plowing" /\ ~f.furrowing ->
                 [OpenPhase(w, "harrowing") EXCEPT !.f.furrow_day = w.day]
            [] f.phase = "harrowing" /\ f.crop = None -> FinishSowing(w, seed)
            [] f.phase = "harrowing" /\ f.crop # None ->
                 IF /\ SowingMayOpen(w) /\ LateSowingReturnsItsSeed(f, w.day)
                    /\ SowingHasSeed(f.crop, seed)
                 THEN OpenPhase(w, "sowing") ELSE w
            [] f.phase = "sowing" -> IF RainStopsWork(w) THEN w ELSE FinishSowing(w, seed)
            [] f.phase = "harvest" -> FinishHarvest(w)

(* -- the fields' day --------------------------------------------------------- *)
WinterSlotLost(f, day) ==
  /\ Winter(f.slots[1]) /\ ~f.skips /\ HasRotation(f)
  /\ ~ThisYear(f.reaped_day, day)
  /\ ~(f.crop = f.slots[1] /\ f.phase \in {"sowing", "growing", "harvest"})
\* mutant: a crop still being sown is not in hand
Bug_ArrivingWinterSlotLost(f) ==
  /\ Winter(f.slots[2]) /\ ~f.skips /\ HasRotation(f)
  /\ ~(f.crop = f.slots[2] /\ f.phase = "growing")
ArrivingWinterSlotLost(f) ==
  /\ Winter(f.slots[2]) /\ ~f.skips /\ HasRotation(f)
  /\ ~(f.crop = f.slots[2] /\ f.phase \in {"sowing", "growing"})

WinterWindowOpen(c, day) ==
  Winter(c) /\ MonthOf(day) >= Crop[c].from /\ MonthOf(day) <= WinterLastSowingMonth(c)
TrySowWinter(w, dung) ==
  IF WinterWindowOpen(w.f.slots[2], w.day) THEN OpenPlowing(w, 2, "ground", dung) ELSE w
NextSlot(f) == IF f.skips THEN 1 ELSE 2
TrySowOnBlackFallow(w, dung) ==
  IF WinterWindowOpen(w.f.slots[NextSlot(w.f)], w.day)
  THEN OpenPlowing(w, NextSlot(w.f), "black_fallow", dung) ELSE w

ZyabDue(f, day) ==
  /\ ~f.plowed /\ HasRotation(f) /\ ThisYear(f.reaped_day, day)
  /\ f.slots[NextSlot(f)] # None /\ ~Winter(f.slots[NextSlot(f)])
\* `in.clear`: the farm's harvest is in and what can be carted is carted.
TrySow(w, in) ==
  LET f == w.f
      year0 == f.slots[1]
      fallowIsDue == MonthOf(w.day) = FallowMonth /\ Thaw(w)
      lost == WinterSlotLost(f, w.day)
  IN CASE Thaw(w) /\ ZyabDue(f, w.day) /\ in.clear -> OpenZyab(w)
       [] OTHER ->
          CASE year0 = None ->
                 IF HasRotation(f) /\ fallowIsDue THEN OpenPlowing(w, Fallow, "ground", in.dung)
                 ELSE w
            [] year0 # None /\ lost ->
                 IF fallowIsDue THEN OpenPlowing(w, Fallow, "ground", in.dung)
                 ELSE TrySowWinter(w, in.dung)
            [] year0 # None /\ ~lost /\ Winter(year0) /\ ~f.skips -> TrySowWinter(w, in.dung)
            [] OTHER ->
               CASE MonthOf(w.day) > Crop[year0].to ->
                      IF f.skips THEN w ELSE TrySowWinter(w, in.dung)
                 [] MonthOf(w.day) <= Crop[year0].to /\ Thaw(w) ->
                      OpenPlowing(w, 1, "ground", in.dung)
                 [] OTHER -> w

RunMeadow(w) ==
  LET opening == MonthOf(w.day) = CutMonth /\ DayOfYear(w.day) % DaysPerMonth = 0
      inMonths == MonthOf(w.day) \in CutMonth..CutMonthEnd
      due == opening \/ (inMonths /\ ~ThisYear(w.f.mown_day, w.day))
      Open(v) == IF v.f.phase = "growing" /\ due THEN OpenPhase(v, "harvest") ELSE v
  IN Open(IF opening /\ w.f.phase = "harvest" THEN CloseMeadowCut(w) ELSE w)

PerennialCutDue(f, day) ==
  /\ ~ThisYear(f.cut_day, day)
  /\ ThisYear(f.sown_day, day) => day - f.sown_day >= FirstCutDays
ReapingMayOpen(f, day) ==
  LET c == Crop[f.crop]
  IN /\ MonthOf(day) >= c.reapFrom
     /\ (c.winter \/ c.perennial) => MonthOf(day) <= c.reapTo
     /\ CropHasRipened(f, day)

RunLaidFields(w, in) ==
  LET f == w.f
      annual == f.crop # None /\ ~Winter(f.crop) /\ ~Perennial(f.crop)
  IN CASE f.kind = "gone" -> w
       [] f.kind = "meadow" -> RunMeadow(w)
       [] Arable(f) /\ f.phase = "idle" -> TrySow(w, in)
       [] Arable(f) /\ f.phase \in {"growing", "harvest"} /\ f.crop = None ->
            TrySowOnBlackFallow(w, in.dung)
       [] Arable(f) /\ f.phase \in {"growing", "harvest"} /\ f.crop # None ->
            IF w.sky = "snow" /\ annual /\ MonthOf(w.day) >= Crop[f.crop].reapFrom
            THEN LoseFieldToSnow(w)
            ELSE IF /\ f.phase = "growing" /\ ReapingMayOpen(f, w.day)
                    /\ Perennial(f.crop) => PerennialCutDue(f, w.day)
                 THEN OpenPhase(w, "harvest") ELSE w
       [] OTHER -> w
RunFields(w, in) == RunLaidFields(LayMownShare(LayReapedShare(w)), in)

(* -- the year's turn ---------------------------------------------------------- *)
Unsown(f) == f.phase \in {"plowing", "harrowing"} /\ f.crop # None
\* mutant: the rest stays owed with the crop gone
Bug_ReleaseUnsownPreparation(f) ==
  CASE f.furrowing /\ f.phase = "plowing" ->
            [f EXCEPT !.furrow_day = Never, !.phase = "idle"]
    [] f.furrowing /\ f.phase # "plowing" -> [f EXCEPT !.furrowing = FALSE, !.work = 0]
    [] ~f.furrowing /\ Unsown(f) ->
         [f EXCEPT !.plowed = @ \/ f.phase = "harrowing", !.furrow_day = Never,
                   !.crop = None, !.phase = "idle", !.work = 0]
    [] OTHER -> f
ReleaseUnsownPreparation(f) ==
  LET turned == /\ f.phase = "harrowing"
                /\ ThisYear(f.furrow_day, f.reaped_day) /\ f.furrow_day >= f.reaped_day
  IN CASE f.furrowing /\ f.phase = "plowing" ->
            [f EXCEPT !.furrow_day = Never, !.phase = "idle"]
       [] f.furrowing /\ f.phase # "plowing" -> [f EXCEPT !.furrowing = FALSE, !.work = 0]
       [] ~f.furrowing /\ Unsown(f) ->
            [f EXCEPT !.plowed = @ \/ turned, !.furrow_day = Never, !.rest_owed = FALSE,
                      !.crop = None, !.phase = "idle", !.work = 0]
       [] OTHER -> f

StoodBare(f, day) ==
  LET reaped == f.reaped_day # Never /\ YearOf(f.reaped_day) = YearOf(day) - 1
  IN /\ HasRotation(f)
     /\ \/ f.phase = "growing" /\ f.crop = None
        \/ Unsown(f) /\ ~reaped
        \/ f.phase = "idle" /\ f.slots[1] = None /\ ~reaped
\* mutant: asked of the season the turn brings, not of the one it finds
Bug_FirstWinterStanding(f) ==
  f.skips /\ f.phase = "growing" /\ Winter(f.crop) /\ f.crop = f.slots[2]
FirstWinterStanding(f) ==
  f.skips /\ f.phase = "growing" /\ Winter(f.crop) /\ f.crop = f.slots[1]
\* The chain moves on, but a fresh one stands still until its first season is
\* used, and once more for the winter crop named first, whose year this is.
TurnChain(f) ==
  IF f.skips THEN [f EXCEPT !.skips = ~FirstWinterStanding(f)]
  ELSE [f EXCEPT !.slots = <<f.slots[2], f.slots[3], f.slots[1]>>]
EndFallow(f) ==
  IF f.phase = "growing" /\ f.crop = None
  THEN [f EXCEPT !.phase = "idle", !.applied = 0, !.booked = FALSE,
                 !.fertility = SoilFertility(f)]
  ELSE f
EndNamedOverStand(f) ==
  IF f.phase = "growing" /\ Perennial(f.crop) /\ f.slots[1] # f.crop
  THEN [f EXCEPT !.last_crop = f.crop, !.crop = None, !.phase = "idle", !.stress = 0]
  ELSE f
TurnField(f, day) ==
  LET Rested(g) == IF StoodBare(f, day) THEN Rest(g) ELSE g
  IN EndNamedOverStand(TurnChain(ReleaseUnsownPreparation(Rested(EndFallow(f)))))
\* What history makes of a turn.  A chain that moves on is counted from its new
\* first slot; under the standing mark the count stands still with the chain,
\* and a crop the turn finds half sown is an excuse to sow its season again.
TurnHistory(b, f, day) ==
  LET sowing == f.phase = "sowing"
      Turned(slot) == IF f.skips THEN slot ELSE Above(slot, 1)
  IN [b EXCEPT !.hay = 0, !.broken = FALSE,
               !.rests = IF Arable(f) /\ StoodBare(f, day) THEN @ + 1 ELSE @,
               !.slot = IF sowing THEN Turned(@) ELSE 0,
               !.used = Turned(@),
               !.excused = IF ~f.skips THEN 0
                           ELSE IF sowing /\ b.slot # 0 THEN @ + 1 ELSE @]
RunYearStart(w, dung) ==
  BookManureDoses([w EXCEPT !.f = IF Arable(w.f) THEN TurnField(w.f, w.day) ELSE w.f,
                            !.b = TurnHistory(@, w.f, w.day)], dung)
SayLostWinterSlots(w) ==
  [w EXCEPT !.b.said = IF ~Arable(w.f) THEN "unasked"
                       ELSE IF ArrivingWinterSlotLost(w.f) THEN "lost" ELSE "kept"]

(* -- orders -------------------------------------------------------------------- *)
PloughUpMownFallow(f) ==
  IF f.kind = "meadow" /\ f.mown_fallow
  THEN [NoReaping(f) EXCEPT !.kind = "arable", !.mown_fallow = FALSE, !.phase = "idle"]
  ELSE f
SetRotation(w, slots) ==
  LET f == w.f
      mown == f.kind = "meadow" /\ f.mown_fallow
      stand == Arable(f) /\ Ages(f.crop)
      named == \E i \in 1..3 : slots[i] # None
      freed == IF stand /\ f.phase = "growing" THEN EndGrassStand(f) ELSE f
  IN IF ~(Arable(f) \/ mown) \/ (stand /\ f.phase = "harvest") THEN w
     ELSE [w EXCEPT
        !.f = [PloughUpMownFallow(freed) EXCEPT !.slots = slots, !.assigned = named,
                                                !.skips = named],
        !.b = [w.b EXCEPT !.slot = 0, !.used = 0, !.excused = 0, !.said = "unasked",
                          !.broken = w.b.broken \/ (mown /\ f.phase = "harvest")]]
RemoveField(w) ==
  IF w.f.kind = "gone" \/ w.f.heap # None \/ (Arable(w.f) /\ w.f.phase = "harvest") THEN w
  ELSE [w EXCEPT !.f = Gone, !.b = NoHistory]
\* A fallow is mown as it lies; a meadow is marked where no row is.
MarkMeadow(w) ==
  LET f == w.f
      fallow == Arable(f) /\ ~HasRotation(f) /\ f.phase = "idle" /\ f.heap = None
  IN CASE f.kind = "gone" -> [w EXCEPT !.f = NewMeadow]
       [] fallow -> [w EXCEPT !.f = [f EXCEPT !.kind = "meadow", !.mown_fallow = TRUE,
                                              !.phase = "growing", !.work = 0],
                              !.b.said = "unasked"]
       [] OTHER -> w
Ordered(w, order) ==
  CASE order.kind = "chain" -> SetRotation(w, order.slots)
    [] order.kind = "remove" -> RemoveField(w)
    [] order.kind = "mark" -> MarkMeadow(w)
    [] OTHER -> w

(* -- the station's column -------------------------------------------------------- *)
\* `col` is the hectares, in parts, the column has done on the row, or Never
\* when it has not begun it.
InSeasonChain(f, season) ==
  /\ Arable(f)
  /\ f.phase \in (IF season = "spring" THEN {"plowing", "harrowing", "sowing"} ELSE {"harvest"})
HoldCrewShare(w) == [w EXCEPT !.f.work = Least(@, Above(Parts, w.col))]
CarryShare(w, cart) == [w EXCEPT !.f.heap = IF cart THEN None ELSE @]
ColumnHere(w, season) ==
  \/ season = "spring" /\ MonthOf(w.day) \in SpringMonths
  \/ season = "autumn" /\ MonthOf(w.day) \in AutumnMonths
KeepColumnField(w, season, cart) ==
  IF w.col = Never THEN w
  ELSE IF InSeasonChain(w.f, season)
       THEN IF RainStopsWork(w) THEN w ELSE HoldCrewShare(w)
       ELSE [CarryShare(w, cart /\ season = "autumn" /\ ColumnHere(w, season))
               EXCEPT !.col = Never]

\* A phase of which every hectare is worked, and whether the next may follow:
\* at one the rain stops the row is kept.
FollowColumn(s, season, seed) ==
  LET done == AdvanceFinishedField([s.w EXCEPT !.f.work = 0], seed)
  IN IF s.halt # "no" \/ ~InSeasonChain(s.w.f, season) THEN s
     ELSE IF RainStopsWork(s.w) THEN [s EXCEPT !.halt = "rain"]
     ELSE [w |-> done, halt |-> IF done.f.phase = s.w.f.phase THEN "waits" ELSE "no"]
\* Every hectare of the row worked: its phases follow at once, as far as they
\* may.
FinishColumnField(w, season, in) ==
  LET Follow(s) == FollowColumn(s, season, in.seed)
      Left(v) == IF InSeasonChain(v.f, season) THEN [v EXCEPT !.f.work = 0] ELSE v
      Kept(last) ==
        IF last.halt = "rain" THEN last.w
        ELSE [CarryShare(Left(last.w), in.cart /\ season = "autumn") EXCEPT !.col = Never]
  IN Kept(Follow(Follow(Follow([w |-> w, halt |-> "no"]))))
WorkColumnDay(w, season, in) ==
  LET begun == [w EXCEPT !.col = IF @ = Never THEN Parts - w.f.work ELSE @]
      Worked(v) == IF v.col = Parts THEN FinishColumnField(v, season, in)
                   ELSE HoldCrewShare(v)
  IN IF in.column = 0 \/ ~InSeasonChain(w.f, season) \/ w.f.work = 0 THEN w
     ELSE IF RainStopsWork(begun) THEN begun
     ELSE Worked([begun EXCEPT !.col = Least(@ + in.column, Parts)])

(* -- the tick ---------------------------------------------------------------------- *)
\* The growth of the day, after everything the tick decided.
Stressed(w) ==
  IF w.f.phase = "growing" /\ w.f.crop # None /\ (w.sky = "rain" \/ w.air >= Hot)
  THEN [w EXCEPT !.f.stress = Least(@ + 1, StressCap)] ELSE w

\* What every tick does once labour is over.
Decide(w, in) ==
  KeepColumnField(AdvanceFinishedField(Ordered(w, in.order), in.seed), left.column, in.cart)
Carry(w, in) == SettleManureDoses(CarryShare(w, in.cart), in.moved)

DayStart(w, in) ==
  CASE NewYear(w) -> RunFields(RunYearStart(w, in.dung), in)
    [] ~NewYear(w) /\ DayOfYear(w.day) = November * DaysPerMonth -> SayLostWinterSlots(w)
    [] OTHER -> w
FirstTick(w, in) ==
  Stressed(DayStart(Decide(IF NewYear(w) THEN w ELSE RunFields(w, in), in), in))
WorkingTick(w, in) == Carry(Decide([w EXCEPT !.f.work = @ - in.hands], in), in)

MeadowCutEndsTonight(w) ==
  \/ DayOfYear(w.day) >= SeasonLastDay
  \/ MonthOf(w.day) > CutMonthEnd /\ w.cover
CloseMeadowCutsAtSeasonsEnd(w) ==
  IF MeadowCutEndsTonight(w) /\ w.f.kind = "meadow" /\ w.f.phase = "harvest"
  THEN CloseMeadowCut(LayMownShare(w)) ELSE w
LastTick(w, in) ==
  LET Columned(v) == IF ColumnHere(w, left.column) THEN WorkColumnDay(v, left.column, in)
                     ELSE v
      Booked(v) == IF SledgeDay(w) THEN BookManureDoses(v, in.dung) ELSE v
  IN CloseMeadowCutsAtSeasonsEnd(PriceManureDoses(Booked(
       Carry(Columned(Decide([w EXCEPT !.f.work = @ - in.hands], in)), in))))

\* What may be given to a tick, as far as it is asked for.
Hands(w) ==
  IF Working(w.f) /\ ~RainStopsWork(w) /\ ~FrostStopsFieldWork(w) THEN 0..w.f.work ELSE {0}
Orders(w) ==
  {[kind |-> "none"]}
    \cup (IF left.orders = 0 THEN {}
          ELSE [kind : {"chain"}, slots : left.chains]
                 \cup IF left.marks
                      THEN [kind : {"remove"}]
                             \cup [kind : IF Careful /\ w.f.furrowing THEN {} ELSE {"mark"}]
                      ELSE {})
Seeds(w) == IF w.f.phase \in {"plowing", "harrowing", "sowing"} THEN left.seeds ELSE {2}
Carts(w) == IF w.f.heap # None \/ w.f.phase = "harvest" THEN BOOLEAN ELSE {FALSE}
Dung(w) == IF left.dung /\ (w.f.dose.named \/ w.f.phase = "idle") THEN {0, Norm} ELSE {0}
Moved(w) == IF w.f.dose.priced THEN 0..w.f.dose.due ELSE {0}
In(hands, order, seed, clear, cart, dung, moved, column) ==
  [hands |-> hands, order |-> order, seed |-> seed, clear |-> clear, cart |-> cart,
   dung |-> dung, moved |-> moved, column |-> column]

Spend(order) ==
  left' = [left EXCEPT !.orders = IF order.kind = "none" THEN @ ELSE @ - 1]

Dawn ==
  /\ hour = LastHour /\ world.day < left.last
  /\ hour' = 0
  /\ \E order \in Orders(world), seed \in Seeds(world), clear \in BOOLEAN,
        dung \in Dung(world), sky \in Weather[MonthOf(world.day + 1)] :
       /\ world' = FirstTick(
            [world EXCEPT !.day = @ + 1, !.air = sky.air, !.sky = sky.sky,
                          !.cover = sky.cover, !.b.short = 0],
            In(0, order, seed, clear, FALSE, dung, 0, 0))
       /\ Spend(order)
Day ==
  /\ hour < LastHour - 1
  /\ hour' = hour + 1
  /\ \E order \in Orders(world), hands \in Hands(world), seed \in Seeds(world),
        cart \in Carts(world), moved \in Moved(world) :
       /\ world' = WorkingTick(
            [world EXCEPT !.b.short = 0, !.b.rests = IF NewYear(world) /\ hour = 0 THEN 0 ELSE @,
                          !.b.said = IF NewYear(world) THEN "unasked" ELSE @],
            In(hands, order, seed, FALSE, cart, 0, moved, 0))
       /\ Spend(order)
Evening ==
  /\ hour = LastHour - 1
  /\ hour' = LastHour
  /\ \E order \in Orders(world), hands \in Hands(world), seed \in Seeds(world),
        cart \in Carts(world), dung \in Dung(world), moved \in Moved(world),
        column \in IF ColumnHere(world, left.column) THEN 0..Parts ELSE {0} :
       /\ world' = LastTick([world EXCEPT !.b.short = 0],
                            In(hands, order, seed, FALSE, cart, dung, moved, column))
       /\ Spend(order)

Init ==
  /\ \E life \in Lives :
       /\ world = [f |-> life.f, day |-> 0, air |-> 0, sky |-> "dry", cover |-> FALSE,
                   col |-> Never, b |-> NoHistory]
       /\ left = [last |-> life.last, orders |-> life.orders, chains |-> life.chains,
                  marks |-> life.marks, dung |-> life.dung, seeds |-> life.seeds,
                  column |-> life.column]
  /\ hour = 0
Next == Dawn \/ Day \/ Evening
Spec == Init /\ [][Next]_vars

(* -- properties ----------------------------------------------------------------------- *)
\* Every part of the row has its kind of value.
TypeOK ==
  LET f == world.f
  IN /\ hour \in 0..LastHour /\ world.day \in Nat /\ world.col \in {Never} \cup 0..Parts
     /\ f.kind \in {"arable", "meadow", "gone"}
     /\ f.phase \in {"idle", "plowing", "harrowing", "sowing", "growing", "harvest"}
     /\ f.work \in 0..Parts /\ f.harvest_work \in {0, Parts}
     /\ f.laid_share \in 0..Parts /\ f.laid_grams \in Nat
     /\ \A c \in {f.crop, f.last_crop, f.slots[1], f.slots[2], f.slots[3]} :
          c \in DOMAIN Crop \cup {None}
     /\ f.repeat_years \in 0..PenaltyYears /\ f.summers \in 0..Len(Summers)
     /\ f.fertility \in FloorSoil..(FullSoil + Norm) /\ f.applied \in 0..Norm

\* The row passes the save's reader: a game saved at any tick is a game that
\* loads (save_rows.cpp; land_state.h says of each mark where it may stand).
RowLoads ==
  LET f == world.f
  IN /\ TypeOK
     /\ f.mown_fallow => f.kind = "meadow"
     /\ f.booked => f.applied > 0
     /\ f.rest_owed => f.phase \in {"harrowing", "sowing"} /\ f.crop # None
     /\ f.furrowing => /\ f.phase = "plowing" \/ (f.phase = "idle" /\ f.work > 0)
                       /\ f.crop = None /\ ~f.plowed
     /\ f.dose.due \in 0..f.dose.booked /\ f.dose.named <=> f.dose.booked > 0
     /\ f.sown_share \in 0..2

\* However the days, the crew, the column and the rain divide it, a reaping
\* lays the whole the field grew, and what the snow took is the rest of it,
\* but for the grams its shares are rounded by, fewer than the parts it is
\* reaped in (field_work.cpp, "lays its yield to the gram however the days
\* divided it").
ReapedToTheGram ==
  world.b.short = 0 \/ (world.sky = "snow" /\ world.b.short \in 1..(Parts - 1))

\* Above its ceiling the soil stands only while a paid dose is on the row; a
\* dose is paid once, so none that is paid is still being carted; and a field
\* rests once a year, by its fallow's sowing or by the turn.
SoilSettled ==
  LET f == world.f
  IN /\ f.fertility <= FullSoil + (IF f.booked THEN f.applied ELSE 0)
     /\ ~(f.booked /\ f.dose.named)
     /\ world.b.rests <= 1

\* A season of the chain is sown once and never after a later one, whatever
\* the turn found on the field (land_state.h, rotation_skips_turn) - but for a
\* fresh chain's winter crop the turn finds half sown.  The turn spends the mark
\* only where that crop is growing (production_system.cpp, RunYearStart), so
\* the chain stands still with the mark on and sows the season again the next
\* autumn: once for every such turn, and no more.
SlotsInTurn == world.b.excused >= 0

\* What the first of November said of the arriving winter crop is what the
\* turn then finds: a slot is said lost exactly when it lies fallow
\* (land_state.h, "answers the same field the same way").  But for a crop
\* whose reaping has gone on till its slot comes again: November does not
\* take a reaping for a crop in hand, the turn does.
LostSlotIsSaid ==
  LET f == world.f
      stillReaped == f.phase = "harvest" /\ f.crop = f.slots[1]
  IN (hour = 0 /\ NewYear(world) /\ world.b.said # "unasked" /\ ~stillReaped) =>
       (world.b.said = "lost" <=> WinterSlotLost(f, world.day))

\* A meadow gives one season's hay a year, but where ploughing up broke a cut
\* off (field_work.cpp, "ONE CUT A CALENDAR YEAR").
OneCutAYear == world.b.broken \/ world.b.hay <= SeasonHay
=============================================================================
