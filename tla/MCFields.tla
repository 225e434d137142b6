------------------------------ MODULE MCFields ------------------------------
(* Years of six days for Fields: winter, a spring day, two of summer, the   *)
(* month of grace, the first of November.  Oats, rye and clover.            *)
EXTENDS Fields

Def(winter, perennial, from, to, warmth, reapFrom, reapTo, seed, delta) ==
  [winter |-> winter, perennial |-> perennial, ages |-> perennial, grace |-> winter,
   from |-> from, to |-> to, warmth |-> warmth, reapFrom |-> reapFrom, reapTo |-> reapTo,
   seed |-> seed, delta |-> delta]
MCCrop ==
  [oats   |-> Def(FALSE, FALSE, 1, 1, 1, 3, 3, 1, -1),
   rye    |-> Def(TRUE, FALSE, 3, 3, 0, 2, 2, 1, -1),
   clover |-> Def(FALSE, TRUE, 1, 1, 1, 2, 3, 0, 1)]
MCSummers == <<[loss |-> 0, banks |-> TRUE], [loss |-> 1, banks |-> FALSE]>>

Sky(air, sky, cover) == [air |-> air, sky |-> sky, cover |-> cover]
MCWeather == [month \in 0..5 |->
  CASE month = 0 -> {Sky(-1, "dry", TRUE), Sky(0, "dry", FALSE)}
    [] month = 1 -> {Sky(1, "dry", FALSE), Sky(1, "rain", FALSE)}
    [] month = 2 -> {Sky(1, "dry", FALSE), Sky(2, "dry", FALSE)}
    [] month = 3 -> {Sky(1, "dry", FALSE), Sky(1, "rain", FALSE)}
    [] month = 4 -> {Sky(0, "dry", FALSE), Sky(-1, "snow", TRUE)}
    [] month = 5 -> {Sky(0, "dry", FALSE), Sky(-1, "dry", TRUE)}]

Chained(f, slots) == [f EXCEPT !.slots = slots, !.assigned = TRUE, !.skips = TRUE]
Life(f, last, orders, chains, marks, dung, seeds, column) ==
  [f |-> f, last |-> last, orders |-> orders, chains |-> chains, marks |-> marks,
   dung |-> dung, seeds |-> seeds, column |-> column]
Canon == <<None, "rye", "oats">>
Poor == [Ground EXCEPT !.fertility = 2]
Clover == [Chained(Poor, <<"clover", "clover", "rye">>) EXCEPT
             !.skips = FALSE, !.phase = "growing", !.crop = "clover", !.summers = 1]
\* The canon's chain by hand and by the column; a rye named first, then a
\* fallow; chains named over chains; a furrowed fallow mown, and mown again; a
\* stand of clover cut, ended and named over.
Empty == <<None, None, None>>
OatsTwice == <<"oats", "oats", None>>
RyeFirst == <<"rye", "oats", None>>
MCLives ==
  {Life(Chained(Poor, Canon), 18, 0, {}, FALSE, TRUE, {0, 1, 2}, "none"),
   Life(Chained(Poor, Canon), 19, 0, {}, FALSE, TRUE, {2}, "spring"),
   Life(Chained(Poor, Canon), 18, 0, {}, FALSE, FALSE, {1, 2}, "autumn"),
   Life(Chained(Poor, RyeFirst), 18, 0, {}, FALSE, FALSE, {2}, "none"),
   Life(Poor, 12, 2, {Canon, RyeFirst, Empty}, FALSE, TRUE, {2}, "none"),
   Life(Chained(Poor, OatsTwice), 10, 2, {OatsTwice, Empty}, TRUE, FALSE, {2}, "none"),
   Life(NewMeadow, 12, 3, {Canon, Empty}, TRUE, TRUE, {2}, "none"),
   Life(Ground, 6, 4, {Empty}, TRUE, FALSE, {2}, "none"),
   Life(Clover, 12, 1, {Canon}, FALSE, FALSE, {2}, "none")}
=============================================================================
