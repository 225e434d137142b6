---------------------------- MODULE MCDistrictYear ----------------------------
(* Years of two days for DistrictYear: grain and tools, a lot of tools and a *)
(* head on the limit, one place for a head; seed to keep, two grams, then   *)
(* one.                                                                     *)
EXTENDS DistrictYear

MCRes == 1..2
MCRoom == <<4, 1>>
MCStartStock == <<3, 0>>
MCSeedNorm == [d \in 0..1 |-> 2 - d]
MCLots ==
  [tools |-> [goods |-> <<0, 2>>, points |-> 1, heads |-> 0, grain |-> 1, logs |-> FALSE],
   mare  |-> [goods |-> <<0, 0>>, points |-> 1, heads |-> 1, grain |-> 0, logs |-> FALSE]]
Life(ticks, orders, reaped, eaten, shuts) ==
  [ticks |-> ticks, orders |-> orders, reaped |-> reaped, eaten |-> eaten, shuts |-> shuts]
\* A year and a half full of orders; three turns with next to none.
MCLives == {Life(6, 2, 1, 1, 1), Life(12, 0, 1, 0, 0), Life(8, 2, 1, 0, 0)}
=============================================================================
