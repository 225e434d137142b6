---------------------------- MODULE MCDistrictTrip ----------------------------
(***************************************************************************)
(* DistrictTrip with a day of four ticks (dawn, the store audit's, the     *)
(* departure's, the return's), a month of three days, a year of three, and *)
(* one regular visit on the third day.                                     *)
(***************************************************************************)
EXTENDS DistrictTrip

MCRegular == {[face |-> "kPolushkina", day |-> 2]}
=============================================================================
