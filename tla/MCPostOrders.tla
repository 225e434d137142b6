---------------------------- MODULE MCPostOrders -----------------------------
(***************************************************************************)
(* PostOrders with two villagers and a specialist to come, two units - one *)
(* with a single storekeeper's place, both with room for the village's one *)
(* agronomist - and a day of two ticks.                                    *)
(***************************************************************************)
EXTENDS PostOrders, TLC

CONSTANTS ivan, marya, petr

MCSlots == [store |-> [storekeeper |-> 1, agronomist |-> 0], office |-> [agronomist |-> 0]]

MCEligible == {ivan, marya, petr} \X {"storekeeper", "agronomist"}

Villagers == Permutations({ivan, marya})
=============================================================================
