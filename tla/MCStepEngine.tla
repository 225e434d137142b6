----------------------------- MODULE MCStepEngine ----------------------------
(***************************************************************************)
(* StepEngine on two yards, three people and two fields.  A day has three  *)
(* hours: the day's turn (growth, demography), the plot's and the meal's.  *)
(* The world begins at the end of a day.                                   *)
(***************************************************************************)
EXTENDS StepEngine

Person(id, family) ==
  [id |-> id, family |-> family, heavy |-> id = 1, satiety |-> 1, memory |-> -1]

MCGenesis ==
  {[tick |-> 2, weather |-> "hot",
    residents |-> <<Person(1, 1), Person(2, 1), Person(3, 2)>>,
    families  |-> <<[id |-> 1, pantry |-> 1, mood |-> 2], [id |-> 2, pantry |-> 2, mood |-> 2]>>,
    fields    |-> <<[drought_run |-> 1], [drought_run |-> 2]>>,
    orders    |-> EmptyTable, step_events |-> <<>>,
    next_resident |-> 4, next_family |-> 3,
    ledger |-> [harvest |-> 0, eaten |-> 0, lost |-> 0]]}
=============================================================================
