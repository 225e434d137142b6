--------------------------- MODULE MCBuildingSite ---------------------------
(* Three small farms for BuildingSite: a store, a barn to raise and plots   *)
(* to mark; a church store beside the yard that will replace it; an old     *)
(* house that falls, a yard and its module.                                 *)
EXTENDS BuildingSite

\* Resources: 1 logs, 2 spare parts, 3 straw.
MCUnits == 1..3
MCPlace == [u \in 1..3 |-> u]
MCRes == 1..3
G(log, part, straw) == <<log, part, straw>>
Rung(recipe, days, room, marking) ==
  [recipe |-> recipe, days |-> days, room |-> room, marking |-> marking]
Kind(ladder, stores) ==
  [ladder |-> ladder, stores |-> stores, ages |-> FALSE, old |-> FALSE,
   eternal |-> FALSE, over |-> "none", free |-> FALSE, heated |-> 0,
   pausable |-> FALSE, church |-> FALSE]
MCTypes ==
  [store |-> Kind(<<Rung(G(0, 0, 0), 1, 4, FALSE)>>, {1, 2, 3}),
   barn  |-> Kind(<<Rung(G(1, 0, 0), 1, 2, FALSE), Rung(G(2, 0, 0), 1, 3, FALSE)>>, {1}),
   house |-> [Kind(<<Rung(G(1, 0, 0), 1, 0, FALSE)>>, {})
                EXCEPT !.heated = 1],
   church |-> [Kind(<<Rung(G(0, 0, 0), 1, 3, FALSE)>>, {2})
                EXCEPT !.church = TRUE, !.ages = TRUE],
   yard  |-> [Kind(<<Rung(G(0, 0, 0), 1, 2, FALSE)>>, {2, 3}) EXCEPT !.free = TRUE, !.pausable = TRUE],
   shed  |-> [Kind(<<Rung(G(1, 0, 0), 0, 1, FALSE)>>, {1})
                EXCEPT !.over = "yard"],
   old   |-> [Kind(<<Rung(G(0, 0, 0), 1, 0, FALSE)>>, {})
                EXCEPT !.old = TRUE, !.ages = TRUE, !.heated = 1]]

Built(type, stock) == [Idle(NewRow(type, Nobody)) EXCEPT !.level = 1, !.stock = stock]
Farm(rows, lying, spent, open) ==
  [unit |-> rows, lying |-> lying, spent |-> spent, builtIn |-> Nil, lost |-> Nil,
   used |-> Nil, open |-> open, hour |-> 1]
MCEndowment == G(3, 2, 1)
Timber == Farm(<<Built("store", G(2, 2, 1)), Built("barn", G(0, 0, 0)), NoUnit>>,
               G(1, 0, 0), <<TRUE, TRUE, FALSE>>, {"house"})
Perevalka == Farm(<<[Built("church", G(0, 2, 0)) EXCEPT !.wear = 1],
                    Built("yard", G(0, 0, 1)), NoUnit>>,
                  G(3, 0, 0), <<TRUE, TRUE, TRUE>>, {})
Fallen == Farm(<<Built("yard", G(1, 1, 1)),
                 [Built("old", G(2, 1, 0)) EXCEPT !.wear = 1, !.lived = TRUE], NoUnit>>,
               G(0, 0, 0), <<TRUE, TRUE, FALSE>>, {"shed"})
MCStarts == {Timber, Perevalka, Fallen}
=============================================================================
