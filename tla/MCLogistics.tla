---------------------------- MODULE MCLogistics ----------------------------
(* A store being emptied and a field's winter dose, a heap or a works'      *)
(* supply that comes, two carters, three days of six hours, three of light. *)
EXTENDS Logistics

MCLoads == {"heap", "site", "store", "dose"}
MCDefaultLevel == [l \in MCLoads |->
  CASE l = "heap" -> kTerm [] l = "site" -> kOrdinary [] OTHER -> kBackground]
\* The store lies too far from the heap to be carted after it.
MCReach == (MCLoads \X MCLoads) \ {<<"heap", "store">>}
MCFirstLoads == {{"store", "dose"}}
MCEstimates == {[ride |-> 0, left |-> TRUE], [ride |-> 1, left |-> FALSE]}
Life(o, n, f, t) == [orders |-> o, news |-> n, shifts |-> f, threats |-> t]
MCLives == {Life(2, 0, 0, 0), Life(1, 1, 0, 0), Life(0, 2, 0, 0),
            Life(0, 1, 0, 1), Life(0, 1, 1, 0)}
=============================================================================
