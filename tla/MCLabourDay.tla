---------------------------- MODULE MCLabourDay ----------------------------
(* Three men, the third the groom; a harvest that ripens on the first      *)
(* morning and outlasts the day off, one goods cart's load, a ploughing    *)
(* the chairman has ordered, a site supplied in some hour, and two horses. *)
EXTENDS LabourDay

MCMen == 1..3
MCWalk == <<1, 1, 0>>
MCOrdered == {[man |-> 2, job |-> "plough"]}
Job(kind, opens, work, timber) ==
  [kind |-> kind, opens |-> opens, work |-> work, timber |-> timber]
MCJobs == [reap   |-> Job("harvest", 0, 4, FALSE),
           cart   |-> Job("hauling", 0, 2, TRUE),
           plough |-> Job("plowing", 1, 2, FALSE),
           site   |-> Job("construction", 1, 2, FALSE),
           care   |-> Job("care", 0, 1, FALSE)]
=============================================================================
