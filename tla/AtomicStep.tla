------------------------------ MODULE AtomicStep -----------------------------
(***************************************************************************)
(* What a simulation promises through ISimulation (core_sim/step.h):       *)
(* there is one completed world, orders are staged beside it, and a step   *)
(* replaces the world by what Step makes of it, of the staged batch and of *)
(* the draws the world's randomness allows.  How many workers there are    *)
(* and what each of them was given appears nowhere.                        *)
(***************************************************************************)
EXTENDS Integers, Sequences

CONSTANTS Genesis,       \* the worlds a campaign or a load begins with
          OrderRow,      \* the rows that may be issued
          Id,            \* the ids a cancellation may name
          Step(_, _, _), \* the world after a step
          Chances(_)     \* the draws a step from this world may meet

VARIABLES world,         \* CompletedState
          inbox          \* what was staged since the last step

vars == <<world, inbox>>

Nothing == [issued |-> <<>>, cancelled |-> <<>>]

Init ==
  /\ world \in Genesis
  /\ inbox = Nothing

Issue(row) ==
  /\ inbox' = [inbox EXCEPT !.issued = Append(@, row)]
  /\ UNCHANGED world

Cancel(id) ==
  /\ inbox' = [inbox EXCEPT !.cancelled = Append(@, id)]
  /\ UNCHANGED world

\* One step is one game hour.
Advance ==
  /\ world'.tick = world.tick + 1
  /\ \E chance \in Chances(world) : world' = Step(world, inbox, chance)
  /\ inbox' = Nothing

ResetWorld(w) ==
  /\ world' = w
  /\ inbox' = Nothing

Next ==
  \/ \E row \in OrderRow : Issue(row)
  \/ \E id \in Id : Cancel(id)
  \/ Advance
  \/ \E w \in Genesis : ResetWorld(w)

Spec == Init /\ [][Next]_vars
=============================================================================
