------------------------------ MODULE EntityMap ------------------------------
(***************************************************************************)
(* What StateTable promises to the rest of the core: a map from ids to     *)
(* rows in which an id, once issued, never names another entity "within a  *)
(* campaign" (include/core_common/state_table.h).  Rows have no order      *)
(* here.  `kept` is the map a save holds.                                  *)
(***************************************************************************)
EXTENDS Integers

CONSTANT Row

VARIABLES live,   \* id -> row, of the entities that exist
          next,   \* the id the next entity gets
          kept    \* the saved map and counter

vars == <<live, next, kept>>

Init ==
  /\ live = [id \in {} |-> 0]
  /\ next = 1
  /\ kept = [live |-> live, next |-> 1]

Add(row) ==
  /\ live' = [id \in (DOMAIN live) \cup {next} |-> IF id = next THEN row ELSE live[id]]
  /\ next' = next + 1
  /\ UNCHANGED kept

Drop(id) ==
  /\ id \in DOMAIN live
  /\ live' = [i \in (DOMAIN live) \ {id} |-> live[i]]
  /\ UNCHANGED <<next, kept>>

Write(id, row) ==
  /\ id \in DOMAIN live
  /\ live' = [live EXCEPT ![id] = row]
  /\ UNCHANGED <<next, kept>>

Keep ==
  /\ kept' = [live |-> live, next |-> next]
  /\ UNCHANGED <<live, next>>

Restore ==
  /\ live' = kept.live
  /\ next' = kept.next
  /\ UNCHANGED kept

Next ==
  \/ \E row \in Row : Add(row)
  \/ \E id \in DOMAIN live : Drop(id)
  \/ \E id \in DOMAIN live, row \in Row : Write(id, row)
  \/ Keep
  \/ Restore

Spec == Init /\ [][Next]_vars
=============================================================================
