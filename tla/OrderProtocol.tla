---------------------------- MODULE OrderProtocol ----------------------------
(***************************************************************************)
(* What the boundary promises about an order (core_boundary/session.h):    *)
(* its id is told at once, it is answered once and by one word, and a      *)
(* withdrawal that was accepted is what it is answered with.  There is no  *)
(* book here, no batch and no row.                                         *)
(***************************************************************************)
EXTENDS Integers, Sequences

CONSTANT Id              \* the ids that may be issued, 1 .. some bound

VARIABLES life,          \* id -> "none", "promised", "standing" or "gone"
          revoked,       \* the orders withdrawn since the last step
          answers,       \* what the last step said, in order
          kept           \* life and revoked as a save holds them

vars == <<life, revoked, answers, kept>>

Init ==
  /\ life = [id \in Id |-> "none"]
  /\ revoked = {}
  /\ answers = <<>>
  /\ kept = [life |-> life, revoked |-> {}]

\* Ids are told in order.
Issue ==
  /\ \E id \in Id :
       /\ life[id] = "none"
       /\ \A earlier \in 1..(id - 1) : life[earlier] # "none"
       /\ life' = [life EXCEPT ![id] = "promised"]
  /\ UNCHANGED <<revoked, answers, kept>>

Withdraw ==
  /\ \E id \in Id :
       /\ life[id] \in {"promised", "standing"}
       /\ revoked' = revoked \cup {id}
  /\ UNCHANGED <<life, answers, kept>>

\* Every open order comes to stand or is answered, and only then is gone; a
\* withdrawn one is answered, and by that word and no other.
AdvanceStep ==
  /\ revoked' = {}
  /\ UNCHANGED kept
  /\ \A id \in Id :
       LET word == {answers'[k].answer : k \in {j \in DOMAIN answers' : answers'[j].order = id}} IN
       IF life[id] \in {"none", "gone"}
       THEN life'[id] = life[id] /\ word = {}
       ELSE \/ life'[id] = "standing" /\ word = {} /\ id \notin revoked
            \/ life'[id] = "gone" /\ word = {"cancelled"} /\ id \in revoked
            \/ life'[id] = "gone" /\ word \in {{"done"}, {"refused"}} /\ id \notin revoked
  /\ \A j, k \in DOMAIN answers' : answers'[j].order = answers'[k].order => j = k
  /\ \A k \in DOMAIN answers' : answers'[k].order \in Id

Save ==
  /\ kept' = [life |-> life, revoked |-> revoked]
  /\ UNCHANGED <<life, revoked, answers>>

\* A load with the batch resumes; one without forgets what was only promised.
Resume ==
  /\ life' = kept.life
  /\ revoked' = kept.revoked
  /\ answers' = <<>>
  /\ UNCHANGED kept

Forget ==
  /\ life' = [id \in Id |-> IF kept.life[id] = "promised" THEN "none" ELSE kept.life[id]]
  /\ revoked' = {}
  /\ answers' = <<>>
  /\ UNCHANGED kept

Next == Issue \/ Withdraw \/ AdvanceStep \/ Save \/ Resume \/ Forget

Spec == Init /\ [][Next]_vars
=============================================================================
