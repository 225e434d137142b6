-------------------------- MODULE MCSessionJournal ---------------------------
(***************************************************************************)
(* SessionJournal with two kinds of order that wait for the close of a      *)
(* two-tick day, one of which is refused there, and one the chairman gives *)
(* from the district and that is settled at once.  He is away on the second*)
(* tick.                                                                   *)
(***************************************************************************)
EXTENDS SessionJournal
=============================================================================
