---------------------------- MODULE MCFastForward ----------------------------
(***************************************************************************)
(* FastForward with two kinds of event, of which a step emits two at most, *)
(* a log that holds two, two readers beside the default one and a day of   *)
(* three ticks.  One target is an event nobody emits.                      *)
(***************************************************************************)
EXTENDS FastForward

SimEvents == {[kind |-> "wedding", severity |-> "kRoutine"],
              [kind |-> "died", severity |-> "kInterrupting"]}

Targets == {[kind |-> "kTick", tick |-> 2], [kind |-> "kNextSunrise"], [kind |-> "kNextSunset"],
            [kind |-> "kFirstEventOf", event_kind |-> "wedding"],
            [kind |-> "kFirstEventOf", event_kind |-> "vacated"]}
=============================================================================
