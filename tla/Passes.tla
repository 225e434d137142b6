------------------------------- MODULE Passes -------------------------------
(* Walks over a sequence that change a world as they go, written so that    *)
(* TLC computes every intermediate world once.                              *)
EXTENDS Naturals, Sequences

\* body(value) with the value computed once: a fold in TLC otherwise computes
\* its accumulator anew at every mention.
With(value, body(_)) == CHOOSE y \in {body(x) : x \in {value}} : TRUE

\* f applied to w and every element of seq, first to last.
Through(f(_, _), w, seq) ==
  LET after[n \in 0..Len(seq)] ==
        IF n = 0 THEN w ELSE With(after[n - 1], LAMBDA w1 : f(w1, seq[n]))
  IN after[Len(seq)]

Upto(n) == [i \in 1..n |-> i]

Least(a, b) == IF a < b THEN a ELSE b
Above(a, b) == IF a > b THEN a - b ELSE 0
=============================================================================
