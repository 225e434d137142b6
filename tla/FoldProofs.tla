----------------------------- MODULE FoldProofs -----------------------------
(***************************************************************************)
(* What FoldLeft of the community modules makes of a sequence, one element *)
(* at a time.  The operation that is folded is the constant Op of this     *)
(* module: a module that reasons about a fold of its own instantiates it   *)
(* with that operation, and has an induction along the fold as facts.      *)
(* Folded so are the batch into the book and the answered rows out of it   *)
(* (OrderBookOps), and the journal's entries into a world (SessionJournal).*)
(***************************************************************************)
EXTENDS SequencesExt, WellFoundedInduction, TLAPS

CONSTANT Op(_, _)        \* the operation folded: (what came so far, an element)

\* A set of natural numbers that is not empty has a first.
LEMMA FirstOf ==
  ASSUME NEW T \in SUBSET Nat, T # {}
  PROVE  \E m \in T : \A n \in T : m <= n
<1> DEFINE Below == OpToRel(<, Nat)
<1>1. \A m, n \in Nat : m < n => <<m, n>> \in Below
  BY DEF OpToRel
<1>2. IsWellFoundedOn(Below, Nat)
  BY NatLessThanWellFounded
<1> HIDE DEF Below
<1>3. PICK m \in T : \A n \in T : ~(<<n, m>> \in Below)
  BY <1>2, WFMin
<1>4. \A n \in T : m <= n
  <2> SUFFICES ASSUME NEW n \in T, ~(m <= n)
               PROVE  FALSE
    OBVIOUS
  <2>1. n < m
    OBVIOUS
  <2> QED BY <1>1, <1>3, <2>1
<1> QED BY <1>4

\* Induction on the natural numbers, for a set of them.
LEMMA Upwards ==
  ASSUME NEW D, 0 \in D, \A n \in Nat : n \in D => n + 1 \in D
  PROVE  Nat \subseteq D
<1> DEFINE E == Nat \ D
<1> SUFFICES ASSUME E # {} PROVE FALSE
  OBVIOUS
<1>1. E \in SUBSET Nat
  OBVIOUS
<1> HIDE DEF E
<1>2. PICK m \in E : \A k \in E : m <= k
  BY <1>1, FirstOf
<1>3. m \in Nat /\ m \notin D /\ m # 0
  BY <1>2 DEF E
<1>4. m - 1 \in Nat /\ ~(m <= m - 1) /\ (m - 1) + 1 = m
  BY <1>3
<1>5. m - 1 \in D
  BY <1>2, <1>4 DEF E
<1> QED BY <1>3, <1>4, <1>5

\* The largest of a set of rows none of which is after the last.
LEMMA MaxIs ==
  ASSUME NEW n \in Nat, NEW T \in SUBSET (1..n), n \in T
  PROVE  Max(T) = n
<1>1. \A y \in T : n >= y /\ n \in Int /\ y \in Int
  OBVIOUS
<1>2. \A x \in T : (\A y \in T : x >= y) => x = n
  BY <1>1
<1> QED BY <1>1, <1>2 DEF Max

\* g gives, for every set of rows up to n, the fold of seq along that set: the
\* table MapThenFoldSet chooses.
IsFold(g, n, base, seq) ==
  g = [T \in SUBSET (1..n) |->
         IF T = {} THEN base ELSE Op(g[T \ {Max(T)}], seq[Max(T)])]

\* There is such a table for every length.
LEMMA FoldTable ==
  ASSUME NEW base, NEW seq
  PROVE  \A n \in Nat : \E g : IsFold(g, n, base, seq)
<1> DEFINE D == {n \in Nat : \E g : IsFold(g, n, base, seq)}
<1>1. 0 \in D
  <2>1. IsFold([T \in SUBSET (1..0) |-> base], 0, base, seq)
    BY DEF IsFold
  <2> QED BY <2>1
<1>2. ASSUME NEW n \in Nat, n \in D
      PROVE  n + 1 \in D
  <2>1. PICK g : IsFold(g, n, base, seq)
    BY <1>2
  <2> DEFINE h == [T \in SUBSET (1..(n + 1)) |->
                     IF n + 1 \in T THEN Op(g[T \ {n + 1}], seq[n + 1]) ELSE g[T]]
  <2>2. ASSUME NEW T \in SUBSET (1..(n + 1))
        PROVE  h[T] = IF T = {} THEN base ELSE Op(h[T \ {Max(T)}], seq[Max(T)])
    <3>1. CASE n + 1 \in T
      <4>1. Max(T) = n + 1
        BY <3>1, MaxIs
      <4>2. h[T \ {n + 1}] = g[T \ {n + 1}]
        OBVIOUS
      <4> QED BY <3>1, <4>1, <4>2
    <3>2. CASE n + 1 \notin T
      <4>1. T \in SUBSET (1..n) /\ h[T] = g[T]
        BY <3>2
      <4>2. g[T] = IF T = {} THEN base ELSE Op(g[T \ {Max(T)}], seq[Max(T)])
        BY <2>1, <4>1 DEF IsFold
      <4>3. ASSUME T # {} PROVE h[T \ {Max(T)}] = g[T \ {Max(T)}]
        BY <3>2
      <4> QED BY <4>1, <4>2, <4>3
    <3> QED BY <3>1, <3>2
  <2>3. h = [T \in SUBSET (1..(n + 1)) |-> h[T]]
    OBVIOUS
  <2> HIDE DEF h
  <2>4. IsFold(h, n + 1, base, seq)
    BY <2>2, <2>3 DEF IsFold
  <2> QED BY <2>4
<1>3. Nat \subseteq D
  <2> HIDE DEF D
  <2> QED BY <1>1, <1>2, Upwards
<1> QED BY <1>3

\* A fold over a sequence is that table's value at all its rows.
LEMMA FoldIs ==
  ASSUME NEW base, NEW seq, NEW n \in Nat, DOMAIN seq = 1..n
  PROVE  \E g : IsFold(g, n, base, seq) /\ FoldLeft(Op, base, seq) = g[1..n]
<1> DEFINE iter == CHOOSE g : IsFold(g, n, base, seq)
<1>1. IsFold(iter, n, base, seq)
  BY FoldTable
<1>2. FoldLeft(Op, base, seq) = iter[1..n]
  BY DEF FoldLeft, MapThenFoldSet, IsFold
<1> QED BY <1>1, <1>2

\* g gives the fold of each beginning of seq, from the empty one to all n.
IsSteps(g, n, base, seq) ==
  g = [k \in 0..n |-> IF k = 0 THEN base ELSE Op(g[k - 1], seq[k])]

\* A fold is the last of the values its beginnings have, each made of the one
\* before by one application of Op.
LEMMA FoldSteps ==
  ASSUME NEW base, NEW seq, NEW n \in Nat, DOMAIN seq = 1..n
  PROVE  \E g : IsSteps(g, n, base, seq) /\ FoldLeft(Op, base, seq) = g[n]
<1>1. PICK h : IsFold(h, n, base, seq) /\ FoldLeft(Op, base, seq) = h[1..n]
  BY FoldIs
<1> DEFINE g == [k \in 0..n |-> h[1..k]]
<1>2. ASSUME NEW k \in 0..n
      PROVE  g[k] = IF k = 0 THEN base ELSE Op(g[k - 1], seq[k])
  <2>1. 1..k \in SUBSET (1..n)
    OBVIOUS
  <2>2. h[1..k] = IF 1..k = {} THEN base ELSE Op(h[(1..k) \ {Max(1..k)}], seq[Max(1..k)])
    BY <1>1, <2>1 DEF IsFold
  <2>3. CASE k = 0
    BY <2>2, <2>3
  <2>4. CASE k # 0
    <3>1. k \in 1..k /\ Max(1..k) = k
      BY <2>4, MaxIs
    <3>2. (1..k) \ {k} = 1..(k - 1)
      BY <2>4
    <3>3. 1..k # {} /\ k - 1 \in 0..n
      BY <2>4, <3>1
    <3>4. g[k] = h[1..k] /\ g[k - 1] = h[1..(k - 1)]
      BY <3>3
    <3> HIDE DEF g
    <3>5. h[1..k] = Op(h[1..(k - 1)], seq[k])
      BY <2>2, <3>1, <3>2, <3>3
    <3> QED BY <2>4, <3>4, <3>5
  <2> QED BY <2>3, <2>4
<1>3. g = [k \in 0..n |-> g[k]] /\ g[n] = h[1..n]
  OBVIOUS
<1> HIDE DEF g
<1>4. IsSteps(g, n, base, seq)
  BY <1>2, <1>3 DEF IsSteps
<1> QED BY <1>1, <1>3, <1>4

\* Sequences that begin alike fold alike so far.
LEMMA StepsAgree ==
  ASSUME NEW n \in Nat, NEW m \in 0..n, NEW base, NEW seq, NEW more,
         \A k \in 1..m : more[k] = seq[k],
         NEW g, NEW h, IsSteps(g, m, base, seq), IsSteps(h, n, base, more)
  PROVE  g[m] = h[m]
<1> DEFINE D == {k \in Nat : k <= m => g[k] = h[k]}
<1>1. 0 \in D
  BY DEF IsSteps
<1>2. ASSUME NEW k \in Nat, k \in D
      PROVE  k + 1 \in D
  <2> SUFFICES ASSUME k + 1 <= m PROVE g[k + 1] = h[k + 1]
    OBVIOUS
  <2>1. k + 1 \in 0..m /\ k + 1 \in 0..n /\ k + 1 # 0 /\ (k + 1) - 1 = k /\ k <= m
    OBVIOUS
  <2>2. g[k + 1] = Op(g[k], seq[k + 1])
    BY <2>1 DEF IsSteps
  <2>3. h[k + 1] = Op(h[k], more[k + 1])
    BY <2>1 DEF IsSteps
  <2> QED BY <1>2, <2>1, <2>2, <2>3
<1>3. m \in D
  <2> HIDE DEF D
  <2> QED BY <1>1, <1>2, Upwards
<1> QED BY <1>3

\* One element more at the end is one application more of Op.
LEMMA FoldOne ==
  ASSUME NEW base, NEW S, NEW seq \in Seq(S), NEW x \in S
  PROVE  FoldLeft(Op, base, Append(seq, x)) = Op(FoldLeft(Op, base, seq), x)
<1> DEFINE n == Len(seq)
           more == Append(seq, x)
<1>1. /\ n \in Nat /\ n + 1 \in Nat /\ DOMAIN seq = 1..n /\ DOMAIN more = 1..(n + 1)
      /\ \A k \in 1..n : more[k] = seq[k]
      /\ more[n + 1] = x
  OBVIOUS
<1> HIDE DEF n, more
<1>2. PICK g : IsSteps(g, n, base, seq) /\ FoldLeft(Op, base, seq) = g[n]
  BY <1>1, FoldSteps
<1>3. PICK h : IsSteps(h, n + 1, base, more) /\ FoldLeft(Op, base, more) = h[n + 1]
  BY <1>1, FoldSteps
<1>4. g[n] = h[n]
  BY <1>1, <1>2, <1>3, StepsAgree
<1>5. h[n + 1] = Op(h[n], more[n + 1])
  BY <1>1, <1>3 DEF IsSteps
<1> QED BY <1>1, <1>2, <1>3, <1>4, <1>5 DEF more

\* What holds of the base and is kept by Op for every element holds of the fold.
LEMMA FoldKeeps ==
  ASSUME NEW base, NEW seq, NEW n \in Nat, DOMAIN seq = 1..n, NEW A,
         base \in A, \A a \in A, k \in 1..n : Op(a, seq[k]) \in A
  PROVE  FoldLeft(Op, base, seq) \in A
<1>1. PICK g : IsSteps(g, n, base, seq) /\ FoldLeft(Op, base, seq) = g[n]
  BY FoldSteps
<1> DEFINE D == {k \in Nat : k <= n => g[k] \in A}
<1>2. 0 \in D
  BY <1>1 DEF IsSteps
<1>3. ASSUME NEW k \in Nat, k \in D
      PROVE  k + 1 \in D
  <2> SUFFICES ASSUME k + 1 <= n PROVE g[k + 1] \in A
    OBVIOUS
  <2>1. k + 1 \in 0..n /\ k + 1 \in 1..n /\ k + 1 # 0 /\ (k + 1) - 1 = k /\ k <= n
    OBVIOUS
  <2>2. g[k + 1] = Op(g[k], seq[k + 1])
    BY <1>1, <2>1 DEF IsSteps
  <2> QED BY <1>3, <2>1, <2>2
<1>4. n \in D
  <2> HIDE DEF D
  <2> QED BY <1>2, <1>3, Upwards
<1> QED BY <1>1, <1>4
=============================================================================
