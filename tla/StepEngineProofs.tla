--------------------------- MODULE StepEngineProofs --------------------------
(***************************************************************************)
(* The engine's promises for any number of workers, any worlds a campaign  *)
(* begins with and any cut of the task sets: a step is atomic, people and  *)
(* rows stay together, the year's book balances.                           *)
(*                                                                         *)
(* The inductive invariant, EngineInv, says of a sequential slot that the  *)
(* world being built is the one the slot is to begin with, and of a        *)
(* parallel one that it is that world with exactly those items done that   *)
(* nobody owes - a range no worker has taken owes its items, a worker the  *)
(* rest of his - while nothing is owed twice and what a worker has read is *)
(* what his item makes of the world the slot began with.                   *)
(*                                                                         *)
(* The lemmas about the work of the phases come first, for worlds of any   *)
(* size:                                                                   *)
(*                                                                         *)
(*   sums     sums over finite sets, by induction over their subsets       *)
(*   rows     the row of an id, a removal by swap-with-last, and what a    *)
(*            table of pantries holds after each                           *)
(*   items    an item of a parallel phase writes its own rows; items done  *)
(*            one by one are items done at once (AtOnceOneMore), and what  *)
(*            one reads no other writes (ItemFrame)                        *)
(*   people   a death, a birth and a wedding keep the ids apart, everybody *)
(*            housed and every gram accounted for                          *)
(*   the step StepStands: the fold books what the other phases did         *)
(***************************************************************************)
EXTENDS StepEngine, SequenceTheorems, FiniteSetTheorems, TLAPS

-----------------------------------------------------------------------------
(* Sums.                                                                   *)

\* The element a sum takes first.
Pick(s) == CHOOSE x \in s : TRUE

\* g is the table of f's partial sums over the subsets of S.
Adds(g, f, S) ==
  g = [s \in SUBSET S |-> IF s = {} THEN 0 ELSE f[Pick(s)] + g[s \ {Pick(s)}]]

\* Such a table.
Walk(f, S) == CHOOSE g : Adds(g, f, S)

\* The sum of f over a finite set.
Total(f, S) == Walk(f, S)[S]

\* Induction over the subsets of a finite set: a class of them that holds a set
\* whenever it holds all its proper subsets holds them all.
LEMMA SubsetInduction ==
  ASSUME NEW S, IsFiniteSet(S), NEW D,
         \A T \in SUBSET S : (\A U \in SUBSET T : U # T => U \in D) => T \in D
  PROVE  SUBSET S \subseteq D
<1> DEFINE Left == (SUBSET S) \ D
<1> SUFFICES ASSUME Left # {}
             PROVE  FALSE
  OBVIOUS
<1>1. Left \subseteq FiniteSubsetsOf(S)
  BY FS_FiniteSubsetsOfFinite
<1>2. IsWellFoundedOn(StrictSubsetOrdering(S), FiniteSubsetsOf(S))
  BY FS_StrictSubsetOrderingWellFounded
<1> HIDE DEF Left
<1>3. PICK T \in Left : \A U \in Left : ~(<<U, T>> \in StrictSubsetOrdering(S))
  BY <1>1, <1>2, WFMin
<1> USE DEF Left
<1>4. \A U \in SUBSET T : U # T => U \in D
  BY <1>3 DEF StrictSubsetOrdering
<1> QED BY <1>3, <1>4

\* The element a sum takes first is one of the set's.
LEMMA PickIn == ASSUME NEW s, s # {} PROVE Pick(s) \in s
  BY DEF Pick

\* Two tables of partial sums of one function agree on every finite set.
LEMMA WalksAgree ==
  ASSUME NEW S, IsFiniteSet(S), NEW R, NEW f, NEW h, NEW g, NEW k,
         Adds(g, f, S), Adds(k, h, R),
         \A x \in S : f[x] = h[x], S \subseteq R
  PROVE  g[S] = k[S]
<1> DEFINE D == {t \in SUBSET S : g[t] = k[t]}
<1>1. ASSUME NEW T \in SUBSET S, \A U \in SUBSET T : U # T => U \in D
      PROVE  T \in D
  <2>1. CASE T = {}
    BY <2>1 DEF Adds
  <2>2. CASE T # {}
    <3>1. Pick(T) \in T
      BY <2>2, PickIn
    <3>2. T \ {Pick(T)} \in D
      BY <1>1, <3>1
    <3>3. g[T] = f[Pick(T)] + g[T \ {Pick(T)}] /\ k[T] = h[Pick(T)] + k[T \ {Pick(T)}]
      BY <2>2 DEF Adds
    <3> QED BY <3>1, <3>2, <3>3
  <2> QED BY <2>1, <2>2
<1> HIDE DEF D
<1>2. SUBSET S \subseteq D
  BY <1>1, SubsetInduction
<1> QED BY <1>2 DEF D

\* Over a finite set there is a table of partial sums, so Total is defined.
LEMMA WalkExists ==
  ASSUME NEW f, NEW S, IsFiniteSet(S)
  PROVE  Adds(Walk(f, S), f, S)
<1> DEFINE D == {t \in SUBSET S : Adds(Walk(f, t), f, t)}
<1>1. ASSUME NEW T \in SUBSET S, \A U \in SUBSET T : U # T => U \in D
      PROVE  T \in D
  <2> DEFINE g == [s \in SUBSET T |->
                     IF s = {} THEN 0 ELSE f[Pick(s)] + Total(f, s \ {Pick(s)})]
  <2>1. ASSUME NEW s \in SUBSET T, s # T
        PROVE  Total(f, s) = g[s]
    <3>1. s \in D
      BY <1>1, <2>1
    <3>2. Adds(Walk(f, s), f, s)
      BY <3>1
    <3>3. CASE s = {}
      BY <3>2, <3>3 DEF Adds, Total
    <3>4. CASE s # {}
      <4> DEFINE t == s \ {Pick(s)}
      <4>1. Pick(s) \in s
        BY <3>4, PickIn
      <4>2. t \in D /\ t \subseteq s /\ t # s
        BY <1>1, <2>1, <4>1
      <4>3. Adds(Walk(f, t), f, t)
        BY <4>2
      <4>4. IsFiniteSet(t)
        BY <4>2, FS_Subset
      <4>5. Walk(f, t)[t] = Walk(f, s)[t]
        BY <3>2, <4>2, <4>3, <4>4, WalksAgree
      <4>6. Walk(f, s)[s] = f[Pick(s)] + Walk(f, s)[t]
        BY <3>2, <3>4 DEF Adds
      <4> QED BY <3>4, <4>5, <4>6 DEF Total
    <3> QED BY <3>3, <3>4
  <2>2. ASSUME NEW s \in SUBSET T, s # {}
        PROVE  Total(f, s \ {Pick(s)}) = g[s \ {Pick(s)}]
    <3>1. Pick(s) \in s
      BY <2>2, PickIn
    <3> HIDE DEF g
    <3> QED BY <2>1, <3>1
  <2>3. g = [s \in SUBSET T |-> IF s = {} THEN 0 ELSE f[Pick(s)] + g[s \ {Pick(s)}]]
    BY <2>2
  <2> HIDE DEF g
  <2>4. Adds(g, f, T)
    BY <2>3 DEF Adds
  <2> QED BY <2>4 DEF Walk
<1> HIDE DEF D
<1>2. SUBSET S \subseteq D
  BY <1>1, SubsetInduction
<1> QED BY <1>2 DEF D

\* The sum over nothing is zero.
LEMMA TotalEmpty == ASSUME NEW f PROVE Total(f, {}) = 0
<1>1. Adds(Walk(f, {}), f, {})
  BY WalkExists, FS_EmptySet
<1>2. {} \in SUBSET {}
  OBVIOUS
<1> QED BY <1>1, <1>2 DEF Total, Adds

\* Functions that agree on the set have one sum over it.
LEMMA TotalSame ==
  ASSUME NEW S, IsFiniteSet(S), NEW f, NEW h, \A x \in S : f[x] = h[x]
  PROVE  Total(f, S) = Total(h, S)
  BY WalkExists, WalksAgree DEF Total

\* A sum is the value at the picked element and the sum over the others.
LEMMA TotalPick ==
  ASSUME NEW S, IsFiniteSet(S), S # {}, NEW f
  PROVE  Total(f, S) = f[Pick(S)] + Total(f, S \ {Pick(S)})
<1>1. IsFiniteSet(S \ {Pick(S)})
  BY FS_RemoveElement
<1>2. Adds(Walk(f, S), f, S) /\ Adds(Walk(f, S \ {Pick(S)}), f, S \ {Pick(S)})
  BY <1>1, WalkExists
<1>3. Walk(f, S \ {Pick(S)})[S \ {Pick(S)}] = Walk(f, S)[S \ {Pick(S)}]
  BY <1>1, <1>2, WalksAgree
<1>4. Walk(f, S)[S] = f[Pick(S)] + Walk(f, S)[S \ {Pick(S)}]
  BY <1>2 DEF Adds
<1> QED BY <1>3, <1>4 DEF Total

\* A sum of integers is an integer.
LEMMA TotalType ==
  ASSUME NEW S, IsFiniteSet(S), NEW f, \A x \in S : f[x] \in Int
  PROVE  Total(f, S) \in Int
<1> DEFINE D == {t \in SUBSET S : Total(f, t) \in Int}
<1>1. ASSUME NEW T \in SUBSET S, \A U \in SUBSET T : U # T => U \in D
      PROVE  T \in D
  <2>1. CASE T = {}
    BY <2>1, TotalEmpty
  <2>2. CASE T # {}
    <3>1. Pick(T) \in T /\ IsFiniteSet(T)
      BY <2>2, PickIn, FS_Subset
    <3>2. T \ {Pick(T)} \in D
      BY <1>1, <3>1
    <3>3. Total(f, T) = f[Pick(T)] + Total(f, T \ {Pick(T)})
      BY <2>2, <3>1, TotalPick
    <3> QED BY <3>1, <3>2, <3>3
  <2> QED BY <2>1, <2>2
<1> HIDE DEF D
<1>2. SUBSET S \subseteq D
  BY <1>1, SubsetInduction
<1> QED BY <1>2 DEF D

\* A sum of natural numbers is one.
LEMMA TotalNat ==
  ASSUME NEW S, IsFiniteSet(S), NEW f, \A x \in S : f[x] \in Nat
  PROVE  Total(f, S) \in Nat
<1> DEFINE D == {t \in SUBSET S : Total(f, t) \in Nat}
<1>1. ASSUME NEW T \in SUBSET S, \A U \in SUBSET T : U # T => U \in D
      PROVE  T \in D
  <2>1. CASE T = {}
    BY <2>1, TotalEmpty
  <2>2. CASE T # {}
    <3>1. Pick(T) \in T /\ IsFiniteSet(T)
      BY <2>2, PickIn, FS_Subset
    <3>2. T \ {Pick(T)} \in D
      BY <1>1, <3>1
    <3>3. Total(f, T) = f[Pick(T)] + Total(f, T \ {Pick(T)})
      BY <2>2, <3>1, TotalPick
    <3> QED BY <3>1, <3>2, <3>3
  <2> QED BY <2>1, <2>2
<1> HIDE DEF D
<1>2. SUBSET S \subseteq D
  BY <1>1, SubsetInduction
<1> QED BY <1>2 DEF D

\* Any element may be taken out first: the order of a sum does not matter.
LEMMA TotalWith ==
  ASSUME NEW S, IsFiniteSet(S), NEW f, \A y \in S : f[y] \in Int, NEW x \in S
  PROVE  Total(f, S) = f[x] + Total(f, S \ {x})
<1> DEFINE D == {t \in SUBSET S : \A y \in t : Total(f, t) = f[y] + Total(f, t \ {y})}
<1>1. ASSUME NEW T \in SUBSET S, \A U \in SUBSET T : U # T => U \in D
      PROVE  T \in D
  <2> SUFFICES ASSUME NEW y \in T
               PROVE  Total(f, T) = f[y] + Total(f, T \ {y})
    OBVIOUS
  <2> DEFINE p == Pick(T)
             both == T \ {p, y}
  <2>1. p \in T /\ IsFiniteSet(T)
    BY PickIn, FS_Subset
  <2>2. Total(f, T) = f[p] + Total(f, T \ {p})
    BY <2>1, TotalPick
  <2> HIDE DEF p
  <2>3. CASE p = y
    BY <2>2, <2>3
  <2>4. CASE p # y
    <3>1. T \ {p} \in D /\ T \ {y} \in D
      BY <1>1, <2>1
    <3>2. (T \ {p}) \ {y} = both /\ (T \ {y}) \ {p} = both
      OBVIOUS
    <3>3. /\ Total(f, T \ {p}) = f[y] + Total(f, both)
          /\ Total(f, T \ {y}) = f[p] + Total(f, both)
      BY <2>1, <2>4, <3>1, <3>2
    <3>4. IsFiniteSet(both) /\ \A z \in both : f[z] \in Int
      BY <2>1, FS_Subset
    <3>5. Total(f, both) \in Int
      BY <3>4, TotalType
    <3> QED BY <2>1, <2>2, <3>3, <3>5
  <2> QED BY <2>3, <2>4
<1> HIDE DEF D
<1>2. SUBSET S \subseteq D
  BY <1>1, SubsetInduction
<1> QED BY <1>2 DEF D
\* The sum the model writes with the community module's fold.
LEMMA SumIsTotal == ASSUME NEW f PROVE SumFunction(f) = Total(f, DOMAIN f)
  BY DEF SumFunction, SumFunctionOnSet, FoldFunctionOnSet, MapThenFoldSet, Total, Walk, Adds, Pick

\* The sum of the differences is the difference of the sums.
LEMMA TotalDifference ==
  ASSUME NEW S, IsFiniteSet(S), NEW f, NEW h, NEW d,
         \A x \in S : f[x] \in Int /\ h[x] \in Int /\ d[x] = f[x] - h[x]
  PROVE  Total(d, S) = Total(f, S) - Total(h, S)
<1> DEFINE D == {t \in SUBSET S : Total(d, t) = Total(f, t) - Total(h, t)}
<1>1. ASSUME NEW T \in SUBSET S, \A U \in SUBSET T : U # T => U \in D
      PROVE  T \in D
  <2>1. CASE T = {}
    BY <2>1, TotalEmpty
  <2>2. CASE T # {}
    <3> DEFINE p == Pick(T)
    <3>1. p \in T /\ IsFiniteSet(T) /\ IsFiniteSet(T \ {p})
      BY <2>2, PickIn, FS_Subset
    <3>2. T \ {p} \in D
      BY <1>1, <3>1
    <3>3. /\ Total(f, T) = f[p] + Total(f, T \ {p})
          /\ Total(h, T) = h[p] + Total(h, T \ {p})
          /\ Total(d, T) = d[p] + Total(d, T \ {p})
      BY <2>2, <3>1, TotalPick
    <3>4. Total(f, T \ {p}) \in Int /\ Total(h, T \ {p}) \in Int
      BY <3>1, TotalType
    <3> HIDE DEF p
    <3> QED BY <3>1, <3>2, <3>3, <3>4
  <2> QED BY <2>1, <2>2
<1> HIDE DEF D
<1>2. SUBSET S \subseteq D
  BY <1>1, SubsetInduction
<1> QED BY <1>2 DEF D

-----------------------------------------------------------------------------
\* The ids of a table.
IdSet(rows) == {rows[r].id : r \in DOMAIN rows}
\* No id stands twice.
Once(rows) == \A r, s \in DOMAIN rows : rows[r].id = rows[s].id => r = s

\* RowOfId finds the row of an id the table has, and kNoRow for any other.
LEMMA RowOfIdFound ==
  ASSUME NEW rows, NEW id
  PROVE  /\ id \in IdSet(rows) => /\ RowOfId(rows, id) \in DOMAIN rows
                                  /\ rows[RowOfId(rows, id)].id = id
         /\ id \notin IdSet(rows) => RowOfId(rows, id) = kNoRow
  BY DEF RowOfId, IdSet

\* kNoRow is the number of no row of a table.
LEMMA NoRowIsNone ==
  ASSUME NEW S, NEW rows \in Seq(S)
  PROVE  kNoRow \notin DOMAIN rows /\ DOMAIN rows = 1..Len(rows) /\ Len(rows) \in Nat
  BY DEF kNoRow

\* Removing a row by swap-with-last: the table is one shorter, every other row
\* is still there once, and only that id is gone.
LEMMA WithoutRows ==
  ASSUME NEW S, NEW rows \in Seq(S), Once(rows), NEW id \in IdSet(rows)
  PROVE  LET out == Without(rows, id)
             gap == RowOfId(rows, id)
         IN  /\ out \in Seq(S) /\ Len(out) = Len(rows) - 1
             /\ out = LastInto(rows, gap)
             /\ Once(out)
             /\ \A k \in DOMAIN out : \E j \in DOMAIN rows : j # gap /\ out[k] = rows[j]
             /\ \A j \in DOMAIN rows : j # gap => \E k \in DOMAIN out : out[k] = rows[j]
             /\ IdSet(out) = IdSet(rows) \ {id}
<1> DEFINE gap == RowOfId(rows, id)
           n == Len(rows)
           out == [i \in 1..(n - 1) |-> IF i = gap THEN rows[n] ELSE rows[i]]
<1>1. gap \in 1..n /\ rows[gap].id = id /\ n \in Nat /\ DOMAIN rows = 1..n /\ gap # kNoRow
  BY RowOfIdFound, NoRowIsNone
<1>2. Without(rows, id) = out
  BY <1>1 DEF Without, LastInto
<1>3. \A i \in 1..n : rows[i] \in S
  BY <1>1
<1> HIDE DEF gap, n
<1>4. out \in Seq(S) /\ Len(out) = n - 1 /\ DOMAIN out = 1..(n - 1)
  <2>1. out \in [1..(n - 1) -> S] /\ n - 1 \in Nat
    BY <1>1, <1>3
  <2> HIDE DEF out
  <2> QED BY <2>1
<1>5. \A k \in 1..(n - 1) : \E j \in 1..n : j # gap /\ out[k] = rows[j]
  BY <1>1
<1>6. \A j \in 1..n : j # gap => \E k \in 1..(n - 1) : out[k] = rows[j]
  <2> SUFFICES ASSUME NEW j \in 1..n, j # gap
               PROVE  \E k \in 1..(n - 1) : out[k] = rows[j]
    OBVIOUS
  <2>1. CASE j = n
    BY <1>1, <2>1
  <2>2. CASE j # n
    BY <1>1, <2>2
  <2> QED BY <2>1, <2>2
<1>7. Once(out)
  <2>1. \A r, s \in 1..n : rows[r].id = rows[s].id => r = s
    BY <1>1 DEF Once
  <2>2. \A k, l \in 1..(n - 1) : out[k].id = out[l].id => k = l
    BY <1>1, <2>1
  <2> QED BY <1>4, <2>2 DEF Once
<1>8. IdSet(out) = IdSet(rows) \ {id}
  <2>1. \A r \in 1..n : rows[r].id = id => r = gap
    BY <1>1 DEF Once
  <2> HIDE DEF out
  <2>2. IdSet(out) \subseteq IdSet(rows) \ {id}
    BY <1>1, <1>4, <1>5, <2>1 DEF IdSet
  <2>3. ASSUME NEW j \in 1..n, rows[j].id # id
        PROVE  rows[j].id \in IdSet(out)
    <3>1. j # gap
      BY <1>1, <2>3
    <3>2. PICK k \in 1..(n - 1) : out[k] = rows[j]
      BY <1>6, <3>1
    <3> QED BY <1>4, <3>2 DEF IdSet
  <2> QED BY <1>1, <2>2, <2>3 DEF IdSet
<1> HIDE DEF out
<1> QED BY <1>1, <1>2, <1>4, <1>5, <1>6, <1>7, <1>8 DEF gap, n, Without

\* The pantries by row, and what they hold together.
Pantries(fam) == [f \in DOMAIN fam |-> fam[f].pantry]
Held(fam) == SumFunction(Pantries(fam))

\* What a table of families holds is an integer, the sum over its rows.
LEMMA HeldIs ==
  ASSUME NEW fam \in Seq(FamilyRow)
  PROVE  /\ Len(fam) \in Nat /\ DOMAIN fam = 1..Len(fam) /\ IsFiniteSet(1..Len(fam))
         /\ \A f \in 1..Len(fam) : fam[f] \in FamilyRow /\ Pantries(fam)[f] = fam[f].pantry
         /\ \A f \in 1..Len(fam) : Pantries(fam)[f] \in Int
         /\ Held(fam) = Total(Pantries(fam), 1..Len(fam)) /\ Held(fam) \in Int
<1>1. Len(fam) \in Nat /\ DOMAIN fam = 1..Len(fam)
  BY NoRowIsNone
<1>2. IsFiniteSet(1..Len(fam))
  BY <1>1, FS_Interval
<1>3. \A f \in 1..Len(fam) : fam[f] \in FamilyRow
  BY <1>1
<1>4. \A f \in 1..Len(fam) : Pantries(fam)[f] = fam[f].pantry
  BY <1>1 DEF Pantries
<1>5. \A f \in 1..Len(fam) : Pantries(fam)[f] \in Int
  BY <1>3, <1>4 DEF FamilyRow
<1>6. DOMAIN Pantries(fam) = 1..Len(fam)
  BY <1>1 DEF Pantries
<1>7. Held(fam) = Total(Pantries(fam), 1..Len(fam))
  BY <1>6, SumIsTotal DEF Held
<1>8. Total(Pantries(fam), 1..Len(fam)) \in Int
  BY <1>2, <1>5, TotalType
<1> QED BY <1>1, <1>2, <1>3, <1>4, <1>5, <1>7, <1>8

\* Two pantry lists that differ in one place differ in their sum by that place.
LEMMA OnePlace ==
  ASSUME NEW S, IsFiniteSet(S), NEW at \in S, NEW p, NEW q,
         \A f \in S : p[f] \in Int /\ q[f] \in Int,
         \A f \in S \ {at} : p[f] = q[f]
  PROVE  Total(q, S) = Total(p, S) - p[at] + q[at]
<1> DEFINE few == S \ {at}
<1>1. IsFiniteSet(few)
  BY FS_RemoveElement
<1>2. Total(p, few) = Total(q, few) /\ Total(p, few) \in Int
  <2> HIDE DEF few
  <2>1. few \subseteq S
    BY DEF few
  <2>2. \A f \in few : p[f] = q[f]
    BY DEF few
  <2> QED BY <1>1, <2>1, <2>2, TotalSame, TotalType
<1>3. Total(p, S) = p[at] + Total(p, few) /\ Total(q, S) = q[at] + Total(q, few)
  BY TotalWith
<1> HIDE DEF few
<1> QED BY <1>2, <1>3

\* The sum over a longer table is the sum over the shorter one and the last.
LEMMA LastPlace ==
  ASSUME NEW n \in Nat \ {0}, NEW p, \A f \in 1..n : p[f] \in Int
  PROVE  Total(p, 1..n) = p[n] + Total(p, 1..(n - 1)) /\ Total(p, 1..(n - 1)) \in Int
<1>1. n \in 1..n /\ (1..n) \ {n} = 1..(n - 1) /\ 1..(n - 1) \subseteq 1..n
  OBVIOUS
<1>2. IsFiniteSet(1..n) /\ IsFiniteSet(1..(n - 1))
  BY FS_Interval
<1>3. Total(p, 1..n) = p[n] + Total(p, 1..(n - 1))
  BY <1>1, <1>2, TotalWith
<1>4. Total(p, 1..(n - 1)) \in Int
  BY <1>1, <1>2, TotalType
<1> QED BY <1>3, <1>4

\* A family added brings its pantry.
LEMMA HeldAppended ==
  ASSUME NEW fam \in Seq(FamilyRow), NEW row \in FamilyRow
  PROVE  Held(Append(fam, row)) = Held(fam) + row.pantry
<1> DEFINE n == Len(fam)
           out == Append(fam, row)
<1>1. n \in Nat /\ Held(fam) = Total(Pantries(fam), 1..n)
  BY HeldIs
<1>2. /\ out \in Seq(FamilyRow) /\ Len(out) = n + 1
      /\ out[n + 1] = row /\ \A f \in 1..n : out[f] = fam[f]
  BY <1>1, AppendProperties
<1> HIDE DEF out
<1>3. /\ \A f \in 1..(n + 1) : Pantries(out)[f] \in Int /\ Pantries(out)[f] = out[f].pantry
      /\ Held(out) = Total(Pantries(out), 1..(n + 1))
  BY <1>2, HeldIs
<1>4. \A f \in 1..n : Pantries(fam)[f] = Pantries(out)[f] /\ Pantries(fam)[f] \in Int
  BY <1>1, <1>2, <1>3, HeldIs
<1>5. Pantries(out)[n + 1] = row.pantry /\ row.pantry \in Int
  BY <1>1, <1>2, <1>3 DEF FamilyRow
<1>6. Total(Pantries(fam), 1..n) = Total(Pantries(out), 1..n)
  <2> DEFINE S == 1..n
             p == Pantries(fam)
             q == Pantries(out)
  <2>1. IsFiniteSet(S) /\ \A f \in S : p[f] = q[f]
    BY <1>1, <1>4, FS_Interval
  <2> HIDE DEF S, p, q
  <2>2. Total(p, S) = Total(q, S)
    BY <2>1, TotalSame
  <2> QED BY <2>2 DEF S, p, q
<1>7. /\ Total(Pantries(out), 1..(n + 1)) = Pantries(out)[n + 1] + Total(Pantries(out), 1..n)
      /\ Total(Pantries(out), 1..n) \in Int
  <2>1. n + 1 \in Nat \ {0} /\ (n + 1) - 1 = n
    BY <1>1
  <2> HIDE DEF n
  <2> QED BY <1>3, <2>1, LastPlace
<1> QED BY <1>1, <1>3, <1>5, <1>6, <1>7 DEF out

\* One pantry replaced: the table holds more by the difference.
LEMMA HeldChanged ==
  ASSUME NEW fam \in Seq(FamilyRow), NEW row \in DOMAIN fam, NEW x \in Int
  PROVE  LET out == [fam EXCEPT ![row].pantry = x]
         IN  /\ out \in Seq(FamilyRow) /\ Len(out) = Len(fam) /\ DOMAIN out = DOMAIN fam
             /\ \A f \in DOMAIN fam : out[f].id = fam[f].id
             /\ out[row].pantry = x
             /\ \A f \in DOMAIN fam : f # row => out[f] = fam[f]
             /\ Held(out) = Held(fam) - fam[row].pantry + x
<1> DEFINE n == Len(fam)
           changed == [fam[row] EXCEPT !.pantry = x]
           out == [fam EXCEPT ![row] = changed]
<1>1. /\ n \in Nat /\ row \in 1..n /\ DOMAIN fam = 1..n /\ IsFiniteSet(1..n)
      /\ \A f \in 1..n : fam[f] \in FamilyRow /\ Pantries(fam)[f] = fam[f].pantry
      /\ \A f \in 1..n : Pantries(fam)[f] \in Int
      /\ Held(fam) = Total(Pantries(fam), 1..n)
  BY HeldIs
<1>2. changed \in FamilyRow /\ changed.pantry = x /\ changed.id = fam[row].id
  BY <1>1 DEF FamilyRow
<1> HIDE DEF changed
<1>3. out \in Seq(FamilyRow) /\ Len(out) = n /\ DOMAIN out = 1..n
  BY <1>1, <1>2, ExceptSeq
<1>4. out[row] = changed /\ \A f \in 1..n : f # row => out[f] = fam[f]
  BY <1>1
<1> HIDE DEF out
<1>5. /\ \A f \in 1..n : Pantries(out)[f] \in Int /\ Pantries(out)[f] = out[f].pantry
      /\ Held(out) = Total(Pantries(out), 1..n)
  BY <1>3, HeldIs
<1>6. \A f \in (1..n) \ {row} : Pantries(fam)[f] = Pantries(out)[f]
  BY <1>1, <1>4, <1>5
<1>7. Total(Pantries(out), 1..n)
        = Total(Pantries(fam), 1..n) - Pantries(fam)[row] + Pantries(out)[row]
  <2> DEFINE S == 1..n
             p == Pantries(fam)
             q == Pantries(out)
  <2>1. /\ IsFiniteSet(S) /\ row \in S /\ \A f \in S : p[f] \in Int /\ q[f] \in Int
        /\ \A f \in S \ {row} : p[f] = q[f]
    BY <1>1, <1>5, <1>6
  <2> HIDE DEF S, p, q
  <2>2. Total(q, S) = Total(p, S) - p[row] + q[row]
    BY <2>1, OnePlace
  <2> QED BY <2>2 DEF S, p, q
<1>8. Held(out) = Held(fam) - fam[row].pantry + x
  BY <1>1, <1>2, <1>4, <1>5, <1>7
<1>9. [fam EXCEPT ![row].pantry = x] = out
  BY DEF changed, out
<1>10. \A f \in 1..n : out[f].id = fam[f].id
  BY <1>2, <1>4
<1> QED BY <1>1, <1>2, <1>3, <1>4, <1>8, <1>9, <1>10

\* A family removed takes its pantry and no other.
LEMMA HeldWithout ==
  ASSUME NEW fam \in Seq(FamilyRow), NEW gap \in DOMAIN fam
  PROVE  Held(LastInto(fam, gap)) = Held(fam) - fam[gap].pantry
<1> DEFINE n == Len(fam)
           out == LastInto(fam, gap)
           p == Pantries(fam)
           q == Pantries(out)
<1>1. /\ n \in Nat \ {0} /\ gap \in 1..n /\ DOMAIN fam = 1..n
      /\ \A f \in 1..n : fam[f] \in FamilyRow /\ p[f] = fam[f].pantry
      /\ \A f \in 1..n : p[f] \in Int
      /\ Held(fam) = Total(p, 1..n)
  BY HeldIs
<1>2. out \in [1..(n - 1) -> FamilyRow] /\ n - 1 \in Nat
  BY <1>1 DEF LastInto
<1>3. \A f \in 1..(n - 1) : out[f] = IF f = gap THEN fam[n] ELSE fam[f]
  BY <1>1 DEF LastInto
<1> HIDE DEF out
<1>4. out \in Seq(FamilyRow) /\ Len(out) = n - 1
  BY <1>2
<1>5. /\ \A f \in 1..(n - 1) : q[f] \in Int /\ q[f] = out[f].pantry
      /\ Held(out) = Total(q, 1..(n - 1)) /\ IsFiniteSet(1..(n - 1))
  BY <1>4, HeldIs
<1>6. Total(p, 1..n) = p[n] + Total(p, 1..(n - 1)) /\ Total(p, 1..(n - 1)) \in Int
  <2> HIDE DEF p, n
  <2> QED BY <1>1, LastPlace
<1>7. \A f \in 1..(n - 1) : p[f] \in Int /\ (f # gap => q[f] = p[f])
  BY <1>1, <1>3, <1>5, SMTT(30)
<1> HIDE DEF p, q
<1>8. CASE gap = n
  <2>1. \A f \in 1..(n - 1) : q[f] = p[f]
    <3>1. n \in Nat
      BY <1>1
    <3>2. \A f \in 1..(n - 1) : f # gap
      <4> HIDE DEF n
      <4> QED BY <1>8, <3>1
    <3> QED BY <1>7, <3>2
  <2>2. Total(q, 1..(n - 1)) = Total(p, 1..(n - 1))
    BY <1>5, <2>1, TotalSame
  <2> QED BY <1>1, <1>5, <1>6, <1>8, <2>2 DEF out
<1>9. CASE gap # n
  <2>1. gap \in 1..(n - 1) /\ q[gap] = p[n] /\ p[n] \in Int /\ p[gap] \in Int
    BY <1>1, <1>3, <1>5, <1>9
  <2>2. Total(q, 1..(n - 1)) = Total(p, 1..(n - 1)) - p[gap] + q[gap]
    <3> DEFINE S == 1..(n - 1)
    <3>1. IsFiniteSet(S) /\ gap \in S /\ \A f \in S : p[f] \in Int /\ q[f] \in Int
      BY <1>5, <1>7, <2>1
    <3>2. \A f \in S \ {gap} : p[f] = q[f]
      BY <1>7
    <3> HIDE DEF S
    <3>3. Total(q, S) = Total(p, S) - p[gap] + q[gap]
      BY <3>1, <3>2, OnePlace
    <3> QED BY <3>3 DEF S
  <2> QED BY <1>1, <1>5, <1>6, <2>1, <2>2 DEF out
<1> QED BY <1>8, <1>9

-----------------------------------------------------------------------------
\* Replacing the three tables of a world leaves a world, and the rest of it.
LEMMA NewTables ==
  ASSUME NEW b, NEW o, NEW w \in WorldWith(b, o),
         NEW fam \in Seq(FamilyRow), NEW res \in Seq(ResidentRow), NEW fld \in Seq(FieldRow)
  PROVE  LET v == [w EXCEPT !.families = fam, !.residents = res, !.fields = fld]
         IN  /\ v \in WorldWith(b, o)
             /\ v.families = fam /\ v.residents = res /\ v.fields = fld
             /\ v.tick = w.tick /\ v.weather = w.weather /\ v.ledger = w.ledger
             /\ v.next_resident = w.next_resident /\ v.next_family = w.next_family
             /\ v.orders = w.orders /\ v.step_events = w.step_events
  BY DEF WorldWith

\* The tables replaced twice are the tables replaced by the second ones.
LEMMA NewTablesTwice ==
  ASSUME NEW b, NEW o, NEW w \in WorldWith(b, o),
         NEW fam \in Seq(FamilyRow), NEW res \in Seq(ResidentRow), NEW fld \in Seq(FieldRow),
         NEW fam2, NEW res2, NEW fld2
  PROVE  [[w EXCEPT !.families = fam, !.residents = res, !.fields = fld]
            EXCEPT !.families = fam2, !.residents = res2, !.fields = fld2]
         = [w EXCEPT !.families = fam2, !.residents = res2, !.fields = fld2]
  BY DEF WorldWith

\* A world with its own tables put back is that world.
LEMMA SameTables ==
  ASSUME NEW b, NEW o, NEW w \in WorldWith(b, o)
  PROVE  [w EXCEPT !.families = w.families, !.residents = w.residents, !.fields = w.fields] = w
  BY DEF WorldWith

\* What each field of a world is.
LEMMA WorldParts ==
  ASSUME NEW w, IsWorld(w)
  PROVE  /\ w \in WorldWith(w.orders, w.step_events)
         /\ w.families \in Seq(FamilyRow) /\ w.residents \in Seq(ResidentRow)
         /\ w.fields \in Seq(FieldRow)
         /\ w.tick \in Nat /\ w.weather \in Weather
         /\ w.next_resident \in Nat /\ w.next_family \in Nat
         /\ w.ledger \in [harvest : Int, eaten : Int, lost : Int]
         /\ w.ledger.harvest \in Int /\ w.ledger.eaten \in Int /\ w.ledger.lost \in Int
  BY DEF IsWorld, WorldWith

\* A world with some book and outbox is a world, those being its own.
LEMMA WorldIs ==
  ASSUME NEW b, NEW o, NEW w \in WorldWith(b, o)
  PROVE  IsWorld(w) /\ w.orders = b /\ w.step_events = o
  BY DEF IsWorld, WorldWith

\* The tables of a world, row by row.
LEMMA WorldRows ==
  ASSUME NEW w, IsWorld(w)
  PROVE  /\ Len(w.residents) \in Nat /\ DOMAIN w.residents = 1..Len(w.residents)
         /\ \A r \in DOMAIN w.residents : w.residents[r] \in ResidentRow
         /\ Len(w.families) \in Nat /\ DOMAIN w.families = 1..Len(w.families)
         /\ \A f \in DOMAIN w.families : w.families[f] \in FamilyRow
         /\ Len(w.fields) \in Nat /\ DOMAIN w.fields = 1..Len(w.fields)
         /\ \A f \in DOMAIN w.fields : w.fields[f] \in FieldRow
<1>1. /\ w.families \in Seq(FamilyRow) /\ w.residents \in Seq(ResidentRow)
      /\ w.fields \in Seq(FieldRow)
  BY WorldParts
<1>2. ASSUME NEW S, NEW rows \in Seq(S)
      PROVE  /\ Len(rows) \in Nat /\ DOMAIN rows = 1..Len(rows)
             /\ \A r \in DOMAIN rows : rows[r] \in S
  OBVIOUS
<1> QED BY <1>1, <1>2

\* The same for what the sequential slots replace.
LEMMA NewPeople ==
  ASSUME NEW b, NEW o, NEW w \in WorldWith(b, o), NEW x \in Seq(ResidentRow), NEW n \in Nat
  PROVE  LET v == [w EXCEPT !.residents = x, !.next_resident = n]
         IN  /\ v \in WorldWith(b, o) /\ v.residents = x /\ v.next_resident = n
             /\ v.families = w.families /\ v.next_family = w.next_family
             /\ v.ledger = w.ledger /\ v.tick = w.tick
  BY DEF WorldWith

\* The residents replaced: a world, everything else as it was.
LEMMA NewRows ==
  ASSUME NEW b, NEW o, NEW w \in WorldWith(b, o), NEW x \in Seq(ResidentRow)
  PROVE  LET v == [w EXCEPT !.residents = x]
         IN  /\ v \in WorldWith(b, o) /\ v.residents = x /\ v.next_resident = w.next_resident
             /\ v.families = w.families /\ v.next_family = w.next_family
             /\ v.ledger = w.ledger /\ v.tick = w.tick
  BY DEF WorldWith

\* The families replaced: a world, everything else as it was.
LEMMA NewFamilies ==
  ASSUME NEW b, NEW o, NEW w \in WorldWith(b, o), NEW x \in Seq(FamilyRow)
  PROVE  LET v == [w EXCEPT !.families = x]
         IN  /\ v \in WorldWith(b, o) /\ v.families = x /\ v.next_family = w.next_family
             /\ v.residents = w.residents /\ v.next_resident = w.next_resident
             /\ v.ledger = w.ledger /\ v.tick = w.tick
  BY DEF WorldWith

\* The families and the next family id replaced.
LEMMA NewYards ==
  ASSUME NEW b, NEW o, NEW w \in WorldWith(b, o), NEW x \in Seq(FamilyRow), NEW n \in Nat
  PROVE  LET v == [w EXCEPT !.families = x, !.next_family = n]
         IN  /\ v \in WorldWith(b, o) /\ v.families = x /\ v.next_family = n
             /\ v.residents = w.residents /\ v.next_resident = w.next_resident
             /\ v.ledger = w.ledger /\ v.tick = w.tick
  BY DEF WorldWith

\* The losses of the ledger replaced.
LEMMA NewLost ==
  ASSUME NEW b, NEW o, NEW w \in WorldWith(b, o), NEW x \in Int
  PROVE  LET v == [w EXCEPT !.ledger.lost = x]
         IN  /\ v \in WorldWith(b, o) /\ v.families = w.families /\ v.next_family = w.next_family
             /\ v.residents = w.residents /\ v.next_resident = w.next_resident /\ v.tick = w.tick
             /\ v.ledger.harvest = w.ledger.harvest /\ v.ledger.eaten = w.ledger.eaten
             /\ v.ledger.lost = x
  BY DEF WorldWith

\* The ledger, the order book and the outbox replaced, as the fold and the
\* sweep do.
LEMMA NewBook ==
  ASSUME NEW w, IsWorld(w), NEW b, NEW o, NEW l \in [harvest : Int, eaten : Int, lost : Int]
  PROVE  LET v == [w EXCEPT !.ledger = l, !.orders = b, !.step_events = o]
         IN  /\ v \in WorldWith(b, o) /\ v.families = w.families /\ v.next_family = w.next_family
             /\ v.residents = w.residents /\ v.next_resident = w.next_resident /\ v.tick = w.tick
             /\ v.ledger = l
  BY DEF IsWorld, WorldWith

\* The book and the outbox replaced, as the start of a step does.
LEMMA NewOutbox ==
  ASSUME NEW w, IsWorld(w), NEW b, NEW o
  PROVE  LET v == [w EXCEPT !.step_events = o, !.orders = b]
         IN  /\ v \in WorldWith(b, o) /\ v.families = w.families /\ v.next_family = w.next_family
             /\ v.residents = w.residents /\ v.next_resident = w.next_resident /\ v.tick = w.tick
             /\ v.ledger = w.ledger
  BY DEF IsWorld, WorldWith

\* The hour and the weather replaced, as the first slot does.
LEMMA NewHour ==
  ASSUME NEW b, NEW o, NEW w \in WorldWith(b, o), NEW t \in Nat, NEW s \in Weather
  PROVE  LET v == [w EXCEPT !.tick = t, !.weather = s]
         IN  /\ v \in WorldWith(b, o) /\ v.families = w.families /\ v.next_family = w.next_family
             /\ v.residents = w.residents /\ v.next_resident = w.next_resident /\ v.tick = t
             /\ v.ledger = w.ledger
  BY DEF WorldWith

\* The rows of the order book replaced, as the consumers do.
LEMMA NewOrderRows ==
  ASSUME NEW w, IsWorld(w), NEW rows
  PROVE  LET v == [w EXCEPT !.orders.rows = rows]
         IN  /\ IsWorld(v) /\ v.families = w.families /\ v.next_family = w.next_family
             /\ v.residents = w.residents /\ v.next_resident = w.next_resident /\ v.tick = w.tick
             /\ v.ledger = w.ledger
<1> DEFINE b == [w.orders EXCEPT !.rows = rows]
           v == [w EXCEPT !.orders = b]
<1>1. [w EXCEPT !.orders.rows = rows] = v
  BY DEF IsWorld, WorldWith
<1> HIDE DEF b
<1>2. /\ v \in WorldWith(b, w.step_events)
      /\ v.families = w.families /\ v.next_family = w.next_family
      /\ v.residents = w.residents /\ v.next_resident = w.next_resident /\ v.tick = w.tick
      /\ v.ledger = w.ledger
  BY DEF IsWorld, WorldWith
<1>3. IsWorld(v)
  <2> HIDE DEF v
  <2> QED BY <1>2, WorldIs
<1> QED BY <1>1, <1>2, <1>3

-----------------------------------------------------------------------------
\* What an item writes: its family's or field's row and its members' rows,
\* nobody's name and nobody's household.
Owns(w, f, part) ==
  /\ \A r \in DOMAIN part.families :
       r = f /\ (r \in DOMAIN w.families =>
                   part.families[r] \in FamilyRow /\ part.families[r].id = w.families[r].id)
  /\ \A r \in DOMAIN part.residents :
       r \in Members(w, f) /\ part.residents[r] \in ResidentRow
         /\ part.residents[r].id = w.residents[r].id
         /\ part.residents[r].family = w.residents[r].family
  /\ \A r \in DOMAIN part.fields :
       r = f /\ (r \in DOMAIN w.fields => part.fields[r] \in FieldRow)

\* What a family needs is a natural number.
LEMMA NeedIsNat ==
  ASSUME NEW prior, NEW w, IsWorld(w), NEW f
  PROVE  NeedKcal(prior, w, f) \in Nat
<1> DEFINE S == Members(w, f)
           mouths == [r \in S |->
             IF r \in DOMAIN prior.residents /\ prior.residents[r].heavy THEN 2 ELSE 1]
<1>1. IsFiniteSet(S)
  <2>1. IsFiniteSet(1..Len(w.residents)) /\ DOMAIN w.residents = 1..Len(w.residents)
    BY WorldRows, FS_Interval
  <2> QED BY <2>1, FS_Subset DEF Members
<1>2. \A r \in S : mouths[r] \in Nat
  OBVIOUS
<1>3. NeedKcal(prior, w, f) = Total(mouths, S)
  BY SumIsTotal DEF NeedKcal
<1> HIDE DEF S, mouths
<1> QED BY <1>1, <1>2, <1>3, TotalNat

\* A family's mood is an integer: the mean is taken of members there are.
LEMMA MoodIsInt ==
  ASSUME NEW w, IsWorld(w), NEW f \in DOMAIN w.families
  PROVE  Mood(w, f) \in Int
<1> DEFINE S == Members(w, f)
           fed == [r \in S |-> w.residents[r].satiety]
<1>1. /\ IsFiniteSet(S) /\ \A r \in S : fed[r] \in Int
      /\ w.families[f].mood \in Int
  <2>1. /\ IsFiniteSet(1..Len(w.residents)) /\ DOMAIN w.residents = 1..Len(w.residents)
        /\ \A r \in DOMAIN w.residents : w.residents[r] \in ResidentRow
    <3>1. /\ Len(w.residents) \in Nat /\ DOMAIN w.residents = 1..Len(w.residents)
          /\ \A r \in DOMAIN w.residents : w.residents[r] \in ResidentRow
      BY WorldRows
    <3> QED BY <3>1, FS_Interval
  <2>2. IsFiniteSet(S)
    BY <2>1, FS_Subset DEF Members
  <2>3. w.families[f] \in FamilyRow
    BY WorldParts
  <2> QED BY <2>1, <2>2, <2>3 DEF Members, ResidentRow, FamilyRow
<1>2. SumFunction(fed) = Total(fed, S)
  BY SumIsTotal
<1>3. Total(fed, S) \in Int /\ Cardinality(S) \in Nat /\ (S # {} => Cardinality(S) # 0)
  <2> HIDE DEF S, fed
  <2> QED BY <1>1, TotalType, FS_CardinalityType, FS_EmptySet
<1>4. Mood(w, f) = IF S = {} THEN w.families[f].mood ELSE SumFunction(fed) \div Cardinality(S)
  BY DEF Mood
<1> HIDE DEF S, fed
<1>5. CASE S = {}
  BY <1>1, <1>4, <1>5
<1>6. CASE S # {}
  BY <1>2, <1>3, <1>4, <1>6
<1> QED BY <1>5, <1>6

\* The satiety aimed at is an integer: nothing is divided by a zero need.
LEMMA TargetIsInt ==
  ASSUME NEW eaten \in Int, NEW need \in Nat
  PROVE  SatietyTarget(eaten, need) \in Int
<1>1. kMetricMax * eaten \in Int
  BY ScaleAssumption
<1> QED BY <1>1, ScaleAssumption DEF SatietyTarget

\* A metric moved toward an integer is an integer.
LEMMA TowardIsInt ==
  ASSUME NEW value \in Int, NEW target \in Int
  PROVE  Toward(value, target) \in Int
  BY DEF Toward

\* A meal writes its family's row and its members' rows.
LEMMA MealOwns ==
  ASSUME NEW prior, NEW w, IsWorld(w), NEW f \in DOMAIN w.families
  PROVE  Owns(w, f, FamilyMeal(prior, w, f))
<1> DEFINE need == NeedKcal(prior, w, f)
           eaten == EatenKcal(w, f, need)
           aim == SatietyTarget(eaten, need)
<1>1. need \in Nat /\ w.families[f] \in FamilyRow
  BY NeedIsNat, WorldParts
<1>2. eaten \in Int
  <2> HIDE DEF need
  <2> QED BY <1>1 DEF EatenKcal, FamilyRow
<1> HIDE DEF need, eaten
<1>3. aim \in Int
  BY <1>1, <1>2, TargetIsInt
<1>4. CASE ~MealHour(w)
  BY <1>4 DEF FamilyMeal, NothingWritten, NoRows, Owns
<1>5. CASE MealHour(w)
  <2> DEFINE part == [families  |-> [g \in {f} |-> [w.families[f] EXCEPT !.pantry = @ - eaten]],
                      residents |-> [r \in Members(w, f) |->
                                       [w.residents[r] EXCEPT !.satiety = Toward(@, aim)]],
                      fields    |-> NoRows]
  <2>1. FamilyMeal(prior, w, f) = part
    BY <1>5 DEF FamilyMeal, need, eaten
  <2> HIDE DEF aim
  <2>2. /\ [w.families[f] EXCEPT !.pantry = @ - eaten] \in FamilyRow
        /\ [w.families[f] EXCEPT !.pantry = @ - eaten].id = w.families[f].id
    BY <1>1, <1>2 DEF FamilyRow
  <2>3. ASSUME NEW r \in Members(w, f)
        PROVE  /\ [w.residents[r] EXCEPT !.satiety = Toward(@, aim)] \in ResidentRow
               /\ [w.residents[r] EXCEPT !.satiety = Toward(@, aim)].id = w.residents[r].id
               /\ [w.residents[r] EXCEPT !.satiety = Toward(@, aim)].family = w.residents[r].family
    <3>1. w.residents[r] \in ResidentRow
      BY WorldParts DEF Members
    <3>2. Toward(w.residents[r].satiety, aim) \in Int
      BY <1>3, <3>1, TowardIsInt DEF ResidentRow
    <3> QED BY <3>1, <3>2 DEF ResidentRow
  <2>4. Owns(w, f, part)
    BY <2>2, <2>3 DEF Owns, NoRows
  <2> QED BY <2>1, <2>4
<1> QED BY <1>4, <1>5

\* A family's metrics write its row and its members' rows.
LEMMA MetricsOwn ==
  ASSUME NEW w, IsWorld(w), NEW f \in DOMAIN w.families
  PROVE  Owns(w, f, FamilyMetrics(w, f))
<1> DEFINE store == w.families[f].pantry + PlotYield(w, f)
           joy == Mood(w, f)
<1>1. joy \in Int /\ store \in Int /\ w.families[f] \in FamilyRow
  BY MoodIsInt, WorldRows DEF PlotYield, FamilyRow
<1> DEFINE aged == [r \in Members(w, f) |->
                      [w.residents[r] EXCEPT !.memory = Remembered(w, r)]]
           row == [w.families[f] EXCEPT !.pantry = store, !.mood = joy]
           part == [families |-> [g \in {f} |-> row], residents |-> aged, fields |-> NoRows]
<1>2. FamilyMetrics(w, f) = part
  BY DEF FamilyMetrics
<1> HIDE DEF store, joy
<1>3. row \in FamilyRow /\ row.id = w.families[f].id
  BY <1>1 DEF FamilyRow
<1>4. ASSUME NEW r \in Members(w, f)
      PROVE  /\ [w.residents[r] EXCEPT !.memory = Remembered(w, r)] \in ResidentRow
             /\ [w.residents[r] EXCEPT !.memory = Remembered(w, r)].id = w.residents[r].id
             /\ [w.residents[r] EXCEPT !.memory = Remembered(w, r)].family = w.residents[r].family
  <2>1. w.residents[r] \in ResidentRow
    BY WorldParts DEF Members
  <2>2. Remembered(w, r) \in Int
    BY <2>1 DEF ResidentRow, Remembered
  <2> QED BY <2>1, <2>2 DEF ResidentRow
<1>5. \A r \in DOMAIN aged : r \in Members(w, f) /\ aged[r] \in ResidentRow
                              /\ aged[r].id = w.residents[r].id
                              /\ aged[r].family = w.residents[r].family
  BY <1>4
<1> HIDE DEF aged, row
<1>6. Owns(w, f, part)
  BY <1>3, <1>5 DEF Owns, NoRows
<1> QED BY <1>2, <1>6

\* A field's growth writes its row.
LEMMA GrowthOwns ==
  ASSUME NEW w, IsWorld(w), NEW f \in DOMAIN w.fields
  PROVE  Owns(w, f, FieldGrowth(w, f))
<1>1. CASE ~NewDay(w)
  BY <1>1 DEF FieldGrowth, NothingWritten, NoRows, Owns
<1>2. CASE NewDay(w)
  <2>1. w.fields[f] \in FieldRow
    BY WorldParts
  <2> DEFINE run == IF w.weather # "hot" THEN 0
                    ELSE IF w.fields[f].drought_run < kRunCap THEN w.fields[f].drought_run + 1
                    ELSE kRunCap
  <2>2. run \in Nat
    BY <2>1, ScaleAssumption DEF FieldRow
  <2>3. FieldGrowth(w, f) = [families |-> NoRows, residents |-> NoRows,
                             fields |-> [g \in {f} |-> [w.fields[f] EXCEPT !.drought_run = run]]]
    BY <1>2 DEF FieldGrowth
  <2> HIDE DEF run
  <2>4. [w.fields[f] EXCEPT !.drought_run = run] \in FieldRow
    BY <2>1, <2>2 DEF FieldRow
  <2> QED BY <2>3, <2>4 DEF Owns, NoRows
<1> QED BY <1>1, <1>2

\* Whatever the phase, an item writes its own rows only.
LEMMA ItemOwns ==
  ASSUME NEW duty \in Parallel, NEW prior, NEW w, IsWorld(w), NEW f \in ItemsOf(duty, w)
  PROVE  Owns(w, f, ItemOf(duty, prior, w, f))
<1>1. DOMAIN w.families = 1..Len(w.families) /\ DOMAIN w.fields = 1..Len(w.fields)
  BY WorldParts, NoRowIsNone
<1>2. CASE duty = kNeeds
  <2>1. f \in DOMAIN w.families
    BY <1>1, <1>2 DEF ItemsOf, ItemCount, kNeeds, kProduction
  <2>2. ItemOf(duty, prior, w, f) = FamilyMeal(prior, w, f)
    BY <1>2 DEF ItemOf, kNeeds, kProduction, kMetrics
  <2> QED BY <2>1, <2>2, MealOwns
<1>3. CASE duty = kProduction
  <2>1. f \in DOMAIN w.fields
    BY <1>1, <1>3 DEF ItemsOf, ItemCount
  <2>2. ItemOf(duty, prior, w, f) = FieldGrowth(w, f)
    BY <1>3 DEF ItemOf, kNeeds, kProduction, kMetrics
  <2> QED BY <2>1, <2>2, GrowthOwns
<1>4. CASE duty = kMetrics
  <2>1. f \in DOMAIN w.families
    BY <1>1, <1>4 DEF ItemsOf, ItemCount, kMetrics, kProduction
  <2>2. ItemOf(duty, prior, w, f) = FamilyMetrics(w, f)
    BY <1>4 DEF ItemOf, kNeeds, kProduction, kMetrics
  <2> QED BY <2>1, <2>2, MetricsOwn
<1> QED BY <1>2, <1>3, <1>4 DEF Parallel

-----------------------------------------------------------------------------
\* A merged table has the rows it had, each as it was or as some part has it,
\* and is of the rows' type when the parts are.
LEMMA MergedTable ==
  ASSUME NEW S, NEW rows \in Seq(S), NEW parts,
         \A i \in DOMAIN parts : \A r \in DOMAIN parts[i] : r \in DOMAIN rows => parts[i][r] \in S
  PROVE  LET out == Merged(rows, parts)
         IN  /\ out \in Seq(S) /\ Len(out) = Len(rows) /\ DOMAIN out = DOMAIN rows
             /\ \A r \in DOMAIN rows :
                  \/ out[r] = rows[r]
                  \/ \E i \in DOMAIN parts : r \in DOMAIN parts[i] /\ out[r] = parts[i][r]
             /\ \A r \in DOMAIN rows :
                  (\A i \in DOMAIN parts : r \notin DOMAIN parts[i]) => out[r] = rows[r]
<1> DEFINE out == Merged(rows, parts)
<1>1. DOMAIN rows = 1..Len(rows) /\ Len(rows) \in Nat /\ \A r \in DOMAIN rows : rows[r] \in S
  OBVIOUS
<1>2. ASSUME NEW r \in DOMAIN rows
      PROVE  /\ out[r] = rows[r] \/ \E i \in DOMAIN parts : r \in DOMAIN parts[i] /\ out[r] = parts[i][r]
             /\ (\A i \in DOMAIN parts : r \notin DOMAIN parts[i]) => out[r] = rows[r]
  BY DEF Merged
<1>3. DOMAIN out = DOMAIN rows /\ out = [r \in DOMAIN rows |-> out[r]]
  BY DEF Merged
<1>4. \A r \in DOMAIN rows : out[r] \in S
  BY <1>1, <1>2
<1> HIDE DEF out
<1>5. out \in [1..Len(rows) -> S]
  BY <1>1, <1>3, <1>4
<1>6. out \in Seq(S) /\ Len(out) = Len(rows)
  BY <1>1, <1>5
<1> QED BY <1>2, <1>3, <1>6 DEF out

\* With nothing written a table merges to itself.
LEMMA MergedNone ==
  ASSUME NEW S, NEW rows \in Seq(S), NEW parts, DOMAIN parts = {}
  PROVE  Merged(rows, parts) = rows
<1>1. rows = [r \in DOMAIN rows |-> rows[r]]
  OBVIOUS
<1>2. Merged(rows, parts) = [r \in DOMAIN rows |-> rows[r]]
  BY DEF Merged
<1> QED BY <1>1, <1>2

\* Writing one more item's rows over what the items before it wrote.
LEMMA OverMerged ==
  ASSUME NEW rows, NEW old, NEW parts, NEW i, i \notin DOMAIN old,
         DOMAIN parts = DOMAIN old \cup {i}, \A j \in DOMAIN old : old[j] = parts[j],
         \A j, k \in DOMAIN parts : j # k => DOMAIN parts[j] \cap DOMAIN parts[k] = {}
  PROVE  Over(Merged(rows, old), parts[i]) = Merged(rows, parts)
<1> DEFINE lhs == Over(Merged(rows, old), parts[i])
           rhs == Merged(rows, parts)
<1>1. DOMAIN lhs = DOMAIN rows /\ DOMAIN rhs = DOMAIN rows
  BY DEF Over, Merged
<1>2. ASSUME NEW r \in DOMAIN rows
      PROVE  lhs[r] = rhs[r]
  <2>1. CASE r \in DOMAIN parts[i]
    <3>1. lhs[r] = parts[i][r]
      BY <2>1 DEF Over, Merged
    <3>2. (CHOOSE j \in DOMAIN parts : r \in DOMAIN parts[j]) = i
      BY <2>1
    <3>3. rhs[r] = parts[i][r]
      BY <2>1, <3>2 DEF Merged
    <3> QED BY <3>1, <3>3
  <2>2. CASE r \notin DOMAIN parts[i]
    <3>1. lhs[r] = Merged(rows, old)[r]
      BY <2>2 DEF Over, Merged
    <3>2. CASE \A j \in DOMAIN old : r \notin DOMAIN parts[j]
      BY <2>2, <3>1, <3>2 DEF Merged
    <3>3. CASE \E j \in DOMAIN old : r \in DOMAIN parts[j]
      <4>1. PICK j \in DOMAIN old : r \in DOMAIN parts[j]
        BY <3>3
      <4>2. (CHOOSE k \in DOMAIN parts : r \in DOMAIN parts[k]) = j
        BY <4>1
      <4>3. (CHOOSE k \in DOMAIN old : r \in DOMAIN old[k]) = j
        BY <4>1
      <4>4. rhs[r] = parts[j][r]
        BY <4>1, <4>2 DEF Merged
      <4>5. Merged(rows, old)[r] = parts[j][r]
        BY <4>1, <4>3 DEF Merged
      <4> QED BY <3>1, <4>4, <4>5
    <3> QED BY <3>2, <3>3
  <2> QED BY <2>1, <2>2
<1>3. lhs = [r \in DOMAIN rows |-> lhs[r]] /\ rhs = [r \in DOMAIN rows |-> rhs[r]]
  BY DEF Over, Merged
<1> HIDE DEF lhs, rhs
<1>4. lhs = rhs
  BY <1>2, <1>3
<1> QED BY <1>4 DEF lhs, rhs

\* No row is two items'.
LEMMA ItemsApart ==
  ASSUME NEW duty \in Parallel, NEW prior, NEW w, IsWorld(w), Once(w.families),
         NEW i \in ItemsOf(duty, w), NEW j \in ItemsOf(duty, w), i # j
  PROVE  LET p == ItemOf(duty, prior, w, i)
             q == ItemOf(duty, prior, w, j)
         IN  /\ DOMAIN p.families \cap DOMAIN q.families = {}
             /\ DOMAIN p.residents \cap DOMAIN q.residents = {}
             /\ DOMAIN p.fields \cap DOMAIN q.fields = {}
<1> DEFINE p == ItemOf(duty, prior, w, i)
           q == ItemOf(duty, prior, w, j)
<1>1. Owns(w, i, p) /\ Owns(w, j, q)
  BY ItemOwns
<1>4. /\ \A r \in DOMAIN p.families : r = i
      /\ \A r \in DOMAIN q.families : r = j
      /\ \A r \in DOMAIN p.fields : r = i
      /\ \A r \in DOMAIN q.fields : r = j
      /\ \A r \in DOMAIN p.residents : r \in Members(w, i)
      /\ \A r \in DOMAIN q.residents : r \in Members(w, j)
  <2> HIDE DEF p, q
  <2> QED BY <1>1 DEF Owns
<1>2. CASE duty = kProduction
  <2>1. p = FieldGrowth(w, i) /\ q = FieldGrowth(w, j)
    BY <1>2 DEF ItemOf, kNeeds, kProduction, kMetrics
  <2>2. DOMAIN p.residents = {}
    BY <2>1 DEF FieldGrowth, NothingWritten, NoRows
  <2> HIDE DEF p, q
  <2>3. /\ DOMAIN p.families \cap DOMAIN q.families = {}
        /\ DOMAIN p.residents \cap DOMAIN q.residents = {}
        /\ DOMAIN p.fields \cap DOMAIN q.fields = {}
    BY <1>4, <2>2
  <2> QED BY <2>3 DEF p, q
<1>3. CASE duty # kProduction
  <2>1. i \in DOMAIN w.families /\ j \in DOMAIN w.families
    BY <1>3, WorldRows DEF ItemsOf, ItemCount
  <2>2. w.families[i].id # w.families[j].id
    BY <2>1 DEF Once
  <2>3. Members(w, i) \cap Members(w, j) = {}
    BY <2>2 DEF Members
  <2> HIDE DEF p, q
  <2>4. /\ DOMAIN p.families \cap DOMAIN q.families = {}
        /\ DOMAIN p.residents \cap DOMAIN q.residents = {}
        /\ DOMAIN p.fields \cap DOMAIN q.fields = {}
    BY <1>4, <2>3
  <2> QED BY <2>4 DEF p, q
<1> QED BY <1>2, <1>3

\* What each item writes, and of that each table.
PartsOf(duty, prior, w, items) == [i \in items |-> ItemOf(duty, prior, w, i)]
FamilyParts(parts)   == [i \in DOMAIN parts |-> parts[i].families]
ResidentParts(parts) == [i \in DOMAIN parts |-> parts[i].residents]
FieldParts(parts)    == [i \in DOMAIN parts |-> parts[i].fields]

\* AtOnce by the parts of its items.
LEMMA AtOnceIs ==
  ASSUME NEW duty, NEW prior, NEW w, NEW items
  PROVE  LET parts == PartsOf(duty, prior, w, items)
         IN  AtOnce(duty, prior, w, items)
             = [w EXCEPT !.families  = Merged(w.families, FamilyParts(parts)),
                         !.residents = Merged(w.residents, ResidentParts(parts)),
                         !.fields    = Merged(w.fields, FieldParts(parts))]
<1> DEFINE parts == PartsOf(duty, prior, w, items)
<1>1. /\ FamilyParts(parts) = [i \in items |-> ItemOf(duty, prior, w, i).families]
      /\ ResidentParts(parts) = [i \in items |-> ItemOf(duty, prior, w, i).residents]
      /\ FieldParts(parts) = [i \in items |-> ItemOf(duty, prior, w, i).fields]
  BY DEF FamilyParts, ResidentParts, FieldParts, PartsOf
<1> QED BY <1>1 DEF AtOnce

\* The same people in the same households, and the rows that are not of
\* these items as they were.
KeptBut(v, w, items) ==
  /\ v.tick = w.tick /\ v.weather = w.weather /\ v.ledger = w.ledger
  /\ v.next_resident = w.next_resident /\ v.next_family = w.next_family
  /\ DOMAIN v.residents = DOMAIN w.residents /\ Len(v.residents) = Len(w.residents)
  /\ DOMAIN v.families = DOMAIN w.families /\ Len(v.families) = Len(w.families)
  /\ Len(v.fields) = Len(w.fields)
  /\ \A r \in DOMAIN w.residents : v.residents[r].id = w.residents[r].id
  /\ \A r \in DOMAIN w.residents : v.residents[r].family = w.residents[r].family
  /\ \A f \in DOMAIN w.families : v.families[f].id = w.families[f].id
  /\ \A f \in DOMAIN w.families \ items : v.families[f] = w.families[f]
  /\ \A f \in DOMAIN w.fields \ items : v.fields[f] = w.fields[f]
  /\ \A r \in DOMAIN w.residents :
       v.residents[r] = w.residents[r] \/ \E i \in items : r \in Members(w, i)

\* Some of a phase's items, done at once.
LEMMA AtOnceWorld ==
  ASSUME NEW duty \in Parallel, NEW prior, NEW w, IsWorld(w),
         NEW items, items \subseteq ItemsOf(duty, w)
  PROVE  LET v == AtOnce(duty, prior, w, items)
         IN  v \in WorldWith(w.orders, w.step_events) /\ KeptBut(v, w, items)
<1> DEFINE parts == PartsOf(duty, prior, w, items)
           fam == Merged(w.families, FamilyParts(parts))
           res == Merged(w.residents, ResidentParts(parts))
           fld == Merged(w.fields, FieldParts(parts))
           v == [w EXCEPT !.families = fam, !.residents = res, !.fields = fld]
<1>1. \A i \in items : Owns(w, i, parts[i])
  BY ItemOwns DEF PartsOf
<1>2. DOMAIN parts = items
  BY DEF PartsOf
<1> HIDE DEF parts
<1>3. /\ \A i \in items : FamilyParts(parts)[i] = parts[i].families
      /\ \A i \in items : ResidentParts(parts)[i] = parts[i].residents
      /\ \A i \in items : FieldParts(parts)[i] = parts[i].fields
      /\ DOMAIN FamilyParts(parts) = items
      /\ DOMAIN ResidentParts(parts) = items
      /\ DOMAIN FieldParts(parts) = items
  BY <1>2 DEF FamilyParts, ResidentParts, FieldParts
<1>4. /\ fam \in Seq(FamilyRow) /\ DOMAIN fam = DOMAIN w.families /\ Len(fam) = Len(w.families)
      /\ \A f \in DOMAIN w.families : fam[f].id = w.families[f].id
      /\ \A f \in DOMAIN w.families \ items : fam[f] = w.families[f]
  <2> DEFINE pieces == FamilyParts(parts)
  <2>1. /\ DOMAIN pieces = items
        /\ \A i \in items : \A f \in DOMAIN pieces[i] :
             f = i /\ (f \in DOMAIN w.families =>
                         pieces[i][f] \in FamilyRow /\ pieces[i][f].id = w.families[f].id)
    BY <1>1, <1>3 DEF Owns
  <2>2. w.families \in Seq(FamilyRow)
    BY WorldParts
  <2> HIDE DEF pieces
  <2>3. /\ fam \in Seq(FamilyRow) /\ DOMAIN fam = DOMAIN w.families /\ Len(fam) = Len(w.families)
        /\ \A r \in DOMAIN w.families :
              \/ fam[r] = w.families[r]
              \/ \E i \in DOMAIN pieces : r \in DOMAIN pieces[i] /\ fam[r] = pieces[i][r]
    BY <2>1, <2>2, MergedTable DEF pieces
  <2> QED BY <2>1, <2>3
<1>5. /\ res \in Seq(ResidentRow) /\ DOMAIN res = DOMAIN w.residents
      /\ Len(res) = Len(w.residents)
      /\ \A r \in DOMAIN w.residents : res[r].id = w.residents[r].id
      /\ \A r \in DOMAIN w.residents : res[r].family = w.residents[r].family
      /\ \A r \in DOMAIN w.residents :
           res[r] = w.residents[r] \/ \E i \in items : r \in Members(w, i)
  <2> DEFINE pieces == ResidentParts(parts)
  <2>1. /\ DOMAIN pieces = items
        /\ \A i \in items : \A r \in DOMAIN pieces[i] :
             /\ r \in Members(w, i) /\ pieces[i][r] \in ResidentRow
             /\ pieces[i][r].id = w.residents[r].id
             /\ pieces[i][r].family = w.residents[r].family
    BY <1>1, <1>3 DEF Owns
  <2>2. w.residents \in Seq(ResidentRow)
    BY WorldParts
  <2> HIDE DEF pieces
  <2>3. /\ res \in Seq(ResidentRow) /\ DOMAIN res = DOMAIN w.residents
        /\ Len(res) = Len(w.residents)
        /\ \A r \in DOMAIN w.residents :
              \/ res[r] = w.residents[r]
              \/ \E i \in DOMAIN pieces : r \in DOMAIN pieces[i] /\ res[r] = pieces[i][r]
    BY <2>1, <2>2, MergedTable DEF pieces
  <2> QED BY <2>1, <2>3
<1>6. /\ fld \in Seq(FieldRow) /\ Len(fld) = Len(w.fields)
      /\ \A f \in DOMAIN w.fields \ items : fld[f] = w.fields[f]
  <2> DEFINE pieces == FieldParts(parts)
  <2>1. /\ DOMAIN pieces = items
        /\ \A i \in items : \A f \in DOMAIN pieces[i] :
             f = i /\ (f \in DOMAIN w.fields => pieces[i][f] \in FieldRow)
    BY <1>1, <1>3 DEF Owns
  <2>2. w.fields \in Seq(FieldRow)
    BY WorldParts
  <2> HIDE DEF pieces
  <2>3. /\ fld \in Seq(FieldRow) /\ DOMAIN fld = DOMAIN w.fields /\ Len(fld) = Len(w.fields)
        /\ \A r \in DOMAIN w.fields :
              \/ fld[r] = w.fields[r]
              \/ \E i \in DOMAIN pieces : r \in DOMAIN pieces[i] /\ fld[r] = pieces[i][r]
    BY <2>1, <2>2, MergedTable DEF pieces
  <2> QED BY <2>1, <2>3
<1> HIDE DEF fam, res, fld
<1>7. w \in WorldWith(w.orders, w.step_events)
  BY WorldParts
<1>8. /\ v \in WorldWith(w.orders, w.step_events)
      /\ v.families = fam /\ v.residents = res /\ v.fields = fld
      /\ v.tick = w.tick /\ v.weather = w.weather /\ v.ledger = w.ledger
      /\ v.next_resident = w.next_resident /\ v.next_family = w.next_family
  <2> DEFINE b == w.orders
             o == w.step_events
  <2>1. w \in WorldWith(b, o)
    BY <1>7
  <2> HIDE DEF b, o, v
  <2>2. /\ v \in WorldWith(b, o)
        /\ v.families = fam /\ v.residents = res /\ v.fields = fld
        /\ v.tick = w.tick /\ v.weather = w.weather /\ v.ledger = w.ledger
        /\ v.next_resident = w.next_resident /\ v.next_family = w.next_family
    <3>1. fam \in Seq(FamilyRow) /\ res \in Seq(ResidentRow) /\ fld \in Seq(FieldRow)
      BY <1>4, <1>5, <1>6
    <3> QED BY <2>1, <3>1 DEF v, WorldWith
  <2> QED BY <2>2 DEF b, o
<1>9. AtOnce(duty, prior, w, items) = v
  BY AtOnceIs DEF parts, fam, res, fld
<1> HIDE DEF v
<1>10. KeptBut(v, w, items)
  BY <1>4, <1>5, <1>6, <1>8 DEF KeptBut
<1> QED BY <1>8, <1>9, <1>10

\* Before the first item nothing is written.
LEMMA AtOnceNone ==
  ASSUME NEW duty, NEW prior, NEW w, IsWorld(w)
  PROVE  AtOnce(duty, prior, w, {}) = w
<1> DEFINE parts == PartsOf(duty, prior, w, {})
<1>1. /\ DOMAIN FamilyParts(parts) = {} /\ DOMAIN ResidentParts(parts) = {}
      /\ DOMAIN FieldParts(parts) = {}
  BY DEF FamilyParts, ResidentParts, FieldParts, PartsOf
<1> HIDE DEF parts
<1>2. /\ Merged(w.families, FamilyParts(parts)) = w.families
      /\ Merged(w.residents, ResidentParts(parts)) = w.residents
      /\ Merged(w.fields, FieldParts(parts)) = w.fields
  BY <1>1, MergedNone, WorldParts
<1>3. w \in WorldWith(w.orders, w.step_events)
  BY WorldParts
<1>4. AtOnce(duty, prior, w, {})
        = [w EXCEPT !.families = w.families, !.residents = w.residents, !.fields = w.fields]
  BY <1>2, AtOnceIs DEF parts
<1> QED BY <1>3, <1>4, SameTables

\* Storing one more item's rows is having done one item more.
LEMMA AtOnceOneMore ==
  ASSUME NEW duty \in Parallel, NEW prior, NEW w, IsWorld(w), Once(w.families),
         NEW done, done \subseteq ItemsOf(duty, w), NEW i \in ItemsOf(duty, w), i \notin done
  PROVE  Stored(AtOnce(duty, prior, w, done), ItemOf(duty, prior, w, i))
         = AtOnce(duty, prior, w, done \cup {i})
<1> DEFINE more == done \cup {i}
           parts == PartsOf(duty, prior, w, more)
           part == ItemOf(duty, prior, w, i)
           was == PartsOf(duty, prior, w, done)
           fam == Merged(w.families, FamilyParts(was))
           res == Merged(w.residents, ResidentParts(was))
           fld == Merged(w.fields, FieldParts(was))
           v == AtOnce(duty, prior, w, done)
<1>1. /\ v = [w EXCEPT !.families = fam, !.residents = res, !.fields = fld]
      /\ AtOnce(duty, prior, w, more)
           = [w EXCEPT !.families  = Merged(w.families, FamilyParts(parts)),
                       !.residents = Merged(w.residents, ResidentParts(parts)),
                       !.fields    = Merged(w.fields, FieldParts(parts))]
  BY AtOnceIs
<1>2. /\ DOMAIN parts = more /\ DOMAIN was = done /\ parts[i] = part
      /\ \A j \in done : was[j] = parts[j]
  BY DEF PartsOf
<1>3. \A j, k \in more : j # k =>
        /\ DOMAIN parts[j].families \cap DOMAIN parts[k].families = {}
        /\ DOMAIN parts[j].residents \cap DOMAIN parts[k].residents = {}
        /\ DOMAIN parts[j].fields \cap DOMAIN parts[k].fields = {}
  <2> SUFFICES ASSUME NEW j \in more, NEW k \in more, j # k
               PROVE  /\ DOMAIN parts[j].families \cap DOMAIN parts[k].families = {}
                      /\ DOMAIN parts[j].residents \cap DOMAIN parts[k].residents = {}
                      /\ DOMAIN parts[j].fields \cap DOMAIN parts[k].fields = {}
    OBVIOUS
  <2>1. j \in ItemsOf(duty, w) /\ k \in ItemsOf(duty, w)
    OBVIOUS
  <2>2. parts[j] = ItemOf(duty, prior, w, j) /\ parts[k] = ItemOf(duty, prior, w, k)
    BY DEF PartsOf
  <2> DEFINE p == ItemOf(duty, prior, w, j)
             q == ItemOf(duty, prior, w, k)
  <2>3. /\ DOMAIN p.families \cap DOMAIN q.families = {}
        /\ DOMAIN p.residents \cap DOMAIN q.residents = {}
        /\ DOMAIN p.fields \cap DOMAIN q.fields = {}
    BY <2>1, ItemsApart
  <2>4. parts[j] = p /\ parts[k] = q
    BY <2>2
  <2> HIDE DEF p, q, parts
  <2> QED BY <2>3, <2>4
<1>4. w \in WorldWith(w.orders, w.step_events)
  BY WorldParts
<1>5. /\ fam \in Seq(FamilyRow) /\ res \in Seq(ResidentRow) /\ fld \in Seq(FieldRow)
      /\ v.families = fam /\ v.residents = res /\ v.fields = fld
  <2>1. v \in WorldWith(w.orders, w.step_events)
    BY AtOnceWorld
  <2>2. v.families \in Seq(FamilyRow) /\ v.residents \in Seq(ResidentRow) /\ v.fields \in Seq(FieldRow)
    <3> HIDE DEF v
    <3> QED BY <2>1 DEF WorldWith
  <2>3. v.families = fam /\ v.residents = res /\ v.fields = fld
    <3> HIDE DEF v, fam, res, fld
    <3> QED BY <1>1, <1>4 DEF WorldWith
  <2> QED BY <2>2, <2>3
<1> HIDE DEF parts, part, was
<1>6. Over(fam, part.families) = Merged(w.families, FamilyParts(parts))
  <2> DEFINE pieces == FamilyParts(parts)
             old == FamilyParts(was)
  <2>1. /\ DOMAIN pieces = done \cup {i} /\ pieces[i] = part.families
        /\ DOMAIN old = done /\ \A j \in DOMAIN old : old[j] = pieces[j]
        /\ \A j, k \in DOMAIN pieces : j # k => DOMAIN pieces[j] \cap DOMAIN pieces[k] = {}
    BY <1>2, <1>3 DEF FamilyParts
  <2> HIDE DEF pieces, old
  <2>2. Over(Merged(w.families, old), pieces[i]) = Merged(w.families, pieces)
    BY <2>1, OverMerged
  <2> QED BY <2>1, <2>2 DEF pieces, old
<1>7. Over(res, part.residents) = Merged(w.residents, ResidentParts(parts))
  <2> DEFINE pieces == ResidentParts(parts)
             old == ResidentParts(was)
  <2>1. /\ DOMAIN pieces = done \cup {i} /\ pieces[i] = part.residents
        /\ DOMAIN old = done /\ \A j \in DOMAIN old : old[j] = pieces[j]
        /\ \A j, k \in DOMAIN pieces : j # k => DOMAIN pieces[j] \cap DOMAIN pieces[k] = {}
    BY <1>2, <1>3 DEF ResidentParts
  <2> HIDE DEF pieces, old
  <2>2. Over(Merged(w.residents, old), pieces[i]) = Merged(w.residents, pieces)
    BY <2>1, OverMerged
  <2> QED BY <2>1, <2>2 DEF pieces, old
<1>8. Over(fld, part.fields) = Merged(w.fields, FieldParts(parts))
  <2> DEFINE pieces == FieldParts(parts)
             old == FieldParts(was)
  <2>1. /\ DOMAIN pieces = done \cup {i} /\ pieces[i] = part.fields
        /\ DOMAIN old = done /\ \A j \in DOMAIN old : old[j] = pieces[j]
        /\ \A j, k \in DOMAIN pieces : j # k => DOMAIN pieces[j] \cap DOMAIN pieces[k] = {}
    BY <1>2, <1>3 DEF FieldParts
  <2> HIDE DEF pieces, old
  <2>2. Over(Merged(w.fields, old), pieces[i]) = Merged(w.fields, pieces)
    BY <2>1, OverMerged
  <2> QED BY <2>1, <2>2 DEF pieces, old
<1> HIDE DEF fam, res, fld, v
<1>9. Stored(v, part) = [v EXCEPT !.families = Over(fam, part.families),
                                  !.residents = Over(res, part.residents),
                                  !.fields = Over(fld, part.fields)]
  BY <1>5, SMTT(30) DEF Stored
<1>10. Stored(v, part) = [w EXCEPT !.families = Over(fam, part.families),
                                   !.residents = Over(res, part.residents),
                                   !.fields = Over(fld, part.fields)]
  BY <1>1, <1>4, <1>5, <1>9, NewTablesTwice
<1> QED BY <1>1, <1>6, <1>7, <1>8, <1>10 DEF v, part

\* What an item reads besides its own rows no other item of the phase writes.
LEMMA ItemFrame ==
  ASSUME NEW duty \in Parallel, NEW prior, NEW w, IsWorld(w), Once(w.families),
         NEW done, done \subseteq ItemsOf(duty, w), NEW i \in ItemsOf(duty, w), i \notin done
  PROVE  ItemOf(duty, prior, AtOnce(duty, prior, w, done), i)
         = ItemOf(duty, prior, w, i)
<1> DEFINE v == AtOnce(duty, prior, w, done)
<1>1. /\ v.tick = w.tick /\ v.weather = w.weather
      /\ DOMAIN v.residents = DOMAIN w.residents /\ DOMAIN v.families = DOMAIN w.families
      /\ \A r \in DOMAIN w.residents : v.residents[r].family = w.residents[r].family
      /\ \A f \in DOMAIN w.families : v.families[f].id = w.families[f].id
      /\ \A f \in DOMAIN w.families \ done : v.families[f] = w.families[f]
      /\ \A f \in DOMAIN w.fields \ done : v.fields[f] = w.fields[f]
      /\ \A r \in DOMAIN w.residents :
           v.residents[r] = w.residents[r] \/ \E j \in done : r \in Members(w, j)
  <2>1. KeptBut(v, w, done)
    BY AtOnceWorld
  <2> HIDE DEF v
  <2> QED BY <2>1 DEF KeptBut
<1>2. /\ MealHour(v) = MealHour(w) /\ NewDay(v) = NewDay(w) /\ PlotHour(v) = PlotHour(w)
  BY <1>1 DEF MealHour, NewDay, PlotHour
<1> HIDE DEF v
<1>3. CASE duty = kProduction
  <2>1. i \in DOMAIN w.fields
    BY <1>3, WorldRows DEF ItemsOf, ItemCount
  <2>2. v.fields[i] = w.fields[i]
    BY <1>1, <2>1
  <2>3. FieldGrowth(v, i) = FieldGrowth(w, i)
    BY <1>1, <1>2, <2>2 DEF FieldGrowth
  <2>4. /\ ItemOf(duty, prior, v, i) = FieldGrowth(v, i)
        /\ ItemOf(duty, prior, w, i) = FieldGrowth(w, i)
    BY <1>3 DEF ItemOf, kNeeds, kProduction, kMetrics
  <2> QED BY <2>3, <2>4 DEF v
<1>4. CASE duty # kProduction
  <2>1. i \in DOMAIN w.families /\ done \subseteq DOMAIN w.families
    BY <1>4, WorldRows DEF ItemsOf, ItemCount
  <2>2. v.families[i] = w.families[i] /\ v.families[i].id = w.families[i].id
    BY <1>1, <2>1
  <2>3. Members(v, i) = Members(w, i)
    BY <1>1, <2>2 DEF Members
  <2>4. \A r \in Members(w, i) : v.residents[r] = w.residents[r]
    <3>1. \A j \in done : w.families[j].id # w.families[i].id
      BY <2>1 DEF Once
    <3>2. \A j \in done : Members(w, j) \cap Members(w, i) = {}
      BY <3>1 DEF Members
    <3> QED BY <1>1, <3>2 DEF Members
  <2>5. CASE duty = kNeeds
    <3>1. NeedKcal(prior, v, i) = NeedKcal(prior, w, i)
      BY <2>3 DEF NeedKcal
    <3> DEFINE need == NeedKcal(prior, w, i)
               eaten == EatenKcal(w, i, need)
               aim == SatietyTarget(eaten, need)
               fed(x) == [r \in Members(w, i) |-> [x.residents[r] EXCEPT !.satiety = Toward(@, aim)]]
    <3>2. EatenKcal(v, i, need) = eaten
      BY <2>2 DEF EatenKcal
    <3>3. fed(v) = fed(w)
      BY <2>4
    <3>4. /\ FamilyMeal(prior, v, i) =
                IF ~MealHour(w) THEN NothingWritten ELSE
                  [families |-> [g \in {i} |-> [w.families[i] EXCEPT !.pantry = @ - eaten]],
                   residents |-> fed(v), fields |-> NoRows]
          /\ FamilyMeal(prior, w, i) =
                IF ~MealHour(w) THEN NothingWritten ELSE
                  [families |-> [g \in {i} |-> [w.families[i] EXCEPT !.pantry = @ - eaten]],
                   residents |-> fed(w), fields |-> NoRows]
      BY <1>2, <2>2, <2>3, <3>1, <3>2 DEF FamilyMeal
    <3>5. /\ ItemOf(duty, prior, v, i) = FamilyMeal(prior, v, i)
          /\ ItemOf(duty, prior, w, i) = FamilyMeal(prior, w, i)
      BY <2>5 DEF ItemOf, kNeeds, kProduction, kMetrics
    <3> HIDE DEF need, eaten, aim, fed
    <3> QED BY <3>3, <3>4, <3>5 DEF v
  <2>6. CASE duty = kMetrics
    <3>1. [r \in Members(v, i) |-> v.residents[r].satiety]
            = [r \in Members(w, i) |-> w.residents[r].satiety]
      BY <2>3, <2>4
    <3>2. Mood(v, i) = Mood(w, i)
      BY <2>2, <2>3, <3>1 DEF Mood
    <3>3. PlotYield(v, i) = PlotYield(w, i)
      BY <1>2 DEF PlotYield
    <3>4. \A r \in Members(w, i) : Remembered(v, r) = Remembered(w, r)
      BY <1>2, <2>4 DEF Remembered
    <3>5. [r \in Members(v, i) |-> [v.residents[r] EXCEPT !.memory = Remembered(v, r)]]
            = [r \in Members(w, i) |-> [w.residents[r] EXCEPT !.memory = Remembered(w, r)]]
      BY <2>3, <2>4, <3>4
    <3>6. FamilyMetrics(v, i) = FamilyMetrics(w, i)
      BY <2>2, <3>2, <3>3, <3>5 DEF FamilyMetrics
    <3>7. /\ ItemOf(duty, prior, v, i) = FamilyMetrics(v, i)
          /\ ItemOf(duty, prior, w, i) = FamilyMetrics(w, i)
      BY <2>6 DEF ItemOf, kNeeds, kProduction, kMetrics
    <3> QED BY <3>6, <3>7 DEF v
  <2> QED BY <1>4, <2>5, <2>6 DEF Parallel
<1> QED BY <1>3, <1>4

-----------------------------------------------------------------------------
\* Who lives where, as sets.
Yards(w) == {w.residents[r].family : r \in DOMAIN w.residents}
Known(w) == IdSet(w.families)

\* Two worlds of the same people in the same households.
SamePeople(v, w) ==
  /\ DOMAIN v.residents = DOMAIN w.residents /\ DOMAIN v.families = DOMAIN w.families
  /\ \A r \in DOMAIN w.residents : v.residents[r].id = w.residents[r].id
  /\ \A r \in DOMAIN w.residents : v.residents[r].family = w.residents[r].family
  /\ \A f \in DOMAIN w.families : v.families[f].id = w.families[f].id
  /\ v.next_resident = w.next_resident /\ v.next_family = w.next_family

\* Housed, by the set of the yards lived in and the set of those known.
LEMMA HousedIs == ASSUME NEW w PROVE Housed(w) <=> Yards(w) = Known(w)
  BY DEF Housed, Yards, Known, IdSet

\* Of the same people the same is true: the ids stand once, all are housed.
LEMMA SamePeopleStand ==
  ASSUME NEW v, NEW w, SamePeople(v, w)
  PROVE  /\ WellFormed(w) => WellFormed(v)
         /\ Housed(w) => Housed(v)
         /\ Yards(v) = Yards(w) /\ Known(v) = Known(w)
         /\ IdSet(v.residents) = IdSet(w.residents)
<1>1. IdSet(v.residents) = IdSet(w.residents) /\ Known(v) = Known(w)
  BY DEF SamePeople, IdSet, Known
<1>2. Yards(v) = Yards(w)
  BY DEF SamePeople, Yards
<1>3. WellFormed(w) => WellFormed(v)
  BY DEF SamePeople, WellFormed, IdsOnce
<1> QED BY <1>1, <1>2, <1>3, HousedIs

\* A set of rows has a first one.
LEMMA FirstOf ==
  ASSUME NEW T \in SUBSET Nat, T # {}
  PROVE  \E m \in T : \A n \in T : m <= n
<1> DEFINE Below == OpToRel(<, Nat)
<1>1. \A m, n \in Nat : m < n => <<m, n>> \in Below
  BY DEF OpToRel
<1>2. IsWellFoundedOn(Below, Nat)
  BY NatLessThanWellFounded
<1> HIDE DEF Below
<1>3. PICK m \in T : \A n \in T : ~(<<n, m>> \in Below)
  BY <1>2, WFMin
<1>4. \A n \in T : m <= n
  <2> SUFFICES ASSUME NEW n \in T, ~(m <= n)
               PROVE  FALSE
    OBVIOUS
  <2>1. n < m
    OBVIOUS
  <2> QED BY <1>1, <1>3, <2>1
<1> QED BY <1>4

-----------------------------------------------------------------------------
\* The stock is what the families' table holds.
LEMMA StockIs == ASSUME NEW w PROVE Stock(w) = Held(w.families)
  BY DEF Stock, Held, Pantries

\* In a well-formed world no id stands twice in a table, and the counters are
\* ids nobody has.
LEMMA OnceIs ==
  ASSUME NEW w, IsWorld(w), WellFormed(w)
  PROVE  /\ Once(w.residents) /\ Once(w.families)
         /\ \A r \in DOMAIN w.residents : w.residents[r].id < w.next_resident
         /\ \A f \in DOMAIN w.families : w.families[f].id < w.next_family
  BY DEF WellFormed, IdsOnce, Once

\* An empty household's row and its pantry: the row goes, the pantry stays
\* with another household or is booked as lost.
LEMMA InheritedIs ==
  ASSUME NEW w, IsWorld(w), WellFormed(w), NEW family \in Known(w), family \notin Yards(w)
  PROVE  LET v == Inherited(w, family)
         IN  /\ IsWorld(v) /\ WellFormed(v)
             /\ Yards(v) = Yards(w) /\ Known(v) = Known(w) \ {family}
             /\ v.tick = w.tick /\ Unbooked(v) = Unbooked(w)
<1> DEFINE b == w.orders
           o == w.step_events
           fam == w.families
           row == RowOfId(fam, family)
           left == fam[row].pantry
           heirs == {f \in DOMAIN fam : fam[f].id # family /\ Lives(w, fam[f].id)}
           heir == CHOOSE f \in heirs : \A g \in heirs : f <= g
           given == IF heirs = {} THEN [w EXCEPT !.ledger.lost = @ + left]
                    ELSE [w EXCEPT !.families[heir].pantry = @ + left]
           out == Without(given.families, family)
           v == [given EXCEPT !.families = out]
<1>1. /\ w \in WorldWith(b, o) /\ fam \in Seq(FamilyRow) /\ Once(fam)
      /\ w.ledger.lost \in Int /\ w.ledger.harvest \in Int /\ w.ledger.eaten \in Int
      /\ DOMAIN fam = 1..Len(fam) /\ Len(fam) \in Nat
      /\ \A f \in DOMAIN fam : fam[f] \in FamilyRow /\ fam[f].id < w.next_family
  BY WorldParts, WorldRows, OnceIs
<1>2. row \in DOMAIN fam /\ fam[row].id = family
  BY RowOfIdFound DEF Known
<1>3. left \in Int /\ Held(fam) \in Int
  BY <1>1, <1>2, HeldIs, SMTT(30) DEF FamilyRow
<1>4. Inherited(w, family) = v
  BY DEF Inherited
<1> HIDE DEF row, left
<1>5. /\ given \in WorldWith(b, o)
      /\ given.residents = w.residents /\ given.next_resident = w.next_resident
      /\ given.next_family = w.next_family /\ given.tick = w.tick
      /\ given.families \in Seq(FamilyRow)
      /\ DOMAIN given.families = DOMAIN fam
      /\ \A f \in DOMAIN fam : given.families[f].id = fam[f].id
      /\ given.families[row].pantry = left
      /\ given.ledger.harvest = w.ledger.harvest /\ given.ledger.eaten = w.ledger.eaten
      /\ given.ledger.lost \in Int
      /\ Held(given.families) + given.ledger.lost = Held(fam) + w.ledger.lost + left
  <2>1. CASE heirs = {}
    <3> DEFINE x == w.ledger.lost + left
    <3>1. x \in Int /\ given = [w EXCEPT !.ledger.lost = x]
      BY <1>1, <1>3, <2>1
    <3> HIDE DEF x, b, o, given
    <3>2. /\ given \in WorldWith(b, o) /\ given.families = w.families
          /\ given.next_family = w.next_family
          /\ given.residents = w.residents /\ given.next_resident = w.next_resident
          /\ given.tick = w.tick
          /\ given.ledger.harvest = w.ledger.harvest /\ given.ledger.eaten = w.ledger.eaten
          /\ given.ledger.lost = x
      <4>1. w \in WorldWith(b, o)
        BY <1>1
      <4> QED BY <3>1, <4>1 DEF WorldWith
    <3> QED BY <1>1, <1>2, <1>3, <3>2, SMTT(30) DEF x, left
  <2>2. CASE heirs # {}
    <3>1. heir \in heirs
      <4>1. heirs \in SUBSET Nat
        BY <1>1
      <4> HIDE DEF heirs
      <4> QED BY <2>2, <4>1, FirstOf
    <3> DEFINE x == fam[heir].pantry + left
               fam2 == [fam EXCEPT ![heir].pantry = x]
    <3>2. heir \in DOMAIN fam /\ heir # row /\ fam[heir].pantry \in Int /\ x \in Int
      <4>1. heir \in DOMAIN fam /\ fam[heir].id # family
        BY <3>1, SMTT(30)
      <4>2. fam[heir] \in FamilyRow
        BY <1>1, <4>1
      <4> HIDE DEF heir, fam
      <4> QED BY <1>2, <1>3, <4>1, <4>2, SMTT(30) DEF FamilyRow
    <3>3. given = [w EXCEPT !.families = fam2]
      BY <2>2
    <3> HIDE DEF heir, x
    <3>4. /\ fam2 \in Seq(FamilyRow) /\ DOMAIN fam2 = DOMAIN fam
          /\ \A f \in DOMAIN fam : fam2[f].id = fam[f].id
          /\ \A f \in DOMAIN fam : f # heir => fam2[f] = fam[f]
          /\ Held(fam2) = Held(fam) - fam[heir].pantry + x
      <4>1. fam \in Seq(FamilyRow)
        BY <1>1
      <4> HIDE DEF fam, given
      <4> QED BY <3>2, <4>1, HeldChanged, ZenonT(60)
    <3> HIDE DEF fam2, b, o, given
    <3>5. /\ given \in WorldWith(b, o) /\ given.families = fam2
          /\ given.next_family = w.next_family
          /\ given.residents = w.residents /\ given.next_resident = w.next_resident
          /\ given.tick = w.tick /\ given.ledger = w.ledger
      BY <1>1, <3>3, <3>4, NewFamilies
    <3>6. Held(fam2) = Held(fam) + left
      BY <1>3, <3>2, <3>4 DEF x
    <3> QED BY <1>1, <1>2, <1>3, <3>2, <3>4, <3>5, <3>6, SMTT(30) DEF left
  <2> QED BY <2>1, <2>2
<1> HIDE DEF given
<1>6. Once(given.families) /\ IdSet(given.families) = Known(w)
  <2> HIDE DEF fam
  <2>1. IdSet(given.families) = IdSet(fam)
    BY <1>5 DEF IdSet
  <2> QED BY <1>1, <1>5, <2>1 DEF Once, Known, fam
<1>7. /\ out \in Seq(FamilyRow) /\ Once(out) /\ IdSet(out) = Known(w) \ {family}
      /\ \A k \in DOMAIN out : \E j \in DOMAIN given.families : out[k] = given.families[j]
      /\ Held(out) = Held(given.families) - left
  <2> DEFINE rows == given.families
             gap == RowOfId(rows, family)
  <2>1. rows \in Seq(FamilyRow) /\ Once(rows) /\ family \in IdSet(rows)
    BY <1>5, <1>6
  <2> HIDE DEF rows
  <2>2. /\ out \in Seq(FamilyRow) /\ out = LastInto(rows, gap) /\ Once(out)
        /\ \A k \in DOMAIN out : \E j \in DOMAIN rows : j # gap /\ out[k] = rows[j]
        /\ IdSet(out) = IdSet(rows) \ {family}
    BY <2>1, WithoutRows DEF rows
  <2>3. gap \in DOMAIN rows /\ rows[gap].id = family
    BY <2>1, RowOfIdFound
  <2>4. gap = row
    BY <1>2, <1>5, <2>1, <2>3 DEF Once, rows
  <2>5. Held(LastInto(rows, gap)) = Held(rows) - rows[gap].pantry
    BY <2>1, <2>3, HeldWithout
  <2> QED BY <1>5, <1>6, <2>2, <2>4, <2>5 DEF rows
<1> HIDE DEF out
<1>8. /\ v \in WorldWith(b, o) /\ v.families = out /\ v.next_family = w.next_family
      /\ v.residents = w.residents /\ v.next_resident = w.next_resident
      /\ v.ledger = given.ledger /\ v.tick = w.tick
  <2> HIDE DEF b, o
  <2>1. /\ v \in WorldWith(b, o) /\ v.families = out /\ v.next_family = given.next_family
        /\ v.residents = given.residents /\ v.next_resident = given.next_resident
        /\ v.ledger = given.ledger /\ v.tick = given.tick
    BY <1>5, <1>7, NewFamilies
  <2> QED BY <1>5, <2>1
<1> HIDE DEF v, heirs, heir, fam
<1>9. IsWorld(v)
  BY <1>8, WorldIs
<1>10. \A f \in DOMAIN out : out[f].id < w.next_family
  BY <1>1, <1>5, <1>7 DEF fam
<1>11. WellFormed(v)
  BY <1>7, <1>8, <1>10 DEF WellFormed, IdsOnce, Once
<1>12. Yards(v) = Yards(w) /\ Known(v) = Known(w) \ {family}
  BY <1>7, <1>8 DEF Yards, Known
<1>13. Unbooked(v) = Unbooked(w)
  <2>1. Held(out) = Held(given.families) - left /\ Held(given.families) \in Int
    BY <1>5, <1>7, HeldIs
  <2>2. Stock(v) = Held(out) /\ Stock(w) = Held(fam)
    BY <1>8, StockIs DEF fam
  <2>3. /\ v.ledger.harvest = w.ledger.harvest /\ v.ledger.eaten = w.ledger.eaten
        /\ v.ledger.lost = given.ledger.lost
    BY <1>5, <1>8
  <2>4. Held(given.families) + given.ledger.lost = Held(fam) + w.ledger.lost + left
    BY <1>5
  <2>5. /\ w.ledger.lost \in Int /\ w.ledger.harvest \in Int /\ w.ledger.eaten \in Int
        /\ given.ledger.lost \in Int /\ left \in Int /\ Held(fam) \in Int
    BY <1>1, <1>3, <1>5
  <2>6. Unbooked(v) = Held(out) - w.ledger.harvest + w.ledger.eaten + given.ledger.lost
    BY <2>2, <2>3 DEF Unbooked
  <2>7. Unbooked(w) = Held(fam) - w.ledger.harvest + w.ledger.eaten + w.ledger.lost
    BY <2>2 DEF Unbooked
  <2>8. Held(out) \in Int /\ Held(out) + given.ledger.lost = Held(fam) + w.ledger.lost
    BY <2>1, <2>4, <2>5
  <2>9. /\ Held(out) \in Int /\ Held(fam) \in Int /\ given.ledger.lost \in Int
        /\ w.ledger.lost \in Int /\ w.ledger.harvest \in Int /\ w.ledger.eaten \in Int
    BY <2>5, <2>8
  <2>10. Held(out) + given.ledger.lost = Held(fam) + w.ledger.lost
    BY <2>8
  <2> QED BY <2>6, <2>7, <2>9, <2>10
<1> QED BY <1>4, <1>8, <1>9, <1>11, <1>12, <1>13

\* A household is dropped exactly when nobody lives in it; nothing is lost.
LEMMA DropIs ==
  ASSUME NEW w, IsWorld(w), WellFormed(w), NEW family
  PROVE  LET v == DropFamilyIfEmpty(w, family)
         IN  /\ IsWorld(v) /\ WellFormed(v)
             /\ Yards(v) = Yards(w)
             /\ Known(v) = IF family \in Yards(w) THEN Known(w) ELSE Known(w) \ {family}
             /\ v.tick = w.tick /\ Unbooked(v) = Unbooked(w)
<1>1. Lives(w, family) <=> family \in Yards(w)
  BY DEF Lives, Yards
<1>2. RowOfId(w.families, family) = kNoRow <=> family \notin Known(w)
  <2>1. kNoRow \notin DOMAIN w.families
    BY WorldRows DEF kNoRow
  <2> QED BY <2>1, RowOfIdFound DEF Known
<1>3. CASE family \in Yards(w) \/ family \notin Known(w)
  <2>1. DropFamilyIfEmpty(w, family) = w
    BY <1>1, <1>2, <1>3 DEF DropFamilyIfEmpty
  <2> QED BY <1>3, <2>1
<1>4. CASE family \notin Yards(w) /\ family \in Known(w)
  <2>1. DropFamilyIfEmpty(w, family) = Inherited(w, family)
    BY <1>1, <1>2, <1>4 DEF DropFamilyIfEmpty
  <2> QED BY <1>4, <2>1, InheritedIs
<1> QED BY <1>3, <1>4

\* A world is in order: its ids once, its households lived in.
InOrder(w) == IsWorld(w) /\ WellFormed(w) /\ Housed(w)

\* A death.
LEMMA DeathIs ==
  ASSUME NEW w, InOrder(w), NEW id \in IdSet(w.residents)
  PROVE  LET v == RemoveResident(w, id)
         IN  InOrder(v) /\ v.tick = w.tick /\ Unbooked(v) = Unbooked(w)
<1> DEFINE b == w.orders
           o == w.step_events
           rows == w.residents
           gap == RowOfId(rows, id)
           out == Without(rows, id)
           yard == rows[gap].family
           left == [w EXCEPT !.residents = out]
<1>1. /\ w \in WorldWith(b, o) /\ rows \in Seq(ResidentRow) /\ Once(rows)
      /\ IsWorld(w) /\ WellFormed(w) /\ Yards(w) = Known(w)
      /\ kNoRow \notin DOMAIN rows
      /\ \A r \in DOMAIN rows : rows[r].id < w.next_resident
  BY WorldParts, OnceIs, HousedIs, WorldRows DEF InOrder, kNoRow
<1>2. gap \in DOMAIN rows /\ rows[gap].id = id
  BY RowOfIdFound
<1>3. RemoveResident(w, id) = DropFamilyIfEmpty(left, yard)
  BY <1>1, <1>2 DEF RemoveResident
<1> HIDE DEF rows
<1>4. /\ out \in Seq(ResidentRow) /\ Once(out)
      /\ \A k \in DOMAIN out : \E j \in DOMAIN rows : j # gap /\ out[k] = rows[j]
      /\ \A j \in DOMAIN rows : j # gap => \E k \in DOMAIN out : out[k] = rows[j]
  BY <1>1, WithoutRows DEF rows
<1> HIDE DEF out, gap, yard
<1>5. /\ left \in WorldWith(b, o) /\ left.residents = out
      /\ left.next_resident = w.next_resident
      /\ left.families = w.families /\ left.next_family = w.next_family
      /\ left.ledger = w.ledger /\ left.tick = w.tick
  <2> HIDE DEF b, o
  <2> QED BY <1>1, <1>4, NewRows
<1> HIDE DEF left
<1>6. IsWorld(left)
  BY <1>5, WorldIs
<1>7. WellFormed(left)
  <2>1. \A k \in DOMAIN out : out[k].id < w.next_resident
    BY <1>1, <1>4
  <2> QED BY <1>1, <1>4, <1>5, <2>1 DEF WellFormed, IdsOnce, Once
<1>8. Yards(left) \cup {yard} = Known(left) /\ Known(left) = Known(w)
  <2>1. Known(left) = Known(w)
    BY <1>5 DEF Known
  <2>2. ASSUME NEW k \in DOMAIN out
        PROVE  out[k].family \in Yards(w)
    BY <1>4 DEF Yards, rows
  <2>3. ASSUME NEW j \in DOMAIN rows
        PROVE  rows[j].family \in Yards(left) \cup {yard}
    <3>1. CASE j = gap
      BY <3>1 DEF yard
    <3>2. CASE j # gap
      BY <1>4, <1>5, <3>2 DEF Yards
    <3> QED BY <3>1, <3>2
  <2>4. yard \in Yards(w)
    BY <1>2 DEF yard, Yards, rows
  <2>5. Yards(left) \subseteq Yards(w)
    BY <1>5, <2>2 DEF Yards
  <2>6. Yards(w) \subseteq Yards(left) \cup {yard}
    BY <2>3 DEF Yards, rows
  <2> QED BY <1>1, <2>1, <2>4, <2>5, <2>6
<1>9. Unbooked(left) = Unbooked(w)
  BY <1>5, StockIs DEF Unbooked
<1> DEFINE v == DropFamilyIfEmpty(left, yard)
<1>10. /\ IsWorld(v) /\ WellFormed(v)
       /\ Yards(v) = Yards(left)
       /\ Known(v) = IF yard \in Yards(left) THEN Known(left) ELSE Known(left) \ {yard}
       /\ v.tick = left.tick /\ Unbooked(v) = Unbooked(left)
  BY <1>6, <1>7, DropIs
<1> HIDE DEF v
<1>11. Yards(v) = Known(v)
  BY <1>8, <1>10
<1>12. InOrder(v)
  BY <1>10, <1>11, HousedIs DEF InOrder
<1> QED BY <1>3, <1>5, <1>9, <1>10, <1>12 DEF v

\* A birth.
LEMMA BirthIs ==
  ASSUME NEW w, InOrder(w), NEW id \in IdSet(w.residents)
  PROVE  LET v == Birth(w, id)
         IN  InOrder(v) /\ v.tick = w.tick /\ Unbooked(v) = Unbooked(w)
<1> DEFINE b == w.orders
           o == w.step_events
           rows == w.residents
           n == Len(rows)
           yard == rows[RowOfId(rows, id)].family
           child == Newborn(w, yard)
           out == Append(rows, child)
           next == w.next_resident + 1
           v == [w EXCEPT !.residents = out, !.next_resident = next]
<1>1. /\ w \in WorldWith(b, o) /\ rows \in Seq(ResidentRow) /\ Once(rows)
      /\ IsWorld(w) /\ WellFormed(w) /\ Yards(w) = Known(w)
      /\ \A r \in DOMAIN rows : rows[r] \in ResidentRow /\ rows[r].id < w.next_resident
      /\ DOMAIN rows = 1..n /\ n \in Nat
      /\ w.next_resident \in Nat /\ next \in Nat
  BY WorldParts, WorldRows, OnceIs, HousedIs DEF InOrder
<1>2. RowOfId(rows, id) \in DOMAIN rows
  BY RowOfIdFound
<1>3. Birth(w, id) = v
  BY DEF Birth
<1>4. yard \in Nat /\ yard \in Yards(w)
  BY <1>1, <1>2 DEF Yards, ResidentRow
<1> HIDE DEF yard
<1>5. child \in ResidentRow /\ child.id = w.next_resident /\ child.family = yard
  BY <1>1, <1>4, ScaleAssumption DEF Newborn, ResidentRow
<1> HIDE DEF child, rows
<1>6. /\ out \in Seq(ResidentRow) /\ DOMAIN out = 1..(n + 1)
      /\ out[n + 1] = child /\ \A r \in 1..n : out[r] = rows[r]
  BY <1>1, <1>5, AppendProperties
<1> HIDE DEF out
<1>7. /\ v \in WorldWith(b, o) /\ v.residents = out /\ v.next_resident = next
      /\ v.families = w.families /\ v.next_family = w.next_family
      /\ v.ledger = w.ledger /\ v.tick = w.tick
  <2>1. w \in WorldWith(b, o) /\ out \in Seq(ResidentRow) /\ next \in Nat
    BY <1>1, <1>6
  <2> HIDE DEF b, o, next
  <2> QED BY <2>1 DEF WorldWith
<1> HIDE DEF v
<1>8. IsWorld(v)
  BY <1>7, WorldIs
<1>9. WellFormed(v)
  <2>1. \A r \in DOMAIN out : out[r].id < next
    <3>1. \A r \in 1..n : out[r].id \in Nat /\ out[r].id < w.next_resident
      BY <1>1, <1>6 DEF ResidentRow
    <3>2. \A r \in DOMAIN out : r \in 1..n \/ r = n + 1
      BY <1>1, <1>6
    <3>3. out[n + 1].id = w.next_resident
      BY <1>5, <1>6
    <3> HIDE DEF n
    <3> QED BY <1>1, <3>1, <3>2, <3>3
  <2>2. \A r, s \in DOMAIN out : out[r].id = out[s].id => r = s
    <3>1. \A r \in 1..n : out[r].id \in Nat /\ out[r].id < w.next_resident
      BY <1>1, <1>6 DEF ResidentRow
    <3>2. \A r \in DOMAIN out : r \in 1..n \/ r = n + 1
      BY <1>1, <1>6
    <3>3. \A r, s \in 1..n : out[r].id = out[s].id => r = s
      BY <1>1, <1>6 DEF Once
    <3>4. out[n + 1].id = w.next_resident
      BY <1>5, <1>6
    <3>5. w.next_resident \in Nat
      BY <1>1
    <3> HIDE DEF n
    <3> QED BY <3>1, <3>2, <3>3, <3>4, <3>5
  <2> QED BY <1>1, <1>7, <2>1, <2>2 DEF WellFormed, IdsOnce
<1>10. Yards(v) = Yards(w) /\ Known(v) = Known(w)
  <2>1. Known(v) = Known(w)
    BY <1>7 DEF Known
  <2>2. \A r \in DOMAIN out : out[r].family \in Yards(w)
    <3>1. \A r \in DOMAIN out : r \in 1..n \/ r = n + 1
      BY <1>1, <1>6
    <3>2. \A r \in 1..n : out[r].family \in Yards(w)
      BY <1>1, <1>6 DEF Yards, rows
    <3>3. out[n + 1].family \in Yards(w)
      BY <1>4, <1>5, <1>6
    <3> QED BY <3>1, <3>2, <3>3
  <2>3. \A r \in DOMAIN rows : \E k \in DOMAIN out : out[k].family = rows[r].family
    BY <1>1, <1>6
  <2> QED BY <1>7, <2>1, <2>2, <2>3 DEF Yards, rows
<1>11. Unbooked(v) = Unbooked(w)
  BY <1>7, StockIs DEF Unbooked
<1> QED BY <1>1, <1>3, <1>7, <1>8, <1>9, <1>10, <1>11, HousedIs DEF InOrder

\* A dowry moves from one row to another.
LEMMA DowryIs ==
  ASSUME NEW w, IsWorld(w), WellFormed(w), NEW from \in Known(w), NEW to \in Known(w), from # to
  PROVE  LET v == PassDowry(w, from, to)
         IN  /\ IsWorld(v) /\ SamePeople(v, w) /\ v.residents = w.residents
             /\ v.tick = w.tick /\ Unbooked(v) = Unbooked(w)
<1> DEFINE b == w.orders
           o == w.step_events
           fam == w.families
           source == RowOfId(fam, from)
           target == RowOfId(fam, to)
           share == fam[source].pantry \div kDowryDivisor
           less == fam[source].pantry - share
           more == fam[target].pantry + share
           mid == [fam EXCEPT ![source].pantry = less]
           out == [mid EXCEPT ![target].pantry = more]
           v == [w EXCEPT !.families = out]
<1>1. /\ w \in WorldWith(b, o) /\ fam \in Seq(FamilyRow)
      /\ \A f \in DOMAIN fam : fam[f] \in FamilyRow
  BY WorldParts, WorldRows
<1>2. /\ source \in DOMAIN fam /\ target \in DOMAIN fam /\ source # target
  <2>1. source \in DOMAIN fam /\ fam[source].id = from
    BY RowOfIdFound DEF Known
  <2>2. target \in DOMAIN fam /\ fam[target].id = to
    BY RowOfIdFound DEF Known
  <2> HIDE DEF source, target
  <2> QED BY <2>1, <2>2
<1> HIDE DEF source, target
<1>3. fam[source].pantry \in Int /\ fam[target].pantry \in Int
  BY <1>1, <1>2 DEF FamilyRow
<1>4. share \in Int
  BY <1>3, ScaleAssumption
<1> HIDE DEF share
<1>5. less \in Int /\ more \in Int
  BY <1>3, <1>4
<1>6. PassDowry(w, from, to) = v
  <2>1. PassDowry(w, from, to)
          = [w EXCEPT !.families[source].pantry = @ - share, !.families[target].pantry = @ + share]
    BY DEF PassDowry, source, target, share
  <2>2. w = [w EXCEPT !.families = fam] /\ "families" \in DOMAIN w
    BY <1>1 DEF WorldWith
  <2> QED BY <1>2, <2>1, <2>2
<1> HIDE DEF less, more
<1>7. /\ mid \in Seq(FamilyRow) /\ DOMAIN mid = DOMAIN fam
      /\ \A f \in DOMAIN fam : mid[f].id = fam[f].id
      /\ \A f \in DOMAIN fam : f # source => mid[f] = fam[f]
      /\ Held(mid) = Held(fam) - fam[source].pantry + less
  <2>1. fam \in Seq(FamilyRow) /\ source \in DOMAIN fam /\ less \in Int
    BY <1>1, <1>2, <1>5
  <2> HIDE DEF fam
  <2> QED BY <2>1, HeldChanged
<1> HIDE DEF mid
<1>8. /\ out \in Seq(FamilyRow) /\ DOMAIN out = DOMAIN mid
      /\ \A f \in DOMAIN mid : out[f].id = mid[f].id
      /\ Held(out) = Held(mid) - mid[target].pantry + more
  <2>1. mid \in Seq(FamilyRow) /\ target \in DOMAIN mid /\ more \in Int
    BY <1>2, <1>5, <1>7
  <2> QED BY <2>1, HeldChanged
<1> HIDE DEF out
<1>9. Held(out) = Held(fam)
  <2>1. mid[target].pantry = fam[target].pantry /\ Held(fam) \in Int
    BY <1>1, <1>2, <1>7, HeldIs
  <2> QED BY <1>3, <1>4, <1>7, <1>8, <2>1, SMTT(30) DEF less, more
<1>10. /\ v \in WorldWith(b, o) /\ v.families = out /\ v.next_family = w.next_family
       /\ v.residents = w.residents /\ v.next_resident = w.next_resident
       /\ v.ledger = w.ledger /\ v.tick = w.tick
  <2>1. w \in WorldWith(b, o) /\ out \in Seq(FamilyRow)
    BY <1>1, <1>8
  <2> HIDE DEF b, o, fam
  <2> QED BY <2>1 DEF WorldWith
<1> HIDE DEF v
<1>11. IsWorld(v)
  BY <1>10, WorldIs
<1>12. SamePeople(v, w)
  BY <1>7, <1>8, <1>10 DEF SamePeople
<1>13. Unbooked(v) = Unbooked(w)
  BY <1>9, <1>10, StockIs DEF Unbooked
<1> QED BY <1>6, <1>10, <1>11, <1>12, <1>13

\* A new household: its row, empty.
LEMMA FoundedIs ==
  ASSUME NEW w, IsWorld(w), WellFormed(w)
  PROVE  LET home == w.next_family
             v == [w EXCEPT !.families = Append(@, [id |-> home, pantry |-> 0, mood |-> kMetricMax]),
                            !.next_family = @ + 1]
         IN  /\ IsWorld(v) /\ WellFormed(v) /\ v.residents = w.residents
             /\ home \notin Known(w) /\ Known(v) = Known(w) \cup {home}
             /\ v.tick = w.tick /\ Unbooked(v) = Unbooked(w)
<1> DEFINE b == w.orders
           o == w.step_events
           fam == w.families
           n == Len(fam)
           home == w.next_family
           row == [id |-> home, pantry |-> 0, mood |-> kMetricMax]
           out == Append(fam, row)
           next == home + 1
           v == [w EXCEPT !.families = out, !.next_family = next]
<1>1. /\ w \in WorldWith(b, o) /\ fam \in Seq(FamilyRow) /\ Once(fam)
      /\ \A f \in DOMAIN fam : fam[f] \in FamilyRow /\ fam[f].id < home
      /\ DOMAIN fam = 1..n /\ n \in Nat /\ home \in Nat /\ next \in Nat
  BY WorldParts, WorldRows, OnceIs
<1>2. row \in FamilyRow
  BY <1>1, ScaleAssumption DEF FamilyRow
<1>3. /\ out \in Seq(FamilyRow) /\ DOMAIN out = 1..(n + 1)
      /\ out[n + 1] = row /\ \A f \in 1..n : out[f] = fam[f]
  <2> HIDE DEF row, fam
  <2> QED BY <1>1, <1>2, AppendProperties
<1>4. Held(out) = Held(fam)
  <2>1. Held(out) = Held(fam) + row.pantry /\ Held(fam) \in Int
    <3> HIDE DEF row, fam
    <3> QED BY <1>1, <1>2, HeldAppended, HeldIs
  <2> QED BY <2>1
<1> HIDE DEF out
<1>5. /\ v \in WorldWith(b, o) /\ v.families = out /\ v.next_family = next
      /\ v.residents = w.residents /\ v.next_resident = w.next_resident
      /\ v.ledger = w.ledger /\ v.tick = w.tick
  <2>1. w \in WorldWith(b, o) /\ out \in Seq(FamilyRow) /\ next \in Nat
    BY <1>1, <1>3
  <2> HIDE DEF b, o, next
  <2> QED BY <2>1 DEF WorldWith
<1>6. v = [w EXCEPT !.families = Append(@, [id |-> home, pantry |-> 0, mood |-> kMetricMax]),
                    !.next_family = @ + 1]
  BY DEF out
<1> HIDE DEF v
<1>7. IsWorld(v)
  BY <1>5, WorldIs
<1>8. \A f \in DOMAIN out : f \in 1..n \/ f = n + 1
  BY <1>1, <1>3
<1>9. \A f \in 1..n : out[f].id \in Nat /\ out[f].id < home
  BY <1>1, <1>3 DEF FamilyRow
<1>10. out[n + 1].id = home
  BY <1>3
<1>11. WellFormed(v)
  <2>1. \A f \in DOMAIN out : out[f].id < next
    BY <1>1, <1>8, <1>9, <1>10
  <2>2. \A f, g \in 1..n : out[f].id = out[g].id => f = g
    BY <1>1, <1>3 DEF Once
  <2>3. \A f, g \in DOMAIN out : out[f].id = out[g].id => f = g
    <3>1. home \in Nat
      BY <1>1
    <3> HIDE DEF home, n
    <3> QED BY <1>8, <1>9, <1>10, <2>2, <3>1
  <2> QED BY <1>5, <2>1, <2>3 DEF WellFormed, IdsOnce
<1>12. home \notin Known(w)
  BY <1>1, SMTT(30) DEF Known, IdSet, FamilyRow
<1>13. Known(v) = Known(w) \cup {home}
  <2>1. \A f \in DOMAIN out : out[f].id \in Known(w) \cup {home}
    BY <1>1, <1>3, <1>8, <1>10 DEF Known, IdSet
  <2>2. \A f \in DOMAIN fam : \E g \in DOMAIN out : out[g].id = fam[f].id
    BY <1>1, <1>3
  <2>3. n + 1 \in DOMAIN out
    BY <1>1, <1>3
  <2> QED BY <1>5, <1>10, <2>1, <2>2, <2>3 DEF Known, IdSet
<1>14. Unbooked(v) = Unbooked(w)
  BY <1>4, <1>5, StockIs DEF Unbooked
<1> QED BY <1>5, <1>6, <1>7, <1>11, <1>12, <1>13, <1>14

\* The couple under one roof.
LEMMA MovedIs ==
  ASSUME NEW w, IsWorld(w), WellFormed(w), NEW people, people \subseteq IdSet(w.residents),
         people # {}, NEW home \in Nat, home \notin Yards(w)
  PROVE  LET v == MovedIn(w, people, home)
             were == {w.residents[RowOfId(w.residents, id)].family : id \in people}
         IN  /\ IsWorld(v) /\ WellFormed(v) /\ Known(v) = Known(w)
             /\ Yards(v) \subseteq Yards(w) \cup {home} /\ home \in Yards(v)
             /\ Yards(w) \subseteq Yards(v) \cup were
             /\ v.tick = w.tick /\ Unbooked(v) = Unbooked(w)
<1> DEFINE b == w.orders
           o == w.step_events
           rows == w.residents
           were == {rows[RowOfId(rows, id)].family : id \in people}
           out == [r \in DOMAIN rows |->
                     IF rows[r].id \in people THEN [rows[r] EXCEPT !.family = home] ELSE rows[r]]
           v == [w EXCEPT !.residents = out]
<1>1. /\ w \in WorldWith(b, o) /\ Once(rows)
      /\ \A r \in DOMAIN rows : rows[r] \in ResidentRow
      /\ DOMAIN rows = 1..Len(rows) /\ Len(rows) \in Nat
  BY WorldParts, WorldRows, OnceIs
<1>2. MovedIn(w, people, home) = v
  BY DEF MovedIn
<1>3. ASSUME NEW r \in DOMAIN rows
      PROVE  /\ out[r] \in ResidentRow /\ out[r].id = rows[r].id
             /\ out[r].family = IF rows[r].id \in people THEN home ELSE rows[r].family
  BY <1>1 DEF ResidentRow
<1>4. out \in Seq(ResidentRow) /\ DOMAIN out = DOMAIN rows
  <2>1. out \in [1..Len(rows) -> ResidentRow] /\ DOMAIN out = DOMAIN rows
    BY <1>1, <1>3
  <2> HIDE DEF out
  <2> QED BY <1>1, <2>1
<1> HIDE DEF out
<1>5. /\ v \in WorldWith(b, o) /\ v.residents = out /\ v.next_resident = w.next_resident
      /\ v.families = w.families /\ v.next_family = w.next_family
      /\ v.ledger = w.ledger /\ v.tick = w.tick
  <2>1. w \in WorldWith(b, o) /\ out \in Seq(ResidentRow)
    BY <1>1, <1>4
  <2> HIDE DEF b, o
  <2> QED BY <2>1 DEF WorldWith
<1> HIDE DEF v
<1>6. IsWorld(v)
  BY <1>5, WorldIs
<1>7. WellFormed(v) /\ Known(v) = Known(w)
  BY <1>3, <1>4, <1>5 DEF WellFormed, IdsOnce, Known
<1>8. Yards(v) \subseteq Yards(w) \cup {home}
  BY <1>3, <1>4, <1>5 DEF Yards
<1>9. home \in Yards(v)
  <2>1. PICK id \in people : id \in IdSet(rows)
    OBVIOUS
  <2>2. PICK r \in DOMAIN rows : rows[r].id = id
    BY <2>1 DEF IdSet
  <2>3. r \in DOMAIN out /\ out[r].family = home
    BY <1>3, <1>4, <2>1, <2>2
  <2> QED BY <1>5, <2>3 DEF Yards
<1>10. Yards(w) \subseteq Yards(v) \cup were
  <2> SUFFICES ASSUME NEW r \in DOMAIN rows
               PROVE  rows[r].family \in Yards(v) \cup were
    BY DEF Yards
  <2>1. CASE rows[r].id \notin people
    <3>1. r \in DOMAIN out /\ out[r].family = rows[r].family
      BY <1>3, <1>4, <2>1
    <3> QED BY <1>5, <3>1 DEF Yards
  <2>2. CASE rows[r].id \in people
    <3>1. RowOfId(rows, rows[r].id) \in DOMAIN rows
          /\ rows[RowOfId(rows, rows[r].id)].id = rows[r].id
      BY RowOfIdFound DEF IdSet
    <3>2. RowOfId(rows, rows[r].id) = r
      BY <1>1, <3>1 DEF Once
    <3> QED BY <2>2, <3>2
  <2> QED BY <2>1, <2>2
<1>11. Unbooked(v) = Unbooked(w)
  BY <1>5, StockIs DEF Unbooked
<1> QED BY <1>2, <1>5, <1>6, <1>7, <1>8, <1>9, <1>10, <1>11

\* A wedding into a new household.
LEMMA WedIs ==
  ASSUME NEW w, InOrder(w), NEW bride \in IdSet(w.residents), NEW groom \in IdSet(w.residents)
  PROVE  LET v == Wed(w, bride, groom)
         IN  InOrder(v) /\ v.tick = w.tick /\ Unbooked(v) = Unbooked(w)
<1> DEFINE rows == w.residents
           home == w.next_family
           was(id) == rows[RowOfId(rows, id)].family
           bw == was(bride)
           gw == was(groom)
           founded == [w EXCEPT !.families = Append(@, [id |-> home, pantry |-> 0, mood |-> kMetricMax]),
                                !.next_family = @ + 1]
           half == PassDowry(founded, bw, home)
           gifted == PassDowry(half, gw, home)
           people == {bride, groom}
           moved == MovedIn(gifted, people, home)
           once == DropFamilyIfEmpty(moved, bw)
           v == DropFamilyIfEmpty(once, gw)
<1>1. Wed(w, bride, groom) = v
  BY DEF Wed
<1>2. IsWorld(w) /\ WellFormed(w) /\ Yards(w) = Known(w) /\ home \in Nat
  BY HousedIs, WorldParts DEF InOrder
<1>3. bw \in Yards(w) /\ gw \in Yards(w)
  BY RowOfIdFound DEF Yards
<1> HIDE DEF bw, gw
<1>4. /\ IsWorld(founded) /\ WellFormed(founded) /\ founded.residents = rows
      /\ home \notin Known(w) /\ Known(founded) = Known(w) \cup {home}
      /\ founded.tick = w.tick /\ Unbooked(founded) = Unbooked(w)
  BY <1>2, FoundedIs
<1> HIDE DEF founded
<1>5. /\ IsWorld(half) /\ SamePeople(half, founded) /\ half.residents = rows
      /\ half.tick = w.tick /\ Unbooked(half) = Unbooked(w)
  <2>1. bw \in Known(founded) /\ home \in Known(founded) /\ bw # home
    BY <1>2, <1>3, <1>4
  <2> HIDE DEF home
  <2> QED BY <1>4, <2>1, DowryIs
<1>6. WellFormed(half) /\ Known(half) = Known(founded)
  BY <1>4, <1>5, SamePeopleStand
<1> HIDE DEF half
<1>7. /\ IsWorld(gifted) /\ SamePeople(gifted, half) /\ gifted.residents = rows
      /\ gifted.tick = w.tick /\ Unbooked(gifted) = Unbooked(w)
  <2>1. gw \in Known(half) /\ home \in Known(half) /\ gw # home
    BY <1>2, <1>3, <1>4, <1>6
  <2> HIDE DEF home
  <2> QED BY <1>5, <1>6, <2>1, DowryIs
<1>8. WellFormed(gifted) /\ Known(gifted) = Known(w) \cup {home} /\ Yards(gifted) = Yards(w)
  <2>1. WellFormed(gifted) /\ Known(gifted) = Known(half)
    BY <1>6, <1>7, SamePeopleStand
  <2> QED BY <1>4, <1>6, <1>7, <2>1 DEF Yards
<1> HIDE DEF gifted
<1> DEFINE were == {gifted.residents[RowOfId(gifted.residents, id)].family : id \in people}
<1>9. were = {bw, gw}
  BY <1>7 DEF bw, gw
<1>10. /\ IsWorld(moved) /\ WellFormed(moved) /\ Known(moved) = Known(gifted)
       /\ Yards(moved) \subseteq Yards(gifted) \cup {home} /\ home \in Yards(moved)
       /\ Yards(gifted) \subseteq Yards(moved) \cup were
       /\ moved.tick = gifted.tick /\ Unbooked(moved) = Unbooked(gifted)
  <2>1. people \subseteq IdSet(gifted.residents) /\ people # {} /\ home \notin Yards(gifted)
    BY <1>2, <1>4, <1>7, <1>8
  <2> HIDE DEF people, home
  <2> QED BY <1>2, <1>7, <1>8, <2>1, MovedIs
<1> HIDE DEF moved, were
<1>11. /\ IsWorld(once) /\ WellFormed(once) /\ Yards(once) = Yards(moved)
       /\ Known(once) = IF bw \in Yards(moved) THEN Known(moved) ELSE Known(moved) \ {bw}
       /\ once.tick = moved.tick /\ Unbooked(once) = Unbooked(moved)
  BY <1>10, DropIs
<1> HIDE DEF once
<1>12. /\ IsWorld(v) /\ WellFormed(v) /\ Yards(v) = Yards(once)
       /\ Known(v) = IF gw \in Yards(once) THEN Known(once) ELSE Known(once) \ {gw}
       /\ v.tick = once.tick /\ Unbooked(v) = Unbooked(once)
  BY <1>11, DropIs
<1> HIDE DEF v, home
<1>13. Known(moved) = Yards(moved) \cup {bw, gw}
  BY <1>2, <1>3, <1>8, <1>9, <1>10
<1>14. Yards(v) = Known(v)
  BY <1>11, <1>12, <1>13
<1>15. InOrder(v)
  BY <1>12, <1>14, HousedIs DEF InOrder
<1> QED BY <1>1, <1>7, <1>10, <1>11, <1>12, <1>15

\* What a day's demography may be told: quiet, or about people of the world.
Timely(w, turn) ==
  \/ turn.kind = "quiet"
  \/ turn.kind \in {"death", "birth"} /\ turn.who \in IdSet(w.residents)
  \/ turn.kind = "wedding" /\ turn.who \in IdSet(w.residents) /\ turn.with \in IdSet(w.residents)

\* The demography drawn for a day is about people of the world.
LEMMA TurnsAreTimely ==
  ASSUME NEW w, NEW chance \in Chances(w)
  PROVE  Timely(w, chance.turn)
<1> DEFINE ids == {w.residents[r].id : r \in DOMAIN w.residents}
<1>1. Timely(w, Quiet)
  BY DEF Timely, Quiet
<1>2. CASE Hour(w.tick + 1) = 0
  <2>1. chance.turn \in Turns(w)
    BY <1>2 DEF Chances
  <2>2. chance.turn = Quiet \/ chance.turn \in [kind : {"death", "birth"}, who : ids]
          \/ chance.turn \in [kind : {"wedding"}, who : ids, with : ids]
    BY <2>1 DEF Turns
  <2>3. ASSUME NEW turn \in [kind : {"death", "birth"}, who : ids]
        PROVE  Timely(w, turn)
    BY DEF Timely, IdSet
  <2>4. ASSUME NEW turn \in [kind : {"wedding"}, who : ids, with : ids]
        PROVE  Timely(w, turn)
    BY DEF Timely, IdSet
  <2> HIDE DEF ids
  <2> QED BY <1>1, <2>2, <2>3, <2>4
<1>3. CASE Hour(w.tick + 1) # 0
  BY <1>1, <1>3 DEF Chances
<1> QED BY <1>2, <1>3

\* Whatever the day's demography is, the world stays in order and every gram
\* of it is in a pantry or in the ledger.
LEMMA HappensIs ==
  ASSUME NEW w, InOrder(w), NEW turn, Timely(w, turn)
  PROVE  LET v == Happens(w, turn)
         IN  InOrder(v) /\ v.tick = w.tick /\ Unbooked(v) = Unbooked(w)
<1>1. CASE turn.kind = "quiet"
  <2>1. Happens(w, turn) = w
    BY <1>1 DEF Happens
  <2> QED BY <2>1
<1>2. CASE turn.kind = "death"
  <2>1. Happens(w, turn) = RemoveResident(w, turn.who) /\ turn.who \in IdSet(w.residents)
    BY <1>2 DEF Happens, Timely
  <2> QED BY <2>1, DeathIs
<1>3. CASE turn.kind = "birth"
  <2>1. Happens(w, turn) = Birth(w, turn.who) /\ turn.who \in IdSet(w.residents)
    BY <1>3 DEF Happens, Timely
  <2> QED BY <2>1, BirthIs
<1>4. CASE turn.kind = "wedding"
  <2>1. /\ Happens(w, turn) = Wed(w, turn.who, turn.with)
        /\ turn.who \in IdSet(w.residents) /\ turn.with \in IdSet(w.residents)
    BY <1>4 DEF Happens, Timely
  <2> QED BY <2>1, WedIs
<1> QED BY <1>1, <1>2, <1>3, <1>4 DEF Timely

\* The orders are answered and the people put to work, everybody in place.
LEMMA LabourIs ==
  ASSUME NEW w, InOrder(w), NEW chance
  PROVE  LET v == TakeOrders(Labour(w, chance))
         IN  /\ InOrder(v) /\ v.tick = w.tick /\ v.families = w.families /\ v.ledger = w.ledger
             /\ IdSet(v.residents) = IdSet(w.residents)
<1> DEFINE b == w.orders
           o == w.step_events
           rows == w.residents
           busy(r) == IF MealHour(w) THEN FALSE
                      ELSE IF NewDay(w) THEN rows[r].id = chance.heavy ELSE rows[r].heavy
           out == [r \in DOMAIN rows |-> [rows[r] EXCEPT !.heavy = busy(r)]]
           x == [w EXCEPT !.residents = out]
           v == TakeOrders(x)
<1>1. /\ w \in WorldWith(b, o) /\ DOMAIN rows = 1..Len(rows) /\ Len(rows) \in Nat
      /\ \A r \in DOMAIN rows : rows[r] \in ResidentRow
      /\ IsWorld(w) /\ WellFormed(w) /\ Housed(w)
  BY WorldParts, WorldRows DEF InOrder
<1>2. Labour(w, chance) = x
  BY DEF Labour
<1>3. ASSUME NEW r \in DOMAIN rows
      PROVE  /\ out[r] \in ResidentRow /\ out[r].id = rows[r].id
             /\ out[r].family = rows[r].family
  <2>1. rows[r] \in ResidentRow /\ rows[r].heavy \in BOOLEAN
    BY <1>1 DEF ResidentRow
  <2>2. busy(r) \in BOOLEAN
    BY <2>1
  <2>3. out[r] = [rows[r] EXCEPT !.heavy = busy(r)]
    OBVIOUS
  <2> HIDE DEF busy, rows, out
  <2> QED BY <2>1, <2>2, <2>3 DEF ResidentRow
<1>4. out \in Seq(ResidentRow) /\ DOMAIN out = DOMAIN rows
  <2>1. out \in [1..Len(rows) -> ResidentRow] /\ DOMAIN out = DOMAIN rows
    BY <1>1, <1>3
  <2> HIDE DEF out
  <2> QED BY <1>1, <2>1
<1> HIDE DEF out
<1>5. /\ x \in WorldWith(b, o) /\ x.residents = out /\ x.next_resident = w.next_resident
      /\ x.families = w.families /\ x.next_family = w.next_family
      /\ x.ledger = w.ledger /\ x.tick = w.tick
  <2>1. w \in WorldWith(b, o) /\ out \in Seq(ResidentRow)
    BY <1>1, <1>4
  <2> HIDE DEF b, o
  <2> QED BY <2>1 DEF WorldWith
<1> HIDE DEF x
<1>6. IsWorld(x)
  BY <1>5, WorldIs
<1> DEFINE answered == [r \in DOMAIN x.orders.rows |-> OrderTaken(x, x.orders.rows[r])]
<1>7. v = [x EXCEPT !.orders.rows = answered]
  BY DEF TakeOrders
<1> HIDE DEF answered
<1>8. /\ IsWorld(v) /\ v.families = x.families /\ v.next_family = x.next_family
      /\ v.residents = x.residents /\ v.next_resident = x.next_resident /\ v.tick = x.tick
      /\ v.ledger = x.ledger
  BY <1>6, <1>7, NewOrderRows
<1> HIDE DEF v
<1>9. SamePeople(v, w)
  BY <1>3, <1>4, <1>5, <1>8 DEF SamePeople
<1>10. InOrder(v) /\ IdSet(v.residents) = IdSet(w.residents)
  BY <1>1, <1>8, <1>9, SamePeopleStand DEF InOrder
<1> QED BY <1>2, <1>5, <1>8, <1>10 DEF v

\* The decisions slot keeps the world in order and its grams accounted for, and
\* moves no pantry but when a day begins.
LEMMA DecisionsIs ==
  ASSUME NEW w, InOrder(w), NEW chance, Timely(w, chance.turn)
  PROVE  LET v == Decisions(w, chance)
         IN  /\ InOrder(v) /\ v.tick = w.tick /\ Unbooked(v) = Unbooked(w)
             /\ ~NewDay(w) => v.families = w.families /\ v.ledger = w.ledger
<1> DEFINE x == TakeOrders(Labour(w, chance))
           v == Demography(x, chance)
<1>1. /\ InOrder(x) /\ x.tick = w.tick /\ x.families = w.families /\ x.ledger = w.ledger
      /\ IdSet(x.residents) = IdSet(w.residents)
  BY LabourIs
<1> HIDE DEF x
<1>2. Timely(x, chance.turn) /\ Unbooked(x) = Unbooked(w)
  BY <1>1, StockIs DEF Timely, Unbooked
<1>3. NewDay(x) = NewDay(w)
  BY <1>1 DEF NewDay
<1>4. CASE NewDay(w)
  <2>1. v = Happens(x, chance.turn)
    BY <1>3, <1>4 DEF Demography
  <2> HIDE DEF v
  <2>2. InOrder(v) /\ v.tick = x.tick /\ Unbooked(v) = Unbooked(x)
    BY <1>1, <1>2, <2>1, HappensIs
  <2>3. Decisions(w, chance) = v
    BY DEF Decisions, v, x
  <2> QED BY <1>1, <1>2, <1>4, <2>2, <2>3
<1>5. CASE ~NewDay(w)
  <2>1. Decisions(w, chance) = x
    BY <1>3, <1>5 DEF Decisions, Demography, x
  <2> QED BY <1>1, <1>2, <2>1
<1> QED BY <1>4, <1>5

-----------------------------------------------------------------------------
\* The families of a parallel phase's result.
LEMMA AtOnceFamilies ==
  ASSUME NEW duty \in Parallel, NEW prior, NEW w, IsWorld(w),
         NEW items, items \subseteq ItemsOf(duty, w)
  PROVE  AtOnce(duty, prior, w, items).families
         = Merged(w.families, FamilyParts(PartsOf(duty, prior, w, items)))
<1> DEFINE parts == PartsOf(duty, prior, w, items)
           fam == Merged(w.families, FamilyParts(parts))
           res == Merged(w.residents, ResidentParts(parts))
           fld == Merged(w.fields, FieldParts(parts))
           v == AtOnce(duty, prior, w, items)
<1>1. v = [w EXCEPT !.families = fam, !.residents = res, !.fields = fld]
  BY AtOnceIs
<1>2. w \in WorldWith(w.orders, w.step_events)
  BY WorldParts
<1> HIDE DEF v, fam, res, fld
<1>3. v.families = fam
  BY <1>1, <1>2 DEF WorldWith
<1> QED BY <1>3 DEF v, fam, parts

\* A phase outside its hour of the day leaves every pantry as it was.
LEMMA PantriesKept ==
  ASSUME NEW duty \in Parallel, NEW prior, NEW w, IsWorld(w),
         NEW items, items \subseteq ItemsOf(duty, w),
         duty = kNeeds => ~MealHour(w), duty = kMetrics => ~PlotHour(w)
  PROVE  Held(AtOnce(duty, prior, w, items).families) = Held(w.families)
<1> DEFINE v == AtOnce(duty, prior, w, items)
           parts == PartsOf(duty, prior, w, items)
           pieces == FamilyParts(parts)
           fam == w.families
<1>1. v.families = Merged(fam, pieces)
  BY AtOnceFamilies
<1>2. ASSUME NEW i \in items, NEW f \in DOMAIN ItemOf(duty, prior, w, i).families, f \in DOMAIN fam
      PROVE  ItemOf(duty, prior, w, i).families[f].pantry = fam[f].pantry
  <2>1. CASE duty = kNeeds
    <3>1. ItemOf(duty, prior, w, i) = NothingWritten
      BY <2>1 DEF ItemOf, FamilyMeal, kNeeds, kProduction, kMetrics
    <3> QED BY <1>2, <3>1 DEF NothingWritten, NoRows
  <2>2. CASE duty = kProduction
    <3>1. ItemOf(duty, prior, w, i).families = NoRows
      BY <2>2 DEF ItemOf, FieldGrowth, NothingWritten, kNeeds, kProduction, kMetrics
    <3> QED BY <1>2, <3>1 DEF NoRows
  <2>3. CASE duty = kMetrics
    <3> DEFINE joy == Mood(w, i)
    <3>1. fam[f] \in FamilyRow
      BY <1>2, WorldRows
    <3>2. ItemOf(duty, prior, w, i).families
            = [g \in {i} |-> [fam[i] EXCEPT !.pantry = @ + 0, !.mood = joy]]
      BY <2>3 DEF ItemOf, FamilyMetrics, PlotYield, kNeeds, kProduction, kMetrics
    <3> HIDE DEF joy, fam
    <3>3. f = i
      BY <1>2, <3>2
    <3>4. ItemOf(duty, prior, w, i).families[f] = [fam[f] EXCEPT !.pantry = @ + 0, !.mood = joy]
      BY <3>2, <3>3
    <3> QED BY <3>1, <3>4 DEF FamilyRow
  <2> QED BY <2>1, <2>2, <2>3 DEF Parallel
<1>3. \A i \in DOMAIN pieces : i \in items /\ pieces[i] = ItemOf(duty, prior, w, i).families
  BY DEF FamilyParts, PartsOf
<1>4. \A i \in items : Owns(w, i, ItemOf(duty, prior, w, i))
  BY ItemOwns
<1>5. \A i \in DOMAIN pieces : \A f \in DOMAIN pieces[i] :
        f \in DOMAIN fam => pieces[i][f] \in FamilyRow /\ pieces[i][f].pantry = fam[f].pantry
  BY <1>2, <1>3, <1>4 DEF Owns
<1>6. fam \in Seq(FamilyRow)
  BY WorldParts
<1> DEFINE out == Merged(fam, pieces)
<1> HIDE DEF pieces, fam
<1>7. /\ DOMAIN out = DOMAIN fam
      /\ \A f \in DOMAIN fam :
           \/ out[f] = fam[f]
           \/ \E i \in DOMAIN pieces : f \in DOMAIN pieces[i] /\ out[f] = pieces[i][f]
  BY <1>5, <1>6, MergedTable
<1> HIDE DEF out
<1>8. \A f \in DOMAIN fam : out[f].pantry = fam[f].pantry
  BY <1>5, <1>7
<1>9. Pantries(out) = Pantries(fam)
  BY <1>7, <1>8 DEF Pantries
<1> QED BY <1>1, <1>9 DEF Held, out, fam

\* The fold's sum over the rows of both buffers is what the pantries gained,
\* when no household came or went.
LEMMA FlowIs ==
  ASSUME NEW w, IsWorld(w), WellFormed(w), NEW m, IsWorld(m),
         DOMAIN m.families = DOMAIN w.families,
         \A f \in DOMAIN w.families : m.families[f].id = w.families[f].id
  PROVE  PantryFlow(w, m) = Held(m.families) - Held(w.families)
<1> DEFINE old == w.families
           new == m.families
           S == 1..Len(old)
           d == [f \in {g \in DOMAIN new : RowOfId(old, new[g].id) # kNoRow}
                   |-> new[f].pantry - PantryOf(w, new[f].id)]
<1>1. /\ DOMAIN old = S /\ DOMAIN new = S /\ Len(old) = Len(new) /\ Once(old)
      /\ kNoRow \notin S
      /\ old \in Seq(FamilyRow) /\ new \in Seq(FamilyRow)
  BY WorldRows, WorldParts, OnceIs DEF kNoRow
<1>2. \A f \in S : RowOfId(old, new[f].id) = f
  <2> SUFFICES ASSUME NEW f \in S PROVE RowOfId(old, new[f].id) = f
    OBVIOUS
  <2>1. new[f].id = old[f].id /\ new[f].id \in IdSet(old)
    BY <1>1 DEF IdSet
  <2>2. RowOfId(old, new[f].id) \in DOMAIN old /\ old[RowOfId(old, new[f].id)].id = new[f].id
    BY <2>1, RowOfIdFound
  <2> HIDE DEF old, new
  <2> QED BY <1>1, <2>1, <2>2 DEF Once
<1>3. DOMAIN d = S /\ \A f \in S : d[f] = new[f].pantry - old[f].pantry
  <2>1. \A f \in S : RowOfId(old, new[f].id) # kNoRow
    BY <1>1, <1>2
  <2>2. DOMAIN d = S
    BY <1>1, <2>1
  <2>3. \A f \in S : PantryOf(w, new[f].id) = old[f].pantry
    BY <1>2 DEF PantryOf
  <2> QED BY <1>1, <2>2, <2>3
<1>4. PantryFlow(w, m) = Total(d, S)
  BY <1>3, SumIsTotal DEF PantryFlow
<1>5. /\ IsFiniteSet(S) /\ Held(old) = Total(Pantries(old), S)
      /\ \A f \in S : Pantries(old)[f] = old[f].pantry /\ Pantries(old)[f] \in Int
  BY <1>1, HeldIs
<1>6. /\ Held(new) = Total(Pantries(new), S)
      /\ \A f \in S : Pantries(new)[f] = new[f].pantry /\ Pantries(new)[f] \in Int
  <2> HIDE DEF new
  <2>1. /\ Held(new) = Total(Pantries(new), 1..Len(new))
        /\ \A f \in 1..Len(new) : Pantries(new)[f] = new[f].pantry /\ Pantries(new)[f] \in Int
    BY <1>1, HeldIs
  <2> QED BY <1>1, <2>1
<1> DEFINE p == Pantries(new)
           q == Pantries(old)
<1>7. \A f \in S : p[f] \in Int /\ q[f] \in Int /\ d[f] = p[f] - q[f]
  BY <1>3, <1>5, <1>6
<1> HIDE DEF d, S, p, q, old, new
<1>8. Total(d, S) = Total(p, S) - Total(q, S)
  BY <1>5, <1>7, TotalDifference
<1> QED BY <1>4, <1>5, <1>6, <1>8 DEF p, q, old, new

-----------------------------------------------------------------------------
\* What a draw holds: a weather, and demography about people of the world.
LEMMA ChanceIs ==
  ASSUME NEW w, IsWorld(w), NEW chance \in Chances(w)
  PROVE  chance.weather \in Weather /\ Timely(w, chance.turn)
<1>1. Timely(w, chance.turn)
  BY TurnsAreTimely
<1>2. w.weather \in Weather
  BY WorldParts
<1>3. CASE Hour(w.tick + 1) = 0
  BY <1>1, <1>3 DEF Chances
<1>4. CASE Hour(w.tick + 1) # 0
  BY <1>1, <1>2, <1>4 DEF Chances
<1> QED BY <1>3, <1>4

\* A parallel phase's result is a world of the same people.
LEMMA AtOnceStands ==
  ASSUME NEW duty \in Parallel, NEW prior, NEW w, InOrder(w),
         NEW items, items \subseteq ItemsOf(duty, w)
  PROVE  LET v == AtOnce(duty, prior, w, items)
         IN  /\ InOrder(v) /\ SamePeople(v, w) /\ v.tick = w.tick /\ v.ledger = w.ledger
             /\ ItemsOf(duty, v) = ItemsOf(duty, w)
<1> DEFINE v == AtOnce(duty, prior, w, items)
<1>1. v \in WorldWith(w.orders, w.step_events) /\ KeptBut(v, w, items)
  BY AtOnceWorld DEF InOrder
<1> HIDE DEF v
<1>2. IsWorld(v) /\ SamePeople(v, w)
  BY <1>1, WorldIs DEF SamePeople, KeptBut
<1>3. WellFormed(v) /\ Housed(v)
  BY <1>2, SamePeopleStand DEF InOrder
<1>4. ItemsOf(duty, v) = ItemsOf(duty, w)
  BY <1>1 DEF KeptBut, ItemsOf, ItemCount
<1>5. v.tick = w.tick /\ v.ledger = w.ledger
  BY <1>1 DEF KeptBut
<1> QED BY <1>2, <1>3, <1>4, <1>5 DEF InOrder, v

\* The batch applied and the hour moved on, everybody in place.
LEMMA PrologueIs ==
  ASSUME NEW w, InOrder(w), NEW batch, NEW chance \in Chances(w)
  PROVE  LET x == Prologue(w, batch.issued, batch.cancelled)
             v == AfterTime(w, batch, chance)
         IN  /\ InOrder(x) /\ SamePeople(x, w) /\ x.families = w.families /\ x.ledger = w.ledger
             /\ x.tick = w.tick
             /\ InOrder(v) /\ SamePeople(v, w) /\ v.families = w.families /\ v.ledger = w.ledger
             /\ v.tick = w.tick + 1 /\ v.residents = w.residents
<1> DEFINE b == ApplyBatch(w.orders, batch.issued, batch.cancelled)
           o == <<>>
           x == [w EXCEPT !.step_events = o, !.orders = b]
           hour == w.tick + 1
           sky == chance.weather
           v == [x EXCEPT !.tick = hour, !.weather = sky]
<1>1. Prologue(w, batch.issued, batch.cancelled) = x /\ AfterTime(w, batch, chance) = v
  BY DEF Prologue, AfterTime, TimeAndWeather
<1>2. IsWorld(w) /\ WellFormed(w) /\ Housed(w) /\ hour \in Nat /\ sky \in Weather
  BY ChanceIs, WorldParts DEF InOrder
<1> HIDE DEF b, o, sky
<1>3. /\ x \in WorldWith(b, o) /\ x.families = w.families /\ x.next_family = w.next_family
      /\ x.residents = w.residents /\ x.next_resident = w.next_resident /\ x.tick = w.tick
      /\ x.ledger = w.ledger
  BY <1>2, NewOutbox
<1> HIDE DEF x, hour
<1>4. /\ v \in WorldWith(b, o) /\ v.families = x.families /\ v.next_family = x.next_family
      /\ v.residents = x.residents /\ v.next_resident = x.next_resident /\ v.tick = hour
      /\ v.ledger = x.ledger
  <2>1. x \in WorldWith(b, o) /\ hour \in Nat /\ sky \in Weather
    BY <1>2, <1>3
  <2> QED BY <2>1 DEF WorldWith
<1> HIDE DEF v
<1>5. IsWorld(x) /\ IsWorld(v)
  BY <1>3, <1>4, WorldIs
<1>6. SamePeople(x, w) /\ SamePeople(v, w)
  BY <1>3, <1>4 DEF SamePeople
<1>7. InOrder(x) /\ InOrder(v)
  BY <1>2, <1>5, <1>6, SamePeopleStand DEF InOrder
<1> QED BY <1>1, <1>3, <1>4, <1>6, <1>7 DEF hour

\* Every phase begins with a world in order, an hour after the completed one.
LEMMA PhasesStand ==
  ASSUME NEW w, InOrder(w), NEW batch, NEW chance \in Chances(w)
  PROVE  LET t == AfterTime(w, batch, chance)
             n == AfterNeeds(w, batch, chance)
             d == AfterDecisions(w, batch, chance)
             p == AfterProduction(w, batch, chance)
             m == AfterMetrics(w, batch, chance)
         IN  /\ InOrder(t) /\ t.tick = w.tick + 1 /\ SamePeople(t, w)
             /\ InOrder(n) /\ n.tick = w.tick + 1 /\ SamePeople(n, w) /\ n.ledger = w.ledger
             /\ InOrder(d) /\ d.tick = w.tick + 1 /\ Unbooked(d) = Unbooked(n)
             /\ ~NewDay(n) => d.families = n.families /\ d.ledger = n.ledger
             /\ InOrder(p) /\ p.tick = w.tick + 1 /\ SamePeople(p, d) /\ p.ledger = d.ledger
             /\ InOrder(m) /\ m.tick = w.tick + 1 /\ SamePeople(m, p) /\ m.ledger = p.ledger
<1> DEFINE t == AfterTime(w, batch, chance)
           n == AtOnce(kNeeds, w, t, ItemsOf(kNeeds, t))
           d == Decisions(n, chance)
           p == AtOnce(kProduction, w, d, ItemsOf(kProduction, d))
           m == AtOnce(kMetrics, w, p, ItemsOf(kMetrics, p))
<1>1. /\ AfterNeeds(w, batch, chance) = n /\ AfterDecisions(w, batch, chance) = d
      /\ AfterProduction(w, batch, chance) = p /\ AfterMetrics(w, batch, chance) = m
  BY DEF AfterNeeds, AfterDecisions, AfterProduction, AfterMetrics
<1>2. kNeeds \in Parallel /\ kProduction \in Parallel /\ kMetrics \in Parallel
  BY DEF Parallel
<1>3. InOrder(t) /\ SamePeople(t, w) /\ t.tick = w.tick + 1 /\ t.ledger = w.ledger
  BY PrologueIs
<1> HIDE DEF t
<1>4. InOrder(n) /\ SamePeople(n, t) /\ n.tick = t.tick /\ n.ledger = t.ledger
  BY <1>2, <1>3, AtOnceStands
<1> HIDE DEF n
<1>5. SamePeople(n, w)
  BY <1>3, <1>4 DEF SamePeople
<1>6. Timely(n, chance.turn)
  <2>1. Timely(w, chance.turn) /\ IdSet(n.residents) = IdSet(w.residents)
    BY <1>5, ChanceIs, SamePeopleStand DEF InOrder
  <2> QED BY <2>1 DEF Timely
<1>7. /\ InOrder(d) /\ d.tick = n.tick /\ Unbooked(d) = Unbooked(n)
      /\ ~NewDay(n) => d.families = n.families /\ d.ledger = n.ledger
  BY <1>4, <1>6, DecisionsIs
<1> HIDE DEF d
<1>8. InOrder(p) /\ SamePeople(p, d) /\ p.tick = d.tick /\ p.ledger = d.ledger
  BY <1>2, <1>7, AtOnceStands
<1> HIDE DEF p
<1>9. InOrder(m) /\ SamePeople(m, p) /\ m.tick = p.tick /\ m.ledger = p.ledger
  BY <1>2, <1>8, AtOnceStands
<1> HIDE DEF m
<1> QED BY <1>1, <1>3, <1>4, <1>5, <1>7, <1>8, <1>9 DEF t

-----------------------------------------------------------------------------
\* The fold books exactly what the step's other phases did to the pantries.
LEMMA StepStands ==
  ASSUME NEW w, InOrder(w), NEW batch, NEW chance \in Chances(w)
  PROVE  LET v == StepOf(w, batch, chance)
         IN  InOrder(v) /\ v.tick = w.tick + 1 /\ Unbooked(v) = Unbooked(w)
<1> DEFINE t == AfterTime(w, batch, chance)
           n == AfterNeeds(w, batch, chance)
           d == AfterDecisions(w, batch, chance)
           p == AfterProduction(w, batch, chance)
           m == AfterMetrics(w, batch, chance)
           v == StepOf(w, batch, chance)
           book == FoldPantryFlows(w, m)
           flow == PantryFlow(w, m)
<1>1. /\ InOrder(t) /\ t.tick = w.tick + 1 /\ SamePeople(t, w) /\ t.families = w.families
      /\ InOrder(n) /\ n.tick = w.tick + 1 /\ SamePeople(n, w) /\ n.ledger = w.ledger
      /\ InOrder(d) /\ d.tick = w.tick + 1 /\ Unbooked(d) = Unbooked(n)
      /\ ~NewDay(n) => d.families = n.families /\ d.ledger = n.ledger
      /\ InOrder(p) /\ p.tick = w.tick + 1 /\ SamePeople(p, d) /\ p.ledger = d.ledger
      /\ InOrder(m) /\ m.tick = w.tick + 1 /\ SamePeople(m, p) /\ m.ledger = p.ledger
  BY PhasesStand, PrologueIs
<1>2. /\ ~MealHour(t) => Held(n.families) = Held(t.families)
      /\ Held(p.families) = Held(d.families)
      /\ ~PlotHour(p) => Held(m.families) = Held(p.families)
  <2>1. /\ n = AtOnce(kNeeds, w, t, ItemsOf(kNeeds, t))
        /\ p = AtOnce(kProduction, w, d, ItemsOf(kProduction, d))
        /\ m = AtOnce(kMetrics, w, p, ItemsOf(kMetrics, p))
    BY DEF AfterNeeds, AfterProduction, AfterMetrics
  <2>2. /\ kNeeds \in Parallel /\ kProduction \in Parallel /\ kMetrics \in Parallel
        /\ kNeeds # kMetrics /\ kNeeds # kProduction /\ kMetrics # kProduction
    BY DEF Parallel, kNeeds, kProduction, kMetrics
  <2>3. IsWorld(t) /\ IsWorld(d) /\ IsWorld(p)
    BY <1>1 DEF InOrder
  <2> HIDE DEF t, n, d, p, m
  <2>4. ~MealHour(t) => Held(n.families) = Held(t.families)
    BY <2>1, <2>2, <2>3, PantriesKept
  <2>5. Held(p.families) = Held(d.families)
    BY <2>1, <2>2, <2>3, PantriesKept
  <2>6. ~PlotHour(p) => Held(m.families) = Held(p.families)
    BY <2>1, <2>2, <2>3, PantriesKept
  <2> QED BY <2>4, <2>5, <2>6
<1>3. v = Events(w, m)
  BY DEF StepOf
<1> HIDE DEF t, n, d, p, m, v
<1>4. InOrder(w) /\ w.tick \in Nat /\ IsWorld(w) /\ WellFormed(w) /\ IsWorld(m)
  BY <1>1, WorldParts DEF InOrder
<1> DEFINE now == w.tick + 1
<1>5. /\ NewDay(n) <=> Hour(now) = 0
      /\ MealHour(t) <=> Hour(now) = kTicksPerDay - 1
      /\ PlotHour(p) <=> Hour(now) = kTicksPerDay - 2
      /\ MealHour(m) <=> Hour(now) = kTicksPerDay - 1
      /\ PlotHour(m) <=> Hour(now) = kTicksPerDay - 2
  BY <1>1 DEF NewDay, MealHour, PlotHour
<1>6. /\ w.ledger.harvest \in Int /\ w.ledger.eaten \in Int /\ w.ledger.lost \in Int
      /\ m.ledger.harvest \in Int /\ m.ledger.eaten \in Int /\ m.ledger.lost \in Int
      /\ m.ledger \in [harvest : Int, eaten : Int, lost : Int]
  BY <1>4, WorldParts
<1>7. Held(w.families) \in Int /\ Held(n.families) \in Int /\ Held(m.families) \in Int
  <2>1. IsWorld(n)
    BY <1>1 DEF InOrder
  <2>2. /\ w.families \in Seq(FamilyRow) /\ n.families \in Seq(FamilyRow)
        /\ m.families \in Seq(FamilyRow)
    BY <1>4, <2>1, WorldParts
  <2> QED BY <2>2, HeldIs
<1>8. ~NewDay(n) => flow = Held(m.families) - Held(w.families)
  <2> SUFFICES ASSUME ~NewDay(n) PROVE flow = Held(m.families) - Held(w.families)
    OBVIOUS
  <2>1. /\ DOMAIN m.families = DOMAIN p.families
        /\ \A f \in DOMAIN p.families : m.families[f].id = p.families[f].id
        /\ DOMAIN p.families = DOMAIN d.families
        /\ \A f \in DOMAIN d.families : p.families[f].id = d.families[f].id
        /\ d.families = n.families
        /\ DOMAIN n.families = DOMAIN w.families
        /\ \A f \in DOMAIN w.families : n.families[f].id = w.families[f].id
    BY <1>1 DEF SamePeople
  <2>2. /\ DOMAIN m.families = DOMAIN w.families
        /\ \A f \in DOMAIN w.families : m.families[f].id = w.families[f].id
    BY <2>1
  <2> QED BY <1>4, <2>2, FlowIs
<1>9. /\ book \in [harvest : Int, eaten : Int, lost : Int]
      /\ Held(m.families) - book.harvest + book.eaten + book.lost = Unbooked(w)
  <2>1. /\ Unbooked(w) = Held(w.families) - w.ledger.harvest + w.ledger.eaten + w.ledger.lost
        /\ Unbooked(n) = Held(n.families) - w.ledger.harvest + w.ledger.eaten + w.ledger.lost
        /\ Unbooked(d) = Held(d.families) - m.ledger.harvest + m.ledger.eaten + m.ledger.lost
    BY <1>1, StockIs DEF Unbooked
  <2> DEFINE before == Held(w.families)
             after == Held(m.families)
             l == m.ledger
  <2>2. before \in Int /\ after \in Int /\ l \in [harvest : Int, eaten : Int, lost : Int]
        /\ l.harvest \in Int /\ l.eaten \in Int /\ l.lost \in Int
    BY <1>6, <1>7
  <2>3. CASE Hour(now) = 0
    <3>1. ~MealHour(t) /\ ~PlotHour(p) /\ ~MealHour(m) /\ ~PlotHour(m)
      BY <1>5, <2>3, ClockAssumption
    <3>2. book = m.ledger
      BY <3>1 DEF FoldPantryFlows
    <3>3. Unbooked(n) = Unbooked(w) /\ Held(m.families) = Held(d.families)
      BY <1>1, <1>2, <2>1, <3>1
    <3> HIDE DEF book
    <3> QED BY <1>1, <1>6, <2>1, <3>2, <3>3
  <2>4. CASE Hour(now) # 0
    <3>1. m.ledger = w.ledger /\ flow = after - before
      BY <1>1, <1>5, <1>8, <2>4
    <3> HIDE DEF flow
    <3>2. CASE PlotHour(m)
      <4>1. book = [l EXCEPT !.harvest = @ + flow]
        <5>1. ~MealHour(m)
          BY <1>5, <3>2, ClockAssumption
        <5> QED BY <3>2, <5>1 DEF FoldPantryFlows, flow
      <4> HIDE DEF book, before, after, l
      <4>2. flow \in Int
        BY <2>2, <3>1
      <4>3. /\ book \in [harvest : Int, eaten : Int, lost : Int]
            /\ book.harvest = l.harvest + flow /\ book.eaten = l.eaten /\ book.lost = l.lost
        BY <2>2, <4>1, <4>2
      <4>4. after - book.harvest + book.eaten + book.lost
            = before - l.harvest + l.eaten + l.lost
        BY <2>2, <3>1, <4>3
      <4> QED BY <2>1, <3>1, <4>3, <4>4 DEF before, after, l
    <3>3. CASE MealHour(m)
      <4>1. book = [l EXCEPT !.eaten = @ - flow]
        <5>1. ~PlotHour(m)
          BY <1>5, <3>3, ClockAssumption
        <5> QED BY <3>3, <5>1 DEF FoldPantryFlows, flow
      <4> HIDE DEF book, before, after, l
      <4>2. flow \in Int
        BY <2>2, <3>1
      <4>3. /\ book \in [harvest : Int, eaten : Int, lost : Int]
            /\ book.harvest = l.harvest /\ book.eaten = l.eaten - flow /\ book.lost = l.lost
        BY <2>2, <4>1, <4>2
      <4>4. after - book.harvest + book.eaten + book.lost
            = before - l.harvest + l.eaten + l.lost
        BY <2>2, <3>1, <4>3
      <4> QED BY <2>1, <3>1, <4>3, <4>4 DEF before, after, l
    <3>4. CASE ~PlotHour(m) /\ ~MealHour(m)
      <4>1. book = l
        BY <3>4 DEF FoldPantryFlows
      <4>2. after = before
        BY <1>1, <1>2, <1>5, <2>4, <3>4
      <4> HIDE DEF book
      <4> QED BY <2>1, <2>2, <3>1, <4>1, <4>2
    <3> QED BY <3>2, <3>3, <3>4
  <2> QED BY <2>3, <2>4
<1> DEFINE b == SweptBook(m.orders)
           o == m.step_events \o Answers(m.orders)
<1>10. v = [m EXCEPT !.ledger = book, !.orders = b, !.step_events = o]
  BY <1>3 DEF Events
<1> HIDE DEF book, b, o
<1>11. /\ v \in WorldWith(b, o) /\ v.families = m.families /\ v.next_family = m.next_family
       /\ v.residents = m.residents /\ v.next_resident = m.next_resident /\ v.tick = m.tick
       /\ v.ledger = book
  <2>1. IsWorld(m) /\ book \in [harvest : Int, eaten : Int, lost : Int]
    BY <1>4, <1>9
  <2> QED BY <2>1, <1>10 DEF IsWorld, WorldWith
<1>12. IsWorld(v) /\ SamePeople(v, m)
  <2>1. IsWorld(v)
    BY <1>11, WorldIs
  <2>2. SamePeople(v, m)
    BY <1>11 DEF SamePeople
  <2> QED BY <2>1, <2>2
<1>13. InOrder(v)
  BY <1>1, <1>12, SamePeopleStand DEF InOrder
<1>14. Unbooked(v) = Held(m.families) - book.harvest + book.eaten + book.lost
  BY <1>11, StockIs DEF Unbooked
<1> QED BY <1>1, <1>9, <1>11, <1>13, <1>14 DEF v

-----------------------------------------------------------------------------
\* The world a slot begins with, told from the completed one.
Begun(p, w, batch, chance) ==
  CASE p = kTimeAndWeather -> Prologue(w, batch.issued, batch.cancelled)
    [] p = kNeeds          -> AfterTime(w, batch, chance)
    [] p = kDecisions      -> AfterNeeds(w, batch, chance)
    [] p = kProduction     -> AfterDecisions(w, batch, chance)
    [] p = kMetrics        -> AfterProduction(w, batch, chance)
    [] p = kEvents         -> AfterMetrics(w, batch, chance)

Start == Begun(phase, previous, drawn.batch, drawn.chance)

Slots == Parallel \cup {kTimeAndWeather, kDecisions, kEvents}

\* The items a worker is still to write, and those nobody has written yet.
Owed(h) == IF h = Free THEN {} ELSE Items(h)

Owing(R, H) == (UNION {Items(range) : range \in R}) \cup (UNION {Owed(H[w]) : w \in Worker})

\* No item is in two ranges, in two hands, or in a range and a hand.
Apart(R, H) ==
  /\ \A r, s \in R : \A i \in Items(r) : i \in Items(s) => r = s
  /\ \A v, w \in Worker : \A i \in Owed(H[v]) : i \in Owed(H[w]) => v = w
  /\ \A w \in Worker, r \in R : \A i \in Owed(H[w]) : i \notin Items(r)

IsRange(r, n) == r.at \in 1..n /\ r.end \in 1..n /\ r.at <= r.end /\ r = Stretch(r.at, r.end)

\* What a worker may have in hand: nothing, a range, or a range with what its
\* first item makes of the world the slot began with.
IsHold(h, n, p, w, start) ==
  \/ h = Free
  \/ /\ h.at \in 1..n /\ h.end \in 1..n /\ h.at <= h.end
     /\ \/ h = Stretch(h.at, h.end)
        \/ h = [at |-> h.at, end |-> h.end, part |-> ItemOf(p, w, start, h.at)]

\* Half-way through a parallel slot: the world is the one the slot began with,
\* all the items done at once that nobody owes.
Halfway(p, w, start, world, R, H) ==
  /\ \A range \in R : IsRange(range, ItemCount(p, start))
  /\ \A v \in Worker : IsHold(H[v], ItemCount(p, start), p, w, start)
  /\ Apart(R, H)
  /\ world = AtOnce(p, w, start, ItemsOf(p, start) \ Owing(R, H))

Sound ==
  /\ InOrder(previous)
  /\ \E w \in Genesis : Unbooked(previous) = Unbooked(w)
  /\ phase \in Slots \cup {kIdle}
  /\ DOMAIN hold = Worker

Begins ==
  phase # kIdle => staged = EmptyBatch /\ drawn.chance \in Chances(previous)

EngineInv ==
  /\ Sound
  /\ Begins
  /\ phase \notin Parallel => AllDone
  /\ phase \in {kTimeAndWeather, kDecisions, kEvents} => current = Start
  /\ phase \in Parallel => Halfway(phase, previous, Start, current, ranges, hold)

-----------------------------------------------------------------------------
\* A slot's items are numbered from one.
LEMMA CountIsNat ==
  ASSUME NEW p, NEW start, IsWorld(start)
  PROVE  ItemCount(p, start) \in Nat /\ ItemsOf(p, start) = 1..ItemCount(p, start)
  BY WorldRows DEF ItemCount, ItemsOf

\* However a task set is cut, every item is in one range.
LEMMA CutsCover ==
  ASSUME NEW n \in Nat, NEW cut \in Cuts(n)
  PROVE  /\ \A r \in cut : IsRange(r, n)
         /\ \A r, s \in cut : \A i \in Items(r) : i \in Items(s) => r = s
         /\ UNION {Items(r) : r \in cut} = 1..n
<1>1. CASE Cardinality(Worker) = 1 /\ n > 0
  <2>1. cut = {Stretch(1, n)}
    BY <1>1 DEF Cuts
  <2>2. IsRange(Stretch(1, n), n) /\ Items(Stretch(1, n)) = 1..n
    BY <1>1 DEF IsRange, Stretch, Items
  <2> QED BY <2>1, <2>2
<1>2. CASE ~(Cardinality(Worker) = 1 /\ n > 0)
  <2>1. /\ cut \subseteq {range \in [at : 1..n, end : 1..n] : range.at <= range.end}
        /\ \A i \in 1..n : \E range \in cut :
             i \in Items(range) /\ \A other \in cut : i \in Items(other) => other = range
    BY <1>2 DEF Cuts
  <2>2. ASSUME NEW r \in cut
        PROVE  IsRange(r, n) /\ Items(r) \subseteq 1..n
    <3>1. r \in [at : 1..n, end : 1..n] /\ r.at <= r.end
      BY <2>1
    <3>2. r = [at |-> r.at, end |-> r.end]
      BY <3>1
    <3> QED BY <3>1, <3>2 DEF IsRange, Stretch, Items
  <2>3. \A r, s \in cut : \A i \in Items(r) : i \in Items(s) => r = s
    BY <2>1, <2>2
  <2>4. UNION {Items(r) : r \in cut} = 1..n
    BY <2>1, <2>2
  <2> QED BY <2>2, <2>3, <2>4
<1> QED BY <1>1, <1>2

\* One worker's hand changes, and perhaps the range he took is gone.
LEMMA RangeTaken ==
  ASSUME NEW R, NEW H, DOMAIN H = Worker, Apart(R, H), NEW v \in Worker, H[v] = Free,
         NEW r \in R,
         NEW G, Owed(G[v]) = Items(r), \A u \in Worker : u # v => G[u] = H[u]
  PROVE  Apart(R \ {r}, G) /\ Owing(R \ {r}, G) = Owing(R, H)
<1>1. Owed(G[v]) = Items(r) /\ \A u \in Worker : u # v => G[u] = H[u]
  OBVIOUS
<1>2. Owed(H[v]) = {}
  BY DEF Owed
<1>3. Apart(R \ {r}, G)
  BY <1>1, <1>2 DEF Apart
<1>4. Owing(R \ {r}, G) = Owing(R, H)
  <2>1. ASSUME NEW i \in Owing(R, H) PROVE i \in Owing(R \ {r}, G)
    <3>1. CASE \E s \in R : i \in Items(s)
      BY <1>1, <3>1 DEF Owing
    <3>2. CASE \E u \in Worker : i \in Owed(H[u])
      BY <1>1, <1>2, <3>2 DEF Owing
    <3> QED BY <2>1, <3>1, <3>2 DEF Owing
  <2>2. ASSUME NEW i \in Owing(R \ {r}, G) PROVE i \in Owing(R, H)
    <3>1. CASE \E s \in R \ {r} : i \in Items(s)
      BY <3>1 DEF Owing
    <3>2. CASE \E u \in Worker : i \in Owed(G[u])
      BY <1>1, <3>2 DEF Owing
    <3> QED BY <2>2, <3>1, <3>2 DEF Owing
  <2> QED BY <2>1, <2>2
<1> QED BY <1>3, <1>4

\* One worker's hand changes and owes some items less: nothing is owed twice,
\* and those items are owed no more.
LEMMA HandChanged ==
  ASSUME NEW R, NEW H, DOMAIN H = Worker, Apart(R, H), NEW v \in Worker,
         NEW gone, gone \subseteq Owed(H[v]),
         NEW G, Owed(G[v]) = Owed(H[v]) \ gone, \A u \in Worker : u # v => G[u] = H[u]
  PROVE  Apart(R, G) /\ Owing(R, G) = Owing(R, H) \ gone
<1>1. Owed(G[v]) = Owed(H[v]) \ gone /\ \A u \in Worker : u # v => G[u] = H[u]
  OBVIOUS
<1>2. Apart(R, G)
  BY <1>1 DEF Apart
<1>3. Owing(R, G) = Owing(R, H) \ gone
  <2>1. ASSUME NEW i \in Owing(R, H), i \notin gone PROVE i \in Owing(R, G)
    <3>1. CASE \E s \in R : i \in Items(s)
      BY <3>1 DEF Owing
    <3>2. CASE \E u \in Worker : i \in Owed(H[u])
      BY <1>1, <2>1, <3>2 DEF Owing
    <3> QED BY <2>1, <3>1, <3>2 DEF Owing
  <2>2. ASSUME NEW i \in Owing(R, G) PROVE i \in Owing(R, H) /\ i \notin gone
    <3>1. CASE \E s \in R : i \in Items(s)
      <4>1. i \in Owing(R, H)
        BY <3>1 DEF Owing
      <4>2. i \notin Owed(H[v])
        BY <3>1 DEF Apart
      <4> QED BY <4>1, <4>2
    <3>2. CASE \E u \in Worker : i \in Owed(G[u])
      <4>1. PICK u \in Worker : i \in Owed(G[u])
        BY <3>2
      <4>2. i \in Owed(H[u])
        BY <1>1, <4>1
      <4>3. i \in Owing(R, H)
        BY <4>2 DEF Owing
      <4>4. i \notin gone
        BY <1>1, <4>1, <4>2 DEF Apart
      <4> QED BY <4>3, <4>4
    <3> QED BY <2>2, <3>1, <3>2 DEF Owing
  <2> QED BY <2>1, <2>2
<1> QED BY <1>2, <1>3

-----------------------------------------------------------------------------
\* What a worker has in hand, and what the next item makes of it.
LEMMA HoldIs ==
  ASSUME NEW n \in Nat, NEW p, NEW w, NEW start, NEW h, IsHold(h, n, p, w, start)
  PROVE  /\ h # Free => /\ h.at \in 1..n /\ h.end \in 1..n /\ h.at <= h.end
                        /\ h.at \in Items(h) /\ Items(h) \subseteq 1..n
                        /\ Owed(h) = Items(h)
         /\ "part" \in DOMAIN h => h # Free /\ h.part = ItemOf(p, w, start, h.at)
<1>1. h # Free => h.at \in 1..n /\ h.end \in 1..n /\ h.at <= h.end
  BY DEF IsHold
<1>2. h # Free => h.at \in Items(h) /\ Items(h) \subseteq 1..n /\ Owed(h) = Items(h)
  BY <1>1 DEF Items, Owed
<1>3. "part" \in DOMAIN h => h # Free /\ h.part = ItemOf(p, w, start, h.at)
  <2> DEFINE part == ItemOf(p, w, start, h.at)
  <2>1. "part" \notin DOMAIN Free
    BY DEF Free
  <2>2. "part" \notin DOMAIN Stretch(h.at, h.end)
    BY DEF Stretch
  <2>3. h = [at |-> h.at, end |-> h.end, part |-> part] => h.part = part
    <3> HIDE DEF part
    <3> QED OBVIOUS
  <2>4. h = Free \/ h = Stretch(h.at, h.end) \/ h = [at |-> h.at, end |-> h.end, part |-> part]
    BY DEF IsHold
  <2> HIDE DEF part
  <2>5. ("part" \in DOMAIN h) => h # Free /\ h.part = part
    BY <2>1, <2>2, <2>3, <2>4
  <2> QED BY <2>5 DEF part
<1> QED BY <1>1, <1>2, <1>3

\* A range with its first item read for is a hand, and owes the whole range.
LEMMA ClaimIs ==
  ASSUME NEW n \in Nat, NEW p, NEW w, NEW start, NEW a \in 1..n, NEW b \in 1..n, a <= b
  PROVE  LET h == [at |-> a, end |-> b, part |-> ItemOf(p, w, start, a)]
         IN  IsHold(h, n, p, w, start) /\ Owed(h) = a..b
<1> DEFINE part == ItemOf(p, w, start, a)
           h == [at |-> a, end |-> b, part |-> part]
<1> HIDE DEF part
<1>1. h.at = a /\ h.end = b /\ h.part = part /\ "part" \in DOMAIN h
  OBVIOUS
<1>2. h # Free
  BY <1>1 DEF Free
<1>3. Owed(h) = a..b
  BY <1>1, <1>2 DEF Owed, Items
<1>4. IsHold(h, n, p, w, start)
  BY <1>1 DEF IsHold, part
<1> QED BY <1>3, <1>4 DEF part

\* A hand after a write: the rest of the range, or free at its end.
LEMMA NextItemIs ==
  ASSUME NEW n \in Nat, NEW p, NEW w, NEW start, NEW h,
         h.at \in 1..n, h.end \in 1..n, h.at <= h.end
  PROVE  IsHold(NextItem(h), n, p, w, start) /\ Owed(NextItem(h)) = Items(h) \ {h.at}
<1>1. CASE h.at = h.end
  BY <1>1 DEF NextItem, IsHold, Owed, Items
<1>2. CASE h.at # h.end
  <2> DEFINE g == Stretch(h.at + 1, h.end)
  <2>1. g.at = h.at + 1 /\ g.end = h.end /\ g # Free /\ g = Stretch(g.at, g.end)
    BY DEF Stretch, Free
  <2>2. NextItem(h) = g
    BY <1>2 DEF NextItem
  <2> HIDE DEF g
  <2> QED BY <1>2, <2>1, <2>2 DEF IsHold, Owed, Items
<1> QED BY <1>1, <1>2

-----------------------------------------------------------------------------
\* A slot begins with every item owed, however the task set was cut.
LEMMA HalfwayBegins ==
  ASSUME NEW p \in Parallel, NEW w, NEW start, IsWorld(start),
         NEW R \in Cuts(ItemCount(p, start)), NEW H, \A v \in Worker : H[v] = Free
  PROVE  Halfway(p, w, start, start, R, H)
<1> DEFINE n == ItemCount(p, start)
<1>1. n \in Nat /\ ItemsOf(p, start) = 1..n
  BY CountIsNat
<1> HIDE DEF n
<1>2. /\ \A r \in R : IsRange(r, n)
      /\ \A r, s \in R : \A i \in Items(r) : i \in Items(s) => r = s
      /\ UNION {Items(r) : r \in R} = 1..n
  BY <1>1, CutsCover DEF n
<1>3. \A v \in Worker : IsHold(H[v], n, p, w, start) /\ Owed(H[v]) = {}
  BY DEF IsHold, Owed
<1>4. Apart(R, H) /\ Owing(R, H) = 1..n
  BY <1>2, <1>3 DEF Apart, Owing
<1>5. start = AtOnce(p, w, start, ItemsOf(p, start) \ Owing(R, H))
  <2>1. ItemsOf(p, start) \ Owing(R, H) = {}
    BY <1>1, <1>4
  <2> QED BY <2>1, AtOnceNone
<1> QED BY <1>2, <1>3, <1>4, <1>5 DEF Halfway, n

\* What a worker reads for an item he owes, whatever the others have written
\* by then, is what the item makes of the world the slot began with.
LEMMA ReadsTheStart ==
  ASSUME NEW p \in Parallel, NEW w, NEW start, IsWorld(start), Once(start.families),
         NEW world, NEW R, NEW H, Halfway(p, w, start, world, R, H),
         NEW i \in ItemsOf(p, start), i \in Owing(R, H)
  PROVE  ItemOf(p, w, world, i) = ItemOf(p, w, start, i)
<1> DEFINE done == ItemsOf(p, start) \ Owing(R, H)
<1>1. world = AtOnce(p, w, start, done) /\ done \subseteq ItemsOf(p, start) /\ i \notin done
  BY DEF Halfway
<1> HIDE DEF done
<1> QED BY <1>1, ItemFrame

\* A range taken by a free worker: nothing is done yet.
LEMMA HalfwayTakes ==
  ASSUME NEW p \in Parallel, NEW w, NEW start, IsWorld(start), Once(start.families),
         NEW world, NEW R, NEW H, Halfway(p, w, start, world, R, H), DOMAIN H = Worker,
         NEW v \in Worker, H[v] = Free, NEW r \in R
  PROVE  Halfway(p, w, start, world, R \ {r},
                 [H EXCEPT ![v] = [at |-> r.at, end |-> r.end, part |-> ItemOf(p, w, world, r.at)]])
<1> DEFINE n == ItemCount(p, start)
           a == r.at
           b == r.end
           h == [at |-> a, end |-> b, part |-> ItemOf(p, w, start, a)]
           G == [H EXCEPT ![v] = h]
<1>1. n \in Nat /\ ItemsOf(p, start) = 1..n
  BY CountIsNat
<1>2. a \in 1..n /\ b \in 1..n /\ a <= b /\ Items(r) = a..b /\ a \in Items(r)
  BY DEF Halfway, IsRange, Items
<1>3. ItemOf(p, w, world, a) = ItemOf(p, w, start, a)
  <2>1. a \in Owing(R, H) /\ a \in ItemsOf(p, start)
    BY <1>1, <1>2 DEF Owing
  <2> HIDE DEF a
  <2> QED BY <2>1, ReadsTheStart
<1>4. IsHold(h, n, p, w, start) /\ Owed(h) = Items(r)
  <2> HIDE DEF n, a, b
  <2> QED BY <1>1, <1>2, ClaimIs
<1> HIDE DEF h, n
<1>5. G[v] = h /\ \A u \in Worker : u # v => G[u] = H[u]
  OBVIOUS
<1>6. Apart(R \ {r}, G) /\ Owing(R \ {r}, G) = Owing(R, H)
  <2>1. Owed(G[v]) = Items(r) /\ Apart(R, H)
    BY <1>4, <1>5 DEF Halfway
  <2> HIDE DEF G
  <2> QED BY <1>5, <2>1, RangeTaken
<1> HIDE DEF G
<1>7. Halfway(p, w, start, world, R \ {r}, G)
  BY <1>4, <1>5, <1>6 DEF Halfway, n
<1> QED BY <1>3, <1>7 DEF G, h

\* A worker reads for the next item of his range: nothing is done yet.
LEMMA HalfwayReads ==
  ASSUME NEW p \in Parallel, NEW w, NEW start, IsWorld(start), Once(start.families),
         NEW world, NEW R, NEW H, Halfway(p, w, start, world, R, H), DOMAIN H = Worker,
         NEW v \in Worker, H[v] # Free
  PROVE  Halfway(p, w, start, world, R,
                 [H EXCEPT ![v] = [at |-> H[v].at, end |-> H[v].end,
                                   part |-> ItemOf(p, w, world, H[v].at)]])
<1> DEFINE n == ItemCount(p, start)
           a == H[v].at
           b == H[v].end
           h == [at |-> a, end |-> b, part |-> ItemOf(p, w, start, a)]
           G == [H EXCEPT ![v] = h]
<1>1. n \in Nat /\ ItemsOf(p, start) = 1..n
  BY CountIsNat
<1>2. a \in 1..n /\ b \in 1..n /\ a <= b /\ a \in Items(H[v]) /\ Owed(H[v]) = Items(H[v])
  <2>1. IsHold(H[v], n, p, w, start)
    BY DEF Halfway
  <2> HIDE DEF n
  <2> QED BY <1>1, <2>1, HoldIs
<1>3. ItemOf(p, w, world, a) = ItemOf(p, w, start, a)
  <2>1. a \in Owing(R, H) /\ a \in ItemsOf(p, start)
    BY <1>1, <1>2 DEF Owing
  <2> HIDE DEF a
  <2> QED BY <2>1, ReadsTheStart
<1>4. IsHold(h, n, p, w, start) /\ Owed(h) = Owed(H[v]) \ {}
  <2>1. Items(H[v]) = a..b
    BY DEF Items
  <2>2. IsHold(h, n, p, w, start) /\ Owed(h) = a..b
    <3> HIDE DEF n, a, b
    <3> QED BY <1>1, <1>2, ClaimIs
  <2> HIDE DEF n, a, b, h
  <2> QED BY <1>2, <2>1, <2>2
<1> HIDE DEF h, n
<1>5. G[v] = h /\ \A u \in Worker : u # v => G[u] = H[u]
  OBVIOUS
<1>6. Apart(R, G) /\ Owing(R, G) = Owing(R, H) \ {}
  <2> DEFINE gone == {}
  <2>1. Owed(G[v]) = Owed(H[v]) \ gone /\ Apart(R, H) /\ gone \subseteq Owed(H[v])
    BY <1>4, <1>5 DEF Halfway
  <2> HIDE DEF G, gone
  <2>2. Apart(R, G) /\ Owing(R, G) = Owing(R, H) \ gone
    BY <1>5, <2>1, HandChanged, SMTT(30)
  <2> QED BY <2>2 DEF gone
<1> HIDE DEF G
<1>7. Halfway(p, w, start, world, R, G)
  BY <1>4, <1>5, <1>6 DEF Halfway, n
<1> QED BY <1>3, <1>7 DEF G, h

\* A worker's write is his item done, as if done at once with the others.
LEMMA HalfwayWrites ==
  ASSUME NEW p \in Parallel, NEW w, NEW start, IsWorld(start), Once(start.families),
         NEW world, NEW R, NEW H, Halfway(p, w, start, world, R, H), DOMAIN H = Worker,
         NEW v \in Worker, "part" \in DOMAIN H[v]
  PROVE  Halfway(p, w, start, Stored(world, H[v].part), R, [H EXCEPT ![v] = NextItem(H[v])])
<1> DEFINE n == ItemCount(p, start)
           a == H[v].at
           h == NextItem(H[v])
           G == [H EXCEPT ![v] = h]
           done == ItemsOf(p, start) \ Owing(R, H)
           more == ItemsOf(p, start) \ Owing(R, G)
<1>1. n \in Nat /\ ItemsOf(p, start) = 1..n
  BY CountIsNat
<1>2. /\ a \in 1..n /\ H[v].end \in 1..n /\ a <= H[v].end /\ a \in Items(H[v])
      /\ Owed(H[v]) = Items(H[v])
      /\ H[v].part = ItemOf(p, w, start, a)
  <2>1. IsHold(H[v], n, p, w, start)
    BY DEF Halfway
  <2> HIDE DEF n
  <2> QED BY <1>1, <2>1, HoldIs
<1>3. IsHold(h, n, p, w, start) /\ Owed(h) = Owed(H[v]) \ {a}
  <2> HIDE DEF n
  <2> QED BY <1>1, <1>2, NextItemIs
<1> HIDE DEF h, n
<1>4. G[v] = h /\ \A u \in Worker : u # v => G[u] = H[u]
  OBVIOUS
<1>5. Apart(R, G) /\ Owing(R, G) = Owing(R, H) \ {a}
  <2> DEFINE gone == {a}
  <2>1. gone \subseteq Owed(H[v]) /\ Apart(R, H) /\ Owed(G[v]) = Owed(H[v]) \ gone
    BY <1>2, <1>3, <1>4 DEF Halfway
  <2> HIDE DEF gone, G
  <2>2. Apart(R, G) /\ Owing(R, G) = Owing(R, H) \ gone
    BY <1>4, <2>1, HandChanged
  <2> QED BY <2>2 DEF gone
<1> HIDE DEF G
<1>6. a \in Owing(R, H) /\ a \in ItemsOf(p, start)
  BY <1>1, <1>2 DEF Owing
<1>7. more = done \cup {a} /\ a \notin done /\ done \subseteq ItemsOf(p, start)
  BY <1>5, <1>6
<1>8. Stored(world, H[v].part) = AtOnce(p, w, start, more)
  <2>1. world = AtOnce(p, w, start, done)
    BY DEF Halfway
  <2> HIDE DEF done, a, more
  <2>2. Stored(AtOnce(p, w, start, done), ItemOf(p, w, start, a))
        = AtOnce(p, w, start, done \cup {a})
    BY <1>6, <1>7, AtOnceOneMore
  <2> QED BY <1>2, <1>7, <2>1, <2>2
<1>9. Halfway(p, w, start, Stored(world, H[v].part), R, G)
  BY <1>3, <1>4, <1>5, <1>8 DEF Halfway, n
<1> QED BY <1>9 DEF G, h

\* With nothing owed the slot's items have all been done at once.
LEMMA HalfwayEnds ==
  ASSUME NEW p, NEW w, NEW start, NEW world, NEW R, NEW H,
         Halfway(p, w, start, world, R, H), R = {}, \A v \in Worker : H[v] = Free
  PROVE  world = AtOnce(p, w, start, ItemsOf(p, start))
<1>1. Owing(R, H) = {}
  BY DEF Owing, Owed
<1> QED BY <1>1 DEF Halfway

-----------------------------------------------------------------------------
\* Every slot begins with a world in order, of the hour being made.
LEMMA BegunStands ==
  ASSUME NEW p \in Slots, NEW w, InOrder(w), NEW batch, NEW chance \in Chances(w)
  PROVE  InOrder(Begun(p, w, batch, chance))
<1>1. /\ InOrder(Prologue(w, batch.issued, batch.cancelled))
      /\ InOrder(AfterTime(w, batch, chance)) /\ InOrder(AfterNeeds(w, batch, chance))
      /\ InOrder(AfterDecisions(w, batch, chance)) /\ InOrder(AfterProduction(w, batch, chance))
      /\ InOrder(AfterMetrics(w, batch, chance))
  BY PrologueIs, PhasesStand
<1> QED BY <1>1 DEF Begun, Slots, Parallel, kTimeAndWeather, kNeeds, kDecisions,
          kProduction, kMetrics, kEvents

\* What each slot makes of the world it began with is what the next begins with.
LEMMA SlotsFollow ==
  ASSUME NEW w, NEW batch, NEW chance
  PROVE  /\ TimeAndWeather(w, Begun(kTimeAndWeather, w, batch, chance), chance)
              = Begun(kNeeds, w, batch, chance)
         /\ Decisions(Begun(kDecisions, w, batch, chance), chance)
              = Begun(kProduction, w, batch, chance)
         /\ Events(w, Begun(kEvents, w, batch, chance)) = StepOf(w, batch, chance)
         /\ \A p \in Parallel :
              AtOnce(p, w, Begun(p, w, batch, chance), ItemsOf(p, Begun(p, w, batch, chance)))
                = Begun(After(p), w, batch, chance)
<1> USE DEF kTimeAndWeather, kNeeds, kDecisions, kProduction, kMetrics, kEvents
<1>1. TimeAndWeather(w, Begun(kTimeAndWeather, w, batch, chance), chance)
        = Begun(kNeeds, w, batch, chance)
  BY DEF Begun, AfterTime
<1>2. Decisions(Begun(kDecisions, w, batch, chance), chance)
        = Begun(kProduction, w, batch, chance)
  BY DEF Begun, AfterDecisions
<1>3. Events(w, Begun(kEvents, w, batch, chance)) = StepOf(w, batch, chance)
  BY DEF Begun, StepOf
<1>4. AtOnce(kNeeds, w, Begun(kNeeds, w, batch, chance), ItemsOf(kNeeds, Begun(kNeeds, w, batch, chance)))
        = Begun(After(kNeeds), w, batch, chance)
  BY DEF Begun, After, AfterNeeds
<1>5. AtOnce(kProduction, w, Begun(kProduction, w, batch, chance),
             ItemsOf(kProduction, Begun(kProduction, w, batch, chance)))
        = Begun(After(kProduction), w, batch, chance)
  BY DEF Begun, After, AfterProduction
<1>6. AtOnce(kMetrics, w, Begun(kMetrics, w, batch, chance),
             ItemsOf(kMetrics, Begun(kMetrics, w, batch, chance)))
        = Begun(After(kMetrics), w, batch, chance)
  BY DEF Begun, After, AfterMetrics
<1> QED BY <1>1, <1>2, <1>3, <1>4, <1>5, <1>6 DEF Parallel

\* A world in order names no household twice.
LEMMA OnceInOrder == ASSUME NEW w, InOrder(w) PROVE IsWorld(w) /\ Once(w.families)
  BY OnceIs DEF InOrder

-----------------------------------------------------------------------------
\* Entering a slot with the world it is to begin with.
LEMMA EnterKeeps ==
  ASSUME EngineInv, NEW p \in Slots, NEW w, Enter(p, w), AllDone,
         UNCHANGED <<previous, hold>>,
         drawn'.chance \in Chances(previous), staged' = EmptyBatch,
         w = Begun(p, previous, drawn'.batch, drawn'.chance)
  PROVE  EngineInv'
<1>1. /\ phase' = p /\ current' = w /\ p # kIdle
      /\ ranges' \in IF p \in Parallel THEN Cuts(ItemCount(p, w)) ELSE {{}}
  BY DEF Enter, Slots, Parallel, kIdle, kTimeAndWeather, kNeeds, kDecisions,
         kProduction, kMetrics, kEvents
<1>2. Start' = w
  BY <1>1 DEF Start
<1>3. Sound'
  BY <1>1 DEF EngineInv, Sound
<1>4. Begins'
  BY <1>1 DEF Begins
<1>5. \A v \in Worker : hold'[v] = Free
  BY DEF AllDone
<1>6. phase' \notin Parallel => AllDone'
  BY <1>1, <1>5 DEF AllDone
<1>7. p \in Parallel => Halfway(p, previous, w, w, ranges', hold')
  <2> SUFFICES ASSUME p \in Parallel PROVE Halfway(p, previous, w, w, ranges', hold')
    OBVIOUS
  <2>1. InOrder(previous)
    BY DEF EngineInv, Sound
  <2>2. IsWorld(w)
    BY <2>1, BegunStands DEF InOrder
  <2>3. ranges' \in Cuts(ItemCount(p, w))
    BY <1>1
  <2> DEFINE R == ranges'
             H == hold'
  <2>4. R \in Cuts(ItemCount(p, w)) /\ \A v \in Worker : H[v] = Free
    BY <1>5, <2>3
  <2> HIDE DEF R, H
  <2>5. Halfway(p, previous, w, w, R, H)
    BY <2>2, <2>4, HalfwayBegins
  <2> QED BY <2>5 DEF R, H
<1> QED BY <1>1, <1>2, <1>3, <1>4, <1>6, <1>7 DEF EngineInv

\* A campaign or a load begins with the invariant.
LEMMA InitInv == Init => EngineInv
<1> SUFFICES ASSUME Init PROVE EngineInv
  OBVIOUS
<1>1. previous \in Genesis /\ phase = kIdle /\ ranges = {} /\ hold = [w \in Worker |-> Free]
  BY DEF Init
<1>2. Sound
  BY <1>1, GenesisAssumption DEF Sound, InOrder
<1>3. kIdle \notin Parallel /\ kIdle \notin {kTimeAndWeather, kDecisions, kEvents}
  BY DEF kIdle, Parallel, kNeeds, kProduction, kMetrics, kTimeAndWeather, kDecisions, kEvents
<1> QED BY <1>1, <1>2, <1>3 DEF EngineInv, Begins, AllDone

\* Between steps nothing of the engine moves.
LEMMA IdleKeeps ==
  ASSUME EngineInv, phase = kIdle, UNCHANGED <<phase, ranges, hold, drawn>>,
         previous' = previous \/ previous' \in Genesis
  PROVE  EngineInv'
<1>1. kIdle \notin Parallel /\ kIdle \notin {kTimeAndWeather, kDecisions, kEvents}
  BY DEF kIdle, Parallel, kNeeds, kProduction, kMetrics, kTimeAndWeather, kDecisions, kEvents
<1>2. Sound'
  BY GenesisAssumption DEF EngineInv, Sound, InOrder
<1> QED BY <1>1, <1>2 DEF EngineInv, Begins, AllDone

\* The start of a step: the copy, the batch, the first slot entered.
LEMMA BeginKeeps == ASSUME EngineInv, BeginStep PROVE EngineInv'
<1> DEFINE w == Prologue(previous, staged.issued, staged.cancelled)
<1>1. /\ phase = kIdle /\ UNCHANGED <<previous, hold>> /\ staged' = EmptyBatch
      /\ Enter(kTimeAndWeather, w)
  BY DEF BeginStep
<1>2. drawn'.chance \in Chances(previous) /\ drawn'.batch = staged
  BY DEF BeginStep
<1>3. AllDone
  BY <1>1 DEF EngineInv, kIdle, Parallel, kNeeds, kProduction, kMetrics
<1>4. w = Begun(kTimeAndWeather, previous, drawn'.batch, drawn'.chance)
  BY <1>2 DEF Begun, kTimeAndWeather, kNeeds, kDecisions, kProduction, kMetrics, kEvents
<1>5. kTimeAndWeather \in Slots
  BY DEF Slots
<1> HIDE DEF w
<1> QED BY <1>1, <1>2, <1>3, <1>4, <1>5, EnterKeeps

\* The time slot run, the needs entered.
LEMMA RunTimeKeeps == ASSUME EngineInv, RunTimeAndWeather PROVE EngineInv'
<1> DEFINE w == TimeAndWeather(previous, current, drawn.chance)
<1>1. phase = kTimeAndWeather /\ Enter(After(phase), w) /\ UNCHANGED <<previous, staged, hold, drawn>>
  BY DEF RunTimeAndWeather
<1>2. /\ After(phase) = kNeeds /\ kNeeds \in Slots /\ phase \notin Parallel /\ phase # kIdle
  BY <1>1 DEF After, Slots, Parallel, kIdle, kTimeAndWeather, kNeeds, kDecisions,
              kProduction, kMetrics, kEvents
<1>3. /\ AllDone /\ staged = EmptyBatch /\ drawn.chance \in Chances(previous)
      /\ current = Begun(phase, previous, drawn.batch, drawn.chance)
  BY <1>1, <1>2 DEF EngineInv, Begins, Start
<1>4. w = Begun(kNeeds, previous, drawn.batch, drawn.chance)
  BY <1>1, <1>3, SlotsFollow
<1> HIDE DEF w
<1> QED BY <1>1, <1>2, <1>3, <1>4, EnterKeeps

\* The decisions slot run, the production entered.
LEMMA RunDecisionsKeeps == ASSUME EngineInv, RunDecisions PROVE EngineInv'
<1> DEFINE w == Decisions(current, drawn.chance)
<1>1. phase = kDecisions /\ Enter(After(phase), w) /\ UNCHANGED <<previous, staged, hold, drawn>>
  BY DEF RunDecisions
<1>2. /\ After(phase) = kProduction /\ kProduction \in Slots /\ phase \notin Parallel /\ phase # kIdle
  BY <1>1 DEF After, Slots, Parallel, kIdle, kTimeAndWeather, kNeeds, kDecisions,
              kProduction, kMetrics, kEvents
<1>3. /\ AllDone /\ staged = EmptyBatch /\ drawn.chance \in Chances(previous)
      /\ current = Begun(phase, previous, drawn.batch, drawn.chance)
  BY <1>1, <1>2 DEF EngineInv, Begins, Start
<1>4. w = Begun(kProduction, previous, drawn.batch, drawn.chance)
  BY <1>1, <1>3, SlotsFollow
<1> HIDE DEF w
<1> QED BY <1>1, <1>2, <1>3, <1>4, EnterKeeps

\* The last slot completes the step that was drawn, and nothing else.
LEMMA EventsComplete ==
  ASSUME EngineInv, RunEvents
  PROVE  /\ previous' = StepOf(previous, drawn.batch, drawn.chance)
         /\ drawn.chance \in Chances(previous) /\ staged = EmptyBatch
         /\ InOrder(previous') /\ previous'.tick = previous.tick + 1
         /\ Unbooked(previous') = Unbooked(previous)
<1>1. phase = kEvents /\ previous' = Events(previous, current) /\ InOrder(previous)
  BY DEF RunEvents, EngineInv, Sound
<1>2. phase # kIdle
  BY <1>1 DEF kEvents, kIdle
<1>3. /\ staged = EmptyBatch /\ drawn.chance \in Chances(previous)
      /\ current = Begun(phase, previous, drawn.batch, drawn.chance)
  BY <1>1, <1>2 DEF EngineInv, Begins, Start
<1>4. previous' = StepOf(previous, drawn.batch, drawn.chance)
  BY <1>1, <1>3, SlotsFollow
<1> DEFINE v == StepOf(previous, drawn.batch, drawn.chance)
<1>5. InOrder(v) /\ v.tick = previous.tick + 1 /\ Unbooked(v) = Unbooked(previous)
  BY <1>1, <1>3, StepStands
<1> HIDE DEF v
<1> QED BY <1>3, <1>4, <1>5 DEF v

\* The last slot run and the buffers swapped.
LEMMA RunEventsKeeps == ASSUME EngineInv, RunEvents PROVE EngineInv'
<1>1. phase = kEvents /\ phase' = kIdle /\ UNCHANGED <<staged, ranges, hold, drawn>>
  BY DEF RunEvents
<1>2. InOrder(previous') /\ Unbooked(previous') = Unbooked(previous)
  BY EventsComplete
<1>3. /\ kIdle \notin Parallel /\ kIdle \notin {kTimeAndWeather, kDecisions, kEvents}
      /\ kEvents \notin Parallel
  BY DEF kIdle, Parallel, kNeeds, kProduction, kMetrics, kTimeAndWeather, kDecisions, kEvents
<1>4. Sound'
  BY <1>1, <1>2 DEF EngineInv, Sound
<1>5. AllDone'
  BY <1>1, <1>3 DEF EngineInv, AllDone
<1> QED BY <1>1, <1>3, <1>4, <1>5 DEF EngineInv, Begins

\* A worker's step inside a slot.
LEMMA WorkKeeps ==
  ASSUME EngineInv, UNCHANGED <<previous, staged, phase, drawn>>, DOMAIN hold' = Worker,
         phase \in Parallel, Halfway(phase, previous, Start, current', ranges', hold')
  PROVE  EngineInv'
<1>1. Start' = Start
  BY DEF Start
<1>2. Sound' /\ Begins'
  BY DEF EngineInv, Sound, Begins
<1>3. phase \notin {kTimeAndWeather, kDecisions, kEvents}
  BY DEF Parallel, kNeeds, kProduction, kMetrics, kTimeAndWeather, kDecisions, kEvents
<1> QED BY <1>1, <1>2, <1>3 DEF EngineInv

\* What the invariant says in a parallel slot.
LEMMA SlotIs ==
  ASSUME EngineInv, phase \in Parallel
  PROVE  /\ Halfway(phase, previous, Start, current, ranges, hold)
         /\ IsWorld(Start) /\ Once(Start.families) /\ DOMAIN hold = Worker
         /\ staged = EmptyBatch /\ drawn.chance \in Chances(previous)
<1>1. /\ phase # kIdle /\ phase \in Slots
  BY DEF Parallel, Slots, kIdle, kNeeds, kProduction, kMetrics
<1>2. InOrder(previous) /\ drawn.chance \in Chances(previous) /\ staged = EmptyBatch
  BY <1>1 DEF EngineInv, Sound, Begins
<1>3. InOrder(Start)
  BY <1>1, <1>2, BegunStands DEF Start
<1> QED BY <1>2, <1>3, OnceInOrder DEF EngineInv, Sound

\* A worker takes a range.
LEMMA TakeKeeps == ASSUME EngineInv, NEW v \in Worker, Take(v) PROVE EngineInv'
<1>1. PICK r \in ranges : ranges' = ranges \ {r} /\ hold' = [hold EXCEPT ![v] = Claimed(r)]
  BY DEF Take
<1>2. /\ hold[v] = Free /\ UNCHANGED <<previous, current, staged, phase, drawn>>
  BY DEF Take
<1>3. phase \in Parallel
  BY <1>1 DEF EngineInv, AllDone
<1>4. /\ Halfway(phase, previous, Start, current, ranges, hold)
      /\ IsWorld(Start) /\ Once(Start.families) /\ DOMAIN hold = Worker
  BY <1>3, SlotIs
<1> DEFINE start == Start
<1>5. Halfway(phase, previous, start, current, ranges \ {r}, [hold EXCEPT ![v] =
        [at |-> r.at, end |-> r.end, part |-> ItemOf(phase, previous, current, r.at)]])
  <2> HIDE DEF start
  <2> QED BY <1>1, <1>2, <1>3, <1>4, HalfwayTakes DEF start
<1>6. Halfway(phase, previous, start, current', ranges', hold') /\ DOMAIN hold' = Worker
  BY <1>1, <1>2, <1>4, <1>5 DEF Claimed
<1> QED BY <1>2, <1>3, <1>6, WorkKeeps

\* A worker reads for his next item.
LEMMA ReadKeeps == ASSUME EngineInv, NEW v \in Worker, Read(v) PROVE EngineInv'
<1>1. /\ hold[v] # Free /\ hold' = [hold EXCEPT ![v] = Claimed(hold[v])]
      /\ UNCHANGED <<previous, current, staged, phase, ranges, drawn>>
  BY DEF Read
<1>2. phase \in Parallel
  BY <1>1 DEF EngineInv, AllDone
<1>3. /\ Halfway(phase, previous, Start, current, ranges, hold)
      /\ IsWorld(Start) /\ Once(Start.families) /\ DOMAIN hold = Worker
  BY <1>2, SlotIs
<1> DEFINE start == Start
<1>4. Halfway(phase, previous, start, current, ranges, [hold EXCEPT ![v] =
        [at |-> hold[v].at, end |-> hold[v].end,
         part |-> ItemOf(phase, previous, current, hold[v].at)]])
  BY <1>1, <1>2, <1>3, HalfwayReads
<1>5. Halfway(phase, previous, start, current', ranges', hold') /\ DOMAIN hold' = Worker
  BY <1>1, <1>3, <1>4 DEF Claimed
<1> QED BY <1>1, <1>2, <1>5, WorkKeeps

\* A worker writes.
LEMMA WriteKeeps == ASSUME EngineInv, NEW v \in Worker, Write(v) PROVE EngineInv'
<1>1. /\ "part" \in DOMAIN hold[v] /\ hold' = [hold EXCEPT ![v] = NextItem(hold[v])]
      /\ current' = Stored(current, hold[v].part)
      /\ UNCHANGED <<previous, staged, phase, ranges, drawn>>
  BY DEF Write
<1>2. phase \in Parallel
  <2>1. "part" \notin DOMAIN Free
    BY DEF Free
  <2> QED BY <1>1, <2>1 DEF EngineInv, AllDone
<1>3. /\ Halfway(phase, previous, Start, current, ranges, hold)
      /\ IsWorld(Start) /\ Once(Start.families) /\ DOMAIN hold = Worker
  BY <1>2, SlotIs
<1> DEFINE start == Start
<1>4. Halfway(phase, previous, start, Stored(current, hold[v].part), ranges,
              [hold EXCEPT ![v] = NextItem(hold[v])])
  BY <1>1, <1>2, <1>3, HalfwayWrites
<1>5. Halfway(phase, previous, start, current', ranges', hold') /\ DOMAIN hold' = Worker
  BY <1>1, <1>3, <1>4
<1> QED BY <1>1, <1>2, <1>5, WorkKeeps

\* A parallel slot left, when all its ranges have run.
LEMMA BarrierKeeps == ASSUME EngineInv, Barrier PROVE EngineInv'
<1>1. /\ phase \in Parallel /\ AllDone /\ Enter(After(phase), current)
      /\ UNCHANGED <<previous, staged, hold, drawn>>
  BY DEF Barrier
<1>2. /\ Halfway(phase, previous, Start, current, ranges, hold)
      /\ staged = EmptyBatch /\ drawn.chance \in Chances(previous)
  BY <1>1, SlotIs
<1>3. current = AtOnce(phase, previous, Start, ItemsOf(phase, Start))
  BY <1>1, <1>2, HalfwayEnds DEF AllDone
<1>4. current = Begun(After(phase), previous, drawn.batch, drawn.chance)
  BY <1>1, <1>3, SlotsFollow DEF Start
<1>5. After(phase) \in Slots
  BY <1>1 DEF After, Slots, Parallel, kTimeAndWeather, kNeeds, kDecisions,
              kProduction, kMetrics, kEvents
<1> QED BY <1>1, <1>2, <1>4, <1>5, EnterKeeps

\* The invariant is inductive: one step for every action of the engine.
LEMMA NextKeeps == EngineInv /\ [Next]_vars => EngineInv'
<1> SUFFICES ASSUME EngineInv, [Next]_vars PROVE EngineInv'
  OBVIOUS
<1>1. ASSUME NEW row \in OrderRow, Issue(row) PROVE EngineInv'
  BY <1>1, IdleKeeps DEF Issue
<1>2. ASSUME NEW id \in 1..MaxOrder, Cancel(id) PROVE EngineInv'
  BY <1>2, IdleKeeps DEF Cancel
<1>3. ASSUME NEW w \in Genesis, ResetWorld(w) PROVE EngineInv'
  BY <1>3, IdleKeeps DEF ResetWorld
<1>4. CASE BeginStep
  BY <1>4, BeginKeeps
<1>5. CASE Sequential
  BY <1>5, RunTimeKeeps, RunDecisionsKeeps, RunEventsKeeps DEF Sequential
<1>6. CASE Barrier
  BY <1>6, BarrierKeeps
<1>7. ASSUME NEW w \in Worker, Work(w) PROVE EngineInv'
  BY <1>7, TakeKeeps, ReadKeeps, WriteKeeps DEF Work
<1>8. CASE UNCHANGED vars
  BY <1>8 DEF vars, EngineInv, Sound, Begins, AllDone, Start
<1> QED BY <1>1, <1>2, <1>3, <1>4, <1>5, <1>6, <1>7, <1>8 DEF Next, Between

-----------------------------------------------------------------------------
\* In every state of the engine the completed world is in order, and the world
\* being built is what its slot began with and all the items done at once that
\* no range and no worker owes (StepEngine::AdvanceStep and RunParallelPhase):
\* for any number of workers, any cut of the task sets and any interleaving.
THEOREM EngineSound == Spec => []EngineInv
<1>1. Init => EngineInv
  BY InitInv
<1>2. EngineInv /\ [Next]_vars => EngineInv'
  BY NextKeeps
<1> QED BY <1>1, <1>2, PTL DEF Spec

\* While a family eats, one row index is one person in both buffers (the
\* assertion of FamilyNeedKcal, family_meal.cpp), and no death, birth or
\* wedding leaves a household without people or people without a household.
THEOREM PeopleStay == Spec => []PeopleHold
<1>1. EngineInv => PeopleHold
  <2> SUFFICES ASSUME EngineInv PROVE RowsMatch /\ HouseholdsHold
    BY DEF PeopleHold
  <2>1. HouseholdsHold
    BY DEF EngineInv, Sound, InOrder, HouseholdsHold
  <2>2. RowsMatch
    <3> SUFFICES ASSUME phase = kNeeds
                 PROVE  /\ Len(previous.residents) = Len(current.residents)
                        /\ \A r \in DOMAIN current.residents :
                             previous.residents[r].id = current.residents[r].id
      BY DEF RowsMatch
    <3>1. phase \in Parallel /\ phase # kIdle
      BY DEF Parallel, kNeeds, kIdle
    <3>2. /\ InOrder(previous) /\ drawn.chance \in Chances(previous)
          /\ Halfway(phase, previous, Start, current, ranges, hold)
      BY <3>1, SlotIs DEF EngineInv, Sound
    <3>3. Start = AfterTime(previous, drawn.batch, drawn.chance)
      BY DEF Start, Begun, kTimeAndWeather, kNeeds, kDecisions, kProduction, kMetrics, kEvents
    <3>4. InOrder(Start) /\ SamePeople(Start, previous)
      BY <3>2, <3>3, PrologueIs
    <3> DEFINE done == ItemsOf(phase, Start) \ Owing(ranges, hold)
               start == Start
    <3>5. current = AtOnce(phase, previous, start, done) /\ done \subseteq ItemsOf(phase, start)
      BY <3>2 DEF Halfway
    <3> HIDE DEF done, start
    <3>6. InOrder(current) /\ SamePeople(current, start)
      BY <3>1, <3>4, <3>5, AtOnceStands DEF start
    <3>7. /\ DOMAIN current.residents = DOMAIN previous.residents
          /\ \A r \in DOMAIN current.residents :
               previous.residents[r].id = current.residents[r].id
      BY <3>4, <3>6 DEF SamePeople, start
    <3>8. /\ DOMAIN current.residents = 1..Len(current.residents) /\ Len(current.residents) \in Nat
          /\ DOMAIN previous.residents = 1..Len(previous.residents) /\ Len(previous.residents) \in Nat
      BY <3>2, <3>6, WorldRows DEF InOrder
    <3> DEFINE a == Len(current.residents)
               b == Len(previous.residents)
    <3>9. a = b
      <4>1. 1..a = 1..b /\ a \in Nat /\ b \in Nat
        BY <3>7, <3>8
      <4> HIDE DEF a, b
      <4>2. ~(a < b) /\ ~(b < a)
        BY <4>1
      <4> QED BY <4>1, <4>2
    <3> QED BY <3>7, <3>9
  <2> QED BY <2>1, <2>2
<1> QED BY <1>1, EngineSound, PTL

\* The year's book accounts for every gram of every pantry (world.cpp,
\* FoldPantryFlows), for any size of the world, the day and the dowry: whatever
\* the pantries hold, the plots brought it, less what was eaten and lost.
THEOREM BookBalances == Spec => []LedgerBalances
<1>1. EngineInv => LedgerBalances
  BY DEF EngineInv, Sound, LedgerBalances
<1> QED BY <1>1, EngineSound, PTL

\* A step is one function of the completed world, the batch and the draws: the
\* engine with its workers implements the atomic step (step.h, "the result
\* cannot depend on worker count"), for any number of workers.
THEOREM StepIsAtomic == Spec => ImplementsAtomicStep
<1>1. Init => Atomic!Init
  BY DEF Init, Atomic!Init, EmptyBatch, Atomic!Nothing, kIdle
<1>2. EngineInv /\ [Next]_vars => [Atomic!Next]_(Atomic!vars)
  <2> SUFFICES ASSUME EngineInv, [Next]_vars PROVE [Atomic!Next]_(Atomic!vars)
    OBVIOUS
  <2> DEFINE inbox == IF phase = kIdle THEN staged ELSE drawn.batch
  <2>1. ASSUME NEW row \in OrderRow, Issue(row) PROVE Atomic!Next
    <3>1. Atomic!Issue(row)
      BY <2>1 DEF Issue, Atomic!Issue
    <3> QED BY <3>1 DEF Atomic!Next
  <2>2. ASSUME NEW id \in 1..MaxOrder, Cancel(id) PROVE Atomic!Next
    <3>1. Atomic!Cancel(id)
      BY <2>2 DEF Cancel, Atomic!Cancel
    <3> QED BY <3>1 DEF Atomic!Next
  <2>3. ASSUME NEW w \in Genesis, ResetWorld(w) PROVE Atomic!Next
    <3>1. Atomic!ResetWorld(w)
      BY <2>3 DEF ResetWorld, Atomic!ResetWorld, Atomic!Nothing, EmptyBatch
    <3> QED BY <3>1 DEF Atomic!Next
  <2>4. CASE BeginStep
    <3>1. /\ phase = kIdle /\ phase' = kTimeAndWeather /\ UNCHANGED previous
          /\ drawn'.batch = staged
      BY <2>4 DEF BeginStep, Enter
    <3>2. UNCHANGED Atomic!vars
      BY <3>1 DEF Atomic!vars, kIdle, kTimeAndWeather
    <3> QED BY <3>2
  <2>5. CASE RunEvents
    <3>1. /\ previous' = StepOf(previous, drawn.batch, drawn.chance)
          /\ drawn.chance \in Chances(previous) /\ previous'.tick = previous.tick + 1
          /\ staged = EmptyBatch
      BY <2>5, EventsComplete
    <3>2. phase = kEvents /\ phase' = kIdle /\ UNCHANGED staged
      BY <2>5 DEF RunEvents
    <3>3. Atomic!Advance
      BY <3>1, <3>2 DEF Atomic!Advance, Atomic!Nothing, EmptyBatch, kIdle, kEvents
    <3> QED BY <3>3 DEF Atomic!Next
  <2>6. CASE RunTimeAndWeather \/ RunDecisions \/ Barrier
    <3>1. /\ phase # kIdle /\ UNCHANGED <<previous, drawn>>
          /\ phase' = After(phase) /\ phase \in Slots \ {kEvents}
      BY <2>6 DEF RunTimeAndWeather, RunDecisions, Barrier, Enter, Slots, Parallel, kIdle,
                  kTimeAndWeather, kNeeds, kDecisions, kProduction, kMetrics, kEvents
    <3>2. phase' # kIdle
      BY <3>1 DEF After, Slots, Parallel, kIdle, kTimeAndWeather, kNeeds, kDecisions,
                  kProduction, kMetrics, kEvents
    <3> QED BY <3>1, <3>2 DEF Atomic!vars
  <2>7. ASSUME NEW w \in Worker, Work(w) PROVE UNCHANGED Atomic!vars
    <3>1. UNCHANGED <<previous, staged, phase, drawn>>
      BY <2>7 DEF Work, Take, Read, Write
    <3> QED BY <3>1 DEF Atomic!vars
  <2>8. CASE UNCHANGED vars
    BY <2>8 DEF vars, Atomic!vars
  <2> QED BY <2>1, <2>2, <2>3, <2>4, <2>5, <2>6, <2>7, <2>8 DEF Next, Between, Sequential
<1> QED BY <1>1, <1>2, EngineSound, PTL DEF Spec, ImplementsAtomicStep, Atomic!Spec
=============================================================================
