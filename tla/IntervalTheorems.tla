-------------------------- MODULE IntervalTheorems --------------------------
(***************************************************************************)
(* Induction and recursion on numbers, stated about sets and functions:    *)
(* what the proofs about nested loops, folds over statements and trees of  *)
(* instances have in common.                                               *)
(***************************************************************************)
EXTENDS Integers, WellFoundedInduction, TLAPS

\* A nonempty set of naturals has a least element.
LEMMA LeastExists ==
  ASSUME NEW S, S \subseteq Nat, S # {}
  PROVE  \E x \in S : \A y \in S : x <= y
<1> DEFINE R == OpToRel(<, Nat)
<1>1. IsWellFoundedOn(R, Nat)
  BY NatLessThanWellFounded
<1>2. \A x, y \in Nat : <<y, x>> \in R <=> y < x
  BY DEF OpToRel
<1> HIDE DEF R
<1>3. PICK x \in S : \A y \in S : ~(<<y, x>> \in R)
  BY <1>1, WFMin
<1>4. ASSUME NEW y \in S PROVE x <= y
  <2>1. x \in Nat /\ y \in Nat
    OBVIOUS
  <2>2. ~(y < x)
    BY <2>1, <1>2, <1>3
  <2> QED
    BY <2>1, <2>2
<1> QED
  BY <1>4

\* Induction over any set of naturals, and from the top of one that is bounded.
LEMMA InductionUp ==
  ASSUME NEW D, D \subseteq Nat, NEW S,
         \A i \in D : (\A j \in D : j < i => j \in S) => i \in S
  PROVE  D \subseteq S
<1> SUFFICES ASSUME D \ S # {} PROVE FALSE
  OBVIOUS
<1>1. PICK x \in D \ S : \A y \in D \ S : x <= y
  BY LeastExists
<1>2. \A j \in D : j < x => j \in S
  BY <1>1
<1> QED
  BY <1>2

LEMMA InductionDown ==
  ASSUME NEW n \in Nat, NEW D, D \subseteq 0 .. n, NEW S,
         \A i \in D : (\A j \in D : i < j => j \in S) => i \in S
  PROVE  D \subseteq S
<1> DEFINE bad == {n - i : i \in D \ S}
<1> SUFFICES ASSUME D \ S # {} PROVE FALSE
  OBVIOUS
<1>1. bad \subseteq Nat /\ bad # {}
  <2>1. \A i \in D \ S : n - i \in Nat
    OBVIOUS
  <2>2. PICK i : i \in D \ S
    OBVIOUS
  <2>3. n - i \in bad
    BY <2>2
  <2> QED
    BY <2>1, <2>3
<1>2. PICK x \in bad : \A y \in bad : x <= y
  BY <1>1, LeastExists
<1>3. PICK i \in D \ S : x = n - i
  BY <1>2
<1>4. ASSUME NEW j \in D, i < j, j \notin S PROVE FALSE
  <2>1. n - j \in bad /\ i \in Int /\ j \in Int
    BY <1>4
  <2>2. n - i <= n - j
    BY <2>1, <1>2, <1>3
  <2> QED
    BY <2>1, <2>2, <1>4
<1> QED
  BY <1>3, <1>4

\* A nonempty set of naturals that is bounded has a greatest element.
LEMMA GreatestExists ==
  ASSUME NEW n \in Nat, NEW S, S \subseteq 0 .. n, S # {}
  PROVE  \E x \in S : \A y \in S : y <= x
<1> SUFFICES ASSUME \A x \in S : \E y \in S : ~(y <= x) PROVE FALSE
  OBVIOUS
<1>0. \A x, y \in S : ~(y <= x) => x < y
  OBVIOUS
<1> PICK none : none = {}
  OBVIOUS
<1>1. \A x \in S : (\A y \in S : x < y => y \in none) => x \in none
  BY <1>0
<1>2. S \subseteq none
  BY ONLY n \in Nat, S \subseteq 0 .. n, <1>1, InductionDown
<1> QED
  BY <1>2

\* A function on D with values in V that is given on Base, and elsewhere by its value
\* at a smaller place, exists.
Solves(f, D, Base, B, next, H) ==
    \A i \in D : f[i] = IF i \in Base THEN B[i] ELSE H[i][f[next[i]]]

LEMMA RecursionExists ==
  ASSUME NEW n \in Nat, NEW D, D \subseteq 0 .. n, NEW Base, NEW V,
         NEW B, \A i \in D \cap Base : B[i] \in V,
         NEW next, \A i \in D \ Base : next[i] \in D /\ next[i] < i,
         NEW H, \A i \in D \ Base : \A v \in V : H[i][v] \in V
  PROVE  \E f \in [D -> V] : Solves(f, D, Base, B, next, H)
<1> DEFINE Up(m) == {i \in D : i < m}
           Solved(m) == \E f \in [Up(m) -> V] : Solves(f, Up(m), Base, B, next, H)
           S == {m \in 0 .. n + 1 : Solved(m)}
<1>0. ASSUME NEW i \in D PROVE i \in Nat /\ i <= n
  <2>1. i \in 0 .. n
    OBVIOUS
  <2> QED
    BY <2>1
<1>1. Solved(0)
  <2>1. Up(0) = {}
    <3>1. \A i \in D : ~(i < 0)
      BY <1>0
    <3> QED
      BY <3>1
  <2>2. [i \in {} |-> 0] \in [Up(0) -> V] /\ \A f : Solves(f, Up(0), Base, B, next, H)
    BY <2>1 DEF Solves
  <2> QED
    BY <2>2
<1>2. ASSUME NEW m \in Nat, Solved(m) PROVE Solved(m + 1)
  <2>1. PICK f \in [Up(m) -> V] : Solves(f, Up(m), Base, B, next, H)
    BY <1>2
  <2> DEFINE Val(i) == IF i \in Base THEN B[i] ELSE H[i][f[next[i]]]
             g == [i \in Up(m + 1) |-> IF i \in Up(m) THEN f[i] ELSE Val(i)]
  <2>2. ASSUME NEW i \in Up(m + 1), i \notin Base PROVE next[i] \in Up(m)
    <3>1. next[i] \in D /\ next[i] < i /\ i < m + 1 /\ i \in D
      BY <2>2
    <3>2. next[i] \in Nat /\ i \in Nat
      BY <3>1, <1>0
    <3> QED
      BY <3>1, <3>2
  <2>3. ASSUME NEW i \in Up(m + 1) PROVE Val(i) \in V
    <3>1. CASE i \in Base
      BY <3>1
    <3>2. CASE i \notin Base
      <4>1. f[next[i]] \in V
        BY <3>2, <2>2
      <4> QED
        BY <3>2, <4>1
    <3> QED
      BY <3>1, <3>2
  <2>4. ASSUME NEW i \in Up(m) PROVE i \in Up(m + 1) /\ f[i] = Val(i)
    <3>1. i \in D /\ i < m /\ i \in Nat
      BY <1>0
    <3>2. i < m + 1
      BY <3>1
    <3>3. f[i] = Val(i)
      BY <2>1 DEF Solves
    <3> QED
      BY <3>1, <3>2, <3>3
  <2> HIDE DEF Up
  <2>5. g \in [Up(m + 1) -> V] /\ \A i \in Up(m + 1) : g[i] = Val(i)
    BY <2>3, <2>4
  <2>6. \A i \in Up(m) : g[i] = f[i]
    BY <2>4
  <2> HIDE DEF g
  <2>7. Solves(g, Up(m + 1), Base, B, next, H)
    BY <2>2, <2>5, <2>6 DEF Solves
  <2> QED
    BY <2>5, <2>7
<1> HIDE DEF Solved
<1>3. ASSUME NEW m \in 0 .. n + 1, \A k \in 0 .. n + 1 : k < m => k \in S
      PROVE  m \in S
  <2>1. CASE m = 0
    BY <2>1, <1>1
  <2>2. CASE m > 0
    <3>1. Solved(m - 1) /\ m - 1 \in Nat
      BY <1>3, <2>2
    <3>2. Solved((m - 1) + 1)
      BY <3>1, <1>2
    <3> QED
      BY <3>2
  <2> QED
    BY <2>1, <2>2
<1> HIDE DEF S
<1>4. 0 .. n + 1 \subseteq S
  <2>1. 0 .. n + 1 \subseteq Nat
    OBVIOUS
  <2> QED
    BY ONLY <1>3, <2>1, InductionUp
<1>5. Solved(n + 1)
  BY <1>4 DEF S
<1>6. Up(n + 1) = D
  <2>1. \A i \in D : i < n + 1
    BY <1>0
  <2> QED
    BY <2>1
<1> HIDE DEF Up
<1> QED
  BY <1>5, <1>6 DEF Solved

\* Induction from one number to the next.
LEMMA StepwiseInduction ==
  ASSUME NEW n \in Nat, NEW m \in 0 .. n, NEW S, m \in S,
         \A i \in m + 1 .. n : i - 1 \in S => i \in S
  PROVE  m .. n \subseteq S
<1>1. ASSUME NEW i \in m .. n, \A j \in m .. n : j < i => j \in S PROVE i \in S
  <2>1. CASE i = m
    BY <2>1
  <2>2. CASE i # m
    <3>1. i \in m + 1 .. n /\ i - 1 \in m .. n /\ i - 1 < i
      BY <2>2
    <3> QED
      BY <1>1, <3>1
  <2> QED
    BY <2>1, <2>2
<1>2. m .. n \subseteq Nat
  OBVIOUS
<1> QED
  BY ONLY <1>1, <1>2, InductionUp

LEMMA FromZeroInduction ==
  ASSUME NEW n \in Nat, NEW S, 0 \in S, \A i \in 1 .. n : i - 1 \in S => i \in S
  PROVE  0 .. n \subseteq S
<1>1. 0 \in 0 .. n /\ 0 + 1 = 1
  OBVIOUS
<1>2. \A i \in 0 + 1 .. n : i - 1 \in S => i \in S
  BY <1>1
<1> QED
  BY <1>1, <1>2, StepwiseInduction

\* A fold over the numbers up to n: a function given at 0 and, at every other number,
\* by its value at the one before.
Stays(step, n, V) == \A i \in 1 .. n : \A v \in V : step[i][v] \in V
Iterates(f, base, step, n, V) ==
    /\ f \in [0 .. n -> V] /\ f[0] = base
    /\ \A i \in 1 .. n : f[i] = step[i][f[i - 1]]

LEMMA IterationExists ==
  ASSUME NEW n \in Nat, NEW V, NEW base \in V, NEW step, Stays(step, n, V)
  PROVE  \E f : Iterates(f, base, step, n, V)
<1> DEFINE B == [i \in {0} |-> base]
           next == [i \in 1 .. n |-> i - 1]
<1>1. \A i \in (0 .. n) \cap {0} : B[i] \in V
  OBVIOUS
<1>2. \A i \in 0 .. n : i \notin {0} <=> i \in 1 .. n
  OBVIOUS
<1>3. \A i \in (0 .. n) \ {0} : next[i] \in 0 .. n /\ next[i] < i
  BY <1>2
<1>4. \A i \in (0 .. n) \ {0} : \A v \in V : step[i][v] \in V
  BY <1>2 DEF Stays
<1>5. B[0] = base /\ \A i \in 1 .. n : next[i] = i - 1
  OBVIOUS
<1> HIDE DEF B, next
<1>6. PICK f \in [0 .. n -> V] : Solves(f, 0 .. n, {0}, B, next, step)
  BY <1>1, <1>3, <1>4, RecursionExists
<1>7. f[0] = base
  BY <1>5, <1>6 DEF Solves
<1>8. ASSUME NEW i \in 1 .. n PROVE f[i] = step[i][f[i - 1]]
  <2>1. i \in 0 .. n /\ i \notin {0}
    BY <1>2
  <2> QED
    BY <1>5, <1>6, <2>1 DEF Solves
<1> QED
  BY <1>7, <1>8 DEF Iterates
=============================================================================
