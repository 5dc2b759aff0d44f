--------------------------- MODULE LoopNestProofs ---------------------------
(***************************************************************************)
(* Proofs about loops, for every limit, every nesting and every array: the *)
(* unroll budget on its own (UnrollLimit), the iteration of foreach on its *)
(* own (Foreach), and the nest of both (LoopNest).  There the budget is    *)
(* kept as it is without the foreach, and being run again and again by     *)
(* other loops, or cut short by the budget they share, does not disturb    *)
(* the order in which the foreach visits its array.                        *)
(***************************************************************************)
EXTENDS LoopNest, IntervalTheorems, SequenceTheorems, FiniteSetTheorems, TLAPS

-----------------------------------------------------------------------------
(* UnrollLimit.                                                            *)

Frames == [loop : Loops, inner : Nat]

(* Popping a frame of the call stack (a loop handler returns) leaves a     *)
(* stack with one frame less.                                              *)
LEMMA PopType ==
  ASSUME NEW s \in Seq(Frames), s # <<>>
  PROVE  /\ SubSeq(s, 1, Len(s) - 1) \in Seq(Frames)
         /\ Len(SubSeq(s, 1, Len(s) - 1)) = Len(s) - 1
         /\ Len(s) \in Nat \ {0}
         /\ s[Len(s)] \in Frames
<1> DEFINE n == Len(s)
<1>1. n \in Nat /\ n # 0
  OBVIOUS
<1>2. \A i \in 1..n : s[i] \in Frames
  OBVIOUS
<1> HIDE DEF n
<1>3. n - 1 \in Nat
  BY <1>1
<1>4. \A i \in 1..(n - 1) : s[i] \in Frames
  BY <1>1, <1>2
<1>5. SubSeq(s, 1, n - 1) \in Seq(Frames) /\ Len(SubSeq(s, 1, n - 1)) = n - 1
  <2>1. IF 1 <= n - 1 THEN (n - 1) - 1 + 1 = n - 1 ELSE 0 = n - 1
    BY <1>1, <1>3
  <2> QED
    BY <1>3, <1>4, <2>1, SubSeqProperties
<1>6. s[n] \in Frames
  BY <1>1, <1>2
<1> QED
  BY <1>1, <1>5, <1>6 DEF n

(* Starting the next iteration resets the frame on top and keeps the rest. *)
LEMMA ResetType ==
  ASSUME NEW s \in Seq(Frames), s # <<>>
  PROVE  /\ [s EXCEPT ![Len(s)].inner = 0] \in Seq(Frames)
         /\ Len([s EXCEPT ![Len(s)].inner = 0]) = Len(s)
<1> DEFINE n == Len(s)
           f == [s[n] EXCEPT !.inner = 0]
<1>1. s[n] \in Frames
  BY PopType
<1>2. f \in Frames
  BY <1>1 DEF Frames
<1>3. [s EXCEPT ![n].inner = 0] = [s EXCEPT ![n] = f]
  OBVIOUS
<1>4. s \in [1..n -> Frames] /\ n \in Nat
  OBVIOUS
<1> HIDE DEF f
<1>5. [s EXCEPT ![n] = f] \in [1..n -> Frames]
  BY <1>2, <1>4
<1> HIDE DEF n
<1>6. [s EXCEPT ![n] = f] \in Seq(Frames)
  BY <1>4, <1>5
<1>7. Len([s EXCEPT ![n] = f]) = n
  BY <1>4, <1>5
<1> QED
  BY <1>3, <1>6, <1>7 DEF n

(* Counting an inner loop in the frame of the outer one leaves a stack of  *)
(* frames.                                                                 *)
LEMMA CountInnerType ==
  ASSUME NEW s \in Seq(Frames)
  PROVE  CountInner(s) \in Seq(Frames) /\ Len(CountInner(s)) = Len(s)
<1>1. \A f \in Frames : [f EXCEPT !.inner = @ + 1] \in Frames
  BY DEF Frames
<1>4. \A i \in 1..Len(s) : s[i] \in Frames
  OBVIOUS
<1>2. CountInner(s) \in [1..Len(s) -> Frames]
  BY <1>1, <1>4 DEF CountInner
<1>3. Len(s) \in Nat
  OBVIOUS
<1> QED
  BY <1>2, <1>3 DEF CountInner

(* TypeOK: in particular the counter of enter_unrolling and exit_unrolling *)
(* is the number of open loops, so it is never negative.                   *)
THEOREM TypeCorrect == Spec => []TypeOK
<1> USE UnrollAssumption
<1>1. Init => TypeOK
  <2> SUFFICES ASSUME Init
               PROVE  TypeOK
    OBVIOUS
  <2>1. open \in Seq([loop : Loops, inner : Nat]) /\ Len(open) = 0
    BY DEF Init
  <2> QED
    BY <2>1 DEF Init, TypeOK
<1>2. TypeOK /\ [Next]_vars => TypeOK'
  <2> SUFFICES ASSUME TypeOK, [Next]_vars
               PROVE  TypeOK'
    OBVIOUS
  <2>0. open \in Seq(Frames) /\ unrolling = Len(open) /\ counter \in Nat
    BY DEF TypeOK, Frames
  <2>1. ASSUME NEW l \in Loops, Enter(l)
        PROVE  TypeOK'
    <3> DEFINE s == CountInner(open)
    <3>1. s \in Seq(Frames) /\ Len(s) = Len(open)
      BY <2>0, CountInnerType
    <3>2. [loop |-> l, inner |-> 0] \in Frames
      BY DEF Frames
    <3>3. open' \in Seq(Frames) /\ Len(open') = Len(open) + 1
      <4> HIDE DEF s
      <4>1. Append(s, [loop |-> l, inner |-> 0]) \in Seq(Frames)
        BY <3>1, <3>2
      <4>2. Len(Append(s, [loop |-> l, inner |-> 0])) = Len(s) + 1
        BY <3>1, <3>2
      <4> QED
        BY <4>1, <4>2, <3>1, <2>1 DEF Enter, Pushed, s
    <3>4. counter' \in Nat /\ issued' \in BOOLEAN /\ loops' \in SUBSET Loops
            /\ diags' \in SUBSET [at : Loops, notes : SUBSET Loops]
      BY <2>1 DEF Enter, Pushed, TypeOK
    <3> QED
      BY <2>0, <2>1, <3>3, <3>4 DEF Enter, Pushed, TypeOK, Frames
  <2>2. ASSUME open # <<>>, Exit
        PROVE  open' \in Seq(Frames) /\ unrolling' \in Nat /\ unrolling' = Len(open')
    BY <2>0, <2>2, PopType DEF Exit, Pop
  <2>3. ASSUME open # <<>>
        PROVE  Top.loop \in Loops
    BY <2>0, <2>3, PopType DEF Top, Frames
  <2>4. CASE Leave
    BY <2>2, <2>4 DEF Leave, TypeOK, Frames
  <2>5. CASE TickAfterError
    BY <2>2, <2>5 DEF TickAfterError, TypeOK, Frames
  <2>6. CASE TickExhausts
    <3>1. loops' \in SUBSET Loops /\ Top.loop \in Loops
      BY <2>3, <2>6 DEF TickExhausts, TypeOK
    <3>2. diags' \in SUBSET [at : Loops, notes : SUBSET Loops]
      BY <2>6, <3>1 DEF TickExhausts, TypeOK
    <3> QED
      BY <2>0, <2>2, <2>6, <3>1, <3>2 DEF TickExhausts, TypeOK, Frames
  <2>7. CASE TickContinues
    <3>1. loops' \in SUBSET Loops
      BY <2>3, <2>7 DEF TickContinues, TypeOK
    <3>2. open' \in Seq(Frames) /\ Len(open') = Len(open)
      BY <2>0, <2>7, ResetType DEF TickContinues
    <3> QED
      BY <2>0, <2>7, <3>1, <3>2 DEF TickContinues, TypeOK, Frames
  <2>8. CASE UNCHANGED vars
    BY <2>8 DEF vars, TypeOK
  <2> QED
    BY <2>1, <2>4, <2>5, <2>6, <2>7, <2>8 DEF Next, Tick
<1> QED
  BY <1>1, <1>2, PTL DEF Spec

-----------------------------------------------------------------------------

(* The budget of a nest and its one diagnostic, for every limit: the       *)
(* conjunction of BudgetShared and AllContributorsNoted is inductive.      *)
THEOREM BudgetAndBlame == Spec => [](BudgetShared /\ AllContributorsNoted)
<1> DEFINE Inv == BudgetShared /\ AllContributorsNoted
<1> USE UnrollAssumption
<1>1. Init => Inv
  BY DEF Init, BudgetShared, AllContributorsNoted
<1>2. TypeOK /\ Inv /\ [Next]_vars => Inv'
  <2> SUFFICES ASSUME TypeOK, Inv, [Next]_vars
               PROVE  Inv'
    OBVIOUS
  <2>0. counter \in Nat /\ issued \in BOOLEAN
    BY DEF TypeOK
  <2>1. ASSUME UNCHANGED <<counter, issued, loops, diags>>
        PROVE  Inv'
    BY <2>1 DEF BudgetShared, AllContributorsNoted
  <2>2. ASSUME NEW l \in Loops, Enter(l)
        PROVE  Inv'
    <3>1. CASE unrolling = 0
      BY <2>2, <3>1 DEF Enter, Pushed, BudgetShared, AllContributorsNoted
    <3>2. CASE unrolling # 0
      BY <2>1, <2>2, <3>2 DEF Enter, Pushed
    <3> QED
      BY <3>1, <3>2
  <2>3. CASE TickExhausts
    <3>1. diags = {} /\ counter' = Limit + 1
      BY <2>0, <2>3 DEF TickExhausts, Exhausts, BudgetShared
    <3>2. diags' = {[at |-> Top.loop, notes |-> loops' \ {Top.loop}]} /\ Top.loop \in loops'
      BY <2>3, <3>1 DEF TickExhausts
    <3>3. BudgetShared'
      BY <2>3, <3>1, <3>2 DEF TickExhausts, BudgetShared
    <3>4. AllContributorsNoted'
      BY <3>2 DEF AllContributorsNoted
    <3> QED
      BY <3>3, <3>4
  <2>4. CASE TickContinues
    <3>1. diags = {} /\ diags' = {} /\ ~issued'
      BY <2>0, <2>4 DEF TickContinues, BudgetShared
    <3>2. counter' <= Limit
      BY <2>0, <2>4 DEF TickContinues, Exhausts
    <3> QED
      BY <2>0, <2>4, <3>1, <3>2 DEF TickContinues, BudgetShared, AllContributorsNoted
  <2>5. CASE Leave \/ TickAfterError \/ UNCHANGED vars
    BY <2>1, <2>5 DEF Leave, TickAfterError, vars
  <2> QED
    BY <2>2, <2>3, <2>4, <2>5 DEF Next, Tick
<1> QED
  BY <1>1, <1>2, TypeCorrect, PTL DEF Spec

-----------------------------------------------------------------------------
(* Foreach: one advance of the loop variables goes from an element to its  *)
(* immediate successor in the order of the language, so the body sees      *)
(* every element once and in that order.                                   *)

DimsOK == dims \in Seq({Unnamed} \cup (Bounds \X Bounds))

(* The bounds of a named dimension are integers, and its left bound is one *)
(* of its indices.                                                         *)
LEMMA NamedBounds ==
  ASSUME DimsOK, NEW i \in Dims
  PROVE  /\ Dims = 1..Len(dims) /\ Len(dims) \in Nat
         /\ Named(i) => /\ Left(i) \in Int /\ Right(i) \in Int
                        /\ Left(i) \in Index(i)
<1>1. dims[i] \in {Unnamed} \cup (Bounds \X Bounds)
  BY DEF DimsOK, Dims
<1>2. CASE dims[i] \in Bounds \X Bounds
  <2>1. dims[i][1] \in Bounds /\ dims[i][2] \in Bounds
    BY <1>2
  <2>2. Left(i) \in Int /\ Right(i) \in Int
    BY <2>1, ForeachAssumption DEF Left, Right
  <2> QED
    BY <2>2 DEF DimsOK, Dims, Index, Between
<1>3. CASE dims[i] = Unnamed
  BY <1>3 DEF DimsOK, Dims, Named
<1> QED
  BY <1>1, <1>2, <1>3

(* The distance of an index from the left bound of its dimension is a      *)
(* natural number, zero at the left bound, at most that of the right       *)
(* bound, and it determines the index.                                     *)
LEMMA Distances ==
  ASSUME DimsOK, NEW i \in Dims, Named(i), NEW x \in Index(i), NEW y \in Index(i)
  PROVE  /\ x \in Int /\ Distance(i, x) \in Nat
         /\ Distance(i, Left(i)) = 0
         /\ Distance(i, x) = Distance(i, y) => x = y
         /\ x # y /\ y = Right(i) => Distance(i, x) < Distance(i, y)
         /\ Left(i) \in Index(i)
  BY NamedBounds DEF Index, Between, Distance

(* An element has an index of each dimension, 0 in those without a loop    *)
(* variable.                                                               *)
LEMMA ElementIndex ==
  ASSUME NEW v \in Elements, NEW i \in Dims
  PROVE  v[i] \in Index(i) /\ (~Named(i) => v[i] = 0)
  BY DEF Elements, Index

(* Functions that differ, do so at a greatest dimension.                   *)
LEMMA LastDifference ==
  ASSUME DimsOK, NEW v \in Elements, NEW w \in Elements, v # w
  PROVE  \E m \in Dims : v[m] # w[m] /\ \A k \in Dims : k > m => v[k] = w[k]
<1> DEFINE D == {k \in Dims : v[k] # w[k]}
<1>1. D # {}
  BY DEF Elements
<1>2. Len(dims) \in Nat /\ D \subseteq 1..Len(dims)
  BY DEF Dims, DimsOK
<1>3. D \subseteq 0..Len(dims)
  BY <1>2
<1> HIDE DEF D
<1>4. PICK m \in D : \A y \in D : y <= m
  BY <1>1, <1>2, <1>3, GreatestExists
<1> USE DEF D
<1>5. ASSUME NEW k \in Dims, k > m
      PROVE  v[k] = w[k]
  BY <1>2, <1>4, <1>5 DEF Dims
<1> QED
  BY <1>4, <1>5

(* Nothing is before the element of the left bounds, and an element that   *)
(* is at the right bound wherever v differs from it is after v.            *)
LEMMA NothingBeforeStart ==
  ASSUME DimsOK
  PROVE  /\ Start \in Elements
         /\ \A v \in Elements : ~Before(v, Start)
<1>1. Start \in Elements
  <2>1. \A i \in Dims : Start[i] \in Index(i)
    BY NamedBounds DEF Start, Index
  <2> QED
    BY <2>1 DEF Start, Elements
<1>2. ASSUME NEW v \in Elements, Before(v, Start)
      PROVE  FALSE
  <2>1. PICK i \in Dims : Named(i) /\ Distance(i, v[i]) < Distance(i, Start[i])
    BY <1>2 DEF Before
  <2>2. Distance(i, v[i]) \in Nat /\ Distance(i, Left(i)) = 0
    BY <2>1, ElementIndex, Distances
  <2>3. Start[i] = Left(i)
    BY <2>1 DEF Start
  <2> QED
    BY <2>1, <2>2, <2>3
<1> QED
  BY <1>1, <1>2

(* An element that is at the right bound wherever v differs from it is     *)
(* after v: when no dimension can step, the loop is done.                  *)
LEMMA BeforeRightmost ==
  ASSUME DimsOK, NEW v \in Elements, NEW w \in Elements, v # w,
         \A k \in Dims : v[k] # w[k] /\ Named(k) => w[k] = Right(k)
  PROVE  Before(v, w)
<1>1. PICK m \in Dims : v[m] # w[m] /\ \A k \in Dims : k > m => v[k] = w[k]
  BY LastDifference
<1>2. Named(m)
  BY <1>1, ElementIndex
<1>3. Distance(m, v[m]) < Distance(m, w[m])
  BY <1>1, <1>2, ElementIndex, Distances
<1> QED
  BY <1>1, <1>2, <1>3 DEF Before

-----------------------------------------------------------------------------

(* What one advance does: the first dimension that is not at its right     *)
(* bound goes one further, the named ones before it, all at their right    *)
(* bound, start again, and the others stay.                                *)
LEMMA AdvanceEffect ==
  ASSUME DimsOK, value \in Elements, Steppable # {}
  PROVE  \E j \in Dims :
           /\ Named(j)
           /\ Distance(j, Advanced[j]) = Distance(j, value[j]) + 1
           /\ \A i \in Dims : i > j => Advanced[i] = value[i]
           /\ \A i \in Dims : i < j /\ Named(i) =>
                value[i] = Right(i) /\ Advanced[i] = Left(i)
           /\ Advanced \in Elements
<1> DEFINE j == First(Steppable)
<1>1. Steppable \subseteq Nat
  BY DEF Steppable, Dims
<1>2. j \in Steppable /\ \A i \in Steppable : j <= i
  <2>1. \E x \in Steppable : \A y \in Steppable : x <= y
    BY <1>1, LeastExists
  <2> QED
    BY <2>1 DEF First
<1> HIDE DEF j
<1>3. j \in Dims /\ Named(j) /\ value[j] # Right(j)
  BY <1>2 DEF Steppable, AtRight
<1>4. /\ Left(j) \in Int /\ Right(j) \in Int
      /\ value[j] \in Between(Left(j), Right(j))
  BY <1>3, NamedBounds, ElementIndex DEF Index
<1>5. /\ Toward(j) \in Between(Left(j), Right(j))
      /\ Distance(j, Toward(j)) = Distance(j, value[j]) + 1
  BY <1>3, <1>4 DEF Toward, Between, Distance
<1>6. Advanced = [i \in Dims |-> IF i = j THEN Toward(i)
                                ELSE IF i < j /\ Named(i) THEN Left(i)
                                ELSE value[i]]
  BY DEF Advanced, j
<1>7. Advanced[j] = Toward(j)
  BY <1>3, <1>6
<1>8. ASSUME NEW i \in Dims, i > j
      PROVE  Advanced[i] = value[i]
  BY <1>3, <1>6, <1>8 DEF Dims
<1>9. ASSUME NEW i \in Dims, i < j, Named(i)
      PROVE  value[i] = Right(i) /\ Advanced[i] = Left(i)
  <2>1. i \notin Steppable
    BY <1>2, <1>3, <1>9 DEF Dims
  <2> QED
    BY <2>1, <1>3, <1>6, <1>9 DEF Steppable, AtRight, Dims
<1>10. ASSUME NEW i \in Dims
       PROVE  Advanced[i] \in Index(i)
  <2>1. CASE i = j
    BY <2>1, <1>3, <1>5, <1>7 DEF Index
  <2>2. CASE i # j /\ i < j /\ Named(i)
    BY <2>2, <1>9, NamedBounds
  <2>3. CASE i # j /\ ~(i < j /\ Named(i))
    BY <2>3, <1>6, ElementIndex
  <2> QED
    BY <2>1, <2>2, <2>3
<1>11. Advanced \in Elements
  BY <1>6, <1>10 DEF Elements
<1> QED
  BY <1>3, <1>5, <1>7, <1>8, <1>9, <1>11

(* The element after an advance is the immediate successor of the one      *)
(* before it in the order of the language.                                 *)
LEMMA AdvanceIsSuccessor ==
  ASSUME DimsOK, value \in Elements, Steppable # {}, NEW v \in Elements
  PROVE  Before(v, Advanced) <=> v = value \/ Before(v, value)
<1>1. PICK j \in Dims :
           /\ Named(j)
           /\ Distance(j, Advanced[j]) = Distance(j, value[j]) + 1
           /\ \A i \in Dims : i > j => Advanced[i] = value[i]
           /\ \A i \in Dims : i < j /\ Named(i) =>
                value[i] = Right(i) /\ Advanced[i] = Left(i)
           /\ Advanced \in Elements
  BY AdvanceEffect
<1>2. Dims \subseteq Nat
  BY DEF Dims
<1>3. \A i \in Dims : Named(i) => /\ Distance(i, v[i]) \in Nat
                                  /\ Distance(i, value[i]) \in Nat
                                  /\ Distance(i, Left(i)) = 0
                                  /\ Distance(i, v[i]) = Distance(i, value[i]) => v[i] = value[i]
  BY ElementIndex, Distances
<1>4. ASSUME v = value
      PROVE  Before(v, Advanced)
  BY <1>1, <1>3, <1>4 DEF Before
<1>5. ASSUME Before(v, value)
      PROVE  Before(v, Advanced)
  <2>1. PICK i \in Dims : /\ Named(i) /\ Distance(i, v[i]) < Distance(i, value[i])
                          /\ \A k \in Dims : k > i => v[k] = value[k]
    BY <1>5 DEF Before
  <2>2. CASE i > j
    <3>1. Advanced[i] = value[i] /\ \A k \in Dims : k > i => v[k] = Advanced[k]
      BY <2>1, <2>2, <1>1, <1>2
    <3> QED
      BY <2>1, <3>1 DEF Before
  <2>3. CASE ~(i > j)
    <3>1. Distance(j, v[j]) < Distance(j, Advanced[j])
      <4>1. CASE i = j
        BY <4>1, <2>1, <1>1, <1>3
      <4>2. CASE i # j
        BY <4>2, <2>1, <2>3, <1>1, <1>2, <1>3
      <4> QED
        BY <4>1, <4>2
    <3>2. \A k \in Dims : k > j => v[k] = Advanced[k]
      BY <2>1, <2>3, <1>1, <1>2
    <3> QED
      BY <3>1, <3>2, <1>1 DEF Before
  <2> QED
    BY <2>2, <2>3
<1>6. ASSUME Before(v, Advanced)
      PROVE  v = value \/ Before(v, value)
  <2>1. PICK i \in Dims : /\ Named(i) /\ Distance(i, v[i]) < Distance(i, Advanced[i])
                          /\ \A k \in Dims : k > i => v[k] = Advanced[k]
    BY <1>6 DEF Before
  <2>2. CASE i > j
    <3>1. Advanced[i] = value[i] /\ \A k \in Dims : k > i => v[k] = value[k]
      BY <2>1, <2>2, <1>1, <1>2
    <3> QED
      BY <2>1, <3>1 DEF Before
  <2>3. CASE i < j
    BY <2>1, <2>3, <1>1, <1>3
  <2>4. CASE i = j
    <3>1. \A k \in Dims : k > j => v[k] = value[k]
      BY <2>1, <2>4, <1>1
    <3>2. CASE Distance(j, v[j]) < Distance(j, value[j])
      BY <3>1, <3>2, <1>1 DEF Before
    <3>3. CASE ~(Distance(j, v[j]) < Distance(j, value[j]))
      <4>1. v[j] = value[j]
        BY <3>3, <2>1, <2>4, <1>1, <1>3
      <4>2. ASSUME NEW k \in Dims, v[k] # value[k], Named(k)
            PROVE  value[k] = Right(k)
        <5>1. k < j
          BY <4>1, <4>2, <3>1, <1>2
        <5> QED
          BY <5>1, <4>2, <1>1
      <4> QED
        BY <4>2, BeforeRightmost
    <3> QED
      BY <3>2, <3>3
  <2> QED
    BY <2>2, <2>3, <2>4, <1>2
<1> QED
  BY <1>4, <1>5, <1>6

-----------------------------------------------------------------------------

ForeachInv == ForeachTypeOK /\ InOrder /\ AllVisited

(* At the loop's start the body has been run for no element.               *)
LEMMA ForeachStarts == ForeachInit => ForeachInv
<1> USE DEF ForeachInv
<1> SUFFICES ASSUME ForeachInit
             PROVE  ForeachInv
  OBVIOUS
<1>1. PICK n \in 1..MaxDims : dims \in [1..n -> {Unnamed} \cup (Bounds \X Bounds)]
  BY DEF ForeachInit
<1>2. DimsOK
  BY <1>1 DEF DimsOK
<1>3. value \in Elements /\ \A v \in Elements : ~Before(v, iterator)
  BY <1>2, NothingBeforeStart DEF ForeachInit
<1> QED
  BY <1>2, <1>3 DEF ForeachInit, ForeachTypeOK, InOrder, AllVisited, DimsOK

(* A step of the loop, or of something else, keeps the elements visited    *)
(* those before the next one.                                              *)
LEMMA ForeachKeeps == ForeachInv /\ [ForeachNext]_foreachVars => ForeachInv'
<1> USE DEF ForeachInv
<1> SUFFICES ASSUME ForeachInv, [ForeachNext]_foreachVars
             PROVE  ForeachInv'
  OBVIOUS
<1>1. DimsOK /\ value \in Elements /\ iterator = value /\ visited \subseteq Elements
  BY DEF ForeachTypeOK, DimsOK
<1>2. dims' = dims => Elements' = Elements
  BY DEF Elements, Index, Named, Left, Right, Dims, Between
<1>3. CASE Stop
  BY <1>1, <1>2, <1>3 DEF Stop, ForeachTypeOK, InOrder, AllVisited
<1>4. CASE Continue
  <2>1. Advanced \in Elements
    BY <1>1, <1>4, AdvanceEffect DEF Continue
  <2>2. visited' = {v \in Elements : Before(v, Advanced)}
    <3>1. visited = {v \in Elements : Before(v, value)} /\ visited' = visited \cup {value}
      BY <1>1, <1>4 DEF Continue, InOrder
    <3> QED
      BY <1>1, <1>4, <3>1, AdvanceIsSuccessor DEF Continue
  <2>3. /\ dims' = dims /\ iterator' = Advanced /\ value' = Advanced
       /\ done' \in {"no", "over limit"}
    BY <1>4 DEF Continue
  <2>4. {v \in Elements : Before(v, iterator)}' = {v \in Elements : Before(v, iterator')}
    BY <1>2, <2>3 DEF Before, Distance, Named, Left, Right, Dims
  <2>5. InOrder'
    BY <2>2, <2>3, <2>4 DEF InOrder
  <2>6. ForeachTypeOK'
    <3>1. visited' \in SUBSET Elements
      BY <2>2
    <3> QED
      BY <1>2, <2>1, <2>3, <3>1 DEF ForeachTypeOK
  <2> QED
    BY <2>3, <2>5, <2>6 DEF AllVisited
<1>5. CASE Finish
  <2>1. \A v \in Elements : v = value \/ Before(v, value)
    <3>1. \A k \in Dims : Named(k) => value[k] = Right(k)
      BY <1>5 DEF Finish, Steppable, AtRight
    <3> QED
      BY <1>1, <3>1, BeforeRightmost
  <2>2. visited' = Elements
    BY <1>1, <1>5, <2>1 DEF Finish, InOrder
  <2> QED
    BY <1>1, <1>2, <1>5, <2>2 DEF Finish, ForeachTypeOK, InOrder, AllVisited
<1>6. CASE UNCHANGED foreachVars
  <2>1. {v \in Elements : Before(v, iterator)}' = {v \in Elements : Before(v, iterator)}
    BY <1>2, <1>6 DEF foreachVars, Before, Distance, Named, Left, Right, Dims
  <2> QED
    BY <1>1, <1>2, <1>6, <2>1 DEF foreachVars, ForeachTypeOK, InOrder, AllVisited
<1> QED
  BY <1>3, <1>4, <1>5, <1>6 DEF ForeachNext

(* The body is run for the elements of the array in the order of the       *)
(* language, for none twice, and for all of them unless the loop stops     *)
(* early: ForeachTypeOK, InOrder and AllVisited are together inductive.    *)
THEOREM VisitsEveryElementInOrder == ForeachSpec => [](ForeachTypeOK /\ InOrder /\ AllVisited)
<1>1. ForeachInv => ForeachTypeOK /\ InOrder /\ AllVisited
  BY DEF ForeachInv
<1> QED
  BY <1>1, ForeachStarts, ForeachKeeps, PTL DEF ForeachSpec

-----------------------------------------------------------------------------
(* LoopNest.                                                               *)

(* The foreach and the loops around it are loops like any other.           *)
THEOREM NestRefinesUnrollLimit == NestSpec => Spec
<1>1. NestInit => Init
  BY DEF NestInit
<1>2. [NestNext]_nestVars => [Next]_vars
  BY LoopNestAssumption DEF NestNext, EnterOther, EnterEach, LeaveOther, BreakEach,
     FinishEach, TickOther, TickEach, Next, nestVars, vars
<1> QED
  BY <1>1, <1>2, PTL DEF NestSpec, Spec

(* Entering the foreach anew puts it where its first run began.            *)
LEMMA RestartKeeps == ForeachInv /\ Restarted => ForeachInv'
<1> SUFFICES ASSUME ForeachInv, Restarted
             PROVE  ForeachInv'
  OBVIOUS
<1>1. DimsOK
  BY DEF ForeachInv, ForeachTypeOK, DimsOK
<1>2. /\ dims' = dims /\ value' = Start /\ iterator' = Start
      /\ visited' = {} /\ done' = "no"
  BY DEF Restarted
<1>3. Start \in Elements /\ \A v \in Elements : ~Before(v, Start)
  BY <1>1, NothingBeforeStart
<1>4. Elements' = Elements
  BY <1>2 DEF Elements, Index, Named, Left, Right, Dims, Between
<1>5. {v \in Elements : Before(v, iterator)}' = {v \in Elements : Before(v, Start)}
  BY <1>2, <1>4 DEF Before, Distance, Named, Left, Right, Dims
<1>6. ForeachTypeOK'
  BY <1>2, <1>3, <1>4 DEF ForeachInv, ForeachTypeOK
<1> QED
  BY <1>2, <1>3, <1>5, <1>6 DEF ForeachInv, InOrder, AllVisited

(* Every run of the foreach, wherever it stands, sees the elements of the  *)
(* array in the order of the language, and all of them if it was neither   *)
(* broken off nor over the limit.                                          *)
THEOREM NestVisitsInOrder == NestSpec => []VisitedInOrder
<1>1. NestInit => ForeachInv
  BY ForeachStarts DEF NestInit
<1>2. ForeachInv /\ [NestNext]_nestVars => ForeachInv'
  <2> SUFFICES ASSUME ForeachInv, [NestNext]_nestVars
               PROVE  ForeachInv'
    OBVIOUS
  <2>1. ASSUME [ForeachNext]_foreachVars
        PROVE  ForeachInv'
    BY <2>1, ForeachKeeps
  <2>2. CASE EnterEach
    BY <2>2, RestartKeeps DEF EnterEach
  <2>3. CASE BreakEach \/ FinishEach \/ TickEach
    BY <2>1, <2>3 DEF BreakEach, FinishEach, TickEach, ForeachNext
  <2>4. CASE UNCHANGED foreachVars
    BY <2>1, <2>4
  <2> QED
    BY <2>2, <2>3, <2>4 DEF NestNext, EnterOther, LeaveOther, TickOther, nestVars
<1>3. ForeachInv => VisitedInOrder
  BY DEF ForeachInv, VisitedInOrder
<1> QED
  BY <1>1, <1>2, <1>3, PTL DEF NestSpec

(* The budget of a nest with a foreach in it, from the theorems about      *)
(* UnrollLimit.                                                            *)
THEOREM NestBudget == NestSpec => [](TypeOK /\ BudgetShared /\ AllContributorsNoted)
BY NestRefinesUnrollLimit, TypeCorrect, BudgetAndBlame, PTL

-----------------------------------------------------------------------------

(* The foreach is open at most once, and what its body has seen was paid   *)
(* for.                                                                    *)
ChargeInv ==
  /\ \A i, j \in 1..Len(open) : open[i].loop = Each /\ open[j].loop = Each => i = j
  /\ IsFiniteSet(visited)
  /\ ElementsCharged

(* The loops on the stack after each way of changing it.                   *)
LEMMA StackAfterPush ==
  ASSUME TypeOK, NEW l \in Loops, Pushed(l)
  PROVE  /\ Len(open) \in Nat /\ Len(open') = Len(open) + 1
         /\ \A i \in 1..Len(open) : open'[i].loop = open[i].loop
         /\ open'[Len(open) + 1].loop = l
<1>1. open \in Seq(Frames)
  BY DEF TypeOK, Frames
<1>2. CountInner(open) \in Seq(Frames) /\ Len(CountInner(open)) = Len(open)
  BY <1>1, CountInnerType
<1>3. \A i \in 1..Len(open) : open[i] \in Frames
  BY <1>1
<1>4. \A i \in 1..Len(open) : CountInner(open)[i].loop = open[i].loop
  BY <1>3 DEF CountInner, Frames
<1>5. open' = Append(CountInner(open), [loop |-> l, inner |-> 0])
  BY DEF Pushed
<1>6. [loop |-> l, inner |-> 0] \in Frames
  BY DEF Frames
<1>7. /\ Len(open') = Len(open) + 1
      /\ \A i \in 1..Len(open) : open'[i] = CountInner(open)[i]
      /\ open'[Len(open) + 1] = [loop |-> l, inner |-> 0]
  BY <1>1, <1>2, <1>5, <1>6, AppendProperties
<1> QED
  BY <1>1, <1>4, <1>7

LEMMA StackAfterPop ==
  ASSUME TypeOK, open # <<>>, open' = Pop
  PROVE  /\ Len(open) \in Nat \ {0} /\ Len(open') = Len(open) - 1
         /\ \A i \in 1..(Len(open) - 1) : open'[i] = open[i]
<1>1. open \in Seq(Frames)
  BY DEF TypeOK, Frames
<1>2. Len(open) \in Nat \ {0} /\ Len(open') = Len(open) - 1
  BY <1>1, PopType DEF Pop
<1>3. open' = [i \in 1..(Len(open) - 1) |-> open[i]]
  BY <1>1, <1>2 DEF Pop
<1> QED
  BY <1>2, <1>3

LEMMA StackAfterReset ==
  ASSUME TypeOK, open # <<>>, open' = [open EXCEPT ![Len(open)].inner = 0]
  PROVE  /\ Len(open) \in Nat \ {0} /\ Len(open') = Len(open)
         /\ \A i \in 1..Len(open) : open'[i].loop = open[i].loop
<1>1. open \in Seq(Frames)
  BY DEF TypeOK, Frames
<1>2. Len(open) \in Nat \ {0} /\ Len(open') = Len(open)
  BY <1>1, PopType, ResetType
<1>3. \A i \in 1..Len(open) : open[i] \in Frames
  BY <1>1
<1> QED
  BY <1>1, <1>2, <1>3 DEF Frames

LEMMA ChargesKept == ChargeInv /\ TypeOK /\ TypeOK' /\ [NestNext]_nestVars => ChargeInv'
<1> SUFFICES ASSUME ChargeInv, TypeOK, TypeOK', [NestNext]_nestVars
             PROVE  ChargeInv'
  OBVIOUS
<1> USE DEF ChargeInv
<1>1. /\ unrolling \in Nat /\ unrolling = Len(open) /\ counter \in Nat
      /\ open = <<>> => Len(open) = 0
  BY DEF TypeOK
<1>2. CASE \E l \in Loops : EnterOther(l)
  <2>1. PICK l \in Loops : l # Each /\ Enter(l) /\ UNCHANGED foreachVars
    BY <1>2 DEF EnterOther
  <2>2. /\ Len(open) \in Nat /\ Len(open') = Len(open) + 1
        /\ \A i \in 1..Len(open) : open'[i].loop = open[i].loop
        /\ open'[Len(open) + 1].loop = l
    BY <2>1, StackAfterPush DEF Enter
  <2>3. 1..Len(open') = 1..Len(open) \cup {Len(open) + 1}
    BY <2>2
  <2>4. InEach' => InEach /\ unrolling # 0
    BY <1>1, <2>1, <2>2, <2>3 DEF InEach
  <2>5. visited' = visited
    BY <2>1 DEF foreachVars
  <2> QED
    BY <2>1, <2>2, <2>3, <2>4, <2>5 DEF Enter, ElementsCharged
<1>3. CASE EnterEach
  <2>1. ~InEach /\ Enter(Each) /\ visited' = {}
    BY <1>3 DEF EnterEach, Restarted
  <2>2. /\ Len(open) \in Nat /\ Len(open') = Len(open) + 1
        /\ \A i \in 1..Len(open) : open'[i].loop = open[i].loop
    BY <2>1, StackAfterPush, LoopNestAssumption DEF Enter
  <2>3. 1..Len(open') = 1..Len(open) \cup {Len(open) + 1}
    BY <2>2
  <2>4. Cardinality({}) = 0 /\ IsFiniteSet({}) /\ counter' \in Nat
    BY FS_EmptySet DEF TypeOK
  <2> QED
    BY <2>1, <2>2, <2>3, <2>4 DEF InEach, ElementsCharged
<1>4. ASSUME open # <<>>, open' = Pop
      PROVE  /\ \A i, j \in 1..Len(open') : open'[i].loop = Each /\ open'[j].loop = Each => i = j
             /\ InEach' => InEach
             /\ AtEach => ~InEach'
  BY <1>4, StackAfterPop DEF InEach, AtEach, Top
<1>5. CASE LeaveOther
  BY <1>4, <1>5 DEF LeaveOther, Leave, Exit, foreachVars, ElementsCharged
<1>6. /\ IsFiniteSet(visited \cup {iterator})
      /\ Cardinality(visited \cup {iterator}) <= Cardinality(visited) + 1
      /\ Cardinality(visited) \in Nat /\ Cardinality(visited \cup {iterator}) \in Nat
  <2>1. /\ IsFiniteSet(visited \cup {iterator})
        /\ Cardinality(visited \cup {iterator})
             = IF iterator \in visited THEN Cardinality(visited) ELSE Cardinality(visited) + 1
    BY FS_AddElement
  <2>2. Cardinality(visited) \in Nat /\ Cardinality(visited \cup {iterator}) \in Nat
    BY <2>1, FS_CardinalityType
  <2> QED
    BY <2>1, <2>2
<1>7. CASE BreakEach \/ FinishEach
  <2>1. AtEach /\ Leave /\ visited' = visited \cup {iterator}
    BY <1>7 DEF BreakEach, FinishEach, Stop, Finish
  <2> QED
    BY <1>4, <1>6, <2>1 DEF Leave, Exit, ElementsCharged
<1>8. CASE TickOther
  <2>1. visited' = visited /\ ~AtEach /\ Tick
    BY <1>8 DEF TickOther, foreachVars
  <2>2. counter' \in {counter, counter + 1} /\ loops \subseteq loops'
    BY <2>1 DEF Tick, TickAfterError, TickExhausts, TickContinues
  <2>3. CASE open' = Pop
    BY <1>1, <1>4, <1>6, <2>1, <2>2, <2>3
    DEF Tick, TickAfterError, TickExhausts, TickContinues, ElementsCharged
  <2>4. CASE open' = [open EXCEPT ![Len(open)].inner = 0]
    <3>1. open # <<>>
      BY <2>1 DEF Tick, TickAfterError, TickExhausts, TickContinues
    <3> QED
      BY <1>1, <1>6, <2>1, <2>2, <2>4, <3>1, StackAfterReset DEF InEach, ElementsCharged
  <2> QED
    BY <2>1, <2>3, <2>4 DEF Tick, TickAfterError, TickExhausts, TickContinues, Exit
<1>9. CASE TickEach
  <2>1. AtEach /\ Tick /\ visited' = visited \cup {iterator}
    BY <1>9 DEF TickEach, Continue
  <2>2. CASE TickAfterError \/ TickExhausts
    BY <1>4, <1>6, <2>1, <2>2 DEF TickAfterError, TickExhausts, Exit, ElementsCharged
  <2>3. CASE TickContinues
    <3>1. /\ Len(open) \in Nat \ {0} /\ Len(open') = Len(open)
          /\ \A i \in 1..Len(open) : open'[i].loop = open[i].loop
      BY <2>3, StackAfterReset DEF TickContinues
    <3>2. InEach /\ counter' = counter + 1 /\ Each \in loops'
      BY <2>1, <2>3, <3>1 DEF TickContinues, AtEach, InEach, Top
    <3> QED
      BY <1>1, <1>6, <2>1, <3>1, <3>2 DEF ElementsCharged
  <2> QED
    BY <2>1, <2>2, <2>3 DEF Tick
<1>10. CASE UNCHANGED nestVars
  BY <1>10 DEF nestVars, vars, foreachVars, ElementsCharged, InEach
<1> QED
  BY <1>2, <1>3, <1>5, <1>7, <1>8, <1>9, <1>10 DEF NestNext

(* The elements a foreach visits never outnumber the iterations charged,   *)
(* whatever the loops around it and in its body do in between; and the     *)
(* foreach is among the loops that a diagnostic would name.                *)
THEOREM NestChargesElements == NestSpec => []ElementsCharged
<1>1. NestInit => ChargeInv
  <2> SUFFICES ASSUME NestInit PROVE ChargeInv
    OBVIOUS
  <2>1. open = <<>> /\ Len(open) = 0 /\ visited = {}
    BY DEF NestInit, Init, ForeachInit
  <2>2. IsFiniteSet({})
    BY FS_EmptySet
  <2> QED
    BY <2>1, <2>2 DEF ChargeInv, ElementsCharged, InEach
<1>2. ChargeInv => ElementsCharged
  BY DEF ChargeInv
<1> QED
  BY <1>1, <1>2, ChargesKept, NestBudget, PTL DEF NestSpec
=============================================================================
