-------------------------- MODULE FlipFlopsProofs --------------------------
(***************************************************************************)
(* Proofs about clocked processes, for all event lists, chains of          *)
(* conditions, assignments and sets of registers: which edge is taken for  *)
(* the clock and which conditions for resets is what the language says,    *)
(* and the cells then hold what the process stores.                        *)
(***************************************************************************)
EXTENDS FlipFlops, IntervalTheorems, FiniteSetTheorems, SequenceTheorems

Ops == {"not", "inv", "is0", "is1", "wide"}

(* A condition is evaluated one operator after the other.                  *)
OperandOf(f, on, ops, n) ==
  IF n = 0 THEN [bits |-> IF on THEN 1 ELSE 0, max |-> 1] ELSE Applied(f[n - 1], ops[n])

LEMMA OperandDefined ==
  ASSUME NEW ops \in Seq(Ops), NEW on
  PROVE  Operand(on, ops) = [n \in 0..Len(ops) |-> OperandOf(Operand(on, ops), on, ops, n)]
<1> DEFINE V == [bits : Int, max : Int]
           base == [bits |-> IF on THEN 1 ELSE 0, max |-> 1]
           step == [n \in 1..Len(ops) |-> [v \in V |-> Applied(v, ops[n])]]
<1>1. Len(ops) \in Nat /\ \A n \in 1..Len(ops) : ops[n] \in Ops
  OBVIOUS
<1>2. base \in V
  OBVIOUS
<1>3. ASSUME NEW n \in 1..Len(ops), NEW v \in V PROVE step[n][v] \in V
  <2>1. Applied(v, ops[n]) \in V
    BY <1>1 DEF Applied, Ops
  <2> QED
    BY <2>1
<1>4. \A n \in 1..Len(ops) : \A v \in V : step[n][v] = Applied(v, ops[n])
  OBVIOUS
<1> HIDE DEF step, V, base
<1>5. PICK f : Iterates(f, base, step, Len(ops), V)
  BY <1>1, <1>2, <1>3, IterationExists DEF Stays
<1>6. f = [n \in 0..Len(ops) |-> OperandOf(f, on, ops, n)]
  <2> SUFFICES ASSUME NEW n \in 0..Len(ops) PROVE f[n] = OperandOf(f, on, ops, n)
    BY <1>5 DEF Iterates
  <2>1. CASE n = 0
    BY <1>5, <2>1 DEF OperandOf, base, Iterates
  <2>2. CASE n # 0
    <3>1. n \in 1..Len(ops) /\ n - 1 \in 0..Len(ops)
      BY <1>1, <2>2
    <3>2. f[n] = Applied(f[n - 1], ops[n])
      BY <1>4, <1>5, <3>1 DEF Iterates
    <3> QED
      BY <2>2, <3>2 DEF OperandOf
  <2> QED
    BY <2>1, <2>2
<1> QED
  BY <1>6, Zenon DEF Operand, OperandOf

(* Widening lasts until a comparison or a logical negation.                *)
LEMMA WideStep ==
  ASSUME NEW ops, NEW n \in Nat
  PROVE  /\ ~Wide(ops, 0)
         /\ Wide(ops, n + 1) <=>
              ops[n + 1] = "wide" \/ (ops[n + 1] \notin {"not", "is0", "is1"} /\ Wide(ops, n))
<1>1. ~Wide(ops, 0)
  BY DEF Wide
<1> DEFINE Clear(i, m) == \A j \in (i + 1)..m : ops[j] \notin {"not", "is0", "is1"}
<1>2. \A m : Wide(ops, m) <=> \E i \in 1..m : ops[i] = "wide" /\ Clear(i, m)
  BY DEF Wide
<1>3. Clear(n + 1, n + 1)
  OBVIOUS
<1>4. \A i \in 1..n : Clear(i, n + 1) <=> Clear(i, n) /\ ops[n + 1] \notin {"not", "is0", "is1"}
  <2> SUFFICES ASSUME NEW i \in 1..n
               PROVE  \A j : j \in (i + 1)..(n + 1) <=> j \in (i + 1)..n \/ j = n + 1
    OBVIOUS
  <2> QED
    OBVIOUS
<1>5. \A i : i \in 1..(n + 1) <=> i \in 1..n \/ i = n + 1
  OBVIOUS
<1> HIDE DEF Clear
<1> QED
  BY <1>1, <1>2, <1>3, <1>4, <1>5

Inversions(ops, n) == Cardinality({k \in 1..n : ops[k] \in {"not", "inv", "is0"}})

LEMMA InversionsStep ==
  ASSUME NEW ops, NEW n \in Nat
  PROVE  /\ Inversions(ops, 0) = 0 /\ Inversions(ops, n) \in Nat
         /\ Inversions(ops, n + 1) =
              IF ops[n + 1] \in {"not", "inv", "is0"} THEN Inversions(ops, n) + 1
              ELSE Inversions(ops, n)
<1> DEFINE S(m) == {k \in 1..m : ops[k] \in {"not", "inv", "is0"}}
<1>1. S(0) = {}
  OBVIOUS
<1>2. IsFiniteSet(S(n))
  <2>1. IsFiniteSet(1..n)
    BY FS_Interval
  <2> QED
    BY <2>1, FS_Subset
<1>3. S(n + 1) = IF ops[n + 1] \in {"not", "inv", "is0"} THEN S(n) \cup {n + 1} ELSE S(n)
  <2>1. \A k : k \in 1..(n + 1) <=> k \in 1..n \/ k = n + 1
    OBVIOUS
  <2> QED
    BY <2>1
<1>4. n + 1 \notin S(n)
  OBVIOUS
<1>5. \A m : Inversions(ops, m) = Cardinality(S(m))
  BY DEF Inversions
<1> HIDE DEF S
<1>6. Cardinality(S(n)) \in Nat /\ Cardinality(S(n) \cup {n + 1}) = Cardinality(S(n)) + 1
  BY <1>2, <1>4, FS_CardinalityType, FS_AddElement
<1>7. Cardinality(S(0)) = 0
  BY <1>1, FS_EmptySet
<1> QED
  BY ONLY <1>3, <1>5, <1>6, <1>7

(* A condition without an inversion of widened bits holds exactly if the   *)
(* signal has the polarity that is read from it.                           *)
LEMMA ConditionsRead ==
  ASSUME NEW ops \in Seq(Ops), NoWideInversion(ops), NEW on \in BOOLEAN
  PROVE  Holds(on, ops) <=> (on <=> Polarity(ops))
<1> DEFINE x == Operand(on, ops)
           Known(n) == /\ x[n].bits \in {0, 1}
                       /\ x[n].max = IF Wide(ops, n) THEN 3 ELSE 1
                       /\ DOMAIN x[n] = {"bits", "max"}
                       /\ x[n].bits = 1 <=> (on <=> Inversions(ops, n) % 2 = 0)
           S == {n \in 0..Len(ops) : Known(n)}
<1>1. Len(ops) \in Nat /\ \A n \in 1..Len(ops) : ops[n] \in Ops
  OBVIOUS
<1>2. x[0] = [bits |-> IF on THEN 1 ELSE 0, max |-> 1]
  BY <1>1, OperandDefined DEF OperandOf
<1>3. Known(0)
  <2>1. ~Wide(ops, 0) /\ Inversions(ops, 0) = 0
    BY WideStep, InversionsStep
  <2> QED
    BY <1>2, <2>1
<1>4. ASSUME NEW n \in 1..Len(ops), Known(n - 1) PROVE Known(n)
  <2>1. n - 1 \in Nat /\ n \in 0..Len(ops) /\ (n - 1) + 1 = n /\ n # 0
    BY <1>1
  <2>2. x[n] = Applied(x[n - 1], ops[n])
    BY <2>1, OperandDefined DEF OperandOf
  <2>3. Wide(ops, n) <=>
           ops[n] = "wide" \/ (ops[n] \notin {"not", "is0", "is1"} /\ Wide(ops, n - 1))
    BY ONLY <2>1, WideStep
  <2>4. /\ Inversions(ops, n - 1) \in Nat
        /\ Inversions(ops, n) = IF ops[n] \in {"not", "inv", "is0"}
                                THEN Inversions(ops, n - 1) + 1 ELSE Inversions(ops, n - 1)
    BY ONLY <2>1, InversionsStep
  <2>5. ops[n] = "inv" => ~Wide(ops, n - 1)
    BY DEF NoWideInversion
  <2> DEFINE even == Inversions(ops, n - 1) % 2 = 0
  <2>6. Inversions(ops, n) % 2 = 0 <=> IF ops[n] \in {"not", "inv", "is0"} THEN ~even ELSE even
    <3> HIDE DEF Inversions
    <3>1. \A k \in Nat : (k + 1) % 2 = 0 <=> ~(k % 2 = 0)
      OBVIOUS
    <3> QED
      BY <2>4, <3>1
  <2> DEFINE b == x[n - 1].bits
             w == Wide(ops, n - 1)
  <2>7. /\ b \in {0, 1} /\ DOMAIN x[n - 1] = {"bits", "max"}
        /\ x[n - 1].max = IF w THEN 3 ELSE 1
        /\ b = 1 <=> (on <=> even)
    BY <1>4
  <2>8. CASE ops[n] \in {"not", "is0"}
    <3>1. x[n] = [bits |-> IF b = 0 THEN 1 ELSE 0, max |-> 1]
      BY <2>2, <2>8 DEF Applied
    <3> HIDE DEF x, b, w, even
    <3> QED
      BY <3>1, <2>3, <2>6, <2>7, <2>8
  <2>9. CASE ops[n] = "is1"
    <3>1. x[n] = [bits |-> IF b = 1 THEN 1 ELSE 0, max |-> 1]
      BY <2>2, <2>9 DEF Applied
    <3> HIDE DEF x, b, w, even
    <3> QED
      BY <3>1, <2>3, <2>6, <2>7, <2>9
  <2>10. CASE ops[n] = "inv"
    <3>1. x[n] = [x[n - 1] EXCEPT !.bits = x[n - 1].max - @]
      BY <2>2, <2>10 DEF Applied
    <3>2. x[n].bits = 1 - b /\ x[n].max = 1 /\ DOMAIN x[n] = {"bits", "max"}
      BY <3>1, <2>5, <2>7, <2>10
    <3> HIDE DEF x, b, w, even
    <3> QED
      BY <3>2, <2>3, <2>5, <2>6, <2>7, <2>10 DEF w
  <2>11. CASE ops[n] = "wide"
    <3>1. x[n] = [x[n - 1] EXCEPT !.max = 3]
      BY <2>2, <2>11 DEF Applied
    <3>2. x[n].bits = b /\ x[n].max = 3 /\ DOMAIN x[n] = {"bits", "max"}
      BY <3>1, <2>7
    <3> HIDE DEF x, b, w, even
    <3> QED
      BY <3>2, <2>3, <2>6, <2>7, <2>11
  <2> QED
    BY <1>1, <2>8, <2>9, <2>10, <2>11 DEF Ops
<1> HIDE DEF Known
<1>5. 0 \in S /\ \A n \in 1..Len(ops) : n - 1 \in S => n \in S
  BY <1>1, <1>3, <1>4
<1> HIDE DEF S
<1>6. 0..Len(ops) \subseteq S
  BY ONLY <1>1, <1>5, FromZeroInduction
<1>7. Known(Len(ops))
  BY <1>1, <1>6 DEF S
<1>8. Polarity(ops) <=> Inversions(ops, Len(ops)) % 2 = 0
  <2>1. DOMAIN ops = 1..Len(ops)
    OBVIOUS
  <2> QED
    BY <2>1 DEF Polarity, Inversions
<1> QED
  BY <1>7, <1>8 DEF Holds, Known

-----------------------------------------------------------------------------
(* The events that trigger a process.                                      *)
AmongOf(f, p, n) ==
  IF n = 0 THEN <<>>
  ELSE IF IsTrigger(p.events[n]) THEN Append(f[n - 1], p.events[n]) ELSE f[n - 1]

LEMMA AmongDefined ==
  ASSUME NEW p, IsProgram(p)
  PROVE  TriggersAmong(p) = [n \in 0..Len(p.events) |-> AmongOf(TriggersAmong(p), p, n)]
<1> DEFINE V == Seq(Events)
           step == [n \in 1..Len(p.events) |->
                      [v \in V |-> IF IsTrigger(p.events[n]) THEN Append(v, p.events[n]) ELSE v]]
<1>1. Len(p.events) \in Nat /\ \A n \in 1..Len(p.events) : p.events[n] \in Events
  BY DEF IsProgram
<1>2. <<>> \in V
  OBVIOUS
<1>3. ASSUME NEW n \in 1..Len(p.events), NEW v \in V PROVE step[n][v] \in V
  <2>1. Append(v, p.events[n]) \in V
    BY <1>1
  <2> QED
    BY <2>1
<1>4. \A n \in 1..Len(p.events) : \A v \in V :
         step[n][v] = IF IsTrigger(p.events[n]) THEN Append(v, p.events[n]) ELSE v
  OBVIOUS
<1> HIDE DEF step, V
<1>5. PICK f : Iterates(f, <<>>, step, Len(p.events), V)
  BY <1>1, <1>2, <1>3, IterationExists DEF Stays
<1>6. f = [n \in 0..Len(p.events) |-> AmongOf(f, p, n)]
  <2> SUFFICES ASSUME NEW n \in 0..Len(p.events) PROVE f[n] = AmongOf(f, p, n)
    BY <1>5 DEF Iterates
  <2>1. CASE n = 0
    BY <1>5, <2>1 DEF AmongOf, Iterates
  <2>2. CASE n # 0
    <3>1. n \in 1..Len(p.events) /\ n - 1 \in 0..Len(p.events)
      BY <1>1, <2>2
    <3>2. f[n] = IF IsTrigger(p.events[n]) THEN Append(f[n - 1], p.events[n]) ELSE f[n - 1]
      BY <1>4, <1>5, <3>1 DEF Iterates
    <3> QED
      BY <2>2, <3>2 DEF AmongOf
  <2> QED
    BY <2>1, <2>2
<1> QED
  BY <1>6, Zenon DEF TriggersAmong, AmongOf

(* They are events of the process; none is missed, and all are there if    *)
(* every event is a trigger.                                               *)
LEMMA TriggersFacts ==
  ASSUME NEW p, IsProgram(p)
  PROVE  /\ Triggers(p) \in Seq(Events)
         /\ \A i \in 1..Len(Triggers(p)) : IsTrigger(Triggers(p)[i])
         /\ Triggers(p) = <<>> => \A j \in 1..Len(p.events) : ~IsTrigger(p.events[j])
         /\ (\A j \in 1..Len(p.events) : IsTrigger(p.events[j])) => Triggers(p) = p.events
<1> DEFINE t == TriggersAmong(p)
           Events1(n) == t[n] \in Seq(Events) /\ \A i \in 1..Len(t[n]) : IsTrigger(t[n][i])
           None1(n) == t[n] = <<>> => \A j \in 1..n : ~IsTrigger(p.events[j])
           All1(n) == (\A j \in 1..n : IsTrigger(p.events[j])) =>
                         Len(t[n]) = n /\ \A j \in 1..n : t[n][j] = p.events[j]
           S == {n \in 0..Len(p.events) : Events1(n) /\ None1(n) /\ All1(n)}
<1>1. Len(p.events) \in Nat /\ \A n \in 1..Len(p.events) : p.events[n] \in Events
  BY DEF IsProgram
<1>2. t[0] = <<>> /\ 0 \in 0..Len(p.events)
  BY <1>1, AmongDefined DEF AmongOf
<1>3. ASSUME NEW n \in 1..Len(p.events), n - 1 \in S PROVE n \in S
  <2>1. n # 0 /\ n - 1 \in Nat /\ n \in 0..Len(p.events)
        /\ \A j : j \in 1..n <=> j \in 1..(n - 1) \/ j = n
    BY <1>1
  <2>2. t[n] = IF IsTrigger(p.events[n]) THEN Append(t[n - 1], p.events[n]) ELSE t[n - 1]
    BY <2>1, AmongDefined DEF AmongOf
  <2>3. Events1(n - 1) /\ None1(n - 1) /\ All1(n - 1)
    BY <1>3
  <2> HIDE DEF t
  <2>4. CASE IsTrigger(p.events[n])
    <3>1. t[n] = Append(t[n - 1], p.events[n]) /\ p.events[n] \in Events
      BY <1>1, <2>2, <2>4
    <3>2. /\ t[n] \in Seq(Events) /\ t[n] # <<>>
          /\ Len(t[n]) = Len(t[n - 1]) + 1 /\ Len(t[n - 1]) \in Nat
          /\ \A i \in 1..Len(t[n - 1]) : t[n][i] = t[n - 1][i]
          /\ t[n][Len(t[n - 1]) + 1] = p.events[n]
      BY <2>3, <3>1
    <3>3. \A i : i \in 1..Len(t[n]) <=> i \in 1..Len(t[n - 1]) \/ i = Len(t[n - 1]) + 1
      BY <3>2
    <3>4. Events1(n)
      BY <2>3, <2>4, <3>2, <3>3
    <3>5. All1(n)
      BY <2>1, <2>3, <3>2
    <3> QED
      BY <2>1, <3>2, <3>4, <3>5
  <2>5. CASE ~IsTrigger(p.events[n])
    <3>1. t[n] = t[n - 1]
      BY <2>2, <2>5
    <3> QED
      BY <2>1, <2>3, <2>5, <3>1
  <2> QED
    BY <2>4, <2>5
<1>4. 0 \in S
  <2>1. Events1(0) /\ None1(0) /\ All1(0)
    BY <1>2
  <2> QED
    BY <1>2, <2>1
<1> HIDE DEF S
<1>5. 0..Len(p.events) \subseteq S
  BY ONLY <1>1, <1>3, <1>4, FromZeroInduction
<1>6. Len(p.events) \in S
  BY <1>1, <1>5
<1>7. Triggers(p) = t[Len(p.events)]
  BY DEF Triggers
<1> HIDE DEF t
<1>8. (\A j \in 1..Len(p.events) : IsTrigger(p.events[j])) => Triggers(p) = p.events
  <2> SUFFICES ASSUME \A j \in 1..Len(p.events) : IsTrigger(p.events[j])
               PROVE  Triggers(p) = p.events
    OBVIOUS
  <2>1. /\ Triggers(p) \in Seq(Events) /\ p.events \in Seq(Events)
        /\ Len(Triggers(p)) = Len(p.events)
        /\ \A j \in 1..Len(p.events) : Triggers(p)[j] = p.events[j]
    BY <1>6, <1>7 DEF S, IsProgram
  <2> QED
    BY <2>1
<1> QED
  BY <1>6, <1>7, <1>8 DEF S

-----------------------------------------------------------------------------
(* Branches taken off the chain of conditions.                             *)
Loads == [sig : Wires, polarity : BOOLEAN, body : Bodies]
Failures == {"ExpectingIfElseAload", "IfElseAloadMismatch", "IfElseAloadPolarity"}
Accs == [triggers : Seq(Events), async : Seq(Loads), errors : SUBSET Failures, failed : BOOLEAN]

LEMMA PolarityTyped == ASSUME NEW ops PROVE Polarity(ops) \in BOOLEAN
BY DEF Polarity

LEMMA Removed ==
  ASSUME NEW S, NEW s \in Seq(S), NEW k \in 1..Len(s)
  PROVE  /\ RemoveAt(s, k) \in Seq(S) /\ Len(RemoveAt(s, k)) = Len(s) - 1
         /\ \A i \in 1..(Len(s) - 1) :
              RemoveAt(s, k)[i] = IF i < k THEN s[i] ELSE s[i + 1]
<1>1. Len(s) \in Nat /\ \A i \in 1..Len(s) : s[i] \in S
  OBVIOUS
<1> DEFINE a == SubSeq(s, 1, k - 1)
           b == SubSeq(s, k + 1, Len(s))
<1>2. a \in Seq(S) /\ Len(a) = k - 1 /\ \A i \in 1..(k - 1) : a[i] = s[i]
  OBVIOUS
<1>3. b \in Seq(S) /\ Len(b) = Len(s) - k /\ \A i \in 1..(Len(s) - k) : b[i] = s[i + k]
  OBVIOUS
<1>4. RemoveAt(s, k) = a \o b
  BY DEF RemoveAt
<1> HIDE DEF a, b
<1>5. a \o b \in Seq(S) /\ Len(a \o b) = Len(s) - 1
  <2>1. a \o b \in Seq(S) /\ Len(a \o b) = Len(a) + Len(b)
    BY <1>2, <1>3, ConcatProperties
  <2> QED
    BY <1>1, <1>2, <1>3, <2>1
<1>6. ASSUME NEW i \in 1..(Len(s) - 1) PROVE (a \o b)[i] = IF i < k THEN s[i] ELSE s[i + 1]
  <2>1. CASE i < k
    BY <1>1, <1>2, <1>3, <2>1
  <2>2. CASE ~(i < k)
    <3>1. (a \o b)[i] = b[i - (k - 1)]
      BY <1>1, <1>2, <1>3, <2>2
    <3>2. i - (k - 1) \in 1..(Len(s) - k) /\ i - (k - 1) + k = i + 1
      BY <1>1, <2>2
    <3> QED
      BY <1>3, <2>2, <3>1, <3>2
  <2> QED
    BY <2>1, <2>2
<1> QED
  BY <1>4, <1>5, <1>6

(* A branch that is taken has one of the triggers and leaves the others.   *)
Taking(acc, b, k) ==
  /\ acc.triggers[k].sig = b.sig
  /\ \A i \in 1..Len(acc.triggers) : acc.triggers[i].sig = b.sig => k <= i
Load(b) == [sig |-> b.sig, polarity |-> Polarity(b.ops), body |-> b.body]
ActiveEdge(b) == IF Polarity(b.ops) THEN "pos" ELSE "neg"

LEMMA BranchTaken ==
  ASSUME NEW acc \in Accs, NEW b \in Branches, ~acc.failed
  PROVE  LET r == TakeBranch(acc, b)
         IN  /\ r \in Accs
             /\ r.failed => r.errors # {}
             /\ ~r.failed =>
                  \E k \in 1..Len(acc.triggers) :
                    /\ Taking(acc, b, k) /\ Legible(b.ops)
                    /\ r = [triggers |-> RemoveAt(acc.triggers, k),
                            async |-> Append(acc.async, Load(b)),
                            errors |-> IF acc.triggers[k].edge = ActiveEdge(b) THEN acc.errors
                                       ELSE acc.errors \cup {"IfElseAloadPolarity"},
                            failed |-> FALSE]
             /\ Legible(b.ops) /\ (\E k \in 1..Len(acc.triggers) : acc.triggers[k].sig = b.sig)
                  => ~r.failed
<1> DEFINE at == {i \in DOMAIN acc.triggers : acc.triggers[i].sig = b.sig}
           k == CHOOSE i \in at : \A j \in at : i <= j
           r == TakeBranch(acc, b)
<1>1. PICK t \in Seq(Events), a \in Seq(Loads), e \in SUBSET Failures :
         acc = [triggers |-> t, async |-> a, errors |-> e, failed |-> FALSE]
  BY DEF Accs
<1>2. /\ DOMAIN acc.triggers = 1..Len(acc.triggers) /\ Len(acc.triggers) \in Nat
      /\ acc.triggers = t /\ acc.async = a /\ acc.errors = e
  BY <1>1
<1>3. CASE at = {} \/ ~Legible(b.ops)
  <2>1. r = Fail(acc, "IfElseAloadMismatch")
    BY <1>3 DEF TakeBranch
  <2>2. r = [triggers |-> t, async |-> a, errors |-> e \cup {"IfElseAloadMismatch"},
             failed |-> TRUE]
    BY <1>1, <2>1 DEF Fail
  <2>3. r \in Accs
    <3>1. e \cup {"IfElseAloadMismatch"} \in SUBSET Failures
      BY DEF Failures
    <3> QED
      BY <2>2, <3>1 DEF Accs
  <2>4. ~(Legible(b.ops) /\ \E i \in 1..Len(acc.triggers) : acc.triggers[i].sig = b.sig)
    BY <1>2, <1>3
  <2> HIDE DEF r
  <2>5. r.failed /\ r.errors # {}
    BY <2>2
  <2> QED
    BY <2>3, <2>4, <2>5 DEF r
<1>4. CASE at # {} /\ Legible(b.ops)
  <2>1. at \subseteq Nat
    BY <1>2
  <2>2. k \in at /\ \A j \in at : k <= j
    <3> HIDE DEF at
    <3> QED
      BY <1>4, <2>1, LeastExists
  <2>3. k \in 1..Len(acc.triggers) /\ Taking(acc, b, k)
    BY <1>2, <2>2 DEF Taking
  <2>4. r = [acc EXCEPT
              !.errors   = IF acc.triggers[k].edge = ActiveEdge(b) THEN @
                           ELSE @ \cup {"IfElseAloadPolarity"},
              !.triggers = RemoveAt(@, k),
              !.async    = Append(@, Load(b))]
    BY <1>4 DEF TakeBranch, ActiveEdge, Load
  <2> HIDE DEF k, r
  <2>5. r = [triggers |-> RemoveAt(t, k), async |-> Append(a, Load(b)),
             errors |-> IF acc.triggers[k].edge = ActiveEdge(b) THEN e
                        ELSE e \cup {"IfElseAloadPolarity"},
             failed |-> FALSE]
    BY <1>1, <2>4
  <2>6. Load(b) \in Loads
    BY PolarityTyped DEF Load, Loads, Branches
  <2>7. RemoveAt(t, k) \in Seq(Events) /\ Append(a, Load(b)) \in Seq(Loads)
    BY <1>2, <2>3, <2>6, Removed
  <2>8. r \in Accs
    <3>1. e \cup {"IfElseAloadPolarity"} \in SUBSET Failures
      BY DEF Failures
    <3> QED
      BY <2>5, <2>7, <3>1 DEF Accs
  <2>9. ~r.failed
    BY <2>5
  <2> QED
    BY <1>2, <1>4, <2>3, <2>5, <2>8, <2>9 DEF r
<1> QED
  BY <1>3, <1>4

TakenOf(f, p, i) == IF i = 0 THEN Untaken(p) ELSE TakeNext(p, f[i - 1], i)

LEMMA FailureReported ==
  ASSUME NEW acc \in Accs, NEW error \in Failures
  PROVE  /\ Fail(acc, error) \in Accs
         /\ Fail(acc, error).failed /\ Fail(acc, error).errors # {}
<1>1. PICK t \in Seq(Events), a \in Seq(Loads), e \in SUBSET Failures, f \in BOOLEAN :
         acc = [triggers |-> t, async |-> a, errors |-> e, failed |-> f]
  BY DEF Accs
<1>2. Fail(acc, error) = [triggers |-> t, async |-> a, errors |-> e \cup {error},
                          failed |-> TRUE]
  <2> DEFINE d == e \cup {error}
  <2>1. Fail(acc, error) = [acc EXCEPT !.errors = d, !.failed = TRUE]
    BY <1>1 DEF Fail
  <2> HIDE DEF d
  <2>2. Fail(acc, error) = [triggers |-> t, async |-> a, errors |-> d, failed |-> TRUE]
    BY ONLY <1>1, <2>1
  <2> QED
    BY <2>2 DEF d
<1>3. e \cup {error} \in SUBSET Failures
  OBVIOUS
<1> QED
  BY <1>2, <1>3 DEF Accs

LEMMA NextTyped ==
  ASSUME NEW p, IsProgram(p), NEW i \in 1..Len(p.branches), NEW acc \in Accs
  PROVE  TakeNext(p, acc, i) \in Accs
<1>1. p.branches[i] \in Branches /\ acc.failed \in BOOLEAN
  BY DEF IsProgram, Accs
<1>2. Fail(acc, "ExpectingIfElseAload") \in Accs
  BY FailureReported DEF Failures
<1>3. ~acc.failed => TakeBranch(acc, p.branches[i]) \in Accs
  BY <1>1, BranchTaken
<1> QED
  BY <1>1, <1>2, <1>3 DEF TakeNext

LEMMA TakenDefined ==
  ASSUME NEW p, IsProgram(p)
  PROVE  Taken(p) = [i \in 0..Len(p.branches) |-> TakenOf(Taken(p), p, i)]
<1> DEFINE step == [i \in 1..Len(p.branches) |-> [v \in Accs |-> TakeNext(p, v, i)]]
<1>1. Len(p.branches) \in Nat
  BY DEF IsProgram
<1>2. Untaken(p) \in Accs
  BY TriggersFacts DEF Untaken, Accs
<1>3. \A i \in 1..Len(p.branches) : \A v \in Accs : step[i][v] = TakeNext(p, v, i)
  OBVIOUS
<1> HIDE DEF step
<1>4. PICK f : Iterates(f, Untaken(p), step, Len(p.branches), Accs)
  BY <1>1, <1>2, <1>3, NextTyped, IterationExists DEF Stays
<1>5. f = [i \in 0..Len(p.branches) |-> TakenOf(f, p, i)]
  <2> SUFFICES ASSUME NEW i \in 0..Len(p.branches) PROVE f[i] = TakenOf(f, p, i)
    BY <1>4 DEF Iterates
  <2>1. CASE i = 0
    BY <1>4, <2>1 DEF TakenOf, Iterates
  <2>2. CASE i # 0
    <3>1. i \in 1..Len(p.branches) /\ i - 1 \in 0..Len(p.branches)
      BY <1>1, <2>2
    <3>2. f[i] = TakeNext(p, f[i - 1], i)
      BY <1>3, <1>4, <3>1 DEF Iterates
    <3> QED
      BY <2>2, <3>2 DEF TakenOf
  <2> QED
    BY <2>1, <2>2
<1> QED
  BY <1>5, Zenon DEF Taken, TakenOf

LEMMA TakenSteps ==
  ASSUME NEW p, IsProgram(p)
  PROVE  /\ Len(p.branches) \in Nat /\ Taken(p)[0] = Untaken(p)
         /\ \A i \in 1..Len(p.branches) : Taken(p)[i] = TakeNext(p, Taken(p)[i - 1], i)
         /\ \A i \in 0..Len(p.branches) : Taken(p)[i] \in Accs
<1> DEFINE S == {i \in 0..Len(p.branches) : Taken(p)[i] \in Accs}
<1>1. Len(p.branches) \in Nat
  BY DEF IsProgram
<1>2. Taken(p)[0] = Untaken(p)
  BY <1>1, TakenDefined DEF TakenOf
<1>3. ASSUME NEW i \in 1..Len(p.branches)
      PROVE  Taken(p)[i] = TakeNext(p, Taken(p)[i - 1], i)
  <2>1. i \in 0..Len(p.branches) /\ i # 0
    BY <1>1
  <2> QED
    BY <2>1, TakenDefined DEF TakenOf
<1>4. 0 \in S
  <2>1. Untaken(p) \in Accs
    BY TriggersFacts DEF Untaken, Accs
  <2> QED
    BY <1>1, <1>2, <2>1
<1>5. \A i \in 1..Len(p.branches) : i - 1 \in S => i \in S
  BY <1>1, <1>3, NextTyped
<1> HIDE DEF S
<1>6. 0..Len(p.branches) \subseteq S
  BY ONLY <1>1, <1>4, <1>5, FromZeroInduction
<1> QED
  BY <1>1, <1>2, <1>3, <1>6 DEF S

(* Once one trigger is left, or one branch has failed, nothing is taken.   *)
LEMMA SettledStays ==
  ASSUME NEW p, IsProgram(p), NEW m \in 0..Len(p.branches),
         Taken(p)[m].failed \/ Len(Taken(p)[m].triggers) = 1
  PROVE  Taken(p)[Len(p.branches)] = Taken(p)[m]
<1> DEFINE S == {i \in m..Len(p.branches) : Taken(p)[i] = Taken(p)[m]}
<1>1. Len(p.branches) \in Nat /\ m \in S /\ Len(p.branches) \in m..Len(p.branches)
  BY TakenSteps
<1>2. ASSUME NEW i \in m + 1..Len(p.branches), i - 1 \in S PROVE i \in S
  <2>1. i \in 1..Len(p.branches) /\ i \in m..Len(p.branches)
    BY <1>1
  <2>2. Taken(p)[i] = TakeNext(p, Taken(p)[i - 1], i)
    BY <2>1, TakenSteps
  <2>3. TakeNext(p, Taken(p)[m], i) = Taken(p)[m]
    BY DEF TakeNext
  <2> QED
    BY <1>2, <2>1, <2>2, <2>3
<1> HIDE DEF S
<1>3. m..Len(p.branches) \subseteq S
  BY ONLY <1>1, <1>2, m \in 0..Len(p.branches), StepwiseInduction
<1> QED
  BY <1>1, <1>3 DEF S

(* Each branch taken accounts for a trigger; a failure is reported.        *)
Accounted(acc, p, i) ==
  /\ acc.failed => acc.errors # {}
  /\ ~acc.failed =>
       /\ Len(acc.triggers) >= 1 /\ Len(acc.async) <= i
       /\ Len(acc.triggers) + Len(acc.async) = Len(Triggers(p))

LEMMA NextAccounted ==
  ASSUME NEW p, IsProgram(p), NEW i \in 1..Len(p.branches), NEW acc \in Accs,
         Accounted(acc, p, i - 1)
  PROVE  Accounted(TakeNext(p, acc, i), p, i)
<1>1. /\ p.branches[i] \in Branches /\ acc.failed \in BOOLEAN /\ i \in Nat
      /\ acc.triggers \in Seq(Events) /\ acc.async \in Seq(Loads)
      /\ Len(acc.triggers) \in Nat /\ Len(acc.async) \in Nat
  BY DEF IsProgram, Accs
<1>2. Len(Triggers(p)) \in Nat
  BY TriggersFacts
<1>3. CASE acc.failed \/ Len(acc.triggers) = 1
  <2>1. TakeNext(p, acc, i) = acc
    BY <1>1, <1>3 DEF TakeNext
  <2>2. \A n \in Nat : n <= i - 1 => n <= i
    OBVIOUS
  <2>3. Accounted(acc, p, i)
    <3>1. acc.failed => acc.errors # {}
      BY DEF Accounted
    <3>2. ~acc.failed => /\ Len(acc.triggers) >= 1 /\ Len(acc.async) <= i
                         /\ Len(acc.triggers) + Len(acc.async) = Len(Triggers(p))
      BY ONLY <1>1, <2>2, Accounted(acc, p, i - 1) DEF Accounted
    <3> QED
      BY ONLY <3>1, <3>2 DEF Accounted
  <2> QED
    BY <2>1, <2>3
<1>4. CASE ~(acc.failed \/ Len(acc.triggers) = 1) /\ i = Len(p.branches) /\ p.sync = None
  <2>1. TakeNext(p, acc, i) = Fail(acc, "ExpectingIfElseAload")
    BY <1>4 DEF TakeNext
  <2>2. /\ Fail(acc, "ExpectingIfElseAload").failed
        /\ Fail(acc, "ExpectingIfElseAload").errors # {}
    BY FailureReported DEF Failures
  <2> QED
    BY <2>1, <2>2 DEF Accounted
<1>5. CASE /\ ~(acc.failed \/ Len(acc.triggers) = 1)
           /\ ~(i = Len(p.branches) /\ p.sync = None)
  <2> DEFINE r == TakeBranch(acc, p.branches[i])
  <2>1. TakeNext(p, acc, i) = r
    BY <1>5 DEF TakeNext
  <2>2. r.failed => r.errors # {}
    BY <1>1, <1>5, BranchTaken
  <2>3. ASSUME ~r.failed
        PROVE  /\ Len(r.triggers) = Len(acc.triggers) - 1
               /\ Len(r.async) = Len(acc.async) + 1
    <3>1. PICK k \in 1..Len(acc.triggers) :
             /\ r.triggers = RemoveAt(acc.triggers, k)
             /\ r.async = Append(acc.async, Load(p.branches[i]))
      BY <1>1, <1>5, <2>3, BranchTaken
    <3> HIDE DEF r
    <3> QED
      BY <1>1, <3>1, Removed
  <2> HIDE DEF r
  <2>4. /\ Len(acc.triggers) >= 1 /\ Len(acc.async) <= i - 1
        /\ Len(acc.triggers) + Len(acc.async) = Len(Triggers(p))
    BY <1>5 DEF Accounted
  <2>5. ~r.failed => /\ Len(r.triggers) >= 1 /\ Len(r.async) <= i
                     /\ Len(r.triggers) + Len(r.async) = Len(Triggers(p))
    <3>1. \A t, a \in Nat : t >= 1 /\ t # 1 /\ a <= i - 1 =>
            t - 1 >= 1 /\ a + 1 <= i /\ (t - 1) + (a + 1) = t + a
      OBVIOUS
    <3> QED
      BY ONLY <1>1, <1>5, <2>3, <2>4, <3>1
  <2> QED
    BY <2>1, <2>2, <2>5 DEF Accounted
<1> QED
  BY <1>3, <1>4, <1>5

LEMMA TakenAccounted ==
  ASSUME NEW p, IsProgram(p), Triggers(p) # <<>>, NEW i \in 0..Len(p.branches)
  PROVE  Accounted(Taken(p)[i], p, i)
<1> DEFINE S == {j \in 0..Len(p.branches) : Accounted(Taken(p)[j], p, j)}
<1>1. Len(p.branches) \in Nat
  BY TakenSteps
<1>2. 0 \in S
  <2>1. Triggers(p) \in Seq(Events) /\ Len(Triggers(p)) >= 1
    BY TriggersFacts
  <2>2. Taken(p)[0] = Untaken(p) /\ Untaken(p).failed = FALSE
        /\ Untaken(p).triggers = Triggers(p) /\ Untaken(p).async = <<>>
    BY TakenSteps DEF Untaken
  <2>3. Accounted(Taken(p)[0], p, 0)
    BY <2>1, <2>2 DEF Accounted
  <2> QED
    BY <1>1, <2>3
<1>3. ASSUME NEW j \in 1..Len(p.branches), j - 1 \in S PROVE j \in S
  <2>1. j - 1 \in 0..Len(p.branches) /\ j \in 0..Len(p.branches)
    BY <1>1
  <2>2. Taken(p)[j - 1] \in Accs /\ Taken(p)[j] = TakeNext(p, Taken(p)[j - 1], j)
    BY <2>1, TakenSteps
  <2>3. Accounted(Taken(p)[j - 1], p, j - 1)
    BY <1>3
  <2> QED
    BY <2>1, <2>2, <2>3, NextAccounted
<1> HIDE DEF S
<1>4. 0..Len(p.branches) \subseteq S
  BY ONLY <1>1, <1>2, <1>3, FromZeroInduction
<1> QED
  BY <1>4 DEF S

-----------------------------------------------------------------------------
(* What a process becomes.                                                 *)
LEMMA PatternTaken ==
  ASSUME NEW p, IsProgram(p), Triggers(p) # <<>>
  PROVE  LET a == AsyncPattern(p)
         IN  /\ a \in Accs
             /\ a.failed => a.errors # {}
             /\ ~a.failed => /\ a = Taken(p)[Len(p.branches)]
                             /\ Len(a.triggers) = 1 /\ Len(a.async) <= Len(p.branches)
                             /\ Len(a.async) + 1 = Len(Triggers(p))
<1> DEFINE all == Taken(p)[Len(p.branches)]
<1>1. Len(p.branches) \in Nat /\ all \in Accs /\ Accounted(all, p, Len(p.branches))
  <2>1. Len(p.branches) \in 0..Len(p.branches)
    BY TakenSteps
  <2> QED
    BY <2>1, TakenSteps, TakenAccounted
<1>2. /\ Len(all.triggers) \in Nat /\ Len(all.async) \in Nat /\ all.failed \in BOOLEAN
      /\ Len(Triggers(p)) \in Nat
  BY <1>1, TriggersFacts DEF Accs
<1>3. AsyncPattern(p) = IF ~all.failed /\ Len(all.triggers) > 1
                        THEN Fail(all, "ExpectingIfElseAload") ELSE all
  BY DEF AsyncPattern
<1> HIDE DEF all
<1>4. CASE ~all.failed /\ Len(all.triggers) > 1
  <2>1. /\ Fail(all, "ExpectingIfElseAload") \in Accs
        /\ Fail(all, "ExpectingIfElseAload").failed
        /\ Fail(all, "ExpectingIfElseAload").errors # {}
    BY <1>1, FailureReported DEF Failures
  <2> QED
    BY <1>3, <1>4, <2>1
<1>5. CASE all.failed
  BY <1>1, <1>3, <1>5 DEF Accounted
<1>6. CASE ~all.failed /\ ~(Len(all.triggers) > 1)
  <2>1. /\ Len(all.triggers) >= 1 /\ Len(all.async) <= Len(p.branches)
        /\ Len(all.triggers) + Len(all.async) = Len(Triggers(p))
    BY <1>1, <1>6 DEF Accounted
  <2>2. Len(all.triggers) = 1
    <3>1. \A n \in Nat : n >= 1 /\ ~(n > 1) => n = 1
      OBVIOUS
    <3> QED
      BY ONLY <1>2, <1>6, <2>1, <3>1
  <2> QED
    BY <1>1, <1>2, <1>3, <1>6, <2>1, <2>2 DEF all
<1> QED
  BY <1>4, <1>5, <1>6

FlipFlop(p, a) ==
  [kind |-> "ff", errors |-> TimingErrors(p) \cup a.errors,
   clock |-> a.triggers[1], async |-> a.async,
   rest |-> SubSeq(p.branches, Len(a.async) + 1, Len(p.branches))]

(* There is an error for an event that is not a trigger.                   *)
LEMMA TimingReported ==
  ASSUME NEW p, IsProgram(p), ~Implicit(p),
         NEW j \in 1..Len(p.events), ~IsTrigger(p.events[j])
  PROVE  TimingErrors(p) # {}
<1> DEFINE e == p.events[j]
<1>1. e \in Events /\ ~IsTrigger(e) /\ e.edge \in EdgesIn(p)
  BY DEF IsProgram, EdgesIn
<1> HIDE DEF e
<1>2. \/ e.edge \in {"level", "star"}
      \/ e.edge = "both" /\ ~AllowDualEdge
      \/ e.edge = "delay"
  BY <1>1 DEF IsTrigger, Events
<1>3. p.always_ff \in BOOLEAN /\ IgnoreTiming \in BOOLEAN
  BY OptionsAssumption DEF IsProgram
<1>4. CASE e.edge \in {"level", "star"}
  <2>1. EdgesIn(p) \cap {"level", "star"} # {}
    BY <1>1, <1>4
  <2>2. "AlwaysFFBadTiming" \in TimingErrors(p)
    BY <2>1, <1>3 DEF Implicit, TimingErrors
  <2> QED
    BY <2>2
<1>5. CASE e.edge = "both" /\ ~AllowDualEdge
  <2>1. "BothEdgesUnsupported" \in TimingErrors(p)
    BY <1>1, <1>5 DEF TimingErrors
  <2> QED
    BY <2>1
<1>6. CASE e.edge = "delay"
  <2>1. "GenericTimingUnsyn" \in TimingErrors(p)
    BY <1>1, <1>3, <1>6 DEF Implicit, TimingErrors
  <2> QED
    BY <2>1
<1> QED
  BY <1>2, <1>4, <1>5, <1>6

LEMMA Interpreted ==
  ASSUME NEW p, IsProgram(p)
  PROVE  /\ Interpret(p).kind = "nothing" => Interpret(p).errors # {}
         /\ Interpret(p).kind = "ff" =>
              /\ ~Implicit(p) /\ Triggers(p) # <<>> /\ ~AsyncPattern(p).failed
              /\ Interpret(p) = FlipFlop(p, AsyncPattern(p))
<1> DEFINE a == AsyncPattern(p)
<1>1. CASE Implicit(p)
  <2>1. Interpret(p) = [kind |-> "comb", errors |-> TimingErrors(p)]
    BY <1>1 DEF Interpret
  <2> QED
    BY <2>1
<1>2. CASE ~Implicit(p) /\ Triggers(p) = <<>>
  <2>1. Interpret(p) = [kind |-> "nothing", errors |-> TimingErrors(p)]
    BY <1>2 DEF Interpret
  <2>2. 1 \in 1..Len(p.events)
    BY DEF IsProgram
  <2> QED
    BY <1>2, <2>1, <2>2, TimingReported, TriggersFacts
<1>3. CASE ~Implicit(p) /\ Triggers(p) # <<>> /\ a.failed
  <2>1. Interpret(p) = [kind |-> "nothing", errors |-> TimingErrors(p) \cup a.errors]
    BY <1>3 DEF Interpret
  <2>2. a.errors # {}
    BY <1>3, PatternTaken
  <2> HIDE DEF a
  <2>3. TimingErrors(p) \cup a.errors # {}
    BY <2>2
  <2> QED
    BY <2>1, <2>3
<1>4. CASE ~Implicit(p) /\ Triggers(p) # <<>> /\ ~a.failed
  <2>1. Interpret(p) = FlipFlop(p, a)
    BY <1>4 DEF Interpret, FlipFlop
  <2>2. FlipFlop(p, a).kind = "ff"
    BY DEF FlipFlop
  <2> QED
    BY <1>4, <2>1, <2>2
<1> QED
  BY <1>1, <1>2, <1>3, <1>4

-----------------------------------------------------------------------------
(* Types.                                                                  *)
LEMMA Dropped ==
  ASSUME NEW S, NEW s \in Seq(S), NEW m \in Nat, m <= Len(s)
  PROVE  /\ SubSeq(s, m + 1, Len(s)) \in Seq(S)
         /\ Len(SubSeq(s, m + 1, Len(s))) = Len(s) - m
         /\ \A i \in 1..(Len(s) - m) : SubSeq(s, m + 1, Len(s))[i] = s[m + i]
OBVIOUS

LEMMA NetTyped ==
  ASSUME NEW p, IsProgram(p), Interpret(p).kind = "ff"
  PROVE  LET n == Interpret(p)
         IN  /\ n.clock \in Events /\ n.async \in Seq(Loads) /\ n.rest \in Seq(Branches)
             /\ n.rest = SubSeq(p.branches, Len(n.async) + 1, Len(p.branches))
             /\ n.errors = TimingErrors(p) \cup AsyncPattern(p).errors
             /\ Len(n.async) + 1 = Len(Triggers(p))
             /\ Len(n.rest) + Len(n.async) = Len(p.branches)
<1> DEFINE a == AsyncPattern(p)
           n == Interpret(p)
<1>1. /\ Triggers(p) # <<>> /\ ~a.failed /\ n = FlipFlop(p, a)
  BY Interpreted
<1>2. /\ a \in Accs /\ Len(a.triggers) = 1 /\ Len(a.async) <= Len(p.branches)
      /\ Len(a.async) + 1 = Len(Triggers(p))
  BY <1>1, PatternTaken
<1>3. p.branches \in Seq(Branches)
  BY DEF IsProgram
<1> HIDE DEF a, n
<1>4. /\ n.clock = a.triggers[1] /\ n.async = a.async
      /\ n.errors = TimingErrors(p) \cup a.errors
      /\ n.rest = SubSeq(p.branches, Len(a.async) + 1, Len(p.branches))
  BY <1>1 DEF FlipFlop
<1>5. a.triggers \in Seq(Events) /\ a.async \in Seq(Loads)
  BY <1>2 DEF Accs
<1>6. n.clock \in Events
  BY <1>2, <1>4, <1>5
<1>7. /\ SubSeq(p.branches, Len(a.async) + 1, Len(p.branches)) \in Seq(Branches)
      /\ Len(SubSeq(p.branches, Len(a.async) + 1, Len(p.branches))) + Len(a.async)
            = Len(p.branches)
  <2>1. Len(p.branches) \in Nat /\ Len(a.async) \in Nat
    BY <1>3, <1>5
  <2>2. /\ SubSeq(p.branches, Len(a.async) + 1, Len(p.branches)) \in Seq(Branches)
        /\ Len(SubSeq(p.branches, Len(a.async) + 1, Len(p.branches)))
              = Len(p.branches) - Len(a.async)
    BY ONLY <1>2, <1>3, <2>1, Dropped
  <2>3. \A x, y \in Nat : (x - y) + y = x
    OBVIOUS
  <2> QED
    BY ONLY <2>1, <2>2, <2>3
<1> QED
  BY <1>2, <1>4, <1>5, <1>6, <1>7 DEF a, n

LEMMA OverTyped ==
  ASSUME NEW first \in Bodies, NEW second \in Bodies
  PROVE  /\ Over(first, second) \in Bodies
         /\ \A v \in Vars : Over(first, second)[v] =
                              IF second[v] = "keep" THEN first[v] ELSE second[v]
BY DEF Over, Bodies

LEMMA ValueTyped ==
  ASSUME NEW x \in Values, NEW w \in [Wires -> BOOLEAN], NEW q \in BOOLEAN
  PROVE  Value(x, w, q) \in BOOLEAN
BY ProgramAssumption DEF Value, Values

LEMMA SelectedTyped ==
  ASSUME NEW branches \in Seq(Branches), NEW sync, sync = None \/ sync \in Bodies, NEW w
  PROVE  Selected(branches, sync, w) \in Bodies
<1> DEFINE on == {i \in DOMAIN branches : Holds(w[branches[i].sig], branches[i].ops)}
           k == CHOOSE i \in on : \A j \in on : i <= j
<1>1. DOMAIN branches \subseteq Nat /\ \A i \in DOMAIN branches : branches[i].body \in Bodies
  <2>1. \A i \in DOMAIN branches : branches[i] \in Branches /\ i \in Nat
    OBVIOUS
  <2> QED
    BY <2>1 DEF Branches
<1>2. CASE on # {}
  <2>1. on \subseteq Nat
    BY <1>1
  <2>2. k \in on
    <3> HIDE DEF on
    <3> QED
      BY <1>2, <2>1, LeastExists
  <2>3. Selected(branches, sync, w) = branches[k].body
    BY <1>2, Zenon DEF Selected
  <2>4. k \in DOMAIN branches
    BY <2>2
  <2> QED
    BY <1>1, <2>3, <2>4
<1>3. CASE on = {}
  <2>1. Selected(branches, sync, w) = IF sync = None THEN Keep ELSE sync
    BY <1>3, Zenon DEF Selected
  <2>2. Keep \in Bodies
    BY DEF Keep, Bodies, Values
  <2> QED
    BY <2>1, <2>2
<1> QED
  BY <1>2, <1>3

Typed ==
  /\ prog \in Programs /\ net = Interpret(prog)
  /\ wires \in [Wires -> BOOLEAN] /\ regs \in [Vars -> BOOLEAN]
  /\ cells \in [Vars -> [BOOLEAN -> BOOLEAN]]

LEMMA AcceptedTyped ==
  ASSUME Typed, Accepted
  PROVE  /\ IsProgram(prog) /\ prog.prologue \in Bodies
         /\ prog.sync = None \/ prog.sync \in Bodies
         /\ net.clock \in Events /\ net.async \in Seq(Loads) /\ net.rest \in Seq(Branches)
         /\ net.async # <<>> => net.async[1] \in Loads
<1>1. IsProgram(prog) /\ Interpret(prog).kind = "ff" /\ net = Interpret(prog)
  BY ProgramAssumption DEF Typed, Accepted
<1>2. net.clock \in Events /\ net.async \in Seq(Loads) /\ net.rest \in Seq(Branches)
  BY <1>1, NetTyped
<1>3. net.async # <<>> => net.async[1] \in Loads
  BY <1>2
<1> QED
  BY <1>1, <1>2, <1>3 DEF IsProgram

LEMMA DataTyped ==
  ASSUME Typed, Accepted, NEW v \in Vars, NEW w \in [Wires -> BOOLEAN], NEW q \in BOOLEAN
  PROVE  /\ D(v, w, q) \in BOOLEAN
         /\ net.async # <<>> => AD(v, w, q) \in BOOLEAN
<1>1. D(v, w, q) \in BOOLEAN
  <2> DEFINE b == Over(prog.prologue, Selected(net.rest, prog.sync, w))
  <2>1. b \in Bodies
    BY AcceptedTyped, SelectedTyped, OverTyped
  <2>2. b[v] \in Values
    BY <2>1 DEF Bodies
  <2>3. D(v, w, q) = Value(b[v], w, q)
    BY DEF D
  <2> HIDE DEF b
  <2> QED
    BY <2>2, <2>3, ValueTyped
<1>2. ASSUME net.async # <<>> PROVE AD(v, w, q) \in BOOLEAN
  <2> DEFINE b == Over(prog.prologue, net.async[1].body)
  <2>1. net.async[1].body \in Bodies
    BY <1>2, AcceptedTyped DEF Loads
  <2>2. b \in Bodies
    BY <2>1, AcceptedTyped, OverTyped
  <2>3. b[v] \in Values
    BY <2>2 DEF Bodies
  <2>4. AD(v, w, q) = Value(b[v], w, q)
    BY DEF AD
  <2> HIDE DEF b
  <2> QED
    BY <2>3, <2>4, ValueTyped
<1> QED
  BY <1>1, <1>2

LEMMA OutTyped ==
  ASSUME Typed, Accepted, NEW v \in Vars,
         NEW c \in [Vars -> [BOOLEAN -> BOOLEAN]], NEW w \in [Wires -> BOOLEAN]
  PROVE  Q(v, c, w) \in BOOLEAN
<1>1. net.clock.sig \in Wires
  BY AcceptedTyped DEF Events
<1> QED
  BY <1>1 DEF Q

LEMMA HalvesTyped ==
  ASSUME Typed, Accepted, NEW v \in Vars, NEW w \in [Wires -> BOOLEAN], NEW x \in Wires,
         NEW p \in BOOLEAN, NEW q \in BOOLEAN, NEW out \in BOOLEAN
  PROVE  Halved(v, w, x, p, q, out) \in BOOLEAN /\ Enabled(v, w, x, p, q, out) \in BOOLEAN
<1>1. Loading(w) => net.async # <<>>
  BY DEF Loading
<1> QED
  BY <1>1, DataTyped, Zenon DEF Halved, Enabled

LEMMA ClockedTyped ==
  ASSUME Typed, Accepted, NEW v \in Vars, NEW w \in [Wires -> BOOLEAN], NEW x \in Wires
  PROVE  Clocked(v, w, x) \in [BOOLEAN -> BOOLEAN]
<1> DEFINE out == Q(v, cells, wires)
           rising == net.clock.edge = "pos"
<1>1. out \in BOOLEAN /\ rising \in BOOLEAN /\ cells[v] \in [BOOLEAN -> BOOLEAN]
  BY OutTyped DEF Typed
<1>2. CellKind(net, v) \in {"dual", "dff", "aldff", "dffe"}
  BY DEF CellKind
<1>3. CASE CellKind(net, v) = "dual"
  <2>1. Clocked(v, w, x) = [p \in BOOLEAN |-> Halved(v, w, x, p, cells[v][p], out)]
    BY <1>3 DEF Clocked
  <2> HIDE DEF out
  <2> QED
    BY <1>1, <2>1, HalvesTyped
<1>4. CASE CellKind(net, v) \in {"dff", "aldff"}
  <2> DEFINE new == Halved(v, w, x, rising, cells[v][TRUE], out)
  <2>1. Clocked(v, w, x) = [cells[v] EXCEPT ![TRUE] = new]
    BY <1>4 DEF Clocked
  <2> HIDE DEF out, rising
  <2>2. cells[v][TRUE] \in BOOLEAN
    BY <1>1
  <2>3. new \in BOOLEAN
    BY <1>1, <2>2, HalvesTyped, Zenon
  <2> HIDE DEF new
  <2> QED
    BY ONLY <1>1, <2>1, <2>3
<1>5. CASE CellKind(net, v) = "dffe"
  <2> DEFINE new == Enabled(v, w, x, rising, cells[v][TRUE], out)
  <2>1. Clocked(v, w, x) = [cells[v] EXCEPT ![TRUE] = new]
    BY <1>5 DEF Clocked
  <2> HIDE DEF out, rising
  <2>2. cells[v][TRUE] \in BOOLEAN
    BY <1>1
  <2>3. new \in BOOLEAN
    BY <1>1, <2>2, HalvesTyped, Zenon
  <2> HIDE DEF new
  <2> QED
    BY ONLY <1>1, <2>1, <2>3
<1> QED
  BY <1>2, <1>3, <1>4, <1>5

LEMMA TypedStep ==
  ASSUME Typed, [Next]_vars
  PROVE  Typed'
<1>1. CASE UNCHANGED vars
  BY <1>1 DEF vars, Typed
<1>2. CASE Next
  <2>1. PICK x \in Wires : Toggle(x)
    BY <1>2 DEF Next
  <2> DEFINE w == [wires EXCEPT ![x] = ~@]
             body == Over(prog.prologue, Selected(prog.branches, prog.sync, w))
             executes == \E i \in DOMAIN prog.events : Edge(prog.events[i], w, x)
  <2>2. /\ Accepted /\ wires' = w /\ prog' = prog /\ net' = net
        /\ regs' = IF executes THEN [v \in Vars |-> Value(body[v], w, regs[v])] ELSE regs
        /\ cells' = [v \in Vars |-> Clocked(v, w, x)]
    BY <2>1 DEF Toggle
  <2>3. w \in [Wires -> BOOLEAN]
    BY DEF Typed
  <2>4. body \in Bodies
    BY <2>2, AcceptedTyped, SelectedTyped, OverTyped DEF IsProgram
  <2> HIDE DEF w, body, executes
  <2>5. regs' \in [Vars -> BOOLEAN]
    <3>1. \A v \in Vars : Value(body[v], w, regs[v]) \in BOOLEAN
      BY <2>3, <2>4, ValueTyped DEF Typed, Bodies
    <3> QED
      BY <2>2, <3>1 DEF Typed
  <2>6. cells' \in [Vars -> [BOOLEAN -> BOOLEAN]]
    BY <2>2, <2>3, ClockedTyped
  <2> QED
    BY <2>2, <2>3, <2>5, <2>6 DEF Typed
<1> QED
  BY <1>1, <1>2

LEMMA TypedAlways == Spec => []Typed
<1>1. Init => Typed
  BY DEF Init, Typed
<1>2. Typed /\ [Next]_vars => Typed'
  BY TypedStep
<1> QED
  BY <1>1, <1>2, PTL DEF Spec

(* A process is elaborated or reported, one of its edges is the clock and  *)
(* every other one has a branch.                                           *)
THEOREM TypeCorrect == Spec => []TypeOK
<1>1. Typed => TypeOK
  <2> SUFFICES ASSUME Typed PROVE TypeOK
    OBVIOUS
  <2>1. IsProgram(prog) /\ net = Interpret(prog)
    BY ProgramAssumption DEF Typed
  <2>2. net.kind = "nothing" => Errors(net) # {}
    BY <2>1, Interpreted DEF Errors
  <2>3. net.kind = "ff" => /\ Len(net.async) + 1 = Len(Triggers(prog))
                           /\ Len(net.rest) + Len(net.async) = Len(prog.branches)
    BY <2>1, NetTyped
  <2> QED
    BY <2>2, <2>3 DEF TypeOK, Typed
<1> QED
  BY <1>1, TypedAlways, PTL

-----------------------------------------------------------------------------
(* Processes with one reset: the first branch has one of the two triggers, *)
(* the other one is the clock.                                             *)
LEMMA FirstBranch ==
  ASSUME NEW p, IsProgram(p), Len(Triggers(p)) = 2, Len(p.branches) >= 1
  PROVE  /\ Untaken(p) \in Accs /\ ~Untaken(p).failed /\ Untaken(p).triggers = Triggers(p)
         /\ Untaken(p).async = <<>> /\ Untaken(p).errors = {}
         /\ p.branches[1] \in Branches /\ 1 \in 0..Len(p.branches)
         /\ Taken(p)[1] \in Accs
         /\ ~(Len(p.branches) = 1 /\ p.sync = None) =>
               Taken(p)[1] = TakeBranch(Untaken(p), p.branches[1])
         /\ Len(p.branches) = 1 /\ p.sync = None => Taken(p)[1].failed
<1>1. /\ Untaken(p) \in Accs /\ ~Untaken(p).failed /\ Untaken(p).triggers = Triggers(p)
      /\ Untaken(p).async = <<>> /\ Untaken(p).errors = {}
  <2>1. Untaken(p) \in Accs
    BY TriggersFacts DEF Untaken, Accs
  <2> QED
    BY <2>1 DEF Untaken
<1>2. Len(p.branches) \in Nat /\ 1 \in 1..Len(p.branches) /\ 1 \in 0..Len(p.branches)
  BY TakenSteps
<1>3. p.branches[1] \in Branches
  BY <1>2 DEF IsProgram
<1>4. Taken(p)[1] = TakeNext(p, Untaken(p), 1) /\ Taken(p)[1] \in Accs
  BY <1>2, TakenSteps
<1>5. TakeNext(p, Untaken(p), 1) =
        IF 1 = Len(p.branches) /\ p.sync = None
        THEN Fail(Untaken(p), "ExpectingIfElseAload")
        ELSE TakeBranch(Untaken(p), p.branches[1])
  BY <1>1 DEF TakeNext
<1>6. Fail(Untaken(p), "ExpectingIfElseAload").failed
  BY <1>1, FailureReported DEF Failures
<1> QED
  BY <1>1, <1>2, <1>3, <1>4, <1>5, <1>6

(* The branch b takes the trigger k of the two.                            *)
Splits(t, b, k) ==
  /\ t[k].sig = b.sig /\ Legible(b.ops)
  /\ \A i \in 1..2 : t[i].sig = b.sig => k <= i

LEMMA OneTaken ==
  ASSUME NEW p, IsProgram(p), Len(Triggers(p)) = 2, Len(p.branches) >= 1,
         ~Taken(p)[1].failed
  PROVE  \E k \in 1..2 :
           /\ Splits(Triggers(p), p.branches[1], k)
           /\ ~AsyncPattern(p).failed
           /\ AsyncPattern(p).triggers[1] = Triggers(p)[3 - k]
           /\ AsyncPattern(p).async = <<Load(p.branches[1])>>
           /\ AsyncPattern(p).errors =
                IF Triggers(p)[k].edge = ActiveEdge(p.branches[1]) THEN {}
                ELSE {"IfElseAloadPolarity"}
<1> DEFINE t == Triggers(p)
           b == p.branches[1]
           u == Untaken(p)
           r == TakeBranch(u, b)
<1>1. /\ u \in Accs /\ ~u.failed /\ u.triggers = t /\ u.async = <<>> /\ u.errors = {}
      /\ b \in Branches /\ 1 \in 0..Len(p.branches)
      /\ Taken(p)[1] = r /\ r \in Accs /\ ~r.failed
  BY FirstBranch
<1>2. t \in Seq(Events) /\ Len(t) = 2 /\ t # <<>>
  BY TriggersFacts
<1>3. PICK k \in 1..Len(u.triggers) :
        /\ Taking(u, b, k) /\ Legible(b.ops)
        /\ r = [triggers |-> RemoveAt(u.triggers, k), async |-> Append(u.async, Load(b)),
                errors |-> IF u.triggers[k].edge = ActiveEdge(b) THEN u.errors
                           ELSE u.errors \cup {"IfElseAloadPolarity"},
                failed |-> FALSE]
  <2> HIDE DEF u, b
  <2> QED
    BY <1>1, BranchTaken DEF r
<1>4. k \in 1..2 /\ Splits(t, b, k)
  <2> HIDE DEF t, b, u
  <2> QED
    BY <1>1, <1>2, <1>3 DEF Taking, Splits
<1>5. Len(RemoveAt(t, k)) = 1 /\ RemoveAt(t, k)[1] = t[3 - k]
  <2> HIDE DEF t
  <2>1. /\ Len(RemoveAt(t, k)) = Len(t) - 1
        /\ \A i \in 1..(Len(t) - 1) : RemoveAt(t, k)[i] = IF i < k THEN t[i] ELSE t[i + 1]
    BY <1>2, <1>4, Removed
  <2> QED
    BY <1>2, <1>4, <2>1
<1>6. /\ r.triggers[1] = t[3 - k] /\ Len(r.triggers) = 1
      /\ r.async = <<Load(b)>>
      /\ r.errors = IF t[k].edge = ActiveEdge(b) THEN {} ELSE {"IfElseAloadPolarity"}
  <2> HIDE DEF t, b, u, r
  <2> QED
    BY <1>1, <1>3, <1>5
<1>7. Taken(p)[Len(p.branches)] = r
  <2> HIDE DEF r
  <2> QED
    BY <1>1, <1>6, SettledStays
<1>8. AsyncPattern(p) = r
  <2> HIDE DEF r
  <2>1. ~(Len(r.triggers) > 1)
    BY <1>6
  <2> QED
    BY <1>7, <2>1 DEF AsyncPattern
<1> HIDE DEF r, t, b, u
<1>9. \E i \in 1..2 :
        /\ Splits(t, b, i) /\ ~AsyncPattern(p).failed
        /\ AsyncPattern(p).triggers[1] = t[3 - i]
        /\ AsyncPattern(p).async = <<Load(b)>>
        /\ AsyncPattern(p).errors =
             IF t[i].edge = ActiveEdge(b) THEN {} ELSE {"IfElseAloadPolarity"}
  BY ONLY <1>1, <1>4, <1>6, <1>8
<1> QED
  BY <1>9 DEF t, b

-----------------------------------------------------------------------------
(* The circuit of an accepted process.                                     *)
LEMMA AcceptedEvents ==
  ASSUME Typed, Accepted
  PROVE  /\ IsProgram(prog) /\ Triggers(prog) = prog.events /\ prog.events \in Seq(Events)
         /\ net = FlipFlop(prog, AsyncPattern(prog)) /\ AsyncPattern(prog).errors = {}
         /\ ~AsyncPattern(prog).failed
         /\ Len(net.async) \in Nat /\ Len(net.async) <= 1
         /\ Len(net.async) + 1 = Len(prog.events) /\ Len(net.async) <= Len(prog.branches)
<1> DEFINE a == AsyncPattern(prog)
<1>1. IsProgram(prog) /\ net = Interpret(prog) /\ net.kind = "ff" /\ Errors(net) = {}
  BY ProgramAssumption DEF Typed, Accepted
<1>2. /\ ~Implicit(prog) /\ Triggers(prog) # <<>> /\ ~a.failed /\ net = FlipFlop(prog, a)
  BY <1>1, Interpreted
<1>3. net.errors = TimingErrors(prog) \cup a.errors /\ net.async = a.async
  <2> HIDE DEF a
  <2> QED
    BY <1>2 DEF FlipFlop
<1>4. TimingErrors(prog) = {} /\ a.errors = {} /\ ~(Len(net.async) > 1)
  <2> HIDE DEF a
  <2> QED
    BY <1>1, <1>3 DEF Errors
<1>5. Triggers(prog) = prog.events
  BY <1>1, <1>2, <1>4, TimingReported, TriggersFacts
<1>6. /\ a \in Accs /\ Len(a.async) <= Len(prog.branches)
      /\ Len(a.async) + 1 = Len(Triggers(prog))
  BY <1>1, <1>2, PatternTaken
<1>7. Len(a.async) \in Nat
  <2> HIDE DEF a
  <2> QED
    BY <1>6 DEF Accs
<1>8. \A n \in Nat : ~(n > 1) => n <= 1
  OBVIOUS
<1>9. Len(net.async) <= 1
  BY ONLY <1>3, <1>4, <1>7, <1>8
<1>10. prog.events \in Seq(Events)
  BY <1>1 DEF IsProgram
<1> QED
  BY <1>1, <1>2, <1>3, <1>4, <1>5, <1>6, <1>7, <1>9, <1>10

LEMMA WithoutReset ==
  ASSUME Typed, Accepted, net.async = <<>>
  PROVE  /\ Len(prog.events) = 1 /\ net.clock = prog.events[1] /\ net.rest = prog.branches
<1> DEFINE a == AsyncPattern(prog)
<1>1. /\ IsProgram(prog) /\ Triggers(prog) = prog.events /\ Len(prog.events) = 1
      /\ net = FlipFlop(prog, a) /\ ~a.failed /\ prog.branches \in Seq(Branches)
  BY AcceptedEvents DEF IsProgram
<1>2. Triggers(prog) # <<>>
  BY <1>1 DEF IsProgram
<1>3. a = Taken(prog)[Len(prog.branches)]
  BY <1>1, <1>2, PatternTaken
<1>4. Len(prog.branches) \in Nat /\ 0 \in 0..Len(prog.branches)
      /\ Taken(prog)[0] = Untaken(prog) /\ Untaken(prog).triggers = prog.events
  BY <1>1, TakenSteps DEF Untaken
<1>5. a = Untaken(prog)
  BY <1>1, <1>3, <1>4, SettledStays
<1>6. net.clock = a.triggers[1] /\ net.async = a.async
      /\ net.rest = SubSeq(prog.branches, Len(a.async) + 1, Len(prog.branches))
  <2> HIDE DEF a
  <2> QED
    BY <1>1 DEF FlipFlop
<1>7. net.clock = prog.events[1]
  BY <1>4, <1>5, <1>6
<1>8. net.rest = prog.branches
  <2>1. Len(a.async) = 0
    BY <1>6
  <2>2. net.rest = SubSeq(prog.branches, 0 + 1, Len(prog.branches))
    BY <1>6, <2>1
  <2>3. /\ net.rest \in Seq(Branches) /\ Len(net.rest) = Len(prog.branches)
        /\ \A i \in 1..Len(prog.branches) : net.rest[i] = prog.branches[i]
    <3>1. 0 \in Nat /\ 0 <= Len(prog.branches)
      BY <1>4
    <3> HIDE DEF a
    <3> QED
      BY <1>1, <1>4, <2>2, <3>1, Dropped
  <2> QED
    BY <1>1, <2>3
<1> QED
  BY <1>1, <1>7, <1>8

Reset == prog.branches[1]

LEMMA WithReset ==
  ASSUME Typed, Accepted, net.async # <<>>
  PROVE  /\ Len(prog.branches) \in Nat /\ Len(prog.branches) >= 1
         /\ Reset \in Branches /\ NoWideInversion(Reset.ops)
         /\ net.async = <<Load(Reset)>>
         /\ net.rest = SubSeq(prog.branches, 2, Len(prog.branches))
         /\ Len(prog.events) = 2
         /\ \E k \in 1..2 : /\ prog.events[k].sig = Reset.sig
                            /\ prog.events[k].edge = ActiveEdge(Reset)
                            /\ net.clock = prog.events[3 - k]
<1> DEFINE a == AsyncPattern(prog)
<1>1. /\ IsProgram(prog) /\ Triggers(prog) = prog.events /\ prog.events \in Seq(Events)
      /\ net = FlipFlop(prog, a) /\ ~a.failed /\ a.errors = {}
      /\ prog.branches \in Seq(Branches)
  BY AcceptedEvents DEF IsProgram
<1>2. /\ Len(net.async) = 1 /\ Len(prog.events) = 2 /\ Len(prog.branches) >= 1
      /\ Len(prog.branches) \in Nat
  <2>1. Len(net.async) \in Nat /\ Len(net.async) # 0
    BY AcceptedTyped
  <2>2. \A n \in Nat : n # 0 /\ n <= 1 => n = 1
    OBVIOUS
  <2>3. Len(net.async) = 1
    BY ONLY <2>1, <2>2, AcceptedEvents, Typed, Accepted
  <2> QED
    BY <1>1, <2>3, AcceptedEvents
<1>3. Reset \in Branches /\ NoWideInversion(Reset.ops)
  BY <1>1, <1>2, ProgramAssumption DEF Reset, Typed
<1>4. ~Taken(prog)[1].failed
  <2>1. SUFFICES ASSUME Taken(prog)[1].failed PROVE FALSE
    OBVIOUS
  <2>2. 1 \in 0..Len(prog.branches)
    BY <1>2
  <2>3. Taken(prog)[Len(prog.branches)] = Taken(prog)[1]
    BY <1>1, <2>1, <2>2, SettledStays
  <2>4. prog.events # <<>>
    BY <1>1 DEF IsProgram
  <2>5. a = Taken(prog)[Len(prog.branches)]
    BY <1>1, <2>4, PatternTaken
  <2> QED
    BY <1>1, <2>1, <2>3, <2>5
<1>5. PICK k \in 1..2 :
        /\ Splits(prog.events, Reset, k)
        /\ a.triggers[1] = prog.events[3 - k] /\ a.async = <<Load(Reset)>>
        /\ a.errors = IF prog.events[k].edge = ActiveEdge(Reset) THEN {}
                      ELSE {"IfElseAloadPolarity"}
  BY <1>1, <1>2, <1>4, OneTaken, Zenon DEF Reset
<1>6. net.clock = a.triggers[1] /\ net.async = a.async
      /\ net.rest = SubSeq(prog.branches, Len(a.async) + 1, Len(prog.branches))
  <2> HIDE DEF a
  <2> QED
    BY <1>1 DEF FlipFlop
<1>7. Len(a.async) + 1 = 2
  BY <1>5
<1> HIDE DEF a
<1>8. prog.events[k].sig = Reset.sig /\ prog.events[k].edge = ActiveEdge(Reset)
  BY <1>1, <1>5 DEF Splits
<1> QED
  BY <1>2, <1>3, <1>5, <1>6, <1>7, <1>8

(* The load is on while the condition of the reset branch holds, and then  *)
(* that branch is executed; otherwise the clocked part is.                 *)
LEMMA LoadingHolds ==
  ASSUME Typed, Accepted, net.async # <<>>, NEW w \in [Wires -> BOOLEAN]
  PROVE  /\ Loading(w) <=> Holds(w[Reset.sig], Reset.ops)
         /\ Loading(w) <=> (w[Reset.sig] <=> Polarity(Reset.ops))
<1>1. /\ net.async = <<Load(Reset)>> /\ NoWideInversion(Reset.ops)
      /\ Reset.ops \in Seq(Ops) /\ Reset.sig \in Wires
  BY WithReset DEF Branches, Ops
<1>2. net.async[1].sig = Reset.sig /\ net.async[1].polarity = Polarity(Reset.ops)
  BY <1>1 DEF Load
<1>3. w[Reset.sig] \in BOOLEAN
  BY <1>1
<1>4. Holds(w[Reset.sig], Reset.ops) <=> (w[Reset.sig] <=> Polarity(Reset.ops))
  BY <1>1, <1>3, ConditionsRead
<1> QED
  BY <1>2, <1>4, net.async # <<>> DEF Loading

On(branches, w) == {i \in DOMAIN branches : Holds(w[branches[i].sig], branches[i].ops)}
First(on) == CHOOSE i \in on : \A j \in on : i <= j

LEMMA FirstIs ==
  ASSUME NEW on, on \subseteq Nat, NEW k \in on, \A j \in on : k <= j
  PROVE  First(on) = k
<1>1. First(on) \in on /\ \A j \in on : First(on) <= j
  BY LeastExists DEF First
<1>2. First(on) <= k /\ k <= First(on) /\ First(on) \in Nat /\ k \in Nat
  BY <1>1
<1> QED
  BY <1>2

LEMMA SelectedIs ==
  ASSUME NEW branches, NEW sync, NEW w
  PROVE  Selected(branches, sync, w) =
           IF On(branches, w) # {} THEN branches[First(On(branches, w))].body
           ELSE IF sync = None THEN Keep ELSE sync
BY Zenon DEF Selected, On, First

LEMMA SelectedFirst ==
  ASSUME NEW branches \in Seq(Branches), NEW sync, NEW w, Len(branches) >= 1,
         Holds(w[branches[1].sig], branches[1].ops)
  PROVE  Selected(branches, sync, w) = branches[1].body
<1>1. 1 \in On(branches, w)
  BY DEF On
<1>2. On(branches, w) \subseteq Nat /\ \A j \in On(branches, w) : 1 <= j
  BY DEF On
<1>3. First(On(branches, w)) = 1
  BY ONLY <1>1, <1>2, FirstIs
<1> QED
  BY <1>1, <1>3, SelectedIs

LEMMA SelectedRest ==
  ASSUME NEW branches \in Seq(Branches), NEW sync, NEW w, Len(branches) >= 1,
         ~Holds(w[branches[1].sig], branches[1].ops)
  PROVE  Selected(branches, sync, w) = Selected(SubSeq(branches, 2, Len(branches)), sync, w)
<1> DEFINE r == SubSeq(branches, 2, Len(branches))
           all == On(branches, w)
           on == On(r, w)
<1>1. /\ r \in Seq(Branches) /\ Len(r) = Len(branches) - 1 /\ Len(branches) \in Nat
      /\ DOMAIN r = 1..(Len(branches) - 1) /\ DOMAIN branches = 1..Len(branches)
      /\ \A i \in 1..(Len(branches) - 1) : r[i] = branches[i + 1]
  <2>1. 1 \in Nat /\ 1 <= Len(branches) /\ 1 + 1 = 2
    OBVIOUS
  <2> DEFINE s == SubSeq(branches, 1 + 1, Len(branches))
  <2>4. /\ s \in Seq(Branches) /\ Len(s) = Len(branches) - 1
        /\ \A i \in 1..(Len(branches) - 1) : s[i] = branches[1 + i]
    BY <2>1, Dropped
  <2>5. r = s
    BY <2>1
  <2> HIDE DEF r, s
  <2>2. /\ r \in Seq(Branches) /\ Len(r) = Len(branches) - 1
        /\ \A i \in 1..(Len(branches) - 1) : r[i] = branches[1 + i]
    BY <2>4, <2>5
  <2> HIDE DEF r
  <2>3. \A i \in Nat : 1 + i = i + 1
    OBVIOUS
  <2> QED
    BY <2>2, <2>3
<1> HIDE DEF r
<1>2. \A i : i \in on <=> i \in 1..(Len(branches) - 1) /\ i + 1 \in all
  <2>1. \A i \in 1..(Len(branches) - 1) : i + 1 \in 1..Len(branches)
    BY <1>1
  <2> QED
    BY <1>1, <2>1 DEF On
<1>3. /\ on \subseteq Nat /\ all \subseteq Nat
      /\ \A j \in all : j # 1 /\ j - 1 \in on /\ (j - 1) + 1 = j
  <2>1. \A j \in all : j \in 1..Len(branches) /\ j # 1
    BY <1>1 DEF On
  <2>2. \A j \in all : j - 1 \in 1..(Len(branches) - 1) /\ (j - 1) + 1 = j /\ j \in Nat
    BY <1>1, <2>1
  <2> QED
    BY <1>2, <2>1, <2>2
<1> HIDE DEF on, all
<1>4. CASE on = {}
  <2>1. all = {}
    BY <1>3, <1>4
  <2> QED
    BY <1>4, <2>1, SelectedIs DEF on, all, r
<1>5. CASE on # {}
  <2>1. PICK k \in on : \A j \in on : k <= j
    BY <1>3, <1>5, LeastExists
  <2>2. k + 1 \in all /\ k \in 1..(Len(branches) - 1)
    BY <1>2, <2>1
  <2>3. ASSUME NEW j \in all PROVE k + 1 <= j
    <3>1. j - 1 \in on /\ k <= j - 1 /\ j \in Nat /\ k \in Nat
      BY <1>3, <2>1
    <3> QED
      BY ONLY <3>1
  <2>4. First(on) = k /\ First(all) = k + 1
    BY <1>3, <2>1, <2>2, <2>3, FirstIs
  <2>5. r[k] = branches[k + 1]
    BY <1>1, <2>2
  <2>6. on # {} /\ all # {}
    BY <2>1, <2>2
  <2> QED
    BY <2>4, <2>5, <2>6, SelectedIs DEF on, all, r
<1> QED
  BY <1>4, <1>5

-----------------------------------------------------------------------------
(* The process and the cells, one change of a wire at a time.              *)
LoadValue(v) == Over(prog.prologue, net.async[1].body)[v]

LEMMA LoadValues ==
  ASSUME Typed, Accepted, net.async # <<>>, NEW v \in Vars, NEW w, NEW q
  PROVE  /\ LoadValue(v) \in {"keep", "0", "1"}
         /\ Loaded(net, v) <=> LoadValue(v) # "keep"
         /\ AD(v, w, q) = IF Loaded(net, v) THEN LoadValue(v) = "1" ELSE q
<1>1. /\ net.async = <<Load(Reset)>> /\ Len(prog.events) = 2 /\ Reset \in Branches
      /\ prog.branches # <<>>
  BY WithReset
<1>2. net.async[1].body = Reset.body /\ Reset.body \in Bodies
  BY <1>1 DEF Load, Branches
<1>3. Len(Triggers(prog)) > 1
  BY <1>1, AcceptedEvents
<1>4. ConstantLoads(prog)
  BY ProgramAssumption DEF Typed
<1>5. LoadValue(v) \in {"keep", "0", "1"}
  BY <1>1, <1>2, <1>3, <1>4 DEF ConstantLoads, LoadValue, Reset
<1>6. LoadValue(v) = IF Reset.body[v] = "keep" THEN prog.prologue[v] ELSE Reset.body[v]
  BY <1>2, AcceptedTyped, OverTyped DEF LoadValue
<1>7. Loaded(net, v) <=> LoadValue(v) # "keep"
  BY <1>2, <1>6 DEF Loaded, Assigns
<1>8. AD(v, w, q) = Value(LoadValue(v), w, q)
  BY DEF AD, LoadValue
<1>9. AD(v, w, q) = IF Loaded(net, v) THEN LoadValue(v) = "1" ELSE q
  BY <1>5, <1>7, <1>8 DEF Value
<1> QED
  BY <1>5, <1>7, <1>9

Executes(w, x) == \E i \in DOMAIN prog.events : Edge(prog.events[i], w, x)

LEMMA ClockIsEdge ==
  ASSUME Typed, Accepted
  PROVE  net.clock.edge \in {"pos", "neg", "both"} /\ net.clock.sig \in Wires
<1>1. net.clock \in Events
  BY AcceptedTyped
<1>2. \E i \in 1..Len(prog.events) : net.clock = prog.events[i]
  <2>1. CASE net.async = <<>>
    BY <2>1, WithoutReset
  <2>2. CASE net.async # <<>>
    <3>1. \A k \in 1..2 : 3 - k \in 1..2
      OBVIOUS
    <3> QED
      BY <2>2, <3>1, WithReset
  <2> QED
    BY <2>1, <2>2
<1>3. \A i \in 1..Len(prog.events) : IsTrigger(prog.events[i])
  BY AcceptedEvents, TriggersFacts
<1>4. IsTrigger(net.clock)
  BY <1>2, <1>3
<1> QED
  BY <1>1, <1>4 DEF IsTrigger, Events

LEMMA Executed ==
  ASSUME Typed, Accepted, NEW w \in [Wires -> BOOLEAN], NEW x \in Wires
  PROVE  Executes(w, x) <=>
           \/ Edge(net.clock, w, x)
           \/ net.async # <<>> /\ x = Reset.sig /\ Loading(w)
<1>1. CASE net.async = <<>>
  <2>1. DOMAIN prog.events = {1} /\ net.clock = prog.events[1]
    BY <1>1, WithoutReset, AcceptedEvents
  <2> QED
    BY <1>1, <2>1 DEF Executes
<1>2. CASE net.async # <<>>
  <2>1. PICK k \in 1..2 : /\ prog.events[k].sig = Reset.sig
                          /\ prog.events[k].edge = ActiveEdge(Reset)
                          /\ net.clock = prog.events[3 - k]
    BY <1>2, WithReset
  <2>2. DOMAIN prog.events = 1..2
    BY <1>2, WithReset, AcceptedEvents
  <2>3. \A i \in 1..2 : i = k \/ i = 3 - k
    OBVIOUS
  <2>4. Edge(prog.events[k], w, x) <=> x = Reset.sig /\ Loading(w)
    <3>1. Edge(prog.events[k], w, x) <=> x = Reset.sig /\ (w[x] <=> Polarity(Reset.ops))
      BY <2>1 DEF Edge, ActiveEdge
    <3>2. Loading(w) <=> (w[Reset.sig] <=> Polarity(Reset.ops))
      BY <1>2, LoadingHolds
    <3> QED
      BY <3>1, <3>2
  <2>5. 3 - k \in 1..2
    OBVIOUS
  <2> QED
    BY <1>2, <2>1, <2>2, <2>3, <2>4, <2>5 DEF Executes
<1> QED
  BY <1>1, <1>2

(* What the process stores on an event.                                    *)
LEMMA Stored ==
  ASSUME Typed, Accepted, NEW w \in [Wires -> BOOLEAN], NEW v, NEW q
  PROVE  Value(Over(prog.prologue, Selected(prog.branches, prog.sync, w))[v], w, q)
           = IF Loading(w) THEN AD(v, w, q) ELSE D(v, w, q)
<1>1. CASE net.async = <<>>
  <2>1. ~Loading(w) /\ net.rest = prog.branches
    BY <1>1, WithoutReset DEF Loading
  <2> QED
    BY <2>1 DEF D
<1>2. CASE net.async # <<>>
  <2>1. /\ net.async = <<Load(Reset)>> /\ Len(prog.branches) >= 1
        /\ net.rest = SubSeq(prog.branches, 2, Len(prog.branches))
        /\ prog.branches \in Seq(Branches)
    BY <1>2, WithReset, AcceptedTyped DEF IsProgram
  <2>2. net.async[1].body = Reset.body
    BY <2>1 DEF Load
  <2>3. Loading(w) <=> Holds(w[Reset.sig], Reset.ops)
    BY <1>2, LoadingHolds
  <2>4. CASE Loading(w)
    <3>1. Selected(prog.branches, prog.sync, w) = Reset.body
      BY <2>1, <2>3, <2>4, SelectedFirst DEF Reset
    <3> QED
      BY <2>2, <2>4, <3>1 DEF AD
  <2>5. CASE ~Loading(w)
    <3>1. Selected(prog.branches, prog.sync, w) = Selected(net.rest, prog.sync, w)
      BY <2>1, <2>3, <2>5, SelectedRest DEF Reset
    <3> QED
      BY <2>5, <3>1 DEF D
  <2> QED
    BY <2>4, <2>5
<1> QED
  BY <1>1, <1>2

(* The output of the cells after a change of the wire x to give w.         *)
LEMMA Output ==
  ASSUME Typed, Accepted, NEW v \in Vars, ~LosesEdge(v), NEW x \in Wires,
         NEW w \in [Wires -> BOOLEAN], \A y \in Wires : y # x => w[y] = wires[y],
         NEW c, c[v] = Clocked(v, w, x)
  PROVE  Q(v, c, w) = LET out == Q(v, cells, wires)
                      IN  IF Loading(w) THEN AD(v, w, out)
                          ELSE IF Edge(net.clock, w, x) THEN D(v, w, out) ELSE out
<1> DEFINE out == Q(v, cells, wires)
           ad == AD(v, w, out)
           d == D(v, w, out)
           on == w[net.clock.sig]
           rising == net.clock.edge = "pos"
           sig == net.clock.sig
<1>1. /\ net.clock.edge \in {"pos", "neg", "both"} /\ sig \in Wires
      /\ on \in BOOLEAN /\ w[x] \in BOOLEAN /\ cells[v] \in [BOOLEAN -> BOOLEAN]
      /\ wires[sig] \in BOOLEAN
  BY ClockIsEdge DEF Typed
<1>2. Edge(net.clock, w, x) <=>
        sig = x /\ (net.clock.edge = "both" \/ (w[x] <=> rising))
  BY DEF Edge
<1>3. ASSUME NEW p, NEW q
      PROVE  Halved(v, w, x, p, q, out) = IF Loading(w) THEN ad
                                          ELSE IF x = sig /\ w[x] = p THEN d ELSE q
  BY Zenon DEF Halved, Captures
<1>4. CASE CellKind(net, v) = "dual"
  <2>1. net.clock.edge = "both"
    BY <1>4 DEF CellKind
  <2>2. c[v] = [p \in BOOLEAN |-> Halved(v, w, x, p, cells[v][p], out)]
    BY <1>4 DEF Clocked
  <2>3. Q(v, c, w) = c[v][on] /\ out = cells[v][wires[sig]]
    BY <1>4 DEF Q
  <2> HIDE DEF out, ad, d
  <2>4. Q(v, c, w) = IF Loading(w) THEN ad ELSE IF x = sig /\ w[x] = on THEN d ELSE cells[v][on]
    BY <1>1, <1>3, <2>2, <2>3
  <2>5. x # sig => cells[v][on] = out
    BY <1>1, <2>3
  <2>6. Edge(net.clock, w, x) <=> x = sig
    BY <1>2, <2>1
  <2>7. x = sig => w[x] = on
    OBVIOUS
  <2>8. Q(v, c, w) = IF Loading(w) THEN ad ELSE IF Edge(net.clock, w, x) THEN d ELSE out
    BY ONLY <2>4, <2>5, <2>6, <2>7, Zenon
  <2> QED
    BY <2>8 DEF ad, d, out
<1>5. CASE CellKind(net, v) \in {"dff", "aldff"}
  <2>1. net.clock.edge # "both" /\ (CellKind(net, v) = "dff" => net.async = <<>>)
    BY <1>5 DEF CellKind
  <2>2. c[v] = [cells[v] EXCEPT ![TRUE] = Halved(v, w, x, rising, cells[v][TRUE], out)]
    BY <1>5 DEF Clocked
  <2>3. Q(v, c, w) = c[v][TRUE] /\ out = cells[v][TRUE]
    BY <1>5 DEF Q
  <2>4. Q(v, c, w) = Halved(v, w, x, rising, cells[v][TRUE], out)
    BY <1>1, <2>2, <2>3
  <2> HIDE DEF out, ad, d, rising
  <2>5. Edge(net.clock, w, x) <=> x = sig /\ w[x] = rising
    BY <1>1, <1>2, <2>1 DEF rising
  <2>6. Q(v, c, w) = IF Loading(w) THEN ad ELSE IF Edge(net.clock, w, x) THEN d ELSE out
    BY ONLY <1>3, <2>3, <2>4, <2>5, Zenon
  <2> QED
    BY <2>6 DEF ad, d, out
<1>6. CASE CellKind(net, v) = "dffe"
  <2>1. net.clock.edge # "both" /\ net.async # <<>> /\ ~Loaded(net, v)
    BY <1>1, <1>6 DEF CellKind, LosesEdge
  <2>2. c[v] = [cells[v] EXCEPT ![TRUE] = Enabled(v, w, x, rising, cells[v][TRUE], out)]
    BY <1>6 DEF Clocked
  <2>3. Q(v, c, w) = c[v][TRUE] /\ out = cells[v][TRUE]
    BY <1>6 DEF Q
  <2>4. Q(v, c, w) = Enabled(v, w, x, rising, cells[v][TRUE], out)
    BY <1>1, <2>2, <2>3
  <2>5. ad = out
    BY <2>1, LoadValues
  <2> HIDE DEF out, ad, rising
  <2>6. Enabled(v, w, x, rising, cells[v][TRUE], out) =
           IF (x = sig /\ w[x] = rising) /\ ~Loading(w) THEN d ELSE cells[v][TRUE]
    BY Zenon DEF Enabled, Captures
  <2> HIDE DEF d
  <2>7. Edge(net.clock, w, x) <=> x = sig /\ w[x] = rising
    BY <1>1, <1>2, <2>1 DEF rising
  <2>8. Q(v, c, w) = IF Loading(w) THEN ad ELSE IF Edge(net.clock, w, x) THEN d ELSE out
    BY ONLY <2>3, <2>4, <2>5, <2>6, <2>7, Zenon
  <2> QED
    BY <2>8 DEF ad, d, out
<1> QED
  <2>1. CellKind(net, v) \in {"dual", "dff", "aldff", "dffe"}
    BY DEF CellKind
  <2> QED
    BY <1>4, <1>5, <1>6, <2>1

(* While the load is on, a register that has one holds its load value.     *)
Held ==
  Accepted /\ Loading(wires) =>
    \A v \in Vars : Loaded(net, v) => regs[v] = (LoadValue(v) = "1")

Tracks == Accepted => \A v \in Vars : ~LosesEdge(v) => Q(v, cells, wires) = regs[v]

InSync(w) ==
  \A i \in DOMAIN net.async : ~Holds(w[prog.branches[i].sig], prog.branches[i].ops)

LEMMA Toggled ==
  ASSUME Typed, NEW x \in Wires, Toggle(x)
  PROVE  /\ Accepted /\ prog' = prog /\ net' = net
         /\ wires' \in [Wires -> BOOLEAN] /\ \A y \in Wires : y # x => wires'[y] = wires[y]
         /\ \A v \in Vars : regs'[v] = IF Executes(wires', x)
                                       THEN IF Loading(wires') THEN AD(v, wires', regs[v])
                                            ELSE D(v, wires', regs[v])
                                       ELSE regs[v]
         /\ \A v \in Vars : cells'[v] = Clocked(v, wires', x)
         /\ ran' = [prologue |-> Executes(wires', x),
                    sync |-> Executes(wires', x) /\ InSync(wires')]
         /\ fired' = [prologue |-> PrologueFires(wires', x), sync |-> SyncFires(wires', x)]
<1> DEFINE w == [wires EXCEPT ![x] = ~@]
           body == Over(prog.prologue, Selected(prog.branches, prog.sync, w))
<1>1. /\ Accepted /\ wires' = w /\ prog' = prog /\ net' = net
      /\ regs' = IF Executes(w, x) THEN [v \in Vars |-> Value(body[v], w, regs[v])] ELSE regs
      /\ cells' = [v \in Vars |-> Clocked(v, w, x)]
      /\ ran' = [prologue |-> Executes(w, x), sync |-> Executes(w, x) /\ InSync(w)]
      /\ fired' = [prologue |-> PrologueFires(w, x), sync |-> SyncFires(w, x)]
  BY Zenon DEF Toggle, Executes, InSync
<1>2. w \in [Wires -> BOOLEAN] /\ \A y \in Wires : y # x => w[y] = wires[y]
  BY DEF Typed
<1>3. \A v \in Vars : Value(body[v], w, regs[v])
                        = IF Loading(w) THEN AD(v, w, regs[v]) ELSE D(v, w, regs[v])
  <2> SUFFICES ASSUME NEW v \in Vars
               PROVE  Value(body[v], w, regs[v])
                        = IF Loading(w) THEN AD(v, w, regs[v]) ELSE D(v, w, regs[v])
    OBVIOUS
  <2> HIDE DEF w
  <2> QED
    BY <1>1, <1>2, Stored
<1> HIDE DEF w, body
<1>4. \A v \in Vars : regs'[v] = IF Executes(w, x)
                                 THEN IF Loading(w) THEN AD(v, w, regs[v]) ELSE D(v, w, regs[v])
                                 ELSE regs[v]
  <2>1. CASE Executes(w, x)
    BY <1>1, <1>3, <2>1
  <2>2. CASE ~Executes(w, x)
    BY <1>1, <2>2
  <2> QED
    BY <2>1, <2>2
<1>5. \A v \in Vars : cells'[v] = Clocked(v, w, x)
  BY <1>1
<1> QED
  BY ONLY <1>1, <1>2, <1>4, <1>5, Zenon

(* A register with a load value has it from the moment the load is on.     *)
LEMMA HeldStep ==
  ASSUME Typed, Held, NEW x \in Wires, Toggle(x), Loading(wires'),
         NEW v \in Vars, Loaded(net, v)
  PROVE  /\ regs'[v] = (LoadValue(v) = "1")
         /\ AD(v, wires', regs[v]) = (LoadValue(v) = "1")
<1> DEFINE w == wires'
<1>1. /\ Accepted /\ w \in [Wires -> BOOLEAN]
      /\ \A y \in Wires : y # x => w[y] = wires[y]
      /\ regs'[v] = IF Executes(w, x) THEN AD(v, w, regs[v]) ELSE regs[v]
  BY Toggled
<1>2. net.async # <<>>
  BY DEF Loading
<1>3. AD(v, w, regs[v]) = (LoadValue(v) = "1")
  BY <1>1, <1>2, LoadValues
<1>4. CASE Executes(w, x)
  BY <1>1, <1>3, <1>4
<1>5. CASE ~Executes(w, x)
  <2>1. x # Reset.sig
    <3> HIDE DEF w
    <3> QED
      BY <1>1, <1>2, <1>5, Executed, Loading(w) DEF w
  <2>2. Reset.sig \in Wires
    BY <1>1, <1>2, WithReset DEF Branches
  <2>3. w[Reset.sig] = wires[Reset.sig]
    BY <1>1, <2>1, <2>2
  <2>4. Loading(wires)
    <3>1. wires \in [Wires -> BOOLEAN]
      BY DEF Typed
    <3>2. Loading(w) <=> (w[Reset.sig] <=> Polarity(Reset.ops))
      BY <1>1, <1>2, LoadingHolds
    <3>3. Loading(wires) <=> (wires[Reset.sig] <=> Polarity(Reset.ops))
      BY <1>1, <1>2, <3>1, LoadingHolds
    <3> QED
      BY <2>3, <3>2, <3>3
  <2> QED
    BY <1>1, <1>3, <1>5, <2>4 DEF Held
<1> QED
  BY <1>3, <1>4, <1>5

LEMMA TracksStep ==
  ASSUME Typed, Tracks, Held, NEW x \in Wires, Toggle(x), NEW v \in Vars, ~LosesEdge(v)
  PROVE  Q(v, cells', wires') = regs'[v]
<1> DEFINE w == wires'
           out == Q(v, cells, wires)
<1>1. /\ Accepted /\ w \in [Wires -> BOOLEAN]
      /\ \A y \in Wires : y # x => w[y] = wires[y]
      /\ regs'[v] = IF Executes(w, x)
                    THEN IF Loading(w) THEN AD(v, w, regs[v]) ELSE D(v, w, regs[v])
                    ELSE regs[v]
      /\ cells'[v] = Clocked(v, w, x)
  BY Toggled
<1>2. out = regs[v]
  BY <1>1 DEF Tracks
<1>3. Q(v, cells', w) = IF Loading(w) THEN AD(v, w, out)
                        ELSE IF Edge(net.clock, w, x) THEN D(v, w, out) ELSE out
  <2> HIDE DEF w
  <2> QED
    BY <1>1, Output
<1>4. CASE Loading(w)
  <2>1. net.async # <<>>
    BY <1>4 DEF Loading
  <2>2. CASE Loaded(net, v)
    BY <1>2, <1>3, <1>4, <2>2, HeldStep
  <2>3. CASE ~Loaded(net, v)
    <3>1. AD(v, w, regs[v]) = regs[v]
      BY <1>1, <2>1, <2>3, LoadValues
    <3> QED
      BY <1>1, <1>2, <1>3, <1>4, <3>1
  <2> QED
    BY <2>2, <2>3
<1>5. CASE ~Loading(w)
  <2>1. Executes(w, x) <=> Edge(net.clock, w, x)
    <3> HIDE DEF w
    <3> QED
      BY <1>1, <1>5, Executed
  <2> HIDE DEF w, out
  <2>2. Q(v, cells', w) = regs'[v]
    BY ONLY <1>1, <1>2, <1>3, <1>5, <2>1, Zenon
  <2> QED
    BY <2>2 DEF w
<1> QED
  BY <1>4, <1>5

FlipFlopInv == Typed /\ Held /\ Tracks

LEMMA FlipFlopStart == Init => FlipFlopInv
<1> SUFFICES ASSUME Init PROVE FlipFlopInv
  OBVIOUS
<1>1. Typed
  BY DEF Init, Typed
<1>2. Held
  BY DEF Init, Held
<1>3. ASSUME Accepted, NEW v \in Vars PROVE Q(v, cells, wires) = regs[v]
  <2>1. wires[net.clock.sig] \in BOOLEAN /\ cells[v] = [p \in BOOLEAN |-> regs[v]]
    BY <1>1, <1>3, ClockIsEdge DEF Init, Typed
  <2>2. \A p \in BOOLEAN : cells[v][p] = regs[v]
    BY <2>1
  <2> QED
    BY <2>1, <2>2 DEF Q
<1> QED
  BY <1>1, <1>2, <1>3 DEF FlipFlopInv, Tracks

LEMMA FlipFlopStep == FlipFlopInv /\ [Next]_vars => FlipFlopInv'
<1> SUFFICES ASSUME FlipFlopInv, [Next]_vars PROVE FlipFlopInv'
  OBVIOUS
<1>1. Typed /\ Held /\ Tracks
  BY DEF FlipFlopInv
<1>2. Typed'
  BY <1>1, TypedStep
<1>3. CASE UNCHANGED vars
  <2>1. Held' <=> Held
    BY <1>3 DEF vars, Held, Accepted, Loading, Loaded, LoadValue, Errors, Assigns, Over
  <2>2. Tracks' <=> Tracks
    BY <1>3 DEF vars, Tracks, Accepted, Errors, LosesEdge, Q, CellKind, Loaded, Assigns
  <2> QED
    BY <1>1, <1>2, <2>1, <2>2 DEF FlipFlopInv
<1>4. CASE Next
  <2>1. PICK x \in Wires : Toggle(x)
    BY <1>4 DEF Next
  <2>2. prog' = prog /\ net' = net
    BY <1>1, <2>1, Toggled
  <2>3. Held'
    <3>1. ASSUME Accepted', Loading(wires)', NEW v \in Vars, Loaded(net, v)'
          PROVE  (regs[v] = (LoadValue(v) = "1"))'
      <4>1. Loading(wires') /\ Loaded(net, v)
        BY <2>2, <3>1 DEF Loading, Loaded, Assigns
      <4>2. regs'[v] = (LoadValue(v) = "1")
        BY <1>1, <2>1, <4>1, HeldStep
      <4>3. LoadValue(v)' = LoadValue(v)
        BY <2>2 DEF LoadValue, Over
      <4> QED
        BY <4>2, <4>3
    <3> QED
      BY <3>1 DEF Held
  <2>4. Tracks'
    <3>1. ASSUME NEW v \in Vars, ~LosesEdge(v)' PROVE (Q(v, cells, wires) = regs[v])'
      <4>1. ~LosesEdge(v)
        BY <2>2, <3>1 DEF LosesEdge, CellKind, Loaded, Assigns
      <4>2. Q(v, cells', wires') = regs'[v]
        BY <1>1, <2>1, <4>1, TracksStep
      <4>3. Q(v, cells, wires)' = Q(v, cells', wires')
        BY <2>2 DEF Q, CellKind, Loaded, Assigns
      <4> QED
        BY <4>2, <4>3
    <3> QED
      BY <3>1 DEF Tracks
  <2> QED
    BY <1>2, <2>3, <2>4 DEF FlipFlopInv
<1> QED
  BY <1>3, <1>4

(* After every change of a wire the output of the cells is the value that  *)
(* the process has stored in the register, whichever the edges of clock    *)
(* and reset, their order, the way the condition is spelled, and whether   *)
(* or not the register has a load value.                                   *)
THEOREM FollowsTheProgram == Spec => []FollowsProgram
<1>1. FlipFlopInv => FollowsProgram
  BY DEF FlipFlopInv, Tracks, FollowsProgram, Driven
<1> QED
  BY <1>1, FlipFlopStart, FlipFlopStep, PTL DEF Spec

-----------------------------------------------------------------------------
(* Side effects.                                                           *)
LEMMA EffectsStep ==
  ASSUME Typed, NEW x \in Wires, Toggle(x), net.clock.edge # "both"
  PROVE  fired' = ran'
<1> DEFINE w == wires'
<1>1. /\ Accepted /\ w \in [Wires -> BOOLEAN]
      /\ ran' = [prologue |-> Executes(w, x), sync |-> Executes(w, x) /\ InSync(w)]
      /\ fired' = [prologue |-> PrologueFires(w, x), sync |-> SyncFires(w, x)]
  BY Toggled
<1> HIDE DEF w
<1>2. Edge(net.clock, w, x) <=> ClockEdge(w, x)
  BY DEF Edge, ClockEdge
<1>3. /\ Executes(w, x) \in BOOLEAN /\ InSync(w) \in BOOLEAN
      /\ PrologueFires(w, x) \in BOOLEAN /\ SyncFires(w, x) \in BOOLEAN
  BY DEF Executes, InSync, PrologueFires, SyncFires, ClockEdge
<1>4. ASSUME /\ PrologueFires(w, x) <=> Executes(w, x)
             /\ SyncFires(w, x) <=> Executes(w, x) /\ InSync(w)
      PROVE  fired' = ran'
  <2>1. /\ PrologueFires(w, x) = Executes(w, x)
        /\ SyncFires(w, x) = (Executes(w, x) /\ InSync(w))
    BY <1>3, <1>4
  <2> QED
    BY ONLY <1>1, <2>1
<1>5. CASE net.async = <<>>
  <2>1. ~Loading(w) /\ InSync(w)
    BY <1>5 DEF Loading, InSync
  <2>2. Executes(w, x) <=> ClockEdge(w, x)
    BY <1>1, <1>2, <1>5, Executed
  <2>3. PrologueFires(w, x) <=> ClockEdge(w, x)
    BY <1>5, Zenon DEF PrologueFires
  <2>4. SyncFires(w, x) <=> ClockEdge(w, x)
    BY <2>1, Zenon DEF SyncFires, SyncEnable
  <2> QED
    BY <1>4, <2>1, <2>2, <2>3, <2>4
<1>6. CASE net.async # <<>>
  <2>1. /\ net.async = <<Load(Reset)>> /\ Reset.sig \in Wires
    BY <1>1, <1>6, WithReset DEF Branches
  <2>2. net.async[1].sig = Reset.sig /\ net.async[1].polarity = Polarity(Reset.ops)
        /\ DOMAIN net.async = {1}
    BY <2>1 DEF Load
  <2>3. Executes(w, x) <=> ClockEdge(w, x) \/ (x = Reset.sig /\ Loading(w))
    BY <1>1, <1>2, <1>6, Executed
  <2>4. Loading(w) <=> (w[Reset.sig] <=> Polarity(Reset.ops))
    BY <1>1, <1>6, LoadingHolds
  <2>5. InSync(w) <=> ~Loading(w)
    <3>1. Loading(w) <=> Holds(w[Reset.sig], Reset.ops)
      BY <1>1, <1>6, LoadingHolds
    <3> QED
      BY <2>2, <3>1, Zenon DEF InSync, Reset
  <2>6. PrologueFires(w, x) <=> ClockEdge(w, x) \/ (x = Reset.sig /\ Loading(w))
    <3>1. PrologueFires(w, x) <=>
            ClockEdge(w, x) \/ (x = Reset.sig /\ (w[x] <=> Polarity(Reset.ops)))
      BY <1>6, <2>2 DEF PrologueFires
    <3> QED
      BY <2>4, <3>1
  <2>7. SyncFires(w, x) <=> ClockEdge(w, x) /\ ~Loading(w)
    BY Zenon DEF SyncFires, SyncEnable
  <2>8. /\ PrologueFires(w, x) <=> Executes(w, x)
        /\ SyncFires(w, x) <=> Executes(w, x) /\ InSync(w)
    BY <2>3, <2>5, <2>6, <2>7
  <2> QED
    BY <1>4, <2>8
<1> QED
  BY <1>5, <1>6

(* The effects of the statements before the if-else chain happen on every  *)
(* event of the process, those of the clocked part on the clock while the  *)
(* reset is inactive; neither at any other time.                           *)
THEOREM EffectsAreExact == Spec => []EffectsExact
<1>1. Init => EffectsExact
  BY DEF Init, EffectsExact
<1>2. Typed /\ EffectsExact /\ [Next]_vars => EffectsExact'
  <2> SUFFICES ASSUME Typed, EffectsExact, [Next]_vars PROVE EffectsExact'
    OBVIOUS
  <2>1. CASE UNCHANGED vars
    BY <2>1 DEF vars, EffectsExact, Accepted, Errors
  <2>2. CASE Next
    <3>1. PICK x \in Wires : Toggle(x)
      BY <2>2 DEF Next
    <3>2. net' = net
      BY <3>1, Toggled
    <3> QED
      BY <3>1, <3>2, EffectsStep DEF EffectsExact
  <2> QED
    BY <2>1, <2>2
<1> QED
  BY <1>1, <1>2, TypedAlways, PTL DEF Spec

-----------------------------------------------------------------------------
(* A reset that is written as the language has it is recognised.           *)
LEMMA WellFormedSplits ==
  ASSUME NEW p \in Programs, WellFormed(p)
  PROVE  /\ IsProgram(p) /\ ~Implicit(p) /\ TimingErrors(p) = {}
         /\ Triggers(p) = p.events /\ Len(p.events) = 2
         /\ \E i \in 1..2 : /\ p.events[i].sig = p.branches[1].sig
                            /\ p.events[3 - i].sig # p.branches[1].sig
                            /\ p.events[i].edge = ActiveEdge(p.branches[1])
<1> DEFINE b == p.branches[1]
<1>1. IsProgram(p) /\ b \in Branches /\ NoWideInversion(b.ops) /\ b.ops \in Seq(Ops)
  <2>1. IsProgram(p) /\ 1 \in DOMAIN p.branches
    BY ProgramAssumption DEF WellFormed, IsProgram
  <2>2. b \in Branches /\ NoWideInversion(b.ops)
    BY <2>1, ProgramAssumption DEF IsProgram
  <2> QED
    BY <2>1, <2>2 DEF Branches, Ops
<1>2. PICK i \in 1..2 :
        /\ p.events[i].sig = b.sig /\ p.events[3 - i].edge \in {"pos", "neg"}
        /\ \/ p.events[i].edge = "pos" /\ Holds(TRUE, b.ops)
           \/ p.events[i].edge = "neg" /\ Holds(FALSE, b.ops)
  BY DEF WellFormed
<1>3. Len(p.events) = 2 /\ p.events[1].sig # p.events[2].sig /\ DOMAIN p.events = 1..2
  BY <1>1 DEF WellFormed, IsProgram
<1>4. (i = 1 /\ 3 - i = 2) \/ (i = 2 /\ 3 - i = 1)
  BY <1>2
<1>5. p.events[3 - i].sig # b.sig
  BY <1>2, <1>3, <1>4
<1>6. /\ Holds(TRUE, b.ops) <=> (TRUE <=> Polarity(b.ops))
      /\ Holds(FALSE, b.ops) <=> (FALSE <=> Polarity(b.ops))
  BY <1>1, ConditionsRead
<1>7. p.events[i].edge = ActiveEdge(b)
  BY <1>2, <1>6 DEF ActiveEdge
<1>8. \A j \in 1..2 : p.events[j].edge \in {"pos", "neg"}
  <2>1. p.events[i].edge \in {"pos", "neg"}
    BY <1>2
  <2>2. \A j \in 1..2 : j = i \/ j = 3 - i
    BY <1>4
  <2> QED
    BY ONLY <1>2, <2>1, <2>2
<1>9. EdgesIn(p) \subseteq {"pos", "neg"}
  BY <1>3, <1>8 DEF EdgesIn
<1>10. ~Implicit(p) /\ TimingErrors(p) = {}
  <2>1. ~Implicit(p)
    BY <1>9 DEF Implicit
  <2> QED
    BY <1>9, <2>1 DEF TimingErrors
<1>11. Triggers(p) = p.events
  BY <1>1, <1>3, <1>8, TriggersFacts DEF IsTrigger
<1> QED
  BY <1>1, <1>2, <1>3, <1>5, <1>7, <1>10, <1>11

THEOREM RecognisesEveryReset == Spec => []RecognisesReset
<1>1. ASSUME Typed, WellFormed(prog) PROVE Accepted
  <2> DEFINE p == prog
             b == p.branches[1]
             t == p.events
  <2>1. /\ p \in Programs /\ IsProgram(p) /\ ~Implicit(p) /\ TimingErrors(p) = {}
        /\ Triggers(p) = t /\ Len(t) = 2
    BY <1>1, WellFormedSplits DEF Typed
  <2>2. PICK i \in 1..2 : /\ t[i].sig = b.sig /\ t[3 - i].sig # b.sig
                          /\ t[i].edge = ActiveEdge(b)
    BY <1>1, <2>1, WellFormedSplits
  <2>3. Len(p.branches) >= 1 /\ p.sync # None /\ Legible(b.ops)
    <3>1. Len(p.branches) \in Nat
      BY <2>1 DEF IsProgram
    <3> QED
      BY <1>1, <3>1 DEF WellFormed
  <2>4. /\ Untaken(p) \in Accs /\ ~Untaken(p).failed /\ Untaken(p).triggers = t
        /\ b \in Branches /\ Taken(p)[1] = TakeBranch(Untaken(p), b)
    BY <2>1, <2>3, FirstBranch
  <2>5. ~Taken(p)[1].failed
    <3>1. \E k \in 1..Len(Untaken(p).triggers) : Untaken(p).triggers[k].sig = b.sig
      BY <2>1, <2>2, <2>4
    <3> QED
      BY <2>3, <2>4, <3>1, BranchTaken
  <2>6. PICK k \in 1..2 :
          /\ Splits(t, b, k) /\ ~AsyncPattern(p).failed
          /\ AsyncPattern(p).async = <<Load(b)>>
          /\ AsyncPattern(p).errors = IF t[k].edge = ActiveEdge(b) THEN {}
                                      ELSE {"IfElseAloadPolarity"}
    BY <2>1, <2>3, <2>5, OneTaken
  <2>7. k = i
    <3>1. \A j \in 1..2 : j = i \/ j = 3 - i
      OBVIOUS
    <3> QED
      BY <2>2, <2>6, <3>1 DEF Splits
  <2>8. AsyncPattern(p).errors = {} /\ Len(AsyncPattern(p).async) = 1
    BY <2>2, <2>6, <2>7
  <2>9. t # <<>>
    BY <2>1 DEF IsProgram
  <2>10. net = FlipFlop(p, AsyncPattern(p))
    BY <1>1, <2>1, <2>6, <2>9, Zenon DEF Typed, Interpret, FlipFlop
  <2> HIDE DEF p, t, b
  <2>11. net.kind = "ff" /\ net.errors = {} /\ net.async = AsyncPattern(p).async
    BY <2>1, <2>8, <2>10 DEF FlipFlop
  <2>12. ~(Len(net.async) > 1)
    <3>1. Len(net.async) = 1
      BY <2>8, <2>11
    <3> QED
      BY ONLY <3>1
  <2> QED
    BY <2>11, <2>12 DEF Accepted, Errors
<1>2. Typed => RecognisesReset
  BY <1>1 DEF RecognisesReset
<1> QED
  BY <1>2, TypedAlways, PTL
=============================================================================
