---------------------------- MODULE Expressions ----------------------------
(***************************************************************************)
(* EvalContext on expressions of operators: an operand is operated on, and *)
(* the result again.  An operand is its signal, the signedness of its type, *)
(* whose width is the signal's, and `want', what the language says its     *)
(* bits are in each valuation.                                             *)
(***************************************************************************)
EXTENDS Operators

CONSTANTS
  Lefts,     (* operands to begin with                                     *)
  Rights,    (* right operands, of which the constant ones may have x bits *)
  Others,    (* third operands, and bounds of ranges                       *)
  Result,    (* width of the result of $countones and $clog2               *)
  MaxWidth,  (* bound on the width of an operation                         *)
  MaxOps     (* bound on the operations                                    *)

VARIABLES
  left, right,
  applied,   (* number of operations                                       *)
  misled     (* a comparison that ThreeValued may get wrong has been folded *)

exprVars == <<left, right, applied, misled>>

Operand(sig, signed, want) == [sig |-> sig, signed |-> signed, want |-> want]
Leaf(sig, signed)          == Operand(sig, signed, sig.val)

WidthOf(o) == o.sig.len
Value(o, e) == IF o.signed THEN Negative(o.want[e], WidthOf(o)) ELSE o.want[e]
Plain(o)    == o.sig.xs = {}

(* apply_conversion: an operand is extended as the type it is propagated   *)
(* to says, any other conversion as the type it comes from says.           *)
Propagate(o, w, signed) ==
  Operand(Extend(o.sig, w, signed), signed,
          [e \in Env |-> (IF signed THEN Value(o, e) ELSE o.want[e]) % 2 ^ w])
Convert(o, w, signed) ==
  Operand(Extend(o.sig, w, o.signed), signed, [e \in Env |-> Value(o, e) % 2 ^ w])

Common(operands) ==
  [w |-> Max({WidthOf(o) : o \in operands}), signed |-> \A o \in operands : o.signed]

Becomes(sig, signed, want(_)) ==
  /\ left' = Operand(sig, signed, [e \in Env |-> want(e) % 2 ^ sig.len])
  /\ applied' = applied + 1

(* The most significant bits of a comparison are constants that differ. *)
TopsDiffer(a, b) ==
  /\ ~(Const(a) /\ Const(b))
  /\ Knows(a, a.len - 1) * Knows(b, b.len - 1) = -1

(* Operands of a common type, of the context's width if that is larger. *)
Arithmetic(op, w) ==
  LET signed == left.signed /\ right.signed
      l == Propagate(left, w, signed)
      r == Propagate(right, w, signed)
  IN  /\ op \in {"add", "sub", "mul", "and", "or", "xor", "xnor"}
      /\ w >= Larger(WidthOf(left), WidthOf(right))
      /\ Becomes(EvalBinary(op, l.sig, r.sig, signed, signed, w), signed,
                 LAMBDA e : Meaning(op, Value(l, e), Value(r, e), w))
      /\ misled' = misled

Comparison(op) ==
  LET t == Common({left, right})
      l == Propagate(left, t.w, t.signed)
      r == Propagate(right, t.w, t.signed)
  IN  /\ op \in Order \cup {"eq", "ne"}
      /\ Becomes(EvalBinary(op, l.sig, r.sig, t.signed, t.signed, 1), FALSE,
                 LAMBDA e : Meaning(op, Value(l, e), Value(r, e), 1))
      /\ misled' = (misled \/ (op \in Order /\ TopsDiffer(l.sig, r.sig)))

Logical(op) ==
  LET meant(e) == CASE op = "implication" -> Truth(left.want[e] = 0 \/ right.want[e] # 0)
                    [] op = "equivalence" -> Truth((left.want[e] = 0) <=> (right.want[e] = 0))
                    [] OTHER              -> Meaning(op, left.want[e], right.want[e], 1)
  IN  /\ op \in {"logic_and", "logic_or", "implication", "equivalence"}
      /\ Becomes(EvalBinary(op, left.sig, right.sig, left.signed, right.signed, 1), FALSE, meant)
      /\ misled' = misled

(* The amount of a shift is unsigned and of a type of its own. *)
ShiftBy(op, w) ==
  LET l == Propagate(left, w, left.signed)
  IN  /\ op \in Shifts /\ w >= WidthOf(left)
      /\ Becomes(EvalBinary(op, l.sig, right.sig, left.signed, right.signed, w), left.signed,
                 LAMBDA e : Meaning(op, Value(l, e), right.want[e], w))
      /\ misled' = misled

OneOperand(op, w) ==
  LET wide == op \in {"neg", "pos", "not"}
      a    == IF wide THEN Propagate(left, w, left.signed) ELSE left
      base == IF op \in DOMAIN Inverted THEN Inverted[op] ELSE op
      bit(e) == MeaningOfOne(base, Value(a, e), WidthOf(a))
  IN  /\ op \in Unary /\ w >= WidthOf(left) /\ (wide \/ w = WidthOf(left))
      /\ Becomes(EvalUnary(op, a.sig, left.signed, IF wide THEN w ELSE 1), wide /\ left.signed,
                 LAMBDA e : IF op \in DOMAIN Inverted THEN 1 - (bit(e) % 2) ELSE bit(e))
      /\ misled' = misled

Cast(w, signed) ==
  /\ left' = Convert(left, w, signed)
  /\ applied' = applied + 1
  /\ misled' = misled

Concatenation ==
  /\ WidthOf(left) + WidthOf(right) <= MaxWidth
  /\ Becomes(Concat(left.sig, right.sig), FALSE,
             LAMBDA e : left.want[e] * 2 ^ WidthOf(right) + right.want[e])
  /\ misled' = misled

Conditional(other) ==
  LET t == Common({right, other})
      r == Propagate(right, t.w, t.signed)
      o == Propagate(other, t.w, t.signed)
  IN  /\ Plain(other)
      /\ Becomes(Mux(o.sig, r.sig, ReduceBool(left.sig)), t.signed,
                 LAMBDA e : IF left.want[e] # 0 THEN r.want[e] ELSE o.want[e])
      /\ misled' = misled

(* The bits of a pattern that are not x. *)
Matches(e, l, pattern) ==
  \A i \in Positions(pattern.sig) \ pattern.sig.xs :
    Digit(l.want[e], i) = Digit(pattern.want[e], i)

Wildcard(invert) ==
  LET t == Common({left, right})
      l == Propagate(left, t.w, t.signed)
      r == Propagate(right, t.w, t.signed)
  IN  /\ Const(right.sig)
      /\ Becomes(Unop(IF invert THEN "logic_not" ELSE "reduce_bool",
                      EqWildcard(l.sig, r.sig), FALSE, 1), FALSE,
                 LAMBDA e : Truth(invert # Matches(e, l, r)))
      /\ misled' = misled

Inside(low, high) ==
  LET t == Common({left, right, low, high})
      of(o) == Propagate(o, t.w, t.signed)
  IN  /\ Const(right.sig) /\ Plain(low) /\ Plain(high)
      /\ Becomes(EvalInside(of(left).sig, of(right).sig, of(low).sig, of(high).sig, t.signed),
                 FALSE,
                 LAMBDA e : Truth(\/ Matches(e, of(left), of(right))
                                  \/ Value(of(left), e) \in Value(of(low), e)..Value(of(high), e)))
      /\ misled' = misled

Ones(n, w) == MapThenSumSet(LAMBDA i : Digit(n, i), 0..(w - 1))
BitsToCount(n) == IF n = 0 THEN 0 ELSE CHOOSE k \in 0..n : 2 ^ k >= n /\ (k = 0 \/ 2 ^ (k - 1) < n)

SystemCall(name) ==
  /\ name \in {"countones", "clog2"}
  /\ Becomes(IF name = "countones" THEN CountOnes(left.sig, Result) ELSE Clog2(left.sig, Result),
             TRUE,
             LAMBDA e : IF name = "countones" THEN Ones(left.want[e], WidthOf(left))
                        ELSE BitsToCount(left.want[e]))
  /\ misled' = misled

(* Where bit i of the operand is in {<< slice {operand}}: the blocks are   *)
(* reversed, and the last one may be short; a wider target takes the       *)
(* stream at its most significant end.                                     *)
StreamOut(slice, w) ==
  LET n     == WidthOf(left)
      first(i) == (i \div slice) * slice
      size(i)  == IF first(i) + slice <= n THEN slice ELSE n - first(i)
      place(i) == w - first(i) - size(i) + (i - first(i))
  IN  /\ w >= n
      /\ Becomes(StreamTo(Streaming(left.sig, slice), w), FALSE,
                 LAMBDA e : MapThenSumSet(LAMBDA i : Digit(left.want[e], i) * 2 ^ place(i),
                                          0..(n - 1)))
      /\ misled' = misled

ExprInit ==
  /\ left \in Lefts /\ right \in Rights
  /\ applied = 0
  /\ misled = FALSE

(* No expression is being evaluated. *)
ExprIdle ==
  /\ left = Leaf(Literal(0, 1), FALSE) /\ right = left
  /\ applied = MaxOps
  /\ misled = FALSE

WithOne ==
  \/ \E op \in Unary, w \in 1..MaxWidth : OneOperand(op, w)
  \/ \E w \in 1..MaxWidth, signed \in BOOLEAN : Cast(w, signed)
  \/ \E name \in {"countones", "clog2"} : SystemCall(name)
  \/ \E slice \in 1..MaxWidth, w \in 1..MaxWidth : StreamOut(slice, w)

WithTwo ==
  \/ \E op \in Binary, w \in 1..MaxWidth : Arithmetic(op, w) \/ ShiftBy(op, w)
  \/ \E op \in Binary : Comparison(op) \/ Logical(op)
  \/ Concatenation
  \/ \E other \in Others : Conditional(other)

WithPattern ==
  \/ \E invert \in BOOLEAN : Wildcard(invert)
  \/ \E low, high \in Others : Inside(low, high)

ExprNext ==
  /\ applied < MaxOps
  /\ WidthOf(left) <= MaxWidth
  /\ \/ WithOne
     \/ Plain(right) /\ WithTwo
     \/ WithPattern
  /\ right' = right

-----------------------------------------------------------------------------

(* The value of the expression is the one that the language defines.       *)
ValueCorrect == left.sig.val = left.want
=============================================================================
