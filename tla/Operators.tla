----------------------------- MODULE Operators -----------------------------
(***************************************************************************)
(* The operators of expressions.  EvalContext picks a cell for each, and   *)
(* whether its operands are signed; RTLILBuilder puts a constant in place  *)
(* of the cell where it thinks that it knows the output.                   *)
(*                                                                         *)
(* A signal is the number it is in every valuation of the wires, and the   *)
(* positions of those of its bits that the builder knows as constants, or  *)
(* as x.  What a cell computes (Meaning) is external.  Division, remainder *)
(* and power only fold two constants, as all operators do, and are left    *)
(* out; so is what an operand that is x makes of a result.                 *)
(***************************************************************************)
EXTENDS Integers, Sequences, FiniteSetsExt

CONSTANT NWires   (* number of one-bit wires *)

Env == 0..(2 ^ NWires - 1)

Digit(n, i)    == (n \div 2 ^ i) % 2
Larger(m, n)   == IF m < n THEN n ELSE m
Truth(b)       == IF b THEN 1 ELSE 0
Negative(n, w) == IF n >= 2 ^ (w - 1) THEN n - 2 ^ w ELSE n

Signal(len, val, known, xs) == [len |-> len, val |-> val, known |-> known, xs |-> xs]
Positions(s)  == 0..(s.len - 1)
Literal(n, w) == Signal(w, [e \in Env |-> n % 2 ^ w], 0..(w - 1), {})
WireBit(w)    == Signal(1, [e \in Env |-> Digit(e, w)], {}, {})
XBit          == Signal(1, [e \in Env |-> 0], {0}, {0})
Cell(f, w)    == Signal(w, [e \in Env |-> f[e] % 2 ^ w], {}, {})

Const(s)      == s.known = Positions(s)
Knows(s, i)   == IF i \in s.known \ s.xs THEN (IF Digit(s.val[0], i) = 1 THEN 1 ELSE -1) ELSE 0
Zero(s)       == \A i \in Positions(s) : Knows(s, i) = -1
True(s)       == Const(s) /\ \E i \in Positions(s) : Knows(s, i) = 1
Num(s, signed, e) == IF signed THEN Negative(s.val[e], s.len) ELSE s.val[e]

Concat(hi, lo) ==
  LET up(S) == {i + lo.len : i \in S}
  IN  Signal(hi.len + lo.len, [e \in Env |-> hi.val[e] * 2 ^ lo.len + lo.val[e]],
             lo.known \cup up(hi.known), lo.xs \cup up(hi.xs))
Extract(s, at, n) ==
  LET of(S) == {i - at : i \in S \cap at..(at + n - 1)}
  IN  Signal(n, [e \in Env |-> (s.val[e] \div 2 ^ at) % 2 ^ n], of(s.known), of(s.xs))

(* SigSpec::extend_u0, which also truncates. *)
Extend(s, w, signed) ==
  LET top   == s.len - 1
      of(S) == (S \cap 0..(w - 1)) \cup (IF signed /\ top \in S THEN s.len..(w - 1) ELSE {})
  IN  Signal(w, [e \in Env |-> Num(s, signed, e) % 2 ^ w],
             of(s.known) \cup (IF signed THEN {} ELSE s.len..(w - 1)), of(s.xs))

(* A definition whose name continues another one's after an underscore is  *)
(* that definition with a plausible mistake; no specification uses it.     *)

-----------------------------------------------------------------------------
(* The cells, on operands of as many bits as the result where it matters.  *)

Order == {"lt", "le", "gt", "ge"}

Bitwise(op, x, y, w) ==
  LET digit(i) == Truth(CASE op = "and"  -> Digit(x, i) + Digit(y, i) = 2
                          [] op = "or"   -> Digit(x, i) + Digit(y, i) > 0
                          [] op = "xor"  -> Digit(x, i) # Digit(y, i)
                          [] op = "xnor" -> Digit(x, i) = Digit(y, i))
  IN  MapThenSumSet(LAMBDA i : digit(i) * 2 ^ i, 0..(w - 1))

ShiftLeft(x, n) == IF n >= 0 THEN x * 2 ^ n ELSE x \div 2 ^ (-n)

Meaning(op, x, y, w) ==
  CASE op = "add"            -> x + y
    [] op = "sub"            -> x - y
    [] op = "mul"            -> x * y
    [] op \in {"and", "or", "xor", "xnor"} -> Bitwise(op, x, y, w)
    [] op = "eq"             -> Truth(x = y)
    [] op = "ne"             -> Truth(x # y)
    [] op = "lt"             -> Truth(x < y)
    [] op = "le"             -> Truth(x <= y)
    [] op = "gt"             -> Truth(x > y)
    [] op = "ge"             -> Truth(x >= y)
    [] op = "logic_and"      -> Truth(x # 0 /\ y # 0)
    [] op = "logic_or"       -> Truth(x # 0 \/ y # 0)
    [] op \in {"shl", "sshl"} -> ShiftLeft(x, y)
    [] op = "shr"            -> ShiftLeft(x % 2 ^ w, -y)
    [] op = "sshr"           -> ShiftLeft(x, -y)

MeaningOfOne(op, x, len) ==
  CASE op = "pos"         -> x
    [] op = "neg"         -> -x
    [] op = "not"         -> -x - 1
    [] op = "logic_not"   -> Truth(x = 0)
    [] op = "reduce_bool" -> Truth(x # 0)
    [] op = "reduce_or"   -> Truth(x # 0)
    [] op = "reduce_and"  -> Truth(x % 2 ^ len = 2 ^ len - 1)
    [] op = "reduce_xor"  -> MapThenSumSet(LAMBDA i : Digit(x, i), 0..(len - 1))
    [] op = "reduce_xnor" -> 1 - (MapThenSumSet(LAMBDA i : Digit(x, i), 0..(len - 1)) % 2)

-----------------------------------------------------------------------------
(* RTLILBuilder.                                                           *)

Output(f, w, const) == IF const THEN Literal(f[0], w) ELSE Cell(f, w)

Unop(op, a, signed, w) ==
  Output([e \in Env |-> MeaningOfOne(op, Num(a, signed, e), a.len)], w, Const(a))
LogicNot(a)   == Unop("logic_not", a, FALSE, 1)
ReduceBool(a) == IF a.len = 1 THEN a ELSE Unop("reduce_bool", a, FALSE, 1)

Relation(op, a, b, signed) ==
  Output([e \in Env |-> Meaning(op, Num(a, signed, e), Num(b, signed, e), 1)], 1,
         Const(a) /\ Const(b))

EqWildcard(a, b) ==
  LET keep(s) == [e \in Env |-> MapThenSumSet(LAMBDA i : Digit(s.val[e], i) * 2 ^ i,
                                              Positions(b) \ b.xs)]
      l == keep(a)
      r == keep(b)
  IN  Output([e \in Env |-> Truth(l[e] = r[e])], 1, Positions(b) \ b.xs \subseteq a.known)

LogicAnd(a, b) ==
  CASE Zero(a) \/ Zero(b)                                  -> Literal(0, 1)
    [] ~Zero(a) /\ ~Zero(b) /\ Const(a) /\ b.len = 1       -> b
    [] ~Zero(a) /\ ~Zero(b) /\ ~(Const(a) /\ b.len = 1)
         /\ Const(b) /\ a.len = 1                          -> a
    [] OTHER -> Cell([e \in Env |-> Truth(a.val[e] # 0 /\ b.val[e] # 0)], 1)

Mux(a, b, s) ==
  IF Const(s) THEN (IF Zero(s) THEN a ELSE b)
  ELSE Cell([e \in Env |-> IF s.val[e] = 1 THEN b.val[e] ELSE a.val[e]], a.len)

(* ThreeValued: a literal is 1, -1, or 0 where it is not known. *)
AND(a, b)      == IF a < 0 \/ b < 0 THEN -1 ELSE IF a > 0 /\ b > 0 THEN 1 ELSE 0
OR(a, b)       == -AND(-a, -b)
XOR(a, b)      == OR(AND(a, -b), AND(-a, b))
CARRY(a, b, c) == IF c > 0 THEN OR(a, b) ELSE OR(AND(a, b), AND(c, OR(a, b)))

(* The subtraction behind a comparison, the greater side second; the carry *)
(* out of the lowest i positions.                                          *)
Lit(s, i, signed) ==
  IF i < s.len THEN Knows(s, i) ELSE IF signed THEN Knows(s, s.len - 1) ELSE -1

Compared(op, a, b, as, bs) ==
  LET width    == Larger(a.len, b.len)
      swap     == op \in {"gt", "ge"}
      al(i)    == IF swap THEN Lit(b, i, bs) ELSE Lit(a, i, as)
      bl(i)    == IF swap THEN Lit(a, i, as) ELSE Lit(b, i, bs)
      carry[i \in 0..(width - 1)] ==
        IF i = 0 THEN (IF op \in {"le", "ge"} THEN -1 ELSE 1)
        ELSE CARRY(al(i - 1), -bl(i - 1), carry[i - 1])
  IN  XOR(carry[width - 1], -XOR(al(width - 1), bl(width - 1)))

(* Bits below the zeros that are known at the top. *)
Significant(s) == LET S == {i + 1 : i \in {j \in Positions(s) : Knows(s, j) # -1}}
                  IN  IF S = {} THEN 0 ELSE Max(S)

BiopCell_OneMore(op, a, b, as, bs, w) ==
  LET zeroes == IF op = "mul" /\ ~as /\ ~bs
                  THEN Larger(0, w - (Significant(a) + Significant(b) - 1)) ELSE 0
      f      == [e \in Env |-> Meaning(op, Num(a, as, e), Num(b, bs, e), w)]
  IN  Concat(Literal(0, zeroes), Cell(f, w - zeroes))
BiopCell(op, a, b, as, bs, w) ==
  LET zeroes == IF op = "mul" /\ ~as /\ ~bs
                  THEN Larger(0, w - (Significant(a) + Significant(b))) ELSE 0
      f      == [e \in Env |-> Meaning(op, Num(a, as, e), Num(b, bs, e), w)]
  IN  Concat(Literal(0, zeroes), Cell(f, w - zeroes))

Biop(op, a, b, as, bs, w) ==
  IF Const(a) /\ Const(b)
    THEN Literal(Meaning(op, Num(a, as, 0), Num(b, bs, 0), w), w)
  ELSE CASE op \in Order /\ Compared(op, a, b, as, bs) # 0 ->
              Literal(Truth(Compared(op, a, b, as, bs) > 0), w)
         [] op = "logic_and" /\ (Zero(a) \/ Zero(b)) -> Literal(0, w)
         [] op = "logic_or" /\ (True(a) \/ True(b))  -> Literal(1, w)
         [] OTHER -> BiopCell(op, a, b, as, bs, w)

(* A tree of adders over the bits, adjacent ones first. *)
CountOnes(s, w) ==
  LET PairUp(level) ==
        [k \in 1..((Len(level) + 1) \div 2) |->
           IF 2 * k > Len(level) THEN level[2 * k - 1]
           ELSE Biop("add", level[2 * k - 1], level[2 * k], FALSE, FALSE, w)]
      Levels[n \in 0..s.len] ==
        IF n = 0 THEN [k \in 1..s.len |-> Extend(Extract(s, k - 1, 1), w, FALSE)]
        ELSE PairUp(Levels[n - 1])
  IN  Levels[s.len][1]

Clog2(s, w) ==
  LET less   == Biop("sub", s, Literal(1, s.len), FALSE, FALSE, s.len)
      last[n \in 0..s.len] ==
        IF n = 0 THEN Literal(0, w)
        ELSE Mux(last[n - 1], Literal(n, w), Extract(less, n - 1, 1))
  IN  Mux(Literal(0, w), last[s.len], ReduceBool(s))

-----------------------------------------------------------------------------
(* EvalContext.                                                            *)

Shifts  == {"shl", "shr", "sshl", "sshr"}
Binary  == {"add", "sub", "mul", "and", "or", "xor", "xnor", "eq", "ne", "logic_and",
            "logic_or", "implication", "equivalence"} \cup Order \cup Shifts
Unary   == {"neg", "pos", "not", "logic_not", "reduce_or", "reduce_and", "reduce_xor",
            "reduce_xnor", "nand", "nor"}
Inverted == [nand |-> "reduce_and", nor |-> "reduce_or"]

EvalBinary(op, l, r, ls, rs, w) ==
  CASE op = "implication" -> Biop("logic_or", LogicNot(l), r, FALSE, rs, w)
    [] op = "equivalence" -> Biop("eq", ReduceBool(l), ReduceBool(r), FALSE, FALSE, w)
    [] op \in Shifts      -> Biop(op, l, r, ls /\ op \notin {"shl", "shr"}, FALSE, w)
    [] OTHER              -> Biop(op, l, r, ls, rs, w)

EvalUnary(op, a, signed, w) ==
  IF op \in DOMAIN Inverted THEN LogicNot(Unop(Inverted[op], a, signed, w))
  ELSE Unop(op, a, signed, w)

(* inside: one value, with wildcards, and one range. *)
EvalInside(l, item, low, high, signed) ==
  LET hits == Concat(LogicAnd(Relation("ge", l, low, signed), Relation("le", l, high, signed)),
                     EqWildcard(l, item))
  IN  ReduceBool(hits)

(* streaming with a slice size, and its conversion to a wider type. *)
Streaming(s, slice) ==
  LET from(k) == Extract(s, k * slice, IF (k + 1) * slice <= s.len THEN slice
                                       ELSE s.len - k * slice)
      after[k \in 0..((s.len + slice - 1) \div slice - 1)] ==
        IF k = 0 THEN from(0) ELSE Concat(after[k - 1], from(k))
  IN  after[(s.len + slice - 1) \div slice - 1]
StreamTo(s, w) == Concat(s, Literal(0, w - s.len))
=============================================================================
