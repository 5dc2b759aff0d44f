---------------------------- MODULE MCEvaluation ----------------------------
(* Finite instances of Evaluation.  Selects: ascending and descending ranges *)
(* that start below, at and above zero, arrays of vectors, and an array of   *)
(* structs.  Operators: operands of one or two bits, each a constant or one  *)
(* of two wires.                                                             *)
EXTENDS Evaluation

Vector(l, r)        == [dims |-> <<<<l, r>>>>, fields |-> Bits]
Array(l, r, l2, r2) == [dims |-> <<<<l, r>>, <<l2, r2>>>>, fields |-> Bits]

VectorTypes == {Vector(l, r) : l, r \in -2..3}
PairFields  == {[offset |-> 0, dims |-> <<<<1, 0>>>>], [offset |-> 2, dims |-> <<>>]}
NestedTypes == {Array(1, 0, 0, 1), Array(-1, 1, 2, 1), Array(2, 1, 0, 0),
                [dims |-> <<<<0, 1>>>>, fields |-> PairFields],
                [dims |-> <<>>, fields |-> PairFields]}
SelectTypes == VectorTypes \cup NestedTypes

(* Types of the operands of a concatenation. *)
PairedTypes == {Vector(1, 0), Vector(0, 2)}

O == INSTANCE Operators

Wires     == {O!WireBit(0), O!WireBit(1)}
OneBit    == {O!Literal(0, 1), O!Literal(1, 1)} \cup Wires
TwoBits   == {O!Concat(a, b) : a, b \in OneBit}
Patterns  == {O!Concat(O!Literal(1, 1), O!XBit), O!Concat(O!XBit, O!Literal(0, 1)), O!XBit}

Leaf(s, signed) == [sig |-> s, signed |-> signed, want |-> s.val]
Typed(signals)  == {Leaf(s, signed) : s \in signals, signed \in BOOLEAN}

AllLefts  == Typed(TwoBits)
AllRights == Typed(OneBit \cup {O!Concat(a, O!WireBit(1)) : a \in OneBit}
                     \cup {O!Literal(2, 2), O!Literal(3, 2)} \cup Patterns)
AllOthers == {Leaf(O!Literal(2, 2), FALSE), Leaf(O!Literal(3, 2), TRUE),
              Leaf(O!Concat(O!WireBit(0), O!Literal(1, 1)), TRUE)}
=============================================================================
