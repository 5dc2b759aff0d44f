------------------------------ MODULE Selects ------------------------------
(***************************************************************************)
(* Parts of variables on both sides of an assignment: LValue::analyze and  *)
(* assign_to_lvalue_with_masking for targets, EvalContext for operands.    *)
(* A target is analysed from the variable outwards, one select or member   *)
(* access at a time, and several may be concatenated; it is then assigned  *)
(* from the outside inwards, each level embedding the value and its mask   *)
(* in those of the next.                                                   *)
(*                                                                         *)
(* The state is the chain analysed so far together with the value each of  *)
(* its indices has when the circuit runs: every state is a circuit and an  *)
(* input to compare with what the language says is selected.               *)
(***************************************************************************)
EXTENDS Addressing, SequencesExt

CONSTANTS
  Types,     (* types of variables: array dimensions and a struct inside   *)
  PartTypes, (* those that may be concatenated                             *)
  Width,     (* bits of an index expression                                *)
  MaxItems,  (* bound on the items of a range select                       *)
  MaxParts   (* bound on the operands of a concatenation                   *)

ASSUME SelectsAssumption ==
  PartTypes \subseteq Types /\ {Width, MaxItems, MaxParts} \subseteq Nat \ {0}

VARIABLES
  parts,     (* finished operands of the concatenation, leftmost first     *)
  chain,     (* the operand being analysed: its levels, innermost first    *)
  type       (* the type of what chain denotes; Scalar ends the chain      *)

vars == <<parts, chain, type>>

(* A type is a sequence of ranges and the fields of the structs they hold; *)
(* a field is an offset and the ranges of its bits.                        *)
Bits     == {}
Scalar   == [dims |-> <<>>, fields |-> Bits]
RECURSIVE Product(_)
Product(dims) == IF dims = <<>> THEN 1 ELSE RangeWidth(dims[1]) * Product(Tail(dims))
Struct(fields) ==
  IF fields = Bits THEN 1
  ELSE LET ends == {f.offset + Product(f.dims) : f \in fields}
       IN  CHOOSE n \in ends : \A m \in ends : m <= n
Size(t)    == Product(t.dims) * Struct(t.fields)
Element(t) == [t EXCEPT !.dims = Tail(@)]

Outer(c)    == Last(c)
Whole(c)    == c[1].size
Variable(t) == <<[kind |-> "variable", type |-> t, size |-> Size(t), known |-> TRUE]>>

Init ==
  /\ type \in Types
  /\ chain = Variable(type)
  /\ parts = <<>>

(* The levels.  `known' is is_static of the target so far; `at' and `n'    *)
(* keep the indices of the program, for the reference.                     *)
Level(kind, r, at, n, up) ==
  [kind |-> kind, r |-> r, size |-> n * r.stride, known |-> Outer(chain).known /\ r.known,
   at |-> at, n |-> n, up |-> up]

Push(level, t) == chain' = Append(chain, level) /\ type' = t /\ UNCHANGED parts

SelectElement(index, known) ==
  /\ type.dims # <<>>
  /\ LET t == Element(type)
     IN  Push(Level("element", ElementSelect(type.dims[1], index, Width, Size(t), known),
                  index, 1, TRUE), t)

SelectIndexed(index, known, n, up) ==
  /\ type.dims # <<>> /\ n <= RangeWidth(type.dims[1])
  /\ LET stride == Size(Element(type))
         r == IF up THEN IndexedUp(type.dims[1], index, Width, stride, known, n)
                    ELSE IndexedDown(type.dims[1], index, Width, stride, known, n)
     IN  Push(Level("range", r, index, n, up), Scalar)

(* [left:right] with constant bounds; the language has them in the order   *)
(* of the declaration.                                                     *)
SelectSimple(right, n) ==
  /\ type.dims # <<>> /\ n <= RangeWidth(type.dims[1])
  /\ Push(Level("range", Simple(type.dims[1], right, Size(Element(type))), right, n,
                LittleEndian(type.dims[1])), Scalar)

SelectMember(f) ==
  /\ type.dims = <<>> /\ f \in type.fields
  /\ Push([kind |-> "member", offset |-> f.offset, size |-> Product(f.dims),
           known |-> Outer(chain).known],
          [dims |-> f.dims, fields |-> Bits])

(* The next operand of a concatenation, a variable of its own. *)
NextPart(t) ==
  /\ Len(chain) > 1 /\ Len(parts) + 1 < MaxParts
  /\ {chain[1].type, t} \subseteq PartTypes
  /\ parts' = Append(parts, chain)
  /\ chain' = Variable(t)
  /\ type' = t

Next ==
  \/ \E index \in Indices(Width), known \in BOOLEAN :
       \/ SelectElement(index, known)
       \/ \E n \in 1..MaxItems, up \in BOOLEAN : SelectIndexed(index, known, n, up)
  \/ \E right \in Indices(Width), n \in 1..MaxItems : SelectSimple(right, n)
  \/ \E f \in type.fields : SelectMember(f)
  \/ \E t \in Types : NextPart(t)

Spec == Init /\ [][Next]_vars

Operands == Append(parts, chain)
Below(c) == Front(c)

-----------------------------------------------------------------------------
(* Reading: EvalContext on the chain, from the variable outwards.          *)

ReadLevel(value, level) ==
  CASE level.kind = "variable" -> value
    [] level.kind = "member"   -> Extract(value, level.offset, level.size)
    [] level.kind = "element"  -> MuxItem(level.r, value)
    [] level.kind = "range"    -> ShiftDown(level.r, value, level.size)
ReadChain(c, value) == FoldLeft(ReadLevel, value, c)

(* evaluate_vbits of a known target: the numbers of the variable's bits,   *)
(* least significant first, and 0 for a dummy.                             *)
VbitsLevel(bits, level) ==
  CASE level.kind = "variable" -> bits
    [] level.kind = "member"   -> Extract(bits, level.offset, level.size)
    [] OTHER                   -> ExtractKnown(level.r, bits, level.size, 0)
EvaluateVbits(c) == FoldLeft(VbitsLevel, [i \in 1..Whole(c) |-> i], c)

(* update_variable_state on the bits of one variable. *)
UpdateBits(store, bits, rvalue, mask) ==
  LET hit(i) == {k \in 1..Len(bits) : bits[k] = i /\ mask[k] = "1"}
  IN  [i \in 1..Len(store) |->
         IF hit(i) = {} THEN store[i] ELSE rvalue[CHOOSE k \in hit(i) : TRUE]]

(* assign_to_lvalue_with_masking: the value and mask one level further in. *)
Repeat(s, n) == FlattenSeq([i \in 1..n |-> s])
Inwards(level, inner, v) ==
  CASE level.kind = "member" ->
         LET pad(bit) == Rep(bit, inner.size - level.size - level.offset)
         IN  [rvalue |-> Rep("x", level.offset) \o v.rvalue \o pad("x"),
              mask   |-> Rep("0", level.offset) \o v.mask \o pad("0")]
    [] level.kind # "member" /\ level.r.stride = level.size ->
         [rvalue |-> Repeat(v.rvalue, RangeWidth(level.r.range)),
          mask   |-> DemuxItem(level.r, v.mask, inner.size)]
    [] level.kind # "member" /\ level.r.stride # level.size ->
         [rvalue |-> ShiftUp(level.r, v.rvalue, TRUE, inner.size),
          mask   |-> ShiftUp(level.r, v.mask, FALSE, inner.size)]

RECURSIVE AssignChain(_, _, _)
AssignChain(c, store, v) ==
  IF Outer(c).known THEN UpdateBits(store, EvaluateVbits(c), v.rvalue, v.mask)
  ELSE AssignChain(Below(c), store, Inwards(Outer(c), Outer(Below(c)), v))

(* The right-hand side of an assignment to the operand numbered p, and the *)
(* bits of its variable before the assignment.                             *)
SizeOf(p)   == Outer(Operands[p]).size
Total       == FoldLeft(LAMBDA n, p : n + SizeOf(p), 0, [p \in 1..Len(Operands) |-> p])
Rvalue      == [i \in 1..Total |-> <<"r", i>>]
Old(p)      == [i \in 1..Whole(Operands[p]) |-> <<"old", p, i>>]

(* The concatenation takes the value apart from its most significant end. *)
Base(p) == LET rest(n, q) == IF q <= p THEN n - SizeOf(q) ELSE n
           IN  FoldLeft(rest, Total, [q \in 1..Len(Operands) |-> q])
Assigned(p) ==
  LET v == Extract(Rvalue, Base(p), SizeOf(p))
  IN  AssignChain(Operands[p], Old(p), [rvalue |-> v, mask |-> Rep("1", SizeOf(p))])

-----------------------------------------------------------------------------
(* What the language says: item k of a select, counted from the least      *)
(* significant, is the element with the k-th index of the selection; one   *)
(* outside the range of the declaration does not exist.                    *)

ItemIndex(level, k) ==
  LET lowest == CASE level.up /\ ~LittleEndian(level.r.range)  -> level.at + level.n - 1
                  [] ~level.up /\ LittleEndian(level.r.range)  -> level.at - level.n + 1
                  [] OTHER -> level.at
  IN  IF LittleEndian(level.r.range) THEN lowest + k ELSE lowest - k
Position(range, index) == IF LittleEndian(range) THEN index - range[2] ELSE range[2] - index

(* The bits of the variable that a chain denotes; 0 for none. *)
DenotesLevel(bits, level) ==
  LET bit(i) ==
        LET pos == Position(level.r.range, ItemIndex(level, (i - 1) \div level.r.stride))
        IN  IF pos \in 0..(RangeWidth(level.r.range) - 1)
              THEN bits[pos * level.r.stride + ((i - 1) % level.r.stride) + 1] ELSE 0
  IN  CASE level.kind = "variable" -> bits
        [] level.kind = "member"   -> [i \in 1..level.size |-> bits[level.offset + i]]
        [] OTHER                   -> [i \in 1..level.size |-> bit(i)]
Denotes(c) == FoldLeft(DenotesLevel, [i \in 1..Whole(c) |-> i], c)

(* Every circuit has the widths its surroundings expect of it; the asserts *)
(* of AddressingResolver compare them.                                     *)
TypeOK ==
  /\ \A p \in 1..Len(Operands) : /\ Len(ReadChain(Operands[p], Old(p))) = SizeOf(p)
                                 /\ Len(Assigned(p)) = Whole(Operands[p])
  /\ Outer(chain).size = Size(type) \/ type = Scalar

(* A read yields exactly the selected bits in order, and x for those that  *)
(* do not exist, through any nest of selects, for known and for changing,  *)
(* negative and reversed indices.                                          *)
ReadsSelected ==
  \A p \in 1..Len(Operands) :
    LET c == Operands[p]
    IN  ReadChain(c, Old(p)) =
          [i \in 1..SizeOf(p) |-> IF Denotes(c)[i] = 0 THEN "x" ELSE Old(p)[Denotes(c)[i]]]

(* A write changes exactly the selected bits that exist, each to its own   *)
(* bit of the value, and leaves the rest of the variable alone.            *)
WritesSelected ==
  \A p \in 1..Len(Operands) :
    LET c      == Operands[p]
        to(i)  == {k \in 1..SizeOf(p) : Denotes(c)[k] = i}
        above  == FoldLeft(LAMBDA n, q : IF q > p THEN n + SizeOf(q) ELSE n, 0,
                           [q \in 1..Len(Operands) |-> q])
    IN  \A i \in 1..Whole(c) :
          Assigned(p)[i] = IF to(i) = {} THEN Old(p)[i]
                           ELSE <<"r", above + CHOOSE k \in to(i) : TRUE>>
=============================================================================
