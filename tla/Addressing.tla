----------------------------- MODULE Addressing -----------------------------
(***************************************************************************)
(* AddressingResolver: the circuits that read and write a selected part of *)
(* a vector or array whose index may not be known before the circuit runs. *)
(*                                                                         *)
(* A signal is the sequence of its bits, least significant first.  Bits    *)
(* are whatever values the module that uses this one gives them; "0", "1"  *)
(* and "x" are the constants.  An index is the number it is when the       *)
(* circuit runs, `raw', in a signal of `width' bits.                       *)
(***************************************************************************)
EXTENDS Integers, Sequences

(* A definition whose name continues another one's after an underscore is  *)
(* that definition with a plausible mistake; no specification uses it.     *)

Rep(bit, n)          == [i \in 1..n |-> bit]
Extract(s, at, len)  == SubSeq(s, at + 1, at + len)
ExtractEnd(s, at)    == SubSeq(s, at + 1, Len(s))
AtLeast(a, b)        == IF a < b THEN b ELSE a
Clamp(n, low, high)  == IF n < low THEN low ELSE IF n > high THEN high ELSE n
CeilLog2(n)          == CHOOSE k \in 0..n : 2 ^ k >= n /\ \A m \in 0..(k - 1) : 2 ^ m < n

(* Signed values of a given width. *)
Signed(n, width) == LET m == n % 2 ^ width
                    IN  IF m >= 2 ^ (width - 1) THEN m - 2 ^ width ELSE m
Indices(width)   == -(2 ^ (width - 1))..(2 ^ (width - 1) - 1)

(* RTLILBuilder: Shift and Shiftx, Neg, Not, Mux, Bmux, Demux. *)
ShiftBy(a, amount, fill, len) ==
  [i \in 1..len |-> IF i + amount \in 1..Len(a) THEN a[i + amount] ELSE fill]
Neg_SameWidth(n, width) == Signed(-n, width)
Neg(n, width)           == Signed(-n, width + 1)
Not(n, width)           == Signed(-n - 1, width)
Mux(a, b, s)            == IF s THEN b ELSE a
Bmux(a, len, sel)       == Extract(a, sel * len, len)
Demux(a, size, sel)     == Rep("0", sel * Len(a)) \o a \o Rep("0", (size - 1 - sel) * Len(a))

-----------------------------------------------------------------------------
(* The constructors.  Range is <<left, right>>; raw and base together are  *)
(* the zero-based index of the lowest item of the selection.               *)

LittleEndian(range) == range[1] >= range[2]
RangeWidth(range) ==
  IF LittleEndian(range) THEN range[1] - range[2] + 1 ELSE range[2] - range[1] + 1

Resolver(range, raw, width, base, stride, known) ==
  [range |-> range, raw |-> raw, width |-> width, base |-> base,
   stride |-> stride, known |-> known]

InterpretIndex_PlainEndian(range, index, width, stride, known, down, up) ==
  IF LittleEndian(range)
    THEN Resolver(range, index, width, -range[2] - down + 1, stride, known)
    ELSE Resolver(range, Not(index, width), width, range[2] - up + 1, stride, known)
InterpretIndex(range, index, width, stride, known, down, up) ==
  IF LittleEndian(range)
    THEN Resolver(range, index, width, -range[2] - down + 1, stride, known)
    ELSE Resolver(range, Not(index, width), width, range[2] - up + 2, stride, known)

ElementSelect(range, index, width, stride, known) ==
  InterpretIndex(range, index, width, stride, known, 1, 1)
IndexedUp(range, index, width, stride, known, n) ==
  InterpretIndex(range, index, width, stride, known, 1, n)
IndexedDown(range, index, width, stride, known, n) ==
  InterpretIndex(range, index, width, stride, known, n, 1)
Simple(range, right, stride) ==
  Resolver(range, 0, 1, IF LittleEndian(range) THEN right - range[2] ELSE range[2] - right,
           stride, TRUE)

-----------------------------------------------------------------------------
(* Known indices.                                                          *)

Offset(r) == (r.raw + r.base) * r.stride

(* extract, for variable bits and for signals: what is out of range is     *)
(* a dummy variable, or undefined.                                         *)
ExtractKnown_LowOnly(r, val, width, filler) ==
  LET from == Clamp(Offset(r), 0, Len(val))
      to   == Clamp(Offset(r) + width, 0, Len(val))
  IN  Rep(filler, Clamp(-Offset(r), 0, width)) \o Extract(val, from, to - from)
ExtractKnown(r, val, width, filler) ==
  LET from == Clamp(Offset(r), 0, Len(val))
      to   == Clamp(Offset(r) + width, 0, Len(val))
  IN  Rep(filler, Clamp(-Offset(r), 0, width))
        \o Extract(val, from, to - from)
        \o Rep(filler, Clamp(width - (Len(val) - Offset(r)), 0, width))

Embed(r, val, len, padding) ==
  LET from == Clamp(-Offset(r), 0, Len(val))
      to   == Clamp(-Offset(r) + len, 0, Len(val))
  IN  Rep(padding, Clamp(Offset(r), 0, len))
        \o Extract(val, from, to - from)
        \o Rep(padding, Clamp(len - Offset(r) - Len(val), 0, len))

-----------------------------------------------------------------------------
(* Selections of any number of items: shift each bit position of the items *)
(* by the index on its own.                                                *)

Lane(s, i, stride) == [k \in 1..((Len(s) - i + stride - 1) \div stride) |->
                         s[(k - 1) * stride + i + 1]]
Spread(lane(_), len, stride) ==
  [n \in 1..len |-> lane((n - 1) % stride)[(n - 1) \div stride + 1]]

Fill(undef) == IF undef THEN "x" ELSE "0"

ShiftUpBitwise(r, val, undef, len) ==
  LET val2    == Rep(Fill(undef), AtLeast(r.base, 0)) \o val
      shifted == ShiftBy(val2, Neg(r.raw, r.width), Fill(undef), len + AtLeast(-r.base, 0))
  IN  IF r.base < 0 THEN ExtractEnd(shifted, -r.base) ELSE shifted

ShiftUp(r, val, undef, len) ==
  LET lane(i) == ShiftUpBitwise(r, Lane(val, i, r.stride), undef,
                                (len - i + r.stride - 1) \div r.stride)
  IN  IF r.known THEN Embed(r, val, len, Fill(undef))
      ELSE Spread(lane, len, r.stride)

ShiftDownBitwise(r, val, len) ==
  LET val2    == Rep("x", AtLeast(-r.base, 0)) \o val
      shifted == ShiftBy(val2, r.raw, "x", len + AtLeast(r.base, 0))
  IN  IF r.base > 0 THEN ExtractEnd(shifted, r.base) ELSE shifted

ShiftDown(r, val, len) ==
  LET lane(i) == ShiftDownBitwise(r, Lane(val, i, r.stride),
                                  (len - i + r.stride - 1) \div r.stride)
  IN  IF r.known THEN ExtractKnown(r, val, len, "x")
      ELSE Spread(lane, len, r.stride)

-----------------------------------------------------------------------------
(* Selections of one item, by binary decoding of the index, separately for *)
(* the items at negative and at other values of raw.                       *)

Select(r, n) == r.raw % 2 ^ CeilLog2(n)
InNegative(r, n) == r.raw >= -(2 ^ CeilLog2(n)) /\ r.raw < 0
InPositive(r, n) == r.raw >= 0 /\ r.raw < 2 ^ CeilLog2(n)

RawDemux(r, val, from, to) ==
  LET zero     == Rep("0", r.stride)
      branch(n, valid) == Demux(Mux(zero, val, valid), 2 ^ CeilLog2(n), Select(r, n))
      negative == IF from < 0
                    THEN ExtractEnd(branch(-from, InNegative(r, -from)),
                                    (2 ^ CeilLog2(-from) + from) * r.stride)
                    ELSE <<>>
      positive == IF to > 0
                    THEN Extract(branch(to, InPositive(r, to)), 0, to * r.stride)
                    ELSE <<>>
  IN  negative \o positive

DemuxItem(r, val, len) ==
  Extract(RawDemux(r, val, -AtLeast(0, r.base), AtLeast(0, len \div r.stride - r.base)),
          AtLeast(0, (-r.base) * r.stride), len)

RawMux(r, val, from, to) ==
  LET undef    == Rep("x", r.stride)
      padding(n) == Rep("x", (2 ^ CeilLog2(n) - n) * r.stride)
      negative == IF from < 0
                    THEN Mux(undef,
                             Bmux(padding(-from) \o Extract(val, 0, (-from) * r.stride),
                                  r.stride, Select(r, -from)),
                             r.raw >= -(2 ^ CeilLog2(-from)))
                    ELSE undef
      positive == IF to > 0
                    THEN Mux(undef,
                             Bmux(ExtractEnd(val, (-from) * r.stride) \o padding(to),
                                  r.stride, Select(r, to)),
                             r.raw < 2 ^ CeilLog2(to))
                    ELSE undef
  IN  Mux(positive, negative, r.raw < 0)

MuxItem(r, val) ==
  RawMux(r, Rep("x", AtLeast(0, (-r.base) * r.stride)) \o val
              \o Rep("x", AtLeast(0, r.base * r.stride - Len(val))),
         -AtLeast(0, r.base), AtLeast(0, -r.base + Len(val) \div r.stride))
=============================================================================
