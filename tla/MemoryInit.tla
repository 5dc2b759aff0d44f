----------------------------- MODULE MemoryInit -----------------------------
(***************************************************************************)
(* RTLILBuilder::add_memory_init: initial data of an inferred memory is    *)
(* cut into up to three $meminit_v2 cells, at the word boundaries.  The    *)
(* data comes as a run of bits of the variable; words of an array that is  *)
(* declared in ascending order are stored the other way round.             *)
(***************************************************************************)
EXTENDS Integers, Sequences, SequencesExt

CONSTANT Width     (* bits of a word                                       *)

ASSUME WidthAssumption == Width \in Nat \ {0}

(* A memory is the declared range of the array, <<left, right>>.           *)
StartOffset(m) == IF m[1] < m[2] THEN m[1] ELSE m[2]
Size(m)        == IF m[1] < m[2] THEN m[2] - m[1] + 1 ELSE m[1] - m[2] + 1
Indices(m)     == StartOffset(m)..(StartOffset(m) + Size(m) - 1)
BigEndian(m)   == m[1] < m[2]

Times(x, n) == [i \in 1..n |-> x]
WordsOf(data) ==
  [k \in 1..(Len(data) \div Width) |-> SubSeq(data, (k - 1) * Width + 1, k * Width)]

(* A bit of data is a pair <<assignment, position>>.                       *)
Undef == <<0, 0>>

(* emit_meminit_cell.  The data is a sequence of bits, least significant   *)
(* first.                                                                  *)
Cell(m, word, data, mask) ==
  LET n == Len(data) \div Width
  IN  [addr  |-> StartOffset(m) + (IF BigEndian(m) THEN Size(m) - word - n ELSE word),
       words |-> IF BigEndian(m) THEN Reverse(WordsOf(data)) ELSE WordsOf(data),
       mask  |-> mask]

(* Part of a word, from bit `low' on.                                      *)
Partial(m, word, low, data) ==
  LET high == Width - low - Len(data)
  IN  Cell(m, word, Times(Undef, low) \o data \o Times(Undef, high),
           Times(FALSE, low) \o Times(TRUE, Len(data)) \o Times(FALSE, high))

AddMemoryInit(m, offset, data) ==
  LET low  == offset % Width
      room == Width - low
      head == IF low = 0 THEN 0 ELSE IF room < Len(data) THEN room ELSE Len(data)
      body == ((Len(data) - head) \div Width) * Width
      done == head + body
  IN  (IF head = 0 THEN <<>>
       ELSE <<Partial(m, offset \div Width, low, SubSeq(data, 1, head))>>)
      \o (IF body = 0 THEN <<>>
          ELSE <<Cell(m, (offset + head) \div Width, SubSeq(data, head + 1, done),
                      Times(TRUE, Width))>>)
      \o (IF done = Len(data) THEN <<>>
          ELSE <<Partial(m, offset \div Width, 0, SubSeq(data, done + 1, Len(data)))>>)

(* Bit j of the word at index i after the cells, of which later ones have  *)
(* the higher priority.                                                    *)
InitialBit(cells, i, j) ==
  LET sets == {k \in DOMAIN cells :
                 /\ i - cells[k].addr \in 0..(Len(cells[k].words) - 1)
                 /\ cells[k].mask[j + 1]}
      k    == CHOOSE k \in sets : \A l \in sets : l <= k
  IN  IF sets = {} THEN Undef ELSE cells[k].words[i - cells[k].addr + 1][j + 1]

(* Where bit j of element i is in the bits of the variable.                *)
Position(m, i, j) ==
  j + Width * (IF BigEndian(m) THEN StartOffset(m) + Size(m) - 1 - i ELSE i - StartOffset(m))
=============================================================================
