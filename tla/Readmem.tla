------------------------------ MODULE Readmem ------------------------------
(***************************************************************************)
(* handle_readmem (slang_frontend.cc): the words of a file are collected   *)
(* while a cursor runs from the start to the finish address, and flushed   *)
(* into the array in runs of consecutive elements.                         *)
(*                                                                         *)
(* A file is a sequence of tokens: words, each with a number that stands   *)
(* for its digits, addresses, and the ends of lines; comments are between  *)
(* tokens.  A call is a record [start, finish, args]; an address that is   *)
(* not given is the bound of the array.                                    *)
(***************************************************************************)
EXTENDS MemoryInit, FiniteSets

Word(n) == [token |-> "word", arg |-> n]
NewLine == [token |-> "newline", arg |-> 0]
At(a) == [token |-> "@", arg |-> a]

LittleEndian(m) == m[1] >= m[2]
Increment(call) == IF call.start < call.finish THEN 1 ELSE -1
Past(call, a, inc) == a = call.finish \/ inc * (a - call.finish) > 0
Between(call, a) == (a - call.start) * (a - call.finish) <= 0

(* The position among the elements, from the least significant, and the    *)
(* word numbers of a run that is flushed.                                  *)
Flushed_Forwards(m, first, words, inc) ==
  [base |-> IF LittleEndian(m) THEN first - m[2] ELSE m[2] - first, words |-> words]
Flushed(m, first, words, inc) ==
  LET reversed == (inc = -1) = LittleEndian(m)
      lowest   == IF reversed THEN first + (Len(words) - 1) * inc ELSE first
  IN  [base  |-> IF LittleEndian(m) THEN lowest - m[2] ELSE m[2] - lowest,
       words |-> IF reversed THEN Reverse(words) ELSE words]

(* The reader: its cursor, the address and the numbers of the words not    *)
(* yet flushed, those flushed, and whether the rest of the line is skipped.*)
Started(call) ==
  [cursor |-> call.start, first |-> call.start, data |-> <<>>, flushed |-> <<>>,
   count |-> 0, jumped |-> FALSE, skip |-> FALSE, diag |-> "none"]

Flush(m, call, r) ==
  IF r.data = <<>> THEN r
  ELSE [r EXCEPT !.flushed = Append(@, Flushed(m, r.first, r.data, Increment(call))),
                 !.data = <<>>]

Jump(m, call, r, a) ==
  IF ~Between(call, a) THEN [r EXCEPT !.diag = "ReadmemAddressOutsideOfRange"]
  ELSE IF a = r.cursor THEN [r EXCEPT !.jumped = TRUE]
  ELSE [Flush(m, call, r) EXCEPT !.cursor = a, !.first = a, !.jumped = TRUE]

(* A word is taken before the cursor is compared: at the finish address the *)
(* cursor stays and the rest of the line is skipped.                       *)
Take(call, r, n) ==
  LET taken == [r EXCEPT !.data = Append(@, n), !.count = @ + 1]
  IN  IF Past(call, r.cursor, Increment(call)) THEN [taken EXCEPT !.skip = TRUE]
      ELSE [taken EXCEPT !.cursor = @ + Increment(call)]

ReadToken(m, call, r, t) ==
  IF r.diag # "none" THEN r
  ELSE IF t.token = "newline" THEN [r EXCEPT !.skip = FALSE]
  ELSE IF r.skip THEN r
  ELSE IF t.token = "@" THEN Jump(m, call, r, t.arg)
  ELSE Take(call, r, t.arg)

Distance(call) == IF call.start < call.finish THEN call.finish - call.start
                                              ELSE call.start - call.finish

(* The whole call; an error returns before the last flush.                 *)
ReadFile(m, call, file) ==
  LET ended == FoldLeft(LAMBDA r, t : ReadToken(m, call, r, t), Started(call), file)
      read  == Flush(m, call, ended)
  IN  IF ~{call.start, call.finish} \subseteq Indices(m)
        THEN [Started(call) EXCEPT !.diag = "ReadmemAddressOutsideOfRange"]
      ELSE IF ended.diag # "none" THEN ended
      ELSE IF call.args = 4 /\ ~read.jumped /\ read.count # Distance(call) + 1
        THEN [read EXCEPT !.diag = "ReadmemWordsRangeMismatch"]
      ELSE read

-----------------------------------------------------------------------------
(* What the file says, for reference: a word goes to the address that      *)
(* follows from the last one given before it, if that is in the range.     *)
Words(file)  == {k \in DOMAIN file : file[k].token = "word"}
Jumps(file)  == {k \in DOMAIN file : file[k].token = "@"}

WordAddress(call, file, k) ==
  LET before == {i \in Jumps(file) : i < k}
      last   == CHOOSE i \in before : \A j \in before : j <= i
      since  == {i \in Words(file) : i < k /\ \A j \in before : j < i}
  IN  (IF before = {} THEN call.start ELSE file[last].arg) + Increment(call) * Cardinality(since)

PlacedAt(call, file, a) ==
  {k \in Words(file) : WordAddress(call, file, k) = a /\ Between(call, a)}

(* Nothing but excess words on its line follows the word of the finish     *)
(* address, or a later line gives an address other than that before the    *)
(* next word.                                                              *)
StopsAtFinish(call, file) ==
  \A k, j \in Words(file) :
    k < j /\ WordAddress(call, file, k) = call.finish =>
      LET ends == {i \in (k + 1)..(j - 1) : file[i].token = "newline"}
      IN  IF ends = {} THEN \A i \in Jumps(file) : ~(k < i /\ i < j)
          ELSE \E i \in Jumps(file) : /\ \E e \in ends : e < i
                                      /\ i < j /\ file[i].arg # call.finish
=============================================================================
