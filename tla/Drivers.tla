------------------------------ MODULE Drivers ------------------------------
(***************************************************************************)
(* Who drives the bits of a variable.  A module-level variable or net is   *)
(* declared, the members of the module then assign runs of its bits, and   *)
(* at the end what has no driver is tied to its initial value, registers   *)
(* get theirs as an attribute, and wired nets their gate.                  *)
(*                                                                         *)
(* A member is a record [form, first, last, part]: its kind, the run of    *)
(* bits it assigns, and for a combinational process the bits that it can   *)
(* leave unassigned, for a port the conversion on its way.                 *)
(***************************************************************************)
EXTENDS Readmem, TLC

CONSTANTS
  Ranges,      (* declared ranges of the arrays that become memories       *)
  NetRange,    (* that of other variables and of nets                      *)
  Files,       (* those that $readmem may be given                         *)
  MaxMembers   (* bound on the number of members                           *)

ASSUME DriversAssumption ==
  MaxMembers \in Nat /\ NetRange \in Int \X Int /\ Ranges \subseteq Int \X Int

VARIABLES
  kind,        (* "memory", "variable", "wired" for wand and wor nets;     *)
               (* "none" before the declaration                            *)
  range,
  members,
  net,         (* the tables of NetlistContext and the cells emitted       *)
  done         (* whether the body has been finalized                      *)

netvars == <<kind, range, members, net, done>>

LastBit(r) == Size(r) * Width - 1
Bits == 0..LastBit(range)
Member(form, first, last, part) == [form |-> form, first |-> first, last |-> last, part |-> part]
Run(m) == m.first..m.last
Value(n, b) == <<n, b>>

NoTables ==
  [driven |-> {}, registers |-> {}, initial |-> << >>, special |-> << >>,
   drivers |-> {}, attr |-> << >>, meminit |-> << >>, notInferred |-> {},
   readmem |-> {}]

Driver(b, by, n) == [bit |-> b, by |-> by, member |-> n]
DriveAll(t, bits, by, n) == [t EXCEPT !.drivers = @ \cup {Driver(b, by, n) : b \in bits}]

-----------------------------------------------------------------------------
(* The tables.                                                             *)

RegisterDriven(t, bits) == [t EXCEPT !.driven = @ \cup bits]
RegisterRegister(t, bits) == [RegisterDriven(t, bits) EXCEPT !.registers = @ \cup bits]

(* The drivers of a wired net are collected, those of others connected.    *)
AddContinuousDriver(t, bits, n) ==
  IF kind = "wired"
    THEN [t EXCEPT !.special =
            [b \in bits \cup DOMAIN @ |->
               IF b \notin bits THEN @[b] ELSE IF b \in DOMAIN @ THEN Append(@[b], n) ELSE <<n>>]]
    ELSE DriveAll(RegisterDriven(t, bits), bits, "net", n)

(* The output of a cell: directly on the wire if its type is the same.     *)
ConnectionLhs_Unregistered(t, bits, direct, n) ==
  IF direct /\ kind # "wired" THEN DriveAll(t, bits, "net", n)
  ELSE AddContinuousDriver(t, bits, n)
ConnectionLhs(t, bits, direct, n) ==
  IF direct /\ kind # "wired" THEN DriveAll(RegisterDriven(t, bits), bits, "net", n)
  ELSE AddContinuousDriver(t, bits, n)

(* handle_comb_like_process: a latch for each bit that can stay unassigned *)
(* but none in an always_comb.                                             *)
CombLike_Unlisted(t, form, bits, dangling, n) ==
  LET latched == IF form = "always_comb" THEN {} ELSE dangling
  IN  AddContinuousDriver(DriveAll(RegisterDriven(t, latched), latched, "latch", n),
                          bits \ latched, n)
CombLike(t, form, bits, dangling, n) ==
  LET latched == IF form = "always_comb" THEN {} ELSE dangling
      diag    == IF form = "always_latch" THEN bits \ latched ELSE {}
      cells   == DriveAll(RegisterRegister(t, latched), latched, "latch", n)
  IN  AddContinuousDriver([cells EXCEPT !.notInferred = @ \cup diag], bits \ latched, n)

Clocked(t, bits, n) == DriveAll(RegisterRegister(t, bits), bits, "ff", n)

(* update_variable_state in an initial process: data for the bits from     *)
(* `first' on.  Where a run starts below the variable, its offset wraps    *)
(* around and no bit of it is one of the variable.                         *)
AssignInitial(t, k, r, first, data) ==
  LET last  == IF first < 0 THEN -1 ELSE first + Len(data) - 1
      state == [b \in {i \in 0..LastBit(r) : first <= i /\ i <= last} |-> data[b - first + 1]]
  IN  [t EXCEPT !.initial = state @@ @,
                !.meminit = IF k = "memory" THEN @ \o AddMemoryInit(r, first, data) ELSE @]

SetInitial(t, k, r, first, last, n) ==
  AssignInitial(t, k, r, first, [i \in 1..(last - first + 1) |-> Value(n, first + i - 1)])

(* A run of words that handle_readmem flushes.                             *)
WordData(words, n) ==
  [i \in 1..(Len(words) * Width) |->
     Value(n, (words[(i - 1) \div Width + 1] * Width) + ((i - 1) % Width))]
Readmem(t, k, r, call, file, n) ==
  LET read == ReadFile(r, call, file)
      after == FoldLeft(LAMBDA u, run :
                 AssignInitial(u, k, r, run.base * Width, WordData(run.words, n)),
                 t, read.flushed)
  IN  [t EXCEPT !.initial = after.initial, !.meminit = after.meminit,
                !.readmem = IF read.diag = "none" THEN @ ELSE @ \cup {read.diag}]

-----------------------------------------------------------------------------
(* Elaboration of the module's body.                                       *)

Init ==
  /\ kind = "none" /\ range = NetRange /\ members = <<>> /\ net = NoTables /\ done = FALSE

(* The declaration; a two-state variable always has an initial value.      *)
Declare(k, r, initialized) ==
  /\ kind = "none"
  /\ k = "memory" \/ r = NetRange
  /\ k = "wired" => ~initialized
  /\ kind' = k /\ range' = r
  /\ members' = IF initialized THEN <<Member("declaration", 0, LastBit(r), {})>> ELSE <<>>
  /\ net' = IF initialized THEN SetInitial(net, k, r, 0, LastBit(r), 1) ELSE net
  /\ UNCHANGED done

InInitial == {"declaration", "initial", "readmem"}
Assigned == UNION {Run(members[k]) :
                   k \in {i \in DOMAIN members : members[i].form \notin InInitial}}

(* A call of $readmem counts as two members against the bound.             *)
Load == Len(members) + Cardinality({i \in DOMAIN members : members[i].form = "readmem"})

(* Elaborates a member; `t' are the tables after it.  Of the others than   *)
(* initial processes only one may assign a bit, unless the net is wired.   *)
Elaborate(m, t) ==
  /\ ~done /\ Load < MaxMembers
  /\ IF m.form = "readmem" THEN TRUE ELSE Run(m) \subseteq Bits /\ Run(m) # {}
  /\ IF kind = "wired" \/ m.form \in InInitial THEN TRUE ELSE Run(m) \cap Assigned = {}
  /\ members' = Append(members, m)
  /\ net' = t
  /\ UNCHANGED <<kind, range, done>>

Number == Len(members) + 1

InitialProcess(first, last) ==
  /\ kind \in {"memory", "variable"}
  /\ Elaborate(Member("initial", first, last, {}), SetInitial(net, kind, range, first, last, Number))

(* $readmem in an initial process.                                         *)
ReadMemory(call, file) ==
  /\ kind \in {"memory", "variable"}
  /\ Load + 2 <= MaxMembers
  /\ Elaborate([form |-> "readmem", call |-> call, file |-> file],
               Readmem(net, kind, range, call, file, Number))

Calls(r) ==
  LET low == StartOffset(r)  high == low + Size(r) - 1
  IN  {[start |-> low, finish |-> high, args |-> 2]}
      \cup {[start |-> s, finish |-> high, args |-> 3] : s \in low..(high + 1)}
      \cup {[start |-> s, finish |-> f, args |-> 4] : s, f \in low..high}

Assignment(first, last) ==
  /\ kind \in {"variable", "wired"}
  /\ Elaborate(Member("assign", first, last, {}),
               AddContinuousDriver(net, first..last, Number))

OutputPort(first, last, direct) ==
  /\ kind \in {"variable", "wired"}
  /\ Elaborate(Member("port", first, last, {}),
               ConnectionLhs(net, first..last, direct, Number))

CombProcess(form, first, last, dangling) ==
  /\ kind = "variable"
  /\ Elaborate(Member(form, first, last, dangling),
               CombLike(net, form, first..last, dangling, Number))

ClockedProcess(first, last) ==
  /\ kind = "variable"
  /\ Elaborate(Member("clocked", first, last, {}), Clocked(net, first..last, Number))

(* Undriven bits of a variable are tied to their initial values.           *)
InitialState(b) == IF b \in DOMAIN net.initial THEN net.initial[b] ELSE Undef
FinalizeInitialization(t) ==
  [DriveAll(t, Bits \ t.driven, "constant", 0) EXCEPT
     !.attr = [b \in t.registers |-> InitialState(b)]]

FinalizeSpecialNets(t) == DriveAll(t, Bits, "gate", 0)

Finalize ==
  /\ kind # "none" /\ ~done
  /\ done' = TRUE
  /\ net' = CASE kind = "memory"   -> net
              [] kind = "wired"    -> FinalizeSpecialNets(net)
              [] kind = "variable" -> FinalizeInitialization(net)
  /\ UNCHANGED <<kind, range, members>>

ElaborateNext ==
  \/ \E first, last \in Bits :
       \/ InitialProcess(first, last)
       \/ Assignment(first, last)
       \/ \E direct \in BOOLEAN : OutputPort(first, last, direct)
       \/ \E form \in {"always", "always_comb", "always_latch"} :
            \E dangling \in SUBSET (first..last) : CombProcess(form, first, last, dangling)
       \/ ClockedProcess(first, last)
  \/ /\ ~done /\ Load + 2 <= MaxMembers
     /\ \E call \in Calls(range), file \in Files : ReadMemory(call, file)
  \/ Finalize

-----------------------------------------------------------------------------
(* Properties.                                                             *)

Greatest(S) == {n \in S : \A k \in S : k <= n}
Assigning(b, forms) == {n \in DOMAIN members : members[n].form \in forms /\ b \in Run(members[n])}

(* The words a file has for the element of a bit.                          *)
Element(b) == CHOOSE i \in Indices(range) : b - Position(range, i, 0) \in 0..(Width - 1)
WordsFor(b, m) == PlacedAt(m.call, m.file, Element(b))
Reading(b) == {n \in DOMAIN members :
                 members[n].form = "readmem" /\ WordsFor(b, members[n]) # {}}

(* The initial value of a bit: that of the last initial process to assign  *)
(* it or to read it from a file, or of the declaration.                    *)
StartsWith(b) ==
  LET setting == Assigning(b, {"declaration", "initial"}) \cup Reading(b)
      n       == Max(setting)
      word(m) == m.file[Max(WordsFor(b, m))].arg
  IN  IF setting = {} THEN Undef
      ELSE IF members[n].form = "readmem"
        THEN Value(n, (word(members[n]) * Width) + (b % Width))
      ELSE Value(n, b)

(* Files that $readmem stores where they say: without an error, and none    *)
(* that goes on after the finish address in a way the reader misses.       *)
ReadmemHandled ==
  /\ net.readmem \subseteq {"ReadmemWordsRangeMismatch"}
  /\ \A n \in DOMAIN members :
       members[n].form = "readmem" => StopsAtFinish(members[n].call, members[n].file)

Logic == {"assign", "port", "always", "always_comb", "always_latch", "clocked"}

CellOf(n, b) ==
  CASE members[n].form = "clocked"                                            -> "ff"
    [] members[n].form \in {"always", "always_latch"} /\ b \in members[n].part -> "latch"
    [] OTHER                                                                  -> "net"

(* In the finished module, every bit of a variable has one driver: the      *)
(* member that assigns it, as a register where it has to hold its value,   *)
(* and a constant only if there is none.  A bit of a wired net is driven   *)
(* by its gate, which combines every member that assigns the bit; a memory *)
(* has no drivers.  An always_latch reports the bits that are no latches.  *)
(* The test "Check no overdriving" (tests/various/init.ys) is an instance. *)
DrivenOnce ==
  done =>
    /\ net.notInferred =
         {d.bit : d \in {c \in net.drivers : /\ c.by = "net"
                                            /\ members[c.member].form = "always_latch"}}
    /\ \A b \in Bits :
         LET assigning == Assigning(b, Logic)
             drivers   == {d \in net.drivers : d.bit = b}
         IN  CASE kind = "memory"   -> drivers = {}
               [] kind = "variable" ->
                    drivers = IF assigning = {} THEN {Driver(b, "constant", 0)}
                              ELSE {Driver(b, CellOf(n, b), n) : n \in assigning}
               [] kind = "wired"    ->
                    /\ drivers = {Driver(b, "gate", 0)}
                    /\ IF b \in DOMAIN net.special
                         THEN /\ ToSet(net.special[b]) = assigning
                              /\ Len(net.special[b]) = Cardinality(assigning)
                         ELSE assigning = {}

(* Every bit that holds a value, in a flip-flop, in a latch or because     *)
(* nothing drives it, starts with its initial value: the attribute gives   *)
(* it to exactly the registers, whatever else drives the variable.         *)
StartValues ==
  done /\ kind = "variable" /\ ReadmemHandled =>
    LET registers == {d.bit : d \in {c \in net.drivers : c.by \in {"ff", "latch"}}}
        constants == {d.bit : d \in {c \in net.drivers : c.by = "constant"}}
    IN  /\ DOMAIN net.attr = registers
        /\ \A b \in registers : net.attr[b] = StartsWith(b)
        /\ \A b \in constants : InitialState(b) = StartsWith(b)

(* Every bit of a memory has the value last assigned to it.                *)
InitialContents ==
  kind = "memory" =>
    \A i \in Indices(range) : \A j \in 0..(Width - 1) :
      InitialBit(net.meminit, i, j) = StartsWith(Position(range, i, j))

(* The same, unless a run of bits ends in part of a word that it does not  *)
(* start in, or a file goes on after the word of the finish address.       *)
LeavesTail(m) ==
  m.form # "readmem" /\ m.first \div Width < m.last \div Width /\ (m.last + 1) % Width # 0
InitialWords ==
  ReadmemHandled /\ (\A k \in DOMAIN members : ~LeavesTail(members[k])) => InitialContents
=============================================================================
