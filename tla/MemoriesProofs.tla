--------------------------- MODULE MemoriesProofs ---------------------------
(***************************************************************************)
(* Proofs about the memory detector for every set of arrays and uses, and  *)
(* every length of the design: what is kept as a memory can be elaborated  *)
(* as one, and is read before it is written.                               *)
(***************************************************************************)
EXTENDS Memories, FiniteSetTheorems, TLAPS

(* Whatever is still a candidate has been used only as a memory may be.    *)
Qualified == \A n \in DOMAIN design : design[n].sym \in candidates => ~Disqualifies(design[n])

UsesInv ==
  /\ design \in Seq(Uses)
  /\ reported \in Seq(Arrays)
  /\ IsFiniteSet(ToSet(reported))
  /\ TypeOK
  /\ Qualified

(* What appending does to the elements of a sequence.                      *)
LEMMA AppendElements ==
  ASSUME NEW S, NEW s \in Seq(S), NEW x \in S
  PROVE  /\ Append(s, x) \in Seq(S) /\ Len(Append(s, x)) = Len(s) + 1
         /\ ToSet(Append(s, x)) = ToSet(s) \cup {x}
         /\ \A n \in DOMAIN Append(s, x) :
              Append(s, x)[n] = x \/ (n \in DOMAIN s /\ Append(s, x)[n] = s[n])
<1>1. /\ Len(s) \in Nat /\ DOMAIN s = 1..Len(s)
      /\ DOMAIN Append(s, x) = 1..(Len(s) + 1)
      /\ \A n \in 1..Len(s) : Append(s, x)[n] = s[n]
      /\ Append(s, x)[Len(s) + 1] = x
  OBVIOUS
<1>2. 1..(Len(s) + 1) = 1..Len(s) \cup {Len(s) + 1}
  BY <1>1
<1>3. ToSet(Append(s, x)) = ToSet(s) \cup {x}
  BY <1>1, <1>2 DEF ToSet
<1> QED
  BY <1>1, <1>2, <1>3

LEMMA UsesInitially == DesignInit => UsesInv
<1> SUFFICES ASSUME DesignInit PROVE UsesInv
  OBVIOUS
<1>1. design = <<>> /\ candidates = Arrays /\ reported = <<>>
  BY DEF DesignInit
<1>2. ToSet(reported) = {}
  BY <1>1 DEF ToSet
<1>3. Cardinality({}) = 0 /\ IsFiniteSet({})
  BY FS_EmptySet
<1>4. TypeOK
  BY <1>1, <1>2, <1>3, DesignAssumption DEF TypeOK
<1>5. design \in Seq(Uses) /\ reported \in Seq(Arrays)
  BY <1>1
<1>6. Qualified
  BY <1>1 DEF Qualified
<1>7. IsFiniteSet(ToSet(reported))
  BY <1>2, <1>3
<1> QED
  BY <1>4, <1>5, <1>6, <1>7 DEF UsesInv

(* The only step that the arrays' uses depend on.                          *)
LEMMA UsesVisited ==
  ASSUME UsesInv, NEW u \in Uses, Visit(u)
  PROVE  UsesInv'
<1>1. design' = Append(design, u) /\ design' \in Seq(Uses)
  BY AppendElements DEF UsesInv, Visit
<1>2. \A n \in DOMAIN design' : design'[n] = u \/ (n \in DOMAIN design /\ design'[n] = design[n])
  BY <1>1, AppendElements DEF UsesInv
<1>3. CASE ~Disqualifies(u)
  <2>1. candidates' = candidates /\ reported' = reported
    BY <1>3 DEF Visit
  <2>2. Qualified'
    BY <1>2, <1>3, <2>1 DEF UsesInv, Qualified, Disqualifies, WritesPort
  <2> QED
    BY <1>1, <2>1, <2>2 DEF UsesInv, TypeOK
<1>4. CASE Disqualifies(u)
  <2>1. /\ candidates' = candidates \ {u.sym}
        /\ reported' = IF u.sym \in candidates \cap Hinted THEN Append(reported, u.sym)
                                                          ELSE reported
    BY <1>4 DEF Visit, Disqualify
  <2>2. Qualified'
    BY <1>2, <2>1 DEF UsesInv, Qualified, Disqualifies, WritesPort
  <2>3. u.sym \in Arrays /\ Hinted \subseteq Arrays
    BY DesignAssumption
  <2>4. CASE u.sym \in candidates \cap Hinted
    <3>1. /\ reported' \in Seq(Arrays) /\ Len(reported') = Len(reported) + 1
          /\ ToSet(reported') = ToSet(reported) \cup {u.sym}
      BY <2>1, <2>3, <2>4, AppendElements DEF UsesInv
    <3>2. u.sym \notin ToSet(reported)
      BY <2>4 DEF UsesInv, TypeOK
    <3>3. /\ IsFiniteSet(ToSet(reported)')
          /\ Cardinality(ToSet(reported)') = Cardinality(ToSet(reported)) + 1
      BY <3>1, <3>2, FS_AddElement DEF UsesInv
    <3>4. TypeOK'
      BY <2>1, <2>3, <2>4, <3>1, <3>3 DEF UsesInv, TypeOK
    <3> QED
      BY <1>1, <2>2, <3>1, <3>3, <3>4 DEF UsesInv
  <2>5. CASE u.sym \notin candidates \cap Hinted
    <3>1. reported' = reported
      BY <2>1, <2>5
    <3>2. TypeOK'
      BY <2>1, <2>5, <3>1 DEF UsesInv, TypeOK
    <3> QED
      BY <1>1, <2>2, <3>1, <3>2 DEF UsesInv
  <2> QED
    BY <2>4, <2>5
<1> QED
  BY <1>3, <1>4

LEMMA UsesKept ==
  ASSUME UsesInv, UNCHANGED usevars
  PROVE  UsesInv'
BY DEF UsesInv, usevars, TypeOK, Qualified

LEMMA UsesInvariant == Spec => []UsesInv
<1>1. UsesInv /\ [Next]_vars => UsesInv'
  <2> SUFFICES ASSUME UsesInv, [Next]_vars PROVE UsesInv'
    OBVIOUS
  <2>1. CASE \E u \in Uses : Visit(u)
    BY <2>1, UsesVisited
  <2>2. CASE \E k \in {"memory", "variable", "wired"}, r \in Ranges \cup {NetRange}, i \in BOOLEAN :
               Begin(k, r, i)
    BY <2>2, UsesKept DEF Begin
  <2>3. CASE ElaborateNext /\ UNCHANGED usevars
    BY <2>3, UsesKept
  <2>4. CASE UNCHANGED vars
    BY <2>4, UsesKept DEF vars
  <2> QED
    BY <2>1, <2>2, <2>3, <2>4 DEF Next
<1> QED
  BY <1>1, UsesInitially, PTL DEF Spec

-----------------------------------------------------------------------------

(* Every hinted array that is given up is reported, once                   *)
(* (InferredMemoryDetector::disqualify).                                   *)
THEOREM TypeCorrect == Spec => []TypeOK
<1>1. UsesInv => TypeOK
  BY DEF UsesInv
<1> QED
  BY <1>1, UsesInvariant, PTL

(* What stays a memory is never used in a way that ends in an error, but   *)
(* for those that the detector does not look at.                           *)
THEOREM InferredAreElaborated == Spec => []InferenceSound
<1>1. UsesInv => InferenceSound
  <2> SUFFICES ASSUME UsesInv, NEW n \in DOMAIN design,
                      design[n].sym \in candidates, ~Overlooked(design[n])
               PROVE  Outcome(design[n]) \in {"memwr", "memrd", "meminit"}
    BY DEF InferenceSound
  <2> DEFINE u == design[n]
  <2>1. u \in Uses /\ ~Disqualifies(u)
    BY DEF UsesInv, Qualified
  <2>2. u.op \in {"write", "read"}
    BY <2>1, DesignAssumption DEF Overlooked
  <2>3. CASE u.op = "write"
    BY <2>1, <2>3 DEF Disqualifies, WritesPort, WrAllowed, Outcome, WriteOutcome
  <2>4. CASE u.op = "read"
    BY <2>1, <2>4 DEF Disqualifies, Overlooked, Outcome, ReadOutcome
  <2> QED
    BY <2>2, <2>3, <2>4
<1> QED
  BY <1>1, UsesInvariant, PTL

(* A clocked read of a memory comes before every assignment of its process *)
(* to it, as these are nonblocking; that is when a read port samples.      *)
THEOREM ReadsSampleBefore == Spec => []ReadsBefore
<1>1. UsesInv => ReadsBefore
  <2> SUFFICES ASSUME UsesInv,
                      NEW n \in DOMAIN design, design[n].where \in {"p", "r"},
                      design[n].sym \in candidates, NEW e \in Env, NEW j \in 0..1,
                      NEW k \in Assigns(design[n].where, design[n].sym,
                                        Address(design[n], e), j, e), ~design[k].nb
               PROVE  FALSE
    BY DEF ReadsBefore
  <2>1. /\ k \in DOMAIN design /\ design[k].sym \in candidates /\ design[k].op = "write"
        /\ design[k].where \in {"p", "r"}
    BY DEF Assigns
  <2>2. ~Disqualifies(design[k])
    BY <2>1 DEF UsesInv, Qualified
  <2> QED
    BY <2>1, <2>2 DEF Disqualifies, WritesPort
<1> QED
  BY <1>1, UsesInvariant, PTL

-----------------------------------------------------------------------------

(* A port is made for an assignment of a clocked process.                  *)
LEMMA PortsAreClocked ==
  ASSUME UsesInv, NEW sym, NEW n \in PortStatements(sym)
  PROVE  /\ n \in Nat /\ n \in 1..Len(design) /\ Len(design) \in Nat
         /\ design[n].sym = sym /\ design[n].op = "write"
         /\ design[n].where \in {"p", "r"}
<1>1. design \in Seq(Uses) /\ DOMAIN design = 1..Len(design) /\ Len(design) \in Nat
  BY DEF UsesInv
<1>2. n \in DOMAIN design /\ design[n].sym = sym /\ Outcome(design[n]) = "memwr"
  BY DEF PortStatements, IsPort
<1>3. design[n] \in Uses
  BY <1>1, <1>2
<1>4. design[n].op = "write"
  BY <1>2, <1>3, DesignAssumption DEF Outcome, ReadOutcome
<1>5. WriteOutcome(design[n]) = "memwr"
  BY <1>2, <1>4 DEF Outcome
<1>6. design[n].where \in {"p", "r"}
  BY <1>5 DEF WriteOutcome
<1> QED
  BY <1>1, <1>2, <1>4, <1>6

(* Ports are numbered in the order in which they are emitted.              *)
LEMMA PortIdsIncrease ==
  ASSUME UsesInv, NEW sym, NEW m \in PortStatements(sym), NEW n \in PortStatements(sym),
         EmittedBefore(m, n)
  PROVE  PortId(m) \in Nat /\ PortId(n) \in Nat /\ PortId(m) < PortId(n)
<1> DEFINE Earlier(k) == {l \in PortStatements(sym) : EmittedBefore(l, k)}
<1>1. \A k \in PortStatements(sym) :
         /\ k \in Nat /\ k \in 1..Len(design) /\ Len(design) \in Nat
         /\ design[k].where \in {"p", "r"} /\ design[k].sym = sym
  BY PortsAreClocked
<1>2. PortId(m) = Cardinality(Earlier(m)) /\ PortId(n) = Cardinality(Earlier(n))
  BY <1>1 DEF PortId
<1>3. IsFiniteSet(Earlier(n))
  <2>1. IsFiniteSet(1..Len(design))
    BY <1>1, FS_Interval
  <2>2. Earlier(n) \subseteq 1..Len(design)
    BY <1>1
  <2> QED
    BY <2>1, <2>2, FS_Subset
<1>4. Earlier(m) \subseteq Earlier(n) /\ m \in Earlier(n) /\ m \notin Earlier(m)
  BY <1>1 DEF EmittedBefore
<1> HIDE DEF Earlier
<1>5. Earlier(m) # Earlier(n)
  BY <1>4
<1>6. /\ Cardinality(Earlier(m)) <= Cardinality(Earlier(n))
      /\ Cardinality(Earlier(m)) # Cardinality(Earlier(n))
      /\ Cardinality(Earlier(m)) \in Nat /\ Cardinality(Earlier(n)) \in Nat
  BY <1>3, <1>4, <1>5, FS_Subset, FS_CardinalityType
<1> QED
  BY <1>2, <1>6

(* A port has priority over those, and only those, of its memory that its  *)
(* process has emitted before.                                             *)
LEMMA PriorityIsOrder ==
  ASSUME UsesInv, NEW sym, NEW m \in PortStatements(sym), NEW n \in PortStatements(sym)
  PROVE  PortId(m) \in Preceding(n) <=> design[m].where = design[n].where /\ m < n
<1>1. \A k \in PortStatements(sym) :
         k \in Nat /\ design[k].where \in {"p", "r"} /\ design[k].sym = sym
  BY PortsAreClocked
<1>2. \A k, l \in PortStatements(sym) : PortId(k) = PortId(l) => k = l
  <2> SUFFICES ASSUME NEW k \in PortStatements(sym), NEW l \in PortStatements(sym), k # l
               PROVE  PortId(k) # PortId(l)
    OBVIOUS
  <2>1. EmittedBefore(k, l) \/ EmittedBefore(l, k)
    BY <1>1 DEF EmittedBefore
  <2>2. EmittedBefore(k, l) => PortId(k) # PortId(l)
    BY PortIdsIncrease
  <2>3. EmittedBefore(l, k) => PortId(k) # PortId(l)
    BY PortIdsIncrease
  <2> QED
    BY <2>1, <2>2, <2>3
<1>3. Preceding(n) = {PortId(k) : k \in {l \in PortStatements(sym) :
                                          design[l].where = design[n].where /\ l < n}}
  BY <1>1 DEF Preceding
<1> QED
  BY <1>2, <1>3

(* The write ports of an inferred memory leave in it what the processes    *)
(* assign last, for every length of the design and every values of the     *)
(* wires.                                                                  *)
LEMMA StoresAgree ==
  ASSUME UsesInv, NEW sym \in candidates, NEW e \in Env, NEW i, NEW j
  PROVE  PortsStore(Ports(sym), i, j, e) = ProgramStores(sym, i, j, e)
<1> DEFINE Selects(n) == /\ PortEnable(design[n], e)
                         /\ Address(design[n], e) = i
                         /\ j \in MaskBits(design[n], e)
           on  == {n \in PortStatements(sym) : Selects(n)}
           Top == {n \in on : \A m \in on : design[n].where = design[m].where => ~(n < m)}
<1>1. \A n \in PortStatements(sym) :
         /\ n \in Nat /\ n \in DOMAIN design /\ design[n].sym = sym
         /\ design[n].op = "write" /\ design[n].where \in {"p", "r"}
  BY PortsAreClocked DEF PortStatements
<1>2. ASSUME NEW where \in {"p", "r"}
      PROVE  Assigns(where, sym, i, j, e) = {n \in on : design[n].where = where}
  <2>1. ASSUME NEW n \in DOMAIN design, design[n].sym = sym, design[n].where = where,
               design[n].op = "write"
        PROVE  n \in PortStatements(sym)
    <3>1. ~Disqualifies(design[n])
      BY <2>1 DEF UsesInv, Qualified
    <3>2. Elementwise(design[n].path)
      BY <2>1, <3>1 DEF Disqualifies, WritesPort
    <3>3. Outcome(design[n]) = "memwr"
      BY <2>1, <3>2 DEF Outcome, WriteOutcome
    <3> QED
      BY <2>1, <3>3 DEF PortStatements, IsPort
  <2>2. \A n \in DOMAIN design :
          design[n].where = where =>
            (Selects(n) <=> /\ design[n].guard = "1" \/ e[design[n].guard] = 1
                            /\ where = "r" => e["rst"] = 0
                            /\ Address(design[n], e) = i /\ j \in MaskBits(design[n], e))
    BY DEF PortEnable
  <2> HIDE DEF Selects
  <2> QED
    BY <1>1, <2>1, <2>2 DEF Assigns
<1>3. PortsStore(Ports(sym), i, j, e) = Top
  <2> DEFINE ports == {q \in Ports(sym) : Selects(q.stmt)}
  <2>1. PortsStore(Ports(sym), i, j, e)
          = {q.stmt : q \in {q \in ports : \A o \in ports : q.portid \notin o.priority}}
    BY DEF PortsStore
  <2>2. ports = {Port(n) : n \in on}
    BY DEF Ports, Port
  <2>3. \A n : Port(n).stmt = n /\ Port(n).portid = PortId(n) /\ Port(n).priority = Preceding(n)
    BY DEF Port
  <2>4. \A n, m \in on : PortId(n) \in Preceding(m) <=> design[n].where = design[m].where /\ n < m
    BY PriorityIsOrder
  <2> HIDE DEF on, ports
  <2>5. \A n \in on : (\A o \in ports : Port(n).portid \notin o.priority) <=> n \in Top
    BY <2>2, <2>3, <2>4
  <2> QED
    BY <2>1, <2>2, <2>3, <2>5
<1>4. ProgramStores(sym, i, j, e) = Top
  <2>1. \A n, m \in on : n \in Nat /\ m \in Nat /\ design[n].where \in {"p", "r"}
    BY <1>1
  <2>2. /\ Assigns("p", sym, i, j, e) = {n \in on : design[n].where = "p"}
        /\ Assigns("r", sym, i, j, e) = {n \in on : design[n].where = "r"}
    BY <1>2
  <2> HIDE DEF on
  <2>3. \A n \in on : n \in Top <=> \A m \in on : design[m].where = design[n].where => m <= n
    BY <2>1
  <2> QED
    BY <2>1, <2>2, <2>3 DEF ProgramStores, Greatest
<1> QED
  BY <1>3, <1>4

(* On a clock edge the ports of an inferred memory do what the program     *)
(* does, whatever the masks, addresses, conditions and resets: the         *)
(* priorities make the last assignment of each process win.                *)
THEOREM PortsAgreeWithProgram == Spec => []PortsFollowProgram
<1>1. UsesInv => PortsFollowProgram
  BY StoresAgree DEF PortsFollowProgram
<1> QED
  BY <1>1, UsesInvariant, PTL

-----------------------------------------------------------------------------
(* Drivers: the tables of the netlist account for every member.            *)

Fields == {"driven", "registers", "initial", "special", "drivers", "attr", "meminit",
           "notInferred", "readmem"}
IsTables(t) == DOMAIN t = Fields

MemberRecords ==
  [form : Logic \cup {"declaration", "initial"}, first : Int, last : Int, part : SUBSET Int]
    \cup [form : {"readmem"}, call : UNION {Calls(r) : r \in Int \X Int}, file : Files]

Made(b) == {Driver(b, CellOf(n, b), n) : n \in Assigning(b, Logic)}

MemoryTables == net.drivers = {} /\ net.notInferred = {}

VariableTables ==
  /\ net.driven = {b \in Bits : Assigning(b, Logic) # {}}
  /\ net.drivers = UNION {Made(b) : b \in Bits}
  /\ net.notInferred =
       {b \in Bits : \E n \in Assigning(b, Logic) :
                       CellOf(n, b) = "net" /\ members[n].form = "always_latch"}

WiredTables ==
  /\ net.drivers = {} /\ net.notInferred = {}
  /\ DOMAIN net.special = {b \in Bits : Assigning(b, Logic) # {}}
  /\ \A b \in DOMAIN net.special :
       /\ net.special[b] \in Seq(Nat)
       /\ ToSet(net.special[b]) = Assigning(b, Logic)
       /\ Len(net.special[b]) = Cardinality(Assigning(b, Logic))

TablesFollow ==
  /\ IsTables(net)
  /\ kind = "memory" => MemoryTables
  /\ kind = "variable" => VariableTables
  /\ kind = "wired" => WiredTables

DriversInv ==
  /\ kind \in {"none", "memory", "variable", "wired"}
  /\ range \in Int \X Int
  /\ members \in Seq(MemberRecords)
  /\ done \in BOOLEAN
  /\ kind = "none" => members = <<>> /\ net = NoTables /\ ~done
  /\ ~done => TablesFollow
  /\ DrivenOnce

(* The steps that make a driver, on the fields they change.                *)
LEMMA DriveAllFields ==
  ASSUME NEW t, IsTables(t), NEW bits, NEW by, NEW n
  PROVE  LET u == DriveAll(t, bits, by, n)
         IN  /\ IsTables(u)
             /\ u.drivers = t.drivers \cup {Driver(b, by, n) : b \in bits}
             /\ u.driven = t.driven /\ u.registers = t.registers
             /\ u.special = t.special /\ u.notInferred = t.notInferred
             /\ u.initial = t.initial /\ u.attr = t.attr
BY DEF DriveAll, IsTables, Fields

LEMMA RegisterFields ==
  ASSUME NEW t, IsTables(t), NEW bits
  PROVE  LET u == RegisterDriven(t, bits)
             v == RegisterRegister(t, bits)
         IN  /\ IsTables(u) /\ IsTables(v)
             /\ u.driven = t.driven \cup bits /\ v.driven = t.driven \cup bits
             /\ u.drivers = t.drivers /\ v.drivers = t.drivers
             /\ u.special = t.special /\ v.special = t.special
             /\ u.notInferred = t.notInferred /\ v.notInferred = t.notInferred
BY DEF RegisterDriven, RegisterRegister, IsTables, Fields

LEMMA ContinuousFields ==
  ASSUME NEW t, IsTables(t), NEW bits, NEW n, kind # "wired"
  PROVE  LET u == AddContinuousDriver(t, bits, n)
         IN  /\ IsTables(u)
             /\ u.driven = t.driven \cup bits
             /\ u.drivers = t.drivers \cup {Driver(b, "net", n) : b \in bits}
             /\ u.notInferred = t.notInferred
<1> DEFINE v == RegisterDriven(t, bits)
<1>1. /\ IsTables(v) /\ v.driven = t.driven \cup bits
      /\ v.drivers = t.drivers /\ v.notInferred = t.notInferred
  BY RegisterFields
<1> HIDE DEF v
<1>2. AddContinuousDriver(t, bits, n) = DriveAll(v, bits, "net", n)
  BY DEF AddContinuousDriver, v
<1> QED
  BY <1>1, <1>2, DriveAllFields

(* The output of a cell, onto the wire or through an assignment.           *)
LEMMA PortFields ==
  ASSUME NEW t, IsTables(t), NEW bits, NEW direct, NEW n, kind # "wired"
  PROVE  LET u == ConnectionLhs(t, bits, direct, n)
         IN  /\ IsTables(u)
             /\ u.driven = t.driven \cup bits
             /\ u.drivers = t.drivers \cup {Driver(b, "net", n) : b \in bits}
             /\ u.notInferred = t.notInferred
<1>1. CASE direct
  <2> DEFINE v == RegisterDriven(t, bits)
  <2>1. /\ IsTables(v) /\ v.driven = t.driven \cup bits
        /\ v.drivers = t.drivers /\ v.notInferred = t.notInferred
    BY RegisterFields
  <2> HIDE DEF v
  <2>2. ConnectionLhs(t, bits, direct, n) = DriveAll(v, bits, "net", n)
    BY <1>1 DEF ConnectionLhs, v
  <2> QED
    BY <2>1, <2>2, DriveAllFields
<1>2. CASE ~direct
  <2>1. ConnectionLhs(t, bits, direct, n) = AddContinuousDriver(t, bits, n)
    BY <1>2 DEF ConnectionLhs
  <2> QED
    BY <2>1, ContinuousFields
<1> QED
  BY <1>1, <1>2

(* A combinational process: latches where it can leave a bit unassigned.   *)
CombTables(u, t, form, bits, latched, n) ==
  /\ IsTables(u)
  /\ u.driven = t.driven \cup bits
  /\ u.drivers = t.drivers \cup {Driver(b, "latch", n) : b \in latched}
                           \cup {Driver(b, "net", n) : b \in bits \ latched}
  /\ u.notInferred = t.notInferred \cup
       (IF form = "always_latch" THEN bits \ latched ELSE {})

LEMMA CombFields ==
  ASSUME NEW t, IsTables(t), NEW form, NEW bits, NEW dangling, NEW n,
         dangling \subseteq bits, kind # "wired",
         NEW latched, latched = IF form = "always_comb" THEN {} ELSE dangling
  PROVE  CombTables(CombLike(t, form, bits, dangling, n), t, form, bits, latched, n)
<1> DEFINE diag == IF form = "always_latch" THEN bits \ latched ELSE {}
           r == RegisterRegister(t, latched)
           c == DriveAll(r, latched, "latch", n)
           d == [c EXCEPT !.notInferred = @ \cup diag]
<1>1. latched \subseteq bits
  OBVIOUS
<1> HIDE DEF diag
<1>2. /\ IsTables(r) /\ r.driven = t.driven \cup latched
      /\ r.drivers = t.drivers /\ r.notInferred = t.notInferred
  BY RegisterFields
<1> HIDE DEF r
<1>3. /\ IsTables(c) /\ c.driven = t.driven \cup latched
      /\ c.drivers = t.drivers \cup {Driver(b, "latch", n) : b \in latched}
      /\ c.notInferred = t.notInferred
  BY <1>2, DriveAllFields
<1> HIDE DEF c
<1>4. /\ IsTables(d) /\ d.driven = c.driven /\ d.drivers = c.drivers
      /\ d.notInferred = c.notInferred \cup diag
  BY <1>3 DEF IsTables, Fields
<1> HIDE DEF d
<1>5. CombLike(t, form, bits, dangling, n) = AddContinuousDriver(d, bits \ latched, n)
  BY DEF CombLike, diag, r, c, d
<1>6. (t.driven \cup latched) \cup (bits \ latched) = t.driven \cup bits
  BY <1>1
<1>7. LET u == AddContinuousDriver(d, bits \ latched, n)
      IN  /\ IsTables(u)
          /\ u.driven = d.driven \cup (bits \ latched)
          /\ u.drivers = d.drivers \cup {Driver(b, "net", n) : b \in bits \ latched}
          /\ u.notInferred = d.notInferred
  BY <1>4, ContinuousFields
<1> QED
  BY <1>3, <1>4, <1>5, <1>6, <1>7 DEF diag, CombTables

LEMMA ClockedFields ==
  ASSUME NEW t, IsTables(t), NEW bits, NEW n
  PROVE  LET u == Clocked(t, bits, n)
         IN  /\ IsTables(u)
             /\ u.driven = t.driven \cup bits
             /\ u.drivers = t.drivers \cup {Driver(b, "ff", n) : b \in bits}
             /\ u.notInferred = t.notInferred
<1> DEFINE v == RegisterRegister(t, bits)
<1>1. /\ IsTables(v) /\ v.driven = t.driven \cup bits
      /\ v.drivers = t.drivers /\ v.notInferred = t.notInferred
  BY RegisterFields
<1> HIDE DEF v
<1>2. Clocked(t, bits, n) = DriveAll(v, bits, "ff", n)
  BY DEF Clocked, v
<1> QED
  BY <1>1, <1>2, DriveAllFields

(* Initial processes drive nothing.                                        *)
DriversAlike(u, t) ==
  /\ IsTables(u) /\ u.driven = t.driven /\ u.drivers = t.drivers
  /\ u.special = t.special /\ u.notInferred = t.notInferred

LEMMA InitialFields ==
  ASSUME NEW t, IsTables(t), NEW k, NEW r
  PROVE  /\ \A first, data : DriversAlike(AssignInitial(t, k, r, first, data), t)
         /\ \A call, file, n : DriversAlike(Readmem(t, k, r, call, file, n), t)
<1>1. \A x, y, z :
        DriversAlike([t EXCEPT !.initial = x, !.meminit = y, !.readmem = z], t)
  BY DEF DriversAlike, IsTables, Fields
<1>2. \A x, y : DriversAlike([t EXCEPT !.initial = x, !.meminit = y], t)
  BY DEF DriversAlike, IsTables, Fields
<1>3. ASSUME NEW first, NEW data
      PROVE  DriversAlike(AssignInitial(t, k, r, first, data), t)
  BY <1>2, Zenon DEF AssignInitial
<1>4. ASSUME NEW call, NEW file, NEW n
      PROVE  DriversAlike(Readmem(t, k, r, call, file, n), t)
  BY <1>1, Zenon DEF Readmem
<1> QED
  BY <1>3, <1>4

(* What a further member adds to those that assign a bit.                  *)
LEMMA AssigningAfter ==
  ASSUME members \in Seq(MemberRecords), NEW m \in MemberRecords,
         members' = Append(members, m), NEW forms, NEW b
  PROVE  /\ members' \in Seq(MemberRecords)
         /\ Number \in Nat /\ Number \notin DOMAIN members /\ members'[Number] = m
         /\ Assigning(b, forms)' =
              Assigning(b, forms) \cup (IF m.form \in forms /\ b \in Run(m)
                                         THEN {Number} ELSE {})
         /\ \A n \in DOMAIN members : members'[n] = members[n]
<1>1. /\ Len(members) \in Nat /\ DOMAIN members = 1..Len(members)
      /\ DOMAIN members' = 1..(Len(members) + 1)
      /\ \A n \in 1..Len(members) : members'[n] = members[n]
      /\ members'[Len(members) + 1] = m
      /\ members' \in Seq(MemberRecords)
  OBVIOUS
<1>2. 1..(Len(members) + 1) = 1..Len(members) \cup {Len(members) + 1}
      /\ Number \in Nat /\ Number \notin 1..Len(members)
  BY <1>1 DEF Number
<1> DEFINE Has(x) == x.form \in forms /\ b \in Run(x)
<1>3. Assigning(b, forms) = {n \in DOMAIN members : Has(members[n])}
  BY DEF Assigning
<1>4. Assigning(b, forms)' = {n \in DOMAIN members' : Has(members'[n])}
  BY DEF Assigning, Run
<1> HIDE DEF Has
<1>5. Assigning(b, forms)' =
        Assigning(b, forms) \cup (IF Has(m) THEN {Number} ELSE {})
  BY <1>1, <1>2, <1>3, <1>4 DEF Number
<1>6. members'[Number] = m
  BY <1>1 DEF Number
<1> QED
  BY <1>1, <1>2, <1>5, <1>6 DEF Has

(* The members that assign a bit are finitely many.                        *)
LEMMA AssigningFinite ==
  ASSUME members \in Seq(MemberRecords), NEW b, NEW forms
  PROVE  IsFiniteSet(Assigning(b, forms)) /\ Assigning(b, forms) \subseteq DOMAIN members
<1>1. Len(members) \in Nat /\ DOMAIN members = 1..Len(members)
  OBVIOUS
<1>2. Assigning(b, forms) \subseteq 1..Len(members)
  BY <1>1 DEF Assigning
<1>3. IsFiniteSet(1..Len(members))
  BY <1>1, FS_Interval
<1>4. IsFiniteSet(Assigning(b, forms))
  BY <1>2, <1>3, FS_Subset
<1> QED
  BY <1>1, <1>2, <1>4

(* A further member of a variable, by what the tables have of it.          *)
CellFor(m, b) ==
  CASE m.form = "clocked"                                            -> "ff"
    [] m.form \in {"always", "always_latch"} /\ b \in m.part -> "latch"
    [] OTHER                                                         -> "net"

LEMMA VariableMember ==
  ASSUME DriversInv, ~done, kind = "variable", NEW m \in MemberRecords, m.form \in Logic,
         NEW t, Elaborate(m, t), IsTables(t),
         t.driven = net.driven \cup Run(m),
         t.drivers = net.drivers \cup {Driver(b, CellFor(m, b), Number) : b \in Run(m)},
         t.notInferred = net.notInferred \cup
           {b \in Run(m) : CellFor(m, b) = "net" /\ m.form = "always_latch"}
  PROVE  DriversInv'
<1>1. /\ members' = Append(members, m) /\ net' = t /\ done' = done /\ kind' = kind
      /\ range' = range /\ Run(m) \subseteq Bits
  <2>1. m.form # "readmem"
    BY DEF Logic
  <2> QED
    BY <2>1 DEF Elaborate
<1>2. members \in Seq(MemberRecords) /\ VariableTables
  BY DEF DriversInv, TablesFollow
<1> PICK k : k = Number
  OBVIOUS
<1>3. /\ members' \in Seq(MemberRecords) /\ k \notin DOMAIN members
      /\ members'[k] = m /\ \A n \in DOMAIN members : members'[n] = members[n]
      /\ \A b : Assigning(b, Logic)' =
                 Assigning(b, Logic) \cup (IF b \in Run(m) THEN {k} ELSE {})
  BY <1>1, <1>2, AssigningAfter
<1>4. \A b : Assigning(b, Logic) \subseteq DOMAIN members
  BY DEF Assigning
<1>5. /\ \A b : CellOf(k, b)' = CellFor(m, b)
      /\ \A b : \A n \in DOMAIN members : CellOf(n, b)' = CellOf(n, b)
  BY <1>3 DEF CellOf, CellFor
<1>6. Bits' = Bits
  BY <1>1 DEF Bits
<1>7. net'.driven = {b \in Bits : Assigning(b, Logic)' # {}}
  BY <1>1, <1>2, <1>3 DEF VariableTables
<1>8. net'.drivers = UNION {Made(b)' : b \in Bits}
  <2>1. \A b : Made(b)' = Made(b) \cup
                 (IF b \in Run(m) THEN {Driver(b, CellFor(m, b), k)} ELSE {})
    <3> SUFFICES ASSUME NEW b
                 PROVE  Made(b)' = Made(b) \cup
                          (IF b \in Run(m) THEN {Driver(b, CellFor(m, b), k)} ELSE {})
      OBVIOUS
    <3>1. Made(b)' = {Driver(b, CellOf(n, b)', n) : n \in Assigning(b, Logic)'}
      BY DEF Made, Driver
    <3>2. Made(b) = {Driver(b, CellOf(n, b)', n) : n \in Assigning(b, Logic)}
      BY <1>4, <1>5 DEF Made
    <3> QED
      BY <3>1, <3>2, <1>3, <1>5
  <2> QED
    BY <2>1, <1>1, <1>2 DEF VariableTables
<1>9. net'.notInferred =
        {b \in Bits : \E n \in Assigning(b, Logic)' :
                        CellOf(n, b)' = "net" /\ members'[n].form = "always_latch"}
  <2>1. \A b : (\E n \in Assigning(b, Logic)' :
                   CellOf(n, b)' = "net" /\ members'[n].form = "always_latch")
              <=> \/ \E n \in Assigning(b, Logic) :
                       CellOf(n, b) = "net" /\ members[n].form = "always_latch"
                  \/ b \in Run(m) /\ CellFor(m, b) = "net" /\ m.form = "always_latch"
    BY <1>3, <1>4, <1>5
  <2> QED
    BY <2>1, <1>1, <1>2 DEF VariableTables
<1>10. VariableTables'
  BY <1>6, <1>7, <1>8, <1>9 DEF VariableTables
<1>11. DriversInv'
  BY <1>1, <1>3, <1>10 DEF DriversInv, TablesFollow, DrivenOnce
<1> QED
  BY <1>11

(* One of a wired net: its drivers are collected in order.                 *)
LEMMA WiredMember ==
  ASSUME DriversInv, ~done, kind = "wired", NEW m \in MemberRecords, m.form \in Logic,
         Elaborate(m, AddContinuousDriver(net, Run(m), Number))
  PROVE  DriversInv'
<1>1. /\ members' = Append(members, m) /\ done' = done /\ kind' = kind
      /\ net' = AddContinuousDriver(net, Run(m), Number)
      /\ range' = range /\ Run(m) \subseteq Bits
  <2>1. m.form # "readmem"
    BY DEF Logic
  <2> QED
    BY <2>1 DEF Elaborate
<1>2. members \in Seq(MemberRecords) /\ WiredTables /\ IsTables(net)
  BY DEF DriversInv, TablesFollow
<1> PICK k : k = Number
  OBVIOUS
<1>3. /\ members' \in Seq(MemberRecords) /\ k \in Nat /\ k \notin DOMAIN members
      /\ \A b : Assigning(b, Logic)' =
                 Assigning(b, Logic) \cup (IF b \in Run(m) THEN {k} ELSE {})
  BY <1>1, <1>2, AssigningAfter
<1>4. \A b : Assigning(b, Logic) \subseteq DOMAIN members /\ IsFiniteSet(Assigning(b, Logic))
  BY <1>2, AssigningFinite
<1>5. Bits' = Bits
  BY <1>1 DEF Bits
<1> DEFINE old == net.special
<1>6. /\ IsTables(net') /\ net'.drivers = {} /\ net'.notInferred = {}
      /\ net'.special =
           [b \in Run(m) \cup DOMAIN old |->
              IF b \notin Run(m) THEN old[b]
              ELSE IF b \in DOMAIN old THEN Append(old[b], k) ELSE <<k>>]
  BY <1>1, <1>2 DEF AddContinuousDriver, IsTables, Fields, WiredTables
<1>7. /\ DOMAIN net'.special = Run(m) \cup DOMAIN old
      /\ \A b \in DOMAIN net'.special :
           net'.special[b] = IF b \notin Run(m) THEN old[b]
                             ELSE IF b \in DOMAIN old THEN Append(old[b], k) ELSE <<k>>
  BY <1>6
<1>8. DOMAIN net'.special = {b \in Bits : Assigning(b, Logic)' # {}}
  <2>1. DOMAIN old = {b \in Bits : Assigning(b, Logic) # {}}
    BY <1>2 DEF WiredTables
  <2> QED
    BY <2>1, <1>1, <1>3, <1>7
<1>9. ASSUME NEW b \in DOMAIN net'.special
      PROVE  /\ net'.special[b] \in Seq(Nat)
             /\ ToSet(net'.special[b]) = Assigning(b, Logic)'
             /\ Len(net'.special[b]) = Cardinality(Assigning(b, Logic)')
  <2>1. CASE b \notin Run(m)
    <3>1. /\ b \in DOMAIN old /\ net'.special[b] = old[b]
          /\ Assigning(b, Logic)' = Assigning(b, Logic)
      BY <2>1, <1>3, <1>7, <1>9
    <3> QED
      BY <3>1, <1>2 DEF WiredTables
  <2>2. CASE b \in Run(m) /\ b \in DOMAIN old
    <3> DEFINE s == old[b]
    <3>1. net'.special[b] = Append(s, k) /\ Assigning(b, Logic)' = Assigning(b, Logic) \cup {k}
      BY <2>2, <1>3, <1>7, <1>9
    <3>2. /\ s \in Seq(Nat) /\ ToSet(s) = Assigning(b, Logic)
          /\ Len(s) = Cardinality(Assigning(b, Logic))
      BY <2>2, <1>2 DEF WiredTables
    <3> HIDE DEF s
    <3>3. /\ Append(s, k) \in Seq(Nat) /\ Len(Append(s, k)) = Len(s) + 1
          /\ ToSet(Append(s, k)) = ToSet(s) \cup {k}
      BY ONLY <3>2, <1>3, AppendElements
    <3>4. Cardinality(Assigning(b, Logic) \cup {k}) = Cardinality(Assigning(b, Logic)) + 1
      BY <1>3, <1>4, FS_AddElement
    <3> QED
      BY <3>1, <3>2, <3>3, <3>4
  <2>3. CASE b \in Run(m) /\ b \notin DOMAIN old
    <3>1. net'.special[b] = <<k>> /\ Assigning(b, Logic)' = Assigning(b, Logic) \cup {k}
      BY <2>3, <1>3, <1>7, <1>9
    <3>2. Assigning(b, Logic) = {}
      BY <2>3, <1>1, <1>2 DEF WiredTables
    <3>3. <<k>> \in Seq(Nat) /\ Len(<<k>>) = 1 /\ ToSet(<<k>>) = {k}
      BY <1>3 DEF ToSet
    <3>4. Cardinality({k}) = 1
      BY FS_Singleton
    <3> QED
      BY <3>1, <3>2, <3>3, <3>4
  <2> QED
    BY <2>1, <2>2, <2>3
<1>10. WiredTables'
  BY <1>5, <1>6, <1>8, <1>9 DEF WiredTables
<1> QED
  BY <1>1, <1>3, <1>6, <1>10 DEF DriversInv, TablesFollow, DrivenOnce

(* An initial process, which drives nothing.                               *)
LEMMA OtherMember ==
  ASSUME DriversInv, ~done, kind \in {"memory", "variable"}, NEW m \in MemberRecords,
         m.form \notin Logic, NEW t, Elaborate(m, t), DriversAlike(t, net)
  PROVE  DriversInv'
<1>1. /\ members' = Append(members, m) /\ done' = done /\ kind' = kind
      /\ net' = t /\ range' = range
  BY DEF Elaborate
<1>2. members \in Seq(MemberRecords)
  BY DEF DriversInv
<1>3. /\ members' \in Seq(MemberRecords)
      /\ \A n \in DOMAIN members : members'[n] = members[n]
      /\ \A b : Assigning(b, Logic)' = Assigning(b, Logic)
  BY <1>1, <1>2, AssigningAfter
<1>4. \A b : Assigning(b, Logic) \subseteq DOMAIN members
  BY DEF Assigning
<1>5. \A b : \A n \in DOMAIN members : CellOf(n, b)' = CellOf(n, b)
  BY <1>3 DEF CellOf
<1>6. Bits' = Bits
  BY <1>1 DEF Bits
<1>7. ASSUME kind = "memory" PROVE MemoryTables'
  BY <1>1, <1>7 DEF DriversInv, TablesFollow, MemoryTables, DriversAlike
<1>8. ASSUME kind = "variable" PROVE VariableTables'
  <2>1. VariableTables
    BY <1>8 DEF DriversInv, TablesFollow
  <2>2. \A b : Made(b)' = Made(b)
    <3> SUFFICES ASSUME NEW b PROVE Made(b)' = Made(b)
      OBVIOUS
    <3>1. Made(b)' = {Driver(b, CellOf(n, b)', n) : n \in Assigning(b, Logic)'}
      BY DEF Made, Driver
    <3>2. Made(b) = {Driver(b, CellOf(n, b)', n) : n \in Assigning(b, Logic)}
      BY <1>4, <1>5 DEF Made
    <3> QED
      BY <3>1, <3>2, <1>3
  <2>3. \A b : (\E n \in Assigning(b, Logic)' :
                   CellOf(n, b)' = "net" /\ members'[n].form = "always_latch")
              <=> \E n \in Assigning(b, Logic) :
                    CellOf(n, b) = "net" /\ members[n].form = "always_latch"
    BY <1>3, <1>4, <1>5
  <2>4. /\ net'.driven = {b \in Bits : Assigning(b, Logic)' # {}}
        /\ net'.drivers = UNION {Made(b)' : b \in Bits}
    BY <2>1, <2>2, <1>1, <1>3 DEF VariableTables, DriversAlike
  <2>5. net'.notInferred =
          {b \in Bits : \E n \in Assigning(b, Logic)' :
                          CellOf(n, b)' = "net" /\ members'[n].form = "always_latch"}
    BY <2>1, <2>3, <1>1, <1>3 DEF VariableTables, DriversAlike
  <2> QED
    BY <2>4, <2>5, <1>6 DEF VariableTables
<1> QED
  BY <1>1, <1>3, <1>7, <1>8 DEF DriversInv, TablesFollow, DrivenOnce, DriversAlike

LEMMA BitsAreNumbers ==
  ASSUME range \in Int \X Int
  PROVE  LastBit(range) \in Int /\ Bits \subseteq Int
<1>1. Size(range) \in Int
  BY DEF Size
<1>2. LastBit(range) \in Int
  BY <1>1, WidthAssumption DEF LastBit
<1> QED
  BY <1>2 DEF Bits

(* The bits of a member are a run of those of the variable.                *)
LEMMA MemberIsRecord ==
  ASSUME DriversInv, NEW first \in Bits, NEW last \in Bits, NEW part,
         part \subseteq first..last, NEW form \in Logic \cup {"declaration", "initial"}
  PROVE  LET m == Member(form, first, last, part)
         IN  m \in MemberRecords /\ m.form = form /\ m.part = part /\ Run(m) = first..last
<1>1. first \in Int /\ last \in Int
  BY BitsAreNumbers DEF DriversInv
<1>2. part \subseteq Int
  BY <1>1
<1> QED
  BY <1>1, <1>2 DEF Member, MemberRecords, Run

(* The declaration leaves the tables empty but for initial values.         *)
LEMMA DeclareStarts ==
  ASSUME DriversInv, NEW k \in {"memory", "variable", "wired"},
         NEW r \in Ranges \cup {NetRange}, NEW initialized \in BOOLEAN,
         Declare(k, r, initialized)
  PROVE  DriversInv'
<1>1. /\ kind = "none" /\ kind' = k /\ range' = r /\ done' = done
      /\ members = <<>> /\ net = NoTables /\ ~done
      /\ k = "wired" => ~initialized
      /\ members' = IF initialized THEN <<Member("declaration", 0, LastBit(r), {})>> ELSE <<>>
      /\ net' = IF initialized THEN SetInitial(net, k, r, 0, LastBit(r), 1) ELSE net
  BY DEF Declare, DriversInv
<1>2. range' \in Int \X Int
  BY <1>1, DriversAssumption
<1>3. members' \in Seq(MemberRecords) /\ \A b : Assigning(b, Logic)' = {}
  <2>1. CASE ~initialized
    BY <1>1, <2>1 DEF Assigning
  <2>2. CASE initialized
    <3> DEFINE m == Member("declaration", 0, LastBit(r), {})
    <3>1. LastBit(r) \in Int
      <4>1. Size(r) \in Int
        BY <1>1, <1>2 DEF Size
      <4> QED
        BY <4>1, WidthAssumption DEF LastBit
    <3>2. m \in MemberRecords /\ m.form \notin Logic
      BY <3>1 DEF Member, MemberRecords, Logic
    <3> HIDE DEF m
    <3>3. members' = <<m>>
      BY <1>1, <2>2 DEF m
    <3> QED
      BY <3>2, <3>3 DEF Assigning
  <2> QED
    BY <2>1, <2>2
<1>4. /\ IsTables(net') /\ net'.driven = {} /\ net'.drivers = {} /\ net'.notInferred = {}
      /\ k = "wired" => net'.special = << >>
  <2>1. IsTables(NoTables) /\ NoTables.driven = {} /\ NoTables.drivers = {}
        /\ NoTables.notInferred = {} /\ NoTables.special = << >>
    BY DEF NoTables, IsTables, Fields
  <2>2. DriversAlike(SetInitial(NoTables, k, r, 0, LastBit(r), 1), NoTables)
    BY <2>1, InitialFields DEF SetInitial
  <2> QED
    BY <2>1, <2>2, <1>1 DEF DriversAlike
<1>5. MemoryTables'
  BY <1>4 DEF MemoryTables
<1>6. VariableTables'
  BY <1>3, <1>4 DEF VariableTables, Made
<1>7. k = "wired" => WiredTables'
  BY <1>3, <1>4 DEF WiredTables
<1> QED
  BY <1>1, <1>2, <1>3, <1>4, <1>5, <1>6, <1>7 DEF DriversInv, TablesFollow, DrivenOnce

(* What has no driver at the end is tied, and wired nets get their gate.   *)
LEMMA FinalizeCompletes ==
  ASSUME DriversInv, Finalize
  PROVE  DriversInv'
<1>1. /\ kind \in {"memory", "variable", "wired"} /\ ~done /\ done' = TRUE
      /\ kind' = kind /\ range' = range /\ members' = members
      /\ members \in Seq(MemberRecords) /\ TablesFollow
  BY DEF Finalize, DriversInv
<1>2. /\ Bits' = Bits /\ \A b : Assigning(b, Logic)' = Assigning(b, Logic)
      /\ \A b : \A n : CellOf(n, b)' = CellOf(n, b)
  BY <1>1 DEF Bits, Assigning, CellOf
<1> DEFINE Reported == {d.bit : d \in {c \in net'.drivers :
                          c.by = "net" /\ members[c.member].form = "always_latch"}}
           On(b) == {d \in net'.drivers : d.bit = b}
<1>3. \A b, by, n : Driver(b, by, n).bit = b /\ Driver(b, by, n).by = by
                   /\ Driver(b, by, n).member = n
  BY DEF Driver
<1>4. CASE kind = "memory"
  <2>1. net'.drivers = {} /\ net'.notInferred = {}
    BY <1>1, <1>4 DEF Finalize, TablesFollow, MemoryTables
  <2>2. DrivenOnce'
    BY <1>1, <1>4, <2>1 DEF DrivenOnce
  <2> QED
    BY <1>1, <2>2 DEF DriversInv
<1>5. CASE kind = "wired"
  <2>1. WiredTables /\ IsTables(net)
    BY <1>1, <1>5 DEF TablesFollow
  <2>2. net' = DriveAll(net, Bits, "gate", 0)
    BY <1>5 DEF Finalize, FinalizeSpecialNets
  <2>3. /\ net'.drivers = {Driver(b, "gate", 0) : b \in Bits}
        /\ net'.special = net.special /\ net'.notInferred = {}
    BY <2>1, <2>2, DriveAllFields DEF WiredTables
  <2>4. Reported = {}
    BY <2>3, <1>3
  <2>5. \A b \in Bits : On(b) = {Driver(b, "gate", 0)}
    BY <2>3, <1>3
  <2>6. \A b \in Bits :
          IF b \in DOMAIN net'.special
            THEN /\ ToSet(net'.special[b]) = Assigning(b, Logic)
                 /\ Len(net'.special[b]) = Cardinality(Assigning(b, Logic))
            ELSE Assigning(b, Logic) = {}
    BY <2>1, <2>3 DEF WiredTables
  <2>7. DrivenOnce'
    BY <1>1, <1>2, <1>5, <2>3, <2>4, <2>5, <2>6 DEF DrivenOnce
  <2> QED
    BY <1>1, <2>7 DEF DriversInv
<1>6. CASE kind = "variable"
  <2> DEFINE undriven == Bits \ net.driven
             tied == {Driver(b, "constant", 0) : b \in undriven}
  <2>1. VariableTables /\ IsTables(net)
    BY <1>1, <1>6 DEF TablesFollow
  <2>2. net'.drivers = net.drivers \cup tied /\ net'.notInferred = net.notInferred
    <3> DEFINE t == DriveAll(net, undriven, "constant", 0)
    <3>1. /\ t.drivers = net.drivers \cup tied /\ t.notInferred = net.notInferred
          /\ IsTables(t)
      BY <2>1, DriveAllFields
    <3>2. \E x : net' = [t EXCEPT !.attr = x]
      BY <1>6 DEF Finalize, FinalizeInitialization
    <3> HIDE DEF t
    <3> QED
      BY <3>1, <3>2 DEF IsTables, Fields
  <2>3. \A b \in Bits : b \in undriven <=> Assigning(b, Logic) = {}
    BY <2>1 DEF VariableTables
  <2>4. net.drivers = UNION {{Driver(b, CellOf(n, b), n) : n \in Assigning(b, Logic)} : b \in Bits}
    BY <2>1 DEF VariableTables, Made
  <2> HIDE DEF undriven
  <2>5. ASSUME NEW b \in Bits
        PROVE  On(b) = IF Assigning(b, Logic) = {} THEN {Driver(b, "constant", 0)}
                       ELSE {Driver(b, CellOf(n, b), n) : n \in Assigning(b, Logic)}
    <3>1. {d \in tied : d.bit = b} = IF b \in undriven THEN {Driver(b, "constant", 0)} ELSE {}
      BY <1>3
    <3>2. {d \in net.drivers : d.bit = b} = {Driver(b, CellOf(n, b), n) : n \in Assigning(b, Logic)}
      BY <2>4, <1>3
    <3> QED
      BY <3>1, <3>2, <2>2, <2>3
  <2>6. net'.notInferred = Reported
    <3>1. \A d \in tied : d.by # "net"
      BY <1>3
    <3>2. Reported = {d.bit : d \in {c \in net.drivers :
                        c.by = "net" /\ members[c.member].form = "always_latch"}}
      BY <2>2, <3>1
    <3>3. \A b : b \in Reported <=>
            b \in Bits /\ \E n \in Assigning(b, Logic) :
                             CellOf(n, b) = "net" /\ members[n].form = "always_latch"
      BY <3>2, <2>4, <1>3
    <3> QED
      BY <3>3, <2>1, <2>2 DEF VariableTables
  <2>7. DrivenOnce'
    BY <1>1, <1>2, <1>6, <2>5, <2>6 DEF DrivenOnce
  <2> QED
    BY <1>1, <2>7 DEF DriversInv
<1> QED
  BY <1>1, <1>4, <1>5, <1>6

(* Each kind of member leaves the tables that its driver calls for.        *)
LEMMA MembersFollow ==
  ASSUME DriversInv, NEW first \in Bits, NEW last \in Bits
  PROVE  /\ InitialProcess(first, last) => DriversInv'
         /\ Assignment(first, last) => DriversInv'
         /\ \A direct : OutputPort(first, last, direct) => DriversInv'
         /\ ClockedProcess(first, last) => DriversInv'
         /\ \A form \in {"always", "always_comb", "always_latch"} :
              \A dangling \in SUBSET (first..last) :
                CombProcess(form, first, last, dangling) => DriversInv'
<1>1. /\ ~done /\ kind \in {"memory", "variable"} => IsTables(net)
      /\ ~done /\ kind = "variable" => IsTables(net)
  BY DEF DriversInv, TablesFollow
<1>2. ASSUME InitialProcess(first, last) PROVE DriversInv'
  <2> DEFINE m == Member("initial", first, last, {})
             t == SetInitial(net, kind, range, first, last, Number)
  <2>1. m \in MemberRecords /\ m.form = "initial"
    BY MemberIsRecord
  <2>2. Elaborate(m, t) /\ ~done /\ kind \in {"memory", "variable"}
    BY <1>2 DEF InitialProcess, Elaborate
  <2>3. DriversAlike(t, net)
    BY <1>1, <2>2, InitialFields DEF SetInitial
  <2> HIDE DEF m, t
  <2> QED
    BY <2>1, <2>2, <2>3, OtherMember DEF Logic
<1>3. ASSUME NEW t, NEW form \in {"assign", "port"}, ~done, kind = "variable",
             Elaborate(Member(form, first, last, {}), t), IsTables(t),
             t.driven = net.driven \cup first..last,
             t.drivers = net.drivers \cup {Driver(b, "net", Number) : b \in first..last},
             t.notInferred = net.notInferred
      PROVE  DriversInv'
  <2> DEFINE m == Member(form, first, last, {})
  <2>1. m \in MemberRecords /\ m.form = form /\ Run(m) = first..last
    BY MemberIsRecord DEF Logic
  <2> HIDE DEF m
  <2>2. \A b : CellFor(m, b) = "net"
    BY <2>1 DEF CellFor
  <2> QED
    BY <1>3, <2>1, <2>2, VariableMember DEF m, Logic
<1>4. ASSUME NEW form \in {"assign", "port"}, ~done, kind = "wired",
             Elaborate(Member(form, first, last, {}),
                       AddContinuousDriver(net, first..last, Number))
      PROVE  DriversInv'
  <2> DEFINE m == Member(form, first, last, {})
  <2>1. m \in MemberRecords /\ m.form = form /\ Run(m) = first..last
    BY MemberIsRecord DEF Logic
  <2> HIDE DEF m
  <2> QED
    BY <1>4, <2>1, WiredMember DEF m, Logic
<1>5. ASSUME Assignment(first, last) PROVE DriversInv'
  <2> DEFINE t == AddContinuousDriver(net, first..last, Number)
  <2>1. ~done /\ kind \in {"variable", "wired"} /\ Elaborate(Member("assign", first, last, {}), t)
    BY <1>5 DEF Assignment, Elaborate
  <2>2. CASE kind = "wired"
    BY <2>1, <2>2, <1>4
  <2>3. CASE kind = "variable"
    BY <2>1, <2>3, <1>1, <1>3, ContinuousFields
  <2> QED
    BY <2>1, <2>2, <2>3
<1>6. ASSUME NEW direct, OutputPort(first, last, direct) PROVE DriversInv'
  <2> DEFINE t == ConnectionLhs(net, first..last, direct, Number)
  <2>1. ~done /\ kind \in {"variable", "wired"} /\ Elaborate(Member("port", first, last, {}), t)
    BY <1>6 DEF OutputPort, Elaborate
  <2>2. CASE kind = "wired"
    BY <2>1, <2>2, <1>4 DEF ConnectionLhs
  <2>3. CASE kind = "variable"
    <3> DEFINE bits == first..last
    <3>1. /\ IsTables(net) /\ kind # "wired" /\ t = ConnectionLhs(net, bits, direct, Number)
      BY <2>1, <2>3, <1>1
    <3> HIDE DEF bits, t
    <3>2. /\ IsTables(t) /\ t.driven = net.driven \cup bits
          /\ t.drivers = net.drivers \cup {Driver(b, "net", Number) : b \in bits}
          /\ t.notInferred = net.notInferred
      BY <3>1, PortFields
    <3> QED
      BY <3>2, <2>1, <2>3, <1>3 DEF bits
  <2> QED
    BY <2>1, <2>2, <2>3
<1>7. ASSUME ClockedProcess(first, last) PROVE DriversInv'
  <2> DEFINE m == Member("clocked", first, last, {})
             bits == first..last
             t == Clocked(net, bits, Number)
  <2>1. m \in MemberRecords /\ m.form = "clocked" /\ Run(m) = bits
    BY MemberIsRecord DEF Logic
  <2>2. Elaborate(m, t) /\ ~done /\ kind = "variable"
    BY <1>7 DEF ClockedProcess, Elaborate
  <2> HIDE DEF bits
  <2>3. /\ IsTables(t) /\ t.driven = net.driven \cup bits
        /\ t.drivers = net.drivers \cup {Driver(b, "ff", Number) : b \in bits}
        /\ t.notInferred = net.notInferred
    BY <2>2, <1>1, ClockedFields
  <2> HIDE DEF m, t
  <2>4. \A b : CellFor(m, b) = "ff"
    BY <2>1 DEF CellFor
  <2> QED
    BY <2>1, <2>2, <2>3, <2>4, VariableMember DEF Logic
<1>8. ASSUME NEW form \in {"always", "always_comb", "always_latch"},
             NEW dangling \in SUBSET (first..last), CombProcess(form, first, last, dangling)
      PROVE  DriversInv'
  <2> DEFINE m == Member(form, first, last, dangling)
             bits == first..last
             t == CombLike(net, form, bits, dangling, Number)
             latched == IF form = "always_comb" THEN {} ELSE dangling
  <2>1. m \in MemberRecords /\ m.form = form /\ Run(m) = bits /\ m.part = dangling
    BY MemberIsRecord DEF Logic
  <2>2. Elaborate(m, t) /\ ~done /\ kind = "variable"
    BY <1>8 DEF CombProcess, Elaborate
  <2>3. latched \subseteq bits /\ dangling \subseteq bits
    OBVIOUS
  <2>4. latched = IF form = "always_comb" THEN {} ELSE dangling
    OBVIOUS
  <2> HIDE DEF bits, latched
  <2>5. /\ IsTables(t) /\ t.driven = net.driven \cup bits
        /\ t.drivers = net.drivers \cup {Driver(b, "latch", Number) : b \in latched}
                                    \cup {Driver(b, "net", Number) : b \in bits \ latched}
        /\ t.notInferred = net.notInferred \cup
             (IF form = "always_latch" THEN bits \ latched ELSE {})
    <3>1. IsTables(net) /\ kind # "wired"
      BY <2>2, <1>1
    <3>2. CombTables(t, net, form, bits, latched, Number)
      BY <3>1, <2>3, <2>4, CombFields
    <3> QED
      BY <3>2 DEF CombTables
  <2> HIDE DEF m, t
  <2>6. \A b : CellFor(m, b) = IF b \in latched THEN "latch" ELSE "net"
    BY <2>1, <2>4 DEF CellFor
  <2>7. t.drivers = net.drivers \cup {Driver(b, CellFor(m, b), Number) : b \in Run(m)}
    BY <2>1, <2>5, <2>3, <2>6
  <2>8. t.notInferred = net.notInferred \cup
          {b \in Run(m) : CellFor(m, b) = "net" /\ m.form = "always_latch"}
    BY <2>1, <2>5, <2>3, <2>6
  <2> QED
    BY <2>1, <2>2, <2>5, <2>7, <2>8, VariableMember DEF Logic
<1> QED
  BY <1>2, <1>5, <1>6, <1>7, <1>8

LEMMA ReadMemoryFollows ==
  ASSUME DriversInv, NEW call \in Calls(range), NEW file \in Files, ReadMemory(call, file)
  PROVE  DriversInv'
<1> DEFINE m == [form |-> "readmem", call |-> call, file |-> file]
           t == Readmem(net, kind, range, call, file, Number)
<1>1. Elaborate(m, t) /\ ~done /\ kind \in {"memory", "variable"}
  BY DEF ReadMemory, Elaborate
<1>2. m \in MemberRecords /\ m.form = "readmem"
  BY DEF MemberRecords, DriversInv
<1>3. DriversAlike(t, net)
  <2>1. IsTables(net)
    BY <1>1 DEF DriversInv, TablesFollow
  <2> QED
    BY <2>1, InitialFields
<1> HIDE DEF m, t
<1>4. m.form \notin Logic
  BY <1>2 DEF Logic
<1> QED
  BY <1>1, <1>2, <1>3, <1>4, OtherMember

LEMMA DriversKept ==
  ASSUME DriversInv, UNCHANGED netvars
  PROVE  DriversInv'
<1>1. kind' = kind /\ range' = range /\ members' = members /\ net' = net /\ done' = done
  BY DEF netvars
<1>2. /\ \A b : Assigning(b, Logic)' = Assigning(b, Logic)
      /\ \A b : \A n : CellOf(n, b)' = CellOf(n, b)
      /\ Bits' = Bits
  BY <1>1 DEF Assigning, CellOf, Bits
<1>3. \A b : Made(b)' = Made(b)
  BY <1>1 DEF Made, Assigning, CellOf, Driver
<1>4. TablesFollow' = TablesFollow
  BY <1>1, <1>2, <1>3 DEF TablesFollow, MemoryTables, VariableTables, WiredTables
<1>5. DrivenOnce' = DrivenOnce
  BY <1>1 DEF DrivenOnce, Assigning, CellOf, Bits, Driver
<1> QED
  BY <1>1, <1>4, <1>5 DEF DriversInv

LEMMA ElaborateFollows ==
  ASSUME DriversInv, ElaborateNext
  PROVE  DriversInv'
<1>1. CASE \E first, last \in Bits : InitialProcess(first, last)
  BY <1>1, MembersFollow
<1>2. CASE \E first, last \in Bits : Assignment(first, last)
  BY <1>2, MembersFollow
<1>3. CASE \E first, last \in Bits : \E direct \in BOOLEAN : OutputPort(first, last, direct)
  BY <1>3, MembersFollow
<1>4. CASE \E first, last \in Bits : ClockedProcess(first, last)
  BY <1>4, MembersFollow
<1>5. CASE \E first, last \in Bits :
             \E form \in {"always", "always_comb", "always_latch"} :
               \E dangling \in SUBSET (first..last) : CombProcess(form, first, last, dangling)
  BY <1>5, MembersFollow
<1>6. CASE \E call \in Calls(range), file \in Files : ReadMemory(call, file)
  BY <1>6, ReadMemoryFollows
<1>7. CASE Finalize
  BY <1>7, FinalizeCompletes
<1> QED
  BY <1>1, <1>2, <1>3, <1>4, <1>5, <1>6, <1>7 DEF ElaborateNext

LEMMA DriversInvariant == Spec => []DriversInv
<1>1. DesignInit => DriversInv
  <2> SUFFICES ASSUME Init PROVE DriversInv
    BY DEF DesignInit
  <2>1. kind = "none" /\ members = <<>> /\ net = NoTables /\ ~done /\ range \in Int \X Int
    BY DriversAssumption DEF Init
  <2>2. IsTables(NoTables)
    BY DEF IsTables, Fields, NoTables
  <2>3. TablesFollow
    BY <2>1, <2>2 DEF TablesFollow
  <2>4. DrivenOnce
    BY <2>1 DEF DrivenOnce
  <2>5. members \in Seq(MemberRecords)
    BY <2>1
  <2>6. done \in BOOLEAN
    BY DEF Init
  <2> QED
    BY <2>1, <2>3, <2>4, <2>5, <2>6 DEF DriversInv
<1>2. DriversInv /\ [Next]_vars => DriversInv'
  <2> SUFFICES ASSUME DriversInv, [Next]_vars PROVE DriversInv'
    OBVIOUS
  <2>1. CASE \E u \in Uses : Visit(u)
    BY <2>1, DriversKept DEF Visit
  <2>2. CASE \E k \in {"memory", "variable", "wired"}, r \in Ranges \cup {NetRange}, i \in BOOLEAN :
               Begin(k, r, i)
    BY <2>2, DeclareStarts DEF Begin
  <2>3. CASE ElaborateNext
    BY <2>3, ElaborateFollows
  <2>4. CASE UNCHANGED vars
    BY <2>4, DriversKept DEF vars
  <2> QED
    BY <2>1, <2>2, <2>3, <2>4 DEF Next
<1> QED
  BY <1>1, <1>2, PTL DEF Spec

(* In the finished module every bit is driven as its members say, and by a *)
(* constant exactly where none does (NetlistContext, the process finishing *)
(* and finalize), however many members there are and in whatever order.    *)
THEOREM EveryBitDriven == Spec => []DrivenOnce
<1>1. DriversInv => DrivenOnce
  BY DEF DriversInv
<1> QED
  BY <1>1, DriversInvariant, PTL
=============================================================================
