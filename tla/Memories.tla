------------------------------ MODULE Memories ------------------------------
(***************************************************************************)
(* Memory inference (InferredMemoryDetector), the ports inferred memories  *)
(* are accessed through, and the variables that arrays otherwise become.   *)
(*                                                                         *)
(* The design is built one use of an array at a time.  It has a process p  *)
(* on the clock, a process r on the clock with an asynchronous reset, and  *)
(* uses elsewhere.  A use is a record of                                   *)
(*   where   "p", "r" for the clocked parts; "branch" and "prologue" for   *)
(*           the reset branch of r and what precedes it; "comb",           *)
(*           "initial", "net" for a continuous assignment, "sva"           *)
(*   op      "write" for an assignment, "read", or "step" for ++ and --    *)
(*   sym     the array                                                     *)
(*   path    the selects on it, innermost first: "elem", "range",          *)
(*           "member", and "concat" for being part of a concatenation      *)
(*   nb      whether an assignment is nonblocking                          *)
(*   guard   the condition of the statement, a wire or "1"                 *)
(*   index   the element: a wire or "0"                                    *)
(***************************************************************************)
EXTENDS Drivers

CONSTANTS
  Arrays,      (* the candidates of the first pass                         *)
  Hinted,      (* those with a ram_style attribute or the like             *)
  Uses,        (* what may be done with them                               *)
  Traced,      (* the array whose elaboration is followed bit by bit       *)
  MaxUses      (* bound on the number of uses                              *)

ASSUME DesignAssumption ==
  /\ Hinted \subseteq Arrays /\ Traced \in Arrays /\ MaxUses \in Nat
  /\ \A u \in Uses :
       /\ u.where \in {"p", "r", "branch", "prologue", "comb", "initial", "net", "sva"}
       /\ u.op \in {"write", "read", "step"}
       /\ u.sym \in Arrays

VARIABLES
  design,      (* the uses, in program order within each process           *)
  candidates,  (* memory_candidates                                        *)
  reported     (* arrays of MemoryNotInferred diagnostics                  *)

usevars == <<design, candidates, reported>>
vars == <<usevars, netvars>>

(* A definition whose name continues another one's after an underscore is  *)
(* that definition with a plausible mistake; no specification uses it.     *)

-----------------------------------------------------------------------------
(* Detection.                                                              *)

Elementwise(path) == path # <<>> /\ path[1] = "elem"

(* Where nonblocking assignments may be memory writes.                     *)
WrAllowed_Sticky(where) == where \in {"p", "r", "comb"}
WrAllowed(where) == where \in {"p", "r"}

WritesPort_AnyAssignment(u) ==
  WrAllowed(u.where) /\ Elementwise(u.path) /\ "concat" \notin ToSet(u.path)
WritesPort(u) ==
  u.nb /\ WrAllowed(u.where) /\ Elementwise(u.path) /\ "concat" \notin ToSet(u.path)

(* Initial processes are not visited; ++ and -- are visited as reads.      *)
Disqualifies(u) ==
  /\ u.where # "initial"
  /\ \/ u.op = "write" /\ ~WritesPort(u)
     \/ u.op \in {"read", "step"} /\ ~Elementwise(u.path)

Disqualify_KeepsCandidate(d, u) ==
  [d EXCEPT !.reported = IF u.sym \in d.candidates \cap Hinted THEN Append(@, u.sym) ELSE @]
Disqualify(d, u) ==
  [candidates |-> d.candidates \ {u.sym},
   reported   |-> IF u.sym \in d.candidates \cap Hinted
                    THEN Append(d.reported, u.sym) ELSE d.reported]

-----------------------------------------------------------------------------
(* Elaboration.                                                            *)

(* What a use of an inferred memory is turned into: LValue::analyze and     *)
(* the write port it leads to, and the evaluation of an element select.    *)
WriteOutcome(u) ==
  CASE u.where = "initial" -> "meminit"
    [] Elementwise(u.path) /\ u.where \in {"p", "r"}         -> "memwr"
    [] Elementwise(u.path) /\ u.where \in {"comb", "branch"} -> "unclocked memwr"
    [] OTHER -> "error"

ReadOutcome(u) ==
  IF Elementwise(u.path) /\ u.where \notin {"initial", "sva"} THEN "memrd" ELSE "error"

Outcome(u) ==
  CASE u.op = "write" -> WriteOutcome(u)
    [] u.op = "read"  -> ReadOutcome(u)
    [] u.op = "step"  -> "error"

(* One write port for each assignment to an element, in program order and  *)
(* process after process, with priority over the ports of the same memory  *)
(* that precede it in the same process.                                    *)
IsPort(n) == /\ design[n].sym \in candidates
             /\ Outcome(design[n]) = "memwr"
PortStatements(sym) == {n \in DOMAIN design : IsPort(n) /\ design[n].sym = sym}

EmittedBefore(m, n) ==
  \/ design[m].where = design[n].where /\ m < n
  \/ design[m].where = "p" /\ design[n].where = "r"

(* num_wr_ports when the port is emitted.                                  *)
PortId(n) == Cardinality({m \in PortStatements(design[n].sym) : EmittedBefore(m, n)})

Preceding_Forgets(n) == {}
Preceding(n) ==
  {PortId(m) : m \in {k \in PortStatements(design[n].sym) :
                        design[k].where = design[n].where /\ k < n}}

Port(n) == [stmt |-> n, portid |-> PortId(n), priority |-> Preceding(n)]
Ports(sym) == {Port(n) : n \in PortStatements(sym)}

(* The statement's case_enable and the process's background_enable.        *)
Env == [{"c", "w", "v", "rst"} -> 0..1]
PortEnable(u, e) ==
  /\ u.guard = "1" \/ e[u.guard] = 1
  /\ u.where = "r" => e["rst"] = 0

Address(u, e) == IF u.index = "0" THEN 0 ELSE e[u.index]

(* Bits of the word: all, the one that the wire v selects, or a member.    *)
MaskBits(u, e) ==
  CASE Len(u.path) = 1        -> 0..1
    [] Last(u.path) = "elem"   -> {e["v"]}
    [] Last(u.path) = "member" -> {1}
    [] OTHER                   -> 0..1

(* The statements whose data may end up in a bit: of the enabled ports     *)
(* none that another one has priority over.                                *)
PortsStore(ports, i, j, e) ==
  LET on == {q \in ports : /\ PortEnable(design[q.stmt], e)
                           /\ Address(design[q.stmt], e) = i
                           /\ j \in MaskBits(design[q.stmt], e)}
  IN  {q.stmt : q \in {q \in on : \A o \in on : q.portid \notin o.priority}}

-----------------------------------------------------------------------------
(* The program.                                                            *)

(* The statements of a process that assign the bit, on a clock edge.       *)
Assigns(where, sym, i, j, e) ==
  {n \in DOMAIN design :
     LET u == design[n]
     IN  /\ u.sym = sym /\ u.where = where /\ u.op = "write"
         /\ u.guard = "1" \/ e[u.guard] = 1
         /\ where = "r" => e["rst"] = 0
         /\ Address(u, e) = i /\ j \in MaskBits(u, e)}

(* The last assignment of a process counts; processes come in any order.   *)
ProgramStores(sym, i, j, e) ==
  Greatest(Assigns("p", sym, i, j, e)) \cup Greatest(Assigns("r", sym, i, j, e))

-----------------------------------------------------------------------------

DesignInit ==
  /\ Init
  /\ design = <<>> /\ candidates = Arrays /\ reported = <<>>

(* The detector visits a use, before the body is elaborated.               *)
Visit(u) ==
  LET d == [candidates |-> candidates, reported |-> reported]
      after == IF Disqualifies(u) THEN Disqualify(d, u) ELSE d
  IN  /\ kind = "none" /\ Len(design) < MaxUses
      /\ design' = Append(design, u)
      /\ candidates' = after.candidates
      /\ reported' = after.reported
      /\ UNCHANGED netvars

(* The declaration of the array, or of a wired net.  The bound: what comes  *)
(* after it depends on the uses only through the kind.                     *)
Inferred == IF Traced \in candidates THEN "memory" ELSE "variable"
Begin(k, r, initialized) ==
  /\ IF k = "variable" THEN Len(design) <= 1 ELSE design = <<>>
  /\ k \in {Inferred, "wired"}
  /\ Declare(k, r, initialized)
  /\ UNCHANGED usevars

Next ==
  \/ \E u \in Uses : Visit(u)
  \/ \E k \in {"memory", "variable", "wired"}, r \in Ranges \cup {NetRange}, i \in BOOLEAN :
       Begin(k, r, i)
  \/ ElaborateNext /\ UNCHANGED usevars

Spec == DesignInit /\ [][Next]_vars

-----------------------------------------------------------------------------

(* Every hinted array that is given up is reported, once.                  *)
TypeOK ==
  /\ candidates \subseteq Arrays
  /\ ToSet(reported) = Hinted \ candidates
  /\ Len(reported) = Cardinality(ToSet(reported))

(* What the detector does not look at: the contents of initial processes   *)
(* and assertions, and that ++ and -- are assignments.  Each ends in an    *)
(* error if the array is inferred.                                         *)
Overlooked(u) ==
  \/ u.op = "step"
  \/ u.op = "read" /\ u.where \in {"initial", "sva"}

(* An array is kept as a memory only if every other use of it becomes a    *)
(* port with a clock, a read port or initial data.                         *)
InferenceSound ==
  \A n \in DOMAIN design :
    design[n].sym \in candidates /\ ~Overlooked(design[n]) =>
      Outcome(design[n]) \in {"memwr", "memrd", "meminit"}

(* On a clock edge, the write ports leave in every bit what the program    *)
(* does: the last assignment of a process that selects it, whatever the    *)
(* other conditions and indices, of either process if they race.           *)
PortsFollowProgram ==
  \A sym \in candidates :
    LET ports == Ports(sym)
    IN  \A e \in Env : \A i, j \in 0..1 :
          LET stored == PortsStore(ports, i, j, e)
              meant  == ProgramStores(sym, i, j, e)
          IN  stored \subseteq meant /\ (stored = {} => meant = {})

(* A clocked process that reads an element must see what it held before    *)
(* the clock edge, which is what a read port gives.                        *)
ReadsBefore ==
  \A n \in DOMAIN design :
    design[n].op = "read" /\ design[n].where \in {"p", "r"} /\ design[n].sym \in candidates =>
      \A e \in Env : \A j \in 0..1 :
        {k \in Assigns(design[n].where, design[n].sym, Address(design[n], e), j, e) :
           k < n /\ ~design[k].nb} = {}
=============================================================================
