------------------------------ MODULE FlipFlops ------------------------------
(***************************************************************************)
(* handle_ff_process: the cells a clocked process is turned into, run side *)
(* by side with the process itself.  The process is executed on each of    *)
(* its events; the cells are a flip-flop, a flip-flop with an asynchronous *)
(* load or one with an enable per variable, doubled for a clock with both  *)
(* edges.  Every reachable state is a circuit and an input history.        *)
(***************************************************************************)
EXTENDS AsyncPattern

CONSTANTS
  Vars,       (* the registers                                             *)
  Wires,      (* clock, reset and data inputs                              *)
  Data,       (* the input that is assigned to registers                   *)
  Programs    (* the processes to elaborate                                *)

(* Assignments of a statement: "keep" for a register it does not assign,   *)
(* else a constant, the data input or the inverse of the register.         *)
Keep == [v \in Vars |-> "keep"]
Over(first, second) == [v \in Vars |-> IF second[v] = "keep" THEN first[v] ELSE second[v]]

Values == {"keep", "0", "1", "d", "flip"}
Bodies == [Vars -> Values]
Events == [edge : {"pos", "neg", "both", "level", "star", "delay"}, sig : Wires]
Branches ==
  [sig : Wires, ops : Seq({"not", "inv", "is0", "is1", "wide"}), body : Bodies]

(* Values to load are constants: a changing one is the limit declared at   *)
(* slang_frontend.cc 1785.                                                 *)
ConstantLoads(p) ==
  p.branches # <<>> /\ Len(Triggers(p)) > 1 =>
    \A v \in Vars : Over(p.prologue, p.branches[1].body)[v] \in {"keep", "0", "1"}

IsProgram(p) ==
  /\ p.always_ff \in BOOLEAN
  /\ p.events \in Seq(Events) /\ p.events # <<>>
  /\ p.prologue \in Bodies
  /\ p.branches \in Seq(Branches)
  /\ p.sync = None \/ p.sync \in Bodies

ASSUME ProgramAssumption ==
  /\ Data \in Wires
  /\ \A p \in Programs :
       /\ IsProgram(p) /\ ConstantLoads(p)
       /\ \A i \in DOMAIN p.branches : NoWideInversion(p.branches[i].ops)

VARIABLES
  prog,       (* the process                                               *)
  net,        (* what it is elaborated into                                *)
  wires,
  regs,       (* the registers of the program                              *)
  cells,      (* the flip-flops: one, or one for each clock edge           *)
  ran,        (* history: which effects the program performed last         *)
  fired       (* and which the netlist did                                 *)

vars == <<prog, net, wires, regs, cells, ran, fired>>

Value(x, w, q) ==
  CASE x = "0" -> FALSE [] x = "1" -> TRUE [] x = "d" -> w[Data]
    [] x = "flip" -> ~q [] x = "keep" -> q

(* The branch of an if-else chain that w selects. *)
Selected(branches, sync, w) ==
  LET on == {i \in DOMAIN branches : Holds(w[branches[i].sig], branches[i].ops)}
  IN  IF on # {} THEN branches[CHOOSE i \in on : \A j \in on : i <= j].body
      ELSE IF sync = None THEN Keep ELSE sync

-----------------------------------------------------------------------------
(* The netlist.                                                            *)

Assigns(body, v) == body[v] # "keep"
Loaded_BodyOnly(n, v) == Assigns(n.async[1].body, v)
(* The reset branch inherits the variable state of the prologue, so what   *)
(* only the prologue assigns has a load value too.                         *)
Loaded(n, v) == Assigns(prog.prologue, v) \/ Assigns(n.async[1].body, v)

Driven(n) ==
  {v \in Vars : \/ Assigns(prog.prologue, v)
                \/ \E i \in DOMAIN n.rest : Assigns(n.rest[i].body, v)
                \/ prog.sync # None /\ Assigns(prog.sync, v)}

CellKind(n, v) ==
  CASE n.async = <<>> /\ n.clock.edge # "both"                 -> "dff"
    [] n.async = <<>> /\ n.clock.edge = "both"                 -> "dual"
    [] n.async # <<>> /\ ~Loaded(n, v)                         -> "dffe"
    [] n.async # <<>> /\ Loaded(n, v) /\ n.clock.edge # "both" -> "aldff"
    [] n.async # <<>> /\ Loaded(n, v) /\ n.clock.edge = "both" -> "dual"

Errors(n) == n.errors \cup (IF n.kind = "ff" /\ Len(n.async) > 1 THEN {"AloadOne"} ELSE {})
Accepted  == Errors(net) = {} /\ net.kind = "ff"

Loading(w) == net.async # <<>> /\ (w[net.async[1].sig] <=> net.async[1].polarity)

D(v, w, q)  == Value(Over(prog.prologue, Selected(net.rest, prog.sync, w))[v], w, q)
AD(v, w, q) == Value(Over(prog.prologue, net.async[1].body)[v], w, q)

(* The output of the cells for v: dual-edge cells are selected by the      *)
(* level of the clock.                                                     *)
Q(v, c, w) == IF CellKind(net, v) = "dual" THEN c[v][w[net.clock.sig]] ELSE c[v][TRUE]

(* A flip-flop that captures on the clock edge to level p, after the wire  *)
(* x has changed to give w; q is what it holds, out its output before.     *)
Captures(w, x, p) == x = net.clock.sig /\ w[x] = p
Halved(v, w, x, p, q, out) ==
  CASE Loading(w) -> AD(v, w, out)
    [] ~Loading(w) /\ Captures(w, x, p) -> D(v, w, out)
    [] OTHER -> q
Enabled(v, w, x, p, q, out) ==
  IF Captures(w, x, p) /\ ~Loading(w) THEN D(v, w, out) ELSE q

Clocked(v, w, x) ==
  LET out     == Q(v, cells, wires)
      rising  == net.clock.edge = "pos"
      half(p) == Halved(v, w, x, p, cells[v][p], out)
  IN  CASE CellKind(net, v) = "dual" -> [p \in BOOLEAN |-> half(p)]
        [] CellKind(net, v) \in {"dff", "aldff"} ->
             [cells[v] EXCEPT ![TRUE] = Halved(v, w, x, rising, @, out)]
        [] CellKind(net, v) = "dffe" ->
             [cells[v] EXCEPT ![TRUE] = Enabled(v, w, x, rising, @, out)]

(* Effect cells are triggered by the edges of the process they belong to,  *)
(* and enabled while no asynchronous branch is, if in the clocked part.    *)
Edge(e, w, x) == e.sig = x /\ (e.edge = "both" \/ (w[x] <=> e.edge = "pos"))
ClockEdge(w, x) == net.clock.sig = x /\ (w[x] <=> net.clock.edge = "pos")

SyncEnable_Always(w) == TRUE
SyncEnable(w) == ~Loading(w)

PrologueFires(w, x) ==
  IF net.async = <<>> THEN ClockEdge(w, x)
  ELSE \/ ClockEdge(w, x)
       \/ x = net.async[1].sig /\ (w[x] <=> net.async[1].polarity)
SyncFires(w, x) == ClockEdge(w, x) /\ SyncEnable(w)

-----------------------------------------------------------------------------

Idle == [prologue |-> FALSE, sync |-> FALSE]

(* The reset is inactive to begin with.                                    *)
Init ==
  /\ prog \in Programs
  /\ net = Interpret(prog)
  /\ wires \in [Wires -> BOOLEAN]
  /\ Accepted => ~Loading(wires)
  /\ ~Accepted => wires = [x \in Wires |-> FALSE]
  /\ regs \in [Vars -> BOOLEAN]
  /\ cells = [v \in Vars |-> [p \in BOOLEAN |-> regs[v]]]
  /\ ran = Idle /\ fired = Idle

Toggle(x) ==
  LET w == [wires EXCEPT ![x] = ~@]
      executes == \E i \in DOMAIN prog.events : Edge(prog.events[i], w, x)
      inSync   == \A i \in DOMAIN net.async :
                    ~Holds(w[prog.branches[i].sig], prog.branches[i].ops)
      body     == Over(prog.prologue, Selected(prog.branches, prog.sync, w))
  IN  /\ Accepted
      /\ wires' = w
      /\ regs'  = IF executes THEN [v \in Vars |-> Value(body[v], w, regs[v])] ELSE regs
      /\ cells' = [v \in Vars |-> Clocked(v, w, x)]
      /\ ran'   = [prologue |-> executes, sync |-> executes /\ inSync]
      /\ fired' = [prologue |-> PrologueFires(w, x), sync |-> SyncFires(w, x)]
      /\ UNCHANGED <<prog, net>>

Next == \E x \in Wires : Toggle(x)
Spec == Init /\ [][Next]_vars

-----------------------------------------------------------------------------

(* A process is elaborated or reported; a clocked one keeps exactly one    *)
(* edge as its clock and every other one for a load.                       *)
TypeOK ==
  /\ net.kind = "nothing" => Errors(net) # {}
  /\ net.kind = "ff" => /\ Len(net.async) + 1 = Len(Triggers(prog))
                        /\ Len(net.rest) + Len(net.async) = Len(prog.branches)
  /\ regs \in [Vars -> BOOLEAN] /\ cells \in [Vars -> [BOOLEAN -> BOOLEAN]]

(* A dual-edge clock cannot be kept by a flip-flop with an enable.         *)
LosesEdge(v) == net.clock.edge = "both" /\ CellKind(net, v) = "dffe"

(* The output of the cells is the value of the register in the process     *)
(* after every event: for resets of either polarity, events of either      *)
(* kind in any order, and registers without a load value.                  *)
FollowsProgram ==
  Accepted => \A v \in Driven(net) : ~LosesEdge(v) => Q(v, cells, wires) = regs[v]

(* Side effects of the prologue fire on all events of the process, those   *)
(* of the clocked part on the clock while no reset is active.              *)
EffectsExact == Accepted /\ net.clock.edge # "both" => fired = ran

(* A reset written as the language has it is recognised, however its       *)
(* condition is spelled and whichever edge comes first.                    *)
WellFormed(p) ==
  /\ Len(p.events) = 2 /\ p.events[1].sig # p.events[2].sig
  /\ Len(p.branches) > 0 /\ p.sync # None
  /\ Legible(p.branches[1].ops)
  /\ \E i \in 1..2 :
       /\ p.events[i].sig = p.branches[1].sig
       /\ p.events[3 - i].edge \in {"pos", "neg"}
       /\ \/ p.events[i].edge = "pos" /\ Holds(TRUE, p.branches[1].ops)
          \/ p.events[i].edge = "neg" /\ Holds(FALSE, p.branches[1].ops)
RecognisesReset == WellFormed(prog) => Accepted
=============================================================================
