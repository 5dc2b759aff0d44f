---------------------------- MODULE SeqSemantics ----------------------------
(***************************************************************************)
(* The reference a symbolically executed process is compared with: the     *)
(* sequential semantics of the statements, for every valuation of the      *)
(* wires at once.  Each valuation has its own store; `live' is the set of  *)
(* valuations that execute the next statement.  A construct remembers in   *)
(* its frame which valuations are waiting for it to end.                   *)
(*                                                                         *)
(* This module knows nothing of placeholders, case trees, escape flags or  *)
(* revert maps.                                                            *)
(***************************************************************************)
EXTENDS Naturals, Sequences

CONSTANTS
  NWires,    (* number of one-bit wires the process can read                *)
  Statics    (* the wires that are variables assigned by the process        *)

ASSUME SemAssumption == NWires \in Nat \ {0} /\ Statics \subseteq 0..(NWires - 1)

(* A valuation gives every wire a bit: it is the set of the wires that are 1. *)
Env == SUBSET (0..(NWires - 1))
WireOn == [w \in 0..(NWires - 1) |-> {e \in Env : w \in e}]

(* Variables: module-level ones, and the local of a call at some nesting level. *)
Static(s) == <<"Static", s>>
Local(d)  == <<"Local", d>>

StaticVars == {Static(w) : w \in Statics}

(* Expressions: a constant, a wire that is no variable, or a variable. *)
Const(b) == <<"const", b>>
Wire(w)  == <<"wire", w>>
Read(v)  == <<"read", v>>
Expressions(vars) ==
  {Const(b) : b \in BOOLEAN} \cup {Wire(w) : w \in 0..(NWires - 1)} \cup {Read(v) : v \in vars}

(* s.cur[v] : the valuations in which variable v currently holds 1;        *)
(* s.nba[v] : the pending nonblocking value, s.queued[v] where one exists; *)
(* s.written[v] : the valuations that have assigned v so far.              *)
Truth(s, x) ==
  CASE x[1] = "const" -> (IF x[2] THEN Env ELSE {})
    [] x[1] = "wire"  -> WireOn[x[2]]
    [] x[1] = "read"  -> s.cur[x[2]]

(* A process starts with the given values of the variables. *)
SemInit(start) ==
  LET nothing == [v \in StaticVars |-> {}]
  IN  [live |-> Env, frames |-> <<>>, cur |-> start,
       nba |-> nothing, queued |-> nothing, written |-> nothing]

(* The valuations in `who' take their bit from `new', the others keep it. *)
Blend(old, new, who) == (old \ who) \cup (new \cap who)

(* v = x or v <= x, masked by m as for a write to one element of a vector. *)
AssignVar(s, v, x, m, blocking) ==
  LET who  == s.live \cap Truth(s, m)
      done == IF v \in DOMAIN s.written THEN [s.written EXCEPT ![v] = @ \cup who]
                                        ELSE s.written
  IN  IF blocking
        THEN [s EXCEPT !.cur[v] = Blend(@, Truth(s, x), who), !.written = done]
        ELSE [s EXCEPT !.nba[v] = Blend(@, Truth(s, x), who),
                       !.queued[v] = @ \cup who, !.written = done]

(* What a variable ends up with when the process is done. *)
Final(s, v) ==
  IF v \in DOMAIN s.nba THEN Blend(s.cur[v], s.nba[v], s.queued[v]) ELSE s.cur[v]

-----------------------------------------------------------------------------

PushFrame(s, f) == [s EXCEPT !.frames = Append(@, f)]
TopFrame(s) == s.frames[Len(s.frames)]
PopFrame(s) == [s EXCEPT !.frames = SubSeq(@, 1, Len(@) - 1)]
SetTop(s, f) == [s EXCEPT !.frames[Len(s.frames)] = f]

(* if and case: `rest' has matched no item yet, `done' has finished one. *)
SelectBegin(s, x) ==
  [PushFrame(s, [kind |-> "select", sel |-> Truth(s, x), rest |-> s.live, done |-> {}])
     EXCEPT !.live = {}]
SelectItem(s, match) ==
  LET f == TopFrame(s)
  IN  [SetTop(s, [f EXCEPT !.rest = @ \ match, !.done = @ \cup s.live])
         EXCEPT !.live = match]
ItemMatch(s, x) == {e \in TopFrame(s).rest : e \in TopFrame(s).sel <=> e \in Truth(s, x)}
SelectEnd(s) ==
  [PopFrame(s) EXCEPT !.live = @ \cup TopFrame(s).rest \cup TopFrame(s).done]

(* Loops: `out' has left the loop, `skip' the rest of this iteration. *)
LoopBegin(s) == PushFrame(s, [kind |-> "loop", out |-> {}, skip |-> {}])
LoopTest(s, x) ==
  [SetTop(s, [TopFrame(s) EXCEPT !.out = @ \cup (s.live \ Truth(s, x))])
     EXCEPT !.live = @ \cap Truth(s, x)]
IterationEnd(s) ==
  [SetTop(s, [TopFrame(s) EXCEPT !.skip = {}]) EXCEPT !.live = @ \cup TopFrame(s).skip]
LoopEnd(s) == [PopFrame(s) EXCEPT !.live = @ \cup TopFrame(s).out]

(* Calls of a task or function with one argument local to the call. *)
CallBegin(s, v, x) ==
  [PushFrame(s, [kind |-> "call", back |-> {}])
     EXCEPT !.cur = [u \in DOMAIN s.cur \cup {v} |-> IF u = v THEN Truth(s, x) ELSE s.cur[u]]]
CallEnd(s) == [PopFrame(s) EXCEPT !.live = @ \cup TopFrame(s).back]

(* break, continue and return park the live valuations in the innermost    *)
(* frame of the right kind.                                                *)
Innermost(s, kind) ==
  CHOOSE i \in 1..Len(s.frames) :
    /\ s.frames[i].kind = kind
    /\ \A j \in (i + 1)..Len(s.frames) : s.frames[j].kind # kind

Escape(s, stmt) ==
  LET i == Innermost(s, IF stmt = "return" THEN "call" ELSE "loop")
  IN  CASE stmt = "break"    -> [s EXCEPT !.live = {}, !.frames[i].out  = @ \cup s.live]
        [] stmt = "continue" -> [s EXCEPT !.live = {}, !.frames[i].skip = @ \cup s.live]
        [] stmt = "return"   -> [s EXCEPT !.live = {}, !.frames[i].back = @ \cup s.live]
=============================================================================
