----------------------------- MODULE Hierarchy -----------------------------
(***************************************************************************)
(* Elaboration of the instance tree into netlists (PopulateNetlist and     *)
(* HierarchyQueue, slang_frontend.cc).                                     *)
(*                                                                         *)
(* Every instance of the design is black boxed, dissolved into the netlist *)
(* of the module around it, or kept as a module of its own.  A kept module *)
(* joins a worklist that grows while it is drained.  Three walks must      *)
(* agree on where a symbol lives: add_internal_wires walks down from a     *)
(* realm (the body a netlist is made of), the visitor walks down handling  *)
(* statements, and find_symbol_realm walks up from a symbol.  A lookup of  *)
(* a wire that was never added ends the program (wire_missing).            *)
(*                                                                         *)
(* A design is a tree of instances numbered in the order of declaration,   *)
(* the instances inside one following it; body i is the body of instance   *)
(* i, 0 the root.  Each body holds one static variable and, if it is an    *)
(* interface, one modport with a port onto that variable.                  *)
(***************************************************************************)
EXTENDS Naturals, Sequences, FiniteSets

VARIABLES
    design,     \* the instance tree, see IsDesign
    options,    \* the options of the read: a set of command line flags
    stage,      \* "idle", "tops", "drain", "walk", "drained" or "aborted"
    tops,       \* top instances not yet queued
    queue,      \* HierarchyQueue::queue: realms in the order of their discovery
    at,         \* index into queue of the netlist being populated
    agenda,     \* instances the visitor of that netlist has yet to handle
    wires,      \* wire_cache of each netlist: the symbols that have a wire
    remap,      \* scopes_remap of each netlist: interfaces whose modport it has
    disabled,   \* netlists whose elaboration is switched off
    cells,      \* cells of all netlists: in realm, of instance, naming module
    diags,      \* diagnostics of the netlist being populated
    issued,     \* diagnostics handed to the diagnostic engine in this read
    visited     \* bodies handled, each with the realm that handled it

hierVars == <<design, options, stage, tops, queue, at, agenda, wires, remap,
              disabled, cells, diags, issued, visited>>

Kinds == {"module", "interface", "program"}
Links == {"none", "modport", "plain"}   \* how an interface port is connected
Root == 0

Insts == DOMAIN design.parent
Netlists == {queue[k] : k \in DOMAIN queue}
Realm == queue[at]

Least(S) == CHOOSE i \in S : \A j \in S : i <= j

(***************************************************************************)
(* What happens to an instance                                             *)
(***************************************************************************)
Mode == IF "--keep-hierarchy" \in options THEN "ALL"
        ELSE IF "--best-effort-hierarchy" \in options THEN "BEST_EFFORT"
        ELSE "NONE"

IsBlackbox(i) == design.kind[i] = "module" /\ design.black[i]

ShouldDissolve(i) ==
    /\ ~IsBlackbox(i)
    /\ \/ design.kind[i] = "interface"
       \/ /\ ~(design.kind[i] = "module" /\ design.inout[i])
          /\ \/ Mode = "NONE"
             \/ /\ Mode = "BEST_EFFORT"
                /\ design.link[i] = "plain" \/ design.kind[i] # "module"

\* get_instance_body: the body slang shares between equal instances, i's own
\* unless instance caching has been enabled
InstanceBody(i) == design.canonical[i]

Inside(i) == {c \in Insts : design.parent[c] = i}

\* the bodies a visitor reaches from body i that enters dissolved instances
Reached ==
    LET down[i \in Insts] ==
            {i} \cup UNION {down[c] : c \in {d \in Inside(i) : ShouldDissolve(d)}}
    IN  down

SymbolRealm_TestsOuter ==
    LET up[i \in Insts] ==
            IF design.parent[i] = Root \/ ~ShouldDissolve(design.parent[i]) THEN i
            ELSE up[design.parent[i]]
    IN  up

\* find_symbol_realm, for a symbol of body i
SymbolRealm ==
    LET up[i \in Insts] ==
            IF design.parent[i] = Root \/ ~ShouldDissolve(i) THEN i
            ELSE up[design.parent[i]]
    IN  up

(***************************************************************************)
(* References                                                              *)
(***************************************************************************)
Var(i) == <<"variable", i>>
Modport(i) == <<"modport", i>>

\* what the statements of body b name hierarchically or through its port
Names(b) ==
    {Var(t) : t \in design.refs[b]} \cup
    (IF design.link[b] = "modport" THEN {Modport(design.bus[b])}
     ELSE IF design.link[b] = "plain" THEN {Var(design.bus[b])} ELSE {})

Remapped(x, r) == x[1] = "modport" /\ x[2] \in remap[r]
CheckHierRef(x, r) == SymbolRealm[x[2]] = r
Allowed(x, r) == Remapped(x, r) \/ CheckHierRef(x, r)

\* a modport of this netlist is a symbol of its own, any other is looked through
Resolved(x, r) == IF Remapped(x, r) THEN x ELSE Var(x[2])

LookedUp(b, r) ==
    {Resolved(x, r) : x \in {y \in Names(b) : Allowed(y, r)}} \cup {Var(b)}

\* find_common_ancestor: the realms from the top down to r
PathTo ==
    LET path[r \in Insts] ==
            IF design.parent[r] = Root THEN <<r>>
            ELSE Append(path[SymbolRealm[design.parent[r]]], r)
    IN  path

CommonLength(s, r) ==
    LET agree == {k \in 0 .. Len(PathTo[s]) :
                    /\ k <= Len(PathTo[r])
                    /\ \A j \in 1 .. k : PathTo[s][j] = PathTo[r][j]}
    IN  CHOOSE k \in agree : \A j \in agree : j <= k

\* find_common_ancestor asserts that two realms share their top
NoCommonAncestor(b, r) ==
    \E x \in Names(b) : ~Allowed(x, r) /\ CommonLength(SymbolRealm[x[2]], r) = 0

Blamed_AlwaysSymbol(x, r) == SymbolRealm[x[2]]

Blamed(x, r) ==
    LET s == SymbolRealm[x[2]] IN
    IF s # PathTo[s][CommonLength(s, r)] THEN s ELSE r

Crossing(b, r) ==
    {[kind |-> "ReferenceAcrossKeptHierBoundary", from |-> b, to |-> x,
      blamed |-> Blamed(x, r)] : x \in {y \in Names(b) : ~Allowed(y, r)}}

Other(kind, i) == [kind |-> kind, from |-> i, to |-> Var(i), blamed |-> i]

(***************************************************************************)
(* The worklist                                                            *)
(***************************************************************************)
HierStart ==
    /\ stage = "idle"
    /\ tops = {} /\ queue = <<>> /\ at = 1 /\ agenda = {}
    /\ wires = <<>> /\ remap = <<>>
    /\ disabled = {} /\ cells = {} /\ diags = {} /\ issued = {} /\ visited = {}

\* SlangFrontend::execute, once the AST is compiled without an error
Begin ==
    /\ stage' = "tops"
    /\ tops' = Inside(Root)
    /\ queue' = <<>> /\ at' = 1 /\ agenda' = {}
    /\ wires' = [i \in Insts |-> {}]
    /\ remap' = [i \in Insts |-> {}]
    /\ disabled' = {} /\ cells' = {} /\ diags' = {} /\ issued' = {} /\ visited' = {}

GetOrEmplace_Always(b) == queue' = Append(queue, b)

\* HierarchyQueue::get_or_emplace
GetOrEmplace(b) ==
    queue' = IF b \in Netlists THEN queue ELSE Append(queue, b)

\* the frontend refuses a program among the top instances and queues the rest
QueueTop(i) ==
    /\ stage = "tops" /\ i = Least(tops)
    /\ tops' = tops \ {i}
    /\ IF design.kind[i] = "program"
       THEN /\ issued' = issued \cup {Other("ProgramUnsupported", i)}
            /\ UNCHANGED <<queue, stage>>
       ELSE /\ GetOrEmplace(InstanceBody(i))
            /\ stage' = IF InstanceBody(i) \in Netlists THEN "aborted" ELSE stage
            /\ UNCHANGED issued
    /\ UNCHANGED <<design, options, at, agenda, wires, remap, disabled, cells,
                   diags, visited>>

TopsQueued ==
    /\ stage = "tops" /\ tops = {}
    /\ stage' = "drain"
    /\ UNCHANGED <<design, options, tops, queue, at, agenda, wires, remap,
                   disabled, cells, diags, issued, visited>>

SkipDisabled ==
    /\ stage = "drain" /\ at <= Len(queue)
    /\ Realm \in disabled
    /\ at' = at + 1
    /\ UNCHANGED <<design, options, stage, tops, queue, agenda, wires, remap,
                   disabled, cells, diags, issued, visited>>

\* visiting the statements of body b: lookups that fail end the program
VisitBody(b) ==
    /\ visited' = visited \cup {<<b, Realm>>}
    /\ diags' = IF NoCommonAncestor(b, Realm) THEN diags
                ELSE diags \cup Crossing(b, Realm)
    /\ stage' = IF NoCommonAncestor(b, Realm) \/ ~(LookedUp(b, Realm) \subseteq wires'[Realm])
                THEN "aborted" ELSE "walk"

\* handle(InstanceBodySymbol) on the realm: add_internal_wires, then its members
EnterRealm ==
    /\ stage = "drain" /\ at <= Len(queue)
    /\ Realm \notin disabled
    /\ wires' = [wires EXCEPT ![Realm] = @ \cup {Var(b) : b \in Reached[Realm]}]
    /\ VisitBody(Realm)
    /\ agenda' = Inside(Realm)
    /\ UNCHANGED <<design, options, tops, queue, at, remap, disabled, cells, issued>>

(***************************************************************************)
(* handle(InstanceSymbol), one action per outcome                          *)
(***************************************************************************)
AtInstance(i) == stage = "walk" /\ agenda # {} /\ i = Least(agenda)

VisitProgram(i) ==
    /\ AtInstance(i) /\ design.kind[i] = "program"
    /\ diags' = diags \cup {Other("ProgramUnsupported", i)}
    /\ agenda' = agenda \ {i}
    /\ UNCHANGED <<design, options, stage, tops, queue, at, wires, remap,
                   disabled, cells, issued, visited>>

VisitBlackbox(i) ==
    /\ AtInstance(i) /\ IsBlackbox(i)
    /\ cells' = cells \cup {[realm |-> Realm, inst |-> i, names |-> i]}
    /\ diags' = IF design.link[i] = "none" THEN diags
                ELSE diags \cup {Other("UnsupportedBlackboxConnection", i)}
    /\ agenda' = agenda \ {i}
    /\ UNCHANGED <<design, options, stage, tops, queue, at, wires, remap,
                   disabled, issued, visited>>

Walkable(i) == design.kind[i] # "program" /\ ~IsBlackbox(i)

VisitDissolved(i) ==
    /\ AtInstance(i) /\ Walkable(i) /\ ShouldDissolve(i)
    /\ agenda' = (agenda \ {i}) \cup Inside(i)
    /\ UNCHANGED wires
    /\ VisitBody(i)
    /\ UNCHANGED <<design, options, tops, queue, at, remap, disabled, cells, issued>>

\* connecting a modport: the submodule's symbols come from the instance that
\* inserts it, a later instance looks its own up
ConnectModport(i, b, inserted) ==
    LET bus == design.bus[i]
        here == Resolved(Modport(bus), Realm)
    IN  /\ wires' = IF inserted THEN [wires EXCEPT ![b] = @ \cup {Modport(bus)}] ELSE wires
        /\ remap' = IF inserted THEN [remap EXCEPT ![b] = @ \cup {bus}] ELSE remap
        /\ stage' = IF Modport(bus) \in wires'[b] /\ here \in wires'[Realm]
                    THEN stage ELSE "aborted"

Unelaborable_Ignored(b, inserted) == UNCHANGED disabled

\* a module inserted without the modport its body needs is not elaborated
Unelaborable(b, inserted) ==
    disabled' = IF inserted THEN disabled \cup {b} ELSE disabled

VisitKept(i) ==
    /\ AtInstance(i) /\ Walkable(i) /\ ~ShouldDissolve(i)
    /\ LET b == InstanceBody(i)
           inserted == b \notin Netlists
       IN  /\ GetOrEmplace(b)
           /\ cells' = cells \cup {[realm |-> Realm, inst |-> i, names |-> b]}
           /\ IF design.link[i] = "plain"
              THEN /\ diags' = diags \cup {Other("ModportRequired", i)}
                   /\ Unelaborable(b, inserted)
              ELSE UNCHANGED <<diags, disabled>>
           /\ IF design.link[i] = "modport"
              THEN ConnectModport(i, b, inserted)
              ELSE UNCHANGED <<wires, remap, stage>>
    /\ agenda' = agenda \ {i}
    /\ UNCHANGED <<design, options, tops, at, issued, visited>>

\* visit_netlist_variables: the variables walked down to, and the modport the
\* realm's own instance is connected to
Initialised(r) ==
    {Var(b) : b \in Reached[r]} \cup
    (IF design.link[r] = "modport" THEN {Modport(design.bus[r])} ELSE {})

\* the end of handle(InstanceBodySymbol) on the realm and of the round of the
\* worklist: initial values go onto wires, the diagnostics are issued
LeaveRealm ==
    /\ stage = "walk" /\ agenda = {}
    /\ stage' = IF Initialised(Realm) \subseteq wires[Realm] THEN "drain" ELSE "aborted"
    /\ at' = at + 1
    /\ issued' = issued \cup diags
    /\ diags' = {}
    /\ UNCHANGED <<design, options, tops, queue, agenda, wires, remap, disabled,
                   cells, visited>>

Drained ==
    /\ stage = "drain" /\ at > Len(queue)
    /\ stage' = "drained"
    /\ UNCHANGED <<design, options, tops, queue, at, agenda, wires, remap,
                   disabled, cells, diags, issued, visited>>

HierStep ==
    \/ \E i \in tops : QueueTop(i)
    \/ TopsQueued \/ SkipDisabled \/ EnterRealm \/ LeaveRealm \/ Drained
    \/ \E i \in agenda : \/ VisitProgram(i) \/ VisitBlackbox(i)
                         \/ VisitDissolved(i) \/ VisitKept(i)
=============================================================================
