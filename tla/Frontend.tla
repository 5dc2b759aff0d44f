------------------------------ MODULE Frontend ------------------------------
(***************************************************************************)
(* A session of read_slang, slang_defaults and test_slangdiag commands     *)
(* (slang_frontend.cc).  The default options and their stack, and the      *)
(* expected diagnostic, are statics that outlive a read; a read composes   *)
(* its options from them, elaborates the design as Hierarchy says, and     *)
(* decides between success and an error that ends the program.             *)
(*                                                                         *)
(* Parsing and the elaboration of the AST are slang's: a design is bad if  *)
(* they report an error.                                                   *)
(***************************************************************************)
EXTENDS Hierarchy

CONSTANTS
    Designs,        \* families of designs to read, see IsDesign
    Budgets,        \* sessions: their family, and bounds on reads and commands
    Reads,          \* the option sequences read_slang may be given
    Defaults,       \* the options slang_defaults -add may be given
    Expectable      \* the messages test_slangdiag -expect may be given

NoMessage == "none"
SlangError == "SlangError"
Warnings == {"ProgramUnsupported"}

ASSUME BudgetsAssumption ==
    Budgets \subseteq [family : DOMAIN Designs, reads : Nat, commands : Nat]
ASSUME MessagesAssumption == NoMessage \notin Expectable
ASSUME DefaultsAssumption == Defaults \cap {"-clear", "-push", "-pop"} = {}

VARIABLES
    defaults,   \* default_options
    saved,      \* defaults_stack
    expected,   \* expected_diagnostic
    failtest,   \* in_succesful_failtest
    history,    \* the slang_defaults commands so far
    given,      \* the command line of the current read, defaults included
    args,       \* the part of it that the command itself gives
    wanted,     \* what was expected when the read began
    budget      \* the family of designs, and the commands and reads left

sessionVars == <<defaults, saved, expected, failtest, history, given, args, wanted, budget>>
vars == <<hierVars, sessionVars>>

NoDesign == [parent |-> <<>>, kind |-> <<>>, black |-> <<>>, inout |-> <<>>,
             link |-> <<>>, bus |-> <<>>, canonical |-> <<>>, refs |-> <<>>,
             bad |-> FALSE]

OptionsIn(line) == {line[k] : k \in DOMAIN line}

Init ==
    /\ HierStart
    /\ budget \in Budgets
    /\ design = NoDesign /\ options = {}
    /\ defaults = <<>> /\ saved = <<>>
    /\ expected = NoMessage /\ wanted = NoMessage
    /\ failtest = FALSE
    /\ history = <<>> /\ given = <<>> /\ args = <<>>

(***************************************************************************)
(* slang_defaults and test_slangdiag                                       *)
(***************************************************************************)
Command ==
    /\ stage = "idle" /\ budget.commands > 0
    /\ budget' = [budget EXCEPT !.commands = @ - 1]
    /\ UNCHANGED <<hierVars, failtest, given, args, wanted>>

SlangDefaults(command) ==
    /\ Command
    /\ history' = Append(history, command)
    /\ UNCHANGED expected

\* an option repeated on a command line is not explored
Add(option) ==
    /\ option \notin OptionsIn(defaults)
    /\ defaults' = Append(defaults, option)
    /\ UNCHANGED saved
    /\ SlangDefaults(option)

Clear ==
    /\ defaults' = <<>>
    /\ UNCHANGED saved
    /\ SlangDefaults("-clear")

Push ==
    /\ saved' = Append(saved, defaults)
    /\ UNCHANGED defaults
    /\ SlangDefaults("-push")

Pop_KeepsSaved ==
    /\ defaults' = IF saved # <<>> THEN saved[Len(saved)] ELSE <<>>
    /\ UNCHANGED saved
    /\ SlangDefaults("-pop")

Pop ==
    /\ IF saved # <<>>
       THEN /\ defaults' = saved[Len(saved)]
            /\ saved' = SubSeq(saved, 1, Len(saved) - 1)
       ELSE /\ defaults' = <<>>
            /\ UNCHANGED saved
    /\ SlangDefaults("-pop")

Expect(message) ==
    /\ expected' = message
    /\ UNCHANGED <<defaults, saved, history>>
    /\ Command

(***************************************************************************)
(* read_slang                                                              *)
(***************************************************************************)
CheckDiagnostics_KeepsExpected(messages) ==
    /\ UNCHANGED expected
    /\ failtest' = (failtest \/ expected \in messages)

\* check_diagnostics on some but not the last diagnostics
CheckDiagnostics(messages) ==
    /\ expected' = IF expected \in messages THEN NoMessage ELSE expected
    /\ failtest' = (failtest \/ expected \in messages)

Messages(S) == {d.kind : d \in S}
Errors == Messages(issued) \ Warnings

\* the command line is put together: defaults go before the options given
Read(d, line) ==
    /\ stage = "idle" /\ budget.reads > 0
    /\ OptionsIn(line) \cap OptionsIn(defaults) = {}
    /\ budget' = [budget EXCEPT !.reads = @ - 1]
    /\ design' = d
    /\ args' = line /\ given' = defaults \o line
    /\ options' = OptionsIn(given')
    /\ stage' = "parsed"
    /\ failtest' = FALSE
    /\ wanted' = expected
    /\ issued' = {}
    /\ UNCHANGED <<tops, queue, at, agenda, wires, remap, disabled, cells, diags,
                   visited, defaults, saved, expected, history>>

\* an error of slang ends the read, --ast-compilation-only does without one
Compile ==
    /\ stage = "parsed"
    /\ CheckDiagnostics(IF design.bad THEN {SlangError} ELSE {})
    /\ IF design.bad
       THEN /\ stage' = IF failtest' THEN "returned" ELSE "failed"
            /\ issued' = {Other(SlangError, 1)}
            /\ UNCHANGED <<tops, queue, at, agenda, wires, remap, disabled,
                           cells, diags, visited>>
       ELSE IF "--ast-compilation-only" \in options
       THEN /\ stage' = "returned"
            /\ UNCHANGED <<tops, queue, at, agenda, wires, remap, disabled,
                           cells, diags, issued, visited>>
       ELSE Begin
    /\ UNCHANGED <<design, options, defaults, saved, history, given, args, wanted, budget>>

\* elaboration; what a netlist reports is checked as its round ends
Elaborate ==
    /\ HierStep
    /\ IF stage = "walk" /\ stage' = "drain"
       THEN CheckDiagnostics(Messages(diags))
       ELSE UNCHANGED <<expected, failtest>>
    /\ UNCHANGED <<defaults, saved, history, given, args, wanted, budget>>

\* the last check_diagnostics, then the verdict of the diagnostic engine
Report ==
    /\ stage = "drained"
    /\ stage' = IF expected # NoMessage \/ (Errors # {} /\ ~failtest)
                THEN "failed" ELSE "returned"
    /\ UNCHANGED <<design, options, tops, queue, at, agenda, wires, remap,
                   disabled, cells, diags, issued, visited, sessionVars>>

\* back at the prompt: what the read built is gone with its stack frame
Return ==
    /\ stage = "returned"
    /\ stage' = "idle"
    /\ tops' = {} /\ queue' = <<>> /\ at' = 1 /\ agenda' = {}
    /\ wires' = <<>> /\ remap' = <<>>
    /\ disabled' = {} /\ cells' = {} /\ diags' = {} /\ issued' = {} /\ visited' = {}
    /\ given' = <<>> /\ args' = <<>> /\ options' = {}
    /\ wanted' = NoMessage /\ failtest' = FALSE
    /\ design' = NoDesign
    /\ UNCHANGED <<defaults, saved, expected, history, budget>>

Commands == Clear \/ Push \/ Pop \/ (\E o \in Defaults : Add(o))
                  \/ (\E m \in Expectable : Expect(m))

ReadStep == Compile \/ Elaborate \/ Report \/ Return

Prompt ==
    /\ stage = "idle"
    /\ \/ Commands
       \/ \E d \in Designs[budget.family], line \in Reads : Read(d, line)

Next == Prompt \/ ReadStep

Spec == Init /\ [][Next]_vars

(***************************************************************************)
(* Types                                                                   *)
(***************************************************************************)
Equal(d, i, c) ==
    /\ d.parent[i] # Root /\ d.parent[c] # Root
    /\ d.kind[i] = d.kind[c] /\ d.black[i] = d.black[c]
    /\ d.inout[i] = d.inout[c] /\ d.link[i] = d.link[c]

\* a tree numbered in the order of declaration: body i holds the instances
\* declared in it, an interface port of a module is connected to an interface of
\* the design, named from where the module is instantiated, hierarchically or
\* through a port, and only equal instances share a body, none of them at the top
IsDesign(d) ==
    LET ids == 1 .. Len(d.parent)
        upper(i) == d.parent[i]
    IN  /\ d.parent \in Seq(Nat)
        /\ \A i \in ids : upper(i) \in 0 .. i - 1
        /\ \A i \in ids : d.kind[i] \in Kinds /\ d.link[i] \in Links
        /\ \A i \in ids : d.canonical[i] \in 1 .. i /\ d.refs[i] \subseteq ids
        /\ \A i \in ids : d.canonical[i] = i \/ Equal(d, i, d.canonical[i])
        /\ \A i \in ids : d.link[i] # "none" =>
              /\ upper(i) # Root /\ d.kind[i] = "module"
              /\ d.bus[i] \in ids /\ d.kind[d.bus[i]] = "interface"

ASSUME DesignsAssumption == \A f \in DOMAIN Designs : \A d \in Designs[f] : IsDesign(d)

Symbols == {Var(i) : i \in Insts} \cup {Modport(i) : i \in Insts}
Stages == {"idle", "parsed", "tops", "drain", "walk", "drained", "returned",
           "failed", "aborted"}

\* The session's state has the types of the code's, a netlist is queued once,
\* and whatever has wires, a remapped scope or a disabled flag is queued.
TypeOK ==
    /\ IsDesign(design)
    /\ stage \in Stages
    /\ \A i, j \in DOMAIN queue : queue[i] = queue[j] => i = j
    /\ Netlists \subseteq Insts /\ disabled \subseteq Netlists
    /\ agenda \subseteq Insts /\ tops \subseteq Insts
    /\ at \in 1 .. Len(queue) + 1
    /\ \A i \in DOMAIN wires : wires[i] \subseteq Symbols
    /\ \A i \in DOMAIN wires : wires[i] # {} => i \in Netlists
    /\ \A i \in DOMAIN remap : \A m \in remap[i] : Modport(m) \in wires[i]
    /\ expected \in Expectable \cup {NoMessage}
    /\ OptionsIn(defaults) \subseteq Defaults
    /\ \A k \in DOMAIN saved : OptionsIn(saved[k]) \subseteq Defaults

(***************************************************************************)
(* Properties of elaboration                                               *)
(***************************************************************************)
\* the boundaries between two bodies: instances with just one of them inside
Within ==
    LET in[i \in Insts] == {i} \cup (IF design.parent[i] = Root THEN {} ELSE in[design.parent[i]])
    IN  in
Between(a, b) == (Within[a] \ Within[b]) \cup (Within[b] \ Within[a])

Sharing == \E i \in Insts : design.canonical[i] # i
Populated(r) == r \in Netlists \ disabled

\* bodies elaborated as part of the design, or of a realm: no program or black box
\* is around
Live(i) == \A a \in Within[i] :
    design.kind[a] # "program" /\ (design.parent[a] = Root \/ ~IsBlackbox(a))
LiveIn(i, r) == \A a \in Within[i] \ Within[r] : design.kind[a] # "program" /\ ~IsBlackbox(a)

\* Once the worklist is drained every body that is part of the design has been
\* visited, in one netlist and once (unless slang shares it or an error disables
\* a module); the netlist that visits it, walking down, is the one that
\* find_symbol_realm names, walking up, and is the one with its wire; and each
\* cell made for a kept instance names a module of the worklist.
DesignPartitioned ==
    stage = "drained" =>
        /\ \A v \in visited : SymbolRealm[v[1]] = v[2] /\ Var(v[1]) \in wires[v[2]]
        /\ \A c \in cells : IsBlackbox(c.inst) \/ c.names \in Netlists
        /\ \A r \in Insts : Populated(r) =>
              {v \in visited : v[2] = r} = {<<b, r>> : b \in {x \in Reached[r] : LiveIn(x, r)}}
        /\ ~Sharing /\ disabled = {} => {v[1] : v \in visited} = {i \in Insts : Live(i)}

\* A reference is refused exactly if a boundary that is not dissolved lies
\* between the referring statement and the variable, unless it goes through a
\* modport the netlist has as ports of its own; and the module blamed for it is
\* such a boundary (check_hier_ref).
RefusedExactly ==
    stage = "drained" =>
        LET crossings == {d \in issued : d.kind = "ReferenceAcrossKeptHierBoundary"}
            kept(b, t) == {i \in Between(b, t) : ~ShouldDissolve(i)}
        IN  /\ \A v \in visited : \A x \in Names(v[1]) :
                 (kept(v[1], x[2]) # {} /\ ~Remapped(x, v[2]))
                    <=> (\E d \in crossings : d.from = v[1] /\ d.to = x)
            /\ \A d \in crossings : d.blamed \in kept(d.from, d.to[2])

\* References from the tree of one top instance into that of another.
CrossTop == \E v \in visited : \E x \in Names(v[1]) :
    \A a \in Within[v[1]] \cap Within[x[2]] : FALSE

\* Two instances that share a body and are connected to different interfaces.
SharedBus == Sharing /\ \E i \in Insts :
    design.link[i] = "modport" /\ design.bus[i] # design.bus[design.canonical[i]]

\* A kept instance connected to a modport of an interface that is, or may be, in
\* another netlist, reached hierarchically and not through the port of the netlist
\* around the instance: the interface is in the tree of another top instance, or a
\* boundary that is not dissolved lies between.
DistantBus == \E v \in visited : \E i \in Inside(v[1]) :
    /\ design.link[i] = "modport" /\ Walkable(i) /\ ~ShouldDissolve(i)
    /\ \/ Within[v[1]] \cap Within[design.bus[i]] = {}
       \/ \E k \in Between(v[1], design.bus[i]) : ~ShouldDissolve(k)
    /\ design.link[v[2]] = "none" \/ design.bus[v[2]] # design.bus[i]

\* No lookup of a wire fails and no assertion of the worklist or of
\* find_common_ancestor does, whatever is black boxed, dissolved, kept, shared or
\* disabled, but in three cases: a reference that names another top instance has no
\* common ancestor to blame, a shared body has the modport of one instance, and the
\* connection of a modport is not subject to check_hier_ref.
AbortsExplained == stage = "aborted" => CrossTop \/ SharedBus \/ DistantBus

(***************************************************************************)
(* Properties of the session                                               *)
(***************************************************************************)
Count(c, from, to) == Cardinality({k \in from .. to : history[k] = c})
Latest(S) == CHOOSE k \in S : \A j \in S : j <= k

\* the -push commands that leave so many more of them than -pop up to the n-th
Opening(n, depth) ==
    {k \in 1 .. n : history[k] = "-push" /\
        Count("-push", k, n) = Count("-pop", k, n) + depth}

\* the options in force after n commands, from what was typed: a -pop returns to
\* those in force at the -push it closes, and to none if it closes none
InForceAfter ==
    LET force[n \in 0 .. Len(history)] ==
            IF n = 0 \/ history[n] = "-clear" THEN <<>>
            ELSE IF history[n] = "-push" THEN force[n - 1]
            ELSE IF history[n] # "-pop" THEN Append(force[n - 1], history[n])
            ELSE IF Opening(n - 1, 1) = {} THEN <<>>
            ELSE force[Latest(Opening(n - 1, 1)) - 1]
    IN  force
InForce == InForceAfter[Len(history)]

\* A read runs under the options that the bracket structure of the slang_defaults
\* commands puts in force, followed by its own; nothing leaks from a closed
\* -push or from an earlier read.
OptionsOfRead ==
    stage \notin {"idle"} => given = InForce \o args

\* what check_diagnostics gets to see of a read that has ended: a program among
\* the top instances is reported past it
Checked == {d \in issued : ~(d.kind = "ProgramUnsupported" /\ design.parent[d.from] = Root)}

\* A read that expects a diagnostic succeeds exactly if it is emitted, whatever
\* the errors, and leaves no expectation behind; a read that expects none succeeds
\* exactly if there is no error.  --ast-compilation-only is the exception: it
\* returns with the expectation still standing.
ExpectationSettled ==
    /\ stage = "returned" =>
          IF wanted = NoMessage THEN Errors = {} /\ expected = NoMessage
          ELSE IF wanted \in Messages(Checked) THEN expected = NoMessage
          ELSE "--ast-compilation-only" \in options /\ expected = wanted
    /\ stage = "failed" =>
          IF wanted = NoMessage THEN Errors # {} ELSE wanted \notin Messages(Checked)
=============================================================================
