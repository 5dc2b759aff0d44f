# A verification development for the Yosys slang frontend

The frontend elaborates a SystemVerilog AST (built by slang) into Yosys RTLIL.
Most of its intricate state lives in the elaboration of procedural code: a
process is executed once, symbolically, for all inputs at the same time, and
what comes out must be a circuit with the meaning of the sequential program.
This directory holds TLA+ models of that core, TLC configurations that check
them on small instances, and proofs for TLAPS. Paths below are relative to the
repository root.

## The system

| Component | Source | State | Operations |
|---|---|---|---|
| Variable state of a process | `src/slang_frontend.cc` 461-536 | visible assignments, revert map | set, evaluate, save, restore |
| Procedural context | `src/procedural.cc` | variable state, current case, escape stack, seen assignments, initial-process state | update, substitute, signal_escape, case_enable, inherit_state |
| Statement executor | `src/statements.h` | call stack of handlers, stacks of SwitchHelpers | one handler per statement kind |
| Unroll limit | `src/procedural.cc` 490-534 | depth, counter, error flag, loops | enter, exit, tick |
| Case tree | `src/cases.h`, `src/cases.cc` | tree of switches, cases and actions | add, latch signalling, lowering |
| Process finishing | `src/slang_frontend.cc` 290-354, 1656-1916 | driven bits, latches, flip-flops | comb, ff and initial processes |
| Async patterns | `src/async_pattern.cc` | prologue, reset branches | interpretation of if/else-if chains |
| Addressing, targets | `src/addressing.cc`, `src/lvalue.cc` | range, index, offset, stride; chain of levels | read, write, static bits |
| Memory inference | `src/memory.h` | candidates, disqualified | one visit per expression kind |
| Initialisation | `src/initialization.cc` | initial_state | initialisers, transfer to wires and memories |
| Builder | `src/builder.cc` | the module under construction | one operation per cell, with folding |
| Expressions | `src/slang_frontend.cc` 1140-1595 | none of its own | one case per expression kind |
| Hierarchy | `src/slang_frontend.cc` 1619-1641, 2067-2540, 3048-3232 | queue of netlists, wires, scope remapping | visit, dissolve, queue, check a reference |
| `$readmem`, `$past` | `src/slang_frontend.cc` 744-1081 | cursor and data of one call; a chain of registers | read a file, delay |
| Driver | `src/slang_frontend.cc` 3300-3702 | defaults stack, expected diagnostics | read_slang and its helpers |
| Black boxes, SVA, naming, diagnostics | `src/blackboxes.cc`, `src/sva.cc`, `src/naming.cc`, `src/diag.cc` | none that lasts | translations |

How they interact: the driver builds a compilation and elaborates modules from
a queue; each module's body is visited; for a process the finishing code makes
a `ProceduralContext`, has the executor walk the statements, and reads off the
case tree and the driven variables. The executor calls the expression evaluator,
which calls back into the context for every variable it reads and into the
executor for every subroutine call. Assignments go through `LValue` and
`AddressingResolver` to `update_variable_state`. Everything runs on one thread.

There is no concurrency, persistence or message passing here. What is hard is
that one execution stands for many: branches are executed one after the other
from the same store and joined afterwards; control flow that leaves a construct
early is turned into flags; loops are unrolled while their conditions may or may
not be known; an action's place in the tree is its priority. Each component is
correct when

* variable state: leaving a branch restores the enclosing store exactly and
  reports exactly what the branch wrote;
* executor: every read, every side effect's enable and every latch's data agree
  with the sequential program in each valuation of the inputs;
* unroll limit: elaboration ends, and exhaustion is reported once and in full;
* case tree: a latch is made for the bits that can stay unassigned and no
  others, and it follows the program after lowering;
* initialisation: every bit has one driver, and starts with its last initial value;
* memories: what is inferred can be elaborated, and its ports act in program order;
* addressing: exactly the selected bits are read or written for every index;
* expressions: what the builder folds is what the cell would have computed, and an
  operator's width and signedness are those of the language;
* hierarchy: each body is elaborated once, into the netlist that owns its
  variables, and exactly the references that leave a netlist are refused;
* driver: a read gets the options in force, and succeeds or fails as its
  expected diagnostic demands;
* `$readmem`: each word of the file reaches its element.

The hazards behind these, each with its source line and the properties that
would catch it, are listed in `PROJECT.json`.

## Modules

**ScopedStore, VariableState, VariableStateProofs.** `VariableState` is the pair
of dictionaries `visible_assignments` and `revert`, with `saved` for the map each
open `SwitchHelper` holds. A missing key is a value of its own (`Absent`,
`NoEntry`) and the marker `RTLIL::Sm` is `Absent` in `revert`. Actions: `Set`,
`Save`, `Restore`. `snaps` is a history variable. `ScopedStore` says what is
promised, a stack of copies of the store; `ImplementsScopedStore` is the
refinement.

**SeqSemantics, Procedural, MCProcedural, ProceduralInvariant, ProceduralProofs.** `Procedural` is the executor with its
context. The program is not fixed in advance: each step begins or ends a
construct, or executes a simple statement, of any kind the configuration allows,
so all programs up to the bounds are explored. `ctx` is the context, `ctl` the
executor's call stack with the SwitchHelpers of each frame, and `sem` the
reference: `SeqSemantics` runs the same program for every valuation of the wires
and knows nothing of flags, placeholders or trees. A valuation is the set of the wires
that are 1. A signal is the set of
valuations in which it is 1, with a mark saying whether the builder knows it as
a constant: that is all folding depends on. A placeholder wire that no rule
drives in some valuation takes there the opposite of the value it replaces, the
least favourable choice.

**UnrollLimit, Foreach, LoopNest, MCLoopNest, LoopNestProofs.** `UnrollLimit` is the budget on its own, with every nesting of
loops and with loops that never end by themselves. `Foreach` is the iteration over
a list of dimensions; `Advanced` is one pass of the nested loops of statements.h
618-651. `LoopNest` composes them: one loop of the nest is a foreach, which is
charged for each element and stops when the budget does, whichever loop used it
up. It implements `UnrollLimit`.

**CaseTree, MCCaseTree.** The state machine grows a tree as the executor does.
Each reachable tree is then put through the detection of unassigned bits, the
latch signalling and the lowering, and compared with what it means. The operators
are recursive, so this module is only model-checked.

**Addressing, Selects, Operators, Expressions, Evaluation, MCEvaluation.**
`Addressing` has the circuits of `AddressingResolver` as operators on bit
sequences. `Selects` builds chains of selects and member accesses over variables of
several types, known and changing indices, and compares reads and writes with the
language's definition. Bits are symbolic, so one comparison shows where each bit
goes. `Operators` has the folding of the builder: a signal is its value in every
valuation of the wires and the positions of the bits that the builder knows.
`Expressions` applies the operators of `EvalContext` one after the other and keeps,
beside the signal, what the language says the operand is. `Evaluation` is
`EvalContext` on either kind of expression.

**AsyncPattern, FlipFlops, MCFlipFlops, FlipFlopsProofs.** `AsyncPattern` is `handle_always` and
`interpret_async_pattern` as operators on a program record: which event is the
clock, which branches are asynchronous loads, which error is reported.
`FlipFlops` takes every program of the instance, elaborates it in `Init`, and then
toggles one input at a time: `regs` is the process executed on its events as the
language says, `cells` the flip-flops `handle_ff_process` emits. A dual-edge
register is two cells and a multiplexer. `ran` and `fired` compare the
side effects before the if-else chain and in its clocked part.

**MemoryInit, Readmem, Drivers, Memories, MCMemories, MemoriesProofs.** `Drivers` is one
variable or net of a module: its declaration, the members that assign runs of its bits, and the
finalisation. `net` holds the tables of `NetlistContext` (`driven_variables`,
`register_driven_variables`, `initial_state`, `special_net_drivers`) and the cells.
`AddMemoryInit` cuts initial data of a memory into cells, which are read back bit
by bit. `Readmem` is `$readmem` on a file of words, addresses and line ends: the runs
of words it flushes, which `Drivers` assigns as an initial process does. Its
reference says of each word which address follows from the last one given before
it. Apart from initial processes, at most one member assigns a bit of a variable: the
language's rule, which slang enforces except for plain `always` processes.
`Memories` is what decides between the two forms of an array. The
design is built one use at a time, `Visit` being the detector's step; `candidates`
is `memory_candidates`. What the elaborator makes of a use is `Outcome`, and `Ports`
is the set of `$memwr_v2` cells it emits, each with its number and the numbers of the
ports it has priority over: a write takes effect unless one of higher priority does.
They are compared with the processes for every value of the conditions, indices and
the reset. `Begin` declares the array as what the detection has left it.
`Overlooked` names uses that the detector accepts although they end in an error
when the array is inferred: `++` and `--`, and reads in initial processes and
assertions.

**Hierarchy, Frontend, MCFrontend, FrontendProofs.** `Hierarchy` is the elaboration
of a design, a forest of instances whose bodies refer to each other's variables. A
step visits one instance's body: it is kept (queued under its canonical body, or
found there), dissolved into the netlist being populated, a black box or a
program. `visited` records which body went into which netlist, `wires` whose
variables a netlist holds. `Frontend` is a session of commands around it: the
statics `default_options`, `defaults_stack` and `expected_diagnostic`, and a read
from its command line to success, failure or an abort. What is modelled of slang is
that it reports errors in some designs, and that it shares a body only between equal
instances of which none is a top one (`IsDesign`).

An operator named `X_Something` beside `X` is `X` with a plausible mistake. None
is used by a specification. They are there to show that each property fails for
the mistake named beside it in `PROJECT.json`.

## Runs

| Run | Shows | Bounds |
|---|---|---|
| VariableState | restore is exact, lookups are safe, refinement | 2 bits, 2 signals, 3 levels |
| LoopNest | one budget, one full report, termination; order, completeness and charging of foreach | 2 loops, limit 7, nest 3, 2 inner loops per iteration; dimensions with bounds -1 or 1, up to 3 of them, any unnamed |
| CaseTree | latches on ifs, case items with wildcards, full_case, masks, lowering | 5 steps, depth 2, 1 bit |
| Evaluation | reads and writes of all chains, concatenated targets; values of expressions | ranges in -2..3, 3-bit index, 3 items, 2 operands; 2 operators on operands of 1-2 bits, 2 wires, width 4 |
| Procedural | if, case, blocks, masks, nonblocking; loops, break, continue; calls and return, break and return through several levels, in always and in initial processes | 6-7 steps, limit 2, depth 2-3, 3 wires; loops with and without `continue`, calls with and without `return` |
| FlipFlops | registers and side effects after every input change | 1 register, 3 wires, 2 edges and up to 3, 2 operators per condition |
| Memories | inference, write ports, reads; drivers and initial values of what is no memory; initial data of what is, by assignment and `$readmem` | 2 arrays, 3 uses; 3 members on a memory of 3 words, a variable or a wired net, words of 2 bits; files of up to five words and two addresses, a `$readmem` counting as 2 members |
| Frontend | netlists, references and aborts of every design; options and expectations across reads | all designs of up to 4 instances and many of 5, each port connected to every interface of the design, 3 modes, 1 read; sessions of 2 reads and 4 commands on 4 designs |
| ProcLatchCall, ProcInitialCase, MemInitTail, FoldComparison | four disagreements, below | 6-7 steps, depth 2; 2 initial assignments; as Evaluation |

The bounds are chosen by what a counterexample needs. A revert map can go wrong
in three ways (first write, second write, inner level's write), which two bits
and three levels reach. A budget error needs an inner loop run twice in an outer
one. A wrong odometer step needs a carry across an exhausted and an unnamed
dimension. A wrong join or flag needs a branch, an escape in it and a statement
after it, twice nested. A wrong decode needs an index one past each end on both
signs. Each mistake in the modules is found within its run's bounds.

FlipFlops needs two edges in a row during a reset and one after it; the reset
condition needs two operators for an inversion to be undone.

`CHECK_DEADLOCK FALSE` stands where a run is bounded by a number of steps,
where the process ends (the end of `foreach`), or where a program is rejected
and there is nothing to simulate (FlipFlops).

Evaluation needs two operators for an extension to go wrong on the result of the
first, and two-bit operands with any bit constant for a fold to be decided by one
of them. Frontend needs three levels of instances for a boundary on either side
of a reference, a fourth and fifth for two equal ones with a body of their own
and the interfaces they are connected to; two reads and a push, an add and two
pops between them.

Memories needs two ports of one process and one of another, and runs of initial
bits that start and end anywhere in three words. A second driver or a lost
initial value needs a part of a variable that one member assigns and a part that
another one does, or none: two bits and three members.

The properties of Procedural speak of executions without a diagnostic: a
diagnostic makes the frontend fail, so no netlist is claimed to be right.

FlipFlops claims nothing where the code itself declares a limit: load values are
constants (`ConstantLoads`; a changing one is the TODO at slang_frontend.cc 1785), the reset is
inactive at the start, and variables assigned in the reset branch only are
ignored (FIXME at 1804). Two more exclusions are named in the module.
`NoWideInversion`: `~` over a widened operand is taken for a negation of the one
bit, so `if (~rst == 0)` with an integer zero is misread. `LosesEdge`: with a clock
of both edges, a variable without a load value falls back to a `$dffe`
(1889-1895), which has one edge only and takes the negative one; the frontend
warns of the missing load value and goes on. Effects are compared for clocks of
one edge: a trigger of both edges is passed on as a negative edge (1742).

`LatchStagingOutsideEscapes` is claimed of programs without `return` and `continue`,
for others it is false (ProcLatchCall, below). Two of the profiles of Procedural meet
that condition beside those without loops and calls: one has loops of each kind with
`break`, another has calls. In the loops, the value before the process, that of the
body and that of the step compete for the latched variable.

The properties of Frontend name three ways a read can abort although the design is
legal (`CrossTop`, `SharedBus`, `DistantBus`, see below); `AbortsExplained` says that there
is no fourth. The run has designs that end in each of them. It speaks of designs
of the shape `IsDesign`: a module has at most one interface port, connected to any
interface of the design; an interface has one modport and no ports of its own.

**Fairness.** `NestFairSpec` (and `FairSpec` of `UnrollLimit`) assume weak fairness of
the executor's next step while a loop is open. The executor is a single thread that runs its
loop until it breaks, so a step that is possible is eventually taken. Nothing is
assumed about which step: the program may never leave a loop by itself.

### Disagreements

* *ProcLatchCall.* statements.h explains the empty switch after an if or a loop
  ("so we force action priority for follow-up statements", line 390). After the
  switches that a statement list opens on an escape flag (349-352), and after a
  call, there is none. A module-level variable assigned inside a subroutine
  after a conditional return and once more after the call then gets the older
  value in its latch. So does one that the body of a loop assigns after a conditional
  `continue`, and once more the step of the loop or the first statement of the next
  iteration. `break` is not affected, as the loop descends when it has ended.
* *ProcInitialCase.* In an initial process, items after the matching one, and the
  default, are executed too.
* *MemInitTail.* `add_memory_init` writes the last, partial word of its data to the
  word where the data starts (builder.cc 667). An initial process that assigns
  `{m[1][0], m[0]}` reaches it.
* *FoldComparison.* `Biop` folds a comparison by the top bit of a difference that
  has overflowed: `{1'b0, w} <= 2'b11` becomes 0 (builder.cc 362-382). `misled` marks
  these comparisons in `Expressions`; all others are right.

More were met that no run is devoted to.

* A hierarchical reference into another top instance has no common ancestor, and
  `find_common_ancestor` asserts that there is one (slang_frontend.cc 3201).
* Two instances that share a body and are connected to modports of different
  interfaces: the second looks wires up that only the first one's interface has
  (2356).
* A kept instance can be connected to a modport of an interface named hierarchically, in
  another kept module. References across a boundary are refused by `check_hier_ref`, but
  the connection goes to `netlist.wire` at once (2370), which ends the program
  (`wire_missing`) as the netlist at hand has no wire of it.
* The diagnostic for a top-level program is issued to slang's engine directly
  (3545), so that it cannot be expected before the read.
* `--ast-compilation-only` returns with the expectation standing (3534), which the
  next read inherits.
* After the word of the finish address `$readmem` drops the rest of the line, also an
  `@` address, but takes up the following lines and goes on past the range; see
  `StopsAtFinish`, which `InitialWords` assumes.

And two in processes. The first `while` of an initial process
reads its break flag through `vstate.evaluate` (statements.h 471), where flags of
initial processes are not kept, and stops at an assertion. And a clock of both
edges is handed to write ports and side effects as a negative edge (`LosesEdge`
above).

## Proofs

Checked by tlapm for every value of the constants, with no assumption beyond those
named in the modules:

* `VariableStateProofs`: `TypeCorrect`, `Invariance`, `LookupsSafe`, `UndoCorrect`,
  `Refinement`. UndoReachesSnapshot is not inductive alone: erasing and restoring
  bindings needs the types and the fact that every reverted bit is bound, at every
  level. `IInv` is their conjunction over all levels at once; `Set`, `Save` and
  `Restore` each preserve it, and the refinement maps them to `Write`, `Enter` and
  `Leave`. Assumption: `Absent` and `NoEntry` are no signals and differ.
* `LoopNestProofs`, on the budget alone: `TypeCorrect` and `BudgetAndBlame`. The budget
  and the diagnostic's completeness are inductive together, given the types. On
  foreach alone: `VisitsEveryElementInOrder`, for arrays of any number of
  dimensions and integer bounds. The core is `AdvanceIsSuccessor`: the elements
  before the next one are those before this one, and this one. It rests on the
  existence of a greatest dimension in which two elements differ. On the nest of
  both: `NestRefinesUnrollLimit`, so that `NestBudget` follows from the
  theorem about the budget alone; `NestVisitsInOrder`, from the lemmas about one step
  of foreach, as every step of the nest is one of them or leaves the foreach alone;
  `NestChargesElements`. The last needs `ChargeInv`: that the stack of open loops holds
  the foreach once at most, as `visited` is that of one run of it.
* `MemoriesProofs`: `TypeCorrect`, `InferredAreElaborated`, `ReadsSampleBefore` and
  `PortsAgreeWithProgram`, for any arrays and uses and designs of any length;
  `EveryBitDriven`, for any ranges and members. `InferenceSound` is not inductive
  alone: it says what the elaborator makes of a use, and not what the detector saw.
  `UsesInv` is that nothing that disqualifies has been met of an array that is still a
  candidate. For the ports, a later write of the same process has a higher number and
  priority over the earlier ones, so the effective port with the greatest number is
  the last assignment executed. For the drivers, `DriversInv` has `TablesFollow`: the
  tables of the netlist record the members elaborated so far, bit by bit, in their
  order. Finalising turns each entry into one cell. Assumptions: `DesignAssumption`, the
  fields a use has, and `DriversAssumption`, that ranges are pairs of integers.
* `FrontendProofs`: `WorklistSound`, `ExpectationsSettled` and `OptionsFollowBrackets`,
  for any set of designs and sessions of any length. `WorklistInv` ties the map of
  netlists to the queue: what is in one is in the other, once. `ExpectationInv` says
  what the expectation and the success flag can be at each stage of a read.
  `SessionInv` relates the stack of defaults to the brackets typed: the n-th entry from
  its top is what was in force before the n-th innermost `-push` that is still open
  (`StackFollows`), and a command does not change what was in force before it
  (`ForceKept`). Assumptions: `DesignsAssumption`, that designs
  have the shape of `IsDesign`; `DefaultsAssumption`, that no option is named as a
  command is. Of elaboration, `AbortsAreExplained`, `TypeCorrect`, `PartitionOfDesign` and
  `RefusalsExact`, for designs of any size and shape, all modes and sessions. See below.
* `FlipFlopsProofs`: `TypeCorrect`, `FollowsTheProgram`, `EffectsAreExact` and
  `RecognisesEveryReset`, for event lists and chains of any length, conditions with any
  number of operators, any registers and any sequence of input changes. See below.
* `ProceduralProofs`: `ElaborationIsCorrect`, `CasesAreExact`, `NoAssertionFails` and
  `TypesHold`, for any number of wires and variables and programs of any length and
  nesting. `ProceduralInvariant` has the first half of the proof. See below.

`IntervalTheorems` holds what they have in common: the least and the greatest element of
a set of numbers, induction over an interval, and the existence of the function that a
recursion defines. It assumes nothing of this program.

**The argument about clocked processes.** `AsyncPattern` decides what the circuit is, from
the text of the process. The first part of the proof is about that. `ConditionsRead` is
that a condition holds exactly if its signal has the polarity read from it: by induction
over the operators, the number of inversions so far says which bit there is, and a
widened bit keeps its value as long as it is not inverted. `WithoutReset` and `WithReset`
are the two shapes an accepted process can have: one event, which is the clock; or
two, of which the first branch has one, with the edge its condition tests, and the clock
is the other. They rest on `TakenAccounted` (each branch taken uses up one trigger, and
a failure comes with an error) and `SettledStays` (nothing is taken once one trigger is
left). The second part compares one change of a wire on both sides. `Executed`: the
process runs on the edges of the clock and when the load comes on. `Stored`: what it
stores then is the value at the load or at the data input of the cell. `Output`: what
the cell puts out, for each of the four kinds. `FollowsProgram` is not inductive: while
the load is on, a cell takes its load value at every change, and the process has done so
only when it came on. `FlipFlopInv` adds `Held`, that the register still has that value, which
needs load values to be constants. TLC has checked `Held` and `Tracks`, which is
`FollowsProgram` for all registers, within the bounds of the run FlipFlops. Assumptions:
`ProgramAssumption`, that processes have the shape of `IsProgram` and stay
within the limits named under the bounds above; `OptionsAssumption`.

**The argument about processes.** What the four properties say of the next statement is
not inductive: when a branch is left, the values that are in force again come out of
revert maps and out of the updates `finish` joins; when a construct ends, what its
flags have suspended resumes. `Inv` relates all of these to the sequential program.

* `Good` gives each variable in scope a set `F[v]`, the valuations in which it is 1, and
  relates the store to it at every open branch, not only the innermost one. `V` has the
  store that undoing the revert maps down to that branch would yield. In a valuation that
  selects this branch and no deeper one, that store, overridden by what the updates of the
  switch have so far, reads as `F[v]`. Entering, leaving and joining branches
  only move valuations from one level to the next. `B[v]` is how many branches were open
  when `v` was declared: only at those levels and deeper ones need it have a value.
* `Under` and `FrameAt` say what each construct has put on the stacks: how many helpers,
  guards, locals and frames of the semantics lie below it (`Layout`), and where its
  valuations are. Between two turns, a loop has a head of its own there.
* `Scoped`: `F` speaks of exactly the variables in scope, and by `Good` each has a value at every
  level. From this follow `NoAssertionFailure` and `TypeOK`.
* `Meaning`: `F` has the values of the semantics (`Mirrors`), and of the valuations
  selected where a construct was entered, those that have raised none of the flags are the
  live ones, or wait in a frame of the semantics; the others have left by the break,
  continue or return whose flag they raised. A list that begins with a switch on a flag
  therefore runs for the live ones: `EnablesExact`.

`Known` is that there are such `F`, `B`, `V` and layouts. Each operation of the executor
keeps it, by a lemma of its own: `OpenKeeps`, `EnterBodyKeeps`, `LeaveBodyKeeps`,
`CloseKeeps`, `SwitchKeeps`, `AssignKeeps`, `PushLoop`, `HeadKeeps`, `LeaveLoopKeeps`,
`BeginCallKeeps`, `CallLeft`, `EscapeKeeps` and some more. The actions are compositions of
them (`BeginIf` of opening a switch and taking a branch, the end of an iteration of three or
four), and `StatementRuns` adds the switches that a list opens on flags before its next statement.
While a diagnostic is pending, values may be wrong but the stacks are not, so the parts
about values hold only without one.

Assumptions: `SemAssumption` and `ProceduralAssumption`, on the shape of programs. And a
hypothesis of the theorems, `InitialIsConstant`: an initial process has no case and no
while, and its conditions and masks are no wires. It excludes what the code gets wrong.
An initial process has no case tree; ProcInitialCase shows what becomes of a case, a
condition on a wire would make both branches take effect, and the while fails an assertion
(above). Always processes are not restricted. `Inv` quantifies over stores and layouts that
TLC cannot enumerate: what TLC checks are the four properties that follow from it.

**The argument about the hierarchy.** The elaborator finds out where a symbol lives in
two ways. `find_symbol_realm` walks up from the symbol to the first instance that is
not dissolved; `add_internal_wires` walks down from a netlist's instance through those
that are. The first part of the proof is about the tree alone: each body lies below
one top instance (`TopUnique`), the two walks meet (`WalksAgree`), bodies in
different netlists have another top or a kept boundary between them
(`DifferentRealmsBetween`), the paths from the top to two realms have a common prefix that ends at a realm around
both (`PathPrefix`, `CommonMeansSameTop`), and the module that
`find_common_ancestor` leaves to be blamed is a kept one on the way (`BlamedBetween`).

The second part is the invariant `HierInv`. None of the four properties is inductive:
they speak of a drained worklist or of an abort. While a read runs, `RunningInv` says

* `RealmsOK`: what each netlist is and which wires it has, so that every lookup finds one;
* `VisitsOK`, `Entered`: a body is visited in the realm of its symbols, after its wires
  exist;
* `Closed`: each instance in a body that has been left is queued, visited, a black box
  or a program, and `Walking`: in the body being visited, it is that or still on the agenda;
* `TopsOK`, `LiveOK`: every top is queued or still to come, and only bodies of the design are
  visited;
* `CrossingsOK`: the refusals issued are those of the visits so far.

Each step preserves each part. When the worklist is drained, `Closed` and the induction over
the tree give `PartitionOfDesign`; `CrossingsOK` and the lemmas about paths give
`RefusalsExact`. A reference can fail only if it is to another top's tree. The interface of a kept instance
is a port of the netlist around it, or in that netlist, or distant, unless a shared body
has it from elsewhere (`ModportHere`). This is `AbortsAreExplained`. TLC has checked
`HierInv` within the bounds of the run Frontend.

Only model-checked: the liveness property; everything about `CaseTree`, `Selects` and
`Evaluation`; of `Procedural`, `LatchStagingOutsideEscapes`; of `Drivers`, `StartValues` and
`InitialWords`. `CaseTree` and `Selects` use recursive operators. Liveness, and what a
recursive definition computes, are out of the prover's reach; `InitialWords` compares two
folds over data of any length and `Evaluation` the circuits of every chain of selects, which
are inductions of that kind. `LatchStagingOutsideEscapes` compares the place of every
action of the tree with the order of the program. The invariant of the proof says nothing
of paths in the tree yet: it needs that those of later actions come after those of earlier
ones in every valuation.

## Not modelled

Values x and z of data (they appear in wildcards, as bits the builder does not
know, and as the result of reads out of range), attributes, names, source
locations, cell parameters and the emission of latch cells. `Memories` leaves out
clocks of both edges and the walk over the instances that collects the
candidates, `Drivers` input and interface ports. In `Procedural`, assertions, timing
controls and initialisers of locals. In `Addressing`, undefined index bits and
32-bit overflow of constant offsets. In `Operators`, division, remainder and power
and x bits of data. In `Expressions`, operands with side effects. In `Hierarchy`, port
connections other than interfaces, several interface ports of a module, ports of
interfaces, generate blocks and arrays of instances. In `Frontend`, command lines that slang
cannot parse: `log_cmd_error("Bad command")` (3494, 3499) ends a script, and an interactive
session is back at its prompt with the expectation still standing. In
`Readmem`, comments and digits, and the register chain of `$past`.

Black boxes (`blackboxes.cc`), assertions (`sva.cc`), naming and the message tables are
translations without state of their own; `Diagnostics` and the plugin glue report and
register. The test scripts were read for intent.

## Plan

1. Operands with side effects in expressions; undefined index bits.
2. Ports and generate blocks in the hierarchy; the visitor's procedural blocks.
3. Proofs: `LatchStagingOutsideEscapes` of `Procedural`, from paths that grow in every
   valuation; `StartValues` of `Drivers`.
