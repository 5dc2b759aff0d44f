--------------------------- MODULE FrontendProofs ---------------------------
(***************************************************************************)
(* Proofs about Frontend for all designs and sessions: the worklist of     *)
(* netlists, the protocol of the expected diagnostic, the options of a     *)
(* read, and what elaboration makes of a design.                           *)
(***************************************************************************)
EXTENDS Frontend, IntervalTheorems, FiniteSetTheorems, TLAPS

\* bodies and the instances in them, as the worklist needs them
WellFormed ==
    /\ design.parent \in Seq(Nat)
    /\ \A i \in Insts : InstanceBody(i) \in Insts

\* messages check_diagnostics gets to see
Visible(d) ==
    /\ d.kind # NoMessage
    /\ d.kind = "ProgramUnsupported" => design.parent[d.from] # Root

Waiting ==
    /\ tops = {} /\ agenda = {} /\ diags = {} /\ cells = {}
    /\ queue = <<>> /\ at = 1

\* every netlist is queued once, and every cell names one or a black box
QueuedOnce == \A i, j \in DOMAIN queue : queue[i] = queue[j] => i = j
CellsNamed == \A c \in cells : IsBlackbox(c.inst) \/ c.names \in Netlists

WorklistInv ==
    /\ WellFormed
    /\ budget \in [family : DOMAIN Designs, reads : Nat, commands : Nat]
    /\ queue \in Seq(Insts) /\ at \in Nat \ {0}
    /\ \A i \in tops : i \in Insts /\ design.parent[i] = Root
    /\ \A i \in agenda : i \in Insts /\ design.parent[i] # Root
    /\ \A d \in diags : Visible(d)
    /\ stage \in {"idle", "parsed"} => Waiting
    /\ QueuedOnce
    /\ CellsNamed

LEMMA DesignsWellFormed ==
  ASSUME NEW f \in DOMAIN Designs, NEW d \in Designs[f]
  PROVE  /\ d.parent \in Seq(Nat)
         /\ \A i \in DOMAIN d.parent : d.canonical[i] \in DOMAIN d.parent
<1>1. IsDesign(d)
  BY DesignsAssumption
<1>2. d.parent \in Seq(Nat) /\ \A i \in 1..Len(d.parent) : d.canonical[i] \in 1..i
  BY <1>1 DEF IsDesign
<1>3. DOMAIN d.parent = 1..Len(d.parent) /\ Len(d.parent) \in Nat
  BY <1>2
<1> QED
  BY <1>2, <1>3

\* Adding a body to the worklist.
LEMMA Emplaced ==
  ASSUME WorklistInv, NEW b \in Insts, GetOrEmplace(b), UNCHANGED design
  PROVE  /\ queue' \in Seq(Insts)
         /\ QueuedOnce'
         /\ b \in Netlists' /\ Netlists \subseteq Netlists'
<1>1. queue \in Seq(Insts) /\ QueuedOnce
  BY DEF WorklistInv
<1>2. CASE b \in Netlists
  BY <1>1, <1>2 DEF GetOrEmplace, Netlists, QueuedOnce
<1>3. CASE b \notin Netlists
  <2>1. queue' = Append(queue, b)
    BY <1>3 DEF GetOrEmplace
  <2>2. /\ Len(queue) \in Nat /\ DOMAIN queue = 1..Len(queue)
        /\ DOMAIN queue' = 1..(Len(queue) + 1)
        /\ queue'[Len(queue) + 1] = b
        /\ \A k \in 1..Len(queue) : queue'[k] = queue[k]
        /\ queue' \in Seq(Insts)
    BY <1>1, <2>1
  <2>3. \A k \in 1..Len(queue) : queue[k] # b
    BY <1>3, <2>2 DEF Netlists
  <2>4. QueuedOnce'
    BY <1>1, <2>2, <2>3 DEF QueuedOnce
  <2>5. b \in Netlists' /\ Netlists \subseteq Netlists'
    BY <2>2 DEF Netlists
  <2> QED
    BY <2>2, <2>4, <2>5
<1> QED
  BY <1>2, <1>3

\* What the worklist depends on, apart from the stage.
LEMMA WorklistFrame ==
  ASSUME WorklistInv,
         UNCHANGED <<design, tops, queue, at, agenda, diags, cells>>,
         budget' \in [family : DOMAIN Designs, reads : Nat, commands : Nat],
         stage' \in {"idle", "parsed"} => stage \in {"idle", "parsed"}
  PROVE  WorklistInv'
BY DEF WorklistInv, WellFormed, Waiting, QueuedOnce, CellsNamed, Visible, Insts,
       InstanceBody, Netlists, IsBlackbox

LEMMA WorklistInit == Init => WorklistInv
<1> SUFFICES ASSUME Init
             PROVE  WorklistInv
  OBVIOUS
<1>1. Waiting /\ WellFormed
  BY DEF Init, HierStart, NoDesign, Waiting, WellFormed, Insts, InstanceBody
<1> QED
  BY <1>1, BudgetsAssumption
  DEF Init, WorklistInv, Waiting, QueuedOnce, CellsNamed, Insts

LEMMA CommandsKeepWorklist == WorklistInv /\ Commands => WorklistInv'
<1> SUFFICES ASSUME WorklistInv, Command
             PROVE  WorklistInv'
  BY DEF Commands, Clear, Push, Pop, Add, Expect, SlangDefaults
<1>1. budget' \in [family : DOMAIN Designs, reads : Nat, commands : Nat]
  BY DEF WorklistInv, Command
<1> QED
  BY <1>1, WorklistFrame DEF Command, hierVars

LEMMA ReadKeepsWorklist ==
  ASSUME WorklistInv, NEW d \in Designs[budget.family], NEW line, Read(d, line)
  PROVE  WorklistInv'
<1>1. budget' \in [family : DOMAIN Designs, reads : Nat, commands : Nat]
  BY DEF WorklistInv, Read
<1>2. budget.family \in DOMAIN Designs
  BY DEF WorklistInv
<1>3. Waiting /\ UNCHANGED <<tops, queue, at, agenda, diags, cells>> /\ design' = d
  BY DEF WorklistInv, Read
<1>4. WellFormed'
  BY <1>2, <1>3, DesignsWellFormed DEF WellFormed, Insts, InstanceBody
<1>5. Waiting'
  BY <1>3 DEF Waiting
<1> QED
  BY <1>1, <1>4, <1>5 DEF WorklistInv, Waiting, QueuedOnce, CellsNamed

LEMMA CompileKeepsWorklist == WorklistInv /\ Compile => WorklistInv'
<1> SUFFICES ASSUME WorklistInv, Compile
             PROVE  WorklistInv'
  OBVIOUS
<1>1. CASE UNCHANGED <<tops, queue, at, agenda, cells, diags>> /\ stage' # "idle" /\ stage' # "parsed"
  BY <1>1, WorklistFrame DEF Compile, WorklistInv
<1>2. CASE Begin
  <2>1. UNCHANGED <<design, budget>> /\ stage' = "tops"
    BY <1>2 DEF Compile, Begin
  <2>2. /\ tops' = Inside(Root) /\ queue' = <<>> /\ at' = 1
        /\ agenda' = {} /\ cells' = {} /\ diags' = {}
    BY <1>2 DEF Begin
  <2> QED
    BY <2>1, <2>2
    DEF WorklistInv, WellFormed, Inside, Insts, InstanceBody, QueuedOnce, CellsNamed
<1> QED
  BY <1>1, <1>2 DEF Compile

LEMMA ReturnKeepsWorklist == WorklistInv /\ Return => WorklistInv'
<1> SUFFICES ASSUME WorklistInv, Return
             PROVE  WorklistInv'
  OBVIOUS
<1>1. Waiting' /\ WellFormed'
  BY DEF Return, Waiting, WellFormed, NoDesign, Insts, InstanceBody
<1>2. budget' = budget
  BY DEF Return
<1> QED
  BY <1>1, <1>2 DEF WorklistInv, Waiting, QueuedOnce, CellsNamed

\* The steps of elaboration.
LEMMA TopKeepsWorklist ==
  ASSUME WorklistInv, UNCHANGED budget, NEW i \in tops, QueueTop(i)
  PROVE  WorklistInv'
<1>1. i \in Insts /\ InstanceBody(i) \in Insts
  BY DEF WorklistInv, WellFormed
<1>2. /\ tops' \subseteq tops
      /\ UNCHANGED <<design, at, agenda, diags, cells>>
      /\ stage' = "tops" \/ stage' = "aborted"
  BY DEF QueueTop
<1>3. /\ queue' \in Seq(Insts)
      /\ QueuedOnce'
      /\ Netlists \subseteq Netlists'
  <2>1. CASE design.kind[i] = "program"
    BY <2>1 DEF QueueTop, WorklistInv, QueuedOnce, Netlists
  <2>2. CASE design.kind[i] # "program"
    BY <1>1, <1>2, <2>2, Emplaced DEF QueueTop
  <2> QED
    BY <2>1, <2>2
<1> QED
  BY <1>2, <1>3
  DEF WorklistInv, WellFormed, Insts, InstanceBody, CellsNamed, Visible, IsBlackbox

\* Visiting a body issues no error past check_diagnostics.
LEMMA BodyVisible ==
  ASSUME WorklistInv, UNCHANGED design, NEW b, VisitBody(b)
  PROVE  (\A d \in diags' : Visible(d)') /\ stage' \in {"walk", "aborted"}
<1>1. \A d \in Crossing(b, Realm) : d.kind = "ReferenceAcrossKeptHierBoundary"
  BY DEF Crossing
<1>2. \A d \in diags : Visible(d)
  BY DEF WorklistInv
<1> QED
  BY <1>1, <1>2 DEF VisitBody, Visible, NoMessage

LEMMA EnterKeepsWorklist ==
  ASSUME WorklistInv, UNCHANGED budget, EnterRealm
  PROVE  WorklistInv'
<1>1. Realm \in Insts /\ Realm # Root
  <2>1. queue \in Seq(Insts) /\ at \in 1..Len(queue)
    BY DEF WorklistInv, EnterRealm
  <2>2. Realm \in Insts
    BY <2>1 DEF Realm
  <2>3. \A i \in Insts : i # Root
    BY DEF WorklistInv, WellFormed, Insts, Root
  <2> QED
    BY <2>2, <2>3
<1>2. (\A d \in diags' : Visible(d)') /\ stage' \in {"walk", "aborted"}
  BY BodyVisible DEF EnterRealm
<1>3. \A i \in agenda' : i \in Insts' /\ design'.parent[i] # Root
  BY <1>1 DEF EnterRealm, Inside, Insts
<1>4. UNCHANGED <<design, tops, queue, at, cells>>
  BY DEF EnterRealm
<1> QED
  BY <1>2, <1>3, <1>4
  DEF WorklistInv, WellFormed, Insts, InstanceBody, QueuedOnce, CellsNamed, Netlists, IsBlackbox

LEMMA VisitsKeepWorklist ==
  ASSUME WorklistInv, UNCHANGED budget, NEW i \in agenda,
         VisitProgram(i) \/ VisitBlackbox(i) \/ VisitDissolved(i)
  PROVE  WorklistInv'
<1>1. i \in Insts /\ i # Root /\ design.parent[i] # Root
  BY DEF WorklistInv, WellFormed, Insts, Root
<1>2. UNCHANGED <<design, tops, queue, at>> /\ stage' \in {"walk", "aborted"}
  BY BodyVisible DEF VisitProgram, VisitBlackbox, VisitDissolved, AtInstance
<1>3. \A c \in agenda' : c \in Insts' /\ design'.parent[c] # Root
  BY <1>1 DEF VisitProgram, VisitBlackbox, VisitDissolved, Inside, Insts, WorklistInv
<1>4. \A d \in diags' : Visible(d)'
  <2>1. CASE VisitProgram(i)
    BY <1>1, <2>1 DEF VisitProgram, WorklistInv, Visible, Other, NoMessage
  <2>2. CASE VisitBlackbox(i)
    BY <1>1, <2>2 DEF VisitBlackbox, WorklistInv, Visible, Other, NoMessage
  <2>3. CASE VisitDissolved(i)
    BY <2>3, BodyVisible DEF VisitDissolved
  <2> QED
    BY <2>1, <2>2, <2>3
<1>5. CellsNamed'
  BY <1>2 DEF VisitProgram, VisitBlackbox, VisitDissolved, WorklistInv, CellsNamed,
     Netlists, IsBlackbox
<1> QED
  BY <1>2, <1>3, <1>4, <1>5
  DEF WorklistInv, WellFormed, Insts, InstanceBody, QueuedOnce

LEMMA KeptKeepsWorklist ==
  ASSUME WorklistInv, UNCHANGED budget, NEW i \in agenda, VisitKept(i)
  PROVE  WorklistInv'
<1> DEFINE b == InstanceBody(i)
<1>1. i \in Insts /\ b \in Insts /\ design.parent[i] # Root
  BY DEF WorklistInv, WellFormed
<1>2. UNCHANGED <<design, tops, at>> /\ agenda' \subseteq agenda /\ GetOrEmplace(b)
  BY DEF VisitKept
<1>3. /\ queue' \in Seq(Insts) /\ QueuedOnce'
      /\ b \in Netlists' /\ Netlists \subseteq Netlists'
  BY <1>1, <1>2, Emplaced
<1>4. cells' = cells \cup {[realm |-> Realm, inst |-> i, names |-> b]}
  BY DEF VisitKept
<1>5. CellsNamed'
  BY <1>2, <1>3, <1>4 DEF WorklistInv, CellsNamed, IsBlackbox
<1>6. \A d \in diags' : Visible(d)'
  <2>1. diags' = diags \/ diags' = diags \cup {Other("ModportRequired", i)}
    BY DEF VisitKept
  <2> QED
    BY <1>2, <2>1 DEF WorklistInv, Visible, Other, NoMessage
<1>7. stage' \in {"walk", "aborted"}
  BY DEF VisitKept, AtInstance, ConnectModport
<1> QED
  BY <1>1, <1>2, <1>3, <1>5, <1>6, <1>7 DEF WorklistInv, WellFormed, Insts, InstanceBody

LEMMA RoundKeepsWorklist ==
  ASSUME WorklistInv, UNCHANGED budget,
         TopsQueued \/ SkipDisabled \/ LeaveRealm \/ Drained
  PROVE  WorklistInv'
<1>1. UNCHANGED <<design, tops, queue, agenda, cells>> /\ at' \in {at, at + 1}
  BY DEF TopsQueued, SkipDisabled, LeaveRealm, Drained
<1>2. diags' \subseteq diags /\ stage' \in {"drain", "drained", "aborted"}
  BY DEF TopsQueued, SkipDisabled, LeaveRealm, Drained
<1> QED
  BY <1>1, <1>2
  DEF WorklistInv, WellFormed, Insts, InstanceBody, QueuedOnce, CellsNamed, Netlists,
      IsBlackbox, Visible

LEMMA WorklistKeeps == WorklistInv /\ [Next]_vars => WorklistInv'
<1> SUFFICES ASSUME WorklistInv, [Next]_vars
             PROVE  WorklistInv'
  OBVIOUS
<1>1. CASE Prompt
  BY <1>1, CommandsKeepWorklist, ReadKeepsWorklist DEF Prompt
<1>2. CASE Elaborate
  BY <1>2, TopKeepsWorklist, EnterKeepsWorklist, VisitsKeepWorklist, KeptKeepsWorklist,
     RoundKeepsWorklist
  DEF Elaborate, HierStep
<1>3. CASE Report
  BY <1>3, WorklistFrame DEF Report, WorklistInv, sessionVars
<1>4. CASE UNCHANGED vars
  BY <1>4, WorklistFrame DEF vars, hierVars, sessionVars, WorklistInv
<1> QED
  BY <1>1, <1>2, <1>3, <1>4, CompileKeepsWorklist, ReturnKeepsWorklist DEF Next, ReadStep

\* Whatever the design and the options, no netlist is populated twice and no cell
\* names a module that is not on the worklist (HierarchyQueue).
THEOREM WorklistSound == Spec => [](QueuedOnce /\ CellsNamed)
<1>1. WorklistInv => QueuedOnce /\ CellsNamed
  BY DEF WorklistInv
<1> QED
  BY <1>1, WorklistInit, WorklistKeeps, PTL DEF Spec

-----------------------------------------------------------------------------
\* The state of the expectation in the course of a read: met as soon as
\* check_diagnostics has seen the message, standing until then.
Met == wanted # NoMessage /\ wanted \in Messages(Checked)

ExpectationInv ==
    /\ wanted = NoMessage \/ stage # "idle"
    /\ stage = "parsed" => issued = {} /\ expected = wanted /\ ~failtest
    /\ stage \in {"tops", "drain", "walk", "drained"} =>
          /\ failtest \in BOOLEAN
          /\ Met => expected = NoMessage /\ failtest
          /\ ~Met => expected = wanted /\ ~failtest
    /\ ExpectationSettled

LEMMA ReadKeepsExpectation ==
  ASSUME NEW d, NEW line, Read(d, line)
  PROVE  ExpectationInv'
BY DEF Read, ExpectationInv, ExpectationSettled

LEMMA CompileKeepsExpectation == ExpectationInv /\ Compile => ExpectationInv'
<1> SUFFICES ASSUME ExpectationInv, Compile
             PROVE  ExpectationInv'
  OBVIOUS
<1>1. issued = {} /\ expected = wanted /\ failtest = FALSE /\ stage = "parsed"
  BY DEF ExpectationInv, Compile
<1>2. UNCHANGED <<wanted, options, design>>
  BY DEF Compile
<1>3. CASE design.bad
  <2>1. issued' = {Other(SlangError, 1)}
    BY <1>3 DEF Compile
  <2>2. Checked' = issued' /\ Messages(issued') = {SlangError}
    BY <2>1 DEF Checked, Messages, Other, SlangError
  <2>3. Errors' = {SlangError}
    BY <2>2 DEF Errors, Warnings, SlangError
  <2>4. /\ expected' = IF wanted = SlangError THEN NoMessage ELSE wanted
        /\ failtest' = (wanted = SlangError)
    BY <1>1, <1>3 DEF Compile, CheckDiagnostics
  <2>5. stage' = IF failtest' THEN "returned" ELSE "failed"
    BY <1>3 DEF Compile
  <2>6. Messages(Checked') = {SlangError}
    BY <2>2
  <2> QED
    BY <1>2, <2>3, <2>4, <2>5, <2>6 DEF ExpectationInv, ExpectationSettled, SlangError, NoMessage
<1>4. CASE ~design.bad
  <2>1. expected' = expected /\ failtest' = FALSE
    BY <1>1, <1>4 DEF Compile, CheckDiagnostics
  <2>2. issued' = {}
    BY <1>1, <1>4 DEF Compile, Begin
  <2>3. Messages(Checked)' = {} /\ Errors' = {}
    BY <2>2 DEF Checked, Errors, Messages
  <2>4. stage' = "tops" \/ (stage' = "returned" /\ "--ast-compilation-only" \in options)
    BY <1>4 DEF Compile, Begin
  <2> QED
    BY <1>1, <1>2, <2>1, <2>3, <2>4 DEF ExpectationInv, ExpectationSettled, Met
<1> QED
  BY <1>3, <1>4

LEMMA ElaborateKeepsExpectation ==
  ASSUME WorklistInv, ExpectationInv, Elaborate
  PROVE  ExpectationInv'
<1>1. UNCHANGED <<wanted, design, options>>
  BY DEF Elaborate, HierStep, QueueTop, TopsQueued, SkipDisabled, EnterRealm, LeaveRealm,
     Drained, VisitProgram, VisitBlackbox, VisitDissolved, VisitKept
<1>2. stage \in {"tops", "drain", "walk"} /\ stage' \in {"tops", "drain", "walk", "drained", "aborted"}
  <2>1. CASE EnterRealm
    BY <2>1 DEF EnterRealm, VisitBody
  <2>2. CASE \E i \in agenda : VisitDissolved(i)
    BY <2>2 DEF VisitDissolved, VisitBody, AtInstance
  <2>3. CASE \E i \in agenda : VisitKept(i)
    BY <2>3 DEF VisitKept, ConnectModport, AtInstance
  <2> QED
    BY <2>1, <2>2, <2>3
    DEF Elaborate, HierStep, QueueTop, TopsQueued, SkipDisabled, LeaveRealm,
        Drained, VisitProgram, VisitBlackbox, AtInstance
<1>3. /\ failtest \in BOOLEAN
      /\ Met => expected = NoMessage /\ failtest
      /\ ~Met => expected = wanted /\ ~failtest
  BY <1>2 DEF ExpectationInv
<1>4. CASE stage = "walk" /\ stage' = "drain"
  <2>1. LeaveRealm /\ CheckDiagnostics(Messages(diags))
    BY <1>4 DEF Elaborate, HierStep, QueueTop, TopsQueued, SkipDisabled, EnterRealm,
       VisitBody, Drained, VisitProgram, VisitBlackbox, VisitDissolved, VisitKept,
       ConnectModport, AtInstance
  <2>2. issued' = issued \cup diags
    BY <2>1 DEF LeaveRealm
  <2>3. \A d \in diags : /\ d.kind # NoMessage
                          /\ ~(d.kind = "ProgramUnsupported" /\ design.parent[d.from] = Root)
    BY DEF WorklistInv, Visible
  <2>4. Checked' = Checked \cup diags
    BY <1>1, <2>2, <2>3 DEF Checked
  <2>5. Messages(Checked)' = Messages(Checked) \cup Messages(diags) /\ NoMessage \notin Messages(diags)
    BY <2>3, <2>4 DEF Messages
  <2>6. Met' = (Met \/ (wanted # NoMessage /\ wanted \in Messages(diags)))
    BY <1>1, <2>5 DEF Met
  <2>7. /\ expected' = IF expected \in Messages(diags) THEN NoMessage ELSE expected
        /\ failtest' = (failtest \/ expected \in Messages(diags))
    BY <2>1 DEF CheckDiagnostics
  <2>8. /\ Met' => expected' = NoMessage /\ failtest'
        /\ ~Met' => expected' = wanted /\ ~failtest'
        /\ failtest' \in BOOLEAN
    BY <1>1, <1>3, <2>5, <2>6, <2>7
  <2> QED
    BY <1>1, <1>4, <2>8 DEF ExpectationInv, ExpectationSettled
<1>5. CASE stage' = "aborted"
  BY <1>5 DEF ExpectationInv, ExpectationSettled
<1>6. CASE stage' # "aborted" /\ ~(stage = "walk" /\ stage' = "drain")
  <2>1. UNCHANGED <<expected, failtest>>
    BY <1>6 DEF Elaborate
  <2>2. Checked' = Checked
    <3>1. CASE \E i \in tops : QueueTop(i)
      <4>1. PICK i \in tops : QueueTop(i)
        BY <3>1
      <4>2. design.parent[i] = Root
        BY <4>1 DEF WorklistInv
      <4>3. issued' = issued \/ issued' = issued \cup {Other("ProgramUnsupported", i)}
        BY <4>1 DEF QueueTop
      <4> QED
        BY <1>1, <4>2, <4>3 DEF Checked, Other
    <3>2. CASE UNCHANGED issued
      BY <1>1, <3>2 DEF Checked
    <3> QED
      BY <1>6, <3>1, <3>2
      DEF Elaborate, HierStep, TopsQueued, SkipDisabled, EnterRealm, LeaveRealm, Drained,
          VisitProgram, VisitBlackbox, VisitDissolved, VisitKept
  <2> QED
    BY <1>1, <1>2, <1>3, <1>6, <2>1, <2>2
    DEF ExpectationInv, ExpectationSettled, Met
<1> QED
  BY <1>4, <1>5, <1>6

LEMMA ReportKeepsExpectation ==
  ASSUME ExpectationInv, Report
  PROVE  ExpectationInv'
<1>1. /\ Met => expected = NoMessage /\ failtest
      /\ ~Met => expected = wanted /\ ~failtest
  BY DEF ExpectationInv, Report
<1>2. UNCHANGED <<issued, wanted, expected, failtest, options, design>>
  BY DEF Report, sessionVars
<1>3. Checked' = Checked /\ Errors' = Errors
  BY <1>2 DEF Checked, Errors
<1>4. stage' = IF expected # NoMessage \/ (Errors # {} /\ ~failtest)
               THEN "failed" ELSE "returned"
  BY DEF Report
<1> QED
  BY <1>1, <1>2, <1>3, <1>4 DEF ExpectationInv, ExpectationSettled, Met

\* A read that expects a diagnostic succeeds exactly if check_diagnostics sees it,
\* for every design and every session.
THEOREM ExpectationsSettled == Spec => []ExpectationSettled
<1>1. Init => ExpectationInv
  BY DEF Init, HierStart, ExpectationInv, ExpectationSettled
<1>2. WorklistInv /\ ExpectationInv /\ [Next]_vars => ExpectationInv'
  <2> SUFFICES ASSUME WorklistInv, ExpectationInv, [Next]_vars
               PROVE  ExpectationInv'
    OBVIOUS
  <2>1. CASE Commands
    BY <2>1 DEF Commands, Clear, Push, Pop, Add, Expect, SlangDefaults, Command, hierVars,
       ExpectationInv, ExpectationSettled
  <2>2. CASE \E d \in Designs[budget.family], line \in Reads : Read(d, line)
    BY <2>2, ReadKeepsExpectation
  <2>3. CASE Return
    BY <2>3 DEF Return, ExpectationInv, ExpectationSettled
  <2>4. CASE UNCHANGED vars
    <3>1. Checked' = Checked /\ Errors' = Errors
      BY <2>4 DEF Checked, Errors, vars, hierVars
    <3> QED
      BY <2>4, <3>1 DEF vars, hierVars, sessionVars, ExpectationInv, ExpectationSettled, Met
  <2> QED
    BY <2>1, <2>2, <2>3, <2>4, CompileKeepsExpectation, ElaborateKeepsExpectation,
       ReportKeepsExpectation
    DEF Next, Prompt, ReadStep
<1>3. ExpectationInv => ExpectationSettled
  BY DEF ExpectationInv
<1> QED
  BY <1>1, <1>2, <1>3, WorklistInit, WorklistKeeps, PTL DEF Spec

-----------------------------------------------------------------------------
\* The stack of default options against the bracket structure of the commands.
Brackets == {"-clear", "-push", "-pop"}
Typed == history \in Seq(Defaults \cup Brackets)

ForceOf(force, n) ==
    IF n = 0 \/ history[n] = "-clear" THEN <<>>
    ELSE IF history[n] = "-push" THEN force[n - 1]
    ELSE IF history[n] # "-pop" THEN Append(force[n - 1], history[n])
    ELSE IF Opening(n - 1, 1) = {} THEN <<>>
    ELSE force[Latest(Opening(n - 1, 1)) - 1]

LEMMA LatestIn ==
  ASSUME NEW n \in Nat, NEW S, S \subseteq 1 .. n, S # {}
  PROVE  Latest(S) \in S /\ Latest(S) \in 1 .. n /\ \A j \in S : j <= Latest(S)
<1>1. S \subseteq 0 .. n
  OBVIOUS
<1>2. \E k \in S : \A j \in S : j <= k
  BY <1>1, GreatestExists
<1> QED
  BY <1>2 DEF Latest

Forces ==
    /\ InForceAfter = [n \in 0 .. Len(history) |-> ForceOf(InForceAfter, n)]
    /\ \A n \in 0 .. Len(history) : InForceAfter[n] \in Seq(Defaults)

\* The options in force are what their recursive definition says.
LEMMA ForceDefined == Typed => Forces
<1> SUFFICES ASSUME Typed PROVE Forces
  OBVIOUS
<1> DEFINE D == 0 .. Len(history)
           V == Seq(Defaults)
           Base == {n \in D : \/ n = 0 \/ history[n] = "-clear"
                              \/ history[n] = "-pop" /\ Opening(n - 1, 1) = {}}
           B == [n \in D |-> <<>>]
           next == [n \in D |-> IF history[n] = "-pop" THEN Latest(Opening(n - 1, 1)) - 1
                                ELSE n - 1]
           H == [n \in D |-> [v \in V |-> IF history[n] \in {"-push", "-pop"} THEN v
                                         ELSE Append(v, history[n])]]
<1>1. Len(history) \in Nat /\ D \subseteq 0 .. Len(history) /\ DOMAIN history = 1 .. Len(history)
  BY DEF Typed
<1>2. \A n \in D \cap Base : B[n] \in V
  OBVIOUS
<1>3. ASSUME NEW n \in D \ Base PROVE next[n] \in D /\ next[n] < n
  <2>1. n \in 1 .. Len(history) /\ (history[n] = "-pop" => Opening(n - 1, 1) # {})
    BY <1>1
  <2>2. CASE history[n] = "-pop"
    <3>1. Opening(n - 1, 1) \subseteq 1 .. (n - 1) /\ n - 1 \in Nat
      BY <2>1 DEF Opening
    <3>2. Latest(Opening(n - 1, 1)) \in 1 .. (n - 1)
      BY <3>1, <2>1, <2>2, LatestIn
    <3>3. next[n] = Latest(Opening(n - 1, 1)) - 1
      BY <2>2
    <3> QED
      BY <3>2, <3>3, <2>1, <1>1
  <2>3. CASE history[n] # "-pop"
    BY <2>1, <2>3, <1>1
  <2> QED
    BY <2>2, <2>3
<1>4. ASSUME NEW n \in D \ Base, NEW v \in V PROVE H[n][v] \in V
  <2>1. n \in 1 .. Len(history) /\ history[n] # "-clear"
    BY <1>1
  <2>2. CASE history[n] \in {"-push", "-pop"}
    BY <2>2
  <2>3. CASE history[n] \notin {"-push", "-pop"}
    <3>1. history[n] \in Defaults
      BY <2>1, <2>3 DEF Typed, Brackets
    <3> QED
      BY <2>3, <3>1
  <2> QED
    BY <2>2, <2>3
<1>5. \A f : (\A n \in D : f[n] = IF n \in Base THEN B[n] ELSE H[n][f[next[n]]])
              /\ f \in [D -> V] => f = [n \in D |-> ForceOf(f, n)]
  <2> SUFFICES ASSUME NEW f \in [D -> V],
                      \A n \in D : f[n] = IF n \in Base THEN B[n] ELSE H[n][f[next[n]]],
                      NEW n \in D
               PROVE  f[n] = ForceOf(f, n)
    OBVIOUS
  <2>1. CASE n \in Base
    <3>1. f[n] = <<>>
      BY <2>1
    <3> QED
      BY <2>1, <3>1 DEF ForceOf
  <2>2. CASE n \notin Base
    <3>1. f[next[n]] \in V
      BY <1>3, <2>2
    <3>2. f[n] = IF history[n] \in {"-push", "-pop"} THEN f[next[n]]
                 ELSE Append(f[next[n]], history[n])
      BY <2>2, <3>1
    <3> QED
      BY <2>2, <3>2 DEF ForceOf
  <2> QED
    BY <2>1, <2>2
<1> HIDE DEF D, V, Base, B, next, H
<1>6. PICK f \in [D -> V] : Solves(f, D, Base, B, next, H)
  BY <1>1, <1>2, <1>3, <1>4, RecursionExists
<1>7. f = [n \in D |-> ForceOf(f, n)]
  BY <1>5, <1>6 DEF Solves
<1>8. InForceAfter = [n \in D |-> ForceOf(InForceAfter, n)]
  BY <1>7, Zenon DEF InForceAfter, ForceOf, D
<1>9. ASSUME NEW n \in D, \A k \in D : k < n => k \in {j \in D : InForceAfter[j] \in V}
      PROVE  n \in {j \in D : InForceAfter[j] \in V}
  <2>1. InForceAfter[n] = ForceOf(InForceAfter, n) /\ n \in 0 .. Len(history)
    BY <1>8 DEF D
  <2>2. CASE n \in Base
    <3>1. InForceAfter[n] = <<>>
      BY <2>1, <2>2 DEF Base, ForceOf
    <3>2. <<>> \in V
      BY DEF V
    <3> QED
      BY <3>1, <3>2
  <2>3. CASE n \notin Base
    <3>1. next[n] \in D /\ next[n] < n
      BY <1>3, <2>3
    <3>2. InForceAfter[next[n]] \in V
      BY <3>1, <1>9
    <3>3. H[n][InForceAfter[next[n]]] \in V
      BY <3>2, <2>3, <1>4
    <3>4. InForceAfter[n] = H[n][InForceAfter[next[n]]]
      BY <2>1, <2>3, <3>2 DEF H, next, ForceOf, Base, D
    <3> QED
      BY <3>3, <3>4
  <2> QED
    BY <2>2, <2>3
<1>10. D \subseteq {j \in D : InForceAfter[j] \in V}
  <2>1. D \subseteq Nat
    BY DEF D
  <2> HIDE DEF D
  <2> QED
    BY ONLY <1>9, <2>1, InductionUp
<1> QED
  BY <1>1, <1>8, <1>10 DEF D, V, Forces

LEMMA ForceDefinedNext == Typed' => Forces'
BY ForceDefined, PTL

\* One command more: the lemmas fix n, the number of commands before it.
LEMMA Counted ==
  ASSUME Typed, NEW c, NEW n \in Nat, n = Len(history), history' = Append(history, c),
         NEW x, NEW k \in 1 .. n + 1
  PROVE  /\ Count(x, k, n) \in Nat
         /\ Count(x, k, n + 1)' = IF c = x THEN Count(x, k, n) + 1 ELSE Count(x, k, n)
<1> DEFINE old == {j \in k .. n : history[j] = x}
           new == {j \in k .. n + 1 : history'[j] = x}
<1>1. /\ n + 1 \notin old /\ history'[n + 1] = c
      /\ \A j \in k .. n : history'[j] = history[j]
      /\ \A j : j \in k .. n + 1 <=> j \in k .. n \/ j = n + 1
  BY DEF Typed
<1>2. IsFiniteSet(old)
  <2>1. IsFiniteSet(k .. n)
    BY FS_Interval
  <2> QED
    BY <2>1, FS_Subset
<1>3. Count(x, k, n) = Cardinality(old) /\ Count(x, k, n + 1)' = Cardinality(new)
  BY DEF Count
<1>4. new = IF c = x THEN old \cup {n + 1} ELSE old
  BY <1>1
<1>5. n + 1 \notin old
  BY <1>1
<1> HIDE DEF old, new
<1>6. Cardinality(old) \in Nat /\ Cardinality(old \cup {n + 1}) = Cardinality(old) + 1
  BY <1>2, <1>5, FS_CardinalityType, FS_AddElement
<1> QED
  BY ONLY <1>3, <1>4, <1>6

LEMMA OpeningKept ==
  ASSUME Typed, NEW c, NEW n \in Nat, n = Len(history), history' = Append(history, c),
         NEW m \in 0 .. n, NEW d
  PROVE  Opening(m, d)' = Opening(m, d)
<1>1. \A j \in 1 .. m : history'[j] = history[j]
  BY DEF Typed
<1>2. ASSUME NEW x, NEW k \in 1 .. m PROVE Count(x, k, m)' = Count(x, k, m)
  <2>1. \A j \in k .. m : history'[j] = history[j]
    BY <1>1
  <2> QED
    BY <2>1 DEF Count
<1> QED
  BY <1>1, <1>2 DEF Opening

LEMMA OpeningNext ==
  ASSUME Typed, NEW c, NEW n \in Nat, n = Len(history), history' = Append(history, c),
         NEW d \in Nat \ {0}
  PROVE  Opening(n + 1, d)' =
           IF c = "-push" THEN IF d = 1 THEN Opening(n, 0) \cup {n + 1} ELSE Opening(n, d - 1)
           ELSE IF c = "-pop" THEN Opening(n, d + 1) ELSE Opening(n, d)
<1> DEFINE push(k) == Count("-push", k, n)
           pop(k) == Count("-pop", k, n)
           push1(k) == Count("-push", k, n + 1)'
           pop1(k) == Count("-pop", k, n + 1)'
<1>1. ASSUME NEW k \in 1 .. n + 1
      PROVE  /\ push(k) \in Nat /\ pop(k) \in Nat
             /\ push1(k) = IF c = "-push" THEN push(k) + 1 ELSE push(k)
             /\ pop1(k) = IF c = "-pop" THEN pop(k) + 1 ELSE pop(k)
  BY Counted
<1>2. push(n + 1) = 0 /\ pop(n + 1) = 0
  <2>1. \A x : {j \in n + 1 .. n : history[j] = x} = {}
    OBVIOUS
  <2> QED
    BY <2>1, FS_EmptySet DEF Count
<1>3. history'[n + 1] = c /\ \A j \in 1 .. n : history'[j] = history[j]
  BY DEF Typed
<1>4. Opening(n + 1, d)' = {k \in 1 .. n + 1 : history'[k] = "-push" /\ push1(k) = pop1(k) + d}
  BY DEF Opening
<1>5. \A e : Opening(n, e) = {k \in 1 .. n : history[k] = "-push" /\ push(k) = pop(k) + e}
  BY DEF Opening
<1> HIDE DEF push, pop, push1, pop1
<1>6. \A k : k \in 1 .. n + 1 <=> k \in 1 .. n \/ k = n + 1
  OBVIOUS
<1>7. PICK e \in Nat : e = IF c = "-push" THEN d - 1 ELSE IF c = "-pop" THEN d + 1 ELSE d
  OBVIOUS
<1>8. ASSUME NEW k \in 1 .. n PROVE push1(k) = pop1(k) + d <=> push(k) = pop(k) + e
  <2>1. k \in 1 .. n + 1
    OBVIOUS
  <2>2. /\ push(k) \in Nat /\ pop(k) \in Nat
        /\ push1(k) = IF c = "-push" THEN push(k) + 1 ELSE push(k)
        /\ pop1(k) = IF c = "-pop" THEN pop(k) + 1 ELSE pop(k)
    BY <1>1, <2>1
  <2> QED
    BY <1>7, <2>2
<1>9. c = "-push" => (push1(n + 1) = pop1(n + 1) + d <=> d = 1)
  <2>1. n + 1 \in 1 .. n + 1
    OBVIOUS
  <2>2. c = "-push" => push1(n + 1) = push(n + 1) + 1 /\ pop1(n + 1) = pop(n + 1)
    BY <1>1, <2>1
  <2> QED
    BY <1>2, <2>2
<1> DEFINE new == IF c = "-push" /\ d = 1 THEN {n + 1} ELSE {}
<1>10. ASSUME NEW k PROVE k \in Opening(n + 1, d)' <=> k \in Opening(n, e) \cup new
  <2>0. n + 1 \notin 1 .. n
    OBVIOUS
  <2>1. CASE k \in 1 .. n
    BY <1>3, <1>4, <1>5, <1>6, <1>8, <2>0, <2>1
  <2>2. CASE k = n + 1
    BY <1>3, <1>4, <1>5, <1>6, <1>9, <2>0, <2>2
  <2>3. CASE k \notin 1 .. n + 1
    BY <1>4, <1>5, <1>6, <2>3
  <2> QED
    BY <1>6, <2>1, <2>2, <2>3
<1>11. Opening(n + 1, d)' = Opening(n, e) \cup new
  BY <1>10
<1> HIDE DEF Opening
<1>12. CASE c = "-push" /\ d = 1
  <2>1. e = 0 /\ new = {n + 1}
    BY <1>7, <1>12
  <2> QED
    BY <1>11, <1>12, <2>1
<1>13. CASE ~(c = "-push" /\ d = 1)
  BY <1>7, <1>11, <1>13
<1> QED
  BY <1>12, <1>13

\* What was in force after an earlier command does not change.
LEMMA ForceKept ==
  ASSUME Typed, NEW c \in Defaults \cup Brackets, NEW n \in Nat, n = Len(history),
         history' = Append(history, c)
  PROVE  /\ Typed' /\ Len(history') = n + 1
         /\ \A m \in 0 .. n : InForceAfter'[m] = InForceAfter[m] /\ InForceAfter[m] \in Seq(Defaults)
         /\ InForceAfter'[n + 1] = ForceOf(InForceAfter, n + 1)'
<1>1. Typed' /\ Len(history') = n + 1 /\ \A j \in 1 .. n : history'[j] = history[j]
  BY DEF Typed
<1>2. Forces /\ Forces'
  BY <1>1, ForceDefined, ForceDefinedNext
<1>3. \A m \in 0 .. n : InForceAfter[m] = ForceOf(InForceAfter, m)
  BY <1>2 DEF Forces
<1>4. ASSUME NEW m \in 0 .. n + 1 PROVE InForceAfter'[m] = ForceOf(InForceAfter, m)'
  BY <1>1, <1>2 DEF Forces
<1>5. ASSUME NEW m \in 0 .. n,
             \A k \in 0 .. n : k < m => k \in {j \in 0 .. n : InForceAfter'[j] = InForceAfter[j]}
      PROVE  m \in {j \in 0 .. n : InForceAfter'[j] = InForceAfter[j]}
  <2>1. CASE m = 0
    <3>1. m \in 0 .. n + 1
      OBVIOUS
    <3>2. InForceAfter[m] = <<>>
      BY <1>3, <2>1 DEF ForceOf
    <3>3. InForceAfter'[m] = <<>>
      BY <3>1, <1>4, <2>1 DEF ForceOf
    <3> QED
      BY <3>2, <3>3
  <2>2. CASE m # 0
    <3> DEFINE open == Opening(m - 1, 1)
    <3>1. /\ m \in 1 .. n /\ m - 1 \in 0 .. n /\ m - 1 < m /\ m \in 0 .. n + 1
          /\ history'[m] = history[m]
      BY <1>1, <2>2
    <3>2. open' = open
      BY <3>1, OpeningKept
    <3>3. InForceAfter'[m - 1] = InForceAfter[m - 1]
      BY <3>1, <1>5
    <3>4. open # {} => Latest(open)' = Latest(open)
                       /\ InForceAfter'[Latest(open) - 1] = InForceAfter[Latest(open) - 1]
      <4> SUFFICES ASSUME open # {} 
                   PROVE  Latest(open)' = Latest(open)
                          /\ InForceAfter'[Latest(open) - 1] = InForceAfter[Latest(open) - 1]
        OBVIOUS
      <4>1. open \subseteq 1 .. (m - 1) /\ m - 1 \in Nat
        BY <3>1 DEF Opening
      <4> HIDE DEF open
      <4>2. Latest(open) \in 1 .. (m - 1)
        BY <4>1, LatestIn
      <4>3. Latest(open) - 1 \in 0 .. n /\ Latest(open) - 1 < m
        BY <4>2, <3>1
      <4>4. Latest(open)' = Latest(open)
        BY <3>2 DEF Latest
      <4> QED
        BY <4>3, <4>4, <1>5
    <3>5. InForceAfter[m] = ForceOf(InForceAfter, m)
      BY <1>3
    <3>6. InForceAfter'[m] = ForceOf(InForceAfter, m)'
      BY <1>4, <3>1
    <3> QED
      BY <3>1, <3>2, <3>3, <3>4, <3>5, <3>6 DEF ForceOf
  <2> QED
    BY <2>1, <2>2
<1>6. 0 .. n \subseteq {j \in 0 .. n : InForceAfter'[j] = InForceAfter[j]}
  <2> DEFINE D == 0 .. n
             S == {j \in D : InForceAfter'[j] = InForceAfter[j]}
  <2>1. D \subseteq Nat /\ \A m \in D : (\A k \in D : k < m => k \in S) => m \in S
    BY <1>5
  <2> HIDE DEF D, S
  <2>2. D \subseteq S
    BY ONLY <2>1, InductionUp
  <2> QED
    BY <2>2 DEF D, S
<1>7. \A m \in 0 .. n : InForceAfter[m] \in Seq(Defaults)
  BY <1>2 DEF Forces
<1>8. InForceAfter'[n + 1] = ForceOf(InForceAfter, n + 1)'
  <2>1. n + 1 \in 0 .. n + 1
    OBVIOUS
  <2> QED
    BY <2>1, <1>4
<1> QED
  BY <1>1, <1>6, <1>7, <1>8

\* The stack of saved options: an open -push for each, with what was in force before.
StackFollows ==
    \A d \in Nat \ {0} :
        IF d <= Len(saved)
        THEN /\ Opening(Len(history), d) # {}
             /\ saved[Len(saved) - d + 1] =
                  InForceAfter[Latest(Opening(Len(history), d)) - 1]
        ELSE Opening(Len(history), d) = {}

SessionInv ==
    /\ Typed
    /\ saved \in Seq(Seq(Defaults)) /\ defaults \in Seq(Defaults)
    /\ defaults = InForce
    /\ StackFollows
    /\ stage # "idle" => given = defaults \o args

LEMMA SessionInit == Init => SessionInv
<1> SUFFICES ASSUME Init PROVE SessionInv
  OBVIOUS
<1>1. Typed /\ Len(history) = 0 /\ defaults = <<>> /\ saved = <<>> /\ stage = "idle"
  BY DEF Init, HierStart, Typed
<1>2. InForceAfter[0] = <<>>
  BY <1>1, ForceDefined DEF Forces, ForceOf
<1>3. \A d : Opening(0, d) = {}
  BY DEF Opening
<1> QED
  BY <1>1, <1>2, <1>3 DEF SessionInv, InForce, StackFollows

LEMMA CommandKeepsSession ==
  ASSUME SessionInv, DefaultsAssumption, Command, NEW c, history' = Append(history, c),
         \/ c \in Defaults /\ defaults' = Append(defaults, c) /\ saved' = saved
         \/ c = "-clear" /\ defaults' = <<>> /\ saved' = saved
         \/ c = "-push" /\ saved' = Append(saved, defaults) /\ defaults' = defaults
         \/ /\ c = "-pop"
            /\ IF saved # <<>>
               THEN /\ defaults' = saved[Len(saved)]
                    /\ saved' = SubSeq(saved, 1, Len(saved) - 1)
               ELSE defaults' = <<>> /\ saved' = saved
  PROVE  SessionInv'
<1> PICK n : n = Len(history)
  OBVIOUS
<1> PICK s : s = Len(saved)
  OBVIOUS
<1>1. /\ Typed /\ n \in Nat /\ s \in Nat /\ c \in Defaults \cup Brackets
      /\ saved \in Seq(Seq(Defaults)) /\ defaults \in Seq(Defaults)
      /\ defaults = InForceAfter[n]
  BY DEF SessionInv, Typed, Brackets, InForce
<1>2. /\ Typed' /\ Len(history') = n + 1
      /\ \A m \in 0 .. n : InForceAfter'[m] = InForceAfter[m] /\ InForceAfter[m] \in Seq(Defaults)
      /\ InForceAfter'[n + 1] = ForceOf(InForceAfter, n + 1)'
  BY <1>1, ForceKept
<1>3. history'[n + 1] = c
  BY <1>1 DEF Typed
<1>4. \A d \in Nat \ {0} :
         IF d <= s
         THEN /\ Opening(n, d) # {}
              /\ saved[s - d + 1] = InForceAfter[Latest(Opening(n, d)) - 1]
         ELSE Opening(n, d) = {}
  BY DEF SessionInv, StackFollows
<1>5. ASSUME NEW d \in Nat \ {0}, Opening(n, d) # {}
      PROVE  /\ Latest(Opening(n, d)) - 1 \in 0 .. n
             /\ InForceAfter'[Latest(Opening(n, d)) - 1] = InForceAfter[Latest(Opening(n, d)) - 1]
  <2>1. Opening(n, d) \subseteq 1 .. n
    BY DEF Opening
  <2>2. Latest(Opening(n, d)) \in 1 .. n
    BY <2>1, <1>1, <1>5, LatestIn
  <2> HIDE DEF Opening
  <2>3. Latest(Opening(n, d)) - 1 \in 0 .. n
    BY <2>2, <1>1
  <2> DEFINE m == Latest(Opening(n, d)) - 1
  <2> HIDE DEF m
  <2>4. InForceAfter'[m] = InForceAfter[m]
    BY <2>3, <1>2 DEF m
  <2> QED
    BY <2>3, <2>4 DEF m
<1>6. Opening(n, 1)' = Opening(n, 1) /\ n + 1 - 1 = n
  <2>1. n \in 0 .. n /\ n + 1 - 1 = n
    BY <1>1
  <2> QED
    BY <1>1, <2>1, OpeningKept
<1>7. ASSUME NEW d \in Nat \ {0}
      PROVE  Opening(n + 1, d)' =
               IF c = "-push"
               THEN IF d = 1 THEN Opening(n, 0) \cup {n + 1} ELSE Opening(n, d - 1)
               ELSE IF c = "-pop" THEN Opening(n, d + 1) ELSE Opening(n, d)
  BY <1>1, OpeningNext
<1> DEFINE Follows(d) ==
      IF d <= Len(saved')
      THEN /\ Opening(n + 1, d)' # {}
           /\ saved'[Len(saved') - d + 1] = InForceAfter'[Latest(Opening(n + 1, d)') - 1]
      ELSE Opening(n + 1, d)' = {}
<1>8. (\A d \in Nat \ {0} : Follows(d)) => StackFollows'
  BY <1>2 DEF StackFollows, Latest
<1> HIDE DEF Follows
<1>9. stage' = "idle"
  BY DEF Command, hierVars
<1>10. (defaults' = InForceAfter'[n + 1]) => InForce' = defaults'
  BY <1>2 DEF InForce
<1> SUFFICES /\ saved' \in Seq(Seq(Defaults)) /\ defaults' \in Seq(Defaults)
             /\ defaults' = InForceAfter'[n + 1]
             /\ \A d \in Nat \ {0} : Follows(d)
  BY <1>2, <1>8, <1>9, <1>10 DEF SessionInv
<1>11. CASE c \in Defaults \/ c = "-clear"
  <2>1. c \notin {"-push", "-pop"} /\ saved' = saved
    BY <1>11 DEF DefaultsAssumption
  <2>2. \A d \in Nat \ {0} : Follows(d)
    BY <1>1, <1>4, <1>5, <1>7, <2>1 DEF Follows
  <2>3. InForceAfter'[n + 1] = IF c = "-clear" THEN <<>> ELSE Append(InForceAfter'[n], c)
    BY <1>1, <1>2, <1>3, <2>1 DEF ForceOf
  <2>4. InForceAfter'[n] = defaults
    BY <1>1, <1>2
  <2>5. c \in Defaults => c # "-clear"
    BY DEF DefaultsAssumption
  <2>6. defaults' = IF c = "-clear" THEN <<>> ELSE Append(defaults, c)
    BY <1>11, <2>1, <2>5
  <2>7. defaults' \in Seq(Defaults)
    BY <1>1, <1>11, <2>6
  <2> QED
    BY <1>1, <2>1, <2>2, <2>3, <2>4, <2>6, <2>7
<1>12. CASE c = "-push"
  <2>1. saved' = Append(saved, defaults) /\ defaults' = defaults
    BY <1>12 DEF DefaultsAssumption
  <2>2. /\ saved' \in Seq(Seq(Defaults)) /\ Len(saved') = s + 1
        /\ saved'[s + 1] = defaults /\ \A k \in 1 .. s : saved'[k] = saved[k]
    BY <1>1, <2>1
  <2>3. InForceAfter'[n + 1] = InForceAfter'[n] /\ InForceAfter'[n] = defaults
    BY <1>1, <1>2, <1>3, <1>12 DEF ForceOf
  <2>4. Follows(1)
    <3> DEFINE open == Opening(n, 0) \cup {n + 1}
    <3>1. open \subseteq 1 .. n + 1 /\ open # {} /\ n + 1 \in Nat
      BY <1>1 DEF Opening
    <3>2. Latest(open) \in 1 .. n + 1 /\ n + 1 <= Latest(open)
      <4> HIDE DEF open
      <4>1. n + 1 \in open
        BY DEF open
      <4> QED
        BY <3>1, <4>1, LatestIn
    <3>3. Latest(open) - 1 = n
      <4> HIDE DEF open
      <4> QED
        BY <3>2, <1>1
    <3>4. Opening(n + 1, 1)' = open
      BY <1>7, <1>12
    <3> HIDE DEF open
    <3>5. Len(saved') - 1 + 1 = s + 1 /\ 1 <= Len(saved')
      BY <2>2, <1>1
    <3> QED
      BY <2>2, <2>3, <3>1, <3>3, <3>4, <3>5 DEF Follows
  <2>5. ASSUME NEW d \in Nat \ {0}, d # 1 PROVE Follows(d)
    <3>1. /\ d - 1 \in Nat \ {0} /\ Opening(n + 1, d)' = Opening(n, d - 1)
          /\ (d <= Len(saved') <=> d - 1 <= s)
          /\ Len(saved') - d + 1 = s - (d - 1) + 1
      BY <2>2, <2>5, <1>1, <1>7, <1>12
    <3>2. CASE d - 1 <= s
      <4>1. s - (d - 1) + 1 \in 1 .. s
        BY <3>1, <3>2, <1>1
      <4> QED
        BY <3>1, <3>2, <4>1, <1>4, <1>5, <2>2 DEF Follows
    <3>3. CASE ~(d - 1 <= s)
      BY <3>1, <3>3, <1>4 DEF Follows
    <3> QED
      BY <3>2, <3>3
  <2> QED
    BY <1>1, <2>1, <2>2, <2>3, <2>4, <2>5
<1>13. CASE c = "-pop"
  <2>1. c \notin Defaults
    BY <1>13 DEF DefaultsAssumption
  <2>2. ForceOf(InForceAfter, n + 1)' =
          IF Opening(n, 1) = {} THEN <<>> ELSE InForceAfter'[Latest(Opening(n, 1)) - 1]
    <3>1. Latest(Opening(n + 1 - 1, 1))' = Latest(Opening(n, 1))
      BY <1>6 DEF Latest
    <3>2. n + 1 # 0
      BY <1>1
    <3> QED
      BY <3>1, <3>2, <1>3, <1>6, <1>13 DEF ForceOf
  <2>3. CASE saved = <<>>
    <3>1. s = 0 /\ defaults' = <<>> /\ saved' = saved /\ \A d \in Nat \ {0} : ~(d <= s)
      BY <2>1, <2>3, <1>13
    <3>2. \A d \in Nat \ {0} : Opening(n, d) = {}
      BY <3>1, <1>4
    <3>3. InForceAfter'[n + 1] = <<>>
      BY <3>2, <2>2, <1>2
    <3>4. \A d \in Nat \ {0} : Opening(n + 1, d)' = {}
      BY <3>2, <1>7, <1>13
    <3>5. \A d \in Nat \ {0} : Follows(d)
      BY <3>1, <3>4 DEF Follows
    <3>6. defaults' \in Seq(Defaults)
      BY <3>1
    <3> QED
      BY <3>1, <3>3, <3>5, <3>6, <1>1
  <2>4. CASE saved # <<>>
    <3>1. s \in Nat \ {0} /\ defaults' = saved[s] /\ saved' = SubSeq(saved, 1, s - 1)
      BY <1>1, <2>1, <2>4, <1>13
    <3>2. /\ saved' \in Seq(Seq(Defaults)) /\ Len(saved') = s - 1 /\ saved[s] \in Seq(Defaults)
          /\ \A k \in 1 .. s - 1 : saved'[k] = saved[k]
      BY <1>1, <3>1
    <3>3. Opening(n, 1) # {} /\ saved[s] = InForceAfter[Latest(Opening(n, 1)) - 1]
      <4>1. 1 <= s /\ 1 \in Nat \ {0} /\ s - 1 + 1 = s
        BY <3>1
      <4> QED
        BY <4>1, <1>4
    <3>4. defaults' = InForceAfter'[n + 1]
      BY <1>2, <1>5, <2>2, <3>1, <3>3
    <3>5. ASSUME NEW d \in Nat \ {0} PROVE Follows(d)
      <4>1. /\ d + 1 \in Nat \ {0} /\ Opening(n + 1, d)' = Opening(n, d + 1)
            /\ (d <= Len(saved') <=> d + 1 <= s)
            /\ Len(saved') - d + 1 = s - (d + 1) + 1
        <5>1. Opening(n + 1, d)' = Opening(n, d + 1)
          BY <1>7, <1>13
        <5> QED
          BY <3>1, <3>2, <5>1
      <4>2. CASE d + 1 <= s
        <5>1. s - (d + 1) + 1 \in 1 .. s - 1
          BY <4>2, <3>1
        <5> QED
          BY <4>1, <4>2, <5>1, <1>4, <1>5, <3>2 DEF Follows
      <4>3. CASE ~(d + 1 <= s)
        BY <4>1, <4>3, <1>4 DEF Follows
      <4> QED
        BY <4>2, <4>3
    <3> QED
      BY <3>1, <3>2, <3>4, <3>5
  <2> QED
    BY <2>3, <2>4
<1> QED
  BY <1>11, <1>12, <1>13

LEMMA SessionKept ==
  ASSUME SessionInv, UNCHANGED <<history, saved, defaults>>,
         stage' # "idle" => given' = defaults \o args'
  PROVE  SessionInv'
<1>1. \A n, d : Opening(n, d)' = Opening(n, d)
  BY DEF Opening, Count
<1>2. InForceAfter' = InForceAfter
  BY <1>1 DEF InForceAfter
<1> QED
  BY <1>1, <1>2 DEF SessionInv, Typed, InForce, StackFollows

LEMMA SessionKeeps == SessionInv /\ [Next]_vars => SessionInv'
<1> SUFFICES ASSUME SessionInv, [Next]_vars PROVE SessionInv'
  OBVIOUS
<1>1. CASE \E o \in Defaults : Add(o)
  BY <1>1, CommandKeepsSession, DefaultsAssumption DEF Add, SlangDefaults
<1>2. CASE Clear
  BY <1>2, CommandKeepsSession, DefaultsAssumption DEF Clear, SlangDefaults
<1>3. CASE Push
  BY <1>3, CommandKeepsSession, DefaultsAssumption DEF Push, SlangDefaults
<1>4. CASE Pop
  BY <1>4, CommandKeepsSession, DefaultsAssumption DEF Pop, SlangDefaults
<1>5. CASE \E m \in Expectable : Expect(m)
  BY <1>5, SessionKept DEF Expect, Command, hierVars
<1>6. CASE \E d \in Designs[budget.family], line \in Reads : Read(d, line)
  BY <1>6, SessionKept DEF Read
<1>7. CASE Compile \/ Elaborate \/ Report \/ Return \/ UNCHANGED vars
  <2>1. UNCHANGED <<history, saved, defaults>>
    BY <1>7 DEF Compile, Elaborate, Report, Return, vars, hierVars, sessionVars
  <2>2. stage' = "idle" \/ (stage # "idle" /\ UNCHANGED <<given, args>>)
        \/ UNCHANGED <<stage, given, args>>
    BY <1>7 DEF Compile, Elaborate, HierStep, QueueTop, TopsQueued, SkipDisabled, EnterRealm,
       LeaveRealm, Drained, VisitProgram, VisitBlackbox, VisitDissolved, VisitKept, AtInstance,
       Report, Return, vars, hierVars, sessionVars
  <2> QED
    BY <2>1, <2>2, SessionKept DEF SessionInv
<1> QED
  BY <1>1, <1>2, <1>3, <1>4, <1>5, <1>6, <1>7 DEF Next, Prompt, Commands, ReadStep

\* A read runs under the options the brackets of the slang_defaults commands put in
\* force, followed by its own, whatever was typed and read before.
THEOREM OptionsFollowBrackets == Spec => []OptionsOfRead
<1>1. SessionInv => OptionsOfRead
  BY DEF SessionInv, OptionsOfRead
<1> QED
  BY <1>1, SessionInit, SessionKeeps, PTL DEF Spec

-----------------------------------------------------------------------------
(* Elaboration: the walks down and up the instance tree agree on where a   *)
(* symbol lives, every body of the design is visited in one netlist, and   *)
(* exactly the references that cross a kept boundary are refused.          *)

Tree == IsDesign(design)

LEMMA TreeFacts ==
  ASSUME Tree
  PROVE  /\ Len(design.parent) \in Nat /\ Insts = 1 .. Len(design.parent)
         /\ \A i \in Insts : /\ i \in Nat \ {0}
                             /\ \/ design.parent[i] = Root
                                \/ design.parent[i] \in Insts /\ design.parent[i] < i
                             /\ design.refs[i] \subseteq Insts
                             /\ design.canonical[i] \in Insts
                             /\ design.canonical[i] = i \/ Equal(design, i, design.canonical[i])
<1>1. /\ design.parent \in Seq(Nat)
      /\ \A i \in 1 .. Len(design.parent) :
            /\ design.parent[i] \in 0 .. i - 1
            /\ design.canonical[i] \in 1 .. i
            /\ design.refs[i] \subseteq 1 .. Len(design.parent)
            /\ design.canonical[i] = i \/ Equal(design, i, design.canonical[i])
  BY DEF Tree, IsDesign
<1>2. Len(design.parent) \in Nat /\ Insts = 1 .. Len(design.parent)
  BY <1>1 DEF Insts
<1>3. ASSUME NEW i \in Insts
      PROVE  /\ i \in Nat \ {0}
             /\ \/ design.parent[i] = Root
                \/ design.parent[i] \in Insts /\ design.parent[i] < i
             /\ design.canonical[i] \in Insts
  BY <1>1, <1>2 DEF Root
<1> QED
  BY <1>1, <1>2, <1>3

\* A property of a body that follows from that of the body around it.
LEMMA TreeInduction ==
  ASSUME Tree, NEW S,
         \A i \in Insts : (\A j \in Insts : j < i => j \in S) => i \in S
  PROVE  Insts \subseteq S
<1>1. Insts \subseteq Nat
  BY TreeFacts
<1> QED
  BY ONLY <1>1, \A i \in Insts : (\A j \in Insts : j < i => j \in S) => i \in S, InductionUp

LEMMA TreeRecursion ==
  ASSUME Tree, NEW Base, NEW V,
         NEW B, \A i \in Insts \cap Base : B[i] \in V,
         NEW next, \A i \in Insts \ Base : next[i] \in Insts /\ next[i] < i,
         NEW H, \A i \in Insts \ Base : \A v \in V : H[i][v] \in V
  PROVE  \E f \in [Insts -> V] : Solves(f, Insts, Base, B, next, H)
<1>1. Len(design.parent) \in Nat /\ Insts \subseteq 0 .. Len(design.parent)
  BY TreeFacts
<1> QED
  BY <1>1, RecursionExists

-----------------------------------------------------------------------------
\* The bodies around a body, itself included.
WithinOf(f, i) == {i} \cup (IF design.parent[i] = Root THEN {} ELSE f[design.parent[i]])

LEMMA WithinDefined ==
  ASSUME Tree
  PROVE  Within = [i \in Insts |-> WithinOf(Within, i)]
<1> DEFINE Base == {i \in Insts : design.parent[i] = Root}
           V == SUBSET Insts
           B == [i \in Insts |-> {i}]
           next == [i \in Insts |-> design.parent[i]]
           H == [i \in Insts |-> [v \in V |-> {i} \cup v]]
<1>1. \A i \in Insts \cap Base : B[i] \in V
  OBVIOUS
<1>2. \A i \in Insts \ Base : next[i] \in Insts /\ next[i] < i
  BY TreeFacts
<1>3. \A i \in Insts \ Base : \A v \in V : H[i][v] \in V
  OBVIOUS
<1>4. ASSUME NEW f \in [Insts -> V],
             \A i \in Insts : f[i] = IF i \in Base THEN B[i] ELSE H[i][f[next[i]]]
      PROVE  f = [i \in Insts |-> WithinOf(f, i)]
  <2> SUFFICES ASSUME NEW i \in Insts PROVE f[i] = WithinOf(f, i)
    OBVIOUS
  <2>1. CASE i \in Base
    BY <1>4, <2>1 DEF WithinOf
  <2>2. CASE i \notin Base
    <3>1. f[next[i]] \in V
      BY <1>2, <2>2
    <3> QED
      BY <1>4, <2>2, <3>1 DEF WithinOf
  <2> QED
    BY <2>1, <2>2
<1> HIDE DEF Base, V, B, next, H
<1>5. PICK f \in [Insts -> V] : Solves(f, Insts, Base, B, next, H)
  BY <1>1, <1>2, <1>3, TreeRecursion
<1>6. f = [i \in Insts |-> WithinOf(f, i)]
  BY <1>4, <1>5 DEF Solves
<1> QED
  BY <1>6, Zenon DEF Within, WithinOf

LEMMA WithinStep ==
  ASSUME Tree, NEW i \in Insts
  PROVE  /\ design.parent[i] = Root => Within[i] = {i}
         /\ design.parent[i] # Root => Within[i] = {i} \cup Within[design.parent[i]]
BY WithinDefined DEF WithinOf

LEMMA WithinBounds ==
  ASSUME Tree, NEW b \in Insts
  PROVE  b \in Within[b] /\ \A a \in Within[b] : a \in Insts /\ a <= b
<1> DEFINE Good(i) == i \in Within[i] /\ \A a \in Within[i] : a \in Insts /\ a <= i
           S == {i \in Insts : Good(i)}
<1>1. ASSUME NEW i \in Insts, \A j \in Insts : j < i => j \in S
      PROVE  i \in S
  <2>1. i \in Nat /\ \A j \in Insts : j \in Nat
    BY TreeFacts
  <2>2. CASE design.parent[i] = Root
    BY <2>1, <2>2, WithinStep
  <2>3. CASE design.parent[i] # Root
    <3>1. design.parent[i] \in Insts /\ design.parent[i] < i
      BY <2>3, TreeFacts
    <3>2. design.parent[i] \in S
      BY <1>1, <3>1
    <3>3. \A a \in Within[design.parent[i]] : a \in Insts /\ a <= design.parent[i]
      BY <3>2
    <3>4. Within[i] = {i} \cup Within[design.parent[i]]
      BY <2>3, WithinStep
    <3>5. ASSUME NEW a \in Within[design.parent[i]] PROVE a <= i
      <4>1. a \in Nat /\ design.parent[i] \in Nat /\ a <= design.parent[i]
        BY <2>1, <3>1, <3>3
      <4> QED
        BY <2>1, <3>1, <4>1
    <3> QED
      BY <2>1, <3>3, <3>4, <3>5
  <2> QED
    BY <2>2, <2>3
<1> HIDE DEF S
<1>2. Insts \subseteq S
  BY <1>1, TreeInduction
<1> QED
  BY <1>2 DEF S

\* Instances around one another.
LEMMA WithinAntisymmetric ==
  ASSUME Tree, NEW a \in Insts, NEW b \in Insts, a \in Within[b], b \in Within[a]
  PROVE  a = b
<1>1. a <= b /\ b <= a /\ a \in Nat /\ b \in Nat
  BY WithinBounds, TreeFacts
<1> QED
  BY <1>1

LEMMA WithinTransitive ==
  ASSUME Tree, NEW b \in Insts, NEW a \in Within[b]
  PROVE  Within[a] \subseteq Within[b]
<1> DEFINE S == {i \in Insts : \A c \in Within[i] : Within[c] \subseteq Within[i]}
<1>1. ASSUME NEW i \in Insts, \A j \in Insts : j < i => j \in S
      PROVE  i \in S
  <2>1. CASE design.parent[i] = Root
    BY <2>1, WithinStep
  <2>2. CASE design.parent[i] # Root
    <3>1. design.parent[i] \in S
      BY <1>1, <2>2, TreeFacts
    <3>2. Within[i] = {i} \cup Within[design.parent[i]]
      BY <2>2, WithinStep
    <3> QED
      BY <3>1, <3>2
  <2> QED
    BY <2>1, <2>2
<1> HIDE DEF S
<1>2. Insts \subseteq S
  BY <1>1, TreeInduction
<1> QED
  BY <1>2 DEF S

LEMMA WithinChain ==
  ASSUME Tree, NEW b \in Insts, NEW x \in Within[b], NEW y \in Within[b]
  PROVE  x \in Within[y] \/ y \in Within[x]
<1> DEFINE S == {i \in Insts : \A u, v \in Within[i] : u \in Within[v] \/ v \in Within[u]}
<1>1. ASSUME NEW i \in Insts, \A j \in Insts : j < i => j \in S
      PROVE  i \in S
  <2>1. i \in Within[i]
    BY WithinBounds
  <2>2. CASE design.parent[i] = Root
    BY <2>1, <2>2, WithinStep
  <2>3. CASE design.parent[i] # Root
    <3>1. design.parent[i] \in S
      BY <1>1, <2>3, TreeFacts
    <3>2. Within[i] = {i} \cup Within[design.parent[i]]
      BY <2>3, WithinStep
    <3> QED
      BY <2>1, <3>1, <3>2
  <2> QED
    BY <2>2, <2>3
<1> HIDE DEF S
<1>2. Insts \subseteq S
  BY <1>1, TreeInduction
<1> QED
  BY <1>2 DEF S

\* Every body lies in one tree, below one top instance.
LEMMA TopExists ==
  ASSUME Tree, NEW b \in Insts
  PROVE  \E t \in Within[b] : design.parent[t] = Root
<1> DEFINE S == {i \in Insts : \E t \in Within[i] : design.parent[t] = Root}
<1>1. ASSUME NEW i \in Insts, \A j \in Insts : j < i => j \in S
      PROVE  i \in S
  <2>1. CASE design.parent[i] = Root
    BY <2>1, WithinBounds
  <2>2. CASE design.parent[i] # Root
    <3>1. design.parent[i] \in S
      BY <1>1, <2>2, TreeFacts
    <3>2. Within[i] = {i} \cup Within[design.parent[i]]
      BY <2>2, WithinStep
    <3> QED
      BY <3>1, <3>2
  <2> QED
    BY <2>1, <2>2
<1> HIDE DEF S
<1>2. Insts \subseteq S
  BY <1>1, TreeInduction
<1> QED
  BY <1>2 DEF S

LEMMA TopUnique ==
  ASSUME Tree, NEW b \in Insts, NEW t \in Within[b], NEW u \in Within[b],
         design.parent[t] = Root, design.parent[u] = Root
  PROVE  t = u
<1>1. t \in Insts /\ u \in Insts
  BY WithinBounds
<1>2. Within[t] = {t} /\ Within[u] = {u}
  BY <1>1, WithinStep
<1>3. t \in Within[u] \/ u \in Within[t]
  BY WithinChain
<1> QED
  BY <1>2, <1>3

-----------------------------------------------------------------------------
\* Realms: the bodies find_symbol_realm stops at.
IsRealm(r) == r \in Insts /\ (design.parent[r] = Root \/ ~ShouldDissolve(r))

RealmOf(f, i) ==
    IF design.parent[i] = Root \/ ~ShouldDissolve(i) THEN i ELSE f[design.parent[i]]

LEMMA SymbolRealmDefined ==
  ASSUME Tree
  PROVE  SymbolRealm = [i \in Insts |-> RealmOf(SymbolRealm, i)]
<1> DEFINE Base == {i \in Insts : IsRealm(i)}
           B == [i \in Insts |-> i]
           next == [i \in Insts |-> design.parent[i]]
           H == [i \in Insts |-> [v \in Insts |-> v]]
<1>1. \A i \in Insts \cap Base : B[i] \in Insts
  OBVIOUS
<1>2. \A i \in Insts \ Base : next[i] \in Insts /\ next[i] < i
  BY TreeFacts DEF IsRealm
<1>3. \A i \in Insts \ Base : \A v \in Insts : H[i][v] \in Insts
  OBVIOUS
<1>4. ASSUME NEW f \in [Insts -> Insts],
             \A i \in Insts : f[i] = IF i \in Base THEN B[i] ELSE H[i][f[next[i]]]
      PROVE  f = [i \in Insts |-> RealmOf(f, i)]
  <2> SUFFICES ASSUME NEW i \in Insts PROVE f[i] = RealmOf(f, i)
    OBVIOUS
  <2>1. CASE i \in Base
    BY <1>4, <2>1 DEF RealmOf, IsRealm
  <2>2. CASE i \notin Base
    <3>1. f[next[i]] \in Insts
      BY <1>2, <2>2
    <3> QED
      BY <1>4, <2>2, <3>1 DEF RealmOf, IsRealm
  <2> QED
    BY <2>1, <2>2
<1> HIDE DEF Base, B, next, H
<1>5. PICK f \in [Insts -> Insts] : Solves(f, Insts, Base, B, next, H)
  BY <1>1, <1>2, <1>3, TreeRecursion
<1>6. f = [i \in Insts |-> RealmOf(f, i)]
  BY <1>4, <1>5 DEF Solves
<1> QED
  BY <1>6, Zenon DEF SymbolRealm, RealmOf

\* What a walk down from r that enters dissolved instances gets to.
Open(b, r) == r \in Within[b] /\ \A a \in Within[b] \ Within[r] : ShouldDissolve(a)

\* The realm of a symbol is around it, with only dissolved instances in between.
LEMMA RealmFound ==
  ASSUME Tree, NEW b \in Insts
  PROVE  IsRealm(SymbolRealm[b]) /\ Open(b, SymbolRealm[b])
<1> DEFINE S == {i \in Insts : IsRealm(SymbolRealm[i]) /\ Open(i, SymbolRealm[i])}
<1>1. ASSUME NEW i \in Insts, \A j \in Insts : j < i => j \in S
      PROVE  i \in S
  <2>1. SymbolRealm[i] = RealmOf(SymbolRealm, i)
    BY SymbolRealmDefined
  <2>2. CASE IsRealm(i)
    <3>1. SymbolRealm[i] = i
      BY <2>1, <2>2 DEF RealmOf, IsRealm
    <3> QED
      BY <2>2, <3>1, WithinBounds DEF Open
  <2>3. CASE ~IsRealm(i)
    <3>1. /\ design.parent[i] # Root /\ ShouldDissolve(i)
          /\ SymbolRealm[i] = SymbolRealm[design.parent[i]]
      BY <2>1, <2>3 DEF RealmOf, IsRealm
    <3>2. design.parent[i] \in S
      BY <1>1, <3>1, TreeFacts
    <3>3. Within[i] = {i} \cup Within[design.parent[i]]
      BY <3>1, WithinStep
    <3> QED
      BY <3>1, <3>2, <3>3 DEF Open
  <2> QED
    BY <2>2, <2>3
<1> HIDE DEF S
<1>2. Insts \subseteq S
  BY <1>1, TreeInduction
<1> QED
  BY <1>2 DEF S

\* A realm around a body is around its realm: no other realm lies in between.
LEMMA RealmsAround ==
  ASSUME Tree, NEW b \in Insts, NEW r, IsRealm(r), Open(b, r),
         NEW q \in Within[b], IsRealm(q)
  PROVE  q \in Within[r]
<1>1. r \in Within[b] /\ r \in Insts /\ q \in Insts
  BY DEF Open, IsRealm
<1>2. CASE q \in Within[r]
  BY <1>2
<1>3. CASE q \notin Within[r]
  <2>1. ShouldDissolve(q)
    BY <1>3 DEF Open
  <2>2. Within[q] = {q}
    BY <1>1, <2>1, WithinStep DEF IsRealm
  <2>3. r \in Within[q]
    BY <1>1, <1>3, WithinChain
  <2> QED
    BY <1>1, <2>2, <2>3, WithinBounds
<1> QED
  BY <1>2, <1>3

LEMMA RealmUnique ==
  ASSUME Tree, NEW b \in Insts, NEW r, IsRealm(r), Open(b, r)
  PROVE  SymbolRealm[b] = r
<1> DEFINE s == SymbolRealm[b]
<1>1. IsRealm(s) /\ Open(b, s)
  BY RealmFound
<1> HIDE DEF s
<1>2. s \in Within[r] /\ r \in Within[s]
  BY <1>1, RealmsAround DEF Open
<1>3. s \in Insts /\ r \in Insts
  BY <1>1 DEF IsRealm
<1> QED
  BY <1>2, <1>3, WithinAntisymmetric DEF s

\* The walk down: what it reaches is what the walk up comes from.
ReachedOf(f, i) ==
    {i} \cup UNION {f[c] : c \in {d \in Inside(i) : ShouldDissolve(d)}}
OpenIn(r) == {b \in Insts : Open(b, r)}

LEMMA InsideFacts ==
  ASSUME Tree, NEW i \in Insts, NEW c \in Inside(i)
  PROVE  /\ c \in Insts /\ i < c /\ design.parent[c] = i /\ i # Root
         /\ Within[c] = {c} \cup Within[i] /\ c \notin Within[i]
<1>1. c \in Insts /\ design.parent[c] = i
  BY DEF Inside
<1>2. i # Root /\ i < c /\ c \in Nat /\ i \in Nat
  BY <1>1, TreeFacts DEF Root
<1>3. Within[c] = {c} \cup Within[i]
  BY <1>1, <1>2, WithinStep
<1>4. c \notin Within[i]
  <2>1. ~(c <= i)
    BY <1>2
  <2> QED
    BY <2>1, WithinBounds
<1> QED
  BY <1>1, <1>2, <1>3, <1>4

\* The first step of the way down from r to b.
LEMMA ChildToward ==
  ASSUME Tree, NEW b \in Insts, NEW r \in Within[b], r # b
  PROVE  \E c \in Inside(r) : c \in Within[b]
<1> DEFINE S == {i \in Insts : r \in Within[i] /\ r # i => \E c \in Inside(r) : c \in Within[i]}
<1>1. ASSUME NEW i \in Insts, \A j \in Insts : j < i => j \in S
      PROVE  i \in S
  <2>1. CASE design.parent[i] = Root
    BY <2>1, WithinStep
  <2>2. CASE design.parent[i] # Root
    <3>1. design.parent[i] \in S
      BY <1>1, <2>2, TreeFacts
    <3>2. Within[i] = {i} \cup Within[design.parent[i]]
      BY <2>2, WithinStep
    <3>3. CASE r = design.parent[i]
      BY <3>2, <3>3 DEF Inside
    <3>4. CASE r # design.parent[i]
      BY <3>1, <3>2, <3>4
    <3> QED
      BY <3>3, <3>4
  <2> QED
    BY <2>1, <2>2
<1> HIDE DEF S
<1>2. Insts \subseteq S
  BY <1>1, TreeInduction
<1> QED
  BY <1>2 DEF S

LEMMA OpenSolves ==
  ASSUME Tree, NEW i \in Insts
  PROVE  OpenIn(i) = ReachedOf([r \in Insts |-> OpenIn(r)], i)
<1> DEFINE below == {d \in Inside(i) : ShouldDissolve(d)}
<1>0. below \subseteq Insts
  BY DEF Inside
<1>1. ASSUME NEW b \in OpenIn(i), b # i PROVE \E c \in below : b \in OpenIn(c)
  <2>1. b \in Insts /\ i \in Within[b] /\ \A a \in Within[b] \ Within[i] : ShouldDissolve(a)
    BY <1>1 DEF OpenIn, Open
  <2>2. PICK c \in Inside(i) : c \in Within[b]
    BY <1>1, <2>1, ChildToward
  <2>3. Within[c] = {c} \cup Within[i] /\ c \notin Within[i]
    BY InsideFacts
  <2> QED
    BY <2>1, <2>2, <2>3 DEF OpenIn, Open
<1>2. ASSUME NEW c \in below, NEW b \in OpenIn(c) PROVE b \in OpenIn(i)
  <2>1. b \in Insts /\ c \in Within[b] /\ \A a \in Within[b] \ Within[c] : ShouldDissolve(a)
    BY DEF OpenIn, Open
  <2>2. Within[c] = {c} \cup Within[i] /\ c \notin Within[i] /\ i \in Within[i]
    BY InsideFacts, WithinBounds
  <2>3. Within[c] \subseteq Within[b]
    BY <2>1, WithinTransitive
  <2> QED
    BY <2>1, <2>2, <2>3 DEF OpenIn, Open
<1>3. i \in OpenIn(i)
  BY WithinBounds DEF OpenIn, Open
<1> HIDE DEF below
<1>4. ASSUME NEW b PROVE b \in OpenIn(i) <=> b = i \/ \E c \in below : b \in OpenIn(c)
  BY <1>1, <1>2, <1>3
<1>5. ReachedOf([r \in Insts |-> OpenIn(r)], i) = {i} \cup UNION {OpenIn(c) : c \in below}
  BY <1>0 DEF ReachedOf, below
<1> HIDE DEF OpenIn
<1> QED
  BY <1>4, <1>5

LEMMA ReachedIsOpen ==
  ASSUME Tree, NEW r \in Insts
  PROVE  Reached[r] = OpenIn(r)
<1> DEFINE open == [i \in Insts |-> OpenIn(i)]
<1>1. open = [i \in Insts |-> ReachedOf(open, i)]
  BY OpenSolves
<1>2. Reached = [i \in Insts |-> ReachedOf(Reached, i)]
  <2> HIDE DEF open
  <2> QED
    BY <1>1, Zenon DEF Reached, ReachedOf
<1> DEFINE S == {i \in Insts : Reached[i] = OpenIn(i)}
<1>3. ASSUME NEW i \in Insts, \A j \in Insts : i < j => j \in S
      PROVE  i \in S
  <2> DEFINE below == {d \in Inside(i) : ShouldDissolve(d)}
  <2>1. \A c \in below : c \in Insts /\ i < c
    BY InsideFacts
  <2>2. \A c \in below : Reached[c] = open[c]
    BY <1>3, <2>1
  <2>3. UNION {Reached[c] : c \in below} = UNION {open[c] : c \in below}
    <3> HIDE DEF below, open
    <3> QED
      BY <2>2
  <2>4. Reached[i] = {i} \cup UNION {Reached[c] : c \in below}
    BY <1>2 DEF ReachedOf
  <2>5. OpenIn(i) = {i} \cup UNION {open[c] : c \in below}
    BY OpenSolves DEF ReachedOf
  <2> HIDE DEF below, open
  <2> QED
    BY <2>3, <2>4, <2>5
<1>4. Len(design.parent) \in Nat /\ Insts \subseteq 0 .. Len(design.parent)
  BY TreeFacts
<1> HIDE DEF S
<1>5. Insts \subseteq S
  BY <1>3, <1>4, InductionDown
<1> QED
  BY <1>5 DEF S

LEMMA ReachedFacts ==
  ASSUME Tree, NEW r \in Insts, NEW b
  PROVE  /\ b \in Reached[r] <=> b \in Insts /\ Open(b, r)
         /\ r \in Reached[r]
         /\ b \in Reached[r] => \A c \in Inside(b) : ShouldDissolve(c) => c \in Reached[r]
<1>1. b \in Reached[r] <=> b \in Insts /\ Open(b, r)
  BY ReachedIsOpen DEF OpenIn
<1>2. r \in Reached[r]
  BY ReachedIsOpen, WithinBounds DEF OpenIn, Open
<1>3. ASSUME b \in Reached[r], NEW c \in Inside(b), ShouldDissolve(c) PROVE c \in Reached[r]
  <2>1. b \in Insts /\ Open(b, r)
    BY <1>1, <1>3
  <2>2. Within[c] = {c} \cup Within[b] /\ c \in Insts
    BY <2>1, InsideFacts
  <2> QED
    BY <1>3, <2>1, <2>2, ReachedIsOpen DEF OpenIn, Open
<1> QED
  BY <1>1, <1>2, <1>3

\* find_symbol_realm and add_internal_wires agree.
LEMMA WalksAgree ==
  ASSUME Tree, NEW r, IsRealm(r), NEW b \in Insts
  PROVE  SymbolRealm[b] = r <=> b \in Reached[r]
<1>1. r \in Insts
  BY DEF IsRealm
<1>2. b \in Reached[r] <=> Open(b, r)
  BY <1>1, ReachedFacts
<1> QED
  BY <1>2, RealmFound, RealmUnique

-----------------------------------------------------------------------------
\* Interface ports.
LEMMA LinkFacts ==
  ASSUME Tree, NEW i \in Insts, design.link[i] # "none"
  PROVE  /\ design.parent[i] # Root /\ design.parent[i] \in Insts
         /\ design.parent[i] < i /\ design.kind[i] = "module"
         /\ design.bus[i] \in Insts
<1>1. Insts = 1 .. Len(design.parent)
  BY TreeFacts
<1>2. /\ design.parent[i] # Root /\ design.kind[i] = "module"
      /\ design.bus[i] \in 1 .. Len(design.parent)
  BY <1>1 DEF Tree, IsDesign
<1> QED
  BY <1>1, <1>2, TreeFacts

\* What a body names is a symbol of an instance.
LEMMA NamesFacts ==
  ASSUME Tree, NEW b \in Insts, NEW x \in Names(b)
  PROVE  /\ x[2] \in Insts
         /\ \/ x[1] = "variable" /\ x = Var(x[2])
            \/ /\ x[1] = "modport" /\ x = Modport(x[2])
               /\ design.link[b] = "modport" /\ x[2] = design.bus[b]
<1>1. CASE \E t \in design.refs[b] : x = Var(t)
  BY <1>1, TreeFacts DEF Var
<1>2. CASE design.link[b] = "modport" /\ x = Modport(design.bus[b])
  BY <1>2, LinkFacts DEF Modport
<1>3. CASE design.link[b] = "plain" /\ x = Var(design.bus[b])
  BY <1>3, LinkFacts DEF Var
<1> QED
  BY <1>1, <1>2, <1>3 DEF Names

-----------------------------------------------------------------------------
\* The realms from the top down to a realm.
PathOf(f, r) ==
    IF design.parent[r] = Root THEN <<r>> ELSE Append(f[SymbolRealm[design.parent[r]]], r)

LEMMA OuterRealm ==
  ASSUME Tree, NEW r \in Insts, design.parent[r] # Root
  PROVE  /\ SymbolRealm[design.parent[r]] \in Insts
         /\ SymbolRealm[design.parent[r]] < r
         /\ IsRealm(SymbolRealm[design.parent[r]])
         /\ SymbolRealm[design.parent[r]] \in Within[design.parent[r]]
         /\ Within[r] = {r} \cup Within[design.parent[r]]
<1>1. design.parent[r] \in Insts /\ design.parent[r] < r
  BY TreeFacts
<1>2. /\ IsRealm(SymbolRealm[design.parent[r]])
      /\ SymbolRealm[design.parent[r]] \in Within[design.parent[r]]
  BY <1>1, RealmFound DEF Open
<1>3. SymbolRealm[design.parent[r]] \in Insts /\ SymbolRealm[design.parent[r]] <= design.parent[r]
  BY <1>1, <1>2, WithinBounds
<1>4. SymbolRealm[design.parent[r]] \in Nat /\ design.parent[r] \in Nat /\ r \in Nat
  BY <1>1, <1>3, TreeFacts
<1>5. SymbolRealm[design.parent[r]] < r
  BY <1>1, <1>3, <1>4
<1> QED
  BY <1>2, <1>3, <1>5, WithinStep

LEMMA PathToDefined ==
  ASSUME Tree
  PROVE  PathTo = [r \in Insts |-> PathOf(PathTo, r)]
<1> DEFINE Base == {i \in Insts : design.parent[i] = Root}
           V == Seq(Insts)
           B == [i \in Insts |-> <<i>>]
           next == [i \in Insts |-> SymbolRealm[design.parent[i]]]
           H == [i \in Insts |-> [v \in V |-> Append(v, i)]]
<1>1. \A i \in Insts \cap Base : B[i] \in V
  OBVIOUS
<1>2. \A i \in Insts \ Base : next[i] \in Insts /\ next[i] < i
  BY OuterRealm
<1>3. \A i \in Insts \ Base : \A v \in V : H[i][v] \in V
  OBVIOUS
<1>4. ASSUME NEW f \in [Insts -> V],
             \A i \in Insts : f[i] = IF i \in Base THEN B[i] ELSE H[i][f[next[i]]]
      PROVE  f = [i \in Insts |-> PathOf(f, i)]
  <2> SUFFICES ASSUME NEW i \in Insts PROVE f[i] = PathOf(f, i)
    OBVIOUS
  <2>1. CASE i \in Base
    BY <1>4, <2>1 DEF PathOf
  <2>2. CASE i \notin Base
    <3>1. f[next[i]] \in V
      BY <1>2, <2>2
    <3> QED
      BY <1>4, <2>2, <3>1 DEF PathOf
  <2> QED
    BY <2>1, <2>2
<1> HIDE DEF Base, V, B, next, H
<1>5. PICK f \in [Insts -> V] : Solves(f, Insts, Base, B, next, H)
  BY <1>1, <1>2, <1>3, TreeRecursion
<1>6. f = [i \in Insts |-> PathOf(f, i)]
  BY <1>4, <1>5 DEF Solves
<1> QED
  BY <1>6, Zenon DEF PathTo, PathOf

LEMMA PathFacts ==
  ASSUME Tree, NEW r \in Insts
  PROVE  /\ PathTo[r] \in Seq(Insts) /\ Len(PathTo[r]) \in Nat \ {0}
         /\ PathTo[r][Len(PathTo[r])] = r
         /\ \A k \in 1 .. Len(PathTo[r]) : PathTo[r][k] \in Within[r]
         /\ design.parent[PathTo[r][1]] = Root
         /\ design.parent[r] = Root => Len(PathTo[r]) = 1
<1> DEFINE Good(p, i) ==
              /\ p \in Seq(Insts) /\ Len(p) \in Nat \ {0} /\ p[Len(p)] = i
              /\ \A k \in 1 .. Len(p) : p[k] \in Within[i]
              /\ design.parent[p[1]] = Root
              /\ design.parent[i] = Root => Len(p) = 1
           S == {i \in Insts : Good(PathTo[i], i)}
<1>1. ASSUME NEW i \in Insts, \A j \in Insts : j < i => j \in S
      PROVE  i \in S
  <2>1. PathTo[i] = PathOf(PathTo, i)
    BY PathToDefined
  <2>2. CASE design.parent[i] = Root
    <3>1. PathTo[i] = <<i>>
      BY <2>1, <2>2 DEF PathOf
    <3>2. i \in Within[i]
      BY WithinBounds
    <3> PICK p : p = <<i>>
      OBVIOUS
    <3>3. p \in Seq(Insts) /\ Len(p) = 1 /\ p[1] = i /\ \A k \in 1 .. 1 : k = 1
      OBVIOUS
    <3>4. Good(p, i)
      BY <2>2, <3>2, <3>3
    <3> QED
      BY <3>1, <3>4
  <2>3. CASE design.parent[i] # Root
    <3> DEFINE u == SymbolRealm[design.parent[i]]
    <3>1. u \in Insts /\ u < i /\ Within[u] \subseteq Within[i] /\ i \in Within[i]
      <4>1. u \in Insts /\ u < i /\ u \in Within[i]
        BY <2>3, OuterRealm
      <4> QED
        BY <4>1, WithinTransitive, WithinBounds
    <3>2. u \in S
      BY <1>1, <3>1
    <3>3. Good(PathTo[u], u)
      BY <3>2
    <3>4. PathTo[i] = Append(PathTo[u], i)
      BY <2>1, <2>3 DEF PathOf
    <3> HIDE DEF u
    <3> PICK p : p = PathTo[u]
      OBVIOUS
    <3>5. /\ p \in Seq(Insts) /\ Len(p) \in Nat \ {0}
          /\ \A k \in 1 .. Len(p) : p[k] \in Within[i]
          /\ design.parent[p[1]] = Root
      BY <3>1, <3>3
    <3>6. /\ Append(p, i) \in Seq(Insts) /\ Len(Append(p, i)) = Len(p) + 1
          /\ Append(p, i)[Len(p) + 1] = i
          /\ \A k \in 1 .. Len(p) : Append(p, i)[k] = p[k]
          /\ Append(p, i)[1] = p[1]
      BY <3>5
    <3>7. \A k \in 1 .. Len(p) + 1 : k \in 1 .. Len(p) \/ k = Len(p) + 1
      BY <3>5
    <3>8. PathTo[i] = Append(p, i)
      BY <3>4
    <3> PICK q : q = Append(p, i)
      OBVIOUS
    <3>9. Good(q, i)
      BY <2>3, <3>1, <3>5, <3>6, <3>7
    <3> QED
      BY <3>8, <3>9
  <2> QED
    BY <2>2, <2>3
<1> HIDE DEF S
<1>2. Insts \subseteq S
  BY <1>1, TreeInduction
<1> QED
  BY <1>2 DEF S

\* The path to a realm begins with the path to each realm around it.
Prefix(p, q) == Len(p) <= Len(q) /\ \A k \in 1 .. Len(p) : p[k] = q[k]

LEMMA PathPrefix ==
  ASSUME Tree, NEW r \in Insts, NEW q \in Within[r], IsRealm(q)
  PROVE  Prefix(PathTo[q], PathTo[r])
<1> DEFINE S == {i \in Insts : q \in Within[i] => Prefix(PathTo[q], PathTo[i])}
<1>1. ASSUME NEW i \in Insts, \A j \in Insts : j < i => j \in S
      PROVE  i \in S
  <2> SUFFICES ASSUME q \in Within[i] PROVE Prefix(PathTo[q], PathTo[i])
    OBVIOUS
  <2>1. CASE q = i
    <3>1. Len(PathTo[i]) \in Nat
      BY PathFacts
    <3> QED
      BY <2>1, <3>1 DEF Prefix
  <2>2. CASE q # i
    <3> DEFINE u == SymbolRealm[design.parent[i]]
    <3>1. design.parent[i] # Root
      BY <2>2, WithinStep
    <3>2. design.parent[i] \in Insts /\ u \in Insts /\ u < i /\ q \in Within[design.parent[i]]
      BY <2>2, <3>1, OuterRealm, TreeFacts
    <3>3. q \in Within[u]
      BY <3>2, RealmFound, RealmsAround
    <3>4. Prefix(PathTo[q], PathTo[u])
      BY <1>1, <3>2, <3>3
    <3>5. PathTo[i] = Append(PathTo[u], i)
      BY <3>1, PathToDefined DEF PathOf
    <3>6. q \in Insts
      BY DEF IsRealm
    <3>7. /\ PathTo[u] \in Seq(Insts) /\ Len(PathTo[u]) \in Nat /\ Len(PathTo[q]) \in Nat
      BY <3>2, <3>6, PathFacts
    <3> HIDE DEF u
    <3>8. /\ Len(PathTo[i]) = Len(PathTo[u]) + 1
          /\ \A k \in 1 .. Len(PathTo[u]) : PathTo[i][k] = PathTo[u][k]
      BY <3>5, <3>7
    <3> QED
      BY <3>4, <3>7, <3>8 DEF Prefix
  <2> QED
    BY <2>1, <2>2
<1> HIDE DEF S
<1>2. Insts \subseteq S
  BY <1>1, TreeInduction
<1> QED
  BY <1>2 DEF S

LEMMA CommonFacts ==
  ASSUME Tree, NEW s \in Insts, NEW r \in Insts
  PROVE  /\ CommonLength(s, r) \in 0 .. Len(PathTo[s]) /\ CommonLength(s, r) <= Len(PathTo[r])
         /\ \A j \in 1 .. CommonLength(s, r) : PathTo[s][j] = PathTo[r][j]
         /\ \A k \in 0 .. Len(PathTo[s]) :
               k <= Len(PathTo[r]) /\ (\A j \in 1 .. k : PathTo[s][j] = PathTo[r][j])
               => k <= CommonLength(s, r)
<1> DEFINE agree == {k \in 0 .. Len(PathTo[s]) :
                        /\ k <= Len(PathTo[r])
                        /\ \A j \in 1 .. k : PathTo[s][j] = PathTo[r][j]}
<1>1. Len(PathTo[s]) \in Nat /\ Len(PathTo[r]) \in Nat
  BY PathFacts
<1>2. 0 \in agree
  BY <1>1
<1>3. agree \subseteq 0 .. Len(PathTo[s])
  OBVIOUS
<1>4. CommonLength(s, r) = CHOOSE k \in agree : \A j \in agree : j <= k
  BY DEF CommonLength
<1>5. CommonLength(s, r) \in agree /\ \A j \in agree : j <= CommonLength(s, r)
  <2> HIDE DEF agree
  <2>1. \E k \in agree : \A j \in agree : j <= k
    BY <1>1, <1>2, <1>3, GreatestExists
  <2> QED
    BY <1>4, <2>1
<1> QED
  BY <1>5

\* Two realms of one tree have their top in common, and no two others do.
LEMMA CommonMeansSameTop ==
  ASSUME Tree, NEW b \in Insts, NEW t \in Insts
  PROVE  CommonLength(SymbolRealm[t], SymbolRealm[b]) = 0 <=> Within[b] \cap Within[t] = {}
<1> DEFINE s == SymbolRealm[t]
           r == SymbolRealm[b]
<1>1. /\ s \in Insts /\ s \in Within[t] /\ r \in Insts /\ r \in Within[b]
  BY RealmFound DEF IsRealm, Open
<1>2. Within[s] \subseteq Within[t] /\ Within[r] \subseteq Within[b]
  BY <1>1, WithinTransitive
<1> HIDE DEF s, r
<1>3. /\ Len(PathTo[s]) \in Nat \ {0} /\ Len(PathTo[r]) \in Nat \ {0}
      /\ PathTo[s][1] \in Within[t] /\ PathTo[r][1] \in Within[b]
      /\ design.parent[PathTo[s][1]] = Root /\ design.parent[PathTo[r][1]] = Root
  <2>1. Len(PathTo[s]) \in Nat \ {0} /\ Len(PathTo[r]) \in Nat \ {0}
    BY <1>1, PathFacts
  <2>2. 1 \in 1 .. Len(PathTo[s]) /\ 1 \in 1 .. Len(PathTo[r])
    BY <2>1
  <2> QED
    BY <1>1, <1>2, <2>1, <2>2, PathFacts
<1>4. ASSUME CommonLength(s, r) = 0, NEW a \in Within[b] \cap Within[t] PROVE FALSE
  <2>1. PICK u \in Within[a] : design.parent[u] = Root
    BY WithinBounds, TopExists
  <2>2. u \in Within[b] /\ u \in Within[t]
    BY <2>1, WithinTransitive
  <2>3. PathTo[s][1] = u /\ PathTo[r][1] = u
    BY <1>3, <2>1, <2>2, TopUnique
  <2>4. 1 \in 0 .. Len(PathTo[s]) /\ 1 <= Len(PathTo[r])
        /\ \A j \in 1 .. 1 : PathTo[s][j] = PathTo[r][j]
    <3>1. \A j \in 1 .. 1 : j = 1
      OBVIOUS
    <3> QED
      BY <1>3, <2>3, <3>1
  <2>5. 1 <= CommonLength(s, r)
    BY <1>1, <2>4, CommonFacts
  <2> QED
    BY <1>4, <2>5
<1>5. ASSUME CommonLength(s, r) # 0, Within[b] \cap Within[t] = {} PROVE FALSE
  <2>1. CommonLength(s, r) \in 0 .. Len(PathTo[s])
        /\ \A j \in 1 .. CommonLength(s, r) : PathTo[s][j] = PathTo[r][j]
    BY <1>1, CommonFacts
  <2>2. 1 \in 1 .. CommonLength(s, r)
    BY <1>3, <1>5, <2>1
  <2> QED
    BY <1>3, <1>5, <2>1, <2>2
<1> QED
  BY <1>4, <1>5 DEF s, r

-----------------------------------------------------------------------------
\* Boundaries between two bodies that are not dissolved.
KeptBetween(b, t) == {i \in Between(b, t) : ~ShouldDissolve(i)}

LEMMA BetweenDifferentRealms ==
  ASSUME Tree, NEW b \in Insts, NEW t \in Insts, KeptBetween(b, t) # {}
  PROVE  SymbolRealm[b] # SymbolRealm[t]
<1> SUFFICES ASSUME NEW r, SymbolRealm[b] = r, SymbolRealm[t] = r PROVE FALSE
  OBVIOUS
<1>1. PICK i \in Between(b, t) : ~ShouldDissolve(i)
  BY DEF KeptBetween
<1>2. Open(b, r) /\ Open(t, r)
  BY RealmFound
<1>3. i \in Within[r]
  BY <1>1, <1>2 DEF Between, Open
<1>4. Within[r] \subseteq Within[b] /\ Within[r] \subseteq Within[t]
  BY <1>2, WithinTransitive DEF Open
<1> QED
  BY <1>1, <1>3, <1>4 DEF Between

\* If the realm of b is around t, so is b's realm around t's.
LEMMA RealmAround ==
  ASSUME Tree, NEW b \in Insts, NEW t \in Insts, SymbolRealm[b] \in Within[t]
  PROVE  SymbolRealm[b] \in Within[SymbolRealm[t]]
BY RealmFound, RealmsAround

LEMMA DifferentRealmsBetween ==
  ASSUME Tree, NEW b \in Insts, NEW t \in Insts, SymbolRealm[b] # SymbolRealm[t],
         Within[b] \cap Within[t] # {}
  PROVE  KeptBetween(b, t) # {}
<1> DEFINE r == SymbolRealm[b]
           s == SymbolRealm[t]
<1>0. IsRealm(r) /\ r \in Within[b] /\ r \in Insts /\ IsRealm(s) /\ s \in Within[t] /\ s \in Insts
  BY RealmFound DEF IsRealm, Open
<1>1. PICK a \in Insts : a \in Within[b] /\ a \in Within[t]
  BY WithinBounds
<1>2. PICK u \in Within[a] : design.parent[u] = Root
  BY TopExists
<1>3. u \in Within[b] /\ u \in Within[t]
  BY <1>1, <1>2, WithinTransitive
<1>4. CASE r \notin Within[t]
  <2>1. design.parent[r] # Root
    BY <1>0, <1>2, <1>3, <1>4, TopUnique
  <2> QED
    BY <1>0, <1>4, <2>1 DEF IsRealm, KeptBetween, Between
<1>5. CASE s \notin Within[b]
  <2>1. design.parent[s] # Root
    BY <1>0, <1>2, <1>3, <1>5, TopUnique
  <2> QED
    BY <1>0, <1>5, <2>1 DEF IsRealm, KeptBetween, Between
<1>6. CASE r \in Within[t] /\ s \in Within[b]
  <2>1. r \in Within[s] /\ s \in Within[r]
    BY <1>6, RealmAround
  <2> QED
    BY <1>0, <2>1, WithinAntisymmetric
<1> QED
  BY <1>4, <1>5, <1>6

\* The module find_common_ancestor blames is a kept one on the way.
LEMMA BlamedBetween ==
  ASSUME Tree, NEW b \in Insts, NEW x, x[2] \in Insts,
         SymbolRealm[x[2]] # SymbolRealm[b],
         CommonLength(SymbolRealm[x[2]], SymbolRealm[b]) # 0
  PROVE  Blamed(x, SymbolRealm[b]) \in KeptBetween(b, x[2])
<1> PICK t \in Insts : t = x[2]
  OBVIOUS
<1> DEFINE s == SymbolRealm[t]
           r == SymbolRealm[b]
<1>1. /\ IsRealm(s) /\ s \in Insts /\ s \in Within[t]
      /\ IsRealm(r) /\ r \in Insts /\ r \in Within[b]
  BY RealmFound DEF IsRealm, Open
<1> DEFINE k == CommonLength(s, r)
<1>2. /\ k \in 1 .. Len(PathTo[s]) /\ k \in 1 .. Len(PathTo[r])
      /\ PathTo[s][k] = PathTo[r][k]
      /\ \A n \in 0 .. Len(PathTo[s]) :
            n <= Len(PathTo[r]) /\ (\A j \in 1 .. n : PathTo[s][j] = PathTo[r][j]) => n <= k
  <2>1. /\ k \in 0 .. Len(PathTo[s]) /\ k <= Len(PathTo[r]) /\ k # 0
        /\ \A j \in 1 .. k : PathTo[s][j] = PathTo[r][j]
        /\ \A n \in 0 .. Len(PathTo[s]) :
              n <= Len(PathTo[r]) /\ (\A j \in 1 .. n : PathTo[s][j] = PathTo[r][j]) => n <= k
    BY <1>1, CommonFacts
  <2>2. Len(PathTo[s]) \in Nat /\ Len(PathTo[r]) \in Nat
    BY <1>1, PathFacts
  <2> HIDE DEF k
  <2>3. k \in 1 .. k /\ k \in 1 .. Len(PathTo[s]) /\ k \in 1 .. Len(PathTo[r])
    BY <2>1, <2>2
  <2> QED
    BY <2>1, <2>3
<1>3. Blamed(x, r) = IF s # PathTo[s][k] THEN s ELSE r
  BY DEF Blamed
<1>4. s # r
  OBVIOUS
<1>5. /\ design.parent[s] = Root => PathTo[s][k] = s
      /\ design.parent[r] = Root => PathTo[r][k] = r
  <2>1. /\ Len(PathTo[s]) \in Nat \ {0} /\ PathTo[s][Len(PathTo[s])] = s
        /\ Len(PathTo[r]) \in Nat \ {0} /\ PathTo[r][Len(PathTo[r])] = r
        /\ design.parent[s] = Root => Len(PathTo[s]) = 1
        /\ design.parent[r] = Root => Len(PathTo[r]) = 1
    BY <1>1, PathFacts
  <2> HIDE DEF k, s, r
  <2>2. /\ Len(PathTo[s]) = 1 => k = Len(PathTo[s])
        /\ Len(PathTo[r]) = 1 => k = Len(PathTo[r])
    BY <1>2, <2>1
  <2> QED
    BY <2>1, <2>2
<1>6. CASE s # PathTo[s][k]
  <2>1. ~ShouldDissolve(s)
    BY <1>1, <1>5, <1>6 DEF IsRealm
  <2>2. s \notin Within[b]
    <3> SUFFICES ASSUME s \in Within[b] PROVE FALSE
      OBVIOUS
    <3>1. s \in Within[r]
      BY RealmAround
    <3>2. Prefix(PathTo[s], PathTo[r])
      BY <1>1, <3>1, PathPrefix
    <3>3. /\ Len(PathTo[s]) \in Nat \ {0} /\ PathTo[s][Len(PathTo[s])] = s
      BY <1>1, PathFacts
    <3>4. Len(PathTo[s]) <= k
      <4>1. Len(PathTo[s]) \in 0 .. Len(PathTo[s])
        BY <3>3
      <4> QED
        BY <1>2, <3>2, <4>1 DEF Prefix
    <3> HIDE DEF k, s, r
    <3>5. k = Len(PathTo[s])
      BY <1>2, <3>3, <3>4
    <3> QED
      BY <1>6, <3>3, <3>5
  <2> QED
    BY <1>1, <1>3, <1>6, <2>1, <2>2 DEF KeptBetween, Between
<1>7. CASE s = PathTo[s][k]
  <2>1. ~ShouldDissolve(r)
    BY <1>1, <1>2, <1>4, <1>5, <1>7 DEF IsRealm
  <2>2. r \notin Within[t]
    <3> SUFFICES ASSUME r \in Within[t] PROVE FALSE
      OBVIOUS
    <3>1. r \in Within[s]
      BY RealmAround
    <3>2. s \in Within[r]
      <4>1. PathTo[r][k] \in Within[r]
        BY <1>1, <1>2, PathFacts
      <4> QED
        BY <1>2, <1>7, <4>1
    <3> QED
      BY <1>1, <1>4, <3>1, <3>2, WithinAntisymmetric
  <2> QED
    BY <1>1, <1>3, <1>7, <2>1, <2>2 DEF KeptBetween, Between
<1> QED
  BY <1>6, <1>7

-----------------------------------------------------------------------------
\* Elaboration.  The invariant relates the worklist, the visits and the wires to
\* the tree; it has a part for all stages and one for a read under elaboration.
Running == stage \in {"tops", "drain", "walk", "drained"}

HierTypes ==
    /\ Tree
    /\ stage \in Stages
    /\ disabled \subseteq Netlists
    /\ at \in 1 .. Len(queue) + 1
    /\ \A i \in DOMAIN wires : wires[i] \subseteq Symbols
    /\ \A i \in DOMAIN wires : wires[i] # {} => i \in Netlists
    /\ \A i \in DOMAIN remap : \A m \in remap[i] : Modport(m) \in wires[i]
    /\ stage \in {"idle", "parsed"} => wires = <<>> /\ remap = <<>> /\ disabled = {}
    /\ Running => DOMAIN wires = Insts /\ DOMAIN remap = Insts

\* a netlist's ports: the modport of its own instance, unless slang shares the body
RealmOK(q) ==
    /\ IsRealm(q)
    /\ design.link[q] = "plain" => q \in disabled
    /\ design.link[q] = "modport" => design.bus[q] \in remap[q] \/ SharedBus

Wired(r) == \A b \in Reached[r] : Var(b) \in wires[r]

VisitOK(v) ==
    /\ v[2] \in Netlists
    /\ v[1] \in Reached[v[2]] /\ LiveIn(v[1], v[2])
    /\ Wired(v[2])
    /\ ~NoCommonAncestor(v[1], v[2])

\* what has become of an instance in a body that was visited
Handled(c, r) ==
    \/ design.kind[c] = "program"
    \/ IsBlackbox(c)
    \/ ShouldDissolve(c) /\ <<c, r>> \in visited
    \/ ~ShouldDissolve(c) /\ InstanceBody(c) \in Netlists

RealmsOK == \A q \in Netlists : RealmOK(q)
VisitsOK == visited \subseteq Insts \X Insts /\ \A v \in visited : VisitOK(v)
Closed == \A v \in visited : \A c \in Inside(v[1]) : c \in agenda \/ Handled(c, v[2])
Entered == \A k \in 1 .. at - 1 : queue[k] \in disabled \/ <<queue[k], queue[k]>> \in visited

Walking ==
    IF stage = "walk"
    THEN /\ at <= Len(queue) /\ Realm \notin disabled
         /\ <<Realm, Realm>> \in visited
         /\ \A i \in agenda : <<design.parent[i], Realm>> \in visited
    ELSE agenda = {} /\ diags = {}

TopsOK ==
    /\ stage # "tops" => tops = {}
    /\ tops \cap Netlists = {}
    /\ \A t \in Inside(Root) : t \in tops \/ design.kind[t] = "program" \/ t \in Netlists

LiveOK == ~Sharing => \A q \in Netlists : Live(q)

Crossings(S) == {d \in S : d.kind = "ReferenceAcrossKeptHierBoundary"}
CrossingsOK ==
    Crossings(issued \cup diags) = UNION {Crossing(v[1], v[2]) : v \in visited}

RunningInv ==
    /\ RealmsOK /\ VisitsOK /\ Closed /\ Entered
    /\ Walking /\ TopsOK /\ LiveOK /\ CrossingsOK
    /\ stage = "drained" => at > Len(queue)

HierInv ==
    /\ HierTypes
    /\ Running => RunningInv
    /\ AbortsExplained

\* The tree does not change while it is elaborated.
LEMMA TreeKept ==
  ASSUME UNCHANGED <<design, options>>
  PROVE  /\ Insts' = Insts /\ Within' = Within /\ Reached' = Reached
         /\ SymbolRealm' = SymbolRealm /\ PathTo' = PathTo
         /\ Sharing' <=> Sharing
         /\ SharedBus' <=> SharedBus
         /\ Tree' <=> Tree
         /\ Symbols' = Symbols
<1>1. Insts' = Insts /\ Symbols' = Symbols
  BY DEF Insts, Symbols
<1>2. \A i : (ShouldDissolve(i)' <=> ShouldDissolve(i)) /\ Inside(i)' = Inside(i)
  BY <1>1 DEF ShouldDissolve, IsBlackbox, Mode, Inside
<1>3. Within' = Within
  BY <1>1 DEF Within
<1>4. SymbolRealm' = SymbolRealm
  BY <1>1, <1>2 DEF SymbolRealm
<1>5. PathTo' = PathTo
  BY <1>1, <1>4 DEF PathTo
<1>6. Reached' = Reached
  BY DEF Reached, Insts, Inside, ShouldDissolve, IsBlackbox, Mode
<1>7. (Sharing' <=> Sharing) /\ (SharedBus' <=> SharedBus) /\ (Tree' <=> Tree)
  BY <1>1 DEF Sharing, SharedBus, Tree
<1> QED
  BY <1>1, <1>3, <1>4, <1>5, <1>6, <1>7

LEMMA InstancesKept ==
  ASSUME UNCHANGED <<design, options>>, NEW i
  PROVE  /\ ShouldDissolve(i)' <=> ShouldDissolve(i)
         /\ IsBlackbox(i)' <=> IsBlackbox(i)
         /\ Walkable(i)' <=> Walkable(i)
         /\ IsRealm(i)' <=> IsRealm(i)
         /\ Live(i)' <=> Live(i)
         /\ \A r : LiveIn(i, r)' <=> LiveIn(i, r)
         /\ Inside(i)' = Inside(i) /\ InstanceBody(i)' = InstanceBody(i)
         /\ Names(i)' = Names(i)
<1>1. Insts' = Insts /\ Within' = Within
  BY TreeKept
<1>2. \A a : (ShouldDissolve(a)' <=> ShouldDissolve(a)) /\ (IsBlackbox(a)' <=> IsBlackbox(a))
  BY DEF ShouldDissolve, IsBlackbox, Mode
<1>3. Live(i)' <=> Live(i)
  BY <1>1, <1>2 DEF Live
<1>4. \A r : LiveIn(i, r)' <=> LiveIn(i, r)
  BY <1>1, <1>2 DEF LiveIn
<1>5. /\ Inside(i)' = Inside(i) /\ InstanceBody(i)' = InstanceBody(i)
      /\ Names(i)' = Names(i) /\ (IsRealm(i)' <=> IsRealm(i)) /\ (Walkable(i)' <=> Walkable(i))
  BY <1>1, <1>2 DEF Inside, InstanceBody, Names, IsRealm, Walkable
<1> QED
  BY <1>2, <1>3, <1>4, <1>5

\* What is refused depends on the tree and on the modports of the realm.
LEMMA ReferencesKept ==
  ASSUME UNCHANGED <<design, options>>, NEW b, NEW r, remap'[r] = remap[r]
  PROVE  /\ \A x : (Remapped(x, r)' <=> Remapped(x, r)) /\ (Allowed(x, r)' <=> Allowed(x, r))
         /\ NoCommonAncestor(b, r)' <=> NoCommonAncestor(b, r)
         /\ Crossing(b, r)' = Crossing(b, r)
<1>1. SymbolRealm' = SymbolRealm /\ PathTo' = PathTo /\ Names(b)' = Names(b)
  BY TreeKept, InstancesKept
<1>2. \A x : (Remapped(x, r)' <=> Remapped(x, r)) /\ (Allowed(x, r)' <=> Allowed(x, r))
  BY <1>1 DEF Remapped, Allowed, CheckHierRef
<1>3. \A s : CommonLength(s, r)' = CommonLength(s, r)
  BY <1>1 DEF CommonLength
<1>4. \A x : Blamed(x, r)' = Blamed(x, r)
  BY <1>1, <1>3 DEF Blamed
<1>5. NoCommonAncestor(b, r)' <=> NoCommonAncestor(b, r)
  BY <1>1, <1>2, <1>3 DEF NoCommonAncestor
<1>6. Crossing(b, r)' = Crossing(b, r)
  BY <1>1, <1>2, <1>4 DEF Crossing
<1> QED
  BY <1>2, <1>5, <1>6

\* Every lookup of a body that is visited finds its wire: the only way a visit ends
\* the program is a reference to another top instance.
LEMMA LookupsFound ==
  ASSUME Tree, NEW r, IsRealm(r), NEW b \in Reached[r], NEW W,
         \A c \in Reached[r] : Var(c) \in W,
         \A m \in remap[r] : Modport(m) \in W
  PROVE  LookedUp(b, r) \subseteq W
<1>1. r \in Insts /\ b \in Insts
  BY ReachedFacts DEF IsRealm
<1>2. ASSUME NEW x \in Names(b), Allowed(x, r) PROVE Resolved(x, r) \in W
  <2>1. CASE Remapped(x, r)
    <3>1. x = Modport(x[2]) /\ x[2] \in remap[r]
      BY <1>1, <2>1, NamesFacts DEF Remapped
    <3> QED
      BY <2>1, <3>1 DEF Resolved
  <2>2. CASE ~Remapped(x, r)
    <3>1. SymbolRealm[x[2]] = r /\ x[2] \in Insts
      BY <1>1, <1>2, <2>2, NamesFacts DEF Allowed, CheckHierRef
    <3>2. x[2] \in Reached[r]
      BY <3>1, WalksAgree
    <3> QED
      BY <2>2, <3>2 DEF Resolved
  <2> QED
    BY <2>1, <2>2
<1> QED
  BY <1>2 DEF LookedUp

LEMMA CrossTopFound ==
  ASSUME Tree, NEW r, IsRealm(r), NEW b \in Reached[r], NoCommonAncestor(b, r)
  PROVE  \E x \in Names(b) : Within[b] \cap Within[x[2]] = {}
<1>1. r \in Insts /\ b \in Insts
  BY ReachedFacts DEF IsRealm
<1>2. SymbolRealm[b] = r
  BY <1>1, WalksAgree
<1>3. PICK x \in Names(b) : CommonLength(SymbolRealm[x[2]], r) = 0
  BY DEF NoCommonAncestor
<1>4. x[2] \in Insts
  BY <1>1, NamesFacts
<1> QED
  BY <1>1, <1>2, <1>3, <1>4, CommonMeansSameTop

LEMMA VisitExplained ==
  ASSUME Tree, UNCHANGED <<design, options, remap>>, NEW r, Realm = r, IsRealm(r),
         NEW b \in Reached[r], VisitBody(b),
         \A c \in Reached[r] : Var(c) \in wires'[r],
         \A m \in remap[r] : Modport(m) \in wires'[r]
  PROVE  \/ stage' = "walk" /\ ~NoCommonAncestor(b, r)
         \/ stage' = "aborted" /\ CrossTop'
<1>1. LookedUp(b, r) \subseteq wires'[r]
  BY LookupsFound
<1>2. CASE ~NoCommonAncestor(b, r)
  BY <1>1, <1>2 DEF VisitBody
<1>3. CASE NoCommonAncestor(b, r)
  <2>1. stage' = "aborted" /\ <<b, r>> \in visited'
    BY <1>3 DEF VisitBody
  <2>2. PICK x \in Names(b) : Within[b] \cap Within[x[2]] = {}
    BY <1>3, CrossTopFound
  <2>3. Within' = Within /\ Names(b)' = Names(b)
    BY TreeKept, InstancesKept
  <2>4. CrossTop'
    BY <2>1, <2>2, <2>3 DEF CrossTop
  <2> QED
    BY <2>1, <2>4
<1> QED
  BY <1>2, <1>3

\* What slang shares between equal instances: the shared body is that of a top
\* instance only for the instance itself, and it is treated alike.
LEMMA SharedBody ==
  ASSUME Tree, NEW i \in Insts
  PROVE  /\ InstanceBody(i) \in Insts
         /\ design.parent[i] = Root => InstanceBody(i) = i
         /\ ~Sharing => InstanceBody(i) = i
         /\ ShouldDissolve(InstanceBody(i)) <=> ShouldDissolve(i)
         /\ design.link[InstanceBody(i)] = design.link[i]
         /\ design.parent[i] # Root => design.parent[InstanceBody(i)] # Root
<1>1. /\ design.canonical[i] \in Insts
      /\ design.canonical[i] = i \/ Equal(design, i, design.canonical[i])
  BY TreeFacts
<1> QED
  BY <1>1 DEF InstanceBody, Equal, Sharing, ShouldDissolve, IsBlackbox

LEMMA Appended ==
  ASSUME queue \in Seq(Insts), NEW b \in Insts, GetOrEmplace(b)
  PROVE  /\ Len(queue) \in Nat /\ Len(queue') \in Nat /\ Len(queue) <= Len(queue')
         /\ DOMAIN queue = 1 .. Len(queue)
         /\ \A k \in 1 .. Len(queue) : queue'[k] = queue[k]
         /\ \A q : q \in Netlists' <=> q \in Netlists \/ q = b
<1>1. CASE b \in Netlists
  BY <1>1 DEF GetOrEmplace, Netlists
<1>2. CASE b \notin Netlists
  <2>1. queue' = Append(queue, b)
    BY <1>2 DEF GetOrEmplace
  <2>2. /\ Len(queue) \in Nat /\ DOMAIN queue = 1..Len(queue)
        /\ DOMAIN queue' = 1..(Len(queue) + 1) /\ Len(queue') = Len(queue) + 1
        /\ queue'[Len(queue) + 1] = b
        /\ \A k \in 1..Len(queue) : queue'[k] = queue[k]
    BY <2>1
  <2>3. \A k : k \in 1..(Len(queue) + 1) <=> k \in 1 .. Len(queue) \/ k = Len(queue) + 1
    BY <2>2
  <2>4. \A q : q \in Netlists' <=> q \in Netlists \/ q = b
    BY <2>2, <2>3 DEF Netlists
  <2> QED
    BY <2>2, <2>4
<1> QED
  BY <1>1, <1>2

LEMMA StaticsKept ==
  ASSUME UNCHANGED <<design, options>>
  PROVE  /\ Insts' = Insts /\ Reached' = Reached /\ Symbols' = Symbols /\ (Tree' <=> Tree)
         /\ (Sharing' <=> Sharing) /\ (SharedBus' <=> SharedBus)
         /\ \A i : /\ ShouldDissolve(i)' <=> ShouldDissolve(i)
                   /\ IsBlackbox(i)' <=> IsBlackbox(i)
                   /\ IsRealm(i)' <=> IsRealm(i)
                   /\ Live(i)' <=> Live(i)
                   /\ Inside(i)' = Inside(i) /\ InstanceBody(i)' = InstanceBody(i)
         /\ \A i, r : LiveIn(i, r)' <=> LiveIn(i, r)
BY TreeKept, InstancesKept

\* Elaboration only adds: netlists, visits, disabled netlists, wires; the modports
\* of a netlist are there once it is queued.
Grows ==
    /\ UNCHANGED <<design, options>>
    /\ Netlists \subseteq Netlists' /\ visited \subseteq visited' /\ disabled \subseteq disabled'
    /\ \A q \in Netlists : wires[q] \subseteq wires'[q] /\ remap'[q] = remap[q]

LEMMA GrownKeeps ==
  ASSUME RealmsOK, VisitsOK, Grows
  PROVE  /\ \A q \in Netlists : RealmOK(q)'
         /\ \A v \in visited : VisitOK(v)' /\ Crossing(v[1], v[2])' = Crossing(v[1], v[2])
         /\ \A c, r : Handled(c, r) => Handled(c, r)'
<1>0. UNCHANGED <<design, options>>
  BY DEF Grows
<1>1. ASSUME NEW q \in Netlists PROVE RealmOK(q)'
  <2>1. RealmOK(q)
    BY DEF RealmsOK
  <2>2. (IsRealm(q)' <=> IsRealm(q)) /\ (SharedBus' <=> SharedBus)
    BY <1>0, StaticsKept
  <2> QED
    BY <2>1, <2>2 DEF RealmOK, Grows
<1>2. ASSUME NEW v \in visited
      PROVE  VisitOK(v)' /\ Crossing(v[1], v[2])' = Crossing(v[1], v[2])
  <2>1. VisitOK(v) /\ v[2] \in Netlists
    BY DEF VisitsOK, VisitOK
  <2>2. /\ NoCommonAncestor(v[1], v[2])' <=> NoCommonAncestor(v[1], v[2])
        /\ Crossing(v[1], v[2])' = Crossing(v[1], v[2])
    BY <1>0, <2>1, ReferencesKept DEF Grows
  <2>3. Reached' = Reached /\ (LiveIn(v[1], v[2])' <=> LiveIn(v[1], v[2]))
    BY <1>0, StaticsKept
  <2>4. Wired(v[2])'
    BY <2>1, <2>3 DEF VisitOK, Wired, Grows
  <2>5. v[2] \in Netlists'
    BY <2>1 DEF Grows
  <2> QED
    BY <2>1, <2>2, <2>3, <2>4, <2>5 DEF VisitOK
<1>3. ASSUME NEW c, NEW r, Handled(c, r) PROVE Handled(c, r)'
  <2>1. /\ ShouldDissolve(c)' <=> ShouldDissolve(c)
        /\ IsBlackbox(c)' <=> IsBlackbox(c)
        /\ InstanceBody(c)' = InstanceBody(c)
    BY <1>0, StaticsKept
  <2> QED
    BY <1>0, <1>3, <2>1 DEF Handled, Grows
<1> QED
  BY <1>1, <1>2, <1>3

\* The worklist and the tree as the steps use them.
LEMMA RunningFacts ==
  ASSUME WorklistInv, HierInv, Running
  PROVE  /\ RunningInv /\ HierTypes /\ Tree
         /\ queue \in Seq(Insts) /\ Len(queue) \in Nat /\ DOMAIN queue = 1 .. Len(queue)
         /\ Netlists = {queue[k] : k \in 1 .. Len(queue)} /\ Netlists \subseteq Insts
         /\ at \in 1 .. Len(queue) + 1
         /\ DOMAIN wires = Insts /\ DOMAIN remap = Insts
         /\ RealmsOK /\ VisitsOK
<1>1. queue \in Seq(Insts)
  BY DEF WorklistInv
<1>2. Len(queue) \in Nat /\ DOMAIN queue = 1 .. Len(queue)
  BY <1>1
<1>3. Netlists = {queue[k] : k \in 1 .. Len(queue)} /\ Netlists \subseteq Insts
  BY <1>1, <1>2 DEF Netlists
<1> QED
  BY <1>1, <1>2, <1>3 DEF HierInv, HierTypes, RunningInv

\* Steps that leave the tree, the netlists, the wires and the visits alone.
LEMMA RoundKeepsHier ==
  ASSUME WorklistInv, HierInv, TopsQueued \/ SkipDisabled \/ LeaveRealm \/ Drained
  PROVE  HierInv'
<1>0. /\ Running
      /\ UNCHANGED <<design, options, tops, queue, agenda, wires, remap, disabled, visited>>
  BY DEF TopsQueued, SkipDisabled, LeaveRealm, Drained, Running
<1>1. /\ RunningInv /\ HierTypes /\ Tree
      /\ Len(queue) \in Nat /\ DOMAIN queue = 1 .. Len(queue) /\ at \in 1 .. Len(queue) + 1
      /\ DOMAIN wires = Insts /\ RealmsOK /\ VisitsOK
  BY <1>0, RunningFacts
<1>2. /\ Insts' = Insts /\ Symbols' = Symbols /\ (Tree' <=> Tree) /\ (SharedBus' <=> SharedBus)
      /\ (Sharing' <=> Sharing) /\ \A i : (Live(i)' <=> Live(i)) /\ Inside(i)' = Inside(i)
  BY <1>0, StaticsKept
<1>3. Netlists' = Netlists
  BY <1>0 DEF Netlists
<1>4. /\ RealmsOK' /\ VisitsOK'
      /\ \A v \in visited : Crossing(v[1], v[2])' = Crossing(v[1], v[2])
      /\ \A c, r : Handled(c, r) => Handled(c, r)'
  <2>1. Grows
    BY <1>0, <1>3 DEF Grows
  <2> QED
    BY <1>0, <1>1, <1>2, <1>3, <2>1, GrownKeeps DEF RealmsOK, VisitsOK
<1>5. Closed' /\ LiveOK'
  <2>1. Closed /\ LiveOK
    BY <1>1 DEF RunningInv
  <2> QED
    BY <1>0, <1>2, <1>3, <1>4, <2>1 DEF Closed, LiveOK
<1>6. at' \in 1 .. Len(queue') + 1
  <2>1. at' = at \/ (at' = at + 1 /\ at <= Len(queue))
    <3>1. stage = "walk" => at <= Len(queue)
      BY <1>1 DEF RunningInv, Walking
    <3> QED
      BY <3>1 DEF TopsQueued, SkipDisabled, LeaveRealm, Drained
  <2>2. queue' = queue
    BY <1>0
  <2> QED
    BY <1>1, <2>1, <2>2
<1>7. stage' \in {"drain", "drained", "aborted"}
  BY DEF TopsQueued, SkipDisabled, LeaveRealm, Drained
<1>8. HierTypes'
  BY <1>0, <1>1, <1>2, <1>3, <1>6, <1>7 DEF HierTypes, Stages, Running
<1>9. ASSUME stage' # "aborted" PROVE Entered'
  <2>1. \A k \in 1 .. at - 1 : queue[k] \in disabled \/ <<queue[k], queue[k]>> \in visited
    BY <1>1 DEF RunningInv, Entered
  <2>2. at' # at => Realm \in disabled \/ <<Realm, Realm>> \in visited
    BY <1>1 DEF TopsQueued, SkipDisabled, LeaveRealm, Drained, RunningInv, Walking
  <2>3. at' = at \/ at' = at + 1
    BY DEF TopsQueued, SkipDisabled, LeaveRealm, Drained
  <2>4. \A k \in 1 .. at' - 1 : k \in 1 .. at - 1 \/ (k = at /\ at' # at)
    BY <1>1, <2>3
  <2> QED
    BY <1>0, <2>1, <2>2, <2>4 DEF Entered, Realm
<1>10. ASSUME stage' # "aborted" PROVE Walking' /\ TopsOK' /\ CrossingsOK'
  <2>1. agenda = {} /\ tops = {} /\ (stage # "walk" => diags = {})
    BY <1>1 DEF TopsQueued, SkipDisabled, LeaveRealm, Drained, RunningInv, Walking, TopsOK
  <2>2. diags' = {} /\ issued' = issued \cup diags
    BY <2>1 DEF TopsQueued, SkipDisabled, LeaveRealm, Drained
  <2>3. Walking'
    BY <1>0, <1>7, <1>10, <2>1, <2>2 DEF Walking
  <2>4. TopsOK'
    BY <1>0, <1>1, <1>2, <1>3, <2>1 DEF TopsOK, RunningInv
  <2>5. CrossingsOK
    BY <1>1 DEF RunningInv
  <2>6. UNION {Crossing(v[1], v[2])' : v \in visited} = UNION {Crossing(v[1], v[2]) : v \in visited}
    BY <1>4
  <2>7. CrossingsOK'
    BY <1>0, <2>2, <2>5, <2>6 DEF CrossingsOK, Crossings
  <2> QED
    BY <2>3, <2>4, <2>7
<1>11. stage' = "drained" => at' > Len(queue')
  BY <1>0, <1>7 DEF TopsQueued, SkipDisabled, LeaveRealm, Drained
<1>12. ASSUME stage' = "aborted" PROVE SharedBus'
  <2>1. LeaveRealm /\ stage = "walk" /\ ~(Initialised(Realm) \subseteq wires[Realm])
    BY <1>12 DEF TopsQueued, SkipDisabled, LeaveRealm, Drained
  <2>2. at \in 1 .. Len(queue) /\ <<Realm, Realm>> \in visited
    BY <1>1, <2>1 DEF RunningInv, Walking
  <2>3. Realm \in Netlists
    BY <1>1, <2>2 DEF Realm, Netlists
  <2>4. Wired(Realm) /\ RealmOK(Realm) /\ Realm \in DOMAIN remap
    BY <1>0, <1>1, <2>2, <2>3, RunningFacts DEF VisitsOK, VisitOK, RealmsOK
  <2>5. CASE design.link[Realm] = "modport"
    <3>1. design.bus[Realm] \notin remap[Realm]
      BY <1>1, <2>1, <2>4, <2>5 DEF Initialised, Wired, HierTypes
    <3> QED
      BY <1>2, <2>4, <2>5, <3>1 DEF RealmOK
  <2>6. CASE design.link[Realm] # "modport"
    BY <2>1, <2>4, <2>6 DEF Initialised, Wired
  <2> QED
    BY <2>5, <2>6
<1> QED
  BY <1>4, <1>5, <1>7, <1>8, <1>9, <1>10, <1>11, <1>12
  DEF HierInv, RunningInv, Running, AbortsExplained

LEMMA CompileKeepsHier ==
  ASSUME WorklistInv, HierInv, Compile
  PROVE  HierInv'
<1>1. HierTypes /\ stage = "parsed" /\ design' = design /\ options' = options
  BY DEF HierInv, Compile
<1>2. Insts' = Insts /\ Symbols' = Symbols /\ (Tree' <=> Tree)
  BY <1>1, StaticsKept
<1>3. CASE UNCHANGED <<queue, at, wires, remap, disabled>> /\ stage' \in {"returned", "failed"}
  BY <1>1, <1>2, <1>3 DEF HierTypes, HierInv, Running, Netlists, AbortsExplained, Stages
<1>4. CASE Begin
  <2>1. /\ stage' = "tops" /\ tops' = Inside(Root) /\ queue' = <<>> /\ at' = 1 /\ agenda' = {}
        /\ wires' = [i \in Insts |-> {}] /\ remap' = [i \in Insts |-> {}]
        /\ disabled' = {} /\ diags' = {} /\ issued' = {} /\ visited' = {}
    BY <1>4 DEF Begin
  <2>2. Netlists' = {}
    BY <2>1 DEF Netlists
  <2>3. HierTypes'
    BY <1>1, <1>2, <2>1, <2>2 DEF HierTypes, Stages, Running
  <2>4. RealmsOK' /\ VisitsOK' /\ Closed' /\ LiveOK' /\ CrossingsOK'
    BY <2>1, <2>2 DEF RealmsOK, VisitsOK, Closed, LiveOK, CrossingsOK, Crossings
  <2>5. Entered' /\ Walking'
    BY <2>1 DEF Entered, Walking
  <2>6. TopsOK'
    BY <1>1, <1>2, <2>1, <2>2, StaticsKept DEF TopsOK
  <2> QED
    BY <2>1, <2>3, <2>4, <2>5, <2>6 DEF HierInv, RunningInv, AbortsExplained
<1> QED
  BY <1>3, <1>4 DEF Compile

LEMMA TopKeepsHier ==
  ASSUME WorklistInv, HierInv, NEW i \in tops, QueueTop(i)
  PROVE  HierInv'
<1>0. /\ Running /\ stage = "tops"
      /\ UNCHANGED <<design, options, at, agenda, wires, remap, disabled, diags, visited>>
      /\ tops' = tops \ {i}
  BY DEF QueueTop, Running
<1>1. /\ RunningInv /\ HierTypes /\ Tree
      /\ queue \in Seq(Insts) /\ Len(queue) \in Nat /\ at \in 1 .. Len(queue) + 1
      /\ DOMAIN wires = Insts /\ RealmsOK /\ VisitsOK
  BY <1>0, RunningFacts
<1>2. /\ Insts' = Insts /\ Symbols' = Symbols /\ (Tree' <=> Tree)
      /\ (Sharing' <=> Sharing)
      /\ \A j : (Live(j)' <=> Live(j)) /\ Inside(j)' = Inside(j) /\ (IsRealm(j)' <=> IsRealm(j))
  BY <1>0, StaticsKept
<1>3. i \in Insts /\ design.parent[i] = Root /\ InstanceBody(i) = i /\ i \notin Netlists
  BY <1>1, SharedBody DEF WorklistInv, RunningInv, TopsOK
<1>4. stage' = "tops"
  BY <1>0, <1>3 DEF QueueTop
<1>5. \/ design.kind[i] = "program" /\ queue' = queue
      \/ design.kind[i] # "program" /\ GetOrEmplace(i)
  BY <1>3 DEF QueueTop
<1>6. /\ Len(queue') \in Nat /\ Len(queue) <= Len(queue')
      /\ \A k \in 1 .. Len(queue) : queue'[k] = queue[k]
      /\ \A q : q \in Netlists' <=> q \in Netlists \/ (q = i /\ design.kind[i] # "program")
  <2>1. CASE queue' = queue /\ design.kind[i] = "program"
    BY <1>1, <2>1 DEF Netlists
  <2>2. CASE GetOrEmplace(i) /\ design.kind[i] # "program"
    BY <1>1, <1>3, <2>2, Appended
  <2> QED
    BY <1>5, <2>1, <2>2
<1>7. RealmOK(i)'
  <2>1. IsRealm(i)
    BY <1>3 DEF IsRealm
  <2>2. design.link[i] = "none"
    BY <1>1, <1>3, LinkFacts
  <2> QED
    BY <1>0, <1>2, <2>1, <2>2 DEF RealmOK
<1>8. Live(i) \/ design.kind[i] = "program"
  <2>1. Within[i] = {i}
    BY <1>1, <1>3, WithinStep
  <2> QED
    BY <1>3, <2>1 DEF Live
<1>9. /\ RealmsOK' /\ VisitsOK'
      /\ \A v \in visited : Crossing(v[1], v[2])' = Crossing(v[1], v[2])
      /\ \A c, r : Handled(c, r) => Handled(c, r)'
  <2>1. Grows
    BY <1>0, <1>6 DEF Grows
  <2> QED
    BY <1>0, <1>1, <1>2, <1>6, <1>7, <2>1, GrownKeeps DEF RealmsOK, VisitsOK
<1>10. Closed' /\ LiveOK'
  <2>1. Closed /\ LiveOK
    BY <1>1 DEF RunningInv
  <2>2. Closed'
    BY <1>0, <1>2, <1>9, <2>1 DEF Closed
  <2>3. LiveOK'
    BY <1>0, <1>2, <1>6, <1>8, <2>1 DEF LiveOK
  <2> QED
    BY <2>2, <2>3
<1>11. Entered'
  <2>1. \A k \in 1 .. at - 1 : queue'[k] = queue[k]
    BY <1>1, <1>6
  <2> QED
    BY <1>0, <1>1, <2>1 DEF Entered, RunningInv
<1>12. Walking'
  BY <1>0, <1>1, <1>4 DEF Walking, RunningInv
<1>13. TopsOK'
  BY <1>0, <1>1, <1>2, <1>3, <1>4, <1>6 DEF TopsOK, RunningInv
<1>14. CrossingsOK'
  <2>1. CrossingsOK
    BY <1>1 DEF RunningInv
  <2>2. issued' = issued \/ issued' = issued \cup {Other("ProgramUnsupported", i)}
    BY DEF QueueTop
  <2>3. Crossings(issued' \cup diags') = Crossings(issued \cup diags)
    BY <1>0, <2>2 DEF Crossings, Other
  <2>4. UNION {Crossing(v[1], v[2])' : v \in visited} = UNION {Crossing(v[1], v[2]) : v \in visited}
    BY <1>9
  <2> QED
    BY <1>0, <2>1, <2>3, <2>4 DEF CrossingsOK, Crossings
<1>15. HierTypes'
  <2>1. at' \in 1 .. Len(queue') + 1
    BY <1>0, <1>1, <1>6
  <2> QED
    BY <1>0, <1>1, <1>2, <1>4, <1>6, <2>1 DEF HierTypes, Stages, Running
<1> QED
  BY <1>4, <1>9, <1>10, <1>11, <1>12, <1>13, <1>14, <1>15
  DEF HierInv, RunningInv, AbortsExplained

\* The references refused in one body more.
LEMMA CrossingsOfVisit ==
  ASSUME NEW b, NEW r, visited' = visited \cup {<<b, r>>},
         \A v \in visited : Crossing(v[1], v[2])' = Crossing(v[1], v[2]),
         Crossing(b, r)' = Crossing(b, r)
  PROVE  UNION {Crossing(v[1], v[2])' : v \in visited'}
            = (UNION {Crossing(v[1], v[2]) : v \in visited}) \cup Crossing(b, r)
<1>1. \A v : v \in visited' <=> v \in visited \/ v = <<b, r>>
  OBVIOUS
<1>2. <<b, r>>[1] = b /\ <<b, r>>[2] = r
  OBVIOUS
<1> HIDE DEF Crossing
<1>3. ASSUME NEW d
      PROVE  (\E v \in visited' : d \in Crossing(v[1], v[2])')
                <=> (\E v \in visited : d \in Crossing(v[1], v[2])) \/ d \in Crossing(b, r)
  BY <1>1, <1>2
<1> QED
  BY <1>3

LEMMA EnterKeepsHier ==
  ASSUME WorklistInv, HierInv, EnterRealm
  PROVE  HierInv'
<1> PICK r : r = Realm
  OBVIOUS
<1>0. /\ Running /\ stage = "drain" /\ at <= Len(queue) /\ r \notin disabled
      /\ UNCHANGED <<design, options, tops, queue, at, remap, disabled, issued>>
      /\ agenda' = Inside(r) /\ VisitBody(r)
      /\ wires' = [wires EXCEPT ![r] = @ \cup {Var(b) : b \in Reached[r]}]
  BY DEF EnterRealm, Running
<1>1. /\ RunningInv /\ HierTypes /\ Tree
      /\ queue \in Seq(Insts) /\ Len(queue) \in Nat /\ at \in 1 .. Len(queue) + 1
      /\ DOMAIN wires = Insts /\ RealmsOK /\ VisitsOK /\ DOMAIN remap = Insts
      /\ Netlists = {queue[k] : k \in 1 .. Len(queue)} /\ Netlists \subseteq Insts
  BY <1>0, RunningFacts
<1>2. /\ Insts' = Insts /\ Symbols' = Symbols /\ (Tree' <=> Tree) /\ Reached' = Reached
      /\ (Sharing' <=> Sharing)
      /\ \A j : (Live(j)' <=> Live(j)) /\ Inside(j)' = Inside(j)
      /\ \A j, q : (LiveIn(j, q)' <=> LiveIn(j, q))
  BY <1>0, StaticsKept
<1>3. /\ r \in Netlists /\ r \in Insts /\ RealmOK(r) /\ IsRealm(r) /\ r \in Reached[r]
  <2>1. r \in Netlists
    BY <1>0, <1>1 DEF Realm
  <2> QED
    BY <1>1, <2>1, ReachedFacts DEF RealmsOK, RealmOK
<1>4. Netlists' = Netlists /\ Realm' = r
  BY <1>0 DEF Netlists, Realm
<1>5. /\ \A b \in Reached[r] : Var(b) \in wires'[r]
      /\ \A q \in Insts : wires[q] \subseteq wires'[q]
      /\ \A q \in Insts : q # r => wires'[q] = wires[q]
      /\ DOMAIN wires' = Insts
  BY <1>0, <1>1, <1>3
<1>6. \A m \in remap[r] : Modport(m) \in wires'[r]
  BY <1>1, <1>3, <1>5 DEF HierTypes
<1>7. \/ stage' = "walk" /\ ~NoCommonAncestor(r, r)
      \/ stage' = "aborted" /\ CrossTop'
  BY <1>0, <1>1, <1>3, <1>5, <1>6, VisitExplained
<1>8. HierTypes'
  <2>1. wires'[r] \subseteq Symbols
    <3>1. \A b \in Reached[r] : Var(b) \in Symbols
      BY <1>1, <1>3, ReachedFacts DEF Symbols
    <3> QED
      BY <1>0, <1>1, <1>3, <3>1 DEF HierTypes
  <2>2. \A q \in Insts : wires'[q] \subseteq Symbols /\ (wires'[q] # {} => q \in Netlists)
    BY <1>1, <1>3, <1>5, <2>1 DEF HierTypes
  <2>3. \A q \in DOMAIN remap : \A m \in remap[q] : Modport(m) \in wires'[q]
    BY <1>1, <1>5 DEF HierTypes
  <2> QED
    BY <1>0, <1>1, <1>2, <1>4, <1>5, <1>7, <2>2, <2>3 DEF HierTypes, Stages, Running
<1>9. visited' = visited \cup {<<r, r>>}
  BY <1>0 DEF VisitBody
<1>10. /\ \A q \in Netlists : RealmOK(q)'
       /\ \A v \in visited : VisitOK(v)' /\ Crossing(v[1], v[2])' = Crossing(v[1], v[2])
       /\ \A c, q : Handled(c, q) => Handled(c, q)'
  <2>1. Grows
    BY <1>0, <1>1, <1>4, <1>5, <1>9 DEF Grows
  <2> QED
    BY <1>1, <2>1, GrownKeeps
<1>11. ASSUME stage' = "walk" PROVE RunningInv'
  <2>1. (~NoCommonAncestor(r, r))' /\ Crossing(r, r)' = Crossing(r, r)
    BY <1>0, <1>7, <1>11, ReferencesKept
  <2>2. VisitOK(<<r, r>>)'
    <3>1. Wired(r)' /\ LiveIn(r, r)
      BY <1>2, <1>5 DEF Wired, LiveIn
    <3> QED
      BY <1>2, <1>3, <1>4, <2>1, <3>1 DEF VisitOK
  <2>3. RealmsOK' /\ VisitsOK'
    BY <1>1, <1>2, <1>3, <1>4, <1>9, <1>10, <2>2 DEF RealmsOK, VisitsOK
  <2>4. Closed'
    <3>1. Closed /\ agenda = {}
      BY <1>0, <1>1 DEF RunningInv, Walking
    <3> QED
      BY <1>0, <1>2, <1>9, <1>10, <3>1 DEF Closed
  <2>5. Entered'
    BY <1>0, <1>1, <1>9 DEF Entered, RunningInv
  <2>6. Walking'
    <3>1. \A i \in Inside(r) : design.parent[i] = r
      BY DEF Inside
    <3> QED
      BY <1>0, <1>4, <1>9, <1>11, <3>1 DEF Walking
  <2>7. TopsOK' /\ LiveOK'
    BY <1>0, <1>1, <1>2, <1>4, <1>11 DEF TopsOK, LiveOK, RunningInv
  <2>8. CrossingsOK'
    <3>1. diags = {} /\ diags' = Crossing(r, r)
      BY <1>0, <1>1, <1>7, <1>11 DEF VisitBody, RunningInv, Walking
    <3>2. Crossings(issued' \cup diags') = Crossings(issued \cup diags) \cup Crossing(r, r)
      BY <1>0, <3>1 DEF Crossings, Crossing
    <3>3. UNION {Crossing(v[1], v[2])' : v \in visited'}
            = (UNION {Crossing(v[1], v[2]) : v \in visited}) \cup Crossing(r, r)
      BY <1>9, <1>10, <2>1, CrossingsOfVisit
    <3>4. CrossingsOK
      BY <1>1 DEF RunningInv
    <3> QED
      BY <3>2, <3>3, <3>4 DEF CrossingsOK, Crossings
  <2> QED
    BY <1>11, <2>3, <2>4, <2>5, <2>6, <2>7, <2>8 DEF RunningInv
<1> QED
  BY <1>7, <1>8, <1>11 DEF HierInv, Running, AbortsExplained

\* The instance at hand, in the netlist r.
InstanceAt(i, r) ==
    /\ Running /\ stage = "walk" /\ at \in 1 .. Len(queue)
    /\ r \in Netlists /\ r \in Insts /\ r \notin disabled /\ RealmOK(r) /\ Wired(r)
    /\ \A m \in remap[r] : Modport(m) \in wires[r]
    /\ i \in Insts /\ design.parent[i] # Root /\ design.parent[i] \in Insts
    /\ design.parent[i] \in Reached[r] /\ LiveIn(design.parent[i], r)
    /\ <<design.parent[i], r>> \in visited
    /\ \A v \in visited : i \in Inside(v[1]) => v[2] = r
    /\ Within[i] = {i} \cup Within[design.parent[i]]
    /\ Within[r] \subseteq Within[design.parent[i]]
    /\ Walkable(i) => LiveIn(i, r)

LEMMA InstanceFacts ==
  ASSUME WorklistInv, HierInv, NEW i \in agenda, AtInstance(i), NEW r, r = Realm
  PROVE  InstanceAt(i, r)
<1> DEFINE p == design.parent[i]
<1>0. Running /\ stage = "walk"
  BY DEF AtInstance, Running
<1>1. /\ RunningInv /\ HierTypes /\ Tree /\ Len(queue) \in Nat
      /\ Netlists = {queue[k] : k \in 1 .. Len(queue)} /\ Netlists \subseteq Insts
      /\ at \in 1 .. Len(queue) + 1 /\ DOMAIN remap = Insts /\ RealmsOK /\ VisitsOK
  BY <1>0, RunningFacts
<1>2. at \in 1 .. Len(queue) /\ r \notin disabled /\ <<p, r>> \in visited
  BY <1>0, <1>1 DEF RunningInv, Walking
<1>3. /\ r \in Netlists /\ r \in Insts /\ RealmOK(r) /\ IsRealm(r)
      /\ \A m \in remap[r] : Modport(m) \in wires[r]
  <2>1. r \in Netlists
    BY <1>1, <1>2 DEF Realm
  <2> QED
    BY <1>1, <2>1 DEF RealmsOK, RealmOK, HierTypes
<1>4. i \in Insts /\ p # Root
  BY DEF WorklistInv
<1>5. p \in Insts /\ Within[i] = {i} \cup Within[p]
  BY <1>1, <1>4, TreeFacts, WithinStep
<1>6. Wired(r) /\ p \in Reached[r] /\ LiveIn(p, r)
  BY <1>1, <1>2 DEF VisitsOK, VisitOK
<1>7. ASSUME NEW v \in visited, i \in Inside(v[1]) PROVE v[2] = r
  <2>1. v[1] = p
    BY <1>7 DEF Inside
  <2>2. p \in Reached[v[2]] /\ IsRealm(v[2])
    BY <1>1, <2>1 DEF VisitsOK, VisitOK, RealmsOK, RealmOK
  <2> QED
    BY <1>1, <1>3, <1>5, <1>6, <2>2, WalksAgree
<1>8. Within[r] \subseteq Within[p]
  <2>1. r \in Within[p]
    BY <1>1, <1>3, <1>5, <1>6, ReachedFacts DEF Open
  <2> QED
    BY <1>1, <1>5, <2>1, WithinTransitive
<1>9. Walkable(i) => LiveIn(i, r)
  BY <1>5, <1>6 DEF Walkable, LiveIn
<1> QED
  BY <1>0, <1>2, <1>3, <1>4, <1>5, <1>6, <1>7, <1>8, <1>9 DEF InstanceAt

LEMMA SkippedKeepsHier ==
  ASSUME WorklistInv, HierInv, NEW i \in agenda, VisitProgram(i) \/ VisitBlackbox(i)
  PROVE  HierInv'
<1> PICK r : r = Realm
  OBVIOUS
<1>0. /\ AtInstance(i) /\ agenda' = agenda \ {i}
      /\ UNCHANGED <<design, options, stage, tops, queue, at, wires, remap, disabled, issued, visited>>
      /\ design.kind[i] = "program" \/ IsBlackbox(i)
  BY DEF VisitProgram, VisitBlackbox
<1>1. InstanceAt(i, r) /\ Running /\ stage = "walk"
  BY <1>0, InstanceFacts DEF InstanceAt
<1>2. RunningInv /\ HierTypes /\ RealmsOK /\ VisitsOK
  BY <1>1, RunningFacts
<1>3. /\ Insts' = Insts /\ Symbols' = Symbols /\ (Tree' <=> Tree) /\ (Sharing' <=> Sharing)
      /\ \A j : /\ (Live(j)' <=> Live(j)) /\ Inside(j)' = Inside(j)
                /\ (IsBlackbox(j)' <=> IsBlackbox(j))
  BY <1>0, StaticsKept
<1>4. Netlists' = Netlists /\ Realm' = Realm
  BY <1>0 DEF Netlists, Realm
<1>5. /\ RealmsOK' /\ VisitsOK'
      /\ \A v \in visited : Crossing(v[1], v[2])' = Crossing(v[1], v[2])
      /\ \A c, q : Handled(c, q) => Handled(c, q)'
  <2>1. Grows
    BY <1>0, <1>4 DEF Grows
  <2> QED
    BY <1>0, <1>2, <1>3, <1>4, <2>1, GrownKeeps DEF RealmsOK, VisitsOK
<1>6. HierTypes'
  BY <1>0, <1>2, <1>3, <1>4 DEF HierTypes, Running
<1>7. Closed'
  <2>1. Closed /\ \A q : Handled(i, q)'
    BY <1>0, <1>2, <1>3 DEF RunningInv, Handled
  <2> QED
    BY <1>0, <1>3, <1>5, <2>1 DEF Closed
<1>8. Entered' /\ TopsOK' /\ LiveOK' /\ Walking'
  <2>1. Entered /\ TopsOK /\ LiveOK /\ Walking
    BY <1>2 DEF RunningInv
  <2>2. Entered' /\ Walking'
    BY <1>0, <1>1, <1>4, <2>1 DEF Entered, Walking
  <2>3. TopsOK' /\ LiveOK'
    BY <1>0, <1>3, <1>4, <2>1 DEF TopsOK, LiveOK
  <2> QED
    BY <2>2, <2>3
<1>9. CrossingsOK'
  <2>1. CrossingsOK
    BY <1>2 DEF RunningInv
  <2>2. \/ diags' = diags \/ diags' = diags \cup {Other("ProgramUnsupported", i)}
        \/ diags' = diags \cup {Other("UnsupportedBlackboxConnection", i)}
    BY DEF VisitProgram, VisitBlackbox
  <2>3. Crossings(issued' \cup diags') = Crossings(issued \cup diags)
    BY <1>0, <2>2 DEF Crossings, Other
  <2>4. UNION {Crossing(v[1], v[2])' : v \in visited} = UNION {Crossing(v[1], v[2]) : v \in visited}
    BY <1>5
  <2> QED
    BY <1>0, <2>1, <2>3, <2>4 DEF CrossingsOK, Crossings
<1> QED
  BY <1>0, <1>1, <1>5, <1>6, <1>7, <1>8, <1>9 DEF HierInv, RunningInv, AbortsExplained

LEMMA DissolvedKeepsHier ==
  ASSUME WorklistInv, HierInv, NEW i \in agenda, VisitDissolved(i)
  PROVE  HierInv'
<1> PICK r : r = Realm
  OBVIOUS
<1>0. /\ AtInstance(i) /\ agenda' = (agenda \ {i}) \cup Inside(i)
      /\ Walkable(i) /\ ShouldDissolve(i) /\ VisitBody(i)
      /\ UNCHANGED <<design, options, tops, queue, at, wires, remap, disabled, issued>>
  BY DEF VisitDissolved
<1>1. InstanceAt(i, r) /\ Running /\ stage = "walk" /\ IsRealm(r) /\ i \in Insts
  BY <1>0, InstanceFacts DEF InstanceAt, RealmOK
<1>2. RunningInv /\ HierTypes /\ Tree /\ RealmsOK /\ VisitsOK /\ Netlists \subseteq Insts
  BY <1>1, RunningFacts
<1>3. /\ Insts' = Insts /\ Symbols' = Symbols /\ (Tree' <=> Tree) /\ (Sharing' <=> Sharing)
      /\ Reached' = Reached
      /\ \A j : /\ (Live(j)' <=> Live(j)) /\ Inside(j)' = Inside(j)
                /\ (ShouldDissolve(j)' <=> ShouldDissolve(j))
      /\ \A j, q : (LiveIn(j, q)' <=> LiveIn(j, q))
  BY <1>0, StaticsKept
<1>4. Netlists' = Netlists /\ Realm' = r
  BY <1>0 DEF Netlists, Realm
<1>5. i \in Reached[r] /\ LiveIn(i, r)
  <2>1. design.parent[i] \in Reached[r] /\ i \in Inside(design.parent[i]) /\ r \in Insts
    BY <1>1 DEF InstanceAt, Inside
  <2> QED
    BY <1>0, <1>1, <1>2, <2>1, ReachedFacts DEF InstanceAt
<1>6. visited' = visited \cup {<<i, r>>}
  BY <1>0 DEF VisitBody
<1>7. \/ stage' = "walk" /\ ~NoCommonAncestor(i, r)
      \/ stage' = "aborted" /\ CrossTop'
  <2>1. (\A c \in Reached[r] : Var(c) \in wires'[r]) /\ (\A m \in remap[r] : Modport(m) \in wires'[r])
    BY <1>0, <1>1 DEF InstanceAt, Wired
  <2> QED
    BY <1>0, <1>1, <1>2, <1>5, <2>1, VisitExplained
<1>8. HierTypes'
  BY <1>0, <1>1, <1>2, <1>3, <1>4, <1>7 DEF HierTypes, Running, Stages
<1>9. /\ RealmsOK'
      /\ \A v \in visited : VisitOK(v)' /\ Crossing(v[1], v[2])' = Crossing(v[1], v[2])
      /\ \A c, q : Handled(c, q) => Handled(c, q)'
  <2>1. Grows
    BY <1>0, <1>4, <1>6 DEF Grows
  <2> QED
    BY <1>0, <1>2, <1>4, <2>1, GrownKeeps DEF RealmsOK
<1>10. ASSUME stage' = "walk" PROVE RunningInv'
  <2>1. (~NoCommonAncestor(i, r))' /\ Crossing(i, r)' = Crossing(i, r)
    BY <1>0, <1>7, <1>10, ReferencesKept
  <2>2. VisitOK(<<i, r>>)'
    <3>1. Wired(r)' /\ r \in Netlists
      BY <1>0, <1>1, <1>3 DEF Wired, InstanceAt
    <3> QED
      BY <1>3, <1>4, <1>5, <2>1, <3>1 DEF VisitOK
  <2>3. VisitsOK'
    BY <1>1, <1>2, <1>3, <1>6, <1>9, <2>2 DEF VisitsOK, InstanceAt
  <2>4. Closed'
    <3>1. Closed
      BY <1>2 DEF RunningInv
    <3>2. Handled(i, r)'
      BY <1>0, <1>3, <1>6 DEF Handled
    <3>3. \A v \in visited : i \in Inside(v[1]) => v[2] = r
      BY <1>1 DEF InstanceAt
    <3> QED
      BY <1>0, <1>3, <1>6, <1>9, <3>1, <3>2, <3>3 DEF Closed
  <2>5. Entered' /\ TopsOK' /\ LiveOK'
    <3>1. Entered /\ TopsOK /\ LiveOK
      BY <1>2 DEF RunningInv
    <3>2. Entered'
      BY <1>0, <1>6, <3>1 DEF Entered
    <3>3. TopsOK' /\ LiveOK'
      BY <1>0, <1>1, <1>3, <1>4, <1>10, <3>1 DEF TopsOK, LiveOK
    <3> QED
      BY <3>2, <3>3
  <2>6. Walking'
    <3>1. Walking
      BY <1>2 DEF RunningInv
    <3>2. \A c \in Inside(i) : design.parent[c] = i
      BY DEF Inside
    <3> QED
      BY <1>0, <1>1, <1>4, <1>6, <1>10, <3>1, <3>2 DEF Walking
  <2>7. CrossingsOK'
    <3>1. diags' = diags \cup Crossing(i, r)
      BY <1>0, <1>7, <1>10 DEF VisitBody
    <3>2. Crossings(issued' \cup diags') = Crossings(issued \cup diags) \cup Crossing(i, r)
      BY <1>0, <3>1 DEF Crossings, Crossing
    <3>3. UNION {Crossing(v[1], v[2])' : v \in visited'}
            = (UNION {Crossing(v[1], v[2]) : v \in visited}) \cup Crossing(i, r)
      BY <1>6, <1>9, <2>1, CrossingsOfVisit
    <3>4. CrossingsOK
      BY <1>2 DEF RunningInv
    <3> QED
      BY <3>2, <3>3, <3>4 DEF CrossingsOK, Crossings
  <2> QED
    BY <1>9, <1>10, <2>3, <2>4, <2>5, <2>6, <2>7 DEF RunningInv
<1> QED
  BY <1>7, <1>8, <1>10 DEF HierInv, Running, AbortsExplained

\* Connecting the modport of a kept instance: the symbols it is connected to are
\* those of the netlist around it, or of the netlist's own modport, or the interface
\* is a distant one.
LEMMA ModportHere ==
  ASSUME Tree, HierTypes, NEW i, NEW r, InstanceAt(i, r), design.link[i] = "modport", ~SharedBus,
         Walkable(i), ~ShouldDissolve(i), Resolved(Modport(design.bus[i]), r) \notin wires[r]
  PROVE  DistantBus
<1> DEFINE p == design.parent[i]
           bus == design.bus[i]
<1>1. /\ i \in Insts /\ p \in Insts /\ r \in Insts /\ p \in Reached[r] /\ Wired(r) /\ RealmOK(r)
      /\ r \notin disabled /\ <<p, r>> \in visited /\ \A m \in remap[r] : Modport(m) \in wires[r]
  BY DEF InstanceAt
<1>2. bus \in Insts /\ i \in Inside(p)
  BY <1>1, LinkFacts DEF Inside
<1>3. bus \notin remap[r]
  BY <1>1 DEF Resolved, Remapped, Modport
<1>4. bus \notin Reached[r]
  BY <1>1, <1>3 DEF Resolved, Remapped, Modport, Wired
<1>5. SymbolRealm[p] # SymbolRealm[bus]
  BY <1>1, <1>2, <1>4, WalksAgree DEF RealmOK
<1>6. Within[p] \cap Within[bus] = {} \/ \E k \in Between(p, bus) : ~ShouldDissolve(k)
  BY <1>1, <1>2, <1>5, DifferentRealmsBetween DEF KeptBetween
<1>7. design.link[r] = "none" \/ design.bus[r] # bus
  <2>1. Insts = 1 .. Len(design.parent)
    BY TreeFacts
  <2>2. design.link[r] \in Links
    BY <1>1, <2>1 DEF Tree, IsDesign
  <2> QED
    BY <1>1, <1>3, <2>2 DEF Links, RealmOK
<1>8. <<p, r>>[1] = p /\ <<p, r>>[2] = r
  OBVIOUS
<1> QED
  BY <1>1, <1>2, <1>6, <1>7, <1>8 DEF DistantBus

LEMMA DistantKept ==
  ASSUME UNCHANGED <<design, options, visited>>
  PROVE  DistantBus' <=> DistantBus
<1>1. Within' = Within
  BY TreeKept
<1>2. \A i : /\ (ShouldDissolve(i)' <=> ShouldDissolve(i)) /\ (Walkable(i)' <=> Walkable(i))
             /\ Inside(i)' = Inside(i)
  BY InstancesKept
<1>3. \A a, b : Between(a, b)' = Between(a, b)
  BY <1>1 DEF Between
<1> QED
  BY <1>1, <1>2, <1>3 DEF DistantBus

LEMMA KeptKeepsHier ==
  ASSUME WorklistInv, HierInv, NEW i \in agenda, VisitKept(i)
  PROVE  HierInv'
<1> PICK r : r = Realm
  OBVIOUS
<1> PICK b : b = InstanceBody(i)
  OBVIOUS
<1> DEFINE inserted == b \notin Netlists
           bus == design.bus[i]
<1>0. /\ AtInstance(i) /\ agenda' = agenda \ {i}
      /\ Walkable(i) /\ ~ShouldDissolve(i) /\ GetOrEmplace(b)
      /\ UNCHANGED <<design, options, tops, at, issued, visited>>
  BY DEF VisitKept
<1>1. InstanceAt(i, r) /\ Running /\ stage = "walk" /\ IsRealm(r) /\ i \in Insts
  BY <1>0, InstanceFacts DEF InstanceAt, RealmOK
<1>2. /\ RunningInv /\ HierTypes /\ Tree /\ RealmsOK /\ VisitsOK /\ Netlists \subseteq Insts
      /\ queue \in Seq(Insts) /\ Len(queue) \in Nat /\ at \in 1 .. Len(queue)
      /\ DOMAIN wires = Insts /\ DOMAIN remap = Insts
  BY <1>1, RunningFacts DEF InstanceAt
<1>3. /\ Insts' = Insts /\ Symbols' = Symbols /\ (Tree' <=> Tree) /\ (Sharing' <=> Sharing)
      /\ (SharedBus' <=> SharedBus)
      /\ \A j : /\ (Live(j)' <=> Live(j)) /\ Inside(j)' = Inside(j)
                /\ (ShouldDissolve(j)' <=> ShouldDissolve(j)) /\ (IsRealm(j)' <=> IsRealm(j))
                /\ InstanceBody(j)' = InstanceBody(j)
  BY <1>0, StaticsKept
<1>4. /\ b \in Insts /\ (~Sharing => b = i) /\ design.link[b] = design.link[i] /\ IsRealm(b)
  BY <1>0, <1>1, <1>2, SharedBody DEF IsRealm
<1>5. /\ Len(queue') \in Nat /\ Len(queue) <= Len(queue')
      /\ \A k \in 1 .. Len(queue) : queue'[k] = queue[k]
      /\ \A q : q \in Netlists' <=> q \in Netlists \/ q = b
  BY <1>0, <1>2, <1>4, Appended
<1>6. disabled' = IF design.link[i] = "plain" /\ inserted THEN disabled \cup {b} ELSE disabled
  BY DEF VisitKept, Unelaborable
<1>7. /\ design.link[i] = "modport" => ConnectModport(i, b, inserted)
      /\ design.link[i] # "modport" => UNCHANGED <<wires, remap, stage>>
  BY DEF VisitKept
<1>8. /\ \A q \in Insts : wires'[q] = IF design.link[i] = "modport" /\ inserted /\ q = b
                                      THEN wires[b] \cup {Modport(bus)} ELSE wires[q]
      /\ \A q \in Insts : remap'[q] = IF design.link[i] = "modport" /\ inserted /\ q = b
                                      THEN remap[b] \cup {bus} ELSE remap[q]
      /\ DOMAIN wires' = Insts /\ DOMAIN remap' = Insts
  BY <1>2, <1>4, <1>7 DEF ConnectModport
<1>9. stage' = "walk" \/ (stage' = "aborted" /\ design.link[i] = "modport" /\
            ~(Modport(bus) \in wires'[b] /\ Resolved(Modport(bus), r) \in wires'[r]))
  BY <1>1, <1>7 DEF ConnectModport
<1>10. Realm' = r
  BY <1>0, <1>2, <1>5 DEF Realm
<1>11. bus \in Insts \/ design.link[i] # "modport"
  BY <1>1, <1>2, LinkFacts
<1>12. HierTypes'
  <2>1. at' \in 1 .. Len(queue') + 1
    BY <1>0, <1>2, <1>5
  <2>2. disabled' \subseteq Netlists'
    BY <1>2, <1>5, <1>6 DEF HierTypes
  <2>3. \A q \in Insts : wires'[q] \subseteq Symbols /\ (wires'[q] # {} => q \in Netlists')
    BY <1>2, <1>5, <1>8, <1>11 DEF HierTypes, Symbols
  <2>4. ASSUME NEW q \in Insts, NEW m \in remap'[q] PROVE Modport(m) \in wires'[q]
    BY <1>2, <1>8, <2>4 DEF HierTypes
  <2> QED
    BY <1>0, <1>2, <1>3, <1>8, <1>9, <2>1, <2>2, <2>3, <2>4 DEF HierTypes, Stages, Running
<1>13. ASSUME stage' = "aborted" PROVE SharedBus' \/ DistantBus'
  <2> SUFFICES ASSUME ~SharedBus, ~DistantBus PROVE FALSE
    BY <1>0, <1>3, DistantKept
  <2>1. design.link[i] = "modport"
    BY <1>9, <1>13
  <2>2. Resolved(Modport(bus), r) \in wires'[r]
    <3>1. Resolved(Modport(bus), r) \in wires[r]
      BY <1>0, <1>1, <1>2, <2>1, ModportHere
    <3>2. r \in Netlists /\ r \in Insts
      BY <1>1 DEF InstanceAt
    <3> QED
      BY <1>8, <3>1, <3>2
  <2>3. Modport(bus) \in wires'[b]
    <3>1. CASE inserted
      BY <1>4, <1>8, <2>1, <3>1
    <3>2. CASE ~inserted
      <4>1. design.bus[b] \in remap[b]
        BY <1>2, <1>4, <2>1, <3>2 DEF RealmsOK, RealmOK
      <4>2. design.bus[b] = bus
        BY <1>1, <1>4, <2>1 DEF SharedBus, InstanceBody, Sharing
      <4>3. Modport(bus) \in wires[b]
        BY <1>2, <1>4, <4>1, <4>2 DEF HierTypes
      <4> QED
        BY <1>4, <1>8, <4>3
    <3> QED
      BY <3>1, <3>2
  <2> QED
    BY <1>9, <1>13, <2>2, <2>3
<1>14. /\ \A q \in Netlists : RealmOK(q)'
       /\ \A v \in visited : VisitOK(v)' /\ Crossing(v[1], v[2])' = Crossing(v[1], v[2])
       /\ \A c, q : Handled(c, q) => Handled(c, q)'
  <2>1. \A q \in Netlists : wires[q] \subseteq wires'[q] /\ remap'[q] = remap[q]
    BY <1>2, <1>8
  <2>2. Grows
    BY <1>0, <1>5, <1>6, <2>1 DEF Grows
  <2> QED
    BY <1>2, <2>2, GrownKeeps
<1>15. inserted => RealmOK(b)'
  <2> SUFFICES ASSUME inserted PROVE RealmOK(b)'
    OBVIOUS
  <2>1. design.link[b] = "plain" => b \in disabled'
    BY <1>4, <1>6
  <2>2. design.link[b] = "modport" => design.bus[b] \in remap'[b] \/ SharedBus
    <3> SUFFICES ASSUME design.link[b] = "modport" PROVE design.bus[b] \in remap'[b] \/ SharedBus
      OBVIOUS
    <3>1. bus \in remap'[b]
      BY <1>4, <1>8
    <3>2. bus = design.bus[b] \/ SharedBus
      BY <1>1, <1>4 DEF SharedBus, InstanceBody, Sharing
    <3> QED
      BY <3>1, <3>2
  <2> QED
    BY <1>0, <1>3, <1>4, <2>1, <2>2 DEF RealmOK
<1>16. RealmsOK' /\ VisitsOK'
  BY <1>0, <1>2, <1>3, <1>5, <1>14, <1>15 DEF RealmsOK, VisitsOK
<1>17. Closed'
  <2>1. Closed
    BY <1>2 DEF RunningInv
  <2>2. \A q : Handled(i, q)'
    BY <1>0, <1>3, <1>5 DEF Handled
  <2> QED
    BY <1>0, <1>3, <1>14, <2>1, <2>2 DEF Closed
<1>18. Entered'
  <2>1. Entered
    BY <1>2 DEF RunningInv
  <2>2. \A k \in 1 .. at - 1 : queue'[k] = queue[k]
    BY <1>2, <1>5
  <2> QED
    BY <1>0, <1>6, <2>1, <2>2 DEF Entered
<1>19. TopsOK' /\ LiveOK'
  <2>1. TopsOK /\ LiveOK
    BY <1>2 DEF RunningInv
  <2>2. TopsOK'
    BY <1>0, <1>1, <1>3, <1>5, <2>1 DEF TopsOK
  <2>3. ~Sharing => Live(i)
    <3> SUFFICES ASSUME ~Sharing PROVE Live(i)
      OBVIOUS
    <3>1. Live(r) /\ LiveIn(i, r) /\ Within[r] \subseteq Within[i]
      BY <1>0, <1>1, <2>1 DEF LiveOK, InstanceAt
    <3> QED
      BY <3>1 DEF Live, LiveIn
  <2>4. LiveOK'
    BY <1>3, <1>4, <1>5, <2>1, <2>3 DEF LiveOK
  <2> QED
    BY <2>2, <2>4
<1>20. stage' = "walk" => Walking'
  <2>1. Walking /\ r \in Netlists
    BY <1>1, <1>2 DEF RunningInv, InstanceAt
  <2>2. r \notin disabled'
    BY <1>1, <1>6, <2>1 DEF Walking
  <2>3. at' <= Len(queue')
    BY <1>0, <1>2, <1>5
  <2> QED
    BY <1>0, <1>1, <1>10, <2>1, <2>2, <2>3 DEF Walking
<1>21. CrossingsOK'
  <2>1. CrossingsOK
    BY <1>2 DEF RunningInv
  <2>2. diags' = diags \/ diags' = diags \cup {Other("ModportRequired", i)}
    BY DEF VisitKept
  <2>3. Crossings(issued' \cup diags') = Crossings(issued \cup diags)
    BY <1>0, <2>2 DEF Crossings, Other
  <2>4. UNION {Crossing(v[1], v[2])' : v \in visited} = UNION {Crossing(v[1], v[2]) : v \in visited}
    BY <1>14
  <2> QED
    BY <1>0, <2>1, <2>3, <2>4 DEF CrossingsOK, Crossings
<1> QED
  BY <1>9, <1>12, <1>13, <1>16, <1>17, <1>18, <1>19, <1>20, <1>21
  DEF HierInv, RunningInv, Running, AbortsExplained

LEMMA HierInit == Init => HierInv
<1> SUFFICES ASSUME Init PROVE HierInv
  OBVIOUS
<1>1. Tree
  BY DEF Init, NoDesign, Tree, IsDesign
<1>2. /\ stage = "idle" /\ queue = <<>> /\ at = 1 /\ disabled = {} /\ wires = <<>> /\ remap = <<>>
  BY DEF Init, HierStart
<1> QED
  BY <1>1, <1>2 DEF HierInv, HierTypes, Running, Stages, AbortsExplained, Netlists

LEMMA IdleKeepsHier ==
  ASSUME HierInv, UNCHANGED <<queue, at, wires, remap, disabled>>, Tree',
         stage \in {"idle", "parsed"}, stage' \in {"idle", "parsed"}
  PROVE  HierInv'
BY DEF HierInv, HierTypes, Running, Stages, AbortsExplained, Netlists

LEMMA PromptKeepsHier ==
  ASSUME WorklistInv, HierInv, Prompt
  PROVE  HierInv'
<1>0. Tree /\ stage = "idle"
  BY DEF HierInv, HierTypes, Prompt
<1>1. CASE Commands
  <2>1. UNCHANGED hierVars
    BY <1>1 DEF Commands, Clear, Push, Pop, Add, Expect, SlangDefaults, Command
  <2>2. Tree'
    BY <1>0, <2>1 DEF Tree, IsDesign, Equal, hierVars
  <2> QED
    BY <1>0, <2>1, <2>2, IdleKeepsHier DEF hierVars
<1>2. CASE \E d \in Designs[budget.family], line \in Reads : Read(d, line)
  <2>1. PICK d \in Designs[budget.family], line \in Reads : Read(d, line)
    BY <1>2
  <2>2. budget.family \in DOMAIN Designs
    BY DEF WorklistInv
  <2>3. IsDesign(d) /\ design' = d
    BY <2>1, <2>2, DesignsAssumption DEF Read
  <2>4. Tree'
    BY <2>3 DEF Tree, IsDesign, Equal
  <2> QED
    BY <1>0, <2>1, <2>4, IdleKeepsHier DEF Read
<1> QED
  BY <1>1, <1>2 DEF Prompt

LEMMA EndKeepsHier ==
  ASSUME HierInv, Report \/ Return
  PROVE  HierInv'
<1>1. HierTypes
  BY DEF HierInv
<1>2. CASE Report
  <2>1. UNCHANGED <<design, options>>
    BY <1>2 DEF Report
  <2>2. Insts' = Insts /\ Symbols' = Symbols /\ (Tree' <=> Tree)
    BY <2>1, StaticsKept
  <2>3. stage' \in {"returned", "failed"}
    BY <1>2 DEF Report
  <2> QED
    BY <1>1, <1>2, <2>2, <2>3 DEF Report, HierInv, HierTypes, Running, Stages, Netlists,
       AbortsExplained
<1>3. CASE Return
  <2>1. Tree'
    BY <1>3 DEF Return, NoDesign, Tree, IsDesign
  <2> QED
    BY <1>3, <2>1 DEF Return, HierInv, HierTypes, Running, Stages, Netlists, AbortsExplained
<1> QED
  BY <1>2, <1>3

LEMMA StutterKeepsHier ==
  ASSUME WorklistInv, HierInv, UNCHANGED vars
  PROVE  HierInv'
<1>0. UNCHANGED <<design, options, stage, tops, queue, at, agenda, wires, remap, disabled,
                  cells, diags, issued, visited>>
  BY DEF vars, hierVars
<1>1. /\ Insts' = Insts /\ Symbols' = Symbols /\ (Tree' <=> Tree) /\ (SharedBus' <=> SharedBus)
      /\ (Sharing' <=> Sharing)
      /\ \A j : (Live(j)' <=> Live(j)) /\ Inside(j)' = Inside(j)
  BY <1>0, StaticsKept
<1>2. Netlists' = Netlists /\ Realm' = Realm
  BY <1>0 DEF Netlists, Realm
<1>3. HierTypes'
  BY <1>0, <1>1, <1>2 DEF HierInv, HierTypes, Running
<1>4. (CrossTop' <=> CrossTop) /\ (DistantBus' <=> DistantBus)
  <2>1. Within' = Within /\ \A b : Names(b)' = Names(b)
    BY <1>0, TreeKept, InstancesKept
  <2> QED
    BY <1>0, <2>1, DistantKept DEF CrossTop
<1>5. ASSUME Running PROVE RunningInv'
  <2>1. RunningInv /\ RealmsOK /\ VisitsOK
    BY <1>5, RunningFacts
  <2>2. /\ RealmsOK' /\ VisitsOK'
        /\ \A v \in visited : Crossing(v[1], v[2])' = Crossing(v[1], v[2])
        /\ \A c, q : Handled(c, q) => Handled(c, q)'
    <3>1. Grows
      BY <1>0, <1>2 DEF Grows
    <3> QED
      BY <1>0, <1>1, <1>2, <2>1, <3>1, GrownKeeps DEF RealmsOK, VisitsOK
  <2>3. UNION {Crossing(v[1], v[2])' : v \in visited} = UNION {Crossing(v[1], v[2]) : v \in visited}
    BY <2>2
  <2>4. Closed' /\ CrossingsOK'
    BY <1>0, <1>1, <2>1, <2>2, <2>3 DEF RunningInv, Closed, CrossingsOK, Crossings
  <2>5. Entered' /\ Walking' /\ TopsOK' /\ LiveOK'
    BY <1>0, <1>1, <1>2, <2>1 DEF RunningInv, Entered, Walking, TopsOK, LiveOK
  <2> QED
    BY <1>0, <2>1, <2>2, <2>4, <2>5 DEF RunningInv
<1> QED
  BY <1>0, <1>1, <1>3, <1>4, <1>5 DEF HierInv, Running, AbortsExplained

LEMMA HierKeeps == WorklistInv /\ HierInv /\ [Next]_vars => HierInv'
<1> SUFFICES ASSUME WorklistInv, HierInv, [Next]_vars
             PROVE  HierInv'
  OBVIOUS
<1>1. CASE Elaborate
  BY <1>1, TopKeepsHier, RoundKeepsHier, EnterKeepsHier, SkippedKeepsHier,
     DissolvedKeepsHier, KeptKeepsHier
  DEF Elaborate, HierStep
<1> QED
  BY <1>1, PromptKeepsHier, CompileKeepsHier, EndKeepsHier, StutterKeepsHier
  DEF Next, ReadStep

\* No lookup of a wire fails and no assertion of the worklist or of
\* find_common_ancestor does, for every design and all options, but for a reference
\* into another top's tree, a shared body with two interfaces, and a kept instance
\* connected across a boundary to a modport that its netlist has no port for.
THEOREM AbortsAreExplained == Spec => []AbortsExplained
<1>1. HierInv => AbortsExplained
  BY DEF HierInv
<1> QED
  BY <1>1, HierInit, HierKeeps, WorklistInit, WorklistKeeps, PTL DEF Spec

-----------------------------------------------------------------------------
\* Types.
MessageOK == expected \in Expectable \cup {NoMessage}

LEMMA MessageKeeps == MessageOK /\ [Next]_vars => MessageOK'
<1> SUFFICES ASSUME MessageOK, [Next]_vars PROVE MessageOK'
  OBVIOUS
<1>1. CASE Commands
  BY <1>1 DEF Commands, Clear, Push, Pop, Add, Expect, SlangDefaults, MessageOK
<1>2. CASE \E d \in Designs[budget.family], line \in Reads : Read(d, line)
  BY <1>2 DEF Read, MessageOK
<1>3. CASE Compile \/ Elaborate
  BY <1>3 DEF Compile, Elaborate, CheckDiagnostics, MessageOK
<1>4. CASE Report \/ Return \/ UNCHANGED vars
  BY <1>4 DEF Report, Return, vars, sessionVars, MessageOK
<1> QED
  BY <1>1, <1>2, <1>3, <1>4 DEF Next, Prompt, ReadStep

LEMMA OptionsTyped ==
  ASSUME NEW line \in Seq(Defaults)
  PROVE  OptionsIn(line) \subseteq Defaults
BY DEF OptionsIn

\* The session and the worklist have the types of the code's, for every design.
THEOREM TypeCorrect == Spec => []TypeOK
<1>1. WorklistInv /\ HierInv /\ SessionInv /\ MessageOK => TypeOK
  <2> SUFFICES ASSUME WorklistInv, HierInv, SessionInv, MessageOK PROVE TypeOK
    OBVIOUS
  <2>1. /\ QueuedOnce /\ queue \in Seq(Insts)
        /\ \A j \in agenda \cup tops : j \in Insts
    BY DEF WorklistInv
  <2>2. Netlists \subseteq Insts
    BY <2>1 DEF Netlists
  <2>3. OptionsIn(defaults) \subseteq Defaults
    BY OptionsTyped DEF SessionInv
  <2>4. \A k \in DOMAIN saved : OptionsIn(saved[k]) \subseteq Defaults
    <3>1. \A k \in DOMAIN saved : saved[k] \in Seq(Defaults)
      BY DEF SessionInv
    <3> QED
      BY <3>1, OptionsTyped
  <2> QED
    BY <2>1, <2>2, <2>3, <2>4
    DEF HierInv, HierTypes, Tree, QueuedOnce, MessageOK, TypeOK
<1>2. Init => MessageOK
  BY DEF Init, MessageOK
<1> QED
  BY <1>1, <1>2, MessageKeeps, HierInit, HierKeeps, WorklistInit, WorklistKeeps,
     SessionInit, SessionKeeps, PTL
  DEF Spec

-----------------------------------------------------------------------------
\* Once the worklist is drained.
DrainedFacts ==
    /\ Tree /\ RealmsOK /\ VisitsOK /\ LiveOK /\ CrossingsOK /\ diags = {}
    /\ Netlists \subseteq Insts
    /\ \A q \in Netlists \ disabled : <<q, q>> \in visited
    /\ \A v \in visited : \A c \in Inside(v[1]) : Handled(c, v[2])
    /\ \A t \in Inside(Root) : design.kind[t] = "program" \/ t \in Netlists

LEMMA DrainedComplete ==
  ASSUME WorklistInv, HierInv, stage = "drained"
  PROVE  DrainedFacts
<1>1. /\ RunningInv /\ HierTypes /\ Tree /\ RealmsOK /\ VisitsOK
      /\ Len(queue) \in Nat /\ Netlists = {queue[k] : k \in 1 .. Len(queue)}
      /\ Netlists \subseteq Insts /\ at \in 1 .. Len(queue) + 1
  BY RunningFacts DEF Running
<1>2. at > Len(queue) /\ agenda = {} /\ diags = {} /\ tops = {}
  BY <1>1 DEF RunningInv, Walking, TopsOK
<1>3. ASSUME NEW q \in Netlists \ disabled PROVE <<q, q>> \in visited
  <2>1. PICK k \in 1 .. Len(queue) : q = queue[k]
    BY <1>1
  <2>2. k \in 1 .. at - 1
    BY <1>1, <1>2
  <2> QED
    BY <1>1, <2>1, <2>2 DEF RunningInv, Entered
<1> QED
  BY <1>1, <1>2, <1>3 DEF DrainedFacts, RunningInv, Closed, TopsOK

\* The bodies a populated netlist has visited are those its walk down reaches.
LEMMA NetlistComplete ==
  ASSUME DrainedFacts, NEW r \in Insts, Populated(r), NEW b \in Reached[r], LiveIn(b, r)
  PROVE  <<b, r>> \in visited
<1> DEFINE S == {i \in Insts : i \in Reached[r] /\ LiveIn(i, r) => <<i, r>> \in visited}
<1>0. Tree /\ r \in Netlists /\ <<r, r>> \in visited
  BY DEF DrainedFacts, Populated
<1>1. ASSUME NEW i \in Insts, \A j \in Insts : j < i => j \in S
      PROVE  i \in S
  <2> SUFFICES ASSUME i \in Reached[r], LiveIn(i, r), i # r PROVE <<i, r>> \in visited
    BY <1>0
  <2> DEFINE p == design.parent[i]
  <2>1. Open(i, r) /\ r \in Within[i]
    BY <1>0, ReachedFacts DEF Open
  <2>2. p # Root
    BY <1>0, <2>1, WithinStep
  <2>3. p \in Insts /\ p < i /\ Within[i] = {i} \cup Within[p] /\ i \in Inside(p)
    BY <1>0, <2>2, TreeFacts, WithinStep DEF Inside
  <2>4. p \in Reached[r] /\ LiveIn(p, r)
    <3>1. Open(p, r)
      BY <2>1, <2>3 DEF Open
    <3> QED
      BY <1>0, <2>3, <3>1, ReachedFacts DEF LiveIn
  <2>5. <<p, r>> \in visited
    BY <1>1, <2>3, <2>4
  <2>6. i \notin Within[r]
    <3>1. i \in Within[r] => i = r
      BY <1>0, <2>1, WithinAntisymmetric
    <3> QED
      BY <3>1
  <2>7. ShouldDissolve(i) /\ design.kind[i] # "program" /\ ~IsBlackbox(i)
    BY <2>1, <2>3, <2>6 DEF Open, LiveIn
  <2>8. Handled(i, r)
    <3>1. <<p, r>>[1] = p /\ <<p, r>>[2] = r
      OBVIOUS
    <3> HIDE DEF p
    <3> QED
      BY <2>3, <2>5, <3>1 DEF DrainedFacts
  <2> QED
    BY <2>7, <2>8 DEF Handled
<1> HIDE DEF S
<1>2. Insts \subseteq S
  BY <1>0, <1>1, TreeInduction
<1> QED
  BY <1>0, <1>2, ReachedFacts DEF S

\* Every body of the design is visited if nothing is shared or disabled.
LEMMA DesignComplete ==
  ASSUME DrainedFacts, ~Sharing, disabled = {}, NEW b \in Insts, Live(b)
  PROVE  \E r \in Insts : <<b, r>> \in visited
<1> DEFINE Seen(i) == \E r \in Insts : <<i, r>> \in visited
           S == {i \in Insts : Live(i) => Seen(i)}
<1>0. Tree /\ \A q \in Netlists : q \in Insts /\ <<q, q>> \in visited
  BY DEF DrainedFacts
<1>1. ASSUME NEW i \in Insts, \A j \in Insts : j < i => j \in S
      PROVE  i \in S
  <2> SUFFICES ASSUME Live(i) PROVE Seen(i)
    OBVIOUS
  <2> DEFINE p == design.parent[i]
  <2>0. i \in Within[i] /\ design.kind[i] # "program" /\ (p = Root \/ ~IsBlackbox(i))
    BY <1>0, WithinBounds DEF Live
  <2>1. CASE p = Root
    <3>1. i \in Netlists
      BY <2>0, <2>1 DEF Inside, DrainedFacts
    <3> QED
      BY <1>0, <3>1
  <2>2. CASE p # Root
    <3>1. p \in Insts /\ p < i /\ Within[i] = {i} \cup Within[p] /\ i \in Inside(p)
      BY <1>0, <2>2, TreeFacts, WithinStep DEF Inside
    <3>2. Live(p)
      BY <3>1 DEF Live
    <3>3. PICK r \in Insts : <<p, r>> \in visited
      BY <1>1, <3>1, <3>2
    <3>4. Handled(i, r)
      <4>1. <<p, r>>[1] = p /\ <<p, r>>[2] = r
        OBVIOUS
      <4> HIDE DEF p
      <4> QED
        BY <3>1, <3>3, <4>1 DEF DrainedFacts
    <3>5. InstanceBody(i) = i
      BY <1>0, SharedBody
    <3> QED
      BY <1>0, <2>0, <2>2, <3>4, <3>5 DEF Handled
  <2> QED
    BY <2>1, <2>2
<1> HIDE DEF S
<1>2. Insts \subseteq S
  BY <1>0, <1>1, TreeInduction
<1> QED
  BY <1>2 DEF S

\* A visited body is part of the design.
LEMMA VisitedLive ==
  ASSUME DrainedFacts, ~Sharing, NEW v \in visited
  PROVE  Live(v[1])
<1>1. Tree /\ VisitOK(v) /\ Live(v[2])
  BY DEF DrainedFacts, VisitsOK, VisitOK, LiveOK
<1> QED
  BY <1>1 DEF VisitOK, Live, LiveIn

\* Every body of the design is elaborated in one netlist and once, that of the realm
\* find_symbol_realm finds for it, and has its wire there.
THEOREM PartitionOfDesign == Spec => []DesignPartitioned
<1>1. WorklistInv /\ HierInv => DesignPartitioned
  <2> SUFFICES ASSUME WorklistInv, HierInv, stage = "drained"
               PROVE  DesignPartitioned
    BY DEF DesignPartitioned
  <2>1. DrainedFacts
    BY DrainedComplete
  <2>2. ASSUME NEW v \in visited
        PROVE  /\ v[1] \in Insts /\ v[2] \in Insts /\ v = <<v[1], v[2]>>
               /\ SymbolRealm[v[1]] = v[2] /\ Var(v[1]) \in wires[v[2]]
               /\ v[1] \in Reached[v[2]] /\ LiveIn(v[1], v[2])
    <3>1. v \in Insts \X Insts /\ VisitOK(v) /\ Tree
      BY <2>1 DEF DrainedFacts, VisitsOK
    <3>2. IsRealm(v[2])
      BY <2>1, <3>1 DEF DrainedFacts, RealmsOK, RealmOK, VisitOK
    <3> QED
      BY <3>1, <3>2, WalksAgree DEF VisitOK, Wired
  <2>3. \A c \in cells : IsBlackbox(c.inst) \/ c.names \in Netlists
    BY DEF WorklistInv, CellsNamed
  <2>4. ASSUME NEW r \in Insts, Populated(r)
        PROVE  {v \in visited : v[2] = r} = {<<b, r>> : b \in {x \in Reached[r] : LiveIn(x, r)}}
    <3>1. \A b \in {x \in Reached[r] : LiveIn(x, r)} : <<b, r>> \in visited
      BY <2>1, <2>4, NetlistComplete
    <3>2. \A v \in visited : v[2] = r => /\ v = <<v[1], r>>
                                         /\ v[1] \in {x \in Reached[r] : LiveIn(x, r)}
      BY <2>2
    <3> QED
      BY <3>1, <3>2
  <2>5. ASSUME ~Sharing, disabled = {}
        PROVE  {v[1] : v \in visited} = {i \in Insts : Live(i)}
    <3>1. \A v \in visited : v[1] \in Insts /\ Live(v[1])
      BY <2>1, <2>2, <2>5, VisitedLive
    <3>2. ASSUME NEW i \in Insts, Live(i) PROVE i \in {v[1] : v \in visited}
      <4>1. PICK r \in Insts : <<i, r>> \in visited
        BY <2>1, <2>5, <3>2, DesignComplete
      <4> QED
        BY <4>1
    <3> QED
      BY <3>1, <3>2
  <2> QED
    BY <2>2, <2>3, <2>4, <2>5 DEF DesignPartitioned
<1> QED
  BY <1>1, HierInit, HierKeeps, WorklistInit, WorklistKeeps, PTL DEF Spec

\* Exactly the references with a kept boundary in between are refused, and a module
\* on that boundary is blamed, for every design and all options.
THEOREM RefusalsExact == Spec => []RefusedExactly
<1>1. WorklistInv /\ HierInv => RefusedExactly
  <2> SUFFICES ASSUME WorklistInv, HierInv, stage = "drained"
               PROVE  RefusedExactly
    BY DEF RefusedExactly
  <2>1. DrainedFacts /\ Tree
    BY DrainedComplete DEF DrainedFacts
  <2>2. ASSUME NEW v \in visited
        PROVE  /\ v[1] \in Insts /\ SymbolRealm[v[1]] = v[2]
               /\ ~NoCommonAncestor(v[1], v[2])
    <3>1. v \in Insts \X Insts /\ VisitOK(v)
      BY <2>1 DEF DrainedFacts, VisitsOK
    <3>2. IsRealm(v[2])
      BY <2>1, <3>1 DEF DrainedFacts, RealmsOK, RealmOK, VisitOK
    <3> QED
      BY <2>1, <3>1, <3>2, WalksAgree DEF VisitOK
  <2>3. ASSUME NEW v \in visited, NEW x \in Names(v[1]), ~Remapped(x, v[2])
        PROVE  /\ KeptBetween(v[1], x[2]) # {} <=> ~Allowed(x, v[2])
               /\ ~Allowed(x, v[2]) => Blamed(x, v[2]) \in KeptBetween(v[1], x[2])
    <3>1. x[2] \in Insts
      BY <2>1, <2>2, NamesFacts
    <3>2. Allowed(x, v[2]) <=> SymbolRealm[x[2]] = SymbolRealm[v[1]]
      BY <2>2, <2>3 DEF Allowed, CheckHierRef
    <3>3. ~Allowed(x, v[2]) => CommonLength(SymbolRealm[x[2]], SymbolRealm[v[1]]) # 0
      BY <2>2 DEF NoCommonAncestor
    <3>4. ~Allowed(x, v[2]) => Within[v[1]] \cap Within[x[2]] # {}
      BY <2>1, <2>2, <3>1, <3>3, CommonMeansSameTop
    <3>5. KeptBetween(v[1], x[2]) # {} <=> ~Allowed(x, v[2])
      BY <2>1, <2>2, <3>1, <3>2, <3>4, BetweenDifferentRealms, DifferentRealmsBetween
    <3>6. ~Allowed(x, v[2]) => Blamed(x, v[2]) \in KeptBetween(v[1], x[2])
      BY <2>1, <2>2, <3>1, <3>2, <3>3, BlamedBetween
    <3> QED
      BY <3>5, <3>6
  <2>4. Crossings(issued) = UNION {Crossing(v[1], v[2]) : v \in visited}
    BY <2>1 DEF DrainedFacts, CrossingsOK, Crossings
  <2>5. ASSUME NEW d \in Crossings(issued)
        PROVE  \E v \in visited : \E x \in Names(v[1]) :
                  /\ ~Allowed(x, v[2]) /\ ~Remapped(x, v[2])
                  /\ d.from = v[1] /\ d.to = x /\ d.blamed = Blamed(x, v[2])
    <3>1. PICK v \in visited : d \in Crossing(v[1], v[2])
      BY <2>4
    <3> QED
      BY <3>1 DEF Crossing, Allowed
  <2>6. ASSUME NEW v \in visited, NEW x \in Names(v[1])
        PROVE  (KeptBetween(v[1], x[2]) # {} /\ ~Remapped(x, v[2]))
                  <=> (\E d \in Crossings(issued) : d.from = v[1] /\ d.to = x)
    <3>1. ASSUME KeptBetween(v[1], x[2]) # {}, ~Remapped(x, v[2])
          PROVE  \E d \in Crossings(issued) : d.from = v[1] /\ d.to = x
      <4> DEFINE d == [kind |-> "ReferenceAcrossKeptHierBoundary", from |-> v[1], to |-> x,
                       blamed |-> Blamed(x, v[2])]
      <4>1. d \in Crossing(v[1], v[2])
        BY <2>3, <3>1 DEF Crossing
      <4>2. d \in Crossings(issued) /\ d.from = v[1] /\ d.to = x
        BY <2>4, <4>1
      <4> QED
        BY <4>2
    <3>2. ASSUME NEW d \in Crossings(issued), d.from = v[1], d.to = x
          PROVE  KeptBetween(v[1], x[2]) # {} /\ ~Remapped(x, v[2])
      <4>1. PICK w \in visited : w[1] = v[1] /\ ~Allowed(x, w[2]) /\ ~Remapped(x, w[2])
        BY <2>5, <3>2
      <4>2. w[2] = v[2]
        BY <2>2, <4>1
      <4> QED
        BY <2>3, <4>1, <4>2
    <3> QED
      BY <3>1, <3>2
  <2>7. ASSUME NEW d \in Crossings(issued) PROVE d.blamed \in KeptBetween(d.from, d.to[2])
    BY <2>3, <2>5
  <2> QED
    BY <2>6, <2>7 DEF RefusedExactly, Crossings, KeptBetween
<1> QED
  BY <1>1, HierInit, HierKeeps, WorklistInit, WorklistKeeps, PTL DEF Spec
=============================================================================
