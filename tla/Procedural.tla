----------------------------- MODULE Procedural -----------------------------
(***************************************************************************)
(* The procedural elaborator: StatementExecutor walks the statements of a  *)
(* process once and turns them into a tree of switches and cases, keeping  *)
(* in ProceduralContext the signal every variable currently stands for.    *)
(* Branches are executed one after the other from the same starting state  *)
(* and joined with placeholder signals; break, continue and return are     *)
(* flags that later statements are switched on; loops are unrolled.        *)
(*                                                                         *)
(* A step is the whole effect of the executor entering or leaving one      *)
(* construct.  Which statement comes next is the program under execution,  *)
(* chosen freely.  A signal is reduced to the set of wire valuations in    *)
(* which it is 1, and to whether the builder knows it as a constant; the   *)
(* reference semantics runs alongside in `sem'.                            *)
(***************************************************************************)
EXTENDS SeqSemantics, SequencesExt, FiniteSets

CONSTANTS
  Profiles,    (* what to explore, a set of records:                          *)
               (*   timing      the kind of process, "Implicit" for always    *)
               (*               and "Initial" for initial ones                *)
               (*   constructs  the statement kinds the program may use       *)
               (*   conds       what it may branch, loop and dispatch on      *)
               (*   rvalues     what it may assign                            *)
               (*   masks       enables of an assignment: constant true, or   *)
               (*               an index test                                 *)
               (*   advances    step assignments of a for loop, or None       *)
               (*   length      bound on the number of steps                  *)
               (*   nest        bound on the nesting of constructs            *)
  Limit        (* --unroll-limit                                              *)

None == <<"none">>

ASSUME ProceduralAssumption ==
  /\ \A p \in Profiles :
       /\ p.timing \in {"Implicit", "Initial"} /\ {p.length, p.nest} \subseteq Nat
       /\ p.conds \cup p.rvalues \cup p.masks \subseteq Expressions(StaticVars)
       /\ p.advances \subseteq {None} \cup (StaticVars \X Expressions(StaticVars))
  /\ Limit \in Nat

VARIABLES
  profile,     (* the kind of program that is being executed                   *)
  ctx,         (* ProceduralContext and UnrollLimitTracking                   *)
  ctl,         (* the constructs being executed: the executor's call stack    *)
  sem,         (* the reference semantics of the same program                 *)
  steps

vars == <<profile, ctx, ctl, sem, steps>>

(* A definition whose name continues another one's after an underscore is  *)
(* that definition with a plausible mistake; no specification uses it.     *)

-----------------------------------------------------------------------------
(* Signals.                                                                *)

Sig(const, on) == [const |-> const, on |-> on]
S0 == Sig(TRUE, {})
S1 == Sig(TRUE, Env)

LogicNot(a) == Sig(a.const, Env \ a.on)

LogicOr(a, b) ==
  CASE a = S1 \/ b = S1 -> S1
    [] a = S0 /\ b = S0 -> S0
    [] OTHER            -> Sig(FALSE, a.on \cup b.on)

Bwmux(a, b, s) ==
  IF s.const THEN (IF s = S1 THEN b ELSE a) ELSE Sig(FALSE, Blend(a.on, b.on, s.on))

Flag(n) == <<"EscapeFlag", n>>
IsStatic(v) == v[1] = "Static"

-----------------------------------------------------------------------------
(* ProceduralContext: the variable state and the current case.             *)
(*                                                                         *)
(* cas is current_case: `path' the indices of the switches it is nested    *)
(* in, `on' the valuations that select it, `nsw' its number of switches.   *)
(* `log' holds the actions on module-level variables in program order.     *)

(* RTLIL::Sm marks "not bound": a value no signal has. *)
Sm == Sig(TRUE, {{NWires}})
NoBits == [v \in {} |-> S0]

ContextInit(timing) ==
  [timing |-> timing, vis |-> NoBits, rev |-> NoBits,
   ini |-> [v \in StaticVars |-> S0],
   cas |-> [path |-> <<1>>, on |-> Env, nsw |-> 0], log |-> <<>>,
   esc |-> <<>>, nflag |-> 0,
   blocking |-> {}, nonblocking |-> {},
   unrolling |-> 0, counter |-> 0, exhausted |-> FALSE,
   diag |-> {}, broken |-> FALSE]

Bound(c, v) == v \in DOMAIN c.vis

(* The entries of two dictionaries, those of f where both have one. *)
Over(f, g) == [v \in DOMAIN f \cup DOMAIN g |-> IF v \in DOMAIN f THEN f[v] ELSE g[v]]

(* VariableState::set of one bit. *)
SetBit(c, v, r) ==
  [c EXCEPT !.rev = Over(@, [u \in {v} |-> IF Bound(c, v) THEN c.vis[v] ELSE Sm]),
            !.vis = Over([u \in {v} |-> r], @)]

(* VariableState::evaluate; an unbound variable must be a module-level one. *)
EvaluateOK(c, v) == Bound(c, v) \/ IsStatic(v)
Evaluate(c, v) ==
  IF Bound(c, v) THEN c.vis[v]
  ELSE IF IsStatic(v) THEN Sig(FALSE, WireOn[v[2]]) ELSE S0

(* ProceduralContext::substitute_rvalue *)
Substitute(c, v) ==
  IF c.timing = "Initial" THEN c.ini[v]
  ELSE IF IsStatic(v) /\ v \notin c.blocking THEN Sig(FALSE, WireOn[v[2]])
  ELSE Evaluate(c, v)

Eval(c, x) ==
  CASE x[1] = "const" -> (IF x[2] THEN S1 ELSE S0)
    [] x[1] = "wire"  -> Sig(FALSE, WireOn[x[2]])
    [] x[1] = "read"  -> Substitute(c, x[2])

(* The check that a variable is not assigned in both ways. *)

NoteAssignment(c, v, blocking) ==
  CASE ~IsStatic(v) -> c
    [] IsStatic(v) /\ blocking ->
         (IF v \in c.nonblocking THEN [c EXCEPT !.diag = @ \cup {"BlockingAfterNonblocking"}]
                                 ELSE [c EXCEPT !.blocking = @ \cup {v}])
    [] IsStatic(v) /\ ~blocking /\ c.timing = "Initial" ->
         [c EXCEPT !.diag = @ \cup {"NonblockingInInitial"}]
    [] IsStatic(v) /\ ~blocking /\ c.timing # "Initial" ->
         (IF v \in c.blocking THEN [c EXCEPT !.diag = @ \cup {"NonblockingAfterBlocking"}]
                              ELSE [c EXCEPT !.nonblocking = @ \cup {v}])

(* current_case->actions.push_back *)
Logged(c, v, r, mask) ==
  IF IsStatic(v)
    THEN [c EXCEPT !.log = Append(@, [v |-> v, path |-> c.cas.path,
                                      on |-> c.cas.on \cap mask.on, val |-> r.on])]
    ELSE c

(* ProceduralContext::update_variable_state: bits with a constant zero mask *)
(* are cropped first; an initial process writes the state dictionaries, any *)
(* other logs an action and rebinds the variable.                           *)
Update(c, v, r, mask, blocking) ==
  LET noted  == NoteAssignment(c, v, blocking)
      logged == Logged(noted, v, r, mask)
  IN  CASE mask = S0 -> c
        [] mask # S0 /\ c.timing = "Initial" /\ ~r.const ->
             [noted EXCEPT !.diag = @ \cup {"NonconstantInitial"}]
        [] mask # S0 /\ c.timing = "Initial" /\ r.const ->
             [noted EXCEPT !.ini = Over([u \in {v} |-> r], @)]
        [] c.timing # "Initial" /\ mask = S1 ->
             SetBit(logged, v, r)
        [] c.timing # "Initial" /\ mask \notin {S0, S1} ->
             SetBit([logged EXCEPT !.broken = @ \/ ~EvaluateOK(c, v)],
                    v, Bwmux(Evaluate(c, v), r, mask))

SimpleAssign(c, v, r) == Update(c, v, r, S1, TRUE)

-----------------------------------------------------------------------------
(* SwitchHelper.                                                           *)

OpenSwitch(c, signal) ==
  [parent |-> [c.cas EXCEPT !.nsw = @ + 1], signal |-> signal,
   left |-> c.cas.on, saved |-> NoBits, updates |-> <<>>]

(* enter_branch: the new case is selected by the valuations that no        *)
(* earlier case of the switch has taken and that match its compare, or by  *)
(* all of those if it is the default.                                      *)
EnterBranch(c, h, compare, default) ==
  LET hit == IF default THEN h.left
             ELSE {e \in h.left : e \in h.signal.on <=> e \in compare.on}
  IN  [c |-> [c EXCEPT !.cas = [path |-> Append(h.parent.path, h.parent.nsw),
                                on |-> hit, nsw |-> 0],
                       !.rev = NoBits],
       h |-> [h EXCEPT !.left = @ \ hit, !.saved = c.rev]]

DeadBranch(h, compare) == compare.const /\ h.signal.const /\ compare # h.signal

(* exit_branch, with VariableState::restore. *)
ExitBranch_NoRestore(c, h) ==
  [c |-> [c EXCEPT !.rev = h.saved, !.cas = h.parent],
   h |-> [h EXCEPT !.updates = Append(@, [on |-> c.cas.on,
                                          val |-> [v \in DOMAIN c.rev |-> c.vis[v]]])]]

ExitBranch(c, h) ==
  LET written == DOMAIN c.rev
      kept    == {v \in DOMAIN c.vis : v \notin written \/ c.rev[v] # Sm}
  IN  [c |-> [c EXCEPT !.vis = [v \in kept |-> IF v \in written THEN c.rev[v] ELSE @[v]],
                       !.rev = h.saved, !.cas = h.parent],
       h |-> [h EXCEPT !.updates =
                Append(@, [on |-> c.cas.on, val |-> [v \in written |-> c.vis[v]]])]]

(* The placeholder for v: the last branch rule that fires drives it, else  *)
(* the parent's action does.  Where the parent case is not selected either *)
(* nothing drives it; it reads as the opposite of the value it replaces,   *)
(* the choice least favourable to any use of it.                           *)
Placeholder(c, h, v) ==
  LET driver(e) == {i \in DOMAIN h.updates :
                      e \in h.updates[i].on /\ v \in DOMAIN h.updates[i].val}
      old       == Evaluate(c, v).on
  IN  Sig(FALSE, {e \in Env :
        IF e \notin c.cas.on THEN e \notin old
        ELSE IF driver(e) = {} THEN e \in old
        ELSE e \in h.updates[Max(driver(e))].val[v].on})

(* finish: join the branches.  A variable that is not module-level and was *)
(* not bound before the switch ends its scope here and is dropped.         *)
Finish(c, h) ==
  LET touched == UNION {DOMAIN h.updates[i].val : i \in DOMAIN h.updates}
      joined  == {v \in touched : IsStatic(v) \/ Bound(c, v)}
      merged  == [v \in joined |-> Placeholder(c, h, v)]
  IN  [c EXCEPT !.vis = Over(merged, @),
                !.rev = Over(@, [v \in joined |-> IF Bound(c, v) THEN c.vis[v] ELSE Sm])]

(* add_switch({})->add_case({}): later actions take priority over the      *)
(* switches before them.                                                   *)
Descend_Omitted(c) == c
Descend(c) ==
  [c EXCEPT !.cas = [path |-> Append(@.path, @.nsw + 1), on |-> @.on, nsw |-> 0]]

(* exit_branch and finish for a stack of helpers, innermost first. *)
Close(c, h) == LET x == ExitBranch(c, h) IN Finish(x.c, x.h)
Unwind(c, stack) ==
  LET closed[n \in 0..Len(stack)] ==
        IF n = 0 THEN c ELSE Close(closed[n - 1], stack[Len(stack) - n + 1])
  IN  closed[Len(stack)]

-----------------------------------------------------------------------------
(* Escapes: RegisterEscapeConstructGuard and signal_escape.                *)

Register_NoReset(c, kind) ==
  [c EXCEPT !.nflag = @ + 1, !.esc = Append(@, [kind |-> kind, flag |-> Flag(c.nflag)])]
Register(c, kind) ==
  LET f == Flag(c.nflag)
  IN  SimpleAssign([c EXCEPT !.nflag = @ + 1,
                             !.esc = Append(@, [kind |-> kind, flag |-> f])], f, S0)
Unregister(c) == [c EXCEPT !.esc = Front(@)]

InnermostGuard(c, kind) ==
  Max({i \in DOMAIN c.esc : c.esc[i].kind = kind})

SignalEscape(c, kind) ==
  LET raised[n \in 0..Len(c.esc)] ==
        IF n = 0 THEN c
        ELSE SimpleAssign(raised[n - 1], c.esc[Len(c.esc) - n + 1].flag, S1)
  IN  raised[Len(c.esc) - InnermostGuard(c, kind) + 1]

(* StatementList: the flag of the innermost guard disables what follows.   *)
DisableFlag(c) == Last(c.esc).flag

Skipped(c) == c.esc # <<>> /\ Substitute(c, DisableFlag(c)) = S1

(* Open a switch on signal, enter the branch for `compare' and push it.    *)
Divert(g, signal, compare) ==
  LET e == EnterBranch(g.c, OpenSwitch(g.c, signal), compare, FALSE)
  IN  [c |-> e.c, sw |-> Append(g.sw, e.h)]

Reset(g, flag) == [g EXCEPT !.c = SimpleAssign(@, flag, S0)]

(* What the list does before it visits its next statement. *)
Guarded(c, sw) ==
  LET g == [c |-> c, sw |-> sw]
  IN  IF c.esc = <<>> \/ Substitute(c, DisableFlag(c)).const THEN g
      ELSE Reset(Divert(g, Substitute(c, DisableFlag(c)), S0), DisableFlag(c))

-----------------------------------------------------------------------------
(* UnrollLimitTracking.                                                    *)

EnterUnrolling(c) ==
  IF c.unrolling = 0
    THEN [c EXCEPT !.unrolling = 1, !.counter = 0, !.exhausted = FALSE]
    ELSE [c EXCEPT !.unrolling = @ + 1]
ExitUnrolling_Forgotten(c) == c
ExitUnrolling(c) == [c EXCEPT !.unrolling = @ - 1]
TickFails(c) == c.exhausted \/ c.counter + 1 > Limit
Tick(c) ==
  CASE c.exhausted -> c
    [] ~c.exhausted /\ c.counter + 1 > Limit ->
         [c EXCEPT !.counter = @ + 1, !.exhausted = TRUE,
                   !.diag = @ \cup {"UnrollLimitExhausted"}]
    [] OTHER -> [c EXCEPT !.counter = @ + 1]

-----------------------------------------------------------------------------
(* StatementExecutor.  Every body is a statement list, whose open switches *)
(* are the `sw' of the construct's frame; a single statement that is not   *)
(* in a list of its own behaves as a list of one, its flag being constant. *)

Frame == Last(ctl)
Depth == Cardinality({i \in DOMAIN ctl : ctl[i].kind = "call"})
InList == Frame.kind = "select" => Frame.open

\* Diagnostics are errors: nothing is claimed about a process that has one.
Running == steps < profile.length /\ ctx.diag = {} /\ ~ctx.broken

Reaches(construct) ==
  Running /\ construct \in profile.constructs /\ InList /\ ~Skipped(ctx)
Opens(construct) == Reaches(construct) /\ Len(ctl) <= profile.nest

G == Guarded(ctx, Frame.sw)
Here(g) == [ctl EXCEPT ![Len(ctl)].sw = g.sw]

MyLocal == IF Depth = 0 THEN {} ELSE {Local(Depth)}
Locals  == {Read(v) : v \in MyLocal}
Tests   == profile.conds \cup Locals
Sources == profile.rvalues \cup Locals

Assign(v, x, m, blocking) ==
  /\ Reaches("assign")
  /\ blocking \/ IsStatic(v)
  /\ ctx' = Update(G.c, v, Eval(G.c, x), Eval(G.c, m), blocking)
  /\ ctl' = Here(G)
  /\ sem' = AssignVar(sem, v, x, m, blocking)

BeginBlock ==
  /\ Opens("block")
  /\ ctx' = G.c
  /\ ctl' = Append(Here(G), [kind |-> "block", sw |-> <<>>])
  /\ UNCHANGED sem

EndBlock ==
  /\ Running /\ Frame.kind = "block"
  /\ ctx' = Unwind(ctx, Frame.sw)
  /\ ctl' = Front(ctl)
  /\ UNCHANGED sem

Select(stmt, h, open) ==
  [kind |-> "select", stmt |-> stmt, h |-> h, open |-> open, last |-> FALSE, sw |-> <<>>]

(* A condition known to be 1 leaves just the statement, one known to be 0  *)
(* skips it; the else branch of the latter is a block like any other.      *)
BeginIf(x) ==
  LET cond == Eval(G.c, x)
      e    == EnterBranch(G.c, OpenSwitch(G.c, cond), S1, FALSE)
  IN  /\ Opens("if")
      /\ ~cond.const
      /\ ctx' = e.c
      /\ ctl' = Append(Here(G), Select("if", e.h, TRUE))
      /\ sem' = SelectItem(SelectBegin(sem, x), sem.live \cap Truth(sem, x))

IfKnown(x) ==
  LET cond == Eval(G.c, x)
  IN  /\ Opens("if")
      /\ cond.const
      /\ ctx' = G.c
      /\ ctl' = IF cond = S1 THEN Append(Here(G), [kind |-> "block", sw |-> <<>>])
                             ELSE Here(G)
      /\ UNCHANGED sem

BeginCase(x) ==
  LET h == OpenSwitch(G.c, Eval(G.c, x))
  IN  /\ Opens("case")
      /\ ctx' = [G.c EXCEPT !.cas = h.parent]
      /\ ctl' = Append(Here(G), Select("case", h, FALSE))
      /\ sem' = SelectBegin(sem, x)

(* The end of the branch that is open, if one is. *)
CloseBranch(c, f) ==
  IF f.open THEN ExitBranch(Unwind(c, f.sw), f.h) ELSE [c |-> c, h |-> f.h]

CaseItem(x) ==
  LET d       == CloseBranch(ctx, Frame)
      compare == Eval(d.c, x)
      e       == EnterBranch(d.c, d.h, compare, FALSE)
      dead    == DeadBranch(d.h, compare)
  IN  /\ Running /\ Frame.kind = "select" /\ Frame.stmt = "case" /\ ~Frame.last
      /\ ctx' = IF dead THEN d.c ELSE e.c
      /\ ctl' = [ctl EXCEPT ![Len(ctl)] =
                   [@ EXCEPT !.h = IF dead THEN d.h ELSE e.h, !.open = ~dead, !.sw = <<>>]]
      /\ sem' = SelectItem(sem, ItemMatch(sem, x))

(* else, or default *)
DefaultBranch ==
  LET d == CloseBranch(ctx, Frame)
      e == EnterBranch(d.c, d.h, S1, TRUE)
  IN  /\ Running /\ Frame.kind = "select" /\ ~Frame.last
      /\ ctx' = e.c
      /\ ctl' = [ctl EXCEPT ![Len(ctl)] =
                   [@ EXCEPT !.h = e.h, !.open = TRUE, !.last = TRUE, !.sw = <<>>]]
      /\ sem' = SelectItem(sem, TopFrame(sem).rest)

EndSelect ==
  LET d == CloseBranch(ctx, Frame)
  IN  /\ Running /\ Frame.kind = "select"
      /\ ctx' = Descend(Finish(d.c, d.h))
      /\ ctl' = Front(ctl)
      /\ sem' = SelectEnd(sem)

(* The test at the head of a loop: r.go says whether the body is entered.  *)
(* Only while reads its flag here, and only while clears it again.         *)
Go(g)   == [g |-> g, go |-> TRUE]
Stop(g) == [g |-> g, go |-> FALSE]

LoopHead(g, f) ==
  LET cv == Eval(g.c, f.cond)
      jb == LogicOr(LogicNot(cv), Evaluate(g.c, f.flag))
      gw == [g EXCEPT !.c.broken = @ \/ ~EvaluateOK(g.c, f.flag)]
  IN  CASE f.stmt = "foreach"             -> Go(g)
        [] f.stmt = "for" /\ cv.const     -> (IF cv = S1 THEN Go(g) ELSE Stop(g))
        [] f.stmt = "for" /\ ~cv.const    -> Go(Divert(g, cv, S1))
        [] f.stmt = "while" /\ jb.const   -> (IF jb = S1 THEN Stop(gw) ELSE Go(gw))
        [] f.stmt = "while" /\ ~jb.const  -> Go(Reset(Divert(gw, jb, S0), f.flag))

(* Between two iterations: the break check, the step and the unroll limit. *)
BreakChecked_Skipped(g, f) == g
BreakChecked(g, f) ==
  LET br == Substitute(g.c, f.flag)
  IN  IF f.stmt = "while" \/ br.const THEN g ELSE Divert(g, br, S0)

Stepped(g, f) ==
  IF f.step = None THEN g
  ELSE [g EXCEPT !.c = Update(@, f.step[1], Eval(@, f.step[2]), S1, TRUE)]

CheckedAndStepped(g, f) == Stepped(BreakChecked(g, f), f)

Advance(g, f, last) ==
  LET br      == Substitute(g.c, f.flag)
      checked == BreakChecked(g, f)
      stepped == CheckedAndStepped(g, f)
      ticked  == [stepped EXCEPT !.c = Tick(@)]
  IN  IF f.stmt # "while" /\ br = S1     THEN Stop(g)
      ELSE IF f.stmt = "foreach" /\ last THEN Stop(checked)
      ELSE IF TickFails(stepped.c)       THEN Stop(ticked)
      ELSE LoopHead(ticked, f)

(* Enter the body of the next iteration, or leave the loop for good. *)
EnterBody(below, f, g) ==
  /\ ctx' = Register(g.c, "LoopBody")
  /\ ctl' = Append(below, [f EXCEPT !.lsw = g.sw, !.sw = <<>>])

LeaveLoop(below, g) ==
  /\ ctx' = Unregister(Descend(Unwind(ExitUnrolling(g.c), g.sw)))
  /\ ctl' = below

(* A foreach has at least one element, so its body is entered at once; it  *)
(* ends with its last element.                                             *)
BeginLoop(stmt, x, step) ==
  LET c == EnterUnrolling(Register(G.c, "Loop"))
      f == [kind |-> "loop", stmt |-> stmt, cond |-> x, step |-> step,
            flag |-> DisableFlag(c), lsw |-> <<>>, sw |-> <<>>]
      r == LoopHead([c |-> c, sw |-> <<>>], f)
      s == IF stmt = "foreach" THEN LoopBegin(sem) ELSE LoopTest(LoopBegin(sem), x)
  IN  /\ Opens(stmt) /\ stmt \in {"while", "for", "foreach"}
      /\ stmt = "foreach" => x = Const(TRUE)
      /\ step # None => stmt = "for"
      /\ IF r.go THEN EnterBody(Here(G), f, r.g) ELSE LeaveLoop(Here(G), r.g)
      /\ sem' = IF r.go THEN s ELSE LoopEnd(s)

SemStep(s, f) ==
  IF f.step = None THEN s
  ELSE AssignVar(s, f.step[1], f.step[2], Const(TRUE), TRUE)

EndIteration(last) ==
  LET f == Frame
      c == Unregister(Unwind(ctx, f.sw))
      r == Advance([c |-> c, sw |-> f.lsw], f, last)
      i == IterationEnd(sem)
      s == IF f.stmt = "foreach" THEN i ELSE LoopTest(SemStep(i, f), f.cond)
  IN  /\ Running /\ Frame.kind = "loop"
      /\ last => f.stmt = "foreach"
      /\ IF r.go THEN EnterBody(Front(ctl), f, r.g) ELSE LeaveLoop(Front(ctl), r.g)
      /\ sem' = IF r.go THEN s ELSE LoopEnd(s)

(* A task or function call with one inout argument, which also serves as   *)
(* the return variable; `target' is what it is copied out to.              *)
BeginCall(x, target) ==
  LET v    == Local(Depth + 1)
      init == SimpleAssign(G.c, v, S0)
      args == SimpleAssign(init, v, Eval(G.c, x))
  IN  /\ Opens("call")
      /\ ctx' = Register(args, "FunctionBody")
      /\ ctl' = Append(Here(G), [kind |-> "call", target |-> target, sw |-> <<>>])
      /\ sem' = CallBegin(sem, v, x)

EndCall ==
  LET f   == Frame
      c   == Unregister(Unwind(ctx, f.sw))
      ret == Local(Depth)
  IN  /\ Running /\ Frame.kind = "call"
      /\ ctx' = IF f.target = None THEN c
                ELSE Update(c, f.target, Substitute(c, ret), S1, TRUE)
      /\ ctl' = Front(ctl)
      /\ sem' = IF f.target = None THEN CallEnd(sem)
                ELSE AssignVar(CallEnd(sem), f.target, Read(ret), Const(TRUE), TRUE)

(* break and continue leave a loop of the same call. *)
InLoop ==
  \E i \in DOMAIN ctl : /\ ctl[i].kind = "loop"
                        /\ \A j \in i..Len(ctl) : ctl[j].kind # "call"

GuardKind == [break |-> "Loop", continue |-> "LoopBody", return |-> "FunctionBody"]

BreakOrContinue(stmt) ==
  /\ Reaches(stmt) /\ stmt \in {"break", "continue"} /\ InLoop
  /\ ctx' = SignalEscape(G.c, GuardKind[stmt])
  /\ ctl' = Here(G)
  /\ sem' = Escape(sem, stmt)

Return(x) ==
  LET v == Local(Depth)
  IN  /\ Reaches("return") /\ Depth > 0
      /\ ctx' = SignalEscape(SimpleAssign(G.c, v, Eval(G.c, x)), "FunctionBody")
      /\ ctl' = Here(G)
      /\ sem' = Escape(AssignVar(sem, v, x, Const(TRUE), TRUE), "return")

-----------------------------------------------------------------------------

Init ==
  /\ profile \in Profiles
  /\ ctx = ContextInit(profile.timing)
  /\ ctl = <<[kind |-> "root", sw |-> <<>>]>>
  /\ sem = SemInit([v \in StaticVars |->
                      IF ctx.timing = "Initial" THEN {} ELSE WireOn[v[2]]])
  /\ steps = 0

Statement ==
  \/ \E v \in StaticVars \cup MyLocal, x \in Sources, m \in profile.masks, b \in BOOLEAN :
        Assign(v, x, m, b)
  \/ BeginBlock
  \/ EndBlock
  \/ \E x \in Tests : BeginIf(x) \/ IfKnown(x)
  \/ \E x \in Tests : BeginCase(x)
  \/ \E x \in Tests : CaseItem(x)
  \/ DefaultBranch
  \/ EndSelect
  \/ \E stmt \in profile.constructs, x \in Tests, step \in profile.advances : BeginLoop(stmt, x, step)
  \/ \E last \in BOOLEAN : EndIteration(last)
  \/ \E x \in Sources, target \in StaticVars \cup {None} : BeginCall(x, target)
  \/ EndCall
  \/ \E stmt \in profile.constructs : BreakOrContinue(stmt)
  \/ \E x \in Sources : Return(x)

Next == Statement /\ steps' = steps + 1 /\ UNCHANGED profile

Spec == Init /\ [][Next]_vars

-----------------------------------------------------------------------------
(* Properties.                                                             *)

(* Only variables in scope have values, and loops are entered and left in  *)
(* pairs.                                                                  *)
TypeOK ==
  /\ DOMAIN ctx.vis \subseteq (StaticVars \cup {Local(d) : d \in 1..profile.nest}
                                \cup {Flag(n) : n \in 0..(ctx.nflag - 1)})
  /\ DOMAIN ctx.rev \subseteq DOMAIN ctx.vis
  /\ ctx.cas.on \subseteq Env
  /\ ctx.blocking \cup ctx.nonblocking \subseteq StaticVars
  /\ ctx.unrolling = Cardinality({i \in DOMAIN ctl : ctl[i].kind = "loop"})
  /\ steps \in 0..profile.length

Agree(a, b) == a \cap sem.live = b \cap sem.live

(* Without diagnostics, every variable in scope reads, at every point of   *)
(* the execution, as it does in the sequential program for each valuation  *)
(* that gets there, and the signal that will drive a module-level variable *)
(* is its final value so far.                                              *)
ValuesCorrect ==
  ctx.diag = {} /\ ~ctx.broken =>
    /\ \A v \in StaticVars \cup MyLocal : Agree(Substitute(ctx, v).on, sem.cur[v])
    /\ ctx.timing # "Initial" =>
         \A v \in StaticVars : Agree(Evaluate(ctx, v).on, Final(sem, v))

(* A side effect placed at the next statement (a memory write port, a      *)
(* $check, a $print) would be enabled in exactly the valuations that       *)
(* execute that statement; a skipped statement or case item is executed by *)
(* none.                                                                   *)
EnablesExact ==
  ctx.timing # "Initial" /\ ctx.diag = {} /\ ~ctx.broken =>
    IF ~InList \/ Skipped(ctx) THEN sem.live = {} ELSE G.c.cas.on = sem.live

(* Of two actions on the same variable the later one in the lowered case   *)
(* tree: a case's own actions come before its switches, and those in order. *)
Overrides(j, i) ==
  LET p == ctx.log[i].path
      q == ctx.log[j].path
      n == Min({Len(p), Len(q)})
      differ == {k \in 1..n : p[k] # q[k]}
  IN  IF differ = {} THEN Len(q) > Len(p) \/ (Len(q) = Len(p) /\ j > i)
      ELSE q[Min(differ)] > p[Min(differ)]

(* What the latch of v is fed with: insert_latch_signaling turns every     *)
(* action into a staging value and an enable at the action's place in the  *)
(* tree, so the latch is open iff v was assigned, and it then takes the    *)
(* value assigned last.                                                    *)
LatchStaging ==
  LET all  == DOMAIN ctx.log
      over == {p \in all \X all : p[1] # p[2] /\ Overrides(p[1], p[2])}
  IN  ctx.diag = {} /\ ~ctx.broken =>
    \A v \in StaticVars : \A e \in sem.live :
      LET acts == {i \in all : ctx.log[i].v = v /\ e \in ctx.log[i].on}
          top  == {j \in acts : {j} \X (acts \ {j}) \subseteq over}
      IN  /\ acts # {} <=> e \in sem.written[v]
          /\ \A j \in top : e \in ctx.log[j].val <=> e \in Final(sem, v)

(* The same of programs without return and continue.  The switches these    *)
(* leave open at the end of a list are closed without descending into an    *)
(* empty case, so what follows the call, or the loop body, may be lowered    *)
(* before them; break has its loop descend, which is what the property is    *)
(* about, as have if and case.                                              *)
LatchStagingOutsideEscapes ==
  {"return", "continue"} \cap profile.constructs = {} => LatchStaging

HasValue(v) == IF ctx.timing = "Initial" THEN v \in DOMAIN ctx.ini ELSE EvaluateOK(ctx, v)

(* No assertion of the elaborator fires: nothing was read that had no      *)
(* value, and the escape flags and locals in scope, which the next         *)
(* statement may read, all have one.                                       *)
NoAssertionFailure ==
  /\ ~ctx.broken
  /\ \A v \in MyLocal \cup {ctx.esc[i].flag : i \in DOMAIN ctx.esc} : HasValue(v)
=============================================================================
