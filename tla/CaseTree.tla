------------------------------ MODULE CaseTree ------------------------------
(***************************************************************************)
(* The case tree a process is elaborated into (Case, Switch), and what is  *)
(* done with it afterwards: detect_possibly_unassigned_subset finds the    *)
(* bits that need a latch, insert_latch_signaling rewrites the assignments *)
(* to those into drivers of the latch's enable and data, and copy_into     *)
(* lowers the tree to RTLIL.  All three are compared with what the tree    *)
(* means: a case performs its actions, then its switches in order, and a   *)
(* switch the first of its cases that matches.                             *)
(*                                                                         *)
(* The state machine grows a tree the way SwitchHelper and                 *)
(* update_variable_state do; every state is a tree to check.               *)
(***************************************************************************)
EXTENDS Naturals, Sequences, FiniteSets, SequencesExt

CONSTANTS
  Wires,     (* one-bit wires, as strings                                  *)
  Bits,      (* variable bits the process assigns                          *)
  Switches,  (* the switches there may be: what they dispatch on, a sequence *)
             (* of wires, "0" and "1", and whether they carry full_case    *)
  Compares,  (* what a case may list: sets of sequences of these and "-"   *)
  Assigns,   (* what may be assigned to a bit: an enable and a value       *)
  MaxSteps, MaxNest   (* bounds on the size and depth of the tree          *)

ASSUME CaseTreeAssumption == MaxSteps \in Nat /\ MaxNest \in Nat

VARIABLES
  open,      (* the nodes from the root to the current case                *)
  steps

vars == <<open, steps>>

NewCase(compare) ==
  [compare |-> compare, actions |-> <<>>, aux |-> <<>>, switches |-> <<>>]
NewSwitch(s) == [signal |-> s.signal, full |-> s.full, cases |-> <<>>]
Dispatch(signal) == [signal |-> signal, full |-> FALSE]

Current == Last(open)
Grows   == steps < MaxSteps

(* A definition whose name continues another one's after an underscore is  *)
(* that definition with a plausible mistake; no specification uses it.     *)

(* Finish the current case, and then its switch too. *)
CaseDone(nodes) ==
  LET n == Len(nodes)
  IN  Append(SubSeq(nodes, 1, n - 2), [nodes[n-1] EXCEPT !.cases = Append(@, nodes[n])])
SwitchDone(nodes) ==
  LET n == Len(nodes)
  IN  Append(SubSeq(nodes, 1, n - 2), [nodes[n-1] EXCEPT !.switches = Append(@, nodes[n])])

Listed(signal, compare) == \A c \in compare : Len(c) = Len(signal)

Init == open = <<NewCase({})>> /\ steps = 0

(* update_variable_state *)
PushAction(lvalue, a) ==
  /\ Grows
  /\ open' = Append(Front(open), [Current EXCEPT !.actions =
               Append(@, [mask |-> [b \in lvalue |-> a[1]], val |-> [b \in lvalue |-> a[2]]])])

(* The first branch of a SwitchHelper, and its later ones. *)
FirstCase(s, compare) ==
  /\ Grows /\ Len(open) <= 2 * MaxNest
  /\ Listed(s.signal, compare)
  /\ open' = open \o <<NewSwitch(s), NewCase(compare)>>

NextCase(compare) ==
  /\ Grows /\ Len(open) > 1
  /\ open[Len(open) - 1].signal # <<>>
  /\ Listed(open[Len(open) - 1].signal, compare)
  /\ open' = Append(CaseDone(open), NewCase(compare))

(* add_switch({})->add_case({}), after an if, a case or a loop. *)
Descend == FirstCase(Dispatch(<<>>), {})

EndSwitch_CaseOnly ==
  /\ Grows /\ Len(open) > 1
  /\ open' = CaseDone(open)

EndSwitch ==
  /\ Grows /\ Len(open) > 1
  /\ open' = SwitchDone(CaseDone(open))

Next ==
  /\ \/ \E l \in SUBSET Bits \ {{}}, a \in Assigns : PushAction(l, a)
     \/ \E s \in Switches, c \in Compares : FirstCase(s, c)
     \/ \E c \in Compares : NextCase(c)
     \/ Descend
     \/ EndSwitch
  /\ steps' = steps + 1

Spec == Init /\ [][Next]_vars

RECURSIVE Whole(_)
Whole(nodes) == IF Len(nodes) = 1 THEN nodes[1] ELSE Whole(SwitchDone(CaseDone(nodes)))
Tree == Whole(open)

-----------------------------------------------------------------------------
(* What a tree means under a valuation of the wires.                       *)

Env == [Wires -> BOOLEAN]
On(e, w) == IF w \in Wires THEN e[w] ELSE w = "1"

Fits(e, signal, c) ==
  \A i \in 1..Len(signal) : c[i] = "-" \/ (On(e, c[i]) <=> On(e, signal[i]))
Matches(e, signal, case) ==
  case.compare = {} \/ \E c \in case.compare : Fits(e, signal, c)

Taken(e, sw) ==
  LET hits == {i \in 1..Len(sw.cases) : Matches(e, sw.signal, sw.cases[i])}
  IN  IF hits = {} THEN <<>>
      ELSE <<sw.cases[CHOOSE i \in hits : \A j \in hits : i <= j]>>

MapSeq(op(_), s)    == LET add(acc, x) == Append(acc, op(x)) IN FoldLeft(add, <<>>, s)
ConcatMap(op(_), s) == LET add(acc, x) == acc \o op(x) IN FoldLeft(add, <<>>, s)

(* The actions, and the aux_actions, that are performed, in order. *)
RECURSIVE ActionsOf(_, _)
ActionsOf(e, case) ==
  LET taken(sw) == ConcatMap(LAMBDA c : ActionsOf(e, c), Taken(e, sw))
  IN  case.actions \o ConcatMap(taken, case.switches)
RECURSIVE DrivesOf(_, _)
DrivesOf(e, case) ==
  LET taken(sw) == ConcatMap(LAMBDA c : DrivesOf(e, c), Taken(e, sw))
  IN  case.aux \o ConcatMap(taken, case.switches)

Writes(e, a, b) == b \in DOMAIN a.mask /\ On(e, a.mask[b])

(* What the last of them leaves in a bit and in a target: <<>> if nothing. *)
Effect(e, actions, b) ==
  LET at == {i \in 1..Len(actions) : Writes(e, actions[i], b)}
  IN  IF at = {} THEN <<>> ELSE <<On(e, actions[Max(at)].val[b])>>
Driven(e, drives, target) ==
  LET at == {i \in 1..Len(drives) : drives[i].to = target}
  IN  IF at = {} THEN <<>> ELSE <<On(e, drives[Max(at)].val)>>

Assigned(e, tree) ==
  {b \in Bits : \E a \in Range(ActionsOf(e, tree)) : Writes(e, a, b)}

(* A full_case switch promises that one of its cases is taken. *)
RECURSIVE KeepsPromises(_, _)
KeepsPromises(e, case) ==
  \A i \in 1..Len(case.switches) :
    LET t == Taken(e, case.switches[i])
    IN  IF t = <<>> THEN ~case.switches[i].full ELSE KeepsPromises(e, t[1])

-----------------------------------------------------------------------------
(* BitPatternPool: the values of the signal that no case has taken.  The   *)
(* pool of an empty signal is empty from the start.                        *)

FullyConst(c) == \A i \in 1..Len(c) : c[i] \notin Wires
PoolOf(signal) ==
  IF signal = <<>> THEN {}
  ELSE {p \in [1..Len(signal) -> {"0", "1"}] :
          \A i \in 1..Len(signal) : signal[i] \in Wires \/ p[i] = signal[i]}
Covered(pool, c) == {p \in pool : \A i \in 1..Len(c) : c[i] \in {"-", p[i]}}

AfterCase_NoDefault(pool, case) ==
  pool \ UNION {Covered(pool, c) : c \in {d \in case.compare : FullyConst(d)}}
AfterCase(pool, case) ==
  IF case.compare = {} THEN {}
  ELSE pool \ UNION {Covered(pool, c) : c \in {d \in case.compare : FullyConst(d)}}

Selectable_ConstOnly(sw, pool, case) ==
  \/ case.compare = {} /\ (pool # {} \/ sw.signal = <<>>)
  \/ \E c \in case.compare : FullyConst(c) /\ Covered(pool, c) # {}
Selectable(sw, pool, case) ==
  \/ case.compare = {} /\ (pool # {} \/ sw.signal = <<>>)
  \/ \E c \in case.compare : IF FullyConst(c) THEN Covered(pool, c) # {} ELSE pool # {}

(* detect_possibly_unassigned_subset: a case that can be selected leaves    *)
(* some of what is left; the switch counts if its cases are exhaustive.     *)
RECURSIVE PossiblyUnassigned(_, _)
PossiblyUnassigned(signals, case) ==
  LET full(a) == \A b \in DOMAIN a.mask : a.mask[b] = "1"
      written == UNION {DOMAIN a.mask : a \in {d \in Range(case.actions) : full(d)}}
      switch(remaining, sw) ==
        LET visit(acc, c) ==
              [pool |-> AfterCase(acc.pool, c),
               left |-> acc.left \cup (IF Selectable(sw, acc.pool, c)
                                         THEN PossiblyUnassigned(remaining, c) ELSE {})]
            all == FoldLeft(visit, [pool |-> PoolOf(sw.signal), left |-> {}], sw.cases)
        IN  IF sw.full \/ all.pool = {} THEN all.left ELSE remaining
  IN  FoldLeft(switch, signals \ written, case.switches)

-----------------------------------------------------------------------------
(* insert_latch_signaling for the bits in map.  A bit assigned under a     *)
(* mask gets a switch of its own before the others, and so does every      *)
(* later assignment to it in the case.                                     *)

Signalling(b, r) == <<[to |-> <<"staging", b>>, val |-> r], [to |-> <<"enable", b>>, val |-> "1"]>>

MaskSwitch(mask, b, r) ==
  [NewSwitch(Dispatch(<<mask>>)) EXCEPT
     !.cases = <<[NewCase({<<"1">>}) EXCEPT !.aux = Signalling(b, r)]>>]

RECURSIVE WithLatches(_, _)
WithLatches(case, map) ==
  LET visit(acc, a) ==
        LET bits   == DOMAIN a.mask \cap map
            direct == {b \in bits : a.mask[b] = "1" /\ b \notin acc.masked}
            other  == bits \ direct
        IN  [aux    |-> acc.aux \o FlattenSeq(SetToSeq({Signalling(b, a.val[b]) : b \in direct})),
             pre    |-> acc.pre \o SetToSeq({MaskSwitch(a.mask[b], b, a.val[b]) : b \in other}),
             masked |-> acc.masked \cup other]
      all == FoldLeft(visit, [aux |-> case.aux, pre |-> <<>>, masked |-> {}], case.actions)
      below(sw) == [sw EXCEPT !.cases = MapSeq(LAMBDA c : WithLatches(c, map), @)]
  IN  [case EXCEPT !.aux = all.aux, !.switches = all.pre \o MapSeq(below, @)]

(* Case::copy_into and Switch::lower: a last switch that selects its one   *)
(* case unconditionally is replaced by that case's own switches.           *)
Trivial(sw) == sw.signal = <<>> /\ ~sw.full /\ Len(sw.cases) = 1 /\ sw.cases[1].compare = {}

Hoisted_Dropped(case) == <<>>
Hoisted(case) ==
  IF case.aux = <<>> THEN <<>>
  ELSE <<[NewSwitch(Dispatch(<<>>)) EXCEPT !.cases = <<[NewCase({}) EXCEPT !.aux = case.aux]>>]>>

RECURSIVE Lower(_)
RECURSIVE LowerAll(_)
LowerAll(switches) ==
  CASE switches = <<>> -> <<>>
    [] Len(switches) = 1 /\ Trivial(switches[1]) ->
         Hoisted(switches[1].cases[1]) \o LowerAll(switches[1].cases[1].switches)
    [] OTHER ->
         <<[switches[1] EXCEPT !.cases = MapSeq(Lower, @)]>>
           \o LowerAll(Tail(switches))
Lower(case) == [case EXCEPT !.actions = <<>>, !.switches = LowerAll(@)]

-----------------------------------------------------------------------------

(* The open nodes are a path of cases and switches that ends in a case.    *)
TypeOK ==
  /\ Len(open) % 2 = 1
  /\ \A i \in 1..Len(open) :
       DOMAIN open[i] = IF i % 2 = 1 THEN {"compare", "actions", "aux", "switches"}
                                     ELSE {"signal", "full", "cases"}
  /\ steps \in 0..MaxSteps

RECURSIVE Mentioned(_)
Mentioned(case) ==
  UNION {DOMAIN a.mask : a \in Range(case.actions)}
    \cup UNION {UNION {Mentioned(c) : c \in Range(sw.cases)} : sw \in Range(case.switches)}

Latched(tree) == PossiblyUnassigned(Mentioned(tree), tree)

(* A bit that gets no latch is assigned whatever the wires are, as long as *)
(* the program keeps its unique and priority promises: no combinational    *)
(* process loses a latch it needs.                                         *)
NoLatchMissed ==
  LET tree == Tree
      safe == Mentioned(tree) \ Latched(tree)
  IN  safe # {} => \A e \in Env : KeepsPromises(e, tree) => safe \subseteq Assigned(e, tree)

(* The wires a tree tests, and trees without wires in compares or masks. *)
RECURSIVE Tests(_)
Tests(case) ==
  LET wires(sw) == SelectSeq(sw.signal, LAMBDA w : w \in Wires)
      below(sw) == wires(sw) \o ConcatMap(Tests, sw.cases)
  IN  ConcatMap(below, case.switches)
RECURSIVE Plain(_)
Plain(case) ==
  /\ \A c \in case.compare : FullyConst(c)
  /\ \A a \in Range(case.actions) : \A b \in DOMAIN a.mask : a.mask[b] = "1"
  /\ \A sw \in Range(case.switches) : \A c \in Range(sw.cases) : Plain(c)
(* Where no condition is tested twice, a bit that gets a latch is really   *)
(* left unassigned by some valuation.                                      *)
NoLatchNeedless ==
  LET tree == Tree
      kept == {e \in Env : KeepsPromises(e, tree)}
  IN  Plain(tree) /\ IsInjective(Tests(tree)) /\ kept # {} =>
        \A b \in Latched(tree) : \E e \in kept : b \notin Assigned(e, tree)

(* The lowered tree opens the latch of a bit exactly when the program      *)
(* assigns the bit, and feeds it the value assigned last.                  *)
LatchFollowsProgram ==
  LET tree    == Tree
      latched == Latched(tree)
      lowered == Lower(WithLatches(tree, latched))
  IN  latched # {} =>
        \A e \in Env :
          LET actions == ActionsOf(e, tree)
              drives  == DrivesOf(e, lowered)
          IN  \A b \in latched :
                /\ Driven(e, drives, <<"staging", b>>) = Effect(e, actions, b)
                /\ Driven(e, drives, <<"enable", b>>) =
                     (IF Effect(e, actions, b) = <<>> THEN <<>> ELSE <<TRUE>>)
=============================================================================
