---------------------------- MODULE AsyncPattern ----------------------------
(***************************************************************************)
(* TimingPatternInterpretor: what an always process is.  Its event list    *)
(* decides between combinational and clocked; for a clocked process with   *)
(* several edges the leading statements (the prologue) are set apart and   *)
(* an if-else is taken off for each edge but the last, which is the clock. *)
(*                                                                         *)
(* A program is a record of                                                *)
(*   always_ff  whether it is an always_ff procedure                       *)
(*   events     a sequence of [edge, sig]                                  *)
(*   prologue   the assignments before the if-else chain                   *)
(*   branches   the chain: a sequence of [sig, ops, body], where the       *)
(*              condition applies the operators ops, innermost first, to   *)
(*              the one-bit signal sig                                     *)
(*   sync       the last else, or None                                     *)
(***************************************************************************)
EXTENDS Naturals, Sequences, FiniteSets, SequencesExt

CONSTANTS
  AllowDualEdge,   (* --allow-dual-edge-ff                                 *)
  IgnoreTiming,    (* --ignore-timing                                      *)
  None

ASSUME OptionsAssumption == {AllowDualEdge, IgnoreTiming} \subseteq BOOLEAN

(* A definition whose name continues another one's after an underscore is  *)
(* that definition with a plausible mistake; no specification uses it.     *)

-----------------------------------------------------------------------------
(* handle_always                                                           *)

EdgesIn(p)  == {p.events[i].edge : i \in DOMAIN p.events}
IsTrigger(e) == e.edge \in {"pos", "neg"} \/ (e.edge = "both" /\ AllowDualEdge)
TriggersAmong(p) ==
  LET among[n \in 0..Len(p.events)] ==
        IF n = 0 THEN <<>>
        ELSE IF IsTrigger(p.events[n]) THEN Append(among[n - 1], p.events[n])
        ELSE among[n - 1]
  IN  among
Triggers(p) == TriggersAmong(p)[Len(p.events)]

Implicit(p) ==
  \/ ~p.always_ff /\ EdgesIn(p) \cap {"level", "star"} # {}
  \/ IgnoreTiming /\ "delay" \in EdgesIn(p)

TimingErrors(p) ==
  UNION {IF p.always_ff /\ EdgesIn(p) \cap {"level", "star"} # {} THEN {"AlwaysFFBadTiming"} ELSE {},
         IF "both" \in EdgesIn(p) /\ ~AllowDualEdge THEN {"BothEdgesUnsupported"} ELSE {},
         IF "delay" \in EdgesIn(p) /\ ~IgnoreTiming THEN {"GenericTimingUnsyn"} ELSE {},
         IF Implicit(p) /\ Triggers(p) # <<>> THEN {"EdgeImplicitMixing"} ELSE {}}

-----------------------------------------------------------------------------
(* interpret_async_pattern                                                 *)

(* Whether the first n operators yield a value wider than one bit.  A      *)
(* comparison with 1 is looked through only if it is one bit wide.         *)
Wide(ops, n) ==
  \E i \in 1..n : ops[i] = "wide" /\ \A j \in (i + 1)..n : ops[j] \notin {"not", "is0", "is1"}
Legible(ops) == \A n \in DOMAIN ops : ops[n] = "is1" => ~Wide(ops, n - 1)

Polarity_OnlyLogical(ops) == Cardinality({n \in DOMAIN ops : ops[n] \in {"not", "is0"}}) % 2 = 0
Polarity(ops) == Cardinality({n \in DOMAIN ops : ops[n] \in {"not", "inv", "is0"}}) % 2 = 0

Fail_Silent(acc, error) == [acc EXCEPT !.failed = TRUE]
Fail(acc, error) == [acc EXCEPT !.errors = @ \cup {error}, !.failed = TRUE]

(* A trigger that has the signal of the condition becomes an asynchronous  *)
(* load, with an error if the edge is not the one the condition tests.     *)
TakeBranch(acc, b) ==
  LET at == {k \in DOMAIN acc.triggers : acc.triggers[k].sig = b.sig}
      k  == CHOOSE i \in at : \A j \in at : i <= j
      edge == IF Polarity(b.ops) THEN "pos" ELSE "neg"
  IN  IF at = {} \/ ~Legible(b.ops) THEN Fail(acc, "IfElseAloadMismatch")
      ELSE [acc EXCEPT
              !.errors   = IF acc.triggers[k].edge = edge THEN @ ELSE @ \cup {"IfElseAloadPolarity"},
              !.triggers = RemoveAt(@, k),
              !.async    = Append(@, [sig |-> b.sig, polarity |-> Polarity(b.ops), body |-> b.body])]

(* Branches are taken until one trigger is left; each needs an else.       *)
Untaken(p) == [triggers |-> Triggers(p), async |-> <<>>, errors |-> {}, failed |-> FALSE]

TakeNext(p, acc, i) ==
  IF acc.failed \/ Len(acc.triggers) = 1 THEN acc
  ELSE IF i = Len(p.branches) /\ p.sync = None THEN Fail(acc, "ExpectingIfElseAload")
  ELSE TakeBranch(acc, p.branches[i])

Taken(p) ==
  LET taken[i \in 0..Len(p.branches)] ==
        IF i = 0 THEN Untaken(p) ELSE TakeNext(p, taken[i - 1], i)
  IN  taken

AsyncPattern(p) ==
  LET all == Taken(p)[Len(p.branches)]
  IN  IF ~all.failed /\ Len(all.triggers) > 1 THEN Fail(all, "ExpectingIfElseAload") ELSE all

(* What the process becomes: combinational logic, flip-flops, or nothing.  *)
Interpret(p) ==
  IF Implicit(p) \/ Triggers(p) = <<>>
    THEN [kind |-> IF Implicit(p) THEN "comb" ELSE "nothing", errors |-> TimingErrors(p)]
    ELSE LET a == AsyncPattern(p)
         IN  IF a.failed THEN [kind |-> "nothing", errors |-> TimingErrors(p) \cup a.errors]
             ELSE [kind |-> "ff", errors |-> TimingErrors(p) \cup a.errors,
                   clock |-> a.triggers[1], async |-> a.async,
                   rest |-> SubSeq(p.branches, Len(a.async) + 1, Len(p.branches))]

-----------------------------------------------------------------------------
(* What the language says of a condition: its bits, on a machine where     *)
(* wide means two bits.                                                    *)

Applied(x, op) ==
  CASE op = "not" \/ op = "is0" -> [bits |-> IF x.bits = 0 THEN 1 ELSE 0, max |-> 1]
    [] op = "is1"  -> [bits |-> IF x.bits = 1 THEN 1 ELSE 0, max |-> 1]
    [] op = "inv"  -> [x EXCEPT !.bits = x.max - @]
    [] op = "wide" -> [x EXCEPT !.max = 3]
Operand(on, ops) ==
  LET after[n \in 0..Len(ops)] ==
        IF n = 0 THEN [bits |-> IF on THEN 1 ELSE 0, max |-> 1]
        ELSE Applied(after[n - 1], ops[n])
  IN  after
Holds(on, ops) == Operand(on, ops)[Len(ops)].bits # 0

NoWideInversion(ops) == \A n \in DOMAIN ops : ops[n] = "inv" => ~Wide(ops, n - 1)
=============================================================================
