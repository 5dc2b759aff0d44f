---------------------------- MODULE UnrollLimit ----------------------------
(***************************************************************************)
(* UnrollLimitTracking: one budget of loop iterations for a whole nest of  *)
(* loops.  The outermost loop to be entered resets it, every iteration of  *)
(* every loop of the nest is charged to it, and when it is used up each    *)
(* open loop must be left at its next tick without a second diagnostic.    *)
(*                                                                         *)
(* The loops are those of StatementExecutor's while, for and foreach       *)
(* handlers.  Their conditions are not modelled: a loop may be left before *)
(* any tick, and may also never ask to be left.                            *)
(***************************************************************************)
EXTENDS Naturals, Sequences, FiniteSets

CONSTANTS
  Loops,     (* the loop statements of a process                           *)
  Limit,     (* --unroll-limit                                             *)
  MaxNest,   (* bound on the nesting of loops                              *)
  MaxInner   (* bound on the loops a body runs one after the other         *)

ASSUME UnrollAssumption == Limit \in Nat /\ MaxNest \in Nat /\ MaxInner \in Nat

VARIABLES
  unrolling, (* depth of the nest                                          *)
  counter,   (* unroll_counter                                             *)
  issued,    (* error_issued                                               *)
  loops,     (* the statements charged so far, for the diagnostic's notes  *)
  open,      (* the executor's call stack: each open loop, and how many    *)
             (* inner loops its current iteration has run                  *)
  diags      (* UnrollLimitExhausted as issued in this nest: the statement *)
             (* blamed and the other loops noted                           *)

vars == <<unrolling, counter, issued, loops, open, diags>>

Init ==
  /\ unrolling = 0 /\ counter = 0
  /\ issued = FALSE
  /\ loops = {}
  /\ open = <<>>
  /\ diags = {}

Top == open[Len(open)]
Pop == SubSeq(open, 1, Len(open) - 1)
CountInner(stack) ==
  [i \in 1..Len(stack) |->
     IF i = Len(stack) THEN [stack[i] EXCEPT !.inner = @ + 1] ELSE stack[i]]

(* A definition whose name continues another one's after an underscore is  *)
(* that definition with a plausible mistake; no specification uses it.     *)

Pushed(l) ==
  /\ Len(open) < MaxNest
  /\ open # <<>> => Top.inner < MaxInner
  /\ open' = Append(CountInner(open), [loop |-> l, inner |-> 0])
  /\ unrolling' = unrolling + 1

Enter_EachResets(l) ==
  /\ Pushed(l)
  /\ counter' = 0 /\ issued' = FALSE /\ loops' = {} /\ diags' = {}

Enter_EachForgets(l) ==
  /\ Pushed(l)
  /\ loops' = {}
  /\ IF unrolling = 0
       THEN counter' = 0 /\ issued' = FALSE /\ diags' = {}
       ELSE UNCHANGED <<counter, issued, diags>>

(* enter_unrolling, and the loop's first iteration. *)
Enter(l) ==
  /\ Pushed(l)
  /\ IF unrolling = 0
       THEN counter' = 0 /\ issued' = FALSE /\ loops' = {} /\ diags' = {}
       ELSE UNCHANGED <<counter, issued, loops, diags>>

Exit_KeepsDepth == open' = Pop /\ UNCHANGED unrolling

(* exit_unrolling *)
Exit == open' = Pop /\ unrolling' = unrolling - 1

(* The loop ends by its condition, by a break, or with the last element.   *)
Leave ==
  /\ open # <<>>
  /\ Exit
  /\ UNCHANGED <<counter, issued, loops, diags>>

(* unroll_tick at the end of a body. *)
Exhausts == counter + 1 > Limit

TickAfterError_Reports ==
  /\ open # <<>> /\ issued
  /\ loops' = loops \cup {Top.loop}
  /\ diags' = diags \cup {[at |-> Top.loop, notes |-> loops' \ {Top.loop}]}
  /\ Exit
  /\ UNCHANGED <<counter, issued>>

TickAfterError ==
  /\ open # <<>> /\ issued
  /\ Exit
  /\ UNCHANGED <<counter, issued, loops, diags>>

TickExhausts ==
  /\ open # <<>> /\ ~issued /\ Exhausts
  /\ loops' = loops \cup {Top.loop}
  /\ counter' = counter + 1
  /\ issued' = TRUE
  /\ diags' = diags \cup {[at |-> Top.loop, notes |-> loops' \ {Top.loop}]}
  /\ Exit

TickContinues ==
  /\ open # <<>> /\ ~issued /\ ~Exhausts
  /\ loops' = loops \cup {Top.loop}
  /\ counter' = counter + 1
  /\ open' = [open EXCEPT ![Len(open)].inner = 0]
  /\ UNCHANGED <<unrolling, issued, diags>>

Tick == TickAfterError \/ TickExhausts \/ TickContinues

Next == (\E l \in Loops : Enter(l)) \/ Leave \/ Tick

Spec == Init /\ [][Next]_vars

(* The executor is one thread that does not stop inside a loop. *)
FairSpec == Spec /\ WF_vars(open # <<>> /\ Next)

-----------------------------------------------------------------------------

(* The depth counter is the number of open loops, so enter and exit are    *)
(* balanced on every way out of a loop.                                    *)
TypeOK ==
  /\ unrolling \in Nat /\ unrolling = Len(open)
  /\ counter \in Nat
  /\ issued \in BOOLEAN
  /\ loops \in SUBSET Loops
  /\ open \in Seq([loop : Loops, inner : Nat])
  /\ diags \in SUBSET [at : Loops, notes : SUBSET Loops]

(* However the loops nest, a nest is charged at most one iteration over    *)
(* the limit and reports this at most once, and it does report it when it  *)
(* has gone over (procedural.cc unroll_tick).                              *)
BudgetShared ==
  /\ counter <= Limit + 1
  /\ issued <=> counter = Limit + 1
  /\ \A d, e \in diags : d = e
  /\ issued <=> diags # {}

(* The diagnostic accounts for every loop that used the budget: the one    *)
(* that ran over and, in its notes, all others that were charged.          *)
AllContributorsNoted ==
  \A d \in diags : {d.at} \cup d.notes = loops /\ d.at \notin d.notes

(* Elaboration gets out of every nest of loops, also of loops whose        *)
(* conditions never become false.                                          *)
EveryNestEnds == open # <<>> ~> open = <<>>
=============================================================================
