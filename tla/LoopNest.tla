------------------------------ MODULE LoopNest ------------------------------
(***************************************************************************)
(* A foreach among the loops of a process: its loop variables (Foreach)    *)
(* advance at the ticks that UnrollLimitTracking (UnrollLimit) grants it.  *)
(* The foreach may stand in other loops, which run it again from the start,*)
(* and its body may run other loops, which use up its budget.              *)
(***************************************************************************)
EXTENDS UnrollLimit, Foreach

CONSTANT Each   (* the foreach statement *)

ASSUME LoopNestAssumption == Each \in Loops

nestVars == <<vars, foreachVars>>

NestInit == Init /\ ForeachInit

InEach == \E i \in 1..Len(open) : open[i].loop = Each
AtEach == open # <<>> /\ Top.loop = Each

(* A loop around the foreach or in its body. *)
EnterOther(l) == l # Each /\ Enter(l) /\ UNCHANGED foreachVars
LeaveOther    == ~AtEach /\ Leave /\ UNCHANGED foreachVars
TickOther     == ~AtEach /\ Tick /\ UNCHANGED foreachVars

Restarted ==
  /\ value' = Start /\ iterator' = Start
  /\ visited' = {} /\ done' = "no"
  /\ UNCHANGED dims

EnterEach == ~InEach /\ Enter(Each) /\ Restarted

(* A break, and the last element: both leave without a tick. *)
BreakEach  == AtEach /\ Leave /\ Stop
FinishEach == AtEach /\ Leave /\ Finish

Granted == open' # Pop

(* The loop variables are advanced before the tick that may end the loop. *)
TickEach ==
  /\ AtEach
  /\ Tick
  /\ Continue
  /\ done' = IF Granted THEN "no" ELSE "over limit"

NestNext ==
  \/ \E l \in Loops : EnterOther(l)
  \/ EnterEach
  \/ LeaveOther \/ BreakEach \/ FinishEach
  \/ TickOther \/ TickEach

NestSpec == NestInit /\ [][NestNext]_nestVars

(* The executor is one thread that does not stop inside a loop. *)
NestFairSpec == NestSpec /\ WF_nestVars(open # <<>> /\ NestNext)

-----------------------------------------------------------------------------

(* Every run of the foreach visits the array in the order of the language, *)
(* each element once, and all of it unless it is broken off or over the    *)
(* limit: also when another loop runs it again, or uses the budget up      *)
(* between two of its elements.                                            *)
VisitedInOrder == InOrder /\ AllVisited

(* Every element the body has seen was paid for out of the budget of the   *)
(* nest, whatever the loops around and inside of the foreach have used, so *)
(* that no foreach unrolls an array beyond the limit; and the foreach is   *)
(* among the loops a diagnostic would name.                                *)
ElementsCharged ==
  InEach => /\ Cardinality(visited) <= counter
            /\ visited # {} => Each \in loops
=============================================================================
