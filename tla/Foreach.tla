------------------------------ MODULE Foreach ------------------------------
(***************************************************************************)
(* The iteration of foreach in StatementExecutor: one loop variable per    *)
(* dimension of the array, kept innermost first in loopVarStack, advanced  *)
(* like an odometer from each range's left bound to its right bound.       *)
(* Dimensions the loop does not name have no variable and do not iterate.  *)
(*                                                                         *)
(* What the body does, and how a break is turned into a switch, is the     *)
(* subject of Procedural; here the body may only end the loop.  LoopNest   *)
(* puts the loop into a nest of loops that share one budget.               *)
(***************************************************************************)
EXTENDS Integers, Sequences, FiniteSets

CONSTANTS
  Bounds,    (* the bounds of a range                                      *)
  MaxDims    (* bound on the number of dimensions                          *)

ASSUME ForeachAssumption == Bounds \subseteq Int /\ MaxDims \in Nat

VARIABLES
  dims,      (* reversedDims: each <<left, right>>, or Unnamed             *)
  value,     (* loopVarStack                                               *)
  iterator,  (* the loop variables as the body sees them                   *)
  visited,   (* history: the elements visited so far                       *)
  done       (* "no", "broken", "over limit" or "exhausted"                *)

foreachVars == <<dims, value, iterator, visited, done>>

Unnamed == <<>>
Named(i) == dims[i] # Unnamed
Left(i)  == dims[i][1]
Right(i) == dims[i][2]
Dims     == 1..Len(dims)

Start == [i \in Dims |-> IF Named(i) THEN Left(i) ELSE 0]

(* A definition whose name continues another one's after an underscore is  *)
(* that definition with a plausible mistake; no specification uses it.     *)

(* One step of loop variable i towards its right bound. *)
Toward(i) == IF value[i] > Right(i) THEN value[i] - 1 ELSE value[i] + 1
AtRight(i) == value[i] = Right(i)

(* The first named dimension if it can be stepped, else the first that can *)
(* be; the dimensions inside of that one start again.                      *)
Steppable == {i \in Dims : Named(i) /\ ~AtRight(i)}
First(S)  == CHOOSE i \in S : \A j \in S : i <= j
Advanced_KeepsInner ==
  LET j == First(Steppable)
  IN  [i \in Dims |-> IF i = j THEN Toward(i) ELSE value[i]]
Advanced ==
  LET j == First(Steppable)
  IN  [i \in Dims |-> IF i = j THEN Toward(i)
                      ELSE IF i < j /\ Named(i) THEN Left(i)
                      ELSE value[i]]

ForeachInit ==
  /\ dims \in UNION {[1..n -> {Unnamed} \cup (Bounds \X Bounds)] : n \in 1..MaxDims}
  /\ value = Start
  /\ iterator = Start
  /\ visited = {}
  /\ done = "no"

(* A body that takes a break in every valuation. *)
Stop ==
  /\ done = "no"
  /\ visited' = visited \cup {iterator}
  /\ done' = "broken"
  /\ UNCHANGED <<dims, value, iterator>>

(* Steps to the next element; the loop also stops there if it is over the  *)
(* unroll limit.                                                           *)
Continue ==
  /\ done = "no"
  /\ Steppable # {}
  /\ visited' = visited \cup {iterator}
  /\ value' = Advanced
  /\ iterator' = Advanced
  /\ UNCHANGED dims
  /\ done' \in {"no", "over limit"}

Finish ==
  /\ done = "no"
  /\ Steppable = {}
  /\ visited' = visited \cup {iterator}
  /\ iterator' = value
  /\ done' = "exhausted"
  /\ UNCHANGED <<dims, value>>

ForeachNext == Stop \/ Continue \/ Finish

ForeachSpec == ForeachInit /\ [][ForeachNext]_foreachVars

-----------------------------------------------------------------------------

Between(l, r) == IF l <= r THEN l..r ELSE r..l
Index(i) == IF Named(i) THEN Between(Left(i), Right(i)) ELSE {0}
Elements == {v \in [Dims -> UNION {Index(i) : i \in Dims}] : \A i \in Dims : v[i] \in Index(i)}

(* How far index x of dimension i is from the left bound, and the order of *)
(* the language: the rightmost dimension of the declaration, here the      *)
(* first, varies fastest.                                                  *)
Distance(i, x) == IF Left(i) <= Right(i) THEN x - Left(i) ELSE Left(i) - x
Before(v, w) ==
  \E i \in Dims : /\ Named(i) /\ Distance(i, v[i]) < Distance(i, w[i])
                  /\ \A k \in Dims : k > i => v[k] = w[k]

(* A loop variable never leaves the range of its dimension.                *)
ForeachTypeOK ==
  /\ dims \in Seq({Unnamed} \cup (Bounds \X Bounds))
  /\ value \in Elements
  /\ iterator = value
  /\ visited \in SUBSET Elements
  /\ done \in {"no", "broken", "over limit", "exhausted"}

(* The body sees the elements of the array in the order of the language:   *)
(* when it is run for an element it has been run for exactly the elements  *)
(* before it, so for none twice.                                           *)
InOrder ==
  done = "no" => visited = {v \in Elements : Before(v, iterator)}

(* A loop that is not stopped early visits every element.                  *)
AllVisited == done = "exhausted" => visited = Elements
=============================================================================
