----------------------------- MODULE Evaluation -----------------------------
(***************************************************************************)
(* EvalContext on one expression: a nest of selects, which may also be the *)
(* target of an assignment, or operators on operands that are known.       *)
(***************************************************************************)
EXTENDS Selects

CONSTANTS NWires, Lefts, Rights, Others, Result, MaxWidth, MaxOps

VARIABLES left, right, applied, misled

E == INSTANCE Expressions

evalVars == <<vars, left, right, applied, misled>>

NoSelect == type = Scalar /\ chain = Variable(Scalar) /\ parts = <<>>

EvalInit == (Init /\ E!ExprIdle) \/ (NoSelect /\ E!ExprInit)
EvalNext ==
  \/ Next /\ UNCHANGED <<left, right, applied, misled>>
  \/ E!ExprNext /\ UNCHANGED vars

EvalSpec == EvalInit /\ [][EvalNext]_evalVars

(* Every expression has the value that the language says it has, whatever  *)
(* of it the builder folds.                                                *)
OperatorsCorrect == E!ValueCorrect

(* The same, but for comparisons of operands whose most significant bits   *)
(* are known to differ.                                                    *)
OperatorsCorrectElsewhere == ~misled => OperatorsCorrect
=============================================================================
