---------------------------- MODULE MCProcedural ----------------------------
(***************************************************************************)
(* Finite instances of Procedural.  Wire 0 is the variable x; the other    *)
(* wires are inputs a and b.                                               *)
(***************************************************************************)
EXTENDS Procedural

x == Static(0)
y == Static(1)
a == Wire(1)
b == Wire(2)
tt == Const(TRUE)
ff == Const(FALSE)

OneStatic == {0}

Profile(timing, constructs, conds, rvalues, masks, advances, length, nest) ==
  [timing |-> timing, constructs |-> constructs, conds |-> conds, rvalues |-> rvalues,
   masks |-> masks, advances |-> advances, length |-> length, nest |-> nest]

Always(constructs, conds, rvalues, length, nest) ==
  Profile("Implicit", constructs, conds, rvalues, {tt}, {None}, length, nest)
Once(constructs, conds, rvalues, length, nest) ==
  Profile("Initial", constructs, conds, rvalues, {tt}, {None}, length, nest)

Branching == {"assign", "if", "case", "block"}
Masked ==
  Profile("Implicit", Branching, {a, Read(x)}, {tt}, {tt, b}, {None}, 6, 2)

\* loops with every statement but one, so that properties of programs without
\* continue are checked as well; three values can reach x
Loops(constructs) ==
  Profile("Implicit", constructs, {tt, Read(x)}, {b}, {tt}, {None, <<x, a>>}, 7, 2)
Breaking   == Loops({"assign", "if", "while", "for", "break"})
Continuing == Loops({"assign", "if", "while", "for", "break", "continue"})
Elements   == Loops({"assign", "if", "foreach", "break", "continue"})

Escaping == {"assign", "if", "for", "break", "call", "return"}

Programs     == {Always(Branching, {a, Read(x)}, {tt, Read(x)}, 6, 2), Masked,
                 Breaking, Continuing, Elements,
                 Always({"assign", "if", "call"}, {a}, {b, Read(x)}, 6, 2),
                 Always(Escaping, {a}, {b}, 7, 2), Always(Escaping, {a}, {b}, 6, 3),
                 Once(Escaping, {tt, Read(x)}, {tt, ff}, 6, 3)}
LatchedCall  == {Always({"assign", "if", "call", "return"}, {a, Read(x)}, {tt, Read(x)}, 7, 2)}
InitialCase  == {Once({"assign", "case"}, {tt, ff, Read(x)}, {tt, ff, Read(x)}, 6, 2)}
=============================================================================
