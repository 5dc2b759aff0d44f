---------------------------- MODULE MCFlipFlops ----------------------------
(* Finite instances of FlipFlops: a clock c, a reset r and a data input d, *)
(* one register q.                                                         *)
EXTENDS FlipFlops, TLC

Assign(x) == [v \in Vars |-> x]
Event(edge, sig) == [edge |-> edge, sig |-> sig]
Branch(sig, ops, x) == [sig |-> sig, ops |-> ops, body |-> Assign(x)]

Edges == {"pos", "neg", "both"}
OpSeqs == {s \in UNION {[1..n -> {"not", "inv", "is0", "is1", "wide"}] : n \in 0..2} :
             NoWideInversion(s)}

Program(ff, events, prologue, branches, sync) ==
  [always_ff |-> ff, events |-> events, prologue |-> Assign(prologue),
   branches |-> branches, sync |-> sync]

(* One edge: everything is clocked. *)
Simple ==
  {Program(TRUE, <<Event(e, "c")>>, p, b, s) :
     e \in Edges, p \in {"keep", "0"}, s \in {None, Assign("d"), Assign("flip")},
     b \in {<<>>, <<Branch("r", <<>>, "1")>>, <<Branch("r", <<"not">>, "keep")>>}}

(* Two edges, in either order, and every way to test the reset. *)
Resets ==
  {Program(TRUE, ev, p, <<Branch(t, ops, l)>>, s) :
     ev \in {<<Event(e, "c"), Event(f, "r")>> : e, f \in Edges}
              \cup {<<Event(f, "r"), Event(e, "c")>> : e, f \in Edges},
     p \in {"keep", "0"}, t \in {"r", "c"}, ops \in OpSeqs, l \in {"keep", "1"},
     s \in {None, Assign("d"), Assign("flip")}}

(* Further branches after the reset, and further edges. *)
Chains ==
  {Program(TRUE, ev, "keep", <<Branch("r", <<>>, "1"), Branch(t, <<"not">>, l)>>, Assign("d")) :
     ev \in {<<Event("pos", "c"), Event("pos", "r")>>,
             <<Event("pos", "c"), Event("pos", "r"), Event("neg", "d")>>,
             <<Event("neg", "d"), Event("pos", "r")>>},
     t \in {"d", "c"}, l \in {"keep", "0"}}

(* Event lists of all kinds. *)
Mixed ==
  {Program(ff, <<Event(e, "c"), Event(f, "d")>>, "keep", <<>>, Assign("1")) :
     ff \in BOOLEAN, e, f \in {"pos", "both", "level", "star", "delay"}}

MCPrograms == Simple \cup Resets \cup Chains \cup Mixed
=============================================================================
