----------------------------- MODULE MCCaseTree -----------------------------
(* A finite instance of CaseTree with two wires p and q: if statements and *)
(* case statements on a constant or one wire, with one expression per      *)
(* item, and case statements on both wires, with several expressions and   *)
(* wildcards; full assignments of p and a clearing masked by q.            *)
EXTENDS CaseTree

OneOrTwo   == {Dispatch(<<"1">>), Dispatch(<<"p">>), Dispatch(<<"p", "q">>),
               [signal |-> <<"p", "q">>, full |-> TRUE]}
Patterns   == {{}, {<<"1">>}, {<<"q">>},
               {<<"1", "-">>}, {<<"-", "1">>, <<"0", "-">>}}
SetOrClear == {<<"1", "p">>, <<"q", "0">>}
=============================================================================
