----------------------------- MODULE MCFrontend -----------------------------
(***************************************************************************)
(* Small sessions and all small designs for Frontend.                      *)
(***************************************************************************)
EXTENDS Frontend

Shape(kind, black, inout, link) ==
    [kind |-> kind, black |-> black, inout |-> inout, link |-> link]

Leaf == {Shape("interface", FALSE, FALSE, "none"), Shape("program", FALSE, FALSE, "none")}
Plain == Shape("module", FALSE, FALSE, "none")
Modules ==
    {Shape("module", FALSE, inout, link) : inout \in BOOLEAN, link \in Links} \cup
    {Shape("module", TRUE, FALSE, link) : link \in {"none", "modport"}}

\* forests of n instances numbered in the order of declaration
Ancestry(parent) ==
    LET up[i \in 0 .. Len(parent)] == {i} \cup IF i = 0 THEN {} ELSE up[parent[i]]
    IN  up

Forests ==
    LET grow[n \in Nat] ==
            IF n = 1 THEN {<<0>>}
            ELSE {Append(p, a) : p \in grow[n - 1], a \in 0 .. n - 1}
        ordered(p) == \A i \in 2 .. Len(p) :
                        p[i] \in Ancestry(p)[i - 1]
    IN  [n \in 1 .. 5 |-> {p \in grow[n] : ordered(p)}]

OneTop(p) == \A i \in 2 .. Len(p) : p[i] # 0

Interfaces(p, s) == {m \in DOMAIN p : s[m].kind = "interface"}
Linked(p, s) == {i \in DOMAIN p : s[i].link # "none"}

Legal(p, s) ==
    /\ \A i \in DOMAIN p : p[i] = 0 => s[i] \in {Plain, Shape("program", FALSE, FALSE, "none")}
    /\ \A i \in DOMAIN p : p[i] # 0 => s[p[i]].kind = "module"
    /\ Linked(p, s) # {} => Interfaces(p, s) # {}

Tree(p, s, bus, canonical, refs) ==
    [parent |-> p, kind |-> [i \in DOMAIN p |-> s[i].kind],
     black |-> [i \in DOMAIN p |-> s[i].black], inout |-> [i \in DOMAIN p |-> s[i].inout],
     link |-> [i \in DOMAIN p |-> s[i].link],
     bus |-> [i \in DOMAIN p |-> IF i \in DOMAIN bus THEN bus[i] ELSE 0],
     canonical |-> canonical, refs |-> refs, bad |-> FALSE]

Own(p) == [i \in DOMAIN p |-> i]
Top(p, i) == Least(Ancestry(p)[i] \ {0})
Everywhere(p) == [i \in DOMAIN p |-> {t \in DOMAIN p : Top(p, t) = Top(p, i)}]
Anywhere(p) == [i \in DOMAIN p |-> DOMAIN p]
Nowhere(p) == [i \in DOMAIN p |-> {}]

\* the shapes of the instances of p, the first of them a plain module, and the
\* interface each port is connected to, which may be any of the design
Layouts(p, shapes) ==
    UNION {{s} \X [Linked(p, s) -> Interfaces(p, s)] :
        s \in {t \in {<<Plain>> \o r : r \in [1 .. Len(p) - 1 -> shapes]} : Legal(p, t)}}

\* designs whose every body refers to every variable under the same top instance
Trees(forests, shapes) ==
    UNION {LET refs == Everywhere(p) IN
           {Tree(p, x[1], x[2], Own(p), refs) : x \in Layouts(p, shapes)} : p \in forests}

\* two modules under two top instances, one body of which refers to the other's
Apart == {Tree(p, [i \in DOMAIN p |-> Plain], <<>>, Own(p), Anywhere(p)) :
            p \in {<<0, 0>>, <<0, 0, 2>>, <<0, 1, 0>>}}

\* equal instances of which the later has the body of the earlier
Size(p, i) == Cardinality({c \in DOMAIN p : i \in Ancestry(p)[c]})
Twins(p, s) ==
    {x \in (DOMAIN p) \X (DOMAIN p) :
        /\ 1 < x[1] /\ x[1] < x[2] /\ x[1] \notin Ancestry(p)[x[2]]
        /\ s[x[1]].kind = "module" /\ Size(p, x[1]) = Size(p, x[2])
        /\ \A k \in 0 .. Size(p, x[1]) - 1 :
              /\ s[x[1] + k] = s[x[2] + k]
              /\ k > 0 => p[x[1] + k] + x[2] = p[x[2] + k] + x[1]}
Shared(forests, shapes) ==
    UNION {UNION {{Tree(p, x[1], x[2], [Own(p) EXCEPT ![t[2]] = t[1]], Nowhere(p)) :
                       t \in Twins(p, x[1])} : x \in Layouts(p, shapes)} : p \in forests}

Singles(n) == {p \in Forests[n] : OneTop(p)}

AllDesigns ==
    Trees(Forests[1] \cup Forests[2] \cup Forests[3] \cup Forests[4], Modules \cup Leaf)
    \cup Trees(Singles(5), {Plain, Shape("interface", FALSE, FALSE, "none")} \cup
            {Shape("module", FALSE, inout, link) : inout \in BOOLEAN, link \in {"modport", "plain"}})
    \cup Apart
    \cup Shared(Singles(5), {Plain, Shape("interface", FALSE, FALSE, "none"),
            Shape("module", FALSE, TRUE, "none"), Shape("module", FALSE, FALSE, "modport"),
            Shape("module", FALSE, TRUE, "plain")})

\* designs for sessions: a reference into an instance, a program inside a module
\* and beside it, and an error of slang's
Program == Shape("program", FALSE, FALSE, "none")
Pair(p, second) == Tree(p, <<Plain, second>>, <<>>, Own(p), Everywhere(p))
FewDesigns ==
    {Pair(<<0, 1>>, Plain), Pair(<<0, 1>>, Program), Pair(<<0, 0>>, Program),
     [Pair(<<0, 1>>, Plain) EXCEPT !.bad = TRUE]}

MCDesigns == [all |-> AllDesigns, few |-> FewDesigns]
MCBudgets == {[family |-> "all", reads |-> 1, commands |-> 0],
              [family |-> "few", reads |-> 2, commands |-> 4]}
MCReads == {<<>>, <<"--keep-hierarchy">>, <<"--best-effort-hierarchy">>}
MCDefaults == {"--keep-hierarchy", "--ast-compilation-only"}
MCExpectable == {"ReferenceAcrossKeptHierBoundary", "ProgramUnsupported", SlangError}
=============================================================================
