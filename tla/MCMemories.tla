----------------------------- MODULE MCMemories -----------------------------
(* Finite instances of Memories: two arrays m and n of two-bit words.      *)
EXTENDS Memories

Use(where, op, sym, path, nb, guard, index) ==
  [where |-> where, op |-> op, sym |-> sym, path |-> path, nb |-> nb,
   guard |-> guard, index |-> index]
Write(where, sym, path, nb) == Use(where, "write", sym, path, nb, "1", "0")

PortWrites ==
  {Use(where, "write", sym, path, TRUE, guard, index) :
     where \in {"p", "r"}, sym \in {"m", "n"}, path \in {<<"elem">>, <<"elem", "elem">>},
     guard \in {"1", "c"}, index \in {"0", "w"}}
    \cup {Write(where, "m", <<"elem", "member">>, TRUE) : where \in {"p", "r"}}

OtherPaths == {<<>>, <<"elem">>, <<"range", "elem">>, <<"elem", "concat">>}
ClockedWrites == {Write("p", "m", path, nb) : path \in OtherPaths, nb \in BOOLEAN}
Elsewhere ==
  {Write(where, "m", <<"elem">>, TRUE) : where \in {"branch", "prologue", "comb"}}
    \cup {Write(where, "m", <<>>, FALSE) : where \in {"net", "initial"}}

Reads ==
  {Use(where, "read", "m", path, FALSE, "1", "w") :
     where \in {"p", "initial"}, path \in {<<>>, <<"elem">>}}
    \cup {Use("p", "step", "m", <<"elem">>, FALSE, "1", "w"),
          Use("sva", "read", "m", <<"elem">>, FALSE, "1", "w")}

MCUses   == PortWrites \cup ClockedWrites \cup Elsewhere \cup Reads

(* Files of up to five words in up to two lines, with up to two addresses. *)
Numbered(file) ==
  [k \in DOMAIN file |->
     IF file[k].token = "word"
       THEN Word(Cardinality({i \in 1..(k - 1) : file[i].token = "word"})) ELSE file[k]]
W == Word(0)
N == NewLine
MCFiles ==
  {Numbered(f) :
     f \in {<<W, W, W>>, <<W, N, W, N, W>>, <<W, W, W, W, W>>, <<W, W, N, W, W>>}
           \cup {<<At(x), W, N, W>> : x \in {-1, 1, 3}}
           \cup {<<W, W, N, At(x), W>> : x \in {0, 1, 2}}
           \cup {<<W, N, At(x), W, At(y), W, W>> : x \in {0, 2}, y \in {0, 1, 3}}}
MCNetRange == <<0, 0>>
MCRanges == {<<2, 0>>, <<1, -1>>, <<1, 3>>}
=============================================================================
