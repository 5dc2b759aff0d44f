--------------------------- MODULE ProceduralProofs ---------------------------
(***************************************************************************)
(* Proofs about the procedural elaborator, for every number of wires and   *)
(* variables, every kind of program, every length and every nesting: it    *)
(* computes what the sequential program does, it places every statement in *)
(* the case it is executed in, and it never fails an assertion.            *)
(*                                                                         *)
(* ProceduralInvariant has the invariant and the lemmas about switches,    *)
(* assignments and loops.  Here are those about heads of loops, calls and  *)
(* escapes, each of which keeps Known, and the actions, composed of them.  *)
(* Valid says of a state that it satisfies the invariant.                  *)
(***************************************************************************)
EXTENDS ProceduralInvariant

-----------------------------------------------------------------------------
(* The head of a loop.                                                     *)

(* A test that all the live valuations pass. *)
LEMMA NarrowKeeps ==
  ASSUME NEW c, NEW T, NEW f, NEW s, NEW p, Known(c, T, f, s, p), ~Closing(f),
         NEW s2, c.diag = {} => Narrows(f, s, s2) /\ s2.live = s.live
  PROVE  Known(c, T, f, s2, p)
<1>1. PICK Y, z, V, B, F : Inv(c, T, f, s, p, Y, z, V, B, F)
  BY DEF Known
<1> DEFINE N == Names(c.nflag, p.nest)
           y == Y[Len(T) + 1]
<1>2. /\ Good(c, z.hs, V, Pending(f), N, B, F) /\ FrameAt(c.timing, c.esc, B, N, f, y, z, Len(T) + 1)
      /\ Scoped(c, z, B, F) /\ Settled(c, f) /\ c.broken = FALSE /\ (c.diag = {} => Meaning(c, T, f, s, Y, z, F))
  BY <1>1, InvFacts
<1> HIDE DEF N, y
<1>3. /\ LayoutOK(y, N) /\ LayoutOK(z, N) /\ Follows(f, y, z) /\ z.n <= Len(c.esc) /\ Below(y, z)
  BY <1>2, FrameRises, ZenonT(60) DEF FrameAt
<1>4. z.d \in Nat /\ y.m \in Nat /\ z.m = y.m + NParks(f.kind) /\ z.n \in Nat /\ y.n \in Nat /\ y.n <= z.n
  BY <1>3 DEF LayoutOK, Follows, Below
<1>5. z.n = Len(c.esc) /\ c \in Contexts(N)
  BY <1>2, GoodFacts DEF Scoped
<1>6. Undisturbed(y, c, B, F, c, B, F)
  <2>1. SameNotes(c, c)
    BY DEF SameNotes
  <2> QED
    BY <1>4, <1>5, <2>1, NotesUndisturbed
<1>7. ASSUME c.diag = {}
      PROVE  SamePast(y, c, z, s, c, z, s2) /\ TopMeaning(c, f, s2, y, z, F)
  <2>1. /\ SemType(s, z.d) /\ Mirrors(s, c, F, z.d) /\ z.m = Len(s.frames) /\ z.w = s.live
        /\ SemAt(c, z.hs, F, s.frames, f, y, z) /\ Placed(c, f, F, z) /\ c.exhausted = FALSE
        /\ Narrows(f, s, s2) /\ s2.live = s.live
    BY <1>2, <1>7 DEF Meaning, y
  <2>2. Narrowed(c, z.hs, F, s, s2, f, y, z)
    BY <1>4, <2>1, NarrowFacts
  <2>3. /\ SemType(s2, z.d) /\ SameValues(s, s2) /\ Len(s2.frames) = Len(s.frames)
        /\ SemAt(c, z.hs, F, s2.frames, f, y, z) /\ \A i \in 1..y.m : s2.frames[i] = s.frames[i]
    BY <2>2 DEF Narrowed
  <2>4. Mirrors(s2, c, F, z.d)
    BY <1>4, <2>1, <2>3, MirrorsKept
  <2> QED
    BY <2>1, <2>3, <2>4 DEF SamePast, TopMeaning
<1>8. Kept2(y, c, z, s, B, F, c, z, s2, B, F)
  BY <1>4, <1>6, <1>7, PastKept
<1>9. TopOK(c, f, s2, p, y, z, V, B, F, Len(T) + 1)
  BY <1>2, <1>7 DEF TopOK, N
<1>10. Inv(c, T, f, s2, p, Y, z, V, B, F)
  BY <1>1, <1>8, <1>9, Retop DEF y
<1> QED
  BY <1>10 DEF Known

(* The semantics of something that no valuation executes. *)
Nothing(s, s2, n) ==
  /\ SemType(s2, n) /\ s2.frames = s.frames /\ s2.live = s.live
  /\ \A v \in StaticVars : s2.cur[v] = s.cur[v] /\ s2.nba[v] = s.nba[v] /\ s2.queued[v] = s.queued[v]
  /\ \A i \in 1..n : s2.cur[Local(i)] = s.cur[Local(i)]

LEMMA QuietKeeps ==
  ASSUME NEW c, NEW T, NEW f, NEW s, NEW p, Known(c, T, f, s, p),
         NEW s2, c.diag = {} => Nothing(s, s2, Calls(Append(T, f)))
  PROVE  Known(c, T, f, s2, p)
<1>1. PICK Y, z, V, B, F : Inv(c, T, f, s, p, Y, z, V, B, F)
  BY DEF Known
<1>2. /\ Good(c, z.hs, V, Pending(f), Names(c.nflag, p.nest), B, F) /\ c.broken = FALSE
      /\ (c.diag = {} => Meaning(c, T, f, s, Y, z, F))
  BY <1>1, InvFacts
<1>3. ScopeIs(T, f, z, F)
  BY ONLY <1>1, KnownScope
<1>4. ASSUME c.diag = {}
      PROVE  /\ SameFlags(c.esc, F, F) /\ SemType(s2, z.d) /\ Mirrors(s2, c, F, z.d)
             /\ c.exhausted = FALSE /\ s2.frames = s.frames /\ s2.live = s.live
  <2>1. SemType(s, z.d) /\ Mirrors(s, c, F, z.d) /\ c.exhausted = FALSE
    BY <1>2, <1>4 DEF Meaning
  <2>2. Nothing(s, s2, z.d)
    BY <1>3, <1>4 DEF ScopeIs
  <2>3. SemType(s2, z.d) /\ s2.frames = s.frames /\ s2.live = s.live
    BY <2>2 DEF Nothing
  <2>4. \A v \in StaticVars : Final(s2, v) = Final(s, v)
    BY <2>1, <2>2, <2>3, FinalIs DEF Nothing
  <2>5. Mirrors(s2, c, F, z.d)
    BY <2>1, <2>2, <2>4 DEF Mirrors, Nothing
  <2> QED
    BY <2>1, <2>3, <2>5 DEF SameFlags
<1>5. SameShape(c, c)
  BY DEF SameShape
<1>6. Inv(c, T, f, s2, p, Y, z, V, B, F)
  BY <1>1, <1>2, <1>4, <1>5, KeepStack
<1> QED
  BY <1>6 DEF Known

(* The unroll limit. *)
LEMMA TickKeeps ==
  ASSUME NEW c, NEW T, NEW f, NEW s, NEW p, Known(c, T, f, s, p)
  PROVE  LET d == Tick(c)
         IN  /\ Known(d, T, f, s, p) /\ SameStore(c, d) /\ d.esc = c.esc
             /\ c.diag \subseteq d.diag
             /\ TickFails(c) => d.diag # {}
<1> DEFINE d == Tick(c)
<1>1. PICK Y, z, V, B, F : Inv(c, T, f, s, p, Y, z, V, B, F)
  BY DEF Known
<1> DEFINE N == Names(c.nflag, p.nest)
<1>2. /\ Good(c, z.hs, V, Pending(f), N, B, F) /\ c.broken = FALSE
      /\ (c.diag = {} => Meaning(c, T, f, s, Y, z, F))
  BY <1>1, InvFacts
<1>3. c \in Contexts(N) /\ c.counter \in Nat /\ c.exhausted \in BOOLEAN /\ c.diag \in SUBSET Diags
  BY <1>2, GoodFacts, ContextType
<1> HIDE DEF N
<1>4. /\ d \in Contexts(N) /\ SameStore(c, d) /\ SameShape(c, d) /\ d.nflag = c.nflag
      /\ d.blocking = c.blocking /\ d.nonblocking = c.nonblocking
      /\ d.diag = {} => d.exhausted = c.exhausted
      /\ TickFails(c) => c.exhausted = TRUE \/ d.diag # {}
  <2>1. CASE c.exhausted
    <3>1. d = c
      BY <2>1 DEF Tick
    <3> QED
      BY <1>3, <2>1, <3>1 DEF SameStore, SameShape
  <2>2. CASE ~c.exhausted /\ c.counter + 1 > Limit
    <3>1. d = [c EXCEPT !.counter = @ + 1, !.exhausted = TRUE, !.diag = @ \cup {"UnrollLimitExhausted"}]
      BY <2>2 DEF Tick
    <3> HIDE DEF d
    <3>2. d.diag = c.diag \cup {"UnrollLimitExhausted"}
      BY <1>3, <3>1 DEF Contexts
    <3>3. d \in Contexts(N)
      <4> DEFINE q == c.diag \cup {"UnrollLimitExhausted"}
                 k == c.counter + 1
      <4>1. q \in SUBSET Diags /\ k \in Nat
        BY <1>3 DEF Diags
      <4>2. d = [c EXCEPT !.counter = k, !.exhausted = TRUE, !.diag = q]
        BY <3>1
      <4> HIDE DEF q, k
      <4> QED
        BY <1>3, <4>1, <4>2 DEF Contexts
    <3>4. SameStore(c, d) /\ SameShape(c, d) /\ d.blocking = c.blocking /\ d.nonblocking = c.nonblocking
          /\ d.nflag = c.nflag
      BY <1>3, <3>1 DEF Contexts, SameStore, SameShape
    <3> QED
      BY <3>2, <3>3, <3>4
  <2>3. CASE ~c.exhausted /\ ~(c.counter + 1 > Limit)
    <3>1. d = [c EXCEPT !.counter = @ + 1] /\ ~TickFails(c)
      BY <2>3 DEF Tick, TickFails
    <3> HIDE DEF d
    <3>2. d \in Contexts(N)
      BY <1>3, <3>1 DEF Contexts
    <3>3. SameStore(c, d) /\ SameShape(c, d) /\ d.blocking = c.blocking /\ d.nonblocking = c.nonblocking
          /\ d.nflag = c.nflag /\ d.exhausted = c.exhausted
      BY <1>3, <3>1 DEF Contexts, SameStore, SameShape
    <3> QED
      BY <3>1, <3>2, <3>3
  <2> QED
    BY <2>1, <2>2, <2>3
<1> HIDE DEF d
<1>5. Good(d, z.hs, V, Pending(f), N, B, F) /\ N = Names(d.nflag, p.nest)
  <2>1. \A v \in N : IsStatic(v) => v \in StaticVars
    BY NamesStatic DEF N
  <2> QED
    BY <1>2, <1>4, <2>1, SameLevels DEF N
<1>6. c.diag \subseteq d.diag /\ d.esc = c.esc
  BY <1>4 DEF SameShape
<1>7. ASSUME d.diag = {}
      PROVE  /\ SameFlags(c.esc, F, F) /\ SemType(s, z.d) /\ Mirrors(s, d, F, z.d)
             /\ d.exhausted = FALSE /\ s.frames = s.frames /\ s.live = s.live
  <2>1. SemType(s, z.d) /\ Mirrors(s, c, F, z.d) /\ c.exhausted = FALSE
    BY <1>2, <1>6, <1>7 DEF Meaning
  <2>2. Mirrors(s, d, F, z.d)
    BY <1>4, <2>1 DEF Mirrors, SameShape
  <2> QED
    BY <1>4, <1>7, <2>1, <2>2 DEF SameFlags
<1>8. Inv(d, T, f, s, p, Y, z, V, B, F)
  BY <1>1, <1>4, <1>5, <1>7, KeepStack
<1>9. TickFails(c) => d.diag # {}
  <2>1. c.diag = {} => c.exhausted = FALSE
    BY <1>2 DEF Meaning
  <2> QED
    BY <1>4, <1>6, <2>1
<1> QED
  BY <1>4, <1>6, <1>8, <1>9 DEF Known, d

(* Leaving the loop undoes what the test did to the live valuations. *)
LEMMA TestEnd ==
  ASSUME NEW s, NEW n \in Nat, SemType(s, n), TopOf(s, "loop"), NEW x, Truth(s, x) \in SUBSET Env
  PROVE  LoopEnd(LoopTest(s, x)) = LoopEnd(s)
<1> DEFINE m == Len(s.frames)
           g == TopFrame(s)
           X == SubSeq(s.frames, 1, m - 1)
           g1 == [g EXCEPT !.out = @ \cup (s.live \ Truth(s, x))]
           Z == [s.frames EXCEPT ![m] = g1]
           A == s.live \cap Truth(s, x)
           t == LoopTest(s, x)
<1>1. /\ m \in Nat /\ m >= 1 /\ s.frames \in Seq(SemFrames) /\ DOMAIN s = {"live", "frames", "cur", "nba", "queued", "written"}
      /\ g \in [kind : {"loop"}, out : SUBSET Env, skip : SUBSET Env] /\ g = s.frames[m] /\ s.live \subseteq Env
  BY FramesType DEF TopOf, SemType, TopFrame
<1>2. t = [s EXCEPT !.frames = Z, !.live = A]
  <2>1. t = [[s EXCEPT !.frames = Z] EXCEPT !.live = A]
    BY DEF LoopTest, SetTop
  <2> HIDE DEF t, Z, A
  <2> QED
    BY <1>1, <2>1
<1> HIDE DEF t, g, A
<1>3. g1.out = g.out \cup (s.live \ Truth(s, x))
  BY <1>1
<1> HIDE DEF g1
<1>4. t.frames = Z /\ t.live = A
  <2> HIDE DEF Z
  <2> QED
    BY <1>1, <1>2
<1>5. Len(Z) = m /\ Z[m] = g1 /\ SubSeq(Z, 1, m - 1) = X
  <2>1. Len(Z) = m /\ Z[m] = g1 /\ \A i \in 1..(m - 1) : Z[i] = s.frames[i]
    BY <1>1
  <2> QED
    BY <1>1, <2>1
<1>6. A \cup g1.out = s.live \cup g.out
  BY <1>1, <1>3 DEF A
<1> HIDE DEF X, Z
<1>7. LoopEnd(t) = [[t EXCEPT !.frames = X] EXCEPT !.live = A \cup g1.out]
  <2>1. PopFrame(t) = [t EXCEPT !.frames = X] /\ TopFrame(t) = g1
    BY <1>4, <1>5 DEF PopFrame, TopFrame
  <2>2. PopFrame(t).live = A
    BY <1>1, <1>2, <2>1
  <2> QED
    BY <1>4, <2>1, <2>2 DEF LoopEnd
<1>8. LoopEnd(s) = [[s EXCEPT !.frames = X] EXCEPT !.live = s.live \cup g.out]
  <2>1. PopFrame(s) = [s EXCEPT !.frames = X]
    BY DEF PopFrame, X
  <2>2. PopFrame(s).live = s.live
    BY <1>1, <2>1
  <2> QED
    BY <2>1, <2>2 DEF LoopEnd, g
<1>9. LoopEnd(t) = LoopEnd(s)
  <2> DEFINE L == s.live \cup g.out
  <2>1. /\ LoopEnd(t) = [[t EXCEPT !.frames = X] EXCEPT !.live = L]
        /\ LoopEnd(s) = [[s EXCEPT !.frames = X] EXCEPT !.live = L]
    BY <1>6, <1>7, <1>8
  <2> HIDE DEF L
  <2>2. [[t EXCEPT !.frames = X] EXCEPT !.live = L] = [[s EXCEPT !.frames = X] EXCEPT !.live = L]
    BY <1>1, <1>2
  <2> QED
    BY <2>1, <2>2
<1> QED
  BY <1>9 DEF t
(* A context with the switches that are open in the head of loop l. *)
IsG(g) == g = [c |-> g.c, sw |-> g.sw]
AtG(g, T, l, s, p) == IsG(g) /\ Known(g.c, T, AtHead(l, g.sw), s, p)

LEMMA DivertG ==
  ASSUME NEW g, NEW T, NEW l, NEW s, NEW p, AtG(g, T, l, s, p), g.c.timing # "Initial",
         NEW r \in Signals, NEW cmp, NEW s2,
         g.c.diag = {} => Narrows(AtHead(l, g.sw), s, s2) /\ s2.live = Hit(OpenSwitch(g.c, r), cmp, FALSE)
  PROVE  LET b == Divert(g, r, cmp)
         IN  /\ AtG(b, T, l, s2, p) /\ Exact(b.c, s2) /\ SameNotes(g.c, b.c)
<1> DEFINE h == AtHead(l, g.sw)
           e == EnterBranch(g.c, OpenSwitch(g.c, r), cmp, FALSE)
           b == Divert(g, r, cmp)
<1>1. Known(g.c, T, h, s, p)
  BY DEF AtG
<1>2. ~Closing(h) /\ h.sw = g.sw
  BY DEF AtHead, Closing
<1> HIDE DEF h
<1>3. Known(e.c, T, WithSw(h, Append(h.sw, e.h)), s2, p) /\ Exact(e.c, s2) /\ SameNotes(g.c, e.c)
  BY <1>1, <1>2, DivertKeeps DEF h
<1> HIDE DEF e
<1>4. b.c = e.c /\ b.sw = Append(g.sw, e.h) /\ IsG(b)
  BY DEF Divert, e, IsG
<1>5. WithSw(h, Append(h.sw, e.h)) = AtHead(l, b.sw)
  <2>1. WithSw(h, Append(h.sw, e.h)) = WithSw(h, b.sw)
    BY <1>2, <1>4
  <2> HIDE DEF b
  <2>2. WithSw(h, b.sw) = AtHead(l, b.sw)
    BY DEF h, WithSw, AtHead
  <2> QED
    BY <2>1, <2>2
<1> QED
  BY <1>3, <1>4, <1>5 DEF AtG

(* Between two iterations the list goes on where no break was signalled. *)
LEMMA BreakKeeps ==
  ASSUME NEW g, NEW T, NEW l, NEW s, NEW p, AtG(g, T, l, s, p),
         l.stmt # "while" => Substitute(g.c, l.flag) # S1
  PROVE  LET b == BreakChecked(g, l)
         IN  /\ AtG(b, T, l, s, p) /\ (l.stmt # "while" => Exact(b.c, s))
             /\ b.c.timing = g.c.timing
<1> DEFINE br == Substitute(g.c, l.flag)
           b == BreakChecked(g, l)
           h == AtHead(l, g.sw)
<1>1. CASE l.stmt = "while"
  BY <1>1 DEF BreakChecked
<1>2. CASE l.stmt # "while"
  <2>1. Known(g.c, T, h, s, p) /\ ~Closing(h)
    BY DEF AtG, AtHead, Closing
  <2>2. g.c.esc # <<>> /\ l.flag = DisableFlag(g.c)
    BY <2>1, HeadKnown DEF HeadFacts
  <2> HIDE DEF h
  <2>3. FlagTells(g.c, s, br)
    BY <2>1, <2>2, FlagReads
  <2>4. br # S1
    BY <1>2
  <2> HIDE DEF br
  <2>5. /\ br \in Signals /\ (g.c.timing = "Initial" => br.const = TRUE)
        /\ g.c.diag = {} => g.c.cas.on \ br.on = s.live
    BY <2>3 DEF FlagTells
  <2>6. CASE br.const = TRUE
    <3>1. b = g
      BY <1>2, <2>6 DEF BreakChecked, br
    <3>2. br = S0 /\ br.on = {}
      BY <2>4, <2>5, <2>6, SignalType, ConstSignals
    <3>3. Exact(g.c, s)
      BY <2>5, <3>2 DEF Exact
    <3> QED
      BY <3>1, <3>3
  <2>7. CASE br.const # TRUE
    <3>1. br.const = FALSE
      BY <2>5, <2>7, SignalType
    <3>2. b = Divert(g, br, S0)
      BY <1>2, <3>1 DEF BreakChecked, br
    <3>3. Hit(OpenSwitch(g.c, br), S0, FALSE) = g.c.cas.on \ br.on
      BY ConstSignals DEF Hit, OpenSwitch
    <3>4. g.c.diag = {} => Narrows(h, s, s) /\ s.live = Hit(OpenSwitch(g.c, br), S0, FALSE)
      BY <2>5, <3>3 DEF Narrows
    <3>5. AtG(b, T, l, s, p) /\ Exact(b.c, s) /\ SameNotes(g.c, b.c)
      <4> HIDE DEF b
      <4> QED
        BY <2>5, <3>1, <3>2, <3>4, DivertG DEF h
    <3> QED
      BY <3>5 DEF SameNotes
  <2> QED
    BY <2>6, <2>7
<1> QED
  BY <1>1, <1>2

(* The step of a for loop. *)
LEMMA StepKeeps ==
  ASSUME NEW g, NEW T, NEW l, NEW s, NEW p, AtG(g, T, l, s, p),
         l.stmt # "while" => Exact(g.c, s)
  PROVE  LET b == Stepped(g, l)
             t == SemStep(s, l)
         IN  /\ AtG(b, T, l, t, p) /\ (l.stmt # "while" => Exact(b.c, t))
             /\ b.c.timing = g.c.timing
<1> DEFINE b == Stepped(g, l)
           t == SemStep(s, l)
           h == AtHead(l, g.sw)
           n == Calls(Append(T, h))
<1>1. CASE l.step = None
  BY <1>1 DEF Stepped, SemStep
<1>2. CASE l.step # None
  <2>1. Known(g.c, T, h, s, p) /\ ~Closing(h) /\ IsG(g)
    BY DEF AtG, AtHead, Closing
  <2>2. LoopOK(l, Calls(Append(T, l)), g.c.timing)
    BY <2>1, HeadKnown DEF HeadFacts
  <2> DEFINE v == l.step[1]
             x == l.step[2]
             r == Eval(g.c, x)
             d == SimpleAssign(g.c, v, r)
  <2>3. v \in StaticVars /\ x \in Expressions(StaticVars) /\ l.stmt = "for"
    BY <1>2, <2>2 DEF LoopOK
  <2>4. Exact(g.c, s)
    BY <2>3
  <2> HIDE DEF h, v, x
  <2>5. x \in InScope(T, h)
    BY <2>1, <2>3, ScopeSame
  <2>6. r \in Signals /\ Means(g.c, s, r, x)
    BY <2>1, <2>4, <2>5, KnownMeans
  <2>7. v \in StaticVars \cup LocalsTo(Calls(Append(T, h)))
    BY <2>3
  <2> HIDE DEF r, n
  <2>8. /\ Known(d, T, h, AssignVar(s, v, x, Const(TRUE), TRUE), p)
        /\ Exact(d, AssignVar(s, v, x, Const(TRUE), TRUE)) /\ SameControl(g.c, d)
    BY ONLY <2>1, <2>4, <2>6, <2>7, SimpleStep
  <2>9. t = AssignVar(s, v, x, Const(TRUE), TRUE)
    BY <1>2 DEF SemStep, v, x
  <2>10. b = [c |-> d, sw |-> g.sw]
    BY <1>2, <2>1 DEF Stepped, IsG, d, v, x, r, SimpleAssign
  <2> HIDE DEF d, b, t
  <2>11. b.c = d /\ b.sw = g.sw /\ IsG(b)
    BY <2>10 DEF IsG
  <2>12. AtG(b, T, l, t, p) /\ Exact(b.c, t) /\ b.c.timing = g.c.timing
    BY <2>8, <2>9, <2>11 DEF AtG, h, SameControl
  <2> QED
    BY <2>12 DEF b, t
<1> QED
  BY <1>1, <1>2

(* What the head of a loop decides: to enter the body, in the valuations   *)
(* that pass the test, or to leave the loop in all that are there.         *)
HeadTest(s, l) == IF l.stmt = "foreach" THEN s ELSE LoopTest(s, l.cond)
HeadResult(r, T, l, s, t, p, tm) ==
  /\ r.go \in BOOLEAN /\ r.g.c.timing = tm
  /\ r.go = TRUE => AtG(r.g, T, l, t, p) /\ Exact(r.g.c, t)
  /\ r.go = FALSE => AtG(r.g, T, l, s, p)

LEMMA LogicOrCases ==
  ASSUME NEW a \in Signals, NEW b \in Signals
  PROVE  /\ LogicNot(a) \in Signals /\ LogicNot(a).on = Env \ a.on
         /\ LogicOr(a, b) \in Signals /\ LogicOr(a, b).on = a.on \cup b.on
         /\ LogicOr(a, b).const = TRUE => LogicOr(a, b) = S1 \/ (a = S0 /\ b = S0 /\ LogicOr(a, b) = S0)
<1>1. a.on \in SUBSET Env /\ b.on \in SUBSET Env
  BY SignalType
<1>2. LogicNot(a) \in Signals /\ LogicNot(a).on = Env \ a.on
  <2>1. CASE a.const = TRUE
    <3>1. a = S0 \/ a = S1
      BY <2>1, SignalType
    <3>2. Env \ {} = Env /\ Env \ Env = {}
      OBVIOUS
    <3> QED
      BY <3>1, <3>2, ConstSignals DEF LogicNot, Sig, S0, S1
  <2>2. CASE a.const = FALSE
    <3>1. Env \ a.on \in SUBSET Env
      BY <1>1
    <3> QED
      BY <2>2, <3>1, VaryingSignals DEF LogicNot, Sig
  <2> QED
    BY <2>1, <2>2, SignalType
<1>3. CASE a = S1 \/ b = S1
  <2>1. LogicOr(a, b) = S1
    BY <1>3, ConstSignals DEF LogicOr
  <2>2. a.on \cup b.on = Env
    BY <1>1, <1>3, ConstSignals
  <2> QED
    BY <1>2, <2>1, <2>2, ConstSignals
<1>4. CASE a = S0 /\ b = S0
  <2>1. LogicOr(a, b) = S0
    BY <1>4, ConstSignals DEF LogicOr
  <2> QED
    BY <1>2, <1>4, <2>1, ConstSignals
<1>5. CASE ~(a = S1 \/ b = S1) /\ ~(a = S0 /\ b = S0)
  <2>1. LogicOr(a, b) = Sig(FALSE, a.on \cup b.on)
    BY <1>5 DEF LogicOr
  <2>2. a.on \cup b.on \in SUBSET Env
    BY <1>1
  <2> QED
    BY <1>2, <2>1, <2>2, VaryingSignals
<1> QED
  BY <1>3, <1>4, <1>5
LEMMA HeadKeeps ==
  ASSUME NEW g, NEW T, NEW l, NEW s, NEW p, AtG(g, T, l, s, p),
         l.stmt # "while" => Exact(g.c, s)
  PROVE  HeadResult(LoopHead(g, l), T, l, s, HeadTest(s, l), p, g.c.timing)
<1> DEFINE h == AtHead(l, g.sw)
           c == g.c
           cv == Eval(c, l.cond)
           t == LoopTest(s, l.cond)
           X == Truth(s, l.cond)
           r == LoopHead(g, l)
<1>1. Known(c, T, h, s, p) /\ ~Closing(h) /\ IsG(g) /\ h.kind = "head"
  BY DEF AtG, AtHead, Closing
<1>2. /\ c.esc # <<>> /\ l.flag = DisableFlag(c) /\ LoopOK(l, Calls(Append(T, l)), c.timing)
      /\ l.cond \in Expressions(StaticVars \cup LocalsTo(Calls(Append(T, l))))
      /\ c.diag = {} => TopOf(s, "loop") /\ SemType(s, Calls(Append(T, l)))
  BY <1>1, HeadKnown DEF HeadFacts
<1>3. c.cas.on \subseteq Env /\ c.broken = FALSE /\ (c.diag = {} => s.live \subseteq Env)
  BY <1>1, KnownShape
<1>4. /\ l.stmt \in {"while", "for", "foreach"} /\ l.kind = "loop"
      /\ c.timing = "Initial" => l.cond[1] # "wire" /\ l.stmt # "while"
  BY <1>2 DEF LoopOK
<1>5. l.cond \in InScope(T, h)
  <2>1. IsList(T)
    BY <1>1, KnownShape
  <2>2. Calls(Append(T, h)) = Calls(Append(T, l))
    BY <1>4, <2>1, CallsOfLoop
  <2> QED
    BY <1>2, <2>2 DEF InScope
<1> HIDE DEF h, c
<1>6. Evaluates(c, s, l.cond, cv, c.cas.on)
  BY <1>1, <1>5, KnownEval
<1> HIDE DEF cv, X
<1>7. /\ cv \in Signals /\ (c.timing = "Initial" => cv.const = TRUE \/ l.stmt = "while")
      /\ c.diag = {} => X \in SUBSET Env /\ cv.on \cap c.cas.on = X \cap c.cas.on
  BY <1>4, <1>6 DEF Evaluates, X
<1>8. c.diag = {} => /\ Narrows(h, s, t) /\ t.live = s.live \cap X
  <2>1. ASSUME c.diag = {} PROVE Narrows(h, s, t)
    BY <1>1, <1>7, <2>1 DEF Narrows, X
  <2>2. ASSUME c.diag = {} PROVE t.live = s.live \cap X
    <3>1. Calls(Append(T, l)) \in Nat /\ SemType(s, Calls(Append(T, l)))
      <4>1. Calls(Append(T, h)) \in Nat /\ IsList(T)
        BY <1>1, <2>2, KnownSem, KnownShape
      <4> QED
        BY <1>2, <1>4, <2>2, <4>1, CallsOfLoop DEF h
    <3> QED
      BY <1>2, <1>7, <2>2, <3>1, LoopTestFields DEF X
  <2> QED
    BY <2>1, <2>2
<1> HIDE DEF t
<1>9. CASE l.stmt = "foreach"
  <2>1. r.g = g /\ r.go = TRUE /\ HeadTest(s, l) = s
    BY <1>9 DEF LoopHead, Go, HeadTest
  <2>2. Exact(g.c, s)
    BY <1>9
  <2> QED
    BY <2>1, <2>2 DEF HeadResult
<1>10. CASE l.stmt = "for"
  <2>1. HeadTest(s, l) = t /\ Exact(c, s)
    BY <1>10 DEF HeadTest, t, c
  <2>2. CASE cv = S1
    <3>1. r.g = g /\ r.go = TRUE
      BY <1>10, <2>2, ConstSignals DEF LoopHead, Go, cv, c
    <3>2. c.diag = {} => t.live = s.live
      <4>1. c.diag = {} => Env \cap s.live = X \cap s.live /\ s.live \subseteq Env
        BY <1>3, <1>7, <2>1, <2>2, ConstSignals DEF Exact
      <4> QED
        BY <1>8, <4>1
    <3>3. Known(c, T, h, t, p)
      BY <1>1, <1>8, <3>2, NarrowKeeps
    <3>4. Exact(c, t)
      BY <2>1, <3>2 DEF Exact
    <3> QED
      BY <1>1, <2>1, <3>1, <3>3, <3>4 DEF HeadResult, AtG, c, h
  <2>3. CASE cv = S0
    <3>1. r.g = g /\ r.go = FALSE
      BY <1>10, <2>3, ConstSignals DEF LoopHead, Go, Stop, cv, c
    <3> QED
      BY <3>1 DEF HeadResult
  <2>4. CASE cv.const = FALSE
    <3>1. r.g = Divert(g, cv, S1) /\ r.go = TRUE
      BY <1>10, <2>4 DEF LoopHead, Go, cv, c
    <3>2. c.timing # "Initial"
      BY <1>7, <1>10, <2>4
    <3>3. Hit(OpenSwitch(c, cv), S1, FALSE) = c.cas.on \cap cv.on
      <4>1. \A e \in c.cas.on : e \in Env
        BY <1>3
      <4> QED
        BY <4>1, ConstSignals DEF Hit, OpenSwitch
    <3>4. c.diag = {} => t.live = Hit(OpenSwitch(c, cv), S1, FALSE)
      BY <1>7, <1>8, <2>1, <3>3 DEF Exact
    <3>5. g.c.diag = {} => Narrows(AtHead(l, g.sw), s, t) /\ t.live = Hit(OpenSwitch(g.c, cv), S1, FALSE)
      BY <1>8, <3>4 DEF c, h
    <3>6. g.c.timing # "Initial"
      BY <3>2 DEF c
    <3> DEFINE b == Divert(g, cv, S1)
    <3>7. AtG(b, T, l, t, p) /\ Exact(b.c, t) /\ SameNotes(g.c, b.c)
      BY ONLY AtG(g, T, l, s, p), <1>7, <3>5, <3>6, DivertG
    <3>8. b.c.timing = g.c.timing
      BY <3>7 DEF SameNotes
    <3> HIDE DEF b
    <3>9. r.g = b
      BY <3>1 DEF b
    <3> QED
      BY <2>1, <3>1, <3>7, <3>8, <3>9 DEF HeadResult, c
  <2> QED
    BY <1>7, <2>2, <2>3, <2>4, SignalType
<1>11. CASE l.stmt = "while"
  <2> DEFINE fl == Evaluate(c, l.flag)
             jb == LogicOr(LogicNot(cv), fl)
             gw == [g EXCEPT !.c.broken = @ \/ ~EvaluateOK(g.c, l.flag)]
  <2>1. HeadTest(s, l) = t /\ c.timing # "Initial"
    BY <1>4, <1>11 DEF HeadTest, t, c
  <2>2. FlagTells(c, s, Substitute(c, l.flag)) /\ EvaluateOK(c, l.flag) /\ Substitute(c, l.flag) = fl
    BY <1>1, <1>2, <2>1, FlagReads
  <2>3. fl \in Signals /\ (c.diag = {} => c.cas.on \ fl.on = s.live)
    BY <2>2 DEF FlagTells
  <2>4. gw = g
    <3>1. c \in Contexts(Names(c.nflag, p.nest))
      BY <1>1, KnownType
    <3>2. (c.broken \/ ~EvaluateOK(c, l.flag)) = c.broken
      BY <1>3, <2>2
    <3>3. [c EXCEPT !.broken = c.broken] = c
      BY <3>1 DEF Contexts
    <3>4. [c EXCEPT !.broken = c.broken \/ ~EvaluateOK(c, l.flag)] = c
      BY <3>2, <3>3
    <3>5. gw = [g EXCEPT !.c = [c EXCEPT !.broken = c.broken \/ ~EvaluateOK(c, l.flag)]]
      BY DEF c
    <3>6. gw = [g EXCEPT !.c = c]
      BY <3>4, <3>5
    <3> HIDE DEF gw
    <3> QED
      BY <1>1, <3>6 DEF IsG, c
  <2> HIDE DEF fl
  <2>5. /\ LogicNot(cv) \in Signals /\ LogicNot(cv).on = Env \ cv.on
        /\ jb \in Signals /\ jb.on = (Env \ cv.on) \cup fl.on
        /\ jb.const = TRUE => jb = S1 \/ jb = S0
    <3>1. LogicNot(cv) \in Signals /\ LogicNot(cv).on = Env \ cv.on
      BY <1>7, <2>3, LogicOrCases
    <3> QED
      BY <2>3, <3>1, LogicOrCases, ZenonT(60)
  <2>6. r = (IF jb.const THEN IF jb = S1 THEN Stop(gw) ELSE Go(gw)
             ELSE Go(Reset(Divert(gw, jb, S0), l.flag)))
    BY <1>11 DEF LoopHead, jb, fl, cv, c
  <2> HIDE DEF jb, gw
  <2>7. Hit(OpenSwitch(c, jb), S0, FALSE) = c.cas.on \ jb.on
    BY ConstSignals DEF Hit, OpenSwitch
  <2>8. c.diag = {} => t.live = c.cas.on \ jb.on
    <3> SUFFICES ASSUME c.diag = {} PROVE t.live = c.cas.on \ jb.on
      OBVIOUS
    <3>1. /\ t.live = s.live \cap X /\ cv.on \cap c.cas.on = X \cap c.cas.on
          /\ c.cas.on \ fl.on = s.live /\ c.cas.on \subseteq Env
      BY <1>3, <1>7, <1>8, <2>3
    <3>2. c.cas.on \ jb.on = (c.cas.on \ fl.on) \cap cv.on
      BY <2>5, <3>1
    <3> QED
      BY <3>1, <3>2
  <2>9. CASE jb = S1
    <3>1. r.g = g /\ r.go = FALSE
      BY <2>4, <2>6, <2>9, ConstSignals DEF Stop
    <3> QED
      BY <3>1 DEF HeadResult
  <2>10. CASE jb = S0
    <3>1. r.g = g /\ r.go = TRUE
      BY <2>4, <2>6, <2>10, ConstSignals DEF Go
    <3>2. c.diag = {} => t.live = c.cas.on
      BY <2>8, <2>10, ConstSignals
    <3>3. c.diag = {} => t.live = s.live
      BY <1>8, <2>3, <3>2
    <3>4. Known(c, T, h, t, p)
      BY <1>1, <1>8, <3>3, NarrowKeeps
    <3>5. Exact(c, t)
      BY <3>2 DEF Exact
    <3> QED
      BY <1>1, <2>1, <3>1, <3>4, <3>5 DEF HeadResult, AtG, c, h
  <2>11. CASE jb.const = FALSE
    <3> DEFINE b == Divert(g, jb, S0)
               q == Reset(b, l.flag)
               a == SimpleAssign(b.c, l.flag, S0)
    <3>1. r.g = q /\ r.go = TRUE
      BY <2>4, <2>6, <2>11 DEF Go
    <3>2. g.c.diag = {} => Narrows(AtHead(l, g.sw), s, t) /\ t.live = Hit(OpenSwitch(g.c, jb), S0, FALSE)
      BY <1>8, <2>7, <2>8 DEF c, h
    <3>3. g.c.timing # "Initial"
      BY <2>1 DEF c
    <3>4. AtG(b, T, l, t, p) /\ Exact(b.c, t) /\ SameNotes(g.c, b.c)
      BY ONLY AtG(g, T, l, s, p), <2>5, <3>2, <3>3, DivertG
    <3> HIDE DEF b
    <3>5. b.c.timing = c.timing /\ b.c.esc = c.esc /\ IsG(b) /\ Known(b.c, T, AtHead(l, b.sw), t, p)
      BY <3>4 DEF SameNotes, AtG, c
    <3>6. DisableFlag(b.c) = l.flag /\ b.c.esc # <<>> /\ ~Closing(AtHead(l, b.sw))
      BY <1>2, <3>5 DEF DisableFlag, AtHead, Closing
    <3>7. Known(a, T, AtHead(l, b.sw), t, p) /\ Exact(a, t) /\ SameControl(b.c, a)
      BY <3>4, <3>5, <3>6, ResetKeeps
    <3> HIDE DEF a
    <3>8. q.c = a /\ q.sw = b.sw /\ IsG(q)
      <4>1. b = [c |-> b.c, sw |-> b.sw]
        BY <3>5 DEF IsG
      <4>2. q = [b EXCEPT !.c = a]
        BY DEF Reset, a
      <4> HIDE DEF q
      <4> QED
        BY <4>1, <4>2 DEF IsG
    <3> HIDE DEF q
    <3>9. a.timing = g.c.timing
      BY <3>5, <3>7 DEF SameControl, c
    <3>10. AtG(q, T, l, t, p) /\ Exact(q.c, t)
      BY <3>7, <3>8 DEF AtG
    <3> QED
      BY <2>1, <3>1, <3>8, <3>9, <3>10 DEF HeadResult
  <2> QED
    BY <2>5, <2>9, <2>10, <2>11, SignalType
<1> QED
  BY <1>4, <1>9, <1>10, <1>11
(* Where the body is not entered, the test makes no difference. *)
LEMMA HeadEnd ==
  ASSUME NEW g, NEW T, NEW l, NEW s, NEW p, AtG(g, T, l, s, p), g.c.diag = {}
  PROVE  LoopEnd(HeadTest(s, l)) = LoopEnd(s)
<1> DEFINE h == AtHead(l, g.sw)
           n == Calls(Append(T, l))
<1>1. Known(g.c, T, h, s, p) /\ ~Closing(h)
  BY DEF AtG, AtHead, Closing
<1>2. /\ LoopOK(l, n, g.c.timing) /\ TopOf(s, "loop") /\ SemType(s, n)
      /\ l.cond \in Expressions(StaticVars \cup LocalsTo(n))
  BY <1>1, HeadKnown DEF HeadFacts
<1>3. Calls(Append(T, h)) = n /\ n \in Nat
  <2>1. l.kind = "loop" /\ IsList(T)
    BY <1>1, <1>2, KnownShape DEF LoopOK
  <2>2. Calls(Append(T, h)) = n
    BY <2>1, CallsOfLoop
  <2>3. Calls(Append(T, h)) \in Nat
    BY <1>1, KnownSem
  <2> QED
    BY <2>2, <2>3
<1> HIDE DEF n, h
<1>4. Truth(s, l.cond) \in SUBSET Env
  BY <1>2, TruthType
<1>5. LoopEnd(LoopTest(s, l.cond)) = LoopEnd(s)
  BY <1>2, <1>3, <1>4, TestEnd
<1> QED
  BY <1>5 DEF HeadTest

(* How a loop goes on: into its body with s, or on after its end.          *)
LoopTurn(r, T, l, s, p, tm) ==
  /\ r.go \in BOOLEAN /\ r.g.c.timing = tm
  /\ r.go = TRUE => AtG(r.g, T, l, s, p) /\ Exact(r.g.c, s)
  /\ r.go = FALSE => \E t : AtG(r.g, T, l, t, p) /\ (r.g.c.diag = {} => LoopEnd(s) = LoopEnd(t))

LEMMA HeadTurns ==
  ASSUME NEW r, NEW T, NEW l, NEW s, NEW p, NEW tm, HeadResult(r, T, l, s, HeadTest(s, l), p, tm)
  PROVE  LoopTurn(r, T, l, HeadTest(s, l), p, tm)
<1>1. ASSUME r.go = FALSE
      PROVE  AtG(r.g, T, l, s, p) /\ (r.g.c.diag = {} => LoopEnd(HeadTest(s, l)) = LoopEnd(s))
  <2>1. AtG(r.g, T, l, s, p)
    BY <1>1 DEF HeadResult
  <2> QED
    BY <2>1, HeadEnd
<1> QED
  BY <1>1 DEF LoopTurn, HeadResult

TurnTo(r) ==
  IF r.go THEN Register(r.g.c, "LoopBody")
  ELSE Unregister(Descend(Unwind(ExitUnrolling(r.g.c), r.g.sw)))

Turned(r, T, l, s, p, tm, d) ==
  /\ r.go \in BOOLEAN /\ d.timing = tm
  /\ r.go = TRUE => Known(d, T, [l EXCEPT !.lsw = r.g.sw, !.sw = <<>>], s, p)
  /\ r.go = FALSE => Known(d, Front(T), Last(T), LoopEnd(s), p)

LEMMA TurnKeeps ==
  ASSUME NEW r, NEW T, NEW l, NEW s, NEW p, NEW tm, LoopTurn(r, T, l, s, p, tm)
  PROVE  Turned(r, T, l, s, p, tm, TurnTo(r))
<1> DEFINE d == TurnTo(r)
<1>1. r.go \in BOOLEAN /\ r.g.c.timing = tm
  BY DEF LoopTurn
<1>2. CASE r.go = TRUE
  <2>1. Known(r.g.c, T, AtHead(l, r.g.sw), s, p) /\ Exact(r.g.c, s)
    BY <1>2 DEF LoopTurn, AtG
  <2>2. d = Register(r.g.c, "LoopBody")
    BY <1>2 DEF TurnTo
  <2> HIDE DEF d
  <2>3. Known(d, T, [l EXCEPT !.lsw = r.g.sw, !.sw = <<>>], s, p) /\ d.timing = r.g.c.timing
    BY ONLY <2>1, <2>2, EnterBodyKeeps
  <2> QED
    BY <1>1, <1>2, <2>3 DEF Turned, d
<1>3. CASE r.go = FALSE
  <2>1. PICK t : AtG(r.g, T, l, t, p) /\ (r.g.c.diag = {} => LoopEnd(s) = LoopEnd(t))
    BY <1>3 DEF LoopTurn
  <2>2. Known(r.g.c, T, AtHead(l, r.g.sw), t, p)
    BY <2>1 DEF AtG
  <2>3. d = Unregister(Descend(Unwind(ExitUnrolling(r.g.c), r.g.sw)))
    BY <1>3 DEF TurnTo
  <2> HIDE DEF d
  <2> DEFINE s2 == LoopEnd(s)
  <2>4. r.g.c.diag = {} => s2 = LoopEnd(t)
    BY <2>1
  <2> HIDE DEF s2
  <2>5. Known(d, Front(T), Last(T), s2, p) /\ d.timing = r.g.c.timing
    BY ONLY <2>2, <2>3, <2>4, LeaveLoopKeeps
  <2> QED
    BY <1>1, <1>3, <2>5 DEF s2, Turned, d
<1> QED
  BY <1>1, <1>2, <1>3

(* No valuation executes the step of a loop that all have left. *)
LEMMA StepQuiet ==
  ASSUME NEW g, NEW T, NEW l, NEW s, NEW p, AtG(g, T, l, s, p), g.c.diag = {} => s.live = {}
  PROVE  AtG(g, T, l, SemStep(s, l), p)
<1> DEFINE h == AtHead(l, g.sw)
           n == Calls(Append(T, l))
           t == SemStep(s, l)
<1>1. Known(g.c, T, h, s, p) /\ IsG(g)
  BY DEF AtG
<1>2. LoopOK(l, n, g.c.timing) /\ (g.c.diag = {} => SemType(s, n))
  BY <1>1, HeadKnown DEF HeadFacts
<1>3. Calls(Append(T, h)) = n
  BY <1>1, <1>2, KnownShape, CallsOfLoop DEF LoopOK
<1> HIDE DEF n, h
<1>4. ASSUME g.c.diag = {}, l.step # None PROVE Nothing(s, t, n)
  <2> DEFINE v == l.step[1]
             x == l.step[2]
             w == Const(TRUE)
             X == Truth(s, x)
             who == s.live \cap Truth(s, w)
  <2>1. v \in StaticVars /\ x \in Expressions(StaticVars)
    BY <1>2, <1>4 DEF LoopOK
  <2>2. SemType(s, n) /\ s.live = {}
    BY <1>2, <1>4
  <2> HIDE DEF v, x
  <2>3. X \in SUBSET Env
    <3>1. x \in Expressions(StaticVars \cup LocalsTo(n))
      BY <2>1 DEF Expressions
    <3> QED
      BY <2>2, <3>1, TruthType
  <2>4. Truth(s, w) \in SUBSET Env
    <3>1. Truth(s, Const(TRUE)) = Env
      BY ConstMeans
    <3> QED
      BY <3>1
  <2>5. t = AssignVar(s, v, x, w, TRUE)
    BY <1>4 DEF SemStep, v, x
  <2> HIDE DEF w, t, X
  <2>6. SemType(t, n) /\ AssignedTo(s, t, v, X, who, TRUE)
    <3>1. v \in StaticVars \cup LocalsTo(n)
      BY <2>1
    <3> QED
      BY <2>2, <2>3, <2>4, <2>5, <3>1, AssignVarFields DEF X
  <2>7. who = {}
    BY <2>2
  <2> HIDE DEF who
  <2>8. \A u \in StaticVars \cup LocalsTo(n) : u \in DOMAIN s.cur /\ s.cur[u] \subseteq Env
    BY <2>2 DEF SemType
  <2>9. Blend(s.cur[v], X, who) = s.cur[v]
    BY <2>7 DEF Blend
  <2>10. \A u \in StaticVars \cup LocalsTo(n) : t.cur[u] = s.cur[u]
    BY <2>6, <2>8, <2>9 DEF AssignedTo
  <2>11. \A u \in StaticVars : t.nba[u] = s.nba[u] /\ t.queued[u] = s.queued[u]
    BY <2>1, <2>6 DEF AssignedTo
  <2> QED
    BY <2>6, <2>10, <2>11 DEF Nothing, AssignedTo, LocalsTo
<1>5. CASE l.step = None
  BY <1>5 DEF SemStep
<1>6. CASE l.step # None
  <2> HIDE DEF t
  <2>1. Known(g.c, T, h, t, p)
    BY <1>1, <1>3, <1>4, <1>6, QuietKeeps
  <2> QED
    BY <1>1, <2>1 DEF AtG, h, t
<1> QED
  BY <1>5, <1>6
(* Between two iterations. *)
LEMMA AdvanceKeeps ==
  ASSUME NEW g, NEW T, NEW l, NEW s, NEW p, AtG(g, T, l, s, p), NEW last
  PROVE  LoopTurn(Advance(g, l, last), T, l, HeadTest(SemStep(s, l), l), p, g.c.timing)
<1> DEFINE br == Substitute(g.c, l.flag)
           b == BreakChecked(g, l)
           q == Stepped(b, l)
           k == [q EXCEPT !.c = Tick(@)]
           t == SemStep(s, l)
           r == Advance(g, l, last)
           h == AtHead(l, g.sw)
           tm == g.c.timing
<1>1. Known(g.c, T, h, s, p) /\ ~Closing(h) /\ IsG(g)
  BY DEF AtG, AtHead, Closing
<1>2. LoopOK(l, Calls(Append(T, l)), tm) /\ g.c.esc # <<>> /\ l.flag = DisableFlag(g.c)
  BY <1>1, HeadKnown DEF HeadFacts
<1>3. l.stmt = "foreach" => l.step = None
  BY <1>2 DEF LoopOK
<1> HIDE DEF h
<1>4. CASE l.stmt # "while" /\ br = S1
  <2>1. r = Stop(g)
    BY <1>4 DEF Advance
  <2>2. g.c.diag = {} => s.live = {}
    <3>1. FlagTells(g.c, s, br) /\ g.c.cas.on \subseteq Env
      BY <1>1, <1>2, FlagReads, KnownShape
    <3> HIDE DEF br
    <3> QED
      BY <1>4, <3>1, ConstSignals DEF FlagTells
  <2> HIDE DEF t, tm
  <2>3. AtG(g, T, l, t, p)
    BY <2>2, StepQuiet DEF t
  <2>4. g.c.diag = {} => LoopEnd(HeadTest(t, l)) = LoopEnd(t)
    BY <2>3, HeadEnd
  <2>5. r.go = FALSE /\ r.g = g
    BY <2>1 DEF Stop
  <2> HIDE DEF r
  <2>6. r.g.c.timing = tm
    BY <2>5 DEF tm
  <2>7. \E u : AtG(r.g, T, l, u, p) /\ (r.g.c.diag = {} => LoopEnd(HeadTest(t, l)) = LoopEnd(u))
    BY <2>3, <2>4, <2>5
  <2>8. LoopTurn(r, T, l, HeadTest(t, l), p, tm)
    BY <2>5, <2>6, <2>7 DEF LoopTurn
  <2> QED
    BY <2>8 DEF r, t, tm
<1>5. CASE ~(l.stmt # "while" /\ br = S1)
  <2>1. l.stmt # "while" => Substitute(g.c, l.flag) # S1
    BY <1>5
  <2>2. AtG(b, T, l, s, p) /\ (l.stmt # "while" => Exact(b.c, s)) /\ b.c.timing = tm
    BY <2>1, BreakKeeps
  <2>3. r = (IF l.stmt = "foreach" /\ last THEN Stop(b)
             ELSE IF TickFails(q.c) THEN Stop(k) ELSE LoopHead(k, l))
    BY <1>5 DEF Advance, CheckedAndStepped
  <2> HIDE DEF b, t, tm, r
  <2>4. AtG(q, T, l, t, p) /\ (l.stmt # "while" => Exact(q.c, t)) /\ q.c.timing = tm
    BY <2>2, StepKeeps DEF t
  <2> HIDE DEF q
  <2>5. /\ k.c = Tick(q.c) /\ k.sw = q.sw /\ IsG(k)
    <3>1. q = [c |-> q.c, sw |-> q.sw]
      BY <2>4 DEF AtG, IsG
    <3> QED
      BY <3>1 DEF IsG
  <2> HIDE DEF k
  <2>6. /\ AtG(k, T, l, t, p) /\ (l.stmt # "while" => Exact(k.c, t)) /\ k.c.timing = tm
        /\ (TickFails(q.c) => k.c.diag # {})
    <3>1. Known(q.c, T, AtHead(l, q.sw), t, p)
      BY <2>4 DEF AtG
    <3>2. /\ Known(k.c, T, AtHead(l, q.sw), t, p) /\ SameStore(q.c, k.c)
          /\ q.c.diag \subseteq k.c.diag /\ (TickFails(q.c) => k.c.diag # {})
      BY <2>5, <3>1, TickKeeps
    <3> QED
      BY <2>4, <2>5, <3>2 DEF AtG, SameStore, Exact
  <2>7. CASE l.stmt = "foreach" /\ last
    <3>1. r.go = FALSE /\ r.g = b
      BY <2>3, <2>7 DEF Stop
    <3>2. HeadTest(t, l) = s
      BY <1>3, <2>7 DEF HeadTest, SemStep, t
    <3>3. \E u : AtG(r.g, T, l, u, p) /\ (r.g.c.diag = {} => LoopEnd(HeadTest(t, l)) = LoopEnd(u))
      BY <2>2, <3>1, <3>2
    <3>4. LoopTurn(r, T, l, HeadTest(t, l), p, tm)
      BY <2>2, <3>1, <3>3 DEF LoopTurn
    <3> QED
      BY <3>4 DEF r, t, tm
  <2>8. CASE ~(l.stmt = "foreach" /\ last) /\ TickFails(q.c)
    <3>1. r.go = FALSE /\ r.g = k
      BY <2>3, <2>8 DEF Stop
    <3>2. \E u : AtG(r.g, T, l, u, p) /\ (r.g.c.diag = {} => LoopEnd(HeadTest(t, l)) = LoopEnd(u))
      BY <2>6, <2>8, <3>1
    <3>3. LoopTurn(r, T, l, HeadTest(t, l), p, tm)
      BY <2>6, <3>1, <3>2 DEF LoopTurn
    <3> QED
      BY <3>3 DEF r, t, tm
  <2>9. CASE ~(l.stmt = "foreach" /\ last) /\ ~TickFails(q.c)
    <3>1. r = LoopHead(k, l)
      BY <2>3, <2>9
    <3>2. HeadResult(LoopHead(k, l), T, l, t, HeadTest(t, l), p, k.c.timing)
      BY <2>6, HeadKeeps
    <3>3. LoopTurn(r, T, l, HeadTest(t, l), p, tm)
      BY <2>6, <3>1, <3>2, HeadTurns
    <3> QED
      BY <3>3 DEF r, t, tm
  <2> QED
    BY <2>7, <2>8, <2>9
<1> QED
  BY <1>4, <1>5

(* An iteration is over. *)
LEMMA EndIterationKeeps ==
  ASSUME NEW c, NEW T, NEW f, NEW s, NEW p, Known(c, T, f, s, p), f.kind = "loop", c.diag = {}, NEW last,
         NEW r, r = Advance([c |-> Unregister(Unwind(c, f.sw)), sw |-> f.lsw], f, last),
         NEW i, i = IterationEnd(s),
         NEW t, t = IF f.stmt = "foreach" THEN i ELSE LoopTest(SemStep(i, f), f.cond)
  PROVE  Turned(r, T, f, t, p, c.timing, TurnTo(r)) /\ Len(T) >= 1
<1> DEFINE e == Unregister(Unwind(c, f.sw))
           g == [c |-> e, sw |-> f.lsw]
<1>1. Known(e, T, AtHead(f, f.lsw), i, p) /\ e.timing = c.timing
  BY LeaveBodyKeeps
<1> HIDE DEF e
<1>2. AtG(g, T, f, i, p) /\ g.c.timing = c.timing /\ r = Advance(g, f, last)
  BY <1>1 DEF AtG, IsG, e
<1>3. LoopOK(f, Calls(Append(T, f)), e.timing) /\ Len(T) >= 1
  BY <1>1, HeadKnown DEF HeadFacts
<1>4. HeadTest(SemStep(i, f), f) = t
  <2>1. f.stmt = "foreach" => f.step = None
    BY <1>3 DEF LoopOK
  <2> QED
    BY <2>1 DEF HeadTest, SemStep
<1> HIDE DEF g
<1>5. LoopTurn(r, T, f, HeadTest(SemStep(i, f), f), p, g.c.timing)
  BY <1>2, AdvanceKeeps
<1>6. LoopTurn(r, T, f, t, p, c.timing)
  BY <1>2, <1>4, <1>5
<1> QED
  BY <1>3, <1>6, TurnKeeps

(* A loop is entered, or skipped at once. *)
LEMMA BeginLoopKeeps ==
  ASSUME NEW c, NEW T, NEW f, NEW s, NEW p, Known(c, T, f, s, p), Inner(f), Exact(c, s),
         NEW e, e = EnterUnrolling(Register(c, "Loop")),
         NEW l, LoopOK(l, Calls(Append(T, f)), c.timing), l.flag = Flag(c.nflag),
         NEW r, r = LoopHead([c |-> e, sw |-> <<>>], l),
         NEW t, t = IF l.stmt = "foreach" THEN LoopBegin(s) ELSE LoopTest(LoopBegin(s), l.cond)
  PROVE  Turned(r, Append(T, f), l, t, p, c.timing, TurnTo(r))
<1> DEFINE g == [c |-> e, sw |-> <<>>]
           U == Append(T, f)
           i == LoopBegin(s)
<1>1. Known(e, U, AtHead(l, <<>>), i, p) /\ Exact(e, i) /\ e.timing = c.timing
  BY PushLoop
<1>2. AtG(g, U, l, i, p) /\ g.c = e
  BY <1>1 DEF AtG, IsG
<1> HIDE DEF U, i
<1>4. r = LoopHead(g, l) /\ HeadTest(i, l) = t
  BY DEF HeadTest, i
<1> HIDE DEF g
<1>5. HeadResult(r, U, l, i, HeadTest(i, l), p, c.timing)
  BY <1>1, <1>2, <1>4, HeadKeeps
<1>6. LoopTurn(r, U, l, t, p, c.timing)
  BY <1>4, <1>5, HeadTurns
<1> QED
  BY <1>6, TurnKeeps DEF U

-----------------------------------------------------------------------------
(* Calls.                                                                  *)

CallBegun(s, t, v, x, n) ==
  /\ SemType(t, n + 1) /\ t.live = s.live /\ Topped(s, t, [kind |-> "call", back |-> {}])
  /\ t.cur[v] = Truth(s, x) /\ (\A u \in DOMAIN s.cur \ {v} : t.cur[u] = s.cur[u])
  /\ t.nba = s.nba /\ t.queued = s.queued

LEMMA CallBeginFields ==
  ASSUME NEW s, NEW n \in Nat, SemType(s, n), NEW x, Truth(s, x) \in SUBSET Env
  PROVE  CallBegun(s, CallBegin(s, Local(n + 1), x), Local(n + 1), x, n)
<1> DEFINE v == Local(n + 1)
           t == CallBegin(s, v, x)
           g == [kind |-> "call", back |-> {}]
           W == Truth(s, x)
<1>1. /\ DOMAIN s = {"live", "frames", "cur", "nba", "queued", "written"}
      /\ s.live \subseteq Env /\ s.frames \in Seq(SemFrames)
      /\ s.cur \in [DOMAIN s.cur -> SUBSET Env]
      /\ StaticVars \cup LocalsTo(n) \subseteq DOMAIN s.cur
      /\ s.nba \in [StaticVars -> SUBSET Env] /\ s.queued \in [StaticVars -> SUBSET Env]
      /\ s.written \in [StaticVars -> SUBSET Env]
  BY DEF SemType
<1> HIDE DEF W
<1>2. /\ DOMAIN t = {"live", "frames", "cur", "nba", "queued", "written"}
      /\ t.live = s.live /\ t.frames = Append(s.frames, g) /\ t.nba = s.nba /\ t.queued = s.queued
      /\ t.written = s.written
      /\ t.cur = [u \in DOMAIN s.cur \cup {v} |-> IF u = v THEN W ELSE s.cur[u]]
  BY <1>1 DEF CallBegin, PushFrame, W
<1>3. g \in SemFrames
  BY DEF SemFrames
<1> HIDE DEF t, g
<1>4. t.frames \in Seq(SemFrames) /\ Topped(s, t, g)
  BY <1>1, <1>2, <1>3, FrameAdded
<1>5. LocalsTo(n + 1) \subseteq LocalsTo(n) \cup {v}
  <2>1. \A i \in 1..(n + 1) : i \in 1..n \/ i = n + 1
    OBVIOUS
  <2> QED
    BY <2>1 DEF LocalsTo
<1>6. W \in SUBSET Env
  BY DEF W
<1>7. /\ t.cur \in [DOMAIN t.cur -> SUBSET Env] /\ DOMAIN t.cur = DOMAIN s.cur \cup {v}
      /\ t.cur[v] = W /\ \A u \in DOMAIN s.cur \ {v} : t.cur[u] = s.cur[u]
  BY <1>1, <1>2, <1>6
<1>8. SemType(t, n + 1)
  BY <1>1, <1>2, <1>4, <1>5, <1>7 DEF SemType
<1> QED
  BY <1>2, <1>4, <1>7, <1>8 DEF CallBegun, W, t, g

(* The first frame is no call. *)
LEMMA FewCalls ==
  ASSUME NEW c, NEW T, NEW f, NEW s, NEW p, Known(c, T, f, s, p)
  PROVE  Calls(Append(T, f)) \in Nat /\ Calls(Append(T, f)) <= Len(T) /\ Len(T) \in Nat
<1>1. PICK Y, z, V, B, F : Inv(c, T, f, s, p, Y, z, V, B, F)
  BY DEF Known
<1> DEFINE N == Names(c.nflag, p.nest)
           t == Append(T, f)
           n == Len(T)
           P == {i \in DOMAIN t : t[i].kind = "call"}
<1>2. /\ Under(c.timing, c.esc, B, N, T, Y)
      /\ FrameAt(c.timing, c.esc, B, N, f, Y[Len(T) + 1], z, Len(T) + 1)
  BY <1>1, InvFacts
<1>3. IsList(T)
  BY <1>2 DEF Under
<1>4. n \in Nat /\ DOMAIN t = 1..(n + 1) /\ (\A j \in 1..n : t[j] = T[j]) /\ t[n + 1] = f
  BY <1>3, ListFacts
<1>5. t[1].kind = "root"
  <2>1. CASE n = 0
    BY <1>2, <1>4, <2>1 DEF FrameAt
  <2>2. CASE n # 0
    <3>1. 1 \in 1..n
      BY <1>4, <2>2
    <3>2. FrameAt(c.timing, c.esc, B, N, T[1], Y[1], Y[1 + 1], 1)
      BY <1>2, <3>1 DEF Under
    <3> QED
      BY <1>4, <3>1, <3>2 DEF FrameAt
  <2> QED
    BY <2>1, <2>2
<1> HIDE DEF t, n
<1>6. P \subseteq 2..(n + 1)
  <2>1. ASSUME NEW i \in P PROVE i \in 2..(n + 1)
    <3>1. i \in 1..(n + 1) /\ i # 1
      BY <1>4, <1>5, <2>1
    <3> QED
      BY <1>4, <3>1
  <2> QED
    BY <2>1
<1>7. IsFiniteSet(2..(n + 1)) /\ Cardinality(2..(n + 1)) = n
  <2>1. 2 \in Int /\ n + 1 \in Int
    BY <1>4
  <2>2. IsFiniteSet(2..(n + 1)) /\ Cardinality(2..(n + 1)) = IF 2 > n + 1 THEN 0 ELSE (n + 1) - 2 + 1
    BY <2>1, FS_Interval
  <2> QED
    BY <1>4, <2>2
<1>8. IsFiniteSet(P) /\ Cardinality(P) <= n
  BY <1>6, <1>7, FS_Subset
<1>9. Cardinality(P) \in Nat
  BY <1>8, FS_CardinalityType
<1> QED
  BY <1>4, <1>8, <1>9 DEF Calls, t, n

(* The local of a call is declared and takes the argument. *)
ArgumentFacts(c, d, H, V, N, B, F, v, r) ==
  /\ \E W \in SUBSET Env :
       /\ Good(d, H, V, <<>>, N, Extend(B, v, Len(H)), Extend(F, v, W))
       /\ d.diag = {} => W \cap c.cas.on = r.on \cap c.cas.on
  /\ SameControl(c, d) /\ d.broken = c.broken
  /\ d.diag = {} => d.blocking = c.blocking /\ d.nonblocking = c.nonblocking

LEMMA ArgumentGood ==
  ASSUME NEW c, NEW H, NEW V, NEW N, NEW B, NEW F, Good(c, H, V, <<>>, N, B, F),
         NEW v \in N, v \notin DOMAIN F, ~IsStatic(v), NEW r \in Signals
  PROVE  ArgumentFacts(c, SimpleAssign(SimpleAssign(c, v, S0), v, r), H, V, N, B, F, v, r)
<1> DEFINE a == SimpleAssign(c, v, S0)
           d == SimpleAssign(a, v, r)
           on == c.cas.on
           B1 == Extend(B, v, Len(H))
           F1 == Extend(F, v, S0.on \cap on)
           F2 == Assigned(a, F1, v, r, S1)
<1>1. S0 \in Signals /\ S1 \in Signals /\ S0.const = TRUE /\ S1 # S0 /\ S0.on = {} /\ S1.on = Env
  BY ConstSignals
<1>2. Good(a, H, V, <<>>, N, B1, F1) /\ Noted(c, a, v, S0, S1, TRUE)
  BY <1>1, DeclareGood
<1>4. v \in DOMAIN F1 /\ F1[v] = {} /\ DOMAIN F1 = DOMAIN F \cup {v}
  BY <1>1 DEF Extend
<1>5. c \in Contexts(N) /\ on \subseteq Env
  BY GoodFacts
<1> HIDE DEF a, F1, B1
<1>3. F1 \in [DOMAIN F1 -> SUBSET Env] /\ a \in Contexts(N)
  BY <1>2, GoodFacts
<1>6. Good(d, H, V, <<>>, N, B1, F2) /\ Noted(a, d, v, r, S1, TRUE)
  BY <1>1, <1>2, <1>4, UpdateGood DEF SimpleAssign
<1> HIDE DEF d, F2
<1>7. SameControl(c, a) /\ SameControl(a, d) /\ d.broken = c.broken
  BY <1>2, <1>6 DEF Noted
<1>8. SameControl(c, d)
  BY <1>7 DEF SameControl
<1>9. d.diag = {} => d.blocking = c.blocking /\ d.nonblocking = c.nonblocking
  <2>1. ASSUME d.diag = {} PROVE d.blocking = c.blocking /\ d.nonblocking = c.nonblocking
    <3>1. a.diag = {}
      BY <1>7, <2>1 DEF SameControl
    <3>2. NotedAs(c, a, v, S1, TRUE) /\ NotedAs(a, d, v, S1, TRUE)
      BY <1>2, <1>3, <1>5, <1>6, <2>1, <3>1, NotedSets
    <3> QED
      BY <3>2 DEF NotedAs
  <2> QED
    BY <2>1
<1>10. a.cas = c.cas /\ a.timing = c.timing
  BY <1>7 DEF SameControl
<1>11. \E W \in SUBSET Env : /\ F2 = Extend(F, v, W)
                             /\ d.diag = {} => W \cap on = r.on \cap on
  <2>1. CASE a.timing = "Initial" /\ r.const = FALSE
    <3>1. F2 = F1
      BY <2>1 DEF F2, Assigned
    <3>2. d.diag # {}
      BY <1>1, <1>6, <2>1 DEF Noted
    <3> QED
      BY <1>5, <3>1, <3>2, <1>1 DEF F1
  <2>2. CASE ~(a.timing = "Initial" /\ r.const = FALSE)
    <3> DEFINE W == Blend(F1[v], r.on, a.cas.on \cap S1.on)
    <3>1. F2 = [F1 EXCEPT ![v] = W]
      BY <2>2 DEF F2, Assigned
    <3>2. r.on \subseteq Env
      BY SignalType
    <3>3. W \in SUBSET Env /\ W \cap on = r.on \cap on
      BY <1>1, <1>4, <1>5, <1>10, <3>2 DEF Blend
    <3> HIDE DEF W
    <3>4. F2 = Extend(F, v, W)
      BY <1>4, <3>1 DEF F1, Extend
    <3> QED
      BY <3>3, <3>4
  <2> QED
    BY <2>1, <2>2
<1> QED
  BY <1>6, <1>7, <1>8, <1>9, <1>11 DEF ArgumentFacts, a, d, B1

(* A call: its local takes the argument, and its guard is registered. *)
CallFrame(target) == [kind |-> "call", target |-> target, sw |-> <<>>]

LEMMA BeginCallKeeps ==
  ASSUME NEW c, NEW T, NEW f, NEW s, NEW p, Known(c, T, f, s, p), Inner(f), Exact(c, s),
         p.nest \in Nat, Len(T) + 1 <= p.nest,
         NEW n, n = Calls(Append(T, f)), NEW v, v = Local(n + 1), NEW x \in InScope(T, f),
         NEW target \in StaticVars \cup {None},
         NEW a, a = SimpleAssign(SimpleAssign(c, v, S0), v, Eval(c, x)),
         NEW d, d = Register(a, "FunctionBody")
  PROVE  Known(d, Append(T, f), CallFrame(target), CallBegin(s, v, x), p) /\ d.timing = c.timing
<1>1. PICK Y, z, V, B, F : Inv(c, T, f, s, p, Y, z, V, B, F)
  BY DEF Known
<1> DEFINE N == Names(c.nflag, p.nest)
           M == Names(c.nflag + 1, p.nest)
           y == Y[Len(T) + 1]
           q == Flag(c.nflag)
           g == CallFrame(target)
           s2 == CallBegin(s, v, x)
           k == Over0(g, z, s2.live)
           r == Eval(c, x)
           on == c.cas.on
<1>2. /\ Good(c, z.hs, V, <<>>, N, B, F) /\ FrameAt(c.timing, c.esc, B, N, f, y, z, Len(T) + 1)
      /\ Scoped(c, z, B, F) /\ c.broken = FALSE /\ (c.diag = {} => Meaning(c, T, f, s, Y, z, F))
  BY <1>1, InvFacts DEF Inner, Pending, Closing
<1>3. z.d = n /\ IsList(T)
  <2>1. ScopeIs(T, f, z, F)
    BY ONLY <1>1, KnownScope
  <2> QED
    BY <2>1 DEF ScopeIs
<1>4. n \in Nat /\ n + 1 \in 1..p.nest
  <2>1. n \in Nat /\ n <= Len(T) /\ Len(T) \in Nat
    BY FewCalls
  <2> QED
    BY <2>1
<1>5. v \in N /\ ~IsStatic(v) /\ v \notin DOMAIN F
  <2>1. v \in N
    BY <1>4 DEF Names, LocalsTo
  <2>2. DOMAIN F = Scope(c.esc, n) /\ Numbered(c.esc, c.nflag)
    BY <1>2, <1>3 DEF Scoped
  <2>3. v \notin StaticVars /\ ~IsStatic(v)
    BY NameFacts
  <2>4. v \notin LocalsTo(n)
    <3>1. \A i \in 1..n : i # n + 1
      BY <1>4
    <3> QED
      BY <3>1, NameFacts DEF LocalsTo
  <2>5. \A i \in 1..Len(c.esc) : v # c.esc[i].flag
    BY <2>2, NameFacts DEF Numbered
  <2> QED
    BY <2>1, <2>2, <2>3, <2>4, <2>5 DEF Scope
<1>6. ~Closing(f)
  BY DEF Inner, Closing
<1>7. r \in Signals /\ (c.diag = {} => Truth(s, x) \in SUBSET Env /\ r.on \cap on = Truth(s, x) \cap on)
  <2>1. Evaluates(c, s, x, Eval(c, x), c.cas.on)
    BY <1>6, KnownEval
  <2> QED
    BY <2>1 DEF Evaluates
<1> HIDE DEF N, y, s2, k, r
<1>8. ArgumentFacts(c, a, z.hs, V, N, B, F, v, r)
  BY <1>2, <1>5, <1>7, ArgumentGood DEF r
<1>9. PICK W \in SUBSET Env : /\ Good(a, z.hs, V, <<>>, N, Extend(B, v, Len(z.hs)), Extend(F, v, W))
                              /\ a.diag = {} => W \cap on = r.on \cap on
  BY <1>8 DEF ArgumentFacts
<1> DEFINE B1 == Extend(B, v, Len(z.hs))
           F1 == Extend(F, v, W)
           B2 == Extend(B1, q, Len(z.hs))
           F2 == Extend(F1, q, {})
           X == IF d.diag = {} THEN Truth(s, x) ELSE W
           F3 == [F2 EXCEPT ![v] = X]
<1>10. /\ a.timing = c.timing /\ a.cas = c.cas /\ a.esc = c.esc /\ a.nflag = c.nflag
       /\ a.unrolling = c.unrolling /\ a.exhausted = c.exhausted /\ c.diag \subseteq a.diag
       /\ a.broken = c.broken
       /\ a.diag = {} => a.blocking = c.blocking /\ a.nonblocking = c.nonblocking
  BY <1>8 DEF ArgumentFacts, SameControl
<1> HIDE DEF B1, F1
<1>11. RegisterFacts(a, d, "FunctionBody", z.hs, V, p, B1, F1)
  <2>1. Good(a, z.hs, V, <<>>, Names(a.nflag, p.nest), B1, F1)
    BY <1>9, <1>10 DEF N, B1, F1
  <2> QED
    BY <2>1, RegisterGood
<1> HIDE DEF B2, F2, M, q
<1>12. /\ Good(d, z.hs, V, <<>>, M, B2, F2)
       /\ d.esc = Append(c.esc, [kind |-> "FunctionBody", flag |-> q]) /\ d.nflag = c.nflag + 1
       /\ d.timing = c.timing /\ d.cas.on = c.cas.on /\ d.unrolling = c.unrolling
       /\ d.exhausted = c.exhausted /\ d.broken = FALSE /\ c.diag \subseteq d.diag
       /\ d.diag = {} => a.diag = {}
       /\ d.diag = {} => d.blocking = c.blocking /\ d.nonblocking = c.nonblocking
  BY <1>2, <1>10, <1>11 DEF RegisterFacts, B2, F2, M, q
<1>13. /\ c.esc \in Seq(Guards) /\ c.nflag \in Nat
  BY <1>2, GoodFacts, ContextType
<1>14. /\ z.n = Len(c.esc) /\ z.l = c.unrolling /\ Numbered(c.esc, c.nflag) /\ DOMAIN F = Scope(c.esc, z.d)
  BY <1>2 DEF Scoped
<1>15. MoreGuards(c.esc, c.nflag, "FunctionBody", d.esc)
  BY <1>12, <1>13, <1>14, GuardAdded DEF q
<1>16. LayoutOK(z, N) /\ z.n \in Nat /\ z.d \in Nat /\ z.m \in Nat /\ z.l \in Nat /\ Len(z.hs) \in Nat
  BY <1>2 DEF FrameAt, LayoutOK
<1>17. g.kind = "call" /\ Opened(g) = <<>> /\ g.target = target /\ DOMAIN g = {"kind", "target", "sw"} /\ g.sw = <<>>
  BY DEF CallFrame, Opened
<1> HIDE DEF g
<1>18. /\ k.hs = z.hs /\ k.w = s2.live /\ k.n = z.n + 1 /\ k.m = z.m + 1 /\ k.d = z.d + 1 /\ k.l = z.l
  <2>1. /\ k.hs = z.hs /\ k.w = s2.live
        /\ k.n = z.n + NGuards(g.kind) /\ k.m = z.m + NParks(g.kind)
        /\ k.d = z.d + NCalls(g.kind) /\ k.l = z.l + NLoops(g.kind)
    BY <1>16, <1>17, Over0Facts DEF k
  <2>2. NGuards(g.kind) = 1 /\ NParks(g.kind) = 1 /\ NCalls(g.kind) = 1 /\ NLoops(g.kind) = 0
    BY <1>17 DEF NGuards, NCalls, NLoops, NParks
  <2> QED
    BY <1>16, <2>1, <2>2
<1>19. /\ Len(d.esc) = z.n + 1 /\ (\A i \in 1..z.n : d.esc[i] = c.esc[i])
       /\ d.esc[z.n + 1].kind = "FunctionBody" /\ d.esc[z.n + 1].flag = q
       /\ (\A i \in 1..z.n : c.esc[i].flag # q)
       /\ Numbered(d.esc, d.nflag) /\ Scope(d.esc, z.d) = DOMAIN F \cup {q}
  BY <1>12, <1>14, <1>15 DEF MoreGuards, q
<1>20. LocalsTo(n + 1) = LocalsTo(n) \cup {v}
  <2>1. 1..(n + 1) = 1..n \cup {n + 1}
    BY <1>4
  <2> QED
    BY <2>1 DEF LocalsTo
<1>21. Scope(d.esc, k.d) = DOMAIN F \cup {v, q}
  <2>1. Scope(d.esc, n + 1) = Scope(d.esc, n) \cup {v}
    BY <1>20 DEF Scope
  <2> QED
    BY <1>3, <1>18, <1>19, <2>1
<1>22. q \notin DOMAIN F /\ q # v
  <2>1. DOMAIN F \subseteq N
    BY <1>2, GoodFacts
  <2> QED
    BY <1>13, <2>1, FlagIsNew, NameFacts DEF N, q
<1>23. X \in SUBSET Env /\ (d.diag = {} => X = Truth(s, x) /\ c.diag = {})
  BY <1>7, <1>9, <1>12
<1> HIDE DEF X
<1>24. /\ DOMAIN F2 = DOMAIN F \cup {v, q} /\ F2[q] = {} /\ F2[v] = W /\ B2[v] = Len(z.hs)
       /\ \A u \in DOMAIN F : F2[u] = F[u] /\ B2[u] = B[u]
  <2>1. DOMAIN B = DOMAIN F
    BY <1>2, GoodFacts
  <2> QED
    BY <1>5, <1>22, <2>1 DEF F2, B2, F1, B1, Extend
<1>25. Good(d, z.hs, V, <<>>, M, B2, F3)
  <2>1. X \cap d.cas.on = F2[v] \cap d.cas.on
    <3>1. CASE d.diag = {}
      BY <1>7, <1>9, <1>12, <1>23, <1>24, <3>1
    <3>2. CASE d.diag # {}
      BY <1>24, <3>2 DEF X
    <3> QED
      BY <3>1, <3>2
  <2>2. v \in DOMAIN F2
    BY <1>24
  <2> QED
    BY <1>12, <1>23, <1>24, <2>1, <2>2, FreeOutside
<1>26. /\ DOMAIN F3 = DOMAIN F \cup {v, q} /\ F3[q] = {} /\ F3[v] = X
       /\ \A u \in DOMAIN F : F3[u] = F[u] /\ B2[u] = B[u]
  BY <1>5, <1>22, <1>24
<1> HIDE DEF F3
<1>27. Gained(c, d, z, k, g)
  <2>1. Guarding(g, z, d.esc)
    BY <1>17, <1>19 DEF Guarding
  <2>2. c.nflag <= d.nflag
    BY <1>12, <1>13
  <2> QED
    BY <1>12, <1>14, <1>18, <1>19, <2>1, <2>2 DEF Gained
<1>28. SameOld(B, F, d, B2, F3)
  BY <1>26 DEF SameOld
<1>29. ASSUME d.diag = {} PROVE SemGained(c, d, s, s2, F3, g, z, k)
  <2>1. c.diag = {}
    BY <1>12, <1>29
  <2>2. /\ SemType(s, z.d) /\ Mirrors(s, c, F, z.d) /\ z.m = Len(s.frames) /\ z.w = s.live
        /\ Placed(c, f, F, z) /\ c.exhausted = FALSE
    BY <1>2, <2>1 DEF Meaning
  <2>3. c.cas.on \ Raised(c.esc, F, z.n) = z.w
    BY <1>6, <2>2 DEF Placed
  <2>4. CallBegun(s, s2, v, x, n)
    BY <1>3, <1>4, <1>23, <1>29, <2>2, CallBeginFields DEF s2
  <2>5. /\ SemType(s2, k.d) /\ s2.live = s.live /\ Topped(s, s2, [kind |-> "call", back |-> {}])
        /\ s2.cur[v] = Truth(s, x) /\ (\A u \in DOMAIN s.cur \ {v} : s2.cur[u] = s.cur[u])
        /\ s2.nba = s.nba /\ s2.queued = s.queued
    BY <1>3, <1>18, <2>4 DEF CallBegun
  <2>6. StaticVars \cup LocalsTo(n) \subseteq DOMAIN F /\ v \notin StaticVars \cup LocalsTo(n)
        /\ StaticVars \cup LocalsTo(n) \subseteq DOMAIN s.cur
    <3>1. StaticVars \cup LocalsTo(n) \subseteq DOMAIN F
      BY <1>2, <1>3, ScopeFacts
    <3> QED
      BY <1>3, <1>5, <2>2, <3>1 DEF SemType
  <2>7. Mirrors(s2, d, F3, k.d)
    <3>1. \A u \in StaticVars : s2.cur[u] = s.cur[u] /\ Final(s2, u) = Final(s, u) /\ F3[u] = F[u]
      BY <1>26, <2>5, <2>6 DEF Final
    <3>2. \A i \in 1..n : F3[Local(i)] = F[Local(i)] /\ s2.cur[Local(i)] = s.cur[Local(i)]
      BY <1>26, <2>5, <2>6 DEF LocalsTo
    <3>3. \A i \in 1..(n + 1) : F3[Local(i)] = s2.cur[Local(i)]
      <4>1. ASSUME NEW i \in 1..(n + 1) PROVE F3[Local(i)] = s2.cur[Local(i)]
        <5>1. CASE i = n + 1
          BY <1>23, <1>26, <1>29, <2>5, <5>1
        <5>2. CASE i # n + 1
          <6>1. i \in 1..n
            BY <1>4, <5>2
          <6> QED
            BY <1>3, <2>2, <3>2, <6>1 DEF Mirrors
        <5> QED
          BY <5>1, <5>2
      <4> QED
        BY <4>1
    <3>4. \A u \in StaticVars : F3[u] = Final(s2, u)
      BY <2>2, <3>1 DEF Mirrors
    <3>5. d.blocking = c.blocking /\ d.nonblocking = c.nonblocking /\ d.timing = c.timing /\ k.d = n + 1
      BY <1>3, <1>12, <1>18, <1>29
    <3> QED
      BY <2>2, <2>5, <3>1, <3>3, <3>4, <3>5 DEF Mirrors
  <2>8. OnAt(d, z.hs, Len(z.hs)) = c.cas.on
    <3>1. ~(Len(z.hs) < Len(z.hs))
      BY <1>16
    <3> QED
      BY <1>12, <3>1 DEF OnAt
  <2>9. Raised(d.esc, F3, z.n) = Raised(c.esc, F, z.n)
    <3>1. z.n # 0 => z.n \in 1..z.n /\ c.esc[z.n].flag \in DOMAIN F
      BY <1>2, <1>14, <1>16, ScopeFacts
    <3> QED
      BY <1>19, <1>26, <3>1 DEF Raised
  <2>10. Raised(d.esc, F3, k.n) = {}
    BY <1>16, <1>18, <1>19, <1>26 DEF Raised
  <2>11. c.cas.on = s.live
    BY <2>1 DEF Exact
  <2>12. CallAt(s2.frames[k.m], c.cas.on, Raised(c.esc, F, z.n), z.w, k.w)
    BY <1>18, <2>2, <2>3, <2>5, <2>11 DEF Topped, CallAt
  <2>13. SemAt(d, z.hs, F3, s2.frames, g, z, k)
    BY <1>17, <2>3, <2>8, <2>9, <2>12 DEF SemAt
  <2>14. Placed(d, g, F3, k)
    BY <1>12, <1>17, <1>18, <2>5, <2>10, <2>11 DEF Placed, Closing
  <2>15. k.m = Len(s2.frames) /\ \A i \in 1..z.m : s2.frames[i] = s.frames[i]
    BY <1>18, <2>2, <2>5 DEF Topped
  <2>16. d.exhausted = FALSE
    BY <1>12, <2>2
  <2> QED
    BY <2>1, <2>5, <2>7, <2>13, <2>14, <2>15, <2>16 DEF SemGained
<1>30. /\ Good(d, z.hs, V, Pending(g), Names(d.nflag, p.nest), B2, F3) /\ Settled(d, g)
       /\ FrameOK(g, z.d, Names(d.nflag, p.nest), d.timing) /\ DOMAIN F3 = Scope(d.esc, k.d)
  <2>1. FrameOK(g, z.d, Names(d.nflag, p.nest), d.timing)
    <3>1. <<>> \in Seq(Helpers(Names(d.nflag, p.nest)))
      OBVIOUS
    <3> QED
      BY <1>17, <3>1 DEF FrameOK
  <2>2. Pending(g) = <<>> /\ Settled(d, g)
    BY <1>17 DEF Pending, Settled, Closing
  <2> QED
    BY <1>12, <1>21, <1>25, <1>26, <2>1, <2>2 DEF M
<1>31. Inv(d, Append(T, f), g, s2, p, Above(Y, Len(T), z), k, V, B2, F3)
  BY <1>1, <1>17, <1>27, <1>28, <1>29, <1>30, PushKeeps DEF k
<1> QED
  BY <1>12, <1>31 DEF Known, g, s2

(* After the call, its value v is still there to be read. *)
LeftCall(c, T, p, v, d, s2) ==
  /\ Known(d, Front(T), Last(T), s2, p) /\ d.timing = c.timing /\ d.diag = c.diag
  /\ Exact(d, s2) /\ Substitute(d, v) \in Signals /\ Means(d, s2, Substitute(d, v), Read(v))

(* The call returns.  Its local can still be read, and holds the result.   *)
LEMMA CallLeft ==
  ASSUME NEW c, NEW T, NEW f, NEW s, NEW p, Known(c, T, f, s, p), f.kind = "call", Len(T) >= 1,
         NEW n, n = Calls(Append(T, f)), NEW v, v = Local(n),
         NEW d, d = Unregister(Unwind(c, f.sw)), NEW s2, c.diag = {} => s2 = CallEnd(s)
  PROVE  LeftCall(c, T, p, v, d, s2)
<1>1. PICK Y, z, V, B, F : Inv(c, T, f, s, p, Y, z, V, B, F)
  BY DEF Known
<1> DEFINE N == Names(c.nflag, p.nest)
           y == Y[Len(T) + 1]
           a == Unwind(c, f.sw)
           D == Scope(d.esc, y.d)
           V2 == SubSeq(V, 1, Len(y.hs))
<1>2. ~Closing(f) /\ Pending(f) = <<>> /\ Opened(f) = f.sw
  BY DEF Pending, Opened, Closing
<1>3. /\ Good(c, z.hs, V, <<>>, N, B, F) /\ FrameAt(c.timing, c.esc, B, N, f, y, z, Len(T) + 1)
      /\ Scoped(c, z, B, F) /\ c.broken = FALSE /\ (c.diag = {} => Meaning(c, T, f, s, Y, z, F))
  BY <1>1, <1>2, InvFacts
<1>4. z.d = n /\ StaticVars \cup LocalsTo(z.d) \subseteq DOMAIN F
  <2>1. ScopeIs(T, f, z, F)
    BY ONLY <1>1, KnownScope
  <2> QED
    BY <2>1 DEF ScopeIs
<1> HIDE DEF N, y
<1>5. /\ LayoutOK(y, N) /\ LayoutOK(z, N) /\ Follows(f, y, z) /\ f.sw \in Seq(Helpers(N))
  BY <1>3 DEF FrameAt, FrameOK
<1>6. /\ z.hs = y.hs \o f.sw /\ z.n = y.n + 1 /\ z.m = y.m + 1 /\ z.d = y.d + 1 /\ z.l = y.l
      /\ y.n \in Nat /\ y.m \in Nat /\ y.d \in Nat /\ y.l \in Nat /\ y.hs \in Seq(Helpers(N))
  <2>1. /\ z.hs = y.hs \o f.sw /\ z.n = y.n + 1 /\ z.m = y.m + 1 /\ z.d = y.d + 1 /\ z.l = y.l + 0
        /\ y.n \in Nat /\ y.m \in Nat /\ y.d \in Nat /\ y.l \in Nat /\ y.hs \in Seq(Helpers(N))
    BY <1>2, <1>5 DEF LayoutOK, Follows, NCalls, NGuards, NParks, NLoops
  <2> QED
    BY <2>1
<1>7. /\ c \in Contexts(N) /\ c.esc \in Seq(Guards)
  BY <1>3, GoodFacts, ContextType
<1>8. /\ z.n = Len(c.esc) /\ z.l = c.unrolling /\ Numbered(c.esc, c.nflag) /\ DOMAIN F = Scope(c.esc, z.d)
  BY <1>3 DEF Scoped
<1>9. B \in [DOMAIN F -> 0..Len(y.hs)]
  <2>1. f.kind # "loop"
    OBVIOUS
  <2> QED
    BY <1>3, <2>1, FrameBases, ZenonT(60)
<1>10. Rewound(c, y.hs, z.hs, V2, N, B, F, a)
  BY <1>3, <1>5, <1>6, <1>9, UnwindAgain
<1>11. Good(a, y.hs, V2, <<>>, N, B, F) /\ SameNotes(c, a) /\ SameBelow(a, y.hs, c, z.hs)
  BY <1>10 DEF Rewound
<1>12. d = Unregister(a)
  OBVIOUS
<1> HIDE DEF a, V2
<1>13. a \in Contexts(N)
  BY <1>11, GoodFacts
<1>14. Len(c.esc) >= 1 /\ c.esc \in Seq(Guards) /\ Numbered(c.esc, c.nflag)
  BY <1>6, <1>7, <1>8
<1>15. /\ Len(Front(c.esc)) = y.n /\ (\A i \in 1..y.n : Front(c.esc)[i] = c.esc[i])
       /\ Scope(Front(c.esc), z.d) \subseteq DOMAIN F /\ Front(c.esc) \in Seq(Guards)
  <2>1. Len(c.esc) - 1 = y.n
    BY <1>6, <1>8
  <2> QED
    BY <1>8, <1>14, <2>1, GuardRemoved
<1>16. /\ a.esc = c.esc /\ a.nflag = c.nflag /\ a.unrolling = c.unrolling /\ a.timing = c.timing
       /\ a.exhausted = c.exhausted /\ a.diag = c.diag /\ a.broken = c.broken
       /\ a.blocking = c.blocking /\ a.nonblocking = c.nonblocking
  BY <1>11 DEF SameNotes
<1>17. d \in Contexts(N) /\ Unregistered(a, d)
  BY <1>12, <1>13, <1>15, <1>16, UnregisterFacts
<1>18. /\ SameStore(a, d) /\ d.esc = Front(c.esc) /\ d.nflag = c.nflag /\ d.broken = c.broken
       /\ d.diag = c.diag /\ d.blocking = c.blocking /\ d.nonblocking = c.nonblocking
       /\ d.unrolling = c.unrolling /\ d.exhausted = c.exhausted /\ d.timing = c.timing
  BY <1>16, <1>17 DEF Unregistered, SameStore
<1>19. Good(d, y.hs, V2, <<>>, N, B, F)
  <2>1. \A u \in N : IsStatic(u) => u \in StaticVars
    BY NamesStatic DEF N
  <2> QED
    BY <1>11, <1>17, <1>18, <2>1, SameLevels
<1>20. D \subseteq DOMAIN F
  <2>1. LocalsTo(y.d) \subseteq LocalsTo(z.d)
    BY <1>6 DEF LocalsTo
  <2>2. Scope(d.esc, y.d) \subseteq Scope(d.esc, z.d)
    BY <2>1 DEF Scope
  <2> QED
    BY <1>15, <1>18, <2>2
<1> HIDE DEF D
<1>21. /\ Good(d, y.hs, V2, <<>>, N, Only(B, D), Only(F, D)) /\ SameOn(B, F, Only(B, D), Only(F, D))
       /\ DOMAIN Only(F, D) = D
  BY <1>19, <1>20, OnlyGood
<1>22. \A k : OnAt(a, y.hs, k) = OnAt(d, y.hs, k)
  BY <1>18 DEF OnAt, SameStore
<1>23. SameBelow(d, y.hs, c, z.hs)
  BY <1>11, <1>22 DEF SameBelow
<1>24. Left(c, d, y)
  <2>1. d.unrolling = y.l
    BY <1>6, <1>8, <1>18
  <2> QED
    BY <1>15, <1>18, <2>1 DEF Left
<1>25. OnAt(c, z.hs, Len(y.hs)) = d.cas.on
  <2>1. Len(y.hs) \in 0..Len(y.hs) /\ ~(Len(y.hs) < Len(y.hs))
    BY <1>6
  <2>2. OnAt(c, z.hs, Len(y.hs)) = OnAt(d, y.hs, Len(y.hs))
    BY <1>23, <2>1 DEF SameBelow
  <2> QED
    BY <2>1, <2>2 DEF OnAt
<1>26. ASSUME c.diag = {} PROVE SemLeft(s, s2, y) /\ s2.live = d.cas.on /\ F[v] = s2.cur[v] /\ s2.cur[v] \in SUBSET Env
  <2>1. /\ SemType(s, z.d) /\ z.m = Len(s.frames) /\ z.w = s.live /\ Mirrors(s, c, F, z.d)
        /\ SemAt(c, z.hs, F, s.frames, f, y, z)
    BY <1>3, <1>26 DEF Meaning, y
  <2>2. /\ CallAt(TopFrame(s), d.cas.on, Raised(c.esc, F, y.n), y.w, s.live)
        /\ d.cas.on \ Raised(c.esc, F, y.n) = y.w
    BY <1>25, <2>1 DEF SemAt, TopFrame
  <2>3. TopOf(s, "call") /\ y.w = s.live \cup TopFrame(s).back /\ y.w = d.cas.on
    BY <1>6, <2>1, <2>2 DEF TopOf, CallAt
  <2>4. y.d <= z.d /\ z.d \in Nat
    BY <1>6
  <2>5. LET t == CallEnd(s)
        IN  /\ SemType(t, y.d) /\ SameValues(s, t) /\ Untopped(s, t)
            /\ t.live = s.live \cup TopFrame(s).back
    BY <1>6, <2>1, <2>3, <2>4, EndFields
  <2>6. /\ SemType(s2, y.d) /\ SameValues(s, s2) /\ Untopped(s, s2) /\ s2.live = y.w
    BY <1>26, <2>3, <2>5
  <2>7. Len(s2.frames) = y.m /\ \A i \in 1..y.m : s2.frames[i] = s.frames[i]
    <3>1. Len(s.frames) - 1 = y.m
      BY <1>6, <2>1
    <3> QED
      BY <2>6, <3>1 DEF Untopped
  <2>8. F[v] = s2.cur[v] /\ s2.cur[v] \in SUBSET Env
    <3>1. n \in 1..z.d
      BY <1>4, <1>6
    <3>2. F[v] = s.cur[v] /\ v \in DOMAIN s.cur
      BY <2>1, <3>1 DEF Mirrors, SemType, LocalsTo
    <3>3. s.cur[v] \in SUBSET Env
      BY <2>1, <3>2 DEF SemType
    <3> QED
      BY <2>6, <3>2, <3>3 DEF SameValues
  <2> QED
    BY <2>3, <2>6, <2>7, <2>8 DEF SemLeft
<1>27. DOMAIN Only(F, D) = Scope(d.esc, y.d)
  BY <1>21 DEF D
<1>28. Known(d, Front(T), Last(T), s2, p)
  <2>1. y = Y[Len(T) + 1] /\ Good(d, y.hs, V2, <<>>, Names(c.nflag, p.nest), Only(B, D), Only(F, D))
    BY <1>21 DEF y, N
  <2>2. c.diag = {} => SemLeft(s, s2, y)
    BY <1>26
  <2> HIDE DEF D
  <2> QED
    BY <1>1, <1>21, <1>23, <1>24, <1>27, <2>1, <2>2, LeaveKeeps
<1>29. v \in DOMAIN F /\ ~IsStatic(v) /\ v \notin StaticVars
  <2>1. n \in 1..z.d
    BY <1>4, <1>6
  <2> QED
    BY <1>4, <2>1, NameFacts DEF LocalsTo
<1>30. Clear(d, <<>>, d.cas.on)
  BY DEF Clear
<1>31. Substitute(d, v) \in Signals /\ Substitute(d, v).on \cap d.cas.on = F[v] \cap d.cas.on
  <2>1. Substitute(d, v) \in Signals /\ ReadsRight(d, F, v, d.cas.on)
    BY <1>19, <1>29, <1>30, SubstituteReads
  <2> QED
    BY <1>29, <2>1 DEF ReadsRight, ReadsWire
<1>32. Means(d, s2, Substitute(d, v), Read(v))
  <2>1. Truth(s2, Read(v)) = s2.cur[v]
    BY DEF Truth, Read
  <2> QED
    BY <1>18, <1>26, <1>31, <2>1 DEF Means
<1> QED
  BY <1>18, <1>26, <1>28, <1>31, <1>32 DEF Exact, LeftCall

(* The value v of the call is copied out to its target, if it has one. *)
CopiedOut(d, s, v, target, e, t) ==
  /\ e = IF target = None THEN d ELSE Update(d, target, Substitute(d, v), S1, TRUE)
  /\ t = IF target = None THEN CallEnd(s)
         ELSE AssignVar(CallEnd(s), target, Read(v), Const(TRUE), TRUE)

LEMMA EndCallKeeps ==
  ASSUME NEW c, NEW T, NEW f, NEW s, NEW p, Known(c, T, f, s, p), f.kind = "call", Len(T) >= 1, c.diag = {},
         NEW v, v = Local(Calls(Append(T, f))), NEW target \in StaticVars \cup {None},
         NEW d, d = Unregister(Unwind(c, f.sw)),
         NEW e, NEW t, CopiedOut(d, s, v, target, e, t)
  PROVE  Known(e, Front(T), Last(T), t, p) /\ e.timing = c.timing
<1> DEFINE s2 == CallEnd(s)
           r == Substitute(d, v)
<1>1. /\ Known(d, Front(T), Last(T), s2, p) /\ d.timing = c.timing /\ d.diag = c.diag
      /\ Exact(d, s2) /\ r \in Signals /\ Means(d, s2, r, Read(v))
  <2> DEFINE n == Calls(Append(T, f))
  <2>1. n = Calls(Append(T, f)) /\ v = Local(n) /\ d = Unregister(Unwind(c, f.sw)) /\ (c.diag = {} => s2 = CallEnd(s))
    OBVIOUS
  <2>2. Known(c, T, f, s, p) /\ f.kind = "call" /\ Len(T) >= 1
    OBVIOUS
  <2> HIDE DEF s2, n
  <2>3. LeftCall(c, T, p, v, d, s2)
    BY ONLY <2>1, <2>2, CallLeft
  <2> QED
    BY <2>3 DEF LeftCall
<1>2. CASE target = None
  <2>1. e = d /\ t = s2
    BY <1>2 DEF CopiedOut
  <2> QED
    BY <1>1, <2>1
<1>3. CASE target # None
  <2>1. ~Closing(Last(T))
    BY KnownBelow DEF Inner, Closing
  <2> HIDE DEF s2, r
  <2>2. target \in StaticVars \cup LocalsTo(Calls(Append(Front(T), Last(T))))
    BY <1>3
  <2>3. /\ Known(SimpleAssign(d, target, r), Front(T), Last(T), AssignVar(s2, target, Read(v), Const(TRUE), TRUE), p)
        /\ SameControl(d, SimpleAssign(d, target, r))
    BY <1>1, <2>1, <2>2, SimpleStep
  <2>4. e = SimpleAssign(d, target, r) /\ t = AssignVar(s2, target, Read(v), Const(TRUE), TRUE)
    BY <1>3 DEF SimpleAssign, CopiedOut, s2, r
  <2> QED
    BY <1>1, <2>3, <2>4 DEF SameControl
<1> QED
  BY <1>2, <1>3

-----------------------------------------------------------------------------
(* break, continue and return raise the flags of the guards from the       *)
(* innermost one to the one they leave.                                    *)

(* The values when the guards after the m-th have been raised. *)
Up(esc, F, m, on) ==
  [u \in DOMAIN F |-> IF \E l \in (m + 1)..Len(esc) : u = esc[l].flag THEN F[u] \cup on ELSE F[u]]

Flagged(c, F) ==
  /\ c.esc \in Seq(Guards)
  /\ \A i \in 1..Len(c.esc) : c.esc[i].flag \in DOMAIN F /\ ~IsStatic(c.esc[i].flag)

RaisedTo(c, H, V, N, B, F, d, m) ==
  /\ Good(d, H, V, <<>>, N, B, Up(c.esc, F, m, c.cas.on))
  /\ SameControl(c, d) /\ d.broken = c.broken
  /\ d.diag = {} => d.blocking = c.blocking /\ d.nonblocking = c.nonblocking

RaiseOne(d, esc, k) == SimpleAssign(d, esc[k].flag, S1)

LEMMA RaiseStep ==
  ASSUME NEW c, NEW H, NEW V, NEW N, NEW B, NEW F, Good(c, H, V, <<>>, N, B, F), Flagged(c, F),
         NEW k \in 1..Len(c.esc), NEW d, RaisedTo(c, H, V, N, B, F, d, k)
  PROVE  RaisedTo(c, H, V, N, B, F, RaiseOne(d, c.esc, k), k - 1)
<1> DEFINE v == c.esc[k].flag
           on == c.cas.on
           F1 == Up(c.esc, F, k, on)
           F2 == Up(c.esc, F, k - 1, on)
           e == RaiseOne(d, c.esc, k)
<1>1. S1 \in Signals /\ S1.const = TRUE /\ S1 # S0 /\ S1.on = Env
  BY ConstSignals
<1>2. v \in DOMAIN F1 /\ ~IsStatic(v) /\ v \in DOMAIN F
  BY DEF Flagged, Up
<1>3. /\ Good(d, H, V, <<>>, N, B, F1) /\ SameControl(c, d) /\ d.broken = c.broken
      /\ d.diag = {} => d.blocking = c.blocking /\ d.nonblocking = c.nonblocking
  BY DEF RaisedTo
<1>4. e = Update(d, v, S1, S1, TRUE)
  BY DEF RaiseOne, SimpleAssign
<1>5. on \subseteq Env /\ F \in [DOMAIN F -> SUBSET Env]
  BY GoodFacts
<1> HIDE DEF F1, e, v, on
<1>6. Good(e, H, V, <<>>, N, B, Assigned(d, F1, v, S1, S1)) /\ Noted(d, e, v, S1, S1, TRUE)
  BY <1>1, <1>2, <1>3, <1>4, UpdateGood
<1>7. d \in Contexts(N)
  BY <1>3, GoodFacts
<1>8. d.cas.on = on
  BY <1>3 DEF SameControl, on
<1>9. Assigned(d, F1, v, S1, S1) = F2
  <2>1. Assigned(d, F1, v, S1, S1) = [F1 EXCEPT ![v] = Blend(@, Env, on \cap Env)]
    BY <1>1, <1>8 DEF Assigned
  <2>2. k \in Nat /\ Len(c.esc) \in Nat /\ (k - 1) + 1 = k /\ k <= Len(c.esc)
    BY DEF Flagged
  <2>3. \A u \in DOMAIN F : F1[u] = (IF \E l \in (k + 1)..Len(c.esc) : u = c.esc[l].flag THEN F[u] \cup on ELSE F[u])
    BY DEF F1, Up
  <2>4. DOMAIN F1 = DOMAIN F /\ F1 = [u \in DOMAIN F |-> F1[u]] /\ DOMAIN F2 = DOMAIN F
    BY DEF F1, Up
  <2>5. ASSUME NEW u \in DOMAIN F
        PROVE  [F1 EXCEPT ![v] = Blend(@, Env, on \cap Env)][u] = F2[u]
    <3>1. F[u] \subseteq Env
      BY <1>5
    <3>2. (\E l \in k..Len(c.esc) : u = c.esc[l].flag) <=> (u = v \/ \E l \in (k + 1)..Len(c.esc) : u = c.esc[l].flag)
      <4>1. k..Len(c.esc) = {k} \cup (k + 1)..Len(c.esc)
        BY <2>2
      <4> QED
        BY <4>1 DEF v
    <3>3. F2[u] = (IF \E l \in k..Len(c.esc) : u = c.esc[l].flag THEN F[u] \cup on ELSE F[u])
      BY <2>2 DEF Up
    <3> HIDE DEF F2
    <3>4. CASE u = v
      <4>1. [F1 EXCEPT ![v] = Blend(@, Env, on \cap Env)][u] = Blend(F1[u], Env, on \cap Env)
        BY <2>4, <3>4
      <4>2. F1[u] = F[u] \cup on \/ F1[u] = F[u]
        BY <2>3
      <4>3. F2[u] = F[u] \cup on
        BY <3>2, <3>3, <3>4
      <4> QED
        BY <1>5, <3>1, <4>1, <4>2, <4>3 DEF Blend
    <3>5. CASE u # v
      <4>1. [F1 EXCEPT ![v] = Blend(@, Env, on \cap Env)][u] = F1[u]
        BY <2>4, <3>5
      <4>2. F2[u] = F1[u]
        BY <2>3, <3>2, <3>3, <3>5
      <4> QED
        BY <4>1, <4>2
    <3> QED
      BY <3>4, <3>5
  <2> DEFINE A == [F1 EXCEPT ![v] = Blend(@, Env, on \cap Env)]
  <2>6. DOMAIN A = DOMAIN F /\ A = [u \in DOMAIN A |-> A[u]]
    BY <2>4
  <2>7. F2 = [u \in DOMAIN F2 |-> F2[u]]
    BY DEF Up
  <2>8. \A u \in DOMAIN F : A[u] = F2[u]
    BY <2>5
  <2> HIDE DEF A, F2
  <2>9. A = F2
    BY <2>4, <2>6, <2>7, <2>8
  <2> QED
    BY <2>1, <2>9 DEF A
<1> HIDE DEF F2
<1>10. SameControl(d, e) /\ e.broken = d.broken
  BY <1>6 DEF Noted
<1>11. SameControl(c, e)
  BY <1>3, <1>10 DEF SameControl
<1>12. ASSUME e.diag = {} PROVE e.blocking = c.blocking /\ e.nonblocking = c.nonblocking
  <2>1. NotedAs(d, e, v, S1, TRUE)
    BY <1>1, <1>6, <1>7, <1>12, NotedSets
  <2>2. d.diag = {}
    BY <1>10, <1>12 DEF SameControl
  <2> QED
    BY <1>2, <1>3, <2>1, <2>2 DEF NotedAs
<1> QED
  BY <1>3, <1>6, <1>9, <1>10, <1>11, <1>12 DEF RaisedTo, F2, on, e

RaisesBy(g, c, N) ==
  /\ g[0] = c
  /\ \A i \in 1..Len(c.esc) :
       \/ g[i] = RaiseOne(g[i - 1], c.esc, Len(c.esc) - i + 1)
       \/ RaiseOne(g[i - 1], c.esc, Len(c.esc) - i + 1) \notin Contexts(N)
Raises(g, c, H, V, N, B, F) ==
  \A i \in 0..Len(c.esc) :
    /\ RaisedTo(c, H, V, N, B, F, g[i], Len(c.esc) - i)
    /\ i > 0 => g[i] = RaiseOne(g[i - 1], c.esc, Len(c.esc) - i + 1)

LEMMA RaiseOrbit ==
  ASSUME NEW c, NEW H, NEW V, NEW N, NEW B, NEW F, Good(c, H, V, <<>>, N, B, F), Flagged(c, F),
         NEW g, RaisesBy(g, c, N)
  PROVE  Raises(g, c, H, V, N, B, F)
<1> DEFINE n == Len(c.esc)
           S == {i \in 0..n :
                   /\ RaisedTo(c, H, V, N, B, F, g[i], n - i)
                   /\ i > 0 => g[i] = RaiseOne(g[i - 1], c.esc, n - i + 1)}
<1>1. n \in Nat
  BY DEF Flagged
<1>2. 0 \in S
  <2>1. Up(c.esc, F, n, c.cas.on) = F
    <3>1. (n + 1)..Len(c.esc) = {}
      BY <1>1
    <3>2. F = [u \in DOMAIN F |-> F[u]]
      BY GoodFacts
    <3> QED
      BY <3>1, <3>2 DEF Up
  <2>2. RaisedTo(c, H, V, N, B, F, c, n)
    BY <2>1 DEF RaisedTo, SameControl
  <2>3. g[0] = c
    BY DEF RaisesBy
  <2>4. n - 0 = n /\ 0 \in 0..n
    BY <1>1
  <2> HIDE DEF n
  <2> QED
    BY <2>2, <2>3, <2>4
<1>3. ASSUME NEW i \in 1..n, i - 1 \in S PROVE i \in S
  <2> DEFINE k == n - i + 1
             d == g[i - 1]
  <2>1. k \in 1..n /\ k - 1 = n - i /\ n - (i - 1) = k /\ i \in 0..n
    BY <1>1
  <2>2. RaisedTo(c, H, V, N, B, F, d, k)
    BY <1>3, <2>1
  <2> HIDE DEF k, d
  <2>3. RaisedTo(c, H, V, N, B, F, RaiseOne(d, c.esc, k), k - 1)
    BY <2>1, <2>2, RaiseStep
  <2>4. RaiseOne(d, c.esc, k) \in Contexts(N)
    BY <2>3, GoodFacts DEF RaisedTo
  <2>5. g[i] = RaiseOne(d, c.esc, k)
    BY <2>4 DEF d, k, RaisesBy
  <2> QED
    BY <2>1, <2>3, <2>5 DEF d, k
<1> HIDE DEF S
<1>4. 0..n \subseteq S
  BY <1>1, <1>2, <1>3, FromZeroInduction
<1> QED
  BY <1>4 DEF S, Raises

(* The contexts while the flags are raised, innermost first. *)
Raising(c) ==
  CHOOSE raised : raised = [n \in 0..Len(c.esc) |->
    IF n = 0 THEN c ELSE SimpleAssign(raised[n - 1], c.esc[Len(c.esc) - n + 1].flag, S1)]

LEMMA SignalGood ==
  ASSUME NEW c, NEW H, NEW V, NEW N, NEW B, NEW F, Good(c, H, V, <<>>, N, B, F), Flagged(c, F),
         NEW kind, NEW i \in 1..Len(c.esc), InnermostGuard(c, kind) = i
  PROVE  RaisedTo(c, H, V, N, B, F, SignalEscape(c, kind), i - 1)
<1> DEFINE L == Len(c.esc)
           T == Contexts(N)
           next(v, j) == RaiseOne(v, c.esc, L - j + 1)
           step == [j \in 1..L |-> [v \in T |-> IF next(v, j) \in T THEN next(v, j) ELSE v]]
           g == Raising(c)
<1>1. L \in Nat /\ c \in T
  BY GoodFacts DEF Flagged
<1>2. PICK f : Iterates(f, c, step, L, T)
  <2>1. ASSUME NEW j \in 1..L, NEW v \in T PROVE step[j][v] \in T
    OBVIOUS
  <2> HIDE DEF step, L
  <2> QED
    BY <1>1, <2>1, IterationExists DEF Stays
<1> HIDE DEF L
<1>3. ASSUME NEW j \in 1..L
      PROVE  f[j - 1] \in T /\ f[j] = IF next(f[j - 1], j) \in T THEN next(f[j - 1], j) ELSE f[j - 1]
  <2>1. j - 1 \in 0..L
    BY <1>1
  <2>2. f[j - 1] \in T /\ f[j] = step[j][f[j - 1]]
    BY <1>2, <2>1 DEF Iterates
  <2> QED
    BY <2>2
<1>4. f[0] = c /\ DOMAIN f = 0..L /\ f = [j \in 0..L |-> f[j]]
  BY <1>2 DEF Iterates
<1> HIDE DEF step, T
<1>5. RaisesBy(f, c, N)
  BY <1>3, <1>4 DEF T, RaisesBy, L
<1>6. \A j \in 0..L : j > 0 => f[j] = RaiseOne(f[j - 1], c.esc, L - j + 1)
  <2>1. Raises(f, c, H, V, N, B, F)
    BY <1>5, RaiseOrbit
  <2> QED
    BY <2>1 DEF Raises, L
<1>7. f = [j \in 0..Len(c.esc) |-> IF j = 0 THEN c ELSE SimpleAssign(f[j - 1], c.esc[Len(c.esc) - j + 1].flag, S1)]
  <2>1. ASSUME NEW j \in 0..L PROVE f[j] = IF j = 0 THEN c ELSE SimpleAssign(f[j - 1], c.esc[L - j + 1].flag, S1)
    <3>1. CASE j = 0
      BY <1>4, <3>1
    <3>2. CASE j # 0
      <4>1. j > 0
        BY <1>1, <3>2
      <4> QED
        BY <1>6, <3>2, <4>1 DEF RaiseOne
    <3> QED
      BY <3>1, <3>2
  <2> QED
    BY <1>4, <2>1 DEF L
<1>8. g = [j \in 0..L |-> IF j = 0 THEN c ELSE SimpleAssign(g[j - 1], c.esc[L - j + 1].flag, S1)]
  BY <1>7 DEF Raising, L
<1> HIDE DEF g
<1>9. RaisesBy(g, c, N)
  <2>1. 0 \in 0..L
    BY <1>1
  <2>2. g[0] = c
    BY <1>8, <2>1
  <2>3. ASSUME NEW j \in 1..L PROVE g[j] = RaiseOne(g[j - 1], c.esc, L - j + 1)
    <3>1. j \in 0..L /\ j # 0
      BY <1>1
    <3> QED
      BY <1>8, <3>1 DEF RaiseOne
  <2> QED
    BY <2>2, <2>3 DEF RaisesBy, L
<1>10. L - i + 1 \in 0..L /\ L - (L - i + 1) = i - 1
  BY <1>1 DEF L
<1>11. RaisedTo(c, H, V, N, B, F, g[L - i + 1], i - 1)
  <2>1. Raises(g, c, H, V, N, B, F)
    BY <1>9, RaiseOrbit
  <2>2. RaisedTo(c, H, V, N, B, F, g[L - i + 1], L - (L - i + 1))
    BY <1>10, <2>1 DEF Raises, L
  <2> QED
    BY <1>10, <2>2
<1>12. SignalEscape(c, kind) = g[L - InnermostGuard(c, kind) + 1]
  BY Zenon DEF SignalEscape, g, Raising, L
<1> QED
  BY <1>11, <1>12

(* The frame that a guard, or a frame of the semantics, belongs to. *)
LEMMA OwnerFrame ==
  ASSUME NEW tm, NEW esc, NEW B, NEW N, NEW t, NEW W, Under(tm, esc, B, N, t, W), Len(t) >= 1
  PROVE  /\ \A i \in 1..W[Len(t) + 1].n : \E k \in 1..Len(t) : W[k].n < i /\ i <= W[k + 1].n
         /\ \A i \in 1..W[Len(t) + 1].m : \E k \in 1..Len(t) : W[k].m < i /\ i <= W[k + 1].m
<1> DEFINE n == Len(t) + 1
           f == [k \in 1..n |-> W[k].n]
           g == [k \in 1..n |-> W[k].m]
<1>1. Len(t) \in Nat /\ Rising(W, n, N) /\ Bottom(W[1])
  BY UnderRises DEF Under
<1>2. n \in Nat \ {0} /\ 1 \in 1..n /\ n \in 1..n /\ n - 1 = Len(t) /\ \A k \in 1..(n - 1) : k \in 1..n /\ k + 1 \in 1..n
  BY <1>1
<1> HIDE DEF n
<1>3. \A k \in 1..n : f[k] \in Nat /\ g[k] \in Nat /\ f[k] = W[k].n /\ g[k] = W[k].m
  BY <1>1 DEF Rising, LayoutOK
<1>4. f[1] = 0 /\ g[1] = 0
  BY <1>1, <1>2 DEF Bottom
<1> HIDE DEF f, g
<1>5. ASSUME NEW i \in 1..W[n].n PROVE \E k \in 1..(n - 1) : W[k].n < i /\ i <= W[k + 1].n
  <2>1. i \in Nat /\ 0 < i /\ i <= f[n]
    BY <1>2, <1>3
  <2>2. \E k \in 1..(n - 1) : f[k] < i /\ i <= f[k + 1]
    BY <1>2, <1>3, <1>4, <2>1, Crossing
  <2> QED
    BY <1>2, <1>3, <2>2
<1>6. ASSUME NEW i \in 1..W[n].m PROVE \E k \in 1..(n - 1) : W[k].m < i /\ i <= W[k + 1].m
  <2>1. i \in Nat /\ 0 < i /\ i <= g[n]
    BY <1>2, <1>3
  <2>2. \E k \in 1..(n - 1) : g[k] < i /\ i <= g[k + 1]
    BY <1>2, <1>3, <1>4, <2>1, Crossing
  <2> QED
    BY <1>2, <1>3, <2>2
<1> QED
  BY <1>2, <1>5, <1>6 DEF n

(* Frame j of stack t is the loop or call that the statement leaves. *)
Leaves(t, stmt, j) ==
  /\ j \in 1..Len(t) /\ t[j].kind = (IF stmt = "return" THEN "call" ELSE "loop")
  /\ \A k \in (j + 1)..Len(t) : t[k].kind # "call" /\ (stmt # "return" => t[k].kind # "loop")

GuardOf(stmt, y) == IF stmt = "continue" THEN y.n + 2 ELSE y.n + 1

LEMMA EscapeGuard ==
  ASSUME NEW tm, NEW esc, NEW B, NEW N, NEW t, NEW W, Under(tm, esc, B, N, t, W),
         Len(esc) \in Nat, W[Len(t) + 1].n = Len(esc),
         NEW stmt \in {"break", "continue", "return"}, NEW j, Leaves(t, stmt, j)
  PROVE  LET i == GuardOf(stmt, W[j])
         IN  /\ i \in 1..Len(esc) /\ esc[i].kind = GuardKind[stmt]
             /\ \A l \in 1..Len(esc) : esc[l].kind = GuardKind[stmt] => l <= i
<1> DEFINE n == Len(t)
           i == GuardOf(stmt, W[j])
           y == W[j]
           z == W[j + 1]
<1>1. n \in Nat /\ Rising(W, n + 1, N)
  BY UnderRises
<1>2. j \in 1..n /\ j \in 1..(n + 1) /\ j + 1 \in 1..(n + 1) /\ n + 1 \in 1..(n + 1)
  BY <1>1 DEF Leaves
<1>3. FrameAt(tm, esc, B, N, t[j], y, z, j)
  BY <1>2 DEF Under
<1>4. y.n \in Nat /\ z.n \in Nat /\ z.n = y.n + NGuards(t[j].kind) /\ z.n <= Len(esc)
  BY <1>3 DEF FrameAt, LayoutOK, Follows
<1>5. GuardKind["break"] = "Loop" /\ GuardKind["continue"] = "LoopBody" /\ GuardKind["return"] = "FunctionBody"
  BY DEF GuardKind
<1> HIDE DEF i, y, z
<1>6. /\ i \in 1..z.n /\ y.n < i /\ esc[i].kind = GuardKind[stmt]
      /\ \A l \in (i + 1)..z.n : esc[l].kind # GuardKind[stmt]
  <2>1. CASE stmt = "return"
    <3>1. t[j].kind = "call" /\ i = y.n + 1
      BY <2>1 DEF Leaves, i, GuardOf, y
    <3>2. z.n = y.n + 1 /\ esc[y.n + 1].kind = "FunctionBody"
      BY <1>3, <1>4, <3>1 DEF FrameAt, Guarding, NGuards
    <3> QED
      BY <1>4, <1>5, <2>1, <3>1, <3>2
  <2>2. CASE stmt # "return"
    <3>1. t[j].kind = "loop"
      BY <2>2 DEF Leaves
    <3>2. z.n = y.n + 2 /\ esc[y.n + 1].kind = "Loop" /\ esc[y.n + 2].kind = "LoopBody"
      BY <1>3, <1>4, <3>1 DEF FrameAt, Guarding, NGuards
    <3>3. CASE stmt = "break"
      <4>1. i = y.n + 1
        BY <3>3 DEF i, GuardOf, y
      <4>2. \A l \in (i + 1)..z.n : l = y.n + 2
        BY <1>4, <3>2, <4>1
      <4> QED
        BY <1>4, <1>5, <3>2, <3>3, <4>1, <4>2
    <3>4. CASE stmt = "continue"
      <4>1. i = y.n + 2
        BY <3>4 DEF i, GuardOf, y
      <4> QED
        BY <1>4, <1>5, <3>2, <3>4, <4>1
    <3> QED
      BY <2>2, <3>3, <3>4
  <2> QED
    BY <2>1, <2>2
<1>7. ASSUME NEW l \in 1..Len(esc), esc[l].kind = GuardKind[stmt] PROVE l <= i
  <2>1. n >= 1
    BY <1>1, <1>2
  <2>2. PICK k \in 1..n : W[k].n < l /\ l <= W[k + 1].n
    BY <2>1, OwnerFrame
  <2>3. k \in 1..(n + 1) /\ k + 1 \in 1..(n + 1)
    BY <1>1
  <2>4. W[k].n \in Nat /\ W[k + 1].n \in Nat /\ l \in Nat /\ i \in Nat /\ Len(esc) \in Nat
    BY <1>1, <1>4, <1>6, <2>3 DEF Rising, LayoutOK
  <2>5. CASE k < j
    <3>1. k + 1 <= j
      BY <1>1, <1>2, <2>3, <2>5
    <3>2. W[k + 1].n <= y.n
      BY <1>1, <1>2, <2>3, <3>1 DEF Rising, Below, y
    <3> QED
      BY <1>4, <1>6, <2>2, <2>4, <3>2
  <2>6. CASE k = j
    <3>1. l <= z.n
      BY <2>2, <2>6 DEF z
    <3>2. ~(l \in (i + 1)..z.n)
      BY <1>6, <1>7
    <3> QED
      BY <1>4, <2>4, <3>1, <3>2
  <2>7. CASE k > j
    <3>1. k \in (j + 1)..n
      BY <1>1, <1>2, <2>2, <2>7
    <3>2. FrameAt(tm, esc, B, N, t[k], W[k], W[k + 1], k) /\ Inner(t[k])
      BY DEF Under
    <3>3. t[k].kind # "call" /\ (stmt # "return" => t[k].kind # "loop") /\ t[k].kind # "head"
      BY <3>1, <3>2 DEF Leaves, Inner
    <3>4. W[k + 1].n = W[k].n + NGuards(t[k].kind)
      BY <3>2 DEF FrameAt, Follows
    <3>5. t[k].kind = "loop" /\ stmt = "return"
      BY <2>2, <2>4, <3>3, <3>4 DEF NGuards
    <3>6. W[k + 1].n = W[k].n + 2 /\ esc[W[k].n + 1].kind = "Loop" /\ esc[W[k].n + 2].kind = "LoopBody"
      BY <3>2, <3>4, <3>5 DEF NGuards, FrameAt, Guarding
    <3>7. l = W[k].n + 1 \/ l = W[k].n + 2
      BY <2>2, <2>4, <3>6, SMTT(30)
    <3> QED
      BY <1>5, <1>7, <3>5, <3>6, <3>7
  <2> QED
    BY <1>2, <2>3, <2>5, <2>6, <2>7
<1>8. i \in 1..Len(esc)
  BY <1>4, <1>6
<1> QED
  BY <1>6, <1>7, <1>8 DEF i

(* The frame of the semantics in which the escaping valuations wait. *)
ParkKind(stmt) == IF stmt = "return" THEN "call" ELSE "loop"

(* Frame j is the one to leave. *)
EscapeFrom(c, H, F, s, N, B, t, W, stmt, j) ==
  /\ Under(c.timing, c.esc, B, N, t, W) /\ SemBelow(c, H, F, s.frames, t, W)
  /\ Len(c.esc) \in Nat /\ W[Len(t) + 1].n = Len(c.esc)
  /\ s.frames \in Seq(SemFrames) /\ W[Len(t) + 1].m = Len(s.frames) /\ W[Len(t) + 1].w = s.live
  /\ stmt \in {"break", "continue", "return"} /\ Leaves(t, stmt, j)
Parks(s, W, stmt, j) ==
  /\ Innermost(s, ParkKind(stmt)) = W[j + 1].m /\ W[j + 1].m \in 1..Len(s.frames)
  /\ W[j + 1].m = W[j].m + 1 /\ s.frames[W[j + 1].m].kind = ParkKind(stmt)

LEMMA EscapeFrame ==
  ASSUME NEW c, NEW H, NEW F, NEW s, NEW N, NEW B, NEW t, NEW W, NEW stmt, NEW j,
         EscapeFrom(c, H, F, s, N, B, t, W, stmt, j)
  PROVE  Parks(s, W, stmt, j)
<1> DEFINE tm == c.timing
           esc == c.esc
<1>0. /\ Under(tm, esc, B, N, t, W) /\ SemBelow(c, H, F, s.frames, t, W)
      /\ s.frames \in Seq(SemFrames) /\ W[Len(t) + 1].m = Len(s.frames)
      /\ stmt \in {"break", "continue", "return"} /\ Leaves(t, stmt, j)
  BY DEF EscapeFrom
<1> HIDE DEF tm, esc
<1> USE <1>0
<1> DEFINE n == Len(t)
           m == W[j + 1].m
           K == ParkKind(stmt)
           P(i) == /\ s.frames[i].kind = K
                   /\ \A l \in (i + 1)..Len(s.frames) : s.frames[l].kind # K
<1>1. n \in Nat /\ Rising(W, n + 1, N)
  BY UnderRises
<1>2. j \in 1..n /\ j \in 1..(n + 1) /\ j + 1 \in 1..(n + 1) /\ n + 1 \in 1..(n + 1) /\ n >= 1
  BY <1>1 DEF Leaves
<1>3. \A k \in 1..n : FrameAt(tm, esc, B, N, t[k], W[k], W[k + 1], k) /\ Inner(t[k])
  BY DEF Under
<1>4. t[j].kind = K /\ K \in {"call", "loop"}
  BY DEF Leaves, ParkKind
<1>5. \A k \in 1..n : /\ W[k].m \in Nat /\ W[k + 1].m \in Nat
                      /\ W[k + 1].m = W[k].m + NParks(t[k].kind) /\ W[k + 1].m <= Len(s.frames)
  <2>1. ASSUME NEW k \in 1..n
        PROVE  /\ W[k].m \in Nat /\ W[k + 1].m \in Nat
               /\ W[k + 1].m = W[k].m + NParks(t[k].kind) /\ W[k + 1].m <= Len(s.frames)
    <3>1. k + 1 \in 1..(n + 1) /\ k + 1 <= n + 1
      BY <1>1
    <3>2. W[k + 1].m <= W[n + 1].m
      BY <1>1, <1>2, <3>1 DEF Rising, Below
    <3> QED
      BY <1>3, <3>2 DEF FrameAt, LayoutOK, Follows
  <2> QED
    BY <2>1
<1>6. Len(s.frames) \in Nat
  OBVIOUS
<1>7. m = W[j].m + 1 /\ m \in 1..Len(s.frames)
  <2>1. NParks(t[j].kind) = 1
    BY <1>4 DEF NParks
  <2> QED
    BY <1>2, <1>5, <1>6, <2>1
<1>8. s.frames[m].kind = K
  <2>1. SemAt(c, H, F, s.frames, t[j], W[j], W[j + 1])
    BY <1>2 DEF SemBelow
  <2> QED
    BY <1>4, <2>1 DEF SemAt, LoopAt, CallAt
<1>9. ASSUME NEW l \in (m + 1)..Len(s.frames) PROVE s.frames[l].kind # K
  <2>0. l \in 1..Len(s.frames) /\ l \in Nat
    BY <1>6, <1>7
  <2>1. PICK k \in 1..n : W[k].m < l /\ l <= W[k + 1].m
    BY <1>2, <2>0, OwnerFrame
  <2>2. k > j
    <3>1. CASE k <= j
      <4>1. k + 1 <= j + 1 /\ k + 1 \in 1..(n + 1)
        BY <1>1, <1>2, <3>1
      <4>2. W[k + 1].m <= m
        BY <1>1, <1>2, <4>1 DEF Rising, Below
      <4> QED
        BY <1>5, <1>7, <2>0, <2>1, <4>2
    <3> QED
      BY <1>2, <3>1
  <2>3. k \in (j + 1)..n
    BY <1>1, <1>2, <2>2
  <2>4. t[k].kind # "head" /\ t[k].kind # K
    BY <1>3, <2>3 DEF Leaves, ParkKind, Inner
  <2>5. NParks(t[k].kind) = 1 /\ l = W[k + 1].m
    BY <1>5, <2>0, <2>1 DEF NParks
  <2>6. t[k].kind \in {"select", "loop", "call"}
    BY <2>4, <2>5 DEF NParks
  <2>7. SemAt(c, H, F, s.frames, t[k], W[k], W[k + 1])
    BY DEF SemBelow
  <2>8. s.frames[l].kind = t[k].kind
    BY <2>5, <2>6, <2>7 DEF SemAt, SelectAt, LoopAt, CallAt
  <2> QED
    BY <2>4, <2>8
<1> HIDE DEF m, K
<1>10. P(m)
  BY <1>8, <1>9
<1>11. \A i \in 1..Len(s.frames) : P(i) => i = m
  <2>1. ASSUME NEW i \in 1..Len(s.frames), P(i) PROVE i = m
    <3>1. ~(i < m)
      <4>1. i < m => m \in (i + 1)..Len(s.frames)
        BY <1>6, <1>7
      <4> QED
        BY <1>8, <2>1, <4>1
    <3>2. ~(m < i)
      <4>1. m < i => i \in (m + 1)..Len(s.frames)
        BY <1>6, <1>7
      <4> QED
        BY <1>9, <2>1, <4>1
    <3> QED
      BY <1>7, <3>1, <3>2
  <2> QED
    BY <2>1
<1> DEFINE I == CHOOSE i \in 1..Len(s.frames) : P(i)
<1>12. I = m
  <2>1. I \in 1..Len(s.frames) /\ P(I)
    BY <1>7, <1>10
  <2> QED
    BY <1>11, <2>1
<1>13. Innermost(s, K) = I
  BY DEF Innermost
<1> QED
  BY <1>7, <1>8, <1>12, <1>13 DEF m, K, Parks

(* What the escaping valuations do to the frame they wait in. *)
Moved(stmt, g, g2, X) ==
  /\ g2.kind = g.kind
  /\ stmt = "break" => g2.out = g.out \cup X /\ g2.skip = g.skip
  /\ stmt = "continue" => g2.out = g.out /\ g2.skip = g.skip \cup X
  /\ stmt = "return" => g2.back = g.back \cup X

EscapeFields(s, t, stmt, m, n) ==
  /\ SemType(t, n) /\ SameValues(s, t) /\ t.live = {} /\ Len(t.frames) = Len(s.frames)
  /\ \A i \in 1..Len(s.frames) : i # m => t.frames[i] = s.frames[i]
  /\ Moved(stmt, s.frames[m], t.frames[m], s.live)

LEMMA EscapeMoves ==
  ASSUME NEW s, NEW n \in Nat, SemType(s, n), NEW stmt \in {"break", "continue", "return"},
         NEW m \in 1..Len(s.frames), Innermost(s, ParkKind(stmt)) = m, s.frames[m].kind = ParkKind(stmt)
  PROVE  EscapeFields(s, Escape(s, stmt), stmt, m, n)
<1> DEFINE g == s.frames[m]
           h == IF stmt = "break" THEN [g EXCEPT !.out = @ \cup s.live]
                ELSE IF stmt = "continue" THEN [g EXCEPT !.skip = @ \cup s.live]
                ELSE [g EXCEPT !.back = @ \cup s.live]
           t == Escape(s, stmt)
<1>1. s.live \subseteq Env /\ s.frames \in Seq(SemFrames) /\ DOMAIN s = {"live", "frames", "cur", "nba", "queued", "written"}
  BY DEF SemType
<1>2. g \in SemFrames
  BY <1>1
<1>3. /\ stmt # "return" => g \in [kind : {"loop"}, out : SUBSET Env, skip : SUBSET Env]
      /\ stmt = "return" => g \in [kind : {"call"}, back : SUBSET Env]
  BY <1>2 DEF SemFrames, ParkKind
<1>4. h \in SemFrames /\ Moved(stmt, g, h, s.live)
  <2>1. CASE stmt = "break"
    <3>1. h = [g EXCEPT !.out = @ \cup s.live]
      BY <2>1
    <3> QED
      BY <1>1, <1>3, <2>1, <3>1 DEF SemFrames, Moved
  <2>2. CASE stmt = "continue"
    <3>1. h = [g EXCEPT !.skip = @ \cup s.live]
      BY <2>2
    <3> QED
      BY <1>1, <1>3, <2>2, <3>1 DEF SemFrames, Moved
  <2>3. CASE stmt = "return"
    <3>1. h = [g EXCEPT !.back = @ \cup s.live]
      BY <2>3
    <3> QED
      BY <1>1, <1>3, <2>3, <3>1 DEF SemFrames, Moved
  <2> QED
    BY <2>1, <2>2, <2>3
<1>5. t = [s EXCEPT !.live = {}, !.frames = [s.frames EXCEPT ![m] = h]]
  <2>1. Innermost(s, IF stmt = "return" THEN "call" ELSE "loop") = m
    BY DEF ParkKind
  <2>2. CASE stmt = "break"
    BY <2>1, <2>2 DEF Escape
  <2>3. CASE stmt = "continue"
    BY <2>1, <2>3 DEF Escape
  <2>4. CASE stmt = "return"
    BY <2>1, <2>4 DEF Escape
  <2> QED
    BY <2>2, <2>3, <2>4
<1> HIDE DEF h, t, g
<1>6. t.live = {} /\ t.frames = [s.frames EXCEPT ![m] = h] /\ SameValues(s, t)
  BY <1>1, <1>5 DEF SameValues
<1>7. /\ t.frames \in Seq(SemFrames) /\ Len(t.frames) = Len(s.frames) /\ t.frames[m] = h
      /\ \A i \in 1..Len(s.frames) : i # m => t.frames[i] = s.frames[i]
  BY <1>1, <1>4, <1>6
<1>8. SemType(t, n)
  <2>1. t.live \subseteq Env /\ n <= n
    BY <1>6
  <2> QED
    BY <1>6, <1>7, <2>1, ValuesKept
<1> QED
  BY <1>4, <1>6, <1>7, <1>8 DEF EscapeFields, t, g

(* The same layout, in which other valuations are live or wait. *)
Rewaits(y, w) == Layout(y.hs, y.n, y.m, y.d, y.l, w)

LEMMA RewaitsFrame ==
  ASSUME NEW tm, NEW esc, NEW B, NEW N, NEW f, NEW y, NEW z, NEW j,
         FrameAt(tm, esc, B, N, f, y, z, j),
         NEW y2, NEW a, y2 = y \/ y2 = Rewaits(y, a), NEW z2, NEW b, z2 = z \/ z2 = Rewaits(z, b)
  PROVE  FrameAt(tm, esc, B, N, f, y2, z2, j)
<1>1. y2.hs = y.hs /\ y2.n = y.n /\ y2.m = y.m /\ y2.d = y.d /\ y2.l = y.l
  BY DEF Rewaits, Layout
<1>2. z2.hs = z.hs /\ z2.n = z.n /\ z2.m = z.m /\ z2.d = z.d /\ z2.l = z.l
  BY DEF Rewaits, Layout
<1>3. LayoutOK(y2, N) /\ LayoutOK(z2, N)
  BY <1>1, <1>2 DEF FrameAt, LayoutOK
<1>4. Follows(f, y2, z2)
  BY <1>1, <1>2 DEF FrameAt, Follows
<1>5. Guarding(f, y2, esc)
  BY <1>1 DEF FrameAt, Guarding
<1>6. Based(f, y2, z2, esc, B)
  BY <1>1, <1>2 DEF FrameAt, Based
<1> QED
  BY <1>1, <1>2, <1>3, <1>4, <1>5, <1>6 DEF FrameAt

LEMMA Shrinks ==
  ASSUME NEW c, NEW H, NEW F, NEW fr, NEW f, NEW y, NEW z, SemAt(c, H, F, fr, f, y, z),
         f.kind \in {"root", "block", "select", "loop", "head", "call"}
  PROVE  z.w \subseteq y.w
BY DEF SemAt, SelectAt, LoopAt, HeadAt, CallAt

(* The valuations X have escaped to the guards from the i-th on. *)
Escaped(c, F, d, F2, i, X) ==
  \A n \in 0..Len(c.esc) :
    Raised(d.esc, F2, n) = IF n < i THEN Raised(c.esc, F, n) ELSE Raised(c.esc, F, n) \cup X

(* A construct that the escape leaves as a whole. *)
LEMMA EscapeAbove ==
  ASSUME NEW c, NEW H, NEW F, NEW fr, NEW g, NEW y, NEW z, SemAt(c, H, F, fr, g, y, z),
         g.kind \in {"root", "block", "select", "loop"},
         NEW i, i \in Nat, i <= y.n, y.n \in Nat, Len(c.esc) \in Nat, y.n <= Len(c.esc),
         g.kind = "loop" => y.n + 1 <= Len(c.esc),
         NEW d, NEW F2, NEW X, X \subseteq z.w, Escaped(c, F, d, F2, i, X),
         \A k : OnAt(d, H, k) = OnAt(c, H, k),
         NEW fr2, g.kind \in {"select", "loop"} => fr2[z.m] = fr[z.m]
  PROVE  SemAt(d, H, F2, fr2, g, Rewaits(y, y.w \ X), Rewaits(z, z.w \ X))
<1> DEFINE u == Rewaits(y, y.w \ X)
           v == Rewaits(z, z.w \ X)
<1>1. u.hs = y.hs /\ u.n = y.n /\ u.w = y.w \ X /\ v.m = z.m /\ v.w = z.w \ X
  BY DEF Rewaits, Layout
<1>2. Raised(d.esc, F2, y.n) = Raised(c.esc, F, y.n) \cup X
  <2>1. y.n \in 0..Len(c.esc) /\ ~(y.n < i)
    OBVIOUS
  <2> QED
    BY <2>1 DEF Escaped
<1>3. g.kind = "loop" => Raised(d.esc, F2, y.n + 1) = Raised(c.esc, F, y.n + 1) \cup X
  <2>1. g.kind = "loop" => y.n + 1 \in 0..Len(c.esc) /\ ~(y.n + 1 < i)
    OBVIOUS
  <2> QED
    BY <2>1 DEF Escaped
<1> HIDE DEF u, v
<1>4. OnAt(d, H, Len(u.hs)) \ Raised(d.esc, F2, u.n) = u.w
  <2>1. OnAt(c, H, Len(y.hs)) \ Raised(c.esc, F, y.n) = y.w
    BY DEF SemAt
  <2> QED
    BY <1>1, <1>2, <2>1
<1>5. g.kind \in {"root", "block"} => v.w = u.w
  BY <1>1 DEF SemAt
<1>6. g.kind = "select" => SelectAt(fr2[v.m], g.h, u.w, v.w)
  <2>1. ASSUME g.kind = "select" PROVE SelectAt(fr2[v.m], g.h, u.w, v.w)
    <3>1. SelectAt(fr[z.m], g.h, y.w, z.w)
      BY <2>1 DEF SemAt
    <3>2. fr2[v.m] = fr[z.m]
      BY <1>1, <2>1
    <3> QED
      BY <1>1, <3>1, <3>2 DEF SelectAt
  <2> QED
    BY <2>1
<1>7. g.kind = "loop" =>
        LoopAt(fr2[v.m], OnAt(d, H, Len(u.hs) + Len(g.lsw)) \ Raised(d.esc, F2, u.n + 1), u.w, v.w)
  <2>1. ASSUME g.kind = "loop"
        PROVE  LoopAt(fr2[v.m], OnAt(d, H, Len(u.hs) + Len(g.lsw)) \ Raised(d.esc, F2, u.n + 1), u.w, v.w)
    <3>1. LoopAt(fr[z.m], OnAt(c, H, Len(y.hs) + Len(g.lsw)) \ Raised(c.esc, F, y.n + 1), y.w, z.w)
      BY <2>1 DEF SemAt
    <3>2. /\ OnAt(d, H, Len(u.hs) + Len(g.lsw)) = OnAt(c, H, Len(y.hs) + Len(g.lsw))
          /\ Raised(d.esc, F2, u.n + 1) = Raised(c.esc, F, y.n + 1) \cup X
      BY <1>1, <1>3, <2>1
    <3>3. fr2[v.m] = fr[z.m]
      BY <1>1, <2>1
    <3> QED
      BY <1>1, <3>1, <3>2, <3>3 DEF LoopAt
  <2> QED
    BY <2>1
<1> QED
  BY <1>4, <1>5, <1>6, <1>7 DEF SemAt, u, v

(* The construct that the escape leads to the end of. *)
LEMMA EscapeAt ==
  ASSUME NEW c, NEW H, NEW F, NEW fr, NEW g, NEW y, NEW z, SemAt(c, H, F, fr, g, y, z),
         NEW stmt \in {"break", "continue", "return"}, g.kind = ParkKind(stmt),
         NEW i, i = GuardOf(stmt, y), y.n \in Nat, Len(c.esc) \in Nat, i \in 1..Len(c.esc),
         NEW d, NEW F2, NEW X, X \subseteq z.w, Escaped(c, F, d, F2, i, X),
         \A k : OnAt(d, H, k) = OnAt(c, H, k),
         NEW fr2, Moved(stmt, fr[z.m], fr2[z.m], X)
  PROVE  SemAt(d, H, F2, fr2, g, y, Rewaits(z, z.w \ X))
<1> DEFINE v == Rewaits(z, z.w \ X)
<1>1. v.m = z.m /\ v.w = z.w \ X
  BY DEF Rewaits, Layout
<1>2. Raised(d.esc, F2, y.n) = Raised(c.esc, F, y.n)
  <2>1. y.n \in 0..Len(c.esc) /\ y.n < i
    BY DEF GuardOf
  <2> QED
    BY <2>1 DEF Escaped
<1> HIDE DEF v
<1>3. OnAt(d, H, Len(y.hs)) \ Raised(d.esc, F2, y.n) = y.w
  BY <1>2 DEF SemAt
<1>4. CASE stmt = "return"
  <2>1. g.kind = "call"
    BY <1>4 DEF ParkKind
  <2>2. CallAt(fr[z.m], OnAt(c, H, Len(y.hs)), Raised(c.esc, F, y.n), y.w, z.w)
    BY <2>1 DEF SemAt
  <2>3. fr2[z.m].kind = fr[z.m].kind /\ fr2[z.m].back = fr[z.m].back \cup X
    BY <1>4 DEF Moved
  <2>4. CallAt(fr2[v.m], OnAt(d, H, Len(y.hs)), Raised(d.esc, F2, y.n), y.w, v.w)
    BY <1>1, <1>2, <2>2, <2>3 DEF CallAt
  <2> QED
    BY <1>3, <2>1, <2>4 DEF SemAt, v
<1>5. CASE stmt # "return"
  <2>1. g.kind = "loop"
    BY <1>5 DEF ParkKind
  <2> DEFINE on  == OnAt(c, H, Len(y.hs) + Len(g.lsw)) \ Raised(c.esc, F, y.n + 1)
             on2 == OnAt(d, H, Len(y.hs) + Len(g.lsw)) \ Raised(d.esc, F2, y.n + 1)
  <2>2. LoopAt(fr[z.m], on, y.w, z.w)
    BY <2>1 DEF SemAt
  <2>3. y.n + 1 \in 0..Len(c.esc)
    BY DEF GuardOf
  <2>4. CASE stmt = "break"
    <3>1. ~(y.n + 1 < i)
      BY <2>4 DEF GuardOf
    <3>2. on2 = on \ X
      <4>1. Raised(d.esc, F2, y.n + 1) = Raised(c.esc, F, y.n + 1) \cup X
        BY <2>3, <3>1 DEF Escaped
      <4>2. OnAt(d, H, Len(y.hs) + Len(g.lsw)) = OnAt(c, H, Len(y.hs) + Len(g.lsw))
        OBVIOUS
      <4> QED
        BY <4>1, <4>2
    <3>3. fr2[z.m].kind = fr[z.m].kind /\ fr2[z.m].out = fr[z.m].out \cup X /\ fr2[z.m].skip = fr[z.m].skip
      BY <2>4 DEF Moved
    <3> HIDE DEF on, on2
    <3>4. LoopAt(fr2[v.m], on2, y.w, v.w)
      BY <1>1, <2>2, <3>2, <3>3 DEF LoopAt
    <3> QED
      BY <1>3, <2>1, <3>4 DEF SemAt, v, on2
  <2>5. CASE stmt = "continue"
    <3>1. y.n + 1 < i
      BY <2>5 DEF GuardOf
    <3>2. on2 = on
      BY <2>3, <3>1 DEF Escaped
    <3>3. fr2[z.m].kind = fr[z.m].kind /\ fr2[z.m].out = fr[z.m].out /\ fr2[z.m].skip = fr[z.m].skip \cup X
      BY <2>5 DEF Moved
    <3> HIDE DEF on, on2
    <3>4. LoopAt(fr2[v.m], on2, y.w, v.w)
      BY <1>1, <2>2, <3>2, <3>3 DEF LoopAt
    <3> QED
      BY <1>3, <2>1, <3>4 DEF SemAt, v, on2
  <2> QED
    BY <1>5, <2>4, <2>5
<1> QED
  BY <1>4, <1>5

(* The flags from the i-th on are raised. *)
Lifted(c, F, d, J, i, X) ==
  /\ Escaped(c, F, d, J, i, X)
  /\ \A v \in DOMAIN F : (\A l \in 1..Len(c.esc) : v # c.esc[l].flag) => J[v] = F[v]

LEMMA UpEscaped ==
  ASSUME NEW c, NEW F, Flagged(c, F), NEW n, Numbered(c.esc, n), NEW i \in 1..Len(c.esc), NEW X,
         NEW d, d.esc = c.esc
  PROVE  Lifted(c, F, d, Up(c.esc, F, i - 1, X), i, X)
<1> DEFINE F2 == Up(c.esc, F, i - 1, X)
           L == Len(c.esc)
<1>1. L \in Nat /\ (i - 1) + 1 = i
  BY DEF Flagged
<1>2. \A v \in DOMAIN F : F2[v] = IF \E l \in i..L : v = c.esc[l].flag THEN F[v] \cup X ELSE F[v]
  BY <1>1 DEF Up
<1> HIDE DEF F2
<1>3. ASSUME NEW k \in 1..L PROVE F2[c.esc[k].flag] = IF k < i THEN F[c.esc[k].flag] ELSE F[c.esc[k].flag] \cup X
  <2>1. c.esc[k].flag \in DOMAIN F
    BY DEF Flagged
  <2>2. (\E l \in i..L : c.esc[k].flag = c.esc[l].flag) <=> ~(k < i)
    <3>1. \A l \in i..L : l \in 1..L
      BY <1>1
    <3>2. \A l \in 1..L : c.esc[k].flag = c.esc[l].flag => k = l
      BY DEF Numbered
    <3>3. ~(k < i) => k \in i..L
      BY <1>1
    <3> QED
      BY <1>1, <3>1, <3>2, <3>3
  <2> QED
    BY <1>2, <2>1, <2>2
<1>4. ASSUME NEW k \in 0..L
      PROVE  Raised(c.esc, F2, k) = IF k < i THEN Raised(c.esc, F, k) ELSE Raised(c.esc, F, k) \cup X
  <2>1. CASE k = 0
    BY <2>1 DEF Raised
  <2>2. CASE k # 0
    <3>1. k \in 1..L
      BY <1>1, <2>2
    <3> QED
      BY <1>3, <2>2, <3>1 DEF Raised
  <2> QED
    BY <2>1, <2>2
<1>5. \A v \in DOMAIN F : (\A l \in 1..L : v # c.esc[l].flag) => F2[v] = F[v]
  <2>1. \A l \in i..L : l \in 1..L
    BY <1>1
  <2> QED
    BY <1>2, <2>1
<1> QED
  BY <1>4, <1>5 DEF Escaped, Lifted, F2
(* The layouts of a stack, when the valuations X no longer wait above      *)
(* frame j.                                                                *)
EscapedTo(W, j, n, X) ==
  [k \in 1..(n + 1) |-> IF k <= j THEN W[k] ELSE Rewaits(W[k], W[k].w \ X)]

LEMMA UnderEscaped ==
  ASSUME NEW tm, NEW esc, NEW B, NEW N, NEW t, NEW W, Under(tm, esc, B, N, t, W), NEW j, NEW X
  PROVE  Under(tm, esc, B, N, t, EscapedTo(W, j, Len(t), X))
<1> DEFINE U == EscapedTo(W, j, Len(t), X)
<1>1. Len(t) \in Nat
  BY UnderRises
<1>2. \A k \in 1..(Len(t) + 1) : U[k] = W[k] \/ U[k] = Rewaits(W[k], W[k].w \ X)
  BY DEF EscapedTo
<1> HIDE DEF U
<1>3. Bottom(U[1])
  <2>1. 1 \in 1..(Len(t) + 1) /\ Bottom(W[1])
    BY <1>1 DEF Under
  <2>2. U[1] = W[1] \/ U[1] = Rewaits(W[1], W[1].w \ X)
    BY <1>2, <2>1
  <2>3. Bottom(Rewaits(W[1], W[1].w \ X))
    BY <2>1 DEF Bottom, Rewaits, Layout
  <2> QED
    BY <2>1, <2>2, <2>3
<1>4. ASSUME NEW k \in 1..Len(t) PROVE FrameAt(tm, esc, B, N, t[k], U[k], U[k + 1], k) /\ Inner(t[k])
  <2>1. k \in 1..(Len(t) + 1) /\ k + 1 \in 1..(Len(t) + 1)
    BY <1>1
  <2>2. FrameAt(tm, esc, B, N, t[k], W[k], W[k + 1], k) /\ Inner(t[k])
    BY DEF Under
  <2> DEFINE a == W[k].w \ X
             b == W[k + 1].w \ X
  <2>3. (U[k] = W[k] \/ U[k] = Rewaits(W[k], a)) /\ (U[k + 1] = W[k + 1] \/ U[k + 1] = Rewaits(W[k + 1], b))
    BY <1>2, <2>1
  <2> HIDE DEF a, b
  <2> QED
    BY <2>2, <2>3, RewaitsFrame
<1> QED
  BY <1>3, <1>4 DEF Under, U

(* What leaving frame j does. *)
EscapeDone(c, H, F, s, d, F2, s2, W, stmt, j) ==
  /\ Escaped(c, F, d, F2, GuardOf(stmt, W[j]), s.live)
  /\ \A k : OnAt(d, H, k) = OnAt(c, H, k)
  /\ \A i \in 1..Len(s.frames) : i # W[j + 1].m => s2.frames[i] = s.frames[i]
  /\ Moved(stmt, s.frames[W[j + 1].m], s2.frames[W[j + 1].m], s.live)

LEMMA SemEscaped ==
  ASSUME NEW c, NEW H, NEW F, NEW s, NEW N, NEW B, NEW t, NEW W, NEW stmt, NEW j,
         EscapeFrom(c, H, F, s, N, B, t, W, stmt, j),
         NEW d, NEW F2, NEW s2, EscapeDone(c, H, F, s, d, F2, s2, W, stmt, j)
  PROVE  SemBelow(d, H, F2, s2.frames, t, EscapedTo(W, j, Len(t), s.live))
<1> DEFINE n == Len(t)
           X == s.live
           U == EscapedTo(W, j, n, X)
           m == W[j + 1].m
           i == GuardOf(stmt, W[j])
           fr == s.frames
           fr2 == s2.frames
           L == Len(c.esc)
<1>1. /\ Under(c.timing, c.esc, B, N, t, W) /\ SemBelow(c, H, F, fr, t, W) /\ L \in Nat
      /\ W[n + 1].n = L /\ fr \in Seq(SemFrames) /\ W[n + 1].m = Len(fr) /\ W[n + 1].w = X
      /\ stmt \in {"break", "continue", "return"} /\ Leaves(t, stmt, j)
  BY DEF EscapeFrom
<1>2. n \in Nat /\ Rising(W, n + 1, N) /\ j \in 1..n /\ j \in 1..(n + 1) /\ j + 1 \in 1..(n + 1)
  BY <1>1, UnderRises DEF Leaves
<1>3. \A k \in 1..n : /\ k \in 1..(n + 1) /\ k + 1 \in 1..(n + 1)
                      /\ FrameAt(c.timing, c.esc, B, N, t[k], W[k], W[k + 1], k) /\ Inner(t[k])
                      /\ SemAt(c, H, F, fr, t[k], W[k], W[k + 1])
  BY <1>1, <1>2 DEF Under, SemBelow
<1>4. \A k \in 1..(n + 1) : /\ W[k].n \in Nat /\ W[k].m \in Nat
                            /\ W[k].n <= L /\ W[k].m <= Len(fr)
  <2>1. n + 1 \in 1..(n + 1) /\ \A k \in 1..(n + 1) : k <= n + 1
    BY <1>2
  <2>2. \A k \in 1..(n + 1) : LayoutOK(W[k], N) /\ Below(W[k], W[n + 1])
    BY <1>2, <2>1 DEF Rising
  <2> QED
    BY <1>1, <2>2 DEF LayoutOK, Below
<1>5. i \in 1..L
  BY <1>1, <1>2, EscapeGuard
<1>6. m \in 1..Len(fr) /\ m = W[j].m + 1
  <2>1. /\ Under(c.timing, c.esc, B, N, t, W) /\ SemBelow(c, H, F, s.frames, t, W)
        /\ s.frames \in Seq(SemFrames) /\ W[Len(t) + 1].m = Len(s.frames)
        /\ stmt \in {"break", "continue", "return"} /\ Leaves(t, stmt, j)
    BY <1>1
  <2>2. Parks(s, W, stmt, j)
    BY EscapeFrame
  <2> QED
    BY <2>2 DEF Parks
<1>7. Escaped(c, F, d, F2, i, X) /\ (\A k : OnAt(d, H, k) = OnAt(c, H, k))
      /\ (\A l \in 1..Len(fr) : l # m => fr2[l] = fr[l]) /\ Moved(stmt, fr[m], fr2[m], X)
  BY DEF EscapeDone
<1>8. ASSUME NEW k \in 1..(n + 1) PROVE X \subseteq W[k].w
  <2> DEFINE f == [l \in 0..n |-> W[l + 1].w]
  <2>1. \A l \in 1..n : f[l] \subseteq f[l - 1]
    <3> TAKE l \in 1..n
    <3>1. W[l + 1].w \subseteq W[l].w
      <4>1. t[l].kind \in {"root", "block", "select", "loop", "head", "call"}
        BY <1>3, OpenedType DEF FrameAt
      <4> QED
        BY <1>3, <4>1, Shrinks
    <3>2. f[l] = W[l + 1].w /\ f[l - 1] = W[l].w
      BY <1>2
    <3> QED
      BY <3>1, <3>2
  <2>2. f[n] = W[n + 1].w /\ f[k - 1] = W[k].w /\ k - 1 \in 0..n /\ n \in 0..n /\ k - 1 <= n
    BY <1>2
  <2> HIDE DEF f
  <2>3. \A a, b \in 0..n : a <= b => f[b] \subseteq f[a]
    BY <1>2, <2>1, DecreasingSets
  <2> QED
    BY <1>1, <2>2, <2>3
<1>9. \A k \in 1..(n + 1) : U[k] = IF k <= j THEN W[k] ELSE Rewaits(W[k], W[k].w \ X)
  BY DEF EscapedTo
<1> HIDE DEF U, X, m, fr, fr2, L
<1>10. ASSUME NEW k \in 1..n, k < j PROVE SemAt(d, H, F2, fr2, t[k], U[k], U[k + 1])
  <2>1. k \in 1..(n + 1) /\ k + 1 \in 1..(n + 1) /\ k <= j /\ k + 1 <= j
    BY <1>2, <1>10
  <2>2. U[k] = W[k] /\ U[k + 1] = W[k + 1]
    BY <1>9, <2>1
  <2>3. Below(W[k + 1], W[j])
    BY <1>2, <2>1 DEF Rising
  <2>4. W[k + 1].n <= W[j].n /\ W[k + 1].m <= W[j].m /\ W[j].n < i
    BY <1>4, <1>2, <2>3 DEF Below, GuardOf
  <2>5. SamePlaces(W[k + 1], c, H, F, fr, d, H, F2, fr2)
    <3>1. \A l \in 0..W[k + 1].n : Raised(d.esc, F2, l) = Raised(c.esc, F, l)
      <4> TAKE l \in 0..W[k + 1].n
      <4>1. l \in 0..L /\ l < i
        BY <1>1, <1>2, <1>4, <1>5, <2>1, <2>4, SMTT(30)
      <4> QED
        BY <1>7, <4>1 DEF Escaped, L
    <3>2. \A l \in 1..W[k + 1].m : fr2[l] = fr[l]
      <4> TAKE l \in 1..W[k + 1].m
      <4>1. l \in 1..Len(fr) /\ l # m
        <5>1. W[k + 1].m \in Nat /\ W[j].m \in Nat /\ Len(fr) \in Nat /\ W[j].m <= Len(fr)
          BY <1>1, <1>2, <1>4, <2>1
        <5>2. m = W[j].m + 1 /\ W[k + 1].m <= W[j].m
          BY <1>6, <2>4
        <5> QED
          BY ONLY <5>1, <5>2
      <4> QED
        BY <1>7, <4>1
    <3> QED
      BY <1>7, <3>1, <3>2 DEF SamePlaces
  <2>6. FrameAt(c.timing, c.esc, B, N, t[k], W[k], W[k + 1], k) /\ SemAt(c, H, F, fr, t[k], W[k], W[k + 1])
    BY <1>3
  <2>7. SemAt(d, H, F2, fr2, t[k], W[k], W[k + 1])
    BY <2>5, <2>6, SemKept
  <2> QED
    BY <2>2, <2>7
<1>11. SemAt(d, H, F2, fr2, t[j], U[j], U[j + 1])
  <2>0. j <= j /\ ~(j + 1 <= j)
    BY <1>2
  <2>1. U[j] = W[j] /\ U[j + 1] = Rewaits(W[j + 1], W[j + 1].w \ X)
    BY <1>2, <1>9, <2>0
  <2>2. SemAt(c, H, F, fr, t[j], W[j], W[j + 1]) /\ X \subseteq W[j + 1].w /\ W[j].n \in Nat
    BY <1>2, <1>3, <1>4, <1>8
  <2>3. t[j].kind = ParkKind(stmt)
    BY <1>1 DEF Leaves, ParkKind
  <2>4. i \in 1..Len(c.esc) /\ Len(c.esc) \in Nat /\ i = GuardOf(stmt, W[j])
    BY <1>1, <1>5 DEF L
  <2>5. Moved(stmt, fr[W[j + 1].m], fr2[W[j + 1].m], X)
    BY <1>7 DEF m
  <2> HIDE DEF i
  <2>6. SemAt(d, H, F2, fr2, t[j], W[j], Rewaits(W[j + 1], W[j + 1].w \ X))
    BY ONLY <1>1, <1>7, <2>2, <2>3, <2>4, <2>5, EscapeAt, SMTT(30)
  <2> QED
    BY <2>1, <2>6
<1>12. ASSUME NEW k \in 1..n, k > j PROVE SemAt(d, H, F2, fr2, t[k], U[k], U[k + 1])
  <2>1. k \in 1..(n + 1) /\ k + 1 \in 1..(n + 1) /\ ~(k <= j) /\ ~(k + 1 <= j) /\ j + 1 <= k
    BY <1>2, <1>12
  <2>2. U[k] = Rewaits(W[k], W[k].w \ X) /\ U[k + 1] = Rewaits(W[k + 1], W[k + 1].w \ X)
    BY <1>9, <2>1
  <2>3. Below(W[j + 1], W[k])
    BY <1>2, <2>1 DEF Rising
  <2>4. /\ FrameAt(c.timing, c.esc, B, N, t[k], W[k], W[k + 1], k) /\ Inner(t[k])
        /\ SemAt(c, H, F, fr, t[k], W[k], W[k + 1])
    BY <1>3
  <2>5. t[k].kind \in {"root", "block", "select", "loop"}
    <3>1. t[k].kind \in {"root", "block", "select", "loop", "head", "call"}
      BY <2>4, OpenedType DEF FrameAt
    <3>2. k \in (j + 1)..n
      BY <1>2, <2>1
    <3>3. t[k].kind # "call"
      BY <1>1, <3>2 DEF Leaves
    <3> QED
      BY <2>4, <3>1, <3>3 DEF Inner
  <2>6. W[j + 1].n = W[j].n + NGuards(t[j].kind)
    BY <1>2, <1>3 DEF FrameAt, Follows
  <2>7. i <= W[j + 1].n
    BY <1>1, <1>2, <1>4, <2>6 DEF Leaves, NGuards, GuardOf
  <2>8. i <= W[k].n /\ W[k].n \in Nat /\ W[k].n <= L /\ W[j + 1].m <= W[k].m
    BY <1>2, <1>4, <1>5, <2>1, <2>3, <2>7, SMTT(30) DEF Below
  <2>9. /\ W[k + 1].n = W[k].n + NGuards(t[k].kind)
        /\ W[k + 1].m = W[k].m + NParks(t[k].kind)
    BY <2>4 DEF FrameAt, Follows
  <2>10. t[k].kind = "loop" => W[k].n + 1 <= L
    <3>1. W[k + 1].n <= L /\ W[k + 1].n \in Nat
      BY <1>4, <2>1
    <3> QED
      BY <1>1, <2>8, <2>9, <3>1 DEF NGuards
  <2>11. t[k].kind \in {"select", "loop"} => fr2[W[k + 1].m] = fr[W[k + 1].m]
    <3>1. W[k + 1].m \in Nat /\ W[k + 1].m <= Len(fr) /\ W[k].m \in Nat
      BY <1>4, <2>1
    <3>2. t[k].kind \in {"select", "loop"} => W[k + 1].m = W[k].m + 1
      BY <2>9 DEF NParks
    <3>3. W[j + 1].m = m /\ Len(fr) \in Nat
      BY <1>1 DEF m
    <3>4. t[k].kind \in {"select", "loop"} => W[k + 1].m \in 1..Len(fr) /\ W[k + 1].m # m
      BY <1>6, <2>8, <3>1, <3>2, <3>3
    <3> QED
      BY <1>7, <3>4
  <2>12. X \subseteq W[k + 1].w
    BY <1>8, <2>1
  <2>13. /\ i \in Nat /\ Len(c.esc) \in Nat /\ W[k].n <= Len(c.esc)
         /\ t[k].kind = "loop" => W[k].n + 1 <= Len(c.esc)
    BY <1>5, <1>1, <2>8, <2>10 DEF L
  <2> HIDE DEF i
  <2>14. SemAt(d, H, F2, fr2, t[k], Rewaits(W[k], W[k].w \ X), Rewaits(W[k + 1], W[k + 1].w \ X))
    BY ONLY <1>7, <2>4, <2>5, <2>8, <2>11, <2>12, <2>13, EscapeAbove, SMTT(30)
  <2> QED
    BY <2>2, <2>14
<1>13. \A k \in 1..n : SemAt(d, H, F2, fr2, t[k], U[k], U[k + 1])
  <2> TAKE k \in 1..n
  <2>1. k < j \/ k = j \/ k > j
    BY <1>2
  <2> QED
    BY <1>10, <1>11, <1>12, <2>1
<1> QED
  BY <1>13 DEF SemBelow, U, fr2, X
(* The statement that escapes: break, continue, or return once its value   *)
(* is in the local of the call.                                            *)
LEMMA EscapeKeeps ==
  ASSUME NEW c, NEW T, NEW f, NEW s, NEW p, Known(c, T, f, s, p), Inner(f), Exact(c, s),
         NEW stmt \in {"break", "continue", "return"}, NEW j, Leaves(Append(T, f), stmt, j),
         NEW d, d = SignalEscape(c, GuardKind[stmt]), NEW s2, s2 = Escape(s, stmt)
  PROVE  Known(d, T, f, s2, p) /\ d.timing = c.timing
<1>1. PICK Y, z, V, B, F : Inv(c, T, f, s, p, Y, z, V, B, F)
  BY DEF Known
<1> DEFINE N == Names(c.nflag, p.nest)
           H == z.hs
           L == Len(c.esc)
           t == Append(T, f)
           n == Len(T) + 1
           W == Above(Y, Len(T), z)
           X == s.live
           U == EscapedTo(W, j, n, X)
           z2 == U[n + 1]
           i == GuardOf(stmt, W[j])
           F2 == Up(c.esc, F, i - 1, c.cas.on)
           kind == GuardKind[stmt]
<1>2. /\ Good(c, H, V, Pending(f), N, B, F) /\ Under(c.timing, c.esc, B, N, T, Y)
      /\ FrameAt(c.timing, c.esc, B, N, f, Y[Len(T) + 1], z, Len(T) + 1)
      /\ Scoped(c, z, B, F) /\ Settled(c, f) /\ c.broken = FALSE
      /\ c.diag = {} => Meaning(c, T, f, s, Y, z, F)
  BY <1>1, InvFacts
<1>3. ~Closing(f) /\ Pending(f) = <<>>
  BY DEF Inner, Closing, Pending
<1>4. IsList(T) /\ Len(T) \in Nat /\ n \in Nat /\ Len(t) = n /\ t[n] = f /\ \A k \in 1..Len(T) : t[k] = T[k]
  <2>1. IsList(T)
    BY <1>2 DEF Under
  <2>2. Len(T) \in Nat /\ Len(t) = Len(T) + 1 /\ t[Len(T) + 1] = f /\ \A k \in 1..Len(T) : t[k] = T[k]
    BY <2>1, ListFacts
  <2> QED
    BY <2>1, <2>2
<1>5. W[n + 1] = z /\ W[n] = Y[Len(T) + 1]
  <2>1. (Len(T) + 1) + 1 = Len(T) + 2
    BY <1>4
  <2> QED
    BY <1>4, <2>1, AboveFacts
<1>6. Under(c.timing, c.esc, B, N, t, W)
  BY <1>2, UnderPush
<1> HIDE DEF W
<1>7. c \in Contexts(N) /\ c.esc \in Seq(Guards) /\ L \in Nat /\ DOMAIN c.esc = 1..L /\ c.nflag \in Nat
  <2>1. c \in Contexts(N)
    BY <1>2, GoodFacts
  <2> QED
    BY <2>1, ContextType
<1>8. Len(t) >= 1 /\ z.n = L /\ W[Len(t) + 1].n = Len(c.esc) /\ Numbered(c.esc, c.nflag)
  BY <1>2, <1>4, <1>5 DEF Scoped
<1>9. i \in 1..L /\ c.esc[i].kind = kind /\ (\A l \in 1..L : c.esc[l].kind = kind => l <= i)
  <2>1. /\ i \in 1..Len(c.esc) /\ c.esc[i].kind = GuardKind[stmt]
        /\ \A l \in 1..Len(c.esc) : c.esc[l].kind = GuardKind[stmt] => l <= i
    <3> DEFINE esc == c.esc
               tm == c.timing
    <3>1. Under(tm, esc, B, N, t, W) /\ Len(esc) \in Nat /\ W[Len(t) + 1].n = Len(esc) /\ Leaves(t, stmt, j)
      BY <1>6, <1>7, <1>8
    <3> HIDE DEF t, esc, tm, N
    <3>2. /\ GuardOf(stmt, W[j]) \in 1..Len(esc) /\ esc[GuardOf(stmt, W[j])].kind = GuardKind[stmt]
          /\ \A l \in 1..Len(esc) : esc[l].kind = GuardKind[stmt] => l <= GuardOf(stmt, W[j])
      BY <3>1, EscapeGuard
    <3> QED
      BY <3>2 DEF esc
  <2> QED
    BY <2>1
<1>10. InnermostGuard(c, kind) = i
  <2> DEFINE S == {l \in DOMAIN c.esc : c.esc[l].kind = kind}
  <2>1. S \subseteq 1..L /\ i \in S /\ \A l \in S : l <= i
    BY <1>7, <1>9
  <2> HIDE DEF S, i, L
  <2>2. Max(S) = i
    BY <1>7, <2>1, MaxIs
  <2> QED
    BY <2>2 DEF InnermostGuard, S
<1>11. Flagged(c, F)
  <2>1. \A l \in 1..Len(c.esc) : c.esc[l].flag \in DOMAIN F /\ ~IsStatic(c.esc[l].flag)
    BY <1>2, ScopeFacts
  <2> QED
    BY <1>7, <2>1 DEF Flagged
<1>12. RaisedTo(c, H, V, N, B, F, d, i - 1)
  <2>1. Good(c, H, V, <<>>, N, B, F) /\ i \in 1..Len(c.esc)
    BY <1>2, <1>3, <1>9
  <2>2. d = SignalEscape(c, kind)
    OBVIOUS
  <2> HIDE DEF i, kind, H, N
  <2> QED
    BY <1>10, <1>11, <2>1, <2>2, SignalGood
<1>13. /\ Good(d, H, V, <<>>, N, B, F2) /\ SameControl(c, d) /\ d.broken = c.broken
       /\ d.diag = {} => d.blocking = c.blocking /\ d.nonblocking = c.nonblocking
  BY <1>12 DEF RaisedTo
<1>14. d.timing = c.timing /\ d.cas = c.cas /\ d.esc = c.esc /\ d.nflag = c.nflag
       /\ d.unrolling = c.unrolling /\ d.exhausted = c.exhausted /\ c.diag \subseteq d.diag
  BY <1>13 DEF SameControl
<1>15. /\ Escaped(c, F, d, F2, i, c.cas.on) /\ DOMAIN F2 = DOMAIN F
       /\ \A v \in DOMAIN F : (\A l \in 1..L : v # c.esc[l].flag) => F2[v] = F[v]
  <2>1. DOMAIN F2 = DOMAIN F
    BY DEF Up
  <2>2. i \in 1..Len(c.esc)
    BY <1>9
  <2> DEFINE on == c.cas.on
  <2>3. d.esc = c.esc
    BY <1>14
  <2> HIDE DEF i, on
  <2>4. Lifted(c, F, d, Up(c.esc, F, i - 1, on), i, on)
    BY <1>8, <1>11, <2>2, <2>3, UpEscaped
  <2> QED
    BY <2>1, <2>4 DEF on, Lifted
<1> HIDE DEF F2, i, kind
<1>16. Under(c.timing, c.esc, B, N, t, U)
  <2>1. Under(c.timing, c.esc, B, N, t, EscapedTo(W, j, Len(t), X))
    BY <1>6, UnderEscaped
  <2> QED
    BY <1>4, <2>1
<1>17. z2 = Rewaits(z, z.w \ X)
  <2>1. j \in 1..n
    BY <1>4 DEF Leaves
  <2>2. n + 1 \in 1..(n + 1) /\ ~(n + 1 <= j)
    BY <1>4, <2>1
  <2> QED
    BY <1>5, <2>2 DEF EscapedTo
<1>18. z2.hs = H /\ z2.n = L /\ z2.m = z.m /\ z2.d = z.d /\ z2.l = z.l /\ z2.w = z.w \ X
  BY <1>8, <1>17 DEF Rewaits, Layout
<1>19. Under(c.timing, c.esc, B, N, T, U) /\ FrameAt(c.timing, c.esc, B, N, f, U[Len(T) + 1], z2, Len(T) + 1)
  <2>1. Front(t) = T /\ Last(t) = f
    BY <1>4, ListFacts
  <2> HIDE DEF U, t
  <2>2. /\ Under(c.timing, c.esc, B, N, Front(t), U)
        /\ FrameAt(c.timing, c.esc, B, N, Last(t), U[Len(t)], U[Len(t) + 1], Len(t))
    BY <1>8, <1>16, UnderPop
  <2> QED
    BY <1>4, <2>1, <2>2
<1> HIDE DEF U, z2
<1>20. Scoped(d, z2, B, F2) /\ Settled(d, f)
  BY <1>2, <1>3, <1>14, <1>15, <1>18 DEF Scoped, Settled
<1>21. ASSUME d.diag = {} PROVE Meaning(d, T, f, s2, U, z2, F2)
  <2>1. c.diag = {} /\ c.cas.on = X
    BY <1>14, <1>21 DEF Exact
  <2>2. Meaning(c, T, f, s, Y, z, F)
    BY <1>2, <2>1
  <2>3. /\ SemType(s, z.d) /\ Mirrors(s, c, F, z.d) /\ z.m = Len(s.frames) /\ z.w = X
        /\ SemBelow(c, H, F, s.frames, T, Y) /\ SemAt(c, H, F, s.frames, f, Y[Len(T) + 1], z)
        /\ c.exhausted = FALSE
    BY <2>2 DEF Meaning, SemBelow
  <2>4. SemBelow(c, H, F, s.frames, t, W)
    BY <1>4, <2>3, SemBelowPush DEF W
  <2>5. s.frames \in Seq(SemFrames) /\ z.d \in Nat
    BY <1>2, <2>3 DEF SemType, FrameAt, LayoutOK
  <2>6. EscapeFrom(c, H, F, s, N, B, t, W, stmt, j)
    BY <1>4, <1>5, <1>6, <1>7, <1>8, <2>3, <2>4, <2>5 DEF EscapeFrom
  <2> DEFINE m == W[j + 1].m
  <2>7. Innermost(s, ParkKind(stmt)) = m /\ m \in 1..Len(s.frames) /\ s.frames[m].kind = ParkKind(stmt)
    <3>1. Parks(s, W, stmt, j)
      BY <2>6, EscapeFrame
    <3> QED
      BY <3>1 DEF Parks
  <2>8. EscapeFields(s, s2, stmt, m, z.d)
    <3> HIDE DEF m
    <3> QED
      BY <2>3, <2>5, <2>7, EscapeMoves
  <2>9. /\ SemType(s2, z.d) /\ SameValues(s, s2) /\ s2.live = {} /\ Len(s2.frames) = Len(s.frames)
        /\ \A l \in 1..Len(s.frames) : l # m => s2.frames[l] = s.frames[l]
        /\ Moved(stmt, s.frames[m], s2.frames[m], X)
    BY <2>8 DEF EscapeFields
  <2>10. EscapeDone(c, H, F, s, d, F2, s2, W, stmt, j)
    <3>1. \A k : OnAt(d, H, k) = OnAt(c, H, k)
      BY <1>14 DEF OnAt
    <3>2. Escaped(c, F, d, F2, GuardOf(stmt, W[j]), X)
      BY <1>15, <2>1 DEF i
    <3> QED
      BY <2>9, <3>1, <3>2 DEF EscapeDone
  <2>11. SemBelow(d, H, F2, s2.frames, t, EscapedTo(W, j, Len(t), X))
    <3> HIDE DEF H, X
    <3> QED
      BY <2>6, <2>10, SemEscaped DEF X
  <2>12. SemBelow(d, H, F2, s2.frames, t, U)
    BY <1>4, <2>11 DEF U
  <2>13. SemAt(d, z2.hs, F2, s2.frames, f, U[Len(T) + 1], z2)
    <3>1. n \in 1..Len(t)
      BY <1>4
    <3>2. SemAt(d, H, F2, s2.frames, t[n], U[n], U[n + 1])
      BY <2>12, <3>1 DEF SemBelow
    <3> QED
      BY <1>4, <1>18, <3>2 DEF z2
  <2>14. ASSUME NEW k \in 1..Len(T) PROVE SemAt(d, z2.hs, F2, s2.frames, T[k], U[k], U[k + 1])
    <3>1. k \in 1..Len(t) /\ t[k] = T[k]
      BY <1>4
    <3>2. SemAt(d, H, F2, s2.frames, t[k], U[k], U[k + 1])
      BY <2>12, <3>1 DEF SemBelow
    <3> QED
      BY <1>18, <3>1, <3>2
  <2>15. Mirrors(s2, d, F2, z.d)
    <3>1. \A v \in StaticVars \cup LocalsTo(z.d) : F2[v] = F[v]
      <4>1. StaticVars \cup LocalsTo(z.d) \subseteq DOMAIN F
            /\ \A l \in 1..Len(c.esc) : c.esc[l].flag \notin StaticVars /\ c.esc[l].flag \notin LocalsTo(z.d)
        BY <1>2, ScopeFacts
      <4> QED
        BY <1>15, <4>1
    <3>2. d.blocking = c.blocking /\ d.nonblocking = c.nonblocking
      BY <1>13, <1>21
    <3>3. z.d <= z.d
      BY <2>5
    <3> QED
      BY <1>14, <2>3, <2>5, <2>9, <3>1, <3>2, <3>3, MirrorsKept
  <2>16. z2.w = s2.live /\ z2.m = Len(s2.frames)
    BY <1>18, <2>3, <2>9
  <2>17. Placed(d, f, F2, z2)
    <3>1. L \in 0..Len(c.esc) /\ ~(L < i)
      BY <1>7, <1>9
    <3>2. Raised(d.esc, F2, L) = Raised(c.esc, F, L) \cup c.cas.on
      BY <1>15, <3>1 DEF Escaped
    <3> QED
      BY <1>3, <1>14, <1>18, <2>9, <2>16, <3>2 DEF Placed
  <2> QED
    BY <1>14, <1>18, <2>3, <2>9, <2>13, <2>14, <2>15, <2>16, <2>17 DEF Meaning
<1>22. Inv(d, T, f, s2, p, U, z2, V, B, F2)
  BY <1>2, <1>3, <1>13, <1>14, <1>18, <1>19, <1>20, <1>21 DEF Inv
<1> QED
  BY <1>14, <1>22 DEF Known

-----------------------------------------------------------------------------
(* The states of the specification.                                        *)

OnStack(c, t, s, p) ==
  /\ Known(c, Front(t), Last(t), s, p) /\ IsList(t) /\ Len(t) >= 1 /\ Last(t).kind # "head"

Valid ==
  /\ OnStack(ctx, ctl, sem, profile)
  /\ profile \in Profiles /\ ctx.timing = profile.timing /\ steps \in 0..profile.length

LEMMA StackOf ==
  ASSUME NEW c, NEW T, NEW g, NEW s, NEW p, Known(c, T, g, s, p), g.kind # "head"
  PROVE  OnStack(c, Append(T, g), s, p)
<1>1. IsList(T)
  BY KnownShape
<1>2. /\ Front(Append(T, g)) = T /\ Last(Append(T, g)) = g /\ IsList(Append(T, g))
      /\ Len(Append(T, g)) = Len(T) + 1 /\ Len(T) \in Nat
  BY <1>1, ListFacts
<1> QED
  BY <1>2 DEF OnStack

(* The frame that is left was on top of those that remain. *)
LEMMA StackBelow ==
  ASSUME NEW c, NEW T, NEW f, NEW s, NEW p, Known(c, T, f, s, p), Len(T) >= 1,
         NEW d, NEW s2, Known(d, Front(T), Last(T), s2, p)
  PROVE  OnStack(d, T, s2, p)
<1>1. IsList(T) /\ Inner(Last(T))
  BY KnownBelow
<1> QED
  BY <1>1 DEF OnStack, Inner

(* The first frame is that of the process. *)
LEMMA NotFirst ==
  ASSUME NEW c, NEW T, NEW f, NEW s, NEW p, Known(c, T, f, s, p), f.kind # "root"
  PROVE  Len(T) >= 1
<1>1. PICK Y, z, V, B, F : Inv(c, T, f, s, p, Y, z, V, B, F)
  BY DEF Known
<1>2. FrameAt(c.timing, c.esc, B, Names(c.nflag, p.nest), f, Y[Len(T) + 1], z, Len(T) + 1)
  BY <1>1, InvFacts
<1>3. Len(T) \in Nat
  BY FewCalls
<1> QED
  BY <1>2, <1>3 DEF FrameAt

(* The innermost frame of a state, and those below. *)
Lower == Front(ctl)
TopFacts ==
  /\ Known(ctx, Lower, Frame, sem, profile) /\ ctl = Append(Lower, Frame) /\ IsList(Lower)
  /\ Len(Lower) = Len(ctl) - 1 /\ Len(Lower) \in Nat /\ Frame.kind # "head"
  /\ Depth = Calls(Append(Lower, Frame)) /\ Depth \in Nat /\ Depth <= Len(Lower)
  /\ profile \in Profiles /\ ctx.timing = profile.timing
  /\ Frame.kind # "root" => Len(Lower) >= 1
  /\ \A g : [ctl EXCEPT ![Len(ctl)] = g] = Append(Lower, g)

LEMMA ValidTop ==
  ASSUME Valid
  PROVE  TopFacts
<1>1. /\ Known(ctx, Lower, Frame, sem, profile) /\ IsList(ctl) /\ Len(ctl) >= 1 /\ Frame.kind # "head"
      /\ profile \in Profiles /\ ctx.timing = profile.timing
  BY DEF Valid, OnStack, Lower, Frame
<1>2. ctl = Append(Lower, Frame) /\ IsList(Lower) /\ Len(Lower) = Len(ctl) - 1
  BY <1>1, ListEnd DEF Lower, Frame
<1>3. Calls(Append(Lower, Frame)) \in Nat /\ Calls(Append(Lower, Frame)) <= Len(Lower) /\ Len(Lower) \in Nat
  BY <1>1, FewCalls
<1>4. Depth = Calls(ctl)
  BY DEF Depth, Calls
<1>5. Frame.kind # "root" => Len(Lower) >= 1
  BY <1>1, NotFirst
<1>6. \A g : [Append(Lower, Frame) EXCEPT ![Len(Append(Lower, Frame))] = g] = Append(Lower, g)
  BY <1>2, ListReplace
<1> HIDE DEF Lower, Frame, Depth
<1>7. \A g : [ctl EXCEPT ![Len(ctl)] = g] = Append(Lower, g)
  BY <1>2, <1>6
<1> QED
  BY <1>1, <1>2, <1>3, <1>4, <1>5, <1>7 DEF TopFacts

(* The condition under which the elaborator is right about an initial      *)
(* process, which has no case tree: nothing it dispatches on needs one.  A *)
(* case statement opens a switch all the same, and every one of its items  *)
(* takes effect; so would both branches of a condition on a wire.  A while *)
(* looks for its flag among the variables an initial process has not got.  *)
InitialIsConstant ==
  \A p \in Profiles : p.timing = "Initial" =>
    /\ "case" \notin p.constructs /\ "while" \notin p.constructs
    /\ \A x \in p.conds \cup p.masks : x[1] # "wire"

(* What a statement in frame h may use is in scope. *)
Usable(h) ==
  /\ Tests \cup Sources \cup profile.masks \subseteq InScope(Lower, h)
  /\ MyLocal \subseteq LocalsTo(Depth)
  /\ profile.timing = "Initial" => /\ \A x \in Tests \cup profile.masks : x[1] # "wire"
                                   /\ "case" \notin profile.constructs /\ "while" \notin profile.constructs
  /\ profile.advances \subseteq {None} \cup (StaticVars \X Expressions(StaticVars))
  /\ profile.nest \in Nat

LEMMA ValidScope ==
  ASSUME InitialIsConstant, Valid, NEW h, h.kind = Frame.kind
  PROVE  Usable(h) /\ Calls(Append(Lower, h)) = Depth
<1>1. TopFacts
  BY ValidTop
<1>2. /\ InScope(Lower, h) = InScope(Lower, Frame) /\ Calls(Append(Lower, h)) = Depth
      /\ Expressions(StaticVars) \subseteq InScope(Lower, Frame)
      /\ \A v \in StaticVars \cup LocalsTo(Depth) : Read(v) \in InScope(Lower, Frame)
  <2>1. Known(ctx, Lower, Frame, sem, profile) /\ Depth = Calls(Append(Lower, Frame))
    BY <1>1 DEF TopFacts
  <2> HIDE DEF Lower, Frame, Depth
  <2> QED
    BY <2>1, ScopeSame
<1>3. /\ profile.conds \cup profile.rvalues \cup profile.masks \subseteq Expressions(StaticVars)
      /\ profile.advances \subseteq {None} \cup (StaticVars \X Expressions(StaticVars))
      /\ profile.nest \in Nat
  BY <1>1, ProceduralAssumption DEF TopFacts
<1>4. MyLocal \subseteq LocalsTo(Depth)
  <2>1. Depth \in Nat
    BY <1>1 DEF TopFacts
  <2> QED
    BY <2>1 DEF MyLocal, LocalsTo
<1>5. Locals \subseteq InScope(Lower, Frame)
  BY <1>2, <1>4 DEF Locals
<1>6. Tests \cup Sources \cup profile.masks \subseteq InScope(Lower, h)
  BY <1>2, <1>3, <1>5 DEF Tests, Sources
<1>7. ASSUME profile.timing = "Initial"
      PROVE  /\ \A x \in Tests \cup profile.masks : x[1] # "wire"
             /\ "case" \notin profile.constructs /\ "while" \notin profile.constructs
  <2>1. \A x \in Locals : x[1] # "wire"
    BY DEF Locals, Read
  <2>2. /\ \A x \in profile.conds \cup profile.masks : x[1] # "wire"
        /\ "case" \notin profile.constructs /\ "while" \notin profile.constructs
    BY <1>1, <1>7 DEF TopFacts, InitialIsConstant
  <2> QED
    BY <2>1, <2>2 DEF Tests
<1> QED
  BY <1>2, <1>3, <1>4, <1>6, <1>7 DEF Usable

(* Before a statement of a list: the frame is h once the flag of the       *)
(* innermost guard has been taken care of.                                 *)
Ready(h) ==
  /\ Known(G.c, Lower, h, sem, profile) /\ Exact(G.c, sem) /\ Inner(h) /\ h.kind = Frame.kind
  /\ Here(G) = Append(Lower, h) /\ G.c.timing = profile.timing
  /\ Calls(Append(Lower, h)) = Depth /\ Depth \in Nat /\ Usable(h)
  /\ IsList(Lower) /\ Len(Lower) = Len(ctl) - 1 /\ Len(Lower) \in Nat

LEMMA ReachesReady ==
  ASSUME InitialIsConstant, Valid, Running, InList, ~Skipped(ctx)
  PROVE  Ready(WithSw(Frame, G.sw))
<1> DEFINE h == WithSw(Frame, G.sw)
<1>1. TopFacts
  BY ValidTop
<1>2. Known(ctx, Lower, Frame, sem, profile) /\ ctx.diag = {}
  BY <1>1 DEF TopFacts, Running
<1>3. Frame.kind = "select" => Frame.open = TRUE
  <2>1. ASSUME Frame.kind = "select" PROVE Frame.open \in BOOLEAN
    <3>1. SelectKind(ctx, Frame)
      BY <1>2, <2>1, KnownSelect
    <3> QED
      BY <3>1 DEF SelectKind
  <2> QED
    BY <2>1 DEF InList
<1>4. ~Closing(Frame)
  BY <1>3 DEF Closing
<1>5. GuardFacts(ctx, Lower, Frame, sem, profile, G)
  BY <1>2, <1>4, GuardedKeeps DEF G
<1>6. Alike(Frame, h)
  <2>1. PICK Y, z, V, B, F : Inv(ctx, Lower, Frame, sem, profile, Y, z, V, B, F)
    BY <1>2 DEF Known
  <2>2. FrameAt(ctx.timing, ctx.esc, B, Names(ctx.nflag, profile.nest), Frame, Y[Len(Lower) + 1], z, Len(Lower) + 1)
    BY <2>1, InvFacts
  <2> DEFINE f == Frame
             N == Names(ctx.nflag, profile.nest)
             d == Y[Len(Lower) + 1].d
             tm == ctx.timing
             sw == G.sw
  <2>3. FrameOK(f, d, N, tm)
    BY <2>2 DEF FrameAt
  <2> HIDE DEF f, N, d, tm, sw
  <2>4. Alike(f, WithSw(f, sw))
    BY <2>3 DEF FrameOK, LoopOK, WithSw, Alike
  <2> QED
    BY <2>4 DEF f, sw
<1>7. Known(G.c, Lower, h, sem, profile) /\ Exact(G.c, sem) /\ G.c.timing = profile.timing
  BY <1>1, <1>5 DEF GuardFacts, TopFacts
<1>8. h.kind = Frame.kind /\ Inner(h)
  <2>1. h.kind = Frame.kind /\ (Frame.kind = "select" => h.open = Frame.open)
    BY <1>6 DEF Alike
  <2>2. Frame.kind # "head"
    BY <1>1 DEF TopFacts
  <2> QED
    BY <1>3, <2>1, <2>2 DEF Inner
<1>9. Here(G) = Append(Lower, h)
  <2>1. Here(G) = [ctl EXCEPT ![Len(ctl)] = [Frame EXCEPT !.sw = G.sw]]
    <3>1. ctl[Len(ctl)] = Frame
      BY DEF Frame, Last
    <3> HIDE DEF Frame, G
    <3> QED
      BY <3>1 DEF Here
  <2>2. \A g : [ctl EXCEPT ![Len(ctl)] = g] = Append(Lower, g)
    BY <1>1 DEF TopFacts
  <2> HIDE DEF Frame, G, Lower
  <2> QED
    BY <2>1, <2>2 DEF WithSw
<1>10. Usable(h) /\ Calls(Append(Lower, h)) = Depth
  BY <1>8, ValidScope
<1> HIDE DEF h
<1>11. Depth \in Nat /\ IsList(Lower) /\ Len(Lower) = Len(ctl) - 1 /\ Len(Lower) \in Nat
  BY <1>1 DEF TopFacts
<1>12. Ready(h)
  BY <1>7, <1>8, <1>9, <1>10, <1>11 DEF Ready
<1> QED
  BY <1>12 DEF h

(* What every step keeps. *)
Keeps == OnStack(ctx', ctl', sem', profile) /\ ctx'.timing = profile.timing

(* A statement that leaves the stack as it is. *)
LEMMA SameStack ==
  ASSUME NEW h, Ready(h), NEW d, NEW s2, Known(d, Lower, h, s2, profile), d.timing = profile.timing,
         ctx' = d, ctl' = Here(G), sem' = s2
  PROVE  Keeps
<1>1. h.kind # "head" /\ ctl' = Append(Lower, h)
  BY DEF Ready, Inner
<1>2. OnStack(d, Append(Lower, h), s2, profile)
  BY <1>1, StackOf
<1> QED
  BY <1>1, <1>2 DEF Keeps

(* One that puts frame g on it. *)
LEMMA MoreStack ==
  ASSUME NEW h, Ready(h), NEW g, g.kind # "head", NEW d, NEW s2, Known(d, Append(Lower, h), g, s2, profile),
         d.timing = profile.timing, ctx' = d, ctl' = Append(Here(G), g), sem' = s2
  PROVE  Keeps
<1>1. ctl' = Append(Append(Lower, h), g)
  BY DEF Ready
<1>2. OnStack(d, Append(Append(Lower, h), g), s2, profile)
  BY StackOf
<1> QED
  BY <1>1, <1>2 DEF Keeps

(* The end of a construct. *)
LEMMA LessStack ==
  ASSUME Valid, Frame.kind # "root", NEW d, NEW s2, Known(d, Front(Lower), Last(Lower), s2, profile),
         d.timing = profile.timing, ctx' = d, ctl' = Front(ctl), sem' = s2
  PROVE  Keeps
<1>1. Known(ctx, Lower, Frame, sem, profile) /\ Len(Lower) >= 1
  BY ValidTop DEF TopFacts
<1>2. OnStack(d, Lower, s2, profile)
  BY <1>1, StackBelow
<1> QED
  BY <1>2 DEF Keeps, Lower

LEMMA AssignValid ==
  ASSUME InitialIsConstant, Valid, NEW v \in StaticVars \cup MyLocal, NEW x \in Sources,
         NEW m \in profile.masks, NEW b \in BOOLEAN, Assign(v, x, m, b)
  PROVE  Keeps
<1> DEFINE h == WithSw(Frame, G.sw)
           c == G.c
           d == Update(c, v, Eval(c, x), Eval(c, m), b)
           t == AssignVar(sem, v, x, m, b)
<1>1. Ready(h)
  BY ReachesReady DEF Assign, Reaches
<1>2. ctx' = d /\ ctl' = Here(G) /\ sem' = t /\ (b = TRUE \/ IsStatic(v))
  BY DEF Assign
<1> HIDE DEF h
<1>3. /\ Known(c, Lower, h, sem, profile) /\ Exact(c, sem) /\ ~Closing(h) /\ c.timing = profile.timing
      /\ Calls(Append(Lower, h)) = Depth /\ Usable(h)
  BY <1>1 DEF Ready, Inner, Closing
<1>4. v \in StaticVars \cup LocalsTo(Calls(Append(Lower, h))) /\ x \in InScope(Lower, h) /\ m \in InScope(Lower, h)
      /\ (c.timing = "Initial" => m[1] # "wire")
  BY <1>3 DEF Usable
<1>5. b = TRUE \/ v \in StaticVars
  <2>1. v \in LocalsTo(Depth) => ~IsStatic(v)
    BY NameFacts DEF LocalsTo
  <2> QED
    BY <1>2, <1>3, <1>4, <2>1
<1> HIDE DEF c
<1>6. Known(d, Lower, h, t, profile) /\ SameControl(c, d)
  BY <1>3, <1>4, <1>5, AssignStep
<1>7. d.timing = profile.timing
  BY <1>3, <1>6 DEF SameControl
<1> QED
  BY <1>1, <1>2, <1>6, <1>7, SameStack

LEMMA BeginBlockValid ==
  ASSUME InitialIsConstant, Valid, BeginBlock
  PROVE  Keeps
<1> DEFINE h == WithSw(Frame, G.sw)
           g == [kind |-> "block", sw |-> <<>>]
<1>1. Ready(h)
  BY ReachesReady DEF BeginBlock, Opens, Reaches
<1>2. ctx' = G.c /\ ctl' = Append(Here(G), g) /\ sem' = sem
  BY DEF BeginBlock
<1> HIDE DEF h
<1>3. Known(G.c, Lower, h, sem, profile) /\ Inner(h) /\ G.c.timing = profile.timing
  BY <1>1 DEF Ready
<1>4. Known(G.c, Append(Lower, h), g, sem, profile)
  BY <1>3, BlockKeeps
<1>5. g.kind # "head"
  OBVIOUS
<1> HIDE DEF g
<1> QED
  BY <1>1, <1>2, <1>3, <1>4, <1>5, MoreStack

LEMMA EndBlockValid ==
  ASSUME Valid, EndBlock
  PROVE  Keeps
<1> DEFINE d == Unwind(ctx, Frame.sw)
<1>1. ctx' = d /\ ctl' = Front(ctl) /\ sem' = sem /\ Frame.kind = "block"
  BY DEF EndBlock
<1>2. Known(ctx, Lower, Frame, sem, profile) /\ Len(Lower) >= 1 /\ ctx.timing = profile.timing
  BY <1>1, ValidTop DEF TopFacts
<1>3. Known(d, Front(Lower), Last(Lower), sem, profile) /\ d.timing = ctx.timing
  BY <1>1, <1>2, EndBlockKeeps
<1> HIDE DEF d
<1>4. Frame.kind # "root" /\ d.timing = profile.timing
  BY <1>1, <1>2, <1>3
<1> QED
  BY <1>1, <1>3, <1>4, LessStack

LEMMA BeginIfValid ==
  ASSUME InitialIsConstant, Valid, NEW x \in Tests, BeginIf(x)
  PROVE  Keeps
<1> DEFINE f == WithSw(Frame, G.sw)
           c == G.c
           h == OpenSwitch(c, Eval(c, x))
           e == EnterBranch(c, h, S1, FALSE)
           g == Select("if", e.h, TRUE)
           t == SelectItem(SelectBegin(sem, x), sem.live \cap Truth(sem, x))
<1>1. Ready(f)
  BY ReachesReady DEF BeginIf, Opens, Reaches
<1>2. ctx' = e.c /\ ctl' = Append(Here(G), g) /\ sem' = t /\ ~Eval(c, x).const
  BY DEF BeginIf
<1> HIDE DEF f
<1>3. /\ Known(c, Lower, f, sem, profile) /\ Inner(f) /\ Exact(c, sem) /\ c.timing = profile.timing
      /\ ~Closing(f) /\ Usable(f)
  BY <1>1 DEF Ready, Inner, Closing
<1>4. x \in InScope(Lower, f) /\ (profile.timing = "Initial" => x[1] # "wire")
  BY <1>3 DEF Usable
<1> HIDE DEF c
<1>5. c.timing # "Initial"
  <2>1. Evaluates(c, sem, x, Eval(c, x), c.cas.on)
    BY <1>3, <1>4, KnownEval
  <2> QED
    BY <1>2, <1>3, <1>4, <2>1 DEF Evaluates
<1>6. Known(e.c, Append(Lower, f), g, t, profile) /\ e.c.timing = c.timing
  <2>1. h = OpenSwitch(c, Eval(c, x)) /\ e = EnterBranch(c, h, S1, FALSE) /\ x \in InScope(Lower, f)
    BY <1>4
  <2>2. Known(c, Lower, f, sem, profile) /\ Inner(f) /\ Exact(c, sem) /\ c.timing # "Initial"
    BY <1>3, <1>5
  <2> HIDE DEF h, e
  <2>3. IfEntered(c, Lower, f, sem, profile, x, e)
    BY ONLY <2>1, <2>2, IfKeeps
  <2> QED
    BY <2>3 DEF IfEntered
<1>7. g.kind # "head" /\ e.c.timing = profile.timing
  BY <1>3, <1>6 DEF Select
<1> HIDE DEF g, e, t
<1> QED
  BY <1>1, <1>2, <1>6, <1>7, MoreStack

LEMMA IfKnownValid ==
  ASSUME InitialIsConstant, Valid, NEW x \in Tests, IfKnown(x)
  PROVE  Keeps
<1> DEFINE h == WithSw(Frame, G.sw)
           g == [kind |-> "block", sw |-> <<>>]
<1>1. Ready(h)
  BY ReachesReady DEF IfKnown, Opens, Reaches
<1>2. ctx' = G.c /\ sem' = sem /\ (ctl' = Append(Here(G), g) \/ ctl' = Here(G))
  BY DEF IfKnown
<1> HIDE DEF h
<1>3. Known(G.c, Lower, h, sem, profile) /\ Inner(h) /\ G.c.timing = profile.timing
  BY <1>1 DEF Ready
<1>4. Known(G.c, Append(Lower, h), g, sem, profile)
  BY <1>3, BlockKeeps
<1>5. g.kind # "head"
  OBVIOUS
<1> HIDE DEF g
<1> QED
  BY <1>1, <1>2, <1>3, <1>4, <1>5, MoreStack, SameStack

LEMMA BeginCaseValid ==
  ASSUME InitialIsConstant, Valid, NEW x \in Tests, BeginCase(x)
  PROVE  Keeps
<1> DEFINE f == WithSw(Frame, G.sw)
           c == G.c
           h == OpenSwitch(c, Eval(c, x))
           g == Select("case", h, FALSE)
           d == [c EXCEPT !.cas = h.parent]
           t == SelectBegin(sem, x)
<1>1. Ready(f) /\ "case" \in profile.constructs
  BY ReachesReady DEF BeginCase, Opens, Reaches
<1>2. ctx' = d /\ ctl' = Append(Here(G), g) /\ sem' = t
  BY DEF BeginCase
<1> HIDE DEF f
<1>3. /\ Known(c, Lower, f, sem, profile) /\ Inner(f) /\ Exact(c, sem) /\ c.timing = profile.timing
      /\ Usable(f)
  BY <1>1 DEF Ready
<1>4. x \in InScope(Lower, f) /\ c.timing # "Initial"
  BY <1>1, <1>3 DEF Usable
<1> HIDE DEF c
<1>5. Known(d, Append(Lower, f), g, t, profile)
  BY <1>3, <1>4, SwitchKeeps
<1>6. g.kind # "head" /\ d.timing = profile.timing
  <2>1. c \in Contexts(Names(c.nflag, profile.nest))
    BY <1>3, KnownType
  <2> HIDE DEF h
  <2>2. d.timing = c.timing
    BY <2>1 DEF Contexts
  <2> QED
    BY <1>3, <2>2 DEF Select
<1> HIDE DEF g, d, t
<1> QED
  BY <1>1, <1>2, <1>5, <1>6, MoreStack

(* The innermost frame is replaced. *)
LEMMA ChangedTop ==
  ASSUME NEW g, g.kind # "head", NEW d, NEW s2, Known(d, Lower, g, s2, profile), d.timing = profile.timing,
         ctx' = d, ctl' = Append(Lower, g), sem' = s2
  PROVE  Keeps
<1>1. OnStack(d, Append(Lower, g), s2, profile)
  BY StackOf
<1> QED
  BY <1>1 DEF Keeps

SelectKeys == {"kind", "stmt", "h", "open", "last", "sw"}

LEMMA SelectDomain ==
  ASSUME NEW c, NEW T, NEW f, NEW s, NEW p, Known(c, T, f, s, p), f.kind = "select"
  PROVE  DOMAIN f = SelectKeys
<1>1. PICK Y, z, V, B, F : Inv(c, T, f, s, p, Y, z, V, B, F)
  BY DEF Known
<1> DEFINE d == Y[Len(T) + 1].d
           N == Names(c.nflag, p.nest)
           tm == c.timing
<1>2. FrameOK(f, d, N, tm)
  BY <1>1, InvFacts DEF FrameAt
<1> HIDE DEF d, N, tm
<1> QED
  BY <1>2 DEF FrameOK, LoopOK, SelectKeys

(* A select whose helper and whose open branch are replaced. *)
LEMMA SelectReplaced ==
  ASSUME NEW f, f.kind = "select", DOMAIN f = SelectKeys, NEW h, NEW o \in BOOLEAN, NEW f2,
         \/ f2 = [f EXCEPT !.h = h, !.open = o, !.sw = <<>>]
         \/ f2 = [f EXCEPT !.h = h, !.open = o, !.last = TRUE, !.sw = <<>>]
  PROVE  SelectFrame(f2, h, o)
BY DEF SelectFrame, SelectKeys

LEMMA CaseItemValid ==
  ASSUME InitialIsConstant, Valid, NEW x \in Tests, CaseItem(x)
  PROVE  Keeps
<1> DEFINE f == Frame
           d == CloseBranch(ctx, f)
           cmp == Eval(d.c, x)
           e == EnterBranch(d.c, d.h, cmp, FALSE)
           dead == DeadBranch(d.h, cmp)
           f2 == [f EXCEPT !.h = IF dead THEN d.h ELSE e.h, !.open = ~dead, !.sw = <<>>]
           t == SelectItem(sem, ItemMatch(sem, x))
           r == IF dead THEN d.c ELSE e.c
<1>1. /\ Known(ctx, Lower, f, sem, profile) /\ ctx.timing = profile.timing
      /\ (\A g : [ctl EXCEPT ![Len(ctl)] = g] = Append(Lower, g)) /\ ctx.diag = {}
      /\ f.kind = "select" /\ x \in InScope(Lower, f)
  <2>1. Usable(f)
    BY ValidScope
  <2> QED
    BY <2>1, ValidTop DEF TopFacts, CaseItem, Running, Usable
<1>2. ctx' = r /\ ctl' = Append(Lower, f2) /\ sem' = t
  <2>1. ctl' = [ctl EXCEPT ![Len(ctl)] = f2]
    <3>1. ctl[Len(ctl)] = f
      BY DEF Frame, Last
    <3>2. ctl' = [ctl EXCEPT ![Len(ctl)] = [ctl[Len(ctl)] EXCEPT !.h = IF dead THEN d.h ELSE e.h, !.open = ~dead, !.sw = <<>>]]
      BY DEF CaseItem
    <3> HIDE DEF dead, d, e, f
    <3> QED
      BY <3>1, <3>2
  <2>2. ctx' = r /\ sem' = t
    BY DEF CaseItem
  <2> HIDE DEF f2, r, t
  <2> QED
    BY <1>1, <2>1, <2>2
<1>3. ItemTaken(ctx, Lower, sem, profile, x, d, cmp, e, f2)
  <2>1. d = CloseBranch(ctx, f) /\ cmp = Eval(d.c, x) /\ e = EnterBranch(d.c, d.h, cmp, FALSE)
    OBVIOUS
  <2> HIDE DEF f, d, cmp, e, f2
  <2> QED
    BY <1>1, <2>1, CaseItemKeeps
<1>4. dead \in BOOLEAN
  BY DEF DeadBranch
<1>5. DOMAIN f = SelectKeys
  BY <1>1, SelectDomain
<1>6. SelectFrame(f2, IF dead THEN d.h ELSE e.h, ~dead) /\ f2.kind # "head"
  <2> DEFINE o == ~dead
             k == IF dead THEN d.h ELSE e.h
  <2>1. o \in BOOLEAN /\ f2 = [f EXCEPT !.h = k, !.open = o, !.sw = <<>>]
    BY <1>4
  <2> HIDE DEF o, k, f2, f
  <2>2. SelectFrame(f2, k, o)
    BY <1>1, <1>5, <2>1, SelectReplaced, ZenonT(60)
  <2> QED
    BY <2>2 DEF SelectFrame, o, k
<1> HIDE DEF f2, e, d, cmp, f
<1>7. Known(r, Lower, f2, t, profile) /\ r.timing = profile.timing
  <2>1. CASE dead
    <3>1. SelectFrame(f2, d.h, FALSE) /\ r = d.c
      BY <1>6, <2>1
    <3> QED
      BY <1>1, <1>3, <2>1, <3>1 DEF ItemTaken
  <2>2. CASE ~dead
    <3>1. SelectFrame(f2, e.h, TRUE) /\ r = e.c
      BY <1>6, <2>2
    <3> QED
      BY <1>1, <1>3, <2>2, <3>1 DEF ItemTaken
  <2> QED
    BY <2>1, <2>2
<1> HIDE DEF r, t
<1> QED
  BY <1>2, <1>6, <1>7, ChangedTop

LEMMA DefaultBranchValid ==
  ASSUME Valid, DefaultBranch
  PROVE  Keeps
<1> DEFINE f == Frame
           d == CloseBranch(ctx, f)
           e == EnterBranch(d.c, d.h, S1, TRUE)
           f2 == [f EXCEPT !.h = e.h, !.open = TRUE, !.last = TRUE, !.sw = <<>>]
           t == SelectItem(sem, TopFrame(sem).rest)
           r == e.c
<1>1. /\ Known(ctx, Lower, f, sem, profile) /\ ctx.timing = profile.timing
      /\ (\A g : [ctl EXCEPT ![Len(ctl)] = g] = Append(Lower, g)) /\ ctx.diag = {}
      /\ f.kind = "select"
  BY ValidTop DEF TopFacts, DefaultBranch, Running
<1>2. ctx' = r /\ ctl' = Append(Lower, f2) /\ sem' = t
  <2>1. ctl' = [ctl EXCEPT ![Len(ctl)] = f2]
    <3>1. ctl[Len(ctl)] = f
      BY DEF Frame, Last
    <3>2. ctl' = [ctl EXCEPT ![Len(ctl)] = [ctl[Len(ctl)] EXCEPT !.h = e.h, !.open = TRUE, !.last = TRUE, !.sw = <<>>]]
      BY DEF DefaultBranch
    <3> HIDE DEF d, e, f
    <3> QED
      BY <3>1, <3>2
  <2>2. ctx' = r /\ sem' = t
    BY DEF DefaultBranch
  <2> HIDE DEF f2, r, t
  <2> QED
    BY <1>1, <2>1, <2>2
<1>3. SelectFrame(f2, e.h, TRUE) /\ f2.kind # "head"
  <2>1. DOMAIN f = SelectKeys
    BY <1>1, SelectDomain
  <2> DEFINE k == e.h
  <2>2. f2 = [f EXCEPT !.h = k, !.open = TRUE, !.last = TRUE, !.sw = <<>>]
    OBVIOUS
  <2> HIDE DEF k, f2, f
  <2>3. SelectFrame(f2, k, TRUE)
    BY <1>1, <2>1, <2>2, SelectReplaced
  <2> QED
    BY <2>3 DEF SelectFrame, k
<1>4. Known(e.c, Lower, f2, t, profile) /\ e.c.timing = ctx.timing
  <2>1. d = CloseBranch(ctx, f) /\ e = EnterBranch(d.c, d.h, S1, TRUE)
    OBVIOUS
  <2> HIDE DEF f, d, e, f2, t
  <2> QED
    <3>1. DefaultTaken(ctx, Lower, sem, profile, e, f2)
      BY <1>1, <1>3, <2>1, DefaultKeeps
    <3> QED
      BY <3>1 DEF DefaultTaken, t
<1>5. r.timing = profile.timing
  BY <1>1, <1>4
<1> HIDE DEF e, t, f2
<1> QED
  BY <1>2, <1>3, <1>4, <1>5, ChangedTop

LEMMA EndSelectValid ==
  ASSUME Valid, EndSelect
  PROVE  Keeps
<1> DEFINE f == Frame
           d == CloseBranch(ctx, f)
           r == Descend(Finish(d.c, d.h))
           t == SelectEnd(sem)
<1>1. /\ Known(ctx, Lower, f, sem, profile) /\ ctx.timing = profile.timing /\ ctx.diag = {}
      /\ f.kind = "select" /\ Len(Lower) >= 1
  BY ValidTop DEF TopFacts, EndSelect, Running
<1>2. ctx' = r /\ ctl' = Front(ctl) /\ sem' = t
  BY DEF EndSelect
<1>3. Known(r, Front(Lower), Last(Lower), t, profile) /\ r.timing = ctx.timing
  <2>1. d = CloseBranch(ctx, f)
    OBVIOUS
  <2> HIDE DEF f, d
  <2> QED
    BY <1>1, <2>1, EndSelectKeeps
<1>4. Frame.kind # "root" /\ r.timing = profile.timing
  BY <1>1, <1>3
<1> HIDE DEF r, t
<1> QED
  BY <1>2, <1>3, <1>4, LessStack

LEMMA BeginLoopValid ==
  ASSUME InitialIsConstant, Valid, NEW stmt \in profile.constructs, NEW x \in Tests,
         NEW step \in profile.advances, BeginLoop(stmt, x, step)
  PROVE  Keeps
<1> DEFINE h == WithSw(Frame, G.sw)
           k == G.c
           c == EnterUnrolling(Register(k, "Loop"))
           v == Flag(k.nflag)
           f == [kind |-> "loop", stmt |-> stmt, cond |-> x, step |-> step,
                 flag |-> DisableFlag(c), lsw |-> <<>>, sw |-> <<>>]
           l == [kind |-> "loop", stmt |-> stmt, cond |-> x, step |-> step,
                 flag |-> v, lsw |-> <<>>, sw |-> <<>>]
           r == LoopHead([c |-> c, sw |-> <<>>], f)
           s == IF stmt = "foreach" THEN LoopBegin(sem) ELSE LoopTest(LoopBegin(sem), x)
           U == Append(Lower, h)
<1>1. Ready(h)
  BY ReachesReady DEF BeginLoop, Opens, Reaches
<1>2. /\ stmt \in {"while", "for", "foreach"} /\ (step # None => stmt = "for")
      /\ IF r.go THEN EnterBody(Here(G), f, r.g) ELSE LeaveLoop(Here(G), r.g)
      /\ sem' = IF r.go THEN s ELSE LoopEnd(s)
  BY DEF BeginLoop
<1> HIDE DEF h
<1>3. /\ Known(k, Lower, h, sem, profile) /\ Inner(h) /\ Exact(k, sem) /\ k.timing = profile.timing
      /\ Usable(h) /\ Calls(U) = Depth /\ Here(G) = U /\ Depth \in Nat /\ IsList(Lower) /\ Len(Lower) \in Nat
  BY <1>1 DEF Ready
<1>4. /\ x \in Expressions(StaticVars \cup LocalsTo(Calls(U)))
      /\ step \in {None} \cup (StaticVars \X Expressions(StaticVars))
      /\ k.timing = "Initial" => x[1] # "wire" /\ stmt # "while"
  BY <1>3 DEF Usable, InScope
<1> HIDE DEF k, U
<1>5. LoopOK(l, Calls(U), k.timing) /\ l.flag = v /\ l.stmt = stmt /\ l.cond = x
  <2> DEFINE d == Calls(U)
             tm == k.timing
  <2>1. /\ x \in Expressions(StaticVars \cup LocalsTo(d))
        /\ step \in {None} \cup (StaticVars \X Expressions(StaticVars))
        /\ tm = "Initial" => x[1] # "wire" /\ stmt # "while"
    BY <1>4
  <2> HIDE DEF d, tm, v
  <2>2. LoopOK(l, d, tm) /\ l.flag = v /\ l.stmt = stmt /\ l.cond = x
    BY <1>2, <2>1 DEF LoopOK
  <2> QED
    BY <2>2 DEF d, tm
<1>6. DisableFlag(c) = v
  <2>1. c = EnterUnrolling(Register(k, "Loop")) /\ LoopOK(l, Calls(Append(Lower, h)), k.timing) /\ l.flag = Flag(k.nflag)
    BY <1>5 DEF U
  <2>2. Known(k, Lower, h, sem, profile) /\ Inner(h) /\ Exact(k, sem)
    BY <1>3
  <2> HIDE DEF c, l
  <2>3. DisableFlag(c) = l.flag
    BY ONLY <2>1, <2>2, PushLoop
  <2> QED
    BY <1>5, <2>3
<1>7. f = l
  BY <1>6
<1>8. c = EnterUnrolling(Register(k, "Loop")) /\ r = LoopHead([c |-> c, sw |-> <<>>], l)
      /\ s = IF l.stmt = "foreach" THEN LoopBegin(sem) ELSE LoopTest(LoopBegin(sem), l.cond)
  BY <1>5, <1>7
<1>9. /\ r.go => ctx' = Register(r.g.c, "LoopBody") /\ ctl' = Append(U, [l EXCEPT !.lsw = r.g.sw, !.sw = <<>>])
                 /\ sem' = s
      /\ ~r.go => ctx' = Unregister(Descend(Unwind(ExitUnrolling(r.g.c), r.g.sw))) /\ ctl' = U
                  /\ sem' = LoopEnd(s)
  <2> HIDE DEF r, s, f, l
  <2> QED
    BY <1>2, <1>3, <1>7 DEF EnterBody, LeaveLoop
<1> HIDE DEF c, f, l, r, s
<1>10. Turned(r, U, l, s, profile, k.timing, TurnTo(r))
  <2>1. LoopOK(l, Calls(Append(Lower, h)), k.timing) /\ l.flag = Flag(k.nflag)
    BY <1>5 DEF U
  <2>2. Known(k, Lower, h, sem, profile) /\ Inner(h) /\ Exact(k, sem)
    BY <1>3
  <2>3. Turned(r, Append(Lower, h), l, s, profile, k.timing, TurnTo(r))
    BY ONLY <2>1, <2>2, <1>8, BeginLoopKeeps
  <2> QED
    BY <2>3 DEF U
<1>11. IsList(U) /\ Len(U) >= 1 /\ Front(U) = Lower /\ Last(U) = h
  BY <1>3, ListFacts DEF U
<1>12. r.go \in BOOLEAN
  BY <1>10 DEF Turned
<1>13. CASE r.go = TRUE
  <2> DEFINE d == TurnTo(r)
             g == [l EXCEPT !.lsw = r.g.sw, !.sw = <<>>]
  <2>1. Known(d, U, g, s, profile) /\ d.timing = profile.timing
    BY <1>3, <1>10, <1>13 DEF Turned
  <2>2. ctx' = d /\ ctl' = Append(U, g) /\ sem' = s
    BY <1>9, <1>13 DEF TurnTo
  <2>3. g.kind # "head"
    <3> DEFINE m == r.g.sw
    <3> HIDE DEF m
    <3> QED
      BY <1>5 DEF LoopOK
  <2> HIDE DEF d, g
  <2>4. OnStack(d, Append(U, g), s, profile)
    BY <2>1, <2>3, StackOf
  <2> QED
    BY <2>1, <2>2, <2>4 DEF Keeps
<1>14. CASE r.go = FALSE
  <2> DEFINE d == TurnTo(r)
             e == LoopEnd(s)
  <2>1. Known(d, Lower, h, e, profile) /\ d.timing = profile.timing
    BY <1>3, <1>10, <1>11, <1>14 DEF Turned
  <2>2. ctx' = d /\ ctl' = Here(G) /\ sem' = e
    BY <1>3, <1>9, <1>14 DEF TurnTo
  <2> HIDE DEF d, e
  <2> QED
    BY <1>1, <2>1, <2>2, SameStack
<1> QED
  BY <1>12, <1>13, <1>14

LEMMA EndIterationValid ==
  ASSUME Valid, NEW last \in BOOLEAN, EndIteration(last)
  PROVE  Keeps
<1> DEFINE f == Frame
           c == Unregister(Unwind(ctx, f.sw))
           r == Advance([c |-> c, sw |-> f.lsw], f, last)
           i == IterationEnd(sem)
           s == IF f.stmt = "foreach" THEN i ELSE LoopTest(SemStep(i, f), f.cond)
<1>1. /\ Known(ctx, Lower, f, sem, profile) /\ ctx.timing = profile.timing /\ ctx.diag = {}
      /\ f.kind = "loop"
  BY ValidTop DEF TopFacts, EndIteration, Running
<1>2. /\ r.go => ctx' = Register(r.g.c, "LoopBody")
                 /\ ctl' = Append(Lower, [f EXCEPT !.lsw = r.g.sw, !.sw = <<>>]) /\ sem' = s
      /\ ~r.go => ctx' = Unregister(Descend(Unwind(ExitUnrolling(r.g.c), r.g.sw)))
                  /\ ctl' = Front(ctl) /\ sem' = LoopEnd(s)
  <2>1. IF r.go THEN EnterBody(Front(ctl), f, r.g) ELSE LeaveLoop(Front(ctl), r.g)
    BY DEF EndIteration
  <2>2. sem' = IF r.go THEN s ELSE LoopEnd(s)
    BY DEF EndIteration
  <2> HIDE DEF r, s, f
  <2> QED
    BY <2>1, <2>2 DEF EnterBody, LeaveLoop, Lower
<1>3. /\ r = Advance([c |-> Unregister(Unwind(ctx, f.sw)), sw |-> f.lsw], f, last) /\ i = IterationEnd(sem)
      /\ s = IF f.stmt = "foreach" THEN i ELSE LoopTest(SemStep(i, f), f.cond)
  OBVIOUS
<1> HIDE DEF r, s, i, c
<1>4. Turned(r, Lower, f, s, profile, ctx.timing, TurnTo(r))
  <2> HIDE DEF f
  <2> QED
    BY ONLY <1>1, <1>3, EndIterationKeeps
<1>5. f.kind = "loop" /\ Frame.kind # "root"
  BY <1>1
<1> HIDE DEF f
<1>6. r.go \in BOOLEAN
  BY <1>4 DEF Turned
<1>7. CASE r.go = TRUE
  <2> DEFINE d == TurnTo(r)
             g == [f EXCEPT !.lsw = r.g.sw, !.sw = <<>>]
  <2>1. Known(d, Lower, g, s, profile) /\ d.timing = profile.timing
    BY <1>1, <1>4, <1>7 DEF Turned
  <2>2. ctx' = d /\ ctl' = Append(Lower, g) /\ sem' = s
    BY <1>2, <1>7 DEF TurnTo
  <2>3. g.kind # "head"
    <3> DEFINE m == r.g.sw
    <3>1. DOMAIN f = {"kind", "stmt", "cond", "step", "flag", "lsw", "sw"}
      <4>1. PICK Y, z, V, B, F : Inv(ctx, Lower, f, sem, profile, Y, z, V, B, F)
        BY <1>1 DEF Known
      <4> DEFINE q == Y[Len(Lower) + 1].d
                 N == Names(ctx.nflag, profile.nest)
                 tm == ctx.timing
      <4>2. FrameOK(f, q, N, tm)
        BY <4>1, InvFacts DEF FrameAt
      <4> HIDE DEF q, N, tm
      <4> QED
        BY <1>5, <4>2 DEF FrameOK, LoopOK
    <3> HIDE DEF m
    <3> QED
      BY <1>5, <3>1
  <2> HIDE DEF d, g
  <2>4. OnStack(d, Append(Lower, g), s, profile)
    BY <2>1, <2>3, StackOf
  <2> QED
    BY <2>1, <2>2, <2>4 DEF Keeps
<1>8. CASE r.go = FALSE
  <2> DEFINE d == TurnTo(r)
             e == LoopEnd(s)
  <2>1. Known(d, Front(Lower), Last(Lower), e, profile) /\ d.timing = profile.timing
    BY <1>1, <1>4, <1>8 DEF Turned
  <2>2. ctx' = d /\ ctl' = Front(ctl) /\ sem' = e
    BY <1>2, <1>8 DEF TurnTo
  <2> HIDE DEF d, e
  <2> QED
    BY <1>5, <2>1, <2>2, LessStack
<1> QED
  BY <1>6, <1>7, <1>8

LEMMA BeginCallValid ==
  ASSUME InitialIsConstant, Valid, NEW x \in Sources, NEW target \in StaticVars \cup {None},
         BeginCall(x, target)
  PROVE  Keeps
<1> DEFINE h == WithSw(Frame, G.sw)
           c == G.c
           n == Depth
           v == Local(n + 1)
           a == SimpleAssign(SimpleAssign(c, v, S0), v, Eval(c, x))
           d == Register(a, "FunctionBody")
           g == CallFrame(target)
           t == CallBegin(sem, v, x)
<1>1. Ready(h)
  BY ReachesReady DEF BeginCall, Opens, Reaches
<1>2. ctx' = d /\ ctl' = Append(Here(G), g) /\ sem' = t /\ Len(ctl) <= profile.nest
  BY DEF BeginCall, CallFrame, Opens
<1> HIDE DEF h
<1>3. /\ Known(c, Lower, h, sem, profile) /\ Inner(h) /\ Exact(c, sem) /\ c.timing = profile.timing
      /\ Usable(h) /\ n = Calls(Append(Lower, h)) /\ n \in Nat /\ Len(Lower) = Len(ctl) - 1 /\ Len(Lower) \in Nat
  BY <1>1 DEF Ready
<1>4. x \in InScope(Lower, h) /\ profile.nest \in Nat
  BY <1>3 DEF Usable
<1>5. Len(Lower) + 1 <= profile.nest
  <2> DEFINE k == Len(ctl)
             m == Len(Lower)
  <2>1. m = k - 1 /\ m \in Nat /\ k <= profile.nest
    BY <1>2, <1>3
  <2>2. k \in Nat
    BY ValidTop DEF TopFacts
  <2> HIDE DEF k, m
  <2>3. m + 1 <= profile.nest
    BY <1>4, <2>1, <2>2
  <2> QED
    BY <2>3 DEF m
<1>6. v = Local(n + 1) /\ a = SimpleAssign(SimpleAssign(c, v, S0), v, Eval(c, x)) /\ d = Register(a, "FunctionBody")
  OBVIOUS
<1> HIDE DEF a, v, d, n, c
<1>7. Known(d, Append(Lower, h), CallFrame(target), CallBegin(sem, v, x), profile) /\ d.timing = c.timing
  BY <1>3, <1>4, <1>5, <1>6, BeginCallKeeps
<1>8. g.kind # "head"
  BY DEF CallFrame
<1>9. Known(d, Append(Lower, h), g, t, profile) /\ d.timing = profile.timing
  BY <1>3, <1>7
<1> HIDE DEF g, t
<1> QED
  BY <1>1, <1>2, <1>8, <1>9, MoreStack

(* What a call returns to is a module-level variable, or nothing. *)
LEMMA CallTarget ==
  ASSUME NEW c, NEW T, NEW f, NEW s, NEW p, Known(c, T, f, s, p), f.kind = "call"
  PROVE  f.target \in StaticVars \cup {None}
<1>1. PICK Y, z, V, B, F : Inv(c, T, f, s, p, Y, z, V, B, F)
  BY DEF Known
<1> DEFINE q == Y[Len(T) + 1].d
           N == Names(c.nflag, p.nest)
           tm == c.timing
<1>2. FrameOK(f, q, N, tm)
  BY <1>1, InvFacts DEF FrameAt
<1> HIDE DEF q, N, tm
<1> QED
  BY <1>2 DEF FrameOK, LoopOK

LEMMA EndCallValid ==
  ASSUME Valid, EndCall
  PROVE  Keeps
<1> DEFINE f == Frame
           target == f.target
           v == Local(Depth)
           d == Unregister(Unwind(ctx, f.sw))
           e == IF target = None THEN d ELSE Update(d, target, Substitute(d, v), S1, TRUE)
           t == IF target = None THEN CallEnd(sem)
                ELSE AssignVar(CallEnd(sem), target, Read(v), Const(TRUE), TRUE)
<1>1. /\ Known(ctx, Lower, f, sem, profile) /\ ctx.timing = profile.timing /\ ctx.diag = {}
      /\ f.kind = "call" /\ Len(Lower) >= 1 /\ Depth = Calls(Append(Lower, f))
  BY ValidTop DEF TopFacts, EndCall, Running
<1>2. ctx' = e /\ ctl' = Front(ctl) /\ sem' = t
  BY DEF EndCall
<1>3. target \in StaticVars \cup {None}
  BY <1>1, CallTarget
<1>4. v = Local(Calls(Append(Lower, f)))
  BY <1>1
<1>5. /\ d = Unregister(Unwind(ctx, f.sw))
      /\ CopiedOut(d, sem, v, target, e, t)
  BY DEF CopiedOut
<1>6. Frame.kind # "root"
  BY <1>1
<1> HIDE DEF e, t, d, v, target, f
<1>7. Known(e, Front(Lower), Last(Lower), t, profile) /\ e.timing = ctx.timing
  BY ONLY <1>1, <1>3, <1>4, <1>5, EndCallKeeps
<1>8. e.timing = profile.timing
  BY <1>1, <1>7
<1> QED
  BY <1>2, <1>6, <1>7, <1>8, LessStack

(* The innermost frame of some kinds, where there is one. *)
LEMMA InnermostFrame ==
  ASSUME NEW t, IsList(t), NEW K, NEW i \in 1..Len(t), t[i].kind \in K
  PROVE  \E j \in i..Len(t) : t[j].kind \in K /\ \A k \in (j + 1)..Len(t) : t[k].kind \notin K
<1> DEFINE n == Len(t)
           S == {j \in i..n : t[j].kind \in K}
           m == Max(S)
<1>1. n \in Nat
  BY ListFacts
<1> HIDE DEF n
<1>2. S \subseteq 1..n /\ i \in S
  BY <1>1 DEF n
<1>3. m \in S /\ \A j \in S : j <= m
  <2> HIDE DEF S
  <2> QED
    BY <1>1, <1>2, MaxOfRange
<1> HIDE DEF m
<1>4. \A k \in (m + 1)..n : t[k].kind \notin K
  <2> SUFFICES ASSUME NEW k \in (m + 1)..n, t[k].kind \in K
               PROVE  FALSE
    OBVIOUS
  <2>1. k \in i..n /\ k > m
    BY <1>1, <1>2, <1>3
  <2>2. k \in S
    BY <2>1
  <2> QED
    BY <1>1, <1>2, <1>3, <2>1, <2>2
<1> QED
  BY <1>3, <1>4 DEF n

(* The stack has the kinds it had before the flag was taken care of. *)
LEMMA ReadyKinds ==
  ASSUME Valid, NEW h, Ready(h)
  PROVE  /\ Len(Append(Lower, h)) = Len(ctl) /\ Len(ctl) \in Nat /\ IsList(Append(Lower, h))
         /\ DOMAIN ctl = 1..Len(ctl)
         /\ \A i \in 1..Len(ctl) : Append(Lower, h)[i].kind = ctl[i].kind
<1> DEFINE T == Lower
           f == Frame
<1>1. IsList(T) /\ ctl = Append(T, f) /\ h.kind = f.kind
  BY ValidTop DEF TopFacts, Ready
<1> HIDE DEF T, f
<1>2. Append(T, h)[Len(T) + 1] = h /\ Append(T, f)[Len(T) + 1] = f
  BY <1>1, ListFacts
<1>3. \A j \in 1..Len(T) : Append(T, h)[j] = T[j] /\ Append(T, f)[j] = T[j]
  BY <1>1, ListFacts
<1>4. /\ Len(T) \in Nat /\ Len(Append(T, h)) = Len(T) + 1 /\ Len(Append(T, f)) = Len(T) + 1
      /\ IsList(Append(T, h)) /\ DOMAIN Append(T, f) = 1..(Len(T) + 1)
  BY <1>1, ListFacts
<1>5. \A j \in 1..(Len(T) + 1) : Append(T, h)[j].kind = Append(T, f)[j].kind
  <2> TAKE j \in 1..(Len(T) + 1)
  <2>1. j \in 1..Len(T) \/ j = Len(T) + 1
    BY <1>4
  <2> QED
    BY <1>1, <1>2, <1>3, <2>1
<1> QED
  BY <1>1, <1>4, <1>5 DEF T

LEMMA BreakOrContinueValid ==
  ASSUME InitialIsConstant, Valid, NEW stmt \in profile.constructs, BreakOrContinue(stmt)
  PROVE  Keeps
<1> DEFINE h == WithSw(Frame, G.sw)
           c == G.c
           d == SignalEscape(c, GuardKind[stmt])
           s2 == Escape(sem, stmt)
           t == Append(Lower, h)
<1>1. Ready(h)
  BY ReachesReady DEF BreakOrContinue, Reaches
<1>2. ctx' = d /\ ctl' = Here(G) /\ sem' = s2 /\ stmt \in {"break", "continue"} /\ InLoop
  BY DEF BreakOrContinue
<1> HIDE DEF h
<1>3. Known(c, Lower, h, sem, profile) /\ Inner(h) /\ Exact(c, sem) /\ c.timing = profile.timing
  BY <1>1 DEF Ready
<1>4. /\ Len(t) = Len(ctl) /\ Len(ctl) \in Nat /\ IsList(t) /\ DOMAIN ctl = 1..Len(ctl)
      /\ \A i \in 1..Len(ctl) : t[i].kind = ctl[i].kind
  BY <1>1, ReadyKinds
<1> HIDE DEF t
<1>5. PICK i \in 1..Len(t) : t[i].kind = "loop" /\ \A j \in i..Len(t) : t[j].kind # "call"
  <2>1. PICK i \in DOMAIN ctl : ctl[i].kind = "loop" /\ \A j \in i..Len(ctl) : ctl[j].kind # "call"
    BY <1>2 DEF InLoop
  <2>2. i \in 1..Len(ctl) /\ i..Len(ctl) \subseteq 1..Len(ctl)
    BY <1>4, <2>1
  <2>3. \A j \in i..Len(ctl) : t[j].kind = ctl[j].kind
    BY <1>4, <2>2
  <2>4. t[i].kind = "loop"
    BY <1>4, <2>1, <2>2
  <2> QED
    BY <1>4, <2>1, <2>2, <2>3, <2>4
<1>6. PICK j \in i..Len(t) : t[j].kind \in {"loop"} /\ \A k \in (j + 1)..Len(t) : t[k].kind \notin {"loop"}
  <2>1. t[i].kind \in {"loop"}
    BY <1>5
  <2> QED
    BY <1>4, <1>5, <2>1, InnermostFrame
<1>7. Leaves(t, stmt, j)
  <2>1. j \in 1..Len(t) /\ (j + 1)..Len(t) \subseteq i..Len(t)
    BY <1>4, <1>5, <1>6
  <2> QED
    BY <1>2, <1>5, <1>6, <2>1 DEF Leaves
<1>8. Leaves(Append(Lower, h), stmt, j) /\ stmt \in {"break", "continue", "return"}
  BY <1>2, <1>7 DEF t
<1>9. d = SignalEscape(c, GuardKind[stmt]) /\ s2 = Escape(sem, stmt)
  OBVIOUS
<1> HIDE DEF c, d, s2
<1>10. Known(d, Lower, h, s2, profile) /\ d.timing = c.timing
  BY <1>3, <1>8, <1>9, EscapeKeeps
<1>11. d.timing = profile.timing
  BY <1>3, <1>10
<1> QED
  BY <1>1, <1>2, <1>10, <1>11, SameStack

LEMMA ReturnValid ==
  ASSUME InitialIsConstant, Valid, NEW x \in Sources, Return(x)
  PROVE  Keeps
<1> DEFINE h == WithSw(Frame, G.sw)
           c == G.c
           v == Local(Depth)
           r == Eval(c, x)
           a == SimpleAssign(c, v, r)
           s1 == AssignVar(sem, v, x, Const(TRUE), TRUE)
           d == SignalEscape(a, GuardKind["return"])
           s2 == Escape(s1, "return")
           t == Append(Lower, h)
<1>1. Ready(h)
  BY ReachesReady DEF Return, Reaches
<1>2. ctx' = d /\ ctl' = Here(G) /\ sem' = s2 /\ Depth > 0
  BY DEF Return, GuardKind
<1> HIDE DEF h
<1>3. /\ Known(c, Lower, h, sem, profile) /\ Inner(h) /\ Exact(c, sem) /\ c.timing = profile.timing
      /\ Usable(h) /\ Calls(t) = Depth /\ Depth \in Nat /\ ~Closing(h)
  BY <1>1 DEF Ready, Inner, Closing
<1>4. x \in InScope(Lower, h)
  BY <1>3 DEF Usable
<1>5. Len(t) = Len(ctl) /\ Len(ctl) \in Nat /\ IsList(t) /\ DOMAIN t = 1..Len(t)
  <2>1. IsList(Lower)
    BY <1>1 DEF Ready
  <2>2. DOMAIN t = 1..(Len(Lower) + 1) /\ Len(t) = Len(Lower) + 1
    BY <2>1, ListFacts
  <2> QED
    BY <1>1, <2>2, ReadyKinds
<1>6. v \in StaticVars \cup LocalsTo(Calls(Append(Lower, h)))
  BY <1>2, <1>3 DEF LocalsTo
<1> HIDE DEF t
<1>7. PICK i \in 1..Len(t) : t[i].kind \in {"call"}
  <2>1. ASSUME \A i \in 1..Len(t) : t[i].kind # "call" PROVE FALSE
    <3>1. {i \in DOMAIN t : t[i].kind = "call"} = {}
      BY <1>5, <2>1
    <3>2. Calls(t) = 0
      BY <3>1, FS_EmptySet DEF Calls
    <3> QED
      BY <1>2, <1>3, <3>2
  <2> QED
    BY <2>1
<1>8. PICK j \in i..Len(t) : t[j].kind \in {"call"} /\ \A k \in (j + 1)..Len(t) : t[k].kind \notin {"call"}
  BY <1>5, <1>7, InnermostFrame
<1>9. Leaves(t, "return", j)
  BY <1>5, <1>7, <1>8 DEF Leaves
<1>10. Leaves(Append(Lower, h), "return", j)
  BY <1>9 DEF t
<1>11. /\ r = Eval(c, x) /\ a = SimpleAssign(c, v, r) /\ s1 = AssignVar(sem, v, x, Const(TRUE), TRUE)
       /\ d = SignalEscape(a, GuardKind["return"]) /\ s2 = Escape(s1, "return")
  OBVIOUS
<1> HIDE DEF c, v, r, a, s1, d, s2
<1>12. r \in Signals /\ Means(c, sem, r, x)
  <2>1. Evaluates(c, sem, x, r, c.cas.on)
    BY <1>3, <1>4, <1>11, KnownEval
  <2> QED
    BY <1>3, <2>1 DEF Evaluates, Means, Exact
<1>13. Known(a, Lower, h, s1, profile) /\ Exact(a, s1) /\ SameControl(c, a)
  <2>1. LET dd == SimpleAssign(c, v, r)
            tt == AssignVar(sem, v, x, Const(TRUE), TRUE)
        IN  Known(dd, Lower, h, tt, profile) /\ Exact(dd, tt) /\ SameControl(c, dd)
    BY <1>3, <1>6, <1>12, SimpleStep
  <2> QED
    BY <1>11, <2>1
<1>14. Known(d, Lower, h, s2, profile) /\ d.timing = a.timing
  <2> DEFINE stmt == "return"
  <2>1. /\ d = SignalEscape(a, GuardKind[stmt]) /\ s2 = Escape(s1, stmt) /\ Leaves(Append(Lower, h), stmt, j)
        /\ stmt \in {"break", "continue", "return"}
    BY <1>10, <1>11
  <2> HIDE DEF stmt
  <2>2. Known(a, Lower, h, s1, profile) /\ Inner(h) /\ Exact(a, s1)
    BY <1>3, <1>13
  <2> QED
    BY ONLY <2>1, <2>2, EscapeKeeps
<1>15. d.timing = profile.timing
  BY <1>3, <1>13, <1>14 DEF SameControl
<1> QED
  BY <1>1, <1>2, <1>14, <1>15, SameStack

-----------------------------------------------------------------------------
(* The initial state.                                                      *)

RootFrame == [kind |-> "root", sw |-> <<>>]
StartValues(tm) == [v \in StaticVars |-> IF tm = "Initial" THEN {} ELSE WireOn[v[2]]]

(* What ContextInit says of its fields. *)
Fresh(c, tm) ==
  /\ c.timing = tm /\ c.vis = NoBits /\ c.rev = NoBits /\ c.ini = [v \in StaticVars |-> S0]
  /\ c.cas.on = Env /\ c.esc = <<>> /\ c.nflag = 0 /\ c.blocking = {} /\ c.nonblocking = {}
  /\ c.unrolling = 0 /\ c.exhausted = FALSE /\ c.diag = {} /\ c.broken = FALSE

LEMMA FreshContext ==
  ASSUME NEW tm \in {"Implicit", "Initial"}, NEW N, StaticVars \subseteq N
  PROVE  ContextInit(tm) \in Contexts(N) /\ Fresh(ContextInit(tm), tm)
<1> DEFINE c == ContextInit(tm)
           i == [v \in StaticVars |-> S0]
           k == [path |-> <<1>>, on |-> Env, nsw |-> 0]
<1>1. c = [timing |-> tm, vis |-> NoBits, rev |-> NoBits, ini |-> i, cas |-> k, log |-> <<>>,
           esc |-> <<>>, nflag |-> 0, blocking |-> {}, nonblocking |-> {},
           unrolling |-> 0, counter |-> 0, exhausted |-> FALSE, diag |-> {}, broken |-> FALSE]
  BY DEF ContextInit
<1>2. NoBits \in Stores(N) /\ NoBits \in Reverts(N)
  <2>1. NoBits \in [{} -> Signals] /\ NoBits \in [{} -> Signals \cup {Sm}]
    BY DEF NoBits
  <2> QED
    BY <2>1 DEF Stores, Reverts
<1>3. i \in Inits(N)
  <2>1. i \in [StaticVars -> {S0, S1}]
    OBVIOUS
  <2> QED
    BY <2>1 DEF Inits
<1>4. k \in Cases
  BY DEF Cases
<1>5. k.on = Env
  OBVIOUS
<1>6. <<>> \in Seq(Actions) /\ <<>> \in Seq(Guards) /\ {} \in SUBSET StaticVars /\ {} \in SUBSET Diags
  OBVIOUS
<1> HIDE DEF c, i, k
<1>7. c \in Contexts(N)
  BY <1>1, <1>2, <1>3, <1>4, <1>6 DEF Contexts
<1>8. Fresh(c, tm)
  BY <1>1, <1>5 DEF Fresh, i
<1> QED
  BY <1>7, <1>8 DEF c

(* Before the first statement every variable stands for its own wire, or   *)
(* in an initial process for 0.                                            *)
LEMMA FreshGood ==
  ASSUME NEW tm \in {"Implicit", "Initial"}, NEW c, NEW N, c \in Contexts(N), Fresh(c, tm),
         \A v \in N : IsStatic(v) => v \in StaticVars, StaticVars \subseteq N
  PROVE  Good(c, <<>>, <<>>, <<>>, N, [v \in StaticVars |-> 0], StartValues(tm))
<1> DEFINE H == <<>>
           V == <<>>
           u == <<>>
           B == [v \in StaticVars |-> 0]
           F == StartValues(tm)
<1>1. /\ H \in Seq(Helpers(N)) /\ V \in Seq(Stores(N)) /\ Len(H) = 0 /\ Len(V) = 0 /\ DOMAIN u = {}
  OBVIOUS
<1>2. F \in [StaticVars -> SUBSET Env] /\ DOMAIN F = StaticVars
      /\ \A v \in StaticVars : F[v] = IF tm = "Initial" THEN {} ELSE WireOn[v[2]]
  BY StaticWire DEF StartValues
<1>3. B \in [StaticVars -> 0..0] /\ \A v \in StaticVars : B[v] = 0
  OBVIOUS
<1> HIDE DEF H, V, u, B, F
<1>4. OnAt(c, H, 0) = Env /\ StoreAt(c, V, 0) = NoBits /\ RevAt(c, H, 0) = NoBits /\ UpdAt(H, u, 0) = u
  BY <1>1 DEF OnAt, StoreAt, RevAt, UpdAt, Fresh
<1>5. LevelOK(c, H, V, 0)
  BY <1>4 DEF LevelOK
<1>6. Layers(c, H, V, N)
  BY <1>1, <1>4, <1>5 DEF Layers, H
<1>7. ASSUME NEW v \in StaticVars
      PROVE  Reads(c, H, V, u, v, 0, F[v])
  <2>1. CASE tm = "Initial"
    <3>1. c.timing = "Initial" /\ v \in DOMAIN c.ini /\ c.ini[v] = S0
      BY <2>1 DEF Fresh
    <3>2. c.ini[v].on = F[v]
      BY <1>2, <2>1, <3>1, ConstSignals
    <3> QED
      BY <3>1, <3>2 DEF Reads
  <2>2. CASE tm # "Initial"
    <3>1. c.timing # "Initial"
      BY <2>2 DEF Fresh
    <3>2. Value(NoBits, v).on = F[v]
      BY <1>2, <2>2 DEF Value, NoBits, Sig
    <3>3. \A e \in Env : Drivers(u, v, e) = {}
      BY <1>1 DEF Drivers
    <3>4. \A e \in Env : Pend(NoBits, u, v, e) <=> e \in F[v]
      BY <3>2, <3>3 DEF Pend
    <3>5. ReadsAt(c, H, V, u, v, 0, F[v])
      BY <1>4, <3>4 DEF ReadsAt
    <3>6. 0..Len(H) = {0}
      BY <1>1
    <3> QED
      BY <3>1, <3>5, <3>6 DEF Reads
  <2> QED
    BY <2>1, <2>2
<1>8. Good(c, H, V, u, N, B, F)
  BY <1>1, <1>2, <1>3, <1>6, <1>7 DEF Good
<1> QED
  BY <1>8 DEF H, V, u, B, F

LEMMA StartKnown ==
  ASSUME NEW p \in Profiles
  PROVE  Known(ContextInit(p.timing), <<>>, RootFrame, SemInit(StartValues(p.timing)), p)
<1> DEFINE tm == p.timing
           c == ContextInit(tm)
           T == <<>>
           f == RootFrame
           F == StartValues(tm)
           B == [v \in StaticVars |-> 0]
           s == SemInit(F)
           z == Layout(<<>>, 0, 0, 0, 0, Env)
           Y == <<z>>
           N == Names(0, p.nest)
<1>1. tm \in {"Implicit", "Initial"}
  BY ProceduralAssumption
<1>2. StaticVars \subseteq N /\ \A v \in N : IsStatic(v) => v \in StaticVars
  BY NamesStatic DEF Names
<1>3. c \in Contexts(N) /\ Fresh(c, tm)
  BY <1>1, <1>2, FreshContext
<1>4. Len(T) = 0 /\ Y[Len(T) + 1] = z /\ Y[1] = z /\ IsList(T)
  <2>1. T \in Seq(Nat)
    OBVIOUS
  <2> QED
    BY <2>1 DEF IsList
<1>5. /\ z.hs = <<>> /\ z.n = 0 /\ z.m = 0 /\ z.d = 0 /\ z.l = 0 /\ z.w = Env
  BY DEF Layout
<1>6. f.kind = "root" /\ DOMAIN f = {"kind", "sw"} /\ f.sw = <<>>
  BY DEF RootFrame
<1>7. F \in [StaticVars -> SUBSET Env] /\ DOMAIN F = StaticVars
      /\ \A v \in StaticVars : F[v] = IF tm = "Initial" THEN {} ELSE WireOn[v[2]]
  BY StaticWire DEF StartValues
<1>8. /\ DOMAIN s = {"live", "frames", "cur", "nba", "queued", "written"}
      /\ s.live = Env /\ s.frames = <<>> /\ s.cur = F
      /\ s.nba = [v \in StaticVars |-> {}] /\ s.queued = s.nba /\ s.written = s.nba
  BY DEF SemInit
<1>9. \A v \in StaticVars : B[v] = 0
  OBVIOUS
<1> HIDE DEF c, T, f, F, s, z, Y, N, tm, B
<1>10. ~Closing(f) /\ Pending(f) = <<>> /\ Opened(f) = <<>> /\ Inner(f)
  BY <1>6 DEF Closing, Pending, Opened, Inner
<1>11. Good(c, z.hs, <<>>, Pending(f), N, B, F)
  BY <1>1, <1>2, <1>3, <1>5, <1>10, FreshGood DEF B, F
<1>12. c.esc = <<>> /\ Len(c.esc) = 0 /\ c.nflag = 0 /\ c.timing = tm
  BY <1>3 DEF Fresh
<1>13. LocalsTo(0) = {} /\ 1..0 = {}
  BY DEF LocalsTo
<1>14. Under(c.timing, c.esc, B, N, T, Y)
  BY <1>4, <1>5 DEF Under, Bottom
<1>15. FrameAt(c.timing, c.esc, B, N, f, z, z, 1)
  <2>1. LayoutOK(z, N)
    BY <1>5 DEF LayoutOK
  <2>2. Follows(f, z, z)
    <3>1. z.hs = z.hs \o Opened(f)
      BY <1>5, <1>10
    <3> QED
      BY <1>5, <1>6, <3>1 DEF Follows, NGuards, NParks, NCalls, NLoops
  <2>3. FrameOK(f, z.d, N, c.timing)
    BY <1>6 DEF FrameOK
  <2>4. Guarding(f, z, c.esc) /\ Based(f, z, z, c.esc, B)
    BY <1>5, <1>6, <1>13 DEF Guarding, Based
  <2> QED
    BY <1>5, <1>6, <1>12, <2>1, <2>2, <2>3, <2>4 DEF FrameAt
<1>16. Scoped(c, z, B, F)
  <2>1. Scope(c.esc, z.d) = StaticVars
    BY <1>5, <1>12, <1>13 DEF Scope
  <2>2. z.l = c.unrolling
    BY <1>3, <1>5 DEF Fresh
  <2> QED
    BY <1>5, <1>7, <1>9, <1>12, <1>13, <2>1, <2>2 DEF Scoped, Numbered
<1>17. Settled(c, f) /\ c.broken = FALSE
  BY <1>3, <1>10 DEF Settled, Fresh
<1>18. SemType(s, z.d)
  BY <1>5, <1>7, <1>8, <1>13 DEF SemType
<1>19. Mirrors(s, c, F, z.d)
  <2>1. \A v \in StaticVars : s.queued[v] = {}
    BY <1>8
  <2>2. \A v \in StaticVars : F[v] = Final(s, v)
    BY <1>8, <1>18, <2>1, FinalIs
  <2>3. c.blocking = {} /\ c.nonblocking = {} /\ c.timing = tm
    BY <1>3 DEF Fresh
  <2> QED
    BY <1>5, <1>7, <1>8, <1>13, <2>1, <2>2, <2>3 DEF Mirrors
<1>20. SemAt(c, z.hs, F, s.frames, f, z, z)
  <2>1. OnAt(c, z.hs, Len(z.hs)) = Env
    BY <1>3, <1>5 DEF OnAt, Fresh
  <2>2. Raised(c.esc, F, z.n) = {}
    BY <1>5 DEF Raised
  <2> QED
    BY <1>5, <1>6, <2>1, <2>2 DEF SemAt
<1>21. Placed(c, f, F, z)
  <2>1. Raised(c.esc, F, z.n) = {} /\ c.cas.on = Env
    BY <1>3, <1>5 DEF Raised, Fresh
  <2> QED
    BY <1>5, <1>10, <2>1 DEF Placed
<1>22. Meaning(c, T, f, s, Y, z, F)
  <2>1. z.m = Len(s.frames) /\ z.w = s.live /\ c.exhausted = FALSE
    BY <1>3, <1>5, <1>8 DEF Fresh
  <2> QED
    BY <1>4, <1>18, <1>19, <1>20, <1>21, <2>1 DEF Meaning
<1>23. N = Names(c.nflag, p.nest)
  BY <1>12 DEF N
<1>24. Inv(c, T, f, s, p, Y, z, <<>>, B, F)
  BY <1>4, <1>11, <1>14, <1>15, <1>16, <1>17, <1>22, <1>23 DEF Inv
<1> QED
  BY <1>24 DEF Known, c, T, f, s, F, tm

LEMMA InitValid ==
  ASSUME Init
  PROVE  Valid
<1> DEFINE T == <<>>
           s == SemInit(StartValues(profile.timing))
           c == ContextInit(profile.timing)
           f == RootFrame
<1>1. profile \in Profiles /\ ctx = c /\ ctl = <<f>> /\ steps = 0
  BY DEF Init, RootFrame
<1>2. ctx.timing = profile.timing
  BY <1>1 DEF ContextInit
<1>3. sem = s
  BY <1>2 DEF Init, StartValues
<1>4. Known(c, T, f, s, profile)
  BY <1>1, StartKnown
<1>5. f.kind # "head"
  BY DEF RootFrame
<1>6. ctl = Append(T, f)
  BY <1>1
<1> HIDE DEF c, T, f, s
<1>7. OnStack(ctx, ctl, sem, profile)
  BY <1>1, <1>3, <1>4, <1>5, <1>6, StackOf
<1>8. profile.length \in Nat
  BY <1>1, ProceduralAssumption
<1> QED
  BY <1>1, <1>2, <1>7, <1>8 DEF Valid

-----------------------------------------------------------------------------
(* The invariant.                                                          *)

LEMMA StatementKeeps ==
  ASSUME InitialIsConstant, Valid, Statement
  PROVE  Keeps
<1>1. ASSUME NEW v \in StaticVars \cup MyLocal, NEW x \in Sources, NEW m \in profile.masks,
             NEW b \in BOOLEAN, Assign(v, x, m, b)
      PROVE  Keeps
  BY <1>1, AssignValid
<1>2. CASE BeginBlock
  BY <1>2, BeginBlockValid
<1>3. CASE EndBlock
  BY <1>3, EndBlockValid
<1>4. ASSUME NEW x \in Tests, BeginIf(x) PROVE Keeps
  BY <1>4, BeginIfValid
<1>5. ASSUME NEW x \in Tests, IfKnown(x) PROVE Keeps
  BY <1>5, IfKnownValid
<1>6. ASSUME NEW x \in Tests, BeginCase(x) PROVE Keeps
  BY <1>6, BeginCaseValid
<1>7. ASSUME NEW x \in Tests, CaseItem(x) PROVE Keeps
  BY <1>7, CaseItemValid
<1>8. CASE DefaultBranch
  BY <1>8, DefaultBranchValid
<1>9. CASE EndSelect
  BY <1>9, EndSelectValid
<1>10. ASSUME NEW stmt \in profile.constructs, NEW x \in Tests, NEW step \in profile.advances,
              BeginLoop(stmt, x, step)
       PROVE  Keeps
  BY <1>10, BeginLoopValid
<1>11. ASSUME NEW last \in BOOLEAN, EndIteration(last) PROVE Keeps
  BY <1>11, EndIterationValid
<1>12. ASSUME NEW x \in Sources, NEW target \in StaticVars \cup {None}, BeginCall(x, target)
       PROVE  Keeps
  BY <1>12, BeginCallValid
<1>13. CASE EndCall
  BY <1>13, EndCallValid
<1>14. ASSUME NEW stmt \in profile.constructs, BreakOrContinue(stmt) PROVE Keeps
  BY <1>14, BreakOrContinueValid
<1>15. ASSUME NEW x \in Sources, Return(x) PROVE Keeps
  BY <1>15, ReturnValid
<1> QED
  BY <1>1, <1>2, <1>3, <1>4, <1>5, <1>6, <1>7, <1>8, <1>9, <1>10, <1>11, <1>12, <1>13, <1>14, <1>15
     DEF Statement

(* Every statement needs one more step than the bound has been used up for. *)
LEMMA StatementRuns ==
  ASSUME Statement
  PROVE  Running
BY DEF Statement, Assign, BeginBlock, EndBlock, BeginIf, IfKnown, BeginCase, CaseItem, DefaultBranch,
       EndSelect, BeginLoop, EndIteration, BeginCall, EndCall, BreakOrContinue, Return, Reaches, Opens

LEMMA NextValid ==
  ASSUME InitialIsConstant, Valid, [Next]_vars
  PROVE  Valid'
<1>1. CASE Next
  <2>1. Keeps /\ Running /\ steps' = steps + 1 /\ profile' = profile
    BY <1>1, StatementKeeps, StatementRuns DEF Next
  <2>2. steps' \in 0..profile.length
    <3> DEFINE n == profile.length
    <3>1. n \in Nat /\ steps \in 0..n
      BY ProceduralAssumption DEF Valid
    <3>2. steps < n
      BY <2>1 DEF Running
    <3> HIDE DEF n
    <3>3. steps' \in 0..n
      BY <2>1, <3>1, <3>2
    <3> QED
      BY <3>3 DEF n
  <2>3. profile \in Profiles
    BY DEF Valid
  <2>4. OnStack(ctx', ctl', sem', profile') /\ ctx'.timing = profile'.timing
    BY <2>1 DEF Keeps
  <2> QED
    BY <2>1, <2>2, <2>3, <2>4 DEF Valid
<1>2. CASE UNCHANGED vars
  BY <1>2 DEF vars, Valid
<1> QED
  BY <1>1, <1>2

LEMMA InvariantHolds ==
  ASSUME InitialIsConstant
  PROVE  Spec => []Valid
<1>1. Init => Valid
  BY InitValid
<1>2. Valid /\ [Next]_vars => Valid'
  BY NextValid
<1> QED
  BY <1>1, <1>2, PTL DEF Spec

-----------------------------------------------------------------------------
(* What the invariant says of the properties.                              *)

(* The frames of a state are none of them heads, so its loops are counted. *)
LEMMA LoopsCounted ==
  ASSUME NEW c, NEW T, NEW f, NEW s, NEW p, Known(c, T, f, s, p), f.kind # "head"
  PROVE  c.unrolling = Cardinality({i \in DOMAIN Append(T, f) : Append(T, f)[i].kind = "loop"})
<1>1. PICK Y, z, V, B, F : Inv(c, T, f, s, p, Y, z, V, B, F)
  BY DEF Known
<1>2. Under(c.timing, c.esc, B, Names(c.nflag, p.nest), T, Y) /\ Scoped(c, z, B, F)
  BY <1>1, InvFacts
<1>3. ScopeIs(T, f, z, F)
  BY <1>1, KnownScope
<1>4. c.unrolling = Loops(Append(T, f)) /\ IsList(T)
  BY <1>2, <1>3 DEF ScopeIs, Scoped
<1>5. \A j \in 1..Len(T) : T[j].kind # "head"
  BY <1>2 DEF Under, Inner
<1> DEFINE t == Append(T, f)
           n == Len(T)
<1>6. DOMAIN t = 1..(n + 1) /\ t[n + 1] = f /\ n \in Nat /\ \A j \in 1..n : t[j] = T[j]
  BY <1>4, ListFacts
<1> HIDE DEF t, n
<1>7. \A i \in DOMAIN t : t[i].kind # "head"
  <2> TAKE i \in DOMAIN t
  <2>1. i \in 1..n \/ i = n + 1
    BY <1>6
  <2> QED
    BY <1>5, <1>6, <2>1 DEF n
<1>8. {i \in DOMAIN t : t[i].kind \in {"loop", "head"}} = {i \in DOMAIN t : t[i].kind = "loop"}
  BY <1>7
<1> QED
  BY <1>4, <1>8 DEF t, Loops

LEMMA ValidTypes ==
  ASSUME Valid
  PROVE  TypeOK
<1> DEFINE N == Names(ctx.nflag, profile.nest)
<1>1. /\ Known(ctx, Lower, Frame, sem, profile) /\ ctl = Append(Lower, Frame) /\ Frame.kind # "head"
      /\ steps \in 0..profile.length
  BY ValidTop DEF TopFacts, Valid
<1>2. ctx \in Contexts(N)
  BY <1>1, KnownType
<1>3. DOMAIN ctx.vis \subseteq N
  BY <1>2, ContextType, StoreType
<1>4. DOMAIN ctx.rev \subseteq DOMAIN ctx.vis /\ ctx.cas.on \subseteq Env
  <2>1. PICK Y, z, V, B, F : Inv(ctx, Lower, Frame, sem, profile, Y, z, V, B, F)
    BY <1>1 DEF Known
  <2>2. Good(ctx, z.hs, V, Pending(Frame), N, B, F)
    BY <2>1, InvFacts
  <2> QED
    BY <2>2, GoodFacts
<1>5. ctx.blocking \cup ctx.nonblocking \subseteq StaticVars
  BY <1>2, ContextType
<1>6. ctx.unrolling = Cardinality({i \in DOMAIN ctl : ctl[i].kind = "loop"})
  <2> HIDE DEF Lower, Frame
  <2>1. ctx.unrolling = Cardinality({i \in DOMAIN Append(Lower, Frame) : Append(Lower, Frame)[i].kind = "loop"})
    BY <1>1, LoopsCounted
  <2> QED
    BY <1>1, <2>1
<1> QED
  BY <1>1, <1>3, <1>4, <1>5, <1>6 DEF TypeOK, Names, LocalsTo

(* Whatever is in scope has a value. *)
LEMMA ScopeReads ==
  ASSUME NEW c, NEW T, NEW f, NEW s, NEW p, Known(c, T, f, s, p),
         NEW v \in Scope(c.esc, Calls(Append(T, f)))
  PROVE  IF c.timing = "Initial" THEN v \in DOMAIN c.ini ELSE EvaluateOK(c, v)
<1>1. PICK Y, z, V, B, F : Inv(c, T, f, s, p, Y, z, V, B, F)
  BY DEF Known
<1> DEFINE u == Pending(f)
           N == Names(c.nflag, p.nest)
<1>2. Good(c, z.hs, V, u, N, B, F) /\ Scoped(c, z, B, F)
  BY <1>1, InvFacts
<1>3. v \in DOMAIN F
  <2>1. ScopeIs(T, f, z, F)
    BY <1>1, KnownScope
  <2> QED
    BY <1>2, <2>1 DEF ScopeIs, Scoped
<1>4. Clear(c, u, {})
  BY DEF Clear
<1> HIDE DEF u, N
<1>5. c.timing = "Initial" => v \in DOMAIN c.ini
  BY <1>2, <1>3 DEF Good, Reads
<1>6. c.timing # "Initial" => EvaluateOK(c, v)
  BY <1>2, <1>3, <1>4, ReadClear
<1> QED
  BY <1>5, <1>6

LEMMA ValidReads ==
  ASSUME InitialIsConstant, Valid
  PROVE  NoAssertionFailure
<1>1. /\ Known(ctx, Lower, Frame, sem, profile) /\ Depth = Calls(Append(Lower, Frame))
      /\ MyLocal \subseteq LocalsTo(Depth)
  BY ValidTop, ValidScope DEF TopFacts, Usable
<1>2. ctx.broken = FALSE /\ ctx.esc \in Seq(Guards)
  BY <1>1, KnownShape
<1>3. ASSUME NEW v \in MyLocal \cup {ctx.esc[i].flag : i \in DOMAIN ctx.esc}
      PROVE  HasValue(v)
  <2>1. v \in Scope(ctx.esc, Depth)
    BY <1>1, <1>2 DEF Scope
  <2>2. IF ctx.timing = "Initial" THEN v \in DOMAIN ctx.ini ELSE EvaluateOK(ctx, v)
    BY <1>1, <2>1, ScopeReads
  <2> QED
    BY <2>2 DEF HasValue
<1> QED
  BY <1>2, <1>3 DEF NoAssertionFailure

(* The live valuations are where the next statement is looked at. *)
LEMMA LiveRoom ==
  ASSUME NEW c, NEW T, NEW f, NEW s, NEW p, Known(c, T, f, s, p), c.diag = {}
  PROVE  /\ s.live \subseteq Room(c, f)
         /\ Closing(f) => s.live = {}
<1>1. PICK Y, z, V, B, F : Inv(c, T, f, s, p, Y, z, V, B, F)
  BY DEF Known
<1>2. Placed(c, f, F, z) /\ z.w = s.live
  BY <1>1, InvFacts, ZenonT(60) DEF Meaning
<1> QED
  BY <1>2 DEF Placed, Room

(* What drives a module-level variable is its final value so far. *)
LEMMA FinalReads ==
  ASSUME NEW c, NEW T, NEW f, NEW s, NEW p, Known(c, T, f, s, p), c.diag = {}, c.timing # "Initial",
         NEW v \in StaticVars
  PROVE  Evaluate(c, v).on \cap s.live = Final(s, v) \cap s.live
<1>1. PICK Y, z, V, B, F : Inv(c, T, f, s, p, Y, z, V, B, F)
  BY DEF Known
<1> DEFINE u == Pending(f)
           N == Names(c.nflag, p.nest)
           R == s.live
<1>2. Good(c, z.hs, V, u, N, B, F) /\ Scoped(c, z, B, F) /\ Meaning(c, T, f, s, Y, z, F)
  BY <1>1, InvFacts
<1>3. v \in DOMAIN F /\ F[v] = Final(s, v)
  BY <1>2 DEF Scoped, Scope, Meaning, Mirrors
<1>4. Clear(c, u, R)
  <2>1. CASE Closing(f)
    <3>1. R = {}
      BY <2>1, LiveRoom
    <3> QED
      BY <3>1 DEF Clear
  <2>2. CASE ~Closing(f)
    BY <2>2, LiveRoom DEF Clear, Room, Pending
  <2> QED
    BY <2>1, <2>2
<1> HIDE DEF u, N, R
<1>5. \A e \in R : e \in Evaluate(c, v).on <=> e \in F[v]
  BY <1>2, <1>3, <1>4, ReadClear
<1> QED
  BY <1>3, <1>5 DEF R

LEMMA ValidValues ==
  ASSUME InitialIsConstant, Valid
  PROVE  ValuesCorrect
<1>1. /\ Known(ctx, Lower, Frame, sem, profile) /\ Depth = Calls(Append(Lower, Frame))
      /\ MyLocal \subseteq LocalsTo(Depth)
  BY ValidTop, ValidScope DEF TopFacts, Usable
<1>2. ASSUME ctx.diag = {}, NEW v \in StaticVars \cup MyLocal
      PROVE  Agree(Substitute(ctx, v).on, sem.cur[v])
  <2>1. Read(v) \in InScope(Lower, Frame)
    BY <1>1 DEF InScope, Expressions
  <2>2. Evaluates(ctx, sem, Read(v), Eval(ctx, Read(v)), Room(ctx, Frame))
    BY <1>1, <2>1, RoomEval
  <2>3. Eval(ctx, Read(v)) = Substitute(ctx, v) /\ Truth(sem, Read(v)) = sem.cur[v]
    BY DEF Eval, Truth, Read
  <2>4. sem.live \subseteq Room(ctx, Frame)
    BY <1>1, <1>2, LiveRoom
  <2> QED
    BY <1>2, <2>2, <2>3, <2>4 DEF Evaluates, Agree
<1>3. ASSUME ctx.diag = {}, ctx.timing # "Initial", NEW v \in StaticVars
      PROVE  Agree(Evaluate(ctx, v).on, Final(sem, v))
  BY <1>1, <1>3, FinalReads DEF Agree
<1> QED
  BY <1>2, <1>3 DEF ValuesCorrect

LEMMA ValidEnables ==
  ASSUME Valid
  PROVE  EnablesExact
<1>1. Known(ctx, Lower, Frame, sem, profile)
  BY ValidTop DEF TopFacts
<1> SUFFICES ASSUME ctx.diag = {}
             PROVE  IF ~InList \/ Skipped(ctx) THEN sem.live = {} ELSE G.c.cas.on = sem.live
  BY DEF EnablesExact
<1>2. ~InList <=> Closing(Frame)
  <2>1. ASSUME Frame.kind = "select" PROVE Frame.open \in BOOLEAN
    <3>1. SelectKind(ctx, Frame)
      BY <1>1, <2>1, KnownSelect
    <3> QED
      BY <3>1 DEF SelectKind
  <2> QED
    BY <2>1 DEF InList, Closing
<1>3. CASE ~InList
  <2>1. sem.live = {}
    BY <1>1, <1>2, <1>3, LiveRoom
  <2> QED
    BY <1>3, <2>1
<1>4. CASE InList /\ Skipped(ctx)
  <2>1. ctx.esc # <<>> /\ Substitute(ctx, DisableFlag(ctx)) = S1
    BY <1>4 DEF Skipped
  <2>2. FlagTells(ctx, sem, Substitute(ctx, DisableFlag(ctx)))
    BY <1>1, <1>2, <1>4, <2>1, FlagReads
  <2>3. ctx.cas.on \ S1.on = sem.live
    BY <2>1, <2>2 DEF FlagTells
  <2>4. ctx.cas.on \subseteq Env
    BY <1>1, KnownShape
  <2>5. sem.live = {}
    BY <2>3, <2>4, ConstSignals
  <2> QED
    BY <1>4, <2>5
<1>5. CASE InList /\ ~Skipped(ctx)
  <2>1. GuardFacts(ctx, Lower, Frame, sem, profile, G)
    BY <1>1, <1>2, <1>5, GuardedKeeps DEF G
  <2> QED
    BY <1>5, <2>1 DEF GuardFacts
<1> QED
  BY <1>3, <1>4, <1>5

(* Only variables in scope have values, and loops are entered and left in  *)
(* pairs.                                                                  *)
THEOREM TypesHold ==
  ASSUME InitialIsConstant
  PROVE  Spec => []TypeOK
<1>1. Spec => []Valid
  BY InvariantHolds
<1>2. Valid => TypeOK
  BY ValidTypes
<1> QED
  BY <1>1, <1>2, PTL

(* No assertion of the elaborator fails: whatever a statement of any       *)
(* program may read has a value, in every branch.                          *)
THEOREM NoAssertionFails ==
  ASSUME InitialIsConstant
  PROVE  Spec => []NoAssertionFailure
<1>1. Spec => []Valid
  BY InvariantHolds
<1>2. Valid => NoAssertionFailure
  BY ValidReads
<1> QED
  BY <1>1, <1>2, PTL

(* The elaborated process computes what the sequential program does: every *)
(* variable in scope reads, at every point of every program, as it does in *)
(* a valuation of the wires that gets there.                               *)
THEOREM ElaborationIsCorrect ==
  ASSUME InitialIsConstant
  PROVE  Spec => []ValuesCorrect
<1>1. Spec => []Valid
  BY InvariantHolds
<1>2. Valid => ValuesCorrect
  BY ValidValues
<1> QED
  BY <1>1, <1>2, PTL

(* The case a statement is placed in is selected in exactly the valuations *)
(* that execute it, after any break, continue or return before it.         *)
THEOREM CasesAreExact ==
  ASSUME InitialIsConstant
  PROVE  Spec => []EnablesExact
<1>1. Spec => []Valid
  BY InvariantHolds
<1>2. Valid => EnablesExact
  BY ValidEnables
<1> QED
  BY <1>1, <1>2, PTL
===============================================================================
