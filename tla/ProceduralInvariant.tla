------------------------- MODULE ProceduralInvariant -------------------------
(***************************************************************************)
(* The inductive invariant of the procedural elaborator, and proofs that   *)
(* the operations on switches and variables keep it: open a switch, enter, *)
(* leave and join branches, evaluate, assign, enter and leave a loop.      *)
(*                                                                         *)
(* The invariant is Inv.  It relates the executor's call stack, the        *)
(* switches its frames have open, the variable map and the revert maps to  *)
(* the semantics:                                                          *)
(*   Good     gives every variable in scope the valuations F in which it   *)
(*            is 1, and says that at each open branch, what the revert     *)
(*            maps would restore and the updates that are pending still    *)
(*            yield F wherever no deeper branch is selected;               *)
(*   Under,   say what each construct on the stack has put on the stacks   *)
(*   FrameAt  of helpers, of escape guards and of the semantics;           *)
(*   Scoped   that exactly the variables F speaks of are in scope;         *)
(*   Meaning  that F has the values of the semantics, and that where a     *)
(*            construct was entered, the selected valuations that have not *)
(*            raised a flag are the ones live or waiting in the semantics. *)
(* Known hides the witnesses of Inv.                                       *)
(***************************************************************************)
EXTENDS Procedural, FiniteSetTheorems, SequenceTheorems, IntervalTheorems

Signals == {S0, S1} \cup [const : {FALSE}, on : SUBSET Env]

LEMMA NameFacts ==
  /\ \A v \in StaticVars : IsStatic(v)
  /\ \A d : ~IsStatic(Local(d)) /\ ~IsStatic(Flag(d)) /\ Local(d) \notin StaticVars /\ Flag(d) \notin StaticVars
  /\ \A d, e : Local(d) # Flag(e) /\ (Local(d) = Local(e) => d = e) /\ (Flag(d) = Flag(e) => d = e)
BY DEF StaticVars, Static, Local, Flag, IsStatic

LEMMA StaticWire ==
  ASSUME NEW v \in StaticVars
  PROVE  v[2] \in 0..(NWires - 1) /\ WireOn[v[2]] \subseteq Env
<1>1. PICK w \in Statics : v = <<"Static", w>>
  BY DEF StaticVars, Static
<1>2. v[2] = w /\ w \in 0..(NWires - 1)
  BY <1>1, SemAssumption
<1>3. WireOn[w] = {e \in Env : w \in e}
  BY <1>2 DEF WireOn
<1> QED
  BY <1>2, <1>3

LEMMA ConstSignals ==
  /\ S0 \in Signals /\ S1 \in Signals /\ S0.on = {} /\ S1.on = Env
  /\ S0.const = TRUE /\ S1.const = TRUE /\ S0 # S1
<1>1. {} \in Env
  BY DEF Env
<1>2. S0.on = {} /\ S1.on = Env /\ S0.const = TRUE /\ S1.const = TRUE
  BY DEF S0, S1, Sig
<1> QED
  BY <1>1, <1>2 DEF Signals

LEMMA VaryingSignals ==
  ASSUME NEW X \in SUBSET Env
  PROVE  /\ Sig(FALSE, X) \in Signals /\ Sig(FALSE, X).on = X /\ Sig(FALSE, X).const = FALSE
         /\ Sig(FALSE, X) # S0 /\ Sig(FALSE, X) # S1
<1>1. Sig(FALSE, X).on = X /\ Sig(FALSE, X).const = FALSE
  BY DEF Sig
<1>2. Sig(FALSE, X) \in Signals
  BY DEF Sig, Signals
<1> QED
  BY <1>1, <1>2, ConstSignals

LEMMA SignalType ==
  ASSUME NEW r \in Signals
  PROVE  /\ r.on \in SUBSET Env /\ r.const \in BOOLEAN
         /\ r.const = TRUE => r = S0 \/ r = S1
         /\ r # S0 /\ r # S1 => r.const = FALSE
<1>1. CASE r = S0 \/ r = S1
  BY <1>1, ConstSignals
<1>2. CASE r \in [const : {FALSE}, on : SUBSET Env]
  BY <1>2
<1> QED
  BY <1>1, <1>2 DEF Signals

LEMMA MarkerIsNoSignal == Sm \notin Signals
<1>1. {NWires} \notin Env
  BY SemAssumption DEF Env
<1>2. Sm.on = {{NWires}}
  BY DEF Sm, Sig
<1> QED
  BY <1>1, <1>2, SignalType

-----------------------------------------------------------------------------
(* Variable maps and revert maps.                                          *)

Stores(N)  == UNION {[D -> Signals] : D \in SUBSET N}
Reverts(N) == UNION {[D -> Signals \cup {Sm}] : D \in SUBSET N}

LEMMA StoreType ==
  ASSUME NEW N, NEW s \in Stores(N)
  PROVE  /\ s = [v \in DOMAIN s |-> s[v]] /\ DOMAIN s \subseteq N
         /\ \A v \in DOMAIN s : s[v] \in Signals
BY DEF Stores

LEMMA StoreMade ==
  ASSUME NEW N, NEW s, s = [v \in DOMAIN s |-> s[v]], DOMAIN s \subseteq N,
         \A v \in DOMAIN s : s[v] \in Signals
  PROVE  s \in Stores(N)
<1>1. s \in [DOMAIN s -> Signals]
  OBVIOUS
<1> QED
  BY <1>1 DEF Stores

LEMMA RevertType ==
  ASSUME NEW N, NEW r \in Reverts(N)
  PROVE  /\ r = [v \in DOMAIN r |-> r[v]] /\ DOMAIN r \subseteq N
         /\ \A v \in DOMAIN r : r[v] \in Signals \cup {Sm}
BY DEF Reverts

LEMMA RevertMade ==
  ASSUME NEW N, NEW r, r = [v \in DOMAIN r |-> r[v]], DOMAIN r \subseteq N,
         \A v \in DOMAIN r : r[v] \in Signals \cup {Sm}
  PROVE  r \in Reverts(N)
<1>1. r \in [DOMAIN r -> Signals \cup {Sm}]
  OBVIOUS
<1> QED
  BY <1>1 DEF Reverts

LEMMA OverType ==
  ASSUME NEW f, NEW g
  PROVE  /\ DOMAIN Over(f, g) = DOMAIN f \cup DOMAIN g
         /\ Over(f, g) = [v \in DOMAIN Over(f, g) |-> Over(f, g)[v]]
         /\ \A v \in DOMAIN f : Over(f, g)[v] = f[v]
         /\ \A v \in DOMAIN g \ DOMAIN f : Over(f, g)[v] = g[v]
BY DEF Over

LEMMA OverStores ==
  ASSUME NEW N, NEW f \in Stores(N), NEW g \in Stores(N)
  PROVE  Over(f, g) \in Stores(N)
<1>1. /\ DOMAIN f \subseteq N /\ \A v \in DOMAIN f : f[v] \in Signals
      /\ DOMAIN g \subseteq N /\ \A v \in DOMAIN g : g[v] \in Signals
  BY DEF Stores
<1>2. Over(f, g) \in [DOMAIN f \cup DOMAIN g -> Signals]
  BY <1>1 DEF Over
<1> QED
  BY <1>1, <1>2 DEF Stores

LEMMA OverReverts ==
  ASSUME NEW N, NEW f \in Reverts(N), NEW g \in Reverts(N)
  PROVE  Over(f, g) \in Reverts(N)
<1>1. /\ DOMAIN f \subseteq N /\ \A v \in DOMAIN f : f[v] \in Signals \cup {Sm}
      /\ DOMAIN g \subseteq N /\ \A v \in DOMAIN g : g[v] \in Signals \cup {Sm}
  BY DEF Reverts
<1>2. Over(f, g) \in [DOMAIN f \cup DOMAIN g -> Signals \cup {Sm}]
  BY <1>1 DEF Over
<1> QED
  BY <1>1, <1>2 DEF Reverts

LEMMA StoresGrow ==
  ASSUME NEW N, NEW M, N \subseteq M
  PROVE  Stores(N) \subseteq Stores(M) /\ Reverts(N) \subseteq Reverts(M)
BY DEF Stores, Reverts

(* The store that a revert map gives back: what VariableState::restore     *)
(* leaves.                                                                 *)
Kept(s, r) == {v \in DOMAIN s : v \notin DOMAIN r \/ r[v] # Sm}
Undo(s, r) == [v \in Kept(s, r) |-> IF v \in DOMAIN r THEN r[v] ELSE s[v]]

LEMMA UndoType ==
  ASSUME NEW N, NEW s \in Stores(N), NEW r \in Reverts(N)
  PROVE  Undo(s, r) \in Stores(N)
<1>1. DOMAIN Undo(s, r) = Kept(s, r) /\ Kept(s, r) \subseteq N
  BY StoreType DEF Undo, Kept
<1>2. \A v \in Kept(s, r) : Undo(s, r)[v] \in Signals
  BY StoreType, RevertType DEF Undo, Kept
<1>3. Undo(s, r) = [v \in DOMAIN Undo(s, r) |-> Undo(s, r)[v]]
  BY DEF Undo
<1> QED
  BY <1>1, <1>2, <1>3, StoreMade

(* A write to the names in W, and what the revert map notes of it.         *)
Written(s, r, s2, r2, W) ==
  /\ DOMAIN s2 = DOMAIN s \cup W
  /\ \A v \in DOMAIN s \ W : s2[v] = s[v]
  /\ DOMAIN r2 = DOMAIN r \cup W
  /\ \A v \in DOMAIN r : r2[v] = r[v]
  /\ \A v \in W \ DOMAIN r : r2[v] = IF v \in DOMAIN s THEN s[v] ELSE Sm

LEMMA UndoAfterWrite ==
  ASSUME NEW N, NEW s \in Stores(N), NEW r \in Reverts(N), DOMAIN r \subseteq DOMAIN s,
         NEW s2, NEW r2, NEW W, Written(s, r, s2, r2, W)
  PROVE  Undo(s2, r2) = Undo(s, r) /\ DOMAIN r2 \subseteq DOMAIN s2
<1>1. \A v \in DOMAIN s : s[v] # Sm
  BY StoreType, MarkerIsNoSignal
<1>2. Kept(s2, r2) = Kept(s, r)
  BY <1>1 DEF Kept, Written
<1>3. \A v \in Kept(s, r) : (IF v \in DOMAIN r2 THEN r2[v] ELSE s2[v])
                             = (IF v \in DOMAIN r THEN r[v] ELSE s[v])
  BY <1>1 DEF Kept, Written
<1> QED
  BY <1>2, <1>3 DEF Undo, Written

-----------------------------------------------------------------------------
(* The types of the elaborator's records.  N is the set of names in use.   *)

Cases      == [path : Seq(Nat), on : SUBSET Env, nsw : Nat]
Updates(N) == [on : SUBSET Env, val : Stores(N)]
Helpers(N) == [parent : Cases, signal : Signals, left : SUBSET Env, saved : Reverts(N),
               updates : Seq(Updates(N))]
Flags      == {Flag(i) : i \in Nat}
Guards     == [kind : {"Loop", "LoopBody", "FunctionBody"}, flag : Flags]
Actions    == [v : StaticVars, path : Seq(Nat), on : SUBSET Env, val : SUBSET Env]
Inits(N)   == UNION {[D -> {S0, S1}] : D \in SUBSET N}
Diags      == {"BlockingAfterNonblocking", "NonblockingInInitial", "NonblockingAfterBlocking",
               "NonconstantInitial", "UnrollLimitExhausted"}

Contexts(N) ==
  [timing : {"Implicit", "Initial"}, vis : Stores(N), rev : Reverts(N), ini : Inits(N),
   cas : Cases, log : Seq(Actions), esc : Seq(Guards), nflag : Nat,
   blocking : SUBSET StaticVars, nonblocking : SUBSET StaticVars,
   unrolling : Nat, counter : Nat, exhausted : BOOLEAN, diag : SUBSET Diags, broken : BOOLEAN]

LEMMA ContextType ==
  ASSUME NEW N, NEW c \in Contexts(N)
  PROVE  /\ c.timing \in {"Implicit", "Initial"} /\ c.vis \in Stores(N) /\ c.rev \in Reverts(N)
         /\ c.ini \in Inits(N) /\ c.cas \in Cases /\ c.log \in Seq(Actions)
         /\ c.esc \in Seq(Guards) /\ c.nflag \in Nat /\ c.blocking \in SUBSET StaticVars
         /\ c.nonblocking \in SUBSET StaticVars /\ c.unrolling \in Nat /\ c.counter \in Nat
         /\ c.exhausted \in BOOLEAN /\ c.diag \in SUBSET Diags /\ c.broken \in BOOLEAN
BY DEF Contexts

(* What an operation that only rebinds a variable leaves alone.            *)
SameControl(c, d) ==
  /\ d.timing = c.timing /\ d.cas = c.cas /\ d.esc = c.esc /\ d.nflag = c.nflag
  /\ d.unrolling = c.unrolling /\ d.counter = c.counter /\ d.exhausted = c.exhausted
  /\ c.diag \subseteq d.diag

LEMMA ContextsGrow ==
  ASSUME NEW N, NEW M, N \subseteq M
  PROVE  Contexts(N) \subseteq Contexts(M) /\ Helpers(N) \subseteq Helpers(M)
<1>1. Stores(N) \subseteq Stores(M) /\ Reverts(N) \subseteq Reverts(M)
  BY StoresGrow
<1>2. Inits(N) \subseteq Inits(M)
  BY DEF Inits
<1>3. Seq(Updates(N)) \subseteq Seq(Updates(M))
  <2>1. Updates(N) \subseteq Updates(M)
    BY <1>1 DEF Updates
  <2> HIDE DEF Updates
  <2> QED
    BY <2>1, SeqMonotonic
<1>4. Contexts(N) \subseteq Contexts(M)
  BY <1>1, <1>2 DEF Contexts
<1> QED
  BY <1>1, <1>3, <1>4 DEF Helpers

BitSet(c, d, v, r) ==
  /\ SameControl(c, d) /\ d.ini = c.ini /\ d.log = c.log
  /\ d.blocking = c.blocking /\ d.nonblocking = c.nonblocking
  /\ d.diag = c.diag /\ d.broken = c.broken /\ d.vis[v] = r
  /\ Written(c.vis, c.rev, d.vis, d.rev, {v})

LEMMA SetBitFields ==
  ASSUME NEW N, NEW c \in Contexts(N), NEW v \in N, NEW r \in Signals
  PROVE  SetBit(c, v, r) \in Contexts(N) /\ BitSet(c, SetBit(c, v, r), v, r)
<1> DEFINE n == [u \in {v} |-> IF Bound(c, v) THEN c.vis[v] ELSE Sm]
           f == [u \in {v} |-> r]
<1>1. n \in Reverts(N) /\ f \in Stores(N) /\ DOMAIN n = {v} /\ DOMAIN f = {v} /\ f[v] = r
      /\ n[v] = IF Bound(c, v) THEN c.vis[v] ELSE Sm
  <2>1. c.vis \in Stores(N)
    BY ContextType
  <2>2. Bound(c, v) => c.vis[v] \in Signals
    BY <2>1 DEF Bound, Stores
  <2>3. n \in [{v} -> Signals \cup {Sm}] /\ f \in [{v} -> Signals]
    BY <2>2
  <2> QED
    BY <2>3 DEF Reverts, Stores
<1>2. SetBit(c, v, r) = [c EXCEPT !.rev = Over(c.rev, n), !.vis = Over(f, c.vis)]
  BY DEF SetBit
<1> HIDE DEF n, f
<1>3. Over(c.rev, n) \in Reverts(N) /\ Over(f, c.vis) \in Stores(N)
  BY <1>1, ContextType, OverStores, OverReverts
<1>4. SetBit(c, v, r) \in Contexts(N)
  BY <1>2, <1>3 DEF Contexts
<1>5. /\ SetBit(c, v, r).vis = Over(f, c.vis) /\ SetBit(c, v, r).rev = Over(c.rev, n)
      /\ SameControl(c, SetBit(c, v, r))
      /\ SetBit(c, v, r).ini = c.ini /\ SetBit(c, v, r).log = c.log
      /\ SetBit(c, v, r).blocking = c.blocking /\ SetBit(c, v, r).nonblocking = c.nonblocking
      /\ SetBit(c, v, r).diag = c.diag /\ SetBit(c, v, r).broken = c.broken
  BY <1>2 DEF Contexts, SameControl
<1>6. /\ DOMAIN Over(f, c.vis) = {v} \cup DOMAIN c.vis /\ Over(f, c.vis)[v] = r
      /\ \A u \in DOMAIN c.vis \ {v} : Over(f, c.vis)[u] = c.vis[u]
  BY <1>1 DEF Over
<1>7. /\ DOMAIN Over(c.rev, n) = {v} \cup DOMAIN c.rev
      /\ \A u \in DOMAIN c.rev : Over(c.rev, n)[u] = c.rev[u]
      /\ v \notin DOMAIN c.rev => Over(c.rev, n)[v] = n[v]
  BY <1>1 DEF Over
<1>8. Written(c.vis, c.rev, Over(f, c.vis), Over(c.rev, n), {v})
  BY <1>1, <1>6, <1>7 DEF Written, Bound
<1> QED
  BY <1>4, <1>5, <1>6, <1>8 DEF BitSet
-----------------------------------------------------------------------------
(* Chains of sets and of numbers.                                          *)

LEMMA DecreasingSets ==
  ASSUME NEW n \in Nat, NEW f, \A j \in 1..n : f[j] \subseteq f[j - 1]
  PROVE  \A i, j \in 0..n : i <= j => f[j] \subseteq f[i]
<1> SUFFICES ASSUME NEW i \in 0..n, NEW j \in i..n PROVE f[j] \subseteq f[i]
  OBVIOUS
<1> DEFINE S == {k \in i..n : f[k] \subseteq f[i]}
<1>1. i \in S
  OBVIOUS
<1>2. \A k \in i + 1 .. n : k - 1 \in S => k \in S
  <2>1. ASSUME NEW k \in i + 1 .. n, k - 1 \in S PROVE k \in S
    <3>1. k \in i..n /\ k \in 1..n
      OBVIOUS
    <3>2. f[k] \subseteq f[k - 1] /\ f[k - 1] \subseteq f[i]
      BY <2>1, <3>1
    <3> QED
      BY <3>1, <3>2
  <2> QED
    BY <2>1
<1> HIDE DEF S
<1>3. i..n \subseteq S
  BY <1>1, <1>2, StepwiseInduction
<1> QED
  BY <1>3 DEF S

LEMMA RisingNumbers ==
  ASSUME NEW n \in Nat, NEW f, \A j \in 1..n : f[j] \in Nat,
         \A j \in 1..(n - 1) : f[j] <= f[j + 1]
  PROVE  \A i, j \in 1..n : i <= j => f[i] <= f[j]
<1> SUFFICES ASSUME NEW i \in 1..n, NEW j \in i..n PROVE f[i] <= f[j]
  OBVIOUS
<1> DEFINE S == {k \in i..n : f[i] <= f[k]}
<1>0. i \in 0..n
  OBVIOUS
<1>1. i \in S
  OBVIOUS
<1>2. \A k \in i + 1 .. n : k - 1 \in S => k \in S
  <2>1. ASSUME NEW k \in i + 1 .. n, k - 1 \in S PROVE k \in S
    <3>1. k \in i..n /\ k - 1 \in 1..(n - 1) /\ k - 1 + 1 = k /\ k \in 1..n /\ k - 1 \in 1..n
      OBVIOUS
    <3>2. f[k - 1] <= f[k] /\ f[i] <= f[k - 1] /\ f[i] \in Nat /\ f[k] \in Nat /\ f[k - 1] \in Nat
      BY <2>1, <3>1
    <3>3. f[i] <= f[k]
      BY <3>2
    <3> QED
      BY <3>1, <3>3
  <2> QED
    BY <2>1
<1> HIDE DEF S
<1>3. i..n \subseteq S
  BY <1>0, <1>1, <1>2, StepwiseInduction
<1> QED
  BY <1>3 DEF S

LEMMA Crossing ==
  ASSUME NEW n \in Nat \ {0}, NEW f, \A j \in 1..n : f[j] \in Nat, f[1] = 0,
         NEW x \in Nat, 0 < x, x <= f[n]
  PROVE  \E j \in 1..(n - 1) : f[j] < x /\ x <= f[j + 1]
<1> DEFINE S == {k \in 1..n : x <= f[k]}
<1>1. S \subseteq Nat /\ S # {}
  OBVIOUS
<1>2. PICK k \in S : \A j \in S : k <= j
  BY <1>1, LeastExists
<1>3. k # 1
  OBVIOUS
<1>4. k - 1 \in 1..(n - 1) /\ k - 1 \in 1..n /\ ~(k <= k - 1) /\ k - 1 + 1 = k
  BY <1>3
<1>5. ~(x <= f[k - 1])
  BY <1>2, <1>4
<1>6. f[k - 1] < x /\ x <= f[k]
  BY <1>4, <1>5
<1> QED
  BY <1>4, <1>6

LEMMA MaxOfRange ==
  ASSUME NEW n \in Nat, NEW S, S \subseteq 1..n, S # {}
  PROVE  Max(S) \in S /\ \A i \in S : i <= Max(S)
<1>1. S \subseteq 0..n
  OBVIOUS
<1>2. \E i \in S : \A j \in S : j <= i
  BY <1>1, GreatestExists
<1>3. \E i \in S : \A j \in S : i >= j
  BY <1>2
<1> QED
  BY <1>3 DEF Max

LEMMA MaxIs ==
  ASSUME NEW n \in Nat, NEW S, S \subseteq 1..n, NEW x \in S, \A i \in S : i <= x
  PROVE  Max(S) = x
<1> DEFINE m == Max(S)
<1>1. m \in S /\ \A i \in S : i <= m
  BY MaxOfRange
<1> HIDE DEF m
<1>2. m \in 1..n /\ x \in 1..n
  BY <1>1
<1>3. m <= x /\ x <= m
  BY <1>1
<1>4. m = x
  BY <1>2, <1>3
<1> QED
  BY <1>4 DEF m

-----------------------------------------------------------------------------
(* The levels of an execution.  H is the sequence of the helpers whose     *)
(* branch is open, outermost first: level k is the branch of H[k], level 0 *)
(* the process itself.  V[k] is the variable map before that branch.  What *)
(* a level has pending are the updates of the helper opened in it.         *)

OnAt(c, H, k)    == IF k < Len(H) THEN H[k + 1].parent.on ELSE c.cas.on
StoreAt(c, V, k) == IF k < Len(V) THEN V[k + 1] ELSE c.vis
RevAt(c, H, k)   == IF k < Len(H) THEN H[k + 1].saved ELSE c.rev
UpdAt(H, u, k)   == IF k < Len(H) THEN H[k + 1].updates ELSE u

(* The branches of a switch are disjoint parts of its case. *)
Fits(h, on) ==
  /\ on \cup h.left \subseteq h.parent.on
  /\ on \cap h.left = {}
  /\ \A i \in 1..Len(h.updates) : h.updates[i].on \cap (on \cup h.left) = {}

LevelOK(c, H, V, k) ==
  /\ DOMAIN RevAt(c, H, k) \subseteq DOMAIN StoreAt(c, V, k)
  /\ k > 0 => Fits(H[k], OnAt(c, H, k)) /\ Undo(StoreAt(c, V, k), RevAt(c, H, k)) = V[k]

Layers(c, H, V, N) ==
  /\ c \in Contexts(N) /\ H \in Seq(Helpers(N)) /\ V \in Seq(Stores(N)) /\ Len(V) = Len(H)
  /\ \A v \in N : IsStatic(v) => v \in StaticVars
  /\ c.timing = "Initial" => H = <<>>
  /\ OnAt(c, H, 0) = Env
  /\ \A k \in 0..Len(H) : LevelOK(c, H, V, k)

LEMMA Nested ==
  ASSUME NEW c, NEW H, NEW V, NEW N, Layers(c, H, V, N), NEW k \in 0..Len(H)
  PROVE  c.cas.on \subseteq OnAt(c, H, k) /\ OnAt(c, H, k) \subseteq Env
         /\ \A j \in 0..k : OnAt(c, H, k) \subseteq OnAt(c, H, j)
<1> DEFINE f == [j \in 0..Len(H) |-> OnAt(c, H, j)]
<1>1. Len(H) \in Nat /\ OnAt(c, H, Len(H)) = c.cas.on /\ OnAt(c, H, 0) = Env
  BY DEF Layers, OnAt
<1>2. ASSUME NEW j \in 1..Len(H) PROVE f[j] \subseteq f[j - 1]
  <2>1. j \in 0..Len(H) /\ j - 1 \in 0..Len(H) /\ j - 1 < Len(H) /\ j - 1 + 1 = j /\ j > 0
    BY <1>1
  <2>2. Fits(H[j], OnAt(c, H, j)) /\ OnAt(c, H, j - 1) = H[j].parent.on
    BY <2>1 DEF LevelOK, Layers, OnAt
  <2> QED
    BY <2>1, <2>2 DEF Fits
<1> HIDE DEF f
<1>3. \A i, j \in 0..Len(H) : i <= j => f[j] \subseteq f[i]
  BY <1>1, <1>2, DecreasingSets
<1>4. \A j \in 0..Len(H) : f[j] = OnAt(c, H, j)
  BY DEF f
<1>5. Len(H) \in 0..Len(H) /\ 0 \in 0..Len(H) /\ k <= Len(H) /\ 0 <= k
      /\ \A j \in 0..k : j \in 0..Len(H) /\ j <= k
  BY <1>1
<1> QED
  BY <1>1, <1>3, <1>4, <1>5

(* What variable v stands for in valuation e, in a level with store s and  *)
(* updates u.                                                              *)
Value(s, v) == IF v \in DOMAIN s THEN s[v] ELSE Sig(FALSE, WireOn[v[2]])
Drivers(u, v, e) == {i \in DOMAIN u : e \in u[i].on /\ v \in DOMAIN u[i].val}
Pend(s, u, v, e) ==
  IF Drivers(u, v, e) = {} THEN e \in Value(s, v).on
  ELSE e \in u[Max(Drivers(u, v, e))].val[v].on

Deepest(c, H, k, e) == e \in OnAt(c, H, k) /\ (k < Len(H) => e \notin OnAt(c, H, k + 1))

(* From level b on, variable v is 1 in the valuations X. *)
ReadsAt(c, H, V, u, v, k, X) ==
  /\ v \in StaticVars \/ v \in DOMAIN StoreAt(c, V, k)
  /\ \A e \in Env : Deepest(c, H, k, e) =>
       (e \in X <=> Pend(StoreAt(c, V, k), UpdAt(H, u, k), v, e))
Reads(c, H, V, u, v, b, X) ==
  IF c.timing = "Initial" THEN v \in DOMAIN c.ini /\ c.ini[v].on = X
  ELSE \A k \in b..Len(H) : ReadsAt(c, H, V, u, v, k, X)

(* F gives every variable in scope the valuations in which it is 1, B the  *)
(* level it was declared in.                                               *)
Good(c, H, V, u, N, B, F) ==
  /\ Layers(c, H, V, N)
  /\ F \in [DOMAIN F -> SUBSET Env] /\ DOMAIN F \subseteq N
  /\ B \in [DOMAIN F -> 0..Len(H)]
  /\ \A v \in DOMAIN F : Reads(c, H, V, u, v, B[v], F[v])

LEMMA GoodFacts ==
  ASSUME NEW c, NEW H, NEW V, NEW u, NEW N, NEW B, NEW F, Good(c, H, V, u, N, B, F)
  PROVE  /\ Layers(c, H, V, N) /\ c \in Contexts(N) /\ H \in Seq(Helpers(N)) /\ V \in Seq(Stores(N))
         /\ Len(H) \in Nat /\ Len(V) = Len(H) /\ c.cas \in Cases /\ c.cas.on \subseteq Env
         /\ c.vis \in Stores(N) /\ c.rev \in Reverts(N) /\ DOMAIN c.rev \subseteq DOMAIN c.vis
         /\ F \in [DOMAIN F -> SUBSET Env] /\ DOMAIN F \subseteq N /\ B \in [DOMAIN F -> 0..Len(H)]
         /\ \A v \in N : IsStatic(v) => v \in StaticVars
         /\ c.timing = "Initial" => H = <<>> /\ c.cas.on = Env
<1>1. /\ Layers(c, H, V, N) /\ c \in Contexts(N) /\ H \in Seq(Helpers(N)) /\ V \in Seq(Stores(N))
      /\ Len(V) = Len(H) /\ \A v \in N : IsStatic(v) => v \in StaticVars
      /\ F \in [DOMAIN F -> SUBSET Env] /\ DOMAIN F \subseteq N /\ B \in [DOMAIN F -> 0..Len(H)]
  BY DEF Good, Layers
<1>2. c.vis \in Stores(N) /\ c.rev \in Reverts(N) /\ c.cas \in Cases
  BY <1>1, ContextType
<1>3. Len(H) \in Nat /\ Len(H) \in 0..Len(H)
  BY <1>1
<1>4. DOMAIN c.rev \subseteq DOMAIN c.vis
  BY <1>1, <1>3 DEF Layers, LevelOK, RevAt, StoreAt
<1>5. c.timing = "Initial" => H = <<>> /\ c.cas.on = Env
  BY <1>1 DEF Layers, OnAt
<1>6. c.cas.on \subseteq Env
  BY <1>2 DEF Cases
<1> QED
  BY <1>1, <1>2, <1>3, <1>4, <1>5, <1>6

(* A variable is rebound in the innermost level. *)
LEMMA Rebind ==
  ASSUME NEW c, NEW H, NEW V, NEW u, NEW N, NEW B, NEW F, Good(c, H, V, u, N, B, F),
         c.timing # "Initial",
         NEW d, d \in Contexts(N), d.timing = c.timing, d.cas.on = c.cas.on,
         NEW W, Written(c.vis, c.rev, d.vis, d.rev, W), NEW w, NEW J,
         DOMAIN J = DOMAIN F, J \in [DOMAIN F -> SUBSET Env],
         \A v \in DOMAIN F : \A e \in Env :
           e \in J[v] <=> (IF e \in c.cas.on THEN Pend(d.vis, w, v, e) ELSE e \in F[v])
  PROVE  Good(d, H, V, w, N, B, J)
<1>1. /\ Layers(c, H, V, N) /\ Len(H) \in Nat /\ Len(V) = Len(H)
      /\ c.vis \in Stores(N) /\ c.rev \in Reverts(N)
  BY ContextType DEF Good, Layers
<1>2. \A k \in 0..Len(H) : OnAt(d, H, k) = OnAt(c, H, k)
  BY DEF OnAt
<1>3. \A k \in 0..Len(H) : k < Len(H) => /\ StoreAt(d, V, k) = StoreAt(c, V, k)
                                         /\ RevAt(d, H, k) = RevAt(c, H, k)
                                         /\ UpdAt(H, w, k) = UpdAt(H, u, k)
  BY <1>1 DEF StoreAt, RevAt, UpdAt
<1>4. /\ StoreAt(c, V, Len(H)) = c.vis /\ RevAt(c, H, Len(H)) = c.rev
      /\ StoreAt(d, V, Len(H)) = d.vis /\ RevAt(d, H, Len(H)) = d.rev
      /\ UpdAt(H, w, Len(H)) = w /\ OnAt(c, H, Len(H)) = c.cas.on
  BY <1>1 DEF StoreAt, RevAt, UpdAt, OnAt
<1>5. \A k \in 0..Len(H) : LevelOK(d, H, V, k)
  <2>1. \A k \in 0..Len(H) : LevelOK(c, H, V, k)
    BY <1>1 DEF Layers
  <2>2. DOMAIN c.rev \subseteq DOMAIN c.vis
    BY <1>1, <1>4, <2>1 DEF LevelOK
  <2>3. Undo(d.vis, d.rev) = Undo(c.vis, c.rev) /\ DOMAIN d.rev \subseteq DOMAIN d.vis
    BY <1>1, <2>2, UndoAfterWrite
  <2>4. ASSUME NEW k \in 0..Len(H), k < Len(H) PROVE LevelOK(d, H, V, k)
    BY <1>2, <1>3, <2>1, <2>4 DEF LevelOK
  <2>5. LevelOK(d, H, V, Len(H))
    BY <1>1, <1>2, <1>4, <2>1, <2>3 DEF LevelOK
  <2>6. \A k \in 0..Len(H) : k < Len(H) \/ k = Len(H)
    BY <1>1
  <2> QED
    BY <2>4, <2>5, <2>6
<1>6. Layers(d, H, V, N)
  BY <1>1, <1>2, <1>5 DEF Layers
<1>7. ASSUME NEW v \in DOMAIN F PROVE Reads(d, H, V, w, v, B[v], J[v])
  <2>1. B[v] \in 0..Len(H) /\ J[v] \in SUBSET Env
    BY DEF Good
  <2>2. \A k \in B[v]..Len(H) : ReadsAt(c, H, V, u, v, k, F[v])
    BY DEF Good, Reads
  <2>3. ASSUME NEW k \in B[v]..Len(H), k < Len(H) PROVE ReadsAt(d, H, V, w, v, k, J[v])
    <3>1. k \in 0..Len(H) /\ k + 1 \in 0..Len(H)
      BY <1>1, <2>1, <2>3
    <3>2. v \in StaticVars \/ v \in DOMAIN StoreAt(d, V, k)
      BY <1>3, <2>2, <2>3, <3>1 DEF ReadsAt
    <3>3. ASSUME NEW e \in Env, Deepest(d, H, k, e)
          PROVE  e \in J[v] <=> Pend(StoreAt(d, V, k), UpdAt(H, w, k), v, e)
      <4>1. Deepest(c, H, k, e)
        BY <1>2, <2>3, <3>1, <3>3 DEF Deepest
      <4>2. e \in F[v] <=> Pend(StoreAt(c, V, k), UpdAt(H, u, k), v, e)
        BY <2>2, <4>1 DEF ReadsAt
      <4>3. e \in J[v] <=> (IF e \in c.cas.on THEN Pend(d.vis, w, v, e) ELSE e \in F[v])
        OBVIOUS
      <4>4. e \notin c.cas.on
        BY <1>1, <2>3, <3>1, <4>1, Nested DEF Deepest
      <4> QED
        BY <1>3, <2>3, <3>1, <4>2, <4>3, <4>4
    <3> QED
      BY <3>2, <3>3 DEF ReadsAt
  <2>4. ReadsAt(d, H, V, w, v, Len(H), J[v])
    <3>1. ReadsAt(c, H, V, u, v, Len(H), F[v]) /\ Len(H) \in 0..Len(H)
      BY <1>1, <2>1, <2>2
    <3>2. v \in StaticVars \/ v \in DOMAIN d.vis
      BY <1>4, <3>1 DEF ReadsAt, Written
    <3>3. \A e \in Env : Deepest(d, H, Len(H), e) => e \in c.cas.on
      BY <1>1, <1>2, <1>4, <3>1 DEF Deepest
    <3>4. \A e \in Env : e \in c.cas.on => (e \in J[v] <=> Pend(d.vis, w, v, e))
      OBVIOUS
    <3> QED
      BY <1>4, <3>2, <3>3, <3>4 DEF ReadsAt
  <2>5. \A k \in B[v]..Len(H) : k < Len(H) \/ k = Len(H)
    BY <1>1, <2>1
  <2>6. \A k \in B[v]..Len(H) : ReadsAt(d, H, V, w, v, k, J[v])
    BY <2>3, <2>4, <2>5
  <2> QED
    BY <2>6 DEF Reads
<1>8. B \in [DOMAIN J -> 0..Len(H)] /\ DOMAIN J \subseteq N /\ J \in [DOMAIN J -> SUBSET Env]
  BY DEF Good
<1> QED
  BY <1>6, <1>7, <1>8 DEF Good

(* The levels depend on the maps, the current case and the kind of process. *)
SameStore(c, d) ==
  /\ d.timing = c.timing /\ d.vis = c.vis /\ d.rev = c.rev /\ d.ini = c.ini
  /\ d.cas.on = c.cas.on

LEMMA SameLevels ==
  ASSUME NEW c, NEW H, NEW V, NEW u, NEW N, NEW B, NEW F, Good(c, H, V, u, N, B, F),
         NEW M, N \subseteq M, \A v \in M : IsStatic(v) => v \in StaticVars,
         NEW d \in Contexts(M), SameStore(c, d)
  PROVE  Good(d, H, V, u, M, B, F)
<1>1. /\ \A k : OnAt(d, H, k) = OnAt(c, H, k) /\ StoreAt(d, V, k) = StoreAt(c, V, k)
                /\ RevAt(d, H, k) = RevAt(c, H, k)
      /\ d.timing = c.timing /\ d.ini = c.ini
  BY DEF SameStore, OnAt, StoreAt, RevAt
<1>2. \A k : LevelOK(c, H, V, k) => LevelOK(d, H, V, k)
  BY <1>1 DEF LevelOK
<1>3. H \in Seq(Helpers(M)) /\ V \in Seq(Stores(M)) /\ Len(V) = Len(H)
  <2>1. Helpers(N) \subseteq Helpers(M) /\ Stores(N) \subseteq Stores(M)
    BY ContextsGrow, StoresGrow
  <2>2. H \in Seq(Helpers(N)) /\ V \in Seq(Stores(N)) /\ Len(V) = Len(H)
    BY DEF Good, Layers
  <2> HIDE DEF Helpers, Stores
  <2> QED
    BY <2>1, <2>2, SeqMonotonic
<1>4. Layers(d, H, V, M)
  BY <1>1, <1>2, <1>3 DEF Layers, Good
<1>5. \A v, b, X : Reads(c, H, V, u, v, b, X) => Reads(d, H, V, u, v, b, X)
  BY <1>1 DEF Reads, ReadsAt, Deepest
<1> QED
  BY <1>4, <1>5 DEF Good

LEMMA NoPending ==
  ASSUME NEW s, NEW v, NEW e
  PROVE  Pend(s, <<>>, v, e) <=> e \in Value(s, v).on
<1>1. Drivers(<<>>, v, e) = {}
  BY DEF Drivers
<1> QED
  BY <1>1 DEF Pend

(* The valuations of the current case that no branch of the pending switch *)
(* has taken.                                                              *)
Clear(c, u, R) == R \subseteq c.cas.on /\ \A i \in DOMAIN u : u[i].on \cap R = {}

(* What evaluate gives for a variable in scope. *)
LEMMA ReadClear ==
  ASSUME NEW c, NEW H, NEW V, NEW u, NEW N, NEW B, NEW F, Good(c, H, V, u, N, B, F),
         c.timing # "Initial", NEW v \in DOMAIN F, NEW R, Clear(c, u, R)
  PROVE  /\ Evaluate(c, v) = Value(c.vis, v) /\ Evaluate(c, v) \in Signals
         /\ EvaluateOK(c, v)
         /\ \A e \in R : e \in Evaluate(c, v).on <=> e \in F[v]
<1>1. /\ Len(H) \in Nat /\ Len(V) = Len(H) /\ B[v] \in 0..Len(H) /\ v \in N
      /\ c.vis \in Stores(N) /\ c.cas.on \subseteq Env
      /\ StoreAt(c, V, Len(H)) = c.vis /\ UpdAt(H, u, Len(H)) = u /\ OnAt(c, H, Len(H)) = c.cas.on
  BY ContextType DEF Good, Layers, Cases, StoreAt, UpdAt, OnAt
<1>2. ReadsAt(c, H, V, u, v, Len(H), F[v])
  <2>1. Reads(c, H, V, u, v, B[v], F[v])
    BY DEF Good
  <2>2. Len(H) \in B[v]..Len(H)
    BY <1>1
  <2> QED
    BY <2>1, <2>2 DEF Reads
<1>3. v \in StaticVars \/ v \in DOMAIN c.vis
  BY <1>1, <1>2 DEF ReadsAt
<1>4. EvaluateOK(c, v) /\ Evaluate(c, v) = Value(c.vis, v)
  BY <1>3, NameFacts DEF EvaluateOK, Evaluate, Bound, Value
<1>5. Evaluate(c, v) \in Signals
  <2>1. CASE v \in DOMAIN c.vis
    <3>1. c.vis[v] \in Signals
      BY <1>1, <2>1, StoreType
    <3> QED
      BY <2>1, <3>1 DEF Evaluate, Bound
  <2>2. CASE v \notin DOMAIN c.vis
    <3>1. WireOn[v[2]] \in SUBSET Env /\ IsStatic(v)
      BY <1>3, <2>2, StaticWire, NameFacts
    <3>2. Sig(FALSE, WireOn[v[2]]) \in Signals
      BY <3>1, VaryingSignals
    <3> QED
      BY <2>2, <3>1, <3>2 DEF Evaluate, Bound
  <2> QED
    BY <2>1, <2>2
<1>6. ASSUME NEW e \in R PROVE e \in Evaluate(c, v).on <=> e \in F[v]
  <2>1. Deepest(c, H, Len(H), e) /\ e \in Env
    BY <1>1, <1>6 DEF Deepest, Clear
  <2>2. e \in F[v] <=> Pend(c.vis, u, v, e)
    BY <1>1, <1>2, <2>1 DEF ReadsAt
  <2>3. Drivers(u, v, e) = {}
    BY <1>6 DEF Drivers, Clear
  <2> QED
    BY <1>4, <2>2, <2>3 DEF Pend
<1> QED
  BY <1>4, <1>5, <1>6

LEMMA ReadTop ==
  ASSUME NEW c, NEW H, NEW V, NEW N, NEW B, NEW F, Good(c, H, V, <<>>, N, B, F),
         c.timing # "Initial", NEW v \in DOMAIN F
  PROVE  /\ Evaluate(c, v) = Value(c.vis, v) /\ Evaluate(c, v) \in Signals
         /\ EvaluateOK(c, v)
         /\ \A e \in c.cas.on : e \in Evaluate(c, v).on <=> e \in F[v]
<1>1. Clear(c, <<>>, c.cas.on)
  BY DEF Clear
<1> QED
  BY <1>1, ReadClear

LEMMA BwmuxType ==
  ASSUME NEW a \in Signals, NEW b \in Signals, NEW s \in Signals
  PROVE  Bwmux(a, b, s) \in Signals /\ Bwmux(a, b, s).on = Blend(a.on, b.on, s.on)
<1>1. a.on \in SUBSET Env /\ b.on \in SUBSET Env /\ s.on \in SUBSET Env
  BY SignalType
<1>2. Blend(a.on, b.on, s.on) \in SUBSET Env
  BY <1>1 DEF Blend
<1>3. CASE s = S1
  BY <1>1, <1>3, ConstSignals DEF Bwmux, Blend
<1>4. CASE s = S0
  BY <1>1, <1>4, ConstSignals DEF Bwmux, Blend
<1>5. CASE s # S0 /\ s # S1
  <2>1. s.const = FALSE
    BY <1>5, SignalType
  <2>2. Bwmux(a, b, s) = Sig(FALSE, Blend(a.on, b.on, s.on))
    BY <2>1 DEF Bwmux
  <2> QED
    BY <1>2, <2>2, VaryingSignals
<1> QED
  BY <1>3, <1>4, <1>5

LEMMA NoteType ==
  ASSUME NEW N, NEW c \in Contexts(N), NEW v \in N, IsStatic(v) => v \in StaticVars,
         NEW b \in BOOLEAN
  PROVE  /\ NoteAssignment(c, v, b) \in Contexts(N)
         /\ SameControl(c, NoteAssignment(c, v, b)) /\ SameStore(c, NoteAssignment(c, v, b))
         /\ NoteAssignment(c, v, b).broken = c.broken
<1> DEFINE d(x) == [c EXCEPT !.diag = @ \cup {x}]
<1>1. \A x \in Diags : d(x) \in Contexts(N) /\ SameControl(c, d(x)) /\ SameStore(c, d(x))
                       /\ d(x).broken = c.broken
  BY DEF Contexts, SameControl, SameStore
<1>2. IsStatic(v) => /\ [c EXCEPT !.blocking = @ \cup {v}] \in Contexts(N)
                     /\ SameControl(c, [c EXCEPT !.blocking = @ \cup {v}])
                     /\ SameStore(c, [c EXCEPT !.blocking = @ \cup {v}])
                     /\ [c EXCEPT !.blocking = @ \cup {v}].broken = c.broken
  BY DEF Contexts, SameControl, SameStore
<1>3. IsStatic(v) => /\ [c EXCEPT !.nonblocking = @ \cup {v}] \in Contexts(N)
                     /\ SameControl(c, [c EXCEPT !.nonblocking = @ \cup {v}])
                     /\ SameStore(c, [c EXCEPT !.nonblocking = @ \cup {v}])
                     /\ [c EXCEPT !.nonblocking = @ \cup {v}].broken = c.broken
  BY DEF Contexts, SameControl, SameStore
<1>4. SameControl(c, c) /\ SameStore(c, c)
  BY DEF SameControl, SameStore
<1>5. "BlockingAfterNonblocking" \in Diags /\ "NonblockingInInitial" \in Diags
      /\ "NonblockingAfterBlocking" \in Diags
  BY DEF Diags
<1>6. \/ NoteAssignment(c, v, b) = c
      \/ IsStatic(v) /\ NoteAssignment(c, v, b) = [c EXCEPT !.blocking = @ \cup {v}]
      \/ IsStatic(v) /\ NoteAssignment(c, v, b) = [c EXCEPT !.nonblocking = @ \cup {v}]
      \/ NoteAssignment(c, v, b) = d("BlockingAfterNonblocking")
      \/ NoteAssignment(c, v, b) = d("NonblockingInInitial")
      \/ NoteAssignment(c, v, b) = d("NonblockingAfterBlocking")
  BY DEF NoteAssignment
<1> HIDE DEF d
<1> QED
  BY <1>1, <1>2, <1>3, <1>4, <1>5, <1>6

LEMMA LoggedType ==
  ASSUME NEW N, NEW c \in Contexts(N), NEW v \in N, IsStatic(v) => v \in StaticVars,
         NEW r \in Signals, NEW m \in Signals
  PROVE  LET d == Logged(c, v, r, m)
         IN  d \in Contexts(N) /\ SameControl(c, d) /\ SameStore(c, d) /\ d.broken = c.broken
             /\ d.diag = c.diag /\ d.blocking = c.blocking /\ d.nonblocking = c.nonblocking
<1> DEFINE a == [v |-> v, path |-> c.cas.path, on |-> c.cas.on \cap m.on, val |-> r.on]
<1>1. SameControl(c, c) /\ SameStore(c, c)
  BY DEF SameControl, SameStore
<1>2. CASE ~IsStatic(v)
  BY <1>1, <1>2 DEF Logged
<1>3. CASE IsStatic(v)
  <2>1. r.on \in SUBSET Env /\ m.on \in SUBSET Env /\ c.cas \in Cases /\ c.log \in Seq(Actions)
    BY SignalType, ContextType
  <2>2. a \in Actions
    BY <1>3, <2>1 DEF Actions, Cases
  <2>3. Logged(c, v, r, m) = [c EXCEPT !.log = Append(c.log, a)]
    BY <1>3 DEF Logged
  <2> HIDE DEF a
  <2>4. Append(c.log, a) \in Seq(Actions)
    BY <2>1, <2>2
  <2> QED
    BY <2>3, <2>4 DEF Contexts, SameControl, SameStore
<1> QED
  BY <1>2, <1>3

(* The effect of an assignment on the values. *)
Assigned(c, F, v, r, m) ==
  IF c.timing = "Initial" /\ r.const = FALSE THEN F
  ELSE [F EXCEPT ![v] = Blend(@, r.on, c.cas.on \cap m.on)]

(* The values and base levels after v was given the value x on `on'. *)
Put(F, v, x, on) ==
  [u \in DOMAIN F \cup {v} |->
     IF u = v THEN (IF v \in DOMAIN F THEN F[v] \ on ELSE {}) \cup (x \cap on) ELSE F[u]]
PutBase(B, F, v, n) == [u \in DOMAIN F \cup {v} |-> IF u \in DOMAIN F THEN B[u] ELSE n]

(* A bit is set to r, in a context that differs from c in what was noted.  *)
LEMMA SetBitGood ==
  ASSUME NEW c, NEW H, NEW V, NEW N, NEW B, NEW F, Good(c, H, V, <<>>, N, B, F),
         c.timing # "Initial", NEW v \in N, NEW r \in Signals,
         NEW d \in Contexts(N), SameStore(c, d)
  PROVE  Good(SetBit(d, v, r), H, V, <<>>, N, PutBase(B, F, v, Len(H)), Put(F, v, r.on, c.cas.on))
<1> DEFINE J == Put(F, v, r.on, c.cas.on)
           C == PutBase(B, F, v, Len(H))
           G0 == [u \in DOMAIN F |-> J[u]]
           D == SetBit(d, v, r)
<1>0. /\ Layers(c, H, V, N) /\ Len(H) \in Nat /\ Len(V) = Len(H) /\ c.cas.on \subseteq Env
      /\ F \in [DOMAIN F -> SUBSET Env] /\ DOMAIN F \subseteq N /\ B \in [DOMAIN F -> 0..Len(H)]
      /\ r.on \in SUBSET Env /\ \A u \in N : IsStatic(u) => u \in StaticVars
  BY GoodFacts, SignalType
<1>1. Good(d, H, V, <<>>, N, B, F) /\ d.timing # "Initial" /\ d.cas.on = c.cas.on
  BY <1>0, SameLevels DEF SameStore
<1>2. /\ D \in Contexts(N) /\ D.timing = d.timing /\ D.cas.on = d.cas.on
      /\ Written(d.vis, d.rev, D.vis, D.rev, {v}) /\ D.vis[v] = r
  <2>1. D \in Contexts(N) /\ BitSet(d, D, v, r)
    BY SetBitFields
  <2> HIDE DEF D
  <2> QED
    BY <2>1 DEF BitSet, SameControl
<1> HIDE DEF D
<1>3. ASSUME NEW u \in DOMAIN F, NEW e \in Env
      PROVE  e \in G0[u] <=> (IF e \in d.cas.on THEN Pend(D.vis, <<>>, u, e) ELSE e \in F[u])
  <2>1. e \in d.cas.on => (Pend(D.vis, <<>>, u, e) <=> e \in Value(D.vis, u).on)
    BY NoPending
  <2>2. CASE u = v
    <3>0. G0[u] = (F[v] \ c.cas.on) \cup (r.on \cap c.cas.on)
      BY <2>2 DEF Put
    <3>1. Value(D.vis, v) = r
      BY <1>2 DEF Written, Value
    <3> HIDE DEF G0
    <3> QED
      BY <1>1, <2>1, <2>2, <3>0, <3>1
  <2>3. CASE u # v
    <3>1. Value(D.vis, u) = Value(d.vis, u)
      BY <1>2, <2>3 DEF Written, Value
    <3>2. Evaluate(d, u) = Value(d.vis, u) /\ \A x \in d.cas.on : x \in Evaluate(d, u).on <=> x \in F[u]
      BY <1>1, ReadTop
    <3>3. G0[u] = F[u]
      BY <2>3 DEF Put
    <3> HIDE DEF G0
    <3> QED
      BY <2>1, <3>1, <3>2, <3>3
  <2> QED
    BY <2>2, <2>3
<1>4. DOMAIN G0 = DOMAIN F /\ G0 \in [DOMAIN F -> SUBSET Env]
  BY <1>0 DEF Put
<1>5. Good(D, H, V, <<>>, N, B, G0)
  <2> HIDE DEF G0
  <2> QED
    BY <1>1, <1>2, <1>3, <1>4, Rebind
<1>6. /\ J \in [DOMAIN J -> SUBSET Env] /\ DOMAIN J \subseteq N /\ C \in [DOMAIN J -> 0..Len(H)]
      /\ DOMAIN J = DOMAIN F \cup {v}
  BY <1>0 DEF Put, PutBase
<1>7. \A u \in DOMAIN F : C[u] = B[u] /\ J[u] = G0[u]
  BY DEF PutBase
<1>8. v \notin DOMAIN F => C[v] = Len(H) /\ \A e \in c.cas.on : e \in J[v] <=> e \in r.on
  BY DEF Put, PutBase
<1> HIDE DEF J, C, G0
<1>9. ASSUME NEW u \in DOMAIN F PROVE Reads(D, H, V, <<>>, u, C[u], J[u])
  BY <1>5, <1>7, <1>9 DEF Good
<1>10. ASSUME v \notin DOMAIN F PROVE Reads(D, H, V, <<>>, v, C[v], J[v])
  <2>1. /\ StoreAt(D, V, Len(H)) = D.vis /\ UpdAt(H, <<>>, Len(H)) = <<>>
        /\ OnAt(D, H, Len(H)) = c.cas.on
    BY <1>0, <1>1, <1>2 DEF StoreAt, UpdAt, OnAt
  <2>2. v \in DOMAIN D.vis /\ Value(D.vis, v) = r
    BY <1>2 DEF Written, Value
  <2>3. \A e \in Env : Deepest(D, H, Len(H), e) => (e \in J[v] <=> Pend(D.vis, <<>>, v, e))
    BY <1>8, <1>10, <2>1, <2>2, NoPending DEF Deepest
  <2>4. ReadsAt(D, H, V, <<>>, v, Len(H), J[v])
    BY <2>1, <2>2, <2>3 DEF ReadsAt
  <2>5. \A k \in Len(H)..Len(H) : k = Len(H)
    BY <1>0
  <2> QED
    BY <1>1, <1>2, <1>8, <1>10, <2>4, <2>5 DEF Reads
<1>11. Layers(D, H, V, N)
  BY <1>5 DEF Good
<1>12. Good(D, H, V, <<>>, N, C, J)
  BY <1>6, <1>9, <1>10, <1>11 DEF Good
<1> QED
  BY <1>12 DEF D, J, C

(* An initial process keeps its values in a dictionary of its own. *)
SetInit(c, v, r) == [c EXCEPT !.ini = Over([u \in {v} |-> r], @)]

LEMMA SetInitGood ==
  ASSUME NEW c, NEW H, NEW V, NEW N, NEW B, NEW F, Good(c, H, V, <<>>, N, B, F),
         c.timing = "Initial", NEW v \in N, NEW r \in Signals, r.const = TRUE,
         NEW d \in Contexts(N), SameStore(c, d)
  PROVE  Good(SetInit(d, v, r), H, V, <<>>, N, PutBase(B, F, v, Len(H)), Put(F, v, r.on, Env))
<1> DEFINE J == Put(F, v, r.on, Env)
           C == PutBase(B, F, v, Len(H))
           f == [u \in {v} |-> r]
           D == SetInit(d, v, r)
<1>0. /\ Layers(c, H, V, N) /\ Len(H) \in Nat /\ c.ini \in Inits(N) /\ r \in {S0, S1}
      /\ F \in [DOMAIN F -> SUBSET Env] /\ DOMAIN F \subseteq N /\ B \in [DOMAIN F -> 0..Len(H)]
      /\ r.on \in SUBSET Env /\ \A u \in N : IsStatic(u) => u \in StaticVars
  BY GoodFacts, ContextType, SignalType
<1>1. D = [d EXCEPT !.ini = Over(f, c.ini)]
  BY DEF SetInit, SameStore
<1>2. Over(f, c.ini) \in Inits(N)
  <2>1. DOMAIN c.ini \subseteq N /\ \A u \in DOMAIN c.ini : c.ini[u] \in {S0, S1}
    BY <1>0 DEF Inits
  <2>2. Over(f, c.ini) \in [{v} \cup DOMAIN c.ini -> {S0, S1}] /\ {v} \cup DOMAIN c.ini \subseteq N
    BY <1>0, <2>1 DEF Over
  <2> QED
    BY <2>2 DEF Inits
<1>3. DOMAIN Over(f, c.ini) = {v} \cup DOMAIN c.ini /\ Over(f, c.ini)[v] = r
      /\ \A u \in DOMAIN c.ini \ {v} : Over(f, c.ini)[u] = c.ini[u]
  BY DEF Over
<1>4. /\ J \in [DOMAIN J -> SUBSET Env] /\ DOMAIN J \subseteq N /\ C \in [DOMAIN J -> 0..Len(H)]
      /\ DOMAIN J = DOMAIN F \cup {v} /\ J[v] = r.on /\ \A u \in DOMAIN F \ {v} : J[u] = F[u]
  BY <1>0 DEF Put, PutBase
<1> HIDE DEF f
<1>5. /\ D \in Contexts(N) /\ D.timing = "Initial" /\ D.vis = c.vis /\ D.rev = c.rev
      /\ D.cas.on = c.cas.on /\ D.ini = Over(f, c.ini)
  BY <1>1, <1>2 DEF Contexts, SameStore
<1> HIDE DEF J, C, D
<1>6. \A k : OnAt(D, H, k) = OnAt(c, H, k) /\ StoreAt(D, V, k) = StoreAt(c, V, k)
             /\ RevAt(D, H, k) = RevAt(c, H, k)
  BY <1>5 DEF OnAt, StoreAt, RevAt
<1>7. Layers(D, H, V, N)
  BY <1>0, <1>5, <1>6 DEF Layers, LevelOK
<1>8. \A u \in DOMAIN F : u \in DOMAIN c.ini /\ c.ini[u].on = F[u]
  BY DEF Good, Reads
<1>9. \A u \in DOMAIN J : Reads(D, H, V, <<>>, u, C[u], J[u])
  BY <1>3, <1>4, <1>5, <1>8 DEF Reads
<1>10. Good(D, H, V, <<>>, N, C, J)
  BY <1>4, <1>7, <1>9 DEF Good
<1> QED
  BY <1>10 DEF D, J, C

(* What an assignment changes besides the values. *)
Noted(c, d, v, r, m, b) ==
  /\ SameControl(c, d) /\ d.broken = c.broken
  /\ m = S0 => d = c
  /\ m # S0 => LET n == NoteAssignment(c, v, b)
               IN  /\ d.blocking = n.blocking /\ d.nonblocking = n.nonblocking
                   /\ n.diag \subseteq d.diag
                   /\ c.timing = "Initial" /\ r.const = FALSE => d.diag # {}

UpdateCase(c, d, N, v, r, m) ==
  \/ m = S0 /\ d = c
  \/ /\ m # S0 /\ c.timing = "Initial" /\ r.const = FALSE
     /\ d \in Contexts(N) /\ SameStore(c, d)
  \/ /\ m # S0 /\ c.timing = "Initial" /\ r.const = TRUE
     /\ \E x \in Contexts(N) : SameStore(c, x) /\ d = SetInit(x, v, r)
  \/ /\ m # S0 /\ c.timing # "Initial"
     /\ \E x \in Contexts(N) :
          SameStore(c, x) /\ d = SetBit(x, v, IF m = S1 THEN r ELSE Bwmux(Evaluate(c, v), r, m))

LEMMA UpdateCases ==
  ASSUME NEW c, NEW H, NEW V, NEW N, NEW B, NEW F, Good(c, H, V, <<>>, N, B, F),
         NEW v \in N, NEW r \in Signals, NEW m \in Signals, NEW b \in BOOLEAN,
         v \in DOMAIN F \/ m = S1
  PROVE  LET d == Update(c, v, r, m, b)
         IN  Noted(c, d, v, r, m, b) /\ UpdateCase(c, d, N, v, r, m)
<1> DEFINE n == NoteAssignment(c, v, b)
           l == Logged(n, v, r, m)
           d == Update(c, v, r, m, b)
<1>0. c \in Contexts(N) /\ (IsStatic(v) => v \in StaticVars) /\ r.const \in BOOLEAN
      /\ DOMAIN F \subseteq N
  BY GoodFacts, SignalType
<1>1. n \in Contexts(N) /\ SameControl(c, n) /\ SameStore(c, n) /\ n.broken = c.broken
  BY <1>0, NoteType
<1> HIDE DEF n
<1>2. l \in Contexts(N) /\ SameControl(n, l) /\ SameStore(n, l) /\ l.broken = n.broken
      /\ l.diag = n.diag /\ l.blocking = n.blocking /\ l.nonblocking = n.nonblocking
  BY <1>0, <1>1, LoggedType
<1> HIDE DEF l
<1>3. SameControl(c, l) /\ SameStore(c, l) /\ l.broken = c.broken
  BY <1>1, <1>2 DEF SameControl, SameStore
<1>4. CASE m = S0
  <2>1. d = c
    BY <1>4, ConstSignals DEF Update
  <2> QED
    BY <1>4, <2>1 DEF Noted, SameControl, UpdateCase
<1>5. CASE m # S0 /\ c.timing = "Initial" /\ r.const = FALSE
  <2>1. d = [n EXCEPT !.diag = @ \cup {"NonconstantInitial"}]
    BY <1>5 DEF Update, n
  <2> HIDE DEF d
  <2>2. d \in Contexts(N) /\ SameControl(n, d) /\ SameStore(n, d) /\ d.broken = n.broken
        /\ d.blocking = n.blocking /\ d.nonblocking = n.nonblocking /\ n.diag \subseteq d.diag
        /\ d.diag # {}
    BY <1>1, <2>1 DEF Contexts, SameControl, SameStore, Diags
  <2>3. SameControl(c, d) /\ SameStore(c, d) /\ d.broken = c.broken
    BY <1>1, <2>2 DEF SameControl, SameStore
  <2>4. Noted(c, d, v, r, m, b)
    BY <1>5, <2>2, <2>3 DEF Noted, n
  <2> QED
    BY <1>5, <2>2, <2>3, <2>4 DEF d, UpdateCase
<1>6. CASE m # S0 /\ c.timing = "Initial" /\ r.const = TRUE
  <2>1. d = SetInit(n, v, r)
    BY <1>6 DEF Update, n, SetInit
  <2> HIDE DEF d
  <2>2. SameControl(n, d) /\ d.broken = n.broken
        /\ d.blocking = n.blocking /\ d.nonblocking = n.nonblocking /\ d.diag = n.diag
    BY <1>1, <2>1 DEF Contexts, SameControl, SetInit
  <2>3. Noted(c, d, v, r, m, b)
    BY <1>1, <1>6, <2>2 DEF Noted, SameControl, n
  <2> QED
    BY <1>1, <1>6, <2>1, <2>3 DEF d, UpdateCase
<1>7. CASE m # S0 /\ c.timing # "Initial"
  <2> DEFINE y == IF m = S1 THEN r ELSE Bwmux(Evaluate(c, v), r, m)
             x == IF m = S1 THEN l ELSE [l EXCEPT !.broken = @ \/ ~EvaluateOK(c, v)]
  <2>1. m # S1 => EvaluateOK(c, v) /\ Evaluate(c, v) \in Signals
    BY <1>7, ReadTop
  <2>2. y \in Signals
    BY <2>1, BwmuxType
  <2>3. EvaluateOK(l, v) <=> EvaluateOK(c, v)
    BY <1>3 DEF EvaluateOK, Bound, SameStore
  <2>4. x \in Contexts(N) /\ SameControl(c, x) /\ SameStore(c, x) /\ x.broken = c.broken
        /\ x.blocking = n.blocking /\ x.nonblocking = n.nonblocking /\ x.diag = n.diag
    <3>1. CASE m = S1
      BY <1>2, <1>3, <3>1
    <3>2. CASE m # S1
      BY <1>2, <1>3, <2>1, <3>2, ContextType DEF Contexts, SameControl, SameStore
    <3> QED
      BY <3>1, <3>2
  <2>5. d = SetBit(x, v, y)
    BY <1>7 DEF Update, l, n
  <2> HIDE DEF d, x, y
  <2>6. BitSet(x, d, v, y)
    BY <2>2, <2>4, <2>5, SetBitFields
  <2>7. SameControl(c, d) /\ d.broken = c.broken
        /\ d.blocking = n.blocking /\ d.nonblocking = n.nonblocking /\ d.diag = n.diag
    BY <2>4, <2>6 DEF BitSet, SameControl
  <2>8. Noted(c, d, v, r, m, b)
    BY <1>7, <2>7 DEF Noted, n
  <2> QED
    BY <1>7, <2>4, <2>5, <2>8 DEF d, y, UpdateCase
<1> QED
  BY <1>0, <1>4, <1>5, <1>6, <1>7

(* update_variable_state keeps the levels; the variable takes its value    *)
(* from r where the current case and the mask are selected.                *)
LEMMA UpdateGood ==
  ASSUME NEW c, NEW H, NEW V, NEW N, NEW B, NEW F, Good(c, H, V, <<>>, N, B, F),
         NEW v \in DOMAIN F, NEW r \in Signals, NEW m \in Signals, NEW b \in BOOLEAN,
         c.timing = "Initial" => m \in {S0, S1}
  PROVE  /\ Good(Update(c, v, r, m, b), H, V, <<>>, N, B, Assigned(c, F, v, r, m))
         /\ Noted(c, Update(c, v, r, m, b), v, r, m, b)
<1> DEFINE d == Update(c, v, r, m, b)
           A == Assigned(c, F, v, r, m)
           y == IF m = S1 THEN r ELSE Bwmux(Evaluate(c, v), r, m)
<1>0. /\ v \in N /\ F \in [DOMAIN F -> SUBSET Env] /\ B \in [DOMAIN F -> 0..Len(H)]
      /\ r.on \in SUBSET Env /\ m.on \in SUBSET Env /\ c.cas.on \subseteq Env
      /\ r.const \in BOOLEAN /\ c.timing = "Initial" => c.cas.on = Env
  BY GoodFacts, SignalType
<1>1. Noted(c, d, v, r, m, b) /\ UpdateCase(c, d, N, v, r, m)
  BY <1>0, UpdateCases
<1> HIDE DEF d
<1>2. CASE m = S0 /\ d = c
  <2>1. A = F
    BY <1>0, <1>2, ConstSignals DEF Assigned, Blend
  <2> QED
    BY <1>1, <1>2, <2>1 DEF d
<1>3. CASE /\ m # S0 /\ c.timing = "Initial" /\ r.const = FALSE
           /\ d \in Contexts(N) /\ SameStore(c, d)
  <2>1. A = F
    BY <1>3 DEF Assigned
  <2>2. Good(d, H, V, <<>>, N, B, F)
    BY <1>3, SameLevels, GoodFacts
  <2> QED
    BY <1>1, <2>1, <2>2 DEF d
<1>4. CASE /\ m # S0 /\ c.timing = "Initial" /\ r.const = TRUE
           /\ \E x \in Contexts(N) : SameStore(c, x) /\ d = SetInit(x, v, r)
  <2> DEFINE J == Put(F, v, r.on, Env)
             C == PutBase(B, F, v, Len(H))
  <2>1. Good(d, H, V, <<>>, N, C, J)
    <3>1. PICK x \in Contexts(N) : SameStore(c, x) /\ d = SetInit(x, v, r)
      BY <1>4
    <3> QED
      BY <1>0, <1>4, <3>1, SetInitGood
  <2>2. C = B
    BY <1>0 DEF PutBase
  <2>3. m = S1
    BY <1>4
  <2>4. Blend(F[v], r.on, c.cas.on \cap m.on) = r.on
    BY <1>0, <1>4, <2>3, ConstSignals DEF Blend
  <2>5. A = [F EXCEPT ![v] = r.on]
    BY <1>4, <2>4 DEF Assigned
  <2>6. J = A
    BY <1>0, <2>5 DEF Put
  <2> HIDE DEF J, C, A
  <2> QED
    BY <1>1, <2>1, <2>2, <2>6 DEF d, A
<1>5. CASE /\ m # S0 /\ c.timing # "Initial"
           /\ \E x \in Contexts(N) : SameStore(c, x) /\ d = SetBit(x, v, y)
  <2> DEFINE J == Put(F, v, y.on, c.cas.on)
             C == PutBase(B, F, v, Len(H))
  <2>1. /\ Evaluate(c, v) \in Signals
        /\ \A e \in c.cas.on : e \in Evaluate(c, v).on <=> e \in F[v]
    BY <1>5, ReadTop
  <2>2. y \in Signals /\ y.on = Blend(Evaluate(c, v).on, r.on, m.on)
    <3>1. CASE m = S1
      <4>1. Evaluate(c, v).on \in SUBSET Env
        BY <2>1, SignalType
      <4> QED
        BY <1>0, <3>1, <4>1, ConstSignals DEF Blend
    <3>2. CASE m # S1
      BY <2>1, <3>2, BwmuxType
    <3> QED
      BY <3>1, <3>2
  <2> HIDE DEF y
  <2>3. Good(d, H, V, <<>>, N, C, J)
    <3>1. PICK x \in Contexts(N) : SameStore(c, x) /\ d = SetBit(x, v, y)
      BY <1>5
    <3> QED
      BY <1>0, <1>5, <2>2, <3>1, SetBitGood
  <2>4. C = B
    BY <1>0 DEF PutBase
  <2>5. (F[v] \ c.cas.on) \cup (y.on \cap c.cas.on) = Blend(F[v], r.on, c.cas.on \cap m.on)
    BY <2>1, <2>2 DEF Blend
  <2>6. A = [F EXCEPT ![v] = Blend(F[v], r.on, c.cas.on \cap m.on)]
    BY <1>5 DEF Assigned
  <2>7. J = A
    BY <1>0, <2>5, <2>6 DEF Put
  <2> HIDE DEF J, C, A
  <2> QED
    BY <1>1, <2>3, <2>4, <2>7 DEF d, A
<1> QED
  BY <1>1, <1>2, <1>3, <1>4, <1>5 DEF d, UpdateCase

Extend(f, v, x) == [u \in DOMAIN f \cup {v} |-> IF u = v THEN x ELSE f[u]]

(* A variable that comes into scope. *)
LEMMA DeclareGood ==
  ASSUME NEW c, NEW H, NEW V, NEW N, NEW B, NEW F, Good(c, H, V, <<>>, N, B, F),
         NEW v \in N, v \notin DOMAIN F, NEW r \in Signals, r.const = TRUE
  PROVE  /\ Good(SimpleAssign(c, v, r), H, V, <<>>, N,
                 Extend(B, v, Len(H)), Extend(F, v, r.on \cap c.cas.on))
         /\ Noted(c, SimpleAssign(c, v, r), v, r, S1, TRUE)
<1> DEFINE d == SimpleAssign(c, v, r)
           E == Extend(F, v, r.on \cap c.cas.on)
           D == Extend(B, v, Len(H))
<1>0. /\ F \in [DOMAIN F -> SUBSET Env] /\ B \in [DOMAIN F -> 0..Len(H)] /\ r.on \subseteq Env
      /\ c.timing = "Initial" => c.cas.on = Env
  BY GoodFacts, SignalType
<1>1. /\ Noted(c, d, v, r, S1, TRUE)
      /\ \/ c.timing = "Initial" /\ \E x \in Contexts(N) : SameStore(c, x) /\ d = SetInit(x, v, r)
         \/ c.timing # "Initial" /\ \E x \in Contexts(N) : SameStore(c, x) /\ d = SetBit(x, v, r)
  <2> DEFINE U == Update(c, v, r, S1, TRUE)
  <2>1. S1 \in Signals /\ S1 # S0
    BY ConstSignals
  <2>2. Noted(c, U, v, r, S1, TRUE) /\ UpdateCase(c, U, N, v, r, S1)
    BY <2>1, UpdateCases
  <2>3. U = d
    BY DEF SimpleAssign
  <2> HIDE DEF U, d
  <2> QED
    BY <2>1, <2>2, <2>3 DEF UpdateCase
<1> HIDE DEF d
<1>2. CASE c.timing = "Initial" /\ \E x \in Contexts(N) : SameStore(c, x) /\ d = SetInit(x, v, r)
  <2> DEFINE J == Put(F, v, r.on, Env)
             C == PutBase(B, F, v, Len(H))
  <2>1. Good(d, H, V, <<>>, N, C, J)
    <3>1. PICK x \in Contexts(N) : SameStore(c, x) /\ d = SetInit(x, v, r)
      BY <1>2
    <3> QED
      BY <1>0, <1>2, <3>1, SetInitGood
  <2>2. r.on \cap c.cas.on = r.on
    BY <1>0, <1>2
  <2>3. C = D /\ J = E
    BY <1>0, <1>2, <2>2 DEF Extend, Put, PutBase
  <2> HIDE DEF J, C, D, E
  <2> QED
    BY <1>1, <2>1, <2>3 DEF d, D, E
<1>3. CASE c.timing # "Initial" /\ \E x \in Contexts(N) : SameStore(c, x) /\ d = SetBit(x, v, r)
  <2> DEFINE J == Put(F, v, r.on, c.cas.on)
             C == PutBase(B, F, v, Len(H))
  <2>1. Good(d, H, V, <<>>, N, C, J)
    <3>1. PICK x \in Contexts(N) : SameStore(c, x) /\ d = SetBit(x, v, r)
      BY <1>3
    <3> QED
      BY <1>0, <1>3, <3>1, SetBitGood
  <2>2. C = D /\ J = E
    BY <1>0 DEF Extend, Put, PutBase
  <2> HIDE DEF J, C, D, E
  <2> QED
    BY <1>1, <2>1, <2>2 DEF d, D, E
<1> QED
  BY <1>1, <1>2, <1>3

-----------------------------------------------------------------------------
(* Entering and leaving a branch.                                          *)

(* What opening and closing switches leaves alone. *)
SameNotes(c, d) ==
  /\ d.timing = c.timing /\ d.ini = c.ini /\ d.esc = c.esc /\ d.nflag = c.nflag
  /\ d.unrolling = c.unrolling /\ d.counter = c.counter /\ d.exhausted = c.exhausted
  /\ d.diag = c.diag /\ d.broken = c.broken
  /\ d.blocking = c.blocking /\ d.nonblocking = c.nonblocking

(* One more level: x is the helper of a branch that is opened where c is.  *)
Pushed(c, H, V, u, x, w, d, J, W, t) ==
  /\ Len(J) = Len(H) + 1 /\ Len(W) = Len(H) + 1 /\ Len(H) \in Nat
  /\ \A k \in 0..Len(H) : /\ OnAt(d, J, k) = OnAt(c, H, k)
                          /\ StoreAt(d, W, k) = StoreAt(c, V, k)
                          /\ RevAt(d, J, k) = RevAt(c, H, k)
  /\ \A k \in 0..Len(H) : k < Len(H) => UpdAt(J, t, k) = UpdAt(H, u, k)
  /\ UpdAt(J, t, Len(H)) = x.updates /\ UpdAt(H, u, Len(H)) = u
  /\ \A k \in 1..Len(H) : J[k] = H[k] /\ W[k] = V[k]
  /\ J[Len(H) + 1] = x /\ W[Len(H) + 1] = w
  /\ OnAt(d, J, Len(H) + 1) = d.cas.on /\ StoreAt(d, W, Len(H) + 1) = d.vis
  /\ RevAt(d, J, Len(H) + 1) = d.rev /\ UpdAt(J, t, Len(H) + 1) = t

LEMMA PushedLevels ==
  ASSUME NEW S, NEW T, NEW H \in Seq(S), NEW V \in Seq(T), Len(V) = Len(H),
         NEW x \in S, NEW w \in T, NEW c, NEW d, NEW u, NEW t,
         x.parent.on = c.cas.on, x.saved = c.rev, w = c.vis
  PROVE  /\ Append(H, x) \in Seq(S) /\ Append(V, w) \in Seq(T)
         /\ Pushed(c, H, V, u, x, w, d, Append(H, x), Append(V, w), t)
<1> DEFINE J == Append(H, x)
           W == Append(V, w)
           n == Len(H)
<1>1. /\ n \in Nat /\ J \in Seq(S) /\ W \in Seq(T) /\ Len(J) = n + 1 /\ Len(W) = n + 1
      /\ \A k \in 1..n : J[k] = H[k] /\ W[k] = V[k]
      /\ J[n + 1] = x /\ W[n + 1] = w
  OBVIOUS
<1>2. \A k \in 0..n : k < n + 1 /\ (k < n => k + 1 \in 1..n) /\ (~(k < n) => k + 1 = n + 1)
  BY <1>1
<1>3. ~(n + 1 < n + 1) /\ ~(n < n) /\ n < n + 1
  BY <1>1
<1> HIDE DEF J, W
<1>4. \A k \in 0..n : /\ OnAt(d, J, k) = OnAt(c, H, k)
                      /\ StoreAt(d, W, k) = StoreAt(c, V, k)
                      /\ RevAt(d, J, k) = RevAt(c, H, k)
  <2> HIDE DEF n
  <2> QED
    BY <1>1, <1>2 DEF OnAt, StoreAt, RevAt, n
<1>5. /\ \A k \in 0..n : k < n => UpdAt(J, t, k) = UpdAt(H, u, k)
      /\ UpdAt(J, t, n) = x.updates /\ UpdAt(H, u, n) = u
  BY <1>1, <1>2, <1>3 DEF UpdAt
<1>6. /\ OnAt(d, J, n + 1) = d.cas.on /\ StoreAt(d, W, n + 1) = d.vis
      /\ RevAt(d, J, n + 1) = d.rev /\ UpdAt(J, t, n + 1) = t
  BY <1>1, <1>3 DEF OnAt, StoreAt, RevAt, UpdAt
<1> QED
  BY <1>1, <1>4, <1>5, <1>6 DEF J, W, Pushed

(* The valuations that select the next branch of a helper. *)
Hit(h, compare, default) ==
  IF default THEN h.left ELSE {e \in h.left : e \in h.signal.on <=> e \in compare.on}

EnterFacts(c, h, r, def, d, x, N) ==
  /\ d \in Contexts(N) /\ x \in Helpers(N) /\ SameNotes(c, d)
  /\ d.vis = c.vis /\ d.rev = NoBits /\ d.cas.on = Hit(h, r, def)
  /\ x.parent = h.parent /\ x.left = h.left \ Hit(h, r, def)
  /\ x.saved = c.rev /\ x.updates = h.updates /\ x.signal = h.signal

LEMMA EnterFields ==
  ASSUME NEW N, NEW c \in Contexts(N), NEW h \in Helpers(N), NEW r, NEW def
  PROVE  EnterFacts(c, h, r, def, EnterBranch(c, h, r, def).c, EnterBranch(c, h, r, def).h, N)
<1> DEFINE x == EnterBranch(c, h, r, def)
           hit == Hit(h, r, def)
           k == [path |-> Append(h.parent.path, h.parent.nsw), on |-> hit, nsw |-> 0]
<1>1. h.parent \in Cases /\ h.left \in SUBSET Env /\ c.rev \in Reverts(N)
  BY ContextType DEF Helpers
<1>2. hit \in SUBSET Env
  BY <1>1 DEF Hit
<1> HIDE DEF hit
<1>3. k \in Cases /\ k.on = hit
  BY <1>1, <1>2 DEF Cases
<1>4. x = [c |-> [c EXCEPT !.cas = k, !.rev = NoBits], h |-> [h EXCEPT !.left = h.left \ hit, !.saved = c.rev]]
  BY DEF EnterBranch, hit, Hit
<1> HIDE DEF k, x
<1>5. NoBits \in Reverts(N)
  <2>1. NoBits \in [{} -> Signals \cup {Sm}]
    BY DEF NoBits
  <2> QED
    BY <2>1 DEF Reverts
<1>6. x.c \in Contexts(N) /\ SameNotes(c, x.c) /\ x.c.vis = c.vis /\ x.c.rev = NoBits /\ x.c.cas = k
  BY <1>3, <1>4, <1>5 DEF Contexts, SameNotes
<1>7. /\ x.h \in Helpers(N) /\ x.h.parent = h.parent /\ x.h.left = h.left \ hit
      /\ x.h.saved = c.rev /\ x.h.updates = h.updates /\ x.h.signal = h.signal
  BY <1>1, <1>4 DEF Helpers
<1> QED
  BY <1>3, <1>6, <1>7 DEF x, hit, EnterFacts

LEMMA EnterGood ==
  ASSUME NEW c, NEW H, NEW V, NEW N, NEW B, NEW F,
         NEW h \in Helpers(N), Good(c, H, V, h.updates, N, B, F), c.timing # "Initial",
         Fits(h, {}), h.parent.on = c.cas.on, NEW r, NEW def
  PROVE  LET x == EnterBranch(c, h, r, def)
         IN  Good(x.c, Append(H, x.h), Append(V, c.vis), <<>>, N, B, F)
<1> DEFINE x == EnterBranch(c, h, r, def)
           d == x.c
           y == x.h
           J == Append(H, y)
           W == Append(V, c.vis)
           n == Len(H)
           hit == Hit(h, r, def)
<1>0. /\ Layers(c, H, V, N) /\ c \in Contexts(N) /\ H \in Seq(Helpers(N)) /\ V \in Seq(Stores(N))
      /\ Len(V) = n /\ c.vis \in Stores(N) /\ B \in [DOMAIN F -> 0..n]
  BY GoodFacts
<1>1. /\ d \in Contexts(N) /\ y \in Helpers(N) /\ SameNotes(c, d)
      /\ d.vis = c.vis /\ d.rev = NoBits /\ d.cas.on = hit
      /\ y.parent = h.parent /\ y.left = h.left \ hit
      /\ y.saved = c.rev /\ y.updates = h.updates
  BY <1>0, EnterFields DEF EnterFacts
<1>2. hit \subseteq h.left
  BY DEF Hit
<1> HIDE DEF x, hit
<1>3. /\ J \in Seq(Helpers(N)) /\ W \in Seq(Stores(N)) /\ Len(J) = n + 1 /\ Len(W) = n + 1 /\ n \in Nat
      /\ \A k \in 0..n : /\ OnAt(d, J, k) = OnAt(c, H, k) /\ StoreAt(d, W, k) = StoreAt(c, V, k)
                         /\ RevAt(d, J, k) = RevAt(c, H, k)
      /\ \A k \in 0..n : k < n => UpdAt(J, <<>>, k) = UpdAt(H, h.updates, k)
      /\ UpdAt(J, <<>>, n) = y.updates /\ UpdAt(H, h.updates, n) = h.updates
      /\ \A k \in 1..n : J[k] = H[k] /\ W[k] = V[k]
      /\ J[n + 1] = y /\ W[n + 1] = c.vis
      /\ OnAt(d, J, n + 1) = d.cas.on /\ StoreAt(d, W, n + 1) = d.vis
      /\ RevAt(d, J, n + 1) = d.rev /\ UpdAt(J, <<>>, n + 1) = <<>>
  <2> HIDE DEF d, y
  <2>1. J \in Seq(Helpers(N)) /\ W \in Seq(Stores(N)) /\ Pushed(c, H, V, h.updates, y, c.vis, d, J, W, <<>>)
    BY <1>0, <1>1, PushedLevels
  <2> QED
    BY <2>1 DEF Pushed
<1> HIDE DEF d, y, J, W
<1>4. \A k \in 0..n : k # n + 1 /\ (k > 0 => k \in 1..n)
  BY <1>3
<1>5. \A k \in 0..(n + 1) : k \in 0..n \/ k = n + 1
  BY <1>3
<1>6. \A k \in 0..n : LevelOK(d, J, W, k)
  BY <1>0, <1>3, <1>4 DEF Layers, LevelOK
<1>7. LevelOK(d, J, W, n + 1)
  <2>1. Fits(y, d.cas.on)
    BY <1>1, <1>2 DEF Fits
  <2>2. Undo(c.vis, NoBits) = c.vis
    BY <1>0, StoreType DEF Undo, Kept, NoBits
  <2>3. DOMAIN NoBits = {}
    BY DEF NoBits
  <2> QED
    BY <1>1, <1>3, <2>1, <2>2, <2>3 DEF LevelOK
<1>8. Layers(d, J, W, N)
  <2>1. d.timing # "Initial"
    BY <1>1 DEF SameNotes
  <2>2. OnAt(d, J, 0) = Env
    BY <1>0, <1>3 DEF Layers
  <2>3. \A k \in 0..Len(J) : LevelOK(d, J, W, k)
    BY <1>3, <1>5, <1>6, <1>7
  <2> QED
    BY <1>0, <1>1, <1>3, <2>1, <2>2, <2>3 DEF Layers
<1>9. ASSUME NEW v \in DOMAIN F PROVE Reads(d, J, W, <<>>, v, B[v], F[v])
  <2>1. B[v] \in 0..n /\ d.timing # "Initial"
    BY <1>0, <1>1 DEF SameNotes
  <2>2. \A k \in B[v]..n : ReadsAt(c, H, V, h.updates, v, k, F[v])
    BY DEF Good, Reads
  <2>3. ASSUME NEW k \in B[v]..n PROVE ReadsAt(d, J, W, <<>>, v, k, F[v])
    <3>1. k \in 0..n /\ k < n + 1 /\ (k < n => k + 1 \in 0..n) /\ (k < n \/ k = n) /\ ~(n < n)
      BY <1>3, <2>1
    <3>2. UpdAt(J, <<>>, k) = UpdAt(H, h.updates, k)
      BY <1>1, <1>3, <3>1
    <3>3. \A e : Deepest(d, J, k, e) => Deepest(c, H, k, e)
      BY <1>3, <3>1 DEF Deepest
    <3> QED
      BY <1>3, <2>2, <3>1, <3>2, <3>3 DEF ReadsAt
  <2>4. ReadsAt(d, J, W, <<>>, v, n + 1, F[v])
    <3>1. ReadsAt(c, H, V, h.updates, v, n, F[v]) /\ n \in 0..n
      BY <1>3, <2>1, <2>2
    <3>2. StoreAt(c, V, n) = c.vis /\ OnAt(c, H, n) = c.cas.on
      BY <1>0, <1>3 DEF StoreAt, OnAt
    <3>3. ASSUME NEW e \in Env, e \in hit
          PROVE  e \in F[v] <=> Pend(c.vis, <<>>, v, e)
      <4>1. Deepest(c, H, n, e)
        BY <1>2, <3>2, <3>3, <1>3 DEF Deepest, Fits
      <4>2. e \in F[v] <=> Pend(c.vis, h.updates, v, e)
        BY <1>3, <3>1, <3>2, <4>1 DEF ReadsAt
      <4>3. Drivers(h.updates, v, e) = {} /\ Drivers(<<>>, v, e) = {}
        <5>1. DOMAIN h.updates = 1..Len(h.updates)
          BY DEF Helpers
        <5> QED
          BY <1>2, <3>3, <5>1 DEF Drivers, Fits
      <4> QED
        BY <4>2, <4>3 DEF Pend
    <3> QED
      BY <1>1, <1>3, <3>1, <3>2, <3>3 DEF ReadsAt, Deepest
  <2>5. \A k \in B[v]..Len(J) : k \in B[v]..n \/ k = n + 1
    BY <1>3, <2>1
  <2>6. \A k \in B[v]..Len(J) : ReadsAt(d, J, W, <<>>, v, k, F[v])
    BY <2>3, <2>4, <2>5
  <2> QED
    BY <2>1, <2>6 DEF Reads
<1>10. B \in [DOMAIN F -> 0..Len(J)]
  <2>1. 0..n \subseteq 0..Len(J)
    BY <1>3
  <2> QED
    BY <1>0, <2>1
<1>11. Good(d, J, W, <<>>, N, B, F)
  BY <1>8, <1>9, <1>10 DEF Good
<1> QED
  BY <1>11 DEF d, y, J, W, x

ExitFacts(c, x, d, y, N) ==
  /\ d \in Contexts(N) /\ y \in Helpers(N) /\ SameNotes(c, d)
  /\ d.vis = Undo(c.vis, c.rev) /\ d.rev = x.saved /\ d.cas = x.parent
  /\ y.parent = x.parent /\ y.left = x.left /\ y.signal = x.signal
  /\ y.updates = Append(x.updates, [on |-> c.cas.on, val |-> [v \in DOMAIN c.rev |-> c.vis[v]]])

LEMMA ExitFields ==
  ASSUME NEW N, NEW c \in Contexts(N), NEW x \in Helpers(N), DOMAIN c.rev \subseteq DOMAIN c.vis
  PROVE  ExitFacts(c, x, ExitBranch(c, x).c, ExitBranch(c, x).h, N)
<1> DEFINE y == ExitBranch(c, x)
           u == [on |-> c.cas.on, val |-> [v \in DOMAIN c.rev |-> c.vis[v]]]
           w == Undo(c.vis, c.rev)
<1>1. /\ c.vis \in Stores(N) /\ c.rev \in Reverts(N) /\ c.cas \in Cases
      /\ x.saved \in Reverts(N) /\ x.parent \in Cases /\ x.updates \in Seq(Updates(N))
  BY ContextType DEF Helpers
<1>2. w \in Stores(N)
  BY <1>1, UndoType
<1>3. u \in Updates(N)
  <2>1. DOMAIN c.rev \subseteq N /\ \A v \in DOMAIN c.rev : c.vis[v] \in Signals
    BY <1>1 DEF Stores, Reverts
  <2>2. [v \in DOMAIN c.rev |-> c.vis[v]] \in [DOMAIN c.rev -> Signals]
    BY <2>1
  <2>3. [v \in DOMAIN c.rev |-> c.vis[v]] \in Stores(N)
    BY <2>1, <2>2 DEF Stores
  <2> QED
    BY <1>1, <2>3 DEF Updates, Cases
<1>4. y = [c |-> [c EXCEPT !.vis = w, !.rev = x.saved, !.cas = x.parent],
           h |-> [x EXCEPT !.updates = Append(x.updates, u)]]
  BY DEF ExitBranch, Undo, Kept
<1> HIDE DEF y, u, w
<1>5. Append(x.updates, u) \in Seq(Updates(N))
  BY <1>1, <1>3
<1>6. y.c \in Contexts(N) /\ SameNotes(c, y.c) /\ y.c.vis = w /\ y.c.rev = x.saved /\ y.c.cas = x.parent
  BY <1>1, <1>2, <1>4 DEF Contexts, SameNotes
<1>7. /\ y.h \in Helpers(N) /\ y.h.parent = x.parent /\ y.h.left = x.left /\ y.h.signal = x.signal
      /\ y.h.updates = Append(x.updates, u)
  BY <1>4, <1>5 DEF Helpers
<1> QED
  BY <1>6, <1>7 DEF ExitFacts, y, u, w

(* What a branch reads after it was left is what it read in it. *)
LEMMA ExitGood ==
  ASSUME NEW c, NEW N, NEW H \in Seq(Helpers(N)), NEW V \in Seq(Stores(N)), Len(V) = Len(H),
         NEW x \in Helpers(N), NEW w \in Stores(N), NEW F, NEW B \in [DOMAIN F -> 0..Len(H)],
         Good(c, Append(H, x), Append(V, w), <<>>, N, B, F)
  PROVE  LET y == ExitBranch(c, x)
         IN  /\ Good(y.c, H, V, y.h.updates, N, B, F)
             /\ ExitFacts(c, x, y.c, y.h, N) /\ Fits(y.h, {})
<1> DEFINE y == ExitBranch(c, x)
           d == y.c
           u == y.h.updates
           a == [on |-> c.cas.on, val |-> [v \in DOMAIN c.rev |-> c.vis[v]]]
           J == Append(H, x)
           W == Append(V, w)
           n == Len(H)
<1>1. Len(J) = n + 1 /\ n \in Nat /\ J # <<>> /\ J[n + 1] = x /\ W[n + 1] = w /\ Len(W) = n + 1
  OBVIOUS
<1>a. Good(c, J, W, <<>>, N, B, F)
  OBVIOUS
<1> HIDE DEF J, W
<1>0. /\ Layers(c, J, W, N) /\ c \in Contexts(N) /\ c.vis \in Stores(N) /\ c.rev \in Reverts(N)
      /\ F \in [DOMAIN F -> SUBSET Env] /\ DOMAIN F \subseteq N
      /\ (c.timing = "Initial" => J = <<>>)
      /\ DOMAIN c.rev \subseteq DOMAIN c.vis /\ c.cas.on \subseteq Env
  BY <1>a, GoodFacts
<1>2. LevelOK(c, J, W, n + 1) /\ OnAt(c, J, n + 1) = c.cas.on
      /\ StoreAt(c, W, n + 1) = c.vis /\ RevAt(c, J, n + 1) = c.rev
  BY <1>0, <1>1 DEF Layers, OnAt, StoreAt, RevAt
<1>3. Fits(x, c.cas.on) /\ Undo(c.vis, c.rev) = w
  BY <1>1, <1>2 DEF LevelOK
<1>4. ExitFacts(c, x, d, y.h, N)
  BY <1>0, ExitFields
<1> HIDE DEF y
<1>5. /\ d \in Contexts(N) /\ d.vis = w /\ d.rev = x.saved /\ d.cas = x.parent /\ d.timing # "Initial"
      /\ u = Append(x.updates, a) /\ y.h \in Helpers(N) /\ y.h.left = x.left /\ y.h.parent = x.parent
  BY <1>0, <1>1, <1>3, <1>4 DEF ExitFacts, SameNotes
<1> HIDE DEF d, u
<1>6. Pushed(d, H, V, u, x, w, c, J, W, <<>>)
  BY <1>5, PushedLevels DEF J, W
<1>7. /\ \A k \in 0..n : /\ OnAt(d, H, k) = OnAt(c, J, k) /\ StoreAt(d, V, k) = StoreAt(c, W, k)
                         /\ RevAt(d, H, k) = RevAt(c, J, k)
      /\ \A k \in 0..n : k < n => UpdAt(J, <<>>, k) = UpdAt(H, u, k)
      /\ UpdAt(J, <<>>, n) = x.updates /\ UpdAt(H, u, n) = u
      /\ \A k \in 1..n : J[k] = H[k] /\ W[k] = V[k]
      /\ UpdAt(J, <<>>, n + 1) = <<>>
  BY <1>6 DEF Pushed
<1>8. \A k \in 0..n : LevelOK(d, H, V, k)
  <2>1. \A k \in 0..n : LevelOK(c, J, W, k) /\ (k > 0 => k \in 1..n)
    BY <1>0, <1>1 DEF Layers
  <2> QED
    BY <1>7, <2>1 DEF LevelOK
<1>9. Layers(d, H, V, N)
  <2>1. OnAt(d, H, 0) = Env
    BY <1>0, <1>1, <1>7 DEF Layers
  <2>2. \A v \in N : IsStatic(v) => v \in StaticVars
    BY <1>0 DEF Layers
  <2> QED
    BY <1>5, <1>8, <2>1, <2>2 DEF Layers
<1>10. /\ x.updates \in Seq(Updates(N)) /\ DOMAIN x.updates = 1..Len(x.updates)
       /\ Len(x.updates) \in Nat
  BY DEF Helpers
<1>11. /\ DOMAIN u = 1..(Len(x.updates) + 1) /\ u[Len(x.updates) + 1] = a
       /\ Len(u) = Len(x.updates) + 1
       /\ \A i \in 1..Len(x.updates) : u[i] = x.updates[i]
  <2> HIDE DEF a
  <2> QED
    BY <1>5, <1>10
<1>12. a.on = c.cas.on /\ DOMAIN a.val = DOMAIN c.rev /\ \A v \in DOMAIN c.rev : a.val[v] = c.vis[v]
  OBVIOUS
<1> HIDE DEF a
<1>13. Fits(y.h, {})
  <2>1. y.h.updates = u
    BY DEF u
  <2>2. \A i \in 1..Len(u) : i \in 1..Len(x.updates) \/ i = Len(x.updates) + 1
    BY <1>10, <1>11
  <2>3. \A i \in 1..Len(u) : u[i].on \cap x.left = {}
    BY <1>3, <1>11, <1>12, <2>2 DEF Fits
  <2>4. x.left \subseteq x.parent.on
    BY <1>3 DEF Fits
  <2> QED
    BY <1>5, <2>1, <2>3, <2>4 DEF Fits
<1>14. ASSUME NEW v \in DOMAIN F PROVE Reads(d, H, V, u, v, B[v], F[v])
  <2>1. B[v] \in 0..n /\ c.timing # "Initial"
    BY <1>0, <1>1
  <2>2. \A k \in B[v]..(n + 1) : ReadsAt(c, J, W, <<>>, v, k, F[v])
    BY <1>1, <2>1 DEF Good, Reads, J, W
  <2>3. ASSUME NEW k \in B[v]..n, k < n PROVE ReadsAt(d, H, V, u, v, k, F[v])
    <3>1. k \in 0..n /\ k + 1 \in 0..n /\ k < n + 1 /\ k \in B[v]..(n + 1)
      BY <1>1, <2>1, <2>3
    <3>2. \A e : Deepest(d, H, k, e) => Deepest(c, J, k, e)
      BY <1>7, <2>3, <3>1 DEF Deepest
    <3> QED
      BY <1>7, <2>2, <2>3, <3>1, <3>2 DEF ReadsAt
  <2>4. ReadsAt(d, H, V, u, v, n, F[v])
    <3>1. /\ ReadsAt(c, J, W, <<>>, v, n, F[v]) /\ ReadsAt(c, J, W, <<>>, v, n + 1, F[v])
          /\ n \in 0..n /\ n < n + 1 /\ ~(n + 1 < n + 1)
      BY <1>1, <2>1, <2>2
    <3>2. /\ StoreAt(d, V, n) = w /\ StoreAt(c, W, n) = w /\ OnAt(d, H, n) = x.parent.on
          /\ OnAt(c, J, n) = x.parent.on
      BY <1>1, <1>5, <1>7, <3>1 DEF StoreAt, OnAt
    <3>3. v \in StaticVars \/ v \in DOMAIN w
      BY <3>1, <3>2 DEF ReadsAt
    <3>4. ASSUME NEW e \in Env, e \in x.parent.on, e \notin c.cas.on
          PROVE  e \in F[v] <=> Pend(w, u, v, e)
      <4>1. Deepest(c, J, n, e)
        BY <1>2, <3>2, <3>4 DEF Deepest
      <4>2. e \in F[v] <=> Pend(w, x.updates, v, e)
        BY <1>7, <3>1, <3>2, <4>1 DEF ReadsAt
      <4>3. Drivers(u, v, e) = Drivers(x.updates, v, e)
        <5>1. \A i \in 1..(Len(x.updates) + 1) : i \in 1..Len(x.updates) \/ i = Len(x.updates) + 1
          BY <1>10
        <5>2. \A i \in 1..Len(x.updates) : i \in 1..(Len(x.updates) + 1)
          BY <1>10
        <5> QED
          BY <1>10, <1>11, <1>12, <3>4, <5>1, <5>2 DEF Drivers
      <4>4. Drivers(u, v, e) # {} => Max(Drivers(u, v, e)) \in 1..Len(x.updates)
        <5>1. Drivers(x.updates, v, e) \subseteq 1..Len(x.updates)
          BY <1>10 DEF Drivers
        <5> QED
          BY <1>10, <4>3, <5>1, MaxOfRange
      <4> QED
        BY <1>11, <4>2, <4>3, <4>4 DEF Pend
    <3>5. ASSUME NEW e \in Env, e \in c.cas.on
          PROVE  e \in F[v] <=> Pend(w, u, v, e)
      <4>1. Deepest(c, J, n + 1, e)
        BY <1>1, <1>2, <3>1, <3>5 DEF Deepest
      <4>2. e \in F[v] <=> Pend(c.vis, <<>>, v, e)
        BY <1>2, <1>7, <3>1, <4>1 DEF ReadsAt
      <4>3. e \in F[v] <=> e \in Value(c.vis, v).on
        BY <4>2, NoPending
      <4>4. \A i \in 1..Len(x.updates) : e \notin x.updates[i].on
        BY <1>3, <3>5 DEF Fits
      <4>5. CASE v \in DOMAIN c.rev
        <5>1. Len(x.updates) + 1 \in Drivers(u, v, e) /\ Drivers(u, v, e) \subseteq 1..(Len(x.updates) + 1)
          BY <1>10, <1>11, <1>12, <3>5, <4>5 DEF Drivers
        <5>2. \A i \in Drivers(u, v, e) : i <= Len(x.updates) + 1
          BY <1>10, <5>1
        <5>3. Max(Drivers(u, v, e)) = Len(x.updates) + 1
          BY <1>10, <5>1, <5>2, MaxIs
        <5>4. Pend(w, u, v, e) <=> e \in c.vis[v].on
          BY <1>11, <1>12, <4>5, <5>1, <5>3 DEF Pend
        <5>5. Value(c.vis, v) = c.vis[v]
          BY <1>0, <4>5 DEF Value
        <5> QED
          BY <4>3, <5>4, <5>5
      <4>6. CASE v \notin DOMAIN c.rev
        <5>1. \A i \in 1..(Len(x.updates) + 1) : i \in 1..Len(x.updates) \/ i = Len(x.updates) + 1
          BY <1>10
        <5>2. Drivers(u, v, e) = {}
          BY <1>11, <1>12, <4>4, <4>6, <5>1 DEF Drivers
        <5>3. Value(w, v) = Value(c.vis, v)
          BY <1>3, <4>6 DEF Value, Undo, Kept
        <5> QED
          BY <4>3, <5>2, <5>3 DEF Pend
      <4> QED
        BY <4>5, <4>6
    <3>6. \A e \in Env : Deepest(d, H, n, e) => e \in x.parent.on
      BY <3>2 DEF Deepest
    <3> QED
      BY <1>7, <3>2, <3>3, <3>4, <3>5, <3>6 DEF ReadsAt
  <2>5. \A k \in B[v]..n : k < n \/ k = n
    BY <1>1, <2>1
  <2>6. \A k \in B[v]..n : ReadsAt(d, H, V, u, v, k, F[v])
    BY <2>3, <2>4, <2>5
  <2> QED
    BY <1>5, <2>6 DEF Reads
<1>15. Good(d, H, V, u, N, B, F)
  BY <1>0, <1>9, <1>14 DEF Good
<1> QED
  BY <1>4, <1>13, <1>15 DEF d, u, y

FinishFacts(c, d, N) ==
  d \in Contexts(N) /\ SameNotes(c, d) /\ d.cas = c.cas /\ d.log = c.log

(* The placeholders read what the branches left. *)
LEMMA FinishGood ==
  ASSUME NEW c, NEW N, NEW H, NEW V, NEW B, NEW F, NEW h \in Helpers(N),
         Good(c, H, V, h.updates, N, B, F), c.timing # "Initial"
  PROVE  Good(Finish(c, h), H, V, <<>>, N, B, F) /\ FinishFacts(c, Finish(c, h), N)
<1> DEFINE u == h.updates
           touched == UNION {DOMAIN u[i].val : i \in DOMAIN u}
           joined == {v \in touched : IsStatic(v) \/ Bound(c, v)}
           m == [v \in joined |-> Placeholder(c, h, v)]
           r == [v \in joined |-> IF Bound(c, v) THEN c.vis[v] ELSE Sm]
           d == Finish(c, h)
           n == Len(H)
<1>0. /\ Layers(c, H, V, N) /\ c \in Contexts(N) /\ c.vis \in Stores(N) /\ c.rev \in Reverts(N)
      /\ F \in [DOMAIN F -> SUBSET Env] /\ DOMAIN F \subseteq N /\ B \in [DOMAIN F -> 0..n]
      /\ n \in Nat /\ Len(V) = n /\ c.cas.on \subseteq Env
      /\ \A v \in N : IsStatic(v) => v \in StaticVars
  BY GoodFacts
<1>1. u \in Seq(Updates(N)) /\ DOMAIN u = 1..Len(u) /\ Len(u) \in Nat
  BY DEF Helpers
<1>2. joined \subseteq N
  <2>1. ASSUME NEW i \in DOMAIN u PROVE DOMAIN u[i].val \subseteq N
    <3>1. u[i] \in Updates(N)
      BY <1>1
    <3>2. u[i].val \in Stores(N)
      BY <3>1 DEF Updates
    <3> QED
      BY <3>2, StoreType
  <2> QED
    BY <2>1
<1>3. d = [c EXCEPT !.vis = Over(m, c.vis), !.rev = Over(c.rev, r)]
  BY DEF Finish
<1>4. \A v : Placeholder(c, h, v) \in Signals
  <2>1. \A v : \E X \in SUBSET Env : Placeholder(c, h, v) = Sig(FALSE, X)
    BY DEF Placeholder
  <2> QED
    BY <2>1, VaryingSignals
<1>5. \A v \in joined : v \in DOMAIN c.vis => c.vis[v] \in Signals
  BY <1>0, StoreType
<1> HIDE DEF d, joined
<1>6. m \in Stores(N) /\ r \in Reverts(N)
  <2>1. m \in [joined -> Signals] /\ r \in [joined -> Signals \cup {Sm}]
    BY <1>4, <1>5 DEF Bound
  <2> HIDE DEF m, r
  <2> QED
    BY <1>2, <2>1 DEF Stores, Reverts
<1>7. /\ DOMAIN m = joined /\ DOMAIN r = joined
      /\ \A v \in joined : m[v] = Placeholder(c, h, v)
      /\ \A v \in joined : r[v] = IF v \in DOMAIN c.vis THEN c.vis[v] ELSE Sm
  BY DEF Bound
<1> HIDE DEF m, r
<1>8. Over(m, c.vis) \in Stores(N) /\ Over(c.rev, r) \in Reverts(N)
  BY <1>0, <1>6, OverStores, OverReverts
<1>9. /\ d \in Contexts(N) /\ SameNotes(c, d) /\ d.cas = c.cas /\ d.log = c.log /\ d.timing = c.timing
      /\ d.vis = Over(m, c.vis) /\ d.rev = Over(c.rev, r)
  BY <1>0, <1>3, <1>8 DEF Contexts, SameNotes
<1>10. Written(c.vis, c.rev, d.vis, d.rev, joined)
  BY <1>7, <1>9 DEF Written, Over
<1>11. \A v \in joined : d.vis[v] = Placeholder(c, h, v) /\ v \in DOMAIN d.vis
  BY <1>7, <1>9 DEF Over
<1>12. ASSUME NEW v \in DOMAIN F, NEW e \in Env
       PROVE  e \in F[v] <=> (IF e \in c.cas.on THEN Pend(d.vis, <<>>, v, e) ELSE e \in F[v])
  <2> SUFFICES ASSUME e \in c.cas.on PROVE e \in F[v] <=> Pend(d.vis, <<>>, v, e)
    OBVIOUS
  <2>1. ReadsAt(c, H, V, u, v, n, F[v])
    <3>1. \A k \in B[v]..n : ReadsAt(c, H, V, u, v, k, F[v])
      BY DEF Good, Reads
    <3>2. n \in B[v]..n
      BY <1>0
    <3> QED
      BY <3>1, <3>2
  <2>2. StoreAt(c, V, n) = c.vis /\ OnAt(c, H, n) = c.cas.on /\ UpdAt(H, u, n) = u /\ ~(n < n)
    BY <1>0 DEF StoreAt, OnAt, UpdAt
  <2>3. v \in StaticVars \/ v \in DOMAIN c.vis
    BY <2>1, <2>2 DEF ReadsAt
  <2>4. e \in F[v] <=> Pend(c.vis, u, v, e)
    BY <2>1, <2>2 DEF ReadsAt, Deepest
  <2>5. Evaluate(c, v) = Value(c.vis, v)
    BY <2>3, NameFacts DEF Evaluate, Bound, Value
  <2>6. Pend(d.vis, <<>>, v, e) <=> e \in Value(d.vis, v).on
    BY NoPending
  <2>7. CASE v \in joined
    <3>1. Value(d.vis, v) = Placeholder(c, h, v)
      BY <1>11, <2>7 DEF Value
    <3>2. e \in Placeholder(c, h, v).on <=> Pend(c.vis, u, v, e)
      BY <2>5 DEF Placeholder, Pend, Drivers, Sig
    <3> QED
      BY <2>4, <2>6, <3>1, <3>2
  <2>8. CASE v \notin joined
    <3>1. \A i \in DOMAIN u : v \notin DOMAIN u[i].val
      BY <2>3, <2>8, NameFacts DEF joined, Bound
    <3>2. Drivers(u, v, e) = {}
      BY <3>1 DEF Drivers
    <3>3. Value(d.vis, v) = Value(c.vis, v)
      BY <1>10, <2>8 DEF Written, Value
    <3> QED
      BY <2>4, <2>6, <3>2, <3>3 DEF Pend
  <2> QED
    BY <2>7, <2>8
<1>13. Good(d, H, V, <<>>, N, B, F)
  <2>1. d.cas.on = c.cas.on
    BY <1>9
  <2> QED
    BY <1>0, <1>9, <1>10, <1>12, <2>1, Rebind
<1> QED
  BY <1>9, <1>13 DEF FinishFacts, d

LEMMA DescendFacts ==
  ASSUME NEW N, NEW c \in Contexts(N)
  PROVE  Descend(c) \in Contexts(N) /\ SameNotes(c, Descend(c)) /\ SameStore(c, Descend(c))
<1> DEFINE k == [path |-> Append(c.cas.path, c.cas.nsw + 1), on |-> c.cas.on, nsw |-> 0]
<1>1. c.cas \in Cases
  BY ContextType
<1>2. k \in Cases /\ k.on = c.cas.on
  BY <1>1 DEF Cases
<1>3. Descend(c) = [c EXCEPT !.cas = k]
  BY DEF Descend
<1> HIDE DEF k
<1> QED
  BY <1>2, <1>3 DEF Contexts, SameNotes, SameStore

CloseFacts(c, x, d) == SameNotes(c, d) /\ d.cas.on = x.parent.on

LEMMA CloseGood ==
  ASSUME NEW c, NEW N, NEW H \in Seq(Helpers(N)), NEW V \in Seq(Stores(N)), Len(V) = Len(H),
         NEW x \in Helpers(N), NEW w \in Stores(N), NEW F, NEW B \in [DOMAIN F -> 0..Len(H)],
         Good(c, Append(H, x), Append(V, w), <<>>, N, B, F)
  PROVE  Good(Close(c, x), H, V, <<>>, N, B, F) /\ CloseFacts(c, x, Close(c, x))
<1> DEFINE y == ExitBranch(c, x)
           d == Finish(y.c, y.h)
<1>1. Good(y.c, H, V, y.h.updates, N, B, F) /\ ExitFacts(c, x, y.c, y.h, N)
  BY ExitGood
<1>2. c.timing # "Initial"
  <2> DEFINE J == Append(H, x)
             W == Append(V, w)
  <2>1. Good(c, J, W, <<>>, N, B, F) /\ J # <<>>
    OBVIOUS
  <2> HIDE DEF J, W
  <2> QED
    BY <2>1, GoodFacts
<1> HIDE DEF y
<1>3. y.h \in Helpers(N) /\ SameNotes(c, y.c) /\ y.c.cas = x.parent /\ y.c.timing # "Initial"
  BY <1>1, <1>2 DEF ExitFacts, SameNotes
<1>4. Good(d, H, V, <<>>, N, B, F) /\ FinishFacts(y.c, d, N)
  BY <1>1, <1>3, FinishGood
<1> HIDE DEF d
<1>5. CloseFacts(c, x, d)
  BY <1>3, <1>4 DEF CloseFacts, FinishFacts, SameNotes
<1>6. d = Close(c, x)
  BY DEF d, y, Close
<1> QED
  BY <1>4, <1>5, <1>6

LEMMA LastOfPrefix ==
  ASSUME NEW S, NEW X \in Seq(S), NEW k \in 1..Len(X)
  PROVE  /\ SubSeq(X, 1, k) = Append(SubSeq(X, 1, k - 1), X[k]) /\ X[k] \in S
         /\ SubSeq(X, 1, k - 1) \in Seq(S) /\ Len(SubSeq(X, 1, k - 1)) = k - 1
<1>1. Len(X) \in Nat /\ k - 1 \in 0..Len(X) /\ k \in Nat /\ k - 1 \in Nat
  OBVIOUS
<1>2. /\ SubSeq(X, 1, k) \in Seq(S) /\ Len(SubSeq(X, 1, k)) = k
      /\ \A i \in 1..k : SubSeq(X, 1, k)[i] = X[i]
  BY <1>1
<1>3. /\ SubSeq(X, 1, k - 1) \in Seq(S) /\ Len(SubSeq(X, 1, k - 1)) = k - 1
      /\ \A i \in 1..(k - 1) : SubSeq(X, 1, k - 1)[i] = X[i]
  BY <1>1
<1> DEFINE A == SubSeq(X, 1, k)
           P == SubSeq(X, 1, k - 1)
           Q == Append(P, X[k])
<1>4. X[k] \in S
  OBVIOUS
<1> HIDE DEF A, P
<1>5. P \in Seq(S) /\ Len(P) = k - 1 /\ A \in Seq(S) /\ Len(A) = k
  BY <1>2, <1>3 DEF A, P
<1>6. Q \in Seq(S) /\ Len(Q) = k /\ Q[k] = X[k] /\ \A i \in 1..(k - 1) : Q[i] = P[i]
  BY <1>1, <1>4, <1>5
<1> HIDE DEF Q
<1>7. \A i \in 1..k : A[i] = Q[i]
  <2>1. \A i \in 1..k : i \in 1..(k - 1) \/ i = k
    BY <1>1
  <2>2. \A i \in 1..k : A[i] = X[i]
    BY <1>2 DEF A
  <2>3. \A i \in 1..(k - 1) : P[i] = X[i]
    BY <1>3 DEF P
  <2> QED
    BY <1>6, <2>1, <2>2, <2>3
<1>8. A = Q
  BY <1>5, <1>6, <1>7
<1> QED
  BY <1>3, <1>4, <1>8 DEF A, P, Q

(* The contexts while the switches of a list are closed, innermost first.  *)
Closed(c, stack) ==
  CHOOSE closed : closed = [n \in 0..Len(stack) |->
    IF n = 0 THEN c ELSE Close(closed[n - 1], stack[Len(stack) - n + 1])]

UnwoundTo(c, X, V, N, B, F, d, k) ==
  /\ Good(d, SubSeq(X, 1, k), SubSeq(V, 1, k), <<>>, N, B, F)
  /\ SameNotes(c, d) /\ d.cas.on = OnAt(c, X, k)

LEMMA UnwindStep ==
  ASSUME NEW c, NEW N, NEW X \in Seq(Helpers(N)), NEW V \in Seq(Stores(N)), Len(V) = Len(X),
         NEW k \in 1..Len(X), NEW F, NEW B \in [DOMAIN F -> 0..(k - 1)],
         NEW d, UnwoundTo(c, X, V, N, B, F, d, k)
  PROVE  UnwoundTo(c, X, V, N, B, F, Close(d, X[k]), k - 1)
<1> DEFINE H == SubSeq(X, 1, k - 1)
           W == SubSeq(V, 1, k - 1)
<1>1. /\ SubSeq(X, 1, k) = Append(H, X[k]) /\ X[k] \in Helpers(N) /\ H \in Seq(Helpers(N))
      /\ Len(H) = k - 1
  BY LastOfPrefix
<1>2. /\ SubSeq(V, 1, k) = Append(W, V[k]) /\ V[k] \in Stores(N) /\ W \in Seq(Stores(N))
      /\ Len(W) = k - 1
  BY LastOfPrefix
<1> HIDE DEF H, W
<1>3. Good(d, Append(H, X[k]), Append(W, V[k]), <<>>, N, B, F)
  BY <1>1, <1>2 DEF UnwoundTo
<1>4. Good(Close(d, X[k]), H, W, <<>>, N, B, F) /\ CloseFacts(d, X[k], Close(d, X[k]))
  BY <1>1, <1>2, <1>3, CloseGood
<1>5. OnAt(c, X, k - 1) = X[k].parent.on
  BY DEF OnAt
<1> QED
  BY <1>4, <1>5 DEF UnwoundTo, CloseFacts, SameNotes, H, W

UnwindsBy(g, c, X, m, N) ==
  /\ g[0] = c
  /\ \A i \in 1..(Len(X) - m) :
       \/ g[i] = Close(g[i - 1], X[Len(X) - i + 1])
       \/ Close(g[i - 1], X[Len(X) - i + 1]) \notin Contexts(N)
Unwinds(g, c, X, V, N, B, F, m) ==
  \A i \in 0..(Len(X) - m) :
    /\ UnwoundTo(c, X, V, N, B, F, g[i], Len(X) - i)
    /\ i > 0 => g[i] = Close(g[i - 1], X[Len(X) - i + 1])

LEMMA UnwindOrbit ==
  ASSUME NEW c, NEW N, NEW X \in Seq(Helpers(N)), NEW V \in Seq(Stores(N)), Len(V) = Len(X),
         NEW F, NEW m \in 0..Len(X), NEW B \in [DOMAIN F -> 0..m],
         Good(c, X, V, <<>>, N, B, F), NEW g, UnwindsBy(g, c, X, m, N)
  PROVE  Unwinds(g, c, X, V, N, B, F, m)
<1> DEFINE n == Len(X)
           S == {i \in 0..(n - m) :
                   /\ UnwoundTo(c, X, V, N, B, F, g[i], n - i)
                   /\ i > 0 => g[i] = Close(g[i - 1], X[n - i + 1])}
<1>1. n \in Nat /\ m \in Nat /\ m <= n /\ n - m \in Nat
  OBVIOUS
<1>2. 0 \in S
  <2>1. SubSeq(X, 1, n) = X /\ SubSeq(V, 1, n) = V /\ OnAt(c, X, n) = c.cas.on
    BY DEF OnAt
  <2>2. UnwoundTo(c, X, V, N, B, F, c, n)
    BY <2>1 DEF UnwoundTo, SameNotes
  <2>4. g[0] = c
    BY DEF UnwindsBy
  <2>3. n - 0 = n /\ 0 \in 0..(n - m)
    BY <1>1
  <2> HIDE DEF n
  <2> QED
    BY <2>2, <2>3, <2>4
<1>3. ASSUME NEW i \in 1..(n - m), i - 1 \in S PROVE i \in S
  <2> DEFINE k == n - i + 1
             d == g[i - 1]
  <2>1. k \in 1..n /\ k - 1 = n - i /\ n - (i - 1) = k /\ m <= k - 1 /\ i \in 0..(n - m)
    BY <1>1
  <2>2. UnwoundTo(c, X, V, N, B, F, d, k)
    BY <1>3, <2>1
  <2>3. B \in [DOMAIN F -> 0..(k - 1)]
    <3>1. 0..m \subseteq 0..(k - 1)
      BY <1>1, <2>1
    <3> QED
      BY <3>1
  <2> HIDE DEF k, d
  <2>4. UnwoundTo(c, X, V, N, B, F, Close(d, X[k]), k - 1)
    BY <2>1, <2>2, <2>3, UnwindStep
  <2>5. Close(d, X[k]) \in Contexts(N)
    BY <2>4, GoodFacts DEF UnwoundTo
  <2>6. g[i] = Close(d, X[k])
    BY <2>5 DEF d, k, UnwindsBy
  <2> QED
    BY <2>1, <2>4, <2>6 DEF d, k
<1> HIDE DEF S
<1>4. 0..(n - m) \subseteq S
  BY <1>1, <1>2, <1>3, FromZeroInduction
<1> QED
  BY <1>4 DEF S, Unwinds

(* Closing the switches of a list, from the innermost level back to the    *)
(* one the list is in.                                                     *)
LEMMA UnwindGood ==
  ASSUME NEW c, NEW N, NEW H \in Seq(Helpers(N)), NEW sw \in Seq(Helpers(N)), NEW V,
         NEW F, NEW B \in [DOMAIN F -> 0..Len(H)], Good(c, H \o sw, V, <<>>, N, B, F)
  PROVE  LET d == Unwind(c, sw)
         IN  /\ Good(d, H, SubSeq(V, 1, Len(H)), <<>>, N, B, F)
             /\ SameNotes(c, d) /\ d.cas.on = OnAt(c, H \o sw, Len(H))
<1> DEFINE X == H \o sw
           m == Len(H)
           n == Len(X)
           L == Len(sw)
           T == Contexts(N)
           next(v, i) == Close(v, X[n - i + 1])
           step == [i \in 1..L |-> [v \in T |-> IF next(v, i) \in T THEN next(v, i) ELSE v]]
           g == Closed(c, sw)
<1>1. /\ X \in Seq(Helpers(N)) /\ n = m + L /\ m \in Nat /\ L \in Nat /\ n \in Nat
      /\ \A i \in 1..m : X[i] = H[i]
      /\ \A i \in 1..L : X[m + i] = sw[i]
  BY ConcatProperties
<1>2. Good(c, X, V, <<>>, N, B, F) /\ SubSeq(X, 1, m) = H
  <2>1. SubSeq(X, 1, m) = H
    OBVIOUS
  <2> QED
    BY <2>1
<1> HIDE DEF X
<1>3. V \in Seq(Stores(N)) /\ Len(V) = n /\ c \in T
  BY <1>2, GoodFacts
<1>4. n - m = L /\ m \in 0..n /\ n \in Nat /\ \A i \in 1..L : X[n - i + 1] = sw[L - i + 1]
  <2>1. n - m = L /\ m \in 0..n
    BY <1>1
  <2>2. ASSUME NEW i \in 1..L PROVE X[n - i + 1] = sw[L - i + 1]
    <3> DEFINE j == L - i + 1
    <3>1. n - i + 1 = m + j /\ j \in 1..L
      BY <1>1
    <3> HIDE DEF j
    <3>2. X[m + j] = sw[j]
      BY <1>1, <3>1
    <3> QED
      BY <3>1, <3>2 DEF j
  <2> QED
    BY <1>1, <2>1, <2>2
<1> HIDE DEF n, m, L
<1>5. PICK f : Iterates(f, c, step, L, T)
  <2>1. ASSUME NEW i \in 1..L, NEW v \in T PROVE step[i][v] \in T
    OBVIOUS
  <2> HIDE DEF step
  <2> QED
    BY <1>1, <1>3, <2>1, IterationExists DEF Stays
<1>6. ASSUME NEW i \in 1..L
      PROVE  f[i - 1] \in T /\ f[i] = IF next(f[i - 1], i) \in T THEN next(f[i - 1], i) ELSE f[i - 1]
  <2>1. i - 1 \in 0..L
    BY <1>1
  <2>2. f[i - 1] \in T /\ f[i] = step[i][f[i - 1]]
    BY <1>5, <2>1 DEF Iterates
  <2> QED
    BY <2>2
<1>7. f[0] = c /\ DOMAIN f = 0..L /\ f = [i \in 0..L |-> f[i]]
  BY <1>5 DEF Iterates
<1> HIDE DEF step, T
<1>8. UnwindsBy(f, c, X, m, N)
  BY <1>4, <1>6, <1>7 DEF T, UnwindsBy, n
<1>9. \A i \in 0..(n - m) : i > 0 => f[i] = Close(f[i - 1], X[n - i + 1])
  <2>1. Unwinds(f, c, X, V, N, B, F, m)
    BY <1>1, <1>2, <1>3, <1>4, <1>8, UnwindOrbit DEF n, m
  <2> QED
    BY <2>1 DEF Unwinds, n
<1>10. f = [i \in 0..Len(sw) |-> IF i = 0 THEN c ELSE Close(f[i - 1], sw[Len(sw) - i + 1])]
  <2>1. ASSUME NEW i \in 0..L PROVE f[i] = IF i = 0 THEN c ELSE Close(f[i - 1], sw[L - i + 1])
    <3>1. CASE i = 0
      BY <1>7, <3>1
    <3>2. CASE i # 0
      <4>1. i \in 1..L /\ i > 0 /\ i \in 0..(n - m)
        BY <1>1, <1>4, <3>2
      <4> QED
        BY <1>4, <1>9, <3>2, <4>1
    <3> QED
      BY <3>1, <3>2
  <2> QED
    BY <1>7, <2>1 DEF L
<1>11. g = [i \in 0..L |-> IF i = 0 THEN c ELSE Close(g[i - 1], sw[L - i + 1])]
  BY <1>10 DEF Closed, L
<1> HIDE DEF g
<1>12. g[0] = c /\ \A i \in 1..(n - m) : g[i] = Close(g[i - 1], X[n - i + 1])
  <2>1. 0 \in 0..L
    BY <1>1
  <2>2. g[0] = c
    BY <1>11, <2>1
  <2>3. ASSUME NEW i \in 1..L PROVE g[i] = Close(g[i - 1], X[n - i + 1])
    <3>1. i \in 0..L /\ i # 0
      BY <1>1
    <3> QED
      BY <1>4, <1>11, <3>1
  <2> QED
    BY <1>4, <2>2, <2>3
<1>13. UnwoundTo(c, X, V, N, B, F, g[L], m)
  <2>0. UnwindsBy(g, c, X, m, N)
    BY <1>12 DEF UnwindsBy, n
  <2>1. Unwinds(g, c, X, V, N, B, F, m)
    BY <1>1, <1>2, <1>3, <1>4, <2>0, UnwindOrbit DEF n, m
  <2>2. L \in 0..(n - m) /\ n - L = m
    BY <1>1, <1>4
  <2> QED
    BY <2>1, <2>2 DEF Unwinds, n
<1>14. Unwind(c, sw) = g[L]
  BY Zenon DEF Unwind, g, Closed, L
<1> QED
  BY <1>2, <1>13, <1>14 DEF UnwoundTo, X, m
-----------------------------------------------------------------------------
(* What the levels say is kept for fewer variables, and where a variable   *)
(* is not in scope its value is free.                                      *)

SameOn(B, F, B2, F2) == \A v \in DOMAIN F2 : v \in DOMAIN F /\ F2[v] = F[v] /\ B2[v] = B[v]

LEMMA GoodAgain ==
  ASSUME NEW c, NEW H, NEW V, NEW u, NEW N, NEW B, NEW F, Good(c, H, V, u, N, B, F),
         NEW F2, NEW B2, F2 \in [DOMAIN F2 -> SUBSET Env], B2 \in [DOMAIN F2 -> 0..Len(H)],
         SameOn(B, F, B2, F2)
  PROVE  Good(c, H, V, u, N, B2, F2)
<1>1. /\ Layers(c, H, V, N) /\ DOMAIN F \subseteq N
      /\ \A v \in DOMAIN F : Reads(c, H, V, u, v, B[v], F[v])
  BY DEF Good
<1>2. DOMAIN F2 \subseteq N /\ \A v \in DOMAIN F2 : Reads(c, H, V, u, v, B2[v], F2[v])
  BY <1>1 DEF SameOn
<1> QED
  BY <1>1, <1>2 DEF Good

LEMMA FreeOutside ==
  ASSUME NEW c, NEW H, NEW V, NEW u, NEW N, NEW B, NEW F, Good(c, H, V, u, N, B, F),
         NEW v \in DOMAIN F, B[v] = Len(H), NEW X \in SUBSET Env,
         X \cap c.cas.on = F[v] \cap c.cas.on
  PROVE  Good(c, H, V, u, N, B, [F EXCEPT ![v] = X])
<1> DEFINE J == [F EXCEPT ![v] = X]
<1>1. /\ Layers(c, H, V, N) /\ DOMAIN F \subseteq N /\ F \in [DOMAIN F -> SUBSET Env]
      /\ B \in [DOMAIN F -> 0..Len(H)]
      /\ \A w \in DOMAIN F : Reads(c, H, V, u, w, B[w], F[w])
  BY DEF Good
<1>2. J \in [DOMAIN F -> SUBSET Env] /\ DOMAIN J = DOMAIN F /\ J[v] = X
      /\ \A w \in DOMAIN F \ {v} : J[w] = F[w]
  BY <1>1
<1>3. Reads(c, H, V, u, v, B[v], X)
  <2>1. Reads(c, H, V, u, v, B[v], F[v])
    BY <1>1
  <2>2. CASE c.timing = "Initial"
    <3>1. c.cas.on = Env
      BY <2>2, GoodFacts
    <3>2. X = F[v]
      BY <1>1, <3>1
    <3> QED
      BY <2>1, <3>2
  <2>3. CASE c.timing # "Initial"
    <3>1. Len(H) \in Nat
      BY GoodFacts
    <3>2. \A k \in Len(H)..Len(H) : k = Len(H)
      BY <3>1
    <3>3. ReadsAt(c, H, V, u, v, Len(H), F[v])
      BY <2>1, <2>3, <3>1 DEF Reads
    <3>4. \A e \in Env : Deepest(c, H, Len(H), e) => (e \in X <=> e \in F[v])
      BY DEF Deepest, OnAt
    <3>5. ReadsAt(c, H, V, u, v, Len(H), X)
      BY <3>3, <3>4 DEF ReadsAt
    <3> QED
      BY <2>3, <3>2, <3>5 DEF Reads
  <2> QED
    BY <2>2, <2>3
<1> HIDE DEF J
<1>4. \A w \in DOMAIN J : Reads(c, H, V, u, w, B[w], J[w])
  <2>1. ASSUME NEW w \in DOMAIN J PROVE Reads(c, H, V, u, w, B[w], J[w])
    <3>1. CASE w = v
      BY <1>2, <1>3, <3>1
    <3>2. CASE w # v
      BY <1>1, <1>2, <3>2
    <3> QED
      BY <3>1, <3>2
  <2> QED
    BY <2>1
<1>5. Good(c, H, V, u, N, B, J)
  BY <1>1, <1>2, <1>4 DEF Good
<1> QED
  BY <1>5 DEF J

(* What an expression reads.  A module-level variable that was not         *)
(* assigned with = stands for its wire.                                    *)
ReadsWire(c, v) == c.timing # "Initial" /\ IsStatic(v) /\ v \notin c.blocking

ReadsRight(c, F, v, R) ==
  /\ ReadsWire(c, v) => Substitute(c, v).on = WireOn[v[2]]
  /\ ~ReadsWire(c, v) => Substitute(c, v).on \cap R = F[v] \cap R

LEMMA SubstituteReads ==
  ASSUME NEW c, NEW H, NEW V, NEW u, NEW N, NEW B, NEW F, Good(c, H, V, u, N, B, F),
         NEW v \in DOMAIN F, NEW R, Clear(c, u, R)
  PROVE  /\ Substitute(c, v) \in Signals
         /\ c.timing = "Initial" => Substitute(c, v).const = TRUE
         /\ ReadsRight(c, F, v, R)
<1> USE DEF ReadsRight
<1>1. CASE c.timing = "Initial"
  <2>1. Substitute(c, v) = c.ini[v]
    BY <1>1 DEF Substitute
  <2>2. v \in DOMAIN c.ini /\ c.ini[v].on = F[v]
    BY <1>1 DEF Good, Reads
  <2>3. c.ini \in Inits(N)
    BY GoodFacts, ContextType
  <2>4. c.ini[v] \in {S0, S1}
    BY <2>2, <2>3 DEF Inits
  <2> QED
    BY <1>1, <2>1, <2>2, <2>4, ConstSignals DEF ReadsWire
<1>2. CASE ReadsWire(c, v)
  <2>1. Substitute(c, v) = Sig(FALSE, WireOn[v[2]])
    BY <1>2 DEF Substitute, ReadsWire
  <2>2. v \in StaticVars
    BY <1>2, GoodFacts DEF ReadsWire
  <2>3. WireOn[v[2]] \in SUBSET Env
    BY <2>2, StaticWire
  <2> QED
    BY <1>2, <2>1, <2>3, VaryingSignals DEF ReadsWire
<1>3. CASE c.timing # "Initial" /\ ~ReadsWire(c, v)
  <2>1. Substitute(c, v) = Evaluate(c, v)
    BY <1>3 DEF Substitute, ReadsWire
  <2>2. /\ Evaluate(c, v) \in Signals
        /\ \A e \in R : e \in Evaluate(c, v).on <=> e \in F[v]
    BY <1>3, ReadClear
  <2> QED
    BY <1>3, <2>1, <2>2
<1> QED
  BY <1>1, <1>2, <1>3 DEF ReadsWire

LEMMA ExpressionCases ==
  ASSUME NEW D, NEW x \in Expressions(D)
  PROVE  \/ \E b \in BOOLEAN : x[1] = "const" /\ x[2] = b
         \/ \E w \in 0..(NWires - 1) : x[1] = "wire" /\ x[2] = w
         \/ \E v \in D : x[1] = "read" /\ x[2] = v
<1>1. CASE \E b \in BOOLEAN : x = <<"const", b>>
  BY <1>1
<1>2. CASE \E w \in 0..(NWires - 1) : x = <<"wire", w>>
  BY <1>2
<1>3. CASE \E v \in D : x = <<"read", v>>
  BY <1>3
<1> QED
  BY <1>1, <1>2, <1>3 DEF Expressions, Const, Wire, Read

LEMMA EvalType ==
  ASSUME NEW c, NEW H, NEW V, NEW u, NEW N, NEW B, NEW F, Good(c, H, V, u, N, B, F),
         NEW D, D \subseteq DOMAIN F, NEW x \in Expressions(D)
  PROVE  /\ Eval(c, x) \in Signals
         /\ c.timing = "Initial" /\ x[1] # "wire" => Eval(c, x).const = TRUE
<1>1. CASE \E b \in BOOLEAN : x[1] = "const" /\ x[2] = b
  BY <1>1, ConstSignals DEF Eval
<1>2. CASE \E w \in 0..(NWires - 1) : x[1] = "wire" /\ x[2] = w
  <2>1. WireOn[x[2]] \in SUBSET Env
    BY <1>2 DEF WireOn
  <2> QED
    BY <1>2, <2>1, VaryingSignals DEF Eval
<1>3. CASE \E v \in D : x[1] = "read" /\ x[2] = v
  <2>1. PICK v \in DOMAIN F : Eval(c, x) = Substitute(c, v)
    BY <1>3 DEF Eval
  <2>2. Clear(c, u, {})
    BY DEF Clear
  <2>3. /\ Substitute(c, v) \in Signals
        /\ c.timing = "Initial" => Substitute(c, v).const = TRUE
    BY <2>2, SubstituteReads
  <2> QED
    BY <2>1, <2>3
<1> QED
  BY <1>1, <1>2, <1>3, ExpressionCases

-----------------------------------------------------------------------------
(* The stack of constructs.  A state has the frames T below the innermost  *)
(* one, and f, the innermost one.  A loop that is between two iterations,  *)
(* with the guard of its body gone, is a "head": no state of the           *)
(* specification has one, the steps of a loop go through it.               *)

AtHead(f, sw) == [kind |-> "head", loop |-> f, sw |-> sw]

(* The helpers whose branch a frame has open. *)
Opened(f) ==
  IF f.kind = "select" THEN (IF f.open THEN <<f.h>> \o f.sw ELSE <<>>)
  ELSE IF f.kind = "loop" THEN f.lsw \o f.sw
  ELSE f.sw

NGuards(kind) == IF kind = "loop" THEN 2 ELSE IF kind \in {"head", "call"} THEN 1 ELSE 0
NParks(kind)  == IF kind \in {"select", "loop", "head", "call"} THEN 1 ELSE 0
NCalls(kind)  == IF kind = "call" THEN 1 ELSE 0
NLoops(kind)  == IF kind \in {"loop", "head"} THEN 1 ELSE 0

(* A layout says what lies below a frame: hs the open helpers, n, m, d, l  *)
(* the numbers of guards, of frames of the semantics, of calls and of      *)
(* loops, and w the valuations that are live or wait in the frame or above. *)
Layout(hs, n, m, d, l, w) == [hs |-> hs, n |-> n, m |-> m, d |-> d, l |-> l, w |-> w]
LayoutOK(y, N) == /\ y.hs \in Seq(Helpers(N)) /\ y.n \in Nat /\ y.m \in Nat
                  /\ y.d \in Nat /\ y.l \in Nat
Bottom(y) == y.hs = <<>> /\ y.n = 0 /\ y.m = 0 /\ y.d = 0 /\ y.l = 0
Follows(f, y, z) ==
  /\ z.hs = y.hs \o Opened(f) /\ z.n = y.n + NGuards(f.kind) /\ z.m = y.m + NParks(f.kind)
  /\ z.d = y.d + NCalls(f.kind) /\ z.l = y.l + NLoops(f.kind)

LocalsTo(d) == {Local(i) : i \in 1..d}

LoopOK(f, d, tm) ==
  /\ f.kind = "loop" /\ DOMAIN f = {"kind", "stmt", "cond", "step", "flag", "lsw", "sw"}
  /\ f.stmt \in {"while", "for", "foreach"}
  /\ f.cond \in Expressions(StaticVars \cup LocalsTo(d))
  /\ f.step \in {None} \cup (StaticVars \X Expressions(StaticVars))
  /\ f.step # None => f.stmt = "for"
  /\ tm = "Initial" => f.cond[1] # "wire" /\ f.stmt # "while"

FrameOK(f, d, N, tm) ==
  /\ f.sw \in Seq(Helpers(N))
  /\ \/ f.kind \in {"root", "block"} /\ DOMAIN f = {"kind", "sw"}
     \/ /\ f.kind = "select" /\ DOMAIN f = {"kind", "stmt", "h", "open", "last", "sw"}
        /\ f.h \in Helpers(N) /\ f.open \in BOOLEAN /\ tm # "Initial"
        /\ f.open = FALSE => f.sw = <<>>
     \/ LoopOK(f, d, tm) /\ f.lsw \in Seq(Helpers(N))
     \/ /\ f.kind = "head" /\ DOMAIN f = {"kind", "loop", "sw"} /\ LoopOK(f.loop, d, tm)
     \/ /\ f.kind = "call" /\ DOMAIN f = {"kind", "target", "sw"}
        /\ f.target \in StaticVars \cup {None}

Guarding(f, y, esc) ==
  /\ f.kind = "loop" => /\ esc[y.n + 1].kind = "Loop" /\ esc[y.n + 1].flag = f.flag
                        /\ esc[y.n + 2].kind = "LoopBody"
  /\ f.kind = "head" => esc[y.n + 1].kind = "Loop" /\ esc[y.n + 1].flag = f.loop.flag
  /\ f.kind = "call" => esc[y.n + 1].kind = "FunctionBody"

(* What is in scope in a frame was declared before its branches were open. *)
Based(f, y, z, esc, B) ==
  /\ \A i \in 1..(IF f.kind = "loop" THEN y.n + 1 ELSE z.n) : B[esc[i].flag] <= Len(y.hs)
  /\ \A i \in 1..z.d : B[Local(i)] <= Len(y.hs)
  /\ f.kind = "loop" => B[esc[y.n + 2].flag] <= Len(y.hs) + Len(f.lsw)

FrameAt(tm, esc, B, N, f, y, z, j) ==
  /\ LayoutOK(y, N) /\ LayoutOK(z, N) /\ Follows(f, y, z) /\ FrameOK(f, y.d, N, tm)
  /\ z.n <= Len(esc) /\ Guarding(f, y, esc) /\ Based(f, y, z, esc, B)
  /\ y.d < j /\ (j = 1 => f.kind = "root")

(* Only the innermost frame may be a head, or a select between two items. *)
Inner(f) == f.kind # "head" /\ (f.kind = "select" => f.open = TRUE)
IsList(t) == \E S : t \in Seq(S)

Under(tm, esc, B, N, T, Y) ==
  /\ IsList(T) /\ Bottom(Y[1])
  /\ \A j \in 1..Len(T) : FrameAt(tm, esc, B, N, T[j], Y[j], Y[j + 1], j) /\ Inner(T[j])

Scope(esc, d) == StaticVars \cup LocalsTo(d) \cup {esc[i].flag : i \in 1..Len(esc)}

Numbered(esc, n) ==
  /\ \A i \in 1..Len(esc) : esc[i].flag \in {Flag(k) : k \in 0..(n - 1)}
  /\ \A i, k \in 1..Len(esc) : esc[i].flag = esc[k].flag => i = k

Scoped(c, z, B, F) ==
  /\ z.n = Len(c.esc) /\ z.l = c.unrolling /\ Numbered(c.esc, c.nflag)
  /\ DOMAIN F = Scope(c.esc, z.d)
  /\ \A v \in StaticVars : B[v] = 0

(* A select between two items. *)
Closing(f) == f.kind = "select" /\ f.open = FALSE
Pending(f) == IF Closing(f) THEN f.h.updates ELSE <<>>
Settled(c, f) == Closing(f) => Fits(f.h, {}) /\ f.h.parent.on = c.cas.on

Names(flags, nest) ==
  StaticVars \cup LocalsTo(nest) \cup {Flag(i) : i \in 0..(flags - 1)}

-----------------------------------------------------------------------------
(* The same execution in the semantics.                                    *)

(* The valuations that have escaped to the n-th guard. *)
Raised(esc, F, n) == IF n = 0 THEN {} ELSE F[esc[n].flag]

SemFrames == [kind : {"select"}, sel : SUBSET Env, rest : SUBSET Env, done : SUBSET Env]
        \cup [kind : {"loop"}, out : SUBSET Env, skip : SUBSET Env]
        \cup [kind : {"call"}, back : SUBSET Env]

SemType(s, depth) ==
  /\ DOMAIN s = {"live", "frames", "cur", "nba", "queued", "written"}
  /\ s.live \subseteq Env /\ s.frames \in Seq(SemFrames)
  /\ s.cur \in [DOMAIN s.cur -> SUBSET Env]
  /\ StaticVars \cup LocalsTo(depth) \subseteq DOMAIN s.cur
  /\ s.nba \in [StaticVars -> SUBSET Env] /\ s.queued \in [StaticVars -> SUBSET Env]
  /\ s.written \in [StaticVars -> SUBSET Env]

(* Every variable has its value, and a module-level one that was not       *)
(* assigned in one of the ways has nothing of that kind.                   *)
Mirrors(s, c, F, depth) ==
  /\ \A v \in StaticVars : F[v] = Final(s, v)
  /\ \A i \in 1..depth : F[Local(i)] = s.cur[Local(i)]
  /\ c.blocking \cap c.nonblocking = {}
  /\ c.timing = "Initial" => c.nonblocking = {}
  /\ \A v \in StaticVars :
       /\ v \notin c.blocking /\ c.timing # "Initial" => s.cur[v] = WireOn[v[2]]
       /\ v \notin c.nonblocking => s.queued[v] = {}

SelectAt(g, h, yw, zw) ==
  /\ g.kind = "select" /\ g.rest = h.left /\ yw = zw \cup g.rest \cup g.done
  /\ g.rest \cap g.done = {} /\ zw \cap (g.rest \cup g.done) = {}
  /\ \A e \in h.left : e \in h.signal.on <=> e \in g.sel
LoopAt(g, on, yw, zw) ==
  /\ g.kind = "loop" /\ yw = zw \cup g.out \cup g.skip /\ on = zw \cup g.skip
  /\ g.out \cap g.skip = {} /\ zw \cap (g.out \cup g.skip) = {}
HeadAt(g, yw, zw) ==
  g.kind = "loop" /\ g.skip = {} /\ yw = zw \cup g.out /\ zw \cap g.out = {}
CallAt(g, on, raised, yw, zw) ==
  g.kind = "call" /\ yw = zw \cup g.back /\ zw \cap g.back = {} /\ on \cap raised = {}

(* Where a construct was entered, the selected valuations that have not    *)
(* escaped past it are the ones that are live or wait in it.               *)
SemAt(c, H, F, fr, f, y, z) ==
  LET on     == OnAt(c, H, Len(y.hs))
      raised == Raised(c.esc, F, y.n)
  IN  /\ on \ raised = y.w
      /\ f.kind \in {"root", "block"} => z.w = y.w
      /\ f.kind = "select" => SelectAt(fr[z.m], f.h, y.w, z.w)
      /\ f.kind = "loop" =>
           LoopAt(fr[z.m], OnAt(c, H, Len(y.hs) + Len(f.lsw)) \ Raised(c.esc, F, y.n + 1), y.w, z.w)
      /\ f.kind = "head" => HeadAt(fr[z.m], y.w, z.w)
      /\ f.kind = "call" => CallAt(fr[z.m], on, raised, y.w, z.w)

Placed(c, f, F, z) ==
  IF Closing(f) THEN z.w = {} ELSE c.cas.on \ Raised(c.esc, F, z.n) = z.w

Meaning(c, T, f, s, Y, z, F) ==
  /\ SemType(s, z.d) /\ Mirrors(s, c, F, z.d) /\ z.m = Len(s.frames) /\ z.w = s.live
  /\ \A j \in 1..Len(T) : SemAt(c, z.hs, F, s.frames, T[j], Y[j], Y[j + 1])
  /\ SemAt(c, z.hs, F, s.frames, f, Y[Len(T) + 1], z)
  /\ Placed(c, f, F, z) /\ c.exhausted = FALSE

Inv(c, T, f, s, p, Y, z, V, B, F) ==
  LET N == Names(c.nflag, p.nest)
  IN  /\ Good(c, z.hs, V, Pending(f), N, B, F)
      /\ Under(c.timing, c.esc, B, N, T, Y)
      /\ FrameAt(c.timing, c.esc, B, N, f, Y[Len(T) + 1], z, Len(T) + 1)
      /\ Scoped(c, z, B, F) /\ Settled(c, f)
      /\ c.broken = FALSE
      /\ c.diag = {} => Meaning(c, T, f, s, Y, z, F)

Known(c, T, f, s, p) == \E Y, z, V, B, F : Inv(c, T, f, s, p, Y, z, V, B, F)

(* The next statement is executed by the valuations that select its case. *)
Exact(c, s) == c.diag = {} => c.cas.on = s.live

-----------------------------------------------------------------------------
(* Expressions have the value the semantics gives them.                    *)

LEMMA FinalIs ==
  ASSUME NEW s, NEW d, SemType(s, d), NEW v \in StaticVars
  PROVE  /\ Final(s, v) = Blend(s.cur[v], s.nba[v], s.queued[v])
         /\ s.queued[v] = {} => Final(s, v) = s.cur[v]
         /\ s.cur[v] \in SUBSET Env /\ s.nba[v] \in SUBSET Env /\ s.queued[v] \in SUBSET Env
BY DEF Final, SemType, Blend

LEMMA EvalTrue ==
  ASSUME NEW c, NEW H, NEW V, NEW u, NEW N, NEW B, NEW F, Good(c, H, V, u, N, B, F),
         NEW s, NEW d, SemType(s, d), Mirrors(s, c, F, d), StaticVars \cup LocalsTo(d) \subseteq DOMAIN F,
         NEW R, Clear(c, u, R), NEW x \in Expressions(StaticVars \cup LocalsTo(d))
  PROVE  Eval(c, x).on \cap R = Truth(s, x) \cap R
<1>1. CASE \E b \in BOOLEAN : x[1] = "const" /\ x[2] = b
  BY <1>1, ConstSignals DEF Eval, Truth
<1>2. CASE \E w \in 0..(NWires - 1) : x[1] = "wire" /\ x[2] = w
  <2>1. WireOn[x[2]] \in SUBSET Env
    BY <1>2 DEF WireOn
  <2> QED
    BY <1>2, <2>1, VaryingSignals DEF Eval, Truth
<1>3. CASE \E v \in StaticVars \cup LocalsTo(d) : x[1] = "read" /\ x[2] = v
  <2>1. PICK v \in StaticVars \cup LocalsTo(d) : Eval(c, x) = Substitute(c, v) /\ Truth(s, x) = s.cur[v]
    BY <1>3 DEF Eval, Truth
  <2>0. v \in DOMAIN F
    OBVIOUS
  <2>3. ReadsRight(c, F, v, R)
    BY <2>0, SubstituteReads
  <2>2. /\ ReadsWire(c, v) => Substitute(c, v).on = WireOn[v[2]]
        /\ ~ReadsWire(c, v) => Substitute(c, v).on \cap R = F[v] \cap R
    BY <2>3 DEF ReadsRight
  <2>5. CASE v \in StaticVars
    <3>1. CASE ReadsWire(c, v)
      BY <2>1, <2>2, <2>5, <3>1 DEF ReadsWire, Mirrors
    <3>2. CASE ~ReadsWire(c, v)
      <4>1. v \notin c.nonblocking
        BY <2>5, <3>2, NameFacts DEF ReadsWire, Mirrors
      <4>2. s.queued[v] = {} /\ F[v] = Final(s, v)
        BY <2>5, <4>1 DEF Mirrors
      <4>3. F[v] = s.cur[v]
        BY <2>5, <4>2, FinalIs
      <4> QED
        BY <2>1, <2>2, <3>2, <4>3
    <3> QED
      BY <3>1, <3>2
  <2>4. CASE v \in LocalsTo(d)
    <3>1. F[v] = s.cur[v] /\ ~ReadsWire(c, v)
      BY <2>4, NameFacts DEF LocalsTo, Mirrors, ReadsWire
    <3> QED
      BY <2>1, <2>2, <3>1
  <2> QED
    BY <2>4, <2>5
<1> QED
  BY <1>1, <1>2, <1>3, ExpressionCases

-----------------------------------------------------------------------------
(* Lists, and what the frames below the innermost one rest on.             *)

LEMMA ListFacts ==
  ASSUME NEW T, IsList(T), NEW f
  PROVE  /\ Len(T) \in Nat /\ IsList(Append(T, f)) /\ Len(Append(T, f)) = Len(T) + 1
         /\ \A j \in 1..Len(T) : Append(T, f)[j] = T[j]
         /\ Append(T, f)[Len(T) + 1] = f
         /\ Front(Append(T, f)) = T /\ Last(Append(T, f)) = f /\ Append(T, f) # <<>>
         /\ DOMAIN Append(T, f) = 1..(Len(T) + 1)
<1>1. PICK S : T \in Seq(S)
  BY DEF IsList
<1>2. T \in Seq(S \cup {f}) /\ f \in S \cup {f}
  BY <1>1, SeqMonotonic
<1>3. /\ Append(T, f) \in Seq(S \cup {f}) /\ Len(Append(T, f)) = Len(T) + 1 /\ Len(T) \in Nat
      /\ \A j \in 1..Len(T) : Append(T, f)[j] = T[j]
      /\ Append(T, f)[Len(T) + 1] = f
      /\ DOMAIN Append(T, f) = 1..(Len(T) + 1)
  BY <1>2, AppendProperties
<1>4. SubSeq(Append(T, f), 1, Len(T)) = T
  <2>1. SubSeq(Append(T, f), 1, Len(T)) = [i \in 1..Len(T) |-> Append(T, f)[i]]
    BY <1>2, <1>3
  <2>2. T = [i \in 1..Len(T) |-> T[i]]
    BY <1>1
  <2> QED
    BY <1>3, <2>1, <2>2
<1> QED
  BY <1>3, <1>4 DEF Front, Last, IsList

LEMMA ListEnd ==
  ASSUME NEW t, IsList(t), Len(t) >= 1
  PROVE  /\ t = Append(Front(t), Last(t)) /\ IsList(Front(t)) /\ Len(Front(t)) = Len(t) - 1
         /\ \A j \in 1..(Len(t) - 1) : Front(t)[j] = t[j]
<1>1. PICK S : t \in Seq(S)
  BY DEF IsList
<1>2. Len(t) \in 1..Len(t)
  BY <1>1
<1>3. /\ SubSeq(t, 1, Len(t)) = Append(SubSeq(t, 1, Len(t) - 1), t[Len(t)])
      /\ SubSeq(t, 1, Len(t) - 1) \in Seq(S) /\ Len(SubSeq(t, 1, Len(t) - 1)) = Len(t) - 1
  BY <1>1, <1>2, LastOfPrefix
<1>4. SubSeq(t, 1, Len(t)) = t
  BY <1>1
<1>5. \A j \in 1..(Len(t) - 1) : SubSeq(t, 1, Len(t) - 1)[j] = t[j]
  BY <1>1
<1> QED
  BY <1>3, <1>4, <1>5 DEF Front, Last, IsList

(* The innermost frame is replaced. *)
LEMMA ListReplace ==
  ASSUME NEW T, IsList(T), NEW f, NEW g
  PROVE  [Append(T, f) EXCEPT ![Len(Append(T, f))] = g] = Append(T, g)
<1>1. PICK S : T \in Seq(S)
  BY DEF IsList
<1>2. T \in Seq(S \cup {f, g}) /\ f \in S \cup {f, g} /\ g \in S \cup {f, g}
  BY <1>1, SeqMonotonic
<1> DEFINE n == Len(T) + 1
           t == Append(T, f)
           u == Append(T, g)
<1>3. /\ Len(t) = n /\ DOMAIN t = 1..n /\ n \in 1..n /\ t \in Seq(S \cup {f, g})
      /\ \A j \in 1..Len(T) : t[j] = T[j]
  BY <1>2, AppendProperties
<1>4. /\ DOMAIN u = 1..n /\ u[n] = g /\ u \in Seq(S \cup {f, g}) /\ Len(u) = n
      /\ \A j \in 1..Len(T) : u[j] = T[j]
  BY <1>2, AppendProperties
<1>5. Len(T) \in Nat
  BY <1>1
<1> HIDE DEF t, u
<1>6. \A j \in 1..n : [t EXCEPT ![n] = g][j] = u[j]
  BY <1>3, <1>4, <1>5
<1>7. u = [j \in 1..n |-> u[j]]
  BY <1>4
<1>8. [t EXCEPT ![n] = g] = u
  BY <1>3, <1>6, <1>7
<1> QED
  BY <1>3, <1>8 DEF t, u

LEMMA OpenedType ==
  ASSUME NEW f, NEW d, NEW N, NEW tm, FrameOK(f, d, N, tm)
  PROVE  /\ Opened(f) \in Seq(Helpers(N)) /\ f.sw \in Seq(Helpers(N))
         /\ f.kind \in {"root", "block", "select", "loop", "head", "call"}
         /\ tm = "Initial" => f.kind # "select"
<1> HIDE DEF Helpers
<1>1. f.sw \in Seq(Helpers(N))
  BY DEF FrameOK
<1>2. CASE f.kind \in {"root", "block", "head", "call"}
  BY <1>1, <1>2 DEF Opened
<1>3. CASE f.kind = "select" /\ f.open \in BOOLEAN /\ f.h \in Helpers(N) /\ tm # "Initial"
  <2>1. <<f.h>> \in Seq(Helpers(N)) /\ <<>> \in Seq(Helpers(N))
    BY <1>3
  <2>2. <<f.h>> \o f.sw \in Seq(Helpers(N))
    BY <1>1, <2>1, ConcatProperties
  <2> QED
    BY <1>1, <1>3, <2>1, <2>2 DEF Opened
<1>4. CASE f.kind = "loop" /\ f.lsw \in Seq(Helpers(N))
  <2>1. f.lsw \o f.sw \in Seq(Helpers(N))
    BY <1>1, <1>4, ConcatProperties
  <2> QED
    BY <1>1, <1>4, <2>1 DEF Opened
<1> QED
  BY <1>2, <1>3, <1>4 DEF FrameOK, LoopOK

Below(y, z) == /\ Len(y.hs) <= Len(z.hs) /\ y.n <= z.n /\ y.m <= z.m
               /\ y.d <= z.d /\ y.l <= z.l

LEMMA FrameRises ==
  ASSUME NEW tm, NEW esc, NEW B, NEW N, NEW f, NEW y, NEW z, NEW j,
         FrameAt(tm, esc, B, N, f, y, z, j)
  PROVE  Below(y, z) /\ LayoutOK(y, N) /\ LayoutOK(z, N) /\ Len(y.hs) \in Nat /\ Len(z.hs) \in Nat
         /\ Len(z.hs) = Len(y.hs) + Len(Opened(f))
<1> HIDE DEF Helpers
<1>1. LayoutOK(y, N) /\ LayoutOK(z, N) /\ Follows(f, y, z) /\ FrameOK(f, y.d, N, tm)
  BY DEF FrameAt
<1>2. Opened(f) \in Seq(Helpers(N))
  BY <1>1, OpenedType
<1>3. Len(z.hs) = Len(y.hs) + Len(Opened(f)) /\ Len(y.hs) \in Nat /\ Len(z.hs) \in Nat
      /\ Len(Opened(f)) \in Nat
  BY <1>1, <1>2, ConcatProperties DEF Follows, LayoutOK
<1>4. y.n <= z.n /\ y.m <= z.m /\ y.d <= z.d /\ y.l <= z.l
  BY <1>1, SMTT(30) DEF Follows, LayoutOK, NGuards, NParks, NCalls, NLoops
<1> QED
  BY <1>1, <1>3, <1>4 DEF Below

(* What lies below an inner frame lies below an outer one. *)
Rising(Y, n, N) ==
  /\ \A j \in 1..n : LayoutOK(Y[j], N) /\ Len(Y[j].hs) \in Nat
  /\ \A i, j \in 1..n : i <= j => Below(Y[i], Y[j])

LEMMA UnderRises ==
  ASSUME NEW tm, NEW esc, NEW B, NEW N, NEW T, NEW Y, Under(tm, esc, B, N, T, Y)
  PROVE  Len(T) \in Nat /\ Rising(Y, Len(T) + 1, N)
<1> HIDE DEF Helpers
<1> DEFINE n == Len(T) + 1
<1>1. Len(T) \in Nat
  BY ListFacts DEF Under
<1>2. ASSUME NEW j \in 1..(n - 1)
      PROVE  Below(Y[j], Y[j + 1]) /\ LayoutOK(Y[j + 1], N) /\ Len(Y[j + 1].hs) \in Nat
  BY <1>1, FrameRises DEF Under
<1>3. LayoutOK(Y[1], N) /\ Len(Y[1].hs) \in Nat
  BY DEF Under, Bottom, LayoutOK
<1>4. n \in Nat /\ n - 1 = Len(T)
  BY <1>1
<1> HIDE DEF n
<1>5. ASSUME NEW j \in 1..n PROVE LayoutOK(Y[j], N) /\ Len(Y[j].hs) \in Nat
  <2>1. CASE j = 1
    BY <1>3, <2>1
  <2>2. CASE j # 1
    <3>1. j - 1 \in 1..(n - 1) /\ (j - 1) + 1 = j
      BY <1>4, <2>2
    <3> QED
      BY <1>2, <3>1
  <2> QED
    BY <2>1, <2>2
<1>6. ASSUME NEW i \in 1..n, NEW j \in 1..n, i <= j PROVE Below(Y[i], Y[j])
  <2> DEFINE fh == [k \in 1..n |-> Len(Y[k].hs)]
             fn == [k \in 1..n |-> Y[k].n]
             fm == [k \in 1..n |-> Y[k].m]
             fd == [k \in 1..n |-> Y[k].d]
             fl == [k \in 1..n |-> Y[k].l]
  <2>1. \A k \in 1..n : fh[k] \in Nat /\ fn[k] \in Nat /\ fm[k] \in Nat /\ fd[k] \in Nat /\ fl[k] \in Nat
    BY <1>5 DEF LayoutOK
  <2>2. \A k \in 1..(n - 1) : k \in 1..n /\ k + 1 \in 1..n
    BY <1>4
  <2>3. \A k \in 1..(n - 1) : /\ fh[k] <= fh[k + 1] /\ fn[k] <= fn[k + 1] /\ fm[k] <= fm[k + 1]
                              /\ fd[k] <= fd[k + 1] /\ fl[k] <= fl[k + 1]
    BY <1>2, <2>2 DEF Below
  <2>4. /\ fh[i] = Len(Y[i].hs) /\ fh[j] = Len(Y[j].hs) /\ fn[i] = Y[i].n /\ fn[j] = Y[j].n
        /\ fm[i] = Y[i].m /\ fm[j] = Y[j].m /\ fd[i] = Y[i].d /\ fd[j] = Y[j].d
        /\ fl[i] = Y[i].l /\ fl[j] = Y[j].l
    OBVIOUS
  <2> HIDE DEF fh, fn, fm, fd, fl
  <2>5. fh[i] <= fh[j]
    BY ONLY <1>4, <1>6, <2>1, <2>3, RisingNumbers
  <2>6. fn[i] <= fn[j]
    BY ONLY <1>4, <1>6, <2>1, <2>3, RisingNumbers
  <2>7. fm[i] <= fm[j]
    BY ONLY <1>4, <1>6, <2>1, <2>3, RisingNumbers
  <2>8. fd[i] <= fd[j]
    BY ONLY <1>4, <1>6, <2>1, <2>3, RisingNumbers
  <2>9. fl[i] <= fl[j]
    BY ONLY <1>4, <1>6, <2>1, <2>3, RisingNumbers
  <2> QED
    BY <2>4, <2>5, <2>6, <2>7, <2>8, <2>9 DEF Below
<1> QED
  BY <1>1, <1>5, <1>6 DEF Rising, n

(* The frames below depend only on the guards and variables in scope there. *)
SameScope(y, esc, B, esc2, B2) ==
  /\ Len(esc2) \in Nat /\ y.n <= Len(esc2)
  /\ \A i \in 1..y.n : esc2[i] = esc[i] /\ B2[esc[i].flag] = B[esc[i].flag]
  /\ \A i \in 1..y.d : B2[Local(i)] = B[Local(i)]

LEMMA SmallerRanges ==
  ASSUME NEW a \in Nat, NEW b \in Nat, a <= b
  PROVE  1..a \subseteq 1..b /\ 0..a \subseteq 0..b
OBVIOUS

LEMMA BelowRanges ==
  ASSUME NEW N, NEW y, NEW z, LayoutOK(y, N), LayoutOK(z, N), Below(y, z)
  PROVE  /\ 1..y.n \subseteq 1..z.n /\ 0..y.n \subseteq 0..z.n /\ 1..y.d \subseteq 1..z.d
         /\ 1..y.m \subseteq 1..z.m /\ 0..Len(y.hs) \subseteq 0..Len(z.hs) /\ y.n \in Nat /\ z.n \in Nat
<1>1. Len(y.hs) \in Nat /\ Len(z.hs) \in Nat
  BY DEF LayoutOK
<1>2. y.n \in Nat /\ z.n \in Nat /\ y.m \in Nat /\ z.m \in Nat /\ y.d \in Nat /\ z.d \in Nat
  BY DEF LayoutOK
<1>3. Len(y.hs) <= Len(z.hs) /\ y.n <= z.n /\ y.m <= z.m /\ y.d <= z.d
  BY DEF Below
<1> QED
  BY <1>1, <1>2, <1>3, SmallerRanges

LEMMA FrameKept ==
  ASSUME NEW tm, NEW esc, NEW B, NEW N, NEW f, NEW y, NEW z, NEW j,
         FrameAt(tm, esc, B, N, f, y, z, j),
         NEW esc2, NEW B2, NEW M, N \subseteq M, SameScope(z, esc, B, esc2, B2)
  PROVE  FrameAt(tm, esc2, B2, M, f, y, z, j)
<1>1. Helpers(N) \subseteq Helpers(M)
  BY ContextsGrow
<1> HIDE DEF Helpers
<1>2. /\ LayoutOK(y, N) /\ LayoutOK(z, N) /\ Follows(f, y, z) /\ FrameOK(f, y.d, N, tm)
      /\ Guarding(f, y, esc) /\ Based(f, y, z, esc, B) /\ y.d < j /\ (j = 1 => f.kind = "root")
  BY DEF FrameAt
<1>3. Seq(Helpers(N)) \subseteq Seq(Helpers(M))
  BY <1>1, SeqMonotonic
<1>4. LayoutOK(y, M) /\ LayoutOK(z, M)
  BY <1>2, <1>3 DEF LayoutOK
<1>5. FrameOK(f, y.d, M, tm)
  BY <1>1, <1>2, <1>3 DEF FrameOK
<1>6. y.n \in Nat /\ z.n \in Nat /\ z.n <= Len(esc2) /\ z.n = y.n + NGuards(f.kind)
  BY <1>2 DEF LayoutOK, Follows, SameScope
<1>7. Guarding(f, y, esc2)
  <2>1. CASE f.kind = "loop"
    <3>1. y.n + 1 \in 1..z.n /\ y.n + 2 \in 1..z.n
      BY <1>6, <2>1 DEF NGuards
    <3> QED
      BY <1>2, <2>1, <3>1 DEF Guarding, SameScope
  <2>2. CASE f.kind \in {"head", "call"}
    <3>1. y.n + 1 \in 1..z.n
      BY <1>6, <2>2 DEF NGuards
    <3> QED
      BY <1>2, <2>2, <3>1 DEF Guarding, SameScope
  <2> QED
    BY <2>1, <2>2 DEF Guarding
<1>8. Based(f, y, z, esc2, B2)
  <2>1. f.kind = "loop" => y.n + 1 <= z.n /\ y.n + 2 \in 1..z.n
    BY <1>6 DEF NGuards
  <2>2. \A i \in 1..(IF f.kind = "loop" THEN y.n + 1 ELSE z.n) : i \in 1..z.n
    BY <1>6, <2>1
  <2> QED
    BY <1>2, <2>1, <2>2 DEF Based, SameScope
<1> QED
  BY <1>2, <1>4, <1>5, <1>6, <1>7, <1>8 DEF FrameAt

LEMMA UnderKept ==
  ASSUME NEW tm, NEW esc, NEW B, NEW N, NEW T, NEW Y, Under(tm, esc, B, N, T, Y),
         NEW esc2, NEW B2, NEW M, N \subseteq M, SameScope(Y[Len(T) + 1], esc, B, esc2, B2)
  PROVE  Under(tm, esc2, B2, M, T, Y)
<1> HIDE DEF Helpers
<1>1. Len(T) \in Nat /\ Rising(Y, Len(T) + 1, N)
  BY UnderRises
<1>2. ASSUME NEW j \in 1..Len(T) PROVE FrameAt(tm, esc2, B2, M, T[j], Y[j], Y[j + 1], j)
  <2>1. FrameAt(tm, esc, B, N, T[j], Y[j], Y[j + 1], j)
    BY DEF Under
  <2>2. j + 1 \in 1..(Len(T) + 1) /\ Len(T) + 1 \in 1..(Len(T) + 1) /\ j + 1 <= Len(T) + 1
    BY <1>1
  <2>3. Below(Y[j + 1], Y[Len(T) + 1]) /\ LayoutOK(Y[j + 1], N) /\ LayoutOK(Y[Len(T) + 1], N)
    BY <1>1, <2>2 DEF Rising
  <2>5. /\ 1..Y[j + 1].n \subseteq 1..Y[Len(T) + 1].n /\ 1..Y[j + 1].d \subseteq 1..Y[Len(T) + 1].d
        /\ Y[j + 1].n \in Nat /\ Y[Len(T) + 1].n \in Nat /\ Y[j + 1].n <= Y[Len(T) + 1].n
    BY <2>3, BelowRanges DEF Below
  <2>4. SameScope(Y[j + 1], esc, B, esc2, B2)
    BY <2>5 DEF SameScope
  <2> QED
    BY <2>1, <2>4, FrameKept
<1> QED
  BY <1>2 DEF Under

(* One more frame below. *)
Above(Y, n, z) == [j \in 1..(n + 2) |-> IF j <= n + 1 THEN Y[j] ELSE z]

LEMMA AboveFacts ==
  ASSUME NEW Y, NEW n \in Nat, NEW z
  PROVE  /\ \A j \in 1..(n + 1) : Above(Y, n, z)[j] = Y[j]
         /\ Above(Y, n, z)[n + 2] = z /\ Above(Y, n, z)[1] = Y[1]
         /\ Above(Y, n, z)[n + 1] = Y[n + 1]
<1>1. \A j \in 1..(n + 1) : j \in 1..(n + 2) /\ j <= n + 1
  OBVIOUS
<1>2. n + 2 \in 1..(n + 2) /\ ~(n + 2 <= n + 1) /\ 1 \in 1..(n + 1) /\ n + 1 \in 1..(n + 1)
  OBVIOUS
<1> QED
  BY <1>1, <1>2 DEF Above

LEMMA UnderPush ==
  ASSUME NEW tm, NEW esc, NEW B, NEW N, NEW T, NEW Y, Under(tm, esc, B, N, T, Y),
         NEW f, NEW z, FrameAt(tm, esc, B, N, f, Y[Len(T) + 1], z, Len(T) + 1), Inner(f)
  PROVE  Under(tm, esc, B, N, Append(T, f), Above(Y, Len(T), z))
<1> DEFINE n == Len(T)
           U == Append(T, f)
           X == Above(Y, n, z)
<1>1. /\ n \in Nat /\ IsList(U) /\ Len(U) = n + 1 /\ \A j \in 1..n : U[j] = T[j]
  BY ListFacts DEF Under
<1>0. U[n + 1] = f
  BY ListFacts DEF Under
<1>2. (\A j \in 1..(n + 1) : X[j] = Y[j]) /\ X[n + 2] = z /\ X[1] = Y[1]
  BY <1>1, AboveFacts
<1>3. Bottom(Y[1]) /\ \A j \in 1..n : FrameAt(tm, esc, B, N, T[j], Y[j], Y[j + 1], j) /\ Inner(T[j])
  BY DEF Under
<1>4. FrameAt(tm, esc, B, N, f, Y[n + 1], z, n + 1)
  OBVIOUS
<1> HIDE DEF n, U, X
<1>5. ASSUME NEW j \in 1..(n + 1)
      PROVE  FrameAt(tm, esc, B, N, U[j], X[j], X[j + 1], j) /\ Inner(U[j])
  <2>1. CASE j \in 1..n
    <3>1. j + 1 \in 1..(n + 1)
      BY <1>1, <2>1
    <3> QED
      BY <1>1, <1>2, <1>3, <2>1, <3>1
  <2>2. CASE j = n + 1
    <3>1. j + 1 = n + 2
      BY <1>1, <2>2
    <3> QED
      BY <1>0, <1>2, <1>4, <2>2, <3>1
  <2> QED
    BY <1>1, <2>1, <2>2
<1>6. Under(tm, esc, B, N, U, X)
  BY <1>1, <1>2, <1>3, <1>5 DEF Under
<1> QED
  BY <1>6 DEF U, X, n

LEMMA UnderPop ==
  ASSUME NEW tm, NEW esc, NEW B, NEW N, NEW T, NEW Y, Under(tm, esc, B, N, T, Y), Len(T) >= 1
  PROVE  /\ Under(tm, esc, B, N, Front(T), Y) /\ T = Append(Front(T), Last(T))
         /\ Len(Front(T)) + 1 = Len(T) /\ Inner(Last(T)) /\ Last(T) = T[Len(T)]
         /\ FrameAt(tm, esc, B, N, Last(T), Y[Len(T)], Y[Len(T) + 1], Len(T))
<1>1. IsList(T)
  BY DEF Under
<1>2. /\ T = Append(Front(T), Last(T)) /\ IsList(Front(T)) /\ Len(Front(T)) = Len(T) - 1
      /\ \A j \in 1..(Len(T) - 1) : Front(T)[j] = T[j]
  BY <1>1, ListEnd
<1>3. Len(T) \in Nat /\ Len(T) \in 1..Len(T) /\ Last(T) = T[Len(T)]
  BY <1>1, ListFacts DEF Last
<1>4. \A j \in 1..Len(T) : FrameAt(tm, esc, B, N, T[j], Y[j], Y[j + 1], j) /\ Inner(T[j])
  BY DEF Under
<1>5. \A j \in 1..Len(Front(T)) : j \in 1..Len(T) /\ j \in 1..(Len(T) - 1)
  BY <1>2, <1>3
<1>6. Bottom(Y[1])
  BY DEF Under
<1> HIDE DEF FrameAt, Inner, Front, Last
<1>7. Under(tm, esc, B, N, Front(T), Y)
  BY <1>2, <1>4, <1>5, <1>6 DEF Under
<1> QED
  BY <1>2, <1>3, <1>4, <1>7

-----------------------------------------------------------------------------
(* The same for the semantics.                                             *)

SemBelow(c, H, F, fr, T, Y) ==
  \A j \in 1..Len(T) : SemAt(c, H, F, fr, T[j], Y[j], Y[j + 1])

SamePlaces(y, c, H, F, fr, d, H2, F2, fr2) ==
  /\ \A k \in 0..Len(y.hs) : OnAt(d, H2, k) = OnAt(c, H, k)
  /\ \A n \in 0..y.n : Raised(d.esc, F2, n) = Raised(c.esc, F, n)
  /\ \A i \in 1..y.m : fr2[i] = fr[i]

LEMMA SemKept ==
  ASSUME NEW tm, NEW esc, NEW B, NEW N, NEW f, NEW y, NEW z, NEW j,
         FrameAt(tm, esc, B, N, f, y, z, j),
         NEW c, NEW H, NEW F, NEW fr, SemAt(c, H, F, fr, f, y, z),
         NEW d, NEW H2, NEW F2, NEW fr2, SamePlaces(z, c, H, F, fr, d, H2, F2, fr2)
  PROVE  SemAt(d, H2, F2, fr2, f, y, z)
<1> HIDE DEF Helpers
<1>1. /\ LayoutOK(y, N) /\ LayoutOK(z, N) /\ Follows(f, y, z) /\ FrameOK(f, y.d, N, tm)
  BY DEF FrameAt
<1>2. /\ Below(y, z) /\ Len(y.hs) \in Nat /\ Len(z.hs) \in Nat
      /\ Len(z.hs) = Len(y.hs) + Len(Opened(f))
  BY FrameRises
<1>3. OnAt(d, H2, Len(y.hs)) = OnAt(c, H, Len(y.hs)) /\ Raised(d.esc, F2, y.n) = Raised(c.esc, F, y.n)
  <2>1. Len(y.hs) \in 0..Len(z.hs) /\ y.n \in 0..z.n
    BY <1>1, <1>2 DEF Below, LayoutOK
  <2> QED
    BY <2>1 DEF SamePlaces
<1>4. f.kind \in {"select", "loop", "head", "call"} => fr2[z.m] = fr[z.m]
  <2>1. f.kind \in {"select", "loop", "head", "call"} => z.m \in 1..z.m
    BY <1>1 DEF Follows, NParks, LayoutOK
  <2> QED
    BY <2>1 DEF SamePlaces
<1>5. f.kind = "loop" => /\ OnAt(d, H2, Len(y.hs) + Len(f.lsw)) = OnAt(c, H, Len(y.hs) + Len(f.lsw))
                         /\ Raised(d.esc, F2, y.n + 1) = Raised(c.esc, F, y.n + 1)
  <2> SUFFICES ASSUME f.kind = "loop"
               PROVE  /\ Len(y.hs) + Len(f.lsw) \in 0..Len(z.hs) /\ y.n + 1 \in 0..z.n
    BY DEF SamePlaces
  <2>1. f.lsw \in Seq(Helpers(N)) /\ f.sw \in Seq(Helpers(N))
    BY <1>1 DEF FrameOK
  <2>2. Len(Opened(f)) = Len(f.lsw) + Len(f.sw) /\ Len(f.lsw) \in Nat /\ Len(f.sw) \in Nat
    BY <2>1, ConcatProperties DEF Opened
  <2>3. y.n \in Nat /\ z.n = y.n + 2
    BY <1>1 DEF LayoutOK, Follows, NGuards
  <2>4. y.n + 1 \in 0..z.n
    BY <2>3
  <2> DEFINE a == Len(y.hs)
             b == Len(f.lsw)
             q == Len(f.sw)
  <2>5. a \in Nat /\ b \in Nat /\ q \in Nat /\ Len(z.hs) = a + (b + q)
    BY <1>2, <2>2
  <2> HIDE DEF a, b, q
  <2>6. a + b \in 0..(a + (b + q))
    BY <2>5
  <2> QED
    BY <2>4, <2>5, <2>6 DEF a, b
<1> QED
  BY <1>3, <1>4, <1>5 DEF SemAt

LEMMA SemBelowKept ==
  ASSUME NEW tm, NEW esc, NEW B, NEW N, NEW T, NEW Y, Under(tm, esc, B, N, T, Y),
         NEW c, NEW H, NEW F, NEW fr, SemBelow(c, H, F, fr, T, Y),
         NEW d, NEW H2, NEW F2, NEW fr2, SamePlaces(Y[Len(T) + 1], c, H, F, fr, d, H2, F2, fr2)
  PROVE  SemBelow(d, H2, F2, fr2, T, Y)
<1> HIDE DEF Helpers
<1>1. Len(T) \in Nat /\ Rising(Y, Len(T) + 1, N)
  BY UnderRises
<1>2. ASSUME NEW j \in 1..Len(T) PROVE SemAt(d, H2, F2, fr2, T[j], Y[j], Y[j + 1])
  <2>1. FrameAt(tm, esc, B, N, T[j], Y[j], Y[j + 1], j)
    BY DEF Under
  <2>2. j + 1 \in 1..(Len(T) + 1) /\ Len(T) + 1 \in 1..(Len(T) + 1) /\ j + 1 <= Len(T) + 1
    BY <1>1
  <2>3. /\ Below(Y[j + 1], Y[Len(T) + 1]) /\ LayoutOK(Y[j + 1], N) /\ LayoutOK(Y[Len(T) + 1], N)
        /\ Len(Y[j + 1].hs) \in Nat /\ Len(Y[Len(T) + 1].hs) \in Nat
    BY <1>1, <2>2 DEF Rising
  <2>4. /\ 0..Len(Y[j + 1].hs) \subseteq 0..Len(Y[Len(T) + 1].hs)
        /\ 0..Y[j + 1].n \subseteq 0..Y[Len(T) + 1].n
        /\ 1..Y[j + 1].m \subseteq 1..Y[Len(T) + 1].m
    BY <2>3, BelowRanges
  <2>5. SamePlaces(Y[j + 1], c, H, F, fr, d, H2, F2, fr2)
    BY <2>4 DEF SamePlaces
  <2>6. SemAt(c, H, F, fr, T[j], Y[j], Y[j + 1])
    BY DEF SemBelow
  <2> QED
    BY <2>1, <2>5, <2>6, SemKept
<1> QED
  BY <1>2 DEF SemBelow

LEMMA SemBelowPush ==
  ASSUME NEW c, NEW H, NEW F, NEW fr, NEW T, NEW Y, IsList(T), SemBelow(c, H, F, fr, T, Y),
         NEW f, NEW z, SemAt(c, H, F, fr, f, Y[Len(T) + 1], z)
  PROVE  SemBelow(c, H, F, fr, Append(T, f), Above(Y, Len(T), z))
<1> DEFINE n == Len(T)
           U == Append(T, f)
           X == Above(Y, n, z)
<1>1. /\ n \in Nat /\ IsList(U) /\ Len(U) = n + 1 /\ \A j \in 1..n : U[j] = T[j]
  BY ListFacts
<1>0. U[n + 1] = f
  BY ListFacts
<1>2. (\A j \in 1..(n + 1) : X[j] = Y[j]) /\ X[n + 2] = z /\ X[1] = Y[1]
  BY <1>1, AboveFacts
<1>3. \A j \in 1..n : SemAt(c, H, F, fr, T[j], Y[j], Y[j + 1])
  BY DEF SemBelow
<1>4. SemAt(c, H, F, fr, f, Y[n + 1], z)
  OBVIOUS
<1> HIDE DEF n, U, X
<1>5. ASSUME NEW j \in 1..(n + 1) PROVE SemAt(c, H, F, fr, U[j], X[j], X[j + 1])
  <2>1. CASE j \in 1..n
    <3>1. j + 1 \in 1..(n + 1)
      BY <1>1, <2>1
    <3> QED
      BY <1>1, <1>2, <1>3, <2>1, <3>1
  <2>2. CASE j = n + 1
    <3>1. j + 1 = n + 2
      BY <1>1, <2>2
    <3> QED
      BY <1>0, <1>2, <1>4, <2>2, <3>1
  <2> QED
    BY <1>1, <2>1, <2>2
<1>6. SemBelow(c, H, F, fr, U, X)
  BY <1>1, <1>5 DEF SemBelow
<1> QED
  BY <1>6 DEF U, X, n

-----------------------------------------------------------------------------
(* An assignment in the semantics.                                         *)

LEMMA TruthType ==
  ASSUME NEW s, NEW d, SemType(s, d), NEW x \in Expressions(StaticVars \cup LocalsTo(d))
  PROVE  Truth(s, x) \in SUBSET Env
<1>1. CASE \E b \in BOOLEAN : x[1] = "const" /\ x[2] = b
  BY <1>1 DEF Truth
<1>2. CASE \E w \in 0..(NWires - 1) : x[1] = "wire" /\ x[2] = w
  BY <1>2 DEF Truth, WireOn
<1>3. CASE \E v \in StaticVars \cup LocalsTo(d) : x[1] = "read" /\ x[2] = v
  BY <1>3 DEF Truth, SemType
<1> QED
  BY <1>1, <1>2, <1>3, ExpressionCases

(* s2 is s with v assigned the value X in the valuations `who'.            *)
AssignedTo(s, s2, v, X, who, blocking) ==
  /\ s2.live = s.live /\ s2.frames = s.frames
  /\ DOMAIN s2.cur = DOMAIN s.cur
  /\ \A u \in DOMAIN s.cur \ {v} : s2.cur[u] = s.cur[u]
  /\ \A u \in StaticVars \ {v} : s2.nba[u] = s.nba[u] /\ s2.queued[u] = s.queued[u]
  /\ blocking = TRUE => /\ s2.cur[v] = Blend(s.cur[v], X, who)
                        /\ v \in StaticVars => s2.nba[v] = s.nba[v] /\ s2.queued[v] = s.queued[v]
  /\ blocking = FALSE => /\ s2.cur[v] = s.cur[v] /\ s2.nba[v] = Blend(s.nba[v], X, who)
                         /\ s2.queued[v] = s.queued[v] \cup who

LEMMA AssignVarFields ==
  ASSUME NEW s, NEW d, SemType(s, d), NEW v \in StaticVars \cup LocalsTo(d),
         NEW x, Truth(s, x) \in SUBSET Env, NEW m, Truth(s, m) \in SUBSET Env,
         NEW b \in BOOLEAN, b = TRUE \/ v \in StaticVars
  PROVE  /\ SemType(AssignVar(s, v, x, m, b), d)
         /\ AssignedTo(s, AssignVar(s, v, x, m, b), v, Truth(s, x), s.live \cap Truth(s, m), b)
<1> DEFINE X == Truth(s, x)
           who == s.live \cap Truth(s, m)
           done == IF v \in DOMAIN s.written THEN [s.written EXCEPT ![v] = @ \cup who]
                                             ELSE s.written
           t == AssignVar(s, v, x, m, b)
<1>1. X \in SUBSET Env /\ who \in SUBSET Env
  BY DEF SemType
<1>2. t = IF b THEN [s EXCEPT !.cur = [s.cur EXCEPT ![v] = Blend(s.cur[v], X, who)], !.written = done]
          ELSE [s EXCEPT !.nba = [s.nba EXCEPT ![v] = Blend(s.nba[v], X, who)],
                         !.queued = [s.queued EXCEPT ![v] = s.queued[v] \cup who], !.written = done]
  BY DEF AssignVar
<1>3. done \in [StaticVars -> SUBSET Env]
  BY <1>1 DEF SemType
<1>4. v \in DOMAIN s.cur /\ s.cur \in [DOMAIN s.cur -> SUBSET Env]
  BY DEF SemType
<1> HIDE DEF X, who, done, t
<1>5. CASE b = TRUE
  <2> DEFINE cur2 == [s.cur EXCEPT ![v] = Blend(s.cur[v], X, who)]
  <2>1. /\ cur2 \in [DOMAIN s.cur -> SUBSET Env] /\ cur2[v] = Blend(s.cur[v], X, who)
        /\ DOMAIN cur2 = DOMAIN s.cur /\ \A u \in DOMAIN s.cur \ {v} : cur2[u] = s.cur[u]
    BY <1>1, <1>4 DEF Blend
  <2>2. t = [s EXCEPT !.cur = cur2, !.written = done]
    BY <1>2, <1>5
  <2> HIDE DEF cur2
  <2>3. /\ DOMAIN t = DOMAIN s /\ t.cur = cur2 /\ t.written = done /\ t.live = s.live
        /\ t.frames = s.frames /\ t.nba = s.nba /\ t.queued = s.queued
    BY <2>2 DEF SemType
  <2>4. SemType(t, d)
    BY <1>3, <2>1, <2>3 DEF SemType
  <2>5. AssignedTo(s, t, v, X, who, b)
    BY <1>5, <2>1, <2>3 DEF AssignedTo
  <2> QED
    BY <2>4, <2>5 DEF t, X, who
<1>6. CASE b = FALSE
  <2> DEFINE nba2 == [s.nba EXCEPT ![v] = Blend(s.nba[v], X, who)]
             q2 == [s.queued EXCEPT ![v] = s.queued[v] \cup who]
  <2>0. v \in StaticVars /\ s.nba \in [StaticVars -> SUBSET Env] /\ s.queued \in [StaticVars -> SUBSET Env]
    BY <1>6 DEF SemType
  <2>1. /\ nba2 \in [StaticVars -> SUBSET Env] /\ nba2[v] = Blend(s.nba[v], X, who)
        /\ \A u \in StaticVars \ {v} : nba2[u] = s.nba[u]
    BY <1>1, <2>0 DEF Blend
  <2>2. /\ q2 \in [StaticVars -> SUBSET Env] /\ q2[v] = s.queued[v] \cup who
        /\ \A u \in StaticVars \ {v} : q2[u] = s.queued[u]
    BY <1>1, <2>0
  <2>3. t = [s EXCEPT !.nba = nba2, !.queued = q2, !.written = done]
    BY <1>2, <1>6
  <2> HIDE DEF nba2, q2
  <2>4. /\ DOMAIN t = DOMAIN s /\ t.cur = s.cur /\ t.written = done /\ t.live = s.live
        /\ t.frames = s.frames /\ t.nba = nba2 /\ t.queued = q2
    BY <2>3 DEF SemType
  <2>5. SemType(t, d)
    BY <1>3, <2>1, <2>2, <2>4 DEF SemType
  <2>6. AssignedTo(s, t, v, X, who, b)
    BY <1>6, <2>1, <2>2, <2>4 DEF AssignedTo
  <2> QED
    BY <2>5, <2>6 DEF t, X, who
<1> QED
  BY <1>5, <1>6

-----------------------------------------------------------------------------
(* Steps that leave the stack of constructs alone.                         *)

LEMMA InvFacts ==
  ASSUME NEW c, NEW T, NEW f, NEW s, NEW p, NEW Y, NEW z, NEW V, NEW B, NEW F,
         Inv(c, T, f, s, p, Y, z, V, B, F)
  PROVE  /\ Good(c, z.hs, V, Pending(f), Names(c.nflag, p.nest), B, F)
         /\ Under(c.timing, c.esc, B, Names(c.nflag, p.nest), T, Y)
         /\ FrameAt(c.timing, c.esc, B, Names(c.nflag, p.nest), f, Y[Len(T) + 1], z, Len(T) + 1)
         /\ Scoped(c, z, B, F) /\ Settled(c, f) /\ c.broken = FALSE
         /\ c.diag = {} => Meaning(c, T, f, s, Y, z, F)
BY DEF Inv

SameShape(c, d) ==
  /\ d.timing = c.timing /\ d.cas.on = c.cas.on /\ d.esc = c.esc /\ d.nflag = c.nflag
  /\ d.unrolling = c.unrolling /\ d.broken = c.broken /\ c.diag \subseteq d.diag

SameFlags(esc, F, F2) == \A i \in 1..Len(esc) : F2[esc[i].flag] = F[esc[i].flag]

LEMMA RaisedSame ==
  ASSUME NEW esc, NEW F, NEW F2, SameFlags(esc, F, F2), NEW n \in 0..Len(esc), Len(esc) \in Nat
  PROVE  Raised(esc, F2, n) = Raised(esc, F, n)
<1>1. CASE n = 0
  BY <1>1 DEF Raised
<1>2. CASE n # 0
  <2>1. n \in 1..Len(esc)
    BY <1>2
  <2> QED
    BY <1>2, <2>1 DEF Raised, SameFlags
<1> QED
  BY <1>1, <1>2

LEMMA KeepStack ==
  ASSUME NEW c, NEW T, NEW f, NEW s, NEW p, NEW Y, NEW z, NEW V, NEW B, NEW F,
         Inv(c, T, f, s, p, Y, z, V, B, F),
         NEW d, NEW F2, NEW s2, SameShape(c, d),
         Good(d, z.hs, V, Pending(f), Names(d.nflag, p.nest), B, F2),
         DOMAIN F2 = DOMAIN F,
         d.diag = {} => /\ SameFlags(c.esc, F, F2)
                        /\ SemType(s2, z.d) /\ Mirrors(s2, d, F2, z.d) /\ d.exhausted = FALSE
                        /\ s2.frames = s.frames /\ s2.live = s.live
  PROVE  Inv(d, T, f, s2, p, Y, z, V, B, F2)
<1> DEFINE N == Names(c.nflag, p.nest)
<1>1. /\ Under(c.timing, c.esc, B, N, T, Y)
      /\ FrameAt(c.timing, c.esc, B, N, f, Y[Len(T) + 1], z, Len(T) + 1)
      /\ Scoped(c, z, B, F) /\ Settled(c, f) /\ c.broken = FALSE
      /\ c.diag = {} => Meaning(c, T, f, s, Y, z, F)
  BY InvFacts
<1>2. d.esc = c.esc /\ d.timing = c.timing /\ Names(d.nflag, p.nest) = N /\ d.cas.on = c.cas.on
  BY DEF SameShape
<1> HIDE DEF N
<1>3. Scoped(d, z, B, F2) /\ Settled(d, f) /\ d.broken = FALSE
  BY <1>1, <1>2 DEF Scoped, Settled, SameShape
<1>4. ASSUME d.diag = {} PROVE Meaning(d, T, f, s2, Y, z, F2)
  <2>1. c.diag = {}
    BY <1>4 DEF SameShape
  <2>2. Meaning(c, T, f, s, Y, z, F)
    BY <1>1, <2>1
  <2>3. /\ LayoutOK(Y[Len(T) + 1], N) /\ LayoutOK(z, N) /\ Below(Y[Len(T) + 1], z)
        /\ z.n = Len(c.esc)
    BY <1>1, FrameRises DEF Scoped
  <2>4. Len(c.esc) \in Nat
    BY <2>3 DEF LayoutOK
  <2>5. \A n \in 0..z.n : Raised(d.esc, F2, n) = Raised(c.esc, F, n)
    BY <1>2, <1>4, <2>3, <2>4, RaisedSame
  <2>6. \A k : OnAt(d, z.hs, k) = OnAt(c, z.hs, k)
    BY <1>2 DEF OnAt
  <2>7. SamePlaces(z, c, z.hs, F, s.frames, d, z.hs, F2, s2.frames)
    BY <1>4, <2>5, <2>6 DEF SamePlaces
  <2>8. SamePlaces(Y[Len(T) + 1], c, z.hs, F, s.frames, d, z.hs, F2, s2.frames)
    <3>1. 0..Y[Len(T) + 1].n \subseteq 0..z.n
      BY <2>3, BelowRanges
    <3> QED
      BY <1>4, <2>5, <2>6, <3>1 DEF SamePlaces
  <2>9. SemAt(d, z.hs, F2, s2.frames, f, Y[Len(T) + 1], z)
    BY <1>1, <2>2, <2>7, SemKept DEF Meaning
  <2>10. SemBelow(d, z.hs, F2, s2.frames, T, Y)
    <3>1. SemBelow(c, z.hs, F, s.frames, T, Y)
      BY <2>2 DEF Meaning, SemBelow
    <3> QED
      BY <1>1, <2>8, <3>1, SemBelowKept
  <2>11. Placed(d, f, F2, z)
    <3>1. z.n \in 0..z.n
      BY <2>3, <2>4
    <3>2. Placed(c, f, F, z)
      BY <2>2 DEF Meaning
    <3> QED
      BY <1>2, <2>5, <3>1, <3>2 DEF Placed
  <2>12. z.m = Len(s2.frames) /\ z.w = s2.live
    BY <1>4, <2>2 DEF Meaning
  <2> QED
    BY <1>4, <2>9, <2>10, <2>11, <2>12 DEF Meaning, SemBelow
<1> QED
  BY <1>1, <1>2, <1>3, <1>4 DEF Inv, N

(* What an assignment notes of the variable, if nothing is wrong. *)
NotedAs(c, d, v, m, b) ==
  /\ m = S0 \/ ~IsStatic(v) => d.blocking = c.blocking /\ d.nonblocking = c.nonblocking
  /\ m # S0 /\ IsStatic(v) /\ b = TRUE =>
      v \notin c.nonblocking /\ d.blocking = c.blocking \cup {v} /\ d.nonblocking = c.nonblocking
  /\ m # S0 /\ IsStatic(v) /\ b = FALSE =>
      /\ c.timing # "Initial" /\ v \notin c.blocking
      /\ d.blocking = c.blocking /\ d.nonblocking = c.nonblocking \cup {v}

LEMMA NotedSets ==
  ASSUME NEW N, NEW c \in Contexts(N), NEW d, NEW v, NEW r, NEW m, NEW b \in BOOLEAN,
         Noted(c, d, v, r, m, b), d.diag = {}, b = TRUE \/ IsStatic(v)
  PROVE  NotedAs(c, d, v, m, b)
<1> USE DEF NotedAs
<1>1. CASE m = S0
  BY <1>1 DEF Noted
<1>2. CASE m # S0
  <2> DEFINE n == NoteAssignment(c, v, b)
  <2>1. n.diag = {} /\ d.blocking = n.blocking /\ d.nonblocking = n.nonblocking
    BY <1>2 DEF Noted
  <2>2. CASE ~IsStatic(v)
    <3>1. n = c
      BY <2>2 DEF NoteAssignment
    <3> QED
      BY <1>2, <2>1, <2>2, <3>1
  <2>3. CASE IsStatic(v) /\ b = TRUE
    <3>1. n = IF v \in c.nonblocking THEN [c EXCEPT !.diag = @ \cup {"BlockingAfterNonblocking"}]
              ELSE [c EXCEPT !.blocking = @ \cup {v}]
      BY <2>3 DEF NoteAssignment
    <3>2. v \notin c.nonblocking
      BY <2>1, <3>1 DEF Contexts
    <3>3. n.blocking = c.blocking \cup {v} /\ n.nonblocking = c.nonblocking
      BY <3>1, <3>2 DEF Contexts
    <3> QED
      BY <1>2, <2>1, <2>3, <3>2, <3>3
  <2>4. CASE IsStatic(v) /\ b = FALSE
    <3>1. CASE c.timing = "Initial"
      <4>1. n = [c EXCEPT !.diag = @ \cup {"NonblockingInInitial"}]
        BY <2>4, <3>1 DEF NoteAssignment
      <4> QED
        BY <2>1, <4>1 DEF Contexts
    <3>2. CASE c.timing # "Initial"
      <4>1. n = IF v \in c.blocking THEN [c EXCEPT !.diag = @ \cup {"NonblockingAfterBlocking"}]
                ELSE [c EXCEPT !.nonblocking = @ \cup {v}]
        BY <2>4, <3>2 DEF NoteAssignment
      <4>2. v \notin c.blocking
        BY <2>1, <4>1 DEF Contexts
      <4>3. n.blocking = c.blocking /\ n.nonblocking = c.nonblocking \cup {v}
        BY <4>1, <4>2 DEF Contexts
      <4> QED
        BY <1>2, <2>1, <2>4, <3>2, <4>2, <4>3
    <3> QED
      BY <3>1, <3>2
  <2> QED
    BY <2>2, <2>3, <2>4
<1> QED
  BY <1>1, <1>2

LEMMA AssignMirrors ==
  ASSUME NEW N, NEW c \in Contexts(N), NEW d, NEW v, NEW r \in Signals, NEW m \in Signals,
         NEW b \in BOOLEAN, Noted(c, d, v, r, m, b), d.diag = {}, b = TRUE \/ v \in StaticVars,
         NEW s, NEW n, SemType(s, n), v \in StaticVars \cup LocalsTo(n),
         NEW F, F \in [DOMAIN F -> SUBSET Env], StaticVars \cup LocalsTo(n) \subseteq DOMAIN F,
         Mirrors(s, c, F, n), c.cas.on = s.live,
         NEW X \in SUBSET Env, NEW M \in SUBSET Env,
         r.on \cap s.live = X \cap s.live, m.on \cap s.live = M \cap s.live,
         NEW s2, SemType(s2, n), AssignedTo(s, s2, v, X, s.live \cap M, b)
  PROVE  Mirrors(s2, d, Assigned(c, F, v, r, m), n)
<1> DEFINE who == s.live \cap M
           J == Assigned(c, F, v, r, m)
<1>1. /\ d.timing = c.timing /\ c.diag = {}
      /\ m = S0 => who = {}
  <2>1. m = S0 => m.on = {}
    BY ConstSignals
  <2> QED
    BY <2>1 DEF Noted, SameControl
<1>2. /\ \A u \in DOMAIN F \ {v} : J[u] = F[u]
      /\ J[v] = Blend(F[v], X, who)
  <2>1. CASE c.timing = "Initial" /\ r.const = FALSE
    <3>1. J = F
      BY <2>1 DEF Assigned
    <3>2. who = {}
      BY <1>1, <2>1 DEF Noted
    <3> QED
      BY <3>1, <3>2 DEF Blend
  <2>2. CASE ~(c.timing = "Initial" /\ r.const = FALSE)
    <3>1. J = [F EXCEPT ![v] = Blend(F[v], r.on, s.live \cap m.on)]
      BY <2>2 DEF Assigned
    <3>2. s.live \cap m.on = who
      OBVIOUS
    <3>3. Blend(F[v], r.on, who) = Blend(F[v], X, who)
      BY DEF Blend
    <3> HIDE DEF who, J
    <3> QED
      BY <3>1, <3>2, <3>3
  <2> QED
    BY <2>1, <2>2
<1>3. AssignedTo(s, s2, v, X, who, b)
  OBVIOUS
<1> HIDE DEF who, J
<1>4. \A u \in StaticVars : /\ Final(s, u) = Blend(s.cur[u], s.nba[u], s.queued[u])
                            /\ Final(s2, u) = Blend(s2.cur[u], s2.nba[u], s2.queued[u])
  BY FinalIs
<1>5. v \in StaticVars <=> IsStatic(v)
  BY NameFacts DEF LocalsTo
<1>6. /\ m = S0 \/ ~IsStatic(v) => d.blocking = c.blocking /\ d.nonblocking = c.nonblocking
      /\ m # S0 /\ IsStatic(v) /\ b = TRUE =>
           v \notin c.nonblocking /\ d.blocking = c.blocking \cup {v} /\ d.nonblocking = c.nonblocking
      /\ m # S0 /\ IsStatic(v) /\ b = FALSE =>
           /\ c.timing # "Initial" /\ v \notin c.blocking
           /\ d.blocking = c.blocking /\ d.nonblocking = c.nonblocking \cup {v}
  <2>1. b = TRUE \/ IsStatic(v)
    BY <1>5
  <2>3. Noted(c, d, v, r, m, b) /\ d.diag = {} /\ c \in Contexts(N) /\ b \in BOOLEAN
    OBVIOUS
  <2>2. NotedAs(c, d, v, m, b)
    BY ONLY <2>1, <2>3, NotedSets
  <2> QED
    BY <2>2 DEF NotedAs
<1>7. StaticVars \subseteq DOMAIN s.cur /\ LocalsTo(n) \subseteq DOMAIN s.cur
  BY DEF SemType
<1>8. ASSUME NEW u \in StaticVars PROVE J[u] = Final(s2, u)
  <2>1. F[u] = Final(s, u)
    BY DEF Mirrors
  <2>2. CASE u # v
    <3>1. s2.cur[u] = s.cur[u] /\ s2.nba[u] = s.nba[u] /\ s2.queued[u] = s.queued[u]
      BY <1>3, <1>7, <2>2 DEF AssignedTo
    <3> QED
      BY <1>2, <1>4, <2>1, <2>2, <3>1
  <2>3. CASE u = v /\ b = TRUE
    <3>1. /\ s2.cur[v] = Blend(s.cur[v], X, who) /\ s2.nba[v] = s.nba[v] /\ s2.queued[v] = s.queued[v]
      BY <1>3, <2>3 DEF AssignedTo
    <3>2. CASE m = S0
      <4>1. s2.cur[v] = s.cur[v] /\ J[v] = F[v]
        BY <1>1, <1>2, <3>1, <3>2 DEF Blend
      <4> QED
        BY <1>4, <2>1, <2>3, <3>1, <4>1
    <3>3. CASE m # S0
      <4>1. s.queued[v] = {}
        BY <1>5, <1>6, <2>3, <3>3 DEF Mirrors
      <4>2. Final(s, v) = s.cur[v] /\ Final(s2, v) = s2.cur[v]
        BY <1>4, <2>3, <3>1, <4>1, ZenonT(60) DEF Blend
      <4> QED
        BY <1>2, <2>1, <2>3, <3>1, <4>2
    <3> QED
      BY <3>2, <3>3
  <2>4. CASE u = v /\ b = FALSE
    <3>1. /\ s2.cur[v] = s.cur[v] /\ s2.nba[v] = Blend(s.nba[v], X, who)
          /\ s2.queued[v] = s.queued[v] \cup who
      BY <1>3, <2>4 DEF AssignedTo
    <3>2. J[v] = Blend(Blend(s.cur[v], s.nba[v], s.queued[v]), X, who)
      BY <1>2, <1>4, <2>1, <2>4
    <3>3. Final(s2, v) = Blend(s.cur[v], Blend(s.nba[v], X, who), s.queued[v] \cup who)
      BY <1>4, <2>4, <3>1
    <3> QED
      BY <2>4, <3>2, <3>3 DEF Blend
  <2> QED
    BY <2>2, <2>3, <2>4
<1>9. ASSUME NEW i \in 1..n PROVE J[Local(i)] = s2.cur[Local(i)]
  <2>1. F[Local(i)] = s.cur[Local(i)] /\ Local(i) \in LocalsTo(n) /\ Local(i) \notin StaticVars
    BY NameFacts DEF Mirrors, LocalsTo
  <2>2. CASE Local(i) # v
    BY <1>2, <1>3, <1>7, <2>1, <2>2 DEF AssignedTo
  <2>3. CASE Local(i) = v
    BY <1>2, <1>3, <2>1, <2>3 DEF AssignedTo
  <2> QED
    BY <2>2, <2>3
<1>10. d.blocking \cap d.nonblocking = {} /\ (d.timing = "Initial" => d.nonblocking = {})
  BY <1>1, <1>6 DEF Mirrors
<1>11. ASSUME NEW u \in StaticVars
       PROVE  /\ u \notin d.blocking /\ d.timing # "Initial" => s2.cur[u] = WireOn[u[2]]
              /\ u \notin d.nonblocking => s2.queued[u] = {}
  <2>1. /\ u \notin c.blocking /\ c.timing # "Initial" => s.cur[u] = WireOn[u[2]]
        /\ u \notin c.nonblocking => s.queued[u] = {}
    BY DEF Mirrors
  <2>2. CASE u # v
    <3>1. s2.cur[u] = s.cur[u] /\ s2.queued[u] = s.queued[u]
      BY <1>3, <1>7, <2>2 DEF AssignedTo
    <3>2. (u \in d.blocking <=> u \in c.blocking) /\ (u \in d.nonblocking <=> u \in c.nonblocking)
      BY <1>6, <2>2
    <3> QED
      BY <1>1, <2>1, <3>1, <3>2
  <2>3. CASE u = v /\ m = S0
    <3>1. s2.cur[v] = s.cur[v] /\ s2.queued[v] = s.queued[v]
      BY <1>1, <1>3, <2>3 DEF AssignedTo, Blend
    <3> QED
      BY <1>1, <1>6, <2>1, <2>3, <3>1
  <2>4. CASE u = v /\ m # S0 /\ b = TRUE
    <3>1. s2.queued[v] = s.queued[v]
      BY <1>3, <2>4 DEF AssignedTo
    <3> QED
      BY <1>5, <1>6, <2>1, <2>4, <3>1
  <2>5. CASE u = v /\ m # S0 /\ b = FALSE
    <3>1. s2.cur[v] = s.cur[v]
      BY <1>3, <2>5 DEF AssignedTo
    <3> QED
      BY <1>1, <1>5, <1>6, <2>1, <2>5, <3>1
  <2> QED
    BY <2>2, <2>3, <2>4, <2>5
<1>12. Mirrors(s2, d, J, n)
  BY <1>8, <1>9, <1>10, <1>11 DEF Mirrors
<1> QED
  BY <1>12 DEF J

LEMMA ScopeFacts ==
  ASSUME NEW c, NEW z, NEW B, NEW F, Scoped(c, z, B, F)
  PROVE  /\ DOMAIN F = Scope(c.esc, z.d) /\ StaticVars \cup LocalsTo(z.d) \subseteq DOMAIN F
         /\ \A i \in 1..Len(c.esc) :
              /\ c.esc[i].flag \in DOMAIN F /\ ~IsStatic(c.esc[i].flag)
              /\ c.esc[i].flag \notin StaticVars /\ c.esc[i].flag \notin LocalsTo(z.d)
              /\ \E k \in 0..(c.nflag - 1) : c.esc[i].flag = Flag(k)
<1>1. ASSUME NEW i \in 1..Len(c.esc)
      PROVE  \E k \in 0..(c.nflag - 1) : c.esc[i].flag = Flag(k)
  BY DEF Scoped, Numbered
<1>2. ASSUME NEW i \in 1..Len(c.esc)
      PROVE  /\ ~IsStatic(c.esc[i].flag)
             /\ c.esc[i].flag \notin StaticVars /\ c.esc[i].flag \notin LocalsTo(z.d)
  BY <1>1, NameFacts DEF LocalsTo
<1> QED
  BY <1>1, <1>2 DEF Scoped, Scope

(* A computed signal has the value of an expression where it matters. *)
Means(c, s, r, x) ==
  c.diag = {} => Truth(s, x) \in SUBSET Env /\ r.on \cap s.live = Truth(s, x) \cap s.live

(* Variable v takes signal r under mask m, as the semantics does x under w; *)
(* n is the number of calls.                                               *)
Assigns(c, s, n, v, r, m, b, x, w) ==
  /\ v \in StaticVars \cup LocalsTo(n)
  /\ b \in BOOLEAN /\ (b = TRUE \/ v \in StaticVars)
  /\ r \in Signals /\ m \in Signals /\ (c.timing = "Initial" => m \in {S0, S1})
  /\ Means(c, s, r, x) /\ Means(c, s, m, w)

LEMMA AssignKeeps ==
  ASSUME NEW c, NEW T, NEW f, NEW s, NEW p, NEW Y, NEW z, NEW V, NEW B, NEW F,
         Inv(c, T, f, s, p, Y, z, V, B, F), ~Closing(f), Exact(c, s),
         NEW v, NEW r, NEW m, NEW b, NEW x, NEW w, Assigns(c, s, z.d, v, r, m, b, x, w)
  PROVE  /\ Inv(Update(c, v, r, m, b), T, f, AssignVar(s, v, x, w, b), p, Y, z, V, B,
                Assigned(c, F, v, r, m))
         /\ Exact(Update(c, v, r, m, b), AssignVar(s, v, x, w, b))
         /\ Noted(c, Update(c, v, r, m, b), v, r, m, b)
<1>0. /\ v \in StaticVars \cup LocalsTo(z.d)
      /\ b \in BOOLEAN /\ (b = TRUE \/ v \in StaticVars)
      /\ r \in Signals /\ m \in Signals /\ (c.timing = "Initial" => m \in {S0, S1})
      /\ Means(c, s, r, x) /\ Means(c, s, m, w)
  BY DEF Assigns
<1> USE <1>0
<1> DEFINE N == Names(c.nflag, p.nest)
           d == Update(c, v, r, m, b)
           F2 == Assigned(c, F, v, r, m)
           s2 == AssignVar(s, v, x, w, b)
<1>1. /\ Good(c, z.hs, V, <<>>, N, B, F) /\ Scoped(c, z, B, F) /\ Pending(f) = <<>>
      /\ c.diag = {} => Meaning(c, T, f, s, Y, z, F)
  BY InvFacts DEF Pending
<1>2. v \in DOMAIN F /\ StaticVars \cup LocalsTo(z.d) \subseteq DOMAIN F
  BY <1>1, ScopeFacts
<1>3. c \in Contexts(N) /\ F \in [DOMAIN F -> SUBSET Env]
  BY <1>1, GoodFacts
<1> HIDE DEF N
<1>4. Good(d, z.hs, V, <<>>, N, B, F2) /\ Noted(c, d, v, r, m, b)
  BY <1>1, <1>2, UpdateGood
<1> HIDE DEF d
<1>5. SameShape(c, d) /\ d.nflag = c.nflag /\ d.exhausted = c.exhausted
  BY <1>4 DEF Noted, SameControl, SameShape
<1>6. DOMAIN F2 = DOMAIN F /\ SameFlags(c.esc, F, F2)
  <2>1. DOMAIN F2 = DOMAIN F /\ \A u \in DOMAIN F \ {v} : F2[u] = F[u]
    BY <1>2, <1>3 DEF Assigned
  <2> HIDE DEF F2
  <2> QED
    BY <1>1, <2>1, ScopeFacts DEF SameFlags
<1>7. ASSUME c.diag = {}
      PROVE  /\ SemType(s2, z.d) /\ s2.frames = s.frames /\ s2.live = s.live
             /\ AssignedTo(s, s2, v, Truth(s, x), s.live \cap Truth(s, w), b)
             /\ SemType(s, z.d) /\ Mirrors(s, c, F, z.d) /\ c.exhausted = FALSE
  <2>1. SemType(s, z.d) /\ Mirrors(s, c, F, z.d) /\ c.exhausted = FALSE
    BY <1>1, <1>7 DEF Meaning
  <2>2. SemType(s2, z.d) /\ AssignedTo(s, s2, v, Truth(s, x), s.live \cap Truth(s, w), b)
    <3>1. Truth(s, x) \in SUBSET Env /\ Truth(s, w) \in SUBSET Env
      BY <1>7 DEF Means
    <3> QED
      BY <2>1, <3>1, AssignVarFields
  <2> HIDE DEF s2
  <2> QED
    BY <2>1, <2>2 DEF AssignedTo
<1> HIDE DEF s2
<1>8. ASSUME d.diag = {} PROVE c.diag = {} /\ Mirrors(s2, d, F2, z.d)
  <2>1. c.diag = {}
    BY <1>5, <1>8 DEF SameShape
  <2>2. /\ r.on \cap s.live = Truth(s, x) \cap s.live /\ m.on \cap s.live = Truth(s, w) \cap s.live
        /\ c.cas.on = s.live
    BY <2>1 DEF Means, Exact
  <2>3. Truth(s, x) \in SUBSET Env /\ Truth(s, w) \in SUBSET Env
    BY <2>1 DEF Means
  <2>4. /\ SemType(s2, z.d) /\ SemType(s, z.d) /\ Mirrors(s, c, F, z.d)
        /\ AssignedTo(s, s2, v, Truth(s, x), s.live \cap Truth(s, w), b)
    BY <1>7, <2>1
  <2>5. c \in Contexts(N) /\ r \in Signals /\ m \in Signals /\ b \in BOOLEAN
        /\ v \in StaticVars \cup LocalsTo(z.d) /\ (b = TRUE \/ v \in StaticVars)
    BY <1>3
  <2>6. Mirrors(s2, d, F2, z.d)
    BY ONLY <1>2, <1>3, <1>4, <1>8, <2>2, <2>3, <2>4, <2>5, AssignMirrors
  <2> QED
    BY <2>1, <2>6
<1>9. Good(d, z.hs, V, Pending(f), Names(d.nflag, p.nest), B, F2)
  BY <1>1, <1>4, <1>5 DEF N
<1>10. d.diag = {} => /\ SemType(s2, z.d) /\ Mirrors(s2, d, F2, z.d) /\ d.exhausted = FALSE
                      /\ s2.frames = s.frames /\ s2.live = s.live
  BY <1>5, <1>7, <1>8
<1> HIDE DEF F2
<1>11. Inv(d, T, f, s2, p, Y, z, V, B, F2)
  BY <1>5, <1>6, <1>9, <1>10, KeepStack
<1>12. Exact(d, s2)
  BY <1>5, <1>7, <1>8 DEF Exact, SameShape
<1> QED
  BY <1>4, <1>11, <1>12 DEF d, F2, s2

-----------------------------------------------------------------------------
(* How the invariant is put together again when the innermost frame has    *)
(* changed, when it is under a new one, and when it is gone.               *)

TopMeaning(c, g, s, y, z, F) ==
  /\ SemType(s, z.d) /\ Mirrors(s, c, F, z.d) /\ z.m = Len(s.frames) /\ z.w = s.live
  /\ SemAt(c, z.hs, F, s.frames, g, y, z) /\ Placed(c, g, F, z) /\ c.exhausted = FALSE

(* The part of the invariant that is about the innermost frame only. *)
TopOK(c, g, s, p, y, z, V, B, F, j) ==
  LET N == Names(c.nflag, p.nest)
  IN  /\ Good(c, z.hs, V, Pending(g), N, B, F)
      /\ FrameAt(c.timing, c.esc, B, N, g, y, z, j)
      /\ Scoped(c, z, B, F) /\ Settled(c, g) /\ c.broken = FALSE
      /\ c.diag = {} => TopMeaning(c, g, s, y, z, F)

LEMMA InvSplit ==
  ASSUME NEW c, NEW T, NEW f, NEW s, NEW p, NEW Y, NEW z, NEW V, NEW B, NEW F
  PROVE  Inv(c, T, f, s, p, Y, z, V, B, F) <=>
           /\ Under(c.timing, c.esc, B, Names(c.nflag, p.nest), T, Y)
           /\ TopOK(c, f, s, p, Y[Len(T) + 1], z, V, B, F, Len(T) + 1)
           /\ c.diag = {} => SemBelow(c, z.hs, F, s.frames, T, Y)
<1> HIDE DEF Good, Under, FrameAt, Scoped, Settled, SemType, Mirrors, SemAt, Placed, Names, Pending
<1> QED
  BY DEF Inv, TopOK, TopMeaning, Meaning, SemBelow

LEMMA NamesGrow ==
  ASSUME NEW a \in Nat, NEW b \in Nat, a <= b, NEW q
  PROVE  Names(a, q) \subseteq Names(b, q)
<1>1. 0..(a - 1) \subseteq 0..(b - 1)
  OBVIOUS
<1> QED
  BY <1>1 DEF Names

(* What lies below layout y has not changed. *)
Kept2(y, c, z, s, B, F, d, z2, s2, B2, F2) ==
  /\ d.timing = c.timing /\ c.nflag \in Nat /\ d.nflag \in Nat /\ c.nflag <= d.nflag
  /\ SameScope(y, c.esc, B, d.esc, B2)
  /\ d.diag = {} => /\ c.diag = {}
                    /\ SamePlaces(y, c, z.hs, F, s.frames, d, z2.hs, F2, s2.frames)

LEMMA Retop ==
  ASSUME NEW c, NEW T, NEW f, NEW s, NEW p, NEW Y, NEW z, NEW V, NEW B, NEW F,
         Inv(c, T, f, s, p, Y, z, V, B, F),
         NEW d, NEW g, NEW s2, NEW z2, NEW V2, NEW B2, NEW F2,
         Kept2(Y[Len(T) + 1], c, z, s, B, F, d, z2, s2, B2, F2),
         TopOK(d, g, s2, p, Y[Len(T) + 1], z2, V2, B2, F2, Len(T) + 1)
  PROVE  Inv(d, T, g, s2, p, Y, z2, V2, B2, F2)
<1> DEFINE N == Names(c.nflag, p.nest)
           M == Names(d.nflag, p.nest)
<1>1. /\ Under(c.timing, c.esc, B, N, T, Y) /\ N \subseteq M
      /\ c.diag = {} => SemBelow(c, z.hs, F, s.frames, T, Y)
  BY InvSplit, NamesGrow DEF Kept2
<1> HIDE DEF N, M
<1>2. Under(d.timing, d.esc, B2, M, T, Y)
  BY <1>1, UnderKept DEF Kept2
<1>3. d.diag = {} => SemBelow(d, z2.hs, F2, s2.frames, T, Y)
  BY <1>1, SemBelowKept DEF Kept2
<1> QED
  BY <1>2, <1>3, InvSplit DEF M

LEMMA Push ==
  ASSUME NEW c, NEW T, NEW f, NEW s, NEW p, NEW Y, NEW z, NEW V, NEW B, NEW F,
         Inv(c, T, f, s, p, Y, z, V, B, F), Inner(f),
         NEW d, NEW g, NEW s2, NEW z2, NEW V2, NEW B2, NEW F2,
         Kept2(z, c, z, s, B, F, d, z2, s2, B2, F2),
         TopOK(d, g, s2, p, z, z2, V2, B2, F2, Len(T) + 2)
  PROVE  Inv(d, Append(T, f), g, s2, p, Above(Y, Len(T), z), z2, V2, B2, F2)
<1> DEFINE N == Names(c.nflag, p.nest)
           M == Names(d.nflag, p.nest)
           U == Append(T, f)
           X == Above(Y, Len(T), z)
<1>1. /\ Under(c.timing, c.esc, B, N, T, Y) /\ N \subseteq M
      /\ FrameAt(c.timing, c.esc, B, N, f, Y[Len(T) + 1], z, Len(T) + 1)
      /\ c.diag = {} => SemBelow(c, z.hs, F, s.frames, T, Y)
      /\ c.diag = {} => SemAt(c, z.hs, F, s.frames, f, Y[Len(T) + 1], z)
  BY InvSplit, NamesGrow DEF Kept2, TopOK, TopMeaning
<1>2. IsList(T) /\ Len(T) \in Nat /\ Len(U) = Len(T) + 1
  BY <1>1, ListFacts DEF Under
<1>3. X[Len(U) + 1] = z
  <2>1. Len(U) + 1 = Len(T) + 2
    BY <1>2
  <2>2. X[Len(T) + 2] = z
    <3> DEFINE n == Len(T)
    <3>1. n \in Nat
      BY <1>2
    <3> HIDE DEF n, U
    <3>2. Above(Y, n, z)[n + 2] = z
      BY ONLY <3>1 DEF Above
    <3> QED
      BY <3>2 DEF n
  <2> QED
    BY <2>1, <2>2
<1> HIDE DEF N, M, U, X
<1>4. Under(c.timing, c.esc, B, N, U, X)
  BY <1>1, UnderPush DEF U, X
<1>5. c.diag = {} => SemBelow(c, z.hs, F, s.frames, U, X)
  BY <1>1, <1>2, SemBelowPush DEF U, X
<1>6. Under(d.timing, d.esc, B2, M, U, X)
  BY <1>1, <1>3, <1>4, UnderKept DEF Kept2
<1>7. d.diag = {} => SemBelow(d, z2.hs, F2, s2.frames, U, X)
  BY <1>3, <1>4, <1>5, SemBelowKept DEF Kept2
<1>8. Len(U) + 1 = Len(T) + 2
  BY <1>2
<1>9. Inv(d, U, g, s2, p, X, z2, V2, B2, F2)
  BY <1>3, <1>6, <1>7, <1>8, InvSplit DEF M
<1> QED
  BY <1>9 DEF U, X

(* The rest of the innermost frame that comes to light again. *)
Bared(c, T, s, p, Y, V, B, F) ==
  LET g == Last(T)
      y == Y[Len(T) + 1]
  IN  /\ Good(c, y.hs, V, <<>>, Names(c.nflag, p.nest), B, F) /\ Scoped(c, y, B, F)
      /\ c.broken = FALSE
      /\ c.diag = {} => /\ SemType(s, y.d) /\ Mirrors(s, c, F, y.d) /\ y.m = Len(s.frames)
                        /\ y.w = s.live /\ c.exhausted = FALSE
                        /\ c.cas.on \ Raised(c.esc, F, y.n) = y.w

LEMMA Pop ==
  ASSUME NEW c, NEW T, NEW f, NEW s, NEW p, NEW Y, NEW z, NEW V, NEW B, NEW F,
         Inv(c, T, f, s, p, Y, z, V, B, F), Len(T) >= 1,
         NEW d, NEW s2, NEW V2, NEW B2, NEW F2,
         Kept2(Y[Len(T) + 1], c, z, s, B, F, d, Y[Len(T) + 1], s2, B2, F2),
         Bared(d, T, s2, p, Y, V2, B2, F2)
  PROVE  Inv(d, Front(T), Last(T), s2, p, Y, Y[Len(T) + 1], V2, B2, F2)
<1> DEFINE N == Names(c.nflag, p.nest)
           M == Names(d.nflag, p.nest)
           U == Front(T)
           g == Last(T)
           y == Y[Len(T) + 1]
<1>1. /\ Under(c.timing, c.esc, B, N, T, Y) /\ N \subseteq M
      /\ c.diag = {} => SemBelow(c, z.hs, F, s.frames, T, Y)
  BY InvSplit, NamesGrow DEF Kept2
<1>2. Len(T) \in Nat /\ Len(T) \in 1..Len(T)
  BY <1>1, ListFacts DEF Under
<1> HIDE DEF N, M
<1>3. Under(d.timing, d.esc, B2, M, T, Y)
  BY <1>1, UnderKept DEF Kept2
<1>4. d.diag = {} => SemBelow(d, y.hs, F2, s2.frames, T, Y)
  BY <1>1, SemBelowKept DEF Kept2
<1>5. /\ Under(d.timing, d.esc, B2, M, U, Y) /\ Len(U) + 1 = Len(T) /\ Inner(g) /\ g = T[Len(T)]
      /\ FrameAt(d.timing, d.esc, B2, M, g, Y[Len(T)], y, Len(T)) /\ T = Append(U, g)
  BY <1>2, <1>3, UnderPop
<1>6. IsList(U)
  BY <1>5 DEF Under
<1> HIDE DEF U, g, y
<1>7. Len(U) \in Nat /\ \A j \in 1..Len(U) : T[j] = U[j]
  BY <1>5, <1>6, ListFacts
<1>8. ASSUME d.diag = {}
      PROVE  SemBelow(d, y.hs, F2, s2.frames, U, Y) /\ SemAt(d, y.hs, F2, s2.frames, g, Y[Len(T)], y)
  <2>1. \A j \in 1..Len(T) : SemAt(d, y.hs, F2, s2.frames, T[j], Y[j], Y[j + 1])
    BY <1>4, <1>8 DEF SemBelow
  <2>2. SemAt(d, y.hs, F2, s2.frames, g, Y[Len(T)], y)
    BY <1>2, <1>5, <2>1 DEF y
  <2>3. \A j \in 1..Len(U) : j \in 1..Len(T) /\ T[j] = U[j]
    BY <1>2, <1>5, <1>7
  <2> QED
    BY <2>1, <2>2, <2>3 DEF SemBelow
<1>9. ~Closing(g)
  BY <1>5 DEF Inner, Closing
<1>10. /\ Good(d, y.hs, V2, <<>>, M, B2, F2) /\ Scoped(d, y, B2, F2)
       /\ d.broken = FALSE
       /\ d.diag = {} => /\ SemType(s2, y.d) /\ Mirrors(s2, d, F2, y.d) /\ y.m = Len(s2.frames)
                         /\ y.w = s2.live /\ d.exhausted = FALSE
                         /\ d.cas.on \ Raised(d.esc, F2, y.n) = y.w
  BY DEF Bared, M, y, g
<1>11. d.diag = {} => TopMeaning(d, g, s2, Y[Len(T)], y, F2)
  BY <1>8, <1>9, <1>10 DEF TopMeaning, Placed
<1>12. TopOK(d, g, s2, p, Y[Len(T)], y, V2, B2, F2, Len(T))
  BY <1>5, <1>9, <1>10, <1>11 DEF TopOK, M, Pending, Settled
<1>13. Inv(d, U, g, s2, p, Y, y, V2, B2, F2)
  BY <1>5, <1>8, <1>12, InvSplit DEF M
<1> QED
  BY <1>13 DEF U, g, y

-----------------------------------------------------------------------------
(* The levels below a helper that is pushed or popped.                     *)

(* J has the levels of H, and maybe more. *)
SameBelow(c, H, d, J) == \A k \in 0..Len(H) : OnAt(d, J, k) = OnAt(c, H, k)

LEMMA OnAppend ==
  ASSUME NEW S, NEW H \in Seq(S), NEW x \in S, NEW c, NEW d, x.parent.on = c.cas.on
  PROVE  SameBelow(c, H, d, Append(H, x))
<1>1. /\ Len(H) \in Nat /\ Len(Append(H, x)) = Len(H) + 1 /\ Append(H, x)[Len(H) + 1] = x
      /\ \A k \in 1..Len(H) : Append(H, x)[k] = H[k]
  OBVIOUS
<1>2. ASSUME NEW k \in 0..Len(H) PROVE OnAt(d, Append(H, x), k) = OnAt(c, H, k)
  <2>1. CASE k = Len(H)
    BY <1>1, <2>1 DEF OnAt
  <2>2. CASE k < Len(H)
    BY <1>1, <2>2 DEF OnAt
  <2> QED
    BY <1>1, <2>1, <2>2
<1> QED
  BY <1>2 DEF SameBelow

LEMMA OnPrefix ==
  ASSUME NEW S, NEW H \in Seq(S), NEW A \in Seq(S), NEW c, NEW d,
         d.cas.on = OnAt(c, H \o A, Len(H))
  PROVE  SameBelow(d, H, c, H \o A)
<1>1. /\ Len(H) \in Nat /\ Len(A) \in Nat /\ Len(H \o A) = Len(H) + Len(A)
      /\ \A k \in 1..Len(H) : (H \o A)[k] = H[k]
  OBVIOUS
<1>2. ASSUME NEW k \in 0..Len(H) PROVE OnAt(d, H, k) = OnAt(c, H \o A, k)
  <2>1. CASE k = Len(H)
    BY <2>1 DEF OnAt
  <2>2. CASE k < Len(H)
    BY <1>1, <2>2 DEF OnAt
  <2> QED
    BY <1>1, <2>1, <2>2
<1> QED
  BY <1>2 DEF SameBelow

LEMMA ConcatFacts ==
  ASSUME NEW S, NEW A \in Seq(S), NEW B \in Seq(S), NEW x \in S
  PROVE  /\ A \o Append(B, x) = Append(A \o B, x) /\ A \o B \in Seq(S) /\ A \o <<>> = A
         /\ <<>> \o A = A /\ Len(A \o B) = Len(A) + Len(B) /\ Len(A) \in Nat /\ Len(B) \in Nat
         /\ SubSeq(A \o B, 1, Len(A)) = A
OBVIOUS

LEMMA ConcatTwice ==
  ASSUME NEW S, NEW A \in Seq(S), NEW B \in Seq(S), NEW C \in Seq(S)
  PROVE  (A \o B) \o C = A \o (B \o C)
OBVIOUS

-----------------------------------------------------------------------------
(* A frame with other switches open.                                       *)

WithSw(f, sw) == [f EXCEPT !.sw = sw]

Alike(f, g) ==
  /\ g.kind = f.kind
  /\ f.kind = "select" => g.h = f.h /\ g.open = f.open /\ g.stmt = f.stmt /\ g.last = f.last
  /\ f.kind = "loop" => /\ g.lsw = f.lsw /\ g.flag = f.flag /\ g.stmt = f.stmt
                        /\ g.cond = f.cond /\ g.step = f.step
  /\ f.kind = "head" => g.loop = f.loop
  /\ f.kind = "call" => g.target = f.target

LEMMA WithSwFields ==
  ASSUME NEW f, NEW d, NEW N, NEW tm, FrameOK(f, d, N, tm), NEW sw \in Seq(Helpers(N)),
         Closing(f) => sw = <<>>
  PROVE  /\ FrameOK(WithSw(f, sw), d, N, tm) /\ WithSw(f, sw).sw = sw /\ Alike(f, WithSw(f, sw))
<1> DEFINE g == WithSw(f, sw)
           H == Helpers(N)
<1>0. sw \in Seq(H)
  OBVIOUS
<1> HIDE DEF H
<1>1. CASE f.kind \in {"root", "block"} /\ DOMAIN f = {"kind", "sw"}
  BY <1>0, <1>1 DEF FrameOK, WithSw, Alike, H
<1>2. CASE /\ f.kind = "select" /\ DOMAIN f = {"kind", "stmt", "h", "open", "last", "sw"}
           /\ f.h \in H /\ f.open \in BOOLEAN /\ tm # "Initial"
  <2>1. /\ DOMAIN g = DOMAIN f /\ g.sw = sw /\ g.kind = f.kind /\ g.h = f.h /\ g.open = f.open
        /\ g.stmt = f.stmt /\ g.last = f.last
    BY <1>2 DEF WithSw
  <2>2. g.open = FALSE => sw = <<>>
    BY <1>2, <2>1 DEF Closing
  <2> HIDE DEF g
  <2>3. FrameOK(g, d, N, tm)
    BY <1>0, <1>2, <2>1, <2>2 DEF FrameOK, H
  <2> QED
    BY <1>2, <2>1, <2>3 DEF Alike, g
<1>3. CASE LoopOK(f, d, tm) /\ f.lsw \in Seq(H)
  <2>1. /\ DOMAIN g = DOMAIN f /\ g.sw = sw /\ g.kind = f.kind /\ g.lsw = f.lsw /\ g.flag = f.flag
        /\ g.stmt = f.stmt /\ g.cond = f.cond /\ g.step = f.step
    BY <1>3 DEF WithSw, LoopOK
  <2>2. f.kind = "loop"
    BY <1>3 DEF LoopOK
  <2> HIDE DEF g
  <2>3. LoopOK(g, d, tm)
    BY <1>3, <2>1 DEF LoopOK
  <2>4. FrameOK(g, d, N, tm)
    BY <1>0, <1>3, <2>1, <2>3 DEF FrameOK, H
  <2> QED
    BY <2>1, <2>2, <2>4 DEF Alike, g
<1>4. CASE f.kind = "head" /\ DOMAIN f = {"kind", "loop", "sw"} /\ LoopOK(f.loop, d, tm)
  BY <1>0, <1>4 DEF FrameOK, WithSw, Alike, H
<1>5. CASE /\ f.kind = "call" /\ DOMAIN f = {"kind", "target", "sw"}
           /\ f.target \in StaticVars \cup {None}
  BY <1>0, <1>5 DEF FrameOK, WithSw, Alike, H
<1> QED
  BY <1>1, <1>2, <1>3, <1>4, <1>5 DEF FrameOK, H

(* The switch that a frame is about, below those of its list. *)
Shell(f) == IF f.kind = "select" THEN <<f.h>> ELSE IF f.kind = "loop" THEN f.lsw ELSE <<>>

LEMMA ShellFacts ==
  ASSUME NEW f, NEW d, NEW N, NEW tm, FrameOK(f, d, N, tm), ~Closing(f),
         NEW sw \in Seq(Helpers(N))
  PROVE  /\ Opened(f) = Shell(f) \o f.sw /\ Opened(WithSw(f, sw)) = Shell(f) \o sw
         /\ Shell(f) \in Seq(Helpers(N)) /\ f.sw \in Seq(Helpers(N))
<1> DEFINE H == Helpers(N)
           g == WithSw(f, sw)
<1>1. Closing(f) => sw = <<>>
  OBVIOUS
<1>2. Alike(f, g) /\ g.sw = sw
  BY <1>1, WithSwFields
<1>3. /\ f.sw \in Seq(H) /\ sw \in Seq(H)
      /\ f.kind = "select" => f.open = TRUE /\ f.h \in H
      /\ f.kind = "loop" => f.lsw \in Seq(H)
  BY DEF FrameOK, Closing, LoopOK
<1> HIDE DEF H, g
<1>4. CASE f.kind = "select"
  <2>1. Opened(f) = <<f.h>> \o f.sw /\ Opened(g) = <<f.h>> \o sw /\ Shell(f) = <<f.h>>
    BY <1>2, <1>3, <1>4 DEF Alike, Opened, Shell
  <2> QED
    BY <1>3, <1>4, <2>1 DEF g, H
<1>5. CASE f.kind = "loop"
  <2>1. Opened(f) = f.lsw \o f.sw /\ Opened(g) = f.lsw \o sw /\ Shell(f) = f.lsw
    BY <1>2, <1>5 DEF Alike, Opened, Shell
  <2> QED
    BY <1>3, <1>5, <2>1 DEF g, H
<1>6. CASE f.kind \notin {"select", "loop"}
  <2>1. Opened(f) = f.sw /\ Opened(g) = sw /\ Shell(f) = <<>>
    BY <1>2, <1>6 DEF Alike, Opened, Shell
  <2>2. <<>> \o f.sw = f.sw /\ <<>> \o sw = sw /\ <<>> \in Seq(H)
    BY <1>3, ConcatFacts
  <2> QED
    BY <1>3, <2>1, <2>2 DEF g, H
<1> QED
  BY <1>4, <1>5, <1>6

LEMMA FrameResw ==
  ASSUME NEW tm, NEW esc, NEW B, NEW N, NEW f, NEW y, NEW z, NEW j,
         FrameAt(tm, esc, B, N, f, y, z, j), ~Closing(f), NEW sw \in Seq(Helpers(N)),
         NEW z2, z2.hs = y.hs \o (Shell(f) \o sw), z2.n = z.n, z2.m = z.m, z2.d = z.d, z2.l = z.l
  PROVE  FrameAt(tm, esc, B, N, WithSw(f, sw), y, z2, j)
<1> DEFINE g == WithSw(f, sw)
<1>1. FrameOK(f, y.d, N, tm) /\ LayoutOK(y, N) /\ LayoutOK(z, N) /\ Follows(f, y, z)
      /\ z.n <= Len(esc) /\ Guarding(f, y, esc) /\ Based(f, y, z, esc, B)
      /\ y.d < j /\ (j = 1 => f.kind = "root")
  BY DEF FrameAt
<1>2. FrameOK(g, y.d, N, tm) /\ g.sw = sw /\ Alike(f, g)
  BY <1>1, WithSwFields
<1>3. Opened(g) = Shell(f) \o sw /\ Shell(f) \in Seq(Helpers(N))
  BY <1>1, ShellFacts
<1> HIDE DEF g
<1>4. LayoutOK(z2, N)
  <2>1. y.hs \in Seq(Helpers(N))
    BY <1>1 DEF LayoutOK
  <2>2. z2.hs \in Seq(Helpers(N))
    BY <1>3, <2>1, ConcatFacts
  <2> QED
    BY <1>1, <2>2 DEF LayoutOK
<1>5. Follows(g, y, z2)
  BY <1>1, <1>2, <1>3 DEF Follows, Alike
<1>6. Guarding(g, y, esc)
  BY <1>1, <1>2 DEF Guarding, Alike
<1>7. Based(g, y, z2, esc, B)
  BY <1>1, <1>2 DEF Based, Alike
<1>8. FrameAt(tm, esc, B, N, g, y, z2, j)
  BY <1>1, <1>2, <1>4, <1>5, <1>6, <1>7 DEF FrameAt, Alike
<1> QED
  BY <1>8 DEF g

LEMMA SemAtAlike ==
  ASSUME NEW c, NEW H, NEW F, NEW fr, NEW f, NEW y, NEW z, SemAt(c, H, F, fr, f, y, z),
         NEW g, Alike(f, g), NEW z2, z2.m = z.m, z2.w = z.w
  PROVE  SemAt(c, H, F, fr, g, y, z2)
<1> HIDE DEF OnAt, Raised, SelectAt, LoopAt, HeadAt, CallAt
<1> QED
  BY DEF SemAt, Alike

(* The code writes the switches of the list back even if none was opened. *)
LEMMA SameFrame ==
  ASSUME NEW c, NEW T, NEW f, NEW s, NEW p, NEW Y, NEW z, NEW V, NEW B, NEW F,
         Inv(c, T, f, s, p, Y, z, V, B, F)
  PROVE  Inv(c, T, WithSw(f, f.sw), s, p, Y, z, V, B, F)
<1> DEFINE g == WithSw(f, f.sw)
           N == Names(c.nflag, p.nest)
           y == Y[Len(T) + 1]
<1>1. /\ Under(c.timing, c.esc, B, N, T, Y)
      /\ TopOK(c, f, s, p, y, z, V, B, F, Len(T) + 1)
      /\ c.diag = {} => SemBelow(c, z.hs, F, s.frames, T, Y)
  BY InvSplit
<1> HIDE DEF N, y
<1>2. /\ Good(c, z.hs, V, Pending(f), N, B, F)
      /\ FrameAt(c.timing, c.esc, B, N, f, y, z, Len(T) + 1)
      /\ Scoped(c, z, B, F) /\ Settled(c, f) /\ c.broken = FALSE
      /\ c.diag = {} => TopMeaning(c, f, s, y, z, F)
  BY <1>1 DEF TopOK, N
<1>3. /\ LayoutOK(y, N) /\ LayoutOK(z, N) /\ Follows(f, y, z) /\ FrameOK(f, y.d, N, c.timing)
      /\ z.n <= Len(c.esc) /\ Guarding(f, y, c.esc) /\ Based(f, y, z, c.esc, B)
      /\ y.d < Len(T) + 1 /\ (Len(T) + 1 = 1 => f.kind = "root")
  BY <1>2 DEF FrameAt
<1>4. f.sw \in Seq(Helpers(N)) /\ (Closing(f) => f.sw = <<>>)
  BY <1>3 DEF FrameOK, Closing, LoopOK
<1>5. FrameOK(g, y.d, N, c.timing) /\ g.sw = f.sw /\ Alike(f, g)
  BY <1>3, <1>4, WithSwFields
<1> HIDE DEF g
<1>6. Opened(g) = Opened(f) /\ (Closing(g) <=> Closing(f)) /\ Pending(g) = Pending(f)
  BY <1>5 DEF Opened, Alike, Closing, Pending
<1>7. Follows(g, y, z) /\ Guarding(g, y, c.esc) /\ Based(g, y, z, c.esc, B)
  BY <1>3, <1>5, <1>6 DEF Follows, Guarding, Based, Alike
<1>8. FrameAt(c.timing, c.esc, B, N, g, y, z, Len(T) + 1)
  BY <1>3, <1>5, <1>7 DEF FrameAt, Alike
<1>9. Settled(c, g)
  BY <1>2, <1>5, <1>6 DEF Settled, Alike, Closing
<1>10. c.diag = {} => TopMeaning(c, g, s, y, z, F)
  BY <1>2, <1>5, <1>6, SemAtAlike DEF TopMeaning, Placed
<1>11. TopOK(c, g, s, p, y, z, V, B, F, Len(T) + 1)
  BY <1>2, <1>6, <1>8, <1>9, <1>10 DEF TopOK, N
<1>12. Inv(c, T, g, s, p, Y, z, V, B, F)
  BY <1>1, <1>11, InvSplit DEF N, y
<1> QED
  BY <1>12 DEF g

-----------------------------------------------------------------------------
(* How many constructs of a kind are being executed.                       *)

LEMMA Tally ==
  ASSUME NEW n \in Nat, NEW D, NEW P, P \subseteq 1..n, D[1] = 0,
         \A j \in 1..n : D[j + 1] = D[j] + (IF j \in P THEN 1 ELSE 0)
  PROVE  Cardinality(P) = D[n + 1]
<1> DEFINE S == {k \in 0..n : IsFiniteSet(P \cap (1..k)) /\ Cardinality(P \cap (1..k)) = D[k + 1]}
<1>1. 0 \in S
  <2>1. P \cap (1..0) = {}
    OBVIOUS
  <2> QED
    BY <2>1, FS_EmptySet
<1>2. ASSUME NEW k \in 1..n, k - 1 \in S PROVE k \in S
  <2> DEFINE Q == P \cap (1..(k - 1))
  <2>1. IsFiniteSet(Q) /\ Cardinality(Q) = D[k]
    BY <1>2
  <2>2. D[k + 1] = D[k] + (IF k \in P THEN 1 ELSE 0) /\ k \notin Q
    BY <1>2
  <2>3. CASE k \in P
    <3>1. P \cap (1..k) = Q \cup {k}
      BY <2>3
    <3>2. IsFiniteSet(Q \cup {k}) /\ Cardinality(Q \cup {k}) = Cardinality(Q) + 1
      BY <2>1, <2>2, FS_AddElement
    <3>3. IsFiniteSet(P \cap (1..k)) /\ Cardinality(P \cap (1..k)) = D[k + 1]
      BY <2>1, <2>2, <2>3, <3>1, <3>2
    <3> QED
      BY <3>3
  <2>4. CASE k \notin P
    <3>1. P \cap (1..k) = Q
      BY <2>4
    <3>2. D[k] \in Nat
      BY <2>1, FS_CardinalityType
    <3>3. IsFiniteSet(P \cap (1..k)) /\ Cardinality(P \cap (1..k)) = D[k + 1]
      <4>1. D[k + 1] = D[k]
        BY <2>2, <2>4, <3>2
      <4> HIDE DEF Q
      <4> QED
        BY <2>1, <3>1, <4>1
    <3> QED
      BY <3>3
  <2> QED
    BY <2>3, <2>4
<1> HIDE DEF S
<1>3. 0..n \subseteq S
  BY <1>1, <1>2, FromZeroInduction
<1>4. n \in S
  BY <1>3
<1>5. P \cap (1..n) = P
  OBVIOUS
<1> QED
  BY <1>4, <1>5 DEF S

Calls(t) == Cardinality({i \in DOMAIN t : t[i].kind = "call"})
Loops(t) == Cardinality({i \in DOMAIN t : t[i].kind \in {"loop", "head"}})

LEMMA Counts ==
  ASSUME NEW tm, NEW esc, NEW B, NEW N, NEW T, NEW Y, Under(tm, esc, B, N, T, Y),
         NEW f, NEW z, FrameAt(tm, esc, B, N, f, Y[Len(T) + 1], z, Len(T) + 1)
  PROVE  z.d = Calls(Append(T, f)) /\ z.l = Loops(Append(T, f))
<1> DEFINE t == Append(T, f)
           n == Len(T) + 1
           X == Above(Y, Len(T), z)
           P == {i \in 1..n : t[i].kind = "call"}
           Q == {i \in 1..n : t[i].kind \in {"loop", "head"}}
           C == [j \in 1..(n + 1) |-> X[j].d]
           D == [j \in 1..(n + 1) |-> X[j].l]
<1>1. IsList(T) /\ Bottom(Y[1])
      /\ \A j \in 1..Len(T) : FrameAt(tm, esc, B, N, T[j], Y[j], Y[j + 1], j)
  BY DEF Under
<1>2. /\ Len(T) \in Nat /\ n \in Nat /\ t[n] = f /\ DOMAIN t = 1..n
      /\ \A j \in 1..Len(T) : t[j] = T[j]
  BY <1>1, ListFacts
<1>3. /\ \A j \in 1..n : X[j] = Y[j]
      /\ X[n + 1] = z
  BY <1>2 DEF Above
<1> HIDE DEF t, X, n
<1>4. ASSUME NEW j \in 1..n
      PROVE  /\ X[j + 1].d = X[j].d + NCalls(t[j].kind) /\ X[j + 1].l = X[j].l + NLoops(t[j].kind)
  <2>1. CASE j = n
    <3>1. Follows(f, Y[n], z)
      BY <1>2 DEF FrameAt, n
    <3> QED
      BY <1>2, <1>3, <2>1, <3>1 DEF Follows
  <2>2. CASE j < n
    <3>1. j \in 1..Len(T) /\ j + 1 \in 1..n /\ j \in 1..n
      BY <1>2, <2>2 DEF n
    <3>2. Follows(T[j], Y[j], Y[j + 1])
      BY <1>1, <3>1 DEF FrameAt
    <3> QED
      BY <1>2, <1>3, <3>1, <3>2 DEF Follows
  <2> QED
    BY <1>2, <2>1, <2>2
<1>5. \A j \in 1..n : /\ C[j + 1] = C[j] + (IF j \in P THEN 1 ELSE 0)
                      /\ D[j + 1] = D[j] + (IF j \in Q THEN 1 ELSE 0)
  <2> TAKE j \in 1..n
  <2>1. j \in 1..(n + 1) /\ j + 1 \in 1..(n + 1)
    BY <1>2
  <2> QED
    BY <1>4, <2>1 DEF NCalls, NLoops
<1>6. C[1] = 0 /\ D[1] = 0 /\ C[n + 1] = z.d /\ D[n + 1] = z.l
  <2>1. 1 \in 1..n /\ 1 \in 1..(n + 1) /\ n + 1 \in 1..(n + 1)
    BY <1>2 DEF n
  <2> QED
    BY <1>1, <1>3, <2>1 DEF Bottom
<1>7. P \subseteq 1..n /\ Q \subseteq 1..n
  OBVIOUS
<1> HIDE DEF P, Q, C, D
<1>8. Cardinality(P) = z.d /\ Cardinality(Q) = z.l
  BY <1>2, <1>5, <1>6, <1>7, Tally
<1>9. P = {i \in DOMAIN t : t[i].kind = "call"} /\ Q = {i \in DOMAIN t : t[i].kind \in {"loop", "head"}}
  BY <1>2 DEF P, Q
<1> QED
  BY <1>8, <1>9 DEF Calls, Loops, t

LEMMA CallsSame ==
  ASSUME NEW T, IsList(T), NEW f, NEW g, f.kind = g.kind
  PROVE  Calls(Append(T, f)) = Calls(Append(T, g))
<1> DEFINE t == Append(T, f)
           u == Append(T, g)
<1>1. /\ DOMAIN t = 1..(Len(T) + 1) /\ DOMAIN u = 1..(Len(T) + 1) /\ Len(T) \in Nat
      /\ \A j \in 1..Len(T) : t[j] = T[j] /\ u[j] = T[j]
      /\ t[Len(T) + 1] = f /\ u[Len(T) + 1] = g
  BY ListFacts
<1> HIDE DEF t, u
<1>2. \A i \in 1..(Len(T) + 1) : t[i].kind = u[i].kind
  <2> TAKE i \in 1..(Len(T) + 1)
  <2>1. i \in 1..Len(T) \/ i = Len(T) + 1
    BY <1>1
  <2> QED
    BY <1>1, <2>1
<1>3. {i \in DOMAIN t : t[i].kind = "call"} = {i \in DOMAIN u : u[i].kind = "call"}
  BY <1>1, <1>2
<1> QED
  BY <1>3 DEF Calls, t, u

(* The expressions that a statement in frame f may use. *)
InScope(T, f) == Expressions(StaticVars \cup LocalsTo(Calls(Append(T, f))))

ScopeIs(T, f, z, F) ==
  /\ z.d = Calls(Append(T, f)) /\ z.l = Loops(Append(T, f)) /\ IsList(T)
  /\ InScope(T, f) = Expressions(StaticVars \cup LocalsTo(z.d))
  /\ StaticVars \cup LocalsTo(z.d) \subseteq DOMAIN F

LEMMA KnownScope ==
  ASSUME NEW c, NEW T, NEW f, NEW s, NEW p, NEW Y, NEW z, NEW V, NEW B, NEW F,
         Inv(c, T, f, s, p, Y, z, V, B, F)
  PROVE  ScopeIs(T, f, z, F)
<1> DEFINE N == Names(c.nflag, p.nest)
<1>0. /\ Under(c.timing, c.esc, B, N, T, Y)
      /\ FrameAt(c.timing, c.esc, B, N, f, Y[Len(T) + 1], z, Len(T) + 1)
  BY InvFacts
<1> HIDE DEF N
<1>3. z.d = Calls(Append(T, f)) /\ z.l = Loops(Append(T, f))
  BY <1>0, Counts
<1>1. z.d = Calls(Append(T, f)) /\ z.l = Loops(Append(T, f)) /\ IsList(T)
  BY <1>0, <1>3 DEF Under
<1>2. StaticVars \cup LocalsTo(z.d) \subseteq DOMAIN F
  BY InvFacts, ScopeFacts
<1> QED
  BY <1>1, <1>2 DEF InScope, ScopeIs

(* The selected valuations that no branch of the pending switch has taken. *)
Room(c, f) == IF Closing(f) THEN f.h.left ELSE c.cas.on

(* An expression is 1 in the valuations of R in which it is true. *)
Evaluates(c, s, x, r, R) ==
  /\ r \in Signals
  /\ c.timing = "Initial" /\ x[1] # "wire" => r.const = TRUE
  /\ c.diag = {} => Truth(s, x) \in SUBSET Env /\ r.on \cap R = Truth(s, x) \cap R

LEMMA RoomEval ==
  ASSUME NEW c, NEW T, NEW f, NEW s, NEW p, Known(c, T, f, s, p), NEW x \in InScope(T, f)
  PROVE  Evaluates(c, s, x, Eval(c, x), Room(c, f))
<1>1. PICK Y, z, V, B, F : Inv(c, T, f, s, p, Y, z, V, B, F)
  BY DEF Known
<1> DEFINE N == Names(c.nflag, p.nest)
           u == Pending(f)
           R == Room(c, f)
<1>2. x \in Expressions(StaticVars \cup LocalsTo(z.d)) /\ StaticVars \cup LocalsTo(z.d) \subseteq DOMAIN F
  <2>1. ScopeIs(T, f, z, F)
    BY <1>1, KnownScope
  <2> QED
    BY <2>1 DEF ScopeIs
<1>3. Good(c, z.hs, V, u, N, B, F) /\ FrameAt(c.timing, c.esc, B, N, f, Y[Len(T) + 1], z, Len(T) + 1)
      /\ Settled(c, f) /\ (c.diag = {} => Meaning(c, T, f, s, Y, z, F))
  BY <1>1, InvFacts
<1>4. c.diag = {} => SemType(s, z.d) /\ Mirrors(s, c, F, z.d)
  BY <1>3 DEF Meaning
<1> HIDE DEF N
<1>5. Clear(c, u, R)
  <2>1. CASE Closing(f)
    <3>1. f.h \in Helpers(N)
      BY <1>3, <2>1 DEF FrameAt, FrameOK, Closing, LoopOK
    <3>2. f.h.updates \in Seq(Updates(N))
      BY <3>1 DEF Helpers
    <3>3. u = f.h.updates /\ R = f.h.left /\ DOMAIN u = 1..Len(f.h.updates)
      BY <2>1, <3>2 DEF Pending, Room
    <3> QED
      BY <1>3, <2>1, <3>3 DEF Settled, Fits, Clear
  <2>2. CASE ~Closing(f)
    BY <2>2 DEF Pending, Room, Clear
  <2> QED
    BY <2>1, <2>2
<1> HIDE DEF u, R
<1>6. c.diag = {} => Truth(s, x) \in SUBSET Env /\ Eval(c, x).on \cap R = Truth(s, x) \cap R
  BY <1>2, <1>3, <1>4, <1>5, EvalTrue, TruthType
<1>7. Eval(c, x) \in Signals /\ (c.timing = "Initial" /\ x[1] # "wire" => Eval(c, x).const = TRUE)
  BY <1>2, <1>3, EvalType
<1> QED
  BY <1>6, <1>7 DEF Evaluates, R

LEMMA KnownEval ==
  ASSUME NEW c, NEW T, NEW f, NEW s, NEW p, Known(c, T, f, s, p), ~Closing(f), NEW x \in InScope(T, f)
  PROVE  Evaluates(c, s, x, Eval(c, x), c.cas.on)
<1>1. Room(c, f) = c.cas.on
  BY DEF Room
<1>2. Known(c, T, f, s, p) /\ x \in InScope(T, f)
  OBVIOUS
<1>3. Evaluates(c, s, x, Eval(c, x), Room(c, f))
  BY ONLY <1>2, RoomEval
<1> QED
  BY <1>1, <1>3

-----------------------------------------------------------------------------
(* The steps of the semantics that change frames and live valuations only. *)

SameValues(s, t) ==
  /\ DOMAIN t = DOMAIN s /\ t.cur = s.cur /\ t.nba = s.nba /\ t.queued = s.queued
  /\ t.written = s.written

LEMMA ValuesKept ==
  ASSUME NEW s, NEW n \in Nat, SemType(s, n), NEW t, SameValues(s, t), t.live \subseteq Env,
         t.frames \in Seq(SemFrames), NEW m \in Nat, m <= n
  PROVE  SemType(t, m)
<1>1. 1..m \subseteq 1..n
  OBVIOUS
<1>2. LocalsTo(m) \subseteq LocalsTo(n)
  BY <1>1 DEF LocalsTo
<1> QED
  BY <1>2 DEF SemType, SameValues

LEMMA MirrorsKept ==
  ASSUME NEW s, NEW c, NEW F, NEW n \in Nat, SemType(s, n), Mirrors(s, c, F, n),
         NEW t, SameValues(s, t),
         NEW d, d.timing = c.timing, d.blocking = c.blocking, d.nonblocking = c.nonblocking,
         NEW m \in Nat, m <= n,
         NEW J, \A v \in StaticVars \cup LocalsTo(m) : J[v] = F[v]
  PROVE  Mirrors(t, d, J, m)
<1>1. \A v \in StaticVars : Final(t, v) = Final(s, v)
  BY DEF SameValues, Final
<1>2. \A i \in 1..m : i \in 1..n /\ Local(i) \in LocalsTo(m)
  BY DEF LocalsTo
<1> QED
  BY <1>1, <1>2 DEF Mirrors, SameValues

(* The frame of a construct in the semantics. *)
TopOf(s, kind) == Len(s.frames) >= 1 /\ TopFrame(s).kind = kind

(* The frames of t are those of s below g. *)
Retopped(s, t, g) ==
  /\ Len(t.frames) = Len(s.frames) /\ t.frames[Len(s.frames)] = g
  /\ \A i \in 1..(Len(s.frames) - 1) : t.frames[i] = s.frames[i]
Topped(s, t, g) ==
  /\ Len(t.frames) = Len(s.frames) + 1 /\ t.frames[Len(s.frames) + 1] = g
  /\ \A i \in 1..Len(s.frames) : t.frames[i] = s.frames[i]
Untopped(s, t) ==
  /\ Len(t.frames) = Len(s.frames) - 1
  /\ \A i \in 1..(Len(s.frames) - 1) : t.frames[i] = s.frames[i]

LEMMA FramesType ==
  ASSUME NEW s, NEW d, SemType(s, d)
  PROVE  /\ Len(s.frames) \in Nat /\ s.live \subseteq Env /\ s.frames \in Seq(SemFrames)
         /\ TopOf(s, "select") => TopFrame(s) \in [kind : {"select"}, sel : SUBSET Env,
                                                   rest : SUBSET Env, done : SUBSET Env]
         /\ TopOf(s, "loop") => TopFrame(s) \in [kind : {"loop"}, out : SUBSET Env, skip : SUBSET Env]
         /\ TopOf(s, "call") => TopFrame(s) \in [kind : {"call"}, back : SUBSET Env]
<1>1. s.frames \in Seq(SemFrames) /\ s.live \subseteq Env
  BY DEF SemType
<1>2. Len(s.frames) >= 1 => TopFrame(s) \in SemFrames
  BY <1>1 DEF TopFrame
<1> QED
  BY <1>1, <1>2 DEF SemFrames, TopOf

LEMMA FrameReplaced ==
  ASSUME NEW s, NEW t, s.frames \in Seq(SemFrames), Len(s.frames) >= 1, NEW g \in SemFrames,
         t.frames = [s.frames EXCEPT ![Len(s.frames)] = g]
  PROVE  t.frames \in Seq(SemFrames) /\ Retopped(s, t, g)
BY DEF Retopped

LEMMA FrameAdded ==
  ASSUME NEW s, NEW t, s.frames \in Seq(SemFrames), NEW g \in SemFrames,
         t.frames = Append(s.frames, g)
  PROVE  t.frames \in Seq(SemFrames) /\ Topped(s, t, g)
BY DEF Topped

LEMMA FrameRemoved ==
  ASSUME NEW s, NEW t, s.frames \in Seq(SemFrames), Len(s.frames) >= 1,
         t.frames = SubSeq(s.frames, 1, Len(s.frames) - 1)
  PROVE  t.frames \in Seq(SemFrames) /\ Untopped(s, t)
BY DEF Untopped

LEMMA LoopTestFields ==
  ASSUME NEW s, NEW n \in Nat, SemType(s, n), TopOf(s, "loop"), NEW x, Truth(s, x) \in SUBSET Env
  PROVE  LET t == LoopTest(s, x)
         IN  /\ SemType(t, n) /\ SameValues(s, t) /\ t.live = s.live \cap Truth(s, x)
             /\ Retopped(s, t, [TopFrame(s) EXCEPT !.out = @ \cup (s.live \ Truth(s, x))])
<1> DEFINE t == LoopTest(s, x)
           g == [TopFrame(s) EXCEPT !.out = @ \cup (s.live \ Truth(s, x))]
<1>1. /\ SameValues(s, t) /\ t.live = s.live \cap Truth(s, x)
      /\ t.frames = [s.frames EXCEPT ![Len(s.frames)] = g]
  BY DEF LoopTest, SetTop, SemType, SameValues
<1>2. s.frames \in Seq(SemFrames) /\ Len(s.frames) >= 1 /\ s.live \subseteq Env
      /\ TopFrame(s) \in [kind : {"loop"}, out : SUBSET Env, skip : SUBSET Env]
  BY FramesType DEF TopOf
<1>3. g \in SemFrames
  BY <1>2 DEF SemFrames
<1> HIDE DEF t, g
<1>4. t.frames \in Seq(SemFrames) /\ Retopped(s, t, g)
  BY <1>1, <1>2, <1>3, FrameReplaced
<1>5. t.live \subseteq Env
  BY <1>1, <1>2
<1>6. SemType(t, n)
  BY <1>1, <1>4, <1>5, ValuesKept
<1> QED
  BY <1>1, <1>4, <1>6 DEF t, g

LEMMA LoopBeginFields ==
  ASSUME NEW s, NEW n \in Nat, SemType(s, n)
  PROVE  LET t == LoopBegin(s)
         IN  /\ SemType(t, n) /\ SameValues(s, t) /\ t.live = s.live
             /\ Topped(s, t, [kind |-> "loop", out |-> {}, skip |-> {}])
<1> DEFINE t == LoopBegin(s)
           g == [kind |-> "loop", out |-> {}, skip |-> {}]
<1>1. /\ SameValues(s, t) /\ t.live = s.live
      /\ t.frames = Append(s.frames, g)
  BY DEF LoopBegin, PushFrame, SemType, SameValues
<1>2. s.frames \in Seq(SemFrames) /\ s.live \subseteq Env
  BY FramesType
<1>3. g \in SemFrames
  BY DEF SemFrames
<1> HIDE DEF t, g
<1>4. t.frames \in Seq(SemFrames) /\ Topped(s, t, g)
  BY <1>1, <1>2, <1>3, FrameAdded
<1>6. SemType(t, n)
  BY <1>1, <1>2, <1>4, ValuesKept, SMTT(30)
<1> QED
  BY <1>1, <1>4, <1>6 DEF t, g

LEMMA IterationEndFields ==
  ASSUME NEW s, NEW n \in Nat, SemType(s, n), TopOf(s, "loop")
  PROVE  LET t == IterationEnd(s)
         IN  /\ SemType(t, n) /\ SameValues(s, t) /\ t.live = s.live \cup TopFrame(s).skip
             /\ Retopped(s, t, [TopFrame(s) EXCEPT !.skip = {}])
<1> DEFINE t == IterationEnd(s)
           g == [TopFrame(s) EXCEPT !.skip = {}]
<1>1. /\ SameValues(s, t) /\ t.live = s.live \cup TopFrame(s).skip
      /\ t.frames = [s.frames EXCEPT ![Len(s.frames)] = g]
  BY DEF IterationEnd, SetTop, SemType, SameValues
<1>2. s.frames \in Seq(SemFrames) /\ Len(s.frames) >= 1 /\ s.live \subseteq Env
      /\ TopFrame(s) \in [kind : {"loop"}, out : SUBSET Env, skip : SUBSET Env]
  BY FramesType DEF TopOf
<1>3. g \in SemFrames
  BY <1>2 DEF SemFrames
<1> HIDE DEF t, g
<1>4. t.frames \in Seq(SemFrames) /\ Retopped(s, t, g)
  BY <1>1, <1>2, <1>3, FrameReplaced
<1>5. t.live \subseteq Env
  BY <1>1, <1>2
<1>6. SemType(t, n)
  BY <1>1, <1>4, <1>5, ValuesKept
<1> QED
  BY <1>1, <1>4, <1>6 DEF t, g

LEMMA EndFields ==
  ASSUME NEW s, NEW n \in Nat, SemType(s, n), NEW m \in Nat, m <= n
  PROVE  /\ TopOf(s, "loop") => LET t == LoopEnd(s)
                                IN  /\ SemType(t, m) /\ SameValues(s, t) /\ Untopped(s, t)
                                    /\ t.live = s.live \cup TopFrame(s).out
         /\ TopOf(s, "call") => LET t == CallEnd(s)
                                IN  /\ SemType(t, m) /\ SameValues(s, t) /\ Untopped(s, t)
                                    /\ t.live = s.live \cup TopFrame(s).back
         /\ TopOf(s, "select") => LET t == SelectEnd(s)
                                  IN  /\ SemType(t, m) /\ SameValues(s, t) /\ Untopped(s, t)
                                      /\ t.live = s.live \cup TopFrame(s).rest \cup TopFrame(s).done
<1>1. s.frames \in Seq(SemFrames) /\ s.live \subseteq Env
  BY FramesType
<1>2. ASSUME Len(s.frames) >= 1, NEW t, SameValues(s, t), t.live \subseteq Env,
             t.frames = SubSeq(s.frames, 1, Len(s.frames) - 1)
      PROVE  SemType(t, m) /\ Untopped(s, t)
  BY <1>1, <1>2, FrameRemoved, ValuesKept
<1>3. CASE TopOf(s, "loop")
  <2> DEFINE t == LoopEnd(s)
  <2>1. TopFrame(s).out \subseteq Env /\ Len(s.frames) >= 1
    BY <1>3, FramesType DEF TopOf
  <2>2. /\ SameValues(s, t) /\ t.live = s.live \cup TopFrame(s).out
        /\ t.frames = SubSeq(s.frames, 1, Len(s.frames) - 1)
    BY DEF LoopEnd, PopFrame, SemType, SameValues
  <2> HIDE DEF t
  <2>3. SemType(t, m) /\ Untopped(s, t)
    BY <1>1, <1>2, <2>1, <2>2
  <2> QED
    BY <1>3, <2>2, <2>3 DEF TopOf, t
<1>4. CASE TopOf(s, "call")
  <2> DEFINE t == CallEnd(s)
  <2>1. TopFrame(s).back \subseteq Env /\ Len(s.frames) >= 1
    BY <1>4, FramesType DEF TopOf
  <2>2. /\ SameValues(s, t) /\ t.live = s.live \cup TopFrame(s).back
        /\ t.frames = SubSeq(s.frames, 1, Len(s.frames) - 1)
    BY DEF CallEnd, PopFrame, SemType, SameValues
  <2> HIDE DEF t
  <2>3. SemType(t, m) /\ Untopped(s, t)
    BY <1>1, <1>2, <2>1, <2>2
  <2> QED
    BY <1>4, <2>2, <2>3 DEF TopOf, t
<1>5. CASE TopOf(s, "select")
  <2> DEFINE t == SelectEnd(s)
  <2>1. TopFrame(s).rest \subseteq Env /\ TopFrame(s).done \subseteq Env /\ Len(s.frames) >= 1
    BY <1>5, FramesType DEF TopOf
  <2>2. /\ SameValues(s, t) /\ t.live = s.live \cup TopFrame(s).rest \cup TopFrame(s).done
        /\ t.frames = SubSeq(s.frames, 1, Len(s.frames) - 1)
    BY DEF SelectEnd, PopFrame, SemType, SameValues
  <2> HIDE DEF t
  <2>3. SemType(t, m) /\ Untopped(s, t)
    BY <1>1, <1>2, <2>1, <2>2
  <2> QED
    BY <1>5, <2>2, <2>3 DEF TopOf, t
<1> QED
  BY <1>3, <1>4, <1>5

LEMMA SelectFields ==
  ASSUME NEW s, NEW n \in Nat, SemType(s, n)
  PROVE  /\ \A x : Truth(s, x) \in SUBSET Env =>
              LET t == SelectBegin(s, x)
              IN  /\ SemType(t, n) /\ SameValues(s, t) /\ t.live = {}
                  /\ Topped(s, t, [kind |-> "select", sel |-> Truth(s, x), rest |-> s.live, done |-> {}])
         /\ \A m \in SUBSET Env : TopOf(s, "select") =>
              LET t == SelectItem(s, m)
              IN  /\ SemType(t, n) /\ SameValues(s, t) /\ t.live = m
                  /\ Retopped(s, t, [TopFrame(s) EXCEPT !.rest = @ \ m, !.done = @ \cup s.live])
<1>1. s.frames \in Seq(SemFrames) /\ s.live \subseteq Env
  BY FramesType
<1>2. ASSUME NEW x, Truth(s, x) \in SUBSET Env
      PROVE  LET t == SelectBegin(s, x)
             IN  /\ SemType(t, n) /\ SameValues(s, t) /\ t.live = {}
                 /\ Topped(s, t, [kind |-> "select", sel |-> Truth(s, x), rest |-> s.live, done |-> {}])
  <2> DEFINE t == SelectBegin(s, x)
             g == [kind |-> "select", sel |-> Truth(s, x), rest |-> s.live, done |-> {}]
  <2>1. /\ SameValues(s, t) /\ t.live = {} /\ t.frames = Append(s.frames, g)
    BY DEF SelectBegin, PushFrame, SemType, SameValues
  <2>2. g \in SemFrames
    BY <1>1, <1>2 DEF SemFrames
  <2> HIDE DEF t, g
  <2>3. t.frames \in Seq(SemFrames) /\ Topped(s, t, g)
    BY <1>1, <2>1, <2>2, FrameAdded
  <2>5. t.live \subseteq Env
    BY <2>1
  <2>6. SemType(s, n) /\ n \in Nat /\ n <= n /\ SameValues(s, t) /\ t.frames \in Seq(SemFrames)
    BY <2>1, <2>3
  <2>4. SemType(t, n)
    BY ONLY <2>5, <2>6, ValuesKept
  <2> QED
    BY <2>1, <2>3, <2>4 DEF t, g
<1>3. ASSUME NEW m \in SUBSET Env, TopOf(s, "select")
      PROVE  LET t == SelectItem(s, m)
             IN  /\ SemType(t, n) /\ SameValues(s, t) /\ t.live = m
                 /\ Retopped(s, t, [TopFrame(s) EXCEPT !.rest = @ \ m, !.done = @ \cup s.live])
  <2> DEFINE t == SelectItem(s, m)
             g == [TopFrame(s) EXCEPT !.rest = @ \ m, !.done = @ \cup s.live]
  <2>1. /\ SameValues(s, t) /\ t.live = m /\ t.frames = [s.frames EXCEPT ![Len(s.frames)] = g]
    BY DEF SelectItem, SetTop, SemType, SameValues
  <2>2. Len(s.frames) >= 1
        /\ TopFrame(s) \in [kind : {"select"}, sel : SUBSET Env, rest : SUBSET Env, done : SUBSET Env]
    BY <1>3, FramesType DEF TopOf
  <2>3. g \in SemFrames
    BY <1>1, <2>2 DEF SemFrames
  <2> HIDE DEF t, g
  <2>4. t.frames \in Seq(SemFrames) /\ Retopped(s, t, g)
    BY <1>1, <2>1, <2>2, <2>3, FrameReplaced
  <2>5. t.live \subseteq Env
    BY <1>3, <2>1
  <2>6. SemType(t, n)
    BY <2>1, <2>4, <2>5, ValuesKept
  <2> QED
    BY <2>1, <2>4, <2>6 DEF t, g
<1> QED
  BY <1>2, <1>3

-----------------------------------------------------------------------------
(* What lies below the frame that a step is about.                         *)

Undisturbed(y, c, B, F, d, B2, F2) ==
  /\ d.timing = c.timing /\ c.nflag \in Nat /\ d.nflag \in Nat /\ c.nflag <= d.nflag
  /\ Len(d.esc) \in Nat /\ y.n <= Len(d.esc)
  /\ \A i \in 1..y.n : /\ d.esc[i] = c.esc[i] /\ B2[c.esc[i].flag] = B[c.esc[i].flag]
                       /\ d.diag = {} => F2[c.esc[i].flag] = F[c.esc[i].flag]
  /\ \A i \in 1..y.d : B2[Local(i)] = B[Local(i)]

(* The same of the semantics, and of the cases. *)
SamePast(y, c, z, s, d, z2, s2) ==
  /\ \A k \in 0..Len(y.hs) : OnAt(d, z2.hs, k) = OnAt(c, z.hs, k)
  /\ \A i \in 1..y.m : s2.frames[i] = s.frames[i]

LEMMA PastKept ==
  ASSUME NEW y, y.n \in Nat, NEW c, NEW z, NEW s, NEW B, NEW F, NEW d, NEW z2, NEW s2, NEW B2, NEW F2,
         Undisturbed(y, c, B, F, d, B2, F2),
         d.diag = {} => c.diag = {} /\ SamePast(y, c, z, s, d, z2, s2)
  PROVE  /\ Kept2(y, c, z, s, B, F, d, z2, s2, B2, F2)
         /\ d.diag = {} => \A n \in 0..y.n : Raised(d.esc, F2, n) = Raised(c.esc, F, n)
         /\ d.diag = {} => SamePlaces(y, c, z.hs, F, s.frames, d, z2.hs, F2, s2.frames)
<1>1. ASSUME d.diag = {}, NEW n \in 0..y.n PROVE Raised(d.esc, F2, n) = Raised(c.esc, F, n)
  <2>1. n # 0 => n \in 1..y.n
    BY <1>1
  <2> QED
    BY <1>1, <2>1 DEF Raised, Undisturbed
<1>2. SameScope(y, c.esc, B, d.esc, B2)
  BY DEF SameScope, Undisturbed
<1>3. d.diag = {} => SamePlaces(y, c, z.hs, F, s.frames, d, z2.hs, F2, s2.frames)
  BY <1>1 DEF SamePlaces, SamePast
<1> QED
  BY <1>1, <1>2, <1>3 DEF Kept2, Undisturbed

LEMMA NotesUndisturbed ==
  ASSUME NEW N, NEW c \in Contexts(N), NEW d, SameNotes(c, d), NEW y, y.n <= Len(c.esc), NEW B, NEW F
  PROVE  Undisturbed(y, c, B, F, d, B, F)
BY ContextType DEF Undisturbed, SameNotes

LEMMA PastNested ==
  ASSUME NEW tm, NEW esc, NEW B, NEW N, NEW f, NEW y, NEW z, NEW j,
         FrameAt(tm, esc, B, N, f, y, z, j),
         NEW c, NEW x, NEW s, NEW d, NEW z2, NEW s2, SamePast(z, c, x, s, d, z2, s2)
  PROVE  SamePast(y, c, x, s, d, z2, s2)
<1>1. 1..y.m \subseteq 1..z.m /\ 0..Len(y.hs) \subseteq 0..Len(z.hs)
  BY FrameRises, BelowRanges
<1> QED
  BY <1>1 DEF SamePast

-----------------------------------------------------------------------------
(* Opening a switch in the current list.                                   *)

LEMMA OpenType ==
  ASSUME NEW N, NEW c \in Contexts(N), NEW r \in Signals
  PROVE  LET h == OpenSwitch(c, r)
         IN  /\ h \in Helpers(N) /\ Fits(h, {}) /\ h.parent.on = c.cas.on /\ h.updates = <<>>
             /\ h.left = c.cas.on /\ h.signal = r
<1> DEFINE h == OpenSwitch(c, r)
<1>1. c.cas \in Cases
  BY ContextType
<1>2. [c.cas EXCEPT !.nsw = @ + 1] \in Cases /\ [c.cas EXCEPT !.nsw = @ + 1].on = c.cas.on
  BY <1>1 DEF Cases
<1>3. /\ h.parent = [c.cas EXCEPT !.nsw = @ + 1] /\ h.signal = r /\ h.left = c.cas.on
      /\ h.saved = NoBits /\ h.updates = <<>>
  BY DEF OpenSwitch
<1>4. c.cas.on \in SUBSET Env
  BY <1>1 DEF Cases
<1>5. NoBits \in Reverts(N)
  BY RevertMade DEF NoBits
<1>6. h \in Helpers(N)
  <2>1. <<>> \in Seq(Updates(N))
    OBVIOUS
  <2> HIDE DEF Updates, Cases, Signals, Reverts
  <2> QED
    BY <1>2, <1>4, <1>5, <2>1 DEF Helpers, OpenSwitch
<1>7. Fits(h, {})
  BY <1>2, <1>3 DEF Fits
<1> QED
  BY <1>2, <1>3, <1>6, <1>7

(* The valuations that go on: all that are live, or at the head of a loop  *)
(* those that pass its test.                                               *)
Narrows(f, s, s2) ==
  s2 = s \/ (f.kind = "head" /\ \E x : Truth(s, x) \in SUBSET Env /\ s2 = LoopTest(s, x))

Narrowed(c, H, F, s, s2, f, y, z2) ==
  /\ SemType(s2, z2.d) /\ SameValues(s, s2) /\ Len(s2.frames) = Len(s.frames)
  /\ s2.live \subseteq s.live /\ SemAt(c, H, F, s2.frames, f, y, z2)
  /\ \A i \in 1..y.m : s2.frames[i] = s.frames[i]

LEMMA NarrowFacts ==
  ASSUME NEW c, NEW H, NEW F, NEW s, NEW f, NEW y, NEW z, SemAt(c, H, F, s.frames, f, y, z),
         z.d \in Nat, SemType(s, z.d), z.m = Len(s.frames), z.w = s.live, z.m = y.m + NParks(f.kind), y.m \in Nat,
         NEW s2, Narrows(f, s, s2), NEW z2, z2.m = z.m, z2.d = z.d, z2.w = s2.live
  PROVE  Narrowed(c, H, F, s, s2, f, y, z2)
<1> USE DEF Narrowed
<1>1. CASE s2 = s
  <2>1. Alike(f, f)
    BY DEF Alike
  <2>2. SemAt(c, H, F, s2.frames, f, y, z2)
    BY <1>1, <2>1, SemAtAlike
  <2> QED
    BY <1>1, <2>2 DEF SameValues
<1>2. CASE f.kind = "head" /\ \E x : Truth(s, x) \in SUBSET Env /\ s2 = LoopTest(s, x)
  <2>1. PICK x : Truth(s, x) \in SUBSET Env /\ s2 = LoopTest(s, x)
    BY <1>2
  <2>2. HeadAt(s.frames[z.m], y.w, z.w) /\ OnAt(c, H, Len(y.hs)) \ Raised(c.esc, F, y.n) = y.w
    BY <1>2 DEF SemAt
  <2>3. z.m = y.m + 1
    BY <1>2 DEF NParks
  <2>4. TopOf(s, "loop") /\ TopFrame(s) = s.frames[z.m]
    BY <2>2, <2>3 DEF TopOf, TopFrame, HeadAt
  <2> DEFINE g == [TopFrame(s) EXCEPT !.out = @ \cup (s.live \ Truth(s, x))]
  <2>5. /\ SemType(s2, z.d) /\ SameValues(s, s2) /\ s2.live = s.live \cap Truth(s, x)
        /\ Retopped(s, s2, g)
    BY <2>1, <2>4, LoopTestFields
  <2>6. TopFrame(s) \in [kind : {"loop"}, out : SUBSET Env, skip : SUBSET Env]
    BY <2>4, FramesType
  <2>7. g.kind = "loop" /\ g.out = TopFrame(s).out \cup (s.live \ Truth(s, x)) /\ g.skip = TopFrame(s).skip
    BY <2>6
  <2> HIDE DEF g
  <2>8. s2.frames[z2.m] = g
    BY <2>5 DEF Retopped
  <2>9. HeadAt(s2.frames[z2.m], y.w, z2.w)
    BY <2>2, <2>4, <2>5, <2>7, <2>8 DEF HeadAt
  <2>10. SemAt(c, H, F, s2.frames, f, y, z2)
    BY <1>2, <2>2, <2>9 DEF SemAt
  <2>11. \A i \in 1..y.m : s2.frames[i] = s.frames[i]
    BY <2>3, <2>5 DEF Retopped
  <2> QED
    BY <2>5, <2>10, <2>11 DEF Retopped
<1> QED
  BY <1>1, <1>2 DEF Narrows

(* The rest of the list goes into a branch that the right valuations take. *)
LEMMA DivertKeeps ==
  ASSUME NEW c, NEW T, NEW f, NEW s, NEW p, Known(c, T, f, s, p), ~Closing(f), c.timing # "Initial",
         NEW r \in Signals, NEW cmp, NEW s2,
         c.diag = {} => Narrows(f, s, s2) /\ s2.live = Hit(OpenSwitch(c, r), cmp, FALSE)
  PROVE  LET e == EnterBranch(c, OpenSwitch(c, r), cmp, FALSE)
         IN  /\ Known(e.c, T, WithSw(f, Append(f.sw, e.h)), s2, p)
             /\ Exact(e.c, s2) /\ SameNotes(c, e.c)
<1> DEFINE h == OpenSwitch(c, r)
           e == EnterBranch(c, h, cmp, FALSE)
           g == WithSw(f, Append(f.sw, e.h))
           d == e.c
<1>1. PICK Y, z, V, B, F : Inv(c, T, f, s, p, Y, z, V, B, F)
  BY DEF Known
<1> DEFINE N == Names(c.nflag, p.nest)
           y == Y[Len(T) + 1]
           z2 == Layout(Append(z.hs, e.h), z.n, z.m, z.d, z.l, s2.live)
<1>0. /\ Good(c, z.hs, V, <<>>, N, B, F) /\ FrameAt(c.timing, c.esc, B, N, f, y, z, Len(T) + 1)
      /\ Scoped(c, z, B, F) /\ c.broken = FALSE /\ (c.diag = {} => Meaning(c, T, f, s, Y, z, F))
  BY <1>1, InvFacts DEF Pending
<1> HIDE DEF N
<1>2. /\ Good(c, z.hs, V, <<>>, N, B, F) /\ FrameAt(c.timing, c.esc, B, N, f, y, z, Len(T) + 1)
      /\ Scoped(c, z, B, F) /\ c.broken = FALSE
      /\ c.diag = {} => /\ SemType(s, z.d) /\ Mirrors(s, c, F, z.d) /\ z.m = Len(s.frames) /\ z.w = s.live
                        /\ SemAt(c, z.hs, F, s.frames, f, y, z) /\ Placed(c, f, F, z) /\ c.exhausted = FALSE
  BY <1>0 DEF Meaning
<1>3. c \in Contexts(N) /\ z.hs \in Seq(Helpers(N))
  BY <1>2, GoodFacts
<1>4. h \in Helpers(N) /\ Fits(h, {}) /\ h.parent.on = c.cas.on /\ h.updates = <<>>
  BY <1>3, OpenType
<1> HIDE DEF h
<1>5. /\ d \in Contexts(N) /\ e.h \in Helpers(N) /\ SameNotes(c, d) /\ d.cas.on = Hit(h, cmp, FALSE)
      /\ e.h.parent = h.parent
  <2>1. EnterFacts(c, h, cmp, FALSE, d, e.h, N)
    BY <1>3, <1>4, EnterFields
  <2> QED
    BY <2>1 DEF EnterFacts
<1>6. Good(d, Append(z.hs, e.h), Append(V, c.vis), <<>>, N, B, F)
  BY <1>2, <1>4, EnterGood
<1>7. /\ z2.hs = Append(z.hs, e.h) /\ z2.n = z.n /\ z2.m = z.m /\ z2.d = z.d /\ z2.l = z.l
      /\ z2.w = s2.live
  BY DEF Layout
<1> DEFINE eh == e.h
<1> HIDE DEF d, eh, e, z2, y
<1>8. /\ LayoutOK(y, N) /\ LayoutOK(z, N) /\ Follows(f, y, z) /\ FrameOK(f, y.d, N, c.timing)
      /\ z.n <= Len(c.esc)
  BY <1>2 DEF FrameAt
<1>9. /\ f.sw \in Seq(Helpers(N)) /\ Shell(f) \in Seq(Helpers(N)) /\ y.hs \in Seq(Helpers(N))
      /\ Opened(f) = Shell(f) \o f.sw
  <2>1. <<>> \in Seq(Helpers(N))
    OBVIOUS
  <2> QED
    BY <1>8, <2>1, ShellFacts DEF LayoutOK
<1>10. Append(f.sw, eh) \in Seq(Helpers(N)) /\ z2.hs = y.hs \o (Shell(f) \o Append(f.sw, eh))
  <2>1. eh \in Helpers(N) /\ Append(f.sw, eh) \in Seq(Helpers(N)) /\ Opened(f) \in Seq(Helpers(N))
    BY <1>5, <1>9, ConcatFacts DEF eh
  <2>2. Shell(f) \o Append(f.sw, eh) = Append(Opened(f), eh)
    BY <1>9, <2>1, ConcatFacts
  <2>3. y.hs \o Append(Opened(f), eh) = Append(y.hs \o Opened(f), eh)
    <3> DEFINE S == Helpers(N)
               P == y.hs
               Q == Opened(f)
    <3>1. P \in Seq(S) /\ Q \in Seq(S) /\ eh \in S
      BY <1>9, <2>1
    <3> HIDE DEF S, P, Q
    <3>2. P \o Append(Q, eh) = Append(P \o Q, eh)
      BY ONLY <3>1
    <3> QED
      BY <3>2 DEF P, Q
  <2> QED
    BY <1>7, <1>8, <2>1, <2>2, <2>3 DEF Follows, eh
<1> DEFINE sw == Append(f.sw, eh)
<1> HIDE DEF sw
<1>11. FrameAt(c.timing, c.esc, B, N, WithSw(f, sw), y, z2, Len(T) + 1)
  BY <1>2, <1>7, <1>10, FrameResw DEF sw
<1>12. Alike(f, WithSw(f, sw))
  BY <1>8, <1>10, WithSwFields DEF sw
<1>13. d.timing = c.timing /\ d.esc = c.esc /\ d.nflag = c.nflag /\ d.broken = c.broken /\ d.diag = c.diag
       /\ d.unrolling = c.unrolling /\ d.exhausted = c.exhausted
       /\ d.blocking = c.blocking /\ d.nonblocking = c.nonblocking
  BY <1>5 DEF SameNotes
<1>14. Scoped(d, z2, B, F)
  BY <1>2, <1>7, <1>13 DEF Scoped
<1>15. ~Closing(WithSw(f, sw))
  BY <1>12 DEF Closing, Alike
<1>16. Undisturbed(z, c, B, F, d, B, F) /\ Undisturbed(y, c, B, F, d, B, F)
  <2>1. y.n <= Len(c.esc)
    <3>1. Below(y, z)
      BY <1>2, FrameRises
    <3>2. Len(c.esc) \in Nat
      BY <1>3, ContextType
    <3> QED
      BY <1>8, <3>1, <3>2 DEF Below, LayoutOK
  <2> QED
    BY <1>3, <1>5, <1>8, <2>1, NotesUndisturbed
<1>17. \A k \in 0..Len(z.hs) : OnAt(d, z2.hs, k) = OnAt(c, z.hs, k)
  <2>1. eh \in Helpers(N) /\ eh.parent.on = c.cas.on /\ z2.hs = Append(z.hs, eh)
    BY <1>4, <1>5, <1>7 DEF eh
  <2> DEFINE S == Helpers(N)
             H == z.hs
  <2>2. H \in Seq(S) /\ eh \in S
    BY <1>3, <2>1
  <2> HIDE DEF S, H
  <2>3. SameBelow(c, H, d, Append(H, eh))
    BY ONLY <2>1, <2>2, OnAppend
  <2> QED
    BY <2>1, <2>3 DEF H, SameBelow
<1>18. ASSUME d.diag = {}
       PROVE  /\ SamePast(y, c, z, s, d, z2, s2)
              /\ TopMeaning(d, WithSw(f, sw), s2, y, z2, F)
  <2>1. /\ SemType(s, z.d) /\ Mirrors(s, c, F, z.d) /\ z.m = Len(s.frames) /\ z.w = s.live
        /\ SemAt(c, z.hs, F, s.frames, f, y, z)
        /\ c.cas.on \ Raised(c.esc, F, z.n) = z.w /\ c.exhausted = FALSE
        /\ Narrows(f, s, s2) /\ s2.live = Hit(h, cmp, FALSE)
    BY <1>2, <1>13, <1>18 DEF Placed, h
  <2>2. z.d \in Nat /\ y.m \in Nat /\ z.m = y.m + NParks(f.kind) /\ z.n \in Nat
    BY <1>8 DEF LayoutOK, Follows
  <2>3. SamePast(z, c, z, s, d, z2, s)
    BY <1>17 DEF SamePast
  <2>4. SamePlaces(z, c, z.hs, F, s.frames, d, z2.hs, F, s.frames)
    BY <1>16, <1>18, <1>13, <2>2, <2>3, PastKept
  <2>5. SemAt(d, z2.hs, F, s.frames, f, y, z)
    BY <1>2, <2>1, <2>4, SemKept
  <2>6. /\ SemType(s2, z.d) /\ SameValues(s, s2) /\ Len(s2.frames) = Len(s.frames)
        /\ s2.live \subseteq s.live /\ SemAt(d, z2.hs, F, s2.frames, f, y, z2)
        /\ \A i \in 1..y.m : s2.frames[i] = s.frames[i]
    <3>1. Narrowed(d, z2.hs, F, s, s2, f, y, z2)
      BY <1>7, <2>1, <2>2, <2>5, NarrowFacts
    <3> QED
      BY <1>7, <3>1 DEF Narrowed
  <2>7. SemAt(d, z2.hs, F, s2.frames, WithSw(f, sw), y, z2)
    BY <1>12, <2>6, SemAtAlike
  <2>8. Mirrors(s2, d, F, z.d)
    BY <1>13, <2>1, <2>2, <2>6, MirrorsKept
  <2>9. d.cas.on \ Raised(d.esc, F, z2.n) = z2.w
    BY <1>5, <1>7, <1>13, <2>1, <2>6
  <2>10. TopMeaning(d, WithSw(f, sw), s2, y, z2, F)
    BY <1>7, <1>13, <1>15, <2>1, <2>6, <2>7, <2>8, <2>9 DEF TopMeaning, Placed
  <2>11. 0..Len(y.hs) \subseteq 0..Len(z.hs)
    BY <1>2, FrameRises, BelowRanges
  <2>12. SamePast(y, c, z, s, d, z2, s2)
    BY <1>17, <2>6, <2>11 DEF SamePast
  <2> QED
    BY <2>10, <2>12
<1>19. Kept2(y, c, z, s, B, F, d, z2, s2, B, F)
  <2>1. y.n \in Nat
    BY <1>8 DEF LayoutOK
  <2>2. d.diag = {} => c.diag = {} /\ SamePast(y, c, z, s, d, z2, s2)
    BY <1>13, <1>18
  <2> QED
    BY <1>16, <2>1, <2>2, PastKept
<1>20. TopOK(d, WithSw(f, sw), s2, p, y, z2, Append(V, c.vis), B, F, Len(T) + 1)
  BY <1>2, <1>6, <1>7, <1>11, <1>13, <1>14, <1>15, <1>18 DEF TopOK, N, Pending, Settled
<1>21. Inv(d, T, WithSw(f, sw), s2, p, Y, z2, Append(V, c.vis), B, F)
  BY <1>1, <1>19, <1>20, Retop DEF y
<1>22. Known(d, T, WithSw(f, sw), s2, p)
  BY <1>21 DEF Known
<1>23. Exact(d, s2)
  BY <1>5, <1>13 DEF Exact, h
<1> QED
  BY <1>5, <1>22, <1>23 DEF d, e, h, sw, eh

-----------------------------------------------------------------------------
(* What a statement list does before its next statement.                   *)

LEMMA KnownAgain ==
  ASSUME NEW c, NEW T, NEW f, NEW s, NEW p, Known(c, T, f, s, p)
  PROVE  Known(c, T, WithSw(f, f.sw), s, p)
<1>1. PICK Y, z, V, B, F : Inv(c, T, f, s, p, Y, z, V, B, F)
  BY DEF Known
<1>2. Inv(c, T, WithSw(f, f.sw), s, p, Y, z, V, B, F)
  BY <1>1, SameFrame
<1> QED
  BY <1>2 DEF Known

LEMMA KnownShape ==
  ASSUME NEW c, NEW T, NEW f, NEW s, NEW p, Known(c, T, f, s, p)
  PROVE  /\ c.timing \in {"Implicit", "Initial"} /\ c.cas.on \subseteq Env /\ IsList(T)
         /\ Len(c.esc) \in Nat /\ c.esc \in Seq(Guards) /\ c.broken = FALSE /\ c.nflag \in Nat
         /\ c.diag = {} => s.live \subseteq Env
<1>1. PICK Y, z, V, B, F : Inv(c, T, f, s, p, Y, z, V, B, F)
  BY DEF Known
<1>2. /\ Good(c, z.hs, V, Pending(f), Names(c.nflag, p.nest), B, F) /\ c.broken = FALSE /\ IsList(T)
      /\ c.diag = {} => Meaning(c, T, f, s, Y, z, F)
  BY <1>1, InvFacts DEF Under
<1>3. c \in Contexts(Names(c.nflag, p.nest)) /\ c.cas.on \subseteq Env
  BY <1>2, GoodFacts
<1>4. c.diag = {} => s.live \subseteq Env
  BY <1>2 DEF Meaning, SemType
<1>5. c.timing \in {"Implicit", "Initial"} /\ c.esc \in Seq(Guards) /\ c.nflag \in Nat
  BY <1>3, ContextType
<1> QED
  BY <1>2, <1>3, <1>4, <1>5

(* The innermost flag tells which of the selected valuations have escaped. *)
FlagTells(c, s, r) ==
  /\ r \in Signals /\ (c.timing = "Initial" => r.const = TRUE)
  /\ c.diag = {} => c.cas.on \ r.on = s.live

LEMMA FlagReads ==
  ASSUME NEW c, NEW T, NEW f, NEW s, NEW p, Known(c, T, f, s, p), ~Closing(f)
  PROVE  /\ c.esc = <<>> => Exact(c, s)
         /\ c.esc # <<>> => /\ FlagTells(c, s, Substitute(c, DisableFlag(c)))
                            /\ c.timing # "Initial" => /\ EvaluateOK(c, DisableFlag(c))
                                                       /\ Substitute(c, DisableFlag(c)) = Evaluate(c, DisableFlag(c))
<1>1. PICK Y, z, V, B, F : Inv(c, T, f, s, p, Y, z, V, B, F)
  BY DEF Known
<1> DEFINE N == Names(c.nflag, p.nest)
           n == Len(c.esc)
           v == DisableFlag(c)
<1>2. /\ Good(c, z.hs, V, <<>>, N, B, F) /\ Scoped(c, z, B, F)
      /\ c.diag = {} => Meaning(c, T, f, s, Y, z, F)
  BY <1>1, InvFacts DEF Pending
<1>3. c.diag = {} => z.w = s.live /\ c.cas.on \ Raised(c.esc, F, n) = s.live
  BY <1>2 DEF Meaning, Placed, Scoped
<1>4. c.esc \in Seq(Guards)
  BY <1>2, GoodFacts, ContextType
<1>5. ASSUME c.esc = <<>> PROVE Exact(c, s)
  BY <1>3, <1>5 DEF Raised, Exact
<1>6. ASSUME c.esc # <<>>
      PROVE  /\ FlagTells(c, s, Substitute(c, v))
             /\ c.timing # "Initial" => EvaluateOK(c, v) /\ Substitute(c, v) = Evaluate(c, v)
  <2>1. n \in 1..Len(c.esc) /\ v = c.esc[n].flag /\ n # 0
    BY <1>4, <1>6 DEF DisableFlag, Last
  <2>2. v \in DOMAIN F /\ ~IsStatic(v)
    BY <1>2, <2>1, ScopeFacts
  <2> HIDE DEF n, v
  <2>3. Clear(c, <<>>, c.cas.on)
    BY DEF Clear
  <2>4. /\ Substitute(c, v) \in Signals
        /\ c.timing = "Initial" => Substitute(c, v).const = TRUE
        /\ ReadsRight(c, F, v, c.cas.on)
    BY <1>2, <2>2, <2>3, SubstituteReads
  <2>5. Substitute(c, v).on \cap c.cas.on = F[v] \cap c.cas.on
    BY <2>2, <2>4 DEF ReadsRight, ReadsWire
  <2>6. Raised(c.esc, F, n) = F[v]
    BY <2>1 DEF Raised
  <2>7. c.timing # "Initial" => EvaluateOK(c, v)
    BY <1>2, <2>2, ReadTop
  <2>8. c.timing # "Initial" => Substitute(c, v) = Evaluate(c, v)
    BY <2>2 DEF Substitute
  <2>9. c.diag = {} => c.cas.on \ Substitute(c, v).on = s.live
    BY <1>3, <2>5, <2>6
  <2> QED
    BY <2>4, <2>7, <2>8, <2>9 DEF FlagTells
<1> QED
  BY <1>5, <1>6

(* Clearing a flag that none of the valuations at hand has raised. *)
LEMMA ResetKeeps ==
  ASSUME NEW c, NEW T, NEW f, NEW s, NEW p, Known(c, T, f, s, p), ~Closing(f), Exact(c, s), c.esc # <<>>
  PROVE  LET d == SimpleAssign(c, DisableFlag(c), S0)
         IN  Known(d, T, f, s, p) /\ Exact(d, s) /\ SameControl(c, d)
<1>1. PICK Y, z, V, B, F : Inv(c, T, f, s, p, Y, z, V, B, F)
  BY DEF Known
<1> DEFINE N == Names(c.nflag, p.nest)
           n == Len(c.esc)
           v == DisableFlag(c)
           d == Update(c, v, S0, S1, TRUE)
           J == Assigned(c, F, v, S0, S1)
<1>2. /\ Good(c, z.hs, V, <<>>, N, B, F) /\ Scoped(c, z, B, F) /\ Pending(f) = <<>>
      /\ c.diag = {} => Meaning(c, T, f, s, Y, z, F)
  BY <1>1, InvFacts DEF Pending
<1>3. c.diag = {} => /\ z.w = s.live /\ c.cas.on \ Raised(c.esc, F, n) = s.live
                     /\ SemType(s, z.d) /\ Mirrors(s, c, F, z.d) /\ c.exhausted = FALSE
  BY <1>2 DEF Meaning, Placed, Scoped
<1>4. c.esc \in Seq(Guards) /\ F \in [DOMAIN F -> SUBSET Env] /\ c \in Contexts(N)
  BY <1>2, GoodFacts, ContextType
<1>5. n \in 1..Len(c.esc) /\ v = c.esc[n].flag /\ n # 0
  BY <1>4 DEF DisableFlag, Last
<1>6. v \in DOMAIN F /\ ~IsStatic(v) /\ v \notin StaticVars /\ v \notin LocalsTo(z.d)
      /\ StaticVars \cup LocalsTo(z.d) \subseteq DOMAIN F
      /\ \A i \in 1..Len(c.esc) : c.esc[i].flag \in DOMAIN F
  BY <1>2, <1>5, ScopeFacts
<1> HIDE DEF N, n, v
<1>7. /\ Good(d, z.hs, V, <<>>, N, B, J) /\ Noted(c, d, v, S0, S1, TRUE)
  BY <1>2, <1>6, ConstSignals, UpdateGood
<1>8. J = [F EXCEPT ![v] = Blend(@, {}, c.cas.on \cap Env)]
  BY ConstSignals DEF Assigned
<1> HIDE DEF d, J
<1>9. /\ SameControl(c, d) /\ d.broken = c.broken /\ d.blocking = c.blocking /\ d.nonblocking = c.nonblocking
  BY <1>6, <1>7, ConstSignals DEF Noted, NoteAssignment
<1>10. SameShape(c, d) /\ Names(d.nflag, p.nest) = N
  BY <1>9 DEF SameControl, SameShape, N
<1>11. DOMAIN J = DOMAIN F
  BY <1>8
<1>12. ASSUME d.diag = {}
       PROVE  SameFlags(c.esc, F, J) /\ Mirrors(s, d, J, z.d) /\ d.exhausted = FALSE /\ SemType(s, z.d)
  <2>1. c.diag = {}
    BY <1>9, <1>12 DEF SameControl
  <2>2. Raised(c.esc, F, n) = F[v]
    BY <1>5 DEF Raised
  <2>3. c.cas.on = s.live
    BY <2>1 DEF Exact
  <2>4. c.cas.on \cap F[v] = {} /\ F[v] \subseteq Env
    BY <1>3, <1>4, <1>6, <2>1, <2>2, <2>3
  <2>5. J[v] = F[v]
    BY <1>4, <1>6, <1>8, <2>4 DEF Blend
  <2>6. SameFlags(c.esc, F, J)
    BY <1>6, <1>8, <2>5 DEF SameFlags
  <2>7. \A u \in StaticVars \cup LocalsTo(z.d) : J[u] = F[u]
    BY <1>6, <1>8
  <2>8. z.d \in Nat
    BY <1>1, InvFacts DEF FrameAt, LayoutOK
  <2>9. SameValues(s, s)
    BY DEF SameValues
  <2>10. Mirrors(s, d, J, z.d)
    BY <1>3, <1>9, <2>1, <2>7, <2>8, <2>9, MirrorsKept DEF SameControl
  <2> QED
    BY <1>3, <1>9, <2>1, <2>6, <2>10 DEF SameControl
<1>13. Inv(d, T, f, s, p, Y, z, V, B, J)
  BY <1>1, <1>2, <1>7, <1>10, <1>11, <1>12, KeepStack
<1>14. Known(d, T, f, s, p)
  BY <1>13 DEF Known
<1>15. Exact(d, s)
  BY <1>9 DEF Exact, SameControl
<1> QED
  BY <1>9, <1>14, <1>15 DEF SimpleAssign, d, v
(* The list goes on in a case that exactly the live valuations select.     *)
GuardFacts(c, T, f, s, p, g) ==
  /\ Known(g.c, T, WithSw(f, g.sw), s, p) /\ Exact(g.c, s)
  /\ g.c.esc = c.esc /\ g.c.timing = c.timing /\ g.c.cas.on = s.live

LEMMA GuardedKeeps ==
  ASSUME NEW c, NEW T, NEW f, NEW s, NEW p, Known(c, T, f, s, p), ~Closing(f),
         c.diag = {}, ~Skipped(c)
  PROVE  GuardFacts(c, T, f, s, p, Guarded(c, f.sw))
<1> DEFINE g == [c |-> c, sw |-> f.sw]
           v == DisableFlag(c)
           r == Substitute(c, v)
<1>1. Known(c, T, WithSw(f, f.sw), s, p)
  BY KnownAgain
<1>2. CASE c.esc = <<>>
  <2>1. Guarded(c, f.sw) = g
    BY <1>2 DEF Guarded
  <2>2. Exact(c, s)
    BY <1>2, FlagReads
  <2> QED
    BY <1>1, <2>1, <2>2 DEF GuardFacts, Exact
<1>3. CASE c.esc # <<>>
  <2>1. FlagTells(c, s, r)
    BY <1>3, FlagReads
  <2>2. r \in Signals /\ (c.timing = "Initial" => r.const = TRUE) /\ c.cas.on \ r.on = s.live
    BY <2>1 DEF FlagTells
  <2>3. r # S1
    BY <1>3 DEF Skipped
  <2>4. ASSUME r.const = TRUE PROVE GuardFacts(c, T, f, s, p, Guarded(c, f.sw))
    <3>1. Guarded(c, f.sw) = g
      BY <2>4 DEF Guarded
    <3>2. r.on = {}
      BY <2>2, <2>3, <2>4, SignalType, ConstSignals
    <3>3. Exact(c, s)
      BY <2>2, <3>2 DEF Exact
    <3> QED
      BY <1>1, <3>1, <3>3 DEF GuardFacts, Exact
  <2>5. ASSUME r.const = FALSE PROVE GuardFacts(c, T, f, s, p, Guarded(c, f.sw))
    <3> DEFINE h == OpenSwitch(c, r)
               e == EnterBranch(c, h, S0, FALSE)
               d == SimpleAssign(e.c, v, S0)
               k == WithSw(f, Append(f.sw, e.h))
    <3>1. c.timing # "Initial"
      BY <2>2, <2>5
    <3>2. Hit(h, S0, FALSE) = s.live
      <4>1. h.left = c.cas.on /\ h.signal = r
        BY DEF OpenSwitch
      <4>2. Hit(h, S0, FALSE) = h.left \ h.signal.on
        BY ConstSignals DEF Hit
      <4> QED
        BY <2>2, <4>1, <4>2
    <3>3. Narrows(f, s, s)
      BY DEF Narrows
    <3>4. Known(e.c, T, k, s, p) /\ Exact(e.c, s) /\ SameNotes(c, e.c)
      BY <2>2, <3>1, <3>2, <3>3, DivertKeeps
    <3>5. e.c.esc = c.esc /\ e.c.timing = c.timing /\ DisableFlag(e.c) = v
      BY <3>4 DEF SameNotes, DisableFlag
    <3>6. ~Closing(k)
      BY DEF Closing, WithSw
    <3>7. Guarded(c, f.sw) = [c |-> d, sw |-> Append(f.sw, e.h)]
      BY <1>3, <2>5 DEF Guarded, Divert, Reset
    <3> HIDE DEF e, k, v
    <3>8. LET dd == SimpleAssign(e.c, DisableFlag(e.c), S0)
          IN  Known(dd, T, k, s, p) /\ Exact(dd, s) /\ SameControl(e.c, dd)
      BY <1>3, <3>4, <3>5, <3>6, ResetKeeps
    <3>9. Known(d, T, k, s, p) /\ Exact(d, s) /\ SameControl(e.c, d)
      BY <3>5, <3>8
    <3>10. e.c.cas.on = s.live
      BY <3>4 DEF Exact, SameNotes
    <3> HIDE DEF d
    <3> QED
      BY <3>5, <3>7, <3>9, <3>10 DEF GuardFacts, SameControl, k
  <2> QED
    BY <2>2, <2>4, <2>5, SignalType
<1> QED
  BY <1>2, <1>3
-----------------------------------------------------------------------------
(* The innermost construct is left.                                        *)

LEMMA FrameBases ==
  ASSUME NEW c, NEW B, NEW N, NEW f, NEW y, NEW z, NEW j,
         FrameAt(c.timing, c.esc, B, N, f, y, z, j), NEW V, NEW u, NEW F,
         Good(c, z.hs, V, u, N, B, F), Scoped(c, z, B, F)
  PROVE  /\ f.kind # "loop" => B \in [DOMAIN F -> 0..Len(y.hs)]
         /\ f.kind = "loop" => B \in [DOMAIN F -> 0..(Len(y.hs) + Len(f.lsw))]
<1>1. /\ LayoutOK(y, N) /\ LayoutOK(z, N) /\ Follows(f, y, z) /\ FrameOK(f, y.d, N, c.timing)
      /\ Based(f, y, z, c.esc, B)
  BY DEF FrameAt
<1>2. B \in [DOMAIN F -> 0..Len(z.hs)] /\ Len(z.hs) \in Nat
  BY GoodFacts
<1>3. Len(y.hs) \in Nat /\ z.n \in Nat /\ y.n \in Nat
  BY <1>1 DEF LayoutOK
<1>4. DOMAIN F = Scope(c.esc, z.d) /\ (\A v \in StaticVars : B[v] = 0) /\ z.n = Len(c.esc)
  BY DEF Scoped
<1> DEFINE a == Len(y.hs)
           b == Len(f.lsw)
<1>0. a \in Nat /\ \A v \in DOMAIN F : B[v] \in Nat
  BY <1>2, <1>3
<1>5. ASSUME NEW v \in DOMAIN F, f.kind # "loop" PROVE B[v] <= a
  <2>1. CASE v \in StaticVars
    BY <1>3, <1>4, <2>1
  <2>2. CASE v \in LocalsTo(z.d)
    BY <1>1, <2>2 DEF Based, LocalsTo
  <2>3. CASE v \in {c.esc[i].flag : i \in 1..Len(c.esc)}
    BY <1>1, <1>4, <1>5, <2>3 DEF Based
  <2> QED
    BY <1>4, <2>1, <2>2, <2>3 DEF Scope
<1>6. ASSUME f.kind = "loop"
      PROVE  b \in Nat /\ \A v \in DOMAIN F : B[v] <= a + b
  <2>1. b \in Nat
    BY <1>1, <1>6 DEF FrameOK
  <2>2. z.n = y.n + 2
    BY <1>1, <1>6 DEF Follows, NGuards
  <2>3. ASSUME NEW v \in DOMAIN F PROVE B[v] <= a + b
    <3>0. B[v] \in Nat
      BY <1>2
    <3> HIDE DEF a, b
    <3>1. CASE v \in StaticVars
      <4>1. B[v] = 0
        BY <1>4, <3>1
      <4> QED
        BY <1>0, <2>1, <4>1
    <3>2. CASE v \in LocalsTo(z.d)
      <4>1. B[v] <= a
        BY <1>1, <3>2 DEF Based, LocalsTo, a
      <4> QED
        BY <1>0, <2>1, <3>0, <4>1
    <3>3. CASE v \in {c.esc[i].flag : i \in 1..Len(c.esc)}
      <4>1. PICK i \in 1..(y.n + 2) : v = c.esc[i].flag
        BY <1>4, <2>2, <3>3
      <4>2. CASE i = y.n + 2
        BY <1>1, <1>6, <4>1, <4>2 DEF Based, a, b
      <4>3. CASE i # y.n + 2
        <5>1. i \in 1..(y.n + 1)
          BY <1>3, <4>1, <4>3
        <5>2. B[v] <= a
          BY <1>1, <1>6, <4>1, <5>1 DEF Based, a
        <5> QED
          BY <1>0, <2>1, <3>0, <5>2
      <4> QED
        BY <4>2, <4>3
    <3> QED
      BY <1>4, <3>1, <3>2, <3>3 DEF Scope
  <2> QED
    BY <2>1, <2>3
<1>7. B = [v \in DOMAIN F |-> B[v]]
  BY <1>2
<1> HIDE DEF a, b
<1>8. f.kind # "loop" => \A v \in DOMAIN F : B[v] \in 0..a
  BY <1>0, <1>5
<1>9. f.kind = "loop" => \A v \in DOMAIN F : B[v] \in 0..(a + b)
  BY <1>0, <1>6
<1>10. f.kind # "loop" => B \in [DOMAIN F -> 0..a]
  BY <1>7, <1>8
<1>11. f.kind = "loop" => B \in [DOMAIN F -> 0..(a + b)]
  BY <1>7, <1>9
<1> QED
  BY <1>10, <1>11 DEF a, b

(* Closing the switches sw of a list that is in the level of H.            *)
Rewound(c, H, X, V, N, B, F, d) ==
  /\ Good(d, H, V, <<>>, N, B, F) /\ SameNotes(c, d) /\ SameBelow(d, H, c, X)

LEMMA UnwindAgain ==
  ASSUME NEW c, NEW N, NEW H \in Seq(Helpers(N)), NEW sw \in Seq(Helpers(N)), NEW V,
         NEW F, NEW B \in [DOMAIN F -> 0..Len(H)], NEW X, X = H \o sw, Good(c, X, V, <<>>, N, B, F)
  PROVE  Rewound(c, H, X, SubSeq(V, 1, Len(H)), N, B, F, Unwind(c, sw))
<1> DEFINE d == Unwind(c, sw)
           S == Helpers(N)
<1>1. /\ Good(d, H, SubSeq(V, 1, Len(H)), <<>>, N, B, F)
      /\ SameNotes(c, d) /\ d.cas.on = OnAt(c, H \o sw, Len(H))
  BY UnwindGood
<1> HIDE DEF d
<1>2. H \in Seq(S) /\ sw \in Seq(S)
  OBVIOUS
<1> HIDE DEF S
<1>3. SameBelow(d, H, c, H \o sw)
  BY ONLY <1>1, <1>2, OnPrefix
<1> QED
  BY <1>1, <1>3 DEF Rewound, d

(* What is left of the context and of the semantics after a construct. *)
Left(c, d, y) ==
  /\ d.timing = c.timing /\ d.nflag = c.nflag /\ d.diag = c.diag /\ d.broken = c.broken
  /\ d.blocking = c.blocking /\ d.nonblocking = c.nonblocking /\ d.exhausted = c.exhausted
  /\ d.unrolling = y.l /\ Len(d.esc) = y.n /\ \A i \in 1..y.n : d.esc[i] = c.esc[i]
SemLeft(s, s2, y) ==
  /\ SemType(s2, y.d) /\ SameValues(s, s2) /\ s2.live = y.w
  /\ Len(s2.frames) = y.m /\ \A i \in 1..y.m : s2.frames[i] = s.frames[i]

LEMMA LeaveKeeps ==
  ASSUME NEW c, NEW T, NEW f, NEW s, NEW p, NEW Y, NEW z, NEW V, NEW B, NEW F,
         Inv(c, T, f, s, p, Y, z, V, B, F), Len(T) >= 1,
         NEW d, NEW s2, NEW V2, NEW B2, NEW F2, NEW y, y = Y[Len(T) + 1],
         Good(d, y.hs, V2, <<>>, Names(c.nflag, p.nest), B2, F2),
         SameOn(B, F, B2, F2), DOMAIN F2 = Scope(d.esc, y.d),
         SameBelow(d, y.hs, c, z.hs), Left(c, d, y), c.diag = {} => SemLeft(s, s2, y)
  PROVE  Known(d, Front(T), Last(T), s2, p)
<1> DEFINE N == Names(c.nflag, p.nest)
<1>1. /\ Good(c, z.hs, V, Pending(f), N, B, F)
      /\ FrameAt(c.timing, c.esc, B, N, f, y, z, Len(T) + 1)
      /\ Scoped(c, z, B, F) /\ c.broken = FALSE /\ (c.diag = {} => Meaning(c, T, f, s, Y, z, F))
  BY InvFacts
<1>2. /\ d.timing = c.timing /\ d.nflag = c.nflag /\ d.diag = c.diag /\ d.broken = c.broken
      /\ d.blocking = c.blocking /\ d.nonblocking = c.nonblocking /\ d.exhausted = c.exhausted
      /\ d.unrolling = y.l /\ Len(d.esc) = y.n /\ \A i \in 1..y.n : d.esc[i] = c.esc[i]
  BY DEF Left
<1> HIDE DEF N
<1>3. LayoutOK(y, N) /\ LayoutOK(z, N) /\ y.n \in Nat /\ y.d \in Nat /\ z.d \in Nat /\ y.n <= z.n /\ y.d <= z.d
      /\ Below(y, z)
  <2>1. LayoutOK(y, N) /\ LayoutOK(z, N) /\ Below(y, z)
    BY <1>1, FrameRises
  <2> QED
    BY <2>1 DEF LayoutOK, Below
<1>4. /\ z.n = Len(c.esc) /\ Numbered(c.esc, c.nflag) /\ \A v \in StaticVars : B[v] = 0
  BY <1>1 DEF Scoped
<1>5. c \in Contexts(N) /\ d \in Contexts(N) /\ c.nflag \in Nat
  BY <1>1, GoodFacts, ContextType DEF N
<1>6. 1..y.n \subseteq 1..Len(c.esc) /\ 1..y.d \subseteq 1..z.d
  BY <1>3, <1>4, BelowRanges
<1>7. Numbered(d.esc, d.nflag)
  BY <1>2, <1>4, <1>6, ZenonT(60) DEF Numbered
<1>8. \A v \in Scope(d.esc, y.d) : F2[v] = F[v] /\ B2[v] = B[v]
  BY DEF SameOn
<1>9. Scoped(d, y, B2, F2)
  BY <1>2, <1>4, <1>7, <1>8 DEF Scoped, Scope
<1>10. Undisturbed(y, c, B, F, d, B2, F2)
  <2>1. \A i \in 1..y.n : c.esc[i].flag \in Scope(d.esc, y.d)
    BY <1>2 DEF Scope
  <2>2. \A i \in 1..y.d : Local(i) \in Scope(d.esc, y.d)
    BY DEF Scope, LocalsTo
  <2>3. c.nflag <= d.nflag /\ y.n <= Len(d.esc) /\ Len(d.esc) \in Nat /\ d.nflag \in Nat
    BY <1>2, <1>3, <1>5
  <2> QED
    BY <1>2, <1>5, <1>8, <2>1, <2>2, <2>3 DEF Undisturbed
<1>11. \A k \in 0..Len(y.hs) : OnAt(d, y.hs, k) = OnAt(c, z.hs, k)
  BY DEF SameBelow
<1>12. d.diag = {} => c.diag = {} /\ SamePast(y, c, z, s, d, y, s2)
  <2>1. ASSUME d.diag = {} PROVE c.diag = {} /\ \A i \in 1..y.m : s2.frames[i] = s.frames[i]
    BY <1>2, <2>1 DEF SemLeft
  <2> QED
    BY <1>11, <2>1 DEF SamePast
<1>13. /\ Kept2(y, c, z, s, B, F, d, y, s2, B2, F2)
       /\ d.diag = {} => \A n \in 0..y.n : Raised(d.esc, F2, n) = Raised(c.esc, F, n)
  BY <1>3, <1>10, <1>12, PastKept
<1>14. ASSUME d.diag = {}
       PROVE  /\ SemType(s2, y.d) /\ Mirrors(s2, d, F2, y.d) /\ y.m = Len(s2.frames)
              /\ y.w = s2.live /\ d.exhausted = FALSE
              /\ d.cas.on \ Raised(d.esc, F2, y.n) = y.w
  <2>1. c.diag = {}
    BY <1>2, <1>14
  <2>2. /\ SemType(s, z.d) /\ Mirrors(s, c, F, z.d) /\ c.exhausted = FALSE
        /\ OnAt(c, z.hs, Len(y.hs)) \ Raised(c.esc, F, y.n) = y.w
    BY <1>1, <2>1 DEF Meaning, SemAt
  <2>3. SemType(s2, y.d) /\ SameValues(s, s2) /\ s2.live = y.w /\ Len(s2.frames) = y.m
    BY <2>1 DEF SemLeft
  <2>4. \A v \in StaticVars \cup LocalsTo(y.d) : F2[v] = F[v]
    BY <1>8 DEF Scope
  <2>5. Mirrors(s2, d, F2, y.d)
    BY <1>2, <1>3, <2>2, <2>3, <2>4, MirrorsKept
  <2>6. Len(y.hs) \in 0..Len(y.hs) /\ y.n \in 0..y.n
    BY <1>3 DEF LayoutOK
  <2>7. OnAt(d, y.hs, Len(y.hs)) = d.cas.on
    BY <1>3 DEF OnAt, LayoutOK
  <2>8. d.cas.on \ Raised(d.esc, F2, y.n) = y.w
    BY <1>11, <1>13, <1>14, <2>2, <2>6, <2>7
  <2> QED
    BY <1>2, <2>2, <2>3, <2>5, <2>8
<1>15. Bared(d, T, s2, p, Y, V2, B2, F2)
  BY <1>1, <1>2, <1>9, <1>14 DEF Bared, N
<1>16. Inv(d, Front(T), Last(T), s2, p, Y, Y[Len(T) + 1], V2, B2, F2)
  BY <1>13, <1>15, Pop
<1> QED
  BY <1>16 DEF Known
LEMMA EndBlockKeeps ==
  ASSUME NEW c, NEW T, NEW f, NEW s, NEW p, Known(c, T, f, s, p), f.kind = "block", Len(T) >= 1
  PROVE  Known(Unwind(c, f.sw), Front(T), Last(T), s, p) /\ Unwind(c, f.sw).timing = c.timing
<1>1. PICK Y, z, V, B, F : Inv(c, T, f, s, p, Y, z, V, B, F)
  BY DEF Known
<1> DEFINE N == Names(c.nflag, p.nest)
           y == Y[Len(T) + 1]
           d == Unwind(c, f.sw)
           V2 == SubSeq(V, 1, Len(y.hs))
<1>2. /\ Good(c, z.hs, V, <<>>, N, B, F) /\ FrameAt(c.timing, c.esc, B, N, f, y, z, Len(T) + 1)
      /\ Scoped(c, z, B, F) /\ (c.diag = {} => Meaning(c, T, f, s, Y, z, F))
  BY <1>1, InvFacts DEF Pending, Closing
<1> HIDE DEF N, y, d, V2
<1>3. /\ LayoutOK(y, N) /\ z.hs = y.hs \o f.sw /\ z.n = y.n /\ z.m = y.m /\ z.d = y.d /\ z.l = y.l
      /\ f.sw \in Seq(Helpers(N)) /\ y.hs \in Seq(Helpers(N))
  <2>1. LayoutOK(y, N) /\ Follows(f, y, z) /\ f.sw \in Seq(Helpers(N))
    BY <1>2 DEF FrameAt, FrameOK
  <2> QED
    BY <2>1 DEF Follows, LayoutOK, Opened, NGuards, NParks, NCalls, NLoops
<1>4. B \in [DOMAIN F -> 0..Len(y.hs)]
  BY <1>2, FrameBases
<1>5. Rewound(c, y.hs, z.hs, V2, N, B, F, d)
  BY <1>2, <1>3, <1>4, UnwindAgain DEF d, V2
<1>6. Good(d, y.hs, V2, <<>>, N, B, F) /\ SameNotes(c, d) /\ SameBelow(d, y.hs, c, z.hs)
  BY <1>5 DEF Rewound
<1>7. z.n = Len(c.esc) /\ z.l = c.unrolling /\ DOMAIN F = Scope(c.esc, z.d)
  BY <1>2 DEF Scoped
<1>8. Left(c, d, y)
  BY <1>3, <1>6, <1>7 DEF SameNotes, Left
<1>9. ASSUME c.diag = {} PROVE SemLeft(s, s, y)
  <2>1. SemType(s, z.d) /\ z.m = Len(s.frames) /\ z.w = s.live /\ z.w = y.w
    BY <1>2, <1>9 DEF Meaning, SemAt, y
  <2> QED
    BY <1>3, <2>1 DEF SemLeft, SameValues
<1>10. SameOn(B, F, B, F) /\ DOMAIN F = Scope(d.esc, y.d)
  BY <1>3, <1>6, <1>7 DEF SameOn, SameNotes
<1>11. Known(d, Front(T), Last(T), s, p)
  BY <1>1, <1>6, <1>8, <1>9, <1>10, LeaveKeeps DEF y, N
<1>12. d.timing = c.timing
  BY <1>6 DEF SameNotes
<1> QED
  BY <1>11, <1>12 DEF d

-----------------------------------------------------------------------------
(* A construct is entered.                                                 *)

(* The layout above frame g, which has no switch open yet. *)
Over0(g, z, w) ==
  Layout(z.hs, z.n + NGuards(g.kind), z.m + NParks(g.kind), z.d + NCalls(g.kind),
         z.l + NLoops(g.kind), w)

LEMMA Over0Facts ==
  ASSUME NEW N, NEW z, LayoutOK(z, N), NEW g, Opened(g) = <<>>, NEW w
  PROVE  LET x == Over0(g, z, w)
         IN  /\ LayoutOK(x, N) /\ Follows(g, z, x) /\ x.hs = z.hs /\ x.w = w
             /\ x.n = z.n + NGuards(g.kind) /\ x.m = z.m + NParks(g.kind)
             /\ x.d = z.d + NCalls(g.kind) /\ x.l = z.l + NLoops(g.kind)
<1> DEFINE x == Over0(g, z, w)
<1>1. /\ x.hs = z.hs /\ x.w = w
      /\ x.n = z.n + NGuards(g.kind) /\ x.m = z.m + NParks(g.kind)
      /\ x.d = z.d + NCalls(g.kind) /\ x.l = z.l + NLoops(g.kind)
  BY DEF Over0, Layout
<1>2. z.hs \in Seq(Helpers(N)) /\ z.n \in Nat /\ z.m \in Nat /\ z.d \in Nat /\ z.l \in Nat
  BY DEF LayoutOK
<1>3. /\ NGuards(g.kind) \in Nat /\ NParks(g.kind) \in Nat /\ NCalls(g.kind) \in Nat
      /\ NLoops(g.kind) \in Nat
  BY DEF NGuards, NParks, NCalls, NLoops
<1> HIDE DEF x
<1>4. LayoutOK(x, N)
  <2> DEFINE a == NGuards(g.kind)
             b == NParks(g.kind)
             m == NCalls(g.kind)
             l == NLoops(g.kind)
  <2>1. a \in Nat /\ b \in Nat /\ m \in Nat /\ l \in Nat
    BY <1>3
  <2>2. x.n = z.n + a /\ x.m = z.m + b /\ x.d = z.d + m /\ x.l = z.l + l
    BY <1>1
  <2> HIDE DEF a, b, m, l
  <2>3. z.n + a \in Nat /\ z.m + b \in Nat /\ z.d + m \in Nat /\ z.l + l \in Nat
    <3>1. \A i, k \in Nat : i + k \in Nat
      OBVIOUS
    <3>2. z.n \in Nat /\ z.m \in Nat /\ z.d \in Nat /\ z.l \in Nat
      BY <1>2
    <3> QED
      BY <2>1, <3>1, <3>2
  <2>4. x.n \in Nat /\ x.m \in Nat /\ x.d \in Nat /\ x.l \in Nat
    BY <2>2, <2>3
  <2> QED
    BY <1>1, <1>2, <2>4 DEF LayoutOK
<1>5. z.hs \o <<>> = z.hs
  BY <1>2
<1>6. Follows(g, z, x)
  BY <1>1, <1>5 DEF Follows
<1> QED
  BY <1>1, <1>4, <1>6 DEF x

(* What the context keeps, and what it gains: the guards of g. *)
Gained(c, d, z, x, g) ==
  /\ d.timing = c.timing /\ c.nflag <= d.nflag /\ d.cas.on = c.cas.on /\ d.broken = FALSE
  /\ Len(d.esc) = x.n /\ (\A i \in 1..z.n : d.esc[i] = c.esc[i]) /\ Guarding(g, z, d.esc)
  /\ d.unrolling = x.l /\ Numbered(d.esc, d.nflag)
SameOld(B, F, d, B2, F2) ==
  /\ \A v \in DOMAIN F : v \in DOMAIN F2 /\ B2[v] = B[v]
  /\ d.diag = {} => \A v \in DOMAIN F : F2[v] = F[v]
SemGained(c, d, s, s2, F2, g, z, x) ==
  /\ c.diag = {} /\ SemType(s2, x.d) /\ Mirrors(s2, d, F2, x.d) /\ Len(s2.frames) = x.m
  /\ (\A i \in 1..z.m : s2.frames[i] = s.frames[i])
  /\ SemAt(d, z.hs, F2, s2.frames, g, z, x) /\ Placed(d, g, F2, x) /\ d.exhausted = FALSE

LEMMA PushKeeps ==
  ASSUME NEW c, NEW T, NEW f, NEW s, NEW p, NEW Y, NEW z, NEW V, NEW B, NEW F,
         Inv(c, T, f, s, p, Y, z, V, B, F), Inner(f),
         NEW d, NEW g, NEW s2, NEW B2, NEW F2, NEW x, x = Over0(g, z, s2.live), Opened(g) = <<>>,
         Good(d, z.hs, V, Pending(g), Names(d.nflag, p.nest), B2, F2),
         FrameOK(g, z.d, Names(d.nflag, p.nest), d.timing), Settled(d, g),
         Gained(c, d, z, x, g), SameOld(B, F, d, B2, F2), DOMAIN F2 = Scope(d.esc, x.d),
         d.diag = {} => SemGained(c, d, s, s2, F2, g, z, x)
  PROVE  Inv(d, Append(T, f), g, s2, p, Above(Y, Len(T), z), x, V, B2, F2)
<1> DEFINE N == Names(c.nflag, p.nest)
           M == Names(d.nflag, p.nest)
           y == Y[Len(T) + 1]
<1>1. /\ Good(c, z.hs, V, Pending(f), N, B, F)
      /\ FrameAt(c.timing, c.esc, B, N, f, y, z, Len(T) + 1)
      /\ Scoped(c, z, B, F) /\ (c.diag = {} => Meaning(c, T, f, s, Y, z, F))
  BY InvFacts
<1>2. /\ d.timing = c.timing /\ c.nflag <= d.nflag /\ d.cas.on = c.cas.on /\ d.broken = FALSE
      /\ Len(d.esc) = x.n /\ (\A i \in 1..z.n : d.esc[i] = c.esc[i]) /\ Guarding(g, z, d.esc)
      /\ d.unrolling = x.l /\ Numbered(d.esc, d.nflag)
  BY DEF Gained
<1> HIDE DEF N, M
<1>3. c \in Contexts(N) /\ d \in Contexts(M) /\ c.nflag \in Nat /\ d.nflag \in Nat /\ Len(d.esc) \in Nat
  <2>1. c \in Contexts(N) /\ d \in Contexts(M)
    BY <1>1, GoodFacts DEF M
  <2>2. d.esc \in Seq(Guards)
    BY <2>1, ContextType
  <2> QED
    BY <2>1, <2>2, ContextType
<1>4. N \subseteq M
  BY <1>2, <1>3, NamesGrow DEF N, M
<1>5. LayoutOK(y, N) /\ LayoutOK(z, N) /\ Below(y, z) /\ y.d < Len(T) + 1 /\ Follows(f, y, z)
  BY <1>1, FrameRises DEF FrameAt
<1>6. LayoutOK(z, M)
  <2>1. Helpers(N) \subseteq Helpers(M)
    BY <1>4, ContextsGrow
  <2> QED
    BY <1>5, <2>1 DEF LayoutOK
<1>7. /\ LayoutOK(x, M) /\ Follows(g, z, x) /\ x.hs = z.hs /\ x.w = s2.live
      /\ x.n = z.n + NGuards(g.kind) /\ x.m = z.m + NParks(g.kind)
      /\ x.d = z.d + NCalls(g.kind) /\ x.l = z.l + NLoops(g.kind)
  BY <1>6, Over0Facts
<1>8. z.n \in Nat /\ z.d \in Nat /\ z.m \in Nat /\ x.n \in Nat /\ x.d \in Nat /\ Len(z.hs) \in Nat
  BY <1>6, <1>7 DEF LayoutOK
<1>9. z.n = Len(c.esc) /\ DOMAIN F = Scope(c.esc, z.d) /\ \A v \in StaticVars : B[v] = 0
  BY <1>1 DEF Scoped
<1>10. B2 \in [DOMAIN F2 -> 0..Len(z.hs)]
  BY GoodFacts
<1>11. \A v \in DOMAIN F2 : B2[v] <= Len(z.hs)
  BY <1>8, <1>10
<1>12. Based(g, z, x, d.esc, B2)
  <2>1. \A i \in 1..x.n : d.esc[i].flag \in DOMAIN F2
    BY <1>2 DEF Scope
  <2>2. \A i \in 1..x.d : Local(i) \in DOMAIN F2
    BY DEF Scope, LocalsTo
  <2>3. ASSUME g.kind = "loop"
        PROVE  x.n = z.n + 2 /\ g.lsw = <<>>
    <3>1. g.lsw \in Seq(Helpers(M)) /\ g.sw \in Seq(Helpers(M)) /\ g.lsw \o g.sw = <<>>
      BY <2>3 DEF FrameOK, Opened, M
    <3> QED
      BY <1>7, <2>3, <3>1 DEF NGuards
  <2>4. ASSUME g.kind = "loop"
        PROVE  z.n + 1 \in 1..x.n /\ z.n + 2 \in 1..x.n /\ 1..(z.n + 1) \subseteq 1..x.n /\ Len(g.lsw) = 0
    BY <1>8, <2>3, <2>4
  <2>5. \A i \in 1..x.n : B2[d.esc[i].flag] <= Len(z.hs)
    BY <1>11, <2>1
  <2>6. ASSUME g.kind = "loop" PROVE B2[d.esc[z.n + 2].flag] <= Len(z.hs) + Len(g.lsw)
    <3> DEFINE k == z.n + 2
               a == Len(z.hs)
    <3>1. k \in 1..x.n /\ Len(g.lsw) = 0 /\ a \in Nat
      BY <1>8, <2>4, <2>6
    <3> HIDE DEF k
    <3>2. B2[d.esc[k].flag] <= a
      BY <2>5, <3>1
    <3>3. a + 0 = a
      BY <3>1
    <3> QED
      BY <3>1, <3>2, <3>3 DEF k
  <2>7. \A i \in 1..(IF g.kind = "loop" THEN z.n + 1 ELSE x.n) : B2[d.esc[i].flag] <= Len(z.hs)
    BY <2>4, <2>5
  <2> QED
    BY <1>11, <2>2, <2>6, <2>7 DEF Based
<1>13. Len(T) \in Nat /\ z.d < Len(T) + 2
  <2>1. IsList(T)
    BY InvFacts DEF Under
  <2>2. Len(T) \in Nat
    BY <2>1, ListFacts
  <2>3. y.d \in Nat /\ z.d = y.d + NCalls(f.kind) /\ NCalls(f.kind) \in {0, 1}
    BY <1>5 DEF LayoutOK, Follows, NCalls
  <2> QED
    BY <1>5, <1>8, <2>2, <2>3
<1>14. FrameAt(d.timing, d.esc, B2, M, g, z, x, Len(T) + 2)
  <2>1. x.n <= Len(d.esc) /\ Len(T) + 2 # 1
    BY <1>2, <1>3, <1>13
  <2> QED
    BY <1>2, <1>6, <1>7, <1>12, <1>13, <2>1 DEF FrameAt, M
<1>15. Scoped(d, x, B2, F2)
  <2>1. \A v \in StaticVars : v \in DOMAIN F
    BY <1>9 DEF Scope
  <2>2. \A v \in StaticVars : B2[v] = 0
    BY <1>9, <2>1 DEF SameOld
  <2> QED
    BY <1>2, <2>2 DEF Scoped
<1>16. Undisturbed(z, c, B, F, d, B2, F2)
  <2>1. \A i \in 1..z.n : c.esc[i].flag \in DOMAIN F
    BY <1>9 DEF Scope
  <2>2. \A i \in 1..z.d : Local(i) \in DOMAIN F
    BY <1>9 DEF Scope, LocalsTo
  <2>3. z.n <= Len(d.esc)
    BY <1>2, <1>7, <1>8 DEF NGuards
  <2> QED
    BY <1>2, <1>3, <2>1, <2>2, <2>3 DEF Undisturbed, SameOld
<1>17. \A k \in 0..Len(z.hs) : OnAt(d, x.hs, k) = OnAt(c, z.hs, k)
  BY <1>2, <1>7 DEF OnAt
<1>18. ASSUME d.diag = {}
       PROVE  c.diag = {} /\ SamePast(z, c, z, s, d, x, s2) /\ TopMeaning(d, g, s2, z, x, F2)
  <2>1. /\ c.diag = {} /\ SemType(s2, x.d) /\ Mirrors(s2, d, F2, x.d) /\ Len(s2.frames) = x.m
        /\ (\A i \in 1..z.m : s2.frames[i] = s.frames[i])
        /\ SemAt(d, z.hs, F2, s2.frames, g, z, x) /\ Placed(d, g, F2, x) /\ d.exhausted = FALSE
    BY <1>18 DEF SemGained
  <2> QED
    BY <1>7, <1>17, <2>1 DEF SamePast, TopMeaning
<1>19. Kept2(z, c, z, s, B, F, d, x, s2, B2, F2)
  BY <1>8, <1>16, <1>18, PastKept
<1>20. TopOK(d, g, s2, p, z, x, V, B2, F2, Len(T) + 2)
  BY <1>2, <1>7, <1>14, <1>15, <1>18 DEF TopOK, M
<1> QED
  BY <1>19, <1>20, Push
(* A block, or a switch none of whose branches is open. *)
PlainStart(s, s2, g, m) ==
  /\ SameValues(s, s2) /\ Len(s2.frames) = m + NParks(g.kind)
  /\ (\A i \in 1..m : s2.frames[i] = s.frames[i])
  /\ g.kind = "block" => s2.live = s.live
  /\ g.kind = "select" => Closing(g) /\ SelectAt(s2.frames[m + 1], g.h, s.live, {}) /\ s2.live = {}

LEMMA PushPlain ==
  ASSUME NEW c, NEW T, NEW f, NEW s, NEW p, NEW Y, NEW z, NEW V, NEW B, NEW F,
         Inv(c, T, f, s, p, Y, z, V, B, F), Inner(f),
         NEW d, SameNotes(c, d), d.cas.on = c.cas.on,
         NEW g, g.kind \in {"block", "select"}, Opened(g) = <<>>, NEW s2,
         Good(d, z.hs, V, Pending(g), Names(c.nflag, p.nest), B, F), Settled(d, g),
         FrameOK(g, z.d, Names(c.nflag, p.nest), c.timing),
         c.diag = {} => SemType(s2, z.d) /\ PlainStart(s, s2, g, Len(s.frames))
  PROVE  Known(d, Append(T, f), g, s2, p)
<1> DEFINE N == Names(c.nflag, p.nest)
           y == Y[Len(T) + 1]
           x == Over0(g, z, s2.live)
<1>1. /\ Good(c, z.hs, V, Pending(f), N, B, F)
      /\ FrameAt(c.timing, c.esc, B, N, f, y, z, Len(T) + 1)
      /\ Scoped(c, z, B, F) /\ c.broken = FALSE /\ (c.diag = {} => Meaning(c, T, f, s, Y, z, F))
  BY InvFacts
<1> HIDE DEF N, x, y
<1>2. LayoutOK(z, N) /\ z.n \in Nat /\ z.d \in Nat /\ z.m \in Nat /\ z.l \in Nat
  BY <1>1 DEF FrameAt, LayoutOK
<1>3. /\ LayoutOK(x, N) /\ Follows(g, z, x) /\ x.hs = z.hs /\ x.w = s2.live
      /\ x.n = z.n /\ x.m = z.m + NParks(g.kind) /\ x.d = z.d /\ x.l = z.l
  <2>1. /\ LayoutOK(x, N) /\ Follows(g, z, x) /\ x.hs = z.hs /\ x.w = s2.live
        /\ x.n = z.n + NGuards(g.kind) /\ x.m = z.m + NParks(g.kind)
        /\ x.d = z.d + NCalls(g.kind) /\ x.l = z.l + NLoops(g.kind)
    BY <1>2, Over0Facts DEF x
  <2>2. NGuards(g.kind) = 0 /\ NCalls(g.kind) = 0 /\ NLoops(g.kind) = 0
    BY DEF NGuards, NCalls, NLoops
  <2> QED
    BY <1>2, <2>1, <2>2
<1>4. /\ d.timing = c.timing /\ d.esc = c.esc /\ d.nflag = c.nflag /\ d.unrolling = c.unrolling
      /\ d.diag = c.diag /\ d.broken = c.broken /\ d.exhausted = c.exhausted
      /\ d.blocking = c.blocking /\ d.nonblocking = c.nonblocking
  BY DEF SameNotes
<1>5. /\ z.n = Len(c.esc) /\ z.l = c.unrolling /\ Numbered(c.esc, c.nflag) /\ DOMAIN F = Scope(c.esc, z.d)
  BY <1>1 DEF Scoped
<1>6. Gained(c, d, z, x, g)
  <2>1. c.nflag \in Nat
    BY <1>1, GoodFacts, ContextType
  <2> QED
    BY <1>1, <1>3, <1>4, <1>5, <2>1 DEF Gained, Guarding
<1>7. SameOld(B, F, d, B, F)
  BY DEF SameOld
<1>8. ASSUME d.diag = {} PROVE SemGained(c, d, s, s2, F, g, z, x)
  <2>1. c.diag = {}
    BY <1>4, <1>8
  <2>2. /\ SemType(s, z.d) /\ Mirrors(s, c, F, z.d) /\ z.m = Len(s.frames) /\ z.w = s.live
        /\ Placed(c, f, F, z) /\ c.exhausted = FALSE
    BY <1>1, <2>1 DEF Meaning
  <2>3. c.cas.on \ Raised(c.esc, F, z.n) = z.w
    BY <2>2 DEF Placed, Inner, Closing
  <2>4. SemType(s2, z.d) /\ PlainStart(s, s2, g, z.m)
    BY <2>1, <2>2
  <2>5. Mirrors(s2, d, F, z.d)
    BY <1>2, <1>4, <2>2, <2>4, MirrorsKept DEF PlainStart
  <2>6. OnAt(d, z.hs, Len(z.hs)) = c.cas.on
    <3>1. ~(Len(z.hs) < Len(z.hs))
      BY <1>2 DEF LayoutOK
    <3> QED
      BY <3>1 DEF OnAt
  <2>7. OnAt(d, z.hs, Len(z.hs)) \ Raised(d.esc, F, z.n) = z.w
    BY <1>4, <2>3, <2>6
  <2>8. g.kind = "block" => x.w = z.w
    BY <1>3, <2>2, <2>4 DEF PlainStart
  <2>9. g.kind = "select" => SelectAt(s2.frames[x.m], g.h, z.w, x.w)
    <3>1. g.kind = "select" => x.m = z.m + 1
      BY <1>3 DEF NParks
    <3> QED
      BY <1>3, <2>2, <2>4, <3>1 DEF PlainStart
  <2>10. SemAt(d, z.hs, F, s2.frames, g, z, x)
    BY <2>7, <2>8, <2>9 DEF SemAt
  <2>11. Placed(d, g, F, x)
    <3>1. g.kind = "block" => ~Closing(g)
      BY DEF Closing
    <3> QED
      BY <1>3, <1>4, <2>3, <2>4, <2>8, <3>1 DEF Placed, PlainStart
  <2>12. x.m = Len(s2.frames) /\ \A i \in 1..z.m : s2.frames[i] = s.frames[i]
    BY <1>3, <2>4 DEF PlainStart
  <2> QED
    BY <1>3, <1>4, <2>1, <2>2, <2>4, <2>5, <2>10, <2>11, <2>12 DEF SemGained
<1>9. /\ Good(d, z.hs, V, Pending(g), Names(d.nflag, p.nest), B, F)
      /\ FrameOK(g, z.d, Names(d.nflag, p.nest), d.timing) /\ DOMAIN F = Scope(d.esc, x.d)
  BY <1>3, <1>4, <1>5
<1>10. Inv(d, Append(T, f), g, s2, p, Above(Y, Len(T), z), x, V, B, F)
  BY <1>6, <1>7, <1>8, <1>9, PushKeeps DEF x
<1> QED
  BY <1>10 DEF Known

LEMMA BlockKeeps ==
  ASSUME NEW c, NEW T, NEW f, NEW s, NEW p, Known(c, T, f, s, p), Inner(f)
  PROVE  Known(c, Append(T, f), [kind |-> "block", sw |-> <<>>], s, p)
<1>1. PICK Y, z, V, B, F : Inv(c, T, f, s, p, Y, z, V, B, F)
  BY DEF Known
<1> DEFINE g == [kind |-> "block", sw |-> <<>>]
<1>2. /\ Good(c, z.hs, V, Pending(f), Names(c.nflag, p.nest), B, F) /\ ~Closing(f)
      /\ c.diag = {} => Meaning(c, T, f, s, Y, z, F)
  BY <1>1, InvFacts DEF Inner, Closing
<1>3. g.kind = "block" /\ Opened(g) = <<>> /\ Pending(g) = Pending(f) /\ Settled(c, g)
      /\ FrameOK(g, z.d, Names(c.nflag, p.nest), c.timing) /\ g.kind \in {"block", "select"}
  BY <1>2 DEF Opened, Pending, Closing, Settled, FrameOK
<1> HIDE DEF g
<1>4. SameNotes(c, c)
  BY DEF SameNotes
<1>5. ASSUME c.diag = {} PROVE SemType(s, z.d) /\ PlainStart(s, s, g, Len(s.frames))
  <2>1. SemType(s, z.d)
    BY <1>2, <1>5 DEF Meaning
  <2>2. Len(s.frames) \in Nat
    BY <2>1, FramesType
  <2> QED
    BY <1>3, <2>1, <2>2 DEF PlainStart, SameValues, NParks
<1> QED
  BY <1>1, <1>2, <1>3, <1>4, <1>5, PushPlain DEF g

(* A switch is opened on the value of x. *)
LEMMA SwitchKeeps ==
  ASSUME NEW c, NEW T, NEW f, NEW s, NEW p, Known(c, T, f, s, p), Inner(f), Exact(c, s),
         c.timing # "Initial", NEW x \in InScope(T, f), NEW stmt
  PROVE  LET h == OpenSwitch(c, Eval(c, x))
         IN  Known([c EXCEPT !.cas = h.parent], Append(T, f), Select(stmt, h, FALSE), SelectBegin(s, x), p)
<1>1. PICK Y, z, V, B, F : Inv(c, T, f, s, p, Y, z, V, B, F)
  BY DEF Known
<1> DEFINE N == Names(c.nflag, p.nest)
           r == Eval(c, x)
           h == OpenSwitch(c, r)
           d == [c EXCEPT !.cas = h.parent]
           g == Select(stmt, h, FALSE)
           s2 == SelectBegin(s, x)
<1>2. /\ Good(c, z.hs, V, <<>>, N, B, F) /\ ~Closing(f) /\ z.d \in Nat /\ Len(s.frames) = Len(s.frames)
      /\ c.diag = {} => Meaning(c, T, f, s, Y, z, F)
  BY <1>1, InvFacts DEF Inner, Closing, Pending, FrameAt, LayoutOK
<1>3. r \in Signals /\ (c.diag = {} => r.on \cap c.cas.on = Truth(s, x) \cap c.cas.on)
  <2>1. Known(c, T, f, s, p) /\ x \in InScope(T, f) /\ ~Closing(f)
    BY <1>2
  <2>2. Evaluates(c, s, x, Eval(c, x), c.cas.on)
    BY ONLY <2>1, KnownEval
  <2> QED
    BY <2>2 DEF Evaluates
<1>4. z.d = Calls(Append(T, f)) /\ x \in Expressions(StaticVars \cup LocalsTo(z.d))
  <2>1. ScopeIs(T, f, z, F)
    BY <1>1, KnownScope
  <2> QED
    BY <2>1 DEF ScopeIs
<1> HIDE DEF N, r
<1>5. c \in Contexts(N)
  BY <1>2, GoodFacts
<1>6. /\ h \in Helpers(N) /\ Fits(h, {}) /\ h.parent.on = c.cas.on /\ h.updates = <<>>
      /\ h.left = c.cas.on /\ h.signal = r
  BY <1>3, <1>5, OpenType
<1> HIDE DEF h
<1>7. d \in Contexts(N) /\ SameNotes(c, d) /\ SameStore(c, d) /\ d.cas.on = c.cas.on /\ d.cas = h.parent
  <2>1. h.parent \in Cases
    BY <1>6 DEF Helpers
  <2> QED
    BY <1>5, <1>6, <2>1 DEF Contexts, SameNotes, SameStore
<1> HIDE DEF d
<1>8. Good(d, z.hs, V, <<>>, N, B, F)
  <2>1. \A v \in N : IsStatic(v) => v \in StaticVars
    BY <1>2, GoodFacts
  <2> QED
    BY <1>2, <1>7, <2>1, SameLevels
<1>9. /\ g.kind = "select" /\ Opened(g) = <<>> /\ Closing(g) /\ Pending(g) = <<>> /\ g.h = h
      /\ g.kind \in {"block", "select"}
      /\ Settled(d, g) /\ FrameOK(g, z.d, N, c.timing)
  BY <1>6, <1>7 DEF Select, Opened, Closing, Pending, Settled, FrameOK
<1> HIDE DEF g, s2
<1>10. ASSUME c.diag = {} PROVE SemType(s2, z.d) /\ PlainStart(s, s2, g, Len(s.frames))
  <2>1. SemType(s, z.d)
    BY <1>2, <1>10 DEF Meaning
  <2>2. Len(s.frames) \in Nat /\ Truth(s, x) \in SUBSET Env
    BY <1>4, <2>1, FramesType, TruthType
  <2> DEFINE k == [kind |-> "select", sel |-> Truth(s, x), rest |-> s.live, done |-> {}]
  <2>3. LET t == SelectBegin(s, x)
        IN  SemType(t, z.d) /\ SameValues(s, t) /\ t.live = {} /\ Topped(s, t, k)
    BY <1>2, <2>1, <2>2, SelectFields
  <2>4. k.kind = "select" /\ k.rest = s.live /\ k.done = {} /\ k.sel = Truth(s, x)
    OBVIOUS
  <2> HIDE DEF k
  <2>5. /\ SemType(s2, z.d) /\ SameValues(s, s2) /\ s2.live = {}
        /\ Len(s2.frames) = Len(s.frames) + 1 /\ s2.frames[Len(s.frames) + 1] = k
        /\ \A i \in 1..Len(s.frames) : s2.frames[i] = s.frames[i]
    BY <2>3 DEF s2, Topped
  <2>6. c.cas.on = s.live /\ r.on \cap c.cas.on = Truth(s, x) \cap c.cas.on
    BY <1>3, <1>10 DEF Exact
  <2>7. SelectAt(k, g.h, s.live, {})
    BY <1>6, <1>9, <2>4, <2>6 DEF SelectAt
  <2>8. NParks(g.kind) = 1
    BY <1>9 DEF NParks
  <2> QED
    BY <1>9, <2>5, <2>7, <2>8 DEF PlainStart
<1>11. Known(d, Append(T, f), g, s2, p)
  BY <1>1, <1>7, <1>8, <1>9, <1>10, PushPlain DEF N
<1> QED
  BY <1>11 DEF d, g, s2, h, r
-----------------------------------------------------------------------------
(* The branches of a switch.                                               *)

SelectMoves(s, s2, d, f2, y, z, z2, F) ==
  /\ SemType(s2, z.d) /\ SameValues(s, s2) /\ Len(s2.frames) = z.m
  /\ (\A i \in 1..y.m : s2.frames[i] = s.frames[i])
  /\ SelectAt(s2.frames[z.m], f2.h, y.w, s2.live) /\ Placed(d, f2, F, z2)

SelectTurns(c, s, y, z, N, B, F, d, f2, s2, V2, z2) ==
  /\ f2.kind = "select" /\ FrameOK(f2, y.d, N, c.timing) /\ SameNotes(c, d)
  /\ z2 = Layout(y.hs \o Opened(f2), z.n, z.m, z.d, z.l, s2.live)
  /\ Good(d, z2.hs, V2, Pending(f2), N, B, F) /\ Settled(d, f2)
  /\ \A k \in 0..Len(y.hs) : OnAt(d, z2.hs, k) = OnAt(c, z.hs, k)
  /\ c.diag = {} => SelectMoves(s, s2, d, f2, y, z, z2, F)

LEMMA SelectChange ==
  ASSUME NEW c, NEW T, NEW f, NEW s, NEW p, NEW Y, NEW z, NEW V, NEW B, NEW F,
         Inv(c, T, f, s, p, Y, z, V, B, F), f.kind = "select",
         NEW d, NEW f2, NEW s2, NEW V2, NEW z2,
         SelectTurns(c, s, Y[Len(T) + 1], z, Names(c.nflag, p.nest), B, F, d, f2, s2, V2, z2)
  PROVE  Known(d, T, f2, s2, p)
<1> DEFINE N == Names(c.nflag, p.nest)
           y == Y[Len(T) + 1]
<1>0. /\ f2.kind = "select" /\ FrameOK(f2, y.d, N, c.timing) /\ SameNotes(c, d)
      /\ z2 = Layout(y.hs \o Opened(f2), z.n, z.m, z.d, z.l, s2.live)
      /\ Good(d, z2.hs, V2, Pending(f2), N, B, F) /\ Settled(d, f2)
      /\ \A k \in 0..Len(y.hs) : OnAt(d, z2.hs, k) = OnAt(c, z.hs, k)
      /\ c.diag = {} => SelectMoves(s, s2, d, f2, y, z, z2, F)
  BY DEF SelectTurns
<1>1. /\ FrameAt(c.timing, c.esc, B, N, f, y, z, Len(T) + 1)
      /\ Scoped(c, z, B, F) /\ c.broken = FALSE /\ (c.diag = {} => Meaning(c, T, f, s, Y, z, F))
      /\ Good(c, z.hs, V, Pending(f), N, B, F)
  BY InvFacts
<1> HIDE DEF N, y
<1>2. /\ LayoutOK(y, N) /\ LayoutOK(z, N) /\ Follows(f, y, z) /\ FrameOK(f, y.d, N, c.timing)
      /\ z.n <= Len(c.esc) /\ Guarding(f, y, c.esc) /\ Based(f, y, z, c.esc, B)
      /\ y.d < Len(T) + 1 /\ Len(T) + 1 # 1
  BY <1>1 DEF FrameAt
<1>3. /\ z2.hs = y.hs \o Opened(f2) /\ z2.n = z.n /\ z2.m = z.m /\ z2.d = z.d /\ z2.l = z.l /\ z2.w = s2.live
  BY <1>0 DEF Layout
<1>4. z2.hs \in Seq(Helpers(N))
  BY <1>0, GoodFacts
<1>5. FrameAt(c.timing, c.esc, B, N, f2, y, z2, Len(T) + 1)
  <2>1. LayoutOK(z2, N) /\ Follows(f2, y, z2)
    BY <1>0, <1>2, <1>3, <1>4 DEF LayoutOK, Follows
  <2>2. Guarding(f2, y, c.esc) /\ Based(f2, y, z2, c.esc, B)
    BY <1>0, <1>2, <1>3 DEF Guarding, Based
  <2> QED
    BY <1>0, <1>2, <1>3, <2>1, <2>2 DEF FrameAt
<1>6. /\ d.timing = c.timing /\ d.esc = c.esc /\ d.nflag = c.nflag /\ d.broken = c.broken /\ d.diag = c.diag
      /\ d.unrolling = c.unrolling /\ d.exhausted = c.exhausted
      /\ d.blocking = c.blocking /\ d.nonblocking = c.nonblocking
  BY <1>0 DEF SameNotes
<1>7. Scoped(d, z2, B, F)
  BY <1>1, <1>3, <1>6 DEF Scoped
<1>8. y.n \in Nat /\ z.n = y.n /\ z.d = y.d /\ z.d \in Nat
  BY <1>2 DEF LayoutOK, Follows, NGuards, NCalls
<1>9. Undisturbed(y, c, B, F, d, B, F)
  <2>1. c \in Contexts(N)
    BY <1>1, GoodFacts
  <2> QED
    BY <1>0, <1>2, <1>8, <2>1, NotesUndisturbed
<1>10. ASSUME d.diag = {}
       PROVE  SamePast(y, c, z, s, d, z2, s2) /\ TopMeaning(d, f2, s2, y, z2, F)
  <2>1. /\ SemType(s, z.d) /\ Mirrors(s, c, F, z.d) /\ z.m = Len(s.frames) /\ z.w = s.live
        /\ SemAt(c, z.hs, F, s.frames, f, y, z) /\ c.exhausted = FALSE
    BY <1>1, <1>6, <1>10 DEF Meaning, y
  <2>2. /\ SemType(s2, z.d) /\ SameValues(s, s2) /\ Len(s2.frames) = z.m
        /\ (\A i \in 1..y.m : s2.frames[i] = s.frames[i])
        /\ SelectAt(s2.frames[z.m], f2.h, y.w, s2.live) /\ Placed(d, f2, F, z2)
    BY <1>0, <1>6, <1>10 DEF SelectMoves
  <2>3. Mirrors(s2, d, F, z.d)
    BY <1>6, <1>8, <2>1, <2>2, MirrorsKept
  <2>4. Len(y.hs) \in 0..Len(y.hs)
    BY <1>2 DEF LayoutOK
  <2>5. OnAt(d, z2.hs, Len(y.hs)) \ Raised(d.esc, F, y.n) = y.w
    BY <1>0, <1>6, <2>1, <2>4 DEF SemAt
  <2>6. SemAt(d, z2.hs, F, s2.frames, f2, y, z2)
    BY <1>0, <1>3, <2>2, <2>5 DEF SemAt
  <2>7. SamePast(y, c, z, s, d, z2, s2)
    BY <1>0, <2>2 DEF SamePast
  <2> QED
    BY <1>3, <1>6, <2>1, <2>2, <2>3, <2>6, <2>7 DEF TopMeaning
<1>11. Kept2(y, c, z, s, B, F, d, z2, s2, B, F)
  BY <1>6, <1>8, <1>9, <1>10, PastKept
<1>12. TopOK(d, f2, s2, p, y, z2, V2, B, F, Len(T) + 1)
  BY <1>0, <1>1, <1>5, <1>6, <1>7, <1>10 DEF TopOK, N
<1>13. Inv(d, T, f2, s2, p, Y, z2, V2, B, F)
  BY <1>11, <1>12, Retop DEF y
<1> QED
  BY <1>13 DEF Known

(* The frame of a select, with a branch open or not. *)
SelectFrame(f, h, open) ==
  /\ f.kind = "select" /\ DOMAIN f = {"kind", "stmt", "h", "open", "last", "sw"}
  /\ f.h = h /\ f.open = open /\ f.sw = <<>>

LEMMA OpenKeeps ==
  ASSUME NEW c, NEW T, NEW f, NEW s, NEW p, Known(c, T, f, s, p), Closing(f),
         NEW cmp, NEW def, NEW f2, SelectFrame(f2, EnterBranch(c, f.h, cmp, def).h, TRUE),
         NEW M, c.diag = {} => M = Hit(f.h, cmp, def)
  PROVE  Known(EnterBranch(c, f.h, cmp, def).c, T, f2, SelectItem(s, M), p)
<1>1. PICK Y, z, V, B, F : Inv(c, T, f, s, p, Y, z, V, B, F)
  BY DEF Known
<1> DEFINE N == Names(c.nflag, p.nest)
           y == Y[Len(T) + 1]
           h == f.h
           e == EnterBranch(c, h, cmp, def)
           d == e.c
           x == e.h
           s2 == SelectItem(s, M)
           z2 == Layout(y.hs \o Opened(f2), z.n, z.m, z.d, z.l, s2.live)
<1>2. /\ Good(c, z.hs, V, h.updates, N, B, F) /\ FrameAt(c.timing, c.esc, B, N, f, y, z, Len(T) + 1)
      /\ Scoped(c, z, B, F) /\ (c.diag = {} => Meaning(c, T, f, s, Y, z, F))
      /\ Fits(h, {}) /\ h.parent.on = c.cas.on
  BY <1>1, InvFacts DEF Pending, Settled
<1> HIDE DEF N, y
<1>3. /\ LayoutOK(y, N) /\ LayoutOK(z, N) /\ Follows(f, y, z) /\ FrameOK(f, y.d, N, c.timing)
  BY <1>2 DEF FrameAt
<1>4. f.kind = "select" /\ h \in Helpers(N) /\ c.timing # "Initial" /\ Opened(f) = <<>>
  BY <1>3 DEF FrameOK, Closing, Opened, LoopOK
<1>5. y.hs \in Seq(Helpers(N)) /\ z.hs = y.hs /\ z.n = y.n /\ z.m = y.m + 1 /\ z.d \in Nat /\ y.m \in Nat
  <2>1. y.hs \in Seq(Helpers(N)) /\ z.hs = y.hs \o <<>> /\ z.n = y.n + 0 /\ z.m = y.m + 1
        /\ y.n \in Nat /\ y.m \in Nat /\ z.d \in Nat
    BY <1>3, <1>4 DEF LayoutOK, Follows, NGuards, NParks
  <2> QED
    BY <2>1
<1>6. c \in Contexts(N)
  BY <1>2, GoodFacts
<1>7. EnterFacts(c, h, cmp, def, d, x, N)
  BY <1>4, <1>6, EnterFields
<1>8. /\ d \in Contexts(N) /\ x \in Helpers(N) /\ SameNotes(c, d) /\ d.cas.on = Hit(h, cmp, def)
      /\ x.parent = h.parent /\ x.left = h.left \ Hit(h, cmp, def) /\ x.signal = h.signal
  BY <1>7 DEF EnterFacts
<1>9. Good(d, Append(y.hs, x), Append(V, c.vis), <<>>, N, B, F)
  BY <1>2, <1>4, <1>5, EnterGood
<1>10. /\ f2.kind = "select" /\ DOMAIN f2 = {"kind", "stmt", "h", "open", "last", "sw"}
       /\ f2.h = x /\ f2.open = TRUE /\ f2.sw = <<>>
  BY DEF SelectFrame
<1> HIDE DEF h, e, d, x, s2
<1>11. FrameOK(f2, y.d, N, c.timing)
  <2>1. f2.sw \in Seq(Helpers(N)) /\ f2.h \in Helpers(N)
    <3>1. <<>> \in Seq(Helpers(N))
      OBVIOUS
    <3> QED
      BY <1>8, <1>10, <3>1
  <2>2. f2.open \in BOOLEAN
    BY <1>10
  <2> QED
    BY <1>4, <1>10, <2>1, <2>2 DEF FrameOK
<1>12. y.hs \o Opened(f2) = Append(y.hs, x) /\ ~Closing(f2)
  BY <1>5, <1>8, <1>10 DEF Opened, Closing
<1>13. z2.hs = Append(y.hs, x) /\ z2.n = z.n /\ z2.w = s2.live
  BY <1>12 DEF Layout
<1>14. \A k \in 0..Len(y.hs) : OnAt(d, z2.hs, k) = OnAt(c, z.hs, k)
  <2> DEFINE S == Helpers(N)
             H == y.hs
  <2>1. H \in Seq(S) /\ x \in S /\ x.parent.on = c.cas.on
    BY <1>2, <1>5, <1>8
  <2> HIDE DEF S, H
  <2>2. SameBelow(c, H, d, Append(H, x))
    BY ONLY <2>1, OnAppend
  <2> QED
    BY <1>5, <1>13, <2>2 DEF H, SameBelow
<1>15. ASSUME c.diag = {} PROVE SelectMoves(s, s2, d, f2, y, z, z2, F)
  <2> DEFINE g == TopFrame(s)
             g2 == [g EXCEPT !.rest = @ \ M, !.done = @ \cup s.live]
  <2>1. /\ SemType(s, z.d) /\ Mirrors(s, c, F, z.d) /\ z.m = Len(s.frames) /\ z.w = s.live
        /\ SemAt(c, z.hs, F, s.frames, f, y, z) /\ Placed(c, f, F, z)
    BY <1>2, <1>15 DEF Meaning, y
  <2>2. SelectAt(g, h, y.w, s.live) /\ s.live = {} /\ OnAt(c, z.hs, Len(y.hs)) \ Raised(c.esc, F, y.n) = y.w
    BY <1>4, <2>1 DEF SemAt, TopFrame, Placed, h
  <2>3. /\ g.kind = "select" /\ g.rest = h.left /\ y.w = g.rest \cup g.done
        /\ g.rest \cap g.done = {} /\ \A a \in h.left : a \in h.signal.on <=> a \in g.sel
    BY <2>2 DEF SelectAt
  <2>4. TopOf(s, "select") /\ h.left \subseteq Env
    BY <1>4, <1>5, <2>1, <2>3 DEF TopOf, Helpers
  <2>5. M \subseteq h.left /\ M = Hit(h, cmp, def)
    <3>1. M = Hit(h, cmp, def)
      BY <1>15 DEF h
    <3> QED
      BY <3>1 DEF Hit
  <2>6. M \in SUBSET Env
    BY <2>4, <2>5
  <2>7. LET t == SelectItem(s, M)
        IN  /\ SemType(t, z.d) /\ SameValues(s, t) /\ t.live = M
            /\ Retopped(s, t, [TopFrame(s) EXCEPT !.rest = @ \ M, !.done = @ \cup s.live])
    BY <1>5, <2>1, <2>4, <2>6, SelectFields
  <2>8. SemType(s2, z.d) /\ SameValues(s, s2) /\ s2.live = M /\ Retopped(s, s2, g2)
    BY <2>7 DEF s2
  <2>9. g \in [kind : {"select"}, sel : SUBSET Env, rest : SUBSET Env, done : SUBSET Env]
    BY <2>1, <2>4, FramesType
  <2>10. g2.kind = "select" /\ g2.rest = g.rest \ M /\ g2.done = g.done \cup s.live /\ g2.sel = g.sel
    BY <2>3, <2>9
  <2> HIDE DEF g, g2
  <2>11. SelectAt(g2, f2.h, y.w, s2.live)
    BY <1>8, <1>10, <2>2, <2>3, <2>5, <2>8, <2>10 DEF SelectAt
  <2>12. /\ Len(s2.frames) = z.m /\ s2.frames[z.m] = g2
         /\ \A i \in 1..y.m : s2.frames[i] = s.frames[i]
    BY <1>5, <2>1, <2>8 DEF Retopped
  <2>13. M \cap Raised(c.esc, F, y.n) = {}
    BY <2>2, <2>3, <2>5
  <2>14. Placed(d, f2, F, z2)
    BY <1>5, <1>8, <1>12, <1>13, <2>5, <2>8, <2>13 DEF Placed, SameNotes
  <2> QED
    BY <2>8, <2>11, <2>12, <2>14 DEF SelectMoves
<1>16. Good(d, z2.hs, Append(V, c.vis), Pending(f2), N, B, F) /\ Settled(d, f2)
  BY <1>9, <1>12, <1>13 DEF Pending, Settled
<1>17. SelectTurns(c, s, y, z, N, B, F, d, f2, s2, Append(V, c.vis), z2)
  BY <1>8, <1>10, <1>11, <1>14, <1>15, <1>16 DEF SelectTurns
<1> HIDE DEF z2
<1>18. Known(d, T, f2, s2, p)
  BY <1>1, <1>4, <1>17, SelectChange DEF y, N
<1> QED
  BY <1>18 DEF d, e, h, s2
LEMMA CloseKeeps ==
  ASSUME NEW c, NEW T, NEW f, NEW s, NEW p, Known(c, T, f, s, p), f.kind = "select", f.open = TRUE,
         NEW f2, SelectFrame(f2, ExitBranch(Unwind(c, f.sw), f.h).h, FALSE)
  PROVE  /\ Known(ExitBranch(Unwind(c, f.sw), f.h).c, T, f2, SelectItem(s, {}), p)
         /\ SameNotes(c, ExitBranch(Unwind(c, f.sw), f.h).c)
         /\ c.diag = {} => TopOf(s, "select")
<1>1. PICK Y, z, V, B, F : Inv(c, T, f, s, p, Y, z, V, B, F)
  BY DEF Known
<1> DEFINE N == Names(c.nflag, p.nest)
           y == Y[Len(T) + 1]
           h == f.h
           k == Unwind(c, f.sw)
           e == ExitBranch(k, h)
           d == e.c
           x == e.h
           s2 == SelectItem(s, {})
           H == Append(y.hs, h)
           V1 == SubSeq(V, 1, Len(H))
           V2 == SubSeq(V, 1, Len(y.hs))
           w == V[Len(H)]
           z2 == Layout(y.hs \o Opened(f2), z.n, z.m, z.d, z.l, s2.live)
<1>2. /\ Good(c, z.hs, V, <<>>, N, B, F) /\ FrameAt(c.timing, c.esc, B, N, f, y, z, Len(T) + 1)
      /\ Scoped(c, z, B, F) /\ (c.diag = {} => Meaning(c, T, f, s, Y, z, F)) /\ ~Closing(f)
  BY <1>1, InvFacts DEF Pending, Closing
<1> HIDE DEF N, y
<1>3. /\ LayoutOK(y, N) /\ LayoutOK(z, N) /\ Follows(f, y, z) /\ FrameOK(f, y.d, N, c.timing)
  BY <1>2 DEF FrameAt
<1>4. h \in Helpers(N) /\ f.sw \in Seq(Helpers(N)) /\ c.timing # "Initial" /\ Opened(f) = <<h>> \o f.sw
  BY <1>3 DEF FrameOK, Opened, LoopOK
<1>5. y.hs \in Seq(Helpers(N)) /\ z.n = y.n /\ z.m = y.m + 1 /\ z.d \in Nat /\ y.m \in Nat /\ Len(y.hs) \in Nat
  <2>1. y.hs \in Seq(Helpers(N)) /\ z.n = y.n + 0 /\ z.m = y.m + 1
        /\ y.n \in Nat /\ y.m \in Nat /\ z.d \in Nat
    BY <1>3 DEF LayoutOK, Follows, NGuards, NParks
  <2> QED
    BY <2>1
<1>6. z.hs = H \o f.sw /\ H \in Seq(Helpers(N)) /\ Len(H) = Len(y.hs) + 1
  <2>1. z.hs = y.hs \o (<<h>> \o f.sw)
    BY <1>3, <1>4 DEF Follows
  <2> DEFINE S == Helpers(N)
             P == y.hs
             Q == f.sw
  <2>2. P \in Seq(S) /\ Q \in Seq(S) /\ h \in S
    BY <1>4, <1>5
  <2> HIDE DEF S, P, Q, h
  <2>3. P \o (<<h>> \o Q) = Append(P, h) \o Q /\ Append(P, h) \in Seq(S) /\ Len(Append(P, h)) = Len(P) + 1
    BY ONLY <2>2
  <2> QED
    BY <2>1, <2>3 DEF S, P, Q
<1>7. B \in [DOMAIN F -> 0..Len(y.hs)] /\ B \in [DOMAIN F -> 0..Len(H)]
  <2>1. B \in [DOMAIN F -> 0..Len(y.hs)]
    BY <1>2, FrameBases, ZenonT(60)
  <2>2. 0..Len(y.hs) \subseteq 0..Len(H)
    BY <1>5, <1>6
  <2> QED
    BY <2>1, <2>2
<1> HIDE DEF k, h, H, V1
<1>8. Rewound(c, H, z.hs, V1, N, B, F, k)
  BY <1>2, <1>4, <1>6, <1>7, UnwindAgain DEF k, V1
<1>9. Good(k, H, V1, <<>>, N, B, F) /\ SameNotes(c, k) /\ SameBelow(k, H, c, z.hs)
  BY <1>8 DEF Rewound
<1>10. V1 = Append(V2, w) /\ V2 \in Seq(Stores(N)) /\ w \in Stores(N) /\ Len(V2) = Len(y.hs)
  <2>1. V \in Seq(Stores(N)) /\ Len(V) = Len(z.hs)
    BY <1>2, GoodFacts
  <2>2. Len(H) \in 1..Len(V) /\ Len(H) - 1 = Len(y.hs)
    <3> DEFINE a == Len(y.hs)
               b == Len(f.sw)
               Q == f.sw
               S == Helpers(N)
               m == Len(V)
    <3>1. H \in Seq(S) /\ Q \in Seq(S)
      BY <1>4, <1>6
    <3> HIDE DEF S, Q
    <3>2. Len(H \o Q) = Len(H) + Len(Q) /\ Len(Q) \in Nat
      BY ONLY <3>1
    <3>3. m = Len(H) + b /\ b \in Nat /\ a \in Nat /\ Len(H) = a + 1
      BY <1>5, <1>6, <2>1, <3>2 DEF Q
    <3> HIDE DEF a, b, m
    <3>4. Len(H) \in 1..m /\ Len(H) - 1 = a
      BY ONLY <3>3
    <3> QED
      BY <3>4 DEF a, m
  <2> QED
    BY <2>1, <2>2, LastOfPrefix DEF V1
<1> HIDE DEF V2, w, e
<1>11. Good(k, Append(y.hs, h), Append(V2, w), <<>>, N, B, F)
  BY <1>9, <1>10 DEF H
<1>12. /\ Good(e.c, y.hs, V2, e.h.updates, N, B, F)
       /\ ExitFacts(k, h, e.c, e.h, N) /\ Fits(e.h, {})
  BY <1>4, <1>5, <1>7, <1>10, <1>11, ExitGood DEF e
<1>13. /\ x \in Helpers(N) /\ SameNotes(c, d) /\ d.cas = h.parent
       /\ x.parent = h.parent /\ x.left = h.left /\ x.signal = h.signal
  BY <1>9, <1>12 DEF ExitFacts, SameNotes
<1>14. /\ f2.kind = "select" /\ DOMAIN f2 = {"kind", "stmt", "h", "open", "last", "sw"}
       /\ f2.h = x /\ f2.open = FALSE /\ f2.sw = <<>>
  BY DEF SelectFrame, e, k, h
<1> HIDE DEF d, x, s2
<1>15. FrameOK(f2, y.d, N, c.timing)
  <2>1. f2.sw \in Seq(Helpers(N)) /\ f2.h \in Helpers(N)
    <3>1. <<>> \in Seq(Helpers(N))
      OBVIOUS
    <3> QED
      BY <1>13, <1>14, <3>1
  <2>2. f2.open \in BOOLEAN
    BY <1>14
  <2> QED
    BY <1>4, <1>14, <2>1, <2>2 DEF FrameOK
<1>16. y.hs \o Opened(f2) = y.hs /\ Closing(f2)
  <2>1. Opened(f2) = <<>>
    BY <1>14 DEF Opened
  <2> QED
    BY <1>5, <1>14, <2>1 DEF Closing
<1>17. z2.hs = y.hs /\ z2.n = z.n /\ z2.w = s2.live
  BY <1>16 DEF Layout
<1>18. \A i \in 0..Len(y.hs) : OnAt(d, z2.hs, i) = OnAt(c, z.hs, i)
  <2> DEFINE S == Helpers(N)
             P == y.hs
  <2>1. P \in Seq(S) /\ h \in S /\ h.parent.on = d.cas.on
    BY <1>4, <1>5, <1>13
  <2> HIDE DEF S, P
  <2>2. SameBelow(d, P, k, Append(P, h))
    BY ONLY <2>1, OnAppend
  <2>3. 0..Len(y.hs) \subseteq 0..Len(H)
    BY <1>5, <1>6
  <2> QED
    BY <1>9, <1>17, <2>2, <2>3 DEF P, SameBelow, H
<1>19. ASSUME c.diag = {} PROVE SelectMoves(s, s2, d, f2, y, z, z2, F) /\ TopOf(s, "select")
  <2> DEFINE g == TopFrame(s)
             g2 == [g EXCEPT !.rest = @ \ {}, !.done = @ \cup s.live]
  <2>1. /\ SemType(s, z.d) /\ Mirrors(s, c, F, z.d) /\ z.m = Len(s.frames) /\ z.w = s.live
        /\ SemAt(c, z.hs, F, s.frames, f, y, z)
    BY <1>2, <1>19 DEF Meaning, y
  <2>2. SelectAt(g, h, y.w, s.live)
    BY <2>1 DEF SemAt, TopFrame, h
  <2>3. /\ g.kind = "select" /\ g.rest = h.left /\ y.w = s.live \cup g.rest \cup g.done
        /\ g.rest \cap g.done = {} /\ s.live \cap (g.rest \cup g.done) = {}
        /\ \A a \in h.left : a \in h.signal.on <=> a \in g.sel
    BY <2>2 DEF SelectAt
  <2>4. TopOf(s, "select") /\ {} \in SUBSET Env
    BY <1>5, <2>1, <2>3 DEF TopOf
  <2>5. LET t == SelectItem(s, {})
        IN  /\ SemType(t, z.d) /\ SameValues(s, t) /\ t.live = {}
            /\ Retopped(s, t, [TopFrame(s) EXCEPT !.rest = @ \ {}, !.done = @ \cup s.live])
    BY <1>5, <2>1, <2>4, SelectFields
  <2>6. SemType(s2, z.d) /\ SameValues(s, s2) /\ s2.live = {} /\ Retopped(s, s2, g2)
    BY <2>5 DEF s2
  <2>7. g \in [kind : {"select"}, sel : SUBSET Env, rest : SUBSET Env, done : SUBSET Env]
    BY <2>1, <2>4, FramesType
  <2>8. g2.kind = "select" /\ g2.rest = g.rest /\ g2.done = g.done \cup s.live /\ g2.sel = g.sel
    BY <2>3, <2>7
  <2> HIDE DEF g, g2
  <2>9. SelectAt(g2, f2.h, y.w, s2.live)
    BY <1>13, <1>14, <2>3, <2>6, <2>8 DEF SelectAt
  <2>10. /\ Len(s2.frames) = z.m /\ s2.frames[z.m] = g2
         /\ \A i \in 1..y.m : s2.frames[i] = s.frames[i]
    BY <1>5, <2>1, <2>6 DEF Retopped
  <2>11. Placed(d, f2, F, z2)
    BY <1>16, <1>17, <2>6 DEF Placed
  <2> QED
    BY <2>4, <2>6, <2>9, <2>10, <2>11 DEF SelectMoves
<1>20. Good(d, z2.hs, V2, Pending(f2), N, B, F) /\ Settled(d, f2)
  BY <1>12, <1>13, <1>14, <1>16, <1>17 DEF Pending, Settled, d, x
<1>21. SelectTurns(c, s, y, z, N, B, F, d, f2, s2, V2, z2)
  BY <1>13, <1>14, <1>15, <1>18, <1>19, <1>20 DEF SelectTurns
<1> HIDE DEF z2
<1>22. Known(d, T, f2, s2, p)
  BY <1>1, <1>21, SelectChange DEF y, N
<1> QED
  BY <1>13, <1>19, <1>22 DEF d, e, h, k, s2
(* An item that can match nothing. *)
LEMMA DeadKeeps ==
  ASSUME NEW c, NEW T, NEW f, NEW s, NEW p, Known(c, T, f, s, p), Closing(f),
         NEW f2, SelectFrame(f2, f.h, FALSE)
  PROVE  Known(c, T, f2, SelectItem(s, {}), p)
<1>1. PICK Y, z, V, B, F : Inv(c, T, f, s, p, Y, z, V, B, F)
  BY DEF Known
<1> DEFINE N == Names(c.nflag, p.nest)
           y == Y[Len(T) + 1]
           h == f.h
           s2 == SelectItem(s, {})
           z2 == Layout(y.hs \o Opened(f2), z.n, z.m, z.d, z.l, s2.live)
<1>2. /\ Good(c, z.hs, V, h.updates, N, B, F) /\ FrameAt(c.timing, c.esc, B, N, f, y, z, Len(T) + 1)
      /\ (c.diag = {} => Meaning(c, T, f, s, Y, z, F)) /\ Settled(c, f)
  BY <1>1, InvFacts DEF Pending
<1> HIDE DEF N, y
<1>3. /\ LayoutOK(y, N) /\ LayoutOK(z, N) /\ Follows(f, y, z) /\ FrameOK(f, y.d, N, c.timing)
  BY <1>2 DEF FrameAt
<1>4. f.kind = "select" /\ h \in Helpers(N) /\ c.timing # "Initial" /\ Opened(f) = <<>>
  BY <1>3 DEF FrameOK, Closing, Opened, LoopOK
<1>5. y.hs \in Seq(Helpers(N)) /\ z.hs = y.hs /\ z.m = y.m + 1 /\ z.d \in Nat /\ y.m \in Nat
  <2>1. y.hs \in Seq(Helpers(N)) /\ z.hs = y.hs \o <<>> /\ z.m = y.m + 1
        /\ y.m \in Nat /\ z.d \in Nat
    BY <1>3, <1>4 DEF LayoutOK, Follows, NGuards, NParks
  <2> QED
    BY <2>1
<1>6. /\ f2.kind = "select" /\ DOMAIN f2 = {"kind", "stmt", "h", "open", "last", "sw"}
      /\ f2.h = h /\ f2.open = FALSE /\ f2.sw = <<>>
  BY DEF SelectFrame
<1> HIDE DEF h, s2
<1>7. FrameOK(f2, y.d, N, c.timing)
  <2>1. f2.sw \in Seq(Helpers(N)) /\ f2.h \in Helpers(N)
    <3>1. <<>> \in Seq(Helpers(N))
      OBVIOUS
    <3> QED
      BY <1>4, <1>6, <3>1
  <2>2. f2.open \in BOOLEAN
    BY <1>6
  <2> QED
    BY <1>4, <1>6, <2>1, <2>2 DEF FrameOK
<1>8. y.hs \o Opened(f2) = y.hs /\ Closing(f2)
  <2>1. Opened(f2) = <<>>
    BY <1>6 DEF Opened
  <2> QED
    BY <1>5, <1>6, <2>1 DEF Closing
<1>9. z2.hs = y.hs /\ z2.n = z.n /\ z2.w = s2.live
  BY <1>8 DEF Layout
<1>10. ASSUME c.diag = {} PROVE SelectMoves(s, s2, c, f2, y, z, z2, F)
  <2> DEFINE g == TopFrame(s)
             g2 == [g EXCEPT !.rest = @ \ {}, !.done = @ \cup s.live]
  <2>1. /\ SemType(s, z.d) /\ Mirrors(s, c, F, z.d) /\ z.m = Len(s.frames) /\ z.w = s.live
        /\ SemAt(c, z.hs, F, s.frames, f, y, z)
    BY <1>2, <1>10 DEF Meaning, y
  <2>2. SelectAt(g, h, y.w, s.live)
    BY <1>4, <2>1 DEF SemAt, TopFrame, h
  <2>3. /\ g.kind = "select" /\ g.rest = h.left /\ y.w = s.live \cup g.rest \cup g.done
        /\ g.rest \cap g.done = {} /\ s.live \cap (g.rest \cup g.done) = {}
        /\ \A a \in h.left : a \in h.signal.on <=> a \in g.sel
    BY <2>2 DEF SelectAt
  <2>4. TopOf(s, "select") /\ {} \in SUBSET Env
    BY <1>5, <2>1, <2>3 DEF TopOf
  <2>5. LET t == SelectItem(s, {})
        IN  /\ SemType(t, z.d) /\ SameValues(s, t) /\ t.live = {}
            /\ Retopped(s, t, [TopFrame(s) EXCEPT !.rest = @ \ {}, !.done = @ \cup s.live])
    BY <1>5, <2>1, <2>4, SelectFields
  <2>6. SemType(s2, z.d) /\ SameValues(s, s2) /\ s2.live = {} /\ Retopped(s, s2, g2)
    BY <2>5 DEF s2
  <2>7. g \in [kind : {"select"}, sel : SUBSET Env, rest : SUBSET Env, done : SUBSET Env]
    BY <2>1, <2>4, FramesType
  <2>8. g2.kind = "select" /\ g2.rest = g.rest /\ g2.done = g.done \cup s.live /\ g2.sel = g.sel
    BY <2>3, <2>7
  <2> HIDE DEF g, g2
  <2>9. SelectAt(g2, f2.h, y.w, s2.live)
    BY <1>6, <2>3, <2>6, <2>8 DEF SelectAt
  <2>10. /\ Len(s2.frames) = z.m /\ s2.frames[z.m] = g2
         /\ \A i \in 1..y.m : s2.frames[i] = s.frames[i]
    BY <1>5, <2>1, <2>6 DEF Retopped
  <2>11. Placed(c, f2, F, z2)
    BY <1>8, <1>9, <2>6 DEF Placed
  <2> QED
    BY <2>4, <2>6, <2>9, <2>10, <2>11 DEF SelectMoves
<1>11. Good(c, z2.hs, V, Pending(f2), N, B, F) /\ Settled(c, f2) /\ SameNotes(c, c)
  BY <1>2, <1>5, <1>6, <1>8, <1>9 DEF Pending, Settled, SameNotes, h
<1>12. \A i \in 0..Len(y.hs) : OnAt(c, z2.hs, i) = OnAt(c, z.hs, i)
  BY <1>5, <1>9
<1>13. SelectTurns(c, s, y, z, N, B, F, c, f2, s2, V, z2)
  BY <1>6, <1>7, <1>10, <1>11, <1>12 DEF SelectTurns
<1> HIDE DEF z2
<1>14. Known(c, T, f2, s2, p)
  BY <1>1, <1>4, <1>13, SelectChange DEF y, N
<1> QED
  BY <1>14 DEF s2

(* The switch is complete: its branches are joined. *)
LEMMA FinishKeeps ==
  ASSUME NEW c, NEW T, NEW f, NEW s, NEW p, Known(c, T, f, s, p), Closing(f), Len(T) >= 1
  PROVE  /\ Known(Descend(Finish(c, f.h)), Front(T), Last(T), SelectEnd(s), p)
         /\ SameNotes(c, Descend(Finish(c, f.h)))
<1>1. PICK Y, z, V, B, F : Inv(c, T, f, s, p, Y, z, V, B, F)
  BY DEF Known
<1> DEFINE N == Names(c.nflag, p.nest)
           y == Y[Len(T) + 1]
           h == f.h
           k == Finish(c, h)
           d == Descend(k)
           s2 == SelectEnd(s)
<1>2. /\ Good(c, z.hs, V, h.updates, N, B, F) /\ FrameAt(c.timing, c.esc, B, N, f, y, z, Len(T) + 1)
      /\ Scoped(c, z, B, F) /\ (c.diag = {} => Meaning(c, T, f, s, Y, z, F))
  BY <1>1, InvFacts DEF Pending
<1> HIDE DEF N, y
<1>3. /\ LayoutOK(y, N) /\ LayoutOK(z, N) /\ Follows(f, y, z) /\ FrameOK(f, y.d, N, c.timing)
  BY <1>2 DEF FrameAt
<1>4. f.kind = "select" /\ h \in Helpers(N) /\ c.timing # "Initial" /\ Opened(f) = <<>>
  BY <1>3 DEF FrameOK, Closing, Opened, LoopOK
<1>5. /\ y.hs \in Seq(Helpers(N)) /\ z.hs = y.hs /\ z.m = y.m + 1 /\ z.n = y.n /\ z.d = y.d /\ z.l = y.l
      /\ z.d \in Nat /\ y.m \in Nat
  <2>1. y.hs \in Seq(Helpers(N)) /\ z.hs = y.hs \o <<>> /\ z.m = y.m + 1 /\ z.n = y.n + 0
        /\ z.d = y.d + 0 /\ z.l = y.l + 0
        /\ y.m \in Nat /\ z.d \in Nat /\ y.n \in Nat /\ y.d \in Nat /\ y.l \in Nat
    BY <1>3, <1>4 DEF LayoutOK, Follows, NGuards, NParks, NCalls, NLoops
  <2> QED
    BY <2>1
<1>6. Good(k, z.hs, V, <<>>, N, B, F) /\ FinishFacts(c, k, N)
  BY <1>2, <1>4, FinishGood
<1>7. k \in Contexts(N) /\ SameNotes(c, k) /\ k.cas = c.cas
  BY <1>6 DEF FinishFacts
<1> HIDE DEF k
<1>8. d \in Contexts(N) /\ SameNotes(k, d) /\ SameStore(k, d)
  BY <1>7, DescendFacts
<1> HIDE DEF d
<1>9. Good(d, y.hs, V, <<>>, N, B, F)
  <2>1. \A v \in N : IsStatic(v) => v \in StaticVars
    BY <1>2, GoodFacts
  <2> QED
    BY <1>5, <1>6, <1>8, <2>1, SameLevels
<1>10. SameNotes(c, d) /\ d.cas.on = c.cas.on
  BY <1>7, <1>8 DEF SameNotes, SameStore
<1>11. SameBelow(d, y.hs, c, z.hs)
  BY <1>5, <1>10 DEF SameBelow, OnAt
<1>12. z.n = Len(c.esc) /\ z.l = c.unrolling /\ DOMAIN F = Scope(c.esc, z.d)
  BY <1>2 DEF Scoped
<1>13. Left(c, d, y)
  BY <1>5, <1>10, <1>12 DEF SameNotes, Left
<1>14. ASSUME c.diag = {} PROVE SemLeft(s, s2, y)
  <2>1. /\ SemType(s, z.d) /\ z.m = Len(s.frames) /\ z.w = s.live
        /\ SelectAt(TopFrame(s), h, y.w, s.live)
    BY <1>2, <1>4, <1>14 DEF Meaning, SemAt, y, TopFrame, h
  <2>2. TopOf(s, "select") /\ y.w = s.live \cup TopFrame(s).rest \cup TopFrame(s).done
    BY <1>5, <2>1 DEF TopOf, SelectAt
  <2>3. z.d <= z.d
    BY <1>5
  <2>4. LET t == SelectEnd(s)
        IN  /\ SemType(t, z.d) /\ SameValues(s, t) /\ Untopped(s, t)
            /\ t.live = s.live \cup TopFrame(s).rest \cup TopFrame(s).done
    BY <1>5, <2>1, <2>2, <2>3, EndFields
  <2>5. /\ SemType(s2, y.d) /\ SameValues(s, s2) /\ Untopped(s, s2) /\ s2.live = y.w
    BY <1>5, <2>2, <2>4 DEF s2
  <2>6. Len(s2.frames) = y.m /\ \A i \in 1..y.m : s2.frames[i] = s.frames[i]
    BY <1>5, <2>1, <2>5 DEF Untopped
  <2> QED
    BY <2>5, <2>6 DEF SemLeft
<1>15. SameOn(B, F, B, F) /\ DOMAIN F = Scope(d.esc, y.d)
  BY <1>5, <1>10, <1>12 DEF SameOn, SameNotes
<1> HIDE DEF s2
<1>16. Known(d, Front(T), Last(T), s2, p)
  BY <1>1, <1>9, <1>11, <1>13, <1>14, <1>15, LeaveKeeps DEF y, N
<1> QED
  BY <1>10, <1>16 DEF d, k, h, s2
-----------------------------------------------------------------------------
(* Selects as a whole.                                                     *)

(* Ending a branch and taking the next one at once is taking the next one. *)
LEMMA ItemTwice ==
  ASSUME NEW s, NEW n \in Nat, SemType(s, n), TopOf(s, "select"), NEW M, NEW x
  PROVE  /\ SelectItem(SelectItem(s, {}), M) = SelectItem(s, M)
         /\ SelectEnd(SelectItem(s, {})) = SelectEnd(s)
         /\ ItemMatch(SelectItem(s, {}), x) = ItemMatch(s, x)
         /\ TopFrame(SelectItem(s, {})).rest = TopFrame(s).rest
<1> DEFINE m == Len(s.frames)
           g == TopFrame(s)
           g1 == [g EXCEPT !.rest = @ \ {}, !.done = @ \cup s.live]
           g2 == [g1 EXCEPT !.rest = @ \ M, !.done = @ \cup {}]
           g3 == [g EXCEPT !.rest = @ \ M, !.done = @ \cup s.live]
           s1 == [s EXCEPT !.frames = [@ EXCEPT ![m] = g1], !.live = {}]
<1>1. /\ m \in Nat /\ m >= 1 /\ s.frames \in Seq(SemFrames) /\ DOMAIN s = {"live", "frames", "cur", "nba", "queued", "written"}
      /\ g \in [kind : {"select"}, sel : SUBSET Env, rest : SUBSET Env, done : SUBSET Env] /\ g = s.frames[m]
  BY FramesType DEF TopOf, SemType, TopFrame
<1>2. SelectItem(s, {}) = s1
  BY DEF SelectItem, SetTop, g, TopFrame
<1> HIDE DEF g
<1>3. /\ g1.rest = g.rest /\ g1.done = g.done \cup s.live /\ g1.sel = g.sel /\ g2 = g3
      /\ g1 \in [kind : {"select"}, sel : SUBSET Env, rest : SUBSET Env, done : SUBSET Env]
  <2>1. s.live \subseteq Env
    BY DEF SemType
  <2> QED
    BY <1>1, <2>1, ZenonT(60)
<1> HIDE DEF g1, g2, g3
<1>4. /\ s1.frames = [s.frames EXCEPT ![m] = g1] /\ s1.live = {} /\ s1.cur = s.cur
  BY <1>1
<1>5. /\ Len(s1.frames) = m /\ TopFrame(s1) = g1 /\ s1.frames[m] = g1
      /\ \A k \in 1..(m - 1) : s1.frames[k] = s.frames[k]
  BY <1>1, <1>4 DEF TopFrame
<1>6. [s1.frames EXCEPT ![m] = g2] = [s.frames EXCEPT ![m] = g3]
  BY <1>1, <1>3, <1>4
<1>7. SelectItem(s1, M) = SelectItem(s, M)
  <2>0. /\ Len(s1.frames) = m /\ TopFrame(s1) = g1 /\ s1.live = {}
        /\ SelectItem(s1, M) = [[s1 EXCEPT !.frames = [@ EXCEPT ![Len(s1.frames)] =
               [TopFrame(s1) EXCEPT !.rest = @ \ M, !.done = @ \cup s1.live]]] EXCEPT !.live = M]
    <3>1. Len(s1.frames) = m /\ TopFrame(s1) = g1 /\ s1.live = {}
      BY <1>4, <1>5
    <3> HIDE DEF s1
    <3> QED
      BY <3>1 DEF SelectItem, SetTop
  <2>1. SelectItem(s1, M) = [s1 EXCEPT !.frames = [@ EXCEPT ![m] = g2], !.live = M]
    <3> HIDE DEF s1, m
    <3> QED
      BY <2>0 DEF g2
  <2>2. SelectItem(s, M) = [s EXCEPT !.frames = [@ EXCEPT ![m] = g3], !.live = M]
    BY DEF SelectItem, SetTop, g3, g, TopFrame
  <2>3. SelectItem(s1, M) = [s1 EXCEPT !.frames = [s1.frames EXCEPT ![m] = g2], !.live = M]
    BY <2>1
  <2>4. SelectItem(s, M) = [s EXCEPT !.frames = [s.frames EXCEPT ![m] = g3], !.live = M]
    BY <2>2
  <2> DEFINE X == [s.frames EXCEPT ![m] = g3]
             Z == [s.frames EXCEPT ![m] = g1]
  <2> HIDE DEF X, Z
  <2>5. SelectItem(s1, M) = [s1 EXCEPT !.frames = X, !.live = M] /\ s1 = [s EXCEPT !.frames = Z, !.live = {}]
    BY <1>6, <2>3 DEF X, Z
  <2>6. [s1 EXCEPT !.frames = X, !.live = M] = [s EXCEPT !.frames = X, !.live = M]
    BY <1>1, <2>5
  <2> QED
    BY <2>4, <2>5, <2>6 DEF X
<1>8. SelectEnd(s1) = SelectEnd(s)
  <2> DEFINE X == SubSeq(s.frames, 1, m - 1)
             Z == [s.frames EXCEPT ![m] = g1]
             L == s.live \cup g.rest \cup g.done
  <2>1. SubSeq(s1.frames, 1, m - 1) = X
    BY <1>1, <1>4, <1>5
  <2> HIDE DEF X, Z, s1, L
  <2>2. PopFrame(s1) = [s1 EXCEPT !.frames = X] /\ PopFrame(s) = [s EXCEPT !.frames = X]
    BY <1>5, <2>1 DEF PopFrame, X
  <2>3. SelectEnd(s) = [s EXCEPT !.frames = X, !.live = L]
    BY <1>1, <2>2 DEF SelectEnd, L, g
  <2>4. SelectEnd(s1) = [s1 EXCEPT !.frames = X, !.live = {} \cup g1.rest \cup g1.done]
    BY <1>1, <1>4, <1>5, <2>2 DEF SelectEnd, s1
  <2>5. {} \cup g1.rest \cup g1.done = L
    BY <1>3 DEF L
  <2>6. s1 = [s EXCEPT !.frames = Z, !.live = {}]
    BY DEF s1, Z
  <2>7. [s1 EXCEPT !.frames = X, !.live = L] = [s EXCEPT !.frames = X, !.live = L]
    BY <1>1, <2>6
  <2> QED
    BY <2>3, <2>4, <2>5, <2>7
<1>9. Truth(s1, x) = Truth(s, x)
  BY <1>4 DEF Truth
<1> HIDE DEF s1
<1>10. ItemMatch(s1, x) = ItemMatch(s, x) /\ TopFrame(s1).rest = TopFrame(s).rest
  BY <1>3, <1>5, <1>9 DEF ItemMatch, g
<1> QED
  BY <1>2, <1>7, <1>8, <1>10

(* The valuations that go into the next branch. *)
HitFacts(c, T, f, s) ==
  /\ \A x \in InScope(T, f) : ItemMatch(s, x) = Hit(f.h, Eval(c, x), FALSE)
  /\ \A k : TopFrame(s).rest = Hit(f.h, k, TRUE)
  /\ TopOf(s, "select")

LEMMA ItemHit ==
  ASSUME NEW c, NEW T, NEW f, NEW s, NEW p, Known(c, T, f, s, p), Closing(f), c.diag = {}
  PROVE  HitFacts(c, T, f, s)
<1>1. PICK Y, z, V, B, F : Inv(c, T, f, s, p, Y, z, V, B, F)
  BY DEF Known
<1> DEFINE N == Names(c.nflag, p.nest)
           y == Y[Len(T) + 1]
           h == f.h
<1>2. /\ FrameAt(c.timing, c.esc, B, N, f, y, z, Len(T) + 1) /\ Meaning(c, T, f, s, Y, z, F)
  BY <1>1, InvFacts
<1> HIDE DEF N, y
<1>3. z.d = Calls(Append(T, f)) /\ z.d \in Nat
  <2>1. z.d \in Nat
    BY <1>2 DEF FrameAt, LayoutOK
  <2>2. z.d = Calls(Append(T, f))
    <3>1. ScopeIs(T, f, z, F)
      BY ONLY <1>1, KnownScope
    <3> QED
      BY <3>1 DEF ScopeIs
  <2> QED
    BY ONLY <2>1, <2>2
<1>4. f.kind = "select" /\ z.m = y.m + 1 /\ y.m \in Nat
  BY <1>2 DEF Closing, FrameAt, LayoutOK, Follows, NParks
<1>5. /\ SemType(s, z.d) /\ z.m = Len(s.frames) /\ z.w = s.live
      /\ SelectAt(TopFrame(s), h, y.w, s.live)
  BY <1>2, <1>4 DEF Meaning, SemAt, y, TopFrame, h
<1>6. /\ TopFrame(s).kind = "select" /\ TopFrame(s).rest = h.left
      /\ \A a \in h.left : a \in h.signal.on <=> a \in TopFrame(s).sel
  BY <1>5 DEF SelectAt
<1>7. TopOf(s, "select")
  BY <1>4, <1>5, <1>6 DEF TopOf
<1>8. ASSUME NEW x \in InScope(T, f) PROVE ItemMatch(s, x) = Hit(h, Eval(c, x), FALSE)
  <2>1. Known(c, T, f, s, p) /\ x \in InScope(T, f)
    OBVIOUS
  <2>2. Evaluates(c, s, x, Eval(c, x), Room(c, f))
    BY ONLY <2>1, RoomEval
  <2>3. Eval(c, x).on \cap h.left = Truth(s, x) \cap h.left
    BY <2>2 DEF Evaluates, Room
  <2> QED
    BY <1>6, <2>3 DEF ItemMatch, Hit
<1> QED
  BY <1>6, <1>7, <1>8 DEF Hit, HitFacts

(* What the semantics has at hand. *)
LEMMA KnownSem ==
  ASSUME NEW c, NEW T, NEW f, NEW s, NEW p, Known(c, T, f, s, p), c.diag = {}
  PROVE  SemType(s, Calls(Append(T, f))) /\ Calls(Append(T, f)) \in Nat
<1>1. PICK Y, z, V, B, F : Inv(c, T, f, s, p, Y, z, V, B, F)
  BY DEF Known
<1>2. ScopeIs(T, f, z, F)
  BY ONLY <1>1, KnownScope
<1>3. z.d = Calls(Append(T, f))
  BY <1>2 DEF ScopeIs
<1>4. SemType(s, z.d) /\ z.d \in Nat
  BY <1>1, InvFacts DEF Meaning, FrameAt, LayoutOK
<1> QED
  BY <1>3, <1>4

LEMMA KnownType ==
  ASSUME NEW c, NEW T, NEW f, NEW s, NEW p, Known(c, T, f, s, p)
  PROVE  c \in Contexts(Names(c.nflag, p.nest))
<1>1. PICK Y, z, V, B, F : Inv(c, T, f, s, p, Y, z, V, B, F)
  BY DEF Known
<1>2. Good(c, z.hs, V, Pending(f), Names(c.nflag, p.nest), B, F)
  BY <1>1, InvFacts
<1> QED
  BY ONLY <1>2, GoodFacts

(* A frame below the innermost one is one of the specification. *)
LEMMA KnownBelow ==
  ASSUME NEW c, NEW T, NEW f, NEW s, NEW p, Known(c, T, f, s, p), Len(T) >= 1
  PROVE  IsList(T) /\ Inner(Last(T)) /\ T = Append(Front(T), Last(T)) /\ IsList(Front(T))
<1>1. PICK Y, z, V, B, F : Inv(c, T, f, s, p, Y, z, V, B, F)
  BY DEF Known
<1>2. Under(c.timing, c.esc, B, Names(c.nflag, p.nest), T, Y)
  BY <1>1, InvFacts
<1>3. IsList(T)
  BY <1>2 DEF Under
<1>4. Inner(Last(T))
  BY <1>2, UnderPop
<1> QED
  BY <1>3, <1>4, ListEnd

(* The frame of a select that is being executed. *)
SelectKind(c, f) == f.open \in BOOLEAN /\ c.timing # "Initial"
                    /\ \E N : f.h \in Helpers(N)

LEMMA KnownSelect ==
  ASSUME NEW c, NEW T, NEW f, NEW s, NEW p, Known(c, T, f, s, p), f.kind = "select"
  PROVE  SelectKind(c, f)
<1>1. PICK Y, z, V, B, F : Inv(c, T, f, s, p, Y, z, V, B, F)
  BY DEF Known
<1> DEFINE N == Names(c.nflag, p.nest)
<1>2. FrameAt(c.timing, c.esc, B, N, f, Y[Len(T) + 1], z, Len(T) + 1)
  BY <1>1, InvFacts
<1> HIDE DEF N
<1>3. FrameOK(f, Y[Len(T) + 1].d, N, c.timing)
  BY <1>2 DEF FrameAt
<1>4. f.open \in BOOLEAN /\ c.timing # "Initial" /\ f.h \in Helpers(N)
  BY <1>3 DEF FrameOK, LoopOK
<1> QED
  BY <1>4 DEF SelectKind

(* if: the switch is opened and its branch entered. *)
IfEntered(c, T, f, s, p, x, e) ==
  /\ Known(e.c, Append(T, f), Select("if", e.h, TRUE), SelectItem(SelectBegin(s, x), s.live \cap Truth(s, x)), p)
  /\ e.c.timing = c.timing

LEMMA IfKeeps ==
  ASSUME NEW c, NEW T, NEW f, NEW s, NEW p, Known(c, T, f, s, p), Inner(f), Exact(c, s),
         c.timing # "Initial", NEW x \in InScope(T, f),
         NEW h, h = OpenSwitch(c, Eval(c, x)), NEW e, e = EnterBranch(c, h, S1, FALSE)
  PROVE  IfEntered(c, T, f, s, p, x, e)
<1> DEFINE d == [c EXCEPT !.cas = h.parent]
           U == Append(T, f)
           g == Select("if", h, FALSE)
           s1 == SelectBegin(s, x)
           M == s.live \cap Truth(s, x)
           f2 == Select("if", e.h, TRUE)
           r == Eval(c, x)
<1>1. Known(d, U, g, s1, p)
  BY SwitchKeeps
<1>3. c \in Contexts(Names(c.nflag, p.nest))
  BY KnownType
<1>4. d.diag = c.diag /\ d.timing = c.timing /\ d.rev = c.rev
  BY <1>3 DEF Contexts
<1>5. EnterBranch(d, h, S1, FALSE) = e
  <2>1. d = [c EXCEPT !.cas = h.parent]
    OBVIOUS
  <2>2. \A a, b : [d EXCEPT !.cas = a, !.rev = b] = [c EXCEPT !.cas = a, !.rev = b]
    BY <1>3 DEF Contexts
  <2> HIDE DEF d
  <2> QED
    BY <1>4, <2>2 DEF EnterBranch
<1>6. Closing(g) /\ SelectFrame(f2, e.h, TRUE) /\ g.h = h
  BY DEF Closing, Select, SelectFrame
<1>7. ASSUME d.diag = {} PROVE M = Hit(h, S1, FALSE)
  <2>1. Known(c, T, f, s, p) /\ x \in InScope(T, f) /\ ~Closing(f)
    BY DEF Inner, Closing
  <2>2. Evaluates(c, s, x, r, c.cas.on)
    BY ONLY <2>1, KnownEval
  <2>3. r \in Signals /\ r.on \cap c.cas.on = Truth(s, x) \cap c.cas.on
    BY <1>4, <1>7, <2>2 DEF Evaluates
  <2>4. c.cas.on = s.live /\ s.live \subseteq Env
    BY <1>4, <1>7, KnownShape DEF Exact
  <2>5. h.left = c.cas.on /\ h.signal = r
    BY <1>3, <2>3, OpenType
  <2> HIDE DEF r
  <2> QED
    BY <2>3, <2>4, <2>5, ConstSignals DEF Hit
<1> HIDE DEF d, U, g, s1, M, f2
<1>8. SelectFrame(f2, EnterBranch(d, g.h, S1, FALSE).h, TRUE) /\ (d.diag = {} => M = Hit(g.h, S1, FALSE))
  BY <1>5, <1>6, <1>7
<1>9. Known(EnterBranch(d, g.h, S1, FALSE).c, U, f2, SelectItem(s1, M), p)
  BY <1>1, <1>6, <1>8, OpenKeeps
<1>10. e.c.timing = c.timing
  BY <1>3 DEF EnterBranch, Contexts
<1> QED
  BY <1>5, <1>6, <1>9, <1>10 DEF U, f2, s1, M, IfEntered

(* The branch that is open is closed; if none is, nothing happens. *)
LEMMA CloseBranchKeeps ==
  ASSUME NEW c, NEW T, NEW f, NEW s, NEW p, Known(c, T, f, s, p), f.kind = "select",
         NEW g, SelectFrame(g, CloseBranch(c, f).h, FALSE)
  PROVE  /\ Known(CloseBranch(c, f).c, T, g, SelectItem(s, {}), p)
         /\ SameNotes(c, CloseBranch(c, f).c)
         /\ c.diag = {} => TopOf(s, "select")
<1>1. f.open \in BOOLEAN
  BY KnownSelect DEF SelectKind
<1>2. CASE f.open = TRUE
  <2>1. CloseBranch(c, f) = ExitBranch(Unwind(c, f.sw), f.h)
    BY <1>2 DEF CloseBranch
  <2> QED
    BY <1>2, <2>1, CloseKeeps
<1>3. CASE f.open = FALSE
  <2>1. CloseBranch(c, f).c = c /\ CloseBranch(c, f).h = f.h /\ Closing(f)
    BY <1>3 DEF CloseBranch, Closing
  <2>2. Known(c, T, g, SelectItem(s, {}), p)
    BY <2>1, DeadKeeps
  <2>3. c.diag = {} => TopOf(s, "select")
    <3>1. c.diag = {} => HitFacts(c, T, f, s)
      BY <2>1, ItemHit
    <3> QED
      BY <3>1 DEF HitFacts
  <2>4. SameNotes(c, c)
    BY DEF SameNotes
  <2> QED
    BY <2>1, <2>2, <2>3, <2>4
<1> QED
  BY <1>1, <1>2, <1>3

(* The frame of a select, none of whose branches is open, with helper h.   *)
Between(f, h) == [kind |-> "select", stmt |-> f.stmt, h |-> h, open |-> FALSE,
                  last |-> f.last, sw |-> <<>>]

(* What is at hand when the open branch has been closed. *)
ClosedFacts(c, T, f, s, p, d, g, s1) ==
  /\ Known(d.c, T, g, s1, p) /\ SameNotes(c, d.c) /\ Closing(g) /\ g.h = d.h
  /\ d.h.left \subseteq Env /\ d.h.signal \in Signals
  /\ InScope(T, g) = InScope(T, f)
  /\ \A M : SelectItem(s1, M) = SelectItem(s, M)
  /\ SelectEnd(s1) = SelectEnd(s)
  /\ \A x : ItemMatch(s1, x) = ItemMatch(s, x)
  /\ TopFrame(s1).rest = TopFrame(s).rest

LEMMA ClosedKeeps ==
  ASSUME NEW c, NEW T, NEW f, NEW s, NEW p, Known(c, T, f, s, p), f.kind = "select", c.diag = {}
  PROVE  LET d == CloseBranch(c, f)
         IN  ClosedFacts(c, T, f, s, p, d, Between(f, d.h), SelectItem(s, {}))
<1> DEFINE d == CloseBranch(c, f)
           g == Between(f, d.h)
           s1 == SelectItem(s, {})
<1>1. SelectFrame(g, d.h, FALSE) /\ Closing(g) /\ g.h = d.h /\ g.kind = f.kind
  BY DEF Between, SelectFrame, Closing
<1>2. Known(d.c, T, g, s1, p) /\ SameNotes(c, d.c) /\ TopOf(s, "select")
  BY <1>1, CloseBranchKeeps
<1>3. SemType(s, Calls(Append(T, f))) /\ Calls(Append(T, f)) \in Nat
  BY KnownSem
<1>4. /\ \A M : SelectItem(s1, M) = SelectItem(s, M)
      /\ SelectEnd(s1) = SelectEnd(s)
      /\ \A x : ItemMatch(s1, x) = ItemMatch(s, x)
      /\ TopFrame(s1).rest = TopFrame(s).rest
  BY <1>2, <1>3, ItemTwice
<1> HIDE DEF d, g, s1
<1>5. InScope(T, g) = InScope(T, f)
  <2>1. IsList(T)
    BY KnownShape
  <2> QED
    BY <1>1, <2>1, CallsSame DEF InScope
<1>6. d.h.left \subseteq Env /\ d.h.signal \in Signals
  <2>1. SelectKind(d.c, g)
    BY <1>1, <1>2, KnownSelect
  <2> QED
    BY <1>1, <2>1 DEF SelectKind, Helpers
<1> QED
  BY <1>1, <1>2, <1>4, <1>5, <1>6 DEF ClosedFacts, d, g, s1

ItemTaken(c, T, s, p, x, d, cmp, e, f2) ==
  /\ DeadBranch(d.h, cmp) /\ SelectFrame(f2, d.h, FALSE) =>
       Known(d.c, T, f2, SelectItem(s, ItemMatch(s, x)), p)
  /\ SelectFrame(f2, e.h, TRUE) =>
       Known(e.c, T, f2, SelectItem(s, ItemMatch(s, x)), p)
  /\ d.c.timing = c.timing /\ e.c.timing = c.timing

LEMMA CaseItemKeeps ==
  ASSUME NEW c, NEW T, NEW f, NEW s, NEW p, Known(c, T, f, s, p), f.kind = "select", c.diag = {},
         NEW x \in InScope(T, f), NEW d, d = CloseBranch(c, f),
         NEW cmp, cmp = Eval(d.c, x), NEW e, e = EnterBranch(d.c, d.h, cmp, FALSE),
         NEW f2
  PROVE  ItemTaken(c, T, s, p, x, d, cmp, e, f2)
<1> DEFINE g == Between(f, d.h)
           s1 == SelectItem(s, {})
           M == ItemMatch(s, x)
<1>1. ClosedFacts(c, T, f, s, p, d, g, s1)
  BY ClosedKeeps
<1> HIDE DEF g, s1, M
<1>2. /\ Known(d.c, T, g, s1, p) /\ d.c.diag = {} /\ d.c.timing = c.timing /\ Closing(g) /\ g.h = d.h
      /\ d.h.left \subseteq Env /\ d.h.signal \in Signals
      /\ x \in InScope(T, g) /\ SelectItem(s1, M) = SelectItem(s, M) /\ ItemMatch(s1, x) = M
      /\ SelectItem(s1, {}) = SelectItem(s, {})
  BY <1>1 DEF ClosedFacts, SameNotes, M
<1>3. M = Hit(g.h, cmp, FALSE)
  <2>1. HitFacts(d.c, T, g, s1)
    BY <1>2, ItemHit
  <2> QED
    BY <1>2, <2>1 DEF HitFacts
<1>4. cmp \in Signals
  <2>1. Known(d.c, T, g, s1, p) /\ x \in InScope(T, g)
    BY <1>2
  <2>2. Evaluates(d.c, s1, x, Eval(d.c, x), Room(d.c, g))
    BY ONLY <2>1, RoomEval
  <2> QED
    BY <2>2 DEF Evaluates
<1>5. ASSUME DeadBranch(d.h, cmp), SelectFrame(f2, d.h, FALSE)
      PROVE  Known(d.c, T, f2, SelectItem(s, M), p)
  <2>1. M = {}
    <3>1. {cmp, d.h.signal} = {S0, S1} \/ {cmp, d.h.signal} = {S1, S0}
      BY <1>2, <1>4, <1>5, SignalType DEF DeadBranch
    <3>2. \/ cmp.on = Env /\ d.h.signal.on = {}
          \/ cmp.on = {} /\ d.h.signal.on = Env
      BY <1>5, <3>1, ConstSignals DEF DeadBranch
    <3> QED
      BY <1>2, <1>3, <3>2 DEF Hit
  <2>2. Known(d.c, T, f2, SelectItem(s1, {}), p)
    BY <1>2, <1>5, DeadKeeps
  <2> QED
    BY <1>2, <2>1, <2>2
<1>6. ASSUME SelectFrame(f2, e.h, TRUE)
      PROVE  Known(e.c, T, f2, SelectItem(s, M), p)
  <2>1. SelectFrame(f2, EnterBranch(d.c, g.h, cmp, FALSE).h, TRUE)
        /\ (d.c.diag = {} => M = Hit(g.h, cmp, FALSE))
    BY <1>2, <1>3, <1>6
  <2>2. Known(EnterBranch(d.c, g.h, cmp, FALSE).c, T, f2, SelectItem(s1, M), p)
    BY <1>2, <2>1, OpenKeeps
  <2> QED
    BY <1>2, <2>2
<1>7. e.c.timing = d.c.timing
  <2>1. d.c \in Contexts(Names(d.c.nflag, p.nest))
    BY <1>2, KnownType
  <2> QED
    BY <2>1 DEF EnterBranch, Contexts
<1> QED
  BY <1>2, <1>5, <1>6, <1>7 DEF M, ItemTaken

(* What the frame of a select is once its default branch has been entered. *)
DefaultTaken(c, T, s, p, e, f2) ==
  Known(e.c, T, f2, SelectItem(s, TopFrame(s).rest), p) /\ e.c.timing = c.timing

(* else, or default: what no branch has taken so far. *)
LEMMA DefaultKeeps ==
  ASSUME NEW c, NEW T, NEW f, NEW s, NEW p, Known(c, T, f, s, p), f.kind = "select", c.diag = {},
         NEW d, d = CloseBranch(c, f), NEW e, e = EnterBranch(d.c, d.h, S1, TRUE),
         NEW f2, SelectFrame(f2, e.h, TRUE)
  PROVE  DefaultTaken(c, T, s, p, e, f2)
<1> DEFINE g == Between(f, d.h)
           s1 == SelectItem(s, {})
           M == TopFrame(s).rest
<1>1. ClosedFacts(c, T, f, s, p, d, g, s1)
  BY ClosedKeeps
<1> HIDE DEF g, s1, M
<1>2. /\ Known(d.c, T, g, s1, p) /\ d.c.diag = {} /\ d.c.timing = c.timing /\ Closing(g) /\ g.h = d.h
      /\ SelectItem(s1, M) = SelectItem(s, M) /\ TopFrame(s1).rest = M
  BY <1>1 DEF ClosedFacts, SameNotes, M
<1>3. M = Hit(g.h, S1, TRUE)
  <2>1. HitFacts(d.c, T, g, s1)
    BY <1>2, ItemHit
  <2> QED
    BY <1>2, <2>1 DEF HitFacts
<1>4. SelectFrame(f2, EnterBranch(d.c, g.h, S1, TRUE).h, TRUE)
      /\ (d.c.diag = {} => M = Hit(g.h, S1, TRUE))
  BY <1>2, <1>3
<1>5. Known(EnterBranch(d.c, g.h, S1, TRUE).c, T, f2, SelectItem(s1, M), p)
  BY <1>2, <1>4, OpenKeeps
<1>6. e.c.timing = d.c.timing
  <2>1. d.c \in Contexts(Names(d.c.nflag, p.nest))
    BY <1>2, KnownType
  <2> QED
    BY <2>1 DEF EnterBranch, Contexts
<1> QED
  BY <1>2, <1>5, <1>6 DEF M, DefaultTaken

LEMMA EndSelectKeeps ==
  ASSUME NEW c, NEW T, NEW f, NEW s, NEW p, Known(c, T, f, s, p), f.kind = "select", c.diag = {},
         Len(T) >= 1, NEW d, d = CloseBranch(c, f)
  PROVE  Known(Descend(Finish(d.c, d.h)), Front(T), Last(T), SelectEnd(s), p)
         /\ Descend(Finish(d.c, d.h)).timing = c.timing
<1> DEFINE g == Between(f, d.h)
           s1 == SelectItem(s, {})
<1>1. ClosedFacts(c, T, f, s, p, d, g, s1)
  BY ClosedKeeps
<1> HIDE DEF g, s1
<1>2. /\ Known(d.c, T, g, s1, p) /\ d.c.timing = c.timing /\ Closing(g) /\ g.h = d.h
      /\ SelectEnd(s1) = SelectEnd(s)
  BY <1>1 DEF ClosedFacts, SameNotes
<1>3. /\ Known(Descend(Finish(d.c, g.h)), Front(T), Last(T), SelectEnd(s1), p)
      /\ SameNotes(d.c, Descend(Finish(d.c, g.h)))
  BY <1>2, FinishKeeps
<1> QED
  BY <1>2, <1>3 DEF SameNotes

-----------------------------------------------------------------------------
(* Assignments.                                                            *)

LEMMA KnownAssign ==
  ASSUME NEW c, NEW T, NEW f, NEW s, NEW p, Known(c, T, f, s, p), ~Closing(f), Exact(c, s),
         NEW v, NEW r, NEW m, NEW b, NEW x, NEW w,
         Assigns(c, s, Calls(Append(T, f)), v, r, m, b, x, w)
  PROVE  LET d == Update(c, v, r, m, b)
             t == AssignVar(s, v, x, w, b)
         IN  Known(d, T, f, t, p) /\ Exact(d, t) /\ SameControl(c, d)
<1> DEFINE d == Update(c, v, r, m, b)
           t == AssignVar(s, v, x, w, b)
<1>1. PICK Y, z, V, B, F : Inv(c, T, f, s, p, Y, z, V, B, F)
  BY DEF Known
<1>2. ScopeIs(T, f, z, F)
  BY ONLY <1>1, KnownScope
<1>3. Assigns(c, s, z.d, v, r, m, b, x, w)
  BY <1>2 DEF ScopeIs
<1>5. /\ Inv(Update(c, v, r, m, b), T, f, AssignVar(s, v, x, w, b), p, Y, z, V, B,
             Assigned(c, F, v, r, m))
      /\ Exact(Update(c, v, r, m, b), AssignVar(s, v, x, w, b))
      /\ Noted(c, Update(c, v, r, m, b), v, r, m, b)
  BY <1>1, <1>3, AssignKeeps
<1> HIDE DEF d, t
<1>6. Known(d, T, f, t, p)
  BY <1>5 DEF Known, d, t
<1>7. Exact(d, t) /\ SameControl(c, d)
  BY <1>5 DEF d, t, Noted
<1> QED
  BY <1>6, <1>7 DEF d, t

(* What the elaborator evaluates means what the semantics reads. *)
LEMMA KnownMeans ==
  ASSUME NEW c, NEW T, NEW f, NEW s, NEW p, Known(c, T, f, s, p), ~Closing(f), Exact(c, s),
         NEW x \in InScope(T, f)
  PROVE  /\ Eval(c, x) \in Signals /\ Means(c, s, Eval(c, x), x)
         /\ c.timing = "Initial" /\ x[1] # "wire" => Eval(c, x) \in {S0, S1}
<1>1. Evaluates(c, s, x, Eval(c, x), c.cas.on)
  BY KnownEval
<1>2. Eval(c, x) \in Signals /\ (c.timing = "Initial" /\ x[1] # "wire" => Eval(c, x).const = TRUE)
  BY <1>1 DEF Evaluates
<1>3. Means(c, s, Eval(c, x), x)
  BY <1>1 DEF Evaluates, Means, Exact
<1> QED
  BY <1>2, <1>3, SignalType

LEMMA ConstMeans ==
  ASSUME NEW c, NEW s, NEW b \in BOOLEAN
  PROVE  Means(c, s, IF b THEN S1 ELSE S0, Const(b)) /\ Truth(s, Const(b)) = (IF b THEN Env ELSE {})
<1>1. Const(b)[1] = "const" /\ Const(b)[2] = b
  BY DEF Const
<1>2. Truth(s, Const(b)) = IF b THEN Env ELSE {}
  BY <1>1 DEF Truth
<1> QED
  BY <1>2, ConstSignals DEF Means

(* The expressions in scope only depend on the calls. *)
LEMMA ScopeSame ==
  ASSUME NEW c, NEW T, NEW f, NEW s, NEW p, Known(c, T, f, s, p), NEW g, g.kind = f.kind
  PROVE  /\ InScope(T, g) = InScope(T, f) /\ Calls(Append(T, g)) = Calls(Append(T, f))
         /\ Expressions(StaticVars) \subseteq InScope(T, f)
         /\ \A v \in StaticVars \cup LocalsTo(Calls(Append(T, f))) : Read(v) \in InScope(T, f)
<1>1. IsList(T)
  BY KnownShape
<1>2. Calls(Append(T, g)) = Calls(Append(T, f))
  BY <1>1, CallsSame
<1>3. InScope(T, g) = InScope(T, f)
  BY <1>2 DEF InScope
<1>4. Expressions(StaticVars) \subseteq InScope(T, f)
  BY DEF InScope, Expressions
<1>5. \A v \in StaticVars \cup LocalsTo(Calls(Append(T, f))) : Read(v) \in InScope(T, f)
  BY DEF InScope, Expressions
<1> QED
  BY <1>2, <1>3, <1>4, <1>5

(* An assignment statement. *)
LEMMA AssignStep ==
  ASSUME NEW c, NEW T, NEW f, NEW s, NEW p, Known(c, T, f, s, p), ~Closing(f), Exact(c, s),
         NEW v \in StaticVars \cup LocalsTo(Calls(Append(T, f))), NEW b \in BOOLEAN, b = TRUE \/ v \in StaticVars,
         NEW x \in InScope(T, f), NEW w \in InScope(T, f), c.timing = "Initial" => w[1] # "wire"
  PROVE  LET d == Update(c, v, Eval(c, x), Eval(c, w), b)
             t == AssignVar(s, v, x, w, b)
         IN  Known(d, T, f, t, p) /\ Exact(d, t) /\ SameControl(c, d)
<1>1. Eval(c, x) \in Signals /\ Means(c, s, Eval(c, x), x)
  BY KnownMeans
<1>2. /\ Eval(c, w) \in Signals /\ Means(c, s, Eval(c, w), w)
      /\ c.timing = "Initial" => Eval(c, w) \in {S0, S1}
  BY KnownMeans
<1>3. Assigns(c, s, Calls(Append(T, f)), v, Eval(c, x), Eval(c, w), b, x, w)
  BY <1>1, <1>2 DEF Assigns
<1> QED
  BY <1>3, KnownAssign

(* An unmasked one. *)
LEMMA SimpleStep ==
  ASSUME NEW c, NEW T, NEW f, NEW s, NEW p, Known(c, T, f, s, p), ~Closing(f), Exact(c, s),
         NEW v \in StaticVars \cup LocalsTo(Calls(Append(T, f))), NEW r \in Signals, NEW x, Means(c, s, r, x)
  PROVE  LET d == SimpleAssign(c, v, r)
             t == AssignVar(s, v, x, Const(TRUE), TRUE)
         IN  Known(d, T, f, t, p) /\ Exact(d, t) /\ SameControl(c, d)
<1>1. Means(c, s, S1, Const(TRUE))
  BY ConstMeans
<1>2. Assigns(c, s, Calls(Append(T, f)), v, r, S1, TRUE, x, Const(TRUE))
  BY <1>1, ConstSignals DEF Assigns
<1> QED
  BY <1>2, KnownAssign DEF SimpleAssign

-----------------------------------------------------------------------------
(* Registering a guard.                                                    *)

LEMMA NamesStatic ==
  ASSUME NEW n, NEW q
  PROVE  \A v \in Names(n, q) : IsStatic(v) => v \in StaticVars
BY NameFacts DEF Names, LocalsTo

LEMMA FlagIsNew ==
  ASSUME NEW n \in Nat, NEW q
  PROVE  Flag(n) \notin Names(n, q) /\ Flag(n) \in Names(n + 1, q) /\ Names(n, q) \subseteq Names(n + 1, q)
         /\ Flag(n) \in Flags
<1>1. n \in 0..(n + 1 - 1) /\ n \notin 0..(n - 1) /\ 0..(n - 1) \subseteq 0..(n + 1 - 1)
  OBVIOUS
<1>2. Flag(n) \notin StaticVars /\ Flag(n) \notin LocalsTo(q)
  BY NameFacts DEF LocalsTo
<1>3. Flag(n) \notin {Flag(i) : i \in 0..(n - 1)}
  BY <1>1, NameFacts
<1> QED
  BY <1>1, <1>2, <1>3 DEF Names, Flags

(* A list with one more guard. *)
MoreGuards(esc, n, kind, esc2) ==
  /\ Len(esc2) = Len(esc) + 1 /\ (\A i \in 1..Len(esc) : esc2[i] = esc[i])
  /\ esc2[Len(esc) + 1] = [kind |-> kind, flag |-> Flag(n)]
  /\ (\A i \in 1..Len(esc) : esc[i].flag # Flag(n))
  /\ Numbered(esc2, n + 1) /\ (\A d : Scope(esc2, d) = Scope(esc, d) \cup {Flag(n)})
  /\ esc2 # <<>> /\ Last(esc2).flag = Flag(n)

LEMMA GuardAdded ==
  ASSUME NEW esc \in Seq(Guards), NEW n \in Nat, Numbered(esc, n),
         NEW kind \in {"Loop", "LoopBody", "FunctionBody"}
  PROVE  MoreGuards(esc, n, kind, Append(esc, [kind |-> kind, flag |-> Flag(n)]))
<1> DEFINE g == [kind |-> kind, flag |-> Flag(n)]
           esc2 == Append(esc, g)
           k == Len(esc)
<1>1. g.flag = Flag(n) /\ g.kind = kind /\ k \in Nat
  OBVIOUS
<1> HIDE DEF g
<1>2. /\ Len(esc2) = k + 1 /\ (\A i \in 1..k : esc2[i] = esc[i]) /\ esc2[k + 1] = g
      /\ esc2 # <<>> /\ Last(esc2) = g
  BY <1>1 DEF Last
<1> HIDE DEF esc2
<1>3. \A i \in 1..k : esc[i].flag # Flag(n) /\ esc[i].flag \in {Flag(j) : j \in 0..(n - 1)}
  BY NameFacts DEF Numbered
<1>4. 1..(k + 1) = 1..k \cup {k + 1} /\ 0..(n + 1 - 1) = 0..n /\ 0..(n - 1) \subseteq 0..n /\ n \in 0..n
  BY <1>1
<1>5. \A i \in 1..Len(esc2) : esc2[i].flag \in {Flag(j) : j \in 0..(n + 1 - 1)}
  <2> TAKE i \in 1..Len(esc2)
  <2>1. CASE i \in 1..k
    BY <1>2, <1>3, <1>4, <2>1
  <2>2. CASE i = k + 1
    BY <1>1, <1>2, <1>4, <2>2
  <2> QED
    BY <1>2, <1>4, <2>1, <2>2
<1>6. \A i, j \in 1..Len(esc2) : esc2[i].flag = esc2[j].flag => i = j
  <2> TAKE i, j \in 1..Len(esc2)
  <2>1. CASE i \in 1..k /\ j \in 1..k
    BY <1>2, <2>1 DEF Numbered
  <2>2. CASE i = k + 1 \/ j = k + 1
    BY <1>1, <1>2, <1>3, <1>4, <2>2
  <2> QED
    BY <1>2, <1>4, <2>1, <2>2
<1>7. \A d : Scope(esc2, d) = Scope(esc, d) \cup {Flag(n)}
  <2>1. {esc2[i].flag : i \in 1..Len(esc2)} = {esc[i].flag : i \in 1..Len(esc)} \cup {Flag(n)}
    BY <1>1, <1>2, <1>4, SMTT(30)
  <2> QED
    BY <2>1 DEF Scope
<1> QED
  BY <1>1, <1>2, <1>3, <1>5, <1>6, <1>7 DEF MoreGuards, Numbered, esc2, g

RegisterFacts(c, d, kind, H, V, p, B, F) ==
  LET v == Flag(c.nflag)
  IN  /\ Good(d, H, V, <<>>, Names(c.nflag + 1, p.nest), Extend(B, v, Len(H)), Extend(F, v, {}))
      /\ d.esc = Append(c.esc, [kind |-> kind, flag |-> v]) /\ d.nflag = c.nflag + 1
      /\ d.timing = c.timing /\ d.cas.on = c.cas.on /\ d.unrolling = c.unrolling
      /\ d.exhausted = c.exhausted /\ d.broken = c.broken /\ c.diag \subseteq d.diag
      /\ d.blocking = c.blocking /\ d.nonblocking = c.nonblocking

LEMMA RegisterGood ==
  ASSUME NEW c, NEW H, NEW V, NEW p, NEW B, NEW F,
         Good(c, H, V, <<>>, Names(c.nflag, p.nest), B, F),
         NEW kind \in {"Loop", "LoopBody", "FunctionBody"}
  PROVE  RegisterFacts(c, Register(c, kind), kind, H, V, p, B, F)
<1> DEFINE v == Flag(c.nflag)
           g == [kind |-> kind, flag |-> v]
           N == Names(c.nflag, p.nest)
           M == Names(c.nflag + 1, p.nest)
           e == [c EXCEPT !.nflag = @ + 1, !.esc = Append(@, g)]
           d == SimpleAssign(e, v, S0)
<1>1. /\ c \in Contexts(N) /\ c.esc \in Seq(Guards) /\ c.nflag \in Nat /\ DOMAIN F \subseteq N
      /\ c.cas.on \subseteq Env
  BY GoodFacts, ContextType
<1>2. v \notin N /\ v \in M /\ N \subseteq M /\ v \in Flags /\ (\A u \in M : IsStatic(u) => u \in StaticVars)
  BY <1>1, FlagIsNew, NamesStatic
<1>3. Good(c, H, V, <<>>, N, B, F)
  OBVIOUS
<1> HIDE DEF N, M, v
<1>4. g \in Guards
  BY <1>2 DEF Guards
<1> HIDE DEF g
<1>5. e \in Contexts(M) /\ SameStore(c, e) /\ e.nflag = c.nflag + 1 /\ e.esc = Append(c.esc, g)
      /\ e.unrolling = c.unrolling /\ e.exhausted = c.exhausted /\ e.broken = c.broken
      /\ e.diag = c.diag /\ e.blocking = c.blocking /\ e.nonblocking = c.nonblocking
      /\ e.timing = c.timing /\ e.cas.on = c.cas.on
  <2>1. c \in Contexts(M)
    BY <1>1, <1>2, ContextsGrow
  <2>2. Append(c.esc, g) \in Seq(Guards) /\ c.nflag + 1 \in Nat
    BY <1>1, <1>4
  <2> QED
    BY <2>1, <2>2 DEF Contexts, SameStore
<1> HIDE DEF e
<1>6. Good(e, H, V, <<>>, M, B, F)
  BY <1>2, <1>3, <1>5, SameLevels
<1>7. /\ Good(SimpleAssign(e, v, S0), H, V, <<>>, M,
              Extend(B, v, Len(H)), Extend(F, v, S0.on \cap e.cas.on))
      /\ Noted(e, SimpleAssign(e, v, S0), v, S0, S1, TRUE)
  <2>1. v \notin DOMAIN F /\ S0 \in Signals /\ S0.const = TRUE
    BY <1>1, <1>2, ConstSignals
  <2> QED
    BY <1>2, <1>6, <2>1, DeclareGood
<1>8. S0.on \cap e.cas.on = {} /\ S1 # S0
  BY ConstSignals
<1>9. NoteAssignment(e, v, TRUE) = e
  BY NameFacts DEF NoteAssignment, v
<1> HIDE DEF d
<1>10. /\ SameControl(e, d) /\ d.broken = e.broken /\ d.blocking = e.blocking
       /\ d.nonblocking = e.nonblocking
  BY <1>7, <1>8, <1>9 DEF Noted, d
<1>11. Register(c, kind) = d
  BY DEF Register, d, e, g, v
<1>12. Good(d, H, V, <<>>, M, Extend(B, v, Len(H)), Extend(F, v, {}))
  BY <1>7, <1>8 DEF d
<1> HIDE DEF d
<1>13. /\ d.esc = Append(c.esc, g) /\ d.nflag = c.nflag + 1
       /\ d.timing = c.timing /\ d.cas.on = c.cas.on /\ d.unrolling = c.unrolling
       /\ d.exhausted = c.exhausted /\ d.broken = c.broken /\ c.diag \subseteq d.diag
       /\ d.blocking = c.blocking /\ d.nonblocking = c.nonblocking
  BY <1>5, <1>10 DEF SameControl
<1> QED
  BY <1>11, <1>12, <1>13 DEF RegisterFacts, g, v, M

-----------------------------------------------------------------------------
(* Loops.                                                                  *)

Unrolled(c, d) ==
  /\ SameStore(c, d) /\ d.esc = c.esc /\ d.nflag = c.nflag /\ d.broken = c.broken
  /\ d.diag = c.diag /\ d.blocking = c.blocking /\ d.nonblocking = c.nonblocking

LEMMA UnrollingFacts ==
  ASSUME NEW N, NEW c \in Contexts(N)
  PROVE  /\ EnterUnrolling(c) \in Contexts(N) /\ Unrolled(c, EnterUnrolling(c))
         /\ EnterUnrolling(c).unrolling = c.unrolling + 1
         /\ c.exhausted = FALSE => EnterUnrolling(c).exhausted = FALSE
         /\ c.unrolling >= 1 =>
              /\ ExitUnrolling(c) \in Contexts(N) /\ Unrolled(c, ExitUnrolling(c))
              /\ ExitUnrolling(c).unrolling = c.unrolling - 1
              /\ ExitUnrolling(c).exhausted = c.exhausted
<1>1. c.unrolling \in Nat
  BY ContextType
<1>2. /\ EnterUnrolling(c) \in Contexts(N) /\ Unrolled(c, EnterUnrolling(c))
      /\ EnterUnrolling(c).unrolling = c.unrolling + 1
      /\ c.exhausted = FALSE => EnterUnrolling(c).exhausted = FALSE
  <2> DEFINE d == EnterUnrolling(c)
             e == [c EXCEPT !.unrolling = 1, !.counter = 0, !.exhausted = FALSE]
  <2>1. CASE c.unrolling = 0
    <3>1. d = e
      BY <2>1 DEF EnterUnrolling
    <3>2. e \in Contexts(N) /\ Unrolled(c, e) /\ e.unrolling = 1 /\ e.exhausted = FALSE
      BY DEF Contexts, Unrolled, SameStore
    <3> HIDE DEF d, e
    <3> QED
      BY <2>1, <3>1, <3>2 DEF d
  <2>2. CASE c.unrolling # 0
    <3> DEFINE k == c.unrolling + 1
               a == [c EXCEPT !.unrolling = k]
    <3>1. d = a /\ k \in Nat
      BY <1>1, <2>2 DEF EnterUnrolling
    <3> HIDE DEF k
    <3>2. a \in Contexts(N) /\ Unrolled(c, a) /\ a.unrolling = k /\ a.exhausted = c.exhausted
      BY <3>1 DEF Contexts, Unrolled, SameStore
    <3> HIDE DEF d, a
    <3> QED
      BY <3>1, <3>2 DEF d, k
  <2> QED
    BY <2>1, <2>2
<1> DEFINE k == c.unrolling - 1
           d == [c EXCEPT !.unrolling = k]
<1>3. ASSUME c.unrolling >= 1
      PROVE  /\ ExitUnrolling(c) \in Contexts(N) /\ Unrolled(c, ExitUnrolling(c))
             /\ ExitUnrolling(c).unrolling = k /\ ExitUnrolling(c).exhausted = c.exhausted
  <2>1. k \in Nat
    BY <1>1, <1>3
  <2>2. ExitUnrolling(c) = d
    BY DEF ExitUnrolling
  <2> HIDE DEF k
  <2>3. d \in Contexts(N) /\ Unrolled(c, d) /\ d.unrolling = k /\ d.exhausted = c.exhausted
    BY <2>1 DEF Contexts, Unrolled, SameStore
  <2> QED
    BY <2>2, <2>3
<1> QED
  BY <1>2, <1>3

(* A loop is entered: its guard is registered and its budget opened. *)
LEMMA PushLoop ==
  ASSUME NEW c, NEW T, NEW f, NEW s, NEW p, Known(c, T, f, s, p), Inner(f), Exact(c, s),
         NEW d, d = EnterUnrolling(Register(c, "Loop")),
         NEW l, LoopOK(l, Calls(Append(T, f)), c.timing), l.flag = Flag(c.nflag)
  PROVE  /\ Known(d, Append(T, f), AtHead(l, <<>>), LoopBegin(s), p)
         /\ Exact(d, LoopBegin(s)) /\ d.timing = c.timing
         /\ d.esc # <<>> /\ DisableFlag(d) = l.flag
<1>1. PICK Y, z, V, B, F : Inv(c, T, f, s, p, Y, z, V, B, F)
  BY DEF Known
<1> DEFINE N == Names(c.nflag, p.nest)
           M == Names(c.nflag + 1, p.nest)
           y == Y[Len(T) + 1]
           v == Flag(c.nflag)
           g == AtHead(l, <<>>)
           s2 == LoopBegin(s)
           x == Over0(g, z, s2.live)
           e == Register(c, "Loop")
           B2 == Extend(B, v, Len(z.hs))
           F2 == Extend(F, v, {})
<1>2. /\ Good(c, z.hs, V, <<>>, N, B, F) /\ FrameAt(c.timing, c.esc, B, N, f, y, z, Len(T) + 1)
      /\ Scoped(c, z, B, F) /\ c.broken = FALSE /\ (c.diag = {} => Meaning(c, T, f, s, Y, z, F))
  BY <1>1, InvFacts DEF Inner, Pending, Closing
<1>3. LoopOK(l, z.d, c.timing)
  <2>1. ScopeIs(T, f, z, F)
    BY ONLY <1>1, KnownScope
  <2> QED
    BY <2>1 DEF ScopeIs
<1>4. RegisterFacts(c, e, "Loop", z.hs, V, p, B, F)
  BY <1>2, RegisterGood
<1> HIDE DEF N, y, e, x, s2, B2, F2
<1>5. /\ Good(e, z.hs, V, <<>>, M, B2, F2)
      /\ e.esc = Append(c.esc, [kind |-> "Loop", flag |-> v]) /\ e.nflag = c.nflag + 1
      /\ e.timing = c.timing /\ e.cas.on = c.cas.on /\ e.unrolling = c.unrolling
      /\ e.exhausted = c.exhausted /\ e.broken = c.broken /\ c.diag \subseteq e.diag
      /\ e.blocking = c.blocking /\ e.nonblocking = c.nonblocking
  BY <1>4 DEF RegisterFacts, B2, F2
<1>6. /\ c.esc \in Seq(Guards) /\ c.nflag \in Nat /\ e \in Contexts(M)
  BY <1>2, <1>5, GoodFacts, ContextType
<1>7. /\ d \in Contexts(M) /\ Unrolled(e, d) /\ d.unrolling = e.unrolling + 1
      /\ e.exhausted = FALSE => d.exhausted = FALSE
  BY <1>6, UnrollingFacts DEF e
<1>8. /\ d.esc = Append(c.esc, [kind |-> "Loop", flag |-> v]) /\ d.nflag = c.nflag + 1
      /\ d.timing = c.timing /\ d.cas.on = c.cas.on /\ d.unrolling = c.unrolling + 1
      /\ d.broken = FALSE /\ c.diag \subseteq d.diag
      /\ d.blocking = c.blocking /\ d.nonblocking = c.nonblocking
  BY <1>2, <1>5, <1>7 DEF Unrolled, SameStore
<1>9. Good(d, z.hs, V, <<>>, M, B2, F2)
  BY <1>5, <1>7, NamesStatic, SameLevels DEF Unrolled
<1>10. /\ z.n = Len(c.esc) /\ z.l = c.unrolling /\ Numbered(c.esc, c.nflag) /\ DOMAIN F = Scope(c.esc, z.d)
  BY <1>2 DEF Scoped
<1>11. MoreGuards(c.esc, c.nflag, "Loop", d.esc)
  BY <1>6, <1>8, <1>10, GuardAdded
<1>12. LayoutOK(z, N) /\ z.n \in Nat /\ z.d \in Nat /\ z.m \in Nat /\ z.l \in Nat
  BY <1>2 DEF FrameAt, LayoutOK
<1>13. g.kind = "head" /\ Opened(g) = <<>> /\ g.loop = l /\ DOMAIN g = {"kind", "loop", "sw"} /\ g.sw = <<>>
  BY DEF AtHead, Opened
<1> HIDE DEF g
<1>14. /\ x.hs = z.hs /\ x.w = s2.live /\ x.n = z.n + 1 /\ x.m = z.m + 1 /\ x.d = z.d /\ x.l = z.l + 1
  <2>1. /\ x.hs = z.hs /\ x.w = s2.live
        /\ x.n = z.n + NGuards(g.kind) /\ x.m = z.m + NParks(g.kind)
        /\ x.d = z.d + NCalls(g.kind) /\ x.l = z.l + NLoops(g.kind)
    BY <1>12, <1>13, Over0Facts DEF x
  <2>2. NGuards(g.kind) = 1 /\ NParks(g.kind) = 1 /\ NCalls(g.kind) = 0 /\ NLoops(g.kind) = 1
    BY <1>13 DEF NGuards, NCalls, NLoops, NParks
  <2> QED
    BY <1>12, <2>1, <2>2
<1>15. /\ Len(d.esc) = z.n + 1 /\ (\A i \in 1..z.n : d.esc[i] = c.esc[i])
       /\ d.esc[z.n + 1].kind = "Loop" /\ d.esc[z.n + 1].flag = v
       /\ (\A i \in 1..z.n : c.esc[i].flag # v)
       /\ Numbered(d.esc, d.nflag) /\ Scope(d.esc, x.d) = DOMAIN F \cup {v}
       /\ d.esc # <<>> /\ DisableFlag(d) = v
  BY <1>8, <1>10, <1>11, <1>14 DEF MoreGuards, DisableFlag
<1>16. v \notin DOMAIN F
  <2>1. DOMAIN F \subseteq N
    BY <1>2, GoodFacts
  <2> QED
    BY <1>6, <2>1, FlagIsNew DEF N
<1>17. /\ DOMAIN F2 = DOMAIN F \cup {v} /\ F2[v] = {}
       /\ \A u \in DOMAIN F : F2[u] = F[u] /\ B2[u] = B[u]
  <2>1. DOMAIN B = DOMAIN F
    BY <1>2, GoodFacts
  <2> QED
    BY <1>16, <2>1 DEF F2, B2, Extend
<1>18. Gained(c, d, z, x, g)
  <2>1. Guarding(g, z, d.esc)
    BY <1>13, <1>15 DEF Guarding
  <2>2. c.nflag <= d.nflag
    BY <1>6, <1>8
  <2> QED
    BY <1>8, <1>10, <1>14, <1>15, <2>1, <2>2 DEF Gained
<1>19. SameOld(B, F, d, B2, F2)
  BY <1>17 DEF SameOld
<1>20. ASSUME d.diag = {} PROVE SemGained(c, d, s, s2, F2, g, z, x)
  <2>1. c.diag = {}
    BY <1>8, <1>20
  <2>2. /\ SemType(s, z.d) /\ Mirrors(s, c, F, z.d) /\ z.m = Len(s.frames) /\ z.w = s.live
        /\ Placed(c, f, F, z) /\ c.exhausted = FALSE
    BY <1>2, <2>1 DEF Meaning
  <2>3. c.cas.on \ Raised(c.esc, F, z.n) = z.w
    BY <2>2 DEF Placed, Inner, Closing
  <2>4. /\ SemType(s2, z.d) /\ SameValues(s, s2) /\ s2.live = s.live
        /\ Topped(s, s2, [kind |-> "loop", out |-> {}, skip |-> {}])
    BY <1>12, <2>2, LoopBeginFields DEF s2
  <2>5. \A u \in StaticVars \cup LocalsTo(z.d) : F2[u] = F[u]
    BY <1>2, <1>17, ScopeFacts
  <2>6. z.d <= z.d
    BY <1>12
  <2>7. Mirrors(s2, d, F2, z.d)
    BY <1>8, <1>12, <2>2, <2>4, <2>5, <2>6, MirrorsKept
  <2>8. OnAt(d, z.hs, Len(z.hs)) = c.cas.on
    <3>1. ~(Len(z.hs) < Len(z.hs))
      BY <1>12 DEF LayoutOK
    <3> QED
      BY <1>8, <3>1 DEF OnAt
  <2>9. Raised(d.esc, F2, z.n) = Raised(c.esc, F, z.n)
    <3>1. z.n # 0 => z.n \in 1..z.n /\ c.esc[z.n].flag \in DOMAIN F
      BY <1>2, <1>10, <1>12, ScopeFacts
    <3> QED
      BY <1>15, <1>17, <3>1 DEF Raised
  <2>10. Raised(d.esc, F2, x.n) = {}
    BY <1>12, <1>14, <1>15, <1>17 DEF Raised
  <2>11. HeadAt(s2.frames[x.m], z.w, x.w)
    BY <1>14, <2>2, <2>4 DEF Topped, HeadAt
  <2>12. SemAt(d, z.hs, F2, s2.frames, g, z, x)
    BY <1>13, <2>3, <2>8, <2>9, <2>11 DEF SemAt
  <2>13. Placed(d, g, F2, x)
    BY <1>8, <1>13, <1>14, <2>1, <2>4, <2>10 DEF Placed, Closing, Exact
  <2>14. x.m = Len(s2.frames) /\ \A i \in 1..z.m : s2.frames[i] = s.frames[i]
    BY <1>14, <2>2, <2>4 DEF Topped
  <2>15. d.exhausted = FALSE
    BY <1>5, <1>7, <2>2
  <2> QED
    BY <1>14, <2>1, <2>4, <2>7, <2>12, <2>13, <2>14, <2>15 DEF SemGained
<1>21. /\ Good(d, z.hs, V, Pending(g), Names(d.nflag, p.nest), B2, F2) /\ Settled(d, g)
       /\ FrameOK(g, z.d, Names(d.nflag, p.nest), d.timing) /\ DOMAIN F2 = Scope(d.esc, x.d)
  <2>1. FrameOK(g, z.d, Names(d.nflag, p.nest), d.timing)
    <3>1. <<>> \in Seq(Helpers(Names(d.nflag, p.nest)))
      OBVIOUS
    <3> QED
      BY <1>3, <1>8, <1>13, <3>1 DEF FrameOK
  <2>2. Pending(g) = <<>> /\ Settled(d, g)
    BY <1>13 DEF Pending, Settled, Closing
  <2> QED
    BY <1>8, <1>9, <1>15, <1>17, <2>1, <2>2
<1>22. Inv(d, Append(T, f), g, s2, p, Above(Y, Len(T), z), x, V, B2, F2)
  BY <1>1, <1>13, <1>18, <1>19, <1>20, <1>21, PushKeeps DEF x
<1>23. Known(d, Append(T, f), g, s2, p)
  BY <1>22 DEF Known
<1>24. Exact(d, s2)
  <2>1. ASSUME d.diag = {} PROVE d.cas.on = s2.live
    <3>1. c.diag = {} /\ SemType(s, z.d)
      BY <1>2, <1>8, <2>1 DEF Meaning
    <3>2. s2.live = s.live
      BY <1>12, <3>1, LoopBeginFields DEF s2
    <3> QED
      BY <1>8, <3>1, <3>2 DEF Exact
  <2> QED
    BY <2>1 DEF Exact
<1> QED
  BY <1>8, <1>15, <1>23, <1>24 DEF g, s2

(* What is known of a loop between two iterations. *)
HeadFacts(c, T, l, s) ==
  /\ c.esc # <<>> /\ l.flag = DisableFlag(c) /\ LoopOK(l, Calls(Append(T, l)), c.timing)
  /\ l.cond \in Expressions(StaticVars \cup LocalsTo(Calls(Append(T, l))))
  /\ Len(T) >= 1
  /\ c.diag = {} => TopOf(s, "loop") /\ c.exhausted = FALSE /\ SemType(s, Calls(Append(T, l)))

LEMMA CallsOfLoop ==
  ASSUME NEW T, IsList(T), NEW l, l.kind = "loop", NEW sw
  PROVE  Calls(Append(T, AtHead(l, sw))) = Calls(Append(T, l))
<1> DEFINE h == AtHead(l, sw)
           t == Append(T, h)
           u == Append(T, l)
<1>1. /\ Len(T) \in Nat /\ DOMAIN t = 1..(Len(T) + 1) /\ DOMAIN u = 1..(Len(T) + 1)
      /\ \A j \in 1..Len(T) : t[j] = T[j] /\ u[j] = T[j]
      /\ t[Len(T) + 1] = h /\ u[Len(T) + 1] = l
  BY ListFacts
<1>2. h.kind = "head"
  BY DEF AtHead
<1> HIDE DEF t, u, h
<1>3. \A i \in 1..(Len(T) + 1) : t[i].kind = "call" <=> u[i].kind = "call"
  <2> TAKE i \in 1..(Len(T) + 1)
  <2>1. i \in 1..Len(T) \/ i = Len(T) + 1
    BY <1>1
  <2> QED
    BY <1>1, <1>2, <2>1
<1>4. {i \in DOMAIN t : t[i].kind = "call"} = {i \in DOMAIN u : u[i].kind = "call"}
  BY <1>1, <1>3
<1> QED
  BY <1>4 DEF Calls, t, u, h

LEMMA HeadKnown ==
  ASSUME NEW c, NEW T, NEW l, NEW sw, NEW s, NEW p, Known(c, T, AtHead(l, sw), s, p)
  PROVE  HeadFacts(c, T, l, s)
<1> DEFINE h == AtHead(l, sw)
<1>1. PICK Y, z, V, B, F : Inv(c, T, h, s, p, Y, z, V, B, F)
  BY DEF Known
<1> DEFINE N == Names(c.nflag, p.nest)
           y == Y[Len(T) + 1]
<1>2. /\ FrameAt(c.timing, c.esc, B, N, h, y, z, Len(T) + 1) /\ Scoped(c, z, B, F)
      /\ (c.diag = {} => Meaning(c, T, h, s, Y, z, F)) /\ Good(c, z.hs, V, Pending(h), N, B, F)
  BY <1>1, InvFacts
<1>3. ScopeIs(T, h, z, F)
  BY ONLY <1>1, KnownScope
<1>4. h.kind = "head" /\ h.loop = l
  BY DEF AtHead
<1> HIDE DEF h, N, y
<1>5. /\ LayoutOK(y, N) /\ LayoutOK(z, N) /\ Follows(h, y, z) /\ LoopOK(l, y.d, c.timing)
      /\ Guarding(h, y, c.esc) /\ y.d < Len(T) + 1 /\ Len(T) + 1 # 1
  BY <1>2, <1>4 DEF FrameAt, FrameOK, LoopOK
<1>6. z.d = y.d /\ z.n = y.n + 1 /\ y.n \in Nat /\ z.m = y.m + 1 /\ y.m \in Nat /\ z.d \in Nat
  BY <1>4, <1>5 DEF LayoutOK, Follows, NCalls, NGuards, NParks
<1>7. Len(T) >= 1
  <2>1. Len(T) \in Nat
    BY <1>3, ListFacts DEF ScopeIs
  <2> QED
    BY <1>5, <2>1
<1>8. c.esc # <<>> /\ l.flag = DisableFlag(c)
  <2>1. Len(c.esc) = y.n + 1 /\ c.esc[y.n + 1].flag = l.flag
    BY <1>2, <1>4, <1>5, <1>6 DEF Scoped, Guarding
  <2>2. c.esc # <<>>
    BY <1>6, <2>1
  <2> QED
    BY <2>1, <2>2 DEF DisableFlag, Last
<1>9. Calls(Append(T, l)) = z.d
  <2>1. Calls(Append(T, h)) = z.d /\ IsList(T)
    BY <1>3 DEF ScopeIs
  <2>2. l.kind = "loop"
    BY <1>5 DEF LoopOK
  <2> QED
    BY <2>1, <2>2, CallsOfLoop DEF h
<1>10. LoopOK(l, Calls(Append(T, l)), c.timing)
  BY <1>5, <1>6, <1>9
<1>11. ASSUME c.diag = {} PROVE TopOf(s, "loop") /\ c.exhausted = FALSE /\ SemType(s, Calls(Append(T, l)))
  <2>1. /\ SemType(s, z.d) /\ z.m = Len(s.frames) /\ c.exhausted = FALSE
        /\ SemAt(c, z.hs, F, s.frames, h, y, z)
    BY <1>2, <1>11 DEF Meaning, y
  <2>2. HeadAt(s.frames[z.m], y.w, z.w)
    BY <1>4, <2>1 DEF SemAt
  <2> QED
    BY <1>6, <1>9, <2>1, <2>2 DEF HeadAt, TopOf, TopFrame
<1>12. l.cond \in Expressions(StaticVars \cup LocalsTo(Calls(Append(T, l))))
  BY <1>10 DEF LoopOK
<1> QED
  BY <1>7, <1>8, <1>10, <1>11, <1>12 DEF HeadFacts

(* The body of an iteration is entered. *)
LEMMA EnterBodyKeeps ==
  ASSUME NEW c, NEW T, NEW l, NEW sw, NEW s, NEW p, Known(c, T, AtHead(l, sw), s, p), Exact(c, s),
         NEW d, d = Register(c, "LoopBody")
  PROVE  Known(d, T, [l EXCEPT !.lsw = sw, !.sw = <<>>], s, p) /\ d.timing = c.timing
<1> DEFINE h == AtHead(l, sw)
           g == [l EXCEPT !.lsw = sw, !.sw = <<>>]
<1>1. PICK Y, z, V, B, F : Inv(c, T, h, s, p, Y, z, V, B, F)
  BY DEF Known
<1> DEFINE N == Names(c.nflag, p.nest)
           M == Names(c.nflag + 1, p.nest)
           y == Y[Len(T) + 1]
           v == Flag(c.nflag)
           z2 == Layout(z.hs, z.n + 1, z.m, z.d, z.l, s.live)
           B2 == Extend(B, v, Len(z.hs))
           F2 == Extend(F, v, {})
<1>2. h.kind = "head" /\ h.loop = l /\ h.sw = sw /\ Pending(h) = <<>> /\ Opened(h) = sw /\ ~Closing(h)
  BY DEF AtHead, Pending, Opened, Closing
<1>3. /\ Good(c, z.hs, V, <<>>, N, B, F) /\ FrameAt(c.timing, c.esc, B, N, h, y, z, Len(T) + 1)
      /\ Scoped(c, z, B, F) /\ c.broken = FALSE /\ (c.diag = {} => Meaning(c, T, h, s, Y, z, F))
  BY <1>1, <1>2, InvFacts
<1> HIDE DEF h
<1>4. RegisterFacts(c, d, "LoopBody", z.hs, V, p, B, F)
  BY <1>3, RegisterGood
<1> HIDE DEF N, y, B2, F2
<1>5. /\ Good(d, z.hs, V, <<>>, M, B2, F2)
      /\ d.esc = Append(c.esc, [kind |-> "LoopBody", flag |-> v]) /\ d.nflag = c.nflag + 1
      /\ d.timing = c.timing /\ d.cas.on = c.cas.on /\ d.unrolling = c.unrolling
      /\ d.exhausted = c.exhausted /\ d.broken = c.broken /\ c.diag \subseteq d.diag
      /\ d.blocking = c.blocking /\ d.nonblocking = c.nonblocking
  BY <1>4 DEF RegisterFacts, B2, F2
<1>6. /\ LayoutOK(y, N) /\ LayoutOK(z, N) /\ Follows(h, y, z) /\ LoopOK(l, y.d, c.timing)
      /\ sw \in Seq(Helpers(N)) /\ Guarding(h, y, c.esc) /\ Based(h, y, z, c.esc, B)
      /\ y.d < Len(T) + 1 /\ Len(T) + 1 # 1
  BY <1>2, <1>3 DEF FrameAt, FrameOK, LoopOK
<1>7. /\ z.hs = y.hs \o sw /\ z.n = y.n + 1 /\ z.m = y.m + 1 /\ z.d = y.d /\ z.l = y.l + 1
      /\ y.n \in Nat /\ y.m \in Nat /\ y.d \in Nat /\ y.l \in Nat /\ y.hs \in Seq(Helpers(N))
  <2>1. /\ z.hs = y.hs \o sw /\ z.n = y.n + 1 /\ z.m = y.m + 1 /\ z.d = y.d + 0 /\ z.l = y.l + 1
        /\ y.n \in Nat /\ y.m \in Nat /\ y.d \in Nat /\ y.l \in Nat /\ y.hs \in Seq(Helpers(N))
    BY <1>2, <1>6 DEF LayoutOK, Follows, NCalls, NGuards, NParks, NLoops
  <2> QED
    BY <2>1
<1>8. /\ g.kind = "loop" /\ g.lsw = sw /\ g.sw = <<>> /\ g.flag = l.flag /\ LoopOK(g, y.d, c.timing)
  BY <1>6 DEF LoopOK
<1> HIDE DEF g
<1>9. Opened(g) = sw
  <2>1. Opened(g) = sw \o <<>>
    BY <1>8 DEF Opened
  <2> QED
    BY <1>6, <2>1
<1>10. /\ z2.hs = z.hs /\ z2.n = z.n + 1 /\ z2.m = z.m /\ z2.d = z.d /\ z2.l = z.l /\ z2.w = s.live
  BY DEF Layout
<1> HIDE DEF z2
<1>11. /\ c.esc \in Seq(Guards) /\ c.nflag \in Nat /\ N \subseteq M
       /\ z.n = Len(c.esc) /\ z.l = c.unrolling /\ Numbered(c.esc, c.nflag) /\ DOMAIN F = Scope(c.esc, z.d)
       /\ \A u \in StaticVars : B[u] = 0
  <2>1. c.esc \in Seq(Guards) /\ c.nflag \in Nat
    BY <1>3, GoodFacts, ContextType
  <2> QED
    BY <1>3, <2>1, FlagIsNew DEF Scoped, N
<1>12. MoreGuards(c.esc, c.nflag, "LoopBody", d.esc)
  BY <1>5, <1>11, GuardAdded
<1>13. /\ Len(d.esc) = z.n + 1 /\ (\A i \in 1..z.n : d.esc[i] = c.esc[i])
       /\ d.esc[z.n + 1].kind = "LoopBody" /\ d.esc[z.n + 1].flag = v
       /\ (\A i \in 1..z.n : c.esc[i].flag # v)
       /\ Numbered(d.esc, d.nflag) /\ Scope(d.esc, z.d) = DOMAIN F \cup {v}
  BY <1>5, <1>11, <1>12 DEF MoreGuards
<1>14. v \notin DOMAIN F
  <2>1. DOMAIN F \subseteq N
    BY <1>3, GoodFacts
  <2> QED
    BY <1>11, <2>1, FlagIsNew DEF N
<1>15. /\ DOMAIN F2 = DOMAIN F \cup {v} /\ F2[v] = {} /\ B2[v] = Len(z.hs)
       /\ \A u \in DOMAIN F : F2[u] = F[u] /\ B2[u] = B[u]
  <2>1. DOMAIN B = DOMAIN F
    BY <1>3, GoodFacts
  <2> QED
    BY <1>14, <2>1 DEF F2, B2, Extend
<1>16. /\ StaticVars \cup LocalsTo(z.d) \subseteq DOMAIN F
       /\ \A i \in 1..Len(c.esc) : c.esc[i].flag \in DOMAIN F
  BY <1>3, ScopeFacts
<1>17. \A i \in 1..z.n : B2[d.esc[i].flag] = B[c.esc[i].flag] /\ F2[c.esc[i].flag] = F[c.esc[i].flag]
  BY <1>11, <1>13, <1>15, <1>16
<1>18. FrameAt(d.timing, d.esc, B2, M, g, y, z2, Len(T) + 1)
  <2>1. Helpers(N) \subseteq Helpers(M)
    BY <1>11, ContextsGrow
  <2>2. Seq(Helpers(N)) \subseteq Seq(Helpers(M))
    BY <2>1
  <2>3. LayoutOK(y, M) /\ LayoutOK(z2, M)
    BY <1>6, <1>7, <1>10, <2>2, SMTT(30) DEF LayoutOK
  <2>4. Follows(g, y, z2)
    BY <1>7, <1>8, <1>9, <1>10 DEF Follows, NCalls, NGuards, NParks, NLoops
  <2>5. FrameOK(g, y.d, M, d.timing)
    <3>1. g.sw \in Seq(Helpers(M)) /\ g.lsw \in Seq(Helpers(M))
      <4>1. <<>> \in Seq(Helpers(M))
        OBVIOUS
      <4> QED
        BY <1>6, <1>8, <2>2, <4>1
    <3> QED
      BY <1>5, <1>8, <3>1 DEF FrameOK
  <2>6. Guarding(g, y, d.esc)
    <3>1. y.n + 1 \in 1..z.n /\ y.n + 2 = z.n + 1
      BY <1>7
    <3>2. c.esc[y.n + 1].kind = "Loop" /\ c.esc[y.n + 1].flag = l.flag
      BY <1>2, <1>6 DEF Guarding
    <3> QED
      BY <1>8, <1>13, <3>1, <3>2 DEF Guarding
  <2>7. Based(g, y, z2, d.esc, B2)
    <3>1. \A i \in 1..(y.n + 1) : B2[d.esc[i].flag] <= Len(y.hs)
      BY <1>2, <1>6, <1>7, <1>17 DEF Based
    <3>2. \A i \in 1..z2.d : B2[Local(i)] <= Len(y.hs)
      BY <1>6, <1>10, <1>15, <1>16 DEF Based, LocalsTo
    <3>3. B2[d.esc[y.n + 2].flag] <= Len(y.hs) + Len(g.lsw)
      <4>1. y.n + 2 = z.n + 1
        BY <1>7
      <4>2. Len(z.hs) = Len(y.hs) + Len(sw) /\ Len(z.hs) \in Nat
        BY <1>6, <1>7
      <4>3. B2[d.esc[y.n + 2].flag] = Len(z.hs)
        BY <1>13, <1>15, <4>1
      <4>4. Len(z.hs) <= Len(y.hs) + Len(sw)
        BY <4>2
      <4> QED
        BY <1>8, <4>3, <4>4
    <3> QED
      BY <1>8, <3>1, <3>2, <3>3 DEF Based
  <2> QED
    BY <1>6, <1>10, <1>13, <2>3, <2>4, <2>5, <2>6, <2>7 DEF FrameAt
<1>19. Scoped(d, z2, B2, F2)
  BY <1>5, <1>10, <1>11, <1>13, <1>15, <1>16 DEF Scoped
<1>20. Undisturbed(y, c, B, F, d, B2, F2)
  <2>1. 1..y.n \subseteq 1..z.n /\ c.nflag <= d.nflag /\ d.nflag \in Nat /\ y.n <= Len(d.esc) /\ Len(d.esc) \in Nat
    BY <1>5, <1>7, <1>11, <1>13, SMTT(30)
  <2>2. \A i \in 1..y.n : d.esc[i] = c.esc[i] /\ B2[c.esc[i].flag] = B[c.esc[i].flag]
    BY <1>13, <1>17, <2>1
  <2>3. \A i \in 1..y.d : B2[Local(i)] = B[Local(i)]
    BY <1>7, <1>15, <1>16 DEF LocalsTo
  <2> QED
    BY <1>5, <1>11, <1>17, <2>1, <2>2, <2>3 DEF Undisturbed
<1>21. ASSUME d.diag = {}
       PROVE  SamePast(y, c, z, s, d, z2, s) /\ TopMeaning(d, g, s, y, z2, F2) /\ c.diag = {}
  <2>0. c.diag = {}
    BY <1>5, <1>21
  <2>1. /\ SemType(s, z.d) /\ Mirrors(s, c, F, z.d) /\ z.m = Len(s.frames) /\ z.w = s.live
        /\ SemAt(c, z.hs, F, s.frames, h, y, z) /\ c.exhausted = FALSE /\ Placed(c, h, F, z)
    BY <1>3, <2>0 DEF Meaning, y
  <2>2. /\ OnAt(c, z.hs, Len(y.hs)) \ Raised(c.esc, F, y.n) = y.w /\ HeadAt(s.frames[z.m], y.w, z.w)
        /\ c.cas.on \ Raised(c.esc, F, z.n) = z.w
    BY <1>2, <2>1 DEF SemAt, Placed
  <2>3. \A k \in 0..Len(z.hs) : OnAt(d, z2.hs, k) = OnAt(c, z.hs, k)
    BY <1>5, <1>10 DEF OnAt
  <2>4. Len(y.hs) \in 0..Len(z.hs) /\ Len(y.hs) + Len(sw) = Len(z.hs) /\ Len(z.hs) \in Nat
    BY <1>6, <1>7
  <2>5. 0..Len(y.hs) \subseteq 0..Len(z.hs)
    BY <2>4
  <2>6. SamePast(y, c, z, s, d, z2, s)
    BY <2>3, <2>5 DEF SamePast
  <2>7. \A n \in 0..z.n : Raised(d.esc, F2, n) = Raised(c.esc, F, n)
    <3> TAKE n \in 0..z.n
    <3>1. n # 0 => n \in 1..z.n
      OBVIOUS
    <3> QED
      BY <1>13, <1>17, <3>1 DEF Raised
  <2>8. Raised(d.esc, F2, z2.n) = {}
    BY <1>7, <1>10, <1>13, <1>15 DEF Raised
  <2>9. y.n \in 0..z.n /\ y.n + 1 = z.n /\ z.n \in 0..z.n
    BY <1>7
  <2>10. OnAt(d, z2.hs, Len(z.hs)) = c.cas.on
    BY <1>5, <1>10, <2>4 DEF OnAt
  <2>11. SemAt(d, z2.hs, F2, s.frames, g, y, z2)
    <3>1. OnAt(d, z2.hs, Len(y.hs)) \ Raised(d.esc, F2, y.n) = y.w
      BY <2>2, <2>3, <2>4, <2>7, <2>9
    <3>2. OnAt(d, z2.hs, Len(y.hs) + Len(g.lsw)) \ Raised(d.esc, F2, y.n + 1) = z.w
      BY <1>8, <2>2, <2>4, <2>7, <2>9, <2>10
    <3>3. LoopAt(s.frames[z2.m], OnAt(d, z2.hs, Len(y.hs) + Len(g.lsw)) \ Raised(d.esc, F2, y.n + 1), y.w, z2.w)
      BY <1>10, <2>1, <2>2, <3>2 DEF LoopAt, HeadAt
    <3> QED
      BY <1>8, <3>1, <3>3 DEF SemAt
  <2>12. Placed(d, g, F2, z2)
    BY <1>5, <1>8, <1>10, <2>0, <2>8 DEF Placed, Closing, Exact
  <2>13. Mirrors(s, d, F2, z.d)
    <3>1. \A u \in StaticVars \cup LocalsTo(z.d) : F2[u] = F[u]
      BY <1>15, <1>16
    <3>2. SameValues(s, s) /\ z.d <= z.d /\ z.d \in Nat
      BY <1>7 DEF SameValues
    <3> QED
      BY <1>5, <2>1, <3>1, <3>2, MirrorsKept
  <2> QED
    BY <1>5, <1>10, <2>0, <2>1, <2>6, <2>11, <2>12, <2>13 DEF TopMeaning
<1>22. Kept2(y, c, z, s, B, F, d, z2, s, B2, F2)
  BY <1>7, <1>20, <1>21, PastKept
<1>23. TopOK(d, g, s, p, y, z2, V, B2, F2, Len(T) + 1)
  <2>1. Pending(g) = <<>> /\ Settled(d, g) /\ Names(d.nflag, p.nest) = M
    BY <1>5, <1>8 DEF Pending, Settled, Closing
  <2> QED
    BY <1>3, <1>5, <1>10, <1>18, <1>19, <1>21, <2>1 DEF TopOK
<1>24. Inv(d, T, g, s, p, Y, z2, V, B2, F2)
  BY <1>1, <1>22, <1>23, Retop DEF y
<1> QED
  BY <1>5, <1>24 DEF Known, g

(* The guard of an iteration is gone, and with it its flag. *)
LEMMA GuardRemoved ==
  ASSUME NEW esc \in Seq(Guards), Len(esc) >= 1, NEW n, Numbered(esc, n)
  PROVE  /\ Len(Front(esc)) = Len(esc) - 1 /\ (\A i \in 1..(Len(esc) - 1) : Front(esc)[i] = esc[i])
         /\ Numbered(Front(esc), n) /\ (\A d : Scope(Front(esc), d) \subseteq Scope(esc, d))
         /\ Front(esc) \in Seq(Guards)
<1> DEFINE k == Len(esc) - 1
           e == Front(esc)
<1>1. e = SubSeq(esc, 1, k) /\ k \in Nat /\ 1..k \subseteq 1..Len(esc) /\ Len(esc) \in Nat
  BY DEF Front
<1> HIDE DEF e, k
<1>2. e \in Seq(Guards) /\ Len(e) = k /\ \A i \in 1..k : e[i] = esc[i]
  <2>1. k \in 0..Len(esc) /\ k \in Nat /\ Len(esc) \in Nat
    BY <1>1 DEF k
  <2>2. SubSeq(esc, 1, k) \in Seq(Guards) /\ Len(SubSeq(esc, 1, k)) = k
        /\ \A i \in 1..k : SubSeq(esc, 1, k)[i] = esc[i]
    BY <2>1
  <2> QED
    BY <1>1, <2>2
<1>3. Numbered(e, n)
  BY <1>1, <1>2 DEF Numbered
<1>4. \A d : Scope(e, d) \subseteq Scope(esc, d)
  BY <1>1, <1>2 DEF Scope
<1> QED
  BY <1>2, <1>3, <1>4 DEF e, k

Unregistered(c, d) ==
  /\ SameStore(c, d) /\ d.esc = Front(c.esc) /\ d.nflag = c.nflag /\ d.broken = c.broken
  /\ d.diag = c.diag /\ d.blocking = c.blocking /\ d.nonblocking = c.nonblocking
  /\ d.unrolling = c.unrolling /\ d.exhausted = c.exhausted

LEMMA UnregisterFacts ==
  ASSUME NEW N, NEW c \in Contexts(N), Front(c.esc) \in Seq(Guards)
  PROVE  Unregister(c) \in Contexts(N) /\ Unregistered(c, Unregister(c))
BY DEF Unregister, Contexts, Unregistered, SameStore

(* F and B for the variables in D only. *)
Only(F, D) == [v \in D |-> F[v]]

LEMMA OnlyGood ==
  ASSUME NEW c, NEW H, NEW V, NEW u, NEW N, NEW B, NEW F, Good(c, H, V, u, N, B, F),
         NEW D, D \subseteq DOMAIN F
  PROVE  /\ Good(c, H, V, u, N, Only(B, D), Only(F, D)) /\ SameOn(B, F, Only(B, D), Only(F, D))
         /\ DOMAIN Only(F, D) = D
<1>1. F \in [DOMAIN F -> SUBSET Env] /\ B \in [DOMAIN F -> 0..Len(H)]
  BY GoodFacts
<1> DEFINE F2 == Only(F, D)
           B2 == Only(B, D)
<1>2. /\ DOMAIN F2 = D /\ F2 \in [DOMAIN F2 -> SUBSET Env] /\ B2 \in [DOMAIN F2 -> 0..Len(H)]
      /\ SameOn(B, F, B2, F2)
  BY <1>1 DEF Only, SameOn
<1> HIDE DEF F2, B2
<1>3. Good(c, H, V, u, N, B2, F2)
  BY <1>2, GoodAgain
<1> QED
  BY <1>2, <1>3 DEF F2, B2

(* The loop is left for good. *)
LEMMA LeaveLoopKeeps ==
  ASSUME NEW c, NEW T, NEW l, NEW sw, NEW s, NEW p, Known(c, T, AtHead(l, sw), s, p),
         NEW d, d = Unregister(Descend(Unwind(ExitUnrolling(c), sw))),
         NEW s2, c.diag = {} => s2 = LoopEnd(s)
  PROVE  Known(d, Front(T), Last(T), s2, p) /\ d.timing = c.timing /\ d.diag = c.diag
<1> DEFINE h == AtHead(l, sw)
<1>1. PICK Y, z, V, B, F : Inv(c, T, h, s, p, Y, z, V, B, F)
  BY DEF Known
<1> DEFINE N == Names(c.nflag, p.nest)
           y == Y[Len(T) + 1]
           e == ExitUnrolling(c)
           a == Unwind(e, sw)
           b == Descend(a)
           D == Scope(d.esc, y.d)
           V2 == SubSeq(V, 1, Len(y.hs))
<1>2. h.kind = "head" /\ h.loop = l /\ h.sw = sw /\ Pending(h) = <<>> /\ Opened(h) = sw
  BY DEF AtHead, Pending, Opened, Closing
<1>3. /\ Good(c, z.hs, V, <<>>, N, B, F) /\ FrameAt(c.timing, c.esc, B, N, h, y, z, Len(T) + 1)
      /\ Scoped(c, z, B, F) /\ c.broken = FALSE /\ (c.diag = {} => Meaning(c, T, h, s, Y, z, F))
  BY <1>1, <1>2, InvFacts
<1>4. HeadFacts(c, T, l, s)
  BY HeadKnown
<1> HIDE DEF h, N, y
<1>5. /\ LayoutOK(y, N) /\ LayoutOK(z, N) /\ Follows(h, y, z) /\ sw \in Seq(Helpers(N))
  BY <1>2, <1>3 DEF FrameAt, FrameOK
<1>6. /\ z.hs = y.hs \o sw /\ z.n = y.n + 1 /\ z.m = y.m + 1 /\ z.d = y.d /\ z.l = y.l + 1
      /\ y.n \in Nat /\ y.m \in Nat /\ y.d \in Nat /\ y.l \in Nat /\ y.hs \in Seq(Helpers(N))
  <2>1. /\ z.hs = y.hs \o sw /\ z.n = y.n + 1 /\ z.m = y.m + 1 /\ z.d = y.d + 0 /\ z.l = y.l + 1
        /\ y.n \in Nat /\ y.m \in Nat /\ y.d \in Nat /\ y.l \in Nat /\ y.hs \in Seq(Helpers(N))
    BY <1>2, <1>5 DEF LayoutOK, Follows, NCalls, NGuards, NParks, NLoops
  <2> QED
    BY <2>1
<1>7. /\ c \in Contexts(N) /\ c.esc \in Seq(Guards)
  BY <1>3, GoodFacts, ContextType
<1>8. /\ z.n = Len(c.esc) /\ z.l = c.unrolling /\ Numbered(c.esc, c.nflag) /\ DOMAIN F = Scope(c.esc, z.d)
  BY <1>3 DEF Scoped
<1>9. /\ e \in Contexts(N) /\ Unrolled(c, e) /\ e.unrolling = c.unrolling - 1 /\ e.exhausted = c.exhausted
  <2>1. c.unrolling >= 1
    BY <1>6, <1>8
  <2> QED
    BY <1>7, <2>1, UnrollingFacts
<1> HIDE DEF e
<1>10. Good(e, z.hs, V, <<>>, N, B, F)
  <2>1. \A v \in N : IsStatic(v) => v \in StaticVars
    BY NamesStatic DEF N
  <2> QED
    BY <1>3, <1>9, <2>1, SameLevels DEF Unrolled
<1>11. B \in [DOMAIN F -> 0..Len(y.hs)]
  <2>1. h.kind # "loop"
    BY <1>2
  <2> QED
    BY <1>3, <2>1, FrameBases, ZenonT(60)
<1>12. Rewound(e, y.hs, z.hs, V2, N, B, F, a)
  BY <1>5, <1>6, <1>10, <1>11, UnwindAgain
<1>13. Good(a, y.hs, V2, <<>>, N, B, F) /\ SameNotes(e, a) /\ SameBelow(a, y.hs, e, z.hs)
  BY <1>12 DEF Rewound
<1> HIDE DEF a, V2
<1>14. a \in Contexts(N)
  BY <1>13, GoodFacts
<1>15. b \in Contexts(N) /\ SameNotes(a, b) /\ SameStore(a, b)
  BY <1>14, DescendFacts
<1> HIDE DEF b
<1>16. /\ b.timing = c.timing /\ b.esc = c.esc /\ b.nflag = c.nflag /\ b.unrolling = c.unrolling - 1
       /\ b.exhausted = c.exhausted /\ b.diag = c.diag /\ b.broken = c.broken
       /\ b.blocking = c.blocking /\ b.nonblocking = c.nonblocking
  BY <1>9, <1>13, <1>15 DEF SameNotes, Unrolled, SameStore
<1>17. Len(c.esc) >= 1 /\ c.esc \in Seq(Guards) /\ Numbered(c.esc, c.nflag)
  BY <1>6, <1>7, <1>8
<1>18. /\ Len(Front(c.esc)) = y.n /\ (\A i \in 1..y.n : Front(c.esc)[i] = c.esc[i])
       /\ Scope(Front(c.esc), y.d) \subseteq DOMAIN F /\ Front(c.esc) \in Seq(Guards)
  <2>1. Len(c.esc) - 1 = y.n
    BY <1>6, <1>8
  <2> QED
    BY <1>6, <1>8, <1>17, <2>1, GuardRemoved
<1>19. d \in Contexts(N) /\ Unregistered(b, d)
  BY <1>15, <1>16, <1>18, UnregisterFacts DEF b, a, e
<1>20. /\ SameStore(b, d) /\ d.esc = Front(c.esc) /\ d.nflag = c.nflag /\ d.broken = c.broken
       /\ d.diag = c.diag /\ d.blocking = c.blocking /\ d.nonblocking = c.nonblocking
       /\ d.unrolling = c.unrolling - 1 /\ d.exhausted = c.exhausted /\ d.timing = c.timing
       /\ SameStore(a, d)
  BY <1>15, <1>16, <1>19 DEF Unregistered, SameStore
<1>21. Good(d, y.hs, V2, <<>>, N, B, F)
  <2>1. \A v \in N : IsStatic(v) => v \in StaticVars
    BY NamesStatic DEF N
  <2> QED
    BY <1>13, <1>19, <1>20, <2>1, SameLevels
<1>22. D \subseteq DOMAIN F
  BY <1>18, <1>20
<1> HIDE DEF D
<1>23. /\ Good(d, y.hs, V2, <<>>, N, Only(B, D), Only(F, D)) /\ SameOn(B, F, Only(B, D), Only(F, D))
       /\ DOMAIN Only(F, D) = D
  BY <1>21, <1>22, OnlyGood
<1>24. SameBelow(d, y.hs, c, z.hs)
  <2>1. \A k : OnAt(e, z.hs, k) = OnAt(c, z.hs, k)
    BY <1>9 DEF OnAt, Unrolled, SameStore
  <2>2. \A k : OnAt(a, y.hs, k) = OnAt(d, y.hs, k)
    BY <1>20 DEF OnAt, SameStore
  <2> QED
    BY <1>13, <2>1, <2>2 DEF SameBelow
<1>25. Left(c, d, y)
  <2>1. d.unrolling = y.l
    BY <1>6, <1>8, <1>20
  <2> QED
    BY <1>18, <1>20, <2>1 DEF Left
<1>26. ASSUME c.diag = {} PROVE SemLeft(s, s2, y)
  <2>1. /\ SemType(s, z.d) /\ z.m = Len(s.frames) /\ z.w = s.live
        /\ SemAt(c, z.hs, F, s.frames, h, y, z)
    BY <1>3, <1>26 DEF Meaning, y
  <2>2. HeadAt(TopFrame(s), y.w, s.live)
    BY <1>2, <2>1 DEF SemAt, TopFrame
  <2>3. TopOf(s, "loop") /\ y.w = s.live \cup TopFrame(s).out
    BY <1>6, <2>1, <2>2 DEF TopOf, HeadAt
  <2>4. z.d <= z.d /\ z.d \in Nat
    BY <1>6
  <2>5. LET t == LoopEnd(s)
        IN  /\ SemType(t, z.d) /\ SameValues(s, t) /\ Untopped(s, t)
            /\ t.live = s.live \cup TopFrame(s).out
    BY <2>1, <2>3, <2>4, EndFields
  <2>6. /\ SemType(s2, y.d) /\ SameValues(s, s2) /\ Untopped(s, s2) /\ s2.live = y.w
    BY <1>6, <1>26, <2>3, <2>5
  <2>7. Len(s2.frames) = y.m /\ \A i \in 1..y.m : s2.frames[i] = s.frames[i]
    BY <1>6, <2>1, <2>6 DEF Untopped
  <2> QED
    BY <2>6, <2>7 DEF SemLeft
<1>27. Len(T) >= 1
  BY <1>4 DEF HeadFacts
<1>28. DOMAIN Only(F, D) = Scope(d.esc, y.d)
  BY <1>23 DEF D
<1>29. Known(d, Front(T), Last(T), s2, p)
  <2>1. y = Y[Len(T) + 1] /\ Good(d, y.hs, V2, <<>>, Names(c.nflag, p.nest), Only(B, D), Only(F, D))
    BY <1>23 DEF y, N
  <2> HIDE DEF D
  <2> QED
    BY <1>1, <1>23, <1>24, <1>25, <1>26, <1>27, <1>28, <2>1, LeaveKeeps
<1> QED
  BY <1>20, <1>29
(* The body of an iteration is left. *)
LEMMA LeaveBodyKeeps ==
  ASSUME NEW c, NEW T, NEW f, NEW s, NEW p, Known(c, T, f, s, p), f.kind = "loop",
         NEW d, d = Unregister(Unwind(c, f.sw)), NEW s2, c.diag = {} => s2 = IterationEnd(s)
  PROVE  Known(d, T, AtHead(f, f.lsw), s2, p) /\ d.timing = c.timing /\ d.diag = c.diag
<1> DEFINE h == AtHead(f, f.lsw)
<1>1. PICK Y, z, V, B, F : Inv(c, T, f, s, p, Y, z, V, B, F)
  BY DEF Known
<1> DEFINE N == Names(c.nflag, p.nest)
           y == Y[Len(T) + 1]
           H == y.hs \o f.lsw
           a == Unwind(c, f.sw)
           z2 == Layout(H, y.n + 1, z.m, z.d, z.l, s2.live)
           D == Scope(d.esc, z.d)
           V2 == SubSeq(V, 1, Len(H))
           B2 == Only(B, D)
           F2 == Only(F, D)
<1>2. h.kind = "head" /\ h.loop = f /\ h.sw = f.lsw /\ Pending(h) = <<>> /\ Opened(h) = f.lsw /\ ~Closing(h)
  BY DEF AtHead, Pending, Opened, Closing
<1>3. /\ Good(c, z.hs, V, <<>>, N, B, F) /\ FrameAt(c.timing, c.esc, B, N, f, y, z, Len(T) + 1)
      /\ Scoped(c, z, B, F) /\ c.broken = FALSE /\ (c.diag = {} => Meaning(c, T, f, s, Y, z, F))
  BY <1>1, InvFacts DEF Pending, Closing
<1> HIDE DEF h, N, y
<1>4. /\ LayoutOK(y, N) /\ LayoutOK(z, N) /\ Follows(f, y, z) /\ FrameOK(f, y.d, N, c.timing)
      /\ Guarding(f, y, c.esc) /\ Based(f, y, z, c.esc, B) /\ y.d < Len(T) + 1 /\ Len(T) + 1 # 1
      /\ LoopOK(f, y.d, c.timing) /\ f.sw \in Seq(Helpers(N)) /\ f.lsw \in Seq(Helpers(N))
  BY <1>3 DEF FrameAt, FrameOK
<1>5. /\ z.hs = y.hs \o (f.lsw \o f.sw) /\ z.n = y.n + 2 /\ z.m = y.m + 1 /\ z.d = y.d /\ z.l = y.l + 1
      /\ y.n \in Nat /\ y.m \in Nat /\ y.d \in Nat /\ y.l \in Nat /\ y.hs \in Seq(Helpers(N))
  <2>1. /\ z.hs = y.hs \o Opened(f) /\ z.n = y.n + 2 /\ z.m = y.m + 1 /\ z.d = y.d + 0 /\ z.l = y.l + 1
        /\ y.n \in Nat /\ y.m \in Nat /\ y.d \in Nat /\ y.l \in Nat /\ y.hs \in Seq(Helpers(N))
    BY <1>4 DEF LayoutOK, Follows, NCalls, NGuards, NParks, NLoops
  <2>2. Opened(f) = f.lsw \o f.sw
    BY DEF Opened
  <2> QED
    BY <2>1, <2>2
<1>6. /\ H \in Seq(Helpers(N)) /\ z.hs = H \o f.sw /\ Len(H) = Len(y.hs) + Len(f.lsw)
      /\ Len(y.hs) \in Nat /\ Len(f.lsw) \in Nat
  <2>1. f.lsw \in Seq(Helpers(N)) /\ f.sw \in Seq(Helpers(N)) /\ y.hs \in Seq(Helpers(N))
    BY <1>4, <1>5
  <2> DEFINE S == Helpers(N)
             P == y.hs
             Q == f.lsw
             R == f.sw
  <2>3. P \in Seq(S) /\ Q \in Seq(S) /\ R \in Seq(S)
    BY <2>1
  <2> HIDE DEF S, P, Q, R
  <2>2. (P \o Q) \o R = P \o (Q \o R)
    BY ONLY <2>3, ConcatTwice
  <2>4. P \o Q \in Seq(S) /\ Len(P \o Q) = Len(P) + Len(Q) /\ Len(P) \in Nat /\ Len(Q) \in Nat
    BY ONLY <2>3
  <2> QED
    BY <1>5, <2>2, <2>4 DEF S, P, Q, R
<1> HIDE DEF H
<1>7. /\ c \in Contexts(N) /\ c.esc \in Seq(Guards)
  BY <1>3, GoodFacts, ContextType
<1>8. /\ z.n = Len(c.esc) /\ z.l = c.unrolling /\ Numbered(c.esc, c.nflag) /\ DOMAIN F = Scope(c.esc, z.d)
      /\ \A v \in StaticVars : B[v] = 0
  BY <1>3 DEF Scoped
<1>9. B \in [DOMAIN F -> 0..Len(H)]
  <2>1. B \in [DOMAIN F -> 0..(Len(y.hs) + Len(f.lsw))]
    BY <1>3, FrameBases
  <2> QED
    BY <1>6, <2>1
<1>10. Rewound(c, H, z.hs, V2, N, B, F, a)
  BY <1>3, <1>4, <1>6, <1>9, UnwindAgain
<1>11. Good(a, H, V2, <<>>, N, B, F) /\ SameNotes(c, a) /\ SameBelow(a, H, c, z.hs)
  BY <1>10 DEF Rewound
<1> HIDE DEF a, V2
<1>12. a \in Contexts(N)
  BY <1>11, GoodFacts
<1>13. /\ a.timing = c.timing /\ a.esc = c.esc /\ a.nflag = c.nflag /\ a.unrolling = c.unrolling
       /\ a.exhausted = c.exhausted /\ a.diag = c.diag /\ a.broken = c.broken
       /\ a.blocking = c.blocking /\ a.nonblocking = c.nonblocking
  BY <1>11 DEF SameNotes
<1>14. /\ Len(Front(c.esc)) = y.n + 1 /\ (\A i \in 1..(y.n + 1) : Front(c.esc)[i] = c.esc[i])
       /\ Scope(Front(c.esc), z.d) \subseteq DOMAIN F /\ Front(c.esc) \in Seq(Guards)
       /\ Numbered(Front(c.esc), c.nflag)
  <2>1. Len(c.esc) - 1 = y.n + 1 /\ Len(c.esc) >= 1
    BY <1>5, <1>8, SMTT(30)
  <2> QED
    BY <1>7, <1>8, <2>1, GuardRemoved
<1>15. d \in Contexts(N) /\ Unregistered(a, d)
  BY <1>12, <1>13, <1>14, UnregisterFacts DEF a
<1>16. /\ SameStore(a, d) /\ d.esc = Front(c.esc) /\ d.nflag = c.nflag /\ d.broken = c.broken
       /\ d.diag = c.diag /\ d.blocking = c.blocking /\ d.nonblocking = c.nonblocking
       /\ d.unrolling = c.unrolling /\ d.exhausted = c.exhausted /\ d.timing = c.timing
  BY <1>13, <1>15 DEF Unregistered, SameStore
<1>17. Good(d, H, V2, <<>>, N, B, F)
  <2>1. \A v \in N : IsStatic(v) => v \in StaticVars
    BY NamesStatic DEF N
  <2> QED
    BY <1>11, <1>15, <1>16, <2>1, SameLevels
<1>18. D \subseteq DOMAIN F
  BY <1>14, <1>16
<1> HIDE DEF D
<1>19. /\ Good(d, H, V2, <<>>, N, B2, F2) /\ SameOn(B, F, B2, F2) /\ DOMAIN F2 = D
  BY <1>17, <1>18, OnlyGood
<1> HIDE DEF B2, F2
<1>20. /\ z2.hs = H /\ z2.n = y.n + 1 /\ z2.m = z.m /\ z2.d = z.d /\ z2.l = z.l /\ z2.w = s2.live
  BY DEF Layout
<1> HIDE DEF z2
<1>21. \A v \in D : F2[v] = F[v] /\ B2[v] = B[v]
  BY <1>19 DEF SameOn
<1>22. /\ \A i \in 1..(y.n + 1) : d.esc[i] = c.esc[i] /\ c.esc[i].flag \in D
       /\ \A i \in 1..z.d : Local(i) \in D
       /\ StaticVars \cup LocalsTo(z.d) \subseteq D
  BY <1>14, <1>16 DEF D, Scope, LocalsTo
<1>23. FrameAt(d.timing, d.esc, B2, N, h, y, z2, Len(T) + 1)
  <2>1. LayoutOK(z2, N)
    BY <1>4, <1>5, <1>6, <1>20, SMTT(30) DEF LayoutOK
  <2>2. Follows(h, y, z2)
    <3>1. z2.d = y.d + 0
      BY <1>5, <1>20
    <3> QED
      BY <1>2, <1>5, <1>20, <3>1 DEF Follows, NCalls, NGuards, NParks, NLoops, H
  <2>3. FrameOK(h, y.d, N, d.timing)
    <3>1. DOMAIN h = {"kind", "loop", "sw"}
      BY DEF h, AtHead
    <3> QED
      BY <1>2, <1>4, <1>16, <3>1 DEF FrameOK
  <2>4. Guarding(h, y, d.esc)
    <3>1. y.n + 1 \in 1..(y.n + 1)
      BY <1>5
    <3> QED
      BY <1>2, <1>4, <1>22, <3>1 DEF Guarding
  <2>5. Based(h, y, z2, d.esc, B2)
    <3>1. /\ \A i \in 1..(y.n + 1) : B[c.esc[i].flag] <= Len(y.hs)
          /\ \A i \in 1..z.d : B[Local(i)] <= Len(y.hs)
      BY <1>4 DEF Based
    <3>2. /\ \A i \in 1..(y.n + 1) : B2[d.esc[i].flag] <= Len(y.hs)
          /\ \A i \in 1..z.d : B2[Local(i)] <= Len(y.hs)
      BY <1>21, <1>22, <3>1
    <3> QED
      BY <1>2, <1>20, <3>2 DEF Based
  <2>6. z2.n <= Len(d.esc)
    BY <1>5, <1>14, <1>16, <1>20
  <2> QED
    BY <1>4, <2>1, <2>2, <2>3, <2>4, <2>5, <2>6 DEF FrameAt
<1>24. Scoped(d, z2, B2, F2)
  <2>1. DOMAIN F2 = Scope(d.esc, z2.d)
    BY <1>19, <1>20 DEF D
  <2>2. \A v \in StaticVars : B2[v] = 0
    BY <1>8, <1>21, <1>22
  <2> QED
    BY <1>5, <1>8, <1>14, <1>16, <1>20, <2>1, <2>2 DEF Scoped
<1>25. 1..y.n \subseteq 1..(y.n + 1) /\ y.n + 1 \in 1..(y.n + 1)
  BY <1>5
<1>26. Undisturbed(y, c, B, F, d, B2, F2)
  <2>1. c.nflag \in Nat /\ c.nflag <= c.nflag /\ y.n <= Len(d.esc) /\ Len(d.esc) \in Nat
    <3>1. c.nflag \in Nat
      BY <1>7, ContextType
    <3> QED
      BY <1>5, <1>14, <1>16, <3>1
  <2>2. \A i \in 1..y.n : d.esc[i] = c.esc[i] /\ B2[c.esc[i].flag] = B[c.esc[i].flag]
                          /\ F2[c.esc[i].flag] = F[c.esc[i].flag]
    BY <1>21, <1>22, <1>25
  <2>3. \A i \in 1..y.d : B2[Local(i)] = B[Local(i)]
    BY <1>5, <1>21, <1>22
  <2> QED
    BY <1>16, <2>1, <2>2, <2>3 DEF Undisturbed
<1>27. ASSUME d.diag = {}
       PROVE  c.diag = {} /\ SamePast(y, c, z, s, d, z2, s2) /\ TopMeaning(d, h, s2, y, z2, F2)
  <2>0. c.diag = {}
    BY <1>16, <1>27
  <2>1. /\ SemType(s, z.d) /\ Mirrors(s, c, F, z.d) /\ z.m = Len(s.frames) /\ z.w = s.live
        /\ SemAt(c, z.hs, F, s.frames, f, y, z) /\ c.exhausted = FALSE
    BY <1>3, <2>0 DEF Meaning, y
  <2> DEFINE g == TopFrame(s)
             on == OnAt(c, z.hs, Len(H)) \ Raised(c.esc, F, y.n + 1)
  <2>2. /\ OnAt(c, z.hs, Len(y.hs)) \ Raised(c.esc, F, y.n) = y.w /\ LoopAt(g, on, y.w, s.live)
    BY <1>6, <2>1 DEF SemAt, TopFrame
  <2>3. /\ g.kind = "loop" /\ y.w = s.live \cup g.out \cup g.skip /\ on = s.live \cup g.skip
        /\ g.out \cap g.skip = {} /\ s.live \cap (g.out \cup g.skip) = {}
    BY <2>2 DEF LoopAt
  <2>4. TopOf(s, "loop")
    BY <1>5, <2>1, <2>3 DEF TopOf
  <2>5. /\ SemType(s2, z.d) /\ SameValues(s, s2) /\ s2.live = s.live \cup g.skip
        /\ Retopped(s, s2, [g EXCEPT !.skip = {}])
    <3>1. z.d \in Nat
      BY <1>5
    <3> QED
      BY <2>0, <2>1, <2>4, <3>1, IterationEndFields
  <2>6. /\ Len(s2.frames) = z.m /\ s2.frames[z.m] = [g EXCEPT !.skip = {}]
        /\ \A i \in 1..y.m : s2.frames[i] = s.frames[i]
    BY <1>5, <2>1, <2>5 DEF Retopped
  <2>7. g \in [kind : {"loop"}, out : SUBSET Env, skip : SUBSET Env]
    BY <2>1, <2>4, FramesType
  <2>8. HeadAt(s2.frames[z.m], y.w, s2.live)
    <3>1. s2.frames[z.m].kind = "loop" /\ s2.frames[z.m].skip = {} /\ s2.frames[z.m].out = g.out
      BY <2>6, <2>7
    <3> QED
      BY <2>3, <2>5, <3>1 DEF HeadAt
  <2>9. \A k \in 0..Len(H) : OnAt(d, H, k) = OnAt(c, z.hs, k)
    <3>1. \A k : OnAt(a, H, k) = OnAt(d, H, k)
      BY <1>16 DEF OnAt, SameStore
    <3> QED
      BY <1>11, <3>1 DEF SameBelow
  <2>10. 0..Len(y.hs) \subseteq 0..Len(H) /\ Len(y.hs) \in 0..Len(H) /\ Len(H) \in 0..Len(H) /\ Len(H) \in Nat
    <3> DEFINE j == Len(y.hs)
               k == Len(f.lsw)
               m == Len(H)
    <3>1. j \in Nat /\ k \in Nat /\ m = j + k
      BY <1>6
    <3> HIDE DEF j, k, m
    <3>2. 0..j \subseteq 0..m /\ j \in 0..m /\ m \in 0..m /\ m \in Nat
      BY <3>1
    <3> QED
      BY <3>2 DEF j, m
  <2>11. SamePast(y, c, z, s, d, z2, s2)
    BY <1>20, <2>6, <2>9, <2>10 DEF SamePast
  <2>12. \A n \in 0..(y.n + 1) : Raised(d.esc, F2, n) = Raised(c.esc, F, n)
    <3> TAKE n \in 0..(y.n + 1)
    <3>1. n # 0 => n \in 1..(y.n + 1)
      OBVIOUS
    <3> QED
      BY <1>21, <1>22, <3>1 DEF Raised
  <2>13. y.n \in 0..(y.n + 1) /\ y.n + 1 \in 0..(y.n + 1)
    BY <1>5
  <2>14. SemAt(d, z2.hs, F2, s2.frames, h, y, z2)
    <3>1. OnAt(d, z2.hs, Len(y.hs)) \ Raised(d.esc, F2, y.n) = y.w
      BY <1>20, <2>2, <2>9, <2>10, <2>12, <2>13
    <3> QED
      BY <1>2, <1>20, <2>8, <3>1 DEF SemAt
  <2>15. Placed(d, h, F2, z2)
    <3>1. OnAt(d, H, Len(H)) = d.cas.on
      BY <2>10 DEF OnAt
    <3>2. d.cas.on \ Raised(d.esc, F2, y.n + 1) = s2.live
      BY <2>3, <2>5, <2>9, <2>10, <2>12, <2>13, <3>1
    <3> QED
      BY <1>2, <1>20, <3>2 DEF Placed
  <2>16. Mirrors(s2, d, F2, z.d)
    <3>1. \A u \in StaticVars \cup LocalsTo(z.d) : F2[u] = F[u]
      BY <1>21, <1>22
    <3>2. z.d <= z.d /\ z.d \in Nat
      BY <1>5
    <3> QED
      BY <1>16, <2>1, <2>5, <3>1, <3>2, MirrorsKept
  <2> QED
    BY <1>16, <1>20, <2>0, <2>1, <2>5, <2>6, <2>11, <2>14, <2>15, <2>16 DEF TopMeaning
<1>28. Kept2(y, c, z, s, B, F, d, z2, s2, B2, F2)
  BY <1>5, <1>26, <1>27, PastKept
<1>29. TopOK(d, h, s2, p, y, z2, V2, B2, F2, Len(T) + 1)
  <2>1. Settled(d, h) /\ Names(d.nflag, p.nest) = N /\ Pending(h) = <<>>
    BY <1>2, <1>16 DEF Settled, N
  <2> QED
    BY <1>3, <1>16, <1>19, <1>20, <1>23, <1>24, <1>27, <2>1 DEF TopOK
<1>30. Inv(d, T, h, s2, p, Y, z2, V2, B2, F2)
  BY <1>1, <1>28, <1>29, Retop DEF y
<1> QED
  BY <1>16, <1>30 DEF Known, h
==============================================================================
