------------------------ MODULE VariableStateProofs ------------------------
(***************************************************************************)
(* Proofs about VariableState for every set of bits and signals and every  *)
(* nesting depth: type correctness, the inductive invariant that ties each *)
(* level's revert map to the store at its entry, and the refinement of     *)
(* ScopedStore.                                                            *)
(***************************************************************************)
EXTENDS VariableState, TLAPS

(* Replaying a revert map on a store, as restore does, yields a store.     *)
LEMMA UndoType ==
  ASSUME NEW s \in Store, NEW r \in Revert
  PROVE  Undo(s, r) \in Store
  BY DEF Undo, Store, Revert

(* What set notes in a revert map before it writes is a revert map.        *)
LEMMA NoteType ==
  ASSUME NEW s \in Store, NEW r \in Revert, NEW B \in SUBSET Bits
  PROVE  Note(r, s, B) \in Revert
  BY DEF Note, Store, Revert

(* Noting a write and then performing it does not change what an undo of   *)
(* the level yields.                                                       *)
LEMMA UndoAfterNote ==
  ASSUME NEW s \in Store, NEW r \in Revert, NEW B \in SUBSET Bits,
         NEW f \in [Bits -> Vals]
  PROVE  Undo([b \in Bits |-> IF b \in B THEN f[b] ELSE s[b]], Note(r, s, B))
           = Undo(s, r)
  BY ConstantsAssumption DEF Undo, Note, Store, Revert

(* A revert map gets exactly the written bits as new keys.                 *)
LEMMA KeysOfNote ==
  ASSUME NEW s \in Store, NEW r \in Revert, NEW B \in SUBSET Bits
  PROVE  Keys(Note(r, s, B)) = Keys(r) \cup B
  BY ConstantsAssumption DEF Keys, Note, Store, Revert

(* A level that wrote nothing is undone by doing nothing.                  *)
LEMMA UndoNothing ==
  ASSUME NEW s \in Store
  PROVE  Undo(s, EmptyRevert) = s
  BY DEF Undo, EmptyRevert, Store

-----------------------------------------------------------------------------

(* TypeOK: the dictionaries keep their types, and there is one saved map   *)
(* per open branch, whatever order set, save and restore are called in.    *)
THEOREM TypeCorrect == Spec => []TypeOK
<1>1. Init => TypeOK
  BY ConstantsAssumption DEF Init, TypeOK, Store, Revert, EmptyRevert
<1>2. TypeOK /\ [Next]_vars => TypeOK'
  <2> SUFFICES ASSUME TypeOK, [Next]_vars
               PROVE  TypeOK'
    OBVIOUS
  <2>1. ASSUME NEW B \in SUBSET Bits, NEW f \in [Bits -> Vals], Set(B, f)
        PROVE  TypeOK'
    <3>1. visible' \in Store
      BY <2>1 DEF Set, TypeOK, Store
    <3>2. revert' \in Revert
      BY <2>1, NoteType DEF Set, TypeOK
    <3> QED
      BY <2>1, <3>1, <3>2 DEF Set, TypeOK
  <2>2. CASE Save
    <3>1. EmptyRevert \in Revert
      BY DEF EmptyRevert, Revert
    <3> QED
      BY <2>2, <3>1, ConstantsAssumption DEF Save, TypeOK
  <2>3. CASE Restore
    <3>1. visible' \in Store
      BY <2>3, UndoType DEF Restore, TypeOK
    <3>2. Len(saved) \in Nat \ {0}
      BY <2>3 DEF Restore, TypeOK
    <3>3. revert' \in Revert
      BY <2>3, <3>2 DEF Restore, TypeOK
    <3>4. saved' \in Seq(Revert) /\ Len(saved') = Len(saved) - 1
      BY <2>3, <3>2 DEF Restore, TypeOK
    <3>5. snaps' \in Seq(Store) /\ Len(snaps') = Len(snaps) - 1
      BY <2>3, <3>2 DEF Restore, TypeOK
    <3> QED
      BY <3>1, <3>2, <3>3, <3>4, <3>5, ConstantsAssumption DEF TypeOK
  <2>4. CASE UNCHANGED vars
    BY <2>4 DEF vars, TypeOK
  <2> QED
    BY <2>1, <2>2, <2>3, <2>4 DEF Next
<1> QED
  BY <1>1, <1>2, PTL DEF Spec

-----------------------------------------------------------------------------

IInv == TypeOK /\ RevertedBitsBound /\ UndoReachesSnapshot

(* There is a store and a revert map for each level: those of the open     *)
(* branches and the current one.                                           *)
LEMMA LevelTypes ==
  ASSUME TypeOK
  PROVE  /\ Stores \in Seq(Store) /\ Reverts \in Seq(Revert)
         /\ Len(Stores) = Len(saved) + 1 /\ Len(Reverts) = Len(saved) + 1
         /\ Stores[Len(saved) + 1] = visible
         /\ Reverts[Len(saved) + 1] = revert
         /\ \A i \in 1..Len(saved) : Stores[i] = snaps[i] /\ Reverts[i] = saved[i]
  BY DEF TypeOK, Stores, Reverts

(* set() changes the store and the revert map of the current level only.   *)
LEMMA LevelsAfterSet ==
  ASSUME TypeOK, TypeOK', NEW B \in SUBSET Bits, NEW f \in [Bits -> Vals], Set(B, f)
  PROVE  /\ Len(Stores') = Len(Stores) /\ Len(Reverts') = Len(Reverts)
         /\ \A i \in 1..Len(saved) :
              Stores'[i] = Stores[i] /\ Reverts'[i] = Reverts[i]
  BY DEF TypeOK, Stores, Reverts, Set

(* save() adds a level and leaves those there are as they were.            *)
LEMMA LevelsAfterSave ==
  ASSUME TypeOK, TypeOK', Save
  PROVE  /\ Len(Stores') = Len(Stores) + 1 /\ Len(Reverts') = Len(Reverts) + 1
         /\ \A i \in 1..(Len(saved) + 1) :
              Stores'[i] = Stores[i] /\ Reverts'[i] = Reverts[i]
         /\ Stores'[Len(saved) + 2] = visible
         /\ Reverts'[Len(saved) + 2] = EmptyRevert
  BY DEF TypeOK, Stores, Reverts, Save

(* restore() leaves exactly the levels below the one it drops.             *)
LEMMA LevelsAfterRestore ==
  ASSUME IInv, TypeOK', Restore
  PROVE  /\ Len(Stores) = Len(Stores') + 1 /\ Len(Reverts) = Len(Reverts') + 1
         /\ \A i \in 1..Len(saved) :
              Stores'[i] = Stores[i] /\ Reverts'[i] = Reverts[i]
<1>1. /\ Len(saved) \in Nat \ {0} /\ Len(snaps) = Len(saved)
      /\ saved' \in Seq(Revert) /\ Len(saved') = Len(saved) - 1
      /\ snaps' \in Seq(Store) /\ Len(snaps') = Len(saved) - 1
  BY DEF IInv, TypeOK, Restore
<1>2. \A i \in 1..(Len(saved) - 1) : saved'[i] = saved[i] /\ snaps'[i] = snaps[i]
  BY <1>1 DEF IInv, TypeOK, Restore
<1>3. visible' = snaps[Len(saved)]
  <2>1. Undo(Stores[Len(saved) + 1], Reverts[Len(saved) + 1]) = snaps[Len(saved)]
    BY <1>1 DEF IInv, UndoReachesSnapshot
  <2> QED
    BY <2>1, LevelTypes DEF IInv, Restore
<1>4. revert' = saved[Len(saved)]
  BY DEF Restore
<1> QED
  BY <1>1, <1>2, <1>3, <1>4 DEF IInv, TypeOK, Stores, Reverts

-----------------------------------------------------------------------------

(* set() keeps the strengthened invariant at every level.                  *)
LEMMA IInvSet ==
  ASSUME IInv, TypeOK', NEW B \in SUBSET Bits, NEW f \in [Bits -> Vals], Set(B, f)
  PROVE  IInv'
<1> DEFINE n == Len(saved)
<1>1. /\ visible \in Store /\ revert \in Revert /\ visible' \in Store
      /\ n \in Nat /\ Len(saved') = n /\ Len(snaps') = n /\ Len(snaps) = n
      /\ snaps' = snaps
  BY DEF IInv, TypeOK, Set
<1>2. Stores'[n + 1] = visible' /\ Reverts'[n + 1] = revert'
  BY <1>1 DEF Stores, Reverts, TypeOK
<1>3. RevertedBitsBound'
  <2> SUFFICES ASSUME NEW i \in 1..(n + 1), NEW b \in Keys(Reverts'[i])
               PROVE  Stores'[i][b] # Absent
    BY <1>1, LevelTypes, LevelsAfterSet DEF IInv, RevertedBitsBound
  <2>1. CASE i \in 1..n
    BY <1>1, <2>1, LevelTypes, LevelsAfterSet DEF IInv, RevertedBitsBound
  <2>2. CASE i = n + 1
    <3>1. Keys(revert') = Keys(revert) \cup B
      BY <1>1, KeysOfNote DEF Set
    <3>2. \A c \in Keys(revert) : visible[c] # Absent
      BY <1>1, LevelTypes DEF IInv, RevertedBitsBound
    <3>3. b \in Bits
      BY <1>2, <2>2 DEF Keys
    <3> QED
      BY <1>1, <1>2, <2>2, <3>1, <3>2, <3>3, ConstantsAssumption DEF Set
  <2> QED
    BY <1>1, <2>1, <2>2
<1>4. UndoReachesSnapshot'
  <2> SUFFICES ASSUME NEW i \in 1..n
               PROVE  Undo(Stores'[i + 1], Reverts'[i + 1]) = snaps[i]
    BY <1>1 DEF UndoReachesSnapshot
  <2>1. Undo(Stores[i + 1], Reverts[i + 1]) = snaps[i]
    BY <1>1 DEF IInv, UndoReachesSnapshot
  <2>2. CASE i + 1 \in 1..n
    BY <2>1, <2>2, LevelsAfterSet DEF IInv
  <2>3. CASE i = n
    <3>1. Undo(visible', revert') = Undo(visible, revert)
      BY <1>1, UndoAfterNote DEF Set
    <3> QED
      BY <1>1, <1>2, <2>1, <2>3, <3>1, LevelTypes DEF IInv
  <2> QED
    BY <1>1, <2>2, <2>3
<1> QED
  BY <1>3, <1>4 DEF IInv

(* save() keeps the strengthened invariant: the new level has nothing to   *)
(* undo.                                                                   *)
LEMMA IInvSave ==
  ASSUME IInv, TypeOK', Save
  PROVE  IInv'
<1> DEFINE n == Len(saved)
<1>1. /\ visible \in Store /\ n \in Nat /\ Len(snaps) = n
      /\ snaps \in Seq(Store) /\ Len(snaps') = n + 1
      /\ snaps'[n + 1] = visible /\ \A i \in 1..n : snaps'[i] = snaps[i]
  BY DEF IInv, TypeOK, Save
<1>2. Keys(EmptyRevert) = {}
  BY DEF Keys, EmptyRevert
<1>3. RevertedBitsBound'
  <2> SUFFICES ASSUME NEW i \in 1..(n + 2), NEW b \in Keys(Reverts'[i])
               PROVE  Stores'[i][b] # Absent
    BY <1>1, LevelTypes, LevelsAfterSave DEF IInv, RevertedBitsBound
  <2>1. CASE i \in 1..(n + 1)
    BY <1>1, <2>1, LevelTypes, LevelsAfterSave DEF IInv, RevertedBitsBound
  <2>2. CASE i = n + 2
    BY <1>1, <1>2, <2>2, LevelsAfterSave DEF IInv
  <2> QED
    BY <1>1, <2>1, <2>2
<1>4. UndoReachesSnapshot'
  <2> SUFFICES ASSUME NEW i \in 1..(n + 1)
               PROVE  Undo(Stores'[i + 1], Reverts'[i + 1]) = snaps'[i]
    BY <1>1 DEF UndoReachesSnapshot
  <2>1. CASE i \in 1..n
    BY <1>1, <2>1, LevelsAfterSave DEF IInv, UndoReachesSnapshot
  <2>2. CASE i = n + 1
    BY <1>1, <2>2, LevelsAfterSave, UndoNothing DEF IInv
  <2> QED
    BY <1>1, <2>1, <2>2
<1> QED
  BY <1>3, <1>4 DEF IInv

(* restore() keeps the strengthened invariant: what is left was an         *)
(* instance of it.                                                         *)
LEMMA IInvRestore ==
  ASSUME IInv, TypeOK', Restore
  PROVE  IInv'
<1> DEFINE n == Len(saved)
<1>1. /\ n \in Nat \ {0} /\ Len(snaps) = n /\ Len(snaps') = n - 1
      /\ \A i \in 1..(n - 1) : snaps'[i] = snaps[i]
  BY DEF IInv, TypeOK, Restore
<1>2. RevertedBitsBound'
  BY <1>1, LevelTypes, LevelsAfterRestore DEF IInv, RevertedBitsBound
<1>3. UndoReachesSnapshot'
  <2> SUFFICES ASSUME NEW i \in 1..(n - 1)
               PROVE  Undo(Stores'[i + 1], Reverts'[i + 1]) = snaps'[i]
    BY <1>1 DEF UndoReachesSnapshot
  <2>1. Undo(Stores[i + 1], Reverts[i + 1]) = snaps[i]
    BY <1>1 DEF IInv, UndoReachesSnapshot
  <2> QED
    BY <1>1, <2>1, LevelsAfterRestore
<1> QED
  BY <1>2, <1>3 DEF IInv

(* The strengthened invariant of the revert maps holds after any order of  *)
(* set, save and restore.                                                  *)
THEOREM Invariance == Spec => []IInv
<1>1. Init => IInv
  <2> SUFFICES ASSUME Init
               PROVE  IInv
    OBVIOUS
  <2>1. TypeOK
    BY ConstantsAssumption DEF Init, TypeOK, Store, Revert, EmptyRevert
  <2>2. Keys(revert) = {} /\ saved = <<>> /\ snaps = <<>>
    BY DEF Init, Keys, EmptyRevert
  <2>3. RevertedBitsBound
    <3>1. Len(saved) = 0
      BY <2>2
    <3>2. Len(Reverts) = 1 /\ Reverts[1] = revert
      BY <2>1, <3>1, LevelTypes
    <3> QED
      BY <2>2, <3>2 DEF RevertedBitsBound
  <2> QED
    BY <2>1, <2>2, <2>3 DEF IInv, UndoReachesSnapshot
<1>2. IInv /\ TypeOK' /\ [Next]_vars => IInv'
  <2> SUFFICES ASSUME IInv, TypeOK', [Next]_vars
               PROVE  IInv'
    OBVIOUS
  <2>1. CASE UNCHANGED vars
    BY <2>1 DEF vars, IInv, TypeOK, RevertedBitsBound, UndoReachesSnapshot,
                Stores, Reverts, Undo, Keys
  <2> QED
    BY <2>1, IInvSet, IInvSave, IInvRestore DEF Next
<1> QED
  BY <1>1, <1>2, TypeCorrect, PTL DEF Spec

(* restore() never looks up an unbound bit. *)
THEOREM LookupsSafe == Spec => []RevertedBitsBound
  BY Invariance, PTL DEF IInv

(* At every level, replaying its revert map gives the store at its entry.  *)
THEOREM UndoCorrect == Spec => []UndoReachesSnapshot
  BY Invariance, PTL DEF IInv

-----------------------------------------------------------------------------

(* The abstract scopes the maps stand for are well formed, one per level.  *)
LEMMA AbsScopesShape ==
  ASSUME TypeOK
  PROVE  /\ AbsScopes \in Seq(Abs!Scope)
         /\ Len(AbsScopes) = Len(saved) + 1
         /\ AbsScopes[Len(saved) + 1] = [store |-> visible, dirty |-> Keys(revert)]
<1>1. Len(saved) \in Nat /\ Len(Stores) = Len(saved) + 1
  BY LevelTypes DEF TypeOK
<1>2. \A i \in 1..(Len(saved) + 1) : Stores[i] \in Store
  BY <1>1, LevelTypes
<1>3. \A i \in 1..(Len(saved) + 1) :
        [store |-> Stores[i], dirty |-> Keys(Reverts[i])] \in Abs!Scope
  BY <1>2 DEF Keys, Abs!Scope, Abs!Store, Store
<1>4. AbsScopes \in Seq(Abs!Scope) /\ Len(AbsScopes) = Len(saved) + 1
  BY <1>1, <1>3 DEF AbsScopes
<1> QED
  BY <1>1, <1>4, LevelTypes DEF AbsScopes

(* set() is a write to the innermost scope.                                *)
LEMMA SetIsWrite ==
  ASSUME IInv, TypeOK', NEW B \in SUBSET Bits, NEW f \in [Bits -> Vals], Set(B, f)
  PROVE  Abs!Write(B, f)
<1> DEFINE n == Len(saved)
           written == [store |-> [b \in Bits |-> IF b \in B THEN f[b] ELSE visible[b]],
                       dirty |-> Keys(revert) \cup B]
<1>1. /\ n \in Nat /\ Len(saved') = n /\ saved' = saved /\ updates' = updates
      /\ visible \in Store /\ revert \in Revert
  BY DEF IInv, TypeOK, Set
<1>2. [store |-> visible', dirty |-> Keys(revert')] = written
  BY <1>1, KeysOfNote DEF Set
<1>3. AbsScopes' = [AbsScopes EXCEPT ![n + 1] = written]
  <2>1. \A i \in 1..n : AbsScopes'[i] = AbsScopes[i]
    BY <1>1, LevelsAfterSet DEF IInv, AbsScopes
  <2>2. Stores'[n + 1] = visible' /\ Reverts'[n + 1] = revert'
    BY <1>1 DEF Stores, Reverts, TypeOK
  <2>3. AbsScopes'[n + 1] = written
    BY <1>1, <1>2, <2>2 DEF AbsScopes
  <2>4. /\ AbsScopes = [i \in 1..(n + 1) |-> AbsScopes[i]]
        /\ AbsScopes' = [i \in 1..(n + 1) |-> AbsScopes'[i]]
    BY <1>1 DEF AbsScopes
  <2>5. \A i \in 1..(n + 1) : AbsScopes'[i] = IF i = n + 1 THEN written ELSE AbsScopes[i]
    <3> HIDE DEF written
    <3>1. \A i \in 1..(n + 1) : i \in 1..n \/ i = n + 1
      BY <1>1
    <3> QED
      BY <2>1, <2>3, <3>1
  <2>6. [AbsScopes EXCEPT ![n + 1] = written]
          = [i \in 1..(n + 1) |-> IF i = n + 1 THEN written ELSE AbsScopes[i]]
    <3> HIDE DEF written
    <3>1. DOMAIN AbsScopes = 1..(n + 1)
      BY DEF AbsScopes
    <3> QED
      BY <3>1
  <2> QED
    <3> HIDE DEF written
    <3> QED
      BY <2>4, <2>5, <2>6
<1>4. Len(AbsScopes) = n + 1
      /\ AbsScopes[n + 1] = [store |-> visible, dirty |-> Keys(revert)]
  BY AbsScopesShape DEF IInv
<1> QED
  BY <1>1, <1>3, <1>4 DEF Abs!Write, Abs!Top

(* save() is the entry of a scope that starts as a copy of the store.      *)
LEMMA SaveIsEnter ==
  ASSUME IInv, TypeOK', Save
  PROVE  Abs!Enter
<1> DEFINE n == Len(saved)
           copy == [store |-> visible, dirty |-> {}]
<1>1. n \in Nat /\ Len(saved') = n + 1 /\ n < MaxDepth /\ updates' = updates
  BY DEF IInv, TypeOK, Save
<1>2. /\ Len(AbsScopes) = n + 1 /\ AbsScopes \in Seq(Abs!Scope)
      /\ AbsScopes[n + 1] = [store |-> visible, dirty |-> Keys(revert)]
  BY AbsScopesShape DEF IInv
<1>3. Keys(EmptyRevert) = {}
  BY DEF Keys, EmptyRevert
<1>4. \A i \in 1..(n + 1) : AbsScopes'[i] = AbsScopes[i]
  BY <1>1, LevelsAfterSave DEF IInv, AbsScopes
<1>5. AbsScopes'[n + 2] = copy
  <2>1. Stores'[n + 2] = visible /\ Reverts'[n + 2] = EmptyRevert
    BY LevelsAfterSave DEF IInv
  <2>2. AbsScopes'[n + 2] = [store |-> Stores'[n + 2], dirty |-> Keys(Reverts'[n + 2])]
    BY <1>1 DEF AbsScopes
  <2> QED
    BY <1>3, <2>1, <2>2
<1>6. AbsScopes' = [i \in 1..(n + 2) |-> AbsScopes'[i]]
  BY <1>1 DEF AbsScopes
<1>7. AbsScopes' = Append(AbsScopes, copy)
  BY <1>1, <1>2, <1>4, <1>5, <1>6
<1> QED
  BY <1>1, <1>2, <1>7, ConstantsAssumption DEF Abs!Enter, Abs!Top

(* restore() is the exit of a scope: the enclosing store is back, and the  *)
(* updates reported are those of the scope.                                *)
LEMMA RestoreIsLeave ==
  ASSUME IInv, TypeOK', Restore
  PROVE  Abs!Leave
<1> DEFINE n == Len(saved)
<1>1. n \in Nat \ {0} /\ Len(saved') = n - 1
  BY DEF IInv, TypeOK, Restore
<1>2. /\ Len(AbsScopes) = n + 1 /\ AbsScopes \in Seq(Abs!Scope)
      /\ AbsScopes[n + 1] = [store |-> visible, dirty |-> Keys(revert)]
  BY AbsScopesShape DEF IInv
<1>3. \A i \in 1..n : AbsScopes'[i] = AbsScopes[i]
  BY <1>1, LevelsAfterRestore DEF IInv, AbsScopes
<1>4. AbsScopes' = [i \in 1..n |-> AbsScopes'[i]]
  BY <1>1 DEF AbsScopes
<1>5. AbsScopes' = SubSeq(AbsScopes, 1, n)
  BY <1>1, <1>2, <1>3, <1>4
<1>6. updates' = [b \in Keys(revert) |-> visible[b]]
  BY DEF Restore
<1> QED
  BY <1>1, <1>2, <1>5, <1>6 DEF Abs!Leave, Abs!Top

(* The revert maps implement a stack of store copies: leaving a branch     *)
(* brings back exactly the enclosing store and reports exactly the bits    *)
(* written in the branch, with the values they had at its end.             *)
THEOREM Refinement == Spec => ImplementsScopedStore
<1>1. Init => Abs!Init
  <2> SUFFICES ASSUME Init
               PROVE  Abs!Init
    OBVIOUS
  <2>1. /\ saved = <<>> /\ snaps = <<>> /\ Keys(revert) = {}
        /\ visible = [b \in Bits |-> Absent]
    BY DEF Init, Keys, EmptyRevert
  <2>2. Len(saved) + 1 = 1 /\ Stores[1] = visible /\ Reverts[1] = revert
    BY <2>1 DEF Stores, Reverts
  <2>3. AbsScopes = <<[store |-> visible, dirty |-> {}]>>
    <3>0. Len(saved) = 0 /\ 1 \in 1..(Len(saved) + 1)
      BY <2>1
    <3>1. AbsScopes[1] = [store |-> visible, dirty |-> {}]
      <4>1. AbsScopes[1] = [store |-> Stores[1], dirty |-> Keys(Reverts[1])]
        BY <3>0 DEF AbsScopes
      <4> QED
        BY <2>1, <2>2, <4>1
    <3>2. AbsScopes = [i \in 1..1 |-> AbsScopes[i]]
      BY <3>0 DEF AbsScopes
    <3> QED
      BY <3>1, <3>2
  <2> QED
    BY <2>1, <2>3 DEF Abs!Init, Init
<1>2. IInv /\ TypeOK' /\ [Next]_vars => [Abs!Next]_(Abs!absVars)
  <2> SUFFICES ASSUME IInv, TypeOK', [Next]_vars
               PROVE  [Abs!Next]_(Abs!absVars)
    OBVIOUS
  <2>1. ASSUME NEW B \in SUBSET Bits, NEW f \in [Bits -> Vals], Set(B, f)
        PROVE  Abs!Next
    BY <2>1, SetIsWrite DEF Abs!Next
  <2>2. CASE Save
    BY <2>2, SaveIsEnter DEF Abs!Next
  <2>3. CASE Restore
    BY <2>3, RestoreIsLeave DEF Abs!Next
  <2>4. CASE UNCHANGED vars
    BY <2>4 DEF vars, Abs!absVars, AbsScopes, Stores, Reverts, Keys
  <2> QED
    BY <2>1, <2>2, <2>3, <2>4 DEF Next
<1> QED
  BY <1>1, <1>2, TypeCorrect, Invariance, PTL DEF Spec, ImplementsScopedStore, Abs!Spec
=============================================================================
