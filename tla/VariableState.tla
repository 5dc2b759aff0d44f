--------------------------- MODULE VariableState ---------------------------
(***************************************************************************)
(* ProceduralContext::VariableState: the map from variable bits to the     *)
(* signals they currently stand for, kept while a process is executed      *)
(* symbolically.  The store is never copied when a branch is entered;      *)
(* instead the first write to a bit at each level records the signal it    *)
(* replaces (or the marker Sm when there was none) in `revert', and        *)
(* leaving the branch replays that map backwards.                          *)
(*                                                                         *)
(* The two dictionaries of the code are total functions here: Absent in    *)
(* `visible' and NoEntry in `revert' stand for a missing key, and Absent   *)
(* in `revert' is the stored marker Sm.                                    *)
(***************************************************************************)
EXTENDS Naturals, Sequences

CONSTANTS
  Bits,      (* the variable bits a process can assign                     *)
  Vals,      (* the signals a bit can be bound to                          *)
  Absent,    (* RTLIL::Sm, and "no key" in visible_assignments             *)
  NoEntry,   (* "no key" in revert                                         *)
  MaxDepth   (* bound on the nesting of branches                           *)

(* A definition whose name continues another one's after an underscore is  *)
(* that definition with a plausible mistake; no specification uses it.     *)

ASSUME ConstantsAssumption ==
  /\ Absent \notin Vals
  /\ NoEntry \notin Vals
  /\ NoEntry # Absent
  /\ MaxDepth \in Nat

VARIABLES
  visible,   (* visible_assignments                                        *)
  revert,    (* revert                                                     *)
  saved,     (* the save_map of each SwitchHelper whose branch is open     *)
  updates,   (* what the last restore() returned                           *)
  snaps      (* history: the value of `visible' when each branch was       *)
             (* entered.  Read by no action; the properties compare it.    *)

vars == <<visible, revert, saved, updates, snaps>>

Store  == [Bits -> Vals \cup {Absent}]
Revert == [Bits -> Vals \cup {Absent, NoEntry}]

Keys(r) == {b \in Bits : r[b] # NoEntry}

EmptyRevert == [b \in Bits |-> NoEntry]

(* The effect of replaying revert map r on store s. *)
Undo_Replaces(s, r) == r
Undo(s, r) == [b \in Bits |-> IF r[b] = NoEntry THEN s[b] ELSE r[b]]

Note_LastWins(r, s, B) == [b \in Bits |-> IF b \in B THEN s[b] ELSE r[b]]

(* set() on revert: only the first write to a bit at this level is noted. *)
Note(r, s, B) ==
  [b \in Bits |-> IF b \in B /\ r[b] = NoEntry THEN s[b] ELSE r[b]]

-----------------------------------------------------------------------------

Init ==
  /\ visible = [b \in Bits |-> Absent]
  /\ revert = EmptyRevert
  /\ saved = <<>>
  /\ updates = [b \in {} |-> Absent]
  /\ snaps = <<>>

(* VariableState::set *)
Set(B, f) ==
  /\ revert' = Note(revert, visible, B)
  /\ visible' = [b \in Bits |-> IF b \in B THEN f[b] ELSE visible[b]]
  /\ UNCHANGED <<saved, updates, snaps>>

Save_KeepsRevert ==
  /\ Len(saved) < MaxDepth
  /\ saved' = Append(saved, revert)
  /\ snaps' = Append(snaps, visible)
  /\ UNCHANGED <<visible, updates, revert>>

(* VariableState::save, called by SwitchHelper::enter_branch with a        *)
(* save_map it has just cleared.                                           *)
Save ==
  /\ Len(saved) < MaxDepth
  /\ saved' = Append(saved, revert)
  /\ revert' = EmptyRevert
  /\ snaps' = Append(snaps, visible)
  /\ UNCHANGED <<visible, updates>>

Restore_KeepsRevert ==
  /\ saved # <<>>
  /\ updates' = [b \in Keys(revert) |-> visible[b]]
  /\ visible' = Undo(visible, revert)
  /\ saved' = SubSeq(saved, 1, Len(saved) - 1)
  /\ snaps' = SubSeq(snaps, 1, Len(snaps) - 1)
  /\ UNCHANGED revert

(* VariableState::restore, called by SwitchHelper::exit_branch. *)
Restore ==
  /\ saved # <<>>
  /\ updates' = [b \in Keys(revert) |-> visible[b]]
  /\ visible' = Undo(visible, revert)
  /\ revert' = saved[Len(saved)]
  /\ saved' = SubSeq(saved, 1, Len(saved) - 1)
  /\ snaps' = SubSeq(snaps, 1, Len(snaps) - 1)

Next ==
  \/ \E B \in SUBSET Bits : \E f \in [Bits -> Vals] : Set(B, f)
  \/ Save
  \/ Restore

Spec == Init /\ [][Next]_vars

-----------------------------------------------------------------------------

(* The dictionaries map bits to signals, and every open branch has one     *)
(* saved revert map.                                                       *)
TypeOK ==
  /\ visible \in Store
  /\ revert \in Revert
  /\ saved \in Seq(Revert)
  /\ snaps \in Seq(Store)
  /\ Len(snaps) = Len(saved)
  /\ Len(saved) <= MaxDepth

(* The stores and revert maps of all levels, outermost first. *)
Stores  == Append(snaps, visible)
Reverts == Append(saved, revert)

(* Every bit with a revert entry at any level is bound at that level: the  *)
(* visible_assignments.at(bit) in restore() never throws.                  *)
RevertedBitsBound ==
  \A i \in 1..Len(Reverts) : \A b \in Keys(Reverts[i]) : Stores[i][b] # Absent

(* Replaying the revert map of a level gives back the store as it was when *)
(* that level was entered, at every level of the nesting at once.          *)
UndoReachesSnapshot ==
  \A i \in 1..Len(snaps) : Undo(Stores[i + 1], Reverts[i + 1]) = snaps[i]

(* The refinement mapping: one scope per level. *)
AbsScopes == [i \in 1..(Len(saved) + 1) |->
                [store |-> Stores[i], dirty |-> Keys(Reverts[i])]]

(* Leaving a branch restores the store exactly and reports exactly the     *)
(* bits written in it: VariableState implements a stack of store copies.   *)
Abs == INSTANCE ScopedStore WITH scopes <- AbsScopes

ImplementsScopedStore == Abs!Spec
=============================================================================
