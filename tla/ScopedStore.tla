---------------------------- MODULE ScopedStore ----------------------------
(***************************************************************************)
(* What the procedural elaborator expects of its variable state, stated    *)
(* without revert maps: a stack of whole stores.  Entering a switch branch *)
(* pushes a copy of the store, leaving it drops that copy, so that the     *)
(* enclosing store is back exactly as it was, and reports every bit that   *)
(* was written in the branch together with the value it had at the end.    *)
(***************************************************************************)
EXTENDS Naturals, Sequences

CONSTANTS
  Bits,      (* the variable bits a process can assign                     *)
  Vals,      (* the signals a bit can be bound to                          *)
  Absent,    (* "no binding": the bit reads as the netlist wire            *)
  MaxDepth   (* bound on the nesting of branches                           *)

VARIABLES
  scopes,    (* one record per open branch, outermost first                *)
  updates    (* what the last Leave reported                               *)

absVars == <<scopes, updates>>

Store == [Bits -> Vals \cup {Absent}]
Scope == [store : Store, dirty : SUBSET Bits]

Top == scopes[Len(scopes)]

Init ==
  /\ scopes = <<[store |-> [b \in Bits |-> Absent], dirty |-> {}]>>
  /\ updates = [b \in {} |-> Absent]

Write(B, f) ==
  /\ scopes' = [scopes EXCEPT ![Len(scopes)] =
                  [store |-> [b \in Bits |-> IF b \in B THEN f[b] ELSE Top.store[b]],
                   dirty |-> Top.dirty \cup B]]
  /\ UNCHANGED updates

Enter ==
  /\ Len(scopes) <= MaxDepth
  /\ scopes' = Append(scopes, [store |-> Top.store, dirty |-> {}])
  /\ UNCHANGED updates

Leave ==
  /\ Len(scopes) > 1
  /\ updates' = [b \in Top.dirty |-> Top.store[b]]
  /\ scopes' = SubSeq(scopes, 1, Len(scopes) - 1)

Next ==
  \/ \E B \in SUBSET Bits : \E f \in [Bits -> Vals] : Write(B, f)
  \/ Enter
  \/ Leave

Spec == Init /\ [][Next]_absVars
=============================================================================
