----------------------------- MODULE ObjectEdits -----------------------------
(***************************************************************************)
(* What the class json::Object promises: a base value and the last change  *)
(* made to each of its members.  A reader sees the base with the changes   *)
(* applied; nothing else is visible of how they are kept.                  *)
(*                                                                         *)
(* Changes may be kept aside, in a copy or as a diff, and taken over later *)
(* for any base; what is kept does not change with the Object.             *)
(***************************************************************************)
CONSTANTS
  Key, Val,     \* names and (defined) values of members
  Undefined,    \* the undefined value; as a change: the member is removed
  Unchanged,    \* no change of this member
  NotObject,    \* a base that is not an object
  Base          \* base values: functions of Key, or NotObject

VARIABLES
  base, changes,  \* this Object
  kept            \* changes kept aside

vars == <<base, changes, kept>>

Clean == [k \in Key |-> Unchanged]
Empty == [k \in Key |-> Undefined]

\* What a lookup answers.
Current(k) ==
  IF changes[k] # Unchanged THEN changes[k]
  ELSE IF base = NotObject THEN Undefined
  ELSE base[k]

\* What a commit answers: the value with the changes applied.
Result == IF changes = Clean THEN base ELSE [k \in Key |-> Current(k)]

Init == base \in Base /\ changes = Clean /\ kept = Clean

Change(k, v) == changes' = [changes EXCEPT ![k] = v] /\ UNCHANGED <<base, kept>>
Rebase(b)    == base' = b /\ UNCHANGED <<changes, kept>>
Revert       == changes' = Clean /\ UNCHANGED <<base, kept>>
Clear        == base' = Empty /\ changes' = Clean /\ UNCHANGED kept
Keep         == kept' = changes /\ UNCHANGED <<base, changes>>
Assign(b)    == base' = b /\ changes' = kept /\ kept' \in {kept, Clean}

Next ==
  \/ \E k \in Key, v \in Val \cup {Undefined} : Change(k, v)
  \/ \E b \in Base : Rebase(b) \/ Assign(b)
  \/ Revert \/ Clear \/ Keep

Spec == Init /\ [][Next]_vars
=============================================================================
