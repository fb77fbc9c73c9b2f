--------------------------- MODULE VersionPointer ---------------------------
(***************************************************************************)
(* What publishing promises its readers: a version is published once, as a *)
(* whole, and a pointer is switched to a published version only.           *)
(***************************************************************************)
CONSTANTS Names, KeyOf, None, First

VARIABLES
  whole,     \* the versions that are published as a whole
  current    \* the version a key points to, or None

pointerVars == <<whole, current>>

PointerInit ==
  /\ whole = {First}
  /\ current = [k \in {KeyOf[v] : v \in Names} |-> IF k = KeyOf[First] THEN First ELSE None]

Publish(v) ==
  /\ v \notin whole
  /\ whole' = whole \cup {v}
  /\ UNCHANGED current

Switch(v) ==
  /\ v \in whole
  /\ current' = [current EXCEPT ![KeyOf[v]] = v]
  /\ UNCHANGED whole

PointerNext == \E v \in Names : Publish(v) \/ Switch(v)

PointerSpec == PointerInit /\ [][PointerNext]_pointerVars

=============================================================================
