----------------------------- MODULE FileCatalog -----------------------------
(***************************************************************************)
(* What to_fls and verify_fls promise together: a path holds no table or   *)
(* one whole table.  It gets it in one step, and the table never changes:  *)
(* it stays until it is gone, with its file or with its descriptor.        *)
(***************************************************************************)
CONSTANTS
  Files,    \* the paths
  Tables,   \* the tables
  None      \* no table

VARIABLE catalog   \* the table each path holds

CatalogTypeOK == catalog \in [Files -> Tables \cup {None}]

Init == catalog = [f \in Files |-> None]

Publish(f, t) ==
  /\ catalog[f] = None
  /\ catalog' = [catalog EXCEPT ![f] = t]

Remove(f) == catalog' = [catalog EXCEPT ![f] = None]

Next == \E f \in Files : Remove(f) \/ \E t \in Tables : Publish(f, t)

Spec == Init /\ [][Next]_catalog
=============================================================================
