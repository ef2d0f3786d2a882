------------------------------- MODULE KeySet -------------------------------
(***************************************************************************)
(* What a ptrie::set promises its user: it is a mathematical set of keys.  *)
(* Inserting a key that is there already and erasing one that is not       *)
(* answer false and change nothing, so they are stuttering steps here.     *)
(***************************************************************************)
CONSTANT Keys
VARIABLE set

KInit == set = {}

Insert(k) == k \notin set /\ set' = set \cup {k}

Erase(k) == k \in set /\ set' = set \ {k}

\* ~ptrie_base, followed by the construction of a new set.
Clear == set' = {}

KNext == Clear \/ \E k \in Keys : Insert(k) \/ Erase(k)

KSpec == KInit /\ [][KNext]_set

=============================================================================
