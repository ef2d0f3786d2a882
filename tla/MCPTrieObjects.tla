--------------------------- MODULE MCPTrieObjects ---------------------------
(***************************************************************************)
(* Instances of PTrieObjects for TLC: two objects with two keys.           *)
(***************************************************************************)
EXTENDS PTrieObjects

\* Objects and addresses are interchangeable, and no property tells them apart.
Alike == Permutations(Objects) \cup Permutations(Trees) \cup Permutations(Lists)

=============================================================================
