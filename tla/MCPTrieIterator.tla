--------------------------- MODULE MCPTrieIterator ---------------------------
(***************************************************************************)
(* Instances of PTrieIterator for TLC.                                     *)
(***************************************************************************)
EXTENDS PTrieIterator

\* One level per byte of three bits (the code's BSIZE = 8, scaled down).  Six keys of
\* two bytes fill a slot of the second level, next to a key of one byte.
KeysWalk == { <<7>>, <<0, 1>>, <<2, 0>>, <<2, 5>>, <<2, 7>>, <<6, 7>>, <<7, 7>> }

=============================================================================
