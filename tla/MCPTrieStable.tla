---------------------------- MODULE MCPTrieStable ----------------------------
(***************************************************************************)
(* Instances of PTrieStable for TLC.                                       *)
(***************************************************************************)
EXTENDS PTrieStable

\* Six keys that agree in their length: the sixth splits the bucket.
KeysStable == { <<0>>, <<1>>, <<2>>, <<3>>, <<4>>, <<5>> }

\* Few keys: what goes wrong with a narrow I needs no split.
KeysNarrow == { <<0>>, <<1>>, <<2>> }

\* The client's choices.
KeysAssigned == { <<1>> }
KeysErased == { <<1>>, <<4>> }
KeysOpening == << <<5>>, <<1>>, <<2>> >>
KeysNone == <<>>

=============================================================================
