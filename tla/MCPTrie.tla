------------------------------ MODULE MCPTrie ------------------------------
(***************************************************************************)
(* Instances of PTrie for TLC.  Bytes have BSIZE * BDIV bits; the bounds   *)
(* FwdIds and NodeIds are large enough never to be reached.                *)
(***************************************************************************)
EXTENDS PTrieUnpack, PTrieInvariants

\* Bytes of two bits, one level per byte (the code's BSIZE = 8, scaled down):
\* keys that collide in both length bytes and in two bytes of data, residuals
\* around HEAPBOUND = 2, and both values of the high length byte.
KeysDeep ==
  { <<1, 0, 0>>, <<1, 0, 1>>, <<1, 1, 0>>, <<1, 1, 2>>, <<1, 3, 3>>, <<1, 2, 0>>,
    <<0, 1, 1>>, <<0, 2, 1>>, <<1, 0, 0, 0>> }

\* Bytes of four bits, two levels each: one-byte keys on both sides of a slot
\* boundary, so that a bucket meets buddies that are split finer than itself, and
\* two-byte keys whose residuals move to the heap and back when levels come and go.
KeysWide ==
  { <<0>>, <<4>>, <<8>>, <<9>>, <<10>>, <<12>>, <<13>>, <<14>>, <<8, 0, 1>> }

\* The code's own bytes (BSIZE = 2, HEAPBOUND = 9, sizeof(uchar* ) = 8): seven keys
\* that agree in all but the last six bits, where no byte is left to branch on.
KeysBytes ==
  { <<0>>, <<1>>, <<2>>, <<3>>, <<4>>, <<5>>, <<64>>, <<9, 9, 9, 9, 9, 9, 9, 9, 9, 9, 9>> }

\* The empty key among others whose high length byte is the same.
KeysEmpty == { <<>>, <<0>>, <<1>>, <<2>>, <<3>>, <<0, 0>> }

=============================================================================
