--------------------------- MODULE MCLinkedBucket ---------------------------
(***************************************************************************)
(* An instance of LinkedBucket for TLC, with a caller of size.  A bucket   *)
(* has two cells and an index node holds two buckets, so that the third    *)
(* bucket of the chain needs a second index node.  Indexes holds a node    *)
(* for each half of the chain and one in the hands of each thread: it is   *)
(* never used up.                                                          *)
(***************************************************************************)
EXTENDS LinkedBucketSize

=============================================================================
