------------------------- MODULE LinkedBucketProofs -------------------------
(***************************************************************************)
(* Theorems about LinkedBucket and LinkedBucketSize, for any number of     *)
(* threads, readers, buckets and cells.  First its types, that the ids in use are distinct and that the  *)
(* counters are private: the invariant is about the chain, where the       *)
(* ranges of ids of two linked buckets do not overlap and only the bucket  *)
(* at the end, whose range is the last, has no successor.                  *)
(* Then what readers and the destructor rely on: links of the chain and of *)
(* the index and entries of the index are written once, an id in use is    *)
(* found, everything is freed, and size, while it is interleaved with the  *)
(* threads, counts what it should below the bucket it is at.  The argument *)
(* gives each node of the index the number of the first id it is for; a    *)
(* thread on its way to enter a bucket keeps the offset of the bucket as   *)
(* that number plus `id', and two buckets for one entry would overlap.     *)
(***************************************************************************)
EXTENDS LinkedBucketSize, FiniteSetTheorems, Recursion

-----------------------------------------------------------------------------
(* Addresses *)

\* The address that `new bucket_t' returns is one that was not in use.
LEMMA FreshBucketFact ==
  ASSUME buckets \subseteq Buckets, buckets # Buckets
  PROVE  FreshBucket \in Buckets /\ FreshBucket \notin buckets
BY DEF FreshBucket

\* The same of `new index_t'.
LEMMA FreshIndexFact ==
  ASSUME indexes \subseteq Indexes, indexes # Indexes
  PROVE  FreshIndex \in Indexes /\ FreshIndex \notin indexes
BY DEF FreshIndex

-----------------------------------------------------------------------------
(* The chain *)

\* The bucket that a thread is about to link: nobody else knows it, and its
\* offset is the one it will have if it is linked behind n[t].
Unlinked ==
  \A t \in Threads : pc[t] = "link" =>
    /\ next[t] \in buckets /\ next[t] # Begin /\ nbucket[next[t]] = Null
    /\ count[next[t]] = 0
    /\ n[t] \in Linked
    /\ offset[next[t]] = offset[n[t]] + C
    /\ tmp[t] \in {Null, n[t]}
    /\ \A s \in Threads \ {t} : pc[s] = "link" => next[s] # next[t]

\* Links lead to linked buckets, whose ids follow on.
Links ==
  \A b \in Linked : nbucket[b] # Null =>
    /\ nbucket[b] \in Linked
    /\ offset[nbucket[b]] = offset[b] + C

\* The ids of two linked buckets do not overlap.
Disjoint ==
  \A b, c \in Linked : b # c => offset[b] + C <= offset[c] \/ offset[c] + C <= offset[b]

\* The bucket at the end of the chain has the highest ids.
LastIsHighest ==
  \A b, c \in Linked : nbucket[b] = Null => offset[c] <= offset[b]

\* The buckets of the threads are linked, each has its own, and on the way from Link
\* to Take it is the new one, still empty.
Owned ==
  /\ \A t \in Threads : tnext[t] \in Linked \cup {Null}
  /\ \A t \in Threads : pc[t] \in {"index", "extend", "take"} =>
       tnext[t] = next[t] /\ next[t] \in Linked /\ count[next[t]] = 0

\* The ids in use are among the first of some linked bucket.
LiveCounted ==
  \A i \in live : \E b \in Linked : offset[b] <= i /\ i < offset[b] + count[b]

\* A thread about to extend the index has a node that is not the first, and is going
\* to move past the C * C ids of the node it is at.
Extending ==
  \A t \in Threads : pc[t] = "extend" => id[t] >= C * C /\ nindex[t] # First

Inv == TypeOK /\ Unlinked /\ Links /\ Disjoint /\ LastIsHighest
       /\ Owned /\ OwnBuckets /\ LiveCounted /\ Extending

-----------------------------------------------------------------------------
(* Inv is inductive *)

\* What a new list is: one bucket, which is thread Zero's.
Fresh ==
  /\ buckets = {Begin} /\ indexes = {First} /\ live = {}
  /\ nbucket = [b \in Buckets |-> Null]
  /\ offset = [b \in Buckets |-> 0] /\ count = [b \in Buckets |-> 0]
  /\ tnext = [t \in Threads |-> IF t = Zero THEN Begin ELSE Null]
  /\ index = [[i \in Indexes |-> NoIndex] EXCEPT ![First][0] = Begin]
  /\ inext = [i \in Indexes |-> Null]
  /\ pc = [t \in Threads |-> "idle"]
  /\ n = [t \in Threads |-> Begin] /\ tmp = [t \in Threads |-> Null]
  /\ next = [t \in Threads |-> Begin] /\ at = [t \in Threads |-> First]
  /\ id = [t \in Threads |-> 0] /\ nindex = [t \in Threads |-> First]

\* The invariant holds of a new list.
LEMMA FreshInv == Fresh => Inv
<1>1. SUFFICES ASSUME Fresh PROVE Inv
  OBVIOUS
<1>2. Linked = {Begin}
  BY <1>1 DEF Fresh, Linked
<1>3. TypeOK
  BY <1>1, LinkedBucketAssumption DEF Fresh, NoIndex, TypeOK, ChainOK, TableOK, ThreadsOK
<1>4. QED
  BY <1>1, <1>2, <1>3, LinkedBucketAssumption
     DEF Fresh, Inv, Unlinked, Links, Disjoint, LastIsHighest, Owned, OwnBuckets, LiveCounted,
         Extending

\* The destructor runs when no thread is inside next, so that a new list finds no
\* thread in the middle of a call on the old one.
LEMMA RenewInv == ASSUME TypeOK, Renew PROVE Inv'
<1>1. pc' = [t \in Threads |-> "idle"]
  BY DEF TypeOK, ThreadsOK, Renew
<1>2. Fresh'
  BY <1>1 DEF Renew, Fresh
<1>3. Fresh' => Inv'
  BY FreshInv, PTL
<1>4. QED
  BY <1>2, <1>3

\* A new bucket is not part of the chain before it is linked.
LEMMA AllocateInv ==
  ASSUME Inv, NEW t \in Threads, Allocate(t) PROVE Inv'
<1> DEFINE b == FreshBucket
           last == IF tnext[t] = Null THEN Begin ELSE tnext[t]
<1> USE LinkedBucketAssumption
<1>1. b \in Buckets /\ b \notin buckets
  BY FreshBucketFact DEF Inv, TypeOK, ChainOK, ThreadsOK, Allocate
<1>2. last \in Linked
  BY DEF Inv, TypeOK, ChainOK, ThreadsOK, Unlinked, Owned, Linked
<1>3. Linked' = Linked
  BY <1>1 DEF Inv, TypeOK, ChainOK, ThreadsOK, Unlinked, Linked, Allocate
<1>4. TypeOK'
  <2>1. last \in Buckets /\ offset[last] \in Nat
    BY <1>2 DEF Inv, TypeOK, ChainOK, Linked
  <2>2. ChainOK'
    BY <1>1, <2>1 DEF Inv, TypeOK, ChainOK, ThreadsOK, Allocate
  <2>3. TableOK'
    BY DEF Inv, TypeOK, TableOK, Allocate, table
  <2>4. ThreadsOK'
    BY <1>1, <2>1 DEF Inv, TypeOK, ThreadsOK, Allocate
  <2>5. QED
    BY <2>2, <2>3, <2>4 DEF Inv, TypeOK, Allocate
<1>5. b \notin Linked /\ Linked \subseteq buckets
  BY <1>1 DEF Linked
<1>6. \A c \in Linked : nbucket'[c] = nbucket[c] /\ offset'[c] = offset[c] /\ count'[c] = count[c]
  BY <1>5 DEF Inv, TypeOK, ChainOK, ThreadsOK, Allocate
<1>7. Unlinked'
  <2>1. \A s \in Threads \ {t} : pc[s] = "link" => next[s] \in buckets
    BY DEF Inv, Unlinked
  <2>2. SUFFICES ASSUME NEW s \in Threads, pc'[s] = "link"
                 PROVE  (/\ next[s] \in buckets /\ next[s] # Begin /\ nbucket[next[s]] = Null
                         /\ count[next[s]] = 0
                         /\ n[s] \in Linked
                         /\ offset[next[s]] = offset[n[s]] + C
                         /\ tmp[s] \in {Null, n[s]}
                         /\ \A u \in Threads \ {s} : pc[u] = "link" => next[u] # next[s])'
    BY DEF Unlinked
  <2>3. CASE s = t
    BY <1>1, <1>2, <1>3, <1>5, <1>6, <2>1, <2>3 DEF Inv, TypeOK, ChainOK, ThreadsOK, Allocate
  <2>4. CASE s # t
    <3>1. pc[s] = "link" /\ next'[s] = next[s] /\ n'[s] = n[s] /\ tmp'[s] = tmp[s]
      BY <2>2, <2>4 DEF Allocate, Inv, TypeOK, ChainOK, ThreadsOK
    <3>2. next[s] \in buckets /\ next[s] # b /\ n[s] \in Linked
      BY <1>1, <3>1 DEF Inv, Unlinked
    <3>3. /\ nbucket'[next[s]] = nbucket[next[s]] /\ offset'[next[s]] = offset[next[s]]
          /\ count'[next[s]] = count[next[s]] /\ next[s] \in buckets'
      BY <3>2 DEF Inv, TypeOK, ChainOK, ThreadsOK, Allocate
    <3>4. \A u \in Threads \ {s} : pc'[u] = "link" => next'[u] # next[s]
      BY <1>1, <3>1, <3>2 DEF Inv, TypeOK, ChainOK, ThreadsOK, Unlinked, Allocate
    <3>5. QED
      BY <1>3, <1>6, <3>1, <3>2, <3>3, <3>4 DEF Inv, Unlinked
  <2>5. QED
    BY <2>3, <2>4
<1>8. Links' /\ Disjoint' /\ LastIsHighest' /\ LiveCounted'
  BY <1>3, <1>6 DEF Inv, Links, Disjoint, LastIsHighest, LiveCounted, Allocate
<1>9. Owned' /\ OwnBuckets'
  BY <1>3, <1>6 DEF Inv, TypeOK, ChainOK, ThreadsOK, Owned, OwnBuckets, Allocate
<1>10. Extending'
  BY DEF Inv, TypeOK, ChainOK, ThreadsOK, Extending, Allocate
<1>11. QED
  BY <1>4, <1>7, <1>8, <1>9, <1>10 DEF Inv

\* The bucket that is linked becomes the end of the chain: nobody can have linked
\* another one behind n[t], because its _nbucket is still what tmp[t] is, nullptr.
LEMMA LinkInv ==
  ASSUME Inv, NEW t \in Threads, Link(t) PROVE Inv'
<1> DEFINE b == next[t]
           last == n[t]
<1> USE LinkedBucketAssumption
<1>1. /\ b \in buckets /\ b \in Buckets /\ nbucket[b] = Null /\ count[b] = 0 /\ b # Begin
      /\ last \in Linked /\ last \in Buckets /\ offset[b] = offset[last] + C
      /\ \A s \in Threads \ {t} : pc[s] = "link" => next[s] # b
  BY DEF Inv, TypeOK, ChainOK, ThreadsOK, Unlinked, Link
<1>2. b \notin Linked /\ b # last
  BY <1>1 DEF Linked, Link
<1>3. tmp[t] = Null /\ nbucket[last] = Null
  <2>1. tmp[t] \in {Null, last} /\ nbucket[last] = tmp[t]
    BY DEF Inv, Unlinked, Link
  <2>2. nbucket[last] # last
    <3>1. offset[last] \in Nat
      BY <1>1 DEF Inv, TypeOK, ChainOK, ThreadsOK
    <3>2. QED
      BY <1>1, <3>1 DEF Inv, Links
  <2>3. QED
    BY <2>1, <2>2
<1>4. Linked' = Linked \cup {b}
  BY <1>1 DEF Inv, TypeOK, ChainOK, ThreadsOK, Linked, Link
<1>5. TypeOK'
  <2>1. ChainOK'
    BY <1>1 DEF Inv, TypeOK, ChainOK, ThreadsOK, Link
  <2>2. TableOK'
    BY DEF Inv, TypeOK, TableOK, Link, table
  <2>3. ThreadsOK'
    BY <1>1 DEF Inv, TypeOK, ChainOK, TableOK, ThreadsOK, Link
  <2>4. live' \subseteq Nat
    BY <1>1 DEF Inv, TypeOK, ChainOK, Link
  <2>5. QED
    BY <2>1, <2>2, <2>3, <2>4 DEF TypeOK
<1>6. offset' = offset /\ count' = count /\ live' = live /\ Linked \subseteq Buckets
  BY DEF Inv, TypeOK, ChainOK, ThreadsOK, Link, Linked
<1>7. nbucket'[last] = b /\ \A c \in Buckets \ {last} : nbucket'[c] = nbucket[c]
  BY <1>1 DEF Inv, TypeOK, ChainOK, ThreadsOK, Link
<1>8. \A c \in Linked : offset[c] \in Nat /\ offset[c] <= offset[last]
  BY <1>1, <1>3, <1>6 DEF Inv, TypeOK, ChainOK, ThreadsOK, LastIsHighest
<1>9. Unlinked'
  <2>1. SUFFICES ASSUME NEW s \in Threads, pc'[s] = "link"
                 PROVE  (/\ next[s] \in buckets /\ next[s] # Begin /\ nbucket[next[s]] = Null
                         /\ count[next[s]] = 0
                         /\ n[s] \in Linked
                         /\ offset[next[s]] = offset[n[s]] + C
                         /\ tmp[s] \in {Null, n[s]}
                         /\ \A u \in Threads \ {s} : pc[u] = "link" => next[u] # next[s])'
    BY DEF Unlinked
  <2>2. s # t /\ pc[s] = "link"
    BY <2>1 DEF Link, Inv, TypeOK, ChainOK, ThreadsOK
  <2>3. next[s] \in Buckets /\ next[s] \notin Linked
    BY <2>2 DEF Linked, Inv, TypeOK, ChainOK, ThreadsOK
  <2>4. next[s] # last /\ nbucket'[next[s]] = nbucket[next[s]]
    BY <1>1, <1>7, <2>3
  <2>5. QED
    BY <1>4, <1>6, <2>2, <2>4 DEF Inv, TypeOK, ChainOK, ThreadsOK, Unlinked, Link
<1>10. Links'
  BY <1>1, <1>2, <1>4, <1>6, <1>7 DEF Inv, Links
<1>11. Disjoint'
  BY <1>1, <1>2, <1>4, <1>6, <1>8 DEF Inv, Disjoint
<1>12. LastIsHighest'
  <2>1. SUFFICES ASSUME NEW c \in Linked \cup {b}, NEW d \in Linked \cup {b}, nbucket'[c] = Null
                 PROVE  offset[d] <= offset[c]
    BY <1>4, <1>6 DEF LastIsHighest
  <2>2. c = b
    <3>1. offset[b] \in Nat /\ offset[last] \in Nat
      BY <1>1 DEF Inv, TypeOK, ChainOK, ThreadsOK
    <3>2. SUFFICES ASSUME c \in Linked PROVE FALSE
      BY <2>1
    <3>3. c # last
      BY <1>1, <1>7, <2>1
    <3>4. nbucket[c] = Null /\ c \in Buckets /\ offset[c] \in Nat
      BY <1>6, <1>7, <2>1, <3>2, <3>3 DEF Inv, TypeOK, ChainOK, ThreadsOK
    <3>5. offset[c] = offset[last]
      BY <1>1, <1>8, <3>2, <3>4 DEF Inv, LastIsHighest
    <3>6. QED
      BY <1>1, <3>1, <3>2, <3>3, <3>4, <3>5 DEF Inv, Disjoint
  <2>3. QED
    BY <1>1, <1>8, <2>1, <2>2 DEF Inv, TypeOK, ChainOK, ThreadsOK
<1>13. Owned' /\ OwnBuckets'
  BY <1>1, <1>2, <1>4, <1>6 DEF Inv, TypeOK, ChainOK, ThreadsOK, Owned, OwnBuckets, Link
<1>14. LiveCounted'
  BY <1>4, <1>6 DEF Inv, LiveCounted
<1>15. Extending'
  BY DEF Inv, TypeOK, ChainOK, ThreadsOK, Extending, Link
<1>16. QED
  BY <1>5, <1>9, <1>10, <1>11, <1>12, <1>13, <1>14, <1>15 DEF Inv

\* The offset of the new bucket moves on with the place where it may be linked.
LEMMA AdvanceInv ==
  ASSUME Inv, NEW t \in Threads, Advance(t) PROVE Inv'
<1> DEFINE b == next[t]
           found == nbucket[n[t]]
<1> USE LinkedBucketAssumption
<1>1. /\ pc[t] = "link" /\ b \in Buckets /\ n[t] \in Linked /\ n[t] \in Buckets
      /\ offset[b] = offset[n[t]] + C
      /\ \A s \in Threads \ {t} : pc[s] = "link" => next[s] # b
  BY DEF Inv, TypeOK, ChainOK, ThreadsOK, Unlinked, Advance
<1>2. b \notin Linked
  BY <1>1 DEF Linked
<1>3. Linked' = Linked /\ Linked \subseteq Buckets
  BY DEF Linked, Advance, table, Inv, TypeOK, ChainOK, ThreadsOK
<1>4. TypeOK'
  <2>1. ChainOK'
    BY <1>1 DEF Inv, TypeOK, ChainOK, ThreadsOK, Advance
  <2>2. TableOK'
    BY DEF Inv, TypeOK, TableOK, Advance, table
  <2>3. ThreadsOK'
    BY <1>1 DEF Inv, TypeOK, ChainOK, ThreadsOK, Advance
  <2>4. live' \subseteq Nat
    BY <1>1 DEF Inv, TypeOK, ChainOK, Advance
  <2>5. QED
    BY <2>1, <2>2, <2>3, <2>4 DEF TypeOK
<1>5. \A c \in Linked : nbucket'[c] = nbucket[c] /\ offset'[c] = offset[c] /\ count'[c] = count[c]
  BY <1>2, <1>3 DEF Inv, TypeOK, ChainOK, ThreadsOK, Advance
<1>6. CASE found = Null
  <2>1. /\ UNCHANGED <<buckets, nbucket, offset, count, tnext, pc, n, next, id, nindex, live>>
        /\ tmp' = [tmp EXCEPT ![t] = Null]
    BY <1>6 DEF Advance
  <2>2. Unlinked'
    BY <1>3, <2>1 DEF Inv, TypeOK, ThreadsOK, Unlinked
  <2>3. Links' /\ Disjoint' /\ LastIsHighest' /\ LiveCounted'
    BY <1>3, <2>1 DEF Inv, Links, Disjoint, LastIsHighest, LiveCounted
  <2>4. Owned' /\ OwnBuckets' /\ Extending'
    BY <1>3, <2>1 DEF Inv, Owned, OwnBuckets, Extending
  <2>5. QED
    BY <1>4, <2>2, <2>3, <2>4 DEF Inv
<1>7. CASE found # Null
  <2>1. found \in Linked /\ offset[found] = offset[n[t]] + C
    BY <1>1, <1>7 DEF Inv, Links
  <2>2. n'[t] = found /\ tmp'[t] = found /\ offset'[b] = offset[b] + C
    BY <1>1, <1>7 DEF Inv, TypeOK, ChainOK, ThreadsOK, Advance
  <2>3. Unlinked'
    <3>1. SUFFICES ASSUME NEW s \in Threads, pc'[s] = "link"
                   PROVE  (/\ next[s] \in buckets /\ next[s] # Begin
                           /\ nbucket[next[s]] = Null
                           /\ count[next[s]] = 0
                           /\ n[s] \in Linked
                           /\ offset[next[s]] = offset[n[s]] + C
                           /\ tmp[s] \in {Null, n[s]}
                           /\ \A u \in Threads \ {s} : pc[u] = "link" => next[u] # next[s])'
      BY DEF Unlinked
    <3>2. CASE s = t
      BY <1>1, <1>2, <1>3, <1>5, <2>1, <2>2, <3>2
          DEF Inv, TypeOK, ChainOK, ThreadsOK, Unlinked, Advance
    <3>3. CASE s # t
      <4>1. next[s] # b /\ offset'[next[s]] = offset[next[s]] /\ n'[s] = n[s] /\ tmp'[s] = tmp[s]
        BY <1>1, <3>1, <3>3 DEF Inv, TypeOK, ChainOK, ThreadsOK, Advance
      <4>2. QED
        BY <1>3, <1>5, <3>1, <4>1 DEF Inv, TypeOK, ChainOK, ThreadsOK, Unlinked, Advance
    <3>4. QED
      BY <3>2, <3>3
  <2>4. Links' /\ Disjoint' /\ LastIsHighest' /\ LiveCounted'
    BY <1>3, <1>5 DEF Inv, Links, Disjoint, LastIsHighest, LiveCounted, Advance
  <2>5. Owned' /\ OwnBuckets' /\ Extending'
    BY <1>3, <1>5 DEF Inv, Owned, OwnBuckets, Extending, Advance
  <2>6. QED
    BY <1>4, <2>3, <2>4, <2>5 DEF Inv
<1>8. QED
  BY <1>6, <1>7

\* insertToIndex leaves the chain alone.
LEMMA IndexInv ==
  ASSUME Inv, NEW t \in Threads, IndexWalk(t) \/ Extend(t) \/ Enter(t) PROVE Inv'
<1> USE LinkedBucketAssumption
<1>1. UNCHANGED <<buckets, nbucket, offset, count, tnext, n, tmp, next, live>>
  BY DEF IndexWalk, Extend, Enter, chain, locals
<1>2. /\ pc[t] \in {"index", "extend"}
      /\ \A s \in Threads : s # t => pc'[s] = pc[s]
      /\ pc'[t] \in {"index", "extend", "take"}
  BY DEF IndexWalk, Extend, Enter, Inv, TypeOK, ChainOK, ThreadsOK
<1>3. Linked' = Linked
  BY <1>1, <1>2 DEF Linked
<1>4. TypeOK'
  <2>1. ChainOK' /\ live' \subseteq Nat
    BY <1>1 DEF Inv, TypeOK, ChainOK
  <2>2. C * C \in Nat
    OBVIOUS
  <2>3. /\ id[t] \in Nat /\ at[t] \in Indexes /\ nindex[t] \in Indexes /\ next[t] \in Buckets
        /\ id[t] >= C * C => id[t] - C * C \in Nat
    BY <2>2 DEF Inv, TypeOK, ThreadsOK
  <2>4. CASE IndexWalk(t) /\ inext[at[t]] # Null
    <3>1. inext[at[t]] \in Indexes /\ id[t] - C * C \in Nat
      BY <2>3, <2>4 DEF Inv, TypeOK, TableOK, IndexWalk
    <3>2. TableOK'
      BY <2>4 DEF Inv, TypeOK, TableOK, IndexWalk, table
    <3>3. ThreadsOK'
      BY ZenonT(60), <1>1, <2>4, <3>1 DEF Inv, TypeOK, ThreadsOK, IndexWalk
    <3>4. QED
      BY <2>1, <3>2, <3>3 DEF TypeOK
  <2>5. CASE IndexWalk(t) /\ inext[at[t]] = Null
    <3>1. FreshIndex \in Indexes
      BY <2>5, FreshIndexFact DEF Inv, TypeOK, TableOK, IndexWalk
    <3>2. TableOK'
      <4>1. [s \in 0 .. C - 1 |-> Null] \in [0 .. C - 1 -> Buckets \cup {Null}]
        OBVIOUS
      <4>2. /\ indexes' = indexes \cup {FreshIndex}
            /\ index' = [index EXCEPT ![FreshIndex] = [s \in 0 .. C - 1 |-> Null]]
            /\ inext' = [inext EXCEPT ![FreshIndex] = Null]
        BY <2>5 DEF IndexWalk
      <4>3. QED
        BY <3>1, <4>1, <4>2 DEF Inv, TypeOK, TableOK
    <3>3. ThreadsOK'
      <4>1. /\ pc' = [pc EXCEPT ![t] = "extend"]
            /\ nindex' = [nindex EXCEPT ![t] = FreshIndex]
            /\ UNCHANGED <<at, id>>
        BY <2>5 DEF IndexWalk
      <4>2. QED
        BY <1>1, <3>1, <4>1 DEF Inv, TypeOK, ThreadsOK
    <3>4. QED
      BY <2>1, <3>2, <3>3 DEF TypeOK
  <2>6. CASE Extend(t)
    <3>1. id[t] - C * C \in Nat /\ nindex[t] # First
      BY <2>3, <2>6 DEF Inv, Extending, Extend
    <3>2. TableOK'
      BY <2>3, <2>6, <3>1 DEF Inv, TypeOK, TableOK, Extend
    <3>3. ThreadsOK'
      BY <1>1, <2>3, <2>6, <3>1 DEF Inv, TypeOK, ThreadsOK, Extend
    <3>4. QED
      BY <2>1, <3>2, <3>3 DEF TypeOK
  <2>7. CASE Enter(t)
    <3>1. TableOK'
      BY <2>3, <2>7 DEF Inv, TypeOK, TableOK, Enter
    <3>2. ThreadsOK'
      BY <2>7 DEF Inv, TypeOK, ThreadsOK, Enter, locals
    <3>3. QED
      BY <2>1, <3>1, <3>2 DEF TypeOK
  <2>8. QED
    BY <2>4, <2>5, <2>6, <2>7
<1>5. Extending'
  <2>1. CASE IndexWalk(t)
    <3>1. pc'[t] = "extend" => id'[t] >= C * C /\ nindex'[t] # First
      BY <1>2, <2>1, FreshIndexFact DEF Inv, TypeOK, TableOK, ThreadsOK, IndexWalk
    <3>2. \A s \in Threads : s # t => id'[s] = id[s] /\ nindex'[s] = nindex[s]
      BY <2>1 DEF Inv, TypeOK, ChainOK, ThreadsOK, IndexWalk
    <3>3. QED
      BY <1>2, <3>1, <3>2 DEF Inv, Extending
  <2>2. CASE Extend(t)
    BY <2>2 DEF Inv, TypeOK, ChainOK, ThreadsOK, Extending, Extend
  <2>3. CASE Enter(t)
    BY <2>3 DEF Inv, TypeOK, ChainOK, ThreadsOK, Extending, Enter, locals
  <2>4. QED
    BY <2>1, <2>2, <2>3
<1>6. QED
  BY <1>1, <1>2, <1>3, <1>4, <1>5
     DEF Inv, Unlinked, Links, Disjoint, LastIsHighest, Owned, OwnBuckets, LiveCounted

\* The counter of the thread's own bucket, which is not full, goes up by one.
LEMMA TakeInv ==
  ASSUME Inv, NEW t \in Threads, Take(t) PROVE Inv'
<1> DEFINE b == tnext[t]
<1> USE LinkedBucketAssumption
<1>1. b \in Linked /\ b \in Buckets /\ count[b] < C /\ b # Null
  <2>1. CASE pc[t] = "take"
    BY <2>1 DEF Inv, TypeOK, ChainOK, ThreadsOK, Owned
  <2>2. CASE pc[t] = "idle" /\ ~ NoBucket(t)
    <3>1. b \in Buckets /\ count[b] # C
      BY <2>2 DEF NoBucket, Inv, TypeOK, ChainOK, ThreadsOK
    <3>2. count[b] \in 0 .. C
      BY <3>1 DEF Inv, TypeOK, ChainOK, ThreadsOK
    <3>3. QED
      BY <3>1, <3>2 DEF Inv, TypeOK, ChainOK, ThreadsOK, Owned
  <2>3. QED
    BY <2>1, <2>2 DEF Take
<1>2. UNCHANGED <<buckets, nbucket, offset, tnext, n, tmp, next, at, id, nindex>>
  BY DEF Take, locals
<1>3. Linked' = Linked
  BY DEF Linked, Take, Inv, TypeOK, ChainOK, ThreadsOK, locals
<1>4. TypeOK'
  <2>1. ChainOK'
    BY <1>1 DEF Inv, TypeOK, ChainOK, ThreadsOK, Take, locals
  <2>2. TableOK'
    BY DEF Inv, TypeOK, TableOK, Take, table
  <2>3. ThreadsOK'
    <3>1. pc' = [pc EXCEPT ![t] = "idle"]
      BY DEF Take
    <3>2. QED
      BY <1>2, <3>1 DEF Inv, TypeOK, ThreadsOK
  <2>4. live' \subseteq Nat
    <3>1. live' = live \cup {offset[b] + count[b]}
      BY DEF Take
    <3>2. offset[b] \in Nat /\ count[b] \in Nat
      BY <1>1 DEF Inv, TypeOK, ChainOK
    <3>3. offset[b] + count[b] \in Nat /\ live \subseteq Nat
      BY <3>2 DEF Inv, TypeOK
    <3>4. QED
      BY <3>1, <3>3
  <2>5. QED
    BY <2>1, <2>2, <2>3, <2>4 DEF TypeOK
<1>5. count'[b] = count[b] + 1 /\ \A c \in Buckets \ {b} : count'[c] = count[c]
  BY <1>1 DEF Inv, TypeOK, ChainOK, ThreadsOK, Take
<1>6. \A s \in Threads : pc[s] = "link" => next[s] \in Buckets /\ next[s] # b
  BY <1>1 DEF Inv, TypeOK, ChainOK, ThreadsOK, Linked
<1>7. pc'[t] = "idle" /\ \A s \in Threads \ {t} : pc'[s] = pc[s]
  BY DEF Inv, TypeOK, ChainOK, ThreadsOK, Take
<1>8. Unlinked'
  BY <1>2, <1>3, <1>5, <1>6, <1>7 DEF Inv, TypeOK, ChainOK, ThreadsOK, Unlinked
<1>9. Links' /\ Disjoint' /\ LastIsHighest'
  BY <1>2, <1>3 DEF Inv, Links, Disjoint, LastIsHighest
<1>10. Owned' /\ OwnBuckets' /\ Extending'
  BY <1>1, <1>2, <1>3, <1>5, <1>7 DEF Inv, TypeOK, ChainOK, ThreadsOK, Owned, OwnBuckets, Extending
<1>11. LiveCounted'
  <2>1. SUFFICES ASSUME NEW i \in live'
                 PROVE  \E c \in Linked : offset[c] <= i /\ i < offset[c] + count'[c]
    BY <1>2, <1>3 DEF LiveCounted
  <2>2. CASE i \in live
    <3>1. PICK c \in Linked : offset[c] <= i /\ i < offset[c] + count[c]
      BY <2>2 DEF Inv, LiveCounted
    <3>2. c \in Buckets /\ offset[c] \in Nat /\ count[c] \in Nat /\ i \in Nat
      BY <2>2 DEF Inv, TypeOK, ChainOK, ThreadsOK, Linked
    <3>3. QED
      BY <1>5, <3>1, <3>2
  <2>3. CASE i = offset[b] + count[b]
    BY <1>1, <1>5, <2>3 DEF Inv, TypeOK, ChainOK, ThreadsOK
  <2>4. QED
    BY <2>2, <2>3 DEF Take
<1>12. QED
  BY <1>4, <1>8, <1>9, <1>10, <1>11 DEF Inv

\* The counter goes down by one, and the id that is given back is the last counted.
LEMMA PopBackInv ==
  ASSUME Inv, NEW t \in Threads, PopBack(t) PROVE Inv'
<1> DEFINE b == tnext[t]
<1> USE LinkedBucketAssumption
<1>1. b \in Linked /\ b \in Buckets /\ count[b] > 0 /\ count[b] \in 0 .. C
  BY DEF Inv, TypeOK, ChainOK, ThreadsOK, Owned, PopBack
<1>2. UNCHANGED <<buckets, nbucket, offset, tnext, pc, n, tmp, next, at, id, nindex>>
  BY DEF PopBack, locals
<1>3. Linked' = Linked
  BY <1>2 DEF Linked
<1>4. TypeOK'
  <2>1. ChainOK'
    BY <1>1 DEF Inv, TypeOK, ChainOK, ThreadsOK, PopBack, locals
  <2>2. TableOK'
    BY DEF Inv, TypeOK, TableOK, PopBack, table
  <2>3. ThreadsOK'
    BY <1>1 DEF Inv, TypeOK, ChainOK, ThreadsOK, PopBack, locals
  <2>4. live' \subseteq Nat
    BY <1>1 DEF Inv, TypeOK, ChainOK, PopBack
  <2>5. QED
    BY <2>1, <2>2, <2>3, <2>4 DEF TypeOK
<1>5. count'[b] = count[b] - 1 /\ \A c \in Buckets \ {b} : count'[c] = count[c]
  BY <1>1 DEF Inv, TypeOK, ChainOK, ThreadsOK, PopBack
<1>6. \A s \in Threads : pc[s] = "link" => next[s] \in Buckets /\ next[s] # b
  BY <1>1 DEF Inv, TypeOK, ChainOK, ThreadsOK, Linked
<1>7. pc[t] = "idle" /\ \A s \in Threads \ {t} : tnext[s] # b
  BY <1>1 DEF Inv, OwnBuckets, PopBack
<1>8. Unlinked'
  BY <1>2, <1>3, <1>5, <1>6 DEF Inv, TypeOK, ChainOK, ThreadsOK, Unlinked
<1>9. Links' /\ Disjoint' /\ LastIsHighest'
  BY <1>2, <1>3 DEF Inv, Links, Disjoint, LastIsHighest
<1>10. Owned' /\ OwnBuckets' /\ Extending'
  BY <1>2, <1>3, <1>5, <1>7 DEF Inv, TypeOK, ChainOK, ThreadsOK, Owned, OwnBuckets, Extending
<1>11. LiveCounted'
  <2>1. SUFFICES ASSUME NEW i \in live'
                 PROVE  \E c \in Linked : offset[c] <= i /\ i < offset[c] + count'[c]
    BY <1>2, <1>3 DEF LiveCounted
  <2>2. i \in live /\ i # offset[b] + count[b] - 1
    BY DEF PopBack
  <2>3. PICK c \in Linked : offset[c] <= i /\ i < offset[c] + count[c]
    BY <2>2 DEF Inv, LiveCounted
  <2>4. c \in Buckets /\ offset[c] \in Nat /\ count[c] \in Nat /\ i \in Nat
    BY <2>2 DEF Inv, TypeOK, ChainOK, ThreadsOK, Linked
  <2>5. QED
    BY <1>1, <1>5, <2>2, <2>3, <2>4
<1>12. QED
  BY <1>4, <1>8, <1>9, <1>10, <1>11 DEF Inv

\* Every step of every thread keeps the invariant.
LEMMA NextInv == Inv /\ [Next]_vars => Inv'
<1>1. SUFFICES ASSUME Inv, [Next]_vars PROVE Inv'
  OBVIOUS
<1>2. ASSUME NEW t \in Threads, Allocate(t) PROVE Inv'
  BY <1>1, <1>2, AllocateInv
<1>3. ASSUME NEW t \in Threads, Link(t) PROVE Inv'
  BY <1>1, <1>3, LinkInv
<1>4. ASSUME NEW t \in Threads, Advance(t) PROVE Inv'
  BY <1>1, <1>4, AdvanceInv
<1>5. ASSUME NEW t \in Threads, IndexWalk(t) \/ Extend(t) \/ Enter(t) PROVE Inv'
  BY <1>1, <1>5, IndexInv
<1>6. ASSUME NEW t \in Threads, Take(t) PROVE Inv'
  BY <1>1, <1>6, TakeInv
<1>7. ASSUME NEW t \in Threads, PopBack(t) PROVE Inv'
  BY <1>1, <1>7, PopBackInv
<1>8. CASE Renew
  BY <1>1, <1>8, RenewInv DEF Inv
<1>9. CASE UNCHANGED vars
  BY <1>1, <1>9 DEF vars, chain, table, locals, Inv, TypeOK, ChainOK, TableOK, ThreadsOK,
                    Unlinked, Links, Disjoint, LastIsHighest, Owned, OwnBuckets, LiveCounted,
                     Extending, Linked
<1>10. QED
  BY <1>1, <1>2, <1>3, <1>4, <1>5, <1>6, <1>7, <1>8, <1>9 DEF Next

-----------------------------------------------------------------------------
(* Theorems *)

\* The invariant holds in every state of linked_bucket_t.
THEOREM Invariance == Spec => []Inv
<1>1. Init => Inv
  BY FreshInv DEF Init, Fresh
<1>2. Inv /\ [Next]_vars => Inv'
  BY NextInv
<1>3. QED
  BY <1>1, <1>2, PTL DEF Spec

\* Every variable holds a value of its type: in particular no bucket is ever filled
\* beyond its C cells.
THEOREM Typing == Spec => []TypeOK
<1>1. Inv => TypeOK
  BY DEF Inv
<1>2. QED
  BY <1>1, Invariance, PTL

\* The counter _count of a bucket is touched by one thread only, so that it need not
\* be atomic.
THEOREM PrivateCounters == Spec => []OwnBuckets
<1>1. Inv => OwnBuckets
  BY DEF Inv
<1>2. QED
  BY <1>1, Invariance, PTL

\* next never returns an id that is in use, whichever threads race to link buckets.
THEOREM IdsAreFresh == Spec => FreshIds
<1>1. ASSUME Inv, NEW t \in Threads, Take(t)
      PROVE  offset[tnext[t]] + count[tnext[t]] \notin live
  <2> DEFINE b == tnext[t]
  <2> USE <1>1, LinkedBucketAssumption
  <2>1. b \in Linked /\ b \in Buckets
    BY DEF Inv, TypeOK, ChainOK, ThreadsOK, Owned, NoBucket, Take
  <2>2. SUFFICES ASSUME offset[b] + count[b] \in live PROVE FALSE
    OBVIOUS
  <2>3. PICK c \in Linked : /\ offset[c] <= offset[b] + count[b]
                            /\ offset[b] + count[b] < offset[c] + count[c]
    BY <2>2 DEF Inv, LiveCounted
  <2>4. c \in Buckets /\ offset[c] \in Nat /\ count[c] \in 0 .. C
    BY DEF Inv, TypeOK, ChainOK, ThreadsOK, Linked
  <2>5. offset[b] \in Nat /\ count[b] \in 0 .. C /\ count[b] < C
    <3>1. offset[b] \in Nat /\ count[b] \in 0 .. C
      BY <2>1 DEF Inv, TypeOK, ChainOK, ThreadsOK
    <3>2. count[b] # C
      BY <2>1, <3>1 DEF Inv, TypeOK, ChainOK, ThreadsOK, Owned, NoBucket, Take
    <3>3. QED
      BY <3>1, <3>2
  <2>6. c # b
    BY <2>3, <2>5
  <2>7. offset[b] + C <= offset[c] \/ offset[c] + C <= offset[b]
    BY <2>1, <2>6 DEF Inv, Disjoint
  <2>8. QED
    BY <2>3, <2>4, <2>5, <2>7
<1>2. Inv /\ [Next]_vars =>
        [\A t \in Threads : Take(t) => offset[tnext[t]] + count[tnext[t]] \notin live]_vars
  BY <1>1
<1>3. QED
  BY <1>2, Invariance, PTL DEF Spec, FreshIds

\* The buckets of an entry of the index hold the C ids from s * C on.
LEMMA Division ==
  ASSUME NEW a \in Nat, C \in Nat \ {0}
  PROVE  a \div C \in Nat /\ (a \div C) * C <= a /\ a < (a \div C) * C + C
OBVIOUS

-----------------------------------------------------------------------------
(* The chain *)

\* Steps of the threads leave linked buckets linked, with their links and offsets.
LEMMA LinksStep ==
  ASSUME Inv, Next, ~ Renew
  PROVE  LinksStay /\ Linked \subseteq Linked'
<1> USE LinkedBucketAssumption
<1>1. Linked \subseteq buckets /\ buckets \subseteq Buckets
  BY DEF Linked, Inv, TypeOK, ChainOK
<1>2. PICK t \in Threads :
        \/ Allocate(t) \/ Link(t) \/ Advance(t)
        \/ IndexWalk(t) \/ Extend(t) \/ Enter(t)
        \/ Take(t) \/ PopBack(t)
  BY DEF Next
<1>3. CASE Allocate(t)
  <2>1. FreshBucket \in Buckets /\ FreshBucket \notin buckets
    BY <1>3, FreshBucketFact DEF Inv, TypeOK, ChainOK, Allocate
  <2>2. \A b \in Linked : nbucket'[b] = nbucket[b] /\ offset'[b] = offset[b]
    BY <1>1, <1>3, <2>1 DEF Inv, TypeOK, ChainOK, Allocate
  <2>3. Linked \subseteq Linked'
    BY <1>3, <2>1 DEF Inv, TypeOK, ThreadsOK, Linked, Allocate
  <2>4. QED
    BY <2>2, <2>3 DEF LinksStay
<1>4. CASE Link(t)
  <2>1. n[t] \in Linked /\ tmp[t] \in {Null, n[t]} /\ nbucket[n[t]] = tmp[t]
    BY <1>4 DEF Inv, Unlinked, Link
  <2>2. nbucket[n[t]] = Null
    <3>1. offset[n[t]] \in Nat
      BY <1>1, <2>1 DEF Inv, TypeOK, ChainOK
    <3>2. QED
      BY <1>1, <2>1, <3>1 DEF Inv, Links
  <2>3. \A b \in Linked : nbucket[b] \in {Null, nbucket'[b]} /\ offset'[b] = offset[b]
    BY <1>1, <1>4, <2>2 DEF Inv, TypeOK, ChainOK, Link
  <2>4. Linked \subseteq Linked'
    BY <1>4 DEF Inv, TypeOK, ThreadsOK, Linked, Link
  <2>5. QED
    BY <2>3, <2>4 DEF LinksStay
<1>5. CASE Advance(t)
  <2>1. next[t] \notin Linked
    BY <1>5 DEF Linked, Advance
  <2>2. \A b \in Linked : nbucket'[b] = nbucket[b] /\ offset'[b] = offset[b]
    BY <1>1, <1>5, <2>1 DEF Inv, TypeOK, ChainOK, Advance
  <2>3. Linked' = Linked
    BY <1>5 DEF Linked, Advance
  <2>4. QED
    BY <2>2, <2>3 DEF LinksStay
<1>6. CASE IndexWalk(t) \/ Extend(t) \/ Enter(t) \/ Take(t) \/ PopBack(t)
  <2>1. UNCHANGED <<buckets, nbucket, offset, next>>
    BY <1>6 DEF IndexWalk, Extend, Enter, Take, PopBack, chain, locals
  <2>2. \A s \in Threads : pc'[s] = "link" => pc[s] = "link"
    BY <1>6 DEF IndexWalk, Extend, Enter, Take, PopBack, Inv, TypeOK, ThreadsOK
  <2>3. Linked \subseteq Linked'
    BY <2>1, <2>2 DEF Linked
  <2>4. QED
    BY <2>1, <2>3 DEF LinksStay
<1>7. QED
  BY <1>2, <1>3, <1>4, <1>5, <1>6

-----------------------------------------------------------------------------
(* What the chain holds *)

\* a is a number of cells of whole buckets.
Whole(a) == \E q \in Nat : a = q * C

\* One bucket more, or an index node less, is a whole number of buckets again.
LEMMA WholeSteps ==
  ASSUME NEW a \in Nat, Whole(a)
  PROVE  Whole(0) /\ Whole(a + C) /\ (a >= C * C => Whole(a - C * C))
<1> USE LinkedBucketAssumption
<1>1. PICK q \in Nat : a = q * C
  BY DEF Whole
<1>2. 0 = 0 * C /\ a + C = (q + 1) * C
  BY <1>1
<1>3. ASSUME a >= C * C PROVE Whole(a - C * C)
  <2>1. q >= C
    <3>1. SUFFICES ASSUME q + 1 <= C PROVE FALSE
      OBVIOUS
    <3>2. PICK d \in Nat : C = q + 1 + d
      <4>1. C - (q + 1) \in Nat
        BY <3>1
      <4>2. QED
        BY <4>1
    <3>3. C * C = q * C + C + d * C
      BY <3>2
    <3>4. d * C \in Nat /\ q * C \in Nat
      OBVIOUS
    <3>5. QED
      BY <1>1, <1>3, <3>3, <3>4
  <2>2. a - C * C = (q - C) * C /\ q - C \in Nat
    BY <1>1, <2>1
  <2>3. QED
    BY <2>2 DEF Whole
<1>4. QED
  BY <1>2, <1>3 DEF Whole

\* The slot of an id is the one whose C ids it is among.
LEMMA SlotIs ==
  ASSUME NEW a \in Nat, NEW q \in Nat, q * C <= a, a < q * C + C
  PROVE  a \div C = q
<1> USE LinkedBucketAssumption
<1> DEFINE d == a \div C
<1>1. d \in Nat /\ d * C <= a /\ a < d * C + C
  BY Division
<1> HIDE DEF d
<1>2. d * C \in Nat /\ q * C \in Nat
  BY <1>1
<1>3. CASE d < q
  <2>1. PICK e \in Nat : q = d + 1 + e
    <3>1. q - (d + 1) \in Nat
      BY <1>1, <1>3
    <3>2. QED
      BY <1>1, <3>1
  <2>2. q * C = d * C + C + e * C /\ e * C \in Nat
    BY <1>1, <2>1
  <2>3. QED
    BY <1>1, <1>2, <2>2
<1>4. CASE q < d
  <2>1. PICK e \in Nat : d = q + 1 + e
    <3>1. d - (q + 1) \in Nat
      BY <1>1, <1>4
    <3>2. QED
      BY <1>1, <3>1
  <2>2. d * C = q * C + C + e * C /\ e * C \in Nat
    BY <1>1, <2>1
  <2>3. QED
    BY <1>1, <1>2, <2>2
<1>5. QED
  BY <1>1, <1>3, <1>4 DEF d

\* The slot of a whole number of buckets is exactly its number.
LEMMA WholeSlot ==
  ASSUME NEW a \in Nat, Whole(a)
  PROVE  a = (a \div C) * C
<1>1. PICK q \in Nat : a = q * C
  BY DEF Whole
<1>2. a \div C = q
  <2>1. q * C <= a /\ a < q * C + C
    BY <1>1, LinkedBucketAssumption
  <2>2. QED
    BY <2>1, SlotIs
<1>3. QED
  BY <1>1, <1>2

\* The slots of an index node are those of the ids that it is for.
LEMMA SlotInNode ==
  ASSUME NEW a \in Nat, a < C * C
  PROVE  a \div C \in 0 .. C - 1
<1> USE LinkedBucketAssumption
<1> DEFINE d == a \div C
<1>1. d \in Nat /\ d * C <= a
  BY Division
<1> HIDE DEF d
<1>2. SUFFICES ASSUME d >= C PROVE FALSE
  BY <1>1 DEF d
<1>3. PICK e \in Nat : d = C + e
  <2>1. d - C \in Nat
    BY <1>1, <1>2
  <2>2. QED
    BY <1>1, <2>1
<1>4. d * C = C * C + e * C /\ e * C \in Nat /\ C * C \in Nat
  BY <1>3
<1>5. QED
  BY <1>1, <1>4

\* The chain starts with id 0, links lead from linked buckets only, buckets are numbered by
\* their first ids, and every id that a linked bucket has counted is in use.
ChainInv ==
  /\ offset[Begin] = 0
  /\ \A b \in Buckets : nbucket[b] # Null => b \in Linked
  /\ \A b \in Linked : Whole(offset[b])
  /\ \A b \in Linked : \A i \in Nat : offset[b] <= i /\ i < offset[b] + count[b] => i \in live

\* Of a new list.
LEMMA FreshChainInv == Fresh => ChainInv
<1>1. SUFFICES ASSUME Fresh PROVE ChainInv
  OBVIOUS
<1>2. Linked = {Begin}
  BY <1>1 DEF Fresh, Linked
<1>3. offset[Begin] = 0 /\ count[Begin] = 0 /\ \A b \in Buckets : nbucket[b] = Null
  BY <1>1, LinkedBucketAssumption DEF Fresh
<1>4. Whole(0)
  <2>1. 0 = 0 * C
    BY LinkedBucketAssumption
  <2>2. QED
    BY <2>1 DEF Whole
<1>5. QED
  BY <1>2, <1>3, <1>4 DEF ChainInv

\* Only Link changes which buckets are linked.
LEMMA LinkedSame ==
  ASSUME Inv, NEW t \in Threads,
         Allocate(t) \/ Advance(t) \/ IndexWalk(t) \/ Extend(t) \/ Enter(t) \/ Take(t) \/ PopBack(t)
  PROVE  Linked' = Linked
<1>1. CASE Allocate(t)
  <2>1. FreshBucket \in Buckets /\ FreshBucket \notin buckets
    BY <1>1, FreshBucketFact DEF Inv, TypeOK, ChainOK, Allocate
  <2>2. /\ pc[t] = "idle" /\ buckets' = buckets \cup {FreshBucket}
        /\ pc' = [pc EXCEPT ![t] = "link"] /\ next' = [next EXCEPT ![t] = FreshBucket]
    BY <1>1 DEF Allocate
  <2>3. /\ pc'[t] = "link" /\ next'[t] = FreshBucket
        /\ \A u \in Threads \ {t} : pc'[u] = pc[u] /\ next'[u] = next[u]
    BY <2>2 DEF Inv, TypeOK, ThreadsOK
  <2>4. \A u \in Threads : pc[u] = "link" => next[u] # FreshBucket
    BY <2>1 DEF Inv, Unlinked
  <2>5. \A b : b \in Linked' <=> b \in Linked
    BY <2>1, <2>2, <2>3, <2>4 DEF Linked
  <2>6. QED
    BY <2>5
<1>2. CASE ~ Allocate(t)
  <2>1. UNCHANGED <<buckets, next>>
    BY <1>2 DEF Advance, IndexWalk, Extend, Enter, Take, PopBack, chain, locals
  <2>2. \A s \in Threads : pc'[s] = "link" <=> pc[s] = "link"
    BY <1>2 DEF Advance, IndexWalk, Extend, Enter, Take, PopBack, Inv, TypeOK, ThreadsOK
  <2>3. QED
    BY <2>1, <2>2 DEF Linked
<1>3. QED
  BY <1>1, <1>2

\* The thread's own bucket, when it takes an id or gives one back.
LEMMA OwnLinked ==
  ASSUME Inv, NEW t \in Threads, Take(t) \/ PopBack(t)
  PROVE  tnext[t] \in Linked
<1>1. CASE pc[t] = "take"
  BY <1>1 DEF Inv, Owned
<1>2. CASE pc[t] # "take" /\ Take(t)
  <2>1. tnext[t] \in buckets
    BY <1>2 DEF Take, NoBucket
  <2>2. QED
    BY <2>1, LinkedBucketAssumption DEF Inv, TypeOK, ChainOK, Owned
<1>3. CASE PopBack(t)
  BY <1>3 DEF PopBack, Inv, Owned
<1>4. QED
  BY <1>1, <1>2, <1>3

\* Steps of the threads keep what the chain holds.
LEMMA ChainStep ==
  ASSUME Inv, ChainInv, Next, ~ Renew
  PROVE  ChainInv'
<1> USE LinkedBucketAssumption
<1>1. LinksStay /\ Linked \subseteq Linked' /\ Begin \in Linked /\ Linked \subseteq Buckets
  <2>1. Begin \in Linked /\ Linked \subseteq Buckets
    BY DEF Inv, TypeOK, ChainOK, Unlinked, Linked
  <2>2. QED
    BY <2>1, LinksStep
<1>2. offset'[Begin] = 0
  BY <1>1 DEF ChainInv, LinksStay
<1>3. PICK t \in Threads :
        \/ Allocate(t) \/ Link(t) \/ Advance(t)
        \/ IndexWalk(t) \/ Extend(t) \/ Enter(t)
        \/ Take(t) \/ PopBack(t)
  BY DEF Next
<1>4. CASE Link(t)
  <2> DEFINE b == next[t]
  <2>1. /\ n[t] \in Linked /\ offset[b] = offset[n[t]] + C /\ count[b] = 0 /\ b \in Buckets
        /\ UNCHANGED <<offset, count, live, buckets, next>>
        /\ nbucket' = [nbucket EXCEPT ![n[t]] = b]
        /\ pc[t] = "link" /\ pc' = [pc EXCEPT ![t] = "index"]
    BY <1>4 DEF Link, Inv, Unlinked, TypeOK, ThreadsOK
  <2>2. Linked' \subseteq Linked \cup {b}
    <3>1. \A u \in Threads \ {t} : pc'[u] = pc[u]
      BY <2>1 DEF Inv, TypeOK, ThreadsOK
    <3>2. QED
      BY <2>1, <3>1 DEF Linked
  <2>3. Whole(offset[b])
    <3>1. offset[n[t]] \in Nat /\ Whole(offset[n[t]])
      BY <1>1, <2>1 DEF ChainInv, Inv, TypeOK, ChainOK
    <3>2. QED
      BY <2>1, <3>1, WholeSteps
  <2>4. \A c \in Buckets : nbucket'[c] # Null => c \in Linked
    BY <1>1, <2>1 DEF ChainInv, Inv, TypeOK, ChainOK
  <2>5. \A c \in Linked' : Whole(offset'[c])
    <3>1. SUFFICES ASSUME NEW c \in Linked' PROVE Whole(offset[c])
      BY <2>1 DEF Whole
    <3>2. QED
      BY <2>2, <2>3, <3>1 DEF ChainInv
  <2>6. \A i \in Nat : ~ (offset[b] <= i /\ i < offset[b] + count[b])
    BY <2>1 DEF Inv, TypeOK, ChainOK
  <2>7. QED
    BY <1>1, <1>2, <2>1, <2>2, <2>4, <2>5, <2>6 DEF ChainInv
<1>5. CASE ~ Link(t)
  <2>1. Linked' = Linked
    BY <1>3, <1>5, LinkedSame
  <2>2. \A b \in Linked : offset'[b] = offset[b]
    BY <1>1 DEF LinksStay
  <2>3. \A b \in Buckets : nbucket'[b] # Null => nbucket[b] # Null
    <3>1. CASE Allocate(t)
      BY <3>1 DEF Allocate, Inv, TypeOK, ChainOK
    <3>2. CASE ~ Allocate(t)
      <4>1. nbucket' = nbucket
        BY <1>3, <1>5, <3>2 DEF Advance, IndexWalk, Extend, Enter, Take, PopBack, chain
      <4>2. QED
        BY <4>1
    <3>3. QED
      BY <3>1, <3>2
  <2>4. \A b \in Linked' : Whole(offset'[b])
    <3>1. SUFFICES ASSUME NEW b \in Linked PROVE Whole(offset[b])
      BY <2>1, <2>2 DEF Whole
    <3>2. QED
      BY DEF ChainInv
  <2>5. ASSUME NEW b \in Linked, NEW i \in Nat, offset[b] <= i, i < offset[b] + count'[b]
        PROVE  i \in live'
    <3>1. CASE ~ Take(t) /\ ~ PopBack(t)
      <4>1. live' = live
        BY <1>3, <1>5, <3>1 DEF Allocate, Advance, IndexWalk, Extend, Enter
      <4>2. count'[b] = count[b]
        <5>1. CASE Allocate(t)
          <6>1. FreshBucket \notin Linked
            BY <5>1, FreshBucketFact DEF Allocate, Linked, Inv, TypeOK, ChainOK
          <6>2. QED
            BY <1>1, <5>1, <6>1 DEF Allocate, Inv, TypeOK, ChainOK
        <5>2. CASE ~ Allocate(t)
          BY <1>3, <1>5, <3>1, <5>2 DEF Advance, IndexWalk, Extend, Enter, chain
        <5>3. QED
          BY <5>1, <5>2
      <4>3. QED
        BY <2>5, <4>1, <4>2 DEF ChainInv
    <3>2. CASE Take(t)
      <4>1. /\ live' = live \cup {offset[tnext[t]] + count[tnext[t]]}
            /\ count' = [count EXCEPT ![tnext[t]] = @ + 1]
        BY <3>2 DEF Take
      <4>2. offset[b] \in Nat /\ count[b] \in Nat /\ b \in Buckets
        BY <1>1 DEF Inv, TypeOK, ChainOK
      <4>3. CASE b = tnext[t]
        <5>1. count'[b] = count[b] + 1
          BY <4>1, <4>2, <4>3 DEF Inv, TypeOK, ChainOK
        <5>2. i < offset[b] + count[b] \/ i = offset[b] + count[b]
          BY <2>5, <4>2, <5>1
        <5>3. QED
          BY <2>5, <4>1, <4>3, <5>2 DEF ChainInv
      <4>4. CASE b # tnext[t]
        <5>1. count'[b] = count[b]
          BY <4>1, <4>2, <4>4 DEF Inv, TypeOK, ChainOK
        <5>2. QED
          BY <2>5, <4>1, <5>1 DEF ChainInv
      <4>5. QED
        BY <4>3, <4>4
    <3>3. CASE PopBack(t)
      <4> DEFINE c == tnext[t]
      <4>1. /\ live' = live \ {offset[c] + count[c] - 1}
            /\ count' = [count EXCEPT ![c] = @ - 1] /\ count[c] > 0
        BY <3>3 DEF PopBack
      <4>2. c \in Linked
        BY <3>3, OwnLinked
      <4> HIDE DEF c
      <4>3. offset[b] \in Nat /\ count[b] \in 0 .. C /\ offset[c] \in Nat /\ count[c] \in 0 .. C
        BY <1>1, <4>2 DEF Inv, TypeOK, ChainOK
      <4>4. CASE b = c
        <5>1. count'[b] = count[b] - 1
          BY <1>1, <4>1, <4>4 DEF Inv, TypeOK, ChainOK
        <5>2. i < offset[b] + count[b] /\ i # offset[c] + count[c] - 1
          BY <2>5, <4>3, <4>4, <5>1
        <5>3. QED
          BY <2>5, <4>1, <5>2 DEF ChainInv
      <4>5. CASE b # c
        <5>1. count'[b] = count[b]
          BY <1>1, <4>1, <4>5 DEF Inv, TypeOK, ChainOK
        <5>2. offset[b] + C <= offset[c] \/ offset[c] + C <= offset[b]
          BY <4>2, <4>5 DEF Inv, Disjoint
        <5>3. i # offset[c] + count[c] - 1
          BY <2>5, <4>1, <4>3, <5>1, <5>2
        <5>4. QED
          BY <2>5, <4>1, <5>1, <5>3 DEF ChainInv
      <4>6. QED
        BY <4>4, <4>5
    <3>4. QED
      BY <3>1, <3>2, <3>3
  <2>6. QED
    BY <1>2, <2>1, <2>2, <2>3, <2>4, <2>5 DEF ChainInv
<1>6. QED
  BY <1>4, <1>5

-----------------------------------------------------------------------------
(* The index *)

Walking(t) == pc[t] \in {"index", "extend"}

\* The index nodes that no thread has to itself.
Used == {x \in indexes : \A t \in Threads : pc[t] = "extend" => nindex[t] # x}

\* The node that a thread is about to link is its own, and empty.
Spare ==
  \A t \in Threads : pc[t] = "extend" =>
    /\ nindex[t] \in indexes /\ inext[nindex[t]] = Null
    /\ \A s \in 0 .. C - 1 : index[nindex[t]][s] = Null
    /\ \A u \in Threads \ {t} : pc[u] = "extend" => nindex[u] # nindex[t]

\* Links lead from and to nodes that are used, and threads walk on these.
Levels ==
  /\ \A x \in Indexes : inext[x] # Null => x \in Used /\ inext[x] \in Used
  /\ \A t \in Threads : Walking(t) => at[t] \in Used /\ Whole(id[t])

\* base numbers the nodes by the first id that each is for.
Numbers(base) ==
  /\ base[First] = 0
  /\ \A x \in Indexes : inext[x] # Null => base[inext[x]] = base[x] + C * C
  /\ \A t \in Threads : Walking(t) => offset[next[t]] = base[at[t]] + id[t]

\* The nodes are for different ids, and the one without a successor is for the last.
Spread(base) ==
  /\ \A x, y \in Used : x # y => base[x] + C * C <= base[y] \/ base[y] + C * C <= base[x]
  /\ \A x, y \in Used : inext[x] = Null => base[y] <= base[x]

\* What is entered in the index is a linked bucket, at its place.
Entries(base) ==
  \A x \in Indexes, s \in 0 .. C - 1 : index[x][s] # Null =>
    /\ index[x][s] \in Linked
    /\ offset[index[x][s]] = base[x] + s * C

Numbered == \E base \in [Indexes -> Nat] : Numbers(base) /\ Spread(base) /\ Entries(base)

\* A linked bucket is in the index, or a thread is on its way to enter it.
Entered ==
  \A b \in Linked :
    \/ \E t \in Threads : Walking(t) /\ next[t] = b
    \/ \E x \in Used, s \in 0 .. C - 1 : index[x][s] = b

TableInv == Spare /\ Levels /\ Numbered /\ Entered

\* Of a new list.
LEMMA FreshIndexInv == Fresh => TableInv
<1> SUFFICES ASSUME Fresh PROVE TableInv
  OBVIOUS
<1> USE LinkedBucketAssumption
<1>1. Linked = {Begin} /\ First \in Used /\ \A t \in Threads : ~ Walking(t)
  BY DEF Fresh, Linked, Used, Walking
<1>2. Spare /\ Levels
  BY <1>1 DEF Fresh, Spare, Levels, Walking
<1>3. Numbers([x \in Indexes |-> 0]) /\ Spread([x \in Indexes |-> 0])
  <2>1. Used = {First}
    BY <1>1 DEF Fresh, Used
  <2>2. QED
    BY <1>1, <2>1 DEF Fresh, Numbers, Spread
<1>4. Entries([x \in Indexes |-> 0])
  <2>1. \A x \in Indexes, s \in 0 .. C - 1 :
          index[x][s] = IF x = First /\ s = 0 THEN Begin ELSE Null
    BY DEF Fresh, NoIndex
  <2>2. offset[Begin] = 0
    BY DEF Fresh
  <2>3. 0 * C = 0
    OBVIOUS
  <2>4. QED
    BY <1>1, <2>1, <2>2, <2>3 DEF Entries
<1>5. Entered
  <2>1. index[First][0] = Begin
    BY DEF Fresh, NoIndex
  <2>2. QED
    BY <1>1, <2>1 DEF Entered
<1>6. QED
  BY <1>2, <1>3, <1>4, <1>5 DEF TableInv, Numbered

\* Steps that do not touch the index.
LEMMA ElsewhereInv ==
  ASSUME Inv, TableInv, LinksStay, Linked' = Linked,
         UNCHANGED <<indexes, index, inext, at, id, nindex>>,
         \A t \in Threads : pc'[t] = "extend" <=> pc[t] = "extend",
         \A t \in Threads : Walking(t)' <=> Walking(t),
         \A t \in Threads : Walking(t) => next'[t] = next[t]
  PROVE  TableInv'
<1>1. Used' = Used /\ Spare' /\ Levels'
  BY DEF TableInv, Used, Spare, Levels, Whole
<1>2. PICK base \in [Indexes -> Nat] : Numbers(base) /\ Spread(base) /\ Entries(base)
  BY DEF TableInv, Numbered
<1>3. \A b \in Linked : offset'[b] = offset[b]
  BY DEF LinksStay
<1>4. \A t \in Threads : Walking(t) => next[t] \in Linked
  BY DEF Inv, Owned, Walking
<1>5. Numbers(base)'
  BY <1>2, <1>3, <1>4 DEF Numbers
<1>6. Entries(base)' /\ Spread(base)'
  BY <1>1, <1>2, <1>3 DEF Entries, Spread
<1>7. Entered'
  BY <1>1 DEF TableInv, Entered
<1>8. QED
  BY <1>1, <1>5, <1>6, <1>7 DEF TableInv, Numbered

\* The thread that has linked its bucket starts at the first node.
LEMMA LinkIndexInv ==
  ASSUME Inv, Inv', ChainInv, TableInv, NEW t \in Threads, Link(t),
         LinksStay, Linked \subseteq Linked'
  PROVE  TableInv'
<1> USE LinkedBucketAssumption
<1>1. /\ UNCHANGED <<indexes, index, inext, nindex, offset, next>>
      /\ pc[t] = "link" /\ pc' = [pc EXCEPT ![t] = "index"]
      /\ at' = [at EXCEPT ![t] = First] /\ id' = [id EXCEPT ![t] = offset[next[t]]]
  BY DEF Link, table
<1>2. pc'[t] = "index" /\ \A u \in Threads \ {t} : pc'[u] = pc[u]
  BY <1>1 DEF Inv, TypeOK, ThreadsOK
<1>3. at'[t] = First /\ id'[t] = offset[next[t]]
      /\ \A u \in Threads \ {t} : at'[u] = at[u] /\ id'[u] = id[u]
  BY <1>1 DEF Inv, TypeOK, ThreadsOK
<1>4. Used' = Used /\ First \in Used
  BY <1>1, <1>2 DEF Used, Inv, TypeOK, TableOK, Extending
<1>5. Spare'
  BY <1>1, <1>2 DEF TableInv, Spare
<1>6. Levels'
  <2>1. Whole(offset[next[t]])
    <3>1. n[t] \in Linked /\ offset[next[t]] = offset[n[t]] + C
      BY <1>1 DEF Inv, Unlinked
    <3>2. offset[n[t]] \in Nat /\ Whole(offset[n[t]])
      BY <3>1 DEF ChainInv, Inv, TypeOK, ChainOK, ThreadsOK
    <3>3. QED
      BY <3>1, <3>2, WholeSteps
  <2>2. \A u \in Threads : Walking(u)' => at'[u] \in Used /\ Whole(id'[u])
    BY <1>1, <1>2, <1>3, <1>4, <2>1 DEF TableInv, Levels, Walking, Whole
  <2>3. QED
    BY <1>1, <1>4, <2>2 DEF TableInv, Levels, Whole
<1>7. PICK base \in [Indexes -> Nat] : Numbers(base) /\ Spread(base) /\ Entries(base)
  BY DEF TableInv, Numbered
<1>8. Numbers(base)'
  <2>1. next[t] \in Buckets /\ offset[next[t]] \in Nat
    BY DEF Inv, TypeOK, ChainOK, ThreadsOK
  <2>2. QED
    BY <1>1, <1>2, <1>3, <1>7, <2>1 DEF Numbers, Walking
<1>9. Entries(base)' /\ Spread(base)'
  BY <1>1, <1>4, <1>7 DEF Entries, Spread
<1>10. Entered'
  <2>1. \A b \in Linked' : b = next[t] \/ b \in Linked
    BY <1>1, <1>2 DEF Linked, Link
  <2>2. Walking(t)'
    BY <1>2 DEF Walking
  <2>3. \A u \in Threads : Walking(u) => Walking(u)'
    BY <1>1, <1>2 DEF Walking
  <2>4. QED
    BY <1>1, <1>4, <2>1, <2>2, <2>3 DEF TableInv, Entered
<1>11. QED
  BY <1>5, <1>6, <1>7, <1>8, <1>9, <1>10 DEF TableInv, Numbered

\* insertToIndex goes to the next node, C * C ids on, or makes one.
LEMMA WalkIndexInv ==
  ASSUME Inv, TableInv, NEW t \in Threads, IndexWalk(t), Linked' = Linked
  PROVE  TableInv'
<1> USE LinkedBucketAssumption
<1>1. /\ pc[t] = "index" /\ id[t] >= C * C /\ UNCHANGED <<offset, next>>
      /\ at[t] \in Used /\ at[t] \in Indexes /\ id[t] \in Nat /\ C * C \in Nat
  BY DEF IndexWalk, chain, TableInv, Levels, Walking, Inv, TypeOK, ThreadsOK
<1>2. PICK base \in [Indexes -> Nat] : Numbers(base) /\ Spread(base) /\ Entries(base)
  BY DEF TableInv, Numbered
<1>3. CASE inext[at[t]] # Null
  <2>1. /\ UNCHANGED <<indexes, index, inext, nindex, pc>>
        /\ at' = [at EXCEPT ![t] = inext[at[t]]]
        /\ id' = [id EXCEPT ![t] = @ - C * C]
    BY <1>3 DEF IndexWalk, table
  <2>2. /\ at'[t] = inext[at[t]] /\ id'[t] = id[t] - C * C
        /\ \A u \in Threads \ {t} : at'[u] = at[u] /\ id'[u] = id[u]
    BY <2>1 DEF Inv, TypeOK, ThreadsOK
  <2>3. Used' = Used /\ Spare'
    BY <2>1 DEF TableInv, Used, Spare
  <2>4. Levels'
    <3>1. Whole(id'[t])
      <4>1. Whole(id[t])
        BY <1>1 DEF TableInv, Levels, Walking
      <4>2. QED
        BY <1>1, <2>2, <4>1, WholeSteps
    <3>2. \A u \in Threads : Walking(u)' => at'[u] \in Used /\ Whole(id'[u])
      BY <1>1, <1>3, <2>1, <2>2, <3>1 DEF TableInv, Levels, Walking
    <3>3. QED
      BY <2>1, <2>3, <3>2 DEF TableInv, Levels, Whole
  <2>5. Numbers(base)'
    <3>1. base[inext[at[t]]] = base[at[t]] + C * C /\ offset[next[t]] = base[at[t]] + id[t]
      BY <1>1, <1>2, <1>3 DEF Numbers, Walking
    <3>2. base[at[t]] \in Nat
      BY <1>1
    <3>3. offset[next[t]] = base[at'[t]] + id'[t]
      BY <1>1, <2>2, <3>1, <3>2
    <3>4. QED
      BY <1>1, <1>2, <2>1, <2>2, <3>3 DEF Numbers, Walking
  <2>6. Entries(base)' /\ Spread(base)'
    BY <1>1, <1>2, <2>1, <2>3 DEF Entries, Spread
  <2>7. Entered'
    BY <1>1, <2>1, <2>3 DEF TableInv, Entered, Walking
  <2>8. QED
    BY <2>3, <2>4, <2>5, <2>6, <2>7 DEF TableInv, Numbered
<1>4. CASE inext[at[t]] = Null
  <2> DEFINE i == FreshIndex
  <2>1. /\ indexes' = indexes \cup {i} /\ i \in Indexes /\ i \notin indexes
        /\ index' = [index EXCEPT ![i] = [s \in 0 .. C - 1 |-> Null]]
        /\ inext' = [inext EXCEPT ![i] = Null]
        /\ nindex' = [nindex EXCEPT ![t] = i]
        /\ pc' = [pc EXCEPT ![t] = "extend"] /\ UNCHANGED <<at, id>>
    BY <1>4, FreshIndexFact DEF IndexWalk, Inv, TypeOK, TableOK
  <2> HIDE DEF i
  <2>2. /\ pc'[t] = "extend" /\ nindex'[t] = i
        /\ \A u \in Threads \ {t} : pc'[u] = pc[u] /\ nindex'[u] = nindex[u]
    BY <2>1 DEF Inv, TypeOK, ThreadsOK
  <2>3. inext[i] = Null /\ inext' = inext
    BY <2>1 DEF TableInv, Levels, Used, Inv, TypeOK, TableOK
  <2>4. /\ \A s \in 0 .. C - 1 : index'[i][s] = Null
        /\ \A x \in Indexes \ {i} : index'[x] = index[x]
    BY <2>1 DEF Inv, TypeOK, TableOK
  <2>5. Used' = Used
    BY <1>1, <2>1, <2>2 DEF Used
  <2>6. Spare'
    BY <1>1, <2>1, <2>2, <2>3, <2>4 DEF TableInv, Spare, Inv, TypeOK, ThreadsOK
  <2>7. Levels'
    BY <1>1, <2>1, <2>2, <2>3, <2>5 DEF TableInv, Levels, Walking, Whole
  <2>8. Numbers(base)'
    BY <1>1, <1>2, <2>1, <2>2, <2>3 DEF Numbers, Walking
  <2>9. Entries(base)' /\ Spread(base)'
    BY <1>1, <1>2, <2>3, <2>4, <2>5 DEF Entries, Spread
  <2>10. Entered'
    <3>1. \A u \in Threads : Walking(u) => Walking(u)'
      BY <2>2 DEF Walking
    <3>2. \A x \in Used : x \in Indexes \ {i}
      BY <2>1 DEF Used, Inv, TypeOK, TableOK
    <3>3. QED
      BY <1>1, <2>4, <2>5, <3>1, <3>2 DEF TableInv, Entered
  <2>11. QED
    BY <2>6, <2>7, <2>8, <2>9, <2>10 DEF TableInv, Numbered
<1>5. QED
  BY <1>3, <1>4

\* insertToIndex links the node that it made, or deletes it and looks again.
LEMMA ExtendIndexInv ==
  ASSUME Inv, TableInv, NEW t \in Threads, Extend(t), Linked' = Linked
  PROVE  TableInv' /\ IndexStays
<1> DEFINE i == nindex[t]
<1> USE LinkedBucketAssumption
<1>1. /\ pc[t] = "extend" /\ id[t] >= C * C /\ i # First
      /\ UNCHANGED <<offset, next, index, nindex>>
      /\ at[t] \in Used /\ at[t] \in Indexes /\ id[t] \in Nat /\ C * C \in Nat
  BY DEF Extend, chain, TableInv, Levels, Walking, Extending, Inv, TypeOK, ThreadsOK
<1>2. /\ i \in Indexes /\ i \in indexes /\ i \notin Used /\ inext[i] = Null
      /\ \A s \in 0 .. C - 1 : index[i][s] = Null
      /\ \A u \in Threads \ {t} : pc[u] = "extend" => nindex[u] # i
  BY <1>1 DEF TableInv, Spare, Used, Inv, TypeOK, TableOK
<1>3. pc'[t] = "index" /\ \A u \in Threads \ {t} : pc'[u] = pc[u]
  BY DEF Extend, Inv, TypeOK, ThreadsOK
<1>4. PICK base \in [Indexes -> Nat] : Numbers(base) /\ Spread(base) /\ Entries(base)
  BY DEF TableInv, Numbered
<1>5. base[at[t]] \in Nat /\ offset[next[t]] = base[at[t]] + id[t]
  BY <1>1, <1>4 DEF Numbers, Walking
<1>6. CASE inext[at[t]] = Null
  <2>1. /\ inext' = [inext EXCEPT ![at[t]] = i] /\ UNCHANGED indexes
        /\ at' = [at EXCEPT ![t] = i] /\ id' = [id EXCEPT ![t] = @ - C * C]
    BY <1>6 DEF Extend
  <2>2. /\ inext'[at[t]] = i /\ \A x \in Indexes \ {at[t]} : inext'[x] = inext[x]
        /\ at'[t] = i /\ id'[t] = id[t] - C * C
        /\ \A u \in Threads \ {t} : at'[u] = at[u] /\ id'[u] = id[u]
    BY <1>1, <2>1 DEF Inv, TypeOK, TableOK, ThreadsOK
  <2> HIDE DEF i
  <2>3. Used' = Used \cup {i}
    <3>1. \A x : x \in Used' <=> x \in Used \/ x = i
      <4>1. TAKE x
      <4>2. x \in Used' <=> x \in indexes /\ \A u \in Threads \ {t} : pc[u] = "extend" => nindex[u] # x
        BY <1>1, <1>3, <2>1 DEF Used
      <4>3. x \in Used <=> x \in indexes /\ x # i
                           /\ \A u \in Threads \ {t} : pc[u] = "extend" => nindex[u] # x
        BY <1>1 DEF Used, i
      <4>4. QED
        BY <1>2, <4>2, <4>3
    <3>2. QED
      BY <3>1
  <2>4. Spare'
    <3>1. SUFFICES ASSUME NEW u \in Threads, pc'[u] = "extend"
                   PROVE  /\ nindex[u] \in indexes /\ inext'[nindex[u]] = Null
                          /\ \A s \in 0 .. C - 1 : index[nindex[u]][s] = Null
                          /\ \A v \in Threads \ {u} : pc'[v] = "extend" => nindex[v] # nindex[u]
      BY <1>1, <2>1 DEF Spare
    <3>2. u # t /\ pc[u] = "extend"
      BY <1>3, <3>1
    <3>3. nindex[u] # at[t] /\ nindex[u] \in Indexes
      BY <1>1, <3>2 DEF Used, Inv, TypeOK, ThreadsOK
    <3>4. QED
      BY <1>3, <2>2, <3>2, <3>3 DEF TableInv, Spare
  <2>5. Levels'
    <3>1. Whole(id'[t])
      <4>1. Whole(id[t])
        BY <1>1 DEF TableInv, Levels, Walking
      <4>2. QED
        BY <1>1, <2>2, <4>1, WholeSteps
    <3>2. \A u \in Threads : Walking(u)' => at'[u] \in Used \cup {i} /\ Whole(id'[u])
      BY <1>1, <1>3, <2>2, <3>1 DEF TableInv, Levels, Walking
    <3>3. \A x \in Indexes : inext'[x] # Null => x \in Used \cup {i} /\ inext'[x] \in Used \cup {i}
      BY <1>1, <1>2, <2>2 DEF TableInv, Levels
    <3>4. QED
      BY <2>3, <3>2, <3>3 DEF Levels, Whole
  <2>6. PICK after \in [Indexes -> Nat] :
          /\ after[i] = base[at[t]] + C * C
          /\ \A x \in Indexes \ {i} : after[x] = base[x]
    <3> DEFINE new == [base EXCEPT ![i] = base[at[t]] + C * C]
    <3>1. base[at[t]] + C * C \in Nat
      BY <1>1, <1>5
    <3>2. new \in [Indexes -> Nat] /\ new[i] = base[at[t]] + C * C
          /\ \A x \in Indexes \ {i} : new[x] = base[x]
      BY <1>2, <3>1
    <3>3. QED
      BY <3>2
  <2>7. \A x \in Used : x \in Indexes /\ x # i
    BY <1>2 DEF Used, Inv, TypeOK, TableOK
  <2>8. Numbers(after)'
    <3>1. after[First] = 0
      BY <1>1, <1>4, <2>6, LinkedBucketAssumption DEF Numbers, i
    <3>2. \A x \in Indexes : inext'[x] # Null => after[inext'[x]] = after[x] + C * C
      <4>1. TAKE x \in Indexes
      <4>2. CASE x = at[t]
        BY <1>1, <2>2, <2>6, <2>7, <4>2
      <4>3. CASE x # at[t]
        BY <1>4, <2>2, <2>6, <2>7, <4>3 DEF Numbers, TableInv, Levels
      <4>4. QED
        BY <4>2, <4>3
    <3>3. \A u \in Threads : Walking(u)' => offset'[next'[u]] = after[at'[u]] + id'[u]
      <4>1. SUFFICES ASSUME NEW u \in Threads, Walking(u)'
                     PROVE  offset[next[u]] = after[at'[u]] + id'[u]
        BY <1>1
      <4>2. CASE u = t
        BY <1>1, <1>5, <2>2, <2>6, <4>2
      <4>3. CASE u # t
        <5>1. Walking(u) /\ at'[u] = at[u] /\ id'[u] = id[u]
          BY <1>3, <2>2, <4>1, <4>3 DEF Walking
        <5>2. at[u] \in Used
          BY <5>1 DEF TableInv, Levels
        <5>3. QED
          BY <1>4, <2>6, <2>7, <5>1, <5>2 DEF Numbers
      <4>4. QED
        BY <4>2, <4>3
    <3>4. QED
      BY <3>1, <3>2, <3>3 DEF Numbers
  <2>9. Entries(after)'
    BY <1>1, <1>2, <1>4, <2>6 DEF Entries
  <2>10. Spread(after)'
    <3>1. \A y \in Used : base[y] \in Nat /\ after[y] = base[y] /\ base[y] <= base[at[t]]
      BY <1>1, <1>4, <1>6, <2>6, <2>7 DEF Spread
    <3>2. \A y \in Used : y # at[t] => base[y] + C * C <= base[at[t]]
      <4>1. \A y \in Used : y # at[t] => \/ base[y] + C * C <= base[at[t]]
                                         \/ base[at[t]] + C * C <= base[y]
        BY <1>1, <1>4 DEF Spread
      <4>2. C * C > 0
        BY <1>1
      <4>3. QED
        BY <1>1, <1>5, <3>1, <4>1, <4>2
    <3>3. \A x, y \in Used' : x # y => \/ after[x] + C * C <= after[y]
                                       \/ after[y] + C * C <= after[x]
      <4>1. SUFFICES ASSUME NEW x \in Used', NEW y \in Used', x # y
                     PROVE  \/ after[x] + C * C <= after[y]
                            \/ after[y] + C * C <= after[x]
        OBVIOUS
      <4>2. CASE x \in Used /\ y \in Used
        BY <1>4, <3>1, <4>1, <4>2 DEF Spread
      <4>3. CASE x = i \/ y = i
        BY <1>1, <1>5, <2>3, <2>6, <3>1, <3>2, <4>1, <4>3
      <4>4. QED
        BY <2>3, <4>2, <4>3
    <3>4. \A x \in Used' : inext'[x] = Null => x = i
      <4>1. SUFFICES ASSUME NEW x \in Used, inext'[x] = Null PROVE FALSE
        BY <2>3
      <4>2. x # at[t] /\ inext[x] = Null
        BY <1>2, <2>2, <2>7, <4>1
      <4>3. base[at[t]] <= base[x] /\ base[x] + C * C <= base[at[t]] /\ base[x] \in Nat
        BY <1>1, <1>4, <3>1, <3>2, <4>2 DEF Spread
      <4>4. QED
        BY <1>1, <1>5, <4>3
    <3>5. \A y \in Used' : after[y] <= after[i]
      BY <1>1, <1>5, <2>3, <2>6, <3>1
    <3>6. QED
      BY <3>3, <3>4, <3>5 DEF Spread
  <2>11. IndexStays
    BY <1>1, <1>6, <2>2 DEF IndexStays, Inv, TypeOK, TableOK
  <2>12. Entered'
    <3>1. \A u \in Threads : Walking(u) => Walking(u)'
      BY <1>3 DEF Walking
    <3>2. QED
      BY <1>1, <2>3, <3>1 DEF TableInv, Entered
  <2>13. QED
    BY <2>4, <2>5, <2>6, <2>8, <2>9, <2>10, <2>11, <2>12 DEF TableInv, Numbered
<1>7. CASE inext[at[t]] # Null
  <2>1. indexes' = indexes \ {i} /\ UNCHANGED <<inext, at, id>>
    BY <1>7 DEF Extend
  <2>2. Used' = Used
    BY <1>1, <1>2, <1>3, <2>1 DEF Used
  <2>3. Spare'
    BY <1>1, <1>2, <1>3, <2>1 DEF TableInv, Spare
  <2>4. Levels'
    BY <1>1, <1>3, <2>1, <2>2 DEF TableInv, Levels, Walking, Whole
  <2>5. Numbers(base)'
    BY <1>1, <1>3, <1>4, <2>1 DEF Numbers, Walking
  <2>6. Entries(base)' /\ Spread(base)'
    BY <1>1, <1>4, <2>1, <2>2 DEF Entries, Spread
  <2>7. IndexStays
    BY <1>1, <2>1 DEF IndexStays
  <2>8. Entered'
    <3>1. \A u \in Threads : Walking(u) => Walking(u)'
      BY <1>3 DEF Walking
    <3>2. QED
      BY <1>1, <2>2, <3>1 DEF TableInv, Entered
  <2>9. QED
    BY <2>3, <2>4, <2>5, <2>6, <2>7, <2>8 DEF TableInv, Numbered
<1>8. QED
  BY <1>6, <1>7

\* The bucket is entered where no other is: its ids would be the same.
LEMMA EnterIndexInv ==
  ASSUME Inv, TableInv, NEW t \in Threads, Enter(t), Linked' = Linked
  PROVE  TableInv' /\ IndexStays
<1> DEFINE x == at[t]
           s == id[t] \div C
           b == next[t]
<1> USE LinkedBucketAssumption
<1>1. /\ pc[t] = "index" /\ x \in Used /\ x \in Indexes /\ id[t] \in Nat
      /\ UNCHANGED <<offset, next, indexes, inext, nindex, at, id>>
      /\ b \in Linked /\ b \in Buckets /\ offset[b] \in Nat
  BY DEF Enter, chain, locals, TableInv, Levels, Walking, Owned, Inv, TypeOK, ChainOK, ThreadsOK
<1>2. /\ pc'[t] = "take" /\ \A u \in Threads \ {t} : pc'[u] = pc[u]
  BY DEF Enter, Inv, TypeOK, ThreadsOK
<1>3. index' = [index EXCEPT ![x][s] = b]
  BY DEF Enter
<1>4. PICK base \in [Indexes -> Nat] : Numbers(base) /\ Spread(base) /\ Entries(base)
  BY DEF TableInv, Numbered
<1>5. s \in 0 .. C - 1 /\ id[t] = s * C
  <2>1. id[t] < C * C /\ Whole(id[t])
    BY <1>1 DEF Enter, TableInv, Levels, Walking
  <2>2. QED
    BY <1>1, <2>1, SlotInNode, WholeSlot
<1>6. base[x] \in Nat /\ offset[b] = base[x] + id[t]
  BY <1>1, <1>4 DEF Numbers, Walking
<1> HIDE DEF x, s, b
<1>7. offset[b] = base[x] + s * C
  BY <1>5, <1>6
<1>8. index[x][s] \in {Null, b}
  <2>1. SUFFICES ASSUME index[x][s] # Null PROVE index[x][s] = b
    OBVIOUS
  <2> DEFINE c == index[x][s]
  <2>2. c \in Linked /\ offset[c] = offset[b]
    BY <1>1, <1>4, <1>5, <1>7, <2>1 DEF Entries
  <2>3. offset[c] \in Nat
    BY <2>2 DEF Linked, Inv, TypeOK, ChainOK
  <2>4. ~ (offset[b] + C <= offset[c] \/ offset[c] + C <= offset[b])
    BY <1>1, <2>2, <2>3
  <2>5. QED
    BY <1>1, <2>2, <2>4 DEF Inv, Disjoint
<1>9. \A y \in Indexes, r \in 0 .. C - 1 :
        index'[y][r] = IF y = x /\ r = s THEN b ELSE index[y][r]
  BY <1>1, <1>3 DEF Inv, TypeOK, TableOK
<1>10. IndexStays
  BY <1>1, <1>8, <1>9 DEF IndexStays
<1>11. Used' = Used
  BY <1>1, <1>2 DEF Used
<1>12. Spare'
  <2>1. \A u \in Threads : pc'[u] = "extend" => pc[u] = "extend" /\ nindex[u] # x
    BY <1>1, <1>2 DEF Used
  <2>2. \A u \in Threads : pc[u] = "extend" => nindex[u] \in Indexes
    BY DEF Inv, TypeOK, ThreadsOK
  <2>3. QED
    BY <1>1, <1>9, <2>1, <2>2 DEF TableInv, Spare
<1>13. Levels'
  BY <1>1, <1>2, <1>11 DEF TableInv, Levels, Walking, Whole
<1>14. Numbers(base)'
  BY <1>1, <1>2, <1>4 DEF Numbers, Walking
<1>15. Entries(base)' /\ Spread(base)'
  BY <1>1, <1>4, <1>7, <1>9, <1>11 DEF Entries, Spread
<1>16. Entered'
  <2>1. SUFFICES ASSUME NEW c \in Linked, c # b
                 PROVE  \/ \E u \in Threads : Walking(u)' /\ next[u] = c
                        \/ \E y \in Used, r \in 0 .. C - 1 : index'[y][r] = c
    BY <1>1, <1>5, <1>9, <1>11 DEF Entered
  <2>2. CASE \E u \in Threads : Walking(u) /\ next[u] = c
    <3>1. PICK u \in Threads : Walking(u) /\ next[u] = c
      BY <2>2
    <3>2. u # t
      BY <2>1, <3>1 DEF b
    <3>3. Walking(u)'
      BY <1>2, <3>1, <3>2 DEF Walking
    <3>4. QED
      BY <3>1, <3>3
  <2>3. CASE \E y \in Used, r \in 0 .. C - 1 : index[y][r] = c
    <3>1. PICK y \in Used, r \in 0 .. C - 1 : index[y][r] = c
      BY <2>3
    <3>2. ~ (y = x /\ r = s) /\ y \in Indexes
      <4>1. c # Null
        BY <2>1, LinkedBucketAssumption DEF Linked, Inv, TypeOK, ChainOK
      <4>2. QED
        BY <1>8, <2>1, <3>1, <4>1 DEF Used, Inv, TypeOK, TableOK
    <3>3. index'[y][r] = c
      BY <1>9, <3>1, <3>2
    <3>4. QED
      BY <3>1, <3>3
  <2>4. QED
    BY <2>1, <2>2, <2>3 DEF TableInv, Entered
<1>17. QED
  BY <1>4, <1>10, <1>12, <1>13, <1>14, <1>15, <1>16 DEF TableInv, Numbered

-----------------------------------------------------------------------------
(* All steps *)

\* The index is extended and filled only, by whichever thread.
LEMMA IndexStep ==
  ASSUME Inv, Inv', ChainInv, TableInv, Next, ~ Renew
  PROVE  TableInv' /\ IndexStays
<1>1. LinksStay /\ Linked \subseteq Linked'
  BY LinksStep
<1>2. PICK t \in Threads :
        \/ Allocate(t) \/ Link(t) \/ Advance(t)
        \/ IndexWalk(t) \/ Extend(t) \/ Enter(t)
        \/ Take(t) \/ PopBack(t)
  BY DEF Next
<1>3. CASE Allocate(t) \/ Advance(t) \/ Take(t) \/ PopBack(t)
  <2>1. UNCHANGED <<indexes, index, inext, at, id, nindex>>
    BY <1>3 DEF Allocate, Advance, Take, PopBack, table, locals
  <2>2. \A u \in Threads : /\ pc'[u] = "extend" <=> pc[u] = "extend"
                           /\ Walking(u)' <=> Walking(u)
                           /\ Walking(u) => next'[u] = next[u]
    <3>1. CASE Allocate(t)
      BY <3>1 DEF Allocate, Walking, Inv, TypeOK, ThreadsOK
    <3>2. CASE Advance(t) \/ PopBack(t)
      BY <3>2 DEF Advance, PopBack, Walking, locals
    <3>3. CASE Take(t)
      BY <3>3 DEF Take, Walking, locals, Inv, TypeOK, ThreadsOK
    <3>4. QED
      BY <1>3, <3>1, <3>2, <3>3
  <2>3. TableInv'
    <3>1. Linked' = Linked
      BY <1>3, LinkedSame
    <3>2. QED
      BY <1>1, <2>1, <2>2, <3>1, ElsewhereInv
  <2>4. IndexStays
    BY <2>1 DEF IndexStays
  <2>5. QED
    BY <2>3, <2>4
<1>4. CASE Link(t)
  <2>1. IndexStays
    BY <1>4 DEF Link, table, IndexStays
  <2>2. QED
    BY <1>1, <1>4, <2>1, LinkIndexInv
<1>5. CASE IndexWalk(t) \/ Extend(t) \/ Enter(t)
  <2>2. Linked' = Linked
    BY <1>5, LinkedSame
  <2>3. CASE IndexWalk(t)
    <3>1. IndexStays
      <4>1. CASE UNCHANGED table
        BY <4>1 DEF table, IndexStays
      <4>2. CASE ~ UNCHANGED table
        <5>1. /\ FreshIndex \in Indexes /\ FreshIndex \notin indexes
              /\ index' = [index EXCEPT ![FreshIndex] = [s \in 0 .. C - 1 |-> Null]]
              /\ inext' = [inext EXCEPT ![FreshIndex] = Null]
          BY <2>3, <4>2, FreshIndexFact DEF IndexWalk, Inv, TypeOK, TableOK
        <5>2. inext[FreshIndex] = Null
          BY <5>1 DEF TableInv, Levels, Used
        <5>3. \A x \in Indexes : /\ inext[x] \in {Null, inext'[x]}
                                 /\ x # FreshIndex => index'[x] = index[x]
          BY <5>1, <5>2 DEF Inv, TypeOK, TableOK
        <5>4. QED
          BY <5>1, <5>3 DEF IndexStays
      <4>3. QED
        BY <4>1, <4>2
    <3>2. QED
      BY <2>2, <2>3, <3>1, WalkIndexInv
  <2>4. QED
    BY <1>5, <2>2, <2>3, ExtendIndexInv, EnterIndexInv
<1>6. QED
  BY <1>2, <1>3, <1>4, <1>5

\* Lists have finitely many buckets, index nodes and ids.
Finite == IsFiniteSet(buckets) /\ IsFiniteSet(indexes) /\ IsFiniteSet(live)

\* Each step adds or removes one.
LEMMA FiniteInv ==
  /\ Init => Finite
  /\ Finite /\ [Next]_vars => Finite'
<1> DEFINE IsNew == buckets = {Begin} /\ indexes = {First} /\ live = {}
<1>1. IsNew => Finite
  <2>1. IsFiniteSet({}) /\ IsFiniteSet({Begin}) /\ IsFiniteSet({First})
    BY FS_EmptySet, FS_AddElement
  <2>2. QED
    BY <2>1 DEF Finite
<1>2. Init => IsNew
  BY DEF Init
<1>3. ASSUME Finite, [Next]_vars PROVE Finite'
  <2>1. CASE Renew
    <3>1. IsNew'
      BY <2>1 DEF Renew
    <3>2. IsNew' => Finite'
      BY <1>1, PTL
    <3>3. QED
      BY <3>1, <3>2
  <2>2. CASE UNCHANGED vars
    BY <1>3, <2>2 DEF vars, chain, table, Finite
  <2>3. ASSUME NEW t \in Threads,
               \/ Allocate(t) \/ Link(t) \/ Advance(t)
               \/ IndexWalk(t) \/ Extend(t) \/ Enter(t)
               \/ Take(t) \/ PopBack(t)
        PROVE  Finite'
    <3>1. \/ buckets' = buckets \/ \E b : buckets' = buckets \cup {b}
      BY <2>3 DEF Allocate, Link, Advance, IndexWalk, Extend, Enter, Take, PopBack, chain
    <3>2. \/ indexes' = indexes \/ \E i : indexes' = indexes \cup {i} \/ indexes' = indexes \ {i}
      BY <2>3 DEF Allocate, Link, Advance, IndexWalk, Extend, Enter, Take, PopBack, table
    <3>3. \/ live' = live \/ \E i : live' = live \cup {i} \/ live' = live \ {i}
      BY <2>3 DEF Allocate, Link, Advance, IndexWalk, Extend, Enter, Take, PopBack
    <3>4. QED
      BY <1>3, <3>1, <3>2, <3>3, FS_AddElement, FS_RemoveElement DEF Finite
  <2>4. QED
    BY <1>3, <2>1, <2>2, <2>3 DEF Next
<1>4. QED
  BY <1>1, <1>2, <1>3

\* All that is known of a list.
ListInv == Inv /\ ChainInv /\ TableInv /\ Finite

\* The invariants together are inductive.
LEMMA AllInv ==
  /\ Init => ListInv
  /\ ListInv /\ [Next]_vars => ListInv'
<1>1. Init => ListInv
  BY FreshInv, FreshChainInv, FreshIndexInv, FiniteInv DEF Init, Fresh, ListInv
<1>2. ASSUME ListInv, [Next]_vars PROVE ListInv'
  <2>1. Inv' /\ Finite'
    BY <1>2, NextInv, FiniteInv DEF ListInv
  <2>2. CASE Renew
    <3>1. pc' = [t \in Threads |-> "idle"]
      BY <1>2, <2>2 DEF ListInv, Inv, TypeOK, ThreadsOK, Renew
    <3>2. Fresh'
      BY <2>2, <3>1 DEF Renew, Fresh
    <3>3. Fresh' => TableInv' /\ ChainInv'
      BY FreshIndexInv, FreshChainInv, PTL
    <3>4. QED
      BY <2>1, <3>2, <3>3 DEF ListInv
  <2>3. CASE Next /\ ~ Renew
    BY <1>2, <2>1, <2>3, ChainStep, IndexStep DEF ListInv
  <2>4. CASE UNCHANGED vars
    <3>1. UNCHANGED <<chain, table, pc, locals, live>>
      BY <2>4 DEF vars
    <3>2. UNCHANGED <<buckets, nbucket, offset, count, indexes, index, inext, pc, next, at, id,
                      nindex, live>>
      BY <3>1 DEF chain, table, locals
    <3>3. Linked' = Linked
      BY <3>2 DEF Linked
    <3>4. LinksStay
      BY <3>2 DEF LinksStay
    <3>5. TableInv'
      BY <1>2, <3>2, <3>3, <3>4, ElsewhereInv DEF ListInv, Walking
    <3>6. ChainInv'
      BY <1>2, <3>2, <3>3 DEF ListInv, ChainInv, Whole
    <3>7. QED
      BY <2>1, <3>5, <3>6 DEF ListInv
  <2>5. QED
    BY <1>2, <2>2, <2>3, <2>4
<1>3. QED
  BY <1>1, <1>2

-----------------------------------------------------------------------------
(* Reading the index *)

\* The equation of the loop of indexToBucket.
IndexLoop(w) ==
  [p \in Indexes \X Nat |->
     LET x == p[1]
         j == p[2]
     IN  IF j < C * C THEN index[x][j \div C]
         ELSE IF inext[x] = Null THEN Null ELSE w[<<inext[x], j - C * C>>]]

\* What it says of one node and one rest.
LEMMA IndexLoopAt ==
  ASSUME NEW w, NEW x \in Indexes, NEW j \in Nat
  PROVE  IndexLoop(w)[<<x, j>>] =
           IF j < C * C THEN index[x][j \div C]
           ELSE IF inext[x] = Null THEN Null ELSE w[<<inext[x], j - C * C>>]
<1>1. <<x, j>> \in Indexes \X Nat
  OBVIOUS
<1>2. QED
  BY <1>1 DEF IndexLoop

\* The loop ends: the rest gets smaller.
LEMMA IndexLoopEnds ==
  ASSUME TypeOK
  PROVE  \E w : w = IndexLoop(w)
<1> DEFINE S == Indexes \X Nat
           V == Buckets \cup {Null}
           rank == [p \in S |-> p[2]]
           H == [w \in [S -> V] |-> IndexLoop(w)]
<1> USE LinkedBucketAssumption
<1>1. C * C \in Nat \ {0} /\ V # {}
  OBVIOUS
<1>2. rank \in [S -> Nat]
  OBVIOUS
<1>3. ASSUME NEW w \in [S -> V] PROVE IndexLoop(w) \in [S -> V]
  <2>1. ASSUME NEW x \in Indexes, NEW j \in Nat PROVE IndexLoop(w)[<<x, j>>] \in V
    <3>1. CASE j < C * C
      <4>1. j \div C \in 0 .. C - 1
        BY <3>1, SlotInNode
      <4>2. index[x][j \div C] \in V
        BY <4>1 DEF TypeOK, TableOK
      <4>3. QED
        BY <3>1, <4>2, IndexLoopAt
    <3>2. CASE ~ (j < C * C)
      <4>1. j - C * C \in Nat /\ inext[x] \in Indexes \cup {Null}
        BY <1>1, <3>2 DEF TypeOK, TableOK
      <4>2. inext[x] # Null => <<inext[x], j - C * C>> \in S
        BY <4>1
      <4>3. inext[x] # Null => w[<<inext[x], j - C * C>>] \in V
        BY <4>2
      <4>4. QED
        BY <3>2, <4>3, IndexLoopAt
    <3>3. QED
      BY <3>1, <3>2
  <2>2. ASSUME NEW p \in S PROVE IndexLoop(w)[p] \in V
    <3>1. PICK x \in Indexes, j \in Nat : p = <<x, j>>
      OBVIOUS
    <3>2. QED
      BY <2>1, <3>1
  <2>3. IndexLoop(w) = [p \in S |-> IndexLoop(w)[p]]
    BY DEF IndexLoop
  <2>4. QED
    BY <2>2, <2>3
<1>4. H \in [[S -> V] -> [S -> V]]
  BY <1>3
<1>5. ASSUME NEW f \in [S -> V], NEW g \in [S -> V], NEW s \in S,
             \A u \in S : rank[u] < rank[s] => f[u] = g[u]
      PROVE  H[f][s] = H[g][s]
  <2>1. PICK x \in Indexes, j \in Nat : s = <<x, j>>
    OBVIOUS
  <2>2. H[f][s] = IndexLoop(f)[<<x, j>>] /\ H[g][s] = IndexLoop(g)[<<x, j>>]
    BY <2>1
  <2> HIDE DEF H
  <2>3. CASE j < C * C
    <3>1. /\ IndexLoop(f)[<<x, j>>] = index[x][j \div C]
          /\ IndexLoop(g)[<<x, j>>] = index[x][j \div C]
      BY ZenonT(60), <2>3, IndexLoopAt
    <3>2. QED
      BY <2>2, <3>1
  <2>4. CASE ~ (j < C * C)
    <3>1. j - C * C \in Nat /\ j - C * C < j /\ inext[x] \in Indexes \cup {Null}
      BY <1>1, <2>4 DEF TypeOK, TableOK
    <3>2. ASSUME inext[x] # Null PROVE f[<<inext[x], j - C * C>>] = g[<<inext[x], j - C * C>>]
      <4>1. <<inext[x], j - C * C>> \in S
        BY <3>1, <3>2
      <4>2. rank[<<inext[x], j - C * C>>] < rank[s]
        BY <2>1, <3>1, <4>1
      <4>3. QED
        BY <1>5, <4>1, <4>2
    <3>3. IndexLoop(f)[<<x, j>>] = IndexLoop(g)[<<x, j>>]
      BY <2>4, <3>2, IndexLoopAt
    <3>4. QED
      BY <2>2, <3>3
  <2>5. QED
    BY <2>3, <2>4
<1>6. \E w \in [S -> V] : w = H[w]
  <2> HIDE DEF S, V, rank, H
  <2>1. Descends(S, V, rank, H)
    BY <1>2, <1>4, <1>5 DEF Descends
  <2>2. QED
    BY <1>1, <2>1, Recursive
<1>7. QED
  BY <1>6

\* The index leads from an id to the bucket that has been entered for it.
LEMMA IndexFinds ==
  ASSUME ListInv, NEW x \in Used, NEW s \in 0 .. C - 1, NEW b \in Linked, index[x][s] = b,
         NEW i \in Nat, offset[b] <= i, i < offset[b] + C
  PROVE  IndexToBucket(i) = b
<1> DEFINE w == CHOOSE f : f = IndexLoop(f)
<1> USE LinkedBucketAssumption
<1>1. IndexToBucket(i) = w[<<First, i>>]
  BY DEF IndexToBucket, IndexLoop
<1>2. w = IndexLoop(w)
  BY IndexLoopEnds DEF ListInv, Inv
<1> HIDE DEF w
<1>3. C * C \in Nat \ {0}
  OBVIOUS
<1>4. PICK base \in [Indexes -> Nat] : Numbers(base) /\ Spread(base) /\ Entries(base)
  BY DEF ListInv, TableInv, Numbered
<1>5. Used \subseteq Indexes /\ First \in Used
  BY DEF ListInv, Inv, TypeOK, TableOK, Used, Extending
<1>6. b # Null /\ b \in Buckets /\ offset[b] \in Nat /\ offset[b] = base[x] + s * C
  <2>1. b \in Buckets
    BY DEF ListInv, Inv, TypeOK, ChainOK, Linked
  <2>2. QED
    BY <1>4, <1>5, <2>1 DEF Entries, ListInv, Inv, TypeOK, ChainOK
<1>7. s * C \in Nat /\ s * C + C <= C * C
  <2>1. PICK e \in Nat : C = s + 1 + e
    <3>1. C - (s + 1) \in Nat
      OBVIOUS
    <3>2. QED
      BY <3>1
  <2>2. C * C = s * C + C + e * C /\ e * C \in Nat
    BY <2>1
  <2>3. QED
    BY <2>2
\* From a node that the id lies behind the walk goes on to the bucket.
<1> DEFINE J == {j \in Nat : \E y \in Used : base[y] + j = i /\ w[<<y, j>>] # b}
<1>8. J = {}
  <2>1. SUFFICES ASSUME J # {} PROVE FALSE
    OBVIOUS
  <2>2. PICK j \in J : \A k \in J : j <= k
    <3>1. J \subseteq Nat
      OBVIOUS
    <3> HIDE DEF J
    <3>2. QED
      BY <2>1, <3>1, Least
  <2>3. PICK y \in Used : base[y] + j = i /\ w[<<y, j>>] # b
    OBVIOUS
  <2>4. j \in Nat /\ y \in Indexes /\ base[y] \in Nat /\ base[x] \in Nat
    BY <1>5
  <2>5. w[<<y, j>>] = IF j < C * C THEN index[y][j \div C]
                      ELSE IF inext[y] = Null THEN Null ELSE w[<<inext[y], j - C * C>>]
    BY <1>2, <2>4, IndexLoopAt
  <2>6. base[x] <= i /\ i < base[x] + C * C
    BY <1>3, <1>6, <1>7, <2>4
  <2>7. CASE j < C * C
    <3>1. ~ (base[y] + C * C <= base[x]) /\ ~ (base[x] + C * C <= base[y])
      BY <1>3, <2>3, <2>4, <2>6, <2>7
    <3>2. y = x
      BY <1>4, <3>1 DEF Spread
    <3>3. s * C <= j /\ j < s * C + C
      BY <1>6, <1>7, <2>3, <2>4, <3>2
    <3>4. j \div C = s
      BY <2>4, <3>3, SlotIs
    <3>5. QED
      BY <2>3, <2>5, <2>7, <3>2, <3>4
  <2>8. CASE ~ (j < C * C)
    <3>1. base[y] + C * C <= i
      BY <1>3, <2>3, <2>4, <2>8
    <3>2. inext[y] # Null
      <4>1. ~ (base[x] <= base[y])
        BY <1>3, <2>4, <2>6, <3>1
      <4>2. QED
        BY <1>4, <4>1 DEF Spread
    <3>3. inext[y] \in Used /\ base[inext[y]] = base[y] + C * C
      BY <1>4, <2>4, <3>2 DEF Numbers, ListInv, TableInv, Levels
    <3>4. j - C * C \in Nat /\ j - C * C < j
      BY <1>3, <2>4, <2>8
    <3>5. base[inext[y]] + (j - C * C) = i
      BY <1>3, <2>3, <2>4, <3>3, <3>4
    <3>6. w[<<inext[y], j - C * C>>] # b
      BY <2>3, <2>5, <2>8, <3>2
    <3>7. j - C * C \in J
      BY <3>3, <3>4, <3>5, <3>6
    <3> DEFINE k == j - C * C
    <3>8. k \in J /\ k < j /\ k \in Nat
      BY <3>4, <3>7
    <3>9. j <= k
      BY <2>2, <3>8
    <3> HIDE DEF k
    <3>10. QED
      BY <2>4, <3>8, <3>9
  <2>9. QED
    BY <2>7, <2>8
<1>9. base[First] + i = i
  BY <1>4 DEF Numbers
<1>10. QED
  BY <1>1, <1>5, <1>8, <1>9

-----------------------------------------------------------------------------
(* Reading the chain *)

\* The equation of the loop of operator[].
ChainLoop(w) ==
  [p \in Buckets \X Nat |->
     LET b == p[1]
         j == p[2]
     IN  IF j < C THEN b
         ELSE IF nbucket[b] = Null THEN Null ELSE w[<<nbucket[b], j - C>>]]

\* What it says of one bucket and one rest.
LEMMA ChainLoopAt ==
  ASSUME NEW w, NEW b \in Buckets, NEW j \in Nat
  PROVE  ChainLoop(w)[<<b, j>>] =
           IF j < C THEN b ELSE IF nbucket[b] = Null THEN Null ELSE w[<<nbucket[b], j - C>>]
<1>1. <<b, j>> \in Buckets \X Nat
  OBVIOUS
<1>2. QED
  BY <1>1 DEF ChainLoop

\* The loop ends: the rest gets smaller.
LEMMA ChainLoopEnds ==
  ASSUME TypeOK
  PROVE  \E w : w = ChainLoop(w)
<1> DEFINE S == Buckets \X Nat
           V == Buckets \cup {Null}
           rank == [p \in S |-> p[2]]
           H == [w \in [S -> V] |-> ChainLoop(w)]
<1> USE LinkedBucketAssumption
<1>1. V # {}
  OBVIOUS
<1>2. rank \in [S -> Nat]
  OBVIOUS
<1>3. ASSUME NEW w \in [S -> V] PROVE ChainLoop(w) \in [S -> V]
  <2>1. ASSUME NEW b \in Buckets, NEW j \in Nat PROVE ChainLoop(w)[<<b, j>>] \in V
    <3>1. CASE j < C
      <4>1. ChainLoop(w)[<<b, j>>] = b
        BY <3>1, ChainLoopAt
      <4>2. QED
        BY <4>1
    <3>2. CASE ~ (j < C)
      <4>1. j - C \in Nat /\ nbucket[b] \in Buckets \cup {Null}
        BY <3>2 DEF TypeOK, ChainOK
      <4>2. nbucket[b] # Null => <<nbucket[b], j - C>> \in S
        BY <4>1
      <4>3. nbucket[b] # Null => w[<<nbucket[b], j - C>>] \in V
        BY <4>2
      <4>4. QED
        BY <3>2, <4>3, ChainLoopAt
    <3>3. QED
      BY <3>1, <3>2
  <2>2. ASSUME NEW p \in S PROVE ChainLoop(w)[p] \in V
    <3>1. PICK b \in Buckets, j \in Nat : p = <<b, j>>
      OBVIOUS
    <3>2. QED
      BY <2>1, <3>1
  <2>3. ChainLoop(w) = [p \in S |-> ChainLoop(w)[p]]
    BY DEF ChainLoop
  <2>4. QED
    BY <2>2, <2>3
<1>4. H \in [[S -> V] -> [S -> V]]
  BY <1>3
<1>5. ASSUME NEW f \in [S -> V], NEW g \in [S -> V], NEW s \in S,
             \A u \in S : rank[u] < rank[s] => f[u] = g[u]
      PROVE  H[f][s] = H[g][s]
  <2>1. PICK b \in Buckets, j \in Nat : s = <<b, j>>
    OBVIOUS
  <2>2. H[f][s] = ChainLoop(f)[<<b, j>>] /\ H[g][s] = ChainLoop(g)[<<b, j>>]
    BY <2>1
  <2> HIDE DEF H
  <2>3. CASE j < C
    <3>1. ChainLoop(f)[<<b, j>>] = b /\ ChainLoop(g)[<<b, j>>] = b
      BY ZenonT(60), <2>3, ChainLoopAt
    <3>2. QED
      BY <2>2, <3>1
  <2>4. CASE ~ (j < C)
    <3>1. j - C \in Nat /\ j - C < j /\ nbucket[b] \in Buckets \cup {Null}
      BY <2>4 DEF TypeOK, ChainOK
    <3>2. ASSUME nbucket[b] # Null PROVE f[<<nbucket[b], j - C>>] = g[<<nbucket[b], j - C>>]
      <4>1. <<nbucket[b], j - C>> \in S
        BY <3>1, <3>2
      <4>2. rank[<<nbucket[b], j - C>>] < rank[s]
        BY <2>1, <3>1, <4>1
      <4>3. QED
        BY <1>5, <4>1, <4>2
    <3>3. ChainLoop(f)[<<b, j>>] = ChainLoop(g)[<<b, j>>]
      BY <2>4, <3>2, ChainLoopAt
    <3>4. QED
      BY <2>2, <3>3
  <2>5. QED
    BY <2>3, <2>4
<1>6. \E w \in [S -> V] : w = H[w]
  <2> HIDE DEF S, V, rank, H
  <2>1. Descends(S, V, rank, H)
    BY <1>2, <1>4, <1>5 DEF Descends
  <2>2. QED
    BY <1>1, <2>1, Recursive
<1>7. QED
  BY <1>6

\* The chain leads from an id to the linked bucket with this id.
LEMMA ChainFinds ==
  ASSUME ListInv, NEW b \in Linked, NEW i \in Nat, offset[b] <= i, i < offset[b] + C
  PROVE  ChainToBucket(i) = b
<1> DEFINE w == CHOOSE f : f = ChainLoop(f)
<1> USE LinkedBucketAssumption
<1>1. ChainToBucket(i) = w[<<Begin, i>>]
  BY DEF ChainToBucket, ChainLoop
<1>2. w = ChainLoop(w)
  BY ChainLoopEnds DEF ListInv, Inv
<1> HIDE DEF w
<1>3. /\ Linked \subseteq Buckets /\ Begin \in Linked /\ offset \in [Buckets -> Nat]
      /\ offset[Begin] = 0 /\ b \in Buckets
  BY DEF ListInv, ChainInv, Inv, TypeOK, ChainOK, Linked, Unlinked
<1> DEFINE J == {j \in Nat : \E c \in Linked : offset[c] + j = i /\ w[<<c, j>>] # b}
<1>4. J = {}
  <2>1. SUFFICES ASSUME J # {} PROVE FALSE
    OBVIOUS
  <2>2. PICK j \in J : \A k \in J : j <= k
    <3>1. J \subseteq Nat
      OBVIOUS
    <3> HIDE DEF J
    <3>2. QED
      BY <2>1, <3>1, Least
  <2>3. PICK c \in Linked : offset[c] + j = i /\ w[<<c, j>>] # b
    OBVIOUS
  <2>4. j \in Nat /\ c \in Buckets /\ offset[c] \in Nat /\ offset[b] \in Nat
    BY <1>3
  <2>5. w[<<c, j>>] = IF j < C THEN c
                      ELSE IF nbucket[c] = Null THEN Null ELSE w[<<nbucket[c], j - C>>]
    BY <1>2, <2>4, ChainLoopAt
  <2>6. CASE j < C
    <3>1. ~ (offset[b] + C <= offset[c]) /\ ~ (offset[c] + C <= offset[b])
      BY <2>3, <2>4, <2>6
    <3>2. c = b
      BY <3>1 DEF ListInv, Inv, Disjoint
    <3>3. QED
      BY <2>3, <2>5, <2>6, <3>2
  <2>7. CASE ~ (j < C)
    <3>1. nbucket[c] # Null
      <4>1. ~ (offset[b] <= offset[c])
        BY <2>3, <2>4, <2>7
      <4>2. QED
        BY <4>1 DEF ListInv, Inv, LastIsHighest
    <3>2. nbucket[c] \in Linked /\ offset[nbucket[c]] = offset[c] + C
      BY <3>1 DEF ListInv, Inv, Links
    <3>3. j - C \in Nat /\ j - C < j
      BY <2>4, <2>7
    <3>4. offset[nbucket[c]] + (j - C) = i
      BY <2>3, <2>4, <3>2, <3>3
    <3>5. w[<<nbucket[c], j - C>>] # b
      BY <2>3, <2>5, <2>7, <3>1
    <3>6. j - C \in J
      BY <3>2, <3>3, <3>4, <3>5
    <3>7. QED
      BY <2>2, <2>4, <3>3, <3>6
  <2>8. QED
    BY <2>6, <2>7
<1>5. offset[Begin] + i = i
  BY <1>3
<1>6. QED
  BY <1>1, <1>3, <1>4, <1>5

\* Where an id that is in use is looked for it is found.
LEMMA Lookups == ListInv => LookupsHome
<1>1. SUFFICES ASSUME ListInv, NEW i \in live
               PROVE  \E b \in Linked : /\ offset[b] <= i /\ i < offset[b] + count[b]
                                        /\ IndexToBucket(i) = b /\ ChainToBucket(i) = b
  BY DEF LookupsHome
<1>2. PICK b \in Linked : offset[b] <= i /\ i < offset[b] + count[b]
  BY <1>1 DEF ListInv, Inv, LiveCounted
<1>3. i \in Nat /\ b \in Buckets /\ offset[b] \in Nat /\ count[b] \in 0 .. C
  BY <1>1 DEF ListInv, Inv, TypeOK, ChainOK, Linked
<1>4. i < offset[b] + C /\ count[b] # 0
  BY <1>2, <1>3, LinkedBucketAssumption
<1>5. \A t \in Threads : Walking(t) => next[t] # b
  BY <1>1, <1>4 DEF ListInv, Inv, Owned, Walking
<1>6. PICK x \in Used, s \in 0 .. C - 1 : index[x][s] = b
  BY <1>1, <1>5 DEF ListInv, TableInv, Entered
<1>7. IndexToBucket(i) = b
  BY <1>1, <1>2, <1>3, <1>4, <1>6, IndexFinds
<1>8. ChainToBucket(i) = b
  BY <1>1, <1>2, <1>3, <1>4, ChainFinds
<1>9. QED
  BY <1>2, <1>7, <1>8

-----------------------------------------------------------------------------
(* Following the chain and the index to their ends *)

\* Whoever follows links gets nearer to the end: fewer things with higher numbers lie ahead.
LEMMA Ahead ==
  ASSUME NEW T, IsFiniteSet(T), NEW num, \A c \in T : num[c] \in Nat,
         NEW b \in T, NEW d \in T, num[b] < num[d]
  PROVE  /\ Cardinality({c \in T : num[c] > num[d]}) \in Nat
         /\ Cardinality({c \in T : num[c] > num[b]}) \in Nat
         /\ Cardinality({c \in T : num[c] > num[d]}) < Cardinality({c \in T : num[c] > num[b]})
<1> DEFINE B == {c \in T : num[c] > num[b]}
           D == {c \in T : num[c] > num[d]}
<1>1. D \subseteq B /\ D # B
  <2>1. \A c \in T : num[c] > num[d] => num[c] > num[b]
    OBVIOUS
  <2>2. d \in B /\ d \notin D
    OBVIOUS
  <2>3. QED
    BY <2>1, <2>2
<1>2. IsFiniteSet(B)
  <2>1. B \in SUBSET T
    OBVIOUS
  <2>2. QED
    BY <2>1, FS_Subset
<1>3. IsFiniteSet(D) /\ Cardinality(D) <= Cardinality(B) /\ Cardinality(D) # Cardinality(B)
  <2>1. D \in SUBSET B
    BY <1>1
  <2> HIDE DEF B, D
  <2>2. QED
    BY <1>1, <1>2, <2>1, FS_Subset
<1>4. Cardinality(B) \in Nat /\ Cardinality(D) \in Nat
  BY <1>2, <1>3, FS_CardinalityType
<1> HIDE DEF B, D
<1>5. Cardinality(D) < Cardinality(B)
  BY <1>3, <1>4
<1>6. QED
  BY <1>4, <1>5 DEF B, D

\* How many buckets lie ahead in the chain.
LEMMA ChainEnds ==
  ASSUME ListInv
  PROVE  \E rank \in [Buckets -> Nat] :
           \A b \in Buckets : nbucket[b] # Null => rank[nbucket[b]] < rank[b]
<1> DEFINE rank == [b \in Buckets |-> IF b \in Linked
                                      THEN Cardinality({c \in Linked : offset[c] > offset[b]})
                                      ELSE 0]
<1> USE LinkedBucketAssumption
<1>1. /\ Linked \subseteq Buckets /\ IsFiniteSet(Linked)
      /\ \A b \in Linked : offset[b] \in Nat
  <2>1. Linked \in SUBSET buckets
    BY DEF Linked
  <2>2. QED
    BY <2>1, FS_Subset DEF ListInv, Finite, Inv, TypeOK, ChainOK
<1>2. ASSUME NEW b \in Linked
      PROVE  Cardinality({c \in Linked : offset[c] > offset[b]}) \in Nat
  <2> DEFINE D == {c \in Linked : offset[c] > offset[b]}
  <2>1. D \in SUBSET Linked
    OBVIOUS
  <2> HIDE DEF D
  <2>2. IsFiniteSet(D)
    BY <1>1, <2>1, FS_Subset
  <2>3. Cardinality(D) \in Nat
    BY <2>2, FS_CardinalityType
  <2>4. QED
    BY <2>3 DEF D
<1>3. rank \in [Buckets -> Nat]
  BY <1>2
<1>4. ASSUME NEW b \in Buckets, nbucket[b] # Null
      PROVE  rank[nbucket[b]] < rank[b]
  <2> DEFINE d == nbucket[b]
  <2>1. b \in Linked /\ d \in Linked /\ offset[d] = offset[b] + C
    BY <1>4 DEF ListInv, ChainInv, Inv, Links
  <2>2. offset[b] < offset[d]
    BY <1>1, <2>1
  <2> HIDE DEF d
  <2>3. Cardinality({c \in Linked : offset[c] > offset[d]})
          < Cardinality({c \in Linked : offset[c] > offset[b]})
    BY ZenonT(60), <1>1, <2>1, <2>2, Ahead
  <2>4. QED
    BY <1>1, <2>1, <2>3 DEF d
<1> HIDE DEF rank
<1>5. QED
  BY <1>3, <1>4

-----------------------------------------------------------------------------
(* The destructor *)

\* How many index nodes lie ahead.
LEMMA IndexEnds ==
  ASSUME ListInv
  PROVE  \E rank \in [Indexes -> Nat] :
           \A x \in Indexes : inext[x] # Null => rank[inext[x]] < rank[x]
<1> USE LinkedBucketAssumption
<1>1. PICK base \in [Indexes -> Nat] : Numbers(base) /\ Spread(base) /\ Entries(base)
  BY DEF ListInv, TableInv, Numbered
<1> DEFINE rank == [x \in Indexes |-> IF x \in Used
                                      THEN Cardinality({y \in Used : base[y] > base[x]})
                                      ELSE 0]
<1>2. Used \subseteq Indexes /\ IsFiniteSet(Used) /\ \A x \in Used : base[x] \in Nat
  <2>1. Used \in SUBSET indexes
    BY DEF Used
  <2>2. QED
    BY <2>1, FS_Subset DEF ListInv, Finite, Inv, TypeOK, TableOK
<1>3. ASSUME NEW x \in Used
      PROVE  Cardinality({y \in Used : base[y] > base[x]}) \in Nat
  <2> DEFINE D == {y \in Used : base[y] > base[x]}
  <2>1. D \in SUBSET Used
    OBVIOUS
  <2> HIDE DEF D
  <2>2. IsFiniteSet(D)
    BY <1>2, <2>1, FS_Subset
  <2>3. Cardinality(D) \in Nat
    BY <2>2, FS_CardinalityType
  <2>4. QED
    BY <2>3 DEF D
<1>4. rank \in [Indexes -> Nat]
  BY <1>3
<1>5. ASSUME NEW x \in Indexes, inext[x] # Null
      PROVE  rank[inext[x]] < rank[x]
  <2> DEFINE y == inext[x]
  <2>1. x \in Used /\ y \in Used /\ base[y] = base[x] + C * C
    BY <1>1, <1>5 DEF Numbers, ListInv, TableInv, Levels
  <2>2. base[x] < base[y]
    <3>1. C * C \in Nat \ {0}
      OBVIOUS
    <3>2. QED
      BY <1>2, <2>1, <3>1
  <2> HIDE DEF y
  <2>3. Cardinality({z \in Used : base[z] > base[y]})
          < Cardinality({z \in Used : base[z] > base[x]})
    BY <1>2, <2>1, <2>2, Ahead
  <2>4. QED
    BY <1>2, <2>1, <2>3 DEF y
<1> HIDE DEF rank
<1>6. QED
  BY <1>4, <1>5

\* The equation of the destructor's loops, along the links nx of the nodes N.
FreeLoop(N, nx, w) == [b \in N |-> {b} \cup (IF nx[b] = Null THEN {} ELSE w[nx[b]])]

\* rank shows that the links have an end.
Ranked(N, nx, rank) ==
  /\ nx \in [N -> N \cup {Null}] /\ Null \notin N
  /\ rank \in [N -> Nat] /\ \A b \in N : nx[b] # Null => rank[nx[b]] < rank[b]

\* Then these loops end.
LEMMA FreeLoopEnds ==
  ASSUME NEW N, NEW nx, NEW rank, Ranked(N, nx, rank)
  PROVE  \E w \in [N -> SUBSET N] : w = FreeLoop(N, nx, w)
<1>0. /\ nx \in [N -> N \cup {Null}] /\ Null \notin N
      /\ rank \in [N -> Nat] /\ \A b \in N : nx[b] # Null => rank[nx[b]] < rank[b]
  BY DEF Ranked
<1> USE <1>0
<1> DEFINE H == [w \in [N -> SUBSET N] |-> FreeLoop(N, nx, w)]
<1>1. H \in [[N -> SUBSET N] -> [N -> SUBSET N]]
  BY DEF FreeLoop
<1>2. ASSUME NEW f \in [N -> SUBSET N], NEW g \in [N -> SUBSET N], NEW b \in N,
             \A u \in N : rank[u] < rank[b] => f[u] = g[u]
      PROVE  H[f][b] = H[g][b]
  <2>1. nx[b] # Null => f[nx[b]] = g[nx[b]]
    BY <1>2
  <2>2. FreeLoop(N, nx, f)[b] = FreeLoop(N, nx, g)[b]
    BY <2>1 DEF FreeLoop
  <2>3. QED
    BY <2>2
<1> HIDE DEF H
<1> DEFINE V == SUBSET N
<1>3. Descends(N, V, rank, H) /\ V # {}
  BY <1>1, <1>2 DEF Descends
<1>4. \E w \in [N -> V] : w = H[w]
  <2> HIDE DEF V
  <2>1. QED
    BY <1>3, Recursive
<1>5. QED
  BY <1>4 DEF H

\* The nodes of T are linked in the order of their numbers, which are D apart.
InOrder(T, nx, num, D) ==
  /\ D \in Nat \ {0} /\ \A b \in T : num[b] \in Nat
  /\ \A b \in T : nx[b] # Null => nx[b] \in T /\ num[nx[b]] = num[b] + D
  /\ \A b, c \in T : nx[b] = Null => num[c] <= num[b]
  /\ \A b, c \in T : b # c => num[b] + D <= num[c] \/ num[c] + D <= num[b]

\* Then the loops reach every node with a higher number.
LEMMA FreeLoopReaches ==
  ASSUME NEW N, NEW nx, NEW rank, Ranked(N, nx, rank), NEW w, w = FreeLoop(N, nx, w),
         NEW T, T \subseteq N, NEW num, NEW D, InOrder(T, nx, num, D),
         NEW a \in T
  PROVE  \A c \in T : num[a] <= num[c] => c \in w[a]
<1>0. /\ nx \in [N -> N \cup {Null}] /\ Null \notin N
      /\ rank \in [N -> Nat] /\ \A b \in N : nx[b] # Null => rank[nx[b]] < rank[b]
      /\ D \in Nat \ {0} /\ \A b \in T : num[b] \in Nat
      /\ \A b \in T : nx[b] # Null => nx[b] \in T /\ num[nx[b]] = num[b] + D
      /\ \A b, c \in T : nx[b] = Null => num[c] <= num[b]
      /\ \A b, c \in T : b # c => num[b] + D <= num[c] \/ num[c] + D <= num[b]
  BY DEF Ranked, InOrder
<1> USE <1>0
<1> DEFINE Bad(b) == \E c \in T : num[b] <= num[c] /\ c \notin w[b]
           J == {rank[b] : b \in {c \in T : Bad(c)}}
<1>1. J = {}
  <2>1. SUFFICES ASSUME J # {} PROVE FALSE
    OBVIOUS
  <2>2. PICK r \in J : \A k \in J : r <= k
    <3>1. J \subseteq Nat
      OBVIOUS
    <3> HIDE DEF J
    <3>2. QED
      BY <2>1, <3>1, Least
  <2>3. PICK b \in T : rank[b] = r /\ Bad(b)
    OBVIOUS
  <2>4. PICK c \in T : num[b] <= num[c] /\ c \notin w[b]
    BY <2>3
  <2>5. w[b] = {b} \cup (IF nx[b] = Null THEN {} ELSE w[nx[b]])
    BY DEF FreeLoop
  <2>6. c # b /\ num[b] + D <= num[c]
    <3>1. c # b
      BY <2>4, <2>5
    <3>2. ~ (num[c] + D <= num[b])
      BY <2>4
    <3>3. QED
      BY <3>1, <3>2
  <2>7. nx[b] # Null
    <3>1. ~ (num[c] <= num[b])
      BY <2>6
    <3>2. QED
      BY <3>1
  <2>8. Bad(nx[b])
    BY <2>4, <2>5, <2>6, <2>7
  <2>9. rank[nx[b]] \in J /\ rank[nx[b]] < rank[b] /\ rank[nx[b]] \in Nat /\ rank[b] \in Nat
    BY <2>7, <2>8
  <2>10. r <= rank[nx[b]]
    BY <2>2, <2>9
  <2> HIDE DEF J
  <2>11. QED
    BY <2>3, <2>9, <2>10
<1>2. ~ Bad(a)
  BY <1>1
<1>3. QED
  BY <1>2

\* When no thread is inside next the destructor reaches everything.
LEMMA NothingLost ==
  ASSUME ListInv, \A t \in Threads : pc[t] = "idle"
  PROVE  buckets \cup indexes \subseteq Freed
<1> USE LinkedBucketAssumption
<1> DEFINE f == CHOOSE w : w = FreeLoop(Buckets, nbucket, w)
           g == CHOOSE w : w = FreeLoop(Indexes, inext, w)
<1>1. Freed = f[Begin] \cup g[First]
  BY DEF Freed, FreeLoop
<1>2. /\ nbucket \in [Buckets -> Buckets \cup {Null}] /\ Null \notin Buckets
      /\ inext \in [Indexes -> Indexes \cup {Null}] /\ Null \notin Indexes
      /\ buckets \subseteq Buckets /\ Begin \in buckets
      /\ indexes \subseteq Indexes /\ First \in indexes
  BY DEF ListInv, Inv, TypeOK, ChainOK, TableOK
<1>3. Linked = buckets /\ Used = indexes
  BY DEF Linked, Used
<1>4. PICK rb \in [Buckets -> Nat] : Ranked(Buckets, nbucket, rb)
  BY <1>2, ChainEnds DEF Ranked
<1>5. PICK ri \in [Indexes -> Nat] : Ranked(Indexes, inext, ri)
  BY <1>2, IndexEnds DEF Ranked
<1>6. f = FreeLoop(Buckets, nbucket, f)
  <2>1. \E w : w = FreeLoop(Buckets, nbucket, w)
    BY <1>4, FreeLoopEnds
  <2>2. QED
    BY <2>1
<1>7. g = FreeLoop(Indexes, inext, g)
  <2>1. \E w : w = FreeLoop(Indexes, inext, w)
    BY <1>5, FreeLoopEnds
  <2>2. QED
    BY <2>1
<1> HIDE DEF f, g
<1>8. \A b \in buckets : b \in f[Begin]
  <2>1. InOrder(Linked, nbucket, offset, C)
    <3>1. \A b \in Linked : offset[b] \in Nat
      BY <1>2, <1>3 DEF ListInv, Inv, TypeOK, ChainOK
    <3>2. QED
      BY <3>1 DEF InOrder, ListInv, Inv, Links, LastIsHighest, Disjoint
  <2>2. offset[Begin] = 0 /\ \A b \in Linked : 0 <= offset[b]
    BY <1>2, <1>3 DEF ListInv, ChainInv, Inv, TypeOK, ChainOK
  <2>3. \A b \in Linked : offset[Begin] <= offset[b] => b \in f[Begin]
    BY <1>2, <1>3, <1>4, <1>6, <2>1, FreeLoopReaches
  <2>4. QED
    BY <1>3, <2>2, <2>3
<1>9. \A x \in indexes : x \in g[First]
  <2>1. PICK base \in [Indexes -> Nat] : Numbers(base) /\ Spread(base) /\ Entries(base)
    BY DEF ListInv, TableInv, Numbered
  <2>2. InOrder(Used, inext, base, C * C)
    <3>1. C * C \in Nat \ {0} /\ \A x \in Used : x \in Indexes /\ base[x] \in Nat
      BY <1>2, <1>3
    <3>2. \A x \in Used : inext[x] # Null => inext[x] \in Used /\ base[inext[x]] = base[x] + C * C
      BY <2>1, <3>1 DEF Numbers, ListInv, TableInv, Levels
    <3>3. QED
      BY <2>1, <3>1, <3>2 DEF InOrder, Spread
  <2>3. base[First] = 0 /\ \A x \in Used : 0 <= base[x]
    BY <1>2, <1>3, <2>1 DEF Numbers
  <2>4. \A x \in Used : base[First] <= base[x] => x \in g[First]
    BY <1>2, <1>3, <1>5, <1>7, <2>2, FreeLoopReaches
  <2>5. QED
    BY <1>3, <2>3, <2>4
<1>10. QED
  BY <1>1, <1>8, <1>9

-----------------------------------------------------------------------------
(* size, a bucket at a time *)

\* The ids of S in front of m.
Below(S, m) == {i \in S : i < m}

\* They are finitely many, and no more than those of a larger set.
LEMMA MoreBelow ==
  ASSUME NEW T \in SUBSET Nat, IsFiniteSet(T), NEW S \in SUBSET T, NEW m \in Nat
  PROVE  /\ IsFiniteSet(Below(S, m)) /\ Cardinality(Below(S, m)) \in Nat
         /\ Cardinality(Below(T, m)) \in Nat
         /\ Cardinality(Below(S, m)) <= Cardinality(Below(T, m))
<1>1. Below(S, m) \in SUBSET Below(T, m) /\ Below(T, m) \in SUBSET T
  BY DEF Below
<1>2. IsFiniteSet(Below(T, m))
  BY <1>1, FS_Subset
<1>3. IsFiniteSet(Below(S, m)) /\ Cardinality(Below(S, m)) <= Cardinality(Below(T, m))
  BY <1>1, <1>2, FS_Subset
<1>4. QED
  BY <1>2, <1>3, FS_CardinalityType

\* The count of a linked bucket is how many of its ids are in use: a set of ids in use has
\* no more than these behind the ids of earlier buckets, and a set of all of them no less.
LEMMA OneBucket ==
  ASSUME ListInv, NEW b \in Linked, NEW S \in SUBSET Nat, IsFiniteSet(S)
  PROVE  /\ offset[b] \in Nat /\ count[b] \in Nat /\ C \in Nat
         /\ Cardinality(Below(S, offset[b])) \in Nat
         /\ Cardinality(Below(S, offset[b] + C)) \in Nat
         /\ S \subseteq live =>
              Cardinality(Below(S, offset[b] + C)) <= Cardinality(Below(S, offset[b])) + count[b]
         /\ live \subseteq S =>
              Cardinality(Below(S, offset[b])) + count[b] <= Cardinality(Below(S, offset[b] + C))
<1> USE LinkedBucketAssumption
<1>1. /\ \A c \in Linked : offset[c] \in Nat /\ count[c] \in 0 .. C
      /\ live \subseteq Nat /\ IsFiniteSet(live)
  BY DEF ListInv, Finite, Inv, TypeOK, ChainOK, Linked
<1> DEFINE own == offset[b] .. offset[b] + count[b] - 1
<1>2. \A i \in live : offset[b] <= i /\ i < offset[b] + C => i < offset[b] + count[b]
  <2>1. SUFFICES ASSUME NEW i \in live, offset[b] <= i, i < offset[b] + C
                 PROVE  i < offset[b] + count[b]
    OBVIOUS
  <2>2. PICK c \in Linked : offset[c] <= i /\ i < offset[c] + count[c]
    BY DEF ListInv, Inv, LiveCounted
  <2>3. ~ (offset[b] + C <= offset[c]) /\ ~ (offset[c] + C <= offset[b])
    BY <1>1, <2>1, <2>2
  <2>4. c = b
    BY <2>3 DEF ListInv, Inv, Disjoint
  <2>5. QED
    BY <2>2, <2>4
<1>3. own \subseteq live
  <2>1. \A i \in own : i \in Nat /\ offset[b] <= i /\ i < offset[b] + count[b]
    BY <1>1
  <2>2. QED
    BY <2>1 DEF ListInv, ChainInv
<1>4. IsFiniteSet(own) /\ Cardinality(own) = count[b]
  <2>1. offset[b] \in Int /\ offset[b] + count[b] - 1 \in Int /\ count[b] \in Nat
    BY <1>1
  <2>2. /\ IsFiniteSet(own)
        /\ Cardinality(own) = IF offset[b] > offset[b] + count[b] - 1 THEN 0
                              ELSE (offset[b] + count[b] - 1) - offset[b] + 1
    BY <2>1, FS_Interval
  <2>3. QED
    BY <1>1, <2>1, <2>2
<1> DEFINE L == Below(S, offset[b])
           H == Below(S, offset[b] + C)
<1>5. /\ offset[b] \in Nat /\ count[b] \in Nat /\ C \in Nat /\ offset[b] + C \in Nat
      /\ offset[b] <= offset[b] + C
  BY <1>1
<1>6. IsFiniteSet(L) /\ IsFiniteSet(H) /\ Cardinality(L) \in Nat /\ Cardinality(H) \in Nat
  <2>1. S \in SUBSET S
    OBVIOUS
  <2>2. QED
    BY <1>5, <2>1, MoreBelow
<1>7. \A i \in own : i \in Nat /\ offset[b] <= i /\ i < offset[b] + C
  BY <1>1
<1>8. L \cap own = {}
  <2>1. \A i \in L : i \in Nat /\ ~ (offset[b] <= i)
    BY <1>5 DEF Below
  <2> HIDE DEF L, own
  <2>2. QED
    BY <1>7, <2>1
<1>9. IsFiniteSet(L \cup own) /\ Cardinality(L \cup own) = Cardinality(L) + count[b]
  <2> HIDE DEF L, own
  <2>1. /\ IsFiniteSet(L \cup own)
        /\ Cardinality(L \cup own) = Cardinality(L) + Cardinality(own) - Cardinality(L \cap own)
    BY <1>4, <1>6, FS_Union
  <2>2. Cardinality(L \cap own) = 0
    BY <1>8, FS_EmptySet
  <2>3. QED
    BY <1>4, <1>5, <1>6, <2>1, <2>2
<1>10. ASSUME S \subseteq live PROVE Cardinality(H) <= Cardinality(L) + count[b]
  <2>1. H \in SUBSET (L \cup own)
    <3>1. SUFFICES ASSUME NEW i \in S, i < offset[b] + C, ~ (i < offset[b]) PROVE i \in own
      BY DEF Below
    <3>2. i \in Nat /\ i \in live
      BY <1>10
    <3>3. offset[b] <= i
      BY <1>5, <3>1, <3>2
    <3>4. i < offset[b] + count[b]
      BY <1>2, <3>1, <3>2, <3>3
    <3>5. QED
      BY <1>5, <3>2, <3>3, <3>4
  <2> HIDE DEF L, H, own
  <2>2. Cardinality(H) <= Cardinality(L \cup own)
    BY <1>9, <2>1, FS_Subset
  <2>3. QED
    BY <1>9, <2>2
<1>11. ASSUME live \subseteq S PROVE Cardinality(L) + count[b] <= Cardinality(H)
  <2>1. L \subseteq H
    <3>1. \A i \in S : i < offset[b] => i < offset[b] + C
      BY <1>5
    <3>2. QED
      BY <3>1 DEF Below
  <2>2. \A i \in own : i \in H
    <3> HIDE DEF own
    <3>1. \A i \in own : i \in S /\ i < offset[b] + C
      BY <1>3, <1>7, <1>11
    <3>2. QED
      BY <3>1 DEF Below
  <2> HIDE DEF L, H, own
  <2>3. (L \cup own) \in SUBSET H
    BY <2>1, <2>2
  <2>4. Cardinality(L \cup own) <= Cardinality(H)
    BY <1>6, <2>3, FS_Subset
  <2>5. QED
    BY <1>9, <2>4
<1>12. QED
  BY <1>5, <1>6, <1>10, <1>11

\* How far the call of r has counted.
Limit(r) == IF spc[r] = "count" THEN offset[sn[r]] ELSE offset[sn[r]] + C

\* What it has counted so far are no fewer ids than have been in use all the time, and no
\* more than have been in use at some time, among those that are in front of that.
Counting(r) ==
  /\ sn[r] \in Linked
  /\ since[r] \subseteq live /\ live \subseteq seen[r] /\ IsFiniteSet(seen[r])
  /\ Cardinality(Below(since[r], Limit(r))) <= cnt[r]
  /\ cnt[r] <= Cardinality(Below(seen[r], Limit(r)))

\* Of every call of size.
SizesInv ==
  /\ spc \in [Readers -> {"idle", "count", "follow"}]
  /\ sn \in [Readers -> Buckets] /\ cnt \in [Readers -> Nat]
  /\ since \in [Readers -> SUBSET Nat] /\ seen \in [Readers -> SUBSET Nat]
  /\ \A r \in Readers : spc[r] # "idle" => Counting(r)

\* A step of the threads keeps the limits: linked buckets stay linked, with their offsets.
LEMMA ListStepSizes ==
  ASSUME ListInv, ListInv', SizesInv, ListStep PROVE SizesInv'
<1> USE LinkedBucketAssumption
<1>1. /\ spc' = spc /\ sn' = sn /\ cnt' = cnt
      /\ since' = [r \in Readers |-> since[r] \cap live']
      /\ seen' = [r \in Readers |-> IF spc[r] = "idle" THEN {} ELSE seen[r] \cup live']
  BY DEF ListStep, Watch, Outside, calls
<1>2. live' \subseteq Nat /\ IsFiniteSet(live')
  BY DEF ListInv, Finite, Inv, TypeOK
<1>3. since' \in [Readers -> SUBSET Nat] /\ seen' \in [Readers -> SUBSET Nat]
  BY <1>1, <1>2 DEF SizesInv
<1>4. ASSUME NEW r \in Readers, spc[r] # "idle" PROVE Counting(r)'
  <2>1. Next /\ ~ Renew /\ Counting(r)
    BY <1>4 DEF ListStep, Outside, SizesInv
  <2>2. sn[r] \in Linked' /\ offset'[sn[r]] = offset[sn[r]] /\ offset[sn[r]] \in Nat
    <3>1. LinksStay /\ Linked \subseteq Linked'
      BY <2>1, LinksStep DEF ListInv
    <3>2. QED
      BY <2>1, <3>1 DEF Counting, LinksStay, ListInv, Inv, TypeOK, ChainOK, Linked
  <2>3. PICK m \in Nat : m = Limit(r)
    BY <2>2 DEF Limit
  <2>4. Limit(r)' = m
    BY <1>1, <2>2, <2>3 DEF Limit
  <2>5. since'[r] = since[r] \cap live' /\ seen'[r] = seen[r] \cup live'
    BY <1>1, <1>4
  <2>6. IsFiniteSet(seen'[r])
    BY <1>2, <2>1, <2>5, FS_Union DEF Counting
  <2>7. since'[r] \subseteq since[r] /\ IsFiniteSet(since[r]) /\ since[r] \in SUBSET Nat
    <3>1. since[r] \in SUBSET seen[r]
      BY <2>1 DEF Counting
    <3>2. IsFiniteSet(since[r])
      BY <2>1, <3>1, FS_Subset DEF Counting
    <3>3. QED
      BY <2>5, <3>2 DEF SizesInv
  <2>8. /\ Cardinality(Below(since'[r], m)) \in Nat /\ Cardinality(Below(since[r], m)) \in Nat
        /\ Cardinality(Below(since'[r], m)) <= Cardinality(Below(since[r], m))
    BY <2>7, MoreBelow
  <2>9. /\ Cardinality(Below(seen[r], m)) \in Nat /\ Cardinality(Below(seen'[r], m)) \in Nat
        /\ Cardinality(Below(seen[r], m)) <= Cardinality(Below(seen'[r], m))
    <3>1. seen'[r] \in SUBSET Nat
      BY <1>3
    <3>2. seen[r] \in SUBSET seen'[r]
      BY <2>5
    <3>3. QED
      BY <2>6, <3>1, <3>2, MoreBelow
  <2>10. cnt[r] \in Nat /\ cnt'[r] = cnt[r] /\ sn'[r] = sn[r]
    BY <1>1 DEF SizesInv
  <2>11. Cardinality(Below(since'[r], m)) <= cnt[r] /\ cnt[r] <= Cardinality(Below(seen'[r], m))
    BY <2>1, <2>3, <2>8, <2>9, <2>10 DEF Counting
  <2>12. since'[r] \subseteq live' /\ live' \subseteq seen'[r]
    BY <2>5
  <2>13. QED
    BY <2>2, <2>4, <2>6, <2>10, <2>11, <2>12 DEF Counting
<1>5. QED
  BY <1>1, <1>3, <1>4 DEF SizesInv

\* A call of size begins with nothing counted, adds the count of the bucket it is at, goes
\* on to the ids that follow, and forgets all when it ends.
LEMMA CallSizes ==
  ASSUME ListInv, SizesInv, UNCHANGED vars,
         NEW r \in Readers, Start(r) \/ ReadCount(r) \/ Follow(r) \/ Finish(r)
  PROVE  SizesInv'
<1> USE LinkedBucketAssumption
<1>1. /\ live' = live /\ offset' = offset /\ Linked' = Linked /\ Begin \in Linked
      /\ Linked \subseteq Buckets /\ live \subseteq Nat /\ IsFiniteSet(live)
  <2>1. /\ live' = live /\ offset' = offset /\ buckets' = buckets /\ pc' = pc /\ next' = next
    BY DEF vars, chain, locals
  <2>2. QED
    BY <2>1 DEF ListInv, Finite, Inv, Unlinked, TypeOK, ChainOK, Linked
<1>2. /\ spc \in [Readers -> {"idle", "count", "follow"}]
      /\ sn \in [Readers -> Buckets] /\ cnt \in [Readers -> Nat]
      /\ since \in [Readers -> SUBSET Nat] /\ seen \in [Readers -> SUBSET Nat]
  BY DEF SizesInv
<1>3. ASSUME NEW q \in Readers, spc[q] # "idle",
             spc'[q] = spc[q], sn'[q] = sn[q], cnt'[q] = cnt[q], since'[q] = since[q],
             seen'[q] = seen[q]
      PROVE  Counting(q)'
  BY <1>1, <1>3 DEF SizesInv, Counting, Limit
<1>4. CASE Start(r)
  <2>1. /\ spc' = [spc EXCEPT ![r] = "count"] /\ sn' = [sn EXCEPT ![r] = Begin]
        /\ cnt' = [cnt EXCEPT ![r] = 0] /\ since' = [since EXCEPT ![r] = live]
        /\ seen' = [seen EXCEPT ![r] = live]
    BY <1>4 DEF Start
  <2>2. Limit(r)' = 0
    BY <1>1, <1>2, <2>1 DEF Limit, ListInv, ChainInv
  <2>3. Cardinality(Below(live, 0)) = 0
    <3>1. \A i \in live : i \in Nat
      BY <1>1
    <3>2. \A i \in live : ~ (i < 0)
      BY <3>1
    <3>3. Below(live, 0) = {}
      BY <3>2 DEF Below
    <3>4. QED
      BY <3>3, FS_EmptySet
  <2>4. sn'[r] = Begin /\ cnt'[r] = 0 /\ since'[r] = live /\ seen'[r] = live
    BY <1>2, <2>1
  <2>5. Counting(r)'
    BY <1>1, <2>2, <2>3, <2>4 DEF Counting
  <2>6. QED
    BY <1>1, <1>2, <1>3, <2>1, <2>5 DEF SizesInv
<1>5. CASE ReadCount(r)
  <2>1. /\ spc[r] = "count" /\ spc' = [spc EXCEPT ![r] = "follow"] /\ sn' = sn
        /\ cnt' = [cnt EXCEPT ![r] = @ + count[sn[r]]] /\ since' = since /\ seen' = seen
    BY <1>5 DEF ReadCount, watch
  <2>2. PICK b \in Linked : b = sn[r]
    BY <2>1 DEF SizesInv, Counting
  <2>3. Counting(r) /\ Limit(r) = offset[b] /\ Limit(r)' = offset[b] + C
    BY <1>1, <1>2, <2>1, <2>2 DEF Limit, SizesInv
  <2>4. /\ since[r] \in SUBSET Nat /\ seen[r] \in SUBSET Nat /\ IsFiniteSet(since[r])
        /\ IsFiniteSet(seen[r]) /\ since[r] \subseteq live /\ live \subseteq seen[r]
    <3>1. since[r] \in SUBSET seen[r]
      BY <2>3 DEF Counting
    <3>2. IsFiniteSet(since[r])
      BY <2>3, <3>1, FS_Subset DEF Counting
    <3>3. QED
      BY <1>2, <2>3, <3>2 DEF Counting
  <2>5. /\ count[b] \in Nat
        /\ Cardinality(Below(since[r], offset[b])) \in Nat
        /\ Cardinality(Below(since[r], offset[b] + C)) \in Nat
        /\ Cardinality(Below(since[r], offset[b] + C))
              <= Cardinality(Below(since[r], offset[b])) + count[b]
    BY <2>4, OneBucket
  <2>6. /\ Cardinality(Below(seen[r], offset[b])) \in Nat
        /\ Cardinality(Below(seen[r], offset[b] + C)) \in Nat
        /\ Cardinality(Below(seen[r], offset[b])) + count[b]
              <= Cardinality(Below(seen[r], offset[b] + C))
    BY <2>4, OneBucket
  <2>7. cnt[r] \in Nat /\ cnt'[r] = cnt[r] + count[b] /\ cnt' \in [Readers -> Nat]
    BY <1>2, <2>1, <2>2, <2>5
  <2>8. /\ Cardinality(Below(since[r], offset[b] + C)) <= cnt'[r]
        /\ cnt'[r] <= Cardinality(Below(seen[r], offset[b] + C))
    BY <2>3, <2>5, <2>6, <2>7 DEF Counting
  <2>9. Counting(r)'
    BY <1>1, <2>1, <2>2, <2>3, <2>4, <2>8 DEF Counting
  <2>10. \A q \in Readers \ {r} : cnt'[q] = cnt[q] /\ spc'[q] = spc[q]
    BY <1>2, <2>1
  <2>11. QED
    BY <1>2, <1>3, <2>1, <2>7, <2>9, <2>10 DEF SizesInv
<1>6. CASE Follow(r)
  <2>1. /\ spc[r] = "follow" /\ spc' = [spc EXCEPT ![r] = "count"] /\ nbucket[sn[r]] # Null
        /\ sn' = [sn EXCEPT ![r] = nbucket[sn[r]]]
        /\ cnt' = cnt /\ since' = since /\ seen' = seen
    BY <1>6 DEF Follow, watch
  <2>2. PICK d : d = nbucket[sn[r]]
    OBVIOUS
  <2>3. d \in Linked /\ offset[d] = offset[sn[r]] + C
    BY <2>1, <2>2 DEF SizesInv, Counting, ListInv, Inv, Links
  <2>4. sn'[r] = d /\ spc'[r] = "count"
    BY <1>2, <2>1, <2>2
  <2>5. Limit(r)' = Limit(r)
    BY <1>1, <2>1, <2>3, <2>4 DEF Limit
  <2>6. Counting(r)'
    BY <1>1, <2>1, <2>3, <2>4, <2>5 DEF SizesInv, Counting
  <2>7. sn' \in [Readers -> Buckets]
    BY <1>1, <1>2, <2>1, <2>2, <2>3
  <2>8. QED
    BY <1>2, <1>3, <2>1, <2>6, <2>7 DEF SizesInv
<1>7. CASE Finish(r)
  <2>1. /\ spc' = [spc EXCEPT ![r] = "idle"] /\ sn' = [sn EXCEPT ![r] = Begin]
        /\ cnt' = [cnt EXCEPT ![r] = 0] /\ since' = [since EXCEPT ![r] = {}]
        /\ seen' = [seen EXCEPT ![r] = {}]
    BY <1>7 DEF Finish
  <2>2. QED
    BY <1>2, <1>3, <2>1 DEF SizesInv
<1>8. QED
  BY <1>4, <1>5, <1>6, <1>7

\* A call that ends has counted all buckets: no id in use is behind the last of them.
LEMMA FinishBetween ==
  ASSUME ListInv, SizesInv, NEW r \in Readers, Finish(r)
  PROVE  Cardinality(since[r]) <= cnt[r] /\ cnt[r] <= Cardinality(seen[r])
<1> USE LinkedBucketAssumption
<1>1. spc[r] = "follow" /\ nbucket[sn[r]] = Null /\ Counting(r)
  BY DEF Finish, SizesInv
<1>2. PICK b \in Linked : b = sn[r] /\ nbucket[b] = Null
  BY <1>1 DEF Counting
<1>3. PICK m : m = offset[b] + C
  OBVIOUS
<1>4. /\ m \in Nat /\ live \subseteq Nat
      /\ \A c \in Linked : offset[c] \in Nat /\ count[c] \in 0 .. C /\ offset[c] <= offset[b]
  BY <1>2, <1>3 DEF ListInv, Inv, TypeOK, ChainOK, Linked, LastIsHighest
<1>5. \A i \in live : i < m
  <2>1. SUFFICES ASSUME NEW i \in live PROVE i < m
    OBVIOUS
  <2>2. PICK c \in Linked : offset[c] <= i /\ i < offset[c] + count[c]
    BY DEF ListInv, Inv, LiveCounted
  <2>3. QED
    BY <1>3, <1>4, <2>2
<1>6. Below(since[r], m) = since[r]
  BY <1>1, <1>5 DEF Below, Counting
<1>7. Limit(r) = m
  BY <1>1, <1>2, <1>3 DEF Limit
<1>8. /\ Cardinality(Below(seen[r], m)) \in Nat /\ Cardinality(seen[r]) \in Nat
      /\ Cardinality(Below(seen[r], m)) <= Cardinality(seen[r])
  <2>1. Below(seen[r], m) \in SUBSET seen[r] /\ IsFiniteSet(seen[r])
    BY <1>1 DEF Below, Counting
  <2>2. IsFiniteSet(Below(seen[r], m)) /\ Cardinality(Below(seen[r], m)) <= Cardinality(seen[r])
    BY <2>1, FS_Subset
  <2>3. QED
    BY <2>1, <2>2, FS_CardinalityType
<1>9. cnt[r] \in Nat
  BY DEF SizesInv
<1>10. QED
  BY <1>1, <1>6, <1>7, <1>8, <1>9 DEF Counting

-----------------------------------------------------------------------------
(* Theorems *)

\* What readers follow without a lock is written once in the life of the list: links and
\* entries of the index, links of the chain, and the offset of a linked bucket.
THEOREM PublishedForGood == Spec => PublishedStays
<1>1. ListInv /\ ListInv' /\ [Next]_vars => [~ Renew => LinksStay /\ IndexStays]_vars
  BY LinksStep, IndexStep DEF ListInv
<1>2. QED
  BY <1>1, AllInv, PTL DEF Spec, PublishedStays

\* An id in use is found through the index, in the bucket to which the chain leads too.
THEOREM LookupsFind == Spec => []LookupsHome
<1>1. QED
  BY AllInv, Lookups, PTL DEF Spec

\* What a call of size answers while threads take ids, give them back and link buckets lies
\* between the number of ids in use throughout the call and of those in use at some time.
THEOREM SizesBetween == SizeSpec => SizeBetween
<1>1. SizeInit => Init /\ SizesInv
  BY LinkedBucketAssumption DEF SizeInit, SizesInv
<1>2. [SizeNext]_svars => [Next]_vars
  BY DEF SizeNext, ListStep, svars, vars
<1>3. ListInv /\ ListInv' /\ SizesInv /\ [SizeNext]_svars => SizesInv'
  <2>1. SUFFICES ASSUME ListInv, ListInv', SizesInv, [SizeNext]_svars PROVE SizesInv'
    OBVIOUS
  <2>2. CASE ListStep
    BY <2>1, <2>2, ListStepSizes
  <2>3. ASSUME NEW r \in Readers, Start(r) \/ ReadCount(r) \/ Follow(r) \/ Finish(r), UNCHANGED vars
        PROVE  SizesInv'
    BY <2>1, <2>3, CallSizes
  <2>4. CASE UNCHANGED svars
    <3>1. UNCHANGED <<vars, spc, sn, cnt, since, seen>>
      BY <2>4 DEF svars, calls, watch
    <3>2. UNCHANGED <<buckets, pc, next, offset, live>>
      BY <3>1 DEF vars, chain, locals
    <3>3. QED
      BY <2>1, <3>1, <3>2 DEF SizesInv, Counting, Limit, Linked
  <2>5. QED
    BY <2>1, <2>2, <2>3, <2>4 DEF SizeNext
<1>4. ListInv /\ SizesInv /\ [SizeNext]_svars
        => [\A r \in Readers :
              Finish(r) => Cardinality(since[r]) <= cnt[r] /\ cnt[r] <= Cardinality(seen[r])]_svars
  BY FinishBetween
<1>5. QED
  BY <1>1, <1>2, <1>3, <1>4, AllInv, PTL DEF SizeSpec, SizeBetween

\* The destructor leaves nothing allocated.
THEOREM NoLeaks == Spec => []NothingLeaks
<1>1. Init => NothingLeaks
  BY DEF Init, NothingLeaks
<1>2. ListInv /\ NothingLeaks /\ [Next]_vars => NothingLeaks'
  <2>1. SUFFICES ASSUME ListInv, leaked = {}, [Next]_vars PROVE leaked' = {}
    BY DEF NothingLeaks
  <2>2. CASE Renew
    <3>1. buckets \cup indexes \subseteq Freed
      BY <2>1, <2>2, NothingLost DEF Renew
    <3>2. QED
      BY <2>1, <2>2, <3>1 DEF Renew
  <2>3. CASE ~ Renew
    BY <2>1, <2>3 DEF Next, vars
  <2>4. QED
    BY <2>2, <2>3
<1>3. QED
  BY <1>1, <1>2, AllInv, PTL DEF Spec

=============================================================================
