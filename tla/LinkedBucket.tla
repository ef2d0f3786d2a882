---------------------------- MODULE LinkedBucket ----------------------------
(***************************************************************************)
(* linked_bucket_t: where ptrie keeps the entries of its stored keys.  A   *)
(* chain of buckets of C cells each that only ever grows at its end, and a *)
(* two-level index over it.  Every thread takes ids from a bucket of its   *)
(* own; when that is full it links a new one with a compare-and-swap and   *)
(* then enters it in the index.  One action is one access to shared state. *)
(***************************************************************************)
EXTENDS Integers, FiniteSets

CONSTANTS Threads, Zero,        \* the callers, and the one numbered 0
          C,                    \* cells of a bucket, buckets of an index node
          Buckets, Begin,       \* addresses of buckets, and _begin
          Indexes, First,       \* addresses of index nodes, and the first
          Null

ASSUME LinkedBucketAssumption ==
  /\ C \in Nat \ {0}
  /\ Zero \in Threads /\ Begin \in Buckets /\ First \in Indexes
  /\ Null \notin Buckets \cup Indexes

VARIABLES buckets,  \* the buckets that are allocated
          nbucket,  \* _nbucket, _offset and _count of each
          offset,
          count,
          tnext,    \* _tnext
          indexes,  \* the index nodes that are allocated
          index,    \* _index and _next of each
          inext,
          pc,       \* where each thread is in next and insertToIndex
          n,        \* its locals in next: n, tmp and next
          tmp,
          next,
          at,       \* its locals in insertToIndex: tmp, id and nindex
          id,
          nindex,
          live,     \* the ids that next has returned and pop_back not taken back
          leaked    \* what the destructor has left allocated

chain == <<buckets, nbucket, offset, count, tnext>>
table == <<indexes, index, inext>>
locals == <<n, tmp, next, at, id, nindex>>
vars == <<chain, table, pc, locals, live, leaked>>

-----------------------------------------------------------------------------
FreshBucket == CHOOSE b \in Buckets : b \notin buckets

FreshIndex == CHOOSE i \in Indexes : i \notin indexes

\* Mutant: a bucket is never full.
NoBucketNever(t) == tnext[t] \notin buckets

NoBucket(t) == tnext[t] \notin {b \in buckets : count[b] # C}

\* next, when the thread has no bucket or a full one: a new bucket, which is going
\* to be linked behind the thread's last, or behind the first.
Allocate(t) ==
  /\ pc[t] = "idle" /\ NoBucket(t)
  /\ buckets # Buckets
  /\ LET b == FreshBucket
         last == IF tnext[t] = Null THEN Begin ELSE tnext[t]
     IN  /\ buckets' = buckets \cup {b}
         /\ nbucket' = [nbucket EXCEPT ![b] = Null]
         /\ offset' = [offset EXCEPT ![b] = offset[last] + C]
         /\ count' = [count EXCEPT ![b] = 0]
         /\ next' = [next EXCEPT ![t] = b]
         /\ n' = [n EXCEPT ![t] = last]
         /\ tmp' = [tmp EXCEPT ![t] = Null]
  /\ pc' = [pc EXCEPT ![t] = "link"]
  /\ UNCHANGED <<tnext, table, at, id, nindex, live>>

\* Mutant: links without comparing.
LinkAlways(t) ==
  /\ pc[t] = "link"
  /\ nbucket' = [nbucket EXCEPT ![n[t]] = next[t]]
  /\ tnext' = [tnext EXCEPT ![t] = next[t]]
  /\ id' = [id EXCEPT ![t] = offset[next[t]]]
  /\ at' = [at EXCEPT ![t] = First]
  /\ pc' = [pc EXCEPT ![t] = "index"]
  /\ UNCHANGED <<buckets, offset, count, table, n, tmp, next, nindex, live>>

\* compare_exchange_weak succeeds.
Link(t) ==
  /\ pc[t] = "link" /\ nbucket[n[t]] = tmp[t]
  /\ nbucket' = [nbucket EXCEPT ![n[t]] = next[t]]
  /\ tnext' = [tnext EXCEPT ![t] = next[t]]
  /\ id' = [id EXCEPT ![t] = offset[next[t]]]
  /\ at' = [at EXCEPT ![t] = First]
  /\ pc' = [pc EXCEPT ![t] = "index"]
  /\ UNCHANGED <<buckets, offset, count, table, n, tmp, next, nindex, live>>

\* Mutants of Advance: one forgets to move the new bucket's offset on, one leaves tmp
\* as it is where the chain ends, and one shares the bucket that it found.
AdvanceOnly(t) ==
  /\ pc[t] = "link" /\ nbucket[n[t]] # tmp[t]
  /\ tmp' = [tmp EXCEPT ![t] = nbucket[n[t]]]
  /\ n' = [n EXCEPT ![t] = IF nbucket[@] # Null THEN nbucket[@] ELSE @]
  /\ UNCHANGED <<chain, table, pc, next, at, id, nindex, live>>

AdvanceStuck(t) ==
  /\ pc[t] = "link" /\ nbucket[n[t]] # tmp[t]
  /\ nbucket[n[t]] # Null
  /\ tmp' = [tmp EXCEPT ![t] = nbucket[n[t]]]
  /\ n' = [n EXCEPT ![t] = nbucket[n[t]]]
  /\ offset' = [offset EXCEPT ![next[t]] = @ + C]
  /\ UNCHANGED <<buckets, nbucket, count, tnext, table, pc, next, at, id, nindex, live>>

AdvanceShare(t) ==
  /\ pc[t] = "link" /\ nbucket[n[t]] # tmp[t]
  /\ tnext' = [tnext EXCEPT ![t] = nbucket[n[t]]]
  /\ pc' = [pc EXCEPT ![t] = "idle"]
  /\ UNCHANGED <<buckets, nbucket, offset, count, table, locals, live>>

\* compare_exchange_weak fails and loads tmp: the thread moves on to the bucket it
\* found, where it compares with that bucket once before it compares with nullptr.
\* (A spurious failure changes nothing: it would load the value tmp has.)
Advance(t) ==
  /\ pc[t] = "link" /\ nbucket[n[t]] # tmp[t]
  /\ tmp' = [tmp EXCEPT ![t] = nbucket[n[t]]]
  /\ IF nbucket[n[t]] # Null
     THEN /\ n' = [n EXCEPT ![t] = nbucket[n[t]]]
          /\ offset' = [offset EXCEPT ![next[t]] = @ + C]
     ELSE UNCHANGED <<n, offset>>
  /\ UNCHANGED <<buckets, nbucket, count, tnext, table, pc, next, at, id, nindex, live>>

\* insertToIndex: the next index node, which is made when there is none yet.
IndexWalk(t) ==
  /\ pc[t] = "index" /\ id[t] >= C * C
  /\ \/ /\ inext[at[t]] # Null
        /\ at' = [at EXCEPT ![t] = inext[at[t]]]
        /\ id' = [id EXCEPT ![t] = @ - C * C]
        /\ UNCHANGED <<table, pc, nindex>>
     \/ /\ inext[at[t]] = Null
        /\ indexes # Indexes
        /\ LET i == FreshIndex
           IN  /\ indexes' = indexes \cup {i}
               /\ index' = [index EXCEPT ![i] = [s \in 0 .. C - 1 |-> Null]]
               /\ inext' = [inext EXCEPT ![i] = Null]
               /\ nindex' = [nindex EXCEPT ![t] = i]
        /\ pc' = [pc EXCEPT ![t] = "extend"]
        /\ UNCHANGED <<at, id>>
  /\ UNCHANGED <<chain, n, tmp, next, live>>

\* Mutants of Extend: one does not compare, and one forgets the node it did not need.
ExtendAlways(t) ==
  /\ pc[t] = "extend"
  /\ inext' = [inext EXCEPT ![at[t]] = nindex[t]]
  /\ at' = [at EXCEPT ![t] = nindex[t]]
  /\ id' = [id EXCEPT ![t] = @ - C * C]
  /\ pc' = [pc EXCEPT ![t] = "index"]
  /\ UNCHANGED <<chain, indexes, index, n, tmp, next, nindex, live>>

ExtendLeak(t) ==
  /\ pc[t] = "extend"
  /\ IF inext[at[t]] = Null
     THEN /\ inext' = [inext EXCEPT ![at[t]] = nindex[t]]
          /\ at' = [at EXCEPT ![t] = nindex[t]]
          /\ id' = [id EXCEPT ![t] = @ - C * C]
     ELSE UNCHANGED <<inext, at, id>>
  /\ pc' = [pc EXCEPT ![t] = "index"]
  /\ UNCHANGED <<chain, indexes, index, n, tmp, next, nindex, live>>

\* compare_exchange_strong on _next: the thread's node is linked, or deleted
\* because another thread's has been.
Extend(t) ==
  /\ pc[t] = "extend"
  /\ IF inext[at[t]] = Null
     THEN /\ inext' = [inext EXCEPT ![at[t]] = nindex[t]]
          /\ at' = [at EXCEPT ![t] = nindex[t]]
          /\ id' = [id EXCEPT ![t] = @ - C * C]
          /\ UNCHANGED indexes
     ELSE /\ indexes' = indexes \ {nindex[t]}
          /\ UNCHANGED <<inext, at, id>>
  /\ pc' = [pc EXCEPT ![t] = "index"]
  /\ UNCHANGED <<chain, index, n, tmp, next, nindex, live>>

\* The bucket is entered in the index.
Enter(t) ==
  /\ pc[t] = "index" /\ id[t] < C * C
  /\ index' = [index EXCEPT ![at[t]][id[t] \div C] = next[t]]
  /\ pc' = [pc EXCEPT ![t] = "take"]
  /\ UNCHANGED <<chain, indexes, inext, locals, live>>

\* The end of next: the next id of the thread's bucket is returned.
Take(t) ==
  /\ pc[t] = "take" \/ (pc[t] = "idle" /\ ~ NoBucket(t))
  /\ live' = live \cup {offset[tnext[t]] + count[tnext[t]]}
  /\ count' = [count EXCEPT ![tnext[t]] = @ + 1]
  /\ pc' = [pc EXCEPT ![t] = "idle"]
  /\ UNCHANGED <<buckets, nbucket, offset, tnext, table, locals>>

\* pop_back: the last id that the thread took from its bucket is given back.
PopBack(t) ==
  /\ pc[t] = "idle" /\ tnext[t] # Null
  /\ count[tnext[t]] > 0
  /\ count' = [count EXCEPT ![tnext[t]] = @ - 1]
  /\ live' = live \ {offset[tnext[t]] + count[tnext[t]] - 1}
  /\ UNCHANGED <<buckets, nbucket, offset, tnext, table, pc, locals>>

-----------------------------------------------------------------------------
(* operator[]: the links and the entries of the index that it follows, once *)
(* they are published, never change (PublishedStays), so that its loops see *)
(* what they would see at one moment.                                       *)

\* indexToBucket: the loop over the index nodes, from <<node, rest of the id>>.
IndexToBucket(i) ==
  LET walk[p \in Indexes \X Nat] ==
        LET x == p[1]
            j == p[2]
        IN  IF j < C * C THEN index[x][j \div C]
            ELSE IF inext[x] = Null THEN Null ELSE walk[<<inext[x], j - C * C>>]
  IN  walk[<<First, i>>]

\* The loop of operator[], for an id that is not in the index yet, from <<bucket, rest>>;
\* Null is where its assert fails.
ChainToBucket(i) ==
  LET walk[p \in Buckets \X Nat] ==
        LET b == p[1]
            j == p[2]
        IN  IF j < C THEN b
            ELSE IF nbucket[b] = Null THEN Null ELSE walk[<<nbucket[b], j - C>>]
  IN  walk[<<Begin, i>>]

-----------------------------------------------------------------------------
(* The constructor and the destructor *)

NoIndex == [s \in 0 .. C - 1 |-> Null]

Init ==
  /\ buckets = {Begin}
  /\ nbucket = [b \in Buckets |-> Null]
  /\ offset = [b \in Buckets |-> 0]
  /\ count = [b \in Buckets |-> 0]
  /\ tnext = [t \in Threads |-> IF t = Zero THEN Begin ELSE Null]
  /\ indexes = {First}
  /\ index = [[i \in Indexes |-> NoIndex] EXCEPT ![First][0] = Begin]
  /\ inext = [i \in Indexes |-> Null]
  /\ pc = [t \in Threads |-> "idle"]
  /\ n = [t \in Threads |-> Begin]
  /\ tmp = [t \in Threads |-> Null]
  /\ next = [t \in Threads |-> Begin]
  /\ at = [t \in Threads |-> First]
  /\ id = [t \in Threads |-> 0]
  /\ nindex = [t \in Threads |-> First]
  /\ live = {}
  /\ leaked = {}

\* The buckets and the index nodes that the loops of the destructor reach.
Freed ==
  LET follow[b \in Buckets] ==
        {b} \cup (IF nbucket[b] = Null THEN {} ELSE follow[nbucket[b]])
      level[x \in Indexes] ==
        {x} \cup (IF inext[x] = Null THEN {} ELSE level[inext[x]])
  IN  follow[Begin] \cup level[First]

\* The destructor, which is called when no thread is inside next, and a new list in the
\* place of the old one.
Renew ==
  /\ \A t \in Threads : pc[t] = "idle"
  /\ leaked' = leaked \cup ((buckets \cup indexes) \ Freed)
  /\ buckets' = {Begin}
  /\ nbucket' = [b \in Buckets |-> Null]
  /\ offset' = [b \in Buckets |-> 0]
  /\ count' = [b \in Buckets |-> 0]
  /\ tnext' = [t \in Threads |-> IF t = Zero THEN Begin ELSE Null]
  /\ indexes' = {First}
  /\ index' = [[i \in Indexes |-> NoIndex] EXCEPT ![First][0] = Begin]
  /\ inext' = [i \in Indexes |-> Null]
  /\ n' = [t \in Threads |-> Begin]
  /\ tmp' = [t \in Threads |-> Null]
  /\ next' = [t \in Threads |-> Begin]
  /\ at' = [t \in Threads |-> First]
  /\ id' = [t \in Threads |-> 0]
  /\ nindex' = [t \in Threads |-> First]
  /\ live' = {}
  /\ UNCHANGED pc

\* The rest of a call of next that has begun.
Continue(t) ==
  /\ Link(t) \/ Advance(t) \/ IndexWalk(t) \/ Extend(t) \/ Enter(t) \/ (pc[t] = "take" /\ Take(t))
  /\ UNCHANGED leaked

Next ==
  \/ /\ \E t \in Threads :
          \/ Allocate(t) \/ Link(t) \/ Advance(t)
          \/ IndexWalk(t) \/ Extend(t) \/ Enter(t)
          \/ Take(t) \/ PopBack(t)
     /\ UNCHANGED leaked
  \/ Renew

Spec == Init /\ [][Next]_vars

\* A thread that is inside next is not suspended for ever, and its
\* compare_exchange_weak does not fail spuriously for ever.
FairSpec == Spec /\ \A t \in Threads : WF_vars(Continue(t))

-----------------------------------------------------------------------------
(* Properties *)

ChainOK ==
  /\ buckets \subseteq Buckets /\ Begin \in buckets
  /\ nbucket \in [Buckets -> Buckets \cup {Null}]
  /\ offset \in [Buckets -> Nat] /\ count \in [Buckets -> 0 .. C]
  /\ tnext \in [Threads -> Buckets \cup {Null}]

TableOK ==
  /\ indexes \subseteq Indexes /\ First \in indexes
  /\ index \in [Indexes -> [0 .. C - 1 -> Buckets \cup {Null}]]
  /\ inext \in [Indexes -> Indexes \cup {Null}]

ThreadsOK ==
  /\ pc \in [Threads -> {"idle", "link", "index", "extend", "take"}]
  /\ n \in [Threads -> Buckets] /\ next \in [Threads -> Buckets]
  /\ tmp \in [Threads -> Buckets \cup {Null}]
  /\ at \in [Threads -> Indexes] /\ nindex \in [Threads -> Indexes]
  /\ id \in [Threads -> Nat]

\* The variables of the list and of the threads hold values of their types.
TypeOK == ChainOK /\ TableOK /\ ThreadsOK /\ live \subseteq Nat

\* The buckets of the chain: all but those a thread has made and not linked yet.
Linked == {b \in buckets : \A t \in Threads : pc[t] = "link" => next[t] # b}

\* next never returns an id that is in use, whoever got it.
FreshIds ==
  [][\A t \in Threads : Take(t) => offset[tnext[t]] + count[tnext[t]] \notin live]_vars

\* No two threads count in the same bucket: _count is not atomic.
OwnBuckets ==
  \A s, t \in Threads : s # t /\ tnext[s] = tnext[t] => tnext[s] = Null

\* An id that next has returned is found by the index alone, and the walk along the
\* chain would end at the same bucket: the assert of operator[] cannot fail.
LookupsHome ==
  \A i \in live : \E b \in Linked :
    /\ offset[b] <= i /\ i < offset[b] + count[b]
    /\ IndexToBucket(i) = b /\ ChainToBucket(i) = b

LinksStay ==
  \A b \in Linked : nbucket[b] \in {Null, nbucket'[b]} /\ offset'[b] = offset[b]

IndexStays ==
  \A x \in Indexes :
    /\ inext[x] \in {Null, inext'[x]}
    /\ x \in indexes => \A s \in 0 .. C - 1 : index[x][s] \in {Null, index'[x][s]}

\* What readers follow without a lock is written once in the life of the list: links of
\* the chain and of the index, entries of the index, and the offset of a linked bucket.
PublishedStays == [][~ Renew => LinksStay /\ IndexStays]_vars

\* The destructor reaches every bucket and every index node that any thread has made: a
\* node that lost the race to be linked is freed, and no bucket drops out of the chain.
NothingLeaks == leaked = {}

\* Every call of next returns, however the others interfere.
NextReturns == \A t \in Threads : pc[t] # "idle" ~> pc[t] = "idle"

=============================================================================
