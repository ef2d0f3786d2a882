-------------------------- MODULE PTrieInvariants --------------------------
(***************************************************************************)
(* Inductive invariants of PTrie: what holds between any two steps of an   *)
(* operation, strong enough that each step keeps it.  The properties of    *)
(* PTrie about the shape of the trie follow from them.                     *)
(***************************************************************************)
EXTENDS PTrie

-----------------------------------------------------------------------------
(* The tree *)

\* Nothing that is freed is used: the memory keeps what DeadFwd and DeadNode stand for.
DeadOK ==
  /\ \A f \in FwdIds \ fwds : fwd[f] = DeadFwd
  /\ \A n \in NodeIds \ nodes : node[n] = DeadNode

\* Below the call in progress there are only calls of merge_down that wait for
\* readd_byte; the call in progress has a bucket, a split also its parent.
CallsOK ==
  /\ \A i \in DOMAIN stack : i > 1 => stack[i].fn = "after_readd"
  /\ stack # <<>> =>
       /\ Top.fn \in {"split", "merge_down"} => Top.node \in nodes
       /\ Top.fn = "split" => Top.fwd = node[Top.node].parent
       /\ Top.fn = "climb" => Top.fwd \in fwds

\* The tree is well formed, nothing is above the root, no forwarding node is its own
\* parent, and calls hold no reference into freed memory but that of a merge_down that
\* waits.
TreeInv ==
  /\ TypeOK
  /\ TreeWellFormed
  /\ fwd[Root].parent = Null
  /\ \A f \in fwds \ {Root} : fwd[f].parent # f
  /\ DeadOK
  /\ CallsOK

-----------------------------------------------------------------------------
(* How full buckets are *)

Count(n) == Len(node[n].items)

\* The bucket n is alone below the prefix that is one bit shorter than its own.
Alone(n) ==
  \A s \in Slots : Covers(Front(node[n].prefix), s) =>
                     fwd[node[n].parent].children[s] \in {node[n].parent, n}

\* merge_down would leave the bucket n where it is: a small bucket has not all the
\* slots of a forwarding node, nor all that are taken of a range it could grow over.
Settled(n) ==
  /\ Count(n) > 0
  /\ node[n].prefix = <<>> /\ node[n].parent # Root => Count(n) > MergeBound
  /\ node[n].prefix # <<>> /\ Alone(n) => Count(n) > MergeBound

Buddies(n, c) ==
  /\ node[n].parent = node[c].parent /\ node[n].prefix # <<>>
  /\ node[c].prefix = Buddy(node[n].prefix)

\* The buckets of S are settled, and no two of them are buddies that should merge.
AllSettled(S) ==
  /\ \A n \in S : Settled(n)
  /\ \A n, c \in S : Buddies(n, c) => Count(n) + Count(c) > MergeBound

\* The bucket n may be taken away without making its parent barren, or it
\* is the last bucket of the trie; the bucket that gets its slots is not small.
Removable(n) ==
  /\ node[n].prefix = <<>> => node[n].parent = Root
  /\ node[n].prefix # <<>> => ~ Alone(n)
  /\ \A c \in nodes : Buddies(n, c) => Count(c) >= MergeBound

\* The waiting calls are all about the bucket n.
WaitFor(n) == \A i \in DOMAIN stack : i > 1 => stack[i].node = n

\* A merge that may still change the bucket it is about, the only one not settled.
Growing ==
  /\ AllSettled(nodes \ {Top.node}) /\ WaitFor(Top.node)
  /\ Count(Top.node) = 0 => Len(stack) = 1 /\ Removable(Top.node)

\* A merge that goes on with settled buckets: it may join two of them that are
\* finer than the one the waiting calls are about, and stops there.
Finishing ==
  /\ AllSettled(nodes)
  /\ \E m \in nodes : /\ WaitFor(m)
                      /\ \/ Top.node = m
                         \/ Len(node[Top.node].prefix) > Len(node[m].prefix)
                         \/ Count(Top.node) > MergeBound

\* Every forwarding node but the root leads somewhere.
Leads == \A f \in fwds \ {Root} : \E s \in Slots : fwd[f].children[s] # f

\* How far an operation has come: all buckets are settled but the one a merge is growing.
Phases ==
  /\ stack = <<>> => AllSettled(nodes)
  /\ stack # <<>> =>
       /\ Top.fn = "split" =>
            Len(stack) = 1 /\ AllSettled(nodes) /\ Full(Count(Top.node))
       /\ Top.fn = "climb" => Len(stack) = 1 /\ AllSettled(nodes) /\ Top.fwd = Root
       /\ Top.fn = "after_readd" =>
            AllSettled(nodes) /\ Top.node \in nodes /\ WaitFor(Top.node)
       /\ Top.fn = "merge_down" => Growing \/ Finishing

\* Through every chain of merges a dead branch is never left, and a bucket that a merge
\* should have taken further is never left behind when its calls have returned.
ShapeInv == Leads /\ Phases

-----------------------------------------------------------------------------
(* Levels *)

Level(f) == Len(PathTo(f))

\* The level that a call is given is that of its bucket, but for a merge that stops
\* before it uses it.
LevelInv ==
  stack # <<>> =>
    /\ Top.fn = "split" => Top.p = Level(Top.fwd)
    /\ Top.fn = "merge_down" =>
         \/ Top.p = Level(node[Top.node].parent)
         \/ Count(Top.node) > MergeBound
         \/ AllSettled(nodes)

-----------------------------------------------------------------------------
(* What buckets hold *)

\* The path is the one that the key k takes.
Starts(k, path) == \A j \in DOMAIN path : path[j] = Slot(k, j - 1)

Spells(k, f) == Starts(k, PathTo(f))

\* The key k belongs in a bucket with prefix q below the path.
Belongs(k, path, q) == Starts(k, path) /\ Covers(q, Slot(k, Len(path)))

\* The item of a key below b bytes of path.
Item(k, b) == [first |-> First(k, b), res |-> Residual(k, b), ent |-> k]

\* The keys k and l agree in their first b bytes.
Agree(k, l, b) == \A i \in 0 .. b - 1 : EncByte(k, i) = EncByte(l, i)

\* The order of keys, by their encodings.
EncLess(k, l) == \E i \in 0 .. Len(l) + 1 : EncByte(k, i) < EncByte(l, i) /\ Agree(k, l, i)

\* The items of a bucket with prefix q below the path are the rests of keys that
\* belong there, in the order of the keys.
Listing(items, path, q) ==
  /\ \A i \in DOMAIN items : /\ items[i] = Item(items[i].ent, Len(path) \div BDIV)
                             /\ Belongs(items[i].ent, path, q)
  /\ \A i, j \in DOMAIN items : i < j => EncLess(items[i].ent, items[j].ent)

ItemsOK ==
  \A n \in nodes : Listing(node[n].items, PathTo(node[n].parent), node[n].prefix)

\* No path goes on behind the last byte of the keys that are below it.
PathsEnd ==
  \A f \in fwds : f # Root => \E k \in Keys : Spells(k, f) /\ Level(f) \div BDIV <= Len(k) + 1

\* A bucket this full is about to be split, or its keys have no bytes left.
FullOK ==
  \A n \in nodes : Count(n) >= SPLITBOUND =>
    \/ Running("split") /\ Top.node = n /\ Count(n) = SPLITBOUND
    \/ \A k \in Ents(node[n].items) : Len(k) + 1 = Level(node[n].parent) \div BDIV

\* The size that a call is given is that of a key which belongs to the bucket.
SizesOK ==
  stack # <<>> =>
    /\ Top.fn = "split" =>
         \E k \in Ents(node[Top.node].items) : Top.size = Len(k) - Top.p \div BDIV
    /\ Top.fn = "merge_down" =>
         \/ \E k \in Keys : /\ Spells(k, node[Top.node].parent)
                            /\ Top.size = Len(k) - Top.p \div BDIV
         \/ Count(Top.node) > MergeBound
         \/ AllSettled(nodes)

\* Whatever splits and merges do, items stay the rests of their keys, in order, below
\* the path that the key takes, and calls are given sizes that serve for all of them.
ContentInv == ~ fault /\ ItemsOK /\ PathsEnd /\ FullOK /\ SizesOK /\ EntriesPointHome

-----------------------------------------------------------------------------
(* Buckets that cannot be split further *)

\* The keys of S have the same slot below a path of p slots.
OneSlot(S, p) == \A k, l \in S : Slot(k, p) = Slot(l, p)

\* All keys of S but one have.
NearlyOneSlot(S, p) == \E k \in S : OneSlot(S \ {k}, p)

\* A bucket this full has keys of one slot only, although its range may be larger (an empty
\* buddy leaves it its slots); while it is split, one that has just come may have another.
SharedInv ==
  \A n \in nodes : Count(n) >= SPLITBOUND =>
    \/ OneSlot(Ents(node[n].items), Level(node[n].parent))
    \/ /\ Running("split") /\ Top.node = n
       /\ \/ Count(n) = SPLITBOUND
          \/ NearlyOneSlot(Ents(node[n].items), Level(node[n].parent))

-----------------------------------------------------------------------------
(* What residuals take *)

\* Bytes that the residuals of these items take in their bucket.
Takes(items) == Room(Lengths(items))

\* The keys of the items whose residuals are on the heap.
Big(items) == {items[i].ent : i \in {j \in DOMAIN items : Len(items[j].res) >= HEAPBOUND}}

OnHeapOf(N, nd) == UNION {Big(nd[n].items) : n \in N}

\* The keys whose residuals are on the heap, in any bucket.
OnHeap == OnHeapOf(nodes, node)

SumsInv == totsize \in [NodeIds -> Int] /\ TotsizeExact

HeapInv == IsFiniteSet(OnHeap) /\ heap = Cardinality(OnHeap)

\* Every bucket takes what its items do, and the heap has one block for each key
\* whose residual is long: what splits and merges compute by differences adds up.
StorageInv == SumsInv /\ HeapInv

=============================================================================
