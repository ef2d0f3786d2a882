# A formal model of ptrie

ptrie is a header-only C++ library: sets and maps of byte strings kept in a
compressed prefix tree (`src/include/ptrie/`). This directory holds TLA+ models
of its core, TLC configurations that check them on small instances, and proofs
about them checked by TLAPS.

## The system

| Part | State | Operations | Where |
|---|---|---|---|
| `ptrie_base` | forwarding nodes (`fwdnode_t`), buckets (`node_t`), blocks on the heap for long residuals | `insert`, `exists`, `erase`; inside them `split_node`, `split_fwd`, `merge_down`, `merge_regular`, `merge_empty`, `readd_byte`; the destructor | `ptrie_internal.hpp` |
| key encoding | none | slots, `first`, residual, lengths recomputed in 16 bits, `memsize` | `ptrie_internal.hpp` |
| unpacking | none | `build_path`, `write_data` | `ptrie_internal.hpp` |
| `linked_bucket_t` | chain of buckets of ids, index over the chain, a current bucket per thread | `next`, `pop_back`, `operator[]`, `size`, the destructor | `linked_bucket.h` |
| `set` | that of `ptrie_base` | `insert`, `exists`, `erase`, iteration | `ptrie.h` |
| `set_stable`, `map` | in addition one entry per key, in a `linked_bucket_t`, that points to the key's bucket | `unpack(index)`, `operator[]`, `get_data` | `ptrie_stable.h`, `ptrie_map.h` |
| iterators | a node and an index | `++`, `--`, `==`, `unpack` | `ptrie_internal.hpp` |
| copying, moving | several objects, each with its nodes and entries | constructors, `operator=`, `clone`, the destructor | `ptrie_internal.hpp` |

A key is encoded as its length in two bytes followed by its bytes, and the trie
consumes this encoding BSIZE bits (a *slot*) at a time. A forwarding node has a
child per slot; an empty slot is a pointer to the node itself. A bucket hangs
below a forwarding node, covers all slots under a bit prefix (`_type` bits of
`_path`), and holds its items in order: two bytes of encoding (`first`) and the
rest of the key (the residual), in the bucket or on the heap. Buckets store
no lengths. Every operation recomputes the length of each item from the depth,
from `first` and from the length of the *key at hand*; a mistake shifts all
items behind it. A full bucket is split, by one more bit of prefix or below a
new forwarding node; a bucket that erasing has made small is merged with its
buddy, up to the root. Entries point back to buckets and must follow.

What is hard here: the sequence of legal calls that leads to a bad shape (there is
one thread per trie, so no interleaving); numbers passed by hand through a
recursion (`on_heap`, `byte`, `bsize`) that describe one key and are used for
others; boundaries at HEAPBOUND, at the two length bytes and at the end of a
key; and pointers kept across a call that may free what they point to.
`linked_bucket_t` is written for several threads and is lock-free: two
compare-and-swap loops, a plain counter that must stay private, readers without
locks. What makes each part correct:

* `ptrie_base`: it is a set; recomputed lengths are the stored ones; the stored
  bytes are those of the key; every heap block is freed once; parents, children
  and prefixes agree; no bucket is empty or needlessly full between operations; all
  recursions end.
* `linked_bucket_t`: ids in use are distinct; each is found through the index; no
  bucket or index node is lost; what readers follow is written once; `next` returns.
* unpacking and copying: the bytes put together from path, `first` and residual are the
  key; lengths are recomputed once more, each time in another way.
* iterators: they see the keys in order, know when they are at the end, and every `++`
  and `--` ends.
* stable sets and maps: the entry of a key points to the bucket that holds it; a key
  keeps its id and its value whatever happens to others; an id leads back to its key; the
  id of an erased key is not given out again.
* objects: nodes and entries have one owner; a copy goes its own way.

## Modules

| Module | Models |
|---|---|
| `KeySet` | what the operations of a set promise, one action each |
| `PTrieEncoding` | key encoding, slots, prefixes, order of items, recomputed lengths |
| `PTrie` | `ptrie_base` and its destructor; refines `KeySet` |
| `PTrieUnpack` | `build_path`, `write_data`, and what `clone` copies of one node; extends `PTrie` |
| `MCPTrie` | instances of `PTrie` and `PTrieUnpack` |
| `PTrieInvariants` | inductive invariants of `PTrie`: `TreeInv`, `ShapeInv`, `LevelInv`, `ContentInv`, `SharedInv` and `StorageInv` |
| `PTrieTreeProofs` | proved: the types of `PTrie`; children, parents and prefixes agree; merges leave no dead branch, no empty and no needlessly small bucket; paths, what `fast_forward` finds, and the levels that calls count by hand |
| `PTrieContentProofs` | lemmas on the data: bits and slots, the order of keys, the search in a bucket, what splits and merges do to items; proved: what buckets hold, recomputed sizes, lookups, entries, and the refinement of `KeySet` |
| `PTrieStorageProofs` | `_totsize`, heap blocks, `unpack` and `clone` are exact, proved |
| `Cursor` | what an iterator promises: a place in an ordered set |
| `PTrieIterator` | `iterator_base`, composed with `PTrieUnpack`; refines `Cursor` |
| `MCPTrieIterator` | instances of `PTrieIterator` |
| `PTrieIteratorProofs` | overfull buckets have keys of one slot only; where `++` and `--` come to rest; comparing with `end()`, proved |
| `StableMap` | what `set_stable` and `map` promise: keys with ids, ids with values |
| `PTrieStable` | `set_stable` and `map`, composed with `PTrieUnpack`: the column of ids in each bucket; refines `StableMap` |
| `MCPTrieStable` | instances of `PTrieStable` |
| `PTrieStableProofs` | ids lead to their keys and back, and the refinement of `StableMap`, proved |
| `ObjectMaps` | what several map objects promise: each is a map of its own |
| `PTrieObjects` | construction, copy, move, assignment and destruction; refines `ObjectMaps` |
| `MCPTrieObjects` | instances of `PTrieObjects` |
| `PTrieObjectsProofs` | ownership of nodes and entries, and the refinement of `ObjectMaps`, proved |
| `LinkedBucket` | `linked_bucket_t` with any number of threads |
| `LinkedBucketSize` | calls of its `size` while the threads go on; extends `LinkedBucket` |
| `MCLinkedBucket` | an instance of the two |
| `LinkedBucketProofs` | invariants of the chain and of the index: private counters, distinct ids; what is published stays, lookups and the destructor are exact, what `size` may answer |
| `Recursion` | when a recursive function satisfies its definition |

### PTrie

The variables are the code's: `fwds` and `nodes` are the allocated addresses, `fwd`
and `node` what is stored at them. `prefix` of a bucket is the sequence of the
`_type` leading bits of `_path`. `totsize` is `_totsize`. `entry[k]` is `_node`
of the entry made for k, and `heap` counts `new_uchar` minus `delete_uchar`.
A byte is a number below `Base` = 2^(BSIZE * BDIV), so that instances with small
bytes run the same code as the real ones (BSIZE * BDIV = 8).

A call is a sequence of steps. The first one does all that `insert` or `erase`
does before it calls `split_node` or `merge_down`. From then on each recursive call is
a step, and `stack` is the call stack. Almost all of these calls are tail calls;
`readd_byte` inside `merge_down` is the exception, and the rest of `merge_down`
after it is `AfterReadd`. The cases of `merge_regular` are `MergeFiner` (the buddy is
split finer), `MergeBuddy` (a bucket of the same size) and `MergeFwd` (a forwarding
node, or empty). The rounds of the loop of `merge_empty` are `Climb`. Checking between
these steps shows more than the asserts of the code, which look at the end of an
operation.

`fault` becomes true where the code would go wrong on memory: a length
it recomputes is not the stored one, a node is used after it was deleted, or an
assert on the sizes at hand fails. Each action computes its lengths from exactly the
numbers its source uses (`Aligned`, `ResidualLen`, `InjectByte`).

`Destroy` is the destructor followed by the construction of a new set; it recomputes
lengths in its own way, from the path. An item's `ent` is its entry, named by the key
it was made for; two entries never share a key because `insert` refuses duplicates.

The model agrees with compiled code: for two sets of keys the shapes of all reachable
idle tries (844 for `KeysBytes`, 1547 for a set of nine keys that move to the heap and
back) were enumerated with the compiled library and with TLC, and are the same sets.

### PTrieUnpack

Nothing here is a step: `Unpack(n, i)` is what `iterator_base::unpack` and `unpack(index)`
read for item i of bucket n, into a destination with room for the key. `PathSizes` is `build_path`, with its cases for
0, 1 and more bytes of path and its 16-bit subtraction; `WriteData` is `write_data`. Where the
offset or the size it was given is not that of the residual, it reads something else, which
the model writes as a number that is no byte. `Copied`, `CopyItems` and `CopiedBlocks` say
which nodes `fwdnode_t::clone` copies, and what `node_t::clone` copies of a bucket.

### PTrieIterator

`it` is `_node` and `_index`; `walk` says where the client is: without an iterator, at rest,
or inside `++` or `--`; `from` is where that call began. `Forward` and `Backward` are one
call of `operator++` and `operator--`, which call themselves after each change of level. Any
operation on the trie ends the iterator (`Operate`): the library promises nothing of an
iterator that survives one. `Overruns` is the place where the loops of `move` leave
`_children`; the steps have its negation as a guard, so that a walk that came there would not end (`WalkEnds`).
It does where BSIZE < 8; see below. The instances have
`BDIV = 1`, so that `Last255`, the 255 of the code, is the last index of `_children`.

### PTrieStable

`column[n]` are the ids that bucket n holds beside its items, and `cells` the list of
entries: the key that each was made for, `_node` and `_data`. As in the code, an id has no
other tie to a key than its place in the column, and every operation moves the column in a
way of its own: `InsertEntry` puts an id in (`WithId`), `EraseEntry` takes one out, the splits
cut the column where the items were cut (`SplitNodeIds`, `SplitFwdIds`, `Halved`), `merge_nodes` puts
two together in the order of the buddies (`MergeBuddyIds`, `JoinedIds`), and `_node` is
redirected by the ids of the column (`Redirected`). `KeepIds` has the steps that
leave each column as it is. `IdsResolve` and the refinement compare the columns with the items.

A `size_t` is `IdSpan` times as wide as an I; with `IdSpan = 2` reading an id also reads the
next one (`Loads`), storing one clears the next one (`WithId`), and `get_data` cuts its argument
down to an I (`ToI`). A `set_stable` is a map without `Assign`. The list is a sequence here because
one thread uses it; that ids index it correctly is `LinkedBucket`'s subject.

### PTrieObjects

What is inside a tree is left to `PTrie`, and what a copied node contains to
`PTrieUnpack!CopyExact`. Here a tree is an address with keys and ids, and an object has
the two members that can be shared by mistake: `root`, the nodes below `_root`, and
`entries`, the `shared_ptr`. `root[o] = Null` is a moved-from object, whose children are
`nullptr`; `Usable` keeps clients from calling it. `Cloned` gives each key the next id in the
order of the tree and copies its entry, `_node` included. Copying to a moved-from object has
no list to take ids from (`CloneKeys`): it works where the original has no key. An assignment frees no
node; `Lost` are the trees that no object owns any more, and `MaxLost` bounds them.

### LinkedBucket

Each thread has a program counter. Steps are the atomic operations of the code:
`Allocate` (up to the loop of `next`), `Link` and `Advance` (a compare-and-swap
that succeeds or fails), `IndexWalk`, `Extend` (the compare-and-swap on `_next`),
`Enter`, `Take` and `PopBack`. Ids that `next` has returned and `pop_back` has not
taken back are in `live`. A spurious failure of
`compare_exchange_weak` loads the value that `tmp` has, so it is a stuttering
step. `Renew` is the destructor, which runs while no thread is inside a call, and the
construction of a new list; what it does not reach goes to `leaked`.
`ptrie_base` itself uses one thread.

### LinkedBucketSize

`size` adds up `_count` of each bucket along the chain. These are plain integers that their owners
change meanwhile, and reading one gives the value before or after a change; `ReadCount` and `Follow` are
one access each, interleaved with the steps of `LinkedBucket`. Two auxiliary variables follow a call:
`since`, the ids in use throughout it, and `seen`, those in use at some time of it.

## Runs

| Run | Instance | What it shows | Distinct states |
|---|---|---|---|
| `deep` | byte of 2 bits, 1 level per byte, 9 keys | lengths, heap, `_totsize`, stored bytes, unpacking | 62 513 |
| `wide` | byte of 4 bits, 2 levels per byte, 9 keys | buddies of all kinds, shape, entries, order, copies, levels passed by hand, the inductive invariants | 50 499 |
| `bytes` | bytes of 8 bits in 4 levels, HEAPBOUND 9, 8 keys | overfull buckets at rest and what their keys share, termination, unpacking, refinement of `KeySet` | 11 955 |
| `iterator` | byte of 3 bits, 1 level per byte, 7 keys | order, ends and termination of iteration, refinement of `Cursor` | 46 294 |
| `stable` | byte of 3 bits, 6 keys, 8 ids | columns of ids and values through splits and merges, refinement of `StableMap` | 42 764 |
| `objects` | 2 objects, 2 keys, 3 trees, 2 lists | ownership, where nodes are lost, refinement of `ObjectMaps` | 96 471 |
| `linked_bucket` | 2 threads, 1 caller of `size`, C = 2, 4 buckets, 4 index nodes | all of `LinkedBucket`, with fairness; what `size` answers while ids come and go | 675 908 |
| `empty_key` | as `deep`, with the empty key | violation of `NoFault` | - |
| `assert_halves` | as `bytes` | violation of `AssertHalvesSmall` | - |
| `iterator_order` | as `iterator` | violation of `IterationLexicographic` | - |
| `narrow_ids` | as `stable`, 3 keys, I half as wide as `size_t` | violation of `PTrieStable!IdsResolve` | - |
| `copied_ids` | as `objects` | violation of `PTrieObjects!IdsResolve` | - |

SPLITBOUND is 6, the least value the code admits. The bounds are chosen so that the
interesting cases happen:

* `deep`: keys that agree in both length bytes and up to two bytes of data, so that buckets
  lose both length bytes and get them back; both values of the high length byte;
  HEAPBOUND 2, so that residuals cross it in both directions.
* `wide`: one-byte keys on both sides of a slot boundary, and a two-byte key.
* `bytes`: four levels per byte, so that a bucket can have SPLITBOUND keys of one slot and rest; parameters the library can be compiled with, `set<uchar, 9, 6, 2>`, and six keys
  that differ only in the last bits of the last byte, plus one that is on the heap.
* `iterator`: six keys of two bytes split a bucket and fill the slots of a second level,
  beside a key of one byte, so that a walk goes up and down; first and last
  children are both used and both empty in some states.
* `stable`: six keys of one length, so that the sixth splits the bucket and an erase merges
  it again. Eight ids (`MaxIds`) let two keys be erased and come back. To keep the
  run small the first three keys come in a fixed order that is not theirs (`Opening`), two
  keys are ever erased (`Erased`) and one is ever written to (`Assigned`); one key is both.
* `objects`: two objects and two ids per list (`MaxIds`); both objects own a tree while a
  third is made (`Trees`), and one tree may be lost (`MaxLost`). Objects and addresses
  are symmetric; the run has no liveness property.
* `linked_bucket`: two threads and four buckets, so that a thread loses the race to
  link more than once, to one that goes on meanwhile; C * C = 4 ids per index node, so that the last two buckets
  need a second node, and four nodes, so that both threads can make one at once. Ids come in front of
  the caller of `size` and go behind it, in a chain that grows to the fourth bucket while it is read.
  More threads at once are what the theorems of `LinkedBucketProofs` are for, which have any number; only
  `NextReturns` rests on the run alone.

`FwdIds` and `NodeIds` bound the addresses. They are large enough that no
reachable state uses all of them, so the guards that name them (`nodes # NodeIds`,
`fwds # FwdIds`) never restrict a run. `Buckets` and `Indexes` of `LinkedBucket` do bound it:
a thread that would need one more does not call `next`, and `pop_back` is always
possible again once ids are in use. The bounds of `PTrieStable` and `PTrieObjects` are
those named above, and addresses of trees and lists. There is no other bound. No run turns deadlock checking off.

### Fairness

`FairSpec` of `PTrie` has weak fairness on `Continue`, the steps inside a call: the
code runs on one thread, and a function that has begun runs on. Nothing
forces a caller to call again. `FairISpec` of `PTrieIterator` has weak fairness on
`Forward \/ Backward`, the calls of the recursion inside a `++` or `--`, for the same reason:
`Increment`, `Decrement`, `BeginIt` and the operations on the trie are the client's choice.
`FairSpec` of `LinkedBucket` has weak fairness on
`Continue(t)` of each thread: the scheduler does not suspend a thread for ever and
`compare_exchange_weak` does not fail spuriously for ever. With a finite chain the
loop in `next` ends: each failure that changes something moves a thread on, or sets
its `tmp` to what it will find.

## Properties

The refinements of `KeySet`, `Cursor`, `StableMap` and `ObjectMaps` are labelled: each says of every
operation which action of the abstract specification its step is, with the same key, and of all
other steps, those inside splits and merges or inside a `++`, that the abstract value stays as it is.
So a `++` that stays, a write to the wrong key or a key lost in a merge violates them.

`PTrie`: `NoFault` (lengths, dangling nodes), `LookupsExact` (exists answers for exactly
the stored keys, also in the middle of splits and merges), `ItemsEncodeKeys`,
`EntriesPointHome`, `BucketsSorted`, `TreeWellFormed`, `HeapExact`, `TotsizeExact`,
`BucketsBounded`, `SharedInv` (a bucket with SPLITBOUND keys or more that is not being split has
keys of one slot only), `NoBarrenFwd`, `CallsReturn`, and `ImplementsKeySet`, a refinement whose
abstract value, `Contents`, is read off the tree: an insert or erase changes it by its own key in
the one step that moves the item, and no split or merge step changes it.

Two properties are about code that passes numbers by hand which are outdated.
`MergeEmptyAtRoot`: the loop of `merge_empty` ends in its first round, below the
root, because a bucket that covers all slots of another forwarding node takes that
node's place as soon as it has SPLITBOUND / 3 items, long before it is empty. (`src/test/delete.cpp:345-350` says that its keys drive "merge_empty's
upward collapse loop"; by the theorem `LastBucketBelowRoot` no sequence of calls does. That
matters since the loop gets `on_heap` one level too late when BDIV > 1, lines 1532-1534.)
`ByteIsLevel`: the second `merge_down`, lines 1785-1788, has the `on_heap` and `byte` of
before; it may find two buckets to join, but it never gets to `readd_byte` with them, the one
place where they matter.

`PTrieUnpack`: `UnpackExact`, what unpacking reads is the key that was inserted, for each item of
each bucket; `CopyExact`, `clone` copies all items, finds every residual, allocates
as many blocks as the destructor of the copy will free, and copies no node twice.

`PTrieIterator`: `EqualityExact`, comparing with `end()` tells the end and nothing else, although
`operator==` takes any two places of forwarding nodes at an edge for equal;
`WalkEnds`; `ImplementsCursor`, each `++` ends at the next and each `--` at the previous
key in the order of the encoding (shorter keys first), over all levels. That this is not the order of
strings is `IterationLexicographic`, which the code does not have (below).

`PTrieStable`: `IdsResolve`, the id of an item is the one that `exists` answers, and
`find_metadata` and `unpack(index)` lead from it back to the item, also between the steps of a
split or merge; `ImplementsStableMap`, nothing a client does to one key changes the id or the
value of another, and no split or merge moves an id to another key. In the model, as in the code, a key that was erased and comes back
has a new id and a default value.

`PTrieObjects`: `OwnedOnce`; `LostByAssignOnly`; `ImplementsObjectMaps`. Assigning to an object
that has nodes, by copy or by move, never frees them (lines 539-577): they are lost, and
`LostByAssignOnly` says that this is the only way to lose any. `ImplementsObjectMaps` shows that
what is lost is not seen again, and that the values of a copy follow their keys through the
renumbering of ids.

`LinkedBucket`: `FreshIds`, `OwnBuckets`, `LookupsHome`, `NothingLeaks`,
`PublishedStays`, `NextReturns`. Readers run without locks; `PublishedStays` is the reason
that `IndexToBucket` and `ChainToBucket` may be evaluated in one state. It says nothing of
counts, so `size` is interleaved (`LinkedBucketSize`): `SizeBetween` says that it counts every id that was in
use during the whole call and none that was not in use at any time of it. A call that overlaps with `next` and
`pop_back` may answer a number that was never the size; one that does not is exact.

Every property of a passing run has a mutant in the module it is about (a definition with
`Mutant` in its comment) that TLC refutes.

## What was found

1. **The empty key** (`empty_key`). Below one byte of path the code rebuilds an
   item's length as "high byte of the key at hand, low byte from `first`, minus 1" in
   `uint16_t`. For the empty key that is 0 - 1 = 65535, and `split_node` (1110),
   `split_fwd` (879-882), `bucket_search` (741-743), `insert` (1359-1361) and `erase`
   (1809-1813) take it for a residual on the heap. The empty key is legal
   (`src/test/set.cpp:35`). With `set<uchar, 9, 6, 2>`, inserting it and five one-byte keys
   crashes a release build.
2. **The assert that ends `split_node`** (`assert_halves`). Line 1204 allows a full half
   only at `max(bsize, 0) + 1 == p_byte / BDIV`. An overfull bucket of exhausted keys
   can take over the slots of an empty buddy (1708-1716), and the next insert
   splits it again, with bsize = -1. `set<uchar, 9, 6, 2>`: insert the bytes 0..5 and 64, erase
   64, insert 64; a debug build aborts. A release build goes on correctly (`bytes`
   passes on the same keys).
3. **An index type narrower than `size_t`** (`narrow_ids`). Ids are kept as I in a bucket but
   stored and read as `size_t` (1226, 1248, 1346, `ptrie_stable.h:100`): `exists` answers
   with the neighbour's id in the upper half, and storing an id clears the next one.
4. **Ids of a copy** (`copied_ids`). `node_t::clone` copies each entry with its `_node` (665),
   so that entries of a copy point to buckets of the original. With a `set_stable` of
   9, 1, 5, 7: in a copy `exists(9).second` is 3 and `unpack(0)` returns 9. When the original
   is gone, `unpack(index)` of the copy reads freed memory.
5. **The order of iteration** (`iterator_order`). `src/.github/copilot-instructions.md:57` says
   "Iteration is byte-lexicographic". The length bytes are consumed first (1260), so that it is by
   length first: 7 comes before 0 1.

Not shown by a run: the empty key reaches the same subtraction in `clone` (653). The loops of `move` run to 255
whatever `WIDTH` is (104, 114-116), over an array of `WIDTH` pointers: with BSIZE = 2 or 4, which line 256
admits, `begin()` on an empty trie reads behind it (`Overruns`).
`operator*` of an iterator (195-200) has room for one `key_t` and unpacks as many as the key has, so
that it writes past it for keys of several elements; and the overload of
`iterator_base::unpack` that fills a vector (229-239) calls `write_data` with
too few arguments, so that it does not compile where it is used. Copy assignment to a moved-from map hands
`clone` no list of entries (574), and it dereferences a null pointer (663-664) when the original has a key.

## Proofs

`PTrieTreeProofs!Typing` is `Spec => []TypeOK` for every BSIZE > 1, BDIV, SPLITBOUND >= 6, HEAPBOUND,
set of keys and set of addresses (`EncodingAssumption`, `PTrieAssumption`, which are the
`static_assert`s, that lengths fit in two bytes, and that buckets have finitely many addresses).
`TypeOK` says more than shapes: children are nodes or null, the parent of every forwarding
node but the root is one, prefixes are no longer than BSIZE, the residual of an item is
made of bytes, and the arguments of every pending `split_node` and `merge_down` are
nodes. It is inductive as it stands, and there is one lemma per action. What carries the proof are
the lemmas on slots and prefixes (`PrefixTypes`), on the index of a search and the
number of low items (`PositionCount`, `BucketSearchIndex`: both lie within the
bucket, so that items are cut where there are items), and on updates of forwarding nodes
(`FwdUpdate`, `FwdReplace`). Nothing is said here about the value of recursive walks
(`FastForward`, `Dist`, `GetByte`): `Located` states what the loop of `fast_forward` has
established where it ends, the actions have it as a guard, and that it always holds is proved in
the second half of the module (`Places`).

`PTrieTreeProofs!TreeHolds` is `Spec => []TreeInv`, and `ChildrenAndParents` is `TreeWellFormed`.
`TreeInv` adds to `TreeWellFormed` the types, that no forwarding node is its own parent, what is
left at freed addresses (`DeadOK`), and that the call in progress refers to live nodes
(`CallsOK`), except for a `merge_down` that waits for `readd_byte`, whose bucket may be gone.
Every step that changes children is an instance of one of three lemmas: a range of slots gets
another bucket (`PutStep`), a forwarding node takes the place of a bucket (`BranchStep`), or a bucket
that of its parent (`ReaddByteTree`). The lemmas on prefixes they need are that two ranges are
nested or disjoint (`Nested`), that the halves of a range are those of its prefix with one more bit
(`Halves`), and that a prefix with its last bit inverted is the other half (`BuddyRange`).

`PTrieTreeProofs!ShapeHolds` is `Spec => []ShapeInv`. `NoBarrenFwd` and `MergeEmptyAtRoot` say
something of states between calls, and of the one state in which the last bucket goes; what makes them
true is what a finished merge has achieved. A bucket is `Settled` when `merge_down` would
leave it where it is: it has more than SPLITBOUND / 3 items, or its range cannot grow because
its parent has something else in the other half (`Alone` is the opposite), and two buddies have more than
that together. `Phases` says that all buckets are settled between calls and in a split, and what is not yet
settled inside a merge: only the bucket that the merge is about (`Growing`), or none, when
the calls that are left only join buckets that are finer than the one the waiting calls are about
(`Finishing`). An empty bucket below another forwarding node than the root is then never `Alone`, so that
removing it leaves its parent something (`Removable`, `Leads`), and since its buddy has
at least SPLITBOUND / 3 items, widening the buddy's range settles it. `NextShape` has one
lemma per action.
`ForwardingNodesLead` (`NoBarrenFwd`) and `LastBucketBelowRoot` (`MergeEmptyAtRoot`) follow. `TreeInv`,
`ShapeInv` and `ContentInv` (below) are invariants of the run `wide`, where TLC checked them before they were proved.

`PTrieTreeProofs!PathsHold` is `Spec => [](PathInv /\ LevelInv)`, and `LevelsAgree` is `ByteIsLevel`. `PathTo`, the path to
a forwarding node, is a recursive function; it is what its definition says as long as
there is some function that satisfies it (`PathInv`, `PathsUnique`). Every step keeps parent and path of the
forwarding nodes that stay, and puts new ones below old ones (`KeepPlaces`), so that it extends that
function (`PathStep`). `LevelInv` says which level the call in progress has been given. In the second `merge_down` of `merge_down`
it is the level of before; `ShapeInv` shows that this call stops before it comes to
`readd_byte`. On the way, the loop of `fast_forward` is shown to end where the path of its key leaves the forwarding
nodes (`FastForwardAt`, `FastForwardEnds`, through `Recursion!Recursive`), and `dist_to` to count the
same levels (`DistIsLevel`).

`PTrieContentProofs!ContentsHold` is `Spec => []ContentInv`, for every set of keys that does not contain
the empty one, which breaks it (see `empty_key`). `ContentInv` joins what an operation needs to
know of the data. Items are the rests of their keys, below the path that their keys take
and in the order of their encodings (`ItemsOK`); they say nothing of how they were made, so splits and
merges only have to show that they move an item to where it would have been made. No path goes on behind the
last byte of the keys below it (`PathsEnd`): then a bucket whose keys still have bytes is never split with
`bsize` below -1. A bucket with SPLITBOUND items is being split or its keys have no bytes left (`FullOK`).
The size that a call hands on is that of a key of the bucket (`SizesOK`): one that was just
inserted for `split_node`; for the merges one that is perhaps no longer stored but has the path of
those that are. This is enough since keys with the same path agree in as many bytes
(`StartsAgree`), so that what is rebuilt from the high length byte of the one and the `first` of the
other, or from the length of the one, is the length of the other (`SizeFits`, `LengthIs`, `ListsLengths`).
Below two bytes of path, both lengths come from `first` (`EncBytes`).

The first half of the module has what this rests on, with no step in it. Numbers and bits: a byte is
told by its slots, and its order is that of the first bit that differs (`SlotsTell`, `SlotOrder`). The order of
`bucket_search`, by the value of `first` and then by bytes, is that of the encodings for keys with the
same path (`ItemOrder`), and it is a strict total order (`LessTrans`, `LessTotal`), so
that the search, which stops at the first item that is not smaller, finds the key or its place (`Search`). The
items with a 0 in the next bit are the leading ones (`ListsHalves`); `split_fwd` makes of an item
what `insert` would make one byte further down (`ListsDown`, `CutIs`), and `inject_byte` the opposite
(`ListsBack`), with the byte that `get_byte` puts together from the path (`GetByteIs`); `merge_nodes` keeps the order
(`ListsJoin`). Bits are not counted by a sum: a number is compared by quotients
(`HalfQuotient`, `LeadingBits`).

From `ContentInv` follow `NothingFails` (`NoFault`), `ItemsHold` (`ItemsEncodeKeys`), `OrderHolds`
(`BucketsSorted`), `EntriesHold` (`EntriesPointHome`), `LookupsHold` (`LookupsExact`) and, with `ShapeInv`, `BoundsHold`
(`BucketsBounded`). `TrieImplementsKeySet` is the refinement, `Spec => ImplementsKeySet`: what is found at
the ends of the keys' paths is what has an entry (`ContentsAreStored`), and the entries change as
the set does, in the first step of an insert or an erase and in the destructor, and in no step of a split or merge.

`PTrieStorageProofs` proves what rests on `ContentInv` and adds up over items. A bucket has its residuals
one after the other without their lengths, so that every offset and every size is a sum (`Room`). The
sum is a fold, and the fold of the library a recursive function; `RoomSums` shows, by `Recursion!Recursive`
and `Induct`, that it has partial sums, and that one more residual, or two sequences put
together, take what one expects (`RoomMore`, `RoomConcat`). `StorageHolds` is `Spec => []StorageInv`:
`_totsize` of each bucket is what its items take, and `heap` is the number of keys whose residuals
are on the heap (`OnHeap`). Counting keys instead of items makes the steps sets: an insert adds the key, an
erase removes it, a split or join that cuts nothing shares them out anew (`ShareStorage`). `split_fwd`
takes the keys away whose residuals have just HEAPBOUND bytes before the cut (`Freed`, `CutBig`), of which it
counts as many (`FreedCount`). For the upper half it adds up `lengths[i] - to_cut` without the guard that the
lower half has, and only the sum is cut off at 0 (`SizeOfUpper`); that is no error, as in a slot of one byte either all
keys have a residual to cut, or none has one (`AllOrNone`), and both sums are then those of the items
(`SizeOfUpperCut`, `RoomClamped`); `readd_byte` is the same cut, backwards (`InjectCuts`,
`PutBackStorage`). No other bucket has these keys, since entries point to one bucket (`BigHome`).
The destructor reaches all buckets and rebuilds the lengths of what it frees (`VisitedIs`,
`DestroyStorage`). `TotsizeHolds` (`TotsizeExact`) and `HeapHolds` (`HeapExact`) follow.

`UnpackHolds` (`UnpackExact`): the size that `build_path` puts together is the length of the key
(`SizeFromIs`); the lengths of the items before, whose high byte it takes from the item at hand, are right for
the offset when the key has a residual, and are not used otherwise (`PathSizesAre`).
`CopyHolds` (`CopyExact`): the lengths that `clone` rebuilds are those of the destructor. That it copies
no bucket twice is because the slots under a prefix are next to each other in `_children`
(`SlotsNext`, by quotients of the indexes).

`LinkedBucketProofs`: `Invariance` proves the inductive invariant `Inv`, for any number of
threads, buckets and any C: the ranges of ids of two linked buckets are disjoint
(`Disjoint`), a link leads to the bucket with the next range (`Links`), a bucket without a
successor has the last range (`LastIsHighest`), and a bucket that is not linked yet has the range that
follows the bucket it will be linked behind (`Unlinked`). These four depend on each other:
`Link` needs `Unlinked` and `LastIsHighest` to keep `Disjoint`, and `Advance` needs `Links` to keep
`Unlinked`. `LiveCounted` ties the ids in use to the counters. `Typing` (TypeOK),
`PrivateCounters` (`OwnBuckets`) and `IdsAreFresh` (`FreshIds`) follow. The assumption is
`LinkedBucketAssumption` (the distinguished addresses are distinct, C is at least 1).
`Renew` starts all of it again (`RenewInv`).

In the second half of the module `PublishedForGood` proves `PublishedStays`. For the chain this follows
from `Inv`: `Link` writes where `Links` and `LastIsHighest` leave only null. For the index
it needs that no entry is written twice, which depends on all that a thread has done before.
The invariant `TableInv` numbers the index nodes: node x has a base, the number of the
first id that it is for, and the node behind it has the base plus C * C (`Levels`, `Spread`). A
thread on its way to enter a bucket holds the offset of the bucket as the base of where it is plus
`id` (`Numbered`), and the node it brings to extend the index is not in the index yet
(`Spare`). Two buckets for one entry would then hold ids from the same C, and `Disjoint`
forbids it.

Then comes what readers find. `LookupsFind` (`LookupsHome`) adds to `TableInv` that each
linked bucket is in the index unless a thread is on its way to enter it (`Entered`), and to the chain
that offsets are multiples of C (`ChainInv`); a bucket that is not entered yet has counted
no id. `SizesBetween` (`SizeBetween`): of any set of ids in use throughout a call, those that are below the place
that the call has come to (`Limit`) are no more than it has counted, and of those in use at some
time no fewer (`Counting`). The steps of the threads keep this since linked buckets keep their
offsets, and reading one `_count` does since the ids of a bucket that are in use are as many (`OneBucket`). `NoLeaks` (`NothingLeaks`): buckets and index nodes are linked in the order of
their offsets and bases, so that the loops of the destructor reach all of them (`FreeLoopReaches`).

`LookupsFind` and `NoLeaks` are about loops along pointers, which the model writes as recursive functions. TLA+
defines such a function as one that satisfies its equation, if there is one. `Recursion!Recursive`
shows that there is one whenever each value uses values at lower ranks only (`Descends`); its
proof is an induction over sets of numbers (`Induct`), since theorems with an operator as a
parameter cannot be used. The rank is the rest of the id for the lookups, and the number of
buckets or index nodes ahead for the others (`Ahead`).

`PTrieObjectsProofs`: `Ownership` (`OwnedOnce`) and `LossIsByAssignment` (`LostByAssignOnly`), for any
number of objects, addresses and keys. `OwnedOnce` speaks of objects that are alive; it is
inductive with `Addresses` and `DeadOwnNothing` (a constructor starts from nothing), which
together are `OInv`. The assumption is `ObjectsAssumption`: null is no address, and keys are
integers, so that they have an order.

`PTrieObjectsProofs!MapsOfTheirOwn` is `OSpec => ImplementsObjectMaps`, the labelled refinement: the value of
an object in `ObjectMaps` is `Seen`, what its keys lead to through `tree` and `list`. A step on one object
must not be seen in another, which is `OwnedOnce`, and an address that is used again must show
nothing of its past (`Blank`: what is freed is empty). `Assign` writes to one entry and must
change one key, so the ids of an object are distinct and within its list (`IdsValid`). A copy
gives a key the number of keys before it (`Rank`), and writes to that place of the new list the entry of
`KeyAt` of that number; `Ranks` is the lemma that the two are inverse to each other.
These parts are `RInv`; each operation has one lemma that preserves it and maps the step.

`PTrieStableProofs` is about ids, for every set of keys without the empty one and for an I as wide as a
`size_t` (`IdSpan = 1`; with a narrower one the claim is false, see `narrow_ids`). The invariant
`ColumnsInv`, beside those of the trie, is that the column of each bucket is as long as its items,
and that the entry under each id of it was made for the key of the item at the same place and points to the bucket.
Since a key is in one place (`OneItem`), no id is in two (`OneId`). The invariant says nothing of how columns are
moved; that every step moves ids and items alike is `Carried`: each item behind a step was
somewhere before it with the id that it has (`From`). `CarriedStep` is that this keeps what the client sees and, with the entries
redirected to where the ids went (`RedirectedStep`), `ColumnsInv`. One lemma per step shows it: the places at which
`split_node` and `split_fwd` cut the items are those at which they cut the column (`HalvedStep`), `merge_nodes` puts both in the
same order (`MergeBuddyIdsStep`), and an insert or an erase changes both at the same index (`InsertStep`,
`EraseStep`). `IdsHold` (`IdsResolve`) joins `ColumnsInv` with `ContentInv`: the entry points to the bucket that holds the key, where
the loop of `find_metadata` meets no other item with this id. `TrieImplementsStableMap`
(`ImplementsStableMap`) labels each step with the operation it is: what `StableMap` shows of a key is the id beside its
item and the value under it (`IdsSeen`, `DataSeen`).

`PTrieIteratorProofs!EqualityHolds` is `ISpec => []EqualityExact`. `operator==` takes any two places
of forwarding nodes at or behind index 255 for equal, also when the right operand is an item of that index, so
the claim needs that no bucket ever has as many items as a byte has values. That is
not bounded by SPLITBOUND, because a bucket whose keys have no bits left is not split. `SharedHolds` is
`Spec => []SharedInv`: a bucket with SPLITBOUND keys or more that is not being split has keys that agree
in the next slot too, so that they differ at most in what follows it in the last byte (`FewKeys`, by `PowersGrow`
and `SlotMisses`), and there are fewer of those than a byte has values (`RestingCounts`). While
it is split one key may be an exception, the one that just came (`NearlyOneSlot`): this is what makes `SharedInv`
inductive, since both halves of a split are then either small or of one slot. A
merge joins only what is small (`MergingSmall`), and `split_fwd` and `readd_byte` move whole buckets.
`CursorHolds` (`CursorInv`) says where a client can be: at a forwarding node that is allocated on the way, and at an item,
in front of the first or behind the last one when it rests; it is inductive while the trie stays
as it is. `CursorHolds` and `EqualityHolds` need `SPLITBOUND <= Base`, that is SPLITBOUND <= 256, and
keys that are not empty. With a larger SPLITBOUND a bucket may have an item of index 255 without being
split, which is one of the hazards listed in `PROJECT.json`.

Model-checked only: liveness (`CallsReturn`, `NextReturns`, `WalkEnds`), which rests on fairness and
on ENABLED, and the order of iteration (`ImplementsCursor`), whose proof would need, beyond `CursorInv`,
the order of all keys of the tree from their places. The invariants that theorems
state are checked in runs, too, or their consequences are: `StorageInv` is
`TotsizeExact` and `HeapExact`, which the run `deep` checks in all states, and `ColumnsInv` and `CursorInv`
are what `IdsResolve` and `EqualityExact` rest on.

## Not modelled

* The byte-wise memory helpers (`ptrie_memory.hpp`): the models work on the values they
  load and store, and keep no state of their own.
* Keys of more than one byte per element, which are split into bytes by the helpers above.
* Keys of 65536 bytes, whose length wraps to 0, and anything that needs more than 255 items
  in a bucket (SPLITBOUND > 256) or 256 sizes in `readd_sizes` (SPLITBOUND > 771).
* Use of a moved-from trie, which dereferences null pointers; so does copying a map that has keys to one
  (it has no list of entries).
* `operator*` of an iterator on keys of several elements, and the overload of `unpack` that fills a vector.
* The order in which the allocator hands out addresses: the first free one here, except in
  `PTrieObjects`, where it is any.
* Memory order other than sequential consistency. The atomic variables of `linked_bucket_t` have the default
  order everywhere; `_count` of a bucket and the entries `_index[...]` of an index node are not atomic at all.
  An entry is written once, by the thread that appended the bucket, before `next` returns an id of it; a thread
  that looks the id up has got it from that thread by some synchronisation of the client's, which orders the two.
  Threads that extend the index follow the atomic `_next` and write their own entries only.
  `size` races with the owners of the counters it reads: the model lets it read the value before or after
  a change, which is what a load of a machine word gives.
* Exceptions from allocation; the code does not handle them.

Tests, benchmarks, the example and build files have no model.

## Plan

Done, in this order: `PTrieEncoding`, `PTrie` with `KeySet`, its instances,
`LinkedBucket`, `LinkedBucketProofs`, typing of `PTrie`; `PTrieUnpack`; `PTrieIterator`
with `Cursor`; `PTrieStable` with `StableMap`; `PTrieObjects` with `ObjectMaps`, and its
proofs; the destructor of `LinkedBucket`; what its readers and its destructor rely on; `size` interleaved
with its threads (`LinkedBucketSize`); the column of ids in `PTrieStable`; labelled refinements.

Proved since: the tree, its shape and paths (`PTrieTreeProofs`), its contents
(`PTrieContentProofs`) with the refinement of `KeySet`, its sizes, heap blocks, `unpack` and `clone`
(`PTrieStorageProofs`), ids and the refinement of `StableMap` (`PTrieStableProofs`), overfull buckets
and the ends of iteration (`PTrieIteratorProofs`), the refinement of
`ObjectMaps` (`PTrieObjectsProofs`), and all safety properties of `LinkedBucket`.

What could be proved next is the order of iteration (`ImplementsCursor`).
