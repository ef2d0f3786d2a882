------------------------------- MODULE PTrie -------------------------------
(***************************************************************************)
(* ptrie_base: the trie behind ptrie::set, set_stable and map, as the      *)
(* pointer structure the code builds.  Forwarding nodes (fwdnode_t) branch *)
(* on BSIZE bits; buckets (node_t) hang below them and hold sorted items.  *)
(* An operation on the set is one step up to the point where it calls      *)
(* split_node or merge_down, and from there one step per recursive call;   *)
(* `stack' is the call stack of those calls.                               *)
(***************************************************************************)
EXTENDS PTrieEncoding, FiniteSets, SequencesExt

CONSTANTS SPLITBOUND,       \* a bucket this full is split
          Root,             \* &_root
          FwdIds, NodeIds,  \* addresses of forwarding nodes and of buckets
          Null

ASSUME PTrieAssumption ==
  /\ SPLITBOUND \in Nat /\ SPLITBOUND >= 6
  /\ Root \in FwdIds
  /\ FwdIds \cap NodeIds = {} /\ Null \notin FwdIds \cup NodeIds
  /\ IsFiniteSet(NodeIds)

VARIABLES fwds,     \* the forwarding nodes that are allocated
          fwd,      \* what they hold: parent, path, children
          nodes,    \* the buckets that are allocated
          node,     \* what they hold: prefix (_type, _path), parent, items
          totsize,  \* _totsize of the buckets
          entry,    \* _entries[..]._node of the entry made for each stored key
          heap,     \* residuals on the heap, new_uchar minus delete_uchar
          stack,    \* calls in progress, innermost first
          fault     \* a size did not match the data, or a dead node was used

vars == <<fwds, fwd, nodes, node, totsize, entry, heap, stack, fault>>

Children == FwdIds \cup NodeIds \cup {Null}
Fwd == [parent : FwdIds \cup {Null}, path : Slots, children : [Slots -> Children]]
Items == [first : Byte \X Byte, res : Seq(Byte), ent : Keys]
Node == [prefix : SlotPrefixes, parent : FwdIds, items : Seq(Items)]

\* The arguments of split_node and of the merges, and where merge_empty's loop is.
Splits == [fn : {"split"}, node : NodeIds, fwd : FwdIds, size : Int, p : Nat]
Merges == [fn : {"merge_down", "after_readd"}, node : NodeIds, fwd : {Null},
           size : Int, p : Int]
Climbs == [fn : {"climb"}, node : {Null}, fwd : FwdIds, size : Int, p : Int]
Frames == Splits \cup Merges \cup Climbs

\* What is left at an address that is not allocated.
DeadFwd == [parent |-> Root, path |-> Pad(<<>>), children |-> [s \in Slots |-> Null]]
DeadNode == [prefix |-> <<>>, parent |-> Root, items |-> <<>>]

EmptyRoot == [parent |-> Null, path |-> Pad(<<>>), children |-> [s \in Slots |-> Root]]

-----------------------------------------------------------------------------
(* Reading the trie *)

\* The loop of fast_forward: where the path of k leaves the forwarding nodes.
FastForward(k) ==
  LET walk[x \in FwdIds \X Nat] ==
        LET next == fwd[x[1]].children[Slot(k, x[2])]
        IN  IF next \in FwdIds \ {x[1]} THEN walk[<<next, x[2] + 1>>]
            ELSE [fwd |-> x[1], base |-> next, p |-> x[2]]
  IN  walk[<<Root, 0>>]

\* bucket_search: where k is, or belongs, in `items' below b bytes of path; `ok'
\* says that the offsets it computes on the way are those of the items.
BucketSearch(k, items, b) ==
  LET f == First(k, b)
      r == Residual(k, b)
      Passed(i) == ItemLess(items[i].first, items[i].res, f, r)
      index == 1 + Cardinality({i \in DOMAIN items : \A j \in 1 .. i : Passed(j)})
      size(i) == IF items[i].first = f THEN Positive(Len(k) - b)
                 ELSE ResidualLen(b, Len(k), items[i].first)
  IN  [index |-> index,
       found |-> index <= Len(items) /\ items[index].first = f /\ items[index].res = r,
       ok    |-> \A i \in DOMAIN items :
                   i <= index /\ ~ FirstLess(f, items[i].first) => size(i) = Len(items[i].res)]

\* best_match: the place and the index of k, and whether k is there.
BestMatch(k) ==
  LET pos == FastForward(k)
      hit == IF pos.base \in NodeIds
             THEN BucketSearch(k, node[pos.base].items, pos.p \div BDIV)
             ELSE [index |-> 1, found |-> FALSE, ok |-> TRUE]
  IN  [fwd |-> pos.fwd, base |-> pos.base, p |-> pos.p,
       index |-> hit.index, found |-> hit.found, ok |-> hit.ok]

\* What holds where the loop of fast_forward ends.
Located(k, m) ==
  /\ m.fwd \in FwdIds /\ m.p \in Nat
  /\ m.base = fwd[m.fwd].children[Slot(k, m.p)]
  /\ m.base \in {m.fwd} \cup NodeIds

\* dist_to(&_root).
Dist(f) == LET dist[g \in FwdIds] == IF g = Root THEN 0 ELSE 1 + dist[fwd[g].parent]
           IN  dist[f]

\* get_byte: the byte spelt by the paths of f and the BDIV - 1 nodes above it.
GetByte(f) ==
  LET up[i \in 0 .. BDIV - 1] == IF i = 0 THEN f ELSE fwd[up[i - 1]].parent
  IN  {y \in Byte : \A i \in 0 .. BDIV - 1 : SlotTable[y][BDIV - 1 - i] = fwd[up[i]].path}

\* The lengths an operation computes for items are those the items have.
Aligned(items, b, size) ==
  \A i \in DOMAIN items : ResidualLen(b, size, items[i].first) = Len(items[i].res)

\* Mutants: merges wait for an emptier bucket; splits for a fuller one, or they are not
\* done again when a bucket that could not be split gets another item.
MergeBoundSmall == SPLITBOUND \div 8

FullLate(count) == count > SPLITBOUND

FullOnce(count) == count = SPLITBOUND

\* Buckets this small are merged, and this many items are split.
MergeBound == SPLITBOUND \div 3

Full(count) == count >= SPLITBOUND

\* Bytes that residuals of these lengths take in a bucket.
Room(lengths) == FoldLeft(LAMBDA sum, d : sum + Bytes(d), 0, lengths)

\* Mutant: the sizes before the cut.
SizeOfUncut(items, b, size, cut) ==
  Room([i \in DOMAIN items |-> ResidualLen(b, size, items[i].first)])

\* Bytes the items take after `cut' bytes are cut off their residuals, by the
\* lengths an operation computes.
SizeOf(items, b, size, cut) ==
  Room([i \in DOMAIN items |-> Positive(ResidualLen(b, size, items[i].first) - cut)])

\* The same where split_fwd adds up the upper half: there it is the sum that is kept from
\* being negative, and not each length.
SizeOfUpper(items, b, size, cut) ==
  Positive(Room([i \in DOMAIN items |-> ResidualLen(b, size, items[i].first) - cut]))

\* Mutant: off by one.
BlocksFreedLate(items, b, size) ==
  Cardinality({i \in DOMAIN items : ResidualLen(b, size, items[i].first) = HEAPBOUND + 1})

\* Of these items, those whose residual leaves the heap when its first byte is cut off.
BlocksFreed(items, b, size) ==
  Cardinality({i \in DOMAIN items : ResidualLen(b, size, items[i].first) = HEAPBOUND})

\* The number of leading items that have a 0 in bit i of slot r of byte h of `first'.
LowCount(items, h, r, i) ==
  Cardinality({x \in DOMAIN items :
                 \A y \in 1 .. x : SlotTable[items[y].first[h]][r][i] = 0})

Ents(items) == {items[i].ent : i \in DOMAIN items}

\* Mutant: the entries keep the bucket they had.
OwnNone(n, items) == entry

\* The bucket n becomes _node of the entries of these items.
Own(n, items) == [k \in Keys |-> IF k \in Ents(items) THEN n ELSE entry[k]]

\* What is in the slots that differ from those of n in the last bit of its prefix.
BuddyOf(n) == fwd[node[n].parent].children[Pad(Buddy(node[n].prefix))]

\* Mutants: the items of the other bucket always go last, and the last one is forgotten.
JoinedLast(q, x, y) == x \o y

JoinedShort(q, x, y) == IF Last(q) = 1 THEN y \o Front(x) ELSE x \o Front(y)

\* The items of two buddies in order, x being the one with prefix q.
Joined(q, x, y) == IF Last(q) = 1 THEN y \o x ELSE x \o y

\* Mutant: a bucket never grows.
CanGrowNever(n, q) == FALSE

\* The bucket n can grow over all slots under the prefix q.
CanGrow(n, q) ==
  /\ BuddyOf(n) = node[n].parent
  /\ \A s \in Slots :
       Covers(q, s) => fwd[node[n].parent].children[s] \in {node[n].parent, n}

\* The children of f with those under prefix q replaced by c.
Put(f, q, c) == [s \in Slots |-> IF Covers(q, s) THEN c ELSE fwd[f].children[s]]

\* The children of f with every occurrence of n replaced by c.
Swap(f, n, c) == [s \in Slots |-> IF fwd[f].children[s] = n THEN c ELSE fwd[f].children[s]]

FreshNode == CHOOSE n \in NodeIds : n \notin nodes

FreshFwd == CHOOSE f \in FwdIds : f \notin fwds

-----------------------------------------------------------------------------
(* Calls *)

Frame(fn, n, f, size, p) == [fn |-> fn, node |-> n, fwd |-> f, size |-> size, p |-> p]

Top == Head(stack)

Running(fn) == ~ fault /\ stack # <<>> /\ Top.fn = fn

\* Every recursive call of split_node is a tail call, and so are most of merge_down.
Become(frame) == stack' = <<frame>> \o Tail(stack)

Return == stack' = Tail(stack)

\* Mutant: the level is counted down where only the range of a bucket has grown.
MergeDownUp(n) == Become(Frame("merge_down", n, Null, Top.size, Top.p - 1))

MergeDown(n) == Become(Frame("merge_down", n, Null, Top.size, Top.p))

-----------------------------------------------------------------------------
(* insert *)

\* The part of insert after the bucket n is found or made, `old' being what it
\* holds: the new item goes to its place, and a full bucket is split.
AddItem(k, m, n, old, oldsize) ==
  LET b == m.p \div BDIV
      new == [first |-> First(k, b), res |-> Residual(k, b), ent |-> k]
  IN  /\ node' = [node EXCEPT ![n] = [old EXCEPT !.items = InsertAt(old.items, m.index, new)]]
      /\ totsize' = [totsize EXCEPT ![n] = oldsize + Bytes(Positive(Len(k) - b))]
      /\ entry' = [entry EXCEPT ![k] = n]
      /\ heap' = IF Len(k) - b >= HEAPBOUND THEN heap + 1 ELSE heap
      /\ fault' = ~ (m.ok /\ Aligned(SubSeq(old.items, 1, m.index - 1), b, Len(k)))
      /\ stack' = IF Full(Len(old.items) + 1)
                  THEN <<Frame("split", n, m.fwd, Len(k) - b, m.p)>>
                  ELSE <<>>

\* The bucket made for an empty slot s of f takes the largest aligned range of
\* empty slots around s; `bit' is the length of the range's prefix.
FreeRange(f, s, bit) == \A t \in Slots : Covers(SubSeq(s, 1, bit), t) => fwd[f].children[t] = f

InsertInNewBucket(k) ==
  /\ stack = <<>> /\ ~ fault
  /\ nodes # NodeIds
  /\ LET m == BestMatch(k)
         s == Slot(k, m.p)
         n == FreshNode
     IN  /\ Located(k, m) /\ m.base = m.fwd
         /\ \E bit \in 0 .. BSIZE :
              LET q == SubSeq(s, 1, bit)
              IN  /\ FreeRange(m.fwd, s, bit)
                  /\ bit > 0 => ~ FreeRange(m.fwd, s, bit - 1)
                  /\ fwd' = [fwd EXCEPT ![m.fwd].children = Put(m.fwd, q, n)]
                  /\ AddItem(k, m, n, [prefix |-> q, parent |-> m.fwd, items |-> <<>>], 0)
         /\ nodes' = nodes \cup {n}
  /\ UNCHANGED fwds

InsertInBucket(k) ==
  /\ stack = <<>> /\ ~ fault
  /\ LET m == BestMatch(k)
     IN  /\ Located(k, m) /\ m.base \in NodeIds /\ ~ m.found
         /\ AddItem(k, m, m.base, node[m.base], totsize[m.base])
  /\ UNCHANGED <<fwds, fwd, nodes>>

\* exists, and insert and erase when they answer false: best_match, no change.
LookUp(k) ==
  /\ stack = <<>> /\ ~ fault
  /\ fault' = ~ BestMatch(k).ok
  /\ UNCHANGED <<fwds, fwd, nodes, node, totsize, entry, heap, stack>>

-----------------------------------------------------------------------------
(* split_node and split_fwd.  In their frames `fwd' is jumppar, `size' is   *)
(* bsize, the bytes of the inserted key that are left.                      *)

\* split_node, while the bucket covers more than one slot: split its range.
SplitNode ==
  /\ Running("split") /\ Len(node[Top.node].prefix) < BSIZE
  /\ LET n == Top.node
         jump == Top.fwd
         old == node[n]
         b == Top.p \div BDIV
         size == Positive(Top.size) + b
         low == Append(old.prefix, 0)
         high == Append(old.prefix, 1)
         count == LowCount(old.items, 1, Top.p % BDIV, Len(low))
         lows == SubSeq(old.items, 1, count)
         highs == SubSeq(old.items, count + 1, Len(old.items))
         lowsize == SizeOf(lows, b, size, 0)
         h == FreshNode
     IN  /\ fault' = ~ Aligned(lows, b, size)
         /\ \/ /\ lows = <<>>
               /\ fwd' = [fwd EXCEPT ![jump].children = Put(jump, low, jump)]
               /\ node' = [node EXCEPT ![n].prefix = high]
               /\ UNCHANGED <<nodes, totsize, entry, stack>>
            \/ /\ highs = <<>>
               /\ fwd' = [fwd EXCEPT ![jump].children = Put(jump, high, jump)]
               /\ node' = [node EXCEPT ![n].prefix = low]
               /\ totsize' = [totsize EXCEPT ![n] = lowsize]
               /\ UNCHANGED <<nodes, entry, stack>>
            \/ /\ lows # <<>> /\ highs # <<>>
               /\ nodes # NodeIds
               /\ nodes' = nodes \cup {h}
               /\ fwd' = [fwd EXCEPT ![jump].children = Put(jump, high, h)]
               /\ node' = [node EXCEPT ![n] = [old EXCEPT !.prefix = low, !.items = lows],
                                       ![h] = [prefix |-> high, parent |-> jump, items |-> highs]]
               /\ totsize' = [totsize EXCEPT ![n] = lowsize, ![h] = totsize[n] - lowsize]
               /\ entry' = Own(h, highs)
               /\ Return
  /\ UNCHANGED <<fwds, heap>>

\* bsize == -1: the keys have no bytes left that could tell them apart.
SplitExhausted ==
  /\ Running("split") /\ Len(node[Top.node].prefix) = BSIZE /\ Top.size = -1
  /\ Return
  /\ UNCHANGED <<fwds, fwd, nodes, node, totsize, entry, heap, fault>>

\* move_data of split_fwd for item i, the low bucket getting `count' items: its
\* byte of path moves out of `first' and the next byte of the key moves in.
CutItem(items, i, count, b, size) ==
  LET it == items[i]
      len == ResidualLen(b, size, it.first)
      j == IF i <= count THEN i ELSE i - count
      next == IF len > 0 /\ ResidualLen(b, size, items[j].first) > 0 /\ it.res # <<>>
              THEN it.res[1] ELSE 0
  IN  [it EXCEPT !.first = <<it.first[2], next>>, !.res = SubSeq(it.res, 2, Len(it.res))]

\* split_fwd: a new forwarding node g takes the bucket's slot, and the bucket's
\* items go to its lower and upper half.
SplitFwd ==
  /\ Running("split") /\ Len(node[Top.node].prefix) = BSIZE /\ Top.size # -1
  /\ fwds # FwdIds
  /\ LET n == Top.node
         old == node[n]
         b == Top.p \div BDIV
         size == Positive(Top.size) + b
         p == Top.p + 1
         cut == IF p % BDIV = 0 THEN 1 ELSE 0
         count == LowCount(old.items, 1 + cut, p % BDIV, 1)
         moved == [i \in DOMAIN old.items |->
                     IF cut = 1 THEN CutItem(old.items, i, count, b, size) ELSE old.items[i]]
         lows == SubSeq(moved, 1, count)
         highs == SubSeq(moved, count + 1, Len(moved))
         lowsize == SizeOf(SubSeq(old.items, 1, count), b, size, cut)
         highsize == SizeOfUpper(SubSeq(old.items, count + 1, Len(moved)), b, size, cut)
         g == FreshFwd
         l == FreshNode
         Branch(x, y) == [parent |-> Top.fwd, path |-> Pad(old.prefix),
                          children |-> [s \in Slots |-> IF s[1] = 0 THEN x ELSE y]]
         Link(x, y) == fwd' = [fwd EXCEPT ![Top.fwd].children = Put(Top.fwd, old.prefix, g),
                                          ![g] = Branch(x, y)]
     IN  /\ fault' = ~ (Aligned(old.items, b, size) /\ Len(old.items) = SPLITBOUND)
         /\ fwds' = fwds \cup {g}
         /\ heap' = heap - cut * BlocksFreed(old.items, b, size)
         /\ \/ /\ lows = <<>>
               /\ Link(g, n)
               /\ node' = [node EXCEPT ![n] = [prefix |-> <<1>>, parent |-> g, items |-> highs]]
               /\ totsize' = [totsize EXCEPT ![n] = highsize]
               /\ Become(Frame("split", n, g, Top.size - cut, p))
               /\ UNCHANGED <<nodes, entry>>
            \/ /\ highs = <<>>
               /\ Link(n, g)
               /\ node' = [node EXCEPT ![n] = [prefix |-> <<0>>, parent |-> g, items |-> lows]]
               /\ totsize' = [totsize EXCEPT ![n] = lowsize]
               /\ Become(Frame("split", n, g, Top.size - cut, p))
               /\ UNCHANGED <<nodes, entry>>
            \/ /\ lows # <<>> /\ highs # <<>>
               /\ nodes # NodeIds
               /\ nodes' = nodes \cup {l}
               /\ Link(l, n)
               /\ node' = [node EXCEPT ![n] = [prefix |-> <<1>>, parent |-> g, items |-> highs],
                                       ![l] = [prefix |-> <<0>>, parent |-> g, items |-> lows]]
               /\ totsize' = [totsize EXCEPT ![n] = highsize, ![l] = lowsize]
               /\ entry' = Own(l, lows)
               /\ Return

-----------------------------------------------------------------------------
(* erase.  In the frames of the merges `size' is on_heap and `p' is byte.   *)

Erase(k) ==
  /\ stack = <<>> /\ ~ fault
  /\ LET m == BestMatch(k)
         n == m.base
         items == node[n].items
         left == RemoveAt(items, m.index)
         on_heap == Len(k) - m.p \div BDIV
         b == Dist(node[n].parent) \div BDIV
         size == ResidualLen(b, on_heap + b, items[m.index].first)
     IN  /\ Located(k, m) /\ n \in NodeIds /\ m.found
         /\ fault' = ~ (m.ok /\ Aligned(SubSeq(items, 1, m.index), b, on_heap + b))
         /\ heap' = IF size >= HEAPBOUND THEN heap - 1 ELSE heap
         /\ node' = [node EXCEPT ![n].items = left]
         /\ totsize' = [totsize EXCEPT ![n] = IF left = <<>> THEN 0 ELSE @ - Bytes(size)]
         /\ entry' = [entry EXCEPT ![k] = Null]
         /\ stack' = <<Frame("merge_down", n, Null, on_heap, m.p)>>
  /\ UNCHANGED <<fwds, fwd, nodes>>

\* The bucket that a merge is about, and what it holds.
Merging == Running("merge_down") /\ Len(node[Top.node].items) <= MergeBound

\* merge_down and merge_regular leave a bucket alone that is large enough, and
\* merge_down one that covers all slots of the root.
MergeDownStop ==
  /\ Running("merge_down")
  /\ LET x == node[Top.node]
     IN  \/ Len(x.items) > MergeBound
         \/ x.prefix = <<>> /\ x.items # <<>> /\ x.parent = Root
  /\ Return
  /\ fault' = (Top.node \notin nodes)
  /\ UNCHANGED <<fwds, fwd, nodes, node, totsize, entry, heap>>

\* Mutant: the wrong half of `first' moves into the residual.
InjectByteHigh(items, y, size) ==
  [i \in DOMAIN items |->
     [items[i] EXCEPT
        !.first = <<y, items[i].first[1]>>,
        !.res = IF size[i] > 0 THEN <<items[i].first[1]>> \o @ ELSE @]]

\* Items of a bucket when the byte y is moved from their path to their `first';
\* size[i] is the length of item i's residual from then on.
InjectByte(items, y, size) ==
  [i \in DOMAIN items |->
     [items[i] EXCEPT
        !.first = <<y, items[i].first[1]>>,
        !.res = IF size[i] > 0 THEN <<items[i].first[2]>> \o @ ELSE @]]

\* readd_byte: a bucket that covers all slots of its parent takes its place.
ReaddByte ==
  /\ Merging /\ node[Top.node].prefix = <<>> /\ node[Top.node].items # <<>>
  /\ node[Top.node].parent # Root
  /\ LET n == Top.node
         items == node[n].items
         f == node[n].parent
         up == fwd[f].parent
         carry == Top.p % BDIV = 0
         on_heap == IF carry THEN Top.size + 1 ELSE Top.size
         b == Top.p \div BDIV - 1
         size == [i \in DOMAIN items |->
                    IF Top.p <= BDIV THEN ((on_heap + b) \div Base) * Base + items[i].first[1]
                                     ELSE Positive(on_heap)]
     IN  /\ fwd' = [fwd EXCEPT ![up].children = Put(up, fwd[f].path, n), ![f] = DeadFwd]
         /\ fwds' = fwds \ {f}
         /\ \E y \in IF carry THEN GetByte(f) ELSE {0} :
              LET moved == IF carry THEN InjectByte(items, y, size) ELSE items
              IN  node' = [node EXCEPT ![n] = [prefix |-> fwd[f].path, parent |-> up,
                                               items |-> moved]]
         /\ IF carry
            THEN /\ fault' = \E i \in DOMAIN items : Len(items[i].res) # Positive(size[i] - 1)
                 /\ totsize' = [totsize EXCEPT ![n] = Room(size)]
                 /\ heap' = heap + Cardinality({i \in DOMAIN items : size[i] = HEAPBOUND})
            ELSE /\ fault' = FALSE
                 /\ UNCHANGED <<totsize, heap>>
         /\ stack' = <<Frame("merge_down", n, Null, on_heap, Top.p - 1),
                       Frame("after_readd", n, Null, Top.size, Top.p)>> \o Tail(stack)
  /\ UNCHANGED <<nodes, entry>>

\* merge_down after readd_byte returns: it reads node->_parent once more.
AfterReadd ==
  /\ Running("after_readd")
  /\ fault' = (Top.node \notin nodes)
  /\ IF node[Top.node].parent # Root THEN MergeDown(Top.node) ELSE Return
  /\ UNCHANGED <<fwds, fwd, nodes, node, totsize, entry, heap>>

\* merge_empty: the last bucket below its parent is empty.
MergeEmpty ==
  /\ Merging /\ node[Top.node].prefix = <<>> /\ node[Top.node].items = <<>>
  /\ LET n == Top.node
         f == node[n].parent
     IN  /\ fwd' = [fwd EXCEPT ![f].children = Swap(f, n, f)]
         /\ node' = [node EXCEPT ![n] = DeadNode]
         /\ nodes' = nodes \ {n}
         /\ Become(Frame("climb", Null, f, Top.size, Top.p))
         /\ fault' = (n \notin nodes)
  /\ UNCHANGED <<fwds, totsize, entry, heap>>

\* One turn of the loop of merge_empty, at parent = Top.fwd.
Climb ==
  /\ Running("climb")
  /\ LET f == Top.fwd
         up == fwd[f].parent
         others == {fwd[f].children[s] : s \in Slots} \ {f}
         on_heap == IF (Top.p - 1) % BDIV = 0 THEN Top.size + 1 ELSE Top.size
         barren == f # Root /\ others = {}
     IN  /\ fwd' = IF barren
                   THEN [fwd EXCEPT ![up].children = Put(up, fwd[f].path, up), ![f] = DeadFwd]
                   ELSE fwd
         /\ fwds' = IF barren THEN fwds \ {f} ELSE fwds
         /\ IF barren THEN Become(Frame("climb", Null, up, on_heap, Top.p - 1))
            ELSE IF f # Root /\ Cardinality(others) = 1 /\ others \subseteq NodeIds
            THEN MergeDown(CHOOSE c \in NodeIds : c \in others)
            ELSE Return
  /\ UNCHANGED <<nodes, node, totsize, entry, heap, fault>>

-----------------------------------------------------------------------------
(* merge_regular: a bucket and its buddy, the slots that differ from the    *)
(* bucket's in the last bit of its prefix.                                  *)

MergingRegular == Merging /\ node[Top.node].prefix # <<>>

\* Mutant: only the first of the bucket's slots is reset.
DeleteFirst(n, c) ==
  /\ fwd' = [fwd EXCEPT ![node[n].parent].children[Pad(node[n].prefix)] = c]
  /\ nodes' = nodes \ {n}

\* Free n, its slots becoming c.
Delete(n, c) ==
  LET f == node[n].parent
  IN  /\ fwd' = [fwd EXCEPT ![f].children = Put(f, node[n].prefix, c)]
      /\ nodes' = nodes \ {n}

\* The buddy is split finer than the bucket: an empty bucket goes, otherwise
\* the part of the buddy that is next to it may merge first.
MergeFiner ==
  /\ MergingRegular
  /\ LET n == Top.node
         c == BuddyOf(n)
     IN  /\ c \in NodeIds /\ Len(node[c].prefix) # Len(node[n].prefix)
         /\ fault' = (n \notin nodes \/ Len(node[c].prefix) < Len(node[n].prefix))
         /\ \/ /\ node[n].items = <<>>
               /\ Delete(n, node[n].parent)
               /\ node' = [node EXCEPT ![n] = DeadNode]
               /\ Return
            \/ /\ node[n].items # <<>>
               /\ IF Len(node[c].items) <= MergeBound THEN MergeDown(c) ELSE Return
               /\ UNCHANGED <<fwd, nodes, node>>
  /\ UNCHANGED <<fwds, totsize, entry, heap>>

\* The buddy is a bucket of the same size: it takes over an empty bucket's
\* slots, or its items move into the bucket unless that would fill it.
MergeBuddy ==
  /\ MergingRegular
  /\ LET n == Top.node
         x == node[n]
         c == BuddyOf(n)
         y == node[c]
         both == Joined(x.prefix, x.items, y.items)
     IN  /\ c \in NodeIds /\ Len(y.prefix) = Len(x.prefix)
         /\ \/ /\ x.items = <<>>
               /\ Delete(n, c)
               /\ node' = [node EXCEPT ![n] = DeadNode, ![c].prefix = Front(y.prefix)]
               /\ MergeDown(c)
               /\ fault' = (n \notin nodes)
               /\ UNCHANGED <<totsize, entry>>
            \/ /\ x.items # <<>>
               /\ Len(x.items) + Len(y.items) >= SPLITBOUND
               /\ fault' = (n \notin nodes)
               /\ Return
               /\ UNCHANGED <<fwd, nodes, node, totsize, entry>>
            \/ /\ x.items # <<>>
               /\ Len(x.items) + Len(y.items) < SPLITBOUND
               /\ Delete(c, n)
               /\ node' = [node EXCEPT ![n].items = both, ![n].prefix = Front(@),
                                       ![c] = DeadNode]
               /\ totsize' = [totsize EXCEPT ![n] = @ + totsize[c], ![c] = 0]
               /\ entry' = Own(n, both)
               /\ MergeDown(n)
               /\ fault' = (n \notin nodes \/ y.items = <<>>)
  /\ UNCHANGED <<fwds, heap>>

\* Mutant of MergeFwd: it goes on without taking a bit off the prefix.
MergeFwdForever ==
  /\ MergingRegular /\ BuddyOf(Top.node) \in FwdIds
  /\ LET n == Top.node
         f == node[n].parent
     IN  /\ fwd' = [fwd EXCEPT ![f].children = Put(f, node[n].prefix, n)]
         /\ MergeDown(n)
  /\ UNCHANGED <<fwds, nodes, node, totsize, entry, heap, fault>>

\* The buddy is a forwarding node, or empty when it is the parent: an empty
\* bucket goes, another one grows over a range that is empty throughout.
MergeFwd ==
  /\ MergingRegular
  /\ LET n == Top.node
         x == node[n]
         q == Front(x.prefix)
     IN  /\ BuddyOf(n) \in FwdIds
         /\ fault' = (n \notin nodes)
         /\ \/ /\ x.items = <<>>
               /\ Delete(n, x.parent)
               /\ node' = [node EXCEPT ![n] = DeadNode]
               /\ Return
            \/ /\ x.items # <<>> /\ ~ CanGrow(n, q)
               /\ Return
               /\ UNCHANGED <<fwd, nodes, node>>
            \/ /\ x.items # <<>> /\ CanGrow(n, q)
               /\ fwd' = [fwd EXCEPT ![x.parent].children = Put(x.parent, q, n)]
               /\ node' = [node EXCEPT ![n].prefix = q]
               /\ MergeDown(n)
               /\ UNCHANGED nodes
  /\ UNCHANGED <<fwds, totsize, entry, heap>>

-----------------------------------------------------------------------------
(* ~ptrie_base, and a new set in the place of the old one.                  *)

\* Bits of path above the children of f, root first.
PathTo(f) ==
  LET path[g \in FwdIds] == IF g = Root THEN <<>> ELSE Append(path[fwd[g].parent], fwd[g].path)
  IN  path[f]

\* cleanup: the size of item it of a bucket below f, from the path and `first'.
\* The destructor ORs the path of the two length bytes together on its way down.
CleanupLen(f, it) ==
  LET path == PathTo(f)
      b == Len(path) \div BDIV
      PathByte(i) == CHOOSE y \in Byte : \A r \in 0 .. BDIV - 1 :
                                           SlotTable[y][r] = path[i * BDIV + r + 1]
  IN  Positive((CASE b = 0 -> it.first[1] * Base + it.first[2]
                  [] b = 1 -> PathByte(0) * Base + it.first[1]
                  [] OTHER -> PathByte(0) * Base + PathByte(1)) - b)

Destroy ==
  /\ stack = <<>> /\ ~ fault /\ nodes # {}
  /\ LET visited == {n \in NodeIds : \E f \in fwds, s \in Slots : fwd[f].children[s] = n}
         Len2(n, i) == CleanupLen(node[n].parent, node[n].items[i])
         places == UNION {{<<n, i>> : i \in DOMAIN node[n].items} : n \in visited}
     IN  /\ heap' = heap - Cardinality({x \in places : Len2(x[1], x[2]) >= HEAPBOUND})
         /\ fault' = \E x \in places : Len2(x[1], x[2]) # Len(node[x[1]].items[x[2]].res)
  /\ fwds' = {Root}
  /\ fwd' = [f \in FwdIds |-> IF f = Root THEN EmptyRoot ELSE DeadFwd]
  /\ nodes' = {}
  /\ node' = [n \in NodeIds |-> DeadNode]
  /\ totsize' = [n \in NodeIds |-> 0]
  /\ entry' = [k \in Keys |-> Null]
  /\ UNCHANGED stack

-----------------------------------------------------------------------------
Init ==
  /\ fwds = {Root}
  /\ fwd = [f \in FwdIds |-> IF f = Root THEN EmptyRoot ELSE DeadFwd]
  /\ nodes = {}
  /\ node = [n \in NodeIds |-> DeadNode]
  /\ totsize = [n \in NodeIds |-> 0]
  /\ entry = [k \in Keys |-> Null]
  /\ heap = 0
  /\ stack = <<>>
  /\ fault = FALSE

\* The calls made inside an insert or an erase.
Continue ==
  \/ SplitNode \/ SplitExhausted \/ SplitFwd
  \/ MergeDownStop \/ ReaddByte \/ AfterReadd \/ MergeEmpty \/ Climb
  \/ MergeFiner \/ MergeBuddy \/ MergeFwd

Next ==
  \/ \E k \in Keys : InsertInNewBucket(k) \/ InsertInBucket(k) \/ Erase(k) \/ LookUp(k)
  \/ Destroy
  \/ Continue

Spec == Init /\ [][Next]_vars

\* The set is used by one thread, and a call that has begun runs on.
FairSpec == Spec /\ WF_vars(Continue)

-----------------------------------------------------------------------------
(* Properties *)

FwdsOK ==
  /\ fwds \subseteq FwdIds /\ Root \in fwds
  /\ fwd \in [FwdIds -> Fwd]
  /\ \A f \in FwdIds \ {Root} : fwd[f].parent \in FwdIds

BucketsOK ==
  /\ nodes \subseteq NodeIds
  /\ node \in [NodeIds -> Node]
  /\ entry \in [Keys -> NodeIds \cup {Null}]

\* Every variable holds a value of its type.
TypeOK ==
  FwdsOK /\ BucketsOK /\ heap \in Int /\ stack \in Seq(Frames) /\ fault \in BOOLEAN

\* The sizes that every operation recomputes from key lengths, `first' and on_heap
\* are those of the stored residuals, so no bucket is read or freed at a wrong
\* offset, and no call is left with a bucket that has been deleted.
NoFault == ~ fault

Stored == {k \in Keys : entry[k] # Null}

\* exists answers true for exactly the keys inserted and not erased since, also
\* between any two steps of a split or of a chain of merges.
LookupsExact ==
  \A k \in Keys : /\ Located(k, BestMatch(k))
                  /\ BestMatch(k).found <=> k \in Stored

\* Every item is the rest of its key's encoding after the path to its bucket:
\* what unpack and the iterators put together again is the key that was inserted.
ItemsEncodeKeys ==
  \A n \in nodes : \A i \in DOMAIN node[n].items :
    LET it == node[n].items[i]
        path == PathTo(node[n].parent)
        b == Len(path) \div BDIV
    IN  /\ \A j \in DOMAIN path : path[j] = Slot(it.ent, j - 1)
        /\ Covers(node[n].prefix, Slot(it.ent, Len(path)))
        /\ it.first = First(it.ent, b) /\ it.res = Residual(it.ent, b)

\* _node of a stored key's entry is the one bucket that holds the key, whatever
\* splits and merges have moved it since (what find_metadata relies on).
EntriesPointHome ==
  /\ \A k \in Stored : entry[k] \in nodes /\ k \in Ents(node[entry[k]].items)
  /\ \A n \in nodes : \A k \in Ents(node[n].items) : entry[k] = n

\* Items of a bucket are in order, so that the iterator visits them in order.
BucketsSorted ==
  \A n \in nodes : \A i \in 1 .. Len(node[n].items) - 1 :
    LET x == node[n].items[i]
        y == node[n].items[i + 1]
    IN  ItemLess(x.first, x.res, y.first, y.res)

\* The asserts on the children in merge_regular and erase, and more: children and
\* parents agree, a bucket has all the slots under its prefix and no other, and
\* nothing that is allocated is out of reach.
TreeWellFormed ==
  /\ \A f \in fwds \ {Root} :
       fwd[f].parent \in fwds /\ fwd[fwd[f].parent].children[fwd[f].path] = f
  /\ \A f \in fwds, s \in Slots :
       LET c == fwd[f].children[s]
       IN  \/ c = f
           \/ c \in fwds /\ fwd[c].parent = f /\ fwd[c].path = s
           \/ c \in nodes /\ node[c].parent = f /\ Covers(node[c].prefix, s)
  /\ \A n \in nodes : \A s \in Slots :
       Covers(node[n].prefix, s) => fwd[node[n].parent].children[s] = n

AllItems == UNION {{<<n, i>> : i \in DOMAIN node[n].items} : n \in nodes}

\* Each residual of HEAPBOUND bytes or more is one heap block, and there is no
\* other: none leaks and none is freed twice, the destructor's own sizes included.
HeapExact ==
  heap = Cardinality({x \in AllItems : Len(node[x[1]].items[x[2]].res) >= HEAPBOUND})

Lengths(items) == [i \in DOMAIN items |-> Len(items[i].res)]

\* _totsize, which is kept up to date by differences, is what the items take.
TotsizeExact == \A n \in NodeIds : totsize[n] = Room(Lengths(node[n].items))

\* Between operations no bucket is empty (the assert at the end of erase), and only
\* buckets whose keys have no bytes left to branch on hold SPLITBOUND keys or more.
BucketsBounded ==
  stack = <<>> =>
    \A n \in nodes :
      /\ node[n].items # <<>>
      /\ Len(node[n].items) >= SPLITBOUND =>
           \A k \in Ents(node[n].items) :
             Len(k) + 1 = Len(PathTo(node[n].parent)) \div BDIV

\* Between operations every forwarding node but the root leads to some key.
NoBarrenFwd ==
  stack = <<>> => \A f \in fwds \ {Root} : \E s \in Slots : fwd[f].children[s] # f

\* A bucket becomes empty only below the root, or next to other children of its
\* parent: merge_empty never has a forwarding node to remove.
MergeEmptyAtRoot == stack # <<>> /\ Top.fn = "climb" => Top.fwd = Root

\* The level passed down the merges by hand is that of the bucket whenever readd_byte
\* uses it, although merge_down calls itself a second time with the level of before.
ByteIsLevel ==
  Merging /\ node[Top.node].prefix = <<>> /\ node[Top.node].parent # Root
    => Top.p = Len(PathTo(node[Top.node].parent))

\* The assert that ends split_node: a half with SPLITBOUND items or more is left only
\* where bsize and the level say that the key has no bytes left.
AssertHalvesSmall ==
  [][Running("split") /\ fwds' = fwds /\ nodes' # nodes =>
       \A n \in {Top.node} \cup (nodes' \ nodes) :
         \/ Len(node'[n].items) < SPLITBOUND
         \/ Positive(Top.size) + 1 = Top.p \div BDIV]_vars

\* Every insert and every erase returns.
CallsReturn == []<>(stack = <<>>)

\* The keys whose items lie at the end of their path, the abstract value of the trie.
Contents ==
  {k \in Keys : \E pos \in {FastForward(k)} :
     /\ pos.base \in NodeIds
     /\ \E i \in DOMAIN node[pos.base].items :
          /\ node[pos.base].items[i].first = First(k, pos.p \div BDIV)
          /\ node[pos.base].items[i].res = Residual(k, pos.p \div BDIV)}

Abs == INSTANCE KeySet WITH set <- Contents

\* Every step does to the contents of the trie what the operation it belongs to does to a
\* set: insert adds its key when it stores the item, erase takes away its key and no other,
\* and no step of a split, of a chain of merges or of a lookup adds or loses any key.
ImplementsKeySet ==
  /\ Abs!KInit
  /\ [][/\ \A k \in Keys :
             /\ InsertInNewBucket(k) \/ InsertInBucket(k) => Abs!Insert(k)
             /\ Erase(k) => Abs!Erase(k)
             /\ LookUp(k) => UNCHANGED Contents
        /\ Destroy => Abs!Clear
        /\ Continue => UNCHANGED Contents]_vars

=============================================================================
