-------------------------- MODULE PTrieTreeProofs ---------------------------
(***************************************************************************)
(* The variables of PTrie keep their types, and the tree that its          *)
(* operations build is well formed, between any two steps of an operation  *)
(* and for any set of keys, any size of a byte and of a level, and any     *)
(* number of nodes.                                                        *)
(*                                                                         *)
(* Merges leave nothing behind: no bucket that should have been merged, no *)
(* empty bucket and no forwarding node without children, whatever the      *)
(* order of the operations.                                                *)
(*                                                                         *)
(* Paths: the bits above a forwarding node, what fast_forward finds at the *)
(* end of a key's path, and the level that calls count up and down.        *)
(***************************************************************************)
EXTENDS PTrieInvariants, FiniteSetTheorems, Recursion

-----------------------------------------------------------------------------
(* The encoding of keys *)

\* Levels come in bytes.
LEMMA Levels ==
  ASSUME NEW p \in Nat PROVE p \div BDIV \in Nat /\ p % BDIV \in 0 .. BDIV - 1
BY EncodingAssumption

\* Every byte of the encoding is a byte, also those past the end of the key.
LEMMA EncByteType ==
  ASSUME NEW k \in Keys, NEW i \in Nat PROVE EncByte(k, i) \in Byte
BY SMTT(60), EncodingAssumption DEF EncByte, Byte

\* So is each slot a slot.
LEMMA SlotType ==
  ASSUME NEW k \in Keys, NEW p \in Nat PROVE Slot(k, p) \in Slots
<1>1. SlotTable \in [Byte -> [0 .. BDIV - 1 -> Slots]]
  BY DEF SlotTable, Slots
<1>2. EncByte(k, p \div BDIV) \in Byte /\ p % BDIV \in 0 .. BDIV - 1
  BY Levels, EncByteType
<1>3. QED
  BY <1>1, <1>2 DEF Slot

\* The item that insert makes for a key is an item.
LEMMA ItemType ==
  ASSUME NEW k \in Keys, NEW b \in Nat
  PROVE  [first |-> First(k, b), res |-> Residual(k, b), ent |-> k] \in Items
<1>1. First(k, b) \in Byte \X Byte
  BY EncByteType DEF First
<1>2. Residual(k, b) \in Seq(Byte)
  BY EncodingAssumption DEF Residual
<1>3. QED
  BY <1>1, <1>2 DEF Items

-----------------------------------------------------------------------------
(* Sequences of items *)

\* Insertion at an index up to one past the end gives a sequence.
LEMMA InsertAtType ==
  ASSUME NEW S, NEW s \in Seq(S), NEW i \in 1 .. Len(s) + 1, NEW x \in S
  PROVE  InsertAt(s, i, x) \in Seq(S)
BY DEF InsertAt

\* So does removal at an index of the sequence.
LEMMA RemoveAtType ==
  ASSUME NEW S, NEW s \in Seq(S), NEW i \in 1 .. Len(s)
  PROVE  RemoveAt(s, i) \in Seq(S)
BY DEF RemoveAt

\* The two parts of a bucket's items when the first `count' go to its lower half.
LEMMA PartsType ==
  ASSUME NEW S, NEW s \in Seq(S), NEW count \in 0 .. Len(s)
  PROVE  SubSeq(s, 1, count) \in Seq(S) /\ SubSeq(s, count + 1, Len(s)) \in Seq(S)
OBVIOUS

\* A set of positions of a sequence has no more elements than the sequence.
LEMMA PositionCount ==
  ASSUME NEW S, NEW s \in Seq(S), NEW P \in SUBSET (DOMAIN s)
  PROVE  Cardinality(P) \in 0 .. Len(s)
<1>1. DOMAIN s = 1 .. Len(s) /\ Len(s) \in Nat
  OBVIOUS
<1>2. 1 \in Int /\ Len(s) \in Int
  BY <1>1
<1>3. /\ IsFiniteSet(1 .. Len(s))
      /\ Cardinality(1 .. Len(s)) = IF 1 > Len(s) THEN 0 ELSE Len(s) - 1 + 1
  BY <1>2, FS_Interval
<1>4. Cardinality(1 .. Len(s)) = Len(s)
  BY <1>1, <1>3
<1>5. IsFiniteSet(P) /\ Cardinality(P) <= Len(s)
  BY <1>1, <1>3, <1>4, FS_Subset
<1>6. Cardinality(P) \in Nat
  BY <1>5, FS_CardinalityType
<1>7. QED
  BY <1>1, <1>5, <1>6

\* bucket_search answers an index that is one past the end at most, and one of the
\* bucket when it has found the key.
LEMMA BucketSearchIndex ==
  ASSUME NEW S, NEW items \in Seq(S), NEW k, NEW b
  PROVE  LET r == BucketSearch(k, items, b)
         IN  r.index \in 1 .. Len(items) + 1 /\ (r.found => r.index \in 1 .. Len(items))
<1> DEFINE Passed(i) == ItemLess(items[i].first, items[i].res, First(k, b), Residual(k, b))
           P == {i \in DOMAIN items : \A j \in 1 .. i : Passed(j)}
<1>1. Cardinality(P) \in 0 .. Len(items)
  BY PositionCount
<1>2. BucketSearch(k, items, b).index = 1 + Cardinality(P)
  BY DEF BucketSearch
<1>3. BucketSearch(k, items, b).found => BucketSearch(k, items, b).index <= Len(items)
  BY DEF BucketSearch
<1>4. QED
  BY <1>1, <1>2, <1>3

-----------------------------------------------------------------------------
(* Slots, prefixes and children *)

\* The ranges of slots that the operations form out of slots and other ranges.
LEMMA PrefixTypes ==
  /\ \A s \in Slots : s \in SlotPrefixes
  /\ \A s \in Slots : \A bit \in 0 .. BSIZE : SubSeq(s, 1, bit) \in SlotPrefixes
  /\ \A q \in SlotPrefixes : /\ Pad(q) \in Slots
                             /\ Front(q) \in SlotPrefixes
                             /\ Len(q) < BSIZE => /\ Append(q, 0) \in SlotPrefixes
                                                  /\ Append(q, 1) \in SlotPrefixes
  /\ <<>> \in SlotPrefixes /\ <<0>> \in SlotPrefixes /\ <<1>> \in SlotPrefixes
<1> USE EncodingAssumption
<1>1. ASSUME NEW s \in Slots, NEW bit \in 0 .. BSIZE PROVE SubSeq(s, 1, bit) \in SlotPrefixes
  BY DEF Slots, SlotPrefixes
<1>2. ASSUME NEW q \in SlotPrefixes
      PROVE  Pad(q) \in Slots /\ Front(q) \in SlotPrefixes
  <2>1. Pad(q) \in Slots
    BY DEF Pad, Slots, SlotPrefixes
  <2>2. Front(q) \in SlotPrefixes
    BY DEF Front, SlotPrefixes
  <2>3. QED
    BY <2>1, <2>2
<1>3. ASSUME NEW q \in SlotPrefixes, Len(q) < BSIZE
      PROVE  Append(q, 0) \in SlotPrefixes /\ Append(q, 1) \in SlotPrefixes
  BY <1>3 DEF SlotPrefixes
<1>4. <<>> \in SlotPrefixes /\ <<0>> \in SlotPrefixes /\ <<1>> \in SlotPrefixes
  BY DEF SlotPrefixes
<1>5. ASSUME NEW s \in Slots PROVE s \in SlotPrefixes
  <2>1. s \in Seq({0, 1}) /\ Len(s) = BSIZE
    BY DEF Slots
  <2>2. QED
    BY <2>1 DEF SlotPrefixes
<1>6. QED
  BY <1>1, <1>2, <1>3, <1>4, <1>5

\* Some or all children of a forwarding node are replaced.
LEMMA ChildrenType ==
  ASSUME FwdsOK, NEW f \in FwdIds, NEW c \in Children, NEW q, NEW n
  PROVE  Put(f, q, c) \in [Slots -> Children] /\ Swap(f, n, c) \in [Slots -> Children]
<1>1. fwd[f].children \in [Slots -> Children]
  BY DEF FwdsOK, Fwd
<1>2. QED
  BY <1>1 DEF Put, Swap

\* What an operation does to fwd.
LEMMA FwdUpdate ==
  ASSUME FwdsOK, NEW f \in FwdIds, NEW new \in [Slots -> Children],
         fwd' = [fwd EXCEPT ![f].children = new]
  PROVE  /\ fwd' \in [FwdIds -> Fwd]
         /\ \A x \in FwdIds : fwd'[x].parent = fwd[x].parent
<1>1. [fwd[f] EXCEPT !.children = new] \in Fwd
  BY DEF FwdsOK, Fwd
<1>2. [fwd[f] EXCEPT !.children = new].parent = fwd[f].parent
  BY DEF FwdsOK, Fwd
<1>3. fwd' = [fwd EXCEPT ![f] = [fwd[f] EXCEPT !.children = new]]
  OBVIOUS
<1>4. QED
  BY <1>1, <1>2, <1>3 DEF FwdsOK

\* The entries of a bucket's items are those of keys.
LEMMA OwnType ==
  ASSUME BucketsOK, NEW n \in NodeIds, NEW items
  PROVE  Own(n, items) \in [Keys -> NodeIds \cup {Null}]
BY DEF BucketsOK, Own

\* The root of an empty trie.
LEMMA EmptyRootType == EmptyRoot \in Fwd
  BY PrefixTypes, PTrieAssumption DEF EmptyRoot, Fwd, Children

\* What is left at an address is typed as well.
LEMMA DeadTypes == DeadNode \in Node /\ DeadFwd \in Fwd /\ DeadFwd.parent = Root
BY PTrieAssumption, PrefixTypes DEF DeadNode, DeadFwd, Node, Fwd, Children

\* The call on top of the stack, and the calls below it.
LEMMA StackType ==
  ASSUME stack \in Seq(Frames), stack # <<>>
  PROVE  Top \in Frames /\ Tail(stack) \in Seq(Frames)
BY DEF Top

\* Frames made of arguments of the right types.
LEMMA FrameTypes ==
  ASSUME NEW n \in NodeIds, NEW f \in FwdIds, NEW size \in Int, NEW p \in Int
  PROVE  /\ p \in Nat => Frame("split", n, f, size, p) \in Frames
         /\ Frame("merge_down", n, Null, size, p) \in Frames
         /\ Frame("after_readd", n, Null, size, p) \in Frames
         /\ Frame("climb", Null, f, size, p) \in Frames
BY DEF Frame, Frames, Splits, Merges, Climbs

\* best_match answers a place of the trie.
LEMMA MatchType ==
  ASSUME BucketsOK, NEW k, Located(k, BestMatch(k))
  PROVE  LET m == BestMatch(k)
         IN  /\ m.fwd \in FwdIds /\ m.p \in Nat
             /\ m.base \in NodeIds =>
                  /\ m.index \in 1 .. Len(node[m.base].items) + 1
                  /\ m.found => m.index \in 1 .. Len(node[m.base].items)
             /\ m.base \notin NodeIds => m.index = 1
<1> DEFINE m == BestMatch(k)
           pos == FastForward(k)
<1>1. m.fwd \in FwdIds /\ m.p \in Nat
  BY DEF Located
<1>2. m.base = pos.base
  BY DEF BestMatch
<1>3. CASE m.base \in NodeIds
  <2>1. node[m.base].items \in Seq(Items)
    BY <1>3 DEF BucketsOK, Node
  <2>2. /\ m.index = BucketSearch(k, node[m.base].items, pos.p \div BDIV).index
        /\ m.found = BucketSearch(k, node[m.base].items, pos.p \div BDIV).found
    BY <1>2, <1>3 DEF BestMatch
  <2>3. QED
    BY <1>1, <1>3, <2>1, <2>2, BucketSearchIndex
<1>4. CASE m.base \notin NodeIds
  BY <1>1, <1>2, <1>4 DEF BestMatch
<1>5. QED
  BY <1>3, <1>4

-----------------------------------------------------------------------------
(* insert *)

\* The part of insert that adds the item, in a bucket that is found or made.
LEMMA AddItemType ==
  ASSUME TypeOK, NEW k \in Keys, NEW m, NEW n \in NodeIds, NEW old \in Node, NEW oldsize,
         m.fwd \in FwdIds, m.p \in Nat, m.index \in 1 .. Len(old.items) + 1,
         AddItem(k, m, n, old, oldsize)
  PROVE  /\ node' \in [NodeIds -> Node] /\ entry' \in [Keys -> NodeIds \cup {Null}]
         /\ heap' \in Int /\ stack' \in Seq(Frames) /\ fault' \in BOOLEAN
<1> DEFINE b == m.p \div BDIV
           new == [first |-> First(k, b), res |-> Residual(k, b), ent |-> k]
<1>1. b \in Nat /\ Len(k) \in Nat
  <2>1. b \in Nat
    BY Levels
  <2>2. k \in Seq(Byte)
    BY EncodingAssumption
  <2>3. QED
    BY <2>1, <2>2
<1>2. new \in Items
  BY <1>1, ItemType
<1>3. old.items \in Seq(Items)
  BY DEF Node
<1>4. InsertAt(old.items, m.index, new) \in Seq(Items)
  BY <1>2, <1>3, InsertAtType
<1>5. [old EXCEPT !.items = InsertAt(old.items, m.index, new)] \in Node
  BY <1>4 DEF Node
<1>6. node' = [node EXCEPT ![n] = [old EXCEPT !.items = InsertAt(old.items, m.index, new)]]
  BY DEF AddItem
<1>7. node' \in [NodeIds -> Node]
  BY <1>5, <1>6 DEF TypeOK, BucketsOK
<1>8. entry' \in [Keys -> NodeIds \cup {Null}]
  BY DEF AddItem, TypeOK, BucketsOK
<1>9. heap' \in Int /\ fault' \in BOOLEAN
  BY DEF AddItem, TypeOK
<1>10. stack' \in Seq(Frames)
  <2>1. Frame("split", n, m.fwd, Len(k) - b, m.p) \in Frames
    BY <1>1, FrameTypes
  <2>2. stack' \in {<<Frame("split", n, m.fwd, Len(k) - b, m.p)>>, <<>>}
    BY DEF AddItem
  <2>3. \A x \in Frames : <<x>> \in Seq(Frames) /\ <<>> \in Seq(Frames)
    OBVIOUS
  <2>4. QED
    BY <2>1, <2>2, <2>3
<1>11. QED
  BY <1>7, <1>8, <1>9, <1>10

\* insert into a bucket it makes: the bucket is typed, and its range is one of slots.
LEMMA InsertInNewBucketType ==
  ASSUME TypeOK, NEW k \in Keys, InsertInNewBucket(k) PROVE TypeOK'
<1> DEFINE m == BestMatch(k)
           s == Slot(k, m.p)
           n == FreshNode
<1>1. n \in NodeIds
  BY DEF InsertInNewBucket, FreshNode, TypeOK, BucketsOK
<1>2. Located(k, m) /\ m.base = m.fwd
  BY DEF InsertInNewBucket
<1>3. m.fwd \in FwdIds /\ m.p \in Nat /\ m.index = 1
  BY <1>2, MatchType, PTrieAssumption DEF TypeOK
<1>4. s \in Slots
  BY <1>3, SlotType
<1>5. PICK bit \in 0 .. BSIZE :
        LET q == SubSeq(s, 1, bit)
        IN  /\ fwd' = [fwd EXCEPT ![m.fwd].children = Put(m.fwd, q, n)]
            /\ AddItem(k, m, n, [prefix |-> q, parent |-> m.fwd, items |-> <<>>], 0)
  BY DEF InsertInNewBucket
<1> DEFINE q == SubSeq(s, 1, bit)
           old == [prefix |-> q, parent |-> m.fwd, items |-> <<>>]
<1>6. old \in Node
  BY <1>3, <1>4, PrefixTypes DEF Node
<1>7. m.index \in 1 .. Len(old.items) + 1
  BY <1>3
<1>8. AddItem(k, m, n, old, 0)
  BY <1>5
<1>9. /\ node' \in [NodeIds -> Node] /\ entry' \in [Keys -> NodeIds \cup {Null}]
      /\ heap' \in Int /\ stack' \in Seq(Frames) /\ fault' \in BOOLEAN
  <2> HIDE DEF m, old
  <2>1. QED
    BY <1>1, <1>3, <1>6, <1>7, <1>8, AddItemType
<1>10. Put(m.fwd, q, n) \in [Slots -> Children]
  BY <1>1, <1>3, ChildrenType DEF TypeOK, Children
<1>11. FwdsOK'
  <2>1. fwd' = [fwd EXCEPT ![m.fwd].children = Put(m.fwd, q, n)] /\ fwds' = fwds
    BY <1>5 DEF InsertInNewBucket
  <2>2. /\ fwd' \in [FwdIds -> Fwd]
        /\ \A x \in FwdIds : fwd'[x].parent = fwd[x].parent
    BY <1>3, <1>10, <2>1, FwdUpdate DEF TypeOK
  <2>3. QED
    BY <2>1, <2>2 DEF TypeOK, FwdsOK
<1>12. nodes' \subseteq NodeIds
  BY <1>1 DEF InsertInNewBucket, TypeOK, BucketsOK
<1>13. QED
  BY <1>9, <1>11, <1>12 DEF TypeOK, BucketsOK

\* insert into the bucket that fast_forward found.
LEMMA InsertInBucketType ==
  ASSUME TypeOK, NEW k \in Keys, InsertInBucket(k) PROVE TypeOK'
<1> DEFINE m == BestMatch(k)
<1>1. Located(k, m) /\ m.base \in NodeIds
  BY DEF InsertInBucket
<1>2. node[m.base] \in Node
  BY <1>1 DEF TypeOK, BucketsOK
<1>3. /\ m.fwd \in FwdIds /\ m.p \in Nat
      /\ m.index \in 1 .. Len(node[m.base].items) + 1
  BY <1>1, MatchType DEF TypeOK
<1>4. AddItem(k, m, m.base, node[m.base], totsize[m.base])
  BY DEF InsertInBucket
<1>5. /\ node' \in [NodeIds -> Node] /\ entry' \in [Keys -> NodeIds \cup {Null}]
      /\ heap' \in Int /\ stack' \in Seq(Frames) /\ fault' \in BOOLEAN
  <2> HIDE DEF m
  <2>1. QED
    BY <1>1, <1>2, <1>3, <1>4, AddItemType
<1>6. UNCHANGED <<fwds, fwd, nodes>>
  BY DEF InsertInBucket
<1>7. QED
  BY <1>5, <1>6 DEF TypeOK, FwdsOK, BucketsOK

\* exists changes nothing but fault.
LEMMA LookUpType ==
  ASSUME TypeOK, NEW k \in Keys, LookUp(k) PROVE TypeOK'
BY DEF LookUp, TypeOK, FwdsOK, BucketsOK

-----------------------------------------------------------------------------
(* split_node and split_fwd *)

\* The arguments of a split in progress.
LEMMA SplitArguments ==
  ASSUME TypeOK, Running("split")
  PROVE  /\ Top.node \in NodeIds /\ Top.fwd \in FwdIds /\ Top.size \in Int /\ Top.p \in Nat
         /\ node[Top.node] \in Node /\ node[Top.node].items \in Seq(Items)
         /\ node[Top.node].prefix \in SlotPrefixes
         /\ Tail(stack) \in Seq(Frames)
<1>1. Top \in Frames /\ Top.fn = "split" /\ Tail(stack) \in Seq(Frames)
  BY StackType DEF TypeOK, Running
<1>2. Top \in Splits
  BY <1>1 DEF Frames, Splits, Merges, Climbs
<1>3. QED
  BY <1>1, <1>2 DEF Splits, TypeOK, BucketsOK, Node

\* A step of the call on top of the stack leaves a stack of frames.
LEMMA BecomeType ==
  ASSUME NEW frame \in Frames, Tail(stack) \in Seq(Frames)
  PROVE  (Become(frame) => stack' \in Seq(Frames)) /\ (Return => stack' \in Seq(Frames))
<1>1. <<frame>> \in Seq(Frames)
  OBVIOUS
<1>2. <<frame>> \o Tail(stack) \in Seq(Frames)
  BY <1>1
<1>3. QED
  BY ZenonT(60), <1>2 DEF Become, Return

\* Moving to the other half of a bucket changes nothing but the prefix and the items.
LEMMA NewNodeType ==
  ASSUME NEW q \in SlotPrefixes, NEW f \in FwdIds, NEW items \in Seq(Items)
  PROVE  [prefix |-> q, parent |-> f, items |-> items] \in Node
BY DEF Node

\* split_node: both buckets get parts of the items and a longer prefix.
LEMMA SplitNodeType ==
  ASSUME TypeOK, SplitNode PROVE TypeOK'
<1> DEFINE n == Top.node
           jump == Top.fwd
           old == node[n]
           low == Append(old.prefix, 0)
           high == Append(old.prefix, 1)
           count == LowCount(old.items, 1, Top.p % BDIV, Len(low))
           lows == SubSeq(old.items, 1, count)
           highs == SubSeq(old.items, count + 1, Len(old.items))
           h == FreshNode
<1>1. /\ n \in NodeIds /\ jump \in FwdIds /\ old \in Node /\ old.items \in Seq(Items)
      /\ old.prefix \in SlotPrefixes /\ Tail(stack) \in Seq(Frames)
  BY SplitArguments DEF SplitNode
<1>2. low \in SlotPrefixes /\ high \in SlotPrefixes
  BY <1>1, PrefixTypes DEF SplitNode
<1>3. count \in 0 .. Len(old.items)
  <2>1. \A i, r, d : {x \in DOMAIN old.items :
          \A y \in 1 .. x : SlotTable[old.items[y].first[i]][r][d] = 0} \in SUBSET (DOMAIN old.items)
    OBVIOUS
  <2>2. QED
    BY ZenonT(60), <1>1, <2>1, PositionCount DEF LowCount
<1>4. lows \in Seq(Items) /\ highs \in Seq(Items)
  BY <1>1, <1>3, PartsType
<1>5. /\ [old EXCEPT !.prefix = high] \in Node /\ [old EXCEPT !.prefix = low] \in Node
      /\ [old EXCEPT !.prefix = low, !.items = lows] \in Node
      /\ [prefix |-> high, parent |-> jump, items |-> highs] \in Node
  BY <1>1, <1>2, <1>4 DEF Node
<1>6. /\ Put(jump, low, jump) \in [Slots -> Children]
      /\ Put(jump, high, jump) \in [Slots -> Children]
      /\ h \in NodeIds => Put(jump, high, h) \in [Slots -> Children]
  BY <1>1, ChildrenType DEF TypeOK, Children
<1>7. fault' \in BOOLEAN /\ heap' \in Int /\ fwds' = fwds
  BY DEF SplitNode, TypeOK
<1>8. CASE /\ fwd' = [fwd EXCEPT ![jump].children = Put(jump, low, jump)]
           /\ node' = [node EXCEPT ![n].prefix = high]
           /\ UNCHANGED <<nodes, totsize, entry, stack>>
  <2>1. FwdsOK'
    BY <1>1, <1>6, <1>7, <1>8, FwdUpdate DEF TypeOK, FwdsOK
  <2>2. node' \in [NodeIds -> Node]
    BY <1>1, <1>5, <1>8 DEF TypeOK, BucketsOK
  <2>3. QED
    BY <1>7, <1>8, <2>1, <2>2 DEF TypeOK, BucketsOK
<1>9. CASE /\ fwd' = [fwd EXCEPT ![jump].children = Put(jump, high, jump)]
           /\ node' = [node EXCEPT ![n].prefix = low]
           /\ UNCHANGED <<nodes, entry, stack>>
  <2>1. FwdsOK'
    BY <1>1, <1>6, <1>7, <1>9, FwdUpdate DEF TypeOK, FwdsOK
  <2>2. node' \in [NodeIds -> Node]
    BY <1>1, <1>5, <1>9 DEF TypeOK, BucketsOK
  <2>3. QED
    BY <1>7, <1>9, <2>1, <2>2 DEF TypeOK, BucketsOK
<1>10. CASE /\ nodes # NodeIds
            /\ nodes' = nodes \cup {h}
            /\ fwd' = [fwd EXCEPT ![jump].children = Put(jump, high, h)]
            /\ node' = [node EXCEPT ![n] = [old EXCEPT !.prefix = low, !.items = lows],
                                    ![h] = [prefix |-> high, parent |-> jump, items |-> highs]]
            /\ entry' = Own(h, highs)
            /\ Return
  <2>1. h \in NodeIds
    BY <1>10 DEF FreshNode, TypeOK, BucketsOK
  <2>2. FwdsOK'
    BY <1>1, <1>6, <1>7, <1>10, <2>1, FwdUpdate DEF TypeOK, FwdsOK
  <2>3. node' \in [NodeIds -> Node]
    BY <1>1, <1>5, <1>10 DEF TypeOK, BucketsOK
  <2>4. entry' \in [Keys -> NodeIds \cup {Null}] /\ nodes' \subseteq NodeIds
    BY <1>10, <2>1, OwnType DEF TypeOK, BucketsOK
  <2>5. stack' \in Seq(Frames)
    BY <1>1, <1>10 DEF Return
  <2>6. QED
    BY <1>7, <2>2, <2>3, <2>4, <2>5 DEF TypeOK, BucketsOK
<1>11. QED
  BY <1>8, <1>9, <1>10 DEF SplitNode

\* split_node on a bucket that has used up its bits goes on to split_fwd.
LEMMA SplitExhaustedType ==
  ASSUME TypeOK, SplitExhausted PROVE TypeOK'
<1>1. Tail(stack) \in Seq(Frames)
  BY SplitArguments DEF SplitExhausted
<1>2. QED
  BY <1>1 DEF SplitExhausted, Return, TypeOK, FwdsOK, BucketsOK

\* move_data makes items of items.
LEMMA CutItemType ==
  ASSUME NEW items \in Seq(Items), NEW i \in DOMAIN items, NEW count, NEW b, NEW size
  PROVE  CutItem(items, i, count, b, size) \in Items
<1> DEFINE it == items[i]
<1>1. it \in Items /\ it.first[2] \in Byte /\ it.res \in Seq(Byte)
  <2>1. it \in Items
    OBVIOUS
  <2>2. QED
    BY <2>1 DEF Items
<1>2. 0 \in Byte
  BY EncodingAssumption DEF Byte
<1>3. SubSeq(it.res, 2, Len(it.res)) \in Seq(Byte)
  BY <1>1
<1>4. it.res # <<>> => it.res[1] \in Byte
  BY <1>1
<1>5. \A x \in Byte : [it EXCEPT !.first = <<it.first[2], x>>,
                                  !.res = SubSeq(it.res, 2, Len(it.res))] \in Items
  BY <1>1, <1>3 DEF Items
<1>6. QED
  BY <1>2, <1>4, <1>5 DEF CutItem

\* What an operation does to fwd that makes or frees a forwarding node.
LEMMA FwdReplace ==
  ASSUME FwdsOK, NEW f \in FwdIds, NEW new \in [Slots -> Children], NEW g \in FwdIds,
         NEW r \in Fwd, g # Root => r.parent \in FwdIds,
         fwd' = [fwd EXCEPT ![f].children = new, ![g] = r]
  PROVE  /\ fwd' \in [FwdIds -> Fwd]
         /\ \A x \in FwdIds \ {Root} : fwd'[x].parent \in FwdIds
<1> DEFINE mid == [fwd EXCEPT ![f].children = new]
<1>1. [fwd[f] EXCEPT !.children = new] \in Fwd
  BY DEF FwdsOK, Fwd
<1>2. [fwd[f] EXCEPT !.children = new].parent = fwd[f].parent
  BY DEF FwdsOK, Fwd
<1>3. mid = [fwd EXCEPT ![f] = [fwd[f] EXCEPT !.children = new]]
  OBVIOUS
<1>4. mid \in [FwdIds -> Fwd] /\ \A x \in FwdIds \ {Root} : mid[x].parent \in FwdIds
  <2> HIDE DEF mid
  <2>1. QED
    BY <1>1, <1>2, <1>3 DEF FwdsOK
<1>5. fwd' = [mid EXCEPT ![g] = r]
  OBVIOUS
<1>6. QED
  <2> HIDE DEF mid
  <2>1. QED
    BY <1>4, <1>5

\* split_fwd: the new node and the buckets below it are typed, whichever of them
\* stay empty.
LEMMA SplitFwdType ==
  ASSUME TypeOK, SplitFwd PROVE TypeOK'
<1> DEFINE n == Top.node
           old == node[n]
           b == Top.p \div BDIV
           size == Positive(Top.size) + b
           p == Top.p + 1
           cut == IF p % BDIV = 0 THEN 1 ELSE 0
           count == LowCount(old.items, 1 + cut, p % BDIV, 1)
           moved == [i \in DOMAIN old.items |->
                       IF cut = 1 THEN CutItem(old.items, i, count, b, size) ELSE old.items[i]]
           lows == SubSeq(moved, 1, count)
           highs == SubSeq(moved, count + 1, Len(moved))
           g == FreshFwd
           l == FreshNode
           Branch(x, y) == [parent |-> Top.fwd, path |-> Pad(old.prefix),
                            children |-> [s \in Slots |-> IF s[1] = 0 THEN x ELSE y]]
           Link(x, y) == fwd' = [fwd EXCEPT ![Top.fwd].children = Put(Top.fwd, old.prefix, g),
                                            ![g] = Branch(x, y)]
<1>1. /\ n \in NodeIds /\ Top.fwd \in FwdIds /\ old \in Node /\ old.items \in Seq(Items)
      /\ old.prefix \in SlotPrefixes /\ Tail(stack) \in Seq(Frames)
      /\ Top.size \in Int /\ Top.p \in Nat
  BY ZenonT(60), SplitArguments DEF SplitFwd
<1>2. g \in FwdIds /\ g # Root
  BY ZenonT(60) DEF SplitFwd, FreshFwd, TypeOK, FwdsOK
<1>3. count \in 0 .. Len(old.items)
  <2>1. \A i, r, d : {x \in DOMAIN old.items :
          \A y \in 1 .. x : SlotTable[old.items[y].first[i]][r][d] = 0} \in SUBSET (DOMAIN old.items)
    OBVIOUS
  <2>2. QED
    BY <1>1, <2>1, PositionCount DEF LowCount
<1>4. moved \in Seq(Items) /\ Len(moved) = Len(old.items)
  <2>1. \A i \in DOMAIN old.items : moved[i] \in Items
    BY <1>1, CutItemType
  <2>2. DOMAIN moved = 1 .. Len(old.items) /\ Len(old.items) \in Nat
    BY <1>1
  <2>3. moved = [i \in 1 .. Len(old.items) |-> moved[i]]
    BY <2>2
  <2> HIDE DEF moved
  <2>4. QED
    BY <1>1, <2>1, <2>2, <2>3
<1>5. lows \in Seq(Items) /\ highs \in Seq(Items)
  <2> HIDE DEF moved, count
  <2>1. QED
    BY <1>3, <1>4, PartsType
<1>6. <<0>> \in SlotPrefixes /\ <<1>> \in SlotPrefixes /\ Pad(old.prefix) \in Slots
  BY <1>1, PrefixTypes
<1>7. /\ [prefix |-> <<1>>, parent |-> g, items |-> highs] \in Node
      /\ [prefix |-> <<0>>, parent |-> g, items |-> lows] \in Node
  <2> HIDE DEF lows, highs
  <2>1. QED
    BY <1>2, <1>5, <1>6, NewNodeType
<1>8. \A x, y \in Children : Link(x, y) =>
        /\ fwd' \in [FwdIds -> Fwd]
        /\ \A f \in FwdIds \ {Root} : fwd'[f].parent \in FwdIds
  <2>1. Put(Top.fwd, old.prefix, g) \in [Slots -> Children]
    BY <1>1, <1>2, ChildrenType DEF TypeOK, Children
  <2>2. \A x, y \in Children : Branch(x, y) \in Fwd /\ Branch(x, y).parent \in FwdIds
    BY <1>1, <1>6 DEF Fwd
  <2> HIDE DEF Branch
  <2>3. SUFFICES ASSUME NEW x \in Children, NEW y \in Children, Link(x, y)
                 PROVE  /\ fwd' \in [FwdIds -> Fwd]
                        /\ \A f \in FwdIds \ {Root} : fwd'[f].parent \in FwdIds
    OBVIOUS
  <2>4. QED
    BY <1>1, <1>2, <2>1, <2>2, <2>3, FwdReplace DEF TypeOK
<1>9. fwds' = fwds \cup {g} /\ fault' \in BOOLEAN /\ heap' \in Int
  <2>1. fwds' = fwds \cup {g} /\ fault' \in BOOLEAN
    BY DEF SplitFwd
  <2>2. BlocksFreed(old.items, b, size) \in Nat
    BY <1>1, PositionCount DEF BlocksFreed
  <2>3. heap' = heap - cut * BlocksFreed(old.items, b, size)
    BY DEF SplitFwd
  <2>4. cut \in {0, 1}
    OBVIOUS
  <2> HIDE DEF cut
  <2>5. QED
    BY <2>1, <2>2, <2>3, <2>4 DEF TypeOK
<1>10. Frame("split", n, g, Top.size - cut, p) \in Frames
  <2>1. Top.size - cut \in Int /\ p \in Nat /\ p \in Int
    BY <1>1
  <2> HIDE DEF n, g, cut, p
  <2>2. n \in NodeIds /\ g \in FwdIds
    BY <1>1, <1>2
  <2>3. QED
    BY <2>1, <2>2, FrameTypes
<1>11. g \in Children /\ n \in Children /\ (nodes # NodeIds => l \in NodeIds /\ l \in Children)
  BY <1>1, <1>2 DEF Children, FreshNode, TypeOK, BucketsOK
<1>12. \/ /\ Link(g, n)
          /\ node' = [node EXCEPT ![n] = [prefix |-> <<1>>, parent |-> g, items |-> highs]]
          /\ Become(Frame("split", n, g, Top.size - cut, p))
          /\ UNCHANGED <<nodes, entry>>
       \/ /\ Link(n, g)
          /\ node' = [node EXCEPT ![n] = [prefix |-> <<0>>, parent |-> g, items |-> lows]]
          /\ Become(Frame("split", n, g, Top.size - cut, p))
          /\ UNCHANGED <<nodes, entry>>
       \/ /\ nodes # NodeIds
          /\ nodes' = nodes \cup {l}
          /\ Link(l, n)
          /\ node' = [node EXCEPT ![n] = [prefix |-> <<1>>, parent |-> g, items |-> highs],
                                  ![l] = [prefix |-> <<0>>, parent |-> g, items |-> lows]]
          /\ entry' = Own(l, lows)
          /\ Return
  BY DEF SplitFwd
<1> HIDE DEF n, g, l, lows, highs, cut, p, Link
<1>13. FwdsOK'
  <2>1. \E x, y \in Children : Link(x, y)
    BY <1>11, <1>12
  <2>2. /\ fwd' \in [FwdIds -> Fwd]
        /\ \A f \in FwdIds \ {Root} : fwd'[f].parent \in FwdIds
    BY <1>8, <2>1
  <2>3. QED
    BY <1>2, <1>9, <2>2 DEF TypeOK, FwdsOK
<1>14. BucketsOK'
  BY SMTT(60), <1>1, <1>7, <1>11, <1>12, OwnType DEF TypeOK, BucketsOK
<1>15. stack' \in Seq(Frames)
  BY <1>1, <1>10, <1>12, BecomeType
<1>16. QED
  BY <1>9, <1>13, <1>14, <1>15 DEF TypeOK

-----------------------------------------------------------------------------
(* erase and the merges *)

\* erase: the item goes, and if merge_down is called it is with a bucket.
LEMMA EraseType ==
  ASSUME TypeOK, NEW k \in Keys, Erase(k) PROVE TypeOK'
<1> DEFINE m == BestMatch(k)
           n == m.base
           items == node[n].items
           left == RemoveAt(items, m.index)
           on_heap == Len(k) - m.p \div BDIV
<1>1. Located(k, m) /\ n \in NodeIds /\ m.found
  BY DEF Erase
<1>2. m.p \in Nat /\ m.index \in 1 .. Len(items)
  BY <1>1, MatchType DEF TypeOK
<1>3. items \in Seq(Items)
  BY <1>1 DEF TypeOK, BucketsOK, Node
<1>4. left \in Seq(Items)
  <2> HIDE DEF items
  <2>1. QED
    BY <1>2, <1>3, RemoveAtType
<1>5. on_heap \in Int /\ m.p \in Int
  <2>1. m.p \div BDIV \in Nat
    BY <1>2, Levels
  <2>2. k \in Seq(Byte)
    BY EncodingAssumption
  <2>3. QED
    BY <1>2, <2>1, <2>2
<1>6. node' = [node EXCEPT ![n].items = left] /\ entry' = [entry EXCEPT ![k] = Null]
      /\ stack' = <<Frame("merge_down", n, Null, on_heap, m.p)>>
      /\ UNCHANGED <<fwds, fwd, nodes>>
  BY DEF Erase
<1>7. heap' \in Int /\ fault' \in BOOLEAN
  BY DEF Erase, TypeOK
<1> HIDE DEF m, left, on_heap
<1>8. [node[n] EXCEPT !.items = left] \in Node
  BY <1>1, <1>4 DEF TypeOK, BucketsOK, Node
<1>9. BucketsOK'
  BY <1>1, <1>6, <1>8 DEF TypeOK, BucketsOK
<1>10. stack' \in Seq(Frames)
  <2>1. \A x \in Frames : <<x>> \in Seq(Frames)
    OBVIOUS
  <2>2. Frame("merge_down", n, Null, on_heap, m.p) \in Frames
    BY <1>1, <1>5, PTrieAssumption, FrameTypes
  <2>3. QED
    BY <1>6, <2>1, <2>2
<1>11. QED
  BY <1>6, <1>7, <1>9, <1>10 DEF TypeOK, FwdsOK

\* The arguments of a merge in progress.
LEMMA MergeArguments ==
  ASSUME TypeOK, Running("merge_down") \/ Running("after_readd")
  PROVE  /\ Top.node \in NodeIds /\ Top.size \in Int /\ Top.p \in Int
         /\ node[Top.node] \in Node /\ node[Top.node].items \in Seq(Items)
         /\ node[Top.node].prefix \in SlotPrefixes /\ node[Top.node].parent \in FwdIds
         /\ Tail(stack) \in Seq(Frames)
         /\ \A c \in NodeIds : MergeDown(c) => stack' \in Seq(Frames)
         /\ Return => stack' \in Seq(Frames)
<1>1. /\ Top \in Frames /\ Top.fn \in {"merge_down", "after_readd"}
      /\ Tail(stack) \in Seq(Frames)
  BY StackType DEF TypeOK, Running
<1>2. Top \in Merges
  BY <1>1 DEF Frames, Splits, Merges, Climbs
<1>3. Top.node \in NodeIds /\ Top.size \in Int /\ Top.p \in Int
  BY <1>2 DEF Merges
<1>4. \A c \in NodeIds : Frame("merge_down", c, Null, Top.size, Top.p) \in Frames
  BY <1>3, PTrieAssumption, FrameTypes
<1>5. \A c \in NodeIds : MergeDown(c) => stack' \in Seq(Frames)
  BY <1>1, <1>4, BecomeType DEF MergeDown
<1>6. Return => stack' \in Seq(Frames)
  BY <1>1 DEF Return
<1>7. QED
  BY <1>1, <1>3, <1>5, <1>6 DEF TypeOK, BucketsOK, Node

\* merge_down returns at once.
LEMMA MergeDownStopType ==
  ASSUME TypeOK, MergeDownStop PROVE TypeOK'
<1>1. stack' \in Seq(Frames)
  BY MergeArguments DEF MergeDownStop
<1>2. QED
  BY <1>1 DEF MergeDownStop, TypeOK, FwdsOK, BucketsOK

\* merge_down is called again after the byte was put back.
LEMMA AfterReaddType ==
  ASSUME TypeOK, AfterReadd PROVE TypeOK'
<1>1. stack' \in Seq(Frames)
  BY MergeArguments DEF AfterReadd
<1>2. QED
  BY <1>1 DEF AfterReadd, TypeOK, FwdsOK, BucketsOK

\* inject_byte makes items of items.
LEMMA InjectByteType ==
  ASSUME NEW items \in Seq(Items), NEW y \in Byte, NEW size
  PROVE  InjectByte(items, y, size) \in Seq(Items)
<1> DEFINE New(i) == [items[i] EXCEPT
                        !.first = <<y, items[i].first[1]>>,
                        !.res = IF size[i] > 0 THEN <<items[i].first[2]>> \o @ ELSE @]
<1>1. ASSUME NEW i \in DOMAIN items PROVE New(i) \in Items
  <2>1. items[i] \in Items
    OBVIOUS
  <2>2. /\ items[i].first[1] \in Byte /\ items[i].first[2] \in Byte
        /\ items[i].res \in Seq(Byte)
    BY <2>1 DEF Items
  <2>3. <<items[i].first[2]>> \o items[i].res \in Seq(Byte)
    BY <2>2
  <2>4. QED
    BY <2>1, <2>2, <2>3 DEF Items
<1>2. DOMAIN items = 1 .. Len(items) /\ Len(items) \in Nat
  OBVIOUS
<1>3. InjectByte(items, y, size) = [i \in 1 .. Len(items) |-> New(i)]
  BY <1>2 DEF InjectByte
<1> HIDE DEF New
<1>4. QED
  BY <1>1, <1>2, <1>3

\* readd_byte: the items get a byte back, and the bucket goes one node up.
LEMMA ReaddByteType ==
  ASSUME TypeOK, ReaddByte PROVE TypeOK'
<1> DEFINE n == Top.node
           items == node[n].items
           f == node[n].parent
           up == fwd[f].parent
           carry == Top.p % BDIV = 0
           on_heap == IF carry THEN Top.size + 1 ELSE Top.size
           b == Top.p \div BDIV - 1
           size == [i \in DOMAIN items |->
                      IF Top.p <= BDIV THEN ((on_heap + b) \div Base) * Base + items[i].first[1]
                                       ELSE Positive(on_heap)]
<1>1. /\ n \in NodeIds /\ Top.size \in Int /\ Top.p \in Int
      /\ items \in Seq(Items) /\ f \in FwdIds /\ f # Root
      /\ Tail(stack) \in Seq(Frames)
  BY MergeArguments DEF ReaddByte, Merging
<1>2. up \in FwdIds /\ fwd[f].path \in Slots
  BY <1>1 DEF TypeOK, FwdsOK, Fwd
<1>3. fwd[f].path \in SlotPrefixes
  BY <1>2, PrefixTypes
<1>4. PICK y \in IF carry THEN GetByte(f) ELSE {0} :
        node' = [node EXCEPT ![n] =
                   [prefix |-> fwd[f].path, parent |-> up,
                    items |-> IF carry THEN InjectByte(items, y, size) ELSE items]]
  BY DEF ReaddByte
<1>5. y \in Byte
  BY EncodingAssumption DEF GetByte, Byte
<1>6. (IF carry THEN InjectByte(items, y, size) ELSE items) \in Seq(Items)
  <2> HIDE DEF items, size, carry
  <2>1. QED
    BY <1>1, <1>5, InjectByteType
<1>7. BucketsOK'
  <2> DEFINE moved == IF carry THEN InjectByte(items, y, size) ELSE items
  <2>1. [prefix |-> fwd[f].path, parent |-> up, items |-> moved] \in Node
    <3>1. moved \in Seq(Items)
      BY <1>6
    <3> HIDE DEF moved
    <3>2. QED
      BY <1>2, <1>3, <3>1, NewNodeType
  <2>2. UNCHANGED <<nodes, entry>>
    BY DEF ReaddByte
  <2>3. QED
    BY <1>1, <1>4, <2>1, <2>2 DEF TypeOK, BucketsOK
<1>8. FwdsOK'
  <2>1. /\ fwd' = [fwd EXCEPT ![up].children = Put(up, fwd[f].path, n), ![f] = DeadFwd]
        /\ fwds' = fwds \ {f}
    BY DEF ReaddByte
  <2>2. Put(up, fwd[f].path, n) \in [Slots -> Children]
    BY <1>1, <1>2, ChildrenType DEF TypeOK, Children
  <2>3. DeadFwd \in Fwd /\ DeadFwd.parent \in FwdIds
    BY DeadTypes, PTrieAssumption
  <2> HIDE DEF f, up
  <2>4. /\ fwd' \in [FwdIds -> Fwd]
        /\ \A x \in FwdIds \ {Root} : fwd'[x].parent \in FwdIds
    BY <1>1, <1>2, <2>1, <2>2, <2>3, FwdReplace DEF TypeOK
  <2>5. QED
    BY <1>1, <2>1, <2>4 DEF TypeOK, FwdsOK
<1>9. heap' \in Int /\ fault' \in BOOLEAN
  <2>1. Cardinality({i \in DOMAIN items : size[i] = HEAPBOUND}) \in Nat
    <3> HIDE DEF items, size
    <3>1. {i \in DOMAIN items : size[i] = HEAPBOUND} \in SUBSET (DOMAIN items)
      OBVIOUS
    <3>2. QED
      BY <1>1, <3>1, PositionCount
  <2>2. \/ heap' = heap + Cardinality({i \in DOMAIN items : size[i] = HEAPBOUND})
        \/ heap' = heap
    BY ZenonT(60) DEF ReaddByte
  <2>3. fault' \in BOOLEAN
    BY DEF ReaddByte
  <2>4. PICK c : c = Cardinality({i \in DOMAIN items : size[i] = HEAPBOUND})
    OBVIOUS
  <2>5. c \in Nat /\ (heap' = heap + c \/ heap' = heap)
    BY ZenonT(60), <2>1, <2>2, <2>4
  <2>6. heap \in Int
    BY DEF TypeOK
  <2> HIDE DEF items, size, carry, on_heap
  <2>7. heap' \in Int
    BY <2>5, <2>6
  <2>8. QED
    BY <2>3, <2>7
<1>10. stack' \in Seq(Frames)
  <2>1. on_heap \in Int /\ Top.p - 1 \in Int
    BY <1>1
  <2> HIDE DEF on_heap
  <2>2. /\ Frame("merge_down", n, Null, on_heap, Top.p - 1) \in Frames
        /\ Frame("after_readd", n, Null, Top.size, Top.p) \in Frames
    BY <1>1, <2>1, FrameTypes
  <2>3. stack' = <<Frame("merge_down", n, Null, on_heap, Top.p - 1),
                   Frame("after_readd", n, Null, Top.size, Top.p)>> \o Tail(stack)
    BY DEF ReaddByte, on_heap
  <2>4. \A x, z \in Frames : <<x, z>> \in Seq(Frames)
    OBVIOUS
  <2>5. QED
    BY <1>1, <2>2, <2>3, <2>4
<1>11. QED
  BY <1>7, <1>8, <1>9, <1>10 DEF TypeOK

\* Free n, all its slots becoming c.
LEMMA DeleteType ==
  ASSUME TypeOK, NEW n \in NodeIds, NEW c \in Children, Delete(n, c), fwds' = fwds
  PROVE  FwdsOK' /\ nodes' \subseteq NodeIds
<1>1. node[n].parent \in FwdIds
  BY DEF TypeOK, BucketsOK, Node
<1>2. Put(node[n].parent, node[n].prefix, c) \in [Slots -> Children]
  BY <1>1, ChildrenType DEF TypeOK
<1>3. /\ fwd' = [fwd EXCEPT ![node[n].parent].children = Put(node[n].parent, node[n].prefix, c)]
      /\ nodes' = nodes \ {n}
  BY DEF Delete
<1>4. /\ fwd' \in [FwdIds -> Fwd]
      /\ \A x \in FwdIds : fwd'[x].parent = fwd[x].parent
  BY <1>1, <1>2, <1>3, FwdUpdate DEF TypeOK
<1>5. QED
  BY <1>3, <1>4 DEF TypeOK, FwdsOK, BucketsOK

\* merge_empty: the bucket is deleted, and the loop begins at a forwarding node.
LEMMA MergeEmptyType ==
  ASSUME TypeOK, MergeEmpty PROVE TypeOK'
<1> DEFINE n == Top.node
           f == node[n].parent
<1>1. /\ n \in NodeIds /\ f \in FwdIds /\ Top.size \in Int /\ Top.p \in Int
      /\ Tail(stack) \in Seq(Frames)
  BY MergeArguments DEF MergeEmpty, Merging
<1>2. /\ fwd' = [fwd EXCEPT ![f].children = Swap(f, n, f)] /\ fwds' = fwds
      /\ node' = [node EXCEPT ![n] = DeadNode] /\ nodes' = nodes \ {n} /\ entry' = entry
      /\ Become(Frame("climb", Null, f, Top.size, Top.p))
      /\ fault' \in BOOLEAN /\ heap' = heap
  BY DEF MergeEmpty
<1> HIDE DEF f
<1>3. Swap(f, n, f) \in [Slots -> Children]
  BY <1>1, ChildrenType DEF TypeOK, Children
<1>4. FwdsOK'
  BY <1>1, <1>2, <1>3, FwdUpdate DEF TypeOK, FwdsOK
<1>5. BucketsOK'
  BY <1>1, <1>2, DeadTypes DEF TypeOK, BucketsOK
<1>6. stack' \in Seq(Frames)
  <2>1. Frame("climb", Null, f, Top.size, Top.p) \in Frames
    BY <1>1, FrameTypes
  <2>2. QED
    BY <1>1, <1>2, <2>1, BecomeType
<1>7. QED
  BY <1>2, <1>4, <1>5, <1>6 DEF TypeOK

\* The loop of merge_empty: the node it deletes is not the root.
LEMMA ClimbType ==
  ASSUME TypeOK, Climb PROVE TypeOK'
<1> DEFINE f == Top.fwd
           up == fwd[f].parent
           others == {fwd[f].children[s] : s \in Slots} \ {f}
           on_heap == IF (Top.p - 1) % BDIV = 0 THEN Top.size + 1 ELSE Top.size
           barren == f # Root /\ others = {}
           c == CHOOSE c \in NodeIds : c \in others
<1>1. /\ f \in FwdIds /\ Top.size \in Int /\ Top.p \in Int
      /\ Tail(stack) \in Seq(Frames)
  <2>1. Top \in Frames /\ Top.fn = "climb" /\ Tail(stack) \in Seq(Frames)
    BY StackType DEF Climb, Running, TypeOK
  <2>2. Top \in Climbs
    BY <2>1 DEF Frames, Splits, Merges, Climbs
  <2>3. QED
    BY <2>1, <2>2 DEF Climbs
<1>2. UNCHANGED <<nodes, node, totsize, entry, heap, fault>>
  BY DEF Climb
<1>3. BucketsOK' /\ heap' \in Int /\ fault' \in BOOLEAN
  BY <1>2 DEF TypeOK, BucketsOK
<1>4. on_heap \in Int /\ Top.p - 1 \in Int
  BY <1>1
<1>5. CASE barren
  <2>1. f # Root /\ up \in FwdIds
    BY <1>1, <1>5 DEF TypeOK, FwdsOK
  <2>2. /\ fwd' = [fwd EXCEPT ![up].children = Put(up, fwd[f].path, up), ![f] = DeadFwd]
        /\ fwds' = fwds \ {f}
        /\ Become(Frame("climb", Null, up, on_heap, Top.p - 1))
    BY <1>5 DEF Climb
  <2> HIDE DEF f, up, on_heap
  <2>3. Put(up, fwd[f].path, up) \in [Slots -> Children]
    BY <2>1, ChildrenType DEF TypeOK, Children
  <2>4. DeadFwd \in Fwd /\ DeadFwd.parent \in FwdIds
    BY DeadTypes, PTrieAssumption
  <2>5. /\ fwd' \in [FwdIds -> Fwd]
        /\ \A x \in FwdIds \ {Root} : fwd'[x].parent \in FwdIds
    BY <1>1, <2>1, <2>2, <2>3, <2>4, FwdReplace DEF TypeOK
  <2>6. FwdsOK'
    BY <2>1, <2>2, <2>5 DEF TypeOK, FwdsOK
  <2>7. Frame("climb", Null, up, on_heap, Top.p - 1) \in Frames
    BY <1>4, <2>1 DEF Frame, Frames, Climbs
  <2>8. stack' \in Seq(Frames)
    BY <1>1, <2>2, <2>7, BecomeType
  <2>9. QED
    BY <1>3, <2>6, <2>8 DEF TypeOK
<1>6. CASE ~ barren
  <2>1. fwd' = fwd /\ fwds' = fwds
    BY <1>6 DEF Climb
  <2>2. \/ Cardinality(others) = 1 /\ others \subseteq NodeIds /\ MergeDown(c)
        \/ Return
    BY <1>6 DEF Climb
  <2>3. Cardinality(others) = 1 /\ others \subseteq NodeIds => c \in NodeIds
    <3> HIDE DEF others
    <3>1. Cardinality(others) = 1 => others # {}
      BY FS_EmptySet
    <3>2. QED
      BY <3>1
  <2>4. stack' \in Seq(Frames)
    <3> HIDE DEF c, others
    <3>1. c \in NodeIds => Frame("merge_down", c, Null, Top.size, Top.p) \in Frames
      BY <1>1, FrameTypes
    <3>2. QED
      BY <1>1, <2>2, <2>3, <3>1, BecomeType DEF MergeDown
  <2>5. QED
    BY <1>3, <2>1, <2>4 DEF TypeOK, FwdsOK
<1>7. QED
  BY <1>5, <1>6

\* merge_regular, where the buddy is split finer.
LEMMA MergeFinerType ==
  ASSUME TypeOK, MergeFiner PROVE TypeOK'
<1> DEFINE n == Top.node
           c == BuddyOf(n)
<1>1. /\ n \in NodeIds /\ node[n].parent \in FwdIds
      /\ \A d \in NodeIds : MergeDown(d) => stack' \in Seq(Frames)
      /\ Return => stack' \in Seq(Frames)
  BY MergeArguments DEF MergeFiner, MergingRegular, Merging
<1>2. c \in NodeIds
  BY DEF MergeFiner
<1>3. stack' \in Seq(Frames)
  BY <1>1, <1>2 DEF MergeFiner
<1>4. UNCHANGED <<fwds, totsize, entry, heap>> /\ fault' \in BOOLEAN
  BY DEF MergeFiner
<1>5. CASE Delete(n, node[n].parent) /\ node' = [node EXCEPT ![n] = DeadNode]
  <2>1. FwdsOK' /\ nodes' \subseteq NodeIds
    BY <1>1, <1>4, <1>5, DeleteType DEF Children
  <2>2. BucketsOK'
    BY <1>1, <1>4, <1>5, <2>1, DeadTypes DEF TypeOK, BucketsOK
  <2>3. QED
    BY <1>3, <1>4, <2>1, <2>2 DEF TypeOK
<1>6. CASE UNCHANGED <<fwd, nodes, node>>
  BY <1>3, <1>4, <1>6 DEF TypeOK, FwdsOK, BucketsOK
<1>7. QED
  BY <1>5, <1>6 DEF MergeFiner

\* merge_regular, where the buddy is a bucket of the same prefix length.
LEMMA MergeBuddyType ==
  ASSUME TypeOK, MergeBuddy PROVE TypeOK'
<1> DEFINE n == Top.node
           x == node[n]
           c == BuddyOf(n)
           y == node[c]
           both == Joined(x.prefix, x.items, y.items)
<1>1. /\ n \in NodeIds /\ x \in Node /\ x.items \in Seq(Items) /\ x.prefix \in SlotPrefixes
      /\ \A d \in NodeIds : MergeDown(d) => stack' \in Seq(Frames)
      /\ Return => stack' \in Seq(Frames)
  BY MergeArguments DEF MergeBuddy, MergingRegular, Merging
<1>2. c \in NodeIds
  BY DEF MergeBuddy
<1>3. y \in Node /\ y.items \in Seq(Items) /\ y.prefix \in SlotPrefixes
  BY <1>2 DEF TypeOK, BucketsOK, Node
<1>4. both \in Seq(Items) /\ Front(x.prefix) \in SlotPrefixes /\ Front(y.prefix) \in SlotPrefixes
  BY <1>1, <1>3, PrefixTypes DEF Joined
<1>5. /\ [y EXCEPT !.prefix = Front(y.prefix)] \in Node
      /\ [x EXCEPT !.items = both, !.prefix = Front(x.prefix)] \in Node
  BY <1>1, <1>3, <1>4 DEF Node
<1>6. UNCHANGED <<fwds, heap>>
  BY DEF MergeBuddy
<1>7. fault' \in BOOLEAN
  BY DEF MergeBuddy
<1>8. \/ /\ Delete(n, c)
         /\ node' = [node EXCEPT ![n] = DeadNode, ![c].prefix = Front(y.prefix)]
         /\ MergeDown(c)
         /\ UNCHANGED entry
      \/ /\ Return
         /\ UNCHANGED <<fwd, nodes, node, entry>>
      \/ /\ Delete(c, n)
         /\ node' = [node EXCEPT ![n].items = both, ![n].prefix = Front(@), ![c] = DeadNode]
         /\ entry' = Own(n, both)
         /\ MergeDown(n)
  BY DEF MergeBuddy
<1> HIDE DEF c
<1>9. CASE /\ Delete(n, c)
           /\ node' = [node EXCEPT ![n] = DeadNode, ![c].prefix = Front(y.prefix)]
           /\ MergeDown(c)
           /\ UNCHANGED entry
  <2>1. FwdsOK' /\ nodes' \subseteq NodeIds
    BY <1>1, <1>2, <1>6, <1>9, DeleteType DEF Children
  <2>2. node' \in [NodeIds -> Node]
    <3> DEFINE mid == [node EXCEPT ![n] = DeadNode]
    <3>1. mid \in [NodeIds -> Node]
      BY <1>1, DeadTypes DEF TypeOK, BucketsOK
    <3>2. node' = [mid EXCEPT ![c].prefix = Front(y.prefix)]
      BY <1>9
    <3> HIDE DEF mid
    <3>3. [mid[c] EXCEPT !.prefix = Front(y.prefix)] \in Node
      BY <1>2, <1>4, <3>1 DEF Node
    <3>4. QED
      BY <1>2, <3>1, <3>2, <3>3
  <2>3. stack' \in Seq(Frames)
    BY <1>1, <1>2, <1>9
  <2>4. QED
    BY <1>6, <1>7, <1>9, <2>1, <2>2, <2>3 DEF TypeOK, BucketsOK
<1>10. CASE Return /\ UNCHANGED <<fwd, nodes, node, entry>>
  BY <1>1, <1>6, <1>7, <1>10 DEF TypeOK, FwdsOK, BucketsOK
<1>11. CASE /\ Delete(c, n)
            /\ node' = [node EXCEPT ![n].items = both, ![n].prefix = Front(@), ![c] = DeadNode]
            /\ entry' = Own(n, both)
            /\ MergeDown(n)
  <2>1. FwdsOK' /\ nodes' \subseteq NodeIds
    BY <1>1, <1>2, <1>6, <1>11, DeleteType DEF Children
  <2>2. node' \in [NodeIds -> Node]
    <3> DEFINE mid == [node EXCEPT ![n].items = both, ![n].prefix = Front(@)]
    <3>1. mid = [node EXCEPT ![n] = [x EXCEPT !.items = both, !.prefix = Front(x.prefix)]]
      BY <1>1 DEF TypeOK, BucketsOK, Node
    <3>2. node' = [mid EXCEPT ![c] = DeadNode]
      BY <1>11
    <3> HIDE DEF mid, both
    <3>3. mid \in [NodeIds -> Node]
      BY <1>1, <1>5, <3>1 DEF TypeOK, BucketsOK
    <3>4. QED
      BY <1>2, <3>2, <3>3, DeadTypes
  <2>3. stack' \in Seq(Frames) /\ entry' \in [Keys -> NodeIds \cup {Null}]
    BY <1>1, <1>11, OwnType DEF TypeOK
  <2>4. QED
    BY <1>6, <1>7, <2>1, <2>2, <2>3 DEF TypeOK, BucketsOK
<1>12. QED
  BY <1>8, <1>9, <1>10, <1>11

\* merge_regular, where the buddy is the forwarding node itself or another one.
LEMMA MergeFwdType ==
  ASSUME TypeOK, MergeFwd PROVE TypeOK'
<1> DEFINE n == Top.node
           x == node[n]
           q == Front(x.prefix)
<1>1. /\ n \in NodeIds /\ x \in Node /\ x.parent \in FwdIds /\ x.prefix \in SlotPrefixes
      /\ \A d \in NodeIds : MergeDown(d) => stack' \in Seq(Frames)
      /\ Return => stack' \in Seq(Frames)
  BY MergeArguments DEF MergeFwd, MergingRegular, Merging
<1>2. stack' \in Seq(Frames) /\ fault' \in BOOLEAN /\ UNCHANGED <<fwds, entry, heap>>
  BY <1>1 DEF MergeFwd
<1>3. CASE Delete(n, x.parent) /\ node' = [node EXCEPT ![n] = DeadNode]
  <2>1. FwdsOK' /\ nodes' \subseteq NodeIds
    BY <1>1, <1>2, <1>3, DeleteType DEF Children
  <2>2. BucketsOK'
    BY <1>1, <1>2, <1>3, <2>1, DeadTypes DEF TypeOK, BucketsOK
  <2>3. QED
    BY <1>2, <2>1, <2>2 DEF TypeOK
<1>4. CASE UNCHANGED <<fwd, nodes, node>>
  BY <1>2, <1>4 DEF TypeOK, FwdsOK, BucketsOK
<1>5. CASE /\ fwd' = [fwd EXCEPT ![x.parent].children = Put(x.parent, q, n)]
           /\ node' = [node EXCEPT ![n].prefix = q]
           /\ UNCHANGED nodes
  <2>1. q \in SlotPrefixes
    BY <1>1, PrefixTypes
  <2>2. Put(x.parent, q, n) \in [Slots -> Children]
    BY <1>1, ChildrenType DEF TypeOK, Children
  <2>3. FwdsOK'
    <3> HIDE DEF q, x
    <3>1. QED
      BY <1>1, <1>2, <1>5, <2>2, FwdUpdate DEF TypeOK, FwdsOK
  <2>4. [x EXCEPT !.prefix = q] \in Node
    BY <1>1, <2>1 DEF Node
  <2>5. BucketsOK'
    BY <1>1, <1>2, <1>5, <2>4 DEF TypeOK, BucketsOK
  <2>6. QED
    BY <1>2, <2>3, <2>5 DEF TypeOK
<1>6. QED
  BY <1>3, <1>4, <1>5 DEF MergeFwd

\* Sets of places in finitely many buckets are finite.
LEMMA PlacesFinite ==
  ASSUME BucketsOK, NEW V \in SUBSET NodeIds
  PROVE  IsFiniteSet(UNION {{<<n, i>> : i \in DOMAIN node[n].items} : n \in V})
<1> DEFINE At(n) == {<<n, i>> : i \in DOMAIN node[n].items}
           Fam == {At(n) : n \in V}
<1>1. IsFiniteSet(V)
  BY PTrieAssumption, FS_Subset
<1>2. ASSUME NEW n \in V PROVE IsFiniteSet(At(n))
  <2> DEFINE at == [i \in DOMAIN node[n].items |-> <<n, i>>]
  <2>1. node[n].items \in Seq(Items)
    BY DEF BucketsOK, Node
  <2>2. DOMAIN node[n].items = 1 .. Len(node[n].items) /\ Len(node[n].items) \in Nat
    BY <2>1
  <2>3. IsFiniteSet(DOMAIN node[n].items)
    <3> DEFINE len == Len(node[n].items)
    <3>1. len \in Nat /\ DOMAIN node[n].items = 1 .. len
      BY <2>2
    <3> HIDE DEF len
    <3>2. IsFiniteSet(1 .. len)
      BY <3>1, FS_Interval
    <3>3. QED
      BY <3>1, <3>2
  <2>4. at \in Surjection(DOMAIN node[n].items, At(n))
    BY DEF Surjection
  <2>5. QED
    BY <2>3, <2>4, FS_Surjection
<1>3. IsFiniteSet(Fam)
  <2> DEFINE of == [n \in V |-> At(n)]
  <2>1. of \in Surjection(V, Fam)
    BY DEF Surjection
  <2>2. QED
    BY <1>1, <2>1, FS_Surjection
<1>4. \A U \in Fam : IsFiniteSet(U)
  BY <1>2
<1> HIDE DEF Fam
<1>5. IsFiniteSet(UNION Fam)
  BY <1>3, <1>4, FS_UNION
<1>6. QED
  BY <1>5 DEF Fam

\* The destructor leaves an empty trie, and counts finitely many blocks.
LEMMA DestroyType ==
  ASSUME TypeOK, Destroy PROVE TypeOK'
<1> DEFINE visited == {n \in NodeIds : \E f \in fwds, s \in Slots : fwd[f].children[s] = n}
           Len2(n, i) == CleanupLen(node[n].parent, node[n].items[i])
           places == UNION {{<<n, i>> : i \in DOMAIN node[n].items} : n \in visited}
           freed == {x \in places : Len2(x[1], x[2]) >= HEAPBOUND}
<1>1. heap' = heap - Cardinality(freed)
  BY DEF Destroy
<1>2. fault' \in BOOLEAN
  BY DEF Destroy
<1>3. IsFiniteSet(places)
  BY PlacesFinite DEF TypeOK
<1> HIDE DEF places
<1>4. Cardinality(freed) \in Nat
  BY <1>3, FS_Subset, FS_CardinalityType
<1> HIDE DEF freed
<1>5. heap' \in Int
  BY <1>1, <1>4 DEF TypeOK
<1>6. FwdsOK'
  BY PTrieAssumption, DeadTypes, EmptyRootType DEF Destroy, FwdsOK
<1>7. BucketsOK'
  BY DeadTypes DEF Destroy, BucketsOK
<1>8. QED
  BY <1>2, <1>5, <1>6, <1>7 DEF Destroy, TypeOK

\* The empty trie is well typed.
LEMMA InitType == Init => TypeOK
<1> SUFFICES ASSUME Init PROVE TypeOK
  OBVIOUS
<1>1. FwdsOK
  BY PTrieAssumption, DeadTypes, EmptyRootType DEF Init, FwdsOK
<1>2. BucketsOK
  BY DeadTypes DEF Init, BucketsOK
<1>3. heap \in Int
  BY DEF Init
<1>4. fault \in BOOLEAN
  BY DEF Init
<1>5. stack \in Seq(Frames)
  BY DEF Init
<1>6. QED
  BY <1>1, <1>2, <1>3, <1>4, <1>5 DEF TypeOK

\* Every step of the program keeps the types.
LEMMA NextType ==
  ASSUME TypeOK, [Next]_vars PROVE TypeOK'
<1>1. ASSUME NEW k \in Keys, InsertInNewBucket(k) PROVE TypeOK'
  BY <1>1, InsertInNewBucketType
<1>2. ASSUME NEW k \in Keys, InsertInBucket(k) PROVE TypeOK'
  BY <1>2, InsertInBucketType
<1>3. ASSUME NEW k \in Keys, Erase(k) PROVE TypeOK'
  BY <1>3, EraseType
<1>4. ASSUME NEW k \in Keys, LookUp(k) PROVE TypeOK'
  BY <1>4, LookUpType
<1>5. CASE Destroy
  BY <1>5, DestroyType
<1>6. CASE SplitNode
  BY <1>6, SplitNodeType
<1>7. CASE SplitExhausted
  BY <1>7, SplitExhaustedType
<1>8. CASE SplitFwd
  BY <1>8, SplitFwdType
<1>9. CASE MergeDownStop
  BY <1>9, MergeDownStopType
<1>10. CASE ReaddByte
  BY <1>10, ReaddByteType
<1>11. CASE AfterReadd
  BY <1>11, AfterReaddType
<1>12. CASE MergeEmpty
  BY <1>12, MergeEmptyType
<1>13. CASE Climb
  BY <1>13, ClimbType
<1>14. CASE MergeFiner
  BY <1>14, MergeFinerType
<1>15. CASE MergeBuddy
  BY <1>15, MergeBuddyType
<1>16. CASE MergeFwd
  BY <1>16, MergeFwdType
<1>17. CASE UNCHANGED vars
  BY <1>17 DEF vars, TypeOK, FwdsOK, BucketsOK
<1>18. QED
  BY <1>1, <1>2, <1>3, <1>4, <1>5, <1>6, <1>7, <1>8, <1>9, <1>10, <1>11, <1>12, <1>13,
     <1>14, <1>15, <1>16, <1>17 DEF Next, Continue

\* The variables of ptrie_base keep their types, whatever the alphabet, the bits a
\* forwarding node branches on, the split bound and the keys: in particular every
\* child of a forwarding node is a node of the trie or null, and the arguments of
\* every split_node and merge_down in progress are nodes.
THEOREM Typing == Spec => []TypeOK
<1>1. Init => TypeOK
  BY InitType
<1>2. TypeOK /\ [Next]_vars => TypeOK'
  BY NextType
<1>3. QED
  BY <1>1, <1>2, PTL DEF Spec

-----------------------------------------------------------------------------
(* Ranges of slots *)

\* Prefixes are sequences of bits, and slots are prefixes of full length.
LEMMA PrefixFacts ==
  /\ BSIZE \in Nat /\ BSIZE >= 2
  /\ \A q \in SlotPrefixes : /\ q \in Seq({0, 1}) /\ Len(q) \in 0 .. BSIZE
                             /\ DOMAIN q = 1 .. Len(q)
                             /\ \A i \in 1 .. Len(q) : q[i] \in {0, 1}
  /\ \A s \in Slots : /\ s \in SlotPrefixes /\ Len(s) = BSIZE
                      /\ \A i \in 1 .. BSIZE : s[i] \in {0, 1}
<1>1. BSIZE \in Nat /\ BSIZE >= 2
  BY EncodingAssumption
<1>2. ASSUME NEW q \in SlotPrefixes
      PROVE  /\ q \in Seq({0, 1}) /\ Len(q) \in 0 .. BSIZE
             /\ DOMAIN q = 1 .. Len(q)
             /\ \A i \in 1 .. Len(q) : q[i] \in {0, 1}
  BY <1>1 DEF SlotPrefixes
<1>3. ASSUME NEW s \in Slots
      PROVE  Len(s) = BSIZE /\ \A i \in 1 .. BSIZE : s[i] \in {0, 1}
  BY <1>1 DEF Slots
<1>4. QED
  BY <1>1, <1>2, <1>3, PrefixTypes

\* The range of a longer prefix that meets the range of a shorter one lies in it.
LEMMA Nested ==
  ASSUME NEW q \in SlotPrefixes, NEW r \in SlotPrefixes, Len(q) <= Len(r),
         NEW s, NEW t, Covers(q, s), Covers(r, s), Covers(r, t)
  PROVE  Covers(q, t)
<1>1. Len(q) \in Nat /\ Len(r) \in Nat
  BY PrefixFacts
<1>2. QED
  BY <1>1 DEF Covers

\* Ranges of the same size are equal or disjoint.
LEMMA SameRange ==
  ASSUME NEW q \in SlotPrefixes, NEW r \in SlotPrefixes, Len(q) = Len(r),
         NEW s, Covers(q, s), Covers(r, s)
  PROVE  q = r
<1>1. \A i \in 1 .. Len(q) : q[i] = r[i]
  BY DEF Covers
<1>2. q \in Seq({0, 1}) /\ r \in Seq({0, 1})
  BY PrefixFacts
<1>3. QED
  BY <1>1, <1>2

\* A bucket has the slot of its padded prefix.
LEMMA PadCovered ==
  ASSUME NEW q \in SlotPrefixes PROVE Pad(q) \in Slots /\ Covers(q, Pad(q))
<1>1. Pad(q) \in Slots
  BY PrefixTypes
<1>2. Len(q) \in 0 .. BSIZE /\ BSIZE \in Nat
  BY PrefixFacts
<1>3. QED
  BY <1>1, <1>2 DEF Covers, Pad

\* A prefix of full length covers one slot.
LEMMA FullRange ==
  ASSUME NEW q \in SlotPrefixes, Len(q) = BSIZE, NEW s \in Slots, Covers(q, s)
  PROVE  s = Pad(q)
<1>1. \A i \in 1 .. BSIZE : s[i] = Pad(q)[i]
  BY PrefixFacts DEF Covers, Pad
<1>2. Pad(q) \in Slots
  BY PrefixTypes
<1>3. QED
  BY <1>1, <1>2 DEF Slots

\* A slot, taken for a prefix, covers itself alone.
LEMMA SlotRange ==
  ASSUME NEW s \in Slots, NEW t \in Slots
  PROVE  Covers(s, t) <=> s = t
<1>1. Len(s) = BSIZE /\ BSIZE \in Nat
  BY PrefixFacts
<1>2. QED
  BY <1>1 DEF Covers, Slots

\* The empty prefix covers every slot.
LEMMA EmptyRange == \A s \in Slots : Covers(<<>>, s)
BY DEF Covers

\* A range is the disjoint union of its lower and its upper half.
LEMMA Halves ==
  ASSUME NEW q \in SlotPrefixes, Len(q) < BSIZE, NEW s \in Slots
  PROVE  /\ Covers(q, s) <=> Covers(Append(q, 0), s) \/ Covers(Append(q, 1), s)
         /\ ~ (Covers(Append(q, 0), s) /\ Covers(Append(q, 1), s))
<1> DEFINE l == Len(q)
<1>1. l \in Nat /\ l < BSIZE /\ BSIZE \in Nat /\ s[l + 1] \in {0, 1}
  BY PrefixFacts
<1>2. ASSUME NEW x \in {0, 1}
      PROVE  Covers(Append(q, x), s) <=> Covers(q, s) /\ s[l + 1] = x
  <2>1. /\ Len(Append(q, x)) = l + 1 /\ Append(q, x)[l + 1] = x
        /\ \A i \in 1 .. l : Append(q, x)[i] = q[i]
    BY PrefixFacts
  <2>2. \A i \in 1 .. l + 1 : i = l + 1 \/ i \in 1 .. l
    BY <1>1
  <2>3. 1 .. l \subseteq 1 .. l + 1 /\ l + 1 \in 1 .. l + 1
    BY <1>1
  <2> HIDE DEF l
  <2>4. Covers(Append(q, x), s) <=> \A i \in 1 .. l + 1 : s[i] = Append(q, x)[i]
    BY <2>1 DEF Covers
  <2>5. Covers(q, s) <=> \A i \in 1 .. l : s[i] = q[i]
    BY DEF Covers, l
  <2>6. QED
    BY <2>1, <2>2, <2>3, <2>4, <2>5
<1>3. QED
  BY <1>1, <1>2

\* The halves of a range are buddies, and the range that two buddies share is theirs.
LEMMA BuddyRange ==
  ASSUME NEW q \in SlotPrefixes, q # <<>>
  PROVE  /\ Front(q) \in SlotPrefixes /\ Len(Front(q)) = Len(q) - 1
         /\ Buddy(q) \in SlotPrefixes /\ Len(Buddy(q)) = Len(q)
         /\ Buddy(Buddy(q)) = q /\ Front(Buddy(q)) = Front(q)
         /\ \A s \in Slots : /\ Covers(Front(q), s) <=> Covers(q, s) \/ Covers(Buddy(q), s)
                             /\ ~ (Covers(q, s) /\ Covers(Buddy(q), s))
<1> DEFINE l == Len(q)
           b == Buddy(q)
<1>1. l \in Nat /\ l > 0 /\ l <= BSIZE /\ BSIZE \in Nat /\ q \in Seq({0, 1})
  BY PrefixFacts
<1>2. q[l] \in {0, 1} /\ 1 - q[l] \in {0, 1} /\ 1 - (1 - q[l]) = q[l]
  BY <1>1
<1>3. /\ b \in Seq({0, 1}) /\ Len(b) = l /\ b[l] = 1 - q[l]
      /\ \A i \in 1 .. l : i # l => b[i] = q[i]
  BY <1>1, <1>2 DEF Buddy
<1>4. Buddy(b) = q
  <2> HIDE DEF b
  <2>1. Buddy(b) = [b EXCEPT ![l] = 1 - b[l]]
    BY <1>3 DEF Buddy
  <2>2. Buddy(b) \in Seq({0, 1}) /\ Len(Buddy(b)) = l
    BY <1>1, <1>2, <1>3, <2>1
  <2>3. \A i \in 1 .. l : Buddy(b)[i] = q[i]
    BY <1>1, <1>2, <1>3, <2>1
  <2>4. QED
    BY <1>1, <2>2, <2>3
<1>5. /\ Front(q) \in SlotPrefixes /\ Len(Front(q)) = l - 1
      /\ \A i \in 1 .. l - 1 : Front(q)[i] = q[i]
  BY <1>1, PrefixTypes DEF Front
<1>6. Front(b) = Front(q)
  <2>1. /\ Len(Front(b)) = l - 1 /\ Front(b) \in Seq({0, 1})
        /\ \A i \in 1 .. l - 1 : Front(b)[i] = b[i]
    BY <1>1, <1>3 DEF Front
  <2>2. Front(q) \in Seq({0, 1})
    BY <1>5, PrefixFacts
  <2>3. \A i \in 1 .. l - 1 : b[i] = q[i]
    BY <1>1, <1>3
  <2> HIDE DEF b, l
  <2>4. QED
    BY <1>5, <2>1, <2>2, <2>3
<1>7. b \in SlotPrefixes
  BY <1>1, <1>3 DEF SlotPrefixes
<1>8. ASSUME NEW s \in Slots
      PROVE  /\ Covers(Front(q), s) <=> Covers(q, s) \/ Covers(b, s)
             /\ ~ (Covers(q, s) /\ Covers(b, s))
  <2>1. s[l] \in {0, 1}
    BY <1>1, PrefixFacts
  <2> DEFINE Same == \A i \in 1 .. l - 1 : s[i] = q[i]
  <2>2. \A i \in 1 .. l : i = l \/ i \in 1 .. l - 1
    BY <1>1
  <2>3. 1 .. l - 1 \subseteq 1 .. l /\ l \in 1 .. l /\ \A i \in 1 .. l - 1 : i # l
    BY <1>1
  <2> HIDE DEF b, l
  <2>4. Covers(Front(q), s) <=> Same
    BY <1>5 DEF Covers
  <2>5. Covers(q, s) <=> Same /\ s[l] = q[l]
    <3>1. Covers(q, s) <=> \A i \in 1 .. l : s[i] = q[i]
      BY DEF Covers, l
    <3>2. QED
      BY <2>2, <2>3, <3>1
  <2>6. Covers(b, s) <=> Same /\ s[l] = 1 - q[l]
    <3>1. Covers(b, s) <=> \A i \in 1 .. l : s[i] = b[i]
      BY <1>3 DEF Covers
    <3>2. QED
      BY <1>3, <2>2, <2>3, <3>1
  <2>7. QED
    BY <1>2, <2>1, <2>4, <2>5, <2>6
<1>9. QED
  BY <1>3, <1>4, <1>5, <1>6, <1>7, <1>8

-----------------------------------------------------------------------------
(* What the invariant says of a tree *)

\* Addresses, and what is at them.
LEMMA Addresses ==
  ASSUME TypeOK
  PROVE  /\ fwds \subseteq FwdIds /\ Root \in fwds /\ Root \in FwdIds
         /\ nodes \subseteq NodeIds /\ \A n \in NodeIds : n \notin FwdIds /\ n # Null
         /\ \A f \in FwdIds : /\ f # Null /\ fwd[f] \in Fwd /\ fwd[f].path \in Slots
                              /\ fwd[f].children \in [Slots -> Children]
         /\ \A n \in NodeIds : /\ node[n] \in Node /\ node[n].prefix \in SlotPrefixes
                               /\ node[n].parent \in FwdIds /\ node[n].items \in Seq(Items)
         /\ fwd \in [FwdIds -> Fwd] /\ node \in [NodeIds -> Node]
BY PTrieAssumption DEF TypeOK, FwdsOK, BucketsOK, Fwd, Node

\* A child of a forwarding node is the node itself, where the slot is empty, or a
\* forwarding node or a bucket whose parent it is.
LEMMA ChildOf ==
  ASSUME TreeInv, NEW f \in fwds, NEW s \in Slots
  PROVE  LET c == fwd[f].children[s]
         IN  \/ c = f
             \/ c \in fwds /\ c # f /\ c # Root /\ fwd[c].parent = f /\ fwd[c].path = s
             \/ c \in nodes /\ node[c].parent = f /\ Covers(node[c].prefix, s)
<1> DEFINE c == fwd[f].children[s]
<1>1. \/ c = f
      \/ c \in fwds /\ fwd[c].parent = f /\ fwd[c].path = s
      \/ c \in nodes /\ node[c].parent = f /\ Covers(node[c].prefix, s)
  BY DEF TreeInv, TreeWellFormed
<1>2. f # Null /\ fwd[Root].parent = Null
  BY Addresses DEF TreeInv
<1>3. QED
  BY <1>1, <1>2

\* A bucket is the child in every slot of its range.
LEMMA RangeOf ==
  ASSUME TreeInv, NEW n \in nodes, NEW s \in Slots, Covers(node[n].prefix, s)
  PROVE  fwd[node[n].parent].children[s] = n
BY DEF TreeInv, TreeWellFormed

\* A forwarding node is the child in the slot of its path.
LEMMA PathOf ==
  ASSUME TreeInv, NEW f \in fwds, f # Root
  PROVE  /\ fwd[f].parent \in fwds /\ fwd[f].parent # f
         /\ fwd[f].path \in Slots /\ fwd[fwd[f].parent].children[fwd[f].path] = f
<1>1. fwd[f].path \in Slots
  BY Addresses DEF TreeInv
<1>2. QED
  BY <1>1 DEF TreeInv, TreeWellFormed

\* The parent of a bucket is alive, and so is whatever has a child that is not null.
LEMMA ParentAlive ==
  ASSUME TreeInv
  PROVE  /\ \A n \in NodeIds : node[n].parent \in fwds
         /\ \A f \in FwdIds, s \in Slots : fwd[f].children[s] # Null => f \in fwds
         /\ \A f \in FwdIds \ {Root} : fwd[f].parent \in fwds
<1>1. ASSUME NEW f \in FwdIds, NEW s \in Slots, f \notin fwds
      PROVE  fwd[f].children[s] = Null /\ fwd[f].parent = Root
  <2>1. fwd[f] = DeadFwd
    BY <1>1 DEF TreeInv, DeadOK
  <2>2. DeadFwd.children = [t \in Slots |-> Null] /\ DeadFwd.parent = Root
    BY DEF DeadFwd
  <2>3. QED
    BY <2>1, <2>2
<1>2. ASSUME NEW n \in nodes PROVE node[n].parent \in fwds
  <2> DEFINE s == Pad(node[n].prefix)
  <2>1. /\ n \in NodeIds /\ n # Null
        /\ node[n].prefix \in SlotPrefixes /\ node[n].parent \in FwdIds
    BY Addresses DEF TreeInv
  <2>2. s \in Slots /\ Covers(node[n].prefix, s)
    BY <2>1, PadCovered
  <2>3. fwd[node[n].parent].children[s] = n
    BY <2>2, RangeOf
  <2>4. QED
    BY <1>1, <2>1, <2>2, <2>3
<1>3. ASSUME NEW n \in NodeIds, n \notin nodes PROVE node[n].parent \in fwds
  <2>1. node[n] = DeadNode
    BY <1>3 DEF TreeInv, DeadOK
  <2>2. QED
    BY <2>1, Addresses DEF TreeInv, DeadNode
<1>4. ASSUME NEW f \in FwdIds \ {Root} PROVE fwd[f].parent \in fwds
  <2>1. CASE f \in fwds
    BY <2>1, PathOf
  <2>2. CASE f \notin fwds
    <3>1. <<>> \in SlotPrefixes
      BY PrefixTypes
    <3>2. Pad(<<>>) \in Slots
      BY <3>1, PadCovered
    <3>3. QED
      BY <1>1, <2>2, <3>2, Addresses DEF TreeInv
  <2>3. QED
    BY <2>1, <2>2
<1>5. QED
  BY <1>1, <1>2, <1>3, <1>4

\* Two buckets below the same forwarding node have no slot in common.
LEMMA Disjoint ==
  ASSUME TreeInv, NEW n \in nodes, NEW m \in nodes, node[n].parent = node[m].parent,
         NEW s \in Slots, Covers(node[n].prefix, s), Covers(node[m].prefix, s)
  PROVE  n = m
BY RangeOf

-----------------------------------------------------------------------------
(* The two ways in which a step changes the tree *)

\* The part of the invariant that is about forwarding nodes and buckets.
Tree ==
  /\ TreeWellFormed
  /\ fwd[Root].parent = Null
  /\ \A f \in fwds \ {Root} : fwd[f].parent # f
  /\ DeadOK

\* Children of f change, and buckets below f; the rest of the tree stays.
Changes(f) ==
  /\ fwds' = fwds
  /\ \A g \in FwdIds : /\ fwd'[g].parent = fwd[g].parent /\ fwd'[g].path = fwd[g].path
                       /\ g # f => fwd'[g] = fwd[g]
  /\ nodes' \subseteq NodeIds /\ \A n \in NodeIds \ nodes' : node'[n] = DeadNode
  /\ \A n \in NodeIds : (n \in nodes /\ node[n].parent # f)
                        \/ (n \in nodes' /\ node'[n].parent # f)
       => /\ n \in nodes /\ n \in nodes'
          /\ node'[n].parent = node[n].parent /\ node'[n].prefix = node[n].prefix
  /\ \A s \in Slots :
       fwd[f].children[s] \in fwds \ {f} => fwd'[f].children[s] = fwd[f].children[s]
  /\ \A s \in Slots :
       \/ fwd'[f].children[s] \in {f, fwd[f].children[s]} \cap fwds
       \/ \E n \in nodes' : /\ fwd'[f].children[s] = n
                            /\ node'[n].parent = f /\ Covers(node'[n].prefix, s)
  /\ \A n \in nodes' : node'[n].parent = f =>
       \A s \in Slots : Covers(node'[n].prefix, s) => fwd'[f].children[s] = n

\* Such a step keeps the tree well formed.
LEMMA TreeStep ==
  ASSUME TreeInv, NEW f \in fwds, Changes(f) PROVE Tree'
<1> USE DEF Changes
<1> DEFINE new == fwd'[f].children
<1>1. /\ fwds \subseteq FwdIds /\ Root \in fwds /\ nodes \subseteq NodeIds
      /\ \A g \in FwdIds : fwd[g] \in Fwd /\ fwd[g].path \in Slots
      /\ fwd \in [FwdIds -> Fwd]
  BY Addresses DEF TreeInv
<1>2. /\ fwd'[f].children = new
      /\ \A g \in FwdIds : /\ fwd'[g].parent = fwd[g].parent /\ fwd'[g].path = fwd[g].path
                           /\ g # f => fwd'[g] = fwd[g]
  OBVIOUS
<1>3. ASSUME NEW g \in fwds, g # Root
      PROVE  fwd'[g].parent \in fwds /\ fwd'[fwd'[g].parent].children[fwd'[g].path] = g
  <2>1. /\ fwd[g].parent \in fwds /\ fwd[g].parent # g
        /\ fwd[g].path \in Slots /\ fwd[fwd[g].parent].children[fwd[g].path] = g
    BY <1>3, PathOf
  <2>2. QED
    BY <1>1, <1>2, <2>1
<1>4. ASSUME NEW g \in fwds, NEW s \in Slots
      PROVE  LET c == fwd'[g].children[s]
             IN  \/ c = g
                 \/ c \in fwds /\ fwd'[c].parent = g /\ fwd'[c].path = s
                 \/ c \in nodes' /\ node'[c].parent = g /\ Covers(node'[c].prefix, s)
  <2> DEFINE d == fwd[g].children[s]
  <2>1. \/ d = g
        \/ d \in fwds /\ d # g /\ fwd[d].parent = g /\ fwd[d].path = s
        \/ d \in nodes /\ node[d].parent = g /\ Covers(node[d].prefix, s)
    BY ChildOf
  <2>2. CASE g # f
    BY <1>1, <1>2, <2>1, <2>2
  <2>3. CASE g = f
    <3>1. \/ new[s] = f
          \/ new[s] \in fwds /\ new[s] = fwd[f].children[s]
          \/ new[s] \in nodes' /\ node'[new[s]].parent = f
                               /\ Covers(node'[new[s]].prefix, s)
      OBVIOUS
    <3>2. \A n \in nodes : n \notin fwds
      BY <1>1, Addresses DEF TreeInv
    <3> HIDE DEF d
    <3>3. CASE new[s] \in fwds /\ new[s] = fwd[f].children[s]
      BY <1>1, <1>2, <2>1, <2>3, <3>2, <3>3 DEF d
    <3>4. QED
      BY <1>2, <2>3, <3>1, <3>3
  <2>4. QED
    BY <2>2, <2>3
<1>5. ASSUME NEW n \in nodes', NEW s \in Slots, Covers(node'[n].prefix, s)
      PROVE  fwd'[node'[n].parent].children[s] = n
  <2>1. CASE node'[n].parent = f
    BY <1>2, <1>5, <2>1
  <2>2. CASE node'[n].parent # f
    <3>1. /\ n \in nodes /\ node'[n].parent = node[n].parent
          /\ node'[n].prefix = node[n].prefix
      BY <2>2
    <3>2. fwd[node[n].parent].children[s] = n
      BY <1>5, <3>1, RangeOf
    <3>3. node[n].parent \in FwdIds
      BY <1>1, <3>1, Addresses DEF TreeInv
    <3>4. QED
      BY <1>2, <2>2, <3>1, <3>2, <3>3
  <2>3. QED
    BY <2>1, <2>2
<1>6. TreeWellFormed'
  BY <1>3, <1>4, <1>5 DEF TreeWellFormed
<1>7. fwd'[Root].parent = Null /\ \A g \in fwds \ {Root} : fwd'[g].parent # g
  BY <1>1, <1>2 DEF TreeInv
<1>8. DeadOK'
  BY <1>2 DEF TreeInv, DeadOK
<1>9. QED
  BY <1>6, <1>7, <1>8 DEF Tree

\* The step that gives the range q of slots of f the child c, the buckets of D, which
\* are those that are or were there, turning into the buckets of A.
Replaces(f, q, c, D, A) ==
  /\ fwds' = fwds /\ fwd' = [fwd EXCEPT ![f].children = Put(f, q, c)]
  /\ D \subseteq nodes /\ A \subseteq nodes' /\ nodes' \subseteq NodeIds
  /\ nodes \ D = nodes' \ A
  /\ \A n \in nodes \ D : node'[n].parent = node[n].parent /\ node'[n].prefix = node[n].prefix
  /\ \A n \in NodeIds \ nodes' : node'[n] = DeadNode
  /\ (\A n \in D : node[n].parent = f) /\ (\A n \in A : node'[n].parent = f)
  /\ \A s \in Slots : Covers(q, s) => fwd[f].children[s] \in {f} \cup D
  /\ c = f \/ (c \in A /\ \A s \in Slots : Covers(q, s) => Covers(node'[c].prefix, s))
  /\ \A s \in Slots, d \in D : ~ Covers(q, s) /\ fwd[f].children[s] = d
       => d \in A /\ Covers(node'[d].prefix, s)
  /\ \A n \in A : \A s \in Slots : Covers(node'[n].prefix, s) =>
       IF Covers(q, s) THEN c = n ELSE fwd[f].children[s] = n

\* Such a step keeps the tree well formed.
LEMMA PutStep ==
  ASSUME TreeInv, NEW f \in fwds, NEW q, NEW c, NEW D, NEW A, Replaces(f, q, c, D, A)
  PROVE  Tree'
<1> USE DEF Replaces
<1> DEFINE new == fwd'[f].children
<1>1. \A s \in Slots : new[s] = IF Covers(q, s) THEN c ELSE fwd[f].children[s]
  <2>1. fwd[f] \in Fwd /\ fwd \in [FwdIds -> Fwd] /\ f \in FwdIds
    BY Addresses DEF TreeInv
  <2>2. new = Put(f, q, c)
    BY <2>1 DEF Fwd
  <2>3. QED
    BY <2>2 DEF Put
<1>2. nodes \subseteq NodeIds /\ fwds \subseteq FwdIds /\ \A n \in NodeIds : n \notin FwdIds
  BY Addresses DEF TreeInv
<1>3. \A n \in NodeIds : (n \in nodes /\ node[n].parent # f)
                         \/ (n \in nodes' /\ node'[n].parent # f)
        => /\ n \in nodes /\ n \in nodes'
           /\ node'[n].parent = node[n].parent /\ node'[n].prefix = node[n].prefix
  <2>1. ASSUME NEW n \in NodeIds, n \in nodes, node[n].parent # f
        PROVE  n \in nodes \ D
    BY <2>1
  <2>2. ASSUME NEW n \in NodeIds, n \in nodes', node'[n].parent # f
        PROVE  n \in nodes \ D
    BY <2>2
  <2>3. QED
    BY <2>1, <2>2
<1>4. \A s \in Slots : fwd[f].children[s] \in fwds \ {f} => new[s] = fwd[f].children[s]
  <2>1. \A s \in Slots : fwd[f].children[s] \in fwds \ {f} => ~ Covers(q, s)
    BY <1>2
  <2>2. QED
    BY <1>1, <2>1
<1>5. ASSUME NEW s \in Slots
      PROVE  \/ new[s] = f
             \/ new[s] \in fwds /\ new[s] = fwd[f].children[s]
             \/ new[s] \in nodes' /\ node'[new[s]].parent = f /\ Covers(node'[new[s]].prefix, s)
  <2>1. CASE Covers(q, s)
    BY <1>1, <2>1
  <2>2. CASE ~ Covers(q, s)
    <3> DEFINE d == fwd[f].children[s]
    <3>1. new[s] = d
      BY <1>1, <2>2
    <3>2. \/ d = f
          \/ d \in fwds
          \/ d \in nodes /\ node[d].parent = f /\ Covers(node[d].prefix, s)
      BY ChildOf
    <3>3. d \in D => d \in A /\ Covers(node'[d].prefix, s)
      BY <2>2
    <3>4. d \in nodes \ D =>
            /\ d \in nodes'
            /\ node'[d].parent = node[d].parent /\ node'[d].prefix = node[d].prefix
      OBVIOUS
    <3> HIDE DEF d
    <3>5. CASE d \in D
      BY <3>1, <3>3, <3>5
    <3>6. CASE d \in nodes \ D /\ node[d].parent = f /\ Covers(node[d].prefix, s)
      BY <3>1, <3>4, <3>6
    <3>7. QED
      BY <3>1, <3>2, <3>5, <3>6 DEF d
  <2>3. QED
    BY <2>1, <2>2
<1>6. ASSUME NEW n \in nodes', node'[n].parent = f, NEW s \in Slots, Covers(node'[n].prefix, s)
      PROVE  new[s] = n
  <2>1. CASE n \in A
    BY <1>1, <1>6, <2>1
  <2>2. CASE n \notin A
    <3>1. n \in nodes \ D /\ node[n].parent = f /\ Covers(node[n].prefix, s)
      BY <1>6, <2>2
    <3>2. fwd[f].children[s] = n
      BY <3>1, RangeOf
    <3>3. n \notin {f} \cup D
      BY <1>2, <3>1
    <3>4. ~ Covers(q, s)
      BY <3>2, <3>3
    <3>5. QED
      BY <1>1, <3>2, <3>4
  <2>3. QED
    BY <2>1, <2>2
<1>7. \A g \in FwdIds : /\ fwd'[g].parent = fwd[g].parent /\ fwd'[g].path = fwd[g].path
                        /\ g # f => fwd'[g] = fwd[g]
  <2>1. (\A g \in FwdIds : fwd[g] \in Fwd) /\ fwd \in [FwdIds -> Fwd] /\ f \in FwdIds
    BY Addresses DEF TreeInv
  <2>2. QED
    BY <2>1 DEF Fwd
<1>8. \A n \in nodes' : node'[n].parent = f =>
        \A s \in Slots : Covers(node'[n].prefix, s) => new[s] = n
  BY <1>6
<1>9. /\ fwds' = fwds /\ nodes' \subseteq NodeIds
      /\ \A n \in NodeIds \ nodes' : node'[n] = DeadNode
  OBVIOUS
<1> HIDE DEF Replaces
<1>10. Changes(f)
  BY <1>3, <1>4, <1>5, <1>7, <1>8, <1>9 DEF Changes
<1>11. QED
  BY <1>10, TreeStep

\* No range and no parent changes, and nothing is allocated or freed.
LEMMA SameTree ==
  ASSUME TreeInv, UNCHANGED <<fwds, fwd, nodes>>,
         \A n \in nodes : node'[n].parent = node[n].parent /\ node'[n].prefix = node[n].prefix,
         \A n \in NodeIds \ nodes : node'[n] = node[n]
  PROVE  Tree'
<1>1. TreeWellFormed'
  BY DEF TreeInv, TreeWellFormed
<1>2. DeadOK'
  BY DEF TreeInv, DeadOK
<1>3. QED
  BY <1>1, <1>2 DEF TreeInv, Tree

\* Calls.
LEMMA NoCalls ==
  ASSUME stack' = <<>> PROVE CallsOK'
BY DEF CallsOK

\* What the frame on top of the stack must satisfy.
LEMMA OneCall ==
  ASSUME NEW frame, stack' = <<frame>>,
         frame.fn \in {"split", "merge_down"} => frame.node \in nodes',
         frame.fn = "split" => frame.fwd = node'[frame.node].parent,
         frame.fn = "climb" => frame.fwd \in fwds'
  PROVE  CallsOK'
<1>1. Top' = frame /\ stack' # <<>> /\ \A i \in DOMAIN stack' : ~ (i > 1)
  BY DEF Top
<1>2. QED
  BY <1>1 DEF CallsOK

\* The call on top of the stack becomes another one.
LEMMA BecomeCalls ==
  ASSUME TreeInv, stack # <<>>, NEW frame, Become(frame),
         frame.fn \in {"split", "merge_down"} => frame.node \in nodes',
         frame.fn = "split" => frame.fwd = node'[frame.node].parent,
         frame.fn = "climb" => frame.fwd \in fwds'
  PROVE  CallsOK'
<1>1. stack \in Seq(Frames) /\ \A i \in DOMAIN stack : i > 1 => stack[i].fn = "after_readd"
  BY DEF TreeInv, TypeOK, CallsOK
<1>2. stack' = <<frame>> \o Tail(stack)
  BY DEF Become
<1>3. Top' = frame /\ stack' # <<>>
  BY <1>1, <1>2 DEF Top
<1>4. \A i \in DOMAIN stack' : i > 1 => i \in DOMAIN stack /\ stack'[i] = stack[i]
  BY <1>1, <1>2
<1>5. QED
  BY <1>1, <1>3, <1>4 DEF CallsOK

\* The call on top of the stack returns.
LEMMA ReturnCalls ==
  ASSUME TreeInv, stack # <<>>, Return
  PROVE  CallsOK' /\ (stack' # <<>> => Top'.fn = "after_readd")
<1>1. stack \in Seq(Frames) /\ \A i \in DOMAIN stack : i > 1 => stack[i].fn = "after_readd"
  BY DEF TreeInv, TypeOK, CallsOK
<1>2. stack' = Tail(stack)
  BY DEF Return
<1>3. \A i \in DOMAIN stack' : i + 1 \in DOMAIN stack /\ i + 1 > 1 /\ stack'[i] = stack[i + 1]
  BY <1>1, <1>2
<1>4. stack' # <<>> => 1 \in DOMAIN stack' /\ Top' = stack'[1]
  BY <1>1, <1>2 DEF Top
<1>5. QED
  BY <1>1, <1>3, <1>4 DEF CallsOK

\* The parts make up the invariant.
LEMMA TreeInvParts ==
  ASSUME TypeOK, Tree, CallsOK PROVE TreeInv
BY DEF TreeInv, Tree

-----------------------------------------------------------------------------
(* Each operation keeps the tree well formed *)

\* What adding an item leaves as it was, and the split it may start.
LEMMA AddItemEffect ==
  ASSUME TypeOK, NEW k, NEW m, NEW n \in NodeIds, NEW old \in Node, NEW oldsize,
         AddItem(k, m, n, old, oldsize)
  PROVE  /\ node'[n].prefix = old.prefix /\ node'[n].parent = old.parent
         /\ \A x \in NodeIds \ {n} : node'[x] = node[x]
         /\ stack' \in {<<>>, <<Frame("split", n, m.fwd, Len(k) - m.p \div BDIV, m.p)>>}
<1>1. \E x : node' = [node EXCEPT ![n] = [old EXCEPT !.items = x]]
  BY DEF AddItem
<1>2. node \in [NodeIds -> Node]
  BY Addresses
<1>3. /\ node'[n].prefix = old.prefix /\ node'[n].parent = old.parent
      /\ \A x \in NodeIds \ {n} : node'[x] = node[x]
  BY <1>1, <1>2 DEF Node
<1>4. stack' \in {<<>>, <<Frame("split", n, m.fwd, Len(k) - m.p \div BDIV, m.p)>>}
  BY DEF AddItem
<1>5. QED
  BY <1>3, <1>4

\* The calls that an insert leaves: none, or the split of the bucket.
LEMMA AddItemCalls ==
  ASSUME NEW n \in nodes', NEW f, NEW size, NEW p, node'[n].parent = f,
         stack' \in {<<>>, <<Frame("split", n, f, size, p)>>}
  PROVE  CallsOK'
<1>1. CASE stack' = <<>>
  BY <1>1, NoCalls
<1>2. CASE stack' = <<Frame("split", n, f, size, p)>>
  <2> DEFINE frame == Frame("split", n, f, size, p)
  <2>1. frame.fn = "split" /\ frame.node = n /\ frame.fwd = f
    BY DEF Frame
  <2>2. stack' = <<frame>>
    BY <1>2
  <2> HIDE DEF frame
  <2>3. QED
    BY <2>1, <2>2, OneCall
<1>3. QED
  BY <1>1, <1>2

\* Where the loop of fast_forward ends in a tree: at a forwarding node that is alive,
\* in a slot that is empty or a bucket's.
LEMMA LocatedAlive ==
  ASSUME TreeInv, NEW k \in Keys, NEW m, Located(k, m)
  PROVE  /\ m.fwd \in fwds /\ m.p \in Nat /\ Slot(k, m.p) \in Slots
         /\ m.base = fwd[m.fwd].children[Slot(k, m.p)]
         /\ m.base \in NodeIds => /\ m.base \in nodes /\ node[m.base].parent = m.fwd
                                  /\ Covers(node[m.base].prefix, Slot(k, m.p))
<1>1. /\ m.fwd \in FwdIds /\ m.p \in Nat /\ m.base = fwd[m.fwd].children[Slot(k, m.p)]
      /\ m.base \in {m.fwd} \cup NodeIds
  BY DEF Located
<1>2. Slot(k, m.p) \in Slots
  BY <1>1, SlotType
<1>3. m.base # Null /\ \A n \in NodeIds : n \notin fwds
  BY <1>1, Addresses DEF TreeInv
<1>4. m.fwd \in fwds
  BY <1>1, <1>2, <1>3, ParentAlive
<1>5. \/ m.base \in fwds
      \/ m.base \in nodes /\ node[m.base].parent = m.fwd
                          /\ Covers(node[m.base].prefix, Slot(k, m.p))
  BY <1>1, <1>2, <1>4, ChildOf
<1>6. QED
  BY <1>1, <1>2, <1>3, <1>4, <1>5

\* A bucket that insert makes takes a range of slots that were empty.
LEMMA InsertInNewBucketTree ==
  ASSUME TreeInv, NEW k \in Keys, InsertInNewBucket(k) PROVE Tree' /\ CallsOK'
<1> DEFINE m == BestMatch(k)
           s == Slot(k, m.p)
           n == FreshNode
           f == m.fwd
<1>1. n \in NodeIds /\ n \notin nodes /\ n \notin FwdIds
  BY Addresses DEF InsertInNewBucket, FreshNode, TreeInv
<1>2. Located(k, m) /\ m.base = m.fwd
  BY DEF InsertInNewBucket
<1>3. f \in fwds /\ s \in Slots /\ f \in FwdIds
  <2> HIDE DEF m
  <2>1. f \in fwds /\ s \in Slots
    BY <1>2, LocatedAlive
  <2>2. QED
    BY <2>1, Addresses DEF TreeInv
<1>4. PICK bit \in 0 .. BSIZE :
        LET q == SubSeq(s, 1, bit)
        IN  /\ FreeRange(m.fwd, s, bit)
            /\ fwd' = [fwd EXCEPT ![m.fwd].children = Put(m.fwd, q, n)]
            /\ AddItem(k, m, n, [prefix |-> q, parent |-> m.fwd, items |-> <<>>], 0)
  BY DEF InsertInNewBucket
<1> DEFINE q == SubSeq(s, 1, bit)
           old == [prefix |-> q, parent |-> m.fwd, items |-> <<>>]
<1>5. q \in SlotPrefixes
  BY <1>3, PrefixTypes
<1>6. old \in Node /\ old.prefix = q /\ old.parent = f
  BY <1>3, <1>5 DEF Node
<1>7. AddItem(k, m, n, old, 0)
  BY <1>4
<1>8. fwds' = fwds /\ nodes' = nodes \cup {n}
  BY DEF InsertInNewBucket
<1> HIDE DEF old, n, m, q, f
<1>9. /\ node'[n].prefix = q /\ node'[n].parent = f
      /\ \A x \in NodeIds \ {n} : node'[x] = node[x]
      /\ stack' \in {<<>>, <<Frame("split", n, m.fwd, Len(k) - m.p \div BDIV, m.p)>>}
  BY <1>1, <1>6, <1>7, AddItemEffect DEF TreeInv
<1>10. \A t \in Slots : Covers(q, t) => fwd[f].children[t] = f
  BY <1>4 DEF FreeRange, f, q
<1>11. fwd' = [fwd EXCEPT ![f].children = Put(f, q, n)]
  BY <1>4 DEF f, q
<1>12. Replaces(f, q, n, {}, {n})
  <2>1. nodes \subseteq NodeIds /\ \A x \in NodeIds \ nodes : node[x] = DeadNode
    BY Addresses DEF TreeInv, DeadOK
  <2>2. nodes' \subseteq NodeIds /\ \A x \in NodeIds \ nodes' : node'[x] = DeadNode
    BY <1>1, <1>8, <1>9, <2>1
  <2>3. nodes' \ {n} = nodes /\ \A x \in nodes : node'[x] = node[x]
    BY <1>1, <1>8, <1>9, <2>1
  <2>4. QED
    BY <1>1, <1>8, <1>9, <1>10, <1>11, <2>2, <2>3 DEF Replaces
<1>13. CallsOK'
  <2> DEFINE size == Len(k) - m.p \div BDIV
  <2>1. n \in nodes' /\ stack' \in {<<>>, <<Frame("split", n, f, size, m.p)>>}
    BY <1>8, <1>9 DEF f
  <2> HIDE DEF size
  <2>2. QED
    BY <1>9, <2>1, AddItemCalls
<1>14. QED
  BY <1>3, <1>12, <1>13, PutStep

\* The other inserts leave the shape as it was.
LEMMA InsertInBucketTree ==
  ASSUME TreeInv, NEW k \in Keys, InsertInBucket(k) PROVE Tree' /\ CallsOK'
<1> DEFINE m == BestMatch(k)
           n == m.base
<1>1. /\ Located(k, m) /\ n \in NodeIds /\ UNCHANGED <<fwds, fwd, nodes>>
      /\ AddItem(k, m, n, node[n], totsize[n])
  BY DEF InsertInBucket
<1> HIDE DEF m
<1>2. n \in nodes /\ node[n].parent = m.fwd
  BY <1>1, LocatedAlive
<1>3. node[n] \in Node /\ nodes \subseteq NodeIds
  BY <1>1, Addresses DEF TreeInv
<1>4. /\ node'[n].prefix = node[n].prefix /\ node'[n].parent = node[n].parent
      /\ \A x \in NodeIds \ {n} : node'[x] = node[x]
      /\ stack' \in {<<>>, <<Frame("split", n, m.fwd, Len(k) - m.p \div BDIV, m.p)>>}
  BY <1>1, <1>3, AddItemEffect DEF TreeInv
<1>5. Tree'
  BY <1>1, <1>2, <1>3, <1>4, SameTree
<1>6. CallsOK'
  BY <1>1, <1>2, <1>4, AddItemCalls
<1>7. QED
  BY <1>5, <1>6

\* exists changes nothing.
LEMMA LookUpTree ==
  ASSUME TreeInv, NEW k \in Keys, LookUp(k) PROVE Tree' /\ CallsOK'
<1>1. UNCHANGED <<fwds, fwd, nodes, node, stack>>
  BY DEF LookUp
<1>2. Tree'
  BY <1>1, SameTree
<1>3. CallsOK'
  BY <1>1 DEF TreeInv, CallsOK, Top
<1>4. QED
  BY <1>2, <1>3

\* erase takes an item out, and starts the merges with the bucket that held it.
LEMMA EraseTree ==
  ASSUME TreeInv, NEW k \in Keys, Erase(k) PROVE Tree' /\ CallsOK'
<1> DEFINE m == BestMatch(k)
           n == m.base
<1>1. /\ Located(k, m) /\ n \in NodeIds /\ UNCHANGED <<fwds, fwd, nodes>>
      /\ \E left : node' = [node EXCEPT ![n].items = left]
      /\ \E size : stack' = <<Frame("merge_down", n, Null, size, m.p)>>
  BY DEF Erase
<1> HIDE DEF m
<1>2. n \in nodes
  BY <1>1, LocatedAlive
<1>3. node \in [NodeIds -> Node] /\ nodes \subseteq NodeIds
  BY Addresses DEF TreeInv
<1>4. /\ node'[n].prefix = node[n].prefix /\ node'[n].parent = node[n].parent
      /\ \A x \in NodeIds \ {n} : node'[x] = node[x]
  BY <1>1, <1>3 DEF Node
<1>5. Tree'
  BY <1>1, <1>2, <1>3, <1>4, SameTree
<1>6. CallsOK'
  <2>1. PICK size : stack' = <<Frame("merge_down", n, Null, size, m.p)>>
    BY <1>1
  <2> DEFINE frame == Frame("merge_down", n, Null, size, m.p)
  <2>2. frame.fn = "merge_down" /\ frame.node = n /\ stack' = <<frame>> /\ n \in nodes'
    BY <1>1, <1>2, <2>1 DEF Frame
  <2> HIDE DEF frame
  <2>3. QED
    BY <2>2, OneCall
<1>7. QED
  BY <1>5, <1>6

\* A split in progress has a bucket and its parent.
LEMMA SplitTop ==
  ASSUME TreeInv, Running("split")
  PROVE  /\ Top.node \in nodes /\ Top.node \in NodeIds /\ Top.fwd = node[Top.node].parent
         /\ Top.fwd \in fwds /\ node[Top.node] \in Node
         /\ node[Top.node].prefix \in SlotPrefixes /\ node[Top.node].items \in Seq(Items)
         /\ stack # <<>>
<1>1. stack # <<>> /\ Top.node \in nodes /\ Top.fwd = node[Top.node].parent
  BY DEF TreeInv, CallsOK, Running
<1>2. QED
  BY <1>1, Addresses, ParentAlive DEF TreeInv

\* So does a merge in progress.
LEMMA MergeTop ==
  ASSUME TreeInv, Running("merge_down")
  PROVE  /\ Top.node \in nodes /\ Top.node \in NodeIds /\ node[Top.node].parent \in fwds
         /\ node[Top.node] \in Node
         /\ node[Top.node].prefix \in SlotPrefixes /\ node[Top.node].items \in Seq(Items)
         /\ stack # <<>>
<1>1. stack # <<>> /\ Top.node \in nodes
  BY DEF TreeInv, CallsOK, Running
<1>2. QED
  BY <1>1, Addresses, ParentAlive DEF TreeInv

\* The bucket in the slots next to those of a bucket.
LEMMA BuddyBucket ==
  ASSUME TreeInv, NEW n \in nodes, node[n].prefix # <<>>
  PROVE  LET q == node[n].prefix
             s == Pad(Buddy(q))
             c == BuddyOf(n)
         IN  /\ s \in Slots /\ Covers(Buddy(q), s) /\ ~ Covers(q, s)
             /\ c = fwd[node[n].parent].children[s]
             /\ c \in NodeIds =>
                  /\ c \in nodes /\ c # n /\ node[c].parent = node[n].parent
                  /\ Covers(node[c].prefix, s) /\ Len(node[c].prefix) >= Len(q)
                  /\ Len(node[c].prefix) = Len(q) => node[c].prefix = Buddy(q)
<1> DEFINE q == node[n].prefix
           s == Pad(Buddy(q))
           c == BuddyOf(n)
           f == node[n].parent
<1>1. q \in SlotPrefixes /\ q # <<>> /\ f \in fwds /\ n \in NodeIds
  BY Addresses, ParentAlive DEF TreeInv
<1>2. /\ Buddy(q) \in SlotPrefixes /\ Len(Buddy(q)) = Len(q)
      /\ \A t \in Slots : ~ (Covers(q, t) /\ Covers(Buddy(q), t))
  BY <1>1, BuddyRange
<1>3. s \in Slots /\ Covers(Buddy(q), s)
  BY <1>2, PadCovered
<1>4. ~ Covers(q, s)
  BY <1>2, <1>3
<1>5. c = fwd[f].children[s]
  BY DEF BuddyOf
<1>6. ASSUME c \in NodeIds
      PROVE  /\ c \in nodes /\ c # n /\ node[c].parent = f
             /\ Covers(node[c].prefix, s) /\ Len(node[c].prefix) >= Len(q)
             /\ Len(node[c].prefix) = Len(q) => node[c].prefix = Buddy(q)
  <2> HIDE DEF c, s, f
  <2>1. \/ c = f \/ c \in fwds
        \/ c \in nodes /\ node[c].parent = f /\ Covers(node[c].prefix, s)
    BY <1>1, <1>3, <1>5, ChildOf
  <2>2. c \in nodes /\ node[c].parent = f /\ Covers(node[c].prefix, s)
    BY <1>1, <1>6, <2>1, Addresses DEF TreeInv
  <2>3. c # n
    BY <1>4, <2>2
  <2>4. node[c].prefix \in SlotPrefixes
    BY <1>6, Addresses DEF TreeInv
  <2>5. Len(node[c].prefix) = Len(q) => node[c].prefix = Buddy(q)
    <3> HIDE DEF q
    <3>1. QED
      BY <1>2, <1>3, <2>2, <2>4, SameRange
  <2>6. ASSUME Len(node[c].prefix) < Len(q) PROVE FALSE
    <3> DEFINE r == node[c].prefix
               t == Pad(q)
    <3>1. /\ Front(q) \in SlotPrefixes /\ Len(r) <= Len(Front(q))
          /\ Covers(Front(q), s) /\ t \in Slots /\ Covers(q, t) /\ Covers(Front(q), t)
      <4>1. Len(r) \in Nat /\ Len(q) \in Nat /\ Len(r) < Len(q)
        BY <1>1, <2>4, <2>6, PrefixFacts
      <4>2. /\ Front(q) \in SlotPrefixes /\ Len(Front(q)) = Len(q) - 1
            /\ \A u \in Slots : Covers(Front(q), u) <=> Covers(q, u) \/ Covers(Buddy(q), u)
        BY <1>1, BuddyRange
      <4>3. t \in Slots /\ Covers(q, t)
        BY <1>1, PadCovered
      <4>4. QED
        BY <1>3, <4>1, <4>2, <4>3
    <3> HIDE DEF r, t, q
    <3>2. Covers(r, t)
      BY <2>2, <2>4, <3>1, Nested DEF r
    <3>3. c = n
      BY <2>2, <3>1, <3>2, Disjoint DEF r, f, q
    <3>4. QED
      BY <2>3, <3>3
  <2>7. Len(node[c].prefix) \in Nat /\ Len(q) \in Nat
    BY <1>1, <2>4, PrefixFacts
  <2>8. QED
    BY <2>2, <2>3, <2>5, <2>6, <2>7
<1>7. QED
  BY <1>3, <1>4, <1>5, <1>6

\* split_node: the range is given up by half, or shared with a new bucket.
LEMMA SplitNodeTree ==
  ASSUME TreeInv, SplitNode PROVE Tree' /\ CallsOK'
<1> DEFINE n == Top.node
           jump == Top.fwd
           q == node[n].prefix
           low == Append(q, 0)
           high == Append(q, 1)
           h == FreshNode
<1>1. /\ n \in nodes /\ jump = node[n].parent /\ jump \in fwds /\ node[n] \in Node
      /\ q \in SlotPrefixes /\ stack # <<>> /\ fwds' = fwds /\ n \in NodeIds
  BY SplitTop DEF SplitNode
<1>2. /\ \A s \in Slots : /\ Covers(q, s) <=> Covers(low, s) \/ Covers(high, s)
                          /\ ~ (Covers(low, s) /\ Covers(high, s))
  <2>1. Len(q) < BSIZE
    BY DEF SplitNode
  <2> HIDE DEF n
  <2>2. QED
    BY <1>1, <2>1, Halves
<1>3. \A s \in Slots : Covers(q, s) <=> fwd[jump].children[s] = n
  <2>1. \A s \in Slots : Covers(q, s) => fwd[jump].children[s] = n
    BY <1>1, RangeOf
  <2>2. \A s \in Slots : fwd[jump].children[s] = n => Covers(q, s)
    BY <1>1, ChildOf, Addresses DEF TreeInv
  <2>3. QED
    BY <2>1, <2>2
<1>4. nodes \subseteq NodeIds /\ node \in [NodeIds -> Node] /\ \A x \in NodeIds \ nodes : node[x] = DeadNode
  BY Addresses DEF TreeInv, DeadOK
<1>5. ASSUME NEW keep, NEW drop, {keep, drop} = {low, high}, keep # drop,
             fwd' = [fwd EXCEPT ![jump].children = Put(jump, drop, jump)],
             node' = [node EXCEPT ![n].prefix = keep],
             UNCHANGED <<nodes, stack>>
      PROVE  Tree' /\ CallsOK'
  <2>1. /\ node'[n].prefix = keep /\ node'[n].parent = jump
        /\ \A x \in NodeIds \ {n} : node'[x] = node[x]
    BY <1>1, <1>4, <1>5 DEF Node
  <2>2. \A s \in Slots : /\ Covers(q, s) <=> Covers(keep, s) \/ Covers(drop, s)
                         /\ ~ (Covers(keep, s) /\ Covers(drop, s))
    <3> HIDE DEF low, high, q
    <3>1. QED
      BY <1>2, <1>5
  <2> HIDE DEF n, jump, q
  <2>3. Replaces(jump, drop, jump, {n}, {n})
    BY <1>1, <1>3, <1>4, <1>5, <2>1, <2>2 DEF Replaces
  <2>4. Tree'
    BY <1>1, <2>3, PutStep
  <2>5. CallsOK'
    BY <1>1, <1>4, <1>5, <2>1 DEF TreeInv, CallsOK, Top, n, jump
  <2>6. QED
    BY <2>4, <2>5
<1>6. CASE /\ fwd' = [fwd EXCEPT ![jump].children = Put(jump, low, jump)]
           /\ node' = [node EXCEPT ![n].prefix = high]
           /\ UNCHANGED <<nodes, stack>>
  <2>1. low # high
    <3> HIDE DEF n
    <3>1. QED
      BY <1>1, PrefixFacts
  <2> HIDE DEF n, jump, low, high
  <2>2. QED
    BY <1>5, <1>6, <2>1
<1>7. CASE /\ fwd' = [fwd EXCEPT ![jump].children = Put(jump, high, jump)]
           /\ node' = [node EXCEPT ![n].prefix = low]
           /\ UNCHANGED <<nodes, stack>>
  <2>1. low # high
    <3> HIDE DEF n
    <3>1. QED
      BY <1>1, PrefixFacts
  <2> HIDE DEF n, jump, low, high
  <2>2. QED
    BY <1>5, <1>7, <2>1
<1>8. ASSUME NEW lows, NEW highs, nodes # NodeIds, nodes' = nodes \cup {h},
             fwd' = [fwd EXCEPT ![jump].children = Put(jump, high, h)],
             node' = [node EXCEPT ![n] = [node[n] EXCEPT !.prefix = low, !.items = lows],
                                  ![h] = [prefix |-> high, parent |-> jump, items |-> highs]],
             Return
      PROVE  Tree' /\ CallsOK'
  <2>1. h \in NodeIds /\ h \notin nodes
    BY <1>4, <1>8 DEF FreshNode
  <2> HIDE DEF n, jump, h, low, high
  <2>2. /\ node'[n].prefix = low /\ node'[n].parent = jump
        /\ node'[h].prefix = high /\ node'[h].parent = jump
        /\ \A x \in NodeIds \ {n, h} : node'[x] = node[x]
    BY <1>1, <1>4, <1>8, <2>1 DEF Node
  <2>3. /\ nodes' \subseteq NodeIds /\ nodes \ {n} = nodes' \ {n, h} /\ n \in nodes' /\ h \in nodes'
        /\ \A x \in NodeIds \ nodes' : node'[x] = DeadNode
        /\ \A x \in nodes \ {n} : node'[x] = node[x]
    BY <1>1, <1>4, <1>8, <2>1, <2>2
  <2> HIDE DEF q
  <2>4. Replaces(jump, high, h, {n}, {n, h})
    <3>1. /\ \A s \in Slots : Covers(high, s) => fwd[jump].children[s] = n
          /\ \A s \in Slots : ~ Covers(high, s) /\ fwd[jump].children[s] = n => Covers(low, s)
          /\ \A s \in Slots : Covers(low, s) => ~ Covers(high, s) /\ fwd[jump].children[s] = n
      BY <1>2, <1>3
    <3>2. n # h
      BY <1>1, <2>1
    <3>3. fwds' = fwds /\ fwd' = [fwd EXCEPT ![jump].children = Put(jump, high, h)]
      BY <1>1, <1>8
    <3>4. {n} \subseteq nodes /\ {n, h} \subseteq nodes' /\ node[n].parent = jump
      BY <1>1, <2>3
    <3>5. QED
      BY <2>2, <2>3, <3>1, <3>2, <3>3, <3>4 DEF Replaces
  <2>5. Tree'
    BY <1>1, <2>4, PutStep
  <2>6. CallsOK'
    BY <1>1, <1>8, ReturnCalls
  <2>7. QED
    BY <2>5, <2>6
<1>9. QED
  BY ZenonT(60), <1>6, <1>7, <1>8 DEF SplitNode

\* split_node stops where no bytes are left to branch on.
LEMMA SplitExhaustedTree ==
  ASSUME TreeInv, SplitExhausted PROVE Tree' /\ CallsOK'
<1>1. UNCHANGED <<fwds, fwd, nodes, node>> /\ Return /\ stack # <<>>
  BY DEF SplitExhausted, Running
<1>2. QED
  BY <1>1, SameTree, ReturnCalls

\* merge_down stops.
LEMMA MergeDownStopTree ==
  ASSUME TreeInv, MergeDownStop PROVE Tree' /\ CallsOK'
<1>1. UNCHANGED <<fwds, fwd, nodes, node>> /\ Return /\ stack # <<>>
  BY DEF MergeDownStop, Running
<1>2. QED
  BY <1>1, SameTree, ReturnCalls

\* The step that gives the slot of the bucket n to a new forwarding node g, which has
\* the child x in its lower half and y in its upper half; the buckets of B are there.
Branches(n, g, x, y, B) ==
  LET f == node[n].parent
  IN  /\ g \in FwdIds \ fwds /\ fwds' = fwds \cup {g}
      /\ fwd' = [fwd EXCEPT ![f].children = Put(f, node[n].prefix, g),
                            ![g] = [parent |-> f, path |-> Pad(node[n].prefix),
                                    children |-> [s \in Slots |-> IF s[1] = 0 THEN x ELSE y]]]
      /\ nodes' \subseteq NodeIds /\ B \subseteq nodes' /\ nodes' \ B = nodes \ {n}
      /\ \A m \in nodes \ {n} : node'[m] = node[m]
      /\ \A m \in NodeIds \ nodes' : node'[m] = DeadNode
      /\ x # y /\ B = {x, y} \ {g}
      /\ x # g => node'[x].prefix = <<0>> /\ node'[x].parent = g
      /\ y # g => node'[y].prefix = <<1>> /\ node'[y].parent = g

\* Such a step keeps the tree well formed.
LEMMA BranchStep ==
  ASSUME TreeInv, NEW n \in nodes, Len(node[n].prefix) = BSIZE, NEW g, NEW x, NEW y, NEW B,
         Branches(n, g, x, y, B)
  PROVE  Tree'
<1> DEFINE f == node[n].parent
           q == node[n].prefix
           kids == [s \in Slots |-> IF s[1] = 0 THEN x ELSE y]
<1>1. /\ fwds \subseteq FwdIds /\ nodes \subseteq NodeIds /\ Root \in fwds
      /\ fwd \in [FwdIds -> Fwd] /\ \A m \in NodeIds : m \notin FwdIds
      /\ f \in fwds /\ q \in SlotPrefixes /\ Root \in FwdIds /\ n \in NodeIds
  BY Addresses, ParentAlive DEF TreeInv
<1>2. /\ g \in FwdIds /\ g \notin fwds /\ fwds' = fwds \cup {g}
      /\ fwd' = [fwd EXCEPT ![f].children = Put(f, q, g),
                            ![g] = [parent |-> f, path |-> Pad(q), children |-> kids]]
  BY DEF Branches
<1> HIDE DEF f, q, kids
<1>3. /\ fwd'[g] = [parent |-> f, path |-> Pad(q), children |-> kids]
      /\ fwd'[f].children = Put(f, q, g)
      /\ \A e \in FwdIds \ {g} : /\ fwd'[e].parent = fwd[e].parent
                                 /\ fwd'[e].path = fwd[e].path
                                 /\ e # f => fwd'[e] = fwd[e]
  BY <1>1, <1>2 DEF Fwd
<1>4. \A s \in Slots : fwd'[f].children[s] = IF Covers(q, s) THEN g ELSE fwd[f].children[s]
  BY <1>3 DEF Put
<1>5. \A s \in Slots : /\ Covers(q, s) <=> fwd[f].children[s] = n
                       /\ Covers(q, s) => s = Pad(q)
  <2>1. \A s \in Slots : Covers(q, s) => fwd[f].children[s] = n
    BY RangeOf DEF f, q
  <2>2. \A s \in Slots : fwd[f].children[s] = n => Covers(q, s)
    BY <1>1, ChildOf DEF q
  <2>3. \A s \in Slots : Covers(q, s) => s = Pad(q)
    BY <1>1, FullRange DEF q
  <2>4. QED
    BY <2>1, <2>2, <2>3
<1>6. Pad(q) \in Slots /\ Covers(q, Pad(q))
  BY <1>1, PadCovered
<1>7. /\ nodes' \subseteq NodeIds /\ B \subseteq nodes' /\ nodes' \ B = nodes \ {n}
      /\ \A m \in nodes \ {n} : node'[m] = node[m]
      /\ x # y /\ B = {x, y} \ {g}
      /\ x # g => node'[x].prefix = <<0>> /\ node'[x].parent = g
      /\ y # g => node'[y].prefix = <<1>> /\ node'[y].parent = g
  BY DEF Branches
<1>8. \A s \in Slots : /\ s[1] \in {0, 1}
                       /\ Covers(<<0>>, s) <=> s[1] = 0
                       /\ Covers(<<1>>, s) <=> s[1] = 1
  BY PrefixFacts DEF Covers
<1>9. ASSUME NEW e \in fwds', e # Root
      PROVE  fwd'[e].parent \in fwds' /\ fwd'[fwd'[e].parent].children[fwd'[e].path] = e
  <2>1. CASE e = g
    BY <1>1, <1>2, <1>3, <1>4, <1>6, <2>1
  <2>2. CASE e # g
    <3>1. /\ e \in fwds /\ fwd[e].parent \in fwds /\ fwd[e].path \in Slots
          /\ fwd[fwd[e].parent].children[fwd[e].path] = e
      BY <1>2, <1>9, <2>2, PathOf
    <3>2. fwd'[e].parent = fwd[e].parent /\ fwd'[e].path = fwd[e].path
      BY <1>1, <1>3, <2>2, <3>1
    <3>3. e # n
      BY <1>1, <3>1
    <3>4. CASE fwd[e].parent = f
      <4>1. ~ Covers(q, fwd[e].path)
        BY <1>5, <3>1, <3>3, <3>4
      <4>2. fwd'[f].children[fwd[e].path] = fwd[f].children[fwd[e].path]
        BY <1>4, <3>1, <4>1
      <4>3. f \in fwds'
        BY <1>1, <1>2
      <4>4. QED
        BY <3>1, <3>2, <3>4, <4>2, <4>3
    <3>5. CASE fwd[e].parent # f
      BY <1>1, <1>2, <1>3, <3>1, <3>2, <3>5
    <3>6. QED
      BY <3>4, <3>5
  <2>3. QED
    BY <2>1, <2>2
<1>10. ASSUME NEW e \in fwds', NEW s \in Slots
       PROVE  LET c == fwd'[e].children[s]
              IN  \/ c = e
                  \/ c \in fwds' /\ fwd'[c].parent = e /\ fwd'[c].path = s
                  \/ c \in nodes' /\ node'[c].parent = e /\ Covers(node'[c].prefix, s)
  <2>1. CASE e = g
    <3>1. fwd'[g].children[s] = IF s[1] = 0 THEN x ELSE y
      BY <1>3 DEF kids
    <3>2. \A b \in B : b \in nodes'
      BY <1>7
    <3>3. CASE s[1] = 0
      BY <1>7, <1>8, <2>1, <3>1, <3>2, <3>3
    <3>4. CASE s[1] = 1
      BY <1>7, <1>8, <2>1, <3>1, <3>2, <3>4
    <3>5. QED
      BY <1>8, <3>3, <3>4
  <2>2. CASE e # g
    <3> DEFINE d == fwd[e].children[s]
    <3>1. e \in fwds
      BY <1>2, <2>2
    <3>2. \/ d = e
          \/ d \in fwds /\ fwd[d].parent = e /\ fwd[d].path = s
          \/ d \in nodes /\ node[d].parent = e /\ Covers(node[d].prefix, s)
      BY <3>1, ChildOf
    <3> HIDE DEF d
    <3>3. CASE e = f /\ Covers(q, s)
      BY <1>1, <1>2, <1>3, <1>4, <1>5, <3>3
    <3>4. CASE ~ (e = f /\ Covers(q, s))
      <4>1. fwd'[e].children[s] = d
        BY <1>1, <1>3, <1>4, <2>2, <3>1, <3>4 DEF d
      <4>2. d # n
        <5>1. d = n => e = f
          BY <1>1, <3>1, <3>2 DEF f
        <5>2. QED
          BY <1>5, <3>4, <5>1 DEF d
      <4>3. CASE d = e
        BY <4>1, <4>3
      <4>4. CASE d \in fwds /\ fwd[d].parent = e /\ fwd[d].path = s
        BY <1>1, <1>2, <1>3, <4>1, <4>4
      <4>5. CASE d \in nodes /\ node[d].parent = e /\ Covers(node[d].prefix, s)
        BY <1>7, <4>1, <4>2, <4>5
      <4>6. QED
        BY <3>2, <4>3, <4>4, <4>5
    <3>5. QED
      BY <3>3, <3>4
  <2>3. QED
    BY <2>1, <2>2
<1>11. ASSUME NEW m \in nodes', NEW s \in Slots, Covers(node'[m].prefix, s)
       PROVE  fwd'[node'[m].parent].children[s] = m
  <2>1. CASE m \in B
    <3>1. fwd'[g].children[s] = IF s[1] = 0 THEN x ELSE y
      BY <1>3 DEF kids
    <3>2. CASE m = x
      BY <1>7, <1>8, <1>11, <2>1, <3>1, <3>2
    <3>3. CASE m = y
      <4>1. s[1] # 0
        BY <1>7, <1>8, <1>11, <2>1, <3>3
      <4>2. QED
        BY <1>7, <2>1, <3>1, <3>3, <4>1
    <3>4. QED
      BY <1>7, <2>1, <3>2, <3>3
  <2>2. CASE m \notin B
    <3>1. m \in nodes /\ m # n /\ node'[m] = node[m]
      BY <1>7, <2>2
    <3>2. fwd[node[m].parent].children[s] = m /\ node[m].parent \in fwds
      BY <1>1, <1>11, <3>1, RangeOf, ParentAlive
    <3>3. CASE node[m].parent = f
      BY <1>4, <1>5, <3>1, <3>2, <3>3
    <3>4. CASE node[m].parent # f
      BY <1>1, <1>2, <1>3, <3>1, <3>2, <3>4
    <3>5. QED
      BY <3>3, <3>4
  <2>3. QED
    BY <2>1, <2>2
<1>12. TreeWellFormed'
  BY <1>9, <1>10, <1>11 DEF TreeWellFormed
<1>13. fwd'[Root].parent = Null /\ \A e \in fwds' \ {Root} : fwd'[e].parent # e
  BY <1>1, <1>2, <1>3 DEF TreeInv
<1>14. DeadOK'
  <2>1. \A e \in FwdIds \ fwds' : fwd'[e] = DeadFwd
    BY <1>1, <1>2, <1>3 DEF TreeInv, DeadOK
  <2>2. \A m \in NodeIds \ nodes' : node'[m] = DeadNode
    BY DEF Branches
  <2>3. QED
    BY <2>1, <2>2 DEF DeadOK, DeadFwd, DeadNode
<1>15. QED
  BY <1>12, <1>13, <1>14 DEF Tree

\* split_fwd: the bucket's slot becomes a forwarding node's.
LEMMA SplitFwdTree ==
  ASSUME TreeInv, SplitFwd PROVE Tree' /\ CallsOK'
<1> DEFINE n == Top.node
           old == node[n]
           b == Top.p \div BDIV
           size == Positive(Top.size) + b
           p == Top.p + 1
           cut == IF p % BDIV = 0 THEN 1 ELSE 0
           g == FreshFwd
           l == FreshNode
           Branch(x, y) == [parent |-> Top.fwd, path |-> Pad(old.prefix),
                            children |-> [s \in Slots |-> IF s[1] = 0 THEN x ELSE y]]
           Link(x, y) == fwd' = [fwd EXCEPT ![Top.fwd].children = Put(Top.fwd, old.prefix, g),
                                            ![g] = Branch(x, y)]
<1>1. /\ n \in nodes /\ Top.fwd = node[n].parent /\ Top.fwd \in fwds /\ node[n] \in Node
      /\ old.prefix \in SlotPrefixes /\ stack # <<>> /\ n \in NodeIds
  BY ZenonT(60), SplitTop DEF SplitFwd
<1>2. /\ g \in FwdIds /\ g \notin fwds /\ fwds' = fwds \cup {g} /\ n # g
      /\ Len(node[n].prefix) = BSIZE
  BY ZenonT(60), <1>1, Addresses DEF TreeInv, SplitFwd, FreshFwd
<1>3. nodes \subseteq NodeIds /\ node \in [NodeIds -> Node] /\ \A x \in NodeIds \ nodes : node[x] = DeadNode
  BY Addresses DEF TreeInv, DeadOK
<1> HIDE DEF n, g
<1>4. ASSUME NEW lows, Link(n, g), Become(Frame("split", n, g, Top.size - cut, p)),
             node' = [node EXCEPT ![n] = [prefix |-> << 0 >>, parent |-> g, items |-> lows]],
             nodes' = nodes
      PROVE  Tree' /\ CallsOK'
  <2>1. node'[n].prefix = <<0>> /\ node'[n].parent = g /\ \A x \in NodeIds \ {n} : node'[x] = node[x]
    BY <1>1, <1>3, <1>4
  <2>2. Branches(n, g, n, g, {n})
    BY <1>1, <1>2, <1>3, <1>4, <2>1 DEF Branches
  <2>3. Tree'
    BY <1>1, <1>2, <2>2, BranchStep
  <2> DEFINE frame == Frame("split", n, g, Top.size - cut, p)
  <2>4. frame.fn = "split" /\ frame.node = n /\ frame.fwd = g /\ Become(frame)
    BY <1>4 DEF Frame
  <2> HIDE DEF frame
  <2>5. CallsOK'
    BY <1>1, <1>4, <2>1, <2>4, BecomeCalls
  <2>6. QED
    BY <2>3, <2>5
<1>5. ASSUME NEW highs, Link(g, n), Become(Frame("split", n, g, Top.size - cut, p)),
             node' = [node EXCEPT ![n] = [prefix |-> << 1 >>, parent |-> g, items |-> highs]],
             nodes' = nodes
      PROVE  Tree' /\ CallsOK'
  <2>1. node'[n].prefix = <<1>> /\ node'[n].parent = g /\ \A x \in NodeIds \ {n} : node'[x] = node[x]
    BY <1>1, <1>3, <1>5
  <2>2. Branches(n, g, g, n, {n})
    BY <1>1, <1>2, <1>3, <1>5, <2>1 DEF Branches
  <2>3. Tree'
    BY <1>1, <1>2, <2>2, BranchStep
  <2> DEFINE frame == Frame("split", n, g, Top.size - cut, p)
  <2>4. frame.fn = "split" /\ frame.node = n /\ frame.fwd = g /\ Become(frame)
    BY <1>5 DEF Frame
  <2> HIDE DEF frame
  <2>5. CallsOK'
    BY <1>1, <1>5, <2>1, <2>4, BecomeCalls
  <2>6. QED
    BY <2>3, <2>5
<1>6. ASSUME NEW lows, NEW highs, Link(l, n), Return, nodes # NodeIds, nodes' = nodes \cup {l},
             node' = [node EXCEPT ![n] = [prefix |-> << 1 >>, parent |-> g, items |-> highs],
                                  ![l] = [prefix |-> << 0 >>, parent |-> g, items |-> lows]]
      PROVE  Tree' /\ CallsOK'
  <2>1. l \in NodeIds /\ l \notin nodes /\ l # n /\ l # g
    BY <1>1, <1>2, <1>3, <1>6, Addresses DEF FreshNode, TreeInv
  <2> HIDE DEF l
  <2>2. /\ node'[n].prefix = <<1>> /\ node'[n].parent = g
        /\ node'[l].prefix = <<0>> /\ node'[l].parent = g
        /\ \A x \in NodeIds \ {n, l} : node'[x] = node[x]
    BY <1>1, <1>3, <1>6, <2>1
  <2>3. /\ nodes' \subseteq NodeIds /\ {l, n} \subseteq nodes' /\ nodes' \ {l, n} = nodes \ {n}
        /\ \A x \in nodes \ {n} : node'[x] = node[x]
        /\ \A x \in NodeIds \ nodes' : node'[x] = DeadNode
    BY <1>1, <1>3, <1>6, <2>1, <2>2
  <2>4. {l, n} \ {g} = {l, n}
    BY <1>2, <2>1
  <2>5. Branches(n, g, l, n, {l, n})
    BY <1>1, <1>2, <1>6, <2>1, <2>2, <2>3, <2>4 DEF Branches
  <2>6. Tree'
    BY <1>1, <1>2, <2>5, BranchStep
  <2>7. CallsOK'
    BY <1>1, <1>6, ReturnCalls
  <2>8. QED
    BY <2>6, <2>7
<1>7. \/ \E lows : /\ Link(n, g) /\ Become(Frame("split", n, g, Top.size - cut, p))
                   /\ node' = [node EXCEPT ![n] = [prefix |-> <<0>>, parent |-> g, items |-> lows]]
                   /\ nodes' = nodes
      \/ \E highs : /\ Link(g, n) /\ Become(Frame("split", n, g, Top.size - cut, p))
                    /\ node' = [node EXCEPT ![n] = [prefix |-> <<1>>, parent |-> g, items |-> highs]]
                    /\ nodes' = nodes
      \/ \E lows, highs :
           /\ Link(l, n) /\ Return /\ nodes # NodeIds /\ nodes' = nodes \cup {l}
           /\ node' = [node EXCEPT ![n] = [prefix |-> <<1>>, parent |-> g, items |-> highs],
                                   ![l] = [prefix |-> <<0>>, parent |-> g, items |-> lows]]
  BY Zenon DEF SplitFwd, n, g
<1> HIDE DEF Link, l, p, cut
<1>8. QED
  BY <1>4, <1>5, <1>6, <1>7

\* readd_byte: a bucket takes the slot of its parent, which goes.
LEMMA ReaddByteTree ==
  ASSUME TreeInv, ReaddByte PROVE Tree' /\ CallsOK'
<1> DEFINE n == Top.node
           f == node[n].parent
           up == fwd[f].parent
           t == fwd[f].path
<1>1. /\ n \in nodes /\ f \in fwds /\ stack # <<>> /\ n \in NodeIds
      /\ node[n].prefix = <<>> /\ f # Root
  BY MergeTop DEF ReaddByte, Merging
<1>2. up \in fwds /\ up # f /\ t \in Slots /\ fwd[up].children[t] = f
  BY <1>1, PathOf
<1>3. /\ fwds \subseteq FwdIds /\ nodes \subseteq NodeIds /\ Root \in fwds
      /\ fwd \in [FwdIds -> Fwd] /\ \A m \in NodeIds : m \notin FwdIds
      /\ node \in [NodeIds -> Node]
  BY Addresses DEF TreeInv
<1>4. /\ fwd' = [fwd EXCEPT ![up].children = Put(up, t, n), ![f] = DeadFwd]
      /\ fwds' = fwds \ {f} /\ nodes' = nodes
      /\ \E items : node' = [node EXCEPT ![n] = [prefix |-> t, parent |-> up, items |-> items]]
      /\ \E size, later, p, byte :
           stack' = <<Frame("merge_down", n, Null, size, p),
                      Frame("after_readd", n, Null, later, byte)>> \o Tail(stack)
  BY Zenon DEF ReaddByte
<1> HIDE DEF n, f, up, t
<1>5. /\ node'[n].prefix = t /\ node'[n].parent = up
      /\ \A x \in NodeIds \ {n} : node'[x] = node[x]
  BY <1>1, <1>3, <1>4
<1>6. /\ fwd'[f] = DeadFwd
      /\ fwd'[up].children = Put(up, t, n)
      /\ \A e \in FwdIds \ {f} : /\ fwd'[e].parent = fwd[e].parent
                                 /\ fwd'[e].path = fwd[e].path
                                 /\ e # up => fwd'[e] = fwd[e]
  BY <1>1, <1>2, <1>3, <1>4 DEF Fwd
<1>7. \A s \in Slots : fwd'[up].children[s] = IF s = t THEN n ELSE fwd[up].children[s]
  <2>1. \A s \in Slots : Covers(t, s) <=> s = t
    BY <1>2, SlotRange
  <2>2. QED
    BY <1>6, <2>1 DEF Put
<1>8. \A s \in Slots : fwd[f].children[s] = n
  BY <1>1, EmptyRange, RangeOf DEF f
<1>9. /\ \A e \in fwds : e # Root => fwd[e].parent # f
      /\ \A m \in nodes : node[m].parent = f => m = n
  <2>1. ASSUME NEW e \in fwds, e # Root, fwd[e].parent = f PROVE FALSE
    <3>1. fwd[e].path \in Slots /\ fwd[f].children[fwd[e].path] = e
      BY <2>1, PathOf
    <3>2. QED
      BY <1>1, <1>3, <1>8, <3>1
  <2>2. ASSUME NEW m \in nodes, node[m].parent = f PROVE m = n
    <3>1. node[m].prefix \in SlotPrefixes
      BY <1>3, Addresses DEF TreeInv
    <3>2. QED
      BY <1>8, <2>2, <3>1, PadCovered, RangeOf
  <2>3. QED
    BY <2>1, <2>2
<1>10. ASSUME NEW e \in fwds', e # Root
       PROVE  fwd'[e].parent \in fwds' /\ fwd'[fwd'[e].parent].children[fwd'[e].path] = e
  <2>1. /\ e \in fwds /\ e # f /\ fwd[e].parent \in fwds /\ fwd[e].path \in Slots
        /\ fwd[fwd[e].parent].children[fwd[e].path] = e
    BY <1>4, <1>10, PathOf
  <2>2. fwd'[e].parent = fwd[e].parent /\ fwd'[e].path = fwd[e].path /\ fwd[e].parent # f
    BY <1>3, <1>6, <1>9, <1>10, <2>1
  <2>3. CASE fwd[e].parent = up
    <3>1. fwd[e].path # t
      BY <1>2, <2>1, <2>3
    <3>2. fwd'[up].children[fwd[e].path] = fwd[up].children[fwd[e].path]
      BY <1>7, <2>1, <3>1
    <3>3. up \in fwds'
      BY <1>2, <1>4
    <3>4. QED
      BY <2>1, <2>2, <2>3, <3>2, <3>3
  <2>4. CASE fwd[e].parent # up
    BY <1>3, <1>4, <1>6, <2>1, <2>2, <2>4
  <2>5. QED
    BY <2>3, <2>4
<1>11. ASSUME NEW e \in fwds', NEW s \in Slots
       PROVE  LET c == fwd'[e].children[s]
              IN  \/ c = e
                  \/ c \in fwds' /\ fwd'[c].parent = e /\ fwd'[c].path = s
                  \/ c \in nodes' /\ node'[c].parent = e /\ Covers(node'[c].prefix, s)
  <2> DEFINE d == fwd[e].children[s]
  <2>1. e \in fwds /\ e # f
    BY <1>4
  <2>2. \/ d = e
        \/ d \in fwds /\ d # Root /\ fwd[d].parent = e /\ fwd[d].path = s
        \/ d \in nodes /\ node[d].parent = e /\ Covers(node[d].prefix, s)
    BY <2>1, ChildOf
  <2> HIDE DEF d
  <2>3. CASE e = up /\ s = t
    <3>1. Covers(t, s)
      BY <1>2, <2>3, SlotRange
    <3>2. fwd'[e].children[s] = n
      BY <1>7, <2>3
    <3>3. n \in nodes' /\ node'[n].parent = e /\ Covers(node'[n].prefix, s)
      BY <1>1, <1>4, <1>5, <2>3, <3>1
    <3>4. QED
      BY <3>2, <3>3
  <2>4. CASE ~ (e = up /\ s = t)
    <3>1. fwd'[e].children[s] = d
      BY <1>3, <1>6, <1>7, <2>1, <2>4 DEF d
    <3>2. CASE d = e
      BY <3>1, <3>2
    <3>3. CASE d \in fwds /\ d # Root /\ fwd[d].parent = e /\ fwd[d].path = s
      <4>1. d # f
        BY <2>4, <3>3 DEF up, t
      <4>2. QED
        BY SMTT(60), <1>3, <1>4, <1>6, <3>1, <3>3, <4>1
    <3>4. CASE d \in nodes /\ node[d].parent = e /\ Covers(node[d].prefix, s)
      <4>1. d # n
        BY <2>1, <3>4 DEF f
      <4>2. QED
        BY <1>3, <1>4, <1>5, <3>1, <3>4, <4>1
    <3>5. QED
      BY <2>2, <3>2, <3>3, <3>4
  <2>5. QED
    BY <2>3, <2>4
<1>12. ASSUME NEW m \in nodes', NEW s \in Slots, Covers(node'[m].prefix, s)
       PROVE  fwd'[node'[m].parent].children[s] = m
  <2>1. CASE m = n
    <3>1. s = t
      BY <1>2, <1>5, <1>12, <2>1, SlotRange
    <3>2. QED
      BY <1>5, <1>7, <2>1, <3>1
  <2>2. CASE m # n
    <3>1. m \in nodes /\ node'[m] = node[m] /\ node[m].parent # f
      BY <1>3, <1>4, <1>5, <1>9, <2>2
    <3>2. fwd[node[m].parent].children[s] = m /\ node[m].parent \in fwds
      BY <1>3, <1>12, <3>1, RangeOf, ParentAlive
    <3>3. CASE node[m].parent = up
      <4>1. s # t
        BY <1>1, <1>2, <1>3, <3>1, <3>2, <3>3
      <4>2. QED
        BY <1>7, <3>1, <3>2, <3>3, <4>1
    <3>4. CASE node[m].parent # up
      BY <1>3, <1>6, <3>1, <3>2, <3>4
    <3>5. QED
      BY <3>3, <3>4
  <2>3. QED
    BY <2>1, <2>2
<1>13. TreeWellFormed'
  BY <1>10, <1>11, <1>12 DEF TreeWellFormed
<1>14. fwd'[Root].parent = Null /\ \A e \in fwds' \ {Root} : fwd'[e].parent # e
  BY <1>1, <1>3, <1>4, <1>6 DEF TreeInv
<1>15. DeadOK'
  <2>1. \A e \in FwdIds \ fwds' : fwd'[e] = DeadFwd
    BY <1>2, <1>4, <1>6 DEF TreeInv, DeadOK
  <2>2. \A m \in NodeIds \ nodes' : node'[m] = DeadNode
    BY <1>1, <1>4, <1>5 DEF TreeInv, DeadOK
  <2>3. QED
    BY <2>1, <2>2 DEF DeadOK, DeadFwd, DeadNode
<1>16. CallsOK'
  <2>1. PICK size, later, p, byte :
          stack' = <<Frame("merge_down", n, Null, size, p),
                     Frame("after_readd", n, Null, later, byte)>> \o Tail(stack)
    BY <1>4
  <2> DEFINE new == Frame("merge_down", n, Null, size, p)
             waiting == Frame("after_readd", n, Null, later, byte)
  <2>2. new.fn = "merge_down" /\ new.node = n /\ waiting.fn = "after_readd"
    BY DEF Frame
  <2>3. stack \in Seq(Frames) /\ \A i \in DOMAIN stack : i > 1 => stack[i].fn = "after_readd"
    BY DEF TreeInv, TypeOK, CallsOK
  <2>4. stack' = <<new, waiting>> \o Tail(stack)
    BY <2>1
  <2> HIDE DEF new, waiting
  <2>5. Top' = new /\ stack' # <<>>
    BY <1>1, <2>3, <2>4 DEF Top
  <2>6. \A i \in DOMAIN stack' : i > 1 => stack'[i].fn = "after_readd"
    <3>1. \A i \in DOMAIN stack' : i > 1 =>
            \/ i = 2 /\ stack'[i] = waiting
            \/ i - 1 > 1 /\ i - 1 \in DOMAIN stack /\ stack'[i] = stack[i - 1]
      BY <1>1, <2>3, <2>4
    <3>2. QED
      BY <2>2, <2>3, <3>1
  <2>7. QED
    BY <1>1, <1>4, <2>2, <2>5, <2>6 DEF CallsOK
<1>17. QED
  BY <1>13, <1>14, <1>15, <1>16 DEF Tree

\* merge_down, after readd_byte, goes on with a bucket that is not deleted, or returns.
LEMMA AfterReaddTree ==
  ASSUME TreeInv, AfterReadd PROVE Tree' /\ CallsOK'
<1> DEFINE n == Top.node
<1>1. UNCHANGED <<fwds, fwd, nodes, node>> /\ stack # <<>>
  BY DEF AfterReadd, Running
<1>2. CASE Return
  BY <1>1, <1>2, SameTree, ReturnCalls
<1>3. CASE node[n].parent # Root /\ MergeDown(n)
  <2>1. n \in NodeIds
    <3>1. Top \in Frames /\ Top.fn = "after_readd"
      BY StackType DEF AfterReadd, Running, TreeInv, TypeOK
    <3>2. QED
      BY <3>1 DEF Frames, Splits, Merges, Climbs
  <2>2. n \in nodes
    <3>1. n \notin nodes => node[n] = DeadNode
      BY <2>1 DEF TreeInv, DeadOK
    <3>2. QED
      BY <1>3, <3>1 DEF DeadNode
  <2> DEFINE frame == Frame("merge_down", n, Null, Top.size, Top.p)
  <2>3. frame.fn = "merge_down" /\ frame.node = n /\ Become(frame)
    BY <1>3 DEF Frame, MergeDown
  <2> HIDE DEF frame, n
  <2>4. CallsOK'
    BY <1>1, <2>2, <2>3, BecomeCalls
  <2>5. QED
    BY <1>1, <2>4, SameTree
<1>4. QED
  BY <1>2, <1>3 DEF AfterReadd

\* A merge goes on with another bucket, or the same.
LEMMA MergeDownCalls ==
  ASSUME TreeInv, stack # <<>>, NEW n \in nodes', MergeDown(n) PROVE CallsOK'
<1> DEFINE frame == Frame("merge_down", n, Null, Top.size, Top.p)
<1>1. frame.fn = "merge_down" /\ frame.node = n /\ Become(frame)
  BY DEF Frame, MergeDown
<1> HIDE DEF frame
<1>2. QED
  BY <1>1, BecomeCalls

\* merge_empty frees a bucket whose slots become empty.
LEMMA MergeEmptyTree ==
  ASSUME TreeInv, MergeEmpty PROVE Tree' /\ CallsOK'
<1> DEFINE n == Top.node
           f == node[n].parent
<1>1. /\ n \in nodes /\ f \in fwds /\ stack # <<>> /\ n \in NodeIds /\ node[n].prefix = <<>>
      /\ fwd' = [fwd EXCEPT ![f].children = Swap(f, n, f)]
      /\ node' = [node EXCEPT ![n] = DeadNode] /\ nodes' = nodes \ {n}
      /\ Become(Frame("climb", Null, f, Top.size, Top.p)) /\ fwds' = fwds
  BY MergeTop DEF MergeEmpty, Merging
<1> HIDE DEF n, f
<1>2. \A s \in Slots : fwd[f].children[s] = n /\ Covers(<<>>, s)
  BY <1>1, EmptyRange, RangeOf DEF f
<1>3. Swap(f, n, f) = Put(f, <<>>, f)
  BY <1>2 DEF Swap, Put
<1>4. /\ nodes \subseteq NodeIds /\ node \in [NodeIds -> Node]
      /\ \A x \in NodeIds \ nodes : node[x] = DeadNode
  BY Addresses DEF TreeInv, DeadOK
<1>5. node'[n] = DeadNode /\ \A x \in NodeIds \ {n} : node'[x] = node[x]
  BY <1>1, <1>4
<1>6. Replaces(f, <<>>, f, {n}, {})
  BY <1>1, <1>2, <1>3, <1>4, <1>5 DEF Replaces, f
<1>7. Tree'
  BY <1>1, <1>6, PutStep
<1> DEFINE frame == Frame("climb", Null, f, Top.size, Top.p)
<1>8. frame.fn = "climb" /\ frame.fwd = f /\ Become(frame)
  BY <1>1 DEF Frame
<1> HIDE DEF frame
<1>9. CallsOK'
  BY <1>1, <1>8, BecomeCalls
<1>10. QED
  BY <1>7, <1>9

\* merge_empty frees a forwarding node that has no children.
LEMMA ClimbTree ==
  ASSUME TreeInv, Climb PROVE Tree' /\ CallsOK'
<1> DEFINE f == Top.fwd
           up == fwd[f].parent
           t == fwd[f].path
           others == {fwd[f].children[s] : s \in Slots} \ {f}
           on_heap == IF (Top.p - 1) % BDIV = 0 THEN Top.size + 1 ELSE Top.size
           barren == f # Root /\ others = {}
<1>1. f \in fwds /\ stack # <<>>
  BY DEF TreeInv, CallsOK, Climb, Running
<1>2. /\ fwds \subseteq FwdIds /\ nodes \subseteq NodeIds /\ Root \in fwds
      /\ fwd \in [FwdIds -> Fwd] /\ \A m \in NodeIds : m \notin FwdIds
  BY Addresses DEF TreeInv
<1>3. UNCHANGED <<nodes, node>>
  BY DEF Climb
<1>4. CASE ~ barren
  <2>1. fwds' = fwds /\ fwd' = fwd
    BY <1>4 DEF Climb
  <2>2. \/ Return
        \/ \E c \in NodeIds : c \in others /\ MergeDown(c)
    BY <1>4 DEF Climb
  <2>3. CASE Return
    BY <1>1, <1>3, <2>1, <2>3, SameTree, ReturnCalls
  <2>4. ASSUME NEW c \in NodeIds, c \in others, MergeDown(c) PROVE Tree' /\ CallsOK'
    <3>1. c \in nodes
      BY <1>1, <1>2, <2>4, ChildOf
    <3>2. QED
      BY <1>1, <1>3, <2>1, <2>4, <3>1, SameTree, MergeDownCalls
  <2>5. QED
    BY <2>2, <2>3, <2>4
<1>5. CASE barren
  <2>1. f # Root /\ \A s \in Slots : fwd[f].children[s] = f
    BY <1>5
  <2>2. /\ fwd' = [fwd EXCEPT ![up].children = Put(up, t, up), ![f] = DeadFwd]
        /\ fwds' = fwds \ {f} /\ Become(Frame("climb", Null, up, on_heap, Top.p - 1))
    BY <1>5 DEF Climb
  <2>3. up \in fwds /\ up # f /\ t \in Slots /\ fwd[up].children[t] = f
    BY <1>1, <2>1, PathOf
  <2> HIDE DEF f, up, t, on_heap
  <2>4. /\ fwd'[f] = DeadFwd
        /\ fwd'[up].children = Put(up, t, up)
        /\ \A e \in FwdIds \ {f} : /\ fwd'[e].parent = fwd[e].parent
                                   /\ fwd'[e].path = fwd[e].path
                                   /\ e # up => fwd'[e] = fwd[e]
    BY <1>1, <1>2, <2>2, <2>3 DEF Fwd
  <2>5. \A s \in Slots : fwd'[up].children[s] = IF s = t THEN up ELSE fwd[up].children[s]
    <3>1. \A s \in Slots : Covers(t, s) <=> s = t
      BY <2>3, SlotRange
    <3>2. QED
      BY <2>4, <3>1 DEF Put
  <2>6. /\ \A e \in fwds : e # Root /\ e # f => fwd[e].parent # f
        /\ \A m \in nodes : node[m].parent # f
    <3>1. ASSUME NEW e \in fwds, e # Root, e # f, fwd[e].parent = f PROVE FALSE
      BY <2>1, <3>1, PathOf
    <3>2. ASSUME NEW m \in nodes, node[m].parent = f PROVE FALSE
      <4>1. node[m].prefix \in SlotPrefixes /\ m # f
        BY <1>1, <1>2, Addresses DEF TreeInv
      <4>2. QED
        BY <2>1, <3>2, <4>1, PadCovered, RangeOf
    <3>3. QED
      BY <3>1, <3>2
  <2>7. ASSUME NEW e \in fwds', e # Root
        PROVE  fwd'[e].parent \in fwds' /\ fwd'[fwd'[e].parent].children[fwd'[e].path] = e
    <3>1. /\ e \in fwds /\ e # f /\ fwd[e].parent \in fwds /\ fwd[e].path \in Slots
          /\ fwd[fwd[e].parent].children[fwd[e].path] = e
      BY <2>2, <2>7, PathOf
    <3>2. fwd'[e].parent = fwd[e].parent /\ fwd'[e].path = fwd[e].path /\ fwd[e].parent # f
      BY <1>2, <2>4, <2>6, <2>7, <3>1
    <3>3. CASE fwd[e].parent = up
      <4>1. fwd[e].path # t
        BY <2>3, <3>1, <3>3
      <4>2. fwd'[up].children[fwd[e].path] = fwd[up].children[fwd[e].path]
        BY <2>5, <3>1, <4>1
      <4>3. up \in fwds'
        BY <2>2, <2>3
      <4>4. QED
        BY <3>1, <3>2, <3>3, <4>2, <4>3
    <3>4. CASE fwd[e].parent # up
      BY <1>2, <2>2, <2>4, <3>1, <3>2, <3>4
    <3>5. QED
      BY <3>3, <3>4
  <2>8. ASSUME NEW e \in fwds', NEW s \in Slots
        PROVE  LET c == fwd'[e].children[s]
               IN  \/ c = e
                   \/ c \in fwds' /\ fwd'[c].parent = e /\ fwd'[c].path = s
                   \/ c \in nodes' /\ node'[c].parent = e /\ Covers(node'[c].prefix, s)
    <3> DEFINE d == fwd[e].children[s]
    <3>1. e \in fwds /\ e # f
      BY <2>2
    <3>2. \/ d = e
          \/ d \in fwds /\ d # Root /\ fwd[d].parent = e /\ fwd[d].path = s
          \/ d \in nodes /\ node[d].parent = e /\ Covers(node[d].prefix, s)
      BY <3>1, ChildOf
    <3> HIDE DEF d
    <3>3. CASE e = up /\ s = t
      BY <2>5, <3>3
    <3>4. CASE ~ (e = up /\ s = t)
      <4>1. fwd'[e].children[s] = d
        BY <1>2, <2>4, <2>5, <3>1, <3>4 DEF d
      <4>2. CASE d = e
        BY <4>1, <4>2
      <4>3. CASE d \in fwds /\ d # Root /\ fwd[d].parent = e /\ fwd[d].path = s
        <5>1. d # f
          BY <3>4, <4>3 DEF up, t
        <5>2. QED
          BY <1>2, <2>2, <2>4, <4>1, <4>3, <5>1
      <4>4. CASE d \in nodes /\ node[d].parent = e /\ Covers(node[d].prefix, s)
        BY <1>3, <4>1, <4>4
      <4>5. QED
        BY <3>2, <4>2, <4>3, <4>4
    <3>5. QED
      BY <3>3, <3>4
  <2>9. ASSUME NEW m \in nodes', NEW s \in Slots, Covers(node'[m].prefix, s)
        PROVE  fwd'[node'[m].parent].children[s] = m
    <3>1. m \in nodes /\ node'[m] = node[m] /\ node[m].parent # f
      BY <1>3, <2>6
    <3>2. fwd[node[m].parent].children[s] = m /\ node[m].parent \in fwds
      BY <1>2, <2>9, <3>1, RangeOf, ParentAlive
    <3>3. CASE node[m].parent = up
      <4>1. s # t
        BY <1>1, <1>2, <2>3, <3>1, <3>2, <3>3
      <4>2. QED
        BY <2>5, <3>1, <3>2, <3>3, <4>1
    <3>4. CASE node[m].parent # up
      BY <1>2, <2>4, <3>1, <3>2, <3>4
    <3>5. QED
      BY <3>3, <3>4
  <2>10. TreeWellFormed'
    BY <2>7, <2>8, <2>9 DEF TreeWellFormed
  <2>11. fwd'[Root].parent = Null /\ \A e \in fwds' \ {Root} : fwd'[e].parent # e
    BY <1>2, <2>1, <2>2, <2>4 DEF TreeInv
  <2>12. DeadOK'
    <3>1. \A e \in FwdIds \ fwds' : fwd'[e] = DeadFwd
      BY <2>2, <2>3, <2>4 DEF TreeInv, DeadOK
    <3>2. \A m \in NodeIds \ nodes' : node'[m] = DeadNode
      BY <1>3 DEF TreeInv, DeadOK
    <3>3. QED
      BY <3>1, <3>2 DEF DeadOK, DeadFwd, DeadNode
  <2>13. CallsOK'
    <3> DEFINE frame == Frame("climb", Null, up, on_heap, Top.p - 1)
    <3>1. frame.fn = "climb" /\ frame.fwd = up /\ Become(frame) /\ up \in fwds'
      BY <2>2, <2>3 DEF Frame
    <3> HIDE DEF frame
    <3>2. QED
      BY <1>1, <3>1, BecomeCalls
  <2>14. QED
    BY <2>10, <2>11, <2>12, <2>13 DEF Tree
<1>6. QED
  BY <1>4, <1>5

\* A bucket is the child in the slots of its range and in no other.
LEMMA OwnRange ==
  ASSUME TreeInv, NEW n \in nodes, NEW s \in Slots
  PROVE  Covers(node[n].prefix, s) <=> fwd[node[n].parent].children[s] = n
<1>1. node[n].parent \in fwds /\ \A f \in fwds : f # n
  BY ParentAlive, Addresses DEF TreeInv
<1>2. fwd[node[n].parent].children[s] = n => Covers(node[n].prefix, s)
  BY <1>1, ChildOf
<1>3. QED
  BY <1>2, RangeOf

\* A bucket that is freed leaves its slots empty.
LEMMA DeleteTree ==
  ASSUME TreeInv, NEW n \in nodes, Delete(n, node[n].parent), fwds' = fwds,
         node' = [node EXCEPT ![n] = DeadNode]
  PROVE  Tree'
<1> DEFINE f == node[n].parent
           q == node[n].prefix
<1>1. /\ f \in fwds /\ fwd' = [fwd EXCEPT ![f].children = Put(f, q, f)]
      /\ nodes' = nodes \ {n}
  BY ParentAlive, Addresses DEF Delete, TreeInv
<1>2. /\ nodes \subseteq NodeIds /\ node \in [NodeIds -> Node]
      /\ \A x \in NodeIds \ nodes : node[x] = DeadNode
  BY Addresses DEF TreeInv, DeadOK
<1>3. node'[n] = DeadNode /\ \A x \in NodeIds \ {n} : node'[x] = node[x]
  BY <1>2
<1>4. \A s \in Slots : Covers(q, s) <=> fwd[f].children[s] = n
  BY OwnRange
<1> HIDE DEF f, q
<1>5. Replaces(f, q, f, {n}, {})
  BY <1>1, <1>2, <1>3, <1>4 DEF Replaces, f
<1>6. QED
  BY <1>1, <1>5, PutStep

\* A merge with a finer buddy frees an empty bucket, or goes on with the buddy.
LEMMA MergeFinerTree ==
  ASSUME TreeInv, MergeFiner PROVE Tree' /\ CallsOK'
<1> DEFINE n == Top.node
           c == BuddyOf(n)
<1>1. n \in nodes /\ stack # <<>> /\ fwds' = fwds /\ node[n].prefix # <<>> /\ c \in NodeIds
  BY MergeTop DEF MergeFiner, MergingRegular, Merging
<1>2. c \in nodes
  BY <1>1, BuddyBucket
<1>3. CASE Delete(n, node[n].parent) /\ node' = [node EXCEPT ![n] = DeadNode] /\ Return
  <2> HIDE DEF n
  <2>1. QED
    BY <1>1, <1>3, DeleteTree, ReturnCalls
<1>4. CASE UNCHANGED <<fwd, nodes, node>> /\ (MergeDown(c) \/ Return)
  <2> HIDE DEF n, c
  <2>1. QED
    BY <1>1, <1>2, <1>4, SameTree, ReturnCalls, MergeDownCalls
<1>5. QED
  BY <1>3, <1>4 DEF MergeFiner

\* Two buddies become one bucket: the range of n is added to that of c, or the other
\* way round, and the bucket that is left has the range that they shared.
LEMMA JoinTree ==
  ASSUME TreeInv, NEW n \in nodes, NEW c \in nodes, Buddies(n, c), Delete(n, c),
         fwds' = fwds, node'[n] = DeadNode,
         node'[c].prefix = Front(node[n].prefix), node'[c].parent = node[c].parent,
         \A x \in NodeIds \ {n, c} : node'[x] = node[x]
  PROVE  Tree' /\ c \in nodes'
<1> DEFINE f == node[n].parent
           q == node[n].prefix
           b == Buddy(q)
<1>1. /\ f \in fwds /\ node[c].parent = f /\ node[c].prefix = b /\ q # <<>>
      /\ fwd' = [fwd EXCEPT ![f].children = Put(f, q, c)] /\ nodes' = nodes \ {n}
      /\ q \in SlotPrefixes
  BY ParentAlive, Addresses DEF Delete, TreeInv, Buddies
<1>2. /\ nodes \subseteq NodeIds /\ \A x \in NodeIds \ nodes : node[x] = DeadNode
  BY Addresses DEF TreeInv, DeadOK
<1>3. \A s \in Slots : Covers(q, s) <=> fwd[f].children[s] = n
  BY OwnRange
<1>4. \A s \in Slots : Covers(b, s) <=> fwd[f].children[s] = c
  BY <1>1, OwnRange
<1>5. \A s \in Slots : /\ Covers(Front(q), s) <=> Covers(q, s) \/ Covers(b, s)
                       /\ ~ (Covers(q, s) /\ Covers(b, s))
  BY <1>1, BuddyRange
<1>6. n # c
  <2>1. Pad(q) \in Slots /\ Covers(q, Pad(q))
    BY <1>1, PadCovered
  <2>2. QED
    BY <1>3, <1>4, <1>5, <2>1
<1>7. node'[c].prefix = Front(q) /\ node'[c].parent = f
  BY <1>1
<1> HIDE DEF f, q, b
<1>8. Replaces(f, q, c, {n, c}, {c})
  <2>1. /\ {n, c} \subseteq nodes /\ {c} \subseteq nodes' /\ nodes \ {n, c} = nodes' \ {c}
        /\ \A x \in nodes \ {n, c} : node'[x] = node[x]
        /\ \A x \in NodeIds \ nodes' : node'[x] = DeadNode
        /\ nodes' \subseteq NodeIds
    BY <1>1, <1>2, <1>6
  <2>2. /\ \A s \in Slots : Covers(q, s) => fwd[f].children[s] = n /\ Covers(Front(q), s)
        /\ \A s \in Slots : ~ Covers(q, s) => fwd[f].children[s] # n
        /\ \A s \in Slots : fwd[f].children[s] = c => Covers(Front(q), s)
        /\ \A s \in Slots : Covers(Front(q), s) /\ ~ Covers(q, s) => fwd[f].children[s] = c
    BY <1>3, <1>4, <1>5
  <2>3. node[n].parent = f /\ node[c].parent = f
    BY <1>1 DEF f
  <2>4. QED
    BY <1>1, <1>7, <2>1, <2>2, <2>3 DEF Replaces
<1>9. QED
  BY <1>1, <1>6, <1>8, PutStep

\* A merge with a buddy of the same size.
LEMMA MergeBuddyTree ==
  ASSUME TreeInv, MergeBuddy PROVE Tree' /\ CallsOK'
<1> DEFINE n == Top.node
           c == BuddyOf(n)
<1>1. /\ n \in nodes /\ stack # <<>> /\ fwds' = fwds /\ node[n].prefix # <<>> /\ c \in NodeIds
      /\ Len(node[c].prefix) = Len(node[n].prefix) /\ node[n].prefix \in SlotPrefixes
  BY MergeTop DEF MergeBuddy, MergingRegular, Merging
<1>2. /\ c \in nodes /\ c # n /\ node[c].parent = node[n].parent
      /\ node[c].prefix = Buddy(node[n].prefix)
  BY <1>1, BuddyBucket
<1>3. /\ Buddies(n, c) /\ Buddies(c, n)
      /\ Front(node[c].prefix) = Front(node[n].prefix)
  <2>1. /\ Buddy(Buddy(node[n].prefix)) = node[n].prefix
        /\ Front(Buddy(node[n].prefix)) = Front(node[n].prefix)
        /\ Len(Buddy(node[n].prefix)) = Len(node[n].prefix)
    BY <1>1, BuddyRange
  <2>2. Len(node[n].prefix) # 0
    BY <1>1, PrefixFacts
  <2>3. node[c].prefix # <<>>
    BY <1>2, <2>1, <2>2
  <2>4. QED
    BY <1>1, <1>2, <2>1, <2>3 DEF Buddies
<1>4. node \in [NodeIds -> Node] /\ nodes \subseteq NodeIds
  BY Addresses DEF TreeInv
<1>5. CASE /\ Delete(n, c) /\ MergeDown(c)
           /\ node' = [node EXCEPT ![n] = DeadNode, ![c].prefix = Front(node[c].prefix)]
  <2> HIDE DEF n, c
  <2>1. /\ node'[n] = DeadNode /\ node'[c].prefix = Front(node[c].prefix)
        /\ node'[c].parent = node[c].parent
        /\ \A x \in NodeIds \ {n, c} : node'[x] = node[x]
    BY <1>1, <1>2, <1>4, <1>5 DEF Node
  <2>2. Tree' /\ c \in nodes'
    BY <1>1, <1>2, <1>3, <1>5, <2>1, JoinTree
  <2>3. QED
    BY <1>1, <1>5, <2>2, MergeDownCalls
<1>6. CASE UNCHANGED <<fwd, nodes, node>> /\ Return
  BY <1>1, <1>6, SameTree, ReturnCalls
<1>7. ASSUME NEW both, Delete(c, n), MergeDown(n),
             node' = [node EXCEPT ![n].items = both, ![n].prefix = Front(@), ![c] = DeadNode]
      PROVE  Tree' /\ CallsOK'
  <2> HIDE DEF n, c
  <2>1. /\ node'[c] = DeadNode /\ node'[n].prefix = Front(node[n].prefix)
        /\ node'[n].parent = node[n].parent
        /\ \A x \in NodeIds \ {n, c} : node'[x] = node[x]
    BY <1>1, <1>2, <1>4, <1>7 DEF Node
  <2>2. Tree' /\ n \in nodes'
    BY <1>1, <1>2, <1>3, <1>7, <2>1, JoinTree
  <2>3. QED
    BY <1>1, <1>7, <2>2, MergeDownCalls
<1>8. QED
  BY <1>5, <1>6, <1>7 DEF MergeBuddy

\* A merge whose buddy slots hold no bucket: the bucket goes, stays or grows.
LEMMA MergeFwdTree ==
  ASSUME TreeInv, MergeFwd PROVE Tree' /\ CallsOK'
<1> DEFINE n == Top.node
           f == node[n].parent
           q == Front(node[n].prefix)
<1>1. /\ n \in nodes /\ stack # <<>> /\ fwds' = fwds /\ f \in fwds
      /\ node[n].prefix # <<>> /\ node[n].prefix \in SlotPrefixes
  BY MergeTop DEF MergeFwd, MergingRegular, Merging
<1>2. CASE Delete(n, f) /\ node' = [node EXCEPT ![n] = DeadNode] /\ Return
  <2> HIDE DEF n
  <2>1. QED
    BY <1>1, <1>2, DeleteTree, ReturnCalls
<1>3. CASE UNCHANGED <<fwd, nodes, node>> /\ Return
  BY <1>1, <1>3, SameTree, ReturnCalls
<1>4. CASE /\ CanGrow(n, q) /\ MergeDown(n) /\ UNCHANGED nodes
           /\ fwd' = [fwd EXCEPT ![f].children = Put(f, q, n)]
           /\ node' = [node EXCEPT ![n].prefix = q]
  <2>1. \A s \in Slots : Covers(node[n].prefix, s) <=> fwd[f].children[s] = n
    BY <1>1, OwnRange
  <2>2. \A s \in Slots : Covers(q, s) => fwd[f].children[s] \in {f, n}
    BY <1>4 DEF CanGrow
  <2>3. \A s \in Slots : Covers(node[n].prefix, s) => Covers(q, s)
    <3> HIDE DEF n
    <3>1. QED
      BY <1>1, BuddyRange
  <2>4. /\ node \in [NodeIds -> Node] /\ nodes \subseteq NodeIds
        /\ \A x \in NodeIds \ nodes : node[x] = DeadNode
    BY Addresses DEF TreeInv, DeadOK
  <2> HIDE DEF n, q, f
  <2>5. /\ node'[n].prefix = q /\ node'[n].parent = node[n].parent
        /\ \A x \in NodeIds \ {n} : node'[x] = node[x]
    BY <1>1, <1>4, <2>4 DEF Node
  <2>6. node[n].parent = f
    BY DEF f
  <2>7. Replaces(f, q, n, {n}, {n})
    <3>1. /\ {n} \subseteq nodes /\ {n} \subseteq nodes' /\ nodes' \subseteq NodeIds
          /\ nodes \ {n} = nodes' \ {n} /\ \A x \in nodes \ {n} : node'[x] = node[x]
          /\ \A x \in NodeIds \ nodes' : node'[x] = DeadNode
      BY <1>1, <1>4, <2>4, <2>5
    <3>2. \A s \in Slots : fwd[f].children[s] = n => Covers(q, s)
      BY <2>1, <2>3
    <3>3. QED
      BY <1>1, <1>4, <2>2, <2>5, <2>6, <3>1, <3>2 DEF Replaces
  <2>8. Tree'
    BY <1>1, <2>7, PutStep
  <2>9. QED
    BY <1>1, <1>4, <2>8, MergeDownCalls
<1>5. QED
  BY <1>2, <1>3, <1>4 DEF MergeFwd

\* A new trie.
LEMMA EmptyTree ==
  ASSUME fwds = {Root}, fwd = [f \in FwdIds |-> IF f = Root THEN EmptyRoot ELSE DeadFwd],
         nodes = {}, node = [n \in NodeIds |-> DeadNode]
  PROVE  Tree
<1>1. fwd[Root].parent = Null /\ \A s \in Slots : fwd[Root].children[s] = Root
  BY PTrieAssumption DEF EmptyRoot
<1>2. TreeWellFormed
  BY <1>1 DEF TreeWellFormed
<1>3. DeadOK
  BY DEF DeadOK
<1>4. QED
  BY <1>1, <1>2, <1>3 DEF Tree

\* The destructor, and a new trie.
LEMMA DestroyTree ==
  ASSUME TreeInv, Destroy PROVE Tree' /\ CallsOK'
<1>1. /\ fwds' = {Root} /\ nodes' = {} /\ node' = [n \in NodeIds |-> DeadNode]
      /\ fwd' = [f \in FwdIds |-> IF f = Root THEN EmptyRoot ELSE DeadFwd]
      /\ stack = <<>> /\ stack' = stack
  BY DEF Destroy
<1>2. fwd'[Root].parent = Null /\ \A s \in Slots : fwd'[Root].children[s] = Root
  BY <1>1, PTrieAssumption DEF EmptyRoot
<1>3. TreeWellFormed'
  BY <1>1, <1>2 DEF TreeWellFormed
<1>4. DeadOK'
  BY <1>1 DEF DeadOK, EmptyRoot, DeadFwd, DeadNode
<1>5. QED
  BY <1>1, <1>2, <1>3, <1>4, NoCalls DEF Tree

-----------------------------------------------------------------------------
(* The invariant *)

\* Every operation, in one place.
LEMMA NextTree ==
  ASSUME TreeInv, [Next]_vars PROVE TreeInv'
<1>1. SUFFICES Tree' /\ CallsOK'
  BY NextType DEF Tree, TreeInv
<1>2. ASSUME NEW k \in Keys, InsertInNewBucket(k) PROVE Tree' /\ CallsOK'
  BY <1>2, InsertInNewBucketTree
<1>3. ASSUME NEW k \in Keys, InsertInBucket(k) PROVE Tree' /\ CallsOK'
  BY <1>3, InsertInBucketTree
<1>4. ASSUME NEW k \in Keys, Erase(k) PROVE Tree' /\ CallsOK'
  BY <1>4, EraseTree
<1>5. ASSUME NEW k \in Keys, LookUp(k) PROVE Tree' /\ CallsOK'
  BY <1>5, LookUpTree
<1>6. CASE Destroy
  BY <1>6, DestroyTree
<1>7. CASE SplitNode
  BY <1>7, SplitNodeTree
<1>8. CASE SplitExhausted
  BY <1>8, SplitExhaustedTree
<1>9. CASE SplitFwd
  BY <1>9, SplitFwdTree
<1>10. CASE MergeDownStop
  BY <1>10, MergeDownStopTree
<1>11. CASE ReaddByte
  BY <1>11, ReaddByteTree
<1>12. CASE AfterReadd
  BY <1>12, AfterReaddTree
<1>13. CASE MergeEmpty
  BY <1>13, MergeEmptyTree
<1>14. CASE Climb
  BY <1>14, ClimbTree
<1>15. CASE MergeFiner
  BY <1>15, MergeFinerTree
<1>16. CASE MergeBuddy
  BY <1>16, MergeBuddyTree
<1>17. CASE MergeFwd
  BY <1>17, MergeFwdTree
<1>18. CASE UNCHANGED vars
  <2>1. UNCHANGED <<fwds, fwd, nodes, node, stack>>
    BY <1>18 DEF vars
  <2>2. Tree'
    BY <2>1, SameTree
  <2>3. CallsOK'
    BY <2>1 DEF TreeInv, CallsOK, Top
  <2>4. QED
    BY <2>2, <2>3
<1>19. QED
  BY <1>2, <1>3, <1>4, <1>5, <1>6, <1>7, <1>8, <1>9, <1>10, <1>11, <1>12, <1>13, <1>14,
     <1>15, <1>16, <1>17, <1>18 DEF Next, Continue

\* The trie is a tree, at any moment of an operation and for every value of the
\* constants: no forwarding node is its own parent, every parent and child that a node
\* points to is allocated and points back, and what is freed is not referred to.
THEOREM TreeHolds == Spec => []TreeInv
<1>1. Init => TreeInv
  <2> SUFFICES ASSUME Init PROVE TreeInv
    OBVIOUS
  <2>1. Tree
    BY EmptyTree DEF Init
  <2>2. CallsOK
    BY DEF Init, CallsOK
  <2>3. QED
    BY <2>1, <2>2, InitType, TreeInvParts
<1>2. TreeInv /\ [Next]_vars => TreeInv'
  BY NextTree
<1>3. QED
  BY <1>1, <1>2, PTL DEF Spec

\* What merge_regular, merge_empty, erase and the destructor take for granted of the
\* parent and the children of a node holds in every state.
THEOREM ChildrenAndParents == Spec => []TreeWellFormed
<1>1. TreeInv => TreeWellFormed
  BY DEF TreeInv
<1>2. QED
  BY <1>1, TreeHolds, PTL

-----------------------------------------------------------------------------
(* Bounds and ranges *)

\* A bucket that is split is not one that is merged.
LEMMA Bounds ==
  /\ MergeBound \in Nat /\ MergeBound >= 2
  /\ \A x \in Nat : Full(x) => x > MergeBound
  /\ ~ Full(1)
<1>1. SPLITBOUND \in Nat /\ SPLITBOUND >= 6
  BY PTrieAssumption
<1>2. QED
  BY <1>1 DEF MergeBound, Full

\* The number of items of a bucket.
LEMMA CountType ==
  ASSUME TreeInv, NEW n \in NodeIds PROVE Count(n) \in Nat
BY Addresses DEF TreeInv, Count

\* The range of which that of the bucket m is a half meets the range of another bucket
\* only where it contains it, and then what is next to that bucket too.
LEMMA FrontMeets ==
  ASSUME TreeInv, NEW n \in nodes, NEW m \in nodes, n # m, node[n].parent = node[m].parent,
         node[m].prefix # <<>>, NEW s \in Slots, Covers(node[n].prefix, s),
         Covers(Front(node[m].prefix), s)
  PROVE  /\ Len(node[n].prefix) >= Len(node[m].prefix) /\ node[n].prefix # <<>>
         /\ \A t \in Slots : Covers(Front(node[n].prefix), t) => Covers(Front(node[m].prefix), t)
<1> DEFINE q == node[n].prefix
           r == node[m].prefix
           t == Pad(r)
<1>1. q \in SlotPrefixes /\ r \in SlotPrefixes
  BY Addresses DEF TreeInv
<1>2. Len(q) \in Nat /\ Len(r) \in Nat
  BY <1>1, PrefixFacts
<1>3. /\ Front(r) \in SlotPrefixes /\ Len(Front(r)) = Len(r) - 1
      /\ \A u \in Slots : Covers(r, u) => Covers(Front(r), u)
  BY <1>1, BuddyRange
<1>4. t \in Slots /\ Covers(r, t) /\ Covers(Front(r), t)
  BY <1>1, <1>3, PadCovered
<1>5. Len(q) >= Len(r)
  <2> SUFFICES ASSUME Len(q) <= Len(r) - 1 PROVE FALSE
    BY <1>2
  <2>1. Covers(q, t)
    <3> HIDE DEF q, r, t
    <3>1. QED
      BY <1>1, <1>3, <1>4, Nested DEF q, r
  <2>2. QED
    BY <1>4, <2>1, Disjoint
<1>6. q # <<>>
  <2>1. r # <<>> => Len(r) > 0
    BY <1>1, PrefixFacts
  <2>2. QED
    BY <1>2, <1>5, <2>1
<1>7. /\ Front(q) \in SlotPrefixes /\ Len(Front(q)) = Len(q) - 1
      /\ \A u \in Slots : Covers(q, u) => Covers(Front(q), u)
  BY <1>1, <1>6, BuddyRange
<1>8. ASSUME NEW u \in Slots, Covers(Front(q), u) PROVE Covers(Front(r), u)
  <2>1. Len(Front(r)) <= Len(Front(q)) /\ Covers(Front(q), s)
    BY <1>2, <1>3, <1>5, <1>7
  <2> HIDE DEF q, r
  <2>2. QED
    BY <1>3, <1>7, <1>8, <2>1, Nested DEF r
<1>9. QED
  BY <1>5, <1>6, <1>8

\* The range of which that of a bucket is a half has the bucket's slots and its buddy's.
LEMMA FrontRange ==
  ASSUME TreeInv, NEW n \in nodes, node[n].prefix # <<>>
  PROVE  /\ \A s \in Slots : Covers(node[n].prefix, s) => Covers(Front(node[n].prefix), s)
         /\ Pad(Buddy(node[n].prefix)) \in Slots
         /\ Covers(Front(node[n].prefix), Pad(Buddy(node[n].prefix)))
<1>1. node[n].prefix \in SlotPrefixes
  BY Addresses DEF TreeInv
<1>2. Buddy(node[n].prefix) \in SlotPrefixes
  BY <1>1, BuddyRange
<1>3. QED
  BY <1>1, <1>2, BuddyRange, PadCovered

\* A bucket next to another bucket is not alone.
LEMMA NotAlone ==
  ASSUME TreeInv, NEW n \in nodes, node[n].prefix # <<>>, BuddyOf(n) \in NodeIds
  PROVE  ~ Alone(n)
<1> DEFINE s == Pad(Buddy(node[n].prefix))
<1>1. s \in Slots /\ Covers(Front(node[n].prefix), s)
  BY FrontRange
<1>2. /\ BuddyOf(n) = fwd[node[n].parent].children[s]
      /\ BuddyOf(n) # n
  BY BuddyBucket
<1>3. node[n].parent \notin NodeIds
  BY Addresses DEF TreeInv
<1>4. QED
  BY <1>1, <1>2, <1>3 DEF Alone

\* The buddy that a bucket has, if it has one, is the one that merge_regular looks at.
LEMMA BuddyIs ==
  ASSUME TreeInv, NEW n \in nodes, NEW c \in nodes, Buddies(n, c)
  PROVE  /\ c = BuddyOf(n) /\ c \in NodeIds /\ c # n
         /\ Len(node[c].prefix) = Len(node[n].prefix) /\ Buddies(c, n)
<1> DEFINE q == node[n].prefix
<1>1. /\ q \in SlotPrefixes /\ q # <<>> /\ node[c].prefix = Buddy(q)
      /\ node[n].parent = node[c].parent /\ c \in NodeIds
  BY Addresses DEF TreeInv, Buddies
<1> HIDE DEF q
<1>2. /\ Buddy(q) \in SlotPrefixes /\ Len(Buddy(q)) = Len(q) /\ Buddy(Buddy(q)) = q
      /\ \A s \in Slots : ~ (Covers(q, s) /\ Covers(Buddy(q), s))
  BY <1>1, BuddyRange
<1>3. Pad(Buddy(q)) \in Slots /\ Covers(Buddy(q), Pad(Buddy(q)))
  BY <1>2, PadCovered
<1>4. fwd[node[c].parent].children[Pad(Buddy(q))] = c
  BY <1>1, <1>3, RangeOf
<1>5. Buddy(q) # <<>>
  <2>1. Len(q) # 0
    BY <1>1, PrefixFacts
  <2>2. QED
    BY <1>2, <2>1
<1>6. c # n
  BY <1>1, <1>2, <1>3 DEF q
<1>7. QED
  BY <1>1, <1>2, <1>4, <1>5, <1>6 DEF BuddyOf, Buddies, q

-----------------------------------------------------------------------------
(* What a step leaves settled *)

\* A bucket that keeps its range and its items stays settled unless it becomes alone.
LEMMA StaySettled ==
  ASSUME NEW m, Settled(m), node'[m] = node[m],
         node[m].prefix # <<>> /\ Alone(m)' => Alone(m) \/ Count(m) > MergeBound
  PROVE  Settled(m)' /\ Count(m)' = Count(m)
BY DEF Settled, Count

\* Two such buckets are buddies as before.
LEMMA StayBuddies ==
  ASSUME NEW m, NEW c, node'[m] = node[m], node'[c] = node[c]
  PROVE  Buddies(m, c)' = Buddies(m, c)
BY DEF Buddies

\* The buckets of S will be settled.
WillSettle(S) ==
  /\ \A m \in S : Settled(m)'
  /\ \A m, c \in S : Buddies(m, c)' => Count(m)' + Count(c)' > MergeBound

\* The bucket m does not change, and becomes alone only if it is large enough.
Kept(m) ==
  /\ node'[m] = node[m]
  /\ node[m].prefix # <<>> /\ Alone(m)' => Alone(m) \/ Count(m) > MergeBound

\* Settled buckets stay so unless the step is about them.
LEMMA KeptSettle ==
  ASSUME NEW S, AllSettled(S), \A m \in S : Kept(m) PROVE WillSettle(S)
<1>1. ASSUME NEW m \in S PROVE Settled(m)' /\ Count(m)' = Count(m)
  BY <1>1, StaySettled DEF AllSettled, Kept
<1>2. ASSUME NEW m \in S, NEW c \in S, Buddies(m, c)'
      PROVE  Count(m)' + Count(c)' > MergeBound
  <2>1. node'[m] = node[m] /\ node'[c] = node[c]
    BY DEF Kept
  <2>2. Buddies(m, c)
    BY <1>2, <2>1, StayBuddies
  <2>3. QED
    BY <1>1, <2>2 DEF AllSettled
<1>3. QED
  BY <1>1, <1>2 DEF WillSettle

\* Fewer buckets are settled if more are.
LEMMA SettleLess ==
  ASSUME NEW S, NEW T, S \subseteq T
  PROVE  (AllSettled(T) => AllSettled(S)) /\ (WillSettle(T) => WillSettle(S))
BY DEF AllSettled, WillSettle

\* One more bucket is settled.
LEMMA SettleMore ==
  ASSUME NEW S, WillSettle(S), NEW n, Settled(n)', ~ Buddies(n, n)',
         \A c \in S : Buddies(n, c)' \/ Buddies(c, n)' => Count(n)' + Count(c)' > MergeBound,
         Count(n)' \in Nat, \A c \in S : Count(c)' \in Nat
  PROVE  WillSettle(S \cup {n})
BY DEF WillSettle

\* What is settled after a step.
LEMMA SettledNext ==
  ASSUME WillSettle(nodes') PROVE AllSettled(nodes)'
BY DEF WillSettle, AllSettled

\* A bucket that has many items is settled, and nothing may join it.
LEMMA LargeSettled ==
  ASSUME TypeOK', NEW S, S \subseteq NodeIds, WillSettle(S), NEW n \in NodeIds,
         Count(n)' > MergeBound
  PROVE  WillSettle(S \cup {n})
<1>1. \A c \in NodeIds : Count(c)' \in Nat
  BY DEF TypeOK, BucketsOK, Node, Count
<1>2. Settled(n)'
  BY <1>1, Bounds DEF Settled
<1>3. QED
  BY <1>1, <1>2, Bounds DEF WillSettle

\* Being a buddy is mutual.
LEMMA BuddiesNext ==
  ASSUME TypeOK', NEW n \in NodeIds, NEW c \in NodeIds, Buddies(n, c)' \/ Buddies(c, n)'
  PROVE  /\ node'[n].prefix # <<>> /\ node'[c].prefix = Buddy(node'[n].prefix)
         /\ node'[c].parent = node'[n].parent /\ n # c
<1> DEFINE q == node'[n].prefix
           r == node'[c].prefix
<1>1. q \in SlotPrefixes /\ r \in SlotPrefixes
  BY DEF TypeOK, BucketsOK, Node
<1>2. /\ node'[c].parent = node'[n].parent
      /\ \/ q # <<>> /\ r = Buddy(q)
         \/ r # <<>> /\ q = Buddy(r)
  BY DEF Buddies
<1> HIDE DEF q, r
<1>3. \A x \in SlotPrefixes : x # <<>> =>
        /\ Buddy(x) \in SlotPrefixes /\ Buddy(x) # <<>> /\ Buddy(Buddy(x)) = x /\ Buddy(x) # x
  <2> SUFFICES ASSUME NEW x \in SlotPrefixes, x # <<>>
               PROVE  Buddy(x) # <<>> /\ Buddy(x) # x
    BY BuddyRange
  <2>1. /\ Buddy(x) \in SlotPrefixes /\ Len(Buddy(x)) = Len(x) /\ Len(x) # 0
        /\ \A s \in Slots : ~ (Covers(x, s) /\ Covers(Buddy(x), s))
    BY BuddyRange, PrefixFacts
  <2>2. Pad(x) \in Slots /\ Covers(x, Pad(x))
    BY PadCovered
  <2>3. QED
    BY <2>1, <2>2
<1>4. q # r /\ q # <<>> /\ r = Buddy(q)
  BY <1>1, <1>2, <1>3
<1>5. QED
  BY <1>2, <1>4 DEF q, r

-----------------------------------------------------------------------------
(* Steps that change the children of one forwarding node *)

\* The range q of slots of f gets the child c; as seen from the bucket m.
PutAt(f, q, c, m) ==
  /\ node'[m] = node[m]
  /\ node[m].parent # f => fwd'[node[m].parent] = fwd[node[m].parent]
  /\ \A s \in Slots : fwd'[f].children[s] = IF Covers(q, s) THEN c ELSE fwd[f].children[s]

\* Where other buckets next to m stay, or come, m does not become alone.
LEMMA PutKept ==
  ASSUME NEW f, NEW q, NEW c, NEW m, PutAt(f, q, c, m),
         \A s \in Slots : /\ node[m].parent = f /\ node[m].prefix # <<>>
                          /\ Covers(q, s) /\ Covers(Front(node[m].prefix), s)
           => \/ Count(m) > MergeBound
              \/ \E t \in Slots : /\ Covers(Front(node[m].prefix), t)
                                  /\ fwd'[f].children[t] \notin {f, m}
  PROVE  Kept(m)
<1>1. CASE node[m].parent # f
  BY <1>1 DEF Kept, PutAt, Alone
<1>2. CASE node[m].parent = f
  <2> SUFFICES ASSUME node[m].prefix # <<>>, Alone(m)', ~ (Count(m) > MergeBound)
               PROVE  Alone(m)
    BY DEF Kept, PutAt
  <2>1. \A t \in Slots : Covers(Front(node[m].prefix), t) => fwd'[f].children[t] \in {f, m}
    BY <1>2 DEF Alone, PutAt
  <2>2. \A s \in Slots : Covers(Front(node[m].prefix), s) => ~ Covers(q, s)
    BY <1>2, <2>1
  <2>3. QED
    BY <1>2, <2>1, <2>2 DEF Alone, PutAt
<1>3. QED
  BY <1>1, <1>2

\* So it is where the slots get another child than f and m.
LEMMA FillKept ==
  ASSUME NEW f, NEW q, NEW c, NEW m, PutAt(f, q, c, m), c # f, c # m
  PROVE  Kept(m)
<1>1. \A s \in Slots : Covers(q, s) => fwd'[f].children[s] \notin {f, m}
  BY DEF PutAt
<1>2. QED
  BY <1>1, PutKept

\* A forwarding node whose children do not become all empty.
LEMMA LeadsPut ==
  ASSUME TypeOK, Leads, NEW f \in fwds, fwds' = fwds, NEW q, NEW c,
         fwd' = [fwd EXCEPT ![f].children = Put(f, q, c)],
         f # Root => \E t \in Slots : fwd'[f].children[t] # f
  PROVE  /\ Leads'
         /\ \A m \in nodes : node'[m] = node[m] => PutAt(f, q, c, m)
<1>1. fwd \in [FwdIds -> Fwd] /\ f \in FwdIds /\ fwds \subseteq FwdIds
      /\ \A m \in nodes : node[m].parent \in FwdIds
  BY Addresses
<1>2. \A g \in FwdIds \ {f} : fwd'[g] = fwd[g]
  BY <1>1
<1>3. fwd'[f].children = Put(f, q, c)
  BY <1>1 DEF Fwd
<1>4. Leads'
  BY <1>1, <1>2 DEF Leads
<1>5. \A m \in nodes : node'[m] = node[m] => PutAt(f, q, c, m)
  BY <1>1, <1>2, <1>3 DEF PutAt, Put
<1>6. QED
  BY <1>4, <1>5

-----------------------------------------------------------------------------
(* Calls *)

\* An operation that has returned leaves settled buckets.
LEMMA DonePhases ==
  ASSUME stack' = <<>>, WillSettle(nodes') PROVE Phases'
BY SettledNext DEF Phases

\* So does a call that returns to a merge_down that waits.
LEMMA ReturnPhases ==
  ASSUME TreeInv, stack # <<>>, Return, WillSettle(nodes'),
         Len(stack) = 1 \/ \E m \in nodes' : WaitFor(m)
  PROVE  Phases'
<1>1. stack \in Seq(Frames) /\ stack' = Tail(stack)
  BY DEF TreeInv, TypeOK, Return
<1>2. CASE stack' = <<>>
  BY <1>2, DonePhases
<1>3. CASE stack' # <<>>
  <2>1. Len(stack) # 1 /\ 2 \in DOMAIN stack /\ Top' = stack[2]
    BY <1>1, <1>3 DEF Top
  <2>2. PICK m \in nodes' : WaitFor(m)
    BY <2>1
  <2>3. Top'.node = m /\ Top'.fn = "after_readd"
    <3>1. Top'.node = m
      BY <2>1, <2>2 DEF WaitFor
    <3>2. QED
      BY <1>3, <3>1, ReturnCalls
  <2>4. \A i \in DOMAIN stack' : i > 1 => stack'[i].node = m
    <3>1. \A i \in DOMAIN stack' : i + 1 \in DOMAIN stack /\ stack'[i] = stack[i + 1]
      BY <1>1
    <3>2. \A i \in DOMAIN stack' : i > 1 => i + 1 > 1
      BY <1>1
    <3>3. QED
      BY <2>2, <3>1, <3>2 DEF WaitFor
  <2>5. WaitFor(Top.node)'
    BY <2>3, <2>4 DEF WaitFor
  <2>6. AllSettled(nodes)'
    BY SettledNext
  <2>7. QED
    BY <1>3, <2>3, <2>5, <2>6 DEF Phases
<1>4. QED
  BY <1>2, <1>3

\* A merge that goes on.
LEMMA MergePhases ==
  ASSUME TreeInv, stack # <<>>, NEW n \in nodes', MergeDown(n),
         \/ WillSettle(nodes' \ {n}) /\ WaitFor(n) /\ Count(n)' > 0
         \/ /\ WillSettle(nodes')
            /\ \E m \in nodes' : /\ WaitFor(m)
                                 /\ \/ n = m
                                    \/ Len(node'[n].prefix) > Len(node'[m].prefix)
                                    \/ Count(n)' > MergeBound
  PROVE  Phases'
<1> DEFINE frame == Frame("merge_down", n, Null, Top.size, Top.p)
<1>1. frame.fn = "merge_down" /\ frame.node = n /\ stack' = <<frame>> \o Tail(stack)
  BY DEF Frame, MergeDown, Become
<1> HIDE DEF frame
<1>2. stack \in Seq(Frames)
  BY DEF TreeInv, TypeOK
<1>3. stack' # <<>> /\ Top' = frame
  BY <1>1, <1>2 DEF Top
<1>4. \A i \in DOMAIN stack' : i > 1 => i \in DOMAIN stack /\ stack'[i] = stack[i]
  BY <1>1, <1>2
<1>5. \A m : WaitFor(m) => \A i \in DOMAIN stack' : i > 1 => stack'[i].node = m
  BY <1>4 DEF WaitFor
<1>6. CASE WillSettle(nodes' \ {n}) /\ WaitFor(n) /\ Count(n)' > 0
  <2>1. WaitFor(Top.node)'
    BY <1>1, <1>3, <1>5, <1>6 DEF WaitFor
  <2>2. AllSettled(nodes \ {Top.node})'
    BY <1>1, <1>3, <1>6 DEF WillSettle, AllSettled
  <2>3. Count(Top.node)' # 0
    BY <1>1, <1>3, <1>6 DEF Count
  <2>4. Growing'
    BY <2>1, <2>2, <2>3 DEF Growing
  <2>5. QED
    BY <1>1, <1>3, <2>4 DEF Phases
<1>7. ASSUME WillSettle(nodes'), NEW m \in nodes', WaitFor(m),
             \/ n = m
             \/ Len(node'[n].prefix) > Len(node'[m].prefix)
             \/ Count(n)' > MergeBound
      PROVE  Phases'
  <2>1. WaitFor(m)'
    BY <1>5, <1>7 DEF WaitFor
  <2>2. AllSettled(nodes)'
    BY <1>7, SettledNext
  <2>3. Top'.node = n
    BY <1>1, <1>3
  <2>4. Count(n)' > MergeBound => Count(Top.node)' > MergeBound
    BY <2>3 DEF Count
  <2>5. Finishing'
    BY <1>7, <2>1, <2>2, <2>3, <2>4 DEF Finishing
  <2>6. QED
    BY <1>1, <1>3, <2>5 DEF Phases
<1>8. QED
  BY <1>6, <1>7

-----------------------------------------------------------------------------
(* insert *)

\* An insertion makes a sequence longer by one, a removal shorter.
LEMMA InsertAtLen ==
  ASSUME NEW S, NEW s \in Seq(S), NEW i \in 1 .. Len(s) + 1, NEW x
  PROVE  Len(InsertAt(s, i, x)) = Len(s) + 1
<1> DEFINE T == S \cup {x}
           low == SubSeq(s, 1, i - 1)
           high == SubSeq(s, i, Len(s))
<1>1. s \in Seq(T) /\ Len(s) \in Nat /\ i \in Int
  OBVIOUS
<1>2. <<x>> \in Seq(T) /\ Len(<<x>>) = 1
  OBVIOUS
<1>3. InsertAt(s, i, x) = low \o <<x>> \o high
  BY DEF InsertAt
<1> HIDE DEF T
<1>4. low \in Seq(T) /\ Len(low) = i - 1
  BY <1>1
<1>5. high \in Seq(T) /\ Len(high) = Len(s) - i + 1
  BY <1>1
<1> HIDE DEF low, high
<1>6. Len(low \o <<x>>) = i /\ low \o <<x>> \in Seq(T)
  BY <1>1, <1>2, <1>4
<1>7. Len(low \o <<x>> \o high) = i + (Len(s) - i + 1)
  BY <1>5, <1>6
<1>8. QED
  BY <1>1, <1>3, <1>7

\* The same for a removal.
LEMMA RemoveAtLen ==
  ASSUME NEW S, NEW s \in Seq(S), NEW i \in 1 .. Len(s)
  PROVE  Len(RemoveAt(s, i)) = Len(s) - 1
<1> DEFINE low == SubSeq(s, 1, i - 1)
           high == SubSeq(s, i + 1, Len(s))
<1>1. Len(s) \in Nat /\ i \in Int
  OBVIOUS
<1>2. low \in Seq(S) /\ Len(low) = i - 1
  OBVIOUS
<1>3. high \in Seq(S) /\ Len(high) = Len(s) - i
  OBVIOUS
<1>4. RemoveAt(s, i) = low \o high
  BY DEF RemoveAt
<1> HIDE DEF low, high
<1>5. Len(low \o high) = (i - 1) + (Len(s) - i)
  BY <1>2, <1>3
<1>6. QED
  BY <1>1, <1>4, <1>5

\* A bucket that gets an item has one more.
LEMMA AddItemCount ==
  ASSUME TypeOK, NEW k \in Keys, NEW m, NEW n \in NodeIds, NEW old \in Node, NEW oldsize,
         m.index \in 1 .. Len(old.items) + 1, AddItem(k, m, n, old, oldsize)
  PROVE  /\ Count(n)' = Len(old.items) + 1
         /\ stack' = IF Full(Len(old.items) + 1)
                     THEN <<Frame("split", n, m.fwd, Len(k) - m.p \div BDIV, m.p)>>
                     ELSE <<>>
<1>1. PICK new : node' = [node EXCEPT ![n] = [old EXCEPT !.items = InsertAt(old.items, m.index, new)]]
  BY DEF AddItem
<1>2. node'[n].items = InsertAt(old.items, m.index, new)
  BY <1>1, Addresses DEF Node
<1>3. old.items \in Seq(Items)
  BY DEF Node
<1>4. Len(InsertAt(old.items, m.index, new)) = Len(old.items) + 1
  BY <1>3, InsertAtLen
<1>5. QED
  BY <1>2, <1>4 DEF Count, AddItem

\* What insert's calls are.
LEMMA AddItemPhases ==
  ASSUME WillSettle(nodes'), NEW n \in nodes', NEW f, NEW size, NEW p,
         stack' = IF Full(Count(n)') THEN <<Frame("split", n, f, size, p)>> ELSE <<>>
  PROVE  Phases'
<1>1. CASE ~ Full(Count(n)')
  BY <1>1, DonePhases
<1>2. CASE Full(Count(n)')
  <2> DEFINE frame == Frame("split", n, f, size, p)
  <2>1. frame.fn = "split" /\ frame.node = n
    BY DEF Frame
  <2>2. stack' = <<frame>>
    BY <1>2
  <2> HIDE DEF frame
  <2>3. Top' = frame /\ stack' # <<>> /\ Len(stack') = 1
    BY <2>2 DEF Top
  <2>4. Full(Count(Top.node))'
    BY <1>2, <2>1, <2>3 DEF Count, Full
  <2>5. AllSettled(nodes)'
    BY SettledNext
  <2>6. QED
    BY <2>1, <2>3, <2>4, <2>5 DEF Phases
<1>3. QED
  BY <1>1, <1>2

\* A bucket that insert makes is not alone, as it has all slots that were empty around
\* its slot, and a bucket that was next to these was large already.
LEMMA InsertInNewBucketShape ==
  ASSUME TreeInv, ShapeInv, NEW k \in Keys, InsertInNewBucket(k) PROVE Leads' /\ Phases'
<1>1. PICK m : m = BestMatch(k)
  OBVIOUS
<1>2. PICK n : n = FreshNode
  OBVIOUS
<1>3. PICK f : f = m.fwd
  OBVIOUS
<1>4. PICK s : s = Slot(k, m.p)
  OBVIOUS
<1>5. /\ n \in NodeIds /\ n \notin nodes /\ Located(k, m) /\ m.base = f
      /\ stack = <<>> /\ nodes' = nodes \cup {n} /\ fwds' = fwds
  BY <1>1, <1>2, <1>3, Addresses DEF InsertInNewBucket, FreshNode, TreeInv
<1>6. f \in fwds /\ s \in Slots /\ m.index = 1
  <2>1. f \in fwds /\ s \in Slots
    BY <1>3, <1>4, <1>5, LocatedAlive
  <2>2. m.base \notin NodeIds
    BY <1>5, <2>1, Addresses DEF TreeInv
  <2>3. m.index = 1
    BY <1>1, <1>5, <2>2, MatchType DEF TreeInv, TypeOK
  <2>4. QED
    BY <2>1, <2>3
<1>7. PICK bit \in 0 .. BSIZE :
        LET q == SubSeq(s, 1, bit)
        IN  /\ FreeRange(f, s, bit)
            /\ bit > 0 => ~ FreeRange(f, s, bit - 1)
            /\ fwd' = [fwd EXCEPT ![f].children = Put(f, q, n)]
            /\ AddItem(k, m, n, [prefix |-> q, parent |-> f, items |-> <<>>], 0)
  BY <1>1, <1>2, <1>3, <1>4 DEF InsertInNewBucket
<1>8. PICK q : q = SubSeq(s, 1, bit)
  OBVIOUS
<1> DEFINE old == [prefix |-> q, parent |-> f, items |-> <<>>]
<1>9. q \in SlotPrefixes /\ old \in Node /\ old.prefix = q /\ old.parent = f
      /\ old.items = <<>> /\ AddItem(k, m, n, old, 0)
      /\ fwd' = [fwd EXCEPT ![f].children = Put(f, q, n)]
  <2>1. q \in SlotPrefixes /\ f \in FwdIds
    BY <1>6, <1>8, PrefixTypes, Addresses DEF TreeInv
  <2>2. QED
    BY <1>7, <1>8, <2>1 DEF Node
<1> HIDE DEF old
<1>10. /\ node'[n].prefix = q /\ node'[n].parent = f
       /\ \A x \in nodes : node'[x] = node[x]
  <2>1. /\ node'[n].prefix = old.prefix /\ node'[n].parent = old.parent
        /\ \A x \in NodeIds \ {n} : node'[x] = node[x]
    BY ZenonT(60), <1>5, <1>9, AddItemEffect DEF TreeInv
  <2>2. nodes \subseteq NodeIds
    BY Addresses DEF TreeInv
  <2>3. QED
    BY <1>5, <1>9, <2>1, <2>2
<1>11. Count(n)' = 1 /\ stack' = <<>>
  <2>1. Len(old.items) + 1 = 1
    BY <1>9
  <2>2. m.index \in 1 .. Len(old.items) + 1
    BY <1>6, <2>1
  <2>3. /\ Count(n)' = Len(old.items) + 1
        /\ stack' = IF Full(Len(old.items) + 1)
                    THEN <<Frame("split", n, m.fwd, Len(k) - m.p \div BDIV, m.p)>>
                    ELSE <<>>
    BY <1>5, <1>9, <2>2, AddItemCount DEF TreeInv
  <2>4. QED
    BY <2>1, <2>3, Bounds
<1>12. \A t \in Slots : Covers(q, t) => fwd[f].children[t] = f
  BY <1>7, <1>8 DEF FreeRange
<1>13. /\ Covers(q, s) /\ f \notin NodeIds
       /\ \A t \in Slots : fwd'[f].children[t] = IF Covers(q, t) THEN n ELSE fwd[f].children[t]
  <2>1. fwd'[f].children = Put(f, q, n)
    BY <1>6, <1>9, Addresses DEF TreeInv, Fwd
  <2>2. Covers(q, s) /\ f \notin NodeIds
    BY <1>6, <1>8, Addresses, PrefixFacts DEF Covers, TreeInv
  <2>3. QED
    BY <2>1, <2>2 DEF Put
<1>14. Leads' /\ \A m1 \in nodes : PutAt(f, q, n, m1)
  <2>1. fwd'[f].children[s] # f
    BY <1>5, <1>6, <1>13
  <2>2. QED
    BY <1>5, <1>6, <1>9, <1>10, <2>1, LeadsPut DEF TreeInv, ShapeInv
<1>15. WillSettle(nodes)
  <2>1. \A m1 \in nodes : Kept(m1)
    BY <1>5, <1>13, <1>14, FillKept
  <2>2. QED
    BY <1>5, <2>1, KeptSettle DEF ShapeInv, Phases
<1>16. Settled(n)'
  <2>1. q = <<>> => f = Root
    <3>1. q = <<>> => \A t \in Slots : fwd[f].children[t] = f
      BY <1>12, EmptyRange
    <3>2. QED
      BY <1>6, <3>1 DEF ShapeInv, Leads
  <2>2. ASSUME q # <<>> PROVE ~ Alone(n)'
    <3>1. bit > 0 /\ bit \in Nat
      BY <1>8, <2>2
    <3>2. PICK t \in Slots : Covers(SubSeq(s, 1, bit - 1), t) /\ fwd[f].children[t] # f
      BY <1>7, <3>1 DEF FreeRange
    <3>3. SubSeq(s, 1, bit - 1) = Front(q)
      BY <1>6, <1>8, <3>1, PrefixFacts DEF Front, Slots
    <3>4. fwd'[f].children[t] = fwd[f].children[t]
      BY <1>12, <1>13, <3>2
    <3>5. fwd[f].children[t] # n
      BY <1>5, <1>6, ChildOf, Addresses DEF TreeInv
    <3>6. QED
      BY <1>10, <3>2, <3>3, <3>4, <3>5 DEF Alone
  <2>3. QED
    BY <1>10, <1>11, <2>1, <2>2 DEF Settled, Count
<1>17. /\ ~ Buddies(n, n)'
       /\ \A c \in nodes : Buddies(n, c)' \/ Buddies(c, n)' => Count(n)' + Count(c)' > MergeBound
  <2>1. q # <<>> => /\ Buddy(q) \in SlotPrefixes /\ Buddy(q) # q
    <3>1. q # <<>> =>
            /\ Buddy(q) \in SlotPrefixes
            /\ \A t \in Slots : ~ (Covers(q, t) /\ Covers(Buddy(q), t))
      BY <1>9, BuddyRange
    <3>2. QED
      BY <1>6, <1>13, <3>1
  <2>2. ~ Buddies(n, n)'
    BY <1>10, <2>1 DEF Buddies
  <2>3. ASSUME NEW c \in nodes, Buddies(n, c)' \/ Buddies(c, n)'
        PROVE  Count(n)' + Count(c)' > MergeBound
    <3> DEFINE r == node[c].prefix
    <3>1. r \in SlotPrefixes /\ node[c].parent = f /\ r # <<>> /\ q # <<>> /\ q = Buddy(r)
      <4>1. r \in SlotPrefixes /\ node'[c] = node[c]
        BY <1>10, Addresses DEF TreeInv
      <4>2. CASE Buddies(n, c)'
        <5>1. q # <<>> /\ r = Buddy(q) /\ node[c].parent = f
          BY <1>10, <4>1, <4>2 DEF Buddies
        <5>2. Buddy(Buddy(q)) = q /\ Len(Buddy(q)) = Len(q) /\ Len(q) # 0
          BY <1>9, <5>1, BuddyRange, PrefixFacts
        <5>3. QED
          BY <4>1, <5>1, <5>2
      <4>3. CASE Buddies(c, n)'
        <5>1. r # <<>> /\ q = Buddy(r) /\ node[c].parent = f
          BY <1>10, <4>1, <4>3 DEF Buddies
        <5>2. Len(Buddy(r)) = Len(r) /\ Len(r) # 0
          BY <4>1, <5>1, BuddyRange, PrefixFacts
        <5>3. QED
          BY <4>1, <5>1, <5>2
      <4>4. QED
        BY <2>3, <4>2, <4>3
    <3> HIDE DEF r
    <3>2. \A t \in Slots : Covers(Front(r), t) => fwd[f].children[t] \in {f, c}
      <4>1. \A t \in Slots : Covers(Front(r), t) => Covers(r, t) \/ Covers(q, t)
        BY <3>1, BuddyRange
      <4>2. \A t \in Slots : Covers(r, t) => fwd[f].children[t] = c
        BY <3>1, RangeOf DEF r
      <4>3. QED
        BY <1>12, <4>1, <4>2
    <3>3. Count(c) > MergeBound
      <4>1. Alone(c)
        BY <3>1, <3>2 DEF Alone, r
      <4>2. Settled(c)
        BY <1>5 DEF ShapeInv, Phases, AllSettled
      <4>3. QED
        BY <3>1, <4>1, <4>2 DEF Settled, r
    <3>4. Count(c)' = Count(c) /\ Count(c) \in Nat
      BY <1>10, CountType, Addresses DEF Count, TreeInv
    <3>5. QED
      BY <1>11, <3>3, <3>4, Bounds
  <2>4. QED
    BY <2>2, <2>3
<1>18. WillSettle(nodes')
  <2>1. \A c \in nodes : Count(c)' \in Nat
    <3>1. \A c \in nodes : Count(c)' = Count(c) /\ c \in NodeIds
      BY <1>10, Addresses DEF Count, TreeInv
    <3>2. QED
      BY <3>1, CountType
  <2>2. Count(n)' \in Nat
    BY <1>11
  <2>3. WillSettle(nodes \cup {n})
    BY <1>15, <1>16, <1>17, <2>1, <2>2, SettleMore
  <2>4. QED
    BY <1>5, <2>3
<1>19. QED
  BY <1>11, <1>14, <1>18, DonePhases

\* Steps that leave the children as they are.
LEMMA SameKept ==
  ASSUME NEW m, fwd' = fwd, node'[m] = node[m] PROVE Kept(m)
BY DEF Kept, Alone

\* insert into a bucket that is there.
LEMMA InsertInBucketShape ==
  ASSUME TreeInv, TypeOK', ShapeInv, NEW k \in Keys, InsertInBucket(k) PROVE Leads' /\ Phases'
<1>1. PICK m : m = BestMatch(k)
  OBVIOUS
<1>2. PICK n : n = m.base
  OBVIOUS
<1>3. PICK old, oldsize : old = node[n] /\ oldsize = totsize[n]
  OBVIOUS
<1>4. /\ Located(k, m) /\ n \in NodeIds /\ UNCHANGED <<fwds, fwd, nodes>> /\ stack = <<>>
      /\ AddItem(k, m, n, old, oldsize)
  BY <1>1, <1>2, <1>3 DEF InsertInBucket
<1>5. n \in nodes /\ old \in Node /\ nodes \subseteq NodeIds
  BY <1>2, <1>3, <1>4, LocatedAlive, Addresses DEF TreeInv
<1>6. /\ node'[n].prefix = node[n].prefix /\ node'[n].parent = node[n].parent
      /\ \A x \in NodeIds \ {n} : node'[x] = node[x]
  <2>1. /\ node'[n].prefix = old.prefix /\ node'[n].parent = old.parent
        /\ \A x \in NodeIds \ {n} : node'[x] = node[x]
    BY ZenonT(60), <1>5, <1>4, AddItemEffect DEF TreeInv
  <2>2. QED
    BY <1>3, <2>1
<1>7. /\ Count(n)' = Count(n) + 1 /\ Count(n) \in Nat
      /\ stack' = IF Full(Count(n)')
                  THEN <<Frame("split", n, m.fwd, Len(k) - m.p \div BDIV, m.p)>>
                  ELSE <<>>
  <2>1. m.index \in 1 .. Len(node[n].items) + 1
    BY <1>1, <1>2, <1>4, MatchType DEF TreeInv, TypeOK
  <2>2. QED
    BY <1>5, <1>3, <1>4, <2>1, AddItemCount, CountType DEF TreeInv, Count
<1>8. AllSettled(nodes) /\ Leads'
  BY <1>4 DEF ShapeInv, Phases, Leads
<1>9. WillSettle(nodes \ {n})
  <2>1. AllSettled(nodes \ {n})
    BY <1>8, SettleLess
  <2>2. \A x \in nodes \ {n} : Kept(x)
    BY <1>4, <1>5, <1>6, SameKept
  <2>3. QED
    BY <2>1, <2>2, KeptSettle
<1>10. Settled(n)'
  <2>1. Alone(n)' = Alone(n)
    BY <1>4, <1>6 DEF Alone
  <2>2. Settled(n)
    BY <1>5, <1>8 DEF AllSettled
  <2>3. QED
    BY <1>6, <1>7, <2>1, <2>2, Bounds DEF Settled
<1>11. ASSUME NEW c \in nodes \ {n}, Buddies(n, c)' \/ Buddies(c, n)'
       PROVE  Count(n)' + Count(c)' > MergeBound
  <2>1. Count(c)' = Count(c) /\ Count(c) \in Nat
    BY <1>5, <1>6, CountType DEF Count
  <2>2. Buddies(n, c) \/ Buddies(c, n)
    BY <1>5, <1>6, <1>11 DEF Buddies
  <2>3. Count(n) + Count(c) > MergeBound
    BY <1>5, <1>7, <1>8, <2>1, <2>2, Bounds DEF AllSettled
  <2>4. QED
    BY <1>7, <2>1, <2>3, Bounds
<1>12. WillSettle(nodes')
  <2>1. \A c \in NodeIds : Count(c)' \in Nat
    BY DEF TypeOK, BucketsOK, Node, Count
  <2>2. ~ Buddies(n, n)'
    BY <1>5, BuddiesNext
  <2>3. WillSettle((nodes \ {n}) \cup {n})
    BY <1>5, <1>9, <1>10, <1>11, <2>1, <2>2, SettleMore
  <2>4. (nodes \ {n}) \cup {n} = nodes'
    BY <1>4, <1>5
  <2>5. QED
    BY <2>3, <2>4
<1>13. Phases'
  <2>1. n \in nodes'
    BY <1>4, <1>5
  <2>2. QED
    BY <1>7, <1>12, <2>1, AddItemPhases
<1>14. QED
  BY <1>8, <1>13

\* exists.
LEMMA LookUpShape ==
  ASSUME TreeInv, ShapeInv, NEW k \in Keys, LookUp(k) PROVE Leads' /\ Phases'
<1>1. UNCHANGED <<fwds, fwd, nodes, node, stack>> /\ stack = <<>>
  BY DEF LookUp
<1>2. WillSettle(nodes)
  BY <1>1, SameKept, KeptSettle DEF ShapeInv, Phases
<1>3. QED
  BY <1>1, <1>2, DonePhases DEF ShapeInv, Leads

\* The destructor.
LEMMA DestroyShape ==
  ASSUME TreeInv, ShapeInv, Destroy PROVE Leads' /\ Phases'
<1>1. stack' = <<>> /\ nodes' = {} /\ fwds' = {Root}
  BY DEF Destroy
<1>2. WillSettle(nodes')
  BY <1>1 DEF WillSettle
<1>3. QED
  BY <1>1, <1>2, DonePhases DEF Leads

\* erase leaves a merge that may change the bucket that held the item.
LEMMA EraseShape ==
  ASSUME TreeInv, TypeOK', ShapeInv, NEW k \in Keys, Erase(k) PROVE Leads' /\ Phases'
<1>1. PICK m : m = BestMatch(k)
  OBVIOUS
<1>2. PICK n : n = m.base
  OBVIOUS
<1>3. /\ Located(k, m) /\ n \in NodeIds /\ m.found /\ UNCHANGED <<fwds, fwd, nodes>>
      /\ stack = <<>>
      /\ node' = [node EXCEPT ![n].items = RemoveAt(node[n].items, m.index)]
      /\ \E size : stack' = <<Frame("merge_down", n, Null, size, m.p)>>
  BY <1>1, <1>2 DEF Erase
<1>4. /\ n \in nodes /\ nodes \subseteq NodeIds /\ node \in [NodeIds -> Node]
      /\ node[n].items \in Seq(Items)
  BY <1>2, <1>3, LocatedAlive, Addresses DEF TreeInv
<1>5. /\ node'[n].prefix = node[n].prefix /\ node'[n].parent = node[n].parent
      /\ node'[n].items = RemoveAt(node[n].items, m.index)
      /\ \A x \in NodeIds \ {n} : node'[x] = node[x]
  BY <1>3, <1>4 DEF Node
<1>6. Count(n)' = Count(n) - 1 /\ Count(n) \in Nat
  <2>1. m.index \in 1 .. Len(node[n].items)
    BY <1>1, <1>2, <1>3, MatchType DEF TreeInv, TypeOK
  <2>2. Count(n)' = Count(n) - 1
    BY <1>4, <1>5, <2>1, RemoveAtLen DEF Count
  <2>3. QED
    BY <1>3, <2>2, CountType
<1>7. AllSettled(nodes) /\ Leads'
  BY <1>3 DEF ShapeInv, Phases, Leads
<1>8. AllSettled(nodes \ {n})'
  <2>1. AllSettled(nodes \ {n})
    BY <1>7, SettleLess
  <2>2. \A x \in nodes \ {n} : Kept(x)
    BY <1>3, <1>4, <1>5, SameKept
  <2>3. WillSettle(nodes \ {n})
    BY <2>1, <2>2, KeptSettle
  <2>4. QED
    BY <1>3, <2>3 DEF WillSettle, AllSettled
<1>9. Count(n)' = 0 => Removable(n)'
  <2> SUFFICES ASSUME Count(n) = 1 PROVE Removable(n)'
    BY <1>6
  <2>1. Alone(n)' = Alone(n)
    BY <1>3, <1>5 DEF Alone
  <2>2. Settled(n) /\ ~ (Count(n) > MergeBound)
    BY <1>4, <1>7, Bounds DEF AllSettled
  <2>3. ASSUME NEW c \in nodes', Buddies(n, c)' PROVE Count(c)' >= MergeBound
    <3>1. c \in NodeIds /\ c \in nodes /\ c # n
      BY <1>3, <1>4, <2>3, BuddiesNext
    <3>2. Count(c)' = Count(c) /\ Count(c) \in Nat /\ Buddies(n, c)
      BY <1>5, <2>3, <3>1, CountType DEF Count, Buddies
    <3>3. QED
      BY <1>4, <1>7, <3>1, <3>2, Bounds DEF AllSettled
  <2>4. QED
    BY <1>5, <2>1, <2>2, <2>3 DEF Removable, Settled
<1>10. Phases'
  <2>1. PICK size : stack' = <<Frame("merge_down", n, Null, size, m.p)>>
    BY <1>3
  <2> DEFINE frame == Frame("merge_down", n, Null, size, m.p)
  <2>2. frame.fn = "merge_down" /\ frame.node = n /\ stack' = <<frame>>
    BY <2>1 DEF Frame
  <2> HIDE DEF frame
  <2>3. Top' = frame /\ stack' # <<>> /\ Len(stack') = 1
    BY <2>2 DEF Top
  <2>4. WaitFor(Top.node)'
    BY <2>2 DEF WaitFor
  <2>5. AllSettled(nodes \ {Top.node})'
    BY <1>8, <2>2, <2>3 DEF AllSettled
  <2>6. Count(Top.node)' = 0 => Removable(Top.node)'
    BY <1>9, <2>2, <2>3 DEF Count, Removable, Alone, Buddies
  <2>7. QED
    BY <2>2, <2>3, <2>4, <2>5, <2>6 DEF Phases, Growing
<1>11. QED
  BY <1>7, <1>10

-----------------------------------------------------------------------------
(* split_node and split_fwd *)

\* The two halves of a range are buddies.
LEMMA HalfPrefixes ==
  ASSUME NEW q \in SlotPrefixes, Len(q) < BSIZE
  PROVE  LET low == Append(q, 0)
             high == Append(q, 1)
         IN  /\ low \in SlotPrefixes /\ high \in SlotPrefixes /\ low # high
             /\ low # <<>> /\ high # <<>>
             /\ Front(low) = q /\ Front(high) = q
             /\ Buddy(low) = high /\ Buddy(high) = low
<1> DEFINE low == Append(q, 0)
           high == Append(q, 1)
           l == Len(q)
<1>1. q \in Seq({0, 1}) /\ l \in Nat /\ low \in SlotPrefixes /\ high \in SlotPrefixes
  BY PrefixFacts, PrefixTypes
<1>2. /\ low \in Seq({0, 1}) /\ high \in Seq({0, 1}) /\ Len(low) = l + 1 /\ Len(high) = l + 1
      /\ low[l + 1] = 0 /\ high[l + 1] = 1
      /\ \A i \in 1 .. l : low[i] = q[i] /\ high[i] = q[i]
  BY <1>1
<1> HIDE DEF low, high
<1>3. Buddy(low) = high /\ Buddy(high) = low
  <2>1. Buddy(low) = [low EXCEPT ![l + 1] = 1 - low[l + 1]]
        /\ Buddy(high) = [high EXCEPT ![l + 1] = 1 - high[l + 1]]
    BY <1>2 DEF Buddy
  <2>2. /\ Buddy(low) \in Seq({0, 1}) /\ Len(Buddy(low)) = l + 1
        /\ Buddy(high) \in Seq({0, 1}) /\ Len(Buddy(high)) = l + 1
    BY <1>1, <1>2, <2>1
  <2>3. \A i \in 1 .. l + 1 : Buddy(low)[i] = high[i] /\ Buddy(high)[i] = low[i]
    BY <1>1, <1>2, <2>1
  <2> HIDE DEF l
  <2>4. QED
    BY <1>1, <1>2, <2>2, <2>3
<1>4. Front(low) = q /\ Front(high) = q
  <2>1. /\ Front(low) = SubSeq(low, 1, l) /\ Front(high) = SubSeq(high, 1, l)
    BY <1>1, <1>2 DEF Front
  <2>2. /\ Front(low) \in Seq({0, 1}) /\ Len(Front(low)) = l
        /\ Front(high) \in Seq({0, 1}) /\ Len(Front(high)) = l
        /\ \A i \in 1 .. l : Front(low)[i] = q[i] /\ Front(high)[i] = q[i]
    BY <1>1, <1>2, <2>1
  <2>3. QED
    BY <1>1, <2>2
<1>5. low # high /\ low # <<>> /\ high # <<>>
  BY <1>1, <1>2
<1>6. QED
  BY <1>1, <1>3, <1>4, <1>5 DEF low, high

\* A sequence cut in two.
LEMMA PartsLen ==
  ASSUME NEW S, NEW s \in Seq(S), NEW count \in 0 .. Len(s)
  PROVE  /\ Len(SubSeq(s, 1, count)) = count
         /\ Len(SubSeq(s, count + 1, Len(s))) = Len(s) - count
         /\ SubSeq(s, 1, count) \in Seq(S) /\ SubSeq(s, count + 1, Len(s)) \in Seq(S)
OBVIOUS

\* The lower part of a bucket's items is a part of them.
LEMMA LowCountRange ==
  ASSUME NEW S, NEW items \in Seq(S), NEW h, NEW r, NEW i
  PROVE  LowCount(items, h, r, i) \in 0 .. Len(items)
<1>1. {x \in DOMAIN items :
         \A y \in 1 .. x : SlotTable[items[y].first[h]][r][i] = 0} \in SUBSET (DOMAIN items)
  OBVIOUS
<1>2. QED
  BY <1>1, PositionCount DEF LowCount

\* The call of a split goes on with a bucket that is still too large.
LEMMA SplitPhases ==
  ASSUME WillSettle(nodes'), stack' # <<>>, Len(stack') = 1, Top'.fn = "split",
         NEW n, Top'.node = n, Full(Count(n)')
  PROVE  Phases'
<1>1. AllSettled(nodes)'
  BY SettledNext
<1>2. Full(Count(Top.node))'
  BY DEF Count, Full
<1>3. QED
  BY <1>1, <1>2 DEF Phases

\* A split in progress is the only call, and about a large bucket.
LEMMA SplitShape ==
  ASSUME TreeInv, ShapeInv, Running("split")
  PROVE  /\ Len(stack) = 1 /\ AllSettled(nodes) /\ Count(Top.node) \in Nat
         /\ Full(Count(Top.node)) /\ Count(Top.node) > MergeBound
<1>1. Len(stack) = 1 /\ AllSettled(nodes) /\ Full(Count(Top.node))
  BY DEF Running, ShapeInv, Phases
<1>2. Count(Top.node) \in Nat
  BY SplitTop, CountType
<1>3. QED
  BY <1>1, <1>2, Bounds

\* split_node, where one half of the bucket's range has no items.
LEMMA SplitDropShape ==
  ASSUME TreeInv, TypeOK', ShapeInv, Running("split"), NEW n, n = Top.node,
         NEW f, f = Top.fwd, NEW keep \in SlotPrefixes, NEW drop,
         \A s \in Slots : /\ Covers(node[n].prefix, s) <=> Covers(keep, s) \/ Covers(drop, s)
                          /\ ~ (Covers(keep, s) /\ Covers(drop, s)),
         fwd' = [fwd EXCEPT ![f].children = Put(f, drop, f)],
         node' = [node EXCEPT ![n].prefix = keep],
         UNCHANGED <<fwds, nodes, stack>>
  PROVE  Leads' /\ Phases'
<1>1. /\ n \in nodes /\ f = node[n].parent /\ f \in fwds /\ n \in NodeIds
      /\ node \in [NodeIds -> Node] /\ nodes \subseteq NodeIds /\ f \notin NodeIds
      /\ fwd \in [FwdIds -> Fwd] /\ f \in FwdIds
  BY SplitTop, Addresses DEF TreeInv
<1>2. /\ node'[n].items = node[n].items /\ node'[n].prefix = keep
      /\ \A x \in NodeIds \ {n} : node'[x] = node[x]
  BY <1>1 DEF Node
<1>3. /\ Len(stack) = 1 /\ AllSettled(nodes) /\ Count(n) \in Nat
      /\ Full(Count(n)) /\ Count(n) > MergeBound
  BY SplitShape
<1>4. \A s \in Slots : fwd'[f].children[s] = IF Covers(drop, s) THEN f ELSE fwd[f].children[s]
  <2>1. fwd'[f].children = Put(f, drop, f)
    BY <1>1 DEF Fwd
  <2>2. QED
    BY <2>1 DEF Put
<1>5. PICK t \in Slots : Covers(keep, t)
  BY PadCovered
<1>6. Covers(node[n].prefix, t) /\ fwd'[f].children[t] = n
  <2>1. Covers(node[n].prefix, t) /\ ~ Covers(drop, t)
    BY <1>5
  <2>2. QED
    BY <1>1, <1>4, <2>1, RangeOf
<1>7. Leads' /\ \A m \in nodes : node'[m] = node[m] => PutAt(f, drop, f, m)
  BY <1>1, <1>6, LeadsPut DEF TreeInv, ShapeInv
<1>8. ASSUME NEW m \in nodes \ {n} PROVE Kept(m)
  <2>1. PutAt(f, drop, f, m)
    BY <1>1, <1>2, <1>7
  <2>2. ASSUME NEW s \in Slots, node[m].parent = f, node[m].prefix # <<>>,
               Covers(drop, s), Covers(Front(node[m].prefix), s)
        PROVE  Covers(Front(node[m].prefix), t) /\ fwd'[f].children[t] \notin {f, m}
    <3>1. Covers(node[n].prefix, s)
      BY <2>2
    <3>2. /\ node[n].prefix # <<>>
          /\ \A u \in Slots : Covers(Front(node[n].prefix), u)
                                => Covers(Front(node[m].prefix), u)
      BY <1>1, <2>2, <3>1, FrontMeets
    <3>3. Covers(Front(node[n].prefix), t)
      BY <1>1, <1>6, <3>2, FrontRange
    <3>4. QED
      BY <1>1, <1>6, <3>2, <3>3
  <2>3. QED
    BY <2>1, <2>2, PutKept
<1>9. WillSettle(nodes')
  <2>1. AllSettled(nodes \ {n})
    BY <1>3, SettleLess
  <2>2. WillSettle(nodes \ {n})
    BY <1>8, <2>1, KeptSettle
  <2>3. Count(n)' = Count(n)
    BY <1>2 DEF Count
  <2>4. WillSettle((nodes \ {n}) \cup {n})
    BY <1>1, <1>3, <2>2, <2>3, LargeSettled
  <2>5. (nodes \ {n}) \cup {n} = nodes'
    BY <1>1
  <2>6. QED
    BY <2>4, <2>5
<1>10. Phases'
  <2>1. stack' # <<>> /\ Len(stack') = 1 /\ Top'.fn = "split" /\ Top'.node = n
    BY <1>3 DEF Running, Top
  <2>2. Full(Count(n)')
    BY <1>2, <1>3 DEF Count
  <2>3. QED
    BY <1>9, <2>1, <2>2, SplitPhases
<1>11. QED
  BY <1>7, <1>10

\* Two buckets that take the range of one, and together its items, are settled.
LEMMA ShareSettled ==
  ASSUME TypeOK', NEW S, S \subseteq NodeIds, WillSettle(S),
         NEW n \in NodeIds, NEW h \in NodeIds, n # h, n \notin S, h \notin S,
         Count(n)' > 0, Count(h)' > 0, Count(n)' + Count(h)' > MergeBound,
         node'[n].prefix # <<>>, node'[h].prefix # <<>>, ~ Alone(n)', ~ Alone(h)',
         \A c \in S : ~ Buddies(n, c)' /\ ~ Buddies(h, c)'
  PROVE  WillSettle(S \cup {n, h})
<1>1. \A c \in NodeIds : Count(c)' \in Nat
  BY DEF TypeOK, BucketsOK, Node, Count
<1>2. Settled(n)' /\ Settled(h)'
  BY DEF Settled
<1>3. \A c \in S : /\ ~ Buddies(n, c)' /\ ~ Buddies(c, n)'
                   /\ ~ Buddies(h, c)' /\ ~ Buddies(c, h)'
  <2> SUFFICES ASSUME NEW c \in S PROVE ~ Buddies(c, n)' /\ ~ Buddies(c, h)'
    OBVIOUS
  <2>1. ASSUME NEW x \in NodeIds, Buddies(c, x)' PROVE Buddies(x, c)'
    BY <2>1, BuddiesNext DEF Buddies
  <2>2. QED
    BY <2>1
<1>4. ~ Buddies(n, n)' /\ ~ Buddies(h, h)'
  BY BuddiesNext
<1>5. WillSettle(S \cup {n})
  BY <1>1, <1>2, <1>3, <1>4, SettleMore
<1>6. WillSettle((S \cup {n}) \cup {h})
  BY <1>1, <1>2, <1>3, <1>4, <1>5, SettleMore
<1>7. (S \cup {n}) \cup {h} = S \cup {n, h}
  OBVIOUS
<1>8. QED
  BY <1>6, <1>7

\* split_node, where both halves of the bucket's range have items.
LEMMA SplitShareShape ==
  ASSUME TreeInv, TypeOK', ShapeInv, Running("split"), NEW n, n = Top.node,
         NEW f, f = Top.fwd, NEW h \in NodeIds \ nodes, Len(node[n].prefix) < BSIZE,
         NEW low, low = Append(node[n].prefix, 0),
         NEW high, high = Append(node[n].prefix, 1),
         NEW lows \in Seq(Items), NEW highs \in Seq(Items), lows # <<>>, highs # <<>>,
         Len(lows) + Len(highs) = Count(n),
         fwd' = [fwd EXCEPT ![f].children = Put(f, high, h)],
         node' = [node EXCEPT ![n] = [node[n] EXCEPT !.prefix = low, !.items = lows],
                              ![h] = [prefix |-> high, parent |-> f, items |-> highs]],
         nodes' = nodes \cup {h}, fwds' = fwds, Return
  PROVE  Leads' /\ Phases'
<1>1. /\ n \in nodes /\ f = node[n].parent /\ f \in fwds /\ n \in NodeIds
      /\ node \in [NodeIds -> Node] /\ nodes \subseteq NodeIds /\ f \notin NodeIds
      /\ fwd \in [FwdIds -> Fwd] /\ f \in FwdIds /\ stack # <<>>
      /\ node[n].prefix \in SlotPrefixes /\ n # h
  BY SplitTop, Addresses DEF TreeInv
<1>2. /\ node'[n].prefix = low /\ node'[n].parent = f /\ node'[n].items = lows
      /\ node'[h].prefix = high /\ node'[h].parent = f /\ node'[h].items = highs
      /\ \A x \in NodeIds \ {n, h} : node'[x] = node[x]
  BY <1>1 DEF Node
<1>3. /\ Len(stack) = 1 /\ AllSettled(nodes) /\ Count(n) > MergeBound
  BY SplitShape
<1>4. /\ Count(n)' > 0 /\ Count(h)' > 0 /\ Count(n)' + Count(h)' > MergeBound
  <2>1. Count(n)' = Len(lows) /\ Count(h)' = Len(highs)
    BY <1>2 DEF Count
  <2>2. QED
    BY <1>3, <2>1
<1>5. /\ low \in SlotPrefixes /\ high \in SlotPrefixes /\ low # <<>> /\ high # <<>>
      /\ Front(low) = node[n].prefix /\ Front(high) = node[n].prefix
      /\ Buddy(low) = high /\ Buddy(high) = low
  BY <1>1, HalfPrefixes
<1>6. \A s \in Slots : /\ Covers(node[n].prefix, s) <=> Covers(low, s) \/ Covers(high, s)
                       /\ ~ (Covers(low, s) /\ Covers(high, s))
  BY <1>1, Halves
<1>7. \A s \in Slots : fwd'[f].children[s] = IF Covers(high, s) THEN h ELSE fwd[f].children[s]
  <2>1. fwd'[f].children = Put(f, high, h)
    BY <1>1 DEF Fwd
  <2>2. QED
    BY <2>1 DEF Put
<1>8. PICK s \in Slots : Covers(low, s)
  BY <1>5, PadCovered
<1>9. PICK t \in Slots : Covers(high, t)
  BY <1>5, PadCovered
<1>10. /\ Covers(node[n].prefix, s) /\ Covers(node[n].prefix, t)
       /\ fwd[f].children[s] = n /\ fwd[f].children[t] = n
       /\ fwd'[f].children[s] = n /\ fwd'[f].children[t] = h
  <2>1. Covers(node[n].prefix, s) /\ Covers(node[n].prefix, t) /\ ~ Covers(high, s)
    BY <1>6, <1>8, <1>9
  <2>2. fwd[f].children[s] = n /\ fwd[f].children[t] = n
    BY <1>1, <2>1, RangeOf
  <2>3. QED
    BY <1>7, <1>9, <2>1, <2>2
<1>11. Leads' /\ \A m \in nodes : node'[m] = node[m] => PutAt(f, high, h, m)
  BY <1>1, <1>10, LeadsPut DEF TreeInv, ShapeInv
<1>12. WillSettle(nodes \ {n})
  <2>1. \A m \in nodes \ {n} : node'[m] = node[m] /\ m # h
    BY <1>1, <1>2
  <2>2. \A m \in nodes \ {n} : Kept(m)
    BY <1>1, <1>11, <2>1, FillKept
  <2>3. QED
    BY <1>3, <2>2, SettleLess, KeptSettle
<1>13. ~ Alone(n)' /\ ~ Alone(h)'
  <2>1. n \notin {f, h} /\ h \notin {f, n}
    BY <1>1
  <2>2. ~ Alone(n)'
    <3>1. Covers(Front(node'[n].prefix), t) /\ fwd'[node'[n].parent].children[t] = h
      BY ZenonT(60), <1>2, <1>5, <1>10
    <3>2. QED
      BY ZenonT(60), <1>2, <2>1, <3>1 DEF Alone
  <2>3. ~ Alone(h)'
    <3>1. Covers(Front(node'[h].prefix), s) /\ fwd'[node'[h].parent].children[s] = n
      BY <1>2, <1>5, <1>10
    <3>2. QED
      BY ZenonT(60), <1>2, <2>1, <3>1 DEF Alone
  <2>4. QED
    BY <2>2, <2>3
<1>14. ASSUME NEW c \in nodes \ {n}, Buddies(n, c)' \/ Buddies(h, c)' PROVE FALSE
  <2>1. /\ node[c].parent = f /\ node[c].prefix \in {low, high}
    BY ZenonT(60), <1>1, <1>2, <1>5, <1>14 DEF Buddies
  <2>2. fwd[f].children[s] = c \/ fwd[f].children[t] = c
    BY <1>8, <1>9, <2>1, RangeOf
  <2>3. QED
    BY <1>10, <2>2
<1>15. WillSettle(nodes')
  <2>1. WillSettle((nodes \ {n}) \cup {n, h})
    BY <1>1, <1>2, <1>4, <1>5, <1>12, <1>13, <1>14, ShareSettled
  <2>2. (nodes \ {n}) \cup {n, h} = nodes'
    BY <1>1
  <2>3. QED
    BY <2>1, <2>2
<1>16. QED
  BY <1>1, <1>3, <1>11, <1>15, ReturnPhases

\* split_node.
LEMMA SplitNodeShape ==
  ASSUME TreeInv, TypeOK', ShapeInv, SplitNode PROVE Leads' /\ Phases'
<1>1. PICK n, f, old : n = Top.node /\ f = Top.fwd /\ old = node[n]
  OBVIOUS
<1>2. PICK low, high : low = Append(old.prefix, 0) /\ high = Append(old.prefix, 1)
  OBVIOUS
<1>3. PICK count : count = LowCount(old.items, 1, Top.p % BDIV, Len(low))
  OBVIOUS
<1>4. PICK h : h = FreshNode
  OBVIOUS
<1> DEFINE lows == SubSeq(old.items, 1, count)
           highs == SubSeq(old.items, count + 1, Len(old.items))
<1>5. /\ Running("split") /\ Len(old.prefix) < BSIZE /\ fwds' = fwds
      /\ \/ /\ fwd' = [fwd EXCEPT ![f].children = Put(f, low, f)]
            /\ node' = [node EXCEPT ![n].prefix = high]
            /\ UNCHANGED <<nodes, stack>>
         \/ /\ fwd' = [fwd EXCEPT ![f].children = Put(f, high, f)]
            /\ node' = [node EXCEPT ![n].prefix = low]
            /\ UNCHANGED <<nodes, stack>>
         \/ /\ lows # <<>> /\ highs # <<>>
            /\ nodes # NodeIds
            /\ nodes' = nodes \cup {h}
            /\ fwd' = [fwd EXCEPT ![f].children = Put(f, high, h)]
            /\ node' = [node EXCEPT ![n] = [old EXCEPT !.prefix = low, !.items = lows],
                                    ![h] = [prefix |-> high, parent |-> f, items |-> highs]]
            /\ Return
  BY <1>1, <1>2, <1>3, <1>4 DEF SplitNode
<1>6. /\ old.prefix \in SlotPrefixes /\ old.items \in Seq(Items) /\ nodes \subseteq NodeIds
  BY <1>1, <1>5, SplitTop, Addresses DEF TreeInv
<1>7. /\ low \in SlotPrefixes /\ high \in SlotPrefixes
      /\ \A s \in Slots : /\ Covers(old.prefix, s) <=> Covers(low, s) \/ Covers(high, s)
                          /\ ~ (Covers(low, s) /\ Covers(high, s))
  BY <1>2, <1>5, <1>6, Halves, HalfPrefixes
<1>8. /\ lows \in Seq(Items) /\ highs \in Seq(Items)
      /\ Len(lows) + Len(highs) = Len(old.items)
  <2>1. count \in 0 .. Len(old.items)
    BY <1>3, <1>6, LowCountRange
  <2>2. /\ lows \in Seq(Items) /\ highs \in Seq(Items)
        /\ Len(lows) = count /\ Len(highs) = Len(old.items) - count
    BY <1>6, <2>1, PartsLen
  <2>3. Len(old.items) \in Nat
    BY <1>6
  <2> HIDE DEF lows, highs
  <2>4. QED
    BY <2>1, <2>2, <2>3
<1> HIDE DEF lows, highs
<1>9. CASE /\ fwd' = [fwd EXCEPT ![f].children = Put(f, low, f)]
           /\ node' = [node EXCEPT ![n].prefix = high]
           /\ UNCHANGED <<nodes, stack>>
  BY <1>1, <1>5, <1>7, <1>9, SplitDropShape
<1>10. CASE /\ fwd' = [fwd EXCEPT ![f].children = Put(f, high, f)]
            /\ node' = [node EXCEPT ![n].prefix = low]
            /\ UNCHANGED <<nodes, stack>>
  BY <1>1, <1>5, <1>7, <1>10, SplitDropShape
<1>11. CASE /\ lows # <<>> /\ highs # <<>>
            /\ nodes # NodeIds
            /\ nodes' = nodes \cup {h}
            /\ fwd' = [fwd EXCEPT ![f].children = Put(f, high, h)]
            /\ node' = [node EXCEPT ![n] = [old EXCEPT !.prefix = low, !.items = lows],
                                    ![h] = [prefix |-> high, parent |-> f, items |-> highs]]
            /\ Return
  <2>1. h \in NodeIds \ nodes
    BY <1>4, <1>6, <1>11 DEF FreshNode
  <2>2. Len(lows) + Len(highs) = Count(n) /\ Len(node[n].prefix) < BSIZE
    BY <1>1, <1>5, <1>8 DEF Count
  <2>3. node' = [node EXCEPT ![n] = [node[n] EXCEPT !.prefix = low, !.items = lows],
                             ![h] = [prefix |-> high, parent |-> f, items |-> highs]]
    BY <1>1, <1>11
  <2>4. low = Append(node[n].prefix, 0) /\ high = Append(node[n].prefix, 1)
    BY <1>1, <1>2
  <2>5. /\ Running("split") /\ n = Top.node /\ f = Top.fwd /\ fwds' = fwds /\ Return
        /\ nodes' = nodes \cup {h} /\ fwd' = [fwd EXCEPT ![f].children = Put(f, high, h)]
        /\ lows # <<>> /\ highs # <<>> /\ lows \in Seq(Items) /\ highs \in Seq(Items)
    BY <1>1, <1>5, <1>8, <1>11
  <2>6. QED
    BY <2>1, <2>2, <2>3, <2>4, <2>5, SplitShareShape
<1>12. QED
  BY <1>5, <1>9, <1>10, <1>11

\* split_node that finds no bytes left.
LEMMA SplitExhaustedShape ==
  ASSUME TreeInv, ShapeInv, SplitExhausted PROVE Leads' /\ Phases'
<1>1. Running("split") /\ Return /\ UNCHANGED <<fwds, fwd, nodes, node>> /\ stack # <<>>
  BY DEF SplitExhausted, Running
<1>2. Len(stack) = 1 /\ AllSettled(nodes)
  BY <1>1, SplitShape
<1>3. WillSettle(nodes)
  BY <1>1, <1>2, SameKept, KeptSettle
<1>4. QED
  BY <1>1, <1>2, <1>3, ReturnPhases DEF ShapeInv, Leads

\* A bucket whose slot becomes a forwarding node's does not disturb the others.
LEMMA BranchShape ==
  ASSUME TreeInv, Leads, AllSettled(nodes), NEW n \in nodes, Len(node[n].prefix) = BSIZE,
         NEW g, NEW x, NEW y, NEW B, Branches(n, g, x, y, B)
  PROVE  /\ Leads' /\ WillSettle(nodes \ {n})
         /\ \A s \in Slots : fwd'[g].children[s] = IF s[1] = 0 THEN x ELSE y
         /\ Pad(<<0>>) \in Slots /\ Pad(<<0>>)[1] = 0 /\ Pad(<<1>>) \in Slots /\ Pad(<<1>>)[1] = 1
<1> DEFINE q == node[n].prefix
<1>1. PICK f : f = node[n].parent
  OBVIOUS
<1>2. /\ f \in fwds /\ f \in FwdIds /\ g \in FwdIds /\ g \notin fwds /\ g # f
      /\ fwds' = fwds \cup {g} /\ fwd \in [FwdIds -> Fwd] /\ n \in NodeIds
  BY <1>1, ParentAlive, Addresses DEF TreeInv, Branches
<1>3. /\ \A s \in Slots : fwd'[f].children[s] = IF Covers(q, s) THEN g ELSE fwd[f].children[s]
      /\ \A e \in FwdIds \ {f, g} : fwd'[e] = fwd[e]
      /\ \A s \in Slots : fwd'[g].children[s] = IF s[1] = 0 THEN x ELSE y
  <2>1. fwd' = [fwd EXCEPT ![f].children = Put(f, q, g),
                           ![g] = [parent |-> f, path |-> Pad(q),
                                   children |-> [s \in Slots |-> IF s[1] = 0 THEN x ELSE y]]]
    BY <1>1 DEF Branches
  <2>2. fwd'[f].children = Put(f, q, g)
    BY <1>2, <2>1 DEF Fwd
  <2>3. fwd'[g].children = [s \in Slots |-> IF s[1] = 0 THEN x ELSE y]
    BY <1>2, <2>1
  <2>4. \A e \in FwdIds \ {f, g} : fwd'[e] = fwd[e]
    BY <1>2, <2>1
  <2> HIDE DEF q
  <2>5. \A s \in Slots : fwd'[f].children[s] = IF Covers(q, s) THEN g ELSE fwd[f].children[s]
    BY <2>2 DEF Put
  <2>6. QED
    BY <2>3, <2>4, <2>5
<1>4. /\ Pad(<<0>>) \in Slots /\ Pad(<<0>>)[1] = 0 /\ Pad(<<1>>) \in Slots /\ Pad(<<1>>)[1] = 1
  <2>1. Pad(<<0>>) \in Slots /\ Pad(<<1>>) \in Slots
    BY PrefixTypes
  <2>2. 1 \in 1 .. BSIZE /\ Len(<<0>>) = 1 /\ Len(<<1>>) = 1 /\ <<0>>[1] = 0 /\ <<1>>[1] = 1
    BY PrefixFacts
  <2>3. QED
    BY <2>1, <2>2 DEF Pad
<1> HIDE DEF q
<1>5. Leads'
  <2> SUFFICES ASSUME NEW e \in (fwds \cup {g}) \ {Root}
               PROVE  \E s \in Slots : fwd'[e].children[s] # e
    BY <1>2 DEF Leads
  <2>1. CASE e = g
    <3>1. x # g \/ y # g
      BY DEF Branches
    <3>2. QED
      BY <1>3, <1>4, <2>1, <3>1
  <2>2. CASE e # g
    <3>1. e \in FwdIds /\ \E s \in Slots : fwd[e].children[s] # e
      BY <1>2, <2>2, Addresses DEF Leads, TreeInv
    <3>2. QED
      BY <1>2, <1>3, <2>2, <3>1
  <2>3. QED
    BY <2>1, <2>2
<1>6. ASSUME NEW m \in nodes \ {n} PROVE Kept(m)
  <2>1. node'[m] = node[m] /\ node[m].parent \in fwds /\ node[m].parent \in FwdIds /\ g # m
    BY <1>2, ParentAlive, Addresses DEF TreeInv, Branches
  <2>2. PutAt(f, q, g, m)
    BY <1>2, <1>3, <2>1 DEF PutAt
  <2>3. QED
    BY <1>2, <2>1, <2>2, FillKept
<1>7. WillSettle(nodes \ {n})
  BY <1>6, SettleLess, KeptSettle
<1>8. QED
  BY <1>3, <1>4, <1>5, <1>7

\* What split_fwd makes of the bucket n, g being the new forwarding node.
SplitFwdOne(n, g, bit, items, size, p) ==
  /\ Branches(n, g, IF bit = 0 THEN n ELSE g, IF bit = 0 THEN g ELSE n, {n})
  /\ node'[n] = [prefix |-> <<bit>>, parent |-> g, items |-> items]
  /\ nodes' = nodes /\ Len(items) = Count(n)
  /\ Become(Frame("split", n, g, size, p))

SplitFwdTwo(n, g, l, lows, highs) ==
  /\ l \in NodeIds \ nodes /\ nodes' = nodes \cup {l} /\ Branches(n, g, l, n, {l, n})
  /\ node'[n] = [prefix |-> <<1>>, parent |-> g, items |-> highs]
  /\ node'[l] = [prefix |-> <<0>>, parent |-> g, items |-> lows]
  /\ Len(lows) > 0 /\ Len(highs) > 0 /\ Len(lows) + Len(highs) = Count(n)
  /\ Return

\* split_fwd makes one of the two, and no item is lost.
LEMMA SplitFwdParts ==
  ASSUME TreeInv, SplitFwd, NEW n, n = Top.node
  PROVE  /\ Len(node[n].prefix) = BSIZE
         /\ \E g :
              \/ \E bit \in {0, 1} : \E items, size, p : SplitFwdOne(n, g, bit, items, size, p)
              \/ \E l, lows, highs : SplitFwdTwo(n, g, l, lows, highs)
<1>1. PICK f, old, g, l : f = Top.fwd /\ old = node[n] /\ g = FreshFwd /\ l = FreshNode
  OBVIOUS
<1>2. PICK b, size, p, cut : /\ b = Top.p \div BDIV /\ size = Positive(Top.size) + b
                             /\ p = Top.p + 1 /\ cut = IF p % BDIV = 0 THEN 1 ELSE 0
  OBVIOUS
<1>3. PICK count : count = LowCount(old.items, 1 + cut, p % BDIV, 1)
  OBVIOUS
<1>4. PICK moved : moved = [i \in DOMAIN old.items |->
                              IF cut = 1 THEN CutItem(old.items, i, count, b, size) ELSE old.items[i]]
  OBVIOUS
<1>5. PICK lows, highs : lows = SubSeq(moved, 1, count) /\ highs = SubSeq(moved, count + 1, Len(moved))
  OBVIOUS
<1>6. /\ n \in nodes /\ n \in NodeIds /\ f = node[n].parent /\ f \in fwds /\ f \in FwdIds
      /\ old \in Node /\ old.items \in Seq(Items)
      /\ nodes \subseteq NodeIds /\ node \in [NodeIds -> Node]
      /\ \A x \in NodeIds \ nodes : node[x] = DeadNode
      /\ \A x \in NodeIds : x \notin FwdIds
  BY <1>1, SplitTop, Addresses DEF SplitFwd, TreeInv, DeadOK
<1> DEFINE Branch(x, y) == [parent |-> f, path |-> Pad(old.prefix),
                            children |-> [s \in Slots |-> IF s[1] = 0 THEN x ELSE y]]
           Link(x, y) == fwd' = [fwd EXCEPT ![f].children = Put(f, old.prefix, g),
                                            ![g] = Branch(x, y)]
<1>7. /\ Len(old.prefix) = BSIZE /\ fwds # FwdIds /\ fwds' = fwds \cup {g}
      /\ \/ /\ lows = <<>> /\ Link(g, n) /\ nodes' = nodes
            /\ node' = [node EXCEPT ![n] = [prefix |-> <<1>>, parent |-> g, items |-> highs]]
            /\ Become(Frame("split", n, g, Top.size - cut, p))
         \/ /\ highs = <<>> /\ Link(n, g) /\ nodes' = nodes
            /\ node' = [node EXCEPT ![n] = [prefix |-> <<0>>, parent |-> g, items |-> lows]]
            /\ Become(Frame("split", n, g, Top.size - cut, p))
         \/ /\ lows # <<>> /\ highs # <<>> /\ nodes # NodeIds /\ nodes' = nodes \cup {l}
            /\ Link(l, n)
            /\ node' = [node EXCEPT ![n] = [prefix |-> <<1>>, parent |-> g, items |-> highs],
                                    ![l] = [prefix |-> <<0>>, parent |-> g, items |-> lows]]
            /\ Return
  BY <1>1, <1>2, <1>3, <1>4, <1>5, ZenonT(60) DEF SplitFwd
<1>8. g \in FwdIds /\ g \notin fwds /\ g # n
  <2>1. fwds \subseteq FwdIds /\ fwds # FwdIds /\ g = CHOOSE e \in FwdIds : e \notin fwds
    BY <1>1, <1>7, Addresses DEF FreshFwd, TreeInv
  <2>2. g \in FwdIds /\ g \notin fwds
    BY <2>1
  <2>3. QED
    BY <1>6, <2>2
<1>9. count \in 0 .. Len(old.items)
  BY <1>3, <1>6, LowCountRange
<1>10. moved \in Seq(Items) /\ Len(moved) = Len(old.items) /\ Len(old.items) \in Nat
  <2>1. \A i \in DOMAIN old.items : moved[i] \in Items
    BY <1>4, <1>6, CutItemType
  <2>2. DOMAIN old.items = 1 .. Len(old.items) /\ Len(old.items) \in Nat
    BY <1>6
  <2>3. DOMAIN moved = 1 .. Len(old.items) /\ moved = [i \in 1 .. Len(old.items) |-> moved[i]]
    BY <1>4, <2>2
  <2>4. QED
    BY <2>1, <2>2, <2>3
<1>11. /\ Len(lows) = count /\ Len(highs) = Len(old.items) - count
       /\ lows \in Seq(Items) /\ highs \in Seq(Items)
  BY <1>5, <1>9, <1>10, PartsLen
<1>12. /\ lows = <<>> => Len(highs) = Count(n)
       /\ highs = <<>> => Len(lows) = Count(n)
       /\ Len(lows) + Len(highs) = Count(n)
       /\ lows # <<>> => Len(lows) > 0
       /\ highs # <<>> => Len(highs) > 0
  <2>1. Count(n) = Len(old.items)
    BY <1>1 DEF Count
  <2>2. Len(lows) + Len(highs) = Count(n)
    BY <1>9, <1>10, <1>11, <2>1
  <2>3. Len(lows) \in Nat /\ Len(highs) \in Nat /\ (lows # <<>> <=> Len(lows) > 0)
        /\ (highs # <<>> <=> Len(highs) > 0)
    BY <1>11
  <2>4. QED
    BY <2>2, <2>3
<1>13. ASSUME NEW bit \in {0, 1}, NEW items, Len(items) = Count(n), nodes' = nodes,
              Link(IF bit = 0 THEN n ELSE g, IF bit = 0 THEN g ELSE n),
              node' = [node EXCEPT ![n] = [prefix |-> <<bit>>, parent |-> g, items |-> items]],
              NEW i, Become(Frame("split", n, g, i, p))
       PROVE  SplitFwdOne(n, g, bit, items, i, p)
  <2>1. /\ node'[n] = [prefix |-> <<bit>>, parent |-> g, items |-> items]
        /\ node'[n].prefix = <<bit>> /\ node'[n].parent = g
        /\ \A x \in NodeIds \ {n} : node'[x] = node[x]
    BY <1>6, <1>13
  <2>2. PICK x, y : x = (IF bit = 0 THEN n ELSE g) /\ y = (IF bit = 0 THEN g ELSE n)
    OBVIOUS
  <2>3. fwd' = [fwd EXCEPT ![node[n].parent].children = Put(node[n].parent, node[n].prefix, g),
                           ![g] = [parent |-> node[n].parent, path |-> Pad(node[n].prefix),
                                   children |-> [s \in Slots |-> IF s[1] = 0 THEN x ELSE y]]]
    BY ZenonT(60), <1>1, <1>6, <1>13, <2>2
  <2> HIDE DEF Link, Branch
  <2>4. /\ x # y /\ {n} = {x, y} \ {g}
        /\ x # g => x = n /\ bit = 0
        /\ y # g => y = n /\ bit = 1
    BY <1>8, <1>13, <2>2
  <2>5. /\ nodes' \subseteq NodeIds /\ {n} \subseteq nodes' /\ nodes' \ {n} = nodes \ {n}
        /\ \A m \in nodes \ {n} : node'[m] = node[m]
        /\ \A m \in NodeIds \ nodes' : node'[m] = DeadNode
    BY <1>6, <1>13, <2>1
  <2>6. /\ x # g => node'[x].prefix = <<0>> /\ node'[x].parent = g
        /\ y # g => node'[y].prefix = <<1>> /\ node'[y].parent = g
    BY <2>1, <2>4
  <2>7. Branches(n, g, x, y, {n})
    BY ZenonT(60), <1>7, <1>8, <2>3, <2>4, <2>5, <2>6 DEF Branches
  <2>8. QED
    BY ZenonT(60), <1>13, <2>1, <2>2, <2>7 DEF SplitFwdOne
<1>14. ASSUME lows # <<>>, highs # <<>>, nodes # NodeIds, nodes' = nodes \cup {l}, Link(l, n),
              node' = [node EXCEPT ![n] = [prefix |-> << 1 >>, parent |-> g, items |-> highs],
                                   ![l] = [prefix |-> << 0 >>, parent |-> g, items |-> lows]],
              Return
       PROVE  SplitFwdTwo(n, g, l, lows, highs)
  <2>1. l \in NodeIds /\ l \notin nodes /\ l # n /\ l # g
    BY <1>1, <1>6, <1>8, <1>14 DEF FreshNode
  <2>2. /\ node'[n] = [prefix |-> <<1>>, parent |-> g, items |-> highs]
        /\ node'[l] = [prefix |-> <<0>>, parent |-> g, items |-> lows]
        /\ \A x \in NodeIds \ {n, l} : node'[x] = node[x]
    BY <1>6, <1>14, <2>1
  <2>3. /\ node'[n].prefix = <<1>> /\ node'[n].parent = g
        /\ node'[l].prefix = <<0>> /\ node'[l].parent = g
    BY <2>2
  <2>4. /\ nodes' \subseteq NodeIds /\ {l, n} \subseteq nodes' /\ nodes' \ {l, n} = nodes \ {n}
        /\ \A x \in nodes \ {n} : node'[x] = node[x]
        /\ \A x \in NodeIds \ nodes' : node'[x] = DeadNode
        /\ {l, n} \ {g} = {l, n}
    BY <1>6, <1>8, <1>14, <2>1, <2>2
  <2>5. Branches(n, g, l, n, {l, n})
    BY <1>1, <1>6, <1>7, <1>8, <1>14, <2>1, <2>3, <2>4 DEF Branches
  <2>6. QED
    BY <1>12, <1>14, <2>1, <2>2, <2>5 DEF SplitFwdTwo
<1> HIDE DEF Link
<1>15. QED
  <2>1. CASE /\ lows = <<>> /\ Link(g, n) /\ nodes' = nodes
             /\ node' = [node EXCEPT ![n] = [prefix |-> <<1>>, parent |-> g, items |-> highs]]
             /\ Become(Frame("split", n, g, Top.size - cut, p))
    <3>1. PICK i : i = Top.size - cut
      OBVIOUS
    <3>2. (IF 1 = 0 THEN n ELSE g) = g /\ (IF 1 = 0 THEN g ELSE n) = n
      OBVIOUS
    <3>3. SplitFwdOne(n, g, 1, highs, i, p)
      BY <1>12, <1>13, <2>1, <3>1, <3>2
    <3>4. QED
      BY <1>1, <1>7, <3>3
  <2>2. CASE /\ highs = <<>> /\ Link(n, g) /\ nodes' = nodes
             /\ node' = [node EXCEPT ![n] = [prefix |-> <<0>>, parent |-> g, items |-> lows]]
             /\ Become(Frame("split", n, g, Top.size - cut, p))
    <3>1. PICK i : i = Top.size - cut
      OBVIOUS
    <3>2. SplitFwdOne(n, g, 0, lows, i, p)
      BY <1>12, <1>13, <2>2, <3>1
    <3>3. QED
      BY <1>1, <1>7, <3>2
  <2>3. CASE /\ lows # <<>> /\ highs # <<>> /\ nodes # NodeIds /\ nodes' = nodes \cup {l}
             /\ Link(l, n)
             /\ node' = [node EXCEPT ![n] = [prefix |-> <<1>>, parent |-> g, items |-> highs],
                                     ![l] = [prefix |-> <<0>>, parent |-> g, items |-> lows]]
             /\ Return
    BY <1>1, <1>7, <1>14, <2>3
  <2>4. QED
    BY <1>7, <2>1, <2>2, <2>3

\* split_fwd.
LEMMA SplitFwdShape ==
  ASSUME TreeInv, TypeOK', ShapeInv, SplitFwd PROVE Leads' /\ Phases'
<1>1. PICK n : n = Top.node
  OBVIOUS
<1>2. /\ n \in nodes /\ n \in NodeIds /\ nodes \subseteq NodeIds /\ stack \in Seq(Frames)
      /\ Running("split") /\ stack # <<>>
  BY <1>1, SplitTop, Addresses DEF SplitFwd, TreeInv, TypeOK
<1>3. /\ Len(stack) = 1 /\ AllSettled(nodes) /\ Full(Count(n)) /\ Count(n) > MergeBound
      /\ Leads /\ Count(n) \in Nat
  BY <1>1, <1>2, SplitShape DEF ShapeInv
<1>4. PICK g : /\ Len(node[n].prefix) = BSIZE
               /\ \/ \E bit \in {0, 1} : \E items, size, p : SplitFwdOne(n, g, bit, items, size, p)
                  \/ \E l, lows, highs : SplitFwdTwo(n, g, l, lows, highs)
  BY <1>1, SplitFwdParts
<1>5. ASSUME NEW bit \in {0, 1}, NEW items, NEW size, NEW p, SplitFwdOne(n, g, bit, items, size, p)
      PROVE  Leads' /\ Phases'
  <2>1. Leads' /\ WillSettle(nodes \ {n})
    BY <1>2, <1>3, <1>4, <1>5, BranchShape DEF SplitFwdOne
  <2>2. Count(n)' = Count(n) /\ nodes' = nodes
    BY <1>5 DEF SplitFwdOne, Count
  <2>3. WillSettle(nodes')
    <3>1. WillSettle((nodes \ {n}) \cup {n})
      BY <1>2, <1>3, <2>1, <2>2, LargeSettled
    <3>2. (nodes \ {n}) \cup {n} = nodes'
      BY <1>2, <2>2
    <3>3. QED
      BY <3>1, <3>2
  <2> DEFINE frame == Frame("split", n, g, size, p)
  <2>4. frame.fn = "split" /\ frame.node = n /\ stack' = <<frame>> \o Tail(stack)
    BY <1>5 DEF SplitFwdOne, Frame, Become
  <2> HIDE DEF frame
  <2>5. stack' # <<>> /\ Len(stack') = 1 /\ Top' = frame
    BY <1>2, <1>3, <2>4 DEF Top
  <2>6. Phases'
    BY <1>3, <2>2, <2>3, <2>4, <2>5, SplitPhases
  <2>7. QED
    BY <2>1, <2>6
<1>6. ASSUME NEW l, NEW lows, NEW highs, SplitFwdTwo(n, g, l, lows, highs)
      PROVE  Leads' /\ Phases'
  <2>1. /\ Leads' /\ WillSettle(nodes \ {n})
        /\ \A s \in Slots : fwd'[g].children[s] = IF s[1] = 0 THEN l ELSE n
        /\ Pad(<<0>>) \in Slots /\ Pad(<<0>>)[1] = 0 /\ Pad(<<1>>) \in Slots /\ Pad(<<1>>)[1] = 1
    <3>1. Branches(n, g, l, n, {l, n})
      BY <1>6 DEF SplitFwdTwo
    <3>2. QED
      BY <1>2, <1>3, <1>4, <3>1, BranchShape
  <2>2. /\ l \in NodeIds /\ l \notin nodes /\ l # n /\ nodes' = nodes \cup {l}
        /\ g \in FwdIds /\ g \notin fwds /\ g # n /\ g # l
    BY <1>2, <1>6, Addresses DEF SplitFwdTwo, Branches, TreeInv
  <2>3. /\ node'[n].prefix = <<1>> /\ node'[n].parent = g /\ node'[n].items = highs
        /\ node'[l].prefix = <<0>> /\ node'[l].parent = g /\ node'[l].items = lows
    BY <1>6 DEF SplitFwdTwo
  <2>4. Count(n)' > 0 /\ Count(l)' > 0 /\ Count(n)' + Count(l)' > MergeBound
    <3>1. Count(n)' = Len(highs) /\ Count(l)' = Len(lows)
      BY <2>3 DEF Count
    <3>2. Len(highs) > 0 /\ Len(lows) > 0 /\ Len(lows) + Len(highs) = Count(n)
      BY <1>6 DEF SplitFwdTwo
    <3>3. Count(n)' \in Nat /\ Count(l)' \in Nat
      BY <1>2, <2>2 DEF TypeOK, BucketsOK, Node, Count
    <3>4. QED
      BY <1>3, <3>1, <3>2, <3>3
  <2>5. Front(<<1>>) = <<>> /\ Front(<<0>>) = <<>> /\ <<1>> # <<>> /\ <<0>> # <<>>
    BY DEF Front
  <2>6. ~ Alone(n)' /\ ~ Alone(l)'
    <3>1. fwd'[g].children[Pad(<<0>>)] = l /\ fwd'[g].children[Pad(<<1>>)] = n
      BY <2>1
    <3>2. Covers(<<>>, Pad(<<0>>)) /\ Covers(<<>>, Pad(<<1>>))
      BY <2>1, EmptyRange
    <3>3. ~ Alone(n)'
      BY <2>1, <2>2, <2>3, <2>5, <3>1, <3>2 DEF Alone
    <3>4. ~ Alone(l)'
      BY <2>1, <2>2, <2>3, <2>5, <3>1, <3>2 DEF Alone
    <3>5. QED
      BY <3>3, <3>4
  <2>7. ASSUME NEW c \in nodes \ {n} PROVE ~ Buddies(n, c)' /\ ~ Buddies(l, c)'
    <3>1. node'[c].parent # g
      BY <1>2, <1>6, <2>2, ParentAlive DEF SplitFwdTwo, Branches
    <3>2. QED
      BY <2>3, <3>1 DEF Buddies
  <2>8. WillSettle(nodes')
    <3>1. WillSettle((nodes \ {n}) \cup {n, l})
      BY <1>2, <2>1, <2>2, <2>3, <2>4, <2>5, <2>6, <2>7, ShareSettled
    <3>2. (nodes \ {n}) \cup {n, l} = nodes'
      BY <1>2, <2>2
    <3>3. QED
      BY <3>1, <3>2
  <2>9. Return
    BY <1>6 DEF SplitFwdTwo
  <2>10. QED
    BY <1>2, <1>3, <2>1, <2>8, <2>9, ReturnPhases
<1>7. QED
  BY <1>4, <1>5, <1>6

-----------------------------------------------------------------------------
(* The merges *)

\* What holds when a merge of the bucket n begins or goes on.
LEMMA MergeShape ==
  ASSUME TreeInv, ShapeInv, Running("merge_down"), NEW n, n = Top.node
  PROVE  /\ n \in nodes /\ n \in NodeIds /\ nodes \subseteq NodeIds /\ stack # <<>> /\ Leads
         /\ Count(n) \in Nat /\ (Count(n) = 0 <=> node[n].items = <<>>)
         /\ \/ /\ AllSettled(nodes \ {n}) /\ WaitFor(n)
               /\ Count(n) = 0 => Len(stack) = 1 /\ Removable(n)
            \/ /\ AllSettled(nodes)
               /\ \E m \in nodes : /\ WaitFor(m)
                                   /\ \/ n = m
                                      \/ Len(node[n].prefix) > Len(node[m].prefix)
                                      \/ Count(n) > MergeBound
<1>1. n \in nodes /\ n \in NodeIds /\ nodes \subseteq NodeIds /\ stack # <<>>
  BY MergeTop, Addresses DEF TreeInv
<1>2. Count(n) \in Nat /\ (Count(n) = 0 <=> node[n].items = <<>>)
  BY <1>1, CountType, Addresses DEF TreeInv, Count
<1>3. Growing \/ Finishing
  BY <1>1 DEF Running, ShapeInv, Phases
<1>4. CASE Growing
  BY <1>1, <1>2, <1>4 DEF Growing, ShapeInv
<1>5. CASE Finishing
  BY <1>1, <1>2, <1>5 DEF Finishing, ShapeInv
<1>6. QED
  BY <1>3, <1>4, <1>5

\* An empty bucket is one that a merge may remove, and then there is no other call.
LEMMA EmptyShape ==
  ASSUME TreeInv, ShapeInv, Running("merge_down"), NEW n, n = Top.node, node[n].items = <<>>
  PROVE  AllSettled(nodes \ {n}) /\ WaitFor(n) /\ Len(stack) = 1 /\ Removable(n)
<1>1. /\ n \in nodes /\ Count(n) = 0
      /\ \/ /\ AllSettled(nodes \ {n}) /\ WaitFor(n)
            /\ Count(n) = 0 => Len(stack) = 1 /\ Removable(n)
         \/ AllSettled(nodes)
  BY MergeShape
<1>2. ~ AllSettled(nodes)
  BY <1>1 DEF AllSettled, Settled
<1>3. QED
  BY <1>1, <1>2

\* The last bucket is settled as well.
LEMMA GrownSettled ==
  ASSUME TreeInv, NEW n \in nodes, AllSettled(nodes \ {n}), Settled(n),
         \A c \in nodes : Buddies(n, c) => Count(n) + Count(c) > MergeBound
  PROVE  AllSettled(nodes)
<1>1. \A c \in nodes : Count(c) \in Nat
  BY CountType, Addresses DEF TreeInv
<1>2. \A c \in nodes : Buddies(c, n) => Buddies(n, c)
  BY BuddyIs
<1>3. QED
  BY <1>1, <1>2 DEF AllSettled

\* A merge that stops where the bucket it is about is settled.
LEMMA StopShape ==
  ASSUME TreeInv, ShapeInv, Running("merge_down"), NEW n, n = Top.node,
         UNCHANGED <<fwds, fwd, nodes, node>>, Return, Settled(n),
         \A c \in nodes : Buddies(n, c) => Count(n) + Count(c) > MergeBound
  PROVE  Leads' /\ Phases'
<1>1. n \in nodes /\ stack # <<>> /\ Leads
  BY MergeShape
<1>2. AllSettled(nodes)
  <2>1. AllSettled(nodes \ {n}) \/ AllSettled(nodes)
    BY MergeShape
  <2>2. QED
    BY <1>1, <2>1, GrownSettled
<1>3. \E m \in nodes' : WaitFor(m)
  BY MergeShape
<1>4. WillSettle(nodes')
  BY <1>2, SameKept, KeptSettle
<1>5. QED
  BY <1>1, <1>3, <1>4, ReturnPhases DEF Leads

\* merge_down leaves a bucket alone.
LEMMA MergeDownStopShape ==
  ASSUME TreeInv, ShapeInv, MergeDownStop PROVE Leads' /\ Phases'
<1>1. PICK n : n = Top.node
  OBVIOUS
<1>2. /\ Running("merge_down") /\ UNCHANGED <<fwds, fwd, nodes, node>> /\ Return
      /\ \/ Count(n) > MergeBound
         \/ node[n].prefix = <<>> /\ node[n].items # <<>> /\ node[n].parent = Root
  BY <1>1 DEF MergeDownStop, Count
<1>3. n \in nodes /\ Count(n) \in Nat /\ (Count(n) = 0 <=> node[n].items = <<>>)
  BY <1>1, <1>2, MergeShape
<1>4. Settled(n)
  BY <1>2, <1>3, Bounds DEF Settled
<1>5. ASSUME NEW c \in nodes, Buddies(n, c) PROVE Count(n) + Count(c) > MergeBound
  <2>1. Count(c) \in Nat /\ node[n].prefix # <<>>
    BY <1>5, CountType, Addresses DEF TreeInv, Buddies
  <2>2. QED
    BY <1>2, <1>3, <2>1, Bounds
<1>6. QED
  BY <1>1, <1>2, <1>4, <1>5, StopShape

\* merge_down after readd_byte.
LEMMA AfterReaddShape ==
  ASSUME TreeInv, ShapeInv, AfterReadd PROVE Leads' /\ Phases'
<1>1. PICK n : n = Top.node
  OBVIOUS
<1>2. /\ stack # <<>> /\ UNCHANGED <<fwds, fwd, nodes, node>> /\ Top.fn = "after_readd"
      /\ MergeDown(n) \/ Return
  BY <1>1 DEF AfterReadd, Running
<1>3. AllSettled(nodes) /\ n \in nodes /\ WaitFor(n) /\ Leads
  BY <1>1, <1>2 DEF ShapeInv, Phases
<1>4. WillSettle(nodes') /\ Leads'
  BY <1>2, <1>3, SameKept, KeptSettle DEF Leads
<1>5. CASE MergeDown(n)
  BY <1>2, <1>3, <1>4, <1>5, MergePhases
<1>6. CASE Return
  BY <1>2, <1>3, <1>4, <1>6, ReturnPhases
<1>7. QED
  BY <1>2, <1>4, <1>5, <1>6

\* A byte of the path that becomes part of the items adds no item.
LEMMA InjectByteLen ==
  ASSUME NEW items \in Seq(Items), NEW y \in Byte, NEW size
  PROVE  Len(InjectByte(items, y, size)) = Len(items)
<1> DEFINE moved == InjectByte(items, y, size)
<1>1. moved \in Seq(Items)
  BY InjectByteType
<1>2. DOMAIN moved = DOMAIN items
  BY DEF InjectByte
<1> HIDE DEF moved
<1>3. DOMAIN moved = 1 .. Len(moved) /\ DOMAIN items = 1 .. Len(items)
      /\ Len(moved) \in Nat /\ Len(items) \in Nat
  BY <1>1
<1>4. \A a, b \in Nat : 1 .. a = 1 .. b => ~ (a < b)
  <2> SUFFICES ASSUME NEW a \in Nat, NEW b \in Nat, a < b PROVE b \in 1 .. b /\ b \notin 1 .. a
    OBVIOUS
  <2> QED OBVIOUS
<1>5. \A a, b \in Nat : 1 .. a = 1 .. b => a = b
  BY <1>4
<1>6. Len(moved) = Len(items)
  BY ZenonT(60), <1>2, <1>3, <1>5
<1>7. QED
  BY <1>6 DEF moved

\* What readd_byte does to the tree: bucket n takes the place t of its parent f below up.
ReaddedTo(n, f, up, t) ==
  /\ fwd' = [fwd EXCEPT ![up].children = Put(up, t, n), ![f] = DeadFwd]
  /\ fwds' = fwds \ {f} /\ nodes' = nodes
  /\ \E moved : /\ Len(moved) = Len(node[n].items)
                /\ node' = [node EXCEPT ![n] = [prefix |-> t, parent |-> up,
                                                items |-> moved]]
  /\ \E size, later, p, byte :
       stack' = <<Frame("merge_down", n, Null, size, p),
                  Frame("after_readd", n, Null, later, byte)>> \o Tail(stack)

\* readd_byte does not lose items.
LEMMA ReaddByteParts ==
  ASSUME TreeInv, ReaddByte, NEW n, n = Top.node, NEW f, f = node[n].parent,
         NEW up, up = fwd[f].parent, NEW t, t = fwd[f].path
  PROVE  ReaddedTo(n, f, up, t)
<1> DEFINE carry == Top.p % BDIV = 0
           on_heap == IF carry THEN Top.size + 1 ELSE Top.size
           b == Top.p \div BDIV - 1
           sizes == [i \in DOMAIN node[Top.node].items |->
                       IF Top.p <= BDIV
                       THEN ((on_heap + b) \div Base) * Base + node[Top.node].items[i].first[1]
                       ELSE Positive(on_heap)]
<1>1. \E y \in IF carry THEN GetByte(node[Top.node].parent) ELSE {0} :
        node' = [node EXCEPT ![Top.node] =
                   [prefix |-> fwd[node[Top.node].parent].path,
                    parent |-> fwd[node[Top.node].parent].parent,
                    items |-> IF carry THEN InjectByte(node[Top.node].items, y, sizes)
                              ELSE node[Top.node].items]]
  BY DEF ReaddByte
<1>2. PICK items : items = node[n].items
  OBVIOUS
<1>3. PICK size, inject : size = sizes /\ inject = carry
  OBVIOUS
<1> HIDE DEF sizes, carry
<1>4. PICK y \in IF inject THEN GetByte(f) ELSE {0} :
        node' = [node EXCEPT ![n] = [prefix |-> t, parent |-> up,
                                     items |-> IF inject THEN InjectByte(items, y, size) ELSE items]]
  BY <1>1, <1>2, <1>3
<1>5. y \in Byte
  BY EncodingAssumption DEF GetByte, Byte
<1>6. items \in Seq(Items)
  BY <1>2, MergeTop DEF ReaddByte, Merging
<1>7. Len(IF inject THEN InjectByte(items, y, size) ELSE items) = Len(items)
  BY <1>5, <1>6, InjectByteLen
<1>8. /\ fwd' = [fwd EXCEPT ![up].children = Put(up, t, n), ![f] = DeadFwd]
      /\ fwds' = fwds \ {f} /\ nodes' = nodes
  BY Zenon DEF ReaddByte
<1>9. \E i, later, p, byte :
        stack' = <<Frame("merge_down", n, Null, i, p),
                   Frame("after_readd", n, Null, later, byte)>> \o Tail(stack)
  BY Zenon DEF ReaddByte
<1>10. QED
  BY ZenonT(60), <1>2, <1>4, <1>7, <1>8, <1>9 DEF ReaddedTo

\* readd_byte goes on with a bucket that is not settled in the place of its parent.
LEMMA ReaddByteShape ==
  ASSUME TreeInv, TypeOK', ShapeInv, ReaddByte PROVE Leads' /\ Phases'
<1>1. PICK n : n = Top.node
  OBVIOUS
<1>2. PICK f : f = node[n].parent
  OBVIOUS
<1>3. PICK up, t : up = fwd[f].parent /\ t = fwd[f].path
  OBVIOUS
<1>4. /\ Running("merge_down") /\ Count(n) <= MergeBound /\ node[n].prefix = <<>>
      /\ node[n].items # <<>> /\ f # Root
  BY <1>1, <1>2 DEF ReaddByte, Merging, Count
<1>5. /\ n \in nodes /\ n \in NodeIds /\ nodes \subseteq NodeIds /\ stack # <<>> /\ Leads
      /\ Count(n) \in Nat /\ Count(n) > 0 /\ stack \in Seq(Frames)
      /\ AllSettled(nodes \ {n}) /\ WaitFor(n)
  <2>1. /\ n \in nodes /\ n \in NodeIds /\ nodes \subseteq NodeIds /\ stack # <<>> /\ Leads
        /\ Count(n) \in Nat /\ (Count(n) = 0 <=> node[n].items = <<>>)
        /\ (AllSettled(nodes \ {n}) /\ WaitFor(n)) \/ AllSettled(nodes)
    BY <1>1, <1>4, MergeShape
  <2>2. ~ Settled(n)
    BY <1>2, <1>4, <2>1, Bounds DEF Settled
  <2>3. QED
    BY <1>4, <2>1, <2>2 DEF AllSettled, TreeInv, TypeOK
<1>6. /\ f \in fwds /\ f \in FwdIds /\ up \in fwds /\ up \in FwdIds /\ up # f
      /\ t \in Slots /\ fwd \in [FwdIds -> Fwd] /\ fwds \subseteq FwdIds
      /\ \A m \in NodeIds : m \notin FwdIds
  BY <1>2, <1>3, <1>4, <1>5, ParentAlive, PathOf, Addresses DEF TreeInv
<1>7. /\ fwd' = [fwd EXCEPT ![up].children = Put(up, t, n), ![f] = DeadFwd]
      /\ fwds' = fwds \ {f} /\ nodes' = nodes
      /\ \E moved : /\ Len(moved) = Len(node[n].items)
                    /\ node' = [node EXCEPT ![n] = [prefix |-> t, parent |-> up,
                                                    items |-> moved]]
      /\ \E size, later, p, byte :
           stack' = <<Frame("merge_down", n, Null, size, p),
                      Frame("after_readd", n, Null, later, byte)>> \o Tail(stack)
  <2>1. ReaddedTo(n, f, up, t)
    BY <1>1, <1>2, <1>3, ReaddByteParts
  <2>2. QED
    BY Zenon, <2>1 DEF ReaddedTo
<1>8. /\ Count(n)' = Count(n) /\ \A m \in NodeIds \ {n} : node'[m] = node[m]
  <2>1. PICK moved : /\ Len(moved) = Len(node[n].items)
                     /\ node' = [node EXCEPT ![n] = [prefix |-> t, parent |-> up,
                                                     items |-> moved]]
    BY <1>7
  <2>2. node'[n].items = moved /\ \A m \in NodeIds \ {n} : node'[m] = node[m]
    BY <1>5, <2>1, Addresses DEF TreeInv
  <2>3. QED
    BY <2>1, <2>2 DEF Count
<1>9. /\ \A s \in Slots : fwd'[up].children[s] = IF Covers(t, s) THEN n ELSE fwd[up].children[s]
      /\ \A e \in FwdIds \ {f, up} : fwd'[e] = fwd[e]
  <2>1. fwd'[up].children = Put(up, t, n) /\ \A e \in FwdIds \ {f, up} : fwd'[e] = fwd[e]
    BY <1>6, <1>7 DEF Fwd
  <2>2. QED
    BY <2>1 DEF Put
<1>10. Leads'
  <2> SUFFICES ASSUME NEW e \in fwds \ {f, Root} PROVE \E s \in Slots : fwd'[e].children[s] # e
    BY <1>7 DEF Leads
  <2>1. CASE e = up
    <3>1. fwd'[up].children[t] = n
      BY <1>6, <1>9, SlotRange
    <3>2. QED
      BY <1>5, <1>6, <2>1, <3>1
  <2>2. CASE e # up
    <3>1. fwd'[e] = fwd[e]
      BY <1>6, <1>9, <2>2
    <3>2. QED
      BY <1>5, <3>1 DEF Leads
  <2>3. QED
    BY <2>1, <2>2
<1>11. ASSUME NEW m \in nodes \ {n} PROVE Kept(m)
  <2>1. node'[m] = node[m] /\ m \in NodeIds /\ node[m].parent \in FwdIds
    BY <1>5, <1>8, Addresses DEF TreeInv
  <2>2. node[m].parent # f
    <3>1. node[m].prefix \in SlotPrefixes
      BY <2>1, Addresses DEF TreeInv
    <3>2. Pad(node[m].prefix) \in Slots /\ Covers(node[m].prefix, Pad(node[m].prefix))
      BY <3>1, PadCovered
    <3>3. Covers(node[n].prefix, Pad(node[m].prefix))
      BY <1>4, <3>2, EmptyRange
    <3>4. QED
      BY <1>2, <1>5, <3>2, <3>3, Disjoint
  <2>3. PutAt(up, t, n, m)
    BY <1>6, <1>9, <2>1, <2>2 DEF PutAt
  <2>4. QED
    BY <1>5, <1>6, <2>3, FillKept
<1>12. AllSettled(nodes \ {n})'
  <2>1. WillSettle(nodes \ {n})
    BY <1>5, <1>11, KeptSettle
  <2>2. QED
    BY <1>7, <2>1 DEF WillSettle, AllSettled
<1>13. Phases'
  <2>1. PICK size, later, p, byte :
          stack' = <<Frame("merge_down", n, Null, size, p),
                     Frame("after_readd", n, Null, later, byte)>> \o Tail(stack)
    BY <1>7
  <2> DEFINE new == Frame("merge_down", n, Null, size, p)
             waiting == Frame("after_readd", n, Null, later, byte)
  <2>2. new.fn = "merge_down" /\ new.node = n /\ waiting.node = n
    BY DEF Frame
  <2>3. stack' = <<new, waiting>> \o Tail(stack)
    BY <2>1
  <2> HIDE DEF new, waiting
  <2>4. Top' = new /\ stack' # <<>>
    BY <1>5, <2>3 DEF Top
  <2>5. \A i \in DOMAIN stack' : i > 1 => stack'[i].node = n
    <3>1. \A i \in DOMAIN stack' : i > 1 =>
            \/ i = 2 /\ stack'[i] = waiting
            \/ i - 1 > 1 /\ i - 1 \in DOMAIN stack /\ stack'[i] = stack[i - 1]
      BY <1>5, <2>3
    <3>2. QED
      BY <1>5, <2>2, <3>1 DEF WaitFor
  <2>6. WaitFor(Top.node)' /\ AllSettled(nodes \ {Top.node})' /\ Count(Top.node)' # 0
    <3>1. WaitFor(Top.node)'
      BY <2>2, <2>4, <2>5 DEF WaitFor
    <3>2. AllSettled(nodes \ {Top.node})'
      BY <1>12, <2>2, <2>4 DEF AllSettled
    <3>3. Count(Top.node)' # 0
      BY <1>5, <1>8, <2>2, <2>4 DEF Count
    <3>4. QED
      BY <3>1, <3>2, <3>3
  <2>7. QED
    BY <2>2, <2>4, <2>6 DEF Phases, Growing
<1>14. QED
  BY <1>10, <1>13

\* merge_empty: the last bucket of the trie goes.
LEMMA MergeEmptyShape ==
  ASSUME TreeInv, TypeOK', ShapeInv, MergeEmpty PROVE Leads' /\ Phases'
<1>1. PICK n, f : n = Top.node /\ f = node[n].parent
  OBVIOUS
<1>2. /\ Running("merge_down") /\ node[n].prefix = <<>> /\ node[n].items = <<>>
      /\ fwd' = [fwd EXCEPT ![f].children = Swap(f, n, f)]
      /\ node' = [node EXCEPT ![n] = DeadNode] /\ nodes' = nodes \ {n} /\ fwds' = fwds
      /\ \E size, p : Become(Frame("climb", Null, f, size, p))
  BY <1>1 DEF MergeEmpty, Merging
<1>3. /\ n \in nodes /\ n \in NodeIds /\ nodes \subseteq NodeIds /\ stack # <<>> /\ Leads
  BY <1>1, <1>2, MergeShape
<1>4. AllSettled(nodes \ {n}) /\ Len(stack) = 1 /\ Removable(n)
  BY <1>1, <1>2, EmptyShape
<1>5. f = Root /\ fwd \in [FwdIds -> Fwd] /\ fwds \subseteq FwdIds
      /\ \A e \in FwdIds \ {f} : fwd'[e] = fwd[e]
  BY <1>1, <1>2, <1>4, Addresses DEF TreeInv, Removable
<1>6. Leads'
  BY <1>2, <1>3, <1>5 DEF Leads
<1>7. ASSUME NEW m \in nodes \ {n} PROVE Kept(m)
  <2>1. node'[m] = node[m] /\ m \in NodeIds /\ node[m].parent \in FwdIds
    BY <1>2, <1>3, Addresses DEF TreeInv
  <2>2. node[m].parent # f
    <3>1. node[m].prefix \in SlotPrefixes
      BY <2>1, Addresses DEF TreeInv
    <3>2. Pad(node[m].prefix) \in Slots /\ Covers(node[m].prefix, Pad(node[m].prefix))
      BY <3>1, PadCovered
    <3>3. Covers(node[n].prefix, Pad(node[m].prefix))
      BY <1>2, <3>2, EmptyRange
    <3>4. QED
      BY <1>1, <1>3, <3>2, <3>3, Disjoint
  <2>3. QED
    BY <1>5, <2>1, <2>2 DEF Kept, Alone
<1>8. AllSettled(nodes)'
  BY <1>2, <1>4, <1>7, KeptSettle, SettledNext
<1>9. Phases'
  <2>1. PICK size, p : Become(Frame("climb", Null, f, size, p))
    BY <1>2
  <2> DEFINE frame == Frame("climb", Null, f, size, p)
  <2>2. frame.fn = "climb" /\ frame.fwd = f /\ stack' = <<frame>> \o Tail(stack)
    BY <2>1 DEF Frame, Become
  <2> HIDE DEF frame
  <2>3. stack \in Seq(Frames)
    BY DEF TreeInv, TypeOK
  <2>4. stack' # <<>> /\ Len(stack') = 1 /\ Top' = frame
    BY <1>3, <1>4, <2>2, <2>3 DEF Top
  <2>5. QED
    BY <1>5, <1>8, <2>2, <2>4 DEF Phases
<1>10. QED
  BY <1>6, <1>9

\* The loop of merge_empty has nothing to do.
LEMMA ClimbShape ==
  ASSUME TreeInv, ShapeInv, Climb PROVE Leads' /\ Phases'
<1>1. Top.fwd = Root /\ stack # <<>> /\ Len(stack) = 1 /\ AllSettled(nodes) /\ Leads
  BY DEF Climb, Running, ShapeInv, Phases
<1>2. UNCHANGED <<fwds, fwd, nodes, node>> /\ Return
  BY <1>1 DEF Climb
<1>3. WillSettle(nodes') /\ Leads'
  BY <1>1, <1>2, SameKept, KeptSettle DEF Leads
<1>4. QED
  BY <1>1, <1>2, <1>3, ReturnPhases

\* Slots of a forwarding node become those of a bucket that is not among these.
LEMMA FillShape ==
  ASSUME TreeInv, Leads, NEW f \in fwds, fwds' = fwds, NEW q \in SlotPrefixes,
         NEW c \in NodeIds, fwd' = [fwd EXCEPT ![f].children = Put(f, q, c)],
         NEW S, S \subseteq nodes, AllSettled(S), \A m \in S : node'[m] = node[m] /\ m # c
  PROVE  Leads' /\ WillSettle(S)
<1>1. c # f /\ f \in FwdIds /\ fwd \in [FwdIds -> Fwd]
  BY Addresses DEF TreeInv
<1>2. Pad(q) \in Slots /\ Covers(q, Pad(q))
  BY PadCovered
<1>3. fwd'[f].children[Pad(q)] = c
  <2>1. fwd'[f].children = Put(f, q, c)
    BY <1>1 DEF Fwd
  <2>2. QED
    BY <1>2, <2>1 DEF Put
<1>4. Leads' /\ \A m \in nodes : node'[m] = node[m] => PutAt(f, q, c, m)
  BY <1>1, <1>2, <1>3, LeadsPut DEF TreeInv
<1>5. \A m \in S : Kept(m)
  BY <1>1, <1>4, FillKept
<1>6. QED
  BY <1>4, <1>5, KeptSettle

\* An empty bucket that is not alone and has no buddy goes, and no bucket becomes alone.
LEMMA RemoveShape ==
  ASSUME TreeInv, ShapeInv, Running("merge_down"), NEW n, n = Top.node, node[n].items = <<>>,
         node[n].prefix # <<>>, \A c \in nodes : ~ Buddies(n, c),
         Delete(n, node[n].parent), fwds' = fwds, node' = [node EXCEPT ![n] = DeadNode], Return
  PROVE  Leads' /\ Phases'
<1>1. PICK f, q : f = node[n].parent /\ q = node[n].prefix
  OBVIOUS
<1>2. /\ n \in nodes /\ n \in NodeIds /\ nodes \subseteq NodeIds /\ stack # <<>> /\ Leads
  BY MergeShape
<1>3. AllSettled(nodes \ {n}) /\ Len(stack) = 1 /\ ~ Alone(n)
  BY EmptyShape DEF Removable
<1>4. /\ f \in fwds /\ f \in FwdIds /\ q \in SlotPrefixes /\ fwd \in [FwdIds -> Fwd] /\ f # n
      /\ fwd' = [fwd EXCEPT ![f].children = Put(f, q, f)] /\ nodes' = nodes \ {n}
  BY <1>1, <1>2, ParentAlive, Addresses DEF TreeInv, Delete
<1>5. PICK t \in Slots : Covers(Front(q), t) /\ fwd[f].children[t] \notin {f, n}
  BY <1>1, <1>3 DEF Alone
<1>6. /\ Front(q) \in SlotPrefixes /\ Len(Front(q)) = Len(q) - 1 /\ Buddy(q) \in SlotPrefixes
      /\ Len(Buddy(q)) = Len(q) /\ Len(q) \in Nat
      /\ \A s \in Slots : /\ Covers(Front(q), s) <=> Covers(q, s) \/ Covers(Buddy(q), s)
  BY SMTT(60), <1>1, <1>4, BuddyRange, PrefixFacts
<1>7. ~ Covers(q, t) /\ Covers(Buddy(q), t) /\ fwd'[f].children[t] = fwd[f].children[t]
  <2>1. ~ Covers(q, t)
    BY <1>1, <1>2, <1>5, RangeOf
  <2>2. fwd'[f].children = Put(f, q, f)
    BY <1>4 DEF Fwd
  <2>3. fwd'[f].children[t] = fwd[f].children[t]
    BY <2>1, <2>2 DEF Put
  <2>4. QED
    BY <1>5, <1>6, <2>1, <2>3
<1>8. Leads' /\ \A m \in nodes : node'[m] = node[m] => PutAt(f, q, f, m)
  BY <1>2, <1>4, <1>5, <1>7, LeadsPut DEF TreeInv
<1>9. ASSUME NEW m \in nodes \ {n} PROVE Kept(m)
  <2>1. node'[m] = node[m] /\ m \in NodeIds
    BY <1>2, Addresses DEF TreeInv
  <2>2. ASSUME NEW s \in Slots, node[m].parent = f, node[m].prefix # <<>>,
               Covers(q, s), Covers(Front(node[m].prefix), s)
        PROVE  Covers(Front(node[m].prefix), t) /\ fwd'[f].children[t] \notin {f, m}
    <3>1. PICK r : r = node[m].prefix
      OBVIOUS
    <3>2. r \in SlotPrefixes /\ Len(r) \in Nat /\ Front(r) \in SlotPrefixes
          /\ Len(Front(r)) = Len(r) - 1
          /\ \A u \in Slots : Covers(r, u) => Covers(Front(r), u)
      BY <2>1, <2>2, <3>1, Addresses, BuddyRange, PrefixFacts DEF TreeInv
    <3>3. Len(q) >= Len(r) /\ Covers(Front(r), t)
      BY <1>1, <1>2, <1>5, <2>2, <3>1, FrontMeets
    <3>4. fwd[f].children[t] # m
      <4> SUFFICES ASSUME Covers(r, t) PROVE FALSE
        BY <2>2, <3>1, OwnRange
      <4>1. CASE Len(r) = Len(q)
        <5>1. r = Buddy(q)
          BY <1>6, <1>7, <3>2, <4>1, SameRange
        <5>2. QED
          BY <1>1, <2>2, <3>1, <5>1 DEF Buddies
      <4>2. CASE Len(r) # Len(q)
        <5>1. Len(r) <= Len(Front(q))
          BY <1>6, <3>2, <3>3, <4>2
        <5>2. Covers(Front(q), s)
          BY <1>6, <2>2
        <5>3. Covers(r, s)
          BY <1>5, <1>6, <3>2, <5>1, <5>2, Nested
        <5>4. QED
          BY <1>1, <1>2, <2>2, <3>1, <5>3, Disjoint
      <4>3. QED
        BY <4>1, <4>2
    <3>5. QED
      BY <1>5, <1>7, <3>1, <3>3, <3>4
  <2>3. PutAt(f, q, f, m)
    BY <1>8, <2>1
  <2>4. QED
    BY <2>2, <2>3, PutKept
<1>10. WillSettle(nodes')
  BY <1>3, <1>4, <1>9, KeptSettle
<1>11. QED
  BY <1>2, <1>3, <1>8, <1>10, ReturnPhases

\* merge_regular next to buckets that are finer than the one it is about.
LEMMA MergeFinerShape ==
  ASSUME TreeInv, ShapeInv, MergeFiner PROVE Leads' /\ Phases'
<1>1. PICK n, c : n = Top.node /\ c = BuddyOf(n)
  OBVIOUS
<1>2. /\ Running("merge_down") /\ Count(n) <= MergeBound /\ node[n].prefix # <<>>
      /\ c \in NodeIds /\ Len(node[c].prefix) # Len(node[n].prefix) /\ fwds' = fwds
      /\ \/ /\ node[n].items = <<>> /\ Delete(n, node[n].parent)
            /\ node' = [node EXCEPT ![n] = DeadNode] /\ Return
         \/ /\ node[n].items # <<>> /\ (MergeDown(c) \/ Return)
            /\ UNCHANGED <<fwd, nodes, node>>
  BY <1>1 DEF MergeFiner, MergingRegular, Merging, Count
<1>3. /\ n \in nodes /\ n \in NodeIds /\ nodes \subseteq NodeIds /\ stack # <<>> /\ Leads
      /\ Count(n) \in Nat /\ (Count(n) = 0 <=> node[n].items = <<>>)
  BY <1>1, <1>2, MergeShape
<1>4. c \in nodes /\ Len(node[c].prefix) > Len(node[n].prefix)
  <2>1. c \in nodes /\ Len(node[c].prefix) >= Len(node[n].prefix)
    BY <1>1, <1>2, <1>3, BuddyBucket
  <2>2. Len(node[c].prefix) \in Nat /\ Len(node[n].prefix) \in Nat
    BY <1>2, <1>3, Addresses, PrefixFacts DEF TreeInv
  <2>3. QED
    BY <1>2, <2>1, <2>2
<1>5. \A d \in nodes : ~ Buddies(n, d)
  BY <1>1, <1>2, <1>3, BuddyIs
<1>6. CASE /\ node[n].items = <<>> /\ Delete(n, node[n].parent)
           /\ node' = [node EXCEPT ![n] = DeadNode] /\ Return
  BY <1>1, <1>2, <1>5, <1>6, RemoveShape
<1>7. CASE /\ node[n].items # <<>> /\ (MergeDown(c) \/ Return)
           /\ UNCHANGED <<fwd, nodes, node>>
  <2>1. Settled(n)
    <3>1. ~ Alone(n)
      BY <1>1, <1>2, <1>3, NotAlone
    <3>2. Count(n) > 0
      BY <1>3, <1>7
    <3>3. QED
      BY <1>2, <3>1, <3>2 DEF Settled
  <2>2. CASE Return
    BY <1>1, <1>2, <1>5, <1>7, <2>1, <2>2, StopShape
  <2>3. CASE MergeDown(c)
    <3>1. PICK m \in nodes : /\ WaitFor(m)
                             /\ n = m \/ Len(node[n].prefix) > Len(node[m].prefix)
      <4>1. /\ AllSettled(nodes \ {n}) /\ WaitFor(n)
            \/ \E m \in nodes : /\ WaitFor(m)
                                /\ \/ n = m
                                   \/ Len(node[n].prefix) > Len(node[m].prefix)
                                   \/ Count(n) > MergeBound
        BY <1>1, <1>2, MergeShape
      <4>2. ~ (Count(n) > MergeBound)
        BY <1>2, <1>3, Bounds
      <4>3. QED
        BY <1>3, <4>1, <4>2
    <3>2. AllSettled(nodes)
      <4>1. AllSettled(nodes \ {n}) \/ AllSettled(nodes)
        BY <1>1, <1>2, MergeShape
      <4>2. QED
        BY <1>3, <1>5, <2>1, <4>1, GrownSettled
    <3>3. WillSettle(nodes') /\ Leads'
      BY <1>2, <1>3, <1>7, <3>2, SameKept, KeptSettle DEF Leads
    <3>4. Len(node'[c].prefix) > Len(node'[m].prefix)
      <4>1. /\ Len(node[c].prefix) \in Nat /\ Len(node[n].prefix) \in Nat
            /\ Len(node[m].prefix) \in Nat
        BY <1>3, <1>4, Addresses, PrefixFacts DEF TreeInv
      <4>2. QED
        BY <1>4, <1>7, <3>1, <4>1
    <3>5. c \in nodes' /\ m \in nodes'
      BY <1>4, <1>7
    <3>6. Phases'
      BY <1>3, <2>3, <3>1, <3>3, <3>4, <3>5, MergePhases
    <3>7. QED
      BY <3>3, <3>6
  <2>4. QED
    BY <1>7, <2>2, <2>3
<1>8. QED
  BY <1>2, <1>6, <1>7

\* merge_regular next to a bucket of the same size.
LEMMA MergeBuddyShape ==
  ASSUME TreeInv, TypeOK', ShapeInv, MergeBuddy PROVE Leads' /\ Phases'
<1>1. PICK n, c, f : n = Top.node /\ c = BuddyOf(n) /\ f = node[n].parent
  OBVIOUS
<1>2. PICK q, r, xs, ys : /\ q = node[n].prefix /\ xs = node[n].items
                          /\ r = node[c].prefix /\ ys = node[c].items
  OBVIOUS
<1>3. PICK both : both = Joined(q, xs, ys)
  OBVIOUS
<1>4. /\ Running("merge_down") /\ Count(n) <= MergeBound /\ q # <<>> /\ c \in NodeIds
      /\ Len(r) = Len(q) /\ fwds' = fwds
      /\ \/ /\ xs = <<>> /\ Delete(n, c) /\ MergeDown(c)
            /\ node' = [node EXCEPT ![n] = DeadNode, ![c].prefix = Front(r)]
         \/ /\ xs # <<>> /\ Len(xs) + Len(ys) >= SPLITBOUND /\ Return
            /\ UNCHANGED <<fwd, nodes, node>>
         \/ /\ xs # <<>> /\ Delete(c, n) /\ MergeDown(n)
            /\ node' = [node EXCEPT ![n].items = both, ![n].prefix = Front(@), ![c] = DeadNode]
  BY <1>1, <1>2, <1>3 DEF MergeBuddy, MergingRegular, Merging, Count
<1>5. /\ n \in nodes /\ n \in NodeIds /\ nodes \subseteq NodeIds /\ stack # <<>> /\ Leads
      /\ Count(n) \in Nat /\ (Count(n) = 0 <=> xs = <<>>) /\ node \in [NodeIds -> Node]
  BY <1>1, <1>2, <1>4, MergeShape, Addresses DEF TreeInv
<1>6. /\ c \in nodes /\ c # n /\ node[c].parent = f /\ r = Buddy(q)
      /\ f \in fwds /\ q \in SlotPrefixes /\ r \in SlotPrefixes /\ f # c /\ f # n
  BY <1>1, <1>2, <1>4, <1>5, BuddyBucket, ParentAlive, Addresses DEF TreeInv
<1>7. /\ Buddies(n, c) /\ \A d \in nodes : Buddies(n, d) => d = c
  BY <1>1, <1>2, <1>4, <1>5, <1>6, BuddyIs DEF Buddies
<1>8. /\ Count(n) = Len(xs) /\ Count(c) = Len(ys) /\ Count(c) \in Nat
      /\ xs \in Seq(Items) /\ ys \in Seq(Items)
  BY <1>2, <1>4, <1>5, CountType, Addresses DEF Count, TreeInv
<1>9. CASE /\ xs = <<>> /\ Delete(n, c) /\ MergeDown(c)
           /\ node' = [node EXCEPT ![n] = DeadNode, ![c].prefix = Front(r)]
  <2>1. AllSettled(nodes \ {n}) /\ Len(stack) = 1 /\ Count(c) >= MergeBound
    BY <1>1, <1>2, <1>4, <1>6, <1>7, <1>9, EmptyShape DEF Removable
  <2>2. /\ Count(c)' = Count(c) /\ \A m \in NodeIds \ {n, c} : node'[m] = node[m]
    <3>1. node'[c].items = node[c].items /\ \A m \in NodeIds \ {n, c} : node'[m] = node[m]
      BY <1>4, <1>5, <1>6, <1>9 DEF Node
    <3>2. QED
      BY <3>1 DEF Count
  <2>3. nodes' = nodes \ {n} /\ fwd' = [fwd EXCEPT ![f].children = Put(f, q, c)]
    BY <1>1, <1>2, <1>9 DEF Delete
  <2>4. Leads' /\ WillSettle(nodes \ {n, c})
    <3>1. AllSettled(nodes \ {n, c})
      BY <2>1, SettleLess
    <3>2. \A m \in nodes \ {n, c} : node'[m] = node[m] /\ m # c
      BY <1>5, <2>2
    <3>3. QED
      BY <1>4, <1>5, <1>6, <2>3, <3>1, <3>2, FillShape
  <2>5. nodes' \ {c} = nodes \ {n, c} /\ c \in nodes'
    BY <1>6, <2>3
  <2>6. WaitFor(c)
    <3>1. stack \in Seq(Frames)
      BY DEF TreeInv, TypeOK
    <3>2. QED
      BY <2>1, <3>1 DEF WaitFor
  <2>7. Count(c)' > 0
    BY <1>8, <2>1, <2>2, Bounds
  <2>8. Phases'
    BY <1>5, <1>9, <2>4, <2>5, <2>6, <2>7, MergePhases
  <2>9. QED
    BY <2>4, <2>8
<1>10. CASE /\ xs # <<>> /\ Len(xs) + Len(ys) >= SPLITBOUND /\ Return
            /\ UNCHANGED <<fwd, nodes, node>>
  <2>1. Settled(n)
    <3>1. ~ Alone(n)
      BY <1>1, <1>2, <1>4, <1>5, NotAlone
    <3>2. QED
      BY <1>2, <1>4, <1>5, <1>10, <3>1 DEF Settled
  <2>2. Count(n) + Count(c) > MergeBound
    <3>1. Full(Len(xs) + Len(ys))
      BY <1>10 DEF Full
    <3>2. QED
      BY <1>5, <1>8, <3>1, Bounds
  <2>3. \A d \in nodes : Buddies(n, d) => Count(n) + Count(d) > MergeBound
    BY <1>7, <2>2
  <2>4. QED
    BY <1>1, <1>4, <1>10, <2>1, <2>3, StopShape
<1>11. CASE /\ xs # <<>> /\ Delete(c, n) /\ MergeDown(n)
            /\ node' = [node EXCEPT ![n].items = both, ![n].prefix = Front(@), ![c] = DeadNode]
  <2>1. Count(n)' = Count(n) + Count(c) /\ \A m \in NodeIds \ {n, c} : node'[m] = node[m]
    <3>1. node'[n].items = both /\ \A m \in NodeIds \ {n, c} : node'[m] = node[m]
      BY <1>4, <1>5, <1>6, <1>11 DEF Node
    <3>2. Len(both) = Len(xs) + Len(ys)
      BY <1>3, <1>8 DEF Joined
    <3>3. QED
      BY <1>8, <3>1, <3>2 DEF Count
  <2>2. nodes' = nodes \ {c} /\ fwd' = [fwd EXCEPT ![f].children = Put(f, r, n)]
    BY <1>2, <1>6, <1>11 DEF Delete
  <2>3. AllSettled(nodes \ {n, c})
    <3>1. AllSettled(nodes \ {n}) \/ AllSettled(nodes)
      BY <1>1, <1>4, MergeShape
    <3>2. QED
      BY <3>1, SettleLess
  <2>4. Leads' /\ WillSettle(nodes \ {n, c})
    <3>1. \A m \in nodes \ {n, c} : node'[m] = node[m] /\ m # n
      BY <1>5, <2>1
    <3>2. QED
      BY <1>4, <1>5, <1>6, <2>2, <2>3, <3>1, FillShape
  <2>5. nodes' \ {n} = nodes \ {n, c} /\ n \in nodes' /\ Count(n)' > 0
    BY <1>5, <1>6, <1>8, <1>11, <2>1, <2>2
  <2>6. CASE WaitFor(n)
    BY <1>5, <1>11, <2>4, <2>5, <2>6, MergePhases
  <2>7. ASSUME AllSettled(nodes), NEW m \in nodes, WaitFor(m),
               n = m \/ Len(node[n].prefix) > Len(node[m].prefix)
        PROVE  Phases'
    <3>1. Count(n)' > MergeBound
      BY <1>5, <1>6, <1>7, <2>1, <2>7 DEF AllSettled
    <3>2. WillSettle(nodes')
      <4>1. WillSettle((nodes \ {n, c}) \cup {n})
        BY <1>5, <2>4, <3>1, LargeSettled
      <4>2. (nodes \ {n, c}) \cup {n} = nodes'
        BY <1>5, <1>6, <2>2
      <4>3. QED
        BY <4>1, <4>2
    <3>3. m \in nodes'
      <4>1. m # c
        <5>1. Len(node[c].prefix) = Len(node[n].prefix) /\ Len(node[n].prefix) \in Nat
          BY <1>2, <1>4, <1>6, PrefixFacts
        <5>2. ~ (Len(node[n].prefix) > Len(node[c].prefix))
          BY <5>1
        <5>3. QED
          BY <1>6, <2>7, <5>2
      <4>2. QED
        BY <2>2, <4>1
    <3>4. QED
      BY <1>5, <1>11, <2>5, <2>7, <3>1, <3>2, <3>3, MergePhases
  <2>8. WaitFor(n) \/ /\ AllSettled(nodes)
                      /\ \E m \in nodes : /\ WaitFor(m)
                                          /\ n = m \/ Len(node[n].prefix) > Len(node[m].prefix)
    <3>1. ~ (Count(n) > MergeBound)
      BY <1>4, <1>5, Bounds
    <3>2. QED
      BY <1>1, <1>4, <3>1, MergeShape
  <2>9. QED
    BY <2>4, <2>6, <2>7, <2>8
<1>12. QED
  BY <1>4, <1>9, <1>10, <1>11

\* merge_regular next to a forwarding node, or to empty slots.
LEMMA MergeFwdShape ==
  ASSUME TreeInv, ShapeInv, MergeFwd PROVE Leads' /\ Phases'
<1>1. PICK n, f, q : n = Top.node /\ f = node[n].parent /\ q = node[n].prefix
  OBVIOUS
<1>2. /\ Running("merge_down") /\ Count(n) <= MergeBound /\ q # <<>>
      /\ BuddyOf(n) \in FwdIds /\ fwds' = fwds
      /\ \/ /\ node[n].items = <<>> /\ Delete(n, node[n].parent)
            /\ node' = [node EXCEPT ![n] = DeadNode] /\ Return
         \/ /\ node[n].items # <<>> /\ ~ CanGrow(n, Front(q)) /\ Return
            /\ UNCHANGED <<fwd, nodes, node>>
         \/ /\ node[n].items # <<>> /\ CanGrow(n, Front(q)) /\ MergeDown(n)
            /\ fwd' = [fwd EXCEPT ![f].children = Put(f, Front(q), n)]
            /\ node' = [node EXCEPT ![n].prefix = Front(q)] /\ UNCHANGED nodes
  BY <1>1 DEF MergeFwd, MergingRegular, Merging, Count
<1>3. /\ n \in nodes /\ n \in NodeIds /\ nodes \subseteq NodeIds /\ stack # <<>> /\ Leads
      /\ Count(n) \in Nat /\ (Count(n) = 0 <=> node[n].items = <<>>)
      /\ (AllSettled(nodes \ {n}) /\ WaitFor(n)) \/ AllSettled(nodes)
  BY <1>1, <1>2, MergeShape
<1>4. /\ f \in fwds /\ q \in SlotPrefixes /\ Front(q) \in SlotPrefixes
      /\ node \in [NodeIds -> Node] /\ \A m \in NodeIds : m \notin FwdIds
  BY <1>1, <1>2, <1>3, ParentAlive, BuddyRange, Addresses DEF TreeInv
<1>5. \A d \in nodes : ~ Buddies(n, d)
  BY <1>2, <1>3, <1>4, BuddyIs
<1>6. CanGrow(n, Front(q)) <=> Alone(n)
  <2>1. CanGrow(n, Front(q)) => Alone(n)
    BY <1>1 DEF CanGrow, Alone
  <2>2. ASSUME Alone(n) PROVE BuddyOf(n) = f
    <3>1. /\ Pad(Buddy(q)) \in Slots /\ Covers(Front(q), Pad(Buddy(q)))
      BY <1>1, <1>2, <1>3, FrontRange
    <3>2. BuddyOf(n) \in {f, n}
      BY <1>1, <2>2, <3>1 DEF Alone, BuddyOf
    <3>3. QED
      BY <1>2, <1>3, <1>4, <3>2
  <2>3. QED
    BY <1>1, <2>1, <2>2 DEF CanGrow, Alone
<1>7. CASE /\ node[n].items = <<>> /\ Delete(n, node[n].parent)
           /\ node' = [node EXCEPT ![n] = DeadNode] /\ Return
  BY <1>1, <1>2, <1>5, <1>7, RemoveShape
<1>8. CASE /\ node[n].items # <<>> /\ ~ CanGrow(n, Front(q)) /\ Return
           /\ UNCHANGED <<fwd, nodes, node>>
  <2>1. Settled(n)
    BY <1>1, <1>2, <1>3, <1>6, <1>8 DEF Settled
  <2>2. QED
    BY <1>1, <1>2, <1>5, <1>8, <2>1, StopShape
<1>9. CASE /\ node[n].items # <<>> /\ CanGrow(n, Front(q)) /\ MergeDown(n)
           /\ fwd' = [fwd EXCEPT ![f].children = Put(f, Front(q), n)]
           /\ node' = [node EXCEPT ![n].prefix = Front(q)] /\ UNCHANGED nodes
  <2>1. AllSettled(nodes \ {n}) /\ WaitFor(n)
    <3>1. ~ (Count(n) > MergeBound)
      BY <1>2, <1>3, Bounds
    <3>2. ~ Settled(n)
      BY <1>1, <1>2, <1>6, <1>9, <3>1 DEF Settled
    <3>3. QED
      BY <1>3, <3>2 DEF AllSettled
  <2>2. Count(n)' = Count(n) /\ \A m \in NodeIds \ {n} : node'[m] = node[m]
    <3>1. node'[n].items = node[n].items /\ \A m \in NodeIds \ {n} : node'[m] = node[m]
      BY <1>3, <1>4, <1>9 DEF Node
    <3>2. QED
      BY <3>1 DEF Count
  <2>3. Leads' /\ WillSettle(nodes \ {n})
    <3>1. \A m \in nodes \ {n} : node'[m] = node[m] /\ m # n
      BY <1>3, <2>2
    <3>2. QED
      BY <1>2, <1>3, <1>4, <1>9, <2>1, <3>1, FillShape
  <2>4. Phases'
    BY <1>3, <1>9, <2>1, <2>2, <2>3, MergePhases
  <2>5. QED
    BY <2>3, <2>4
<1>10. QED
  BY <1>2, <1>7, <1>8, <1>9

-----------------------------------------------------------------------------
(* The theorems *)

\* A step that changes nothing.
LEMMA StutterShape ==
  ASSUME ShapeInv, UNCHANGED vars PROVE Leads' /\ Phases'
BY ZenonT(60) DEF vars, ShapeInv, Leads, Phases, Top, AllSettled, Settled, Count, Alone, Buddies, Growing,
       Finishing, WaitFor, Removable, Full

\* Every step keeps the shape of the trie.
LEMMA NextShape ==
  ASSUME TreeInv, ShapeInv, [Next]_vars PROVE ShapeInv'
<1>1. TypeOK'
  BY NextType DEF TreeInv
<1>2. Leads' /\ Phases'
  <2>1. ASSUME NEW k \in Keys, InsertInNewBucket(k) PROVE Leads' /\ Phases'
    BY <2>1, InsertInNewBucketShape
  <2>2. ASSUME NEW k \in Keys, InsertInBucket(k) PROVE Leads' /\ Phases'
    BY <1>1, <2>2, InsertInBucketShape
  <2>3. ASSUME NEW k \in Keys, Erase(k) PROVE Leads' /\ Phases'
    BY <1>1, <2>3, EraseShape
  <2>4. ASSUME NEW k \in Keys, LookUp(k) PROVE Leads' /\ Phases'
    BY <2>4, LookUpShape
  <2>5. CASE Destroy
    BY <2>5, DestroyShape
  <2>6. CASE SplitNode
    BY <1>1, <2>6, SplitNodeShape
  <2>7. CASE SplitExhausted
    BY <2>7, SplitExhaustedShape
  <2>8. CASE SplitFwd
    BY <1>1, <2>8, SplitFwdShape
  <2>9. CASE MergeDownStop
    BY <2>9, MergeDownStopShape
  <2>10. CASE ReaddByte
    BY <1>1, <2>10, ReaddByteShape
  <2>11. CASE AfterReadd
    BY <2>11, AfterReaddShape
  <2>12. CASE MergeEmpty
    BY <1>1, <2>12, MergeEmptyShape
  <2>13. CASE Climb
    BY <2>13, ClimbShape
  <2>14. CASE MergeFiner
    BY <2>14, MergeFinerShape
  <2>15. CASE MergeBuddy
    BY <1>1, <2>15, MergeBuddyShape
  <2>16. CASE MergeFwd
    BY <2>16, MergeFwdShape
  <2>17. CASE UNCHANGED vars
    BY <2>17, StutterShape
  <2>18. QED
    BY <2>1, <2>2, <2>3, <2>4, <2>5, <2>6, <2>7, <2>8, <2>9, <2>10, <2>11, <2>12, <2>13,
       <2>14, <2>15, <2>16, <2>17 DEF Next, Continue
<1>3. QED
  BY <1>2 DEF ShapeInv

\* Whatever the order of the operations, all buckets are settled but the one that the
\* merge in progress is about (merge_down, merge_regular, split_node, insert).
THEOREM ShapeHolds == Spec => []ShapeInv
<1>1. Init => ShapeInv
  <2> SUFFICES ASSUME Init PROVE ShapeInv
    OBVIOUS
  <2>1. fwds = {Root} /\ nodes = {} /\ stack = <<>>
    BY DEF Init
  <2>2. QED
    BY <2>1 DEF ShapeInv, Leads, Phases, AllSettled
<1>2. TreeInv /\ ShapeInv /\ [Next]_vars => ShapeInv'
  BY NextShape
<1>3. QED
  BY <1>1, <1>2, TreeHolds, PTL DEF Spec

\* No forwarding node is left without children by the merges (merge_empty, readd_byte).
THEOREM ForwardingNodesLead == Spec => []NoBarrenFwd
<1>1. ShapeInv => NoBarrenFwd
  BY DEF ShapeInv, Leads, NoBarrenFwd
<1>2. QED
  BY <1>1, ShapeHolds, PTL

\* The loop of merge_empty never has a forwarding node to remove.
THEOREM LastBucketBelowRoot == Spec => []MergeEmptyAtRoot
<1>1. ShapeInv => MergeEmptyAtRoot
  BY DEF ShapeInv, Phases, MergeEmptyAtRoot
<1>2. QED
  BY <1>1, ShapeHolds, PTL

-----------------------------------------------------------------------------
(* The path to a forwarding node *)

\* The function of which PathTo gives the values.
PathFn(F) ==
  CHOOSE path : path = [g \in FwdIds |-> IF g = Root THEN <<>>
                                         ELSE Append(path[F[g].parent], F[g].path)]

\* The paths to the forwarding nodes, F being what they hold.
Paths(F, path) ==
  /\ path \in [FwdIds -> Seq(Slots)] /\ path[Root] = <<>>
  /\ \A f \in FwdIds \ {Root} : /\ F[f].parent \in FwdIds /\ F[f].path \in Slots
                                /\ path[f] = Append(path[F[f].parent], F[f].path)

\* Paths that extend each other are the ones that the recursive definition gives.
LEMMA PathsUnique ==
  ASSUME NEW F, NEW path, Paths(F, path)
  PROVE  \A f \in FwdIds : PathFn(F)[f] = path[f]
<1> DEFINE Step(w) == [g \in FwdIds |-> IF g = Root THEN <<>>
                                        ELSE Append(w[F[g].parent], F[g].path)]
           w == PathFn(F)
<1>1. /\ path \in [FwdIds -> Seq(Slots)] /\ path[Root] = <<>>
      /\ \A f \in FwdIds \ {Root} : /\ F[f].parent \in FwdIds /\ F[f].path \in Slots
                                    /\ path[f] = Append(path[F[f].parent], F[f].path)
  BY DEF Paths
<1>2. path = Step(path)
  <2>1. \A f \in FwdIds : path[f] = Step(path)[f]
    BY <1>1
  <2>2. QED
    BY <1>1, <2>1
<1>3. w = Step(w)
  BY <1>2 DEF PathFn
<1>4. \A f \in FwdIds : w[f] = IF f = Root THEN <<>> ELSE Append(w[F[f].parent], F[f].path)
  BY <1>3
<1> HIDE DEF w
<1> DEFINE T == {Len(path[f]) : f \in {g \in FwdIds : w[g] # path[g]}}
<1>5. SUFFICES ASSUME T # {} PROVE FALSE
  BY DEF w
<1>6. T \subseteq Nat
  BY <1>1
<1>7. PICK x \in T : \A y \in T : x <= y
  <2> HIDE DEF T
  <2>1. QED
    BY <1>5, <1>6, Least
<1>8. PICK f \in FwdIds : w[f] # path[f] /\ Len(path[f]) = x
  BY <1>7
<1>9. f # Root
  BY <1>1, <1>4, <1>8
<1>10. PICK up \in FwdIds : up = F[f].parent /\ path[f] = Append(path[up], F[f].path)
  BY <1>1, <1>9
<1>11. Len(path[up]) \in Nat /\ Len(path[f]) = Len(path[up]) + 1
  BY <1>1, <1>9, <1>10
<1>12. w[up] = path[up]
  <2>1. SUFFICES ASSUME w[up] # path[up] PROVE FALSE
    OBVIOUS
  <2>2. Len(path[up]) \in T
    BY <2>1
  <2>3. QED
    BY <1>7, <1>8, <1>11, <2>2
<1>13. QED
  BY <1>4, <1>8, <1>9, <1>10, <1>12

\* So the path to a forwarding node is the one that they spell.
LEMMA PathIs ==
  ASSUME NEW path, Paths(fwd, path), NEW f \in FwdIds
  PROVE  PathTo(f) = path[f]
<1>1. PathTo(f) = PathFn(fwd)[f]
  BY DEF PathTo, PathFn
<1>2. QED
  BY <1>1, PathsUnique

\* The same, after a step.
LEMMA PathNext ==
  ASSUME NEW path, Paths(fwd', path), NEW f \in FwdIds
  PROVE  PathTo(f)' = path[f]
<1>1. PathTo(f)' = PathFn(fwd')[f]
  BY DEF PathTo, PathFn
<1>2. QED
  BY <1>1, PathsUnique

\* The forwarding nodes have paths, and there is a longest one.
PathInv ==
  \E path : /\ Paths(fwd, path)
            /\ \E bound \in Nat : \A f \in FwdIds : Len(path[f]) <= bound

\* What the invariant says of the paths.
LEMMA PathFacts ==
  ASSUME PathInv
  PROVE  /\ PathTo(Root) = <<>>
         /\ \A f \in FwdIds : PathTo(f) \in Seq(Slots) /\ Level(f) \in Nat
         /\ \A f \in FwdIds \ {Root} : /\ fwd[f].parent \in FwdIds /\ fwd[f].path \in Slots
                                       /\ PathTo(f) = Append(PathTo(fwd[f].parent), fwd[f].path)
                                       /\ Level(f) = Level(fwd[f].parent) + 1
         /\ \E bound \in Nat : \A f \in FwdIds : Level(f) <= bound
<1>1. PICK path : /\ Paths(fwd, path)
                  /\ \E bound \in Nat : \A f \in FwdIds : Len(path[f]) <= bound
  BY DEF PathInv
<1>2. \A f \in FwdIds : PathTo(f) = path[f]
  BY <1>1, PathIs
<1>3. /\ path \in [FwdIds -> Seq(Slots)] /\ path[Root] = <<>>
      /\ \A f \in FwdIds \ {Root} : /\ fwd[f].parent \in FwdIds /\ fwd[f].path \in Slots
                                    /\ path[f] = Append(path[fwd[f].parent], fwd[f].path)
  BY <1>1 DEF Paths
<1>4. Root \in FwdIds
  BY PTrieAssumption
<1>5. ASSUME NEW f \in FwdIds \ {Root}
      PROVE  /\ PathTo(f) = Append(PathTo(fwd[f].parent), fwd[f].path)
             /\ Level(f) = Level(fwd[f].parent) + 1
  <2>1. PICK up \in FwdIds : up = fwd[f].parent /\ path[f] = Append(path[up], fwd[f].path)
    BY <1>3
  <2>2. path[up] \in Seq(Slots)
    BY <1>3
  <2>3. Len(path[f]) = Len(path[up]) + 1
    BY <1>3, <2>1, <2>2
  <2>4. QED
    BY <1>2, <2>1, <2>3 DEF Level
<1>6. QED
  BY <1>1, <1>2, <1>3, <1>4, <1>5 DEF Level

\* dist_to(&_root) counts the forwarding nodes above one.
LEMMA DistIsLevel ==
  ASSUME PathInv, NEW f \in FwdIds PROVE Dist(f) = Level(f)
<1> DEFINE Step(w) == [g \in FwdIds |-> IF g = Root THEN 0 ELSE 1 + w[fwd[g].parent]]
           level == [g \in FwdIds |-> Level(g)]
           w == CHOOSE dist : dist = Step(dist)
<1>1. /\ Level(Root) = 0
      /\ \A g \in FwdIds : Level(g) \in Nat
      /\ \A g \in FwdIds \ {Root} : /\ fwd[g].parent \in FwdIds
                                    /\ Level(g) = Level(fwd[g].parent) + 1
  BY PathFacts, PTrieAssumption DEF Level
<1>2. level = Step(level)
  BY <1>1
<1>3. w = Step(w)
  BY <1>2
<1>4. \A g \in FwdIds : w[g] = IF g = Root THEN 0 ELSE 1 + w[fwd[g].parent]
  BY <1>3
<1>5. Dist(f) = w[f]
  BY DEF Dist
<1> HIDE DEF w
<1> DEFINE T == {Level(g) : g \in {h \in FwdIds : w[h] # Level(h)}}
<1>6. SUFFICES ASSUME T # {} PROVE FALSE
  BY <1>5
<1>7. T \subseteq Nat
  BY <1>1
<1>8. PICK x \in T : \A y \in T : x <= y
  <2> HIDE DEF T
  <2>1. QED
    BY <1>6, <1>7, Least
<1>9. PICK g \in FwdIds : w[g] # Level(g) /\ Level(g) = x
  BY <1>8
<1>10. g # Root
  BY <1>1, <1>4, <1>9
<1>11. PICK up \in FwdIds : up = fwd[g].parent /\ Level(g) = Level(up) + 1
  BY <1>1, <1>10
<1>12. w[up] = Level(up)
  <2>1. SUFFICES ASSUME w[up] # Level(up) PROVE FALSE
    OBVIOUS
  <2>2. Level(up) \in T
    BY <2>1
  <2>3. Level(up) \in Nat /\ x = Level(up) + 1 /\ x <= Level(up)
    <3> HIDE DEF T
    <3>1. QED
      BY <1>1, <1>8, <1>9, <1>11, <2>2
  <2>4. QED
    BY <2>3
<1>13. QED
  BY <1>1, <1>4, <1>9, <1>10, <1>11, <1>12

\* PathTo, as a value of the function.
LEMMA PathValue ==
  ASSUME NEW f
  PROVE  PathTo(f) = PathFn(fwd)[f] /\ PathTo(f)' = PathFn(fwd')[f]
BY DEF PathTo, PathFn

-----------------------------------------------------------------------------
(* Every step keeps the paths of the forwarding nodes that stay *)

\* Forwarding nodes that stay keep their places, and new ones are below old ones.
KeepPlaces ==
  /\ \A f \in (fwds \cap fwds') \ {Root} :
       fwd'[f].parent = fwd[f].parent /\ fwd'[f].path = fwd[f].path
  /\ \A f \in fwds' \ fwds : fwd'[f].parent \in fwds

\* Then the paths stay the same.
LEMMA PathStep ==
  ASSUME TreeInv, TreeInv', PathInv, KeepPlaces
  PROVE  /\ PathInv'
         /\ \A f \in fwds \cap fwds' : PathFn(fwd')[f] = PathFn(fwd)[f]
         /\ \A f \in fwds' \ fwds :
              PathFn(fwd')[f] = Append(PathFn(fwd)[fwd'[f].parent], fwd'[f].path)
<1>1. PICK path : /\ Paths(fwd, path)
                  /\ \E bound \in Nat : \A f \in FwdIds : Len(path[f]) <= bound
  BY DEF PathInv
<1>2. PICK bound \in Nat : \A f \in FwdIds : Len(path[f]) <= bound
  BY <1>1
<1>3. /\ path \in [FwdIds -> Seq(Slots)] /\ path[Root] = <<>>
      /\ \A f \in FwdIds \ {Root} : /\ fwd[f].parent \in FwdIds /\ fwd[f].path \in Slots
                                    /\ path[f] = Append(path[fwd[f].parent], fwd[f].path)
  BY <1>1 DEF Paths
<1>4. /\ fwds \subseteq FwdIds /\ Root \in fwds
      /\ fwds' \subseteq FwdIds /\ Root \in fwds'
      /\ \A f \in FwdIds \ {Root} : fwd'[f].parent \in FwdIds
      /\ \A f \in FwdIds : fwd'[f].path \in Slots
      /\ \A f \in fwds \ {Root} : fwd[f].parent \in fwds
      /\ \A f \in fwds' \ {Root} : fwd'[f].parent \in fwds'
      /\ \A f \in FwdIds \ fwds' : fwd'[f] = DeadFwd
  <2>1. /\ fwds \subseteq FwdIds /\ Root \in fwds
        /\ fwds' \subseteq FwdIds /\ Root \in fwds'
        /\ fwd' \in [FwdIds -> Fwd]
        /\ \A f \in FwdIds \ {Root} : fwd'[f].parent \in FwdIds
    BY DEF TreeInv, TypeOK, FwdsOK
  <2>2. \A f \in FwdIds : fwd'[f].path \in Slots
    BY <2>1 DEF Fwd
  <2>3. /\ \A f \in fwds \ {Root} : fwd[f].parent \in fwds
        /\ \A f \in fwds' \ {Root} : fwd'[f].parent \in fwds'
    BY DEF TreeInv, TreeWellFormed
  <2>4. \A f \in FwdIds \ fwds' : fwd'[f] = DeadFwd
    BY DEF TreeInv, DeadOK
  <2>5. QED
    BY <2>1, <2>2, <2>3, <2>4
<1>5. DeadFwd.parent = Root /\ DeadFwd.path \in Slots
  BY <1>4, DeadTypes DEF Fwd
<1> DEFINE new == [f \in FwdIds |->
                     IF f \notin fwds' THEN << DeadFwd.path >>
                     ELSE IF f \in fwds THEN path[f]
                     ELSE Append(path[fwd'[f].parent], fwd'[f].path)]
<1>6. /\ \A f \in fwds \cap fwds' : new[f] = path[f]
      /\ \A f \in fwds' \ fwds : new[f] = Append(path[fwd'[f].parent], fwd'[f].path)
      /\ \A f \in FwdIds \ fwds' : new[f] = << DeadFwd.path >>
      /\ DOMAIN new = FwdIds /\ new = [f \in FwdIds |-> new[f]]
  BY <1>4
<1> HIDE DEF new
<1>7. \A f \in FwdIds : new[f] \in Seq(Slots) /\ Len(new[f]) <= bound + 1
  <2> SUFFICES ASSUME NEW f \in FwdIds PROVE new[f] \in Seq(Slots) /\ Len(new[f]) <= bound + 1
    OBVIOUS
  <2>1. CASE f \in fwds \cap fwds'
    <3>1. path[f] \in Seq(Slots) /\ Len(path[f]) <= bound /\ Len(path[f]) \in Nat
      BY <1>2, <1>3
    <3>2. new[f] = path[f]
      BY <1>6, <2>1
    <3>3. QED
      BY <3>1, <3>2
  <2>2. CASE f \in fwds' \ fwds
    <3>1. PICK up \in FwdIds, t \in Slots : up = fwd'[f].parent /\ t = fwd'[f].path
      BY <1>4, <2>2
    <3>2. path[up] \in Seq(Slots) /\ Len(path[up]) <= bound /\ Len(path[up]) \in Nat
      BY <1>2, <1>3
    <3>3. Append(path[up], t) \in Seq(Slots) /\ Len(Append(path[up], t)) = Len(path[up]) + 1
      BY <3>2
    <3>4. new[f] = Append(path[up], t)
      BY <1>6, <2>2, <3>1
    <3>5. QED
      BY <3>2, <3>3, <3>4
  <2>3. CASE f \notin fwds'
    <3>1. << DeadFwd.path >> \in Seq(Slots) /\ Len(<< DeadFwd.path >>) = 1
      BY <1>5
    <3>2. new[f] = << DeadFwd.path >>
      BY <1>6, <2>3
    <3>3. QED
      BY <3>1, <3>2
  <2>4. QED
    BY <2>1, <2>2, <2>3
<1>8. new[Root] = <<>>
  BY <1>3, <1>4, <1>6
<1>9. ASSUME NEW f \in FwdIds \ {Root} PROVE new[f] = Append(new[fwd'[f].parent], fwd'[f].path)
  <2>1. CASE f \in fwds \cap fwds'
    <3>1. /\ fwd'[f].parent = fwd[f].parent /\ fwd'[f].path = fwd[f].path
          /\ fwd[f].parent \in fwds \cap fwds'
      BY <1>4, <1>9, <2>1 DEF KeepPlaces
    <3>2. PICK up : up = fwd[f].parent /\ up = fwd'[f].parent
      BY <3>1
    <3>3. new[up] = path[up] /\ new[f] = path[f]
      BY <1>6, <2>1, <3>1, <3>2
    <3>4. path[f] = Append(path[up], fwd[f].path)
      BY <1>3, <2>1, <3>2
    <3>5. QED
      BY <3>1, <3>2, <3>3, <3>4
  <2>2. CASE f \in fwds' \ fwds
    <3>1. fwd'[f].parent \in fwds \cap fwds'
      BY <1>4, <1>9, <2>2 DEF KeepPlaces
    <3>2. QED
      BY <1>6, <2>2, <3>1
  <2>3. CASE f \notin fwds'
    <3>1. fwd'[f].parent = Root /\ fwd'[f].path = DeadFwd.path
      BY <1>4, <1>5, <2>3
    <3>2. Append(<<>>, DeadFwd.path) = << DeadFwd.path >>
      BY <1>5
    <3>3. QED
      BY <1>6, <1>8, <2>3, <3>1, <3>2
  <2>4. QED
    BY <2>1, <2>2, <2>3
<1>10. Paths(fwd', new)
  <2>1. new \in [FwdIds -> Seq(Slots)]
    BY <1>6, <1>7
  <2>2. QED
    BY <1>4, <1>8, <1>9, <2>1 DEF Paths
<1>11. PathInv'
  <2>1. bound + 1 \in Nat
    OBVIOUS
  <2>2. QED
    BY <1>7, <1>10, <2>1 DEF PathInv, Paths
<1>12. /\ \A f \in FwdIds : PathFn(fwd)[f] = path[f]
       /\ \A f \in FwdIds : PathFn(fwd')[f] = new[f]
  BY <1>1, <1>10, PathsUnique
<1>13. QED
  BY <1>4, <1>6, <1>11, <1>12 DEF KeepPlaces

\* A step that changes no more than the children of forwarding nodes.
LEMMA SamePlaces ==
  ASSUME TypeOK, fwds' = fwds, \/ fwd' = fwd
                               \/ \E f, new : fwd' = [fwd EXCEPT ![f].children = new]
  PROVE  KeepPlaces
<1>1. fwds \subseteq FwdIds /\ fwd \in [FwdIds -> Fwd]
  BY DEF TypeOK, FwdsOK
<1>2. ASSUME NEW x \in fwds
      PROVE  fwd'[x].parent = fwd[x].parent /\ fwd'[x].path = fwd[x].path
  <2>1. CASE fwd' = fwd
    BY <2>1
  <2>2. ASSUME NEW f, NEW new, fwd' = [fwd EXCEPT ![f].children = new]
        PROVE  fwd'[x].parent = fwd[x].parent /\ fwd'[x].path = fwd[x].path
    BY <1>1, <1>2, <2>2 DEF Fwd
  <2>3. QED
    BY <2>1, <2>2
<1>3. QED
  BY <1>1, <1>2 DEF KeepPlaces

\* Every step of Next keeps the places.
LEMMA NextPlaces ==
  ASSUME TreeInv, ShapeInv, [Next]_vars PROVE KeepPlaces
<1> USE DEF TreeInv
<1>1. ASSUME NEW k \in Keys, InsertInNewBucket(k) PROVE KeepPlaces
  BY <1>1, SamePlaces DEF InsertInNewBucket
<1>2. ASSUME NEW k \in Keys, InsertInBucket(k) PROVE KeepPlaces
  BY <1>2, SamePlaces DEF InsertInBucket
<1>3. ASSUME NEW k \in Keys, Erase(k) PROVE KeepPlaces
  BY <1>3, SamePlaces DEF Erase
<1>4. ASSUME NEW k \in Keys, LookUp(k) PROVE KeepPlaces
  BY <1>4, SamePlaces DEF LookUp
<1>5. CASE Destroy
  BY <1>5 DEF Destroy, KeepPlaces, TypeOK, FwdsOK
<1>6. CASE SplitNode
  BY <1>6, SamePlaces DEF SplitNode
<1>7. CASE SplitExhausted
  BY <1>7, SamePlaces DEF SplitExhausted
<1>8. CASE SplitFwd
  <2>1. PICK n, g, x, y, B : n = Top.node /\ Branches(n, g, x, y, B)
    BY <1>8, SplitFwdParts DEF SplitFwdOne, SplitFwdTwo
  <2>2. /\ fwd \in [FwdIds -> Fwd] /\ fwds \subseteq FwdIds
        /\ node[n].parent \in fwds
    BY <1>8, <2>1, SplitTop, Addresses, ParentAlive DEF SplitFwd
  <2> DEFINE new == Put(node[n].parent, node[n].prefix, g)
             rec == [parent |-> node[n].parent, path |-> Pad(node[n].prefix),
                     children |-> [s \in Slots |-> IF s[1] = 0 THEN x ELSE y]]
  <2>3. /\ fwd' = [fwd EXCEPT ![node[n].parent].children = new, ![g] = rec]
        /\ rec.parent = node[n].parent
    BY <2>1 DEF Branches
  <2> HIDE DEF new, rec
  <2>4. g \in FwdIds \ fwds /\ fwds' = fwds \cup {g}
    BY <2>1 DEF Branches
  <2>5. \A f \in fwds : fwd'[f].parent = fwd[f].parent /\ fwd'[f].path = fwd[f].path
    BY <2>2, <2>3, <2>4 DEF Fwd
  <2>6. fwd'[g].parent \in fwds
    BY <2>2, <2>3, <2>4
  <2>7. QED
    BY <2>4, <2>5, <2>6 DEF KeepPlaces
<1>9. CASE MergeDownStop
  BY <1>9, SamePlaces DEF MergeDownStop
<1>10. CASE ReaddByte
  <2>1. PICK n, f, up : n = Top.node /\ f = node[n].parent /\ up = fwd[f].parent
    OBVIOUS
  <2> DEFINE new == Put(up, fwd[f].path, n)
  <2>2. /\ fwd' = [fwd EXCEPT ![up].children = new, ![f] = DeadFwd]
        /\ fwds' = fwds \ {f}
    <3>1. ReaddedTo(n, f, up, fwd[f].path)
      BY <1>10, <2>1, ReaddByteParts
    <3>2. QED
      BY Zenon, <3>1 DEF ReaddedTo
  <2> HIDE DEF new
  <2>3. fwd \in [FwdIds -> Fwd] /\ fwds \subseteq FwdIds
    BY Addresses
  <2>4. \A e \in fwds \ {f} : fwd'[e].parent = fwd[e].parent /\ fwd'[e].path = fwd[e].path
    BY <2>2, <2>3 DEF Fwd
  <2>5. QED
    BY <2>2, <2>4 DEF KeepPlaces
<1>11. CASE AfterReadd
  BY <1>11, SamePlaces DEF AfterReadd
<1>12. CASE MergeEmpty
  BY <1>12, SamePlaces DEF MergeEmpty
<1>13. CASE Climb
  <2>1. fwd' = fwd /\ fwds' = fwds
    BY <1>13 DEF ShapeInv, Phases, Climb, Running
  <2>2. QED
    BY <2>1, SamePlaces
<1>14. CASE MergeFiner
  BY <1>14, SamePlaces DEF MergeFiner, Delete
<1>15. CASE MergeBuddy
  BY <1>15, SamePlaces DEF MergeBuddy, Delete
<1>16. CASE MergeFwd
  BY <1>16, SamePlaces DEF MergeFwd, Delete
<1>17. CASE UNCHANGED vars
  BY <1>17, SamePlaces DEF vars
<1>18. QED
  BY <1>1, <1>2, <1>3, <1>4, <1>5, <1>6, <1>7, <1>8, <1>9, <1>10, <1>11, <1>12, <1>13,
     <1>14, <1>15, <1>16, <1>17 DEF Next, Continue

-----------------------------------------------------------------------------
(* The loop of fast_forward *)

\* One turn of the loop.
Turn(k, w) ==
  [x \in FwdIds \X Nat |->
     IF fwd[x[1]].children[Slot(k, x[2])] \in FwdIds \ {x[1]}
     THEN w[<<fwd[x[1]].children[Slot(k, x[2])], x[2] + 1>>]
     ELSE [fwd |-> x[1], base |-> fwd[x[1]].children[Slot(k, x[2])], p |-> x[2]]]

\* The loop goes to forwarding nodes one level down.
LEMMA TurnDown ==
  ASSUME TreeInv, PathInv, NEW k \in Keys, NEW f \in FwdIds, NEW p \in Nat, NEW c,
         c = fwd[f].children[Slot(k, p)], c \in FwdIds \ {f}
  PROVE  /\ f \in fwds /\ c \in fwds /\ c # Root /\ fwd[c].parent = f
         /\ fwd[c].path = Slot(k, p)
         /\ Level(c) = Level(f) + 1 /\ PathTo(c) = Append(PathTo(f), Slot(k, p))
<1>1. Slot(k, p) \in Slots
  BY SlotType
<1>2. c # Null /\ f \in fwds
  BY <1>1, ParentAlive, Addresses DEF TreeInv
<1>3. c \notin nodes
  BY Addresses DEF TreeInv
<1>4. c \in fwds /\ c # Root /\ fwd[c].parent = f /\ fwd[c].path = Slot(k, p)
  BY <1>1, <1>2, <1>3, ChildOf
<1>5. c \in FwdIds \ {Root}
  BY <1>4
<1>6. /\ PathTo(c) = Append(PathTo(fwd[c].parent), fwd[c].path)
      /\ Level(c) = Level(fwd[c].parent) + 1
  BY <1>5, PathFacts
<1>7. QED
  BY <1>2, <1>4, <1>6

\* So it ends.
LEMMA LoopEnds ==
  ASSUME TreeInv, PathInv, NEW k \in Keys PROVE \E w : w = Turn(k, w)
<1>1. PICK bound \in Nat : \A f \in FwdIds : Level(f) \in Nat /\ Level(f) <= bound
  BY PathFacts
<1> DEFINE S == FwdIds \X Nat
           V == [fwd : FwdIds, base : Children, p : Nat]
           rank == [x \in S |-> bound - Level(x[1])]
           H == [w \in [S -> V] |-> Turn(k, w)]
<1>2. V # {}
  <2>1. [fwd |-> Root, base |-> Null, p |-> 0] \in V
    BY PTrieAssumption DEF Children
  <2>2. QED
    BY <2>1
<1>3. rank \in [S -> Nat]
  <2>1. \A x \in S : bound - Level(x[1]) \in Nat
    BY <1>1
  <2>2. QED
    BY <2>1
<1>4. ASSUME NEW f \in FwdIds, NEW p \in Nat
      PROVE  fwd[f].children[Slot(k, p)] \in Children
  <2>1. fwd[f].children \in [Slots -> Children]
    BY Addresses DEF TreeInv
  <2>2. QED
    BY <2>1, SlotType
<1>5. H \in [[S -> V] -> [S -> V]]
  <2> SUFFICES ASSUME NEW w \in [S -> V] PROVE Turn(k, w) \in [S -> V]
    OBVIOUS
  <2>1. ASSUME NEW x \in S PROVE Turn(k, w)[x] \in V
    <3>1. PICK f \in FwdIds, p \in Nat : x = <<f, p>>
      OBVIOUS
    <3>2. PICK c : c = fwd[f].children[Slot(k, p)] /\ c \in Children
      BY <1>4
    <3>3. c \in FwdIds => <<c, p + 1>> \in S
      OBVIOUS
    <3>4. [fwd |-> f, base |-> c, p |-> p] \in V
      BY <3>2
    <3>5. Turn(k, w)[x] = IF c \in FwdIds \ {f} THEN w[<<c, p + 1>>]
                          ELSE [fwd |-> f, base |-> c, p |-> p]
      BY <3>1, <3>2 DEF Turn
    <3> HIDE DEF V, S
    <3>6. QED
      BY <3>3, <3>4, <3>5
  <2>2. Turn(k, w) = [x \in S |-> Turn(k, w)[x]]
    BY DEF Turn
  <2>3. QED
    BY <2>1, <2>2
<1>6. ASSUME NEW g \in [S -> V], NEW h \in [S -> V], NEW x \in S,
             \A u \in S : rank[u] < rank[x] => g[u] = h[u]
      PROVE  H[g][x] = H[h][x]
  <2>1. PICK f \in FwdIds, p \in Nat : x = <<f, p>>
    OBVIOUS
  <2>2. PICK c : c = fwd[f].children[Slot(k, p)]
    OBVIOUS
  <2>3. /\ H[g][x] = IF c \in FwdIds \ {f} THEN g[<<c, p + 1>>]
                     ELSE [fwd |-> f, base |-> c, p |-> p]
        /\ H[h][x] = IF c \in FwdIds \ {f} THEN h[<<c, p + 1>>]
                     ELSE [fwd |-> f, base |-> c, p |-> p]
    BY <2>1, <2>2 DEF Turn
  <2>4. CASE c \in FwdIds \ {f}
    <3>1. Level(c) = Level(f) + 1
      BY <2>2, <2>4, TurnDown
    <3>2. <<c, p + 1>> \in S /\ rank[<<c, p + 1>>] = bound - Level(c) /\ rank[x] = bound - Level(f)
      BY <2>1, <2>4
    <3>3. rank[<<c, p + 1>>] < rank[x]
      <4> HIDE DEF rank
      <4>1. QED
        BY <1>1, <2>4, <3>1, <3>2
    <3>4. g[<<c, p + 1>>] = h[<<c, p + 1>>]
      <4> HIDE DEF rank
      <4>1. QED
        BY <1>6, <3>2, <3>3
    <3>5. QED
      BY <2>3, <3>4
  <2>5. QED
    BY <2>3, <2>4
<1>7. \E w \in [S -> V] : w = H[w]
  <2> HIDE DEF S, V, rank, H
  <2>1. Descends(S, V, rank, H)
    BY <1>3, <1>5, <1>6 DEF Descends
  <2>2. QED
    BY <1>2, <2>1, Recursive
<1>8. QED
  BY <1>7

\* The loop from the root passes every forwarding node whose path is that of the key.
LEMMA LoopPasses ==
  ASSUME TreeInv, PathInv, NEW k \in Keys, NEW w, w = Turn(k, w)
  PROVE  \A f \in fwds : Spells(k, f) => w[<<Root, 0>>] = w[<<f, Level(f)>>]
<1> DEFINE Bad(f) == Spells(k, f) /\ w[<<Root, 0>>] # w[<<f, Level(f)>>]
           T == {Level(f) : f \in {g \in fwds : Bad(g)}}
<1>1. SUFFICES ASSUME T # {} PROVE FALSE
  OBVIOUS
<1>2. /\ fwds \subseteq FwdIds /\ Level(Root) = 0
      /\ \A f \in FwdIds : Level(f) \in Nat /\ PathTo(f) \in Seq(Slots)
      /\ \A f \in fwds \ {Root} : fwd[f].parent \in fwds
  BY PathFacts, Addresses, PathOf DEF TreeInv, Level
<1>3. T \subseteq Nat
  BY <1>2
<1>4. PICK m \in T : \A y \in T : m <= y
  <2> HIDE DEF T
  <2>1. QED
    BY <1>1, <1>3, Least
<1>5. PICK f \in fwds : Bad(f) /\ Level(f) = m
  BY <1>4
<1>6. f # Root
  BY <1>2, <1>5
<1>7. PICK up \in fwds : up = fwd[f].parent
  BY <1>2, <1>6
<1>8. /\ PathTo(f) = Append(PathTo(up), fwd[f].path) /\ Level(f) = Level(up) + 1
      /\ fwd[f].path \in Slots /\ up # f /\ fwd[up].children[fwd[f].path] = f
  <2>1. f \in FwdIds \ {Root}
    BY <1>2, <1>6
  <2>2. PathTo(f) = Append(PathTo(fwd[f].parent), fwd[f].path) /\ Level(f) = Level(fwd[f].parent) + 1
    BY <2>1, PathFacts
  <2>3. QED
    BY <1>6, <1>7, <2>2, PathOf
<1>9. Spells(k, up) /\ fwd[f].path = Slot(k, Level(up))
  <2>1. PathTo(up) \in Seq(Slots) /\ Level(up) \in Nat
    BY <1>2, <1>7
  <2>2. /\ DOMAIN PathTo(up) = 1 .. Level(up) /\ DOMAIN PathTo(f) = 1 .. Level(up) + 1
        /\ PathTo(f)[Level(up) + 1] = fwd[f].path
        /\ \A j \in 1 .. Level(up) : PathTo(f)[j] = PathTo(up)[j]
    BY <1>8, <2>1 DEF Level
  <2>3. \A j \in 1 .. Level(up) + 1 : PathTo(f)[j] = Slot(k, j - 1)
    BY <1>5, <2>2 DEF Spells, Starts
  <2>4. \A j \in 1 .. Level(up) : PathTo(up)[j] = Slot(k, j - 1)
    BY <2>1, <2>2, <2>3
  <2>5. fwd[f].path = Slot(k, Level(up) + 1 - 1)
    BY <2>1, <2>2, <2>3
  <2>6. Level(up) + 1 - 1 = Level(up)
    BY <2>1
  <2>7. QED
    BY <2>2, <2>4, <2>5, <2>6 DEF Spells, Starts
<1>10. w[<<Root, 0>>] = w[<<up, Level(up)>>]
  <2>1. SUFFICES ASSUME w[<<Root, 0>>] # w[<<up, Level(up)>>] PROVE FALSE
    OBVIOUS
  <2>2. Level(up) \in T
    BY <1>9, <2>1
  <2>3. m <= Level(up) /\ Level(up) \in Nat /\ m = Level(up) + 1
    <3> HIDE DEF T
    <3>1. QED
      BY <1>2, <1>4, <1>5, <1>7, <1>8, <2>2
  <2>4. QED
    BY <2>3
<1>11. w[<<up, Level(up)>>] = w[<<f, Level(f)>>]
  <2>1. <<up, Level(up)>> \in FwdIds \X Nat /\ f \in FwdIds \ {up}
    BY <1>2, <1>7, <1>8
  <2>2. fwd[up].children[Slot(k, Level(up))] = f
    BY <1>8, <1>9
  <2>3. Turn(k, w)[<<up, Level(up)>>] = w[<<f, Level(up) + 1>>]
    BY <2>1, <2>2 DEF Turn
  <2>4. QED
    BY <1>8, <2>3
<1>12. QED
  BY <1>5, <1>10, <1>11

\* fast_forward goes on to where the path of the key leaves the forwarding nodes.
LEMMA FastForwardAt ==
  ASSUME TreeInv, PathInv, NEW k \in Keys, NEW f \in fwds, Spells(k, f), NEW c,
         c = fwd[f].children[Slot(k, Level(f))], c \notin FwdIds \ {f}
  PROVE  FastForward(k) = [fwd |-> f, base |-> c, p |-> Level(f)]
<1> DEFINE w == CHOOSE w : w = Turn(k, w)
<1>1. w = Turn(k, w)
  BY LoopEnds
<1>2. FastForward(k) = w[<<Root, 0>>]
  BY DEF FastForward, Turn
<1> HIDE DEF w
<1>3. w[<<Root, 0>>] = w[<<f, Level(f)>>]
  BY <1>1, LoopPasses
<1>4. <<f, Level(f)>> \in FwdIds \X Nat
  BY PathFacts, Addresses DEF TreeInv
<1>5. Turn(k, w)[<<f, Level(f)>>] = [fwd |-> f, base |-> c, p |-> Level(f)]
  BY <1>4 DEF Turn
<1>6. QED
  BY <1>1, <1>2, <1>3, <1>5

\* The last forwarding node on the path of a key.
LEMMA DeepestSpelt ==
  ASSUME TreeInv, PathInv, NEW k \in Keys
  PROVE  \E f \in fwds : Spells(k, f) /\ fwd[f].children[Slot(k, Level(f))] \notin FwdIds \ {f}
<1>1. PICK bound \in Nat : \A f \in FwdIds : Level(f) \in Nat /\ Level(f) <= bound
  BY PathFacts
<1> DEFINE T == {bound - Level(f) : f \in {g \in fwds : Spells(k, g)}}
<1>2. /\ fwds \subseteq FwdIds /\ Root \in fwds /\ PathTo(Root) = <<>>
      /\ \A f \in FwdIds : PathTo(f) \in Seq(Slots)
  BY PathFacts, Addresses DEF TreeInv
<1>3. T \subseteq Nat /\ T # {}
  <2>1. Spells(k, Root)
    BY <1>2 DEF Spells, Starts
  <2>2. bound - Level(Root) \in T
    BY <1>2, <2>1
  <2>3. T \subseteq Nat
    BY <1>1, <1>2
  <2>4. QED
    BY <2>2, <2>3
<1>4. PICK m \in T : \A y \in T : m <= y
  <2> HIDE DEF T
  <2>1. QED
    BY <1>3, Least
<1>5. PICK f \in fwds : Spells(k, f) /\ m = bound - Level(f)
  BY <1>4
<1>6. SUFFICES ASSUME fwd[f].children[Slot(k, Level(f))] \in FwdIds \ {f} PROVE FALSE
  BY <1>5
<1>7. PICK c : c = fwd[f].children[Slot(k, Level(f))]
  OBVIOUS
<1>8. f \in FwdIds /\ Level(f) \in Nat /\ PathTo(f) \in Seq(Slots)
  BY <1>1, <1>2
<1>9. c \in fwds /\ Level(c) = Level(f) + 1 /\ PathTo(c) = Append(PathTo(f), Slot(k, Level(f)))
  BY <1>6, <1>7, <1>8, TurnDown
<1>10. Spells(k, c)
  <2>1. Slot(k, Level(f)) \in Slots
    BY <1>8, SlotType
  <2>2. /\ DOMAIN PathTo(c) = 1 .. Level(f) + 1 /\ DOMAIN PathTo(f) = 1 .. Level(f)
        /\ PathTo(c)[Level(f) + 1] = Slot(k, Level(f))
        /\ \A j \in 1 .. Level(f) : PathTo(c)[j] = PathTo(f)[j]
    BY <1>8, <1>9, <2>1 DEF Level
  <2>3. \A j \in 1 .. Level(f) : PathTo(c)[j] = Slot(k, j - 1)
    BY <1>5, <2>2 DEF Spells, Starts
  <2>4. Level(f) + 1 - 1 = Level(f)
    BY <1>8
  <2>5. \A j \in 1 .. Level(f) + 1 : j \in 1 .. Level(f) \/ j = Level(f) + 1
    BY <1>8
  <2>6. ASSUME NEW j \in 1 .. Level(f) + 1 PROVE PathTo(c)[j] = Slot(k, j - 1)
    <3>1. CASE j \in 1 .. Level(f)
      BY <2>2, <2>3, <3>1
    <3>2. CASE j = Level(f) + 1
      <4>1. j - 1 = Level(f)
        BY <1>8, <3>2
      <4>2. QED
        BY <2>2, <3>2, <4>1
    <3>3. QED
      BY <2>5, <3>1, <3>2
  <2>7. QED
    BY <2>2, <2>6 DEF Spells, Starts
<1>11. bound - Level(c) \in T
  BY <1>9, <1>10
<1>12. m <= bound - Level(c)
  <2> HIDE DEF T
  <2>1. QED
    BY <1>4, <1>11
<1>13. QED
  BY <1>5, <1>8, <1>9, <1>12

\* What fast_forward finds for any key.
LEMMA FastForwardEnds ==
  ASSUME TreeInv, PathInv, NEW k \in Keys
  PROVE  \E f, c :
           /\ f \in fwds /\ FastForward(k) = [fwd |-> f, base |-> c, p |-> Level(f)]
           /\ Spells(k, f) /\ c = fwd[f].children[Slot(k, Level(f))]
           /\ c # f => /\ c \in nodes /\ c \in NodeIds /\ node[c].parent = f
                       /\ Covers(node[c].prefix, Slot(k, Level(f)))
<1>1. PICK f \in fwds : /\ Spells(k, f)
                        /\ fwd[f].children[Slot(k, Level(f))] \notin FwdIds \ {f}
  BY DeepestSpelt
<1>2. PICK c : c = fwd[f].children[Slot(k, Level(f))]
  OBVIOUS
<1>3. Level(f) \in Nat /\ fwds \subseteq FwdIds /\ nodes \subseteq NodeIds
  BY PathFacts, Addresses DEF TreeInv
<1>4. Slot(k, Level(f)) \in Slots
  BY <1>3, SlotType
<1>5. c = f \/ (c \in nodes /\ node[c].parent = f /\ Covers(node[c].prefix, Slot(k, Level(f))))
  BY <1>1, <1>2, <1>3, <1>4, ChildOf
<1>6. FastForward(k) = [fwd |-> f, base |-> c, p |-> Level(f)]
  BY <1>1, <1>2, FastForwardAt
<1>7. QED
  BY <1>1, <1>2, <1>3, <1>5, <1>6

\* So best_match finds a place for every key.
LEMMA Places ==
  ASSUME TreeInv, PathInv, NEW k \in Keys
  PROVE  LET m == BestMatch(k)
         IN  /\ Located(k, m) /\ m.p = Level(m.fwd) /\ m.fwd \in fwds /\ Spells(k, m.fwd)
             /\ m.base = fwd[m.fwd].children[Slot(k, m.p)]
             /\ m.base \in NodeIds => /\ m.base \in nodes /\ node[m.base].parent = m.fwd
                                      /\ Covers(node[m.base].prefix, Slot(k, m.p))
             /\ m.base \notin NodeIds => m.base = m.fwd
<1>1. PICK f, c :
           /\ f \in fwds /\ FastForward(k) = [fwd |-> f, base |-> c, p |-> Level(f)]
           /\ Spells(k, f) /\ c = fwd[f].children[Slot(k, Level(f))]
           /\ c # f => /\ c \in nodes /\ c \in NodeIds /\ node[c].parent = f
                       /\ Covers(node[c].prefix, Slot(k, Level(f)))
  BY FastForwardEnds
<1>2. /\ BestMatch(k).fwd = FastForward(k).fwd /\ BestMatch(k).base = FastForward(k).base
      /\ BestMatch(k).p = FastForward(k).p
  BY DEF BestMatch
<1>3. BestMatch(k).fwd = f /\ BestMatch(k).base = c /\ BestMatch(k).p = Level(f)
  BY <1>1, <1>2
<1>4. /\ f \in FwdIds /\ Level(f) \in Nat /\ f \notin NodeIds
      /\ nodes \subseteq NodeIds
  BY <1>1, PathFacts, Addresses, PTrieAssumption DEF TreeInv
<1> DEFINE m == BestMatch(k)
<1>5. m.fwd = f /\ m.base = c /\ m.p = Level(f)
  BY <1>3
<1> HIDE DEF m
<1>6. Located(k, m)
  BY <1>1, <1>4, <1>5 DEF Located
<1>7. QED
  BY <1>1, <1>4, <1>5, <1>6 DEF m

-----------------------------------------------------------------------------
(* The level that calls are given *)

\* The length of a path, as a value of the function.
LevelFn(F, f) == Len(PathFn(F)[f])

\* The call that becomes the one on top.
LEMMA BecomeTop ==
  ASSUME TypeOK, stack # <<>>, NEW frame, Become(frame)
  PROVE  stack' # <<>> /\ Top' = frame
<1>1. stack \in Seq(Frames) /\ stack' = <<frame>> \o Tail(stack)
  BY DEF TypeOK, Become
<1>2. QED
  BY <1>1 DEF Top

\* A split goes on, or starts, at the right level.
LEMMA SplitLevel ==
  ASSUME stack' # <<>>, NEW f, NEW n, NEW size, NEW p, Top' = Frame("split", n, f, size, p),
         p = LevelFn(fwd', f)
  PROVE  LevelInv'
<1>1. Top'.fn = "split" /\ Top'.fwd = f /\ Top'.p = p
  BY DEF Frame
<1>2. Level(Top.fwd)' = LevelFn(fwd', f)
  BY <1>1 DEF Level, LevelFn, PathTo, PathFn
<1>3. QED
  BY <1>1, <1>2 DEF LevelInv

\* So does a merge, or it will stop.
LEMMA MergeLevel ==
  ASSUME stack' # <<>>, NEW n, NEW size, NEW p, Top' = Frame("merge_down", n, Null, size, p),
         \/ p = LevelFn(fwd', node'[n].parent)
         \/ Count(n)' > MergeBound
         \/ AllSettled(nodes)'
  PROVE  LevelInv'
<1>1. Top'.fn = "merge_down" /\ Top'.node = n /\ Top'.p = p
  BY DEF Frame
<1>2. Level(node[Top.node].parent)' = LevelFn(fwd', node'[n].parent)
  BY <1>1 DEF Level, LevelFn, PathTo, PathFn
<1>3. Count(Top.node)' = Count(n)'
  BY <1>1 DEF Count
<1>4. MergeBound' = MergeBound
  BY DEF MergeBound
<1>5. QED
  BY <1>1, <1>2, <1>3, <1>4 DEF LevelInv

\* Other calls are given no level, or do not use it.
LEMMA OtherLevel ==
  ASSUME stack' = <<>> \/ Top'.fn \in {"after_readd", "climb"} PROVE LevelInv'
BY DEF LevelInv

\* The level of a forwarding node that stays.
LEMMA LevelStays ==
  ASSUME TreeInv, TreeInv', PathInv, KeepPlaces, NEW f \in fwds, f \in fwds'
  PROVE  LevelFn(fwd', f) = Level(f) /\ Level(f) \in Nat
<1>1. f \in FwdIds
  BY Addresses DEF TreeInv
<1>2. PathFn(fwd')[f] = PathFn(fwd)[f]
  BY PathStep
<1>3. QED
  BY <1>1, <1>2, PathValue, PathFacts DEF LevelFn, Level

\* A merge that goes on has the level of its bucket.
LEMMA MergingLevel ==
  ASSUME TreeInv, LevelInv, Merging, NEW n, n = Top.node
  PROVE  Top.p = Level(node[n].parent) \/ AllSettled(nodes)
<1>1. stack # <<>> /\ Top.fn = "merge_down" /\ Count(n) <= MergeBound
  BY DEF Merging, Running, Count
<1>2. Count(n) \in Nat
  BY <1>1, CountType, MergeTop DEF Merging
<1>3. QED
  BY <1>1, <1>2, Bounds DEF LevelInv

\* readd_byte is called at the level of the bucket (the level it takes as its argument).
LEMMA ByteLevel ==
  ASSUME TreeInv, LevelInv PROVE ByteIsLevel
<1>1. SUFFICES ASSUME Merging, node[Top.node].prefix = <<>>, node[Top.node].parent # Root
               PROVE  Top.p = Level(node[Top.node].parent)
  BY DEF ByteIsLevel, Level
<1>2. PICK n : n = Top.node
  OBVIOUS
<1>3. n \in nodes /\ Count(n) \in Nat /\ Count(n) <= MergeBound
  BY <1>1, <1>2, MergeTop, CountType DEF Merging, Count
<1>4. ~ AllSettled(nodes)
  <2>1. ~ Settled(n)
    BY <1>1, <1>2, <1>3, Bounds DEF Settled
  <2>2. QED
    BY <1>3, <2>1 DEF AllSettled
<1>5. QED
  BY <1>1, <1>2, <1>4, MergingLevel

\* The calls that an insert or an erase starts.
LEMMA StartLevel ==
  ASSUME TreeInv, TreeInv', PathInv, KeepPlaces,
         \/ \E k \in Keys : InsertInNewBucket(k) \/ InsertInBucket(k) \/ Erase(k) \/ LookUp(k)
         \/ Destroy
  PROVE  LevelInv'
<1>1. PICK k : \/ k \in Keys /\ (InsertInNewBucket(k) \/ InsertInBucket(k))
               \/ k \in Keys /\ Erase(k)
               \/ LookUp(k) \/ Destroy
  OBVIOUS
<1> DEFINE m == BestMatch(k)
<1>2. ASSUME k \in Keys PROVE m.fwd \in fwds /\ m.p = Level(m.fwd)
                              /\ (m.base \in NodeIds => node[m.base].parent = m.fwd)
  BY <1>2, Places
<1>3. CASE k \in Keys /\ (InsertInNewBucket(k) \/ InsertInBucket(k))
  <2>1. \E n \in NodeIds, old \in Node : \E oldsize :
          AddItem(k, m, n, old, oldsize) /\ fwds' = fwds
    <3>1. CASE InsertInBucket(k)
      <4>1. m.base \in NodeIds /\ node[m.base] \in Node
        BY <3>1, Addresses DEF InsertInBucket, TreeInv
      <4>2. QED
        BY <3>1, <4>1 DEF InsertInBucket
    <3>2. CASE InsertInNewBucket(k)
      <4>1. FreshNode \in NodeIds
        <5>1. nodes # NodeIds /\ nodes \subseteq NodeIds
          BY <3>2, Addresses DEF InsertInNewBucket, TreeInv
        <5>2. QED
          BY <5>1 DEF FreshNode
      <4>2. PICK bit \in 0 .. BSIZE :
              AddItem(k, m, FreshNode, [prefix |-> SubSeq(Slot(k, m.p), 1, bit),
                                        parent |-> m.fwd, items |-> <<>>], 0)
        BY <3>2 DEF InsertInNewBucket
      <4>3. [prefix |-> SubSeq(Slot(k, m.p), 1, bit), parent |-> m.fwd, items |-> <<>>] \in Node
        <5>1. m.fwd \in fwds /\ m.p = Level(m.fwd) /\ fwds \subseteq FwdIds
          BY <1>2, <1>3, Addresses DEF TreeInv
        <5> HIDE DEF m
        <5>2. m.p \in Nat
          BY <5>1, PathFacts
        <5>3. SubSeq(Slot(k, m.p), 1, bit) \in SlotPrefixes
          BY <1>3, <5>2, SlotType, PrefixTypes
        <5>4. QED
          BY <5>1, <5>3 DEF Node
      <4>4. QED
        BY <3>2, <4>1, <4>2, <4>3 DEF InsertInNewBucket
    <3>3. QED
      BY <1>3, <3>1, <3>2
  <2>2. \E n : stack' \in {<<>>, <<Frame("split", n, m.fwd, Len(k) - m.p \div BDIV, m.p)>>}
    BY <2>1, AddItemEffect DEF TreeInv
  <2>3. LevelFn(fwd', m.fwd) = m.p
    <3>1. m.fwd \in fwds /\ m.fwd \in fwds' /\ m.p = Level(m.fwd)
      BY <1>2, <1>3, <2>1
    <3> HIDE DEF m
    <3>2. QED
      BY <3>1, LevelStays
  <2> HIDE DEF m
  <2>4. PICK n, size : stack' \in {<<>>, <<Frame("split", n, m.fwd, size, m.p)>>}
    BY <2>2
  <2>5. CASE stack' = <<Frame("split", n, m.fwd, size, m.p)>>
    <3>1. stack' # <<>> /\ Top' = Frame("split", n, m.fwd, size, m.p)
      BY <2>5 DEF Top
    <3>2. QED
      BY <2>3, <3>1, SplitLevel
  <2>6. QED
    BY <2>4, <2>5, OtherLevel
<1>4. CASE k \in Keys /\ Erase(k)
  <2>1. PICK n, size : n = m.base /\ size = Len(k) - m.p \div BDIV
    OBVIOUS
  <2>2. /\ n \in NodeIds /\ fwds' = fwds
        /\ node' = [node EXCEPT ![n].items = RemoveAt(node[n].items, m.index)]
        /\ stack' = <<Frame("merge_down", n, Null, size, m.p)>>
    BY <1>4, <2>1 DEF Erase
  <2>3. node'[n].parent = node[n].parent
    BY <2>2, Addresses DEF TreeInv, Node
  <2>4. /\ m.fwd \in fwds /\ m.fwd \in fwds' /\ m.p = Level(m.fwd) /\ node'[n].parent = m.fwd
    BY <1>2, <1>4, <2>1, <2>2, <2>3
  <2> HIDE DEF m
  <2>5. LevelFn(fwd', m.fwd) = m.p
    BY <2>4, LevelStays
  <2>6. stack' # <<>> /\ Top' = Frame("merge_down", n, Null, size, m.p)
    BY <2>2 DEF Top
  <2>7. QED
    BY <2>4, <2>5, <2>6, MergeLevel
<1>5. CASE LookUp(k) \/ Destroy
  BY <1>5, OtherLevel DEF LookUp, Destroy
<1>6. QED
  BY <1>1, <1>3, <1>4, <1>5

\* A split goes down one level with each forwarding node.
LEMMA SplitsLevel ==
  ASSUME TreeInv, TreeInv', ShapeInv, PathInv, KeepPlaces, LevelInv,
         SplitNode \/ SplitExhausted \/ SplitFwd
  PROVE  LevelInv'
<1>1. /\ Running("split") /\ stack # <<>> /\ Top.p = Level(Top.fwd)
      /\ Top.fwd \in fwds /\ Top.node \in nodes
  <2>1. Running("split")
    BY DEF SplitNode, SplitExhausted, SplitFwd
  <2>2. QED
    BY <2>1, SplitTop DEF Running, LevelInv
<1>2. CASE Return
  BY <1>1, <1>2, ReturnCalls, OtherLevel
<1>3. CASE SplitNode /\ UNCHANGED <<fwds, stack>>
  <2>1. Level(Top.fwd)' = LevelFn(fwd', Top.fwd)
    BY <1>3 DEF Level, LevelFn, PathTo, PathFn, Top
  <2>2. Top' = Top /\ stack' # <<>> /\ Top.fwd \in fwds'
    BY <1>1, <1>3 DEF Top
  <2>3. LevelFn(fwd', Top.fwd) = Level(Top.fwd)
    BY <1>1, <2>2, LevelStays
  <2>4. QED
    BY <1>1, <2>1, <2>2, <2>3 DEF LevelInv, Running
<1>4. CASE SplitFwd /\ ~ Return
  <2>1. PICK g, n, p, size : /\ g = FreshFwd /\ n = Top.node /\ p = Top.p + 1
                             /\ size = Top.size - (IF p % BDIV = 0 THEN 1 ELSE 0)
    OBVIOUS
  <2>2. /\ fwds' = fwds \cup {g} /\ Become(Frame("split", n, g, size, p))
    BY <1>4, <2>1 DEF SplitFwd
  <2>3. /\ g \in FwdIds \ fwds
    <3>1. fwds # FwdIds /\ fwds \subseteq FwdIds
      BY <1>4, Addresses DEF SplitFwd, TreeInv
    <3>2. QED
      BY <2>1, <3>1 DEF FreshFwd
  <2>4. fwd'[g].parent = Top.fwd /\ fwd'[g].path \in Slots
    <3>1. fwd' \in [FwdIds -> Fwd]
      BY DEF TreeInv, TypeOK, FwdsOK
    <3>2. PICK h, x, y, B : Branches(n, h, x, y, B)
      BY <1>4, <2>1, SplitFwdParts DEF SplitFwdOne, SplitFwdTwo
    <3>3. h = g
      BY <2>2, <2>3, <3>2 DEF Branches
    <3>4. fwd'[g].parent = node[n].parent
      <4>1. fwd \in [FwdIds -> Fwd]
        BY Addresses DEF TreeInv
      <4> DEFINE new == Put(node[n].parent, node[n].prefix, g)
                 rec == [parent |-> node[n].parent, path |-> Pad(node[n].prefix),
                         children |-> [s \in Slots |-> IF s[1] = 0 THEN x ELSE y]]
      <4>2. /\ fwd' = [fwd EXCEPT ![node[n].parent].children = new, ![g] = rec]
            /\ rec.parent = node[n].parent
        BY <3>2, <3>3 DEF Branches
      <4> HIDE DEF new, rec
      <4>3. QED
        BY <2>3, <4>1, <4>2
    <3>5. Top.fwd = node[n].parent
      BY <1>1, <2>1, SplitTop
    <3>6. QED
      BY <2>3, <3>1, <3>4, <3>5 DEF Fwd
  <2>5. PathFn(fwd')[g] = Append(PathFn(fwd)[Top.fwd], fwd'[g].path)
    BY <2>2, <2>3, <2>4, PathStep
  <2>6. PathFn(fwd)[Top.fwd] \in Seq(Slots) /\ Level(Top.fwd) = Len(PathFn(fwd)[Top.fwd])
    <3>1. Top.fwd \in FwdIds
      BY <1>1, Addresses DEF TreeInv
    <3>2. PICK f : f = Top.fwd
      OBVIOUS
    <3>3. PathTo(f) \in Seq(Slots) /\ Level(f) = Len(PathTo(f)) /\ PathTo(f) = PathFn(fwd)[f]
      BY <3>1, <3>2, PathFacts, PathValue DEF Level
    <3>4. QED
      BY <3>2, <3>3
  <2>7. LevelFn(fwd', g) = Level(Top.fwd) + 1
    BY <2>4, <2>5, <2>6 DEF LevelFn
  <2>8. stack' # <<>> /\ Top' = Frame("split", n, g, size, p)
    BY <1>1, <2>2, BecomeTop DEF TreeInv
  <2>9. QED
    BY <1>1, <2>1, <2>7, <2>8, SplitLevel
<1>5. QED
  BY <1>2, <1>3, <1>4 DEF SplitNode, SplitExhausted

\* Merges keep to the level of the bucket, readd_byte goes up one with it, and merge_down
\* with the level of before stops.
LEMMA MergesLevel ==
  ASSUME TreeInv, TreeInv', ShapeInv, PathInv, KeepPlaces, LevelInv,
         \/ MergeDownStop \/ ReaddByte \/ AfterReadd \/ MergeEmpty \/ Climb
         \/ MergeFiner \/ MergeBuddy \/ MergeFwd
  PROVE  LevelInv'
<1>1. stack # <<>> /\ TypeOK
  BY DEF MergeDownStop, ReaddByte, AfterReadd, MergeEmpty, Climb, MergeFiner, MergeBuddy,
         MergeFwd, MergingRegular, Merging, Running, TreeInv
<1>2. CASE Return
  BY <1>1, <1>2, ReturnCalls, OtherLevel
<1>3. CASE MergeEmpty
  <2>1. PICK size, p : Become(Frame("climb", Null, node[Top.node].parent, size, p))
    BY <1>3 DEF MergeEmpty
  <2>2. Top'.fn = "climb"
    BY <1>1, <2>1, BecomeTop DEF Frame
  <2>3. QED
    BY <2>2, OtherLevel
<1>4. CASE Climb
  <2>1. Return
    BY <1>4 DEF Climb, Running, ShapeInv, Phases
  <2>2. QED
    BY <1>2, <2>1
<1>5. CASE AfterReadd
  <2>1. AllSettled(nodes) /\ UNCHANGED <<fwds, fwd, nodes, node>>
    BY <1>5 DEF AfterReadd, Running, ShapeInv, Phases
  <2>2. AllSettled(nodes)'
    BY <2>1 DEF AllSettled, Settled, Count, Alone, Buddies, MergeBound
  <2>3. CASE MergeDown(Top.node)
    <3>1. PICK n, size, p : Become(Frame("merge_down", n, Null, size, p))
      BY <2>3 DEF MergeDown
    <3>2. stack' # <<>> /\ Top' = Frame("merge_down", n, Null, size, p)
      BY <1>1, <3>1, BecomeTop
    <3>3. QED
      BY <2>2, <3>2, MergeLevel
  <2>4. QED
    BY <1>2, <1>5, <2>3 DEF AfterReadd
<1>6. CASE ReaddByte
  <2>1. PICK n, f, up, t : /\ n = Top.node /\ f = node[n].parent /\ up = fwd[f].parent
                           /\ t = fwd[f].path
    OBVIOUS
  <2>2. /\ Merging /\ node[n].prefix = <<>> /\ f # Root
        /\ n \in nodes /\ n \in NodeIds /\ f \in fwds
    BY <1>6, <2>1, MergeTop DEF ReaddByte, Merging
  <2>3. Top.p = Level(f)
    BY <2>1, <2>2, ByteLevel DEF ByteIsLevel, Level
  <2> ReaddedTo(n, f, up, t)
    BY <1>6, <2>1, ReaddByteParts
  <2>4. fwds' = fwds \ {f}
    BY DEF ReaddedTo
  <2>5. node'[n].parent = up
    <3>1. PICK moved : /\ Len(moved) = Len(node[n].items)
                       /\ node' = [node EXCEPT ![n] = [prefix |-> t, parent |-> up,
                                                       items |-> moved]]
      BY DEF ReaddedTo
    <3>2. QED
      BY <2>2, <3>1, Addresses DEF TreeInv
  <2>6. up \in fwds /\ up # f
    BY <2>1, <2>2, PathOf
  <2>7. Level(f) = Level(up) + 1 /\ Level(up) \in Nat
    BY <2>1, <2>2, <2>6, PathFacts, Addresses DEF TreeInv
  <2>8. LevelFn(fwd', up) = Level(up)
    BY <2>4, <2>6, LevelStays
  <2>9. PICK size, rest : stack' = <<Frame("merge_down", n, Null, size, Top.p - 1), rest>> \o Tail(stack)
    BY <1>6, <2>1 DEF ReaddByte
  <2>10. stack' # <<>> /\ Top' = Frame("merge_down", n, Null, size, Top.p - 1)
    <3>1. Tail(stack) \in Seq(Frames)
      BY <1>1, StackType DEF TypeOK
    <3>2. QED
      BY <2>9, <3>1 DEF Top
  <2>11. Top.p - 1 = LevelFn(fwd', node'[n].parent)
    BY <2>3, <2>5, <2>7, <2>8
  <2>12. QED
    BY <2>10, <2>11, MergeLevel
<1>7. CASE (MergeFiner \/ MergeBuddy \/ MergeFwd) /\ ~ Return
  <2>1. PICK n, c, q : n = Top.node /\ c = BuddyOf(n) /\ q = node[n].prefix
    OBVIOUS
  <2>2. /\ Merging /\ q # <<>> /\ fwds' = fwds
        /\ n \in nodes /\ n \in NodeIds /\ node[n].parent \in fwds /\ node \in [NodeIds -> Node]
    BY <1>7, <2>1, MergeTop, Addresses
       DEF MergeFiner, MergeBuddy, MergeFwd, MergingRegular, Merging, TreeInv
  <2>3. Top.p = Level(node[n].parent) \/ AllSettled(nodes)
    BY <2>1, <2>2, MergingLevel
  <2>4. AllSettled(nodes) => Count(n) > 0 /\ (Alone(n) => Count(n) > MergeBound)
    BY <2>1, <2>2 DEF AllSettled, Settled
  <2>5. /\ Count(n) \in Nat /\ ~ (Count(n) > MergeBound) /\ (Count(n) = 0 <=> node[n].items = <<>>)
        /\ node[n].items \in Seq(Items)
    <3>1. Count(n) \in Nat /\ Count(n) <= MergeBound /\ node[n].items \in Seq(Items)
      BY <2>1, <2>2, CountType, Addresses DEF Merging, Count, TreeInv
    <3>2. QED
      BY <3>1, Bounds DEF Count
  <2>6. LevelFn(fwd', node[n].parent) = Level(node[n].parent)
    BY <2>2, LevelStays
  <2>7. ASSUME NEW d, MergeDown(d), node'[d].parent = node[n].parent,
               AllSettled(nodes) => AllSettled(nodes)' \/ Count(d)' > MergeBound
        PROVE  LevelInv'
    <3>1. Become(Frame("merge_down", d, Null, Top.size, Top.p))
      BY <2>7 DEF MergeDown
    <3>2. stack' # <<>> /\ Top' = Frame("merge_down", d, Null, Top.size, Top.p)
      BY <1>1, <3>1, BecomeTop
    <3>3. QED
      BY <2>3, <2>6, <2>7, <3>2, MergeLevel
  <2>8. CASE MergeFiner
    <3>1. c \in NodeIds /\ MergeDown(c) /\ UNCHANGED <<fwd, nodes, node>>
      BY <1>7, <2>1, <2>8 DEF MergeFiner
    <3>2. node[c].parent = node[n].parent
      BY <2>1, <2>2, <3>1, BuddyBucket
    <3>3. AllSettled(nodes) => AllSettled(nodes)'
      BY <3>1 DEF AllSettled, Settled, Count, Alone, Buddies, MergeBound
    <3>4. QED
      BY <2>7, <3>1, <3>2, <3>3
  <2>9. CASE MergeBuddy
    <3>0. PICK xs, ys : xs = node[n].items /\ ys = node[c].items
      OBVIOUS
    <3>1. PICK both : both = Joined(q, xs, ys)
      OBVIOUS
    <3>2. /\ c \in NodeIds /\ Len(node[c].prefix) = Len(q)
          /\ \/ /\ xs = <<>> /\ MergeDown(c)
                /\ node' = [node EXCEPT ![n] = DeadNode, ![c].prefix = Front(node[c].prefix)]
             \/ /\ xs # <<>> /\ MergeDown(n)
                /\ node' = [node EXCEPT ![n].items = both, ![n].prefix = Front(@),
                                        ![c] = DeadNode]
      BY <1>7, <2>1, <2>9, <3>0, <3>1 DEF MergeBuddy
    <3>3. c \in nodes /\ c # n /\ node[c].parent = node[n].parent /\ node[c].prefix = Buddy(q)
      BY <2>1, <2>2, <3>2, BuddyBucket
    <3>4. CASE /\ xs = <<>> /\ MergeDown(c)
               /\ node' = [node EXCEPT ![n] = DeadNode, ![c].prefix = Front(node[c].prefix)]
      <4>1. node'[c].parent = node[n].parent
        BY <2>2, <3>2, <3>3, <3>4 DEF Node
      <4>2. ~ AllSettled(nodes)
        BY <2>4, <2>5, <3>0, <3>4
      <4>3. QED
        BY <2>7, <3>4, <4>1, <4>2
    <3>5. CASE /\ xs # <<>> /\ MergeDown(n)
               /\ node' = [node EXCEPT ![n].items = both, ![n].prefix = Front(@), ![c] = DeadNode]
      <4>1. node'[n].parent = node[n].parent /\ node'[n].items = both
        BY <2>2, <3>2, <3>3, <3>5 DEF Node
      <4>2. xs \in Seq(Items) /\ ys \in Seq(Items)
        BY <2>5, <3>0, <3>2, Addresses DEF TreeInv
      <4>3. Count(n)' = Count(n) + Count(c)
        <5>1. Len(both) = Len(xs) + Len(ys)
          BY <3>1, <4>2 DEF Joined
        <5>2. QED
          BY <3>0, <4>1, <5>1 DEF Count
      <4>4. Buddies(n, c)
        BY <2>1, <2>2, <3>3 DEF Buddies
      <4>5. AllSettled(nodes) => Count(n)' > MergeBound
        BY <2>2, <3>3, <4>3, <4>4 DEF AllSettled
      <4>6. QED
        BY <2>7, <3>5, <4>1, <4>5
    <3>6. QED
      BY <3>2, <3>4, <3>5
  <2>10. CASE MergeFwd
    <3>1. /\ CanGrow(n, Front(q)) /\ MergeDown(n)
          /\ node' = [node EXCEPT ![n].prefix = Front(q)]
      BY <1>7, <2>1, <2>10 DEF MergeFwd
    <3>2. Alone(n)
      BY <2>1, <3>1 DEF CanGrow, Alone
    <3>3. node'[n].parent = node[n].parent
      BY <2>2, <3>1 DEF Node
    <3>4. QED
      BY <2>4, <2>5, <2>7, <3>1, <3>2, <3>3
  <2>11. QED
    BY <1>7, <2>8, <2>9, <2>10
<1>8. QED
  BY <1>2, <1>3, <1>4, <1>5, <1>6, <1>7 DEF MergeDownStop

-----------------------------------------------------------------------------
(* The theorems *)

\* Every step keeps paths and levels.
LEMMA NextPath ==
  ASSUME TreeInv, TreeInv', ShapeInv, PathInv, LevelInv, [Next]_vars
  PROVE  PathInv' /\ LevelInv'
<1>1. KeepPlaces
  BY NextPlaces
<1>2. PathInv'
  BY <1>1, PathStep
<1>3. CASE \/ \E k \in Keys : InsertInNewBucket(k) \/ InsertInBucket(k) \/ Erase(k) \/ LookUp(k)
           \/ Destroy
  BY <1>1, <1>2, <1>3, StartLevel
<1>4. CASE SplitNode \/ SplitExhausted \/ SplitFwd
  BY <1>1, <1>2, <1>4, SplitsLevel
<1>5. CASE \/ MergeDownStop \/ ReaddByte \/ AfterReadd \/ MergeEmpty \/ Climb
           \/ MergeFiner \/ MergeBuddy \/ MergeFwd
  BY <1>1, <1>2, <1>5, MergesLevel
<1>6. CASE UNCHANGED vars
  <2>1. UNCHANGED <<fwds, fwd, nodes, node, stack>>
    BY <1>6 DEF vars
  <2>2. QED
    BY <1>2, <2>1 DEF LevelInv, Level, PathTo, Top, Count, MergeBound, AllSettled, Settled,
                      Alone, Buddies
<1>7. QED
  BY <1>2, <1>3, <1>4, <1>5, <1>6 DEF Next, Continue

\* The first trie has one path, that of the root.
LEMMA InitPath == Init => PathInv /\ LevelInv
<1> SUFFICES ASSUME Init PROVE PathInv /\ LevelInv
  OBVIOUS
<1>1. /\ stack = <<>>
      /\ fwd = [f \in FwdIds |-> IF f = Root THEN EmptyRoot ELSE DeadFwd]
  BY DEF Init
<1>2. LevelInv
  BY <1>1 DEF LevelInv
<1> DEFINE path == [f \in FwdIds |-> IF f = Root THEN <<>> ELSE << DeadFwd.path >>]
<1>3. Root \in FwdIds /\ DeadFwd.parent = Root /\ DeadFwd.path \in Slots
  BY PTrieAssumption, DeadTypes DEF Fwd
<1>4. /\ << DeadFwd.path >> \in Seq(Slots) /\ Len(<< DeadFwd.path >>) = 1
      /\ Append(<<>>, DeadFwd.path) = << DeadFwd.path >>
      /\ <<>> \in Seq(Slots) /\ Len(<<>>) = 0
  BY <1>3
<1>5. /\ path \in [FwdIds -> Seq(Slots)] /\ path[Root] = <<>>
      /\ \A f \in FwdIds \ {Root} : path[f] = << DeadFwd.path >>
      /\ \A f \in FwdIds : Len(path[f]) <= 1
  BY <1>3, <1>4
<1> HIDE DEF path
<1>6. \A f \in FwdIds \ {Root} : fwd[f].parent = Root /\ fwd[f].path = DeadFwd.path
  BY <1>1, <1>3
<1>7. Paths(fwd, path)
  BY <1>3, <1>4, <1>5, <1>6 DEF Paths
<1>8. PathInv
  BY <1>5, <1>7 DEF PathInv
<1>9. QED
  BY <1>2, <1>8

\* Between any two steps the path to a forwarding node is a finite one that only the
\* steps that make or free the node change, and calls are at the level of their buckets.
THEOREM PathsHold == Spec => [](PathInv /\ LevelInv)
<1>1. TreeInv /\ TreeInv' /\ ShapeInv /\ PathInv /\ LevelInv /\ [Next]_vars
        => (PathInv /\ LevelInv)'
  BY NextPath
<1>2. QED
  BY <1>1, InitPath, TreeHolds, ShapeHolds, PTL DEF Spec

\* The level that readd_byte is given is that of the bucket (merge_down, readd_byte).
THEOREM LevelsAgree == Spec => []ByteIsLevel
<1>1. TreeInv /\ LevelInv => ByteIsLevel
  BY ByteLevel
<1>2. QED
  BY <1>1, PathsHold, TreeHolds, PTL

=============================================================================
