------------------------ MODULE PTrieIteratorProofs ------------------------
(***************************************************************************)
(* Theorems about iterators, for any keys and any tree that operations     *)
(* build: a bucket that cannot be split further has keys of one slot only, *)
(* so that no bucket has as many items as a byte has values; a ++ or --    *)
(* stays in the tree; comparing an iterator with end() is exact.           *)
(***************************************************************************)
EXTENDS PTrieStorageProofs, PTrieIterator

-----------------------------------------------------------------------------
(* Buckets that cannot be split further *)

\* The invariant, of the values of the variables.
SharedOf(N, nd, F, s, bad) ==
  \A n \in N : Len(nd[n].items) >= SPLITBOUND =>
    \/ OneSlot(Ents(nd[n].items), LevelFn(F, nd[n].parent))
    \/ /\ ~ bad /\ s # <<>> /\ Head(s).fn = "split" /\ Head(s).node = n
       /\ \/ Len(nd[n].items) = SPLITBOUND
          \/ NearlyOneSlot(Ents(nd[n].items), LevelFn(F, nd[n].parent))

\* SharedInv in terms of the variables alone, so that a step can be followed through them.
LEMMA SharedNow == SharedInv <=> SharedOf(nodes, node, fwd, stack, fault)
BY DEF SharedInv, SharedOf, LevelFn, PathTo, PathFn, Level, Count, Running, Top

\* The same after a step.
LEMMA SharedNext == SharedInv' <=> SharedOf(nodes', node', fwd', stack', fault')
BY DEF SharedInv, SharedOf, LevelFn, PathTo, PathFn, Level, Count, Running, Top

\* Fewer keys have one slot too.
LEMMA OneSlotLess ==
  ASSUME NEW S, NEW T, NEW p, OneSlot(S, p), T \subseteq S PROVE OneSlot(T, p)
BY DEF OneSlot

\* The call on top is a split of the bucket n, which may have one key that came to the others.
LastSplit(n) ==
  /\ ~ fault' /\ stack' # <<>> /\ Head(stack').fn = "split" /\ Head(stack').node = n
  /\ \/ Len(node'[n].items) = SPLITBOUND
     \/ NearlyOneSlot(Ents(node'[n].items), LevelFn(fwd', node'[n].parent))

\* The bucket n stays below its parent, gets no key, and is not the one that was split.
NoFuller(n) ==
  /\ n \in nodes /\ node'[n].parent = node[n].parent
  /\ Len(node'[n].items) <= Count(n) /\ Ents(node'[n].items) \subseteq Ents(node[n].items)
  /\ ~ (Running("split") /\ Top.node = n)

\* Buckets that stay are no fuller than before.
LEMMA SharedStep ==
  ASSUME TreeInv, TreeInv', PathInv, KeepPlaces, SharedInv,
         \A n \in nodes' :
           \/ NoFuller(n)
           \/ Len(node'[n].items) < SPLITBOUND
           \/ OneSlot(Ents(node'[n].items), LevelFn(fwd', node'[n].parent))
           \/ LastSplit(n)
  PROVE  SharedInv'
<1>1. ASSUME NEW n \in nodes', Len(node'[n].items) >= SPLITBOUND
      PROVE  OneSlot(Ents(node'[n].items), LevelFn(fwd', node'[n].parent)) \/ LastSplit(n)
  <2>1. Len(node'[n].items) \in Nat /\ SPLITBOUND \in Nat
    <3>1. node'[n].items \in Seq(Items)
      <4>1. node'[n] \in Node
        BY ParentNext DEF TreeInv, TypeOK, BucketsOK
      <4>2. QED
        BY <4>1 DEF Node
    <3>2. QED
      BY <3>1, PTrieAssumption
  <2>2. CASE NoFuller(n)
    <3>1. PICK f : f = node[n].parent /\ f \in fwds /\ f \in fwds'
      BY <2>2, ParentNext, ParentAlive, Addresses DEF NoFuller, TreeInv
    <3>2. LevelFn(fwd', f) = Level(f)
      BY <3>1, LevelStays
    <3>3. n \in NodeIds /\ Count(n) \in Nat
      BY <2>2, CountType, Addresses DEF NoFuller, TreeInv
    <3>4. Count(n) >= SPLITBOUND
      BY <1>1, <2>1, <2>2, <3>3 DEF NoFuller, TreeInv
    <3>5. OneSlot(Ents(node[n].items), Level(f))
      BY <2>2, <3>1, <3>4 DEF NoFuller, SharedInv
    <3>6. QED
      BY <2>2, <3>1, <3>2, <3>5, OneSlotLess DEF NoFuller, TreeInv
  <2>3. QED
    BY <1>1, <2>1, <2>2
<1>2. QED
  BY <1>1, SharedNext DEF SharedOf, LastSplit

\* An erase takes one item out of one bucket.
LEMMA EraseShared ==
  ASSUME <<>> \notin Keys, TreeInv, TreeInv', PathInv, KeepPlaces, ContentInv, SharedInv,
         NEW k \in Keys, Erase(k)
  PROVE  SharedInv'
<1>1. PICK m, n : m = BestMatch(k) /\ n = m.base
  OBVIOUS
<1>2. PICK items, left : items = node[n].items /\ left = RemoveAt(items, m.index)
  OBVIOUS
<1>3. /\ n \in NodeIds /\ stack = <<>> /\ m.found /\ nodes' = nodes
      /\ node' = [node EXCEPT ![n].items = left]
  BY <1>1, <1>2 DEF Erase
<1>4. m.index \in DOMAIN items
  BY <1>1, <1>2, <1>3, Matching DEF ContentInv, Matched
<1>5. items \in Seq(Items) /\ nodes \subseteq NodeIds /\ node \in [NodeIds -> Node]
  BY <1>2, <1>3, Addresses DEF TreeInv
<1>6. Len(left) = Len(items) - 1 /\ Ents(left) \subseteq Ents(items) /\ Len(items) \in Nat
  <2>1. PICK i : i = m.index /\ i \in 1 .. Len(items) /\ left = RemoveAt(items, i)
    BY <1>2, <1>4, <1>5
  <2>2. Len(items) \in Nat /\ i \in Int /\ DOMAIN items = 1 .. Len(items)
    BY <1>5, <2>1
  <2>3. /\ left \in Seq(Items) /\ Len(left) = Len(items) - 1 /\ DOMAIN left = 1 .. Len(items) - 1
        /\ \A j \in 1 .. Len(items) - 1 : /\ j < i => left[j] = items[j] /\ j \in DOMAIN items
                                          /\ j >= i => left[j] = items[j + 1] /\ j + 1 \in DOMAIN items
    BY <1>5, <2>1, RemoveAtIs
  <2>4. ASSUME NEW j \in DOMAIN left PROVE left[j].ent \in Ents(items)
    <3>1. j \in 1 .. Len(items) - 1 /\ j \in Int
      BY <2>2, <2>3
    <3>2. CASE j < i
      BY <2>3, <3>1, <3>2 DEF Ents
    <3>3. CASE j >= i
      BY <2>3, <3>1, <3>3 DEF Ents
    <3>4. QED
      BY <2>2, <3>1, <3>2, <3>3
  <2>5. Ents(left) \subseteq Ents(items)
    BY <2>4 DEF Ents
  <2>6. QED
    BY <2>2, <2>3, <2>5
<1>7. ASSUME NEW c \in nodes' PROVE NoFuller(c)
  <2>1. c \in NodeIds /\ c \in nodes
    BY <1>3, <1>5
  <2>2. CASE c = n
    BY <1>2, <1>3, <1>5, <1>6, <2>1, <2>2 DEF NoFuller, Count, Running, Node
  <2>3. CASE c # n
    <3>1. Count(c) \in Nat
      BY <2>1, CountType
    <3>2. QED
      BY <1>3, <1>5, <2>1, <2>3, <3>1 DEF NoFuller, Count, Running
  <2>4. QED
    BY <2>2, <2>3
<1>8. QED
  BY <1>7, SharedStep

\* A step in which buckets keep their items, but for small ones.
LEMMA SmallShared ==
  ASSUME TreeInv, TreeInv', PathInv, KeepPlaces, SharedInv, ~ Running("split"),
         \A c \in nodes' :
           \/ c \in nodes /\ node'[c].parent = node[c].parent /\ node'[c].items = node[c].items
           \/ Len(node'[c].items) < SPLITBOUND
  PROVE  SharedInv'
<1>1. ASSUME NEW c \in nodes', c \in nodes, node'[c].parent = node[c].parent,
             node'[c].items = node[c].items
      PROVE  NoFuller(c)
  <2>1. Count(c) \in Nat
    BY <1>1, CountType, Addresses DEF TreeInv
  <2>2. QED
    BY <1>1, <2>1 DEF NoFuller, Count
<1>2. QED
  BY <1>1, SharedStep

\* The merges, the destructor, and what changes no bucket.
LEMMA MergesShared ==
  ASSUME TreeInv, TreeInv', PathInv, KeepPlaces, ContentInv, SharedInv,
         \/ MergeDownStop \/ ReaddByte \/ AfterReadd \/ MergeEmpty \/ Climb
         \/ MergeFiner \/ MergeBuddy \/ MergeFwd
         \/ Destroy \/ \E k \in Keys : LookUp(k)
  PROVE  SharedInv'
<1>1. node \in [NodeIds -> Node] /\ nodes \subseteq NodeIds
  BY Addresses DEF TreeInv
<1>2. CASE MergeDownStop \/ AfterReadd \/ Climb \/ \E k \in Keys : LookUp(k)
  <2>1. ~ Running("split") /\ nodes' = nodes /\ node' = node
    BY <1>2 DEF MergeDownStop, AfterReadd, Climb, LookUp, Running
  <2>2. QED
    BY <2>1, SmallShared
<1>3. CASE ReaddByte
  <2>1. PICK n, f : n = Top.node /\ f = node[n].parent
    OBVIOUS
  <2>2. PICK up, t : up = fwd[f].parent /\ t = fwd[f].path
    OBVIOUS
  <2>3. Merging /\ n \in nodes /\ ~ Running("split")
    BY <1>3, <2>1, MergeFacts DEF ReaddByte, Merging
  <2>4. PICK moved : /\ Len(moved) = Len(node[n].items)
                     /\ node' = [node EXCEPT ![n] = [prefix |-> t, parent |-> up, items |-> moved]]
    BY <1>3, <2>1, <2>2, ReaddByteParts DEF ReaddedTo
  <2>5. nodes' = nodes
    BY <1>3, <2>1, <2>2, ReaddByteParts DEF ReaddedTo
  <2>6. Len(node'[n].items) < SPLITBOUND
    BY <1>1, <2>1, <2>3, <2>4, MergingSmall DEF Count
  <2>7. \A c \in nodes' : c # n => c \in nodes /\ node'[c] = node[c]
    BY <1>1, <2>4, <2>5
  <2>8. QED
    BY <2>3, <2>6, <2>7, SmallShared
<1>4. CASE MergeEmpty \/ MergeFiner \/ MergeFwd
  <2>1. PICK n : n = Top.node
    OBVIOUS
  <2>2. n \in nodes /\ ~ Running("split")
    BY <1>4, <2>1, MergeFacts DEF MergeEmpty, MergeFiner, MergeFwd, MergingRegular, Merging
  <2>3. \/ nodes' = nodes \ {n} /\ node' = [node EXCEPT ![n] = DeadNode]
        \/ nodes' = nodes /\ node' = node
        \/ nodes' = nodes /\ node' = [node EXCEPT ![n].prefix = Front(node[n].prefix)]
    BY <1>4, <2>1 DEF MergeEmpty, MergeFiner, MergeFwd, Delete
  <2>4. ASSUME NEW c \in nodes'
        PROVE  c \in nodes /\ node'[c].parent = node[c].parent /\ node'[c].items = node[c].items
    <3>1. CASE nodes' = nodes \ {n} /\ node' = [node EXCEPT ![n] = DeadNode]
      BY <1>1, <3>1
    <3>2. CASE nodes' = nodes /\ node' = node
      BY <3>2
    <3>3. CASE nodes' = nodes /\ node' = [node EXCEPT ![n].prefix = Front(node[n].prefix)]
      <4>1. c \in NodeIds /\ node[c] \in Node
        BY <1>1, <3>3
      <4>2. QED
        BY <1>1, <3>3, <4>1 DEF Node
    <3>4. QED
      BY <2>3, <3>1, <3>2, <3>3
  <2>5. QED
    BY <2>2, <2>4, SmallShared
<1>5. CASE MergeBuddy
  <2>1. PICK n, c : n = Top.node /\ c = BuddyOf(n)
    OBVIOUS
  <2>2. PICK xs, ys, both : /\ xs = node[n].items /\ ys = node[c].items
                            /\ both = Joined(node[n].prefix, xs, ys)
    OBVIOUS
  <2>3. /\ n \in nodes /\ c \in NodeIds /\ ~ Running("split") /\ node[n].prefix # <<>>
        /\ xs \in Seq(Items)
    BY <1>5, <2>1, <2>2, MergeFacts DEF MergeBuddy, MergingRegular, Merging
  <2>4. \/ /\ nodes' = nodes \ {n}
           /\ node' = [node EXCEPT ![n] = DeadNode, ![c].prefix = Front(node[c].prefix)]
        \/ nodes' = nodes /\ node' = node
        \/ /\ Len(xs) + Len(ys) < SPLITBOUND /\ nodes' = nodes \ {c}
           /\ node' = [node EXCEPT ![n].items = both, ![n].prefix = Front(@), ![c] = DeadNode]
    BY <1>5, <2>1, <2>2 DEF MergeBuddy, Delete
  <2>5. c # n /\ c \in nodes /\ ys \in Seq(Items)
    BY <2>1, <2>2, <2>3, BuddyBucket, Addresses DEF TreeInv
  <2>6. Len(both) = Len(xs) + Len(ys)
    <3>1. Len(xs \o ys) = Len(xs) + Len(ys) /\ Len(ys \o xs) = Len(xs) + Len(ys)
      BY <2>3, <2>5
    <3>2. both = ys \o xs \/ both = xs \o ys
      BY <2>2 DEF Joined
    <3>3. QED
      BY <3>1, <3>2
  <2>7. \A x \in nodes' : \/ x \in nodes /\ node'[x].parent = node[x].parent /\ node'[x].items = node[x].items
                          \/ Len(node'[x].items) < SPLITBOUND
    <3>1. CASE /\ nodes' = nodes \ {n}
               /\ node' = [node EXCEPT ![n] = DeadNode, ![c].prefix = Front(node[c].prefix)]
      BY <1>1, <2>3, <2>5, <3>1 DEF Node
    <3>2. CASE nodes' = nodes /\ node' = node
      BY <3>2
    <3>3. CASE /\ Len(xs) + Len(ys) < SPLITBOUND /\ nodes' = nodes \ {c}
               /\ node' = [node EXCEPT ![n].items = both, ![n].prefix = Front(@), ![c] = DeadNode]
      <4>1. node'[n].items = both /\ \A x \in nodes' : x # n => x \in nodes /\ node'[x] = node[x]
        BY <1>1, <2>3, <2>5, <3>3 DEF Node
      <4>2. QED
        BY <2>6, <3>3, <4>1
    <3>4. QED
      BY <2>4, <3>1, <3>2, <3>3
  <2>8. QED
    BY <2>3, <2>7, SmallShared
<1>6. CASE Destroy
  <2>1. nodes' = {} /\ stack = <<>>
    BY <1>6 DEF Destroy
  <2>2. QED
    BY <2>1, SharedNext DEF SharedOf
<1>7. QED
  BY <1>2, <1>3, <1>4, <1>5, <1>6

\* An insert adds one item to one bucket.
LEMMA AddShared ==
  ASSUME TreeInv, TreeInv', PathInv, KeepPlaces, SharedInv, stack = <<>>,
         NEW n \in nodes', NEW k, NEW items,
         \A c \in nodes' : c # n => c \in nodes /\ node'[c] = node[c],
         node'[n].items = items, Len(items) \in Nat,
         \/ Len(items) < SPLITBOUND
         \/ /\ ~ fault' /\ stack' # <<>> /\ Head(stack').fn = "split" /\ Head(stack').node = n
            /\ \/ Len(items) = SPLITBOUND
               \/ /\ n \in nodes /\ node'[n].parent = node[n].parent /\ Count(n) >= SPLITBOUND
                  /\ Ents(items) = Ents(node[n].items) \cup {k}
  PROVE  SharedInv'
<1>1. ASSUME NEW c \in nodes', c # n PROVE NoFuller(c)
  <2>1. c \in nodes /\ node'[c] = node[c] /\ ~ Running("split")
    BY <1>1 DEF Running
  <2>2. Count(c) \in Nat
    BY <2>1, CountType, Addresses DEF TreeInv
  <2>3. QED
    BY <2>1, <2>2 DEF NoFuller, Count
<1>2. CASE Len(items) < SPLITBOUND \/ (stack' # <<>> /\ Len(items) = SPLITBOUND)
  BY <1>1, <1>2, SharedStep DEF LastSplit
<1>3. CASE /\ ~ fault' /\ stack' # <<>> /\ Head(stack').fn = "split" /\ Head(stack').node = n
           /\ n \in nodes /\ node'[n].parent = node[n].parent /\ Count(n) >= SPLITBOUND
           /\ Ents(items) = Ents(node[n].items) \cup {k}
  <2>1. PICK f : f = node[n].parent /\ f \in fwds /\ f \in fwds'
    BY <1>3, ParentNext, ParentAlive DEF TreeInv
  <2>2. LevelFn(fwd', f) = Level(f)
    BY <2>1, LevelStays
  <2>3. OneSlot(Ents(node[n].items), Level(f))
    BY <1>3, <2>1 DEF SharedInv, Running
  <2>4. OneSlot(Ents(items) \ {k}, Level(f))
    BY <1>3, <2>3, OneSlotLess
  <2>5. k \in Ents(items)
    BY <1>3
  <2>6. LastSplit(n)
    BY <1>3, <2>1, <2>2, <2>4, <2>5 DEF LastSplit, NearlyOneSlot
  <2>7. QED
    BY <1>1, <2>6, SharedStep
<1>4. QED
  BY <1>2, <1>3

\* insert, where it makes a bucket.
LEMMA InsertInNewBucketShared ==
  ASSUME <<>> \notin Keys, TreeInv, TreeInv', PathInv, KeepPlaces, ContentInv, SharedInv,
         NEW k \in Keys, InsertInNewBucket(k)
  PROVE  SharedInv'
<1>1. PICK m, n, s : m = BestMatch(k) /\ n = FreshNode /\ s = Slot(k, m.p)
  OBVIOUS
<1>2. PICK b, x : b = m.p \div BDIV /\ x = Item(k, b)
  OBVIOUS
<1>3. /\ n \in NodeIds /\ n \notin nodes /\ m.base = m.fwd /\ Located(k, m)
      /\ stack = <<>> /\ nodes' = nodes \cup {n}
  BY <1>1, Addresses DEF InsertInNewBucket, FreshNode, TreeInv
<1>4. m.fwd \in fwds /\ Level(m.fwd) = m.p
  BY <1>1, Places
<1>5. m.base \notin NodeIds
  BY <1>3, <1>4, Addresses DEF TreeInv
<1>6. m.index = 1
  <2>1. Matched(k, m)
    BY <1>1, Matching DEF ContentInv
  <2>2. QED
    BY <1>5, <2>1 DEF Matched
<1>7. PICK bit \in 0 .. BSIZE :
        AddItem(k, m, n, [prefix |-> SubSeq(s, 1, bit), parent |-> m.fwd, items |-> <<>>], 0)
  BY <1>1 DEF InsertInNewBucket
<1>8. PICK old : old = [prefix |-> SubSeq(s, 1, bit), parent |-> m.fwd, items |-> <<>>]
  OBVIOUS
<1>9. PICK new : new = InsertAt(old.items, m.index, x)
  OBVIOUS
<1>10. node' = [node EXCEPT ![n] = [old EXCEPT !.items = new]]
  BY <1>2, <1>7, <1>8, <1>9 DEF AddItem, Item
<1>11. Len(new) = 1
  <2>1. b \in Nat
    <3>1. m.p \in Nat
      BY <1>3 DEF Located
    <3>2. QED
      BY <1>2, <3>1, LevelByte
  <2>2. x \in Items
    BY <1>2, <2>1, ItemIs
  <2>3. PICK e, i : e = <<>> /\ i = 1 /\ e = old.items
    BY <1>8
  <2>4. e \in Seq(Items) /\ Len(e) = 0 /\ i \in 1 .. Len(e) + 1
    BY <2>3
  <2>5. Inserted(e, i, x, InsertAt(e, i, x))
    BY <2>2, <2>4, InsertAtIs
  <2>6. new = InsertAt(e, i, x)
    BY <1>6, <1>9, <2>3
  <2>7. QED
    BY <2>4, <2>5, <2>6 DEF Inserted
<1>12. node'[n].items = new /\ \A c \in nodes' : c # n => c \in nodes /\ node'[c] = node[c]
  BY <1>3, <1>8, <1>10, Addresses DEF TreeInv
<1>13. Len(new) \in Nat /\ Len(new) < SPLITBOUND /\ n \in nodes'
  BY <1>3, <1>11, PTrieAssumption
<1>14. QED
  BY <1>3, <1>12, <1>13, AddShared

\* insert into a bucket that is there.
LEMMA InsertInBucketShared ==
  ASSUME <<>> \notin Keys, TreeInv, TreeInv', PathInv, KeepPlaces, ContentInv, SharedInv,
         ContentInv', NEW k \in Keys, InsertInBucket(k)
  PROVE  SharedInv'
<1>1. PICK m, n : m = BestMatch(k) /\ n = m.base
  OBVIOUS
<1>2. PICK items, path, q : items = node[n].items /\ path = PathTo(m.fwd) /\ q = node[n].prefix
  OBVIOUS
<1>3. PICK b : b = m.p \div BDIV
  OBVIOUS
<1>4. PICK new : new = InsertAt(items, m.index, Item(k, b))
  OBVIOUS
<1>5. /\ n \in NodeIds /\ stack = <<>> /\ ~ m.found /\ UNCHANGED <<fwds, fwd, nodes>>
      /\ AddItem(k, m, n, node[n], totsize[n])
  BY <1>1 DEF InsertInBucket
<1>6. /\ m.fwd \in fwds /\ m.p = Level(m.fwd) /\ Spells(k, m.fwd)
      /\ n \in nodes /\ node[n].parent = m.fwd /\ Covers(node[n].prefix, Slot(k, m.p))
  BY <1>1, <1>5, Places
<1>7. Lists(items, path, q)
  BY <1>2, <1>6, Held DEF ContentInv
<1>8. b = Len(path) \div BDIV /\ Belongs(k, path, q)
  BY <1>2, <1>3, <1>6 DEF Level, Spells, Belongs
<1>9. IsPlace(items, k, m.index)
  <2>1. Matched(k, m)
    BY <1>1, Matching DEF ContentInv
  <2>2. QED
    BY <1>1, <1>2, <1>5, <2>1 DEF Matched
<1>10. Len(new) = Len(items) + 1 /\ Ents(new) = Ents(items) \cup {k}
  BY <1>4, <1>7, <1>8, <1>9, ListsInsert
<1>11. /\ node' = [node EXCEPT ![n] = [node[n] EXCEPT !.items = new]]
       /\ stack' = IF Full(Len(items) + 1)
                   THEN <<Frame("split", n, m.fwd, Len(k) - b, m.p)>>
                   ELSE <<>>
  BY <1>2, <1>3, <1>4, <1>5 DEF AddItem, Item
<1>12. /\ node'[n].items = new /\ node'[n].parent = node[n].parent
       /\ \A c \in nodes' : c # n => c \in nodes /\ node'[c] = node[c]
  BY <1>5, <1>6, <1>11, Addresses DEF TreeInv, Node
<1>13. Len(items) \in Nat /\ SPLITBOUND \in Nat
  BY <1>7, PTrieAssumption DEF Lists
<1>14. CASE Len(new) < SPLITBOUND
  BY <1>5, <1>6, <1>10, <1>12, <1>13, <1>14, AddShared
<1>15. CASE Len(new) >= SPLITBOUND
  <2>1. PICK frame : frame = Frame("split", n, m.fwd, Len(k) - b, m.p)
    OBVIOUS
  <2>2. stack' = <<frame>> /\ frame.fn = "split" /\ frame.node = n
    BY <1>10, <1>11, <1>15, <2>1 DEF Full, Frame
  <2>3. ~ fault' /\ stack' # <<>> /\ Head(stack').fn = "split" /\ Head(stack').node = n
    BY <2>2 DEF ContentInv
  <2>4. Len(new) = SPLITBOUND \/ Count(n) >= SPLITBOUND
    BY <1>2, <1>10, <1>13, <1>15 DEF Count
  <2>5. Ents(new) = Ents(node[n].items) \cup {k} /\ Len(new) \in Nat
    BY <1>2, <1>10, <1>13
  <2>6. n \in nodes' /\ n \in nodes
    BY <1>5, <1>6
  <2>7. QED
    BY <1>5, <1>12, <2>3, <2>4, <2>5, <2>6, AddShared
<1>16. QED
  BY <1>10, <1>13, <1>14, <1>15

-----------------------------------------------------------------------------
(* Splits *)

\* Two buckets that share keys which but for one have the same slot, although their ranges
\* have no slot in common, have keys of one slot each.
LEMMA SharesOneSlot ==
  ASSUME NEW S, NEW p, NearlyOneSlot(S, p), NEW G, NEW H, G \subseteq S, H \subseteq S,
         G # {}, H # {}, \A g \in G, h \in H : Slot(g, p) # Slot(h, p)
  PROVE  OneSlot(G, p) /\ OneSlot(H, p)
BY DEF OneSlot, NearlyOneSlot

\* What a split leaves of a bucket, if the bucket is no fuller than one that has just
\* become full, or all its keys but one have the same slot.
Halving(n, h) ==
  /\ n \in nodes' /\ h \in nodes' /\ stack' = <<>>
  /\ \A c \in nodes' \ {n, h} : c \in nodes /\ c # Top.node /\ node'[c] = node[c]
  /\ \A c \in {n, h} : \/ Len(node'[c].items) < SPLITBOUND
                       \/ OneSlot(Ents(node'[c].items), LevelFn(fwd', node'[c].parent))

\* A split that is over.
LEMMA HalvesShared ==
  ASSUME TreeInv, TreeInv', PathInv, KeepPlaces, SharedInv, NEW n, NEW h, Halving(n, h)
  PROVE  SharedInv'
<1>1. ASSUME NEW c \in nodes' \ {n, h} PROVE NoFuller(c)
  <2>1. c \in nodes /\ node'[c] = node[c] /\ c # Top.node
    BY DEF Halving
  <2>2. Count(c) \in Nat
    BY <2>1, CountType, Addresses DEF TreeInv
  <2>3. QED
    BY <2>1, <2>2 DEF NoFuller, Count
<1>2. QED
  BY <1>1, SharedStep DEF Halving

\* A split that goes on with the same bucket, which keeps its keys.
LEMMA SplitOnShared ==
  ASSUME TreeInv, TreeInv', PathInv, KeepPlaces, SharedInv, Running("split"),
         NEW n, n = Top.node, n \in nodes, nodes' = nodes,
         \A c \in nodes : c # n => node'[c] = node[c],
         ~ fault', stack' # <<>>, Head(stack').fn = "split", Head(stack').node = n,
         \/ Len(node'[n].items) = SPLITBOUND
         \/ node'[n].parent = node[n].parent /\ node'[n].items = node[n].items
  PROVE  SharedInv'
<1>1. ASSUME NEW c \in nodes', c # n PROVE NoFuller(c)
  <2>1. Count(c) \in Nat
    BY <1>1, CountType, Addresses DEF TreeInv
  <2>2. QED
    BY <1>1, <2>1 DEF NoFuller, Count
<1>2. CASE Len(node'[n].items) = SPLITBOUND
  BY <1>1, <1>2, SharedStep DEF LastSplit
<1>3. CASE node'[n].parent = node[n].parent /\ node'[n].items = node[n].items
  <2>1. PICK f : f = node[n].parent /\ f \in fwds /\ f \in fwds'
    BY <1>3, ParentNext, ParentAlive DEF TreeInv
  <2>2. LevelFn(fwd', f) = Level(f)
    BY <2>1, LevelStays
  <2>3. \/ Len(node'[n].items) < SPLITBOUND
        \/ OneSlot(Ents(node'[n].items), LevelFn(fwd', node'[n].parent))
        \/ LastSplit(n)
    <3>1. Count(n) \in Nat /\ SPLITBOUND \in Nat
      BY CountType, Addresses, PTrieAssumption DEF TreeInv
    <3>2. \/ Count(n) < SPLITBOUND
          \/ OneSlot(Ents(node[n].items), Level(f))
          \/ Count(n) = SPLITBOUND
          \/ NearlyOneSlot(Ents(node[n].items), Level(f))
      BY <2>1, <3>1 DEF SharedInv
    <3>3. QED
      BY <1>3, <2>1, <2>2, <3>2 DEF LastSplit, Count
  <2>4. QED
    BY <1>1, <2>3, SharedStep
<1>4. QED
  BY <1>2, <1>3

\* After a step, too, the range of a bucket has the slots of its keys.
LEMMA CoversNext ==
  ASSUME TreeInv', ItemsOK', NEW n \in nodes', NEW k \in Ents(node'[n].items)
  PROVE  Covers(node'[n].prefix, Slot(k, LevelFn(fwd', node'[n].parent))) /\ k \in Keys
<1>1. PICK f, q, items : f = node'[n].parent /\ q = node'[n].prefix /\ items = node'[n].items
  OBVIOUS
<1>2. PICK path : path = PathFn(fwd')[f]
  OBVIOUS
<1>3. Listing(items, path, q)
  BY <1>1, <1>2, PartsNext DEF ItemsOf
<1>4. PICK i \in DOMAIN items : items[i].ent = k
  BY <1>1 DEF Ents
<1>5. Belongs(k, path, q)
  BY <1>3, <1>4 DEF Listing
<1>6. k \in Keys
  <2>1. node'[n] \in Node
    BY DEF TreeInv, TypeOK, BucketsOK
  <2>2. items \in Seq(Items)
    BY <1>1, <2>1 DEF Node
  <2>3. items[i] \in Items
    BY <1>4, <2>2
  <2>4. QED
    BY <1>4, <2>3 DEF Items
<1>7. QED
  BY <1>1, <1>2, <1>5, <1>6 DEF Belongs, LevelFn

\* The two halves of a range have no slot in common.
LEMMA HalvesApart ==
  ASSUME NEW q \in SlotPrefixes, Len(q) < BSIZE, NEW s, NEW t,
         Covers(Append(q, 0), s), Covers(Append(q, 1), t)
  PROVE  s # t
<1>1. q \in Seq({0, 1}) /\ Len(q) \in Nat
  BY PrefixFacts
<1>2. Len(q) + 1 \in DOMAIN Append(q, 0) /\ Len(q) + 1 \in DOMAIN Append(q, 1)
  BY <1>1
<1>3. s[Len(q) + 1] = 0 /\ t[Len(q) + 1] = 1
  BY <1>1, <1>2 DEF Covers
<1>4. QED
  BY <1>3

\* A range of full length is one slot.
LEMMA CoversWhole ==
  ASSUME NEW q \in SlotPrefixes, Len(q) = BSIZE, NEW s \in Slots, Covers(q, s)
  PROVE  s = q
BY PrefixFacts DEF Covers, Slots

\* split_node.
LEMMA SplitNodeShared ==
  ASSUME <<>> \notin Keys, TreeInv, TreeInv', ShapeInv, PathInv, LevelInv, KeepPlaces, ContentInv,
         ContentInv', SharedInv, SplitNode
  PROVE  SharedInv'
<1>1. PICK n, h : n = Top.node /\ h = FreshNode
  OBVIOUS
<1>2. PICK items, q : items = node[n].items /\ q = node[n].prefix
  OBVIOUS
<1>3. PICK low, high : low = Append(q, 0) /\ high = Append(q, 1)
  OBVIOUS
<1>4. PICK count : count = LowCount(items, 1, Top.p % BDIV, Len(low))
  OBVIOUS
<1>5. PICK lows, highs : /\ lows = SubSeq(items, 1, count)
                         /\ highs = SubSeq(items, count + 1, Len(items))
  OBVIOUS
<1>6. PICK path : path = PathTo(Top.fwd)
  OBVIOUS
<1>7. Running("split") /\ Len(q) < BSIZE /\ fwds' = fwds
  BY <1>1, <1>2 DEF SplitNode
<1>8. /\ n \in nodes /\ n \in NodeIds /\ Top.fwd = node[n].parent /\ Top.fwd \in fwds
      /\ Lists(items, path, q) /\ Top.p = Len(path) /\ stack # <<>> /\ Len(stack) = 1
  BY <1>1, <1>2, <1>6, <1>7, SplitFacts
<1>9. \/ /\ node' = [node EXCEPT ![n].prefix = high]
         /\ UNCHANGED <<nodes, entry, stack>>
      \/ /\ node' = [node EXCEPT ![n].prefix = low]
         /\ UNCHANGED <<nodes, entry, stack>>
      \/ /\ lows # <<>> /\ highs # <<>> /\ nodes # NodeIds
         /\ nodes' = nodes \cup {h}
         /\ node' = [node EXCEPT ![n] = [node[n] EXCEPT !.prefix = low, !.items = lows],
                                 ![h] = [prefix |-> high, parent |-> Top.fwd, items |-> highs]]
         /\ Return
  BY <1>1, <1>2, <1>3, <1>4, <1>5 DEF SplitNode
<1>10. node \in [NodeIds -> Node] /\ nodes \subseteq NodeIds /\ ~ fault'
  BY Addresses DEF TreeInv, ContentInv
<1>11. CASE /\ \E r : node' = [node EXCEPT ![n].prefix = r]
            /\ UNCHANGED <<nodes, entry, stack>>
  <2>1. /\ node'[n].parent = node[n].parent /\ node'[n].items = node[n].items
        /\ \A c \in nodes : c # n => node'[c] = node[c]
    BY <1>8, <1>10, <1>11 DEF Node
  <2>2. stack' # <<>> /\ Head(stack').fn = "split" /\ Head(stack').node = n
    BY <1>1, <1>7, <1>11 DEF Running, Top
  <2>3. QED
    BY <1>1, <1>7, <1>8, <1>10, <1>11, <2>1, <2>2, SplitOnShared
<1>12. CASE /\ lows # <<>> /\ highs # <<>> /\ nodes # NodeIds
            /\ nodes' = nodes \cup {h}
            /\ node' = [node EXCEPT ![n] = [node[n] EXCEPT !.prefix = low, !.items = lows],
                                    ![h] = [prefix |-> high, parent |-> Top.fwd, items |-> highs]]
            /\ Return
  <2>1. h \in NodeIds /\ h \notin nodes /\ h # n
    BY <1>1, <1>8, <1>10, <1>12, Addresses DEF FreshNode, TreeInv
  <2>2. /\ node'[n].prefix = low /\ node'[n].parent = Top.fwd /\ node'[n].items = lows
        /\ node'[h].prefix = high /\ node'[h].parent = Top.fwd /\ node'[h].items = highs
        /\ \A c \in nodes : c # n => node'[c] = node[c]
    BY <1>8, <1>10, <1>12, <2>1 DEF Node
  <2>3. items \in Seq(Items) /\ q \in SlotPrefixes
    BY <1>8 DEF Lists
  <2>4. count \in 0 .. Len(items) /\ Parts(items, count, lows, highs)
    <3>1. count \in 0 .. Len(items)
      BY <1>4, <2>3, LowCountRange
    <3>2. QED
      BY <1>5, <2>3, <3>1, PartsIs
  <2>5. /\ Len(lows) + Len(highs) = Len(items) /\ Len(lows) \in Nat \ {0} /\ Len(highs) \in Nat \ {0}
        /\ lows \in Seq(Items) /\ highs \in Seq(Items)
    <3>1. /\ Len(lows) = count /\ Len(highs) = Len(items) - count
          /\ lows \in Seq(Items) /\ highs \in Seq(Items)
      BY <2>4 DEF Parts
    <3>2. QED
      BY <1>12, <2>3, <2>4, <3>1
  <2>6. Ents(items) = Ents(lows) \cup Ents(highs)
    BY <1>8, <2>4, ListsParts
  <2>7. PICK p : p = Len(path)
    OBVIOUS
  <2>8. Level(Top.fwd) = p /\ LevelFn(fwd', Top.fwd) = p
    BY <1>6, <1>7, <1>8, <2>7, LevelStays DEF Level
  <2>9. ASSUME NEW g \in Ents(lows), NEW k \in Ents(highs) PROVE Slot(g, p) # Slot(k, p)
    <3>1. n \in nodes' /\ h \in nodes'
      BY <1>8, <1>12
    <3>2. g \in Ents(node'[n].items) /\ k \in Ents(node'[h].items)
      BY <2>2
    <3>3. Covers(low, Slot(g, p)) /\ Covers(high, Slot(k, p))
      BY <2>2, <2>8, <3>1, <3>2, CoversNext DEF ContentInv
    <3>4. QED
      BY <1>3, <1>7, <2>3, <3>3, HalvesApart
  <2>10. Ents(lows) # {} /\ Ents(highs) # {}
    BY <2>5 DEF Ents
  <2>11. \A c \in {n, h} : \/ Len(node'[c].items) < SPLITBOUND
                           \/ OneSlot(Ents(node'[c].items), LevelFn(fwd', node'[c].parent))
    <3>1. CASE Len(items) <= SPLITBOUND
      BY <2>2, <2>5, <3>1, PTrieAssumption
    <3>2. CASE Len(items) > SPLITBOUND
      <4>1. OneSlot(Ents(items), p) \/ NearlyOneSlot(Ents(items), p)
        <5>1. Count(n) >= SPLITBOUND /\ Count(n) # SPLITBOUND
          BY <1>2, <2>3, <3>2, PTrieAssumption DEF Count
        <5>2. QED
          BY <1>2, <1>8, <2>8, <5>1 DEF SharedInv
      <4>2. NearlyOneSlot(Ents(items), p)
        <5>1. PICK k : k \in Ents(items)
          BY <2>6, <2>10
        <5>2. QED
          BY <4>1, <5>1, OneSlotLess DEF NearlyOneSlot
      <4>3. OneSlot(Ents(lows), p) /\ OneSlot(Ents(highs), p)
        <5>1. PICK S, G, H : S = Ents(items) /\ G = Ents(lows) /\ H = Ents(highs)
          OBVIOUS
        <5>2. /\ NearlyOneSlot(S, p) /\ G \subseteq S /\ H \subseteq S /\ G # {} /\ H # {}
              /\ \A x \in G, y \in H : Slot(x, p) # Slot(y, p)
          BY <2>6, <2>9, <2>10, <4>2, <5>1
        <5>3. OneSlot(G, p) /\ OneSlot(H, p)
          BY <5>2, SharesOneSlot
        <5>4. QED
          BY <5>1, <5>3
      <4>4. QED
        BY <2>2, <2>8, <4>3
    <3>3. QED
      BY <2>3, <3>1, <3>2, PTrieAssumption
  <2>12. stack' = <<>>
    <3>1. stack \in Seq(Frames)
      BY DEF TreeInv, TypeOK
    <3>2. QED
      BY <1>8, <1>12, <3>1 DEF Return
  <2>13. Halving(n, h)
    BY <1>1, <1>8, <1>12, <2>2, <2>11, <2>12 DEF Halving
  <2>14. QED
    BY <2>13, HalvesShared
<1>13. QED
  BY <1>9, <1>11, <1>12

\* split_node that finds no bytes left: its keys have the same slot in any place.
LEMMA SplitExhaustedShared ==
  ASSUME <<>> \notin Keys, TreeInv, TreeInv', ShapeInv, PathInv, LevelInv, KeepPlaces, ContentInv,
         ContentInv', SharedInv, SplitExhausted
  PROVE  SharedInv'
<1>1. PICK n : n = Top.node
  OBVIOUS
<1>2. /\ Running("split") /\ Len(node[n].prefix) = BSIZE /\ Return
      /\ nodes' = nodes /\ node' = node
  BY <1>1 DEF SplitExhausted
<1>3. n \in nodes /\ Len(stack) = 1
  BY <1>1, <1>2, SplitFacts
<1>4. stack' = <<>>
  <2>1. stack \in Seq(Frames)
    BY DEF TreeInv, TypeOK
  <2>2. QED
    BY <1>2, <1>3, <2>1 DEF Return
<1>5. OneSlot(Ents(node'[n].items), LevelFn(fwd', node'[n].parent))
  <2>1. PICK p, q : p = LevelFn(fwd', node'[n].parent) /\ q = node'[n].prefix
    OBVIOUS
  <2>2. n \in nodes' /\ q \in SlotPrefixes /\ Len(q) = BSIZE /\ p \in Nat
    <3>1. PICK f : f = node[n].parent /\ f \in fwds /\ f \in fwds'
      BY <1>2, <1>3, ParentNext, ParentAlive DEF TreeInv
    <3>2. p \in Nat
      BY <1>2, <2>1, <3>1, LevelStays
    <3>3. node[n].prefix \in SlotPrefixes
      BY <1>3, Addresses DEF TreeInv, Node
    <3>4. QED
      BY <1>2, <1>3, <2>1, <3>2, <3>3
  <2>3. ASSUME NEW k \in Ents(node'[n].items) PROVE Slot(k, p) = q
    <3>1. Covers(q, Slot(k, p)) /\ k \in Keys
      BY <2>1, <2>2, CoversNext DEF ContentInv
    <3>2. Slot(k, p) \in Slots
      BY <2>2, <3>1, SlotType
    <3>3. QED
      BY <2>2, <3>1, <3>2, CoversWhole
  <2>4. QED
    BY <2>1, <2>3 DEF OneSlot
<1>6. Halving(n, n)
  BY <1>1, <1>2, <1>3, <1>4, <1>5 DEF Halving
<1>7. QED
  BY <1>6, HalvesShared

\* split_fwd.
LEMMA SplitFwdShared ==
  ASSUME <<>> \notin Keys, TreeInv, TreeInv', ShapeInv, PathInv, LevelInv, KeepPlaces, ContentInv,
         ContentInv', SharedInv, SplitFwd
  PROVE  SharedInv'
<1>1. PICK n, path, p : n = Top.node /\ path = PathTo(Top.fwd) /\ p = Top.p + 1
  OBVIOUS
<1>2. PICK cut : cut = IF p % BDIV = 0 THEN 1 ELSE 0
  OBVIOUS
<1>3. PICK g, l, down, moved, lows, highs :
           SplitTo(n, path, p, cut, g, l, down, moved, lows, highs)
  BY <1>1, <1>2, SplitFwdResult
<1>4. /\ l = FreshNode /\ ~ fault' /\ Len(moved) = SPLITBOUND
      /\ Len(lows) + Len(highs) = SPLITBOUND /\ Len(lows) \in Nat /\ Len(highs) \in Nat
      /\ Lists(lows, down, << 0 >>) /\ Lists(highs, down, << 1 >>)
  BY <1>3 DEF SplitTo, SplitDown
<1>5. \/ /\ \E r : node' = [node EXCEPT ![n] = [prefix |-> r, parent |-> g, items |-> moved]]
         /\ Become(Frame("split", n, g, Top.size - cut, p))
         /\ nodes' = nodes
      \/ /\ lows # <<>> /\ highs # <<>> /\ nodes # NodeIds
         /\ nodes' = nodes \cup {l}
         /\ node' = [node EXCEPT ![n] = [prefix |-> << 1 >>, parent |-> g, items |-> highs],
                                 ![l] = [prefix |-> << 0 >>, parent |-> g, items |-> lows]]
         /\ Return
  BY <1>3 DEF SplitTo
<1>6. Running("split")
  BY DEF SplitFwd
<1>7. n \in nodes /\ n \in NodeIds /\ stack # <<>> /\ Len(stack) = 1
  BY <1>1, <1>6, SplitFacts
<1>8. node \in [NodeIds -> Node] /\ nodes \subseteq NodeIds
  BY Addresses DEF TreeInv
<1>9. CASE /\ \E r : node' = [node EXCEPT ![n] = [prefix |-> r, parent |-> g, items |-> moved]]
           /\ Become(Frame("split", n, g, Top.size - cut, p))
           /\ nodes' = nodes
  <2>1. node'[n].items = moved /\ \A c \in nodes : c # n => node'[c] = node[c]
    BY <1>7, <1>8, <1>9
  <2>2. PICK size : size = Top.size - cut
    OBVIOUS
  <2>3. stack' # <<>> /\ Top' = Frame("split", n, g, size, p)
    BY <1>7, <1>9, <2>2, BecomeTop DEF TreeInv
  <2>4. Head(stack').fn = "split" /\ Head(stack').node = n
    BY <2>3 DEF Frame, Top
  <2>5. QED
    BY <1>1, <1>4, <1>6, <1>7, <1>9, <2>1, <2>3, <2>4, SplitOnShared
<1>10. CASE /\ lows # <<>> /\ highs # <<>> /\ nodes # NodeIds
            /\ nodes' = nodes \cup {l}
            /\ node' = [node EXCEPT ![n] = [prefix |-> << 1 >>, parent |-> g, items |-> highs],
                                    ![l] = [prefix |-> << 0 >>, parent |-> g, items |-> lows]]
            /\ Return
  <2>1. l \in NodeIds /\ l \notin nodes /\ l # n
    BY <1>4, <1>7, <1>8, <1>10, Addresses DEF FreshNode, TreeInv
  <2>2. /\ node'[n].items = highs /\ node'[l].items = lows
        /\ \A c \in nodes : c # n => node'[c] = node[c]
    BY <1>7, <1>8, <1>10, <2>1
  <2>3. Len(lows) < SPLITBOUND /\ Len(highs) < SPLITBOUND
    <3>1. lows \in Seq(Items) /\ highs \in Seq(Items)
      BY <1>4 DEF Lists
    <3>2. Len(lows) > 0 /\ Len(highs) > 0
      BY <1>10, <3>1
    <3>3. QED
      BY <1>4, <3>2, PTrieAssumption
  <2>4. stack' = <<>>
    <3>1. stack \in Seq(Frames)
      BY DEF TreeInv, TypeOK
    <3>2. QED
      BY <1>7, <1>10, <3>1 DEF Return
  <2>5. Halving(n, l)
    BY <1>1, <1>7, <1>10, <2>1, <2>2, <2>3, <2>4 DEF Halving
  <2>6. QED
    BY <2>5, HalvesShared
<1>11. QED
  BY <1>5, <1>9, <1>10

-----------------------------------------------------------------------------
(* The invariant holds *)

\* Every step keeps it.
LEMMA NextShared ==
  ASSUME <<>> \notin Keys, TreeInv, TreeInv', ShapeInv, PathInv, LevelInv, KeepPlaces, ContentInv,
         ContentInv', SharedInv, [Next]_vars
  PROVE  SharedInv'
<1>1. CASE \E k \in Keys : InsertInNewBucket(k)
  BY <1>1, InsertInNewBucketShared
<1>2. CASE \E k \in Keys : InsertInBucket(k)
  BY <1>2, InsertInBucketShared
<1>3. CASE \E k \in Keys : Erase(k)
  BY <1>3, EraseShared
<1>4. CASE \/ MergeDownStop \/ ReaddByte \/ AfterReadd \/ MergeEmpty \/ Climb
           \/ MergeFiner \/ MergeBuddy \/ MergeFwd
           \/ Destroy \/ \E k \in Keys : LookUp(k)
  BY <1>4, MergesShared
<1>5. CASE SplitNode \/ SplitExhausted \/ SplitFwd
  BY <1>5, SplitNodeShared, SplitExhaustedShared, SplitFwdShared
<1>6. CASE UNCHANGED vars
  BY <1>6, SharedNow, SharedNext DEF vars
<1>7. QED
  BY <1>1, <1>2, <1>3, <1>4, <1>5, <1>6 DEF Next, Continue

\* At the start there are no buckets.
LEMMA InitShared ==
  ASSUME Init PROVE SharedInv
BY DEF Init, SharedInv

\* For every value of the constants: between any two steps of a split or of a chain of merges,
\* a bucket this full has keys of one slot only, but for the last one that came.
THEOREM SharedHolds ==
  ASSUME <<>> \notin Keys PROVE Spec => []SharedInv
<1>1. Init => SharedInv
  BY InitShared
<1>2. TreeInv /\ TreeInv' /\ ShapeInv /\ PathInv /\ LevelInv /\ ContentInv /\ ContentInv' /\ SharedInv
        /\ [Next]_vars => SharedInv'
  BY NextPlaces, NextShared
<1>3. QED
  BY <1>1, <1>2, TreeHolds, ShapeHolds, PathsHold, ContentsHold, PTL DEF Spec

-----------------------------------------------------------------------------
(* How many keys a bucket can have *)

\* Powers of two grow.
LEMMA PowersGrow ==
  ASSUME NEW e \in Nat, NEW d \in Nat, e < d PROVE 2 ^ e < 2 ^ d
<1>1. PICK m \in Nat : d = e + 1 + m
  <2>1. d - (e + 1) \in Nat /\ d = e + 1 + (d - (e + 1))
    OBVIOUS
  <2>2. QED
    BY <2>1
<1>2. PICK S : S = {z \in Nat : 2 ^ e < 2 ^ (e + 1 + z)}
  OBVIOUS
<1>3. PICK y \in Nat : y = 2 ^ e /\ y > 0
  BY Powers
<1>4. 0 \in S
  <2>1. 2 ^ (e + 1) = 2 * 2 ^ e /\ e + 1 + 0 = e + 1
    BY Powers
  <2>2. QED
    BY <1>2, <1>3, <2>1
<1>5. ASSUME NEW z \in Nat, z \in S PROVE z + 1 \in S
  <2>1. PICK x \in Nat : x = e + 1 + z /\ x + 1 = e + 1 + (z + 1)
    OBVIOUS
  <2>2. 2 ^ e < 2 ^ x
    BY <1>2, <1>5, <2>1
  <2>3. 2 ^ (x + 1) = 2 * 2 ^ x /\ 2 ^ x \in Nat
    BY <2>1, Powers
  <2>4. 2 ^ e < 2 ^ (x + 1)
    BY <1>3, <2>2, <2>3
  <2>5. QED
    BY <1>2, <2>1, <2>4
<1>6. m \in S
  BY <1>4, <1>5, Induct
<1>7. QED
  BY <1>1, <1>2, <1>6

\* No slot is that of all bytes.
LEMMA SlotMisses ==
  ASSUME NEW r \in 0 .. BDIV - 1, NEW s PROVE \E y \in Byte : SlotTable[y][r] # s
<1>1. PICK i \in 1 .. BSIZE : i = 1
  BY BaseFacts
<1>2. PICK e : e = BSIZE * (BDIV - r) - i
  OBVIOUS
<1>3. e \in 0 .. Width - 1 /\ \A y \in Byte : SlotTable[y][r][i] = (y \div 2 ^ e) % 2
  BY <1>2, SlotBit
<1>4. PICK y \in Nat : y = 2 ^ e /\ y > 0
  BY <1>3, WidthType, Powers
<1>5. y \in Byte /\ 0 \in Byte
  <2>1. e \in Nat /\ Width \in Nat /\ e < Width
    BY <1>3, WidthType
  <2>2. y < Base
    BY <1>4, <2>1, PowersGrow, WidthType
  <2>3. QED
    BY <2>2, BaseFacts
<1>6. SlotTable[y][r][i] = 1
  <2>1. y \div y = 1 /\ 1 % 2 = 1
    <3>1. y = y * 1 + 0 /\ 0 \in 0 .. y - 1 /\ y \in Nat \ {0}
      BY <1>4
    <3>2. QED
      BY <3>1, Quotient
  <2>2. QED
    BY <1>3, <1>4, <1>5, <2>1
<1>7. SlotTable[0][r][i] = 0
  <2>1. 0 \div y = 0 /\ 0 % 2 = 0
    <3>1. 0 = y * 0 + 0 /\ 0 \in 0 .. y - 1 /\ y \in Nat \ {0}
      BY <1>4
    <3>2. QED
      BY <3>1, Quotient
  <2>2. QED
    BY <1>3, <1>4, <1>5, <2>1
<1>8. SlotTable[y][r] # SlotTable[0][r]
  BY <1>6, <1>7
<1>9. QED
  BY <1>5, <1>8

\* Keys with one byte left, which have the same slot in it, are fewer than there are bytes.
LEMMA FewKeys ==
  ASSUME NEW items, NEW path, NEW q, Lists(items, path, q), Spent(items, path),
         OneSlot(Ents(items), Len(path))
  PROVE  Len(items) <= Base - 1
<1>1. PICK b, r, n : b = Len(path) \div BDIV /\ r = Len(path) % BDIV /\ n = Len(items)
  OBVIOUS
<1>2. /\ b \in Nat /\ DOMAIN items = 1 .. n /\ n \in Nat /\ Len(path) \in Nat
      /\ r \in 0 .. BDIV - 1
      /\ \A i \in DOMAIN items : items[i].ent \in Keys /\ Starts(items[i].ent, path)
  <2>1. Len(path) \in Nat
    BY DEF Lists
  <2>2. r \in 0 .. BDIV - 1
    BY <1>1, <2>1, BaseFacts, Division
  <2>3. QED
    BY <1>1, <2>1, <2>2, ListsFacts
<1>3. PICK last : last = [i \in 1 .. n |-> EncByte(items[i].ent, b)]
  OBVIOUS
<1>4. \A i \in 1 .. n : last[i] \in Byte
  BY <1>2, <1>3, EncBytes
<1>5. ASSUME NEW i \in 1 .. n, NEW j \in 1 .. n, last[i] = last[j] PROVE i = j
  <2>1. PICK k \in Keys, l \in Keys : k = items[i].ent /\ l = items[j].ent
    BY <1>2
  <2>2. Agree(k, l, b)
    BY <1>1, <1>2, <2>1, ListsAgree
  <2>3. Len(k) + 1 = b
    <3>1. k \in Ents(items)
      BY <1>2, <2>1, EntsAre
    <3>2. QED
      BY <1>1, <3>1 DEF Spent
  <2>4. EncByte(k, b) = EncByte(l, b)
    BY <1>3, <1>5, <2>1
  <2>5. Agree(k, l, Len(k) + 2)
    <3>1. Len(k) + 2 = b + 1
      BY <1>2, <2>3, BaseFacts
    <3>2. Agree(k, l, b + 1)
      BY <1>2, <2>2, <2>4 DEF Agree
    <3>3. QED
      BY <3>1, <3>2
  <2>6. k = l
    BY <2>5, AgreeAll
  <2>7. QED
    BY <1>2, <2>1, <2>6, ListsFacts
<1>6. CASE n = 0
  BY <1>1, <1>6, BaseFacts
<1>7. CASE n # 0
  <2>1. PICK s : s = Slot(items[1].ent, Len(path))
    OBVIOUS
  <2>2. PICK y \in Byte : SlotTable[y][r] # s
    BY <1>2, SlotMisses
  <2>3. ASSUME NEW i \in 1 .. n PROVE SlotTable[last[i]][r] = s
    <3>1. 1 \in DOMAIN items /\ i \in DOMAIN items
      BY <1>2, <1>7
    <3>2. items[1].ent \in Ents(items) /\ items[i].ent \in Ents(items)
      BY <3>1 DEF Ents
    <3>3. Slot(items[i].ent, Len(path)) = s
      BY <2>1, <3>2 DEF OneSlot
    <3>4. QED
      BY <1>1, <1>3, <3>3 DEF Slot
  <2>4. last \in Injection(1 .. n, Byte \ {y})
    <3>1. last \in [1 .. n -> Byte \ {y}]
      BY <1>3, <1>4, <2>2, <2>3
    <3>2. QED
      BY <1>5, <3>1 DEF Injection, IsInjective
  <2>5. IsFiniteSet(Byte) /\ Cardinality(Byte) = Base
    BY BaseFacts, FS_Interval
  <2>6. IsFiniteSet(Byte \ {y}) /\ Cardinality(Byte \ {y}) = Base - 1
    BY <2>2, <2>5, FS_RemoveElement
  <2>7. Cardinality(1 .. n) <= Base - 1
    BY <2>4, <2>6, FS_Injection
  <2>8. Cardinality(1 .. n) = n
    BY <1>2, FS_Interval
  <2>9. QED
    BY <1>1, <2>7, <2>8
<1>8. QED
  BY <1>6, <1>7

\* Between operations no bucket is empty, and none has as many keys as there are bytes.
LEMMA RestingCounts ==
  ASSUME SPLITBOUND <= Base, TreeInv, ShapeInv, PathInv, ContentInv, SharedInv, stack = <<>>,
         NEW n \in nodes
  PROVE  Count(n) \in 1 .. Base - 1
<1>1. PICK f, path, q, items : /\ f = node[n].parent /\ path = PathTo(f)
                               /\ q = node[n].prefix /\ items = node[n].items
  OBVIOUS
<1>2. Lists(items, path, q) /\ Len(path) = Level(f)
  BY <1>1, Held DEF ContentInv
<1>3. Len(items) \in Nat /\ SPLITBOUND \in Nat /\ Base \in Nat
  BY <1>2, PTrieAssumption, BaseFacts DEF Lists
<1>4. items # <<>>
  BY <1>1, BucketsAre DEF BucketsBounded
<1>5. Len(items) > 0
  BY <1>2, <1>3, <1>4 DEF Lists
<1>6. Len(items) <= Base - 1
  <2>1. CASE Len(items) < SPLITBOUND
    BY <1>3, <2>1
  <2>2. CASE Len(items) >= SPLITBOUND
    <3>1. Spent(items, path)
      BY <1>1, <2>2, BucketsAre DEF BucketsBounded, Spent
    <3>2. OneSlot(Ents(items), Len(path))
      BY <1>1, <1>2, <2>2 DEF SharedInv, Running, Count
    <3>3. QED
      BY <1>2, <3>1, <3>2, FewKeys
  <2>3. QED
    BY <1>3, <2>1, <2>2
<1>7. QED
  BY <1>1, <1>3, <1>5, <1>6 DEF Count

-----------------------------------------------------------------------------
(* The iterator *)

\* Where the client is, between any two calls of a ++ or --: at an item, or at a forwarding node
\* on the way; it rests at an item, in front of the first one or behind the last one.
CursorInv ==
  walk # "none" =>
    /\ walk \in {"rest", "forward", "backward"}
    /\ stack = <<>>
    /\ it.node \in fwds \/ (it.node \in nodes /\ it.index \in 0 .. Count(it.node) - 1)
    /\ walk = "rest" /\ it.node \in fwds => it.node = Root /\ it.index \in {-1, Base}

\* The slots of a forwarding node, by their indexes.
LEMMA SlotIndexes ==
  /\ DOMAIN SlotAt \subseteq 0 .. Base - 1
  /\ \A i \in DOMAIN SlotAt : SlotAt[i] \in Slots
<1>1. BSIZE \in Nat /\ BSIZE >= 2 /\ BDIV \in Nat \ {0} /\ Width \in Nat /\ Base = 2 ^ Width
  BY BaseFacts, WidthType
<1>2. BSIZE <= Width
  <2>1. PICK m \in Nat : BDIV = m + 1
    <3>1. BDIV - 1 \in Nat /\ BDIV = (BDIV - 1) + 1
      BY <1>1
    <3>2. QED
      BY <3>1
  <2>2. BSIZE * (m + 1) = BSIZE * m + BSIZE /\ BSIZE * m \in Nat
    BY <1>1
  <2>3. QED
    BY <1>1, <2>1, <2>2 DEF Width
<1>3. 2 ^ BSIZE \in Nat /\ 2 ^ BSIZE <= Base
  <2>1. 2 ^ BSIZE \in Nat /\ Base \in Nat
    BY <1>1, Powers
  <2>2. CASE BSIZE = Width
    BY <1>1, <2>1, <2>2
  <2>3. CASE BSIZE < Width
    BY <1>1, <2>1, <2>3, PowersGrow
  <2>4. QED
    BY <1>1, <1>2, <2>1, <2>2, <2>3
<1>4. DOMAIN SlotAt = 0 .. 2 ^ BSIZE - 1
  BY DEF SlotAt
<1>5. ASSUME NEW i \in DOMAIN SlotAt PROVE SlotAt[i] \in Slots
  <2>1. i \in Nat
    BY <1>3, <1>4
  <2>2. ASSUME NEW j \in 1 .. BSIZE PROVE (i \div 2 ^ (BSIZE - j)) % 2 \in {0, 1}
    <3>1. PICK d \in Nat : d = 2 ^ (BSIZE - j) /\ d > 0
      BY <1>1, Powers
    <3>2. i \div d \in Nat
      BY <2>1, <3>1, Division
    <3>3. (i \div d) % 2 \in {0, 1}
      BY <3>2
    <3>4. QED
      BY <3>1, <3>3
  <2>3. SlotAt[i] = [j \in 1 .. BSIZE |-> (i \div 2 ^ (BSIZE - j)) % 2]
    BY <1>4 DEF SlotAt
  <2>4. QED
    BY <2>2, <2>3 DEF Slots
<1>6. QED
  BY <1>3, <1>4, <1>5, BaseFacts

\* Where the search for the next child stops.
LEMMA FirstFromIs ==
  ASSUME NEW f, NEW i, NEW j, j = FirstFrom(f, i)
  PROVE  j \in DOMAIN SlotAt \/ j = Base
<1>1. PICK T : T = {x \in Filled(f) : x >= i} \cup {Last255 + 1}
  OBVIOUS
<1>2. T \subseteq Nat /\ T # {} /\ Last255 + 1 = Base /\ \A x \in T : x \in DOMAIN SlotAt \/ x = Base
  BY <1>1, SlotIndexes, BaseFacts DEF Filled, Last255
<1>3. \E x \in T : \A y \in T : x <= y
  BY <1>2, Least
<1>4. j \in T
  BY <1>1, <1>3 DEF FirstFrom, Min
<1>5. QED
  BY <1>2, <1>4

\* And for the previous one.
LEMMA LastUpToIs ==
  ASSUME NEW f, NEW i, NEW j, j = LastUpTo(f, i)
  PROVE  j \in DOMAIN SlotAt \/ j = -1
<1>1. PICK T : T = {x \in Filled(f) : x <= i} \cup {-1}
  OBVIOUS
<1>2. T # {} /\ \A x \in T : x \in DOMAIN SlotAt \/ x = -1
  BY <1>1 DEF Filled
<1>3. \A x \in T : x \in -1 .. Base - 1 /\ Base - x \in Nat
  BY <1>2, SlotIndexes, BaseFacts
<1>4. PICK R : R = {Base - x : x \in T}
  OBVIOUS
<1>5. R \subseteq Nat /\ R # {}
  BY <1>2, <1>3, <1>4
<1>6. PICK z \in R : \A y \in R : z <= y
  BY <1>5, Least
<1>7. PICK x \in T : z = Base - x
  BY <1>4
<1>8. ASSUME NEW y \in T PROVE x >= y
  <2>1. Base - y \in R /\ Base - x <= Base - y
    BY <1>4, <1>6, <1>7
  <2>2. QED
    BY <1>3, <2>1, BaseFacts
<1>9. j \in T
  BY <1>1, <1>7, <1>8 DEF LastUpTo, Max
<1>10. QED
  BY <1>2, <1>9

\* Where a ++ or -- goes to from a forwarding node or from a bucket.
LEMMA Neighbours ==
  ASSUME TreeInv
  PROVE  /\ \A f \in fwds, i \in DOMAIN SlotAt : Child(f, i) \in fwds \cup nodes
         /\ \A f \in fwds : \/ f = Root /\ fwd[f].parent = Null
                            \/ fwd[f].parent # Null /\ fwd[f].parent \in fwds
         /\ \A n \in nodes : node[n].parent \in fwds
         /\ Root \in fwds
<1>1. \A f \in fwds, i \in DOMAIN SlotAt : Child(f, i) \in fwds \cup nodes
  BY SlotIndexes DEF Child, TreeInv, TreeWellFormed
<1>2. \A f \in fwds : \/ f = Root /\ fwd[f].parent = Null
                      \/ fwd[f].parent # Null /\ fwd[f].parent \in fwds
  <2>1. Null \notin fwds /\ fwd[Root].parent = Null
    BY Addresses, PTrieAssumption DEF TreeInv
  <2>2. \A f \in fwds \ {Root} : fwd[f].parent \in fwds
    BY DEF TreeInv, TreeWellFormed
  <2>3. QED
    BY <2>1, <2>2
<1>3. \A n \in nodes : node[n].parent \in fwds
  BY ParentAlive, Addresses DEF TreeInv
<1>4. Root \in fwds
  BY Addresses DEF TreeInv
<1>5. QED
  BY <1>1, <1>2, <1>3, <1>4

\* A step of the client leaves the trie as it is.
LEMMA CursorStays ==
  ASSUME UNCHANGED vars
  PROVE  CursorInv' <=> (walk' # "none" =>
           /\ walk' \in {"rest", "forward", "backward"}
           /\ stack = <<>>
           /\ it'.node \in fwds \/ (it'.node \in nodes /\ it'.index \in 0 .. Count(it'.node) - 1)
           /\ walk' = "rest" /\ it'.node \in fwds => it'.node = Root /\ it'.index \in {-1, Base})
BY DEF CursorInv, Count, vars

\* ++ ends on an item, or behind the last one.
LEMMA ForwardCursor ==
  ASSUME SPLITBOUND <= Base, TreeInv, ShapeInv, PathInv, ContentInv, SharedInv, CursorInv, Forward
  PROVE  CursorInv'
<1>1. PICK x, i : x = it.node /\ i = FirstFrom(x, IF it.index < 0 THEN 0 ELSE it.index)
  OBVIOUS
<1>2. /\ walk = "forward" /\ stack = <<>> /\ UNCHANGED vars
      /\ x \in fwds \/ (x \in nodes /\ it.index \in 0 .. Count(x) - 1)
  BY <1>1 DEF Forward, CursorInv
<1>3. x \in FwdIds => x \in fwds
  BY <1>2, Addresses DEF TreeInv
<1>4. x \in NodeIds => x \in nodes /\ it.index \in 0 .. Count(x) - 1 /\ Count(x) \in Nat
  BY <1>2, CountType, Addresses DEF TreeInv
<1>5. (i \in DOMAIN SlotAt /\ i <= Last255) \/ i = Base
  <2>1. i \in DOMAIN SlotAt \/ i = Base
    BY <1>1, FirstFromIs
  <2>2. QED
    BY <2>1, SlotIndexes, BaseFacts DEF Last255
<1>6. Base > Last255 /\ Base \in Nat
  BY BaseFacts DEF Last255
<1>7. \/ /\ x \in FwdIds /\ i > Last255 /\ fwd[x].parent = Null
         /\ it' = At(x, i) /\ walk' = "rest"
      \/ /\ x \in FwdIds /\ fwd[x].parent # Null
         /\ it' = Behind(fwd[x].parent, x) /\ walk' = walk
      \/ /\ x \in FwdIds /\ i <= Last255
         /\ it' = At(Child(x, i), 0)
         /\ walk' = IF Child(x, i) \in NodeIds THEN "rest" ELSE walk
      \/ /\ x \in NodeIds /\ it.index + 1 < Len(node[x].items)
         /\ it' = At(x, it.index + 1) /\ walk' = "rest"
      \/ /\ x \in NodeIds
         /\ it' = Behind(node[x].parent, x) /\ walk' = walk
  BY <1>1 DEF Forward
<1>8. CASE /\ x \in FwdIds /\ i > Last255 /\ fwd[x].parent = Null
           /\ it' = At(x, i) /\ walk' = "rest"
  <2>1. x = Root /\ Root \in fwds
    BY <1>3, <1>8, Neighbours
  <2>2. i = Base
    BY <1>5, <1>8, SlotIndexes, BaseFacts DEF Last255
  <2>3. it'.node = Root /\ it'.index = Base
    BY <1>8, <2>1, <2>2 DEF At
  <2>4. QED
    BY <1>2, <1>8, <2>1, <2>3, CursorStays
<1>9. CASE /\ x \in FwdIds /\ fwd[x].parent # Null
           /\ it' = Behind(fwd[x].parent, x) /\ walk' = walk
  <2>1. it'.node \in fwds
    BY <1>3, <1>9, Neighbours DEF Behind, At
  <2>2. QED
    BY <1>2, <1>9, <2>1, CursorStays
<1>10. CASE /\ x \in FwdIds /\ i <= Last255
            /\ it' = At(Child(x, i), 0)
            /\ walk' = IF Child(x, i) \in NodeIds THEN "rest" ELSE walk
  <2>0. x \in fwds /\ i \in DOMAIN SlotAt
    <3>1. i # Base
      BY <1>6, <1>10, BaseFacts DEF Last255
    <3>2. QED
      BY <1>3, <1>5, <1>10, <3>1
  <2>1. PICK c : c = Child(x, i) /\ c \in fwds \cup nodes
    BY <2>0, Neighbours
  <2>2. it'.node = c /\ it'.index = 0
    BY <1>10, <2>1 DEF At
  <2>3. CASE c \in nodes
    <3>1. c \notin fwds /\ c \in NodeIds
      BY <2>3, Addresses DEF TreeInv
    <3>2. Count(c) \in 1 .. Base - 1
      BY <1>2, <2>3, RestingCounts
    <3>3. 0 \in 0 .. Count(c) - 1
      BY <3>2, BaseFacts
    <3>4. walk' = "rest"
      BY <1>10, <2>1, <3>1
    <3>5. QED
      BY <1>2, <2>2, <2>3, <3>1, <3>3, <3>4, CursorStays
  <2>4. CASE c \in fwds
    <3>1. c \notin NodeIds
      BY <2>4, Addresses DEF TreeInv
    <3>2. walk' = "forward"
      BY <1>2, <1>10, <2>1, <3>1
    <3>3. QED
      BY <1>2, <2>2, <2>4, <3>2, CursorStays
  <2>5. QED
    BY <2>1, <2>3, <2>4
<1>11. CASE /\ x \in NodeIds /\ it.index + 1 < Len(node[x].items)
            /\ it' = At(x, it.index + 1) /\ walk' = "rest"
  <2>1. it'.node = x /\ it'.index = it.index + 1
    BY <1>11 DEF At
  <2>2. it'.index \in 0 .. Count(x) - 1
    BY <1>4, <1>11, <2>1 DEF Count
  <2>3. x \notin fwds
    BY <1>11, Addresses DEF TreeInv
  <2>4. QED
    BY <1>2, <1>4, <1>11, <2>1, <2>2, <2>3, CursorStays
<1>12. CASE x \in NodeIds /\ it' = Behind(node[x].parent, x) /\ walk' = walk
  <2>1. it'.node \in fwds
    BY <1>4, <1>12, Neighbours DEF Behind, At
  <2>2. QED
    BY <1>2, <1>12, <2>1, CursorStays
<1>13. QED
  BY <1>7, <1>8, <1>9, <1>10, <1>11, <1>12

\* -- ends on an item, or in front of the first one.
LEMMA BackwardCursor ==
  ASSUME SPLITBOUND <= Base, TreeInv, ShapeInv, PathInv, ContentInv, SharedInv, CursorInv, Backward
  PROVE  CursorInv'
<1>1. PICK x, i : x = it.node /\ i = LastUpTo(x, IF it.index > Last255 THEN Last255 ELSE it.index)
  OBVIOUS
<1>2. /\ walk = "backward" /\ stack = <<>> /\ UNCHANGED vars
      /\ x \in fwds \/ (x \in nodes /\ it.index \in 0 .. Count(x) - 1)
  BY <1>1 DEF Backward, CursorInv
<1>3. x \in FwdIds => x \in fwds
  BY <1>2, Addresses DEF TreeInv
<1>4. x \in NodeIds => x \in nodes /\ it.index \in 0 .. Count(x) - 1 /\ Count(x) \in Nat
  BY <1>2, CountType, Addresses DEF TreeInv
<1>5. (i \in DOMAIN SlotAt /\ ~ (i < 0)) \/ (i = -1 /\ ~ (i >= 0))
  <2>1. i \in DOMAIN SlotAt \/ i = -1
    BY <1>1, LastUpToIs
  <2>2. QED
    BY <2>1, SlotIndexes, BaseFacts
<1>6. \/ /\ x \in FwdIds /\ i < 0 /\ fwd[x].parent = Null
         /\ it' = At(x, i) /\ walk' = "rest"
      \/ /\ x \in FwdIds /\ fwd[x].parent # Null
         /\ it' = InFront(fwd[x].parent, x) /\ walk' = walk
      \/ /\ x \in FwdIds /\ i >= 0 /\ Child(x, i) \in FwdIds
         /\ it' = At(Child(x, i), Last255) /\ walk' = walk
      \/ /\ x \in FwdIds /\ i >= 0 /\ Child(x, i) \in NodeIds
         /\ it' = At(Child(x, i), Len(node[Child(x, i)].items) - 1) /\ walk' = "rest"
      \/ /\ x \in NodeIds /\ it.index - 1 >= 0
         /\ it' = At(x, it.index - 1) /\ walk' = "rest"
      \/ /\ x \in NodeIds
         /\ it' = InFront(node[x].parent, x) /\ walk' = walk
  BY <1>1 DEF Backward
<1>7. CASE /\ x \in FwdIds /\ i < 0 /\ fwd[x].parent = Null
           /\ it' = At(x, i) /\ walk' = "rest"
  <2>1. x = Root /\ Root \in fwds
    BY <1>3, <1>7, Neighbours
  <2>2. it'.node = Root /\ it'.index = -1
    BY <1>5, <1>7, <2>1 DEF At
  <2>3. QED
    BY <1>2, <1>7, <2>1, <2>2, CursorStays
<1>8. CASE /\ x \in FwdIds /\ fwd[x].parent # Null
           /\ it' = InFront(fwd[x].parent, x) /\ walk' = walk
  <2>1. it'.node \in fwds
    BY <1>3, <1>8, Neighbours DEF InFront, At
  <2>2. QED
    BY <1>2, <1>8, <2>1, CursorStays
<1>9. CASE /\ x \in FwdIds /\ i >= 0 /\ Child(x, i) \in FwdIds
           /\ it' = At(Child(x, i), Last255) /\ walk' = walk
  <2>1. Child(x, i) \in fwds
    BY <1>3, <1>5, <1>9, Neighbours, Addresses DEF TreeInv
  <2>2. it'.node \in fwds
    BY <1>9, <2>1 DEF At
  <2>3. QED
    BY <1>2, <1>9, <2>2, CursorStays
<1>10. CASE /\ x \in FwdIds /\ i >= 0 /\ Child(x, i) \in NodeIds
            /\ it' = At(Child(x, i), Len(node[Child(x, i)].items) - 1) /\ walk' = "rest"
  <2>1. PICK c : c = Child(x, i) /\ c \in nodes /\ c \notin fwds
    BY <1>3, <1>5, <1>10, Neighbours, Addresses DEF TreeInv
  <2>2. it'.node = c /\ it'.index = Count(c) - 1
    BY <1>10, <2>1 DEF At, Count
  <2>3. Count(c) \in 1 .. Base - 1
    BY <1>2, <2>1, RestingCounts
  <2>4. it'.index \in 0 .. Count(c) - 1
    BY <2>2, <2>3, BaseFacts
  <2>5. QED
    BY <1>2, <1>10, <2>1, <2>2, <2>4, CursorStays
<1>11. CASE /\ x \in NodeIds /\ it.index - 1 >= 0
            /\ it' = At(x, it.index - 1) /\ walk' = "rest"
  <2>1. it'.node = x /\ it'.index = it.index - 1
    BY <1>11 DEF At
  <2>2. it'.index \in 0 .. Count(x) - 1
    BY <1>4, <1>11, <2>1
  <2>3. x \notin fwds
    BY <1>11, Addresses DEF TreeInv
  <2>4. QED
    BY <1>2, <1>4, <1>11, <2>1, <2>2, <2>3, CursorStays
<1>12. CASE x \in NodeIds /\ it' = InFront(node[x].parent, x) /\ walk' = walk
  <2>1. it'.node \in fwds
    BY <1>4, <1>12, Neighbours DEF InFront, At
  <2>2. QED
    BY <1>2, <1>12, <2>1, CursorStays
<1>13. QED
  BY <1>6, <1>7, <1>8, <1>9, <1>10, <1>11, <1>12

\* Every step of the client and of the trie.
LEMMA NextCursor ==
  ASSUME SPLITBOUND <= Base, TreeInv, ShapeInv, PathInv, ContentInv, SharedInv, CursorInv,
         [INext]_<<vars, ivars>>
  PROVE  CursorInv'
<1>1. CASE Forward
  BY <1>1, ForwardCursor
<1>2. CASE Backward
  BY <1>2, BackwardCursor
<1>3. CASE BeginIt
  BY <1>3, Neighbours, CursorStays DEF BeginIt, Nowhere, At
<1>4. CASE EndIt
  BY <1>4, Neighbours, CursorStays, BaseFacts DEF EndIt, End, At, Last255
<1>5. CASE Increment \/ Decrement
  BY <1>5, CursorStays DEF CursorInv, Increment, Decrement
<1>6. CASE Operate
  BY <1>6 DEF Operate, CursorInv
<1>7. CASE UNCHANGED <<vars, ivars>>
  BY <1>7, CursorStays DEF CursorInv, ivars
<1>8. QED
  BY <1>1, <1>2, <1>3, <1>4, <1>5, <1>6, <1>7 DEF INext

\* The trie of a client with an iterator is a trie.
LEMMA IteratorIsTrie == ISpec => Spec
<1>1. IInit => Init
  BY DEF IInit
<1>2. [INext]_<<vars, ivars>> => [Next]_vars
  BY DEF INext, Operate, BeginIt, EndIt, Increment, Decrement, Forward, Backward
<1>3. QED
  BY <1>1, <1>2, PTL DEF ISpec, Spec

\* For every value of the constants with which no bucket can be filled to as many keys as
\* there are bytes, and after any operations: a ++ or -- stays in the tree, and comes to rest
\* at an item or at one of the ends of the root.
THEOREM CursorHolds ==
  ASSUME <<>> \notin Keys, SPLITBOUND <= Base PROVE ISpec => []CursorInv
<1>1. IInit => CursorInv
  BY DEF IInit, CursorInv
<1>2. TreeInv /\ ShapeInv /\ PathInv /\ ContentInv /\ SharedInv /\ CursorInv /\ [INext]_<<vars, ivars>>
        => CursorInv'
  BY NextCursor
<1>3. QED
  BY <1>1, <1>2, IteratorIsTrie, TreeHolds, ShapeHolds, PathsHold, ContentsHold, SharedHolds, PTL
  DEF ISpec

\* An iterator is a node and an index.
Placed == it = At(it.node, it.index)

\* begin(), end(), ++ and -- make a new one or leave it.
LEMMA PlacedHolds == ISpec => []Placed
<1>1. IInit => Placed
  BY DEF IInit, Nowhere, At, Placed
<1>2. ASSUME Placed, [INext]_<<vars, ivars>> PROVE Placed'
  <2>1. it' = it \/ \E x, i : it' = At(x, i)
    <3>1. CASE Forward
      BY <3>1 DEF Forward, Behind
    <3>2. CASE Backward
      BY <3>2 DEF Backward, InFront
    <3>3. CASE BeginIt \/ EndIt \/ Operate
      BY <3>3 DEF BeginIt, EndIt, Operate, Nowhere, End
    <3>4. QED
      BY <1>2, <3>1, <3>2, <3>3 DEF INext, Increment, Decrement, ivars
  <2>2. CASE it' = it
    BY <1>2, <2>2 DEF Placed
  <2>3. CASE \E x, i : it' = At(x, i)
    BY <2>3 DEF Placed, At
  <2>4. QED
    BY <2>1, <2>2, <2>3
<1>3. QED
  BY <1>1, <1>2, PTL DEF ISpec

\* operator== of an iterator at rest and end(), from either side, tells whether it is at the end:
\* the index of an item in its bucket is never one that end() could have, since the keys of
\* a bucket that has to hold more than SPLITBOUND differ in one byte only, which has the same
\* slot in all of them.
THEOREM EqualityHolds ==
  ASSUME <<>> \notin Keys, SPLITBOUND <= Base PROVE ISpec => []EqualityExact
<1>1. TreeInv /\ ShapeInv /\ PathInv /\ ContentInv /\ SharedInv /\ CursorInv /\ Placed
        => EqualityExact
  <2> SUFFICES ASSUME TreeInv, ShapeInv, PathInv, ContentInv, SharedInv, CursorInv, Placed,
                      walk = "rest"
               PROVE  (Equal(it, End) <=> it = End) /\ (Equal(End, it) <=> it = End)
    BY DEF EqualityExact
  <2>1. /\ End.node = Root /\ End.index = Base /\ Root \notin NodeIds
        /\ Base \in Nat \ {0} /\ Last255 = Base - 1
    BY PTrieAssumption, BaseFacts DEF End, At, Last255
  <2>2. /\ stack = <<>>
        /\ \/ it.node = Root /\ it.index \in {-1, Base}
           \/ it.node \in nodes /\ it.index \in 0 .. Count(it.node) - 1
    BY DEF CursorInv
  <2>3. CASE it.node \in nodes /\ it.index \in 0 .. Count(it.node) - 1
    <3>1. it.node \in NodeIds
      BY <2>3, Addresses DEF TreeInv
    <3>2. Count(it.node) \in 1 .. Base - 1
      <4>1. PICK n : n = it.node
        OBVIOUS
      <4>2. Count(n) \in 1 .. Base - 1
        BY <2>2, <2>3, <4>1, RestingCounts
      <4>3. QED
        BY <4>1, <4>2
    <3>3. it.index \in Int /\ it.index < Last255
      BY <2>1, <2>3, <3>2
    <3>4. it # End /\ ~ Equal(End, it)
      BY <2>1, <3>1, <3>3 DEF Equal
    <3>5. QED
      BY <3>1, <3>4 DEF Equal
  <2>4. CASE it.node = Root /\ it.index = -1
    BY <2>1, <2>4 DEF Equal
  <2>5. CASE it.node = Root /\ it.index = Base
    <3>1. it = End
      BY <2>1, <2>5 DEF Placed, End, At
    <3>2. Equal(End, End)
      BY <2>1 DEF Equal
    <3>3. QED
      BY <3>1, <3>2
  <2>6. QED
    BY <2>2, <2>3, <2>4, <2>5
<1>2. QED
  BY <1>1, IteratorIsTrie, CursorHolds, PlacedHolds, TreeHolds, ShapeHolds, PathsHold,
     ContentsHold, SharedHolds, PTL

=============================================================================
