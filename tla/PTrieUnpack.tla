---------------------------- MODULE PTrieUnpack ----------------------------
(***************************************************************************)
(* Reading a whole trie back: build_path and write_data put the key of an  *)
(* item together again from the path above its bucket, its two bytes of    *)
(* `first' and its residual, and clone makes a second trie.  Neither is    *)
(* told any length: both recompute them, each in a way of its own.         *)
(***************************************************************************)
EXTENDS PTrie

\* A bucket's residuals are one after the other; where the i-th begins.
Offset(lengths, i) == Room(SubSeq(lengths, 1, i - 1))

\* The byte that the BDIV slots of a path behind the first i * BDIV spell.
PathByte(path, i) ==
  CHOOSE y \in Byte : \A r \in 0 .. BDIV - 1 : SlotTable[y][r] = path[i * BDIV + r + 1]

\* Mutant: the byte of path is not discounted from the other items' lengths.
PathSizesUncut(path, items, i) ==
  LET ps == Len(path) \div BDIV
      size(f) == CASE ps = 0 -> f[1] * Base + f[2]
                   [] ps = 1 -> PathByte(path, 0) * Base + f[1]
                   [] OTHER -> PathByte(path, 0) * Base + PathByte(path, 1)
  IN  [size |-> size(items[i].first),
       offset |-> Offset([j \in DOMAIN items |-> size(items[j].first) % (Base * Base)], i)]

\* build_path: the size of the key of item i, and the offset of its residual.  The
\* high length byte of the items before it is taken from the size of item i.
PathSizes(path, items, i) ==
  LET ps == Len(path) \div BDIV
      own == items[i].first
      size == CASE ps = 0 -> own[1] * Base + own[2]
                [] ps = 1 -> PathByte(path, 0) * Base + own[1]
                [] OTHER -> PathByte(path, 0) * Base + PathByte(path, 1)
      before(f) == CASE ps = 0 -> f[1] * Base + f[2]
                     [] ps = 1 -> (size \div Base) * Base + f[1] - 1
                     [] OTHER -> size - ps
  IN  [size |-> size,
       offset |-> Offset([j \in DOMAIN items |-> before(items[j].first) % (Base * Base)], i)]

\* Mutant: the two length bytes are counted as bytes of the key.
WriteDataShifted(path, items, i, size, offset) ==
  LET ps == Len(path) \div BDIV
      it == items[i]
  IN  [j \in 1 .. size |-> CASE j > ps -> it.res[j - ps]
                             [] j = ps -> it.first[2]
                             [] j = ps - 1 -> it.first[1]
                             [] OTHER -> PathByte(path, j - 1)]

\* write_data: whole bytes of path, `first', and the residual at the offset.  Base,
\* which is no byte, stands for what is read where the residual is not.
WriteData(path, items, i, size, offset) ==
  LET ps == Len(path) \div BDIV
      it == items[i]
      There == Len(it.res) = size - ps /\ Offset(Lengths(items), i) = offset
      Written(j) == CASE j > ps -> IF There THEN it.res[j - ps] ELSE Base
                      [] j = ps -> it.first[2]
                      [] j = ps - 1 -> it.first[1]
                      [] OTHER -> PathByte(path, j + 1)
  IN  [j \in 1 .. size |-> Written(j)]

\* unpack of an iterator at item i of bucket n, and so unpack(index).  operator* writes the
\* same bytes into a single element, which is enough for keys of one element.
Unpack(n, i) ==
  LET path == PathTo(node[n].parent)
      sizes == PathSizes(path, node[n].items, i)
  IN  WriteData(path, node[n].items, i, sizes.size, sizes.offset)

\* What unpack reads is the key that was inserted: path, `first' and residual fit
\* together at every depth, and the offsets of items before it add up.
UnpackExact ==
  stack = <<>> =>
    \A n \in nodes : \A i \in DOMAIN node[n].items : Unpack(n, i) = node[n].items[i].ent

-----------------------------------------------------------------------------
(* clone *)

\* The indexes of the slots, in the order of _children.
SlotAt == [i \in 0 .. 2 ^ BSIZE - 1 |-> [j \in 1 .. BSIZE |-> (i \div 2 ^ (BSIZE - j)) % 2]]

Child(f, i) == fwd[f].children[SlotAt[i]]

\* fwdnode_t::clone: where it makes a new node.  A child that is also the one before
\* is taken for the same bucket.
Copied(f) == {i \in DOMAIN SlotAt : Child(f, i) # f /\ (i > 0 => Child(f, i) # Child(f, i - 1))}

\* Mutant: the residuals of a bucket are all as long as the first.
CopyItemsEven(f, items) ==
  [i \in DOMAIN items |->
     [items[i] EXCEPT !.res = SubSeq(@, 1, CleanupLen(f, items[1]))]]

\* node_t::clone: what the items of a bucket below f are in the copy, the residuals
\* copied by the lengths that it recomputes as cleanup does.
CopyItems(f, items) ==
  [i \in DOMAIN items |-> [items[i] EXCEPT !.res = SubSeq(@, 1, CleanupLen(f, items[i]))]]

\* new_uchar of node_t::clone, for all buckets.
CopiedBlocks ==
  {x \in AllItems : CleanupLen(node[x[1]].parent, node[x[1]].items[x[2]]) >= HEAPBOUND}

\* A copy has the items of the original, its bucket takes the _totsize that is copied
\* along, it owns as many heap blocks as the destructor frees, and no bucket or
\* forwarding node is copied twice, as it would be if its slots were not contiguous.
CopyExact ==
  stack = <<>> =>
    /\ \A n \in nodes :
         LET copy == CopyItems(node[n].parent, node[n].items)
         IN  copy = node[n].items /\ Room(Lengths(copy)) = totsize[n]
    /\ heap = Cardinality(CopiedBlocks)
    /\ \A f \in fwds : \A i, j \in Copied(f) : Child(f, i) = Child(f, j) => i = j

=============================================================================
