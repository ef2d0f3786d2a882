---------------------------- MODULE PTrieStable ----------------------------
(***************************************************************************)
(* set_stable and map: a trie whose buckets hold, beside the items, a      *)
(* column of ids that index a list of entries.  An entry points back at    *)
(* its bucket and, in a map, has a value.  Every operation moves the ids   *)
(* by hand, as it does the items: the steps are PTrie's, with what they do *)
(* to the column.  Ids are of type I there and of type size_t elsewhere.   *)
(***************************************************************************)
EXTENDS PTrieUnpack

CONSTANTS IdSpan,           \* sizeof(size_t) over sizeof(I): 1, or 2 for more
          IdBase,           \* numbers that fit an I
          MaxIds,           \* bound on the ids that are given out
          Values, Default,  \* what a map maps to, and D{}
          Assigned,         \* the keys whose value the client changes
          Erased,           \* the keys the client erases
          Opening           \* the keys it inserts first, in this order

ASSUME StableAssumption ==
  IdSpan \in Nat \ {0} /\ IdBase \in Nat \ {0} /\ Erased \subseteq Keys

VARIABLES column,  \* entries() of each bucket: the ids beside its items
          cells    \* the list of entries, id 0 first: the key each was made for (which
                   \* the code does not keep), _node and _data

svars == <<vars, column, cells>>

-----------------------------------------------------------------------------
(* Reading ids *)

\* An id as an I.
ToI(x) == IF IdSpan = 1 THEN x ELSE x % IdBase

\* What mem_load<size_t> may find at the i-th of these ids: an I and what follows it,
\* which behind the last one is some residual.
Loads(ids, i) ==
  CASE IdSpan = 1 -> {ids[i]}
    [] IdSpan > 1 /\ i < Len(ids) -> {ids[i] + IdBase * ids[i + 1]}
    [] OTHER -> {ids[i] + IdBase * x : x \in {0, 1}}

\* The ids that exists(k).second, and insert of a stored key, may answer.
ExistsId(k) == LET m == BestMatch(k) IN Loads(column[m.base], m.index)

\* find_metadata: the bucket of an entry, and the item there that has its id; the
\* first item where none has (its assert).
FindMetadata(i) ==
  LET n == cells[i + 1].node
      hits == {j \in DOMAIN node[n].items : i \in Loads(column[n], j)}
  IN  [node |-> n, bindex |-> IF hits = {} THEN 1 ELSE Min(hits)]

\* unpack(index).
UnpackById(i) == LET at == FindMetadata(i) IN Unpack(at.node, at.bindex)

-----------------------------------------------------------------------------
(* Moving ids *)

\* Mutant: the entries keep the bucket they had.
RedirectedNone(n, ids) == cells

\* The list when n becomes _node of the entries with these ids.
Redirected(n, ids) ==
  [x \in DOMAIN cells |-> IF x - 1 \in Range(ids) THEN [cells[x] EXCEPT !.node = n] ELSE cells[x]]

\* The ids after insert puts one in front of the i-th: the size_t that it stores runs
\* over the next one when an I is smaller.
WithId(ids, i, id) ==
  LET all == InsertAt(ids, i, id)
  IN  IF IdSpan = 1 \/ i > Len(ids) THEN all ELSE [all EXCEPT ![i + 1] = 0]

\* A bucket is cut in two: n keeps the ids of one part, the new bucket c gets those of
\* the other one, and their entries.
Halved(n, c, kept, given) ==
  /\ column' = [column EXCEPT ![n] = kept, ![c] = given]
  /\ cells' = Redirected(c, given)

\* Mutant: the ids of the other bucket always go last.
JoinedIdsLast(n, c) == column[n] \o column[c]

\* merge_nodes: the ids of the bucket n and of its buddy c, in the order of the items.
JoinedIds(n, c) ==
  IF Last(node[n].prefix) = 1 THEN column[c] \o column[n] ELSE column[n] \o column[c]

-----------------------------------------------------------------------------
(* The steps *)

\* insert of a new key: the next id, an entry with a value of its own.
InsertEntry(k) ==
  /\ Len(cells) < MaxIds
  /\ Len(cells) < Len(Opening) => k = Opening[Len(cells) + 1]
  /\ InsertInNewBucket(k) \/ InsertInBucket(k)
  /\ LET m == BestMatch(k)
         n == IF m.base \in NodeIds THEN m.base ELSE FreshNode
     IN  /\ column' = [column EXCEPT ![n] = WithId(@, m.index, Len(cells))]
         /\ cells' = Append(cells, [key |-> k, node |-> n, data |-> Default])

\* map's operator[] = v for a stored key, by get_data of the id that insert answers.
\* (For a key that is not stored it is insert, and then this.)
Assign(k, v) ==
  /\ stack = <<>> /\ ~ fault /\ k \in Contents
  /\ \E i \in ExistsId(k) : cells' = [cells EXCEPT ![ToI(i) + 1].data = v]
  /\ UNCHANGED <<vars, column>>

\* erase takes the id out of the column and leaves the entry: it is not given back.
EraseEntry(k) ==
  /\ Erase(k)
  /\ LET m == BestMatch(k) IN column' = [column EXCEPT ![m.base] = RemoveAt(@, m.index)]
  /\ UNCHANGED cells

\* The destructor drops the list with the trie; ids start again.
Renew ==
  /\ Destroy
  /\ column' = [n \in NodeIds |-> <<>>]
  /\ cells' = <<>>

\* split_node: the upper half, if there are two, goes to a new bucket.
SplitNodeIds ==
  /\ SplitNode /\ nodes' # nodes
  /\ LET n == Top.node
         count == Len(node'[n].items)
     IN  Halved(n, FreshNode, SubSeq(column[n], 1, count),
                SubSeq(column[n], count + 1, Len(column[n])))

\* split_fwd: the lower half does.
SplitFwdIds ==
  /\ SplitFwd /\ nodes' # nodes
  /\ LET n == Top.node
         l == FreshNode
         count == Len(node'[l].items)
     IN  Halved(n, l, SubSeq(column[n], count + 1, Len(column[n])), SubSeq(column[n], 1, count))

\* merge_regular with a buddy that has not been freed for being emptied: merge_nodes.
MergeBuddyIds ==
  /\ MergeBuddy /\ nodes' # nodes /\ Top.node \in nodes'
  /\ LET n == Top.node
         c == BuddyOf(n)
     IN  /\ column' = [column EXCEPT ![n] = JoinedIds(n, c), ![c] = <<>>]
         /\ cells' = Redirected(n, JoinedIds(n, c))

\* A split with one empty half, readd_byte and the steps that move no item: buckets keep
\* their columns (inject_byte and split_fwd copy them), but for those that are freed.
KeepIds ==
  /\ \/ SplitNode /\ nodes' = nodes
     \/ SplitFwd /\ nodes' = nodes
     \/ MergeBuddy /\ (nodes' = nodes \/ Top.node \notin nodes')
     \/ SplitExhausted \/ MergeDownStop \/ ReaddByte \/ AfterReadd \/ MergeEmpty \/ Climb
     \/ MergeFiner \/ MergeFwd
     \/ \E k \in Keys : LookUp(k)
  /\ column' = [n \in NodeIds |-> IF n \in nodes' THEN column[n] ELSE <<>>]
  /\ UNCHANGED cells

SInit == Init /\ column = [n \in NodeIds |-> <<>>] /\ cells = <<>>

ContinueIds == SplitNodeIds \/ SplitFwdIds \/ MergeBuddyIds \/ KeepIds

SNext ==
  \/ \E k \in Keys : InsertEntry(k)
  \/ \E k \in Assigned, v \in Values : Assign(k, v)
  \/ \E k \in Erased : EraseEntry(k)
  \/ Renew
  \/ ContinueIds

SSpec == SInit /\ [][SNext]_svars

-----------------------------------------------------------------------------
(* Properties *)

\* Every id that an iterator's index() shows is the one that exists and insert answer
\* for its key, the entry under it points to the bucket, and unpack(index) leads back to
\* the item and returns the key, also in the middle of splits and merges.
IdsResolve ==
  \A n \in nodes : \A i \in DOMAIN node[n].items :
    LET k == node[n].items[i].ent
        id == column[n][i]
    IN  /\ ExistsId(k) = {id}
        /\ FindMetadata(id) = [node |-> n, bindex |-> i]
        /\ stack = <<>> => UnpackById(id) = k

\* What is in the buckets: each key with the id beside its item.
Beside == {<<node[x[1]].items[x[2]].ent, column[x[1]][x[2]]>> : x \in AllItems}

\* What the client sees: the id of each key, by IdsResolve the one that exists answers,
\* and the value under each id.
IdsSeen == [k \in {y[1] : y \in Beside} |-> (CHOOSE y \in Beside : y[1] = k)[2]]

DataSeen == [i \in DOMAIN cells |-> cells[i].data]

Abstract == INSTANCE StableMap WITH ids <- IdsSeen, data <- DataSeen

\* insert gives its key the next id and the default value, erase takes away its own, an
\* assignment changes the value of the key it is for, and the other keys keep their ids
\* and values through all of these and through every step of a split or a merge.
ImplementsStableMap ==
  /\ Abstract!MInit
  /\ [][/\ \A k \in Keys : InsertEntry(k) => Abstract!Insert(k)
        /\ \A k \in Assigned, v \in Values : Assign(k, v) => Abstract!Write(k, v)
        /\ \A k \in Erased : EraseEntry(k) => Abstract!Erase(k)
        /\ Renew => Abstract!Renew
        /\ ContinueIds => UNCHANGED <<IdsSeen, DataSeen>>]_svars

=============================================================================
