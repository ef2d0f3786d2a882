------------------------- MODULE PTrieStableProofs -------------------------
(***************************************************************************)
(* Theorems about PTrieStable, for any keys and as many ids as there may   *)
(* be, where an I is as wide as a size_t: an id leads to the key that has  *)
(* it, and set_stable and map keep what they promise.                      *)
(***************************************************************************)
EXTENDS PTrieStorageProofs, PTrieStable, SequenceTheorems

-----------------------------------------------------------------------------
(* The invariant *)

Cells == [key : Keys, node : NodeIds, data : Values \cup {Default}]

\* The entry under an id.
CellAt(l, id) == l[id + 1]

\* The columns col of the buckets N are as long as their items, and the entry under the id of
\* an item was made for its key and points to the bucket.
ColumnsOf(N, nd, col, l) ==
  /\ \A n \in NodeIds : Len(col[n]) = Len(nd[n].items)
  /\ \A n \in N : \A i \in 1 .. Len(col[n]) : /\ col[n][i] < Len(l)
                                              /\ CellAt(l, col[n][i]).key = nd[n].items[i].ent
                                              /\ CellAt(l, col[n][i]).node = n

ColumnsInv ==
  /\ column \in [NodeIds -> Seq(Nat)] /\ cells \in Seq(Cells)
  /\ ColumnsOf(nodes, node, column, cells)

-----------------------------------------------------------------------------
(* Ids and items *)

\* What an id beside an item is.
LEMMA IdFacts ==
  ASSUME TreeInv, ColumnsInv, NEW n \in nodes, NEW i \in DOMAIN node[n].items,
         NEW id, id = column[n][i]
  PROVE  /\ n \in NodeIds /\ i \in 1 .. Len(column[n]) /\ Len(column[n]) = Len(node[n].items)
         /\ DOMAIN node[n].items = 1 .. Len(node[n].items) /\ Len(node[n].items) \in Nat
         /\ id \in Nat /\ id + 1 \in 1 .. Len(cells) /\ Len(cells) \in Nat
         /\ cells[id + 1] \in Cells /\ cells[id + 1].key = node[n].items[i].ent
         /\ cells[id + 1].node = n
<1>1. n \in NodeIds /\ node[n].items \in Seq(Items)
  BY Addresses DEF TreeInv
<1>2. /\ column[n] \in Seq(Nat) /\ cells \in Seq(Cells) /\ Len(cells) \in Nat
      /\ Len(column[n]) = Len(node[n].items)
  BY <1>1 DEF ColumnsInv, ColumnsOf
<1>3. /\ DOMAIN node[n].items = 1 .. Len(node[n].items) /\ Len(node[n].items) \in Nat
      /\ i \in 1 .. Len(column[n])
  BY <1>1, <1>2
<1>4. id \in Nat
  BY <1>2, <1>3
<1>5. id < Len(cells) /\ cells[id + 1].key = node[n].items[i].ent /\ cells[id + 1].node = n
  BY <1>3 DEF ColumnsInv, ColumnsOf, CellAt
<1>6. id + 1 \in 1 .. Len(cells)
  BY <1>2, <1>4, <1>5
<1>7. cells[id + 1] \in Cells
  BY <1>2, <1>6
<1>8. QED
  BY <1>1, <1>2, <1>3, <1>4, <1>5, <1>6, <1>7

\* A key is beside one item only.
LEMMA OneItem ==
  ASSUME TreeInv, PathInv, ContentInv, NEW n \in nodes, NEW i \in DOMAIN node[n].items,
         NEW m \in nodes, NEW j \in DOMAIN node[m].items,
         node[n].items[i].ent = node[m].items[j].ent
  PROVE  n = m /\ i = j
<1>1. PICK k : k = node[n].items[i].ent
  OBVIOUS
<1>2. k \in Ents(node[n].items) /\ k \in Ents(node[m].items)
  BY <1>1, EntsAre
<1>3. n = m
  BY <1>2 DEF ContentInv, EntriesPointHome
<1>4. PICK path : path = PathTo(node[n].parent)
  OBVIOUS
<1>5. Lists(node[n].items, path, node[n].prefix)
  BY <1>4, Held DEF ContentInv
<1>6. PICK b : b = Len(path) \div BDIV
  OBVIOUS
<1>7. i = j
  BY <1>3, <1>5, <1>6, ListsFacts
<1>8. QED
  BY <1>3, <1>7

\* So is an id.
LEMMA OneId ==
  ASSUME TreeInv, PathInv, ContentInv, ColumnsInv, NEW n \in nodes, NEW i \in DOMAIN node[n].items,
         NEW m \in nodes, NEW j \in DOMAIN node[m].items, column[n][i] = column[m][j]
  PROVE  n = m /\ i = j
<1>1. node[n].items[i].ent = node[m].items[j].ent
  BY IdFacts
<1>2. QED
  BY <1>1, OneItem

\* An item of a bucket: its key is stored, and is found there by best_match.
LEMMA ItemHome ==
  ASSUME <<>> \notin Keys, TreeInv, PathInv, ContentInv, NEW n \in nodes, NEW items,
         items = node[n].items, NEW i \in DOMAIN items, NEW k, k = items[i].ent
  PROVE  /\ k \in Keys /\ k \in Stored
         /\ BestMatch(k).base = n /\ BestMatch(k).index = i
<1>1. PICK f, path : f = node[n].parent /\ path = PathTo(f)
  OBVIOUS
<1>2. Lists(items, path, node[n].prefix)
  BY <1>1, Held DEF ContentInv
<1>3. PICK b : b = Len(path) \div BDIV
  OBVIOUS
<1>4. /\ k \in Keys /\ \A j \in DOMAIN items : items[j].ent = k => j = i
  BY <1>2, <1>3, ListsFacts
<1>5. k \in Ents(items)
  BY EntsAre
<1>6. entry[k] = n
  BY <1>5 DEF ContentInv, EntriesPointHome
<1>7. k \in Stored
  <2>1. n # Null
    BY Addresses DEF TreeInv
  <2>2. QED
    BY <1>4, <1>6, <2>1 DEF Stored
<1>8. PICK m : m = BestMatch(k)
  OBVIOUS
<1>9. Matched(k, m) /\ n \in NodeIds
  BY <1>4, <1>8, Matching, Addresses DEF ContentInv, TreeInv
<1>10. m.base = n /\ m.found
  BY <1>5, <1>9 DEF Matched
<1>11. m.index \in DOMAIN items /\ items[m.index].ent = k
  BY <1>9, <1>10 DEF Matched
<1>12. QED
  BY <1>4, <1>7, <1>8, <1>10, <1>11

\* Where an I is as wide as a size_t, what is read is the id.
LEMMA LoadsOne ==
  ASSUME IdSpan = 1, NEW ids, NEW i PROVE Loads(ids, i) = {ids[i]}
BY DEF Loads

\* The id of an item leads to the item.
LEMMA IdLeads ==
  ASSUME <<>> \notin Keys, IdSpan = 1, TreeInv, PathInv, ContentInv, ColumnsInv, NEW n \in nodes,
         NEW i \in DOMAIN node[n].items, NEW id, id = column[n][i]
  PROVE  /\ ExistsId(node[n].items[i].ent) = {id}
         /\ FindMetadata(id) = [node |-> n, bindex |-> i]
<1>1. PICK k : k = node[n].items[i].ent
  OBVIOUS
<1>2. BestMatch(k).base = n /\ BestMatch(k).index = i
  BY <1>1, ItemHome
<1>3. ExistsId(k) = {id}
  BY <1>2, LoadsOne DEF ExistsId
<1>4. PICK hits : hits = {j \in DOMAIN node[n].items : id \in Loads(column[n], j)}
  OBVIOUS
<1>5. hits = {i}
  <2>1. ASSUME NEW j \in DOMAIN node[n].items, id \in Loads(column[n], j) PROVE j = i
    <3>1. column[n][i] = column[n][j]
      BY <2>1, LoadsOne
    <3>2. QED
      BY <3>1, OneId
  <2>2. id \in Loads(column[n], i)
    BY LoadsOne
  <2>3. QED
    BY <1>4, <2>1, <2>2
<1>6. cells[id + 1].node = n /\ i \in Nat
  BY IdFacts
<1>7. Min(hits) = i
  BY <1>5, <1>6 DEF Min
<1>8. FindMetadata(id) = [node |-> n, bindex |-> Min(hits)]
  BY <1>4, <1>5, <1>6 DEF FindMetadata
<1>9. QED
  BY <1>1, <1>3, <1>7, <1>8

\* So do all ids.
LEMMA IdsResolved ==
  ASSUME <<>> \notin Keys, IdSpan = 1, TreeInv, PathInv, ContentInv, ColumnsInv PROVE IdsResolve
<1> SUFFICES ASSUME NEW n \in nodes, NEW i \in DOMAIN node[n].items
             PROVE  /\ ExistsId(node[n].items[i].ent) = {column[n][i]}
                    /\ FindMetadata(column[n][i]) = [node |-> n, bindex |-> i]
                    /\ stack = <<>> => UnpackById(column[n][i]) = node[n].items[i].ent
  BY DEF IdsResolve
<1>1. PICK k, id : k = node[n].items[i].ent /\ id = column[n][i]
  OBVIOUS
<1>2. ExistsId(k) = {id} /\ FindMetadata(id) = [node |-> n, bindex |-> i]
  BY <1>1, IdLeads
<1>3. Unpack(n, i) = k
  BY <1>1, UnpackIs
<1>4. UnpackById(id) = Unpack(n, i)
  BY <1>2 DEF UnpackById
<1>5. QED
  BY <1>1, <1>2, <1>3, <1>4

-----------------------------------------------------------------------------
(* What the client sees *)

\* The keys in the buckets N, each with the id beside its item.
BesideOf(N, nd, col) ==
  {<<nd[x[1]].items[x[2]].ent, col[x[1]][x[2]]>> :
     x \in UNION {{<<n, i>> : i \in DOMAIN nd[n].items} : n \in N}}

LEMMA BesideIs ==
  Beside = BesideOf(nodes, node, column) /\ Beside' = BesideOf(nodes', node', column')
BY DEF Beside, AllItems, BesideOf

LEMMA BesideHas ==
  ASSUME NEW N, NEW nd, NEW col, NEW y
  PROVE  y \in BesideOf(N, nd, col) <=>
           \E n \in N : \E i \in DOMAIN nd[n].items : y = <<nd[n].items[i].ent, col[n][i]>>
<1>1. PICK places : places = UNION {{<<n, i>> : i \in DOMAIN nd[n].items} : n \in N}
  OBVIOUS
<1>2. BesideOf(N, nd, col) = {<<nd[x[1]].items[x[2]].ent, col[x[1]][x[2]]>> : x \in places}
  BY <1>1 DEF BesideOf
<1>3. ASSUME y \in BesideOf(N, nd, col)
      PROVE  \E n \in N : \E i \in DOMAIN nd[n].items : y = <<nd[n].items[i].ent, col[n][i]>>
  <2>1. PICK x \in places : y = <<nd[x[1]].items[x[2]].ent, col[x[1]][x[2]]>>
    BY <1>2, <1>3
  <2>2. PICK n \in N : x \in {<<n, i>> : i \in DOMAIN nd[n].items}
    BY <1>1, <2>1
  <2>3. PICK i \in DOMAIN nd[n].items : x = <<n, i>>
    BY <2>2
  <2>4. x[1] = n /\ x[2] = i
    BY <2>3
  <2>5. QED
    BY <2>1, <2>4
<1>4. ASSUME NEW n \in N, NEW i \in DOMAIN nd[n].items, y = <<nd[n].items[i].ent, col[n][i]>>
      PROVE  y \in BesideOf(N, nd, col)
  <2>1. <<n, i>> \in places
    BY <1>1
  <2>2. PICK x : x = <<n, i>>
    OBVIOUS
  <2>3. x \in places /\ x[1] = n /\ x[2] = i
    BY <2>1, <2>2
  <2>4. y = <<nd[x[1]].items[x[2]].ent, col[x[1]][x[2]]>>
    BY <1>4, <2>3
  <2>5. QED
    BY <1>2, <2>3, <2>4
<1>5. QED
  BY <1>3, <1>4

\* The keys in the buckets are those with an entry.
LEMMA BesideKeys ==
  ASSUME NEW N, NEW nd, NEW col, NEW e, HomeOf(N, nd, e), Null \notin N,
         \A n \in N : \A i \in DOMAIN nd[n].items : nd[n].items[i].ent \in Keys
  PROVE  {y[1] : y \in BesideOf(N, nd, col)} = {k \in Keys : e[k] # Null}
<1>1. ASSUME NEW y \in BesideOf(N, nd, col) PROVE y[1] \in Keys /\ e[y[1]] # Null
  <2>1. PICK n \in N : \E i \in DOMAIN nd[n].items : y = <<nd[n].items[i].ent, col[n][i]>>
    BY <1>1, BesideHas
  <2>2. PICK i \in DOMAIN nd[n].items : y = <<nd[n].items[i].ent, col[n][i]>>
    BY <2>1
  <2>3. y[1] = nd[n].items[i].ent
    BY <2>2
  <2>4. y[1] \in Ents(nd[n].items)
    BY <2>3, EntsAre
  <2>5. QED
    BY <2>3, <2>4 DEF HomeOf
<1>2. ASSUME NEW k \in Keys, e[k] # Null PROVE \E y \in BesideOf(N, nd, col) : y[1] = k
  <2>1. e[k] \in N /\ k \in Ents(nd[e[k]].items)
    BY <1>2 DEF HomeOf
  <2>2. PICK i \in DOMAIN nd[e[k]].items : nd[e[k]].items[i].ent = k
    BY <2>1, EntsAre
  <2>3. PICK y : y = <<k, col[e[k]][i]>>
    OBVIOUS
  <2>4. y \in BesideOf(N, nd, col) /\ y[1] = k
    BY <2>1, <2>2, <2>3, BesideHas
  <2>5. QED
    BY <2>4
<1>3. PICK B, S, T : /\ B = BesideOf(N, nd, col) /\ S = {k \in Keys : e[k] # Null}
                     /\ T = {y[1] : y \in B}
  OBVIOUS
<1>4. ASSUME NEW k \in T PROVE k \in S
  <2>1. PICK y \in B : k = y[1]
    BY <1>3
  <2>2. QED
    BY <1>1, <1>3, <2>1
<1>5. ASSUME NEW k \in S PROVE k \in T
  <2>1. PICK y \in B : k = y[1]
    BY <1>2, <1>3, <1>5
  <2>2. QED
    BY <1>3, <2>1
<1>6. T = S
  BY <1>4, <1>5
<1>7. QED
  BY <1>3, <1>6

\* The keys that are seen to have ids, before a step and after.
LEMMA SeenKeys ==
  ASSUME TreeInv, TreeInv', ContentInv, ContentInv'
  PROVE  {y[1] : y \in Beside} = Stored /\ {y[1] : y \in Beside'} = Stored'
<1>1. ASSUME NEW n \in nodes, NEW i \in DOMAIN node[n].items PROVE node[n].items[i].ent \in Keys
  <2>1. node[n].items \in Seq(Items)
    BY Addresses DEF TreeInv
  <2>2. node[n].items[i] \in Items
    BY <2>1
  <2>3. QED
    BY <2>2 DEF Items
<1>2. /\ node' \in [NodeIds -> Node] /\ nodes' \subseteq NodeIds /\ Null \notin NodeIds
      /\ nodes \subseteq NodeIds
  BY PTrieAssumption DEF TreeInv, TypeOK, BucketsOK
<1>3. ASSUME NEW n \in nodes', NEW i \in DOMAIN node'[n].items PROVE node'[n].items[i].ent \in Keys
  <2>1. node'[n].items \in Seq(Items)
    BY <1>2 DEF Node
  <2>2. node'[n].items[i] \in Items
    BY <2>1
  <2>3. QED
    BY <2>2 DEF Items
<1>4. HomeOf(nodes, node, entry) /\ HomeOf(nodes', node', entry')
  BY PartsNow, PartsNext DEF ContentInv
<1>5. {y[1] : y \in BesideOf(nodes, node, column)} = {k \in Keys : entry[k] # Null}
  BY <1>1, <1>2, <1>4, BesideKeys
<1>6. {y[1] : y \in BesideOf(nodes', node', column')} = {k \in Keys : entry'[k] # Null}
  BY <1>2, <1>3, <1>4, BesideKeys
<1>7. QED
  BY <1>5, <1>6, BesideIs DEF Stored

\* No key has two ids.
LEMMA BesideOne ==
  ASSUME TreeInv, PathInv, ContentInv, NEW y \in Beside, NEW z \in Beside, y[1] = z[1]
  PROVE  y = z
<1>1. PICK n \in nodes : \E i \in DOMAIN node[n].items : y = <<node[n].items[i].ent, column[n][i]>>
  BY BesideIs, BesideHas
<1>2. PICK m \in nodes : \E j \in DOMAIN node[m].items : z = <<node[m].items[j].ent, column[m][j]>>
  BY BesideIs, BesideHas
<1>3. PICK i \in DOMAIN node[n].items : y = <<node[n].items[i].ent, column[n][i]>>
  BY <1>1
<1>4. PICK j \in DOMAIN node[m].items : z = <<node[m].items[j].ent, column[m][j]>>
  BY <1>2
<1>5. node[n].items[i].ent = node[m].items[j].ent
  BY <1>3, <1>4
<1>6. n = m /\ i = j
  BY <1>5, OneItem
<1>7. QED
  BY <1>3, <1>4, <1>6

\* The id that is seen.
LEMMA SeenIs ==
  ASSUME TreeInv, PathInv, ContentInv, NEW y \in Beside
  PROVE  y[1] \in DOMAIN IdsSeen /\ IdsSeen[y[1]] = y[2]
<1>1. PICK z : z = CHOOSE x \in Beside : x[1] = y[1]
  OBVIOUS
<1>2. z \in Beside /\ z[1] = y[1]
  BY <1>1
<1>3. z = y
  BY <1>2, BesideOne
<1>4. QED
  BY <1>1, <1>3 DEF IdsSeen

\* Keys that stay keep the ids that are seen, where none comes into the buckets with another.
LEMMA SeenStays ==
  ASSUME TreeInv, TreeInv', PathInv, ContentInv, ContentInv', Beside' \subseteq Beside
  PROVE  /\ Stored' \subseteq Stored
         /\ DOMAIN IdsSeen = Stored
         /\ IdsSeen' = [k \in Stored' |-> IdsSeen[k]]
<1>1. {y[1] : y \in Beside} = Stored /\ {y[1] : y \in Beside'} = Stored'
  BY SeenKeys
<1>2. ASSUME NEW k \in Stored' PROVE (CHOOSE y \in Beside' : y[1] = k)[2] = IdsSeen[k]
  <2>1. PICK z : z = CHOOSE y \in Beside' : y[1] = k
    OBVIOUS
  <2>2. \E y \in Beside' : y[1] = k
    BY <1>1, <1>2
  <2>3. z \in Beside' /\ z[1] = k
    BY <2>1, <2>2
  <2>4. IdsSeen[k] = z[2]
    BY <2>3, SeenIs
  <2>5. QED
    BY <2>1, <2>4
<1>3. IdsSeen' = [k \in Stored' |-> (CHOOSE y \in Beside' : y[1] = k)[2]]
  BY <1>1 DEF IdsSeen
<1>4. DOMAIN IdsSeen = Stored
  BY <1>1 DEF IdsSeen
<1>5. QED
  BY <1>1, <1>2, <1>3, <1>4

-----------------------------------------------------------------------------
(* Sequences *)

\* u and v are the first a elements of s and the b others.
CutInto(s, a, b, u, v) ==
  /\ Len(u) = a /\ DOMAIN u = 1 .. a
  /\ Len(v) = b /\ DOMAIN v = 1 .. b
  /\ \A j \in 1 .. a : u[j] = s[j] /\ j \in DOMAIN s
  /\ \A j \in 1 .. b : v[j] = s[a + j] /\ a + j \in DOMAIN s

\* The two parts of a sequence.
LEMMA CutIn ==
  ASSUME NEW S, NEW s \in Seq(S), NEW a \in 0 .. Len(s), NEW b, b = Len(s) - a
  PROVE  /\ SubSeq(s, 1, a) \in Seq(S) /\ SubSeq(s, a + 1, Len(s)) \in Seq(S)
         /\ CutInto(s, a, b, SubSeq(s, 1, a), SubSeq(s, a + 1, Len(s)))
<1>1. Len(s) \in Nat /\ DOMAIN s = 1 .. Len(s) /\ a \in Nat /\ b \in Nat
  OBVIOUS
<1>2. /\ SubSeq(s, 1, a) \in Seq(S) /\ Len(SubSeq(s, 1, a)) = a
      /\ \A j \in 1 .. a : SubSeq(s, 1, a)[j] = s[j] /\ j \in DOMAIN s
  BY <1>1
<1>3. SubSeq(s, a + 1, Len(s)) \in Seq(S) /\ Len(SubSeq(s, a + 1, Len(s))) = b
  BY <1>1
<1>4. ASSUME NEW j \in 1 .. b
      PROVE  SubSeq(s, a + 1, Len(s))[j] = s[a + j] /\ a + j \in DOMAIN s
  <2>1. SubSeq(s, a + 1, Len(s))[j] = s[a + 1 + j - 1]
    BY <1>1
  <2>2. a + 1 + j - 1 = a + j /\ a + j \in DOMAIN s
    BY <1>1
  <2>3. QED
    BY <2>1, <2>2
<1>5. DOMAIN SubSeq(s, 1, a) = 1 .. a /\ DOMAIN SubSeq(s, a + 1, Len(s)) = 1 .. b
  BY <1>2, <1>3
<1>6. QED
  BY <1>2, <1>3, <1>4, <1>5 DEF CutInto

\* t is u, of a elements, and then v, of b.
Together(u, a, v, b, t) ==
  /\ Len(t) = a + b /\ DOMAIN t = 1 .. a + b
  /\ \A j \in 1 .. a + b : /\ j <= a => t[j] = u[j] /\ j \in 1 .. a
                           /\ j > a => t[j] = v[j - a] /\ j - a \in 1 .. b

\* Two sequences that are put together.
LEMMA TogetherIs ==
  ASSUME NEW S, NEW u \in Seq(S), NEW v \in Seq(S), NEW a, NEW b, a = Len(u), b = Len(v)
  PROVE  u \o v \in Seq(S) /\ Together(u, a, v, b, u \o v) /\ a \in Nat /\ b \in Nat
<1>1. PICK t : t = u \o v
  OBVIOUS
<1>2. a \in Nat /\ b \in Nat /\ t \in Seq(S) /\ Len(t) = a + b /\ DOMAIN t = 1 .. a + b
  BY <1>1
<1>3. ASSUME NEW j \in 1 .. a + b, j <= a PROVE t[j] = u[j] /\ j \in 1 .. a
  BY <1>1, <1>2, <1>3
<1>4. ASSUME NEW j \in 1 .. a + b, j > a PROVE t[j] = v[j - a] /\ j - a \in 1 .. b
  <2>1. j - a \in 1 .. b /\ j = a + (j - a)
    BY <1>2, <1>4
  <2>2. t[j] = v[j - Len(u)]
    BY <1>1, <1>2, <1>4
  <2>3. QED
    BY <2>1, <2>2
<1>5. Together(u, a, v, b, t)
  BY <1>2, <1>3, <1>4 DEF Together
<1>6. QED
  BY <1>1, <1>2, <1>5

\* t is s, of a elements, with e put in as number i.
Longer(s, a, i, e, t) ==
  /\ Len(t) = a + 1 /\ DOMAIN t = 1 .. a + 1
  /\ \A j \in 1 .. a + 1 : /\ j < i => t[j] = s[j] /\ j \in DOMAIN s
                           /\ j = i => t[j] = e
                           /\ j > i => t[j] = s[j - 1] /\ j - 1 \in DOMAIN s

LEMMA LongerIs ==
  ASSUME NEW S, NEW s \in Seq(S), NEW i \in 1 .. Len(s) + 1, NEW e \in S
  PROVE  InsertAt(s, i, e) \in Seq(S) /\ Longer(s, Len(s), i, e, InsertAt(s, i, e))
<1>1. PICK c \in 0 .. Len(s) : c = i - 1
  OBVIOUS
<1>2. PICK d : d = Len(s) - c
  OBVIOUS
<1>3. Len(s) \in Nat /\ c \in Nat /\ d \in Nat /\ i = c + 1 /\ i + d = Len(s) + 1
  BY <1>1, <1>2
<1>4. PICK u, v, w, t : /\ u = SubSeq(s, 1, c) /\ v = SubSeq(s, c + 1, Len(s))
                        /\ w = u \o <<e>> /\ t = w \o v
  OBVIOUS
<1>5. u \in Seq(S) /\ v \in Seq(S) /\ CutInto(s, c, d, u, v)
  BY <1>2, <1>4, CutIn
<1>6. Len(u) = c /\ Len(v) = d
  BY <1>5 DEF CutInto
<1>7. w \in Seq(S) /\ Together(u, c, <<e>>, 1, w)
  <2>1. <<e>> \in Seq(S) /\ Len(<<e>>) = 1
    OBVIOUS
  <2>2. QED
    BY <1>4, <1>5, <1>6, <2>1, TogetherIs
<1>8. Len(w) = i
  BY <1>3, <1>7 DEF Together
<1>9. t \in Seq(S) /\ Together(w, i, v, d, t)
  BY <1>4, <1>5, <1>6, <1>7, <1>8, TogetherIs
<1>10. t = InsertAt(s, i, e)
  <2>1. SubSeq(s, 1, i - 1) = u /\ SubSeq(s, i, Len(s)) = v
    BY <1>1, <1>3, <1>4
  <2>2. QED
    BY <1>4, <2>1 DEF InsertAt
<1>11. ASSUME NEW j \in 1 .. Len(s) + 1, j < i PROVE t[j] = s[j] /\ j \in DOMAIN s
  <2>1. j \in 1 .. c /\ j \in 1 .. c + 1 /\ j \in 1 .. i + d /\ j <= i /\ j <= c
    BY <1>3, <1>11
  <2>2. t[j] = w[j]
    BY <1>9, <2>1 DEF Together
  <2>3. w[j] = u[j]
    BY <1>7, <2>1 DEF Together
  <2>4. u[j] = s[j] /\ j \in DOMAIN s
    BY <1>5, <2>1 DEF CutInto
  <2>5. QED
    BY <2>2, <2>3, <2>4
<1>12. t[i] = e
  <2>1. i \in 1 .. c + 1 /\ i \in 1 .. i + d /\ i <= i /\ i > c /\ i - c = 1
    BY <1>3
  <2>2. t[i] = w[i]
    BY <1>9, <2>1 DEF Together
  <2>3. w[i] = <<e>>[i - c]
    BY <1>7, <2>1 DEF Together
  <2>4. QED
    BY <2>1, <2>2, <2>3
<1>13. ASSUME NEW j \in 1 .. Len(s) + 1, j > i PROVE t[j] = s[j - 1] /\ j - 1 \in DOMAIN s
  <2>1. j \in 1 .. i + d /\ j - i \in 1 .. d /\ c + (j - i) = j - 1
    BY <1>3, <1>13
  <2>2. t[j] = v[j - i]
    BY <1>9, <1>13, <2>1 DEF Together
  <2>3. v[j - i] = s[c + (j - i)] /\ c + (j - i) \in DOMAIN s
    BY <1>5, <2>1 DEF CutInto
  <2>4. QED
    BY <2>1, <2>2, <2>3
<1>14. Len(t) = Len(s) + 1 /\ DOMAIN t = 1 .. Len(s) + 1
  BY <1>3, <1>9 DEF Together
<1>15. Longer(s, Len(s), i, e, t)
  BY <1>11, <1>12, <1>13, <1>14 DEF Longer
<1>16. QED
  BY <1>9, <1>10, <1>15

\* t is s, of a elements, without number i.
Shorter(s, a, i, t) ==
  /\ Len(t) = a - 1 /\ DOMAIN t = 1 .. a - 1
  /\ \A j \in 1 .. a - 1 : /\ j < i => t[j] = s[j] /\ j \in DOMAIN s
                           /\ j >= i => t[j] = s[j + 1] /\ j + 1 \in DOMAIN s

LEMMA ShorterIs ==
  ASSUME NEW S, NEW s \in Seq(S), NEW i \in 1 .. Len(s)
  PROVE  RemoveAt(s, i) \in Seq(S) /\ Shorter(s, Len(s), i, RemoveAt(s, i))
<1>1. PICK c \in 0 .. Len(s) : c = i - 1
  OBVIOUS
<1>2. PICK d, b : d = Len(s) - i /\ b = Len(s) - c
  OBVIOUS
<1>3. /\ Len(s) \in Nat /\ c \in Nat /\ d \in Nat /\ i = c + 1 /\ c + d = Len(s) - 1
      /\ i \in 0 .. Len(s)
  BY <1>1, <1>2
<1>4. PICK u, v, t : u = SubSeq(s, 1, c) /\ v = SubSeq(s, i + 1, Len(s)) /\ t = u \o v
  OBVIOUS
<1>5. u \in Seq(S) /\ CutInto(s, c, b, u, SubSeq(s, c + 1, Len(s)))
  BY <1>2, <1>4, CutIn
<1>6. v \in Seq(S) /\ CutInto(s, i, d, SubSeq(s, 1, i), v)
  BY <1>2, <1>3, <1>4, CutIn
<1>7. Len(u) = c /\ Len(v) = d
  BY <1>5, <1>6 DEF CutInto
<1>8. t \in Seq(S) /\ Together(u, c, v, d, t)
  BY <1>4, <1>5, <1>6, <1>7, TogetherIs
<1>9. t = RemoveAt(s, i)
  BY <1>1, <1>4 DEF RemoveAt
<1>10. ASSUME NEW j \in 1 .. Len(s) - 1, j < i PROVE t[j] = s[j] /\ j \in DOMAIN s
  <2>1. j \in 1 .. c /\ j \in 1 .. c + d /\ j <= c
    BY <1>3, <1>10
  <2>2. t[j] = u[j]
    BY <1>8, <2>1 DEF Together
  <2>3. u[j] = s[j] /\ j \in DOMAIN s
    BY <1>5, <2>1 DEF CutInto
  <2>4. QED
    BY <2>2, <2>3
<1>11. ASSUME NEW j \in 1 .. Len(s) - 1, j >= i PROVE t[j] = s[j + 1] /\ j + 1 \in DOMAIN s
  <2>1. j \in 1 .. c + d /\ j > c /\ j - c \in 1 .. d /\ i + (j - c) = j + 1
    BY <1>3, <1>11
  <2>2. t[j] = v[j - c]
    BY <1>8, <2>1 DEF Together
  <2>3. v[j - c] = s[i + (j - c)] /\ i + (j - c) \in DOMAIN s
    BY <1>6, <2>1 DEF CutInto
  <2>4. QED
    BY <2>1, <2>2, <2>3
<1>12. Len(t) = Len(s) - 1 /\ DOMAIN t = 1 .. Len(s) - 1
  BY <1>3, <1>8 DEF Together
<1>13. Shorter(s, Len(s), i, t)
  BY <1>10, <1>11, <1>12 DEF Shorter
<1>14. QED
  BY <1>8, <1>9, <1>13

-----------------------------------------------------------------------------
(* Steps that give out no id *)

\* The item j of the bucket n has the key and the id of the item i of m before the step.
From(n, j, m, i) ==
  /\ m \in nodes /\ i \in DOMAIN node[m].items
  /\ node'[n].items[j].ent = node[m].items[i].ent
  /\ column'[n][j] = column[m][i]

\* Every item has the key and the id of some item before the step.
Carried == \A n \in nodes' : \A j \in DOMAIN node'[n].items : \E m, i : From(n, j, m, i)

\* No key is beside an id that it was not beside before.
LEMMA CarriedBeside ==
  ASSUME Carried PROVE Beside' \subseteq Beside
<1> SUFFICES ASSUME NEW y \in Beside' PROVE y \in Beside
  OBVIOUS
<1>1. PICK n \in nodes' :
        \E j \in DOMAIN node'[n].items : y = <<node'[n].items[j].ent, column'[n][j]>>
  BY BesideIs, BesideHas
<1>2. PICK j \in DOMAIN node'[n].items : y = <<node'[n].items[j].ent, column'[n][j]>>
  BY <1>1
<1>3. PICK m, i : From(n, j, m, i)
  BY DEF Carried
<1>4. m \in nodes /\ i \in DOMAIN node[m].items /\ y = <<node[m].items[i].ent, column[m][i]>>
  BY <1>2, <1>3 DEF From
<1>5. QED
  BY <1>4, BesideIs, BesideHas

\* The list of entries is as before but for the buckets of some.
SameCells ==
  /\ cells' \in Seq(Cells) /\ Len(cells') = Len(cells)
  /\ \A x \in 1 .. Len(cells) : /\ cells'[x].key = cells[x].key
                                /\ cells'[x].data = cells[x].data

\* What is seen and the invariant after a step that gives out no id.
LEMMA CarriedStep ==
  ASSUME TreeInv, TreeInv', ColumnsInv, Carried, SameCells,
         column' \in [NodeIds -> Seq(Nat)],
         \A n \in NodeIds : Len(column'[n]) = Len(node'[n].items),
         \A n \in nodes' : \A j \in DOMAIN node'[n].items : CellAt(cells', column'[n][j]).node = n
  PROVE  ColumnsInv' /\ Beside' \subseteq Beside /\ DataSeen' = DataSeen
<1>1. cells \in Seq(Cells) /\ cells' \in Seq(Cells) /\ Len(cells') = Len(cells)
  BY DEF ColumnsInv, SameCells
<1>2. node' \in [NodeIds -> Node] /\ nodes' \subseteq NodeIds
  BY DEF TreeInv, TypeOK, BucketsOK
<1>3. ASSUME NEW n \in nodes', NEW j \in 1 .. Len(column'[n])
      PROVE  /\ column'[n][j] < Len(cells')
             /\ CellAt(cells', column'[n][j]).key = node'[n].items[j].ent
             /\ CellAt(cells', column'[n][j]).node = n
  <2>1. j \in DOMAIN node'[n].items
    <3>1. node'[n].items \in Seq(Items)
      BY <1>2 DEF Node
    <3>2. Len(column'[n]) = Len(node'[n].items)
      BY <1>2
    <3>3. QED
      BY <3>1, <3>2
  <2>2. PICK m, i : From(n, j, m, i)
    BY <2>1 DEF Carried
  <2>3. PICK id : id = column[m][i]
    OBVIOUS
  <2>4. /\ id \in Nat /\ id + 1 \in 1 .. Len(cells) /\ Len(cells) \in Nat
        /\ cells[id + 1].key = node[m].items[i].ent
    BY <2>2, <2>3, IdFacts DEF From
  <2>5. cells'[id + 1].key = node'[n].items[j].ent /\ column'[n][j] = id
    BY <2>2, <2>3, <2>4 DEF From, SameCells
  <2>6. id < Len(cells')
    BY <1>1, <2>4
  <2>7. CellAt(cells', column'[n][j]).node = n
    BY <2>1
  <2>8. QED
    BY <2>5, <2>6, <2>7 DEF CellAt
<1>4. ColumnsInv'
  BY <1>1, <1>3 DEF ColumnsInv, ColumnsOf
<1>5. DataSeen' = DataSeen
  <2>1. DOMAIN cells = 1 .. Len(cells) /\ DOMAIN cells' = 1 .. Len(cells)
    BY <1>1
  <2>2. QED
    BY <2>1 DEF DataSeen, SameCells
<1>6. QED
  BY <1>4, <1>5, CarriedBeside

\* The entries with these ids point to the bucket c, and nothing else changes in the list.
LEMMA RedirectedIs ==
  ASSUME ColumnsInv, NEW c \in NodeIds, NEW ids, cells' = Redirected(c, ids)
  PROVE  /\ SameCells
         /\ \A x \in 1 .. Len(cells) :
              cells'[x].node = IF x - 1 \in Range(ids) THEN c ELSE cells[x].node
<1>1. cells \in Seq(Cells) /\ Len(cells) \in Nat /\ DOMAIN cells = 1 .. Len(cells)
  BY DEF ColumnsInv
<1>2. PICK l : l = [x \in 1 .. Len(cells) |->
                      IF x - 1 \in Range(ids) THEN [cells[x] EXCEPT !.node = c] ELSE cells[x]]
  OBVIOUS
<1>3. cells' = l
  BY <1>1, <1>2 DEF Redirected
<1>4. ASSUME NEW x \in 1 .. Len(cells)
      PROVE  /\ l[x] \in Cells /\ l[x].key = cells[x].key /\ l[x].data = cells[x].data
             /\ l[x].node = IF x - 1 \in Range(ids) THEN c ELSE cells[x].node
  <2>1. cells[x] \in Cells
    BY <1>1
  <2>2. CASE x - 1 \in Range(ids)
    <3>1. l[x] = [cells[x] EXCEPT !.node = c]
      BY <1>2, <2>2
    <3>2. QED
      BY <2>1, <2>2, <3>1 DEF Cells
  <2>3. CASE x - 1 \notin Range(ids)
    <3>1. l[x] = cells[x]
      BY <1>2, <2>3
    <3>2. QED
      BY <2>1, <2>3, <3>1
  <2>4. QED
    BY <2>2, <2>3
<1>5. l \in Seq(Cells) /\ Len(l) = Len(cells)
  BY <1>1, <1>2, <1>4
<1>6. QED
  BY <1>3, <1>4, <1>5 DEF SameCells

\* What is seen and the invariant after a bucket c gets items from others, with their ids.
LEMMA RedirectedStep ==
  ASSUME TreeInv, TreeInv', ColumnsInv, Carried,
         NEW c \in NodeIds, NEW ids, cells' = Redirected(c, ids),
         column' \in [NodeIds -> Seq(Nat)],
         \A n \in NodeIds : Len(column'[n]) = Len(node'[n].items),
         \A n \in nodes' : \A j \in DOMAIN node'[n].items :
           IF n = c THEN column'[n][j] \in Range(ids)
           ELSE column'[n][j] \notin Range(ids) /\ \E i : From(n, j, n, i)
  PROVE  ColumnsInv' /\ Beside' \subseteq Beside /\ DataSeen' = DataSeen
<1>1. /\ SameCells
      /\ \A x \in 1 .. Len(cells) :
           cells'[x].node = IF x - 1 \in Range(ids) THEN c ELSE cells[x].node
  BY RedirectedIs
<1>2. ASSUME NEW n \in nodes', NEW j \in DOMAIN node'[n].items
      PROVE  CellAt(cells', column'[n][j]).node = n
  <2>1. PICK id : id = column'[n][j]
    OBVIOUS
  <2>2. PICK m, i : From(n, j, m, i) /\ (n # c => m = n)
    BY DEF Carried
  <2>3. m \in nodes /\ i \in DOMAIN node[m].items /\ id = column[m][i]
    BY <2>1, <2>2 DEF From
  <2>4. id \in Nat /\ id + 1 \in 1 .. Len(cells) /\ cells[id + 1].node = m
    BY <2>3, IdFacts
  <2>5. cells'[id + 1].node = IF id \in Range(ids) THEN c ELSE m
    <3>1. id + 1 - 1 = id
      BY <2>4
    <3>2. QED
      BY <1>1, <2>4, <3>1
  <2>6. cells'[id + 1].node = n
    BY <2>1, <2>2, <2>5
  <2>7. QED
    BY <2>1, <2>6 DEF CellAt
<1>3. QED
  BY <1>1, <1>2, CarriedStep

\* No bucket comes, and those that stay keep their keys in order.
ItemsStay ==
  /\ nodes' \subseteq nodes
  /\ \A n \in nodes' : /\ DOMAIN node'[n].items = DOMAIN node[n].items
                       /\ \A i \in DOMAIN node[n].items : node'[n].items[i].ent = node[n].items[i].ent

\* They keep their ids then.
LEMMA KeptStep ==
  ASSUME TreeInv, TreeInv', ColumnsInv, ItemsStay, cells' = cells,
         column' = [n \in NodeIds |-> IF n \in nodes' THEN column[n] ELSE <<>>]
  PROVE  ColumnsInv' /\ Beside' \subseteq Beside /\ DataSeen' = DataSeen
<1>1. column \in [NodeIds -> Seq(Nat)] /\ cells \in Seq(Cells)
  BY DEF ColumnsInv
<1>2. /\ node \in [NodeIds -> Node] /\ node' \in [NodeIds -> Node]
      /\ nodes \subseteq NodeIds /\ nodes' \subseteq nodes
  BY DEF TreeInv, TypeOK, BucketsOK, ItemsStay
<1>3. <<>> \in Seq(Nat) /\ Len(<<>>) = 0
  OBVIOUS
<1>4. column' \in [NodeIds -> Seq(Nat)]
  BY <1>1, <1>3
<1>5. \A n \in nodes' : column'[n] = column[n]
  BY <1>2
<1>6. SameCells
  BY <1>1 DEF SameCells
<1>7. ASSUME NEW n \in NodeIds PROVE Len(column'[n]) = Len(node'[n].items)
  <2>1. CASE n \in nodes'
    <3>1. node[n].items \in Seq(Items) /\ node'[n].items \in Seq(Items)
      BY <1>2 DEF Node
    <3>2. DOMAIN node'[n].items = DOMAIN node[n].items
      BY <2>1 DEF ItemsStay
    <3>3. Len(node'[n].items) = Len(node[n].items)
      BY <3>1, <3>2
    <3>4. Len(column[n]) = Len(node[n].items)
      BY DEF ColumnsInv, ColumnsOf
    <3>5. QED
      BY <1>5, <2>1, <3>3, <3>4
  <2>2. CASE n \notin nodes'
    <3>1. node'[n].items = <<>>
      BY <2>2 DEF TreeInv, DeadOK, DeadNode
    <3>2. column'[n] = <<>>
      BY <2>2
    <3>3. QED
      BY <3>1, <3>2
  <2>3. QED
    BY <2>1, <2>2
<1>8. ASSUME NEW n \in nodes', NEW j \in DOMAIN node'[n].items
      PROVE  From(n, j, n, j) /\ CellAt(cells', column'[n][j]).node = n
  <2>1. n \in nodes /\ j \in DOMAIN node[n].items /\ node'[n].items[j].ent = node[n].items[j].ent
    BY <1>2 DEF ItemsStay
  <2>2. column'[n][j] = column[n][j]
    BY <1>5
  <2>3. cells[column[n][j] + 1].node = n
    BY <2>1, IdFacts
  <2>4. QED
    BY <2>1, <2>2, <2>3 DEF From, CellAt
<1>9. Carried
  BY <1>8 DEF Carried
<1>10. QED
  BY <1>4, <1>6, <1>7, <1>8, <1>9, CarriedStep

-----------------------------------------------------------------------------
(* Splits and merges *)

\* lows has the keys of the first a items, highs those of the b others.
KeysCut(items, a, b, lows, highs) ==
  /\ a \in Nat /\ b \in Nat /\ Len(items) = a + b
  /\ Len(lows) = a /\ DOMAIN lows = 1 .. a
  /\ Len(highs) = b /\ DOMAIN highs = 1 .. b
  /\ \A j \in 1 .. a : lows[j].ent = items[j].ent /\ j \in DOMAIN items
  /\ \A j \in 1 .. b : highs[j].ent = items[a + j].ent /\ a + j \in DOMAIN items

\* Items that may have changed but for their keys are cut in two.
LEMMA KeysAreCut ==
  ASSUME NEW items \in Seq(Items), NEW moved \in Seq(Items), DOMAIN moved = DOMAIN items,
         \A i \in DOMAIN items : moved[i].ent = items[i].ent,
         NEW a \in 0 .. Len(items), NEW b, b = Len(items) - a
  PROVE  KeysCut(items, a, b, SubSeq(moved, 1, a), SubSeq(moved, a + 1, Len(moved)))
<1>1. PICK lows, highs : lows = SubSeq(moved, 1, a) /\ highs = SubSeq(moved, a + 1, Len(moved))
  OBVIOUS
<1>2. Len(moved) = Len(items) /\ Len(items) \in Nat
  OBVIOUS
<1>3. CutInto(moved, a, b, lows, highs)
  BY <1>1, <1>2, CutIn
<1>4. a \in Nat /\ b \in Nat /\ Len(items) = a + b
  BY <1>2
<1>5. ASSUME NEW j \in 1 .. a PROVE lows[j].ent = items[j].ent /\ j \in DOMAIN items
  <2>1. lows[j] = moved[j] /\ j \in DOMAIN moved
    BY <1>3 DEF CutInto
  <2>2. QED
    BY <2>1
<1>6. ASSUME NEW j \in 1 .. b PROVE highs[j].ent = items[a + j].ent /\ a + j \in DOMAIN items
  <2>1. highs[j] = moved[a + j] /\ a + j \in DOMAIN moved
    BY <1>3 DEF CutInto
  <2>2. QED
    BY <2>1
<1>7. KeysCut(items, a, b, lows, highs)
  BY <1>3, <1>4, <1>5, <1>6 DEF KeysCut, CutInto
<1>8. QED
  BY <1>1, <1>7

\* move_data leaves the keys in their order.
LEMMA MovedKeys ==
  ASSUME NEW items \in Seq(Items), NEW cut, NEW count, NEW b, NEW size, NEW moved,
         moved = [i \in DOMAIN items |->
                    IF cut = 1 THEN CutItem(items, i, count, b, size) ELSE items[i]]
  PROVE  /\ moved \in Seq(Items) /\ DOMAIN moved = DOMAIN items /\ Len(moved) = Len(items)
         /\ \A i \in DOMAIN items : moved[i].ent = items[i].ent
<1>1. ASSUME NEW i \in DOMAIN items PROVE moved[i] \in Items /\ moved[i].ent = items[i].ent
  <2>1. items[i] \in Items
    OBVIOUS
  <2>2. CutItem(items, i, count, b, size) \in Items
    BY CutItemType
  <2>3. CutItem(items, i, count, b, size).ent = items[i].ent
    <3>1. PICK x, y : CutItem(items, i, count, b, size) = [items[i] EXCEPT !.first = x, !.res = y]
      BY DEF CutItem
    <3>2. QED
      BY <2>1, <3>1 DEF Items
  <2>4. moved[i] = IF cut = 1 THEN CutItem(items, i, count, b, size) ELSE items[i]
    OBVIOUS
  <2>5. CASE cut = 1
    BY <2>2, <2>3, <2>4, <2>5
  <2>6. CASE cut # 1
    BY <2>1, <2>4, <2>6
  <2>7. QED
    BY <2>5, <2>6
<1>2. DOMAIN items = 1 .. Len(items) /\ Len(items) \in Nat /\ DOMAIN moved = DOMAIN items
  OBVIOUS
<1>3. moved = [i \in 1 .. Len(items) |-> moved[i]]
  BY <1>2
<1>4. \A i \in 1 .. Len(items) : moved[i] \in Items
  BY <1>1, <1>2
<1>5. moved \in [1 .. Len(items) -> Items]
  BY <1>3, <1>4
<1>6. moved \in Seq(Items) /\ Len(moved) = Len(items)
  BY <1>2, <1>5
<1>7. QED
  BY <1>1, <1>2, <1>6

\* A split leaves the items n has in their bucket, or there is a bucket h more, and n has
\* the items x, h the items y.
SplitInto(n, h, x, y) ==
  /\ h \in NodeIds \ nodes /\ nodes' = nodes \cup {h}
  /\ node'[n].items = x /\ node'[h].items = y
  /\ \A m \in NodeIds \ {n, h} : node'[m].items = node[m].items

LEMMA SplitNodeItems ==
  ASSUME TreeInv, SplitNode, NEW n, n = Top.node
  PROVE  /\ n \in nodes
         /\ \E a, b, lows, highs :
              /\ KeysCut(node[n].items, a, b, lows, highs)
              /\ \/ nodes' = nodes /\ ItemsStay
                 \/ SplitInto(n, FreshNode, lows, highs)
<1>1. PICK f, old : f = Top.fwd /\ old = node[n]
  OBVIOUS
<1>2. PICK low, high : low = Append(old.prefix, 0) /\ high = Append(old.prefix, 1)
  OBVIOUS
<1>3. PICK count : count = LowCount(old.items, 1, Top.p % BDIV, Len(low))
  OBVIOUS
<1>4. PICK h : h = FreshNode
  OBVIOUS
<1>5. PICK lows, highs : /\ lows = SubSeq(old.items, 1, count)
                         /\ highs = SubSeq(old.items, count + 1, Len(old.items))
  OBVIOUS
<1>6. /\ Running("split")
      /\ \/ node' = [node EXCEPT ![n].prefix = high] /\ nodes' = nodes
         \/ node' = [node EXCEPT ![n].prefix = low] /\ nodes' = nodes
         \/ /\ nodes # NodeIds
            /\ nodes' = nodes \cup {h}
            /\ node' = [node EXCEPT ![n] = [old EXCEPT !.prefix = low, !.items = lows],
                                    ![h] = [prefix |-> high, parent |-> f, items |-> highs]]
  BY <1>1, <1>2, <1>3, <1>4, <1>5 DEF SplitNode
<1>7. /\ n \in nodes /\ n \in NodeIds /\ old \in Node /\ old.items \in Seq(Items)
      /\ nodes \subseteq NodeIds /\ node \in [NodeIds -> Node]
  BY <1>1, <1>6, SplitTop, Addresses DEF TreeInv
<1>8. count \in 0 .. Len(old.items)
  BY <1>3, <1>7, LowCountRange
<1>9. PICK b : b = Len(old.items) - count
  OBVIOUS
<1>10. KeysCut(old.items, count, b, lows, highs)
  BY <1>5, <1>7, <1>8, <1>9, KeysAreCut
<1>11. ASSUME NEW q, node' = [node EXCEPT ![n].prefix = q], nodes' = nodes
       PROVE  nodes' = nodes /\ ItemsStay
  <2>1. \A m \in NodeIds : node'[m].items = node[m].items
    BY <1>7, <1>11 DEF Node
  <2>2. QED
    BY <1>7, <1>11, <2>1 DEF ItemsStay
<1>12. ASSUME nodes # NodeIds, nodes' = nodes \cup {h},
              node' = [node EXCEPT ![n] = [old EXCEPT !.prefix = low, !.items = lows],
                                   ![h] = [prefix |-> high, parent |-> f, items |-> highs]]
       PROVE  SplitInto(n, h, lows, highs)
  <2>1. h \in NodeIds \ nodes
    BY <1>4, <1>7, <1>12 DEF FreshNode
  <2>2. node'[h].items = highs
    BY <1>7, <1>12, <2>1
  <2>3. node'[n].items = lows
    <3>1. node'[n] = [old EXCEPT !.prefix = low, !.items = lows]
      BY <1>7, <1>12, <2>1
    <3>2. QED
      BY <1>7, <3>1 DEF Node
  <2>4. \A m \in NodeIds \ {n, h} : node'[m].items = node[m].items
    BY <1>7, <1>12
  <2>5. nodes' = nodes \cup {h}
    BY <1>12
  <2>6. QED
    BY <2>1, <2>2, <2>3, <2>4, <2>5 DEF SplitInto
<1>13. \/ nodes' = nodes /\ ItemsStay
       \/ SplitInto(n, h, lows, highs)
  BY <1>6, <1>11, <1>12
<1>14. QED
  BY <1>1, <1>4, <1>7, <1>10, <1>13

\* split_fwd leaves the lower half in the new bucket.
LEMMA SplitFwdItems ==
  ASSUME TreeInv, SplitFwd, NEW n, n = Top.node
  PROVE  /\ n \in nodes
         /\ \E a, b, lows, highs :
              /\ KeysCut(node[n].items, a, b, lows, highs)
              /\ \/ nodes' = nodes /\ ItemsStay
                 \/ SplitInto(n, FreshNode, highs, lows)
<1>1. PICK items : items = node[n].items
  OBVIOUS
<1>2. PICK b : b = Top.p \div BDIV
  OBVIOUS
<1>3. PICK p : p = Top.p + 1
  OBVIOUS
<1>4. PICK cut : cut = IF p % BDIV = 0 THEN 1 ELSE 0
  OBVIOUS
<1>5. PICK size : size = Positive(Top.size) + b
  OBVIOUS
<1>6. PICK count : count = LowCount(items, 1 + cut, p % BDIV, 1)
  OBVIOUS
<1>7. PICK moved : moved = [i \in DOMAIN items |->
                              IF cut = 1 THEN CutItem(items, i, count, b, size) ELSE items[i]]
  OBVIOUS
<1>8. PICK lows, highs : /\ lows = SubSeq(moved, 1, count)
                         /\ highs = SubSeq(moved, count + 1, Len(moved))
  OBVIOUS
<1>9. PICK g, l : g = FreshFwd /\ l = FreshNode
  OBVIOUS
<1>10. \/ /\ lows = <<>>
          /\ node' = [node EXCEPT ![n] = [prefix |-> << 1 >>, parent |-> g, items |-> highs]]
          /\ Become(Frame("split", n, g, Top.size - cut, p))
          /\ UNCHANGED <<nodes, entry>>
       \/ /\ highs = <<>>
          /\ node' = [node EXCEPT ![n] = [prefix |-> << 0 >>, parent |-> g, items |-> lows]]
          /\ Become(Frame("split", n, g, Top.size - cut, p))
          /\ UNCHANGED <<nodes, entry>>
       \/ /\ lows # <<>> /\ highs # <<>> /\ nodes # NodeIds
          /\ nodes' = nodes \cup {l}
          /\ node' = [node EXCEPT ![n] = [prefix |-> << 1 >>, parent |-> g, items |-> highs],
                                  ![l] = [prefix |-> << 0 >>, parent |-> g, items |-> lows]]
          /\ entry' = Own(l, lows)
          /\ Return
  BY ZenonT(60), <1>1, <1>2, <1>3, <1>4, <1>5, <1>6, <1>7, <1>8, <1>9 DEF SplitFwd
<1>11. /\ n \in nodes /\ n \in NodeIds /\ items \in Seq(Items)
       /\ nodes \subseteq NodeIds /\ node \in [NodeIds -> Node]
  <2>1. Running("split")
    BY DEF SplitFwd
  <2>2. QED
    BY <1>1, <2>1, SplitTop, Addresses DEF TreeInv
<1>12. count \in 0 .. Len(items)
  BY <1>6, <1>11, LowCountRange
<1>13. PICK rest : rest = Len(items) - count
  OBVIOUS
<1>14. /\ moved \in Seq(Items) /\ DOMAIN moved = DOMAIN items
       /\ \A i \in DOMAIN items : moved[i].ent = items[i].ent
  <2>1. items \in Seq(Items)
    BY <1>11
  <2>2. QED
    BY <1>7, <2>1, MovedKeys
<1>15. KeysCut(items, count, rest, lows, highs)
  BY <1>8, <1>11, <1>12, <1>13, <1>14, KeysAreCut
<1>16. DOMAIN items = 1 .. Len(items) /\ Len(items) \in Nat
  BY <1>11
<1>17. ASSUME NEW q, NEW new, DOMAIN new = DOMAIN items,
              \A i \in DOMAIN items : new[i].ent = items[i].ent,
              node' = [node EXCEPT ![n] = [prefix |-> q, parent |-> g, items |-> new]],
              nodes' = nodes
       PROVE  ItemsStay
  <2>1. node'[n].items = new /\ \A m \in NodeIds \ {n} : node'[m] = node[m]
    BY <1>11, <1>17
  <2>2. ASSUME NEW m \in nodes'
        PROVE  /\ DOMAIN node'[m].items = DOMAIN node[m].items
               /\ \A i \in DOMAIN node[m].items : node'[m].items[i].ent = node[m].items[i].ent
    <3>1. CASE m = n
      BY <1>1, <1>17, <2>1, <3>1
    <3>2. CASE m # n
      BY <1>11, <1>17, <2>1, <3>2
    <3>3. QED
      BY <3>1, <3>2
  <2>3. QED
    BY <1>17, <2>2 DEF ItemsStay
<1>18. ASSUME lows = <<>>, nodes' = nodes,
              node' = [node EXCEPT ![n] = [prefix |-> << 1 >>, parent |-> g, items |-> highs]]
       PROVE  nodes' = nodes /\ ItemsStay
  <2>1. Len(lows) = 0
    BY <1>18
  <2>2. count = 0 /\ Len(highs) = Len(items) /\ DOMAIN highs = 1 .. rest /\ rest = Len(items)
    BY <1>13, <1>15, <1>16, <2>1 DEF KeysCut
  <2>3. ASSUME NEW i \in DOMAIN items PROVE highs[i].ent = items[i].ent
    <3>1. i \in 1 .. rest /\ count + i = i
      BY <1>16, <2>2
    <3>2. highs[i].ent = items[count + i].ent
      BY <1>15, <3>1 DEF KeysCut
    <3>3. QED
      BY <3>1, <3>2
  <2>4. QED
    BY <1>16, <1>17, <1>18, <2>2, <2>3
<1>19. ASSUME highs = <<>>, nodes' = nodes,
              node' = [node EXCEPT ![n] = [prefix |-> << 0 >>, parent |-> g, items |-> lows]]
       PROVE  nodes' = nodes /\ ItemsStay
  <2>1. Len(highs) = 0
    BY <1>19
  <2>2. count = Len(items) /\ DOMAIN lows = DOMAIN items
    BY <1>13, <1>15, <1>16, <2>1 DEF KeysCut
  <2>3. ASSUME NEW i \in DOMAIN items PROVE lows[i].ent = items[i].ent
    <3>1. i \in 1 .. count
      BY <1>16, <2>2
    <3>2. QED
      BY <1>15, <3>1 DEF KeysCut
  <2>4. QED
    BY <1>17, <1>19, <2>2, <2>3
<1>20. ASSUME nodes # NodeIds, nodes' = nodes \cup {l},
              node' = [node EXCEPT ![n] = [prefix |-> << 1 >>, parent |-> g, items |-> highs],
                                   ![l] = [prefix |-> << 0 >>, parent |-> g, items |-> lows]]
       PROVE  SplitInto(n, l, highs, lows)
  <2>1. l \in NodeIds \ nodes
    BY <1>9, <1>11, <1>20 DEF FreshNode
  <2>2. /\ node'[l].items = lows /\ node'[n].items = highs
        /\ \A m \in NodeIds \ {n, l} : node'[m].items = node[m].items
    BY <1>11, <1>20, <2>1
  <2>3. nodes' = nodes \cup {l}
    BY <1>20
  <2>4. QED
    BY <2>1, <2>2, <2>3 DEF SplitInto
<1>21. \/ nodes' = nodes /\ ItemsStay
       \/ SplitInto(n, l, highs, lows)
  BY <1>10, <1>18, <1>19, <1>20
<1>22. QED
  BY <1>1, <1>9, <1>11, <1>15, <1>21

\* What a step that gives out no id leaves: no new pair of a key and an id, and the values.
IdsCarried == ColumnsInv' /\ Beside' \subseteq Beside /\ DataSeen' = DataSeen

\* The items of x are, after the step, some of those of n, with these ids.
TakenFrom(n, x, ids) ==
  /\ ids \in Seq(Nat) /\ Len(ids) = Len(node'[x].items)
  /\ \A j \in DOMAIN node'[x].items : \E i \in DOMAIN node[n].items :
       node'[x].items[j].ent = node[n].items[i].ent /\ ids[j] = column[n][i]

\* A bucket is cut in two, with its ids.
LEMMA HalvedStep ==
  ASSUME TreeInv, TreeInv', PathInv, ContentInv, ContentInv', ColumnsInv,
         NEW n \in nodes, NEW c, NEW x, NEW y, SplitInto(n, c, x, y),
         NEW kept, NEW given, TakenFrom(n, n, kept), TakenFrom(n, c, given),
         Halved(n, c, kept, given)
  PROVE  IdsCarried
<1>1. /\ n \in NodeIds /\ c \in NodeIds /\ c \notin nodes /\ c # n /\ nodes' = nodes \cup {c}
      /\ nodes \subseteq NodeIds /\ node' \in [NodeIds -> Node]
      /\ \A m \in NodeIds \ {n, c} : node'[m].items = node[m].items
  BY Addresses DEF TreeInv, TypeOK, BucketsOK, SplitInto
<1>2. column \in [NodeIds -> Seq(Nat)]
  BY DEF ColumnsInv
<1>3. column' = [column EXCEPT ![n] = kept, ![c] = given] /\ cells' = Redirected(c, given)
  BY DEF Halved
<1>4. kept \in Seq(Nat) /\ given \in Seq(Nat)
  BY DEF TakenFrom
<1>5. /\ column' \in [NodeIds -> Seq(Nat)] /\ column'[n] = kept /\ column'[c] = given
      /\ \A m \in NodeIds \ {n, c} : column'[m] = column[m]
  BY <1>1, <1>2, <1>3, <1>4
<1>6. ASSUME NEW m \in NodeIds PROVE Len(column'[m]) = Len(node'[m].items)
  <2>1. CASE m = n \/ m = c
    BY <1>5, <2>1 DEF TakenFrom
  <2>2. CASE m # n /\ m # c
    BY <1>1, <1>5, <2>2 DEF ColumnsInv, ColumnsOf
  <2>3. QED
    BY <2>1, <2>2
<1>7. ASSUME NEW j \in DOMAIN node'[n].items PROVE \E i : From(n, j, n, i)
  <2>1. PICK i \in DOMAIN node[n].items :
               node'[n].items[j].ent = node[n].items[i].ent /\ kept[j] = column[n][i]
    BY DEF TakenFrom
  <2>2. QED
    BY <1>5, <2>1 DEF From
<1>8. ASSUME NEW j \in DOMAIN node'[c].items PROVE \E i : From(c, j, n, i)
  <2>1. PICK i \in DOMAIN node[n].items :
               node'[c].items[j].ent = node[n].items[i].ent /\ given[j] = column[n][i]
    BY DEF TakenFrom
  <2>2. QED
    BY <1>5, <2>1 DEF From
<1>9. ASSUME NEW m \in nodes, m # n, NEW j \in DOMAIN node'[m].items PROVE From(m, j, m, j)
  BY <1>1, <1>5, <1>9 DEF From
<1>10. ASSUME NEW m \in nodes', NEW j \in DOMAIN node'[m].items
       PROVE  \E d, i : From(m, j, d, i) /\ (m # c => d = m)
  <2>1. CASE m = n
    BY <1>1, <1>7, <2>1
  <2>2. CASE m = c
    BY <1>1, <1>8, <2>2
  <2>3. CASE m # n /\ m # c
    BY <1>1, <1>9, <2>3
  <2>4. QED
    BY <2>1, <2>2, <2>3
<1>11. Carried
  BY <1>10 DEF Carried
<1>12. DOMAIN given = DOMAIN node'[c].items
  <2>1. node'[c].items \in Seq(Items) /\ Len(given) = Len(node'[c].items)
    BY <1>1 DEF Node, TakenFrom
  <2>2. QED
    BY <1>4, <2>1
<1>13. \A j \in DOMAIN node'[c].items : column'[c][j] \in Range(given)
  BY <1>5, <1>12 DEF Range
<1>14. ASSUME NEW m \in nodes', m # c, NEW j \in DOMAIN node'[m].items, column'[m][j] \in Range(given)
       PROVE  FALSE
  <2>1. PICK i : From(m, j, m, i)
    BY <1>10, <1>14
  <2>2. /\ m \in nodes /\ i \in DOMAIN node[m].items /\ column'[m][j] = column[m][i]
        /\ node'[m].items[j].ent = node[m].items[i].ent
    BY <2>1 DEF From
  <2>3. PICK x1 \in DOMAIN node'[c].items : column'[m][j] = given[x1]
    BY <1>12, <1>14 DEF Range
  <2>4. PICK i1 \in DOMAIN node[n].items :
               node'[c].items[x1].ent = node[n].items[i1].ent /\ given[x1] = column[n][i1]
    BY DEF TakenFrom
  <2>5. column[m][i] = column[n][i1]
    BY <2>2, <2>3, <2>4
  <2>6. m = n /\ i = i1
    BY <2>2, <2>5, OneId
  <2>7. node'[m].items[j].ent = node'[c].items[x1].ent
    BY <2>2, <2>4, <2>6
  <2>8. PICK k : k = node'[m].items[j].ent
    OBVIOUS
  <2>9. k \in Ents(node'[m].items) /\ k \in Ents(node'[c].items)
    BY <2>7, <2>8, EntsAre
  <2>10. HomeOf(nodes', node', entry')
    BY PartsNext DEF ContentInv
  <2>11. entry'[k] = m /\ entry'[k] = c
    BY <1>1, <1>14, <2>9, <2>10 DEF HomeOf
  <2>12. QED
    BY <1>14, <2>11
<1>15. ASSUME NEW m \in nodes', NEW j \in DOMAIN node'[m].items
       PROVE  IF m = c THEN column'[m][j] \in Range(given)
              ELSE column'[m][j] \notin Range(given) /\ \E i : From(m, j, m, i)
  <2>1. CASE m = c
    BY <1>13, <2>1
  <2>2. CASE m # c
    BY <1>10, <1>14, <2>2
  <2>3. QED
    BY <2>1, <2>2
<1>16. QED
  BY <1>1, <1>3, <1>5, <1>6, <1>11, <1>15, RedirectedStep DEF IdsCarried

\* The ids go with the keys of each half.
LEMMA TakenHalves ==
  ASSUME TreeInv, ColumnsInv, NEW n \in nodes, NEW a, NEW b, NEW lows, NEW highs,
         KeysCut(node[n].items, a, b, lows, highs),
         NEW x, NEW y, node'[x].items = lows, node'[y].items = highs
  PROVE  /\ TakenFrom(n, x, SubSeq(column[n], 1, a))
         /\ TakenFrom(n, y, SubSeq(column[n], a + 1, Len(column[n])))
<1>1. PICK ids : ids = column[n]
  OBVIOUS
<1>2. /\ ids \in Seq(Nat) /\ Len(ids) = Len(node[n].items)
      /\ a \in Nat /\ b \in Nat /\ Len(node[n].items) = a + b
  BY <1>1, Addresses DEF TreeInv, ColumnsInv, ColumnsOf, KeysCut
<1>3. PICK u, v : u = SubSeq(ids, 1, a) /\ v = SubSeq(ids, a + 1, Len(ids))
  OBVIOUS
<1>4. u \in Seq(Nat) /\ v \in Seq(Nat) /\ CutInto(ids, a, b, u, v)
  <2>1. a \in 0 .. Len(ids) /\ b = Len(ids) - a
    BY <1>2
  <2>2. QED
    BY <1>2, <1>3, <2>1, CutIn
<1>5. Len(u) = Len(lows) /\ Len(v) = Len(highs)
  BY <1>4 DEF CutInto, KeysCut
<1>6. ASSUME NEW j \in DOMAIN lows
      PROVE  \E i \in DOMAIN node[n].items : lows[j].ent = node[n].items[i].ent /\ u[j] = ids[i]
  <2>1. j \in 1 .. a /\ lows[j].ent = node[n].items[j].ent /\ j \in DOMAIN node[n].items
    BY DEF KeysCut
  <2>2. u[j] = ids[j]
    BY <1>4, <2>1 DEF CutInto
  <2>3. QED
    BY <2>1, <2>2
<1>7. ASSUME NEW j \in DOMAIN highs
      PROVE  \E i \in DOMAIN node[n].items : highs[j].ent = node[n].items[i].ent /\ v[j] = ids[i]
  <2>1. /\ j \in 1 .. b /\ highs[j].ent = node[n].items[a + j].ent
        /\ a + j \in DOMAIN node[n].items
    BY DEF KeysCut
  <2>2. v[j] = ids[a + j]
    BY <1>4, <2>1 DEF CutInto
  <2>3. QED
    BY <2>1, <2>2
<1>8. TakenFrom(n, x, u)
  BY <1>1, <1>4, <1>5, <1>6 DEF TakenFrom
<1>9. TakenFrom(n, y, v)
  BY <1>1, <1>4, <1>5, <1>7 DEF TakenFrom
<1>10. QED
  BY <1>1, <1>3, <1>8, <1>9

LEMMA SplitNodeIdsStep ==
  ASSUME TreeInv, TreeInv', PathInv, ContentInv, ContentInv', ColumnsInv, SplitNodeIds
  PROVE  IdsCarried
<1>1. PICK n, h : n = Top.node /\ h = FreshNode
  OBVIOUS
<1>2. SplitNode /\ nodes' # nodes
  BY DEF SplitNodeIds
<1>3. PICK a, b, lows, highs : /\ n \in nodes
                               /\ KeysCut(node[n].items, a, b, lows, highs)
                               /\ SplitInto(n, h, lows, highs)
  BY <1>1, <1>2, SplitNodeItems
<1>4. Len(node'[n].items) = a /\ node'[n].items = lows /\ node'[h].items = highs
  BY <1>3 DEF SplitInto, KeysCut
<1>5. PICK kept, given : /\ kept = SubSeq(column[n], 1, a)
                         /\ given = SubSeq(column[n], a + 1, Len(column[n]))
  OBVIOUS
<1>6. Halved(n, h, kept, given)
  BY <1>1, <1>4, <1>5 DEF SplitNodeIds
<1>7. TakenFrom(n, n, kept) /\ TakenFrom(n, h, given)
  BY <1>3, <1>4, <1>5, TakenHalves
<1>8. QED
  BY <1>3, <1>6, <1>7, HalvedStep

LEMMA SplitFwdIdsStep ==
  ASSUME TreeInv, TreeInv', PathInv, ContentInv, ContentInv', ColumnsInv, SplitFwdIds
  PROVE  IdsCarried
<1>1. PICK n, l : n = Top.node /\ l = FreshNode
  OBVIOUS
<1>2. SplitFwd /\ nodes' # nodes
  BY DEF SplitFwdIds
<1>3. PICK a, b, lows, highs : /\ n \in nodes
                               /\ KeysCut(node[n].items, a, b, lows, highs)
                               /\ SplitInto(n, l, highs, lows)
  BY <1>1, <1>2, SplitFwdItems
<1>4. Len(node'[l].items) = a /\ node'[l].items = lows /\ node'[n].items = highs
  BY <1>3 DEF SplitInto, KeysCut
<1>5. PICK kept, given : /\ given = SubSeq(column[n], 1, a)
                         /\ kept = SubSeq(column[n], a + 1, Len(column[n]))
  OBVIOUS
<1>6. Halved(n, l, kept, given)
  BY <1>1, <1>4, <1>5 DEF SplitFwdIds
<1>7. TakenFrom(n, n, kept) /\ TakenFrom(n, l, given)
  BY <1>3, <1>4, <1>5, TakenHalves
<1>8. QED
  BY <1>3, <1>6, <1>7, HalvedStep

\* merge_nodes: the items of both buckets, and their ids, in the same order.
LEMMA MergeBuddyItems ==
  ASSUME TreeInv, MergeBuddy, nodes' # nodes, Top.node \in nodes',
         NEW n, n = Top.node, NEW c, c = BuddyOf(n)
  PROVE  /\ n \in nodes /\ c \in nodes /\ c # n /\ nodes' = nodes \ {c}
         /\ node'[n].items = Joined(node[n].prefix, node[n].items, node[c].items)
         /\ node'[c].items = <<>>
         /\ \A m \in NodeIds \ {n, c} : node'[m].items = node[m].items
<1>1. PICK both : both = Joined(node[n].prefix, node[n].items, node[c].items)
  OBVIOUS
<1>2. PICK r : r = node[c].prefix
  OBVIOUS
<1>3. /\ Merging /\ Running("merge_down") /\ node[n].prefix # <<>> /\ c \in NodeIds
      /\ \/ nodes' = nodes \ {n}
         \/ UNCHANGED <<fwd, nodes, node>>
         \/ /\ nodes' = nodes \ {c}
            /\ node' = [node EXCEPT ![n].items = both, ![n].prefix = Front(@), ![c] = DeadNode]
  BY <1>1, <1>2 DEF MergeBuddy, MergingRegular, Merging, Delete
<1>4. n \in nodes /\ n \in NodeIds /\ node \in [NodeIds -> Node]
  BY <1>3, MergeTop, Addresses DEF TreeInv
<1>5. c \in nodes /\ c # n
  BY <1>3, <1>4, BuddyBucket
<1>6. /\ nodes' = nodes \ {c}
      /\ node' = [node EXCEPT ![n].items = both, ![n].prefix = Front(@), ![c] = DeadNode]
  BY <1>3
<1>7. /\ node'[n].items = both /\ node'[c] = DeadNode
      /\ \A m \in NodeIds \ {n, c} : node'[m] = node[m]
  BY <1>3, <1>4, <1>5, <1>6 DEF Node
<1>8. node'[c].items = <<>>
  BY <1>7 DEF DeadNode
<1>9. QED
  BY <1>1, <1>4, <1>5, <1>6, <1>7, <1>8

LEMMA MergeBuddyIdsStep ==
  ASSUME TreeInv, TreeInv', PathInv, ContentInv, ColumnsInv, MergeBuddyIds
  PROVE  IdsCarried
<1>1. PICK n, c : n = Top.node /\ c = BuddyOf(n)
  OBVIOUS
<1>2. /\ n \in nodes /\ c \in nodes /\ c # n /\ nodes' = nodes \ {c}
      /\ node'[n].items = Joined(node[n].prefix, node[n].items, node[c].items)
      /\ node'[c].items = <<>>
      /\ \A m \in NodeIds \ {n, c} : node'[m].items = node[m].items
  BY <1>1, MergeBuddyItems DEF MergeBuddyIds
<1>3. PICK ids : ids = JoinedIds(n, c)
  OBVIOUS
<1>4. column' = [column EXCEPT ![n] = ids, ![c] = <<>>] /\ cells' = Redirected(n, ids)
  BY <1>1, <1>3 DEF MergeBuddyIds
<1>5. /\ n \in NodeIds /\ c \in NodeIds /\ nodes \subseteq NodeIds
      /\ column \in [NodeIds -> Seq(Nat)] /\ node \in [NodeIds -> Node]
  BY <1>2, Addresses DEF TreeInv, ColumnsInv
<1>6. PICK u, v : /\ (u = c /\ v = n) \/ (u = n /\ v = c)
                  /\ node'[n].items = node[u].items \o node[v].items
                  /\ ids = column[u] \o column[v]
  <2>1. CASE Last(node[n].prefix) = 1
    <3>1. node'[n].items = node[c].items \o node[n].items /\ ids = column[c] \o column[n]
      BY <1>2, <1>3, <2>1 DEF Joined, JoinedIds
    <3>2. QED
      BY <3>1
  <2>2. CASE Last(node[n].prefix) # 1
    <3>1. node'[n].items = node[n].items \o node[c].items /\ ids = column[n] \o column[c]
      BY <1>2, <1>3, <2>2 DEF Joined, JoinedIds
    <3>2. QED
      BY <3>1
  <2>3. QED
    BY <2>1, <2>2
<1>7. PICK a, b : a = Len(node[u].items) /\ b = Len(node[v].items)
  OBVIOUS
<1>8. /\ u \in nodes /\ v \in nodes /\ a \in Nat /\ b \in Nat
      /\ node[u].items \in Seq(Items) /\ node[v].items \in Seq(Items)
      /\ column[u] \in Seq(Nat) /\ column[v] \in Seq(Nat)
      /\ Len(column[u]) = a /\ Len(column[v]) = b
      /\ DOMAIN node[u].items = 1 .. a /\ DOMAIN node[v].items = 1 .. b
  <2>1. u \in nodes /\ v \in nodes /\ u \in NodeIds /\ v \in NodeIds
    BY <1>2, <1>5, <1>6
  <2>2. node[u].items \in Seq(Items) /\ node[v].items \in Seq(Items)
    BY <2>1, Addresses DEF TreeInv
  <2>3. Len(column[u]) = a /\ Len(column[v]) = b
    BY <1>7, <2>1 DEF ColumnsInv, ColumnsOf
  <2>4. QED
    BY <1>5, <1>7, <2>1, <2>2, <2>3
<1>9. Together(node[u].items, a, node[v].items, b, node'[n].items)
  BY <1>6, <1>7, <1>8, TogetherIs
<1>10. ids \in Seq(Nat) /\ Together(column[u], a, column[v], b, ids)
  BY <1>6, <1>8, TogetherIs
<1>11. <<>> \in Seq(Nat) /\ Len(<<>>) = 0
  OBVIOUS
<1>12. /\ column' \in [NodeIds -> Seq(Nat)] /\ column'[n] = ids /\ column'[c] = <<>>
       /\ \A m \in NodeIds \ {n, c} : column'[m] = column[m]
  BY <1>2, <1>4, <1>5, <1>10, <1>11
<1>13. ASSUME NEW m \in NodeIds PROVE Len(column'[m]) = Len(node'[m].items)
  <2>1. CASE m = n
    BY <1>9, <1>10, <1>12, <2>1 DEF Together
  <2>2. CASE m = c
    BY <1>2, <1>12, <2>2
  <2>3. CASE m # n /\ m # c
    BY <1>2, <1>12, <2>3 DEF ColumnsInv, ColumnsOf
  <2>4. QED
    BY <2>1, <2>2, <2>3
<1>14. ASSUME NEW j \in DOMAIN node'[n].items
       PROVE  (\E m, i : From(n, j, m, i)) /\ ids[j] \in Range(ids)
  <2>1. j \in 1 .. a + b /\ j \in DOMAIN ids
    BY <1>9, <1>10 DEF Together
  <2>2. CASE j <= a
    <3>1. node'[n].items[j] = node[u].items[j] /\ ids[j] = column[u][j] /\ j \in 1 .. a
      BY <1>9, <1>10, <2>1, <2>2 DEF Together
    <3>2. From(n, j, u, j)
      BY <1>8, <1>12, <3>1 DEF From
    <3>3. QED
      BY <2>1, <3>2 DEF Range
  <2>3. CASE j > a
    <3>1. PICK i : i = j - a
      OBVIOUS
    <3>2. node'[n].items[j] = node[v].items[i] /\ ids[j] = column[v][i] /\ i \in 1 .. b
      BY <1>9, <1>10, <2>1, <2>3, <3>1 DEF Together
    <3>3. From(n, j, v, i)
      BY <1>8, <1>12, <3>2 DEF From
    <3>4. QED
      BY <2>1, <3>3 DEF Range
  <2>4. QED
    BY <1>8, <2>1, <2>2, <2>3
<1>15. ASSUME NEW m \in nodes', m # n, NEW j \in DOMAIN node'[m].items
       PROVE  From(m, j, m, j) /\ column'[m][j] \notin Range(ids)
  <2>1. /\ m \in nodes /\ m # c /\ j \in DOMAIN node[m].items
        /\ node'[m].items[j].ent = node[m].items[j].ent /\ column'[m][j] = column[m][j]
    BY <1>2, <1>5, <1>12, <1>15
  <2>2. From(m, j, m, j)
    BY <2>1 DEF From
  <2>3. ASSUME column[m][j] \in Range(ids) PROVE FALSE
    <3>1. PICK x \in DOMAIN ids : ids[x] = column[m][j]
      BY <2>3 DEF Range
    <3>2. x \in DOMAIN node'[n].items
      BY <1>9, <1>10, <3>1 DEF Together
    <3>3. CASE x <= a
      <4>1. ids[x] = column[u][x] /\ x \in 1 .. a
        BY <1>10, <3>1, <3>3 DEF Together
      <4>2. m = u
        <5>1. /\ u \in nodes /\ x \in DOMAIN node[u].items
              /\ column[m][j] = column[u][x]
          BY <1>8, <3>1, <4>1
        <5>2. QED
          BY <2>1, <5>1, OneId
      <4>3. QED
        BY <1>6, <1>15, <2>1, <4>2
    <3>4. CASE x > a
      <4>1. ids[x] = column[v][x - a] /\ x - a \in 1 .. b
        BY <1>10, <3>1, <3>4 DEF Together
      <4>2. m = v
        <5>1. /\ v \in nodes /\ x - a \in DOMAIN node[v].items
              /\ column[m][j] = column[v][x - a]
          BY <1>8, <3>1, <4>1
        <5>2. QED
          BY <2>1, <5>1, OneId
      <4>3. QED
        BY <1>6, <1>15, <2>1, <4>2
    <3>5. x \in Nat
      BY <1>10, <3>1
    <3>6. QED
      BY <1>8, <3>3, <3>4, <3>5
  <2>4. QED
    BY <2>1, <2>2, <2>3
<1>16. Carried
  BY <1>14, <1>15 DEF Carried
<1>17. ASSUME NEW m \in nodes', NEW j \in DOMAIN node'[m].items
       PROVE  IF m = n THEN column'[m][j] \in Range(ids)
              ELSE column'[m][j] \notin Range(ids) /\ \E i : From(m, j, m, i)
  <2>1. CASE m = n
    BY <1>12, <1>14, <2>1
  <2>2. CASE m # n
    BY <1>15, <2>2
  <2>3. QED
    BY <2>1, <2>2
<1>18. cells' = Redirected(n, ids) /\ n \in NodeIds /\ column' \in [NodeIds -> Seq(Nat)]
  BY <1>4, <1>5, <1>12
<1>19. QED
  BY <1>13, <1>16, <1>17, <1>18, RedirectedStep DEF IdsCarried

\* The steps of splits and merges that move no id.
LEMMA ReaddByteItems ==
  ASSUME TreeInv, ReaddByte PROVE ItemsStay
<1> DEFINE carry == Top.p % BDIV = 0
           on_heap == IF carry THEN Top.size + 1 ELSE Top.size
           b == Top.p \div BDIV - 1
           sizes == [i \in DOMAIN node[Top.node].items |->
                       IF Top.p <= BDIV
                       THEN ((on_heap + b) \div Base) * Base + node[Top.node].items[i].first[1]
                       ELSE Positive(on_heap)]
<1>1. \E y \in IF carry THEN GetByte(node[Top.node].parent) ELSE {0} :
        node' = [node EXCEPT ![Top.node] =
                   [prefix |-> fwd[node[Top.node].parent].path,
                    parent |-> fwd[node[Top.node].parent].parent,
                    items |-> IF carry THEN InjectByte(node[Top.node].items, y, sizes)
                              ELSE node[Top.node].items]]
  BY DEF ReaddByte
<1>2. PICK n, items : n = Top.node /\ items = node[n].items
  OBVIOUS
<1>3. PICK size, inject : size = sizes /\ inject = carry
  OBVIOUS
<1> HIDE DEF sizes, carry
<1>4. PICK y, t, up :
        node' = [node EXCEPT ![n] = [prefix |-> t, parent |-> up,
                                     items |-> IF inject THEN InjectByte(items, y, size) ELSE items]]
  BY <1>1, <1>2, <1>3
<1>5. PICK new : new = IF inject THEN InjectByte(items, y, size) ELSE items
  OBVIOUS
<1>6. n \in nodes /\ n \in NodeIds /\ items \in Seq(Items) /\ nodes' = nodes
  BY <1>2, MergeTop DEF ReaddByte, Merging
<1>7. DOMAIN new = DOMAIN items /\ \A i \in DOMAIN items : new[i].ent = items[i].ent
  <2>1. CASE inject
    <3>1. new = [i \in DOMAIN items |->
                   [items[i] EXCEPT
                      !.first = <<y, items[i].first[1]>>,
                      !.res = IF size[i] > 0 THEN <<items[i].first[2]>> \o @ ELSE @]]
      BY <1>5, <2>1 DEF InjectByte
    <3>2. ASSUME NEW i \in DOMAIN items PROVE new[i].ent = items[i].ent
      <4>1. items[i] \in Items
        BY <1>6
      <4>2. PICK x, z : new[i] = [items[i] EXCEPT !.first = x, !.res = z]
        BY <3>1
      <4>3. QED
        BY <4>1, <4>2 DEF Items
    <3>3. QED
      BY <3>1, <3>2
  <2>2. CASE ~ inject
    BY <1>5, <2>2
  <2>3. QED
    BY <2>1, <2>2
<1>8. node \in [NodeIds -> Node] /\ nodes \subseteq NodeIds
  BY Addresses DEF TreeInv
<1>9. node'[n].items = new /\ \A m \in NodeIds \ {n} : node'[m] = node[m]
  BY <1>4, <1>5, <1>6, <1>8
<1>10. ASSUME NEW m \in nodes'
       PROVE  /\ DOMAIN node'[m].items = DOMAIN node[m].items
              /\ \A i \in DOMAIN node[m].items : node'[m].items[i].ent = node[m].items[i].ent
  <2>1. CASE m = n
    BY <1>2, <1>7, <1>9, <2>1
  <2>2. CASE m # n
    BY <1>6, <1>8, <1>9, <2>2
  <2>3. QED
    BY <2>1, <2>2
<1>11. QED
  BY <1>6, <1>10 DEF ItemsStay

LEMMA StayingItems ==
  ASSUME nodes' \subseteq nodes, \A n \in nodes' : node'[n].items = node[n].items
  PROVE  ItemsStay
BY DEF ItemsStay

\* A bucket goes, and at most the prefix of another one changes.
LEMMA GoneItems ==
  ASSUME TreeInv, NEW n \in NodeIds, nodes' = nodes \ {n},
         \/ node' = [node EXCEPT ![n] = DeadNode]
         \/ \E c \in NodeIds : \E q : node' = [node EXCEPT ![n] = DeadNode, ![c].prefix = q]
  PROVE  ItemsStay
<1>1. node \in [NodeIds -> Node] /\ nodes \subseteq NodeIds
  BY Addresses DEF TreeInv
<1>2. CASE node' = [node EXCEPT ![n] = DeadNode]
  <2>1. \A m \in nodes' : node'[m].items = node[m].items
    BY <1>1, <1>2
  <2>2. QED
    BY <2>1, StayingItems
<1>3. ASSUME NEW c \in NodeIds, NEW q, node' = [node EXCEPT ![n] = DeadNode, ![c].prefix = q]
      PROVE  ItemsStay
  <2>1. \A m \in nodes' : node'[m].items = node[m].items
    BY <1>1, <1>3 DEF Node
  <2>2. QED
    BY <2>1, StayingItems
<1>4. QED
  BY <1>2, <1>3

LEMMA KeptItems ==
  ASSUME TreeInv, KeepIds PROVE ItemsStay
<1>1. node \in [NodeIds -> Node] /\ nodes \subseteq NodeIds
  BY Addresses DEF TreeInv
<1>2. ASSUME nodes' = nodes, node' = node PROVE ItemsStay
  BY <1>2, StayingItems
<1>3. ASSUME SplitNode, nodes' = nodes PROVE ItemsStay
  <2>1. PICK n, a, b, lows, highs : \/ ItemsStay
                                    \/ SplitInto(n, FreshNode, lows, highs)
    BY <1>3, SplitNodeItems
  <2>2. QED
    BY <1>3, <2>1 DEF SplitInto
<1>4. ASSUME SplitFwd, nodes' = nodes PROVE ItemsStay
  <2>1. PICK n, a, b, lows, highs : \/ ItemsStay
                                    \/ SplitInto(n, FreshNode, highs, lows)
    BY <1>4, SplitFwdItems
  <2>2. QED
    BY <1>4, <2>1 DEF SplitInto
<1>5. ASSUME MergeBuddy, nodes' = nodes \/ Top.node \notin nodes' PROVE ItemsStay
  <2>1. PICK n, c, r, both : /\ n = Top.node /\ c = BuddyOf(n) /\ r = node[c].prefix
                             /\ both = Joined(node[n].prefix, node[n].items, node[c].items)
    OBVIOUS
  <2>2. /\ Merging /\ Running("merge_down") /\ node[n].prefix # <<>> /\ c \in NodeIds
        /\ \/ /\ nodes' = nodes \ {n}
              /\ node' = [node EXCEPT ![n] = DeadNode, ![c].prefix = Front(r)]
           \/ nodes' = nodes /\ node' = node
           \/ nodes' = nodes \ {c}
    BY <1>5, <2>1 DEF MergeBuddy, MergingRegular, Merging, Delete
  <2>3. n \in nodes /\ n \in NodeIds
    BY <2>1, <2>2, MergeTop
  <2>4. c \in nodes /\ c # n
    BY <2>1, <2>2, <2>3, BuddyBucket
  <2>5. nodes' # nodes \ {c}
    BY <1>5, <2>1, <2>3, <2>4
  <2>6. QED
    BY <1>2, <2>2, <2>3, <2>5, GoneItems
<1>6. ASSUME MergeEmpty PROVE ItemsStay
  <2>1. PICK n : n = Top.node
    OBVIOUS
  <2>2. n \in NodeIds /\ nodes' = nodes \ {n} /\ node' = [node EXCEPT ![n] = DeadNode]
    BY <1>6, <2>1, MergeTop DEF MergeEmpty, Merging
  <2>3. QED
    BY <2>2, GoneItems
<1>7. ASSUME MergeFiner PROVE ItemsStay
  <2>1. PICK n : n = Top.node
    OBVIOUS
  <2>2. /\ n \in NodeIds
        /\ \/ nodes' = nodes \ {n} /\ node' = [node EXCEPT ![n] = DeadNode]
           \/ nodes' = nodes /\ node' = node
    BY <1>7, <2>1, MergeTop DEF MergeFiner, MergingRegular, Merging, Delete
  <2>3. QED
    BY <1>2, <2>2, GoneItems
<1>8. ASSUME MergeFwd PROVE ItemsStay
  <2>1. PICK n, q : n = Top.node /\ q = Front(node[n].prefix)
    OBVIOUS
  <2>2. /\ n \in NodeIds
        /\ \/ nodes' = nodes \ {n} /\ node' = [node EXCEPT ![n] = DeadNode]
           \/ nodes' = nodes /\ node' = node
           \/ nodes' = nodes /\ node' = [node EXCEPT ![n].prefix = q]
    BY <1>8, <2>1, MergeTop DEF MergeFwd, MergingRegular, Merging, Delete
  <2>3. ASSUME nodes' = nodes, node' = [node EXCEPT ![n].prefix = q] PROVE ItemsStay
    <3>1. \A m \in nodes' : node'[m].items = node[m].items
      BY <1>1, <2>3 DEF Node
    <3>2. QED
      BY <2>3, <3>1, StayingItems
  <2>4. QED
    BY <1>2, <2>2, <2>3, GoneItems
<1>9. SplitExhausted \/ MergeDownStop \/ AfterReadd \/ Climb \/ (\E k \in Keys : LookUp(k)) =>
        nodes' = nodes /\ node' = node
  BY DEF SplitExhausted, MergeDownStop, AfterReadd, Climb, LookUp
<1>10. QED
  BY <1>2, <1>3, <1>4, <1>5, <1>6, <1>7, <1>8, <1>9, ReaddByteItems DEF KeepIds

LEMMA KeepIdsStep ==
  ASSUME TreeInv, TreeInv', ColumnsInv, KeepIds PROVE IdsCarried
<1>1. ItemsStay
  BY KeptItems
<1>2. column' = [n \in NodeIds |-> IF n \in nodes' THEN column[n] ELSE <<>>] /\ cells' = cells
  BY DEF KeepIds
<1>3. QED
  BY <1>1, <1>2, KeptStep DEF IdsCarried

\* No step of a split or of a chain of merges changes what is beside the items, nor values.
LEMMA ContinueIdsStep ==
  ASSUME TreeInv, TreeInv', PathInv, ContentInv, ContentInv', ColumnsInv, ContinueIds
  PROVE  IdsCarried
BY SplitNodeIdsStep, SplitFwdIdsStep, MergeBuddyIdsStep, KeepIdsStep DEF ContinueIds

-----------------------------------------------------------------------------
(* The operations *)

\* The ids that are seen after a new key k got the id i.
LEMMA SeenGrows ==
  ASSUME TreeInv, TreeInv', PathInv, ContentInv, ContentInv', NEW k, k \notin Stored,
         Stored' = Stored \cup {k}, NEW i, Beside' \subseteq Beside \cup {<<k, i>>}
  PROVE  IdsSeen' = Abstract!With(IdsSeen, k, i) /\ k \notin DOMAIN IdsSeen
<1>1. {y[1] : y \in Beside} = Stored /\ {y[1] : y \in Beside'} = Stored'
  BY SeenKeys
<1>2. DOMAIN IdsSeen = Stored
  BY <1>1 DEF IdsSeen
<1>3. IdsSeen' = [j \in Stored' |-> (CHOOSE y \in Beside' : y[1] = j)[2]]
  BY <1>1 DEF IdsSeen
<1>4. ASSUME NEW j \in Stored'
      PROVE  (CHOOSE y \in Beside' : y[1] = j)[2] = IF j = k THEN i ELSE IdsSeen[j]
  <2>1. PICK z : z = CHOOSE y \in Beside' : y[1] = j
    OBVIOUS
  <2>2. \E y \in Beside' : y[1] = j
    BY <1>1, <1>4
  <2>3. z \in Beside' /\ z[1] = j
    BY <2>1, <2>2
  <2>4. CASE z \in Beside
    <3>1. j \in Stored /\ j # k
      BY <1>1, <2>3, <2>4
    <3>2. IdsSeen[j] = z[2]
      BY <2>3, <2>4, SeenIs
    <3>3. QED
      BY <2>1, <3>1, <3>2
  <2>5. CASE z = <<k, i>>
    <3>1. z[1] = k /\ z[2] = i
      BY <2>5
    <3>2. QED
      BY <2>1, <2>3, <3>1
  <2>6. QED
    BY <2>3, <2>4, <2>5
<1>5. Stored' = {k} \cup DOMAIN IdsSeen
  BY <1>2
<1>6. QED
  BY <1>2, <1>3, <1>4, <1>5 DEF Abstract!With

\* insert puts the new key in the place that best_match found, in a bucket n.
LEMMA InsertItems ==
  ASSUME <<>> \notin Keys, TreeInv, TreeInv', PathInv, ContentInv,
         NEW k \in Keys, InsertInNewBucket(k) \/ InsertInBucket(k),
         NEW m, m = BestMatch(k), NEW n, n = IF m.base \in NodeIds THEN m.base ELSE FreshNode
  PROVE  /\ n \in NodeIds /\ nodes' = nodes \cup {n}
         /\ \E e : e \in Items /\ e.ent = k /\ node'[n].items = InsertAt(node[n].items, m.index, e)
         /\ m.index \in 1 .. Len(node[n].items) + 1
         /\ \A x \in NodeIds \ {n} : node'[x] = node[x]
<1>1. /\ node \in [NodeIds -> Node] /\ node' \in [NodeIds -> Node] /\ nodes \subseteq NodeIds
      /\ FwdIds \cap NodeIds = {}
  BY PTrieAssumption DEF TreeInv, TypeOK, BucketsOK
<1>2. Matched(k, m) /\ Located(k, m)
  <2>1. Located(k, BestMatch(k))
    BY FoundAre DEF LookupsExact
  <2>2. Matched(k, BestMatch(k))
    BY Matching DEF ContentInv
  <2>3. QED
    BY <2>1, <2>2
<1>3. PICK b, e : b = m.p \div BDIV /\ e = [first |-> First(k, b), res |-> Residual(k, b), ent |-> k]
  OBVIOUS
<1>4. m.p \in Nat
  BY <1>2, LocatedAlive
<1>5. e \in Items /\ e.ent = k
  BY <1>3, <1>4, ItemType, Levels
<1>6. ASSUME NEW old \in Node, NEW oldsize, AddItem(k, m, n, old, oldsize), n \in NodeIds
      PROVE  /\ node'[n].items = InsertAt(old.items, m.index, e)
             /\ \A x \in NodeIds \ {n} : node'[x] = node[x]
  <2>1. node' = [node EXCEPT ![n] = [old EXCEPT !.items = InsertAt(old.items, m.index, e)]]
    BY <1>3, <1>6 DEF AddItem
  <2>2. QED
    BY <1>1, <1>6, <2>1 DEF Node
<1>7. CASE InsertInNewBucket(k)
  <2>1. m.base = m.fwd /\ m.fwd \in FwdIds
    BY <1>2, <1>7 DEF InsertInNewBucket, Located
  <2>2. m.base \notin NodeIds /\ n = FreshNode
    BY <1>1, <2>1
  <2>3. n \in NodeIds \ nodes /\ nodes' = nodes \cup {n}
    BY <1>1, <1>7, <2>2 DEF InsertInNewBucket, FreshNode
  <2>4. PICK s : s = Slot(k, m.p)
    OBVIOUS
  <2>5. \E q : AddItem(k, m, n, [prefix |-> q, parent |-> m.fwd, items |-> <<>>], 0)
    BY <1>7, <2>2, <2>4 DEF InsertInNewBucket
  <2>6. PICK q : AddItem(k, m, n, [prefix |-> q, parent |-> m.fwd, items |-> <<>>], 0)
    BY <2>5
  <2>7. PICK old : old = [prefix |-> q, parent |-> m.fwd, items |-> <<>>]
    OBVIOUS
  <2>8. PICK new : new = InsertAt(<<>>, m.index, e)
    OBVIOUS
  <2>9. node' = [node EXCEPT ![n] = [old EXCEPT !.items = new]]
    BY <1>3, <2>6, <2>7, <2>8 DEF AddItem
  <2>10. node'[n].items = new /\ \A x \in NodeIds \ {n} : node'[x] = node[x]
    BY <1>1, <2>3, <2>7, <2>9
  <2>11. node[n].items = <<>>
    BY <2>3 DEF TreeInv, DeadOK, DeadNode
  <2>12. m.index \in 1 .. Len(node[n].items) + 1
    BY <1>2, <2>2, <2>11 DEF Matched
  <2>13. QED
    BY <1>5, <2>3, <2>8, <2>10, <2>11, <2>12
<1>8. CASE InsertInBucket(k)
  <2>1. m.base \in NodeIds /\ nodes' = nodes /\ AddItem(k, m, m.base, node[m.base], totsize[m.base])
    BY <1>8 DEF InsertInBucket
  <2>2. n = m.base
    BY <2>1
  <2>3. n \in nodes
    BY <1>2, <2>1, <2>2, LocatedAlive
  <2>4. /\ node'[n].items = InsertAt(node[n].items, m.index, e)
        /\ \A x \in NodeIds \ {n} : node'[x] = node[x]
    BY <1>1, <1>6, <2>1, <2>2
  <2>5. m.index \in 1 .. Len(node[n].items) + 1
    BY <1>2, <2>1, <2>2 DEF Matched
  <2>6. QED
    BY <1>5, <2>1, <2>2, <2>3, <2>4, <2>5
<1>9. QED
  BY <1>7, <1>8

\* The list with one entry more.
LEMMA MoreCells ==
  ASSUME ColumnsInv, NEW k \in Keys, NEW n \in NodeIds,
         cells' = Append(cells, [key |-> k, node |-> n, data |-> Default])
  PROVE  /\ cells' \in Seq(Cells) /\ Len(cells') = Len(cells) + 1 /\ Len(cells) \in Nat
         /\ CellAt(cells', Len(cells)).key = k /\ CellAt(cells', Len(cells)).node = n
         /\ \A x \in 1 .. Len(cells) : cells'[x] = cells[x]
         /\ DataSeen' = Append(DataSeen, Default) /\ Len(DataSeen) = Len(cells)
<1>1. cells \in Seq(Cells) /\ Len(cells) \in Nat
  BY DEF ColumnsInv
<1>2. PICK c : c = [key |-> k, node |-> n, data |-> Default]
  OBVIOUS
<1>3. c \in Cells /\ c.key = k /\ c.node = n /\ c.data = Default
  BY <1>2 DEF Cells
<1>4. /\ cells' \in Seq(Cells) /\ Len(cells') = Len(cells) + 1
      /\ cells'[Len(cells) + 1] = c
      /\ \A x \in 1 .. Len(cells) : cells'[x] = cells[x]
  BY <1>1, <1>2, <1>3
<1>5. DataSeen = [x \in 1 .. Len(cells) |-> cells[x].data]
  BY <1>1 DEF DataSeen
<1>6. DataSeen' = [x \in 1 .. Len(cells) + 1 |-> cells'[x].data]
  BY <1>1, <1>4 DEF DataSeen
<1>7. \A x \in 1 .. Len(cells) + 1 :
        cells'[x].data = IF x = Len(cells) + 1 THEN Default ELSE DataSeen[x]
  BY <1>1, <1>3, <1>4, <1>5
<1>8. DataSeen \in Seq(Values \cup {Default}) /\ Len(DataSeen) = Len(cells)
  <2>1. \A x \in Cells : x.data \in Values \cup {Default}
    BY DEF Cells
  <2>2. \A x \in 1 .. Len(cells) : cells[x] \in Cells
    BY <1>1
  <2>3. QED
    BY <1>1, <1>5, <2>1, <2>2
<1>9. DataSeen' \in Seq(Values \cup {Default}) /\ Len(DataSeen') = Len(cells) + 1
  <2>1. ASSUME NEW x \in 1 .. Len(cells) + 1 PROVE cells'[x].data \in Values \cup {Default}
    <3>1. CASE x = Len(cells) + 1
      BY <1>7, <3>1
    <3>2. CASE x # Len(cells) + 1
      <4>1. x \in 1 .. Len(cells) /\ cells'[x].data = DataSeen[x]
        BY <1>1, <1>7, <3>2
      <4>2. QED
        BY <1>1, <1>8, <4>1
    <3>3. QED
      BY <3>1, <3>2
  <2>2. QED
    BY <1>1, <1>6, <2>1
<1>10. /\ Append(DataSeen, Default) \in Seq(Values \cup {Default})
       /\ Len(Append(DataSeen, Default)) = Len(cells) + 1
       /\ \A x \in 1 .. Len(cells) + 1 :
            Append(DataSeen, Default)[x] = IF x = Len(cells) + 1 THEN Default ELSE DataSeen[x]
  BY <1>1, <1>8
<1>11. \A x \in 1 .. Len(cells) + 1 : DataSeen'[x] = Append(DataSeen, Default)[x]
  BY <1>6, <1>7, <1>10
<1>12. DataSeen' = Append(DataSeen, Default)
  BY <1>9, <1>10, <1>11, SeqEqual
<1>13. QED
  BY <1>1, <1>3, <1>4, <1>8, <1>12 DEF CellAt

\* An item that was there keeps its key, its id and the entry under it.
StillThere(n, j) ==
  /\ \E m, i : From(n, j, m, i)
  /\ column'[n][j] < Len(cells')
  /\ CellAt(cells', column'[n][j]).key = node'[n].items[j].ent
  /\ CellAt(cells', column'[n][j]).node = n

LEMMA StillThereIf ==
  ASSUME TreeInv, ColumnsInv, NEW n, NEW j, NEW i, From(n, j, n, i), Len(cells') \in Nat,
         Len(cells') >= Len(cells), \A x \in 1 .. Len(cells) : cells'[x] = cells[x]
  PROVE  StillThere(n, j)
<1>1. PICK id : id = column[n][i]
  OBVIOUS
<1>2. /\ n \in nodes /\ i \in DOMAIN node[n].items /\ column'[n][j] = id
      /\ node'[n].items[j].ent = node[n].items[i].ent
  BY <1>1 DEF From
<1>3. /\ id \in Nat /\ id + 1 \in 1 .. Len(cells) /\ Len(cells) \in Nat
      /\ cells[id + 1].key = node[n].items[i].ent /\ cells[id + 1].node = n
  BY <1>1, <1>2, IdFacts
<1>4. id < Len(cells')
  BY <1>3
<1>5. QED
  BY <1>2, <1>3, <1>4 DEF StillThere, CellAt

\* insert of a new key gives it the next id, and the default value under it.
LEMMA InsertStep ==
  ASSUME <<>> \notin Keys, IdSpan = 1, TreeInv, TreeInv', PathInv, ContentInv, ContentInv',
         ColumnsInv, NEW k \in Keys, InsertEntry(k)
  PROVE  ColumnsInv' /\ Abstract!Insert(k)
<1>1. InsertInNewBucket(k) \/ InsertInBucket(k)
  BY DEF InsertEntry
<1>2. k \notin Stored /\ Stored' = Stored \cup {k}
  BY <1>1, InsertStored
<1>3. PICK m, n : m = BestMatch(k) /\ n = IF m.base \in NodeIds THEN m.base ELSE FreshNode
  OBVIOUS
<1>4. /\ n \in NodeIds /\ nodes' = nodes \cup {n}
      /\ m.index \in 1 .. Len(node[n].items) + 1
      /\ \A x \in NodeIds \ {n} : node'[x] = node[x]
  BY <1>1, <1>3, InsertItems
<1>5. PICK e : /\ e \in Items /\ e.ent = k
               /\ node'[n].items = InsertAt(node[n].items, m.index, e)
  BY <1>1, <1>3, InsertItems
<1>6. PICK l, place, s, ids : /\ l = Len(cells) /\ place = m.index
                              /\ s = node[n].items /\ ids = column[n]
  OBVIOUS
<1>7. /\ column' = [column EXCEPT ![n] = WithId(ids, place, l)]
      /\ cells' = Append(cells, [key |-> k, node |-> n, data |-> Default])
  BY <1>3, <1>6 DEF InsertEntry
<1>8. /\ cells' \in Seq(Cells) /\ Len(cells') = l + 1 /\ l \in Nat
      /\ CellAt(cells', l).key = k /\ CellAt(cells', l).node = n
      /\ \A x \in 1 .. Len(cells) : cells'[x] = cells[x]
      /\ DataSeen' = Append(DataSeen, Default) /\ Len(DataSeen) = l
  BY <1>4, <1>6, <1>7, MoreCells
<1>9. /\ column \in [NodeIds -> Seq(Nat)] /\ node \in [NodeIds -> Node]
      /\ nodes \subseteq NodeIds /\ s \in Seq(Items) /\ ids \in Seq(Nat) /\ Len(ids) = Len(s)
  BY <1>4, <1>6, Addresses DEF TreeInv, ColumnsInv, ColumnsOf
<1>10. PICK a : a = Len(s)
  OBVIOUS
<1>11. /\ a \in Nat /\ place \in 1 .. a + 1 /\ Len(s) = a /\ Len(ids) = a
       /\ DOMAIN s = 1 .. a /\ DOMAIN ids = 1 .. a
  BY <1>4, <1>6, <1>9, <1>10
<1>12. Longer(s, a, place, e, node'[n].items)
  BY <1>5, <1>6, <1>9, <1>11, LongerIs
<1>13. WithId(ids, place, l) \in Seq(Nat) /\ Longer(ids, a, place, l, WithId(ids, place, l))
  <2>1. WithId(ids, place, l) = InsertAt(ids, place, l)
    BY DEF WithId
  <2>2. PICK t : t = InsertAt(ids, place, l)
    OBVIOUS
  <2>3. ids \in Seq(Nat) /\ l \in Nat /\ place \in 1 .. a + 1 /\ a \in Nat /\ Len(ids) = a
    BY <1>8, <1>9, <1>11
  <2>4. t \in Seq(Nat) /\ Longer(ids, a, place, l, t)
    BY <2>2, <2>3, LongerIs
  <2>5. QED
    BY <2>1, <2>2, <2>4
<1>14. /\ column' \in [NodeIds -> Seq(Nat)] /\ Longer(ids, a, place, l, column'[n])
       /\ \A x \in NodeIds \ {n} : column'[x] = column[x]
  BY <1>4, <1>7, <1>9, <1>13
<1>15. ASSUME NEW x \in NodeIds PROVE Len(column'[x]) = Len(node'[x].items)
  <2>1. CASE x = n
    BY <1>12, <1>14, <2>1 DEF Longer
  <2>2. CASE x # n
    BY <1>4, <1>14, <2>2 DEF ColumnsInv, ColumnsOf
  <2>3. QED
    BY <2>1, <2>2
<1>16. ASSUME NEW i \in DOMAIN s PROVE n \in nodes
  <2>1. CASE n \notin nodes
    <3>1. s = <<>>
      BY <1>4, <1>6, <2>1 DEF TreeInv, DeadOK, DeadNode
    <3>2. QED
      BY <1>16, <3>1
  <2>2. QED
    BY <2>1
<1>17. Len(cells') \in Nat /\ Len(cells') >= Len(cells)
  BY <1>6, <1>8
<1>18. ASSUME NEW j \in DOMAIN node'[n].items, j # place PROVE StillThere(n, j)
  <2>1. j \in 1 .. a + 1
    BY <1>12 DEF Longer
  <2>2. CASE j < place
    <3>1. node'[n].items[j] = s[j] /\ j \in DOMAIN s /\ column'[n][j] = ids[j]
      BY <1>12, <1>14, <2>1, <2>2 DEF Longer
    <3>2. From(n, j, n, j)
      BY <1>6, <1>16, <3>1 DEF From
    <3>3. QED
      BY <1>8, <1>17, <3>2, StillThereIf
  <2>3. CASE j > place
    <3>1. PICK i : i = j - 1
      OBVIOUS
    <3>2. node'[n].items[j] = s[i] /\ i \in DOMAIN s /\ column'[n][j] = ids[i]
      BY <1>12, <1>14, <2>1, <2>3, <3>1 DEF Longer
    <3>3. From(n, j, n, i)
      BY <1>6, <1>16, <3>2 DEF From
    <3>4. QED
      BY <1>8, <1>17, <3>3, StillThereIf
  <2>4. QED
    BY <1>11, <1>18, <2>1, <2>2, <2>3
<1>19. node'[n].items[place] = e /\ column'[n][place] = l
  BY <1>11, <1>12, <1>14 DEF Longer
<1>20. ASSUME NEW x \in nodes', x # n, NEW j \in DOMAIN node'[x].items PROVE StillThere(x, j)
  <2>1. From(x, j, x, j)
    BY <1>4, <1>9, <1>14, <1>20 DEF From
  <2>2. QED
    BY <1>8, <1>17, <2>1, StillThereIf
<1>21. ASSUME NEW x \in nodes', NEW j \in DOMAIN node'[x].items
       PROVE  StillThere(x, j) \/ (x = n /\ j = place)
  BY <1>18, <1>20
<1>22. ColumnsInv'
  <2>1. ASSUME NEW x \in nodes', NEW j \in 1 .. Len(column'[x])
        PROVE  /\ column'[x][j] < Len(cells')
               /\ CellAt(cells', column'[x][j]).key = node'[x].items[j].ent
               /\ CellAt(cells', column'[x][j]).node = x
    <3>1. j \in DOMAIN node'[x].items
      <4>1. x \in NodeIds /\ node'[x].items \in Seq(Items)
        BY DEF TreeInv, TypeOK, BucketsOK, Node
      <4>2. Len(column'[x]) = Len(node'[x].items)
        BY <1>15, <4>1
      <4>3. QED
        BY <4>1, <4>2
    <3>2. CASE StillThere(x, j)
      BY <3>2 DEF StillThere
    <3>3. CASE x = n /\ j = place
      BY <1>5, <1>8, <1>19, <3>3
    <3>4. QED
      BY <1>21, <3>1, <3>2, <3>3
  <2>2. QED
    BY <1>8, <1>14, <1>15, <2>1 DEF ColumnsInv, ColumnsOf
<1>23. Beside' \subseteq Beside \cup {<<k, l>>}
  <2> SUFFICES ASSUME NEW y \in Beside' PROVE y \in Beside \/ y = <<k, l>>
    OBVIOUS
  <2>1. PICK x \in nodes' :
          \E j \in DOMAIN node'[x].items : y = <<node'[x].items[j].ent, column'[x][j]>>
    BY BesideIs, BesideHas
  <2>2. PICK j \in DOMAIN node'[x].items : y = <<node'[x].items[j].ent, column'[x][j]>>
    BY <2>1
  <2>3. CASE StillThere(x, j)
    <3>1. PICK d, i : From(x, j, d, i)
      BY <2>3 DEF StillThere
    <3>2. d \in nodes /\ i \in DOMAIN node[d].items /\ y = <<node[d].items[i].ent, column[d][i]>>
      BY <2>2, <3>1 DEF From
    <3>3. QED
      BY <3>2, BesideIs, BesideHas
  <2>4. CASE x = n /\ j = place
    BY <1>5, <1>19, <2>2, <2>4
  <2>5. QED
    BY <1>21, <2>3, <2>4
<1>24. IdsSeen' = Abstract!With(IdsSeen, k, l) /\ k \notin DOMAIN IdsSeen
  BY <1>2, <1>23, SeenGrows
<1>25. QED
  BY <1>8, <1>22, <1>24 DEF Abstract!Insert

\* erase takes away the item of its key, and the id beside it.
LEMMA EraseStep ==
  ASSUME <<>> \notin Keys, TreeInv, TreeInv', ShapeInv, PathInv, LevelInv, ContentInv,
         ContentInv', ColumnsInv, NEW k \in Keys, EraseEntry(k)
  PROVE  ColumnsInv' /\ Abstract!Erase(k)
<1>1. PICK n, i : n = BestMatch(k).base /\ i = BestMatch(k).index
  OBVIOUS
<1>2. PICK s, ids : s = node[n].items /\ ids = column[n]
  OBVIOUS
<1>3. /\ Located(k, BestMatch(k)) /\ n \in NodeIds /\ BestMatch(k).found /\ nodes' = nodes
      /\ node' = [node EXCEPT ![n].items = RemoveAt(s, i)]
      /\ column' = [column EXCEPT ![n] = RemoveAt(ids, i)] /\ cells' = cells
  BY <1>1, <1>2 DEF EraseEntry, Erase
<1>4. n \in nodes
  BY <1>1, <1>3, LocatedAlive
<1>5. Matched(k, BestMatch(k))
  BY Matching DEF ContentInv
<1>6. i \in DOMAIN s
  BY <1>1, <1>2, <1>3, <1>5 DEF Matched
<1>7. /\ column \in [NodeIds -> Seq(Nat)] /\ node \in [NodeIds -> Node] /\ nodes \subseteq NodeIds
      /\ cells \in Seq(Cells) /\ s \in Seq(Items) /\ ids \in Seq(Nat) /\ Len(ids) = Len(s)
  BY <1>2, <1>3, Addresses DEF TreeInv, ColumnsInv, ColumnsOf
<1>8. PICK a : a = Len(s)
  OBVIOUS
<1>9. a \in Nat /\ Len(ids) = a /\ i \in 1 .. Len(s) /\ i \in 1 .. Len(ids)
      /\ DOMAIN s = 1 .. a /\ DOMAIN ids = 1 .. a
  BY <1>6, <1>7, <1>8
<1>10. PICK t, left : t = RemoveAt(s, i) /\ left = RemoveAt(ids, i)
  OBVIOUS
<1>11. Shorter(s, a, i, t)
  BY <1>7, <1>8, <1>9, <1>10, ShorterIs
<1>12. left \in Seq(Nat) /\ Shorter(ids, a, i, left)
  BY <1>7, <1>9, <1>10, ShorterIs
<1>13. node'[n].items = t /\ \A x \in NodeIds \ {n} : node'[x] = node[x]
  BY <1>3, <1>7, <1>10 DEF Node
<1>14. /\ column' \in [NodeIds -> Seq(Nat)] /\ column'[n] = left
       /\ \A x \in NodeIds \ {n} : column'[x] = column[x]
  BY <1>3, <1>7, <1>10, <1>12
<1>15. ASSUME NEW x \in NodeIds PROVE Len(column'[x]) = Len(node'[x].items)
  <2>1. CASE x = n
    BY <1>11, <1>12, <1>13, <1>14, <2>1 DEF Shorter
  <2>2. CASE x # n
    BY <1>13, <1>14, <2>2 DEF ColumnsInv, ColumnsOf
  <2>3. QED
    BY <2>1, <2>2
<1>16. ASSUME NEW j \in DOMAIN node'[n].items PROVE \E x : From(n, j, n, x)
  <2>1. j \in 1 .. a - 1
    BY <1>11, <1>13 DEF Shorter
  <2>2. CASE j < i
    <3>1. t[j] = s[j] /\ left[j] = ids[j] /\ j \in DOMAIN s
      BY <1>11, <1>12, <2>1, <2>2 DEF Shorter
    <3>2. From(n, j, n, j)
      BY <1>2, <1>4, <1>13, <1>14, <3>1 DEF From
    <3>3. QED
      BY <3>2
  <2>3. CASE j >= i
    <3>1. PICK x : x = j + 1
      OBVIOUS
    <3>2. t[j] = s[x] /\ left[j] = ids[x] /\ x \in DOMAIN s
      BY <1>11, <1>12, <2>1, <2>3, <3>1 DEF Shorter
    <3>3. From(n, j, n, x)
      BY <1>2, <1>4, <1>13, <1>14, <3>2 DEF From
    <3>4. QED
      BY <3>3
  <2>4. QED
    BY <1>9, <2>1, <2>2, <2>3
<1>17. ASSUME NEW y \in nodes', NEW j \in DOMAIN node'[y].items PROVE \E x : From(y, j, y, x)
  <2>1. CASE y = n
    BY <1>16, <2>1
  <2>2. CASE y # n
    <3>1. From(y, j, y, j)
      BY <1>3, <1>7, <1>13, <1>14, <2>2 DEF From
    <3>2. QED
      BY <3>1
  <2>3. QED
    BY <2>1, <2>2
<1>18. ASSUME NEW y \in nodes', NEW j \in DOMAIN node'[y].items
       PROVE  CellAt(cells', column'[y][j]).node = y
  <2>1. PICK x : From(y, j, y, x)
    BY <1>17
  <2>2. cells[column[y][x] + 1].node = y
    BY <2>1, IdFacts DEF From
  <2>3. QED
    BY <1>3, <2>1, <2>2 DEF From, CellAt
<1>19. Carried
  BY <1>17 DEF Carried
<1>20. SameCells
  BY <1>3, <1>7 DEF SameCells
<1>21. ColumnsInv' /\ Beside' \subseteq Beside /\ DataSeen' = DataSeen
  BY <1>14, <1>15, <1>18, <1>19, <1>20, CarriedStep
<1>22. k \in Stored /\ Stored' = Stored \ {k}
  BY NextStored DEF EraseEntry
<1>23. DOMAIN IdsSeen = Stored /\ IdsSeen' = [j \in Stored' |-> IdsSeen[j]]
  BY <1>21, SeenStays
<1>24. IdsSeen' = Abstract!Without(IdsSeen, k)
  BY <1>22, <1>23 DEF Abstract!Without
<1>25. QED
  BY <1>21, <1>22, <1>23, <1>24 DEF Abstract!Erase

\* A client writes under the id of its key, and under no other.
LEMMA AssignStep ==
  ASSUME <<>> \notin Keys, IdSpan = 1, TreeInv, PathInv, ContentInv, ColumnsInv,
         NEW k \in Keys, NEW v \in Values, Assign(k, v)
  PROVE  ColumnsInv' /\ Abstract!Write(k, v)
<1>1. k \in Stored
  BY ContentsAreStored DEF Assign
<1>2. PICK n \in nodes : k \in Ents(node[n].items)
  BY <1>1 DEF ContentInv, EntriesPointHome
<1>3. PICK i \in DOMAIN node[n].items : node[n].items[i].ent = k
  BY <1>2, EntsAre
<1>4. PICK id : id = column[n][i]
  OBVIOUS
<1>5. ExistsId(k) = {id} /\ ToI(id) = id
  BY <1>3, <1>4, IdLeads DEF ToI
<1>6. /\ cells' = [cells EXCEPT ![id + 1].data = v] /\ column' = column
      /\ nodes' = nodes /\ node' = node
  BY <1>5 DEF Assign, vars
<1>7. /\ id \in Nat /\ id + 1 \in 1 .. Len(cells) /\ cells[id + 1] \in Cells
      /\ Len(cells) \in Nat /\ cells \in Seq(Cells)
  BY <1>4, IdFacts DEF ColumnsInv
<1>8. PICK c : c = [cells[id + 1] EXCEPT !.data = v]
  OBVIOUS
<1>9. c \in Cells /\ c.key = cells[id + 1].key /\ c.node = cells[id + 1].node /\ c.data = v
  BY <1>7, <1>8 DEF Cells
<1>10. cells' = [cells EXCEPT ![id + 1] = c]
  BY <1>6, <1>8
<1>11. /\ cells' \in Seq(Cells) /\ Len(cells') = Len(cells)
       /\ \A x \in 1 .. Len(cells) :
            /\ cells'[x].key = cells[x].key /\ cells'[x].node = cells[x].node
            /\ cells'[x].data = IF x = id + 1 THEN v ELSE cells[x].data
  BY <1>7, <1>9, <1>10
<1>12. ColumnsInv'
  <2>1. ASSUME NEW x \in nodes, NEW j \in 1 .. Len(column[x])
        PROVE  /\ column[x][j] < Len(cells')
               /\ CellAt(cells', column[x][j]).key = node[x].items[j].ent
               /\ CellAt(cells', column[x][j]).node = x
    <3>1. /\ column[x][j] < Len(cells)
          /\ CellAt(cells, column[x][j]).key = node[x].items[j].ent
          /\ CellAt(cells, column[x][j]).node = x
      BY DEF ColumnsInv, ColumnsOf
    <3>2. column[x][j] \in Nat
      BY Addresses DEF ColumnsInv, TreeInv
    <3>3. column[x][j] + 1 \in 1 .. Len(cells)
      BY <1>7, <3>1, <3>2
    <3>4. QED
      BY <1>11, <3>1, <3>3 DEF CellAt
  <2>2. \A x \in NodeIds : Len(column[x]) = Len(node[x].items)
    BY DEF ColumnsInv, ColumnsOf
  <2>3. ColumnsOf(nodes, node, column, cells')
    BY <2>1, <2>2 DEF ColumnsOf
  <2>4. ColumnsOf(nodes', node', column', cells')
    BY <1>6, <2>3
  <2>5. QED
    BY <1>6, <1>11, <2>4 DEF ColumnsInv
<1>13. IdsSeen' = IdsSeen
  BY <1>6 DEF IdsSeen, Beside, AllItems
<1>14. k \in DOMAIN IdsSeen /\ IdsSeen[k] = id
  <2>1. PICK y : y = <<node[n].items[i].ent, column[n][i]>>
    OBVIOUS
  <2>2. y \in Beside
    BY <2>1, BesideIs, BesideHas
  <2>3. y[1] = k /\ y[2] = id
    BY <1>3, <1>4, <2>1
  <2>4. QED
    BY <2>2, <2>3, SeenIs
<1>15. DataSeen' = [DataSeen EXCEPT ![id + 1] = v]
  <2>1. DOMAIN cells = 1 .. Len(cells) /\ DOMAIN cells' = 1 .. Len(cells)
    BY <1>7, <1>11
  <2>2. QED
    BY <1>11, <2>1 DEF DataSeen
<1>16. QED
  BY <1>12, <1>13, <1>14, <1>15 DEF Abstract!Write

\* The destructor drops all ids and values.
LEMMA RenewStep ==
  ASSUME Renew PROVE ColumnsInv' /\ Abstract!Renew
<1>1. /\ nodes' = {} /\ node' = [n \in NodeIds |-> DeadNode]
      /\ column' = [n \in NodeIds |-> <<>>] /\ cells' = <<>>
  BY DEF Renew, Destroy
<1>2. <<>> \in Seq(Nat) /\ <<>> \in Seq(Cells)
  OBVIOUS
<1>3. ColumnsInv'
  BY <1>1, <1>2 DEF ColumnsInv, ColumnsOf, DeadNode
<1>4. Beside' = {}
  BY <1>1 DEF Beside, AllItems
<1>5. IdsSeen' = <<>>
  BY <1>4 DEF IdsSeen
<1>6. DataSeen' = <<>>
  BY <1>1 DEF DataSeen
<1>7. QED
  BY <1>3, <1>5, <1>6 DEF Abstract!Renew

\* The steps of splits and merges, and exists, change neither ids nor values that are seen.
LEMMA ContinueSeen ==
  ASSUME <<>> \notin Keys, TreeInv, TreeInv', ShapeInv, PathInv, LevelInv, ContentInv,
         ContentInv', ColumnsInv, ContinueIds
  PROVE  ColumnsInv' /\ IdsSeen' = IdsSeen /\ DataSeen' = DataSeen
<1>1. ColumnsInv' /\ Beside' \subseteq Beside /\ DataSeen' = DataSeen
  BY ContinueIdsStep DEF IdsCarried
<1>2. Continue \/ \E k \in Keys : LookUp(k)
  BY DEF ContinueIds, SplitNodeIds, SplitFwdIds, MergeBuddyIds, KeepIds, Continue
<1>3. Stored' = Stored
  BY <1>2, NextStored
<1>4. DOMAIN IdsSeen = Stored /\ IdsSeen' = [j \in Stored' |-> IdsSeen[j]]
  BY <1>1, SeenStays
<1>5. IdsSeen = [j \in Stored |-> IdsSeen[j]]
  BY <1>4 DEF IdsSeen
<1>6. QED
  BY <1>1, <1>3, <1>4, <1>5

-----------------------------------------------------------------------------
(* What set_stable and map promise *)

\* In the beginning there are no ids.
LEMMA InitColumns == SInit => ColumnsInv /\ Abstract!MInit
<1> SUFFICES ASSUME SInit PROVE ColumnsInv /\ Abstract!MInit
  OBVIOUS
<1>1. /\ nodes = {} /\ node = [n \in NodeIds |-> DeadNode]
      /\ column = [n \in NodeIds |-> <<>>] /\ cells = <<>>
  BY DEF SInit, Init
<1>2. <<>> \in Seq(Nat) /\ <<>> \in Seq(Cells)
  OBVIOUS
<1>3. ColumnsInv
  BY <1>1, <1>2 DEF ColumnsInv, ColumnsOf, DeadNode
<1>4. Beside = {}
  BY <1>1 DEF Beside, AllItems
<1>5. IdsSeen = <<>>
  BY <1>4 DEF IdsSeen
<1>6. DataSeen = <<>>
  BY <1>1 DEF DataSeen
<1>7. QED
  BY <1>3, <1>5, <1>6 DEF Abstract!MInit

\* Every step keeps the invariant.
LEMMA StableStep ==
  ASSUME <<>> \notin Keys, IdSpan = 1, TreeInv, TreeInv', ShapeInv, PathInv, LevelInv, ContentInv,
         ContentInv', ColumnsInv, [SNext]_svars
  PROVE  ColumnsInv'
<1>1. CASE \E k \in Keys : InsertEntry(k)
  BY <1>1, InsertStep
<1>2. CASE \E k \in Assigned, v \in Values : Assign(k, v)
  <2>1. PICK k \in Assigned, v \in Values : Assign(k, v)
    BY <1>2
  <2>2. k \in Keys
    BY <2>1 DEF Assign, Contents
  <2>3. QED
    BY <2>1, <2>2, AssignStep
<1>3. CASE \E k \in Erased : EraseEntry(k)
  BY <1>3, EraseStep, StableAssumption
<1>4. CASE Renew
  BY <1>4, RenewStep
<1>5. CASE ContinueIds
  BY <1>5, ContinueSeen
<1>6. CASE UNCHANGED svars
  BY <1>6 DEF svars, vars, ColumnsInv, ColumnsOf
<1>7. QED
  BY <1>1, <1>2, <1>3, <1>4, <1>5, <1>6 DEF SNext

\* The trie of a set_stable or a map is a trie.
LEMMA StableIsTrie == SSpec => Spec
<1>1. SInit => Init
  BY DEF SInit
<1>2. [SNext]_svars => [Next]_vars
  <2>1. CASE \E k \in Keys : InsertEntry(k)
    BY <2>1 DEF InsertEntry, Next
  <2>2. CASE \E k \in Assigned, v \in Values : Assign(k, v)
    BY <2>2 DEF Assign
  <2>3. CASE \E k \in Erased : EraseEntry(k)
    BY <2>3, StableAssumption DEF EraseEntry, Next
  <2>4. CASE Renew
    BY <2>4 DEF Renew, Next
  <2>5. CASE ContinueIds
    <3>1. Continue \/ \E k \in Keys : LookUp(k)
      BY <2>5 DEF ContinueIds, SplitNodeIds, SplitFwdIds, MergeBuddyIds, KeepIds, Continue
    <3>2. QED
      BY <3>1 DEF Next
  <2>6. CASE UNCHANGED svars
    BY <2>6 DEF svars
  <2>7. QED
    BY <2>1, <2>2, <2>3, <2>4, <2>5, <2>6 DEF SNext
<1>3. QED
  BY <1>1, <1>2, PTL DEF SSpec, Spec

\* The invariant holds.
LEMMA ColumnsHold ==
  ASSUME <<>> \notin Keys, IdSpan = 1 PROVE SSpec => []ColumnsInv
<1>1. SInit => ColumnsInv
  BY InitColumns
<1>2. TreeInv /\ TreeInv' /\ ShapeInv /\ PathInv /\ LevelInv /\ ContentInv /\ ContentInv'
        /\ ColumnsInv /\ [SNext]_svars => ColumnsInv'
  BY StableStep
<1>3. QED
  BY <1>1, <1>2, StableIsTrie, TreeHolds, ShapeHolds, PathsHold, ContentsHold, PTL DEF SSpec

\* The id beside an item is what exists and insert answer for its key, the entry under it points
\* to the bucket, find_metadata finds the item there, and unpack(index) gives the key: between
\* any two steps of a split or of a chain of merges, and whatever was erased.
THEOREM IdsHold ==
  ASSUME <<>> \notin Keys, IdSpan = 1 PROVE SSpec => []IdsResolve
<1>1. TreeInv /\ PathInv /\ ContentInv /\ ColumnsInv => IdsResolve
  BY IdsResolved
<1>2. QED
  BY <1>1, StableIsTrie, ColumnsHold, TreeHolds, PathsHold, ContentsHold, PTL

\* What a step shows of the map, each operation what it promises.
OperationsOnMap ==
  /\ \A k \in Keys : InsertEntry(k) => Abstract!Insert(k)
  /\ \A k \in Assigned, v \in Values : Assign(k, v) => Abstract!Write(k, v)
  /\ \A k \in Erased : EraseEntry(k) => Abstract!Erase(k)
  /\ Renew => Abstract!Renew
  /\ ContinueIds => UNCHANGED <<IdsSeen, DataSeen>>

\* set_stable and map implement a map with stable ids: insert gives a key the next id, erase
\* takes away its own, writing the value of a key (operator[], get_data) changes no other's, and
\* through every step of a split or a merge, where the ids are moved from bucket to bucket by
\* hand, the keys keep their ids and the values under them.
THEOREM TrieImplementsStableMap ==
  ASSUME <<>> \notin Keys, IdSpan = 1 PROVE SSpec => ImplementsStableMap
<1>1. SInit => Abstract!MInit
  BY InitColumns
<1>2. ASSUME TreeInv, TreeInv', ShapeInv, PathInv, LevelInv, ContentInv, ContentInv', ColumnsInv
      PROVE  OperationsOnMap
  <2>1. ASSUME NEW k \in Keys, InsertEntry(k) PROVE Abstract!Insert(k)
    BY <1>2, <2>1, InsertStep
  <2>2. ASSUME NEW k \in Assigned, NEW v \in Values, Assign(k, v) PROVE Abstract!Write(k, v)
    <3>1. k \in Keys
      BY <2>2 DEF Assign, Contents
    <3>2. QED
      BY <1>2, <2>2, <3>1, AssignStep
  <2>3. ASSUME NEW k \in Erased, EraseEntry(k) PROVE Abstract!Erase(k)
    <3>1. k \in Keys
      BY StableAssumption
    <3>2. QED
      BY <1>2, <2>3, <3>1, EraseStep
  <2>4. ASSUME Renew PROVE Abstract!Renew
    BY <2>4, RenewStep
  <2>5. ASSUME ContinueIds PROVE IdsSeen' = IdsSeen /\ DataSeen' = DataSeen
    BY <1>2, <2>5, ContinueSeen
  <2>6. QED
    BY <2>1, <2>2, <2>3, <2>4, <2>5 DEF OperationsOnMap
<1>3. ImplementsStableMap <=> Abstract!MInit /\ [][OperationsOnMap]_svars
  BY DEF ImplementsStableMap, OperationsOnMap
<1>4. QED
  BY <1>1, <1>2, <1>3, StableIsTrie, ColumnsHold, TreeHolds, ShapeHolds, PathsHold,
     ContentsHold, PTL DEF SSpec

=============================================================================
