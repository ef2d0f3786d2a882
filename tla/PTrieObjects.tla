---------------------------- MODULE PTrieObjects ----------------------------
(***************************************************************************)
(* Several ptrie::map objects (and set_stable, which is a map without the  *)
(* values): which nodes and which list of entries each of them owns, and   *)
(* what constructing, copying, moving and destroying them does to these.   *)
(* The nodes below a root are one tree; what a tree is inside is PTrie's.  *)
(***************************************************************************)
EXTENDS Integers, FiniteSets, SequencesExt

CONSTANTS Objects,
          Keys,              \* numbers: a tree has its keys in their order
          Values, Default,
          Trees, Lists,      \* addresses of trees and of lists of entries
          MaxIds, MaxLost,   \* bounds on the length of a list, and on lost trees
          Null

ASSUME ObjectsAssumption == Null \notin Trees \cup Lists /\ Keys \subseteq Int

VARIABLES alive,     \* the objects that are constructed
          root,      \* the tree below _root, or Null: all _children are nullptr
          entries,   \* _entries
          trees,     \* the trees that are allocated
          tree,      \* the keys of each, with the ids that its buckets hold
          lists,     \* the lists that are allocated
          list       \* the entries of each, id 0 first: _node and _data

ovars == <<alive, root, entries, trees, tree, lists, list>>

\* f with v at k, which may be new.
With(f, k, v) == [j \in DOMAIN f \cup {k} |-> IF j = k THEN v ELSE f[j]]

\* How many keys of S come before k, and the key that has r of them before it.
Rank(S, k) == Cardinality({j \in S : j < k})
KeyAt(S, r) == CHOOSE k \in S : Rank(S, k) = r

\* Of a list of cells: cell i, which has id i - 1.
Cell(l, i) == list[l][i + 1]

\* What is left of trees and of lists that are freed.
DeadTrees(S) == [t \in Trees |-> IF t \in S THEN <<>> ELSE tree[t]]
DeadLists(S) == [l \in Lists |-> IF l \in S THEN <<>> ELSE list[l]]

\* The tree of an object that has no nodes: its root alone, which is in the object.
Bare(o) == {t \in {root[o]} : t \in trees /\ tree[t] = <<>>}

\* Trees with nodes that no object owns.
Lost == {t \in trees : tree[t] # <<>> /\ \A o \in alive : root[o] # t}

\* (Bounds the trees that are lost when o loses its own.)
MayLose(o) == (\A t \in trees : t = root[o] => tree[t] = <<>>) \/ Cardinality(Lost) < MaxLost

\* A moved-from object, and a copy of one, has nullptr for children and no key is
\* looked up in it.
Usable(o) == o \in alive /\ root[o] # Null

-----------------------------------------------------------------------------
\* ptrie_base(), init.
Construct(o) ==
  /\ o \notin alive
  /\ alive' = alive \cup {o}
  /\ \E t \in Trees \ trees, l \in Lists \ lists :
       /\ trees' = trees \cup {t} /\ lists' = lists \cup {l}
       /\ root' = [root EXCEPT ![o] = t]
       /\ entries' = [entries EXCEPT ![o] = l]
  /\ UNCHANGED <<tree, list>>

\* insert of a new key.  (Where there is no list to take an id from, as in a moved-from
\* object that an empty one was copied to, insert dereferences nullptr: no such step.)
Insert(o, k) ==
  /\ Usable(o) /\ entries[o] # Null /\ k \notin DOMAIN tree[root[o]]
  /\ Len(list[entries[o]]) < MaxIds
  /\ tree' = [tree EXCEPT ![root[o]] = With(@, k, Len(list[entries[o]]))]
  /\ list' = [list EXCEPT ![entries[o]] = Append(@, [node |-> root[o], data |-> Default])]
  /\ UNCHANGED <<alive, root, entries, trees, lists>>

Erase(o, k) ==
  /\ Usable(o) /\ k \in DOMAIN tree[root[o]]
  /\ tree' = [tree EXCEPT ![root[o]] = Restrict(@, DOMAIN @ \ {k})]
  /\ UNCHANGED <<alive, root, entries, trees, lists, list>>

\* operator[] = v for a stored key.
Assign(o, k, v) ==
  /\ Usable(o) /\ k \in DOMAIN tree[root[o]]
  /\ list' = [list EXCEPT ![entries[o]][tree[root[o]][k] + 1].data = v]
  /\ UNCHANGED <<alive, root, entries, trees, tree, lists>>

\* Mutant: the new ids are in the order of the old ones, the entries in that of the keys.
ClonedSame(from, old, l) ==
  LET ids == tree[from]
      keys == DOMAIN ids
  IN  [tree |-> [k \in keys |-> Len(list[l]) + Cardinality({j \in keys : ids[j] < ids[k]})],
       list |-> list[l] \o [i \in 1 .. Cardinality(keys) |-> Cell(old, ids[KeyAt(keys, i - 1)])]]

\* clone of a tree with entries in `old': each key gets the next id of the list l, in
\* the order of the tree, and the entry there is a copy of the original's, _node and all.
Cloned(from, old, l) ==
  LET ids == tree[from]
      keys == DOMAIN ids
  IN  [tree |-> [k \in keys |-> Len(list[l]) + Rank(keys, k)],
       list |-> list[l] \o [i \in 1 .. Cardinality(keys) |-> Cell(old, ids[KeyAt(keys, i - 1)])]]

\* The keys below a root, if there are any, are cloned into the tree t with ids of the
\* list l.  (Without a list clone dereferences nullptr: no such step.)
CloneKeys(from, old, t, l) ==
  \/ tree[from] = <<>> /\ UNCHANGED <<tree, list>>
  \/ /\ tree[from] # <<>> /\ l # Null
     /\ \E c \in {Cloned(from, old, l)} : /\ Len(c.list) <= MaxIds
                                         /\ tree' = [tree EXCEPT ![t] = c.tree]
                                         /\ list' = [list EXCEPT ![l] = c.list]

\* operator=(const&) on an object whose list is l; its old tree is overwritten, and
\* is lost when it has nodes.
CloneInto(o, p, l) ==
  \/ /\ root[p] = Null
     /\ root' = [root EXCEPT ![o] = Null]
     /\ trees' = trees \ Bare(o)
     /\ UNCHANGED <<tree, list>>
  \/ /\ root[p] # Null
     /\ \E t \in Trees \ trees : /\ root' = [root EXCEPT ![o] = t]
                                /\ trees' = (trees \cup {t}) \ Bare(o)
                                /\ CloneKeys(root[p], entries[p], t, l)

\* ptrie_base(const&): init, then the assignment.
CopyConstruct(o, p) ==
  /\ o \notin alive /\ p \in alive
  /\ alive' = alive \cup {o}
  /\ \E l \in Lists \ lists :
       /\ lists' = lists \cup {l}
       /\ entries' = [entries EXCEPT ![o] = l]
       /\ CloneInto(o, p, l)

\* operator=(const&): a moved-from object stays without a list.
CopyAssign(o, p) ==
  /\ o \in alive /\ p \in alive /\ o # p /\ MayLose(o)
  /\ CloneInto(o, p, entries[o])
  /\ UNCHANGED <<alive, lists, entries>>

\* Mutant: the source keeps its children.
TakeOverShared(o, p) ==
  /\ root' = [root EXCEPT ![o] = root[p]]
  /\ entries' = [entries EXCEPT ![o] = entries[p], ![p] = Null]

\* The children and the list of p become those of o.
TakeOver(o, p) ==
  /\ root' = [root EXCEPT ![o] = root[p], ![p] = Null]
  /\ entries' = [entries EXCEPT ![o] = entries[p], ![p] = Null]

\* ptrie_base(&&).
MoveConstruct(o, p) ==
  /\ o \notin alive /\ p \in alive
  /\ alive' = alive \cup {o}
  /\ TakeOver(o, p)
  /\ UNCHANGED <<trees, tree, lists, list>>

\* operator=(&&): the shared_ptr frees the list of o, nothing frees its nodes.
MoveAssign(o, p) ==
  /\ o \in alive /\ p \in alive /\ o # p /\ MayLose(o)
  /\ TakeOver(o, p)
  /\ lists' = lists \ {entries[o]}
  /\ list' = DeadLists({entries[o]})
  /\ trees' = trees \ Bare(o)
  /\ UNCHANGED <<alive, tree>>

\* Mutant: the nodes are left behind.
DestructKept(o) ==
  /\ o \in alive
  /\ alive' = alive \ {o}
  /\ root' = [root EXCEPT ![o] = Null] /\ entries' = [entries EXCEPT ![o] = Null]
  /\ lists' = lists \ {entries[o]} /\ list' = DeadLists({entries[o]})
  /\ UNCHANGED <<trees, tree>>

\* ~ptrie_base.
Destruct(o) ==
  /\ o \in alive
  /\ alive' = alive \ {o}
  /\ root' = [root EXCEPT ![o] = Null] /\ entries' = [entries EXCEPT ![o] = Null]
  /\ trees' = trees \ {root[o]} /\ tree' = DeadTrees({root[o]})
  /\ lists' = lists \ {entries[o]} /\ list' = DeadLists({entries[o]})

-----------------------------------------------------------------------------
OInit ==
  /\ alive = {} /\ trees = {} /\ lists = {}
  /\ root = [o \in Objects |-> Null] /\ entries = [o \in Objects |-> Null]
  /\ tree = [t \in Trees |-> <<>>] /\ list = [l \in Lists |-> <<>>]

ONext ==
  \E o \in Objects :
    \/ Construct(o) \/ Destruct(o)
    \/ \E k \in Keys : Insert(o, k) \/ Erase(o, k) \/ \E v \in Values : Assign(o, k, v)
    \/ \E p \in Objects : CopyConstruct(o, p) \/ CopyAssign(o, p)
                            \/ MoveConstruct(o, p) \/ MoveAssign(o, p)

OSpec == OInit /\ [][ONext]_ovars

-----------------------------------------------------------------------------
(* Properties *)

\* No two objects share nodes or a list, and what an object owns is allocated: no
\* destructor frees what another one has freed or still uses; and no list is lost.
OwnedOnce ==
  /\ \A o \in alive : root[o] \in trees \cup {Null} /\ entries[o] \in lists \cup {Null}
  /\ \A o, p \in alive : o # p => /\ root[o] = root[p] => root[o] = Null
                                  /\ entries[o] = entries[p] => entries[o] = Null
  /\ lists \subseteq {entries[o] : o \in alive}

\* Nodes are lost only where an object that has some is assigned to, so that it has
\* other nodes or none behind the step and is still alive.
LostByAssignOnly ==
  [][\A t \in Lost' \ Lost : \E o \in alive \cap alive' : root[o] = t /\ root'[o] # t]_ovars

\* What a client sees of each object.
Seen(o) ==
  [is  |-> IF o \notin alive THEN "dead" ELSE IF root[o] = Null THEN "moved" ELSE "map",
   map |-> IF Usable(o)
           THEN [k \in DOMAIN tree[root[o]] |-> Cell(entries[o], tree[root[o]][k]).data]
           ELSE <<>>]

Abstract == INSTANCE ObjectMaps WITH object <- [o \in Objects |-> Seen(o)]

\* Objects are maps of their own: an operation on one is seen in no other, a copy has
\* the keys and the values of the original although its ids are new, and no assigned
\* object shows what it held before.  Each operation does what it is called for.
ImplementsObjectMaps ==
  /\ Abstract!OInit
  /\ [][\A o \in Objects :
          /\ Construct(o) => Abstract!Create(o)
          /\ Destruct(o) => Abstract!Destruct(o)
          /\ \A k \in Keys : /\ Insert(o, k) => Abstract!Insert(o, k)
                            /\ Erase(o, k) => Abstract!Erase(o, k)
                            /\ \A v \in Values : Assign(o, k, v) => Abstract!Assign(o, k, v)
          /\ \A p \in Objects :
               /\ CopyConstruct(o, p) \/ CopyAssign(o, p) => Abstract!Copy(o, p)
               /\ MoveConstruct(o, p) \/ MoveAssign(o, p) => Abstract!Move(o, p)]_ovars

\* unpack(i) of object o, for the key of which it is the id: where the entry's node says.
UnpackById(o, i) ==
  LET t == Cell(entries[o], i).node
  IN  IF t \in trees THEN {k \in DOMAIN tree[t] : tree[t][k] = i} ELSE {}

\* unpack of the id that exists answers for a key returns the key.
IdsResolve ==
  \A o \in alive : root[o] # Null =>
    \A k \in DOMAIN tree[root[o]] :
      LET i == tree[root[o]][k]
      IN  Cell(entries[o], i).node = root[o] /\ UnpackById(o, i) = {k}

=============================================================================
