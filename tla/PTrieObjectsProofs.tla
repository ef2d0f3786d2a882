------------------------- MODULE PTrieObjectsProofs -------------------------
(***************************************************************************)
(* Theorems about PTrieObjects, for any number of objects and whatever     *)
(* their keys are: who owns which nodes and which list of entries, where   *)
(* nodes can be lost, and that each object is a map of its own.            *)
(***************************************************************************)
EXTENDS PTrieObjects, FiniteSetTheorems, FunctionTheorems, TLAPS

-----------------------------------------------------------------------------
(* The invariant *)

\* Addresses are where addresses belong.
Addresses ==
  /\ alive \subseteq Objects /\ trees \subseteq Trees /\ lists \subseteq Lists
  /\ root \in [Objects -> Trees \cup {Null}] /\ entries \in [Objects -> Lists \cup {Null}]
  /\ tree = [t \in Trees |-> tree[t]]

\* What is not constructed, or destroyed, owns nothing.
DeadOwnNothing == \A o \in Objects \ alive : root[o] = Null /\ entries[o] = Null

OInv == Addresses /\ DeadOwnNothing /\ OwnedOnce

\* No object is constructed at first.
LEMMA OInitInv == OInit => OInv
BY DEF OInit, OInv, Addresses, DeadOwnNothing, OwnedOnce

-----------------------------------------------------------------------------
(* Operations on one object *)

\* A new object has a tree and a list of its own.
LEMMA ConstructInv ==
  ASSUME OInv, NEW o \in Objects, Construct(o) PROVE OInv'
<1> USE ObjectsAssumption
<1>1. PICK t \in Trees \ trees, l \in Lists \ lists :
        /\ trees' = trees \cup {t} /\ lists' = lists \cup {l}
        /\ root' = [root EXCEPT ![o] = t]
        /\ entries' = [entries EXCEPT ![o] = l]
  BY DEF Construct
<1>2. alive' = alive \cup {o} /\ o \notin alive /\ tree' = tree
  BY DEF Construct
<1>3. Addresses' /\ DeadOwnNothing'
  BY <1>1, <1>2 DEF OInv, Addresses, DeadOwnNothing
<1>4. OwnedOnce'
  <2>1. /\ root'[o] = t /\ entries'[o] = l
        /\ \A p \in alive : p # o /\ root'[p] = root[p] /\ entries'[p] = entries[p]
    BY <1>1, <1>2 DEF OInv, Addresses
  <2>2. \A p \in alive : root[p] # t /\ entries[p] # l
    BY <1>1 DEF OInv, OwnedOnce
  <2>3. QED
    BY <1>1, <1>2, <2>1, <2>2 DEF OInv, OwnedOnce
<1>5. QED
  BY <1>3, <1>4 DEF OInv

\* Operations on the keys leave what objects own.
LEMMA KeysInv ==
  ASSUME OInv, NEW o \in Objects, NEW k \in Keys,
         Insert(o, k) \/ Erase(o, k) \/ \E v \in Values : Assign(o, k, v)
  PROVE  OInv'
<1>1. UNCHANGED <<alive, root, entries, trees, lists>>
  BY DEF Insert, Erase, Assign
<1>2. tree' = [t \in Trees |-> tree'[t]]
  BY DEF Insert, Erase, Assign, OInv, Addresses
<1>3. QED
  BY <1>1, <1>2 DEF OInv, Addresses, DeadOwnNothing, OwnedOnce

\* What the destructor frees is what only this object owned.
LEMMA DestructInv ==
  ASSUME OInv, NEW o \in Objects, Destruct(o) PROVE OInv'
<1> USE ObjectsAssumption
<1>1. /\ o \in alive /\ alive' = alive \ {o}
      /\ root' = [root EXCEPT ![o] = Null] /\ entries' = [entries EXCEPT ![o] = Null]
      /\ trees' = trees \ {root[o]} /\ lists' = lists \ {entries[o]}
      /\ tree' = DeadTrees({root[o]})
  BY DEF Destruct
<1>2. Addresses' /\ DeadOwnNothing'
  BY <1>1 DEF OInv, Addresses, DeadOwnNothing, DeadTrees
<1>3. OwnedOnce'
  BY <1>1 DEF OInv, Addresses, OwnedOnce
<1>4. QED
  BY <1>2, <1>3 DEF OInv

-----------------------------------------------------------------------------
(* Copies and moves *)

\* What a copy does to the owners: o gets a new tree, or none, and a tree without
\* nodes that it had is gone.
LEMMA CloneIntoFact ==
  ASSUME OInv, NEW o \in Objects, NEW p \in Objects, NEW l, CloneInto(o, p, l)
  PROVE  /\ \E x \in (Trees \ trees) \cup {Null} :
              /\ root' = [root EXCEPT ![o] = x]
              /\ trees' = (trees \cup ({x} \ {Null})) \ Bare(o)
              /\ \A t \in Trees : t # x => tree'[t] = tree[t]
         /\ tree' = [t \in Trees |-> tree'[t]]
<1> USE ObjectsAssumption
<1>1. CASE root[p] = Null
  <2>1. root' = [root EXCEPT ![o] = Null] /\ trees' = trees \ Bare(o) /\ tree' = tree
    BY <1>1 DEF CloneInto
  <2>2. tree' = [t \in Trees |-> tree'[t]]
    BY <2>1 DEF OInv, Addresses
  <2>3. trees' = (trees \cup ({Null} \ {Null})) \ Bare(o)
    BY <2>1
  <2>4. QED
    BY <2>1, <2>2, <2>3
<1>2. CASE root[p] # Null
  <2>1. PICK x \in Trees \ trees : /\ root' = [root EXCEPT ![o] = x]
                                  /\ trees' = (trees \cup {x}) \ Bare(o)
                                  /\ \/ tree' = tree
                                     \/ \E c : tree' = [tree EXCEPT ![x] = c]
    BY <1>2 DEF CloneInto, CloneKeys
  <2>2. {x} = {x} \ {Null} /\ \A t \in Trees : t # x => tree'[t] = tree[t]
    BY <2>1 DEF OInv, Addresses
  <2>3. tree' = [t \in Trees |-> tree'[t]]
    BY <2>1 DEF OInv, Addresses
  <2>4. trees' = (trees \cup ({x} \ {Null})) \ Bare(o)
    BY <2>1, <2>2
  <2>5. x \in (Trees \ trees) \cup {Null}
    OBVIOUS
  <2>6. QED
    BY <2>1, <2>2, <2>3, <2>4, <2>5
<1>3. QED
  BY <1>1, <1>2

\* A copy owns new nodes, and the list that it had or a new one.
LEMMA CopyInv ==
  ASSUME OInv, NEW o \in Objects, NEW p \in Objects,
         CopyConstruct(o, p) \/ CopyAssign(o, p)
  PROVE  OInv'
<1> USE ObjectsAssumption
<1>1. PICK l : CloneInto(o, p, l)
  BY DEF CopyConstruct, CopyAssign
<1>2. PICK x \in (Trees \ trees) \cup {Null} :
        /\ root' = [root EXCEPT ![o] = x]
        /\ trees' = (trees \cup ({x} \ {Null})) \ Bare(o)
  BY <1>1, CloneIntoFact
<1>3. tree' = [t \in Trees |-> tree'[t]]
  BY <1>1, CloneIntoFact
<1>4. /\ alive' = alive \cup {o}
      /\ \/ o \in alive /\ UNCHANGED <<lists, entries>>
         \/ o \notin alive /\ \E c \in Lists \ lists : /\ lists' = lists \cup {c}
                                                       /\ entries' = [entries EXCEPT ![o] = c]
  BY DEF CopyConstruct, CopyAssign
<1>5. Bare(o) \subseteq {root[o]}
  BY DEF Bare
<1>6. Addresses' /\ DeadOwnNothing'
  BY <1>2, <1>3, <1>4, <1>5 DEF OInv, Addresses, DeadOwnNothing
<1>7. /\ \A q \in alive' : root'[q] \in trees' \cup {Null}
      /\ \A q, r \in alive' : q # r /\ root'[q] = root'[r] => root'[q] = Null
  <2>1. root'[o] = x /\ \A q \in alive' \ {o} : q \in alive /\ root'[q] = root[q]
    BY <1>2, <1>4 DEF OInv, Addresses
  <2>2. x # Null => x \notin Bare(o)
    BY DEF Bare
  <2>3. \A q \in alive' \ {o} : root[q] \in trees \cup {Null} /\ root[q] \notin Bare(o)
    <3>1. CASE o \in alive
      BY <1>4, <1>5, <3>1 DEF OInv, OwnedOnce, Bare, Addresses
    <3>2. CASE o \notin alive
      BY <1>4, <1>5, <3>2 DEF OInv, OwnedOnce, Bare, Addresses, DeadOwnNothing
    <3>3. QED
      BY <3>1, <3>2
  <2>4. QED
    BY <1>2, <2>1, <2>2, <2>3 DEF OInv, OwnedOnce
<1>8. /\ \A q \in alive' : entries'[q] \in lists' \cup {Null}
      /\ \A q, r \in alive' : q # r /\ entries'[q] = entries'[r] => entries'[q] = Null
      /\ lists' \subseteq {entries'[q] : q \in alive'}
  <2>1. CASE o \in alive
    BY <1>4, <2>1 DEF OInv, OwnedOnce
  <2>2. CASE o \notin alive
    <3>1. PICK c \in Lists \ lists : /\ lists' = lists \cup {c}
                                     /\ entries' = [entries EXCEPT ![o] = c]
      BY <1>4, <2>2
    <3>2. entries'[o] = c /\ \A q \in alive : q # o /\ entries'[q] = entries[q]
      BY <2>2, <3>1 DEF OInv, Addresses
    <3>3. QED
      BY <1>4, <3>1, <3>2 DEF OInv, OwnedOnce
  <2>3. QED
    BY <2>1, <2>2
<1>9. QED
  BY <1>6, <1>7, <1>8 DEF OInv, OwnedOnce

\* A move takes the tree and the list from one owner to another.
LEMMA MoveInv ==
  ASSUME OInv, NEW o \in Objects, NEW p \in Objects,
         MoveConstruct(o, p) \/ MoveAssign(o, p)
  PROVE  OInv'
<1> USE ObjectsAssumption
<1>1. /\ o # p /\ p \in alive /\ alive' = alive \cup {o} /\ tree' = tree
      /\ root' = [root EXCEPT ![o] = root[p], ![p] = Null]
      /\ entries' = [entries EXCEPT ![o] = entries[p], ![p] = Null]
  BY DEF MoveConstruct, MoveAssign, TakeOver
<1>2. /\ lists' = lists \ {entries[o]}
      /\ trees' = trees \ Bare(o)
  <2>1. CASE MoveConstruct(o, p)
    BY <2>1 DEF OInv, Addresses, DeadOwnNothing, MoveConstruct, Bare
  <2>2. CASE MoveAssign(o, p)
    BY <2>2 DEF MoveAssign
  <2>3. QED
    BY <2>1, <2>2
<1>3. Bare(o) \subseteq {root[o]}
  BY DEF Bare
<1>4. Addresses' /\ DeadOwnNothing'
  BY <1>1, <1>2, <1>3 DEF OInv, Addresses, DeadOwnNothing
<1>5. /\ root'[o] = root[p] /\ root'[p] = Null
      /\ entries'[o] = entries[p] /\ entries'[p] = Null
      /\ \A q \in alive' \ {o, p} : /\ q \in alive
                                    /\ root'[q] = root[q] /\ entries'[q] = entries[q]
  BY <1>1 DEF OInv, Addresses
<1>6. \A q \in alive \ {o} : /\ root[q] = Null \/ root[q] # root[o]
                             /\ entries[q] = Null \/ entries[q] # entries[o]
  <2>1. CASE o \in alive
    BY <2>1 DEF OInv, OwnedOnce
  <2>2. CASE o \notin alive
    BY <2>2 DEF OInv, DeadOwnNothing
  <2>3. QED
    BY <2>1, <2>2
<1>7. \A q \in alive' : root'[q] \in trees' \cup {Null} /\ entries'[q] \in lists' \cup {Null}
  <2>1. TAKE q \in alive'
  <2>2. PICK s \in alive \ {o} : root'[q] \in {root[s], Null} /\ entries'[q] \in {entries[s], Null}
    BY <1>1, <1>5
  <2>3. root[s] \in trees \cup {Null} /\ entries[s] \in lists \cup {Null}
    BY DEF OInv, OwnedOnce
  <2>4. QED
    BY <1>2, <1>3, <1>6, <2>2, <2>3
<1>8. \A q, r \in alive' : q # r => /\ root'[q] = root'[r] => root'[q] = Null
                                    /\ entries'[q] = entries'[r] => entries'[q] = Null
  <2> DEFINE Source(q) == IF q = o THEN p ELSE q
  <2>1. \A q \in alive' \ {p} : /\ Source(q) \in alive
                                /\ root'[q] = root[Source(q)]
                                /\ entries'[q] = entries[Source(q)]
    BY <1>1, <1>5
  <2>2. \A q, r \in alive' \ {p} : q # r => Source(q) # Source(r)
    OBVIOUS
  <2>3. QED
    BY <1>5, <2>1, <2>2 DEF OInv, OwnedOnce
<1>9. lists' \subseteq {entries'[q] : q \in alive'}
  <2>1. SUFFICES ASSUME NEW l \in lists' PROVE \E q \in alive' : entries'[q] = l
    OBVIOUS
  <2>2. PICK q \in alive : entries[q] = l
    BY <1>2 DEF OInv, OwnedOnce
  <2>3. q # o
    BY <1>2, <2>2
  <2>4. QED
    BY <1>1, <1>5, <2>2, <2>3
<1>10. QED
  BY <1>4, <1>7, <1>8, <1>9 DEF OInv, OwnedOnce

\* Every operation keeps the invariant.
LEMMA ONextInv == OInv /\ [ONext]_ovars => OInv'
<1>1. SUFFICES ASSUME OInv, [ONext]_ovars PROVE OInv'
  OBVIOUS
<1>2. CASE ONext
  <2>1. PICK o \in Objects :
          \/ Construct(o) \/ Destruct(o)
          \/ \E k \in Keys : Insert(o, k) \/ Erase(o, k) \/ \E v \in Values : Assign(o, k, v)
          \/ \E p \in Objects : CopyConstruct(o, p) \/ CopyAssign(o, p)
                                  \/ MoveConstruct(o, p) \/ MoveAssign(o, p)
    BY <1>2 DEF ONext
  <2>2. QED
    BY <1>1, <2>1, ConstructInv, DestructInv, KeysInv, CopyInv, MoveInv
<1>3. CASE UNCHANGED ovars
  BY <1>1, <1>3 DEF ovars, OInv, Addresses, DeadOwnNothing, OwnedOnce
<1>4. QED
  BY <1>1, <1>2, <1>3

-----------------------------------------------------------------------------
(* Theorems *)

\* Nodes and lists have one owner each whatever is copied, moved, assigned and
\* destroyed, so that no destructor frees what another object uses or has freed.
THEOREM Ownership == OSpec => []OwnedOnce
<1>1. OInv => OwnedOnce
  BY DEF OInv
<1>2. QED
  BY <1>1, OInitInv, ONextInv, PTL DEF OSpec

\* Only an assignment loses nodes: what no object owns behind a step it did own before
\* it, by an object that is still there and has been given other nodes.
THEOREM LossIsByAssignment == OSpec => LostByAssignOnly
<1>1. ASSUME OInv, ONext, NEW t \in Lost' \ Lost
      PROVE  \E q \in alive \cap alive' : root[q] = t /\ root'[q] # t
  <2> USE <1>1, ObjectsAssumption
  <2>1. t \in trees' /\ tree'[t] # <<>> /\ \A q \in alive' : root'[q] # t
    BY DEF Lost
  <2>2. PICK o \in Objects :
          \/ Construct(o) \/ Destruct(o)
          \/ \E k \in Keys : Insert(o, k) \/ Erase(o, k) \/ \E v \in Values : Assign(o, k, v)
          \/ \E p \in Objects : CopyConstruct(o, p) \/ CopyAssign(o, p)
                                  \/ MoveConstruct(o, p) \/ MoveAssign(o, p)
    BY DEF ONext
  <2>3. /\ t \in trees /\ tree[t] # <<>>
        /\ \A q \in alive : root[q] = t => q \in alive'
    <3>1. CASE Construct(o)
      BY <2>1, <3>1 DEF Construct, OInv, Addresses
    <3>2. CASE Destruct(o)
      <4>1. t \in trees /\ t # root[o] /\ tree'[t] = tree[t] /\ alive' = alive \ {o}
        BY <2>1, <3>2 DEF Destruct, DeadTrees, OInv, Addresses
      <4>2. QED
        BY <2>1, <4>1
    <3>3. CASE \E k \in Keys : Insert(o, k) \/ Erase(o, k) \/ \E v \in Values : Assign(o, k, v)
      <4>1. o \in alive /\ UNCHANGED <<alive, root, trees>>
        BY <3>3 DEF Insert, Erase, Assign, Usable
      <4>2. t # root[o]
        BY <2>1, <4>1
      <4>3. tree'[t] = tree[t]
        BY <2>1, <3>3, <4>1, <4>2 DEF Insert, Erase, Assign, OInv, Addresses
      <4>4. QED
        BY <2>1, <4>1, <4>3
    <3>4. CASE \E p \in Objects : CopyConstruct(o, p) \/ CopyAssign(o, p)
      <4>1. \E p \in Objects : \E l : CloneInto(o, p, l)
        BY <3>4 DEF CopyConstruct, CopyAssign
      <4>2. o \in alive' /\ alive \subseteq alive'
        BY <3>4 DEF CopyConstruct, CopyAssign
      <4>3. PICK x \in (Trees \ trees) \cup {Null} :
              /\ root' = [root EXCEPT ![o] = x]
              /\ trees' = (trees \cup ({x} \ {Null})) \ Bare(o)
              /\ \A s \in Trees : s # x => tree'[s] = tree[s]
        BY <4>1, CloneIntoFact
      <4>4. t # x
        BY <2>1, <4>2, <4>3 DEF OInv, Addresses
      <4>5. QED
        BY <2>1, <4>2, <4>3, <4>4 DEF OInv, Addresses
    <3>5. CASE \E p \in Objects : MoveConstruct(o, p) \/ MoveAssign(o, p)
      BY <2>1, <3>5 DEF MoveConstruct, MoveAssign
    <3>6. QED
      BY <2>2, <3>1, <3>2, <3>3, <3>4, <3>5
  <2>4. PICK q \in alive : root[q] = t
    BY <2>3 DEF Lost
  <2>5. QED
    BY <2>1, <2>3, <2>4
<1>2. OInv /\ [ONext]_ovars =>
        [\A t \in Lost' \ Lost : \E o \in alive \cap alive' : root[o] = t /\ root'[o] # t]_ovars
  BY <1>1
<1>3. QED
  BY <1>2, OInitInv, ONextInv, PTL DEF OSpec, LostByAssignOnly

-----------------------------------------------------------------------------
(* What objects show *)

Cells == [node : Trees, data : Values \cup {Default}]

\* Finite sets of keys with ids.
Ids == UNION {[D -> Nat] : D \in {E \in SUBSET Keys : IsFiniteSet(E)}}

\* What is not allocated is empty.
Blank ==
  /\ \A t \in Trees \ trees : tree[t] = <<>>
  /\ \A l \in Lists \ lists : list[l] = <<>>

\* An object with keys has a list, in which they have different ids.
Valid(o) ==
  /\ entries[o] = Null => tree[root[o]] = <<>>
  /\ \A k \in DOMAIN tree[root[o]] : tree[root[o]][k] \in 0 .. Len(list[entries[o]]) - 1
  /\ \A j, k \in DOMAIN tree[root[o]] : tree[root[o]][j] = tree[root[o]][k] => j = k

IdsValid == \A o \in alive : root[o] # Null => Valid(o)

RInv ==
  /\ OInv
  /\ tree \in [Trees -> Ids] /\ list \in [Lists -> Seq(Cells)]
  /\ Blank /\ IdsValid

\* A map without keys.
LEMMA EmptyMap ==
  /\ <<>> \in Ids /\ DOMAIN <<>> = {}
  /\ \A f : DOMAIN f = {} /\ f = [k \in DOMAIN f |-> f[k]] => f = <<>>
<1>1. <<>> \in [{} -> Nat] /\ IsFiniteSet({})
  BY FS_EmptySet
<1>2. QED
  BY <1>1 DEF Ids

\* The keys of a tree are finitely many numbers, with ids.
LEMMA IdsFacts ==
  ASSUME NEW f \in Ids
  PROVE  /\ DOMAIN f \subseteq Keys /\ IsFiniteSet(DOMAIN f) /\ DOMAIN f \subseteq Int
         /\ f \in [DOMAIN f -> Nat]
<1>1. PICK D \in {E \in SUBSET Keys : IsFiniteSet(E)} : f \in [D -> Nat]
  BY DEF Ids
<1>2. QED
  BY <1>1, ObjectsAssumption

\* Ids on a finite set of keys are one of Ids.
LEMMA IdsIn ==
  ASSUME NEW D \in SUBSET Keys, IsFiniteSet(D), NEW f \in [D -> Nat] PROVE f \in Ids
BY DEF Ids

\* Two keys have different places in the order, so that KeyAt finds a key by its place.
LEMMA Ranks ==
  ASSUME NEW S, S \subseteq Int, IsFiniteSet(S)
  PROVE  /\ Cardinality(S) \in Nat
         /\ \A k \in S : Rank(S, k) \in 0 .. Cardinality(S) - 1 /\ KeyAt(S, Rank(S, k)) = k
         /\ \A r \in 0 .. Cardinality(S) - 1 : KeyAt(S, r) \in S
         /\ \A j, k \in S : Rank(S, j) = Rank(S, k) => j = k
<1>1. Cardinality(S) \in Nat
  BY FS_CardinalityType
<1>2. ASSUME NEW j \in S, NEW k \in S, j < k PROVE Rank(S, j) < Rank(S, k)
  <2> DEFINE J == {i \in S : i < j}
             K == {i \in S : i < k}
  <2>1. J \in SUBSET K /\ K \in SUBSET S /\ J # K
    <3>1. \A i \in S : i \in Int
      OBVIOUS
    <3>2. \A i \in S : i < j => i < k
      BY <1>2, <3>1
    <3>3. j \in K /\ j \notin J
      BY <1>2, <3>1
    <3>4. QED
      BY <3>2, <3>3
  <2>2. IsFiniteSet(K)
    BY <2>1, FS_Subset
  <2>3. Cardinality(J) <= Cardinality(K) /\ Cardinality(J) # Cardinality(K)
    BY <2>1, <2>2, FS_Subset
  <2>4. IsFiniteSet(J)
    BY <2>1, <2>2, FS_Subset
  <2>5. Cardinality(J) \in Nat /\ Cardinality(K) \in Nat
    BY <2>2, <2>4, FS_CardinalityType
  <2>6. QED
    BY <2>3, <2>5 DEF Rank
<1>3. ASSUME NEW k \in S PROVE Rank(S, k) \in 0 .. Cardinality(S) - 1
  <2> DEFINE K == {i \in S : i < k}
  <2>1. K \in SUBSET S /\ k \notin K
    OBVIOUS
  <2>2. IsFiniteSet(K) /\ Cardinality(K) <= Cardinality(S) /\ Cardinality(K) # Cardinality(S)
    BY <2>1, FS_Subset
  <2>3. Cardinality(K) \in Nat
    BY <2>2, FS_CardinalityType
  <2>4. QED
    BY <1>1, <2>2, <2>3 DEF Rank
<1>4. \A j, k \in S : Rank(S, j) = Rank(S, k) => j = k
  <2>1. SUFFICES ASSUME NEW j \in S, NEW k \in S, Rank(S, j) = Rank(S, k), j # k PROVE FALSE
    OBVIOUS
  <2>2. j < k \/ k < j
    BY <2>1
  <2>3. QED
    BY <1>2, <1>3, <2>1, <2>2
<1>5. \A k \in S : KeyAt(S, Rank(S, k)) = k
  BY <1>4 DEF KeyAt
<1>6. ASSUME NEW r \in 0 .. Cardinality(S) - 1 PROVE KeyAt(S, r) \in S
  <2> DEFINE T == 0 .. Cardinality(S) - 1
             f == [k \in S |-> Rank(S, k)]
  <2>1. f \in [S -> T]
    BY <1>3
  <2>2. f \in Injection(S, T)
    BY <1>4, <2>1, Fun_IsInj
  <2>3. IsFiniteSet(T) /\ Cardinality(T) = Cardinality(S)
    BY <1>1, FS_Interval
  <2>4. f \in Surjection(S, T)
    BY <2>2, <2>3, FS_Injection
  <2> HIDE DEF T, f
  <2>5. \A i \in T : \E k \in S : f[k] = i
    BY <2>4, Fun_SurjectionProperties
  <2> USE DEF T, f
  <2>6. QED
    BY <1>5, <2>5
<1>7. QED
  BY <1>1, <1>3, <1>4, <1>5, <1>6

-----------------------------------------------------------------------------
(* Steps of the abstract specification *)

\* What each object shows is a value of the abstract specification's variable.
Shown == [o \in Objects |-> Seen(o)]

\* The objects that keep their nodes and their entries show the same map.
LEMMA SeenSame ==
  ASSUME NEW p, p \in alive <=> p \in alive',
         p \in alive => /\ root'[p] = root[p]
                        /\ root[p] # Null => /\ entries'[p] = entries[p]
                                             /\ tree'[root[p]] = tree[root[p]]
                                             /\ \/ tree[root[p]] = <<>>
                                                \/ list'[entries[p]] = list[entries[p]]
  PROVE  Seen(p)' = Seen(p)
<1>1. CASE p \notin alive
  BY <1>1 DEF Seen, Usable
<1>2. CASE p \in alive /\ root[p] = Null
  BY <1>2 DEF Seen, Usable
<1>3. CASE p \in alive /\ root[p] # Null
  <2>1. PICK ids : ids = tree[root[p]]
    OBVIOUS
  <2>2. /\ Seen(p) = [is |-> "map", map |-> [k \in DOMAIN ids |-> list[entries[p]][ids[k] + 1].data]]
        /\ Seen(p)' = [is |-> "map",
                       map |-> [k \in DOMAIN ids |-> list'[entries[p]][ids[k] + 1].data]]
    BY <1>3, <2>1 DEF Seen, Usable, Cell
  <2>3. \A k \in DOMAIN ids : list'[entries[p]] = list[entries[p]]
    BY <1>3, <2>1, EmptyMap
  <2>4. [k \in DOMAIN ids |-> list'[entries[p]][ids[k] + 1].data] =
          [k \in DOMAIN ids |-> list[entries[p]][ids[k] + 1].data]
    BY <2>3
  <2>5. QED
    BY <2>2, <2>4
<1>4. QED
  BY <1>1, <1>2, <1>3

\* One object shows x behind a step, the others what they did.
LEMMA BecomeStep ==
  ASSUME NEW o \in Objects, NEW x, Seen(o)' = x,
         \A p \in Objects \ {o} : Seen(p)' = Seen(p)
  PROVE  Abstract!Become(o, x)
BY DEF Abstract!Become

\* Objects that are not alive, moved from, or maps.
LEMMA SeenIs ==
  ASSUME NEW o
  PROVE  /\ o \notin alive => Seen(o) = Abstract!Dead
         /\ o \in alive /\ root[o] = Null => Seen(o) = Abstract!Moved
         /\ o \in alive /\ root[o] # Null =>
              Seen(o) = Abstract!Map([k \in DOMAIN tree[root[o]] |->
                                        Cell(entries[o], tree[root[o]][k]).data])
BY DEF Seen, Usable, Abstract!Dead, Abstract!Moved, Abstract!Map

\* Two objects do not share what they own.
LEMMA Apart ==
  ASSUME RInv, NEW o \in Objects, NEW p \in alive, p # o
  PROVE  /\ root[p] # Null => root[p] # root[o] /\ root[p] \in trees /\ root[p] \in Trees
                              /\ (entries[p] = Null => tree[root[p]] = <<>>)
         /\ entries[p] # Null => entries[p] # entries[o] /\ entries[p] \in lists
                                 /\ entries[p] \in Lists
<1>1. p \in Objects /\ alive \subseteq Objects
  BY DEF RInv, OInv, Addresses
<1>2. o \notin alive => root[o] = Null /\ entries[o] = Null
  BY DEF RInv, OInv, DeadOwnNothing
<1>3. QED
  BY <1>1, <1>2 DEF RInv, OInv, OwnedOnce, Addresses, IdsValid, Valid

\* What an object with a list owns: that is, any with keys.
LEMMA Owns ==
  ASSUME RInv, NEW o, Usable(o), entries[o] # Null \/ DOMAIN tree[root[o]] # {}
  PROVE  /\ o \in Objects /\ o \in alive /\ root[o] # Null /\ entries[o] # Null
         /\ root[o] \in trees /\ root[o] \in Trees
         /\ entries[o] \in lists /\ entries[o] \in Lists
         /\ tree[root[o]] \in Ids /\ list[entries[o]] \in Seq(Cells)
         /\ \A k \in DOMAIN tree[root[o]] :
              tree[root[o]][k] \in 0 .. Len(list[entries[o]]) - 1
         /\ \A j, k \in DOMAIN tree[root[o]] : tree[root[o]][j] = tree[root[o]][k] => j = k
<1>1. o \in alive /\ root[o] # Null /\ alive \subseteq Objects
  BY DEF Usable, RInv, OInv, Addresses
<1>2. entries[o] # Null
  BY <1>1, EmptyMap DEF RInv, IdsValid, Valid
<1>3. root[o] \in trees /\ entries[o] \in lists
  BY <1>1, <1>2 DEF RInv, OInv, OwnedOnce
<1>4. trees \subseteq Trees /\ lists \subseteq Lists
  BY DEF RInv, OInv, Addresses
<1>5. QED
  BY <1>1, <1>2, <1>3, <1>4 DEF RInv, IdsValid, Valid

\* What an operation on o leaves alone.
Others(o) ==
  /\ \A p \in Objects \ {o} : /\ p \in alive <=> p \in alive'
                              /\ root'[p] = root[p] /\ entries'[p] = entries[p]
  /\ \A t \in trees : t # root[o] => tree'[t] = tree[t]
  /\ \A l \in lists : l # entries[o] => list'[l] = list[l]

\* Then the other objects show what they did, and their ids are as good as they were.
LEMMA OthersKept ==
  ASSUME RInv, NEW o \in Objects, Others(o), NEW p \in Objects \ {o}
  PROVE  /\ Seen(p)' = Seen(p)
         /\ p \in alive' /\ root'[p] # Null => Valid(p)'
<1>1. /\ p \in alive <=> p \in alive'
      /\ root'[p] = root[p] /\ entries'[p] = entries[p]
  BY DEF Others
<1>2. p \in alive /\ root[p] # Null =>
        /\ tree'[root[p]] = tree[root[p]]
        /\ tree[root[p]] = <<>> \/ list'[entries[p]] = list[entries[p]]
  <2> SUFFICES ASSUME p \in alive, root[p] # Null
               PROVE  /\ tree'[root[p]] = tree[root[p]]
                      /\ tree[root[p]] = <<>> \/ list'[entries[p]] = list[entries[p]]
    OBVIOUS
  <2>1. /\ root[p] # root[o] /\ root[p] \in trees
        /\ entries[p] = Null => tree[root[p]] = <<>>
        /\ entries[p] # Null => entries[p] # entries[o] /\ entries[p] \in lists
    BY Apart
  <2>2. QED
    BY <2>1 DEF Others
<1>3. Seen(p)' = Seen(p)
  BY <1>1, <1>2, SeenSame
<1>4. ASSUME p \in alive', root'[p] # Null PROVE Valid(p)'
  <2>1. p \in alive /\ root[p] # Null /\ root'[p] = root[p] /\ entries'[p] = entries[p]
    BY <1>1, <1>4
  <2>2. Valid(p)
    BY <2>1 DEF RInv, IdsValid
  <2>3. tree'[root'[p]] = tree[root[p]]
    BY <1>2, <2>1
  <2>4. CASE tree[root[p]] = <<>>
    <3>1. DOMAIN tree'[root'[p]] = {} /\ tree'[root'[p]] = <<>>
      BY <2>3, <2>4, EmptyMap
    <3>2. QED
      BY <3>1 DEF Valid
  <2>5. CASE list'[entries[p]] = list[entries[p]]
    <3>1. list'[entries'[p]] = list[entries[p]]
      BY <2>1, <2>5
    <3>2. QED
      BY <2>1, <2>2, <2>3, <3>1 DEF Valid
  <2>6. QED
    BY <1>2, <2>1, <2>4, <2>5
<1>5. QED
  BY <1>3, <1>4

\* An operation on o in which all that is left to show is about o.
LEMMA StepOf ==
  ASSUME RInv, NEW o \in Objects, Others(o), OInv', Blank',
         tree' \in [Trees -> Ids], list' \in [Lists -> Seq(Cells)],
         o \in alive' /\ root'[o] # Null => Valid(o)',
         NEW x, Seen(o)' = x
  PROVE  RInv' /\ Abstract!Become(o, x)
<1>1. \A p \in Objects \ {o} : Seen(p)' = Seen(p)
  BY OthersKept
<1>2. \A p \in Objects \ {o} : p \in alive' /\ root'[p] # Null => Valid(p)'
  BY OthersKept
<1>3. IdsValid'
  <2>1. SUFFICES ASSUME NEW p \in alive', root'[p] # Null PROVE Valid(p)'
    BY DEF IdsValid
  <2>2. p \in Objects
    BY DEF OInv, Addresses
  <2>3. QED
    BY <1>2, <2>1, <2>2
<1>4. Abstract!Become(o, x)
  BY <1>1, BecomeStep
<1>5. QED
  BY <1>3, <1>4 DEF RInv

\* An object without keys behind a step shows the empty map.
LEMMA ShownEmpty ==
  ASSUME NEW o, o \in alive', root'[o] # Null, DOMAIN tree'[root'[o]] = {}
  PROVE  Seen(o)' = Abstract!Map(<<>>)
<1> DEFINE m == [k \in DOMAIN tree[root[o]] |-> Cell(entries[o], tree[root[o]][k]).data]'
<1>1. Seen(o)' = Abstract!Map(m)
  BY DEF Seen, Usable, Abstract!Map
<1>2. DOMAIN m = {} /\ m = [k \in DOMAIN m |-> m[k]]
  OBVIOUS
<1>3. m = <<>>
  BY <1>2, EmptyMap
<1>4. QED
  BY <1>1, <1>3

\* A new object is an empty map.
LEMMA ConstructStep ==
  ASSUME RInv, NEW o \in Objects, Construct(o) PROVE RInv' /\ Abstract!Create(o)
<1> USE ObjectsAssumption
<1>1. PICK t \in Trees \ trees, l \in Lists \ lists :
        /\ trees' = trees \cup {t} /\ lists' = lists \cup {l}
        /\ root' = [root EXCEPT ![o] = t]
        /\ entries' = [entries EXCEPT ![o] = l]
  BY DEF Construct
<1>2. alive' = alive \cup {o} /\ o \notin alive /\ tree' = tree /\ list' = list
  BY DEF Construct
<1>3. OInv' /\ Blank'
  BY <1>1, <1>2, ConstructInv DEF RInv, Blank
<1>4. root'[o] = t /\ entries'[o] = l /\ t # Null /\ l # Null
  BY <1>1 DEF RInv, OInv, Addresses
<1>5. DOMAIN tree[t] = {}
  BY <1>1, EmptyMap DEF RInv, Blank
<1>6. Others(o)
  BY <1>1, <1>2 DEF Others, RInv, OInv, Addresses
<1>7. Valid(o)'
  BY <1>2, <1>4, <1>5 DEF Valid
<1>8. Seen(o)' = Abstract!Map(<<>>)
  BY <1>2, <1>4, <1>5, ShownEmpty
<1>9. tree' \in [Trees -> Ids] /\ list' \in [Lists -> Seq(Cells)]
  BY <1>2 DEF RInv
<1>10. RInv' /\ Abstract!Become(o, Abstract!Map(<<>>))
  BY <1>3, <1>6, <1>7, <1>8, <1>9, StepOf
<1>11. QED
  BY <1>2, <1>10, SeenIs DEF Abstract!Create

\* A destroyed object is dead.
LEMMA DestructStep ==
  ASSUME RInv, NEW o \in Objects, Destruct(o) PROVE RInv' /\ Abstract!Destruct(o)
<1> USE ObjectsAssumption
<1>1. /\ o \in alive /\ alive' = alive \ {o}
      /\ root' = [root EXCEPT ![o] = Null] /\ entries' = [entries EXCEPT ![o] = Null]
      /\ trees' = trees \ {root[o]} /\ tree' = DeadTrees({root[o]})
      /\ lists' = lists \ {entries[o]} /\ list' = DeadLists({entries[o]})
  BY DEF Destruct
<1>2. OInv'
  BY DestructInv DEF RInv
<1>3. /\ \A t \in Trees : tree'[t] = IF t = root[o] THEN <<>> ELSE tree[t]
      /\ \A l \in Lists : list'[l] = IF l = entries[o] THEN <<>> ELSE list[l]
  BY <1>1 DEF DeadTrees, DeadLists
<1>4. tree' \in [Trees -> Ids] /\ list' \in [Lists -> Seq(Cells)]
  <2>1. <<>> \in Ids /\ <<>> \in Seq(Cells)
    BY EmptyMap
  <2>2. QED
    BY <1>1, <2>1 DEF DeadTrees, DeadLists, RInv
<1>5. Blank'
  BY <1>1, <1>3 DEF RInv, Blank
<1>6. Others(o)
  BY <1>1, <1>3 DEF Others, RInv, OInv, Addresses
<1>7. o \notin alive' /\ Seen(o)' = Abstract!Dead
  BY <1>1 DEF Seen, Usable, Abstract!Dead
<1>8. QED
  BY <1>2, <1>4, <1>5, <1>6, <1>7, StepOf DEF Abstract!Destruct

-----------------------------------------------------------------------------
(* Operations on the keys of one object *)

\* The map that a usable object shows.
LEMMA SeenMap ==
  ASSUME NEW o, Usable(o)
  PROVE  /\ Seen(o).is = "map"
         /\ Seen(o).map = [k \in DOMAIN tree[root[o]] |->
                             Cell(entries[o], tree[root[o]][k]).data]
BY DEF Seen, Usable

\* A new key has the default value.
LEMMA InsertStep ==
  ASSUME RInv, NEW o \in Objects, NEW k \in Keys, Insert(o, k)
  PROVE  RInv' /\ Abstract!Insert(o, k)
<1> DEFINE t == root[o]
           l == entries[o]
           new == [node |-> t, data |-> Default]
<1>1. /\ Usable(o) /\ l # Null /\ k \notin DOMAIN tree[t]
      /\ tree' = [tree EXCEPT ![t] = With(@, k, Len(list[l]))]
      /\ list' = [list EXCEPT ![l] = Append(@, new)]
      /\ UNCHANGED <<alive, root, entries, trees, lists>>
  BY DEF Insert
<1>2. OInv'
  BY KeysInv DEF RInv
<1>3. /\ t \in trees /\ t \in Trees /\ l \in lists /\ l \in Lists /\ t # Null /\ l # Null
      /\ tree[t] \in Ids /\ list[l] \in Seq(Cells)
      /\ \A j \in DOMAIN tree[t] : tree[t][j] \in 0 .. Len(list[l]) - 1
      /\ \A i, j \in DOMAIN tree[t] : tree[t][i] = tree[t][j] => i = j
  BY <1>1, Owns
<1>4. /\ tree'[t] = [j \in DOMAIN tree[t] \cup {k} |-> IF j = k THEN Len(list[l]) ELSE tree[t][j]]
      /\ list'[l] = Append(list[l], new) /\ new \in Cells
      /\ \A x \in Trees : x # t => tree'[x] = tree[x]
      /\ \A x \in Lists : x # l => list'[x] = list[x]
  <2>1. tree'[t] = With(tree[t], k, Len(list[l])) /\ list'[l] = Append(list[l], new)
    BY <1>1, <1>3 DEF RInv
  <2>2. QED
    BY <1>1, <1>3, <2>1 DEF RInv, With, Cells
<1>5. Len(list[l]) \in Nat
  BY <1>3
<1>6. tree'[t] \in Ids
  <2>1. /\ DOMAIN tree[t] \subseteq Keys /\ IsFiniteSet(DOMAIN tree[t])
        /\ tree[t] \in [DOMAIN tree[t] -> Nat]
    BY <1>3, IdsFacts
  <2>2. DOMAIN tree[t] \cup {k} \in SUBSET Keys /\ IsFiniteSet(DOMAIN tree[t] \cup {k})
    BY <2>1, FS_AddElement
  <2>3. tree'[t] \in [DOMAIN tree[t] \cup {k} -> Nat]
    BY <1>4, <1>5, <2>1
  <2>4. QED
    BY <2>2, <2>3, IdsIn
<1>7. list'[l] \in Seq(Cells) /\ Len(list'[l]) = Len(list[l]) + 1
  BY <1>3, <1>4
<1>8. tree' \in [Trees -> Ids] /\ list' \in [Lists -> Seq(Cells)]
  BY <1>1, <1>4, <1>6, <1>7 DEF RInv
<1>9. Blank'
  BY <1>1, <1>3, <1>4 DEF RInv, Blank, OInv, Addresses
<1>10. Others(o)
  BY <1>1, <1>4 DEF Others, RInv, OInv, Addresses
<1>11. Valid(o)'
  <2>1. DOMAIN tree'[t] = DOMAIN tree[t] \cup {k} /\ tree'[t][k] = Len(list[l])
        /\ \A j \in DOMAIN tree[t] : j # k /\ tree'[t][j] = tree[t][j]
    BY <1>1, <1>4
  <2>2. \A j \in DOMAIN tree'[t] : tree'[t][j] \in 0 .. Len(list'[l]) - 1
    BY <1>3, <1>5, <1>7, <2>1
  <2>3. \A i, j \in DOMAIN tree'[t] : tree'[t][i] = tree'[t][j] => i = j
    BY <1>3, <1>5, <2>1
  <2>4. QED
    BY <1>1, <1>3, <2>2, <2>3 DEF Valid
<1>12. Seen(o)' = Abstract!Map(Abstract!With(Seen(o).map, k, Default))
  <2>1. Seen(o).map = [j \in DOMAIN tree[t] |-> list[l][tree[t][j] + 1].data]
    BY <1>1, SeenMap DEF Cell
  <2>2. Seen(o)' = Abstract!Map([j \in DOMAIN tree'[t] |-> list'[l][tree'[t][j] + 1].data])
    <3>1. o \in alive' /\ root'[o] = t /\ entries'[o] = l /\ t # Null
      BY <1>1, <1>3 DEF Usable
    <3> HIDE DEF t, l
    <3>2. QED
      BY <3>1 DEF Seen, Usable, Cell, Abstract!Map
  <2>3. list'[l][tree'[t][k] + 1].data = Default
    BY <1>3, <1>4, <1>5
  <2>4. \A j \in DOMAIN tree[t] : list'[l][tree'[t][j] + 1].data = list[l][tree[t][j] + 1].data
    <3>1. TAKE j \in DOMAIN tree[t]
    <3>2. tree[t][j] + 1 \in 1 .. Len(list[l]) /\ tree'[t][j] = tree[t][j]
      BY <1>1, <1>3, <1>4, <1>5
    <3>3. list'[l][tree[t][j] + 1] = list[l][tree[t][j] + 1]
      BY <1>3, <1>4, <3>2
    <3>4. QED
      BY <3>2, <3>3
  <2>5. [j \in DOMAIN tree'[t] |-> list'[l][tree'[t][j] + 1].data] =
          Abstract!With(Seen(o).map, k, Default)
    <3>1. PICK f : f = Seen(o).map
      OBVIOUS
    <3>2. DOMAIN f = DOMAIN tree[t] /\ \A j \in DOMAIN tree[t] : f[j] = list[l][tree[t][j] + 1].data
      BY <2>1, <3>1
    <3>3. \A j \in DOMAIN tree[t] : list'[l][tree'[t][j] + 1].data = f[j]
      BY <2>4, <3>2
    <3>4. DOMAIN tree'[t] = DOMAIN f \cup {k} /\ k \notin DOMAIN f
      BY <1>1, <1>4, <3>2
    <3>5. \A j \in DOMAIN f \cup {k} :
            list'[l][tree'[t][j] + 1].data = IF j = k THEN Default ELSE f[j]
      BY <2>3, <3>2, <3>3, <3>4
    <3>6. [j \in DOMAIN f \cup {k} |-> list'[l][tree'[t][j] + 1].data] = Abstract!With(f, k, Default)
      BY <3>5 DEF Abstract!With
    <3>7. QED
      BY <3>1, <3>4, <3>6
  <2>6. QED
    BY <2>2, <2>5
<1>13. RInv' /\ Abstract!Become(o, Abstract!Map(Abstract!With(Seen(o).map, k, Default)))
  BY <1>2, <1>8, <1>9, <1>10, <1>11, <1>12, StepOf
<1>14. Seen(o).is = "map" /\ k \notin DOMAIN Seen(o).map
  BY <1>1, SeenMap
<1>15. QED
  BY <1>13, <1>14 DEF Abstract!Insert

\* An erased key is gone, with its value.
LEMMA EraseStep ==
  ASSUME RInv, NEW o \in Objects, NEW k \in Keys, Erase(o, k)
  PROVE  RInv' /\ Abstract!Erase(o, k)
<1> DEFINE t == root[o]
           l == entries[o]
           rest == DOMAIN tree[t] \ {k}
<1>1. /\ Usable(o) /\ k \in DOMAIN tree[t]
      /\ tree' = [tree EXCEPT ![t] = Restrict(@, DOMAIN @ \ {k})]
      /\ UNCHANGED <<alive, root, entries, trees, lists, list>>
  BY DEF Erase
<1>2. OInv'
  BY KeysInv DEF RInv
<1>3. /\ t \in trees /\ t \in Trees /\ l \in lists /\ l \in Lists /\ t # Null /\ l # Null
      /\ tree[t] \in Ids /\ list[l] \in Seq(Cells)
      /\ \A j \in DOMAIN tree[t] : tree[t][j] \in 0 .. Len(list[l]) - 1
      /\ \A i, j \in DOMAIN tree[t] : tree[t][i] = tree[t][j] => i = j
  BY <1>1, Owns
<1>4. /\ tree'[t] = [j \in rest |-> tree[t][j]]
      /\ \A x \in Trees : x # t => tree'[x] = tree[x]
  <2>1. tree'[t] = Restrict(tree[t], DOMAIN tree[t] \ {k})
    BY <1>1, <1>3 DEF RInv
  <2>2. QED
    BY <1>1, <1>3, <2>1 DEF RInv, Restrict
<1>5. tree'[t] \in Ids
  <2>1. /\ DOMAIN tree[t] \subseteq Keys /\ IsFiniteSet(DOMAIN tree[t])
        /\ tree[t] \in [DOMAIN tree[t] -> Nat]
    BY <1>3, IdsFacts
  <2>2. rest \in SUBSET Keys /\ IsFiniteSet(rest)
    BY <2>1, FS_RemoveElement
  <2>3. tree'[t] \in [rest -> Nat]
    BY <1>4, <2>1
  <2>4. QED
    BY <2>2, <2>3, IdsIn
<1>6. tree' \in [Trees -> Ids] /\ list' \in [Lists -> Seq(Cells)]
  BY <1>1, <1>4, <1>5 DEF RInv
<1>7. Blank'
  BY <1>1, <1>3, <1>4 DEF RInv, Blank, OInv, Addresses
<1>8. Others(o)
  BY <1>1, <1>4 DEF Others, RInv, OInv, Addresses
<1>9. /\ DOMAIN tree'[t] = rest
      /\ \A j \in rest : j \in DOMAIN tree[t] /\ j # k /\ tree'[t][j] = tree[t][j]
  BY <1>4
<1>10. Valid(o)'
  <2>1. root'[o] = t /\ entries'[o] = l /\ list' = list
    BY <1>1
  <2> HIDE DEF t, l, rest
  <2>2. QED
    BY <1>3, <1>9, <2>1 DEF Valid
<1>11. Seen(o)' = Abstract!Map(Abstract!Restrict(Seen(o).map, DOMAIN Seen(o).map \ {k}))
  <2>1. Seen(o).map = [j \in DOMAIN tree[t] |-> Cell(l, tree[t][j]).data]
    BY <1>1, SeenMap
  <2>2. Seen(o)' = Abstract!Map([j \in DOMAIN tree'[t] |-> list'[l][tree'[t][j] + 1].data])
    <3>1. o \in alive' /\ root'[o] = t /\ entries'[o] = l /\ t # Null
      BY <1>1, <1>3 DEF Usable
    <3> HIDE DEF t, l
    <3>2. QED
      BY <3>1 DEF Seen, Usable, Cell, Abstract!Map
  <2>3. /\ DOMAIN Seen(o).map \ {k} = rest
        /\ \A j \in rest : Seen(o).map[j] = list'[l][tree'[t][j] + 1].data
    BY <1>1, <1>9, <2>1 DEF Cell
  <2>4. [j \in DOMAIN tree'[t] |-> list'[l][tree'[t][j] + 1].data] =
          Abstract!Restrict(Seen(o).map, DOMAIN Seen(o).map \ {k})
    BY <1>9, <2>3 DEF Abstract!Restrict
  <2>5. QED
    BY <2>2, <2>4
<1>12. /\ RInv'
       /\ Abstract!Become(o, Abstract!Map(Abstract!Restrict(Seen(o).map,
                                                            DOMAIN Seen(o).map \ {k})))
  BY <1>2, <1>6, <1>7, <1>8, <1>10, <1>11, StepOf
<1>13. Seen(o).is = "map" /\ k \in DOMAIN Seen(o).map
  BY <1>1, SeenMap
<1>14. QED
  BY <1>12, <1>13 DEF Abstract!Erase

\* An assigned value is seen under its key and no other: keys have different ids.
LEMMA AssignStep ==
  ASSUME RInv, NEW o \in Objects, NEW k \in Keys, NEW v \in Values, Assign(o, k, v)
  PROVE  RInv' /\ Abstract!Assign(o, k, v)
<1> DEFINE t == root[o]
           l == entries[o]
           i == tree[t][k] + 1
<1>1. /\ Usable(o) /\ k \in DOMAIN tree[t]
      /\ list' = [list EXCEPT ![l][i].data = v]
      /\ UNCHANGED <<alive, root, entries, trees, tree, lists>>
  BY DEF Assign
<1>2. OInv'
  BY KeysInv DEF RInv
<1>3. /\ t \in trees /\ t \in Trees /\ l \in lists /\ l \in Lists /\ t # Null /\ l # Null
      /\ tree[t] \in Ids /\ list[l] \in Seq(Cells)
      /\ \A j \in DOMAIN tree[t] : tree[t][j] \in 0 .. Len(list[l]) - 1
      /\ \A x, y \in DOMAIN tree[t] : tree[t][x] = tree[t][y] => x = y
  BY <1>1, Owns
<1>4. i \in 1 .. Len(list[l]) /\ i \in DOMAIN list[l] /\ list[l][i] \in Cells
  BY <1>1, <1>3
<1>5. /\ list'[l] = [list[l] EXCEPT ![i].data = v]
      /\ \A x \in Lists : x # l => list'[x] = list[x]
  BY <1>1, <1>3 DEF RInv
<1>6. /\ list'[l] \in Seq(Cells) /\ Len(list'[l]) = Len(list[l])
      /\ list'[l][i].data = v
      /\ \A x \in 1 .. Len(list[l]) : x # i => list'[l][x] = list[l][x]
  <2> DEFINE c == [list[l][i] EXCEPT !.data = v]
  <2>1. list'[l] = [list[l] EXCEPT ![i] = c]
    BY <1>5
  <2>2. c \in Cells /\ c.data = v
    BY <1>4 DEF Cells
  <2> HIDE DEF c, i, l
  <2>3. QED
    BY <1>3, <1>4, <2>1, <2>2
<1>7. tree' \in [Trees -> Ids] /\ list' \in [Lists -> Seq(Cells)]
  BY <1>1, <1>5, <1>6 DEF RInv
<1>8. Blank'
  BY <1>1, <1>3, <1>5 DEF RInv, Blank, OInv, Addresses
<1>9. Others(o)
  BY <1>1, <1>5 DEF Others, RInv, OInv, Addresses
<1>10. Valid(o)'
  BY <1>1, <1>3, <1>6 DEF Valid
<1>11. Seen(o)' = Abstract!Map([Seen(o).map EXCEPT ![k] = v])
  <2>1. Seen(o).map = [j \in DOMAIN tree[t] |-> list[l][tree[t][j] + 1].data]
    BY <1>1, SeenMap DEF Cell
  <2>2. Seen(o)' = Abstract!Map([j \in DOMAIN tree[t] |-> list'[l][tree[t][j] + 1].data])
    <3>1. o \in alive' /\ root'[o] = t /\ entries'[o] = l /\ t # Null /\ tree' = tree
      BY <1>1, <1>3 DEF Usable
    <3> HIDE DEF t, l
    <3>2. QED
      BY <3>1 DEF Seen, Usable, Cell, Abstract!Map
  <2>3. \A j \in DOMAIN tree[t] :
          list'[l][tree[t][j] + 1].data = IF j = k THEN v ELSE list[l][tree[t][j] + 1].data
    <3>1. TAKE j \in DOMAIN tree[t]
    <3>2. CASE j = k
      BY <1>6, <3>2
    <3>3. CASE j # k
      <4>1. tree[t][j] # tree[t][k] /\ tree[t][j] \in Int /\ tree[t][k] \in Int
        BY <1>1, <1>3, <3>3
      <4>2. tree[t][j] + 1 # i /\ tree[t][j] + 1 \in 1 .. Len(list[l])
        BY <1>3, <4>1
      <4>3. list'[l][tree[t][j] + 1] = list[l][tree[t][j] + 1]
        BY <1>6, <4>2
      <4>4. QED
        BY <3>3, <4>3
    <3>4. QED
      BY <3>2, <3>3
  <2>4. [j \in DOMAIN tree[t] |-> list'[l][tree[t][j] + 1].data] = [Seen(o).map EXCEPT ![k] = v]
    BY <1>1, <2>1, <2>3
  <2>5. QED
    BY <2>2, <2>4
<1>12. RInv' /\ Abstract!Become(o, Abstract!Map([Seen(o).map EXCEPT ![k] = v]))
  BY <1>2, <1>7, <1>8, <1>9, <1>10, <1>11, StepOf
<1>13. Seen(o).is = "map" /\ k \in DOMAIN Seen(o).map
  BY <1>1, SeenMap
<1>14. QED
  BY <1>12, <1>13 DEF Abstract!Assign

-----------------------------------------------------------------------------
(* Copies and moves *)

\* What clone makes of a tree and its entries: the ids are new, and each leads to a copy
\* of the entry that the key had.
LEMMA ClonedFacts ==
  ASSUME RInv, NEW p, Usable(p), DOMAIN tree[root[p]] # {}, NEW l, list[l] \in Seq(Cells)
  PROVE  LET c    == Cloned(root[p], entries[p], l)
             ids  == tree[root[p]]
         IN  /\ c.tree \in Ids /\ DOMAIN c.tree = DOMAIN ids /\ c.list \in Seq(Cells)
             /\ \A k \in DOMAIN ids : /\ c.tree[k] \in 0 .. Len(c.list) - 1
                                      /\ c.list[c.tree[k] + 1] = list[entries[p]][ids[k] + 1]
             /\ \A j, k \in DOMAIN ids : c.tree[j] = c.tree[k] => j = k
<1> DEFINE ids == tree[root[p]]
           keys == DOMAIN ids
           old == list[entries[p]]
           n == Len(list[l])
           m == Cardinality(keys)
           new == [i \in 1 .. m |-> old[ids[KeyAt(keys, i - 1)] + 1]]
           c == Cloned(root[p], entries[p], l)
<1>1. /\ ids \in Ids /\ old \in Seq(Cells)
      /\ \A k \in keys : ids[k] \in 0 .. Len(old) - 1
  BY Owns
<1>2. keys \in SUBSET Keys /\ IsFiniteSet(keys) /\ keys \subseteq Int
  BY <1>1, IdsFacts
<1>3. /\ m \in Nat
      /\ \A k \in keys : Rank(keys, k) \in 0 .. m - 1 /\ KeyAt(keys, Rank(keys, k)) = k
      /\ \A r \in 0 .. m - 1 : KeyAt(keys, r) \in keys
      /\ \A j, k \in keys : Rank(keys, j) = Rank(keys, k) => j = k
  BY <1>2, Ranks
<1>4. c.tree = [k \in keys |-> n + Rank(keys, k)] /\ c.list = list[l] \o new
  BY DEF Cloned, Cell
<1>5. n \in Nat
  OBVIOUS
<1> HIDE DEF c, keys, m, n
<1>6. new \in Seq(Cells) /\ Len(new) = m
  <2>1. ASSUME NEW i \in 1 .. m PROVE old[ids[KeyAt(keys, i - 1)] + 1] \in Cells
    <3>1. i - 1 \in 0 .. m - 1
      BY <1>3
    <3>2. ids[KeyAt(keys, i - 1)] + 1 \in 1 .. Len(old)
      BY <1>1, <1>3, <3>1
    <3>3. QED
      BY <1>1, <3>2
  <2>2. new \in [1 .. m -> Cells]
    BY <2>1
  <2> HIDE DEF new
  <2>3. QED
    BY <1>3, <2>2
<1>7. c.list \in Seq(Cells) /\ Len(c.list) = n + m
  <2> HIDE DEF new, old, ids
  <2>1. c.list = list[l] \o new /\ n = Len(list[l])
    BY <1>4 DEF n
  <2>2. QED
    BY <1>6, <2>1
<1>8. ASSUME NEW k \in keys
      PROVE  /\ c.tree[k] \in 0 .. Len(c.list) - 1
             /\ c.list[c.tree[k] + 1] = old[ids[k] + 1]
  <2>1. c.tree[k] = n + Rank(keys, k) /\ Rank(keys, k) \in 0 .. m - 1
    BY <1>3, <1>4
  <2>2. new[Rank(keys, k) + 1] = old[ids[k] + 1]
    <3>1. Rank(keys, k) + 1 \in 1 .. m /\ (Rank(keys, k) + 1) - 1 = Rank(keys, k)
      BY <1>3, <2>1
    <3>2. QED
      BY <1>3, <3>1
  <2>3. c.list[n + (Rank(keys, k) + 1)] = new[Rank(keys, k) + 1]
    <3> HIDE DEF new, old, ids
    <3>1. c.list = list[l] \o new /\ n = Len(list[l])
      BY <1>4 DEF n
    <3>2. Rank(keys, k) + 1 \in 1 .. m
      BY <1>3, <2>1
    <3>3. QED
      BY <1>5, <1>6, <3>1, <3>2
  <2>4. c.tree[k] + 1 = n + (Rank(keys, k) + 1)
    BY <1>3, <1>5, <2>1
  <2>5. PICK r : r = Rank(keys, k)
    OBVIOUS
  <2>6. PICK t : t = c.tree[k]
    OBVIOUS
  <2>7. c.list[t + 1] = old[ids[k] + 1]
    BY ZenonT(60), <2>2, <2>3, <2>4, <2>6
  <2>8. t = n + r /\ r \in 0 .. m - 1
    BY ZenonT(60), <2>1, <2>5, <2>6
  <2>9. m \in Nat /\ Len(c.list) = n + m
    BY ZenonT(60), <1>3, <1>7
  <2> HIDE DEF new, old, ids
  <2>10. t \in 0 .. Len(c.list) - 1
    BY <1>5, <2>8, <2>9
  <2>11. QED
    BY ZenonT(60), <2>6, <2>7, <2>10
<1>9. c.tree \in Ids /\ DOMAIN c.tree = keys
  <2>1. c.tree \in [keys -> Nat]
    BY <1>3, <1>4, <1>5
  <2>2. QED
    BY <1>2, <2>1, IdsIn
<1>10. \A j, k \in keys : c.tree[j] = c.tree[k] => j = k
  <2>1. SUFFICES ASSUME NEW j \in keys, NEW k \in keys, c.tree[j] = c.tree[k] PROVE j = k
    OBVIOUS
  <2>2. n + Rank(keys, j) = n + Rank(keys, k)
    BY <1>4, <2>1
  <2>3. Rank(keys, j) = Rank(keys, k)
    BY <1>3, <1>5, <2>2
  <2>4. QED
    BY <1>3, <2>3
<1>11. QED
  BY <1>7, <1>8, <1>9, <1>10 DEF c, keys

\* An object without keys shows the empty map.
LEMMA EmptyShown ==
  ASSUME NEW p \in alive, root[p] # Null, tree[root[p]] = <<>>
  PROVE  Seen(p) = Abstract!Map(<<>>)
<1> DEFINE m == [k \in DOMAIN tree[root[p]] |-> Cell(entries[p], tree[root[p]][k]).data]
<1>1. Seen(p) = Abstract!Map(m)
  BY SeenIs
<1>2. DOMAIN m = {} /\ m = [k \in DOMAIN m |-> m[k]]
  BY EmptyMap
<1>3. m = <<>>
  BY <1>2, EmptyMap
<1>4. QED
  BY <1>1, <1>3

\* A copy shows what the original shows.
LEMMA CopyStep ==
  ASSUME RInv, NEW o \in Objects, NEW p \in Objects, CopyConstruct(o, p) \/ CopyAssign(o, p)
  PROVE  RInv' /\ Abstract!Copy(o, p)
<1> USE ObjectsAssumption
<1>1. PICK l \in Lists \cup {Null} :
        /\ CloneInto(o, p, l)
        /\ o # p /\ p \in alive /\ alive' = alive \cup {o}
        /\ entries'[o] = l /\ \A q \in Objects \ {o} : entries'[q] = entries[q]
        /\ lists \subseteq lists' /\ (l # Null => l \in lists') /\ (l \in lists => l = entries[o])
        /\ lists' \subseteq lists \cup ({l} \ {Null})
  <2>1. CASE CopyConstruct(o, p)
    BY <2>1 DEF CopyConstruct, RInv, OInv, Addresses
  <2>2. CASE CopyAssign(o, p)
    BY <2>2 DEF CopyAssign, RInv, OInv, Addresses, OwnedOnce
  <2>3. QED
    BY <2>1, <2>2
<1>2. OInv'
  BY CopyInv DEF RInv
<1>3. Seen(p) # Abstract!Dead
  BY <1>1 DEF Seen, Abstract!Dead
<1>4. /\ Bare(o) \subseteq {root[o]} /\ Bare(o) \subseteq trees
      /\ \A t \in Bare(o) : tree[t] = <<>>
  BY DEF Bare
<1>5. l # Null => l \in Lists /\ list[l] \in Seq(Cells)
  BY <1>1 DEF RInv
<1>6. CASE root[p] = Null
  <2>1. /\ root' = [root EXCEPT ![o] = Null] /\ trees' = trees \ Bare(o)
        /\ tree' = tree /\ list' = list
    BY <1>1, <1>6 DEF CloneInto
  <2>2. root'[o] = Null /\ \A q \in Objects \ {o} : root'[q] = root[q]
    BY <2>1 DEF RInv, OInv, Addresses
  <2>3. Others(o)
    BY <1>1, <2>1, <2>2 DEF Others
  <2>4. Blank'
    BY <1>1, <1>4, <2>1 DEF RInv, Blank
  <2>5. Seen(o)' = Seen(p)
    <3>1. Seen(p) = Abstract!Moved
      BY <1>1, <1>6, SeenIs
    <3>2. Seen(o)' = Abstract!Moved
      BY <1>1, <2>2 DEF Seen, Usable, Abstract!Moved
    <3>3. QED
      BY <3>1, <3>2
  <2>6. tree' \in [Trees -> Ids] /\ list' \in [Lists -> Seq(Cells)]
    BY <2>1 DEF RInv
  <2>7. RInv' /\ Abstract!Become(o, Seen(p))
    BY <1>2, <2>2, <2>3, <2>4, <2>5, <2>6, StepOf
  <2>8. QED
    BY <1>3, <2>7 DEF Abstract!Copy
<1>7. CASE root[p] # Null /\ tree[root[p]] # <<>>
  <2> DEFINE c == Cloned(root[p], entries[p], l)
             ids == tree[root[p]]
  <2>1. PICK t \in Trees \ trees :
          /\ root' = [root EXCEPT ![o] = t] /\ trees' = (trees \cup {t}) \ Bare(o)
          /\ tree' = [tree EXCEPT ![t] = c.tree] /\ list' = [list EXCEPT ![l] = c.list]
          /\ l # Null
    BY <1>1, <1>7 DEF CloneInto, CloneKeys
  <2>2. Usable(p) /\ DOMAIN ids # {}
    <3>1. root[p] \in Trees
      BY <1>1, <1>7 DEF RInv, OInv, OwnedOnce, Addresses
    <3>2. ids \in Ids
      BY <3>1 DEF RInv
    <3>3. ids = [k \in DOMAIN ids |-> ids[k]]
      BY <3>2, IdsFacts
    <3>4. QED
      BY <1>1, <1>7, <3>3, EmptyMap DEF Usable
  <2>3. /\ c.tree \in Ids /\ DOMAIN c.tree = DOMAIN ids /\ c.list \in Seq(Cells)
        /\ \A k \in DOMAIN ids : /\ c.tree[k] \in 0 .. Len(c.list) - 1
                                 /\ c.list[c.tree[k] + 1] = list[entries[p]][ids[k] + 1]
        /\ \A j, k \in DOMAIN ids : c.tree[j] = c.tree[k] => j = k
    BY <1>5, <2>1, <2>2, ClonedFacts
  <2> HIDE DEF c
  <2>4. /\ root'[o] = t /\ t # Null /\ \A q \in Objects \ {o} : root'[q] = root[q]
        /\ tree'[t] = c.tree /\ \A x \in Trees : x # t => tree'[x] = tree[x]
        /\ list'[l] = c.list /\ \A x \in Lists : x # l => list'[x] = list[x]
    BY <1>5, <2>1 DEF RInv, OInv, Addresses
  <2>5. Others(o)
    BY <1>1, <2>1, <2>4 DEF Others, RInv, OInv, Addresses
  <2>6. Blank'
    BY <1>1, <1>4, <2>1, <2>4 DEF RInv, Blank
  <2>7. Valid(o)'
    BY <1>1, <1>5, <2>1, <2>3, <2>4 DEF Valid
  <2>8. tree' \in [Trees -> Ids] /\ list' \in [Lists -> Seq(Cells)]
    BY <2>1, <2>3 DEF RInv
  <2>9. Seen(o)' = Seen(p)
    <3>1. Seen(p) = Abstract!Map([k \in DOMAIN ids |-> list[entries[p]][ids[k] + 1].data])
      BY <1>1, <1>7, SeenIs DEF Cell
    <3>2. o \in alive' /\ entries'[o] = l
      BY <1>1
    <3>3. Seen(o)' = Abstract!Map([k \in DOMAIN tree'[t] |-> list'[l][tree'[t][k] + 1].data])
      BY <2>4, <3>2 DEF Seen, Usable, Cell, Abstract!Map
    <3>4. [k \in DOMAIN tree'[t] |-> list'[l][tree'[t][k] + 1].data] =
            [k \in DOMAIN ids |-> list[entries[p]][ids[k] + 1].data]
      BY <2>3, <2>4
    <3>5. QED
      BY <3>1, <3>3, <3>4
  <2>10. RInv' /\ Abstract!Become(o, Seen(p))
    BY <1>2, <2>5, <2>6, <2>7, <2>8, <2>9, StepOf
  <2>11. QED
    BY <1>3, <2>10 DEF Abstract!Copy
<1>8. CASE root[p] # Null /\ tree[root[p]] = <<>>
  <2>1. PICK t \in Trees \ trees : root' = [root EXCEPT ![o] = t] /\ trees' = (trees \cup {t}) \ Bare(o)
    BY <1>1, <1>8 DEF CloneInto
  <2>2. tree' = tree /\ list' = list
    BY <1>1, <1>8 DEF CloneInto, CloneKeys
  <2>3. root'[o] = t /\ t # Null /\ \A q \in Objects \ {o} : root'[q] = root[q]
    BY <2>1 DEF RInv, OInv, Addresses
  <2>4. Others(o)
    BY <1>1, <2>2, <2>3 DEF Others
  <2>5. tree'[t] = <<>>
    BY <2>1, <2>2 DEF RInv, Blank
  <2>6. Blank'
    BY <1>1, <1>4, <2>1, <2>2 DEF RInv, Blank
  <2>7. Valid(o)'
    BY <2>3, <2>5, EmptyMap DEF Valid
  <2>8. tree' \in [Trees -> Ids] /\ list' \in [Lists -> Seq(Cells)]
    BY <2>2 DEF RInv
  <2>9. Seen(o)' = Seen(p)
    <3>1. Seen(p) = Abstract!Map(<<>>)
      BY <1>1, <1>8, EmptyShown
    <3>2. Seen(o)' = Abstract!Map(<<>>)
      BY <1>1, <2>3, <2>5, EmptyMap, ShownEmpty
    <3>3. QED
      BY <3>1, <3>2
  <2>10. RInv' /\ Abstract!Become(o, Seen(p))
    BY <1>2, <2>4, <2>6, <2>7, <2>8, <2>9, StepOf
  <2>11. QED
    BY <1>3, <2>10 DEF Abstract!Copy
<1>9. QED
  BY <1>6, <1>7, <1>8

\* A move takes a map from one object to another, and the one it was taken from is
\* moved from.
LEMMA MoveStep ==
  ASSUME RInv, NEW o \in Objects, NEW p \in Objects, MoveConstruct(o, p) \/ MoveAssign(o, p)
  PROVE  RInv' /\ Abstract!Move(o, p)
<1> USE ObjectsAssumption
<1>1. /\ o # p /\ p \in alive /\ alive' = alive \cup {o} /\ tree' = tree
      /\ root'[o] = root[p] /\ root'[p] = Null
      /\ entries'[o] = entries[p] /\ entries'[p] = Null
      /\ \A q \in Objects \ {o, p} : root'[q] = root[q] /\ entries'[q] = entries[q]
  BY DEF MoveConstruct, MoveAssign, TakeOver, RInv, OInv, Addresses
<1>2. /\ \A t \in Trees : t \in trees \ trees' => tree[t] = <<>>
      /\ trees' \subseteq trees
  BY DEF MoveConstruct, MoveAssign, Bare
<1>3. /\ lists' = lists \ {entries[o]} /\ list' \in [Lists -> Seq(Cells)]
      /\ \A l \in Lists : list'[l] = IF l = entries[o] THEN <<>> ELSE list[l]
  <2>1. CASE MoveConstruct(o, p)
    <3>1. entries[o] = Null /\ lists' = lists /\ list' = list /\ lists \subseteq Lists
      BY <2>1 DEF MoveConstruct, RInv, OInv, DeadOwnNothing, Addresses
    <3>2. QED
      BY <3>1 DEF RInv
  <2>2. CASE MoveAssign(o, p)
    <3>1. lists' = lists \ {entries[o]} /\ list' = DeadLists({entries[o]})
      BY <2>2 DEF MoveAssign
    <3>2. <<>> \in Seq(Cells)
      OBVIOUS
    <3>3. QED
      BY <3>1, <3>2 DEF DeadLists, RInv
  <2>3. QED
    BY <2>1, <2>2
<1>4. OInv'
  BY MoveInv DEF RInv
<1>5. Blank'
  BY <1>1, <1>2, <1>3 DEF RInv, Blank
<1>6. ASSUME NEW q \in alive, q # o, root[q] # Null
      PROVE  tree[root[q]] = <<>> \/ list'[entries[q]] = list[entries[q]]
  <2>1. /\ entries[q] = Null => tree[root[q]] = <<>>
        /\ entries[q] # Null => entries[q] # entries[o] /\ entries[q] \in Lists
    BY <1>6, Apart
  <2>2. QED
    BY <1>3, <2>1
<1>7. IdsValid'
  <2>1. SUFFICES ASSUME NEW q \in alive', root'[q] # Null PROVE Valid(q)'
    BY DEF IdsValid
  <2> DEFINE r == IF q = o THEN p ELSE q
  <2>2. /\ r \in alive /\ r # o /\ root'[q] = root[r] /\ entries'[q] = entries[r] /\ root[r] # Null
    BY <1>1, <2>1 DEF RInv, OInv, Addresses
  <2> HIDE DEF r
  <2>3. Valid(r) /\ (tree[root[r]] = <<>> \/ list'[entries[r]] = list[entries[r]])
    BY <1>6, <2>2 DEF RInv, IdsValid
  <2>4. QED
    BY <1>1, <2>2, <2>3, EmptyMap DEF Valid
<1>8. RInv'
  BY <1>1, <1>3, <1>4, <1>5, <1>7 DEF RInv
<1>9. Seen(o)' = Seen(p)
  <2>1. CASE root[p] = Null
    <3>1. Seen(p) = Abstract!Moved
      BY <1>1, <2>1, SeenIs
    <3>2. Seen(o)' = Abstract!Moved
      BY <1>1, <2>1 DEF Seen, Usable, Abstract!Moved
    <3>3. QED
      BY <3>1, <3>2
  <2>2. CASE root[p] # Null /\ tree[root[p]] # <<>>
    <3>1. Seen(p) = Abstract!Map([k \in DOMAIN tree[root[p]] |->
                                    list[entries[p]][tree[root[p]][k] + 1].data])
      BY <1>1, <2>2, SeenIs DEF Cell
    <3>2. list'[entries[p]] = list[entries[p]] /\ o \in alive'
      BY <1>1, <1>6, <2>2
    <3>3. Seen(o)' = Abstract!Map([k \in DOMAIN tree[root[p]] |->
                                     list'[entries[p]][tree[root[p]][k] + 1].data])
      BY <1>1, <2>2, <3>2 DEF Seen, Usable, Cell, Abstract!Map
    <3>4. QED
      BY <3>1, <3>2, <3>3
  <2>3. CASE root[p] # Null /\ tree[root[p]] = <<>>
    <3>1. Seen(p) = Abstract!Map(<<>>)
      BY <1>1, <2>3, EmptyShown
    <3>2. Seen(o)' = Abstract!Map(<<>>)
      BY <1>1, <2>3, EmptyMap, ShownEmpty
    <3>3. QED
      BY <3>1, <3>2
  <2>4. QED
    BY <2>1, <2>2, <2>3
<1>10. Seen(p)' = Abstract!Moved
  BY <1>1 DEF Seen, Usable, Abstract!Moved
<1>11. ASSUME NEW q \in Objects \ {o, p} PROVE Seen(q)' = Seen(q)
  <2>1. /\ q \in alive <=> q \in alive'
        /\ root'[q] = root[q] /\ entries'[q] = entries[q] /\ tree' = tree
    BY <1>1
  <2>2. q \in alive /\ root[q] # Null =>
          tree[root[q]] = <<>> \/ list'[entries[q]] = list[entries[q]]
    BY <1>6
  <2>3. QED
    BY <2>1, <2>2, SeenSame
<1>12. Shown' = [Shown EXCEPT ![o] = Shown[p], ![p] = Abstract!Moved]
  BY <1>1, <1>9, <1>10, <1>11 DEF Shown
<1>13. Seen(p) # Abstract!Dead
  BY <1>1 DEF Seen, Abstract!Dead
<1>14. QED
  BY <1>1, <1>8, <1>12, <1>13 DEF Abstract!Move, Shown

\* At first all objects are dead.
LEMMA InitStep == OInit => RInv /\ Abstract!OInit
<1>1. SUFFICES ASSUME OInit PROVE RInv /\ Abstract!OInit
  OBVIOUS
<1>2. OInv
  BY <1>1, OInitInv
<1>3. tree \in [Trees -> Ids] /\ list \in [Lists -> Seq(Cells)]
  BY <1>1, EmptyMap DEF OInit
<1>4. Blank /\ IdsValid
  BY <1>1 DEF OInit, Blank, IdsValid
<1>5. \A o \in Objects : Seen(o) = Abstract!Dead
  BY <1>1, SeenIs DEF OInit
<1>6. QED
  BY <1>1, <1>2, <1>3, <1>4, <1>5 DEF RInv, Abstract!OInit

\* What a step shows of the objects, each operation what it promises.
OperationsOnMaps ==
  \A o \in Objects :
    /\ Construct(o) => Abstract!Create(o)
    /\ Destruct(o) => Abstract!Destruct(o)
    /\ \A k \in Keys : /\ Insert(o, k) => Abstract!Insert(o, k)
                      /\ Erase(o, k) => Abstract!Erase(o, k)
                      /\ \A v \in Values : Assign(o, k, v) => Abstract!Assign(o, k, v)
    /\ \A p \in Objects :
         /\ CopyConstruct(o, p) \/ CopyAssign(o, p) => Abstract!Copy(o, p)
         /\ MoveConstruct(o, p) \/ MoveAssign(o, p) => Abstract!Move(o, p)

\* Every step keeps the invariant.
LEMMA NextStep ==
  RInv /\ [ONext]_ovars => RInv'
<1>1. SUFFICES ASSUME RInv, [ONext]_ovars PROVE RInv'
  OBVIOUS
<1>2. CASE ONext
  BY <1>1, <1>2, ConstructStep, DestructStep, InsertStep, EraseStep, AssignStep, CopyStep, MoveStep
  DEF ONext
<1>3. CASE UNCHANGED ovars
  BY <1>1, <1>3 DEF ovars, RInv, OInv, Addresses, DeadOwnNothing, OwnedOnce, Blank, IdsValid, Valid
<1>4. QED
  BY <1>1, <1>2, <1>3

\* PTrieObjects implements ObjectMaps, operation by operation: whatever is copied, moved,
\* assigned and destroyed in whatever order, each object stays a map of its own, and a copy
\* shows the values of the original although clone has given its keys new ids.
THEOREM MapsOfTheirOwn == OSpec => ImplementsObjectMaps
<1>1. RInv => OperationsOnMaps
  BY ConstructStep, DestructStep, InsertStep, EraseStep, AssignStep, CopyStep, MoveStep
  DEF OperationsOnMaps
<1>2. ImplementsObjectMaps <=> Abstract!OInit /\ [][OperationsOnMaps]_ovars
  BY DEF ImplementsObjectMaps, OperationsOnMaps
<1>3. QED
  BY <1>1, <1>2, InitStep, NextStep, PTL DEF OSpec

=============================================================================
