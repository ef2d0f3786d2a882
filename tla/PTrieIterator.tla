--------------------------- MODULE PTrieIterator ---------------------------
(***************************************************************************)
(* iterator_base: a client of the trie that holds a node and an index and  *)
(* moves over the tree by ++ and --.  Each is a recursion, one step per    *)
(* call, while the trie stays as it is; a change of the trie ends it.      *)
(***************************************************************************)
EXTENDS PTrieUnpack

VARIABLES it,    \* _node and _index
          walk,  \* "none", or where the client is: "rest", or inside a ++ or --
          from   \* where the ++ or -- began

ivars == <<it, walk, from>>

At(x, i) == [node |-> x, index |-> i]

\* The 255 of the code, and the index of its end().
Last255 == Base - 1

End == At(Root, Last255 + 1)

Nowhere == At(Root, 0)

Resting == walk \in {"none", "rest"}

\* Indexes of the children of f that are c.
IndexesOf(f, c) == {i \in DOMAIN SlotAt : Child(f, i) = c}

\* Mutant: empty slots are not passed over.
FilledAll(f) == DOMAIN SlotAt

\* Indexes of the children of f that lead to a key.
Filled(f) == DOMAIN SlotAt \ IndexesOf(f, f)

\* Mutant: the search for the next child starts one too far.
FirstFrom1(f, i) == Min({j \in Filled(f) : j > i} \cup {Last255 + 1})

\* The loops over _children in move, up and down: where they stop.
FirstFrom(f, i) == Min({j \in Filled(f) : j >= i} \cup {Last255 + 1})

LastUpTo(f, i) == Max({j \in Filled(f) : j <= i} \cup {-1})

\* move reads _children at and above WIDTH: its loops take 255 for the last index.
Overruns ==
  LET x == it.node
  IN  /\ Last255 \notin DOMAIN SlotAt
      /\ \/ /\ walk = "forward" /\ x \in FwdIds
            /\ it.index <= Last255 /\ FirstFrom(x, it.index) > Last255
         \/ walk = "forward" /\ x \in NodeIds /\ it.index + 1 >= Len(node[x].items)
         \/ walk = "backward" /\ x \in FwdIds /\ it.index >= Last255

\* The place behind, or in front of, all slots of child c of f.
Behind(f, c) == At(f, Max(IndexesOf(f, c)) + 1)
InFront(f, c) == At(f, Min(IndexesOf(f, c)) - 1)

\* One call of ++: it ends on an item or behind the last one, or calls itself.
Forward ==
  /\ walk = "forward" /\ ~ Overruns
  /\ LET x == it.node
         i == FirstFrom(x, IF it.index < 0 THEN 0 ELSE it.index)
     IN  \/ /\ x \in FwdIds /\ i > Last255 /\ fwd[x].parent = Null
            /\ it' = At(x, i) /\ walk' = "rest"
         \/ /\ x \in FwdIds /\ i > Last255 /\ fwd[x].parent # Null
            /\ it' = Behind(fwd[x].parent, x) /\ UNCHANGED walk
         \/ /\ x \in FwdIds /\ i <= Last255
            /\ it' = At(Child(x, i), 0)
            /\ walk' = IF Child(x, i) \in NodeIds THEN "rest" ELSE walk
         \/ /\ x \in NodeIds /\ it.index + 1 < Len(node[x].items)
            /\ it' = At(x, it.index + 1) /\ walk' = "rest"
         \/ /\ x \in NodeIds /\ it.index + 1 >= Len(node[x].items)
            /\ it' = Behind(node[x].parent, x) /\ UNCHANGED walk
  /\ UNCHANGED <<vars, from>>

\* One call of --.
Backward ==
  /\ walk = "backward" /\ ~ Overruns
  /\ LET x == it.node
         i == LastUpTo(x, IF it.index > Last255 THEN Last255 ELSE it.index)
     IN  \/ /\ x \in FwdIds /\ i < 0 /\ fwd[x].parent = Null
            /\ it' = At(x, i) /\ walk' = "rest"
         \/ /\ x \in FwdIds /\ i < 0 /\ fwd[x].parent # Null
            /\ it' = InFront(fwd[x].parent, x) /\ UNCHANGED walk
         \/ /\ x \in FwdIds /\ i >= 0 /\ Child(x, i) \in FwdIds
            /\ it' = At(Child(x, i), Last255) /\ UNCHANGED walk
         \/ /\ x \in FwdIds /\ i >= 0 /\ Child(x, i) \in NodeIds
            /\ it' = At(Child(x, i), Len(node[Child(x, i)].items) - 1) /\ walk' = "rest"
         \/ /\ x \in NodeIds /\ it.index - 1 >= 0
            /\ it' = At(x, it.index - 1) /\ walk' = "rest"
         \/ /\ x \in NodeIds /\ it.index - 1 < 0
            /\ it' = InFront(node[x].parent, x) /\ UNCHANGED walk
  /\ UNCHANGED <<vars, from>>

\* begin(): ++ on the place in front of all children of the root.
BeginIt ==
  /\ stack = <<>> /\ ~ fault /\ walk = "none"
  /\ it' = Nowhere /\ walk' = "forward" /\ from' = Nowhere
  /\ UNCHANGED vars

EndIt ==
  /\ stack = <<>> /\ ~ fault /\ walk = "none"
  /\ it' = End /\ walk' = "rest" /\ from' = Nowhere
  /\ UNCHANGED vars

\* ++ and --.  (The index is adjusted by each call of the recursion; see above.)
Increment == walk = "rest" /\ walk' = "forward" /\ from' = it /\ UNCHANGED <<vars, it>>

Decrement == walk = "rest" /\ walk' = "backward" /\ from' = it /\ UNCHANGED <<vars, it>>

\* Mutant: one of the two at the end is enough.
EqualEither(x, y) ==
  IF x.node \in NodeIds THEN x = y
  ELSE (x.index <= 0 /\ y.index <= 0) \/ x.index >= Last255 \/ y.index >= Last255

\* operator==, which looks at the kind of the left operand's node only.
Equal(x, y) ==
  IF x.node \in NodeIds THEN x = y
  ELSE (x.index <= 0 /\ y.index <= 0) \/ (x.index >= Last255 /\ y.index >= Last255)

IInit == Init /\ it = Nowhere /\ walk = "none" /\ from = Nowhere

\* An operation on the trie, after which the client does not use the iterator.
Operate == Resting /\ Next /\ it' = Nowhere /\ walk' = "none" /\ from' = Nowhere

INext == BeginIt \/ EndIt \/ Increment \/ Decrement \/ Forward \/ Backward \/ Operate

ISpec == IInit /\ [][INext]_<<vars, ivars>>

\* A ++ or -- that has begun runs on.
FairISpec == ISpec /\ WF_<<vars, ivars>>(Forward \/ Backward)

-----------------------------------------------------------------------------
(* Properties *)

\* While the client rests, comparing its iterator with end(), from either side, says
\* whether it is at the end: a loop from begin() to end() stops there and not before.
EqualityExact ==
  walk = "rest" => (Equal(it, End) <=> it = End) /\ (Equal(End, it) <=> it = End)

\* Every ++, -- and begin() comes to rest: the recursion does not go up and down the
\* same branch for ever.
WalkEnds == []<> Resting

\* Shorter keys first, keys of the same length from their first byte on.
KeyLess(k, l) ==
  \/ Len(k) < Len(l)
  \/ Len(k) = Len(l) /\ \E i \in DOMAIN k : k[i] < l[i] /\ \A j \in 1 .. i - 1 : k[j] = l[j]

\* Tuples that are no keys.
NoCursor == <<-1>>
AtFront == <<-2>>
AtBack == <<-3>>

\* What the client's iterator stands for: the key that unpack() of it returns, or one of
\* the ends.  (operator* is that for keys of one element only: it has room for one.)
Place ==
  LET at == IF walk = "rest" THEN it ELSE from
  IN  CASE walk = "none" -> NoCursor
        [] at.node \in NodeIds -> Unpack(at.node, at.index + 1)
        [] OTHER -> IF at.index > Last255 THEN AtBack ELSE AtFront

Abstract == INSTANCE Cursor WITH set <- Contents, cursor <- Place, Less <- KeyLess

\* begin() and ++ end at the next key in order and -- at the previous one, over all
\* forwarding nodes and buckets, each inner call leaves the client where it was, and
\* unpack() returns the key of the place.
ImplementsCursor ==
  /\ Abstract!CInit
  /\ [][/\ BeginIt => Abstract!Obtain(AtFront)
        /\ EndIt => Abstract!Obtain(AtBack)
        /\ Increment \/ Decrement => UNCHANGED <<Contents, Place>>
        /\ Forward => IF Resting' THEN Abstract!Advance ELSE UNCHANGED <<Contents, Place>>
        /\ Backward => IF Resting' THEN Abstract!Retreat ELSE UNCHANGED <<Contents, Place>>
        /\ Operate => Abstract!Change]_<<vars, ivars>>

\* What the notes on the architecture say of iteration, that it is byte-lexicographic:
\* a ++ from one key ends at a key that is larger in the order of strings.  (The length
\* comes first in the encoding, so that a shorter key comes before a smaller one.)
IterationLexicographic ==
  [][Forward /\ Resting' /\ {Place, Place'} \subseteq Keys => BytesLess(Place, Place')]_<<vars, ivars>>

=============================================================================
