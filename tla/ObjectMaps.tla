----------------------------- MODULE ObjectMaps -----------------------------
(***************************************************************************)
(* What copying and moving ptrie::map objects promises: each object is a   *)
(* map of its own.  A copy has the keys and values of the original at that *)
(* time and from then on goes its own way; a move takes them along.        *)
(***************************************************************************)
EXTENDS Naturals, Functions

CONSTANTS Objects, Keys, Values, Default
VARIABLE object   \* is: "dead", "map", or "moved" from; and a partial function

Dead == [is |-> "dead", map |-> <<>>]
Moved == [is |-> "moved", map |-> <<>>]
Map(m) == [is |-> "map", map |-> m]

\* f with v at k, which may be new.
With(f, k, v) == [j \in DOMAIN f \cup {k} |-> IF j = k THEN v ELSE f[j]]

OInit == object = [o \in Objects |-> Dead]

Become(o, x) == object' = [object EXCEPT ![o] = x]

Create(o) == object[o] = Dead /\ Become(o, Map(<<>>))

Destruct(o) == Become(o, Dead)

Insert(o, k) ==
  LET m == object[o].map
  IN  object[o].is = "map" /\ k \notin DOMAIN m /\ Become(o, Map(With(m, k, Default)))

Erase(o, k) ==
  LET m == object[o].map
  IN  object[o].is = "map" /\ k \in DOMAIN m /\ Become(o, Map(Restrict(m, DOMAIN m \ {k})))

Assign(o, k, v) ==
  LET m == object[o].map
  IN  object[o].is = "map" /\ k \in DOMAIN m /\ Become(o, Map([m EXCEPT ![k] = v]))

\* Construction or assignment; a copy of a moved-from object is like it.
Copy(o, p) == object[p] # Dead /\ Become(o, object[p])

Move(o, p) ==
  o # p /\ object[p] # Dead /\ object' = [object EXCEPT ![o] = object[p], ![p] = Moved]

ONext ==
  \E o \in Objects :
    \/ Create(o) \/ Destruct(o)
    \/ \E k \in Keys : Insert(o, k) \/ Erase(o, k) \/ \E v \in Values : Assign(o, k, v)
    \/ \E p \in Objects : Copy(o, p) \/ Move(o, p)

OSpec == OInit /\ [][ONext]_object

=============================================================================
