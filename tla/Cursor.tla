------------------------------- MODULE Cursor -------------------------------
(***************************************************************************)
(* What the iterators of ptrie::set, set_stable and map promise: a cursor  *)
(* over the keys of the set in order, with a place in front of the first   *)
(* and one behind the last.  A change of the set ends the cursor's life.   *)
(***************************************************************************)
CONSTANTS Less(_, _),         \* the order of the keys
          NoCursor, AtFront, AtBack
VARIABLES set,                \* the keys
          cursor              \* one of them, AtFront, AtBack or NoCursor

\* The least key and the greatest key of S; b or e when there is none.
LeastOf(S, e) == IF S = {} THEN e ELSE CHOOSE k \in S : \A j \in S \ {k} : Less(k, j)
GreatestOf(S, b) == IF S = {} THEN b ELSE CHOOSE k \in S : \A j \in S \ {k} : Less(j, k)

After(c) == CASE c = AtFront -> LeastOf(set, AtBack)
              [] c = AtBack -> AtBack
              [] OTHER -> LeastOf({k \in set : Less(c, k)}, AtBack)

Before(c) == CASE c = AtBack -> GreatestOf(set, AtFront)
               [] c = AtFront -> AtFront
               [] OTHER -> GreatestOf({k \in set : Less(k, c)}, AtFront)

CInit == set = {} /\ cursor = NoCursor

\* begin() starts out in front of the first key and advances; end() is AtBack.
Obtain(c) == cursor = NoCursor /\ cursor' = c /\ UNCHANGED set

Advance == cursor # NoCursor /\ cursor' = After(cursor) /\ UNCHANGED set

Retreat == cursor # NoCursor /\ cursor' = Before(cursor) /\ UNCHANGED set

Change == cursor' = NoCursor

CNext == Obtain(AtFront) \/ Obtain(AtBack) \/ Advance \/ Retreat \/ Change

CSpec == CInit /\ [][CNext]_<<set, cursor>>

=============================================================================
