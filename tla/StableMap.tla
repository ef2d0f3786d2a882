----------------------------- MODULE StableMap -----------------------------
(***************************************************************************)
(* What ptrie::set_stable and ptrie::map promise: a key gets an id when it *)
(* is inserted and keeps it until it is erased, whatever else comes and    *)
(* goes; no id is given out twice; and a value is kept under each id.      *)
(***************************************************************************)
EXTENDS Naturals, Sequences

CONSTANTS Keys, Values, Default
VARIABLES ids,   \* from the keys in the map to their ids
          data   \* the value of each id ever given out, id 0 first

\* The ids f, and id i for the key k; the ids f but for that of k.
With(f, k, i) == [j \in {k} \cup DOMAIN f |-> IF j = k THEN i ELSE f[j]]

Without(f, k) == [j \in DOMAIN f \ {k} |-> f[j]]

MInit == ids = <<>> /\ data = <<>>

\* The next id is for k, and is nobody else's.
Insert(k) ==
  /\ k \notin DOMAIN ids
  /\ ids' = With(ids, k, Len(data))
  /\ data' = Append(data, Default)

Erase(k) ==
  /\ k \in DOMAIN ids
  /\ ids' = Without(ids, k)
  /\ UNCHANGED data

Write(k, v) ==
  /\ k \in DOMAIN ids
  /\ data' = [data EXCEPT ![ids[k] + 1] = v]
  /\ UNCHANGED ids

Renew == data' = <<>> /\ ids' = <<>>

MNext == Renew \/ \E k \in Keys : Insert(k) \/ Erase(k) \/ \E v \in Values : Write(k, v)

MSpec == MInit /\ [][MNext]_<<ids, data>>

=============================================================================
