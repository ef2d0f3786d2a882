-------------------------- MODULE LinkedBucketSize --------------------------
(***************************************************************************)
(* size() of linked_bucket_t, called while other threads are inside next   *)
(* and pop_back: a loop along the chain that reads one _count, which is    *)
(* not atomic, and then one _nbucket.  What it may answer is said with two *)
(* auxiliary variables, the ids in use throughout a call and those in use  *)
(* at any time during it.                                                  *)
(***************************************************************************)
EXTENDS LinkedBucket

CONSTANT Readers     \* the callers of size

VARIABLES spc,       \* where each of them is in size
          sn,        \* its locals n and cnt
          cnt,
          since,     \* the ids in use since its call began
          seen       \* the ids in use at some time since

calls == <<spc, sn, cnt>>
watch == <<since, seen>>
svars == <<vars, calls, watch>>

Outside(r) == spc[r] = "idle"

\* The call begins.
Start(r) ==
  /\ Outside(r)
  /\ spc' = [spc EXCEPT ![r] = "count"]
  /\ sn' = [sn EXCEPT ![r] = Begin]
  /\ cnt' = [cnt EXCEPT ![r] = 0]
  /\ since' = [since EXCEPT ![r] = live]
  /\ seen' = [seen EXCEPT ![r] = live]

\* It reads _count of its bucket: the value before or after a ++ or -- of the owner.
ReadCount(r) ==
  /\ spc[r] = "count"
  /\ cnt' = [cnt EXCEPT ![r] = @ + count[sn[r]]]
  /\ spc' = [spc EXCEPT ![r] = "follow"]
  /\ UNCHANGED <<sn, watch>>

\* It loads _nbucket and goes on there.
Follow(r) ==
  /\ spc[r] = "follow" /\ nbucket[sn[r]] # Null
  /\ sn' = [sn EXCEPT ![r] = nbucket[sn[r]]]
  /\ spc' = [spc EXCEPT ![r] = "count"]
  /\ UNCHANGED <<cnt, watch>>

\* It loads nullptr, and returns cnt.
Finish(r) ==
  /\ spc[r] = "follow" /\ nbucket[sn[r]] = Null
  /\ spc' = [spc EXCEPT ![r] = "idle"]
  /\ sn' = [sn EXCEPT ![r] = Begin]
  /\ cnt' = [cnt EXCEPT ![r] = 0]
  /\ since' = [since EXCEPT ![r] = {}]
  /\ seen' = [seen EXCEPT ![r] = {}]

\* What a step of the list does to the ids that calls of size have seen.
Watch ==
  /\ since' = [r \in Readers |-> since[r] \cap live']
  /\ seen' = [r \in Readers |-> IF Outside(r) THEN {} ELSE seen[r] \cup live']

SizeInit ==
  /\ Init
  /\ spc = [r \in Readers |-> "idle"]
  /\ sn = [r \in Readers |-> Begin]
  /\ cnt = [r \in Readers |-> 0]
  /\ since = [r \in Readers |-> {}]
  /\ seen = [r \in Readers |-> {}]

\* The list is not destroyed while size is called.
ListStep ==
  /\ Next /\ Watch
  /\ Renew => \A r \in Readers : Outside(r)
  /\ UNCHANGED calls

SizeNext ==
  \/ ListStep
  \/ (\E r \in Readers : Start(r) \/ ReadCount(r) \/ Follow(r) \/ Finish(r)) /\ UNCHANGED vars

SizeSpec == SizeInit /\ [][SizeNext]_svars

\* As FairSpec of LinkedBucket; nothing waits for size.
FairSizeSpec == SizeSpec /\ \A t \in Threads : WF_vars(Continue(t))

-----------------------------------------------------------------------------
(* Properties *)

\* The answer of size counts every id that was in use during the whole call and none that
\* was not in use at any time of it, however ids are taken, given back and buckets linked
\* meanwhile: it is the number of ids in use when these do not change.
SizeBetween ==
  [][\A r \in Readers :
       Finish(r) => Cardinality(since[r]) <= cnt[r] /\ cnt[r] <= Cardinality(seen[r])]_svars

=============================================================================
