------------------------------ MODULE GenericHash ------------------------------
(***************************************************************************)
(* The hash container of flows, hosts and aggregations, at the grain of    *)
(* its locks.  Every bucket has a mutex; the number of entries is one      *)
(* plain counter for all buckets, tested before any lock is taken and      *)
(* moved with a load and a store under the lock of one bucket only.        *)
(*                                                                         *)
(* A bucket is the set of its linked entries and a traversal keeps the set *)
(* of entries it has still to visit, so the order of a list is left out.   *)
(* The threads are the capture thread (adds and sweeps), the user          *)
(* interface (restores, walks, looks up) and the housekeeping (walks).     *)
(***************************************************************************)
EXTENDS Integers, FiniteSets

CONSTANTS
  Thread, NoThread,
  Entry, NoEntry,         \* heap objects
  NumHashes, PurgeFraction,
  MaxHashSize,
  SizeMod,                \* 2^32, the range of current_size
  BucketOf,               \* key() % num_hashes of each object
  Adders, Sweepers, Walkers, Finders   \* which threads do what

Bucket == 0..(NumHashes - 1)

ASSUME ThreadAssumption ==
  /\ NoThread \notin Thread
  /\ Adders \cup Sweepers \cup Walkers \cup Finders \subseteq Thread
ASSUME EntryAssumption == NoEntry \notin Entry /\ BucketOf \in [Entry -> Bucket]
ASSUME SizeAssumption ==
  /\ NumHashes \in Nat \ {0} /\ PurgeFraction \in Nat \ {0}
  /\ MaxHashSize \in Nat /\ SizeMod \in Nat \ {0}

VARIABLES
  table,         \* the entries linked in each bucket
  size,          \* current_size
  lock,          \* the holder of each bucket's mutex
  live,          \* allocated objects
  idle,          \* those whose idle() is true now
  lastPurged,    \* last_purged_hash
  shutdown,      \* NtopGlobals::is_shutdown
  pc,            \* what each thread is about to do
  bucket, todo,  \* the bucket it is in, the entries it has still to visit
  mine,          \* the entry it adds, frees or has looked up
  loaded,        \* the value of current_size it has read
  left           \* buckets its sweep has still to do

shared == <<table, size, lock, live, idle, lastPurged, shutdown>>
local == <<pc, bucket, todo, mine, loaded, left>>
vars == <<shared, local>>

UnderLock == {"link", "count_add", "sweep", "count_sweep", "walk", "find"}
AtLock == {"lock_add", "lock_sweep", "lock_walk", "lock_find"}
Stages == UnderLock \cup AtLock \cup {"out", "next_sweep", "next_walk", "use"}

Set(f, t, v) == f' = [f EXCEPT ![t] = v]

\* lock() waits for the mutex; the traversal starts at the head it then reads.
Acquire(t, from, to) ==
  /\ pc[t] = from /\ lock[bucket[t]] = NoThread
  /\ Set(lock, bucket[t], t) /\ Set(pc, t, to)
  /\ Set(todo, t, IF to = "link" THEN {} ELSE table[bucket[t]])
  /\ UNCHANGED <<table, size, live, idle, lastPurged, shutdown, bucket, mine, loaded, left>>

Release(t) == lock' = [b \in Bucket |-> IF b = bucket[t] THEN NoThread ELSE lock[b]]

-------------------------------------------------------------------------------
(* add(): a table that looks full refuses, and the caller frees the object.  *)

\* Mutant: the limit itself does not stop an addition.
StartAddAtLimit(t) ==
  /\ t \in Adders /\ pc[t] = "out" /\ size <= MaxHashSize
  /\ \E e \in Entry \ live :
       /\ live' = live \cup {e} /\ Set(mine, t, e) /\ Set(bucket, t, BucketOf[e])
  /\ Set(pc, t, "lock_add")
  /\ UNCHANGED <<table, size, lock, idle, lastPurged, shutdown, todo, loaded, left>>

StartAdd(t) ==
  /\ t \in Adders /\ pc[t] = "out" /\ size < MaxHashSize
  /\ \E e \in Entry \ live :
       /\ live' = live \cup {e} /\ Set(mine, t, e) /\ Set(bucket, t, BucketOf[e])
  /\ Set(pc, t, "lock_add")
  /\ UNCHANGED <<table, size, lock, idle, lastPurged, shutdown, todo, loaded, left>>

LockForAdd(t) == Acquire(t, "lock_add", "link")

\* Mutant: the new head does not point to the rest of the list.
LinkAlone(t) ==
  /\ pc[t] = "link"
  /\ table' = [table EXCEPT ![bucket[t]] = {mine[t]}]
  /\ Set(loaded, t, size) /\ Set(pc, t, "count_add")
  /\ UNCHANGED <<size, lock, live, idle, lastPurged, shutdown, bucket, todo, mine, left>>

Link(t) ==
  /\ pc[t] = "link"
  /\ table' = [table EXCEPT ![bucket[t]] = @ \cup {mine[t]}]
  /\ Set(loaded, t, size) /\ Set(pc, t, "count_add")
  /\ UNCHANGED <<size, lock, live, idle, lastPurged, shutdown, bucket, todo, mine, left>>

CountAdd(t) ==
  /\ pc[t] = "count_add"
  /\ size' = (loaded[t] + 1) % SizeMod
  /\ Release(t) /\ Set(pc, t, "out") /\ Set(mine, t, NoEntry)
  /\ UNCHANGED <<table, live, idle, lastPurged, shutdown, bucket, todo, loaded, left>>

-------------------------------------------------------------------------------
(* purgeIdle(): the next num_hashes / PURGE_FRACTION buckets.                *)

StartSweep(t) ==
  /\ t \in Sweepers /\ pc[t] = "out" /\ ~shutdown
  /\ Set(left, t, NumHashes \div PurgeFraction) /\ Set(pc, t, "next_sweep")
  /\ UNCHANGED <<shared, bucket, todo, mine, loaded>>

\* The list is read without the lock only to see whether it is empty.
NextSweep(t) ==
  /\ pc[t] = "next_sweep" /\ left[t] > 0
  /\ LET b == (lastPurged + 1) % NumHashes
     IN /\ lastPurged' = b /\ Set(bucket, t, b)
        /\ Set(pc, t, IF table[b] = {} THEN "next_sweep" ELSE "lock_sweep")
  /\ Set(left, t, left[t] - 1)
  /\ UNCHANGED <<table, size, lock, live, idle, shutdown, todo, mine, loaded>>

EndSweep(t) ==
  /\ pc[t] = "next_sweep" /\ left[t] = 0
  /\ Set(pc, t, "out")
  /\ UNCHANGED <<shared, bucket, todo, mine, loaded, left>>

LockForSweep(t) == Acquire(t, "lock_sweep", "sweep")

\* An idle entry is unlinked, and the counter loaded ...
SweepEntry(t) ==
  /\ pc[t] = "sweep"
  /\ \E e \in todo[t] :
       /\ Set(todo, t, todo[t] \ {e})
       /\ \/ /\ e \in idle
             /\ table' = [table EXCEPT ![bucket[t]] = @ \ {e}]
             /\ Set(mine, t, e) /\ Set(loaded, t, size) /\ Set(pc, t, "count_sweep")
          \/ /\ e \notin idle
             /\ UNCHANGED <<table, mine, loaded, pc>>
  /\ UNCHANGED <<size, lock, live, idle, lastPurged, shutdown, bucket, left>>

\* Mutant: an entry is freed and not counted out.
CountSweepForgotten(t) ==
  /\ pc[t] = "count_sweep"
  /\ live' = live \ {mine[t]} /\ idle' = idle \ {mine[t]}
  /\ Set(mine, t, NoEntry) /\ Set(pc, t, "sweep")
  /\ UNCHANGED <<size, table, lock, lastPurged, shutdown, bucket, todo, loaded, left>>

\* ... then the counter is stored and the entry freed.
CountSweep(t) ==
  /\ pc[t] = "count_sweep"
  /\ size' = (loaded[t] - 1) % SizeMod
  /\ live' = live \ {mine[t]} /\ idle' = idle \ {mine[t]}
  /\ Set(mine, t, NoEntry) /\ Set(pc, t, "sweep")
  /\ UNCHANGED <<table, lock, lastPurged, shutdown, bucket, todo, loaded, left>>

UnlockSweep(t) ==
  /\ pc[t] = "sweep" /\ todo[t] = {}
  /\ Release(t) /\ Set(pc, t, "next_sweep")
  /\ UNCHANGED <<table, size, live, idle, lastPurged, shutdown, bucket, todo, mine, loaded, left>>

-------------------------------------------------------------------------------
(* walk(): every bucket in turn, until the walker has found what it wants.   *)

StartWalk(t) ==
  /\ t \in Walkers /\ pc[t] = "out" /\ ~shutdown
  /\ Set(bucket, t, 0) /\ Set(pc, t, IF table[0] = {} THEN "next_walk" ELSE "lock_walk")
  /\ UNCHANGED <<shared, todo, mine, loaded, left>>

NextWalk(t) ==
  /\ pc[t] = "next_walk"
  /\ \/ /\ bucket[t] + 1 < NumHashes
        /\ Set(bucket, t, bucket[t] + 1)
        /\ Set(pc, t, IF table[bucket[t] + 1] = {} THEN "next_walk" ELSE "lock_walk")
     \/ /\ bucket[t] + 1 = NumHashes
        /\ Set(pc, t, "out") /\ UNCHANGED bucket
  /\ UNCHANGED <<shared, todo, mine, loaded, left>>

LockForWalk(t) == Acquire(t, "lock_walk", "walk")

\* The walker is not called on an idle entry; when it returns true the walk ends.
Visit(t) ==
  /\ pc[t] = "walk"
  /\ \E e \in todo[t] :
       \/ /\ Set(todo, t, todo[t] \ {e})
          /\ UNCHANGED <<lock, pc>>
       \/ /\ e \notin idle
          /\ Release(t) /\ Set(todo, t, {}) /\ Set(pc, t, "out")
  /\ UNCHANGED <<table, size, live, idle, lastPurged, shutdown, bucket, mine, loaded, left>>

UnlockWalk(t) ==
  /\ pc[t] = "walk" /\ todo[t] = {}
  /\ Release(t) /\ Set(pc, t, "next_walk")
  /\ UNCHANGED <<table, size, live, idle, lastPurged, shutdown, bucket, todo, mine, loaded, left>>

-------------------------------------------------------------------------------
(* findByKey() and the get() of the subclasses: the entry is returned, and   *)
(* used, after the unlock.                                                   *)

StartFind(t) ==
  /\ t \in Finders /\ pc[t] = "out"
  /\ \E b \in Bucket :
       table[b] # {} /\ Set(bucket, t, b)
  /\ Set(pc, t, "lock_find")
  /\ UNCHANGED <<shared, todo, mine, loaded, left>>

LockForFind(t) == Acquire(t, "lock_find", "find")

Find(t) ==
  /\ pc[t] = "find"
  /\ Release(t) /\ Set(todo, t, {})
  /\ \/ \E e \in todo[t] \ idle : Set(mine, t, e) /\ Set(pc, t, "use")
     \/ Set(pc, t, "out") /\ UNCHANGED mine
  /\ UNCHANGED <<table, size, live, idle, lastPurged, shutdown, bucket, loaded, left>>

EndUse(t) ==
  /\ pc[t] = "use"
  /\ Set(mine, t, NoEntry) /\ Set(pc, t, "out")
  /\ UNCHANGED <<shared, bucket, todo, loaded, left>>

-------------------------------------------------------------------------------
\* Time passes and traffic comes: an entry goes idle, or stops being so.
Age(e) ==
  /\ e \in live
  /\ idle' = IF e \in idle THEN idle \ {e} ELSE idle \cup {e}
  /\ UNCHANGED <<table, size, lock, live, lastPurged, shutdown, local>>

Shutdown ==
  /\ ~shutdown /\ shutdown' = TRUE
  /\ UNCHANGED <<table, size, lock, live, idle, lastPurged, local>>

Init ==
  /\ table = [b \in Bucket |-> {}] /\ size = 0
  /\ lock = [b \in Bucket |-> NoThread]
  /\ live = {} /\ idle = {}
  /\ lastPurged = NumHashes - 1 /\ shutdown = FALSE
  /\ pc = [t \in Thread |-> "out"] /\ bucket = [t \in Thread |-> 0]
  /\ todo = [t \in Thread |-> {}] /\ mine = [t \in Thread |-> NoEntry]
  /\ loaded = [t \in Thread |-> 0] /\ left = [t \in Thread |-> 0]

Add(t) == StartAdd(t) \/ LockForAdd(t) \/ Link(t) \/ CountAdd(t)
Sweep(t) == \/ StartSweep(t) \/ NextSweep(t) \/ EndSweep(t)
            \/ LockForSweep(t) \/ SweepEntry(t) \/ CountSweep(t) \/ UnlockSweep(t)
Walk(t) == StartWalk(t) \/ NextWalk(t) \/ LockForWalk(t) \/ Visit(t) \/ UnlockWalk(t)
Lookup(t) == StartFind(t) \/ LockForFind(t) \/ Find(t) \/ EndUse(t)

Next ==
  \/ \E t \in Thread : Add(t) \/ Sweep(t) \/ Walk(t) \/ Lookup(t)
  \/ \E e \in Entry : Age(e)
  \/ Shutdown

Spec == Init /\ [][Next]_vars

\* A thread that has the lock keeps running.
InSection(t) == Link(t) \/ CountAdd(t) \/ SweepEntry(t) \/ CountSweep(t) \/ UnlockSweep(t)
                \/ Visit(t) \/ UnlockWalk(t) \/ Find(t)
FairSpec == Spec /\ \A t \in Thread : WF_vars(InSection(t))

-------------------------------------------------------------------------------
Linked == UNION {table[b] : b \in Bucket}
InTransit(t) == pc[t] \in {"lock_add", "link", "count_sweep"}
Settled == \A t \in Thread : pc[t] \notin {"count_add", "count_sweep"}

\* The types of the table, the locks and what each thread remembers.
TypeOK ==
  /\ table \in [Bucket -> SUBSET Entry] /\ size \in 0..(SizeMod - 1)
  /\ lock \in [Bucket -> Thread \cup {NoThread}]
  /\ live \subseteq Entry /\ idle \subseteq live
  /\ lastPurged \in Bucket /\ shutdown \in BOOLEAN
  /\ pc \in [Thread -> Stages] /\ bucket \in [Thread -> Bucket]
  /\ todo \in [Thread -> SUBSET Entry] /\ mine \in [Thread -> Entry \cup {NoEntry}]
  /\ loaded \in [Thread -> 0..(SizeMod - 1)] /\ left \in [Thread -> Nat]

\* No object is lost or linked twice: an allocated entry is in the list of its own
\* bucket and nowhere else, unless some thread is adding or freeing it, and nothing
\* freed is in a list.
LinkedOnce ==
  /\ \A b \in Bucket : table[b] \subseteq {e \in live : BucketOf[e] = b}
  /\ \A e \in live : e \in Linked <=> ~\E t \in Thread : InTransit(t) /\ mine[t] = e

\* What a sweep, a walk or a lookup has still to visit stays linked in the bucket it
\* has locked: no other thread unlinks or frees it under the traversal.
VisitsLinked ==
  \A t \in Thread : pc[t] \in {"sweep", "count_sweep", "walk", "find"} =>
    todo[t] \subseteq table[bucket[t]]

\* Between two updates of current_size it is the number of linked entries, as its
\* declaration says.
SizeExact == Settled => size = Cardinality(Linked)

\* When nobody is updating it, an empty table has room: add() accepts an entry.
RoomWhenEmpty == Settled /\ Linked = {} => size < MaxHashSize

\* An entry returned by findByKey() or get() exists for as long as its caller uses it.
HeldLive == \A t \in Thread : pc[t] = "use" => mine[t] \in live

\* A mutex that is taken is given back, whatever way its section ends.
LocksReleased == \A b \in Bucket : lock[b] # NoThread ~> lock[b] = NoThread

\* With one writing thread the container is an atomic bounded set.
EntrySet == INSTANCE EntrySet WITH members <- Linked
ImplementsEntrySet == EntrySet!Spec
===============================================================================
