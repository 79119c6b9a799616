--------------------------- MODULE GenericHashProofs ---------------------------
(***************************************************************************)
(* Proofs about GenericHash for any threads, entries and buckets.  What    *)
(* the mutexes protect holds for any number of writers; the size and the   *)
(* refinement of EntrySet need the writer to be one thread.                *)
(***************************************************************************)
EXTENDS GenericHash, FiniteSetTheorems, TLAPS

\* The holder of a mutex is the thread inside the section of that bucket.
LockHeld == \A t \in Thread : pc[t] \in UnderLock => lock[bucket[t]] = t

\* An object in transit is allocated, not linked, and in the hands of one thread.
Transit ==
  /\ \A t \in Thread : InTransit(t) =>
       /\ mine[t] \in live /\ bucket[t] = BucketOf[mine[t]]
       /\ mine[t] \notin table[bucket[t]]
  /\ \A t, u \in Thread : InTransit(t) /\ InTransit(u) /\ mine[t] = mine[u] => t = u

\* Every allocated object that no thread has in its hands is in its bucket.
Filed ==
  /\ \A b \in Bucket : \A e \in table[b] : e \in live /\ BucketOf[e] = b
  /\ \A e \in live : (\A t \in Thread : InTransit(t) => mine[t] # e) => e \in table[BucketOf[e]]

IInv == TypeOK /\ LockHeld /\ Transit /\ Filed /\ VisitsLinked

USE DEF Set, UnderLock, AtLock, Stages, InTransit

\* The invariant holds the property it strengthens.
LEMMA IInvLinkedOnce == IInv => LinkedOnce
<1> SUFFICES ASSUME IInv PROVE LinkedOnce
  OBVIOUS
<1>1. \A b \in Bucket : table[b] \subseteq {e \in live : BucketOf[e] = b}
  BY DEF IInv, Filed
<1>2. ASSUME NEW e \in live
      PROVE  e \in Linked <=> ~\E t \in Thread : InTransit(t) /\ mine[t] = e
  <2>1. e \in Linked <=> e \in table[BucketOf[e]]
    BY EntryAssumption DEF IInv, TypeOK, Filed, Linked
  <2>2. CASE \E t \in Thread : InTransit(t) /\ mine[t] = e
    BY <2>1, <2>2 DEF IInv, Transit
  <2>3. CASE ~\E t \in Thread : InTransit(t) /\ mine[t] = e
    BY <2>1, <2>3 DEF IInv, Filed
  <2> QED BY <2>2, <2>3
<1> QED BY <1>1, <1>2 DEF LinkedOnce

\* At the start every list is empty and nothing is allocated.
LEMMA InitIInv == Init => IInv
<1> SUFFICES ASSUME Init PROVE IInv
  OBVIOUS
<1>1. TypeOK
  <2>1. 0 \in 0..(SizeMod - 1) /\ 0 \in Bucket /\ NumHashes - 1 \in Bucket
    BY SizeAssumption DEF Bucket
  <2> QED BY <2>1 DEF Init, TypeOK
<1>2. LockHeld /\ Transit /\ Filed /\ VisitsLinked
  BY DEF Init, LockHeld, Transit, Filed, VisitsLinked
<1> QED BY <1>1, <1>2 DEF IInv

\* Taking a mutex that is free makes its holder the only thread in the section.
LEMMA AcquireIInv ==
  ASSUME IInv, NEW t \in Thread, NEW from \in AtLock, NEW to \in UnderLock,
         Acquire(t, from, to),
         from = "lock_add" <=> to = "link", to \notin {"count_add", "count_sweep"}
  PROVE  IInv'
<1>0. lock[bucket[t]] = NoThread /\ bucket[t] \in Bucket /\ pc[t] = from
  BY DEF Acquire, IInv, TypeOK
<1>1. TypeOK'
  BY <1>0 DEF Acquire, IInv, TypeOK
<1>2. LockHeld'
  BY <1>0, ThreadAssumption DEF Acquire, IInv, TypeOK, LockHeld
<1>3. \A u \in Thread : InTransit(u)' <=> InTransit(u)
  BY <1>0 DEF Acquire, IInv, TypeOK
<1>4. Transit'
  BY <1>3 DEF Acquire, IInv, Transit
<1>5. Filed'
  BY <1>3 DEF Acquire, IInv, Filed
<1>6. VisitsLinked'
  BY <1>0 DEF Acquire, IInv, TypeOK, VisitsLinked
<1> QED BY <1>1, <1>2, <1>4, <1>5, <1>6 DEF IInv

\* A value modulo n is below n.
LEMMA ModRange ==
  ASSUME NEW x \in Int, NEW n \in Nat \ {0}
  PROVE  x % n \in 0..(n - 1)
BY SMT

\* A step of a thread outside any section, to a stage where it has nothing in hand.
LEMMA OutsideIInv ==
  ASSUME IInv, NEW t \in Thread, NEW to \in Stages,
         pc[t] \notin UnderLock, ~InTransit(t),
         to \notin UnderLock \cup {"lock_add"},
         Set(pc, t, to), bucket' \in [Thread -> Bucket],
         \A u \in Thread \ {t} : bucket'[u] = bucket[u],
         left' \in [Thread -> Nat], lastPurged' \in Bucket,
         mine' \in [Thread -> Entry \cup {NoEntry}],
         \A u \in Thread \ {t} : mine'[u] = mine[u],
         UNCHANGED <<table, size, lock, live, idle, shutdown, todo, loaded>>
  PROVE  IInv'
<1>1. TypeOK'
  BY DEF IInv, TypeOK
<1>2. LockHeld'
  BY DEF IInv, TypeOK, LockHeld
<1>3. \A u \in Thread : InTransit(u)' <=> InTransit(u)
  BY DEF IInv, TypeOK
<1>4. Transit'
  BY <1>3 DEF IInv, Transit
<1>5. Filed'
  BY <1>3 DEF IInv, Filed
<1>6. VisitsLinked'
  BY DEF IInv, TypeOK, VisitsLinked
<1> QED BY <1>1, <1>2, <1>4, <1>5, <1>6 DEF IInv

\* The object a thread is about to add is new: nobody else has it.
LEMMA StartAddIInv ==
  ASSUME IInv, NEW t \in Thread, StartAdd(t)
  PROVE  IInv'
<1>1. PICK e \in Entry \ live :
        live' = live \cup {e} /\ mine' = [mine EXCEPT ![t] = e]
        /\ bucket' = [bucket EXCEPT ![t] = BucketOf[e]]
  BY DEF StartAdd
<1>2. BucketOf[e] \in Bucket /\ pc[t] = "out" /\ pc' = [pc EXCEPT ![t] = "lock_add"]
  BY EntryAssumption DEF StartAdd
<1>3. UNCHANGED <<table, size, lock, idle, lastPurged, shutdown, todo, loaded, left>>
  BY DEF StartAdd
<1>4. TypeOK'
  BY <1>1, <1>2, <1>3 DEF IInv, TypeOK
<1>5. LockHeld'
  BY <1>1, <1>2, <1>3 DEF IInv, TypeOK, LockHeld
<1>6. e \notin UNION {table[b] : b \in Bucket}
  BY <1>1 DEF IInv, Filed
<1>7. Transit'
  BY <1>1, <1>2, <1>3, <1>6 DEF IInv, TypeOK, Transit
<1>8. Filed'
  BY <1>1, <1>2, <1>3 DEF IInv, TypeOK, Filed
<1>9. VisitsLinked'
  BY <1>1, <1>2, <1>3 DEF IInv, TypeOK, VisitsLinked
<1> QED BY <1>4, <1>5, <1>7, <1>8, <1>9 DEF IInv

\* Linking under the lock adds the object to its bucket, below nobody's traversal.
LEMMA LinkIInv ==
  ASSUME IInv, NEW t \in Thread, Link(t)
  PROVE  IInv'
<1>1. /\ pc[t] = "link" /\ pc' = [pc EXCEPT ![t] = "count_add"]
      /\ table' = [table EXCEPT ![bucket[t]] = @ \cup {mine[t]}]
      /\ loaded' = [loaded EXCEPT ![t] = size]
      /\ UNCHANGED <<size, lock, live, idle, lastPurged, shutdown, bucket, todo, mine, left>>
  BY DEF Link
<1>2. mine[t] \in live /\ bucket[t] = BucketOf[mine[t]] /\ bucket[t] \in Bucket
  BY <1>1 DEF IInv, Transit, TypeOK
<1>3. TypeOK'
  BY <1>1, <1>2 DEF IInv, TypeOK
<1>4. LockHeld'
  BY <1>1 DEF IInv, TypeOK, LockHeld
<1>5. Transit'
  BY <1>1, <1>2 DEF IInv, TypeOK, Transit
<1>6. Filed'
  BY <1>1, <1>2, EntryAssumption DEF IInv, TypeOK, Filed
<1>7. VisitsLinked'
  BY <1>1, <1>2 DEF IInv, TypeOK, VisitsLinked
<1> QED BY <1>3, <1>4, <1>5, <1>6, <1>7 DEF IInv

\* Storing the counter and unlocking leaves the lists alone.
LEMMA CountAddIInv ==
  ASSUME IInv, NEW t \in Thread, CountAdd(t)
  PROVE  IInv'
<1>1. /\ pc[t] = "count_add" /\ pc' = [pc EXCEPT ![t] = "out"]
      /\ lock' = [b \in Bucket |-> IF b = bucket[t] THEN NoThread ELSE lock[b]]
      /\ mine' = [mine EXCEPT ![t] = NoEntry]
      /\ UNCHANGED <<table, live, idle, lastPurged, shutdown, bucket, todo, loaded, left>>
  BY DEF CountAdd, Release
<1>2. size' \in 0..(SizeMod - 1)
  <2>1. loaded[t] + 1 \in Int
    BY DEF IInv, TypeOK
  <2> QED BY <2>1, ModRange, SizeAssumption DEF CountAdd
<1>3. TypeOK'
  BY <1>1, <1>2 DEF IInv, TypeOK
<1>4. LockHeld'
  BY <1>1 DEF IInv, TypeOK, LockHeld
<1>5. Transit'
  BY <1>1 DEF IInv, TypeOK, Transit
<1>6. Filed'
  BY <1>1 DEF IInv, TypeOK, Filed
<1>7. VisitsLinked'
  BY <1>1 DEF IInv, TypeOK, VisitsLinked
<1> QED BY <1>3, <1>4, <1>5, <1>6, <1>7 DEF IInv

\* Unlinking under the lock takes the object out of the bucket and into the hands of
\* the sweep; the traversal goes on with the others.
LEMMA SweepEntryIInv ==
  ASSUME IInv, NEW t \in Thread, SweepEntry(t)
  PROVE  IInv'
<1>1. PICK e \in todo[t] :
        /\ todo' = [todo EXCEPT ![t] = @ \ {e}]
        /\ \/ /\ table' = [table EXCEPT ![bucket[t]] = @ \ {e}]
              /\ mine' = [mine EXCEPT ![t] = e] /\ loaded' = [loaded EXCEPT ![t] = size]
              /\ pc' = [pc EXCEPT ![t] = "count_sweep"]
           \/ UNCHANGED <<table, mine, loaded, pc>>
  BY DEF SweepEntry
<1>2. /\ pc[t] = "sweep"
      /\ UNCHANGED <<size, lock, live, idle, lastPurged, shutdown, bucket, left>>
  BY DEF SweepEntry
<1>3. /\ bucket[t] \in Bucket /\ e \in table[bucket[t]] /\ e \in Entry
      /\ e \in live /\ bucket[t] = BucketOf[e]
  BY <1>2 DEF IInv, TypeOK, VisitsLinked, Filed
<1>4. TypeOK'
  BY <1>1, <1>2, <1>3 DEF IInv, TypeOK
<1>5. LockHeld'
  BY <1>1, <1>2 DEF IInv, TypeOK, LockHeld
<1>6. Transit'
  BY <1>1, <1>2, <1>3 DEF IInv, TypeOK, Transit
<1>7. Filed'
  <2>1. \A b \in Bucket : table'[b] \subseteq table[b]
    BY <1>1 DEF IInv, TypeOK
  <2>2. \A b \in Bucket : \A x \in table'[b] : x \in live' /\ BucketOf[x] = b
    BY <1>2, <2>1 DEF IInv, Filed
  <2>3. ASSUME NEW x \in live', \A u \in Thread : InTransit(u)' => mine'[u] # x
        PROVE  x \in table'[BucketOf[x]]
    <3>1. CASE UNCHANGED <<table, mine, loaded, pc>>
      BY <1>2, <2>3, <3>1 DEF IInv, Filed
    <3>2. CASE /\ table' = [table EXCEPT ![bucket[t]] = @ \ {e}]
               /\ mine' = [mine EXCEPT ![t] = e] /\ pc' = [pc EXCEPT ![t] = "count_sweep"]
      <4>1. pc \in [Thread -> Stages] /\ mine \in [Thread -> Entry \cup {NoEntry}] /\ table \in [Bucket -> SUBSET Entry]
        BY DEF IInv, TypeOK
      <4>2. x # e
        BY <2>3, <3>2, <4>1
      <4>3. \A u \in Thread : InTransit(u) => mine[u] # x
        BY <1>2, <2>3, <3>2, <4>1
      <4>4. x \in table[BucketOf[x]] /\ BucketOf[x] \in Bucket
        BY <1>2, <2>3, <4>3, EntryAssumption DEF IInv, TypeOK, Filed
      <4> QED BY <3>2, <4>1, <4>2, <4>4
    <3> QED BY <1>1, <3>1, <3>2
  <2> QED BY <2>2, <2>3 DEF Filed
<1>8. VisitsLinked'
  BY <1>1, <1>2, <1>3 DEF IInv, TypeOK, LockHeld, VisitsLinked
<1> QED BY <1>4, <1>5, <1>6, <1>7, <1>8 DEF IInv

\* The object that is freed is in no list.
LEMMA CountSweepIInv ==
  ASSUME IInv, NEW t \in Thread, CountSweep(t)
  PROVE  IInv'
<1>1. /\ pc[t] = "count_sweep" /\ pc' = [pc EXCEPT ![t] = "sweep"]
      /\ live' = live \ {mine[t]} /\ idle' = idle \ {mine[t]}
      /\ mine' = [mine EXCEPT ![t] = NoEntry]
      /\ UNCHANGED <<table, lock, lastPurged, shutdown, bucket, todo, loaded, left>>
  BY DEF CountSweep
<1>2. size' \in 0..(SizeMod - 1)
  <2>1. loaded[t] - 1 \in Int
    BY DEF IInv, TypeOK
  <2> QED BY <2>1, ModRange, SizeAssumption DEF CountSweep
<1>3. TypeOK'
  BY <1>1, <1>2 DEF IInv, TypeOK
<1>4. LockHeld'
  BY <1>1 DEF IInv, TypeOK, LockHeld
<1>5. Transit'
  BY <1>1 DEF IInv, TypeOK, Transit
<1>6. Filed'
  BY <1>1, EntryAssumption DEF IInv, TypeOK, Transit, Filed
<1>7. VisitsLinked'
  BY <1>1 DEF IInv, TypeOK, VisitsLinked
<1> QED BY <1>3, <1>4, <1>5, <1>6, <1>7 DEF IInv

\* Leaving a section, with or without an entry found, leaves the lists alone.
LEMMA UnlockIInv ==
  ASSUME IInv, NEW t \in Thread, UnlockSweep(t) \/ UnlockWalk(t) \/ Visit(t) \/ Find(t)
  PROVE  IInv'
<1>1. /\ pc[t] \in {"sweep", "walk", "find"}
      /\ UNCHANGED <<table, size, live, idle, lastPurged, shutdown, bucket, loaded, left>>
  BY DEF UnlockSweep, UnlockWalk, Visit, Find
<1>2. \/ /\ lock' = [b \in Bucket |-> IF b = bucket[t] THEN NoThread ELSE lock[b]]
         /\ \E to \in {"next_sweep", "next_walk", "out", "use"} : pc' = [pc EXCEPT ![t] = to]
      \/ UNCHANGED <<lock, pc>>
  BY DEF UnlockSweep, UnlockWalk, Visit, Find, Release
<1>3. \/ UNCHANGED todo
      \/ \E e \in Entry : todo' = [todo EXCEPT ![t] = @ \ {e}]
      \/ todo' = [todo EXCEPT ![t] = {}]
  BY DEF UnlockSweep, UnlockWalk, Visit, Find, IInv, TypeOK
<1>4. mine' = mine \/ \E e \in Entry : mine' = [mine EXCEPT ![t] = e]
  BY DEF UnlockSweep, UnlockWalk, Visit, Find, IInv, TypeOK
<1>5. TypeOK'
  BY <1>1, <1>2, <1>3, <1>4 DEF IInv, TypeOK
<1>6. LockHeld'
  BY <1>1, <1>2 DEF IInv, TypeOK, LockHeld
<1>7. Transit'
  BY <1>1, <1>2, <1>4 DEF IInv, TypeOK, Transit
<1>8. Filed'
  BY <1>1, <1>2, <1>4 DEF IInv, TypeOK, Filed
<1>9. VisitsLinked'
  BY <1>1, <1>2, <1>3 DEF IInv, TypeOK, VisitsLinked
<1> QED BY <1>5, <1>6, <1>7, <1>8, <1>9 DEF IInv

\* Time, traffic and the order to stop change no list.
LEMMA OthersIInv ==
  ASSUME IInv, Shutdown \/ \E e \in Entry : Age(e)
  PROVE  IInv'
<1>1. UNCHANGED <<table, size, lock, live, lastPurged, local>>
  BY DEF Shutdown, Age
<1>2. idle' \subseteq live /\ shutdown' \in BOOLEAN
  BY DEF Shutdown, Age, IInv, TypeOK
<1> QED BY <1>1, <1>2 DEF local, IInv, TypeOK, LockHeld, Transit, Filed, VisitsLinked

\* Every step keeps the invariant: one case per group of actions.
LEMMA NextIInv == IInv /\ [Next]_vars => IInv'
<1> SUFFICES ASSUME IInv, [Next]_vars PROVE IInv'
  OBVIOUS
<1>1. CASE Shutdown \/ \E e \in Entry : Age(e)
  BY <1>1, OthersIInv
<1>2. CASE UNCHANGED vars
  BY <1>2 DEF vars, shared, local, IInv, TypeOK, LockHeld, Transit, Filed, VisitsLinked
<1>3. ASSUME NEW t \in Thread, Add(t)
      PROVE  IInv'
  <2>1. CASE LockForAdd(t)
    BY <2>1, AcquireIInv DEF LockForAdd
  <2> QED BY <1>3, <2>1, StartAddIInv, LinkIInv, CountAddIInv DEF Add
<1>4. ASSUME NEW t \in Thread, Sweep(t)
      PROVE  IInv'
  <2>1. CASE LockForSweep(t)
    BY <2>1, AcquireIInv DEF LockForSweep
  <2>2. CASE StartSweep(t)
    <3>1. NumHashes \div PurgeFraction \in Nat
      BY SizeAssumption
    <3> QED BY <2>2, <3>1, OutsideIInv DEF StartSweep, shared, IInv, TypeOK
  <2>3. CASE NextSweep(t)
    <3>1. (lastPurged + 1) % NumHashes \in Bucket
      BY SizeAssumption, ModRange DEF Bucket, IInv, TypeOK
    <3>2. left[t] - 1 \in Nat
      BY <2>3 DEF NextSweep, IInv, TypeOK
    <3>3. \E to \in {"next_sweep", "lock_sweep"} : pc' = [pc EXCEPT ![t] = to]
      BY <2>3 DEF NextSweep
    <3>4. /\ pc[t] = "next_sweep" /\ lastPurged' = (lastPurged + 1) % NumHashes
          /\ bucket' = [bucket EXCEPT ![t] = (lastPurged + 1) % NumHashes]
          /\ left' = [left EXCEPT ![t] = left[t] - 1]
          /\ UNCHANGED <<table, size, lock, live, idle, shutdown, todo, mine, loaded>>
      BY <2>3 DEF NextSweep
    <3>5. /\ bucket' \in [Thread -> Bucket] /\ left' \in [Thread -> Nat]
          /\ mine' \in [Thread -> Entry \cup {NoEntry}]
          /\ \A u \in Thread \ {t} : bucket'[u] = bucket[u] /\ mine'[u] = mine[u]
      BY <3>1, <3>2, <3>4 DEF IInv, TypeOK
    <3> QED BY <3>1, <3>3, <3>4, <3>5, OutsideIInv
  <2>4. CASE EndSweep(t)
    BY <2>4, OutsideIInv DEF EndSweep, shared, IInv, TypeOK
  <2> QED BY <1>4, <2>1, <2>2, <2>3, <2>4, SweepEntryIInv, CountSweepIInv, UnlockIInv DEF Sweep
<1>5. ASSUME NEW t \in Thread, Walk(t)
      PROVE  IInv'
  <2>1. CASE LockForWalk(t)
    BY <2>1, AcquireIInv DEF LockForWalk
  <2>2. CASE StartWalk(t)
    <3>1. 0 \in Bucket
      BY SizeAssumption DEF Bucket
    <3>2. \E to \in {"next_walk", "lock_walk"} : pc' = [pc EXCEPT ![t] = to]
      BY <2>2 DEF StartWalk
    <3> QED BY <2>2, <3>1, <3>2, OutsideIInv DEF StartWalk, shared, IInv, TypeOK
  <2>3. CASE NextWalk(t)
    <3>1. bucket' \in [Thread -> Bucket]
      <4>1. bucket[t] \in Bucket
        BY DEF IInv, TypeOK
      <4>2. bucket[t] + 1 < NumHashes => bucket[t] + 1 \in Bucket
        BY <4>1, SizeAssumption DEF Bucket
      <4> QED BY <2>3, <4>2 DEF NextWalk, IInv, TypeOK
    <3>2. \E to \in {"next_walk", "lock_walk", "out"} : pc' = [pc EXCEPT ![t] = to]
      BY <2>3 DEF NextWalk
    <3>3. \A u \in Thread \ {t} : bucket'[u] = bucket[u]
      BY <2>3 DEF NextWalk, IInv, TypeOK
    <3> QED BY <2>3, <3>1, <3>2, <3>3, OutsideIInv DEF NextWalk, shared, IInv, TypeOK
  <2> QED BY <1>5, <2>1, <2>2, <2>3, UnlockIInv DEF Walk
<1>6. ASSUME NEW t \in Thread, Lookup(t)
      PROVE  IInv'
  <2>1. CASE LockForFind(t)
    BY <2>1, AcquireIInv DEF LockForFind
  <2>2. CASE StartFind(t)
    <3>1. PICK b \in Bucket : bucket' = [bucket EXCEPT ![t] = b]
      BY <2>2 DEF StartFind
    <3>2. /\ pc[t] = "out" /\ pc' = [pc EXCEPT ![t] = "lock_find"]
          /\ UNCHANGED <<shared, todo, mine, loaded, left>>
      BY <2>2 DEF StartFind
    <3>3. /\ bucket' \in [Thread -> Bucket] /\ left' \in [Thread -> Nat]
          /\ mine' \in [Thread -> Entry \cup {NoEntry}] /\ lastPurged' \in Bucket
          /\ \A u \in Thread \ {t} : bucket'[u] = bucket[u] /\ mine'[u] = mine[u]
      BY <3>1, <3>2 DEF shared, IInv, TypeOK
    <3> QED BY <3>2, <3>3, OutsideIInv DEF shared
  <2>3. CASE EndUse(t)
    BY <2>3, OutsideIInv DEF EndUse, shared, IInv, TypeOK
  <2> QED BY <1>6, <2>1, <2>2, <2>3, UnlockIInv DEF Lookup
<1> QED BY <1>1, <1>2, <1>3, <1>4, <1>5, <1>6 DEF Next

\* The invariant holds in every reachable state, whatever the threads do.
THEOREM Invariance == Spec => []IInv
<1> QED BY InitIInv, NextIInv, PTL DEF Spec

\* No object is lost or linked twice, with any number of threads that add, sweep,
\* walk and look up.
THEOREM NothingLost == Spec => []LinkedOnce
<1> QED BY Invariance, IInvLinkedOnce, PTL

\* A traversal never meets an object another thread has unlinked or freed.
THEOREM TraversalsSafe == Spec => []VisitsLinked
<1>1. IInv => VisitsLinked
  BY DEF IInv
<1> QED BY <1>1, Invariance, PTL

-------------------------------------------------------------------------------
(* One writing thread: the counter is exact and the container is an EntrySet. *)

Writing == {"lock_add", "link", "count_add", "next_sweep", "lock_sweep", "sweep", "count_sweep"}

Counted(w) ==
  /\ IsFiniteSet(Linked) /\ Cardinality(Linked) <= MaxHashSize
  /\ \A t \in Thread : pc[t] \in Writing => t = w
  /\ pc[w] \in {"lock_add", "link"} => Cardinality(Linked) < MaxHashSize
  /\ pc[w] = "count_add" => loaded[w] = size /\ Cardinality(Linked) = size + 1
  /\ pc[w] = "count_sweep" => loaded[w] = size /\ Cardinality(Linked) = size - 1
  /\ pc[w] \notin {"count_add", "count_sweep"} => Cardinality(Linked) = size

\* A step that only moves t from one stage to another.
Moves(t, from, to) ==
  /\ pc[t] = from /\ pc' = [pc EXCEPT ![t] = to] /\ UNCHANGED <<table, size, loaded>>

\* Linking adds one entry to the contents of the table.
LEMMA LinkedGrows ==
  ASSUME IInv, NEW t \in Thread, Link(t), IsFiniteSet(Linked)
  PROVE  /\ Linked' = Linked \cup {mine[t]} /\ mine[t] \notin Linked /\ mine[t] \in Entry
         /\ IsFiniteSet(Linked') /\ Cardinality(Linked') = Cardinality(Linked) + 1
<1>1. /\ pc[t] = "link" /\ table' = [table EXCEPT ![bucket[t]] = @ \cup {mine[t]}]
      /\ bucket[t] \in Bucket /\ table \in [Bucket -> SUBSET Entry]
  BY DEF Link, IInv, TypeOK
<1>2. /\ mine[t] \in live /\ bucket[t] = BucketOf[mine[t]] /\ mine[t] \notin table[bucket[t]]
      /\ mine[t] \in Entry
  BY <1>1 DEF IInv, TypeOK, Transit
<1>3. mine[t] \notin Linked
  BY <1>1, <1>2 DEF Linked, IInv, Filed
<1>4. Linked' = Linked \cup {mine[t]}
  BY <1>1 DEF Linked
<1>5. /\ IsFiniteSet(Linked \cup {mine[t]})
      /\ Cardinality(Linked \cup {mine[t]}) = Cardinality(Linked) + 1
  BY <1>3, FS_AddElement
<1> QED BY <1>2, <1>3, <1>4, <1>5

\* Unlinking takes one idle entry away; keeping an entry changes nothing.
LEMMA LinkedShrinks ==
  ASSUME IInv, NEW t \in Thread, SweepEntry(t), IsFiniteSet(Linked)
  PROVE  \/ /\ pc' = pc /\ loaded' = loaded /\ Linked' = Linked
         \/ /\ pc' = [pc EXCEPT ![t] = "count_sweep"] /\ loaded' = [loaded EXCEPT ![t] = size]
            /\ \E e \in Linked \cap idle : Linked' = Linked \ {e}
            /\ IsFiniteSet(Linked') /\ Cardinality(Linked') = Cardinality(Linked) - 1
<1>1. /\ pc[t] = "sweep" /\ bucket[t] \in Bucket /\ table \in [Bucket -> SUBSET Entry]
      /\ \A e \in todo[t] : e \in table[bucket[t]]
  BY DEF SweepEntry, IInv, TypeOK, VisitsLinked
<1>2. CASE UNCHANGED <<table, loaded, pc>>
  BY <1>2 DEF Linked
<1>3. CASE \E e \in todo[t] : /\ e \in idle
                              /\ table' = [table EXCEPT ![bucket[t]] = @ \ {e}]
                              /\ loaded' = [loaded EXCEPT ![t] = size]
                              /\ pc' = [pc EXCEPT ![t] = "count_sweep"]
  <2>1. PICK e \in todo[t] : /\ e \in idle
                             /\ table' = [table EXCEPT ![bucket[t]] = @ \ {e}]
                             /\ loaded' = [loaded EXCEPT ![t] = size]
                             /\ pc' = [pc EXCEPT ![t] = "count_sweep"]
    BY <1>3
  <2>2. e \in Linked /\ \A b \in Bucket : e \in table[b] => b = bucket[t]
    BY <1>1, <2>1 DEF Linked, IInv, Filed
  <2>3. Linked' = Linked \ {e}
    BY <1>1, <2>1, <2>2 DEF Linked
  <2>4. IsFiniteSet(Linked \ {e}) /\ Cardinality(Linked \ {e}) = Cardinality(Linked) - 1
    BY <2>2, FS_RemoveElement
  <2> QED BY <2>1, <2>2, <2>3, <2>4
<1> QED BY <1>2, <1>3 DEF SweepEntry

\* With one writer no step comes between the load and the store of the counter.
LEMMA NextCounted ==
  ASSUME NEW w \in Thread, Adders \cup Sweepers \subseteq {w}, MaxHashSize < SizeMod,
         IInv, Counted(w), [Next]_vars
  PROVE  Counted(w)'
<1> USE DEF Writing
<1>0. /\ Cardinality(Linked) \in Nat /\ pc \in [Thread -> Stages] /\ size \in Nat
      /\ loaded \in [Thread -> 0..(SizeMod - 1)] /\ MaxHashSize \in Nat /\ SizeMod \in Nat \ {0}
  BY SizeAssumption, FS_CardinalityType DEF Counted, IInv, TypeOK
<1>1. ASSUME NEW t \in Thread, Link(t)
      PROVE  Counted(w)'
  <2>1. pc[t] = "link" /\ pc' = [pc EXCEPT ![t] = "count_add"] /\ size' = size
        /\ loaded' = [loaded EXCEPT ![t] = size] /\ t = w
    BY <1>1 DEF Link, Counted
  <2> QED BY <1>0, <1>1, <2>1, LinkedGrows DEF Counted
<1>2. ASSUME NEW t \in Thread, CountAdd(t)
      PROVE  Counted(w)'
  <2>1. /\ pc[t] = "count_add" /\ pc' = [pc EXCEPT ![t] = "out"] /\ loaded' = loaded
        /\ size' = (loaded[t] + 1) % SizeMod /\ t = w /\ Linked' = Linked
    BY <1>2 DEF CountAdd, Counted, Linked
  <2>2. size' = size + 1
    BY <1>0, <2>1 DEF Counted
  <2> QED BY <1>0, <2>1, <2>2 DEF Counted
<1>3. ASSUME NEW t \in Thread, SweepEntry(t)
      PROVE  Counted(w)'
  <2>1. pc[t] = "sweep" /\ size' = size /\ t = w
    BY <1>3 DEF SweepEntry, Counted
  <2>2. IsFiniteSet(Linked)
    BY DEF Counted
  <2>3. CASE pc' = pc /\ loaded' = loaded /\ Linked' = Linked
    BY <1>0, <2>1, <2>3 DEF Counted
  <2>4. CASE /\ pc' = [pc EXCEPT ![t] = "count_sweep"] /\ loaded' = [loaded EXCEPT ![t] = size]
             /\ IsFiniteSet(Linked') /\ Cardinality(Linked') = Cardinality(Linked) - 1
    BY <1>0, <2>1, <2>4 DEF Counted
  <2> QED BY <1>3, <2>2, <2>3, <2>4, LinkedShrinks
<1>4. ASSUME NEW t \in Thread, CountSweep(t)
      PROVE  Counted(w)'
  <2>1. /\ pc[t] = "count_sweep" /\ pc' = [pc EXCEPT ![t] = "sweep"] /\ loaded' = loaded
        /\ size' = (loaded[t] - 1) % SizeMod /\ t = w /\ Linked' = Linked
    BY <1>4 DEF CountSweep, Counted, Linked
  <2>2. size' = size - 1
    <3>1. loaded[w] = size /\ Cardinality(Linked) = size - 1 /\ size < SizeMod
      <4>1. size < SizeMod
        BY <1>0, SizeAssumption DEF IInv, TypeOK
      <4> QED BY <2>1, <4>1 DEF Counted
    <3>2. size - 1 \in 0..(SizeMod - 1) /\ size' = (size - 1) % SizeMod
      BY <1>0, <2>1, <3>1
    <3> QED BY <1>0, <3>2
  <2> QED BY <1>0, <2>1, <2>2 DEF Counted
<1>5. ASSUME NEW t \in Thread, NEW from \in Stages, NEW to \in Stages, Moves(t, from, to),
             {from, to} \cap {"count_add", "count_sweep"} = {},
             to \in Writing => t = w,
             to = "lock_add" => size < MaxHashSize,
             to = "link" => from = "lock_add"
      PROVE  Counted(w)'
  <2>1. Linked' = Linked
    BY <1>5 DEF Linked, Moves
  <2> QED BY <1>0, <1>5, <2>1 DEF Counted, Moves
<1>6. ASSUME UNCHANGED <<table, size, pc, loaded>>
      PROVE  Counted(w)'
  <2>1. Linked' = Linked
    BY <1>6 DEF Linked
  <2> QED BY <1>6, <2>1 DEF Counted
<1> USE DEF Stages, UnderLock, AtLock
<1>7. ASSUME NEW t \in Thread, Add(t) \/ Sweep(t)
      PROVE  Counted(w)'
  <2>0. pc[t] \in Writing => t = w
    BY DEF Counted
  <2>1. CASE StartAdd(t)
    <3>1. Moves(t, "out", "lock_add") /\ t = w /\ size < MaxHashSize
      BY <2>0, <2>1 DEF StartAdd, Moves, Set
    <3> QED BY <1>5, <3>1
  <2>2. CASE LockForAdd(t)
    <3>1. Moves(t, "lock_add", "link") /\ t = w
      BY <2>0, <2>2 DEF LockForAdd, Moves, Set, Acquire
    <3> QED BY <1>5, <3>1
  <2>3. CASE StartSweep(t)
    <3>1. Moves(t, "out", "next_sweep") /\ t = w
      BY <2>0, <2>3 DEF StartSweep, Moves, Set, shared
    <3> QED BY <1>5, <3>1
  <2>4. CASE NextSweep(t)
    <3>1. t = w /\ \/ Moves(t, "next_sweep", "lock_sweep")
                   \/ Moves(t, "next_sweep", "next_sweep")
      BY <2>0, <2>4 DEF NextSweep, Moves, Set
    <3> QED BY <1>5, <3>1
  <2>5. CASE EndSweep(t)
    <3>1. Moves(t, "next_sweep", "out") /\ t = w
      BY <2>0, <2>5 DEF EndSweep, Moves, Set, shared
    <3> QED BY <1>5, <3>1
  <2>6. CASE LockForSweep(t)
    <3>1. Moves(t, "lock_sweep", "sweep") /\ t = w
      BY <2>0, <2>6 DEF LockForSweep, Moves, Set, Acquire
    <3> QED BY <1>5, <3>1
  <2>7. CASE UnlockSweep(t)
    <3>1. Moves(t, "sweep", "next_sweep") /\ t = w
      BY <2>0, <2>7 DEF UnlockSweep, Moves, Set
    <3> QED BY <1>5, <3>1
  <2> QED BY <1>1, <1>2, <1>3, <1>4, <1>7, <2>1, <2>2, <2>3, <2>4, <2>5, <2>6, <2>7 DEF Add, Sweep
<1>8. ASSUME NEW t \in Thread, Walk(t) \/ Lookup(t)
      PROVE  Counted(w)'
  <2>1. PICK from \in {"out", "lock_walk", "lock_find", "next_walk", "walk", "find", "use"},
             to \in {"out", "lock_walk", "lock_find", "next_walk", "walk", "find", "use"} :
          Moves(t, from, to) \/ UNCHANGED <<table, size, pc, loaded>>
    BY <1>8 DEF Walk, Lookup, StartWalk, NextWalk, Visit, UnlockWalk, LockForWalk, LockForFind,
                Acquire, StartFind, Find, EndUse, shared, Moves, Set
  <2> QED BY <1>5, <1>6, <2>1
<1>9. CASE UNCHANGED <<table, size, pc, loaded>>
  BY <1>6, <1>9
<1> QED BY <1>7, <1>8, <1>9 DEF Next, Age, Shutdown, vars, shared, local

\* With one writing thread current_size is the number of entries whenever no update of
\* it is under way.
THEOREM SizeStaysExact ==
  ASSUME NEW w \in Thread, Adders \cup Sweepers \subseteq {w}, MaxHashSize < SizeMod
  PROVE  Spec => []SizeExact
<1>1. Init => Counted(w)
  <2> SUFFICES ASSUME Init PROVE Counted(w)
    OBVIOUS
  <2>1. Linked = {}
    BY DEF Init, Linked
  <2> QED BY <2>1, FS_EmptySet, SizeAssumption DEF Init, Counted, Writing
<1>2. IInv /\ Counted(w) /\ [Next]_vars => Counted(w)'
  BY NextCounted
<1>3. Counted(w) => SizeExact
  BY DEF Counted, SizeExact, Settled
<1> HIDE DEF Counted
<1> QED BY <1>1, <1>2, <1>3, Invariance, PTL DEF Spec

\* With one writing thread the container implements the atomic bounded set: an entry
\* is added when it is linked and purged when it is unlinked.
THEOREM Refinement ==
  ASSUME NEW w \in Thread, Adders \cup Sweepers \subseteq {w}, MaxHashSize < SizeMod
  PROVE  Spec => ImplementsEntrySet
<1>1. Init => Counted(w) /\ EntrySet!Init
  <2> SUFFICES ASSUME Init PROVE Counted(w) /\ EntrySet!Init
    OBVIOUS
  <2>1. Linked = {}
    BY DEF Init, Linked
  <2> QED BY <2>1, FS_EmptySet, SizeAssumption DEF Init, Counted, Writing, EntrySet!Init
<1>2. IInv /\ Counted(w) /\ [Next]_vars => Counted(w)'
  BY NextCounted
<1>3. IInv /\ Counted(w) /\ [Next]_vars => [EntrySet!Next]_<<Linked, idle>>
  <2> SUFFICES ASSUME IInv, Counted(w), [Next]_vars
               PROVE  [EntrySet!Next]_<<Linked, idle>>
    OBVIOUS
  <2>0. IsFiniteSet(Linked)
    BY DEF Counted
  <2>1. ASSUME UNCHANGED table, idle' \in SUBSET Entry
        PROVE  [EntrySet!Next]_<<Linked, idle>>
    BY <2>1 DEF Linked, EntrySet!Next, EntrySet!Age
  <2>2. idle \in SUBSET Entry
    BY DEF IInv, TypeOK
  <2>3. ASSUME NEW t \in Thread, Link(t)
        PROVE  EntrySet!Next
    <3>1. Cardinality(Linked) < MaxHashSize /\ idle' = idle
      BY <2>3 DEF Link, Counted, Writing
    <3>2. /\ Linked' = Linked \cup {mine[t]} /\ mine[t] \notin Linked /\ mine[t] \in Entry
      BY <2>0, <2>3, LinkedGrows
    <3>3. EntrySet!Add(mine[t])
      BY <3>1, <3>2 DEF EntrySet!Add, EntrySet!Cardinality, Cardinality
    <3> QED BY <3>2, <3>3 DEF EntrySet!Next
  <2>4. ASSUME NEW t \in Thread, SweepEntry(t)
        PROVE  [EntrySet!Next]_<<Linked, idle>>
    <3>1. idle' = idle
      BY <2>4 DEF SweepEntry
    <3>2. Linked' = Linked \/ \E e \in Linked \cap idle : Linked' = Linked \ {e}
      BY <2>0, <2>4, LinkedShrinks
    <3>3. Linked \subseteq Entry
      BY DEF Linked, IInv, TypeOK
    <3> QED BY <3>1, <3>2, <3>3 DEF EntrySet!Next, EntrySet!Purge
  <2>5. ASSUME NEW t \in Thread, CountSweep(t)
        PROVE  [EntrySet!Next]_<<Linked, idle>>
    <3>1. UNCHANGED table /\ idle' \in SUBSET Entry
      BY <2>2, <2>5 DEF CountSweep
    <3> QED BY <2>1, <3>1
  <2>6. ASSUME NEW e \in Entry, Age(e)
        PROVE  [EntrySet!Next]_<<Linked, idle>>
    <3>1. UNCHANGED table /\ idle' \in SUBSET Entry
      BY <2>2, <2>6 DEF Age
    <3> QED BY <2>1, <3>1
  <2>7. ASSUME UNCHANGED <<table, idle>>
        PROVE  [EntrySet!Next]_<<Linked, idle>>
    BY <2>7 DEF Linked
  <2>8. ASSUME NEW t \in Thread,
               \/ StartAdd(t) \/ LockForAdd(t) \/ CountAdd(t)
               \/ StartSweep(t) \/ NextSweep(t) \/ EndSweep(t) \/ LockForSweep(t) \/ UnlockSweep(t)
        PROVE  UNCHANGED <<table, idle>>
    BY <2>8 DEF StartAdd, LockForAdd, CountAdd, StartSweep, NextSweep, EndSweep,
                LockForSweep, UnlockSweep, Acquire, shared
  <2>9. ASSUME NEW t \in Thread, Walk(t) \/ Lookup(t)
        PROVE  UNCHANGED <<table, idle>>
    BY <2>9 DEF Walk, Lookup, StartWalk, NextWalk, LockForWalk, Visit, UnlockWalk,
                StartFind, LockForFind, Find, EndUse, Acquire, shared
  <2>10. CASE Shutdown \/ UNCHANGED vars
    BY <2>7, <2>10 DEF Shutdown, vars, shared
  <2> QED BY <2>3, <2>4, <2>5, <2>6, <2>7, <2>8, <2>9, <2>10 DEF Next, Add, Sweep
<1> HIDE DEF Counted
<1> QED BY <1>1, <1>2, <1>3, Invariance, PTL DEF Spec, ImplementsEntrySet, EntrySet!Spec
===============================================================================
