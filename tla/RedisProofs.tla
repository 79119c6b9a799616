----------------------------- MODULE RedisProofs -----------------------------
(***************************************************************************)
(* Proofs about two components that keep their state in Redis: the queue   *)
(* of addresses that are waiting for their names (NameResolution), for     *)
(* every number of addresses, callers and resolvers and every limit; and   *)
(* the requests to the web server (WebRequests), for every number of       *)
(* workers, browsers and users, every page and every limit.                *)
(***************************************************************************)
EXTENDS NameResolution, WebRequests, FiniteSetTheorems, SequenceTheorems,
        WellFoundedInduction, TLAPS

\* The resolvers that have asked for an address and have no answer yet.
Asking(a) == {r \in asking : popped[r] = a}

\* While an address has no entry, each query was lost or still has its resolver.
QueriesAccounted ==
  \A a \in Addrs : ~Cached(a) => asked[a] <= Cardinality(Asking(a)) + losses

-------------------------------------------------------------------------------
(* Lemmas about the queue and the threads *)

LEMMA TrimLemma ==
  ASSUME NEW q \in Seq(Addrs)
  PROVE  /\ Trim(q) \in Seq(Addrs)
         /\ Len(Trim(q)) <= MaxQueuedAddrs + 1
         /\ Len(Trim(q)) <= Len(q)
<1>1. CASE Len(q) > MaxQueuedAddrs + 1
  <2>1. MaxQueuedAddrs + 1 \in Nat
    BY ResolutionAssumption
  <2>2. /\ SubSeq(q, 1, MaxQueuedAddrs + 1) \in Seq(Addrs)
        /\ Len(SubSeq(q, 1, MaxQueuedAddrs + 1)) = MaxQueuedAddrs + 1
    BY <1>1, <2>1
  <2> QED
    BY <1>1, <2>1, <2>2 DEF Trim
<1>2. CASE ~(Len(q) > MaxQueuedAddrs + 1)
  BY <1>2, ResolutionAssumption DEF Trim
<1> QED
  BY <1>1, <1>2

\* A push adds one entry, unless it is lost; a trim that is not lost bounds the queue.
LEMMA PushHostLemma ==
  ASSUME NEW a \in Addrs, NEW checks \in BOOLEAN, NEW localHost \in BOOLEAN,
         queue \in Seq(Addrs), losses \in Nat,
         QueueBounded,
         PushHost(a, checks, localHost)
  PROVE  /\ queue' \in Seq(Addrs)
         /\ losses' \in losses..MaxLosses
         /\ QueueBounded'
<1> USE ResolutionAssumption
<1>1. CASE UNCHANGED queue /\ Lost(0)
  BY <1>1 DEF QueueBounded, Lost
<1>2. CASE ~(UNCHANGED queue /\ Lost(0))
  <2> DEFINE Pushed(push) ==
               IF push = 1 THEN queue
               ELSE IF localHost THEN <<a>> \o queue ELSE Append(queue, a)
  <2>1. PICK push \in {0, 1}, trim \in {0, 1}, lostGet \in {0, 1} :
          /\ queue' = IF trim = 1 THEN Pushed(push) ELSE Trim(Pushed(push))
          /\ Lost(lostGet + push + trim)
    BY <1>2 DEF PushHost
  <2>2. /\ Pushed(push) \in Seq(Addrs)
        /\ Len(Pushed(push)) <= Len(queue) + 1
    <3>1. <<a>> \o queue \in Seq(Addrs) /\ Len(<<a>> \o queue) = Len(queue) + 1
      OBVIOUS
    <3>2. Append(queue, a) \in Seq(Addrs) /\ Len(Append(queue, a)) = Len(queue) + 1
      OBVIOUS
    <3>3. Len(queue) \in Nat
      OBVIOUS
    <3> QED
      BY <3>1, <3>2, <3>3
  <2>3. losses' = losses + lostGet + push + trim /\ losses' <= MaxLosses
    BY <2>1 DEF Lost
  <2> HIDE DEF Pushed
  <2>4. CASE trim = 1
    <3>1. queue' = Pushed(push)
      BY <2>1, <2>4
    <3>2. Len(queue') <= Len(queue) + 1 /\ Len(queue) \in Nat /\ Len(queue') \in Nat
      BY <3>1, <2>2
    <3>3. losses' >= losses + 1
      BY <2>3, <2>4
    <3> QED
      BY <3>1, <3>2, <3>3, <2>2, <2>3 DEF QueueBounded
  <2>5. CASE trim = 0
    <3>1. queue' = Trim(Pushed(push))
      BY <2>1, <2>5
    <3>2. queue' \in Seq(Addrs) /\ Len(queue') <= MaxQueuedAddrs + 1
      BY <3>1, <2>2, TrimLemma
    <3>3. Len(queue') \in Nat
      BY <3>2
    <3> QED
      BY <3>2, <3>3, <2>3 DEF QueueBounded
  <2> QED
    BY <2>4, <2>5
<1> QED
  BY <1>1, <1>2

-------------------------------------------------------------------------------
(* The cache *)

EverLasting == {a \in Addrs : ttl[a] = Forever}

\* An entry is set; if it has no expiry, or is not set at all, a command was lost.
LEMMA SetResolvedLemma ==
  ASSUME NEW a \in Addrs, TypeOK, EntriesExpire, SetResolvedAddress(a)
  PROVE  /\ ttl' \in [Addrs -> 0..Forever]
         /\ unused' \in [Addrs -> 0..CacheDuration]
         /\ losses' \in losses..MaxLosses
         /\ EntriesExpire'
         /\ \/ Cached(a)'
            \/ ttl' = ttl /\ losses' = losses + 1
         /\ \A b \in Addrs \ {a} : ttl'[b] = ttl[b]
<1> USE ResolutionAssumption
<1>1. CASE UNCHANGED <<ttl, unused>> /\ Lost(1)
  <2>1. losses' = losses + 1 /\ losses' <= MaxLosses /\ losses \in Nat
    BY <1>1 DEF Lost, TypeOK
  <2>2. EverLasting' = EverLasting
    BY <1>1 DEF EverLasting
  <2>3. Cardinality(EverLasting) \in Nat
    BY FS_Subset, FS_CardinalityType DEF EverLasting
  <2>4. EntriesExpire'
    BY <2>1, <2>2, <2>3 DEF EntriesExpire, EverLasting
  <2> QED
    BY <1>1, <2>1, <2>4 DEF TypeOK
<1>2. CASE \E left \in {CacheDuration, Forever} :
             /\ ttl' = [ttl EXCEPT ![a] = left]
             /\ unused' = [unused EXCEPT ![a] = 0]
             /\ Lost(IF left = Forever THEN 1 ELSE 0)
  <2>1. PICK left \in {CacheDuration, Forever} :
             /\ ttl' = [ttl EXCEPT ![a] = left]
             /\ unused' = [unused EXCEPT ![a] = 0]
             /\ Lost(IF left = Forever THEN 1 ELSE 0)
    BY <1>2
  <2>2. ttl' \in [Addrs -> 0..Forever] /\ unused' \in [Addrs -> 0..CacheDuration]
    BY <2>1 DEF TypeOK, Forever
  <2>3. /\ Cached(a)'
        /\ \A b \in Addrs \ {a} : ttl'[b] = ttl[b]
    BY <2>1 DEF TypeOK, Cached, Forever, Absent
  <2>4. IsFiniteSet(EverLasting) /\ Cardinality(EverLasting) \in Nat
    BY FS_Subset, FS_CardinalityType DEF EverLasting
  <2>5. Cardinality(EverLasting) <= losses /\ losses \in Nat
    BY DEF EntriesExpire, EverLasting, TypeOK
  <2>6. CASE left = Forever
    <3>1. losses' = losses + 1 /\ losses' <= MaxLosses
      BY <2>1, <2>6 DEF Lost
    <3>2. EverLasting' = EverLasting \cup {a}
      BY <2>1, <2>6 DEF EverLasting, TypeOK
    <3>3. Cardinality(EverLasting') <= Cardinality(EverLasting) + 1
      <4>1. Cardinality(EverLasting \cup {a}) \in {Cardinality(EverLasting), Cardinality(EverLasting) + 1}
        BY <2>4, FS_AddElement
      <4> QED
        BY <4>1, <3>2, <2>4
    <3>4. Cardinality(EverLasting') \in Nat
      BY <3>2, <2>4, FS_AddElement, FS_CardinalityType
    <3>5. EntriesExpire'
      BY <3>1, <3>3, <3>4, <2>4, <2>5 DEF EntriesExpire, EverLasting
    <3> QED
      BY <3>1, <3>5, <2>2, <2>3, <2>5
  <2>7. CASE left # Forever
    <3>1. losses' = losses /\ losses' <= MaxLosses
      BY <2>1, <2>7, <2>5 DEF Lost
    <3>2. EverLasting' \subseteq EverLasting
      BY <2>1, <2>7 DEF EverLasting, TypeOK
    <3>3. Cardinality(EverLasting') <= Cardinality(EverLasting)
      BY <3>2, <2>4, FS_Subset
    <3>4. Cardinality(EverLasting') \in Nat
      BY <3>2, <2>4, FS_Subset, FS_CardinalityType
    <3>5. EntriesExpire'
      BY <3>1, <3>3, <3>4, <2>4, <2>5 DEF EntriesExpire, EverLasting
    <3> QED
      BY <3>1, <3>5, <2>2, <2>3, <2>5
  <2> QED
    BY <2>6, <2>7
<1> QED
  BY <1>1, <1>2 DEF SetResolvedAddress

\* Nothing else than SetResolvedAddress() makes an entry last for ever.
LEMMA EverLastingLemma ==
  ASSUME TypeOK, EntriesExpire,
         \A a \in Addrs : ttl'[a] = Forever => ttl[a] = Forever,
         losses' \in losses..MaxLosses
  PROVE  EntriesExpire'
<1>1. EverLasting' \subseteq EverLasting
  BY DEF EverLasting
<1>2. IsFiniteSet(EverLasting)
  BY ResolutionAssumption, FS_Subset DEF EverLasting
<1>3. Cardinality(EverLasting') <= Cardinality(EverLasting)
  BY <1>1, <1>2, FS_Subset
<1>4. Cardinality(EverLasting) \in Nat /\ Cardinality(EverLasting') \in Nat
  BY <1>1, <1>2, FS_Subset, FS_CardinalityType
<1>5. Cardinality(EverLasting) <= losses /\ losses \in Nat /\ losses' \in Nat /\ losses <= losses'
  BY ResolutionAssumption DEF EntriesExpire, EverLasting, TypeOK
<1>6. Cardinality(EverLasting') <= losses'
  BY <1>3, <1>4, <1>5
<1> QED
  BY <1>6 DEF EntriesExpire, EverLasting

-------------------------------------------------------------------------------
(* Types, the bound of the queue and the expiry of entries *)

Bounded == TypeOK /\ QueueBounded /\ EntriesExpire

LEMMA BoundedInit == Init => Bounded
<1> SUFFICES ASSUME Init PROVE Bounded
  OBVIOUS
<1>1. TypeOK
  BY ResolutionAssumption DEF Init, TypeOK, Absent, Forever
<1>2. QueueBounded
  BY ResolutionAssumption DEF Init, QueueBounded
<1>3. EverLasting = {}
  BY ResolutionAssumption DEF Init, EverLasting, Absent, Forever
<1>4. EntriesExpire
  <2>1. Cardinality(EverLasting) = 0
    BY <1>3, FS_EmptySet
  <2>2. Cardinality(EverLasting) <= losses
    BY <2>1 DEF Init
  <2> QED
    BY <2>2 DEF EntriesExpire, EverLasting
<1> QED
  BY <1>1, <1>2, <1>4 DEF Bounded

\* A step that leaves the queue and the entries alone.
LEMMA StoreUntouched ==
  ASSUME Bounded, UNCHANGED store, losses' \in losses..MaxLosses
  PROVE  QueueBounded' /\ EntriesExpire'
<1>1. QueueBounded'
  BY ResolutionAssumption DEF Bounded, TypeOK, QueueBounded, store
<1>2. EntriesExpire'
  BY EverLastingLemma DEF Bounded, store
<1> QED
  BY <1>1, <1>2

LEMMA BoundedStep == Bounded /\ [Next]_vars => Bounded'
<1> SUFFICES ASSUME Bounded, [Next]_vars PROVE Bounded'
  OBVIOUS
<1> USE ResolutionAssumption
<1>0. /\ TypeOK /\ QueueBounded /\ EntriesExpire
      /\ losses \in Nat /\ losses <= MaxLosses
  BY DEF Bounded, TypeOK
<1>1. ASSUME NEW c \in Callers, NEW a \in Addrs, GetAddress(c, a)
      PROVE  Bounded'
  <2>1. losses' \in losses..MaxLosses
    BY <1>0, <1>1 DEF GetAddress, Lost
  <2>2. UNCHANGED store
    BY <1>1 DEF GetAddress
  <2>3. TypeOK'
    <3>1. missed' \in [Callers -> Addrs \cup {NoAddr}]
      BY <1>0, <1>1 DEF GetAddress, TypeOK
    <3>2. unused' \in [Addrs -> 0..CacheDuration]
      <4>1. unused' = unused \/ unused' = [unused EXCEPT ![a] = 0]
        BY <1>1 DEF GetAddress
      <4>2. unused \in [Addrs -> 0..CacheDuration] /\ 0 \in 0..CacheDuration
        BY <1>0 DEF TypeOK
      <4> QED
        BY <4>1, <4>2
    <3>3. UNCHANGED <<queue, ttl, popped, asking, asked>>
      BY <1>1 DEF GetAddress, store
    <3> QED
      BY <1>0, <2>1, <3>1, <3>2, <3>3 DEF TypeOK
  <2> QED
    BY <2>1, <2>2, <2>3, StoreUntouched DEF Bounded
<1>2. ASSUME NEW c \in Callers, QueueMissed(c)
      PROVE  Bounded'
  <2>1. missed[c] \in Addrs /\ PushHost(missed[c], FALSE, FALSE)
    BY <1>0, <1>2 DEF QueueMissed, TypeOK
  <2>2. queue' \in Seq(Addrs) /\ losses' \in losses..MaxLosses /\ QueueBounded'
    BY <1>0, <2>1, PushHostLemma DEF TypeOK
  <2>3. TypeOK'
    BY <1>0, <1>2, <2>2 DEF QueueMissed, TypeOK
  <2>4. EntriesExpire'
    BY <1>0, <1>2, <2>2, EverLastingLemma DEF QueueMissed
  <2> QED
    BY <2>2, <2>3, <2>4 DEF Bounded
<1>3. ASSUME NEW a \in Addrs, OpenHostPage(a)
      PROVE  Bounded'
  <2>1. queue' \in Seq(Addrs) /\ losses' \in losses..MaxLosses /\ QueueBounded'
    BY <1>0, <1>3, PushHostLemma DEF OpenHostPage, TypeOK
  <2>2. TypeOK'
    BY <1>0, <1>3, <2>1 DEF OpenHostPage, TypeOK
  <2>3. EntriesExpire'
    BY <1>0, <1>3, <2>1, EverLastingLemma DEF OpenHostPage
  <2> QED
    BY <2>1, <2>2, <2>3 DEF Bounded
<1>4. ASSUME NEW a \in Addrs, Overhear(a)
      PROVE  Bounded'
  <2>1. /\ ttl' \in [Addrs -> 0..Forever] /\ unused' \in [Addrs -> 0..CacheDuration]
        /\ losses' \in losses..MaxLosses /\ EntriesExpire'
    BY <1>0, <1>4, SetResolvedLemma DEF Overhear
  <2>2. TypeOK'
    <3>1. UNCHANGED <<queue, missed, popped, asking, asked>>
      BY <1>4 DEF Overhear
    <3>2. losses' \in 0..MaxLosses
      BY <1>0, <2>1 DEF TypeOK
    <3> QED BY <1>0, <2>1, <3>1, <3>2 DEF TypeOK
  <2>3. QueueBounded'
    BY <1>0, <1>4, <2>1 DEF Overhear, QueueBounded, TypeOK
  <2> QED
    BY <2>1, <2>2, <2>3 DEF Bounded
<1>5. ASSUME NEW r \in Resolvers, PopHost(r)
      PROVE  Bounded'
  <2>1. losses' \in losses..MaxLosses
    BY <1>0, <1>5 DEF PopHost, Lost
  <2>2. queue \in Seq(Addrs) /\ queue # <<>>
    BY <1>0, <1>5 DEF PopHost, TypeOK
  <2>3. /\ Tail(queue) \in Seq(Addrs)
        /\ Len(Tail(queue)) = Len(queue) - 1
        /\ Head(queue) \in Addrs /\ Len(queue) \in Nat
    BY <2>2
  <2>4. TypeOK'
    <3>1. popped' \in [Resolvers -> Addrs \cup {NoAddr}]
      BY <1>0, <1>5, <2>3 DEF PopHost, TypeOK
    <3>2. \A o \in Resolvers : popped[o] # NoAddr => popped'[o] # NoAddr
      BY <1>0, <1>5, <2>3 DEF PopHost, TypeOK
    <3>3. asking' \subseteq {o \in Resolvers : popped'[o] # NoAddr}
      BY <1>0, <1>5, <3>2 DEF PopHost, TypeOK
    <3>4. queue' \in Seq(Addrs) /\ UNCHANGED <<ttl, missed, asked, unused>>
      BY <1>5, <2>3 DEF PopHost
    <3> QED
      BY <1>0, <2>1, <3>1, <3>3, <3>4 DEF TypeOK
  <2>5. QueueBounded'
    BY <1>0, <1>5, <2>1, <2>3 DEF PopHost, QueueBounded
  <2>6. EntriesExpire'
    BY <1>0, <1>5, <2>1, EverLastingLemma DEF PopHost
  <2> QED
    BY <2>4, <2>5, <2>6 DEF Bounded
<1>6. ASSUME NEW r \in Resolvers, LookUp(r)
      PROVE  Bounded'
  <2>1. losses' \in losses..MaxLosses
    BY <1>0, <1>6 DEF LookUp, Lost
  <2>2. UNCHANGED store
    BY <1>6 DEF LookUp
  <2>3. popped[r] \in Addrs
    BY <1>0, <1>6 DEF LookUp, TypeOK
  <2>4. TypeOK'
    <3>1. popped' \in [Resolvers -> Addrs \cup {NoAddr}]
      BY <1>0, <1>6 DEF LookUp, TypeOK
    <3>2. asking' \subseteq {o \in Resolvers : popped'[o] # NoAddr}
      BY <1>0, <1>6, <2>3 DEF LookUp, TypeOK
    <3>3. asked' \in [Addrs -> Nat]
      BY <1>0, <1>6, <2>3 DEF LookUp, TypeOK
    <3>4. unused' \in [Addrs -> 0..CacheDuration]
      <4>1. unused' = unused \/ unused' = [unused EXCEPT ![popped[r]] = 0]
        BY <1>6 DEF LookUp
      <4>2. unused \in [Addrs -> 0..CacheDuration] /\ 0 \in 0..CacheDuration
        BY <1>0, ResolutionAssumption DEF TypeOK
      <4> QED
        BY <2>3, <4>1, <4>2
    <3>5. UNCHANGED <<queue, ttl, missed>>
      BY <1>6 DEF LookUp, store
    <3> QED
      BY <1>0, <2>1, <3>1, <3>2, <3>3, <3>4, <3>5 DEF TypeOK
  <2> QED
    BY <2>1, <2>2, <2>4, StoreUntouched DEF Bounded
<1>7. ASSUME NEW r \in Resolvers, Answer(r)
      PROVE  Bounded'
  <2>1. popped[r] \in Addrs /\ SetResolvedAddress(popped[r])
    BY <1>0, <1>7 DEF Answer, TypeOK
  <2>2. /\ ttl' \in [Addrs -> 0..Forever] /\ unused' \in [Addrs -> 0..CacheDuration]
        /\ losses' \in losses..MaxLosses /\ EntriesExpire'
    BY <1>0, <2>1, SetResolvedLemma
  <2>3. TypeOK'
    BY <1>0, <1>7, <2>2 DEF Answer, TypeOK
  <2>4. QueueBounded'
    BY <1>0, <1>7, <2>2 DEF Answer, QueueBounded, TypeOK
  <2> QED
    BY <2>2, <2>3, <2>4 DEF Bounded
<1>8. CASE Tick
  <2>1. losses' \in losses..MaxLosses
    BY <1>0, <1>8 DEF Tick, Lost
  <2>2. ttl' \in [Addrs -> 0..Forever]
    BY <1>0, <1>8 DEF Tick, TypeOK, Forever
  <2>3. unused' \in [Addrs -> 0..CacheDuration]
    BY <1>0, <1>8 DEF Tick, TypeOK
  <2>4. asked' \in [Addrs -> Nat]
    BY <1>0, <1>8 DEF Tick, TypeOK
  <2>5. TypeOK'
    BY <1>0, <1>8, <2>1, <2>2, <2>3, <2>4 DEF Tick, TypeOK
  <2>6. QueueBounded'
    BY <1>0, <1>8, <2>1 DEF Tick, QueueBounded, TypeOK
  <2>7. \A a \in Addrs : ttl'[a] = Forever => ttl[a] = Forever
    BY <1>0, <1>8 DEF Tick, TypeOK, Forever
  <2>8. EntriesExpire'
    BY <1>0, <2>1, <2>7, EverLastingLemma
  <2> QED
    BY <2>5, <2>6, <2>8 DEF Bounded
<1>9. CASE Restart
  <2>1. Cardinality({r \in Resolvers : popped[r] # NoAddr}) \in Nat
    BY FS_Subset, FS_CardinalityType
  <2>2. losses' \in losses..MaxLosses
    BY <1>0, <1>9, <2>1 DEF Restart, Lost
  <2>3. UNCHANGED store
    BY <1>9 DEF Restart
  <2>4. TypeOK'
    BY <1>0, <1>9, <2>2 DEF Restart, TypeOK, store
  <2> QED
    BY <2>2, <2>3, <2>4, StoreUntouched DEF Bounded
<1>10. CASE UNCHANGED vars
  <2>1. TypeOK'
    BY <1>0, <1>10 DEF vars, store, TypeOK
  <2>2. losses' \in losses..MaxLosses /\ UNCHANGED store
    BY <1>0, <1>10 DEF vars
  <2> QED
    BY <2>1, <2>2, StoreUntouched DEF Bounded
<1> QED
  BY <1>1, <1>2, <1>3, <1>4, <1>5, <1>6, <1>7, <1>8, <1>9, <1>10 DEF Next

LEMMA BoundedAlways == Spec => []Bounded
<1> QED
  BY BoundedInit, BoundedStep, PTL DEF Spec

\* The queue holds addresses, every thread works on an address or on none, and no
\* more than MaxLosses commands are lost (pushHost(), popHost(), getAddress()).
THEOREM TypeCorrect == Spec => []TypeOK
<1>1. Bounded => TypeOK
  BY DEF Bounded
<1> QED
  BY <1>1, BoundedAlways, PTL

\* The trim of pushHost() bounds the queue whatever commands are lost.
THEOREM QueueStaysBounded == Spec => []QueueBounded
<1>1. Bounded => QueueBounded
  BY DEF Bounded
<1> QED
  BY <1>1, BoundedAlways, PTL

\* setResolvedAddress() leaves an entry without expiry only where it lost the EXPIRE.
THEOREM EntriesDoExpire == Spec => []EntriesExpire
<1>1. Bounded => EntriesExpire
  BY DEF Bounded
<1> QED
  BY <1>1, BoundedAlways, PTL

-------------------------------------------------------------------------------
(* Queries *)

Queries ==
  /\ Bounded
  /\ LooksAgain
  /\ AskedOncePerResolver
  /\ QueriesAccounted

\* The resolvers that ask for an address are among all of them.
LEMMA AskingLemma ==
  ASSUME TypeOK, NEW a \in Addrs
  PROVE  /\ Asking(a) \subseteq Resolvers
         /\ IsFiniteSet(Asking(a))
         /\ Cardinality(Asking(a)) \in Nat
         /\ Cardinality(Asking(a)) <= Cardinality(Resolvers)
         /\ Cardinality(Resolvers) \in Nat
<1>1. Asking(a) \subseteq Resolvers
  BY DEF Asking, TypeOK
<1> QED
  BY <1>1, ResolutionAssumption, FS_Subset, FS_CardinalityType

\* Nothing is asked, no entry expires and no query ends.
LEMMA QueriesUntouched ==
  ASSUME Queries, Bounded', losses' >= losses,
         UNCHANGED asked,
         \A a \in Addrs : Cached(a) => Cached(a)',
         \A a \in Addrs : Asking(a)' = Asking(a)
  PROVE  AskedOncePerResolver' /\ QueriesAccounted'
<1>1. /\ losses \in Nat /\ losses' \in Nat /\ asked \in [Addrs -> Nat]
      /\ TypeOK
  BY DEF Queries, Bounded, TypeOK
<1>2. Cardinality(Resolvers) \in Nat
  BY ResolutionAssumption, FS_CardinalityType
<1>3. AskedOncePerResolver'
  BY <1>1, <1>2 DEF Queries, AskedOncePerResolver
<1>4. ASSUME NEW a \in Addrs, ~Cached(a)'
      PROVE  asked'[a] <= Cardinality(Asking(a)') + losses'
  <2>1. asked[a] <= Cardinality(Asking(a)) + losses
    BY <1>4 DEF Queries, QueriesAccounted
  <2>2. Cardinality(Asking(a)) \in Nat /\ Asking(a)' = Asking(a)
    BY <1>1, AskingLemma
  <2>3. asked[a] \in Nat /\ asked'[a] = asked[a]
    BY <1>1
  <2>4. asked'[a] <= Cardinality(Asking(a)) + losses'
    BY <1>1, <2>1, <2>2, <2>3
  <2> QED
    BY <2>2, <2>4
<1> QED
  BY <1>3, <1>4 DEF QueriesAccounted

LEMMA QueriesInit == Init /\ LooksAgain => Queries
<1> SUFFICES ASSUME Init, LooksAgain PROVE Queries
  OBVIOUS
<1>1. Bounded
  BY BoundedInit
<1>2. AskedOncePerResolver
  BY ResolutionAssumption, FS_CardinalityType DEF Init, AskedOncePerResolver
<1>3. ASSUME NEW a \in Addrs
      PROVE  asked[a] <= Cardinality(Asking(a)) + losses
  <2>1. Cardinality(Asking(a)) \in Nat
    BY <1>1, AskingLemma DEF Bounded
  <2>2. asked[a] = 0 /\ losses = 0
    BY DEF Init
  <2> QED
    BY <2>1, <2>2
<1> QED
  BY <1>1, <1>2, <1>3 DEF Queries, QueriesAccounted

\* A query is sent: for an address without entry the resolver joins those asking; for
\* one with an entry, a reply was lost.
LEMMA QueriesLookUp ==
  ASSUME Queries, Bounded', NEW r \in Resolvers, LookUp(r)
  PROVE  AskedOncePerResolver' /\ QueriesAccounted'
<1> USE ResolutionAssumption
<1>0. /\ TypeOK /\ losses \in Nat /\ losses' \in Nat /\ asked \in [Addrs -> Nat]
      /\ popped[r] \in Addrs /\ r \notin asking
      /\ UNCHANGED ttl /\ LooksAgain
      /\ Cardinality(Resolvers) \in Nat
  BY FS_CardinalityType DEF Queries, Bounded, TypeOK, LookUp, store
<1>1. CASE ~Unknown(popped[r]) /\ popped' = [popped EXCEPT ![r] = NoAddr]
           /\ Lost(0) /\ UNCHANGED <<asking, asked>>
  <2>1. \A a \in Addrs : Asking(a)' = Asking(a)
    BY <1>0, <1>1 DEF Asking, TypeOK
  <2>2. \A a \in Addrs : Cached(a) => Cached(a)'
    BY <1>0 DEF Cached
  <2>3. losses' >= losses
    BY <1>0, <1>1 DEF Lost
  <2> QED
    BY <1>1, <2>1, <2>2, <2>3, QueriesUntouched
<1>2. CASE /\ asking' = asking \cup {r}
           /\ asked' = [asked EXCEPT ![popped[r]] = @ + 1]
           /\ Lost(IF Unknown(popped[r]) THEN 0 ELSE 1)
           /\ UNCHANGED <<popped, unused>>
  <2>a. PICK p \in Addrs : p = popped[r]
    BY <1>0
  <2>1. CASE Cached(p)
    <3>1. losses' = losses + 1
      BY <2>a, <1>0, <1>2, <2>1 DEF Lost, Unknown
    <3>2. AskedOncePerResolver'
      BY <2>a, <1>0, <1>2, <3>1 DEF Queries, AskedOncePerResolver
    <3>3. ASSUME NEW a \in Addrs, ~Cached(a)'
          PROVE  asked'[a] <= Cardinality(Asking(a)') + losses'
      <4>1. a # p /\ ~Cached(a)
        BY <1>0, <2>1, <3>3 DEF Cached
      <4>2. Asking(a)' = Asking(a) /\ asked'[a] = asked[a]
        BY <2>a, <1>0, <1>2, <4>1 DEF Asking
      <4>3. asked[a] <= Cardinality(Asking(a)) + losses
        BY <4>1 DEF Queries, QueriesAccounted
      <4>4. Cardinality(Asking(a)) \in Nat /\ asked[a] \in Nat
        BY <1>0, AskingLemma
      <4>5. asked[a] <= Cardinality(Asking(a)) + losses'
        BY <1>0, <3>1, <4>3, <4>4
      <4> QED
        BY <4>2, <4>5
    <3> QED
      BY <3>2, <3>3 DEF QueriesAccounted
  <2>2. CASE ~Cached(p)
    <3>1. losses' = losses
      BY <2>a, <1>0, <1>2, <2>2 DEF Lost, Unknown
    <3>2. /\ IsFiniteSet(Asking(p)) /\ Cardinality(Asking(p)) \in Nat
          /\ asked[p] \in Nat
      BY <1>0, AskingLemma
    <3>3. Asking(p)' = Asking(p) \cup {r} /\ r \notin Asking(p)
      BY <2>a, <1>0, <1>2 DEF Asking
    <3>4. Cardinality(Asking(p) \cup {r}) = Cardinality(Asking(p)) + 1
      BY <3>2, <3>3, FS_AddElement
    <3>5. asked[p] <= Cardinality(Asking(p)) + losses
      BY <1>0, <2>2 DEF Queries, QueriesAccounted
    <3>6. asked'[p] = asked[p] + 1
      BY <2>a, <1>0, <1>2
    <3>7. asked'[p] <= Cardinality(Asking(p) \cup {r}) + losses'
      BY <1>0, <3>1, <3>2, <3>4, <3>5, <3>6
    <3>8. Asking(p) \cup {r} \subseteq Resolvers
      BY <1>0, AskingLemma
    <3>9. Cardinality(Asking(p) \cup {r}) <= Cardinality(Resolvers)
      BY <3>8, FS_Subset
    <3>10. asked'[p] <= Cardinality(Resolvers) + losses'
      BY <1>0, <3>2, <3>4, <3>6, <3>7, <3>9
    <3>11. AskedOncePerResolver'
      BY <2>a, <1>0, <1>2, <3>1, <3>10 DEF Queries, AskedOncePerResolver
    <3>12. ASSUME NEW a \in Addrs, ~Cached(a)', a # p
           PROVE  asked'[a] <= Cardinality(Asking(a)') + losses'
      <4>1. ~Cached(a)
        BY <1>0, <3>12 DEF Cached
      <4>2. Asking(a)' = Asking(a) /\ asked'[a] = asked[a]
        BY <2>a, <1>0, <1>2, <3>12 DEF Asking
      <4>3. asked[a] <= Cardinality(Asking(a)) + losses
        BY <4>1 DEF Queries, QueriesAccounted
      <4> QED
        BY <3>1, <4>2, <4>3
    <3>13. asked'[p] <= Cardinality(Asking(p)') + losses'
      BY <3>3, <3>7
    <3>14. ASSUME NEW a \in Addrs, ~Cached(a)'
           PROVE  asked'[a] <= Cardinality(Asking(a)') + losses'
      <4>1. CASE a = p
        BY <3>13, <4>1
      <4>2. CASE a # p
        BY <3>12, <3>14, <4>2
      <4> QED
        BY <4>1, <4>2
    <3> QED
      BY <3>11, <3>14 DEF QueriesAccounted
  <2> QED
    BY <2>1, <2>2
<1> QED
  BY <1>1, <1>2 DEF LookUp

\* An answer is cached, or is the loss that accounts for its query.
LEMMA QueriesAnswer ==
  ASSUME Queries, Bounded', NEW r \in Resolvers, Answer(r)
  PROVE  AskedOncePerResolver' /\ QueriesAccounted'
<1>a. PICK p \in Addrs : p = popped[r]
  BY ResolutionAssumption DEF Queries, Bounded, TypeOK, Answer
<1>b. /\ TypeOK /\ EntriesExpire /\ losses \in Nat /\ losses' \in Nat
      /\ asked \in [Addrs -> Nat]
      /\ popped \in [Resolvers -> Addrs \cup {NoAddr}]
  <2>1. TypeOK /\ EntriesExpire /\ TypeOK'
    BY DEF Queries, Bounded
  <2>2. losses \in 0..MaxLosses /\ losses' \in 0..MaxLosses /\ MaxLosses \in Nat
    BY <2>1, ResolutionAssumption DEF TypeOK
  <2> QED
    BY <2>1, <2>2 DEF TypeOK
<1>c. /\ asked' = asked /\ r \in asking /\ asking' = asking \ {r}
      /\ popped' = [popped EXCEPT ![r] = NoAddr]
      /\ SetResolvedAddress(p)
  BY <1>a DEF Answer
<1>d. Cardinality(Resolvers) \in Nat
  BY ResolutionAssumption, FS_CardinalityType
<1>0. /\ TypeOK /\ EntriesExpire /\ losses \in Nat /\ losses' \in Nat
      /\ asked \in [Addrs -> Nat] /\ asked' = asked
      /\ r \in asking /\ asking' = asking \ {r}
      /\ popped' = [popped EXCEPT ![r] = NoAddr]
      /\ SetResolvedAddress(p)
      /\ Cardinality(Resolvers) \in Nat
  BY <1>b, <1>c, <1>d
<1>1. /\ losses' \in losses..MaxLosses
      /\ Cached(p)' \/ (ttl' = ttl /\ losses' = losses + 1)
      /\ \A b \in Addrs \ {p} : ttl'[b] = ttl[b]
  BY <1>0, SetResolvedLemma
<1>2. losses' >= losses
  BY <1>0, <1>1, ResolutionAssumption
<1>3. AskedOncePerResolver'
  BY <1>0, <1>2 DEF Queries, AskedOncePerResolver
<1>4. ASSUME NEW a \in Addrs, ~Cached(a)'
      PROVE  asked'[a] <= Cardinality(Asking(a)') + losses'
  <2>0. /\ IsFiniteSet(Asking(a)) /\ Cardinality(Asking(a)) \in Nat
        /\ asked'[a] = asked[a] /\ asked[a] \in Nat
    BY <1>0, AskingLemma
  <2>1. CASE a # p
    <3>1. ~Cached(a)
      BY <1>1, <1>4, <2>1 DEF Cached
    <3>2. Asking(a)' = Asking(a)
      BY <1>a, <1>0, <2>1 DEF Asking, TypeOK
    <3>3. asked[a] <= Cardinality(Asking(a)) + losses
      BY <3>1 DEF Queries, QueriesAccounted
    <3>4. asked[a] <= Cardinality(Asking(a)) + losses'
      BY <1>0, <1>2, <2>0, <3>3
    <3> QED
      BY <2>0, <3>2, <3>4
  <2>2. CASE a = p
    <3>1. ttl' = ttl /\ losses' = losses + 1
      BY <1>1, <1>4, <2>2
    <3>2. ~Cached(a)
      BY <1>4, <3>1 DEF Cached
    <3>3. Asking(a)' = Asking(a) \ {r} /\ r \in Asking(a)
      BY <1>a, <1>0, <2>2 DEF Asking, TypeOK
    <3>4. Cardinality(Asking(a) \ {r}) = Cardinality(Asking(a)) - 1
      BY <2>0, <3>3, FS_RemoveElement
    <3>5. asked[a] <= Cardinality(Asking(a)) + losses
      BY <3>2 DEF Queries, QueriesAccounted
    <3>6. asked[a] <= Cardinality(Asking(a) \ {r}) + losses'
      BY <1>0, <2>0, <3>1, <3>4, <3>5
    <3> QED
      BY <2>0, <3>3, <3>6
  <2> QED
    BY <2>1, <2>2
<1> QED
  BY <1>3, <1>4 DEF QueriesAccounted

\* An entry that expires starts the count again.
LEMMA QueriesTick ==
  ASSUME Queries, Bounded', Tick
  PROVE  AskedOncePerResolver' /\ QueriesAccounted'
<1>0. /\ TypeOK /\ losses \in Nat /\ losses' = losses
      /\ asked \in [Addrs -> Nat] /\ ttl \in [Addrs -> 0..Forever]
      /\ \A a \in Addrs : asked'[a] = IF ttl[a] = 1 THEN 0 ELSE asked[a]
      /\ UNCHANGED <<popped, asking>>
      /\ Cardinality(Resolvers) \in Nat
  BY ResolutionAssumption, FS_CardinalityType DEF Queries, Bounded, TypeOK, Tick, Lost
<1>1. \A a \in Addrs : asked'[a] \in Nat /\ asked'[a] <= asked[a]
  BY <1>0
<1>2. AskedOncePerResolver'
  BY <1>0, <1>1 DEF Queries, AskedOncePerResolver
<1>3. ASSUME NEW a \in Addrs, ~Cached(a)'
      PROVE  asked'[a] <= Cardinality(Asking(a)') + losses'
  <2>0. Asking(a)' = Asking(a) /\ Cardinality(Asking(a)) \in Nat
    BY <1>0, AskingLemma DEF Asking
  <2>1. CASE ttl[a] = 1
    <3>1. asked'[a] = 0
      BY <1>0, <2>1
    <3>2. asked'[a] <= Cardinality(Asking(a)) + losses'
      BY <1>0, <2>0, <3>1
    <3> QED
      BY <2>0, <3>2
  <2>2. CASE ttl[a] # 1
    <3>1. ~Cached(a)
      BY <1>0, <1>3, <2>2, ResolutionAssumption DEF Tick, Cached, Absent, Forever
    <3>2. asked[a] <= Cardinality(Asking(a)) + losses
      BY <3>1 DEF Queries, QueriesAccounted
    <3>3. asked'[a] <= Cardinality(Asking(a)) + losses'
      BY <1>0, <2>2, <3>2
    <3> QED
      BY <2>0, <3>3
  <2> QED
    BY <2>1, <2>2
<1> QED
  BY <1>2, <1>3 DEF QueriesAccounted

\* A restart ends the queries, each counted as a loss.
LEMMA QueriesRestart ==
  ASSUME Queries, Bounded', Restart
  PROVE  AskedOncePerResolver' /\ QueriesAccounted'
<1> DEFINE Busy == {r \in Resolvers : popped[r] # NoAddr}
<1>0. /\ TypeOK /\ losses \in Nat /\ losses' \in Nat /\ asked \in [Addrs -> Nat]
      /\ UNCHANGED <<ttl, asked>>
  BY ResolutionAssumption DEF Queries, Bounded, TypeOK, Restart, store
<1>1. /\ IsFiniteSet(Busy) /\ Cardinality(Busy) \in Nat
      /\ Cardinality(Resolvers) \in Nat
  BY ResolutionAssumption, FS_Subset, FS_CardinalityType
<1>2. losses' = losses + Cardinality(Busy)
  BY DEF Restart, Lost
<1>3. AskedOncePerResolver'
  BY <1>0, <1>1, <1>2 DEF Queries, AskedOncePerResolver
<1>4. ASSUME NEW a \in Addrs, ~Cached(a)'
      PROVE  asked'[a] <= Cardinality(Asking(a)') + losses'
  <2>1. Asking(a) \subseteq Busy
    BY <1>0, ResolutionAssumption DEF Asking, TypeOK
  <2>2. Cardinality(Asking(a)) <= Cardinality(Busy) /\ Cardinality(Asking(a)) \in Nat
    BY <1>0, <1>1, <2>1, FS_Subset, AskingLemma
  <2>3. asked[a] <= Cardinality(Asking(a)) + losses
    BY <1>0, <1>4 DEF Cached, Queries, QueriesAccounted
  <2>4. Cardinality(Asking(a)') = 0
    <3>1. Asking(a)' = {}
      BY DEF Asking, Restart
    <3> QED
      BY <3>1, FS_EmptySet
  <2>5. asked[a] <= losses'
    BY <1>0, <1>1, <1>2, <2>2, <2>3
  <2> QED
    BY <1>0, <2>4, <2>5
<1> QED
  BY <1>3, <1>4 DEF QueriesAccounted

LEMMA QueriesStep == Queries /\ [Next]_vars => Queries'
<1> SUFFICES ASSUME Queries, [Next]_vars PROVE AskedOncePerResolver' /\ QueriesAccounted'
  BY BoundedStep DEF Queries
<1>0. Bounded' /\ TypeOK /\ QueueBounded /\ EntriesExpire /\ losses \in Nat
  <2>1. Bounded'
    BY BoundedStep DEF Queries
  <2>2. TypeOK /\ QueueBounded /\ EntriesExpire
    BY DEF Queries, Bounded
  <2>3. losses \in Nat
    BY <2>2, ResolutionAssumption DEF TypeOK
  <2> QED
    BY <2>1, <2>2, <2>3
<1>a. ASSUME UNCHANGED <<popped, asking>>
      PROVE  \A a \in Addrs : Asking(a)' = Asking(a)
  BY <1>a DEF Asking
<1>b. ASSUME UNCHANGED ttl
      PROVE  \A a \in Addrs : Cached(a) => Cached(a)'
  BY <1>b DEF Cached
<1>1. ASSUME NEW c \in Callers, NEW a \in Addrs, GetAddress(c, a)
      PROVE  AskedOncePerResolver' /\ QueriesAccounted'
  <2>1. losses' >= losses /\ UNCHANGED <<ttl, popped, asking, asked>>
    BY <1>0, <1>1 DEF GetAddress, Lost, store
  <2> QED
    BY <1>0, <1>a, <1>b, <2>1, QueriesUntouched
<1>2. ASSUME NEW c \in Callers, QueueMissed(c)
      PROVE  AskedOncePerResolver' /\ QueriesAccounted'
  <2>1. missed[c] \in Addrs /\ PushHost(missed[c], FALSE, FALSE)
    BY <1>0, <1>2 DEF QueueMissed, TypeOK
  <2>2. losses' >= losses
    <3>1. queue \in Seq(Addrs)
      BY <1>0 DEF TypeOK
    <3>2. losses' \in losses..MaxLosses
      BY <1>0, <2>1, <3>1, PushHostLemma
    <3> QED
      BY <1>0, <3>2, ResolutionAssumption
  <2>3. UNCHANGED <<ttl, popped, asking, asked>>
    BY <1>2 DEF QueueMissed
  <2> QED
    BY <1>0, <1>a, <1>b, <2>2, <2>3, QueriesUntouched
<1>3. ASSUME NEW a \in Addrs, OpenHostPage(a)
      PROVE  AskedOncePerResolver' /\ QueriesAccounted'
  <2>1. losses' >= losses
    <3>1. queue \in Seq(Addrs) /\ PushHost(a, TRUE, TRUE)
      BY <1>0, <1>3 DEF OpenHostPage, TypeOK
    <3>2. losses' \in losses..MaxLosses
      BY <1>0, <3>1, PushHostLemma
    <3> QED
      BY <1>0, <3>2, ResolutionAssumption
  <2>2. UNCHANGED <<ttl, popped, asking, asked>>
    BY <1>3 DEF OpenHostPage
  <2> QED
    BY <1>0, <1>a, <1>b, <2>1, <2>2, QueriesUntouched
<1>4. ASSUME NEW a \in Addrs, Overhear(a)
      PROVE  AskedOncePerResolver' /\ QueriesAccounted'
  <2>1. /\ losses' \in losses..MaxLosses
        /\ Cached(a)' \/ ttl' = ttl
        /\ \A b \in Addrs \ {a} : ttl'[b] = ttl[b]
    BY <1>0, <1>4, SetResolvedLemma DEF Overhear
  <2>2. losses' >= losses
    BY <1>0, <2>1, ResolutionAssumption
  <2>3. \A b \in Addrs : Cached(b) => Cached(b)'
    BY <2>1 DEF Cached
  <2>4. UNCHANGED <<popped, asking, asked>>
    BY <1>4 DEF Overhear
  <2> QED
    BY <1>0, <1>a, <2>2, <2>3, <2>4, QueriesUntouched
<1>5. ASSUME NEW r \in Resolvers, PopHost(r)
      PROVE  AskedOncePerResolver' /\ QueriesAccounted'
  <2>1. losses' >= losses /\ UNCHANGED <<ttl, asking, asked>>
    BY <1>0, <1>5 DEF PopHost, Lost
  <2>2. r \notin asking
    BY <1>0, <1>5 DEF PopHost, TypeOK
  <2>3. \A o \in asking : popped'[o] = popped[o]
    BY <1>0, <1>5, <2>2 DEF PopHost, TypeOK
  <2>4. \A a \in Addrs : Asking(a)' = Asking(a)
    BY <2>1, <2>3 DEF Asking
  <2> QED
    BY <1>0, <1>b, <2>1, <2>4, QueriesUntouched
<1>6. ASSUME NEW r \in Resolvers, LookUp(r)
      PROVE  AskedOncePerResolver' /\ QueriesAccounted'
  BY <1>0, <1>6, QueriesLookUp
<1>7. ASSUME NEW r \in Resolvers, Answer(r)
      PROVE  AskedOncePerResolver' /\ QueriesAccounted'
  BY <1>0, <1>7, QueriesAnswer
<1>8. CASE Tick
  BY <1>0, <1>8, QueriesTick
<1>9. CASE Restart
  BY <1>0, <1>9, QueriesRestart
<1>10. CASE UNCHANGED vars
  <2>1. losses' >= losses /\ UNCHANGED <<ttl, popped, asking, asked>>
    BY <1>0, <1>10 DEF vars, store
  <2> QED
    BY <1>0, <1>a, <1>b, <2>1, QueriesUntouched
<1> QED
  BY <1>1, <1>2, <1>3, <1>4, <1>5, <1>6, <1>7, <1>8, <1>9, <1>10 DEF Next

\* resolveHostName() looks in the cache again after popHost(): however often an
\* address was queued, each resolver asks for it at most once until its entry expires,
\* but for losses.  HTTP:BL does not look, and this does not hold of it.
THEOREM AskedAtMostOnce == Spec /\ LooksAgain => []AskedOncePerResolver
<1>1. Queries => AskedOncePerResolver
  BY DEF Queries
<1> QED
  BY <1>1, QueriesInit, QueriesStep, PTL DEF Spec

-------------------------------------------------------------------------------
(* Requests to the web server: what a request has left to do *)

CallSteps == {"find", "lookup", "walk", "list hosts", "list strings", "search", "list flows", "restore"}
UserCommands == {"full", "group", "password", "-full", "-group", "-password", "check", "reset"}
\* What a page consists of, besides the steps every page may have.
CommonSteps == {"authorize", "extend", "csrf", "choice", "default"}
Kinds == {{"login", "store"}, {"list", "token"}, {"delete"}, {"flush"}, {"switch"}, {"logout"}, UserCommands, CallSteps}

\* Steps that only come as a pair, one right after the other.
Second(s) ==
  CASE s = "list" -> "token" [] s = "full" -> "group" [] s = "group" -> "password"
    [] s = "-full" -> "-group" [] s = "-group" -> "-password" [] s = "check" -> "reset"
Firsts == {"list", "full", "group", "-full", "-group", "check"}
Seconds == {"token", "group", "password", "-group", "-password", "reset"}

Paired(steps) ==
  /\ \A k \in 1..Len(steps) : steps[k] \in Firsts => k < Len(steps) /\ steps[k + 1] = Second(steps[k])
  /\ \A k \in 2..Len(steps) : steps[k] \in Seconds => steps[k - 1] \in Firsts /\ steps[k] = Second(steps[k - 1])
  /\ \A k \in 1..Len(steps) : steps[k] = "token" => k = Len(steps)

StepsOK(steps) ==
  /\ \E K \in Kinds : steps \in Seq(CommonSteps \cup K)
  /\ Paired(steps)
  /\ \A k \in 2..Len(steps) : steps[k] \notin {"default", "extend"}

\* A request that still has one of the steps to do.
Has(steps, names) == \E k \in 1..Len(steps) : steps[k] \in names

\* The rows of a page are those of the queue it was made from, from its first row on.
PageOK(page) ==
  /\ page.first \in Nat
  /\ \A k \in DOMAIN page.alerts : k \in Nat \ {0} /\ page.alerts[k] = page.queue[page.first + k]

DeleteOK(a) == a.index \in Nat /\ a.queue[a.index + 1] = a.alert

ReqFields == {"browser", "cookie", "steps", "arg", "ifname", "iface", "told"}

ReqOK(r) ==
  /\ DOMAIN r = ReqFields /\ StepsOK(r.steps)
  /\ Has(r.steps, {"delete"}) => DeleteOK(r.arg)
  /\ Has(r.steps, UserCommands) => r.arg.user \in User
  /\ Has(r.steps, {"list"}) => r.arg.number \in Nat \ {0}
  /\ r.steps # <<>> /\ Head(r.steps) = "token" => PageOK(r.arg)

RequestsOK == DOMAIN req = Worker /\ \A w \in Worker : ReqOK(req[w])

AlertsOK == alerts \in Seq(Nat) /\ DOMAIN budget = {"requests", "events"} /\ budget.events \in Nat
PagesOK == DOMAIN shown = Browser /\ \A b \in Browser : PageOK(shown[b])

\* Worker w is at a command on the keys of user u.
At(w, u, name) == Step(w, name) /\ req[w].arg.user = u

\* A user no two requests changed at once is whole, or one that is half-way in deleting it
\* makes up for it; what is half-way in adding it has written what it is to have written.
UserOK(u) ==
  /\ \A w \in Worker :
       /\ At(w, u, "group") => users[u].full
       /\ At(w, u, "password") => users[u].full /\ users[u].group
       /\ At(w, u, "reset") => users[u].password # NoText
  /\ users[u].password # NoText =>
       \/ users[u].full /\ users[u].group
       \/ \E w \in Worker : At(w, u, "-group") \/ At(w, u, "-password")

UsersOK ==
  /\ DOMAIN users = User
  /\ \A u \in User : DOMAIN users[u] = {"full", "group", "password"}
                     /\ users[u].full \in BOOLEAN /\ users[u].group \in BOOLEAN
  /\ \A u \in User \ mixed : UserOK(u)

\* A user's choice is stored for good, and nobody is about to store a default over it.
ChoiceOK(u) ==
  /\ choice[u] = [name |-> switched[u], expires |-> FALSE]
  /\ \E i \in DOMAIN Interfaces : switched[u] = Interfaces[i].name
  /\ \A w \in Worker : Step(w, "default") => UserOf(w) # u

ChoicesOK ==
  /\ DOMAIN choice = User \cup {NoText} /\ DOMAIN switched = User \cup {NoText}
  /\ \A u \in User : switched[u] # NoText /\ u \notin mixed => ChoiceOK(u)

WebInv == RequestsOK /\ AlertsOK /\ PagesOK /\ DeletedAsShown /\ UsersOK

LEMMA UserStepsAre == UserSteps = UserCommands
BY DEF UserSteps, UserCommands, AddUser, DeleteUser, ResetUserPassword, ToSet

LEMMA TailOK ==
  ASSUME NEW s, StepsOK(s), s # <<>>
  PROVE  /\ StepsOK(Tail(s)) /\ Len(Tail(s)) = Len(s) - 1 /\ Len(s) \in Nat /\ Len(s) >= 1
         /\ Head(s) = s[1] /\ \A k \in 1..(Len(s) - 1) : Tail(s)[k] = s[k + 1]
         /\ <<>> \o Tail(s) = Tail(s)
<1>1. PICK K \in Kinds : s \in Seq(CommonSteps \cup K)
  BY DEF StepsOK
<1> DEFINE S == CommonSteps \cup K
           t == Tail(s)
<1> HIDE DEF S
<1>2. s \in Seq(S)
  BY <1>1 DEF S
<1>3. /\ t \in Seq(S) /\ Len(t) = Len(s) - 1 /\ Len(s) \in Nat /\ Len(s) >= 1
      /\ Head(s) = s[1] /\ \A k \in 1..(Len(s) - 1) : t[k] = s[k + 1]
  BY <1>2
<1>4. <<>> \o t = t
  BY <1>3
<1> HIDE DEF t
<1>5. Paired(t)
  <2>1. ASSUME NEW k \in 1..Len(t), t[k] \in Firsts PROVE k < Len(t) /\ t[k + 1] = Second(t[k])
    <3>1. k + 1 \in 1..Len(s) /\ s[k + 1] = t[k]
      BY <1>3, <2>1
    <3>2. k + 1 < Len(s) /\ s[k + 1 + 1] = Second(s[k + 1])
      BY <2>1, <3>1 DEF StepsOK, Paired
    <3> QED
      BY <1>3, <3>1, <3>2
  <2>2. ASSUME NEW k \in 2..Len(t), t[k] \in Seconds PROVE t[k - 1] \in Firsts /\ t[k] = Second(t[k - 1])
    <3>1. k + 1 \in 2..Len(s) /\ s[k + 1] = t[k] /\ s[k + 1 - 1] = t[k - 1]
      BY <1>3, <2>2
    <3>2. s[k + 1 - 1] \in Firsts /\ s[k + 1] = Second(s[k + 1 - 1])
      BY <2>2, <3>1 DEF StepsOK, Paired
    <3> QED
      BY <3>1, <3>2
  <2>3. ASSUME NEW k \in 1..Len(t), t[k] = "token" PROVE k = Len(t)
    <3>1. k + 1 \in 1..Len(s) /\ s[k + 1] = t[k]
      BY <1>3, <2>3
    <3>2. k + 1 = Len(s)
      BY <2>3, <3>1 DEF StepsOK, Paired
    <3> QED
      BY <1>3, <3>1, <3>2
  <2> QED
    BY <2>1, <2>2, <2>3 DEF Paired
<1>6. \A k \in 2..Len(t) : t[k] \notin {"default", "extend"}
  BY <1>3 DEF StepsOK
<1>7. StepsOK(t)
  BY <1>3, <1>5, <1>6 DEF StepsOK, S
<1> QED
  BY <1>3, <1>4, <1>7 DEF t

LEMMA PrefixOK ==
  ASSUME NEW s, StepsOK(s), s # <<>>, Head(s) \in {"authorize", "choice"}, NEW x \in {"extend", "default"}
  PROVE  /\ StepsOK(<<x>> \o Tail(s)) /\ Len(<<x>> \o Tail(s)) = Len(s) /\ (<<x>> \o Tail(s))[1] = x
         /\ \A k \in 2..Len(s) : (<<x>> \o Tail(s))[k] = s[k]
<1>1. PICK K \in Kinds : s \in Seq(CommonSteps \cup K)
  BY DEF StepsOK
<1> DEFINE S == CommonSteps \cup K
           t == <<x>> \o Tail(s)
<1>2. s \in Seq(S) /\ x \in S
  BY <1>1 DEF CommonSteps
<1> HIDE DEF S
<1>3. Tail(s) \in Seq(S) /\ Len(Tail(s)) = Len(s) - 1 /\ Len(s) \in Nat /\ Len(s) >= 1
      /\ Head(s) = s[1] /\ \A k \in 1..(Len(s) - 1) : Tail(s)[k] = s[k + 1]
  BY <1>2
<1>4. t \in Seq(S) /\ Len(t) = Len(s) /\ t[1] = x /\ \A k \in 2..Len(s) : t[k] = Tail(s)[k - 1]
  BY <1>2, <1>3
<1>5. \A k \in 2..Len(s) : t[k] = s[k]
  BY <1>3, <1>4
<1> HIDE DEF t
<1>6. x \notin Firsts /\ x \notin Seconds /\ s[1] \notin Firsts
  BY <1>3 DEF Firsts, Seconds
<1>7. Paired(t)
  <2>1. ASSUME NEW k \in 1..Len(t), t[k] \in Firsts PROVE k < Len(t) /\ t[k + 1] = Second(t[k])
    <3>1. k \in 2..Len(s) /\ t[k] = s[k]
      BY <1>3, <1>4, <1>5, <1>6, <2>1
    <3>2. k < Len(s) /\ s[k + 1] = Second(s[k])
      BY <2>1, <3>1 DEF StepsOK, Paired
    <3> QED
      BY <1>3, <1>4, <1>5, <3>1, <3>2
  <2>2. ASSUME NEW k \in 2..Len(t), t[k] \in Seconds PROVE t[k - 1] \in Firsts /\ t[k] = Second(t[k - 1])
    <3>1. k \in 2..Len(s) /\ t[k] = s[k]
      BY <1>4, <1>5, <2>2
    <3>2. s[k - 1] \in Firsts /\ s[k] = Second(s[k - 1])
      BY <2>2, <3>1 DEF StepsOK, Paired
    <3>3. k # 2
      BY <1>6, <3>2
    <3>4. k - 1 \in 2..Len(s) /\ t[k - 1] = s[k - 1]
      BY <1>3, <1>5, <3>1, <3>3
    <3> QED
      BY <3>1, <3>2, <3>4
  <2>3. ASSUME NEW k \in 1..Len(t), t[k] = "token" PROVE k = Len(t)
    <3>1. k \in 1..Len(s) /\ t[k] = s[k]
      BY <1>4, <1>5, <1>6, <2>3 DEF Seconds
    <3> QED
      BY <1>4, <2>3, <3>1 DEF StepsOK, Paired
  <2> QED
    BY <2>1, <2>2, <2>3 DEF Paired
<1>8. \A k \in 2..Len(t) : t[k] \notin {"default", "extend"}
  BY <1>4, <1>5 DEF StepsOK
<1>9. StepsOK(t)
  BY <1>4, <1>7, <1>8 DEF StepsOK, S
<1> QED
  BY <1>4, <1>5, <1>9 DEF t

LEMMA ListedSteps ==
  /\ StepsOK(<<>>) /\ StepsOK(<<"login">>) /\ StepsOK(<<"store">>)
  /\ \A name \in {"delete", "flush"} : StepsOK(<<"authorize", "csrf", "choice", name>>)
  /\ StepsOK(<<"list", "token">>) /\ StepsOK(AddUser) /\ StepsOK(DeleteUser) /\ StepsOK(ResetUserPassword)
  /\ \A name \in {"switch", "logout"} : StepsOK(<<name>>)
<1>1. StepsOK(<<>>) /\ StepsOK(<<"login">>) /\ StepsOK(<<"store">>)
  <2>1. <<>> \in Seq(CommonSteps \cup {"login", "store"}) /\ <<"login">> \in Seq(CommonSteps \cup {"login", "store"})
        /\ <<"store">> \in Seq(CommonSteps \cup {"login", "store"}) /\ {"login", "store"} \in Kinds
    BY DEF Kinds
  <2>2. Paired(<<>>) /\ Paired(<<"login">>) /\ Paired(<<"store">>)
    BY DEF Paired, Firsts, Seconds
  <2> QED
    BY <2>1, <2>2 DEF StepsOK
<1>2. StepsOK(<<"list", "token">>)
  <2>1. <<"list", "token">> \in Seq(CommonSteps \cup {"list", "token"}) /\ {"list", "token"} \in Kinds
    BY DEF Kinds, CommonSteps
  <2>2. Paired(<<"list", "token">>)
    BY DEF Paired, Firsts, Seconds, Second
  <2> QED
    BY <2>1, <2>2 DEF StepsOK
<1>3. ASSUME NEW name \in {"delete", "flush"} PROVE StepsOK(<<"authorize", "csrf", "choice", name>>)
  <2> DEFINE s == <<"authorize", "csrf", "choice", name>>
  <2>1. s \in Seq(CommonSteps \cup {name}) /\ {name} \in Kinds
    BY DEF Kinds, CommonSteps
  <2>2. \A k \in 1..Len(s) : s[k] \in {"authorize", "csrf", "choice", name}
    OBVIOUS
  <2> HIDE DEF s
  <2>3. \A k \in 1..Len(s) : s[k] \notin Firsts /\ s[k] \notin Seconds /\ s[k] \notin {"token", "default", "extend"}
    BY <2>2 DEF Firsts, Seconds
  <2>4. Len(s) \in Nat
    BY <2>1
  <2>5. Paired(s)
    BY <2>3, <2>4 DEF Paired
  <2>6. \A k \in 2..Len(s) : s[k] \notin {"default", "extend"}
    BY <2>3, <2>4
  <2> QED
    BY <2>1, <2>5, <2>6 DEF StepsOK, s
<1>4. UserCommands \in Kinds
  BY DEF Kinds
<1>5. StepsOK(AddUser)
  <2>1. AddUser \in Seq(CommonSteps \cup UserCommands)
    BY DEF CommonSteps, UserCommands, AddUser
  <2>2. Paired(AddUser) /\ \A k \in 2..Len(AddUser) : AddUser[k] \notin {"default", "extend"}
    BY DEF Paired, Firsts, Seconds, Second, AddUser
  <2> QED
    BY <1>4, <2>1, <2>2 DEF StepsOK
<1>6. StepsOK(DeleteUser)
  <2>1. DeleteUser \in Seq(CommonSteps \cup UserCommands)
    BY DEF CommonSteps, UserCommands, DeleteUser
  <2>2. Paired(DeleteUser) /\ \A k \in 2..Len(DeleteUser) : DeleteUser[k] \notin {"default", "extend"}
    BY DEF Paired, Firsts, Seconds, Second, DeleteUser
  <2> QED
    BY <1>4, <2>1, <2>2 DEF StepsOK
<1>7. StepsOK(ResetUserPassword)
  <2>1. ResetUserPassword \in Seq(CommonSteps \cup UserCommands)
    BY DEF CommonSteps, UserCommands, ResetUserPassword
  <2>2. Paired(ResetUserPassword) /\ \A k \in 2..Len(ResetUserPassword) : ResetUserPassword[k] \notin {"default", "extend"}
    BY DEF Paired, Firsts, Seconds, Second, ResetUserPassword
  <2> QED
    BY <1>4, <2>1, <2>2 DEF StepsOK
<1>8. ASSUME NEW name \in {"switch", "logout"} PROVE StepsOK(<<name>>)
  <2>1. <<name>> \in Seq(CommonSteps \cup {name}) /\ {name} \in Kinds
    BY DEF Kinds, CommonSteps
  <2>2. Paired(<<name>>)
    BY DEF Paired, Firsts, Seconds, Second
  <2> QED
    BY <2>1, <2>2 DEF StepsOK
<1> QED
  BY <1>1, <1>2, <1>3, <1>5, <1>6, <1>7, <1>8

LEMMA Joined ==
  ASSUME NEW S, NEW u \in Seq(S), NEW v \in Seq(S)
  PROVE  /\ u \o v \in Seq(S) /\ Len(u \o v) = Len(u) + Len(v) /\ Len(u) \in Nat /\ Len(v) \in Nat
         /\ \A k \in 1..(Len(u) + Len(v)) : (u \o v)[k] = IF k <= Len(u) THEN u[k] ELSE v[k - Len(u)]
OBVIOUS

\* The steps of a script, after those that every script has.
LEMMA ScriptSteps ==
  ASSUME NEW t, StepsOK(t), t # <<>>, t[1] \notin Seconds \cup {"default", "extend"}
  PROVE  /\ StepsOK(<<"authorize", "choice">> \o t)
         /\ \A names \in SUBSET ({"delete", "list"} \cup UserCommands) :
              Has(<<"authorize", "choice">> \o t, names) => Has(t, names)
         /\ Head(<<"authorize", "choice">> \o t) = "authorize"
<1> DEFINE state == <<"authorize", "choice">>
           s == state \o t
<1>1. PICK K \in Kinds : t \in Seq(CommonSteps \cup K)
  BY DEF StepsOK
<1> DEFINE S == CommonSteps \cup K
<1>2. state \in Seq(S) /\ Len(state) = 2 /\ state[1] = "authorize" /\ state[2] = "choice"
  BY DEF CommonSteps
<1>3. t \in Seq(S) /\ Len(t) \in Nat /\ Len(t) >= 1
  BY <1>1
<1> HIDE DEF S, state
<1>4. /\ s \in Seq(S) /\ Len(s) = Len(t) + 2 /\ s[1] = "authorize" /\ s[2] = "choice"
      /\ \A k \in 3..(Len(t) + 2) : s[k] = t[k - 2]
  <2>joined. /\ s \in Seq(S) /\ Len(s) = Len(state) + Len(t)
             /\ \A k \in 1..(Len(state) + Len(t)) : s[k] = IF k <= Len(state) THEN state[k] ELSE t[k - Len(state)]
    <3>1. state \in Seq(S) /\ t \in Seq(S)
      BY <1>2, <1>3
    <3> QED
      BY <3>1, Joined
  <2> HIDE DEF s
  <2>1. /\ s \in Seq(S) /\ Len(s) = 2 + Len(t)
        /\ \A k \in 1..(2 + Len(t)) : s[k] = IF k <= 2 THEN state[k] ELSE t[k - 2]
    BY <1>2, <2>joined
  <2>2. s \in Seq(S) /\ Len(s) = Len(t) + 2
    BY <1>3, <2>1
  <2>3. 1 \in 1..(2 + Len(t)) /\ 2 \in 1..(2 + Len(t))
    BY <1>3
  <2>4. s[1] = "authorize" /\ s[2] = "choice"
    BY <1>2, <2>1, <2>3
  <2>5. ASSUME NEW k \in 3..(Len(t) + 2) PROVE s[k] = t[k - 2]
    <3>1. k \in 1..(2 + Len(t)) /\ ~(k <= 2)
      BY <1>3
    <3> QED
      BY <2>1, <3>1
  <2> QED
    BY <2>2, <2>4, <2>5
<1> HIDE DEF s
<1>5. Head(s) = "authorize"
  BY <1>3, <1>4
<1>6. Paired(s)
  <2>1. ASSUME NEW k \in 1..Len(s), s[k] \in Firsts PROVE k < Len(s) /\ s[k + 1] = Second(s[k])
    <3>1. k \in 3..(Len(t) + 2)
      BY <1>3, <1>4, <2>1 DEF Firsts
    <3>2. k - 2 \in 1..Len(t) /\ s[k] = t[k - 2]
      BY <1>3, <1>4, <3>1
    <3>3. k - 2 < Len(t) /\ t[k - 2 + 1] = Second(t[k - 2])
      BY <2>1, <3>2 DEF StepsOK, Paired
    <3>4. k + 1 \in 3..(Len(t) + 2) /\ k + 1 - 2 = k - 2 + 1
      BY <1>3, <3>1, <3>3
    <3>5. s[k + 1] = t[k - 2 + 1]
      BY <1>4, <3>4
    <3> QED
      BY <1>3, <1>4, <3>1, <3>2, <3>3, <3>5
  <2>2. ASSUME NEW k \in 2..Len(s), s[k] \in Seconds PROVE s[k - 1] \in Firsts /\ s[k] = Second(s[k - 1])
    <3>1. k # 2 /\ k # 3
      BY <1>3, <1>4, <2>2 DEF Seconds
    <3>2. k - 2 \in 2..Len(t) /\ s[k] = t[k - 2] /\ k - 1 \in 3..(Len(t) + 2) /\ k - 1 - 2 = k - 2 - 1
      BY <1>3, <1>4, <2>2, <3>1
    <3>3. t[k - 2 - 1] \in Firsts /\ t[k - 2] = Second(t[k - 2 - 1])
      BY <2>2, <3>2 DEF StepsOK, Paired
    <3>4. s[k - 1] = t[k - 2 - 1]
      BY <1>4, <3>2
    <3> QED
      BY <3>2, <3>3, <3>4
  <2>3. ASSUME NEW k \in 1..Len(s), s[k] = "token" PROVE k = Len(s)
    <3>1. k - 2 \in 1..Len(t) /\ s[k] = t[k - 2]
      BY <1>3, <1>4, <2>3
    <3>2. k - 2 = Len(t)
      BY <2>3, <3>1 DEF StepsOK, Paired
    <3> QED
      BY <1>3, <1>4, <3>2
  <2> QED
    BY <2>1, <2>2, <2>3 DEF Paired
<1>7. ASSUME NEW k \in 2..Len(s) PROVE s[k] \notin {"default", "extend"}
  <2>1. CASE k = 2
    BY <1>4, <2>1
  <2>2. CASE k # 2
    <3>1. s[k] = t[k - 2] /\ k - 2 \in 1..Len(t)
      BY <1>3, <1>4, <2>2
    <3>2. k - 2 = 1 \/ k - 2 \in 2..Len(t)
      BY <1>3, <3>1
    <3> QED
      BY <3>1, <3>2 DEF StepsOK
  <2> QED
    BY <2>1, <2>2
<1>8. StepsOK(s)
  BY <1>1, <1>4, <1>6, <1>7 DEF StepsOK, S
<1>9. ASSUME NEW names \in SUBSET ({"delete", "list"} \cup UserCommands), Has(s, names) PROVE Has(t, names)
  <2>1. PICK k \in 1..Len(s) : s[k] \in names
    BY <1>9 DEF Has
  <2>2. k # 1 /\ k # 2
    BY <1>4, <2>1 DEF UserCommands
  <2>3. k - 2 \in 1..Len(t) /\ s[k] = t[k - 2]
    BY <1>3, <1>4, <2>2
  <2> QED
    BY <2>1, <2>3 DEF Has
<1> QED
  BY <1>5, <1>8, <1>9 DEF s, state

LEMMA ViewSteps ==
  ASSUME NEW calls \in Seq(CallSteps)
  PROVE  /\ StepsOK(<<"find">> \o calls) /\ (<<"find">> \o calls)[1] = "find" /\ <<"find">> \o calls # <<>>
         /\ ~Has(<<"find">> \o calls, {"delete", "list"} \cup UserCommands)
<1> DEFINE s == <<"find">> \o calls
<1>1. <<"find">> \in Seq(CallSteps) /\ CallSteps \in Kinds
  <2>1. "find" \in CallSteps
    BY DEF CallSteps
  <2>2. CallSteps \in Kinds
    BY DEF Kinds
  <2> QED
    BY <2>1, <2>2
<1>2. s \in Seq(CallSteps) /\ Len(s) = Len(calls) + 1 /\ s[1] = "find" /\ Len(calls) \in Nat
  <2> DEFINE f == <<"find">>
  <2>1. f \in Seq(CallSteps) /\ Len(f) = 1 /\ f[1] = "find"
    BY <1>1
  <2> HIDE DEF f
  <2>2. /\ f \o calls \in Seq(CallSteps) /\ Len(f \o calls) = 1 + Len(calls) /\ Len(calls) \in Nat
        /\ (f \o calls)[1] = f[1]
    BY <2>1, Joined
  <2> QED
    BY <2>1, <2>2 DEF f
<1> HIDE DEF s
<1>3. s \in Seq(CommonSteps \cup CallSteps) /\ \A k \in 1..Len(s) : s[k] \in CallSteps
  BY <1>2
<1>4. \A k \in 1..Len(s) : s[k] \notin Firsts /\ s[k] \notin Seconds /\ s[k] \notin {"default", "extend", "token"}
  BY <1>3 DEF CallSteps, Firsts, Seconds
<1>5. Paired(s)
  BY <1>2, <1>4 DEF Paired
<1>6. StepsOK(s)
  BY <1>1, <1>2, <1>3, <1>4, <1>5 DEF StepsOK
<1>7. ~Has(s, {"delete", "list"} \cup UserCommands)
  BY <1>3 DEF Has, CallSteps, UserCommands
<1>8. s # <<>>
  BY <1>2
<1> QED
  BY <1>2, <1>6, <1>7, <1>8 DEF s

\* What a request that is received has to do, and its arguments.
Starts(steps, arg) ==
  /\ StepsOK(steps) /\ (steps # <<>> => Head(steps) \in {"login", "authorize"})
  /\ Has(steps, {"delete"}) => DeleteOK(arg)
  /\ Has(steps, UserCommands) => arg.user \in User
  /\ Has(steps, {"list"}) => arg.number \in Nat \ {0}

\* A script that needs nothing of its arguments.
LEMMA PlainScript ==
  ASSUME NEW t, StepsOK(t), t # <<>>, t[1] \notin Seconds \cup {"default", "extend"},
         ~Has(t, {"delete", "list"} \cup UserCommands), NEW arg
  PROVE  Starts(<<"authorize", "choice">> \o t, arg)
<1> DEFINE s == <<"authorize", "choice">> \o t
           all == {"delete", "list"} \cup UserCommands
<1>1. /\ StepsOK(s) /\ Head(s) = "authorize"
      /\ \A names \in SUBSET all : Has(s, names) => Has(t, names)
  BY ScriptSteps
<1> HIDE DEF s
<1>2. {"delete"} \in SUBSET all /\ {"list"} \in SUBSET all /\ UserCommands \in SUBSET all
  OBVIOUS
<1>3. \A names \in SUBSET all : ~Has(t, names)
  BY DEF Has
<1> HIDE DEF all
<1> QED
  BY <1>1, <1>2, <1>3 DEF Starts, s

\* A script on a user.
LEMMA UserScript ==
  ASSUME NEW t \in {AddUser, DeleteUser, ResetUserPassword}, NEW arg, arg.user \in User
  PROVE  Starts(<<"authorize", "choice">> \o t, arg)
<1> DEFINE s == <<"authorize", "choice">> \o t
           all == {"delete", "list"} \cup UserCommands
<1>1. StepsOK(t)
  BY ListedSteps
<1>2. /\ t # <<>> /\ t[1] \notin Seconds \cup {"default", "extend"}
      /\ \A k \in 1..Len(t) : t[k] \notin {"delete", "list"}
  BY DEF AddUser, DeleteUser, ResetUserPassword, Seconds
<1>3. /\ StepsOK(s) /\ Head(s) = "authorize"
      /\ \A names \in SUBSET all : Has(s, names) => Has(t, names)
  BY <1>1, <1>2, ScriptSteps
<1> HIDE DEF s
<1>4. {"delete"} \in SUBSET all /\ {"list"} \in SUBSET all
  OBVIOUS
<1> HIDE DEF all
<1>5. ~Has(t, {"delete"}) /\ ~Has(t, {"list"})
  BY <1>2 DEF Has
<1> QED
  BY <1>3, <1>4, <1>5 DEF Starts, s

LEMMA ListScript ==
  ASSUME NEW arg, arg.number \in Nat \ {0}
  PROVE  Starts(<<"authorize", "choice">> \o <<"list", "token">>, arg)
<1> DEFINE t == <<"list", "token">>
           s == <<"authorize", "choice">> \o t
           all == {"delete", "list"} \cup UserCommands
<1>1. StepsOK(t)
  BY ListedSteps
<1>2. /\ t # <<>> /\ t[1] \notin Seconds \cup {"default", "extend"}
      /\ \A k \in 1..Len(t) : t[k] \notin {"delete"} \cup UserCommands
  BY DEF Seconds, UserCommands
<1> HIDE DEF t
<1>3. /\ StepsOK(s) /\ Head(s) = "authorize"
      /\ \A names \in SUBSET all : Has(s, names) => Has(t, names)
  BY <1>1, <1>2, ScriptSteps
<1> HIDE DEF s
<1>4. {"delete"} \in SUBSET all /\ UserCommands \in SUBSET all
  OBVIOUS
<1> HIDE DEF all
<1>5. ~Has(t, {"delete"}) /\ ~Has(t, UserCommands)
  BY <1>2 DEF Has
<1> QED
  BY <1>3, <1>4, <1>5 DEF Starts, s, t

\* A script on the queue of alerts, whose value is checked.
LEMMA AlertScript ==
  ASSUME NEW name \in {"delete", "flush"}, NEW arg, name = "delete" => DeleteOK(arg)
  PROVE  Starts(<<"authorize", "csrf", "choice", name>>, arg)
<1> DEFINE s == <<"authorize", "csrf", "choice", name>>
<1>1. StepsOK(s)
  BY ListedSteps
<1>2. Head(s) = "authorize" /\ s[1] = "authorize" /\ s[2] = "csrf" /\ s[3] = "choice" /\ s[4] = name /\ Len(s) = 4
  OBVIOUS
<1> HIDE DEF s
<1>3. \A k \in 1..Len(s) : s[k] \in {"authorize", "csrf", "choice", name}
  <2>1. \A k \in 1..Len(s) : k = 1 \/ k = 2 \/ k = 3 \/ k = 4
    BY <1>2
  <2> QED
    BY <1>2, <2>1
<1>4. ~Has(s, {"list"}) /\ ~Has(s, UserCommands) /\ (Has(s, {"delete"}) => name = "delete")
  BY <1>3 DEF Has, UserCommands
<1> QED
  BY <1>1, <1>2, <1>4 DEF Starts, s

\* Every page starts like that.
LEMMA PageStarts ==
  ASSUME PagesOK, NEW b \in Browser, NEW p \in Pages, p.page = "delete" => p.row \in DOMAIN shown[b].alerts
  PROVE  Starts(Page(b, p).steps, Page(b, p).arg)
<1> DEFINE steps == Page(b, p).steps
           arg == Page(b, p).arg
           state == <<"authorize", "choice">>
<1>1. \/ p.page \in {"login", "delete", "flush", "switch", "logout"}
      \/ p.page = "list" /\ p.number \in Nat \ {0}
      \/ p.page \in {"add", "remove", "reset"} /\ p.user \in User
      \/ p.page = "view" /\ p.calls \in Seq({"lookup", "walk", "list hosts", "list strings",
                                              "search", "list flows", "restore"})
  BY WebAssumption DEF WebAssumption
<1>2. CASE p.page = "login"
  <2>1. steps \in {<<>>, <<"login">>}
    BY <1>2 DEF Page
  <2>2. StepsOK(steps)
    BY <2>1, ListedSteps
  <2> HIDE DEF steps, arg
  <2>3. steps # <<>> => Head(steps) = "login"
    BY <2>1
  <2>4. \A k \in 1..Len(steps) : steps[k] = "login"
    BY <2>1
  <2>5. ~Has(steps, {"delete"}) /\ ~Has(steps, {"list"}) /\ ~Has(steps, UserCommands)
    BY <2>4 DEF Has, UserCommands
  <2> QED
    BY <2>2, <2>3, <2>5 DEF Starts, steps, arg
<1>3. CASE p.page = "list"
  <2>1. steps = state \o <<"list", "token">> /\ arg = p
    BY <1>3 DEF Page
  <2> QED
    BY <1>1, <1>3, <2>1, ListScript
<1>4. CASE p.page \in {"delete", "flush"}
  <2>1. steps = <<"authorize", "csrf", "choice", p.page>>
    BY <1>4 DEF Page
  <2>2. ASSUME p.page = "delete" PROVE DeleteOK(arg)
    <3>1. arg = [token |-> shown[b].token, index |-> shown[b].first + p.row - 1,
                 alert |-> shown[b].alerts[p.row], queue |-> shown[b].queue]
      BY <2>2 DEF Page
    <3>2. /\ p.row \in Nat \ {0} /\ shown[b].first \in Nat
          /\ shown[b].alerts[p.row] = shown[b].queue[shown[b].first + p.row]
      BY <2>2 DEF PagesOK, PageOK
    <3> HIDE DEF arg
    <3>3. arg.index = shown[b].first + p.row - 1 /\ arg.alert = shown[b].alerts[p.row] /\ arg.queue = shown[b].queue
      BY <3>1
    <3>4. arg.index \in Nat /\ arg.index + 1 = shown[b].first + p.row
      BY <3>2, <3>3
    <3> QED
      BY <3>2, <3>3, <3>4 DEF DeleteOK
  <2> HIDE DEF arg
  <2>3. Starts(<<"authorize", "csrf", "choice", p.page>>, arg)
    BY <1>4, <2>2, AlertScript
  <2> QED
    BY <2>1, <2>3 DEF arg
<1>5. CASE p.page \in {"add", "remove", "reset"}
  <2>1. PICK t \in {AddUser, DeleteUser, ResetUserPassword} : steps = state \o t /\ arg = p
    BY <1>5 DEF Page
  <2> QED
    BY <1>1, <1>5, <2>1, UserScript
<1>6. CASE p.page \in {"switch", "logout"}
  <2> DEFINE t == <<p.page>>
  <2>1. steps = state \o t /\ arg = p
    BY <1>6 DEF Page
  <2>2. StepsOK(t)
    BY <1>6, ListedSteps
  <2>3. t # <<>> /\ t[1] \notin Seconds \cup {"default", "extend"}
    BY <1>6 DEF Seconds
  <2>4. ~Has(t, {"delete", "list"} \cup UserCommands)
    BY <1>6 DEF Has, UserCommands
  <2> HIDE DEF t, steps, arg
  <2>5. Starts(state \o t, arg)
    BY <2>2, <2>3, <2>4, PlainScript
  <2> QED
    BY <2>1, <2>5 DEF steps, arg
<1>7. CASE p.page = "view"
  <2> DEFINE t == <<"find">> \o p.calls
  <2>1. steps = state \o t /\ arg = p
    BY <1>7 DEF Page
  <2>2. p.calls \in Seq(CallSteps)
    <3> DEFINE S == {"lookup", "walk", "list hosts", "list strings", "search", "list flows", "restore"}
    <3>1. p.calls \in Seq(S)
      BY <1>1, <1>7
    <3>2. S \subseteq CallSteps
      BY DEF CallSteps
    <3> HIDE DEF S
    <3> QED
      BY <3>1, <3>2
  <2>3. StepsOK(t) /\ t[1] = "find" /\ t # <<>> /\ ~Has(t, {"delete", "list"} \cup UserCommands)
    BY <2>2, ViewSteps
  <2> HIDE DEF t, steps, arg
  <2>4. t[1] \notin Seconds \cup {"default", "extend"}
    BY <2>3 DEF Seconds
  <2>5. Starts(state \o t, arg)
    BY <2>3, <2>4, PlainScript
  <2> QED
    BY <2>1, <2>5 DEF steps, arg
<1> QED
  BY <1>1, <1>2, <1>3, <1>4, <1>5, <1>6, <1>7
-------------------------------------------------------------------------------
\* How the request of a worker goes on.

Only(w) == DOMAIN req' = Worker /\ \A v \in Worker \ {w} : req'[v] = req[v]
Same(r, n) == DOMAIN n = ReqFields /\ n.arg = r.arg /\ n.cookie = r.cookie
Advanced(r, n) == Same(r, n) /\ r.steps # <<>> /\ Head(r.steps) # "list" /\ n.steps = Tail(r.steps)
Delayed(r, n, x) ==
  /\ Same(r, n) /\ r.steps # <<>> /\ n.steps = <<x>> \o Tail(r.steps)
  /\ \/ Head(r.steps) = "authorize" /\ x = "extend"
     \/ Head(r.steps) = "choice" /\ x = "default"
Listed(r, n) ==
  DOMAIN n = ReqFields /\ r.steps # <<>> /\ Head(r.steps) = "list" /\ n.steps = Tail(r.steps) /\ PageOK(n.arg)
LoggedIn(r, n) == DOMAIN n = ReqFields /\ r.steps # <<>> /\ Head(r.steps) = "login" /\ n.steps = <<"store">>
Received(r, n) == r = Free /\ DOMAIN n = ReqFields /\ Starts(n.steps, n.arg)

Goes(r, n) ==
  \/ n = Free \/ Advanced(r, n) \/ Delayed(r, n, "extend") \/ Delayed(r, n, "default")
  \/ Listed(r, n) \/ LoggedIn(r, n) \/ Received(r, n)

\* Where a request is that has gone on: at a step nobody else comes to, or as before.
UserSeconds == Seconds \ {"token"}
Onward(r, n) ==
  n.steps # <<>> =>
    /\ Head(n.steps) = "default" => Delayed(r, n, "default")
    /\ Head(n.steps) \in UserSeconds =>
         Advanced(r, n) /\ Head(r.steps) \in Firsts \ {"list"} /\ Head(n.steps) = Second(Head(r.steps))

LEMMA FreeOK == ReqOK(Free) /\ Free.steps = <<>>
<1>1. DOMAIN Free = ReqFields /\ Free.steps = <<>>
  BY DEF Free, ReqFields
<1>2. StepsOK(<<>>) /\ \A names : ~Has(<<>>, names)
  BY ListedSteps DEF Has
<1> QED
  BY <1>1, <1>2 DEF ReqOK

LEMMA AdvancedOK ==
  ASSUME NEW r, ReqOK(r), NEW n, Advanced(r, n)
  PROVE  ReqOK(n) /\ Onward(r, n)
<1> DEFINE s == r.steps
           t == n.steps
<1>1. StepsOK(s) /\ s # <<>> /\ t = Tail(s) /\ Head(s) # "list" /\ DOMAIN n = ReqFields /\ n.arg = r.arg
  BY DEF ReqOK, Advanced, Same
<1> HIDE DEF s, t
<1>2. /\ StepsOK(t) /\ Len(t) = Len(s) - 1 /\ Len(s) \in Nat /\ Len(s) >= 1
      /\ Head(s) = s[1] /\ \A k \in 1..(Len(s) - 1) : t[k] = s[k + 1]
  BY <1>1, TailOK
<1>3. ASSUME NEW names, Has(t, names) PROVE Has(s, names)
  <2>1. PICK k \in 1..Len(t) : t[k] \in names
    BY <1>3 DEF Has
  <2>2. k + 1 \in 1..Len(s) /\ s[k + 1] \in names
    BY <1>2, <2>1
  <2> QED
    BY <2>2 DEF Has
<1>4. ASSUME t # <<>>
      PROVE  /\ Head(t) \notin {"default", "extend"}
             /\ Head(t) \in Seconds => Head(s) \in Firsts /\ Head(t) = Second(Head(s))
  <2>1. Head(t) = t[1] /\ Len(t) >= 1
    BY <1>2, <1>4, TailOK
  <2>2. 2 \in 2..Len(s) /\ t[1] = s[2]
    BY <1>2, <2>1
  <2>3. /\ s[2] \notin {"default", "extend"}
        /\ s[2] \in Seconds => s[2 - 1] \in Firsts /\ s[2] = Second(s[2 - 1])
    BY <1>1, <2>2 DEF StepsOK, Paired
  <2> QED
    BY <1>2, <2>1, <2>2, <2>3
<1>5. t # <<>> => Head(t) # "token"
  BY <1>1, <1>4 DEF Seconds, Second, Firsts
<1>6. ReqOK(n)
  <2>1. /\ Has(s, {"delete"}) => DeleteOK(r.arg)
        /\ Has(s, UserCommands) => r.arg.user \in User
        /\ Has(s, {"list"}) => r.arg.number \in Nat \ {0}
    BY DEF ReqOK, s
  <2> QED
    BY <1>1, <1>2, <1>3, <1>5, <2>1 DEF ReqOK, t
<1>7. Onward(r, n)
  BY <1>1, <1>4 DEF Onward, UserSeconds, s, t
<1> QED
  BY <1>6, <1>7

LEMMA DelayedOK ==
  ASSUME NEW r, ReqOK(r), NEW n, NEW x, Delayed(r, n, x)
  PROVE  ReqOK(n) /\ Onward(r, n)
<1> DEFINE s == r.steps
           t == n.steps
<1>1. /\ StepsOK(s) /\ s # <<>> /\ t = <<x>> \o Tail(s) /\ DOMAIN n = ReqFields /\ n.arg = r.arg
      /\ Head(s) \in {"authorize", "choice"} /\ x \in {"extend", "default"}
  BY DEF ReqOK, Delayed, Same
<1> HIDE DEF s, t
<1>2. /\ StepsOK(t) /\ Len(t) = Len(s) /\ Len(s) \in Nat /\ Len(s) >= 1 /\ t[1] = x
      /\ \A k \in 2..Len(s) : t[k] = s[k]
  BY <1>1, PrefixOK, TailOK
<1>3. ASSUME NEW names, x \notin names, Has(t, names) PROVE Has(s, names)
  <2>1. PICK k \in 1..Len(t) : t[k] \in names
    BY <1>3 DEF Has
  <2>2. k \in 1..Len(s) /\ s[k] \in names
    BY <1>2, <1>3, <2>1
  <2> QED
    BY <2>2 DEF Has
<1>4. Head(t) = x
  BY <1>2, TailOK
<1>5. ReqOK(n)
  <2>1. /\ Has(s, {"delete"}) => DeleteOK(r.arg)
        /\ Has(s, UserCommands) => r.arg.user \in User
        /\ Has(s, {"list"}) => r.arg.number \in Nat \ {0}
    BY DEF ReqOK, s
  <2>2. x \notin {"delete"} /\ x \notin UserCommands /\ x \notin {"list"} /\ x # "token"
    BY <1>1 DEF UserCommands
  <2> QED
    BY <1>1, <1>2, <1>3, <1>4, <2>1, <2>2 DEF ReqOK, t
<1>6. Onward(r, n)
  BY <1>1, <1>4 DEF Onward, UserSeconds, Seconds, t, Delayed
<1> QED
  BY <1>5, <1>6

\* A page of alerts is made of the queue, and its token is stored next.
LEMMA ListedOK ==
  ASSUME NEW r, ReqOK(r), NEW n, Listed(r, n)
  PROVE  ReqOK(n) /\ Onward(r, n)
<1> DEFINE s == r.steps
           t == n.steps
<1>1. /\ StepsOK(s) /\ s # <<>> /\ t = Tail(s) /\ DOMAIN n = ReqFields /\ Head(s) = "list" /\ PageOK(n.arg)
  BY DEF ReqOK, Listed
<1> HIDE DEF s, t
<1>2. /\ StepsOK(t) /\ Len(t) = Len(s) - 1 /\ Len(s) \in Nat /\ Len(s) >= 1
      /\ Head(s) = s[1] /\ \A k \in 1..(Len(s) - 1) : t[k] = s[k + 1]
  BY <1>1, TailOK
<1>3. PICK K \in Kinds : s \in Seq(CommonSteps \cup K)
  BY <1>1 DEF StepsOK
<1>4. \A k \in 1..Len(s) : s[k] \in CommonSteps \cup K
  BY <1>3
<1>5. K = {"list", "token"}
  <2>1. "list" \in K
    BY <1>1, <1>2, <1>4 DEF CommonSteps
  <2>2. "list" \notin UserCommands /\ "list" \notin CallSteps
    BY DEF UserCommands, CallSteps
  <2> QED
    BY <2>1, <2>2 DEF Kinds
<1>6. \A k \in 1..Len(t) : t[k] \in CommonSteps \cup {"list", "token"}
  BY <1>2, <1>4, <1>5
<1>7. ~Has(t, {"delete"}) /\ ~Has(t, UserCommands)
  BY <1>6 DEF Has, CommonSteps, UserCommands
<1>8. 1 < Len(s) /\ s[2] = "token"
  BY <1>1, <1>2 DEF StepsOK, Paired, Firsts, Second
<1>9. t # <<>> /\ Head(t) = "token"
  BY <1>2, <1>8, TailOK
<1>10. ~Has(t, {"list"})
  <2>1. SUFFICES ASSUME NEW k \in 1..Len(t), t[k] = "list" PROVE FALSE
    BY DEF Has
  <2>2. k # 1 /\ t[1] = "token"
    BY <1>2, <1>8, <2>1
  <2>3. Len(t) = 1
    BY <1>2, <2>1, <2>2 DEF StepsOK, Paired
  <2> QED
    BY <2>1, <2>2, <2>3
<1> QED
  BY <1>1, <1>2, <1>7, <1>9, <1>10 DEF ReqOK, Onward, UserSeconds, t

LEMMA LoggedInOK ==
  ASSUME NEW r, NEW n, LoggedIn(r, n)
  PROVE  ReqOK(n) /\ Onward(r, n)
<1> DEFINE t == n.steps
<1>1. DOMAIN n = ReqFields /\ t = <<"store">> /\ StepsOK(<<"store">>)
  BY ListedSteps DEF LoggedIn
<1> HIDE DEF t
<1>2. Len(t) = 1 /\ t[1] = "store" /\ Head(t) = "store"
  BY <1>1
<1>3. \A k \in 1..Len(t) : t[k] = "store"
  BY <1>2
<1>4. ~Has(t, {"delete"}) /\ ~Has(t, UserCommands) /\ ~Has(t, {"list"})
  BY <1>3 DEF Has, UserCommands
<1> QED
  BY <1>1, <1>2, <1>4 DEF ReqOK, Onward, UserSeconds, Seconds, t

LEMMA ReceivedOK ==
  ASSUME NEW r, NEW n, Received(r, n)
  PROVE  ReqOK(n) /\ Onward(r, n)
<1>1. n.steps # <<>> => Head(n.steps) \notin {"token", "default"} \cup UserSeconds
  BY DEF Received, Starts, UserSeconds, Seconds
<1> QED
  BY <1>1 DEF Received, Starts, ReqOK, Onward

LEMMA GoesOK ==
  ASSUME NEW r, ReqOK(r), NEW n, Goes(r, n)
  PROVE  ReqOK(n) /\ Onward(r, n)
BY FreeOK, AdvancedOK, DelayedOK, ListedOK, LoggedInOK, ReceivedOK DEF Goes, Onward

-------------------------------------------------------------------------------
\* Every action of a worker lets its request go on like that, and no other's.

Moves(w) == Only(w) /\ Goes(req[w], req'[w])

LEMMA EndMoves ==
  ASSUME RequestsOK, NEW w \in Worker, End(w)
  PROVE  Only(w) /\ req'[w] = Free /\ Moves(w)
BY DEF RequestsOK, End, Only, Moves, Goes

LEMMA ThenOnly ==
  ASSUME RequestsOK, NEW w \in Worker, NEW steps, Then(w, steps)
  PROVE  Only(w) /\ Same(req[w], req'[w]) /\ req'[w].steps = steps \o Tail(req[w].steps)
<1>1. DOMAIN req = Worker /\ DOMAIN req[w] = ReqFields
  BY DEF RequestsOK, ReqOK
<1> QED
  BY <1>1 DEF Then, Only, Same, ReqFields

\* The step is done.
LEMMA DoneMoves ==
  ASSUME RequestsOK, NEW w \in Worker, Then(w, <<>>), req[w].steps # <<>>, Head(req[w].steps) # "list"
  PROVE  Moves(w) /\ Advanced(req[w], req'[w])
<1>1. Only(w) /\ Same(req[w], req'[w]) /\ req'[w].steps = <<>> \o Tail(req[w].steps)
  BY ThenOnly
<1>2. StepsOK(req[w].steps)
  BY DEF RequestsOK, ReqOK
<1>3. <<>> \o Tail(req[w].steps) = Tail(req[w].steps)
  BY <1>2, TailOK
<1> QED
  BY <1>1, <1>3 DEF Moves, Goes, Advanced

\* Another command comes before the rest.
LEMMA DelayedMoves ==
  ASSUME RequestsOK, NEW w \in Worker, NEW x, Then(w, <<x>>),
         \/ Step(w, "authorize") /\ x = "extend"
         \/ Step(w, "choice") /\ x = "default"
  PROVE  Moves(w) /\ Delayed(req[w], req'[w], x)
<1>1. Only(w) /\ Same(req[w], req'[w]) /\ req'[w].steps = <<x>> \o Tail(req[w].steps)
  BY ThenOnly
<1>2. Delayed(req[w], req'[w], x)
  BY <1>1 DEF Delayed, Step
<1> QED
  BY <1>1, <1>2 DEF Moves, Goes

\* A field other than the argument and the cookie was set, and the steps are those left.
FieldSet(r, n, steps) ==
  DOMAIN n = DOMAIN r /\ n.arg = r.arg /\ n.cookie = r.cookie /\ n.steps = steps

\* The step is done, and the Lua state or the answer changed.
LEMMA FieldMoves ==
  ASSUME RequestsOK, NEW w \in Worker, req[w].steps # <<>>, Head(req[w].steps) # "list",
         \/ \E x : req' = [req EXCEPT ![w].ifname = x, ![w].steps = Tail(@)]
         \/ \E x : req' = [req EXCEPT ![w].iface = x, ![w].steps = Tail(@)]
         \/ \E x : req' = [req EXCEPT ![w].told = x, ![w].steps = Tail(@)]
         \/ \E x : req' = [req EXCEPT ![w].told.obj = x, ![w].steps = Tail(@)]
  PROVE  Moves(w) /\ Advanced(req[w], req'[w])
<1> DEFINE r == req[w]
           steps == Tail(r.steps)
<1>1. DOMAIN req = Worker /\ DOMAIN r = ReqFields
  BY DEF RequestsOK, ReqOK
<1>2. PICK n : req' = [req EXCEPT ![w] = n] /\ DOMAIN n = DOMAIN r
               /\ n.arg = r.arg /\ n.cookie = r.cookie /\ n.steps = steps
  <2>1. CASE \E x : req' = [req EXCEPT ![w].ifname = x, ![w].steps = Tail(@)]
    <3>1. PICK x : req' = [req EXCEPT ![w].ifname = x, ![w].steps = Tail(@)]
      BY <2>1
    <3>2. FieldSet(r, [r EXCEPT !.ifname = x, !.steps = steps], steps)
      BY <1>1 DEF FieldSet, ReqFields
    <3>3. req' = [req EXCEPT ![w] = [r EXCEPT !.ifname = x, !.steps = steps]]
      BY <1>1, <3>1
    <3> QED
      BY <3>2, <3>3 DEF FieldSet
  <2>2. CASE \E x : req' = [req EXCEPT ![w].iface = x, ![w].steps = Tail(@)]
    <3>1. PICK x : req' = [req EXCEPT ![w].iface = x, ![w].steps = Tail(@)]
      BY <2>2
    <3>2. FieldSet(r, [r EXCEPT !.iface = x, !.steps = steps], steps)
      BY <1>1 DEF FieldSet, ReqFields
    <3>3. req' = [req EXCEPT ![w] = [r EXCEPT !.iface = x, !.steps = steps]]
      BY <1>1, <3>1
    <3> QED
      BY <3>2, <3>3 DEF FieldSet
  <2>3. CASE \E x : req' = [req EXCEPT ![w].told = x, ![w].steps = Tail(@)]
    <3>1. PICK x : req' = [req EXCEPT ![w].told = x, ![w].steps = Tail(@)]
      BY <2>3
    <3>2. FieldSet(r, [r EXCEPT !.told = x, !.steps = steps], steps)
      BY <1>1 DEF FieldSet, ReqFields
    <3>3. req' = [req EXCEPT ![w] = [r EXCEPT !.told = x, !.steps = steps]]
      BY <1>1, <3>1
    <3> QED
      BY <3>2, <3>3 DEF FieldSet
  <2>4. CASE \E x : req' = [req EXCEPT ![w].told.obj = x, ![w].steps = Tail(@)]
    <3>1. PICK x : req' = [req EXCEPT ![w].told.obj = x, ![w].steps = Tail(@)]
      BY <2>4
    <3>2. FieldSet(r, [r EXCEPT !.told.obj = x, !.steps = steps], steps)
      BY <1>1 DEF FieldSet, ReqFields
    <3>3. req' = [req EXCEPT ![w] = [r EXCEPT !.told.obj = x, !.steps = steps]]
      BY <1>1, <3>1
    <3> QED
      BY <3>2, <3>3 DEF FieldSet
  <2> QED
    BY <2>1, <2>2, <2>3, <2>4
<1>3. req'[w] = n /\ Only(w)
  BY <1>1, <1>2 DEF Only
<1>4. Same(r, n) /\ n.steps = Tail(r.steps)
  BY <1>1, <1>2 DEF Same
<1> HIDE DEF r, steps
<1>5. Advanced(r, n)
  BY <1>4 DEF Advanced, r
<1> QED
  BY <1>3, <1>5 DEF Moves, Goes, r

LEMMA TellMoves ==
  ASSUME RequestsOK, NEW w \in Worker, req[w].steps # <<>>, Head(req[w].steps) # "list", NEW rows, Tell(w, rows)
  PROVE  Moves(w) /\ Advanced(req[w], req'[w])
<1>1. DOMAIN req = Worker /\ DOMAIN req[w] = ReqFields
  BY DEF RequestsOK, ReqOK
<1>2. Only(w) /\ Same(req[w], req'[w]) /\ req'[w].steps = Tail(req[w].steps)
  BY <1>1 DEF Tell, Only, Same, ReqFields
<1> QED
  BY <1>2 DEF Moves, Goes, Advanced

LEMMA ReceiveMoves ==
  ASSUME RequestsOK, PagesOK, NEW w \in Worker, NEW b \in Browser, NEW p \in Pages, Receive(w, b, p)
  PROVE  Moves(w) /\ (req'[w].steps # <<>> => Head(req'[w].steps) \in {"login", "authorize"})
<1>1. DOMAIN req = Worker /\ req[w] = Free
  BY DEF RequestsOK, Receive
<1>2. req' = [req EXCEPT ![w] = [Free EXCEPT !.browser = b, !.cookie = cookie[b],
                                           !.steps = Page(b, p).steps, !.arg = Page(b, p).arg]]
  BY DEF Receive
<1>3. Starts(Page(b, p).steps, Page(b, p).arg)
  BY PageStarts DEF Receive
<1>4. DOMAIN Free = ReqFields
  BY DEF Free, ReqFields
<1> DEFINE n == [Free EXCEPT !.browser = b, !.cookie = cookie[b], !.steps = Page(b, p).steps, !.arg = Page(b, p).arg]
<1>5. DOMAIN n = ReqFields /\ n.steps = Page(b, p).steps /\ n.arg = Page(b, p).arg
  BY <1>4 DEF ReqFields
<1>6. Only(w) /\ req'[w] = n
  BY <1>1, <1>2 DEF Only
<1> HIDE DEF n
<1> QED
  BY <1>1, <1>3, <1>5, <1>6 DEF Moves, Goes, Received, Starts

LEMMA ListMoves ==
  ASSUME RequestsOK, AlertsOK, NEW w \in Worker, ListAlerts(w)
  PROVE  Moves(w) /\ Listed(req[w], req'[w])
<1> DEFINE page == GetQueuedAlerts(req[w].arg.number)
           arg == [alerts |-> page.alerts, first |-> page.first, queue |-> alerts, token |-> budget.requests]
<1>1. DOMAIN req = Worker /\ DOMAIN req[w] = ReqFields /\ StepsOK(req[w].steps)
  BY DEF RequestsOK, ReqOK
<1>2. req[w].steps # <<>> /\ Head(req[w].steps) = "list"
  BY DEF ListAlerts, Step
<1>3. req' = [req EXCEPT ![w].steps = Tail(@), ![w].arg = arg]
  BY DEF ListAlerts
<1>4. req[w].arg.number \in Nat \ {0}
  <2>1. Head(req[w].steps) = req[w].steps[1] /\ Len(req[w].steps) \in Nat /\ Len(req[w].steps) >= 1
    BY <1>1, <1>2, TailOK
  <2>2. Has(req[w].steps, {"list"})
    BY <1>2, <2>1 DEF Has
  <2> QED
    BY <2>2 DEF RequestsOK, ReqOK
<1>5. PageOK(arg)
  <2> DEFINE first == (req[w].arg.number - 1) * PerPage
             num == IF PerPage < 1 THEN 1 ELSE IF PerPage > MaxRead THEN MaxRead ELSE PerPage
             last == IF first + num < Len(alerts) THEN first + num ELSE Len(alerts)
  <2>1. page.first = first /\ page.alerts = SubSeq(alerts, first + 1, last)
    BY DEF GetQueuedAlerts
  <2>2. first \in Nat /\ last \in Nat /\ last <= Len(alerts)
    <3>1. PerPage \in Nat /\ MaxRead \in Nat
      BY WebAssumption DEF WebAssumption
    <3>2. first \in Nat
      BY <1>4, <3>1
    <3>3. num \in Nat /\ Len(alerts) \in Nat
      BY <3>1 DEF AlertsOK
    <3> HIDE DEF first, num
    <3> QED
      BY <3>2, <3>3
  <2> HIDE DEF first, last, page
  <2>3. \A k \in DOMAIN SubSeq(alerts, first + 1, last) :
          k \in Nat \ {0} /\ SubSeq(alerts, first + 1, last)[k] = alerts[first + k]
    <3> DEFINE part == SubSeq(alerts, first + 1, last)
    <3>1. alerts \in Seq(Nat) /\ first + 1 \in Int /\ last \in Int
      BY <2>2 DEF AlertsOK
    <3>2. DOMAIN part = 1..(IF first + 1 <= last THEN last - (first + 1) + 1 ELSE 0)
      BY <3>1
    <3>3. ASSUME NEW k \in DOMAIN part PROVE part[k] = alerts[first + 1 + k - 1]
      BY <3>1, <3>3
    <3> HIDE DEF part
    <3>4. \A k \in DOMAIN part : k \in Nat \ {0} /\ first + 1 + k - 1 = first + k
      BY <2>2, <3>2
    <3> QED
      BY <3>3, <3>4 DEF part
  <2> QED
    BY <2>1, <2>2, <2>3 DEF PageOK
<1> HIDE DEF arg
<1>6. Only(w) /\ DOMAIN req'[w] = ReqFields /\ req'[w].arg = arg /\ req'[w].steps = Tail(req[w].steps)
  BY <1>1, <1>3 DEF Only, ReqFields
<1> QED
  BY <1>2, <1>5, <1>6 DEF Moves, Goes, Listed

LEMMA AuthorizeMoves ==
  ASSUME RequestsOK, NEW w \in Worker, Authorize(w)
  PROVE  Moves(w)
<1>1. DOMAIN req = Worker /\ DOMAIN req[w] = ReqFields /\ req[w].steps # <<>> /\ Head(req[w].steps) = "login"
  BY DEF RequestsOK, ReqOK, Authorize, Step
<1>2. CASE End(w)
  BY <1>2, EndMoves
<1>3. CASE req' = [req EXCEPT ![w].steps = <<"store">>,
                              ![w].arg = [user |-> req[w].arg.user, session |-> budget.requests]]
  <2>1. Only(w) /\ DOMAIN req'[w] = ReqFields /\ req'[w].steps = <<"store">>
    BY <1>1, <1>3 DEF Only, ReqFields
  <2> QED
    BY <1>1, <2>1 DEF Moves, Goes, LoggedIn
<1>4. End(w) \/ req' = [req EXCEPT ![w].steps = <<"store">>,
                                  ![w].arg = [user |-> req[w].arg.user, session |-> budget.requests]]
  BY DEF Authorize, RedirectToLogin
<1> QED
  BY <1>2, <1>3, <1>4

LEMMA AuthorizedMoves ==
  ASSUME RequestsOK, NEW w \in Worker, IsAuthorized(w)
  PROVE  Moves(w)
<1>1. Step(w, "authorize") /\ (End(w) \/ Then(w, <<>>) \/ Then(w, <<"extend">>))
  BY DEF IsAuthorized, RedirectToLogin
<1>2. req[w].steps # <<>> /\ Head(req[w].steps) # "list"
  BY <1>1 DEF Step
<1> QED
  BY <1>1, <1>2, EndMoves, DoneMoves, DelayedMoves

LEMMA ChoiceMoves ==
  ASSUME RequestsOK, NEW w \in Worker, NEW lost \in BOOLEAN, ReadChoice(w, lost)
  PROVE  Moves(w)
<1>1. Step(w, "choice")
  BY DEF ReadChoice
<1>2. \/ \E x : req' = [req EXCEPT ![w].ifname = x, ![w].steps = Tail(@)]
      \/ Then(w, <<"default">>)
  BY DEF ReadChoice
<1>3. req[w].steps # <<>> /\ Head(req[w].steps) # "list"
  BY <1>1 DEF Step
<1> QED
  BY <1>1, <1>2, <1>3, FieldMoves, DelayedMoves

LEMMA WriteMoves ==
  ASSUME RequestsOK, NEW w \in Worker, NEW lost \in BOOLEAN, WriteUser(w, lost)
  PROVE  /\ Moves(w) /\ req[w].steps # <<>> /\ Head(req[w].steps) \in UserCommands \ {"check"}
         /\ req'[w] = Free \/ Advanced(req[w], req'[w])
         /\ Head(req[w].steps) \in Firsts => Advanced(req[w], req'[w])
<1>1. /\ req[w].steps # <<>> /\ Head(req[w].steps) \in UserCommands \ {"check"}
      /\ IF Len(req[w].steps) = 1 THEN End(w) ELSE Then(w, <<>>)
  BY UserStepsAre DEF WriteUser
<1>2. Head(req[w].steps) # "list"
  BY <1>1 DEF UserCommands
<1>3. CASE Then(w, <<>>)
  BY <1>1, <1>2, <1>3, DoneMoves
<1>4. CASE Len(req[w].steps) = 1
  <2>1. StepsOK(req[w].steps)
    BY DEF RequestsOK, ReqOK
  <2>2. Head(req[w].steps) = req[w].steps[1]
    BY <1>1, <2>1, TailOK
  <2>3. Head(req[w].steps) \notin Firsts
    BY <1>4, <2>1, <2>2 DEF StepsOK, Paired
  <2> QED
    BY <1>1, <1>4, <2>3, EndMoves
<1> QED
  BY <1>1, <1>3, <1>4

\* What most actions of a request leave alone.
Counted == UNCHANGED budget \/ Spend("requests") \/ Spend("events")
Plain(w) ==
  /\ Moves(w) /\ Counted
  /\ UNCHANGED <<users, mixed, choice, switched, alerts, shown, removed>>
  /\ req[w].steps # <<>> => Head(req[w].steps) \notin UserCommands \cup {"choice"}

LEMMA PlainSteps ==
  ASSUME RequestsOK, AlertsOK, PagesOK, NEW w \in Worker,
         \/ \E b \in Browser, p \in Pages : Receive(w, b, p)
         \/ IsAuthorized(w) \/ Extend(w) \/ Authorize(w) \/ \E lost \in BOOLEAN : StoreSession(w, lost)
         \/ CheckCSRF(w) \/ Logout(w) \/ ListAlerts(w) \/ FindInterface(w) \/ LookUpHost(w) \/ CallOnHost(w)
         \/ ListHosts(w) \/ ListStrings(w) \/ FindHost(w) \/ ListFlows(w) \/ RestoreHost(w) \/ Reply(w)
  PROVE  Plain(w)
<1> USE DEF redis, client, history
<1> DEFINE Quiet == UNCHANGED <<users, mixed, choice, switched, alerts, shown, removed>> /\ Counted
           Other == req[w].steps # <<>> => Head(req[w].steps) \notin UserCommands \cup {"choice"}
<1>step. ASSUME NEW name, Step(w, name), name \notin UserCommands \cup {"choice"} PROVE Other
  BY <1>step DEF Step
<1>plain. Moves(w) /\ Quiet /\ Other => Plain(w)
  BY DEF Plain
<1>1. ASSUME NEW b \in Browser, NEW p \in Pages, Receive(w, b, p) PROVE Plain(w)
  <2>1. Quiet /\ req[w].steps = <<>>
    BY <1>1, FreeOK DEF Receive, Counted
  <2> QED
    BY <1>1, <1>plain, <2>1, ReceiveMoves
<1>2. CASE IsAuthorized(w)
  <2>1. Quiet /\ Step(w, "authorize")
    BY <1>2 DEF IsAuthorized, Counted
  <2>2. Other
    BY <1>step, <2>1 DEF UserCommands
  <2> QED
    BY <1>2, <1>plain, <2>1, <2>2, AuthorizedMoves
<1>3. CASE Extend(w)
  <2>1. Quiet /\ Step(w, "extend") /\ Then(w, <<>>)
    BY <1>3 DEF Extend, Counted
  <2>2. Other /\ req[w].steps # <<>> /\ Head(req[w].steps) # "list"
    BY <1>step, <2>1 DEF UserCommands, Step
  <2> QED
    BY <1>plain, <2>1, <2>2, DoneMoves
<1>4. CASE Authorize(w)
  <2>1. Quiet /\ Step(w, "login")
    BY <1>4 DEF Authorize, Counted
  <2>2. Other
    BY <1>step, <2>1 DEF UserCommands
  <2> QED
    BY <1>4, <1>plain, <2>1, <2>2, AuthorizeMoves
<1>5. ASSUME NEW lost \in BOOLEAN, StoreSession(w, lost) PROVE Plain(w)
  <2>1. Quiet /\ Step(w, "store") /\ End(w)
    BY <1>5 DEF StoreSession, Counted
  <2>2. Other
    BY <1>step, <2>1 DEF UserCommands
  <2> QED
    BY <1>plain, <2>1, <2>2, EndMoves
<1>6. CASE CheckCSRF(w)
  <2>1. Quiet /\ Step(w, "csrf") /\ (Then(w, <<>>) \/ End(w))
    BY <1>6 DEF CheckCSRF, Counted
  <2>2. Other /\ req[w].steps # <<>> /\ Head(req[w].steps) # "list"
    BY <1>step, <2>1 DEF UserCommands, Step
  <2> QED
    BY <1>plain, <2>1, <2>2, DoneMoves, EndMoves
<1>7. CASE Logout(w)
  <2>1. Quiet /\ Step(w, "logout") /\ End(w)
    BY <1>7 DEF Logout, Counted
  <2>2. Other
    BY <1>step, <2>1 DEF UserCommands
  <2> QED
    BY <1>plain, <2>1, <2>2, EndMoves
<1>8. CASE ListAlerts(w)
  <2>1. Quiet /\ Step(w, "list")
    BY <1>8 DEF ListAlerts, Counted
  <2>2. Other
    BY <1>step, <2>1 DEF UserCommands
  <2> QED
    BY <1>8, <1>plain, <2>1, <2>2, ListMoves
<1>9. CASE FindInterface(w)
  <2>1. Quiet /\ Step(w, "find")
    BY <1>9 DEF FindInterface, Counted
  <2>2. Other /\ req[w].steps # <<>> /\ Head(req[w].steps) # "list"
    BY <1>step, <2>1 DEF UserCommands, Step
  <2>3. \E x : req' = [req EXCEPT ![w].iface = x, ![w].steps = Tail(@)]
    BY <1>9 DEF FindInterface
  <2> QED
    BY <1>plain, <2>1, <2>2, <2>3, FieldMoves
<1>10. CASE LookUpHost(w)
  <2>1. Quiet /\ Step(w, "lookup")
    BY <1>10 DEF LookUpHost, Counted
  <2>2. Other /\ req[w].steps # <<>> /\ Head(req[w].steps) # "list"
    BY <1>step, <2>1 DEF UserCommands, Step
  <2>3. End(w) \/ \E x : req' = [req EXCEPT ![w].told.obj = x, ![w].steps = Tail(@)]
    BY <1>10 DEF LookUpHost
  <2> QED
    BY <1>plain, <2>1, <2>2, <2>3, FieldMoves, EndMoves
<1>11. CASE CallOnHost(w)
  <2>1. Quiet /\ Step(w, "walk") /\ \E rows : Tell(w, rows)
    BY <1>11 DEF CallOnHost, Counted
  <2>2. Other /\ req[w].steps # <<>> /\ Head(req[w].steps) # "list"
    BY <1>step, <2>1 DEF UserCommands, Step
  <2> QED
    BY <1>plain, <2>1, <2>2, TellMoves
<1>12. CASE ListHosts(w)
  <2>1. Quiet /\ Step(w, "list hosts") /\ \E rows : Tell(w, rows)
    BY <1>12 DEF ListHosts, Counted
  <2>2. Other /\ req[w].steps # <<>> /\ Head(req[w].steps) # "list"
    BY <1>step, <2>1 DEF UserCommands, Step
  <2> QED
    BY <1>plain, <2>1, <2>2, TellMoves
<1>13. CASE ListStrings(w)
  <2>1. Quiet /\ Step(w, "list strings") /\ \E rows : Tell(w, rows)
    BY <1>13 DEF ListStrings, Counted
  <2>2. Other /\ req[w].steps # <<>> /\ Head(req[w].steps) # "list"
    BY <1>step, <2>1 DEF UserCommands, Step
  <2> QED
    BY <1>plain, <2>1, <2>2, TellMoves
<1>14. CASE FindHost(w)
  <2>1. Quiet /\ Step(w, "search") /\ \E rows : Tell(w, rows)
    BY <1>14 DEF FindHost, Counted
  <2>2. Other /\ req[w].steps # <<>> /\ Head(req[w].steps) # "list"
    BY <1>step, <2>1 DEF UserCommands, Step
  <2> QED
    BY <1>plain, <2>1, <2>2, TellMoves
<1>15. CASE ListFlows(w)
  <2>1. Quiet /\ Step(w, "list flows") /\ \E rows : Tell(w, rows)
    BY <1>15 DEF ListFlows, Counted
  <2>2. Other /\ req[w].steps # <<>> /\ Head(req[w].steps) # "list"
    BY <1>step, <2>1 DEF UserCommands, Step
  <2> QED
    BY <1>plain, <2>1, <2>2, TellMoves
<1>16. CASE RestoreHost(w)
  <2>1. Quiet /\ Step(w, "restore") /\ End(w)
    BY <1>16 DEF RestoreHost, Counted
  <2>2. Other
    BY <1>step, <2>1 DEF UserCommands
  <2> QED
    BY <1>plain, <2>1, <2>2, EndMoves
<1>17. CASE Reply(w)
  <2>1. Quiet /\ req[w].steps = <<>> /\ End(w)
    BY <1>17 DEF Reply, Counted
  <2> QED
    BY <1>plain, <2>1, EndMoves
<1> QED
  BY <1>1, <1>2, <1>3, <1>4, <1>5, <1>6, <1>7, <1>8, <1>9, <1>10, <1>11, <1>12, <1>13, <1>14, <1>15, <1>16, <1>17

\* The other actions of a request.
Special(w) ==
  \/ \E lost \in BOOLEAN : ReadChoice(w, lost) \/ WriteUser(w, lost)
  \/ StoreDefault(w) \/ SwitchInterface(w) \/ GenerateCSRFValue(w) \/ DeleteQueuedAlert(w)
  \/ FlushAllQueuedAlerts(w) \/ CheckOldPassword(w)

LEMMA SpecialSteps ==
  ASSUME RequestsOK, NEW w \in Worker, Special(w)
  PROVE  Moves(w) /\ Counted
<1>1. ASSUME NEW lost \in BOOLEAN, ReadChoice(w, lost) PROVE Moves(w) /\ Counted
  <2>1. Counted
    BY <1>1 DEF ReadChoice, Counted
  <2> QED
    BY <1>1, <2>1, ChoiceMoves
<1>2. ASSUME NEW lost \in BOOLEAN, WriteUser(w, lost) PROVE Moves(w) /\ Counted
  <2>1. Counted
    BY <1>2 DEF WriteUser, Counted
  <2> QED
    BY <1>2, <2>1, WriteMoves
<1>3. CASE StoreDefault(w)
  <2>1. Counted /\ Step(w, "default") /\ \E x : req' = [req EXCEPT ![w].ifname = x, ![w].steps = Tail(@)]
    BY <1>3 DEF StoreDefault, Counted
  <2>2. req[w].steps # <<>> /\ Head(req[w].steps) # "list"
    BY <2>1 DEF Step
  <2> QED
    BY <2>1, <2>2, FieldMoves
<1>4. CASE SwitchInterface(w) \/ GenerateCSRFValue(w) \/ DeleteQueuedAlert(w) \/ FlushAllQueuedAlerts(w)
  <2>1. Counted /\ End(w)
    BY <1>4 DEF SwitchInterface, GenerateCSRFValue, DeleteQueuedAlert, FlushAllQueuedAlerts, Counted
  <2> QED
    BY <2>1, EndMoves
<1>5. CASE CheckOldPassword(w)
  <2>1. Counted /\ Step(w, "check") /\ (Then(w, <<>>) \/ End(w))
    BY <1>5 DEF CheckOldPassword, Counted
  <2>2. req[w].steps # <<>> /\ Head(req[w].steps) # "list"
    BY <2>1 DEF Step
  <2> QED
    BY <2>1, <2>2, DoneMoves, EndMoves
<1> QED
  BY <1>1, <1>2, <1>3, <1>4, <1>5 DEF Special

LEMMA RequestSteps ==
  ASSUME RequestsOK, AlertsOK, PagesOK, NEW w \in Worker, Request(w)
  PROVE  Moves(w) /\ Counted /\ (Plain(w) \/ Special(w))
<1>1. CASE Special(w)
  BY <1>1, SpecialSteps
<1>2. CASE Plain(w)
  BY <1>2 DEF Plain
<1>3. Plain(w) \/ Special(w)
  <2>1. \/ Special(w)
        \/ \E b \in Browser, p \in Pages : Receive(w, b, p)
        \/ IsAuthorized(w) \/ Extend(w) \/ Authorize(w) \/ \E lost \in BOOLEAN : StoreSession(w, lost)
        \/ CheckCSRF(w) \/ Logout(w) \/ ListAlerts(w) \/ FindInterface(w) \/ LookUpHost(w) \/ CallOnHost(w)
        \/ ListHosts(w) \/ ListStrings(w) \/ FindHost(w) \/ ListFlows(w) \/ RestoreHost(w) \/ Reply(w)
    BY Zenon DEF Request, Special
  <2> QED
    BY <2>1, PlainSteps
<1> QED
  BY <1>1, <1>2, <1>3

\* What a step of the whole program is.
Others == (\E i \in DOMAIN Interfaces : Sweep(i)) \/ QueueAlert \/ Expire \/ UNCHANGED webVars

LEMMA OtherSteps ==
  ASSUME Others
  PROVE  UNCHANGED <<users, shown, req, removed, switched, mixed>> /\ Counted
BY DEF Others, Sweep, QueueAlert, Expire, webVars, redis, client, history, Counted

LEMMA NextRequests ==
  ASSUME RequestsOK, AlertsOK, PagesOK, [WebNext]_webVars
  PROVE  RequestsOK' /\ (Others \/ \E w \in Worker : Moves(w) /\ Counted /\ (Plain(w) \/ Special(w)))
<1>1. CASE Others
  BY <1>1, OtherSteps DEF RequestsOK
<1>2. ASSUME NEW w \in Worker, Request(w) PROVE RequestsOK' /\ Moves(w) /\ Counted /\ (Plain(w) \/ Special(w))
  <2>1. Moves(w) /\ Counted /\ (Plain(w) \/ Special(w))
    BY <1>2, RequestSteps
  <2>2. ReqOK(req[w]) /\ Goes(req[w], req'[w])
    BY <2>1 DEF RequestsOK, Moves
  <2>3. ReqOK(req'[w])
    BY <2>2, GoesOK
  <2> QED
    BY <2>1, <2>3 DEF RequestsOK, Moves, Only
<1>3. Others \/ \E w \in Worker : Request(w)
  BY DEF WebNext, Others
<1> QED
  BY <1>1, <1>2, <1>3

\* What a request is to delete is a row of the page it came from.
LEMMA DeleteArg ==
  ASSUME RequestsOK, NEW w \in Worker, Step(w, "delete")
  PROVE  DeleteOK(req[w].arg)
<1>1. StepsOK(req[w].steps) /\ ReqOK(req[w]) /\ req[w].steps # <<>> /\ Head(req[w].steps) = "delete"
  BY DEF RequestsOK, ReqOK, Step
<1>2. Head(req[w].steps) = req[w].steps[1] /\ Len(req[w].steps) \in Nat /\ Len(req[w].steps) >= 1
  BY <1>1, TailOK
<1>3. Has(req[w].steps, {"delete"})
  BY <1>1, <1>2 DEF Has
<1> QED
  BY <1>1, <1>3 DEF ReqOK

\* The queue is one of numbers, and the pages are of queues.
LEMMA RemovedSeq ==
  ASSUME NEW s \in Seq(Nat), NEW i \in 1..Len(s)
  PROVE  RemoveAt(s, i) \in Seq(Nat)
<1> DEFINE before == SubSeq(s, 1, i - 1)
           after == SubSeq(s, i + 1, Len(s))
<1>1. /\ 1 \in Int /\ i - 1 \in Int /\ i + 1 \in Int /\ Len(s) \in Int
      /\ \A k \in 1..(i - 1) : s[k] \in Nat
      /\ \A k \in (i + 1)..Len(s) : s[k] \in Nat
  OBVIOUS
<1>2. before \in Seq(Nat) /\ after \in Seq(Nat)
  BY <1>1, SubSeqProperties
<1>3. RemoveAt(s, i) = before \o after
  BY Zenon DEF RemoveAt
<1> HIDE DEF before, after
<1> QED
  BY <1>2, <1>3

LEMMA QueueStep ==
  ASSUME RequestsOK, AlertsOK, PagesOK, [WebNext]_webVars
  PROVE  AlertsOK' /\ PagesOK'
<1>1. CASE Others
  <2>1. UNCHANGED shown /\ Counted
    BY <1>1, OtherSteps
  <2>2. CASE alerts' = alerts
    BY <2>1, <2>2 DEF AlertsOK, PagesOK, Counted, Spend
  <2>3. CASE QueueAlert
    <3> DEFINE x == Queued + budget.events + 1
               all == <<x>> \o alerts
               n == IF Len(all) < MaxAlerts + 1 THEN Len(all) ELSE MaxAlerts + 1
    <3>1. x \in Nat /\ MaxAlerts \in Nat
      <4>1. Queued \in Nat /\ MaxAlerts \in Nat
        BY WebAssumption DEF WebAssumption
      <4> QED
        BY <4>1 DEF AlertsOK
    <3>2. alerts' = SubSeq(all, 1, n)
      BY <2>3 DEF QueueAlert
    <3> HIDE DEF x
    <3>3. all \in Seq(Nat)
      BY <3>1 DEF AlertsOK
    <3> HIDE DEF all
    <3>4. n \in Nat /\ n <= Len(all)
      BY <3>1, <3>3
    <3> HIDE DEF n
    <3>5. alerts' \in Seq(Nat)
      BY <3>2, <3>3, <3>4
    <3>6. DOMAIN budget' = {"requests", "events"} /\ budget'.events \in Nat
      <4> HIDE DEF n
      <4> QED
        BY <2>1 DEF AlertsOK, Counted, Spend
    <3>7. PagesOK'
      BY <2>1 DEF PagesOK
    <3> QED
      BY <3>5, <3>6, <3>7 DEF AlertsOK
  <2>4. alerts' = alerts \/ QueueAlert
    BY <1>1 DEF Others, Sweep, Expire, webVars, redis
  <2> QED
    BY <2>2, <2>3, <2>4
<1>2. ASSUME NEW w \in Worker, Moves(w), Counted, Plain(w) \/ Special(w) PROVE AlertsOK' /\ PagesOK'
  <2>1. DOMAIN budget' = {"requests", "events"} /\ budget'.events \in Nat
    BY <1>2 DEF Counted, Spend, AlertsOK
  <2>2. CASE alerts' = alerts /\ shown' = shown
    BY <2>1, <2>2 DEF AlertsOK, PagesOK
  <2>3. CASE GenerateCSRFValue(w)
    <3>1. ReqOK(req[w]) /\ Step(w, "token") /\ shown' = [shown EXCEPT ![req[w].browser] = req[w].arg] /\ alerts' = alerts
      BY <2>3 DEF GenerateCSRFValue, RequestsOK
    <3>2. PageOK(req[w].arg)
      BY <3>1 DEF ReqOK, Step
    <3> QED
      BY <2>1, <3>1, <3>2 DEF AlertsOK, PagesOK
  <2>4. CASE DeleteQueuedAlert(w)
    <3> DEFINE a == req[w].arg
    <3>1. Step(w, "delete") /\ shown' = shown
          /\ alerts' = IF a.index < Len(alerts) THEN RemoveAt(alerts, a.index + 1) ELSE alerts
      BY <2>4 DEF DeleteQueuedAlert, client
    <3>2. DeleteOK(a)
      BY <3>1, DeleteArg
    <3> HIDE DEF a
    <3>3. ASSUME a.index < Len(alerts) PROVE RemoveAt(alerts, a.index + 1) \in Seq(Nat)
      <4>1. alerts \in Seq(Nat) /\ a.index \in Nat
        BY <3>2 DEF AlertsOK, DeleteOK
      <4>2. a.index + 1 \in 1..Len(alerts)
        BY <3>3, <4>1
      <4> QED
        BY <4>1, <4>2, RemovedSeq
    <3>4. alerts' \in Seq(Nat)
      BY <3>1, <3>3 DEF AlertsOK
    <3> QED
      BY <2>1, <3>1, <3>4 DEF AlertsOK, PagesOK
  <2>5. CASE FlushAllQueuedAlerts(w)
    <3>1. alerts' = <<>> /\ shown' = shown
      BY <2>5 DEF FlushAllQueuedAlerts, client
    <3> QED
      BY <2>1, <3>1 DEF AlertsOK, PagesOK
  <2>6. \/ alerts' = alerts /\ shown' = shown
        \/ GenerateCSRFValue(w) \/ DeleteQueuedAlert(w) \/ FlushAllQueuedAlerts(w)
    BY <1>2 DEF Plain, Special, ReadChoice, WriteUser, StoreDefault, SwitchInterface, CheckOldPassword, redis, client
  <2> QED
    BY <2>2, <2>3, <2>4, <2>5, <2>6
<1> QED
  BY <1>1, <1>2, NextRequests

LEMMA DeletedStep ==
  ASSUME RequestsOK, AlertsOK, PagesOK, DeletedAsShown, [WebNext]_webVars
  PROVE  DeletedAsShown'
<1>1. CASE removed' = removed
  BY <1>1 DEF DeletedAsShown
<1>2. ASSUME NEW w \in Worker, DeleteQueuedAlert(w) PROVE DeletedAsShown'
  <2> DEFINE a == req[w].arg
  <2>1. Step(w, "delete")
        /\ removed' = IF a.index < Len(alerts)
                      THEN [shown |-> a.alert, was |-> alerts[a.index + 1], stale |-> alerts # a.queue]
                      ELSE removed
    BY <1>2 DEF DeleteQueuedAlert
  <2>2. DeleteOK(a)
    BY <2>1, DeleteArg
  <2> HIDE DEF a
  <2>3. alerts = a.queue => a.alert = alerts[a.index + 1]
    BY <2>2 DEF DeleteOK
  <2> DEFINE r == [shown |-> a.alert, was |-> alerts[a.index + 1], stale |-> alerts # a.queue]
  <2>4. r.stale \/ r.shown = r.was
    BY <2>3
  <2>5. removed' = r \/ removed' = removed
    BY <2>1
  <2> HIDE DEF r
  <2> QED
    BY <2>4, <2>5 DEF DeletedAsShown
<1>3. removed' = removed \/ \E w \in Worker : DeleteQueuedAlert(w)
  <2>1. CASE Others
    BY <2>1, OtherSteps
  <2>2. ASSUME NEW w \in Worker, Plain(w) \/ Special(w) PROVE removed' = removed \/ DeleteQueuedAlert(w)
    BY <2>2 DEF Plain, Special, ReadChoice, WriteUser, StoreDefault, SwitchInterface, CheckOldPassword,
                GenerateCSRFValue, FlushAllQueuedAlerts, history
  <2> QED
    BY <2>1, <2>2, NextRequests
<1> QED
  BY <1>1, <1>2, <1>3

-------------------------------------------------------------------------------
\* Users.

\* A step that is at no command of a user comes to none but the first of a script.
LEMMA SameAt ==
  ASSUME RequestsOK, NEW w \in Worker, Moves(w), req[w].steps # <<>> => Head(req[w].steps) \notin UserCommands
  PROVE  \A v \in Worker, u \in User, name \in UserSeconds : At(v, u, name)' <=> At(v, u, name)
<1>1. UserSeconds \subseteq UserCommands /\ Firsts \ {"list"} \subseteq UserCommands
  BY DEF UserSeconds, Seconds, Firsts, UserCommands
<1>2. ASSUME NEW v \in Worker, v # w, NEW u, NEW name PROVE At(v, u, name)' <=> At(v, u, name)
  BY <1>2 DEF Moves, Only, At, Step
<1>3. ASSUME NEW u, NEW name \in UserSeconds PROVE ~At(w, u, name) /\ ~At(w, u, name)'
  <2>1. Onward(req[w], req'[w])
    BY GoesOK DEF RequestsOK, Moves
  <2>2. ~Step(w, name)
    BY <1>1, <1>3 DEF Step
  <2>3. ~Step(w, name)'
    <3>1. SUFFICES ASSUME req'[w].steps # <<>>, Head(req'[w].steps) = name PROVE FALSE
      BY DEF Step
    <3>2. Advanced(req[w], req'[w]) /\ Head(req[w].steps) \in Firsts \ {"list"}
      BY <1>3, <2>1, <3>1 DEF Onward
    <3> QED
      BY <1>1, <3>2 DEF Advanced
  <2> QED
    BY <2>2, <2>3 DEF At
<1> QED
  BY <1>2, <1>3

LEMMA UserUnmoved ==
  ASSUME NEW u \in User, UserOK(u), users'[u] = users[u],
         \A v \in Worker, name \in UserSeconds : At(v, u, name)' <=> At(v, u, name)
  PROVE  UserOK(u)'
BY DEF UserOK, UserSeconds, Seconds

\* The second command of a pair is next.
LEMMA PairGoesOn ==
  ASSUME NEW r, ReqOK(r), NEW n, Advanced(r, n), Head(r.steps) \in Firsts
  PROVE  n.steps # <<>> /\ Head(n.steps) = Second(Head(r.steps))
<1> DEFINE s == r.steps
           t == n.steps
<1>1. StepsOK(s) /\ s # <<>> /\ t = Tail(s) /\ Head(s) \in Firsts
  BY DEF ReqOK, Advanced
<1> HIDE DEF s, t
<1>2. /\ StepsOK(t) /\ Len(t) = Len(s) - 1 /\ Len(s) \in Nat /\ Len(s) >= 1
      /\ Head(s) = s[1] /\ \A k \in 1..(Len(s) - 1) : t[k] = s[k + 1]
  BY <1>1, TailOK
<1>3. 1 < Len(s) /\ s[1 + 1] = Second(s[1])
  <2>1. \A k \in 1..Len(s) : s[k] \in Firsts => k < Len(s) /\ s[k + 1] = Second(s[k])
    BY <1>1 DEF StepsOK, Paired
  <2> QED
    BY <1>1, <1>2, <2>1
<1>4. t # <<>> /\ t[1] = s[1 + 1]
  BY <1>2, <1>3
<1>5. Head(t) = t[1]
  BY <1>2, <1>4, TailOK
<1> QED
  BY <1>2, <1>3, <1>4, <1>5 DEF s, t

\* The command of the one request that edits a user.
LEMMA WriteOwn ==
  ASSUME WebInv, NEW w \in Worker, WriteUser(w, FALSE), NEW u \in User, u = req[w].arg.user,
         u \notin mixed, \A v \in Worker \ {w} : ~Edits(v, u)
  PROVE  UserOK(u)'
<1> DEFINE s == Head(req[w].steps)
           old == users[u]
           new == users'[u]
<1>1. /\ Moves(w) /\ req[w].steps # <<>> /\ s \in UserCommands \ {"check"}
      /\ req'[w] = Free \/ Advanced(req[w], req'[w])
      /\ s \in Firsts => Advanced(req[w], req'[w])
  BY WriteMoves DEF WebInv
<1>2. /\ DOMAIN users = User /\ DOMAIN old = {"full", "group", "password"}
      /\ old.full \in BOOLEAN /\ old.group \in BOOLEAN /\ UserOK(u) /\ ReqOK(req[w])
  BY DEF WebInv, UsersOK, RequestsOK
<1>3. \A v \in Worker \ {w}, name \in UserCommands : ~At(v, u, name) /\ ~At(v, u, name)'
  <2>1. \A v \in Worker \ {w}, name \in UserCommands : ~At(v, u, name)
    BY UserStepsAre DEF Edits, At, Step
  <2>2. \A v \in Worker \ {w} : req'[v] = req[v]
    BY <1>1 DEF Moves, Only
  <2> QED
    BY <2>1, <2>2 DEF At, Step
<1>4. \A name : At(w, u, name) <=> name = s
  BY <1>1 DEF At, Step
<1>5. \A name : s \in Firsts /\ name = Second(s) => At(w, u, name)'
  <2>1. ASSUME s \in Firsts
        PROVE  req'[w].steps # <<>> /\ Head(req'[w].steps) = Second(s) /\ req'[w].arg.user = u
    BY <1>1, <1>2, <2>1, PairGoesOn DEF Advanced, Same
  <2> HIDE DEF s
  <2> QED
    BY <2>1 DEF At, Step
<1>6. \A name \in UserSeconds : At(w, u, name)' => s \in Firsts /\ name = Second(s)
  <2>1. Onward(req[w], req'[w])
    BY <1>1, <1>2, GoesOK DEF Moves
  <2> QED
    BY <2>1 DEF Onward, At, Step
<1>7. users' = [users EXCEPT ![u] =
           CASE s \in {"full", "-full"} -> [old EXCEPT !.full = s = "full"]
             [] s \in {"group", "-group"} -> [old EXCEPT !.group = s = "group"]
             [] s \in {"password", "reset"} -> [old EXCEPT !.password = req[w].arg.password]
             [] OTHER -> [old EXCEPT !.password = NoText]]
  BY DEF WriteUser
<1>8. new = CASE s \in {"full", "-full"} -> [old EXCEPT !.full = s = "full"]
             [] s \in {"group", "-group"} -> [old EXCEPT !.group = s = "group"]
             [] s \in {"password", "reset"} -> [old EXCEPT !.password = req[w].arg.password]
             [] OTHER -> [old EXCEPT !.password = NoText]
  BY <1>2, <1>7
<1> HIDE DEF s, old, new
<1>9. /\ s = "full" => new.full /\ new.group = old.group /\ new.password = old.password
      /\ s = "group" => new.group /\ new.full = old.full /\ new.password = old.password
      /\ s = "-full" => TRUE
      /\ s \in {"password", "reset"} => new.full = old.full /\ new.group = old.group
      /\ s = "-password" => new.password = NoText
  BY <1>1, <1>2, <1>8 DEF UserCommands
<1>10. /\ s = "group" => old.full
       /\ s = "password" => old.full /\ old.group
       /\ s = "reset" => old.password # NoText
       /\ old.password # NoText => (old.full /\ old.group) \/ s \in {"-group", "-password"}
  BY <1>2, <1>3, <1>4 DEF UserOK, old, UserCommands
<1>11. /\ \A v \in Worker :
            /\ At(v, u, "group")' => new.full
            /\ At(v, u, "password")' => new.full /\ new.group
            /\ ~At(v, u, "reset")'
  <2>1. ASSUME NEW name \in {"group", "password", "reset"}, At(w, u, name)'
        PROVE  \/ s = "full" /\ name = "group"
               \/ s = "group" /\ name = "password"
    <3>1. name \in UserSeconds
      BY DEF UserSeconds, Seconds
    <3>2. s \in Firsts /\ name = Second(s) /\ s \in UserCommands \ {"check"}
      BY <1>1, <1>6, <2>1, <3>1
    <3> QED
      BY <3>2 DEF Firsts, Second, UserCommands
  <2>2. "group" \in UserCommands /\ "password" \in UserCommands /\ "reset" \in UserCommands
    BY DEF UserCommands
  <2> QED
    BY <1>3, <1>9, <1>10, <2>1, <2>2
<1>12. new.password # NoText =>
         \/ new.full /\ new.group
         \/ At(w, u, "-group")' \/ At(w, u, "-password")'
  <2>1. s = "-full" => At(w, u, "-group")'
    <3>1. s = "-full" => s \in Firsts /\ "-group" = Second(s)
      BY DEF Firsts, Second
    <3> QED
      BY <1>5, <3>1
  <2>2. s = "-group" => At(w, u, "-password")'
    <3>1. s = "-group" => s \in Firsts /\ "-password" = Second(s)
      BY DEF Firsts, Second
    <3> QED
      BY <1>5, <3>1
  <2> QED
    BY <1>1, <1>9, <1>10, <2>1, <2>2 DEF UserCommands
<1> QED
  BY <1>11, <1>12 DEF UserOK, new

\* The user a request edits is a user.
LEMMA EditsUser ==
  ASSUME RequestsOK, NEW w \in Worker, req[w].steps # <<>>, Head(req[w].steps) \in UserCommands
  PROVE  req[w].arg.user \in User
<1>1. StepsOK(req[w].steps) /\ ReqOK(req[w])
  BY DEF RequestsOK, ReqOK
<1>2. Head(req[w].steps) = req[w].steps[1] /\ Len(req[w].steps) \in Nat /\ Len(req[w].steps) >= 1
  BY <1>1, TailOK
<1>3. Has(req[w].steps, UserCommands)
  BY <1>2 DEF Has
<1> QED
  BY <1>1, <1>3 DEF ReqOK

LEMMA WriteUserStep ==
  ASSUME WebInv, NEW w \in Worker, NEW lost \in BOOLEAN, WriteUser(w, lost)
  PROVE  UsersOK'
<1> DEFINE u0 == req[w].arg.user
           s == Head(req[w].steps)
<1>1. /\ Moves(w) /\ req[w].steps # <<>> /\ s \in UserCommands
      /\ req'[w] = Free \/ Advanced(req[w], req'[w])
  BY WriteMoves DEF WebInv
<1>2. u0 \in User
  BY <1>1, EditsUser DEF WebInv
<1>3. DOMAIN users = User /\ \A u \in User : DOMAIN users[u] = {"full", "group", "password"}
                                        /\ users[u].full \in BOOLEAN /\ users[u].group \in BOOLEAN
  BY DEF WebInv, UsersOK
<1>4. /\ mixed \subseteq mixed'
      /\ u0 \notin mixed' => ~lost /\ \A v \in Worker \ {w} : ~Edits(v, u0)
  BY DEF WriteUser
<1>5. DOMAIN users' = User /\ \A u \in User \ {u0} : users'[u] = users[u]
  BY <1>3 DEF WriteUser
<1>6. DOMAIN users'[u0] = {"full", "group", "password"} /\ users'[u0].full \in BOOLEAN /\ users'[u0].group \in BOOLEAN
  <2> DEFINE old == users[u0]
  <2>1. \/ users'[u0] = old
        \/ users'[u0] = [old EXCEPT !.full = s = "full"]
        \/ users'[u0] = [old EXCEPT !.group = s = "group"]
        \/ \E x : users'[u0] = [old EXCEPT !.password = x]
    BY <1>2, <1>3 DEF WriteUser
  <2>2. DOMAIN old = {"full", "group", "password"} /\ old.full \in BOOLEAN /\ old.group \in BOOLEAN
    BY <1>2, <1>3
  <2> HIDE DEF old, u0, s
  <2> QED
    BY <2>1, <2>2
<1>7. ASSUME NEW u \in User \ mixed', u # u0 PROVE UserOK(u)'
  <2>1. UserOK(u) /\ users'[u] = users[u]
    BY <1>4, <1>5, <1>7 DEF WebInv, UsersOK
  <2>2. ASSUME NEW v \in Worker, NEW name \in UserSeconds PROVE At(v, u, name)' <=> At(v, u, name)
    <3>1. CASE v # w
      BY <1>1, <3>1 DEF Moves, Only, At, Step
    <3>2. ~At(w, u, name)
      BY <1>7 DEF At
    <3>3. ~At(w, u, name)'
      BY <1>1, <1>7, FreeOK DEF At, Step, Advanced, Same
    <3> QED
      BY <3>1, <3>2, <3>3
  <2> QED
    BY <2>1, <2>2, UserUnmoved
<1>8. u0 \notin mixed' => \A u : u = u0 => UserOK(u)'
  <2>1. SUFFICES ASSUME u0 \notin mixed', NEW u, u = u0 PROVE UserOK(u)'
    OBVIOUS
  <2>2. u \notin mixed /\ WriteUser(w, FALSE) /\ \A v \in Worker \ {w} : ~Edits(v, u)
    BY <1>4, <2>1
  <2> QED
    BY <1>2, <2>1, <2>2, WriteOwn
<1>9. \A u \in User \ mixed' : UserOK(u)'
  BY <1>7, <1>8
<1> HIDE DEF u0
<1> QED
  BY <1>5, <1>6, <1>3, <1>9 DEF UsersOK

\* The old password is asked for before the new one is set.
LEMMA CheckStep ==
  ASSUME RequestsOK, UsersOK, NEW w \in Worker, CheckOldPassword(w)
  PROVE  UsersOK'
<1>1. /\ Step(w, "check") /\ users' = users /\ mixed' = mixed
      /\ IF CheckUserPassword(req[w].arg.user, req[w].arg.old) THEN Then(w, <<>>) ELSE End(w)
  BY DEF CheckOldPassword, redis, history
<1>2. Moves(w) /\ ReqOK(req[w]) /\ Head(req[w].steps) = "check" /\ req[w].steps # <<>>
  BY <1>1, SpecialSteps DEF Special, RequestsOK, Step
<1>3. ASSUME NEW v \in Worker, v # w, NEW u, NEW name PROVE At(v, u, name)' <=> At(v, u, name)
  BY <1>2, <1>3 DEF Moves, Only, At, Step
<1>4. ASSUME NEW u, NEW name \in UserSeconds PROVE ~At(w, u, name)
  BY <1>2 DEF At, Step, UserSeconds, Seconds
<1>5. ASSUME NEW u, NEW name \in UserSeconds, At(w, u, name)'
      PROVE  name = "reset" /\ users[u].password # NoText
  <2>1. Onward(req[w], req'[w])
    BY <1>2, GoesOK DEF Moves
  <2>2. Advanced(req[w], req'[w]) /\ name = Second("check")
    BY <1>2, <1>5, <2>1 DEF Onward, At, Step
  <2>3. req[w].arg.user = u
    BY <1>5, <2>2 DEF At, Advanced, Same
  <2>4. ~End(w)
    <3>1. End(w) => req'[w].steps = <<>>
      BY EndMoves, FreeOK
    <3> QED
      BY <1>5, <3>1 DEF At, Step
  <2>5. CheckUserPassword(req[w].arg.user, req[w].arg.old)
    BY <1>1, <2>4
  <2> QED
    BY <2>2, <2>3, <2>5 DEF Second, CheckUserPassword
<1>6. ASSUME NEW u \in User, UserOK(u) PROVE UserOK(u)'
  <2>1. \A v \in Worker :
          /\ At(v, u, "group")' => At(v, u, "group")
          /\ At(v, u, "password")' => At(v, u, "password")
          /\ At(v, u, "reset")' => At(v, u, "reset") \/ users[u].password # NoText
          /\ At(v, u, "-group") => At(v, u, "-group")'
          /\ At(v, u, "-password") => At(v, u, "-password")'
    BY <1>3, <1>4, <1>5 DEF UserSeconds, Seconds
  <2> QED
    BY <1>1, <1>6, <2>1 DEF UserOK
<1> QED
  BY <1>1, <1>6 DEF UsersOK

LEMMA UsersStep ==
  ASSUME WebInv, [WebNext]_webVars
  PROVE  UsersOK'
<1>1. CASE Others
  BY <1>1, OtherSteps DEF WebInv, UsersOK, UserOK, At, Step
<1>2. ASSUME NEW w \in Worker, Moves(w), users' = users, mixed \subseteq mixed',
             req[w].steps # <<>> => Head(req[w].steps) \notin UserCommands
      PROVE  UsersOK'
  <2>1. \A v \in Worker, u \in User, name \in UserSeconds : At(v, u, name)' <=> At(v, u, name)
    BY <1>2, SameAt DEF WebInv
  <2>2. ASSUME NEW u \in User \ mixed' PROVE UserOK(u)'
    <3>1. UserOK(u)
      BY <1>2 DEF WebInv, UsersOK
    <3> QED
      BY <1>2, <2>1, <3>1, UserUnmoved
  <2> QED
    BY <1>2, <2>2 DEF WebInv, UsersOK
<1>3. ASSUME NEW w \in Worker, Moves(w), Plain(w) PROVE UsersOK'
  BY <1>2, <1>3 DEF Plain
<1>4. ASSUME NEW w \in Worker, Moves(w), Special(w) PROVE UsersOK'
  <2>1. CASE CheckOldPassword(w)
    BY <2>1, CheckStep DEF WebInv
  <2>2. ASSUME NEW lost \in BOOLEAN, WriteUser(w, lost) PROVE UsersOK'
    BY <2>2, WriteUserStep
  <2>3. ASSUME users' = users, mixed \subseteq mixed',
               NEW name \in {"choice", "default", "switch", "token", "delete", "flush"}, Step(w, name)
        PROVE  UsersOK'
    BY <1>2, <1>4, <2>3 DEF Step, UserCommands
  <2>4. ASSUME NEW lost \in BOOLEAN, ReadChoice(w, lost) PROVE UsersOK'
    <3>1. users' = users /\ mixed \subseteq mixed' /\ Step(w, "choice")
      BY <2>4 DEF ReadChoice, redis
    <3> QED
      BY <2>3, <3>1
  <2>5. CASE StoreDefault(w)
    <3>1. users' = users /\ mixed \subseteq mixed' /\ Step(w, "default")
      BY <2>5 DEF StoreDefault, history
    <3> QED
      BY <2>3, <3>1
  <2>6. CASE SwitchInterface(w)
    <3>1. users' = users /\ mixed \subseteq mixed' /\ Step(w, "switch")
      BY <2>6 DEF SwitchInterface
    <3> QED
      BY <2>3, <3>1
  <2>7. CASE GenerateCSRFValue(w)
    <3>1. users' = users /\ mixed \subseteq mixed' /\ Step(w, "token")
      BY <2>7 DEF GenerateCSRFValue, history
    <3> QED
      BY <2>3, <3>1
  <2>8. CASE DeleteQueuedAlert(w)
    <3>1. users' = users /\ mixed \subseteq mixed' /\ Step(w, "delete")
      BY <2>8 DEF DeleteQueuedAlert
    <3> QED
      BY <2>3, <3>1
  <2>9. CASE FlushAllQueuedAlerts(w)
    <3>1. users' = users /\ mixed \subseteq mixed' /\ Step(w, "flush")
      BY <2>9 DEF FlushAllQueuedAlerts, history
    <3> QED
      BY <2>3, <3>1
  <2> QED
    BY <1>4, <2>1, <2>2, <2>4, <2>5, <2>6, <2>7, <2>8, <2>9 DEF Special
<1> QED
  BY <1>1, <1>3, <1>4, NextRequests DEF WebInv

-------------------------------------------------------------------------------
\* The interface a user chose.

\* A name that is a number would be taken for an id.
NamesAreNoNumbers == \A i \in DOMAIN Interfaces : Interfaces[i].name \notin Int

LEMMA IndexesAre == Len(Interfaces) \in Nat /\ Len(Interfaces) >= 1 /\ DOMAIN Interfaces = 1..Len(Interfaces)
<1>1. Interfaces \in Seq(ToSet(Interfaces)) \ {<<>>}
  BY WebAssumption DEF WebAssumption
<1> DEFINE S == ToSet(Interfaces)
<1> HIDE DEF S
<1>2. Interfaces \in Seq(S) /\ Interfaces # <<>>
  BY <1>1 DEF S
<1> QED
  BY <1>2

LEMMA SmallestIndex ==
  ASSUME NEW I, I \subseteq 1..Len(Interfaces), I # {}
  PROVE  Min(I) \in I
<1>1. Len(Interfaces) \in Nat /\ I \subseteq Nat
  BY IndexesAre
<1>2. PICK x \in I : \A y \in I : ~(<<y, x>> \in OpToRel(<, Nat))
  BY <1>1, NatLessThanWellFounded, WFMin
<1>3. ASSUME NEW y \in I PROVE x <= y
  <2>1. <<y, x>> \in Nat \X Nat
    BY <1>1
  <2>2. ~(<<y, x>>[1] < <<y, x>>[2])
    BY <1>2, <2>1, Zenon DEF OpToRel
  <2> QED
    BY <1>1, <2>2
<1> QED
  BY <1>3 DEF Min

\* An interface is found by its name, and what is found by an id is an interface.
LEMMA FoundByName ==
  ASSUME NamesAreNoNumbers, NEW i \in DOMAIN Interfaces
  PROVE  GetInterface(Interfaces, Interfaces[i].name) # 0
<1> DEFINE I == {j \in 1..Len(Interfaces) : Interfaces[j].name = Interfaces[i].name}
<1>1. Interfaces[i].name \notin Int /\ i \in I
  BY IndexesAre DEF NamesAreNoNumbers
<1>2. GetInterface(Interfaces, Interfaces[i].name) = IF I # {} THEN Min(I) ELSE 0
  BY <1>1 DEF GetInterface, SelectInSeq
<1>3. Min(I) \in I
  BY <1>1, SmallestIndex
<1> HIDE DEF I
<1>4. GetInterface(Interfaces, Interfaces[i].name) = Min(I)
  BY <1>1, <1>2
<1>5. Min(I) # 0
  BY <1>3 DEF I
<1> QED
  BY <1>4, <1>5

LEMMA FoundById ==
  ASSUME NEW id, InterfaceById(Interfaces, id) # 0
  PROVE  InterfaceById(Interfaces, id) \in DOMAIN Interfaces
<1> DEFINE I == {j \in 1..Len(Interfaces) : Interfaces[j].id = id}
<1>1. InterfaceById(Interfaces, id) = IF I # {} THEN Min(I) ELSE 0
  BY DEF InterfaceById, SelectInSeq
<1>2. I # {} => Min(I) \in I
  BY SmallestIndex
<1>3. I \subseteq DOMAIN Interfaces
  BY IndexesAre
<1> HIDE DEF I
<1> QED
  BY <1>1, <1>2, <1>3

\* Only a request that reads the choice comes to the default.
LEMMA DefaultFromChoice ==
  ASSUME RequestsOK, NEW w \in Worker, Moves(w), NEW v \in Worker, Step(v, "default")'
  PROVE  \/ v # w /\ Step(v, "default") /\ UserOf(v)' = UserOf(v)
         \/ v = w /\ Step(w, "choice") /\ UserOf(w)' = UserOf(w) /\ Delayed(req[w], req'[w], "default")
<1>1. CASE v # w
  BY <1>1 DEF Moves, Only, Step, UserOf
<1>2. CASE v = w
  <2>1. Onward(req[w], req'[w])
    BY GoesOK DEF RequestsOK, Moves
  <2>2. Delayed(req[w], req'[w], "default")
    BY <1>2, <2>1 DEF Onward, Step
  <2> QED
    BY <1>2, <2>2 DEF Delayed, Same, Step, UserOf
<1> QED
  BY <1>1, <1>2

LEMMA ChoiceUnmoved ==
  ASSUME NEW u, ChoiceOK(u), choice'[u] = choice[u], switched'[u] = switched[u],
         \A v \in Worker : Step(v, "default")' => UserOf(v)' # u
  PROVE  ChoiceOK(u)'
BY DEF ChoiceOK

\* A request that neither reads nor writes choices.
LEMMA ChoicesUnmoved ==
  ASSUME RequestsOK, ChoicesOK, NEW w \in Worker, Moves(w), ~Step(w, "choice"),
         choice' = choice, switched' = switched, mixed \subseteq mixed'
  PROVE  ChoicesOK'
<1>1. ASSUME NEW u \in User, switched[u] # NoText, u \notin mixed' PROVE ChoiceOK(u)'
  <2>1. ChoiceOK(u)
    BY <1>1 DEF ChoicesOK
  <2>2. \A v \in Worker : Step(v, "default")' => UserOf(v)' # u
    BY <2>1, DefaultFromChoice DEF ChoiceOK
  <2> QED
    BY <2>1, <2>2, ChoiceUnmoved
<1> QED
  BY <1>1 DEF ChoicesOK

LEMMA ReadChoiceStep ==
  ASSUME NamesAreNoNumbers, RequestsOK, ChoicesOK, NEW w \in Worker, NEW lost \in BOOLEAN, ReadChoice(w, lost)
  PROVE  ChoicesOK'
<1>1. /\ choice' = choice /\ switched' = switched /\ Step(w, "choice")
      /\ mixed' = IF lost THEN mixed \cup {UserOf(w)} ELSE mixed
  BY DEF ReadChoice, redis
<1>2. Moves(w)
  BY ChoiceMoves
<1>3. ASSUME NEW u \in User, switched[u] # NoText, u \notin mixed' PROVE ChoiceOK(u)'
  <2>1. ChoiceOK(u)
    BY <1>1, <1>3 DEF ChoicesOK
  <2>2. ASSUME NEW v \in Worker, Step(v, "default")', UserOf(v)' = u PROVE FALSE
    <3>1. v # w => FALSE
      BY <1>2, <2>1, <2>2, DefaultFromChoice DEF ChoiceOK
    <3>2. v = w /\ UserOf(w) = u /\ Delayed(req[w], req'[w], "default")
      BY <1>2, <2>2, <3>1, DefaultFromChoice
    <3>3. ~lost
      BY <1>1, <1>3, <3>2
    <3>4. GetInterface(Interfaces, choice[UserOf(w)].name) # 0
      <4>1. PICK i \in DOMAIN Interfaces : choice[u].name = Interfaces[i].name
        BY <2>1 DEF ChoiceOK
      <4> QED
        BY <3>2, <4>1, FoundByName
    <3>5. \E x : req' = [req EXCEPT ![w].ifname = x, ![w].steps = Tail(@)]
      BY <3>3, <3>4 DEF ReadChoice
    <3>6. req'[w].steps = Tail(req[w].steps)
      <4>1. Step(w, "choice") => req[w].steps # <<>> /\ Head(req[w].steps) # "list"
        BY DEF Step
      <4> QED
        BY <1>1, <3>5, <4>1, FieldMoves DEF Advanced
    <3>7. req'[w].steps = <<"default">> \o Tail(req[w].steps)
      BY <3>2 DEF Delayed
    <3>8. StepsOK(req[w].steps) /\ req[w].steps # <<>> /\ Head(req[w].steps) = "choice"
      BY <1>1 DEF Step, RequestsOK, ReqOK
    <3>9. Len(req'[w].steps) = Len(req[w].steps) - 1 /\ Len(req[w].steps) \in Nat
      BY <3>6, <3>8, TailOK
    <3>10. Len(req'[w].steps) = Len(req[w].steps)
      BY <3>7, <3>8, PrefixOK
    <3> QED
      BY <3>9, <3>10
  <2> QED
    BY <1>1, <2>1, <2>2, ChoiceUnmoved
<1> QED
  BY <1>1, <1>3 DEF ChoicesOK

LEMMA DefaultStep ==
  ASSUME RequestsOK, ChoicesOK, NEW w \in Worker, StoreDefault(w)
  PROVE  ChoicesOK'
<1>1. /\ choice' = [choice EXCEPT ![UserOf(w)] = [name |-> Interfaces[1].name, expires |-> TRUE]]
      /\ switched' = switched /\ mixed' = mixed /\ Step(w, "default")
  BY DEF StoreDefault, history
<1>2. Moves(w)
  BY SpecialSteps DEF Special
<1>3. ASSUME NEW u \in User, switched[u] # NoText, u \notin mixed PROVE ChoiceOK(u)'
  <2>1. ChoiceOK(u)
    BY <1>3 DEF ChoicesOK
  <2>2. UserOf(w) # u
    BY <1>1, <2>1 DEF ChoiceOK
  <2>3. choice'[u] = choice[u] /\ switched'[u] = switched[u]
    BY <1>1, <2>2 DEF ChoicesOK
  <2>4. \A v \in Worker : Step(v, "default")' => UserOf(v)' # u
    <3>1. ~Step(w, "choice")
      BY <1>1 DEF Step
    <3> QED
      BY <1>2, <2>1, <3>1, DefaultFromChoice DEF ChoiceOK
  <2> QED
    BY <2>1, <2>3, <2>4, ChoiceUnmoved
<1>4. DOMAIN choice' = User \cup {NoText} /\ DOMAIN switched' = User \cup {NoText}
  BY <1>1 DEF ChoicesOK
<1> QED
  BY <1>1, <1>3, <1>4 DEF ChoicesOK

LEMMA SwitchStep ==
  ASSUME RequestsOK, ChoicesOK, NEW w \in Worker, SwitchInterface(w)
  PROVE  ChoicesOK'
<1> DEFINE i == InterfaceById(Interfaces, req[w].arg.id)
           u0 == UserOf(w)
           pending == \E v \in Worker \ {w} : Step(v, "default") /\ UserOf(v) = u0
<1>1. Step(w, "switch") /\ End(w)
  BY DEF SwitchInterface
<1>2. Moves(w) /\ ~Step(w, "choice")
  BY <1>1, SpecialSteps DEF Special, Step
<1>3. CASE UNCHANGED <<choice, switched, mixed>>
  BY <1>2, <1>3, ChoicesUnmoved
<1>4. CASE /\ i # 0
           /\ choice' = [choice EXCEPT ![u0] = [name |-> Interfaces[i].name, expires |-> FALSE]]
           /\ switched' = [switched EXCEPT ![u0] = Interfaces[i].name]
           /\ mixed' = IF pending THEN mixed \cup {u0} ELSE mixed
  <2>1. i \in DOMAIN Interfaces
    BY <1>4, FoundById
  <2> HIDE DEF i, u0
  <2>2. DOMAIN choice' = User \cup {NoText} /\ DOMAIN switched' = User \cup {NoText}
    BY <1>4 DEF ChoicesOK
  <2>3. ASSUME NEW u \in User, switched'[u] # NoText, u \notin mixed', u # u0 PROVE ChoiceOK(u)'
    <3>1. choice'[u] = choice[u] /\ switched'[u] = switched[u] /\ u \notin mixed
      BY <1>4, <2>3 DEF ChoicesOK
    <3>2. ChoiceOK(u)
      BY <2>3, <3>1 DEF ChoicesOK
    <3>3. \A v \in Worker : Step(v, "default")' => UserOf(v)' # u
      BY <1>2, <3>2, DefaultFromChoice DEF ChoiceOK
    <3> QED
      BY <3>1, <3>2, <3>3, ChoiceUnmoved
  <2>4. ASSUME u0 \in User, u0 \notin mixed' PROVE \A u : u = u0 => ChoiceOK(u)'
    <3>1. choice'[u0] = [name |-> Interfaces[i].name, expires |-> FALSE] /\ switched'[u0] = Interfaces[i].name
      BY <1>4, <2>4 DEF ChoicesOK
    <3>2. ~pending
      BY <1>4, <2>4
    <3>3. \A v \in Worker : Step(v, "default")' => UserOf(v)' # u0
      BY <1>2, <3>2, DefaultFromChoice
    <3> HIDE DEF pending
    <3>4. SUFFICES ASSUME NEW u, u = u0 PROVE ChoiceOK(u)'
      OBVIOUS
    <3>5. choice'[u] = [name |-> switched'[u], expires |-> FALSE] /\ switched'[u] = Interfaces[i].name
      BY <3>1, <3>4
    <3>6. \A v \in Worker : Step(v, "default")' => UserOf(v)' # u
      BY <3>3, <3>4
    <3> QED
      BY <2>1, <3>5, <3>6 DEF ChoiceOK
  <2>5. ASSUME NEW u \in User, switched'[u] # NoText, u \notin mixed' PROVE ChoiceOK(u)'
    BY <2>3, <2>4, <2>5
  <2> QED
    BY <2>2, <2>5 DEF ChoicesOK
<1> QED
  BY <1>3, <1>4 DEF SwitchInterface

LEMMA ChoicesStep ==
  ASSUME NamesAreNoNumbers, WebInv, ChoicesOK, [WebNext]_webVars
  PROVE  ChoicesOK'
<1>1. CASE Others
  <2>1. UNCHANGED <<req, switched, mixed>>
    BY <1>1, OtherSteps
  <2>2. choice' = choice \/ \E x \in DOMAIN choice : choice[x].expires /\ choice' = [choice EXCEPT ![x] = None]
    BY <1>1 DEF Others, Sweep, QueueAlert, Expire, webVars, redis
  <2>3. DOMAIN choice' = DOMAIN choice
    BY <2>2
  <2>4. ASSUME NEW u \in User, switched[u] # NoText, u \notin mixed PROVE ChoiceOK(u)'
    <3>1. ChoiceOK(u)
      BY <2>4 DEF ChoicesOK
    <3>2. choice[u].expires = FALSE
      BY <3>1 DEF ChoiceOK
    <3>3. choice'[u] = choice[u]
      BY <2>2, <3>2 DEF ChoicesOK
    <3> QED
      BY <2>1, <3>1, <3>3 DEF ChoiceOK, Step, UserOf
  <2> QED
    BY <2>1, <2>3, <2>4 DEF ChoicesOK
<1>2. ASSUME NEW w \in Worker, Moves(w), ~Step(w, "choice"),
             choice' = choice, switched' = switched, mixed \subseteq mixed'
      PROVE  ChoicesOK'
  BY <1>2, ChoicesUnmoved DEF WebInv
<1>3. ASSUME NEW w \in Worker, Moves(w), Plain(w) PROVE ChoicesOK'
  BY <1>2, <1>3 DEF Plain, Step
<1>4. ASSUME NEW w \in Worker, Moves(w), Special(w) PROVE ChoicesOK'
  <2>1. ASSUME NEW lost \in BOOLEAN, ReadChoice(w, lost) PROVE ChoicesOK'
    BY <2>1, ReadChoiceStep DEF WebInv
  <2>2. CASE StoreDefault(w)
    BY <2>2, DefaultStep DEF WebInv
  <2>3. CASE SwitchInterface(w)
    BY <2>3, SwitchStep DEF WebInv
  <2>4. ASSUME NEW lost \in BOOLEAN, WriteUser(w, lost) PROVE ChoicesOK'
    <3>1. choice' = choice /\ switched' = switched /\ mixed \subseteq mixed'
      BY <2>4 DEF WriteUser
    <3>2. ~Step(w, "choice")
      BY <2>4, WriteMoves DEF WebInv, Step, UserCommands
    <3> QED
      BY <1>2, <1>4, <3>1, <3>2
  <2>5. CASE GenerateCSRFValue(w) \/ DeleteQueuedAlert(w) \/ FlushAllQueuedAlerts(w) \/ CheckOldPassword(w)
    <3>1. choice' = choice /\ switched' = switched /\ mixed \subseteq mixed'
      BY <2>5 DEF GenerateCSRFValue, DeleteQueuedAlert, FlushAllQueuedAlerts, CheckOldPassword, redis, history
    <3>2. ~Step(w, "choice")
      BY <2>5 DEF GenerateCSRFValue, DeleteQueuedAlert, FlushAllQueuedAlerts, CheckOldPassword, Step
    <3> QED
      BY <1>2, <1>4, <3>1, <3>2
  <2> QED
    BY <1>4, <2>1, <2>2, <2>3, <2>4, <2>5 DEF Special
<1> QED
  BY <1>1, <1>3, <1>4, NextRequests DEF WebInv

-------------------------------------------------------------------------------
(* The results about requests *)

LEMMA WebInvInit == WebInit => WebInv /\ ChoicesOK
<1> SUFFICES ASSUME WebInit PROVE WebInv /\ ChoicesOK
  OBVIOUS
<1>1. RequestsOK
  BY FreeOK DEF WebInit, RequestsOK
<1>2. AlertsOK
  <2>1. Queued \in Nat
    BY WebAssumption DEF WebAssumption
  <2>2. [k \in 1..Queued |-> Queued - k + 1] \in Seq(Nat)
    BY <2>1
  <2> QED
    BY <2>2 DEF WebInit, AlertsOK
<1>3. PagesOK
  <2>1. PageOK(NoPage)
    BY DEF PageOK, NoPage
  <2> QED
    BY <2>1 DEF WebInit, PagesOK
<1>4. DeletedAsShown
  BY DEF WebInit, DeletedAsShown
<1>5. UsersOK
  <2>1. DOMAIN users = User
    BY DEF WebInit
  <2>2. ASSUME NEW u \in User
        PROVE  \/ users[u] = NoUser
               \/ \E x : users[u] = [full |-> TRUE, group |-> TRUE, password |-> x]
    BY DEF WebInit
  <2>3. \A w \in Worker : \A u, name : ~At(w, u, name)
    BY FreeOK DEF WebInit, At, Step
  <2>4. ASSUME NEW u \in User
        PROVE  /\ DOMAIN users[u] = {"full", "group", "password"}
               /\ users[u].full \in BOOLEAN /\ users[u].group \in BOOLEAN
               /\ users[u].password # NoText => users[u].full /\ users[u].group
    <3> DEFINE r == users[u]
    <3> HIDE DEF r
    <3>1. CASE r = NoUser
      BY <3>1 DEF NoUser, r
    <3>2. ASSUME NEW x, r = [full |-> TRUE, group |-> TRUE, password |-> x]
          PROVE  DOMAIN r = {"full", "group", "password"} /\ r.full = TRUE /\ r.group = TRUE
      BY <3>2
    <3> QED
      BY <2>2, <3>1, <3>2 DEF r
  <2> QED
    BY <2>1, <2>3, <2>4 DEF UsersOK, UserOK
<1>6. ChoicesOK
  <2>1. DOMAIN choice = User \cup {NoText} /\ switched = [u \in User \cup {NoText} |-> NoText]
    BY DEF WebInit
  <2> QED
    BY <2>1 DEF ChoicesOK
<1> QED
  BY <1>1, <1>2, <1>3, <1>4, <1>5, <1>6 DEF WebInv

LEMMA WebInvStep == WebInv /\ [WebNext]_webVars => WebInv'
<1> SUFFICES ASSUME WebInv, [WebNext]_webVars PROVE WebInv'
  OBVIOUS
<1>1. RequestsOK'
  BY NextRequests DEF WebInv
<1>2. AlertsOK' /\ PagesOK'
  BY QueueStep DEF WebInv
<1>3. DeletedAsShown'
  BY DeletedStep DEF WebInv
<1>4. UsersOK'
  BY UsersStep
<1> QED
  BY <1>1, <1>2, <1>3, <1>4 DEF WebInv

LEMMA WebInvAlways == WebSpec => []WebInv
BY WebInvInit, WebInvStep, PTL DEF WebSpec

\* What deleteQueuedAlert() removes is the alert of the row that was clicked, if the queue
\* is the one the page was made from: whatever the limits, and however many requests run,
\* the rows, the index in the page and the index of LSET count alike.
THEOREM RowClickedIsRemoved == WebSpec => []DeletedAsShown
<1>1. WebInv => DeletedAsShown
  BY DEF WebInv
<1> QED
  BY <1>1, WebInvAlways, PTL

\* The commands of addUser(), deleteUser() and resetUserPassword() leave no user who can log in
\* without a name or a group, wherever another user's requests come between them: addUser()
\* writes the password last, deleteUser() is the only one that takes keys away, and
\* resetUserPassword() asks for a password that only a whole user has.
THEOREM UsersStayWhole == WebSpec => []UserWhole
<1>1. WebInv => UserWhole
  <2> SUFFICES ASSUME WebInv, NEW u \in User \ mixed, \A w \in Worker : ~Edits(w, u), u \in DOMAIN GetUsers
               PROVE  GetUsers[u] = [full_name |-> TRUE, group |-> TRUE]
    BY DEF UserWhole
  <2>1. /\ users[u].password # NoText
        /\ GetUsers[u] = [full_name |-> users[u].full, group |-> users[u].group]
    BY DEF GetUsers
  <2>2. UserOK(u) /\ users[u].full \in BOOLEAN /\ users[u].group \in BOOLEAN
    BY DEF WebInv, UsersOK
  <2>3. \A w \in Worker : ~At(w, u, "-group") /\ ~At(w, u, "-password")
    BY UserStepsAre DEF Edits, At, Step, UserCommands
  <2>4. users[u].full /\ users[u].group
    BY <2>1, <2>2, <2>3 DEF UserOK
  <2>5. users[u].full = TRUE /\ users[u].group = TRUE
    BY <2>2, <2>4
  <2> QED
    BY <2>1, <2>5
<1> QED
  BY <1>1, WebInvAlways, PTL

\* setActiveInterfaceId() stores the choice for good, and neither an expiry nor the default that
\* handle_script_request() stores takes its place, however many requests of other users run.
\* It is for interfaces whose names are not numbers: getInterface() takes a number for an id,
\* does not find the interface by it, and the default is stored over the choice.
THEOREM ChoicesStay == NamesAreNoNumbers /\ WebSpec => []ChoiceKept
<1> SUFFICES ASSUME NamesAreNoNumbers PROVE WebSpec => []ChoiceKept
  OBVIOUS
<1>1. WebInv /\ ChoicesOK /\ [WebNext]_webVars => (WebInv /\ ChoicesOK)'
  BY WebInvStep, ChoicesStep
<1>2. ChoicesOK => ChoiceKept
  BY DEF ChoicesOK, ChoiceOK, ChoiceKept
<1> QED
  BY <1>1, <1>2, WebInvInit, PTL DEF WebSpec
==============================================================================
