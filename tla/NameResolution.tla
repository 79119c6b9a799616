---------------------------- MODULE NameResolution ----------------------------
(***************************************************************************)
(* The queue of addresses to resolve and the cache of names, both in       *)
(* Redis, the threads that ask for names and the resolvers that find them. *)
(* Every operation of class Redis runs under one mutex, so other threads   *)
(* see it as one step; Redis::getAddress() is two of them.  Any command    *)
(* may be lost, or executed and its reply lost: the connection is opened   *)
(* again and the command is not repeated.  Names are abstracted: what      *)
(* counts is whether an address is cached and for how long.                *)
(*                                                                         *)
(* The HTTP:BL thread is the same with one resolver that does not look in  *)
(* the cache before it asks (LooksAgain = FALSE).                          *)
(*                                                                         *)
(* asked, unused and losses are history variables.                         *)
(***************************************************************************)
EXTENDS Integers, Sequences, FiniteSets

CONSTANTS
  Addrs,            \* addresses of hosts
  FirstAddrs,       \* addresses whose host page may be opened
  OverheardAddrs,   \* addresses named in DNS, HTTP or TLS traffic
  Callers,          \* capture and HTTP threads
  Resolvers,        \* CONST_NUM_RESOLVERS threads
  NoAddr,
  LooksAgain,       \* resolvers look in the cache before they ask
  MaxQueuedAddrs,   \* MAX_NUM_QUEUED_ADDRS
  CacheDuration,    \* DNS_CACHE_DURATION, in ticks
  MaxLosses         \* bounds the lost commands, replies and answers

ASSUME ResolutionAssumption ==
  /\ FirstAddrs \subseteq Addrs /\ OverheardAddrs \subseteq Addrs
  /\ NoAddr \notin Addrs
  /\ IsFiniteSet(Addrs) /\ IsFiniteSet(Resolvers)
  /\ LooksAgain \in BOOLEAN
  /\ MaxQueuedAddrs \in Nat /\ MaxLosses \in Nat
  /\ CacheDuration \in Nat \ {0}

VARIABLES
  queue,     \* the list dns.toresolve
  ttl,       \* time an entry of dns.cache has left; Absent; Forever
  missed,    \* caller -> address it has missed in the cache and not queued yet
  popped,    \* resolver -> address it works on
  asking,    \* resolvers inside getnameinfo()
  asked,     \* address -> queries sent since the last time its entry expired
  unused,    \* address -> ticks since its entry was set or found
  losses     \* commands, replies and answers lost

store == <<queue, ttl>>
vars == <<store, missed, popped, asking, asked, unused, losses>>

Absent == 0
Forever == CacheDuration + 1
Cached(a) == ttl[a] # Absent

\* n commands or replies are lost in this step.
Lost(n) == losses + n <= MaxLosses /\ losses' = losses + n

-------------------------------------------------------------------------------
(* The Redis class *)

\* Mutant: one more is left.
TrimOneLate(q) == IF Len(q) > MaxQueuedAddrs + 2 THEN SubSeq(q, 1, MaxQueuedAddrs + 2) ELSE q

\* LTRIM list 0 MAX_NUM_QUEUED_ADDRS: both ends are kept.
Trim(q) == IF Len(q) > MaxQueuedAddrs + 1 THEN SubSeq(q, 1, MaxQueuedAddrs + 1) ELSE q

\* pushHost(): LPUSH for a local host, RPUSH else, and LTRIM; each command may be
\* lost alone.  When it checks for existence and the GET is lost, it finds nothing.
PushHost(a, checks, localHost) ==
  \/ checks /\ Cached(a) /\ UNCHANGED queue /\ Lost(0)
  \/ \E push, trim \in {0, 1} :
       LET pushed  == IF push = 1 THEN queue
                      ELSE IF localHost THEN <<a>> \o queue ELSE Append(queue, a)
           lostGet == IF checks /\ Cached(a) THEN 1 ELSE 0
       IN /\ queue' = IF trim = 1 THEN pushed ELSE Trim(pushed)
          /\ Lost(lostGet + push + trim)

\* Mutant: the entry is given no expiry.
SetForever(a) ==
  ttl' = [ttl EXCEPT ![a] = Forever] /\ unused' = [unused EXCEPT ![a] = 0] /\ Lost(0)

\* setResolvedAddress(): SET removes the expiry of the entry, EXPIRE gives it one;
\* when the SET or its reply is lost, there is no EXPIRE.
SetResolvedAddress(a) ==
  \/ \E left \in {CacheDuration, Forever} :
       /\ ttl' = [ttl EXCEPT ![a] = left]
       /\ unused' = [unused EXCEPT ![a] = 0]
       /\ Lost(IF left = Forever THEN 1 ELSE 0)
  \/ UNCHANGED <<ttl, unused>> /\ Lost(1)

-------------------------------------------------------------------------------
(* Threads that want a name *)

\* getAddress() with queue_if_not_found, first half.  The EXPIRE that follows a
\* hit names the address without the prefix of the cache: no entry changes.
GetAddress(c, a) ==
  /\ missed[c] = NoAddr
  /\ \/ Cached(a) /\ unused' = [unused EXCEPT ![a] = 0] /\ Lost(0) /\ UNCHANGED missed
     \/ /\ missed' = [missed EXCEPT ![c] = a]
        /\ Lost(IF Cached(a) THEN 1 ELSE 0)
        /\ UNCHANGED unused
  /\ UNCHANGED <<store, popped, asking, asked>>

\* getAddress(), second half: queued without looking again.
QueueMissed(c) ==
  /\ missed[c] # NoAddr
  /\ PushHost(missed[c], FALSE, FALSE)
  /\ missed' = [missed EXCEPT ![c] = NoAddr]
  /\ UNCHANGED <<ttl, popped, asking, asked, unused>>

\* Host::lua(): the page of a host with no name yet.
OpenHostPage(a) ==
  /\ a \in FirstAddrs
  /\ PushHost(a, TRUE, TRUE)
  /\ UNCHANGED <<ttl, missed, popped, asking, asked, unused>>

\* Flow::processDetectedProtocol(): a name seen in the traffic.
Overhear(a) ==
  /\ a \in OverheardAddrs
  /\ SetResolvedAddress(a)
  /\ UNCHANGED <<queue, missed, popped, asking, asked>>

-------------------------------------------------------------------------------
(* Resolvers *)

\* popHost(): with a lost reply the address leaves the queue and is not resolved.
PopHost(r) ==
  /\ popped[r] = NoAddr
  /\ queue # <<>>
  /\ queue' = Tail(queue)
  /\ \/ popped' = [popped EXCEPT ![r] = Head(queue)] /\ Lost(0)
     \/ UNCHANGED popped /\ Lost(1)
  /\ UNCHANGED <<ttl, missed, asking, asked, unused>>

\* Mutant: the address is asked for without looking.
NotFound(a) == TRUE

\* getAddress() of resolveHostName(); a lost GET finds nothing.
Unknown(a) == LooksAgain => ~Cached(a)

\* resolveHostName() up to getnameinfo().
LookUp(r) ==
  /\ popped[r] # NoAddr /\ r \notin asking
  /\ \/ /\ ~Unknown(popped[r])
        /\ popped' = [popped EXCEPT ![r] = NoAddr]
        /\ unused' = [unused EXCEPT ![popped[r]] = 0]
        /\ Lost(0)
        /\ UNCHANGED <<asking, asked>>
     \/ /\ asking' = asking \cup {r}
        /\ asked' = [asked EXCEPT ![popped[r]] = @ + 1]
        /\ Lost(IF Unknown(popped[r]) THEN 0 ELSE 1)
        /\ UNCHANGED <<popped, unused>>
  /\ UNCHANGED <<store, missed>>

\* The end of resolveHostName(): a failure is cached too, as the address itself.
Answer(r) ==
  /\ r \in asking
  /\ SetResolvedAddress(popped[r])
  /\ asking' = asking \ {r}
  /\ popped' = [popped EXCEPT ![r] = NoAddr]
  /\ UNCHANGED <<queue, missed, asked>>

-------------------------------------------------------------------------------
(* The server and the process *)

\* Redis removes the entries whose time is up.
Tick ==
  /\ ttl' = [a \in Addrs |-> IF ttl[a] \in 1..CacheDuration THEN ttl[a] - 1 ELSE ttl[a]]
  /\ asked' = [a \in Addrs |-> IF ttl[a] = 1 THEN 0 ELSE asked[a]]
  /\ unused' = [a \in Addrs |-> IF Cached(a) /\ unused[a] < CacheDuration
                                THEN unused[a] + 1 ELSE unused[a]]
  /\ Lost(0)
  /\ UNCHANGED <<queue, missed, popped, asking>>

\* ntopng ends and starts again: Redis keeps the queue and the cache; the addresses
\* that resolvers had popped are lost.
Restart ==
  /\ missed' = [c \in Callers |-> NoAddr]
  /\ popped' = [r \in Resolvers |-> NoAddr]
  /\ asking' = {}
  /\ Lost(Cardinality({r \in Resolvers : popped[r] # NoAddr}))
  /\ UNCHANGED <<store, asked, unused>>

-------------------------------------------------------------------------------
Init ==
  /\ queue = <<>>
  /\ ttl = [a \in Addrs |-> Absent]
  /\ missed = [c \in Callers |-> NoAddr]
  /\ popped = [r \in Resolvers |-> NoAddr]
  /\ asking = {}
  /\ asked = [a \in Addrs |-> 0]
  /\ unused = [a \in Addrs |-> 0]
  /\ losses = 0

ResolverStep(r) == PopHost(r) \/ LookUp(r) \/ Answer(r)

Next ==
  \/ \E c \in Callers, a \in Addrs : GetAddress(c, a)
  \/ \E c \in Callers : QueueMissed(c)
  \/ \E a \in Addrs : OpenHostPage(a)
  \/ \E a \in Addrs : Overhear(a)
  \/ \E r \in Resolvers : PopHost(r)
  \/ \E r \in Resolvers : LookUp(r)
  \/ \E r \in Resolvers : Answer(r)
  \/ Tick
  \/ Restart

Spec == Init /\ [][Next]_vars

\* resolveLoop() polls the queue and getnameinfo() returns, with or without a name.
FairSpec == Spec /\ \A r \in Resolvers : WF_vars(ResolverStep(r))

-------------------------------------------------------------------------------
(* Properties *)

\* Types of the queue, the cache and the threads.
TypeOK ==
  /\ queue \in Seq(Addrs)
  /\ ttl \in [Addrs -> 0..Forever]
  /\ missed \in [Callers -> Addrs \cup {NoAddr}]
  /\ popped \in [Resolvers -> Addrs \cup {NoAddr}]
  /\ asking \subseteq {r \in Resolvers : popped[r] # NoAddr}
  /\ asked \in [Addrs -> Nat]
  /\ unused \in [Addrs -> 0..CacheDuration]
  /\ losses \in 0..MaxLosses

\* Whatever commands are lost, the queue is over its limit by no more than the
\* trims that were lost: the next trim that arrives brings it back.
QueueBounded == Len(queue) <= MaxQueuedAddrs + 1 + losses

\* However often an address is in the queue and with callers, pages, traffic and
\* expiry in any order, between two expiries of its entry each resolver asks for it
\* at most once, but for commands, replies or answers lost.
AskedOncePerResolver == \A a \in Addrs : asked[a] <= Cardinality(Resolvers) + losses

\* An entry that never expires was left by a lost EXPIRE, one for each such entry.
EntriesExpire == Cardinality({a \in Addrs : ttl[a] = Forever}) <= losses

\* When no command is lost and nobody jumps the queue, an address that is in the
\* queue gets an entry in the cache: the trim drops newer addresses only.
QueuedIsCached == \A a \in Addrs : (\E i \in DOMAIN queue : queue[i] = a) ~> Cached(a)

\* "No more than MAX_NUM_QUEUED_ADDRS entries are in queue" (Redis.cpp:442).
QueueWithinMax == Len(queue) <= MaxQueuedAddrs

\* "We need to extend expire" (Redis.cpp:669): an entry that expires has not been
\* used for the whole duration.
UsedEntriesStay ==
  [][\A a \in Addrs : Cached(a) /\ ttl'[a] = Absent => unused[a] + 1 >= CacheDuration]_vars

\* "To avoid consulting the blacklist again" (HTTPBL.cpp:243): with no answer lost
\* each address is asked for once before its entry expires.
AskedOnce == losses = 0 => \A a \in Addrs : asked[a] <= 1

===============================================================================
