---------------------------- MODULE LifecycleProofs ----------------------------
(***************************************************************************)
(* Proofs about the start and the end of the program.                      *)
(*                                                                         *)
(* Startup: the numbers of interfaces are kept from one run to the next,   *)
(* wherever a run is cut, for every number of interfaces and every choice  *)
(* of options; and each interface that was asked for comes to be there.    *)
(*                                                                         *)
(* Shutdown: for every number of interfaces, of signals, and every choice  *)
(* of what the signals may interrupt.                                      *)
(***************************************************************************)
EXTENDS Startup, Shutdown, SumTheorems

\* What a call of ifname2id() between two of its commands knows of the hash in Redis:
\* before the first, neither its name nor its number is there; before the second, its
\* number may be there, when the name is itself that number, and then with this name.
IdentOK ==
  /\ ident.step = "name" =>
       /\ DOMAIN ident = {"step", "id", "name"}
       /\ ident.name \notin DOMAIN ids /\ Number(ident.id) \notin DOMAIN ids
  /\ ident.step = "number" =>
       (Number(ident.id) \in DOMAIN ids => ids[Number(ident.id)] = ident.name)

\* A step keeps the numbers that are there.
Kept == \A f \in DOMAIN ids : f \in DOMAIN ids' /\ ids'[f] = ids[f]
-------------------------------------------------------------------------------
(* Lemmas about numbers and about a function that is extended.             *)

\* A set of naturals that is not empty holds its minimum.
LEMMA MinLemma ==
  ASSUME NEW S \in SUBSET Nat, S # {}
  PROVE  Min(S) \in S
<1>1. PICK x \in S : \A y \in S : <<y, x>> \notin OpToRel(<, Nat)
  BY NatLessThanWellFounded, WFMin
<1>2. ASSUME NEW y \in S PROVE x <= y
  <2>1. <<y, x>> \in Nat \X Nat
    OBVIOUS
  <2>2. ~(<<y, x>>[1] < <<y, x>>[2])
    BY <1>1, <2>1, Zenon DEF OpToRel
  <2> QED
    BY <2>2
<1> QED
  BY <1>2 DEF Min

\* The number that is looked up for a new name is free.
LEMMA FreeLemma ==
  ASSUME NEW hash, NEW free,
         free = { j \in 0..(MaxIds - 1) : Number(j) \notin DOMAIN hash }, free # {}
  PROVE  Number(Min(free)) \notin DOMAIN hash
<1>1. free \in SUBSET Nat
  BY MaxIdsAssumption
<1>2. Min(free) \in free
  BY <1>1, MinLemma
<1> QED
  BY <1>2
-------------------------------------------------------------------------------
(* The steps of a call, and all others.                                    *)

LEMMA LookUpStep ==
  ASSUME IdentOK, LookUp
  PROVE  IdentOK' /\ Kept
<1> DEFINE n == Head(todo).name
           free == { j \in 0..(MaxIds - 1) : Number(j) \notin DOMAIN ids }
<1>1. UNCHANGED ids
  BY DEF LookUp, redis
<1>2. Kept
  BY <1>1 DEF Kept
<1>3. CASE n \in DOMAIN ids \/ free = {}
  <2>1. ident'.step = "known"
    BY <1>3 DEF LookUp
  <2> QED
    BY <1>2, <2>1 DEF IdentOK
<1>4. CASE n \notin DOMAIN ids /\ free # {}
  <2>1. ident' = [step |-> "name", id |-> Min(free), name |-> n]
    BY <1>4 DEF LookUp
  <2>2. Number(Min(free)) \notin DOMAIN ids
    <3> HIDE DEF n
    <3> QED
      BY <1>4, FreeLemma
  <2> HIDE DEF n, free
  <2>3. /\ ident'.step = "name" /\ ident'.id = Min(free) /\ ident'.name = n
        /\ DOMAIN ident' = {"step", "id", "name"}
    BY <2>1
  <2> QED
    BY <1>1, <1>2, <1>4, <2>2, <2>3 DEF IdentOK
<1> QED
  BY <1>3, <1>4

LEMMA StoreNameStep ==
  ASSUME IdentOK, StoreName
  PROVE  IdentOK' /\ Kept
<1>1. /\ ident.step = "name" /\ DOMAIN ident = {"step", "id", "name"}
      /\ ident.name \notin DOMAIN ids /\ Number(ident.id) \notin DOMAIN ids
  BY DEF IdentOK, StoreName
<1>2. ids' = HSet(ids, ident.name, Number(ident.id)) /\ ident' = [ident EXCEPT !.step = "number"]
  BY DEF StoreName
<1>3. ident'.step = "number" /\ ident'.id = ident.id /\ ident'.name = ident.name
  BY <1>1, <1>2
<1>4. /\ DOMAIN ids' = DOMAIN ids \cup {ident.name} /\ ids'[ident.name] = Number(ident.id)
      /\ \A f \in DOMAIN ids \ {ident.name} : ids'[f] = ids[f]
  BY <1>2 DEF HSet
<1>5. Kept
  BY <1>1, <1>4 DEF Kept
<1>6. IdentOK'
  <2>1. ASSUME Number(ident'.id) \in DOMAIN ids'
        PROVE  ids'[Number(ident'.id)] = ident'.name
    <3>1. Number(ident.id) = ident.name
      BY <1>1, <1>3, <1>4, <2>1
    <3> QED
      BY <1>3, <1>4, <3>1
  <2> QED
    BY <1>3, <2>1 DEF IdentOK
<1> QED
  BY <1>5, <1>6

LEMMA StoreNumberStep ==
  ASSUME IdentOK, StoreNumber
  PROVE  IdentOK' /\ Kept
<1>1. Number(ident.id) \in DOMAIN ids => ids[Number(ident.id)] = ident.name
  BY DEF IdentOK, StoreNumber
<1>2. ids' = HSet(ids, Number(ident.id), ident.name)
  BY DEF StoreNumber
<1>3. /\ DOMAIN ids' = DOMAIN ids \cup {Number(ident.id)} /\ ids'[Number(ident.id)] = ident.name
      /\ \A f \in DOMAIN ids \ {Number(ident.id)} : ids'[f] = ids[f]
  BY <1>2 DEF HSet
<1>4. Kept
  BY <1>1, <1>3 DEF Kept
<1>5. ident'.step = "known"
  BY DEF StoreNumber
<1> QED
  BY <1>4, <1>5 DEF IdentOK

\* Nothing else changes the hash, and no other step leaves a call half done.
LEMMA OtherStep ==
  ASSUME IdentOK, UNCHANGED ids,
         UNCHANGED ident \/ ident' = NoIdent \/ ident'.step = "default"
  PROVE  IdentOK' /\ Kept
<1>1. NoIdent.step = "none"
  BY DEF NoIdent
<1> QED
  BY <1>1 DEF IdentOK, Kept

LEMMA NextStepLemma ==
  ASSUME IdentOK, [Next]_vars
  PROVE  IdentOK' /\ Kept
<1> DEFINE Other == UNCHANGED ids /\ (UNCHANGED ident \/ ident' = NoIdent \/ ident'.step = "default")
<1> SUFFICES Other \/ LookUp \/ StoreName \/ StoreNumber
  BY LookUpStep, StoreNameStep, StoreNumberStep, OtherStep
<1>1. ASSUME NEW input \in Input, NEW who \in {"root", "user"}, Launch(input, who)
      PROVE  Other
  BY <1>1 DEF Launch, redis
<1>2. CASE Interfaces
  BY <1>2 DEF Interfaces, RegisterPrefs, AddNetworkInterface, MakeDummy, CreateInterface, AddDefaults,
              CreateInterfaces, CreateHistorical, CheckInterfaces, Done, redis
<1>3. CASE Begin
  <2>1. ASSUME NEW ok \in BOOLEAN, DropPrivileges(ok) \/ WritePid(ok)
        PROVE  Other
    BY <2>1 DEF DropPrivileges, WritePid, redis
  <2>2. CASE StartWeb \/ TestDirectory \/ StartLoops \/ LoadAddresses \/ StartPolling
    BY <2>2 DEF StartWeb, TestDirectory, StartLoops, LoadAddresses, StartPolling, redis
  <2>3. ASSUME NEW key \in Keys, ReadDefault(key)
        PROVE  Other
    BY <2>3 DEF ReadDefault, redis
  <2>4. CASE StoreDefault
    BY <2>4 DEF StoreDefault
  <2> QED
    BY <1>3, <2>1, <2>2, <2>3, <2>4 DEF Begin
<1>4. ASSUME NEW key \in Keys, NEW v \in Value, ChangePreference(key, v)
      PROVE  Other
  BY <1>4 DEF ChangePreference
<1>5. CASE Tick
  BY <1>5 DEF Tick, redis
<1>6. ASSUME NEW l \in DOMAIN Loops, RunScript(l)
      PROVE  Other
  BY <1>6 DEF RunScript, redis
<1>7. CASE Exit \/ Kill \/ Stop
  BY <1>7 DEF Exit, Kill, Stop, Gone, redis
<1>8. CASE UNCHANGED vars
  BY <1>8 DEF vars
<1> HIDE DEF Other
<1> QED
  BY <1>1, <1>2, <1>3, <1>4, <1>5, <1>6, <1>7, <1>8 DEF Next, Identify
-------------------------------------------------------------------------------
\* The number of a name in Redis stays its number, whatever is started and wherever a run of
\* the program is cut between the commands of ifname2id().
THEOREM NumbersStay == Spec => NumbersKept
<1>1. Init => IdentOK
  BY DEF Init, IdentOK, NoIdent
<1>2. IdentOK /\ [Next]_vars => IdentOK'
  BY NextStepLemma
<1>3. IdentOK /\ [Next]_vars => [\A f \in DOMAIN ids : f \in DOMAIN ids' /\ ids'[f] = ids[f]]_vars
  BY NextStepLemma DEF Kept
<1> QED
  BY <1>1, <1>2, <1>3, PTL DEF Spec, NumbersKept
-------------------------------------------------------------------------------
(* The rights of the process.                                              *)

\* Threads work only after the web server was started, and from the change of the user on
\* the process has the rights of the superuser only if that was asked for or reported.
Serving == {"test", "start", "prefs", "poll", "run"}
PrivInv ==
  /\ threads # {} => pc \in Serving
  /\ pc \in {"pid", "web"} \cup Serving /\ uid = "root" => prefs["s"] \/ NoUser \in said

\* What a step has to leave alone, when it does not pass the change of the user.
LEMMA SameRights ==
  ASSUME PrivInv, UNCHANGED <<prefs, uid>>, said \subseteq said',
         threads' # {} => (threads # {} /\ pc' = pc) \/ pc' \in Serving,
         pc' \in {"pid", "web"} \cup Serving => pc \in {"pid", "web"} \cup Serving
  PROVE  PrivInv'
BY DEF PrivInv, NoUser

LEMMA PrivStep ==
  ASSUME PrivInv, [Next]_vars
  PROVE  PrivInv'
<1>1. ASSUME NEW input \in Input, NEW who \in {"root", "user"}, Launch(input, who)
      PROVE  PrivInv'
  <2>1. pc = "off" /\ pc' = "registerPrefs" /\ UNCHANGED threads
    BY <1>1 DEF Launch
  <2> QED
    BY <2>1 DEF PrivInv, Serving
<1>2. CASE Identify
  BY <1>2, SameRights DEF Identify, LookUp, StoreName, StoreNumber
<1>3. CASE Interfaces
  BY <1>3, SameRights DEF Interfaces, RegisterPrefs, AddNetworkInterface, MakeDummy, CreateInterface, AddDefaults,
              CreateInterfaces, CreateHistorical, CheckInterfaces, NextStep, Done, Goes, Serving, PrivInv
<1>4. CASE Begin
  <2>1. ASSUME NEW ok \in BOOLEAN, DropPrivileges(ok)
        PROVE  PrivInv'
    <3>1. pc = "drop" /\ pc' = "pid" /\ UNCHANGED <<threads, prefs>>
      BY <2>1 DEF DropPrivileges, Goes, NextStep
    <3>2. threads' = {}
      BY <3>1 DEF PrivInv, Serving
    <3>3. uid' = "root" => prefs["s"] \/ NoUser \in said'
      BY <2>1 DEF DropPrivileges
    <3> QED
      BY <3>1, <3>2, <3>3 DEF PrivInv, NoUser
  <2>2. ASSUME NEW ok \in BOOLEAN, WritePid(ok)
        PROVE  PrivInv'
    BY <2>2, SameRights DEF WritePid, Goes, NextStep, Serving, PrivInv
  <2>3. CASE StartWeb \/ TestDirectory \/ StartLoops \/ LoadAddresses \/ StartPolling
    BY <2>3, SameRights DEF StartWeb, TestDirectory, StartLoops, LoadAddresses, StartPolling, Goes, NextStep, Serving
  <2>4. ASSUME NEW key \in Keys, ReadDefault(key)
        PROVE  PrivInv'
    BY <2>4, SameRights DEF ReadDefault
  <2>5. CASE StoreDefault
    BY <2>5, SameRights DEF StoreDefault
  <2> QED
    BY <1>4, <2>1, <2>2, <2>3, <2>4, <2>5 DEF Begin
<1>5. ASSUME NEW key \in Keys, NEW v \in Value, ChangePreference(key, v)
      PROVE  PrivInv'
  BY <1>5, SameRights DEF ChangePreference
<1>6. CASE Tick
  BY <1>6, SameRights DEF Tick
<1>7. ASSUME NEW l \in DOMAIN Loops, RunScript(l)
      PROVE  PrivInv'
  BY <1>7, SameRights DEF RunScript
<1>8. CASE Exit \/ Kill \/ Stop
  <2>1. pc' = "off" /\ threads' = {}
    BY <1>8 DEF Exit, Kill, Stop, Gone
  <2> QED
    BY <2>1 DEF PrivInv, Serving
<1>9. CASE UNCHANGED vars
  BY <1>9, SameRights DEF vars
<1> QED
  BY <1>1, <1>2, <1>3, <1>4, <1>5, <1>6, <1>7, <1>8, <1>9 DEF Next

\* The web server, the scripts and the pollers never handle anything with the rights of the
\* superuser that nobody asked for and no line of the log reports, in whatever order and
\* however often programs are started and cut.
THEOREM RightsGivenUp == Spec => []ServedUnprivileged
<1>1. Init => PrivInv
  BY DEF Init, PrivInv, Serving
<1>2. PrivInv /\ [Next]_vars => PrivInv'
  BY PrivStep
<1>3. PrivInv => ServedUnprivileged
  BY DEF PrivInv, ServedUnprivileged
<1> QED
  BY <1>1, <1>2, <1>3, PTL DEF Spec
-------------------------------------------------------------------------------
(* The loops of scripts.                                                   *)

LEMMA DivRest ==
  ASSUME NEW a \in Int, NEW p \in Nat \ {0}
  PROVE  a \div p \in Int /\ a % p \in 0..(p - 1) /\ a = p * (a \div p) + (a % p)
OBVIOUS

\* Between two multiples of p the quotient by p is the factor of the first.
LEMMA DivAtLeast ==
  ASSUME NEW a \in Int, NEW p \in Nat \ {0}, NEW q \in Int, a >= p * q
  PROVE  a \div p >= q
<1> DEFINE d == a \div p
<1>1. d \in Int /\ a % p \in 0..(p - 1) /\ a = p * d + (a % p)
  BY DivRest
<1> HIDE DEF d
<1>2. ASSUME d < q PROVE FALSE
  <2>1. d + 1 <= q
    BY <1>1, <1>2
  <2>2. p * (d + 1) <= p * q
    BY <1>1, <2>1
  <2>3. p * (d + 1) = p * d + p
    BY <1>1
  <2> QED
    BY <1>1, <2>2, <2>3
<1>3. d >= q
  BY <1>1, <1>2
<1> QED
  BY <1>3 DEF d

LEMMA DivMonotone ==
  ASSUME NEW a \in Int, NEW b \in Int, NEW p \in Nat \ {0}, a <= b
  PROVE  a \div p <= b \div p
<1> DEFINE d == a \div p
<1>1. d \in Int /\ a % p \in 0..(p - 1) /\ a = p * d + (a % p)
  BY DivRest
<1> HIDE DEF d
<1>2. b >= p * d
  BY <1>1
<1>3. b \div p >= d
  BY <1>1, <1>2, DivAtLeast
<1> QED
  BY <1>1, <1>3, DivRest DEF d

\* A loop knows when its next run is: the runs it had after the first end of a period that
\* follows its start, in local time.
LoopOK(l) ==
  /\ l \in DOMAIN Loops
  /\ DOMAIN loops[l] = {"next", "runs", "since"}
  /\ loops[l].runs \in Nat /\ loops[l].since \in Int /\ loops[l].since <= now
  /\ loops[l].next = Loops[l].period * ((loops[l].since \div Loops[l].period) + 1 + loops[l].runs) - Loops[l].offset
  /\ Loops[l].offset <= 0 => loops[l].runs <= Boundaries(l, loops[l].since, now)
LoopInv == now \in Int /\ \A l \in DOMAIN loops : LoopOK(l)

\* What ends of periods there were until some time, there were until any later one.
LEMMA BoundariesGrow ==
  ASSUME NEW l \in DOMAIN Loops, NEW from \in Int, NEW a \in Int, NEW b \in Int, a <= b
  PROVE  /\ Boundaries(l, from, a) \in Int /\ Boundaries(l, from, a) <= Boundaries(l, from, b)
         /\ from <= a => Boundaries(l, from, a) \in Nat
<1> DEFINE o == Loops[l].offset
           p == Loops[l].period
<1>1. o \in Int /\ p \in Nat \ {0}
  BY LoopsAssumption
<1> HIDE DEF o, p
<1>2. a + o <= b + o /\ (from <= a => from + o <= a + o)
      /\ a + o \in Int /\ b + o \in Int /\ from + o \in Int
  BY <1>1
<1>3. /\ (a + o) \div p <= (b + o) \div p /\ (from <= a => (from + o) \div p <= (a + o) \div p)
      /\ (a + o) \div p \in Int /\ (b + o) \div p \in Int /\ (from + o) \div p \in Int
  BY <1>1, <1>2, DivMonotone, DivRest
<1> QED
  BY <1>3 DEF Boundaries, o, p

\* When a loop is due it had fewer runs than periods ended.
LEMMA DueRun ==
  ASSUME LoopInv, NEW l \in DOMAIN loops, now >= loops[l].next, Loops[l].offset <= 0
  PROVE  loops[l].runs + 1 <= Boundaries(l, loops[l].since, now)
<1> DEFINE o == Loops[l].offset
           p == Loops[l].period
           s == loops[l].since
           r == loops[l].runs
           j == s \div p
<1>1. /\ o \in Int /\ p \in Nat \ {0} /\ s \in Int /\ r \in Nat /\ now \in Int /\ o <= 0
      /\ now >= p * (j + 1 + r) - o
  BY LoopsAssumption DEF LoopInv, LoopOK
<1>2. j \in Int
  BY <1>1, DivRest
<1>3. (now + o) \div p >= j + 1 + r
  <2> HIDE DEF o, p, s, r, j
  <2>1. p * (j + 1 + r) \in Int /\ j + 1 + r \in Int
    BY <1>1, <1>2
  <2>2. now + o >= p * (j + 1 + r) /\ now + o \in Int
    BY <1>1, <2>1
  <2> QED
    BY <1>1, <2>1, <2>2, DivAtLeast
<1>4. (s + o) \div p <= j
  <2> HIDE DEF o, p, r, s
  <2>1. s + o <= s /\ s + o \in Int
    BY <1>1
  <2> QED
    BY <1>1, <2>1, DivMonotone
<1>5. (now + o) \div p \in Int /\ (s + o) \div p \in Int
  <2> HIDE DEF o, p, s, r, j
  <2>1. now + o \in Int /\ s + o \in Int
    BY <1>1
  <2> QED
    BY <1>1, <2>1, DivRest
<1>6. Boundaries(l, s, now) = ((now + o) \div p) - ((s + o) \div p)
  BY DEF Boundaries
<1> HIDE DEF o, p, s, r, j
<1>7. r + 1 <= Boundaries(l, s, now)
  BY <1>1, <1>2, <1>3, <1>4, <1>5, <1>6
<1> QED
  BY <1>7 DEF r, s

LEMMA RunScriptStep ==
  ASSUME LoopInv, NEW l \in DOMAIN Loops, RunScript(l)
  PROVE  LoopInv'
<1> DEFINE o == Loops[l].offset
           p == Loops[l].period
           j == loops[l].since \div p
           r == loops[l].runs
<1>1. /\ l \in DOMAIN loops /\ now >= loops[l].next /\ UNCHANGED now
      /\ loops' = [loops EXCEPT ![l].runs = @ + 1, ![l].next = @ + Loops[l].period]
  BY DEF RunScript
<1>2. now \in Int /\ \A m \in DOMAIN loops : LoopOK(m)
  BY DEF LoopInv
<1>3. DOMAIN loops' = DOMAIN loops /\ \A m \in DOMAIN loops \ {l} : loops'[m] = loops[m]
  BY <1>1
<1>4. ASSUME NEW m \in DOMAIN loops \ {l}
      PROVE  LoopOK(m)'
  BY <1>1, <1>2, <1>3 DEF LoopOK, Boundaries
<1>5. /\ DOMAIN loops'[l] = {"next", "runs", "since"} /\ loops'[l].runs = r + 1
      /\ loops'[l].since = loops[l].since /\ loops'[l].next = loops[l].next + p
  BY <1>1, <1>2 DEF LoopOK
<1>6. loops[l].next + p = p * (j + 1 + (r + 1)) - o
  <2>1. /\ o \in Int /\ p \in Nat \ {0} /\ r \in Nat /\ loops[l].next = p * (j + 1 + r) - o /\ loops[l].since \in Int
    BY <1>1, <1>2, LoopsAssumption DEF LoopOK
  <2>2. j \in Int
    BY <2>1, DivRest
  <2> HIDE DEF o, p, j, r
  <2>3. j + 1 + r \in Int
    BY <2>1, <2>2
  <2>4. p * (j + 1 + r) \in Int
    BY <2>1, <2>3
  <2>5. p * (j + 1 + (r + 1)) = p * (j + 1 + r) + p
    BY <2>1, <2>2
  <2> QED
    BY <2>1, <2>4, <2>5
<1>7. o <= 0 => r + 1 <= Boundaries(l, loops[l].since, now)
  BY <1>1, DueRun
<1>8. LoopOK(l)'
  BY <1>1, <1>2, <1>3, <1>5, <1>6, <1>7 DEF LoopOK, Boundaries
<1> QED
  BY <1>1, <1>2, <1>3, <1>4, <1>8 DEF LoopInv

LEMMA LoopStep ==
  ASSUME LoopInv, [Next]_vars
  PROVE  LoopInv'
<1> DEFINE Other == UNCHANGED <<loops, now>>
<1>1. CASE Other
  BY <1>1 DEF LoopInv, LoopOK, Boundaries
<1>2. CASE Exit \/ Kill \/ Stop
  <2>1. loops' = <<>> /\ UNCHANGED now
    BY <1>2 DEF Exit, Kill, Stop, Gone
  <2>2. DOMAIN loops' = {}
    BY <2>1
  <2> QED
    BY <2>1, <2>2 DEF LoopInv
<1>3. CASE Tick
  <2>1. now' = now + 1 /\ UNCHANGED loops /\ now \in Int
    BY <1>3 DEF Tick, LoopInv
  <2>2. ASSUME NEW l \in DOMAIN loops
        PROVE  LoopOK(l)'
    <3>1. LoopOK(l)
      BY DEF LoopInv
    <3>2. /\ l \in DOMAIN Loops /\ loops[l].since \in Int /\ loops[l].since <= now /\ loops[l].runs \in Nat
          /\ Boundaries(l, loops[l].since, now) \in Int
          /\ Boundaries(l, loops[l].since, now + 1) \in Int
          /\ Boundaries(l, loops[l].since, now) <= Boundaries(l, loops[l].since, now + 1)
      BY <2>1, <3>1, BoundariesGrow DEF LoopOK
    <3>3. Loops[l].offset <= 0 => loops[l].runs <= Boundaries(l, loops[l].since, now + 1)
      BY <3>1, <3>2 DEF LoopOK
    <3> QED
      BY <2>1, <3>1, <3>2, <3>3 DEF LoopOK, Boundaries
  <2> QED
    BY <2>1, <2>2 DEF LoopInv
<1>4. CASE StartLoops
  <2>1. /\ loops' = [l \in DOMAIN Loops |->
                      [next |-> FirstRun(now, Loops[l].period, Loops[l].offset), runs |-> 0, since |-> now]]
        /\ UNCHANGED now /\ now \in Int
    BY <1>4 DEF StartLoops, LoopInv
  <2>2. ASSUME NEW l \in DOMAIN Loops
        PROVE  LoopOK(l)'
    <3> DEFINE o == Loops[l].offset
               p == Loops[l].period
               j == now \div p
    <3>1. o \in Int /\ p \in Nat \ {0}
      BY LoopsAssumption
    <3>2. j \in Int /\ now % p \in 0..(p - 1) /\ now = p * j + (now % p)
      BY <2>1, <3>1, DivRest
    <3>3. now - (now % p) - o + p = p * (j + 1 + 0) - o
      <4> HIDE DEF o, p, j
      <4>1. p * (j + 1 + 0) = p * j + p
        BY <3>1, <3>2
      <4> QED
        BY <2>1, <3>1, <3>2, <4>1
    <3>4. /\ DOMAIN loops'[l] = {"next", "runs", "since"} /\ loops'[l].runs = 0 /\ loops'[l].since = now
          /\ loops'[l].next = now - (now % p) - o + p
      BY <2>1 DEF FirstRun
    <3>5. 0 <= Boundaries(l, now, now)
      BY <2>1, BoundariesGrow
    <3> QED
      BY <2>1, <3>3, <3>4, <3>5 DEF LoopOK, Boundaries
  <2> QED
    BY <2>1, <2>2 DEF LoopInv
<1>5. ASSUME NEW l \in DOMAIN Loops, RunScript(l)
      PROVE  LoopInv'
  BY <1>5, RunScriptStep
<1>6. ASSUME NEW input \in Input, NEW who \in {"root", "user"}, Launch(input, who)
      PROVE  Other
  BY <1>6 DEF Launch
<1>7. ASSUME Identify \/ Interfaces
      PROVE  Other
  BY <1>7 DEF Identify, LookUp, StoreName, StoreNumber, Interfaces, RegisterPrefs, AddNetworkInterface, MakeDummy,
              CreateInterface, AddDefaults, CreateInterfaces, CreateHistorical, CheckInterfaces
<1>8. ASSUME NEW ok \in BOOLEAN, DropPrivileges(ok) \/ WritePid(ok)
      PROVE  Other
  BY <1>8 DEF DropPrivileges, WritePid
<1>9. ASSUME StartWeb \/ TestDirectory \/ LoadAddresses \/ StartPolling \/ StoreDefault
      PROVE  Other
  BY <1>9 DEF StartWeb, TestDirectory, LoadAddresses, StartPolling, StoreDefault
<1>10. ASSUME NEW key \in Keys, ReadDefault(key)
       PROVE  Other
  BY <1>10 DEF ReadDefault
<1>11. ASSUME NEW key \in Keys, NEW v \in Value, ChangePreference(key, v)
       PROVE  Other
  BY <1>11 DEF ChangePreference
<1>12. ASSUME UNCHANGED vars
       PROVE  Other
  BY <1>12 DEF vars
<1> HIDE DEF Other
<1> QED
  BY <1>1, <1>2, <1>3, <1>4, <1>5, <1>6, <1>7, <1>8, <1>9, <1>10, <1>11, <1>12 DEF Next, Begin

\* A script whose period does not end early in local time never runs more often than its
\* periods ended since its loop began, whatever the period, and however late a loop is.
THEOREM RunsWithinPeriods == Spec => []OncePerPeriod
<1>1. Init => LoopInv
  <2>1. ASSUME Init PROVE now = 0 /\ DOMAIN loops = {}
    BY <2>1 DEF Init
  <2> QED
    BY <2>1 DEF LoopInv
<1>2. LoopInv /\ [Next]_vars => LoopInv'
  BY LoopStep
<1>3. LoopInv => OncePerPeriod
  BY DEF LoopInv, LoopOK, OncePerPeriod
<1> QED
  BY <1>1, <1>2, <1>3, PTL DEF Spec
-------------------------------------------------------------------------------
(* The members of a set in order, and the options one after the other.     *)

\* A sequence of anything.
IsSeq(s) == \E S : s \in Seq(S)

\* How many members of P are below p.
Below(P, p) == Cardinality({ q \in P : q < p })

LEMMA BelowDiffers ==
  ASSUME NEW P, P \subseteq Int, IsFiniteSet(P), NEW p \in P, NEW r \in P, p < r
  PROVE  Below(P, p) \in Nat /\ Below(P, p) < Below(P, r) /\ Below(P, r) < Cardinality(P)
<1> DEFINE A == { q \in P : q < p }
           B == { q \in P : q < r }
<1>1. A \subseteq P /\ B \subseteq P /\ p \notin A /\ r \notin B /\ A \cup {p} \subseteq B /\ B \cup {r} \subseteq P
  <2>1. p \in Int /\ r \in Int
    OBVIOUS
  <2>2. A \subseteq P /\ B \subseteq P
    OBVIOUS
  <2>3. p \notin A /\ r \notin B /\ p \in B
    BY <2>1
  <2>4. ASSUME NEW q \in A PROVE q \in B
    <3>1. q \in Int /\ q < p /\ q \in P
      OBVIOUS
    <3>2. q < r
      BY <2>1, <3>1
    <3> QED
      BY <3>1, <3>2
  <2> QED
    BY <2>2, <2>3, <2>4
<1>2. Below(P, p) = Cardinality(A) /\ Below(P, r) = Cardinality(B)
  BY DEF Below
<1> HIDE DEF A, B
<1>3. IsFiniteSet(A) /\ IsFiniteSet(B)
  BY <1>1, FS_Subset
<1>4. Cardinality(A \cup {p}) = Cardinality(A) + 1 /\ Cardinality(B \cup {r}) = Cardinality(B) + 1
  BY <1>1, <1>3, FS_AddElement
<1>5. Cardinality(A \cup {p}) <= Cardinality(B) /\ Cardinality(B \cup {r}) <= Cardinality(P)
  BY <1>1, <1>3, FS_Subset
<1>6. Cardinality(A) \in Nat /\ Cardinality(B) \in Nat /\ Cardinality(P) \in Nat
  BY <1>3, FS_CardinalityType
<1> QED
  BY <1>2, <1>4, <1>5, <1>6

LEMMA BelowInjective ==
  ASSUME NEW P, P \subseteq Int, IsFiniteSet(P)
  PROVE  /\ \A p \in P : Below(P, p) \in 0..(Cardinality(P) - 1)
         /\ \A p, r \in P : Below(P, p) = Below(P, r) => p = r
<1>1. Cardinality(P) \in Nat
  BY FS_CardinalityType
<1>2. ASSUME NEW p \in P PROVE Below(P, p) \in 0..(Cardinality(P) - 1)
  <2> DEFINE A == { q \in P : q < p }
  <2>1. A \subseteq P /\ p \notin A /\ A \cup {p} \subseteq P
    OBVIOUS
  <2> HIDE DEF A
  <2>2. IsFiniteSet(A) /\ Cardinality(A) \in Nat
    BY <2>1, FS_Subset, FS_CardinalityType
  <2>3. Cardinality(A \cup {p}) = Cardinality(A) + 1
    BY <2>1, <2>2, FS_AddElement
  <2>4. Cardinality(A \cup {p}) <= Cardinality(P)
    BY <2>1, FS_Subset
  <2>5. Cardinality(A) \in 0..(Cardinality(P) - 1)
    BY <1>1, <2>2, <2>3, <2>4
  <2> QED
    BY <2>5 DEF A, Below
<1>3. ASSUME NEW p \in P, NEW r \in P, Below(P, p) = Below(P, r) PROVE p = r
  <2>1. ASSUME p < r PROVE FALSE
    <3>1. Below(P, p) \in Nat /\ Below(P, p) < Below(P, r)
      BY <2>1, BelowDiffers
    <3> QED
      BY <1>3, <3>1
  <2>2. ASSUME r < p PROVE FALSE
    <3>1. Below(P, r) \in Nat /\ Below(P, r) < Below(P, p)
      BY <2>2, BelowDiffers
    <3> QED
      BY <1>3, <3>1
  <2>3. p \in Int /\ r \in Int
    OBVIOUS
  <2> QED
    BY <2>1, <2>2, <2>3
<1> QED
  BY <1>2, <1>3

\* Each member has a place, and each place a member.
LEMMA Ordered ==
  ASSUME NEW P, P \subseteq Int, IsFiniteSet(P)
  PROVE  /\ Cardinality(P) \in Nat /\ DOMAIN InOrder(P) = 1..Cardinality(P)
         /\ \A i \in 1..Cardinality(P) : InOrder(P)[i] \in P
         /\ \A p \in P : \E i \in 1..Cardinality(P) : InOrder(P)[i] = p
<1> DEFINE n == Cardinality(P)
           T == 0..(n - 1)
           f == [p \in P |-> Below(P, p)]
<1>1. n \in Nat
  BY FS_CardinalityType
<1>2. \A p \in P : Below(P, p) \in T
  BY BelowInjective
<1>3. \A p, r \in P : Below(P, p) = Below(P, r) => p = r
  BY BelowInjective
<1>4. IsFiniteSet(T) /\ Cardinality(T) = n
  <2>1. 0 \in Int /\ n - 1 \in Int /\ (0 > n - 1 => n = 0) /\ (n - 1) - 0 + 1 = n
    BY <1>1
  <2> HIDE DEF n
  <2> QED BY <1>1, <2>1, FS_Interval
<1>5. InOrder(P) = [i \in 1..n |-> CHOOSE p \in P : Below(P, p) = i - 1]
  BY DEF InOrder, Below
<1> HIDE DEF n, T
<1>6. f \in Injection(P, T)
  <2>1. f \in [P -> T]
    BY <1>2
  <2>2. \A p, r \in P : f[p] = f[r] => p = r
    BY <1>3
  <2> HIDE DEF f
  <2> QED
    BY <2>1, <2>2 DEF Injection, IsInjective
<1> HIDE DEF f
<1>7. f \in Surjection(P, T)
  <2>1. Cardinality(P) = Cardinality(T)
    BY <1>4 DEF n
  <2> QED
    BY <1>4, <1>6, <2>1, FS_Injection
<1>8. \A t \in T : \E p \in P : Below(P, p) = t
  BY <1>7 DEF Surjection, f
<1>9. ASSUME NEW i \in 1..n PROVE InOrder(P)[i] \in P /\ Below(P, InOrder(P)[i]) = i - 1
  <2>1. i - 1 \in T
    BY <1>1 DEF T
  <2>2. \E p \in P : Below(P, p) = i - 1
    BY <1>8, <2>1
  <2>3. InOrder(P)[i] = CHOOSE p \in P : Below(P, p) = i - 1
    BY <1>5
  <2> QED
    BY <2>2, <2>3
<1>10. ASSUME NEW p \in P PROVE \E i \in 1..n : InOrder(P)[i] = p
  <2> DEFINE i == Below(P, p) + 1
  <2>1. i \in 1..n /\ i - 1 = Below(P, p)
    BY <1>1, <1>2 DEF T
  <2> HIDE DEF i
  <2>2. InOrder(P)[i] = p
    BY <1>3, <1>9, <2>1
  <2> QED
    BY <2>1, <2>2
<1>11. DOMAIN InOrder(P) = 1..n
  BY <1>5
<1> QED
  BY <1>1, <1>9, <1>10, <1>11 DEF n

\* The chosen places of a sequence.
LEMMA Taken ==
  ASSUME NEW s, NEW P, P \subseteq Int, IsFiniteSet(P), NEW taken, taken = TakePlaces(s, P)
  PROVE  /\ IsSeq(taken)
         /\ \A i \in DOMAIN taken : \E p \in P : taken[i] = s[p]
         /\ \A p \in P : \E i \in DOMAIN taken : taken[i] = s[p]
<1> DEFINE n == Cardinality(P)
           at == InOrder(P)
<1>1. n \in Nat /\ (\A i \in 1..n : at[i] \in P) /\ \A p \in P : \E i \in 1..n : at[i] = p
  BY Ordered
<1>2. taken = [i \in 1..n |-> s[at[i]]]
  BY DEF TakePlaces
<1> HIDE DEF at, n
<1>3. taken \in [1..n -> { s[p] : p \in P }]
  BY <1>1, <1>2
<1>4. IsSeq(taken)
  <2> DEFINE S == { s[p] : p \in P }
  <2>1. taken \in [1..n -> S]
    BY <1>3
  <2> HIDE DEF S
  <2>2. taken \in Seq(S)
    BY <1>1, <2>1
  <2> QED
    BY <2>2 DEF IsSeq
<1>5. DOMAIN taken = 1..n /\ \A i \in 1..n : taken[i] = s[at[i]]
  BY <1>2
<1>6. \A i \in DOMAIN taken : \E p \in P : taken[i] = s[p]
  BY <1>1, <1>5
<1>7. \A p \in P : \E i \in DOMAIN taken : taken[i] = s[p]
  BY <1>1, <1>5
<1> QED
  BY <1>4, <1>6, <1>7

-------------------------------------------------------------------------------
(* The options, one after the other, give names.                           *)

\* What is known of the preferences: the names of interfaces are a sequence of names.
Named(p) == "i" \in DOMAIN p /\ IsSeq(p["i"]) /\ \A i \in DOMAIN p["i"] : IsName(p["i"][i])
GivesName(o) == o.opt = "i" => IsName(o.value)

LEMMA Longer ==
  ASSUME NEW s, IsSeq(s), NEW x
  PROVE  /\ IsSeq(Append(s, x)) /\ DOMAIN Append(s, x) = 1..(Len(s) + 1) /\ DOMAIN s = 1..Len(s) /\ Len(s) \in Nat
         /\ Append(s, x)[Len(s) + 1] = x /\ \A i \in 1..Len(s) : Append(s, x)[i] = s[i]
<1>1. PICK S : s \in Seq(S)
  BY DEF IsSeq
<1>2. s \in Seq(S \cup {x})
  BY <1>1
<1>3. Append(s, x) \in Seq(S \cup {x})
  BY <1>2
<1> QED
  BY <1>2, <1>3 DEF IsSeq

LEMMA DefaultNamed == Named(DefaultPrefs)
<1>1. "i" \in DOMAIN DefaultPrefs /\ DefaultPrefs["i"] = <<>>
  BY DEF DefaultPrefs, Flags, Places, Texts
<1>2. <<>> \in Seq({})
  OBVIOUS
<1>3. DOMAIN <<>> = {}
  OBVIOUS
<1> QED
  BY <1>1, <1>2, <1>3 DEF Named, IsSeq

LEMMA SetNamed ==
  ASSUME NEW p, Named(p), NEW o, NEW v, o = "i" => IsName(v)
  PROVE  Named(SetOption(p, o, v))
<1>1. CASE o = "i"
  <2>1. SetOption(p, o, v) = p \/ SetOption(p, o, v) = [p EXCEPT !["i"] = Append(@, v)]
    BY <1>1 DEF SetOption, Places
  <2>2. Named([p EXCEPT !["i"] = Append(@, v)])
    <3> DEFINE s == p["i"]
               q == [p EXCEPT !["i"] = Append(@, v)]
    <3>1. "i" \in DOMAIN q /\ q["i"] = Append(s, v)
      BY DEF Named
    <3>2. IsSeq(s) /\ \A i \in DOMAIN s : IsName(s[i])
      BY DEF Named
    <3> HIDE DEF s, q
    <3>3. IsSeq(Append(s, v)) /\ \A i \in DOMAIN Append(s, v) : IsName(Append(s, v)[i])
      BY <1>1, <3>2, Longer
    <3> QED
      BY <3>1, <3>3 DEF q, Named
  <2> QED
    BY <2>1, <2>2
<1>2. CASE o # "i"
  <2> DEFINE q == SetOption(p, o, v)
  <2>1. "i" \in DOMAIN q /\ q["i"] = p["i"]
    BY <1>2 DEF Named, SetOption, SetLaterOption, Places
  <2> HIDE DEF q
  <2>2. Named(q)
    BY <2>1 DEF Named
  <2> QED
    BY <2>2 DEF q
<1> QED
  BY <1>1, <1>2

\* The last of some places.
LEMMA LastIn ==
  ASSUME NEW n \in Nat, NEW T \in SUBSET (1..n), T # {}
  PROVE  Max(T) \in T
<1> DEFINE D == { n - x : x \in T }
<1>1. D \in SUBSET Nat /\ D # {}
  <2>1. ASSUME NEW x \in T PROVE n - x \in Nat
    <3>1. x \in 1..n
      OBVIOUS
    <3> QED
      BY <3>1
  <2> QED
    BY <2>1
<1>2. PICK m \in D : \A y \in D : m <= y
  BY <1>1, Smallest
<1>3. PICK x \in T : m = n - x
  BY <1>2
<1>4. ASSUME NEW y \in T PROVE x >= y
  <2>1. m <= n - y
    BY <1>2
  <2>2. x \in Int /\ y \in Int /\ n \in Int
    OBVIOUS
  <2> QED
    BY <1>3, <2>1, <2>2
<1> QED
  BY <1>4 DEF Max

\* The preferences after the options at the places of a set.
After(g, s, T) ==
  IF T = {} THEN DefaultPrefs ELSE SetOption(g[T \ {Max(T)}], s[Max(T)].opt, s[Max(T)].value)
IsLoad(g, s) == g = [T \in SUBSET DOMAIN s |-> After(g, s, T)]

LEMMA LoadIs == ASSUME NEW s PROVE Load(s) = (CHOOSE g : IsLoad(g, s))[DOMAIN s]
BY DEF Load, FoldLeft, MapThenFoldSet, IsLoad, After

LEMMA LoadExists ==
  ASSUME NEW s, IsSeq(s)
  PROVE  \E g : IsLoad(g, s)
<1> DEFINE S == DOMAIN s
           Few(n) == {T \in SUBSET S : Cardinality(T) <= n}
           Good(g, n) == DOMAIN g = SUBSET S /\ \A T \in Few(n) : g[T] = After(g, s, T)
           N == {n \in Nat : \E g : Good(g, n)}
<1>1. Len(s) \in Nat /\ S = 1..Len(s) /\ IsFiniteSet(S)
  <2>1. Len(s) \in Nat /\ S = 1..Len(s)
    BY Longer
  <2> QED
    BY <2>1, FS_Interval
<1>2. \A T \in SUBSET S : IsFiniteSet(T) /\ Cardinality(T) \in Nat /\ Cardinality(T) <= Cardinality(S)
  BY <1>1, FS_Subset, FS_CardinalityType
<1>3. \A T \in SUBSET S : T # {} => Max(T) \in T
  BY <1>1, LastIn
<1>4. 0 \in N
  <2> DEFINE g == [T \in SUBSET S |-> DefaultPrefs]
  <2>1. ASSUME NEW T \in Few(0) PROVE g[T] = After(g, s, T)
    <3>1. Cardinality(T) = 0
      BY <1>2
    <3>2. T = {}
      BY <1>2, <3>1, FS_EmptySet
    <3> QED
      BY <3>2 DEF After
  <2>2. DOMAIN g = SUBSET S
    OBVIOUS
  <2> HIDE DEF g
  <2> QED
    BY <2>1, <2>2
<1>5. ASSUME NEW n \in Nat, n \in N PROVE n + 1 \in N
  <2>1. PICK g : Good(g, n)
    BY <1>5
  <2> DEFINE b == [T \in SUBSET S |-> IF Cardinality(T) <= n THEN g[T] ELSE After(g, s, T)]
  <2>2. \A T \in Few(n) : b[T] = g[T]
    OBVIOUS
  <2>3. ASSUME NEW T \in SUBSET S, T # {}, Cardinality(T) <= n + 1 PROVE T \ {Max(T)} \in Few(n)
    <3>1. Max(T) \in T /\ IsFiniteSet(T) /\ Cardinality(T) \in Nat
      BY <1>2, <1>3, <2>3
    <3>2. Cardinality(T \ {Max(T)}) = Cardinality(T) - 1
      BY <3>1, FS_RemoveElement
    <3> QED
      BY <2>3, <3>1, <3>2
  <2>4. ASSUME NEW T \in Few(n + 1) PROVE b[T] = After(b, s, T)
    <3>1. b[T] = After(g, s, T)
      BY <2>1
    <3>2. T # {} => b[T \ {Max(T)}] = g[T \ {Max(T)}]
      BY <2>2, <2>3, <2>4
    <3> HIDE DEF b
    <3>3. After(g, s, T) = After(b, s, T)
      BY <3>2 DEF After
    <3> QED
      BY <3>1, <3>3
  <2>5. DOMAIN b = SUBSET S
    OBVIOUS
  <2> HIDE DEF b
  <2> QED
    BY <2>4, <2>5
<1>6. Cardinality(S) \in Nat
  BY <1>1, FS_CardinalityType
<1> HIDE DEF N
<1>7. Cardinality(S) \in N
  BY <1>4, <1>5, <1>6, AllNaturals
<1>8. PICK g : Good(g, Cardinality(S))
  BY <1>7 DEF N
<1>9. \A T \in SUBSET S : g[T] = After(g, s, T)
  BY <1>2, <1>8
<1> DEFINE b == [T \in SUBSET S |-> g[T]]
<1>10. \A T \in SUBSET S : b[T] = After(b, s, T)
  <2>1. ASSUME NEW T \in SUBSET S PROVE b[T] = After(b, s, T)
    <3>1. b[T] = After(g, s, T)
      BY <1>9
    <3>2. b[T \ {Max(T)}] = g[T \ {Max(T)}]
      OBVIOUS
    <3> HIDE DEF b
    <3> QED
      BY <3>1, <3>2 DEF After
  <2> QED
    BY <2>1
<1>11. b = [T \in SUBSET S |-> b[T]]
  OBVIOUS
<1> HIDE DEF b
<1>12. b = [T \in SUBSET S |-> After(b, s, T)]
  BY <1>10, <1>11
<1> QED
  BY <1>12 DEF IsLoad

LEMMA LoadNamed ==
  ASSUME NEW s, IsSeq(s), \A i \in DOMAIN s : GivesName(s[i])
  PROVE  Named(Load(s))
<1> DEFINE S == DOMAIN s
<1>1. Len(s) \in Nat /\ S = 1..Len(s) /\ IsFiniteSet(S)
  <2>1. Len(s) \in Nat /\ S = 1..Len(s)
    BY Longer
  <2> QED
    BY <2>1, FS_Interval
<1>2. \A T \in SUBSET S : IsFiniteSet(T) /\ Cardinality(T) \in Nat
  BY <1>1, FS_Subset, FS_CardinalityType
<1>3. \A T \in SUBSET S : T # {} => Max(T) \in T
  BY <1>1, LastIn
<1>4. PICK g : IsLoad(g, s) /\ Load(s) = g[S]
  BY LoadExists, LoadIs
<1>5. \A T \in SUBSET S : g[T] = After(g, s, T)
  BY <1>4 DEF IsLoad
<1> DEFINE N == {n \in Nat : \A T \in SUBSET S : Cardinality(T) = n => Named(g[T])}
<1>6. 0 \in N
  <2>1. \A T \in SUBSET S : Cardinality(T) = 0 => T = {}
    BY <1>2, FS_EmptySet
  <2>2. Named(g[{}])
    BY <1>5, DefaultNamed DEF After
  <2> QED
    BY <2>1, <2>2
<1>7. ASSUME NEW n \in Nat, n \in N PROVE n + 1 \in N
  <2>1. SUFFICES ASSUME NEW T \in SUBSET S, Cardinality(T) = n + 1 PROVE Named(g[T])
    OBVIOUS
  <2>2. T # {} /\ \A x \in T : Cardinality(T \ {x}) = n
    BY <1>2, <2>1, OneLess
  <2> DEFINE m == Max(T)
             o == s[m]
  <2>3. m \in T
    BY <1>3, <2>2
  <2>4. Named(g[T \ {m}])
    BY <1>7, <2>2, <2>3
  <2>5. g[T] = SetOption(g[T \ {m}], o.opt, o.value)
    BY <1>5, <2>2 DEF After
  <2>6. o.opt = "i" => IsName(o.value)
    BY <2>3 DEF GivesName
  <2> HIDE DEF m, o
  <2> QED
    BY <2>4, <2>5, <2>6, SetNamed
<1> HIDE DEF N
<1>8. \A n \in Nat : n \in N
  BY <1>6, <1>7, AllNaturals
<1>9. Cardinality(S) \in Nat
  BY <1>1, FS_CardinalityType
<1>10. Named(g[S])
  BY <1>8, <1>9 DEF N
<1> QED
  BY <1>4, <1>10

LEMMA CheckedNamed ==
  ASSUME NEW p, Named(p), NEW q \in CheckOptions(p)
  PROVE  Named(q)
<1>1. "i" \in DOMAIN q /\ q["i"] = p["i"]
  BY DEF CheckOptions, Named
<1> QED
  BY <1>1 DEF Named

LEMMA FileNamed ==
  ASSUME NEW options, IsSeq(options), \A i \in DOMAIN options : GivesName(options[i])
  PROVE  Named(FilePrefs(options))
<1> DEFINE P == { i \in DOMAIN options : options[i].form # "bare" }
           lines == Lines(options)
           p == Load(lines)
<1>1. P \subseteq 1..Len(options) /\ IsFiniteSet(1..Len(options)) /\ Len(options) \in Nat
  <2>1. Len(options) \in Nat /\ DOMAIN options = 1..Len(options)
    BY Longer
  <2>2. IsFiniteSet(1..Len(options))
    BY <2>1, FS_Interval
  <2> QED
    BY <2>1, <2>2
<1>2. lines = TakePlaces(options, P) /\ P \subseteq DOMAIN options
  BY DEF Lines
<1> HIDE DEF P, lines
<1>3. IsFiniteSet(P)
  BY <1>1, FS_Subset
<1>4. P \subseteq Int
  BY <1>1
<1>5. IsSeq(lines) /\ \A i \in DOMAIN lines : \E j \in P : lines[i] = options[j]
  BY <1>2, <1>3, <1>4, Taken
<1>6. \A i \in DOMAIN lines : GivesName(lines[i])
  BY <1>2, <1>5
<1>7. Named(p)
  BY <1>5, <1>6, LoadNamed
<1>8. FilePrefs(options) = [o \in DOMAIN p |-> IF o \in {"c", "k"} /\ p[o] # NoText THEN "dangling" ELSE p[o]]
  BY DEF FilePrefs, lines
<1> HIDE DEF p
<1> QED
  BY <1>7, <1>8 DEF Named

LEMMA LaunchNamed ==
  ASSUME NEW input \in Input, NEW who, Launch(input, who)
  PROVE  Named(prefs')
<1> DEFINE options == input.options
           cli == Considered(options)
           read == IF input.from = "cli" THEN Load(cli) ELSE FilePrefs(options)
           given == [read EXCEPT !["m"] = input.nets]
<1>1. prefs' \in CheckOptions(given)
  BY DEF Launch
<1>2. IsSeq(options) /\ (\A i \in DOMAIN options : GivesName(options[i])) /\ Len(options) \in Nat /\ DOMAIN options = 1..Len(options)
  <2>1. IsSeq(options) /\ \A i \in DOMAIN options : GivesName(options[i])
    BY InputAssumption DEF InputAssumption, IsSeq, GivesName
  <2> QED
    BY <2>1, Longer
<1> HIDE DEF options
<1>3. Named(Load(cli))
  <2> DEFINE n == SelectInSeq(options, LAMBDA o : o.opt \notin DOMAIN DefaultPrefs \cup {"h", "L", "V"}
                                                  \/ (o.opt = "P" /\ o.form = "short"))
             I == { i \in 1..Len(options) : options[i].opt \notin DOMAIN DefaultPrefs \cup {"h", "L", "V"}
                                            \/ (options[i].opt = "P" /\ options[i].form = "short") }
  <2>1. n = IF I # {} THEN Min(I) ELSE 0
    BY DEF SelectInSeq
  <2>2. n \in 0..Len(options)
    <3>1. I \in SUBSET Nat /\ I \subseteq 1..Len(options)
      OBVIOUS
    <3> HIDE DEF I, n
    <3>2. ASSUME I # {} PROVE n \in 1..Len(options)
      <4>1. Min(I) \in I
        BY <3>1, <3>2, MinLemma
      <4>2. n = Min(I)
        BY <2>1, <3>2
      <4> QED
        BY <3>1, <4>1, <4>2
    <3>3. ASSUME I = {} PROVE n = 0
      BY <2>1, <3>3
    <3> QED
      BY <1>2, <3>2, <3>3
  <2>3. cli = IF n = 0 THEN options ELSE SubSeq(options, 1, n - 1)
    BY DEF Considered
  <2> HIDE DEF n, cli
  <2>4. CASE n = 0
    BY <1>2, <2>3, <2>4, LoadNamed
  <2>5. CASE n # 0
    <3>1. PICK S : options \in Seq(S)
      BY <1>2 DEF IsSeq
    <3> DEFINE c == SubSeq(options, 1, n - 1)
    <3>2. c \in Seq(S)
      BY <1>2, <2>2, <2>5, <3>1
    <3>3. \A i \in DOMAIN c : i \in 1..Len(options) /\ c[i] = options[i]
      BY <1>2, <2>2, <2>5, <3>1
    <3> HIDE DEF c
    <3>4. Named(Load(c))
      BY <1>2, <3>2, <3>3, LoadNamed DEF IsSeq
    <3> QED
      BY <2>3, <2>5, <3>4 DEF c
  <2> QED
    BY <2>4, <2>5
<1>4. Named(FilePrefs(options))
  BY <1>2, FileNamed
<1> HIDE DEF cli
<1>5. Named(read)
  BY <1>3, <1>4
<1> HIDE DEF read
<1>6. Named(given)
  BY <1>5 DEF Named
<1> QED
  BY <1>1, <1>6, CheckedNamed
-------------------------------------------------------------------------------
(* The way of a name from the options to an interface.                     *)

Early == {"off", "registerPrefs"}
Queueing == {"names", "defaults", "interfaces", "historical"}
Late == {"historical", "drop", "pid", "web", "test", "start", "prefs", "poll", "run"}

\* What is known of a name in Redis, and of a call of ifname2id() for the first name to do.
Numbered(hash, n, s) == n \in DOMAIN hash /\ Atoi(hash[n]) = s
Queue(q) == IsSeq(q) /\ \A j \in DOMAIN q : IsName(q[j].name)
NamesOK(hash) == \A f \in DOMAIN hash : IsName(hash[f])
CallOK(call, q, hash) ==
  /\ call.step \in {"none", "name", "number", "known", "default"}
  /\ call.step \in {"name", "number", "known"} => q # <<>>
  /\ call.step \in {"name", "number"} => call.name = Head(q).name /\ call.id \in 0..(MaxIds - 1)
  /\ call.step = "number" => Numbered(hash, Head(q).name, call.id)
  /\ call.step = "known" => call.id = NoNumber \/ Numbered(hash, Head(q).name, call.id)
\* Each place belongs to its name: it is the number of the name in Redis.
SlotsOK(s, hash) ==
  \A j \in DOMAIN s : j \in 0..(MaxInterfaces - 1) /\ Numbered(hash, s[j], j) /\ IsName(s[j])

WayInv ==
  /\ Named(prefs) /\ Queue(todo) /\ IsSeq(ifaces) /\ NamesOK(ids)
  /\ CallOK(ident, todo, ids) /\ SlotsOK(slots, ids)
  /\ pc \in Early => slots = <<>> /\ ident = NoIdent
  /\ pc \notin Queueing => todo = <<>>

\* A name that was asked for is still to be placed, or placed, then still to be created, or
\* there; or it was reported.
Pending(q, n, what) == \E j \in DOMAIN q : q[j].name = n /\ q[j].what = what
PlacedIn(s, n) == \E j \in DOMAIN s : s[j] = n
Present(q, n) == \E j \in DOMAIN q : q[j].name = Base(RealName(n))
\* No other names are placed, unless all that were asked for are reported.
AskedOnly(asked, q, s) ==
  /\ \A j \in DOMAIN s : s[j] \in asked
  /\ \A j \in DOMAIN q : q[j].what = "add" => q[j].name \in asked
Placing == pc = "defaults" \/ (pc = "names" /\ prefs["i"] # <<>>)
ThereInv ==
  /\ pc = "names" /\ prefs["i"] = <<>> => todo = <<>> /\ slots = <<>>
  /\ Placing /\ DifferentNumbers =>
       /\ \A n \in Asked : n \in said \/ Pending(todo, n, "add") \/ PlacedIn(slots, n)
       /\ Asked \subseteq said \/ AskedOnly(Asked, todo, slots)
  /\ pc = "interfaces" /\ DifferentNumbers =>
       \A n \in Asked : n \in said \/ Pending(todo, n, "create") \/ Present(ifaces, n)
  /\ pc \in Late /\ DifferentNumbers => \A n \in Asked : n \in said \/ Present(ifaces, n)

LEMMA AtoiRange ==
  ASSUME NEW x, IsName(x)
  PROVE  Atoi(x) \in 0..MaxIds
<1>1. MaxIds + 1 \in Nat \ {0} /\ MaxIds \in Nat
  BY MaxIdsAssumption DEF MaxIdsAssumption
<1>2. CASE x[1] = "id"
  <2>1. x[2] \in Int
    BY <1>2 DEF IsName
  <2> DEFINE a == x[2]
             p == MaxIds + 1
  <2>2. p - 1 = MaxIds /\ a \in Int /\ p \in Nat \ {0}
    BY <1>1, <2>1
  <2>3. Atoi(x) = a % p
    BY <1>2 DEF Atoi
  <2> HIDE DEF a, p
  <2>4. a % p \in 0..(p - 1)
    BY <2>2, DivRest
  <2> QED
    BY <2>2, <2>3, <2>4
<1>3. CASE x[1] # "id"
  BY <1>1, <1>3 DEF Atoi
<1> QED
  BY <1>2, <1>3

LEMMA NumberOf ==
  ASSUME NEW id \in 0..(MaxIds - 1)
  PROVE  Atoi(Number(id)) = id /\ IsName(Number(id))
<1>1. MaxIds \in Nat
  BY MaxIdsAssumption DEF MaxIdsAssumption
<1>2. Number(id)[1] = "id" /\ Number(id)[2] = id
  BY DEF Number
<1>3. id % (MaxIds + 1) = id
  BY <1>1
<1> QED
  BY <1>1, <1>2, <1>3 DEF Atoi, IsName

LEMMA NameIs == ASSUME NEW n PROVE IsName(Name(n))
BY DEF IsName, Name

\* What a step does not take from a name in Redis stays known.
LEMMA StillNumbered ==
  ASSUME NEW hash, NEW more, \A f \in DOMAIN hash : f \in DOMAIN more /\ more[f] = hash[f],
         NEW n, NEW s, Numbered(hash, n, s)
  PROVE  Numbered(more, n, s)
BY DEF Numbered

LEMMA StillPlaced ==
  ASSUME NEW hash, NEW more, \A f \in DOMAIN hash : f \in DOMAIN more /\ more[f] = hash[f],
         NEW s, SlotsOK(s, hash)
  PROVE  SlotsOK(s, more)
BY StillNumbered DEF SlotsOK

\* The first of a queue is taken.
LEMMA Popped ==
  ASSUME NEW q, IsSeq(q), q # <<>>
  PROVE  /\ IsSeq(Tail(q)) /\ Head(q) = q[1] /\ 1 \in DOMAIN q
         /\ \A j \in DOMAIN Tail(q) : j + 1 \in DOMAIN q /\ Tail(q)[j] = q[j + 1]
         /\ \A j \in DOMAIN q : j # 1 => j - 1 \in DOMAIN Tail(q) /\ Tail(q)[j - 1] = q[j]
<1>1. PICK S : q \in Seq(S)
  BY DEF IsSeq
<1>2. Len(q) \in Nat /\ Len(q) >= 1 /\ DOMAIN q = 1..Len(q)
  BY <1>1
<1>3. Tail(q) \in Seq(S) /\ Len(Tail(q)) = Len(q) - 1 /\ DOMAIN Tail(q) = 1..(Len(q) - 1)
  BY <1>1, <1>2
<1>4. \A j \in 1..(Len(q) - 1) : Tail(q)[j] = q[j + 1]
  BY <1>1, <1>2
<1>5. Head(q) = q[1]
  BY <1>1, <1>2
<1>6. IsSeq(Tail(q))
  BY <1>3 DEF IsSeq
<1>7. ASSUME NEW j \in DOMAIN q, j # 1 PROVE j - 1 \in DOMAIN Tail(q) /\ Tail(q)[j - 1] = q[j]
  <2>1. j - 1 \in 1..(Len(q) - 1) /\ (j - 1) + 1 = j
    BY <1>2, <1>7
  <2> QED
    BY <1>3, <1>4, <2>1
<1>8. ASSUME NEW j \in DOMAIN Tail(q) PROVE j + 1 \in DOMAIN q /\ Tail(q)[j] = q[j + 1]
  BY <1>2, <1>3, <1>4
<1> QED
  BY <1>2, <1>5, <1>6, <1>7, <1>8

LEMMA PoppedQueue ==
  ASSUME NEW q, Queue(q), q # <<>>
  PROVE  /\ Queue(Tail(q)) /\ IsName(Head(q).name)
         /\ \A n, what : Pending(q, n, what) =>
              (n = Head(q).name /\ what = Head(q).what) \/ Pending(Tail(q), n, what)
         /\ \A asked, s : AskedOnly(asked, q, s) => AskedOnly(asked, Tail(q), s)
<1>1. IsSeq(q) /\ \A j \in DOMAIN q : IsName(q[j].name)
  BY DEF Queue
<1> DEFINE t == Tail(q)
<1>2. /\ IsSeq(t) /\ Head(q) = q[1] /\ 1 \in DOMAIN q
      /\ \A j \in DOMAIN t : j + 1 \in DOMAIN q /\ t[j] = q[j + 1]
      /\ \A j \in DOMAIN q : j # 1 => j - 1 \in DOMAIN t /\ t[j - 1] = q[j]
  BY <1>1, Popped
<1> HIDE DEF t
<1>3. Queue(t) /\ IsName(Head(q).name)
  BY <1>1, <1>2 DEF Queue
<1>4. ASSUME NEW n, NEW what, Pending(q, n, what)
      PROVE  (n = Head(q).name /\ what = Head(q).what) \/ Pending(t, n, what)
  <2>1. PICK j \in DOMAIN q : q[j].name = n /\ q[j].what = what
    BY <1>4 DEF Pending
  <2>2. CASE j = 1
    BY <1>2, <2>1, <2>2
  <2>3. CASE j # 1
    BY <1>2, <2>1, <2>3 DEF Pending
  <2> QED
    BY <2>2, <2>3
<1>5. ASSUME NEW asked, NEW s, AskedOnly(asked, q, s) PROVE AskedOnly(asked, t, s)
  BY <1>2, <1>5 DEF AskedOnly
<1> QED
  BY <1>3, <1>4, <1>5 DEF t

\* Numbers that differ later differ now.
LEMMA DifferedBefore ==
  ASSUME Kept, prefs' = prefs
  PROVE  (DifferentNumbers' => DifferentNumbers) /\ Asked' = Asked
<1>1. Asked' = Asked
  BY DEF Asked
<1>2. ASSUME DifferentNumbers' PROVE DifferentNumbers
  <2> DEFINE A == Asked \cup {Name("Historical")}
             was == A \cap DOMAIN ids
             is == A \cap DOMAIN ids'
  <2>1. was \subseteq is /\ \A a \in was : ids'[a] = ids[a]
    BY DEF Kept
  <2>2. \A a, b \in is : Atoi(ids'[a]) = Atoi(ids'[b]) => a = b
    BY <1>1, <1>2 DEF DifferentNumbers
  <2>3. \A a, b \in was : Atoi(ids[a]) = Atoi(ids[b]) => a = b
    <3> HIDE DEF was, is
    <3> QED
      BY <2>1, <2>2
  <2> QED
    BY <2>3 DEF DifferentNumbers
<1> QED
  BY <1>1, <1>2

\* Steps that have nothing to do with the way of a name.
LEMMA WaySame ==
  ASSUME WayInv, UNCHANGED <<prefs, ids, slots, todo, ifaces>>,
         pc' = pc \/ (pc \in Late /\ pc' \in Late /\ todo = <<>>),
         UNCHANGED ident \/ ident' = NoIdent \/ (ident'.step = "default" /\ pc' \in Late)
  PROVE  WayInv'
<1>1. Named(prefs)' /\ Queue(todo)' /\ IsSeq(ifaces)' /\ NamesOK(ids)' /\ SlotsOK(slots, ids)'
  BY DEF WayInv
<1>2. pc' \in Early => slots' = <<>> /\ ident' = NoIdent
  BY DEF WayInv, Early, Late
<1>3. pc' \notin Queueing => todo' = <<>>
  BY DEF WayInv
<1>4. CallOK(ident', todo, ids)
  <2>1. CallOK(ident, todo, ids)
    BY DEF WayInv
  <2>2. ident' = NoIdent => ident'.step = "none"
    BY DEF NoIdent
  <2>3. ASSUME NEW c, c.step \in {"none", "default"} PROVE CallOK(c, todo, ids)
    BY <2>3 DEF CallOK
  <2> QED
    BY <2>1, <2>2, <2>3
<1> QED
  BY <1>1, <1>2, <1>3, <1>4 DEF WayInv

LEMMA ThereSame ==
  ASSUME ThereInv, Kept, UNCHANGED <<prefs, slots, todo, ifaces>>, said \subseteq said',
         pc' = pc \/ (pc \in Late /\ pc' \in Late)
  PROVE  ThereInv'
<1>1. (DifferentNumbers' => DifferentNumbers) /\ Asked' = Asked
  BY DifferedBefore
<1>2. pc' = "names" /\ prefs'["i"] = <<>> => todo' = <<>> /\ slots' = <<>>
  BY DEF ThereInv, Late
<1>3. ASSUME Placing', DifferentNumbers'
      PROVE  /\ \A n \in Asked : n \in said' \/ Pending(todo, n, "add") \/ PlacedIn(slots, n)
             /\ Asked \subseteq said' \/ AskedOnly(Asked, todo, slots)
  <2>1. Placing /\ DifferentNumbers
    BY <1>1, <1>3 DEF Placing, Late
  <2> QED
    BY <2>1 DEF ThereInv
<1>4. ASSUME pc' = "interfaces", DifferentNumbers'
      PROVE  \A n \in Asked : n \in said' \/ Pending(todo, n, "create") \/ Present(ifaces, n)
  <2>1. pc = "interfaces" /\ DifferentNumbers
    BY <1>1, <1>4 DEF Late
  <2> QED
    BY <2>1 DEF ThereInv
<1>5. ASSUME pc' \in Late, DifferentNumbers'
      PROVE  \A n \in Asked : n \in said' \/ Present(ifaces, n)
  <2>1. pc \in Late /\ DifferentNumbers
    BY <1>1, <1>5
  <2> QED
    BY <2>1 DEF ThereInv
<1> QED
  BY <1>1, <1>2, <1>3, <1>4, <1>5 DEF ThereInv
\* The names of a sequence become things to do.
ItemsOf(names, what) == [i \in DOMAIN names |-> Item(names[i], what)]

LEMMA Items ==
  ASSUME NEW names, IsSeq(names), \A i \in DOMAIN names : IsName(names[i]), NEW what,
         NEW q, q = ItemsOf(names, what)
  PROVE  /\ Queue(q) /\ DOMAIN q = DOMAIN names
         /\ \A i \in DOMAIN names : q[i].name = names[i] /\ q[i].what = what /\ Pending(q, names[i], what)
         /\ names = <<>> => q = <<>>
<1>1. Len(names) \in Nat /\ DOMAIN names = 1..Len(names)
  BY Longer
<1> DEFINE n == Len(names)
           S == { Item(names[i], what) : i \in 1..n }
<1>2. q \in [1..n -> S] /\ DOMAIN q = 1..n
  BY <1>1 DEF ItemsOf
<1>3. \A i \in 1..n : q[i].name = names[i] /\ q[i].what = what
  BY <1>1 DEF Item, ItemsOf
<1>4. names = <<>> => q = <<>>
  BY DEF ItemsOf
<1> HIDE DEF n, S
<1>5. q \in Seq(S)
  BY <1>1, <1>2 DEF n
<1>6. IsSeq(q)
  BY <1>5 DEF IsSeq
<1>7. Queue(q)
  BY <1>1, <1>2, <1>3, <1>6 DEF Queue, n
<1>8. \A i \in 1..n : Pending(q, names[i], what)
  BY <1>2, <1>3 DEF Pending
<1> QED
  BY <1>1, <1>2, <1>3, <1>4, <1>7, <1>8 DEF n

LEMMA NoCall == ASSUME NEW q, NEW hash PROVE CallOK(NoIdent, q, hash)
BY DEF CallOK, NoIdent

LEMMA RegisterStep ==
  ASSUME WayInv, ThereInv, Kept, RegisterPrefs
  PROVE  WayInv' /\ ThereInv'
<1> DEFINE names == prefs["i"]
<1>1. /\ pc = "registerPrefs" /\ pc' = "names" /\ UNCHANGED <<prefs, ids, slots, ident, ifaces>>
      /\ todo' = ItemsOf(names, "add")
  BY DEF RegisterPrefs, Goes, ItemsOf
<1>2. slots = <<>> /\ ident = NoIdent
  BY <1>1 DEF WayInv, Early
<1>3. IsSeq(names) /\ \A i \in DOMAIN names : IsName(names[i])
  BY DEF WayInv, Named
<1> HIDE DEF names
<1>4. /\ Queue(todo') /\ DOMAIN todo' = DOMAIN names
      /\ \A i \in DOMAIN names : todo'[i].name = names[i] /\ todo'[i].what = "add" /\ Pending(todo', names[i], "add")
      /\ names = <<>> => todo' = <<>>
  BY <1>1, <1>3, Items
<1>5. WayInv'
  <2>1. Named(prefs') /\ IsSeq(ifaces') /\ NamesOK(ids') /\ SlotsOK(slots', ids')
    BY <1>1 DEF WayInv
  <2>2. CallOK(ident', todo', ids')
    BY <1>1, <1>2, NoCall
  <2>3. pc' \notin Early /\ pc' \in Queueing
    BY <1>1 DEF Early, Queueing
  <2> QED
    BY <1>4, <2>1, <2>2, <2>3 DEF WayInv
<1>6. ThereInv'
  <2>1. ASSUME names # <<>>
        PROVE  /\ \A n \in Asked : Pending(todo', n, "add")
               /\ AskedOnly(Asked, todo', <<>>)
    <3>1. Asked = { names[i] : i \in DOMAIN names }
      BY <2>1 DEF Asked, names
    <3> QED
      BY <1>4, <3>1 DEF AskedOnly
  <2>2. Asked' = Asked /\ prefs'["i"] = names
    BY <1>1, DifferedBefore DEF names
  <2>3. names = <<>> => ~Placing' /\ todo' = <<>> /\ slots' = <<>>
    BY <1>1, <1>2, <1>4, <2>2 DEF Placing
  <2>4. pc' # "interfaces" /\ pc' \notin Late
    BY <1>1 DEF Late
  <2>5. slots' = <<>>
    BY <1>1, <1>2
  <2> QED
    BY <2>1, <2>2, <2>3, <2>4, <2>5 DEF ThereInv
<1> QED
  BY <1>5, <1>6

LEMMA LookUpWay ==
  ASSUME WayInv, LookUp
  PROVE  WayInv'
<1> DEFINE n == Head(todo).name
           free == { j \in 0..(MaxIds - 1) : Number(j) \notin DOMAIN ids }
<1>1. UNCHANGED <<pc, prefs, ids, slots, todo, ifaces>> /\ todo # <<>>
  BY DEF LookUp, redis, Wanted
<1>2. ASSUME n \in DOMAIN ids PROVE CallOK(ident', todo, ids)
  <2>1. ident' = [step |-> "known", id |-> Atoi(ids[n])]
    BY <1>2 DEF LookUp
  <2>2. ident'.step = "known" /\ ident'.id = Atoi(ids[n])
    BY <2>1
  <2> QED
    BY <1>1, <1>2, <2>2 DEF CallOK, Numbered
<1>3. ASSUME n \notin DOMAIN ids, free = {} PROVE CallOK(ident', todo, ids)
  <2>1. ident' = [step |-> "known", id |-> NoNumber]
    BY <1>3 DEF LookUp
  <2>2. ident'.step = "known" /\ ident'.id = NoNumber
    BY <2>1
  <2> QED
    BY <1>1, <2>2 DEF CallOK
<1>4. ASSUME n \notin DOMAIN ids, free # {} PROVE CallOK(ident', todo, ids)
  <2>1. ident' = [step |-> "name", id |-> Min(free), name |-> n]
    BY <1>4 DEF LookUp
  <2>2. free \in SUBSET Nat /\ free \subseteq 0..(MaxIds - 1)
    BY MaxIdsAssumption DEF MaxIdsAssumption
  <2> HIDE DEF free
  <2>3. Min(free) \in 0..(MaxIds - 1)
    BY <1>4, <2>2, MinLemma
  <2>4. ident'.step = "name" /\ ident'.id \in 0..(MaxIds - 1) /\ ident'.name = Head(todo).name
    BY <2>1, <2>3
  <2> QED
    BY <1>1, <2>4 DEF CallOK
<1>5. CallOK(ident', todo, ids)
  <2> HIDE DEF n, free
  <2> QED
    BY <1>2, <1>3, <1>4
<1>6. pc \notin Early
  BY <1>1 DEF WayInv, Early, Queueing
<1> QED
  BY <1>1, <1>5, <1>6 DEF WayInv

LEMMA StoredNames ==
  ASSUME NEW hash, NamesOK(hash), NEW n, NEW v, IsName(v)
  PROVE  NamesOK(HSet(hash, n, v))
BY DEF NamesOK, HSet

LEMMA StoreWay ==
  ASSUME WayInv, IdentOK, Kept, StoreName \/ StoreNumber
  PROVE  WayInv'
<1>1. UNCHANGED <<pc, prefs, slots, todo, ifaces>>
  BY DEF StoreName, StoreNumber
<1>2. ident.step \in {"name", "number"}
  BY DEF StoreName, StoreNumber
<1>3. CallOK(ident, todo, ids) /\ Queue(todo) /\ NamesOK(ids) /\ SlotsOK(slots, ids)
  BY DEF WayInv
<1>4. todo # <<>> /\ ident.name = Head(todo).name /\ ident.id \in 0..(MaxIds - 1)
  BY <1>2, <1>3 DEF CallOK
<1>5. IsName(ident.name)
  BY <1>3, <1>4, PoppedQueue
<1>6. Atoi(Number(ident.id)) = ident.id /\ IsName(Number(ident.id))
  BY <1>4, NumberOf
<1>7. SlotsOK(slots, ids')
  BY <1>3, StillPlaced DEF Kept
<1>8. ASSUME StoreName PROVE CallOK(ident', todo, ids') /\ NamesOK(ids')
  <2>1. ident.step = "name" /\ ids' = HSet(ids, ident.name, Number(ident.id)) /\ ident' = [ident EXCEPT !.step = "number"]
    BY <1>8 DEF StoreName
  <2>2. DOMAIN ident = {"step", "id", "name"}
    BY <2>1 DEF IdentOK
  <2>3. ident'.step = "number" /\ ident'.id = ident.id /\ ident'.name = ident.name
    BY <2>1, <2>2
  <2>4. Numbered(ids', ident.name, ident.id)
    BY <1>6, <2>1 DEF Numbered, HSet
  <2>5. NamesOK(ids')
    BY <1>3, <1>6, <2>1, StoredNames
  <2> QED
    BY <1>4, <2>3, <2>4, <2>5 DEF CallOK
<1>9. ASSUME StoreNumber PROVE CallOK(ident', todo, ids') /\ NamesOK(ids')
  <2>1. ident.step = "number" /\ ids' = HSet(ids, Number(ident.id), ident.name)
    BY <1>9 DEF StoreNumber
  <2>2. ident'.step = "known" /\ ident'.id = ident.id
    BY <1>9 DEF StoreNumber
  <2>3. Numbered(ids, Head(todo).name, ident.id)
    BY <1>3, <2>1 DEF CallOK
  <2>4. Numbered(ids', Head(todo).name, ident.id)
    BY <2>3, StillNumbered DEF Kept
  <2>5. NamesOK(ids')
    BY <1>3, <1>5, <2>1, StoredNames
  <2> QED
    BY <1>4, <2>2, <2>4, <2>5 DEF CallOK
<1>10. CallOK(ident', todo, ids') /\ NamesOK(ids')
  BY <1>8, <1>9
<1>11. pc \notin Early
  BY <1>2 DEF WayInv, NoIdent
<1> QED
  BY <1>1, <1>7, <1>10, <1>11 DEF WayInv

\* The call for the first thing to do is at its end.
LEMMA DoneWay ==
  ASSUME WayInv, todo # <<>>, Done, UNCHANGED <<pc, prefs, ids>>, IsSeq(ifaces'), SlotsOK(slots', ids)
  PROVE  WayInv'
<1>1. todo' = Tail(todo) /\ ident' = NoIdent
  BY DEF Done
<1>2. Queue(Tail(todo))
  BY PoppedQueue DEF WayInv
<1>3. CallOK(ident', todo', ids')
  BY <1>1, NoCall
<1>4. pc \in Queueing /\ pc \notin Early
  BY DEF WayInv, Queueing, Early
<1> QED
  BY <1>1, <1>2, <1>3, <1>4 DEF WayInv

\* Something else than what is waited for is done.
LEMMA DoneOther ==
  ASSUME WayInv, ThereInv, Kept, todo # <<>>, Done, UNCHANGED <<pc, prefs, slots>>, said \subseteq said',
         pc \in {"names", "defaults"} => Head(todo).what # "add",
         pc = "interfaces" => Head(todo).what # "create" \/ Head(todo).name \in said' \/ Present(ifaces', Head(todo).name),
         \A n : Present(ifaces, n) => Present(ifaces', n)
  PROVE  ThereInv'
<1>1. todo' = Tail(todo)
  BY DEF Done
<1>2. /\ \A n, what : Pending(todo, n, what) =>
           (n = Head(todo).name /\ what = Head(todo).what) \/ Pending(todo', n, what)
      /\ \A asked, s : AskedOnly(asked, todo, s) => AskedOnly(asked, todo', s)
  BY <1>1, PoppedQueue DEF WayInv
<1>3. (DifferentNumbers' => DifferentNumbers) /\ Asked' = Asked
  BY DifferedBefore
<1>4. ~(pc' = "names" /\ prefs'["i"] = <<>>)
  BY DEF ThereInv
<1>5. ASSUME Placing', DifferentNumbers'
      PROVE  /\ \A n \in Asked : n \in said' \/ Pending(todo', n, "add") \/ PlacedIn(slots, n)
             /\ Asked \subseteq said' \/ AskedOnly(Asked, todo', slots)
  <2>1. Placing /\ DifferentNumbers /\ pc \in {"names", "defaults"}
    BY <1>3, <1>5 DEF Placing
  <2> QED
    BY <1>2, <2>1 DEF ThereInv
<1>6. ASSUME pc' = "interfaces", DifferentNumbers'
      PROVE  \A n \in Asked : n \in said' \/ Pending(todo', n, "create") \/ Present(ifaces', n)
  <2>1. pc = "interfaces" /\ DifferentNumbers
    BY <1>3, <1>6
  <2> QED
    BY <1>2, <2>1 DEF ThereInv
<1>7. ASSUME pc' \in Late, DifferentNumbers'
      PROVE  \A n \in Asked : n \in said' \/ Present(ifaces', n)
  <2>1. pc \in Late /\ DifferentNumbers
    BY <1>3, <1>7
  <2> QED
    BY <2>1 DEF ThereInv
<1> QED
  BY <1>3, <1>4, <1>5, <1>6, <1>7 DEF ThereInv

LEMMA DummyStep ==
  ASSUME WayInv, ThereInv, Kept, MakeDummy
  PROVE  WayInv' /\ ThereInv'
<1>1. /\ todo # <<>> /\ Head(todo).what = "dummy" /\ Done
      /\ UNCHANGED <<pc, prefs, ids, slots, ifaces, said>>
  BY DEF MakeDummy, Known, redis
<1>2. WayInv'
  <2>1. IsSeq(ifaces') /\ SlotsOK(slots', ids)
    BY <1>1 DEF WayInv
  <2> QED
    BY <1>1, <2>1, DoneWay
<1>3. ThereInv'
  BY <1>1, DoneOther
<1> QED
  BY <1>2, <1>3

LEMMA CreateStep ==
  ASSUME WayInv, ThereInv, Kept, CreateInterface
  PROVE  WayInv' /\ ThereInv'
<1> DEFINE n == Head(todo).name
           if == NewInterface(n, ident.id)
<1>1. /\ todo # <<>> /\ Head(todo).what = "create" /\ Done
      /\ UNCHANGED <<pc, prefs, ids, slots>>
      /\ ifaces' = Registered(ifaces, if)
      /\ said' = IF ifaces' = ifaces THEN said \cup {n} ELSE said
  BY DEF CreateInterface, Known, redis
<1>2. ifaces' = ifaces \/ ifaces' = Append(ifaces, if)
  BY <1>1 DEF Registered
<1>3. /\ IsSeq(Append(ifaces, if)) /\ Append(ifaces, if)[Len(ifaces) + 1] = if
      /\ DOMAIN Append(ifaces, if) = 1..(Len(ifaces) + 1) /\ DOMAIN ifaces = 1..Len(ifaces) /\ Len(ifaces) \in Nat
      /\ \A i \in 1..Len(ifaces) : Append(ifaces, if)[i] = ifaces[i]
  BY Longer DEF WayInv
<1>4. if.name = Base(RealName(n))
  BY DEF NewInterface
<1> HIDE DEF if, n
<1>5. IsSeq(ifaces')
  BY <1>2, <1>3 DEF WayInv
<1>6. \A m : Present(ifaces, m) => Present(ifaces', m)
  <2>1. ASSUME NEW m, Present(ifaces, m) PROVE Present(Append(ifaces, if), m)
    <3>1. PICK j \in DOMAIN ifaces : ifaces[j].name = Base(RealName(m))
      BY <2>1 DEF Present
    <3>2. j \in DOMAIN Append(ifaces, if) /\ Append(ifaces, if)[j] = ifaces[j]
      BY <1>3, <3>1
    <3> QED
      BY <3>1, <3>2 DEF Present
  <2> QED
    BY <1>2, <2>1
<1>7. n \in said' \/ Present(ifaces', n)
  <2>1. CASE ifaces' = ifaces
    BY <1>1, <2>1
  <2>2. CASE ifaces' = Append(ifaces, if)
    <3>1. Len(ifaces) + 1 \in DOMAIN Append(ifaces, if) /\ Append(ifaces, if)[Len(ifaces) + 1].name = Base(RealName(n))
      BY <1>3, <1>4
    <3> QED
      BY <2>2, <3>1 DEF Present
  <2> QED
    BY <1>2, <2>1, <2>2
<1>8. said \subseteq said'
  BY <1>1
<1>9. WayInv'
  <2>1. SlotsOK(slots', ids)
    BY <1>1 DEF WayInv
  <2> QED
    BY <1>1, <1>5, <2>1, DoneWay
<1>10. ThereInv'
  BY <1>1, <1>6, <1>7, <1>8, DoneOther DEF n
<1> QED
  BY <1>9, <1>10

\* A name gets its place: what was there had the same number, so it is the same name.
LEMMA AddStep ==
  ASSUME WayInv, ThereInv, Kept, AddNetworkInterface
  PROVE  WayInv' /\ ThereInv'
<1> DEFINE m == Head(todo).name
           id == ident.id
<1>1. /\ todo # <<>> /\ Head(todo).what = "add" /\ Done /\ ident.step = "known"
      /\ UNCHANGED <<pc, prefs, ids, ifaces>>
      /\ IF id < MaxInterfaces - 1 THEN slots' = HSet(slots, id, m) /\ UNCHANGED said
         ELSE said' = said \cup {m} /\ UNCHANGED slots
  BY DEF AddNetworkInterface, Known, redis
<1>2. CallOK(ident, todo, ids) /\ NamesOK(ids) /\ SlotsOK(slots, ids) /\ Queue(todo)
  BY DEF WayInv
<1>3. id = NoNumber \/ Numbered(ids, m, id)
  BY <1>1, <1>2 DEF CallOK
<1>4. MaxIds \in Nat /\ MaxInterfaces \in Nat /\ ~(NoNumber < MaxInterfaces - 1)
  BY MaxIdsAssumption DEF MaxIdsAssumption, NoNumber
<1>5. IsName(m)
  BY <1>1, <1>2, PoppedQueue
<1>6. /\ todo' = Tail(todo)
      /\ \A n, what : Pending(todo, n, what) => (n = m /\ what = "add") \/ Pending(todo', n, what)
      /\ \A asked, s : AskedOnly(asked, todo, s) => AskedOnly(asked, todo', s)
  <2>1. todo' = Tail(todo)
    BY <1>1 DEF Done
  <2> QED
    BY <1>1, <1>2, <2>1, PoppedQueue
<1>7. \A asked, s : AskedOnly(asked, todo, s) => m \in asked
  <2>1. 1 \in DOMAIN todo /\ Head(todo) = todo[1]
    BY <1>1, <1>2, Popped DEF Queue
  <2> QED
    BY <1>1, <2>1 DEF AskedOnly
<1> HIDE DEF m, id
<1>8. id < MaxInterfaces - 1 => Numbered(ids, m, id) /\ id \in 0..(MaxInterfaces - 1)
  <2>1. ASSUME Numbered(ids, m, id) PROVE id \in 0..MaxIds
    BY <1>2, <2>1, AtoiRange DEF Numbered, NamesOK
  <2> QED
    BY <1>3, <1>4, <2>1
<1>9. SlotsOK(slots', ids)
  <2>1. CASE id < MaxInterfaces - 1
    <3>1. slots' = HSet(slots, id, m) /\ Numbered(ids, m, id) /\ id \in 0..(MaxInterfaces - 1)
      BY <1>1, <1>8, <2>1
    <3> QED
      BY <1>2, <1>5, <3>1 DEF SlotsOK, HSet
  <2>2. CASE ~(id < MaxInterfaces - 1)
    BY <1>1, <1>2, <2>2
  <2> QED
    BY <2>1, <2>2
<1>10. WayInv'
  <2>1. IsSeq(ifaces')
    BY <1>1 DEF WayInv
  <2> QED
    BY <1>1, <1>9, <2>1, DoneWay
<1>11. (DifferentNumbers' => DifferentNumbers) /\ Asked' = Asked
  BY <1>1, DifferedBefore
<1>12. said \subseteq said'
  BY <1>1
<1>13. ASSUME Placing', DifferentNumbers'
       PROVE  /\ \A n \in Asked : n \in said' \/ Pending(todo', n, "add") \/ PlacedIn(slots', n)
              /\ Asked \subseteq said' \/ AskedOnly(Asked, todo', slots')
  <2>1. Placing /\ DifferentNumbers
    BY <1>1, <1>11, <1>13 DEF Placing
  <2>2. /\ \A n \in Asked : n \in said \/ Pending(todo, n, "add") \/ PlacedIn(slots, n)
        /\ Asked \subseteq said \/ AskedOnly(Asked, todo, slots)
    BY <2>1 DEF ThereInv
  <2>3. CASE Asked \subseteq said
    BY <1>12, <2>3
  <2>4. CASE AskedOnly(Asked, todo, slots) /\ ~(id < MaxInterfaces - 1)
    <3>1. said' = said \cup {m} /\ slots' = slots
      BY <1>1, <2>4
    <3> QED
      BY <1>6, <2>2, <2>4, <3>1
  <2>5. CASE AskedOnly(Asked, todo, slots) /\ id < MaxInterfaces - 1
    <3>1. slots' = HSet(slots, id, m) /\ said' = said
      BY <1>1, <2>5
    <3>2. m \in Asked /\ Numbered(ids, m, id)
      BY <1>7, <1>8, <2>5
    <3>3. PlacedIn(slots', m)
      BY <3>1 DEF PlacedIn, HSet
    <3>4. ASSUME NEW n, PlacedIn(slots, n) PROVE PlacedIn(slots', n)
      <4>1. PICK j \in DOMAIN slots : slots[j] = n
        BY <3>4 DEF PlacedIn
      <4>2. CASE j = id
        <5>1. Numbered(ids, n, id) /\ n \in Asked
          BY <1>2, <2>5, <4>1, <4>2 DEF SlotsOK, AskedOnly
        <5>2. n = m
          BY <2>1, <3>2, <5>1 DEF DifferentNumbers, Numbered
        <5> QED
          BY <3>3, <5>2
      <4>3. CASE j # id
        BY <3>1, <4>1, <4>3 DEF PlacedIn, HSet
      <4> QED
        BY <4>2, <4>3
    <3>5. AskedOnly(Asked, todo', slots)
      BY <1>6, <2>5
    <3>6. AskedOnly(Asked, todo', slots')
      BY <3>1, <3>2, <3>5 DEF AskedOnly, HSet
    <3> QED
      BY <1>6, <2>2, <3>1, <3>3, <3>4, <3>6
  <2> QED
    BY <2>2, <2>3, <2>4, <2>5
<1>14. ASSUME pc' = "interfaces", DifferentNumbers'
       PROVE  \A n \in Asked : n \in said' \/ Pending(todo', n, "create") \/ Present(ifaces', n)
  <2>1. pc = "interfaces" /\ DifferentNumbers /\ ifaces' = ifaces
    BY <1>1, <1>11, <1>14
  <2> QED
    BY <1>6, <1>12, <2>1 DEF ThereInv
<1>15. ASSUME pc' \in Late, DifferentNumbers'
       PROVE  \A n \in Asked : n \in said' \/ Present(ifaces', n)
  <2>1. pc \in Late /\ DifferentNumbers /\ ifaces' = ifaces
    BY <1>1, <1>11, <1>15
  <2> QED
    BY <1>12, <2>1 DEF ThereInv
<1>16. ~(pc' = "names" /\ prefs'["i"] = <<>>)
  BY <1>1 DEF ThereInv
<1>17. ThereInv'
  BY <1>11, <1>13, <1>14, <1>15, <1>16 DEF ThereInv
<1> QED
  BY <1>10, <1>17

\* The next queue of the main thread.
LEMMA NextQueue ==
  ASSUME WayInv, UNCHANGED <<prefs, ids, slots, ident, ifaces>>, AllDone, Queue(todo'),
         pc' \in Queueing
  PROVE  WayInv'
<1>1. Named(prefs') /\ IsSeq(ifaces') /\ NamesOK(ids') /\ SlotsOK(slots', ids')
  BY DEF WayInv
<1>2. CallOK(ident', todo', ids')
  BY NoCall DEF AllDone
<1>3. pc' \notin Early
  BY DEF Queueing, Early
<1> QED
  BY <1>1, <1>2, <1>3 DEF WayInv

LEMMA EmptyQueue == Queue(<<>>)
<1>1. <<>> \in Seq({}) /\ DOMAIN <<>> = {}
  OBVIOUS
<1> QED
  BY <1>1 DEF Queue, IsSeq

Put(x, q) == <<x>> \o q

\* What is put first leaves the others one place later.
LEMMA PutFirst ==
  ASSUME NEW x, IsName(x.name), NEW q, Queue(q), NEW r, r = Put(x, q)
  PROVE  /\ Queue(r)
         /\ \A n, what : Pending(q, n, what) => Pending(r, n, what)
         /\ \A j \in DOMAIN r : r[j] = x \/ \E i \in DOMAIN q : r[j] = q[i]
<1>1. PICK S : q \in Seq(S)
  BY DEF Queue, IsSeq
<1> DEFINE T == S \cup {x}
<1>2. q \in Seq(T) /\ <<x>> \in Seq(T)
  BY <1>1
<1>3. r \in Seq(T) /\ Len(r) = Len(q) + 1 /\ Len(q) \in Nat /\ DOMAIN q = 1..Len(q) /\ DOMAIN r = 1..Len(r)
  BY <1>2 DEF Put
<1>4. r[1] = x /\ \A i \in 1..Len(q) : r[i + 1] = q[i]
  BY <1>2 DEF Put
<1> HIDE DEF T
<1>5. ASSUME NEW j \in DOMAIN r PROVE r[j] = x \/ \E i \in DOMAIN q : r[j] = q[i]
  <2>1. CASE j = 1
    BY <1>4, <2>1
  <2>2. CASE j # 1
    <3>1. j - 1 \in 1..Len(q) /\ (j - 1) + 1 = j
      BY <1>3, <2>2
    <3> QED
      BY <1>3, <1>4, <3>1
  <2> QED
    BY <2>1, <2>2
<1>6. \A j \in DOMAIN r : IsName(r[j].name)
  BY <1>5 DEF Queue
<1>7. ASSUME NEW n, NEW what, Pending(q, n, what) PROVE Pending(r, n, what)
  <2>1. PICK j \in DOMAIN q : q[j].name = n /\ q[j].what = what
    BY <1>7 DEF Pending
  <2>2. j + 1 \in DOMAIN r /\ r[j + 1] = q[j]
    BY <1>3, <1>4, <2>1
  <2> QED
    BY <2>1, <2>2 DEF Pending
<1>8. Queue(r)
  BY <1>3, <1>6 DEF Queue, IsSeq
<1> QED
  BY <1>5, <1>7, <1>8

LEMMA NothingPending ==
  ASSUME NEW n, NEW what PROVE ~Pending(<<>>, n, what)
BY DEF Pending

\* The names of devices as things to do, alone and after the dummy.
AddItems(usable) == [i \in DOMAIN usable |-> Item(usable[i].name, "add")]
WithDummy(usable) == Put(Item(Name("dummy"), "dummy"), AddItems(usable))

\* The names of the devices at some places are put in the queue.
LEMMA DeviceItems ==
  ASSUME NEW devices, IsSeq(devices), \A i \in DOMAIN devices : IsName(devices[i].name),
         NEW P, P \subseteq DOMAIN devices,
         NEW usable, usable = TakePlaces(devices, P), NEW r, r = AddItems(usable)
  PROVE  /\ Queue(r)
         /\ \A i \in P : Pending(r, devices[i].name, "add")
         /\ \A j \in DOMAIN r : \E i \in P : r[j].name = devices[i].name
<1>1. P \subseteq Int /\ IsFiniteSet(P)
  <2>1. DOMAIN devices = 1..Len(devices) /\ Len(devices) \in Nat
    BY Longer
  <2>2. IsFiniteSet(1..Len(devices))
    BY <2>1, FS_Interval
  <2> QED
    BY <2>1, <2>2, FS_Subset
<1>2. /\ IsSeq(usable)
      /\ \A i \in DOMAIN usable : \E p \in P : usable[i] = devices[p]
      /\ \A p \in P : \E i \in DOMAIN usable : usable[i] = devices[p]
  BY <1>1, Taken
<1> DEFINE n == Len(usable)
           S == { usable[i].name : i \in 1..n }
           names == [i \in 1..n |-> usable[i].name]
<1>3. n \in Nat /\ DOMAIN usable = 1..n
  BY <1>2, Longer
<1>4. names \in [1..n -> S] /\ DOMAIN names = 1..n /\ \A i \in 1..n : names[i] = usable[i].name
  OBVIOUS
<1>5. r = [i \in 1..n |-> Item(usable[i].name, "add")]
  BY <1>3 DEF AddItems
<1> HIDE DEF n, S
<1>6. r = ItemsOf(names, "add")
  BY <1>5 DEF ItemsOf
<1> HIDE DEF names
<1>7. names \in Seq(S)
  BY <1>3, <1>4
<1>8. IsSeq(names)
  BY <1>7 DEF IsSeq
<1>9. \A i \in DOMAIN names : IsName(names[i])
  BY <1>2, <1>3, <1>4
<1>10. /\ Queue(r) /\ DOMAIN r = DOMAIN names
       /\ \A i \in DOMAIN names : r[i].name = names[i] /\ Pending(r, names[i], "add")
  BY <1>6, <1>8, <1>9, Items
<1>11. ASSUME NEW p \in P PROVE Pending(r, devices[p].name, "add")
  <2>1. PICK i \in DOMAIN usable : usable[i] = devices[p]
    BY <1>2
  <2> QED
    BY <1>3, <1>4, <1>10, <2>1
<1>12. ASSUME NEW j \in DOMAIN r PROVE \E p \in P : r[j].name = devices[p].name
  <2>1. j \in DOMAIN usable /\ r[j].name = usable[j].name
    BY <1>3, <1>4, <1>10
  <2> QED
    BY <1>2, <2>1
<1> QED
  BY <1>10, <1>11, <1>12

\* Every device that can be used is put in the queue, after the dummy.
LEMMA UsableItems ==
  ASSUME NEW usable, usable = TakePlaces(Devices, UsableDevices), NEW q, q = WithDummy(usable)
  PROVE  /\ Queue(q)
         /\ \A i \in UsableDevices : Pending(q, Devices[i].name, "add")
         /\ \A j \in DOMAIN q : q[j].what = "add" => \E i \in UsableDevices : q[j].name = Devices[i].name
<1> DEFINE r == AddItems(usable)
           d == Item(Name("dummy"), "dummy")
<1>1. IsSeq(Devices) /\ \A i \in DOMAIN Devices : IsName(Devices[i].name)
  BY DevicesAssumption DEF DevicesAssumption, IsSeq
<1>2. UsableDevices \subseteq DOMAIN Devices
  BY DEF UsableDevices
<1>3. q = Put(d, r)
  BY DEF WithDummy
<1>4. IsName(d.name) /\ d.what = "dummy"
  BY NameIs DEF Item
<1>5. r = AddItems(usable)
  OBVIOUS
<1> HIDE DEF r, d
<1>6. /\ Queue(r)
      /\ \A i \in UsableDevices : Pending(r, Devices[i].name, "add")
      /\ \A j \in DOMAIN r : \E i \in UsableDevices : r[j].name = Devices[i].name
  BY <1>1, <1>2, <1>5, DeviceItems
<1>7. /\ Queue(q)
      /\ \A n, what : Pending(r, n, what) => Pending(q, n, what)
      /\ \A j \in DOMAIN q : q[j] = d \/ \E i \in DOMAIN r : q[j] = r[i]
  BY <1>3, <1>4, <1>6, PutFirst
<1>8. \A p \in UsableDevices : Pending(q, Devices[p].name, "add")
  BY <1>6, <1>7
<1>9. ASSUME NEW j \in DOMAIN q, q[j].what = "add" PROVE \E p \in UsableDevices : q[j].name = Devices[p].name
  <2>1. PICK i \in DOMAIN r : q[j] = r[i]
    BY <1>4, <1>7, <1>9
  <2> QED
    BY <1>6, <2>1
<1> QED
  BY <1>7, <1>8, <1>9

LEMMA DefaultsStep ==
  ASSUME WayInv, ThereInv, Kept, AddDefaults
  PROVE  WayInv' /\ ThereInv'
<1> DEFINE usable == TakePlaces(Devices, UsableDevices)
           q == WithDummy(usable)
<1>1. /\ pc = "names" /\ pc' = "defaults" /\ AllDone
      /\ todo' = IF slots # <<>> THEN <<>> ELSE q
      /\ UNCHANGED <<prefs, ids, slots, ident, ifaces, said>>
  BY DEF AddDefaults, Goes, redis, WithDummy, Put, AddItems
<1>2. /\ Queue(q)
      /\ \A i \in UsableDevices : Pending(q, Devices[i].name, "add")
      /\ \A j \in DOMAIN q : q[j].what = "add" => \E i \in UsableDevices : q[j].name = Devices[i].name
  <2>1. usable = TakePlaces(Devices, UsableDevices)
    OBVIOUS
  <2> HIDE DEF usable
  <2>2. q = WithDummy(usable)
    OBVIOUS
  <2> HIDE DEF q
  <2> QED
    BY <2>1, <2>2, UsableItems
<1> HIDE DEF q, usable
<1>3. WayInv'
  <2>1. Queue(todo') /\ pc' \in Queueing
    BY <1>1, <1>2, EmptyQueue DEF Queueing
  <2> QED
    BY <1>1, <2>1, NextQueue
<1>4. (DifferentNumbers' => DifferentNumbers) /\ Asked' = Asked
  BY <1>1, DifferedBefore
<1>5. todo = <<>>
  BY <1>1 DEF AllDone
<1>6. ASSUME DifferentNumbers'
      PROVE  /\ \A n \in Asked : n \in said \/ Pending(todo', n, "add") \/ PlacedIn(slots, n)
             /\ Asked \subseteq said \/ AskedOnly(Asked, todo', slots)
  <2>1. CASE prefs["i"] = <<>>
    <3>1. slots = <<>> /\ todo' = q
      BY <1>1, <2>1 DEF ThereInv
    <3>2. Asked = { Devices[i].name : i \in UsableDevices }
      BY <2>1 DEF Asked
    <3> QED
      BY <1>2, <3>1, <3>2 DEF AskedOnly
  <2>2. CASE prefs["i"] # <<>>
    <3>1. /\ \A n \in Asked : n \in said \/ Pending(todo, n, "add") \/ PlacedIn(slots, n)
          /\ Asked \subseteq said \/ AskedOnly(Asked, todo, slots)
      BY <1>1, <1>4, <1>6, <2>2 DEF ThereInv, Placing
    <3>2. \A n \in Asked : n \in said \/ PlacedIn(slots, n)
      BY <1>5, <3>1, NothingPending
    <3>3. CASE slots = <<>>
      <4>1. Asked \subseteq said
        BY <3>2, <3>3 DEF PlacedIn
      <4> QED
        BY <4>1
    <3>4. CASE slots # <<>>
      BY <1>1, <1>5, <3>1, <3>4
    <3> QED
      BY <3>3, <3>4
  <2> QED
    BY <2>1, <2>2
<1>7. pc' \notin Late /\ pc' # "interfaces" /\ pc' # "names" /\ slots' = slots /\ said' = said
  BY <1>1 DEF Late
<1>8. ThereInv'
  BY <1>4, <1>6, <1>7 DEF ThereInv
<1> QED
  BY <1>3, <1>8

\* Every place that holds a name gets its interface.
LEMMA PlacesItems ==
  ASSUME NEW s, NEW hash, SlotsOK(s, hash), NEW places, places = PlacesInUse(s),
         NEW q, q = [i \in DOMAIN places |-> Item(s[places[i]], "create")]
  PROVE  Queue(q) /\ \A n : PlacedIn(s, n) => Pending(q, n, "create")
<1> DEFINE P == DOMAIN s \cap 0..(MaxInterfaces - 1)
           names == [i \in DOMAIN places |-> s[places[i]]]
<1>1. P = DOMAIN s
  BY DEF SlotsOK
<1>2. IsFiniteSet(P) /\ P \subseteq Int
  <2>1. MaxInterfaces \in Nat
    BY MaxIdsAssumption DEF MaxIdsAssumption
  <2>2. IsFiniteSet(0..(MaxInterfaces - 1))
    BY <2>1, FS_Interval
  <2>3. P \subseteq 0..(MaxInterfaces - 1)
    OBVIOUS
  <2>4. IsFiniteSet(P)
    BY <2>2, <2>3, FS_Subset
  <2> QED
    BY <2>3, <2>4
<1>3. places = InOrder(P)
  BY DEF PlacesInUse
<1> HIDE DEF P
<1>4. /\ Cardinality(P) \in Nat /\ DOMAIN places = 1..Cardinality(P)
      /\ \A i \in 1..Cardinality(P) : places[i] \in P
      /\ \A p \in P : \E i \in 1..Cardinality(P) : places[i] = p
  BY <1>2, <1>3, Ordered
<1>5. DOMAIN names = DOMAIN places /\ \A i \in DOMAIN places : names[i] = s[places[i]]
  OBVIOUS
<1>6. q = ItemsOf(names, "create")
  BY DEF ItemsOf
<1>7. IsSeq(names)
  <2> DEFINE n == Cardinality(P)
             S == { s[places[i]] : i \in 1..n }
  <2>1. names \in [1..n -> S] /\ n \in Nat
    BY <1>4
  <2> HIDE DEF names, S, n
  <2>2. names \in Seq(S)
    BY <2>1
  <2> QED
    BY <2>2 DEF IsSeq
<1> HIDE DEF names
<1>8. \A i \in DOMAIN names : IsName(names[i])
  BY <1>1, <1>4, <1>5 DEF SlotsOK
<1>9. Queue(q) /\ \A i \in DOMAIN names : Pending(q, names[i], "create")
  BY <1>6, <1>7, <1>8, Items
<1>10. ASSUME NEW n, PlacedIn(s, n) PROVE Pending(q, n, "create")
  <2>1. PICK j \in DOMAIN s : s[j] = n
    BY <1>10 DEF PlacedIn
  <2>2. PICK i \in DOMAIN places : places[i] = j
    BY <1>1, <1>4, <2>1
  <2> QED
    BY <1>5, <1>9, <2>1, <2>2
<1> QED
  BY <1>9, <1>10

LEMMA InterfacesStep ==
  ASSUME WayInv, ThereInv, Kept, CreateInterfaces
  PROVE  WayInv' /\ ThereInv'
<1> DEFINE places == PlacesInUse(slots)
<1>1. /\ pc = "defaults" /\ pc' = "interfaces" /\ AllDone
      /\ todo' = [i \in DOMAIN places |-> Item(slots[places[i]], "create")]
      /\ UNCHANGED <<prefs, ids, slots, ident, ifaces, said>>
  BY DEF CreateInterfaces, Goes, redis
<1>2. Queue(todo') /\ \A n : PlacedIn(slots, n) => Pending(todo', n, "create")
  <2>1. SlotsOK(slots, ids)
    BY DEF WayInv
  <2> HIDE DEF places
  <2> QED
    BY <1>1, <2>1, PlacesItems DEF places
<1>3. WayInv'
  <2>1. pc' \in Queueing
    BY <1>1 DEF Queueing
  <2> QED
    BY <1>1, <1>2, <2>1, NextQueue
<1>4. (DifferentNumbers' => DifferentNumbers) /\ Asked' = Asked
  BY <1>1, DifferedBefore
<1>5. ASSUME DifferentNumbers'
      PROVE  \A n \in Asked : n \in said' \/ Pending(todo', n, "create") \/ Present(ifaces', n)
  <2>1. \A n \in Asked : n \in said \/ Pending(todo, n, "add") \/ PlacedIn(slots, n)
    BY <1>1, <1>4, <1>5 DEF ThereInv, Placing
  <2>2. todo = <<>>
    BY <1>1 DEF AllDone
  <2> QED
    BY <1>1, <1>2, <2>1, <2>2, NothingPending
<1>6. pc' \notin Late /\ pc' # "names" /\ ~Placing'
  BY <1>1 DEF Late, Placing
<1>7. ThereInv'
  BY <1>4, <1>5, <1>6 DEF ThereInv
<1> QED
  BY <1>3, <1>7

LEMMA HistoricalStep ==
  ASSUME WayInv, ThereInv, Kept, CreateHistorical
  PROVE  WayInv' /\ ThereInv'
<1> DEFINE q == <<Item(Name("Historical"), "add"), Item(Name("Historical"), "create")>>
<1>1. /\ pc = "interfaces" /\ pc' = "historical" /\ AllDone
      /\ todo' = IF prefs["F"] THEN q ELSE <<>>
      /\ UNCHANGED <<prefs, ids, slots, ident, ifaces, said>>
  BY DEF CreateHistorical, Goes, redis
<1>2. Queue(q)
  <2> DEFINE S == { Item(Name("Historical"), "add"), Item(Name("Historical"), "create") }
  <2>1. q \in Seq(S) /\ DOMAIN q = 1..2
    OBVIOUS
  <2>2. \A x \in S : IsName(x.name)
    BY NameIs DEF Item
  <2>3. \A j \in DOMAIN q : q[j] \in S
    BY <2>1
  <2> HIDE DEF q, S
  <2> QED
    BY <2>1, <2>2, <2>3 DEF Queue, IsSeq
<1> HIDE DEF q
<1>3. WayInv'
  <2>1. Queue(todo') /\ pc' \in Queueing
    BY <1>1, <1>2, EmptyQueue DEF Queueing
  <2> QED
    BY <1>1, <2>1, NextQueue
<1>4. (DifferentNumbers' => DifferentNumbers) /\ Asked' = Asked
  BY <1>1, DifferedBefore
<1>5. ASSUME DifferentNumbers'
      PROVE  \A n \in Asked : n \in said' \/ Present(ifaces', n)
  <2>1. \A n \in Asked : n \in said \/ Pending(todo, n, "create") \/ Present(ifaces, n)
    BY <1>1, <1>4, <1>5 DEF ThereInv
  <2>2. todo = <<>>
    BY <1>1 DEF AllDone
  <2> QED
    BY <1>1, <2>1, <2>2, NothingPending
<1>6. pc' # "interfaces" /\ pc' # "names" /\ ~Placing'
  BY <1>1 DEF Placing
<1>7. ThereInv'
  BY <1>4, <1>5, <1>6 DEF ThereInv
<1> QED
  BY <1>3, <1>7

\* A start, and the end of a process.
LEMMA LaunchStep ==
  ASSUME WayInv, ThereInv, Kept, NEW input \in Input, NEW who, Launch(input, who)
  PROVE  WayInv' /\ ThereInv'
<1>1. pc = "off" /\ pc' = "registerPrefs" /\ UNCHANGED <<ids, slots, todo, ident, ifaces>>
  BY DEF Launch, redis
<1>2. Named(prefs')
  BY LaunchNamed
<1>3. WayInv'
  <2>1. Queue(todo') /\ IsSeq(ifaces') /\ NamesOK(ids') /\ CallOK(ident', todo', ids') /\ SlotsOK(slots', ids')
    BY <1>1 DEF WayInv
  <2>2. slots' = <<>> /\ ident' = NoIdent /\ todo' = <<>>
    BY <1>1 DEF WayInv, Early, Queueing
  <2> QED
    BY <1>2, <2>1, <2>2 DEF WayInv
<1>4. ThereInv'
  BY <1>1 DEF ThereInv, Placing, Late
<1> QED
  BY <1>3, <1>4

LEMMA GoneStep ==
  ASSUME WayInv, Gone
  PROVE  WayInv' /\ ThereInv'
<1>1. pc' = "off" /\ prefs' = DefaultPrefs /\ slots' = <<>> /\ todo' = <<>> /\ ident' = NoIdent /\ ifaces' = <<>> /\ ids' = ids
  BY DEF Gone, redis
<1>2. NamesOK(ids')
  BY <1>1 DEF WayInv
<1>3. WayInv'
  <2>1. Named(prefs') /\ Queue(todo') /\ CallOK(ident', todo', ids')
    BY <1>1, DefaultNamed, EmptyQueue, NoCall
  <2>2. IsSeq(ifaces')
    BY <1>1, EmptyQueue DEF Queue
  <2>3. SlotsOK(slots', ids')
    BY <1>1 DEF SlotsOK
  <2> QED
    BY <1>1, <1>2, <2>1, <2>2, <2>3 DEF WayInv
<1>4. ThereInv'
  BY <1>1 DEF ThereInv, Placing, Late
<1> QED
  BY <1>3, <1>4

\* Steps that have nothing to do with names.
Besides ==
  /\ UNCHANGED <<prefs, ids, slots, todo, ifaces>> /\ said \subseteq said'
  /\ pc' = pc \/ (pc \in Late /\ pc' \in Late /\ todo = <<>>)
  /\ UNCHANGED ident \/ ident' = NoIdent \/ (ident'.step = "default" /\ pc' \in Late)

LEMMA BeginBesides ==
  ASSUME WayInv, Begin
  PROVE  Besides
<1>1. pc \notin Queueing => todo = <<>>
  BY DEF WayInv
<1>2. ASSUME NEW ok \in BOOLEAN, DropPrivileges(ok) \/ WritePid(ok)
      PROVE  Besides
  <2>1. pc \in {"drop", "pid"} /\ pc' \in {"pid", "web"}
    BY <1>2 DEF DropPrivileges, WritePid, Goes, NextStep
  <2>2. said \subseteq said' /\ UNCHANGED <<prefs, ids, slots, todo, ifaces, ident>>
    BY <1>2 DEF DropPrivileges, WritePid, redis
  <2> QED
    BY <1>1, <2>1, <2>2 DEF Besides, Queueing, Late
<1>3. ASSUME StartWeb \/ TestDirectory \/ StartLoops \/ LoadAddresses \/ StartPolling
      PROVE  Besides
  <2>1. pc \in {"web", "test", "start", "prefs", "poll"} /\ pc' \in {"test", "start", "prefs", "poll", "run"}
    BY <1>3 DEF StartWeb, TestDirectory, StartLoops, LoadAddresses, StartPolling, Goes, NextStep
  <2>2. UNCHANGED <<prefs, ids, slots, todo, ifaces, ident, said>>
    BY <1>3 DEF StartWeb, TestDirectory, StartLoops, LoadAddresses, StartPolling, redis
  <2> QED
    BY <1>1, <2>1, <2>2 DEF Besides, Queueing, Late
<1>4. ASSUME NEW key \in Keys, ReadDefault(key)
      PROVE  Besides
  BY <1>4 DEF ReadDefault, Besides, Late, redis
<1>5. ASSUME StoreDefault
      PROVE  Besides
  BY <1>5 DEF StoreDefault, Besides
<1> QED
  BY <1>2, <1>3, <1>4, <1>5 DEF Begin

LEMMA AskedStep ==
  ASSUME IdentOK, WayInv, ThereInv, [Next]_vars
  PROVE  WayInv' /\ ThereInv'
<1>0. Kept
  BY NextStepLemma
<1>1. ASSUME NEW input \in Input, NEW who \in {"root", "user"}, Launch(input, who)
      PROVE  WayInv' /\ ThereInv'
  BY <1>0, <1>1, LaunchStep
<1>2. ASSUME Identify PROVE WayInv' /\ ThereInv'
  <2>1. WayInv'
    BY <1>0, <1>2, LookUpWay, StoreWay DEF Identify
  <2>2. UNCHANGED <<pc, prefs, slots, todo, ifaces, said>>
    BY <1>2 DEF Identify, LookUp, StoreName, StoreNumber
  <2>3. ThereInv'
    BY <1>0, <2>2, ThereSame
  <2> QED
    BY <2>1, <2>3
<1>3. ASSUME Besides PROVE WayInv' /\ ThereInv'
  <2>1. WayInv'
    BY <1>3, WaySame DEF Besides
  <2>2. ThereInv'
    BY <1>0, <1>3, ThereSame DEF Besides
  <2> QED
    BY <2>1, <2>2
<1>4. ASSUME Interfaces PROVE WayInv' /\ ThereInv'
  <2>1. ASSUME CheckInterfaces PROVE Besides
    BY <2>1 DEF CheckInterfaces, AllDone, Goes, NextStep, Besides, Late, redis
  <2> QED
    BY <1>0, <1>3, <1>4, <2>1, RegisterStep, AddStep, DummyStep, CreateStep, DefaultsStep, InterfacesStep,
       HistoricalStep DEF Interfaces
<1>5. ASSUME Begin PROVE Besides
  BY <1>5, BeginBesides
<1>6. ASSUME NEW key \in Keys, NEW v \in Value, ChangePreference(key, v) PROVE Besides
  BY <1>6 DEF ChangePreference, Besides
<1>7. ASSUME Tick PROVE Besides
  BY <1>7 DEF Tick, Besides, redis
<1>8. ASSUME NEW l \in DOMAIN Loops, RunScript(l) PROVE Besides
  BY <1>8 DEF RunScript, Besides, redis
<1>9. ASSUME Exit \/ Kill \/ Stop PROVE WayInv' /\ ThereInv'
  <2>1. Gone
    BY <1>9 DEF Exit, Kill, Stop
  <2> QED
    BY <2>1, GoneStep
<1>10. ASSUME UNCHANGED vars PROVE Besides
  BY <1>10 DEF vars, Besides
<1> QED
  BY <1>1, <1>2, <1>3, <1>4, <1>5, <1>6, <1>7, <1>8, <1>9, <1>10 DEF Next

\* When the program runs, each interface that was asked for is there or reported as left out,
\* as long as the numbers in Redis of the names differ: for any options, any devices and any
\* numbers that earlier runs left, cut anywhere.
THEOREM AskedForIsThere == Spec => []AskedArePolled
<1>1. Init => IdentOK /\ WayInv /\ ThereInv
  <2> SUFFICES ASSUME Init PROVE IdentOK /\ WayInv /\ ThereInv
    OBVIOUS
  <2>1. pc = "off" /\ prefs = DefaultPrefs /\ slots = <<>> /\ todo = <<>> /\ ident = NoIdent /\ ifaces = <<>> /\ ids = <<>>
    BY DEF Init
  <2>2. IdentOK
    BY <2>1 DEF IdentOK, NoIdent
  <2>3. Named(prefs) /\ Queue(todo) /\ IsSeq(ifaces)
    BY <2>1, DefaultNamed, EmptyQueue DEF Queue
  <2>4. NamesOK(ids) /\ SlotsOK(slots, ids) /\ CallOK(ident, todo, ids)
    BY <2>1, NoCall DEF NamesOK, SlotsOK
  <2>5. WayInv
    BY <2>1, <2>3, <2>4 DEF WayInv
  <2>6. ThereInv
    BY <2>1 DEF ThereInv, Placing, Late
  <2> QED
    BY <2>2, <2>5, <2>6
<1>2. IdentOK /\ WayInv /\ ThereInv /\ [Next]_vars => (IdentOK /\ WayInv /\ ThereInv)'
  BY NextStepLemma, AskedStep
<1>3. ThereInv => AskedArePolled
  BY DEF ThereInv, AskedArePolled, Late, Present
<1> QED
  BY <1>1, <1>2, <1>3, PTL DEF Spec
-------------------------------------------------------------------------------
(* The end of the program.                                                 *)

Workers == {Main, Http, Script, Resolver}

\* The poller of an interface has ended, or is the thread the signal interrupted.
Over(i) == place[Poller[i]] = "ended" \/ handler = Poller[i]

\* sigproc() runs in one thread and once; the main thread leaves its loop after it began.
HandlerInv ==
  /\ called = flag /\ (called <=> handler # NoThread)
  /\ (called => signals >= 1) /\ (place[Main] = "left" => called)
  /\ (step # "wait" => called)

\* Where each of the four threads that no interface owns may be.
PlaceInv ==
  /\ place[Main] \in {"loop", "walk", "left"}
  /\ \A t \in {Http, Script, Resolver} : place[t] \in {"out", "in", "ended"}

\* What the two passes of the handler over the interfaces have done so far.
PassInv ==
  /\ step \in {"join", "stopped"} => k \in Iface
  /\ step = "wait" => ~deleting /\ k = 1
  /\ \A i \in Iface : i < k \/ deleting => ~running[i]
  /\ step \in {"join", "stopped"} => ~running[k]
  /\ \A i \in Iface : running[i] \/ Over(i) \/ (step = "join" /\ i = k)

JoinInv ==
  /\ \A i \in Iface : joins[i] <= 1 /\ (running[i] => joins[i] = 0)
  /\ step = "join" => joins[k] = 0

FreedInv ==
  /\ ~deleting => freed = {}
  /\ \A i \in Iface : i \in freed <=> deleting /\ i < k
  /\ step \in {"scripts", "exit"} => deleting /\ k = NumIfaces + 1 /\ Httpd \in freed
  /\ step = "exit" => Redis \in freed
  /\ Redis \in freed => k = NumIfaces + 1 /\ deleting
  /\ Httpd \in freed => k = NumIfaces + 1 /\ deleting

\* After the two seconds no prompt thread is at work, and none starts again.
PromptInv ==
  step # "wait" => \A t \in Prompt \ {handler} : place[t] \notin {"start", "in", "walk"}

ExitInv == exited /\ signals = 1 /\ handler = Main => step = "exit"

IInv ==
  /\ TypeOK /\ HandlerInv /\ PlaceInv /\ PassInv /\ JoinInv /\ FreedInv
  /\ PromptInv /\ ExitInv

-------------------------------------------------------------------------------
USE ShutdownAssumption DEF ShutdownAssumption

LEMMA InitIInv == ShutdownInit => IInv
<1>1. SUFFICES ASSUME ShutdownInit PROVE IInv
  OBVIOUS
<1>2. TypeOK
  <2>1. place \in [Thread -> {"loop", "out", "start"}]
    BY <1>1 DEF ShutdownInit
  <2>2. k \in 1..(NumIfaces + 1) /\ signals \in 0..MaxSignals
    BY <1>1 DEF ShutdownInit
  <2>3. lock \in [Iface -> Thread \cup {NoThread}]
    BY <1>1 DEF ShutdownInit
  <2>4. QED
    BY <1>1, <2>1, <2>2, <2>3 DEF ShutdownInit, TypeOK
<1>3. PlaceInv
  BY <1>1 DEF ShutdownInit, PlaceInv, Thread
<1>4. HandlerInv /\ PromptInv /\ ExitInv
  BY <1>1, <1>3 DEF ShutdownInit, HandlerInv, PromptInv, ExitInv, Thread
<1>5. PassInv /\ JoinInv /\ FreedInv
  BY <1>1 DEF ShutdownInit, PassInv, JoinInv, FreedInv, Iface
<1>6. QED
  BY <1>2, <1>3, <1>4, <1>5 DEF IInv

\* A step of a thread other than the handler: it moves from one place to another, and
\* takes up or begins nothing once the flag is up.
ThreadMove(t, from, to) ==
  /\ Moves(t, from, to) /\ from # "ended"
  /\ UNCHANGED <<shutter, running>>
  /\ to \in {"in", "walk"} => ~flag
  /\ to # "start" /\ (to = "left" => flag)

LEMMA ThreadMoveKeeps ==
  ASSUME IInv, NEW t \in Thread, NEW from, NEW to, ThreadMove(t, from, to),
         TypeOK', PlaceInv'
  PROVE  IInv'
<1>1. /\ place' = [place EXCEPT ![t] = to] /\ place[t] = from /\ from # "ended" /\ handler # t
      /\ UNCHANGED <<flag, called, signals, handler, step, k, deleting, joins, freed, exited, running>>
  BY DEF ThreadMove, Moves, Runs, shutter
<1>2. place \in [Thread -> Inside \cup {"start", "check", "lock", "pause", "pause_lock",
                                    "loop", "left", "out", "ended"}]
  BY DEF IInv, TypeOK
<1>3. HandlerInv'
  BY <1>1, <1>2 DEF IInv, HandlerInv, ThreadMove, Thread
<1>4. PassInv'
  <2>1. \A i \in Iface : Over(i) => Over(i)'
    BY <1>1, <1>2 DEF Over, Thread
  <2>2. QED
    BY <1>1, <2>1 DEF IInv, PassInv
<1>5. PromptInv'
  BY <1>1, <1>2 DEF IInv, PromptInv, HandlerInv, ThreadMove
<1>6. JoinInv' /\ FreedInv' /\ ExitInv'
  BY <1>1 DEF IInv, JoinInv, FreedInv, ExitInv
<1>7. QED
  BY <1>3, <1>4, <1>5, <1>6 DEF IInv

LEMMA ThreadSteps == ASSUME IInv, Others PROVE IInv'
<1> USE DEF IInv
<1>1. ASSUME NEW i \in Iface, StartPoller(i) \/ Check(i) \/ Pause(i) \/ Lock(i) \/ Unlock(i)
      PROVE  IInv'
  <2>1. Poller[i] \in Thread
    BY DEF Thread
  <2>2. PICK from \in {"start", "check", "pause", "lock", "pause_lock", "busy", "pause_busy"},
             to \in {"check", "ended", "pause", "lock", "pause_lock", "busy", "pause_busy"} :
          ThreadMove(Poller[i], from, to)
    BY <1>1 DEF StartPoller, Check, Pause, Lock, Unlock, ThreadMove, shutter
  <2>3. TypeOK'
    <3>1. lock' \in [Iface -> Thread \cup {NoThread}]
      BY <1>1, <2>1 DEF StartPoller, Check, Pause, Lock, Unlock, TypeOK
    <3>2. UNCHANGED paused
      BY <1>1 DEF StartPoller, Check, Pause, Lock, Unlock
    <3>3. QED
      BY <2>1, <2>2, <3>1, <3>2 DEF ThreadMove, Moves, shutter, TypeOK, Inside
  <2>4. PlaceInv'
    BY <2>1, <2>2 DEF ThreadMove, Moves, TypeOK, PlaceInv, Thread
  <2>5. QED
    BY <2>1, <2>2, <2>3, <2>4, ThreadMoveKeeps
<1>2. ASSUME NEW i \in Iface, StartWalk(i) \/ EndWalk(i)
      PROVE  IInv'
  <2>1. Main \in Thread
    BY DEF Thread
  <2>2. \/ ThreadMove(Main, "loop", "walk")
        \/ ThreadMove(Main, "walk", "loop")
    BY <1>2 DEF StartWalk, EndWalk, ThreadMove, shutter
  <2>3. TypeOK'
    <3>1. lock' \in [Iface -> Thread \cup {NoThread}] /\ UNCHANGED paused
      BY <1>2, <2>1 DEF StartWalk, EndWalk, TypeOK
    <3>2. QED
      BY <2>1, <2>2, <3>1 DEF ThreadMove, Moves, shutter, TypeOK, Inside
  <2>4. PlaceInv'
    BY <2>1, <2>2 DEF ThreadMove, Moves, TypeOK, PlaceInv, Thread
  <2>5. QED
    BY <2>1, <2>2, <2>3, <2>4, ThreadMoveKeeps
<1>3. ASSUME NEW i \in Iface, SetIdleState(i)
      PROVE  IInv'
  <2>1. UNCHANGED <<flag, called, signals, handler, step, k, deleting, joins, freed, exited,
                    running, place, lock>>
        /\ paused' \in [Iface -> BOOLEAN]
    BY <1>3 DEF SetIdleState, shutter, TypeOK
  <2>2. QED
    BY <2>1 DEF TypeOK, HandlerInv, PlaceInv, PassInv, JoinInv, FreedInv, PromptInv, ExitInv, Over
<1>4. ASSUME NEW t \in Thread, BeginWork(t) \/ Finish(t) \/ EndLoop(t)
      PROVE  IInv'
  <2>1. PICK from \in {"in", "out"}, to \in {"in", "out", "ended"} : ThreadMove(t, from, to)
    BY <1>4 DEF BeginWork, Finish, EndLoop, ThreadMove, shutter
  <2>2. t \in {Http, Script, Resolver} /\ UNCHANGED <<paused, lock>>
    BY <1>4 DEF BeginWork, Finish, EndLoop
  <2>3. TypeOK'
    BY <2>1, <2>2 DEF ThreadMove, Moves, shutter, TypeOK, Inside
  <2>4. PlaceInv'
    BY <2>1, <2>2 DEF ThreadMove, Moves, TypeOK, PlaceInv, Thread
  <2>5. QED
    BY <2>1, <2>3, <2>4, ThreadMoveKeeps
<1>5. ASSUME LeaveLoop PROVE IInv'
  <2>1. Main \in Thread
    BY DEF Thread
  <2>2. ThreadMove(Main, "loop", "left") /\ UNCHANGED <<paused, lock>>
    BY <1>5 DEF LeaveLoop, ThreadMove, shutter
  <2>3. TypeOK'
    BY <2>1, <2>2 DEF ThreadMove, Moves, shutter, TypeOK, Inside
  <2>4. PlaceInv'
    BY <2>1, <2>2 DEF ThreadMove, Moves, TypeOK, PlaceInv, Thread
  <2>5. QED
    BY <2>1, <2>2, <2>3, <2>4, ThreadMoveKeeps
<1>6. ASSUME SigprocFromMain PROVE IInv'
  <2>1. called /\ handler # Main /\ exited'
        /\ UNCHANGED <<flag, called, signals, handler, step, k, deleting, joins, freed,
                       running, paused, place, lock>>
    BY <1>6 DEF SigprocFromMain, Runs, Sigproc, HandlerInv
  <2>2. TypeOK'
    BY <1>6, <2>1 DEF TypeOK, SigprocFromMain, Sigproc
  <2>3. QED
    BY <2>1, <2>2 DEF HandlerInv, PlaceInv, PassInv, JoinInv, FreedInv, PromptInv, ExitInv, Over
<1>7. QED
  BY <1>1, <1>2, <1>3, <1>4, <1>5, <1>6 DEF Others, Poll

\* A step of sigproc() before Ntop is deleted, and after.
LEMMA HandlerSteps == ASSUME IInv, Handler PROVE IInv'
<1> USE DEF IInv, At
<1>1. ASSUME Wake PROVE IInv'
  <2>1. UNCHANGED <<flag, called, signals, handler, k, deleting, joins, freed, exited,
                    running, paused, place, lock>>
        /\ step = "wait" /\ step' = "stop" /\ handler # NoThread /\ ~exited
    BY <1>1 DEF Wake
  <2>2. PromptInv'
    BY <1>1 DEF Wake, PromptInv
  <2>3. TypeOK'
    BY <2>1 DEF TypeOK
  <2>4. PassInv'
    BY <2>1 DEF PassInv, Over, TypeOK
  <2>5. QED
    BY <2>1, <2>2, <2>3, <2>4 DEF HandlerInv, PlaceInv, JoinInv, FreedInv, ExitInv, TypeOK
<1>2. ASSUME StopIface PROVE IInv'
  <2>1. UNCHANGED <<flag, called, signals, handler, k, deleting, joins, freed, exited,
                    paused, place, lock>>
        /\ step = "stop" /\ k \in Iface /\ ~exited
    BY <1>2 DEF StopIface, TypeOK, Iface
  <2>2. \/ running[k] /\ running' = [running EXCEPT ![k] = FALSE] /\ step' = "join"
        \/ ~running[k] /\ running' = running /\ step' = "stopped"
    BY <1>2 DEF StopIface
  <2>3. TypeOK'
    BY <2>1, <2>2 DEF TypeOK
  <2>4. \A i \in Iface : running'[i] => running[i]
    BY <2>1, <2>2 DEF TypeOK
  <2>5. PassInv'
    BY <2>1, <2>2, <2>4 DEF PassInv, Over, TypeOK, HandlerInv
  <2>6. JoinInv'
    BY <2>1, <2>2, <2>4 DEF JoinInv
  <2>7. PromptInv' /\ FreedInv' /\ ExitInv'
    BY <2>1, <2>2 DEF PromptInv, FreedInv, ExitInv
  <2>8. QED
    BY <2>1, <2>2, <2>3, <2>5, <2>6, <2>7 DEF HandlerInv, PlaceInv
<1>3. ASSUME Join PROVE IInv'
  <2>1. /\ UNCHANGED <<flag, called, signals, handler, k, deleting, freed, exited,
                       running, paused, place, lock>>
        /\ step = "join" /\ step' = "stopped" /\ k \in Iface /\ ~exited /\ Over(k)
        /\ joins' = [joins EXCEPT ![k] = @ + 1]
    BY <1>3 DEF Join, PassInv, Over
  <2>2. TypeOK'
    BY <2>1 DEF TypeOK
  <2>3. PassInv'
    BY <2>1 DEF PassInv, Over
  <2>4. JoinInv'
    BY <2>1 DEF JoinInv, PassInv, TypeOK
  <2>5. QED
    BY <2>1, <2>2, <2>3, <2>4 DEF HandlerInv, PlaceInv, PromptInv, FreedInv, ExitInv
<1>4. ASSUME NextIface PROVE IInv'
  <2>1. /\ UNCHANGED <<flag, called, signals, handler, deleting, joins, exited,
                       running, paused, place, lock>>
        /\ step = "stopped" /\ step' = "stop" /\ k \in Iface /\ k' = k + 1 /\ ~exited
        /\ freed' = IF deleting THEN freed \cup {k} ELSE freed
    BY <1>4 DEF NextIface, PassInv
  <2>2. TypeOK'
    <3>1. k' \in 1..(NumIfaces + 1)
      BY <2>1 DEF Iface
    <3>2. freed' \subseteq Object
      BY <2>1 DEF TypeOK, Object
    <3>3. QED
      BY <2>1, <3>1, <3>2 DEF TypeOK
  <2>3. PassInv'
    BY <2>1 DEF PassInv, Over, Iface
  <2>4. FreedInv'
    BY <2>1 DEF FreedInv, Iface
  <2>5. QED
    BY <2>1, <2>2, <2>3, <2>4 DEF HandlerInv, PlaceInv, JoinInv, PromptInv, ExitInv
<1>5. ASSUME StartDelete PROVE IInv'
  <2>1. /\ UNCHANGED <<flag, called, signals, handler, step, joins, freed, exited,
                       running, paused, place, lock>>
        /\ step = "stop" /\ k = NumIfaces + 1 /\ k' = 1 /\ deleting' /\ ~deleting /\ ~exited
    BY <1>5 DEF StartDelete, TypeOK
  <2>2. TypeOK'
    BY <2>1 DEF TypeOK
  <2>3. PassInv'
    BY <2>1 DEF PassInv, Over, Iface
  <2>4. FreedInv'
    BY <2>1 DEF FreedInv, Iface
  <2>5. QED
    BY <2>1, <2>2, <2>3, <2>4 DEF HandlerInv, PlaceInv, JoinInv, PromptInv, ExitInv
<1>6. ASSUME DeleteRest PROVE IInv'
  <2>1. /\ UNCHANGED <<flag, called, signals, handler, k, deleting, joins, running, paused, place, lock>>
        /\ ~exited /\ handler # NoThread
    BY <1>6 DEF DeleteRest
  <2>2. \/ /\ step = "stop" /\ k = NumIfaces + 1 /\ deleting
           /\ freed' = freed \cup {Httpd} /\ step' = "scripts" /\ UNCHANGED exited
        \/ /\ step = "scripts" /\ freed' = freed \cup {Redis} /\ step' = "exit" /\ UNCHANGED exited
        \/ /\ step = "exit" /\ exited' = TRUE /\ UNCHANGED <<freed, step>>
    BY <1>6 DEF DeleteRest, TypeOK
  <2>3. TypeOK'
    BY <2>1, <2>2 DEF TypeOK, Object
  <2>4. PassInv'
    BY <2>1, <2>2 DEF PassInv, Over
  <2>5. FreedInv'
    BY <2>1, <2>2 DEF FreedInv
  <2>6. QED
    BY <2>1, <2>2, <2>3, <2>4, <2>5 DEF HandlerInv, PlaceInv, JoinInv, PromptInv, ExitInv
<1>7. QED
  BY <1>1, <1>2, <1>3, <1>4, <1>5, <1>6 DEF Handler

LEMMA SignalSteps == ASSUME IInv, NEW t \in Thread, Signal(t) PROVE IInv'
<1> USE DEF IInv
<1>1. UNCHANGED <<running, paused, place, lock>> /\ signals' = signals + 1
      /\ ~exited /\ signals < MaxSignals
  BY DEF Signal
<1>2. CASE called
  <2>1. UNCHANGED <<flag, called, handler, step, k, deleting, joins, freed>> /\ exited'
    BY <1>2 DEF Signal, Sigproc
  <2>2. TypeOK'
    BY <1>1, <2>1 DEF TypeOK
  <2>3. signals' \in Nat /\ signals' >= 2
    BY <1>1, <1>2 DEF HandlerInv, TypeOK
  <2>4. ExitInv'
    BY <2>3 DEF ExitInv
  <2>5. HandlerInv'
    <3>1. signals' >= 1
      BY <2>3
    <3>2. QED
      BY <1>1, <2>1, <3>1 DEF HandlerInv
  <2>6. QED
    BY <1>1, <2>1, <2>2, <2>4, <2>5 DEF PlaceInv, PassInv, JoinInv, FreedInv, PromptInv, Over
<1>3. CASE ~called
  <2>1. /\ called' /\ flag' /\ handler' = t /\ step' = "wait" /\ k' = 1
        /\ UNCHANGED <<deleting, joins, freed, exited>>
    BY <1>3 DEF Signal, Sigproc
  <2>2. step = "wait" /\ handler = NoThread
    BY <1>3 DEF HandlerInv, TypeOK
  <2>3. TypeOK'
    BY <1>1, <2>1 DEF TypeOK
  <2>4. HandlerInv'
    BY <1>1, <2>1 DEF HandlerInv, TypeOK
  <2>5. PassInv'
    <3>1. \A i \in Iface : Over(i) => Over(i)'
      BY <1>1, <2>2 DEF Over, Thread
    <3>2. QED
      BY <1>1, <2>1, <2>2, <3>1 DEF PassInv
  <2>6. QED
    BY <1>1, <2>1, <2>2, <2>3, <2>4, <2>5
       DEF PlaceInv, PassInv, JoinInv, FreedInv, PromptInv, ExitInv
<1>4. QED
  BY <1>2, <1>3

LEMMA Inductive == ShutdownSpec => []IInv
<1>1. IInv /\ [ShutdownNext]_shutdownVars => IInv'
  <2>1. ASSUME IInv, UNCHANGED shutdownVars PROVE IInv'
    BY <2>1 DEF shutdownVars, shutter, IInv, TypeOK, HandlerInv, PlaceInv, PassInv, JoinInv, FreedInv,
                PromptInv, ExitInv, Over
  <2>2. QED
    BY <2>1, ThreadSteps, HandlerSteps, SignalSteps DEF ShutdownNext
<1>2. QED
  BY <1>1, InitIInv, PTL DEF ShutdownSpec

-------------------------------------------------------------------------------
LEMMA FreedIsOver == ASSUME IInv PROVE \A i \in Iface \cap freed : Over(i)
<1>1. SUFFICES ASSUME NEW i \in Iface, i \in freed PROVE Over(i)
  OBVIOUS
<1>2. deleting /\ i < k
  BY <1>1 DEF IInv, FreedInv
<1>3. ~running[i] /\ i # k
  BY <1>1, <1>2 DEF IInv, PassInv, TypeOK, Iface
<1>4. QED
  BY <1>3 DEF IInv, PassInv

\* The types of the flags, the stages and the sets hold of every number of interfaces.
THEOREM TypeCorrect == ShutdownSpec => []TypeOK
<1>1. IInv => TypeOK
  BY DEF IInv
<1>2. QED
  BY <1>1, Inductive, PTL

\* An interface is deleted only after its poller has ended or while it is interrupted for
\* good, and nobody joins a poller twice, though ~Ntop() shuts every interface down again.
THEOREM PollersOutlived == ShutdownSpec => []DeletedAfterPolling
<1>1. IInv => DeletedAfterPolling
  BY FreedIsOver DEF IInv, JoinInv, DeletedAfterPolling, Over
<1>2. QED
  BY <1>1, Inductive, PTL

\* If walks of the main thread, requests, scripts and resolutions end within the two seconds
\* of the handler's sleep, nothing that a running thread uses is deleted under it. The pollers
\* need no such hypothesis: they are joined.
THEOREM SafeDeletion ==
  ASSUME {Main, Http, Script, Resolver} \subseteq Prompt
  PROVE  ShutdownSpec => []NothingUsedFreed
<1>1. IInv => NothingUsedFreed
  <2>1. SUFFICES ASSUME IInv, NEW t \in Thread, ~exited, handler # t, place[t] \in Inside
                 PROVE  Uses(t) \cap freed = {}
    BY DEF NothingUsedFreed, Runs
  <2>2. CASE t \in {Main, Http, Script, Resolver}
    <3>1. step = "wait"
      BY <2>1, <2>2 DEF IInv, PlaceInv, PromptInv, Inside
    <3>2. QED
      BY <2>1, <3>1 DEF IInv, PassInv, FreedInv
  <2>3. CASE t \notin {Main, Http, Script, Resolver}
    <3>1. \A i \in Iface : Poller[i] = t => i \notin freed
      BY <2>1, <2>3, FreedIsOver DEF Over, Inside
    <3>2. PICK i \in Iface : Poller[i] = t
      BY <2>1, <2>3 DEF Thread
    <3>3. Redis \notin freed
      BY <3>1, <3>2, <2>1 DEF IInv, FreedInv, Iface
    <3>4. QED
      BY <2>3, <3>1, <3>3 DEF Uses
  <2>4. QED
    BY <2>2, <2>3
<1>2. QED
  BY <1>1, Inductive, PTL

\* When one signal comes and the main thread takes it, the process is left only after every
\* interface, the web server and the Redis client are deleted.
THEOREM MainExitsInOrder == ShutdownSpec => []OrderlyExit
<1>1. IInv => OrderlyExit
  BY DEF IInv, ExitInv, FreedInv, OrderlyExit, Object, Iface
<1>2. QED
  BY <1>1, Inductive, PTL
===============================================================================
