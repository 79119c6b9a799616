----------------------------- MODULE HostContacts -----------------------------
(***************************************************************************)
(* The contacts of the local hosts and their way to the data base of a     *)
(* day: two arrays of slots in each host, the counts of the day in Redis   *)
(* under numbers that stand for hosts (host_to_id), and the nightly dump   *)
(* that turns the counts of yesterday into rows of an SQLite file.         *)
(* Two threads: the poller of the interface, which counts contacts and     *)
(* frees hosts, and the daily script, which flushes every host and dumps.  *)
(* A thread is the list of what it has left to do; each Redis command is   *)
(* one critical section of the connection, hence one step.                 *)
(*                                                                         *)
(* met, overlap and late are history variables.                            *)
(***************************************************************************)
EXTENDS Integers, Sequences, FiniteSets, FiniteSetsExt, Functions

CONSTANTS
  Addr,         \* addresses of hosts
  NoAddr,       \* an empty slot
  Present,      \* hosts of the table at the start
  Confirmed,    \* those whose number is in the hash of today
  Slots,        \* MAX_NUM_HOST_CONTACTS
  Aggregated,   \* names that stand for many hosts (StringHost)
  Recorded,     \* the addresses the dump policy of the preferences takes
  MaxContacts,  \* bounds the flows created
  MaxRounds,    \* bounds the flushes and the hosts created and freed
  MaxLost       \* bounds the look-ups whose reply does not come

ASSUME ContactsAssumption ==
  /\ NoAddr \notin Addr /\ Recorded \subseteq Addr /\ IsFiniteSet(Addr)
  /\ Aggregated \subseteq Addr /\ Present \ Aggregated \subseteq Recorded /\ Confirmed \subseteq Present \ Aggregated
  /\ Slots \in Nat \ {0}
  /\ MaxContacts \in Nat /\ MaxRounds \in Nat /\ MaxLost \in Nat

Thread == {"packets", "script"}
Day == 1..2
Mode == {"client", "server"}     \* clientContacts and serverContacts
Empty == [peer |-> NoAddr, n |-> 0]

VARIABLES
  alive,    \* addresses and names with an object in the tables
  tracked,  \* aggregated hosts kept on disk
  slots,    \* the two arrays of each host
  serial,   \* host_serial, 0 when it has none
  ids,      \* "<day>.hostkeys", from host to number; 0 when it has none
  names,    \* the same hash, from number to host
  counts,   \* the hashes "<day>|<interface>|<number>|<direction>"
  nextId,   \* NTOP_HOSTS_SERIAL
  day,      \* the date
  work,     \* what each thread has left to do
  reg,      \* the number a thread holds in id or peer_serial
  todo,     \* the keys the dump has left; what KEYS answered
  rows,     \* the rows of the table "contacts"
  met,      \* how often each pair met, client first
  overlap,  \* hosts whose slots one thread changed while the other used them
  late,     \* keys of a day written after its dump began
  budget    \* contacts, rounds and lost replies so far

store == <<ids, names, counts, nextId>>
memory == <<alive, tracked, slots, serial>>
dump == <<todo, rows, late>>
vars == <<memory, store, day, work, reg, dump, met, overlap, budget>>

\* HSET: a field of a hash of Redis takes a value.
HashSet(hash, field, value) ==
  [f \in DOMAIN hash \cup {field} |-> IF f = field THEN value ELSE hash[f]]

Other(t) == IF t = "packets" THEN "script" ELSE "packets"

\* The commands a thread may have left; fields a command does not use are fillers.
Do(c, h, p, mode, i, me, asClient, d) ==
  [cmd |-> c, host |-> h, peer |-> p, mode |-> mode, slot |-> i,
   me |-> me, asClient |-> asClient, day |-> d]
HostToId(p, d) == Do("id", NoAddr, p, "client", 0, 0, TRUE, d)
SetHostId(p, d) == << Do("forth", NoAddr, p, "client", 0, 0, TRUE, d),
                      Do("back", NoAddr, p, "client", 0, 0, TRUE, d) >>

\* dbDumpHost() for the peer of a slot and for the host itself.
DumpPair(h, mode, i, me, asClient, d) ==
  << Do("peer", h, slots[h][mode][i].peer, mode, i, me, asClient, d),
     Do("count", h, slots[h][mode][i].peer, mode, i, me, asClient, d),
     Do("reverse", h, NoAddr, mode, i, me, ~asClient, d) >>

Call(c, h) == << Do(c, h, NoAddr, "client", 0, 0, TRUE, 1) >>

\* Mutant: the slots are purged before they are dumped.
FlushPurgeFirst(h, free) == Call("purge", h) \o Call("dump", h) \o Call("serial", h)

\* flushContacts() of a host, and of an aggregated one that is kept on disk.
Flush(h, free) ==
  IF h \notin Aggregated
  THEN Call("dump", h) \o Call("purge", h) \o IF free THEN <<>> ELSE Call("serial", h)
  ELSE IF h \notin tracked THEN <<>>
  ELSE (IF serial[h] = 0 THEN Call("serial", h) ELSE <<>>)
       \o Call("dump", h) \o Call("purge", h) \o IF free THEN <<>> ELSE Call("serial", h)

Busy(t, h) == \E k \in DOMAIN work[t] : work[t][k].host = h

\* One thread writes the slots of a host while the other is not done with it.
Touch(t, h) == overlap' = IF Busy(Other(t), h) THEN overlap \cup {h} ELSE overlap
-----------------------------------------------------------------------------

\* The slot that takes a contact with p: the first one that is empty or p's.
Room(array, p) == { i \in 1..Slots : array[i].n = 0 \/ array[i].peer = p }

\* least_idx: the first of the slots with the fewest contacts.
Least(array) ==
  CHOOSE i \in 1..Slots : \A j \in 1..Slots :
    array[i].n < array[j].n \/ (array[i].n = array[j].n /\ i <= j)

\* incrIPContacts() when there is room.
PutContact(array, p) ==
  LET i == Min(Room(array, p))
  IN  [array EXCEPT ![i] = [peer |-> p, n |-> array[i].n + 1]]

\* incrIPContacts(): the least slot is dumped before the peer takes it.
IncrIPContacts(t) ==
  LET c == Head(work[t])
      array == slots[c.host][c.mode]
      i == Least(array)
  IN  /\ c.cmd = "contact"
      /\ IF Room(array, c.peer) # {}
         THEN /\ slots' = [slots EXCEPT ![c.host][c.mode] = PutContact(array, c.peer)]
              /\ work' = [work EXCEPT ![t] = Tail(@)]
              /\ Touch(t, c.host)
         ELSE /\ work' = [work EXCEPT ![t] =
                   (IF array[i].peer \in Recorded /\ serial[c.host] > 0
                    THEN DumpPair(c.host, c.mode, i, serial[c.host], c.mode = "client", day)
                    ELSE <<>>)
                   \o << [c EXCEPT !.cmd = "replace", !.slot = i] >> \o Tail(@)]
              /\ UNCHANGED <<slots, overlap>>
      /\ UNCHANGED <<alive, tracked, serial, store, day, reg, dump, met, budget>>

ReplaceSlot(t) ==
  LET c == Head(work[t])
  IN  /\ c.cmd = "replace"
      /\ slots' = [slots EXCEPT ![c.host][c.mode][c.slot] = [peer |-> c.peer, n |-> 1]]
      /\ Touch(t, c.host)
      /\ work' = [work EXCEPT ![t] = Tail(@)]
      /\ UNCHANGED <<alive, tracked, serial, store, day, reg, dump, met, budget>>
\* get_num_contacts_by(): the loop ends at the first empty slot.
NumContactsBy(h, p) ==
  LET array == slots[h]["client"]
  IN  MapThenSumSet(LAMBDA i : array[i].n,
        { i \in 1..Slots : array[i].peer = p /\ \A j \in 1..i : array[j].n > 0 })
-----------------------------------------------------------------------------
\* dbDumpAllHosts() at a slot: the loop ends at the first empty client slot, and
\* the peers of the server array are written as clients too.
DbDumpAllHosts(t) ==
  LET c == Head(work[t])
      array == slots[c.host]
      Written(mode) ==
        IF array[mode][c.slot].n > 0 /\ array[mode][c.slot].peer \in Recorded
        THEN DumpPair(c.host, mode, c.slot, c.me, TRUE, c.day) ELSE <<>>
  IN  /\ c.cmd \in {"all", "allServer"}
      /\ work' = [work EXCEPT ![t] =
           (IF c.cmd = "allServer"
            THEN Written("server") \o << [c EXCEPT !.cmd = "all", !.slot = @ + 1] >>
            ELSE IF c.slot > Slots \/ array["client"][c.slot].n = 0 THEN <<>>
            ELSE Written("client") \o << [c EXCEPT !.cmd = "allServer"] >>) \o Tail(@)]
      /\ UNCHANGED <<memory, store, day, reg, dump, met, overlap, budget>>

\* dumpHostContacts(): the date and the number of the host are taken now.
DumpHostContacts(t) ==
  LET c == Head(work[t])
  IN  /\ c.cmd = "dump"
      /\ work' = [work EXCEPT ![t] =
           << Do("all", c.host, NoAddr, "client", 1, serial[c.host], TRUE, day) >> \o Tail(@)]
      /\ UNCHANGED <<memory, store, day, reg, dump, met, overlap, budget>>

\* purgeAll(), which takes no lock.
PurgeAll(t) ==
  LET c == Head(work[t])
  IN  /\ c.cmd = "purge"
      /\ slots' = [slots EXCEPT ![c.host] = [mode \in Mode |-> [i \in 1..Slots |-> Empty]]]
      /\ Touch(t, c.host)
      /\ work' = [work EXCEPT ![t] = Tail(@)]
      /\ UNCHANGED <<alive, tracked, serial, store, day, reg, dump, met, budget>>

\* Host::computeHostSerial(): a number is confirmed for the day, or asked for.
HostSerial(t) ==
  LET c == Head(work[t])
  IN  /\ c.cmd = "serial"
      /\ IF c.host \notin Recorded \cup Aggregated
         THEN work' = [work EXCEPT ![t] = Tail(@)] /\ UNCHANGED reg
         ELSE IF serial[c.host] # 0
         THEN /\ reg' = [reg EXCEPT ![t] = serial[c.host]]
              /\ work' = [work EXCEPT ![t] = SetHostId(c.host, day) \o Tail(@)]
         ELSE /\ work' = [work EXCEPT ![t] =
                   << HostToId(c.host, day), [c EXCEPT !.cmd = "own"] >> \o Tail(@)]
              /\ UNCHANGED reg
      /\ UNCHANGED <<memory, store, day, dump, met, overlap, budget>>

OwnSerial(t) ==
  LET c == Head(work[t])
  IN  /\ c.cmd = "own"
      /\ serial' = [serial EXCEPT ![c.host] = reg[t]]
      /\ work' = [work EXCEPT ![t] = Tail(@)]
      /\ UNCHANGED <<alive, tracked, slots, store, day, reg, dump, met, overlap, budget>>

\* The new host enters the table when it is complete.
LinkHost(t) ==
  LET c == Head(work[t])
  IN  /\ c.cmd = "link"
      /\ alive' = alive \cup {c.host}
      /\ work' = [work EXCEPT ![t] = Tail(@)]
      /\ UNCHANGED <<tracked, slots, serial, store, day, reg, dump, met, overlap, budget>>

\* The end of ~Host().
FreeHost(t) ==
  LET c == Head(work[t])
  IN  /\ c.cmd = "free"
      /\ alive' = alive \ {c.host} /\ tracked' = tracked \ {c.host}
      /\ serial' = [serial EXCEPT ![c.host] = 0]
      /\ slots' = [slots EXCEPT ![c.host] = [mode \in Mode |-> [i \in 1..Slots |-> Empty]]]
      /\ work' = [work EXCEPT ![t] = Tail(@)]
      /\ UNCHANGED <<store, day, reg, dump, met, overlap, budget>>
-----------------------------------------------------------------------------
\* host_to_id(): the look-up.  A reply that does not come reads as "not found".
LookUp(t) ==
  LET c == Head(work[t])
      known == ids[c.day][c.peer]
  IN  /\ c.cmd \in {"id", "peer"}
      /\ \/ /\ known # 0
            /\ reg' = [reg EXCEPT ![t] = known]
            /\ work' = [work EXCEPT ![t] = Tail(@)]
            /\ UNCHANGED budget
         \/ /\ known = 0 \/ budget.lost < MaxLost
            /\ budget' = IF known = 0 THEN budget ELSE [budget EXCEPT !.lost = @ + 1]
            /\ work' = [work EXCEPT ![t] = << [c EXCEPT !.cmd = "incr"] >>
                          \o SetHostId(c.peer, c.day) \o Tail(@)]
            /\ UNCHANGED reg
      /\ UNCHANGED <<memory, store, day, dump, met, overlap>>

\* Mutant: the next number is read here and written with the host.
IncrKeyRead(t) ==
  LET c == Head(work[t])
  IN  /\ c.cmd = "incr"
      /\ reg' = [reg EXCEPT ![t] = Max({serial[h] : h \in Addr}
                                       \cup {ids[d][h] : d \in Day, h \in Addr}) + 1]
      /\ nextId' = nextId + 1
      /\ work' = [work EXCEPT ![t] = Tail(@)]
      /\ UNCHANGED <<memory, ids, names, counts, day, dump, met, overlap, budget>>

IncrKey(t) ==
  LET c == Head(work[t])
  IN  /\ c.cmd = "incr"
      /\ nextId' = nextId + 1
      /\ reg' = [reg EXCEPT ![t] = nextId + 1]
      /\ work' = [work EXCEPT ![t] = Tail(@)]
      /\ UNCHANGED <<memory, ids, names, counts, day, dump, met, overlap, budget>>

\* The keys of a day whose dump has begun.
Dumping(d) == d < day /\ rows.begun

\* setHostId(): forth, and in another critical section back.
SetForth(t) ==
  LET c == Head(work[t])
  IN  /\ c.cmd = "forth"
      /\ ids' = [ids EXCEPT ![c.day][c.peer] = reg[t]]
      /\ late' = IF Dumping(c.day) THEN late \cup {reg[t]} ELSE late
      /\ work' = [work EXCEPT ![t] = Tail(@)]
      /\ UNCHANGED <<memory, names, counts, nextId, day, reg, todo, rows, met, overlap, budget>>

SetBack(t) ==
  LET c == Head(work[t])
  IN  /\ c.cmd = "back"
      /\ names' = [names EXCEPT ![c.day] = HashSet(@, reg[t], c.peer)]
      /\ late' = IF Dumping(c.day) THEN late \cup {reg[t]} ELSE late
      /\ work' = [work EXCEPT ![t] = Tail(@)]
      /\ UNCHANGED <<memory, ids, counts, nextId, day, reg, todo, rows, met, overlap, budget>>

\* incrHostContacts() under the key of one of the two hosts, with the number of
\* contacts the slot holds now.
IncrHostContacts(t) ==
  LET c == Head(work[t])
      n == slots[c.host][c.mode][c.slot].n
      key == IF c.cmd = "count" THEN c.me ELSE reg[t]
      field == IF c.cmd = "count" THEN reg[t] ELSE c.me
      entry == <<key, c.asClient, field>>
      old == counts[c.day]
  IN  /\ c.cmd \in {"count", "reverse"}
      /\ counts' = [counts EXCEPT ![c.day] =
           HashSet(old, entry, (IF entry \in DOMAIN old THEN old[entry] ELSE 0) + n)]
      /\ late' = IF Dumping(c.day) THEN late \cup {key} ELSE late
      /\ work' = [work EXCEPT ![t] = Tail(@)]
      /\ UNCHANGED <<memory, ids, names, nextId, day, reg, todo, rows, met, overlap, budget>>
-----------------------------------------------------------------------------
Key(d) == { <<e[1], e[2]>> : e \in DOMAIN counts[d] }

\* dumpDailyStatsKeys(): one direction of a key.  After the first contact hash_key
\* names another hash, so the others are not found.
Direction(key, asClient) ==
  LET fields == { e \in DOMAIN counts[1] : e[1] = key[1] /\ e[2] = asClient }
  IN  IF fields = {} THEN {{}}
      ELSE { { [client |-> IF asClient THEN e[1] ELSE e[3],
                server |-> IF asClient THEN e[3] ELSE e[1], n |-> counts[1][e]] } : e \in fields }

BeginDump ==
  /\ day = 2 /\ ~rows.begun /\ work["script"] = <<>>
  /\ rows' = [rows EXCEPT !.begun = TRUE]
  /\ todo' = Key(1)
  /\ UNCHANGED <<memory, store, day, work, reg, late, met, overlap, budget>>

\* Mutant: DEL of hash_key, which names another hash once a contact was written.
DumpKeyHashKey ==
  /\ \E key \in todo :
       /\ \E by \in Direction(key, FALSE), of \in Direction(key, TRUE) :
            /\ rows' = [rows EXCEPT !.contacts = @ \cup by \cup of,
                                    !.hosts = @ \cup ({key[1]} \cap DOMAIN names[1])]
            /\ counts' = IF by \cup of # {} THEN counts ELSE
                 [counts EXCEPT ![1] =
                   [e \in { x \in DOMAIN @ : <<x[1], x[2]>> # key } |-> @[e]]]
       /\ todo' = todo \ {key}
  /\ UNCHANGED <<memory, ids, names, nextId, day, work, reg, late, met, overlap, budget>>

\* The rows of a key, its two directions, and DEL of the key KEYS answered.
DumpKey ==
  /\ \E key \in todo :
       /\ \E by \in Direction(key, FALSE), of \in Direction(key, TRUE) :
            rows' = [rows EXCEPT !.contacts = @ \cup by \cup of,
                                 !.hosts = @ \cup ({key[1]} \cap DOMAIN names[1])]
       /\ counts' = [counts EXCEPT ![1] =
            [e \in { x \in DOMAIN @ : <<x[1], x[2]>> # key } |-> @[e]]]
       /\ todo' = todo \ {key}
  /\ UNCHANGED <<memory, ids, names, nextId, day, work, reg, late, met, overlap, budget>>

EndDump ==
  /\ rows.begun /\ ~rows.done /\ todo = {}
  /\ rows' = [rows EXCEPT !.done = TRUE]
  /\ ids' = [ids EXCEPT ![1] = [h \in Addr |-> 0]]
  /\ names' = [names EXCEPT ![1] = <<>>]
  /\ UNCHANGED <<memory, counts, nextId, day, work, reg, todo, late, met, overlap, budget>>

InDump == rows.begun /\ ~rows.done
-----------------------------------------------------------------------------
\* initialize() of a host whose address has none.
NewHost(h) ==
  /\ h \notin alive /\ work["packets"] = <<>> /\ budget.rounds < MaxRounds
  /\ work' = [work EXCEPT !["packets"] =
       (IF h \in Aggregated THEN <<>> ELSE Call("serial", h)) \o Call("link", h)]
  /\ budget' = [budget EXCEPT !.rounds = @ + 1]
  /\ UNCHANGED <<memory, store, day, reg, dump, met, overlap>>

\* Flow::Flow() with both hosts: each counts the other.
NewFlow(cli, srv) ==
  /\ {cli, srv} \subseteq alive \ Aggregated /\ cli # srv /\ work["packets"] = <<>>
  /\ budget.contacts < MaxContacts
  /\ work' = [work EXCEPT !["packets"] =
       << Do("contact", cli, srv, "client", 0, 0, TRUE, 1),
          Do("contact", srv, cli, "server", 0, 0, TRUE, 1) >>]
  /\ met' = [met EXCEPT ![<<cli, srv>>] = @ + 1]
  /\ budget' = [budget EXCEPT !.contacts = @ + 1]
  /\ UNCHANGED <<memory, store, day, reg, dump, overlap>>

\* Flow::aggregateInfo() of a name that has its object: it is asked for a number if
\* it has none, whether it is to be kept or not, and counts the client.
AggregateInfo(s, cli, track) ==
  /\ s \in alive \cap Aggregated /\ cli \in alive \ Aggregated /\ work["packets"] = <<>>
  /\ budget.contacts < MaxContacts
  /\ tracked' = IF track THEN tracked \cup {s} ELSE tracked \ {s}
  /\ work' = [work EXCEPT !["packets"] =
       (IF serial[s] = 0 THEN Call("serial", s) ELSE <<>>)
       \o << Do("contact", s, cli, "client", 0, 0, TRUE, 1) >>]
  /\ met' = [met EXCEPT ![<<s, cli>>] = @ + 1]
  /\ budget' = [budget EXCEPT !.contacts = @ + 1]
  /\ UNCHANGED <<alive, slots, serial, store, day, reg, dump, overlap>>

\* ~Host(): the sweep and the walk of the script lock the same bucket.
RetireHost(h) ==
  /\ h \in alive /\ work["packets"] = <<>> /\ ~Busy("script", h)
  /\ budget.rounds < MaxRounds
  /\ work' = [work EXCEPT !["packets"] =
       (IF h \in Aggregated THEN Flush(h, TRUE) ELSE Call("dump", h)) \o Call("free", h)]
  /\ budget' = [budget EXCEPT !.rounds = @ + 1]
  /\ UNCHANGED <<memory, store, day, reg, dump, met, overlap>>

\* Host::flushContacts(false), called for each host by flushHostContacts().
FlushContacts(h) ==
  /\ h \in alive /\ work["script"] = <<>> /\ ~InDump
  /\ \A k \in DOMAIN work["packets"] :
        work["packets"][k].host = h => work["packets"][k].cmd # "free"
  /\ budget.rounds < MaxRounds
  /\ work' = [work EXCEPT !["script"] = Flush(h, FALSE)]
  /\ budget' = [budget EXCEPT !.rounds = @ + 1]
  /\ UNCHANGED <<memory, store, day, reg, dump, met, overlap>>

Midnight ==
  /\ day = 1 /\ day' = 2
  /\ UNCHANGED <<memory, store, work, reg, dump, met, overlap, budget>>

\* The hosts present have numbers of an earlier day; those confirmed have them in
\* the hash of today.  One of them may hold contacts already (deserialize()).
Init ==
  /\ alive = Present /\ tracked = {}
  /\ \E h \in Present \ Aggregated, k \in 0..Slots : \E peers \in Injection(1..k, Addr \ (Aggregated \cup {h})) :
       /\ slots = [g \in Addr |-> [mode \in Mode |-> [i \in 1..Slots |->
                    IF g = h /\ mode = "client" /\ i <= k
                    THEN [peer |-> peers[i], n |-> 1] ELSE Empty]]]
       /\ met = [pair \in Addr \X Addr |->
                   IF pair[1] = h /\ \E i \in 1..k : pair[2] = peers[i] THEN 1 ELSE 0]
  /\ nextId = Cardinality(Present \ Aggregated)
  /\ \E number \in Bijection(Present \ Aggregated, 1..nextId) :
       /\ serial = [h \in Addr |-> IF h \in Present \ Aggregated THEN number[h] ELSE 0]
       /\ ids = [d \in Day |-> [h \in Addr |->
                   IF d = 1 /\ h \in Confirmed THEN number[h] ELSE 0]]
       /\ names = [d \in Day |-> IF d = 2 THEN <<>> ELSE
                   [i \in { number[h] : h \in Confirmed } |->
                      CHOOSE h \in Confirmed : number[h] = i]]
  /\ counts = [d \in Day |-> <<>>] /\ day = 1
  /\ work = [t \in Thread |-> <<>>] /\ reg = [t \in Thread |-> 0]
  /\ todo = {} /\ rows = [begun |-> FALSE, done |-> FALSE, contacts |-> {}, hosts |-> {}]
  /\ late = {} /\ overlap = {}
  /\ budget = [contacts |-> 0, rounds |-> 0, lost |-> 0]

Step(t) ==
  /\ work[t] # <<>>
  /\ \/ IncrIPContacts(t) \/ ReplaceSlot(t) \/ DumpHostContacts(t) \/ DbDumpAllHosts(t) \/ PurgeAll(t)
     \/ HostSerial(t) \/ OwnSerial(t) \/ LinkHost(t) \/ FreeHost(t) \/ LookUp(t) \/ IncrKey(t)
     \/ SetForth(t) \/ SetBack(t) \/ IncrHostContacts(t)

Next ==
  \/ \E t \in Thread : Step(t)
  \/ \E h \in Addr : NewHost(h) \/ RetireHost(h) \/ FlushContacts(h)
  \/ \E cli, srv \in Addr : NewFlow(cli, srv)
  \/ \E s, cli \in Addr, track \in BOOLEAN : AggregateInfo(s, cli, track)
  \/ BeginDump \/ DumpKey \/ EndDump \/ Midnight

Spec == Init /\ [][Next]_vars
-----------------------------------------------------------------------------
Slot == [peer : Addr \cup {NoAddr}, n : Nat]

\* Types of the state; a number is never asked for beyond nextId.
TypeOK ==
  /\ alive \subseteq Addr /\ tracked \subseteq alive \cap Aggregated /\ overlap \subseteq Addr
  /\ slots \in [Addr -> [Mode -> [1..Slots -> Slot]]]
  /\ serial \in [Addr -> 0..nextId] /\ ids \in [Day -> [Addr -> 0..nextId]]
  /\ \A d \in Day : \A i \in DOMAIN names[d] : i \in 1..nextId /\ names[d][i] \in Addr
  /\ \A d \in Day : \A e \in DOMAIN counts[d] : counts[d][e] \in Nat
  /\ reg \in [Thread -> 0..nextId] /\ day \in Day

NumbersOf(h) == ({serial[h]} \cup {ids[d][h] : d \in Day}) \ {0}
Named(h) == NumbersOf(h) \cup { i \in 1..nextId : \E d \in Day :
                                  i \in DOMAIN names[d] /\ names[d][i] = h }
Quiet == \A t \in Thread : work[t] = <<>>

\* host_to_id() makes a number in four commands and two threads may make two for
\* one host; a number never stands for two hosts, in Redis, in a host, or over days.
NumbersNameOneHost ==
  \A h1, h2 \in Addr : h1 # h2 => Named(h1) \cap Named(h2) = {}

\* The loops of dbDumpAllHosts() and get_num_contacts_by() end at the first empty
\* slot, and the look-up stops at the first that fits: in a host whose slots were
\* not changed by two threads at once, the used client slots come first, one a peer.
SlotsArePrefix ==
  \A h \in Addr \ overlap, mode \in Mode : \A i, j \in 1..Slots :
    LET array == slots[h][mode]
    IN  i < j /\ array[j].n > 0 => array[i].n > 0 /\ array[i].peer # array[j].peer

Stored(a, b) ==
  MapThenSumSet(LAMBDA d :
    MapThenSumSet(LAMBDA e : counts[d][e],
      { e \in DOMAIN counts[d] : e[1] \in Named(a) /\ e[2] /\ e[3] \in Named(b) }), Day)

\* Eviction, flush, the end of a host and the change of the day keep every contact
\* of a client: it is in a slot or in the counts of a day, until the dump takes them.
ContactsKept ==
  Quiet /\ ~rows.begun =>
    \A a \in Recorded \ (overlap \cup Aggregated), b \in Recorded : met[<<a, b>>] <= Stored(a, b) + NumContactsBy(a, b)

\* The dump leaves nothing of its day but what a thread that had taken the date
\* before midnight wrote after KEYS was answered.
DayForgotten ==
  rows.done => /\ \A e \in DOMAIN counts[1] : e[1] \in late
               /\ DOMAIN names[1] \subseteq late

\* "on the DB we need just one of them and not both" (Redis.cpp:1062): one row for
\* a pair of hosts.
OneRowForEachPair ==
  \A r1, r2 \in rows.contacts :
    r1.client = r2.client /\ r1.server = r2.server => r1 = r2

\* A row of the dump says who contacted whom (Redis.cpp:1055, "a -contacted- b").
RowsTellWhoContacted ==
  \A r \in rows.contacts : \A a, b \in Addr :
    r.client \in NumbersOf(a) /\ r.server \in NumbersOf(b) => met[a, b] > 0
===============================================================================
