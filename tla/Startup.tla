-------------------------------- MODULE Startup --------------------------------
(***************************************************************************)
(* The way of the main thread from its options to the running program:     *)
(* preferences, the numbers of interfaces that Redis keeps from one run to *)
(* the next, the interfaces, the user, the file of the process, the web    *)
(* server, the periodic scripts and the pollers.  The process may end or   *)
(* be killed at any step, and is started again with other options.         *)
(***************************************************************************)
EXTENDS Options, FiniteSets, FiniteSetsExt

CONSTANTS
  Input,           \* what a start reads: [from, options, nets], nets being what -m names, or the default
  Devices,         \* the capture devices: [name, valid, up]
  Source,          \* what a name is to be read from: [kind, base]
  Addresses,       \* of the interfaces: [net, bits, up]
  MaxDefined,      \* MAX_NUM_DEFINED_INTERFACES
  MaxIds,          \* how many numbers ifname2id() tries
  Loops,           \* the periodic loops but the one of every second: [period, offset]
  Keys, Value,     \* preferences that Redis keeps, and what users make of them
  MaxTime,         \* bounds the clock
  MaxEvents        \* bounds starts, kills and changes

\* The numbers in Redis are for more interfaces than the program can have.
ASSUME MaxIdsAssumption == MaxIds \in Nat /\ MaxInterfaces \in Nat /\ MaxInterfaces <= MaxIds + 1
ASSUME LoopsAssumption == \A l \in DOMAIN Loops : Loops[l].period \in Nat \ {0} /\ Loops[l].offset \in Int

\* A name is a pair, <<"name", n>>; a number for one is a pair too, <<"id", k>>.
IsName(n) == n[1] = "id" => n[2] \in Int
ASSUME DevicesAssumption ==
  /\ Devices \in Seq({ Devices[i] : i \in DOMAIN Devices })
  /\ \A i \in DOMAIN Devices : IsName(Devices[i].name)
ASSUME InputAssumption ==
  \A input \in Input :
    /\ input.options \in Seq({ input.options[i] : i \in DOMAIN input.options })
    /\ \A i \in DOMAIN input.options : input.options[i].opt = "i" => IsName(input.options[i].value)

VARIABLES
  pc,        \* where the main thread is; "off" without a process
  prefs,     \* the preferences
  nets,      \* the networks taken for local
  ids,       \* the hash of numbers and names in Redis
  stored,    \* the other preferences in Redis
  inUse,     \* what was read of them
  slots,     \* the names of interfaces by their number
  todo,      \* names the main thread has to do something with, in this step of its way
  ident,     \* a call of ifname2id()
  ifaces,    \* the interfaces that are registered
  said,      \* names that were reported as left out
  uid,       \* who the process is
  threads,   \* the threads that work
  loops,     \* the loops of scripts: when the next run is, how many there were, since when
  pidFile,   \* if there is one
  now, events

redis == <<ids, stored>>
vars == <<pc, prefs, nets, ids, stored, inUse, slots, todo, ident, ifaces, said, uid, threads, loops, pidFile, now, events>>
-------------------------------------------------------------------------------
(* Names and numbers share the hash.                                       *)
Number(k) == <<"id", k>>
Name(n) == <<"name", n>>
\* A number is one of MaxIds + 1, the last for an interface that has none.
Atoi(x) == IF x[1] = "id" THEN x[2] % (MaxIds + 1) ELSE 0
NoNumber == MaxIds
NoIdent == [step |-> "none"]
Item(name, what) == [name |-> name, what |-> what]
MayHappen == events < MaxEvents
Spend == events' = events + 1
\* hashSet(): a field of a hash gets a value.
HSet(hash, field, value) == [f \in DOMAIN hash \cup {field} |-> IF f = field THEN value ELSE hash[f]]

\* A number stands for the device of that place.
RealName(n) ==
  LET valid == SelectSeq(Devices, LAMBDA d : d.valid)
  IN  IF n[1] = "name" THEN n
      ELSE IF n[2] \in DOMAIN valid THEN valid[n[2]].name ELSE Number(0)
Kind(n) == IF n \in DOMAIN Source THEN Source[n].kind ELSE "dead"
Base(n) == IF n \in DOMAIN Source THEN Source[n].base ELSE n
-------------------------------------------------------------------------------
\* main() reads its options.
Launch(input, who) ==
  /\ pc = "off" /\ MayHappen
  /\ LET cli == Considered(input.options)
         bad == IF input.from = "cli" THEN \E i \in DOMAIN cli : CliEnds(cli[i])
                ELSE input.from = "missing" \/ \E i \in DOMAIN Lines(input.options) : Ends(Lines(input.options)[i])
         read == IF input.from = "cli" THEN Load(cli) ELSE FilePrefs(input.options)
     IN  /\ ~bad
         /\ prefs' \in CheckOptions([read EXCEPT !["m"] = input.nets])
         /\ Located(prefs')
  /\ pc' = "registerPrefs"
  /\ uid' = who
  /\ Spend
  /\ UNCHANGED <<nets, redis, inUse, slots, todo, ident, ifaces, said, threads, loops, pidFile, now>>

Goes(from, to) == pc = from /\ pc' = to

\* registerPrefs(): the directories again, the networks, then Redis and what it must know;
\* then the names of -i.
RegisterPrefs ==
  /\ Goes("registerPrefs", "names") /\ ~NetworksEnd(prefs["m"])
  /\ nets' = SetLocalNetworks(prefs["m"])
  /\ stored' = stored @@ ("admin" :> "admin")
  /\ todo' = [i \in DOMAIN prefs["i"] |-> Item(prefs["i"][i], "add")]
  /\ UNCHANGED <<prefs, ids, inUse, slots, ident, ifaces, said, uid, threads, loops, pidFile, now, events>>
-------------------------------------------------------------------------------
(* ifname2id(), one command of Redis after the other: the number of a name *)
(* that is known, or a free one that is stored forth and back.             *)
Wanted == todo # <<>> /\ ident = NoIdent

\* Mutant: a free number is looked for whatever the name has.
LookUpFree ==
  /\ Wanted
  /\ LET n == Head(todo).name
         free == { k \in 0..(MaxIds - 1) : Number(k) \notin DOMAIN ids }
     IN  ident' = IF free = {} THEN [step |-> "known", id |-> NoNumber]
                  ELSE [step |-> "name", id |-> Min(free), name |-> n]
  /\ UNCHANGED <<pc, prefs, nets, redis, inUse, slots, todo, ifaces, said, uid, threads, loops, pidFile, now, events>>

LookUp ==
  /\ Wanted
  /\ LET n == Head(todo).name
         free == { k \in 0..(MaxIds - 1) : Number(k) \notin DOMAIN ids }
     IN  ident' = IF n \in DOMAIN ids THEN [step |-> "known", id |-> Atoi(ids[n])]
                  ELSE IF free = {} THEN [step |-> "known", id |-> NoNumber]
                  ELSE [step |-> "name", id |-> Min(free), name |-> n]
  /\ UNCHANGED <<pc, prefs, nets, redis, inUse, slots, todo, ifaces, said, uid, threads, loops, pidFile, now, events>>
StoreName ==
  /\ ident.step = "name"
  /\ ids' = HSet(ids, ident.name, Number(ident.id))
  /\ ident' = [ident EXCEPT !.step = "number"]
  /\ UNCHANGED <<pc, prefs, nets, stored, inUse, slots, todo, ifaces, said, uid, threads, loops, pidFile, now, events>>
StoreNumber ==
  /\ ident.step = "number"
  /\ ids' = HSet(ids, Number(ident.id), ident.name)
  /\ ident' = [step |-> "known", id |-> ident.id]
  /\ UNCHANGED <<pc, prefs, nets, stored, inUse, slots, todo, ifaces, said, uid, threads, loops, pidFile, now, events>>

Known(what) == ident.step = "known" /\ todo # <<>> /\ Head(todo).what = what
Done == todo' = Tail(todo) /\ ident' = NoIdent

\* add_network_interface()
AddNetworkInterface ==
  /\ Known("add") /\ Done
  /\ IF ident.id < MaxInterfaces - 1
     THEN slots' = HSet(slots, ident.id, Head(todo).name) /\ UNCHANGED said
     ELSE said' = said \cup {Head(todo).name} /\ UNCHANGED slots
  /\ UNCHANGED <<pc, prefs, nets, redis, inUse, ifaces, uid, threads, loops, pidFile, now, events>>
\* An interface that is made to look for devices, and nothing else.
MakeDummy ==
  /\ Known("dummy") /\ Done
  /\ UNCHANGED <<pc, prefs, nets, redis, inUse, slots, ifaces, said, uid, threads, loops, pidFile, now, events>>

\* The interface of a name, by its constructor: reading it may end the program.
Opens(n) == Kind(RealName(n)) \notin {"unreadable", "unreachable"} /\ RealName(n) # Number(0)
NewInterface(n, id) ==
  [name |-> Base(RealName(n)), id |-> id, alive |-> Kind(RealName(n)) \in {"live", "file", "list", "collector"}]

\* registerInterface(): not twice the same name, and not too many.
Registered(known, if) ==
  IF if.name \in { known[i].name : i \in DOMAIN known } \/ Len(known) >= MaxDefined THEN known
  ELSE Append(known, if)
CreateInterface ==
  /\ Known("create")
  /\ LET n == Head(todo).name
     IN  /\ Opens(n)
         /\ ifaces' = Registered(ifaces, NewInterface(n, ident.id))
         /\ said' = IF ifaces' = ifaces THEN said \cup {n} ELSE said
  /\ Done
  /\ UNCHANGED <<pc, prefs, nets, redis, inUse, slots, uid, threads, loops, pidFile, now, events>>
-------------------------------------------------------------------------------
(* What comes next when nothing is left to do.                             *)
AllDone == todo = <<>> /\ ident = NoIdent

\* add_default_interfaces(): when no name got a place.
UsableDevices == { i \in DOMAIN Devices : Devices[i].valid /\ Devices[i].up }
AddDefaults ==
  /\ Goes("names", "defaults") /\ AllDone
  /\ LET usable == TakePlaces(Devices, UsableDevices)
     IN  todo' = IF slots # <<>> THEN <<>>
                 ELSE <<Item(Name("dummy"), "dummy")>> \o [i \in DOMAIN usable |-> Item(usable[i].name, "add")]
  /\ UNCHANGED <<prefs, nets, redis, inUse, slots, ident, ifaces, said, uid, threads, loops, pidFile, now, events>>

\* Mutant: as many places as there are names, from the first.
PlacesInUseFirst(s) == InOrder(DOMAIN s \cap 0..(Cardinality(DOMAIN s) - 1))
\* The places that hold a name, all of them looked at.
PlacesInUse(s) == InOrder(DOMAIN s \cap 0..(MaxInterfaces - 1))
CreateInterfaces ==
  /\ Goes("defaults", "interfaces") /\ AllDone
  /\ LET places == PlacesInUse(slots)
     IN  todo' = [i \in DOMAIN places |-> Item(slots[places[i]], "create")]
  /\ UNCHANGED <<prefs, nets, redis, inUse, slots, ident, ifaces, said, uid, threads, loops, pidFile, now, events>>
\* createHistoricalInterface(): its constructor takes the number first, add_network_interface()
\* asks for it again.
CreateHistorical ==
  /\ Goes("interfaces", "historical") /\ AllDone
  /\ todo' = IF prefs["F"] THEN <<Item(Name("Historical"), "add"), Item(Name("Historical"), "create")>> ELSE <<>>
  /\ UNCHANGED <<prefs, nets, redis, inUse, slots, ident, ifaces, said, uid, threads, loops, pidFile, now, events>>
\* The order of main() from here.  Mutant: the web server answers before the user is changed.
NextStepWebFirst(step) ==
  CASE step = "historical" -> "web" [] step = "web" -> "drop" [] step = "drop" -> "pid" [] OTHER -> "test"
NextStep(step) ==
  CASE step = "historical" -> "drop" [] step = "drop" -> "pid" [] step = "pid" -> "web" [] OTHER -> "test"

CheckInterfaces ==
  /\ AllDone /\ ifaces # <<>>
  /\ Goes("historical", NextStep("historical"))
  /\ UNCHANGED <<prefs, nets, redis, inUse, slots, todo, ident, ifaces, said, uid, threads, loops, pidFile, now, events>>
-------------------------------------------------------------------------------
\* dropPrivileges(): a user that is missing, or a call that fails, is a warning.
NoUser == <<"warning", "user">>
DropPrivileges(ok) ==
  /\ Goes("drop", NextStep("drop"))
  /\ uid' = IF ok /\ ~prefs["s"] THEN "user" ELSE uid
  /\ said' = IF ok \/ prefs["s"] \/ uid = "user" THEN said ELSE said \cup {NoUser}
  /\ UNCHANGED <<prefs, nets, redis, inUse, slots, todo, ident, ifaces, threads, loops, pidFile, now, events>>
\* A file that cannot be written is a line in the log.
WritePid(ok) ==
  /\ Goes("pid", NextStep("pid"))
  /\ pidFile' = (pidFile \/ ok)
  /\ UNCHANGED <<prefs, nets, redis, inUse, slots, todo, ident, ifaces, said, uid, threads, loops, now, events>>
\* HTTPserver(): at once it answers.
StartWeb ==
  /\ Goes("web", NextStep("web"))
  /\ threads' = threads \cup {"web"}
  /\ UNCHANGED <<prefs, nets, redis, inUse, slots, todo, ident, ifaces, said, uid, loops, pidFile, now, events>>
TestDirectory ==
  /\ Goes("test", "start")
  /\ UNCHANGED <<prefs, nets, redis, inUse, slots, todo, ident, ifaces, said, uid, threads, loops, pidFile, now, events>>
\* start(): the loops of scripts, categories and the blacklist.
StartLoops ==
  /\ Goes("start", "prefs")
  /\ loops' = [l \in DOMAIN Loops |->
                  [next |-> FirstRun(now, Loops[l].period, Loops[l].offset), runs |-> 0, since |-> now]]
  /\ threads' = threads \cup {"second"} \cup DOMAIN Loops
                 \cup (IF prefs["c"] # NoText THEN {"categories"} ELSE {})
                 \cup (IF prefs["k"] # NoText THEN {"blacklist"} ELSE {})
  /\ UNCHANGED <<prefs, nets, redis, inUse, slots, todo, ident, ifaces, said, uid, pidFile, now, events>>

\* RuntimePrefs() and loadIdleDefaults(): a preference is read, and stored when there is none.
\* The web server answers already.
ReadDefault(k) ==
  /\ pc = "prefs" /\ ident = NoIdent /\ k \notin DOMAIN inUse
  /\ IF k \in DOMAIN stored THEN inUse' = k :> stored[k] @@ inUse /\ UNCHANGED ident
     ELSE ident' = [step |-> "default", key |-> k] /\ UNCHANGED inUse
  /\ UNCHANGED <<pc, prefs, nets, redis, slots, todo, ifaces, said, uid, threads, loops, pidFile, now, events>>
StoreDefault ==
  /\ ident.step = "default"
  /\ stored' = ident.key :> "default" @@ stored
  /\ inUse' = ident.key :> "default" @@ inUse
  /\ ident' = NoIdent
  /\ UNCHANGED <<pc, prefs, nets, ids, slots, todo, ifaces, said, uid, threads, loops, pidFile, now, events>>
\* A page stores a preference.
ChangePreference(k, v) ==
  /\ "web" \in threads /\ MayHappen
  /\ stored' = k :> v @@ stored
  /\ Spend
  /\ UNCHANGED <<pc, prefs, nets, ids, inUse, slots, todo, ident, ifaces, said, uid, threads, loops, pidFile, now>>
LoadAddresses ==
  /\ Goes("prefs", "poll") /\ DOMAIN inUse = Keys
  /\ nets' = LoadLocalInterfaceAddress(nets, Addresses)
  /\ UNCHANGED <<prefs, redis, inUse, slots, todo, ident, ifaces, said, uid, threads, loops, pidFile, now, events>>
\* The poller of an interface that could not be opened ends at once.
StartPolling ==
  /\ Goes("poll", "run")
  /\ threads' = threads \cup { ifaces[i].name : i \in { j \in DOMAIN ifaces : ifaces[j].alive } }
  /\ UNCHANGED <<prefs, nets, redis, inUse, slots, todo, ident, ifaces, said, uid, loops, pidFile, now, events>>
-------------------------------------------------------------------------------
(* The clock and the scripts; the end.                                     *)
Tick ==
  /\ now < MaxTime /\ pc # "off"
  /\ now' = now + 1
  /\ UNCHANGED <<pc, prefs, nets, redis, inUse, slots, todo, ident, ifaces, said, uid, threads, loops, pidFile, events>>
\* Mutant: the next run is a period after this one.
RunScriptFromNow(l) ==
  /\ l \in DOMAIN loops /\ now >= loops[l].next
  /\ loops' = [loops EXCEPT ![l].runs = @ + 1]
  /\ UNCHANGED <<pc, prefs, nets, redis, inUse, slots, todo, ident, ifaces, said, uid, threads, pidFile, now, events>>
\* A loop that is late runs its script once for every time it missed.
RunScript(l) ==
  /\ l \in DOMAIN loops /\ now >= loops[l].next
  /\ loops' = [loops EXCEPT ![l].runs = @ + 1, ![l].next = @ + Loops[l].period]
  /\ UNCHANGED <<pc, prefs, nets, redis, inUse, slots, todo, ident, ifaces, said, uid, threads, pidFile, now, events>>

\* The process is no more; Redis and the file of its number stay.
Gone ==
  /\ pc' = "off" /\ prefs' = DefaultPrefs /\ nets' = NoNetworks /\ inUse' = <<>> /\ slots' = <<>>
  /\ todo' = <<>> /\ ident' = NoIdent /\ ifaces' = <<>> /\ said' = {} /\ uid' = "user"
  /\ threads' = {} /\ loops' = <<>>
  /\ UNCHANGED <<redis, now>>
\* main() gives up: a directory, a network, an interface, no interface at all, the port, the scripts.
Exit ==
  /\ \/ pc \in {"registerPrefs", "web", "test", "start"}
     \/ Known("create") /\ ~Opens(Head(todo).name)
     \/ pc = "historical" /\ AllDone /\ ifaces = <<>>
  /\ Gone
  /\ UNCHANGED <<pidFile, events>>
\* A signal, before there is a handler, or the machine stops.
Kill == pc # "off" /\ MayHappen /\ Gone /\ Spend /\ UNCHANGED pidFile
\* The handler deletes the file, see Shutdown.
Stop == pc = "run" /\ MayHappen /\ Gone /\ Spend /\ pidFile' = FALSE
-------------------------------------------------------------------------------
Init ==
  /\ pc = "off" /\ prefs = DefaultPrefs /\ nets = NoNetworks
  /\ ids = <<>> /\ stored = <<>> /\ inUse = <<>> /\ slots = <<>>
  /\ todo = <<>> /\ ident = NoIdent /\ ifaces = <<>> /\ said = {}
  /\ uid = "user" /\ threads = {} /\ loops = <<>> /\ pidFile = FALSE
  /\ now = 0 /\ events = 0

Identify == LookUp \/ StoreName \/ StoreNumber
Interfaces ==
  \/ RegisterPrefs \/ AddNetworkInterface \/ MakeDummy \/ CreateInterface
  \/ AddDefaults \/ CreateInterfaces \/ CreateHistorical \/ CheckInterfaces
Begin ==
  \/ \E ok \in BOOLEAN : DropPrivileges(ok) \/ WritePid(ok)
  \/ StartWeb \/ TestDirectory \/ StartLoops \/ LoadAddresses \/ StartPolling
  \/ (\E k \in Keys : ReadDefault(k)) \/ StoreDefault
Next ==
  \/ \E input \in Input, who \in {"root", "user"} : Launch(input, who)
  \/ Identify \/ Interfaces \/ Begin
  \/ \E k \in Keys, v \in Value : ChangePreference(k, v)
  \/ Tick \/ \E l \in DOMAIN Loops : RunScript(l)
  \/ Exit \/ Kill \/ Stop
Spec == Init /\ [][Next]_vars
-------------------------------------------------------------------------------
\* The number of a name stays its number from run to run, whatever the options, and wherever
\* a run was cut: the files of an interface are found again.
NumbersKept == [][\A f \in DOMAIN ids : f \in DOMAIN ids' /\ ids'[f] = ids[f]]_vars

\* What was asked for: names, or every device that can be used.
Asked ==
  IF prefs["i"] # <<>> THEN { prefs["i"][i] : i \in DOMAIN prefs["i"] }
  ELSE { Devices[i].name : i \in UsableDevices }
DifferentNumbers ==
  LET known == (Asked \cup {Name("Historical")}) \cap DOMAIN ids
  IN  \A a, b \in known : Atoi(ids[a]) = Atoi(ids[b]) => a = b
\* When the program runs, each interface that was asked for is there or reported as left out,
\* as long as their numbers differ.
AskedArePolled ==
  pc = "run" /\ DifferentNumbers =>
    \A n \in Asked : n \in said \/ \E i \in DOMAIN ifaces : ifaces[i].name = Base(RealName(n))

\* Nothing from outside is handled with the rights of the superuser, unless it was asked
\* for or reported.
ServedUnprivileged ==
  threads # {} /\ uid = "root" => prefs["s"] \/ NoUser \in said

\* The ends of periods between two times, in local time.
Boundaries(l, from, to) ==
  ((to + Loops[l].offset) \div Loops[l].period) - ((from + Loops[l].offset) \div Loops[l].period)
\* No script runs more often than periods ended since its loop began, east of Greenwich excepted.
OncePerPeriod ==
  \A l \in DOMAIN loops :
    Loops[l].offset <= 0 => loops[l].runs <= Boundaries(l, loops[l].since, now)
-------------------------------------------------------------------------------
\* Not so: a run cut between the two commands, or a number for a name, gives a number twice.
NumbersDiffer == DifferentNumbers
\* Not so: when no name gets a place, every device is used.
OnlyAsked ==
  pc = "run" => \A i \in DOMAIN ifaces :
    ifaces[i].name = Name("Historical") \/ \E n \in Asked : ifaces[i].name = Base(RealName(n))
\* Not so: a preference changed while its default is stored is lost.
ChoiceNotOverwritten == [][\A k \in DOMAIN stored : stored[k] \in Value => stored'[k] \in Value]_vars
\* Not so: west of Greenwich the first midnight may be missed.
EveryMidnight ==
  \A l \in DOMAIN loops : loops[l].next > now => loops[l].runs = Boundaries(l, loops[l].since, now)
\* Not so: a key from the file is a pointer into a buffer that is gone.
KeyAsGiven == prefs["c"] # "dangling"
\* Not so: a file of the process stays when it ends before it runs.
PidOfRunning == pidFile => pc # "off"
\* Not so: an interface that could not be opened is registered, and its poller ends.
RegisteredIsPolled == pc = "run" => \A i \in DOMAIN ifaces : ifaces[i].name \in threads \/ ifaces[i].name = Name("Historical")
===============================================================================
