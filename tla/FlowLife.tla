------------------------------- MODULE FlowLife -------------------------------
(***************************************************************************)
(* The life of a flow: frames or collected records are counted in it, nDPI *)
(* finds its protocol, names seen in it are aggregated and categorised,    *)
(* its traffic is given to its hosts by the script of every second and by  *)
(* the poller itself, and its end writes a row into the database of flows. *)
(* One flow at a time stands for the table, see FlowTable.                 *)
(*                                                                         *)
(* One handler of the poller is the steps until flow.calls is empty again. *)
(***************************************************************************)
EXTENDS Frames, FiniteSetsExt

CONSTANTS
  Conf,             \* configurations: see the variable conf
  Frame, Record,    \* what the poller takes in
  Outcome,          \* what nDPI makes of a packet: the protocol and what it read
  Guess,            \* what nDPI guesses of ports and addresses
  MinPackets,       \* NDPI_MIN_NUM_PACKETS
  Period,           \* dir_duration of the database
  Faults,           \* what may fail in the database: "none", "file", "insert"
  MaxEvents         \* bounds the frames, records, passes, ends and faults

ASSUME LifeAssumption ==
  /\ {MinPackets, Period, MaxEvents} \subseteq Nat /\ Period > 0
ASSUME RecordAssumption ==
  \A r \in Record, n \in {"IN_PKTS", "OUT_PKTS", "SAMPLING_INTERVAL"} : n \in DOMAIN r => r[n] \in Nat

VARIABLES
  conf,     \* the kind of interface, "packets" or "records"; the options to aggregate, to
            \* shorten names, to decode the DNS, to dump, export and categorise; if one of
            \* the hosts is black; and what a flag holds that no constructor sets
  flow,     \* the flow, or NoFlow
  iface,    \* the statistics of the interface
  hosts,    \* what the flows gave to their hosts
  names,    \* the aggregated hosts, by name and family
  upd,      \* the two threads in update_hosts_stats()
  db,       \* the database of flows: the file that is open, and the rows
  cache,    \* the categories of domains in Redis
  asking,   \* the queue of domains, what the categorisation thread asks, and how often it did
  alarms,   \* alerts for blacklisted hosts of this flow
  phase,    \* "up", "stopping", "stopped"
  ended,    \* packets of the flows that ended, what was known of them, and how many
  exported, \* the last record that was published
  events    \* frames, records, passes of the script, ends and faults so far

vars == <<conf, flow, iface, hosts, names, upd, db, cache, asking, alarms, phase, ended, exported, events>>
-----------------------------------------------------------------------------
Updater == {"poller", "script"}
Idle == [pc |-> "idle"]
NoFlow == [calls |-> <<>>]
NoName == <<>>
NoNdpi == [name |-> NoName, memory |-> FALSE]
NoRead == [name |-> NoName, at |-> FALSE, code |-> 0, answers |-> 0, nat |-> NoName, os |-> NoName, memory |-> TRUE]
NoCount == [cs |-> 0, sc |-> 0]
Add(a, b) == [cs |-> a.cs + b.cs, sc |-> a.sc + b.sc]
Minus(a, b) == [cs |-> a.cs - b.cs, sc |-> a.sc - b.sc]
Packets(c) == c.cs + c.sc
NoProcess == [pid |-> 0, name |-> ""]

\* Flow::Flow(): whether an alarm was raised is not set, so it is what the memory holds.
NewFlow ==
  [count |-> NoCount, last |-> NoCount, seen |-> 0, proto |-> "unknown", completed |-> FALSE,
   processed |-> FALSE, ndpi |-> NoRead, agg |-> NoName, category |-> "none", emitted |-> conf.garbage,
   cli |-> NoProcess, srv |-> NoProcess, calls |-> <<>>]

\* incStats() and addFlowStats().
Count(f, c, at) == [f EXCEPT !.count = Add(@, c), !.seen = at]
DeleteFlowMemory(f) == [f EXCEPT !.ndpi = NoNdpi]

\* A key gets a value, in Redis or in a table.
Set(keys, key, value) == [k \in DOMAIN keys \cup {key} |-> IF k = key THEN value ELSE keys[k]]
-----------------------------------------------------------------------------
(* The calls a handler makes for names.                                    *)
\* "we can shorten the host name": the first of three labels or more is left out.
ShortName(name) == IF Len(name) > 2 THEN Tail(name) ELSE name

\* aggregateInfo(): nothing to do without a name, or without the option.
Aggregation(name, family, mode, track) ==
  LET short == IF conf.short /\ mode = "domain" THEN ShortName(name) ELSE name
  IN  IF name = NoName \/ ~conf.aggregate THEN <<>>
      ELSE <<[call |-> "aggregate", name |-> short, family |-> family, track |-> track]>>
AggregateInfo(f, name, family, mode, track) == [f EXCEPT !.calls = @ \o Aggregation(name, family, mode, track)]
Call(f, what, name) == [f EXCEPT !.calls = Append(@, [call |-> what, name |-> name])]

\* Names of the answers of the DNS: tracked when positive, final with an answer.
ProcessDns(f) ==
  LET n == f.ndpi
      track == n.code = 0 /\ (n.at \/ n.answers > 0)
      final == n.code = 0 /\ n.answers > 0
      reverse == n.name # NoName /\ Last(n.name) = "arpa"
  IN  IF ~conf.dns \/ n.name = NoName \/ (reverse /\ ~n.at) THEN f
      ELSE [AggregateInfo(f, n.name, "dns", "domain", track) EXCEPT !.ndpi.at = FALSE, !.processed = final]
\* The address behind a NAT, the name of the server with its category, the system.
ProcessHttp(f) ==
  LET n == f.ndpi
      nat == AggregateInfo(f, n.nat, f.proto, "client", TRUE)
      server == AggregateInfo(nat, n.name, f.proto, "domain", TRUE)
      known == Call(server, "category", n.name)
  IN  IF n.name = NoName THEN nat
      ELSE [AggregateInfo(known, n.os, "os", "os", TRUE) EXCEPT !.processed = TRUE]
ProcessName(f) ==
  CASE f.proto = "dns" -> ProcessDns(f)
    [] f.proto = "http" -> ProcessHttp(f)
    [] f.proto = "whois" /\ f.ndpi.name # NoName ->
         [AggregateInfo(f, f.ndpi.name, "whois", "domain", TRUE) EXCEPT !.processed = TRUE]
    [] f.proto = "netbios" /\ f.ndpi.name # NoName -> [f EXCEPT !.processed = TRUE]
    [] OTHER -> f

\* processDetectedProtocol(); the memory of the DNS is kept for the packets to come.
ProcessDetectedProtocol(f) ==
  IF f.processed \/ ~f.ndpi.memory THEN f
  ELSE LET done == ProcessName(f)
       IN  IF done.processed /\ done.proto # "dns" THEN DeleteFlowMemory(done) ELSE done

GuessProtocol(f, guess) == [f EXCEPT !.completed = TRUE, !.proto = guess]

\* setDetectedProtocol(); a collector has no nDPI.
SetDetectedProtocol(f, proto, guess) ==
  LET ndpi == conf.kind = "packets"
  IN  IF ndpi /\ ~f.ndpi.memory THEN f
      ELSE IF proto # "unknown"
           THEN [ProcessDetectedProtocol([f EXCEPT !.proto = proto]) EXCEPT !.completed = TRUE]
           ELSE IF Packets(f.count) > MinPackets \/ ~ndpi THEN GuessProtocol(f, guess) ELSE f

\* nDPI reads a packet.
Inspect(f, o) == IF f.ndpi.memory THEN [f EXCEPT !.ndpi = o.read] ELSE f
Found(f, o) == IF f.ndpi.memory THEN o.proto ELSE "unknown"

\* What packet_processing() does of a flow whose detection is complete: a message of the
\* DNS is inspected once more, and a negative reply aggregated again.
Finish(f, o) ==
  LET again == Inspect(f, o)
      negative == AggregateInfo(again, again.ndpi.name, "dns", "domain", FALSE)
      dns == IF again.ndpi.memory /\ again.ndpi.code # 0 THEN negative ELSE again
      done == ProcessDetectedProtocol(IF f.proto = "dns" THEN dns ELSE f)
  IN  IF done.proto # "dns" THEN DeleteFlowMemory(done) ELSE done

\* A packet of a flow.
FlowPacket(f, frame, dir, o, guess) ==
  LET counted == Count(f, IF dir THEN [cs |-> 1, sc |-> 0] ELSE [cs |-> 0, sc |-> 1], frame.at)
      detected == IF frame.fragment THEN counted
                  ELSE SetDetectedProtocol(Inspect(counted, o), Found(counted, o), guess)
  IN  IF detected.completed THEN Finish(detected, o) ELSE detected

\* process_epp_flow(): registrar, server, and each domain of a command with its answer.
EppCalls(z) ==
  Aggregation(z.registrar, "epp", "registrar", TRUE) \o Aggregation(z.server, "epp", "server", TRUE)
  \o FlattenSeq([i \in DOMAIN z.domains |->
                    Aggregation(z.domains[i].name, "epp", "domain", ~z.domains[i].available)])
ProcessEpp(f, z) == IF z.epp = 0 THEN f ELSE [f EXCEPT !.calls = @ \o EppCalls(z)]

\* handle_process() for both ends.
HandleProcesses(f, z, dir) ==
  LET cli == IF dir THEN z.src ELSE z.dst
      srv == IF dir THEN z.dst ELSE z.src
  IN  [f EXCEPT !.cli = IF cli.pid # 0 THEN cli ELSE @, !.srv = IF srv.pid # 0 THEN srv ELSE @]

\* A record of a flow.
FlowRecord(f, z, dir, guess) ==
  LET in == z.rate * z.in
      out == z.rate * z.out
      counted == Count(f, IF dir THEN [cs |-> in, sc |-> out] ELSE [cs |-> out, sc |-> in], z.last)
      epp == ProcessEpp(SetDetectedProtocol(counted, z.l7, guess), z)
      system == HandleProcesses(epp, z, dir)
  IN  IF (z.src.pid # 0 \/ z.dst.pid # 0) /\ z.l7 = "unknown" THEN GuessProtocol(system, guess) ELSE system

\* serialize(): what left the client is OUT.
Serialize(f) ==
  LET always == [OUT_PKTS |-> f.count.cs, IN_PKTS |-> f.count.sc, LAST_SWITCHED |-> f.seen]
      l7 == IF Packets(f.count) > MinPackets \/ f.proto # "unknown" THEN [L7_PROTO |-> f.proto] ELSE <<>>
      cli == IF f.cli.pid # 0 THEN [SRC_PROC_PID |-> f.cli.pid, SRC_PROC_NAME |-> f.cli.name] ELSE <<>>
      srv == IF f.srv.pid # 0 THEN [DST_PROC_PID |-> f.srv.pid, DST_PROC_NAME |-> f.srv.name] ELSE <<>>
  IN  always @@ l7 @@ cli @@ srv
-----------------------------------------------------------------------------
(* The threads.                                                            *)
MayHappen == events < MaxEvents
Spend == events' = events + 1
PollerFree == phase = "up" /\ upd["poller"] = Idle /\ flow.calls = <<>>
Fresh == IF flow = NoFlow THEN NewFlow ELSE flow

\* packet_dissector(); when the table is full there is no flow and the packet is counted.
Capture(frame, dir, o, guess) ==
  /\ conf.kind = "packets" /\ PollerFree /\ MayHappen
  /\ iface' = CountFrame(iface, frame)
  /\ flow' = IF Dissect(frame) = "packet" THEN FlowPacket(Fresh, frame, dir, o, guess) ELSE flow
  /\ Spend
  /\ UNCHANGED <<conf, hosts, names, upd, db, cache, asking, alarms, phase, ended, exported>>
NoRoom(frame) ==
  /\ conf.kind = "packets" /\ PollerFree /\ MayHappen
  /\ flow = NoFlow /\ Dissect(frame) = "packet"
  /\ iface' = CountFrame(iface, frame)
  /\ Spend
  /\ UNCHANGED <<conf, flow, hosts, names, upd, db, cache, asking, alarms, phase, ended, exported>>

\* parse_flows() and flow_processing().
Collect(r, dir, guess) ==
  LET z == ParseRecord(r)
  IN  /\ conf.kind = "records" /\ PollerFree /\ MayHappen
      /\ flow' = FlowRecord(Fresh, z, dir, guess)
      /\ iface' = [IncInterface(iface, "ip4", z.rate * (z.in + z.out)) EXCEPT !.system = @ \/ OfSystem(r)]
      /\ Spend
      /\ UNCHANGED <<conf, hosts, names, upd, db, cache, asking, alarms, phase, ended, exported>>
\* collect_flows() leaves a message whose header is of another version: its payload is
\* received as a header next, and refused for its size.
Refuse ==
  /\ conf.kind = "records" /\ PollerFree /\ MayHappen
  /\ Spend
  /\ UNCHANGED <<conf, flow, iface, hosts, names, upd, db, cache, asking, alarms, phase, ended, exported>>

\* An aggregated host, made when it is missing.
NoHost == [given |-> NoCount, queries |-> 0, tracked |-> FALSE]
FindHostByString(name, family) ==
  LET key == <<name, family>> IN IF key \in DOMAIN names THEN names[key] ELSE NoHost

StartUpdate(t) == upd' = [upd EXCEPT ![t] = [pc |-> "give", read |-> flow.count, diff |-> Minus(flow.count, flow.last)]]
\* The name of a flow is freed while the script may hold it.
FreeName == IF upd["script"].pc = "name" THEN [upd EXCEPT !["script"].freed = TRUE] ELSE upd

\* aggregateInfo(): traffic so far goes to the old name first, then the name is the new one.
Aggregate ==
  /\ flow.calls # <<>> /\ upd["poller"] = Idle
  /\ LET c == Head(flow.calls)
         h == FindHostByString(c.name, c.family)
         told == [h EXCEPT !.queries = @ + 1, !.tracked = c.track]
     IN  /\ c.call \in {"aggregate", "updated"}
         /\ IF c.call = "aggregate" /\ flow.agg \notin {NoName, c.name}
            THEN /\ StartUpdate("poller")
                 /\ names' = Set(names, <<c.name, c.family>>, h)
                 /\ flow' = [flow EXCEPT !.calls[1].call = "updated"]
            ELSE /\ names' = Set(names, <<c.name, c.family>>, told)
                 /\ upd' = FreeName
                 /\ flow' = [flow EXCEPT !.agg = c.name, !.calls = Tail(@)]
  /\ UNCHANGED <<conf, iface, hosts, db, cache, asking, alarms, phase, ended, exported, events>>

\* getFlowCategory(): a domain that is not known is queued, and the flow gets an empty category.
GetCategory ==
  /\ flow.calls # <<>> /\ upd["poller"] = Idle
  /\ LET c == Head(flow.calls)
     IN  /\ c.call = "category"
         /\ IF ~conf.categories THEN flow' = [flow EXCEPT !.calls = Tail(@)] /\ UNCHANGED asking
            ELSE /\ flow' = [flow EXCEPT !.calls = Tail(@),
                                         !.category = IF c.name \in DOMAIN cache THEN cache[c.name] ELSE "empty"]
                 /\ asking' = IF c.name \in DOMAIN cache THEN asking
                              ELSE [asking EXCEPT !.queue = Append(@, c.name)]
  /\ UNCHANGED <<conf, iface, hosts, names, upd, db, cache, alarms, phase, ended, exported, events>>
-----------------------------------------------------------------------------
(* update_hosts_stats(), by the script of every second or by the poller.   *)
\* The last thing is to look for a blacklisted host, once.
CheckBlacklisted == IF flow.emitted THEN Idle ELSE [pc |-> "alert"]

StartScript ==
  /\ flow # NoFlow /\ phase = "up" /\ upd["script"] = Idle /\ MayHappen
  /\ StartUpdate("script")
  /\ Spend
  /\ UNCHANGED <<conf, flow, iface, hosts, names, db, cache, asking, alarms, phase, ended, exported>>

\* Mutant: what was counted meanwhile is taken for given.
GiveCurrent(t) ==
  /\ upd[t].pc = "give"
  /\ hosts' = Add(hosts, upd[t].diff)
  /\ flow' = [flow EXCEPT !.last = flow.count]
  /\ upd' = [upd EXCEPT ![t] = CheckBlacklisted]
  /\ UNCHANGED <<conf, iface, names, db, cache, asking, alarms, phase, ended, exported, events>>

\* The counters that were read are the last ones now, the difference is the hosts'.
Give(t) ==
  /\ upd[t].pc = "give"
  /\ hosts' = Add(hosts, upd[t].diff)
  /\ flow' = [flow EXCEPT !.last = upd[t].read]
  /\ upd' = [upd EXCEPT ![t] = IF flow.agg = NoName THEN CheckBlacklisted
                               ELSE [pc |-> "name", diff |-> upd[t].diff, read |-> upd[t].read,
                                     name |-> flow.agg, freed |-> FALSE]]
  /\ UNCHANGED <<conf, iface, names, db, cache, asking, alarms, phase, ended, exported, events>>

\* Mutant: the name gets all the flow counted.
GiveNameAll(t) ==
  /\ upd[t].pc = "name"
  /\ LET key == <<upd[t].name, flow.proto>>
     IN  names' = Set(names, key, [FindHostByString(key[1], key[2]) EXCEPT !.given = Add(@, upd[t].read)])
  /\ upd' = [upd EXCEPT ![t] = CheckBlacklisted]
  /\ UNCHANGED <<conf, flow, iface, hosts, db, cache, asking, alarms, phase, ended, exported, events>>

\* The aggregated host is looked up under the protocol of the flow; whatever stands where
\* the name was freed is the name of no host here.
GiveName(t) ==
  /\ upd[t].pc = "name"
  /\ LET key == <<upd[t].name, flow.proto>>
         d == upd[t].diff
         given == [FindHostByString(key[1], key[2]) EXCEPT !.given = Add(@, [cs |-> d.sc, sc |-> d.cs])]
     IN  names' = IF upd[t].freed THEN names ELSE Set(names, key, given)
  /\ upd' = [upd EXCEPT ![t] = CheckBlacklisted]
  /\ UNCHANGED <<conf, flow, iface, hosts, db, cache, asking, alarms, phase, ended, exported, events>>

\* checkBlacklistedFlow(): the alert is queued before it is noted.
Alert(t) ==
  /\ upd[t].pc = "alert"
  /\ alarms' = IF conf.black THEN alarms + 1 ELSE alarms
  /\ flow' = [flow EXCEPT !.emitted = TRUE]
  /\ upd' = [upd EXCEPT ![t] = Idle]
  /\ UNCHANGED <<conf, iface, hosts, names, db, cache, asking, phase, ended, exported, events>>
-----------------------------------------------------------------------------
(* The end of a flow, and the database.                                    *)
NoFile == [open |-> FALSE, file |-> 0, end |-> 0]

\* Mutant: the file is closed without a COMMIT.
TermDBNoCommit(d) == [d EXCEPT !.handle = NoFile, !.pending = {}]

\* termDB(), the rows of the file that is open are committed.
TermDB(d) == [d EXCEPT !.handle = NoFile, !.pending = {}, !.committed = @ \cup d.pending]

\* initDB(): a file lasts for a period; one that is open takes all rows up to its end.
InitDB(d, when, fault) ==
  LET closed == IF d.handle.open THEN TermDB(d) ELSE d
      begin == when - (when % Period)
  IN  IF d.handle.open /\ when < d.handle.end THEN d
      ELSE IF fault = "file" THEN closed
      ELSE [closed EXCEPT !.handle = [open |-> TRUE, file |-> begin, end |-> begin + Period]]

\* dumpFlow(): a row in the transaction of the file, or lost.
DumpFlow(d, row, fault) ==
  LET open == InitDB(d, row.at, fault)
  IN  IF ~conf.dump THEN d
      ELSE IF open.handle.open /\ fault # "insert"
           THEN [open EXCEPT !.pending = @ \cup {[row EXCEPT !.file = open.handle.file]}]
           ELSE [open EXCEPT !.lost = @ \cup {row.id}]

\* ~Flow(), by the sweep or at the stop.
EndFlow(fault) ==
  /\ flow # NoFlow /\ flow.calls = <<>> /\ \A t \in Updater : upd[t] = Idle
  /\ phase \in {"up", "stopping"}
  /\ phase = "up" \/ fault # "none" => MayHappen
  /\ conf.dump \/ fault = "none"
  /\ alarms' = IF conf.black /\ ~flow.emitted THEN alarms + 1 ELSE alarms
  /\ db' = DumpFlow(db, [id |-> ended.flows + 1, at |-> flow.seen, file |-> 0], fault)
  /\ exported' = IF conf.export THEN Serialize(flow) ELSE exported
  /\ ended' = [packets |-> Add(ended.packets, flow.count), last |-> Add(ended.last, flow.last), flows |-> ended.flows + 1]
  /\ flow' = NoFlow
  /\ IF phase = "up" \/ fault # "none" THEN Spend ELSE UNCHANGED events
  /\ UNCHANGED <<conf, iface, hosts, names, upd, cache, asking, phase>>

Stop ==
  /\ PollerFree /\ MayHappen
  /\ phase' = "stopping"
  /\ Spend
  /\ UNCHANGED <<conf, flow, iface, hosts, names, upd, db, cache, asking, alarms, ended, exported>>
\* What is in memory goes with the process; the packets that were counted are those of one life.
Forget ==
  /\ phase' = "stopped" /\ flow' = NoFlow
  /\ upd' = [t \in Updater |-> Idle]
  /\ iface' = NoEth /\ hosts' = NoCount /\ names' = <<>> /\ alarms' = 0
  /\ ended' = [packets |-> NoCount, last |-> NoCount, flows |-> ended.flows]
\* ~NetworkInterface(): the tables go first, the database last.
Close ==
  /\ phase = "stopping" /\ flow = NoFlow
  /\ Forget
  /\ db' = IF conf.dump THEN TermDB(db) ELSE db
  /\ UNCHANGED <<conf, cache, asking, exported, events>>
\* The rows of the transaction that is open go with the process.
Crash ==
  /\ phase # "stopped" /\ MayHappen
  /\ Forget
  /\ db' = [db EXCEPT !.handle = NoFile, !.pending = {}, !.lost = @ \cup { r.id : r \in db.pending }]
  /\ Spend
  /\ UNCHANGED <<conf, cache, asking, exported>>
-----------------------------------------------------------------------------
(* The categorisation thread.                                              *)
Asked(n) == Set(asking.asked, n, Field(asking.asked, n, 0) + 1)

\* Mutant: no category is stored until the service answers.
AskNoPlaceholder ==
  /\ asking.name = NoName /\ asking.queue # <<>> /\ phase = "up"
  /\ LET n == Head(asking.queue)
     IN  asking' = IF n \in DOMAIN cache THEN [asking EXCEPT !.queue = Tail(@)]
                   ELSE [asking EXCEPT !.queue = Tail(@), !.name = n, !.asked = Asked(n)]
  /\ UNCHANGED <<conf, flow, iface, hosts, names, upd, db, cache, alarms, phase, ended, exported, events>>

\* categorizeHostName() of the next domain: a known one is renewed, another has a category
\* at once, so that nobody queues it again while the service is slow.
Ask ==
  /\ asking.name = NoName /\ asking.queue # <<>> /\ phase = "up"
  /\ LET n == Head(asking.queue)
     IN  IF n \in DOMAIN cache
         THEN asking' = [asking EXCEPT !.queue = Tail(@)] /\ UNCHANGED cache
         ELSE /\ asking' = [asking EXCEPT !.queue = Tail(@), !.name = n, !.asked = Asked(n)]
              /\ cache' = Set(cache, n, "none yet")
  /\ UNCHANGED <<conf, flow, iface, hosts, names, upd, db, alarms, phase, ended, exported, events>>
\* The answer of the service, if it is one.
Answer(ok) ==
  /\ asking.name # NoName /\ phase # "stopped"
  /\ cache' = IF ok THEN Set(cache, asking.name, "category") ELSE cache
  /\ asking' = [asking EXCEPT !.name = NoName]
  /\ UNCHANGED <<conf, flow, iface, hosts, names, upd, db, alarms, phase, ended, exported, events>>
\* Redis forgets a category; the count of questions starts again.
Expire(n) ==
  /\ n \in DOMAIN cache /\ MayHappen /\ phase # "stopped"
  /\ cache' = [x \in DOMAIN cache \ {n} |-> cache[x]]
  /\ asking' = [asking EXCEPT !.asked = Set(@, n, 0)]
  /\ Spend
  /\ UNCHANGED <<conf, flow, iface, hosts, names, upd, db, alarms, phase, ended, exported>>

-----------------------------------------------------------------------------
Init ==
  /\ conf \in Conf
  /\ flow = NoFlow /\ iface = NoEth /\ hosts = NoCount /\ names = <<>>
  /\ upd = [t \in Updater |-> Idle]
  /\ db = [handle |-> NoFile, pending |-> {}, committed |-> {}, lost |-> {}]
  /\ cache = <<>> /\ asking = [queue |-> <<>>, name |-> NoName, asked |-> <<>>]
  /\ alarms = 0 /\ phase = "up"
  /\ ended = [packets |-> NoCount, last |-> NoCount, flows |-> 0]
  /\ exported = <<>> /\ events = 0

Poller ==
  \/ \E frame \in Frame, dir \in BOOLEAN, o \in Outcome, g \in Guess : Capture(frame, dir, o, g)
  \/ \E frame \in Frame : NoRoom(frame)
  \/ \E r \in Record, dir \in BOOLEAN, g \in Guess : Collect(r, dir, g)
  \/ Refuse
  \/ Aggregate \/ GetCategory
  \/ \E fault \in Faults : EndFlow(fault)
Update == StartScript \/ \E t \in Updater : Give(t) \/ GiveName(t) \/ Alert(t)
Categorise == Ask \/ (\E ok \in BOOLEAN : Answer(ok)) \/ \E n \in { o.read.name : o \in Outcome } : Expire(n)

Next == Poller \/ Update \/ Categorise \/ Stop \/ Close \/ Crash
Spec == Init /\ [][Next]_vars
-----------------------------------------------------------------------------
FlowPackets == IF flow = NoFlow THEN ended.packets ELSE Add(ended.packets, flow.count)

\* What a flow takes for given was given to its hosts, whichever thread did it and whatever
\* was counted meanwhile: when nobody is at it, no packet was missed.
NothingMissed ==
  (\A t \in Updater : upd[t] = Idle) =>
    LET last == IF flow = NoFlow THEN ended.last ELSE Add(ended.last, flow.last)
    IN  phase = "up" => hosts.cs >= last.cs /\ hosts.sc >= last.sc

\* The names that the flows carried, one after the other, share what their hosts got.
NamesWithinHosts ==
  MapThenSumSet(LAMBDA k : Packets(names[k].given), DOMAIN names) <= Packets(hosts)

\* After a stop the row of every flow is in the database, but for those that a fault lost.
RowsKept ==
  phase = "stopped" /\ conf.dump =>
    { r.id : r \in db.committed } \cup db.lost = 1..ended.flows

\* The service is asked once for a domain while its category is remembered, however often the
\* domain is seen and however slow or wrong the answer.
AskedOnce == \A n \in DOMAIN asking.asked : asking.asked[n] <= 1

\* Every packet of a flow is one of its interface's.
PacketsCounted == Packets(FlowPackets) <= iface.raw
-----------------------------------------------------------------------------
\* Not so: two threads give the same packets.
GivenOnce == hosts.cs <= FlowPackets.cs /\ hosts.sc <= FlowPackets.sc
\* Not so: the poller frees a name the script is about to look up.
NameInUseLives == upd["script"].pc = "name" => ~upd["script"].freed
\* Not so: a negative reply is counted three times.
QueriesCountedOnce == MapThenSumSet(LAMBDA k : names[k].queries, DOMAIN names) <= Packets(FlowPackets)
\* Not so: a name of four labels keeps three.
TwoLevels == conf.short => \A k \in DOMAIN names : k[2] = "dns" => Len(k[1]) <= 2
\* Not so: a flow is done with its category before the domain has one.
CategoryKnown == flow # NoFlow => flow.category \notin {"empty", "none yet"}
\* Not so: a flow that ended earlier than the open file begins is put into that file.
FileOfPeriod == \A r \in db.committed \cup db.pending : r.file = r.at - (r.at % Period)
\* Not so: what was exported as sent is collected as received.
ImportedAsExported ==
  flow # NoFlow =>
    FlowRecord(NewFlow, ParseRecord(Serialize(flow)), TRUE, flow.proto).count = flow.count
\* Not so: cooked frames are counted twice.
FrameCountedOnce == [][iface'.raw - iface.raw <= events' - events]_vars
\* Not so: the last packets of a flow are given to nobody.
AllTrafficGiven == ended.packets.cs + ended.packets.sc <= Packets(hosts)
\* Not so: two threads raise it.
OneAlarm == alarms <= ended.flows + (IF flow = NoFlow THEN 0 ELSE 1)
===============================================================================
