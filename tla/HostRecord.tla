------------------------------ MODULE HostRecord ------------------------------
(***************************************************************************)
(* What is kept of a host: its counters, its map of the day's activity,    *)
(* its throughput and its names; how they are saved in Redis when the host *)
(* is purged, and where the next host with its key starts from.  One       *)
(* poller sees packets for each interface, the script of every second      *)
(* counts for the flows and computes the throughput, pages read names; a   *)
(* stop saves, a crash does not.                                           *)
(*                                                                         *)
(* seen, active and own are history variables.                             *)
(***************************************************************************)
EXTENDS Integers, Sequences, FiniteSets, Functions, FiniteSetsExt

CONSTANTS
  Iface, HostKey, Vlan, \* interfaces, string keys of hosts, VLANs
  MacOf,              \* the bytes of the hardware address behind a key
  Length,             \* lengths of packets
  Traffic,            \* what a flow adds to a host, see IncStats
  Message,            \* the DNS and EPP messages, see Query and Reply
  Name, NoName,       \* host names, a null pointer
  NameCache,          \* the names of addresses in Redis
  DayLength, Minute,  \* CONST_MAX_ACTIVITY_DURATION, the second level of the saved map
  MaxCommand,         \* CONST_EPP_MAX_CMD_NUM
  DumpTimeline, Persistency,  \* the two options
  Jump,               \* how far the clock may go on at once
  MaxTime, MaxEvents  \* bound the clock, and the hosts, packets, names and faults

ASSUME RecordAssumption ==
  /\ DayLength \in Nat \ {0} /\ Minute \in Nat \ {0} /\ MaxCommand \in Nat \ {0}
  /\ {MaxTime, MaxEvents} \cup Jump \subseteq Nat
  /\ DumpTimeline \in BOOLEAN /\ Persistency \in BOOLEAN
  /\ 0 \in Vlan
  /\ \A p \in Traffic : p.traffic \in [{"sent", "rcvd"} -> [pkts : Nat, bytes : Nat]]
  /\ \A m \in Message : m.proto \in {"dns", "epp"}

VARIABLES
  hosts,    \* the live hosts by number
  saved,    \* the keys "<key>.<vlan>.json" in Redis: the record, and if the key expires
  dumps,    \* the maps of activity in Redis, by path
  labels,   \* HOST_ALTERNATE_NAME in Redis
  locals,   \* the keys that are local addresses in this life of the process
  stopping, \* the process is on its way out
  clock,    \* time(NULL), and the time of the last packet
  seen,     \* bytes of each key and VLAN so far
  active,   \* the times at which each key was active
  events    \* hosts, packets, names and faults so far

recordVars == <<hosts, saved, dumps, labels, locals, stopping, clock, seen, active, events>>
-----------------------------------------------------------------------------
(* Counters.                                                               *)
\* A function with one more or another value, as a store in Redis makes of its keys.
Put(f, x, v) == [y \in DOMAIN f \cup {x} |-> IF y = x THEN v ELSE f[y]]

Dir == {"sent", "rcvd"}
L4 == {"tcp", "udp", "icmp", "other"}
Zero == [pkts |-> 0, bytes |-> 0]
NoTraffic == [d \in Dir |-> Zero]
Inc(c, t) == [pkts |-> c.pkts + t.pkts, bytes |-> c.bytes + t.bytes]
IncBoth(c, t) == [d \in Dir |-> Inc(c[d], t[d])]
Bytes(h) == h.total["sent"].bytes + h.total["rcvd"].bytes

\* PacketStats::incStats(): the class of a packet length.
Limits == {64, 128, 256, 512, 1024, 1518, 2500, 6500, 9000}
SizeClass(len) == Cardinality({ l \in Limits : l < len })

\* NdpiStats::incStats(): the counter of a protocol comes with its first packet.
IncNdpi(ndpi, proto, t) ==
  [p \in DOMAIN ndpi \cup {proto} |->
     IF p # proto THEN ndpi[p] ELSE IncBoth(IF p \in DOMAIN ndpi THEN ndpi[p] ELSE NoTraffic, t)]

\* incStats(): one of the four counters by protocol of IP.
IncL4(l4, proto, t) == IF proto \in L4 THEN [l4 EXCEPT ![proto] = IncBoth(@, t)] ELSE l4

\* Host::incStats(): totals, protocol of nDPI, packet length of a single packet, protocol of IP.
IncStats(h, p) ==
  IF \A d \in Dir : p.traffic[d].pkts = 0 THEN h
  ELSE [h EXCEPT
    !.total = IncBoth(@, p.traffic),
    !.ndpi = IF p.ndpi = 0 THEN @ ELSE IncNdpi(@, p.ndpi, p.traffic),
    !.sizes = [d \in Dir |-> IF p.traffic[d].pkts = 1
                             THEN [@[d] EXCEPT ![SizeClass(p.traffic[d].bytes)] = @ + 1] ELSE @[d]],
    !.l4 = IncL4(@, p.l4, p.traffic),
    !.own = @ + p.traffic["sent"].bytes + p.traffic["rcvd"].bytes]

\* The messages of the DNS or of EPP in one direction: a counter that is missing is zero.
NoMessages == <<>>
Bump(s, c) == Put(s, c, (IF c \in DOMAIN s THEN s[c] ELSE 0) + 1)
\* incQueryBreakdown(): 0 is a message that could not be decoded, the last kind is any other.
DnsKinds == {1, 2, 5, 6, 12, 15, 16, 28, 255}
IncQueryBreakdown(s, type) ==
  IF type = 0 THEN s ELSE Bump(s, <<"kind", IF type \in DnsKinds THEN type ELSE 0>>)
DnsQuery(s, type) == IncQueryBreakdown(Bump(s, <<"queries", 0>>), type)
\* incNumEPPQueries(): commands out of range count as epp_cmd_unknown_command.
EppQuery(s, cmd) ==
  Bump(Bump(s, <<"queries", 0>>), <<"kind", IF cmd \in 1..MaxCommand THEN cmd ELSE MaxCommand - 1>>)
Reply(s, proto, code) ==
  Bump(s, <<IF code \in (IF proto = "dns" THEN {0} ELSE 1000..1999) THEN "ok" ELSE "error", 0>>)
-----------------------------------------------------------------------------
(* The map of the day: a bit for each second with a packet.                *)
NewActivity(t) ==
  LET begin == t - (t % DayLength)
  IN  [begin |-> begin, wrap |-> begin + DayLength, map |-> {}, last |-> 0, asked |-> 0]

\* The library sets bits in growing order only.
SetBit(map, w) == IF \A b \in map : b < w THEN map \cup {w} ELSE map

\* Mutant: the map of the day before goes on.
SetActivityNoReset(a, when) ==
  [a EXCEPT !.map = @ \cup {when - a.begin}, !.last = when, !.asked = when]

\* ActivityStats::set(): a new day when the time is past the wrap, one day later only.
SetActivity(a, when) ==
  IF when = a.asked \/ when < a.begin THEN a
  ELSE LET b == IF when > a.wrap
                THEN [a EXCEPT !.begin = a.wrap, !.wrap = @ + DayLength, !.map = {}, !.last = 0] ELSE a
           w == (when - b.begin) % DayLength
       IN  [b EXCEPT !.asked = when,
                     !.map = IF w = b.last THEN @ ELSE SetBit(@, w),
                     !.last = IF w = b.last THEN @ ELSE when]

\* getJSONObject(): the first second of each run of a minute, with the date.
SavedSeconds(a) ==
  LET First[b \in 0..(DayLength - 1)] ==
        b \in a.map /\ \A c \in 0..(b - 1) : First[c] => c + Minute <= b
  IN  { a.begin + b : b \in { c \in a.map : First[c] } }
\* deserialize(): the date is dropped.
ReadSeconds(seconds) == { s % DayLength : s \in seconds }

\* The day of a dump: the middle of the map.  Dumps are written and read under two formats.
DumpDay(a) == (a.wrap - DayLength \div 2) \div DayLength
DumpPath(form, h) == <<form, h.iface, DumpDay(h.activity), h.key>>
\* writeDump() under a path, readDump() from one.
WriteDump(path, map) == Put(dumps, path, map)
ReadDump(path, map) == IF path \in DOMAIN dumps THEN dumps[path] ELSE map
\* GenericHost::dumpStats(), only for local hosts.
DumpStats(h) ==
  IF DumpTimeline /\ h.local THEN WriteDump(DumpPath("ymd", h), h.activity.map) ELSE dumps
\* GenericHost::readStats().
ReadStats(h) ==
  IF DumpTimeline THEN [h EXCEPT !.activity.map = ReadDump(DumpPath("y/m/d", h), @)] ELSE h
-----------------------------------------------------------------------------
(* The record in Redis.                                                    *)
\* set_mac(): the text of an address is hexadecimal, and is read as decimal numbers.
SetMac(mac) ==
  LET Decimal(b) == b \div 16 < 10 /\ (b % 16) < 10
  IN  [i \in DOMAIN mac |->
         IF \E j \in 1..(i - 1) : ~Decimal(mac[j]) THEN 0
         ELSE IF Decimal(mac[i]) THEN 10 * (mac[i] \div 16) + (mac[i] % 16)
         ELSE IF mac[i] \div 16 < 10 THEN mac[i] \div 16 ELSE 0]

\* getJSONObject() of TrafficStats, of PacketStats and of the two kinds of messages: the
\* counters of packet lengths and of messages that are zero are left out.
SavedTraffic(t) == [d \in Dir |-> [packets |-> t[d].pkts, bytes |-> t[d].bytes]]
SavedSizes(sizes) == [d \in Dir |-> Restrict(sizes[d], { c \in DOMAIN sizes[d] : sizes[d][c] > 0 })]
SavedDns(dns) == [d \in Dir |-> dns[d]]
SavedEpp(epp) ==
  [d \in Dir |-> Restrict(epp[d], { c \in DOMAIN epp[d] : c[1] = "kind" => c[2] \in 1..(MaxCommand - 1) })]
SavedNdpi(ndpi) ==
  [p \in DOMAIN ndpi |-> [bytes |-> [d \in Dir |-> ndpi[p][d].bytes], packets |-> [d \in Dir |-> ndpi[p][d].pkts]]]

\* Mutant: the sent traffic of the totals is that of both directions.
SerializeBoth(h, long) ==
  [long |-> long, mac |-> h.mac, name |-> h.name, local |-> h.local,
   total |-> SavedTraffic([h.total EXCEPT !["sent"] = Inc(@, h.total["rcvd"])]),
   l4 |-> [p \in L4 |-> SavedTraffic(h.l4[p])], ndpi |-> SavedNdpi(h.ndpi), sizes |-> SavedSizes(h.sizes),
   dns |-> <<>>, epp |-> <<>>, seconds |-> SavedSeconds(h.activity)]

\* Host::serialize(); a record that is longer than the buffer of the reader is cut.
Serialize(h, long) ==
  [long |-> long, mac |-> h.mac, name |-> h.name, local |-> h.local,
   total |-> SavedTraffic(h.total), l4 |-> [p \in L4 |-> SavedTraffic(h.l4[p])],
   ndpi |-> SavedNdpi(h.ndpi), sizes |-> SavedSizes(h.sizes),
   dns |-> IF h.dns = <<>> THEN <<>> ELSE SavedDns(h.dns),
   epp |-> IF h.epp = <<>> THEN <<>> ELSE SavedEpp(h.epp), seconds |-> SavedSeconds(h.activity)]

\* Their deserialize(): what is left out is zero.
ReadTraffic(t) == [d \in Dir |-> [pkts |-> t[d].packets, bytes |-> t[d].bytes]]
Sizes == 0..Cardinality(Limits)
ReadSizes(sizes) == [d \in Dir |-> [c \in Sizes |-> IF c \in DOMAIN sizes[d] THEN sizes[d][c] ELSE 0]]
ReadDns(dns) == IF dns = <<>> THEN <<>> ELSE [d \in Dir |-> dns[d]]
\* NdpiStats::deserialize(): the packets are read from the object of the bytes.
ReadNdpi(ndpi) ==
  [p \in DOMAIN ndpi |-> [d \in Dir |-> [pkts |-> ndpi[p].bytes[d], bytes |-> ndpi[p].bytes[d]]]]
\* EppStats::deserialize(): the kinds of what was received, as sent; nothing else.
ReadEpp(epp) ==
  IF epp = <<>> THEN <<>>
  ELSE [d \in Dir |-> IF d = "rcvd" THEN NoMessages
                      ELSE Restrict(epp["rcvd"], { c \in DOMAIN epp["rcvd"] : c[1] = "kind" })]

\* Mutant: the bytes so far are not taken for the last update.
DeserializeLastBytes(h, r) ==
  IF r.long THEN h
  ELSE [h EXCEPT !.mac = SetMac(r.mac), !.name = r.name, !.local = r.local, !.total = ReadTraffic(r.total),
                 !.ndpi = ReadNdpi(r.ndpi), !.activity.map = ReadSeconds(r.seconds), !.thpt.at = clock]
\* Mutant: the totals are left for the packets to come.
DeserializeTotals(h, r) ==
  IF r.long THEN h ELSE [h EXCEPT !.l4 = [p \in L4 |-> ReadTraffic(r.l4[p])], !.ndpi = ReadNdpi(r.ndpi)]

\* Host::deserialize(); a record that was cut is no JSON and changes nothing.
Deserialize(h, r) ==
  IF r.long THEN h
  ELSE [h EXCEPT !.mac = SetMac(r.mac), !.name = r.name, !.local = r.local, !.total = ReadTraffic(r.total),
                 !.l4 = [p \in L4 |-> ReadTraffic(r.l4[p])], !.ndpi = ReadNdpi(r.ndpi), !.sizes = ReadSizes(r.sizes),
                 !.dns = ReadDns(r.dns), !.epp = ReadEpp(r.epp),
                 !.activity.map = ReadSeconds(r.seconds), !.activity.last = 0,
                 !.thpt = [at |-> clock, last |-> r.total["sent"].bytes + r.total["rcvd"].bytes,
                           bytes |-> 0, per |-> 1, trend |-> "unknown"]]
-----------------------------------------------------------------------------
MayHappen == events < MaxEvents
Spend == events' = events + 1

\* Host::initialize() without init_all.
BlankHost(i, k, v, mac) ==
  [iface |-> i, key |-> k, vlan |-> v, mac |-> mac, local |-> FALSE, idle |-> FALSE,
   name |-> NoName, alt |-> NoName,
   total |-> NoTraffic, l4 |-> [p \in L4 |-> NoTraffic], ndpi |-> <<>>,
   sizes |-> [d \in Dir |-> [c \in Sizes |-> 0]], dns |-> <<>>, epp |-> <<>>,
   activity |-> NewActivity(clock), activityAt |-> 0,
   thpt |-> [at |-> 0, last |-> 0, bytes |-> 0, per |-> 1, trend |-> "unknown"], own |-> 0]

\* init_all: the record, the name of the address, the alternate name, the map of the day.
Initialize(h, found) ==
  LET local == [h EXCEPT !.local = h.key \in locals]
      read == IF local.local /\ Persistency /\ found THEN Deserialize(local, saved[<<h.key, h.vlan>>].record) ELSE local
      named == IF h.key \in DOMAIN NameCache THEN [read EXCEPT !.name = NameCache[h.key]] ELSE read
      alt == IF h.key \in DOMAIN labels THEN [named EXCEPT !.alt = labels[h.key]] ELSE named
  IN  IF alt.local THEN ReadStats(alt) ELSE alt

Listed(i, k, v) == \E o \in DOMAIN hosts : /\ ~hosts[o].idle
                                            /\ <<hosts[o].iface, hosts[o].key, hosts[o].vlan>> = <<i, k, v>>
FreshHost == Min(1..(Cardinality(DOMAIN hosts) + 1) \ DOMAIN hosts)
Link(h) ==
  /\ MayHappen
  /\ hosts' = Put(hosts, FreshHost, h)
  /\ Spend

\* The first packet of a host: findFlowHosts(), findHostByMac().
AddHost(i, k, v) ==
  /\ ~stopping /\ ~Listed(i, k, v)
  /\ Link(Initialize(BlankHost(i, k, v, MacOf[k]), <<k, v>> \in DOMAIN saved))
  /\ UNCHANGED <<saved, dumps, labels, locals, stopping, clock, seen, active>>

\* restoreHost(): a host without init_all, of VLAN 0.
RestoreHost(i, k) ==
  /\ ~stopping /\ ~Listed(i, k, 0)
  /\ Link(BlankHost(i, k, 0, [b \in DOMAIN MacOf[k] |-> 0]))
  /\ UNCHANGED <<saved, dumps, labels, locals, stopping, clock, seen, active>>

\* A packet of a flow: Flow::incStats() counts its length, updateActivities() its second.
Received(h, d, length) ==
  [h EXCEPT !.sizes[d][SizeClass(length)] = @ + 1,
            !.activity = IF clock = h.activityAt THEN @ ELSE SetActivity(@, clock),
            !.activityAt = clock]
Packet(o, d, length) ==
  LET h == hosts[o]
  IN  /\ ~h.idle /\ ~stopping /\ MayHappen
      /\ dumps' = IF clock # h.activityAt /\ clock > h.activity.wrap THEN DumpStats(h) ELSE dumps
      /\ hosts' = [hosts EXCEPT ![o] = Received(h, d, length)]
      /\ active' = [active EXCEPT ![h.key] = @ \cup {clock}]
      /\ Spend
      /\ UNCHANGED <<saved, labels, locals, stopping, clock, seen>>

\* What a flow counted since the last time: incStats().
Count(o, p) ==
  LET h == hosts[o]
  IN  /\ ~h.idle /\ ~stopping /\ MayHappen
      /\ hosts' = [hosts EXCEPT ![o] = IncStats(h, p)]
      /\ seen' = [seen EXCEPT ![<<h.key, h.vlan>>] = @ + p.traffic["sent"].bytes + p.traffic["rcvd"].bytes]
      /\ Spend
      /\ UNCHANGED <<saved, dumps, labels, locals, stopping, clock, active>>

\* incNumDNSQueriesSent() and the rest: the statistics are made with the first message.
Talk(o, m) ==
  LET stats == IF hosts[o][m.proto] = <<>> THEN [d \in Dir |-> NoMessages] ELSE hosts[o][m.proto]
      Told(s) == CASE m.what = "reply" -> Reply(s, m.proto, m.code)
                   [] m.what = "query" /\ m.proto = "dns" -> DnsQuery(s, m.code)
                   [] m.what = "query" /\ m.proto = "epp" -> EppQuery(s, m.code)
  IN  /\ ~hosts[o].idle /\ ~stopping /\ MayHappen
      /\ hosts' = [hosts EXCEPT ![o] = [@ EXCEPT ![m.proto] = [stats EXCEPT ![m.dir] = Told(@)]]]
      /\ Spend
      /\ UNCHANGED <<saved, dumps, labels, locals, stopping, clock, seen, active>>

\* updateStats(): rates are bytes in so many seconds.
UpdateThroughput(h) ==
  LET t == h.thpt
      delta == Bytes(h) - t.last
      per == clock - t.at
      trend == IF t.bytes * per < delta * t.per THEN "up"
               ELSE IF t.bytes * per > delta * t.per THEN "down" ELSE "stable"
  IN  IF h.idle \/ clock = t.at THEN t
      ELSE IF t.at = 0 THEN [t EXCEPT !.at = clock]
      ELSE [at |-> clock, last |-> Bytes(h), bytes |-> delta, per |-> per, trend |-> trend]

\* The script of every second: updateHostStats() of an interface.
UpdateStats(i) ==
  /\ \E o \in DOMAIN hosts : hosts[o].iface = i /\ ~hosts[o].idle /\ clock # hosts[o].thpt.at
  /\ hosts' = [o \in DOMAIN hosts |->
                 IF hosts[o].iface = i THEN [hosts[o] EXCEPT !.thpt = UpdateThroughput(hosts[o])] ELSE hosts[o]]
  /\ UNCHANGED <<saved, dumps, labels, locals, stopping, clock, seen, active, events>>

GoIdle(o) ==
  /\ ~hosts[o].idle /\ MayHappen
  /\ hosts' = [hosts EXCEPT ![o].idle = TRUE]
  /\ Spend
  /\ UNCHANGED <<saved, dumps, labels, locals, stopping, clock, seen, active>>

\* ~Host(), by the sweep or at the stop: the map, the alternate name, then the record.
Purge(o, long, lost) ==
  LET h == hosts[o]
  IN  /\ h.idle \/ stopping
      /\ lost \/ long => MayHappen
      /\ dumps' = DumpStats(h)
      /\ labels' = IF h.alt = NoName THEN labels ELSE Put(labels, h.key, h.alt)
      /\ saved' = IF h.local /\ Persistency /\ ~lost
                  THEN Put(saved, <<h.key, h.vlan>>, [record |-> Serialize(h, long)]) ELSE saved
      /\ hosts' = [x \in DOMAIN hosts \ {o} |-> hosts[x]]
      /\ IF lost \/ long THEN Spend ELSE UNCHANGED events
      /\ UNCHANGED <<locals, stopping, clock, seen, active>>

\* Redis forgets the record after an hour.
Expire(k, v) ==
  /\ <<k, v>> \in DOMAIN saved /\ MayHappen
  /\ saved' = [x \in DOMAIN saved \ {<<k, v>>} |-> saved[x]]
  /\ Spend
  /\ UNCHANGED <<hosts, dumps, labels, locals, stopping, clock, seen, active>>

Stop ==
  /\ ~stopping /\ MayHappen
  /\ stopping' = TRUE
  /\ Spend
  /\ UNCHANGED <<hosts, saved, dumps, labels, locals, clock, seen, active>>
Crash ==
  /\ ~stopping /\ MayHappen
  /\ hosts' = <<>> /\ stopping' = TRUE
  /\ Spend
  /\ UNCHANGED <<saved, dumps, labels, locals, clock, seen, active>>
\* The next life of the process may have other local networks.
Restart ==
  /\ stopping /\ hosts = <<>>
  /\ stopping' = FALSE
  /\ \E L \in SUBSET HostKey : locals' = L
  /\ UNCHANGED <<hosts, saved, dumps, labels, clock, seen, active, events>>

Advance(d) ==
  /\ clock + d <= MaxTime /\ MayHappen
  /\ clock' = clock + d
  /\ Spend
  /\ UNCHANGED <<hosts, saved, dumps, labels, locals, stopping, seen, active>>
-----------------------------------------------------------------------------
(* Names.                                                                  *)
MayName(o) == ~hosts[o].idle /\ ~stopping /\ MayHappen

\* setName(), under the lock of the host: the poller has seen the name in the traffic.
SetName(o, n) ==
  /\ MayName(o)
  /\ hosts' = [hosts EXCEPT ![o].name = n]
  /\ Spend
  /\ UNCHANGED <<saved, dumps, labels, locals, stopping, clock, seen, active>>

\* get_name(): the name, else that of the cache, else the address itself.
GetName(o) ==
  LET h == hosts[o]
  IN  /\ MayName(o) /\ h.name \in {NoName, h.key}
      /\ hosts' = [hosts EXCEPT ![o].name = IF h.key \in DOMAIN NameCache THEN NameCache[h.key] ELSE h.key]
      /\ Spend
      /\ UNCHANGED <<saved, dumps, labels, locals, stopping, clock, seen, active>>

\* set_alternate_name(): stored at once when it is another.
SetAlternateName(o, n) ==
  /\ MayName(o) /\ hosts[o].alt # n
  /\ hosts' = [hosts EXCEPT ![o].alt = n]
  /\ labels' = Put(labels, hosts[o].key, n)
  /\ Spend
  /\ UNCHANGED <<saved, dumps, locals, stopping, clock, seen, active>>

RecordInit ==
  /\ hosts = <<>> /\ saved = <<>> /\ dumps = <<>> /\ labels = <<>>
  /\ locals \in SUBSET HostKey
  /\ stopping = FALSE /\ clock = 1
  /\ seen = [k \in HostKey \X Vlan |-> 0]
  /\ active = [k \in HostKey |-> {}]
  /\ events = 0

OfHost(o) ==
  \/ \E d \in Dir, length \in Length : Packet(o, d, length)
  \/ \E p \in Traffic : Count(o, p)
  \/ \E m \in Message : Talk(o, m)
  \/ GoIdle(o)
  \/ \E long, lost \in BOOLEAN : Purge(o, long, lost)
  \/ \E n \in Name : SetName(o, n) \/ SetAlternateName(o, n)
  \/ GetName(o)

RecordNext ==
  \/ \E i \in Iface, k \in HostKey : RestoreHost(i, k) \/ \E v \in Vlan : AddHost(i, k, v)
  \/ \E i \in Iface : UpdateStats(i)
  \/ \E o \in DOMAIN hosts : OfHost(o)
  \/ \E k \in HostKey, v \in Vlan : Expire(k, v)
  \/ Stop \/ Crash \/ Restart
  \/ \E d \in Jump : Advance(d)

RecordSpec == RecordInit /\ [][RecordNext]_recordVars
-----------------------------------------------------------------------------
\* No byte is counted twice for a host: whatever is saved, read back, kept too long or
\* lost, a host shows at most the bytes of its key so far, on all interfaces.
NeverCountedTwice ==
  \A o \in DOMAIN hosts : Bytes(hosts[o]) <= seen[hosts[o].key, hosts[o].vlan]

\* The parts of a host's traffic go on adding up to no more than the whole: by protocol
\* of IP, and by protocol of nDPI in bytes.
PartsWithinTotals ==
  \A o \in DOMAIN hosts, d \in Dir :
    LET h == hosts[o]
        Sum(parts, What(_)) == MapThenSumSet(LAMBDA p : What(parts[p][d]), DOMAIN parts)
    IN  /\ Sum(h.l4, LAMBDA c : c.pkts) <= h.total[d].pkts
        /\ Sum(h.l4, LAMBDA c : c.bytes) <= h.total[d].bytes
        /\ Sum(h.ndpi, LAMBDA c : c.bytes) <= h.total[d].bytes

\* The throughput of a host counts its own packets, never those read back from the record.
ThroughputOfOwn == \A o \in DOMAIN hosts : hosts[o].thpt.bytes \in 0..hosts[o].own

\* Each bit of the map of a host is a second of a day at which its key was active.
ActivityIsReal ==
  \A o \in DOMAIN hosts : \A b \in hosts[o].activity.map : \E t \in active[hosts[o].key] : t % DayLength = b
-----------------------------------------------------------------------------
\* Not so: a map read back after midnight has the seconds of the day before.
MapOfTheDay ==
  \A o \in DOMAIN hosts : \A b \in hosts[o].activity.map : hosts[o].activity.begin + b \in active[hosts[o].key]
\* Not so: packets are read back as bytes.
NdpiPacketsWithinTotals ==
  \A o \in DOMAIN hosts, d \in Dir : \A p \in DOMAIN hosts[o].ndpi :
    hosts[o].ndpi[p][d].pkts <= hosts[o].total[d].pkts
\* Not so: the last host that goes writes the record, and it may have counted less.
RecordGrows ==
  [][\A x \in DOMAIN saved \cap DOMAIN saved' :
       saved'[x].record.total["sent"].bytes + saved'[x].record.total["rcvd"].bytes
       >= saved[x].record.total["sent"].bytes + saved[x].record.total["rcvd"].bytes]_recordVars
\* Not so: the host that is "restored from cache" starts from nothing.
RestoredFromCache ==
  [][\A i \in Iface, k \in HostKey : RestoreHost(i, k) /\ <<k, 0>> \in DOMAIN saved =>
       hosts'[FreshHost].total = ReadTraffic(saved[k, 0].record.total)]_recordVars
===============================================================================
