---------------------------- MODULE FlowLifeProofs ----------------------------
(***************************************************************************)
(* Proofs about FlowLife: the packets of flows are those of the interface, *)
(* what a flow takes for given was given, the row of every flow is kept,   *)
(* and a domain is asked for once, for every frame, record, protocol and   *)
(* any number of them.                                                     *)
(***************************************************************************)
EXTENDS FlowLife, SumTheorems

\* Counters of the two directions, and their order.
Counts == [cs : Nat, sc : Nat]
Le(a, b) == a.cs <= b.cs /\ a.sc <= b.sc

\* A flow: it never takes more for given than it counted.
Fields == {"count", "last", "seen", "proto", "completed", "processed", "ndpi", "agg", "category", "emitted",
           "cli", "srv", "calls"}
FlowOK(f) == DOMAIN f = Fields /\ f.count \in Counts /\ f.last \in Counts /\ Le(f.last, f.count)
\* What the steps of a handler between two counts do not touch.
Same(f, g) == DOMAIN g = Fields /\ g.count = f.count /\ g.last = f.last
-------------------------------------------------------------------------------
(* Counters.                                                               *)

LEMMA CountsAdd ==
  ASSUME NEW a \in Counts, NEW b \in Counts
  PROVE  /\ Add(a, b) \in Counts /\ Le(a, Add(a, b)) /\ Packets(Add(a, b)) = Packets(a) + Packets(b)
         /\ Packets(a) \in Nat
BY DEF Counts, Add, Le, Packets

LEMMA CountsMinus ==
  ASSUME NEW a \in Counts, NEW b \in Counts, Le(b, a)
  PROVE  Minus(a, b) \in Counts /\ Add(b, Minus(a, b)) = a
BY DEF Counts, Add, Minus, Le

LEMMA LeTrans ==
  ASSUME NEW a \in Counts, NEW b \in Counts, NEW c \in Counts, Le(a, b), Le(b, c)
  PROVE  Le(a, c)
BY DEF Counts, Le

LEMMA LeAdd ==
  ASSUME NEW a \in Counts, NEW b \in Counts, NEW c \in Counts, Le(a, b)
  PROVE  Le(Add(c, a), Add(c, b)) /\ Le(a, Add(b, c))
BY DEF Counts, Le, Add
-------------------------------------------------------------------------------
(* The handlers of a flow change its counters where they count only.       *)

LEMMA AggregateSame ==
  ASSUME NEW f, DOMAIN f = Fields, NEW name, NEW family, NEW mode, NEW track
  PROVE  Same(f, AggregateInfo(f, name, family, mode, track))
BY DEF AggregateInfo, Same, Fields

LEMMA CallSame ==
  ASSUME NEW f, DOMAIN f = Fields, NEW what, NEW name
  PROVE  Same(f, Call(f, what, name))
BY DEF Call, Same, Fields

LEMMA DeleteSame ==
  ASSUME NEW f, DOMAIN f = Fields
  PROVE  Same(f, DeleteFlowMemory(f))
BY DEF DeleteFlowMemory, Same, Fields

LEMMA SameFields ==
  ASSUME NEW f, NEW g, Same(f, g)
  PROVE  DOMAIN g = Fields
BY DEF Same

LEMMA SameTrans ==
  ASSUME NEW f, NEW g, NEW h, Same(f, g), Same(g, h)
  PROVE  Same(f, h)
BY DEF Same

LEMMA DnsSame ==
  ASSUME NEW f, DOMAIN f = Fields
  PROVE  Same(f, ProcessDns(f))
<1> DEFINE n == f.ndpi
           track == n.code = 0 /\ (n.at \/ n.answers > 0)
           final == n.code = 0 /\ n.answers > 0
           reverse == n.name # NoName /\ Last(n.name) = "arpa"
           g == AggregateInfo(f, n.name, "dns", "domain", track)
<1>1. Same(f, g)
  BY AggregateSame
<1>2. Same(f, [g EXCEPT !.ndpi.at = FALSE, !.processed = final])
  <2> HIDE DEF g, final
  <2> QED
    BY <1>1 DEF Same, Fields
<1>3. Same(f, f)
  BY DEF Same
<1>4. ProcessDns(f) = IF ~conf.dns \/ n.name = NoName \/ (reverse /\ ~n.at) THEN f
                      ELSE [g EXCEPT !.ndpi.at = FALSE, !.processed = final]
  BY DEF ProcessDns
<1> HIDE DEF g, final, reverse, n
<1> QED
  BY <1>2, <1>3, <1>4

LEMMA HttpSame ==
  ASSUME NEW f, DOMAIN f = Fields
  PROVE  Same(f, ProcessHttp(f))
<1> DEFINE n == f.ndpi
           nat == AggregateInfo(f, n.nat, f.proto, "client", TRUE)
           server == AggregateInfo(nat, n.name, f.proto, "domain", TRUE)
           known == Call(server, "category", n.name)
           os == AggregateInfo(known, n.os, "os", "os", TRUE)
<1>1. Same(f, nat)
  BY AggregateSame
<1>2. Same(nat, server)
  <2> HIDE DEF nat
  <2> QED
    BY <1>1, AggregateSame, SameFields
<1>3. Same(server, known)
  <2> HIDE DEF server
  <2>1. DOMAIN server = Fields
    BY <1>2, SameFields
  <2> QED
    BY <2>1, CallSame
<1>4. Same(known, os)
  <2> HIDE DEF known
  <2> QED
    BY <1>3, AggregateSame, SameFields
<1>5. ProcessHttp(f) = IF n.name = NoName THEN nat ELSE [os EXCEPT !.processed = TRUE]
  BY DEF ProcessHttp
<1> HIDE DEF nat, server, known, os, n
<1>6. Same(f, os)
  BY <1>1, <1>2, <1>3, <1>4 DEF Same
<1>7. Same(f, [os EXCEPT !.processed = TRUE])
  BY <1>6 DEF Same, Fields
<1> QED
  BY <1>1, <1>5, <1>7

LEMMA NameSame ==
  ASSUME NEW f, DOMAIN f = Fields
  PROVE  Same(f, ProcessName(f))
<1> DEFINE whois == AggregateInfo(f, f.ndpi.name, "whois", "domain", TRUE)
<1>1. Same(f, ProcessDns(f)) /\ Same(f, ProcessHttp(f)) /\ Same(f, whois)
  BY DnsSame, HttpSame, AggregateSame
<1>2. Same(f, f) /\ Same(f, [f EXCEPT !.processed = TRUE])
  BY DEF Same, Fields
<1> HIDE DEF whois
<1>3. Same(f, [whois EXCEPT !.processed = TRUE])
  BY <1>1 DEF Same, Fields
<1> QED
  BY <1>1, <1>2, <1>3 DEF ProcessName, whois

LEMMA ProcessSame ==
  ASSUME NEW f, DOMAIN f = Fields
  PROVE  Same(f, ProcessDetectedProtocol(f))
<1> DEFINE done == ProcessName(f)
<1>1. Same(f, done) /\ Same(f, f)
  BY NameSame DEF Same
<1>2. Same(f, DeleteFlowMemory(done))
  <2> HIDE DEF done
  <2> QED
    BY <1>1, DeleteSame DEF Same
<1> QED
  BY <1>1, <1>2 DEF ProcessDetectedProtocol

LEMMA GuessSame ==
  ASSUME NEW f, DOMAIN f = Fields, NEW guess
  PROVE  Same(f, GuessProtocol(f, guess))
BY DEF GuessProtocol, Same, Fields

LEMMA DetectedSame ==
  ASSUME NEW f, DOMAIN f = Fields, NEW proto, NEW guess
  PROVE  Same(f, SetDetectedProtocol(f, proto, guess))
<1> DEFINE g == [f EXCEPT !.proto = proto]
           done == ProcessDetectedProtocol(g)
<1>1. Same(f, g) /\ Same(f, f) /\ Same(f, GuessProtocol(f, guess))
  BY GuessSame DEF Same, Fields
<1>2. Same(g, done)
  <2> HIDE DEF g
  <2> QED
    BY <1>1, ProcessSame DEF Same
<1>3. Same(f, [done EXCEPT !.completed = TRUE])
  <2> HIDE DEF g, done
  <2> QED
    BY <1>1, <1>2 DEF Same, Fields
<1> QED
  BY <1>1, <1>3 DEF SetDetectedProtocol

LEMMA InspectSame ==
  ASSUME NEW f, DOMAIN f = Fields, NEW o
  PROVE  Same(f, Inspect(f, o))
BY DEF Inspect, Same, Fields

LEMMA FinishSame ==
  ASSUME NEW f, DOMAIN f = Fields, NEW o
  PROVE  Same(f, Finish(f, o))
<1> DEFINE again == Inspect(f, o)
           negative == AggregateInfo(again, again.ndpi.name, "dns", "domain", FALSE)
           dns == IF again.ndpi.memory /\ again.ndpi.code # 0 THEN negative ELSE again
           before == IF f.proto = "dns" THEN dns ELSE f
           done == ProcessDetectedProtocol(before)
<1>1. Same(f, again) /\ Same(f, f)
  BY InspectSame DEF Same
<1>2. Same(f, negative)
  <2> HIDE DEF again
  <2> QED
    BY <1>1, AggregateSame, SameTrans, SameFields
<1>3. Same(f, before)
  <2> HIDE DEF again, negative
  <2> QED
    BY <1>1, <1>2
<1>4. Same(f, done)
  <2> HIDE DEF before
  <2> QED
    BY <1>3, ProcessSame DEF Same
<1>5. Same(f, DeleteFlowMemory(done))
  <2> HIDE DEF done
  <2> QED
    BY <1>4, DeleteSame DEF Same
<1>6. Finish(f, o) = IF done.proto # "dns" THEN DeleteFlowMemory(done) ELSE done
  BY DEF Finish
<1> HIDE DEF done
<1> QED
  BY <1>4, <1>5, <1>6

LEMMA EppSame ==
  ASSUME NEW f, DOMAIN f = Fields, NEW z
  PROVE  Same(f, ProcessEpp(f, z))
BY DEF ProcessEpp, Same, Fields

LEMMA HandleSame ==
  ASSUME NEW f, DOMAIN f = Fields, NEW z, NEW dir
  PROVE  Same(f, HandleProcesses(f, z, dir))
BY DEF HandleProcesses, Same, Fields
-------------------------------------------------------------------------------
(* What a frame and a record add to a flow, and to the interface.          *)

\* The flow g has counted c more than f.
Counted(f, g, c) == DOMAIN g = Fields /\ g.count = Add(f.count, c) /\ g.last = f.last

LEMMA CountCounts ==
  ASSUME NEW f, DOMAIN f = Fields, NEW c, NEW at
  PROVE  Counted(f, Count(f, c, at), c)
BY DEF Count, Counted, Fields

LEMMA CountedSame ==
  ASSUME NEW f, NEW g, NEW h, NEW c, Counted(f, g, c), Same(g, h)
  PROVE  Counted(f, h, c)
BY DEF Counted, Same

LEMMA CountedFields ==
  ASSUME NEW f, NEW g, NEW c, Counted(f, g, c)
  PROVE  DOMAIN g = Fields
BY DEF Counted

\* One packet, in one of the two directions.
One(dir) == IF dir THEN [cs |-> 1, sc |-> 0] ELSE [cs |-> 0, sc |-> 1]

LEMMA OnePacket ==
  ASSUME NEW dir \in BOOLEAN
  PROVE  One(dir) \in Counts /\ Packets(One(dir)) = 1
BY DEF One, Counts, Packets

LEMMA FlowPacketCounts ==
  ASSUME NEW f, DOMAIN f = Fields, NEW frame, NEW dir, NEW o, NEW guess
  PROVE  Counted(f, FlowPacket(f, frame, dir, o, guess), One(dir))
<1> DEFINE counted == Count(f, One(dir), frame.at)
           inspected == Inspect(counted, o)
           proto == Found(counted, o)
           set == SetDetectedProtocol(inspected, proto, guess)
           detected == IF frame.fragment THEN counted ELSE set
<1>1. Counted(f, counted, One(dir))
  BY CountCounts
<1>2. Counted(f, inspected, One(dir))
  <2> HIDE DEF counted
  <2> QED
    BY <1>1, CountedFields, CountedSame, InspectSame
<1>3. Counted(f, set, One(dir))
  <2> HIDE DEF inspected, proto
  <2> QED
    BY <1>2, CountedFields, CountedSame, DetectedSame
<1>4. Counted(f, detected, One(dir))
  BY <1>1, <1>3
<1>5. Counted(f, Finish(detected, o), One(dir))
  <2> HIDE DEF detected
  <2> QED
    BY <1>4, CountedFields, CountedSame, FinishSame
<1>6. FlowPacket(f, frame, dir, o, guess) = IF detected.completed THEN Finish(detected, o) ELSE detected
  BY DEF FlowPacket, One
<1> HIDE DEF detected
<1> QED
  BY <1>4, <1>5, <1>6

\* What a record says it counted.
Amount(z, dir) == IF dir THEN [cs |-> z.rate * z.in, sc |-> z.rate * z.out]
                  ELSE [cs |-> z.rate * z.out, sc |-> z.rate * z.in]

LEMMA FlowRecordCounts ==
  ASSUME NEW f, DOMAIN f = Fields, NEW z, NEW dir, NEW guess
  PROVE  Counted(f, FlowRecord(f, z, dir, guess), Amount(z, dir))
<1> DEFINE c == Amount(z, dir)
           counted == Count(f, c, z.last)
           set == SetDetectedProtocol(counted, z.l7, guess)
           epp == ProcessEpp(set, z)
           system == HandleProcesses(epp, z, dir)
<1>1. Counted(f, counted, c)
  BY CountCounts
<1>2. Counted(f, set, c)
  <2> HIDE DEF counted, c
  <2> QED
    BY <1>1, CountedFields, CountedSame, DetectedSame
<1>3. Counted(f, epp, c)
  <2> HIDE DEF set, c
  <2> QED
    BY <1>2, CountedFields, CountedSame, EppSame
<1>4. Counted(f, system, c)
  <2> HIDE DEF epp, c
  <2> QED
    BY <1>3, CountedFields, CountedSame, HandleSame
<1>5. Counted(f, GuessProtocol(system, guess), c)
  <2> HIDE DEF system, c
  <2> QED
    BY <1>4, CountedFields, CountedSame, GuessSame
<1>6. FlowRecord(f, z, dir, guess) =
        IF (z.src.pid # 0 \/ z.dst.pid # 0) /\ z.l7 = "unknown" THEN GuessProtocol(system, guess) ELSE system
  BY DEF FlowRecord, Amount
<1> HIDE DEF system, c
<1> QED
  BY <1>4, <1>5, <1>6 DEF c

\* A record is numbers of packets, whatever fields it has.
LEMMA ParsedCounts ==
  ASSUME NEW r \in Record
  PROVE  LET z == ParseRecord(r) IN z.rate \in Nat /\ z.in \in Nat /\ z.out \in Nat
<1> DEFINE z == ParseRecord(r)
<1>1. \A n \in {"IN_PKTS", "OUT_PKTS", "SAMPLING_INTERVAL"} :
        n \in DOMAIN r => r[n] \in Nat
  BY RecordAssumption DEF RecordAssumption
<1>2. Field(r, "IN_PKTS", 0) \in Nat /\ Field(r, "OUT_PKTS", 0) \in Nat /\ Field(r, "SAMPLING_INTERVAL", 1) \in Nat
  BY <1>1 DEF Field
<1>3. ASSUME NEW y, DOMAIN y = {"sport", "dport", "vlan", "l4", "l7", "in", "out", "rate", "last", "epp", "registrar",
                                "server", "domains", "src", "dst"},
             y.rate \in Nat, y.in \in Nat, y.out \in Nat
      PROVE  EppDefaults(y).rate \in Nat /\ EppDefaults(y).in \in Nat /\ EppDefaults(y).out \in Nat
  BY <1>3 DEF EppDefaults
<1> QED
  BY <1>2, <1>3 DEF ParseRecord

LEMMA AmountCounts ==
  ASSUME NEW r \in Record, NEW dir \in BOOLEAN
  PROVE  LET z == ParseRecord(r)
         IN  Amount(z, dir) \in Counts /\ Packets(Amount(z, dir)) = z.rate * (z.in + z.out)
<1> DEFINE z == ParseRecord(r)
<1>1. z.rate \in Nat /\ z.in \in Nat /\ z.out \in Nat
  BY ParsedCounts
<1> HIDE DEF z
<1>2. z.rate * z.in \in Nat /\ z.rate * z.out \in Nat /\ z.rate * (z.in + z.out) = z.rate * z.in + z.rate * z.out
  BY <1>1
<1>3. Amount(z, dir) \in Counts /\ Packets(Amount(z, dir)) = z.rate * (z.in + z.out)
  BY <1>2 DEF Amount, Counts, Packets
<1> QED
  BY <1>3 DEF z

EthFields == {"raw", "ip4", "ip6", "arp", "mpls", "other", "ndpi", "system"}
EthOK(s) == DOMAIN s = EthFields /\ s.raw \in Nat

LEMMA IncInterfaceRaw ==
  ASSUME NEW s, EthOK(s), NEW type, NEW n \in Nat
  PROVE  EthOK(IncInterface(s, type, n)) /\ IncInterface(s, type, n).raw = s.raw + n
<1>1. EthClass(type) \in {"ip4", "ip6", "arp", "mpls", "other"}
  BY DEF EthClass
<1> QED
  BY <1>1 DEF IncInterface, EthOK, EthFields

\* A frame is counted once or more when it goes to a flow.
LEMMA CountFrameRaw ==
  ASSUME NEW s, EthOK(s), NEW f
  PROVE  /\ EthOK(CountFrame(s, f)) /\ CountFrame(s, f).raw >= s.raw
         /\ Dissect(f) = "packet" => CountFrame(s, f).raw >= s.raw + 1
<1> DEFINE linked == IF f.link = "cooked" THEN IncInterface(s, "none", 1) ELSE s
           type == AfterTags(f)
           d == Dissect(f)
<1>1. EthOK(linked) /\ linked.raw >= s.raw /\ linked.raw \in Nat /\ s.raw \in Nat
  <2>1. EthOK(IncInterface(s, "none", 1)) /\ IncInterface(s, "none", 1).raw = s.raw + 1
    BY IncInterfaceRaw
  <2> QED
    BY <2>1 DEF EthOK
<1>2. CountFrame(s, f) = CASE d = "left" -> IncInterface(linked, "none", 1)
                           [] d \in {"other", "short", "packet"} -> IncInterface(linked, type, 1)
                           [] OTHER -> linked
  BY DEF CountFrame
<1> HIDE DEF linked, type, d
<1>3. /\ EthOK(IncInterface(linked, "none", 1)) /\ IncInterface(linked, "none", 1).raw = linked.raw + 1
      /\ EthOK(IncInterface(linked, type, 1)) /\ IncInterface(linked, type, 1).raw = linked.raw + 1
  BY <1>1, IncInterfaceRaw
<1> QED
  BY <1>1, <1>2, <1>3 DEF d
-------------------------------------------------------------------------------
(* The inductive invariants.                                               *)

\* A thread in update_hosts_stats(): before it gives, what it read is within what the flow
\* counted, and what it is about to give makes up for what it will note as given.
Steps == {"idle", "give", "name", "alert"}
UpdOK(t) ==
  /\ upd[t].pc \in Steps
  /\ upd[t].pc = "name" => DOMAIN upd[t] = {"pc", "diff", "read", "name", "freed"}
  /\ upd[t].pc = "give" =>
       /\ DOMAIN upd[t] = {"pc", "read", "diff"} /\ flow # NoFlow
       /\ upd[t].read \in Counts /\ upd[t].diff \in Counts
       /\ Le(upd[t].read, flow.count) /\ Le(Add(ended.last, upd[t].read), Add(hosts, upd[t].diff))

\* What the flows so far take for given.
Taken == IF flow = NoFlow THEN ended.last ELSE Add(ended.last, flow.last)
FlowInv ==
  /\ flow = NoFlow \/ FlowOK(flow)
  /\ DOMAIN ended = {"packets", "last", "flows"} /\ ended.packets \in Counts /\ ended.last \in Counts
  /\ hosts \in Counts /\ Le(Taken, hosts)
  /\ EthOK(iface) /\ Packets(FlowPackets) <= iface.raw
LifeInv == FlowInv /\ DOMAIN upd = Updater /\ \A t \in Updater : UpdOK(t)

Ids(rows) == { r.id : r \in rows }
RowsInv ==
  /\ DOMAIN db = {"handle", "pending", "committed", "lost"} /\ "flows" \in DOMAIN ended /\ ended.flows \in Nat
  /\ conf.dump => (phase = "stopped" => db.pending = {})
  /\ conf.dump => Ids(db.committed) \cup Ids(db.pending) \cup db.lost = 1..ended.flows

\* A domain that was asked for has a category as long as that counts.
AskInv ==
  /\ DOMAIN asking = {"queue", "name", "asked"}
  /\ \A n \in DOMAIN asking.asked : asking.asked[n] = 0 \/ (asking.asked[n] = 1 /\ n \in DOMAIN cache)
-------------------------------------------------------------------------------
(* The steps of the flow and of its counters.                              *)

LEMMA NotNoFlow ==
  ASSUME NEW f, FlowOK(f)
  PROVE  f # NoFlow
<1>1. DOMAIN f # DOMAIN NoFlow
  BY DEF FlowOK, Fields, NoFlow
<1> QED
  BY <1>1

LEMMA LifeUnchanged ==
  ASSUME LifeInv, UNCHANGED <<flow, ended, hosts, upd, iface>>
  PROVE  LifeInv'
BY DEF LifeInv, FlowInv, UpdOK, Taken, FlowPackets

\* A thread that is not at its turn stays right while flow and hosts count on.
LEMMA UpdKept ==
  ASSUME NEW t \in Updater, UpdOK(t), upd'[t] = upd[t], ended' = ended, ended.last \in Counts,
         hosts \in Counts, hosts' \in Counts, Le(hosts, hosts'),
         flow # NoFlow => FlowOK(flow) /\ FlowOK(flow') /\ Le(flow.count, flow'.count)
  PROVE  UpdOK(t)'
<1>1. CASE upd[t].pc = "give"
  <2>1. /\ flow # NoFlow /\ upd[t].read \in Counts /\ upd[t].diff \in Counts
        /\ Le(upd[t].read, flow.count) /\ Le(Add(ended.last, upd[t].read), Add(hosts, upd[t].diff))
    BY <1>1 DEF UpdOK
  <2>2. flow.count \in Counts /\ flow'.count \in Counts /\ flow' # NoFlow
    BY <2>1, NotNoFlow DEF FlowOK
  <2>3. Le(upd[t].read, flow'.count)
    BY <2>1, <2>2, LeTrans
  <2>4. Le(Add(ended.last, upd[t].read), Add(hosts', upd[t].diff))
    BY <2>1 DEF Le, Add, Counts
  <2> QED
    BY <1>1, <2>1, <2>2, <2>3, <2>4 DEF UpdOK
<1>2. CASE upd[t].pc # "give"
  BY <1>2 DEF UpdOK
<1> QED
  BY <1>1, <1>2

\* A handler that counts c more, for the flow and for the interface.
LEMMA FlowCounts ==
  ASSUME LifeInv, NEW c \in Counts, Counted(Fresh, flow', c), UNCHANGED <<ended, hosts, upd>>,
         EthOK(iface'), iface'.raw >= iface.raw + Packets(c)
  PROVE  LifeInv'
<1>1. /\ FlowInv /\ ended.packets \in Counts /\ ended.last \in Counts /\ hosts \in Counts /\ Le(Taken, hosts)
      /\ Packets(FlowPackets) <= iface.raw /\ iface.raw \in Nat /\ iface'.raw \in Nat
  BY DEF LifeInv, FlowInv, EthOK
<1>2. FlowOK(Fresh) /\ (flow # NoFlow => Fresh = flow) /\ (flow = NoFlow => Fresh.last = NoCount /\ Fresh.count = NoCount)
  <2>1. CASE flow = NoFlow
    <3>1. DOMAIN NewFlow = Fields /\ NewFlow.count = NoCount /\ NewFlow.last = NoCount
      BY DEF NewFlow, Fields
    <3> QED
      BY <2>1, <3>1 DEF Fresh, FlowOK, NoCount, Counts, Le
  <2>2. CASE flow # NoFlow
    BY <1>1, <2>2 DEF Fresh, FlowInv
  <2> QED
    BY <2>1, <2>2
<1>3. Fresh.count \in Counts /\ Fresh.last \in Counts
  BY <1>2 DEF FlowOK
<1>4. flow'.count = Add(Fresh.count, c) /\ flow'.last = Fresh.last /\ Le(Fresh.count, flow'.count) /\ flow'.count \in Counts
  BY <1>3, CountsAdd DEF Counted
<1>5. FlowOK(flow') /\ flow' # NoFlow
  <2>1. Le(flow'.last, flow'.count)
    BY <1>2, <1>3, <1>4, LeTrans DEF FlowOK
  <2> QED
    BY <1>3, <1>4, <2>1, NotNoFlow DEF FlowOK, Counted
<1>6. Le(Taken, hosts)'
  <2>1. Taken' = Add(ended.last, Fresh.last)
    BY <1>4, <1>5 DEF Taken
  <2>2. Add(ended.last, Fresh.last) = Taken
    <3>1. CASE flow # NoFlow
      BY <1>2, <3>1 DEF Taken
    <3>2. CASE flow = NoFlow
      BY <1>1, <1>2, <3>2 DEF Taken, Add, NoCount, Counts
    <3> QED
      BY <3>1, <3>2
  <2> QED
    BY <1>1, <2>1, <2>2
<1>7. (Packets(FlowPackets) <= iface.raw)'
  <2>1. FlowPackets' = Add(ended.packets, Add(Fresh.count, c))
    BY <1>4, <1>5 DEF FlowPackets
  <2>2. Packets(Add(ended.packets, Fresh.count)) = Packets(FlowPackets)
    <3>1. CASE flow # NoFlow
      BY <1>2, <3>1 DEF FlowPackets
    <3>2. CASE flow = NoFlow
      BY <1>1, <1>2, <3>2 DEF FlowPackets, Add, NoCount, Counts, Packets
    <3> QED
      BY <3>1, <3>2
  <2>3. Packets(Add(ended.packets, Add(Fresh.count, c))) = Packets(Add(ended.packets, Fresh.count)) + Packets(c)
    BY <1>1, <1>3 DEF Packets, Add, Counts
  <2>4. Packets(c) \in Nat /\ Packets(FlowPackets) \in Nat
    BY <1>1, <1>3, <2>2 DEF Packets, Add, Counts
  <2> QED
    BY <1>1, <2>1, <2>2, <2>3, <2>4
<1>8. FlowInv'
  BY <1>1, <1>5, <1>6, <1>7 DEF FlowInv
<1>9. ASSUME NEW t \in Updater PROVE UpdOK(t)'
  <2>1. UpdOK(t) /\ Le(hosts, hosts)
    BY <1>1 DEF LifeInv, Le, Counts
  <2> QED
    BY <1>1, <1>2, <1>4, <1>5, <2>1, UpdKept
<1> QED
  BY <1>8, <1>9 DEF LifeInv

\* A step of a handler that counts nothing.
LEMMA FlowTouched ==
  ASSUME FlowInv, flow # NoFlow, Same(flow, flow'), UNCHANGED <<ended, hosts, iface>>
  PROVE  FlowInv' /\ flow' # NoFlow /\ FlowOK(flow) /\ FlowOK(flow') /\ Le(flow.count, flow'.count)
<1>1. FlowOK(flow)
  BY DEF FlowInv
<1>2. FlowOK(flow') /\ Le(flow.count, flow'.count)
  BY <1>1 DEF FlowOK, Same, Le, Counts
<1>3. flow' # NoFlow
  BY <1>2, NotNoFlow
<1>4. Taken' = Taken /\ FlowPackets' = FlowPackets
  BY <1>3 DEF Taken, FlowPackets, Same
<1> QED
  BY <1>1, <1>2, <1>3, <1>4 DEF FlowInv

\* What a thread reads at its start makes up for what it will note.
LEMMA StartUpdateStep ==
  ASSUME LifeInv, NEW t \in Updater, flow # NoFlow, StartUpdate(t), Same(flow, flow'),
         UNCHANGED <<ended, hosts, iface>>
  PROVE  LifeInv'
<1>1. /\ FlowInv' /\ flow' # NoFlow /\ FlowOK(flow) /\ FlowOK(flow') /\ Le(flow.count, flow'.count)
  BY FlowTouched DEF LifeInv
<1>2. ended.last \in Counts /\ hosts \in Counts /\ Le(Add(ended.last, flow.last), hosts)
      /\ flow.count \in Counts /\ flow.last \in Counts /\ Le(flow.last, flow.count)
  BY <1>1 DEF LifeInv, FlowInv, Taken, FlowOK
<1>3. /\ DOMAIN upd' = Updater
      /\ upd'[t] = [pc |-> "give", read |-> flow.count, diff |-> Minus(flow.count, flow.last)]
      /\ \A u \in Updater \ {t} : upd'[u] = upd[u]
  BY DEF StartUpdate, LifeInv
<1>4. UpdOK(t)'
  <2>1. Minus(flow.count, flow.last) \in Counts
    BY <1>2, CountsMinus
  <2>2. Le(Add(ended.last, flow.count), Add(hosts, Minus(flow.count, flow.last)))
    BY <1>2 DEF Le, Add, Minus, Counts
  <2>3. upd'[t].pc = "give" /\ DOMAIN upd'[t] = {"pc", "read", "diff"}
        /\ upd'[t].read = flow.count /\ upd'[t].diff = Minus(flow.count, flow.last)
    BY <1>3
  <2> QED
    BY <1>1, <1>2, <2>1, <2>2, <2>3 DEF UpdOK, Steps
<1>5. ASSUME NEW u \in Updater \ {t} PROVE UpdOK(u)'
  <2>1. UpdOK(u) /\ Le(hosts, hosts)
    BY <1>2 DEF LifeInv, Le, Counts
  <2> QED
    BY <1>1, <1>2, <1>3, <2>1, UpdKept
<1> QED
  BY <1>1, <1>3, <1>4, <1>5 DEF LifeInv

\* The poller frees a name, which the script may hold.
LEMMA FreeNameStep ==
  ASSUME LifeInv, flow # NoFlow, upd' = upd \/ upd' = FreeName, Same(flow, flow'), UNCHANGED <<ended, hosts, iface>>
  PROVE  LifeInv'
<1>1. /\ FlowInv' /\ flow' # NoFlow /\ FlowOK(flow) /\ FlowOK(flow') /\ Le(flow.count, flow'.count)
  BY FlowTouched DEF LifeInv
<1>2. ended.last \in Counts /\ hosts \in Counts /\ Le(hosts, hosts)
  BY DEF LifeInv, FlowInv, Le, Counts
<1>3. DOMAIN upd' = Updater
  BY DEF LifeInv, FreeName
<1>4. ASSUME NEW t \in Updater PROVE UpdOK(t)'
  <2>1. UpdOK(t)
    BY DEF LifeInv
  <2>2. CASE upd'[t] = upd[t]
    BY <1>1, <1>2, <2>1, <2>2, UpdKept
  <2>3. CASE upd'[t] # upd[t]
    <3>1. t = "script" /\ upd[t].pc = "name" /\ upd'[t] = [upd[t] EXCEPT !.freed = TRUE]
      BY <2>3 DEF FreeName, LifeInv, Updater
    <3>2. DOMAIN upd[t] = {"pc", "diff", "read", "name", "freed"}
      BY <2>1, <3>1 DEF UpdOK
    <3>3. upd'[t].pc = "name" /\ DOMAIN upd'[t] = {"pc", "diff", "read", "name", "freed"}
      BY <3>1, <3>2
    <3> QED
      BY <3>3 DEF UpdOK, Steps
  <2> QED
    BY <2>2, <2>3
<1> QED
  BY <1>1, <1>3, <1>4 DEF LifeInv

LEMMA CaptureStep ==
  ASSUME LifeInv, NEW frame \in Frame, NEW dir \in BOOLEAN, NEW o \in Outcome, NEW g \in Guess,
         Capture(frame, dir, o, g)
  PROVE  LifeInv'
<1>1. UNCHANGED <<ended, hosts, upd>> /\ iface' = CountFrame(iface, frame) /\ EthOK(iface)
  BY DEF Capture, LifeInv, FlowInv
<1>2. /\ EthOK(iface') /\ iface'.raw >= iface.raw
      /\ Dissect(frame) = "packet" => iface'.raw >= iface.raw + 1
  BY <1>1, CountFrameRaw
<1>3. CASE Dissect(frame) = "packet"
  <2>1. flow' = FlowPacket(Fresh, frame, dir, o, g)
    BY <1>3 DEF Capture
  <2>2. DOMAIN Fresh = Fields
    <3>1. DOMAIN NewFlow = Fields
      BY DEF NewFlow, Fields
    <3> QED
      BY <3>1 DEF Fresh, LifeInv, FlowInv, FlowOK
  <2>3. Counted(Fresh, flow', One(dir))
    BY <2>1, <2>2, FlowPacketCounts
  <2> QED
    BY <1>1, <1>2, <1>3, <2>3, OnePacket, FlowCounts
<1>4. CASE Dissect(frame) # "packet"
  <2>1. UNCHANGED flow
    BY <1>4 DEF Capture
  <2>2. FlowPackets' = FlowPackets /\ Packets(FlowPackets) <= iface.raw /\ iface.raw \in Nat /\ iface'.raw \in Nat
    BY <1>1, <1>2, <2>1 DEF FlowPackets, LifeInv, FlowInv, EthOK
  <2>3. Packets(FlowPackets) \in Nat
    BY DEF FlowPackets, LifeInv, FlowInv, FlowOK, Counts, Packets, Add
  <2>4. (Packets(FlowPackets) <= iface.raw)'
    BY <1>2, <2>2, <2>3
  <2> QED
    BY <1>1, <1>2, <2>1, <2>4 DEF LifeInv, FlowInv, UpdOK, Taken
<1> QED
  BY <1>3, <1>4

LEMMA NoRoomStep ==
  ASSUME LifeInv, NEW frame \in Frame, NoRoom(frame)
  PROVE  LifeInv'
<1>1. UNCHANGED <<flow, ended, hosts, upd>> /\ iface' = CountFrame(iface, frame) /\ EthOK(iface)
  BY DEF NoRoom, LifeInv, FlowInv
<1>2. EthOK(iface') /\ iface'.raw >= iface.raw
  BY <1>1, CountFrameRaw
<1>3. FlowPackets' = FlowPackets /\ Packets(FlowPackets) <= iface.raw /\ iface.raw \in Nat /\ iface'.raw \in Nat
  BY <1>1, <1>2 DEF FlowPackets, LifeInv, FlowInv, EthOK
<1>4. Packets(FlowPackets) \in Nat
  BY DEF FlowPackets, LifeInv, FlowInv, FlowOK, Counts, Packets, Add
<1>5. (Packets(FlowPackets) <= iface.raw)'
  BY <1>2, <1>3, <1>4
<1> QED
  BY <1>1, <1>2, <1>5 DEF LifeInv, FlowInv, UpdOK, Taken

LEMMA CollectStep ==
  ASSUME LifeInv, NEW r \in Record, NEW dir \in BOOLEAN, NEW g \in Guess, Collect(r, dir, g)
  PROVE  LifeInv'
<1> DEFINE z == ParseRecord(r)
           n == z.rate * (z.in + z.out)
           counted == IncInterface(iface, "ip4", n)
<1>1. /\ UNCHANGED <<ended, hosts, upd>> /\ flow' = FlowRecord(Fresh, z, dir, g)
      /\ iface' = [counted EXCEPT !.system = @ \/ OfSystem(r)] /\ EthOK(iface)
  BY DEF Collect, LifeInv, FlowInv
<1>2. DOMAIN Fresh = Fields
  <2>1. DOMAIN NewFlow = Fields
    BY DEF NewFlow, Fields
  <2> QED
    BY <2>1 DEF Fresh, LifeInv, FlowInv, FlowOK
<1>3. Counted(Fresh, flow', Amount(z, dir))
  <2> HIDE DEF z
  <2> QED
    BY <1>1, <1>2, FlowRecordCounts
<1>4. Amount(z, dir) \in Counts /\ Packets(Amount(z, dir)) = n
  BY AmountCounts
<1>5. n \in Nat
  <2> HIDE DEF n, z
  <2> QED
    BY <1>4, CountsAdd
<1>6. EthOK(counted) /\ counted.raw = iface.raw + n
  <2> HIDE DEF n
  <2> QED
    BY <1>1, <1>5, IncInterfaceRaw
<1>7. EthOK(iface') /\ iface'.raw = iface.raw + n
  <2> HIDE DEF counted, n
  <2> QED
    BY <1>1, <1>6 DEF EthOK, EthFields
<1>8. iface'.raw >= iface.raw + Packets(Amount(z, dir))
  <2> HIDE DEF n, z
  <2> QED
    BY <1>1, <1>4, <1>5, <1>7 DEF EthOK
<1> HIDE DEF n, z, counted
<1> QED
  BY <1>1, <1>3, <1>4, <1>7, <1>8, FlowCounts

\* A flow with calls left is one.
LEMMA CallsOfFlow ==
  ASSUME FlowInv, flow.calls # <<>>
  PROVE  flow # NoFlow /\ DOMAIN flow = Fields
BY DEF FlowInv, FlowOK, NoFlow

LEMMA AggregateStep ==
  ASSUME LifeInv, Aggregate
  PROVE  LifeInv'
<1>1. flow # NoFlow /\ DOMAIN flow = Fields /\ UNCHANGED <<ended, hosts, iface>>
  BY CallsOfFlow DEF Aggregate, LifeInv
<1>2. \/ StartUpdate("poller") /\ flow' = [flow EXCEPT !.calls[1].call = "updated"]
      \/ upd' = FreeName /\ flow' = [flow EXCEPT !.agg = Head(flow.calls).name, !.calls = Tail(@)]
  BY DEF Aggregate
<1>3. Same(flow, flow')
  BY <1>1, <1>2 DEF Same, Fields
<1> QED
  BY <1>1, <1>2, <1>3, StartUpdateStep, FreeNameStep DEF Updater

LEMMA GetCategoryStep ==
  ASSUME LifeInv, GetCategory
  PROVE  LifeInv'
<1>1. flow # NoFlow /\ DOMAIN flow = Fields /\ UNCHANGED <<ended, hosts, iface, upd>>
  BY CallsOfFlow DEF GetCategory, LifeInv
<1>2. Same(flow, flow')
  <2>1. \/ flow' = [flow EXCEPT !.calls = Tail(@)]
        \/ \E c : flow' = [flow EXCEPT !.calls = Tail(@), !.category = c]
    BY DEF GetCategory
  <2> QED
    BY <1>1, <2>1 DEF Same, Fields
<1> QED
  BY <1>1, <1>2, FreeNameStep

LEMMA StartScriptStep ==
  ASSUME LifeInv, StartScript
  PROVE  LifeInv'
<1>1. flow # NoFlow /\ StartUpdate("script") /\ UNCHANGED <<flow, ended, hosts, iface>>
  BY DEF StartScript
<1>2. Same(flow, flow')
  BY <1>1 DEF Same, LifeInv, FlowInv, FlowOK
<1> QED
  BY <1>1, <1>2, StartUpdateStep DEF Updater

LEMMA GiveStep ==
  ASSUME LifeInv, NEW t \in Updater, Give(t)
  PROVE  LifeInv'
<1>1. /\ flow # NoFlow /\ FlowOK(flow) /\ upd[t].read \in Counts /\ upd[t].diff \in Counts
      /\ Le(upd[t].read, flow.count) /\ Le(Add(ended.last, upd[t].read), Add(hosts, upd[t].diff))
      /\ ended.last \in Counts /\ hosts \in Counts
  BY DEF LifeInv, FlowInv, UpdOK, Give
<1>2. /\ hosts' = Add(hosts, upd[t].diff) /\ flow' = [flow EXCEPT !.last = upd[t].read]
      /\ UNCHANGED <<ended, iface>>
  BY DEF Give
<1>3. /\ DOMAIN upd' = Updater /\ \A u \in Updater \ {t} : upd'[u] = upd[u]
      /\ \/ upd'[t] = CheckBlacklisted
         \/ \E d, r, n : upd'[t] = [pc |-> "name", diff |-> d, read |-> r, name |-> n, freed |-> FALSE]
  BY DEF Give, LifeInv
<1>4. hosts' \in Counts /\ Le(hosts, hosts')
  BY <1>1, <1>2, CountsAdd
<1>5. /\ DOMAIN flow' = Fields /\ flow'.count = flow.count /\ flow'.last = upd[t].read
      /\ flow.count \in Counts
  BY <1>1, <1>2 DEF FlowOK, Fields
<1>6. FlowOK(flow') /\ flow' # NoFlow /\ Le(flow.count, flow'.count)
  <2>1. FlowOK(flow')
    BY <1>1, <1>5 DEF FlowOK
  <2>2. Le(flow.count, flow.count)
    BY <1>5 DEF Le, Counts
  <2> QED
    BY <1>5, <2>1, <2>2, NotNoFlow
<1>7. FlowInv'
  <2>1. Taken' = Add(ended.last, upd[t].read)
    BY <1>2, <1>5, <1>6 DEF Taken
  <2>2. FlowPackets' = FlowPackets
    BY <1>1, <1>2, <1>5, <1>6 DEF FlowPackets
  <2> QED
    BY <1>1, <1>2, <1>4, <1>6, <2>1, <2>2 DEF FlowInv, LifeInv
<1>8. UpdOK(t)'
  BY <1>3 DEF CheckBlacklisted, Idle, UpdOK, Steps
<1>9. ASSUME NEW u \in Updater \ {t} PROVE UpdOK(u)'
  <2>1. UpdOK(u)
    BY DEF LifeInv
  <2> QED
    BY <1>1, <1>2, <1>3, <1>4, <1>6, <2>1, UpdKept
<1> QED
  BY <1>3, <1>7, <1>8, <1>9 DEF LifeInv

LEMMA GiveNameStep ==
  ASSUME LifeInv, NEW t \in Updater, GiveName(t)
  PROVE  LifeInv'
<1>1. UNCHANGED <<flow, ended, hosts, iface>> /\ upd' = [upd EXCEPT ![t] = CheckBlacklisted]
  BY DEF GiveName
<1>2. UpdOK(t)'
  BY <1>1 DEF LifeInv, CheckBlacklisted, Idle, UpdOK, Steps
<1>3. ASSUME NEW u \in Updater \ {t} PROVE UpdOK(u)'
  BY <1>1 DEF LifeInv, UpdOK
<1> QED
  BY <1>1, <1>2, <1>3 DEF LifeInv, FlowInv, Taken, FlowPackets

LEMMA AlertStep ==
  ASSUME LifeInv, NEW t \in Updater, Alert(t)
  PROVE  LifeInv'
<1>1. /\ UNCHANGED <<ended, hosts, iface>> /\ flow' = [flow EXCEPT !.emitted = TRUE]
      /\ upd' = [upd EXCEPT ![t] = Idle] /\ DOMAIN upd = Updater
  BY DEF Alert, LifeInv
<1>2. UpdOK(t)'
  BY <1>1 DEF Idle, UpdOK, Steps
<1>3. CASE flow # NoFlow
  <2>1. Same(flow, flow')
    BY <1>1, <1>3 DEF Same, LifeInv, FlowInv, FlowOK, Fields
  <2>2. /\ FlowInv' /\ flow' # NoFlow /\ FlowOK(flow) /\ FlowOK(flow') /\ Le(flow.count, flow'.count)
        /\ ended.last \in Counts /\ hosts \in Counts /\ Le(hosts, hosts)
    BY <1>1, <1>3, <2>1, FlowTouched DEF LifeInv, FlowInv, Le, Counts
  <2>3. ASSUME NEW u \in Updater \ {t} PROVE UpdOK(u)'
    <3>1. UpdOK(u) /\ upd'[u] = upd[u]
      BY <1>1 DEF LifeInv
    <3> QED
      BY <1>1, <2>2, <3>1, UpdKept
  <2> QED
    BY <1>1, <1>2, <2>2, <2>3 DEF LifeInv
<1>4. CASE flow = NoFlow
  <2>1. flow' = NoFlow
    <3>1. DOMAIN NoFlow = {"calls"} /\ DOMAIN flow' = DOMAIN NoFlow /\ flow'.calls = NoFlow.calls
      BY <1>1, <1>4 DEF NoFlow
    <3> QED
      BY <1>1, <1>4 DEF NoFlow
  <2>2. ASSUME NEW u \in Updater \ {t} PROVE UpdOK(u)'
    BY <1>1, <1>4, <2>1 DEF LifeInv, UpdOK
  <2> QED
    BY <1>1, <1>2, <1>4, <2>1, <2>2 DEF LifeInv, FlowInv, Taken, FlowPackets
<1> QED
  BY <1>3, <1>4

LEMMA EndFlowStep ==
  ASSUME LifeInv, NEW fault \in Faults, EndFlow(fault)
  PROVE  LifeInv'
<1>1. /\ flow # NoFlow /\ flow' = NoFlow /\ UNCHANGED <<hosts, iface, upd>> /\ \A t \in Updater : upd[t] = Idle
      /\ ended' = [packets |-> Add(ended.packets, flow.count), last |-> Add(ended.last, flow.last),
                    flows |-> ended.flows + 1]
  BY DEF EndFlow
<1>2. /\ flow.count \in Counts /\ flow.last \in Counts /\ ended.packets \in Counts /\ ended.last \in Counts
  BY <1>1 DEF LifeInv, FlowInv, FlowOK
<1>3. ended'.packets \in Counts /\ ended'.last \in Counts /\ DOMAIN ended' = {"packets", "last", "flows"}
      /\ ended'.packets = FlowPackets /\ ended'.last = Taken
  BY <1>1, <1>2, CountsAdd DEF FlowPackets, Taken
<1>4. FlowPackets' = FlowPackets /\ Taken' = Taken
  BY <1>1, <1>3 DEF FlowPackets, Taken
<1>5. \A t \in Updater : UpdOK(t)'
  BY <1>1 DEF UpdOK, Idle, Steps
<1> QED
  BY <1>1, <1>3, <1>4, <1>5 DEF LifeInv, FlowInv

LEMMA ForgetStep ==
  ASSUME Forget
  PROVE  LifeInv'
<1>1. /\ flow' = NoFlow /\ upd' = [t \in Updater |-> Idle] /\ iface' = NoEth /\ hosts' = NoCount
      /\ ended'.packets = NoCount /\ ended'.last = NoCount /\ DOMAIN ended' = {"packets", "last", "flows"}
  BY DEF Forget
<1>2. FlowPackets' = NoCount /\ Taken' = NoCount
  BY <1>1 DEF FlowPackets, Taken
<1>3. NoCount \in Counts /\ Le(NoCount, NoCount) /\ Packets(NoCount) = 0 /\ EthOK(NoEth) /\ NoEth.raw = 0
  BY DEF NoCount, Counts, Le, Packets, EthOK, EthFields, NoEth
<1>4. \A t \in Updater : UpdOK(t)'
  BY <1>1 DEF UpdOK, Idle, Steps
<1> QED
  BY <1>1, <1>2, <1>3, <1>4 DEF LifeInv, FlowInv

LEMMA InitLife == Init => LifeInv
<1> SUFFICES ASSUME Init PROVE LifeInv
  OBVIOUS
<1>1. /\ flow = NoFlow /\ upd = [t \in Updater |-> Idle] /\ iface = NoEth /\ hosts = NoCount
      /\ ended = [packets |-> NoCount, last |-> NoCount, flows |-> 0]
  BY DEF Init
<1>2. FlowPackets = NoCount /\ Taken = NoCount
  BY <1>1 DEF FlowPackets, Taken
<1>3. NoCount \in Counts /\ Le(NoCount, NoCount) /\ Packets(NoCount) = 0 /\ EthOK(NoEth) /\ NoEth.raw = 0
  BY DEF NoCount, Counts, Le, Packets, EthOK, EthFields, NoEth
<1>4. \A t \in Updater : UpdOK(t)
  BY <1>1 DEF UpdOK, Idle, Steps
<1> QED
  BY <1>1, <1>2, <1>3, <1>4 DEF LifeInv, FlowInv

LEMMA NextLife ==
  ASSUME LifeInv, [Next]_vars
  PROVE  LifeInv'
<1>1. CASE Poller
  <2>1. ASSUME Refuse PROVE UNCHANGED <<flow, ended, hosts, upd, iface>>
    BY <2>1 DEF Refuse
  <2> QED
    BY <1>1, <2>1, CaptureStep, NoRoomStep, CollectStep, AggregateStep, GetCategoryStep, EndFlowStep,
       LifeUnchanged DEF Poller
<1>2. CASE Update
  BY <1>2, StartScriptStep, GiveStep, GiveNameStep, AlertStep DEF Update
<1>3. CASE Categorise \/ Stop \/ UNCHANGED vars
  BY <1>3, LifeUnchanged DEF Categorise, Ask, Answer, Expire, Stop, vars
<1>4. CASE Close \/ Crash
  BY <1>4, ForgetStep DEF Close, Crash
<1> QED
  BY <1>1, <1>2, <1>3, <1>4 DEF Next

THEOREM LifeInvariance == Spec => []LifeInv
<1>1. LifeInv /\ [Next]_vars => LifeInv'
  BY NextLife
<1> QED
  BY InitLife, <1>1, PTL DEF Spec

\* What a flow takes for given was given to its hosts, whichever of the two threads did it
\* and whatever was counted meanwhile, at any moment: no packet is missed.
THEOREM NoPacketMissed == Spec => []NothingMissed
<1>1. LifeInv => NothingMissed
  BY DEF LifeInv, FlowInv, NothingMissed, Taken, Le
<1> QED
  BY <1>1, LifeInvariance, PTL

\* The packets of all flows are packets of their interface, whatever frames and records come.
THEOREM FlowsWithinInterface == Spec => []PacketsCounted
<1>1. LifeInv => PacketsCounted
  BY DEF LifeInv, FlowInv, PacketsCounted
<1> QED
  BY <1>1, LifeInvariance, PTL
-------------------------------------------------------------------------------
(* The database of flows.                                                  *)

\* The parts of the database, and the flows whose rows it has, is about to have or lost.
DbOK(d) == DOMAIN d = {"handle", "pending", "committed", "lost"}
Known(d) == Ids(d.committed) \cup Ids(d.pending) \cup d.lost

LEMMA IdsUnion ==
  ASSUME NEW S, NEW T
  PROVE  Ids(S \cup T) = Ids(S) \cup Ids(T) /\ Ids({}) = {}
BY DEF Ids

LEMMA TermDBRows ==
  ASSUME NEW d, DbOK(d)
  PROVE  /\ DbOK(TermDB(d)) /\ Known(TermDB(d)) = Known(d) /\ TermDB(d).pending = {}
<1>1. /\ DOMAIN TermDB(d) = DOMAIN d /\ TermDB(d).pending = {} /\ TermDB(d).lost = d.lost
      /\ TermDB(d).committed = d.committed \cup d.pending
  BY DEF TermDB, DbOK
<1> QED
  BY <1>1, IdsUnion DEF Known, DbOK

LEMMA InitDBRows ==
  ASSUME NEW d, DbOK(d), NEW when, NEW fault
  PROVE  DbOK(InitDB(d, when, fault)) /\ Known(InitDB(d, when, fault)) = Known(d)
<1> DEFINE closed == IF d.handle.open THEN TermDB(d) ELSE d
           begin == when - (when % Period)
           fresh == [closed EXCEPT !.handle = [open |-> TRUE, file |-> begin, end |-> begin + Period]]
<1>1. DbOK(closed) /\ Known(closed) = Known(d)
  BY TermDBRows
<1>2. DbOK(fresh) /\ Known(fresh) = Known(closed)
  <2> HIDE DEF closed, begin
  <2> QED
    BY <1>1 DEF DbOK, Known
<1>3. InitDB(d, when, fault) \in {d, closed, fresh}
  BY DEF InitDB
<1> HIDE DEF closed, fresh
<1> QED
  BY <1>1, <1>2, <1>3

\* The row of a flow is in the transaction of a file, or known to be lost.
LEMMA DumpFlowRows ==
  ASSUME NEW d, DbOK(d), NEW row, {"id", "at", "file"} \subseteq DOMAIN row, NEW fault, conf.dump
  PROVE  DbOK(DumpFlow(d, row, fault)) /\ Known(DumpFlow(d, row, fault)) = Known(d) \cup {row.id}
<1> DEFINE open == InitDB(d, row.at, fault)
           put == [row EXCEPT !.file = open.handle.file]
           kept == [open EXCEPT !.pending = @ \cup {put}]
           gone == [open EXCEPT !.lost = @ \cup {row.id}]
<1>1. DbOK(open) /\ Known(open) = Known(d)
  BY InitDBRows
<1>2. Ids({put}) = {row.id}
  <2> HIDE DEF open
  <2> QED
    BY DEF Ids
<1>3. DbOK(kept) /\ Known(kept) = Known(open) \cup {row.id}
  <2> HIDE DEF put, open
  <2>1. /\ DOMAIN kept = DOMAIN open /\ kept.committed = open.committed /\ kept.lost = open.lost
        /\ kept.pending = open.pending \cup {put}
    BY <1>1 DEF DbOK
  <2> HIDE DEF kept
  <2> QED
    BY <1>1, <1>2, <2>1, IdsUnion DEF DbOK, Known
<1>4. DbOK(gone) /\ Known(gone) = Known(open) \cup {row.id}
  <2> HIDE DEF open
  <2> QED
    BY <1>1 DEF DbOK, Known
<1>5. DumpFlow(d, row, fault) \in {kept, gone}
  BY DEF DumpFlow
<1> HIDE DEF open, kept, gone
<1> QED
  BY <1>1, <1>3, <1>4, <1>5

\* The same of the variable: whoever leaves the database, the ends and the stop alone.
LEMMA RowsUnchanged ==
  ASSUME RowsInv, UNCHANGED <<db, ended, phase, conf>>
  PROVE  RowsInv'
BY DEF RowsInv, Ids

LEMMA RowsStep ==
  ASSUME RowsInv, [Next]_vars
  PROVE  RowsInv'
<1> USE DEF DbOK
<1>1. /\ DbOK(db) /\ "flows" \in DOMAIN ended /\ ended.flows \in Nat
      /\ conf.dump => (phase = "stopped" => db.pending = {})
      /\ conf.dump => Known(db) = 1..ended.flows
  BY DEF RowsInv, Known
<1>2. ASSUME NEW fault \in Faults, EndFlow(fault)
      PROVE  RowsInv'
  <2> DEFINE row == [id |-> ended.flows + 1, at |-> flow.seen, file |-> 0]
  <2>1. /\ db' = DumpFlow(db, row, fault) /\ UNCHANGED <<phase, conf>> /\ phase # "stopped"
        /\ "flows" \in DOMAIN ended' /\ ended'.flows = ended.flows + 1
    BY <1>2 DEF EndFlow
  <2>2. row.id = ended.flows + 1 /\ {"id", "at", "file"} \subseteq DOMAIN row
    OBVIOUS
  <2> HIDE DEF row
  <2>3. CASE conf.dump
    <3>1. DbOK(db') /\ Known(db') = Known(db) \cup {row.id}
      BY <1>1, <2>1, <2>2, <2>3, DumpFlowRows
    <3>2. (1..ended.flows) \cup {ended.flows + 1} = 1..(ended.flows + 1)
      BY <1>1
    <3> QED
      BY <1>1, <2>1, <2>2, <3>1, <3>2 DEF RowsInv, Known, Ids
  <2>4. CASE ~conf.dump
    <3>1. db' = db
      BY <2>1, <2>4 DEF DumpFlow
    <3> QED
      BY <1>1, <2>1, <2>4, <3>1 DEF RowsInv
  <2> QED
    BY <2>3, <2>4
<1>3. CASE Close
  <2>1. /\ db' = (IF conf.dump THEN TermDB(db) ELSE db) /\ UNCHANGED conf /\ phase' = "stopped"
        /\ "flows" \in DOMAIN ended' /\ ended'.flows = ended.flows
    BY <1>3 DEF Close, Forget
  <2>2. DbOK(TermDB(db)) /\ Known(TermDB(db)) = Known(db) /\ TermDB(db).pending = {}
    BY <1>1, TermDBRows
  <2>3. DbOK(db') /\ Known(db') = Known(db) /\ (conf.dump => db'.pending = {})
    BY <1>1, <1>3, <2>1, <2>2 DEF Close
  <2> QED
    BY <1>1, <2>1, <2>3 DEF RowsInv, Known, Ids
<1>4. CASE Crash
  <2>1. /\ db' = [db EXCEPT !.handle = NoFile, !.pending = {}, !.lost = @ \cup Ids(db.pending)] /\ UNCHANGED conf
        /\ "flows" \in DOMAIN ended' /\ ended'.flows = ended.flows
    BY <1>4 DEF Crash, Forget, Ids
  <2>2. /\ DbOK(db') /\ db'.pending = {} /\ db'.committed = db.committed /\ db'.lost = db.lost \cup Ids(db.pending)
    BY <1>1, <2>1
  <2>3. Known(db') = Known(db)
    BY <2>2, IdsUnion DEF Known
  <2> QED
    BY <1>1, <2>1, <2>2, <2>3 DEF RowsInv, Known, Ids
<1>5. CASE Stop
  BY <1>1, <1>5 DEF Stop, RowsInv, Known, Ids
<1>6. ASSUME UNCHANGED <<db, ended, phase, conf>>
      PROVE  RowsInv'
  BY <1>6, RowsUnchanged
<1>7. ASSUME NEW frame \in Frame, NEW dir \in BOOLEAN, NEW o \in Outcome, NEW g \in Guess, Capture(frame, dir, o, g)
      PROVE  RowsInv'
  BY <1>7, RowsUnchanged DEF Capture
<1>8. ASSUME NEW frame \in Frame, NoRoom(frame)
      PROVE  RowsInv'
  BY <1>8, RowsUnchanged DEF NoRoom
<1>9. ASSUME NEW r \in Record, NEW dir \in BOOLEAN, NEW g \in Guess, Collect(r, dir, g)
      PROVE  RowsInv'
  BY <1>9, RowsUnchanged DEF Collect
<1>10. CASE Refuse \/ Aggregate \/ GetCategory
  BY <1>10, RowsUnchanged DEF Refuse, Aggregate, GetCategory
<1>11. CASE Update
  BY <1>11, RowsUnchanged DEF Update, StartScript, Give, GiveName, Alert
<1>12. CASE Categorise
  BY <1>12, RowsUnchanged DEF Categorise, Ask, Answer, Expire
<1>13. CASE UNCHANGED vars
  BY <1>13, RowsUnchanged DEF vars
<1> QED
  BY <1>2, <1>3, <1>4, <1>5, <1>7, <1>8, <1>9, <1>10, <1>11, <1>12, <1>13 DEF Next, Poller

\* After a stop or a crash every flow that ended has its row in a file that was committed,
\* or is known to be lost to a fault or to the crash: none is forgotten silently.
THEOREM NoRowForgotten == Spec => []RowsKept
<1>1. Init => RowsInv
  <2>1. ASSUME Init
        PROVE  /\ db = [handle |-> NoFile, pending |-> {}, committed |-> {}, lost |-> {}]
               /\ "flows" \in DOMAIN ended /\ ended.flows = 0
    BY <2>1 DEF Init
  <2> QED
    BY <2>1 DEF RowsInv, Ids
<1>2. RowsInv /\ [Next]_vars => RowsInv'
  BY RowsStep
<1>3. RowsInv => RowsKept
  BY DEF RowsInv, RowsKept, Ids
<1> QED
  BY <1>1, <1>2, <1>3, PTL DEF Spec
-------------------------------------------------------------------------------
(* The categories of domains.                                              *)

LEMMA AskStep ==
  ASSUME AskInv, [Next]_vars
  PROVE  AskInv'
<1>1. ASSUME UNCHANGED <<asking, cache>>
      PROVE  AskInv'
  BY <1>1 DEF AskInv
<1>2. CASE GetCategory
  <2>1. UNCHANGED cache /\ (asking' = asking \/ \E q : asking' = [asking EXCEPT !.queue = q])
    BY <1>2 DEF GetCategory
  <2> QED
    BY <2>1 DEF AskInv
<1>3. CASE Ask
  <2> DEFINE n == Head(asking.queue)
  <2>1. CASE n \in DOMAIN cache
    BY <1>3, <2>1 DEF Ask, AskInv
  <2>2. CASE n \notin DOMAIN cache
    <3>1. /\ asking' = [asking EXCEPT !.queue = Tail(@), !.name = n, !.asked = Asked(n)]
          /\ cache' = Set(cache, n, "none yet")
      BY <1>3, <2>2 DEF Ask
    <3> HIDE DEF n
    <3>2. Field(asking.asked, n, 0) = 0
      BY <2>2 DEF Field, AskInv
    <3>3. /\ DOMAIN Asked(n) = DOMAIN asking.asked \cup {n} /\ Asked(n)[n] = 1
          /\ \A k \in DOMAIN asking.asked \ {n} : Asked(n)[k] = asking.asked[k]
          /\ DOMAIN cache' = DOMAIN cache \cup {n}
      <4>1. Asked(n) = Set(asking.asked, n, 1)
        BY <3>2 DEF Asked
      <4>2. /\ DOMAIN Asked(n) = DOMAIN asking.asked \cup {n} /\ Asked(n)[n] = 1
            /\ \A k \in DOMAIN asking.asked \ {n} : Asked(n)[k] = asking.asked[k]
        BY <4>1 DEF Set
      <4>3. DOMAIN cache' = DOMAIN cache \cup {n}
        BY <3>1 DEF Set
      <4> QED
        BY <4>2, <4>3
    <3>4. DOMAIN asking' = {"queue", "name", "asked"} /\ asking'.asked = Asked(n)
      BY <3>1 DEF AskInv
    <3> QED
      BY <3>3, <3>4 DEF AskInv
  <2> QED
    BY <2>1, <2>2
<1>4. ASSUME NEW ok \in BOOLEAN, Answer(ok)
      PROVE  AskInv'
  <2>1. DOMAIN cache \subseteq DOMAIN cache' /\ asking' = [asking EXCEPT !.name = NoName]
    <3>1. /\ asking' = [asking EXCEPT !.name = NoName]
          /\ cache' = cache \/ cache' = Set(cache, asking.name, "category")
      BY <1>4 DEF Answer
    <3>2. DOMAIN Set(cache, asking.name, "category") = DOMAIN cache \cup {asking.name}
      BY DEF Set
    <3> QED
      BY <3>1, <3>2
  <2> QED
    BY <2>1 DEF AskInv
<1>5. ASSUME NEW n, Expire(n)
      PROVE  AskInv'
  <2>1. /\ DOMAIN cache' = DOMAIN cache \ {n} /\ asking' = [asking EXCEPT !.asked = Set(@, n, 0)]
    BY <1>5 DEF Expire
  <2>2. DOMAIN asking' = {"queue", "name", "asked"} /\ asking'.asked = Set(asking.asked, n, 0)
    BY <2>1 DEF AskInv
  <2> DEFINE asked == Set(asking.asked, n, 0)
  <2>3. /\ DOMAIN asked = DOMAIN asking.asked \cup {n} /\ asked[n] = 0
        /\ \A k \in DOMAIN asking.asked \ {n} : asked[k] = asking.asked[k]
    BY DEF Set
  <2> HIDE DEF asked
  <2> QED
    BY <2>1, <2>2, <2>3 DEF AskInv, asked
<1>6. ASSUME NEW frame \in Frame, NEW dir \in BOOLEAN, NEW o \in Outcome, NEW g \in Guess, Capture(frame, dir, o, g)
      PROVE  AskInv'
  BY <1>1, <1>6 DEF Capture
<1>7. ASSUME NEW frame \in Frame, NoRoom(frame)
      PROVE  AskInv'
  BY <1>1, <1>7 DEF NoRoom
<1>8. ASSUME NEW r \in Record, NEW dir \in BOOLEAN, NEW g \in Guess, Collect(r, dir, g)
      PROVE  AskInv'
  BY <1>1, <1>8 DEF Collect
<1>9. ASSUME NEW fault \in Faults, EndFlow(fault)
      PROVE  AskInv'
  BY <1>1, <1>9 DEF EndFlow
<1>10. CASE Refuse \/ Aggregate
  BY <1>1, <1>10 DEF Refuse, Aggregate
<1>11. CASE Update
  BY <1>1, <1>11 DEF Update, StartScript, Give, GiveName, Alert
<1>12. CASE Stop \/ Close \/ Crash \/ UNCHANGED vars
  BY <1>1, <1>12 DEF Stop, Close, Crash, vars
<1> QED
  BY <1>2, <1>3, <1>4, <1>5, <1>6, <1>7, <1>8, <1>9, <1>10, <1>11, <1>12 DEF Next, Poller, Categorise

\* The service is asked once for a domain while its category is remembered, however many
\* flows name it meanwhile.
THEOREM DomainsAskedOnce == Spec => []AskedOnce
<1>1. Init => AskInv
  <2>1. ASSUME Init
        PROVE  asking = [queue |-> <<>>, name |-> NoName, asked |-> <<>>] /\ DOMAIN asking.asked = {}
    BY <2>1 DEF Init
  <2> QED
    BY <2>1 DEF AskInv
<1>2. AskInv /\ [Next]_vars => AskInv'
  BY AskStep
<1>3. AskInv => AskedOnce
  BY DEF AskInv, AskedOnce
<1> QED
  BY <1>1, <1>2, <1>3, PTL DEF Spec
-------------------------------------------------------------------------------
(* The names.                                                              *)

\* What each name got, and all of them.
Given == [k \in DOMAIN names |-> Packets(names[k].given)]
GivenToNames == SumOver(Given, DOMAIN names)

\* What a thread gave to the hosts and is about to give to a name.
Pending(t) == IF upd[t].pc = "name" THEN Packets(upd[t].diff) ELSE 0

NameOK(n) == DOMAIN n = {"given", "queries", "tracked"} /\ n.given \in Counts
NamesOK == IsFiniteSet(DOMAIN names) /\ \A k \in DOMAIN names : NameOK(names[k])

\* No name gets more than its hosts: what is on its way to a name is with the hosts already.
NamesInv ==
  /\ NamesOK /\ \A t \in Updater : upd[t].pc = "name" => upd[t].diff \in Counts
  /\ GivenToNames + Pending("poller") + Pending("script") <= Packets(hosts)

\* The sum of the property is the one the facts about sums are for.
LEMMA GivenIs ==
  ASSUME IsFiniteSet(DOMAIN names)
  PROVE  MapThenSumSet(LAMBDA k : Packets(names[k].given), DOMAIN names) = GivenToNames
<1> DEFINE S == DOMAIN names
           IsIt(h) == h = [s \in SUBSET S |->
                             IF s = {} THEN 0
                             ELSE Packets(names[CHOOSE x \in s : TRUE].given) + h[s \ {CHOOSE x \in s : TRUE}]]
           all == MapThenSumSet(LAMBDA k : Packets(names[k].given), S)
<1>1. all = (CHOOSE h : IsIt(h))[S]
  BY DEF MapThenSumSet, MapThenFoldSet
<1>2. ASSUME NEW h PROVE IsIt(h) <=> IsSum(h, Given, S)
  BY ChosenIn DEF IsSum, Chosen, Given
<1>3. PICK k : IsSum(k, Given, S) /\ SumOver(Given, S) = k[S]
  BY SumExists, SumIs
<1>4. S \in SUBSET S /\ IsFiniteSet(S)
  OBVIOUS
<1> HIDE DEF IsIt, S, all
<1>5. IsIt(k)
  BY <1>2, <1>3
<1>6. IsIt(CHOOSE h : IsIt(h))
  BY <1>5, Zenon
<1>7. PICK h : IsSum(h, Given, S) /\ all = h[S]
  BY <1>1, <1>2, <1>6, Zenon
<1>8. all = SumOver(Given, S)
  BY <1>3, <1>4, <1>7, SumUnique
<1> QED
  BY <1>8 DEF all, S, GivenToNames

LEMMA GivenInt ==
  ASSUME NamesOK
  PROVE  GivenToNames \in Nat /\ \A k \in DOMAIN names : Given[k] \in Nat
<1>1. ASSUME NEW k \in DOMAIN names PROVE Given[k] \in Nat
  BY CountsAdd DEF NamesOK, NameOK, Given
<1> QED
  BY <1>1, SumNat DEF NamesOK, GivenToNames

\* A name is made or changed.
LEMMA NamePut ==
  ASSUME NamesOK, NEW name, NEW family, NEW n, NameOK(n), names' = Set(names, <<name, family>>, n)
  PROVE  /\ NamesOK' /\ NameOK(FindHostByString(name, family))
         /\ GivenToNames' = GivenToNames - Packets(FindHostByString(name, family).given) + Packets(n.given)
<1> DEFINE key == <<name, family>>
           S == DOMAIN names
           was == FindHostByString(name, family)
<1>1. DOMAIN names' = S \cup {key} /\ names'[key] = n /\ \A k \in S \ {key} : names'[k] = names[k]
  BY DEF Set
<1>2. IsFiniteSet(S) /\ \A k \in S : NameOK(names[k])
  BY DEF NamesOK
<1>3. NamesOK'
  <2>1. IsFiniteSet(S \cup {key})
    BY <1>2, FS_AddElement
  <2>2. \A k \in S \cup {key} : NameOK(names'[k])
    BY <1>1, <1>2
  <2> HIDE DEF key, S
  <2> QED
    BY <1>1, <2>1, <2>2 DEF NamesOK
<1>4. /\ Given'[key] = Packets(n.given)
      /\ \A k \in S \ {key} : Given'[k] = Given[k]
      /\ key \in S => Given[key] = Packets(was.given) /\ was = names[key]
      /\ key \notin S => was = NoHost
  <2>1. was = IF key \in S THEN names[key] ELSE NoHost
    BY DEF FindHostByString
  <2> HIDE DEF key, was
  <2> QED
    BY <1>1, <2>1 DEF Given
<1>5. NoHost.given = NoCount /\ NameOK(NoHost) /\ Packets(NoCount) = 0
  BY DEF NoHost, NameOK, NoCount, Counts, Packets
<1>6. NameOK(was)
  BY <1>2, <1>4, <1>5
<1>7. /\ \A k \in S : Given[k] \in Int
      /\ \A k \in S \cup {key} : Given'[k] \in Int
      /\ GivenToNames \in Int
  <2>1. \A k \in S : Given[k] \in Nat
    BY GivenInt
  <2>2. Packets(n.given) \in Nat
    BY CountsAdd DEF NameOK
  <2>3. GivenToNames \in Nat
    BY GivenInt
  <2> HIDE DEF key, S
  <2> QED
    BY <1>4, <2>1, <2>2, <2>3
<1>8. GivenToNames = SumOver(Given, S) /\ GivenToNames' = SumOver(Given', S \cup {key})
  BY <1>1 DEF GivenToNames
<1> HIDE DEF key, S, was
<1>9. CASE key \in S
  <2>1. S \cup {key} = S
    BY <1>9
  <2>2. SumOver(Given', S) = SumOver(Given, S) - Given[key] + Given'[key]
    BY <1>2, <1>4, <1>7, <1>9, SumChanged
  <2> QED
    BY <1>3, <1>4, <1>6, <1>8, <1>9, <2>1, <2>2 DEF was
<1>10. CASE key \notin S
  <2>1. SumOver(Given', S \cup {key}) = SumOver(Given', S) + Given'[key]
    BY <1>2, <1>7, <1>10, SumMore
  <2>2. SumOver(Given', S) = SumOver(Given, S)
    BY <1>2, <1>4, <1>7, <1>10, SumSame
  <2>3. Packets(was.given) = 0
    BY <1>4, <1>5, <1>10
  <2>4. GivenToNames' = GivenToNames - Packets(was.given) + Packets(n.given)
    BY <1>4, <1>7, <1>8, <2>1, <2>2, <2>3
  <2> QED
    BY <1>3, <1>6, <2>4 DEF was
<1> QED
  BY <1>9, <1>10

\* The host that stands for a name is one, or a new one.
LEMMA FoundOK ==
  ASSUME NamesOK, NEW name, NEW family
  PROVE  NameOK(FindHostByString(name, family))
<1>1. NameOK(NoHost)
  BY DEF NoHost, NameOK, NoCount, Counts
<1> QED
  BY <1>1 DEF FindHostByString, NamesOK

LEMMA PendingNat ==
  ASSUME NEW t \in Updater, upd[t].pc = "name" => upd[t].diff \in Counts
  PROVE  Pending(t) \in Nat
BY CountsAdd DEF Pending

\* A step that leaves the names, or makes or changes one without giving to it.
NameMade ==
  \/ names' = names
  \/ \E name, family, n : /\ n.given = FindHostByString(name, family).given
                          /\ NameOK(FindHostByString(name, family)) => NameOK(n)
                          /\ names' = Set(names, <<name, family>>, n)
NoneMorePending ==
  \A t \in Updater : upd'[t].pc = "name" => upd[t].pc = "name" /\ upd'[t].diff = upd[t].diff
LEMMA NamesKept ==
  ASSUME NamesInv, hosts \in Counts, UNCHANGED hosts, NameMade, NoneMorePending
  PROVE  NamesInv'
<1>1. NamesOK' /\ GivenToNames' = GivenToNames
  <2>1. CASE names' = names
    BY <2>1 DEF NamesInv, NamesOK, GivenToNames, Given
  <2>2. CASE names' # names
    <3>1. PICK name, family, n : /\ n.given = FindHostByString(name, family).given
                                 /\ NameOK(FindHostByString(name, family)) => NameOK(n)
                                 /\ names' = Set(names, <<name, family>>, n)
      BY <2>2 DEF NameMade
    <3>2. NameOK(FindHostByString(name, family))
      BY FoundOK DEF NamesInv
    <3>3. NamesOK' /\ GivenToNames' = GivenToNames - Packets(n.given) + Packets(n.given)
      BY <3>1, <3>2, NamePut DEF NamesInv
    <3>4. GivenToNames \in Nat /\ Packets(n.given) \in Nat
      BY <3>1, <3>2, GivenInt, CountsAdd DEF NamesInv, NameOK
    <3> QED
      BY <3>3, <3>4
  <2> QED
    BY <2>1, <2>2
<1>2. \A t \in Updater : Pending(t)' = Pending(t) \/ Pending(t)' = 0
  BY DEF Pending, NoneMorePending
<1>3. \A t \in Updater : Pending(t) \in Nat
  BY PendingNat DEF NamesInv
<1>4. \A t \in Updater : upd'[t].pc = "name" => upd'[t].diff \in Counts
  BY DEF NamesInv, NoneMorePending
<1>5. GivenToNames \in Nat /\ Packets(hosts) \in Nat
  BY GivenInt, CountsAdd DEF NamesInv
<1>6. GivenToNames + Pending("poller") + Pending("script") <= Packets(hosts)
  BY DEF NamesInv
<1>7. "poller" \in Updater /\ "script" \in Updater
  BY DEF Updater
<1>8. GivenToNames' + Pending("poller")' + Pending("script")' <= Packets(hosts)'
  BY <1>1, <1>2, <1>3, <1>5, <1>6, <1>7
<1> QED
  BY <1>1, <1>4, <1>8 DEF NamesInv

LEMMA NamesAggregate ==
  ASSUME NamesInv, hosts \in Counts, DOMAIN upd = Updater, Aggregate,
         \A t \in Updater : upd[t].pc = "name" => DOMAIN upd[t] = {"pc", "diff", "read", "name", "freed"}
  PROVE  NamesInv'
<1> DEFINE c == Head(flow.calls)
           h == FindHostByString(c.name, c.family)
           told == [h EXCEPT !.queries = @ + 1, !.tracked = c.track]
<1>1. /\ UNCHANGED hosts
      /\ names' = Set(names, <<c.name, c.family>>, h) \/ names' = Set(names, <<c.name, c.family>>, told)
      /\ StartUpdate("poller") \/ upd' = FreeName
  BY DEF Aggregate
<1>2. NameOK(h)
  BY FoundOK DEF NamesInv
<1>3. \E n : n.given = h.given /\ NameOK(n) /\ names' = Set(names, <<c.name, c.family>>, n)
  <2> HIDE DEF h
  <2>1. told.given = h.given /\ NameOK(told)
    BY <1>2 DEF NameOK
  <2> HIDE DEF told
  <2> QED
    BY <1>1, <1>2, <2>1
<1>4. ASSUME NEW t \in Updater, upd'[t].pc = "name"
      PROVE  upd[t].pc = "name" /\ upd'[t].diff = upd[t].diff
  <2>1. CASE StartUpdate("poller")
    <3>1. upd' = [upd EXCEPT !["poller"] = [pc |-> "give", read |-> flow.count, diff |-> Minus(flow.count, flow.last)]]
      BY <2>1 DEF StartUpdate
    <3> QED
      BY <1>4, <3>1 DEF Updater
  <2>2. CASE upd' = upd
    BY <1>4, <2>2
  <2>3. CASE upd["script"].pc = "name" /\ upd' = [upd EXCEPT !["script"].freed = TRUE]
    <3>1. CASE t = "script"
      <4>1. upd'[t] = [upd[t] EXCEPT !.freed = TRUE] /\ DOMAIN upd[t] = {"pc", "diff", "read", "name", "freed"}
        BY <2>3, <3>1
      <4> QED
        BY <2>3, <3>1, <4>1
    <3>2. CASE t # "script"
      BY <1>4, <2>3, <3>2
    <3> QED
      BY <3>1, <3>2
  <2> QED
    BY <1>1, <2>1, <2>2, <2>3 DEF FreeName
<1> HIDE DEF c, h, told
<1>5. NameMade
  BY <1>3 DEF h, NameMade
<1>6. NoneMorePending
  BY <1>4 DEF NoneMorePending
<1> QED
  BY <1>1, <1>5, <1>6, NamesKept

LEMMA NamesGive ==
  ASSUME NamesInv, hosts \in Counts, DOMAIN upd = Updater, NEW t \in Updater, upd[t].pc = "give" => upd[t].diff \in Counts,
         Give(t)
  PROVE  NamesInv'
<1> DEFINE d == upd[t].diff
<1>1. /\ d \in Counts /\ hosts' = Add(hosts, d) /\ UNCHANGED names /\ upd[t].pc = "give"
      /\ \A u \in Updater \ {t} : upd'[u] = upd[u]
      /\ upd'[t].pc = "name" => upd'[t].diff = d
  <2>1. upd' = [upd EXCEPT ![t] = CheckBlacklisted]
        \/ \E r, n : upd' = [upd EXCEPT ![t] = [pc |-> "name", diff |-> d, read |-> r, name |-> n, freed |-> FALSE]]
    BY DEF Give
  <2>2. CheckBlacklisted.pc # "name"
    BY DEF CheckBlacklisted, Idle
  <2>3. /\ \A u \in Updater \ {t} : upd'[u] = upd[u]
        /\ upd'[t].pc = "name" => upd'[t].diff = d
    <3> HIDE DEF d
    <3> QED
      BY <2>1, <2>2
  <2> QED
    BY <2>3 DEF Give
<1> HIDE DEF d
<1>2. Packets(hosts') = Packets(hosts) + Packets(d) /\ Packets(d) \in Nat /\ Packets(hosts) \in Nat
  BY <1>1, CountsAdd
<1>3. NamesOK' /\ GivenToNames' = GivenToNames
  BY <1>1 DEF NamesInv, NamesOK, GivenToNames, Given
<1>4. \A u \in Updater : upd'[u].pc = "name" => upd'[u].diff \in Counts
  BY <1>1 DEF NamesInv
<1>5. /\ \A u \in Updater \ {t} : Pending(u)' = Pending(u)
      /\ Pending(t) = 0 /\ Pending(t)' \in {0, Packets(d)}
  BY <1>1 DEF Pending
<1>6. \A u \in Updater : Pending(u) \in Nat
  BY PendingNat DEF NamesInv
<1>7. GivenToNames \in Nat /\ GivenToNames + Pending("poller") + Pending("script") <= Packets(hosts)
  BY GivenInt DEF NamesInv
<1>8. GivenToNames' + Pending("poller")' + Pending("script")' <= Packets(hosts)'
  <2>1. CASE t = "poller"
    BY <1>2, <1>3, <1>5, <1>6, <1>7, <2>1 DEF Updater
  <2>2. CASE t = "script"
    BY <1>2, <1>3, <1>5, <1>6, <1>7, <2>2 DEF Updater
  <2> QED
    BY <2>1, <2>2 DEF Updater
<1> QED
  BY <1>3, <1>4, <1>8 DEF NamesInv

LEMMA NamesGiveName ==
  ASSUME NamesInv, hosts \in Counts, DOMAIN upd = Updater, NEW t \in Updater, GiveName(t)
  PROVE  NamesInv'
<1> DEFINE d == upd[t].diff
           swapped == [cs |-> d.sc, sc |-> d.cs]
           name == upd[t].name
           was == FindHostByString(name, flow.proto)
           given == [was EXCEPT !.given = Add(@, swapped)]
<1>1. /\ upd[t].pc = "name" /\ d \in Counts /\ UNCHANGED hosts
      /\ names' = names \/ names' = Set(names, <<name, flow.proto>>, given)
      /\ upd' = [upd EXCEPT ![t] = CheckBlacklisted]
  BY DEF GiveName, NamesInv
<1>2. CheckBlacklisted.pc # "name"
  BY DEF CheckBlacklisted, Idle
<1>3. \A u \in Updater \ {t} : upd'[u] = upd[u]
  BY <1>1
<1>4. upd'[t].pc # "name"
  BY <1>1, <1>2
<1>5. NameOK(was)
  BY FoundOK DEF NamesInv
<1>6. swapped \in Counts /\ Packets(swapped) = Packets(d) /\ Packets(d) \in Nat
  <2> HIDE DEF d
  <2> QED
    BY <1>1 DEF Counts, Packets
<1> HIDE DEF d, swapped, was, name
<1>7. NameOK(given) /\ given.given = Add(was.given, swapped)
  BY <1>5, <1>6, CountsAdd DEF NameOK
<1>8. Packets(given.given) = Packets(was.given) + Packets(d) /\ Packets(was.given) \in Nat
  BY <1>5, <1>6, <1>7, CountsAdd DEF NameOK
<1> HIDE DEF given
<1>9. NamesOK' /\ GivenToNames' \in {GivenToNames, GivenToNames - Packets(was.given) + Packets(given.given)}
  <2>1. CASE names' = names
    BY <2>1 DEF NamesInv, NamesOK, GivenToNames, Given
  <2>2. CASE names' = Set(names, <<name, flow.proto>>, given)
    BY <1>7, <2>2, NamePut DEF NamesInv, was
  <2> QED
    BY <1>1, <2>1, <2>2
<1>10. GivenToNames \in Nat /\ GivenToNames + Pending("poller") + Pending("script") <= Packets(hosts)
       /\ Packets(hosts) \in Nat
  BY GivenInt, CountsAdd DEF NamesInv
<1>11. /\ \A u \in Updater \ {t} : Pending(u)' = Pending(u)
       /\ Pending(t) = Packets(d) /\ Pending(t)' = 0
  BY <1>1, <1>3, <1>4 DEF Pending, d
<1>12. \A u \in Updater : Pending(u) \in Nat
  BY PendingNat DEF NamesInv
<1>13. GivenToNames' \in Nat /\ GivenToNames' <= GivenToNames + Packets(d)
  BY <1>6, <1>8, <1>9, <1>10
<1>14. GivenToNames' + Pending("poller")' + Pending("script")' <= Packets(hosts)
  <2>1. CASE t = "poller"
    BY <1>6, <1>10, <1>11, <1>12, <1>13, <2>1 DEF Updater
  <2>2. CASE t = "script"
    BY <1>6, <1>10, <1>11, <1>12, <1>13, <2>2 DEF Updater
  <2> QED
    BY <2>1, <2>2 DEF Updater
<1>15. \A u \in Updater : upd'[u].pc = "name" => upd'[u].diff \in Counts
  BY <1>3, <1>4 DEF NamesInv
<1> QED
  BY <1>1, <1>9, <1>14, <1>15 DEF NamesInv

LEMMA NamesForgotten ==
  ASSUME Forget
  PROVE  NamesInv'
<1>1. names' = <<>> /\ upd' = [t \in Updater |-> Idle] /\ hosts' = NoCount
  BY DEF Forget
<1>2. DOMAIN names' = {} /\ IsFiniteSet({})
  BY <1>1, FS_EmptySet
<1>3. GivenToNames' = 0
  <2>1. SumOver(Given', {}) = 0
    BY SumNone
  <2> QED
    BY <1>2, <2>1 DEF GivenToNames
<1>4. Packets(NoCount) = 0
  BY DEF NoCount, Packets
<1>5. \A t \in Updater : upd'[t].pc # "name"
  BY <1>1 DEF Idle
<1>6. Pending("poller")' = 0 /\ Pending("script")' = 0
  BY <1>5 DEF Pending, Updater
<1> QED
  BY <1>1, <1>2, <1>3, <1>4, <1>5, <1>6 DEF NamesInv, NamesOK

LEMMA NamesStep ==
  ASSUME LifeInv, NamesInv, [Next]_vars
  PROVE  NamesInv'
<1>1. /\ hosts \in Counts /\ DOMAIN upd = Updater
      /\ \A t \in Updater : upd[t].pc = "give" => upd[t].diff \in Counts
      /\ \A t \in Updater : upd[t].pc = "name" => DOMAIN upd[t] = {"pc", "diff", "read", "name", "freed"}
  BY DEF LifeInv, FlowInv, UpdOK
<1>2. ASSUME UNCHANGED <<hosts, names, upd>> PROVE NamesInv'
  <2>1. NameMade /\ NoneMorePending
    BY <1>2 DEF NameMade, NoneMorePending
  <2> QED
    BY <1>1, <1>2, <2>1, NamesKept
<1>3. ASSUME UNCHANGED <<hosts, names>>, NEW t \in Updater, NEW now, now.pc # "name", upd' = [upd EXCEPT ![t] = now]
      PROVE  NamesInv'
  <2>1. NameMade /\ NoneMorePending
    BY <1>1, <1>3 DEF NameMade, NoneMorePending
  <2> QED
    BY <1>1, <1>3, <2>1, NamesKept
<1>4. CASE Aggregate
  BY <1>1, <1>4, NamesAggregate
<1>5. CASE GetCategory
  BY <1>2, <1>5 DEF GetCategory
<1>6. ASSUME NEW frame \in Frame, NEW dir \in BOOLEAN, NEW o \in Outcome, NEW g \in Guess, Capture(frame, dir, o, g)
      PROVE  NamesInv'
  BY <1>2, <1>6 DEF Capture
<1>7. ASSUME NEW frame \in Frame, NoRoom(frame) PROVE NamesInv'
  BY <1>2, <1>7 DEF NoRoom
<1>8. ASSUME NEW r \in Record, NEW dir \in BOOLEAN, NEW g \in Guess, Collect(r, dir, g)
      PROVE  NamesInv'
  BY <1>2, <1>8 DEF Collect
<1>9. ASSUME NEW fault \in Faults, EndFlow(fault) PROVE NamesInv'
  BY <1>2, <1>9 DEF EndFlow
<1>10. CASE Refuse \/ Stop \/ UNCHANGED vars
  BY <1>2, <1>10 DEF Refuse, Stop, vars
<1>11. CASE Categorise
  BY <1>2, <1>11 DEF Categorise, Ask, Answer, Expire
<1>12. CASE StartScript
  <2> DEFINE now == [pc |-> "give", read |-> flow.count, diff |-> Minus(flow.count, flow.last)]
  <2>1. UNCHANGED <<hosts, names>> /\ upd' = [upd EXCEPT !["script"] = now]
    BY <1>12 DEF StartScript, StartUpdate
  <2>2. now.pc # "name" /\ "script" \in Updater
    BY DEF Updater
  <2> HIDE DEF now
  <2> QED
    BY <1>3, <2>1, <2>2
<1>13. ASSUME NEW t \in Updater, Give(t) PROVE NamesInv'
  BY <1>1, <1>13, NamesGive
<1>14. ASSUME NEW t \in Updater, GiveName(t) PROVE NamesInv'
  BY <1>1, <1>14, NamesGiveName
<1>15. ASSUME NEW t \in Updater, Alert(t) PROVE NamesInv'
  <2>1. UNCHANGED <<hosts, names>> /\ upd' = [upd EXCEPT ![t] = Idle] /\ Idle.pc # "name"
    BY <1>15 DEF Alert, Idle
  <2> QED
    BY <1>3, <2>1
<1>16. CASE Close \/ Crash
  BY <1>16, NamesForgotten DEF Close, Crash
<1> QED
  BY <1>4, <1>5, <1>6, <1>7, <1>8, <1>9, <1>10, <1>11, <1>12, <1>13, <1>14, <1>15, <1>16 DEF Next, Poller, Update

\* The names that the flows carried, one after the other, share what their hosts got, whatever
\* was renamed, freed or counted meanwhile and whichever of the two threads gives.
THEOREM NamesShareTheHosts == Spec => []NamesWithinHosts
<1>1. Init => NamesInv
  <2> SUFFICES ASSUME Init PROVE NamesInv
    OBVIOUS
  <2>1. names = <<>> /\ upd = [t \in Updater |-> Idle] /\ hosts = NoCount
    BY DEF Init
  <2>2. DOMAIN names = {} /\ IsFiniteSet({})
    BY <2>1, FS_EmptySet
  <2>3. GivenToNames = 0
    <3>1. SumOver(Given, {}) = 0
      BY SumNone
    <3> QED
      BY <2>2, <3>1 DEF GivenToNames
  <2>4. Packets(NoCount) = 0
    BY DEF NoCount, Packets
  <2>5. \A t \in Updater : upd[t].pc # "name"
    BY <2>1 DEF Idle
  <2>6. Pending("poller") = 0 /\ Pending("script") = 0
    BY <2>5 DEF Pending, Updater
  <2> QED
    BY <2>1, <2>2, <2>3, <2>4, <2>5, <2>6 DEF NamesInv, NamesOK
<1>2. LifeInv /\ NamesInv /\ [Next]_vars => NamesInv'
  BY NamesStep
<1>3. LifeInv /\ NamesInv => NamesWithinHosts
  <2> SUFFICES ASSUME LifeInv, NamesInv PROVE NamesWithinHosts
    OBVIOUS
  <2>1. GivenToNames \in Nat /\ Packets(hosts) \in Nat /\ Pending("poller") \in Nat /\ Pending("script") \in Nat
    BY GivenInt, CountsAdd, PendingNat DEF NamesInv, LifeInv, FlowInv, Updater
  <2>2. GivenToNames <= Packets(hosts)
    BY <2>1 DEF NamesInv
  <2> QED
    BY <2>2, GivenIs DEF NamesInv, NamesOK, NamesWithinHosts
<1> QED
  BY LifeInvariance, <1>1, <1>2, <1>3, PTL DEF Spec
===============================================================================
