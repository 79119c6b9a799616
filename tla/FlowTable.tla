------------------------------- MODULE FlowTable -------------------------------
(***************************************************************************)
(* The flow and host tables of one network interface, as its capture       *)
(* thread drives them: a packet (or a collected flow record) is matched to *)
(* a Flow object, new flows pin their two Host objects with a 16-bit       *)
(* counter of uses, and every packet ends in a sweep that frees idle flows *)
(* first and idle, unused hosts next.  The user interface may restore a    *)
(* host and the housekeeping thread credits traffic to hosts in between.   *)
(*                                                                         *)
(* A table is a function whose domain is the set of live heap objects; the *)
(* order of a bucket's list is left out, so a lookup with several matches  *)
(* returns any of them.  One handler of the capture thread is the steps    *)
(* between two visits to stage "poll".                                     *)
(***************************************************************************)
EXTENDS Integers, FiniteSets

CONSTANTS
  HostObj, FlowObj,     \* heap addresses of Host and Flow objects
  NoHost,               \* the NULL Host pointer
  Addr, Port,           \* IP addresses and ports, as their 32-bit keys
  Tuples,               \* <<source, destination>> endpoints seen on the wire
  LocalAddr,            \* addresses of the local networks
  Restorable,           \* addresses the user interface restores
  MaxHosts, MaxFlows,   \* --max-num-hosts, --max-num-flows
  UsesMod,              \* 2^16, the range of Host::num_uses
  NumHostHashes, NumFlowHashes, PurgeFraction,
  FlowMaxIdle, TcpFlowMaxIdle, LocalHostMaxIdle, RemoteHostMaxIdle,
  Sticky,               \* host_stickness: the localities never idle
  PurgeEnabled,         \* purge_idle_flows_hosts
  IsPacketInterface,    \* packets, or records of a collector
  InOrder,              \* the timestamps never go back
  MaxTime               \* bound of the clock, for TLC

ASSUME ObjectsAssumption == NoHost \notin HostObj
ASSUME DataAssumption ==
  /\ Addr \subseteq Nat /\ Port \subseteq Nat
  /\ Tuples \subseteq [addr : Addr, port : Port] \X [addr : Addr, port : Port]
  /\ Restorable \subseteq Addr
ASSUME LimitsAssumption ==
  /\ MaxHosts \in Nat /\ MaxFlows \in Nat /\ UsesMod \in Nat \ {0}
  /\ NumHostHashes \in Nat \ {0} /\ NumFlowHashes \in Nat \ {0}
  /\ PurgeFraction \in Nat \ {0}
ASSUME TimesAssumption ==
  /\ {FlowMaxIdle, TcpFlowMaxIdle, LocalHostMaxIdle, RemoteHostMaxIdle} \subseteq Nat
  /\ MaxTime \in Nat
ASSUME ModeAssumption ==
  /\ Sticky \subseteq BOOLEAN
  /\ PurgeEnabled \in BOOLEAN /\ IsPacketInterface \in BOOLEAN /\ InOrder \in BOOLEAN

VARIABLES
  flows, flowsSize,     \* flows_hash and its current_size
  hosts, hostsSize,     \* hosts_hash and its current_size
  lastPkt,              \* last_pkt_rcvd
  nextFlowPurge, nextHostPurge,
  lastPurgedFlow, lastPurgedHost,   \* last_purged_hash of each table
  stage                 \* where the capture thread is in its handler

purgeVars == <<nextFlowPurge, nextHostPurge, lastPurgedFlow, lastPurgedHost>>
vars == <<flows, flowsSize, hosts, hostsSize, lastPkt, purgeVars, stage>>

PurgeFrequency == 1

HostRec == [addr : Addr, local : BOOLEAN, seen : Nat, uses : 0..(UsesMod - 1)]
FlowRec == [cli : HostObj \cup {NoHost}, srv : HostObj \cup {NoHost},
            cport : Port, sport : Port, key : Nat,
            seen : Nat, fin : BOOLEAN, pending : BOOLEAN]
EmptyTable == [x \in {} |-> 0]
Stages == {"poll", "purge_flows", "purge_hosts", "cleanup_hosts", "deleted"}

\* The interface that replays dumped flows keeps them all and is reset on demand;
\* the tables of every other interface are emptied when it is deleted.
IsHistorical == ~PurgeEnabled /\ ~IsPacketInterface

-------------------------------------------------------------------------------
(* Idleness: what a lookup skips and a sweep frees.                          *)

IsIdle(entry, maxIdle, now) == now > entry.seen + maxIdle

FlowIdle(flow, now) ==
  /\ PurgeEnabled
  /\ \/ flow.fin /\ IsIdle(flow, TcpFlowMaxIdle, now)
     \/ IsIdle(flow, FlowMaxIdle, now)

HostMaxIdle(local) == IF local THEN LocalHostMaxIdle ELSE RemoteHostMaxIdle

\* Mutant: a sweep looks at the age of a host and not at its flows.
HostIdleDespiteUses(host, now) ==
  /\ PurgeEnabled
  /\ host.local \notin Sticky
  /\ IsIdle(host, HostMaxIdle(host.local), now)

HostIdle(host, now) ==
  /\ host.uses = 0
  /\ PurgeEnabled
  /\ host.local \notin Sticky
  /\ IsIdle(host, HostMaxIdle(host.local), now)

-------------------------------------------------------------------------------
(* Matching a packet to a flow, and a flow to its hosts.                     *)

Between(flow, src, dst) ==
  /\ hosts[flow.cli].addr = src.addr /\ flow.cport = src.port
  /\ hosts[flow.srv].addr = dst.addr /\ flow.sport = dst.port

\* Mutant: the way back is matched on the addresses alone.
MatchesAnyPortBack(flow, src, dst) ==
  /\ flow.cli # NoHost /\ flow.srv # NoHost
  /\ \/ Between(flow, src, dst)
     \/ hosts[flow.cli].addr = dst.addr /\ hosts[flow.srv].addr = src.addr

Matches(flow, src, dst) ==
  /\ flow.cli # NoHost /\ flow.srv # NoHost
  /\ Between(flow, src, dst) \/ Between(flow, dst, src)

Active(src, dst, now) ==
  {f \in DOMAIN flows : ~FlowIdle(flows[f], now) /\ Matches(flows[f], src, dst)}

FindFlow(src, dst, now) ==
  {f \in Active(src, dst, now) :
     flows[f].key % NumFlowHashes
       = (src.addr + dst.addr + src.port + dst.port) % NumFlowHashes}

\* Mutant: the lookup returns an idle host too.
GetHostIdleToo(addr, now) == {h \in DOMAIN hosts : hosts[h].addr = addr}

GetHost(addr, now) ==
  {h \in DOMAIN hosts : hosts[h].addr = addr /\ ~HostIdle(hosts[h], now)}

\* The host of addr: the one in the table, else a new object h if there is room.
HostFor(addr, now, size, h) ==
  \/ h \in GetHost(addr, now)
  \/ GetHost(addr, now) = {} /\ size < MaxHosts /\ h \in HostObj \ DOMAIN hosts
  \/ GetHost(addr, now) = {} /\ size >= MaxHosts /\ h = NoHost

\* Mutant: both ends are looked up before either is added.
FindFlowHostsBothFirst(src, dst, now, s, d) ==
  /\ HostFor(src.addr, now, hostsSize, s)
  /\ \/ s = NoHost /\ d = NoHost
     \/ s # NoHost /\ (d # s \/ s \in DOMAIN hosts) /\ HostFor(dst.addr, now, hostsSize + 1, d)

FindFlowHosts(src, dst, now, s, d) ==
  /\ HostFor(src.addr, now, hostsSize, s)
  /\ \/ s = NoHost /\ d = NoHost
     \/ s \in DOMAIN hosts /\ HostFor(dst.addr, now, hostsSize, d)
     \/ s \in HostObj \ DOMAIN hosts /\ dst.addr = src.addr /\ d = s
     \/ /\ s \in HostObj \ DOMAIN hosts /\ dst.addr # src.addr /\ d # s
        /\ HostFor(dst.addr, now, hostsSize + 1, d)

NewHost(addr, isLocal, now) ==
  [addr |-> addr, local |-> isLocal, seen |-> now, uses |-> 0]

FlowKey(src, dst, s, d) ==
  src.port + dst.port + (IF s = NoHost THEN 0 ELSE src.addr)
                      + (IF d = NoHost THEN 0 ELSE dst.addr)

NewFlow(src, dst, s, d, seen, fin) ==
  [cli |-> s, srv |-> d, cport |-> src.port, sport |-> dst.port,
   key |-> FlowKey(src, dst, s, d), seen |-> seen, fin |-> fin,
   pending |-> ~IsPacketInterface \/ (s # NoHost /\ d # NoHost)]

\* How many ends of the flows of a table are host h: what incUses counts.
EndsAt(table, h) == Cardinality({f \in DOMAIN table : table[f].cli = h})
                  + Cardinality({f \in DOMAIN table : table[f].srv = h})

IncUses(host, h, s, d) ==
  [host EXCEPT !.uses = (@ + (IF h = s THEN 1 ELSE 0) + (IF h = d THEN 1 ELSE 0)) % UsesMod]

DecUses(host, n) == [host EXCEPT !.uses = (@ - n) % UsesMod]

-------------------------------------------------------------------------------
(* The capture thread: getFlow and the update of the flow.                   *)

UpdateFlow(f, seen, fin) ==
  /\ flows' = [flows EXCEPT ![f].seen = seen, ![f].fin = @ \/ fin,
                            ![f].pending = TRUE]
  /\ UNCHANGED <<flowsSize, hosts, hostsSize>>

\* findFlowHosts adds the hosts first; a flow the table has no room for is
\* deleted at once and gives its uses back, but the new hosts stay.
CreateFlow(src, dst, now, seen, fin) ==
  \E s, d \in HostObj \cup {NoHost} :
    LET created == {s, d} \ (DOMAIN hosts \cup {NoHost})
        host(h) == IF h \in DOMAIN hosts THEN hosts[h]
                   ELSE LET addr == IF h = s THEN src.addr ELSE dst.addr
                        IN NewHost(addr, addr \in LocalAddr, now)
    IN /\ FindFlowHosts(src, dst, now, s, d)
       /\ hostsSize' = hostsSize + Cardinality(created)
       /\ \/ /\ flowsSize < MaxFlows
             /\ hosts' = [h \in DOMAIN hosts \cup created |-> IncUses(host(h), h, s, d)]
             /\ \E f \in FlowObj \ DOMAIN flows :
                  flows' = [g \in DOMAIN flows \cup {f} |->
                              IF g = f THEN NewFlow(src, dst, s, d, seen, fin)
                              ELSE flows[g]]
             /\ flowsSize' = flowsSize + 1
          \/ /\ flowsSize >= MaxFlows
             /\ hosts' = [h \in DOMAIN hosts \cup created |-> host(h)]
             /\ UNCHANGED <<flows, flowsSize>>

Classify(src, dst, now, seen, fin) ==
  \/ \E f \in FindFlow(src, dst, now) : UpdateFlow(f, seen, fin)
  \/ FindFlow(src, dst, now) = {} /\ CreateFlow(src, dst, now, seen, fin)

Times == 1..MaxTime
NotEarlier(t) == InOrder => t >= lastPkt

\* purgeIdle(when): the sweep that ends every handler.
StartPurge(now, when) ==
  IF PurgeEnabled THEN lastPkt' = when /\ stage' = "purge_flows"
                  ELSE lastPkt' = now /\ stage' = "poll"

PacketDissector(tuple, t, fin) ==
  /\ IsPacketInterface /\ stage = "poll" /\ NotEarlier(t)
  /\ Classify(tuple[1], tuple[2], t, t, fin)
  /\ StartPurge(t, t)
  /\ UNCHANGED purgeVars

\* A record is classified at the latest time seen; the sweep that follows sets
\* the clock to the time of the record, even back.  No flow, no sweep.
FlowProcessing(tuple, t, fin) ==
  /\ ~IsPacketInterface /\ stage = "poll" /\ NotEarlier(t)
  /\ LET now == IF t > lastPkt THEN t ELSE lastPkt
         refused == FindFlow(tuple[1], tuple[2], now) = {} /\ flowsSize >= MaxFlows
     IN /\ Classify(tuple[1], tuple[2], now, t, fin)
        /\ IF refused THEN lastPkt' = now /\ stage' = "poll" ELSE StartPurge(now, t)
  /\ UNCHANGED purgeVars

IdlePoll(t) ==
  /\ stage = "poll" /\ NotEarlier(t)
  /\ StartPurge(lastPkt, t)
  /\ UNCHANGED <<flows, flowsSize, hosts, hostsSize, purgeVars>>

-------------------------------------------------------------------------------
(* The sweep: each table frees the idle entries of its next few buckets.     *)

BucketsPerPurge(numHashes) == numHashes \div PurgeFraction
Swept(last, numHashes) == {(last + j) % numHashes : j \in 1..BucketsPerPurge(numHashes)}

LastSwept(last, numHashes) == (last + BucketsPerPurge(numHashes)) % numHashes

Rows(table, keep) == [f \in keep |-> table[f]]

DeleteFlows(gone) ==
  /\ flows' = Rows(flows, DOMAIN flows \ gone)
  /\ hosts' = [h \in DOMAIN hosts |-> DecUses(hosts[h], EndsAt(Rows(flows, gone), h))]

PurgeIdleFlows ==
  /\ stage = "purge_flows"
  /\ stage' = "purge_hosts"
  /\ \/ /\ nextFlowPurge = 0
        /\ nextFlowPurge' = lastPkt + PurgeFrequency
        /\ UNCHANGED <<flows, flowsSize, hosts, lastPurgedFlow>>
     \/ /\ nextFlowPurge # 0 /\ lastPkt < nextFlowPurge
        /\ UNCHANGED <<flows, flowsSize, hosts, lastPurgedFlow, nextFlowPurge>>
     \/ /\ nextFlowPurge # 0 /\ lastPkt >= nextFlowPurge
        /\ LET gone == {f \in DOMAIN flows :
                          /\ flows[f].key % NumFlowHashes \in Swept(lastPurgedFlow, NumFlowHashes)
                          /\ FlowIdle(flows[f], lastPkt)}
           IN DeleteFlows(gone) /\ flowsSize' = flowsSize - Cardinality(gone)
        /\ lastPurgedFlow' = LastSwept(lastPurgedFlow, NumFlowHashes)
        /\ nextFlowPurge' = lastPkt + PurgeFrequency
  /\ UNCHANGED <<hostsSize, lastPkt, nextHostPurge, lastPurgedHost>>

PurgeIdleHosts ==
  /\ stage = "purge_hosts"
  /\ stage' = "poll"
  /\ \/ /\ nextHostPurge = 0
        /\ nextHostPurge' = lastPkt + PurgeFrequency
        /\ UNCHANGED <<hosts, hostsSize, lastPurgedHost>>
     \/ /\ nextHostPurge # 0 /\ lastPkt < nextHostPurge
        /\ UNCHANGED <<hosts, hostsSize, lastPurgedHost, nextHostPurge>>
     \/ /\ nextHostPurge # 0 /\ lastPkt >= nextHostPurge
        /\ LET gone == {h \in DOMAIN hosts :
                          /\ hosts[h].addr % NumHostHashes \in Swept(lastPurgedHost, NumHostHashes)
                          /\ HostIdle(hosts[h], lastPkt)}
           IN /\ hosts' = Rows(hosts, DOMAIN hosts \ gone)
              /\ hostsSize' = hostsSize - Cardinality(gone)
        /\ lastPurgedHost' = LastSwept(lastPurgedHost, NumHostHashes)
        /\ nextHostPurge' = lastPkt + PurgeFrequency
  /\ UNCHANGED <<flows, flowsSize, lastPkt, nextFlowPurge, lastPurgedFlow>>

-------------------------------------------------------------------------------
(* The other threads, and the end or the reset of the whole interface.       *)

\* The user interface puts back a host, looking for no other of its address.
RestoreHost(addr) ==
  /\ stage # "deleted"
  /\ hostsSize < MaxHosts
  /\ \E h \in HostObj \ DOMAIN hosts :
       hosts' = [g \in DOMAIN hosts \cup {h} |->
                   IF g = h THEN NewHost(addr, FALSE, lastPkt) ELSE hosts[g]]
  /\ hostsSize' = hostsSize + 1
  /\ UNCHANGED <<flows, flowsSize, lastPkt, purgeVars, stage>>

\* updateHostStats: every flow a walk visits credits its news to its hosts.
UpdateHostStats ==
  LET credited == {f \in DOMAIN flows : flows[f].pending /\ ~FlowIdle(flows[f], lastPkt)}
      busy == {flows[f].cli : f \in credited} \cup {flows[f].srv : f \in credited}
  IN /\ credited # {} /\ stage # "deleted"
     /\ flows' = [f \in DOMAIN flows |->
                    [flows[f] EXCEPT !.pending = @ /\ f \notin credited]]
     /\ hosts' = [h \in DOMAIN hosts |->
                    [hosts[h] EXCEPT !.seen = IF h \in busy THEN lastPkt ELSE @]]
     /\ UNCHANGED <<flowsSize, hostsSize, lastPkt, purgeVars, stage>>

CleanupFlows ==
  /\ stage = "poll"
  /\ lastPkt' = 0 /\ nextFlowPurge' = 0 /\ nextHostPurge' = 0
  /\ DeleteFlows(DOMAIN flows) /\ flowsSize' = 0
  /\ stage' = "cleanup_hosts"
  /\ UNCHANGED <<hostsSize, lastPurgedFlow, lastPurgedHost>>

\* Mutant: the reset of the table forgets current_size.
CleanupHostsSizeKept ==
  /\ stage = "cleanup_hosts"
  /\ hosts' = EmptyTable
  /\ stage' = IF IsHistorical THEN "poll" ELSE "deleted"
  /\ UNCHANGED <<hostsSize, flows, flowsSize, lastPkt, purgeVars>>

CleanupHosts ==
  /\ stage = "cleanup_hosts"
  /\ hosts' = EmptyTable /\ hostsSize' = 0
  /\ stage' = IF IsHistorical THEN "poll" ELSE "deleted"
  /\ UNCHANGED <<flows, flowsSize, lastPkt, purgeVars>>

-------------------------------------------------------------------------------
Init ==
  /\ flows = EmptyTable /\ flowsSize = 0
  /\ hosts = EmptyTable /\ hostsSize = 0
  /\ lastPkt = 0 /\ nextFlowPurge = 0 /\ nextHostPurge = 0
  /\ lastPurgedFlow = NumFlowHashes - 1 /\ lastPurgedHost = NumHostHashes - 1
  /\ stage = "poll"

Next ==
  \/ \E tuple \in Tuples, t \in Times, fin \in BOOLEAN : PacketDissector(tuple, t, fin)
  \/ \E tuple \in Tuples, t \in Times, fin \in BOOLEAN : FlowProcessing(tuple, t, fin)
  \/ \E t \in Times : IdlePoll(t)
  \/ PurgeIdleFlows
  \/ PurgeIdleHosts
  \/ \E addr \in Restorable : RestoreHost(addr)
  \/ UpdateHostStats
  \/ CleanupFlows
  \/ CleanupHosts

Spec == Init /\ [][Next]_vars

-------------------------------------------------------------------------------
\* The types of the tables, the counters and the stage.
TypeOK ==
  /\ DOMAIN flows \subseteq FlowObj /\ flows \in [DOMAIN flows -> FlowRec]
  /\ DOMAIN hosts \subseteq HostObj /\ hosts \in [DOMAIN hosts -> HostRec]
  /\ flowsSize \in Nat /\ hostsSize \in Nat
  /\ {lastPkt, nextFlowPurge, nextHostPurge} \subseteq Nat
  /\ lastPurgedFlow \in 0..(NumFlowHashes - 1) /\ lastPurgedHost \in 0..(NumHostHashes - 1)
  /\ stage \in Stages

\* current_size of each table is its number of entries, within the limit the
\* user set: sweeps, refused additions and the reset keep the two in step.
SizesExact ==
  /\ flowsSize = Cardinality(DOMAIN flows) /\ flowsSize <= MaxFlows
  /\ hostsSize = Cardinality(DOMAIN hosts) /\ hostsSize <= MaxHosts

\* No flow points to a freed Host: every end of every flow is NULL or an object
\* the host table still holds, whatever the sweep of each table has freed.
NoDanglingHost ==
  \A f \in DOMAIN flows : {flows[f].cli, flows[f].srv} \subseteq DOMAIN hosts \cup {NoHost}

\* num_uses of a host is the number of flow ends that point to it, counting a
\* flow of a host to itself twice (Flow::Flow and Flow::~Flow balance).
UsesExact ==
  \A h \in DOMAIN hosts : hosts[h].uses = EndsAt(flows, h)

\* A flow with both its hosts sits in the bucket where FlowHash::find will look
\* for its packets of either direction.
FlowInItsBucket ==
  \A f \in DOMAIN flows :
    flows[f].cli \in DOMAIN hosts /\ flows[f].srv \in DOMAIN hosts =>
      flows[f].key = hosts[flows[f].cli].addr + hosts[flows[f].srv].addr
                     + flows[f].cport + flows[f].sport

\* While time does not go back, one conversation has one active flow: two active
\* flows with hosts never match the same packet, in either direction.
OneActiveFlow ==
  \A tuple \in Tuples : Cardinality(Active(tuple[1], tuple[2], lastPkt)) <= 1

\* While time does not go back, an address has one active host, except those the
\* user interface restores; a reset between its two halves is excepted.
OneActiveHost ==
  stage # "cleanup_hosts" =>
    \A addr \in Addr \ Restorable : Cardinality(GetHost(addr, lastPkt)) <= 1

\* What Host::~Host reports as an internal error never happens: a host that is
\* freed has no flow left that points to it.
FreedHostUnused ==
  [][\A h \in DOMAIN hosts \ DOMAIN hosts' :
       \A f \in DOMAIN flows' : h \notin {flows'[f].cli, flows'[f].srv}]_vars

\* What lookups skip stays skipped: while time does not go back, no step makes an
\* idle flow or an idle host active again under the nose of its replacement.
NeverRevived ==
  [][stage' # "cleanup_hosts" =>
       /\ \A f \in DOMAIN flows \cap DOMAIN flows' :
            FlowIdle(flows[f], lastPkt) => FlowIdle(flows'[f], lastPkt')
       /\ \A h \in DOMAIN hosts \cap DOMAIN hosts' :
            HostIdle(hosts[h], lastPkt) => HostIdle(hosts'[h], lastPkt')]_vars
===============================================================================
