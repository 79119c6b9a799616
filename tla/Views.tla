-------------------------------- MODULE Views --------------------------------
(***************************************************************************)
(* What a page is told about the tables of an interface: the look-ups and  *)
(* walks behind the "interface" class of the Lua scripts, and the keys     *)
(* under which they push their rows, where a later row takes the place of  *)
(* an earlier one with its key.  A table is the sequence of its entries in *)
(* the order walk() meets them.                                            *)
(***************************************************************************)
EXTENDS Integers, Sequences, FiniteSets, Functions, SequencesExt

CONSTANTS
  NoText,      \* a null string
  Substring,   \* the pairs <<text, key>> where strcasestr() finds key in text
  AnyName,     \* the interface name "any"
  MaxFindHits  \* CONST_MAX_NUM_FIND_HITS

ASSUME ViewsAssumption == MaxFindHits \in Nat

\* walk() passes over the idle entries.
Walked(table) == SelectSeq(table, LAMBDA e : ~e.idle)

\* lua_settable(): the row of an entry under its key.
Rows(table, Key(_)) ==
  [k \in { Key(table[i]) : i \in DOMAIN table } |-> table[SelectLastInSeq(table, LAMBDA e : Key(e) = k)]]
Chosen(table, Take(_), Key(_)) == Rows(SelectSeq(Walked(table), Take), Key)
-----------------------------------------------------------------------------
(* Hosts.                                                                  *)
\* get_string_key(): the address, of a host of layer 2 its hardware address.
StringKey(h) == IF h.ip # NoText THEN h.ip ELSE h.mac

\* The key of the row of a host: the VLAN is part of it.
HostKey(h) == <<StringKey(h), h.vlan>>

ActiveHostsList(hosts) == Chosen(hosts, LAMBDA h : TRUE, HostKey)

\* addIfMatching() of hosts: names, then the hardware address, then the address.
HostMatches(h, key) ==
  \E text \in {h.name, h.alt, h.mac, h.ip} \ {NoText} : <<text, key>> \in Substring
\* addIfMatching() of aggregated hosts.
StringMatches(s, key) == <<s.name, key>> \in Substring

\* Mutant: the second walk goes on from the hits of the first without its own limit.
FindHostsByNameOneMore(hosts, strings, key) ==
  SelectSeq(Walked(hosts), LAMBDA h : HostMatches(h, key))

\* findHostsByName(): both walkers stop when there are more hits than the limit;
\* the aggregated hosts are searched when the hosts gave fewer.
FindHostsByName(hosts, strings, key) ==
  LET UpTo(s, n) == SubSeq(s, 1, IF Len(s) < n THEN Len(s) ELSE n)
      found == UpTo(SelectSeq(Walked(hosts), LAMBDA h : HostMatches(h, key)), MaxFindHits + 1)
  IN  IF Len(found) < MaxFindHits
      THEN found \o UpTo(SelectSeq(Walked(strings), LAMBDA s : StringMatches(s, key)),
                         MaxFindHits + 1 - Len(found))
      ELSE found

\* find_host_by_name(): a host without a name is given the one of the cache.
Named(h, cache) ==
  IF h.name = NoText /\ h.ip # NoText /\ h.ip \in DOMAIN cache
  THEN [h EXCEPT !.name = cache[h.ip]] ELSE h
IsCalled(h, name, vlan) == h.vlan = vlan /\ name # NoText /\ name \in {h.name, h.alt}

\* The walk stops at the host it finds; those it met are named by then.
FindHostByName(hosts, name, vlan, cache) ==
  LET met == [i \in DOMAIN hosts |->
                IF hosts[i].idle \/ hosts[i].vlan # vlan THEN hosts[i] ELSE Named(hosts[i], cache)]
      at == SelectInSeq(met, LAMBDA h : ~h.idle /\ IsCalled(h, name, vlan))
  IN  [found |-> at,
       hosts |-> [i \in DOMAIN hosts |-> IF at = 0 \/ i <= at THEN met[i] ELSE hosts[i]]]

\* getHost(): an address is looked up, anything else is a name; 0 is null.
GetHost(hosts, Address, text, vlan, cache) ==
  IF text \in Address
  THEN [found |-> SelectInSeq(hosts, LAMBDA h : ~h.idle /\ h.vlan = vlan /\ h.ip = text), hosts |-> hosts]
  ELSE FindHostByName(hosts, text, vlan, cache)

\* similarity_walker(): the other hosts with an address, under address and VLAN.
SimilarHosts(hosts, i) ==
  Chosen(SelectSeq(hosts, LAMBDA h : h.ip # NoText /\ h # hosts[i]), LAMBDA h : TRUE, HostKey)
\* correlator_walker(): the same under the address alone.
CorrelatedHosts(hosts, i) ==
  Chosen(SelectSeq(hosts, LAMBDA h : h.ip # NoText /\ h # hosts[i]), LAMBDA h : TRUE, LAMBDA h : h.ip)
-----------------------------------------------------------------------------
(* Aggregated hosts.  contacts: how often each address asked for the name. *)
\* aggregated_hosts_get_list(): family 0 and no host stand for all.
AggregatedHostsList(strings, family, host) ==
  Chosen(strings, LAMBDA s : family \in {0, s.family} /\ (host = NoText \/ host \in DOMAIN s.contacts),
         LAMBDA s : s.name)

\* find_aggregated_host_by_name(): the first, whatever its family.
GetAggregatedHost(strings, name) ==
  SelectInSeq(strings, LAMBDA s : ~s.idle /\ s.name = name)

\* getAggregationsForHost(): under the name alone.
AggregationsForHost(strings, ip) ==
  Chosen(strings, LAMBDA s : ip \in DOMAIN s.contacts /\ s.contacts[ip] > 0, LAMBDA s : s.name)

\* getAggregatedFamilies(): the families met, and the ways of aggregation.
AggregatedFamilies(strings) ==
  LET seen == ToSet(Walked(strings))
  IN  [families |-> { s.family : s \in seen }, aggregations |-> { s.mode : s \in seen }]
-----------------------------------------------------------------------------
(* Flows: cli and srv hold what a flow reads of its hosts, nothing when    *)
(* the table of hosts was full.                                            *)
\* Flow::key(): the sum of ports, VLAN, protocol and the keys of the hosts.
FlowSum(f) ==
  f.ports + f.vlan + f.proto + (IF f.cli = <<>> THEN 0 ELSE f.cli[1].key)
                             + (IF f.srv = <<>> THEN 0 ELSE f.srv[1].key)

\* Mutant: the VLAN of the flow is taken for the host.
ActiveFlowsListOfAny(flows, obj) ==
  Chosen(flows, LAMBDA f : obj = 0 \/ f.vlan <= obj, FlowSum)

\* flows_get_list_details(): the flows of a host; of a null host, all of them.
ActiveFlowsList(flows, obj) ==
  Chosen(flows, LAMBDA f : obj = 0 \/ \E e \in ToSet(f.cli \o f.srv) : e.obj = obj, FlowSum)

\* isFlowPeer(): both ends are compared with the VLAN of the client.
IsFlowPeer(f, ip, vlan) ==
  /\ f.cli # <<>> /\ f.srv # <<>>
  /\ ip \in {f.cli[1].ip, f.srv[1].ip}
  /\ f.cli[1].vlan = vlan

\* print_peers(): under both addresses, with their VLANs unless both are 0.
PeersKey(f) ==
  IF f.cli[1].vlan = 0 /\ f.srv[1].vlan = 0 THEN <<f.cli[1].ip, f.srv[1].ip>>
  ELSE <<f.cli[1].ip, f.cli[1].vlan, f.srv[1].ip, f.srv[1].vlan>>
FlowPeersList(flows, ip, vlan) ==
  Chosen(flows, LAMBDA f : f.cli # <<>> /\ f.srv # <<>> /\ (ip = NoText \/ IsFlowPeer(f, ip, vlan)), PeersKey)

\* findFlowByKey(): the first flow of the bucket with the key.
FindFlowByKey(flows, key) ==
  SelectInSeq(flows, LAMBDA f : ~f.idle /\ FlowSum(f) = key)

\* userfinder_walker(): the user of the server when the client has none.
FindUserFlows(flows, user) ==
  Chosen(flows, LAMBDA f : user = (IF f.user.client # NoText THEN f.user.client ELSE f.user.server), FlowSum)
\* proc_name_finder_walker(): either end.
FindProcNameFlows(flows, name) ==
  Chosen(flows, LAMBDA f : name \in {f.proc.client, f.proc.server}, FlowSum)
\* pidfinder_walker(), and father_pidfinder_walker() with the father.
FindPidFlows(flows, pid) ==
  Chosen(flows, LAMBDA f : pid \in {f.pid.client, f.pid.server}, FlowSum)
FindFatherPidFlows(flows, pid) ==
  Chosen(flows, LAMBDA f : pid \in {f.father.client, f.father.server}, FlowSum)
-----------------------------------------------------------------------------
(* Interfaces: a sequence of records with a name, an id and a script.      *)
\* getInterfaceById().
InterfaceById(ifaces, id) == SelectInSeq(ifaces, LAMBDA f : f.id = id)
\* getInterface(): a number is an id, anything else a name.
GetInterface(ifaces, text) ==
  IF text \in Int THEN InterfaceById(ifaces, text) ELSE SelectInSeq(ifaces, LAMBDA f : f.name = text)
\* getNetworkInterface(): then the name of a script; "any" is the first.
GetNetworkInterface(ifaces, text) ==
  IF text \in Int THEN InterfaceById(ifaces, text)
  ELSE LET named == SelectInSeq(ifaces, LAMBDA f : f.name = text)
           script == SelectInSeq(ifaces, LAMBDA f : f.script = text)
       IN  IF named # 0 THEN named
           ELSE IF script # 0 THEN script
           ELSE IF text = AnyName THEN 1 ELSE 0
===============================================================================
