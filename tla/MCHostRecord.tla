---------------------------- MODULE MCHostRecord ----------------------------
(* One local or remote address on two interfaces; short days.              *)
EXTENDS HostRecord, TLC

CONSTANTS k1, n1, i1, i2
Interfaces == Permutations(Iface)

MCMacOf == k1 :> <<26, 21>>  \* 1A:15
MCNameCache == <<>>
T(p, b) == [pkts |-> p, bytes |-> b]
MCTraffic ==
  { [l4 |-> "tcp", ndpi |-> 7, traffic |-> [d \in Dir |-> IF d = "sent" THEN T(1, 70) ELSE T(0, 0)]],
    [l4 |-> "none", ndpi |-> 0, traffic |-> [d \in Dir |-> T(2, 120)]] }
MCMessage ==
  { [proto |-> "dns", dir |-> "sent", what |-> "query", code |-> 28],
    [proto |-> "epp", dir |-> "rcvd", what |-> "query", code |-> 3],
    [proto |-> "epp", dir |-> "sent", what |-> "reply", code |-> 1000] }
===============================================================================
