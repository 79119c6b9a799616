-------------------------------- MODULE Frames --------------------------------
(***************************************************************************)
(* What the poller of an interface takes in: a captured frame, which       *)
(* packet_dissector() and packet_processing() count for the interface and  *)
(* hand to a flow or not, and a record of a collector, which parse_flows() *)
(* turns into the fields flow_processing() works on.  Pure operators.      *)
(***************************************************************************)
EXTENDS Integers, Sequences, FiniteSets, Functions, SequencesExt

-------------------------------------------------------------------------------
(* A frame is a record: link, the data link of the interface; tags, what   *)
(* stands before the packet, from outside to inside; type, the type of the *)
(* packet; captured, if its header was; version, of the packet; tunnel,    *)
(* the version of the packet in a GTP tunnel, or "none"; size, if the IP   *)
(* header fits; fragment; at, its time.                                    *)
Ip == {"ip4", "ip6"}

\* The labels up to the bottom of an MPLS stack: what follows is taken for IPv4.
AfterTags(f) == IF Contains(f.tags, "mpls_bottom") THEN "ip4" ELSE f.type

\* The statistics of an interface: NetworkInterface::incStats() and EthStats::incStats().
\* The counters of nDPI get one packet, whatever the number.
NoEth == [raw |-> 0, ip4 |-> 0, ip6 |-> 0, arp |-> 0, mpls |-> 0, other |-> 0, ndpi |-> 0, system |-> FALSE]
EthClass(type) == IF type \in {"ip4", "ip6", "arp", "mpls"} THEN type ELSE "other"
IncInterface(s, type, packets) ==
  [s EXCEPT !.raw = @ + packets, ![EthClass(type)] = @ + packets, !.ndpi = @ + 1]

\* Where a frame ends: uncounted and dropped, counted and done ("left" without a sweep,
\* "other" as a packet of two hardware addresses), or in packet_processing().
Dissect(f) ==
  LET type == AfterTags(f)
  IN  CASE f.link = "unknown" \/ (f.link = "null" /\ f.type \notin Ip) -> "left"
        [] type \notin Ip -> "other"
        [] ~f.captured -> "swept"
        [] f.version # type \/ (type = "ip4" /\ f.tunnel = "ip6") -> "dropped"
        [] ~f.size -> "short"
        [] OTHER -> "packet"

\* Mutant: packets are counted where the IP header is too short only.
CountFrameShort(s, f) ==
  IF Dissect(f) \in {"other", "short"} THEN IncInterface(s, AfterTags(f), 1) ELSE s

\* The interface after a frame: a cooked frame is counted when it is recognised, as any
\* link of an unknown type, and again with its packet.
CountFrame(s, f) ==
  LET linked == IF f.link = "cooked" THEN IncInterface(s, "none", 1) ELSE s
  IN  CASE Dissect(f) = "left" -> IncInterface(linked, "none", 1)
        [] Dissect(f) \in {"other", "short", "packet"} -> IncInterface(linked, AfterTags(f), 1)
        [] OTHER -> linked
-------------------------------------------------------------------------------
(* A record of a collector: a partial function from the names of fields.   *)
Field(r, name, default) == IF name \in DOMAIN r THEN r[name] ELSE default
\* The last of two names that set the same member.
Either(r, first, second, default) == Field(r, second, Field(r, first, default))

Process(r, end) ==
  [pid |-> Field(r, end \o "_PROC_PID", 0), name |-> Field(r, end \o "_PROC_NAME", "")]

\* The defaults of EPP: ports, protocols, one packet in each direction.  When the source
\* port is missing it is the destination port that is set.
EppDefaults(z) ==
  IF z.epp = 0 THEN z
  ELSE [z EXCEPT !.dport = IF z.sport = 0 THEN 1234 ELSE IF @ = 0 THEN 443 ELSE @,
                 !.l4 = "tcp", !.in = 1, !.out = 1, !.l7 = "epp"]

\* The loop over the fields of a record, then the defaults.
ParseRecord(r) ==
  EppDefaults(
    [sport |-> Field(r, "L4_SRC_PORT", 0), dport |-> Field(r, "L4_DST_PORT", 0),
     vlan |-> Either(r, "SRC_VLAN", "DST_VLAN", 0),
     l4 |-> Field(r, "PROTOCOL", "other"), l7 |-> Field(r, "L7_PROTO", "unknown"),
     in |-> Field(r, "IN_PKTS", 0), out |-> Field(r, "OUT_PKTS", 0),
     rate |-> Field(r, "SAMPLING_INTERVAL", 1), last |-> Field(r, "LAST_SWITCHED", 0),
     epp |-> Field(r, "EPP_CMD", 0), registrar |-> Field(r, "EPP_REGISTRAR_NAME", <<>>),
     server |-> Field(r, "EPP_SERVER_NAME", <<>>), domains |-> Field(r, "EPP_CMD_ARGS", <<>>),
     src |-> Process(r, "SRC"), dst |-> Process(r, "DST")])

\* The record enables the view of system processes.
OfSystem(r) == DOMAIN r \cap {"SRC_PROC_PID", "SRC_PROC_NAME", "DST_PROC_PID", "DST_PROC_NAME"} # {}
===============================================================================
