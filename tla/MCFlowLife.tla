------------------------------ MODULE MCFlowLife ------------------------------
(* A page of the web, a name of the DNS and its denial, a record of each   *)
(* kind; names are sequences of labels.                                    *)
EXTENDS FlowLife

Packet == [link |-> "ether", tags |-> <<>>, type |-> "ip4", captured |-> TRUE, version |-> "ip4",
           tunnel |-> "none", size |-> TRUE, fragment |-> FALSE, at |-> 0]
MCFrame ==
  { Packet, [Packet EXCEPT !.fragment = TRUE], [Packet EXCEPT !.link = "cooked"],
    [Packet EXCEPT !.version = "ip6"], [Packet EXCEPT !.type = "arp"] }
MCRecord ==
  { [IN_PKTS |-> 1, OUT_PKTS |-> 2, SAMPLING_INTERVAL |-> 2, LAST_SWITCHED |-> 1, L7_PROTO |-> "http"],
    [LAST_SWITCHED |-> 3, EPP_CMD |-> 1, EPP_SERVER_NAME |-> <<"epp", "it">>, SRC_VLAN |-> 1,
     EPP_CMD_ARGS |-> <<[name |-> <<"b", "it">>, available |-> FALSE]>>],
    [IN_PKTS |-> 1, LAST_SWITCHED |-> 0, DST_PROC_PID |-> 7, DST_PROC_NAME |-> "httpd"] }
Plain == [kind |-> "packets", aggregate |-> TRUE, short |-> TRUE, dns |-> TRUE, dump |-> FALSE,
          export |-> FALSE, categories |-> FALSE, black |-> FALSE, garbage |-> TRUE]
\* Names under way; a domain to categorise; records and the rows of the database.
MCConf ==
  { Plain, [Plain EXCEPT !.aggregate = FALSE, !.categories = TRUE],
    [Plain EXCEPT !.kind = "records", !.dump = TRUE, !.garbage = FALSE] }
MCBlackConf == { [Plain EXCEPT !.black = TRUE, !.garbage = FALSE] }
MCOutcome ==
  { [proto |-> "unknown", read |-> NoRead],
    [proto |-> "http", read |-> [NoRead EXCEPT !.name = <<"w", "a", "com">>, !.os = <<"linux">>]],
    [proto |-> "dns", read |-> [NoRead EXCEPT !.name = <<"w", "a", "com">>, !.answers = 1, !.at = TRUE]],
    [proto |-> "dns", read |-> [NoRead EXCEPT !.name = <<"x", "y", "b", "com">>, !.code = 3]] }
===============================================================================
