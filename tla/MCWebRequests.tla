---------------------------- MODULE MCWebRequests ----------------------------
(* Two interfaces; the first has hosts of two VLANs with the same address. *)
EXTENDS WebRequests

Workers == Permutations(Worker)
CONSTANTS ip1, ip2, mac1, name1, name2, key1, key2, eth0, eth1, admin, guest, secret, other, b1, b2

H(obj, ip, vlan, name, key) ==
  [obj |-> obj, ip |-> ip, mac |-> mac1, vlan |-> vlan, name |-> name, alt |-> NoText, idle |-> FALSE,
   active |-> {obj}, key |-> key]
End1(h) == <<[obj |-> h.obj, ip |-> h.ip, vlan |-> h.vlan, key |-> h.key]>>
NoProcess == [client |-> NoText, server |-> NoText]
NoPid == [client |-> 0, server |-> 0]
F(cli, srv, vlan) ==
  [cli |-> End1(cli), srv |-> End1(srv), ports |-> 80, vlan |-> vlan, proto |-> 6, idle |-> FALSE,
   user |-> [client |-> NoText, server |-> name1], proc |-> NoProcess, pid |-> NoPid, father |-> NoPid]
S(name) == [name |-> name, family |-> 5, mode |-> "client", contacts |-> ip1 :> 2, idle |-> FALSE]

h1 == H(1, ip1, 0, name1, 1)
h2 == H(2, ip2, 0, NoText, 2)
h3 == H(3, ip1, 1, NoText, 1)
MCTables ==
  << [hosts |-> <<h1, h2, h3>>, strings |-> <<S(name1), S(name2)>>, flows |-> <<F(h1, h2, 0), F(h3, h3, 1)>>],
     [hosts |-> <<h2>>, strings |-> <<>>, flows |-> <<F(h2, h2, 0)>>] >>
MCInterfaces == << [name |-> eth0, id |-> 0, script |-> NoText], [name |-> eth1, id |-> 3, script |-> NoText] >>
MCCache == ip2 :> name1
MCSubstring == {<<name1, key1>>, <<ip1, key1>>, <<ip2, key1>>, <<name2, key2>>}
MCAccount == admin :> secret
MCCookies == { [user |-> admin, session |-> -1, password |-> NoText],
               [user |-> admin, session |-> 0, password |-> secret],
               [user |-> NoText, session |-> 0, password |-> NoText] }

View(call, host, vlan, second, steps) ==
  [page |-> "view", call |-> call, host |-> host, vlan |-> vlan, second |-> second, calls |-> steps]
MCPages ==
  { [page |-> "login", user |-> admin, password |-> p] : p \in {secret, other} }
  \cup { [page |-> "list", number |-> n] : n \in 1..2 } \cup { [page |-> "delete", row |-> 1] }
  \cup { [page |-> "flush"], [page |-> "logout"], [page |-> "switch", id |-> 3] }
  \cup { [page |-> p, user |-> u, password |-> other] : p \in {"add", "remove"}, u \in {guest} }
  \cup { [page |-> "reset", user |-> admin, old |-> secret, password |-> other] }
  \cup { View(c, ip1, 0, -1, <<"lookup", "walk">>) : c \in {"flows", "similar"} }
  \cup { View("search", k, 0, -1, <<"search">>) : k \in {key1, key2} }
  \cup { View("hosts", NoText, 0, -1, <<"list hosts">>),
         View("aggregations", ip1, 0, -1, <<"list strings">>), View("user", name1, 0, -1, <<"list flows">>),
         View("correlate", name1, 0, -1, <<"lookup", "walk">>), View("restore", ip2, 1, -1, <<"lookup", "restore">>) }
===============================================================================
