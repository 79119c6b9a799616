----------------------------- MODULE WebRequests -----------------------------
(***************************************************************************)
(* Requests to the web server: the session of a browser, the preferred     *)
(* interface of its user, and the script behind the page, whose calls read *)
(* and write the queue of alerts, the users and the tables.  The server    *)
(* runs several requests at once, each Redis command of one is a step; the *)
(* poller queues alerts and sweeps hosts meanwhile.                        *)
(*                                                                         *)
(* What a browser shows, removed, switched and mixed are history           *)
(* variables.                                                              *)
(***************************************************************************)
EXTENDS Views

CONSTANTS
  Worker,        \* the threads of the web server
  Browser, User, Password,
  Address,       \* the texts that inet_pton() takes
  Account,       \* the users at the start and their passwords
  Login,         \* enable_users_login
  AutoLogout,    \* do_auto_logout()
  Interfaces,    \* the registered interfaces, the first one first
  Tables,        \* by interface: the hosts, aggregated hosts and flows at the start
  Cache,         \* the names of addresses in Redis
  Queued,        \* the alerts in the queue at the start
  Cookies,       \* the cookies a browser may hold at the start
  Pages,         \* the pages that may be asked for, with their arguments
  MaxAlerts,     \* CONST_MAX_ALERT_MSG_QUEUE_LEN
  MaxRead,       \* CONST_MAX_NUM_READ_ALERTS
  PerPage,       \* rows of a page of alerts
  MaxRequests,   \* bounds the requests and the logins
  MaxEvents      \* bounds the lost commands, expired keys, sweeps and new alerts

ASSUME WebAssumption ==
  /\ Interfaces \in Seq(ToSet(Interfaces)) \ {<<>>} /\ DOMAIN Account \subseteq User
  /\ {MaxAlerts, MaxRead, PerPage, Queued, MaxRequests, MaxEvents} \subseteq Nat
  /\ \A p \in Pages :
       \/ p.page \in {"login", "delete", "flush", "switch", "logout"}
       \/ p.page = "list" /\ p.number \in Nat \ {0}
       \/ p.page \in {"add", "remove", "reset"} /\ p.user \in User
       \/ p.page = "view" /\ p.calls \in Seq({"lookup", "walk", "list hosts", "list strings",
                                              "search", "list flows", "restore"})

VARIABLES
  users,     \* the keys "user.<name>.*" in Redis
  sessions,  \* the keys "sessions.<id>": the user, and if the key expires
  cookie,    \* of each browser: user, session (0 for none) and password
  choice,    \* the keys "ntopng.prefs.<user>.ifname"
  tokens,    \* the CSRF values that have not expired
  alerts,    \* CONST_ALERT_MSG_QUEUE, the newest first
  tables,    \* hosts, strings and flows of each interface
  req,       \* what each worker has left to do, and its Lua state
  shown,     \* the page of alerts each browser shows
  removed,   \* the last alert removed: as shown, as removed, and if the queue had changed
  switched,  \* the interface each user chose last
  mixed,     \* users or choices that two requests changed at once, or a command was lost for
  budget     \* requests and other events so far

redis == <<users, sessions, choice, tokens, alerts>>
client == <<cookie, shown>>
history == <<removed, switched, mixed>>
webVars == <<redis, client, tables, req, history, budget>>

None == [name |-> NoText, expires |-> FALSE]
NoUser == [full |-> FALSE, group |-> FALSE, password |-> NoText]
NoPage == [alerts |-> <<>>, first |-> 0, queue |-> <<>>, token |-> 0]
Nothing == [rows |-> <<>>, obj |-> 0, done |-> FALSE]
Free == [browser |-> CHOOSE b \in Browser : TRUE, cookie |-> <<>>, steps |-> <<>>, arg |-> <<>>,
         ifname |-> NoText, iface |-> 0, told |-> Nothing]

Step(w, name) == req[w].steps # <<>> /\ Head(req[w].steps) = name
Then(w, steps) == req' = [req EXCEPT ![w].steps = steps \o Tail(@)]
End(w) == req' = [req EXCEPT ![w] = Free]
UserOf(w) == req[w].cookie.user
Spend(what) == budget' = [budget EXCEPT ![what] = @ + 1]
MayHappen == budget.events < MaxEvents
-----------------------------------------------------------------------------
(* Sessions.                                                               *)
\* checkUserPassword().
CheckUserPassword(u, password) ==
  u \in User /\ users[u].password # NoText /\ users[u].password = password

\* redirect_to_login(): the cookie of the session is taken back.
RedirectToLogin(w) ==
  /\ cookie' = [cookie EXCEPT ![req[w].browser].session = 0]
  /\ End(w)

\* is_authorized(): without a session, a password in the cookies will do.
IsAuthorized(w) ==
  LET c == req[w].cookie
  IN  /\ Step(w, "authorize")
      /\ IF ~Login THEN Then(w, <<>>) /\ UNCHANGED cookie
         ELSE IF c.session = 0
         THEN IF CheckUserPassword(c.user, c.password)
              THEN Then(w, <<>>) /\ UNCHANGED cookie ELSE RedirectToLogin(w)
         ELSE IF ~AutoLogout THEN Then(w, <<>>) /\ UNCHANGED cookie
         ELSE IF c.session \in DOMAIN sessions /\ sessions[c.session].user = c.user
              THEN Then(w, <<"extend">>) /\ UNCHANGED cookie
              ELSE RedirectToLogin(w)
      /\ UNCHANGED <<redis, shown, tables, history, budget>>

\* The EXPIRE that makes a session in use last.
Extend(w) ==
  LET s == req[w].cookie.session
  IN  /\ Step(w, "extend")
      /\ sessions' = IF s \in DOMAIN sessions THEN [sessions EXCEPT ![s].expires = TRUE] ELSE sessions
      /\ Then(w, <<>>)
      /\ UNCHANGED <<users, choice, tokens, alerts, client, tables, history, budget>>

\* authorize(): the answer with the cookies goes out before the session is stored.
Authorize(w) ==
  LET r == req[w]
  IN  /\ Step(w, "login")
      /\ IF CheckUserPassword(r.arg.user, r.arg.password)
         THEN /\ cookie' = [cookie EXCEPT ![r.browser].user = r.arg.user,
                                          ![r.browser].session = budget.requests]
              /\ req' = [req EXCEPT ![w].steps = <<"store">>,
                                    ![w].arg = [user |-> r.arg.user, session |-> budget.requests]]
         ELSE RedirectToLogin(w)
      /\ UNCHANGED <<redis, shown, tables, history, budget>>

\* set() with an expiry: a SET whose EXPIRE is lost leaves a key that stays.
StoreSession(w, lost) ==
  LET a == req[w].arg
  IN  /\ Step(w, "store")
      /\ lost => MayHappen
      /\ sessions' = a.session :> [user |-> a.user, expires |-> ~lost] @@ sessions
      /\ End(w)
      /\ IF lost THEN Spend("events") ELSE UNCHANGED budget
      /\ UNCHANGED <<users, choice, tokens, alerts, client, tables, history>>
-----------------------------------------------------------------------------
(* The state of a script: the CSRF value and the interface.                *)
\* A page that carries an expired value is an error.
CheckCSRF(w) ==
  /\ Step(w, "csrf")
  /\ IF req[w].arg.token \in tokens THEN Then(w, <<>>) ELSE End(w)
  /\ UNCHANGED <<redis, client, tables, history, budget>>

\* Mutant: the name of the user is not part of the key.
ReadChoiceOfAll(w, lost) ==
  LET i == GetInterface(Interfaces, choice[NoText].name)
  IN  /\ Step(w, "choice") /\ ~lost
      /\ IF i # 0
         THEN req' = [req EXCEPT ![w].ifname = Interfaces[i].name, ![w].steps = Tail(@)]
         ELSE Then(w, <<"default">>)
      /\ UNCHANGED <<redis, client, tables, history, budget>>

\* handle_script_request(): the interface the user prefers, if it is still there.
ReadChoice(w, lost) ==
  LET i == GetInterface(Interfaces, choice[UserOf(w)].name)
  IN  /\ Step(w, "choice")
      /\ lost => MayHappen
      /\ IF i # 0 /\ ~lost
         THEN req' = [req EXCEPT ![w].ifname = Interfaces[i].name, ![w].steps = Tail(@)]
         ELSE Then(w, <<"default">>)
      /\ mixed' = IF lost THEN mixed \cup {UserOf(w)} ELSE mixed
      /\ IF lost THEN Spend("events") ELSE UNCHANGED budget
      /\ UNCHANGED <<redis, client, tables, removed, switched>>

\* Otherwise the first interface is stored for an hour.
StoreDefault(w) ==
  /\ Step(w, "default")
  /\ choice' = [choice EXCEPT ![UserOf(w)] = [name |-> Interfaces[1].name, expires |-> TRUE]]
  /\ req' = [req EXCEPT ![w].ifname = Interfaces[1].name, ![w].steps = Tail(@)]
  /\ UNCHANGED <<users, sessions, tokens, alerts, client, tables, history, budget>>

\* setActiveInterfaceId(): the name of the interface with an id, stored for good.
SwitchInterface(w) ==
  LET i == InterfaceById(Interfaces, req[w].arg.id)
      u == UserOf(w)
      pending == \E v \in Worker \ {w} : Step(v, "default") /\ UserOf(v) = u
  IN  /\ Step(w, "switch")
      /\ IF i # 0
         THEN /\ choice' = [choice EXCEPT ![u] = [name |-> Interfaces[i].name, expires |-> FALSE]]
              /\ switched' = [switched EXCEPT ![u] = Interfaces[i].name]
              /\ mixed' = IF pending THEN mixed \cup {u} ELSE mixed
         ELSE UNCHANGED <<choice, switched, mixed>>
      /\ End(w)
      /\ UNCHANGED <<users, sessions, tokens, alerts, client, tables, removed, budget>>

\* logout.lua: the session is deleted, and the cookie taken back.
Logout(w) ==
  LET b == req[w].browser
  IN  /\ Step(w, "logout")
      /\ sessions' = [s \in DOMAIN sessions \ {req[w].cookie.session} |-> sessions[s]]
      /\ cookie' = [cookie EXCEPT ![b].session = 0]
      /\ End(w)
      /\ UNCHANGED <<users, choice, tokens, alerts, shown, tables, history, budget>>
-----------------------------------------------------------------------------
(* Alerts.                                                                 *)

\* queueAlert(): LPUSH, then LTRIM with both ends kept.
QueueAlert ==
  /\ MayHappen
  /\ alerts' = LET all == <<Queued + budget.events + 1>> \o alerts
               IN  SubSeq(all, 1, IF Len(all) < MaxAlerts + 1 THEN Len(all) ELSE MaxAlerts + 1)
  /\ Spend("events")
  /\ UNCHANGED <<users, sessions, choice, tokens, client, tables, req, history>>

\* Mutant: the pages are counted from 0.
GetQueuedAlertsFromZero(page) ==
  LET first == page * PerPage
  IN  [first |-> first - PerPage, alerts |-> SubSeq(alerts, first + 1, first + PerPage)]

\* getQueuedAlerts() for a page of the table: at least one, at most MaxRead.
GetQueuedAlerts(page) ==
  LET first == (page - 1) * PerPage
      num == IF PerPage < 1 THEN 1 ELSE IF PerPage > MaxRead THEN MaxRead ELSE PerPage
      last == IF first + num < Len(alerts) THEN first + num ELSE Len(alerts)
  IN  [first |-> first, alerts |-> SubSeq(alerts, first + 1, last)]

ListAlerts(w) ==
  LET page == GetQueuedAlerts(req[w].arg.number)
  IN  /\ Step(w, "list")
      /\ req' = [req EXCEPT ![w].steps = Tail(@),
                            ![w].arg = [alerts |-> page.alerts, first |-> page.first,
                                        queue |-> alerts, token |-> budget.requests]]
      /\ UNCHANGED <<redis, client, tables, history, budget>>

\* generate_csrf_value(): a fresh value, stored for two minutes.
GenerateCSRFValue(w) ==
  /\ Step(w, "token")
  /\ tokens' = tokens \cup {req[w].arg.token}
  /\ shown' = [shown EXCEPT ![req[w].browser] = req[w].arg]
  /\ End(w)
  /\ UNCHANGED <<users, sessions, choice, alerts, cookie, tables, history, budget>>

\* Mutant: LREM takes away the alert after the marked one.
DeleteQueuedAlertNext(w) ==
  LET a == req[w].arg
  IN  /\ Step(w, "delete")
      /\ alerts' = IF a.index + 1 < Len(alerts) THEN RemoveAt(alerts, a.index + 2) ELSE alerts
      /\ removed' = IF a.index + 1 < Len(alerts)
                    THEN [shown |-> a.alert, was |-> alerts[a.index + 2], stale |-> alerts # a.queue]
                    ELSE removed
      /\ End(w)
      /\ UNCHANGED <<users, sessions, choice, tokens, client, tables, switched, mixed, budget>>

\* deleteQueuedAlert(): LSET by index, then LREM of the mark, in one critical section.
DeleteQueuedAlert(w) ==
  LET a == req[w].arg
  IN  /\ Step(w, "delete")
      /\ alerts' = IF a.index < Len(alerts) THEN RemoveAt(alerts, a.index + 1) ELSE alerts
      /\ removed' = IF a.index < Len(alerts)
                    THEN [shown |-> a.alert, was |-> alerts[a.index + 1], stale |-> alerts # a.queue]
                    ELSE removed
      /\ End(w)
      /\ UNCHANGED <<users, sessions, choice, tokens, client, tables, switched, mixed, budget>>

FlushAllQueuedAlerts(w) ==
  /\ Step(w, "flush")
  /\ alerts' = <<>>
  /\ End(w)
  /\ UNCHANGED <<users, sessions, choice, tokens, client, tables, history, budget>>
-----------------------------------------------------------------------------
(* Users.                                                                  *)
\* Mutant: the group is left to the page.
AddUserWithoutGroup == <<"full", "password">>

\* The commands of addUser(), deleteUser() and resetUserPassword(), in order.
AddUser == <<"full", "group", "password">>
DeleteUser == <<"-full", "-group", "-password">>
ResetUserPassword == <<"check", "reset">>
UserSteps == ToSet(AddUser \o DeleteUser \o ResetUserPassword)
Edits(v, u) == req[v].steps # <<>> /\ Head(req[v].steps) \in UserSteps /\ req[v].arg.user = u

\* One command on a key of a user: SET of addUser() and resetUserPassword(), DEL of deleteUser().
WriteUser(w, lost) ==
  LET a == req[w].arg
      step == Head(req[w].steps)
      u == users[a.user]
  IN  /\ req[w].steps # <<>> /\ step \in UserSteps \ {"check"}
      /\ lost => MayHappen
      /\ users' = IF lost THEN users ELSE [users EXCEPT ![a.user] =
           CASE step \in {"full", "-full"} -> [u EXCEPT !.full = step = "full"]
             [] step \in {"group", "-group"} -> [u EXCEPT !.group = step = "group"]
             [] step \in {"password", "reset"} -> [u EXCEPT !.password = a.password]
             [] OTHER -> [u EXCEPT !.password = NoText]]
      /\ mixed' = IF lost \/ \E v \in Worker \ {w} : Edits(v, a.user) THEN mixed \cup {a.user} ELSE mixed
      /\ IF Len(req[w].steps) = 1 THEN End(w) ELSE Then(w, <<>>)
      /\ IF lost THEN Spend("events") ELSE UNCHANGED budget
      /\ UNCHANGED <<sessions, choice, tokens, alerts, client, tables, removed, switched>>

\* resetUserPassword(): the old password first.
CheckOldPassword(w) ==
  LET a == req[w].arg
  IN  /\ Step(w, "check")
      /\ IF CheckUserPassword(a.user, a.old) THEN Then(w, <<>>) ELSE End(w)
      /\ UNCHANGED <<redis, client, tables, history, budget>>

\* getUsers(): a user with a password whose other keys are missing is "unknown".
GetUsers ==
  [u \in { v \in User : users[v].password # NoText } |->
     [full_name |-> users[u].full, group |-> users[u].group]]
-----------------------------------------------------------------------------
(* Calls on the tables.                                                    *)
\* find(): the interface the calls are about; a null one stands for the first.
FindInterface(w) ==
  /\ Step(w, "find")
  /\ req' = [req EXCEPT ![w].iface = GetNetworkInterface(Interfaces, req[w].ifname), ![w].steps = Tail(@)]
  /\ UNCHANGED <<redis, client, tables, history, budget>>
TheInterface(w) == IF req[w].iface = 0 THEN 1 ELSE req[w].iface

\* getHostVlanInfo(): "<host>@<vlan>"; a second argument is the VLAN then.
HostVlan(q) == IF q.second >= 0 THEN q.second ELSE q.vlan

Tell(w, rows) ==
  req' = [req EXCEPT ![w].told = [rows |-> rows, obj |-> @.obj, done |-> TRUE], ![w].steps = Tail(@)]

\* getHost() for the calls about one host; it may name the hosts it meets.
LookUpHost(w) ==
  LET q == req[w].arg
      i == TheInterface(w)
      g == GetHost(tables[i].hosts, Address, q.host, HostVlan(q), Cache)
      obj == IF g.found = 0 THEN 0 ELSE g.hosts[g.found].obj
  IN  /\ Step(w, "lookup")
      /\ tables' = [tables EXCEPT ![i].hosts = g.hosts]
      /\ IF obj = 0 /\ q.call # "flows" /\ q.call # "restore" THEN End(w)
         ELSE req' = [req EXCEPT ![w].told.obj = obj, ![w].steps = Tail(@)]
      /\ UNCHANGED <<redis, client, history, budget>>

\* The calls about the host looked up.
CallOnHost(w) ==
  LET q == req[w].arg
      t == tables[TheInterface(w)]
      at == SelectInSeq(t.hosts, LAMBDA h : h.obj = req[w].told.obj)
  IN  /\ Step(w, "walk")
      /\ Tell(w, CASE q.call = "flows" -> ActiveFlowsList(t.flows, req[w].told.obj)
                    [] q.call = "similar" -> SimilarHosts(t.hosts, at)
                    [] q.call = "correlate" -> CorrelatedHosts(t.hosts, at)
                    [] q.call \in {"host", "activity"} -> <<t.hosts[at]>>)
      /\ UNCHANGED <<redis, client, tables, history, budget>>

\* The calls that list hosts and aggregated hosts.
ListHosts(w) ==
  LET q == req[w].arg
      t == tables[TheInterface(w)]
  IN  /\ Step(w, "list hosts")
      /\ Tell(w, CASE q.call = "hosts" -> ActiveHostsList(t.hosts)
                    [] q.call = "strings" -> AggregatedHostsList(t.strings, q.second, q.host))
      /\ UNCHANGED <<redis, client, tables, history, budget>>

\* The calls about an aggregated host, and about the ways hosts are aggregated.
ListStrings(w) ==
  LET q == req[w].arg
      t == tables[TheInterface(w)]
  IN  /\ Step(w, "list strings")
      /\ Tell(w, CASE q.call = "string" -> <<GetAggregatedHost(t.strings, q.host)>>
                    [] q.call = "families" -> AggregatedFamilies(t.strings)
                    [] q.call = "aggregations" -> AggregationsForHost(t.strings, q.host))
      /\ UNCHANGED <<redis, client, tables, history, budget>>

\* find_host.lua: findHost() with what was typed so far.
FindHost(w) ==
  LET t == tables[TheInterface(w)]
  IN  /\ Step(w, "search")
      /\ Tell(w, FindHostsByName(t.hosts, t.strings, req[w].arg.host))
      /\ UNCHANGED <<redis, client, tables, history, budget>>

\* The calls that list and search flows.
ListFlows(w) ==
  LET q == req[w].arg
      t == tables[TheInterface(w)]
  IN  /\ Step(w, "list flows")
      /\ Tell(w, CASE q.call = "peers" -> FlowPeersList(t.flows, q.host, HostVlan(q))
                    [] q.call = "flow" -> <<FindFlowByKey(t.flows, q.second)>>
                    [] q.call = "user" -> FindUserFlows(t.flows, q.host)
                    [] q.call = "process" -> FindProcNameFlows(t.flows, q.host)
                    [] q.call = "pid" -> FindPidFlows(t.flows, q.second)
                    [] q.call = "father" -> FindFatherPidFlows(t.flows, q.second))
      /\ UNCHANGED <<redis, client, tables, history, budget>>

\* restoreHost() when the page found no host: a new one, whatever the VLAN asked for.
RestoreHost(w) ==
  LET i == TheInterface(w)
      h == [obj |-> 100 + budget.requests, ip |-> req[w].arg.host, mac |-> NoText, vlan |-> 0,
            name |-> NoText, alt |-> NoText, idle |-> FALSE, active |-> {}, key |-> 0]
  IN  /\ Step(w, "restore")
      /\ IF req[w].told.obj = 0 THEN tables' = [tables EXCEPT ![i].hosts = <<h>> \o @] ELSE UNCHANGED tables
      /\ End(w)
      /\ UNCHANGED <<redis, client, history, budget>>

\* The page is complete.
Reply(w) ==
  /\ req[w].steps = <<>> /\ req[w] # Free
  /\ End(w)
  /\ UNCHANGED <<redis, client, tables, history, budget>>

\* The poller: a host or a flow goes idle.
Sweep(i) ==
  /\ MayHappen
  /\ \/ \E j \in DOMAIN tables[i].hosts : tables' = [tables EXCEPT ![i].hosts[j].idle = TRUE]
     \/ \E j \in DOMAIN tables[i].flows : tables' = [tables EXCEPT ![i].flows[j].idle = TRUE]
  /\ tables' # tables
  /\ Spend("events")
  /\ UNCHANGED <<redis, client, req, history>>
-----------------------------------------------------------------------------
\* Redis forgets a key whose time is over.
Expire ==
  /\ MayHappen
  /\ \/ \E s \in DOMAIN sessions :
          /\ sessions[s].expires
          /\ sessions' = [t \in DOMAIN sessions \ {s} |-> sessions[t]]
          /\ UNCHANGED <<choice, tokens>>
     \/ \E u \in DOMAIN choice :
          choice[u].expires /\ choice' = [choice EXCEPT ![u] = None] /\ UNCHANGED <<sessions, tokens>>
     \/ \E t \in tokens : tokens' = tokens \ {t} /\ UNCHANGED <<sessions, choice>>
  /\ Spend("events")
  /\ UNCHANGED <<users, alerts, client, tables, req, history>>

\* handle_lua_request(): what the server does of a page, in order.
Page(b, p) ==
  LET state == << "authorize", "choice" >>
  IN  CASE p.page = "login" -> [steps |-> IF Login THEN <<"login">> ELSE <<>>, arg |-> p]
        [] p.page = "list" -> [steps |-> state \o <<"list", "token">>, arg |-> p]
        [] p.page \in {"delete", "flush"} ->
             [steps |-> <<"authorize", "csrf", "choice", p.page>>,
              arg |-> IF p.page = "flush" THEN [token |-> shown[b].token]
                      ELSE [token |-> shown[b].token, index |-> shown[b].first + p.row - 1,
                            alert |-> shown[b].alerts[p.row], queue |-> shown[b].queue]]
        [] p.page = "add" -> [steps |-> state \o AddUser, arg |-> p]
        [] p.page = "remove" -> [steps |-> state \o DeleteUser, arg |-> p]
        [] p.page = "reset" -> [steps |-> state \o ResetUserPassword, arg |-> p]
        [] p.page \in {"switch", "logout"} -> [steps |-> state \o <<p.page>>, arg |-> p]
        [] p.page = "view" -> [steps |-> state \o <<"find">> \o p.calls, arg |-> p]

\* A worker takes a request; the cookies are those it was sent with.
Receive(w, b, p) ==
  /\ req[w] = Free /\ budget.requests < MaxRequests
  /\ p.page = "delete" => p.row \in DOMAIN shown[b].alerts
  /\ req' = [req EXCEPT ![w] = [Free EXCEPT !.browser = b, !.cookie = cookie[b],
                                            !.steps = Page(b, p).steps, !.arg = Page(b, p).arg]]
  /\ Spend("requests")
  /\ UNCHANGED <<redis, client, tables, history>>

StoredChoices == { None } \cup { [name |-> Interfaces[i].name, expires |-> i = 1] : i \in DOMAIN Interfaces }

WebInit ==
  /\ users = [u \in User |-> IF u \in DOMAIN Account
                             THEN [full |-> TRUE, group |-> TRUE, password |-> Account[u]] ELSE NoUser]
  /\ cookie \in [Browser -> Cookies]
  /\ sessions = [s \in { cookie[b].session : b \in Browser } \ {0} |->
                   [user |-> (CHOOSE c \in Cookies : c.session = s).user, expires |-> TRUE]]
  /\ \E c \in StoredChoices : choice = [u \in User \cup {NoText} |-> c]
  /\ tokens = {}
  /\ alerts = [k \in 1..Queued |-> Queued - k + 1]
  /\ tables = Tables
  /\ req = [w \in Worker |-> Free]
  /\ shown = [b \in Browser |-> NoPage]
  /\ removed = [shown |-> 0, was |-> 0, stale |-> FALSE]
  /\ switched = [u \in User \cup {NoText} |-> NoText]
  /\ mixed = {}
  /\ budget = [requests |-> 0, events |-> 0]

Request(w) ==
  \/ \E b \in Browser, p \in Pages : Receive(w, b, p)
  \/ IsAuthorized(w) \/ Extend(w) \/ Authorize(w)
  \/ \E lost \in BOOLEAN : StoreSession(w, lost) \/ ReadChoice(w, lost) \/ WriteUser(w, lost)
  \/ CheckCSRF(w) \/ StoreDefault(w) \/ SwitchInterface(w) \/ Logout(w)
  \/ ListAlerts(w) \/ GenerateCSRFValue(w) \/ DeleteQueuedAlert(w) \/ FlushAllQueuedAlerts(w)
  \/ CheckOldPassword(w) \/ FindInterface(w) \/ LookUpHost(w) \/ CallOnHost(w)
  \/ ListHosts(w) \/ ListStrings(w) \/ FindHost(w) \/ ListFlows(w) \/ RestoreHost(w) \/ Reply(w)

WebNext ==
  \/ \E w \in Worker : Request(w)
  \/ \E i \in DOMAIN Interfaces : Sweep(i)
  \/ QueueAlert
  \/ Expire

WebSpec == WebInit /\ [][WebNext]_webVars
-----------------------------------------------------------------------------
WebTypeOK ==
  /\ users \in [User -> [full : BOOLEAN, group : BOOLEAN, password : Password \cup {NoText}]]
  /\ \A s \in DOMAIN sessions : sessions[s] \in [user : User, expires : BOOLEAN]
  /\ \A b \in Browser : cookie[b].user \in User \cup {NoText}
  /\ DOMAIN choice = User \cup {NoText} /\ tokens \subseteq 1..MaxRequests
  /\ \A k \in DOMAIN alerts : alerts[k] \in 1..(Queued + MaxEvents)
  /\ \A w \in Worker : req[w].iface \in 0..Len(Interfaces)

\* The queue of alerts holds one more than its limit at most (LTRIM keeps both
\* ends), whoever queues and removes meanwhile.
AlertsBounded == Len(alerts) <= MaxAlerts + 1

\* The alert that is removed is the one of the row that was clicked, unless the
\* queue changed after the page was made: pages, rows and LSET count alike.
DeletedAsShown == removed.stale \/ removed.shown = removed.was

\* The interface a user chose stays chosen; it is lost only when another request
\* of the user had found no choice before, or when its GET had no reply.
ChoiceKept ==
  \A u \in User : switched[u] # NoText /\ u \notin mixed =>
    choice[u] = [name |-> switched[u], expires |-> FALSE]

\* A user who can log in is listed with a name and a group, unless a command was
\* lost or two requests changed the user at once: three commands in the same order.
UserWhole ==
  \A u \in User \ mixed : (\A w \in Worker : ~Edits(w, u)) /\ u \in DOMAIN GetUsers =>
    GetUsers[u] = [full_name |-> TRUE, group |-> TRUE]

\* A search tells every match while there are at most as many as the limit, and one
\* more at most; the flows of a host that was found are flows of that host, although
\* it went idle between the look-up and the walk.
AnswerFits(w) ==
  LET q == req[w].arg
      t == tables[TheInterface(w)]
      rows == req'[w].told.rows
      Hosts == { h \in ToSet(Walked(t.hosts)) : HostMatches(h, q.host) }
      Strings == { s \in ToSet(Walked(t.strings)) : StringMatches(s, q.host) }
  IN  /\ q.call = "search" =>
           /\ Cardinality(DOMAIN rows) <= MaxFindHits + 1
           /\ Cardinality(Hosts) + Cardinality(Strings) < MaxFindHits =>
                ToSet(rows) = Hosts \cup Strings
      /\ q.call = "flows" /\ req[w].told.obj # 0 =>
           \A k \in DOMAIN rows : \E e \in ToSet(rows[k].cli \o rows[k].srv) :
             e.ip = q.host /\ e.vlan = HostVlan(q)
AnswersFit == [][\A w \in Worker : req'[w].told.done /\ ~req[w].told.done => AnswerFits(w)]_webVars
-----------------------------------------------------------------------------
\* Not so: an unknown host, or one that has gone idle, has all flows.
FlowsAreOfTheHost ==
  [][\A w \in Worker : req'[w].told.done /\ ~req[w].told.done /\ req[w].arg.call = "flows" =>
       \A k \in DOMAIN req'[w].told.rows : \E e \in ToSet(req'[w].told.rows[k].cli \o req'[w].told.rows[k].srv) :
         e.ip = req[w].arg.host]_webVars
\* Not so: a row of a page that is out of date removes another alert.
DeletedIsShown == removed.shown = removed.was
=============================================================================
