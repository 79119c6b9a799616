------------------------------ MODULE Historical ------------------------------
(***************************************************************************)
(* The historical interface: requests of the web server load the flows of  *)
(* an interval, one file for every five minutes, or of one file.  An       *)
(* interval is loaded by a thread of its own, which waits for on_load and  *)
(* running; on_load keeps other requests out, without any lock.            *)
(* Epochs count in steps of five minutes; the flows of a file are one      *)
(* unit, and tables says how many times each file is in them.              *)
(*                                                                         *)
(* started, extra and answer are history variables.                        *)
(***************************************************************************)
EXTENDS Integers, FiniteSets

CONSTANTS
  Requests,     \* requests of the web server, one at a time each
  Loaders,      \* threads a request may create, which bounds the loads
  NoLoader,
  LastFile,     \* files are 1..LastFile
  Missing,      \* files that cannot be opened
  FileRequests, \* whether scripts load single files
  MaxInFile     \* bounds how many times a file is loaded by itself

File == 1..LastFile
\* [from_epoch, to_epoch): a file belongs to the interval when it is whole in it.
Interval == [from : File, to : 1..(LastFile + 1)]
NoInterval == [from |-> 0, to |-> 0]

ASSUME HistoricalAssumption ==
  /\ LastFile \in Nat \ {0} /\ Missing \subseteq File
  /\ NoLoader \notin Loaders /\ IsFiniteSet(Loaders)
  /\ FileRequests \in BOOLEAN /\ MaxInFile \in Nat

VARIABLES
  on_load, running,
  interval,  \* from_epoch and to_epoch
  pollLoop,  \* the last thread created
  stopped,   \* HistoricalInterface::shutdown() was called
  joined,    \* the thread it waits for
  pc,        \* where each request is
  asks,      \* the interval each request asks for
  file,      \* the file it loads; 0 for an interval
  lpc, at,   \* where each load thread is, and at which file
  last,      \* adjust_to_epoch of each load thread
  tables,    \* how many times the flows of each file are in the tables
  extra,     \* how many of them single loads put there
  started,   \* the interval of the last load that was started
  answer     \* what the last single load of each request answered

req == <<asks, file>>
flags == <<on_load, running, interval, pollLoop>>
load == <<lpc, at, last>>
content == <<tables, extra, started, answer>>
process == <<stopped, joined>>
vars == <<flags, process, pc, req, load, content>>

Goes(q, from, to) == pc[q] = from /\ pc' = [pc EXCEPT ![q] = to]

\* A thread of an interval that has been created and has not ended.
Active(l) == lpc[l] \in {"wait", "load", "read"}
Readable(f) == f \notin Missing

-------------------------------------------------------------------------------
(* load_historical_interval() *)

AskInterval(q, i) ==
  /\ IF on_load THEN pc[q] = "idle" /\ UNCHANGED <<pc, req>>
     ELSE /\ Goes(q, "idle", "start")
          /\ asks' = [asks EXCEPT ![q] = i] /\ file' = [file EXCEPT ![q] = 0]
  /\ UNCHANGED <<flags, process, load, content>>

\* startLoadData(): if(!on_load)
Start(q) ==
  /\ Goes(q, "start", IF on_load THEN "idle" ELSE "test")
  /\ UNCHANGED <<flags, process, req, load, content>>

\* Mutant: the flag is set by the new thread.
SetIntervalOnly(q) ==
  /\ Goes(q, "set", "create")
  /\ interval' = asks[q]
  /\ UNCHANGED <<on_load, running, pollLoop, process, req, load, content>>

\* startLoadData() after cleanup().
SetOnLoad(q) ==
  /\ Goes(q, "set", "create")
  /\ on_load' = TRUE
  /\ interval' = asks[q]
  /\ UNCHANGED <<running, pollLoop, process, req, load, content>>

CreateThread(q) ==
  \E l \in Loaders :
    /\ lpc[l] = "none"
    /\ Goes(q, "create", "poll")
    /\ lpc' = [lpc EXCEPT ![l] = "wait"]
    /\ pollLoop' = l
    /\ UNCHANGED <<on_load, running, interval, process, req, at, last, content>>

\* NetworkInterface::startPacketPolling()
StartPolling(q) ==
  /\ Goes(q, "poll", "idle")
  /\ running' = TRUE
  /\ UNCHANGED <<on_load, interval, pollLoop, process, req, load, content>>

-------------------------------------------------------------------------------
(* HistoricalInterface::cleanup(), called by both kinds of request *)

\* What the request does after cleanup().
AfterCleanup(q) == IF file[q] = 0 THEN "set" ELSE "open"

\* Mutant: the interface is cleaned whatever it does.
TestNothing(q) ==
  /\ Goes(q, "test", "clean")
  /\ UNCHANGED <<flags, process, req, load, content>>

\* if(!on_load)
Test(q) ==
  /\ Goes(q, "test", IF on_load THEN AfterCleanup(q) ELSE "clean")
  /\ UNCHANGED <<flags, process, req, load, content>>

\* NetworkInterface::cleanup() has freed every entry of the tables.
Clean(q) ==
  /\ Goes(q, "clean", "reset")
  /\ running' = FALSE
  /\ tables' = [f \in File |-> 0] /\ extra' = [f \in File |-> 0]
  /\ started' = NoInterval
  /\ UNCHANGED <<on_load, interval, pollLoop, process, req, load, answer>>

ResetStats(q) ==
  /\ Goes(q, "reset", AfterCleanup(q))
  /\ on_load' = FALSE
  /\ interval' = NoInterval
  /\ UNCHANGED <<running, pollLoop, process, req, load, content>>

-------------------------------------------------------------------------------
(* load_historical_file() and set_historical_info() *)

AskFile(q, f, cleanup) ==
  /\ FileRequests
  /\ Goes(q, "idle", IF cleanup THEN "test" ELSE "open")
  /\ file' = [file EXCEPT ![q] = f]
  /\ UNCHANGED <<flags, process, asks, load, content>>

\* loadData(file) up to sqlite3_exec(); nothing to load is no error.
OpenFile(q) ==
  /\ Goes(q, "open", IF running /\ Readable(file[q]) THEN "read" ELSE "idle")
  /\ answer' = [answer EXCEPT ![q] = IF running /\ ~Readable(file[q]) THEN "error" ELSE "ok"]
  /\ UNCHANGED <<flags, process, req, load, tables, extra, started>>

\* Every flow of the file is in the tables.
ReadFile(q) ==
  /\ Goes(q, "read", "idle")
  /\ extra[file[q]] < MaxInFile
  /\ tables' = [tables EXCEPT ![file[q]] = @ + 1]
  /\ extra' = [extra EXCEPT ![file[q]] = @ + 1]
  /\ UNCHANGED <<flags, process, req, load, started, answer>>

\* setFromEpoch() and setToEpoch() test nothing.
SetInfo(q, i) ==
  /\ pc[q] = "idle"
  /\ interval' = i
  /\ UNCHANGED <<on_load, running, pollLoop, process, pc, req, load, content>>

-------------------------------------------------------------------------------
(* The load thread *)

\* packetPollLoop() and the start of loadData(): an interval not set is empty.
BeginLoad(l) ==
  /\ lpc[l] = "wait" /\ running /\ on_load
  /\ lpc' = [lpc EXCEPT ![l] = "load"]
  /\ at' = [at EXCEPT ![l] = interval.from]
  /\ last' = [last EXCEPT ![l] = interval.to - 1]
  /\ started' = interval
  /\ UNCHANGED <<flags, process, pc, req, tables, extra, answer>>

\* loadData(file): a file that cannot be opened does not end the loop.
NextFile(l) ==
  /\ lpc[l] = "load" /\ at[l] <= last[l] /\ running
  /\ IF Readable(at[l])
     THEN lpc' = [lpc EXCEPT ![l] = "read"] /\ UNCHANGED at
     ELSE at' = [at EXCEPT ![l] = @ + 1] /\ UNCHANGED lpc
  /\ UNCHANGED <<flags, process, pc, req, last, content>>

LoadFile(l) ==
  /\ lpc[l] = "read"
  /\ tables' = [tables EXCEPT ![at[l]] = @ + 1]
  /\ lpc' = [lpc EXCEPT ![l] = "load"]
  /\ at' = [at EXCEPT ![l] = @ + 1]
  /\ UNCHANGED <<flags, process, pc, req, last, extra, started, answer>>

\* Mutant: the last file is left out, as if the loop ended with <.
EndLoadEarly(l) ==
  /\ lpc[l] = "load" /\ (at[l] >= last[l] \/ ~running)
  /\ lpc' = [lpc EXCEPT ![l] = "ended"]
  /\ on_load' = FALSE
  /\ UNCHANGED <<running, interval, pollLoop, process, pc, req, at, last, content>>

EndLoad(l) ==
  /\ lpc[l] = "load" /\ ~(at[l] <= last[l] /\ running)
  /\ lpc' = [lpc EXCEPT ![l] = "ended"]
  /\ on_load' = FALSE
  /\ UNCHANGED <<running, interval, pollLoop, process, pc, req, at, last, content>>

\* Ntop::shutdown()
Shutdown ==
  /\ running /\ ~stopped
  /\ running' = FALSE /\ stopped' = TRUE /\ joined' = pollLoop
  /\ UNCHANGED <<on_load, interval, pollLoop, pc, req, load, content>>

-------------------------------------------------------------------------------
Init ==
  /\ on_load = FALSE /\ running = TRUE    \* Ntop::start() starts every interface
  /\ interval = NoInterval
  /\ pollLoop = NoLoader /\ stopped = FALSE /\ joined = NoLoader
  /\ pc = [q \in Requests |-> "idle"] /\ asks = [q \in Requests |-> NoInterval]
  /\ file = [q \in Requests |-> 0]
  /\ lpc = [l \in Loaders |-> "none"]
  /\ at = [l \in Loaders |-> 0] /\ last = [l \in Loaders |-> 0]
  /\ tables = [f \in File |-> 0] /\ extra = [f \in File |-> 0]
  /\ started = NoInterval
  /\ answer = [q \in Requests |-> "none"]

LoaderStep(l) == BeginLoad(l) \/ NextFile(l) \/ LoadFile(l) \/ EndLoad(l)

RequestStep(q) ==
  \/ Start(q) \/ Test(q) \/ Clean(q) \/ ResetStats(q) \/ SetOnLoad(q) \/ CreateThread(q)
  \/ StartPolling(q) \/ OpenFile(q) \/ ReadFile(q)

Next ==
  \/ \E q \in Requests, i \in Interval : AskInterval(q, i)
  \/ \E q \in Requests, i \in Interval : SetInfo(q, i)
  \/ \E q \in Requests, f \in File, cleanup \in BOOLEAN : AskFile(q, f, cleanup)
  \/ \E q \in Requests : Start(q)
  \/ \E q \in Requests : Test(q)
  \/ \E q \in Requests : Clean(q)
  \/ \E q \in Requests : ResetStats(q)
  \/ \E q \in Requests : SetOnLoad(q)
  \/ \E q \in Requests : CreateThread(q)
  \/ \E q \in Requests : StartPolling(q)
  \/ \E q \in Requests : OpenFile(q)
  \/ \E q \in Requests : ReadFile(q)
  \/ \E l \in Loaders : BeginLoad(l)
  \/ \E l \in Loaders : NextFile(l)
  \/ \E l \in Loaders : LoadFile(l)
  \/ \E l \in Loaders : EndLoad(l)
  \/ Shutdown

Spec == Init /\ [][Next]_vars

\* A thread that can go on does; so does a request that was made.
FairSpec ==
  /\ Spec
  /\ \A l \in Loaders : WF_vars(LoaderStep(l))
  /\ \A q \in Requests : WF_vars(RequestStep(q))

-------------------------------------------------------------------------------
(* Properties *)

\* Types of the flags, the requests and the load threads.
TypeOK ==
  /\ on_load \in BOOLEAN /\ running \in BOOLEAN /\ stopped \in BOOLEAN
  /\ interval \in Interval \cup {NoInterval} /\ started \in Interval \cup {NoInterval}
  /\ pollLoop \in Loaders \cup {NoLoader} /\ joined \in Loaders \cup {NoLoader}
  /\ pc \in [Requests -> {"idle", "start", "test", "clean", "reset", "set", "create",
                          "poll", "open", "read"}]
  /\ asks \in [Requests -> Interval \cup {NoInterval}]
  /\ file \in [Requests -> File \cup {0}]
  /\ lpc \in [Loaders -> {"none", "wait", "load", "read", "ended"}]
  /\ \A l \in Loaders : lpc[l] = "read" => at[l] \in File \ Missing /\ at[l] <= last[l]
  /\ tables \in [File -> Nat] /\ extra \in [File -> Nat]
  /\ answer \in [Requests -> {"none", "ok", "error"}]

\* However requests and the thread of the interval interleave, one thread at most
\* loads an interval.
OneLoadAtATime == Cardinality({l \in Loaders : Active(l)}) <= 1

\* NetworkInterface::cleanup() frees the entries of the tables with no lock: no
\* thread may be putting flows into them.
NoCleanupDuringLoad ==
  (\E q \in Requests : pc[q] = "clean") =>
    /\ \A l \in Loaders : lpc[l] # "read"
    /\ \A q \in Requests : pc[q] # "read"

\* A thread that loads an interval is covered by on_load: is_on_load() is "true if
\* running" (HistoricalInterface.h:78), which is what keeps other requests out.
LoadsAreAnnounced == \A l \in Loaders : Active(l) => on_load

\* When a load is over and the interface was not stopped, the tables hold each
\* readable file of its interval once, and the files loaded one by one besides.
LoadedAsAsked ==
  (/\ ~on_load /\ ~stopped
   /\ \A q \in Requests : pc[q] = "idle"
   /\ \A l \in Loaders : ~Active(l))
  => \A f \in File :
       tables[f] = extra[f] + (IF Readable(f) /\ f >= started.from /\ f < started.to
                               THEN 1 ELSE 0)

\* loadData(file) returns "CONST_HISTORICAL_OK in case of success"
\* (HistoricalInterface.h:146): after it, while the interface was not stopped, the flows
\* of the file are in the tables.
OkMeansLoaded ==
  [][\A q \in Requests :
       ~stopped /\ pc[q] \in {"open", "read"} /\ pc'[q] = "idle" /\ answer'[q] = "ok"
         => tables'[file[q]] > tables[file[q]]]_vars

\* "Wait until all threads know that we're shutting down" (main.cpp:42): the thread
\* that shutdown() joins ends.
JoinReturns == \A l \in Loaders : (joined = l) ~> ~Active(l)

===============================================================================
