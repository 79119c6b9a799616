------------------------------- MODULE Shutdown -------------------------------
(***************************************************************************)
(* The end of the program: a signal handler sets a flag, waits two seconds *)
(* for the threads to see it, stops and joins the interfaces, and deletes  *)
(* everything while it still runs in the thread the signal interrupted.    *)
(*                                                                         *)
(* Threads: one poller per interface, the main thread (housekeeping), the  *)
(* web server (one request stands for its workers), the periodic scripts,  *)
(* and the resolvers of names (one of them), which nobody joins.           *)
(***************************************************************************)
EXTENDS Integers

CONSTANTS
  NumIfaces,             \* interfaces are deleted in the order of their numbers
  Poller,                \* the thread of each interface
  Collectors,            \* interfaces whose idle loop tests the flag
  Pausable,              \* interfaces the user pauses
  Main, Http, Script, Resolver, NoThread,
  Httpd, Redis,          \* two of the objects to be deleted
  SignalThreads,         \* threads a signal may be delivered to
  Interruptible,         \* stages at which it may come
  Prompt,                \* threads that see the flag within the two seconds
  MaxSignals             \* bound

Iface == 1..NumIfaces
Thread == {Poller[i] : i \in Iface} \cup {Main, Http, Script, Resolver}
Object == Iface \cup {Httpd, Redis}

ASSUME ShutdownAssumption ==
  /\ NumIfaces \in Nat \ {0} /\ MaxSignals \in Nat
  /\ Collectors \subseteq Iface /\ Pausable \subseteq Iface
  /\ SignalThreads \subseteq Thread /\ Prompt \subseteq Thread /\ NoThread \notin Thread
  /\ \A i \in Iface : Poller[i] \notin {Main, Http, Script, Resolver}
  /\ Main \notin {Http, Script, Resolver} /\ Http \notin {Script, Resolver} /\ Script # Resolver
  /\ Httpd \notin Iface /\ Redis \notin Iface

VARIABLES
  flag,      \* NtopGlobals::is_shutdown
  called,    \* the static of sigproc()
  signals,   \* signals taken so far
  handler,   \* the thread that executes sigproc()
  step, k,   \* where it is, and at which interface
  deleting,  \* it is in ~Ntop and no longer in Ntop::shutdown()
  running,   \* NetworkInterface::running
  paused,    \* NetworkInterface::is_idle
  joins,     \* how many times the poller of each interface was joined
  place,     \* where each thread is
  lock,      \* who holds a lock of the tables of each interface
  freed,     \* deleted objects
  exited     \* _exit() was called

shutter == <<flag, called, signals, handler, step, k, deleting, joins, freed, exited>>
shutdownVars == <<shutter, running, paused, place, lock>>

\* Mutant: the handler does not interrupt the thread it runs in.
RunsBesides(t) == ~exited

\* A thread runs unless the process is over or the handler interrupts it.
Runs(t) == ~exited /\ handler # t
Moves(t, from, to) == Runs(t) /\ place[t] = from /\ place' = [place EXCEPT ![t] = to]

-------------------------------------------------------------------------------
(* The pollers *)

StartPoller(i) ==
  /\ running[i] /\ Moves(Poller[i], "start", "check")
  /\ UNCHANGED <<shutter, running, paused, lock>>

\* Mutant: the loop of packets forgets to test whether it must stop.
CheckFlagOnly(i) ==
  /\ IF flag /\ i \notin Collectors THEN Moves(Poller[i], "check", "ended")
     ELSE Moves(Poller[i], "check", IF paused[i] THEN "pause" ELSE "lock")
  /\ UNCHANGED <<shutter, running, paused, lock>>

\* The test of the loop, then the loop in it that a pause takes.
Check(i) ==
  /\ IF ~running[i] \/ (flag /\ i \notin Collectors) THEN Moves(Poller[i], "check", "ended")
     ELSE Moves(Poller[i], "check", IF paused[i] THEN "pause" ELSE "lock")
  /\ UNCHANGED <<shutter, running, paused, lock>>

\* While paused the tables are purged, unless the flag is up; a collector tests the flag.
Pause(i) ==
  /\ IF flag /\ i \in Collectors THEN Moves(Poller[i], "pause", "ended")
     ELSE Moves(Poller[i], "pause", IF ~paused[i] THEN "lock" ELSE IF flag THEN "pause" ELSE "pause_lock")
  /\ UNCHANGED <<shutter, running, paused, lock>>

\* A packet, or the purge after a silence: the tables are locked and unlocked.
Lock(i) ==
  /\ lock[i] = NoThread /\ lock' = [lock EXCEPT ![i] = Poller[i]]
  /\ Moves(Poller[i], "lock", "busy") \/ Moves(Poller[i], "pause_lock", "pause_busy")
  /\ UNCHANGED <<shutter, running, paused>>

Unlock(i) ==
  /\ Moves(Poller[i], "busy", "check") \/ Moves(Poller[i], "pause_busy", "pause")
  /\ lock' = [lock EXCEPT ![i] = NoThread]
  /\ UNCHANGED <<shutter, running, paused>>

\* The user pauses and resumes an interface.
SetIdleState(i) ==
  /\ i \in Pausable /\ ~flag /\ ~exited
  /\ paused' = [paused EXCEPT ![i] = ~@]
  /\ UNCHANGED <<shutter, running, place, lock>>

Poll(i) == StartPoller(i) \/ Check(i) \/ Pause(i) \/ Lock(i) \/ Unlock(i)

-------------------------------------------------------------------------------
(* The main thread: housekeeping walks the hosts of each interface. *)

StartWalk(i) ==
  /\ ~flag /\ Moves(Main, "loop", "walk")
  /\ lock[i] = NoThread /\ lock' = [lock EXCEPT ![i] = Main]
  /\ UNCHANGED <<shutter, running, paused>>

EndWalk(i) ==
  /\ lock[i] = Main /\ lock' = [lock EXCEPT ![i] = NoThread]
  /\ Moves(Main, "walk", "loop")
  /\ UNCHANGED <<shutter, running, paused>>

LeaveLoop ==
  /\ flag /\ Moves(Main, "loop", "left")
  /\ UNCHANGED <<shutter, running, paused, lock>>

-------------------------------------------------------------------------------
(* Requests, scripts and resolutions start only while the flag is down.      *)

\* Mutant: a request is served after the flag is up.
BeginWorkAlways(t) ==
  /\ t \in {Http, Script, Resolver}
  /\ Moves(t, "out", "in")
  /\ UNCHANGED <<shutter, running, paused, lock>>

BeginWork(t) ==
  /\ t \in {Http, Script, Resolver}
  /\ ~flag /\ Moves(t, "out", "in")
  /\ UNCHANGED <<shutter, running, paused, lock>>

Finish(t) ==
  /\ t \in {Http, Script, Resolver}
  /\ Moves(t, "in", "out")
  /\ UNCHANGED <<shutter, running, paused, lock>>

\* The loops of the scripts and of the resolvers end.
EndLoop(t) ==
  /\ t \in {Script, Resolver} /\ flag /\ Moves(t, "out", "ended")
  /\ UNCHANGED <<shutter, running, paused, lock>>

-------------------------------------------------------------------------------
(* sigproc() *)

Sigproc(t) ==
  IF called
  THEN exited' = TRUE /\ UNCHANGED <<flag, called, handler, step, k, deleting, joins, freed>>
  ELSE /\ called' = TRUE /\ flag' = TRUE /\ handler' = t /\ step' = "wait" /\ k' = 1
       /\ UNCHANGED <<deleting, joins, freed, exited>>

Signal(t) ==
  /\ t \in SignalThreads /\ signals < MaxSignals
  /\ ~exited /\ place[t] \in Interruptible
  /\ signals' = signals + 1 /\ Sigproc(t)
  /\ UNCHANGED <<running, paused, place, lock>>

\* main() after Ntop::start()
SigprocFromMain ==
  /\ Runs(Main) /\ place[Main] = "left"
  /\ Sigproc(Main)
  /\ UNCHANGED <<signals, running, paused, place, lock>>

At(s) == ~exited /\ handler # NoThread /\ step = s

Inside == {"busy", "pause_busy", "walk", "in"}

\* sleep(2): in that time a prompt poller has started, and a prompt request, script,
\* resolution or walk has ended.
Wake ==
  /\ At("wait") /\ \A t \in Prompt \ {handler} : place[t] \notin {"start", "in", "walk"}
  /\ step' = "stop"
  /\ UNCHANGED <<flag, called, signals, handler, k, deleting, joins, freed, exited,
                 running, paused, place, lock>>

\* shutdown() of an interface, from Ntop::shutdown() and again from ~Ntop().
StopIface ==
  /\ At("stop") /\ k <= NumIfaces
  /\ IF running[k] THEN running' = [running EXCEPT ![k] = FALSE] /\ step' = "join"
     ELSE UNCHANGED running /\ step' = "stopped"
  /\ UNCHANGED <<flag, called, signals, handler, k, deleting, joins, freed, exited,
                 paused, place, lock>>

\* Mutant: the poller is told to stop, and not joined.
JoinNobody ==
  /\ At("join") /\ step' = "stopped"
  /\ UNCHANGED <<flag, called, signals, handler, k, deleting, joins, freed, exited,
                 running, paused, place, lock>>

\* pthread_join() returns at once when a thread joins itself.
Join ==
  /\ At("join") /\ (place[Poller[k]] = "ended" \/ handler = Poller[k])
  /\ joins' = [joins EXCEPT ![k] = @ + 1] /\ step' = "stopped"
  /\ UNCHANGED <<flag, called, signals, handler, k, deleting, freed, exited,
                 running, paused, place, lock>>

\* The next interface; ~Ntop() also deletes this one.
NextIface ==
  /\ At("stopped") /\ step' = "stop" /\ k' = k + 1
  /\ freed' = IF deleting THEN freed \cup {k} ELSE freed
  /\ UNCHANGED <<flag, called, signals, handler, deleting, joins, exited,
                 running, paused, place, lock>>

StartDelete ==
  /\ At("stop") /\ k > NumIfaces /\ ~deleting
  /\ deleting' = TRUE /\ k' = 1
  /\ UNCHANGED <<flag, called, signals, handler, step, joins, freed, exited,
                 running, paused, place, lock>>

\* mg_stop() waits for its threads, ~PeriodicActivities() joins the scripts, nobody
\* waits for the resolvers.
DeleteRest ==
  /\ ~exited /\ handler # NoThread
  /\ \/ /\ step = "stop" /\ k > NumIfaces /\ deleting
        /\ place[Http] = "out" /\ handler # Http
        /\ freed' = freed \cup {Httpd} /\ step' = "scripts" /\ UNCHANGED exited
     \/ /\ step = "scripts" /\ (place[Script] = "ended" \/ handler = Script)
        /\ freed' = freed \cup {Redis} /\ step' = "exit" /\ UNCHANGED exited
     \/ /\ step = "exit" /\ exited' = TRUE /\ UNCHANGED <<freed, step>>
  /\ UNCHANGED <<flag, called, signals, handler, k, deleting, joins, running, paused, place, lock>>

Handler == Wake \/ StopIface \/ Join \/ NextIface \/ StartDelete \/ DeleteRest

-------------------------------------------------------------------------------
ShutdownInit ==
  /\ flag = FALSE /\ called = FALSE /\ signals = 0
  /\ handler = NoThread /\ step = "wait" /\ k = 1 /\ deleting = FALSE
  /\ running = [i \in Iface |-> TRUE] /\ paused = [i \in Iface |-> FALSE]
  /\ joins = [i \in Iface |-> 0]
  /\ place = [t \in Thread |-> IF t = Main THEN "loop"
                            ELSE IF t \in {Http, Script, Resolver} THEN "out" ELSE "start"]
  /\ lock = [i \in Iface |-> NoThread]
  /\ freed = {} /\ exited = FALSE

Others ==
  \/ \E i \in Iface : Poll(i) \/ StartWalk(i) \/ EndWalk(i) \/ SetIdleState(i)
  \/ \E t \in Thread : BeginWork(t) \/ Finish(t) \/ EndLoop(t)
  \/ LeaveLoop \/ SigprocFromMain

ShutdownNext == Handler \/ Others \/ \E t \in Thread : Signal(t)

ShutdownSpec == ShutdownInit /\ [][ShutdownNext]_shutdownVars

\* Every thread goes on; a poller gets a lock that is free again and again.
FairSpec ==
  /\ ShutdownSpec /\ WF_shutdownVars(Handler)
  /\ \A i \in Iface : WF_shutdownVars(Poll(i)) /\ SF_shutdownVars(Lock(i)) /\ WF_shutdownVars(EndWalk(i))
  /\ \A t \in Thread : WF_shutdownVars(Finish(t)) /\ WF_shutdownVars(EndLoop(t))
  /\ WF_shutdownVars(LeaveLoop) /\ WF_shutdownVars(SigprocFromMain)

-------------------------------------------------------------------------------
\* The types of the flags, the stages and the sets.
TypeOK ==
  /\ flag \in BOOLEAN /\ called \in BOOLEAN /\ signals \in 0..MaxSignals
  /\ handler \in Thread \cup {NoThread}
  /\ step \in {"wait", "stop", "join", "stopped", "scripts", "exit"}
  /\ k \in 1..(NumIfaces + 1) /\ deleting \in BOOLEAN
  /\ running \in [Iface -> BOOLEAN] /\ paused \in [Iface -> BOOLEAN]
  /\ joins \in [Iface -> Nat] /\ lock \in [Iface -> Thread \cup {NoThread}]
  /\ place \in [Thread -> Inside \cup {"start", "check", "lock", "pause", "pause_lock",
                                    "loop", "left", "out", "ended"}]
  /\ freed \subseteq Object /\ exited \in BOOLEAN

\* An interface is deleted after its poller has ended, unless that poller is the one the
\* signal interrupted and so never goes on, and every poller is joined at
\* most once, although the interfaces are shut down twice.
DeletedAfterPolling ==
  /\ \A i \in Iface \cap freed : place[Poller[i]] = "ended" \/ handler = Poller[i]
  /\ \A i \in Iface : joins[i] <= 1

Uses(t) ==
  IF t = Resolver THEN {Redis}
  ELSE IF t \in {Main, Http, Script} THEN Iface \cup {Redis}
  ELSE {i \in Iface : Poller[i] = t} \cup {Redis}

\* main.cpp: "Wait until all threads know that we're shutting down": nothing a thread
\* is using is deleted under it.
NothingUsedFreed ==
  \A t \in Thread : ~exited /\ Runs(t) /\ place[t] \in Inside => Uses(t) \cap freed = {}

\* One signal, when the main thread takes it, is enough for an orderly end: the process
\* is not left before every interface is shut down and deleted.
OrderlyExit == exited /\ signals = 1 /\ handler = Main => Object \subseteq freed

\* "Shutting down..." (main.cpp:37), wherever the signal comes.
OrderlyExitAnywhere == exited /\ signals = 1 => Object \subseteq freed

\* A shutdown that has begun ends.
ShutdownEnds == flag ~> exited
===============================================================================
