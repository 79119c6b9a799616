----------------------------- MODULE AlertCounter -----------------------------
(***************************************************************************)
(* The SYN flood detector of a host.  AlertCounter::incHits() counts the   *)
(* hits of each second and the seconds that went over the limit, and asks  *)
(* for an alert when they are too many; Host::updateSynFlags() drops the   *)
(* request when alerts are off or the program has just started.  The flow  *)
(* flood detector (GenericHost::incFlowCount()) is the same without the    *)
(* start of the program.                                                   *)
(*                                                                         *)
(* hits, since, alerts, queued and readySince are history variables: what  *)
(* happened, for the properties to compare the counter with.               *)
(* Packet time does not go back here.                                      *)
(***************************************************************************)
EXTENDS Integers, FiniteSets

CONSTANTS
  MaxHits,     \* max_num_hits_sec
  Duration,    \* over_threshold_duration_sec
  Grace,       \* CONST_ALERT_GRACE_PERIOD
  CounterMod,  \* 2^16, the range of the counters
  Start, End,  \* the seconds of the packets, End bounding the model
  HitBound     \* bounds the hits of one second

Time == Start..End

ASSUME CounterAssumption ==
  /\ MaxHits \in Nat /\ Duration \in Nat \ {0} /\ Grace \in Nat
  /\ CounterMod \in Nat /\ MaxHits + 1 < CounterMod
  /\ Start \in Nat /\ End \in Nat /\ Start <= End /\ HitBound \in Nat
  /\ Start > Grace + 1    \* seconds since 1970

VARIABLES
  counter,     \* the fields of the AlertCounter
  now,         \* time of the newest packet
  warm,        \* ntop has been up for 10 seconds
  trigger,     \* Host::triggerAlerts()
  hits,        \* hits received in each second
  since,       \* first second of the activity that has had no pause
  alerts,      \* when incHits() asked for an alert
  queued,      \* when an alert was put in the queue
  readySince   \* when warm and trigger last became true, together

detector == <<counter, hits, since, alerts, queued>>
counterVars == <<detector, now, warm, trigger, readySince>>

-------------------------------------------------------------------------------
(* AlertCounter *)

Counter ==
  [lastHit : {0} \cup Time, lastAlert : {0} \cup Time, lastTrespass : {0} \cup Time,
   inSecond : 0..(CounterMod - 1), trespassed : 0..(CounterMod - 1),
   sinceFirst : 0..(CounterMod - 1)]

Fresh ==
  [lastHit |-> 0, lastAlert |-> 0, inSecond |-> 0,
   lastTrespass |-> 0, trespassed |-> 0, sinceFirst |-> 0]

\* Mutant: the hits of a second are not forgotten in the next one.
RestartedKeepingHits(c, when) ==
  IF c.lastHit < when - 1 THEN Fresh ELSE c

\* Only consecutive seconds matter.
Restarted(c, when) ==
  IF c.lastHit < when - 1 THEN Fresh
  ELSE IF c.lastHit = when - 1 THEN [c EXCEPT !.inSecond = 0]
  ELSE c

\* An increment of a u_int16_t.
Bumped(n) == IF n + 1 = CounterMod THEN 0 ELSE n + 1

Counted(c, when) ==
  [c EXCEPT !.inSecond = Bumped(@), !.sinceFirst = Bumped(@), !.lastHit = when]

\* The first hit over the limit in this second.
Crossing(c, when) == c.inSecond > MaxHits /\ c.lastTrespass # when

Crossed(c, when) == [c EXCEPT !.trespassed = Bumped(@), !.lastTrespass = when]

Reports(c, when) == c.trespassed > Duration /\ when > c.lastAlert + Grace

-------------------------------------------------------------------------------
(* Host *)

\* Mutant: the first alert after the start is dropped too.
QueuesLater(when) == warm /\ trigger /\ when > readySince + Grace + 1

\* The tests of updateSynFlags() between the request and the queue.
Queues(when) == warm /\ trigger

IncHits ==
  LET counted == Counted(Restarted(counter, now), now)
      crossed == Crossed(counted, now)
  IN \/ /\ ~Crossing(counted, now)
        /\ counter' = counted /\ UNCHANGED <<alerts, queued>>
     \/ /\ Crossing(counted, now) /\ ~Reports(crossed, now)
        /\ counter' = crossed /\ UNCHANGED <<alerts, queued>>
     \/ /\ Crossing(counted, now) /\ Reports(crossed, now)
        /\ counter' = [crossed EXCEPT !.lastAlert = now]
        /\ alerts' = alerts \cup {now}
        /\ queued' = IF Queues(now) THEN queued \cup {now} ELSE queued

UpdateSynFlags ==
  /\ hits[now] < HitBound
  /\ IncHits
  /\ hits' = [hits EXCEPT ![now] = @ + 1]
  /\ since' = IF hits[now] > 0 \/ (now - 1 \in Time /\ hits[now - 1] > 0) THEN since ELSE now
  /\ UNCHANGED <<now, warm, trigger, readySince>>

-------------------------------------------------------------------------------
Tick == now < End /\ now' = now + 1 /\ UNCHANGED <<detector, warm, trigger, readySince>>

\* The start of the program is over.
WarmUp ==
  /\ ~warm /\ warm' = TRUE
  /\ readySince' = IF trigger THEN now ELSE readySince
  /\ UNCHANGED <<detector, now, trigger>>

SetTrigger(b) ==
  /\ trigger' = b /\ trigger # b
  /\ readySince' = IF warm /\ b THEN now ELSE readySince
  /\ UNCHANGED <<detector, now, warm>>

CounterInit ==
  /\ counter = Fresh /\ now = Start
  /\ warm = FALSE /\ trigger \in BOOLEAN /\ readySince = Start
  /\ hits = [t \in Time |-> 0] /\ since = Start
  /\ alerts = {} /\ queued = {}

CounterNext == UpdateSynFlags \/ Tick \/ WarmUp \/ \E b \in BOOLEAN : SetTrigger(b)

CounterSpec == CounterInit /\ [][CounterNext]_counterVars

-------------------------------------------------------------------------------
\* The seconds over the limit since the last pause.
Trespasses == {t \in Time : since <= t /\ t <= counter.lastHit /\ hits[t] > MaxHits}

\* The fields of the counter keep their types.
CounterTypeOK ==
  /\ counter \in Counter
  /\ now \in Time /\ warm \in BOOLEAN /\ trigger \in BOOLEAN
  /\ hits \in [Time -> Nat] /\ since \in Time /\ readySince \in Time
  /\ alerts \subseteq Time /\ queued \subseteq alerts

\* The counter, which remembers one second, agrees with the whole history: it holds
\* the number of seconds over the limit since the last pause.
TrespassesCounted == counter.trespassed = Cardinality(Trespasses)

\* An alert is asked for in a second that is itself over the limit, the last of more
\* than Duration such seconds with no pause between them.
AlertsJustified ==
  [][alerts' # alerts => /\ hits[now]' > MaxHits
                         /\ Cardinality(Trespasses)' > Duration]_counterVars

\* A flood is not forgotten: once there are more than Duration seconds over the limit,
\* the last of them is at most Grace after an alert of the same activity.
FloodsAlerted ==
  Cardinality(Trespasses) > Duration =>
    \E a \in alerts : since <= a /\ counter.lastTrespass <= a + Grace

\* A request dropped because the program had just started, or because alerts were
\* off, silences the flood for one grace period and no longer.
FloodsQueued ==
  /\ Cardinality(Trespasses) > Duration
  /\ warm /\ trigger /\ counter.lastTrespass > readySince + Grace
  => \E a \in queued : counter.lastTrespass <= a + Grace

\* ntop_defines.h: "No more than 1 alert/min".
OneAlertPerGrace == \A a, b \in alerts : a < b => b > a + Grace

\* AlertCounter.h: "Number of consecutives threshold trepassing".
ConsecutiveTrespasses ==
  counter.trespassed > 1 => hits[counter.lastTrespass - 1] > MaxHits
===============================================================================
