------------------------------ MODULE HostProofs ------------------------------
(***************************************************************************)
(* Proofs about a host: its flood detector, for every limit, duration and  *)
(* grace period; its contacts, for any hosts, slots and dump policy.       *)
(***************************************************************************)
EXTENDS AlertCounter, HostContacts, SumTheorems

-------------------------------------------------------------------------------
(* The flood detector *)

\* An activity with no pause is shorter than the range of the counters.
ShortActivity == End - Start + 1 < CounterMod

HistoryOK ==
  /\ counter.lastHit <= now /\ readySince <= now
  /\ \A t \in Time : t > counter.lastHit => hits[t] = 0
  /\ counter.lastHit # 0 =>
       /\ since <= counter.lastHit
       /\ \A t \in Time : since <= t /\ t <= counter.lastHit => hits[t] > 0

SecondOK ==
  /\ counter.lastHit # 0 =>
       IF hits[counter.lastHit] > MaxHits
       THEN counter.lastTrespass = counter.lastHit
       ELSE counter.inSecond = hits[counter.lastHit] /\ counter.lastTrespass # counter.lastHit
  /\ counter.lastTrespass <= counter.lastHit
  /\ counter.lastTrespass # 0 => hits[counter.lastTrespass] > MaxHits

AlertsOK ==
  /\ counter.lastAlert # 0 => counter.lastAlert \in alerts /\ since <= counter.lastAlert
  /\ counter.trespassed > Duration =>
       counter.lastAlert # 0 /\ counter.lastTrespass <= counter.lastAlert + Grace

QueueOK ==
  /\ counter.lastAlert <= counter.lastHit
  /\ counter.lastAlert # 0 /\ warm /\ trigger /\ counter.lastAlert > readySince =>
       counter.lastAlert \in queued

\* What is known of the counter after restarting and counting, before the limit is tested.
After(c) ==
  /\ c \in Counter
  /\ c.lastHit = now /\ since' \in Time /\ since' <= now
  /\ \A t \in Time : since' <= t /\ t < now => hits[t] > 0
  /\ IF hits[now] > MaxHits THEN c.lastTrespass = now
     ELSE c.inSecond = hits[now] + 1 /\ c.lastTrespass < now
  /\ c.lastTrespass # 0 => hits[c.lastTrespass] > MaxHits
  /\ c.trespassed = Cardinality({t \in Time : since' <= t /\ t <= now /\ hits[t] > MaxHits})
  /\ c.lastAlert # 0 => c.lastAlert \in alerts /\ since' <= c.lastAlert
  /\ c.trespassed > Duration => c.lastAlert # 0 /\ c.lastTrespass <= c.lastAlert + Grace
  /\ c.lastAlert \in {0, counter.lastAlert} /\ c.lastAlert <= now

CounterInv == CounterTypeOK /\ HistoryOK /\ SecondOK /\ TrespassesCounted /\ AlertsOK /\ QueueOK

LEMMA CountedType ==
  ASSUME NEW c \in Counter,
         NEW when \in Time
  PROVE  /\ Counted(c, when) \in Counter
         /\ Counted(c, when).lastHit = when
         /\ Counted(c, when).inSecond = Bumped(c.inSecond)
         /\ Counted(c, when).lastAlert = c.lastAlert
         /\ Counted(c, when).lastTrespass = c.lastTrespass
         /\ Counted(c, when).trespassed = c.trespassed
<1> USE DEF Counter
<1>1. Bumped(c.inSecond) \in 0..(CounterMod - 1) /\ Bumped(c.sinceFirst) \in 0..(CounterMod - 1)
  BY CounterAssumption DEF Bumped
<1> QED BY <1>1 DEF Counted, Counter

LEMMA SecondRestarts ==
  ASSUME NEW c \in Counter
  PROVE  LET r == [c EXCEPT !.inSecond = 0]
         IN /\ r \in Counter /\ r.inSecond = 0 /\ r.lastAlert = c.lastAlert
            /\ r.lastTrespass = c.lastTrespass /\ r.trespassed = c.trespassed
BY CounterAssumption DEF Counter

\* After a pause nothing is left; otherwise the counter goes on.
LEMMA CountedAfter ==
  ASSUME CounterInv, UpdateSynFlags
  PROVE  After(Counted(Restarted(counter, now), now))
<1> DEFINE r == Restarted(counter, now)
           c == Counted(r, now)
<1> USE CounterAssumption DEF Time
<1>0. /\ now \in Time /\ hits \in [Time -> Nat] /\ since \in Time /\ counter.lastHit <= now
      /\ counter.lastHit \in {0} \cup Time
  BY DEF CounterInv, CounterTypeOK, HistoryOK, Counter
<1>1. CASE counter.lastHit < now - 1
  <2>1. r = Fresh
    BY <1>1 DEF Restarted
  <2>2. /\ c \in Counter
        /\ c.lastHit = now /\ c.inSecond = 1 /\ c.lastAlert = 0
        /\ c.lastTrespass = 0 /\ c.trespassed = 0
    <3>1. Fresh \in Counter
      BY DEF Fresh, Counter
    <3>2. Bumped(Fresh.inSecond) = 1
      BY DEF Fresh, Bumped
    <3>3. /\ Counted(Fresh, now) \in Counter
          /\ Counted(Fresh, now).lastHit = now
          /\ Counted(Fresh, now).inSecond = Bumped(Fresh.inSecond)
          /\ Counted(Fresh, now).lastAlert = Fresh.lastAlert
          /\ Counted(Fresh, now).lastTrespass = Fresh.lastTrespass
          /\ Counted(Fresh, now).trespassed = Fresh.trespassed
      BY <1>0, <3>1, CountedType
    <3> HIDE DEF c, r
    <3>4. c = Counted(Fresh, now)
      BY <2>1 DEF c
    <3> QED BY <3>2, <3>3, <3>4 DEF Fresh
  <2>3. hits[now] = 0 /\ (now - 1 \in Time => hits[now - 1] = 0)
    BY <1>0, <1>1 DEF CounterInv, HistoryOK
  <2>4. since' = now
    BY <2>3 DEF UpdateSynFlags
  <2>5. {t \in Time : since' <= t /\ t <= now /\ hits[t] > MaxHits} = {}
    BY <1>0, <2>3, <2>4
  <2> HIDE DEF c
  <2>6. \A t \in Time : since' <= t /\ t < now => hits[t] > 0
    BY <1>0, <2>4
  <2>7. c.trespassed = Cardinality({t \in Time : since' <= t /\ t <= now /\ hits[t] > MaxHits})
    BY <2>2, <2>5, FS_EmptySet
  <2>8. /\ ~(hits[now] > MaxHits) /\ hits[now] + 1 = 1 /\ 0 < now /\ 0 <= now /\ now <= now
        /\ ~(0 > Duration)
    BY <1>0, <2>3
  <2> HIDE DEF Time
  <2>9. After(c)
    BY <1>0, <2>2, <2>3, <2>4, <2>6, <2>7, <2>8 DEF After
  <2> QED BY <2>9 DEF c
<1>2. CASE counter.lastHit >= now - 1
  <2>0. counter.lastHit # 0 /\ counter.lastHit \in Time
    BY <1>0, <1>2
  <2>1. /\ r \in Counter
        /\ r.lastAlert = counter.lastAlert /\ r.lastTrespass = counter.lastTrespass
        /\ r.trespassed = counter.trespassed
        /\ r.inSecond = IF counter.lastHit = now THEN counter.inSecond ELSE 0
    <3>1. counter \in Counter /\ 0 \in 0..(CounterMod - 1)
      BY DEF CounterInv, CounterTypeOK
    <3>2. CASE counter.lastHit = now
      <4>1. r = counter
        <5>1. ~(counter.lastHit < now - 1) /\ counter.lastHit # now - 1
          BY <1>0, <3>2
        <5> QED BY <5>1 DEF Restarted
      <4> HIDE DEF r
      <4> QED BY <3>1, <3>2, <4>1
    <3>3. CASE counter.lastHit = now - 1
      <4>1. r = [counter EXCEPT !.inSecond = 0]
        BY <1>0, <3>1, <3>3 DEF Restarted, Counter
      <4>2. counter.lastHit # now
        BY <1>0, <3>3
      <4> HIDE DEF r
      <4> QED BY <3>1, <4>1, <4>2, SecondRestarts
    <3> QED BY <1>0, <1>2, <3>2, <3>3
  <2>2. /\ c \in Counter
        /\ c.lastHit = now /\ c.inSecond = Bumped(r.inSecond)
        /\ c.lastAlert = counter.lastAlert /\ c.lastTrespass = counter.lastTrespass
        /\ c.trespassed = counter.trespassed
    <3> HIDE DEF r
    <3>1. now \in Time
      BY <1>0
    <3> QED BY <2>1, <3>1, CountedType
  <2>3. since' = since /\ since <= now
    <3>1. since <= counter.lastHit /\ hits[counter.lastHit] > 0
      BY <1>0, <2>0 DEF CounterInv, HistoryOK
    <3>2. counter.lastHit = now \/ counter.lastHit = now - 1
      BY <1>0, <1>2, <2>0
    <3>3. hits[now] > 0 \/ (now - 1 \in Time /\ hits[now - 1] > 0)
      BY <2>0, <3>1, <3>2
    <3>4. since' = since
      BY <3>3 DEF UpdateSynFlags
    <3> QED BY <1>0, <3>1, <3>4
  <2>4. {t \in Time : since' <= t /\ t <= now /\ hits[t] > MaxHits} = Trespasses
    <3>1. HistoryOK /\ MaxHits \in Nat /\ counter.lastHit \in Int /\ now \in Int
      BY <1>0, CounterAssumption DEF CounterInv, CounterTypeOK, Counter
    <3>2. ASSUME NEW t \in Time, hits[t] > MaxHits PROVE t <= now <=> t <= counter.lastHit
      <4>1. ~(t > counter.lastHit)
        BY <3>1, <3>2 DEF HistoryOK
      <4> QED BY <3>1, <4>1 DEF HistoryOK
    <3> HIDE DEF Time
    <3> QED BY <2>3, <3>2 DEF Trespasses
  <2>5. IF hits[now] > MaxHits THEN c.lastTrespass = now
        ELSE c.inSecond = hits[now] + 1 /\ c.lastTrespass < now
    <3>1. CASE counter.lastHit = now
      <4>1. /\ c.lastTrespass = counter.lastTrespass /\ c.inSecond = Bumped(counter.inSecond)
            /\ counter.lastTrespass \in Int /\ now \in Int /\ counter.lastTrespass <= now
        <5>1. counter.lastTrespass \in Int /\ now \in Int /\ counter.lastTrespass <= now
          BY <1>0, <3>1 DEF CounterInv, SecondOK, CounterTypeOK, Counter
        <5> HIDE DEF c, r
        <5> QED BY <2>1, <2>2, <3>1, <5>1
      <4>2. IF hits[now] > MaxHits THEN counter.lastTrespass = now
            ELSE counter.inSecond = hits[now] /\ counter.lastTrespass # now
        BY <2>0, <3>1 DEF CounterInv, SecondOK
      <4>3. ~(hits[now] > MaxHits) => Bumped(hits[now]) = hits[now] + 1
        BY <1>0, CounterAssumption DEF Bumped
      <4> HIDE DEF c, r
      <4> QED BY <4>1, <4>2, <4>3
    <3>2. CASE counter.lastHit = now - 1
      <4>1. hits[now] = 0
        BY <1>0, <3>2 DEF CounterInv, HistoryOK
      <4>2. r.inSecond = 0 /\ Bumped(0) = 1
        BY <1>0, <2>1, <3>2 DEF Bumped
      <4>3. c.inSecond = 1 /\ c.lastTrespass = counter.lastTrespass
        <5> HIDE DEF c, r
        <5> QED BY <2>2, <4>2
      <4>4. counter.lastTrespass <= counter.lastHit /\ counter.lastTrespass \in Int
        BY DEF CounterInv, SecondOK, CounterTypeOK, Counter
      <4>5. counter.lastTrespass < now
        BY <1>0, <3>2, <4>4
      <4> HIDE DEF c, r
      <4> QED BY <4>1, <4>3, <4>5
    <3> QED BY <1>0, <1>2, <3>1, <3>2
  <2>6. \A t \in Time : since' <= t /\ t < now => hits[t] > 0
    BY <1>0, <1>2, <2>0, <2>3 DEF CounterInv, HistoryOK
  <2> HIDE DEF c, r
  <2>7. c.trespassed = Cardinality({t \in Time : since' <= t /\ t <= now /\ hits[t] > MaxHits})
    BY <2>2, <2>4 DEF CounterInv, TrespassesCounted
  <2>8. /\ c.lastTrespass # 0 => hits[c.lastTrespass] > MaxHits
        /\ c.lastAlert # 0 => c.lastAlert \in alerts /\ since' <= c.lastAlert
        /\ c.trespassed > Duration => c.lastAlert # 0 /\ c.lastTrespass <= c.lastAlert + Grace
        /\ c.lastAlert \in {0, counter.lastAlert} /\ c.lastAlert <= now
    <3>1. counter.lastHit <= now /\ counter.lastHit \in Int /\ counter.lastAlert \in Int /\ now \in Int
      BY <1>0 DEF CounterInv, CounterTypeOK, Counter
    <3>2. SecondOK /\ AlertsOK /\ counter.lastAlert <= counter.lastHit
      BY DEF CounterInv, QueueOK
    <3>3. counter.lastAlert <= now
      BY <3>1, <3>2
    <3> QED BY <2>2, <2>3, <3>2, <3>3 DEF SecondOK, AlertsOK
  <2> HIDE DEF Time
  <2>9. After(c)
    BY <1>0, <2>2, <2>3, <2>5, <2>6, <2>7, <2>8 DEF After
  <2> QED BY <2>9 DEF c, r
<1> QED BY <1>0, <1>1, <1>2

LEMMA SecondsFinite ==
  ASSUME NEW S \in SUBSET Time, now \in Time
  PROVE  IsFiniteSet(S) /\ Cardinality(S) \in Nat /\ Cardinality(S) <= End - Start + 1
<1>1. Start \in Int /\ End \in Int /\ Start <= End
  BY CounterAssumption DEF Time
<1>2. IsFiniteSet(Time) /\ Cardinality(Time) = End - Start + 1
  BY <1>1, FS_Interval DEF Time
<1> QED BY <1>2, FS_Subset, FS_CardinalityType

\* The seconds over the limit as the step sees them before it tests the limit.
Before == {t \in Time : since' <= t /\ t <= now /\ hits[t] > MaxHits}

\* The limit is crossed exactly when this second joins those over it.
LEMMA CrossingExact ==
  ASSUME CounterInv, UpdateSynFlags, NEW c, After(c), counter'.lastHit = now
  PROVE  /\ ~Crossing(c, now) =>
              /\ Trespasses' = Before
              /\ hits'[now] > MaxHits <=> hits[now] > MaxHits
              /\ ~(hits'[now] > MaxHits) => c.inSecond = hits'[now]
         /\ Crossing(c, now) =>
              Trespasses' = Before \cup {now} /\ now \notin Before /\ hits'[now] > MaxHits
<1> USE CounterAssumption
<1>1. /\ now \in Time /\ hits \in [Time -> Nat] /\ hits' = [hits EXCEPT ![now] = hits[now] + 1]
  BY DEF CounterInv, CounterTypeOK, UpdateSynFlags
<1>2. /\ hits'[now] = hits[now] + 1 /\ \A t \in Time : t # now => hits'[t] = hits[t]
      /\ since' <= now /\ now \in Nat
  BY <1>1 DEF After, Time
<1>3. Trespasses' = {t \in Time : since' <= t /\ t <= now /\ hits'[t] > MaxHits}
  BY DEF Trespasses
<1>4. CASE hits[now] > MaxHits
  <2>1. ~Crossing(c, now) /\ hits'[now] > MaxHits
    BY <1>1, <1>2, <1>4 DEF After, Crossing
  <2>2. Trespasses' = Before
    BY <1>1, <1>2, <1>3, <1>4 DEF Before
  <2> QED BY <1>4, <2>1, <2>2
<1>5. CASE ~(hits[now] > MaxHits)
  <2>1. c.inSecond = hits'[now] /\ c.lastTrespass # now
    BY <1>1, <1>2, <1>5 DEF After, Counter, Time
  <2>2. Crossing(c, now) <=> hits'[now] > MaxHits
    BY <2>1 DEF Crossing
  <2>3. now \notin Before
    BY <1>5 DEF Before
  <2>4. hits'[now] > MaxHits => Trespasses' = Before \cup {now}
    BY <1>1, <1>2, <1>3, <1>5 DEF Before
  <2>5. ~(hits'[now] > MaxHits) => Trespasses' = Before
    BY <1>1, <1>2, <1>3, <1>5 DEF Before
  <2> QED BY <1>5, <2>1, <2>2, <2>3, <2>4, <2>5
<1> QED BY <1>4, <1>5

LEMMA CrossedType ==
  ASSUME NEW c \in Counter, NEW when \in Time
  PROVE  /\ Crossed(c, when) \in Counter
         /\ [Crossed(c, when) EXCEPT !.lastAlert = when] \in Counter
         /\ \A k \in {Crossed(c, when), [Crossed(c, when) EXCEPT !.lastAlert = when]} :
              /\ k.lastHit = c.lastHit /\ k.lastTrespass = when
              /\ k.trespassed = Bumped(c.trespassed)
         /\ Crossed(c, when).lastAlert = c.lastAlert
         /\ [Crossed(c, when) EXCEPT !.lastAlert = when].lastAlert = when
<1>1. Bumped(c.trespassed) \in 0..(CounterMod - 1)
  BY CounterAssumption DEF Bumped, Counter
<1> QED BY <1>1 DEF Crossed, Counter

\* Three outcomes of a hit: under the limit, over it, over it and an alert.
LEMMA HitOutcome ==
  ASSUME CounterInv, UpdateSynFlags
  PROVE  \E c : /\ After(c)
                /\ \/ /\ ~Crossing(c, now) /\ counter' = c /\ UNCHANGED <<alerts, queued>>
                   \/ /\ Crossing(c, now) /\ ~Reports(Crossed(c, now), now)
                      /\ counter' = Crossed(c, now) /\ UNCHANGED <<alerts, queued>>
                   \/ /\ Crossing(c, now) /\ Reports(Crossed(c, now), now)
                      /\ counter' = [Crossed(c, now) EXCEPT !.lastAlert = now]
                      /\ alerts' = alerts \cup {now}
                      /\ queued' = IF Queues(now) THEN queued \cup {now} ELSE queued
<1> DEFINE c == Counted(Restarted(counter, now), now)
<1>1. After(c)
  BY CountedAfter
<1>2. IncHits
  BY DEF UpdateSynFlags
<1> QED BY <1>1, <1>2 DEF IncHits

LEMMA HitCounterInv ==
  ASSUME ShortActivity, CounterInv, UpdateSynFlags
  PROVE  /\ CounterInv'
         /\ alerts' # alerts => hits[now]' > MaxHits /\ Cardinality(Trespasses)' > Duration
<1> USE CounterAssumption
<1>0. /\ now \in Time /\ now' = now /\ hits \in [Time -> Nat] /\ alerts \subseteq Time
      /\ queued \subseteq alerts /\ UNCHANGED <<warm, trigger, readySince>>
      /\ readySince \in Time /\ readySince <= now /\ now # 0 /\ now \in Nat
      /\ hits' \in [Time -> Nat] /\ hits' = [hits EXCEPT ![now] = hits[now] + 1]
  <2>1. /\ now' = now /\ UNCHANGED <<warm, trigger, readySince>>
        /\ hits' = [hits EXCEPT ![now] = hits[now] + 1]
    BY DEF UpdateSynFlags
  <2>2. /\ now \in Time /\ hits \in [Time -> Nat] /\ alerts \subseteq Time
        /\ queued \subseteq alerts /\ readySince \in Time /\ readySince <= now
    BY DEF CounterInv, CounterTypeOK, HistoryOK
  <2>3. now # 0 /\ now \in Nat
    BY <2>2 DEF Time
  <2>4. hits' \in [Time -> Nat]
    BY <2>1, <2>2
  <2> QED BY <2>1, <2>2, <2>3, <2>4
<1>1. PICK c : /\ After(c)
               /\ \/ /\ ~Crossing(c, now) /\ counter' = c /\ UNCHANGED <<alerts, queued>>
                  \/ /\ Crossing(c, now) /\ ~Reports(Crossed(c, now), now)
                     /\ counter' = Crossed(c, now) /\ UNCHANGED <<alerts, queued>>
                  \/ /\ Crossing(c, now) /\ Reports(Crossed(c, now), now)
                     /\ counter' = [Crossed(c, now) EXCEPT !.lastAlert = now]
                     /\ alerts' = alerts \cup {now}
                     /\ queued' = IF Queues(now) THEN queued \cup {now} ELSE queued
  BY HitOutcome
<1>2. c \in Counter
  BY <1>1 DEF After
<1> DEFINE over == Crossed(c, now)
           told == [over EXCEPT !.lastAlert = now]
<1>c. /\ over \in Counter /\ told \in Counter
      /\ over.lastHit = c.lastHit /\ over.lastTrespass = now /\ over.trespassed = Bumped(c.trespassed)
      /\ told.lastHit = c.lastHit /\ told.lastTrespass = now /\ told.trespassed = Bumped(c.trespassed)
      /\ over.lastAlert = c.lastAlert /\ told.lastAlert = now
  BY <1>0, <1>2, CrossedType
<1>d. counter' \in {c, over, told} /\ (Crossing(c, now) => counter' \in {over, told})
  BY <1>1
<1> HIDE DEF over, told
<1>3. counter' \in Counter /\ counter'.lastHit = now
  BY <1>1, <1>2, <1>c, <1>d DEF After
<1>4. CounterTypeOK'
  <2>1. since' \in Time /\ alerts' \subseteq Time /\ queued' \subseteq alerts'
    BY <1>0, <1>1 DEF After
  <2> QED BY <1>0, <1>3, <2>1 DEF CounterTypeOK, CounterInv
<1>5. HistoryOK'
  <2>1. \A t \in Time : t > now => hits'[t] = 0
    <3>1. counter.lastHit <= now /\ counter.lastHit \in Int /\ now \in Int
      BY <1>0 DEF CounterInv, HistoryOK, CounterTypeOK, Counter, Time
    <3>2. ASSUME NEW t \in Time, t > now PROVE hits'[t] = 0
      <4>1. t > counter.lastHit /\ t # now
        BY <3>1, <3>2 DEF Time
      <4>2. hits[t] = 0
        BY <4>1 DEF CounterInv, HistoryOK
      <4> QED BY <1>0, <4>1, <4>2
    <3> QED BY <3>2
  <2>2. \A t \in Time : since' <= t /\ t <= now => hits'[t] > 0
    <3>1. ASSUME NEW t \in Time, since' <= t, t <= now PROVE hits'[t] > 0
      <4>1. CASE t = now
        BY <1>0, <1>1, <4>1
      <4>2. CASE t # now
        <5>1. t < now
          BY <1>0, <3>1, <4>2 DEF Time
        <5>2. hits[t] > 0
          BY <1>1, <3>1, <5>1 DEF After
        <5>3. hits'[t] = hits[t]
          <6>1. hits' = [hits EXCEPT ![now] = @ + 1] /\ t \in DOMAIN hits
            BY <1>0, <1>1, <3>1 DEF CounterInv, CounterTypeOK
          <6> QED BY <4>2, <6>1
        <5> QED BY <5>2, <5>3
      <4> QED BY <4>1, <4>2
    <3> QED BY <3>1
  <2> QED BY <1>0, <1>1, <1>3, <2>1, <2>2 DEF HistoryOK, After
<1>6. /\ IsFiniteSet(Before) /\ Cardinality(Before) \in Nat /\ c.trespassed = Cardinality(Before)
      /\ Cardinality(Before \cup {now}) < CounterMod
      /\ now \notin Before => Cardinality(Before \cup {now}) = Cardinality(Before) + 1
  <2>1. Before \in SUBSET Time /\ Before \cup {now} \in SUBSET Time
    BY <1>0 DEF Before
  <2>2. IsFiniteSet(Before) /\ Cardinality(Before) \in Nat
    BY <1>0, <2>1, SecondsFinite
  <2>3. Cardinality(Before \cup {now}) \in Nat /\ Cardinality(Before \cup {now}) <= End - Start + 1
    BY <1>0, <2>1, SecondsFinite
  <2>4. c.trespassed = Cardinality(Before)
    BY <1>1 DEF After, Before
  <2>5. Cardinality(Before \cup {now}) < CounterMod
    BY <2>3 DEF ShortActivity
  <2>6. now \notin Before => Cardinality(Before \cup {now}) = Cardinality(Before) + 1
    BY <2>2, FS_AddElement
  <2> QED BY <2>2, <2>4, <2>5, <2>6
<1>7. CASE ~Crossing(c, now)
  <2>1. counter' = c /\ UNCHANGED <<alerts, queued>>
    BY <1>1, <1>7
  <2>2. /\ Trespasses' = Before /\ (hits'[now] > MaxHits <=> hits[now] > MaxHits)
        /\ ~(hits'[now] > MaxHits) => c.inSecond = hits'[now]
    BY <1>1, <1>3, <1>7, CrossingExact
  <2>3. TrespassesCounted'
    BY <1>6, <2>1, <2>2 DEF TrespassesCounted
  <2>4. SecondOK'
    <3>0. c.lastTrespass \in {0} \cup Time
      BY <1>2 DEF Counter
    <3>1. c.lastHit = now /\ (c.lastTrespass = now \/ c.lastTrespass < now)
      BY <1>1 DEF After
    <3>4. c.lastTrespass <= now
      BY <1>0, <3>0, <3>1 DEF Time
    <3>2. IF hits'[now] > MaxHits THEN c.lastTrespass = now
          ELSE c.inSecond = hits'[now] /\ c.lastTrespass # now
      BY <1>0, <1>1, <2>2 DEF After
    <3>3. c.lastTrespass # 0 => hits'[c.lastTrespass] > MaxHits
      BY <1>0, <1>1, <2>2, <3>0, <3>1 DEF After
    <3> QED BY <2>1, <3>1, <3>2, <3>3, <3>4 DEF SecondOK
  <2>5. AlertsOK'
    BY <1>1, <2>1 DEF AlertsOK, After
  <2>6. QueueOK'
    BY <1>0, <1>1, <2>1 DEF QueueOK, After, CounterInv
  <2> QED BY <1>4, <1>5, <2>1, <2>3, <2>4, <2>5, <2>6 DEF CounterInv
<1>8. CASE Crossing(c, now)
  <2>1. /\ Trespasses' = Before \cup {now} /\ now \notin Before /\ hits'[now] > MaxHits
    BY <1>1, <1>3, <1>8, CrossingExact
  <2>2. Bumped(c.trespassed) = Cardinality(Before \cup {now})
    BY <1>6, <2>1 DEF Bumped
  <2>3. /\ counter'.lastHit = now /\ counter'.lastTrespass = now
        /\ counter'.trespassed = Bumped(c.trespassed)
    BY <1>1, <1>8, <1>c, <1>d DEF After
  <2>4. TrespassesCounted' /\ SecondOK'
    BY <1>0, <2>1, <2>2, <2>3 DEF TrespassesCounted, SecondOK
  <2>5. CASE Reports(Crossed(c, now), now)
    <3>1. /\ counter' = [Crossed(c, now) EXCEPT !.lastAlert = now]
          /\ alerts' = alerts \cup {now}
          /\ queued' = IF Queues(now) THEN queued \cup {now} ELSE queued
      BY <1>1, <1>8, <2>5
    <3>2. counter'.lastAlert = now /\ Crossed(c, now).trespassed = Bumped(c.trespassed)
      BY <1>c, <3>1 DEF told, over
    <3>3. Cardinality(Trespasses)' > Duration
      BY <2>1, <2>2, <2>5, <3>2 DEF Reports
    <3>4. AlertsOK'
      <4>1. counter'.lastAlert \in alerts' /\ since' <= now /\ now <= now + Grace
        <5>1. counter'.lastAlert \in alerts'
          BY <3>1, <3>2
        <5>2. since' <= now
          BY <1>1 DEF After
        <5> QED BY <1>0, <5>1, <5>2
      <4>2. now # 0
        BY <1>0
      <4> QED BY <2>3, <3>2, <4>1, <4>2 DEF AlertsOK
    <3>5. QueueOK'
      BY <1>0, <2>3, <3>1, <3>2 DEF QueueOK, Queues
    <3> QED BY <1>0, <1>4, <1>5, <2>1, <2>4, <3>3, <3>4, <3>5 DEF CounterInv
  <2>6. CASE ~Reports(Crossed(c, now), now)
    <3>1. counter' = Crossed(c, now) /\ UNCHANGED <<alerts, queued>>
      BY <1>1, <1>8, <2>6
    <3>2. counter'.lastAlert = c.lastAlert /\ c.lastAlert \in {0} \cup Time
      BY <1>2, <1>c, <3>1 DEF Counter, over
    <3>3. counter'.trespassed > Duration => c.lastAlert # 0 /\ now <= c.lastAlert + Grace
      <4>1. now \in Int /\ c.lastAlert \in Int /\ Grace \in Int
        BY <1>0, <3>2 DEF Time
      <4>2. ~(Bumped(c.trespassed) > Duration /\ now > c.lastAlert + Grace)
        BY <2>6, <3>1, <1>c DEF Reports, over
      <4>3. Crossed(c, now).lastAlert = c.lastAlert /\ counter'.trespassed = Bumped(c.trespassed)
        BY <1>c, <2>3 DEF over
      <4>4. counter'.trespassed > Duration => now <= c.lastAlert + Grace
        BY <4>1, <4>2, <4>3
      <4>5. now > Grace
        BY <1>0 DEF Time
      <4> QED BY <3>2, <4>1, <4>4, <4>5
    <3>4. AlertsOK'
      BY <1>0, <1>1, <2>3, <3>1, <3>2, <3>3 DEF AlertsOK, After
    <3>5. QueueOK'
      BY <1>0, <1>1, <2>3, <3>1, <3>2 DEF QueueOK, After, CounterInv
    <3> QED BY <1>4, <1>5, <2>4, <3>1, <3>4, <3>5 DEF CounterInv
  <2> QED BY <2>5, <2>6
<1> QED BY <1>7, <1>8

LEMMA OthersCounterInv ==
  ASSUME CounterInv, \/ Tick \/ WarmUp \/ (\E b \in BOOLEAN : SetTrigger(b)) \/ UNCHANGED counterVars
  PROVE  CounterInv'
<1>1. UNCHANGED detector
  BY DEF Tick, WarmUp, SetTrigger, counterVars
<1>2. /\ now' \in Time /\ now' >= now /\ warm' \in BOOLEAN /\ trigger' \in BOOLEAN
      /\ readySince' \in Time /\ readySince' <= now'
      /\ \/ readySince' = now
         \/ readySince' = readySince /\ (warm' /\ trigger' => warm /\ trigger)
  <2>1. now \in Time /\ readySince \in Time /\ readySince <= now
        /\ warm \in BOOLEAN /\ trigger \in BOOLEAN
    BY DEF CounterInv, CounterTypeOK, HistoryOK
  <2>2. CASE Tick
    BY <2>1, <2>2, CounterAssumption DEF Tick, Time
  <2>3. CASE WarmUp
    BY <2>1, <2>3, CounterAssumption DEF WarmUp, Time
  <2>4. CASE \E b \in BOOLEAN : SetTrigger(b)
    BY <2>1, <2>4, CounterAssumption DEF SetTrigger, Time
  <2>5. CASE UNCHANGED counterVars
    BY <2>1, <2>5, CounterAssumption DEF counterVars, Time
  <2> QED BY <2>2, <2>3, <2>4, <2>5
<1>3. /\ counter' = counter /\ hits' = hits /\ since' = since /\ alerts' = alerts
      /\ queued' = queued /\ Trespasses' = Trespasses
  BY <1>1 DEF detector, Trespasses
<1>4. CounterTypeOK' /\ SecondOK' /\ TrespassesCounted' /\ AlertsOK'
  BY <1>2, <1>3 DEF CounterInv, CounterTypeOK, SecondOK, TrespassesCounted, AlertsOK
<1>5. HistoryOK' /\ QueueOK'
  <2>1. now \in Int /\ now' \in Int /\ readySince \in Int /\ counter.lastHit \in Int /\ counter.lastAlert \in Int
    BY <1>2 DEF CounterInv, CounterTypeOK, Counter, Time
  <2>2. HistoryOK /\ QueueOK
    BY DEF CounterInv
  <2>3. HistoryOK'
    <3>1. counter'.lastHit <= now' /\ readySince' <= now'
      BY <1>2, <1>3, <2>1, <2>2 DEF HistoryOK
    <3> QED BY <1>3, <2>2, <3>1 DEF HistoryOK
  <2>4. QueueOK'
    <3>1. counter.lastAlert <= now
      BY <2>1, <2>2 DEF HistoryOK, QueueOK
    <3>2. CASE readySince' = now
      BY <1>3, <2>1, <2>2, <3>1, <3>2 DEF QueueOK
    <3>3. CASE readySince' = readySince /\ (warm' /\ trigger' => warm /\ trigger)
      BY <1>3, <2>2, <3>3 DEF QueueOK
    <3> QED BY <1>2, <3>2, <3>3
  <2> QED BY <2>3, <2>4
<1> QED BY <1>4, <1>5 DEF CounterInv

LEMMA InitCounterInv ==
  ASSUME CounterInit
  PROVE  CounterInv
<1>1. Trespasses = {}
  BY CounterAssumption DEF CounterInit, Trespasses, Fresh, Time
<1>2. TrespassesCounted
  BY <1>1, FS_EmptySet DEF TrespassesCounted, CounterInit, Fresh
<1>3. Fresh \in Counter
  BY CounterAssumption DEF Fresh, Counter
<1>4. CounterTypeOK
  <2>1. Start \in Time
    BY CounterAssumption DEF Time
  <2>2. [t \in Time |-> 0] \in [Time -> Nat]
    OBVIOUS
  <2> QED BY <1>3, <2>1, <2>2 DEF CounterInit, CounterTypeOK
<1>5. HistoryOK /\ SecondOK /\ AlertsOK /\ QueueOK
  BY CounterAssumption DEF CounterInit, Fresh, HistoryOK, SecondOK, AlertsOK, QueueOK, Time
<1> QED BY <1>2, <1>4, <1>5 DEF CounterInv

THEOREM CounterInvariance ==
  ASSUME ShortActivity
  PROVE  CounterSpec => []CounterInv
<1>1. CounterInv /\ [CounterNext]_counterVars => CounterInv'
  BY HitCounterInv, OthersCounterInv DEF CounterNext
<1> QED BY <1>1, InitCounterInv, PTL DEF CounterSpec

\* The one-second memory of the counter agrees with the whole history.
THEOREM CountExact ==
  ASSUME ShortActivity
  PROVE  CounterSpec => []TrespassesCounted
<1>1. CounterInv => TrespassesCounted
  BY DEF CounterInv
<1> QED BY <1>1, CounterInvariance, PTL

\* An alert is only asked for after more than Duration seconds over the limit.
THEOREM NoFalseAlert ==
  ASSUME ShortActivity
  PROVE  CounterSpec => AlertsJustified
<1>1. CounterInv /\ [CounterNext]_counterVars =>
        [alerts' # alerts => hits[now]' > MaxHits /\ Cardinality(Trespasses)' > Duration]_counterVars
  BY HitCounterInv DEF CounterNext, Tick, WarmUp, SetTrigger, counterVars, detector
<1> QED BY <1>1, CounterInvariance, PTL DEF CounterSpec, AlertsJustified

\* A flood that lasts has been alerted, at most Grace before its last second.
THEOREM NoMissedFlood ==
  ASSUME ShortActivity
  PROVE  CounterSpec => []FloodsAlerted
<1>1. CounterInv => FloodsAlerted
  BY DEF CounterInv, TrespassesCounted, AlertsOK, FloodsAlerted
<1> QED BY <1>1, CounterInvariance, PTL

\* What the start of the program or a switched-off alert drops is made up for in one
\* grace period.
THEOREM NoLostFlood ==
  ASSUME ShortActivity
  PROVE  CounterSpec => []FloodsQueued
<1>1. CounterInv => FloodsQueued
  <2> SUFFICES ASSUME CounterInv PROVE FloodsQueued
    OBVIOUS
  <2>1. counter.lastAlert \in Int /\ readySince \in Int /\ Grace \in Int /\ counter.lastTrespass \in Int
    BY CounterAssumption DEF CounterInv, CounterTypeOK, Counter, Time
  <2>2. counter.trespassed = Cardinality(Trespasses) /\ AlertsOK /\ QueueOK
    BY DEF CounterInv, TrespassesCounted
  <2> QED BY <2>1, <2>2 DEF AlertsOK, QueueOK, FloodsQueued
<1> QED BY <1>1, CounterInvariance, PTL
-------------------------------------------------------------------------------
(* Contacts: the work of a thread *)

OnHost == {"contact", "replace", "all", "allServer", "dump", "purge", "serial", "own",
           "link", "free", "peer", "count", "reverse"}
OnPeer == {"contact", "replace", "id", "peer", "incr", "forth", "back"}

Command ==
  [cmd : OnHost \cup OnPeer, host : Addr \cup {NoAddr}, peer : Addr \cup {NoAddr}, mode : Mode,
   slot : Nat, me : Nat, asClient : BOOLEAN, day : Day]

\* A command has the fields that it uses.
Complete(c) ==
  /\ c.cmd \in OnHost => c.host \in Addr
  /\ c.cmd \in OnPeer => c.peer \in Addr
  /\ c.cmd \in {"replace", "allServer", "count", "reverse"} => c.slot \in 1..Slots
  /\ c.cmd = "all" => c.slot \in 1..(Slots + 1)

Orders == { c \in Command : Complete(c) }

\* What uses the number a thread holds comes right after what gave it that number.
Follows(c, next) ==
  /\ next.cmd = "forth" => c.cmd = "incr" /\ c.peer = next.peer
  /\ next.cmd = "back" => c.cmd = "forth" /\ c.peer = next.peer
  /\ next.cmd = "own" => c.cmd \in {"id", "back"} /\ c.peer = next.host

Chained(list) == \A k \in 1..(Len(list) - 1) : Follows(list[k], list[k + 1])

WorkOK ==
  /\ work \in [Thread -> Seq(Orders)]
  /\ \A t \in Thread : Chained(work[t])

\* A thread is to write the number it holds with host h.
Holding(t, h) ==
  /\ work[t] # <<>>
  /\ \/ Head(work[t]).cmd \in {"forth", "back"} /\ Head(work[t]).peer = h
     \/ Head(work[t]).cmd = "own" /\ Head(work[t]).host = h

\* Number i stands for h, or is about to.
Owns(h, i) ==
  \/ serial[h] = i
  \/ \E d \in Day : ids[d][h] = i \/ (i \in DOMAIN names[d] /\ names[d][i] = h)
  \/ \E t \in Thread : Holding(t, h) /\ reg[t] = i

OneOwner ==
  /\ \A h1, h2 \in Addr : \A i \in 1..nextId : Owns(h1, i) /\ Owns(h2, i) => h1 = h2
  /\ \A t \in Thread, h \in Addr : Holding(t, h) => reg[t] # 0

\* A dump that has begun has its keys to come, but for those written since.
DumpOK ==
  /\ rows.done => rows.begun
  /\ rows.begun => /\ day = 2
                   /\ \A e \in DOMAIN counts[1] : <<e[1], e[2]>> \in todo \/ e[1] \in late
  /\ rows.done => todo = {} /\ DOMAIN names[1] \subseteq late

\* The hashes of a day and the record of a dump are there.
StoreOK ==
  /\ nextId \in Nat /\ DOMAIN names = Day /\ DOMAIN counts = Day
  /\ DOMAIN rows = {"begun", "done", "contacts", "hosts"}

ContactsInv == TypeOK /\ StoreOK /\ WorkOK /\ OneOwner /\ DumpOK

\* Commands that write no number a thread holds.
Plains == { c \in Orders : c.cmd \notin {"forth", "back", "own"} }

-------------------------------------------------------------------------------
(* Slots *)

\* The slot that takes a contact is a slot.
LEMMA RoomSlot ==
  ASSUME NEW array, NEW p, Room(array, p) # {}
  PROVE  Min(Room(array, p)) \in 1..Slots
<1>1. Room(array, p) \in SUBSET Nat /\ Room(array, p) \subseteq 1..Slots
  BY ContactsAssumption DEF Room
<1> QED BY <1>1, Smallest DEF Min

\* The slot that is evicted is a slot.
LEMMA LeastSlot ==
  ASSUME NEW array \in [1..Slots -> Slot]
  PROVE  Least(array) \in 1..Slots
<1> USE ContactsAssumption
<1> DEFINE N == { array[i].n : i \in 1..Slots }
<1>1. N \in SUBSET Nat /\ N # {}
  <2>1. 1 \in 1..Slots
    OBVIOUS
  <2> QED BY <2>1 DEF Slot
<1>2. PICK n \in N : \A m \in N : n <= m
  BY <1>1, Smallest
<1> DEFINE T == { i \in 1..Slots : array[i].n = n }
<1>3. T \in SUBSET Nat /\ T # {}
  OBVIOUS
<1>4. PICK i \in T : \A j \in T : i <= j
  <2> HIDE DEF T
  <2> QED BY <1>3, Smallest
<1>5. ASSUME NEW j \in 1..Slots
      PROVE  array[i].n < array[j].n \/ (array[i].n = array[j].n /\ i <= j)
  <2>1. array[j].n \in N /\ array[i].n = n /\ n <= array[j].n /\ n \in Nat /\ array[j].n \in Nat
    BY <1>1, <1>2
  <2>2. CASE array[j].n = n
    BY <1>4, <2>1, <2>2
  <2>3. CASE array[j].n # n
    BY <2>1, <2>3
  <2> QED BY <2>2, <2>3
<1>6. i \in 1..Slots
  OBVIOUS
<1> HIDE DEF T, N
<1> QED BY <1>5, <1>6 DEF Least

-------------------------------------------------------------------------------
(* Lists of commands *)

LEMMA PlainList ==
  ASSUME NEW p \in Seq(Plains)
  PROVE  p \in Seq(Orders) /\ Chained(p)
<1>1. p \in Seq(Orders)
  BY DEF Plains
<1>2. \A k \in 1..(Len(p) - 1) : p[k + 1] \in Plains
  OBVIOUS
<1> QED BY <1>1, <1>2 DEF Chained, Follows, Plains

\* What a command is replaced by, when what follows the command may follow its last.
LEMMA Spliced ==
  ASSUME NEW w \in Seq(Orders), w # <<>>, Chained(w),
         NEW p \in Seq(Orders), p # <<>>, Chained(p),
         \A b \in Orders : Follows(Head(w), b) => Follows(p[Len(p)], b)
  PROVE  LET q == p \o Tail(w)
         IN  q \in Seq(Orders) /\ Chained(q) /\ q # <<>> /\ Head(q) = p[1]
<1> DEFINE q == p \o Tail(w)
<1>1. /\ q \in Seq(Orders) /\ Len(q) = Len(p) + Len(w) - 1 /\ Len(w) >= 1 /\ Len(p) >= 1
      /\ Len(p) \in Nat /\ Len(w) \in Nat
  OBVIOUS
<1>2. \A k \in 1..Len(p) : q[k] = p[k]
  OBVIOUS
<1>3. \A k \in 2..Len(w) : q[Len(p) + k - 1] = w[k]
  OBVIOUS
<1>4. ASSUME NEW k \in 1..(Len(q) - 1) PROVE Follows(q[k], q[k + 1])
  <2>1. CASE k < Len(p)
    BY <1>1, <1>2, <2>1 DEF Chained
  <2>2. CASE k = Len(p)
    <3>1. 2 \in 2..Len(w) /\ q[k + 1] = w[2] /\ q[k] = p[Len(p)] /\ w[2] \in Orders
      BY <1>1, <1>2, <1>3, <2>2
    <3>2. Follows(w[1], w[2]) /\ Head(w) = w[1]
      BY <1>1, <3>1 DEF Chained
    <3> QED BY <3>1, <3>2
  <2>3. CASE k > Len(p)
    <3> DEFINE j == k - Len(p) + 1
    <3>1. j \in 2..Len(w) /\ j + 1 \in 2..Len(w) /\ j \in 1..(Len(w) - 1)
      BY <1>1, <2>3
    <3>2. q[k] = w[j] /\ q[k + 1] = w[j + 1]
      <4>1. Len(p) + j - 1 = k /\ Len(p) + (j + 1) - 1 = k + 1
        BY <1>1, <2>3
      <4> HIDE DEF j, q
      <4> QED BY <1>3, <3>1, <4>1
    <3> QED BY <3>1, <3>2 DEF Chained
  <2> QED BY <1>1, <2>1, <2>2, <2>3
<1>5. q # <<>> /\ Head(q) = p[1]
  BY <1>1, <1>2
<1> QED BY <1>1, <1>4, <1>5 DEF Chained

\* The rest of a list after its first command.
LEMMA Popped ==
  ASSUME NEW w \in Seq(Orders), w # <<>>, Chained(w)
  PROVE  /\ Head(w) \in Orders
         /\ Tail(w) \in Seq(Orders) /\ Chained(Tail(w))
         /\ Tail(w) # <<>> => Head(Tail(w)) \in Orders /\ Follows(Head(w), Head(Tail(w)))
<1>1. /\ Head(w) \in Orders /\ Tail(w) \in Seq(Orders) /\ Len(w) \in Nat /\ Len(w) >= 1
      /\ Len(Tail(w)) = Len(w) - 1
      /\ \A k \in 1..(Len(w) - 1) : Tail(w)[k] = w[k + 1]
  OBVIOUS
<1>2. ASSUME NEW k \in 1..(Len(Tail(w)) - 1) PROVE Follows(Tail(w)[k], Tail(w)[k + 1])
  <2>1. k \in 1..(Len(w) - 1) /\ k + 1 \in 1..(Len(w) - 1)
    BY <1>1
  <2> QED BY <1>1, <2>1 DEF Chained
<1>3. ASSUME Tail(w) # <<>> PROVE Head(Tail(w)) \in Orders /\ Follows(Head(w), Head(Tail(w)))
  <2>1. 1 \in 1..(Len(w) - 1) /\ Head(w) = w[1] /\ Head(Tail(w)) = w[2]
    BY <1>1, <1>3
  <2> QED BY <1>1, <1>3, <2>1 DEF Chained
<1> QED BY <1>1, <1>2, <1>3 DEF Chained

-------------------------------------------------------------------------------
(* The owners of the numbers *)

\* Where every number that is there afterwards was its host's before.
LEMMA OwnersStay ==
  ASSUME OneOwner, nextId' = nextId,
         \A h \in Addr : serial'[h] \in 1..nextId => Owns(h, serial'[h]),
         \A d \in Day, h \in Addr : ids'[d][h] \in 1..nextId => Owns(h, ids'[d][h]),
         \A d \in Day, h \in Addr : \A i \in 1..nextId :
           i \in DOMAIN names'[d] /\ names'[d][i] = h => Owns(h, i),
         \A t \in Thread, h \in Addr : Holding(t, h)' => Owns(h, reg'[t]) /\ reg'[t] # 0
  PROVE  OneOwner'
<1>1. ASSUME NEW h \in Addr, NEW i \in 1..nextId, Owns(h, i)'
      PROVE  Owns(h, i)
  <2>1. \/ serial'[h] = i
        \/ \E d \in Day : ids'[d][h] = i \/ (i \in DOMAIN names'[d] /\ names'[d][i] = h)
        \/ \E t \in Thread : Holding(t, h)' /\ reg'[t] = i
    BY <1>1 DEF Owns
  <2> QED BY <2>1
<1> QED BY <1>1 DEF OneOwner

\* The numbers a host has are its own.
LEMMA OwnNumbers ==
  /\ \A h \in Addr : Owns(h, serial[h])
  /\ \A d \in Day, h \in Addr : Owns(h, ids[d][h])
  /\ \A d \in Day, h \in Addr : \A i \in DOMAIN names[d] : names[d][i] = h => Owns(h, i)
  /\ \A t \in Thread, h \in Addr : Holding(t, h) => Owns(h, reg[t])
BY DEF Owns

LEMMA HeldNumbers ==
  ASSUME OneOwner
  PROVE  \A t \in Thread, h \in Addr : Holding(t, h) => Owns(h, reg[t]) /\ reg[t] # 0
BY DEF OneOwner, Owns

LEMMA NoNewHolder ==
  ASSUME OneOwner, UNCHANGED <<serial, ids, names, nextId, reg>>,
         \A t \in Thread, h \in Addr : Holding(t, h)' => Holding(t, h)
  PROVE  OneOwner'
BY OwnersStay, OwnNumbers, HeldNumbers

\* A command that gives no number away is replaced by others that write none.
LEMMA PlainPushed ==
  ASSUME WorkOK, NEW t \in Thread, work[t] # <<>>,
         Head(work[t]).cmd \notin {"id", "incr", "forth", "back"},
         NEW p \in Seq(Plains), work' = [work EXCEPT ![t] = p \o Tail(work[t])]
  PROVE  /\ WorkOK'
         /\ \A u \in Thread, h \in Addr : Holding(u, h)' => Holding(u, h)
<1> DEFINE w == work[t]
           q == p \o Tail(w)
<1>1. w \in Seq(Orders) /\ w # <<>> /\ Chained(w)
  BY DEF WorkOK
<1>2. /\ Tail(w) \in Seq(Orders) /\ Chained(Tail(w)) /\ Head(w) \in Orders
      /\ Tail(w) # <<>> => Head(Tail(w)) \in Plains
  BY <1>1, Popped DEF Follows, Plains
<1>3. p \in Seq(Orders) /\ Chained(p)
  BY PlainList
<1>4. q \in Seq(Orders) /\ Chained(q) /\ (q # <<>> => Head(q) \in Plains)
  <2>1. CASE p = <<>>
    <3>1. q = Tail(w)
      BY <1>2, <2>1
    <3> HIDE DEF q, w
    <3> QED BY <1>2, <3>1
  <2>2. CASE p # <<>>
    <3>1. \A b \in Orders : Follows(Head(w), b) => Follows(p[Len(p)], b)
      BY DEF Follows
    <3>2. q \in Seq(Orders) /\ Chained(q) /\ q # <<>> /\ Head(q) = p[1]
      <4> HIDE DEF w
      <4> QED BY <1>1, <1>3, <2>2, <3>1, Spliced
    <3>3. p[1] \in Plains
      BY <2>2
    <3> QED BY <3>2, <3>3
  <2> QED BY <2>1, <2>2
<1>5. work' \in [Thread -> Seq(Orders)] /\ work'[t] = q /\ \A u \in Thread : u # t => work'[u] = work[u]
  BY <1>4 DEF WorkOK
<1> HIDE DEF q, w
<1>6. WorkOK'
  BY <1>4, <1>5 DEF WorkOK
<1>7. ASSUME NEW u \in Thread, NEW h \in Addr, Holding(u, h)'
      PROVE  Holding(u, h)
  <2>1. CASE u = t
    BY <1>4, <1>5, <1>7, <2>1 DEF Holding, Plains
  <2>2. CASE u # t
    BY <1>5, <1>7, <2>2 DEF Holding
  <2> QED BY <2>1, <2>2
<1> QED BY <1>6, <1>7

\* It is done and nothing takes its place.
LEMMA PlainDone ==
  ASSUME WorkOK, NEW t \in Thread, work[t] # <<>>,
         Head(work[t]).cmd \notin {"id", "incr", "forth", "back"},
         work' = [work EXCEPT ![t] = Tail(@)]
  PROVE  /\ WorkOK'
         /\ \A u \in Thread, h \in Addr : Holding(u, h)' => Holding(u, h)
<1>1. <<>> \in Seq(Plains)
  OBVIOUS
<1>2. work[t] \in Seq(Orders) /\ Tail(work[t]) \in Seq(Orders)
  BY DEF WorkOK
<1>3. <<>> \o Tail(work[t]) = Tail(work[t])
  BY <1>2
<1> QED BY <1>1, <1>3, PlainPushed

\* A thread with nothing to do is given commands that write no number.
LEMMA PlainBegun ==
  ASSUME WorkOK, NEW t \in Thread, NEW p \in Seq(Plains), work' = [work EXCEPT ![t] = p]
  PROVE  /\ WorkOK'
         /\ \A u \in Thread, h \in Addr : Holding(u, h)' => Holding(u, h)
<1>1. p \in Seq(Orders) /\ Chained(p) /\ (p # <<>> => Head(p) \in Plains)
  BY PlainList
<1>2. work' \in [Thread -> Seq(Orders)] /\ work'[t] = p /\ \A u \in Thread : u # t => work'[u] = work[u]
  BY <1>1 DEF WorkOK
<1>3. WorkOK'
  BY <1>1, <1>2 DEF WorkOK
<1>4. ASSUME NEW u \in Thread, NEW h \in Addr, Holding(u, h)'
      PROVE  Holding(u, h)
  <2>1. CASE u = t
    BY <1>1, <1>2, <1>4, <2>1 DEF Holding, Plains
  <2>2. CASE u # t
    BY <1>2, <1>4, <2>2 DEF Holding
  <2> QED BY <2>1, <2>2
<1> QED BY <1>3, <1>4

-------------------------------------------------------------------------------
(* The commands that are given *)

LEMMA CallPlain ==
  ASSUME NEW c \in {"dump", "purge", "serial", "link", "free"}, NEW h \in Addr
  PROVE  Call(c, h) \in Seq(Plains)
<1>1. Do(c, h, NoAddr, "client", 0, 0, TRUE, 1) \in Plains
  BY DEF Do, Plains, Orders, Command, Complete, OnHost, OnPeer, Mode, Day
<1> QED BY <1>1 DEF Call, Do

LEMMA FlushPlain ==
  ASSUME NEW h \in Addr, NEW free \in BOOLEAN
  PROVE  Flush(h, free) \in Seq(Plains)
<1>1. /\ Call("dump", h) \in Seq(Plains) /\ Call("purge", h) \in Seq(Plains)
      /\ Call("serial", h) \in Seq(Plains) /\ <<>> \in Seq(Plains)
  BY CallPlain
<1> QED BY <1>1 DEF Flush

LEMMA DumpPairPlain ==
  ASSUME NEW h \in Addr, NEW mode \in Mode, NEW i \in 1..Slots, NEW me \in Nat,
         NEW asClient \in BOOLEAN, NEW d \in Day, slots[h][mode][i].peer \in Addr
  PROVE  DumpPair(h, mode, i, me, asClient, d) \in Seq(Plains)
<1>1. i \in Nat /\ (~asClient) \in BOOLEAN
  BY ContactsAssumption
<1>2. /\ Do("peer", h, slots[h][mode][i].peer, mode, i, me, asClient, d) \in Plains
      /\ Do("count", h, slots[h][mode][i].peer, mode, i, me, asClient, d) \in Plains
      /\ Do("reverse", h, NoAddr, mode, i, me, ~asClient, d) \in Plains
  BY <1>1 DEF Do, Plains, Orders, Command, Complete, OnHost, OnPeer
<1> QED BY <1>2 DEF DumpPair

LEMMA SetHostIdOrders ==
  ASSUME NEW h \in Addr, NEW d \in Day
  PROVE  /\ SetHostId(h, d) \in Seq(Orders) /\ Len(SetHostId(h, d)) = 2
         /\ SetHostId(h, d)[1].cmd = "forth" /\ SetHostId(h, d)[1].peer = h
         /\ SetHostId(h, d)[2].cmd = "back" /\ SetHostId(h, d)[2].peer = h
<1>1. /\ Do("forth", NoAddr, h, "client", 0, 0, TRUE, d) \in Orders
      /\ Do("back", NoAddr, h, "client", 0, 0, TRUE, d) \in Orders
  BY DEF Do, Orders, Command, Complete, OnHost, OnPeer, Mode
<1> QED BY <1>1 DEF SetHostId, Do

LEMMA SetHostIdList ==
  ASSUME NEW h \in Addr, NEW d \in Day
  PROVE  LET p == SetHostId(h, d)
         IN  /\ p \in Seq(Orders) /\ p # <<>> /\ Chained(p) /\ p[Len(p)].cmd = "back"
             /\ p[1].cmd = "forth" /\ p[1].peer = h
<1> DEFINE p == SetHostId(h, d)
<1>1. /\ p \in Seq(Orders) /\ Len(p) = 2 /\ p[1].cmd = "forth" /\ p[1].peer = h
      /\ p[2].cmd = "back" /\ p[2].peer = h
  BY SetHostIdOrders
<1> HIDE DEF p
<1>2. Follows(p[1], p[2])
  BY <1>1 DEF Follows
<1>3. ASSUME NEW k \in 1..(Len(p) - 1) PROVE Follows(p[k], p[k + 1])
  <2>1. k = 1 /\ k + 1 = 2
    BY <1>1
  <2> QED BY <1>2, <2>1, Zenon
<1>4. Chained(p)
  BY <1>3, Zenon DEF Chained
<1>5. p # <<>>
  <2>1. Len(<<>>) = 0 /\ Len(p) # 0
    BY <1>1
  <2> QED BY <2>1, Zenon
<1>6. p[Len(p)].cmd = "back"
  BY <1>1, Zenon
<1> QED BY <1>1, <1>4, <1>5, <1>6 DEF p

-------------------------------------------------------------------------------
(* Each command keeps the lists and the owners *)

LEMMA IncrIPContactsOwners ==
  ASSUME ContactsInv, NEW t \in Thread, work[t] # <<>>, IncrIPContacts(t)
  PROVE  WorkOK' /\ OneOwner'
<1> DEFINE c == Head(work[t])
           array == slots[c.host][c.mode]
           i == Least(array)
           dumped == IF array[i].peer \in Recorded /\ serial[c.host] > 0
                     THEN DumpPair(c.host, c.mode, i, serial[c.host], c.mode = "client", day)
                     ELSE <<>>
           replace == [c EXCEPT !.cmd = "replace", !.slot = i]
<1>1. WorkOK /\ OneOwner /\ c \in Orders /\ c.cmd = "contact"
  BY Popped DEF ContactsInv, WorkOK, IncrIPContacts
<1>2. /\ c.host \in Addr /\ c.peer \in Addr /\ c.mode \in Mode /\ array \in [1..Slots -> Slot]
      /\ serial[c.host] \in Nat /\ day \in Day
  <2>1. c.host \in Addr /\ c.peer \in Addr /\ c.mode \in Mode
    BY <1>1 DEF Orders, Command, Complete, OnHost, OnPeer
  <2>2. /\ slots \in [Addr -> [Mode -> [1..Slots -> Slot]]] /\ nextId \in Nat
        /\ serial \in [Addr -> 0..nextId] /\ day \in Day
    BY DEF ContactsInv, TypeOK, StoreOK
  <2> QED BY <2>1, <2>2
<1>3. CASE Room(array, c.peer) # {}
  <2>1. work' = [work EXCEPT ![t] = Tail(@)] /\ UNCHANGED <<serial, ids, names, nextId, reg>>
    BY <1>3 DEF IncrIPContacts, store
  <2> HIDE DEF array
  <2> QED BY <1>1, <2>1, PlainDone, NoNewHolder
<1>4. CASE ~(Room(array, c.peer) # {})
  <2>1. /\ work' = [work EXCEPT ![t] = (dumped \o <<replace>>) \o Tail(work[t])]
        /\ UNCHANGED <<serial, ids, names, nextId, reg>>
    BY <1>4 DEF IncrIPContacts, store
  <2>2. i \in 1..Slots
    BY <1>2, LeastSlot
  <2>3. dumped \in Seq(Plains)
    <3>1. CASE array[i].peer \in Recorded /\ serial[c.host] > 0
      <4>1. array[i].peer \in Addr /\ (c.mode = "client") \in BOOLEAN
        BY <3>1, ContactsAssumption
      <4>2. DumpPair(c.host, c.mode, i, serial[c.host], c.mode = "client", day) \in Seq(Plains)
        <5> HIDE DEF i
        <5> QED BY <1>2, <2>2, <4>1, DumpPairPlain
      <4> QED BY <3>1, <4>2
    <3>2. CASE ~(array[i].peer \in Recorded /\ serial[c.host] > 0)
      <4>1. dumped = <<>>
        BY <3>2
      <4> HIDE DEF dumped
      <4> QED BY <4>1
    <3> QED BY <3>1, <3>2
  <2>4. replace \in Plains
    <3> HIDE DEF i, array
    <3>1. i \in Nat
      BY <2>2, ContactsAssumption
    <3> QED BY <1>1, <1>2, <2>2, <3>1 DEF Plains, Orders, Command, Complete, OnHost, OnPeer
  <2> HIDE DEF dumped, replace
  <2>5. dumped \o <<replace>> \in Seq(Plains)
    BY <2>3, <2>4
  <2> QED BY <1>1, <2>1, <2>5, PlainPushed, NoNewHolder
<1> QED BY <1>3, <1>4

LEMMA DbDumpAllHostsOwners ==
  ASSUME ContactsInv, NEW t \in Thread, work[t] # <<>>, DbDumpAllHosts(t)
  PROVE  WorkOK' /\ OneOwner'
<1> DEFINE c == Head(work[t])
           array == slots[c.host]
           Written(mode) ==
             IF array[mode][c.slot].n > 0 /\ array[mode][c.slot].peer \in Recorded
             THEN DumpPair(c.host, mode, c.slot, c.me, TRUE, c.day) ELSE <<>>
           all == [c EXCEPT !.cmd = "all", !.slot = @ + 1]
           server == [c EXCEPT !.cmd = "allServer"]
           p == IF c.cmd = "allServer" THEN Written("server") \o <<all>>
                ELSE IF c.slot > Slots \/ array["client"][c.slot].n = 0 THEN <<>>
                ELSE Written("client") \o <<server>>
<1>1. WorkOK /\ OneOwner /\ c \in Orders /\ c.cmd \in {"all", "allServer"}
  BY Popped DEF ContactsInv, WorkOK, DbDumpAllHosts
<1>2. /\ c.host \in Addr /\ c.me \in Nat /\ c.day \in Day /\ c.slot \in 1..(Slots + 1)
      /\ c.cmd = "allServer" => c.slot \in 1..Slots
  BY <1>1, ContactsAssumption DEF Orders, Command, Complete, OnHost, OnPeer
<1>3. ASSUME NEW mode \in Mode, c.slot \in 1..Slots PROVE Written(mode) \in Seq(Plains)
  <2>1. CASE array[mode][c.slot].n > 0 /\ array[mode][c.slot].peer \in Recorded
    <3>1. array[mode][c.slot].peer \in Addr
      BY <2>1, ContactsAssumption
    <3>2. DumpPair(c.host, mode, c.slot, c.me, TRUE, c.day) \in Seq(Plains)
      BY <1>2, <1>3, <3>1, DumpPairPlain
    <3> QED BY <2>1, <3>2
  <2>2. CASE ~(array[mode][c.slot].n > 0 /\ array[mode][c.slot].peer \in Recorded)
    <3>1. <<>> \in Seq(Plains)
      OBVIOUS
    <3> QED BY <2>2, <3>1, Zenon
  <2> QED BY <2>1, <2>2, Zenon
<1>4. ASSUME c.slot \in 1..Slots PROVE all \in Plains /\ server \in Plains
  <2>1. c.slot \in Nat /\ c.slot + 1 \in Nat /\ c.slot + 1 \in 1..(Slots + 1)
    BY <1>4, ContactsAssumption
  <2>2. all \in Plains
    BY <1>1, <1>2, <2>1 DEF Plains, Orders, Command, Complete, OnHost, OnPeer
  <2>3. server \in Plains
    BY <1>1, <1>2, <1>4, <2>1 DEF Plains, Orders, Command, Complete, OnHost, OnPeer
  <2> QED BY <2>2, <2>3
<1>5. p \in Seq(Plains)
  <2> HIDE DEF Written, all, server
  <2>1. c.slot > Slots \/ c.slot \in 1..Slots
    BY <1>2, ContactsAssumption
  <2>2. CASE c.slot \in 1..Slots
    <3>1. Written("server") \in Seq(Plains) /\ Written("client") \in Seq(Plains)
      BY <1>3, <2>2 DEF Mode
    <3>2. <<all>> \in Seq(Plains) /\ <<server>> \in Seq(Plains) /\ <<>> \in Seq(Plains)
      BY <1>4, <2>2
    <3>3. /\ Written("server") \o <<all>> \in Seq(Plains)
          /\ Written("client") \o <<server>> \in Seq(Plains)
      BY <3>1, <3>2
    <3> QED BY <3>2, <3>3, Zenon
  <2>3. CASE c.slot > Slots
    <3>1. c.cmd # "allServer" /\ <<>> \in Seq(Plains)
      BY <1>2, <2>3, ContactsAssumption
    <3> QED BY <2>3, <3>1, Zenon
  <2> QED BY <2>1, <2>2, <2>3
<1>6. work' = [work EXCEPT ![t] = p \o Tail(work[t])] /\ UNCHANGED <<serial, ids, names, nextId, reg>>
  BY DEF DbDumpAllHosts, memory, store
<1> HIDE DEF p
<1> QED BY <1>1, <1>5, <1>6, PlainPushed, NoNewHolder

\* What is known of the lists when a command is replaced by others, or done.
LEMMA Pushed ==
  ASSUME WorkOK, NEW t \in Thread, work[t] # <<>>,
         NEW p \in Seq(Orders), p # <<>>, Chained(p),
         \A b \in Orders : Follows(Head(work[t]), b) => Follows(p[Len(p)], b),
         work' = [work EXCEPT ![t] = p \o Tail(work[t])]
  PROVE  /\ WorkOK' /\ work'[t] # <<>> /\ Head(work'[t]) = p[1]
         /\ \A u \in Thread : u # t => work'[u] = work[u]
<1> DEFINE q == p \o Tail(work[t])
<1>1. q \in Seq(Orders) /\ Chained(q) /\ q # <<>> /\ Head(q) = p[1]
  BY Spliced DEF WorkOK
<1> HIDE DEF q
<1>2. work' \in [Thread -> Seq(Orders)] /\ work'[t] = q /\ \A u \in Thread : u # t => work'[u] = work[u]
  BY <1>1 DEF WorkOK, q
<1> QED BY <1>1, <1>2 DEF WorkOK

LEMMA Done ==
  ASSUME WorkOK, NEW t \in Thread, work[t] # <<>>, work' = [work EXCEPT ![t] = Tail(@)]
  PROVE  /\ WorkOK'
         /\ work'[t] # <<>> => /\ Head(work'[t]) \in Orders
                              /\ Follows(Head(work[t]), Head(work'[t]))
         /\ \A u \in Thread : u # t => work'[u] = work[u]
<1> DEFINE q == Tail(work[t])
<1>1. /\ q \in Seq(Orders) /\ Chained(q)
      /\ q # <<>> => Head(q) \in Orders /\ Follows(Head(work[t]), Head(q))
  BY Popped DEF WorkOK
<1> HIDE DEF q
<1>2. work' \in [Thread -> Seq(Orders)] /\ work'[t] = q /\ \A u \in Thread : u # t => work'[u] = work[u]
  BY <1>1 DEF WorkOK, q
<1> QED BY <1>1, <1>2 DEF WorkOK

LEMMA OthersHold ==
  ASSUME OneOwner, NEW u \in Thread, work'[u] = work[u], reg'[u] = reg[u], NEW h \in Addr,
         Holding(u, h)'
  PROVE  Holding(u, h) /\ Owns(h, reg'[u]) /\ reg'[u] # 0
BY HeldNumbers DEF Holding

LEMMA HostSerialOwners ==
  ASSUME ContactsInv, NEW t \in Thread, work[t] # <<>>, HostSerial(t)
  PROVE  WorkOK' /\ OneOwner'
<1> DEFINE c == Head(work[t])
<1>1. /\ WorkOK /\ OneOwner /\ c \in Orders /\ c.cmd = "serial" /\ c.host \in Addr /\ day \in Day
      /\ reg \in [Thread -> 0..nextId]
  BY Popped DEF ContactsInv, WorkOK, HostSerial, Orders, Complete, OnHost, TypeOK
<1>2. UNCHANGED <<serial, ids, names, nextId>>
  BY DEF HostSerial, memory, store
<1>3. CASE c.host \notin Recorded \cup Aggregated
  <2>1. work' = [work EXCEPT ![t] = Tail(@)] /\ UNCHANGED reg
    BY <1>3 DEF HostSerial
  <2> QED BY <1>1, <1>2, <2>1, PlainDone, NoNewHolder
<1>4. CASE c.host \in Recorded \cup Aggregated /\ serial[c.host] # 0
  <2> DEFINE p == SetHostId(c.host, day)
  <2>1. reg' = [reg EXCEPT ![t] = serial[c.host]] /\ work' = [work EXCEPT ![t] = p \o Tail(work[t])]
    BY <1>4 DEF HostSerial
  <2>2. /\ p \in Seq(Orders) /\ p # <<>> /\ Chained(p) /\ p[Len(p)].cmd = "back"
        /\ p[1].cmd = "forth" /\ p[1].peer = c.host
    BY <1>1, SetHostIdList
  <2>3. \A b \in Orders : Follows(c, b) => Follows(p[Len(p)], b)
    BY <1>1 DEF Follows
  <2> HIDE DEF p
  <2>4. /\ WorkOK' /\ work'[t] # <<>> /\ Head(work'[t]) = p[1]
        /\ \A u \in Thread : u # t => work'[u] = work[u]
    BY <1>1, <2>1, <2>2, <2>3, Pushed
  <2>5. ASSUME NEW u \in Thread, NEW h \in Addr, Holding(u, h)'
        PROVE  Owns(h, reg'[u]) /\ reg'[u] # 0
    <3>1. CASE u = t
      <4>1. h = c.host /\ reg'[u] = serial[h]
        BY <1>1, <2>1, <2>2, <2>4, <2>5, <3>1 DEF Holding
      <4> QED BY <1>4, <4>1, OwnNumbers
    <3>2. CASE u # t
      BY <1>1, <2>1, <2>4, <2>5, <3>2, OthersHold
    <3> QED BY <3>1, <3>2
  <2> QED BY <1>1, <1>2, <2>4, <2>5, OwnNumbers, OwnersStay
<1>5. CASE c.host \in Recorded \cup Aggregated /\ serial[c.host] = 0
  <2> DEFINE id == HostToId(c.host, day)
             own == [c EXCEPT !.cmd = "own"]
             p == <<id, own>>
  <2>1. UNCHANGED reg /\ work' = [work EXCEPT ![t] = p \o Tail(work[t])]
    BY <1>4, <1>5 DEF HostSerial
  <2>2. /\ id \in Orders /\ id.cmd = "id" /\ id.peer = c.host
    BY <1>1 DEF HostToId, Do, Orders, Command, Complete, OnHost, OnPeer, Mode
  <2>3. own \in Orders /\ own.cmd = "own" /\ own.host = c.host
    BY <1>1 DEF Orders, Command, Complete, OnHost, OnPeer
  <2> HIDE DEF id, own
  <2>4. p \in Seq(Orders) /\ p # <<>> /\ p[1] = id /\ p[Len(p)] = own /\ Len(p) = 2 /\ p[2] = own
    BY <2>2, <2>3
  <2>5. Chained(p)
    BY <2>2, <2>3, <2>4 DEF Chained, Follows
  <2>6. \A b \in Orders : Follows(c, b) => Follows(p[Len(p)], b)
    BY <1>1 DEF Follows
  <2> HIDE DEF p
  <2>7. /\ WorkOK' /\ work'[t] # <<>> /\ Head(work'[t]) = p[1]
        /\ \A u \in Thread : u # t => work'[u] = work[u]
    BY <1>1, <2>1, <2>4, <2>5, <2>6, Pushed
  <2>8. ASSUME NEW u \in Thread, NEW h \in Addr, Holding(u, h)'
        PROVE  Holding(u, h)
    <3>1. u # t
      BY <2>2, <2>4, <2>7, <2>8 DEF Holding
    <3> QED BY <1>1, <2>1, <2>7, <2>8, <3>1, OthersHold
  <2> QED BY <1>1, <1>2, <2>1, <2>7, <2>8, NoNewHolder
<1> QED BY <1>3, <1>4, <1>5

LEMMA OwnSerialOwners ==
  ASSUME ContactsInv, NEW t \in Thread, work[t] # <<>>, OwnSerial(t)
  PROVE  WorkOK' /\ OneOwner'
<1> DEFINE c == Head(work[t])
<1>1. /\ WorkOK /\ OneOwner /\ c \in Orders /\ c.cmd = "own" /\ c.host \in Addr
      /\ serial \in [Addr -> 0..nextId]
  BY Popped DEF ContactsInv, WorkOK, OwnSerial, Orders, Complete, OnHost, TypeOK
<1>2. /\ UNCHANGED <<ids, names, nextId, reg>> /\ serial' = [serial EXCEPT ![c.host] = reg[t]]
      /\ work' = [work EXCEPT ![t] = Tail(@)]
  BY DEF OwnSerial, store
<1>3. WorkOK' /\ \A u \in Thread, h \in Addr : Holding(u, h)' => Holding(u, h)
  BY <1>1, <1>2, PlainDone
<1>4. Owns(c.host, reg[t])
  BY <1>1, OwnNumbers DEF Holding
<1>5. \A h \in Addr : Owns(h, serial'[h])
  BY <1>1, <1>2, <1>4, OwnNumbers
<1> QED BY <1>1, <1>2, <1>3, <1>5, OwnNumbers, HeldNumbers, OwnersStay

LEMMA Joined ==
  ASSUME NEW u \in Seq(Orders), NEW v \in Seq(Orders)
  PROVE  /\ u \o v \in Seq(Orders) /\ Len(u \o v) = Len(u) + Len(v)
         /\ \A k \in 1..Len(u) : (u \o v)[k] = u[k]
         /\ \A k \in 1..Len(v) : (u \o v)[Len(u) + k] = v[k]
OBVIOUS

\* A list of one command and a list of two.
LEMMA OneAndTwo ==
  ASSUME NEW u \in Seq(Orders), NEW v \in Seq(Orders), Len(u) = 1, Len(v) = 2
  PROVE  /\ u \o v \in Seq(Orders) /\ Len(u \o v) = 3
         /\ (u \o v)[1] = u[1] /\ (u \o v)[2] = v[1] /\ (u \o v)[3] = v[2]
<1> DEFINE q == u \o v
<1>1. /\ q \in Seq(Orders) /\ Len(q) = Len(u) + Len(v)
      /\ \A k \in 1..Len(u) : q[k] = u[k]
      /\ \A k \in 1..Len(v) : q[Len(u) + k] = v[k]
  BY Joined
<1> HIDE DEF q
<1>2. q[1] = u[1] /\ q[1 + 1] = v[1] /\ q[1 + 2] = v[2]
  BY <1>1
<1> QED BY <1>1, <1>2 DEF q

LEMMA LookUpOwners ==
  ASSUME ContactsInv, NEW t \in Thread, work[t] # <<>>, LookUp(t)
  PROVE  WorkOK' /\ OneOwner'
<1> DEFINE c == Head(work[t])
           known == ids[c.day][c.peer]
<1>1. /\ WorkOK /\ OneOwner /\ c \in Orders /\ c.cmd \in {"id", "peer"} /\ c.peer \in Addr
      /\ c.day \in Day /\ reg \in [Thread -> 0..nextId]
  BY Popped DEF ContactsInv, WorkOK, LookUp, Orders, Command, Complete, OnHost, OnPeer, TypeOK
<1>2. UNCHANGED <<serial, ids, names, nextId>>
  BY DEF LookUp, memory, store
<1>3. CASE /\ known # 0 /\ reg' = [reg EXCEPT ![t] = known]
           /\ work' = [work EXCEPT ![t] = Tail(@)]
  <2>1. /\ WorkOK'
        /\ work'[t] # <<>> => Head(work'[t]) \in Orders /\ Follows(c, Head(work'[t]))
        /\ \A u \in Thread : u # t => work'[u] = work[u]
    BY <1>1, <1>3, Done
  <2>2. ASSUME NEW u \in Thread, NEW h \in Addr, Holding(u, h)'
        PROVE  Owns(h, reg'[u]) /\ reg'[u] # 0
    <3>1. CASE u = t
      <4>1. h = c.peer
        BY <1>1, <2>1, <2>2, <3>1 DEF Holding, Follows
      <4>2. reg'[u] = ids[c.day][h]
        BY <1>1, <1>3, <3>1, <4>1
      <4> QED BY <1>1, <1>3, <4>1, <4>2, OwnNumbers
    <3>2. CASE u # t
      BY <1>1, <1>3, <2>1, <2>2, <3>2, OthersHold
    <3> QED BY <3>1, <3>2
  <2> QED BY <1>1, <1>2, <2>1, <2>2, OwnNumbers, OwnersStay
<1>4. CASE /\ work' = [work EXCEPT ![t] = << [c EXCEPT !.cmd = "incr"] >>
                          \o SetHostId(c.peer, c.day) \o Tail(@)]
           /\ UNCHANGED reg
  <2> DEFINE incr == [c EXCEPT !.cmd = "incr"]
             set == SetHostId(c.peer, c.day)
             p == <<incr>> \o set
  <2>1. /\ set \in Seq(Orders) /\ Len(set) = 2
        /\ set[1].cmd = "forth" /\ set[1].peer = c.peer
        /\ set[2].cmd = "back" /\ set[2].peer = c.peer
    BY <1>1, SetHostIdOrders
  <2>2. incr \in Orders /\ incr.cmd = "incr" /\ incr.peer = c.peer
    BY <1>1 DEF Orders, Command, Complete, OnHost, OnPeer
  <2>3. work' = [work EXCEPT ![t] = p \o Tail(work[t])]
    BY <1>4
  <2> HIDE DEF incr, set
  <2>4. /\ p \in Seq(Orders) /\ p # <<>> /\ Len(p) = 3
        /\ p[1] = incr /\ p[2] = set[1] /\ p[3] = set[2]
    <3> DEFINE first == <<incr>>
    <3>1. first \in Seq(Orders) /\ Len(first) = 1 /\ first[1] = incr
      BY <2>2
    <3> HIDE DEF first
    <3>2. /\ first \o set \in Seq(Orders) /\ Len(first \o set) = 3
          /\ (first \o set)[1] = first[1]
          /\ (first \o set)[2] = set[1] /\ (first \o set)[3] = set[2]
      BY <2>1, <3>1, OneAndTwo
    <3>3. p = first \o set
      BY DEF first
    <3> HIDE DEF p
    <3> QED BY <3>1, <3>2, <3>3
  <2> HIDE DEF p
  <2>5. Chained(p)
    <3>1. ASSUME NEW k \in 1..(Len(p) - 1) PROVE Follows(p[k], p[k + 1])
      <4>1. k = 1 \/ k = 2
        BY <2>4
      <4>2. Follows(p[1], p[2]) /\ Follows(p[2], p[3])
        BY <2>1, <2>2, <2>4 DEF Follows
      <4> QED BY <4>1, <4>2
    <3> QED BY <3>1 DEF Chained
  <2>6. \A b \in Orders : Follows(c, b) => Follows(p[Len(p)], b)
    BY <1>1, <2>1, <2>4 DEF Follows
  <2>7. /\ WorkOK' /\ work'[t] # <<>> /\ Head(work'[t]) = p[1]
        /\ \A u \in Thread : u # t => work'[u] = work[u]
    BY <1>1, <2>3, <2>4, <2>5, <2>6, Pushed
  <2>8. ASSUME NEW u \in Thread, NEW h \in Addr, Holding(u, h)'
        PROVE  Holding(u, h)
    <3>1. u # t
      BY <2>2, <2>4, <2>7, <2>8 DEF Holding
    <3> QED BY <1>1, <1>4, <2>7, <2>8, <3>1, OthersHold
  <2> QED BY <1>1, <1>2, <1>4, <2>7, <2>8, NoNewHolder
<1> QED BY <1>3, <1>4 DEF LookUp

\* The one command that makes a number: it is nobody's yet.
LEMMA IncrKeyOwners ==
  ASSUME ContactsInv, NEW t \in Thread, work[t] # <<>>, IncrKey(t)
  PROVE  WorkOK' /\ OneOwner'
<1> DEFINE c == Head(work[t])
<1>1. /\ WorkOK /\ OneOwner /\ c \in Orders /\ c.cmd = "incr" /\ c.peer \in Addr /\ nextId \in Nat
      /\ serial \in [Addr -> 0..nextId] /\ ids \in [Day -> [Addr -> 0..nextId]]
      /\ \A d \in Day : \A i \in DOMAIN names[d] : i \in 1..nextId
      /\ reg \in [Thread -> 0..nextId]
  BY Popped DEF ContactsInv, WorkOK, IncrKey, Orders, Complete, OnPeer, TypeOK, StoreOK
<1>2. /\ UNCHANGED <<serial, ids, names>> /\ nextId' = nextId + 1
      /\ reg' = [reg EXCEPT ![t] = nextId + 1] /\ work' = [work EXCEPT ![t] = Tail(@)]
  BY DEF IncrKey, memory
<1>3. /\ WorkOK'
      /\ work'[t] # <<>> => Head(work'[t]) \in Orders /\ Follows(c, Head(work'[t]))
      /\ \A u \in Thread : u # t => work'[u] = work[u]
  BY <1>1, <1>2, Done
<1>4. ASSUME NEW h \in Addr, NEW i \in 1..nextId, Owns(h, i)' PROVE Owns(h, i)
  <2>1. ASSUME NEW u \in Thread, Holding(u, h)', reg'[u] = i PROVE Owns(h, i)
    <3>1. u # t
      BY <1>1, <1>2, <2>1
    <3> QED BY <1>1, <1>2, <1>3, <2>1, <3>1, OthersHold
  <2>2. \/ serial[h] = i
        \/ \E d \in Day : ids[d][h] = i \/ (i \in DOMAIN names[d] /\ names[d][i] = h)
        \/ \E u \in Thread : Holding(u, h)' /\ reg'[u] = i
    BY <1>2, <1>4 DEF Owns
  <2> QED BY <2>1, <2>2, OwnNumbers
<1>5. ASSUME NEW h \in Addr, NEW i, i = nextId + 1, Owns(h, i)' PROVE h = c.peer
  <2>1. \E u \in Thread : Holding(u, h)' /\ reg'[u] = nextId + 1
    BY <1>1, <1>2, <1>5 DEF Owns
  <2>2. Holding(t, h)'
    BY <1>1, <1>2, <2>1
  <2> QED BY <1>1, <1>3, <2>2 DEF Holding, Follows
<1>6. ASSUME NEW h1 \in Addr, NEW h2 \in Addr, NEW i \in 1..nextId', Owns(h1, i)', Owns(h2, i)'
      PROVE  h1 = h2
  <2>1. i \in 1..nextId \/ i = nextId + 1
    BY <1>1, <1>2
  <2>2. CASE i \in 1..nextId
    <3>1. Owns(h1, i) /\ Owns(h2, i)
      BY <1>4, <1>6, <2>2
    <3> QED BY <1>1, <2>2, <3>1 DEF OneOwner
  <2>3. CASE i = nextId + 1
    BY <1>5, <1>6, <2>3
  <2> QED BY <2>1, <2>2, <2>3
<1>7. ASSUME NEW u \in Thread, NEW h \in Addr, Holding(u, h)' PROVE reg'[u] # 0
  <2>1. CASE u = t
    BY <1>1, <1>2, <2>1
  <2>2. CASE u # t
    BY <1>1, <1>2, <1>3, <1>7, <2>2, OthersHold
  <2> QED BY <2>1, <2>2
<1> QED BY <1>3, <1>6, <1>7 DEF OneOwner

LEMMA SetForthOwners ==
  ASSUME ContactsInv, NEW t \in Thread, work[t] # <<>>, SetForth(t)
  PROVE  WorkOK' /\ OneOwner'
<1> DEFINE c == Head(work[t])
<1>1. /\ WorkOK /\ OneOwner /\ c \in Orders /\ c.cmd = "forth" /\ c.peer \in Addr /\ c.day \in Day
      /\ ids \in [Day -> [Addr -> 0..nextId]]
  BY Popped DEF ContactsInv, WorkOK, SetForth, Orders, Command, Complete, OnPeer, TypeOK
<1>2. /\ UNCHANGED <<serial, names, nextId, reg>> /\ ids' = [ids EXCEPT ![c.day][c.peer] = reg[t]]
      /\ work' = [work EXCEPT ![t] = Tail(@)]
  BY DEF SetForth, memory
<1>3. /\ WorkOK'
      /\ work'[t] # <<>> => Head(work'[t]) \in Orders /\ Follows(c, Head(work'[t]))
      /\ \A u \in Thread : u # t => work'[u] = work[u]
  BY <1>1, <1>2, Done
<1>4. Owns(c.peer, reg[t]) /\ reg[t] # 0
  BY <1>1, HeldNumbers DEF Holding
<1>5. \A d \in Day, h \in Addr : Owns(h, ids'[d][h])
  BY <1>1, <1>2, <1>4, OwnNumbers
<1>6. ASSUME NEW u \in Thread, NEW h \in Addr, Holding(u, h)' PROVE Owns(h, reg'[u]) /\ reg'[u] # 0
  <2>1. CASE u = t
    <3>1. h = c.peer
      BY <1>1, <1>3, <1>6, <2>1 DEF Holding, Follows
    <3> QED BY <1>2, <1>4, <2>1, <3>1
  <2>2. CASE u # t
    BY <1>1, <1>2, <1>3, <1>6, <2>2, OthersHold
  <2> QED BY <2>1, <2>2
<1> QED BY <1>1, <1>2, <1>3, <1>5, <1>6, OwnNumbers, OwnersStay

\* What HSET leaves in a hash.
LEMMA HashSetFields ==
  ASSUME NEW hash, NEW field, NEW value
  PROVE  /\ DOMAIN HashSet(hash, field, value) = DOMAIN hash \cup {field}
         /\ HashSet(hash, field, value)[field] = value
         /\ \A f \in DOMAIN hash : f # field => HashSet(hash, field, value)[f] = hash[f]
BY DEF HashSet

LEMMA SetBackOwners ==
  ASSUME ContactsInv, NEW t \in Thread, work[t] # <<>>, SetBack(t)
  PROVE  WorkOK' /\ OneOwner'
<1> DEFINE c == Head(work[t])
<1>1. /\ WorkOK /\ OneOwner /\ c \in Orders /\ c.cmd = "back" /\ c.peer \in Addr /\ c.day \in Day
      /\ DOMAIN names = Day
  BY Popped DEF ContactsInv, WorkOK, SetBack, Orders, Command, Complete, OnPeer, StoreOK
<1>2. /\ UNCHANGED <<serial, ids, nextId, reg>>
      /\ names' = [names EXCEPT ![c.day] = HashSet(names[c.day], reg[t], c.peer)]
      /\ work' = [work EXCEPT ![t] = Tail(@)]
  BY DEF SetBack, memory
<1>3. /\ WorkOK'
      /\ work'[t] # <<>> => Head(work'[t]) \in Orders /\ Follows(c, Head(work'[t]))
      /\ \A u \in Thread : u # t => work'[u] = work[u]
  BY <1>1, <1>2, Done
<1>4. Owns(c.peer, reg[t]) /\ reg[t] # 0
  BY <1>1, HeldNumbers DEF Holding
<1>5. ASSUME NEW d \in Day, NEW h \in Addr, NEW i \in DOMAIN names'[d], names'[d][i] = h
      PROVE  Owns(h, i)
  <2>1. CASE d = c.day
    <3>1. names'[d] = HashSet(names[d], reg[t], c.peer)
      BY <1>1, <1>2, <2>1
    <3>2. \/ i = reg[t] /\ h = c.peer
          \/ i \in DOMAIN names[d] /\ names[d][i] = h
      BY <1>5, <3>1 DEF HashSet
    <3> QED BY <1>4, <3>2, OwnNumbers
  <2>2. CASE d # c.day
    BY <1>1, <1>2, <1>5, <2>2, OwnNumbers
  <2> QED BY <2>1, <2>2
<1>6. ASSUME NEW u \in Thread, NEW h \in Addr, Holding(u, h)' PROVE Owns(h, reg'[u]) /\ reg'[u] # 0
  <2>1. CASE u = t
    <3>1. h = c.peer
      BY <1>1, <1>3, <1>6, <2>1 DEF Holding, Follows
    <3> QED BY <1>2, <1>4, <2>1, <3>1
  <2>2. CASE u # t
    BY <1>1, <1>2, <1>3, <1>6, <2>2, OthersHold
  <2> QED BY <2>1, <2>2
<1> QED BY <1>1, <1>2, <1>3, <1>5, <1>6, OwnNumbers, OwnersStay

\* ~Host() forgets the number of the host; Redis remembers it.
LEMMA FreeHostOwners ==
  ASSUME ContactsInv, NEW t \in Thread, work[t] # <<>>, FreeHost(t)
  PROVE  WorkOK' /\ OneOwner'
<1> DEFINE c == Head(work[t])
<1>1. /\ WorkOK /\ OneOwner /\ c.cmd = "free" /\ serial \in [Addr -> 0..nextId]
      /\ UNCHANGED <<ids, names, nextId, reg>> /\ serial' = [serial EXCEPT ![c.host] = 0]
      /\ work' = [work EXCEPT ![t] = Tail(@)]
  BY DEF ContactsInv, FreeHost, TypeOK, store
<1>2. WorkOK' /\ \A u \in Thread, h \in Addr : Holding(u, h)' => Holding(u, h)
  BY <1>1, PlainDone
<1>3. ASSUME NEW h \in Addr, serial'[h] \in 1..nextId PROVE Owns(h, serial'[h])
  <2>1. serial'[h] = serial[h]
    BY <1>1, <1>3
  <2> QED BY <2>1, OwnNumbers
<1> QED BY <1>1, <1>2, <1>3, OwnNumbers, HeldNumbers, OwnersStay

\* The commands that move no number.
LEMMA OtherOwners ==
  ASSUME ContactsInv, NEW t \in Thread, work[t] # <<>>,
         \/ ReplaceSlot(t) \/ DumpHostContacts(t) \/ PurgeAll(t) \/ LinkHost(t)
         \/ IncrHostContacts(t)
  PROVE  WorkOK' /\ OneOwner'
<1> DEFINE c == Head(work[t])
<1>1. WorkOK /\ OneOwner /\ c \in Orders /\ serial \in [Addr -> 0..nextId] /\ day \in Day /\ nextId \in Nat
  BY Popped DEF ContactsInv, WorkOK, TypeOK, StoreOK
<1>2. UNCHANGED <<serial, ids, names, nextId, reg>>
  BY DEF ReplaceSlot, DumpHostContacts, PurgeAll, LinkHost, IncrHostContacts, memory, store
<1>3. CASE DumpHostContacts(t)
  <2> DEFINE all == Do("all", c.host, NoAddr, "client", 1, serial[c.host], TRUE, day)
             p == <<all>>
  <2>1. c.cmd = "dump" /\ work' = [work EXCEPT ![t] = p \o Tail(work[t])]
    BY <1>3 DEF DumpHostContacts
  <2>2. c.host \in Addr /\ serial[c.host] \in Nat /\ 1 \in 1..(Slots + 1)
    BY <1>1, <2>1, ContactsAssumption DEF Orders, Complete, OnHost
  <2>3. all \in Plains
    BY <1>1, <2>2 DEF Do, Plains, Orders, Command, Complete, OnHost, OnPeer, Mode
  <2> HIDE DEF all
  <2>4. p \in Seq(Plains)
    BY <2>3
  <2> HIDE DEF p
  <2> QED BY <1>1, <1>2, <2>1, <2>4, PlainPushed, NoNewHolder
<1>4. CASE ReplaceSlot(t) \/ PurgeAll(t) \/ LinkHost(t) \/ IncrHostContacts(t)
  <2>1. /\ c.cmd \in {"replace", "purge", "link", "count", "reverse"}
        /\ work' = [work EXCEPT ![t] = Tail(@)]
    BY <1>4 DEF ReplaceSlot, PurgeAll, LinkHost, IncrHostContacts
  <2> QED BY <1>1, <1>2, <2>1, PlainDone, NoNewHolder
<1> QED BY <1>3, <1>4

LEMMA StepOwners ==
  ASSUME ContactsInv, NEW t \in Thread, Step(t)
  PROVE  WorkOK' /\ OneOwner'
BY IncrIPContactsOwners, DbDumpAllHostsOwners, HostSerialOwners, OwnSerialOwners, LookUpOwners,
   IncrKeyOwners, SetForthOwners, SetBackOwners, FreeHostOwners, OtherOwners DEF Step

\* A thread begins with commands that write no number.
LEMMA BegunOwners ==
  ASSUME ContactsInv,
         \/ \E h \in Addr : NewHost(h) \/ RetireHost(h) \/ FlushContacts(h)
         \/ \E cli, srv \in Addr : NewFlow(cli, srv)
         \/ \E s, cli \in Addr, track \in BOOLEAN : AggregateInfo(s, cli, track)
  PROVE  WorkOK' /\ OneOwner'
<1>0. UNCHANGED <<serial, ids, names, nextId, reg>>
  BY DEF NewHost, RetireHost, FlushContacts, NewFlow, AggregateInfo, memory, store
<1>1. WorkOK /\ OneOwner /\ "packets" \in Thread /\ "script" \in Thread /\ <<>> \in Seq(Plains)
  BY DEF ContactsInv, Thread
<1>2. ASSUME NEW p \in Seq(Plains), NEW t \in Thread, work' = [work EXCEPT ![t] = p]
      PROVE  WorkOK' /\ OneOwner'
  BY <1>0, <1>1, <1>2, PlainBegun, NoNewHolder
<1>3. ASSUME NEW h \in Addr, NewHost(h) PROVE WorkOK' /\ OneOwner'
  <2> DEFINE first == IF h \in Aggregated THEN <<>> ELSE Call("serial", h)
             p == first \o Call("link", h)
  <2>1. Call("serial", h) \in Seq(Plains) /\ Call("link", h) \in Seq(Plains)
    BY CallPlain
  <2>2. first \in Seq(Plains)
    BY <1>1, <2>1
  <2>3. p \in Seq(Plains)
    <3> HIDE DEF first
    <3> QED BY <2>1, <2>2
  <2>4. work' = [work EXCEPT !["packets"] = p]
    BY <1>3 DEF NewHost
  <2> HIDE DEF p
  <2> QED BY <1>1, <1>2, <2>3, <2>4
<1>4. ASSUME NEW h \in Addr, RetireHost(h) PROVE WorkOK' /\ OneOwner'
  <2> DEFINE first == IF h \in Aggregated THEN Flush(h, TRUE) ELSE Call("dump", h)
             p == first \o Call("free", h)
  <2>1. /\ Call("dump", h) \in Seq(Plains) /\ Call("free", h) \in Seq(Plains)
        /\ Flush(h, TRUE) \in Seq(Plains)
    BY CallPlain, FlushPlain
  <2>2. first \in Seq(Plains)
    BY <2>1
  <2>3. p \in Seq(Plains)
    <3> HIDE DEF first
    <3> QED BY <2>1, <2>2
  <2>4. work' = [work EXCEPT !["packets"] = p]
    BY <1>4 DEF RetireHost
  <2> HIDE DEF p
  <2> QED BY <1>1, <1>2, <2>3, <2>4
<1>5. ASSUME NEW h \in Addr, FlushContacts(h) PROVE WorkOK' /\ OneOwner'
  <2>1. Flush(h, FALSE) \in Seq(Plains)
    BY FlushPlain
  <2>2. work' = [work EXCEPT !["script"] = Flush(h, FALSE)]
    BY <1>5 DEF FlushContacts
  <2> QED BY <1>1, <1>2, <2>1, <2>2
<1>6. ASSUME NEW a \in Addr, NEW b \in Addr, NEW mode \in Mode
      PROVE  Do("contact", a, b, mode, 0, 0, TRUE, 1) \in Plains
  BY DEF Do, Plains, Orders, Command, Complete, OnHost, OnPeer, Day
<1>7. ASSUME NEW cli \in Addr, NEW srv \in Addr, NewFlow(cli, srv) PROVE WorkOK' /\ OneOwner'
  <2> DEFINE one == Do("contact", cli, srv, "client", 0, 0, TRUE, 1)
             two == Do("contact", srv, cli, "server", 0, 0, TRUE, 1)
             p == <<one, two>>
  <2>1. one \in Plains /\ two \in Plains
    BY <1>6 DEF Mode
  <2>2. work' = [work EXCEPT !["packets"] = p]
    BY <1>7 DEF NewFlow
  <2> HIDE DEF one, two
  <2>3. p \in Seq(Plains)
    BY <2>1
  <2> HIDE DEF p
  <2> QED BY <1>1, <1>2, <2>2, <2>3
<1>8. ASSUME NEW s \in Addr, NEW cli \in Addr, NEW track \in BOOLEAN, AggregateInfo(s, cli, track)
      PROVE  WorkOK' /\ OneOwner'
  <2> DEFINE one == Do("contact", s, cli, "client", 0, 0, TRUE, 1)
             p == (IF serial[s] = 0 THEN Call("serial", s) ELSE <<>>) \o <<one>>
  <2>1. one \in Plains /\ Call("serial", s) \in Seq(Plains)
    BY <1>6, CallPlain DEF Mode
  <2>2. work' = [work EXCEPT !["packets"] = p]
    BY <1>8 DEF AggregateInfo
  <2> HIDE DEF one
  <2>3. p \in Seq(Plains)
    BY <1>1, <2>1
  <2> HIDE DEF p
  <2> QED BY <1>1, <1>2, <2>2, <2>3
<1> QED BY <1>3, <1>4, <1>5, <1>7, <1>8

\* The dump forgets numbers and gives none; midnight gives none.
LEMMA DumpOwners ==
  ASSUME ContactsInv, BeginDump \/ DumpKey \/ EndDump \/ Midnight \/ UNCHANGED vars
  PROVE  WorkOK' /\ OneOwner'
<1>1. WorkOK /\ OneOwner /\ UNCHANGED <<work, serial, nextId, reg>>
  BY DEF ContactsInv, BeginDump, DumpKey, EndDump, Midnight, vars, memory, store
<1>2. WorkOK' /\ \A u \in Thread, h \in Addr : Holding(u, h)' => Holding(u, h)
  BY <1>1 DEF WorkOK, Holding
<1>3. CASE UNCHANGED <<ids, names>>
  BY <1>1, <1>2, <1>3, NoNewHolder
<1>4. CASE EndDump
  <2>1. /\ ids' = [ids EXCEPT ![1] = [h \in Addr |-> 0]] /\ names' = [names EXCEPT ![1] = <<>>]
        /\ DOMAIN names = Day /\ ids \in [Day -> [Addr -> 0..nextId]]
    BY <1>4 DEF EndDump, ContactsInv, StoreOK, TypeOK
  <2>2. ASSUME NEW d \in Day, NEW h \in Addr, ids'[d][h] \in 1..nextId
        PROVE  Owns(h, ids'[d][h])
    <3>1. ids'[d][h] = ids[d][h]
      BY <2>1, <2>2
    <3> QED BY <3>1, OwnNumbers
  <2>3. ASSUME NEW d \in Day, NEW h \in Addr, NEW i \in DOMAIN names'[d], names'[d][i] = h
        PROVE  Owns(h, i)
    <3>1. d # 1 /\ names'[d] = names[d]
      BY <2>1, <2>3
    <3> QED BY <2>3, <3>1, OwnNumbers
  <2> QED BY <1>1, <1>2, <2>2, <2>3, OwnNumbers, HeldNumbers, OwnersStay
<1> QED BY <1>3, <1>4 DEF BeginDump, DumpKey, Midnight, vars, store
-------------------------------------------------------------------------------
(* Types *)

\* A contact or an eviction writes a slot, a flush or the end of a host all of them.
LEMMA SlotsTyped ==
  ASSUME ContactsInv, NEW t \in Thread, Step(t)
  PROVE  slots' \in [Addr -> [Mode -> [1..Slots -> Slot]]]
<1> DEFINE c == Head(work[t])
           Array == [1..Slots -> Slot]
<1>1. c \in Orders /\ slots \in [Addr -> [Mode -> Array]]
  BY Popped DEF ContactsInv, WorkOK, TypeOK, Step
<1>2. CASE IncrIPContacts(t) /\ slots' # slots
  <2> DEFINE array == slots[c.host][c.mode]
             i == Min(Room(array, c.peer))
  <2>1. c.cmd = "contact" /\ c.host \in Addr /\ c.mode \in Mode /\ c.peer \in Addr
    BY <1>1, <1>2 DEF IncrIPContacts, Orders, Command, Complete, OnHost, OnPeer
  <2>2. Room(array, c.peer) # {} /\ slots' = [slots EXCEPT ![c.host][c.mode] = PutContact(array, c.peer)]
    BY <1>2 DEF IncrIPContacts
  <2>3. array \in Array
    BY <1>1, <2>1
  <2>4. i \in 1..Slots
    BY <2>2, RoomSlot
  <2>5. PutContact(array, c.peer) = [array EXCEPT ![i] = [peer |-> c.peer, n |-> array[i].n + 1]]
    BY DEF PutContact
  <2> HIDE DEF i
  <2>6. [peer |-> c.peer, n |-> array[i].n + 1] \in Slot
    <3> HIDE DEF array
    <3>1. array[i].n \in Nat
      BY <2>3, <2>4 DEF Slot
    <3>2. array[i].n + 1 \in Nat
      BY <3>1
    <3> QED BY <2>1, <3>2 DEF Slot
  <2>7. PutContact(array, c.peer) \in Array
    BY <2>3, <2>4, <2>5, <2>6
  <2> HIDE DEF array, Array
  <2>8. slots' \in [Addr -> [Mode -> Array]]
    BY <1>1, <2>1, <2>2, <2>7
  <2> QED BY <2>8 DEF Array
<1>3. CASE ReplaceSlot(t)
  <2>1. /\ c.cmd = "replace" /\ c.host \in Addr /\ c.mode \in Mode /\ c.peer \in Addr /\ c.slot \in 1..Slots
        /\ slots' = [slots EXCEPT ![c.host][c.mode][c.slot] = [peer |-> c.peer, n |-> 1]]
    BY <1>1, <1>3 DEF ReplaceSlot, Orders, Command, Complete, OnHost, OnPeer
  <2>2. [peer |-> c.peer, n |-> 1] \in Slot
    BY <2>1 DEF Slot
  <2> QED BY <1>1, <2>1, <2>2
<1>4. CASE PurgeAll(t) \/ FreeHost(t)
  <2> DEFINE none == [mode \in Mode |-> [i \in 1..Slots |-> Empty]]
  <2>1. slots' = [slots EXCEPT ![c.host] = none]
    BY <1>4 DEF PurgeAll, FreeHost
  <2>2. Empty \in Slot
    BY DEF Empty, Slot
  <2>3. none \in [Mode -> Array]
    BY <2>2
  <2> HIDE DEF none
  <2> QED BY <1>1, <2>1, <2>3
<1>5. CASE UNCHANGED slots
  BY <1>1, <1>5
<1> QED BY <1>2, <1>3, <1>4, <1>5 DEF Step, DumpHostContacts, DbDumpAllHosts, HostSerial, OwnSerial,
     LinkHost, LookUp, IncrKey, SetForth, SetBack, IncrHostContacts, memory

\* Numbers stay within those that were given out.
LEMMA NumbersTyped ==
  ASSUME ContactsInv, NEW t \in Thread, Step(t)
  PROVE  /\ nextId' \in Nat /\ reg' \in [Thread -> 0..nextId']
         /\ serial' \in [Addr -> 0..nextId'] /\ ids' \in [Day -> [Addr -> 0..nextId']]
<1> DEFINE c == Head(work[t])
<1>1. /\ c \in Orders /\ nextId \in Nat /\ reg \in [Thread -> 0..nextId]
      /\ serial \in [Addr -> 0..nextId] /\ ids \in [Day -> [Addr -> 0..nextId]]
  BY Popped DEF ContactsInv, WorkOK, TypeOK, StoreOK, Step
<1>2. CASE HostSerial(t)
  <2>1. /\ UNCHANGED <<serial, ids, nextId>> /\ c.host \in Addr
        /\ reg' = [reg EXCEPT ![t] = serial[c.host]] \/ UNCHANGED reg
    BY <1>1, <1>2 DEF HostSerial, memory, store, Orders, Complete, OnHost
  <2> QED BY <1>1, <2>1
<1>3. CASE OwnSerial(t) \/ FreeHost(t)
  <2>1. /\ UNCHANGED <<ids, nextId, reg>>
        /\ serial' = [serial EXCEPT ![c.host] = reg[t]] \/ serial' = [serial EXCEPT ![c.host] = 0]
    BY <1>3 DEF OwnSerial, FreeHost, store
  <2> QED BY <1>1, <2>1
<1>4. CASE LookUp(t)
  <2>1. /\ UNCHANGED <<serial, ids, nextId>> /\ c.peer \in Addr /\ c.day \in Day
        /\ reg' = [reg EXCEPT ![t] = ids[c.day][c.peer]] \/ UNCHANGED reg
    BY <1>1, <1>4 DEF LookUp, memory, store, Orders, Command, Complete, OnPeer
  <2> QED BY <1>1, <2>1
<1>5. CASE IncrKey(t)
  <2>1. /\ UNCHANGED <<serial, ids>> /\ nextId' = nextId + 1
        /\ reg' = [reg EXCEPT ![t] = nextId + 1]
    BY <1>5 DEF IncrKey, memory
  <2>2. 0..nextId \subseteq 0..(nextId + 1) /\ nextId + 1 \in 0..(nextId + 1)
    BY <1>1
  <2> QED BY <1>1, <2>1, <2>2
<1>6. CASE SetForth(t)
  <2>1. UNCHANGED <<serial, nextId, reg>> /\ ids' = [ids EXCEPT ![c.day][c.peer] = reg[t]]
    BY <1>6 DEF SetForth, memory
  <2> QED BY <1>1, <2>1
<1>7. CASE UNCHANGED <<serial, ids, nextId, reg>>
  BY <1>1, <1>7
<1> QED BY <1>2, <1>3, <1>4, <1>5, <1>6, <1>7 DEF Step, IncrIPContacts, ReplaceSlot, DumpHostContacts,
     DbDumpAllHosts, PurgeAll, LinkHost, SetBack, IncrHostContacts, memory, store

\* Hosts come and go whole; what is kept of a name goes with it.
LEMMA HostsTyped ==
  ASSUME ContactsInv, NEW t \in Thread, Step(t)
  PROVE  alive' \subseteq Addr /\ tracked' \subseteq alive' \cap Aggregated /\ overlap' \subseteq Addr
<1> DEFINE c == Head(work[t])
<1>1. /\ c \in Orders /\ alive \subseteq Addr /\ tracked \subseteq alive \cap Aggregated
      /\ overlap \subseteq Addr
  BY Popped DEF ContactsInv, WorkOK, TypeOK, Step
<1>2. CASE LinkHost(t) \/ FreeHost(t)
  <2>1. /\ c.host \in Addr /\ UNCHANGED overlap
        /\ \/ alive' = alive \cup {c.host} /\ UNCHANGED tracked
           \/ alive' = alive \ {c.host} /\ tracked' = tracked \ {c.host}
    BY <1>1, <1>2 DEF LinkHost, FreeHost, Orders, Complete, OnHost
  <2> QED BY <1>1, <2>1
<1>3. CASE UNCHANGED <<alive, tracked>> /\ (Touch(t, c.host) \/ UNCHANGED overlap) /\ c.host \in Addr
  BY <1>1, <1>3 DEF Touch
<1>4. CASE UNCHANGED <<alive, tracked, overlap>>
  BY <1>1, <1>4
<1>5. CASE IncrIPContacts(t) \/ ReplaceSlot(t) \/ PurgeAll(t)
  <2>1. c.host \in Addr /\ UNCHANGED <<alive, tracked>> /\ (Touch(t, c.host) \/ UNCHANGED overlap)
    BY <1>1, <1>5 DEF IncrIPContacts, ReplaceSlot, PurgeAll, Orders, Complete, OnHost
  <2> QED BY <1>3, <2>1
<1> QED BY <1>2, <1>4, <1>5 DEF Step, DumpHostContacts, DbDumpAllHosts, HostSerial, OwnSerial, LookUp,
     IncrKey, SetForth, SetBack, IncrHostContacts, memory

NamesTyped == \A d \in Day : \A i \in DOMAIN names[d] : i \in 1..nextId /\ names[d][i] \in Addr
CountsTyped == \A d \in Day : \A e \in DOMAIN counts[d] : counts[d][e] \in Nat

LEMMA HashesTyped ==
  ASSUME ContactsInv, NEW t \in Thread, Step(t)
  PROVE  NamesTyped' /\ CountsTyped' /\ StoreOK'
<1> DEFINE c == Head(work[t])
<1>1. /\ c \in Orders /\ StoreOK /\ reg \in [Thread -> 0..nextId] /\ OneOwner /\ work[t] # <<>>
  BY Popped DEF ContactsInv, WorkOK, TypeOK, Step
<1>2. NamesTyped /\ CountsTyped
  BY DEF ContactsInv, TypeOK, NamesTyped, CountsTyped
<1>3. CASE UNCHANGED <<names, counts, nextId, rows>>
  BY <1>1, <1>2, <1>3 DEF NamesTyped, CountsTyped, StoreOK
<1>4. CASE IncrKey(t)
  <2>1. UNCHANGED <<names, counts, rows>> /\ nextId' = nextId + 1
    BY <1>4 DEF IncrKey, dump
  <2>2. nextId' \in Nat /\ 1..nextId \subseteq 1..nextId'
    BY <1>1, <2>1 DEF StoreOK
  <2> QED BY <1>1, <1>2, <2>1, <2>2 DEF NamesTyped, CountsTyped, StoreOK
<1>5. CASE SetBack(t)
  <2>1. /\ c.cmd = "back" /\ c.peer \in Addr /\ c.day \in Day /\ UNCHANGED <<counts, nextId, rows>>
        /\ names' = [names EXCEPT ![c.day] = HashSet(names[c.day], reg[t], c.peer)]
    BY <1>1, <1>5 DEF SetBack, Orders, Command, Complete, OnPeer
  <2>2. reg[t] \in 1..nextId
    BY <1>1, <2>1, HeldNumbers DEF Holding, StoreOK
  <2>3. DOMAIN names = Day
    BY <1>1 DEF StoreOK
  <2>4. /\ DOMAIN names' = Day /\ names'[c.day] = HashSet(names[c.day], reg[t], c.peer)
        /\ \A d \in Day : d # c.day => names'[d] = names[d]
    BY <2>1, <2>3
  <2>5. ASSUME NEW d \in Day, NEW i \in DOMAIN names'[d]
        PROVE  i \in 1..nextId /\ names'[d][i] \in Addr
    <3>1. CASE d = c.day
      <4>1. \/ i = reg[t] /\ names'[d][i] = c.peer
            \/ i \in DOMAIN names[d] /\ names'[d][i] = names[d][i]
        BY <2>4, <2>5, <3>1 DEF HashSet
      <4> QED BY <1>2, <2>1, <2>2, <4>1 DEF NamesTyped
    <3>2. CASE d # c.day
      BY <1>2, <2>4, <2>5, <3>2 DEF NamesTyped
    <3> QED BY <3>1, <3>2
  <2>6. NamesTyped'
    BY <2>1, <2>5 DEF NamesTyped
  <2>7. CountsTyped' /\ StoreOK'
    BY <1>1, <1>2, <2>1, <2>4 DEF CountsTyped, StoreOK
  <2> QED BY <2>6, <2>7
<1>6. CASE IncrHostContacts(t)
  <2> DEFINE n == slots[c.host][c.mode][c.slot].n
             key == IF c.cmd = "count" THEN c.me ELSE reg[t]
             field == IF c.cmd = "count" THEN reg[t] ELSE c.me
             entry == <<key, c.asClient, field>>
             old == counts[c.day]
             value == (IF entry \in DOMAIN old THEN old[entry] ELSE 0) + n
  <2>1. /\ c.host \in Addr /\ c.mode \in Mode /\ c.slot \in 1..Slots /\ c.day \in Day
        /\ UNCHANGED <<names, nextId, rows>> /\ counts' = [counts EXCEPT ![c.day] = HashSet(old, entry, value)]
    BY <1>1, <1>6 DEF IncrHostContacts, Orders, Command, Complete, OnHost
  <2> HIDE DEF entry
  <2>2. n \in Nat
    <3>1. slots \in [Addr -> [Mode -> [1..Slots -> Slot]]]
      BY DEF ContactsInv, TypeOK
    <3>2. c.host \in Addr /\ c.mode \in Mode /\ c.slot \in 1..Slots
      BY <2>1
    <3> HIDE DEF c, n
    <3>3. slots[c.host] \in [Mode -> [1..Slots -> Slot]]
      BY <3>1, <3>2
    <3>4. slots[c.host][c.mode] \in [1..Slots -> Slot]
      BY <3>2, <3>3
    <3>5. slots[c.host][c.mode][c.slot] \in Slot
      BY <3>2, <3>4
    <3> QED BY <3>5 DEF Slot, n
  <2> HIDE DEF n
  <2>3. DOMAIN counts = Day
    BY <1>1 DEF StoreOK
  <2>4. value \in Nat
    <3>1. entry \in DOMAIN old => old[entry] \in Nat
      BY <1>2, <2>1 DEF CountsTyped
    <3> QED BY <2>2, <3>1
  <2> HIDE DEF value
  <2>5. /\ DOMAIN counts' = Day /\ counts'[c.day] = HashSet(counts[c.day], entry, value)
        /\ \A d \in Day : d # c.day => counts'[d] = counts[d]
    BY <2>1, <2>3
  <2>6. ASSUME NEW d \in Day, NEW e \in DOMAIN counts'[d]
        PROVE  counts'[d][e] \in Nat
    <3>1. CASE d = c.day
      <4>1. \/ counts'[d][e] = value
            \/ e \in DOMAIN counts[d] /\ counts'[d][e] = counts[d][e]
        BY <2>5, <2>6, <3>1 DEF HashSet
      <4> QED BY <1>2, <2>4, <4>1 DEF CountsTyped
    <3>2. CASE d # c.day
      BY <1>2, <2>5, <2>6, <3>2 DEF CountsTyped
    <3> QED BY <3>1, <3>2
  <2>7. CountsTyped'
    BY <2>6 DEF CountsTyped
  <2>8. NamesTyped' /\ StoreOK'
    BY <1>1, <1>2, <2>1, <2>5 DEF NamesTyped, StoreOK
  <2> QED BY <2>7, <2>8
<1> QED BY <1>3, <1>4, <1>5, <1>6 DEF Step, IncrIPContacts, ReplaceSlot, DumpHostContacts, DbDumpAllHosts,
     PurgeAll, HostSerial, OwnSerial, LinkHost, FreeHost, LookUp, SetForth, memory, store, dump

\* The steps that are no command of a thread.
LEMMA OthersTyped ==
  ASSUME ContactsInv, ~ \E t \in Thread : Step(t), [Next]_vars
  PROVE  TypeOK' /\ StoreOK'
<1>1. TypeOK /\ StoreOK
  BY DEF ContactsInv
<1>2. CASE UNCHANGED <<alive, slots, serial, store, reg, rows, day, overlap>>
  <2>1. tracked' \subseteq alive \cap Aggregated => TypeOK' /\ StoreOK'
    BY <1>1, <1>2 DEF TypeOK, StoreOK, store
  <2>2. CASE \E s, cli \in Addr, track \in BOOLEAN : AggregateInfo(s, cli, track)
    BY <1>1, <2>1, <2>2 DEF AggregateInfo, TypeOK
  <2>3. CASE UNCHANGED tracked
    BY <1>1, <2>1, <2>3 DEF TypeOK
  <2> QED BY <2>2, <2>3 DEF Next, NewHost, RetireHost, FlushContacts, NewFlow, BeginDump, DumpKey,
       EndDump, Midnight, memory, vars
<1>3. CASE Midnight
  BY <1>1, <1>3 DEF Midnight, TypeOK, StoreOK, memory, store, dump, Day
<1>4. CASE BeginDump
  BY <1>1, <1>4 DEF BeginDump, TypeOK, StoreOK, memory, store
<1>5. CASE DumpKey
  <2>1. PICK key : counts' = [counts EXCEPT ![1] =
                       [e \in { x \in DOMAIN @ : <<x[1], x[2]>> # key } |-> @[e]]]
    BY <1>5 DEF DumpKey
  <2>2. /\ UNCHANGED <<memory, ids, names, nextId, day, reg, overlap>>
        /\ DOMAIN rows' = DOMAIN rows
    BY <1>5 DEF DumpKey
  <2>3. DOMAIN counts' = Day /\ \A d \in Day : \A e \in DOMAIN counts'[d] :
          e \in DOMAIN counts[d] /\ counts'[d][e] = counts[d][e]
    BY <1>1, <2>1 DEF StoreOK
  <2> QED BY <1>1, <2>2, <2>3 DEF TypeOK, StoreOK, memory
<1>6. CASE EndDump
  <2>1. /\ ids' = [ids EXCEPT ![1] = [h \in Addr |-> 0]] /\ names' = [names EXCEPT ![1] = <<>>]
        /\ UNCHANGED <<memory, counts, nextId, day, reg, overlap>> /\ DOMAIN rows' = DOMAIN rows
    BY <1>6 DEF EndDump
  <2>2. DOMAIN names' = Day /\ \A d \in Day : \A i \in DOMAIN names'[d] :
          i \in DOMAIN names[d] /\ names'[d][i] = names[d][i]
    BY <1>1, <2>1 DEF StoreOK
  <2>3. ids' \in [Day -> [Addr -> 0..nextId]]
    <3> DEFINE none == [h \in Addr |-> 0]
    <3>1. none \in [Addr -> 0..nextId]
      BY <1>1 DEF StoreOK
    <3>2. ids \in [Day -> [Addr -> 0..nextId]] /\ ids' = [ids EXCEPT ![1] = none]
      BY <1>1, <2>1 DEF TypeOK
    <3> HIDE DEF none
    <3> QED BY <3>1, <3>2
  <2> QED BY <1>1, <2>1, <2>2, <2>3 DEF TypeOK, StoreOK, memory
<1> QED BY <1>2, <1>3, <1>4, <1>5, <1>6 DEF Next, NewHost, RetireHost, FlushContacts, NewFlow,
     AggregateInfo, memory, store, dump, vars

LEMMA StepTyped ==
  ASSUME ContactsInv, NEW t \in Thread, Step(t)
  PROVE  TypeOK' /\ StoreOK'
<1>1. day' = day /\ day \in Day
  BY DEF ContactsInv, TypeOK, Step, IncrIPContacts, ReplaceSlot, DumpHostContacts, DbDumpAllHosts, PurgeAll,
         HostSerial, OwnSerial, LinkHost, FreeHost, LookUp, IncrKey, SetForth, SetBack, IncrHostContacts
<1> QED BY <1>1, SlotsTyped, NumbersTyped, HostsTyped, HashesTyped DEF TypeOK, NamesTyped, CountsTyped

-------------------------------------------------------------------------------
(* The dump of a day *)

\* A command writes a key of a day that is dumped only as a late one.
LEMMA StepDump ==
  ASSUME ContactsInv, NEW t \in Thread, Step(t)
  PROVE  DumpOK'
<1> DEFINE c == Head(work[t])
<1>1. /\ DumpOK /\ StoreOK /\ c \in Orders /\ work[t] # <<>>
  BY Popped DEF ContactsInv, WorkOK, Step
<1>2. UNCHANGED <<day, todo, rows>>
  BY DEF Step, IncrIPContacts, ReplaceSlot, DumpHostContacts, DbDumpAllHosts, PurgeAll, HostSerial,
         OwnSerial, LinkHost, FreeHost, LookUp, IncrKey, SetForth, SetBack, IncrHostContacts, dump
<1>3. CASE UNCHANGED <<names, counts>> /\ late \subseteq late'
  BY <1>1, <1>2, <1>3 DEF DumpOK
<1>4. CASE SetBack(t)
  <2>1. /\ c.day \in Day /\ names' = [names EXCEPT ![c.day] = HashSet(names[c.day], reg[t], c.peer)]
        /\ late' = IF Dumping(c.day) THEN late \cup {reg[t]} ELSE late
        /\ UNCHANGED counts
    BY <1>1, <1>4 DEF SetBack, Orders, Command
  <2>2. late \subseteq late'
    BY <2>1
  <2>3. ASSUME rows.done PROVE DOMAIN names'[1] \subseteq late'
    <3>1. rows.begun /\ day = 2 /\ DOMAIN names[1] \subseteq late /\ DOMAIN names = Day
      BY <1>1, <2>3 DEF DumpOK, StoreOK
    <3>2. CASE c.day = 1
      <4>1. late' = late \cup {reg[t]}
        BY <2>1, <3>1, <3>2 DEF Dumping
      <4>2. DOMAIN names'[1] = DOMAIN names[1] \cup {reg[t]}
        BY <2>1, <3>1, <3>2 DEF HashSet
      <4> QED BY <3>1, <4>1, <4>2
    <3>3. CASE c.day # 1
      <4>1. names'[1] = names[1]
        BY <2>1, <3>1, <3>3 DEF Day
      <4> QED BY <2>2, <3>1, <4>1
    <3> QED BY <3>2, <3>3
  <2> QED BY <1>1, <1>2, <2>1, <2>2, <2>3 DEF DumpOK
<1>5. CASE IncrHostContacts(t)
  <2> DEFINE key == IF c.cmd = "count" THEN c.me ELSE reg[t]
             field == IF c.cmd = "count" THEN reg[t] ELSE c.me
             entry == <<key, c.asClient, field>>
             value == (IF entry \in DOMAIN counts[c.day] THEN counts[c.day][entry] ELSE 0)
                      + slots[c.host][c.mode][c.slot].n
  <2>1. /\ c.day \in Day /\ counts' = [counts EXCEPT ![c.day] = HashSet(counts[c.day], entry, value)]
        /\ late' = IF Dumping(c.day) THEN late \cup {key} ELSE late
        /\ UNCHANGED names
    BY <1>1, <1>5 DEF IncrHostContacts, Orders, Command
  <2>2. entry[1] = key /\ late \subseteq late'
    BY <2>1
  <2> HIDE DEF entry, value, key
  <2>3. ASSUME rows.begun, NEW e \in DOMAIN counts'[1]
        PROVE  <<e[1], e[2]>> \in todo \/ e[1] \in late'
    <3>1. /\ day = 2 /\ DOMAIN counts = Day
          /\ \A x \in DOMAIN counts[1] : <<x[1], x[2]>> \in todo \/ x[1] \in late
      BY <1>1, <2>3 DEF DumpOK, StoreOK
    <3>2. CASE c.day = 1
      <4>1. late' = late \cup {key}
        BY <2>1, <2>3, <3>1, <3>2 DEF Dumping
      <4>2. DOMAIN counts'[1] = DOMAIN counts[1] \cup {entry}
        BY <2>1, <3>1, <3>2 DEF HashSet
      <4> QED BY <2>2, <2>3, <3>1, <4>1, <4>2
    <3>3. CASE c.day # 1
      <4>1. counts'[1] = counts[1]
        BY <2>1, <3>1, <3>3 DEF Day
      <4> QED BY <2>2, <2>3, <3>1, <4>1
    <3> QED BY <3>2, <3>3
  <2> QED BY <1>1, <1>2, <2>1, <2>2, <2>3 DEF DumpOK
<1>6. CASE SetForth(t)
  BY <1>1, <1>2, <1>6 DEF SetForth, DumpOK
<1> QED BY <1>3, <1>4, <1>5, <1>6 DEF Step, IncrIPContacts, ReplaceSlot, DumpHostContacts, DbDumpAllHosts,
     PurgeAll, HostSerial, OwnSerial, LinkHost, FreeHost, LookUp, IncrKey, store, dump

LEMMA OthersDump ==
  ASSUME ContactsInv, ~ \E t \in Thread : Step(t), [Next]_vars
  PROVE  DumpOK'
<1>1. DumpOK /\ StoreOK /\ TypeOK
  BY DEF ContactsInv
<1>2. CASE UNCHANGED <<names, counts, day, dump>>
  BY <1>1, <1>2 DEF DumpOK, dump
<1>3. CASE Midnight
  BY <1>1, <1>3 DEF Midnight, DumpOK, store, dump
<1>4. CASE BeginDump
  <2>1. /\ day = 2 /\ ~rows.begun /\ todo' = { <<e[1], e[2]>> : e \in DOMAIN counts[1] }
        /\ rows' = [rows EXCEPT !.begun = TRUE] /\ UNCHANGED <<day, names, counts, late>>
    BY <1>4 DEF BeginDump, Key, store
  <2>2. rows'.begun /\ rows'.done = rows.done /\ ~rows.done
    BY <1>1, <2>1 DEF StoreOK, DumpOK
  <2> QED BY <2>1, <2>2 DEF DumpOK
<1>5. CASE DumpKey
  <2>1. PICK key \in todo :
          /\ counts' = [counts EXCEPT ![1] =
               [e \in { x \in DOMAIN @ : <<x[1], x[2]>> # key } |-> @[e]]]
          /\ todo' = todo \ {key}
    BY <1>5 DEF DumpKey
  <2>2. UNCHANGED <<names, day, late>> /\ rows'.begun = rows.begun /\ rows'.done = rows.done
    BY <1>1, <1>5 DEF DumpKey, StoreOK
  <2>3. DOMAIN counts'[1] = { x \in DOMAIN counts[1] : <<x[1], x[2]>> # key }
    BY <1>1, <2>1 DEF StoreOK, Day
  <2> QED BY <1>1, <2>1, <2>2, <2>3 DEF DumpOK
<1>6. CASE EndDump
  <2>1. /\ rows.begun /\ todo = {} /\ rows' = [rows EXCEPT !.done = TRUE]
        /\ names' = [names EXCEPT ![1] = <<>>] /\ UNCHANGED <<counts, day, todo, late>>
    BY <1>6 DEF EndDump
  <2>2. rows'.begun = rows.begun /\ DOMAIN names'[1] = {}
    <3>1. DOMAIN names = Day /\ DOMAIN rows = {"begun", "done", "contacts", "hosts"} /\ 1 \in Day
      BY <1>1 DEF StoreOK, Day
    <3>2. names'[1] = <<>>
      BY <2>1, <3>1
    <3>3. rows'.begun = rows.begun
      BY <2>1, <3>1
    <3> QED BY <3>2, <3>3
  <2> QED BY <1>1, <2>1, <2>2 DEF DumpOK
<1> QED BY <1>2, <1>3, <1>4, <1>5, <1>6 DEF Next, NewHost, RetireHost, FlushContacts, NewFlow,
     AggregateInfo, memory, store, dump, vars

-------------------------------------------------------------------------------
(* Theorems about contacts *)

\* The hosts present have each a number of an earlier day.
LEMMA InitContacts ==
  ASSUME Init
  PROVE  ContactsInv
<1>1. PICK h \in Present \ Aggregated, k \in 0..Slots :
        \E peers \in Injection(1..k, Addr \ (Aggregated \cup {h})) :
          /\ slots = [g \in Addr |-> [mode \in Mode |-> [i \in 1..Slots |->
                    IF g = h /\ mode = "client" /\ i <= k
                    THEN [peer |-> peers[i], n |-> 1] ELSE Empty]]]
          /\ met = [pair \in Addr \X Addr |->
                   IF pair[1] = h /\ \E i \in 1..k : pair[2] = peers[i] THEN 1 ELSE 0]
  BY Zenon DEF Init
<1>2. slots \in [Addr -> [Mode -> [1..Slots -> Slot]]]
  <2>1. PICK peers \in Injection(1..k, Addr \ (Aggregated \cup {h})) :
          slots = [g \in Addr |-> [mode \in Mode |-> [i \in 1..Slots |->
                    IF g = h /\ mode = "client" /\ i <= k
                    THEN [peer |-> peers[i], n |-> 1] ELSE Empty]]]
    BY <1>1
  <2>2. peers \in [1..k -> Addr]
    BY DEF Injection
  <2>3. ASSUME NEW g \in Addr, NEW mode \in Mode, NEW i \in 1..Slots
        PROVE  (IF g = h /\ mode = "client" /\ i <= k
                THEN [peer |-> peers[i], n |-> 1] ELSE Empty) \in Slot
    <3>1. i <= k => peers[i] \in Addr
      BY <2>2, ContactsAssumption
    <3> QED BY <3>1 DEF Empty, Slot
  <2> QED BY <2>1, <2>3
<1>3. nextId \in Nat
  <2>1. IsFiniteSet(Present \ Aggregated)
    BY ContactsAssumption, FS_Subset
  <2> QED BY <2>1, FS_CardinalityType DEF Init
<1>4. PICK number \in Bijection(Present \ Aggregated, 1..nextId) :
        /\ serial = [g \in Addr |-> IF g \in Present \ Aggregated THEN number[g] ELSE 0]
        /\ ids = [d \in Day |-> [g \in Addr |-> IF d = 1 /\ g \in Confirmed THEN number[g] ELSE 0]]
        /\ names = [d \in Day |-> IF d = 2 THEN <<>> ELSE
                      [i \in { number[g] : g \in Confirmed } |->
                         CHOOSE g \in Confirmed : number[g] = i]]
  BY DEF Init
<1>5. /\ number \in [Present \ Aggregated -> 1..nextId]
      /\ \A a, b \in Present \ Aggregated : number[a] = number[b] => a = b
  BY DEF Bijection, Injection, IsInjective
<1>6. Confirmed \subseteq Present \ Aggregated /\ Present \ Aggregated \subseteq Addr
  BY ContactsAssumption
<1>7. DOMAIN names = Day
  BY <1>4
<1>8. ASSUME NEW d \in Day, NEW i \in DOMAIN names[d]
      PROVE  names[d][i] \in Confirmed /\ number[names[d][i]] = i
  <2>1. d # 2
    BY <1>4, <1>8
  <2>2. names[d] = [j \in { number[g] : g \in Confirmed } |-> CHOOSE g \in Confirmed : number[g] = j]
    BY <1>4, <2>1
  <2>3. i \in { number[g] : g \in Confirmed } /\ names[d][i] = CHOOSE g \in Confirmed : number[g] = i
    BY <1>8, <2>2
  <2>4. \E g \in Confirmed : number[g] = i
    BY <2>3
  <2> QED BY <2>3, <2>4
<1>9. /\ serial \in [Addr -> 0..nextId] /\ ids \in [Day -> [Addr -> 0..nextId]]
      /\ \A d \in Day : \A i \in DOMAIN names[d] : i \in 1..nextId /\ names[d][i] \in Addr
  <2>1. ASSUME NEW g \in Addr
        PROVE  (IF g \in Present \ Aggregated THEN number[g] ELSE 0) \in 0..nextId
    BY <1>3, <1>5
  <2>2. ASSUME NEW d \in Day, NEW g \in Addr
        PROVE  (IF d = 1 /\ g \in Confirmed THEN number[g] ELSE 0) \in 0..nextId
    BY <1>3, <1>5, <1>6
  <2>3. \A d \in Day : \A i \in DOMAIN names[d] : i \in 1..nextId /\ names[d][i] \in Addr
    BY <1>5, <1>6, <1>8
  <2> QED BY <1>4, <2>1, <2>2, <2>3
<1>10. TypeOK /\ StoreOK
  <2>1. /\ alive = Present /\ tracked = {} /\ overlap = {} /\ counts = [d \in Day |-> <<>>] /\ day = 1
        /\ reg = [t \in Thread |-> 0]
        /\ rows = [begun |-> FALSE, done |-> FALSE, contacts |-> {}, hosts |-> {}]
    BY DEF Init
  <2>2. Present \subseteq Addr
    BY ContactsAssumption
  <2>3. DOMAIN counts = Day /\ \A d \in Day : DOMAIN counts[d] = {}
    BY <2>1
  <2>4. StoreOK
    BY <1>3, <1>7, <2>1, <2>3 DEF StoreOK
  <2>5. reg \in [Thread -> 0..nextId] /\ day \in Day
    BY <1>3, <2>1 DEF Day
  <2>6. /\ alive \subseteq Addr /\ tracked \subseteq alive \cap Aggregated /\ overlap \subseteq Addr
        /\ \A d \in Day : \A e \in DOMAIN counts[d] : counts[d][e] \in Nat
    BY <2>1, <2>2, <2>3
  <2> QED BY <1>2, <1>9, <2>4, <2>5, <2>6 DEF TypeOK
<1>11. WorkOK /\ \A t \in Thread, g \in Addr : ~Holding(t, g)
  <2>1. work = [t \in Thread |-> <<>>]
    BY DEF Init
  <2>2. work \in [Thread -> Seq(Orders)] /\ \A t \in Thread : work[t] = <<>>
    BY <2>1
  <2>3. Chained(<<>>)
    BY DEF Chained
  <2> QED BY <2>2, <2>3 DEF WorkOK, Holding
<1>12. ASSUME NEW g \in Addr, NEW i \in 1..nextId, Owns(g, i)
       PROVE  g \in Present \ Aggregated /\ number[g] = i
  <2>1. CASE serial[g] = i
    BY <1>3, <1>4, <2>1
  <2>2. ASSUME NEW d \in Day, ids[d][g] = i PROVE g \in Present \ Aggregated /\ number[g] = i
    BY <1>3, <1>4, <1>6, <2>2
  <2>3. ASSUME NEW d \in Day, i \in DOMAIN names[d], names[d][i] = g
        PROVE  g \in Present \ Aggregated /\ number[g] = i
    BY <1>6, <1>8, <2>3
  <2> QED BY <1>11, <1>12, <2>1, <2>2, <2>3 DEF Owns
<1>13. OneOwner
  BY <1>5, <1>11, <1>12 DEF OneOwner
<1>14. DumpOK
  BY DEF Init, DumpOK
<1> QED BY <1>10, <1>11, <1>13, <1>14 DEF ContactsInv

LEMMA ContactsInvariance == Spec => []ContactsInv
<1>1. ContactsInv /\ [Next]_vars => ContactsInv'
  <2> SUFFICES ASSUME ContactsInv, [Next]_vars
               PROVE  ContactsInv'
    OBVIOUS
  <2>1. CASE \E t \in Thread : Step(t)
    BY <2>1, StepTyped, StepOwners, StepDump DEF ContactsInv
  <2>2. CASE ~ \E t \in Thread : Step(t)
    <3>1. TypeOK' /\ StoreOK' /\ DumpOK'
      BY <2>2, OthersTyped, OthersDump
    <3>2. WorkOK' /\ OneOwner'
      BY <2>2, BegunOwners, DumpOwners DEF Next
    <3> QED BY <3>1, <3>2 DEF ContactsInv
  <2> QED BY <2>1, <2>2
<1> QED BY <1>1, InitContacts, PTL DEF Spec

\* Types, with every number in Redis one that was given out.
THEOREM ContactsTyped == Spec => []TypeOK
<1>1. ContactsInv => TypeOK
  BY DEF ContactsInv
<1> QED BY <1>1, ContactsInvariance, PTL

\* Whatever two threads do at once, and whatever replies are lost, a number never
\* stands for two hosts: not in Redis, not in a host, not over days.
THEOREM NumbersStayApart == Spec => []NumbersNameOneHost
<1>1. ContactsInv => NumbersNameOneHost
  <2> SUFFICES ASSUME ContactsInv, NEW h1 \in Addr, NEW h2 \in Addr, NEW i,
                      i \in Named(h1), i \in Named(h2)
               PROVE  h1 = h2
    BY DEF NumbersNameOneHost
  <2>1. nextId \in Nat /\ serial \in [Addr -> 0..nextId] /\ ids \in [Day -> [Addr -> 0..nextId]]
    BY DEF ContactsInv, TypeOK, StoreOK
  <2>2. ASSUME NEW h \in Addr, i \in Named(h)
        PROVE  i \in 1..nextId /\ Owns(h, i)
    BY <2>1, <2>2 DEF Named, NumbersOf, Owns
  <2> QED BY <2>2 DEF ContactsInv, OneOwner
<1> QED BY <1>1, ContactsInvariance, PTL

\* The dump of a day leaves of that day only what a thread that had taken the date
\* before midnight wrote after the keys were listed.
THEOREM DumpForgetsDay == Spec => []DayForgotten
<1>1. ContactsInv => DayForgotten
  BY DEF ContactsInv, DumpOK, DayForgotten
<1> QED BY <1>1, ContactsInvariance, PTL

-------------------------------------------------------------------------------
(* Contacts: the order of the commands of a thread *)

\* What a list holds.
InList(w) == { w[k] : k \in 1..Len(w) }
Left(t) == InList(work[t])
Rest(t) == InList(Tail(work[t]))

\* What may come after a command, and right after it.
Precedes(c, d) ==
  /\ c.cmd \in {"contact", "replace"} => d.cmd = "contact" /\ d.mode = "server"
  /\ c.cmd = "purge" => d.cmd \in {"free", "serial"}
  /\ c.cmd \notin {"free", "link"}

Leads(c, next) ==
  /\ next.cmd = "count" => c.cmd \in {"peer", "back"} /\ c.peer = next.peer
  /\ c.cmd = "forth" => next.cmd = "back" /\ next.peer = c.peer

LineOK(w) ==
  /\ \A k, l \in 1..Len(w) : k < l => Precedes(w[k], w[l])
  /\ \A k \in 1..(Len(w) - 1) : Leads(w[k], w[k + 1])
  /\ w # <<>> => w[Len(w)].cmd # "forth"

Poller == {"contact", "replace", "free", "link"}

LinesOK ==
  /\ \A t \in Thread : LineOK(work[t])
  /\ \A c \in Left("script") : c.cmd \notin Poller

\* A list after another.
LEMMA LineJoined ==
  ASSUME NEW p \in Seq(Orders), NEW r \in Seq(Orders), LineOK(p), LineOK(r),
         \A c \in InList(p), d \in InList(r) : Precedes(c, d),
         p # <<>> /\ r # <<>> => Leads(p[Len(p)], r[1])
  PROVE  LineOK(p \o r) /\ InList(p \o r) = InList(p) \cup InList(r)
<1> DEFINE q == p \o r
<1>1. /\ Len(p) \in Nat /\ Len(r) \in Nat /\ q \in Seq(Orders) /\ Len(q) = Len(p) + Len(r)
      /\ \A k \in 1..Len(p) : q[k] = p[k]
      /\ \A k \in 1..Len(r) : q[Len(p) + k] = r[k]
  OBVIOUS
<1> HIDE DEF q
<1>2. ASSUME NEW k \in 1..Len(q), k > Len(p) PROVE k - Len(p) \in 1..Len(r) /\ q[k] = r[k - Len(p)]
  <2>1. k - Len(p) \in 1..Len(r) /\ Len(p) + (k - Len(p)) = k
    BY <1>1, <1>2
  <2>2. q[Len(p) + (k - Len(p))] = r[k - Len(p)]
    BY <1>1, <2>1
  <2> QED BY <2>1, <2>2
<1>3. InList(q) = InList(p) \cup InList(r)
  <2>1. \A k \in 1..Len(p) : k \in 1..Len(q)
    BY <1>1
  <2>2. \A k \in 1..Len(r) : Len(p) + k \in 1..Len(q)
    BY <1>1
  <2>3. InList(p) \subseteq InList(q)
    BY <1>1, <2>1 DEF InList
  <2>4. InList(r) \subseteq InList(q)
    BY <1>1, <2>2 DEF InList
  <2>5. \A k \in 1..Len(q) : k \in 1..Len(p) \/ k > Len(p)
    BY <1>1
  <2>6. InList(q) \subseteq InList(p) \cup InList(r)
    BY <1>1, <1>2, <2>5 DEF InList
  <2> QED BY <2>3, <2>4, <2>6
<1>4. ASSUME NEW k \in 1..Len(q), NEW l \in 1..Len(q), k < l PROVE Precedes(q[k], q[l])
  <2>1. CASE l <= Len(p)
    <3>1. k \in 1..Len(p) /\ l \in 1..Len(p)
      BY <1>1, <1>4, <2>1
    <3>2. Precedes(p[k], p[l]) /\ q[k] = p[k] /\ q[l] = p[l]
      BY <1>1, <1>4, <3>1 DEF LineOK
    <3> QED BY <3>2
  <2>2. CASE k <= Len(p) /\ l > Len(p)
    <3>1. k \in 1..Len(p) /\ q[k] = p[k]
      BY <1>1, <2>2
    <3>2. l - Len(p) \in 1..Len(r) /\ q[l] = r[l - Len(p)]
      BY <1>2, <2>2
    <3>3. q[k] \in InList(p) /\ q[l] \in InList(r)
      BY <3>1, <3>2 DEF InList
    <3> QED BY <3>3
  <2>3. CASE k > Len(p)
    <3> DEFINE i == k - Len(p)
               j == l - Len(p)
    <3>1. i \in 1..Len(r) /\ j \in 1..Len(r) /\ q[k] = r[i] /\ q[l] = r[j] /\ i < j
      <4>1. l > Len(p) /\ i < j
        BY <1>1, <1>4, <2>3
      <4> QED BY <1>2, <2>3, <4>1
    <3> HIDE DEF i, j
    <3>2. Precedes(r[i], r[j])
      BY <3>1 DEF LineOK
    <3> QED BY <3>1, <3>2
  <2>4. k \in Nat /\ l \in Nat
    OBVIOUS
  <2> QED BY <1>1, <1>4, <2>1, <2>2, <2>3, <2>4
<1>5. ASSUME NEW k \in 1..(Len(q) - 1) PROVE Leads(q[k], q[k + 1])
  <2>1. CASE k < Len(p)
    <3>1. k \in 1..(Len(p) - 1) /\ k \in 1..Len(p) /\ k + 1 \in 1..Len(p)
      BY <1>1, <2>1
    <3>2. Leads(p[k], p[k + 1]) /\ q[k] = p[k] /\ q[k + 1] = p[k + 1]
      BY <1>1, <3>1 DEF LineOK
    <3> QED BY <3>2
  <2>2. CASE k = Len(p)
    <3>1. 1 \in 1..Len(r) /\ k \in 1..Len(p) /\ r # <<>> /\ p # <<>>
      <4>1. Len(r) >= 1 /\ Len(p) >= 1 /\ Len(<<>>) = 0
        BY <1>1, <2>2
      <4>2. 1 \in 1..Len(r) /\ k \in 1..Len(p) /\ Len(r) # 0 /\ Len(p) # 0
        BY <1>1, <2>2, <4>1
      <4> QED BY <4>1, <4>2, Zenon
    <3>2. q[k] = p[Len(p)] /\ q[k + 1] = r[1]
      BY <1>1, <2>2, <3>1
    <3> QED BY <3>1, <3>2
  <2>3. CASE k > Len(p)
    <3> DEFINE j == k - Len(p)
    <3>1. k \in 1..Len(q) /\ k + 1 \in 1..Len(q) /\ k + 1 > Len(p) /\ j \in 1..(Len(r) - 1)
          /\ (k + 1) - Len(p) = j + 1
      BY <1>1, <2>3
    <3>2. q[k] = r[j] /\ q[k + 1] = r[j + 1]
      BY <1>2, <2>3, <3>1
    <3> HIDE DEF j
    <3>3. Leads(r[j], r[j + 1])
      BY <3>1 DEF LineOK
    <3> QED BY <3>2, <3>3
  <2>4. k \in Nat
    BY <1>1
  <2> QED BY <1>1, <2>1, <2>2, <2>3, <2>4
<1>6. ASSUME q # <<>> PROVE q[Len(q)].cmd # "forth"
  <2>1. CASE r = <<>>
    <3>1. Len(r) = 0
      BY <2>1
    <3>2. Len(q) = Len(p) /\ p # <<>> /\ Len(p) \in 1..Len(p)
      BY <1>1, <1>6, <3>1
    <3> QED BY <1>1, <3>2 DEF LineOK
  <2>2. CASE r # <<>>
    <3>1. Len(r) \in 1..Len(r) /\ Len(q) = Len(p) + Len(r)
      BY <1>1, <2>2
    <3>2. q[Len(q)] = r[Len(r)]
      BY <1>1, <3>1
    <3> QED BY <2>2, <3>2 DEF LineOK
  <2> QED BY <2>1, <2>2
<1>7. LineOK(q)
  BY <1>4, <1>5, <1>6 DEF LineOK
<1> QED BY <1>3, <1>7 DEF q

\* The rest of a list after its first command.
LEMMA LineRest ==
  ASSUME NEW w \in Seq(Orders), w # <<>>, LineOK(w)
  PROVE  /\ LineOK(Tail(w)) /\ Head(w) \in Orders /\ Tail(w) \in Seq(Orders)
         /\ InList(w) = {Head(w)} \cup InList(Tail(w)) /\ InList(Tail(w)) \subseteq Orders
         /\ \A d \in InList(Tail(w)) : Precedes(Head(w), d)
         /\ Tail(w) # <<>> => Leads(Head(w), Tail(w)[1])
         /\ Head(w).cmd = "forth" => Tail(w) # <<>>
<1> DEFINE r == Tail(w)
<1>1. /\ Len(w) \in Nat /\ Len(w) >= 1 /\ r \in Seq(Orders) /\ Len(r) = Len(w) - 1
      /\ \A k \in 1..Len(r) : r[k] = w[k + 1]
      /\ Head(w) = w[1] /\ Head(w) \in Orders
  OBVIOUS
<1> HIDE DEF r
<1>2. \A k \in 1..Len(r) : k + 1 \in 1..Len(w) /\ r[k] = w[k + 1]
  BY <1>1
<1>3. InList(w) = {Head(w)} \cup InList(r)
  <2>1. InList(r) \subseteq InList(w)
    BY <1>2 DEF InList
  <2>2. 1 \in 1..Len(w)
    BY <1>1
  <2>3. ASSUME NEW k \in 1..Len(w), k # 1 PROVE w[k] \in InList(r)
    <3>1. k - 1 \in 1..Len(r) /\ (k - 1) + 1 = k
      BY <1>1, <2>3
    <3>2. r[k - 1] = w[(k - 1) + 1]
      BY <1>2, <3>1
    <3> QED BY <3>1, <3>2 DEF InList
  <2>4. InList(w) \subseteq {Head(w)} \cup InList(r)
    BY <1>1, <2>3 DEF InList
  <2> QED BY <1>1, <2>1, <2>2, <2>4 DEF InList
<1>4. \A d \in InList(r) : Precedes(Head(w), d)
  <2>1. ASSUME NEW k \in 1..Len(r) PROVE Precedes(Head(w), r[k])
    <3>1. 1 \in 1..Len(w) /\ 1 < k + 1
      BY <1>1
    <3> QED BY <1>1, <1>2, <3>1 DEF LineOK
  <2> QED BY <2>1 DEF InList
<1>5. LineOK(r)
  <2>1. ASSUME NEW k \in 1..Len(r), NEW l \in 1..Len(r), k < l PROVE Precedes(r[k], r[l])
    <3>1. k + 1 < l + 1
      BY <2>1
    <3> QED BY <1>2, <3>1 DEF LineOK
  <2>2. ASSUME NEW k \in 1..(Len(r) - 1) PROVE Leads(r[k], r[k + 1])
    <3>1. k \in 1..Len(r) /\ k + 1 \in 1..Len(r) /\ k + 1 \in 1..(Len(w) - 1)
      BY <1>1
    <3>2. r[k] = w[k + 1] /\ r[k + 1] = w[(k + 1) + 1]
      BY <1>2, <3>1
    <3> QED BY <3>1, <3>2 DEF LineOK
  <2>3. ASSUME r # <<>> PROVE r[Len(r)].cmd # "forth"
    <3>1. Len(r) \in 1..Len(r) /\ Len(r) + 1 = Len(w)
      BY <1>1, <2>3
    <3>2. r[Len(r)] = w[Len(w)]
      BY <1>2, <3>1
    <3> QED BY <3>2 DEF LineOK
  <2> QED BY <2>1, <2>2, <2>3 DEF LineOK
<1>6. ASSUME r # <<>> PROVE Leads(Head(w), r[1])
  <2>1. 1 \in 1..Len(r) /\ 1 \in 1..(Len(w) - 1) /\ 1 + 1 = 2
    BY <1>1, <1>6
  <2> QED BY <1>1, <1>2, <2>1 DEF LineOK
<1>7. ASSUME Head(w).cmd = "forth", r = <<>> PROVE FALSE
  <2>1. Len(r) = 0
    BY <1>7
  <2>2. Len(w) = 1
    BY <1>1, <2>1
  <2> QED BY <1>1, <1>7, <2>2 DEF LineOK
<1>8. InList(r) \subseteq Orders
  BY <1>1 DEF InList
<1> QED BY <1>1, <1>3, <1>4, <1>5, <1>6, <1>7, <1>8 DEF r

\* What is known of what thread t has left.
LEMMA Remaining ==
  ASSUME WorkOK, LinesOK, NEW t \in Thread, work[t] # <<>>
  PROVE  /\ Head(work[t]) \in Orders /\ Left(t) = {Head(work[t])} \cup Rest(t) /\ Rest(t) \subseteq Orders
         /\ \A d \in Rest(t) : Precedes(Head(work[t]), d)
         /\ t = "script" => Head(work[t]).cmd \notin Poller
<1>1. work[t] \in Seq(Orders) /\ LineOK(work[t])
  BY DEF WorkOK, LinesOK
<1>2. /\ Head(work[t]) \in Orders /\ Left(t) = {Head(work[t])} \cup Rest(t) /\ Rest(t) \subseteq Orders
      /\ \A d \in Rest(t) : Precedes(Head(work[t]), d)
  BY <1>1, LineRest DEF Left, Rest
<1> QED BY <1>2 DEF LinesOK

\* Thread t has left p and what followed its first command.
Turns(t, p) ==
  /\ LinesOK'
  /\ Left(t)' = InList(p) \cup Rest(t)
  /\ \A u \in Thread : u # t => work'[u] = work[u] /\ Left(u)' = Left(u)

\* What comes in the place of a command is followed by what followed the command.
Replaces(c, p) ==
  /\ p \in Seq(Orders) /\ LineOK(p)
  /\ \A x \in InList(p), d \in Orders : Precedes(c, d) => Precedes(x, d)
  /\ p # <<>> => \A d \in Orders : Leads(c, d) => Leads(p[Len(p)], d)

\* A thread is given a list.
LEMMA Changed ==
  ASSUME WorkOK, LinesOK, NEW t \in Thread, NEW q \in Seq(Orders), LineOK(q),
         \A x \in InList(q) : t = "script" => x.cmd \notin Poller,
         work' = [work EXCEPT ![t] = q]
  PROVE  /\ LinesOK' /\ Left(t)' = InList(q) /\ work'[t] = q
         /\ \A u \in Thread : u # t => work'[u] = work[u] /\ Left(u)' = Left(u)
<1>1. work'[t] = q /\ \A u \in Thread : u # t => work'[u] = work[u]
  BY DEF WorkOK
<1>2. Left(t)' = InList(q) /\ \A u \in Thread : u # t => Left(u)' = Left(u)
  BY <1>1 DEF Left
<1>3. \A u \in Thread : LineOK(work'[u])
  BY <1>1 DEF LinesOK
<1>4. \A c \in Left("script")' : c.cmd \notin Poller
  <2>1. "script" \in Thread
    BY DEF Thread
  <2> QED BY <1>2, <2>1 DEF LinesOK
<1> QED BY <1>1, <1>2, <1>3, <1>4 DEF LinesOK

\* Commands come in the place of the first one.
LEMMA Expanded ==
  ASSUME WorkOK, LinesOK, NEW t \in Thread, work[t] # <<>>, NEW p, Replaces(Head(work[t]), p),
         \A x \in InList(p) : t = "script" => x.cmd \notin Poller,
         work' = [work EXCEPT ![t] = p \o Tail(work[t])]
  PROVE  Turns(t, p) /\ (p # <<>> => work'[t] # <<>> /\ Head(work'[t]) = p[1])
<1> DEFINE r == Tail(work[t])
           q == p \o r
<1>1. work[t] \in Seq(Orders) /\ LineOK(work[t])
  BY DEF WorkOK, LinesOK
<1>2. /\ LineOK(r) /\ r \in Seq(Orders) /\ InList(r) \subseteq Orders /\ Head(work[t]) \in Orders
      /\ \A d \in InList(r) : Precedes(Head(work[t]), d)
      /\ r # <<>> => Leads(Head(work[t]), r[1]) /\ r[1] \in Orders
      /\ Rest(t) = InList(r)
  <2>1. r \in Seq(Orders) /\ (r # <<>> => r[1] \in Orders)
    BY <1>1
  <2> QED BY <1>1, <2>1, LineRest DEF Rest
<1>3. p \in Seq(Orders) /\ LineOK(p)
  BY DEF Replaces
<1> HIDE DEF r
<1>4. LineOK(q) /\ InList(q) = InList(p) \cup InList(r)
  <2>1. \A c \in InList(p), d \in InList(r) : Precedes(c, d)
    BY <1>2 DEF Replaces
  <2>2. p # <<>> /\ r # <<>> => Leads(p[Len(p)], r[1])
    BY <1>2 DEF Replaces
  <2> QED BY <1>2, <1>3, <2>1, <2>2, LineJoined
<1>5. q \in Seq(Orders) /\ (p # <<>> => q # <<>> /\ Head(q) = p[1])
  BY <1>2, <1>3
<1>6. work' = [work EXCEPT ![t] = q]
  BY DEF r
<1> HIDE DEF q
<1>7. \A x \in InList(q) : t = "script" => x.cmd \notin Poller
  <2>1. \A x \in InList(r) : t = "script" => x.cmd \notin Poller
    BY <1>2, Remaining DEF LinesOK
  <2> QED BY <1>4, <2>1
<1>8. /\ LinesOK' /\ Left(t)' = InList(q) /\ work'[t] = q
      /\ \A u \in Thread : u # t => work'[u] = work[u] /\ Left(u)' = Left(u)
  BY <1>4, <1>5, <1>6, <1>7, Changed
<1> QED BY <1>2, <1>4, <1>5, <1>8 DEF Turns

\* A list that is done.
LEMMA NoLine == LineOK(<<>>) /\ InList(<<>>) = {} /\ <<>> \in Seq(Orders)
<1>1. Len(<<>>) = 0 /\ <<>> \in Seq(Orders)
  OBVIOUS
<1> QED BY <1>1 DEF LineOK, InList

\* The first command is done.
LEMMA Finished ==
  ASSUME WorkOK, LinesOK, NEW t \in Thread, work[t] # <<>>, work' = [work EXCEPT ![t] = Tail(@)]
  PROVE  /\ Turns(t, <<>>) /\ work'[t] = Tail(work[t])
         /\ work'[t] # <<>> => Leads(Head(work[t]), Head(work'[t])) /\ Follows(Head(work[t]), Head(work'[t]))
         /\ Head(work[t]).cmd = "forth" => work'[t] # <<>>
<1>1. work[t] \in Seq(Orders) /\ LineOK(work[t]) /\ Tail(work[t]) \in Seq(Orders) /\ Chained(work[t])
  BY DEF WorkOK, LinesOK
<1>2. work' = [work EXCEPT ![t] = Tail(work[t])]
  OBVIOUS
<1>3. work' = [work EXCEPT ![t] = <<>> \o Tail(work[t])]
  <2>1. <<>> \o Tail(work[t]) = Tail(work[t])
    BY <1>1
  <2> QED BY <1>2, <2>1
<1>4. Replaces(Head(work[t]), <<>>)
  BY NoLine DEF Replaces
<1>5. Turns(t, <<>>)
  BY <1>3, <1>4, NoLine, Expanded
<1>6. work'[t] = Tail(work[t])
  BY <1>2 DEF WorkOK
<1>7. /\ Tail(work[t]) # <<>> => Leads(Head(work[t]), Tail(work[t])[1])
      /\ Head(work[t]).cmd = "forth" => Tail(work[t]) # <<>>
  BY <1>1, LineRest
<1>8. Tail(work[t]) # <<>> => Head(Tail(work[t])) = Tail(work[t])[1]
  BY <1>1
<1>9. Tail(work[t]) # <<>> => Follows(Head(work[t]), Head(Tail(work[t])))
  BY <1>1, Popped
<1> QED BY <1>5, <1>6, <1>7, <1>8, <1>9

\* The next command is not one that uses the number the thread holds.
LEMMA NextIsPlain ==
  ASSUME WorkOK, LinesOK, NEW t \in Thread, work[t] # <<>>, work' = [work EXCEPT ![t] = Tail(@)],
         Head(work[t]).cmd \notin {"id", "peer", "back"}
  PROVE  work'[t] # <<>> => Head(work'[t]).cmd \notin {"own", "count"}
BY Finished DEF Leads, Follows

\* Busy() in terms of what a thread has left.
LEMMA BusyIs ==
  ASSUME WorkOK, NEW t \in Thread
  PROVE  \A h : Busy(t, h) <=> \E c \in Left(t) : c.host = h
<1>1. DOMAIN work[t] = 1..Len(work[t])
  BY DEF WorkOK
<1> QED BY <1>1 DEF Busy, Left, InList

-------------------------------------------------------------------------------
(* Contacts: what is known while none is lost *)

\* Hosts whose contacts are counted, those whose slots one thread at a time has
\* changed, and their client slots.
Local == Recorded \ Aggregated
Steady(a) == a \in Local \ overlap
Mine(a) == slots[a]["client"]

\* Number i is in a hash from number to host with h, or about to be.
Known(h, i) ==
  \/ \E d \in Day : i \in DOMAIN names[d] /\ names[d][i] = h
  \/ \E t \in Thread : /\ work[t] # <<>> /\ Head(work[t]).cmd \in {"forth", "back"}
                       /\ Head(work[t]).peer = h /\ reg[t] = i

\* The number a count will be written under, and the one of its peer.
OwnKnown(c) ==
  c.cmd \in {"all", "allServer", "count"} /\ c.host \in Local => c.me # 0 /\ Known(c.host, c.me)
RegKnown(t) ==
  \A h, i : work[t] # <<>> /\ reg[t] = i =>
    /\ Head(work[t]).cmd = "own" /\ Head(work[t]).host = h => Known(h, i)
    /\ Head(work[t]).cmd = "count" /\ Head(work[t]).peer = h => Known(h, i)

NamesOK ==
  /\ \A d \in Day, h \in Addr : \A i : i # 0 /\ ids[d][h] = i => Known(h, i)
  /\ \A h \in Addr : \A i : i # 0 /\ serial[h] = i => Known(h, i)
  /\ \A t \in Thread : RegKnown(t) /\ \A c \in Left(t) : OwnKnown(c)

\* A host is there while something is counted for it, and has a number.
Alive(c) == c.cmd \in {"contact", "replace", "dump"} => c.host \in alive
LinkOK(c) ==
  c.cmd = "link" /\ c.host \in Local =>
    serial[c.host] # 0 \/ \E d \in Left("packets") : d.cmd \in {"serial", "own"} /\ d.host = c.host

LifeOK ==
  /\ \A t \in Thread : \A c \in Left(t) : Alive(c)
  /\ \A c \in Left("packets") : /\ c.cmd = "free" => \A d \in Left("script") : d.host # c.host
                                /\ LinkOK(c)
  /\ \A h \in alive \cap Local : serial[h] # 0

\* The used slots come first, one a peer; what is to be written of one is of its peer.
Prefixed(array) ==
  \A i, j \in 1..Slots : i < j /\ array[j].n > 0 => array[i].n > 0 /\ array[i].peer # array[j].peer
CountOK(c) ==
  c.cmd = "count" /\ c.mode = "client" /\ Steady(c.host) => c.asClient /\ c.peer = Mine(c.host)[c.slot].peer
ReplaceOK(c) ==
  c.cmd = "replace" /\ c.mode = "client" /\ Steady(c.host) => Room(Mine(c.host), c.peer) = {}

SlotsOK ==
  /\ \A a \in Addr : Steady(a) => Prefixed(Mine(a))
  /\ \A t \in Thread : \A c \in Left(t) : CountOK(c) /\ ReplaceOK(c)

\* What the counts hold of a's contacts with b, and whether one more is to come.
Entries(a, b, d) == { e \in DOMAIN counts[d] : Known(a, e[1]) /\ e[2] /\ Known(b, e[3]) }
SoFar(a, b) == SumOver(counts[1], Entries(a, b, 1)) + SumOver(counts[2], Entries(a, b, 2))
Comes(c, a, b) == c.cmd \in {"contact", "replace"} /\ c.host = a /\ c.peer = b /\ c.mode = "client"
Coming(a, b) == \E t \in Thread : \E c \in Left(t) : Comes(c, a, b)
Booked(a, b) == SoFar(a, b) + IF Coming(a, b) THEN 1 ELSE 0

\* A thread is to empty slot i of a, or give it away, and not to count it before.
Wipes(c, a, i) ==
  /\ c.host = a
  /\ c.cmd \in {"purge", "free"} \/ (c.cmd = "replace" /\ c.mode = "client" /\ c.slot = i)
Records(c, a, i) ==
  /\ c.host = a
  /\ \/ c.cmd = "dump"
     \/ c.cmd = "all" /\ c.slot <= i
     \/ c.cmd = "allServer" /\ c.slot < i
     \/ c.cmd = "count" /\ c.mode = "client" /\ c.slot = i
Gone(a, i) ==
  \E t \in Thread : (\E c \in Left(t) : Wipes(c, a, i)) /\ \A c \in Left(t) : ~Records(c, a, i)

\* The contacts of a with b are in the counts, but for those of one slot.
InSlot(a, b, i) ==
  Mine(a)[i].peer = b /\ Mine(a)[i].n > 0 /\ ~Gone(a, i) /\ met[<<a, b>>] <= Booked(a, b) + Mine(a)[i].n
Kept(a, b) == met[<<a, b>>] <= Booked(a, b) \/ \E i \in 1..Slots : InSlot(a, b, i)
Ledger == \A a, b \in Addr : Steady(a) /\ b \in Recorded => Kept(a, b)

CountsOK == \A d \in Day : IsFiniteSet(DOMAIN counts[d])
MetOK == met \in [Addr \X Addr -> Nat]

KeptInv ==
  /\ LinesOK /\ CountsOK /\ MetOK
  /\ ~rows.begun => NamesOK /\ LifeOK /\ SlotsOK /\ Ledger

-------------------------------------------------------------------------------
(* Contacts: what a command leaves as it was *)

KnownGrows == \A h, i : Known(h, i) => Known(h, i)'

\* Numbers stay known while no hash loses one and no one about to be written is dropped.
LEMMA KnownStays ==
  ASSUME \A d \in Day : \A i \in DOMAIN names[d] : i \in DOMAIN names'[d] /\ names'[d][i] = names[d][i],
         \A t \in Thread : work[t] # <<>> /\ Head(work[t]).cmd \in {"forth", "back"} =>
           work'[t] = work[t] /\ reg'[t] = reg[t]
  PROVE  KnownGrows
BY DEF Known, KnownGrows

\* Every number in use stays known.
LEMMA NamesStay ==
  ASSUME NamesOK, KnownGrows,
         \A d \in Day, h \in Addr : \A i : i # 0 /\ ids'[d][h] = i => ids[d][h] = i \/ Known(h, i),
         \A h \in Addr : \A i : i # 0 /\ serial'[h] = i => serial[h] = i \/ Known(h, i),
         \A t \in Thread : \A c \in Left(t)' :
           c \in Left(t) \/ c.cmd \notin {"all", "allServer", "count"} \/ OwnKnown(c),
         \A t \in Thread : RegKnown(t)' \/ (work'[t] = work[t] /\ reg'[t] = reg[t])
  PROVE  NamesOK'
<1>1. \A d \in Day, h \in Addr : \A i : i # 0 /\ ids'[d][h] = i => Known(h, i)'
  BY DEF NamesOK, KnownGrows
<1>2. \A h \in Addr : \A i : i # 0 /\ serial'[h] = i => Known(h, i)'
  BY DEF NamesOK, KnownGrows
<1>3. ASSUME NEW t \in Thread, NEW c \in Left(t)' PROVE OwnKnown(c)'
  <2>1. OwnKnown(c) => OwnKnown(c)'
    BY DEF OwnKnown, KnownGrows
  <2>2. c.cmd \notin {"all", "allServer", "count"} => OwnKnown(c)'
    BY DEF OwnKnown
  <2> QED BY <1>3, <2>1, <2>2 DEF NamesOK
<1>4. ASSUME NEW t \in Thread PROVE RegKnown(t)'
  <2>1. RegKnown(t)
    BY DEF NamesOK
  <2>2. work'[t] = work[t] /\ reg'[t] = reg[t] => RegKnown(t)'
    BY <2>1 DEF RegKnown, KnownGrows
  <2> QED BY <1>4, <2>2
<1> QED BY <1>1, <1>2, <1>3, <1>4 DEF NamesOK

\* The hosts of the commands stay there, with their numbers.
LEMMA LifeStays ==
  ASSUME LifeOK, WorkOK', alive' = alive, \A h \in Addr : serial[h] # 0 => serial'[h] # 0,
         \A t \in Thread : \A c \in Left(t)' :
           \/ c \in Left(t) \/ c.cmd \notin {"contact", "replace", "dump", "free", "link"}
           \/ c.cmd \in {"contact", "replace", "dump"} /\ c.host \in alive,
         \A d \in Left("script")' : d.host = NoAddr \/ \E e \in Left("script") : e.host = d.host,
         \A d \in Left("packets") : d.cmd \in {"serial", "own"} /\ d.host \in Local =>
           \/ serial'[d.host] # 0
           \/ \E e \in Left("packets")' : e.cmd \in {"serial", "own"} /\ e.host = d.host
  PROVE  LifeOK'
<1>1. "packets" \in Thread /\ NoAddr \notin Addr
  BY ContactsAssumption DEF Thread
<1>2. \A t \in Thread : \A c \in Left(t)' : c \in Orders
  BY DEF WorkOK, Left, InList
<1>3. ASSUME NEW t \in Thread, NEW c \in Left(t)' PROVE Alive(c)'
  BY <1>3 DEF LifeOK, Alive
<1>4. ASSUME NEW c \in Left("packets")', c.cmd = "free", NEW d \in Left("script")' PROVE d.host # c.host
  <2>1. c \in Left("packets") /\ c.host \in Addr
    BY <1>1, <1>2, <1>4 DEF Orders, Complete, OnHost
  <2> QED BY <1>1, <1>4, <2>1 DEF LifeOK
<1>5. ASSUME NEW c \in Left("packets")' PROVE LinkOK(c)'
  <2>1. SUFFICES ASSUME c.cmd = "link", c.host \in Local
                 PROVE  serial'[c.host] # 0
                        \/ \E e \in Left("packets")' : e.cmd \in {"serial", "own"} /\ e.host = c.host
    BY DEF LinkOK
  <2>2. c \in Left("packets") /\ c.host \in Addr
    BY <1>1, <1>2, <1>5, <2>1 DEF Orders, Complete, OnHost
  <2>3. LinkOK(c)
    BY <2>2 DEF LifeOK
  <2> QED BY <2>1, <2>2, <2>3 DEF LinkOK
<1>6. \A h \in alive' \cap Local : serial'[h] # 0
  BY ContactsAssumption DEF LifeOK, Local
<1> QED BY <1>3, <1>4, <1>5, <1>6 DEF LifeOK

\* What the commands say of slots stays true.
LEMMA SlotsStay ==
  ASSUME SlotsOK, slots' = slots, overlap \subseteq overlap',
         \A t \in Thread : \A c \in Left(t)' :
           c \in Left(t) \/ c.cmd \notin {"count", "replace"} \/ (CountOK(c) /\ ReplaceOK(c))
  PROVE  SlotsOK'
<1>1. \A a \in Addr : Steady(a)' => Prefixed(Mine(a))'
  <2>1. ASSUME NEW a \in Addr, Steady(a)' PROVE Prefixed(Mine(a))'
    <3>1. Steady(a)
      BY <2>1 DEF Steady
    <3>2. Prefixed(Mine(a))
      BY <3>1 DEF SlotsOK
    <3> QED BY <3>2 DEF Prefixed, Mine
  <2> QED BY <2>1
<1>2. ASSUME NEW t \in Thread, NEW c \in Left(t)' PROVE CountOK(c)' /\ ReplaceOK(c)'
  <2>1. (CountOK(c) => CountOK(c)') /\ (ReplaceOK(c) => ReplaceOK(c)')
    BY DEF CountOK, ReplaceOK, Steady, Mine, Room
  <2>2. c.cmd \notin {"count", "replace"} => CountOK(c)' /\ ReplaceOK(c)'
    BY DEF CountOK, ReplaceOK
  <2> QED BY <1>2, <2>1, <2>2 DEF SlotsOK
<1> QED BY <1>1, <1>2 DEF SlotsOK

CountsGrow == \A a, b : SoFar(a, b) \in Nat /\ SoFar(a, b)' \in Nat /\ SoFar(a, b) <= SoFar(a, b)'

\* The counts only grow.
LEMMA SoFarGrows ==
  ASSUME CountsOK, CountsOK', CountsTyped, CountsTyped', KnownGrows,
         \A d \in Day : \A e \in DOMAIN counts[d] : e \in DOMAIN counts'[d] /\ counts[d][e] <= counts'[d][e]
  PROVE  CountsGrow
<1> SUFFICES ASSUME NEW a, NEW b
             PROVE  SoFar(a, b) \in Nat /\ SoFar(a, b)' \in Nat /\ SoFar(a, b) <= SoFar(a, b)'
  BY DEF CountsGrow
<1>1. ASSUME NEW d \in Day
      PROVE  /\ SumOver(counts[d], Entries(a, b, d)) \in Nat
             /\ SumOver(counts[d], Entries(a, b, d))' \in Nat
             /\ SumOver(counts[d], Entries(a, b, d)) <= SumOver(counts[d], Entries(a, b, d))'
  <2> DEFINE f == counts[d]
             g == counts'[d]
             S == Entries(a, b, d)
             T == Entries(a, b, d)'
  <2>1. IsFiniteSet(S) /\ IsFiniteSet(T)
    <3>1. S \subseteq DOMAIN counts[d] /\ T \subseteq DOMAIN counts'[d]
      BY DEF Entries
    <3>2. IsFiniteSet(DOMAIN counts[d]) /\ IsFiniteSet(DOMAIN counts'[d])
      BY DEF CountsOK
    <3> QED BY <3>1, <3>2, FS_Subset
  <2>2. S \in SUBSET T
    BY DEF Entries, KnownGrows
  <2>3. (\A e \in S : f[e] \in Nat /\ f[e] <= g[e]) /\ \A e \in T : g[e] \in Nat
    BY DEF Entries, CountsTyped
  <2> HIDE DEF f, g, S, T
  <2>4. SumOver(f, S) \in Nat /\ SumOver(g, T) \in Nat
    BY <2>1, <2>3, SumNat
  <2>5. SumOver(f, S) <= SumOver(g, T)
    BY <2>1, <2>2, <2>3, SumWider
  <2> QED BY <2>4, <2>5 DEF f, g, S, T
<1>2. 1 \in Day /\ 2 \in Day
  BY DEF Day
<1> QED BY <1>1, <1>2 DEF SoFar

\* A contact with one host stays in a slot or in the counts.
LEMMA KeptStays ==
  ASSUME NEW a \in Addr, NEW b \in Addr, Kept(a, b), MetOK, TypeOK, met' = met,
         CountsGrow, Mine(a)' = Mine(a),
         Coming(a, b) => Coming(a, b)',
         \A i \in 1..Slots : InSlot(a, b, i) => ~Gone(a, i)'
  PROVE  Kept(a, b)'
<1>1. met[<<a, b>>] \in Nat /\ met'[<<a, b>>] = met[<<a, b>>]
  BY DEF MetOK
<1>2. Booked(a, b) \in Nat /\ Booked(a, b)' \in Nat /\ Booked(a, b) <= Booked(a, b)'
  BY DEF Booked, CountsGrow
<1>3. \A i \in 1..Slots : Mine(a)[i].n \in Nat
  <2>1. Mine(a) \in [1..Slots -> Slot]
    BY DEF TypeOK, Mine, Mode
  <2> QED BY <2>1 DEF Slot
<1>4. CASE met[<<a, b>>] <= Booked(a, b)
  BY <1>1, <1>2, <1>4 DEF Kept
<1>5. ASSUME NEW i \in 1..Slots, InSlot(a, b, i) PROVE InSlot(a, b, i)'
  <2>1. /\ Mine(a)'[i].peer = b /\ Mine(a)'[i].n > 0 /\ ~Gone(a, i)'
        /\ met'[<<a, b>>] <= Booked(a, b)' + Mine(a)'[i].n
    BY <1>1, <1>2, <1>3, <1>5 DEF InSlot
  <2> QED BY <2>1 DEF InSlot
<1> QED BY <1>4, <1>5 DEF Kept

\* No count is written.
LEMMA CountsSame ==
  ASSUME CountsOK, CountsTyped, counts' = counts, KnownGrows
  PROVE  CountsOK' /\ CountsGrow
<1>1. CountsOK' /\ CountsTyped'
  BY DEF CountsOK, CountsTyped
<1>2. \A d \in Day : \A e \in DOMAIN counts[d] : e \in DOMAIN counts'[d] /\ counts[d][e] <= counts'[d][e]
  BY DEF CountsTyped
<1> QED BY <1>1, <1>2, SoFarGrows

\* No slot is written, and none is given up before it is counted.
LEMMA LedgerStays ==
  ASSUME Ledger, MetOK, TypeOK, met' = met, CountsGrow, slots' = slots, overlap \subseteq overlap',
         \A t \in Thread : \A c \in Left(t) : c.cmd \in {"contact", "replace"} => c \in Left(t)',
         \A a, b \in Addr, i \in 1..Slots :
           Steady(a) /\ b \in Recorded /\ InSlot(a, b, i) => ~Gone(a, i)'
  PROVE  Ledger'
<1> SUFFICES ASSUME NEW a \in Addr, NEW b \in Addr, Steady(a)', b \in Recorded PROVE Kept(a, b)'
  BY DEF Ledger
<1>1. Steady(a)
  BY DEF Steady
<1>2. Kept(a, b)
  BY <1>1 DEF Ledger
<1>3. Mine(a)' = Mine(a)
  BY DEF Mine
<1>4. Coming(a, b) => Coming(a, b)'
  BY DEF Coming, Comes
<1> QED BY <1>1, <1>2, <1>3, <1>4, KeptStays

\* Commands that write no slot and no count of a slot, and that are no contact.
Harmless == {"id", "peer", "incr", "forth", "back", "serial", "own", "link", "reverse"}
SameDeeds == \A t \in Thread : \A c : c.cmd \notin Harmless => (c \in Left(t) <=> c \in Left(t)')

\* Such commands leave what the threads are to do with slots as it was.
LEMMA HarmlessTurn ==
  ASSUME WorkOK, LinesOK, NEW t \in Thread, work[t] # <<>>, NEW p, Turns(t, p),
         Head(work[t]).cmd \in Harmless, \A x \in InList(p) : x.cmd \in Harmless
  PROVE  SameDeeds
BY Remaining DEF SameDeeds, Turns

\* A step among such commands loses nothing.
LEMMA HarmlessStep ==
  ASSUME SlotsOK, Ledger, MetOK, TypeOK, CountsGrow, UNCHANGED <<met, slots, overlap>>, SameDeeds
  PROVE  SlotsOK' /\ Ledger'
<1>1. \A t \in Thread : \A c \in Left(t)' : c \in Left(t) \/ c.cmd \notin {"count", "replace"}
  BY DEF SameDeeds, Harmless
<1>2. SlotsOK'
  BY <1>1, SlotsStay
<1>3. \A t \in Thread : \A c \in Left(t) : c.cmd \in {"contact", "replace"} => c \in Left(t)'
  BY DEF SameDeeds, Harmless
<1>4. ASSUME NEW a \in Addr, NEW i \in 1..Slots, Gone(a, i)' PROVE Gone(a, i)
  <2>1. \A c : Wipes(c, a, i) \/ Records(c, a, i) => c.cmd \notin Harmless
    BY DEF Wipes, Records, Harmless
  <2> QED BY <1>4, <2>1 DEF Gone, SameDeeds
<1>5. Ledger'
  BY <1>3, <1>4, LedgerStays DEF InSlot
<1> QED BY <1>2, <1>5

-------------------------------------------------------------------------------
(* Contacts: the commands about numbers *)

Binding == {"contact", "replace", "purge", "free", "link"}

\* A list of one command.
LEMMA LineOne ==
  ASSUME NEW x \in Orders, x.cmd # "forth"
  PROVE  LineOK(<<x>>) /\ InList(<<x>>) = {x} /\ <<x>> \in Seq(Orders) /\ <<x>> # <<>>
<1>1. Len(<<x>>) = 1 /\ <<x>>[1] = x /\ <<x>> \in Seq(Orders) /\ <<x>> # <<>>
  OBVIOUS
<1> DEFINE w == <<x>>
<1> HIDE DEF w
<1>2. Len(w) = 1 /\ w[1] = x /\ 1..1 = {1}
  BY <1>1 DEF w
<1>3. LineOK(w) /\ InList(w) = {x}
  BY <1>2 DEF LineOK, InList
<1> QED BY <1>1, <1>3 DEF w

\* A list of two commands.
LEMMA LineTwo ==
  ASSUME NEW x \in Orders, NEW y \in Orders, x.cmd \notin Binding, Leads(x, y), y.cmd # "forth"
  PROVE  /\ LineOK(<<x, y>>) /\ InList(<<x, y>>) = {x, y}
         /\ <<x, y>> \in Seq(Orders) /\ <<x, y>> # <<>> /\ Len(<<x, y>>) = 2
<1>1. /\ Len(<<x, y>>) = 2 /\ <<x, y>>[1] = x /\ <<x, y>>[2] = y
      /\ <<x, y>> \in Seq(Orders) /\ <<x, y>> # <<>>
  OBVIOUS
<1> DEFINE w == <<x, y>>
<1> HIDE DEF w
<1>2. Len(w) = 2 /\ w[1] = x /\ w[2] = y
  BY <1>1 DEF w
<1>3. InList(w) = {x, y}
  <2>1. 1..2 = {1, 2}
    OBVIOUS
  <2> QED BY <1>2, <2>1 DEF InList
<1>4. \A k, l \in 1..2 : k < l => k = 1 /\ l = 2
  OBVIOUS
<1>5. Precedes(x, y)
  BY DEF Precedes, Binding
<1>6. \A k \in 1..(2 - 1) : k = 1 /\ k + 1 = 2
  OBVIOUS
<1>7. LineOK(w)
  BY <1>2, <1>4, <1>5, <1>6 DEF LineOK
<1> QED BY <1>1, <1>3, <1>7 DEF w

\* A list of commands that bind nothing that comes after them.
LEMMA FreelyReplaces ==
  ASSUME NEW c \in Orders, NEW p \in Seq(Orders), LineOK(p), \A x \in InList(p) : x.cmd \notin Binding,
         c.cmd \notin {"peer", "back", "forth"}
  PROVE  Replaces(c, p)
<1>1. \A x \in InList(p), d \in Orders : Precedes(x, d)
  BY DEF Precedes, Binding
<1>2. p # <<>> => \A d \in Orders : Leads(c, d) => Leads(p[Len(p)], d)
  BY DEF Leads, LineOK
<1> QED BY <1>1, <1>2 DEF Replaces

\* Hosts keep their numbers, or are about to get one, when no host comes or goes.
LEMMA LifeTurn ==
  ASSUME LifeOK, WorkOK, WorkOK', LinesOK, NEW t \in Thread, work[t] # <<>>, NEW p, Turns(t, p),
         alive' = alive, \A h \in Addr : serial[h] # 0 => serial'[h] # 0,
         \A x \in InList(p) : /\ x.cmd \notin {"free", "link"} /\ x.host \in {NoAddr, Head(work[t]).host}
                              /\ x.cmd \in {"contact", "replace", "dump"} => x.host \in alive,
         Head(work[t]).cmd \in {"serial", "own"} /\ Head(work[t]).host \in Local =>
           \/ serial'[Head(work[t]).host] # 0
           \/ \E x \in InList(p) : x.cmd \in {"serial", "own"} /\ x.host = Head(work[t]).host
  PROVE  LifeOK'
<1> DEFINE c == Head(work[t])
<1>1. /\ Left(t) = {c} \cup Rest(t) /\ Left(t)' = InList(p) \cup Rest(t)
      /\ \A u \in Thread : u # t => Left(u)' = Left(u)
  BY Remaining DEF Turns
<1> HIDE DEF c
<1>2. \A u \in Thread : \A d \in Left(u)' :
           \/ d \in Left(u) \/ d.cmd \notin {"contact", "replace", "dump", "free", "link"}
           \/ d.cmd \in {"contact", "replace", "dump"} /\ d.host \in alive
  BY <1>1
<1>3. \A d \in Left("script")' : d.host = NoAddr \/ \E e \in Left("script") : e.host = d.host
  <2>1. "script" \in Thread
    BY DEF Thread
  <2> QED BY <1>1, <2>1 DEF c
<1>4. ASSUME NEW d \in Left("packets"), d.cmd \in {"serial", "own"}, d.host \in Local
      PROVE  \/ serial'[d.host] # 0
             \/ \E e \in Left("packets")' : e.cmd \in {"serial", "own"} /\ e.host = d.host
  <2>1. "packets" \in Thread
    BY DEF Thread
  <2>2. CASE d \in Left("packets")'
    BY <1>4, <2>2
  <2>3. CASE d \notin Left("packets")'
    <3>1. t = "packets" /\ d = c
      BY <1>1, <1>4, <2>1, <2>3
    <3> QED BY <1>1, <1>4, <3>1 DEF c
  <2> QED BY <2>2, <2>3
<1> QED BY <1>2, <1>3, <1>4, LifeStays

\* A step about numbers keeps the rest of the invariant.
LEMMA NumbersStep ==
  ASSUME ContactsInv, KeptInv, NEW t \in Thread, work[t] # <<>>, NEW p, Turns(t, p),
         Head(work[t]).cmd \in Harmless, \A x \in InList(p) : x.cmd \in Harmless,
         UNCHANGED <<met, slots, overlap, counts, rows>>,
         ~rows.begun => KnownGrows /\ NamesOK' /\ LifeOK'
  PROVE  KeptInv'
<1>1. WorkOK /\ TypeOK /\ CountsTyped /\ LinesOK /\ CountsOK /\ MetOK
  BY DEF ContactsInv, KeptInv, TypeOK, CountsTyped
<1>2. LinesOK' /\ CountsOK' /\ MetOK'
  BY <1>1 DEF Turns, CountsOK, MetOK
<1>3. SameDeeds
  BY <1>1, HarmlessTurn
<1>4. ASSUME ~rows.begun PROVE SlotsOK' /\ Ledger'
  <2>1. CountsGrow
    BY <1>1, <1>4, CountsSame
  <2> QED BY <1>1, <1>3, <1>4, <2>1, HarmlessStep DEF KeptInv
<1> QED BY <1>2, <1>4 DEF KeptInv

\* A step of a thread that is not about to write the number it holds.
LEMMA KnownTurn ==
  ASSUME NEW t \in Thread, work[t] # <<>>, NEW p, Turns(t, p), Head(work[t]).cmd \notin {"forth", "back"},
         names' = names, \A u \in Thread : u # t => reg'[u] = reg[u]
  PROVE  KnownGrows
BY KnownStays DEF Turns

\* Numbers, when a command writes none and the thread is not to use the one it holds.
LEMMA NamesTurn ==
  ASSUME NamesOK, WorkOK, LinesOK, NEW t \in Thread, work[t] # <<>>, NEW p, Turns(t, p), KnownGrows,
         \A h \in Addr : serial'[h] \in {0, serial[h]}, ids' = ids,
         \A x \in InList(p) : x.cmd \notin {"all", "allServer", "count"} \/ OwnKnown(x),
         work'[t] # <<>> => Head(work'[t]).cmd \notin {"own", "count"},
         \A u \in Thread : u # t => reg'[u] = reg[u]
  PROVE  NamesOK'
<1>1. \A u \in Thread : RegKnown(u)' \/ (work'[u] = work[u] /\ reg'[u] = reg[u])
  BY DEF RegKnown, Turns
<1>2. \A u \in Thread : \A c \in Left(u)' :
        c \in Left(u) \/ c.cmd \notin {"all", "allServer", "count"} \/ OwnKnown(c)
  BY Remaining DEF Turns
<1>3. \A h \in Addr : \A i : i # 0 /\ serial'[h] = i => serial[h] = i
  OBVIOUS
<1> QED BY <1>1, <1>2, <1>3, NamesStay

\* Host::computeHostSerial().
LEMMA HostSerialKept ==
  ASSUME ContactsInv, ContactsInv', KeptInv, NEW t \in Thread, work[t] # <<>>, HostSerial(t)
  PROVE  KeptInv'
<1> DEFINE c == Head(work[t])
           p == IF c.host \notin Recorded \cup Aggregated THEN <<>>
                ELSE IF serial[c.host] # 0 THEN SetHostId(c.host, day)
                ELSE << HostToId(c.host, day), [c EXCEPT !.cmd = "own"] >>
<1>1. /\ WorkOK /\ LinesOK /\ WorkOK' /\ day \in Day
      /\ c \in Orders /\ c.cmd = "serial" /\ c.host \in Addr /\ NoAddr \notin Addr
  <2>1. WorkOK /\ LinesOK /\ WorkOK' /\ day \in Day /\ NoAddr \notin Addr
    BY ContactsAssumption DEF ContactsInv, KeptInv, TypeOK
  <2> QED BY <2>1, Remaining DEF HostSerial, Orders, Complete, OnHost
<1>2. UNCHANGED <<met, slots, overlap, counts, rows, ids, names, serial, alive>>
  BY DEF HostSerial, memory, store, dump
<1>3. \A u \in Thread : u # t => reg'[u] = reg[u]
  <2>1. reg \in [Thread -> 0..nextId]
    BY DEF ContactsInv, TypeOK
  <2> QED BY <2>1 DEF HostSerial
<1>4. /\ p \in Seq(Orders) /\ LineOK(p)
      /\ \A x \in InList(p) : x.cmd \in {"forth", "back", "id", "own"} /\ x.host \in {NoAddr, c.host}
      /\ p # <<>> => p[1].cmd \in {"forth", "id"}
      /\ c.host \in Local /\ serial[c.host] = 0 => \E x \in InList(p) : x.cmd \in {"serial", "own"} /\ x.host = c.host
  <2>1. CASE c.host \notin Recorded \cup Aggregated
    BY <2>1, NoLine DEF Local
  <2>2. CASE c.host \in Recorded \cup Aggregated /\ serial[c.host] # 0
    <3> DEFINE x == Do("forth", NoAddr, c.host, "client", 0, 0, TRUE, day)
               y == Do("back", NoAddr, c.host, "client", 0, 0, TRUE, day)
    <3>1. x \in Orders /\ y \in Orders
      BY <1>1 DEF Do, Orders, Command, Complete, OnHost, OnPeer, Mode
    <3>2. Leads(x, y) /\ x.cmd = "forth" /\ y.cmd = "back" /\ x.host = NoAddr /\ y.host = NoAddr
      BY DEF Leads, Do
    <3>3. p = <<x, y>>
      BY <2>2 DEF SetHostId
    <3> HIDE DEF x, y, p
    <3>4. LineOK(<<x, y>>) /\ InList(<<x, y>>) = {x, y} /\ <<x, y>> \in Seq(Orders) /\ <<x, y>>[1] = x
      BY <3>1, <3>2, LineTwo DEF Binding
    <3> QED BY <2>2, <3>2, <3>3, <3>4
  <2>3. CASE c.host \in Recorded \cup Aggregated /\ serial[c.host] = 0
    <3> DEFINE x == HostToId(c.host, day)
               y == [c EXCEPT !.cmd = "own"]
    <3>1. x \in Orders /\ y \in Orders
      BY <1>1 DEF HostToId, Do, Orders, Command, Complete, OnHost, OnPeer, Mode
    <3>2. Leads(x, y) /\ x.cmd = "id" /\ y.cmd = "own" /\ x.host = NoAddr /\ y.host = c.host
      BY <1>1 DEF Leads, Do, HostToId, Orders, Command
    <3>3. p = <<x, y>>
      BY <2>3
    <3> HIDE DEF x, y, p
    <3>4. LineOK(<<x, y>>) /\ InList(<<x, y>>) = {x, y} /\ <<x, y>> \in Seq(Orders) /\ <<x, y>>[1] = x
      BY <3>1, <3>2, LineTwo DEF Binding
    <3> QED BY <2>3, <3>2, <3>3, <3>4
  <2> QED BY <2>1, <2>2, <2>3
<1>5. work' = [work EXCEPT ![t] = p \o Tail(work[t])]
  <2>1. CASE c.host \notin Recorded \cup Aggregated
    <3>1. work' = [work EXCEPT ![t] = Tail(work[t])] /\ p = <<>>
      BY <2>1 DEF HostSerial
    <3>2. <<>> \o Tail(work[t]) = Tail(work[t])
      BY <1>1 DEF WorkOK
    <3> QED BY <3>1, <3>2
  <2>2. CASE c.host \in Recorded \cup Aggregated
    BY <2>2 DEF HostSerial
  <2> QED BY <2>1, <2>2
<1> HIDE DEF p
<1>6. Replaces(c, p) /\ \A x \in InList(p) : x.cmd \notin Poller
  BY <1>1, <1>4, FreelyReplaces DEF Binding, Poller
<1>7. Turns(t, p) /\ (p # <<>> => work'[t] # <<>> /\ Head(work'[t]) = p[1])
  BY <1>1, <1>5, <1>6, Expanded
<1>8. work'[t] # <<>> => Head(work'[t]).cmd \notin {"own", "count"}
  <2>1. CASE p = <<>>
    <3>1. work' = [work EXCEPT ![t] = Tail(@)]
      <4>1. <<>> \o Tail(work[t]) = Tail(work[t])
        BY <1>1 DEF WorkOK
      <4> QED BY <1>5, <2>1, <4>1
    <3> QED BY <1>1, <3>1, NextIsPlain
  <2>2. CASE p # <<>>
    BY <1>4, <1>7, <2>2
  <2> QED BY <2>1, <2>2
<1>9. KnownGrows
  BY <1>1, <1>2, <1>3, <1>7, KnownTurn
<1>10. ASSUME ~rows.begun PROVE NamesOK' /\ LifeOK'
  <2>1. NamesOK /\ LifeOK
    BY <1>10 DEF KeptInv
  <2>2. NamesOK'
    BY <1>1, <1>2, <1>3, <1>4, <1>7, <1>8, <1>9, <2>1, NamesTurn
  <2>3. LifeOK'
    BY <1>1, <1>2, <1>4, <1>7, <2>1, LifeTurn
  <2> QED BY <2>2, <2>3
<1> QED BY <1>1, <1>2, <1>4, <1>7, <1>9, <1>10, NumbersStep DEF Harmless

\* What is known at a command.
LEMMA AtCommand ==
  ASSUME ContactsInv, ContactsInv', KeptInv, NEW t \in Thread, work[t] # <<>>
  PROVE  /\ WorkOK /\ LinesOK /\ WorkOK' /\ TypeOK /\ TypeOK' /\ CountsTyped /\ CountsTyped' /\ CountsOK /\ MetOK
         /\ OneOwner /\ StoreOK /\ reg \in [Thread -> 0..nextId] /\ nextId \in Nat
         /\ Head(work[t]) \in Orders
         /\ Head(work[t]).cmd \in OnHost => Head(work[t]).host \in Addr
         /\ Head(work[t]).cmd \in OnPeer => Head(work[t]).peer \in Addr
         /\ Head(work[t]).host \in Addr \cup {NoAddr} /\ Head(work[t]).day \in Day /\ Head(work[t]).mode \in Mode
         /\ NoAddr \notin Addr
<1>1. /\ WorkOK /\ LinesOK /\ WorkOK' /\ TypeOK /\ TypeOK' /\ CountsOK /\ MetOK /\ OneOwner /\ StoreOK
      /\ NoAddr \notin Addr
  BY ContactsAssumption DEF ContactsInv, KeptInv
<1>2. Head(work[t]) \in Orders
  BY <1>1, Remaining
<1>3. CountsTyped /\ CountsTyped' /\ reg \in [Thread -> 0..nextId] /\ nextId \in Nat
  BY <1>1 DEF TypeOK, CountsTyped, StoreOK
<1> QED BY <1>1, <1>2, <1>3 DEF Orders, Command, Complete

\* The number that was found or made enters the host.
LEMMA OwnSerialKept ==
  ASSUME ContactsInv, ContactsInv', KeptInv, NEW t \in Thread, work[t] # <<>>, OwnSerial(t)
  PROVE  KeptInv'
<1> DEFINE c == Head(work[t])
<1>1. /\ WorkOK /\ LinesOK /\ WorkOK' /\ TypeOK /\ OneOwner /\ reg \in [Thread -> 0..nextId] /\ nextId \in Nat
      /\ c.cmd = "own" /\ c.host \in Addr
  BY AtCommand DEF OwnSerial, OnHost
<1>2. /\ UNCHANGED <<met, slots, overlap, counts, rows, ids, names, reg, alive>>
      /\ serial' = [serial EXCEPT ![c.host] = reg[t]] /\ work' = [work EXCEPT ![t] = Tail(@)]
  BY DEF OwnSerial, store, dump
<1>3. Turns(t, <<>>) /\ InList(<<>>) = {}
  BY <1>1, <1>2, Finished, NoLine
<1>4. serial' \in [Addr -> Nat] /\ serial'[c.host] = reg[t] /\ \A h \in Addr : h # c.host => serial'[h] = serial[h]
  BY <1>1, <1>2 DEF TypeOK
<1>5. reg[t] # 0
  BY <1>1 DEF OneOwner, Holding
<1>6. KnownGrows
  BY <1>1, <1>2, <1>3, KnownTurn
<1>7. ASSUME ~rows.begun PROVE NamesOK' /\ LifeOK'
  <2>1. NamesOK /\ LifeOK
    BY <1>7 DEF KeptInv
  <2>2. Known(c.host, reg[t])
    <3>1. RegKnown(t)
      BY <2>1 DEF NamesOK
    <3> QED BY <1>1, <3>1 DEF RegKnown
  <2>3. NamesOK'
    <3>1. \A h \in Addr : \A i : i # 0 /\ serial'[h] = i => serial[h] = i \/ Known(h, i)
      BY <1>4, <2>2
    <3>2. RegKnown(t)'
      <4>1. work'[t] # <<>> => Head(work'[t]).cmd \notin {"own", "count"}
        BY <1>1, <1>2, NextIsPlain
      <4> QED BY <4>1 DEF RegKnown
    <3>3. \A u \in Thread : RegKnown(u)' \/ (work'[u] = work[u] /\ reg'[u] = reg[u])
      BY <1>2, <1>3, <3>2 DEF Turns
    <3>4. \A u \in Thread : \A d \in Left(u)' : d \in Left(u)
      BY <1>1, <1>3, Remaining DEF Turns
    <3> QED BY <1>2, <1>6, <2>1, <3>1, <3>3, <3>4, NamesStay
  <2>4. LifeOK'
    <3>1. \A h \in Addr : serial[h] # 0 => serial'[h] # 0
      BY <1>4, <1>5
    <3> QED BY <1>1, <1>2, <1>3, <1>4, <1>5, <2>1, <3>1, LifeTurn
  <2> QED BY <2>3, <2>4
<1> QED BY <1>1, <1>2, <1>3, <1>6, <1>7, NumbersStep DEF Harmless

\* A host enters the table with its number.
LEMMA LinkHostKept ==
  ASSUME ContactsInv, ContactsInv', KeptInv, NEW t \in Thread, work[t] # <<>>, LinkHost(t)
  PROVE  KeptInv'
<1> DEFINE c == Head(work[t])
<1>1. WorkOK /\ LinesOK /\ WorkOK' /\ c.cmd = "link" /\ c.host \in Addr
  BY AtCommand DEF LinkHost, OnHost
<1>2. /\ UNCHANGED <<met, slots, overlap, counts, rows, ids, names, reg, serial>>
      /\ alive' = alive \cup {c.host} /\ work' = [work EXCEPT ![t] = Tail(@)]
  BY DEF LinkHost, store, dump
<1>3. Turns(t, <<>>) /\ InList(<<>>) = {}
  BY <1>1, <1>2, Finished, NoLine
<1>4. KnownGrows
  BY <1>1, <1>2, <1>3, KnownTurn
<1>5. ASSUME ~rows.begun PROVE NamesOK' /\ LifeOK'
  <2>1. NamesOK /\ LifeOK
    BY <1>5 DEF KeptInv
  <2>2. NamesOK'
    <3>1. work'[t] # <<>> => Head(work'[t]).cmd \notin {"own", "count"}
      BY <1>1, <1>2, NextIsPlain
    <3> QED BY <1>1, <1>2, <1>3, <1>4, <2>1, <3>1, NamesTurn
  <2>3. t = "packets" /\ Left(t) = {c} \cup Rest(t) /\ Rest(t) = {} /\ Left(t)' = {} /\ Left("script")' = Left("script")
    <3>1. t = "packets" /\ "script" \in Thread
      BY <1>1, Remaining DEF Thread, Poller
    <3>2. Left(t) = {c} \cup Rest(t) /\ Rest(t) = {}
      BY <1>1, Remaining DEF Precedes
    <3> QED BY <1>3, <3>1, <3>2 DEF Turns
  <2>4. c.host \in Local => serial[c.host] # 0
    <3>1. LinkOK(c)
      BY <2>1, <2>3 DEF LifeOK
    <3>2. ~ \E d \in Left("packets") : d.cmd \in {"serial", "own"}
      BY <1>1, <2>3
    <3> QED BY <1>1, <3>1, <3>2 DEF LinkOK
  <2>5. \A u \in Thread : \A d \in Left(u)' : Alive(d)'
    BY <1>2, <1>3, <2>1, <2>3 DEF LifeOK, Alive, Turns
  <2>6. \A h \in alive' \cap Local : serial'[h] # 0
    BY <1>2, <2>1, <2>4 DEF LifeOK
  <2>7. LifeOK'
    BY <2>3, <2>5, <2>6 DEF LifeOK
  <2> QED BY <2>2, <2>7
<1> QED BY <1>1, <1>2, <1>3, <1>4, <1>5, NumbersStep DEF Harmless

\* A new number is about to be written with its host.
LEMMA IncrKeyKept ==
  ASSUME ContactsInv, ContactsInv', KeptInv, NEW t \in Thread, work[t] # <<>>, IncrKey(t)
  PROVE  KeptInv'
<1> DEFINE c == Head(work[t])
<1>1. WorkOK /\ LinesOK /\ WorkOK' /\ c.cmd = "incr" /\ reg \in [Thread -> 0..nextId]
  BY AtCommand DEF IncrKey
<1>2. /\ UNCHANGED <<met, slots, overlap, counts, rows, ids, names, serial, alive>>
      /\ work' = [work EXCEPT ![t] = Tail(@)]
      /\ \A u \in Thread : u # t => reg'[u] = reg[u]
  BY <1>1 DEF IncrKey, memory, dump
<1>3. Turns(t, <<>>) /\ InList(<<>>) = {}
  BY <1>1, <1>2, Finished, NoLine
<1>4. KnownGrows
  BY <1>1, <1>2, <1>3, KnownTurn
<1>5. ASSUME ~rows.begun PROVE NamesOK' /\ LifeOK'
  <2>1. NamesOK /\ LifeOK
    BY <1>5 DEF KeptInv
  <2>2. NamesOK'
    <3>1. work'[t] # <<>> => Head(work'[t]).cmd \notin {"own", "count"}
      BY <1>1, <1>2, NextIsPlain
    <3> QED BY <1>1, <1>2, <1>3, <1>4, <2>1, <3>1, NamesTurn
  <2>3. LifeOK'
    BY <1>1, <1>2, <1>3, <2>1, LifeTurn
  <2> QED BY <2>2, <2>3
<1> QED BY <1>1, <1>2, <1>3, <1>4, <1>5, NumbersStep DEF Harmless

\* It is written from host to number, and still to be written back.
LEMMA SetForthKept ==
  ASSUME ContactsInv, ContactsInv', KeptInv, NEW t \in Thread, work[t] # <<>>, SetForth(t)
  PROVE  KeptInv'
<1> DEFINE c == Head(work[t])
<1>1. /\ WorkOK /\ LinesOK /\ WorkOK' /\ TypeOK /\ c.cmd = "forth" /\ c.peer \in Addr /\ c.day \in Day
  BY AtCommand DEF SetForth, OnPeer
<1>2. /\ UNCHANGED <<met, slots, overlap, counts, rows, names, reg, serial, alive>>
      /\ ids' = [ids EXCEPT ![c.day][c.peer] = reg[t]] /\ work' = [work EXCEPT ![t] = Tail(@)]
  BY DEF SetForth, memory
<1>3. Turns(t, <<>>) /\ InList(<<>>) = {}
  BY <1>1, <1>2, Finished, NoLine
<1>4. work'[t] # <<>> /\ Head(work'[t]).cmd = "back" /\ Head(work'[t]).peer = c.peer
  BY <1>1, <1>2, Finished DEF Leads
<1>5. KnownGrows
  <2>1. ASSUME NEW h, NEW i, NEW u \in Thread, work[u] # <<>>, Head(work[u]).cmd \in {"forth", "back"},
               Head(work[u]).peer = h, reg[u] = i
        PROVE  work'[u] # <<>> /\ Head(work'[u]).cmd \in {"forth", "back"} /\ Head(work'[u]).peer = h /\ reg'[u] = i
    BY <1>2, <1>3, <1>4, <2>1 DEF Turns
  <2> QED BY <1>2, <2>1 DEF KnownGrows, Known
<1>6. ASSUME ~rows.begun PROVE NamesOK' /\ LifeOK'
  <2>1. NamesOK /\ LifeOK
    BY <1>6 DEF KeptInv
  <2>2. NamesOK'
    <3>1. \A d \in Day, h \in Addr : ids'[d][h] = ids[d][h] \/ (h = c.peer /\ ids'[d][h] = reg[t])
      <4>1. ids \in [Day -> [Addr -> 0..nextId]]
        BY <1>1 DEF TypeOK
      <4> HIDE DEF c
      <4> QED BY <1>1, <1>2, <4>1
    <3>2. Known(c.peer, reg[t])
      BY <1>1 DEF Known
    <3>3. \A d \in Day, h \in Addr : \A i : i # 0 /\ ids'[d][h] = i => ids[d][h] = i \/ Known(h, i)
      BY <3>1, <3>2
    <3>4. \A u \in Thread : RegKnown(u)' \/ (work'[u] = work[u] /\ reg'[u] = reg[u])
      BY <1>2, <1>3, <1>4 DEF Turns, RegKnown
    <3>5. \A u \in Thread : \A d \in Left(u)' : d \in Left(u)
      BY <1>1, <1>3, Remaining DEF Turns
    <3> QED BY <1>2, <1>5, <2>1, <3>3, <3>4, <3>5, NamesStay
  <2>3. LifeOK'
    BY <1>1, <1>2, <1>3, <2>1, LifeTurn
  <2> QED BY <2>2, <2>3
<1> QED BY <1>1, <1>2, <1>3, <1>5, <1>6, NumbersStep DEF Harmless

\* It is known for good.
LEMMA SetBackKept ==
  ASSUME ContactsInv, ContactsInv', KeptInv, NEW t \in Thread, work[t] # <<>>, SetBack(t)
  PROVE  KeptInv'
<1> DEFINE c == Head(work[t])
<1>1. /\ WorkOK /\ LinesOK /\ WorkOK' /\ TypeOK /\ StoreOK /\ OneOwner /\ c.cmd = "back"
      /\ c.peer \in Addr /\ c.day \in Day /\ reg \in [Thread -> 0..nextId] /\ nextId \in Nat
  BY AtCommand DEF SetBack, OnPeer
<1>2. /\ UNCHANGED <<met, slots, overlap, counts, rows, ids, reg, serial, alive>>
      /\ names' = [names EXCEPT ![c.day] = HashSet(@, reg[t], c.peer)] /\ work' = [work EXCEPT ![t] = Tail(@)]
  BY DEF SetBack, memory
<1>3. Turns(t, <<>>) /\ InList(<<>>) = {}
  BY <1>1, <1>2, Finished, NoLine
<1>4. /\ reg[t] \in 1..nextId /\ Owns(c.peer, reg[t])
  <2>1. Holding(t, c.peer)
    BY <1>1 DEF Holding
  <2> QED BY <1>1, <2>1 DEF OneOwner, Owns
<1>5. /\ reg[t] \in DOMAIN names'[c.day] /\ names'[c.day][reg[t]] = c.peer
      /\ \A d \in Day : \A i \in DOMAIN names[d] : i \in DOMAIN names'[d] /\ (names'[d][i] = names[d][i] \/ (d = c.day /\ i = reg[t]))
  <2>1. DOMAIN names = Day
    BY <1>1 DEF StoreOK
  <2>2. names'[c.day] = HashSet(names[c.day], reg[t], c.peer) /\ \A d \in Day : d # c.day => names'[d] = names[d]
    BY <1>1, <1>2, <2>1
  <2>3. \A d \in Day : d = c.day => names'[d] = HashSet(names[c.day], reg[t], c.peer)
    BY <2>2
  <2> HIDE DEF c
  <2> QED BY <1>1, <2>2, HashSetFields DEF HashSet
<1>6. \A d \in Day : \A i \in DOMAIN names[d] : names'[d][i] = names[d][i]
  <2>1. ASSUME NEW d \in Day, d = c.day, NEW i \in DOMAIN names[d], i = reg[t] PROVE names[d][i] = c.peer
    <3>1. names[d][i] \in Addr /\ Owns(names[d][i], i)
      BY <1>1, <2>1 DEF TypeOK, Owns
    <3> QED BY <1>1, <1>4, <2>1, <3>1 DEF OneOwner
  <2> QED BY <1>5, <2>1
<1>7. KnownGrows
  <2>1. ASSUME NEW h, NEW i, NEW u \in Thread, work[u] # <<>>, Head(work[u]).cmd \in {"forth", "back"},
               Head(work[u]).peer = h, reg[u] = i, u # t
        PROVE  work'[u] # <<>> /\ Head(work'[u]).cmd \in {"forth", "back"} /\ Head(work'[u]).peer = h /\ reg'[u] = i
    BY <1>2, <1>3, <2>1 DEF Turns
  <2>2. ASSUME NEW h, NEW i, Head(work[t]).peer = h, reg[t] = i
        PROVE  \E d \in Day : i \in DOMAIN names'[d] /\ names'[d][i] = h
    BY <1>1, <1>5, <2>2
  <2>3. ASSUME NEW h, NEW i, NEW d \in Day, i \in DOMAIN names[d], names[d][i] = h
        PROVE  i \in DOMAIN names'[d] /\ names'[d][i] = h
    BY <1>5, <1>6, <2>3
  <2> QED BY <2>1, <2>2, <2>3 DEF KnownGrows, Known
<1>8. ASSUME ~rows.begun PROVE NamesOK' /\ LifeOK'
  <2>1. NamesOK /\ LifeOK
    BY <1>8 DEF KeptInv
  <2>2. NamesOK'
    <3>1. \A h, i : h = c.peer /\ i = reg[t] => Known(h, i)'
      BY <1>1, <1>5 DEF Known
    <3>2. work'[t] # <<>> => /\ Head(work'[t]).cmd = "own" => Head(work'[t]).host = c.peer
                             /\ Head(work'[t]).cmd = "count" => Head(work'[t]).peer = c.peer
      BY <1>1, <1>2, Finished DEF Leads, Follows
    <3>3. RegKnown(t)'
      BY <1>2, <3>1, <3>2 DEF RegKnown
    <3>4. \A u \in Thread : RegKnown(u)' \/ (work'[u] = work[u] /\ reg'[u] = reg[u])
      BY <1>2, <1>3, <3>3 DEF Turns
    <3>5. \A u \in Thread : \A d \in Left(u)' : d \in Left(u)
      BY <1>1, <1>3, Remaining DEF Turns
    <3> QED BY <1>2, <1>7, <2>1, <3>4, <3>5, NamesStay
  <2>3. LifeOK'
    BY <1>1, <1>2, <1>3, <2>1, LifeTurn
  <2> QED BY <2>2, <2>3
<1> QED BY <1>1, <1>2, <1>3, <1>7, <1>8, NumbersStep DEF Harmless

\* The two commands of setHostId().
LEMMA SetHostIdLine ==
  ASSUME NEW h \in Addr, NEW d \in Day
  PROVE  LET p == SetHostId(h, d)
         IN  /\ p \in Seq(Orders) /\ LineOK(p) /\ p # <<>> /\ p[1].cmd = "forth"
             /\ \A x \in InList(p) : x.cmd \in {"forth", "back"} /\ x.host = NoAddr
             /\ p[Len(p)].cmd = "back" /\ p[Len(p)].peer = h
<1> DEFINE x == Do("forth", NoAddr, h, "client", 0, 0, TRUE, d)
           y == Do("back", NoAddr, h, "client", 0, 0, TRUE, d)
<1>1. x \in Orders /\ y \in Orders
  BY DEF Do, Orders, Command, Complete, OnHost, OnPeer, Mode
<1>2. /\ Leads(x, y) /\ x.cmd = "forth" /\ y.cmd = "back" /\ x.host = NoAddr /\ y.host = NoAddr
      /\ y.peer = h
  BY DEF Leads, Do
<1>3. SetHostId(h, d) = <<x, y>>
  BY DEF SetHostId
<1> HIDE DEF x, y
<1>4. /\ LineOK(<<x, y>>) /\ InList(<<x, y>>) = {x, y} /\ <<x, y>> \in Seq(Orders) /\ <<x, y>>[1] = x
      /\ <<x, y>> # <<>> /\ Len(<<x, y>>) = 2 /\ <<x, y>>[2] = y
  BY <1>1, <1>2, LineTwo DEF Binding
<1> DEFINE p == <<x, y>>
<1>5. p[Len(p)] = y
  BY <1>4
<1> HIDE DEF p
<1> QED BY <1>2, <1>3, <1>4, <1>5 DEF p

\* A number that was found is known; one that was not is asked for.
LEMMA LookUpKept ==
  ASSUME ContactsInv, ContactsInv', KeptInv, NEW t \in Thread, work[t] # <<>>, LookUp(t)
  PROVE  KeptInv'
<1> DEFINE c == Head(work[t])
           known == ids[c.day][c.peer]
           incr == [c EXCEPT !.cmd = "incr"]
           p == <<incr>> \o SetHostId(c.peer, c.day)
<1>1. /\ WorkOK /\ LinesOK /\ WorkOK' /\ TypeOK /\ reg \in [Thread -> 0..nextId] /\ c \in Orders
      /\ c.cmd \in {"id", "peer"} /\ c.peer \in Addr /\ c.day \in Day /\ c.host \in Addr \cup {NoAddr}
  BY AtCommand DEF LookUp, OnPeer
<1>2. UNCHANGED <<met, slots, overlap, counts, rows, ids, names, serial, alive>>
  BY DEF LookUp, memory, store, dump
<1>3. ASSUME known # 0, reg' = [reg EXCEPT ![t] = known], work' = [work EXCEPT ![t] = Tail(@)]
      PROVE  KeptInv'
  <2>1. reg'[t] = known /\ \A u \in Thread : u # t => reg'[u] = reg[u]
    BY <1>1, <1>3
  <2>2. Turns(t, <<>>) /\ InList(<<>>) = {}
    BY <1>1, <1>3, Finished, NoLine
  <2>3. KnownGrows
    BY <1>1, <1>2, <2>1, <2>2, KnownTurn
  <2>4. ASSUME ~rows.begun PROVE NamesOK' /\ LifeOK'
    <3>1. NamesOK /\ LifeOK
      BY <2>4 DEF KeptInv
    <3>2. NamesOK'
      <4>1. \A h, i : h = c.peer /\ i = known => Known(h, i)'
        BY <1>1, <1>3, <2>3, <3>1 DEF NamesOK, KnownGrows
      <4>2. work'[t] # <<>> => /\ Head(work'[t]).cmd = "own" => Head(work'[t]).host = c.peer
                               /\ Head(work'[t]).cmd = "count" => Head(work'[t]).peer = c.peer
        BY <1>1, <1>3, Finished DEF Leads, Follows
      <4>3. RegKnown(t)'
        BY <2>1, <4>1, <4>2 DEF RegKnown
      <4>4. \A u \in Thread : RegKnown(u)' \/ (work'[u] = work[u] /\ reg'[u] = reg[u])
        BY <2>1, <2>2, <4>3 DEF Turns
      <4>5. \A u \in Thread : \A d \in Left(u)' : d \in Left(u)
        BY <1>1, <2>2, Remaining DEF Turns
      <4> QED BY <1>2, <2>3, <3>1, <4>4, <4>5, NamesStay
    <3>3. LifeOK'
      BY <1>1, <1>2, <2>2, <3>1, LifeTurn
    <3> QED BY <3>2, <3>3
  <2> QED BY <1>1, <1>2, <2>2, <2>3, <2>4, NumbersStep DEF Harmless
<1>4. ASSUME work' = [work EXCEPT ![t] = << [c EXCEPT !.cmd = "incr"] >> \o SetHostId(c.peer, c.day) \o Tail(@)],
             reg' = reg
      PROVE  KeptInv'
  <2> DEFINE s == SetHostId(c.peer, c.day)
  <2>1. /\ s \in Seq(Orders) /\ LineOK(s) /\ s # <<>> /\ s[1].cmd = "forth"
        /\ \A x \in InList(s) : x.cmd \in {"forth", "back"} /\ x.host = NoAddr
        /\ s[Len(s)].cmd = "back" /\ s[Len(s)].peer = c.peer
    BY <1>1, SetHostIdLine
  <2>2. incr \in Orders /\ incr.cmd = "incr" /\ incr.host = c.host
    BY <1>1 DEF Orders, Command, Complete, OnHost, OnPeer
  <2>3. p = <<incr>> \o s
    OBVIOUS
  <2>4. work' = [work EXCEPT ![t] = p \o Tail(work[t])]
    <3>1. Tail(work[t]) \in Seq(Orders)
      BY <1>1 DEF WorkOK
    <3> HIDE DEF incr, s
    <3> QED BY <1>4, <2>1, <2>2, <3>1 DEF incr, s
  <2> HIDE DEF incr, s, p
  <2>5. LineOK(<<incr>>) /\ InList(<<incr>>) = {incr} /\ <<incr>> \in Seq(Orders) /\ <<incr>> # <<>>
    BY <2>2, LineOne
  <2>6. LineOK(p) /\ InList(p) = {incr} \cup InList(s)
    <3>1. \A x \in {incr}, y \in InList(s) : Precedes(x, y)
      BY <2>2 DEF Precedes
    <3>2. <<incr>>[Len(<<incr>>)] = incr
      OBVIOUS
    <3>3. Leads(<<incr>>[Len(<<incr>>)], s[1])
      BY <2>1, <2>2, <3>2 DEF Leads
    <3> QED BY <2>1, <2>3, <2>5, <3>1, <3>3, LineJoined
  <2>7. p \in Seq(Orders) /\ p # <<>> /\ p[1] = incr /\ p[Len(p)] = s[Len(s)]
    BY <2>1, <2>2, <2>3
  <2>8. Replaces(c, p) /\ \A x \in InList(p) : x.cmd \notin Poller
    <3>1. \A x \in InList(p), d \in Orders : Precedes(x, d)
      BY <2>1, <2>2, <2>6 DEF Precedes
    <3>2. \A d \in Orders : Leads(c, d) => Leads(p[Len(p)], d)
      BY <2>1, <2>7 DEF Leads
    <3> QED BY <2>1, <2>2, <2>6, <2>7, <3>1, <3>2 DEF Replaces, Poller
  <2>9. Turns(t, p) /\ work'[t] # <<>> /\ Head(work'[t]) = p[1]
    BY <1>1, <2>4, <2>7, <2>8, Expanded
  <2>10. KnownGrows
    BY <1>1, <1>2, <1>4, <2>9, KnownTurn
  <2>11. ASSUME ~rows.begun PROVE NamesOK' /\ LifeOK'
    <3>1. NamesOK /\ LifeOK
      BY <2>11 DEF KeptInv
    <3>2. NamesOK'
      BY <1>1, <1>2, <1>4, <2>1, <2>2, <2>6, <2>7, <2>9, <2>10, <3>1, NamesTurn
    <3>3. LifeOK'
      BY <1>1, <1>2, <2>1, <2>2, <2>6, <2>9, <3>1, LifeTurn
    <3> QED BY <3>2, <3>3
  <2> QED BY <1>1, <1>2, <2>1, <2>2, <2>6, <2>9, <2>10, <2>11, NumbersStep DEF Harmless
<1> HIDE DEF p
<1> QED BY <1>3, <1>4 DEF LookUp

-------------------------------------------------------------------------------
(* Contacts: the counts *)

\* What a count adds to the contacts of a with b.
LEMMA SoFarAdds ==
  ASSUME CountsOK, CountsOK', CountsTyped, CountsTyped', KnownGrows,
         NEW day0 \in Day, NEW e, NEW n \in Nat, e \in DOMAIN counts'[day0],
         counts'[day0][e] = (IF e \in DOMAIN counts[day0] THEN counts[day0][e] ELSE 0) + n,
         \A d \in Day : \A x \in DOMAIN counts[d] :
           x \in DOMAIN counts'[d] /\ counts[d][x] <= counts'[d][x] /\ (x # e => counts'[d][x] = counts[d][x]),
         NEW a, NEW b, Known(a, e[1]), e[2], Known(b, e[3])
  PROVE  SoFar(a, b) + n <= SoFar(a, b)'
<1>1. ASSUME NEW d \in Day
      PROVE  /\ SumOver(counts[d], Entries(a, b, d)) \in Nat
             /\ SumOver(counts[d], Entries(a, b, d))' \in Nat
             /\ SumOver(counts[d], Entries(a, b, d)) <= SumOver(counts[d], Entries(a, b, d))'
             /\ d = day0 => SumOver(counts[d], Entries(a, b, d)) + n <= SumOver(counts[d], Entries(a, b, d))'
  <2> DEFINE f == counts[d]
             g == counts'[d]
             S == Entries(a, b, d)
             T == Entries(a, b, d)'
  <2>1. IsFiniteSet(S) /\ IsFiniteSet(T)
    <3>1. S \subseteq DOMAIN counts[d] /\ T \subseteq DOMAIN counts'[d]
      BY DEF Entries
    <3>2. IsFiniteSet(DOMAIN counts[d]) /\ IsFiniteSet(DOMAIN counts'[d])
      BY DEF CountsOK
    <3> QED BY <3>1, <3>2, FS_Subset
  <2>2. S \in SUBSET T
    BY DEF Entries, KnownGrows
  <2>3. (\A x \in S : f[x] \in Nat /\ f[x] <= g[x]) /\ \A x \in T : g[x] \in Nat
    BY DEF Entries, CountsTyped
  <2>4. \A x \in S \ {e} : g[x] = f[x]
    BY DEF Entries
  <2>5. ASSUME d = day0 PROVE S \cup {e} \in SUBSET T /\ g[e] = (IF e \in S THEN f[e] ELSE 0) + n
    <3>1. e \in T
      BY <2>5 DEF Entries, KnownGrows
    <3>2. e \in S <=> e \in DOMAIN counts[d]
      BY DEF Entries
    <3> QED BY <2>2, <2>5, <3>1, <3>2
  <2> HIDE DEF f, g, S, T
  <2>6. SumOver(f, S) \in Nat /\ SumOver(g, T) \in Nat
    BY <2>1, <2>3, SumNat
  <2>7. SumOver(f, S) <= SumOver(g, T)
    BY <2>1, <2>2, <2>3, SumWider
  <2>8. ASSUME d = day0 PROVE SumOver(f, S) + n <= SumOver(g, T)
    <3>1. IsFiniteSet(S \cup {e}) /\ SumOver(g, S \cup {e}) = SumOver(f, S) + n
      <4>1. \A x \in S : f[x] \in Int
        BY <2>3
      <4>2. n \in Int
        OBVIOUS
      <4>3. g[e] = (IF e \in S THEN f[e] ELSE 0) + n
        BY <2>5, <2>8
      <4>4. IsFiniteSet(S)
        BY <2>1
      <4> DEFINE v == n
      <4>5. v \in Int /\ g[e] = (IF e \in S THEN f[e] ELSE 0) + v
        BY <4>2, <4>3
      <4> HIDE DEF v
      <4>7. \A x \in S \ {e} : g[x] = f[x]
        BY <2>4
      <4>8. IsFiniteSet(S \cup {e})
        BY <4>4, FS_AddElement
      <4>9. SumOver(g, S \cup {e}) = SumOver(f, S) + v
        BY <4>7, <4>1, <4>4, <4>5, SumPut
      <4>6. IsFiniteSet(S \cup {e}) /\ SumOver(g, S \cup {e}) = SumOver(f, S) + v
        BY <4>8, <4>9
      <4> QED BY <4>6 DEF v
    <3> DEFINE U == S \cup {e}
    <3>2. U \in SUBSET T
      BY <2>5, <2>8
    <3>3. \A x \in U : g[x] \in Nat /\ g[x] <= g[x]
      BY <2>3, <3>2
    <3> HIDE DEF U
    <3>4. SumOver(g, U) <= SumOver(g, T)
      BY <2>1, <2>3, <3>2, <3>3, SumWider
    <3> QED BY <3>1, <3>4 DEF U
  <2> QED BY <2>6, <2>7, <2>8 DEF f, g, S, T
<1>2. 1 \in Day /\ 2 \in Day /\ (day0 = 1 \/ day0 = 2)
  BY DEF Day
<1> DEFINE s(d) == SumOver(counts[d], Entries(a, b, d))
           r(d) == SumOver(counts[d], Entries(a, b, d))'
<1>3. SoFar(a, b) = s(1) + s(2) /\ SoFar(a, b)' = r(1) + r(2)
  BY DEF SoFar
<1>4. \A d \in Day : s(d) \in Nat /\ r(d) \in Nat /\ s(d) <= r(d) /\ (d = day0 => s(d) + n <= r(d))
  BY <1>1
<1> HIDE DEF s, r
<1> QED BY <1>2, <1>3, <1>4

\* A slot is counted: its contacts are in the counts from now on.
LEMMA IncrHostContactsKept ==
  ASSUME ContactsInv, ContactsInv', KeptInv, NEW t \in Thread, work[t] # <<>>, IncrHostContacts(t)
  PROVE  KeptInv'
<1> DEFINE c == Head(work[t])
           n == slots[c.host][c.mode][c.slot].n
           key == IF c.cmd = "count" THEN c.me ELSE reg[t]
           field == IF c.cmd = "count" THEN reg[t] ELSE c.me
           entry == <<key, c.asClient, field>>
           old == counts[c.day]
           value == (IF entry \in DOMAIN old THEN old[entry] ELSE 0) + n
<1>1. /\ WorkOK /\ LinesOK /\ WorkOK' /\ TypeOK /\ CountsTyped /\ CountsTyped' /\ CountsOK /\ MetOK /\ StoreOK
      /\ c \in Orders /\ c.cmd \in {"count", "reverse"} /\ c.host \in Addr /\ c.day \in Day /\ c.mode \in Mode
      /\ c.slot \in 1..Slots
  <2>1. c \in Orders /\ c.cmd \in {"count", "reverse"}
    BY AtCommand DEF IncrHostContacts
  <2>2. c.slot \in 1..Slots
    BY <2>1 DEF Orders, Complete
  <2> HIDE DEF c
  <2> QED BY <2>1, <2>2, AtCommand DEF OnHost, c
<1>2. /\ UNCHANGED <<met, slots, overlap, rows, ids, names, reg, serial, alive>>
      /\ counts' = [counts EXCEPT ![c.day] = HashSet(old, entry, value)]
      /\ work' = [work EXCEPT ![t] = Tail(@)]
  BY DEF IncrHostContacts, memory
<1>3. Turns(t, <<>>) /\ InList(<<>>) = {}
  BY <1>1, <1>2, Finished, NoLine
<1>4. KnownGrows
  BY <1>1, <1>2, <1>3, KnownTurn
<1>5. n \in Nat
  <2>1. slots \in [Addr -> [Mode -> [1..Slots -> Slot]]]
    BY <1>1 DEF TypeOK
  <2> HIDE DEF c
  <2>2. slots[c.host][c.mode] \in [1..Slots -> Slot]
    BY <1>1, <2>1
  <2>3. slots[c.host][c.mode][c.slot] \in Slot
    BY <1>1, <2>2
  <2> QED BY <2>3 DEF Slot
<1>6. value \in Nat /\ \A x \in DOMAIN counts[c.day] : x = entry => counts[c.day][x] <= value
  <2> HIDE DEF entry, n, c
  <2>1. \A x \in DOMAIN counts[c.day] : counts[c.day][x] \in Nat
    BY <1>1 DEF CountsTyped
  <2>2. CASE entry \in DOMAIN counts[c.day]
    <3>1. value = counts[c.day][entry] + n
      BY <2>2
    <3> QED BY <1>5, <2>1, <2>2, <3>1
  <2>3. CASE entry \notin DOMAIN counts[c.day]
    <3>1. value = 0 + n
      BY <2>3
    <3> QED BY <1>5, <2>3, <3>1
  <2> QED BY <2>2, <2>3
<1>7. /\ entry \in DOMAIN counts'[c.day] /\ counts'[c.day][entry] = value
      /\ DOMAIN counts'[c.day] = DOMAIN counts[c.day] \cup {entry}
      /\ \A d \in Day : d # c.day => counts'[d] = counts[d]
      /\ \A d \in Day : \A x \in DOMAIN counts[d] :
           x \in DOMAIN counts'[d] /\ counts[d][x] <= counts'[d][x] /\ (x # entry => counts'[d][x] = counts[d][x])
  <2> HIDE DEF entry, value, c, n
  <2>1. DOMAIN counts = Day
    BY <1>1 DEF StoreOK
  <2>2. counts'[c.day] = HashSet(counts[c.day], entry, value) /\ \A d \in Day : d # c.day => counts'[d] = counts[d]
    BY <1>1, <1>2, <2>1
  <2>3. /\ DOMAIN counts'[c.day] = DOMAIN counts[c.day] \cup {entry} /\ counts'[c.day][entry] = value
        /\ \A x \in DOMAIN counts[c.day] : x # entry => counts'[c.day][x] = counts[c.day][x]
    <3> DEFINE hash == HashSet(counts[c.day], entry, value)
    <3>1. /\ DOMAIN hash = DOMAIN counts[c.day] \cup {entry} /\ hash[entry] = value
          /\ \A x \in DOMAIN counts[c.day] : x # entry => hash[x] = counts[c.day][x]
      BY DEF HashSet
    <3>2. counts'[c.day] = hash
      BY <2>2
    <3> HIDE DEF hash
    <3> QED BY <3>1, <3>2
  <2>4. \A d \in Day : \A x \in DOMAIN counts[d] : counts[d][x] \in Nat
    BY <1>1 DEF CountsTyped
  <2>5. ASSUME NEW d \in Day, NEW x \in DOMAIN counts[d]
        PROVE  x \in DOMAIN counts'[d] /\ counts[d][x] <= counts'[d][x] /\ (x # entry => counts'[d][x] = counts[d][x])
    <3>1. CASE d = c.day
      BY <1>6, <2>3, <2>4, <3>1
    <3>2. CASE d # c.day
      BY <2>2, <2>4, <3>2
    <3> QED BY <3>1, <3>2
  <2> QED BY <2>2, <2>3, <2>5
<1> HIDE DEF value
<1>8. CountsOK'
  <2>1. ASSUME NEW d \in Day PROVE IsFiniteSet(DOMAIN counts'[d])
    <3> HIDE DEF entry
    <3>1. IsFiniteSet(DOMAIN counts[d])
      BY <1>1 DEF CountsOK
    <3>2. DOMAIN counts'[d] = DOMAIN counts[d] \/ DOMAIN counts'[d] = DOMAIN counts[d] \cup {entry}
      BY <1>7
    <3> QED BY <3>1, <3>2, FS_AddElement
  <2> QED BY <2>1 DEF CountsOK
<1>9. CountsGrow
  BY <1>1, <1>4, <1>7, <1>8, SoFarGrows
<1>10. /\ Left(t) = {c} \cup Rest(t) /\ Left(t)' = Rest(t)
       /\ \A u \in Thread : u # t => Left(u)' = Left(u)
  BY <1>1, <1>3, Remaining DEF Turns
<1>11. ASSUME ~rows.begun PROVE NamesOK' /\ LifeOK' /\ SlotsOK' /\ Ledger'
  <2>1. NamesOK /\ LifeOK /\ SlotsOK /\ Ledger
    BY <1>11 DEF KeptInv
  <2>2. NamesOK'
    <3>1. work'[t] # <<>> => Head(work'[t]).cmd \notin {"own", "count"}
      BY <1>1, <1>2, NextIsPlain
    <3> QED BY <1>1, <1>2, <1>3, <1>4, <2>1, <3>1, NamesTurn
  <2>3. LifeOK'
    BY <1>1, <1>2, <1>3, <2>1, LifeTurn
  <2>4. SlotsOK'
    BY <1>2, <1>10, <2>1, SlotsStay
  <2>5. ASSUME NEW a \in Addr, NEW b \in Addr, Steady(a), b \in Recorded, Kept(a, b) PROVE Kept(a, b)'
    <3>1. CASE \E i \in 1..Slots : InSlot(a, b, i) /\ Records(c, a, i)
      <4>1. PICK i \in 1..Slots : InSlot(a, b, i) /\ Records(c, a, i)
        BY <3>1
      <4>2. c.cmd = "count" /\ c.host = a /\ c.mode = "client" /\ c.slot = i
        BY <1>1, <4>1 DEF Records
      <4>3. c.asClient /\ c.peer = b /\ n = Mine(a)[i].n
        <5>1. CountOK(c)
          BY <1>10, <2>1 DEF SlotsOK
        <5>2. c.peer = Mine(a)[i].peer /\ c.asClient /\ n = Mine(a)[i].n
          BY <2>5, <4>2, <5>1 DEF CountOK, Mine
        <5> QED BY <4>1, <5>2 DEF InSlot
      <4>4. Known(a, c.me) /\ Known(b, reg[t])
        <5>1. OwnKnown(c) /\ RegKnown(t)
          BY <1>10, <2>1 DEF NamesOK
        <5>2. a \in Local
          BY <2>5 DEF Steady
        <5> QED BY <4>2, <4>3, <5>1, <5>2 DEF OwnKnown, RegKnown
      <4>5. Known(a, entry[1]) /\ entry[2] /\ Known(b, entry[3])
        BY <4>2, <4>3, <4>4
      <4> HIDE DEF entry
      <4>6. SoFar(a, b) + n <= SoFar(a, b)'
        <5> HIDE DEF n, c
        <5>1. counts'[c.day][entry] = (IF entry \in DOMAIN counts[c.day] THEN counts[c.day][entry] ELSE 0) + n
          BY <1>7 DEF value
        <5> QED BY <1>1, <1>4, <1>5, <1>7, <1>8, <4>5, <5>1, SoFarAdds
      <4>7. Coming(a, b) => Coming(a, b)'
        BY <1>1, <1>10 DEF Coming, Comes
      <4>8. SoFar(a, b) \in Nat /\ SoFar(a, b)' \in Nat
        BY <1>9 DEF CountsGrow
      <4>9. met'[<<a, b>>] = met[<<a, b>>] /\ met[<<a, b>>] \in Nat /\ met[<<a, b>>] <= Booked(a, b) + n
        BY <1>1, <1>2, <4>1, <4>3 DEF InSlot, MetOK
      <4>10. met'[<<a, b>>] <= Booked(a, b)'
        <5> HIDE DEF n
        <5>1. Booked(a, b) + n <= Booked(a, b)' /\ Booked(a, b) \in Nat /\ Booked(a, b)' \in Nat
          BY <1>5, <4>6, <4>7, <4>8 DEF Booked
        <5> QED BY <1>5, <4>9, <5>1
      <4> QED BY <4>10 DEF Kept
    <3>2. CASE \A i \in 1..Slots : InSlot(a, b, i) => ~Records(c, a, i)
      <4>1. ASSUME NEW i \in 1..Slots, InSlot(a, b, i) PROVE ~Gone(a, i)'
        <5>1. ~Gone(a, i) /\ ~Records(c, a, i)
          BY <3>2, <4>1 DEF InSlot
        <5> QED BY <1>10, <5>1 DEF Gone
      <4>2. Coming(a, b) => Coming(a, b)'
        BY <1>1, <1>10 DEF Coming, Comes
      <4>3. Mine(a)' = Mine(a)
        BY <1>2 DEF Mine
      <4> QED BY <1>1, <1>2, <1>9, <2>5, <4>1, <4>2, <4>3, KeptStays
    <3> QED BY <3>1, <3>2
  <2>6. Ledger'
    BY <1>2, <2>1, <2>5 DEF Ledger, Steady
  <2> QED BY <2>2, <2>3, <2>4, <2>6
<1>12. LinesOK' /\ MetOK' /\ rows' = rows
  BY <1>1, <1>2, <1>3 DEF Turns, MetOK
<1> QED BY <1>8, <1>11, <1>12 DEF KeptInv

-------------------------------------------------------------------------------
(* Contacts: the slots *)

\* Thread t writes the slots of h: no other thread has a command on h, or h is noted.
Writer(t, h) ==
  /\ overlap \subseteq overlap'
  /\ \A u \in Thread : u # t => h \in overlap' \/ \A d \in Left(u) : d.host # h

\* Touch() notes a host that two threads use.
LEMMA TouchWriter ==
  ASSUME WorkOK, NEW t \in Thread, NEW h, Touch(t, h)
  PROVE  Writer(t, h)
<1>1. ASSUME NEW u \in Thread, u # t PROVE u = Other(t)
  BY <1>1 DEF Thread, Other
<1>2. \A u \in Thread : Busy(u, h) <=> \E d \in Left(u) : d.host = h
  BY BusyIs
<1>3. ASSUME NEW u \in Thread, u # t PROVE h \in overlap' \/ \A d \in Left(u) : d.host # h
  <2>1. CASE Busy(u, h)
    BY <1>1, <1>3, <2>1 DEF Touch
  <2>2. CASE ~Busy(u, h)
    BY <1>2, <2>2
  <2> QED BY <2>1, <2>2
<1>4. overlap \subseteq overlap'
  BY DEF Touch
<1> QED BY <1>3, <1>4 DEF Writer

\* A host has an array in each mode.
LEMMA SlotTyped ==
  ASSUME TypeOK, NEW a \in Addr, NEW mode \in Mode
  PROVE  /\ slots[a][mode] \in [1..Slots -> Slot]
         /\ \A i \in 1..Slots : slots[a][mode][i] \in Slot /\ slots[a][mode][i].n \in Nat
<1>1. slots \in [Addr -> [Mode -> [1..Slots -> Slot]]]
  BY DEF TypeOK
<1>2. slots[a][mode] \in [1..Slots -> Slot]
  BY <1>1
<1> QED BY <1>2 DEF Slot

\* What is left for a host that one thread is writing.
LEMMA WriterAlone ==
  ASSUME WorkOK, LinesOK, NEW t \in Thread, work[t] # <<>>, Turns(t, <<>>), NEW h, Writer(t, h), h \notin overlap',
         Head(work[t]).host = h, Head(work[t]).cmd \in {"contact", "replace", "purge", "free"}
  PROVE  /\ \A b : ~Coming(h, b)'
         /\ \A b : Coming(h, b) => Comes(Head(work[t]), h, b)
         /\ Head(work[t]).cmd \in {"contact", "replace"} => \A i : ~Gone(h, i)'
         /\ Head(work[t]).cmd \in {"purge", "free"} => \A i : Gone(h, i)
<1> DEFINE c == Head(work[t])
<1>1. /\ Left(t) = {c} \cup Rest(t) /\ Left(t)' = Rest(t)
      /\ \A d \in Rest(t) : Precedes(c, d)
      /\ \A u \in Thread : u # t => Left(u)' = Left(u) /\ \A d \in Left(u) : d.host # h
  BY Remaining, NoLine DEF Turns, Writer
<1>2. \A d \in Rest(t) : /\ c.cmd \in {"contact", "replace"} => d.cmd = "contact" /\ d.mode = "server"
                         /\ c.cmd \in {"purge", "free"} => d.cmd \in {"free", "serial"}
  BY <1>1 DEF Precedes
<1>3. \A d \in Rest(t) : \A b : ~Comes(d, h, b)
  BY <1>2 DEF Comes
<1>4. \A u \in Thread : u # t => \A d \in Left(u) : \A b, i : ~Comes(d, h, b) /\ ~Wipes(d, h, i)
  BY <1>1 DEF Comes, Wipes
<1>5. (\A b : ~Coming(h, b)') /\ \A b : Coming(h, b) => Comes(c, h, b)
  BY <1>1, <1>3, <1>4 DEF Coming
<1>6. ASSUME c.cmd \in {"contact", "replace"}, NEW i PROVE ~Gone(h, i)'
  <2>1. \A d \in Rest(t) : ~Wipes(d, h, i)
    BY <1>2, <1>6 DEF Wipes
  <2> QED BY <1>1, <1>4, <2>1 DEF Gone
<1>7. ASSUME c.cmd \in {"purge", "free"}, NEW i PROVE Gone(h, i)
  <2>1. Wipes(c, h, i) /\ ~Records(c, h, i) /\ \A d \in Rest(t) : ~Records(d, h, i)
    BY <1>2, <1>7 DEF Wipes, Records
  <2> QED BY <1>1, <2>1 DEF Gone
<1> QED BY <1>5, <1>6, <1>7

\* A step that writes the slots of h keeps what it keeps for h.
LEMMA WriterStep ==
  ASSUME ContactsInv, ContactsInv', KeptInv, NEW t \in Thread, work[t] # <<>>, NEW h \in Addr,
         Head(work[t]).host = h, Head(work[t]).cmd \in {"contact", "replace", "purge", "free"},
         work' = [work EXCEPT ![t] = Tail(@)], UNCHANGED <<names, ids, reg, counts, met, rows>>,
         \A g \in Addr : serial'[g] \in {0, serial[g]},
         \A a \in Addr : a # h => slots'[a] = slots[a], Writer(t, h),
         ~rows.begun => LifeOK',
         ~rows.begun /\ CountsGrow /\ Turns(t, <<>>) /\ Steady(h)' =>
           Prefixed(Mine(h))' /\ \A b \in Recorded : Kept(h, b)'
  PROVE  KeptInv'
<1> DEFINE c == Head(work[t])
<1>1. WorkOK /\ LinesOK /\ WorkOK' /\ TypeOK /\ CountsTyped /\ CountsOK /\ MetOK
  BY AtCommand
<1>2. Turns(t, <<>>) /\ InList(<<>>) = {}
  BY <1>1, Finished, NoLine
<1>3. KnownGrows
  BY <1>1, <1>2, KnownTurn
<1>4. CountsOK' /\ CountsGrow
  BY <1>1, <1>3, CountsSame
<1>5. /\ Left(t) = {c} \cup Rest(t) /\ Left(t)' = Rest(t) /\ Rest(t) \subseteq Orders
      /\ \A d \in Rest(t) : d.cmd \notin {"count", "replace"}
      /\ \A u \in Thread : u # t => Left(u)' = Left(u)
  <2>1. /\ Left(t) = {c} \cup Rest(t) /\ Left(t)' = Rest(t) /\ Rest(t) \subseteq Orders
        /\ \A d \in Rest(t) : Precedes(c, d)
        /\ \A u \in Thread : u # t => Left(u)' = Left(u)
    BY <1>1, <1>2, Remaining DEF Turns
  <2> QED BY <2>1 DEF Precedes
<1>6. ASSUME ~rows.begun PROVE NamesOK' /\ SlotsOK' /\ Ledger'
  <2>1. NamesOK /\ SlotsOK /\ Ledger
    BY <1>6 DEF KeptInv
  <2>2. NamesOK'
    <3>1. work'[t] # <<>> => Head(work'[t]).cmd \notin {"own", "count"}
      BY <1>1, NextIsPlain
    <3> QED BY <1>1, <1>2, <1>3, <2>1, <3>1, NamesTurn
  <2>3. \A a \in Addr : a # h => Mine(a)' = Mine(a)
    BY DEF Mine
  <2>4. \A a \in Addr : Steady(a)' => Steady(a)
    BY DEF Steady, Writer
  <2>5. ASSUME NEW u \in Thread, NEW d \in Left(u)' PROVE CountOK(d)' /\ ReplaceOK(d)'
    <3>1. CASE u = t
      BY <1>5, <2>5, <3>1 DEF CountOK, ReplaceOK
    <3>2. CASE u # t
      <4>1. d \in Left(u) /\ CountOK(d) /\ ReplaceOK(d)
        BY <1>5, <2>1, <2>5, <3>2 DEF SlotsOK
      <4>2. d.cmd \in {"count", "replace"} => d.host \in Addr
        BY <1>1, <2>5 DEF WorkOK, Left, InList, Orders, Complete, OnHost
      <4>3. CASE d.host = h
        BY <3>2, <4>1, <4>3 DEF Writer, CountOK, ReplaceOK, Steady
      <4>4. CASE d.host # h
        BY <2>3, <2>4, <4>1, <4>2, <4>4 DEF CountOK, ReplaceOK, Room
      <4> QED BY <4>3, <4>4
    <3> QED BY <3>1, <3>2
  <2>6. ASSUME NEW a \in Addr, Steady(a)' PROVE Prefixed(Mine(a))'
    <3>1. CASE a = h
      BY <1>2, <1>4, <1>6, <2>6, <3>1
    <3>2. CASE a # h
      <4>1. Prefixed(Mine(a))
        BY <2>1, <2>4, <2>6 DEF SlotsOK
      <4> QED BY <2>3, <3>2, <4>1 DEF Prefixed
    <3> QED BY <3>1, <3>2
  <2>7. SlotsOK'
    BY <2>5, <2>6 DEF SlotsOK
  <2>8. ASSUME NEW a \in Addr, NEW b \in Addr, Steady(a)', b \in Recorded PROVE Kept(a, b)'
    <3>1. CASE a = h
      BY <1>2, <1>4, <1>6, <2>8, <3>1
    <3>2. CASE a # h
      <4>1. Kept(a, b) /\ Mine(a)' = Mine(a)
        BY <2>1, <2>3, <2>4, <2>8, <3>2 DEF Ledger
      <4>2. \A i : ~Comes(c, a, b) /\ ~Wipes(c, a, i) /\ ~Records(c, a, i)
        BY <3>2 DEF Comes, Wipes, Records
      <4>3. Coming(a, b) => Coming(a, b)'
        BY <1>5, <4>2 DEF Coming
      <4>4. \A i \in 1..Slots : InSlot(a, b, i) => ~Gone(a, i)'
        BY <1>5, <4>2 DEF Gone, InSlot
      <4> QED BY <1>1, <1>4, <4>1, <4>3, <4>4, KeptStays
    <3> QED BY <3>1, <3>2
  <2>9. Ledger'
    BY <2>8 DEF Ledger
  <2> QED BY <2>2, <2>7, <2>9
<1>7. LinesOK' /\ MetOK'
  BY <1>1, <1>2 DEF Turns, MetOK
<1> QED BY <1>4, <1>6, <1>7 DEF KeptInv

\* The slot that takes a contact, and what it leaves of the array.
Takes(array, p, j, put) ==
  /\ array \in [1..Slots -> Slot] /\ Room(array, p) # {}
  /\ j = Min(Room(array, p)) /\ put = PutContact(array, p)
Taken(array, p, j, put) ==
  /\ j \in 1..Slots /\ (array[j].n = 0 \/ array[j].peer = p)
  /\ \A i \in 1..Slots : array[i].n = 0 \/ array[i].peer = p => j <= i
  /\ put[j].peer = p /\ put[j].n = array[j].n + 1
  /\ \A i \in 1..Slots : array[i].n \in Nat /\ (i # j => put[i] = array[i])

\* The slot that takes a contact has one more.
LEMMA PutThere ==
  ASSUME NEW array, NEW p, NEW j, NEW put, Takes(array, p, j, put)
  PROVE  Taken(array, p, j, put)
<1>1. Room(array, p) \in SUBSET Nat /\ Room(array, p) \subseteq 1..Slots
  BY ContactsAssumption DEF Room
<1>2. \E x \in Room(array, p) : \A y \in Room(array, p) : x <= y
  BY <1>1, Smallest DEF Takes
<1>3. j \in Room(array, p) /\ \A i \in Room(array, p) : j <= i
  BY <1>2 DEF Min, Takes
<1>4. j \in 1..Slots /\ (array[j].n = 0 \/ array[j].peer = p)
  BY <1>3 DEF Room
<1>5. \A i \in 1..Slots : array[i].n = 0 \/ array[i].peer = p => j <= i
  BY <1>3 DEF Room
<1>6. put = [array EXCEPT ![j] = [peer |-> p, n |-> array[j].n + 1]]
  BY DEF PutContact, Takes
<1>7. put[j].peer = p /\ put[j].n = array[j].n + 1
  BY <1>4, <1>6 DEF Takes
<1>8. \A i \in 1..Slots : array[i].n \in Nat /\ (i # j => put[i] = array[i])
  BY <1>6 DEF Takes, Slot
<1> QED BY <1>4, <1>5, <1>7, <1>8 DEF Taken

\* The used slots still come first, one a peer.
LEMMA PutPrefixed ==
  ASSUME NEW array, NEW p, NEW j, NEW put, Takes(array, p, j, put), Prefixed(array)
  PROVE  /\ Prefixed(put)
         /\ \A i \in 1..Slots : array[i].n > 0 /\ array[i].peer = p => i = j
<1>1. j \in 1..Slots /\ (array[j].n = 0 \/ array[j].peer = p)
  BY PutThere DEF Taken
<1>2. \A i \in 1..Slots : array[i].n = 0 \/ array[i].peer = p => j <= i
  BY PutThere DEF Taken
<1>3. put[j].peer = p /\ put[j].n = array[j].n + 1
  BY PutThere DEF Taken
<1>4. \A i \in 1..Slots : i # j => put[i] = array[i]
  BY PutThere DEF Taken
<1>5. \A i \in 1..Slots : array[i].n \in Nat
  BY PutThere DEF Taken
<1>6. \A i, k \in 1..Slots : i < k /\ array[k].n > 0 => array[i].n > 0 /\ array[i].peer # array[k].peer
  BY DEF Prefixed
<1>7. ASSUME NEW i \in 1..Slots, array[i].n > 0, array[i].peer = p PROVE i = j
  <2>1. j <= i
    BY <1>2, <1>7
  <2>2. ~(j < i)
    BY <1>1, <1>5, <1>6, <1>7
  <2> QED BY <1>1, <2>1, <2>2
<1>8. ASSUME NEW i \in 1..Slots, NEW k \in 1..Slots, i < k, put[k].n > 0
      PROVE  put[i].n > 0 /\ put[i].peer # put[k].peer
  <2>1. CASE k = j
    <3>1. ~(j <= i)
      BY <1>1, <1>8, <2>1
    <3>2. array[i].n # 0 /\ array[i].peer # p
      BY <1>2, <3>1
    <3>3. put[i] = array[i]
      BY <1>4, <1>8, <2>1
    <3> QED BY <1>3, <1>5, <2>1, <3>2, <3>3
  <2>2. CASE i = j
    <3>1. k # j
      BY <1>1, <1>8, <2>2
    <3>2. put[k] = array[k] /\ array[k].n > 0
      BY <1>4, <1>8, <3>1
    <3>3. array[j].n > 0 /\ array[j].peer # array[k].peer
      BY <1>6, <1>8, <2>2, <3>2
    <3>4. array[j].peer = p
      BY <1>1, <3>3
    <3>5. put[j].n > 0
      BY <1>1, <1>3, <1>5
    <3> QED BY <1>3, <2>2, <3>2, <3>3, <3>4, <3>5
  <2>3. CASE k # j /\ i # j
    <3>1. put[i] = array[i] /\ put[k] = array[k]
      BY <1>4, <2>3
    <3> QED BY <1>6, <1>8, <3>1
  <2> QED BY <2>1, <2>2, <2>3
<1> QED BY <1>7, <1>8 DEF Prefixed

\* A host that stays there, with its number, while it has a contact or is flushed.
LEMMA LifeDone ==
  ASSUME LifeOK, WorkOK, WorkOK', LinesOK, NEW t \in Thread, work[t] # <<>>,
         work' = [work EXCEPT ![t] = Tail(@)], UNCHANGED <<alive, serial>>,
         Head(work[t]).cmd \notin {"serial", "own"}
  PROVE  LifeOK'
<1>1. Turns(t, <<>>) /\ InList(<<>>) = {}
  BY Finished, NoLine
<1> QED BY <1>1, LifeTurn

\* A contact that finds room is in its slot.
LEMMA ContactRoomKept ==
  ASSUME ContactsInv, ContactsInv', KeptInv, NEW t \in Thread, work[t] # <<>>, IncrIPContacts(t),
         Room(slots[Head(work[t]).host][Head(work[t]).mode], Head(work[t]).peer) # {}
  PROVE  KeptInv'
<1> DEFINE c == Head(work[t])
<1>1. PICK h, m, p : h = c.host /\ m = c.mode /\ p = c.peer
  OBVIOUS
<1>2. /\ WorkOK /\ LinesOK /\ WorkOK' /\ TypeOK /\ MetOK /\ c.cmd = "contact"
      /\ h \in Addr /\ p \in Addr /\ m \in Mode
  <2>1. c.cmd = "contact"
    BY DEF IncrIPContacts
  <2> HIDE DEF c
  <2> QED BY <1>1, <2>1, AtCommand DEF OnHost, OnPeer, c
<1>3. /\ UNCHANGED <<names, ids, reg, counts, met, rows, serial, alive>>
      /\ slots' = [slots EXCEPT ![h][m] = PutContact(slots[h][m], p)]
      /\ work' = [work EXCEPT ![t] = Tail(@)] /\ Touch(t, h)
  BY <1>1 DEF IncrIPContacts, store, dump
<1>4. Writer(t, h)
  BY <1>2, <1>3, TouchWriter
<1>5. /\ \A a \in Addr : a # h => slots'[a] = slots[a]
      /\ slots'[h][m] = PutContact(slots[h][m], p) /\ \A k \in Mode : k # m => slots'[h][k] = slots[h][k]
  <2>1. slots \in [Addr -> [Mode -> [1..Slots -> Slot]]]
    BY <1>2 DEF TypeOK
  <2> QED BY <1>2, <1>3, <2>1
<1>6. Room(slots[h][m], p) # {} /\ slots[h][m] \in [1..Slots -> Slot]
  BY <1>1, <1>2, SlotTyped
<1>7. ~rows.begun => LifeOK'
  BY <1>2, <1>3, LifeDone DEF KeptInv
<1>8. ASSUME ~rows.begun, CountsGrow, Turns(t, <<>>), Steady(h)'
      PROVE  Prefixed(Mine(h))' /\ \A b \in Recorded : Kept(h, b)'
  <2>1. SlotsOK /\ Ledger /\ Steady(h) /\ h \notin overlap' /\ "client" \in Mode
    BY <1>4, <1>8 DEF KeptInv, Steady, Writer, Mode
  <2>2. Prefixed(Mine(h)) /\ \A b \in Recorded : Kept(h, b)
    BY <1>2, <2>1, ContactsAssumption DEF SlotsOK, Ledger
  <2>3. /\ \A b : ~Coming(h, b)' /\ (Coming(h, b) => Comes(c, h, b))
        /\ \A i : ~Gone(h, i)'
    BY <1>1, <1>2, <1>4, <1>8, <2>1, WriterAlone
  <2>4. CASE m # "client"
    <3>1. Mine(h)' = Mine(h)
      BY <1>5, <2>1, <2>4 DEF Mine
    <3>2. ASSUME NEW b \in Recorded PROVE Kept(h, b)'
      <4>1. ~Coming(h, b)
        BY <1>1, <2>3, <2>4 DEF Comes
      <4> QED BY <1>2, <1>3, <1>8, <2>2, <2>3, <3>1, <4>1, ContactsAssumption, KeptStays
    <3> QED BY <2>2, <3>1, <3>2 DEF Prefixed
  <2>5. CASE m = "client"
    <3>10. PICK array : array = Mine(h)
      OBVIOUS
    <3>11. Mine(h)' = PutContact(array, p) /\ Room(array, p) # {} /\ array \in [1..Slots -> Slot]
      BY <1>5, <1>6, <2>5, <3>10 DEF Mine
    <3>1. PICK j, put : Mine(h)' = put /\ Takes(array, p, j, put)
      BY <3>11 DEF Takes
    <3>2. /\ Prefixed(put)
          /\ \A i \in 1..Slots : array[i].n > 0 /\ array[i].peer = p => i = j
      BY <2>2, <3>1, <3>10, <3>11, PutPrefixed
    <3>3. /\ j \in 1..Slots /\ (array[j].n = 0 \/ array[j].peer = p)
          /\ put[j].peer = p /\ put[j].n = array[j].n + 1
          /\ \A i \in 1..Slots : i # j => put[i] = array[i]
      BY <3>1, PutThere DEF Taken
    <3>4. \A i \in 1..Slots : array[i].n \in Nat
      BY <3>1, PutThere DEF Taken
    <3>5. Prefixed(Mine(h))'
      BY <3>1, <3>2 DEF Prefixed
    <3>6. ASSUME NEW b \in Recorded PROVE Kept(h, b)'
      <4>1. /\ met[<<h, b>>] \in Nat /\ met'[<<h, b>>] = met[<<h, b>>] /\ b \in Addr
        BY <1>2, <1>3, ContactsAssumption DEF MetOK
      <4>2. /\ SoFar(h, b) \in Nat /\ SoFar(h, b)' \in Nat /\ SoFar(h, b) <= SoFar(h, b)'
            /\ Booked(h, b)' = SoFar(h, b)' + 0 /\ Booked(h, b) \in Nat
            /\ Booked(h, b) <= SoFar(h, b) + 1 /\ (b # p => Booked(h, b) = SoFar(h, b) + 0)
        <5>1. SoFar(h, b) \in Nat /\ SoFar(h, b)' \in Nat /\ SoFar(h, b) <= SoFar(h, b)'
          BY <1>8 DEF CountsGrow
        <5>2. ~Coming(h, b)' /\ (b # p => ~Coming(h, b))
          BY <1>1, <2>3 DEF Comes
        <5> QED BY <5>1, <5>2 DEF Booked
      <4>3. CASE b = p
        <5>1. met[<<h, b>>] <= SoFar(h, b) + 1 + array[j].n
          <6>1. CASE met[<<h, b>>] <= Booked(h, b)
            BY <3>3, <3>4, <4>1, <4>2, <6>1
          <6>2. ASSUME NEW i \in 1..Slots, InSlot(h, b, i) PROVE met[<<h, b>>] <= SoFar(h, b) + 1 + array[j].n
            <7>1. i = j /\ met[<<h, b>>] <= Booked(h, b) + array[j].n
              BY <3>2, <3>10, <4>3, <6>2 DEF InSlot
            <7> QED BY <3>3, <3>4, <4>1, <4>2, <7>1
          <6> QED BY <2>2, <6>1, <6>2 DEF Kept
        <5>2. /\ put[j].peer = b /\ put[j].n > 0 /\ ~Gone(h, j)'
              /\ met'[<<h, b>>] <= Booked(h, b)' + put[j].n
          <6>1. put[j].peer = b /\ ~Gone(h, j)'
            BY <2>3, <3>3, <4>3
          <6>2. put[j].n = array[j].n + 1 /\ array[j].n \in Nat
            BY <3>3, <3>4
          <6>3. met'[<<h, b>>] <= Booked(h, b)' + put[j].n
            BY <4>1, <4>2, <5>1, <6>2
          <6> QED BY <6>1, <6>2, <6>3
        <5>3. InSlot(h, b, j)'
          BY <3>1, <5>2 DEF InSlot
        <5> QED BY <3>3, <5>3 DEF Kept
      <4>4. CASE b # p
        <5>1. CASE met[<<h, b>>] <= Booked(h, b)
          BY <4>1, <4>2, <4>4, <5>1 DEF Kept
        <5>2. ASSUME NEW i \in 1..Slots, InSlot(h, b, i) PROVE InSlot(h, b, i)'
          <6>1. array[i].peer = b /\ array[i].n > 0 /\ met[<<h, b>>] <= Booked(h, b) + array[i].n
            BY <3>10, <5>2 DEF InSlot
          <6>2. i # j
            BY <3>3, <3>4, <4>4, <6>1
          <6>3. put[i] = array[i]
            BY <3>3, <6>2
          <6>4. /\ put[i].peer = b /\ put[i].n > 0 /\ ~Gone(h, i)'
                /\ met'[<<h, b>>] <= Booked(h, b)' + put[i].n
            BY <2>3, <3>4, <4>1, <4>2, <4>4, <6>1, <6>3
          <6> QED BY <3>1, <6>4 DEF InSlot
        <5> QED BY <2>2, <5>1, <5>2 DEF Kept
      <4> QED BY <4>3, <4>4
    <3> QED BY <3>5, <3>6
  <2> QED BY <2>4, <2>5
<1> QED BY <1>1, <1>2, <1>3, <1>4, <1>5, <1>7, <1>8, WriterStep

\* The slot that is given away has been counted, and the contact is in it.
LEMMA ReplaceSlotKept ==
  ASSUME ContactsInv, ContactsInv', KeptInv, NEW t \in Thread, work[t] # <<>>, ReplaceSlot(t)
  PROVE  KeptInv'
<1> DEFINE c == Head(work[t])
<1>1. PICK h, m, p, s : h = c.host /\ m = c.mode /\ p = c.peer /\ s = c.slot
  OBVIOUS
<1>2. /\ WorkOK /\ LinesOK /\ WorkOK' /\ TypeOK /\ MetOK /\ c.cmd = "replace"
      /\ h \in Addr /\ p \in Addr /\ m \in Mode /\ s \in 1..Slots
  <2>1. c.cmd = "replace"
    BY DEF ReplaceSlot
  <2> HIDE DEF c
  <2> QED BY <1>1, <2>1, AtCommand DEF OnHost, OnPeer, Orders, Complete, c
<1>3. /\ UNCHANGED <<names, ids, reg, counts, met, rows, serial, alive>>
      /\ slots' = [slots EXCEPT ![h][m][s] = [peer |-> p, n |-> 1]]
      /\ work' = [work EXCEPT ![t] = Tail(@)] /\ Touch(t, h)
  BY <1>1 DEF ReplaceSlot, store, dump
<1>4. Writer(t, h)
  BY <1>2, <1>3, TouchWriter
<1>5. /\ \A a \in Addr : a # h => slots'[a] = slots[a]
      /\ \A k \in Mode : k # m => slots'[h][k] = slots[h][k]
      /\ slots'[h][m][s].peer = p /\ slots'[h][m][s].n = 1
      /\ \A i \in 1..Slots : i # s => slots'[h][m][i] = slots[h][m][i]
  <2>1. slots \in [Addr -> [Mode -> [1..Slots -> Slot]]]
    BY <1>2 DEF TypeOK
  <2>2. slots'[h] = [slots[h] EXCEPT ![m][s] = [peer |-> p, n |-> 1]] /\ \A a \in Addr : a # h => slots'[a] = slots[a]
    BY <1>2, <1>3, <2>1
  <2>3. /\ slots'[h][m] = [slots[h][m] EXCEPT ![s] = [peer |-> p, n |-> 1]]
        /\ \A k \in Mode : k # m => slots'[h][k] = slots[h][k]
    BY <1>2, <2>1, <2>2
  <2>4. slots[h][m] \in [1..Slots -> Slot]
    BY <1>2, <2>1
  <2> HIDE DEF c
  <2>5. slots'[h][m][s] = [peer |-> p, n |-> 1] /\ \A i \in 1..Slots : i # s => slots'[h][m][i] = slots[h][m][i]
    BY <1>2, <2>3, <2>4
  <2> QED BY <2>2, <2>3, <2>5
<1>6. ~rows.begun => LifeOK'
  BY <1>2, <1>3, LifeDone DEF KeptInv
<1>7. ASSUME ~rows.begun, CountsGrow, Turns(t, <<>>), Steady(h)'
      PROVE  Prefixed(Mine(h))' /\ \A b \in Recorded : Kept(h, b)'
  <2>1. SlotsOK /\ Ledger /\ Steady(h) /\ h \notin overlap' /\ "client" \in Mode
    BY <1>4, <1>7 DEF KeptInv, Steady, Writer, Mode
  <2>2. Prefixed(Mine(h)) /\ \A b \in Recorded : Kept(h, b)
    BY <1>2, <2>1, ContactsAssumption DEF SlotsOK, Ledger
  <2>3. /\ \A b : ~Coming(h, b)' /\ (Coming(h, b) => Comes(c, h, b))
        /\ \A i : ~Gone(h, i)'
    BY <1>1, <1>2, <1>4, <1>7, <2>1, WriterAlone
  <2>4. CASE m # "client"
    <3>1. Mine(h)' = Mine(h)
      BY <1>5, <2>1, <2>4 DEF Mine
    <3>2. ASSUME NEW b \in Recorded PROVE Kept(h, b)'
      <4>1. ~Coming(h, b)
        BY <1>1, <2>3, <2>4 DEF Comes
      <4> QED BY <1>2, <1>3, <1>7, <2>2, <2>3, <3>1, <4>1, ContactsAssumption, KeptStays
    <3> QED BY <2>2, <3>1, <3>2 DEF Prefixed
  <2>5. CASE m = "client"
    <3>1. PICK array, put : array = Mine(h) /\ put = Mine(h)'
      OBVIOUS
    <3>2. /\ \A i \in 1..Slots : array[i].n \in Nat
          /\ put[s].peer = p /\ put[s].n = 1 /\ \A i \in 1..Slots : i # s => put[i] = array[i]
      <4>1. \A i \in 1..Slots : slots[h]["client"][i].n \in Nat
        BY <1>2, <2>1, SlotTyped
      <4> QED BY <1>5, <2>5, <3>1, <4>1 DEF Mine
    <3>3. \A i \in 1..Slots : array[i].n > 0 /\ array[i].peer # p
      <4>1. ReplaceOK(c)
        <5>1. c \in Left(t)
          BY <1>2, Remaining
        <5> QED BY <2>1, <5>1 DEF SlotsOK
      <4>2. Room(array, p) = {}
        BY <1>1, <1>2, <2>1, <2>5, <3>1, <4>1 DEF ReplaceOK
      <4>3. \A i \in 1..Slots : array[i].n # 0 /\ array[i].peer # p
        BY <4>2 DEF Room
      <4> QED BY <3>2, <4>3
    <3>4. ASSUME NEW i \in 1..Slots, NEW k \in 1..Slots, i < k PROVE put[i].n > 0 /\ put[i].peer # put[k].peer
      <4>1. put[i].n > 0
        BY <3>2, <3>3
      <4>2. CASE k = s
        <5>1. i # s
          BY <3>4, <4>2
        <5> QED BY <3>2, <3>3, <4>1, <4>2, <5>1
      <4>3. CASE i = s
        <5>1. k # s
          BY <3>4, <4>3
        <5> QED BY <3>2, <3>3, <4>1, <4>3, <5>1
      <4>4. CASE k # s /\ i # s
        <5>1. array[i].peer # array[k].peer
          BY <2>2, <3>1, <3>3, <3>4 DEF Prefixed
        <5> QED BY <3>2, <4>1, <4>4, <5>1
      <4> QED BY <4>2, <4>3, <4>4
    <3>5. Prefixed(Mine(h))'
      BY <3>1, <3>4 DEF Prefixed
    <3>6. ASSUME NEW b \in Recorded PROVE Kept(h, b)'
      <4>1. /\ met[<<h, b>>] \in Nat /\ met'[<<h, b>>] = met[<<h, b>>] /\ b \in Addr
        BY <1>2, <1>3, ContactsAssumption DEF MetOK
      <4>2. /\ SoFar(h, b) \in Nat /\ SoFar(h, b)' \in Nat /\ SoFar(h, b) <= SoFar(h, b)'
            /\ Booked(h, b)' = SoFar(h, b)' + 0 /\ Booked(h, b) \in Nat
            /\ Booked(h, b) <= SoFar(h, b) + 1 /\ (b # p => Booked(h, b) = SoFar(h, b) + 0)
        <5>1. SoFar(h, b) \in Nat /\ SoFar(h, b)' \in Nat /\ SoFar(h, b) <= SoFar(h, b)'
          BY <1>7 DEF CountsGrow
        <5>2. ~Coming(h, b)' /\ (b # p => ~Coming(h, b))
          BY <1>1, <2>3 DEF Comes
        <5> QED BY <5>1, <5>2 DEF Booked
      <4>3. CASE b = p
        <5>1. met[<<h, b>>] <= Booked(h, b)
          BY <2>2, <3>1, <3>3, <4>3 DEF Kept, InSlot
        <5>2. /\ put[s].peer = b /\ put[s].n > 0 /\ ~Gone(h, s)'
              /\ met'[<<h, b>>] <= Booked(h, b)' + put[s].n
          BY <2>3, <3>2, <4>1, <4>2, <4>3, <5>1
        <5>3. InSlot(h, b, s)'
          BY <3>1, <5>2 DEF InSlot
        <5> QED BY <1>2, <5>3 DEF Kept
      <4>4. CASE b # p
        <5>1. CASE met[<<h, b>>] <= Booked(h, b)
          BY <4>1, <4>2, <4>4, <5>1 DEF Kept
        <5>2. ASSUME NEW i \in 1..Slots, InSlot(h, b, i) PROVE InSlot(h, b, i)'
          <6>1. /\ array[i].peer = b /\ array[i].n > 0 /\ met[<<h, b>>] <= Booked(h, b) + array[i].n
                /\ ~Gone(h, i)
            BY <3>1, <5>2 DEF InSlot
          <6>2. i # s
            <7>1. Left(t) = {c} \cup Rest(t) /\ \A d \in Rest(t) : Precedes(c, d)
              BY <1>2, Remaining
            <7>2. Wipes(c, h, s) /\ ~Records(c, h, s) /\ \A d \in Rest(t) : ~Records(d, h, s)
              BY <1>1, <1>2, <2>5, <7>1 DEF Wipes, Records, Precedes
            <7>3. Gone(h, s)
              BY <7>1, <7>2 DEF Gone
            <7> QED BY <6>1, <7>3
          <6>3. put[i] = array[i]
            BY <3>2, <6>2
          <6>4. /\ put[i].peer = b /\ put[i].n > 0 /\ ~Gone(h, i)'
                /\ met'[<<h, b>>] <= Booked(h, b)' + put[i].n
            BY <2>3, <3>2, <4>1, <4>2, <4>4, <6>1, <6>3
          <6> QED BY <3>1, <6>4 DEF InSlot
        <5> QED BY <2>2, <5>1, <5>2 DEF Kept
      <4> QED BY <4>3, <4>4
    <3> QED BY <3>5, <3>6
  <2> QED BY <2>4, <2>5
<1> QED BY <1>1, <1>2, <1>3, <1>4, <1>5, <1>6, <1>7, WriterStep

\* Slots that are emptied had been counted.
LEMMA Emptied ==
  ASSUME ContactsInv, ContactsInv', KeptInv, NEW t \in Thread, work[t] # <<>>, NEW h \in Addr,
         h = Head(work[t]).host, Head(work[t]).cmd \in {"purge", "free"}, Writer(t, h), met' = met,
         slots' = [slots EXCEPT ![h] = [mode \in Mode |-> [i \in 1..Slots |-> Empty]]],
         ~rows.begun, CountsGrow, Turns(t, <<>>), Steady(h)'
  PROVE  Prefixed(Mine(h))' /\ \A b \in Recorded : Kept(h, b)'
<1>1. /\ WorkOK /\ LinesOK /\ TypeOK /\ MetOK
  BY AtCommand
<1>2. Ledger /\ Steady(h) /\ h \notin overlap' /\ "client" \in Mode
  BY DEF KeptInv, Steady, Writer, Mode
<1>3. /\ \A b : ~Coming(h, b)' /\ (Coming(h, b) => Comes(Head(work[t]), h, b))
      /\ \A i : Gone(h, i)
  BY <1>1, <1>2, WriterAlone
<1>4. \A i \in 1..Slots : Mine(h)'[i] = Empty
  BY <1>1, <1>2 DEF TypeOK, Mine
<1>5. Prefixed(Mine(h))'
  <2>1. ~(Empty.n > 0)
    BY DEF Empty
  <2> QED BY <1>4, <2>1 DEF Prefixed
<1>6. ASSUME NEW b \in Recorded PROVE Kept(h, b)'
  <2>1. met[<<h, b>>] <= Booked(h, b)
    <3>1. Kept(h, b) /\ \A i \in 1..Slots : ~InSlot(h, b, i)
      BY <1>2, <1>3, ContactsAssumption DEF Ledger, InSlot
    <3> QED BY <3>1 DEF Kept
  <2>2. ~Coming(h, b) /\ ~Coming(h, b)'
    BY <1>3 DEF Comes
  <2>3. Booked(h, b) = SoFar(h, b) + 0 /\ Booked(h, b)' = SoFar(h, b)' + 0
    BY <2>2 DEF Booked
  <2>4. met'[<<h, b>>] <= Booked(h, b)'
    <3>1. met[<<h, b>>] \in Nat
      BY <1>1, ContactsAssumption DEF MetOK
    <3>2. SoFar(h, b) \in Nat /\ SoFar(h, b)' \in Nat /\ SoFar(h, b) <= SoFar(h, b)'
      BY DEF CountsGrow
    <3> QED BY <2>1, <2>3, <3>1, <3>2
  <2> QED BY <2>4 DEF Kept
<1> QED BY <1>5, <1>6

\* purgeAll() empties slots that have been counted.
LEMMA PurgeAllKept ==
  ASSUME ContactsInv, ContactsInv', KeptInv, NEW t \in Thread, work[t] # <<>>, PurgeAll(t)
  PROVE  KeptInv'
<1> DEFINE c == Head(work[t])
<1>1. PICK h : h = c.host
  OBVIOUS
<1>2. WorkOK /\ LinesOK /\ WorkOK' /\ TypeOK /\ c.cmd = "purge" /\ h \in Addr
  <2>1. c.cmd = "purge"
    BY DEF PurgeAll
  <2> HIDE DEF c
  <2> QED BY <1>1, <2>1, AtCommand DEF OnHost, c
<1>3. /\ UNCHANGED <<names, ids, reg, counts, met, rows, serial, alive>>
      /\ slots' = [slots EXCEPT ![h] = [mode \in Mode |-> [i \in 1..Slots |-> Empty]]]
      /\ work' = [work EXCEPT ![t] = Tail(@)] /\ Touch(t, h)
  BY <1>1 DEF PurgeAll, store, dump
<1>4. Writer(t, h)
  BY <1>2, <1>3, TouchWriter
<1>5. \A a \in Addr : a # h => slots'[a] = slots[a]
  BY <1>2, <1>3 DEF TypeOK
<1>6. ~rows.begun => LifeOK'
  BY <1>2, <1>3, LifeDone DEF KeptInv
<1>7. ASSUME ~rows.begun, CountsGrow, Turns(t, <<>>), Steady(h)'
      PROVE  Prefixed(Mine(h))' /\ \A b \in Recorded : Kept(h, b)'
  BY <1>1, <1>2, <1>3, <1>4, <1>7, Emptied
<1>8. c.host = h /\ c.cmd \in {"contact", "replace", "purge", "free"} /\ \A g \in Addr : serial'[g] \in {0, serial[g]}
  BY <1>1, <1>2, <1>3
<1>9. KeptInv'
  BY <1>2, <1>3, <1>4, <1>5, <1>6, <1>7, <1>8, WriterStep
<1> QED BY <1>9

\* ~Host() ends with slots that have been counted, and its number stays known in Redis.
LEMMA FreeHostKept ==
  ASSUME ContactsInv, ContactsInv', KeptInv, NEW t \in Thread, work[t] # <<>>, FreeHost(t)
  PROVE  KeptInv'
<1> DEFINE c == Head(work[t])
<1>1. PICK h : h = c.host
  OBVIOUS
<1>2. WorkOK /\ LinesOK /\ WorkOK' /\ TypeOK /\ c.cmd = "free" /\ h \in Addr
  <2>1. c.cmd = "free"
    BY DEF FreeHost
  <2> HIDE DEF c
  <2> QED BY <1>1, <2>1, AtCommand DEF OnHost, c
<1>3. /\ UNCHANGED <<names, ids, reg, counts, met, rows, overlap>>
      /\ slots' = [slots EXCEPT ![h] = [mode \in Mode |-> [i \in 1..Slots |-> Empty]]]
      /\ work' = [work EXCEPT ![t] = Tail(@)]
      /\ serial' = [serial EXCEPT ![h] = 0] /\ alive' = alive \ {h}
  BY <1>1 DEF FreeHost, store, dump
<1>4. t = "packets" /\ Left(t) = {c} \cup Rest(t) /\ Rest(t) = {} /\ Left(t)' = {}
      /\ \A u \in Thread : u # t => u = "script" /\ Left(u)' = Left(u)
  <2>1. /\ Left(t) = {c} \cup Rest(t) /\ \A d \in Rest(t) : Precedes(c, d)
        /\ (t = "script" => c.cmd \notin Poller)
    BY <1>2, Remaining
  <2>2. Rest(t) = {}
    BY <1>2, <2>1 DEF Precedes
  <2>3. Turns(t, <<>>) /\ InList(<<>>) = {}
    BY <1>2, <1>3, Finished, NoLine
  <2>4. t = "packets" /\ \A u \in Thread : u # t => u = "script"
    BY <1>2, <2>1 DEF Thread, Poller
  <2> QED BY <2>1, <2>2, <2>3, <2>4 DEF Turns
<1>5. ~rows.begun => \A d \in Left("script") : d.host # h
  BY <1>1, <1>2, <1>4 DEF KeptInv, LifeOK
<1>6. ASSUME ~rows.begun PROVE LifeOK'
  <2>1. LifeOK /\ "script" \in Thread /\ "packets" \in Thread
    BY <1>6 DEF KeptInv, Thread
  <2>2. \A d \in Left("packets")' : FALSE
    BY <1>4
  <2>3. ASSUME NEW u \in Thread, NEW d \in Left(u)' PROVE Alive(d)'
    <3>1. u = "script" /\ d \in Left("script") /\ Alive(d) /\ d.host # h
      BY <1>4, <1>5, <1>6, <2>1, <2>3 DEF LifeOK
    <3> QED BY <1>3, <3>1 DEF Alive
  <2>4. \A g \in alive' \cap Local : serial'[g] # 0
    <3>1. \A g \in Addr : g # h => serial'[g] = serial[g]
      BY <1>2, <1>3 DEF TypeOK
    <3> QED BY <1>3, <2>1, <3>1, ContactsAssumption DEF LifeOK, Local
  <2> QED BY <2>2, <2>3, <2>4 DEF LifeOK
<1>7. CASE rows.begun
  <2>1. TypeOK /\ CountsTyped /\ CountsOK /\ MetOK
    BY AtCommand
  <2>2. Turns(t, <<>>)
    BY <1>2, <1>3, Finished
  <2>3. rows'.begun
    BY <1>3, <1>7
  <2> QED BY <1>3, <2>1, <2>2, <2>3 DEF KeptInv, Turns, CountsOK, MetOK
<1>8. CASE ~rows.begun
  <2>1. Writer(t, h)
    BY <1>3, <1>4, <1>5, <1>8 DEF Writer
  <2>2. \A a \in Addr : a # h => slots'[a] = slots[a]
    BY <1>2, <1>3 DEF TypeOK
  <2>3. \A g \in Addr : serial'[g] \in {0, serial[g]}
    BY <1>2, <1>3 DEF TypeOK
  <2>4. ~rows.begun /\ CountsGrow /\ Turns(t, <<>>) /\ Steady(h)' =>
          Prefixed(Mine(h))' /\ \A b \in Recorded : Kept(h, b)'
    BY <1>1, <1>2, <1>3, <2>1, Emptied
  <2> QED BY <1>1, <1>2, <1>3, <1>6, <2>1, <2>2, <2>3, <2>4, WriterStep
<1> QED BY <1>7, <1>8

-------------------------------------------------------------------------------
(* Contacts: the commands that others take the place of *)

\* The commands by which a slot is counted and given away.
Written == {"peer", "count", "reverse", "replace", "all", "allServer"}

\* A command that others take the place of leaves all its slots to be counted.
LEMMA WrittenStep ==
  ASSUME ContactsInv, ContactsInv', KeptInv, NEW t \in Thread, work[t] # <<>>, NEW p,
         NEW c, c = Head(work[t]), c.cmd \in {"contact", "dump", "all", "allServer"},
         Replaces(c, p), \A x \in InList(p) : x.cmd \in Written /\ x.host = c.host,
         \A x \in InList(p) : x.cmd = "replace" => c.cmd = "contact",
         p # <<>> => p[1].cmd # "count",
         work' = [work EXCEPT ![t] = p \o Tail(work[t])],
         UNCHANGED <<slots, serial, ids, names, reg, counts, met, rows, overlap, alive>>,
         c.cmd = "contact" => \E x \in InList(p) : x.cmd = "replace" /\ x.peer = c.peer /\ x.mode = c.mode,
         ~rows.begun => \A x \in InList(p) : OwnKnown(x) /\ CountOK(x) /\ ReplaceOK(x),
         ~rows.begun => \A b \in Recorded, i \in 1..Slots :
           Steady(c.host) /\ Mine(c.host)[i].peer = b /\ Mine(c.host)[i].n > 0 =>
             /\ Records(c, c.host, i) => \E x \in InList(p) : Records(x, c.host, i)
             /\ (\E x \in InList(p) : Wipes(x, c.host, i)) => \E x \in InList(p) : Records(x, c.host, i)
  PROVE  KeptInv'
<1>1. /\ WorkOK /\ LinesOK /\ WorkOK' /\ TypeOK /\ CountsTyped /\ CountsOK /\ MetOK
  BY AtCommand
<1>2. Turns(t, p) /\ (p # <<>> => work'[t] # <<>> /\ Head(work'[t]) = p[1])
  <2>1. \A x \in InList(p) : t = "script" => x.cmd \notin Poller
    BY <1>1, Remaining DEF Written, Poller
  <2> QED BY <1>1, <2>1, Expanded
<1>3. KnownGrows
  BY <1>2, KnownTurn
<1>4. CountsOK' /\ CountsGrow
  BY <1>1, <1>3, CountsSame
<1>5. /\ Left(t) = {c} \cup Rest(t) /\ Left(t)' = InList(p) \cup Rest(t)
      /\ \A u \in Thread : u # t => Left(u)' = Left(u)
  BY <1>1, <1>2, Remaining DEF Turns
<1>6. work'[t] # <<>> => Head(work'[t]).cmd \notin {"own", "count"}
  <2>1. CASE p = <<>>
    <3>1. work' = [work EXCEPT ![t] = Tail(@)]
      <4>1. <<>> \o Tail(work[t]) = Tail(work[t])
        BY <1>1 DEF WorkOK
      <4> QED BY <2>1, <4>1
    <3> QED BY <1>1, <3>1, NextIsPlain
  <2>2. CASE p # <<>>
    <3>1. p[1] \in InList(p)
      <4>1. p \in Seq(Orders)
        BY DEF Replaces
      <4>2. 1 \in 1..Len(p)
        BY <2>2, <4>1
      <4> QED BY <4>2 DEF InList
    <3> QED BY <1>2, <2>2, <3>1 DEF Written
  <2> QED BY <2>1, <2>2
<1>7. ASSUME ~rows.begun PROVE NamesOK' /\ LifeOK' /\ SlotsOK' /\ Ledger'
  <2>1. NamesOK /\ LifeOK /\ SlotsOK /\ Ledger
    BY <1>7 DEF KeptInv
  <2>2. NamesOK'
    BY <1>1, <1>2, <1>3, <1>6, <1>7, <2>1, NamesTurn
  <2>3. LifeOK'
    <3>1. c.cmd = "contact" => c.host \in alive
      BY <1>5, <2>1 DEF LifeOK, Alive
    <3>2. \A x \in InList(p) : /\ x.cmd \notin {"free", "link"} /\ x.host \in {NoAddr, Head(work[t]).host}
                               /\ x.cmd \in {"contact", "replace", "dump"} => x.host \in alive
      BY <3>1 DEF Written
    <3> QED BY <1>1, <1>2, <2>1, <3>2, LifeTurn
  <2>4. SlotsOK'
    <3>1. \A u \in Thread : \A d \in Left(u)' :
            d \in Left(u) \/ d.cmd \notin {"count", "replace"} \/ (CountOK(d) /\ ReplaceOK(d))
      BY <1>5, <1>7
    <3> QED BY <2>1, <3>1, SlotsStay
  <2>5. ASSUME NEW a \in Addr, NEW b \in Addr, Steady(a)', b \in Recorded PROVE Kept(a, b)'
    <3>1. Steady(a) /\ Kept(a, b) /\ Mine(a)' = Mine(a)
      <4>1. Steady(a) /\ Mine(a)' = Mine(a)
        BY <2>5 DEF Steady, Mine
      <4> QED BY <2>1, <2>5, <4>1 DEF Ledger
    <3>2. Coming(a, b) => Coming(a, b)'
      BY <1>5 DEF Coming, Comes
    <3>3. ASSUME NEW i \in 1..Slots, InSlot(a, b, i), Gone(a, i)' PROVE FALSE
      <4>1. ~Gone(a, i) /\ Mine(a)[i].peer = b /\ Mine(a)[i].n > 0
        BY <3>3 DEF InSlot
      <4>2. PICK u \in Thread : (\E d \in Left(u)' : Wipes(d, a, i)) /\ \A d \in Left(u)' : ~Records(d, a, i)
        BY <3>3 DEF Gone
      <4>3. u = t
        BY <1>5, <4>1, <4>2 DEF Gone
      <4>4. \A d : Wipes(d, a, i) \/ Records(d, a, i) => d.host = a
        BY DEF Wipes, Records
      <4>5. \A x \in InList(p) : ~Wipes(x, a, i)
        <5>1. CASE c.host = a
          BY <1>5, <1>7, <2>5, <3>1, <4>1, <4>2, <4>3, <5>1
        <5>2. CASE c.host # a
          BY <4>4, <5>2
        <5> QED BY <5>1, <5>2
      <4>6. ~Records(c, a, i)
        <5>1. CASE c.host = a
          BY <1>5, <1>7, <2>5, <3>1, <4>1, <4>2, <4>3, <5>1
        <5>2. CASE c.host # a
          BY <4>4, <5>2
        <5> QED BY <5>1, <5>2
      <4> QED BY <1>5, <4>1, <4>2, <4>3, <4>5, <4>6 DEF Gone
    <3> QED BY <1>1, <1>4, <3>1, <3>2, <3>3, KeptStays
  <2>6. Ledger'
    BY <2>5 DEF Ledger
  <2> QED BY <2>2, <2>3, <2>4, <2>6
<1>8. LinesOK' /\ MetOK'
  BY <1>1, <1>2 DEF Turns, MetOK
<1> QED BY <1>4, <1>7, <1>8 DEF KeptInv

\* The members of two lists in a row.
LEMMA JoinedAt ==
  ASSUME NEW S, NEW p \in Seq(S), NEW r \in Seq(S), NEW q, q = p \o r
  PROVE  /\ q \in Seq(S) /\ Len(q) = Len(p) + Len(r) /\ Len(p) \in Nat
         /\ \A k \in 1..Len(p) : q[k] = p[k]
         /\ \A k \in 1..Len(r) : q[Len(p) + k] = r[k]
OBVIOUS

\* One command after others that bind nothing.
Then(p, x) == p \o <<x>>

\* One command more.
LEMMA Appended ==
  ASSUME NEW p \in Seq(Orders), LineOK(p), \A y \in InList(p) : y.cmd \notin Binding,
         NEW x \in Orders, x.cmd \notin {"forth", "count"}, NEW q, q = Then(p, x)
  PROVE  /\ q \in Seq(Orders) /\ LineOK(q) /\ InList(q) = InList(p) \cup {x}
         /\ q # <<>> /\ q[Len(q)] = x /\ q[1] = IF p = <<>> THEN x ELSE p[1]
<1> DEFINE r == <<x>>
<1>1. LineOK(r) /\ InList(r) = {x} /\ r \in Seq(Orders) /\ r # <<>> /\ Len(r) = 1 /\ r[1] = x
  BY LineOne
<1> HIDE DEF r
<1>2. \A y \in InList(p), d \in InList(r) : Precedes(y, d)
  BY DEF Precedes, Binding
<1>3. p # <<>> /\ r # <<>> => Leads(p[Len(p)], r[1])
  BY <1>1 DEF Leads, LineOK
<1>4. LineOK(p \o r) /\ InList(p \o r) = InList(p) \cup InList(r)
  BY <1>1, <1>2, <1>3, LineJoined
<1>5. q = p \o r
  BY DEF r, Then
<1>6. /\ q \in Seq(Orders) /\ Len(q) = Len(p) + 1 /\ q[Len(p) + 1] = r[1]
      /\ Len(p) \in Nat /\ (Len(p) > 0 => q[1] = p[1])
  <2>1. /\ q \in Seq(Orders) /\ Len(q) = Len(p) + Len(r) /\ Len(p) \in Nat
        /\ \A k \in 1..Len(p) : q[k] = p[k]
        /\ \A k \in 1..Len(r) : q[Len(p) + k] = r[k]
    <3>1. p \in Seq(Orders) /\ r \in Seq(Orders)
      BY <1>1
    <3> QED BY <1>5, <3>1, JoinedAt
  <2>2. 1 \in 1..Len(r) /\ (Len(p) > 0 => 1 \in 1..Len(p))
    BY <1>1, <2>1
  <2>3. q[Len(p) + 1] = r[1] /\ (Len(p) > 0 => q[1] = p[1])
    BY <2>1, <2>2
  <2> QED BY <1>1, <2>1, <2>3
<1>7. q # <<>>
  <2>1. Len(<<>>) = 0 /\ Len(q) # 0
    BY <1>6
  <2> QED BY <2>1, Zenon
<1>8. q[1] = IF p = <<>> THEN x ELSE p[1]
  <2>1. CASE p = <<>>
    <3>1. Len(p) = 0
      BY <2>1
    <3> QED BY <1>1, <1>6, <2>1, <3>1
  <2>2. CASE p # <<>>
    <3>1. Len(p) > 0
      BY <2>2
    <3> QED BY <1>6, <2>2, <3>1
  <2> QED BY <2>1, <2>2
<1> QED BY <1>1, <1>4, <1>5, <1>6, <1>7, <1>8

\* dbDumpHost() twice, as it was given.
IsPair(p, h, mode, i, me, asClient) ==
  /\ p \in Seq(Orders) /\ LineOK(p) /\ p # <<>> /\ p[1].cmd = "peer"
  /\ \A x \in InList(p) :
       /\ x.cmd \in {"peer", "count", "reverse"} /\ x.host = h /\ x.mode = mode /\ x.slot = i /\ x.me = me
       /\ x.cmd = "count" => x.asClient = asClient /\ x.peer = slots[h][mode][i].peer
  /\ \E x \in InList(p) : x.cmd = "count"

\* The commands of one slot: the number of the peer and the two counts.
LEMMA PairGiven ==
  ASSUME NEW h \in Addr, NEW mode \in Mode, NEW i \in 1..Slots, NEW me \in Nat,
         NEW asClient \in BOOLEAN, NEW d \in Day, slots[h][mode][i].peer \in Addr,
         NEW p, p = DumpPair(h, mode, i, me, asClient, d)
  PROVE  IsPair(p, h, mode, i, me, asClient)
<1> DEFINE peer == slots[h][mode][i].peer
           x == Do("peer", h, peer, mode, i, me, asClient, d)
           y == Do("count", h, peer, mode, i, me, asClient, d)
           z == Do("reverse", h, NoAddr, mode, i, me, ~asClient, d)
<1>1. i \in Nat /\ (~asClient) \in BOOLEAN
  BY ContactsAssumption
<1>2. x \in Orders /\ y \in Orders /\ z \in Orders
  BY <1>1 DEF Do, Orders, Command, Complete, OnHost, OnPeer
<1>3. /\ x.cmd = "peer" /\ y.cmd = "count" /\ z.cmd = "reverse" /\ y.asClient = asClient /\ y.peer = peer /\ x.peer = peer
      /\ \A w \in {x, y, z} : w.host = h /\ w.mode = mode /\ w.slot = i /\ w.me = me
  BY DEF Do
<1>4. p = <<x, y, z>>
  BY DEF DumpPair
<1> HIDE DEF x, y, z, peer
<1>5. p = Then(<<x, y>>, z)
  BY <1>4 DEF Then
<1>6. <<x, y>> \in Seq(Orders) /\ LineOK(<<x, y>>) /\ InList(<<x, y>>) = {x, y} /\ <<x, y>> # <<>> /\ <<x, y>>[1] = x
  <2>1. Leads(x, y)
    BY <1>3 DEF Leads
  <2> QED BY <1>2, <1>3, <2>1, LineTwo DEF Binding
<1>7. PICK w : w = <<x, y>>
  OBVIOUS
<1>8. /\ p \in Seq(Orders) /\ LineOK(p) /\ InList(p) = InList(w) \cup {z}
      /\ p # <<>> /\ p[1] = IF w = <<>> THEN z ELSE w[1]
  <2>1. \A v \in InList(w) : v.cmd \notin Binding
    BY <1>3, <1>6, <1>7 DEF Binding
  <2>2. p = Then(w, z) /\ w \in Seq(Orders) /\ LineOK(w)
    BY <1>5, <1>6, <1>7, Zenon
  <2>3. z.cmd \notin {"forth", "count"}
    BY <1>3
  <2> QED BY <1>2, <2>1, <2>2, <2>3, Appended
<1>9. InList(p) = {x, y, z} /\ p[1] = x
  BY <1>6, <1>7, <1>8
<1> QED BY <1>3, <1>8, <1>9 DEF IsPair, peer

\* dumpHostContacts() is to count every slot.
LEMMA DumpKept ==
  ASSUME ContactsInv, ContactsInv', KeptInv, NEW t \in Thread, work[t] # <<>>, DumpHostContacts(t)
  PROVE  KeptInv'
<1>1. PICK c, h : c = Head(work[t]) /\ h = c.host
  OBVIOUS
<1>2. c.cmd = "dump"
  BY <1>1 DEF DumpHostContacts
<1>3. /\ WorkOK /\ LinesOK /\ TypeOK /\ h \in Addr /\ c \in Orders /\ day \in Day
      /\ serial[h] \in Nat
  <2>1. WorkOK /\ LinesOK /\ TypeOK /\ h \in Addr /\ c \in Orders /\ nextId \in Nat
    BY <1>1, <1>2, AtCommand DEF OnHost
  <2> QED BY <2>1 DEF TypeOK
<1>4. PICK x : x = Do("all", h, NoAddr, "client", 1, serial[h], TRUE, day)
  OBVIOUS
<1>5. /\ x \in Orders /\ x.cmd = "all" /\ x.host = h /\ x.slot = 1 /\ x.me = serial[h]
  <2>1. 1 \in 1..(Slots + 1) /\ 1 \in Nat
    BY ContactsAssumption
  <2> QED BY <1>3, <1>4, <2>1 DEF Do, Orders, Command, Complete, OnHost, OnPeer, Mode
<1>6. PICK p : p = <<x>>
  OBVIOUS
<1>7. /\ LineOK(p) /\ InList(p) = {x} /\ p \in Seq(Orders) /\ p # <<>> /\ p[1] = x
  <2>1. LineOK(<<x>>) /\ InList(<<x>>) = {x} /\ <<x>> \in Seq(Orders) /\ <<x>> # <<>>
    BY <1>5, LineOne
  <2> QED BY <1>6, <2>1
<1>8. work' = [work EXCEPT ![t] = p \o Tail(work[t])]
  BY <1>1, <1>4, <1>6 DEF DumpHostContacts
<1>9. UNCHANGED <<slots, serial, ids, names, reg, counts, met, rows, overlap, alive>>
  BY DEF DumpHostContacts, memory, store, dump
<1>10. Replaces(c, p)
  BY <1>2, <1>3, <1>5, <1>7, FreelyReplaces DEF Binding
<1>11. ASSUME ~rows.begun PROVE \A y \in InList(p) : OwnKnown(y) /\ CountOK(y) /\ ReplaceOK(y)
  <2>1. NamesOK /\ LifeOK
    BY <1>11 DEF KeptInv
  <2>2. h \in Local => serial[h] # 0 /\ Known(h, serial[h])
    <3>1. h \in alive
      BY <1>1, <1>2, <1>3, <2>1, Remaining DEF LifeOK, Alive
    <3> QED BY <1>3, <2>1, <3>1 DEF LifeOK, NamesOK
  <2> QED BY <1>5, <1>7, <2>2 DEF OwnKnown, CountOK, ReplaceOK
<1>12. \A i \in 1..Slots : Records(x, h, i) /\ ~Wipes(x, h, i)
  BY <1>5, ContactsAssumption DEF Records, Wipes
<1>13. \A y \in InList(p) : y.cmd \in Written /\ y.host = c.host /\ y.cmd # "replace"
  BY <1>1, <1>5, <1>7 DEF Written
<1>14. p # <<>> => p[1].cmd # "count"
  BY <1>5, <1>7
<1>15. \A i \in 1..Slots : \E y \in InList(p) : Records(y, c.host, i)
  BY <1>1, <1>7, <1>12
<1> QED BY <1>1, <1>2, <1>8, <1>9, <1>10, <1>11, <1>13, <1>14, <1>15, WrittenStep

\* A contact that finds no room has the least slot counted first.
LEMMA EvictKept ==
  ASSUME ContactsInv, ContactsInv', KeptInv, NEW t \in Thread, work[t] # <<>>, IncrIPContacts(t),
         Room(slots[Head(work[t]).host][Head(work[t]).mode], Head(work[t]).peer) = {}
  PROVE  KeptInv'
<1>1. PICK c, h, m, array : c = Head(work[t]) /\ h = c.host /\ m = c.mode /\ array = slots[h][m]
  OBVIOUS
<1>2. c.cmd = "contact"
  BY <1>1 DEF IncrIPContacts
<1>3. /\ WorkOK /\ LinesOK /\ TypeOK /\ h \in Addr /\ c.peer \in Addr /\ m \in Mode /\ c \in Orders /\ day \in Day
      /\ serial[h] \in Nat /\ array \in [1..Slots -> Slot]
  <2>1. WorkOK /\ LinesOK /\ TypeOK /\ h \in Addr /\ c.peer \in Addr /\ m \in Mode /\ c \in Orders /\ nextId \in Nat
    BY <1>1, <1>2, AtCommand DEF OnHost, OnPeer
  <2> QED BY <1>1, <2>1, SlotTyped DEF TypeOK
<1>4. PICK i : i = Least(array)
  OBVIOUS
<1>5. i \in 1..Slots /\ i \in Nat
  BY <1>3, <1>4, LeastSlot, ContactsAssumption
<1>6. PICK q, x :
        /\ q = IF array[i].peer \in Recorded /\ serial[h] > 0
               THEN DumpPair(h, m, i, serial[h], m = "client", day) ELSE <<>>
        /\ x = [c EXCEPT !.cmd = "replace", !.slot = i]
  OBVIOUS
<1>7. /\ work' = [work EXCEPT ![t] = (q \o <<x>>) \o Tail(work[t])]
      /\ UNCHANGED <<slots, serial, ids, names, reg, counts, met, rows, overlap, alive>>
  BY <1>1, <1>4, <1>6 DEF IncrIPContacts, store, dump
<1>8. /\ x \in Orders /\ x.cmd = "replace" /\ x.host = h /\ x.mode = m /\ x.peer = c.peer /\ x.slot = i
  BY <1>1, <1>2, <1>3, <1>5, <1>6 DEF Orders, Command, Complete, OnHost, OnPeer
<1>9. /\ q \in Seq(Orders) /\ LineOK(q) /\ (q # <<>> => q[1].cmd = "peer")
      /\ \A y \in InList(q) : /\ y.cmd \in {"peer", "count", "reverse"} /\ y.host = h /\ y.mode = m /\ y.slot = i
                              /\ y.me = serial[h] /\ serial[h] > 0
                              /\ y.cmd = "count" => (m = "client" => y.asClient = TRUE) /\ y.peer = array[i].peer
      /\ array[i].peer \in Recorded /\ serial[h] > 0 => \E y \in InList(q) : y.cmd = "count"
  <2>1. CASE array[i].peer \in Recorded /\ serial[h] > 0
    <3>1. array[i].peer \in Addr /\ slots[h][m][i].peer \in Addr
      BY <1>1, <2>1, ContactsAssumption
    <3>2. PICK client : client = (m = "client")
      OBVIOUS
    <3>3. q = DumpPair(h, m, i, serial[h], client, day) /\ client \in BOOLEAN
      BY <1>6, <2>1, <3>2
    <3>4. IsPair(q, h, m, i, serial[h], client)
      BY <1>3, <1>5, <3>1, <3>3, PairGiven
    <3>5. m = "client" => client = TRUE
      BY <3>2
    <3> QED BY <1>1, <2>1, <3>4, <3>5 DEF IsPair
  <2>2. CASE ~(array[i].peer \in Recorded /\ serial[h] > 0)
    <3>1. q = <<>>
      BY <1>6, <2>2
    <3> QED BY <2>2, <3>1, NoLine
  <2> QED BY <2>1, <2>2
<1>10. PICK p : p = q \o <<x>>
  OBVIOUS
<1>11. /\ p \in Seq(Orders) /\ LineOK(p) /\ InList(p) = InList(q) \cup {x}
       /\ p # <<>> /\ p[Len(p)] = x /\ p[1] = IF q = <<>> THEN x ELSE q[1]
  <2>1. \A y \in InList(q) : y.cmd \notin Binding
    BY <1>9 DEF Binding
  <2>2. p = Then(q, x) /\ x.cmd \notin {"forth", "count"}
    BY <1>8, <1>10 DEF Then
  <2> QED BY <1>8, <1>9, <2>1, <2>2, Appended
<1>12. Replaces(c, p)
  <2>1. ASSUME NEW y \in InList(p), NEW d \in Orders, Precedes(c, d) PROVE Precedes(y, d)
    <3>1. d.cmd = "contact" /\ d.mode = "server"
      BY <1>2, <2>1 DEF Precedes
    <3> QED BY <1>8, <1>9, <1>11, <3>1 DEF Precedes
  <2>2. ASSUME NEW d \in Orders, Leads(c, d) PROVE Leads(p[Len(p)], d)
    BY <1>2, <1>8, <1>11, <2>2 DEF Leads
  <2> QED BY <1>11, <2>1, <2>2 DEF Replaces
<1>13. work' = [work EXCEPT ![t] = p \o Tail(work[t])]
  BY <1>7, <1>10
<1>14. \A y \in InList(p) : y.cmd \in Written /\ y.host = h
  BY <1>8, <1>9, <1>11 DEF Written
<1>15. \E y \in InList(p) : y.cmd = "replace" /\ y.peer = c.peer /\ y.mode = c.mode
  BY <1>1, <1>8, <1>11
<1>16. p[1].cmd # "count"
  BY <1>8, <1>9, <1>11
<1>17. ASSUME ~rows.begun PROVE \A y \in InList(p) : OwnKnown(y) /\ CountOK(y) /\ ReplaceOK(y)
  <2>1. NamesOK
    BY <1>17 DEF KeptInv
  <2>2. OwnKnown(x) /\ CountOK(x)
    BY <1>8 DEF OwnKnown, CountOK
  <2>3. ReplaceOK(x)
    BY <1>1, <1>8 DEF ReplaceOK, Mine
  <2>4. \A y \in InList(q) : OwnKnown(y) /\ ReplaceOK(y)
    BY <1>3, <1>9, <2>1 DEF OwnKnown, NamesOK, ReplaceOK
  <2>5. \A y \in InList(q) : CountOK(y)
    <3>1. ASSUME NEW y \in InList(q), y.cmd = "count", y.mode = "client"
          PROVE  y.asClient = TRUE /\ y.host = h /\ y.slot = i /\ y.peer = array[i].peer /\ m = "client"
      BY <1>9, <3>1
    <3>2. m = "client" => array = Mine(h)
      BY <1>1 DEF Mine
    <3> QED BY <3>1, <3>2 DEF CountOK
  <2> QED BY <1>11, <2>2, <2>3, <2>4, <2>5
<1>18. ASSUME ~rows.begun, NEW b \in Recorded, NEW j \in 1..Slots, Steady(h), Mine(h)[j].peer = b,
              NEW y \in InList(p), Wipes(y, h, j)
       PROVE  \E z \in InList(p) : Records(z, h, j)
  <2>1. y = x /\ m = "client" /\ j = i
    BY <1>8, <1>9, <1>11, <1>18 DEF Wipes
  <2>2. array[i].peer \in Recorded
    BY <1>1, <1>18, <2>1 DEF Mine
  <2>3. serial[h] > 0
    <3>1. h \in alive
      BY <1>1, <1>2, <1>3, <1>18, Remaining DEF KeptInv, LifeOK, Alive
    <3>2. serial[h] # 0
      BY <1>18, <3>1 DEF KeptInv, LifeOK, Steady
    <3> QED BY <1>3, <3>2
  <2>4. PICK z \in InList(q) : z.cmd = "count"
    BY <1>9, <2>2, <2>3
  <2>5. Records(z, h, j)
    BY <1>9, <2>1, <2>4 DEF Records
  <2> QED BY <1>11, <2>5
<1>19. \A j \in 1..Slots : ~Records(c, h, j)
  BY <1>2 DEF Records
<1>20. ~rows.begun => \A b \in Recorded, j \in 1..Slots :
         Steady(c.host) /\ Mine(c.host)[j].peer = b /\ Mine(c.host)[j].n > 0 =>
           /\ Records(c, c.host, j) => \E z \in InList(p) : Records(z, c.host, j)
           /\ (\E y \in InList(p) : Wipes(y, c.host, j)) => \E z \in InList(p) : Records(z, c.host, j)
  BY <1>1, <1>18, <1>19
<1> QED BY <1>1, <1>2, <1>7, <1>12, <1>13, <1>14, <1>15, <1>16, <1>17, <1>20, WrittenStep

\* What dbDumpAllHosts() leaves of a slot.
IsWritten(q, h, mode, s, me, d) ==
  q = IF slots[h][mode][s].n > 0 /\ slots[h][mode][s].peer \in Recorded
      THEN DumpPair(h, mode, s, me, TRUE, d) ELSE <<>>

WrittenLine(q, h, mode, s, me) ==
  /\ q \in Seq(Orders) /\ LineOK(q) /\ (q # <<>> => q[1].cmd = "peer")
  /\ \A y \in InList(q) : /\ y.cmd \in {"peer", "count", "reverse"} /\ y.host = h /\ y.mode = mode
                          /\ y.slot = s /\ y.me = me
                          /\ y.cmd = "count" => y.asClient = TRUE /\ y.peer = slots[h][mode][s].peer
  /\ slots[h][mode][s].n > 0 /\ slots[h][mode][s].peer \in Recorded => \E y \in InList(q) : y.cmd = "count"

\* A used slot of a peer that is recorded is to be counted.
LEMMA WrittenGiven ==
  ASSUME NEW h \in Addr, NEW mode \in Mode, NEW s \in 1..Slots, NEW me \in Nat, NEW d \in Day, NEW q,
         IsWritten(q, h, mode, s, me, d)
  PROVE  WrittenLine(q, h, mode, s, me)
<1>1. CASE slots[h][mode][s].n > 0 /\ slots[h][mode][s].peer \in Recorded
  <2>1. slots[h][mode][s].peer \in Addr
    BY <1>1, ContactsAssumption
  <2>2. q = DumpPair(h, mode, s, me, TRUE, d)
    BY <1>1 DEF IsWritten
  <2>3. IsPair(q, h, mode, s, me, TRUE)
    BY <2>1, <2>2, PairGiven
  <2> QED BY <1>1, <2>3 DEF IsPair, WrittenLine
<1>2. CASE ~(slots[h][mode][s].n > 0 /\ slots[h][mode][s].peer \in Recorded)
  <2>1. q = <<>>
    BY <1>2 DEF IsWritten
  <2> QED BY <1>2, <2>1, NoLine DEF WrittenLine
<1> QED BY <1>1, <1>2

\* What follows the two counts of a slot.
LEMMA WalkKept ==
  ASSUME ContactsInv, ContactsInv', KeptInv, NEW t \in Thread, work[t] # <<>>, NEW c, c = Head(work[t]),
         c.cmd \in {"all", "allServer"}, NEW h, h = c.host, NEW s, s = c.slot, s \in 1..Slots, NEW q, NEW x, NEW mode \in Mode,
         IsWritten(q, h, mode, s, c.me, c.day),
         x \in Orders, x.cmd \in {"all", "allServer"}, x.host = h, x.me = c.me,
         work' = [work EXCEPT ![t] = Then(q, x) \o Tail(work[t])],
         UNCHANGED <<slots, serial, ids, names, reg, counts, met, rows, overlap, alive>>,
         \A i \in 1..Slots : Records(c, h, i) => Records(x, h, i) \/ (i = s /\ mode = "client")
  PROVE  KeptInv'
<1>1. h = c.host
  OBVIOUS
<1>2. /\ WorkOK /\ LinesOK /\ h \in Addr /\ c \in Orders /\ c.me \in Nat /\ c.day \in Day
  <2>1. WorkOK /\ LinesOK /\ h \in Addr /\ c \in Orders
    BY <1>1, AtCommand DEF OnHost
  <2> QED BY <2>1 DEF Orders, Command
<1>3. /\ q \in Seq(Orders) /\ LineOK(q) /\ (q # <<>> => q[1].cmd = "peer")
      /\ \A y \in InList(q) : /\ y.cmd \in {"peer", "count", "reverse"} /\ y.host = h /\ y.mode = mode
                              /\ y.slot = s /\ y.me = c.me
                              /\ y.cmd = "count" => y.asClient = TRUE /\ y.peer = slots[h][mode][s].peer
      /\ slots[h][mode][s].n > 0 /\ slots[h][mode][s].peer \in Recorded => \E y \in InList(q) : y.cmd = "count"
  <2>1. PICK me, d : me = c.me /\ d = c.day
    OBVIOUS
  <2>2. IsWritten(q, h, mode, s, me, d)
    BY <1>1, <2>1
  <2>3. WrittenLine(q, h, mode, s, me)
    BY <1>2, <2>1, <2>2, WrittenGiven
  <2> QED BY <2>1, <2>3 DEF WrittenLine
<1>4. PICK p : p = Then(q, x)
  OBVIOUS
<1>5. /\ p \in Seq(Orders) /\ LineOK(p) /\ InList(p) = InList(q) \cup {x}
      /\ p # <<>> /\ p[Len(p)] = x /\ p[1] = IF q = <<>> THEN x ELSE q[1]
  <2>1. \A y \in InList(q) : y.cmd \notin Binding
    BY <1>3 DEF Binding
  <2>2. p = Then(q, x) /\ x.cmd \notin {"forth", "count"}
    BY <1>4
  <2>3. q \in Seq(Orders) /\ LineOK(q)
    BY <1>3
  <2> QED BY <2>1, <2>2, <2>3, Appended
<1>6. \A y \in InList(p) : y.cmd \in Written /\ y.host = h /\ y.cmd # "replace" /\ y.cmd \notin Binding
  BY <1>1, <1>3, <1>5 DEF Written, Binding
<1>7. Replaces(c, p)
  BY <1>2, <1>5, <1>6, FreelyReplaces
<1>8. work' = [work EXCEPT ![t] = p \o Tail(work[t])]
  BY <1>4
<1>9. p[1].cmd # "count"
  BY <1>3, <1>5
<1>10. ASSUME ~rows.begun PROVE \A y \in InList(p) : OwnKnown(y) /\ CountOK(y) /\ ReplaceOK(y)
  <2>1. OwnKnown(c)
    BY <1>2, <1>10, Remaining DEF KeptInv, NamesOK
  <2>2. OwnKnown(x) /\ CountOK(x) /\ ReplaceOK(x)
    BY <2>1 DEF OwnKnown, CountOK, ReplaceOK
  <2>3. \A y \in InList(q) : OwnKnown(y) /\ ReplaceOK(y)
    BY <1>1, <1>3, <2>1 DEF OwnKnown, ReplaceOK
  <2>4. ASSUME NEW y \in InList(q), y.cmd = "count", y.mode = "client"
        PROVE  y.asClient = TRUE /\ y.peer = Mine(y.host)[y.slot].peer
    <3>1. /\ y.asClient = TRUE /\ y.peer = slots[h][mode][s].peer
          /\ y.host = h /\ y.slot = s /\ mode = "client"
      BY <1>3, <2>4
    <3> QED BY <3>1, Zenon DEF Mine
  <2>5. \A y \in InList(q) : CountOK(y)
    BY <2>4 DEF CountOK
  <2> QED BY <1>5, <2>2, <2>3, <2>5
<1>11. \A j \in 1..Slots : \A y \in InList(p) : ~Wipes(y, h, j)
  BY <1>6 DEF Wipes, Binding
<1>12. ASSUME NEW b \in Recorded, NEW j \in 1..Slots, Mine(h)[j].peer = b, Mine(h)[j].n > 0, Records(c, h, j)
       PROVE  \E z \in InList(p) : Records(z, h, j)
  <2>1. CASE Records(x, h, j)
    BY <1>5, <2>1
  <2>2. CASE j = s /\ mode = "client"
    <3>1. slots[h][mode][s].n > 0 /\ slots[h][mode][s].peer \in Recorded
      BY <1>12, <2>2 DEF Mine
    <3>2. PICK z \in InList(q) : z.cmd = "count"
      BY <1>3, <3>1
    <3>3. Records(z, h, j)
      BY <1>3, <2>2, <3>2 DEF Records
    <3> QED BY <1>5, <3>3
  <2> QED BY <1>1, <1>12, <2>1, <2>2
<1>13. \A b \in Recorded, j \in 1..Slots :
         Steady(c.host) /\ Mine(c.host)[j].peer = b /\ Mine(c.host)[j].n > 0 =>
           /\ Records(c, c.host, j) => \E z \in InList(p) : Records(z, c.host, j)
           /\ (\E y \in InList(p) : Wipes(y, c.host, j)) => \E z \in InList(p) : Records(z, c.host, j)
  BY <1>1, <1>11, <1>12
<1>14. /\ \A y \in InList(p) : y.cmd \in Written /\ y.host = c.host
       /\ \A y \in InList(p) : y.cmd = "replace" => c.cmd = "contact"
       /\ c.cmd # "contact"
  BY <1>1, <1>6
<1> QED BY <1>7, <1>8, <1>9, <1>10, <1>13, <1>14, WrittenStep

\* The walk records the slots it has not reached.
LEMMA WalkRecords ==
  ASSUME NEW c, NEW h, NEW i
  PROVE  /\ c.cmd = "all" => (Records(c, h, i) <=> c.host = h /\ c.slot <= i)
         /\ c.cmd = "allServer" => (Records(c, h, i) <=> c.host = h /\ c.slot < i)
BY DEF Records

\* dbDumpAllHosts() at a slot: it is counted, the rest is left; past the used slots nothing is.
LEMMA AllKept ==
  ASSUME ContactsInv, ContactsInv', KeptInv, NEW t \in Thread, work[t] # <<>>, DbDumpAllHosts(t)
  PROVE  KeptInv'
<1>1. PICK c, h, s : c = Head(work[t]) /\ h = c.host /\ s = c.slot
  OBVIOUS
<1>2. c.cmd \in {"all", "allServer"}
  BY <1>1 DEF DbDumpAllHosts
<1>3. /\ WorkOK /\ LinesOK /\ TypeOK /\ h \in Addr /\ c \in Orders /\ s \in 1..(Slots + 1) /\ Slots \in Nat
      /\ c.cmd = "allServer" => s \in 1..Slots
  <2>1. WorkOK /\ LinesOK /\ TypeOK /\ h \in Addr /\ c \in Orders /\ Slots \in Nat
    BY <1>1, <1>2, AtCommand, ContactsAssumption DEF OnHost
  <2> QED BY <1>1, <1>2, <2>1 DEF Orders, Complete
<1>4. UNCHANGED <<slots, serial, ids, names, reg, counts, met, rows, overlap, alive>>
  BY DEF DbDumpAllHosts, memory, store, dump
<1>5. "client" \in Mode /\ "server" \in Mode
  BY DEF Mode
<1>6. CASE c.cmd = "allServer"
  <2>1. PICK q, x, mode :
          /\ mode = "server" /\ IsWritten(q, h, mode, s, c.me, c.day)
          /\ x = [c EXCEPT !.cmd = "all", !.slot = @ + 1]
    BY DEF IsWritten
  <2>2. work' = [work EXCEPT ![t] = Then(q, x) \o Tail(work[t])]
    BY <1>1, <1>6, <2>1 DEF DbDumpAllHosts, IsWritten, Then
  <2>3. s \in 1..Slots /\ s + 1 \in 1..(Slots + 1) /\ s \in Nat /\ s + 1 \in Nat
    BY <1>3, <1>6
  <2>4. x \in Orders /\ x.cmd = "all" /\ x.host = h /\ x.me = c.me /\ x.slot = s + 1
    <3>1. x = [c EXCEPT !.cmd = "all", !.slot = s + 1]
      BY <1>1, <2>1
    <3>2. c \in Command
      BY <1>3 DEF Orders
    <3>3. x.cmd = "all" /\ x.host = h /\ x.me = c.me /\ x.slot = s + 1
      BY <1>1, <3>1, <3>2 DEF Command
    <3>4. x \in Command
      BY <2>3, <3>1, <3>2 DEF Command, OnHost, OnPeer
    <3> QED BY <1>3, <2>3, <3>3, <3>4 DEF Orders, Complete, OnHost, OnPeer
  <2>5. \A i \in 1..Slots : Records(c, h, i) => Records(x, h, i) \/ (i = s /\ mode = "client")
    BY <1>1, <1>6, <2>3, <2>4, WalkRecords
  <2>6. mode \in Mode /\ x.cmd \in {"all", "allServer"} /\ IsWritten(q, h, mode, s, c.me, c.day)
    BY <1>5, <2>1, <2>4
  <2>7. s \in 1..Slots
    BY <2>3
  <2>8. x \in Orders /\ x.host = h /\ x.me = c.me
    BY <2>4
  <2> QED BY <1>1, <1>2, <1>4, <2>2, <2>5, <2>6, <2>7, <2>8, WalkKept
<1>7. CASE c.cmd = "all" /\ ~(s > Slots \/ slots[h]["client"][s].n = 0)
  <2>1. PICK q, x, mode :
          /\ mode = "client" /\ IsWritten(q, h, mode, s, c.me, c.day)
          /\ x = [c EXCEPT !.cmd = "allServer"]
    BY DEF IsWritten
  <2>2. work' = [work EXCEPT ![t] = Then(q, x) \o Tail(work[t])]
    BY <1>1, <1>7, <2>1 DEF DbDumpAllHosts, IsWritten, Then
  <2>3. s \in 1..Slots /\ s \in Nat
    BY <1>3, <1>7
  <2>4. x \in Orders /\ x.cmd = "allServer" /\ x.host = h /\ x.me = c.me /\ x.slot = s
    BY <1>1, <1>3, <2>1, <2>3 DEF Orders, Command, Complete, OnHost, OnPeer
  <2>5. \A i \in 1..Slots : Records(c, h, i) => Records(x, h, i) \/ (i = s /\ mode = "client")
    <3>1. ASSUME NEW i \in 1..Slots, Records(c, h, i), i # s PROVE Records(x, h, i)
      <4>1. s <= i
        BY <1>1, <1>7, <3>1, WalkRecords
      <4>2. s < i
        BY <2>3, <3>1, <4>1
      <4> QED BY <2>4, <4>2, WalkRecords
    <3> QED BY <2>1, <3>1
  <2>6. mode \in Mode /\ x.cmd \in {"all", "allServer"} /\ IsWritten(q, h, mode, s, c.me, c.day)
    BY <1>5, <2>1, <2>4
  <2> QED BY <1>1, <1>2, <1>4, <2>2, <2>3, <2>4, <2>5, <2>6, WalkKept
<1>8. CASE c.cmd = "all" /\ (s > Slots \/ slots[h]["client"][s].n = 0)
  <2>1. work' = [work EXCEPT ![t] = <<>> \o Tail(work[t])]
    BY <1>1, <1>8 DEF DbDumpAllHosts
  <2>2. Replaces(c, <<>>) /\ InList(<<>>) = {}
    BY NoLine DEF Replaces
  <2>3. ASSUME ~rows.begun, NEW i \in 1..Slots, Steady(h), Mine(h)[i].n > 0, Records(c, h, i) PROVE FALSE
    <3>0. s <= i
      BY <1>1, <1>8, <2>3, WalkRecords
    <3>1. s <= i /\ s \in 1..Slots
      BY <1>3, <2>3, <3>0
    <3>2. slots[h]["client"][s].n = 0
      BY <1>3, <1>8, <3>1
    <3>3. s < i
      BY <2>3, <3>1, <3>2 DEF Mine
    <3>4. Prefixed(Mine(h))
      BY <1>3, <2>3 DEF KeptInv, SlotsOK
    <3>5. Mine(h)[s].n > 0
      BY <2>3, <3>1, <3>3, <3>4 DEF Prefixed
    <3> QED BY <3>2, <3>5 DEF Mine
  <2>4. ~rows.begun => \A b \in Recorded, j \in 1..Slots :
          Steady(c.host) /\ Mine(c.host)[j].peer = b /\ Mine(c.host)[j].n > 0 => ~Records(c, c.host, j)
    BY <1>1, <2>3
  <2>5. c.cmd # "contact"
    BY <1>8
  <2> QED BY <1>1, <1>2, <1>4, <2>1, <2>2, <2>4, <2>5, WrittenStep
<1> QED BY <1>2, <1>6, <1>7, <1>8

-------------------------------------------------------------------------------
(* Contacts: what a thread with nothing left is given *)

Starts == {"serial", "link", "contact", "dump", "purge", "free"}
IsStart(p) == p \in Seq(Orders) /\ LineOK(p) /\ \A x \in InList(p) : x.cmd \in Starts

\* Two such lists in a row.
LEMMA StartJoined ==
  ASSUME NEW p, NEW r, IsStart(p), IsStart(r), \A c \in InList(p), d \in InList(r) : Precedes(c, d)
  PROVE  IsStart(p \o r) /\ InList(p \o r) = InList(p) \cup InList(r)
<1>1. p \in Seq(Orders) /\ r \in Seq(Orders) /\ LineOK(p) /\ LineOK(r)
  BY DEF IsStart
<1>2. p # <<>> /\ r # <<>> => Leads(p[Len(p)], r[1])
  <2>1. ASSUME p # <<>>, r # <<>> PROVE p[Len(p)] \in InList(p) /\ r[1] \in InList(r)
    <3>1. Len(p) \in 1..Len(p) /\ 1 \in 1..Len(r)
      BY <1>1, <2>1
    <3> QED BY <3>1 DEF InList
  <2> QED BY <2>1 DEF IsStart, Leads, Starts
<1>3. LineOK(p \o r) /\ InList(p \o r) = InList(p) \cup InList(r)
  BY <1>1, <1>2, LineJoined
<1>4. p \o r \in Seq(Orders)
  BY <1>1
<1> QED BY <1>3, <1>4 DEF IsStart

\* One command.
LEMMA StartCall ==
  ASSUME NEW c \in {"dump", "purge", "serial", "link", "free"}, NEW h \in Addr
  PROVE  IsStart(Call(c, h)) /\ \A x \in InList(Call(c, h)) : x.cmd = c /\ x.host = h
<1>1. PICK x : x = Do(c, h, NoAddr, "client", 0, 0, TRUE, 1)
  OBVIOUS
<1>2. x \in Orders /\ x.cmd = c /\ x.host = h
  BY <1>1 DEF Do, Orders, Command, Complete, OnHost, OnPeer, Mode, Day
<1>3. Call(c, h) = <<x>>
  BY <1>1 DEF Call
<1>4. LineOK(<<x>>) /\ InList(<<x>>) = {x} /\ <<x>> \in Seq(Orders)
  BY <1>2, LineOne
<1> QED BY <1>2, <1>3, <1>4 DEF IsStart, Starts

\* What it holds.
LEMMA StartCalls ==
  ASSUME NEW c \in {"dump", "purge", "serial", "link", "free"}, NEW h \in Addr
  PROVE  \E x \in InList(Call(c, h)) : x.cmd = c /\ x.host = h
<1>1. PICK x : x = Do(c, h, NoAddr, "client", 0, 0, TRUE, 1)
  OBVIOUS
<1>2. x \in Orders /\ x.cmd = c /\ x.host = h
  BY <1>1 DEF Do, Orders, Command, Complete, OnHost, OnPeer, Mode, Day
<1>3. Call(c, h) = <<x>>
  BY <1>1 DEF Call
<1>4. InList(<<x>>) = {x}
  BY <1>2, LineOne
<1> QED BY <1>2, <1>3, <1>4

\* None.
LEMMA StartNone == IsStart(<<>>) /\ InList(<<>>) = {}
BY NoLine DEF IsStart

\* A thread begins: p is all it has left.
Begins(t, p) ==
  /\ IsStart(p) /\ work[t] = <<>> /\ work' = [work EXCEPT ![t] = p]
  /\ \A x \in InList(p) : t = "script" => x.cmd \notin Poller
  /\ UNCHANGED <<slots, serial, ids, names, reg, counts, rows, overlap, alive>>

\* What is left then.
LEMMA Begun ==
  ASSUME WorkOK, LinesOK, NEW t \in Thread, NEW p, Begins(t, p)
  PROVE  /\ LinesOK' /\ Left(t)' = InList(p) /\ Left(t) = {} /\ work'[t] = p
         /\ \A u \in Thread : u # t => work'[u] = work[u] /\ Left(u)' = Left(u)
<1>1. Left(t) = {}
  BY NoLine DEF Begins, Left
<1>2. p \in Seq(Orders) /\ LineOK(p)
  BY DEF Begins, IsStart
<1>3. (\A x \in InList(p) : t = "script" => x.cmd \notin Poller) /\ work' = [work EXCEPT ![t] = p]
  BY DEF Begins
<1> QED BY <1>1, <1>2, <1>3, Changed

\* A thread begins: what it empties it counts, and it begins on hosts that are there.
LEMMA BegunStep ==
  ASSUME ContactsInv, ContactsInv', KeptInv, NEW t \in Thread, NEW p, Begins(t, p), MetOK',
         ~rows.begun =>
           /\ \A x \in InList(p) : x.cmd \in {"contact", "dump"} => x.host \in alive
           /\ \A x \in InList(p) : t = "packets" /\ x.cmd = "free" => \A d \in Left("script") : d.host # x.host
           /\ \A x \in InList(p) : t = "packets" /\ x.cmd = "link" /\ x.host \in Local =>
                serial[x.host] # 0 \/ \E y \in InList(p) : y.cmd = "serial" /\ y.host = x.host
           /\ \A x \in InList(p) : t = "script" => \A c \in Left("packets") : c.cmd = "free" => x.host # c.host
           /\ \A a \in Local : \A i \in 1..Slots :
                (\E x \in InList(p) : Wipes(x, a, i)) => \E y \in InList(p) : Records(y, a, i)
           /\ \A a \in Local, b \in Addr :
                \/ met'[<<a, b>>] = met[<<a, b>>]
                \/ /\ t = "packets" /\ met'[<<a, b>>] = met[<<a, b>>] + 1
                   /\ \E x \in InList(p) : Comes(x, a, b)
  PROVE  KeptInv'
<1>1. /\ WorkOK /\ LinesOK /\ WorkOK' /\ TypeOK /\ CountsTyped /\ CountsOK /\ MetOK
  BY DEF ContactsInv, KeptInv, TypeOK, CountsTyped
<1>2. /\ LinesOK' /\ Left(t)' = InList(p) /\ Left(t) = {} /\ work'[t] = p
      /\ \A u \in Thread : u # t => work'[u] = work[u] /\ Left(u)' = Left(u)
  BY <1>1, Begun
<1>3. /\ IsStart(p) /\ work[t] = <<>>
      /\ UNCHANGED <<slots, serial, ids, names, reg, counts, rows, overlap, alive>>
      /\ \A x \in InList(p) : x.cmd \in Starts /\ (t = "script" => x.cmd \notin Poller)
  BY DEF Begins, IsStart
<1>4. KnownGrows
  BY <1>2, <1>3, KnownStays
<1>5. CountsOK' /\ CountsGrow
  BY <1>1, <1>3, <1>4, CountsSame
<1>6. ASSUME ~rows.begun PROVE NamesOK' /\ LifeOK' /\ SlotsOK' /\ Ledger'
  <2>1. NamesOK /\ LifeOK /\ SlotsOK /\ Ledger
    BY <1>6 DEF KeptInv
  <2>2. NamesOK'
    <3>1. RegKnown(t)'
      <4>1. ASSUME p # <<>> PROVE Head(p) \in InList(p)
        <5>1. Head(p) = p[1] /\ 1 \in 1..Len(p)
          BY <1>3, <4>1 DEF IsStart
        <5> QED BY <5>1 DEF InList
      <4>2. work'[t] # <<>> => Head(work'[t]).cmd \notin {"own", "count"}
        BY <1>2, <1>3, <4>1 DEF Starts
      <4> QED BY <4>2 DEF RegKnown
    <3>2. \A u \in Thread : RegKnown(u)' \/ (work'[u] = work[u] /\ reg'[u] = reg[u])
      BY <1>2, <1>3, <3>1
    <3>3. \A u \in Thread : \A c \in Left(u)' :
            c \in Left(u) \/ c.cmd \notin {"all", "allServer", "count"} \/ OwnKnown(c)
      BY <1>2, <1>3 DEF Starts
    <3> QED BY <1>3, <1>4, <2>1, <3>2, <3>3, NamesStay
  <2>3. LifeOK'
    <3>1. "packets" \in Thread /\ "script" \in Thread /\ "packets" # "script" /\ (t = "packets" \/ t = "script")
      BY DEF Thread
    <3>2. ASSUME NEW u \in Thread, NEW c \in Left(u)' PROVE Alive(c)'
      <4>1. CASE u = t
        BY <1>2, <1>3, <1>6, <3>2, <4>1 DEF Alive, Starts
      <4>2. CASE u # t
        BY <1>2, <1>3, <2>1, <3>2, <4>2 DEF Alive, LifeOK
      <4> QED BY <4>1, <4>2
    <3>3. ASSUME NEW c \in Left("packets")', c.cmd = "free", NEW d \in Left("script")' PROVE d.host # c.host
      <4>1. CASE t = "packets"
        BY <1>2, <1>6, <3>1, <3>3, <4>1
      <4>2. CASE t = "script"
        BY <1>2, <1>6, <3>1, <3>3, <4>2
      <4> QED BY <3>1, <4>1, <4>2
    <3>4. ASSUME NEW c \in Left("packets")' PROVE LinkOK(c)'
      <4>1. CASE t = "packets"
        <5>1. c \in InList(p) /\ Left("packets")' = InList(p)
          BY <1>2, <3>4, <4>1
        <5> QED BY <1>3, <1>6, <4>1, <5>1 DEF LinkOK
      <4>2. CASE t = "script"
        <5>1. Left("packets")' = Left("packets")
          BY <1>2, <3>1, <4>2
        <5>2. LinkOK(c)
          BY <2>1, <3>4, <5>1 DEF LifeOK
        <5> QED BY <1>3, <5>1, <5>2 DEF LinkOK
      <4> QED BY <3>1, <4>1, <4>2
    <3>5. \A h \in alive' \cap Local : serial'[h] # 0
      BY <1>3, <2>1 DEF LifeOK
    <3> QED BY <3>2, <3>3, <3>4, <3>5 DEF LifeOK
  <2>4. SlotsOK'
    <3>1. \A u \in Thread : \A c \in Left(u)' :
            c \in Left(u) \/ c.cmd \notin {"count", "replace"} \/ (CountOK(c) /\ ReplaceOK(c))
      BY <1>2, <1>3 DEF Starts
    <3> QED BY <1>3, <2>1, <3>1, SlotsStay
  <2>5. ASSUME NEW a \in Addr, NEW b \in Addr, Steady(a)', b \in Recorded PROVE Kept(a, b)'
    <3>1. Steady(a) /\ Kept(a, b) /\ Mine(a)' = Mine(a) /\ a \in Local
      <4>1. Steady(a) /\ Mine(a)' = Mine(a)
        BY <1>3, <2>5 DEF Steady, Mine
      <4> QED BY <2>1, <2>5, <4>1 DEF Ledger, Steady
    <3>2. Coming(a, b) => Coming(a, b)'
      BY <1>2 DEF Coming
    <3>3. ASSUME NEW i \in 1..Slots, Gone(a, i)' PROVE Gone(a, i)
      <4>1. PICK u \in Thread : (\E d \in Left(u)' : Wipes(d, a, i)) /\ \A d \in Left(u)' : ~Records(d, a, i)
        BY <3>3 DEF Gone
      <4>2. u # t
        BY <1>2, <1>6, <3>1, <4>1
      <4> QED BY <1>2, <4>1, <4>2 DEF Gone
    <3>4. CASE met'[<<a, b>>] = met[<<a, b>>]
      <4>1. met[<<a, b>>] \in Nat
        BY <1>1, <2>5 DEF MetOK
      <4>2. Booked(a, b) \in Nat /\ Booked(a, b)' \in Nat /\ Booked(a, b) <= Booked(a, b)'
        BY <1>5, <3>2 DEF Booked, CountsGrow
      <4>3. \A i \in 1..Slots : Mine(a)[i].n \in Nat
        BY <1>1, <2>5, SlotTyped DEF Mine, Mode
      <4>4. CASE met[<<a, b>>] <= Booked(a, b)
        BY <3>4, <4>1, <4>2, <4>4 DEF Kept
      <4>5. ASSUME NEW i \in 1..Slots, InSlot(a, b, i) PROVE InSlot(a, b, i)'
        <5>1. /\ Mine(a)'[i].peer = b /\ Mine(a)'[i].n > 0 /\ ~Gone(a, i)'
              /\ met'[<<a, b>>] <= Booked(a, b)' + Mine(a)'[i].n
          BY <3>1, <3>3, <3>4, <4>1, <4>2, <4>3, <4>5 DEF InSlot
        <5> QED BY <5>1 DEF InSlot
      <4> QED BY <3>1, <4>4, <4>5 DEF Kept
    <3>5. CASE /\ t = "packets" /\ met'[<<a, b>>] = met[<<a, b>>] + 1
               /\ \E x \in InList(p) : Comes(x, a, b)
      <4>1. met[<<a, b>>] \in Nat
        BY <1>1, <2>5 DEF MetOK
      <4>2. Coming(a, b)' /\ ~Coming(a, b)
        <5>1. Coming(a, b)'
          BY <1>2, <3>5 DEF Coming
        <5>2. \A u \in Thread : u # t => u = "script"
          BY <3>5 DEF Thread
        <5>3. \A u \in Thread : \A d \in Left(u) : ~Comes(d, a, b)
          BY <1>1, <1>2, <5>2 DEF LinesOK, Poller, Comes
        <5> QED BY <5>1, <5>3 DEF Coming
      <4>3. Booked(a, b) \in Nat /\ Booked(a, b)' \in Nat /\ Booked(a, b) + 1 <= Booked(a, b)'
        <5>1. Booked(a, b) = SoFar(a, b) + 0 /\ Booked(a, b)' = SoFar(a, b)' + 1
          BY <4>2 DEF Booked
        <5> QED BY <1>5, <5>1 DEF CountsGrow
      <4>4. \A i \in 1..Slots : Mine(a)[i].n \in Nat
        BY <1>1, <2>5, SlotTyped DEF Mine, Mode
      <4>5. CASE met[<<a, b>>] <= Booked(a, b)
        BY <3>5, <4>1, <4>3, <4>5 DEF Kept
      <4>6. ASSUME NEW i \in 1..Slots, InSlot(a, b, i) PROVE InSlot(a, b, i)'
        <5>1. /\ Mine(a)'[i].peer = b /\ Mine(a)'[i].n > 0 /\ ~Gone(a, i)'
              /\ met'[<<a, b>>] <= Booked(a, b)' + Mine(a)'[i].n
          BY <3>1, <3>3, <3>5, <4>1, <4>3, <4>4, <4>6 DEF InSlot
        <5> QED BY <5>1 DEF InSlot
      <4> QED BY <3>1, <4>5, <4>6 DEF Kept
    <3> QED BY <1>6, <2>5, <3>1, <3>4, <3>5
  <2>6. Ledger'
    BY <2>5 DEF Ledger
  <2> QED BY <2>2, <2>3, <2>4, <2>6
<1> QED BY <1>2, <1>3, <1>5, <1>6 DEF KeptInv

\* flushContacts() counts the slots of a host before it empties them.
LEMMA StartFlush ==
  ASSUME NEW h \in Addr, NEW free \in BOOLEAN
  PROVE  /\ IsStart(Flush(h, free))
         /\ \A x \in InList(Flush(h, free)) : x.cmd \in {"serial", "dump", "purge"} /\ x.host = h
         /\ h \notin Aggregated => \E x \in InList(Flush(h, free)) : x.cmd = "dump" /\ x.host = h
<1>1. PICK d, u, s : d = Call("dump", h) /\ u = Call("purge", h) /\ s = Call("serial", h)
  OBVIOUS
<1>2. /\ IsStart(d) /\ IsStart(u) /\ IsStart(s)
      /\ \A x \in InList(d) : x.cmd = "dump" /\ x.host = h
      /\ \A x \in InList(u) : x.cmd = "purge" /\ x.host = h
      /\ \A x \in InList(s) : x.cmd = "serial" /\ x.host = h
      /\ \E x \in InList(d) : x.cmd = "dump" /\ x.host = h
  BY <1>1, StartCall, StartCalls
<1>3. PICK e : e = IF free THEN <<>> ELSE s
  OBVIOUS
<1>4. IsStart(e) /\ \A x \in InList(e) : x.cmd = "serial" /\ x.host = h
  BY <1>2, <1>3, StartNone
<1>5. PICK v : v = d \o u
  OBVIOUS
<1>6. IsStart(v) /\ InList(v) = InList(d) \cup InList(u)
  <2>1. \A x \in InList(d), y \in InList(u) : Precedes(x, y)
    BY <1>2 DEF Precedes
  <2> QED BY <1>2, <1>5, <2>1, StartJoined
<1>7. PICK w : w = v \o e
  OBVIOUS
<1>8. IsStart(w) /\ InList(w) = InList(d) \cup InList(u) \cup InList(e)
  <2>1. \A x \in InList(v), y \in InList(e) : Precedes(x, y)
    BY <1>2, <1>4, <1>6 DEF Precedes
  <2> QED BY <1>4, <1>6, <1>7, <2>1, StartJoined
<1>9. CASE h \notin Aggregated
  <2>1. Flush(h, free) = w
    BY <1>1, <1>3, <1>5, <1>7, <1>9 DEF Flush
  <2> QED BY <1>2, <1>4, <1>8, <2>1
<1>10. CASE h \in Aggregated /\ h \notin tracked
  <2>1. Flush(h, free) = <<>>
    BY <1>10 DEF Flush
  <2> QED BY <1>10, <2>1, StartNone
<1>11. CASE h \in Aggregated /\ h \in tracked
  <2>1. PICK f : f = IF serial[h] = 0 THEN s ELSE <<>>
    OBVIOUS
  <2>2. IsStart(f) /\ \A x \in InList(f) : x.cmd = "serial" /\ x.host = h
    BY <1>2, <2>1, StartNone
  <2>3. PICK g : g = f \o d
    OBVIOUS
  <2>4. IsStart(g) /\ InList(g) = InList(f) \cup InList(d)
    <3>1. \A x \in InList(f), y \in InList(d) : Precedes(x, y)
      BY <1>2, <2>2 DEF Precedes
    <3> QED BY <1>2, <2>2, <2>3, <3>1, StartJoined
  <2>5. PICK k : k = g \o u
    OBVIOUS
  <2>6. IsStart(k) /\ InList(k) = InList(f) \cup InList(d) \cup InList(u)
    <3>1. \A x \in InList(g), y \in InList(u) : Precedes(x, y)
      BY <1>2, <2>2, <2>4 DEF Precedes
    <3> QED BY <1>2, <2>4, <2>5, <3>1, StartJoined
  <2>7. PICK l : l = k \o e
    OBVIOUS
  <2>8. IsStart(l) /\ InList(l) = InList(f) \cup InList(d) \cup InList(u) \cup InList(e)
    <3>1. \A x \in InList(k), y \in InList(e) : Precedes(x, y)
      BY <1>2, <1>4, <2>2, <2>6 DEF Precedes
    <3> QED BY <1>4, <2>6, <2>7, <3>1, StartJoined
  <2>9. Flush(h, free) = l
    BY <1>1, <1>3, <1>11, <2>1, <2>3, <2>5, <2>7 DEF Flush
  <2> QED BY <1>2, <1>4, <1>11, <2>2, <2>8, <2>9
<1> QED BY <1>9, <1>10, <1>11

\* Nothing the poller had left is not there when it begins.
LEMMA FlushKept ==
  ASSUME ContactsInv, ContactsInv', KeptInv, NEW h \in Addr, FlushContacts(h)
  PROVE  KeptInv'
<1>1. PICK p, t : p = Flush(h, FALSE) /\ t = "script"
  OBVIOUS
<1>2. /\ IsStart(p) /\ \A x \in InList(p) : x.cmd \in {"serial", "dump", "purge"} /\ x.host = h
      /\ h \notin Aggregated => \E x \in InList(p) : x.cmd = "dump" /\ x.host = h
  BY <1>1, StartFlush
<1>3. /\ work' = [work EXCEPT ![t] = p] /\ work[t] = <<>> /\ t \in Thread
      /\ UNCHANGED <<slots, serial, ids, names, reg, counts, rows, overlap, alive, met>>
      /\ h \in alive
  BY <1>1 DEF FlushContacts, memory, store, dump, Thread
<1>4. Begins(t, p)
  BY <1>2, <1>3 DEF Begins, Poller
<1>5. \A c \in Left("packets") : c.cmd = "free" => c.host # h
  <2>1. DOMAIN work["packets"] = 1..Len(work["packets"])
    BY DEF ContactsInv, WorkOK, Thread
  <2> QED BY <2>1 DEF FlushContacts, Left, InList
<1>6. MetOK'
  BY <1>3 DEF KeptInv, MetOK
<1>7. ASSUME NEW a \in Local, NEW i \in 1..Slots, NEW x \in InList(p), Wipes(x, a, i)
      PROVE  \E y \in InList(p) : Records(y, a, i)
  <2>1. a = h /\ h \notin Aggregated
    BY <1>2, <1>7 DEF Wipes, Local
  <2> QED BY <1>2, <2>1 DEF Records
<1>8. t # "packets" /\ \A x \in InList(p) : x.host \in alive /\ \A c \in Left("packets") : c.cmd = "free" => x.host # c.host
  BY <1>1, <1>2, <1>3, <1>5
<1> QED BY <1>3, <1>4, <1>6, <1>7, <1>8, BegunStep

\* ~Host() begins.
LEMMA RetireKept ==
  ASSUME ContactsInv, ContactsInv', KeptInv, NEW h \in Addr, RetireHost(h)
  PROVE  KeptInv'
<1>1. PICK d, e, t : d = (IF h \in Aggregated THEN Flush(h, TRUE) ELSE Call("dump", h)) /\ e = Call("free", h) /\ t = "packets"
  OBVIOUS
<1>2. /\ IsStart(d) /\ \A x \in InList(d) : x.cmd \in {"serial", "dump", "purge"} /\ x.host = h
      /\ h \notin Aggregated => \E x \in InList(d) : x.cmd = "dump" /\ x.host = h
  <2>1. CASE h \in Aggregated
    BY <1>1, <2>1, StartFlush
  <2>2. CASE h \notin Aggregated
    BY <1>1, <2>2, StartCall, StartCalls
  <2> QED BY <2>1, <2>2
<1>3. IsStart(e) /\ \A x \in InList(e) : x.cmd = "free" /\ x.host = h
  BY <1>1, StartCall
<1>4. \A x \in InList(d), y \in InList(e) : Precedes(x, y)
  BY <1>2, <1>3 DEF Precedes
<1>5. PICK p : p = d \o e
  OBVIOUS
<1>6. IsStart(p) /\ InList(p) = InList(d) \cup InList(e)
  BY <1>2, <1>3, <1>4, <1>5, StartJoined
<1>7. /\ work' = [work EXCEPT ![t] = p] /\ work[t] = <<>> /\ t \in Thread
      /\ UNCHANGED <<slots, serial, ids, names, reg, counts, rows, overlap, alive, met>>
      /\ h \in alive /\ ~Busy("script", h)
  BY <1>1, <1>5 DEF RetireHost, memory, store, dump, Thread
<1>8. Begins(t, p)
  BY <1>1, <1>6, <1>7 DEF Begins
<1>9. \A c \in Left("script") : c.host # h
  BY <1>7, BusyIs DEF ContactsInv, Thread
<1>10. MetOK'
  BY <1>7 DEF KeptInv, MetOK
<1>11. ASSUME NEW a \in Local, NEW i \in 1..Slots, NEW x \in InList(p), Wipes(x, a, i)
       PROVE  \E y \in InList(p) : Records(y, a, i)
  <2>1. a = h /\ h \notin Aggregated
    BY <1>2, <1>3, <1>6, <1>11 DEF Wipes, Local
  <2> QED BY <1>2, <1>6, <2>1 DEF Records
<1>12. t # "script" /\ \A x \in InList(p) : x.host \in alive /\ x.cmd # "link" /\ \A c \in Left("script") : c.host # x.host
  BY <1>1, <1>2, <1>3, <1>6, <1>7, <1>9
<1> QED BY <1>7, <1>8, <1>10, <1>11, <1>12, BegunStep

\* A host is to get its number before it enters the table.
LEMMA NewHostLedger ==
  ASSUME ContactsInv, ContactsInv', KeptInv, NEW h \in Addr, NewHost(h)
  PROVE  KeptInv'
<1>1. PICK d, e, t : d = (IF h \in Aggregated THEN <<>> ELSE Call("serial", h)) /\ e = Call("link", h) /\ t = "packets"
  OBVIOUS
<1>2. /\ IsStart(d) /\ \A x \in InList(d) : x.cmd = "serial" /\ x.host = h
      /\ h \notin Aggregated => \E x \in InList(d) : x.cmd = "serial" /\ x.host = h
  <2>1. CASE h \in Aggregated
    BY <1>1, <2>1, StartNone
  <2>2. CASE h \notin Aggregated
    BY <1>1, <2>2, StartCall, StartCalls
  <2> QED BY <2>1, <2>2
<1>3. IsStart(e) /\ \A x \in InList(e) : x.cmd = "link" /\ x.host = h
  BY <1>1, StartCall
<1>4. \A x \in InList(d), y \in InList(e) : Precedes(x, y)
  BY <1>2, <1>3 DEF Precedes
<1>5. PICK p : p = d \o e
  OBVIOUS
<1>6. IsStart(p) /\ InList(p) = InList(d) \cup InList(e)
  BY <1>2, <1>3, <1>4, <1>5, StartJoined
<1>7. /\ work' = [work EXCEPT ![t] = p] /\ work[t] = <<>> /\ t \in Thread
      /\ UNCHANGED <<slots, serial, ids, names, reg, counts, rows, overlap, alive, met>>
  BY <1>1, <1>5 DEF NewHost, memory, store, dump, Thread
<1>8. Begins(t, p)
  BY <1>1, <1>6, <1>7 DEF Begins
<1>9. MetOK'
  BY <1>7 DEF KeptInv, MetOK
<1>10. \A a, i : \A x \in InList(p) : ~Wipes(x, a, i)
  BY <1>2, <1>3, <1>6 DEF Wipes
<1>11. \A x \in InList(p) : x.cmd = "link" /\ x.host \in Local => \E y \in InList(p) : y.cmd = "serial" /\ y.host = x.host
  BY <1>2, <1>3, <1>6 DEF Local
<1>12. t # "script" /\ \A x \in InList(p) : x.cmd \in {"serial", "link"}
  BY <1>1, <1>2, <1>3, <1>6
<1> QED BY <1>7, <1>8, <1>9, <1>10, <1>11, <1>12, BegunStep

\* Two commands in a row.
LEMMA TwoJoined ==
  ASSUME NEW S, NEW x \in S, NEW y \in S
  PROVE  <<x>> \o <<y>> = <<x, y>>
<1>1. PICK d, e, p : d = <<x>> /\ e = <<y>> /\ p = d \o e
  OBVIOUS
<1>2. d \in Seq(S) /\ e \in Seq(S) /\ Len(d) = 1 /\ Len(e) = 1 /\ d[1] = x /\ e[1] = y
  BY <1>1
<1>3. p \in Seq(S) /\ Len(p) = 2 /\ p[1] = x /\ p[2] = y
  BY <1>1, <1>2
<1>4. p = <<x, y>>
  BY <1>3
<1> QED BY <1>1, <1>4

\* Two hosts are to count each other.
LEMMA NewFlowKept ==
  ASSUME ContactsInv, ContactsInv', KeptInv, NEW cli \in Addr, NEW srv \in Addr, NewFlow(cli, srv)
  PROVE  KeptInv'
<1>1. PICK x, y, t : /\ x = Do("contact", cli, srv, "client", 0, 0, TRUE, 1)
                     /\ y = Do("contact", srv, cli, "server", 0, 0, TRUE, 1) /\ t = "packets"
  OBVIOUS
<1>2. /\ x \in Orders /\ x.cmd = "contact" /\ x.host = cli /\ x.peer = srv /\ x.mode = "client"
      /\ y \in Orders /\ y.cmd = "contact" /\ y.host = srv /\ y.peer = cli /\ y.mode = "server"
  BY <1>1 DEF Do, Orders, Command, Complete, OnHost, OnPeer, Mode, Day
<1>3. PICK d, e : d = <<x>> /\ e = <<y>>
  OBVIOUS
<1>4. IsStart(d) /\ InList(d) = {x} /\ IsStart(e) /\ InList(e) = {y}
  BY <1>2, <1>3, LineOne DEF IsStart, Starts
<1>5. \A v \in InList(d), w \in InList(e) : Precedes(v, w)
  BY <1>2, <1>4 DEF Precedes
<1>6. PICK p : p = d \o e
  OBVIOUS
<1>7. IsStart(p) /\ InList(p) = {x, y}
  BY <1>4, <1>5, <1>6, StartJoined
<1>8. p = <<x, y>>
  <2>1. <<x>> \o <<y>> = <<x, y>>
    BY <1>2, TwoJoined
  <2> QED BY <1>3, <1>6, <2>1
<1>9. /\ work' = [work EXCEPT ![t] = p] /\ work[t] = <<>> /\ t \in Thread
      /\ UNCHANGED <<slots, serial, ids, names, reg, counts, rows, overlap, alive>>
      /\ met' = [met EXCEPT ![<<cli, srv>>] = @ + 1] /\ cli \in alive /\ srv \in alive
  BY <1>1, <1>8 DEF NewFlow, memory, store, dump, Thread
<1>10. Begins(t, p)
  BY <1>1, <1>7, <1>9 DEF Begins
<1>11. met \in [Addr \X Addr -> Nat] /\ <<cli, srv>> \in Addr \X Addr
  BY DEF KeptInv, MetOK
<1>12. met' \in [Addr \X Addr -> Nat]
  BY <1>9, <1>11
<1>13. ASSUME NEW a \in Addr, NEW b \in Addr
       PROVE  met'[<<a, b>>] = met[<<a, b>>]
              \/ (met'[<<a, b>>] = met[<<a, b>>] + 1 /\ \E z \in InList(p) : Comes(z, a, b))
  <2>1. CASE a = cli /\ b = srv
    <3>1. Comes(x, a, b)
      BY <1>2, <2>1 DEF Comes
    <3>2. met'[<<a, b>>] = met[<<a, b>>] + 1
      BY <1>9, <1>11, <2>1
    <3> QED BY <1>7, <3>1, <3>2
  <2>2. CASE ~(a = cli /\ b = srv)
    <3>1. <<a, b>> # <<cli, srv>> /\ <<a, b>> \in Addr \X Addr
      BY <2>2
    <3> QED BY <1>9, <1>11, <3>1
  <2> QED BY <2>1, <2>2
<1>14. \A a, i : \A z \in InList(p) : ~Wipes(z, a, i)
  BY <1>2, <1>7 DEF Wipes
<1>15. t = "packets" /\ t # "script" /\ \A z \in InList(p) : z.cmd = "contact" /\ z.host \in alive
  BY <1>1, <1>2, <1>7, <1>9
<1>16. MetOK'
  BY <1>12 DEF MetOK
<1>17. Local \subseteq Addr
  BY ContactsAssumption DEF Local
<1> QED BY <1>9, <1>10, <1>13, <1>14, <1>15, <1>16, <1>17, BegunStep

\* A name is to count a client.
LEMMA AggregateKept ==
  ASSUME ContactsInv, ContactsInv', KeptInv, NEW s \in Addr, NEW cli \in Addr, NEW track \in BOOLEAN,
         AggregateInfo(s, cli, track)
  PROVE  KeptInv'
<1>1. PICK x, d, t : /\ x = Do("contact", s, cli, "client", 0, 0, TRUE, 1) /\ t = "packets"
                     /\ d = IF serial[s] = 0 THEN Call("serial", s) ELSE <<>>
  OBVIOUS
<1>2. x \in Orders /\ x.cmd = "contact" /\ x.host = s
  BY <1>1 DEF Do, Orders, Command, Complete, OnHost, OnPeer, Mode, Day
<1>3. PICK e : e = <<x>>
  OBVIOUS
<1>4. /\ IsStart(d) /\ \A y \in InList(d) : y.cmd = "serial"
      /\ IsStart(e) /\ InList(e) = {x}
  <2>1. IsStart(d) /\ \A y \in InList(d) : y.cmd = "serial"
    BY <1>1, StartNone, StartCall
  <2>2. IsStart(e) /\ InList(e) = {x}
    BY <1>2, <1>3, LineOne DEF IsStart, Starts
  <2> QED BY <2>1, <2>2
<1>5. \A v \in InList(d), w \in InList(e) : Precedes(v, w)
  BY <1>4 DEF Precedes
<1>6. PICK p : p = d \o e
  OBVIOUS
<1>7. IsStart(p) /\ InList(p) = InList(d) \cup {x}
  BY <1>4, <1>5, <1>6, StartJoined
<1>8. /\ work' = [work EXCEPT ![t] = p] /\ work[t] = <<>> /\ t \in Thread
      /\ UNCHANGED <<slots, serial, ids, names, reg, counts, rows, overlap, alive>>
      /\ met' = [met EXCEPT ![<<s, cli>>] = @ + 1] /\ s \in alive /\ s \in Aggregated
  BY <1>1, <1>3, <1>6 DEF AggregateInfo, memory, store, dump, Thread
<1>9. Begins(t, p)
  BY <1>1, <1>7, <1>8 DEF Begins
<1>10. met \in [Addr \X Addr -> Nat] /\ <<s, cli>> \in Addr \X Addr
  BY DEF KeptInv, MetOK
<1>11. met' \in [Addr \X Addr -> Nat]
  BY <1>8, <1>10
<1>12. ASSUME NEW a \in Local, NEW b \in Addr PROVE met'[<<a, b>>] = met[<<a, b>>]
  <2>1. <<a, b>> # <<s, cli>> /\ <<a, b>> \in Addr \X Addr
    BY <1>8, ContactsAssumption DEF Local
  <2> QED BY <1>8, <1>10, <2>1
<1>13. \A a, i : \A z \in InList(p) : ~Wipes(z, a, i)
  BY <1>2, <1>4, <1>7 DEF Wipes
<1>14. t # "script" /\ \A z \in InList(p) : z.cmd \in {"serial", "contact"} /\ (z.cmd = "contact" => z.host \in alive)
  BY <1>1, <1>2, <1>4, <1>7, <1>8
<1>15. MetOK'
  BY <1>11 DEF MetOK
<1> QED BY <1>8, <1>9, <1>12, <1>13, <1>14, <1>15, BegunStep

\* Each command of a thread.
LEMMA StepKept ==
  ASSUME ContactsInv, ContactsInv', KeptInv, NEW t \in Thread, Step(t)
  PROVE  KeptInv'
<1>1. work[t] # <<>>
  BY DEF Step
<1>2. CASE IncrIPContacts(t)
  BY <1>1, <1>2, ContactRoomKept, EvictKept
<1>3. CASE ReplaceSlot(t)
  BY <1>1, <1>3, ReplaceSlotKept
<1>4. CASE DumpHostContacts(t)
  BY <1>1, <1>4, DumpKept
<1>5. CASE DbDumpAllHosts(t)
  BY <1>1, <1>5, AllKept
<1>6. CASE PurgeAll(t)
  BY <1>1, <1>6, PurgeAllKept
<1>7. CASE HostSerial(t)
  BY <1>1, <1>7, HostSerialKept
<1>8. CASE OwnSerial(t)
  BY <1>1, <1>8, OwnSerialKept
<1>9. CASE LinkHost(t)
  BY <1>1, <1>9, LinkHostKept
<1>10. CASE FreeHost(t)
  BY <1>1, <1>10, FreeHostKept
<1>11. CASE LookUp(t)
  BY <1>1, <1>11, LookUpKept
<1>12. CASE IncrKey(t)
  BY <1>1, <1>12, IncrKeyKept
<1>13. CASE SetForth(t)
  BY <1>1, <1>13, SetForthKept
<1>14. CASE SetBack(t)
  BY <1>1, <1>14, SetBackKept
<1>15. CASE IncrHostContacts(t)
  BY <1>1, <1>15, IncrHostContactsKept
<1> QED BY <1>2, <1>3, <1>4, <1>5, <1>6, <1>7, <1>8, <1>9, <1>10, <1>11, <1>12, <1>13, <1>14, <1>15 DEF Step

\* The keys are listed when the dump begins.
NoKeysYet == ~rows.begun => todo = {}

\* No other step lists them.
LEMMA KeysKept ==
  ASSUME ContactsInv, NoKeysYet, [Next]_vars
  PROVE  NoKeysYet'
<1>1. StoreOK
  BY DEF ContactsInv
<1>2. CASE UNCHANGED <<todo, rows>>
  BY <1>2 DEF NoKeysYet
<1>3. CASE BeginDump
  BY <1>1, <1>3 DEF BeginDump, NoKeysYet, StoreOK
<1>4. CASE DumpKey
  <2>1. todo # {} /\ rows'.begun = rows.begun
    BY <1>1, <1>4 DEF DumpKey, StoreOK
  <2> QED BY <2>1 DEF NoKeysYet
<1>5. CASE EndDump
  <2>1. rows.begun /\ rows'.begun = rows.begun
    BY <1>1, <1>5 DEF EndDump, StoreOK
  <2> QED BY <2>1 DEF NoKeysYet
<1>6. CASE \E t \in Thread : Step(t)
  <2>1. PICK t \in Thread : Step(t)
    BY <1>6
  <2>2. IncrIPContacts(t) \/ ReplaceSlot(t) \/ DumpHostContacts(t) \/ DbDumpAllHosts(t) \/ PurgeAll(t)
        \/ HostSerial(t) \/ OwnSerial(t) \/ LinkHost(t) \/ FreeHost(t) \/ LookUp(t) \/ IncrKey(t) =>
          UNCHANGED dump
    BY DEF IncrIPContacts, ReplaceSlot, DumpHostContacts, DbDumpAllHosts, PurgeAll, HostSerial,
         OwnSerial, LinkHost, FreeHost, LookUp, IncrKey
  <2>3. SetForth(t) \/ SetBack(t) \/ IncrHostContacts(t) => UNCHANGED <<todo, rows>>
    BY DEF SetForth, SetBack, IncrHostContacts
  <2>4. UNCHANGED <<todo, rows>>
    BY <2>1, <2>2, <2>3 DEF Step, dump
  <2> QED BY <1>2, <2>4
<1> QED BY <1>2, <1>3, <1>4, <1>5, <1>6 DEF Next, NewHost, RetireHost, FlushContacts, NewFlow,
     AggregateInfo, Midnight, dump, vars

\* The dump writes no list; it takes counts away, and numbers when it is done.
LEMMA DumpStepKept ==
  ASSUME ContactsInv, KeptInv, NoKeysYet, BeginDump \/ DumpKey \/ EndDump
  PROVE  KeptInv'
<1>1. StoreOK
  BY DEF ContactsInv
<1>2. work' = work /\ met' = met
  BY DEF BeginDump, DumpKey, EndDump
<1>3. LinesOK' /\ MetOK'
  BY <1>2 DEF KeptInv, LinesOK, Left, MetOK
<1>4. rows'.begun
  <2>1. CASE BeginDump
    BY <1>1, <2>1 DEF BeginDump, StoreOK
  <2>2. CASE DumpKey
    <3>1. todo # {} /\ rows'.begun = rows.begun
      BY <1>1, <2>2 DEF DumpKey, StoreOK
    <3>2. rows.begun
      BY <3>1 DEF NoKeysYet
    <3> QED BY <3>1, <3>2
  <2>3. CASE EndDump
    BY <1>1, <2>3 DEF EndDump, StoreOK
  <2> QED BY <2>1, <2>2, <2>3
<1>5. CountsOK'
  <2>1. CASE counts' = counts
    BY <2>1 DEF KeptInv, CountsOK
  <2>2. CASE DumpKey
    <3>1. PICK key \in todo : counts' = [counts EXCEPT ![1] =
               [e \in { x \in DOMAIN @ : <<x[1], x[2]>> # key } |-> @[e]]]
      BY <2>2 DEF DumpKey
    <3>2. DOMAIN counts'[1] \subseteq DOMAIN counts[1] /\ \A d \in Day : d # 1 => counts'[d] = counts[d]
      BY <1>1, <3>1 DEF StoreOK, Day
    <3>3. \A d \in Day : IsFiniteSet(DOMAIN counts[d])
      BY DEF KeptInv, CountsOK
    <3>4. IsFiniteSet(DOMAIN counts'[1])
      BY <3>2, <3>3, FS_Subset DEF Day
    <3> QED BY <3>2, <3>3, <3>4 DEF CountsOK
  <2> QED BY <2>1, <2>2 DEF BeginDump, EndDump, store
<1> QED BY <1>3, <1>4, <1>5 DEF KeptInv

\* Nothing of it speaks of the date.
LEMMA StillKept ==
  ASSUME KeptInv, UNCHANGED <<memory, store, work, reg, rows, met, overlap>>
  PROVE  KeptInv'
<1>1. LinesOK' /\ CountsOK' /\ MetOK' /\ rows'.begun = rows.begun
  BY DEF KeptInv, LinesOK, Left, CountsOK, MetOK, store
<1>2. \A h, i : Known(h, i)' <=> Known(h, i)
  BY DEF Known, store
<1>3. \A t \in Thread : Left(t)' = Left(t)
  BY DEF Left
<1>4. NamesOK => NamesOK'
  BY <1>2, <1>3 DEF NamesOK, RegKnown, OwnKnown, store, memory
<1>5. LifeOK => LifeOK'
  BY <1>3 DEF LifeOK, Alive, LinkOK, memory, Thread
<1>6. SlotsOK => SlotsOK'
  BY <1>3 DEF SlotsOK, CountOK, ReplaceOK, Steady, Mine, Prefixed, Room, memory
<1>7. Ledger => Ledger'
  <2>1. ASSUME NEW a, NEW b PROVE Booked(a, b)' = Booked(a, b)
    <3>1. \A d \in Day : Entries(a, b, d)' = Entries(a, b, d)
      BY <1>2 DEF Entries, store
    <3>2. counts' = counts /\ Coming(a, b)' = Coming(a, b)
      BY <1>3 DEF Coming, Comes, store
    <3> QED BY <3>1, <3>2 DEF Booked, SoFar, Day
  <2>2. ASSUME NEW a, NEW i PROVE Gone(a, i)' = Gone(a, i)
    BY <1>3 DEF Gone, Wipes, Records
  <2>3. ASSUME NEW a, NEW b PROVE Kept(a, b)' = Kept(a, b)
    BY <2>1, <2>2 DEF Kept, InSlot, Mine, memory
  <2> QED BY <2>3 DEF Ledger, Steady
<1> QED BY <1>1, <1>4, <1>5, <1>6, <1>7 DEF KeptInv

\* Every step.
LEMMA NextKept ==
  ASSUME ContactsInv, ContactsInv', KeptInv, NoKeysYet, [Next]_vars
  PROVE  KeptInv'
<1>1. CASE \E t \in Thread : Step(t)
  BY <1>1, StepKept
<1>2. CASE \E h \in Addr : NewHost(h) \/ RetireHost(h) \/ FlushContacts(h)
  BY <1>2, NewHostLedger, RetireKept, FlushKept
<1>3. CASE \E cli, srv \in Addr : NewFlow(cli, srv)
  BY <1>3, NewFlowKept
<1>4. CASE \E s, cli \in Addr, track \in BOOLEAN : AggregateInfo(s, cli, track)
  BY <1>4, AggregateKept
<1>5. CASE BeginDump \/ DumpKey \/ EndDump
  BY <1>5, DumpStepKept
<1>6. CASE Midnight \/ UNCHANGED vars
  <2>1. UNCHANGED <<memory, store, work, reg, rows, met, overlap>>
    BY <1>6 DEF Midnight, dump, vars, memory, store
  <2> QED BY <2>1, StillKept
<1> QED BY <1>1, <1>2, <1>3, <1>4, <1>5, <1>6 DEF Next

-------------------------------------------------------------------------------
(* Contacts: none is lost *)

\* Nothing is under way, and every host present has its number in the hash of today.
LEMMA InitKept ==
  ASSUME Init, ContactsInv, Confirmed = Present \ Aggregated
  PROVE  KeptInv
<1>1. PICK h \in Present \ Aggregated, k \in 0..Slots :
        \E peers \in Injection(1..k, Addr \ (Aggregated \cup {h})) :
          /\ slots = [g \in Addr |-> [mode \in Mode |-> [i \in 1..Slots |->
                    IF g = h /\ mode = "client" /\ i <= k
                    THEN [peer |-> peers[i], n |-> 1] ELSE Empty]]]
          /\ met = [pair \in Addr \X Addr |->
                   IF pair[1] = h /\ \E i \in 1..k : pair[2] = peers[i] THEN 1 ELSE 0]
  BY Zenon DEF Init
<1>2. PICK peers \in Injection(1..k, Addr \ (Aggregated \cup {h})) :
          /\ slots = [g \in Addr |-> [mode \in Mode |-> [i \in 1..Slots |->
                    IF g = h /\ mode = "client" /\ i <= k
                    THEN [peer |-> peers[i], n |-> 1] ELSE Empty]]]
          /\ met = [pair \in Addr \X Addr |->
                   IF pair[1] = h /\ \E i \in 1..k : pair[2] = peers[i] THEN 1 ELSE 0]
  BY <1>1
<1>3. /\ peers \in [1..k -> Addr] /\ \A i, j \in 1..k : peers[i] = peers[j] => i = j
      /\ k \in Nat /\ k <= Slots /\ Slots \in Nat /\ h \in Addr
  BY ContactsAssumption DEF Injection, IsInjective
<1>4. PICK number \in Bijection(Present \ Aggregated, 1..nextId) :
        /\ serial = [g \in Addr |-> IF g \in Present \ Aggregated THEN number[g] ELSE 0]
        /\ ids = [d \in Day |-> [g \in Addr |-> IF d = 1 /\ g \in Confirmed THEN number[g] ELSE 0]]
        /\ names = [d \in Day |-> IF d = 2 THEN <<>> ELSE
                      [i \in { number[g] : g \in Confirmed } |->
                         CHOOSE g \in Confirmed : number[g] = i]]
  BY DEF Init
<1>5. /\ number \in [Present \ Aggregated -> 1..nextId] /\ nextId \in Nat
      /\ \A a, b \in Present \ Aggregated : number[a] = number[b] => a = b
  BY DEF Bijection, Injection, IsInjective, ContactsInv, StoreOK
<1>6. \A t \in Thread : work[t] = <<>> /\ Left(t) = {}
  BY DEF Init, Left, InList
<1>7. alive = Present /\ counts = [d \in Day |-> <<>>] /\ Present \ Aggregated \subseteq Addr
  BY ContactsAssumption DEF Init
<1>8. ASSUME NEW g \in Present \ Aggregated PROVE number[g] # 0 /\ Known(g, number[g])
  <2>1. names[1] = [i \in { number[y] : y \in Confirmed } |-> CHOOSE y \in Confirmed : number[y] = i] /\ 1 \in Day
    BY <1>4 DEF Day
  <2>2. number[g] \in DOMAIN names[1] /\ names[1][number[g]] = CHOOSE y \in Confirmed : number[y] = number[g]
    BY <2>1
  <2>3. PICK x : x = CHOOSE y \in Confirmed : number[y] = number[g]
    OBVIOUS
  <2>4. x \in Confirmed /\ number[x] = number[g]
    BY <2>3
  <2>5. x = g
    BY <1>5, <2>4
  <2> QED BY <1>5, <2>1, <2>2, <2>3, <2>5 DEF Known
<1>9. LinesOK /\ CountsOK /\ MetOK
  <2>1. LineOK(<<>>)
    BY DEF LineOK
  <2>2. \A t \in Thread : LineOK(work[t])
    BY <1>6, <2>1
  <2>3. LinesOK
    BY <1>6, <2>2 DEF LinesOK, Thread
  <2>4. \A d \in Day : DOMAIN counts[d] = {}
    BY <1>7
  <2>5. CountsOK
    BY <2>4, FS_EmptySet DEF CountsOK
  <2>6. MetOK
    BY <1>2 DEF MetOK
  <2> QED BY <2>3, <2>5, <2>6
<1>10. NamesOK
  <2>1. ASSUME NEW d \in Day, NEW g \in Addr, NEW i, i # 0, ids[d][g] = i PROVE Known(g, i)
    <3>1. g \in Present \ Aggregated /\ i = number[g]
      BY <1>4, <2>1
    <3> QED BY <1>8, <3>1
  <2>2. ASSUME NEW g \in Addr, NEW i, i # 0, serial[g] = i PROVE Known(g, i)
    <3>1. g \in Present \ Aggregated /\ i = number[g]
      BY <1>4, <2>2
    <3> QED BY <1>8, <3>1
  <2>3. \A t \in Thread : RegKnown(t)
    BY <1>6 DEF RegKnown
  <2> QED BY <1>6, <2>1, <2>2, <2>3 DEF NamesOK
<1>11. LifeOK
  <2>1. ASSUME NEW g \in alive \cap Local PROVE serial[g] # 0
    <3>1. g \in Present \ Aggregated /\ g \in Addr
      BY <1>7 DEF Local
    <3>2. serial[g] = number[g]
      BY <1>4, <3>1
    <3> QED BY <1>8, <3>1, <3>2
  <2>2. Left("packets") = {}
    BY <1>6 DEF Thread
  <2> QED BY <1>6, <2>1, <2>2 DEF LifeOK
<1>12. ASSUME NEW a \in Addr, NEW i \in 1..Slots
       PROVE  Mine(a)[i] = IF a = h /\ i <= k THEN [peer |-> peers[i], n |-> 1] ELSE Empty
  <2>1. slots[a]["client"] = [j \in 1..Slots |-> IF a = h /\ j <= k THEN [peer |-> peers[j], n |-> 1] ELSE Empty]
    BY <1>2 DEF Mode
  <2> QED BY <2>1 DEF Mine
<1>13. SlotsOK
  <2>1. ASSUME NEW a \in Addr PROVE Prefixed(Mine(a))
    <3>1. SUFFICES ASSUME NEW i \in 1..Slots, NEW j \in 1..Slots, i < j, Mine(a)[j].n > 0
                   PROVE  Mine(a)[i].n > 0 /\ Mine(a)[i].peer # Mine(a)[j].peer
      BY DEF Prefixed
    <3>2. a = h /\ j <= k
      <4>1. ~(a = h /\ j <= k) => Mine(a)[j] = [peer |-> NoAddr, n |-> 0]
        BY <1>12 DEF Empty
      <4>2. ~(a = h /\ j <= k) => Mine(a)[j].n = 0
        BY <4>1
      <4> QED BY <3>1, <4>2
    <3>3. i \in 1..k /\ j \in 1..k /\ i # j
      BY <1>3, <3>1, <3>2
    <3>4. Mine(a)[i] = [peer |-> peers[i], n |-> 1] /\ Mine(a)[j] = [peer |-> peers[j], n |-> 1]
      BY <1>12, <3>2, <3>3
    <3>5. Mine(a)[i].n = 1 /\ Mine(a)[i].peer = peers[i] /\ Mine(a)[j].peer = peers[j]
      BY <3>4
    <3> QED BY <1>3, <3>3, <3>5
  <2> QED BY <1>6, <2>1 DEF SlotsOK
<1>14. Ledger
  <2>1. SUFFICES ASSUME NEW a \in Addr, NEW b \in Addr PROVE Kept(a, b)
    BY DEF Ledger
  <2>2. Booked(a, b) \in Nat
    <3>1. \A d \in Day : Entries(a, b, d) = {} 
      BY <1>7 DEF Entries
    <3>2. \A d \in Day : SumOver(counts[d], Entries(a, b, d)) \in Nat
      BY <3>1, FS_EmptySet, SumNat
    <3>3. ~ Coming(a, b)
      BY <1>6 DEF Coming
    <3>4. SoFar(a, b) \in Nat
      BY <3>2 DEF SoFar, Day
    <3> QED BY <3>3, <3>4 DEF Booked
  <2>3. met[<<a, b>>] = IF a = h /\ \E i \in 1..k : b = peers[i] THEN 1 ELSE 0
    BY <1>2
  <2>4. CASE a = h /\ \E i \in 1..k : b = peers[i]
    <3>1. PICK i \in 1..k : b = peers[i]
      BY <2>4
    <3>2. i \in 1..Slots /\ i <= k
      BY <1>3
    <3>3. Mine(a)[i] = [peer |-> b, n |-> 1]
      BY <1>12, <2>4, <3>1, <3>2
    <3>4. Mine(a)[i].peer = b /\ Mine(a)[i].n = 1
      BY <3>3
    <3>5. ~Gone(a, i)
      BY <1>6 DEF Gone
    <3>6. InSlot(a, b, i)
      BY <2>2, <2>3, <2>4, <3>4, <3>5 DEF InSlot
    <3> QED BY <3>2, <3>6 DEF Kept
  <2>5. CASE ~(a = h /\ \E i \in 1..k : b = peers[i])
    BY <2>2, <2>3, <2>5 DEF Kept
  <2> QED BY <2>4, <2>5
<1> QED BY <1>9, <1>10, <1>11, <1>13, <1>14 DEF KeptInv

\* What is stored of a's contacts with b, day by day.
StoredOn(a, b, d) == { e \in DOMAIN counts[d] : e[1] \in Named(a) /\ e[2] /\ e[3] \in Named(b) }

\* The sum of the property is that of the facts about sums.
LEMMA StoredSum ==
  ASSUME NEW a, NEW b, \A d \in Day : IsFiniteSet(DOMAIN counts[d]) /\ \A e \in DOMAIN counts[d] : counts[d][e] \in Nat
  PROVE  /\ Stored(a, b) = SumOver(counts[1], StoredOn(a, b, 1)) + SumOver(counts[2], StoredOn(a, b, 2))
<1> DEFINE In(d) == MapThenSumSet(LAMBDA e : counts[d][e],
             { e \in DOMAIN counts[d] : e[1] \in Named(a) /\ e[2] /\ e[3] \in Named(b) })
           G == [d \in Day |-> In(d)]
           all == MapThenSumSet(LAMBDA d : In(d), Day)
           IsIt(h) == h = [s \in SUBSET Day |-> IF s = {} THEN 0
                             ELSE In(CHOOSE x \in s : TRUE) + h[s \ {CHOOSE x \in s : TRUE}]]
<1>1. Stored(a, b) = all
  BY DEF Stored
<1>2. \A d \in Day : In(d) = SumOver(counts[d], StoredOn(a, b, d)) /\ In(d) \in Nat
  <2>1. ASSUME NEW d \in Day PROVE In(d) = SumOver(counts[d], StoredOn(a, b, d))
    BY DEF SumOver, StoredOn
  <2>2. ASSUME NEW d \in Day PROVE SumOver(counts[d], StoredOn(a, b, d)) \in Nat
    <3>1. IsFiniteSet(StoredOn(a, b, d))
      BY FS_Subset DEF StoredOn
    <3>2. \A e \in StoredOn(a, b, d) : counts[d][e] \in Nat
      BY DEF StoredOn
    <3> QED BY <3>1, <3>2, SumNat
  <2> HIDE DEF In
  <2> QED BY <2>1, <2>2
<1> HIDE DEF In
<1>3. all = (CHOOSE h : IsIt(h))[Day]
  BY DEF MapThenSumSet, MapThenFoldSet
<1>4. ASSUME NEW h PROVE IsIt(h) <=> IsSum(h, G, Day)
  BY ChosenIn DEF IsSum, Chosen
<1>16. IsFiniteSet(Day)
  <2>1. PICK one \in Int, two \in Int : one = 1 /\ two = 2
    OBVIOUS
  <2>2. IsFiniteSet(one..two)
    BY FS_Interval
  <2> QED BY <2>1, <2>2 DEF Day
<1>5. IsFiniteSet(Day) /\ Day = {1, 2}
  BY <1>16 DEF Day
<1>6. PICK k : IsSum(k, G, Day) /\ SumOver(G, Day) = k[Day]
  BY <1>16, SumExists, SumIs
<1>7. Day \in SUBSET Day
  OBVIOUS
<1> HIDE DEF IsIt, all
<1>8. IsIt(CHOOSE h : IsIt(h))
  <2>1. IsIt(k)
    BY <1>4, <1>6
  <2> QED BY <2>1, Zenon
<1>9. PICK h : IsSum(h, G, Day) /\ all = h[Day]
  BY <1>3, <1>4, <1>8, Zenon
<1>10. G[1] = In(1) /\ G[2] = In(2) /\ \A d \in Day : G[d] \in Int
  BY <1>2, <1>5
<1> HIDE DEF G
<1>11. all = SumOver(G, Day)
  BY <1>6, <1>7, <1>9, <1>16, SumUnique
<1>12. SumOver(G, Day) = G[1] + SumOver(G, Day \ {1})
  <2>1. 1 \in Day
    BY <1>5
  <2> QED BY <1>5, <1>10, <2>1, SumRest
<1>13. SumOver(G, {2}) = G[2]
  <2>1. IsFiniteSet({2}) /\ 2 \in {2} /\ \A d \in {2} : G[d] \in Int
    BY <1>5, <1>10, FS_Singleton
  <2>2. SumOver(G, {2}) = G[2] + SumOver(G, {2} \ {2})
    BY <2>1, SumRest
  <2>3. {2} \ {2} = {}
    OBVIOUS
  <2>4. SumOver(G, {}) = 0
    BY SumNone
  <2> QED BY <1>5, <1>10, <2>2, <2>3, <2>4
<1>14. Day \ {1} = {2}
  BY <1>5
<1>15. all = In(1) + In(2)
  BY <1>10, <1>11, <1>12, <1>13, <1>14
<1> QED BY <1>1, <1>2, <1>5, <1>15

\* The slots get_num_contacts_by() adds up, and what it finds in each.
Matching(a, b) == { i \in 1..Slots : Mine(a)[i].peer = b /\ \A j \in 1..i : Mine(a)[j].n > 0 }

\* And so is that of the slots.
LEMMA NumSum ==
  ASSUME NEW a, NEW b, IsFiniteSet(Matching(a, b))
  PROVE  NumContactsBy(a, b) = SumOver([i \in 1..Slots |-> Mine(a)[i].n], Matching(a, b))
<1> DEFINE S == Matching(a, b)
           G == [i \in 1..Slots |-> Mine(a)[i].n]
           IsIt(h) == h = [s \in SUBSET S |-> IF s = {} THEN 0
                             ELSE Mine(a)[CHOOSE x \in s : TRUE].n + h[s \ {CHOOSE x \in s : TRUE}]]
           all == MapThenSumSet(LAMBDA i : Mine(a)[i].n, S)
<1>1. NumContactsBy(a, b) = all
  BY DEF NumContactsBy, Mine, Matching
<1>2. all = (CHOOSE h : IsIt(h))[S]
  BY DEF MapThenSumSet, MapThenFoldSet
<1>3. ASSUME NEW s \in SUBSET S, s # {} PROVE G[Chosen(s)] = Mine(a)[CHOOSE x \in s : TRUE].n
  <2>1. Chosen(s) \in 1..Slots
    BY <1>3, ChosenIn DEF Matching
  <2> QED BY <2>1 DEF Chosen
<1> HIDE DEF G
<1>4. ASSUME NEW h PROVE IsIt(h) <=> IsSum(h, G, S)
  BY <1>3 DEF IsSum, Chosen
<1>5. PICK k : IsSum(k, G, S) /\ SumOver(G, S) = k[S]
  BY SumExists, SumIs
<1>6. S \in SUBSET S /\ IsFiniteSet(S)
  OBVIOUS
<1> HIDE DEF IsIt, S, all
<1>7. IsIt(CHOOSE h : IsIt(h))
  <2>1. IsIt(k)
    BY <1>4, <1>5
  <2> QED BY <2>1, Zenon
<1>8. PICK h : IsSum(h, G, S) /\ all = h[S]
  BY <1>2, <1>4, <1>7, Zenon
<1>9. all = SumOver(G, S)
  BY <1>5, <1>6, <1>8, SumUnique
<1> QED BY <1>1, <1>9 DEF G, S

\* When nothing is under way, what is known is in the hashes or in the host.
LEMMA QuietKept ==
  ASSUME ContactsInv, KeptInv
  PROVE  ContactsKept
<1>1. SUFFICES ASSUME Quiet, ~rows.begun, NEW a \in Recorded \ (overlap \cup Aggregated), NEW b \in Recorded
               PROVE  met[<<a, b>>] <= Stored(a, b) + NumContactsBy(a, b)
  BY DEF ContactsKept
<1>2. a \in Addr /\ b \in Addr /\ Steady(a) /\ Slots \in Nat
  BY ContactsAssumption DEF Steady, Local
<1>3. Kept(a, b) /\ Prefixed(Mine(a)) /\ MetOK /\ CountsOK
  BY <1>1, <1>2 DEF KeptInv, Ledger, SlotsOK
<1>4. met[<<a, b>>] \in Nat
  BY <1>2, <1>3 DEF MetOK
<1>5. ASSUME NEW h \in Addr, NEW i, Known(h, i) PROVE i \in Named(h)
  <2>1. PICK d \in Day : i \in DOMAIN names[d] /\ names[d][i] = h
    BY <1>1, <1>5 DEF Known, Quiet
  <2>2. i \in 1..nextId
    BY <2>1 DEF ContactsInv, TypeOK
  <2> QED BY <2>1, <2>2 DEF Named
<1>6. \A d \in Day : IsFiniteSet(DOMAIN counts[d]) /\ \A e \in DOMAIN counts[d] : counts[d][e] \in Nat
  BY <1>3 DEF CountsOK, ContactsInv, TypeOK
<1>7. ASSUME NEW d \in Day
      PROVE  /\ SumOver(counts[d], Entries(a, b, d)) \in Nat /\ SumOver(counts[d], StoredOn(a, b, d)) \in Nat
             /\ SumOver(counts[d], Entries(a, b, d)) <= SumOver(counts[d], StoredOn(a, b, d))
  <2>1. Entries(a, b, d) \subseteq StoredOn(a, b, d)
    BY <1>2, <1>5 DEF Entries, StoredOn
  <2>2. StoredOn(a, b, d) \subseteq DOMAIN counts[d]
    BY DEF StoredOn
  <2>3. IsFiniteSet(StoredOn(a, b, d)) /\ IsFiniteSet(Entries(a, b, d))
    BY <1>6, <2>1, <2>2, FS_Subset
  <2>4. /\ \A e \in StoredOn(a, b, d) : counts[d][e] \in Nat
        /\ \A e \in Entries(a, b, d) : counts[d][e] \in Nat /\ counts[d][e] <= counts[d][e]
    BY <1>6, <2>1, <2>2
  <2> QED BY <2>1, <2>3, <2>4, SumNat, SumWider
<1>8. /\ Booked(a, b) = SumOver(counts[1], Entries(a, b, 1)) + SumOver(counts[2], Entries(a, b, 2))
  <2>1. ~ Coming(a, b)
    BY <1>1 DEF Coming, Left, InList, Quiet
  <2>2. SoFar(a, b) \in Nat
    BY <1>7 DEF SoFar, Day
  <2> QED BY <2>1, <2>2 DEF Booked, SoFar
<1>9. Booked(a, b) \in Nat /\ Stored(a, b) \in Nat /\ Booked(a, b) <= Stored(a, b)
  <2>1. Stored(a, b) = SumOver(counts[1], StoredOn(a, b, 1)) + SumOver(counts[2], StoredOn(a, b, 2))
    BY <1>6, StoredSum
  <2> QED BY <1>7, <1>8, <2>1 DEF Day
<1>10. \A i \in 1..Slots : Mine(a)[i].n \in Nat
  <2>1. slots \in [Addr -> [Mode -> [1..Slots -> Slot]]] /\ "client" \in Mode
    BY DEF ContactsInv, TypeOK, Mode
  <2>2. Mine(a) \in [1..Slots -> Slot]
    BY <1>2, <2>1 DEF Mine
  <2>3. \A i \in 1..Slots : Mine(a)[i] \in Slot
    BY <2>2
  <2> QED BY <2>3 DEF Slot
<1>11. PICK g : g = [i \in 1..Slots |-> Mine(a)[i].n]
  OBVIOUS
<1>12. /\ NumContactsBy(a, b) \in Nat
       /\ \A i \in Matching(a, b) : Mine(a)[i].n <= NumContactsBy(a, b)
  <2>1. Matching(a, b) \subseteq 1..Slots
    BY DEF Matching
  <2>2. IsFiniteSet(Matching(a, b))
    <3>1. PICK one \in Int, top \in Int : one = 1 /\ top = Slots
      BY <1>2
    <3>2. IsFiniteSet(one..top)
      BY FS_Interval
    <3> QED BY <2>1, <3>1, <3>2, FS_Subset
  <2>3. NumContactsBy(a, b) = SumOver(g, Matching(a, b))
    BY <1>11, <2>2, NumSum
  <2>4. \A i \in Matching(a, b) : g[i] = Mine(a)[i].n /\ g[i] \in Nat
    BY <1>10, <1>11, <2>1
  <2>5. SumOver(g, Matching(a, b)) \in Nat /\ \A i \in Matching(a, b) : g[i] <= SumOver(g, Matching(a, b))
    BY <2>2, <2>4, SumNat
  <2> QED BY <2>3, <2>4, <2>5
<1>13. CASE met[<<a, b>>] <= Booked(a, b)
  BY <1>4, <1>9, <1>12, <1>13
<1>14. ASSUME NEW i \in 1..Slots, InSlot(a, b, i)
       PROVE  met[<<a, b>>] <= Stored(a, b) + NumContactsBy(a, b)
  <2>1. Mine(a)[i].peer = b /\ Mine(a)[i].n > 0 /\ met[<<a, b>>] <= Booked(a, b) + Mine(a)[i].n
    BY <1>14 DEF InSlot
  <2>2. \A j \in 1..i : Mine(a)[j].n > 0
    <3>1. SUFFICES ASSUME NEW j \in 1..i PROVE Mine(a)[j].n > 0
      OBVIOUS
    <3>2. j \in 1..Slots /\ (j < i \/ j = i)
      BY <1>2
    <3> QED BY <1>3, <2>1, <3>2 DEF Prefixed
  <2>3. i \in Matching(a, b)
    BY <2>1, <2>2 DEF Matching
  <2> QED BY <1>4, <1>9, <1>10, <1>12, <2>1, <2>3
<1> QED BY <1>3, <1>13, <1>14 DEF Kept

\* When every host present at the start has its number in the hash of the day, no
\* contact of a client is lost until the dump takes them: evictions, flushes, the end
\* of a host, a midnight and numbers asked for twice keep each in a slot or a count.
THEOREM ContactsStayKept == ASSUME Confirmed = Present \ Aggregated PROVE Spec => []ContactsKept
<1>1. ContactsInv /\ NoKeysYet /\ KeptInv /\ ContactsInv' /\ [Next]_vars => NoKeysYet' /\ KeptInv'
  BY KeysKept, NextKept
<1>2. Init => NoKeysYet /\ KeptInv
  <2>1. Init => NoKeysYet
    BY DEF Init, NoKeysYet
  <2> QED BY <2>1, InitContacts, InitKept
<1>3. ContactsInv /\ KeptInv => ContactsKept
  BY QuietKept
<1> QED BY <1>1, <1>2, <1>3, ContactsInvariance, PTL DEF Spec
===============================================================================
