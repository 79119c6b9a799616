----------------------------- MODULE RecordProofs -----------------------------
(***************************************************************************)
(* Proofs about records of the past.  The historical interface, for every  *)
(* number of files, of threads and of missing files: most of them are      *)
(* about one request at a time, since with two on_load excludes nothing.   *)
(* The counters of a host and their records, for any keys, interfaces and  *)
(* traffic.                                                                *)
(***************************************************************************)
EXTENDS Historical, HostRecord, SumTheorems

OneRequest == \A q1, q2 \in Requests : q1 = q2

Loading(l) == lpc[l] \in {"load", "read"}

-------------------------------------------------------------------------------
(* The invariants *)

\* The loop of a thread stays within the files, whatever interval it was given.
LoopInv ==
  /\ at \in [Loaders -> Nat] /\ last \in [Loaders -> Int]
  /\ \A l \in Loaders : Loading(l) => last[l] <= LastFile /\ (at[l] >= 1 \/ last[l] < 0)
  /\ \A q \in Requests : pc[q] \in {"open", "read"} => file[q] \in File

\* on_load is set while a thread is to be created or goes on, and clear while the
\* interface is cleaned.
LockInv ==
  /\ \A l \in Loaders : Active(l) => on_load
  /\ \A l, m \in Loaders : Active(l) /\ Active(m) => l = m
  /\ \A q \in Requests :
       /\ pc[q] \in {"start", "clean", "reset", "set"} => ~on_load
       /\ pc[q] = "test" /\ file[q] = 0 => ~on_load
       /\ pc[q] = "create" => on_load /\ \A l \in Loaders : ~Active(l)
       /\ pc[q] \in {"start", "set", "create"} => file[q] = 0

\* A load starts from clean tables.
CleanInv ==
  /\ (\E q \in Requests : pc[q] \in {"reset", "set", "create"}) => started = NoInterval
  /\ (\E l \in Loaders : lpc[l] = "wait") => started = NoInterval

\* The readable files from the start of the interval up to another one.
Upto(f, to) == IF Readable(f) /\ f >= started.from /\ f < to THEN 1 ELSE 0

\* The tables hold the files before the one a thread is at, or those of the interval.
TablesInv ==
  ~stopped =>
    /\ \A l \in Loaders :
         Loading(l) =>
           /\ running /\ last[l] = started.to - 1 /\ at[l] >= started.from
           /\ at[l] <= started.to \/ at[l] = started.from
           /\ \A f \in File : tables[f] = extra[f] + Upto(f, at[l])
    /\ (\A l \in Loaders : ~Loading(l)) =>
         \A f \in File : tables[f] = extra[f] + Upto(f, started.to)

TypeInv == TypeOK /\ LoopInv
IInv == TypeInv /\ LockInv /\ CleanInv /\ TablesInv

-------------------------------------------------------------------------------
(* Each step keeps them *)

LEMMA IntervalFacts ==
  ASSUME NEW i \in Interval \cup {NoInterval}
  PROVE  /\ i.from \in Nat /\ i.to \in Nat /\ i.to <= LastFile + 1
         /\ i.from >= 1 \/ i.to = 0
<1>1. CASE i \in Interval
  <2>1. i.from \in 1..LastFile /\ i.to \in 1..(LastFile + 1)
    BY <1>1 DEF Interval, File
  <2>2. QED
    BY <2>1, HistoricalAssumption DEF HistoricalAssumption
<1>2. CASE i = NoInterval
  BY <1>2, HistoricalAssumption DEF NoInterval, HistoricalAssumption
<1>3. QED
  BY <1>1, <1>2

\* The flags, places and loops, however many requests there are.
LEMMA TypeStep ==
  ASSUME TypeInv, [Next]_vars
  PROVE  TypeInv'
<1> USE DEF TypeInv, Goes, flags, process, req, load, content
<1>1. ASSUME NEW q \in Requests, NEW i \in Interval, AskInterval(q, i)
      PROVE  TypeInv'
  BY <1>1 DEF AskInterval, TypeOK, LoopInv, Loading
<1>2. ASSUME NEW q \in Requests, NEW i \in Interval, SetInfo(q, i)
      PROVE  TypeInv'
  BY <1>2 DEF SetInfo, TypeOK, LoopInv, Loading
<1>3. ASSUME NEW q \in Requests, NEW f \in File, NEW cleanup \in BOOLEAN,
             AskFile(q, f, cleanup)
      PROVE  TypeInv'
  BY <1>3 DEF AskFile, TypeOK, LoopInv, Loading
<1>4. ASSUME NEW q \in Requests, Start(q) PROVE TypeInv'
  BY <1>4 DEF Start, TypeOK, LoopInv, Loading
<1>5. ASSUME NEW q \in Requests, Test(q) PROVE TypeInv'
  BY <1>5 DEF Test, AfterCleanup, TypeOK, LoopInv, Loading
<1>6. ASSUME NEW q \in Requests, Clean(q) PROVE TypeInv'
  BY <1>6 DEF Clean, TypeOK, LoopInv, Loading
<1>7. ASSUME NEW q \in Requests, ResetStats(q) PROVE TypeInv'
  BY <1>7 DEF ResetStats, AfterCleanup, TypeOK, LoopInv, Loading
<1>8. ASSUME NEW q \in Requests, SetOnLoad(q) PROVE TypeInv'
  BY <1>8 DEF SetOnLoad, TypeOK, LoopInv, Loading
<1>9. ASSUME NEW q \in Requests, CreateThread(q) PROVE TypeInv'
  BY <1>9 DEF CreateThread, TypeOK, LoopInv, Loading
<1>10. ASSUME NEW q \in Requests, StartPolling(q) PROVE TypeInv'
  BY <1>10 DEF StartPolling, TypeOK, LoopInv, Loading
<1>11. ASSUME NEW q \in Requests, OpenFile(q) PROVE TypeInv'
  BY <1>11 DEF OpenFile, TypeOK, LoopInv, Loading
<1>12. ASSUME NEW q \in Requests, ReadFile(q) PROVE TypeInv'
  BY <1>12 DEF ReadFile, TypeOK, LoopInv, Loading
<1>13. ASSUME NEW l \in Loaders, BeginLoad(l) PROVE TypeInv'
  <2>1. interval.to - 1 \in Int /\ interval.from \in Nat /\ interval.to - 1 <= LastFile
        /\ (interval.from >= 1 \/ interval.to - 1 < 0)
    BY IntervalFacts, HistoricalAssumption DEF TypeOK, HistoricalAssumption
  <2>2. QED
    BY <1>13, <2>1 DEF BeginLoad, TypeOK, LoopInv, Loading
<1>14. ASSUME NEW l \in Loaders, NextFile(l) PROVE TypeInv'
  <2>1. at[l] \in File
    BY <1>14, HistoricalAssumption DEF NextFile, LoopInv, Loading, File, HistoricalAssumption
  <2>2. TypeOK'
    <3>1. CASE Readable(at[l])
      BY <1>14, <2>1, <3>1 DEF NextFile, TypeOK, Readable
    <3>2. CASE ~Readable(at[l])
      <4>1. lpc[l] = "load" /\ UNCHANGED <<lpc, last>> /\ \A m \in Loaders \ {l} : at'[m] = at[m]
        BY <1>14, <3>2 DEF NextFile, TypeOK, LoopInv
      <4>2. \A m \in Loaders : lpc'[m] = "read" => at'[m] \in File \ Missing /\ at'[m] <= last'[m]
        BY <4>1 DEF TypeOK
      <4>3. QED
        BY <1>14, <4>1, <4>2 DEF NextFile, TypeOK
    <3>3. QED
      BY <3>1, <3>2
  <2>3. LoopInv'
    BY <1>14, <2>1 DEF NextFile, TypeOK, LoopInv, Loading
  <2>4. QED
    BY <2>2, <2>3
<1>15. ASSUME NEW l \in Loaders, LoadFile(l) PROVE TypeInv'
  BY <1>15 DEF LoadFile, TypeOK, LoopInv, Loading
<1>16. ASSUME NEW l \in Loaders, EndLoad(l) PROVE TypeInv'
  BY <1>16 DEF EndLoad, TypeOK, LoopInv, Loading
<1>17. ASSUME Shutdown PROVE TypeInv'
  BY <1>17 DEF Shutdown, TypeOK, LoopInv, Loading
<1>18. ASSUME UNCHANGED vars PROVE TypeInv'
  BY <1>18 DEF vars, TypeOK, LoopInv, Loading
<1> QED
  BY <1>1, <1>2, <1>3, <1>4, <1>5, <1>6, <1>7, <1>8, <1>9, <1>10, <1>11, <1>12, <1>13, <1>14, <1>15, <1>16, <1>17, <1>18 DEF Next

LEMMA LockStep ==
  ASSUME OneRequest, TypeInv, LockInv, [Next]_vars
  PROVE  LockInv'
<1> USE DEF TypeInv, AfterCleanup, Active, Goes, flags, process, req, load, content
<1>1. ASSUME NEW q \in Requests, NEW i \in Interval, AskInterval(q, i)
      PROVE  LockInv'
  BY <1>1 DEF AskInterval, LockInv, OneRequest, TypeOK
<1>2. ASSUME NEW q \in Requests, NEW i \in Interval, SetInfo(q, i)
      PROVE  LockInv'
  BY <1>2 DEF SetInfo, LockInv, OneRequest, TypeOK
<1>3. ASSUME NEW q \in Requests, NEW f \in File, NEW cleanup \in BOOLEAN,
             AskFile(q, f, cleanup)
      PROVE  LockInv'
  BY <1>3 DEF AskFile, File, LockInv, OneRequest, TypeOK
<1>4. ASSUME NEW q \in Requests, Start(q) PROVE LockInv'
  BY <1>4 DEF Start, LockInv, OneRequest, TypeOK
<1>5. ASSUME NEW q \in Requests, Test(q) PROVE LockInv'
  BY <1>5 DEF Test, LockInv, OneRequest, TypeOK
<1>6. ASSUME NEW q \in Requests, Clean(q) PROVE LockInv'
  BY <1>6 DEF Clean, LockInv, OneRequest, TypeOK
<1>7. ASSUME NEW q \in Requests, ResetStats(q) PROVE LockInv'
  BY <1>7 DEF ResetStats, LockInv, OneRequest, TypeOK
<1>8. ASSUME NEW q \in Requests, SetOnLoad(q) PROVE LockInv'
  BY <1>8 DEF SetOnLoad, LockInv, OneRequest, TypeOK
<1>9. ASSUME NEW q \in Requests, CreateThread(q) PROVE LockInv'
  BY <1>9 DEF CreateThread, LockInv, OneRequest, TypeOK
<1>10. ASSUME NEW q \in Requests, StartPolling(q) PROVE LockInv'
  BY <1>10 DEF StartPolling, LockInv, OneRequest, TypeOK
<1>11. ASSUME NEW q \in Requests, OpenFile(q) PROVE LockInv'
  BY <1>11 DEF OpenFile, LockInv, OneRequest, TypeOK
<1>12. ASSUME NEW q \in Requests, ReadFile(q) PROVE LockInv'
  BY <1>12 DEF ReadFile, LockInv, OneRequest, TypeOK
<1>13. ASSUME NEW l \in Loaders, BeginLoad(l) PROVE LockInv'
  BY <1>13 DEF BeginLoad, LockInv, OneRequest, TypeOK
<1>14. ASSUME NEW l \in Loaders, NextFile(l) PROVE LockInv'
  BY <1>14 DEF NextFile, LockInv, OneRequest, TypeOK
<1>15. ASSUME NEW l \in Loaders, LoadFile(l) PROVE LockInv'
  BY <1>15 DEF LoadFile, LockInv, OneRequest, TypeOK
<1>16. ASSUME NEW l \in Loaders, EndLoad(l) PROVE LockInv'
  BY <1>16 DEF EndLoad, LockInv, OneRequest, TypeOK
<1>17. ASSUME Shutdown PROVE LockInv'
  BY <1>17 DEF Shutdown, LockInv, OneRequest, TypeOK
<1>18. ASSUME UNCHANGED vars PROVE LockInv'
  BY <1>18 DEF vars, LockInv, OneRequest, TypeOK
<1> QED
  BY <1>1, <1>2, <1>3, <1>4, <1>5, <1>6, <1>7, <1>8, <1>9, <1>10, <1>11, <1>12, <1>13, <1>14, <1>15, <1>16, <1>17, <1>18 DEF Next

LEMMA CleanStep ==
  ASSUME OneRequest, TypeInv, LockInv, CleanInv, [Next]_vars
  PROVE  CleanInv'
<1> USE DEF TypeInv, AfterCleanup, Active, Goes, flags, process, req, load, content
<1>1. ASSUME NEW q \in Requests, NEW i \in Interval, AskInterval(q, i)
      PROVE  CleanInv'
  BY <1>1 DEF AskInterval, CleanInv, LockInv, OneRequest, TypeOK
<1>2. ASSUME NEW q \in Requests, NEW i \in Interval, SetInfo(q, i)
      PROVE  CleanInv'
  BY <1>2 DEF SetInfo, CleanInv, LockInv, OneRequest, TypeOK
<1>3. ASSUME NEW q \in Requests, NEW f \in File, NEW cleanup \in BOOLEAN,
             AskFile(q, f, cleanup)
      PROVE  CleanInv'
  BY <1>3 DEF AskFile, CleanInv, LockInv, OneRequest, TypeOK
<1>4. ASSUME NEW q \in Requests, Start(q) PROVE CleanInv'
  BY <1>4 DEF Start, CleanInv, LockInv, OneRequest, TypeOK
<1>5. ASSUME NEW q \in Requests, Test(q) PROVE CleanInv'
  BY <1>5 DEF Test, CleanInv, LockInv, OneRequest, TypeOK
<1>6. ASSUME NEW q \in Requests, Clean(q) PROVE CleanInv'
  BY <1>6 DEF Clean, CleanInv, LockInv, OneRequest, TypeOK
<1>7. ASSUME NEW q \in Requests, ResetStats(q) PROVE CleanInv'
  BY <1>7 DEF ResetStats, CleanInv, LockInv, OneRequest, TypeOK
<1>8. ASSUME NEW q \in Requests, SetOnLoad(q) PROVE CleanInv'
  BY <1>8 DEF SetOnLoad, CleanInv, LockInv, OneRequest, TypeOK
<1>9. ASSUME NEW q \in Requests, CreateThread(q) PROVE CleanInv'
  BY <1>9 DEF CreateThread, CleanInv, LockInv, OneRequest, TypeOK
<1>10. ASSUME NEW q \in Requests, StartPolling(q) PROVE CleanInv'
  BY <1>10 DEF StartPolling, CleanInv, LockInv, OneRequest, TypeOK
<1>11. ASSUME NEW q \in Requests, OpenFile(q) PROVE CleanInv'
  BY <1>11 DEF OpenFile, CleanInv, LockInv, OneRequest, TypeOK
<1>12. ASSUME NEW q \in Requests, ReadFile(q) PROVE CleanInv'
  BY <1>12 DEF ReadFile, CleanInv, LockInv, OneRequest, TypeOK
<1>13. ASSUME NEW l \in Loaders, BeginLoad(l) PROVE CleanInv'
  BY <1>13 DEF BeginLoad, CleanInv, LockInv, OneRequest, TypeOK
<1>14. ASSUME NEW l \in Loaders, NextFile(l) PROVE CleanInv'
  BY <1>14 DEF NextFile, CleanInv, LockInv, OneRequest, TypeOK
<1>15. ASSUME NEW l \in Loaders, LoadFile(l) PROVE CleanInv'
  BY <1>15 DEF LoadFile, CleanInv, LockInv, OneRequest, TypeOK
<1>16. ASSUME NEW l \in Loaders, EndLoad(l) PROVE CleanInv'
  BY <1>16 DEF EndLoad, CleanInv, LockInv, OneRequest, TypeOK
<1>17. ASSUME Shutdown PROVE CleanInv'
  BY <1>17 DEF Shutdown, CleanInv, LockInv, OneRequest, TypeOK
<1>18. ASSUME UNCHANGED vars PROVE CleanInv'
  BY <1>18 DEF vars, CleanInv, LockInv, OneRequest, TypeOK
<1> QED
  BY <1>1, <1>2, <1>3, <1>4, <1>5, <1>6, <1>7, <1>8, <1>9, <1>10, <1>11, <1>12, <1>13, <1>14, <1>15, <1>16, <1>17, <1>18 DEF Next

LEMMA TablesStep ==
  ASSUME OneRequest, TypeInv, LockInv, CleanInv, TablesInv, [Next]_vars
  PROVE  TablesInv'
<1> USE DEF TypeInv, AfterCleanup, Active, Goes, flags, process, req, load, content
<1>1. ASSUME NEW q \in Requests, NEW i \in Interval, AskInterval(q, i)
      PROVE  TablesInv'
  BY <1>1 DEF AskInterval, TablesInv, LockInv, TypeOK, LoopInv, Loading, Upto
<1>2. ASSUME NEW q \in Requests, NEW i \in Interval, SetInfo(q, i)
      PROVE  TablesInv'
  BY <1>2 DEF SetInfo, TablesInv, LockInv, TypeOK, LoopInv, Loading, Upto
<1>3. ASSUME NEW q \in Requests, NEW f \in File, NEW cleanup \in BOOLEAN,
             AskFile(q, f, cleanup)
      PROVE  TablesInv'
  BY <1>3 DEF AskFile, TablesInv, LockInv, TypeOK, LoopInv, Loading, Upto
<1>4. ASSUME NEW q \in Requests, Start(q) PROVE TablesInv'
  BY <1>4 DEF Start, TablesInv, LockInv, TypeOK, LoopInv, Loading, Upto
<1>5. ASSUME NEW q \in Requests, Test(q) PROVE TablesInv'
  BY <1>5 DEF Test, TablesInv, LockInv, TypeOK, LoopInv, Loading, Upto
<1>6. ASSUME NEW q \in Requests, Clean(q) PROVE TablesInv'
  <2>1. \A l \in Loaders : ~Loading(l)'
    BY <1>6 DEF Clean, LockInv, TypeOK, Loading
  <2>2. \A f \in File : Upto(f, started.to)' = 0
    BY <1>6 DEF Clean, Upto, NoInterval, File
  <2>3. QED
    BY <1>6, <2>1, <2>2 DEF Clean, TablesInv
<1>7. ASSUME NEW q \in Requests, ResetStats(q) PROVE TablesInv'
  BY <1>7 DEF ResetStats, TablesInv, LockInv, TypeOK, LoopInv, Loading, Upto
<1>8. ASSUME NEW q \in Requests, SetOnLoad(q) PROVE TablesInv'
  BY <1>8 DEF SetOnLoad, TablesInv, LockInv, TypeOK, LoopInv, Loading, Upto
<1>9. ASSUME NEW q \in Requests, CreateThread(q) PROVE TablesInv'
  BY <1>9 DEF CreateThread, TablesInv, LockInv, TypeOK, LoopInv, Loading, Upto
<1>10. ASSUME NEW q \in Requests, StartPolling(q) PROVE TablesInv'
  BY <1>10 DEF StartPolling, TablesInv, LockInv, TypeOK, LoopInv, Loading, Upto
<1>11. ASSUME NEW q \in Requests, OpenFile(q) PROVE TablesInv'
  BY <1>11 DEF OpenFile, TablesInv, LockInv, TypeOK, LoopInv, Loading, Upto
<1>12. ASSUME NEW q \in Requests, ReadFile(q) PROVE TablesInv'
  BY <1>12 DEF ReadFile, TablesInv, LockInv, TypeOK, LoopInv, Loading, Upto
<1>13. ASSUME NEW l \in Loaders, BeginLoad(l) PROVE TablesInv'
  <2>1. SUFFICES ASSUME ~stopped PROVE TablesInv'
    BY <1>13 DEF BeginLoad, TablesInv
  <2>2. \A m \in Loaders : ~Loading(m) /\ (Loading(m)' => m = l)
    BY <1>13 DEF BeginLoad, LockInv, TypeOK, Loading
  <2>3. \A f \in File : tables[f] = extra[f]
    <3>1. started = NoInterval
      BY <1>13 DEF BeginLoad, CleanInv
    <3>2. \A f \in File : Upto(f, started.to) = 0
      BY <3>1 DEF Upto, NoInterval, File
    <3>3. QED
      BY <2>1, <2>2, <3>2 DEF TablesInv, TypeOK
  <2>4. /\ running' /\ started' = interval /\ at'[l] = interval.from
        /\ last'[l] = interval.to - 1 /\ UNCHANGED <<tables, extra>>
    BY <1>13 DEF BeginLoad, TypeOK, LoopInv
  <2>5. \A f \in File : Upto(f, at[l])' = 0
    BY <2>4, IntervalFacts DEF Upto, TypeOK, File
  <2>6. interval.from \in Nat
    BY IntervalFacts DEF TypeOK
  <2>7. Loading(l)'
    BY <1>13 DEF BeginLoad, TypeOK, Loading
  <2>8. QED
    BY <2>2, <2>3, <2>4, <2>5, <2>6, <2>7 DEF TablesInv, TypeOK
<1>14. ASSUME NEW l \in Loaders, NextFile(l) PROVE TablesInv'
  <2>1. SUFFICES ASSUME ~stopped PROVE TablesInv'
    BY <1>14 DEF NextFile, TablesInv
  <2>2. \A m \in Loaders : (Loading(m) => m = l) /\ (Loading(m)' => m = l)
    BY <1>14 DEF NextFile, LockInv, TypeOK, Loading
  <2>3. Loading(l) /\ Loading(l)' /\ UNCHANGED <<running, last, started, tables, extra, stopped>>
    BY <1>14 DEF NextFile, TypeOK, Loading
  <2>4. /\ running /\ last[l] = started.to - 1 /\ at[l] >= started.from
        /\ \A f \in File : tables[f] = extra[f] + Upto(f, at[l])
    BY <2>1, <2>3 DEF TablesInv
  <2>5. started.to \in Nat /\ started.from \in Nat /\ at[l] \in Nat /\ at[l] <= last[l]
    BY <1>14, IntervalFacts DEF NextFile, TypeOK, LoopInv
  <2>6. CASE Readable(at[l])
    <3>1. UNCHANGED at
      BY <1>14, <2>6 DEF NextFile
    <3>2. QED
      BY <2>1, <2>2, <2>3, <3>1 DEF TablesInv, Upto
  <2>7. CASE ~Readable(at[l])
    <3>1. at'[l] = at[l] + 1
      BY <1>14, <2>7 DEF NextFile, LoopInv, TypeOK
    <3>2. \A f \in File : Upto(f, at[l])' = Upto(f, at[l])
      BY <2>3, <2>5, <2>7, <3>1 DEF Upto, File
    <3>3. QED
      BY <2>1, <2>2, <2>3, <2>4, <2>5, <3>1, <3>2 DEF TablesInv
  <2>8. QED
    BY <2>6, <2>7
<1>15. ASSUME NEW l \in Loaders, LoadFile(l) PROVE TablesInv'
  <2>1. SUFFICES ASSUME ~stopped PROVE TablesInv'
    BY <1>15 DEF LoadFile, TablesInv
  <2>2. \A m \in Loaders : (Loading(m) => m = l) /\ (Loading(m)' => m = l)
    BY <1>15 DEF LoadFile, LockInv, TypeOK, Loading
  <2>3. /\ Loading(l) /\ Loading(l)' /\ UNCHANGED <<running, last, started, extra, stopped>>
        /\ at'[l] = at[l] + 1 /\ tables' = [tables EXCEPT ![at[l]] = @ + 1]
    BY <1>15 DEF LoadFile, TypeOK, Loading, LoopInv
  <2>4. /\ running /\ last[l] = started.to - 1 /\ at[l] >= started.from
        /\ \A f \in File : tables[f] = extra[f] + Upto(f, at[l])
    BY <2>1, <2>3 DEF TablesInv
  <2>5. started.to \in Nat /\ started.from \in Nat /\ at[l] \in File /\ Readable(at[l])
        /\ at[l] <= last[l] /\ at[l] \in Nat
    BY <1>15, IntervalFacts DEF LoadFile, TypeOK, LoopInv, Readable
  <2>6. \A f \in File : Upto(f, at[l])' = Upto(f, at[l]) + (IF f = at[l] THEN 1 ELSE 0)
    BY <2>3, <2>4, <2>5 DEF Upto, File
  <2>7. \A f \in File : tables'[f] = extra'[f] + Upto(f, at[l])'
    <3>1. \A f \in File : tables'[f] = tables[f] + (IF f = at[l] THEN 1 ELSE 0)
      BY <2>3, <2>5 DEF TypeOK
    <3>2. \A f \in File : Upto(f, at[l]) \in {0, 1} /\ extra[f] \in Nat
      BY DEF Upto, TypeOK
    <3>3. QED
      BY <2>3, <2>4, <2>6, <3>1, <3>2
  <2>8. QED
    BY <2>1, <2>2, <2>3, <2>4, <2>5, <2>7 DEF TablesInv
<1>16. ASSUME NEW l \in Loaders, EndLoad(l) PROVE TablesInv'
  <2>1. SUFFICES ASSUME ~stopped PROVE TablesInv'
    BY <1>16 DEF EndLoad, TablesInv
  <2>2. \A m \in Loaders : ~Loading(m)'
    BY <1>16 DEF EndLoad, LockInv, TypeOK, Loading
  <2>3. Loading(l) /\ UNCHANGED <<at, last, started, tables, extra, running>>
    BY <1>16 DEF EndLoad, Loading
  <2>4. /\ running /\ last[l] = started.to - 1 /\ at[l] >= started.from
        /\ at[l] <= started.to \/ at[l] = started.from
        /\ \A f \in File : tables[f] = extra[f] + Upto(f, at[l])
    BY <2>1, <2>3 DEF TablesInv
  <2>5. started.to \in Nat /\ started.from \in Nat /\ at[l] \in Nat /\ ~(at[l] <= last[l])
    BY <1>16, <2>4, IntervalFacts DEF EndLoad, TypeOK, LoopInv
  <2>6. \A f \in File : Upto(f, started.to)' = Upto(f, at[l])
    BY <2>3, <2>4, <2>5 DEF Upto, File
  <2>7. QED
    BY <2>2, <2>3, <2>4, <2>6 DEF TablesInv
<1>17. ASSUME Shutdown PROVE TablesInv'
  BY <1>17 DEF Shutdown, TablesInv, LockInv, TypeOK, LoopInv, Loading, Upto
<1>18. ASSUME UNCHANGED vars PROVE TablesInv'
  BY <1>18 DEF vars, TablesInv, LockInv, TypeOK, LoopInv, Loading, Upto
<1> QED
  BY <1>1, <1>2, <1>3, <1>4, <1>5, <1>6, <1>7, <1>8, <1>9, <1>10, <1>11, <1>12, <1>13, <1>14, <1>15, <1>16, <1>17, <1>18 DEF Next


LEMMA InitIInv == Init => IInv
<1>1. SUFFICES ASSUME Init PROVE IInv
  OBVIOUS
<1>2. TypeInv
  <2>1. TypeOK
    BY <1>1 DEF Init, TypeOK
  <2>2. LoopInv
    BY <1>1 DEF Init, LoopInv, Loading
  <2>3. QED
    BY <2>1, <2>2 DEF TypeInv
<1>3. LockInv /\ CleanInv
  BY <1>1 DEF Init, LockInv, CleanInv, Active
<1>4. TablesInv
  BY <1>1, HistoricalAssumption
     DEF Init, TablesInv, Loading, Upto, NoInterval, File, HistoricalAssumption
<1>5. QED
  BY <1>2, <1>3, <1>4 DEF IInv

LEMMA Inductive == ASSUME OneRequest PROVE Spec => []IInv
<1>1. IInv /\ [Next]_vars => IInv'
  BY TypeStep, LockStep, CleanStep, TablesStep DEF IInv
<1>2. QED
  BY <1>1, InitIInv, PTL DEF Spec

-------------------------------------------------------------------------------
\* The types hold of any number of requests, and no thread reads past the files there are.
THEOREM TypeCorrect == Spec => []TypeOK
<1>1. Init => TypeInv
  BY InitIInv DEF IInv
<1>2. TypeInv /\ [Next]_vars => TypeInv'
  BY TypeStep
<1>3. TypeInv => TypeOK
  BY DEF TypeInv
<1>4. QED
  BY <1>1, <1>2, <1>3, PTL DEF Spec

\* With one request at a time at most one thread loads an interval, for any number of
\* loads, of single files between them and of new epochs set meanwhile.
THEOREM SingleLoad == ASSUME OneRequest PROVE Spec => []OneLoadAtATime
<1>1. IInv => OneLoadAtATime
  <2>1. SUFFICES ASSUME IInv PROVE OneLoadAtATime
    OBVIOUS
  <2>2. DEFINE S == {l \in Loaders : Active(l)}
  <2>3. CASE S = {}
    BY <2>3, FS_EmptySet DEF OneLoadAtATime
  <2>4. CASE S # {}
    <3>1. PICK l \in Loaders : S = {l}
      BY <2>1, <2>4 DEF IInv, LockInv
    <3>2. Cardinality(S) = 1
      BY <3>1, FS_Singleton
    <3>3. QED
      BY <3>2 DEF OneLoadAtATime
  <2>5. QED
    BY <2>3, <2>4
<1>2. QED
  BY <1>1, Inductive, PTL

\* With one request at a time on_load is set as long as a thread loads an interval: what a
\* second request breaks.
THEOREM LoadsAnnounced == ASSUME OneRequest PROVE Spec => []LoadsAreAnnounced
<1>1. IInv => LoadsAreAnnounced
  BY DEF IInv, LockInv, LoadsAreAnnounced
<1>2. QED
  BY <1>1, Inductive, PTL

\* With one request at a time the tables are never freed while flows are put into them.
THEOREM CleanupAlone == ASSUME OneRequest PROVE Spec => []NoCleanupDuringLoad
<1>1. IInv => NoCleanupDuringLoad
  BY DEF IInv, LockInv, Active, NoCleanupDuringLoad, OneRequest
<1>2. QED
  BY <1>1, Inductive, PTL

\* With one request at a time, when a load is over the tables hold each readable file of its
\* interval once, and the files loaded one by one besides, for every interval and every
\* choice of files that cannot be opened.
THEOREM TablesAsAsked == ASSUME OneRequest PROVE Spec => []LoadedAsAsked
<1>1. IInv => LoadedAsAsked
  BY DEF IInv, TablesInv, LoadedAsAsked, Upto, Loading, Active
<1>2. QED
  BY <1>1, Inductive, PTL
-------------------------------------------------------------------------------
(* The records of a host *)

Counters == [Dir -> [pkts : Nat, bytes : Nat]]
SavedCounters == [Dir -> [packets : Nat, bytes : Nat]]
Rates == [at : Nat, last : Nat, bytes : Nat, per : Int, trend : {"unknown", "up", "down", "stable"}]
Seconds == 0..(DayLength - 1)
Activity == [begin : Nat, wrap : Nat, map : SUBSET Seconds, last : Nat, asked : Nat]

HostFields == {"iface", "key", "vlan", "mac", "local", "idle", "name", "alt", "total", "l4", "ndpi",
               "sizes", "dns", "epp", "activity", "activityAt", "thpt", "own"}

HostTyped(h) ==
  /\ DOMAIN h = HostFields
  /\ h.key \in HostKey /\ h.vlan \in Vlan
  /\ h.total \in Counters /\ h.own \in Nat
  /\ h.thpt \in Rates /\ h.activity \in Activity

\* Bytes were seen, and those that are not in the last update of the rate are the host's own.
BytesOK(h, s) ==
  /\ Bytes(h) <= s[<<h.key, h.vlan>>]
  /\ h.thpt.last <= Bytes(h) /\ Bytes(h) <= h.thpt.last + h.own
  /\ h.thpt.bytes <= h.own

\* The time of day of each second in the set is one at which the key was active.
RealSeconds(seconds, k, a) == \A b \in seconds : \E t \in a[k] : t % DayLength = b

MapOK(h, a) ==
  /\ h.activity.begin % DayLength = 0 /\ h.activity.wrap % DayLength = 0
  /\ RealSeconds(h.activity.map, h.key, a)

HostOK(h, s, a) == HostTyped(h) /\ BytesOK(h, s) /\ MapOK(h, a)

SavedBytes(r) == r.total["sent"].bytes + r.total["rcvd"].bytes

SavedOK(x, r, s, a) ==
  /\ x \in HostKey \X Vlan
  /\ r.total \in SavedCounters /\ SavedBytes(r) <= s[x]
  /\ r.seconds \subseteq Nat
  /\ \A b \in r.seconds : \E t \in a[x[1]] : t % DayLength = b % DayLength

DumpReal(path, map, a) == path[4] \in HostKey /\ map \subseteq Seconds /\ RealSeconds(map, path[4], a)

Histories(s, a) == s \in [HostKey \X Vlan -> Nat] /\ a \in [HostKey -> SUBSET Nat]

RecordInv ==
  /\ Histories(seen, active) /\ clock \in Nat
  /\ \A o \in DOMAIN hosts : HostOK(hosts[o], seen, active)
  /\ \A x \in DOMAIN saved : SavedOK(x, saved[x].record, seen, active)
  /\ \A path \in DOMAIN dumps : DumpReal(path, dumps[path], active)

\* Quotient and remainder of an integer, negative or not.
LEMMA Divided ==
  ASSUME NEW a \in Int, NEW p \in Nat \ {0}
  PROVE  a \div p \in Int /\ a % p \in 0..(p - 1) /\ a = p * (a \div p) + (a % p)
OBVIOUS

\* A remainder is told by any way to write the number as a multiple and less than one period.
LEMMA Remainder ==
  ASSUME NEW a \in Int, NEW p \in Nat \ {0}, NEW q \in Int, NEW r \in 0..(p - 1), a = p * q + r
  PROVE  a % p = r
<1> DEFINE d == a \div p
           m == a % p
<1>1. d \in Int /\ m \in 0..(p - 1) /\ a = p * d + m
  BY Divided
<1> HIDE DEF d, m
<1>2. p * (q - d) = m - r
  <2>1. p * (q - d) = p * q - p * d
    BY <1>1
  <2> QED
    BY <1>1, <2>1
<1>3. ~(q - d >= 1)
  <2> SUFFICES ASSUME q - d >= 1 PROVE FALSE
    OBVIOUS
  <2>1. p * (q - d) >= p * 1
    BY <1>1
  <2> QED
    BY <1>1, <1>2, <2>1
<1>4. ~(q - d <= -1)
  <2> SUFFICES ASSUME q - d <= -1 PROVE FALSE
    OBVIOUS
  <2>1. p * (q - d) <= p * (-1)
    BY <1>1
  <2> QED
    BY <1>1, <1>2, <2>1
<1>5. d = q
  BY <1>1, <1>3, <1>4
<1>6. m = r
  BY <1>1, <1>5
<1> QED
  BY <1>6 DEF m

\* Times of day: whole days do not change them, and midnights are whole days.
LEMMA TimesOfDay ==
  ASSUME NEW t \in Nat, NEW begin \in Nat, begin % DayLength = 0
  PROVE  /\ (begin + t) % DayLength = t % DayLength
         /\ begin <= t => (t - begin) % DayLength = t % DayLength
<1> DEFINE p == DayLength
           k == begin \div p
           d == t \div p
           m == t % p
<1>1. p \in Nat \ {0}
  BY RecordAssumption DEF RecordAssumption
<1> HIDE DEF p
<1>2. k \in Int /\ begin = p * k /\ d \in Int /\ m \in 0..(p - 1) /\ t = p * d + m
  <2>1. begin % p = 0
    BY DEF p
  <2>2. k \in Int /\ begin = p * k + (begin % p)
    BY <1>1, Divided
  <2>3. d \in Int /\ m \in 0..(p - 1) /\ t = p * d + m
    BY <1>1
  <2> QED
    BY <1>1, <2>1, <2>2, <2>3
<1>3. t % p = m
  OBVIOUS
<1> HIDE DEF k, d, m
<1>4. p * k + p * d = p * (k + d) /\ p * d - p * k = p * (d - k)
  BY <1>1, <1>2
<1>5. begin + t = p * (k + d) + m
  BY <1>1, <1>2, <1>4
<1>6. t - begin = p * (d - k) + m
  BY <1>1, <1>2, <1>4
<1>7. (begin + t) % p = m
  BY <1>1, <1>2, <1>5, Remainder
<1>8. (t - begin) % p = m
  BY <1>1, <1>2, <1>6, Remainder
<1> QED
  BY <1>3, <1>7, <1>8 DEF p

LEMMA Midnights ==
  ASSUME NEW t \in Nat
  PROVE  /\ t % DayLength \in Seconds
         /\ t - (t % DayLength) \in Nat /\ (t - (t % DayLength)) % DayLength = 0
         /\ t % DayLength = 0 => (t + DayLength) % DayLength = 0
         /\ t \in Seconds => t % DayLength = t
<1> DEFINE p == DayLength
           d == t \div p
           m == t % p
<1>1. p \in Nat \ {0}
  BY RecordAssumption DEF RecordAssumption
<1> HIDE DEF p
<1>2. d \in Int /\ m \in 0..(p - 1) /\ t = p * d + m
  BY <1>1
<1>3. t % p = m
  OBVIOUS
<1> HIDE DEF d, m
<1>4. t - m = p * d + 0 /\ t - m \in Int
  BY <1>1, <1>2
<1>5. (t - m) % p = 0
  <2>1. 0 \in 0..(p - 1)
    BY <1>1
  <2> QED
    BY <1>1, <1>2, <1>4, <2>1, Remainder
<1>6. t - m >= 0
  <2>1. ~(d <= -1)
    <3> SUFFICES ASSUME d <= -1 PROVE FALSE
      OBVIOUS
    <3>1. p * d <= p * (-1)
      BY <1>1, <1>2
    <3> QED
      BY <1>1, <1>2, <3>1
  <2>2. p * d >= p * 0
    BY <1>1, <1>2, <2>1
  <2> QED
    BY <1>1, <1>2, <2>2
<1>7. (t + p) % p = m
  <2>1. t + p = p * (d + 1) + m
    <3>1. p * (d + 1) = p * d + p
      BY <1>1, <1>2
    <3> QED
      BY <1>1, <1>2, <3>1
  <2> QED
    BY <1>1, <1>2, <2>1, Remainder
<1>8. t \in 0..(p - 1) => m = t
  <2>1. t = p * 0 + t
    BY <1>1
  <2>2. t \in 0..(p - 1) => t % p = t
    BY <1>1, <2>1, Remainder
  <2> QED
    BY <1>3, <2>2
<1> QED
  BY <1>2, <1>3, <1>4, <1>5, <1>6, <1>7, <1>8 DEF p, Seconds

\* More was seen, and keys were active at more times.
Grown(s, a, s2, a2) ==
  /\ Histories(s, a) /\ Histories(s2, a2)
  /\ \A x \in HostKey \X Vlan : s[x] <= s2[x]
  /\ \A k \in HostKey : a[k] \subseteq a2[k]

LEMMA RealGrows ==
  ASSUME NEW s, NEW a, NEW s2, NEW a2, Grown(s, a, s2, a2),
         NEW seconds, NEW k \in HostKey, RealSeconds(seconds, k, a)
  PROVE  RealSeconds(seconds, k, a2)
BY DEF Grown, RealSeconds

LEMMA HostGrows ==
  ASSUME NEW s, NEW a, NEW s2, NEW a2, Grown(s, a, s2, a2),
         NEW h, HostOK(h, s, a)
  PROVE  HostOK(h, s2, a2)
<1>1. h.key \in HostKey /\ <<h.key, h.vlan>> \in HostKey \X Vlan /\ Bytes(h) \in Nat
  BY DEF HostOK, HostTyped, Counters, Bytes, Dir
<1>2. MapOK(h, a2)
  BY <1>1, RealGrows DEF HostOK, MapOK
<1>3. s[<<h.key, h.vlan>>] \in Nat /\ s2[<<h.key, h.vlan>>] \in Nat
      /\ s[<<h.key, h.vlan>>] <= s2[<<h.key, h.vlan>>]
  BY <1>1 DEF Grown, Histories
<1>4. BytesOK(h, s2)
  BY <1>1, <1>3 DEF HostOK, BytesOK
<1> QED
  BY <1>2, <1>4 DEF HostOK

LEMMA SavedGrows ==
  ASSUME NEW s, NEW a, NEW s2, NEW a2, Grown(s, a, s2, a2),
         NEW x, NEW r, SavedOK(x, r, s, a)
  PROVE  SavedOK(x, r, s2, a2)
<1>1. x \in HostKey \X Vlan /\ SavedBytes(r) \in Nat /\ x[1] \in HostKey
  BY DEF SavedOK, SavedCounters, SavedBytes, Dir
<1>2. SavedBytes(r) <= s2[x]
  BY <1>1 DEF SavedOK, Grown, Histories
<1>3. \A b \in r.seconds : \E t \in a2[x[1]] : t % DayLength = b % DayLength
  BY <1>1 DEF SavedOK, Grown
<1> QED
  BY <1>1, <1>2, <1>3 DEF SavedOK

\* A host is the same for its history when its counters, its rate and its map are.
SameRecord(g, h) ==
  /\ DOMAIN g = HostFields /\ g.key = h.key /\ g.vlan = h.vlan
  /\ g.total = h.total /\ g.own = h.own /\ g.thpt = h.thpt /\ g.activity = h.activity

LEMMA SameRecordOK ==
  ASSUME NEW g, NEW h, NEW s, NEW a, HostOK(h, s, a), SameRecord(g, h)
  PROVE  HostOK(g, s, a)
BY DEF SameRecord, HostOK, HostTyped, BytesOK, Bytes, MapOK

LEMMA LabelsKeep ==
  ASSUME NEW h, DOMAIN h = HostFields, NEW n
  PROVE  /\ SameRecord(h, h)
         /\ SameRecord([h EXCEPT !.name = n], h) /\ SameRecord([h EXCEPT !.alt = n], h)
         /\ SameRecord([h EXCEPT !.local = n], h) /\ SameRecord([h EXCEPT !.idle = n], h)
         /\ \A f \in {"dns", "epp"} : SameRecord([h EXCEPT ![f] = n], h)
BY DEF SameRecord, HostFields

LEMMA NewRecordOK ==
  ASSUME RecordInv, NEW i, NEW k \in HostKey, NEW v \in Vlan, NEW mac
  PROVE  HostOK(BlankHost(i, k, v, mac), seen, active)
<1> DEFINE h == BlankHost(i, k, v, mac)
           begin == clock - (clock % DayLength)
<1>1. DayLength \in Nat \ {0} /\ clock \in Nat
  BY RecordAssumption DEF RecordAssumption, RecordInv
<1>2. begin \in Nat /\ begin % DayLength = 0 /\ (begin + DayLength) % DayLength = 0
  <2>1. begin \in Nat /\ begin % DayLength = 0
    BY <1>1, Midnights
  <2> HIDE DEF begin
  <2> QED
    BY <2>1, Midnights
<1>3. h.activity = [begin |-> begin, wrap |-> begin + DayLength, map |-> {}, last |-> 0, asked |-> 0]
  BY DEF BlankHost, NewActivity
<1>4. /\ DOMAIN h = HostFields /\ h.key = k /\ h.vlan = v /\ h.own = 0
      /\ h.total = NoTraffic /\ h.thpt = [at |-> 0, last |-> 0, bytes |-> 0, per |-> 1, trend |-> "unknown"]
  BY DEF BlankHost, HostFields
<1> HIDE DEF h, begin
<1>5. h.total \in Counters /\ Bytes(h) = 0
  BY <1>4 DEF NoTraffic, Zero, Counters, Dir, Bytes
<1>6. h.activity \in Activity /\ h.activity.map = {} /\ MapOK(h, active)
  BY <1>1, <1>2, <1>3 DEF Activity, MapOK, RealSeconds
<1>7. h.thpt \in Rates
  BY <1>4 DEF Rates
<1>8. seen[<<k, v>>] \in Nat
  BY DEF RecordInv, Histories
<1>9. BytesOK(h, seen)
  BY <1>4, <1>5, <1>8 DEF BytesOK
<1>10. HostOK(h, seen, active)
  BY <1>4, <1>5, <1>6, <1>7, <1>9 DEF HostOK, HostTyped
<1> QED
  BY <1>10 DEF h

LEMMA ReadRecordOK ==
  ASSUME RecordInv, NEW h, HostOK(h, seen, active),
         NEW r, SavedOK(<<h.key, h.vlan>>, r, seen, active)
  PROVE  HostOK(Deserialize(h, r), seen, active)
<1> DEFINE g == Deserialize(h, r)
           bytes == SavedBytes(r)
           total == ReadTraffic(r.total)
           rate == [at |-> clock, last |-> bytes, bytes |-> 0, per |-> 1, trend |-> "unknown"]
           map == ReadSeconds(r.seconds)
           activity == [h.activity EXCEPT !.map = map, !.last = 0]
<1>1. CASE r.long
  BY <1>1 DEF Deserialize
<1>2. CASE ~r.long
  <2>1. DOMAIN h = HostFields /\ h.key \in HostKey /\ h.vlan \in Vlan /\ h.own \in Nat
        /\ h.activity \in Activity /\ clock \in Nat
    BY DEF HostOK, HostTyped, RecordInv
  <2>2. DOMAIN g = HostFields /\ g.key = h.key /\ g.vlan = h.vlan /\ g.own = h.own /\ g.total = total
    BY <1>2, <2>1 DEF Deserialize, HostFields
  <2>3. g.thpt = rate
    BY <1>2, <2>1 DEF Deserialize, HostFields, SavedBytes
  <2>4. g.activity = activity
    BY <1>2, <2>1 DEF Deserialize, HostFields, Activity
  <2>5. total \in Counters /\ bytes \in Nat /\ total["sent"].bytes + total["rcvd"].bytes = bytes
    BY DEF SavedOK, SavedCounters, SavedBytes, ReadTraffic, Counters, Dir
  <2>6. bytes <= seen[<<h.key, h.vlan>>]
    BY DEF SavedOK
  <2>7. map \subseteq Seconds /\ RealSeconds(map, h.key, active)
    <3>1. r.seconds \subseteq Nat
          /\ \A b \in r.seconds : \E t \in active[h.key] : t % DayLength = b % DayLength
      BY DEF SavedOK
    <3>2. \A b \in r.seconds : b % DayLength \in Seconds
      BY <3>1, Midnights
    <3> QED
      BY <3>1, <3>2 DEF ReadSeconds, RealSeconds
  <2> HIDE DEF g, bytes, total, map
  <2>8. /\ activity \in Activity /\ activity.map = map
        /\ activity.begin = h.activity.begin /\ activity.wrap = h.activity.wrap
    BY <2>1, <2>7 DEF Activity
  <2>9. rate \in Rates /\ rate.last = bytes /\ rate.bytes = 0
    BY <2>1, <2>5 DEF Rates
  <2> HIDE DEF rate, activity
  <2>10. HostTyped(g)
    BY <2>1, <2>2, <2>3, <2>4, <2>5, <2>8, <2>9 DEF HostTyped
  <2>11. BytesOK(g, seen)
    BY <2>1, <2>2, <2>3, <2>5, <2>6, <2>9 DEF BytesOK, Bytes
  <2>12. MapOK(g, active)
    BY <2>2, <2>4, <2>7, <2>8 DEF MapOK, HostOK
  <2>13. HostOK(g, seen, active)
    BY <2>10, <2>11, <2>12 DEF HostOK
  <2> QED
    BY <2>13 DEF g
<1> QED
  BY <1>1, <1>2

LEMMA ReadMapOK ==
  ASSUME RecordInv, NEW h, HostOK(h, seen, active)
  PROVE  HostOK(ReadStats(h), seen, active)
<1> DEFINE path == DumpPath("y/m/d", h)
           map == ReadDump(path, h.activity.map)
           g == [h EXCEPT !.activity.map = map]
<1>1. h.activity \in Activity /\ DOMAIN h = HostFields
  BY DEF HostOK, HostTyped
<1>2. path[4] = h.key
  BY DEF DumpPath
<1>3. map \subseteq Seconds /\ RealSeconds(map, h.key, active)
  <2>1. CASE path \in DOMAIN dumps
    <3>1. DumpReal(path, dumps[path], active)
      BY <2>1 DEF RecordInv
    <3> HIDE DEF path
    <3> QED
      BY <1>2, <2>1, <3>1 DEF DumpReal, ReadDump
  <2>2. CASE path \notin DOMAIN dumps
    <3> HIDE DEF path
    <3> QED
      BY <1>1, <2>2 DEF ReadDump, HostOK, MapOK, Activity
  <2> QED
    BY <2>1, <2>2
<1> HIDE DEF map
<1>4. /\ DOMAIN g = HostFields /\ g.key = h.key /\ g.vlan = h.vlan /\ g.total = h.total /\ g.own = h.own
      /\ g.thpt = h.thpt /\ g.activity = [h.activity EXCEPT !.map = map]
  BY <1>1 DEF HostFields
<1> HIDE DEF g
<1>5. /\ g.activity \in Activity /\ g.activity.map = map
      /\ g.activity.begin = h.activity.begin /\ g.activity.wrap = h.activity.wrap
  BY <1>1, <1>3, <1>4 DEF Activity
<1>6. HostTyped(g)
  BY <1>4, <1>5 DEF HostOK, HostTyped
<1>7. BytesOK(g, seen)
  BY <1>4 DEF HostOK, BytesOK, Bytes
<1>8. MapOK(g, active)
  BY <1>3, <1>4, <1>5 DEF HostOK, MapOK
<1>9. HostOK(g, seen, active)
  BY <1>6, <1>7, <1>8 DEF HostOK
<1>10. ReadStats(h) \in {g, h}
  BY DEF ReadStats, g, map
<1> QED
  BY <1>9, <1>10

LEMMA StartOK ==
  ASSUME RecordInv, NEW h, HostOK(h, seen, active), NEW found \in BOOLEAN,
         found => <<h.key, h.vlan>> \in DOMAIN saved
  PROVE  HostOK(Initialize(h, found), seen, active)
<1> DEFINE local == [h EXCEPT !.local = h.key \in locals]
           read == IF local.local /\ Persistency /\ found
                   THEN Deserialize(local, saved[<<h.key, h.vlan>>].record) ELSE local
           named == IF h.key \in DOMAIN NameCache THEN [read EXCEPT !.name = NameCache[h.key]] ELSE read
           alt == IF h.key \in DOMAIN labels THEN [named EXCEPT !.alt = labels[h.key]] ELSE named
<1>1. HostOK(local, seen, active) /\ local.key = h.key /\ local.vlan = h.vlan
  <2>1. SameRecord(local, h)
    BY LabelsKeep DEF HostOK, HostTyped
  <2> QED
    BY <2>1, SameRecordOK DEF SameRecord
<1> HIDE DEF local
<1>2. HostOK(read, seen, active)
  <2>1. found => SavedOK(<<h.key, h.vlan>>, saved[<<h.key, h.vlan>>].record, seen, active)
    BY DEF RecordInv
  <2> QED
    BY <1>1, <2>1, ReadRecordOK
<1> HIDE DEF read
<1>3. HostOK(named, seen, active)
  <2>1. \A n : HostOK([read EXCEPT !.name = n], seen, active)
    BY <1>2, LabelsKeep, SameRecordOK DEF HostOK, HostTyped
  <2> QED
    BY <1>2, <2>1
<1> HIDE DEF named
<1>4. HostOK(alt, seen, active)
  <2>1. \A n : HostOK([named EXCEPT !.alt = n], seen, active)
    BY <1>3, LabelsKeep, SameRecordOK DEF HostOK, HostTyped
  <2> QED
    BY <1>3, <2>1
<1> HIDE DEF alt
<1>5. HostOK(IF alt.local THEN ReadStats(alt) ELSE alt, seen, active)
  BY <1>4, ReadMapOK
<1> QED
  BY <1>5 DEF Initialize, alt, named, read, local

\* What a flow adds to a host is added to what was seen of its key.
LEMMA CountedOK ==
  ASSUME NEW s, NEW a, NEW s2, Grown(s, a, s2, a), NEW h, HostOK(h, s, a), NEW p \in Traffic,
         s2[<<h.key, h.vlan>>] = s[<<h.key, h.vlan>>] + p.traffic["sent"].bytes + p.traffic["rcvd"].bytes
  PROVE  HostOK(IncStats(h, p), s2, a)
<1> DEFINE g == IncStats(h, p)
           added == p.traffic["sent"].bytes + p.traffic["rcvd"].bytes
           total == IncBoth(h.total, p.traffic)
<1>1. p.traffic \in Counters
  BY RecordAssumption DEF RecordAssumption, Counters, Dir
<1>2. h.total \in Counters /\ DOMAIN h = HostFields /\ h.own \in Nat /\ h.thpt \in Rates
  BY DEF HostOK, HostTyped
<1>3. CASE \A d \in Dir : p.traffic[d].pkts = 0
  <2>1. g = h
    BY <1>3 DEF IncStats
  <2> QED
    BY <2>1, HostGrows
<1>4. CASE ~(\A d \in Dir : p.traffic[d].pkts = 0)
  <2>1. /\ DOMAIN g = HostFields /\ g.key = h.key /\ g.vlan = h.vlan
        /\ g.thpt = h.thpt /\ g.activity = h.activity
    BY <1>2, <1>4 DEF IncStats, HostFields
  <2>2. g.total = total
    BY <1>2, <1>4 DEF IncStats, HostFields
  <2>3. g.own = h.own + p.traffic["sent"].bytes + p.traffic["rcvd"].bytes
    BY <1>2, <1>4 DEF IncStats, HostFields
  <2>4. total \in Counters /\ added \in Nat /\ Bytes(h) \in Nat
        /\ total["sent"].bytes + total["rcvd"].bytes = Bytes(h) + added
    BY <1>1, <1>2 DEF Counters, IncBoth, Inc, Bytes, Dir
  <2>5. p.traffic["sent"].bytes \in Nat /\ p.traffic["rcvd"].bytes \in Nat
    BY <1>1 DEF Counters, Dir
  <2>6. h.key \in HostKey /\ h.vlan \in Vlan /\ s[<<h.key, h.vlan>>] \in Nat
    BY DEF HostOK, HostTyped, Grown, Histories
  <2> HIDE DEF g, total
  <2>7. g.own = h.own + added /\ g.own \in Nat
    BY <1>2, <2>3, <2>5
  <2>8. s2[<<h.key, h.vlan>>] = s[<<h.key, h.vlan>>] + added
    BY <2>5, <2>6
  <2> HIDE DEF added
  <2>9. Bytes(g) = Bytes(h) + added
    BY <2>2, <2>4 DEF Bytes
  <2>10. h.thpt.last \in Nat /\ h.thpt.bytes \in Nat
    BY <1>2 DEF Rates
  <2>11. BytesOK(h, s)
    BY DEF HostOK
  <2>12. BytesOK(g, s2)
    BY <1>2, <2>1, <2>4, <2>6, <2>7, <2>8, <2>9, <2>10, <2>11 DEF BytesOK
  <2>13. HostTyped(g)
    BY <2>1, <2>2, <2>4, <2>7 DEF HostOK, HostTyped
  <2>14. MapOK(g, a)
    BY <2>1 DEF HostOK, MapOK
  <2>15. HostOK(g, s2, a)
    BY <2>12, <2>13, <2>14 DEF HostOK
  <2> QED
    BY <2>15 DEF g
<1> QED
  BY <1>3, <1>4

\* The rate is that of the bytes since the last update.
LEMMA RatedOK ==
  ASSUME RecordInv, NEW h, HostOK(h, seen, active)
  PROVE  HostOK([h EXCEPT !.thpt = UpdateThroughput(h)], seen, active)
<1> DEFINE t == UpdateThroughput(h)
           g == [h EXCEPT !.thpt = t]
<1>1. h.total \in Counters /\ DOMAIN h = HostFields /\ h.own \in Nat /\ h.thpt \in Rates
      /\ clock \in Nat /\ h.key \in HostKey /\ h.vlan \in Vlan /\ h.activity \in Activity
  BY DEF HostOK, HostTyped, RecordInv
<1>2. Bytes(h) \in Nat
  BY <1>1 DEF Counters, Bytes, Dir
<1>3. h.thpt.last <= Bytes(h) /\ Bytes(h) <= h.thpt.last + h.own /\ h.thpt.bytes <= h.own
      /\ h.thpt.last \in Nat /\ h.thpt.bytes \in Nat /\ h.thpt.at \in Nat
  BY <1>1 DEF HostOK, BytesOK, Rates
<1>4. t \in Rates /\ t.last <= Bytes(h) /\ Bytes(h) <= t.last + h.own /\ t.bytes <= h.own
  <2>1. CASE h.idle \/ clock = h.thpt.at
    <3>1. t = h.thpt
      BY <2>1 DEF UpdateThroughput
    <3> QED
      BY <1>1, <1>3, <3>1
  <2>2. CASE ~(h.idle \/ clock = h.thpt.at) /\ h.thpt.at = 0
    <3>1. t = [h.thpt EXCEPT !.at = clock]
      BY <2>2 DEF UpdateThroughput
    <3>2. t \in Rates /\ t.last = h.thpt.last /\ t.bytes = h.thpt.bytes
      BY <1>1, <3>1 DEF Rates
    <3> QED
      BY <1>3, <3>2
  <2>3. CASE ~(h.idle \/ clock = h.thpt.at) /\ h.thpt.at # 0
    <3> DEFINE delta == Bytes(h) - h.thpt.last
    <3>1. delta \in Nat /\ delta <= h.own
      BY <1>1, <1>2, <1>3
    <3>2. PICK trend \in {"up", "down", "stable"} :
            t = [at |-> clock, last |-> Bytes(h), bytes |-> delta, per |-> clock - h.thpt.at, trend |-> trend]
      BY <2>3 DEF UpdateThroughput
    <3>3. t \in Rates /\ t.last = Bytes(h) /\ t.bytes = delta
      BY <1>1, <1>2, <1>3, <3>1, <3>2 DEF Rates
    <3> QED
      BY <1>1, <1>2, <3>1, <3>3
  <2> QED
    BY <2>1, <2>2, <2>3
<1> HIDE DEF t
<1>5. /\ DOMAIN g = HostFields /\ g.key = h.key /\ g.vlan = h.vlan /\ g.total = h.total /\ g.own = h.own
      /\ g.thpt = t /\ g.activity = h.activity
  BY <1>1 DEF HostFields
<1> HIDE DEF g
<1>6. HostTyped(g)
  BY <1>1, <1>4, <1>5 DEF HostTyped
<1>7. BytesOK(g, seen)
  <2>1. Bytes(g) = Bytes(h)
    BY <1>5 DEF Bytes
  <2>2. Bytes(h) <= seen[<<h.key, h.vlan>>]
    BY DEF HostOK, BytesOK
  <2> QED
    BY <1>4, <1>5, <2>1, <2>2 DEF BytesOK
<1>8. MapOK(g, active)
  BY <1>5 DEF HostOK, MapOK
<1>9. HostOK(g, seen, active)
  BY <1>6, <1>7, <1>8 DEF HostOK
<1> QED
  BY <1>9 DEF g, t

\* A second is put into the map at its time of day, and the map of a new day is empty.
LEMMA SetOK ==
  ASSUME NEW s, NEW a, Histories(s, a), NEW h, HostOK(h, s, a), NEW when \in Nat, when \in a[h.key]
  PROVE  LET b == SetActivity(h.activity, when)
         IN  /\ b \in Activity
             /\ b.begin % DayLength = 0 /\ b.wrap % DayLength = 0
             /\ RealSeconds(b.map, h.key, a)
<1> DEFINE c == h.activity
           b == SetActivity(c, when)
           turned == when > c.wrap
           d == IF turned THEN [c EXCEPT !.begin = c.wrap, !.wrap = @ + DayLength, !.map = {}, !.last = 0] ELSE c
           w == (when - d.begin) % DayLength
<1>1. c \in Activity /\ c.begin % DayLength = 0 /\ c.wrap % DayLength = 0
      /\ RealSeconds(c.map, h.key, a)
  BY DEF HostOK, HostTyped, MapOK
<1>2. DayLength \in Nat \ {0}
  BY RecordAssumption DEF RecordAssumption
<1> HIDE DEF c
<1>3. c.begin \in Nat /\ c.wrap \in Nat /\ c.map \subseteq Seconds /\ c.last \in Nat /\ c.asked \in Nat
  BY <1>1 DEF Activity
<1>4. CASE when = c.asked \/ when < c.begin
  <2>1. b = c
    BY <1>4 DEF SetActivity
  <2> HIDE DEF b
  <2>2. b \in Activity /\ b.begin % DayLength = 0 /\ b.wrap % DayLength = 0 /\ RealSeconds(b.map, h.key, a)
    BY <1>1, <2>1
  <2> QED
    BY <2>2 DEF b, c
<1>5. CASE ~(when = c.asked \/ when < c.begin)
  <2>1. (c.wrap + DayLength) % DayLength = 0
    BY <1>1, <1>3, Midnights
  <2>2. d \in Activity /\ d.begin % DayLength = 0 /\ d.wrap % DayLength = 0
        /\ RealSeconds(d.map, h.key, a) /\ d.begin <= when
    <3>1. CASE turned
      <4>1. d = [c EXCEPT !.begin = c.wrap, !.wrap = @ + DayLength, !.map = {}, !.last = 0]
        BY <3>1
      <4> DEFINE e == [begin |-> c.wrap, wrap |-> c.wrap + DayLength, map |-> {}, last |-> 0, asked |-> c.asked]
      <4>2. d = e
        BY <1>1, <4>1 DEF Activity
      <4>3. e \in Activity
        BY <1>2, <1>3 DEF Activity
      <4>4. d.begin = c.wrap /\ d.wrap = c.wrap + DayLength /\ d.map = {} /\ d \in Activity
        BY <4>2, <4>3
      <4> QED
        BY <1>1, <1>3, <2>1, <3>1, <4>4 DEF RealSeconds
    <3>2. CASE ~turned
      BY <1>1, <1>3, <1>5, <3>2
    <3> QED
      BY <3>1, <3>2
  <2> HIDE DEF d
  <2>3. w \in Seconds /\ w = when % DayLength
    <3>1. d.begin \in Nat
      BY <2>2 DEF Activity
    <3>2. w = when % DayLength
      BY <2>2, <3>1, TimesOfDay
    <3> QED
      BY <3>2, Midnights
  <2>4. b = [d EXCEPT !.asked = when,
                      !.map = IF w = d.last THEN @ ELSE SetBit(@, w),
                      !.last = IF w = d.last THEN @ ELSE when]
    BY <1>5 DEF SetActivity, d
  <2>5. b.map \in {d.map, d.map \cup {w}}
    BY <2>2, <2>4 DEF SetBit, Activity
  <2>6. b.begin = d.begin /\ b.wrap = d.wrap
    BY <2>2, <2>4 DEF Activity
  <2>7. d.map \cup {w} \subseteq Seconds /\ d.map \subseteq Seconds
    BY <2>2, <2>3 DEF Activity
  <2>8. SetBit(d.map, w) \subseteq Seconds
    BY <2>7 DEF SetBit
  <2> HIDE DEF w
  <2>9. b \in Activity
    BY <2>2, <2>4, <2>7, <2>8 DEF Activity
  <2>10. RealSeconds(b.map, h.key, a)
    BY <2>2, <2>3, <2>5 DEF RealSeconds
  <2> HIDE DEF b
  <2>11. b \in Activity /\ b.begin % DayLength = 0 /\ b.wrap % DayLength = 0 /\ RealSeconds(b.map, h.key, a)
    BY <2>2, <2>6, <2>9, <2>10
  <2> QED
    BY <2>11 DEF b, c
<1> QED
  BY <1>4, <1>5

LEMMA DumpedReal ==
  ASSUME NEW s, NEW a, NEW h, HostOK(h, s, a), \A path \in DOMAIN dumps : DumpReal(path, dumps[path], a)
  PROVE  \A path \in DOMAIN DumpStats(h) : DumpReal(path, DumpStats(h)[path], a)
<1> DEFINE path == DumpPath("ymd", h)
           map == h.activity.map
<1>1. path[4] = h.key
  BY DEF DumpPath
<1>2. DumpReal(path, map, a)
  BY <1>1 DEF DumpReal, HostOK, HostTyped, MapOK, Activity
<1> HIDE DEF path, map
<1> DEFINE put == Put(dumps, path, map)
<1>3. DumpStats(h) = dumps \/ DumpStats(h) = put
  BY DEF DumpStats, WriteDump, path, map
<1>4. /\ DOMAIN put = DOMAIN dumps \cup {path} /\ put[path] = map
      /\ \A p \in DOMAIN dumps : p # path => put[p] = dumps[p]
  BY DEF Put
<1> HIDE DEF put
<1>5. \A p \in DOMAIN put : DumpReal(p, put[p], a)
  BY <1>2, <1>4
<1> QED
  BY <1>3, <1>5

\* The seconds of a record are seconds of the map, on the day of the map.
LEMMA WrittenOK ==
  ASSUME NEW s, NEW a, Histories(s, a), NEW h, HostOK(h, s, a), NEW long
  PROVE  SavedOK(<<h.key, h.vlan>>, Serialize(h, long), s, a)
<1> DEFINE r == Serialize(h, long)
           begin == h.activity.begin
<1>1. /\ h.key \in HostKey /\ h.vlan \in Vlan /\ h.total \in Counters
      /\ begin \in Nat /\ begin % DayLength = 0 /\ h.activity.map \subseteq Seconds
      /\ RealSeconds(h.activity.map, h.key, a)
  BY DEF HostOK, HostTyped, MapOK, Activity
<1>2. r.total = SavedTraffic(h.total) /\ r.seconds = SavedSeconds(h.activity)
  BY DEF Serialize
<1> HIDE DEF r
<1>3. r.total \in SavedCounters /\ SavedBytes(r) = Bytes(h)
  BY <1>1, <1>2 DEF SavedTraffic, SavedCounters, SavedBytes, Counters, Bytes, Dir
<1>4. \A b \in r.seconds : \E c \in h.activity.map : b = begin + c
  BY <1>2 DEF SavedSeconds
<1>5. ASSUME NEW b \in r.seconds
      PROVE  b \in Nat /\ \E t \in a[h.key] : t % DayLength = b % DayLength
  <2>1. PICK c \in h.activity.map : b = begin + c
    BY <1>4
  <2>2. c \in Nat /\ c \in Seconds
    BY <1>1 DEF Seconds
  <2> HIDE DEF begin
  <2>3. b % DayLength = c
    BY <1>1, <2>1, <2>2, TimesOfDay, Midnights
  <2>4. \E t \in a[h.key] : t % DayLength = c
    BY <1>1 DEF RealSeconds
  <2> QED
    BY <1>1, <2>1, <2>2, <2>3, <2>4
<1>6. Bytes(h) <= s[<<h.key, h.vlan>>]
  BY DEF HostOK, BytesOK
<1>7. SavedOK(<<h.key, h.vlan>>, r, s, a)
  BY <1>1, <1>3, <1>5, <1>6 DEF SavedOK
<1> QED
  BY <1>7 DEF r

LEMMA NothingNew ==
  ASSUME RecordInv
  PROVE  Grown(seen, active, seen, active)
BY DEF RecordInv, Grown, Histories

LEMMA NewHostKept ==
  ASSUME RecordInv,
         NEW i, NEW k \in HostKey, NEW v \in Vlan, AddHost(i, k, v) \/ (RestoreHost(i, k) /\ v = 0)
  PROVE  RecordInv'
<1> DEFINE mac == IF AddHost(i, k, v) THEN MacOf[k] ELSE [b \in DOMAIN MacOf[k] |-> 0]
           found == <<k, v>> \in DOMAIN saved
           blank == BlankHost(i, k, v, mac)
           h == IF AddHost(i, k, v) THEN Initialize(blank, found) ELSE blank
<1>1. hosts' = Put(hosts, FreshHost, h)
  BY DEF AddHost, RestoreHost, Link
<1>2. UNCHANGED <<seen, active, clock, saved, dumps>>
  BY DEF AddHost, RestoreHost
<1>3. HostOK(blank, seen, active) /\ blank.key = k /\ blank.vlan = v
  BY NewRecordOK DEF BlankHost
<1> HIDE DEF blank
<1>4. HostOK(h, seen, active)
  <2>1. found \in BOOLEAN /\ (found => <<blank.key, blank.vlan>> \in DOMAIN saved)
    BY <1>3
  <2> HIDE DEF found
  <2>2. HostOK(Initialize(blank, found), seen, active)
    BY <1>3, <2>1, StartOK
  <2> QED
    BY <1>3, <2>2
<1> HIDE DEF h
<1> DEFINE n == FreshHost
<1> HIDE DEF n
<1>5. /\ DOMAIN hosts' = DOMAIN hosts \cup {n} /\ hosts'[n] = h
      /\ \A o \in DOMAIN hosts : o # n => hosts'[o] = hosts[o]
  BY <1>1 DEF n, Put
<1>6. \A o \in DOMAIN hosts' : HostOK(hosts'[o], seen, active)
  BY <1>4, <1>5 DEF RecordInv
<1> QED
  BY <1>2, <1>6 DEF RecordInv

LEMMA PacketKept ==
  ASSUME RecordInv, NEW o \in DOMAIN hosts, NEW d \in Dir, NEW length \in Length, Packet(o, d, length)
  PROVE  RecordInv'
<1> DEFINE h == hosts[o]
           b == IF clock = h.activityAt THEN h.activity ELSE SetActivity(h.activity, clock)
           g == Received(h, d, length)
<1>1. HostOK(h, seen, active) /\ h.key \in HostKey /\ DOMAIN h = HostFields /\ clock \in Nat
  BY DEF RecordInv, HostOK, HostTyped
<1>2. hosts' = [hosts EXCEPT ![o] = g]
  BY DEF Packet
<1>3. dumps' = DumpStats(h) \/ dumps' = dumps
  BY DEF Packet
<1>4. active' = [active EXCEPT ![h.key] = @ \cup {clock}] /\ UNCHANGED <<saved, clock, seen>>
  BY DEF Packet
<1>5. Grown(seen, active, seen', active') /\ clock \in active'[h.key]
  <2>1. Histories(seen, active)
    BY DEF RecordInv
  <2>2. active' \in [HostKey -> SUBSET Nat] /\ clock \in active'[h.key]
        /\ \A k \in HostKey : active[k] \subseteq active'[k]
    BY <1>1, <1>4, <2>1 DEF Histories
  <2>3. seen' = seen
    BY <1>4
  <2>4. \A x \in HostKey \X Vlan : seen[x] <= seen'[x]
    BY <2>1, <2>3 DEF Histories
  <2> QED
    BY <2>1, <2>2, <2>3, <2>4 DEF Grown, Histories
<1>6. HostOK(h, seen', active') /\ Histories(seen', active')
  BY <1>1, <1>5, HostGrows DEF Grown
<1>7. b \in Activity /\ b.begin % DayLength = 0 /\ b.wrap % DayLength = 0
      /\ RealSeconds(b.map, h.key, active')
  BY <1>1, <1>5, <1>6, SetOK DEF HostOK, HostTyped, MapOK
<1>8. /\ DOMAIN g = HostFields /\ g.key = h.key /\ g.vlan = h.vlan /\ g.total = h.total /\ g.own = h.own
      /\ g.thpt = h.thpt /\ g.activity = b
  BY <1>1 DEF Received, HostFields
<1> HIDE DEF g, b, h
<1>9. HostOK(g, seen', active')
  <2>1. HostTyped(g)
    BY <1>6, <1>7, <1>8 DEF HostOK, HostTyped
  <2>2. BytesOK(g, seen')
    BY <1>6, <1>8 DEF HostOK, BytesOK, Bytes
  <2>3. MapOK(g, active')
    BY <1>7, <1>8 DEF MapOK
  <2> QED
    BY <2>1, <2>2, <2>3 DEF HostOK
<1>10. \A x \in DOMAIN hosts : HostOK(hosts[x], seen', active')
  BY <1>5, HostGrows DEF RecordInv
<1>11. \A x \in DOMAIN hosts' : HostOK(hosts'[x], seen', active')
  BY <1>2, <1>9, <1>10
<1>12. \A x \in DOMAIN saved : SavedOK(x, saved[x].record, seen', active')
  BY <1>5, SavedGrows DEF RecordInv
<1>13. \A path \in DOMAIN dumps : DumpReal(path, dumps[path], active')
  BY <1>5, RealGrows DEF RecordInv, DumpReal
<1>14. \A path \in DOMAIN dumps' : DumpReal(path, dumps'[path], active')
  BY <1>3, <1>6, <1>13, DumpedReal
<1>15. clock' \in Nat /\ saved' = saved
  BY <1>1, <1>4
<1> QED
  BY <1>6, <1>11, <1>12, <1>14, <1>15 DEF RecordInv

LEMMA CountKept ==
  ASSUME RecordInv, NEW o \in DOMAIN hosts, NEW p \in Traffic, Count(o, p)
  PROVE  RecordInv'
<1> DEFINE h == hosts[o]
           x == <<h.key, h.vlan>>
           added == p.traffic["sent"].bytes + p.traffic["rcvd"].bytes
           g == IncStats(h, p)
<1>1. HostOK(h, seen, active) /\ x \in HostKey \X Vlan
  BY DEF RecordInv, HostOK, HostTyped
<1>2. /\ hosts' = [hosts EXCEPT ![o] = g] /\ UNCHANGED <<saved, dumps, clock, active>>
      /\ seen' = [seen EXCEPT ![x] = @ + p.traffic["sent"].bytes + p.traffic["rcvd"].bytes]
  BY DEF Count
<1>3. p.traffic["sent"].bytes \in Nat /\ p.traffic["rcvd"].bytes \in Nat
  BY RecordAssumption DEF RecordAssumption
<1>4. Histories(seen, active)
  BY DEF RecordInv
<1> HIDE DEF x
<1>5. /\ seen' \in [HostKey \X Vlan -> Nat] /\ \A y \in HostKey \X Vlan : seen[y] <= seen'[y]
      /\ seen'[x] = seen[x] + p.traffic["sent"].bytes + p.traffic["rcvd"].bytes
  BY <1>1, <1>2, <1>3, <1>4 DEF Histories
<1>6. active' = active
  BY <1>2
<1>7. Grown(seen, active, seen', active) /\ Histories(seen', active)
  BY <1>4, <1>5 DEF Grown, Histories
<1>8. HostOK(g, seen', active)
  BY <1>1, <1>5, <1>7, CountedOK DEF x
<1> HIDE DEF g
<1>9. \A y \in DOMAIN hosts : HostOK(hosts[y], seen', active)
  BY <1>7, HostGrows DEF RecordInv
<1>10. \A y \in DOMAIN hosts' : HostOK(hosts'[y], seen', active)
  BY <1>2, <1>8, <1>9
<1>11. \A y \in DOMAIN saved : SavedOK(y, saved[y].record, seen', active)
  BY <1>7, SavedGrows DEF RecordInv
<1> QED
  BY <1>2, <1>6, <1>7, <1>10, <1>11 DEF RecordInv

LEMMA StatsKept ==
  ASSUME RecordInv, NEW i, UpdateStats(i)
  PROVE  RecordInv'
<1>1. \A o \in DOMAIN hosts : HostOK([hosts[o] EXCEPT !.thpt = UpdateThroughput(hosts[o])], seen, active)
  BY RatedOK DEF RecordInv
<1>2. /\ DOMAIN hosts' = DOMAIN hosts
      /\ \A o \in DOMAIN hosts :
           hosts'[o] \in {hosts[o], [hosts[o] EXCEPT !.thpt = UpdateThroughput(hosts[o])]}
  BY DEF UpdateStats
<1>3. \A o \in DOMAIN hosts' : HostOK(hosts'[o], seen, active)
  BY <1>1, <1>2 DEF RecordInv
<1>4. UNCHANGED <<seen, active, clock, saved, dumps>>
  BY DEF UpdateStats
<1> QED
  BY <1>3, <1>4 DEF RecordInv

LEMMA PurgeKept ==
  ASSUME RecordInv, NEW o \in DOMAIN hosts, NEW long \in BOOLEAN, NEW lost \in BOOLEAN, Purge(o, long, lost)
  PROVE  RecordInv'
<1> DEFINE h == hosts[o]
           x == <<h.key, h.vlan>>
           e == [record |-> Serialize(h, long)]
<1>1. HostOK(h, seen, active) /\ Histories(seen, active)
  BY DEF RecordInv
<1>2. SavedOK(x, e.record, seen, active)
  BY <1>1, WrittenOK
<1>3. dumps' = DumpStats(h) /\ (saved' = saved \/ saved' = Put(saved, x, e))
      /\ hosts' = [y \in DOMAIN hosts \ {o} |-> hosts[y]] /\ UNCHANGED <<clock, seen, active>>
  BY DEF Purge
<1> HIDE DEF e, x
<1>4. \A y \in DOMAIN saved' : SavedOK(y, saved'[y].record, seen, active)
  <2>1. CASE saved' = saved
    BY <2>1 DEF RecordInv
  <2>2. CASE saved' = Put(saved, x, e)
    <3>1. /\ DOMAIN saved' = DOMAIN saved \cup {x} /\ saved'[x] = e
          /\ \A y \in DOMAIN saved : y # x => saved'[y] = saved[y]
      BY <2>2 DEF Put
    <3> QED
      BY <1>2, <3>1 DEF RecordInv
  <2> QED
    BY <1>3, <2>1, <2>2
<1>5. \A path \in DOMAIN dumps' : DumpReal(path, dumps'[path], active)
  BY <1>1, <1>3, DumpedReal DEF RecordInv
<1>6. \A y \in DOMAIN hosts' : HostOK(hosts'[y], seen, active)
  BY <1>3 DEF RecordInv
<1> QED
  BY <1>3, <1>4, <1>5, <1>6 DEF RecordInv

\* What changes a host's names, messages and flags only.
Relabels(o) ==
  \/ \E m \in Message : Talk(o, m)
  \/ GoIdle(o) \/ GetName(o)
  \/ \E n \in Name : SetName(o, n) \/ SetAlternateName(o, n)

LEMMA RelabelsKept ==
  ASSUME RecordInv, NEW o \in DOMAIN hosts, Relabels(o)
  PROVE  RecordInv'
<1> DEFINE h == hosts[o]
<1>1. DOMAIN h = HostFields /\ HostOK(h, seen, active)
  BY DEF RecordInv, HostOK, HostTyped
<1>2. UNCHANGED <<clock, seen, active, saved, dumps>>
  BY DEF Relabels, Talk, GoIdle, GetName, SetName, SetAlternateName
<1>3. PICK g : hosts' = [hosts EXCEPT ![o] = g] /\ SameRecord(g, h)
  <2>1. ASSUME NEW m \in Message, Talk(o, m) PROVE \E g : hosts' = [hosts EXCEPT ![o] = g] /\ SameRecord(g, h)
    <3>1. PICK n : hosts' = [hosts EXCEPT ![o] = [@ EXCEPT ![m.proto] = n]]
      BY <2>1 DEF Talk
    <3>2. m.proto \in {"dns", "epp"}
      BY RecordAssumption DEF RecordAssumption
    <3> QED
      BY <1>1, <3>1, <3>2, LabelsKeep
  <2>2. CASE GoIdle(o)
    BY <1>1, <2>2, LabelsKeep DEF GoIdle
  <2>3. CASE GetName(o)
    <3>1. PICK n : hosts' = [hosts EXCEPT ![o].name = n]
      BY <2>3 DEF GetName
    <3> QED
      BY <1>1, <3>1, LabelsKeep
  <2>4. ASSUME NEW n \in Name, SetName(o, n) PROVE \E g : hosts' = [hosts EXCEPT ![o] = g] /\ SameRecord(g, h)
    BY <1>1, <2>4, LabelsKeep DEF SetName
  <2>5. ASSUME NEW n \in Name, SetAlternateName(o, n)
        PROVE  \E g : hosts' = [hosts EXCEPT ![o] = g] /\ SameRecord(g, h)
    BY <1>1, <2>5, LabelsKeep DEF SetAlternateName
  <2> QED
    BY <2>1, <2>2, <2>3, <2>4, <2>5 DEF Relabels
<1>4. HostOK(g, seen, active)
  BY <1>1, <1>3, SameRecordOK
<1>5. \A y \in DOMAIN hosts' : HostOK(hosts'[y], seen, active)
  BY <1>3, <1>4 DEF RecordInv
<1> QED
  BY <1>2, <1>5 DEF RecordInv

LEMMA RecordStep ==
  ASSUME RecordInv, [RecordNext]_recordVars
  PROVE  RecordInv'
<1>1. ASSUME NEW i \in Iface, NEW k \in HostKey, RestoreHost(i, k) PROVE RecordInv'
  <2>1. 0 \in Vlan
    BY RecordAssumption DEF RecordAssumption
  <2> QED
    BY <1>1, <2>1, NewHostKept
<1>2. ASSUME NEW i \in Iface, NEW k \in HostKey, NEW v \in Vlan, AddHost(i, k, v) PROVE RecordInv'
  BY <1>2, NewHostKept
<1>3. ASSUME NEW i \in Iface, UpdateStats(i) PROVE RecordInv'
  BY <1>3, StatsKept
<1>4. ASSUME NEW o \in DOMAIN hosts, OfHost(o) PROVE RecordInv'
  BY <1>4, PacketKept, CountKept, PurgeKept, RelabelsKept DEF OfHost, Relabels
<1>5. ASSUME NEW k \in HostKey, NEW v \in Vlan, Expire(k, v) PROVE RecordInv'
  <2>1. saved' = [x \in DOMAIN saved \ {<<k, v>>} |-> saved[x]] /\ UNCHANGED <<hosts, dumps, clock, seen, active>>
    BY <1>5 DEF Expire
  <2>2. \A x \in DOMAIN saved' : SavedOK(x, saved'[x].record, seen, active)
    BY <2>1 DEF RecordInv
  <2> QED
    BY <2>1, <2>2 DEF RecordInv
<1>6. CASE Crash
  BY <1>6 DEF Crash, RecordInv
<1>7. CASE Stop \/ Restart \/ UNCHANGED recordVars
  <2>1. UNCHANGED <<hosts, saved, dumps, clock, seen, active>>
    BY <1>7 DEF Stop, Restart, recordVars
  <2> QED
    BY <2>1 DEF RecordInv
<1>8. ASSUME NEW d \in Jump, Advance(d) PROVE RecordInv'
  <2>1. clock' \in Nat
    BY <1>8, RecordAssumption DEF Advance, RecordAssumption, RecordInv
  <2>2. UNCHANGED <<hosts, saved, dumps, seen, active>>
    BY <1>8 DEF Advance
  <2> QED
    BY <2>1, <2>2 DEF RecordInv
<1> QED
  BY <1>1, <1>2, <1>3, <1>4, <1>5, <1>6, <1>7, <1>8 DEF RecordNext

LEMMA InitRecord ==
  ASSUME RecordInit
  PROVE  RecordInv
BY DEF RecordInit, RecordInv, Histories

THEOREM RecordInvariance == RecordSpec => []RecordInv
<1>1. RecordInit => RecordInv
  BY InitRecord
<1>2. RecordInv /\ [RecordNext]_recordVars => RecordInv'
  BY RecordStep
<1> QED
  BY <1>1, <1>2, PTL DEF RecordSpec

\* No byte is counted twice for a host, on any interfaces, over any number of saves,
\* restores, cuts, losses, stops and crashes (Host::deserialize, Host::~Host).
THEOREM BytesCountedOnce == RecordSpec => []NeverCountedTwice
<1>1. RecordInv => NeverCountedTwice
  BY DEF RecordInv, HostOK, BytesOK, NeverCountedTwice
<1> QED
  BY <1>1, RecordInvariance, PTL

\* The rate of a host is made of bytes this object counted, although its totals start from
\* the record (Host::deserialize sets last_bytes, GenericHost::updateStats takes it off).
THEOREM RatesAreOwn == RecordSpec => []ThroughputOfOwn
<1>1. RecordInv => ThroughputOfOwn
  <2> SUFFICES ASSUME RecordInv, NEW o \in DOMAIN hosts PROVE hosts[o].thpt.bytes \in 0..hosts[o].own
    BY DEF ThroughputOfOwn
  <2>1. HostTyped(hosts[o]) /\ BytesOK(hosts[o], seen)
    BY DEF RecordInv, HostOK
  <2>2. hosts[o].thpt.bytes \in Nat /\ hosts[o].own \in Nat /\ hosts[o].thpt.bytes <= hosts[o].own
    BY <2>1 DEF HostTyped, BytesOK, Rates
  <2> QED
    BY <2>2
<1> QED
  BY <1>1, RecordInvariance, PTL

\* Every bit of a host's map is a time of day at which its key was active, whatever is
\* dumped, saved and read back, over midnights (ActivityStats::set, deserialize).
THEOREM ActivityWasSeen == RecordSpec => []ActivityIsReal
<1>1. RecordInv => ActivityIsReal
  BY DEF RecordInv, HostOK, MapOK, RealSeconds, ActivityIsReal
<1> QED
  BY <1>1, RecordInvariance, PTL

-------------------------------------------------------------------------------
(* The parts of a host's traffic *)

\* What each part has in one direction, and the sum.
Part(parts, d, f) == [p \in DOMAIN parts |-> parts[p][d][f]]
Sum(parts, d, f) == SumOver(Part(parts, d, f), DOMAIN parts)

Counted4(parts) == IsFiniteSet(DOMAIN parts) /\ \A p \in DOMAIN parts : parts[p] \in Counters

\* The parts add up to no more than the whole; packets by protocol of nDPI may, as they
\* are read back from the bytes.
PartsHold(total, l4, ndpi) ==
  /\ total \in Counters /\ Counted4(l4) /\ DOMAIN l4 = L4 /\ Counted4(ndpi)
  /\ \A d \in Dir : /\ Sum(l4, d, "pkts") <= total[d].pkts
                    /\ Sum(l4, d, "bytes") <= total[d].bytes
                    /\ Sum(ndpi, d, "bytes") <= total[d].bytes

PartsOK(h) == PartsHold(h.total, h.l4, h.ndpi)
ReadParts(r) == [p \in L4 |-> ReadTraffic(r.l4[p])]
SavedPartsOK(r) == PartsHold(ReadTraffic(r.total), ReadParts(r), ReadNdpi(r.ndpi))

PartsInv ==
  /\ \A o \in DOMAIN hosts : PartsOK(hosts[o])
  /\ \A x \in DOMAIN saved : SavedPartsOK(saved[x].record)

\* The sums of the property are those that the facts about sums are for.
LEMMA PktsSum ==
  ASSUME NEW parts, NEW d, IsFiniteSet(DOMAIN parts)
  PROVE  MapThenSumSet(LAMBDA p : parts[p][d].pkts, DOMAIN parts) = Sum(parts, d, "pkts")
<1> DEFINE S == DOMAIN parts
           G == Part(parts, d, "pkts")
           IsIt(h) == h = [s \in SUBSET S |->
                             IF s = {} THEN 0
                             ELSE parts[CHOOSE x \in s : TRUE][d].pkts + h[s \ {CHOOSE x \in s : TRUE}]]
           all == MapThenSumSet(LAMBDA p : parts[p][d].pkts, S)
<1>1. all = (CHOOSE h : IsIt(h))[S]
  BY DEF MapThenSumSet, MapThenFoldSet
<1>2. ASSUME NEW h PROVE IsIt(h) <=> IsSum(h, G, S)
  BY ChosenIn DEF IsSum, Chosen, Part
<1>3. PICK k : IsSum(k, G, S) /\ SumOver(G, S) = k[S]
  BY SumExists, SumIs
<1>4. S \in SUBSET S /\ IsFiniteSet(S)
  OBVIOUS
<1> HIDE DEF IsIt, S, G, all
<1>5. IsIt(k)
  BY <1>2, <1>3
<1>6. IsIt(CHOOSE h : IsIt(h))
  BY <1>5, Zenon
<1>7. PICK h : IsSum(h, G, S) /\ all = h[S]
  BY <1>1, <1>2, <1>6, Zenon
<1>8. all = SumOver(G, S)
  BY <1>3, <1>4, <1>7, SumUnique
<1> QED
  BY <1>8 DEF all, S, G, Sum

LEMMA BytesSum ==
  ASSUME NEW parts, NEW d, IsFiniteSet(DOMAIN parts)
  PROVE  MapThenSumSet(LAMBDA p : parts[p][d].bytes, DOMAIN parts) = Sum(parts, d, "bytes")
<1> DEFINE S == DOMAIN parts
           G == Part(parts, d, "bytes")
           IsIt(h) == h = [s \in SUBSET S |->
                             IF s = {} THEN 0
                             ELSE parts[CHOOSE x \in s : TRUE][d].bytes + h[s \ {CHOOSE x \in s : TRUE}]]
           all == MapThenSumSet(LAMBDA p : parts[p][d].bytes, S)
<1>1. all = (CHOOSE h : IsIt(h))[S]
  BY DEF MapThenSumSet, MapThenFoldSet
<1>2. ASSUME NEW h PROVE IsIt(h) <=> IsSum(h, G, S)
  BY ChosenIn DEF IsSum, Chosen, Part
<1>3. PICK k : IsSum(k, G, S) /\ SumOver(G, S) = k[S]
  BY SumExists, SumIs
<1>4. S \in SUBSET S /\ IsFiniteSet(S)
  OBVIOUS
<1> HIDE DEF IsIt, S, G, all
<1>5. IsIt(k)
  BY <1>2, <1>3
<1>6. IsIt(CHOOSE h : IsIt(h))
  BY <1>5, Zenon
<1>7. PICK h : IsSum(h, G, S) /\ all = h[S]
  BY <1>1, <1>2, <1>6, Zenon
<1>8. all = SumOver(G, S)
  BY <1>3, <1>4, <1>7, SumUnique
<1> QED
  BY <1>8 DEF all, S, G, Sum

\* Traffic of one protocol.
LEMMA PartTyped ==
  ASSUME NEW parts, Counted4(parts), NEW q, NEW t \in Counters
  PROVE  /\ Counted4(IncNdpi(parts, q, t)) /\ DOMAIN IncNdpi(parts, q, t) = DOMAIN parts \cup {q}
         /\ \A c \in Counters : IncBoth(c, t) \in Counters
         /\ NoTraffic \in Counters
<1> DEFINE S == DOMAIN parts
           more == IncNdpi(parts, q, t)
           was == IF q \in S THEN parts[q] ELSE NoTraffic
<1>1. /\ DOMAIN more = S \cup {q} /\ more[q] = IncBoth(was, t)
      /\ \A p \in S \ {q} : more[p] = parts[p]
  BY DEF IncNdpi
<1>2. IsFiniteSet(S) /\ \A p \in S : parts[p] \in Counters
  BY DEF Counted4
<1>3. NoTraffic \in Counters
  BY DEF NoTraffic, Zero, Counters, Dir
<1>4. \A c \in Counters : IncBoth(c, t) \in Counters
  BY DEF IncBoth, Inc, Counters
<1>5. was \in Counters
  BY <1>2, <1>3
<1> HIDE DEF S, more, was
<1>6. IsFiniteSet(S \cup {q})
  BY <1>2, FS_AddElement
<1>7. \A p \in S \cup {q} : more[p] \in Counters
  BY <1>1, <1>2, <1>4, <1>5
<1> QED
  BY <1>1, <1>3, <1>4, <1>6, <1>7 DEF S, more, Counted4

LEMMA PartAdded ==
  ASSUME NEW parts, Counted4(parts), NEW q, NEW t \in Counters, NEW d \in Dir, NEW f \in {"pkts", "bytes"}
  PROVE  Sum(IncNdpi(parts, q, t), d, f) = Sum(parts, d, f) + t[d][f]
<1> DEFINE S == DOMAIN parts
           more == IncNdpi(parts, q, t)
           was == IF q \in S THEN parts[q] ELSE NoTraffic
<1>1. /\ DOMAIN more = S \cup {q} /\ more[q] = IncBoth(was, t)
      /\ \A p \in S \ {q} : more[p] = parts[p]
  BY DEF IncNdpi
<1>2. IsFiniteSet(S) /\ \A p \in S : parts[p] \in Counters
  BY DEF Counted4
<1>3. was \in Counters /\ (q \notin S => was[d][f] = 0)
  <2>1. NoTraffic \in Counters
    BY PartTyped
  <2>2. NoTraffic[d][f] = 0
    BY DEF NoTraffic, Zero
  <2> QED
    BY <1>2, <2>1, <2>2
<1> HIDE DEF was
<1>4. IncBoth(was, t)[d][f] = was[d][f] + t[d][f]
  BY <1>3 DEF IncBoth, Inc, Counters
<1>5. \A c \in Counters : c[d][f] \in Nat
  BY DEF Counters
<1> HIDE DEF S, more
<1> DEFINE F == Part(parts, d, f)
           G == Part(more, d, f)
<1>7. /\ \A x \in S : F[x] \in Int
      /\ \A x \in S \ {q} : G[x] = F[x]
      /\ G[q] = (IF q \in S THEN F[q] ELSE 0) + t[d][f]
  <2>1. \A x \in S : F[x] = parts[x][d][f]
    BY DEF Part, S
  <2>2. \A x \in S \cup {q} : G[x] = more[x][d][f]
    BY <1>1 DEF Part
  <2>3. q \in S => was = parts[q]
    BY DEF was
  <2> HIDE DEF F, G
  <2> QED
    BY <1>1, <1>2, <1>3, <1>4, <1>5, <2>1, <2>2, <2>3
<1>8. t[d][f] \in Int
  BY <1>5
<1> HIDE DEF F, G
<1>9. SumOver(G, S \cup {q}) = SumOver(F, S) + t[d][f]
  <2>1. IsFiniteSet(S)
    BY <1>2
  <2> DEFINE v == t[d][f]
  <2>2. v \in Int /\ G[q] = (IF q \in S THEN F[q] ELSE 0) + v
    BY <1>7, <1>8
  <2> HIDE DEF v
  <2>3. SumOver(G, S \cup {q}) = SumOver(F, S) + v
    BY <1>7, <2>1, <2>2, SumPut
  <2> QED
    BY <2>3 DEF v
<1> QED
  BY <1>1, <1>9 DEF S, more, F, G, Sum

LEMMA SumsNat ==
  ASSUME NEW parts, Counted4(parts), NEW d \in Dir, NEW f \in {"pkts", "bytes"}
  PROVE  Sum(parts, d, f) \in Nat
<1>1. \A p \in DOMAIN parts : Part(parts, d, f)[p] \in Nat
  BY DEF Counted4, Counters, Part
<1> QED
  BY <1>1, SumNat DEF Sum, Counted4

\* What a flow adds to the whole it adds to one part at most.
LEMMA CountParts ==
  ASSUME NEW total, NEW l4, NEW ndpi, PartsHold(total, l4, ndpi), NEW t \in Counters, NEW q, NEW n,
         NEW l4b, l4b \in {l4, IncNdpi(l4, q, t)}, DOMAIN l4b = L4, NEW ndpib, ndpib \in {ndpi, IncNdpi(ndpi, n, t)}
  PROVE  PartsHold(IncBoth(total, t), l4b, ndpib)
<1>1. total \in Counters /\ Counted4(l4) /\ DOMAIN l4 = L4 /\ Counted4(ndpi)
  BY DEF PartsHold
<1>2. /\ IncBoth(total, t) \in Counters
      /\ \A d \in Dir : /\ IncBoth(total, t)[d].pkts = total[d].pkts + t[d].pkts
                        /\ IncBoth(total, t)[d].bytes = total[d].bytes + t[d].bytes
                        /\ total[d].pkts \in Nat /\ total[d].bytes \in Nat /\ t[d].pkts \in Nat /\ t[d].bytes \in Nat
  BY <1>1 DEF IncBoth, Inc, Counters
<1>3. Counted4(l4b) /\ Counted4(ndpib)
  <2>1. Counted4(IncNdpi(l4, q, t)) /\ Counted4(IncNdpi(ndpi, n, t))
    BY <1>1, PartTyped
  <2> QED
    BY <1>1, <2>1
<1>4. ASSUME NEW d \in Dir
      PROVE  /\ Sum(l4b, d, "pkts") <= IncBoth(total, t)[d].pkts
             /\ Sum(l4b, d, "bytes") <= IncBoth(total, t)[d].bytes
             /\ Sum(ndpib, d, "bytes") <= IncBoth(total, t)[d].bytes
  <2>1. /\ Sum(l4, d, "pkts") <= total[d].pkts /\ Sum(l4, d, "bytes") <= total[d].bytes
        /\ Sum(ndpi, d, "bytes") <= total[d].bytes
    BY DEF PartsHold
  <2>2. Sum(l4, d, "pkts") \in Nat /\ Sum(l4, d, "bytes") \in Nat /\ Sum(ndpi, d, "bytes") \in Nat
    BY <1>1, SumsNat
  <2>3. /\ Sum(IncNdpi(l4, q, t), d, "pkts") = Sum(l4, d, "pkts") + t[d].pkts
        /\ Sum(IncNdpi(l4, q, t), d, "bytes") = Sum(l4, d, "bytes") + t[d].bytes
        /\ Sum(IncNdpi(ndpi, n, t), d, "bytes") = Sum(ndpi, d, "bytes") + t[d].bytes
    <3>1. ASSUME NEW f \in {"pkts", "bytes"}
          PROVE  /\ Sum(IncNdpi(l4, q, t), d, f) = Sum(l4, d, f) + t[d][f]
                 /\ Sum(IncNdpi(ndpi, n, t), d, f) = Sum(ndpi, d, f) + t[d][f]
      BY <1>1, PartAdded
    <3> QED
      BY <3>1
  <2>4. Sum(l4b, d, "pkts") \in {Sum(l4, d, "pkts"), Sum(IncNdpi(l4, q, t), d, "pkts")}
    OBVIOUS
  <2>5. Sum(l4b, d, "bytes") \in {Sum(l4, d, "bytes"), Sum(IncNdpi(l4, q, t), d, "bytes")}
    OBVIOUS
  <2>6. Sum(ndpib, d, "bytes") \in {Sum(ndpi, d, "bytes"), Sum(IncNdpi(ndpi, n, t), d, "bytes")}
    OBVIOUS
  <2>7. Sum(l4b, d, "pkts") <= total[d].pkts + t[d].pkts
    BY <1>2, <2>1, <2>2, <2>3, <2>4
  <2>8. Sum(l4b, d, "bytes") <= total[d].bytes + t[d].bytes
    BY <1>2, <2>1, <2>2, <2>3, <2>5
  <2>9. Sum(ndpib, d, "bytes") <= total[d].bytes + t[d].bytes
    BY <1>2, <2>1, <2>2, <2>3, <2>6
  <2> QED
    BY <1>2, <2>7, <2>8, <2>9
<1> QED
  BY <1>2, <1>3, <1>4 DEF PartsHold

LEMMA IncStatsParts ==
  ASSUME NEW h, DOMAIN h = HostFields, PartsOK(h), NEW p \in Traffic
  PROVE  PartsOK(IncStats(h, p))
<1> DEFINE t == p.traffic
           l4b == IncL4(h.l4, p.l4, t)
           ndpib == IF p.ndpi = 0 THEN h.ndpi ELSE IncNdpi(h.ndpi, p.ndpi, t)
           g == IncStats(h, p)
<1>1. t \in Counters
  BY RecordAssumption DEF RecordAssumption, Counters, Dir
<1>2. g = h \/ (g.total = IncBoth(h.total, t) /\ g.l4 = l4b /\ g.ndpi = ndpib)
  <2>1. CASE \A d \in Dir : t[d].pkts = 0
    BY <2>1 DEF IncStats
  <2>2. CASE ~\A d \in Dir : t[d].pkts = 0
    <3>1. g.total = IncBoth(h.total, t)
      BY <2>2 DEF IncStats, HostFields
    <3>2. g.l4 = l4b
      BY <2>2 DEF IncStats, HostFields
    <3>3. g.ndpi = ndpib
      BY <2>2 DEF IncStats, HostFields
    <3> QED
      BY <3>1, <3>2, <3>3
  <2> QED
    BY <2>1, <2>2
<1>3. DOMAIN h.l4 = L4 /\ Counted4(h.l4)
  BY DEF PartsOK, PartsHold
<1> HIDE DEF g, t
<1>4. l4b \in {h.l4, IncNdpi(h.l4, p.l4, t)} /\ DOMAIN l4b = L4
  <2> DEFINE more == [h.l4 EXCEPT ![p.l4] = IncBoth(@, t)]
  <2>1. CASE p.l4 \in L4
    <3>1. more = [x \in L4 |-> IF x # p.l4 THEN h.l4[x] ELSE IncBoth(h.l4[x], t)]
      BY <1>3, <2>1 DEF Counted4
    <3>2. IncNdpi(h.l4, p.l4, t) = [x \in L4 |-> IF x # p.l4 THEN h.l4[x] ELSE IncBoth(h.l4[x], t)]
      BY <1>3, <2>1 DEF IncNdpi
    <3>3. l4b = more
      BY <2>1 DEF IncL4
    <3> QED
      BY <3>1, <3>2, <3>3
  <2>2. CASE p.l4 \notin L4
    BY <1>3, <2>2 DEF IncL4
  <2> QED
    BY <2>1, <2>2
<1>5. ndpib \in {h.ndpi, IncNdpi(h.ndpi, p.ndpi, t)}
  OBVIOUS
<1> HIDE DEF l4b, ndpib
<1>6. PartsHold(IncBoth(h.total, t), l4b, ndpib)
  BY <1>1, <1>4, <1>5, CountParts DEF PartsOK
<1>7. PartsOK(g)
  BY <1>2, <1>6 DEF PartsOK
<1> QED
  BY <1>7 DEF g

\* Parts that show the same bytes.
LEMMA SameBytes ==
  ASSUME NEW parts, Counted4(parts), NEW others, Counted4(others), DOMAIN others = DOMAIN parts,
         NEW d \in Dir, NEW f \in {"pkts", "bytes"}, \A p \in DOMAIN parts : others[p][d][f] = parts[p][d][f]
  PROVE  Sum(others, d, f) = Sum(parts, d, f)
<1> DEFINE S == DOMAIN parts
           F == Part(parts, d, f)
           G == Part(others, d, f)
<1>1. \A x \in S : F[x] = parts[x][d][f] /\ G[x] = others[x][d][f] /\ F[x] \in Int
  BY DEF Part, Counted4, Counters
<1>2. IsFiniteSet(S)
  BY DEF Counted4
<1> HIDE DEF F, G
<1>3. \A x \in S : F[x] \in Int /\ G[x] = F[x]
  BY <1>1
<1> HIDE DEF S
<1>4. SumOver(F, S) = SumOver(G, S)
  BY <1>2, <1>3, SumSame
<1> QED
  BY <1>4 DEF S, F, G, Sum

\* Parts that are all zero.
LEMMA NoParts ==
  ASSUME NEW parts, Counted4(parts), NEW d \in Dir, NEW f \in {"pkts", "bytes"},
         \A p \in DOMAIN parts : parts[p][d][f] = 0
  PROVE  Sum(parts, d, f) = 0
<1> DEFINE S == DOMAIN parts
           F == Part(parts, d, f)
<1>1. \A x \in S : F[x] = 0
  BY DEF Part
<1>2. IsFiniteSet(S)
  BY DEF Counted4
<1> HIDE DEF F, S
<1>3. SumOver(F, S) = 0
  BY <1>1, <1>2, SumZero
<1> QED
  BY <1>3 DEF S, F, Sum

\* What is written and read back: packets by protocol of nDPI come back as bytes.
LEMMA BackAgain ==
  ASSUME NEW t \in Counters
  PROVE  ReadTraffic(SavedTraffic(t)) = t
<1>1. \A d \in Dir : t[d] = [pkts |-> t[d].pkts, bytes |-> t[d].bytes]
  BY DEF Counters
<1>2. t = [d \in Dir |-> t[d]]
  BY DEF Counters
<1>3. ReadTraffic(SavedTraffic(t)) = [d \in Dir |-> [pkts |-> t[d].pkts, bytes |-> t[d].bytes]]
  BY DEF ReadTraffic, SavedTraffic
<1> QED
  BY <1>1, <1>2, <1>3

LEMMA SavedParts ==
  ASSUME NEW h, PartsOK(h), NEW long
  PROVE  SavedPartsOK(Serialize(h, long))
<1> DEFINE r == Serialize(h, long)
           ndpi == ReadNdpi(SavedNdpi(h.ndpi))
<1>1. /\ r.total = SavedTraffic(h.total) /\ r.l4 = [p \in L4 |-> SavedTraffic(h.l4[p])]
      /\ r.ndpi = SavedNdpi(h.ndpi)
  BY DEF Serialize
<1> HIDE DEF r
<1>2. h.total \in Counters /\ Counted4(h.l4) /\ DOMAIN h.l4 = L4 /\ Counted4(h.ndpi)
  BY DEF PartsOK, PartsHold
<1>3. ReadTraffic(r.total) = h.total
  BY <1>1, <1>2, BackAgain
<1> DEFINE l4 == ReadParts(r)
<1>4. Counted4(l4) /\ DOMAIN l4 = L4 /\ \A p \in L4 : l4[p] = h.l4[p]
  <2>1. \A p \in L4 : ReadTraffic(SavedTraffic(h.l4[p])) = h.l4[p]
    BY <1>2, BackAgain DEF Counted4
  <2>2. DOMAIN l4 = L4 /\ \A p \in L4 : l4[p] = h.l4[p]
    BY <1>1, <2>1 DEF ReadParts
  <2> QED
    BY <1>2, <2>2 DEF Counted4
<1> HIDE DEF l4
<1> DEFINE Back(c) == [d \in Dir |-> [pkts |-> c[d].bytes, bytes |-> c[d].bytes]]
<1>5. /\ DOMAIN ndpi = DOMAIN h.ndpi
      /\ \A p \in DOMAIN h.ndpi : ndpi[p] = Back(h.ndpi[p])
  BY DEF ReadNdpi, SavedNdpi
<1>6. \A c \in Counters : Back(c) \in Counters /\ \A d \in Dir : Back(c)[d]["bytes"] = c[d]["bytes"]
  BY DEF Counters
<1> HIDE DEF ndpi, Back
<1>7. Counted4(ndpi)
  BY <1>2, <1>5, <1>6 DEF Counted4
<1>8. ASSUME NEW d \in Dir PROVE Sum(ndpi, d, "bytes") = Sum(h.ndpi, d, "bytes")
  <2>1. \A p \in DOMAIN h.ndpi : ndpi[p][d]["bytes"] = h.ndpi[p][d]["bytes"]
    BY <1>2, <1>5, <1>6 DEF Counted4
  <2> QED
    BY <1>2, <1>5, <1>7, <2>1, SameBytes
<1>9. ASSUME NEW d \in Dir, NEW f \in {"pkts", "bytes"} PROVE Sum(l4, d, f) = Sum(h.l4, d, f)
  BY <1>2, <1>4, SameBytes
<1>10. PartsHold(h.total, l4, ndpi)
  BY <1>2, <1>4, <1>7, <1>8, <1>9 DEF PartsOK, PartsHold
<1>11. SavedPartsOK(r)
  BY <1>1, <1>3, <1>10 DEF SavedPartsOK, ndpi, l4
<1> QED
  BY <1>11 DEF r

\* A new host.
LEMMA BlankParts ==
  ASSUME NEW i, NEW k, NEW v, NEW mac
  PROVE  PartsOK(BlankHost(i, k, v, mac))
<1> DEFINE l4 == [p \in L4 |-> NoTraffic]
           none == <<>>
<1>1. NoTraffic \in Counters /\ \A d \in Dir : NoTraffic[d]["pkts"] = 0 /\ NoTraffic[d]["bytes"] = 0
  BY DEF NoTraffic, Zero, Counters, Dir
<1>2. IsFiniteSet(L4)
  <2>1. IsFiniteSet({}) /\ IsFiniteSet({"tcp"})
    BY FS_EmptySet, FS_Singleton
  <2>2. IsFiniteSet({"tcp"} \cup {"udp"})
    BY <2>1, FS_AddElement
  <2>3. IsFiniteSet(({"tcp"} \cup {"udp"}) \cup {"icmp"})
    BY <2>2, FS_AddElement
  <2>4. IsFiniteSet((({"tcp"} \cup {"udp"}) \cup {"icmp"}) \cup {"other"})
    BY <2>3, FS_AddElement
  <2>5. L4 = (({"tcp"} \cup {"udp"}) \cup {"icmp"}) \cup {"other"}
    BY DEF L4
  <2> QED
    BY <2>4, <2>5
<1>3. Counted4(l4) /\ DOMAIN l4 = L4
  BY <1>1, <1>2 DEF Counted4
<1>4. DOMAIN none = {}
  OBVIOUS
<1>5. Counted4(none)
  BY <1>4, FS_EmptySet DEF Counted4
<1>6. \A p \in DOMAIN l4 : l4[p] = NoTraffic
  OBVIOUS
<1> HIDE DEF l4, none
<1>7. ASSUME NEW d \in Dir, NEW f \in {"pkts", "bytes"} PROVE Sum(l4, d, f) = 0 /\ Sum(none, d, f) = 0
  <2>1. \A p \in DOMAIN l4 : l4[p][d][f] = 0
    BY <1>1, <1>6
  <2>2. \A p \in DOMAIN none : none[p][d][f] = 0
    BY <1>4
  <2>3. Sum(l4, d, f) = 0
    BY <1>3, <2>1, NoParts
  <2> QED
    BY <1>5, <2>2, <2>3, NoParts
<1>8. PartsHold(NoTraffic, l4, none)
  BY <1>1, <1>3, <1>5, <1>7 DEF PartsHold
<1>9. BlankHost(i, k, v, mac).total = NoTraffic /\ BlankHost(i, k, v, mac).l4 = l4 /\ BlankHost(i, k, v, mac).ndpi = none
  BY DEF BlankHost, l4, none
<1> QED
  BY <1>8, <1>9 DEF PartsOK

SameParts(g, h) == DOMAIN g = HostFields /\ g.total = h.total /\ g.l4 = h.l4 /\ g.ndpi = h.ndpi

LEMMA PartsOfNames ==
  ASSUME NEW h, DOMAIN h = HostFields, NEW n
  PROVE  /\ SameParts(h, h)
         /\ SameParts([h EXCEPT !.name = n], h) /\ SameParts([h EXCEPT !.alt = n], h)
         /\ SameParts([h EXCEPT !.local = n], h) /\ SameParts([h EXCEPT !.idle = n], h)
         /\ SameParts([h EXCEPT !.thpt = n], h)
         /\ \A f \in {"dns", "epp"} : SameParts([h EXCEPT ![f] = n], h)
BY DEF SameParts, HostFields

LEMMA ReadPartsOK ==
  ASSUME NEW h, DOMAIN h = HostFields, PartsOK(h), NEW r, SavedPartsOK(r)
  PROVE  DOMAIN Deserialize(h, r) = HostFields /\ PartsOK(Deserialize(h, r))
<1> DEFINE g == Deserialize(h, r)
<1>1. CASE r.long
  BY <1>1 DEF Deserialize
<1>2. CASE ~r.long
  <2>1. DOMAIN g = HostFields
    BY <1>2 DEF Deserialize
  <2>2. g.total = ReadTraffic(r.total)
    BY <1>2 DEF Deserialize, HostFields
  <2>3. g.l4 = ReadParts(r)
    BY <1>2 DEF Deserialize, HostFields, ReadParts
  <2>4. g.ndpi = ReadNdpi(r.ndpi)
    BY <1>2 DEF Deserialize, HostFields
  <2> HIDE DEF g
  <2>5. PartsOK(g)
    BY <2>2, <2>3, <2>4 DEF PartsOK, SavedPartsOK
  <2> QED
    BY <2>1, <2>5 DEF g
<1> QED
  BY <1>1, <1>2

LEMMA StartParts ==
  ASSUME PartsInv, NEW h, DOMAIN h = HostFields, PartsOK(h), NEW found \in BOOLEAN,
         found => <<h.key, h.vlan>> \in DOMAIN saved
  PROVE  PartsOK(Initialize(h, found))
<1> DEFINE Fine(x) == DOMAIN x = HostFields /\ PartsOK(x)
           local == [h EXCEPT !.local = h.key \in locals]
           read == IF local.local /\ Persistency /\ found
                   THEN Deserialize(local, saved[<<h.key, h.vlan>>].record) ELSE local
           named == IF h.key \in DOMAIN NameCache THEN [read EXCEPT !.name = NameCache[h.key]] ELSE read
           alt == IF h.key \in DOMAIN labels THEN [named EXCEPT !.alt = labels[h.key]] ELSE named
<1>1. Fine(local)
  BY PartsOfNames DEF SameParts, PartsOK
<1>2. local.key = h.key /\ local.vlan = h.vlan
  BY DEF HostFields
<1> HIDE DEF local
<1>3. Fine(read)
  <2>1. found => SavedPartsOK(saved[<<h.key, h.vlan>>].record)
    BY DEF PartsInv
  <2> QED
    BY <1>1, <2>1, ReadPartsOK
<1> HIDE DEF read
<1>4. Fine(named)
  <2>1. \A n : Fine([read EXCEPT !.name = n])
    BY <1>3, PartsOfNames DEF SameParts, PartsOK
  <2> QED
    BY <1>3, <2>1
<1> HIDE DEF named
<1>5. Fine(alt)
  <2>1. \A n : Fine([named EXCEPT !.alt = n])
    BY <1>4, PartsOfNames DEF SameParts, PartsOK
  <2> QED
    BY <1>4, <2>1
<1> HIDE DEF alt
<1>6. PartsOK(ReadStats(alt))
  BY <1>5 DEF ReadStats, HostFields, PartsOK
<1>7. Initialize(h, found) \in {alt, ReadStats(alt)}
  BY <1>2 DEF Initialize, local, read, named, alt
<1> QED
  BY <1>5, <1>6, <1>7

LEMMA InitParts ==
  ASSUME RecordInit
  PROVE  PartsInv
BY DEF RecordInit, PartsInv

\* A host that counts, and one whose counters stay.
LEMMA OneHostParts ==
  ASSUME PartsInv, NEW o \in DOMAIN hosts, NEW g, hosts' = [hosts EXCEPT ![o] = g], PartsOK(g), saved' = saved
  PROVE  PartsInv'
<1>1. DOMAIN hosts' = DOMAIN hosts /\ \A x \in DOMAIN hosts : hosts'[x] = hosts[x] \/ hosts'[x] = g
  OBVIOUS
<1>2. \A x \in DOMAIN hosts' : PartsOK(hosts'[x])
  BY <1>1 DEF PartsInv
<1> QED
  BY <1>2 DEF PartsInv

LEMMA NewHostParts ==
  ASSUME PartsInv,
         NEW i, NEW k \in HostKey, NEW v \in Vlan, AddHost(i, k, v) \/ (RestoreHost(i, k) /\ v = 0)
  PROVE  PartsInv'
<1> DEFINE mac == IF AddHost(i, k, v) THEN MacOf[k] ELSE [b \in DOMAIN MacOf[k] |-> 0]
           found == <<k, v>> \in DOMAIN saved
           blank == BlankHost(i, k, v, mac)
           h == IF AddHost(i, k, v) THEN Initialize(blank, found) ELSE blank
<1>1. hosts' = Put(hosts, FreshHost, h)
  BY DEF AddHost, RestoreHost, Link
<1>2. saved' = saved
  BY DEF AddHost, RestoreHost
<1>3. PartsOK(blank) /\ DOMAIN blank = HostFields /\ blank.key = k /\ blank.vlan = v
  <2>1. DOMAIN blank = HostFields /\ blank.key = k /\ blank.vlan = v
    BY DEF BlankHost, HostFields
  <2> QED
    BY <2>1, BlankParts
<1> HIDE DEF blank
<1>4. PartsOK(h)
  <2>1. found \in BOOLEAN /\ (found => <<blank.key, blank.vlan>> \in DOMAIN saved)
    BY <1>3
  <2> HIDE DEF found
  <2>2. PartsOK(Initialize(blank, found))
    BY <1>3, <2>1, StartParts
  <2> QED
    BY <1>3, <2>2
<1> HIDE DEF h
<1> DEFINE n == FreshHost
<1> HIDE DEF n
<1>5. /\ DOMAIN hosts' = DOMAIN hosts \cup {n} /\ hosts'[n] = h
      /\ \A o \in DOMAIN hosts : o # n => hosts'[o] = hosts[o]
  BY <1>1 DEF n, Put
<1>6. \A o \in DOMAIN hosts' : PartsOK(hosts'[o])
  BY <1>4, <1>5 DEF PartsInv
<1> QED
  BY <1>2, <1>6 DEF PartsInv

LEMMA PurgeParts ==
  ASSUME PartsInv, NEW o \in DOMAIN hosts, NEW long \in BOOLEAN, NEW lost \in BOOLEAN, Purge(o, long, lost)
  PROVE  PartsInv'
<1> DEFINE h == hosts[o]
           x == <<h.key, h.vlan>>
           e == [record |-> Serialize(h, long)]
<1>1. SavedPartsOK(e.record)
  BY SavedParts DEF PartsInv
<1>2. (saved' = saved \/ saved' = Put(saved, x, e)) /\ hosts' = [y \in DOMAIN hosts \ {o} |-> hosts[y]]
  BY DEF Purge
<1> HIDE DEF e, x
<1>3. \A y \in DOMAIN saved' : SavedPartsOK(saved'[y].record)
  <2>1. CASE saved' = saved
    BY <2>1 DEF PartsInv
  <2>2. CASE saved' = Put(saved, x, e)
    <3>1. /\ DOMAIN saved' = DOMAIN saved \cup {x} /\ saved'[x] = e
          /\ \A y \in DOMAIN saved : y # x => saved'[y] = saved[y]
      BY <2>2 DEF Put
    <3> QED
      BY <1>1, <3>1 DEF PartsInv
  <2> QED
    BY <1>2, <2>1, <2>2
<1>4. \A y \in DOMAIN hosts' : PartsOK(hosts'[y])
  BY <1>2 DEF PartsInv
<1> QED
  BY <1>3, <1>4 DEF PartsInv

LEMMA HostParts ==
  ASSUME RecordInv, PartsInv, NEW o \in DOMAIN hosts, OfHost(o)
  PROVE  PartsInv'
<1> DEFINE h == hosts[o]
<1>1. DOMAIN h = HostFields /\ PartsOK(h)
  BY DEF RecordInv, HostOK, HostTyped, PartsInv
<1>2. ASSUME NEW g, SameParts(g, h) PROVE PartsOK(g)
  BY <1>1, <1>2 DEF SameParts, PartsOK
<1>3. ASSUME NEW d \in Dir, NEW length \in Length, Packet(o, d, length) PROVE PartsInv'
  <2> DEFINE g == Received(h, d, length)
  <2>1. SameParts(g, h)
    BY <1>1 DEF Received, SameParts, HostFields
  <2>2. hosts' = [hosts EXCEPT ![o] = g] /\ saved' = saved
    BY <1>3 DEF Packet
  <2> HIDE DEF g
  <2> QED
    BY <1>2, <2>1, <2>2, OneHostParts
<1>4. ASSUME NEW p \in Traffic, Count(o, p) PROVE PartsInv'
  <2>1. hosts' = [hosts EXCEPT ![o] = IncStats(h, p)] /\ saved' = saved
    BY <1>4 DEF Count
  <2>2. PartsOK(IncStats(h, p))
    BY <1>1, IncStatsParts
  <2> QED
    BY <2>1, <2>2, OneHostParts
<1>5. ASSUME NEW long \in BOOLEAN, NEW lost \in BOOLEAN, Purge(o, long, lost) PROVE PartsInv'
  BY <1>5, PurgeParts
<1>6. ASSUME Relabels(o) PROVE PartsInv'
  <2>1. saved' = saved
    BY <1>6 DEF Relabels, Talk, GoIdle, GetName, SetName, SetAlternateName
  <2>2. PICK g : hosts' = [hosts EXCEPT ![o] = g] /\ SameParts(g, h)
    <3>1. ASSUME NEW m \in Message, Talk(o, m) PROVE \E g : hosts' = [hosts EXCEPT ![o] = g] /\ SameParts(g, h)
      <4>1. PICK n : hosts' = [hosts EXCEPT ![o] = [@ EXCEPT ![m.proto] = n]]
        BY <3>1 DEF Talk
      <4>2. m.proto \in {"dns", "epp"}
        BY RecordAssumption DEF RecordAssumption
      <4> QED
        BY <1>1, <4>1, <4>2, PartsOfNames
    <3>2. CASE GoIdle(o)
      BY <1>1, <3>2, PartsOfNames DEF GoIdle
    <3>3. CASE GetName(o)
      <4>1. PICK n : hosts' = [hosts EXCEPT ![o].name = n]
        BY <3>3 DEF GetName
      <4> QED
        BY <1>1, <4>1, PartsOfNames
    <3>4. ASSUME NEW n \in Name, SetName(o, n) PROVE \E g : hosts' = [hosts EXCEPT ![o] = g] /\ SameParts(g, h)
      BY <1>1, <3>4, PartsOfNames DEF SetName
    <3>5. ASSUME NEW n \in Name, SetAlternateName(o, n)
          PROVE  \E g : hosts' = [hosts EXCEPT ![o] = g] /\ SameParts(g, h)
      BY <1>1, <3>5, PartsOfNames DEF SetAlternateName
    <3> QED
      BY <1>6, <3>1, <3>2, <3>3, <3>4, <3>5 DEF Relabels
  <2> QED
    BY <1>2, <2>1, <2>2, OneHostParts
<1> QED
  BY <1>3, <1>4, <1>5, <1>6 DEF OfHost, Relabels

LEMMA PartsStep ==
  ASSUME RecordInv, PartsInv, [RecordNext]_recordVars
  PROVE  PartsInv'
<1>1. ASSUME NEW i \in Iface, NEW k \in HostKey, RestoreHost(i, k) PROVE PartsInv'
  <2>1. 0 \in Vlan
    BY RecordAssumption DEF RecordAssumption
  <2> QED
    BY <1>1, <2>1, NewHostParts
<1>2. ASSUME NEW i \in Iface, NEW k \in HostKey, NEW v \in Vlan, AddHost(i, k, v) PROVE PartsInv'
  BY <1>2, NewHostParts
<1>3. ASSUME NEW i \in Iface, UpdateStats(i) PROVE PartsInv'
  <2>1. ASSUME NEW o \in DOMAIN hosts PROVE PartsOK([hosts[o] EXCEPT !.thpt = UpdateThroughput(hosts[o])])
    <3>1. DOMAIN hosts[o] = HostFields /\ PartsOK(hosts[o])
      BY DEF RecordInv, HostOK, HostTyped, PartsInv
    <3> QED
      BY <3>1, PartsOfNames DEF SameParts, PartsOK
  <2>2. /\ DOMAIN hosts' = DOMAIN hosts /\ saved' = saved
        /\ \A o \in DOMAIN hosts :
             hosts'[o] \in {hosts[o], [hosts[o] EXCEPT !.thpt = UpdateThroughput(hosts[o])]}
    BY <1>3 DEF UpdateStats
  <2>3. \A o \in DOMAIN hosts' : PartsOK(hosts'[o])
    BY <2>1, <2>2 DEF PartsInv
  <2> QED
    BY <2>2, <2>3 DEF PartsInv
<1>4. ASSUME NEW o \in DOMAIN hosts, OfHost(o) PROVE PartsInv'
  BY <1>4, HostParts
<1>5. ASSUME NEW k \in HostKey, NEW v \in Vlan, Expire(k, v) PROVE PartsInv'
  <2>1. saved' = [x \in DOMAIN saved \ {<<k, v>>} |-> saved[x]] /\ hosts' = hosts
    BY <1>5 DEF Expire
  <2> QED
    BY <2>1 DEF PartsInv
<1>6. CASE Crash
  BY <1>6 DEF Crash, PartsInv
<1>7. ASSUME Stop \/ Restart \/ (\E d \in Jump : Advance(d)) \/ UNCHANGED recordVars PROVE PartsInv'
  <2>1. UNCHANGED <<hosts, saved>>
    BY <1>7 DEF Stop, Restart, Advance, recordVars
  <2> QED
    BY <2>1 DEF PartsInv
<1> QED
  BY <1>1, <1>2, <1>3, <1>4, <1>5, <1>6, <1>7 DEF RecordNext

\* The traffic of a host by protocol adds up to no more than its total, over any number of
\* saves and restores, although packets by protocol of nDPI come back as bytes
\* (Host::incStats, Host::serialize, Host::deserialize, NdpiStats::deserialize).
THEOREM PartsStayWithin == RecordSpec => []PartsWithinTotals
<1>1. RecordInit => PartsInv
  BY InitParts
<1>2. RecordInv /\ PartsInv /\ [RecordNext]_recordVars => PartsInv'
  BY PartsStep
<1>3. PartsInv => PartsWithinTotals
  <2> SUFFICES ASSUME PartsInv, NEW o \in DOMAIN hosts, NEW d \in Dir
               PROVE  LET h == hosts[o]
                          Total(parts, What(_)) == MapThenSumSet(LAMBDA p : What(parts[p][d]), DOMAIN parts)
                      IN  /\ Total(h.l4, LAMBDA c : c.pkts) <= h.total[d].pkts
                          /\ Total(h.l4, LAMBDA c : c.bytes) <= h.total[d].bytes
                          /\ Total(h.ndpi, LAMBDA c : c.bytes) <= h.total[d].bytes
    BY DEF PartsWithinTotals
  <2> DEFINE h == hosts[o]
  <2>1. PartsHold(h.total, h.l4, h.ndpi)
    BY DEF PartsInv, PartsOK
  <2>2. IsFiniteSet(DOMAIN h.l4) /\ IsFiniteSet(DOMAIN h.ndpi)
    BY <2>1 DEF PartsHold, Counted4
  <2>3. MapThenSumSet(LAMBDA p : h.l4[p][d].pkts, DOMAIN h.l4) = Sum(h.l4, d, "pkts")
    BY <2>2, PktsSum
  <2>4. MapThenSumSet(LAMBDA p : h.l4[p][d].bytes, DOMAIN h.l4) = Sum(h.l4, d, "bytes")
    BY <2>2, BytesSum
  <2>5. MapThenSumSet(LAMBDA p : h.ndpi[p][d].bytes, DOMAIN h.ndpi) = Sum(h.ndpi, d, "bytes")
    BY <2>2, BytesSum
  <2> HIDE DEF h
  <2>6. /\ MapThenSumSet(LAMBDA p : h.l4[p][d].pkts, DOMAIN h.l4) <= h.total[d].pkts
        /\ MapThenSumSet(LAMBDA p : h.l4[p][d].bytes, DOMAIN h.l4) <= h.total[d].bytes
        /\ MapThenSumSet(LAMBDA p : h.ndpi[p][d].bytes, DOMAIN h.ndpi) <= h.total[d].bytes
    BY <2>1, <2>3, <2>4, <2>5 DEF PartsHold
  <2> QED
    BY <2>6 DEF h
<1> QED
  BY <1>1, <1>2, <1>3, RecordInvariance, PTL DEF RecordSpec
===============================================================================
