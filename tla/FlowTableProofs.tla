---------------------------- MODULE FlowTableProofs ----------------------------
(***************************************************************************)
(* Proofs about FlowTable for every table size, timeout and set of         *)
(* conversations.  NoWrap is the condition the code never checks: the      *)
(* 16-bit counter of uses can hold both ends of every flow.                *)
(***************************************************************************)
EXTENDS FlowTable, FiniteSetTheorems, TLAPS

NoWrap == 2 * MaxFlows < UsesMod

-------------------------------------------------------------------------------
(* Arithmetic and counting.                                                  *)

\* A value the counter can hold is stored as it is.
LEMMA ModSmall ==
  ASSUME NEW x \in Nat, x < UsesMod
  PROVE  x % UsesMod = x
BY LimitsAssumption, SMT

\* A sweep always lands on a bucket of the table.
LEMMA ModRange ==
  ASSUME NEW x \in Int, NEW n \in Nat \ {0}
  PROVE  x % n \in 0..(n - 1)
BY SMT

\* Counting the ends of a finite table.
LEMMA EndsAtBound ==
  ASSUME NEW T, IsFiniteSet(DOMAIN T), NEW h
  PROVE  /\ EndsAt(T, h) \in Nat
         /\ EndsAt(T, h) <= 2 * Cardinality(DOMAIN T)
<1> DEFINE C == {f \in DOMAIN T : T[f].cli = h}
           S == {f \in DOMAIN T : T[f].srv = h}
<1>1. C \in SUBSET DOMAIN T /\ S \in SUBSET DOMAIN T
  OBVIOUS
<1>2. /\ Cardinality(C) \in Nat /\ Cardinality(C) <= Cardinality(DOMAIN T)
      /\ Cardinality(S) \in Nat /\ Cardinality(S) <= Cardinality(DOMAIN T)
      /\ Cardinality(DOMAIN T) \in Nat
  BY <1>1, FS_Subset, FS_CardinalityType
<1>3. EndsAt(T, h) = Cardinality(C) + Cardinality(S)
  BY DEF EndsAt
<1> QED BY <1>2, <1>3

\* An end of some flow counts; a host no flow points to counts nothing.
LEMMA EndsAtZero ==
  ASSUME NEW T, IsFiniteSet(DOMAIN T), NEW h
  PROVE  EndsAt(T, h) = 0 <=> \A f \in DOMAIN T : h \notin {T[f].cli, T[f].srv}
<1> DEFINE C == {f \in DOMAIN T : T[f].cli = h}
           S == {f \in DOMAIN T : T[f].srv = h}
<1>1. IsFiniteSet(C) /\ IsFiniteSet(S)
  <2>1. C \in SUBSET DOMAIN T /\ S \in SUBSET DOMAIN T
    OBVIOUS
  <2> QED BY <2>1, FS_Subset
<1>2. /\ Cardinality(C) \in Nat /\ (Cardinality(C) = 0 <=> C = {})
      /\ Cardinality(S) \in Nat /\ (Cardinality(S) = 0 <=> S = {})
  BY <1>1, FS_CardinalityType, FS_EmptySet
<1>3. EndsAt(T, h) = Cardinality(C) + Cardinality(S)
  BY DEF EndsAt
<1>4. EndsAt(T, h) = 0 <=> C = {} /\ S = {}
  BY <1>2, <1>3
<1> QED BY <1>4

\* Splitting a table in two splits the count.
LEMMA EndsAtSplit ==
  ASSUME NEW T, IsFiniteSet(DOMAIN T), NEW G \in SUBSET DOMAIN T, NEW h
  PROVE  EndsAt(Rows(T, DOMAIN T \ G), h) = EndsAt(T, h) - EndsAt(Rows(T, G), h)
<1> DEFINE C(F) == {f \in F : T[f].cli = h}
           S(F) == {f \in F : T[f].srv = h}
           D == DOMAIN T
<1>1. /\ IsFiniteSet(C(D)) /\ IsFiniteSet(S(D))
  <2>1. C(D) \in SUBSET D /\ S(D) \in SUBSET D
    OBVIOUS
  <2> QED BY <2>1, FS_Subset
<1>2. /\ C(D \ G) = C(D) \ C(G) /\ C(D) \cap C(G) = C(G)
      /\ S(D \ G) = S(D) \ S(G) /\ S(D) \cap S(G) = S(G)
  OBVIOUS
<1>3. /\ Cardinality(C(D \ G)) = Cardinality(C(D)) - Cardinality(C(G))
      /\ Cardinality(S(D \ G)) = Cardinality(S(D)) - Cardinality(S(G))
  <2>1. Cardinality(C(D) \ C(G)) = Cardinality(C(D)) - Cardinality(C(D) \cap C(G))
    BY <1>1, FS_Difference
  <2>2. Cardinality(S(D) \ S(G)) = Cardinality(S(D)) - Cardinality(S(D) \cap S(G))
    BY <1>1, FS_Difference
  <2> QED BY <1>2, <2>1, <2>2
<1>4. \A F \in SUBSET D : EndsAt(Rows(T, F), h) = Cardinality(C(F)) + Cardinality(S(F))
  <2> TAKE F \in SUBSET D
  <2>1. DOMAIN Rows(T, F) = F /\ \A f \in F : Rows(T, F)[f] = T[f]
    BY DEF Rows
  <2>2. /\ {f \in F : Rows(T, F)[f].cli = h} = C(F)
        /\ {f \in F : Rows(T, F)[f].srv = h} = S(F)
    BY <2>1
  <2> QED BY <2>1, <2>2 DEF EndsAt
<1>5. EndsAt(T, h) = Cardinality(C(D)) + Cardinality(S(D))
  BY DEF EndsAt
<1>6. /\ Cardinality(C(D)) \in Nat /\ Cardinality(S(D)) \in Nat
      /\ Cardinality(C(G)) \in Nat /\ Cardinality(S(G)) \in Nat
  <2>1. C(G) \in SUBSET C(D) /\ S(G) \in SUBSET S(D)
    OBVIOUS
  <2> QED BY <1>1, <2>1, FS_Subset, FS_CardinalityType
<1>7. D \ G \in SUBSET D /\ G \in SUBSET D
  OBVIOUS
<1> HIDE DEF C, S
<1> QED BY <1>3, <1>4, <1>5, <1>6, <1>7

\* A new row adds its own ends.
LEMMA EndsAtAdd ==
  ASSUME NEW T, IsFiniteSet(DOMAIN T), NEW f, f \notin DOMAIN T, NEW r, NEW h
  PROVE  EndsAt([g \in DOMAIN T \cup {f} |-> IF g = f THEN r ELSE T[g]], h)
           = EndsAt(T, h) + (IF h = r.cli THEN 1 ELSE 0) + (IF h = r.srv THEN 1 ELSE 0)
<1> DEFINE U == [g \in DOMAIN T \cup {f} |-> IF g = f THEN r ELSE T[g]]
           C == {g \in DOMAIN T : T[g].cli = h}
           S == {g \in DOMAIN T : T[g].srv = h}
           C1 == {g \in DOMAIN U : U[g].cli = h}
           S1 == {g \in DOMAIN U : U[g].srv = h}
<1>1. IsFiniteSet(C) /\ IsFiniteSet(S)
  <2>1. C \in SUBSET DOMAIN T /\ S \in SUBSET DOMAIN T
    OBVIOUS
  <2> QED BY <2>1, FS_Subset
<1>2. /\ C1 = (IF h = r.cli THEN C \cup {f} ELSE C) /\ f \notin C
      /\ S1 = (IF h = r.srv THEN S \cup {f} ELSE S) /\ f \notin S
  OBVIOUS
<1>3. /\ Cardinality(C \cup {f}) = Cardinality(C) + 1
      /\ Cardinality(S \cup {f}) = Cardinality(S) + 1
      /\ Cardinality(C) \in Nat /\ Cardinality(S) \in Nat
  BY <1>1, <1>2, FS_AddElement, FS_CardinalityType
<1>4. EndsAt(U, h) = Cardinality(C1) + Cardinality(S1)
  BY DEF EndsAt
<1>5. EndsAt(T, h) = Cardinality(C) + Cardinality(S)
  BY DEF EndsAt
<1>6. EndsAt(U, h) = EndsAt(T, h) + (IF h = r.cli THEN 1 ELSE 0) + (IF h = r.srv THEN 1 ELSE 0)
  <2> HIDE DEF U, C, S, C1, S1
  <2> QED BY <1>2, <1>3, <1>4, <1>5
<1> QED BY <1>6

\* Only the ends matter: a change of the other fields does not change the count.
LEMMA EndsAtSame ==
  ASSUME NEW T, NEW U, NEW h, DOMAIN U = DOMAIN T,
         \A f \in DOMAIN T : U[f].cli = T[f].cli /\ U[f].srv = T[f].srv
  PROVE  EndsAt(U, h) = EndsAt(T, h)
<1>1. /\ {f \in DOMAIN U : U[f].cli = h} = {f \in DOMAIN T : T[f].cli = h}
      /\ {f \in DOMAIN U : U[f].srv = h} = {f \in DOMAIN T : T[f].srv = h}
  OBVIOUS
<1> QED BY <1>1 DEF EndsAt

-------------------------------------------------------------------------------
(* The inductive invariant.                                                  *)

\* Both tables, their sizes and the links between them.
Tables ==
  /\ DOMAIN flows \subseteq FlowObj /\ flows \in [DOMAIN flows -> FlowRec]
  /\ DOMAIN hosts \subseteq HostObj /\ hosts \in [DOMAIN hosts -> HostRec]
  /\ flowsSize \in Nat /\ hostsSize \in Nat
  /\ IsFiniteSet(DOMAIN flows) /\ IsFiniteSet(DOMAIN hosts)
  /\ SizesExact /\ NoDanglingHost /\ UsesExact

\* The clock, the sweep positions and the stage; a reset that still has to free
\* the hosts has freed every flow.
Scalars ==
  /\ lastPkt \in Nat /\ nextFlowPurge \in Nat /\ nextHostPurge \in Nat
  /\ lastPurgedFlow \in 0..(NumFlowHashes - 1) /\ lastPurgedHost \in 0..(NumHostHashes - 1)
  /\ stage \in Stages
  /\ stage = "cleanup_hosts" => DOMAIN flows = {}

IInv == Tables /\ Scalars

\* The empty tables satisfy the invariant.
LEMMA InitIInv == Init => IInv
<1> SUFFICES ASSUME Init PROVE IInv
  OBVIOUS
<1> USE DEF Init
<1>1. DOMAIN flows = {} /\ DOMAIN hosts = {}
  BY DEF EmptyTable
<1>2. IsFiniteSet({}) /\ Cardinality({}) = 0
  BY FS_EmptySet
<1>3. flows \in [DOMAIN flows -> FlowRec] /\ hosts \in [DOMAIN hosts -> HostRec]
  BY DEF EmptyTable
<1>4. Tables
  BY <1>1, <1>2, <1>3, LimitsAssumption DEF Tables, SizesExact, NoDanglingHost, UsesExact
<1>5. Scalars
  BY <1>1, LimitsAssumption DEF Scalars, Stages
<1> QED BY <1>4, <1>5 DEF IInv

\* Freeing any set of flows, with the uses they held, keeps the tables right.
LEMMA DeleteFlowsTables ==
  ASSUME NoWrap, Tables, NEW gone \in SUBSET DOMAIN flows, DeleteFlows(gone),
         flowsSize' = flowsSize - Cardinality(gone), hostsSize' = hostsSize
  PROVE  Tables'
<1>1. DOMAIN flows' = DOMAIN flows \ gone /\ \A f \in DOMAIN flows' : flows'[f] = flows[f]
  BY DEF DeleteFlows, Rows
<1>2. /\ DOMAIN hosts' = DOMAIN hosts
      /\ \A h \in DOMAIN hosts : hosts'[h] = DecUses(hosts[h], EndsAt(Rows(flows, gone), h))
  BY DEF DeleteFlows
<1>3. flows' \in [DOMAIN flows' -> FlowRec]
  BY <1>1 DEF DeleteFlows, Rows, Tables
<1>4. /\ IsFiniteSet(DOMAIN flows') /\ IsFiniteSet(gone)
      /\ Cardinality(DOMAIN flows') = Cardinality(DOMAIN flows) - Cardinality(gone)
      /\ Cardinality(DOMAIN flows') \in Nat /\ Cardinality(gone) \in Nat
  <2>1. DOMAIN flows \cap gone = gone
    OBVIOUS
  <2>2. IsFiniteSet(gone)
    BY FS_Subset DEF Tables
  <2>3. IsFiniteSet(DOMAIN flows)
    BY DEF Tables
  <2>4. /\ IsFiniteSet(DOMAIN flows \ gone)
        /\ Cardinality(DOMAIN flows \ gone)
             = Cardinality(DOMAIN flows) - Cardinality(DOMAIN flows \cap gone)
    BY <2>3, FS_Difference
  <2>5. Cardinality(DOMAIN flows \ gone) \in Nat /\ Cardinality(gone) \in Nat
    BY <2>2, <2>4, FS_CardinalityType
  <2> QED BY <1>1, <2>1, <2>2, <2>4, <2>5
<1>5. \A h \in DOMAIN hosts :
        /\ EndsAt(Rows(flows, gone), h) \in Nat
        /\ EndsAt(flows', h) \in Nat /\ EndsAt(flows', h) < UsesMod
        /\ EndsAt(flows', h) = hosts[h].uses - EndsAt(Rows(flows, gone), h)
  <2> TAKE h \in DOMAIN hosts
  <2>1. EndsAt(Rows(flows, gone), h) \in Nat
    <3>1. DOMAIN Rows(flows, gone) = gone
      BY DEF Rows
    <3> QED BY <3>1, <1>4, EndsAtBound
  <2>2. EndsAt(flows', h) \in Nat /\ EndsAt(flows', h) <= 2 * Cardinality(DOMAIN flows')
    BY <1>4, EndsAtBound
  <2>3. Cardinality(DOMAIN flows') <= MaxFlows
    BY <1>4, LimitsAssumption DEF Tables, SizesExact
  <2>4. EndsAt(flows', h) = EndsAt(flows, h) - EndsAt(Rows(flows, gone), h)
    <3>1. flows' = Rows(flows, DOMAIN flows \ gone)
      BY DEF DeleteFlows
    <3> QED BY <3>1, EndsAtSplit DEF Tables
  <2>5. hosts[h].uses = EndsAt(flows, h)
    BY DEF Tables, UsesExact
  <2> QED BY <1>4, <2>1, <2>2, <2>3, <2>4, <2>5, LimitsAssumption DEF NoWrap
<1>6. \A h \in DOMAIN hosts : hosts'[h] \in HostRec /\ hosts'[h].uses = EndsAt(flows', h)
  <2> TAKE h \in DOMAIN hosts
  <2>1. hosts[h] \in HostRec
    BY DEF Tables
  <2>2. hosts'[h] = [hosts[h] EXCEPT !.uses = (@ - EndsAt(Rows(flows, gone), h)) % UsesMod]
    BY <1>2 DEF DecUses
  <2>3. (hosts[h].uses - EndsAt(Rows(flows, gone), h)) % UsesMod = EndsAt(flows', h)
    BY <1>5, ModSmall
  <2>4. EndsAt(flows', h) \in 0..(UsesMod - 1)
    BY <1>5, LimitsAssumption
  <2> QED BY <2>1, <2>2, <2>3, <2>4 DEF HostRec
<1>7. hosts' \in [DOMAIN hosts' -> HostRec]
  BY <1>2, <1>6 DEF DeleteFlows
<1>8. SizesExact'
  BY <1>2, <1>4, LimitsAssumption DEF Tables, SizesExact
<1>9. NoDanglingHost'
  BY <1>1, <1>2 DEF Tables, NoDanglingHost
<1>10. UsesExact'
  BY <1>2, <1>6 DEF UsesExact
<1> QED BY <1>1, <1>2, <1>3, <1>4, <1>7, <1>8, <1>9, <1>10 DEF Tables, SizesExact

\* Updating a flow that matched changes no link and no size.
LEMMA UpdateFlowTables ==
  ASSUME Tables, NEW f \in DOMAIN flows, NEW seen \in Nat, NEW fin \in BOOLEAN,
         UpdateFlow(f, seen, fin)
  PROVE  Tables'
<1>1. /\ DOMAIN flows' = DOMAIN flows /\ flows' \in [DOMAIN flows' -> FlowRec]
      /\ \A g \in DOMAIN flows : flows'[g].cli = flows[g].cli /\ flows'[g].srv = flows[g].srv
  BY DEF UpdateFlow, Tables, FlowRec
<1>2. \A h : EndsAt(flows', h) = EndsAt(flows, h)
  BY <1>1, EndsAtSame
<1>3. hosts' = hosts /\ hostsSize' = hostsSize /\ flowsSize' = flowsSize
  BY DEF UpdateFlow
<1>4. NoDanglingHost' /\ UsesExact' /\ SizesExact'
  BY <1>1, <1>2, <1>3 DEF Tables, NoDanglingHost, UsesExact, SizesExact
<1> QED BY <1>1, <1>3, <1>4 DEF Tables

\* findFlowHosts makes at most the hosts the table has room for.
LEMMA FindFlowHostsResult ==
  ASSUME Tables, NEW src, NEW dst, NEW now,
         NEW s \in HostObj \cup {NoHost}, NEW d \in HostObj \cup {NoHost},
         FindFlowHosts(src, dst, now, s, d),
         NEW created, created = {s, d} \ (DOMAIN hosts \cup {NoHost})
  PROVE  /\ created \subseteq HostObj /\ created \cap DOMAIN hosts = {}
         /\ {s, d} \subseteq DOMAIN hosts \cup created \cup {NoHost}
         /\ IsFiniteSet(created) /\ Cardinality(created) \in Nat
         /\ hostsSize + Cardinality(created) <= MaxHosts
<1>1. /\ GetHost(src.addr, now) \subseteq DOMAIN hosts
      /\ GetHost(dst.addr, now) \subseteq DOMAIN hosts
  BY DEF GetHost
<1>2. \/ created = {}
      \/ created \in {{s}, {d}} /\ hostsSize + 1 <= MaxHosts
      \/ created = {s, d} /\ s # d /\ hostsSize + 2 <= MaxHosts
  BY <1>1, ObjectsAssumption, LimitsAssumption
  DEF FindFlowHosts, HostFor, Tables
<1>3. /\ Cardinality({}) = 0 /\ IsFiniteSet({})
      /\ Cardinality({s}) = 1 /\ IsFiniteSet({s})
      /\ Cardinality({d}) = 1 /\ IsFiniteSet({d})
  BY FS_EmptySet, FS_Singleton
<1>4. s # d => Cardinality({s, d}) = 2 /\ IsFiniteSet({s, d})
  <2> SUFFICES ASSUME s # d PROVE Cardinality({s, d}) = 2 /\ IsFiniteSet({s, d})
    OBVIOUS
  <2>1. {s, d} = {s} \cup {d} /\ d \notin {s}
    OBVIOUS
  <2>2. IsFiniteSet({s} \cup {d}) /\ Cardinality({s} \cup {d}) = Cardinality({s}) + 1
    BY <1>3, <2>1, FS_AddElement, Zenon
  <2> QED BY <2>1, <2>2, <1>3
<1>5. hostsSize \in Nat /\ hostsSize <= MaxHosts
  BY DEF Tables, SizesExact
<1>6. IsFiniteSet(created) /\ Cardinality(created) \in Nat /\ hostsSize + Cardinality(created) <= MaxHosts
  BY <1>2, <1>3, <1>4, <1>5, LimitsAssumption
<1> QED BY <1>6, ObjectsAssumption

\* A new flow pins the hosts it points to; a refused one pins nothing.
LEMMA CreateFlowTables ==
  ASSUME NoWrap, Tables,
         NEW src \in [addr : Addr, port : Port], NEW dst \in [addr : Addr, port : Port],
         NEW now \in Nat, NEW seen \in Nat, NEW fin \in BOOLEAN,
         CreateFlow(src, dst, now, seen, fin)
  PROVE  Tables'
<1>1. PICK s \in HostObj \cup {NoHost}, d \in HostObj \cup {NoHost} :
        LET created == {s, d} \ (DOMAIN hosts \cup {NoHost})
            host(h) == IF h \in DOMAIN hosts THEN hosts[h]
                       ELSE LET addr == IF h = s THEN src.addr ELSE dst.addr
                            IN NewHost(addr, addr \in LocalAddr, now)
        IN /\ FindFlowHosts(src, dst, now, s, d)
           /\ hostsSize' = hostsSize + Cardinality(created)
           /\ \/ /\ flowsSize < MaxFlows
                 /\ hosts' = [h \in DOMAIN hosts \cup created |-> IncUses(host(h), h, s, d)]
                 /\ \E f \in FlowObj \ DOMAIN flows :
                      flows' = [g \in DOMAIN flows \cup {f} |->
                                  IF g = f THEN NewFlow(src, dst, s, d, seen, fin)
                                  ELSE flows[g]]
                 /\ flowsSize' = flowsSize + 1
              \/ /\ flowsSize >= MaxFlows
                 /\ hosts' = [h \in DOMAIN hosts \cup created |-> host(h)]
                 /\ UNCHANGED <<flows, flowsSize>>
  BY DEF CreateFlow
<1> DEFINE created == {s, d} \ (DOMAIN hosts \cup {NoHost})
           host(h) == IF h \in DOMAIN hosts THEN hosts[h]
                      ELSE LET addr == IF h = s THEN src.addr ELSE dst.addr
                           IN NewHost(addr, addr \in LocalAddr, now)
           new == NewFlow(src, dst, s, d, seen, fin)
<1>2. /\ created \subseteq HostObj /\ created \cap DOMAIN hosts = {}
      /\ {s, d} \subseteq DOMAIN hosts \cup created \cup {NoHost}
      /\ IsFiniteSet(created) /\ Cardinality(created) \in Nat
      /\ hostsSize + Cardinality(created) <= MaxHosts
  BY <1>1, FindFlowHostsResult
<1> HIDE DEF created
<1>3. /\ IsFiniteSet(DOMAIN hosts \cup created)
      /\ Cardinality(DOMAIN hosts \cup created) = hostsSize + Cardinality(created)
      /\ hostsSize + Cardinality(created) \in Nat
  <2>1. DOMAIN hosts \cap created = {} /\ Cardinality({}) = 0
    BY <1>2, FS_EmptySet
  <2>2. /\ IsFiniteSet(DOMAIN hosts \cup created)
        /\ Cardinality(DOMAIN hosts \cup created)
             = Cardinality(DOMAIN hosts) + Cardinality(created) - Cardinality({})
    <3>1. IsFiniteSet(DOMAIN hosts)
      BY DEF Tables
    <3> QED BY <1>2, <2>1, <3>1, FS_Union
  <2>3. hostsSize = Cardinality(DOMAIN hosts) /\ hostsSize \in Nat
    BY DEF Tables, SizesExact
  <2> QED BY <1>2, <2>1, <2>2, <2>3
<1>4. \A h \in DOMAIN hosts \cup created :
        host(h) \in HostRec /\ host(h).uses = EndsAt(flows, h)
  <2> TAKE h \in DOMAIN hosts \cup created
  <2>1. CASE h \in DOMAIN hosts
    BY <2>1 DEF Tables, UsesExact
  <2>2. CASE h \notin DOMAIN hosts
    <3>1. host(h) \in HostRec /\ host(h).uses = 0
      BY <2>2, LimitsAssumption DEF NewHost, HostRec
    <3>2. \A f \in DOMAIN flows : h \notin {flows[f].cli, flows[f].srv}
      BY <1>2, <2>2, ObjectsAssumption DEF Tables, NoDanglingHost
    <3>3. EndsAt(flows, h) = 0
      BY <3>2, EndsAtZero DEF Tables
    <3> QED BY <3>1, <3>3
  <2> QED BY <2>1, <2>2
<1> HIDE DEF host
<1>5. CASE /\ flowsSize < MaxFlows
           /\ hosts' = [h \in DOMAIN hosts \cup created |-> IncUses(host(h), h, s, d)]
           /\ \E f \in FlowObj \ DOMAIN flows :
                flows' = [g \in DOMAIN flows \cup {f} |-> IF g = f THEN new ELSE flows[g]]
           /\ flowsSize' = flowsSize + 1
           /\ hostsSize' = hostsSize + Cardinality(created)
  <2>1. PICK f \in FlowObj \ DOMAIN flows :
          flows' = [g \in DOMAIN flows \cup {f} |-> IF g = f THEN new ELSE flows[g]]
    BY <1>5
  <2>2. new \in FlowRec /\ new.cli = s /\ new.srv = d
    <3>1. src.addr \in Nat /\ dst.addr \in Nat /\ src.port \in Nat /\ dst.port \in Nat
      BY DataAssumption
    <3>2. FlowKey(src, dst, s, d) \in Nat
      BY <3>1 DEF FlowKey
    <3>3. (~IsPacketInterface \/ (s # NoHost /\ d # NoHost)) \in BOOLEAN
      OBVIOUS
    <3> QED BY <3>2, <3>3 DEF NewFlow, FlowRec
  <2> HIDE DEF new
  <2>3. /\ DOMAIN flows' = DOMAIN flows \cup {f} /\ flows' \in [DOMAIN flows' -> FlowRec]
        /\ DOMAIN flows' \subseteq FlowObj
    BY <2>1, <2>2 DEF Tables
  <2>4. /\ IsFiniteSet(DOMAIN flows') /\ Cardinality(DOMAIN flows') = flowsSize + 1
        /\ flowsSize + 1 <= MaxFlows /\ flowsSize + 1 \in Nat
    BY <1>5, <2>3, FS_AddElement, LimitsAssumption DEF Tables, SizesExact
  <2>5. \A h : EndsAt(flows', h)
                 = EndsAt(flows, h) + (IF h = s THEN 1 ELSE 0) + (IF h = d THEN 1 ELSE 0)
    BY <2>1, <2>2, EndsAtAdd DEF Tables
  <2>6. \A h : EndsAt(flows', h) \in Nat /\ EndsAt(flows', h) < UsesMod
    <3> TAKE h
    <3>1. EndsAt(flows', h) \in Nat /\ EndsAt(flows', h) <= 2 * Cardinality(DOMAIN flows')
      BY <2>4, EndsAtBound
    <3> QED BY <2>4, <3>1, LimitsAssumption DEF NoWrap
  <2>7. DOMAIN hosts' = DOMAIN hosts \cup created
    BY <1>5
  <2>8. \A h \in DOMAIN hosts' : hosts'[h] \in HostRec /\ hosts'[h].uses = EndsAt(flows', h)
    <3> TAKE h \in DOMAIN hosts'
    <3> DEFINE n == host(h).uses + (IF h = s THEN 1 ELSE 0) + (IF h = d THEN 1 ELSE 0)
    <3>1. host(h) \in HostRec /\ n = EndsAt(flows', h)
      BY <1>4, <2>5, <2>7
    <3>2. hosts'[h] = [host(h) EXCEPT !.uses = n % UsesMod]
      BY <1>5, <2>7, <3>1 DEF IncUses, HostRec
    <3>3. n % UsesMod = n /\ n \in 0..(UsesMod - 1)
      BY <2>6, <3>1, ModSmall, LimitsAssumption
    <3> HIDE DEF n
    <3> QED BY <3>1, <3>2, <3>3 DEF HostRec
  <2>9. hosts' \in [DOMAIN hosts' -> HostRec]
    BY <1>5, <2>8
  <2>10. NoDanglingHost'
    BY <1>2, <2>1, <2>2, <2>3, <2>7 DEF Tables, NoDanglingHost
  <2>11. SizesExact' /\ UsesExact'
    BY <1>2, <1>3, <1>5, <2>4, <2>7, <2>8 DEF SizesExact, UsesExact
  <2> QED BY <1>2, <1>3, <1>5, <2>3, <2>4, <2>7, <2>9, <2>10, <2>11 DEF Tables
<1>6. CASE /\ flowsSize >= MaxFlows
           /\ hosts' = [h \in DOMAIN hosts \cup created |-> host(h)]
           /\ UNCHANGED <<flows, flowsSize>>
           /\ hostsSize' = hostsSize + Cardinality(created)
  <2>1. DOMAIN hosts' = DOMAIN hosts \cup created /\ \A h \in DOMAIN hosts' : hosts'[h] = host(h)
    BY <1>6
  <2>2. hosts' \in [DOMAIN hosts' -> HostRec]
    BY <1>4, <1>6
  <2>3. NoDanglingHost' /\ UsesExact'
    BY <1>4, <1>6, <2>1 DEF Tables, NoDanglingHost, UsesExact
  <2>4. SizesExact'
    BY <1>2, <1>3, <1>6, <2>1 DEF Tables, SizesExact
  <2> QED BY <1>2, <1>3, <1>6, <2>1, <2>2, <2>3, <2>4 DEF Tables
<1> QED BY <1>1, <1>5, <1>6 DEF created, host

\* Matching or creating a flow keeps the tables right.
LEMMA ClassifyTables ==
  ASSUME NoWrap, Tables, NEW tuple \in Tuples,
         NEW now \in Nat, NEW seen \in Nat, NEW fin \in BOOLEAN,
         Classify(tuple[1], tuple[2], now, seen, fin)
  PROVE  Tables'
<1>1. tuple[1] \in [addr : Addr, port : Port] /\ tuple[2] \in [addr : Addr, port : Port]
  BY DataAssumption
<1>2. CASE \E f \in FindFlow(tuple[1], tuple[2], now) : UpdateFlow(f, seen, fin)
  <2>1. PICK f \in DOMAIN flows : UpdateFlow(f, seen, fin)
    BY <1>2 DEF FindFlow, Active
  <2> QED BY <2>1, UpdateFlowTables
<1>3. CASE CreateFlow(tuple[1], tuple[2], now, seen, fin)
  BY <1>1, <1>3, CreateFlowTables
<1> QED BY <1>2, <1>3 DEF Classify

\* A sweep position stays inside its table.
LEMMA LastSweptRange ==
  ASSUME NEW n \in Nat \ {0}, NEW last \in 0..(n - 1)
  PROVE  LastSwept(last, n) \in 0..(n - 1)
<1>1. n \div PurgeFraction \in Int
  BY LimitsAssumption, SMT
<1>2. last + (n \div PurgeFraction) \in Int
  BY <1>1
<1> QED BY <1>2, ModRange DEF LastSwept, BucketsPerPurge

\* A sweep of the flows gives back exactly the uses of those it frees.
LEMMA PurgeIdleFlowsIInv ==
  ASSUME NoWrap, IInv, PurgeIdleFlows
  PROVE  IInv'
<1>1. Scalars'
  <2>1. LastSwept(lastPurgedFlow, NumFlowHashes) \in 0..(NumFlowHashes - 1)
    BY LastSweptRange, LimitsAssumption DEF IInv, Scalars
  <2> QED BY <2>1 DEF PurgeIdleFlows, IInv, Scalars, Stages, PurgeFrequency
<1>2. Tables'
  <2>1. CASE UNCHANGED <<flows, flowsSize, hosts>>
    BY <2>1 DEF PurgeIdleFlows, IInv, Tables, SizesExact, NoDanglingHost, UsesExact
  <2>2. CASE nextFlowPurge # 0 /\ lastPkt >= nextFlowPurge
    <3>1. PICK gone \in SUBSET DOMAIN flows :
            DeleteFlows(gone) /\ flowsSize' = flowsSize - Cardinality(gone)
      BY <2>2 DEF PurgeIdleFlows, IInv, Scalars
    <3>2. hostsSize' = hostsSize
      BY DEF PurgeIdleFlows
    <3> QED BY <3>1, <3>2, DeleteFlowsTables DEF IInv
  <2> QED BY <2>1, <2>2 DEF PurgeIdleFlows, IInv
<1> QED BY <1>1, <1>2 DEF IInv

\* A sweep frees only hosts without uses, which no flow points to.
LEMMA PurgeIdleHostsIInv ==
  ASSUME IInv, PurgeIdleHosts
  PROVE  IInv'
<1>1. Scalars'
  <2>1. LastSwept(lastPurgedHost, NumHostHashes) \in 0..(NumHostHashes - 1)
    BY LastSweptRange, LimitsAssumption DEF IInv, Scalars
  <2> QED BY <2>1 DEF PurgeIdleHosts, IInv, Scalars, Stages, PurgeFrequency
<1>2. Tables'
  <2>1. CASE UNCHANGED <<hosts, hostsSize>>
    BY <2>1 DEF PurgeIdleHosts, IInv, Tables, SizesExact, NoDanglingHost, UsesExact
  <2>2. CASE nextHostPurge # 0 /\ lastPkt >= nextHostPurge
    <3>1. PICK gone \in SUBSET DOMAIN hosts :
            /\ \A h \in gone : hosts[h].uses = 0
            /\ hosts' = Rows(hosts, DOMAIN hosts \ gone)
            /\ hostsSize' = hostsSize - Cardinality(gone)
      <4> DEFINE idle == {h \in DOMAIN hosts :
                            /\ hosts[h].addr % NumHostHashes \in Swept(lastPurgedHost, NumHostHashes)
                            /\ HostIdle(hosts[h], lastPkt)}
      <4>1. \A h \in idle : hosts[h].uses = 0
        BY DEF HostIdle
      <4>2. /\ hosts' = Rows(hosts, DOMAIN hosts \ idle)
            /\ hostsSize' = hostsSize - Cardinality(idle)
        BY <2>2 DEF PurgeIdleHosts, IInv, Scalars
      <4>3. idle \in SUBSET DOMAIN hosts
        OBVIOUS
      <4> HIDE DEF idle
      <4> QED BY <4>1, <4>2, <4>3
    <3>2. /\ DOMAIN hosts' = DOMAIN hosts \ gone
          /\ \A h \in DOMAIN hosts' : hosts'[h] = hosts[h]
          /\ hosts' \in [DOMAIN hosts' -> HostRec]
      BY <3>1 DEF Rows, IInv, Tables
    <3>3. flows' = flows /\ flowsSize' = flowsSize
      BY DEF PurgeIdleHosts
    <3>4. /\ IsFiniteSet(DOMAIN hosts')
          /\ Cardinality(DOMAIN hosts') = hostsSize - Cardinality(gone)
          /\ Cardinality(DOMAIN hosts') \in Nat /\ Cardinality(gone) \in Nat
      <4>1. DOMAIN hosts \cap gone = gone
        OBVIOUS
      <4>2. IsFiniteSet(gone) /\ IsFiniteSet(DOMAIN hosts)
        BY FS_Subset DEF IInv, Tables
      <4>3. /\ IsFiniteSet(DOMAIN hosts \ gone)
            /\ Cardinality(DOMAIN hosts \ gone) = Cardinality(DOMAIN hosts) - Cardinality(gone)
        BY <4>1, <4>2, FS_Difference
      <4> QED BY <3>2, <4>2, <4>3, FS_CardinalityType DEF IInv, Tables, SizesExact
    <3>5. \A h \in gone : \A f \in DOMAIN flows : h \notin {flows[f].cli, flows[f].srv}
      <4> TAKE h \in gone
      <4>1. EndsAt(flows, h) = 0
        BY <3>1 DEF IInv, Tables, UsesExact
      <4> QED BY <4>1, EndsAtZero DEF IInv, Tables
    <3>6. NoDanglingHost'
      BY <3>2, <3>3, <3>5 DEF IInv, Tables, NoDanglingHost
    <3>7. UsesExact'
      BY <3>2, <3>3 DEF IInv, Tables, UsesExact
    <3>8. SizesExact'
      BY <3>1, <3>3, <3>4, LimitsAssumption DEF IInv, Tables, SizesExact
    <3> QED BY <3>1, <3>2, <3>3, <3>4, <3>6, <3>7, <3>8 DEF IInv, Tables
  <2> QED BY <2>1, <2>2 DEF PurgeIdleHosts, IInv
<1> QED BY <1>1, <1>2 DEF IInv

\* A restored host is new, so no flow points to it.
LEMMA RestoreHostIInv ==
  ASSUME IInv, NEW addr \in Addr, RestoreHost(addr)
  PROVE  IInv'
<1> DEFINE new == NewHost(addr, FALSE, lastPkt)
<1>1. PICK h \in HostObj \ DOMAIN hosts :
        hosts' = [g \in DOMAIN hosts \cup {h} |-> IF g = h THEN new ELSE hosts[g]]
  BY DEF RestoreHost
<1>2. new \in HostRec /\ new.uses = 0
  BY LimitsAssumption DEF NewHost, HostRec, IInv, Scalars
<1> HIDE DEF new
<1>3. /\ DOMAIN hosts' = DOMAIN hosts \cup {h} /\ hosts' \in [DOMAIN hosts' -> HostRec]
      /\ \A g \in DOMAIN hosts : hosts'[g] = hosts[g]
      /\ hosts'[h] = new
  BY <1>1, <1>2 DEF IInv, Tables
<1>4. flows' = flows /\ flowsSize' = flowsSize /\ hostsSize < MaxHosts /\ hostsSize' = hostsSize + 1
  BY DEF RestoreHost
<1>5. /\ IsFiniteSet(DOMAIN hosts') /\ Cardinality(DOMAIN hosts') = hostsSize + 1
      /\ hostsSize + 1 \in Nat /\ hostsSize + 1 <= MaxHosts
  BY <1>3, <1>4, FS_AddElement, LimitsAssumption DEF IInv, Tables, SizesExact
<1>6. EndsAt(flows, h) = 0
  <2>1. \A f \in DOMAIN flows : h \notin {flows[f].cli, flows[f].srv}
    BY ObjectsAssumption DEF IInv, Tables, NoDanglingHost
  <2> QED BY <2>1, EndsAtZero DEF IInv, Tables
<1>7. NoDanglingHost' /\ UsesExact' /\ SizesExact'
  BY <1>2, <1>3, <1>4, <1>5, <1>6 DEF IInv, Tables, NoDanglingHost, UsesExact, SizesExact
<1>8. Tables'
  BY <1>1, <1>3, <1>4, <1>5, <1>7 DEF IInv, Tables
<1>9. Scalars'
  BY DEF RestoreHost, purgeVars, IInv, Scalars
<1> QED BY <1>8, <1>9 DEF IInv

\* Crediting traffic changes no link between the tables.
LEMMA UpdateHostStatsIInv ==
  ASSUME IInv, UpdateHostStats
  PROVE  IInv'
<1>1. /\ DOMAIN flows' = DOMAIN flows /\ flows' \in [DOMAIN flows' -> FlowRec]
      /\ \A f \in DOMAIN flows : flows'[f].cli = flows[f].cli /\ flows'[f].srv = flows[f].srv
  <2>1. \A f \in DOMAIN flows : flows[f] \in FlowRec
    BY DEF IInv, Tables
  <2>2. PICK new : flows' = [f \in DOMAIN flows |-> [flows[f] EXCEPT !.pending = @ /\ f \notin new]]
    BY DEF UpdateHostStats
  <2>3. ASSUME NEW f \in DOMAIN flows
        PROVE  flows'[f] \in FlowRec /\ flows'[f].cli = flows[f].cli /\ flows'[f].srv = flows[f].srv
    <3>1. flows'[f] = [flows[f] EXCEPT !.pending = @ /\ f \notin new]
      BY <2>2
    <3>2. flows[f] \in FlowRec
      BY <2>1
    <3> QED BY <3>1, <3>2 DEF FlowRec
  <2>4. flows' = [f \in DOMAIN flows |-> flows'[f]]
    BY <2>2
  <2> QED BY <2>3, <2>4
<1>2. /\ DOMAIN hosts' = DOMAIN hosts /\ hosts' \in [DOMAIN hosts' -> HostRec]
      /\ \A h \in DOMAIN hosts : hosts'[h].uses = hosts[h].uses
  <2>1. lastPkt \in Nat /\ \A h \in DOMAIN hosts : hosts[h] \in HostRec
    BY DEF IInv, Tables, Scalars
  <2>2. PICK busy : hosts' = [h \in DOMAIN hosts |->
                      [hosts[h] EXCEPT !.seen = IF h \in busy THEN lastPkt ELSE @]]
    BY DEF UpdateHostStats
  <2>3. ASSUME NEW h \in DOMAIN hosts
        PROVE  hosts'[h] \in HostRec /\ hosts'[h].uses = hosts[h].uses
    <3>1. hosts'[h] = [hosts[h] EXCEPT !.seen = IF h \in busy THEN lastPkt ELSE @]
      BY <2>2
    <3> QED BY <2>1, <3>1 DEF HostRec
  <2>4. hosts' = [h \in DOMAIN hosts |-> hosts'[h]]
    BY <2>2
  <2> QED BY <2>3, <2>4
<1>3. flowsSize' = flowsSize /\ hostsSize' = hostsSize
  BY DEF UpdateHostStats
<1>4. \A h : EndsAt(flows', h) = EndsAt(flows, h)
  BY <1>1, EndsAtSame
<1>5. NoDanglingHost' /\ UsesExact' /\ SizesExact'
  BY <1>1, <1>2, <1>3, <1>4 DEF IInv, Tables, NoDanglingHost, UsesExact, SizesExact
<1>6. Tables'
  BY <1>1, <1>2, <1>3, <1>5 DEF IInv, Tables
<1>7. Scalars'
  BY <1>1 DEF UpdateHostStats, purgeVars, IInv, Scalars
<1> QED BY <1>6, <1>7 DEF IInv

\* The first half of the reset leaves every host unused.
LEMMA CleanupFlowsIInv ==
  ASSUME NoWrap, IInv, CleanupFlows
  PROVE  IInv'
<1>1. hostsSize' = hostsSize /\ DOMAIN flows' = {}
  BY DEF CleanupFlows, DeleteFlows, Rows
<1>2. Tables'
  <2>1. flowsSize' = flowsSize - Cardinality(DOMAIN flows)
    BY DEF CleanupFlows, IInv, Tables, SizesExact
  <2> QED BY <1>1, <2>1, DeleteFlowsTables DEF CleanupFlows, IInv
<1>3. Scalars'
  BY <1>1 DEF CleanupFlows, IInv, Scalars, Stages
<1> QED BY <1>2, <1>3 DEF IInv

\* The reset frees every host after it has freed every flow.
LEMMA CleanupHostsIInv ==
  ASSUME IInv, CleanupHosts
  PROVE  IInv'
<1>1. DOMAIN hosts' = {} /\ hosts' \in [DOMAIN hosts' -> HostRec] /\ hostsSize' = 0
  BY DEF CleanupHosts, EmptyTable
<1>2. flows' = flows /\ flowsSize' = flowsSize /\ DOMAIN flows = {}
  BY DEF CleanupHosts, IInv, Scalars
<1>3. IsFiniteSet(DOMAIN hosts') /\ Cardinality(DOMAIN hosts') = 0
  BY <1>1, FS_EmptySet
<1>4. NoDanglingHost' /\ UsesExact' /\ SizesExact'
  BY <1>1, <1>2, <1>3, LimitsAssumption
  DEF IInv, Tables, NoDanglingHost, UsesExact, SizesExact
<1>5. Tables'
  BY <1>1, <1>2, <1>3, <1>4 DEF IInv, Tables
<1>6. Scalars'
  BY <1>2 DEF CleanupHosts, purgeVars, IInv, Scalars, Stages
<1> QED BY <1>5, <1>6 DEF IInv

\* A packet, a record or an idle poll: the tables by ClassifyTables, the rest at once.
LEMMA CaptureIInv ==
  ASSUME NoWrap, IInv, NEW tuple \in Tuples, NEW t \in Times, NEW fin \in BOOLEAN,
         \/ PacketDissector(tuple, t, fin)
         \/ FlowProcessing(tuple, t, fin)
  PROVE  IInv'
<1>1. t \in Nat
  BY TimesAssumption DEF Times
<1>2. PICK now \in Nat : Classify(tuple[1], tuple[2], now, t, fin)
  BY <1>1 DEF PacketDissector, FlowProcessing, IInv, Scalars
<1>3. Tables'
  BY <1>1, <1>2, ClassifyTables DEF IInv
<1>4. lastPkt' \in Nat /\ stage' \in {"poll", "purge_flows"}
  <2>1. CASE PacketDissector(tuple, t, fin)
    BY <1>1, <2>1 DEF PacketDissector, StartPurge
  <2>2. CASE FlowProcessing(tuple, t, fin)
    BY <1>1, <2>2 DEF FlowProcessing, StartPurge, IInv, Scalars
  <2> QED BY <2>1, <2>2
<1>5. Scalars'
  BY <1>4 DEF PacketDissector, FlowProcessing, purgeVars, IInv, Scalars, Stages
<1> QED BY <1>3, <1>5 DEF IInv

\* An idle poll changes the clock and the stage alone.
LEMMA IdlePollIInv ==
  ASSUME IInv, NEW t \in Times, IdlePoll(t)
  PROVE  IInv'
<1>1. t \in Nat
  BY TimesAssumption DEF Times
<1>2. Tables'
  BY DEF IdlePoll, IInv, Tables, SizesExact, NoDanglingHost, UsesExact
<1>3. Scalars'
  BY <1>1 DEF IdlePoll, StartPurge, purgeVars, IInv, Scalars, Stages
<1> QED BY <1>2, <1>3 DEF IInv

\* Every step preserves the invariant: one case per action.
LEMMA NextIInv ==
  ASSUME NoWrap, IInv, [Next]_vars
  PROVE  IInv'
<1>1. CASE \E tuple \in Tuples, t \in Times, fin \in BOOLEAN :
             PacketDissector(tuple, t, fin) \/ FlowProcessing(tuple, t, fin)
  BY <1>1, CaptureIInv
<1>2. CASE \E t \in Times : IdlePoll(t)
  BY <1>2, IdlePollIInv
<1>3. CASE PurgeIdleFlows
  BY <1>3, PurgeIdleFlowsIInv
<1>4. CASE PurgeIdleHosts
  BY <1>4, PurgeIdleHostsIInv
<1>5. CASE \E addr \in Restorable : RestoreHost(addr)
  BY <1>5, DataAssumption, RestoreHostIInv
<1>6. CASE UpdateHostStats
  BY <1>6, UpdateHostStatsIInv
<1>7. CASE CleanupFlows
  BY <1>7, CleanupFlowsIInv
<1>8. CASE CleanupHosts
  BY <1>8, CleanupHostsIInv
<1>9. CASE UNCHANGED vars
  BY <1>9 DEF vars, purgeVars, IInv, Tables, Scalars, SizesExact, NoDanglingHost, UsesExact
<1> QED BY <1>1, <1>2, <1>3, <1>4, <1>5, <1>6, <1>7, <1>8, <1>9 DEF Next

\* The invariant holds the types of every variable.
LEMMA IInvTypeOK == IInv => TypeOK
BY DEF IInv, Tables, Scalars, TypeOK

-------------------------------------------------------------------------------
\* When the counter of uses cannot wrap, the inductive invariant always holds.
THEOREM Invariance == ASSUME NoWrap PROVE Spec => []IInv
<1>1. Init => IInv
  BY InitIInv
<1>2. IInv /\ [Next]_vars => IInv'
  BY NextIInv
<1> QED BY <1>1, <1>2, PTL DEF Spec

\* The tables, counters and stages of the capture thread keep their types.
THEOREM TypeCorrect == ASSUME NoWrap PROVE Spec => []TypeOK
<1>1. IInv => TypeOK
  BY IInvTypeOK
<1> QED BY <1>1, Invariance, PTL

\* No flow ever points to a freed host, in tables of any size and whatever the
\* timeouts and the order of the timestamps.
THEOREM FlowsPointToLiveHosts ==
  ASSUME NoWrap PROVE Spec => []NoDanglingHost
<1>1. IInv => NoDanglingHost
  BY DEF IInv, Tables
<1> QED BY <1>1, Invariance, PTL

\* num_uses always counts the flow ends that point to the host.
THEOREM UsesCountFlowEnds ==
  ASSUME NoWrap PROVE Spec => []UsesExact
<1>1. IInv => UsesExact
  BY DEF IInv, Tables
<1> QED BY <1>1, Invariance, PTL

\* current_size of both tables is exact and never passes its limit.
THEOREM SizesStayExact ==
  ASSUME NoWrap PROVE Spec => []SizesExact
<1>1. IInv => SizesExact
  BY DEF IInv, Tables
<1> QED BY <1>1, Invariance, PTL

\* No step frees a host that a flow still points to: the internal error of
\* Host::~Host is unreachable.
THEOREM HostsFreedUnused ==
  ASSUME NoWrap PROVE Spec => FreedHostUnused
<1> DEFINE A == \A h \in DOMAIN hosts \ DOMAIN hosts' :
                  \A f \in DOMAIN flows' : h \notin {flows'[f].cli, flows'[f].srv}
<1>1. IInv /\ IInv' => A
  BY ObjectsAssumption DEF IInv, Tables, NoDanglingHost
<1>2. IInv /\ IInv' => [A]_vars
  BY <1>1
<1> HIDE DEF A
<1>3. Spec => [][A]_vars
  BY <1>2, Invariance, PTL DEF Spec
<1> QED BY <1>3 DEF A, FreedHostUnused

-------------------------------------------------------------------------------
(* What holds while time does not go back: one active host for an address,   *)
(* one active flow for a conversation.                                       *)

LEMMA FlowIdleLater ==
  ASSUME NEW flow \in FlowRec, NEW t \in Nat, NEW u \in Nat, t <= u, FlowIdle(flow, t)
  PROVE  FlowIdle(flow, u)
<1>1. flow.seen \in Nat
  BY DEF FlowRec
<1> QED BY <1>1, TimesAssumption DEF FlowIdle, IsIdle

LEMMA HostIdleLater ==
  ASSUME NEW host \in HostRec, NEW t \in Nat, NEW u \in Nat, t <= u, HostIdle(host, t)
  PROVE  HostIdle(host, u)
<1>1. host.seen \in Nat
  BY DEF HostRec
<1>2. HostMaxIdle(host.local) \in Nat
  BY TimesAssumption DEF HostMaxIdle
<1> QED BY <1>1, <1>2 DEF HostIdle, IsIdle

\* What a step does to the rows that stay: a flow keeps its ends and its bucket, a host
\* its address, and nothing idle becomes active.
FlowsKept ==
  \A f \in DOMAIN flows \cap DOMAIN flows' :
    /\ flows'[f].cli = flows[f].cli /\ flows'[f].srv = flows[f].srv
    /\ flows'[f].cport = flows[f].cport /\ flows'[f].sport = flows[f].sport
    /\ flows'[f].key = flows[f].key
    /\ FlowIdle(flows[f], lastPkt) => FlowIdle(flows'[f], lastPkt')
HostsKept ==
  \A h \in DOMAIN hosts \cap DOMAIN hosts' :
    /\ hosts'[h].addr = hosts[h].addr
    /\ HostIdle(hosts[h], lastPkt) => HostIdle(hosts'[h], lastPkt')

\* The hosts of an address that a lookup would return.
SameHost(a, b) ==
  /\ hosts[a].addr = hosts[b].addr /\ hosts[a].addr \notin Restorable
  /\ ~HostIdle(hosts[a], lastPkt) /\ ~HostIdle(hosts[b], lastPkt)
OneHost == stage # "cleanup_hosts" => \A a, b \in DOMAIN hosts : SameHost(a, b) => a = b
OneFlow ==
  \A tuple \in Tuples : \A f, g \in Active(tuple[1], tuple[2], lastPkt) : f = g

ActiveInv == OneHost /\ OneFlow /\ FlowInItsBucket

\* A host that a step keeps, and that is active after it, was active before.
LEMMA KeepsHosts ==
  ASSUME IInv, OneHost, HostsKept, stage # "cleanup_hosts" \/ DOMAIN hosts' = {},
         \A h \in DOMAIN hosts' \ DOMAIN hosts : hosts'[h].addr \in Restorable
  PROVE  OneHost'
<1>1. SUFFICES ASSUME NEW a \in DOMAIN hosts', NEW b \in DOMAIN hosts', SameHost(a, b)'
               PROVE  a = b
  BY DEF OneHost
<1>2. a \in DOMAIN hosts /\ b \in DOMAIN hosts
  BY <1>1 DEF SameHost
<1>3. SameHost(a, b)
  BY <1>1, <1>2 DEF SameHost, HostsKept
<1> QED BY <1>1, <1>2, <1>3 DEF OneHost

\* The same of the flows, whose hosts are in the table.
LEMMA MatchesBefore ==
  ASSUME IInv, FlowsKept, HostsKept, NoDanglingHost', DOMAIN hosts' \subseteq HostObj,
         NEW f \in DOMAIN flows \cap DOMAIN flows', NEW src, NEW dst, Matches(flows[f], src, dst)'
  PROVE  Matches(flows[f], src, dst)
<1>1. /\ flows[f].cli # NoHost /\ flows[f].srv # NoHost
      /\ flows'[f].cli = flows[f].cli /\ flows'[f].srv = flows[f].srv
      /\ flows'[f].cport = flows[f].cport /\ flows'[f].sport = flows[f].sport
  BY DEF Matches, FlowsKept
<1>2. /\ flows[f].cli \in DOMAIN hosts \cap DOMAIN hosts'
      /\ flows[f].srv \in DOMAIN hosts \cap DOMAIN hosts'
  BY <1>1 DEF IInv, Tables, NoDanglingHost
<1>3. /\ hosts'[flows[f].cli].addr = hosts[flows[f].cli].addr
      /\ hosts'[flows[f].srv].addr = hosts[flows[f].srv].addr
  BY <1>2 DEF HostsKept
<1> QED BY <1>1, <1>3 DEF Matches, Between

LEMMA KeepsFlows ==
  ASSUME IInv, IInv', OneFlow, FlowsKept, HostsKept, DOMAIN flows' \subseteq DOMAIN flows
  PROVE  OneFlow'
<1>1. SUFFICES ASSUME NEW tuple \in Tuples,
                      NEW f \in Active(tuple[1], tuple[2], lastPkt)',
                      NEW g \in Active(tuple[1], tuple[2], lastPkt)'
               PROVE  f = g
  BY DEF OneFlow
<1>2. ASSUME NEW x \in Active(tuple[1], tuple[2], lastPkt)'
      PROVE  x \in Active(tuple[1], tuple[2], lastPkt)
  <2>1. x \in DOMAIN flows \cap DOMAIN flows' /\ Matches(flows[x], tuple[1], tuple[2])'
        /\ ~FlowIdle(flows'[x], lastPkt')
    BY <1>2 DEF Active
  <2>2. Matches(flows[x], tuple[1], tuple[2])
    BY <2>1, MatchesBefore DEF IInv, Tables
  <2>3. ~FlowIdle(flows[x], lastPkt)
    BY <2>1 DEF FlowsKept
  <2> QED BY <2>1, <2>2, <2>3 DEF Active
<1> QED BY <1>1, <1>2 DEF OneFlow

LEMMA KeepsBuckets ==
  ASSUME IInv, IInv', FlowInItsBucket, FlowsKept, HostsKept,
         NEW f \in DOMAIN flows \cap DOMAIN flows',
         flows'[f].cli \in DOMAIN hosts', flows'[f].srv \in DOMAIN hosts'
  PROVE  flows'[f].key = hosts'[flows'[f].cli].addr + hosts'[flows'[f].srv].addr
                         + flows'[f].cport + flows'[f].sport
<1>1. /\ flows'[f].cli = flows[f].cli /\ flows'[f].srv = flows[f].srv
      /\ flows'[f].cport = flows[f].cport /\ flows'[f].sport = flows[f].sport
      /\ flows'[f].key = flows[f].key
  BY DEF FlowsKept
<1>2. flows[f].cli \in DOMAIN hosts /\ flows[f].srv \in DOMAIN hosts
  BY <1>1, ObjectsAssumption DEF IInv, Tables, NoDanglingHost
<1>3. /\ hosts'[flows[f].cli].addr = hosts[flows[f].cli].addr
      /\ hosts'[flows[f].srv].addr = hosts[flows[f].srv].addr
  BY <1>1, <1>2 DEF HostsKept
<1> QED BY <1>1, <1>2, <1>3 DEF FlowInItsBucket

\* A step that adds no flow, and no host but a restored one.
LEMMA KeepsActive ==
  ASSUME IInv, IInv', ActiveInv, FlowsKept, HostsKept, DOMAIN flows' \subseteq DOMAIN flows,
         stage # "cleanup_hosts" \/ DOMAIN hosts' = {} \/ stage' = "cleanup_hosts",
         \A h \in DOMAIN hosts' \ DOMAIN hosts : hosts'[h].addr \in Restorable
  PROVE  ActiveInv'
<1>1. OneHost'
  BY KeepsHosts DEF ActiveInv, OneHost
<1>2. OneFlow'
  BY KeepsFlows DEF ActiveInv
<1>3. FlowInItsBucket'
  BY KeepsBuckets DEF ActiveInv, FlowInItsBucket
<1> QED BY <1>1, <1>2, <1>3 DEF ActiveInv

\* The two ends of a flow: the entry that the search returns, or a new one.
HostEnds(src, dst, now, s, d) ==
  /\ s \in DOMAIN hosts => s \in GetHost(src.addr, now)
  /\ d \in DOMAIN hosts => d \in GetHost(dst.addr, now)
  /\ s \notin DOMAIN hosts /\ s # NoHost => GetHost(src.addr, now) = {}
  /\ d \notin DOMAIN hosts /\ d # NoHost => GetHost(dst.addr, now) = {}
  /\ s \notin DOMAIN hosts /\ d \notin DOMAIN hosts /\ s # NoHost /\ d # NoHost
       => (s = d <=> src.addr = dst.addr)

\* What findFlowHosts says of the two ends, before the step.
LEMMA FlowHostEnds ==
  ASSUME Tables, NEW src, NEW dst, NEW now,
         NEW s \in HostObj \cup {NoHost}, NEW d \in HostObj \cup {NoHost},
         FindFlowHosts(src, dst, now, s, d)
  PROVE  HostEnds(src, dst, now, s, d)
<1>1. /\ GetHost(src.addr, now) \subseteq DOMAIN hosts
      /\ GetHost(dst.addr, now) \subseteq DOMAIN hosts
      /\ NoHost \notin DOMAIN hosts
  BY ObjectsAssumption DEF GetHost, Tables
<1> QED BY <1>1 DEF FindFlowHosts, HostFor, HostEnds

\* The rows after a flow was made, or refused.
NewRows(src, dst, now, s, d, seen, fin) ==
  /\ DOMAIN hosts' = DOMAIN hosts \cup ({s, d} \ {NoHost})
  /\ \A h \in DOMAIN hosts :
       /\ hosts'[h].addr = hosts[h].addr /\ hosts'[h].local = hosts[h].local
       /\ hosts'[h].seen = hosts[h].seen
       /\ h \notin {s, d} => hosts'[h].uses = hosts[h].uses
  /\ \A h \in {s, d} \ (DOMAIN hosts \cup {NoHost}) :
       hosts'[h].addr = IF h = s THEN src.addr ELSE dst.addr
  /\ \/ flows' = flows
     \/ \E f \in FlowObj \ DOMAIN flows :
          flows' = [g \in DOMAIN flows \cup {f} |->
                      IF g = f THEN NewFlow(src, dst, s, d, seen, fin) ELSE flows[g]]

LEMMA CreateFlowRows ==
  ASSUME Tables, NEW src, NEW dst, NEW now, NEW seen, NEW fin,
         CreateFlow(src, dst, now, seen, fin)
  PROVE  \E s, d \in HostObj \cup {NoHost} :
           FindFlowHosts(src, dst, now, s, d) /\ NewRows(src, dst, now, s, d, seen, fin)
<1>1. PICK s \in HostObj \cup {NoHost}, d \in HostObj \cup {NoHost} :
        LET created == {s, d} \ (DOMAIN hosts \cup {NoHost})
            host(h) == IF h \in DOMAIN hosts THEN hosts[h]
                       ELSE LET addr == IF h = s THEN src.addr ELSE dst.addr
                            IN NewHost(addr, addr \in LocalAddr, now)
        IN /\ FindFlowHosts(src, dst, now, s, d)
           /\ \/ /\ hosts' = [h \in DOMAIN hosts \cup created |-> IncUses(host(h), h, s, d)]
                 /\ \E f \in FlowObj \ DOMAIN flows :
                      flows' = [g \in DOMAIN flows \cup {f} |->
                                  IF g = f THEN NewFlow(src, dst, s, d, seen, fin)
                                  ELSE flows[g]]
              \/ /\ hosts' = [h \in DOMAIN hosts \cup created |-> host(h)]
                 /\ UNCHANGED flows
  BY DEF CreateFlow
<1> DEFINE created == {s, d} \ (DOMAIN hosts \cup {NoHost})
           host(h) == IF h \in DOMAIN hosts THEN hosts[h]
                      ELSE LET addr == IF h = s THEN src.addr ELSE dst.addr
                           IN NewHost(addr, addr \in LocalAddr, now)
<1>2. DOMAIN hosts \cup created = DOMAIN hosts \cup ({s, d} \ {NoHost})
  OBVIOUS
<1>3. \A h \in DOMAIN hosts : host(h) = hosts[h] /\ hosts[h] \in HostRec
  BY DEF Tables
<1>4. \A h \in created : host(h).addr = IF h = s THEN src.addr ELSE dst.addr
  BY DEF NewHost
<1>5. \A h \in DOMAIN hosts \cup created :
        /\ IncUses(host(h), h, s, d).addr = host(h).addr
        /\ h \in DOMAIN hosts =>
             /\ IncUses(host(h), h, s, d).local = host(h).local
             /\ IncUses(host(h), h, s, d).seen = host(h).seen
             /\ h \notin {s, d} => IncUses(host(h), h, s, d).uses = host(h).uses
  <2>1. ASSUME NEW h \in created PROVE IncUses(host(h), h, s, d).addr = host(h).addr
    BY DEF IncUses, NewHost
  <2>2. ASSUME NEW h \in DOMAIN hosts
        PROVE  /\ IncUses(hosts[h], h, s, d).addr = hosts[h].addr
               /\ IncUses(hosts[h], h, s, d).local = hosts[h].local
               /\ IncUses(hosts[h], h, s, d).seen = hosts[h].seen
               /\ h \notin {s, d} => IncUses(hosts[h], h, s, d).uses = hosts[h].uses
    <3>1. hosts[h] \in HostRec
      BY <1>3
    <3>2. hosts[h].uses \in Nat /\ hosts[h].uses < UsesMod
      BY <3>1, LimitsAssumption DEF HostRec
    <3>3. (hosts[h].uses + 0 + 0) % UsesMod = hosts[h].uses
      BY <3>2, ModSmall
    <3> QED BY <3>1, <3>3 DEF IncUses, HostRec
  <2> HIDE DEF host, created
  <2> QED BY <2>1, <2>2, <1>3
<1>6. DOMAIN hosts' = DOMAIN hosts \cup created
      /\ \A h \in DOMAIN hosts' : hosts'[h] \in {host(h), IncUses(host(h), h, s, d)}
  BY <1>1
<1>7. FindFlowHosts(src, dst, now, s, d)
      /\ (\/ flows' = flows
          \/ \E f \in FlowObj \ DOMAIN flows :
               flows' = [g \in DOMAIN flows \cup {f} |->
                           IF g = f THEN NewFlow(src, dst, s, d, seen, fin) ELSE flows[g]])
  BY <1>1
<1>8. \A h \in created : hosts'[h].addr = IF h = s THEN src.addr ELSE dst.addr
  <2> HIDE DEF host, created
  <2> QED BY <1>4, <1>5, <1>6
<1>9. \A h \in DOMAIN hosts :
        /\ hosts'[h].addr = hosts[h].addr /\ hosts'[h].local = hosts[h].local
        /\ hosts'[h].seen = hosts[h].seen
        /\ h \notin {s, d} => hosts'[h].uses = hosts[h].uses
  <2> HIDE DEF host, created
  <2> QED BY <1>3, <1>5, <1>6
<1>10. DOMAIN hosts' = DOMAIN hosts \cup ({s, d} \ {NoHost})
  BY <1>2, <1>6
<1>11. NewRows(src, dst, now, s, d, seen, fin)
  <2> HIDE DEF host
  <2> QED BY <1>7, <1>8, <1>9, <1>10 DEF NewRows
<1> QED BY <1>7, <1>11

\* A packet between two ends: the flow it is matched to was active, and a flow made for it
\* has no active flow beside it.
LEMMA ClassifyKeeps ==
  ASSUME IInv, IInv', ActiveInv, stage = "poll",
         NEW tuple \in Tuples, NEW t \in Nat, NEW fin \in BOOLEAN, t >= lastPkt, lastPkt' = t,
         Classify(tuple[1], tuple[2], t, t, fin)
  PROVE  FlowsKept /\ HostsKept /\ ActiveInv'
<1> DEFINE src == tuple[1]
           dst == tuple[2]
<1>1. lastPkt \in Nat /\ lastPkt <= t
  BY DEF IInv, Scalars
<1>2. src \in [addr : Addr, port : Port] /\ dst \in [addr : Addr, port : Port]
  BY DataAssumption
<1>3. ASSUME NEW f \in FindFlow(src, dst, t), UpdateFlow(f, t, fin)
      PROVE  FlowsKept /\ HostsKept /\ ActiveInv'
  <2>1. hosts' = hosts /\ DOMAIN flows' = DOMAIN flows /\ f \in DOMAIN flows /\ ~FlowIdle(flows[f], t)
    BY <1>3 DEF UpdateFlow, FindFlow, Active
  <2>2. \A g \in DOMAIN flows : flows[g] \in FlowRec
    BY DEF IInv, Tables
  <2>3. \A g \in DOMAIN flows :
          /\ flows'[g].cli = flows[g].cli /\ flows'[g].srv = flows[g].srv
          /\ flows'[g].cport = flows[g].cport /\ flows'[g].sport = flows[g].sport
          /\ flows'[g].key = flows[g].key
          /\ g # f => flows'[g] = flows[g]
    BY <1>3, <2>1, <2>2 DEF UpdateFlow, FlowRec
  <2>4. FlowsKept
    BY <1>1, <2>1, <2>2, <2>3, FlowIdleLater DEF FlowsKept
  <2>5. HostsKept
    BY <1>1, <2>1, HostIdleLater DEF HostsKept, IInv, Tables
  <2> QED BY <2>1, <2>4, <2>5, KeepsActive
<1>4. ASSUME FindFlow(src, dst, t) = {}, CreateFlow(src, dst, t, t, fin)
      PROVE  FlowsKept /\ HostsKept /\ ActiveInv'
  <2>1. PICK s \in HostObj \cup {NoHost}, d \in HostObj \cup {NoHost} :
          FindFlowHosts(src, dst, t, s, d) /\ NewRows(src, dst, t, s, d, t, fin)
    BY <1>4, CreateFlowRows DEF IInv
  <2>ends. HostEnds(src, dst, t, s, d)
    <3>1. Tables
      BY DEF IInv
    <3> QED BY <2>1, <3>1, FlowHostEnds
  <2>2. FlowsKept
    <3>1. \A g \in DOMAIN flows : flows[g] \in FlowRec /\ flows'[g] = flows[g]
      BY <2>1 DEF NewRows, IInv, Tables
    <3> QED BY <1>1, <3>1, FlowIdleLater DEF FlowsKept
  <2>3. \A h \in DOMAIN hosts : HostIdle(hosts[h], t) => HostIdle(hosts'[h], t)
    <3>1. SUFFICES ASSUME NEW h \in DOMAIN hosts, HostIdle(hosts[h], t)
                   PROVE  HostIdle(hosts'[h], t)
      OBVIOUS
    <3>2. h \notin {s, d}
      BY <3>1, <2>ends DEF HostEnds, GetHost
    <3> QED BY <2>1, <3>1, <3>2 DEF NewRows, HostIdle, IsIdle
  <2>4. HostsKept
    <3>1. \A h \in DOMAIN hosts : hosts[h] \in HostRec
      BY DEF IInv, Tables
    <3> QED BY <1>1, <2>1, <2>3, <3>1, HostIdleLater DEF NewRows, HostsKept
  <2>5. OneHost'
    <3>1. SUFFICES ASSUME NEW a \in DOMAIN hosts', NEW b \in DOMAIN hosts', SameHost(a, b)',
                          stage' # "cleanup_hosts", a # b
                   PROVE  FALSE
      BY DEF OneHost
    <3>2. CASE a \in DOMAIN hosts /\ b \in DOMAIN hosts
      BY <2>4, <3>1, <3>2 DEF ActiveInv, OneHost, SameHost, HostsKept
    <3>3. \A h \in DOMAIN hosts' \ DOMAIN hosts :
            GetHost(hosts'[h].addr, t) = {} /\ (h = s \/ h = d) /\ h # NoHost
      <4> TAKE h \in DOMAIN hosts' \ DOMAIN hosts
      <4>1. h \in {s, d} \ (DOMAIN hosts \cup {NoHost})
        BY <2>1 DEF NewRows
      <4>2. hosts'[h].addr = IF h = s THEN src.addr ELSE dst.addr
        BY <2>1, <4>1 DEF NewRows
      <4>3. h = s => GetHost(src.addr, t) = {}
        BY <4>1, <2>ends DEF HostEnds
      <4>4. h = d => GetHost(dst.addr, t) = {}
        BY <4>1, <2>ends DEF HostEnds
      <4> QED BY <4>1, <4>2, <4>3, <4>4
    <3>4. \A h \in DOMAIN hosts : ~HostIdle(hosts'[h], t) => h \in GetHost(hosts'[h].addr, t)
      BY <2>1, <2>3 DEF NewRows, GetHost
    <3>5. CASE a \notin DOMAIN hosts /\ b \notin DOMAIN hosts
      <4>1. {a, b} = {s, d} /\ s # d /\ s # NoHost /\ d # NoHost
        BY <3>1, <3>3, <3>5
      <4>2. s \notin DOMAIN hosts /\ d \notin DOMAIN hosts
        BY <3>5, <4>1
      <4>3. src.addr # dst.addr
        BY <4>1, <4>2, <2>ends DEF HostEnds
      <4>4. hosts'[s].addr = src.addr /\ hosts'[d].addr = dst.addr
        BY <2>1, <4>1, <4>2 DEF NewRows
      <4> QED BY <3>1, <4>1, <4>3, <4>4 DEF SameHost
    <3>6. CASE a \notin DOMAIN hosts /\ b \in DOMAIN hosts
      BY <3>1, <3>3, <3>4, <3>6 DEF SameHost
    <3>7. CASE a \in DOMAIN hosts /\ b \notin DOMAIN hosts
      BY <3>1, <3>3, <3>4, <3>7 DEF SameHost
    <3> QED BY <3>2, <3>5, <3>6, <3>7
  <2>6. CASE flows' = flows
    BY <2>2, <2>4, <2>5, <2>6, KeepsFlows, KeepsBuckets DEF ActiveInv, FlowInItsBucket
  <2>7. ASSUME NEW g \in FlowObj \ DOMAIN flows,
               flows' = [x \in DOMAIN flows \cup {g} |->
                           IF x = g THEN NewFlow(src, dst, s, d, t, fin) ELSE flows[x]]
        PROVE  OneFlow' /\ FlowInItsBucket'
    <3>1. /\ DOMAIN flows' = DOMAIN flows \cup {g}
          /\ flows'[g] = NewFlow(src, dst, s, d, t, fin)
          /\ \A x \in DOMAIN flows : flows'[x] = flows[x]
      BY <2>7
    <3>2. /\ flows'[g].cli = s /\ flows'[g].srv = d
          /\ flows'[g].cport = src.port /\ flows'[g].sport = dst.port
          /\ flows'[g].key = FlowKey(src, dst, s, d)
      BY <3>1 DEF NewFlow
    <3>3. /\ s # NoHost => s \in DOMAIN hosts' /\ hosts'[s].addr = src.addr
          /\ d # NoHost => d \in DOMAIN hosts' /\ hosts'[d].addr = dst.addr
      BY <2>1, <2>ends DEF HostEnds, NewRows, GetHost
    <3>4. Active(src, dst, t) = {}
      <4>1. SUFFICES ASSUME NEW x \in Active(src, dst, t) PROVE FALSE
        OBVIOUS
      <4>2. x \in DOMAIN flows /\ Matches(flows[x], src, dst)
        BY <4>1 DEF Active
      <4>3. /\ flows[x].cli \in DOMAIN hosts /\ flows[x].srv \in DOMAIN hosts
        BY <4>2 DEF Matches, IInv, Tables, NoDanglingHost
      <4>4. /\ src.addr \in Nat /\ dst.addr \in Nat /\ src.port \in Nat /\ dst.port \in Nat
        BY <1>2, DataAssumption
      <4>5. flows[x].key = src.addr + dst.addr + src.port + dst.port
        BY <4>2, <4>3, <4>4 DEF ActiveInv, FlowInItsBucket, Matches, Between
      <4> QED BY <1>4, <4>1, <4>5 DEF FindFlow
    <3>5. ASSUME NEW p \in Tuples, NEW x \in Active(p[1], p[2], lastPkt)', x # g,
                 g \in Active(p[1], p[2], lastPkt)'
          PROVE  FALSE
      <4>1. /\ x \in DOMAIN flows \cap DOMAIN flows' /\ Matches(flows[x], p[1], p[2])'
            /\ ~FlowIdle(flows[x], t) /\ Matches(flows[g], p[1], p[2])'
        BY <3>1, <3>5 DEF Active
      <4>2. Matches(flows[x], p[1], p[2])
        BY <2>2, <2>4, <4>1, MatchesBefore DEF IInv, Tables
      <4>3. p[1] \in [addr : Addr, port : Port] /\ p[2] \in [addr : Addr, port : Port]
        BY <3>5, DataAssumption
      <4>4. Matches(flows[g], p[1], p[2])'
        BY <4>1
      <4>5. \/ /\ p[1].addr = src.addr /\ p[1].port = src.port
               /\ p[2].addr = dst.addr /\ p[2].port = dst.port
            \/ /\ p[1].addr = dst.addr /\ p[1].port = dst.port
               /\ p[2].addr = src.addr /\ p[2].port = src.port
        BY <3>2, <3>3, <4>4 DEF Matches, Between
      <4>6. Matches(flows[x], src, dst)
        BY <4>2, <4>5 DEF Matches, Between
      <4> QED BY <3>4, <4>1, <4>6 DEF Active
    <3>6. OneFlow'
      <4>1. SUFFICES ASSUME NEW p \in Tuples, NEW x \in Active(p[1], p[2], lastPkt)',
                            NEW y \in Active(p[1], p[2], lastPkt)', x # y
                     PROVE  FALSE
        BY DEF OneFlow
      <4>2. CASE x \in DOMAIN flows /\ y \in DOMAIN flows
        <5>1. ASSUME NEW z \in DOMAIN flows, z \in Active(p[1], p[2], lastPkt)'
              PROVE  z \in Active(p[1], p[2], lastPkt)
          <6>1. z \in DOMAIN flows \cap DOMAIN flows' /\ Matches(flows[z], p[1], p[2])'
                /\ ~FlowIdle(flows'[z], lastPkt')
            BY <5>1 DEF Active
          <6>2. Matches(flows[z], p[1], p[2])
            BY <2>2, <2>4, <6>1, MatchesBefore DEF IInv, Tables
          <6> QED BY <2>2, <6>1, <6>2 DEF Active, FlowsKept
        <5> QED BY <4>1, <4>2, <5>1 DEF ActiveInv, OneFlow
      <4>3. x \in DOMAIN flows' /\ y \in DOMAIN flows'
        BY <4>1 DEF Active
      <4> QED BY <3>1, <3>5, <4>1, <4>2, <4>3
    <3>7. FlowInItsBucket'
      <4>1. SUFFICES ASSUME NEW x \in DOMAIN flows',
                            flows'[x].cli \in DOMAIN hosts', flows'[x].srv \in DOMAIN hosts'
                     PROVE  flows'[x].key = hosts'[flows'[x].cli].addr + hosts'[flows'[x].srv].addr
                                            + flows'[x].cport + flows'[x].sport
        BY DEF FlowInItsBucket
      <4>2. CASE x \in DOMAIN flows
        BY <2>2, <2>4, <4>1, <4>2, KeepsBuckets DEF ActiveInv
      <4>3. CASE x = g
        <5>1. s # NoHost /\ d # NoHost
          BY <3>2, <4>1, <4>3, ObjectsAssumption DEF IInv, Tables
        <5>2. /\ src.addr \in Nat /\ dst.addr \in Nat /\ src.port \in Nat /\ dst.port \in Nat
          BY <1>2, DataAssumption
        <5> QED BY <3>2, <3>3, <4>3, <5>1, <5>2 DEF FlowKey
      <4> QED BY <3>1, <4>2, <4>3
    <3> QED BY <3>6, <3>7
  <2> QED BY <2>1, <2>2, <2>4, <2>5, <2>6, <2>7 DEF NewRows, ActiveInv
<1> QED BY <1>3, <1>4 DEF Classify

\* Freeing flows gives uses back to hosts that had some, so an unused host stays idle.
LEMMA DeleteFlowsKeeps ==
  ASSUME NoWrap, IInv, NEW gone \in SUBSET DOMAIN flows, DeleteFlows(gone), lastPkt' = lastPkt
  PROVE  FlowsKept /\ HostsKept /\ DOMAIN flows' \subseteq DOMAIN flows /\ DOMAIN hosts' = DOMAIN hosts
<1>1. /\ DOMAIN flows' \subseteq DOMAIN flows /\ DOMAIN hosts' = DOMAIN hosts
      /\ \A f \in DOMAIN flows' : flows'[f] = flows[f]
      /\ \A h \in DOMAIN hosts : hosts'[h] = DecUses(hosts[h], EndsAt(Rows(flows, gone), h))
  BY DEF DeleteFlows, Rows
<1>2. FlowsKept
  BY <1>1 DEF FlowsKept
<1>3. ASSUME NEW h \in DOMAIN hosts
      PROVE  /\ hosts'[h].addr = hosts[h].addr
             /\ HostIdle(hosts[h], lastPkt) => HostIdle(hosts'[h], lastPkt)
  <2>1. hosts[h] \in HostRec /\ hosts[h].uses = EndsAt(flows, h)
    BY DEF IInv, Tables, UsesExact
  <2>2. ASSUME HostIdle(hosts[h], lastPkt) PROVE EndsAt(Rows(flows, gone), h) = 0
    <3>1. \A f \in DOMAIN flows : h \notin {flows[f].cli, flows[f].srv}
      BY <2>1, <2>2, EndsAtZero DEF HostIdle, IInv, Tables
    <3>2. IsFiniteSet(DOMAIN Rows(flows, gone)) /\ DOMAIN Rows(flows, gone) = gone
      BY FS_Subset DEF Rows, IInv, Tables
    <3>3. \A f \in gone : h \notin {Rows(flows, gone)[f].cli, Rows(flows, gone)[f].srv}
      BY <3>1 DEF Rows
    <3> QED BY <3>2, <3>3, EndsAtZero
  <2>3. (0 - 0) % UsesMod = 0
    BY ModSmall, LimitsAssumption
  <2> QED BY <1>1, <2>1, <2>2, <2>3 DEF DecUses, HostIdle, IsIdle, HostRec
<1>4. HostsKept
  BY <1>1, <1>3 DEF HostsKept
<1> QED BY <1>1, <1>2, <1>4

\* The walk credits traffic to hosts that flows use: none of them is idle.
LEMMA UpdateHostStatsKeeps ==
  ASSUME IInv, UpdateHostStats
  PROVE  FlowsKept /\ HostsKept /\ DOMAIN flows' = DOMAIN flows /\ DOMAIN hosts' = DOMAIN hosts
<1>1. PICK busy :
        /\ \A h \in busy : \E f \in DOMAIN flows : h \in {flows[f].cli, flows[f].srv}
        /\ hosts' = [h \in DOMAIN hosts |->
                       [hosts[h] EXCEPT !.seen = IF h \in busy THEN lastPkt ELSE @]]
  BY DEF UpdateHostStats
<1>2. lastPkt' = lastPkt /\ DOMAIN flows' = DOMAIN flows
      /\ \A f \in DOMAIN flows : \E b : flows'[f] = [flows[f] EXCEPT !.pending = b]
  BY DEF UpdateHostStats
<1>3. FlowsKept
  <2>1. ASSUME NEW f \in DOMAIN flows, NEW b, flows'[f] = [flows[f] EXCEPT !.pending = b]
        PROVE  /\ flows'[f].cli = flows[f].cli /\ flows'[f].srv = flows[f].srv
               /\ flows'[f].cport = flows[f].cport /\ flows'[f].sport = flows[f].sport
               /\ flows'[f].key = flows[f].key
               /\ flows'[f].seen = flows[f].seen /\ flows'[f].fin = flows[f].fin
    BY <2>1 DEF IInv, Tables, FlowRec
  <2> QED BY <1>2, <2>1 DEF FlowsKept, FlowIdle, IsIdle
<1>4. ASSUME NEW h \in DOMAIN hosts
      PROVE  /\ hosts'[h].addr = hosts[h].addr
             /\ HostIdle(hosts[h], lastPkt) => hosts'[h] = hosts[h]
  <2>1. hosts[h] \in HostRec
    BY DEF IInv, Tables
  <2>2. HostIdle(hosts[h], lastPkt) => h \notin busy
    <3>1. SUFFICES ASSUME hosts[h].uses = 0 PROVE h \notin busy
      BY DEF HostIdle
    <3>2. EndsAt(flows, h) = 0
      BY <3>1 DEF IInv, Tables, UsesExact
    <3>3. \A f \in DOMAIN flows : h \notin {flows[f].cli, flows[f].srv}
      BY <3>2, EndsAtZero DEF IInv, Tables
    <3> QED BY <1>1, <3>3
  <2> QED BY <1>1, <2>1, <2>2 DEF HostRec
<1>5. HostsKept
  BY <1>1, <1>2, <1>4 DEF HostsKept
<1> QED BY <1>1, <1>2, <1>3, <1>5

\* A reset is the one step that turns the clock back.
StepKeeps ==
  /\ stage' # "cleanup_hosts" => FlowsKept /\ HostsKept
  /\ ActiveInv'

LEMMA AtTime ==
  ASSUME IInv, NEW t \in Times
  PROVE  t \in Nat /\ lastPkt \in Nat
<1>1. lastPkt \in Nat
  BY DEF IInv, Scalars
<1>2. t \in Nat
  BY TimesAssumption DEF Times
<1> QED BY <1>1, <1>2

LEMMA CaptureKeeps ==
  ASSUME NoWrap, InOrder, IInv, IInv', ActiveInv,
         NEW tuple \in Tuples, NEW t \in Times, NEW fin \in BOOLEAN,
         PacketDissector(tuple, t, fin) \/ FlowProcessing(tuple, t, fin)
  PROVE  StepKeeps
<1>1. t \in Nat /\ lastPkt \in Nat /\ t >= lastPkt
  <2>1. NotEarlier(t)
    BY DEF PacketDissector, FlowProcessing
  <2> QED BY <2>1, AtTime DEF NotEarlier
<1>2. stage = "poll" /\ lastPkt' = t /\ Classify(tuple[1], tuple[2], t, t, fin)
  <2>1. CASE PacketDissector(tuple, t, fin)
    BY <2>1 DEF PacketDissector, StartPurge
  <2>2. CASE FlowProcessing(tuple, t, fin)
    <3> DEFINE now == IF t > lastPkt THEN t ELSE lastPkt
    <3>1. now = t
      BY <1>1
    <3>2. /\ Classify(tuple[1], tuple[2], now, t, fin)
          /\ lastPkt' = now \/ StartPurge(now, t)
          /\ stage = "poll"
      BY <2>2 DEF FlowProcessing
    <3> HIDE DEF now
    <3> QED BY <3>1, <3>2 DEF StartPurge
  <2> QED BY <2>1, <2>2
<1> QED BY <1>1, <1>2, ClassifyKeeps DEF StepKeeps

\* A step that leaves the rows as they are, while the clock may go on.
LEMMA QuietKeeps ==
  ASSUME IInv, IInv', ActiveInv, UNCHANGED <<flows, hosts>>, lastPkt' >= lastPkt,
         stage # "cleanup_hosts" \/ stage' = "cleanup_hosts"
  PROVE  StepKeeps
<1>1. lastPkt \in Nat /\ lastPkt' \in Nat /\ lastPkt <= lastPkt'
  BY DEF IInv, Scalars
<1>2. FlowsKept
  BY <1>1, FlowIdleLater DEF FlowsKept, IInv, Tables
<1>3. HostsKept
  BY <1>1, HostIdleLater DEF HostsKept, IInv, Tables
<1> QED BY <1>2, <1>3, KeepsActive DEF StepKeeps

LEMMA IdlePollKeeps ==
  ASSUME InOrder, IInv, IInv', ActiveInv, NEW t \in Times, IdlePoll(t)
  PROVE  StepKeeps
<1>1. t \in Nat /\ lastPkt \in Nat /\ t >= lastPkt
  <2>1. NotEarlier(t)
    BY DEF IdlePoll
  <2> QED BY <2>1, AtTime DEF NotEarlier
<1>2. lastPkt' >= lastPkt /\ UNCHANGED <<flows, hosts>> /\ stage # "cleanup_hosts"
  BY <1>1 DEF IdlePoll, StartPurge
<1> QED BY <1>2, QuietKeeps

LEMMA SweepsKeep ==
  ASSUME NoWrap, IInv, IInv', ActiveInv, PurgeIdleFlows \/ PurgeIdleHosts
  PROVE  StepKeeps
<1>1. lastPkt' = lastPkt /\ stage # "cleanup_hosts" /\ lastPkt \in Nat
  BY DEF PurgeIdleFlows, PurgeIdleHosts, IInv, Scalars
<1>2. CASE UNCHANGED <<flows, hosts>>
  BY <1>1, <1>2, QuietKeeps
<1>3. CASE PurgeIdleFlows /\ nextFlowPurge # 0 /\ lastPkt >= nextFlowPurge
  <2>1. PICK gone \in SUBSET DOMAIN flows : DeleteFlows(gone)
    BY <1>3 DEF PurgeIdleFlows, IInv, Scalars
  <2>2. /\ FlowsKept /\ HostsKept
        /\ DOMAIN flows' \subseteq DOMAIN flows /\ DOMAIN hosts' = DOMAIN hosts
    BY <1>1, <2>1, DeleteFlowsKeeps
  <2> QED BY <1>1, <2>2, KeepsActive DEF StepKeeps
<1>4. CASE PurgeIdleHosts /\ nextHostPurge # 0 /\ lastPkt >= nextHostPurge
  <2>1. /\ DOMAIN hosts' \subseteq DOMAIN hosts /\ \A h \in DOMAIN hosts' : hosts'[h] = hosts[h]
        /\ flows' = flows
    BY <1>4 DEF PurgeIdleHosts, Rows, IInv, Scalars
  <2>2. FlowsKept /\ HostsKept
    BY <1>1, <2>1 DEF FlowsKept, HostsKept
  <2> QED BY <1>1, <2>1, <2>2, KeepsActive DEF StepKeeps
<1> QED BY <1>2, <1>3, <1>4 DEF PurgeIdleFlows, PurgeIdleHosts

LEMMA OthersKeep ==
  ASSUME NoWrap, IInv, IInv', ActiveInv,
         \/ \E addr \in Restorable : RestoreHost(addr)
         \/ UpdateHostStats \/ CleanupFlows \/ CleanupHosts
  PROVE  StepKeeps
<1>1. ASSUME NEW addr \in Restorable, RestoreHost(addr) PROVE StepKeeps
  <2>1. /\ flows' = flows /\ lastPkt' = lastPkt /\ stage' = stage
        /\ \A h \in DOMAIN hosts : hosts'[h] = hosts[h]
        /\ \A h \in DOMAIN hosts' \ DOMAIN hosts : hosts'[h].addr = addr
    BY <1>1 DEF RestoreHost, NewHost, IInv, Tables
  <2>2. FlowsKept /\ HostsKept
    BY <2>1 DEF FlowsKept, HostsKept
  <2> QED BY <2>1, <2>2, KeepsActive DEF StepKeeps
<1>2. ASSUME UpdateHostStats PROVE StepKeeps
  <2>1. stage' = stage /\ stage # "cleanup_hosts"
    BY <1>2 DEF UpdateHostStats, IInv, Scalars
  <2> QED BY <1>2, <2>1, UpdateHostStatsKeeps, KeepsActive DEF StepKeeps
<1>3. ASSUME CleanupFlows PROVE StepKeeps
  <2>1. DOMAIN flows' = {} /\ stage' = "cleanup_hosts"
    BY <1>3 DEF CleanupFlows, DeleteFlows, Rows
  <2> QED BY <2>1 DEF StepKeeps, ActiveInv, OneHost, OneFlow, FlowInItsBucket, Active
<1>4. ASSUME CleanupHosts PROVE StepKeeps
  <2>1. DOMAIN flows = {} /\ flows' = flows /\ DOMAIN hosts' = {}
    BY <1>4 DEF CleanupHosts, EmptyTable, IInv, Scalars
  <2> QED BY <2>1 DEF StepKeeps, ActiveInv, OneHost, OneFlow, FlowInItsBucket, Active,
                      FlowsKept, HostsKept
<1> QED BY <1>1, <1>2, <1>3, <1>4

LEMMA NextKeeps ==
  ASSUME NoWrap, InOrder, IInv, IInv', ActiveInv, [Next]_vars
  PROVE  StepKeeps
<1>1. CASE UNCHANGED vars
  <2>1. UNCHANGED <<flows, hosts>> /\ lastPkt' >= lastPkt /\ stage' = stage
    BY <1>1 DEF vars, IInv, Scalars
  <2> QED BY <2>1, QuietKeeps
<1>2. CASE Next
  BY <1>2, CaptureKeeps, IdlePollKeeps, SweepsKeep, OthersKeep DEF Next
<1> QED BY <1>1, <1>2

LEMMA InitActive == Init => ActiveInv
BY DEF Init, EmptyTable, ActiveInv, OneHost, OneFlow, FlowInItsBucket, Active

\* Time that does not go back keeps one active host and one active flow for each address
\* and conversation: an invariant beside IInv.
THEOREM ActiveInvariance == ASSUME NoWrap, InOrder PROVE Spec => []ActiveInv
<1>1. Init => ActiveInv
  BY InitActive
<1>2. IInv /\ IInv' /\ ActiveInv /\ [Next]_vars => ActiveInv'
  BY NextKeeps DEF StepKeeps
<1> QED BY <1>1, <1>2, Invariance, PTL DEF Spec

LEMMA AtMostOne == ASSUME NEW S, \A a, b \in S : a = b PROVE Cardinality(S) <= 1
<1>1. CASE S = {}
  BY <1>1, FS_EmptySet
<1>2. CASE S # {}
  <2>1. PICK a \in S : S = {a}
    BY <1>2
  <2> QED BY <2>1, FS_Singleton
<1> QED BY <1>1, <1>2

\* While time does not go back no two active flows of the table match one packet, for
\* tables of any size: a flow found in its bucket is the only one there is.
THEOREM ConversationsHaveOneFlow ==
  ASSUME NoWrap, InOrder PROVE Spec => []OneActiveFlow
<1>1. ActiveInv => OneActiveFlow
  BY AtMostOne DEF ActiveInv, OneFlow, OneActiveFlow
<1> QED BY <1>1, ActiveInvariance, PTL

\* While time does not go back an address that the user interface does not restore has
\* one active host.
THEOREM AddressesHaveOneHost ==
  ASSUME NoWrap, InOrder PROVE Spec => []OneActiveHost
<1>1. ActiveInv => OneActiveHost
  <2>1. SUFFICES ASSUME ActiveInv, stage # "cleanup_hosts", NEW addr \in Addr \ Restorable
                 PROVE  \A a, b \in GetHost(addr, lastPkt) : a = b
    BY AtMostOne DEF OneActiveHost
  <2> QED BY <2>1 DEF ActiveInv, OneHost, SameHost, GetHost
<1> QED BY <1>1, ActiveInvariance, PTL

\* While time does not go back no flow and no host that lookups skip becomes active again,
\* except by a reset, which turns the clock of the interface back.
THEOREM IdleStaysIdle ==
  ASSUME NoWrap, InOrder PROVE Spec => NeverRevived
<1> DEFINE A == stage' # "cleanup_hosts" =>
                  /\ \A f \in DOMAIN flows \cap DOMAIN flows' :
                       FlowIdle(flows[f], lastPkt) => FlowIdle(flows'[f], lastPkt')
                  /\ \A h \in DOMAIN hosts \cap DOMAIN hosts' :
                       HostIdle(hosts[h], lastPkt) => HostIdle(hosts'[h], lastPkt')
<1>1. IInv /\ IInv' /\ ActiveInv /\ [Next]_vars => [A]_vars
  BY NextKeeps DEF StepKeeps, FlowsKept, HostsKept
<1> HIDE DEF A
<1>2. Spec => [][A]_vars
  BY <1>1, Invariance, ActiveInvariance, PTL DEF Spec
<1> QED BY <1>2 DEF A, NeverRevived
===============================================================================
