---------------------------- MODULE PlumberProofs ----------------------------
(* Proofs about the plumber for every value of the constants: its type      *)
(* invariant.                                                                *)
EXTENDS Plumber, TLAPS, FiniteSetTheorems

\* The scopes, the host and the workers, are finitely many.
LEMMA ScopesFinite == IsFiniteSet(Scopes)
BY ConstantsAssumption, FS_Singleton, FS_Union DEF Scopes

\* A count of scopes is a natural number.
LEMMA ScopeCount ==
    ASSUME NEW S \in SUBSET Scopes
    PROVE  Cardinality(S) \in Nat
BY ScopesFinite, FS_Subset, FS_CardinalityType

\* The four parts of Plumber::ingest keep their types.
LEMMA AdmitTypes ==
    ASSUME NEW act \in [Scopes -> SUBSET Sigs],
           NEW mb \in [Scopes -> [Sigs -> Nat]],
           NEW ev \in [Events -> Nat],
           NEW bk \in SUBSET Workers,
           NEW cnt \in [Scopes -> [Sigs -> Nat]]
    PROVE  /\ AdmitActors(act, cnt) \in [Scopes -> SUBSET Sigs]
           /\ AdmitMailbox(mb, cnt) \in [Scopes -> [Sigs -> Nat]]
           /\ AdmitEvents(ev, cnt) \in [Events -> Nat]
           /\ AdmitBuckets(bk, cnt) \subseteq Workers
<1>1. AdmitActors(act, cnt) \in [Scopes -> SUBSET Sigs]
  BY DEF AdmitActors
<1>2. AdmitMailbox(mb, cnt) \in [Scopes -> [Sigs -> Nat]]
  BY DEF AdmitMailbox
<1>3. AdmitEvents(ev, cnt) \in [Events -> Nat]
  <2>1. ASSUME NEW e \in Events
        PROVE  e.scope \in Scopes /\ e.sig \in Sigs
    BY DEF Events
  <2>. QED
    BY <2>1 DEF AdmitEvents
<1>4. AdmitBuckets(bk, cnt) \subseteq Workers
  BY DEF AdmitBuckets
<1>. QED
  BY <1>1, <1>2, <1>3, <1>4

\* Each local next peer is counted once per scope that routed to it.
LEMMA LocalEffectsType ==
    LocalEffects \in [Scopes -> [Sigs -> Nat]]
BY ScopeCount DEF LocalEffects

LEMMA RemoteEffectsType ==
    RemoteEffects \in [Events -> Nat]
BY Zenon DEF RemoteEffects

LEMMA InitTypeOK == Init => TypeOK
BY ConstantsAssumption DEF Init, TypeOK, VmIds, PoolSize, Scopes, ExecStates, NoVm

LEMMA IngestTypeOK ==
    ASSUME TypeOK, NEW k \in Sigs, NEW s \in Scopes, Ingest(k, s)
    PROVE  TypeOK'
<1> DEFINE one == [r \in Scopes |-> [j \in Sigs |-> IF r = s /\ j = k THEN 1 ELSE 0]]
<1>1. one \in [Scopes -> [Sigs -> Nat]]
  OBVIOUS
<1>2. /\ actors' = AdmitActors(actors, one)
      /\ mailbox' = AdmitMailbox(mailbox, one)
      /\ events' = AdmitEvents(events, one)
      /\ buckets' = AdmitBuckets(buckets, one)
      /\ ingests' = ingests + 1
      /\ ingests < MaxIngests
      /\ woken' = (woken \/ Wakes(k, s))
      /\ UNCHANGED <<clock, exec, vm, peers, pooled, everPooled, free,
                     pending, built, started, cleanupFuture, submitted, hops>>
  BY DEF Ingest
<1>3. /\ AdmitActors(actors, one) \in [Scopes -> SUBSET Sigs]
      /\ AdmitMailbox(mailbox, one) \in [Scopes -> [Sigs -> Nat]]
      /\ AdmitEvents(events, one) \in [Events -> Nat]
      /\ AdmitBuckets(buckets, one) \subseteq Workers
  BY <1>1, AdmitTypes DEF TypeOK
<1>4. ingests' \in 0..MaxIngests
  BY <1>2, ConstantsAssumption DEF TypeOK
<1>. QED
  BY <1>2, <1>3, <1>4 DEF TypeOK, Wakes

\* The scopes with a VM pool are scopes.
LEMMA PoolScopesType ==
    ASSUME TypeOK
    PROVE  PoolScopes \subseteq Scopes
BY DEF TypeOK, PoolScopes, Scopes

LEMMA CreateWorkerPoolTypeOK ==
    ASSUME TypeOK, NEW w \in Workers, CreateWorkerPool(w)
    PROVE  TypeOK'
BY ConstantsAssumption DEF CreateWorkerPool, TypeOK, VmIds, PoolSize, Scopes

LEMMA RemoveWorkerPoolTypeOK ==
    ASSUME TypeOK, NEW w \in Workers, RemoveWorkerPool(w)
    PROVE  TypeOK'
BY DEF RemoveWorkerPool, TypeOK, Scopes

LEMMA PollEventTypeOK ==
    ASSUME TypeOK, PollEvent
    PROVE  TypeOK'
BY PoolScopesType DEF PollEvent, TypeOK, PolledFree, PolledPending, NoneBuilt

LEMMA AvmCompleteTypeOK ==
    ASSUME TypeOK, NEW s \in Scopes, NEW k \in Sigs, AvmComplete(s, k)
    PROVE  TypeOK'
<1>1. CASE \E p \in SUBSET Targets :
             /\ hops + Cardinality(p \cap Scopes) <= MaxHops
             /\ hops' = hops + Cardinality(p \cap Scopes)
             /\ exec' = [exec EXCEPT ![s][k] = "done"]
             /\ peers' = [peers EXCEPT ![s][k] = p]
  <2>1. PICK p \in SUBSET Targets :
             /\ hops + Cardinality(p \cap Scopes) <= MaxHops
             /\ hops' = hops + Cardinality(p \cap Scopes)
             /\ exec' = [exec EXCEPT ![s][k] = "done"]
             /\ peers' = [peers EXCEPT ![s][k] = p]
    BY <1>1
  <2>2. Cardinality(p \cap Scopes) \in Nat
    BY ScopeCount
  <2>. QED
    BY <2>1, <2>2, ConstantsAssumption DEF AvmComplete, TypeOK, ExecStates
<1>2. CASE /\ exec' = [exec EXCEPT ![s][k] = "lost"]
           /\ UNCHANGED <<peers, hops>>
  BY <1>2 DEF AvmComplete, TypeOK, ExecStates
<1>. QED
  BY <1>1, <1>2 DEF AvmComplete

LEMMA VmBuiltTypeOK ==
    ASSUME TypeOK, NEW s \in Scopes, NEW id \in VmIds(s), VmBuilt(s, id)
    PROVE  TypeOK'
BY ConstantsAssumption DEF VmBuilt, TypeOK, VmIds, PoolSize

LEMMA CleanupDoneTypeOK ==
    ASSUME TypeOK, CleanupDone
    PROVE  TypeOK'
BY DEF CleanupDone, TypeOK

LEMMA TickTypeOK ==
    ASSUME TypeOK, Tick
    PROVE  TypeOK'
BY ConstantsAssumption DEF Tick, TypeOK


\* The pools and actors after poll_pools and poll_actors keep their types.
LEMMA HarvestTypes ==
    ASSUME TypeOK
    PROVE  /\ HarvestedFree \in [Scopes -> SUBSET Nat]
           /\ HarvestedPending \in [Scopes -> SUBSET Nat]
           /\ HarvestedExec \in [Scopes -> [Sigs -> ExecStates]]
           /\ CleanupPolled \subseteq {"none", "created", "running", "ready"}
<1>1. \A s \in Scopes : Returned(s) \subseteq Nat /\ Recreated(s) \subseteq Nat
  BY DEF TypeOK, Returned, Recreated, Harvested
<1>2. HarvestedFree \in [Scopes -> SUBSET Nat]
  BY <1>1 DEF TypeOK, HarvestedFree, PolledFree
<1>3. HarvestedPending \in [Scopes -> SUBSET Nat]
  BY <1>1 DEF TypeOK, HarvestedPending, PolledPending
<1>4. HarvestedExec \in [Scopes -> [Sigs -> ExecStates]]
  BY DEF TypeOK, HarvestedExec, ExecStates
<1>5. CleanupPolled \subseteq {"none", "created", "running", "ready"}
  BY DEF TypeOK, CleanupPolled
<1>. QED
  BY <1>2, <1>3, <1>4, <1>5

\* Cleanup takes actors out of the maps and keeps their types.
LEMMA CleanedTypes ==
    ASSUME TypeOK, NEW R, NEW c
    PROVE  /\ CleanedActors(R) \in [Scopes -> SUBSET Sigs]
           /\ CleanedMailbox(R) \in [Scopes -> [Sigs -> Nat]]
           /\ CleanedBuckets(R, c) \subseteq Workers
BY DEF TypeOK, CleanedActors, CleanedMailbox, CleanedBuckets, Gone

\* An actor poll_next starts has a particle in its mailbox and is handed a
\* VM id.
LEMMA StartedFacts ==
    ASSUME TypeOK, NEW R, NEW s \in Scopes, NEW f \in StartOptions(R, s),
           NEW k \in Sigs, f[k] # NoVm
    PROVE  /\ CleanedMailbox(R)[s][k] > 0
           /\ f[k] \in Nat
<1>1. k \in ReadyActors(CleanedActors(R), HarvestedExec, CleanedMailbox(R), s)
  BY DEF StartOptions, Starts
<1>2. CleanedMailbox(R)[s][k] > 0
  BY <1>1 DEF ReadyActors
<1>3. f[k] \in HarvestedFree[s]
  BY DEF StartOptions, NoVm
<1>. QED
  BY <1>2, <1>3, HarvestTypes

LEMMA PollTickTypeOK ==
    ASSUME TypeOK, PollTick
    PROVE  TypeOK'
<1>0. PICK c \in CleanupPolled : \E R \in SUBSET Eligible(c) :
        /\ CleanupSelection(R, Eligible(c))
        /\ \E v \in [Scopes -> UNION {StartOptions(R, s) : s \in Scopes}] :
              /\ \A s \in Scopes : v[s] \in StartOptions(R, s)
              /\ exec' = [s \in Scopes |-> [k \in Sigs |->
                           IF k \in Started(v, s) THEN "running"
                           ELSE HarvestedExec[s][k]]]
              /\ vm' = [s \in Scopes |-> [k \in Sigs |->
                         IF k \in Started(v, s) THEN v[s][k]
                         ELSE IF k \in Harvested(s) \/ k \in Gone(R, s) THEN NoVm
                         ELSE vm[s][k]]]
              /\ peers' = [s \in Scopes |-> [k \in Sigs |->
                            IF k \in Harvested(s) THEN {} ELSE peers[s][k]]]
              /\ free' = [s \in Scopes |->
                            HarvestedFree[s] \ {v[s][k] : k \in Started(v, s)}]
              /\ pending' = HarvestedPending
              /\ built' = NoneBuilt
              /\ cleanupFuture' = IF R # {} THEN "created" ELSE c
              /\ submitted' = [s \in Scopes |-> [k \in Sigs |->
                                submitted[s][k] + IF k \in Gone(R, s) THEN 1 ELSE 0]]
              /\ actors' = AdmitActors(CleanedActors(R), LocalEffects)
              /\ mailbox' = AdmitMailbox(
                              [s \in Scopes |-> [k \in Sigs |->
                                 IF k \in Started(v, s)
                                 THEN CleanedMailbox(R)[s][k] - 1
                                 ELSE CleanedMailbox(R)[s][k]]],
                              LocalEffects)
              /\ buckets' = AdmitBuckets(CleanedBuckets(R, c), LocalEffects)
              /\ events' = AdmitEvents(RemoteEffects, LocalEffects)
  BY DEF PollTick
<1>1. PICK R \in SUBSET Eligible(c) :
        /\ CleanupSelection(R, Eligible(c))
        /\ \E v \in [Scopes -> UNION {StartOptions(R, s) : s \in Scopes}] :
              /\ \A s \in Scopes : v[s] \in StartOptions(R, s)
              /\ exec' = [s \in Scopes |-> [k \in Sigs |->
                           IF k \in Started(v, s) THEN "running"
                           ELSE HarvestedExec[s][k]]]
              /\ vm' = [s \in Scopes |-> [k \in Sigs |->
                         IF k \in Started(v, s) THEN v[s][k]
                         ELSE IF k \in Harvested(s) \/ k \in Gone(R, s) THEN NoVm
                         ELSE vm[s][k]]]
              /\ peers' = [s \in Scopes |-> [k \in Sigs |->
                            IF k \in Harvested(s) THEN {} ELSE peers[s][k]]]
              /\ free' = [s \in Scopes |->
                            HarvestedFree[s] \ {v[s][k] : k \in Started(v, s)}]
              /\ pending' = HarvestedPending
              /\ built' = NoneBuilt
              /\ cleanupFuture' = IF R # {} THEN "created" ELSE c
              /\ submitted' = [s \in Scopes |-> [k \in Sigs |->
                                submitted[s][k] + IF k \in Gone(R, s) THEN 1 ELSE 0]]
              /\ actors' = AdmitActors(CleanedActors(R), LocalEffects)
              /\ mailbox' = AdmitMailbox(
                              [s \in Scopes |-> [k \in Sigs |->
                                 IF k \in Started(v, s)
                                 THEN CleanedMailbox(R)[s][k] - 1
                                 ELSE CleanedMailbox(R)[s][k]]],
                              LocalEffects)
              /\ buckets' = AdmitBuckets(CleanedBuckets(R, c), LocalEffects)
              /\ events' = AdmitEvents(RemoteEffects, LocalEffects)
  BY <1>0
<1>2. PICK v \in [Scopes -> UNION {StartOptions(R, s) : s \in Scopes}] :
              /\ \A s \in Scopes : v[s] \in StartOptions(R, s)
              /\ exec' = [s \in Scopes |-> [k \in Sigs |->
                           IF k \in Started(v, s) THEN "running"
                           ELSE HarvestedExec[s][k]]]
              /\ vm' = [s \in Scopes |-> [k \in Sigs |->
                         IF k \in Started(v, s) THEN v[s][k]
                         ELSE IF k \in Harvested(s) \/ k \in Gone(R, s) THEN NoVm
                         ELSE vm[s][k]]]
              /\ peers' = [s \in Scopes |-> [k \in Sigs |->
                            IF k \in Harvested(s) THEN {} ELSE peers[s][k]]]
              /\ free' = [s \in Scopes |->
                            HarvestedFree[s] \ {v[s][k] : k \in Started(v, s)}]
              /\ pending' = HarvestedPending
              /\ built' = NoneBuilt
              /\ cleanupFuture' = IF R # {} THEN "created" ELSE c
              /\ submitted' = [s \in Scopes |-> [k \in Sigs |->
                                submitted[s][k] + IF k \in Gone(R, s) THEN 1 ELSE 0]]
              /\ actors' = AdmitActors(CleanedActors(R), LocalEffects)
              /\ mailbox' = AdmitMailbox(
                              [s \in Scopes |-> [k \in Sigs |->
                                 IF k \in Started(v, s)
                                 THEN CleanedMailbox(R)[s][k] - 1
                                 ELSE CleanedMailbox(R)[s][k]]],
                              LocalEffects)
              /\ buckets' = AdmitBuckets(CleanedBuckets(R, c), LocalEffects)
              /\ events' = AdmitEvents(RemoteEffects, LocalEffects)
  BY <1>1
<1>3. ASSUME NEW s \in Scopes, NEW k \in Started(v, s)
      PROVE  /\ CleanedMailbox(R)[s][k] > 0
             /\ v[s][k] \in Nat
  BY <1>2, StartedFacts DEF Started
<1> DEFINE mb4 == [s \in Scopes |-> [k \in Sigs |->
                     IF k \in Started(v, s)
                     THEN CleanedMailbox(R)[s][k] - 1
                     ELSE CleanedMailbox(R)[s][k]]]
<1>4. mb4 \in [Scopes -> [Sigs -> Nat]]
  <2>1. CleanedMailbox(R) \in [Scopes -> [Sigs -> Nat]]
    BY CleanedTypes
  <2>. QED
    BY <2>1, <1>3 DEF mb4
<1>5. /\ actors' \in [Scopes -> SUBSET Sigs]
      /\ mailbox' \in [Scopes -> [Sigs -> Nat]]
      /\ buckets' \subseteq Workers
      /\ events' \in [Events -> Nat]
  BY <1>2, <1>4, CleanedTypes, AdmitTypes, LocalEffectsType, RemoteEffectsType
<1>6. /\ exec' \in [Scopes -> [Sigs -> ExecStates]]
      /\ vm' \in [Scopes -> [Sigs -> Nat]]
      /\ peers' \in [Scopes -> [Sigs -> SUBSET Targets]]
  BY <1>2, <1>3, HarvestTypes DEF TypeOK, ExecStates, NoVm
<1>7. /\ free' \in [Scopes -> SUBSET Nat]
      /\ pending' \in [Scopes -> SUBSET Nat]
      /\ built' \in [Scopes -> SUBSET Nat]
      /\ cleanupFuture' \in {"none", "created", "running", "ready"}
      /\ submitted' \in [Scopes -> [Sigs -> Nat]]
  BY <1>2, HarvestTypes DEF TypeOK, NoneBuilt
<1>8. /\ UNCHANGED <<clock, pooled, everPooled, ingests, hops>>
      /\ started' = PoolScopes
      /\ woken' = LocalWake
  BY DEF PollTick
<1>9. started' \subseteq Scopes /\ woken' \in BOOLEAN
  BY <1>8, PoolScopesType DEF LocalWake
<1>. QED
  BY <1>5, <1>6, <1>7, <1>8, <1>9 DEF TypeOK

\* Every step of the plumber, or a stutter, keeps the types.
LEMMA NextTypeOK == TypeOK /\ [Next]_vars => TypeOK'
<1> SUFFICES ASSUME TypeOK, [Next]_vars
             PROVE  TypeOK'
  OBVIOUS
<1>1. CASE \E k \in Sigs, s \in Scopes : Ingest(k, s)
  BY <1>1, IngestTypeOK
<1>2. CASE \E w \in Workers : CreateWorkerPool(w) \/ RemoveWorkerPool(w)
  BY <1>2, CreateWorkerPoolTypeOK, RemoveWorkerPoolTypeOK
<1>3. CASE Poll
  BY <1>3, PollEventTypeOK, PollTickTypeOK DEF Poll
<1>4. CASE \E s \in Scopes, k \in Sigs : AvmComplete(s, k)
  BY <1>4, AvmCompleteTypeOK
<1>5. CASE \E s \in Scopes : \E id \in VmIds(s) : VmBuilt(s, id)
  BY <1>5, VmBuiltTypeOK
<1>6. CASE CleanupDone
  BY <1>6, CleanupDoneTypeOK
<1>7. CASE Tick
  BY <1>7, TickTypeOK
<1>8. CASE UNCHANGED vars
  BY <1>8 DEF TypeOK, vars
<1>. QED
  BY <1>1, <1>2, <1>3, <1>4, <1>5, <1>6, <1>7, <1>8 DEF Next

\* Type correctness of the plumber.
THEOREM TypeCorrect == Spec => []TypeOK
BY InitTypeOK, NextTypeOK, PTL DEF Spec

=============================================================================
