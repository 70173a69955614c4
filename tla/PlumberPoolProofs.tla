-------------------------- MODULE PlumberPoolProofs --------------------------
(***************************************************************************)
(* Proof that every vm_id of a live VM pool is in exactly one place (spec  *)
(* 3, VmConservation) when create_worker_pool is called at most once per   *)
(* worker (~PoolRecreation; run plumber_pool_recreate shows the property   *)
(* fails otherwise).  The argument is one of set algebra per pool: a poll   *)
(* moves built VMs from pending to free, the VMs of harvested actors back   *)
(* to free or, when lost, to pending, and the VMs it hands out from free    *)
(* to the started actors.                                                   *)
(***************************************************************************)
EXTENDS PlumberProofs

\* The ids Ids of one pool are split between its free list F, its pending
\* creations P and the futures of the busy actors Bz, whose VMs vmf holds.
Conserved(F, P, Bz, vmf, Ids) ==
    /\ F \cap P = {}
    /\ \A k \in Bz : vmf[k] \notin F \cup P
    /\ \A k1, k2 \in Bz : k1 # k2 => vmf[k1] # vmf[k2]
    /\ F \cup P \cup {vmf[k] : k \in Bz} = Ids

\* The inductive invariant: besides the property, the creations that
\* finished are pending ones, and a worker that never had a pool has no
\* actor in flight (poll_next hands out no VM without a pool).
PoolInv ==
    /\ TypeOK
    /\ pooled \subseteq everPooled
    /\ \A w \in Workers \ everPooled : Busy(w) = {}
    /\ \A s \in PoolScopes : built[s] \subseteq pending[s]
    /\ \A s \in PoolScopes :
          Conserved(free[s], pending[s], Busy(s), vm[s], VmIds(s))

LEMMA ConservedIsVmConservation ==
    VmConservation <=>
        \A s \in PoolScopes :
            Conserved(free[s], pending[s], Busy(s), vm[s], VmIds(s))
BY DEF VmConservation, Conserved

\* A pool after poll_pools, poll_actors and poll_next: the built VMs Bt move
\* from pending to free, the VMs of the harvested actors Hd (finished) and Hl
\* (lost) to free and to pending, the VMs v of the started actors S from free
\* into their futures.
PoolAfterTick(F, P, Bt, Bz, vmf, Hd, Hl, S, v) ==
    [free    |-> (F \cup Bt \cup {vmf[j] : j \in Hd}) \ {v[k] : k \in S},
     pending |-> (P \ Bt) \cup {vmf[j] : j \in Hl},
     busy    |-> S \cup (Bz \ (Hd \cup Hl))]

\* One pool through poll_pools, poll_actors and poll_next.  Hd and Hl are
\* the harvested actors whose call finished and whose VM was lost, S the
\* actors started on VMs v drawn from the free list after the harvest.
LEMMA ConservedStep ==
    ASSUME NEW Ids, NEW F, NEW P, NEW Bt, NEW Bz, NEW vmf, NEW Hd, NEW Hl,
           NEW S, NEW v, NEW vmn,
           Conserved(F, P, Bz, vmf, Ids), Bt \subseteq P,
           Hd \subseteq Bz, Hl \subseteq Bz, Hd \cap Hl = {},
           S \cap (Bz \ (Hd \cup Hl)) = {},
           \A k \in S : v[k] \in F \cup Bt \cup {vmf[j] : j \in Hd},
           \A k1, k2 \in S : k1 # k2 => v[k1] # v[k2],
           \A k \in S : vmn[k] = v[k],
           \A k \in Bz \ (Hd \cup Hl \cup S) : vmn[k] = vmf[k]
    PROVE  LET new == PoolAfterTick(F, P, Bt, Bz, vmf, Hd, Hl, S, v)
           IN  Conserved(new.free, new.pending, new.busy, vmn, Ids)
<1> DEFINE HF == F \cup Bt \cup {vmf[j] : j \in Hd}
           HP == (P \ Bt) \cup {vmf[j] : j \in Hl}
           V == {v[k] : k \in S}
           Run == Bz \ (Hd \cup Hl)
<1>1. HF \cap HP = {}
  BY DEF Conserved
<1>2. \A k \in Run : vmf[k] \notin HF \cup HP
  BY DEF Conserved
<1>3. (HF \ V) \cap HP = {}
  BY <1>1
<1>4. \A k \in S \cup Run : vmn[k] \notin (HF \ V) \cup HP
  <2>1. \A k \in S : vmn[k] \notin (HF \ V) \cup HP
    BY <1>1
  <2>2. \A k \in Run : vmn[k] \notin (HF \ V) \cup HP
    BY <1>2
  <2>. QED
    BY <2>1, <2>2
<1>5. \A k1, k2 \in S \cup Run : k1 # k2 => vmn[k1] # vmn[k2]
  <2> SUFFICES ASSUME NEW k1 \in S \cup Run, NEW k2 \in S \cup Run, k1 # k2
               PROVE  vmn[k1] # vmn[k2]
    OBVIOUS
  <2>1. CASE k1 \in S /\ k2 \in S
    BY <2>1
  <2>2. CASE k1 \in S /\ k2 \in Run
    BY <2>2, <1>2
  <2>3. CASE k1 \in Run /\ k2 \in S
    BY <2>3, <1>2
  <2>4. CASE k1 \in Run /\ k2 \in Run
    BY <2>4 DEF Conserved
  <2>. QED
    BY <2>1, <2>2, <2>3, <2>4
<1>6. (HF \ V) \cup HP \cup {vmn[k] : k \in S \cup Run} = Ids
  <2>1. {vmn[k] : k \in S \cup Run} = V \cup {vmf[k] : k \in Run}
    OBVIOUS
  <2>2. V \subseteq HF
    OBVIOUS
  <2>3. HF \cup HP \cup {vmf[k] : k \in Run}
          = F \cup P \cup {vmf[k] : k \in Bz}
    OBVIOUS
  <2>. QED
    BY <2>1, <2>2, <2>3 DEF Conserved
<1>. QED
  BY <1>3, <1>4, <1>5, <1>6 DEF Conserved, PoolAfterTick

LEMMA InitPoolInv == Init => PoolInv
<1> SUFFICES ASSUME Init PROVE PoolInv
  OBVIOUS
<1>1. PoolScopes = {Host} /\ \A r \in Scopes : Busy(r) = {}
  BY DEF Init, PoolScopes, Busy
<1>2. Conserved(free[Host], pending[Host], Busy(Host), vm[Host], VmIds(Host))
  BY <1>1 DEF Init, Conserved, Scopes
<1>. QED
  BY <1>1, <1>2, InitTypeOK DEF Init, PoolInv, Scopes

\* Steps that touch neither the pools, the futures nor the VMs they hold.
LEMMA FramePoolInv ==
    ASSUME PoolInv, TypeOK',
           UNCHANGED <<pooled, everPooled, exec, vm, free, pending, built>>
    PROVE  PoolInv'
BY DEF PoolInv, PoolScopes, Busy

\* A pool scope is a scope.
LEMMA PoolScopesScopes ==
    ASSUME TypeOK
    PROVE  PoolScopes \subseteq Scopes
BY DEF TypeOK, PoolScopes, Scopes

\* A step that keeps the pools, the VMs and which actors are busy keeps the
\* invariant.
LEMMA BusyFramePoolInv ==
    ASSUME PoolInv, TypeOK',
           UNCHANGED <<pooled, everPooled, vm, free, pending, built>>,
           \A r \in Scopes : Busy(r)' = Busy(r)
    PROVE  PoolInv'
<1>1. PoolScopes' = PoolScopes /\ PoolScopes \subseteq Scopes
  BY PoolScopesScopes DEF PoolInv, PoolScopes
<1>2. \A w \in Workers \ everPooled' : Busy(w)' = {}
  BY DEF PoolInv, Scopes
<1>3. \A s \in PoolScopes' : built'[s] \subseteq pending'[s]
  BY <1>1 DEF PoolInv
<1>4. \A s \in PoolScopes' :
        Conserved(free'[s], pending'[s], Busy(s)', vm'[s], VmIds(s))
  BY <1>1 DEF PoolInv
<1>5. pooled' \subseteq everPooled'
  BY DEF PoolInv
<1>. QED
  BY <1>2, <1>3, <1>4, <1>5 DEF PoolInv

\* An AVM call that finishes keeps its VM: its actor stays busy until
\* poll_actors takes the future.
LEMMA AvmCompletePoolInv ==
    ASSUME PoolInv, TypeOK', NEW s0 \in Scopes, NEW k0 \in Sigs,
           AvmComplete(s0, k0)
    PROVE  PoolInv'
<1>1. exec[s0][k0] = "running"
      /\ \/ exec' = [exec EXCEPT ![s0][k0] = "done"]
         \/ exec' = [exec EXCEPT ![s0][k0] = "lost"]
  BY Zenon DEF AvmComplete
<1>2. \A r \in Scopes : Busy(r)' = Busy(r)
  <2>1. exec \in [Scopes -> [Sigs -> ExecStates]]
    BY DEF PoolInv, TypeOK
  <2>2. \A r \in Scopes, k \in Sigs : exec'[r][k] = "idle" <=> exec[r][k] = "idle"
    <3>1. CASE exec' = [exec EXCEPT ![s0][k0] = "done"]
      BY <1>1, <2>1, <3>1
    <3>2. CASE exec' = [exec EXCEPT ![s0][k0] = "lost"]
      BY <1>1, <2>1, <3>2
    <3>. QED
      BY <1>1, <3>1, <3>2
  <2>. QED
    BY <2>2 DEF Busy
<1>3. UNCHANGED <<pooled, everPooled, vm, free, pending, built>>
  BY DEF AvmComplete
<1>. QED
  BY <1>2, <1>3, BusyFramePoolInv

\* A VM whose creation finishes is still pending until poll_pools.
LEMMA VmBuiltPoolInv ==
    ASSUME PoolInv, TypeOK', NEW s0 \in Scopes, NEW id, VmBuilt(s0, id)
    PROVE  PoolInv'
<1>1. built' = [built EXCEPT ![s0] = @ \cup {id}] /\ id \in pending[s0]
      /\ UNCHANGED <<pooled, everPooled, exec, vm, free, pending>>
  BY DEF VmBuilt
<1>2. \A s \in PoolScopes' : built'[s] \subseteq pending'[s]
  BY <1>1, PoolScopesScopes DEF PoolInv, PoolScopes, TypeOK
<1>. QED
  BY <1>1, <1>2 DEF PoolInv, PoolScopes, Busy

\* poll_pools alone, when poll returns a queued event.
LEMMA PollEventPoolInv ==
    ASSUME PoolInv, TypeOK', PollEvent
    PROVE  PoolInv'
<1>1. UNCHANGED <<pooled, everPooled, exec, vm>>
  BY DEF PollEvent
<1>0. PoolScopes' = PoolScopes /\ PoolScopes \subseteq Scopes
  BY <1>1, PoolScopesScopes DEF PoolInv, PoolScopes
<1>2. ASSUME NEW s \in PoolScopes
      PROVE  Conserved(free'[s], pending'[s], Busy(s)', vm'[s], VmIds(s))
  <2>1. s \in Scopes /\ built[s] \subseteq pending[s]
        /\ Conserved(free[s], pending[s], Busy(s), vm[s], VmIds(s))
    BY <1>0 DEF PoolInv
  <2>2. free'[s] = free[s] \cup built[s] /\ pending'[s] = pending[s] \ built[s]
    BY <2>1 DEF PollEvent, PolledFree, PolledPending
  <2>3. Busy(s)' = Busy(s)
    BY <1>1 DEF Busy
  <2>. QED
    BY <1>1, <2>1, <2>2, <2>3 DEF Conserved
<1>3. \A s \in PoolScopes' : built'[s] \subseteq pending'[s]
  BY <1>0 DEF PollEvent, NoneBuilt
<1>4. \A w \in Workers \ everPooled' : Busy(w)' = {}
  BY <1>1 DEF PoolInv, Busy
<1>. QED
  BY <1>0, <1>1, <1>2, <1>3, <1>4 DEF PoolInv

\* remove_worker_pool drops a pool with its VMs; the rest stays.
LEMMA RemoveWorkerPoolInv ==
    ASSUME PoolInv, TypeOK', NEW w \in Workers, RemoveWorkerPool(w)
    PROVE  PoolInv'
<1>1. PoolScopes' = PoolScopes \ {w} /\ PoolScopes \subseteq Scopes
  BY PoolScopesScopes, ConstantsAssumption DEF RemoveWorkerPool, PoolScopes, PoolInv
<1>2. \A s \in PoolScopes \ {w} :
        free'[s] = free[s] /\ pending'[s] = pending[s] /\ built'[s] = built[s]
  BY <1>1 DEF RemoveWorkerPool, PoolInv, TypeOK
<1>3. UNCHANGED <<everPooled, exec, vm>>
  BY DEF RemoveWorkerPool
<1>4. \A s \in PoolScopes' : built'[s] \subseteq pending'[s]
  BY <1>1, <1>2 DEF PoolInv
<1>5. \A s \in PoolScopes' :
        Conserved(free'[s], pending'[s], Busy(s)', vm'[s], VmIds(s))
  BY <1>1, <1>2, <1>3 DEF PoolInv, Busy
<1>6. pooled' \subseteq everPooled' /\ \A v \in Workers \ everPooled' : Busy(v)' = {}
  BY <1>3 DEF RemoveWorkerPool, PoolInv, Busy
<1>. QED
  BY <1>4, <1>5, <1>6 DEF PoolInv

\* create_worker_pool, called once for a worker: the worker has no actor in
\* flight, and all ids of the new pool are pending creation.
LEMMA CreateWorkerPoolInv ==
    ASSUME ~PoolRecreation, PoolInv, TypeOK', NEW w \in Workers,
           CreateWorkerPool(w)
    PROVE  PoolInv'
<1>1. w \notin everPooled /\ w \notin pooled /\ Busy(w) = {}
  BY DEF CreateWorkerPool, PoolInv
<1>2. PoolScopes' = PoolScopes \cup {w} /\ w # Host /\ PoolScopes \subseteq Scopes
  BY PoolScopesScopes, ConstantsAssumption DEF CreateWorkerPool, PoolScopes, PoolInv
<1>3. UNCHANGED <<exec, vm>> /\ Busy(w)' = {}
  BY <1>1 DEF CreateWorkerPool, Busy
<1>4. free'[w] = {} /\ pending'[w] = VmIds(w) /\ built'[w] = {}
  BY DEF CreateWorkerPool, PoolInv, TypeOK, Scopes
<1>5. Conserved(free'[w], pending'[w], Busy(w)', vm'[w], VmIds(w))
  BY <1>3, <1>4 DEF Conserved
<1>6. \A s \in PoolScopes :
        free'[s] = free[s] /\ pending'[s] = pending[s] /\ built'[s] = built[s]
  BY <1>1, <1>2 DEF CreateWorkerPool, PoolInv, TypeOK, PoolScopes
<1>7. \A s \in PoolScopes' : built'[s] \subseteq pending'[s]
  BY <1>2, <1>4, <1>6 DEF PoolInv
<1>8. \A s \in PoolScopes' :
        Conserved(free'[s], pending'[s], Busy(s)', vm'[s], VmIds(s))
  <2> SUFFICES ASSUME NEW s \in PoolScopes'
               PROVE  Conserved(free'[s], pending'[s], Busy(s)', vm'[s], VmIds(s))
    OBVIOUS
  <2>1. CASE s = w
    BY <2>1, <1>5
  <2>2. CASE s # w
    <3>1. s \in PoolScopes /\ Busy(s)' = Busy(s)
      BY <2>2, <1>2, <1>3 DEF Busy
    <3>. QED
      BY <3>1, <1>3, <1>6 DEF PoolInv
  <2>. QED
    BY <2>1, <2>2
<1>9. pooled' \subseteq everPooled' /\ \A v \in Workers \ everPooled' : Busy(v)' = {}
  BY <1>3 DEF CreateWorkerPool, PoolInv, Busy
<1>. QED
  BY <1>7, <1>8, <1>9 DEF PoolInv

\* What poll_next may do with the VMs of scope s: the actors it starts are
\* idle once harvested, get distinct VMs of the free list after the harvest,
\* and there are none in a scope without a pool.
LEMMA StartsFacts ==
    ASSUME TypeOK, NEW R, NEW s \in Scopes, NEW f \in StartOptions(R, s)
    PROVE  /\ \A k \in {j \in Sigs : f[j] # NoVm} :
                 /\ f[k] \in HarvestedFree[s]
                 /\ HarvestedExec[s][k] = "idle"
           /\ \A k1, k2 \in {j \in Sigs : f[j] # NoVm} :
                 k1 # k2 => f[k1] # f[k2]
           /\ s \notin PoolScopes => {j \in Sigs : f[j] # NoVm} = {}
<1> DEFINE S == {j \in Sigs : f[j] # NoVm}
           ready == ReadyActors(CleanedActors(R), HarvestedExec, CleanedMailbox(R), s)
<1>1. Starts(f, s, ready, HarvestedFree[s])
  BY DEF StartOptions, ready
<1>2. S \subseteq ready /\ \A k \in S : f[k] \in HarvestedFree[s]
      /\ \A k1, k2 \in S : k1 # k2 => f[k1] # f[k2]
  BY <1>1 DEF Starts, S
<1>3. \A k \in S : HarvestedExec[s][k] = "idle"
  BY <1>2 DEF ready, ReadyActors
<1>4. ASSUME s \notin PoolScopes PROVE S = {}
  <2>1. Cardinality(S) = 0
    BY <1>1, <1>4 DEF Starts, S
  <2>2. IsFiniteSet(S)
    BY ConstantsAssumption, FS_Subset DEF S
  <2>. QED
    BY <2>1, <2>2, FS_EmptySet
<1>. QED
  BY <1>2, <1>3, <1>4 DEF S

\* The parts of a poll tick that move VMs, whichever actors cleanup takes
\* and poll_next starts.
LEMMA PollTickShape ==
    ASSUME PollTick
    PROVE  \E R \in SUBSET CleanupEligible(HarvestedExec) :
           \E v \in [Scopes -> UNION {StartOptions(R, s) : s \in Scopes}] :
              /\ \A s \in Scopes : v[s] \in StartOptions(R, s)
              /\ exec' = [s \in Scopes |-> [k \in Sigs |->
                           IF k \in Started(v, s) THEN "running"
                           ELSE HarvestedExec[s][k]]]
              /\ vm' = [s \in Scopes |-> [k \in Sigs |->
                         IF k \in Started(v, s) THEN v[s][k]
                         ELSE IF k \in Harvested(s) \/ k \in Gone(R, s) THEN NoVm
                         ELSE vm[s][k]]]
              /\ free' = [s \in Scopes |->
                            HarvestedFree[s] \ {v[s][k] : k \in Started(v, s)}]
              /\ pending' = HarvestedPending
              /\ built' = NoneBuilt
              /\ pooled' = pooled
              /\ everPooled' = everPooled
<1>1. PICK c \in CleanupPolled : \E R \in SUBSET Eligible(c) :
           \E v \in [Scopes -> UNION {StartOptions(R, s) : s \in Scopes}] :
              /\ \A s \in Scopes : v[s] \in StartOptions(R, s)
              /\ exec' = [s \in Scopes |-> [k \in Sigs |->
                           IF k \in Started(v, s) THEN "running"
                           ELSE HarvestedExec[s][k]]]
              /\ vm' = [s \in Scopes |-> [k \in Sigs |->
                         IF k \in Started(v, s) THEN v[s][k]
                         ELSE IF k \in Harvested(s) \/ k \in Gone(R, s) THEN NoVm
                         ELSE vm[s][k]]]
              /\ free' = [s \in Scopes |->
                            HarvestedFree[s] \ {v[s][k] : k \in Started(v, s)}]
              /\ pending' = HarvestedPending
              /\ built' = NoneBuilt
              /\ pooled' = pooled
              /\ everPooled' = everPooled
  BY Zenon DEF PollTick
<1>2. PICK R \in SUBSET Eligible(c) :
           \E v \in [Scopes -> UNION {StartOptions(R, s) : s \in Scopes}] :
              /\ \A s \in Scopes : v[s] \in StartOptions(R, s)
              /\ exec' = [s \in Scopes |-> [k \in Sigs |->
                           IF k \in Started(v, s) THEN "running"
                           ELSE HarvestedExec[s][k]]]
              /\ vm' = [s \in Scopes |-> [k \in Sigs |->
                         IF k \in Started(v, s) THEN v[s][k]
                         ELSE IF k \in Harvested(s) \/ k \in Gone(R, s) THEN NoVm
                         ELSE vm[s][k]]]
              /\ free' = [s \in Scopes |->
                            HarvestedFree[s] \ {v[s][k] : k \in Started(v, s)}]
              /\ pending' = HarvestedPending
              /\ built' = NoneBuilt
              /\ pooled' = pooled
              /\ everPooled' = everPooled
  BY <1>1
<1>3. R \in SUBSET CleanupEligible(HarvestedExec)
  BY DEF Eligible
<1>. QED
  BY <1>2, <1>3

\* An actor cleanup removes is idle once harvested.
LEMMA GoneIdle ==
    ASSUME NEW R \in SUBSET CleanupEligible(HarvestedExec), NEW s \in Scopes,
           NEW k \in Gone(R, s)
    PROVE  HarvestedExec[s][k] = "idle"
<1>1. <<s, k>> \in CleanupEligible(HarvestedExec)
  BY DEF Gone
<1>. QED
  BY <1>1 DEF CleanupEligible

\* StartsFacts for the actors a poll tick starts in scope s.
LEMMA StartedScopeFacts ==
    ASSUME TypeOK, NEW R, NEW v, NEW s \in Scopes, v[s] \in StartOptions(R, s)
    PROVE  /\ \A k \in Started(v, s) :
                 v[s][k] \in HarvestedFree[s] /\ HarvestedExec[s][k] = "idle"
           /\ \A k1, k2 \in Started(v, s) : k1 # k2 => v[s][k1] # v[s][k2]
           /\ s \notin PoolScopes => Started(v, s) = {}
BY StartsFacts DEF Started

\* One pool through a poll tick.  Hd and Hl are the actors poll_actors
\* harvests with a finished call and with a lost VM.
LEMMA PollTickScope ==
    ASSUME PoolInv, NEW R \in SUBSET CleanupEligible(HarvestedExec), NEW v,
           \A r \in Scopes : v[r] \in StartOptions(R, r),
           exec' = [r \in Scopes |-> [k \in Sigs |->
                      IF k \in Started(v, r) THEN "running"
                      ELSE HarvestedExec[r][k]]],
           vm' = [r \in Scopes |-> [k \in Sigs |->
                    IF k \in Started(v, r) THEN v[r][k]
                    ELSE IF k \in Harvested(r) \/ k \in Gone(R, r) THEN NoVm
                    ELSE vm[r][k]]],
           free' = [r \in Scopes |->
                      HarvestedFree[r] \ {v[r][k] : k \in Started(v, r)}],
           pending' = HarvestedPending,
           NEW s \in PoolScopes
    PROVE  Conserved(free'[s], pending'[s], Busy(s)', vm'[s], VmIds(s))
<1> DEFINE Hd == {j \in Harvested(s) : exec[s][j] = "done"}
           Hl == {j \in Harvested(s) : exec[s][j] = "lost"}
           S == Started(v, s)
           Bz == Busy(s)
           vs == v[s]
           vmn == vm'[s]
<1>1. /\ s \in Scopes
      /\ Conserved(free[s], pending[s], Bz, vm[s], VmIds(s))
      /\ built[s] \subseteq pending[s]
      /\ exec \in [Scopes -> [Sigs -> ExecStates]]
  BY PoolScopesScopes DEF PoolInv, TypeOK
<1>2. /\ Harvested(s) = Hd \cup Hl
      /\ Hd \subseteq Bz /\ Hl \subseteq Bz /\ Hd \cap Hl = {}
  BY DEF Harvested, Busy
<1>3. /\ \A k \in S : vs[k] \in HarvestedFree[s] /\ HarvestedExec[s][k] = "idle"
      /\ \A k1, k2 \in S : k1 # k2 => vs[k1] # vs[k2]
  BY <1>1, StartedScopeFacts DEF PoolInv, S, vs
<1>4. S \cap (Bz \ (Hd \cup Hl)) = {}
  BY <1>1, <1>2, <1>3 DEF HarvestedExec, Busy
<1>5. \A k \in S : vs[k] \in free[s] \cup built[s] \cup {vm[s][j] : j \in Hd}
  BY <1>1, <1>3 DEF HarvestedFree, PolledFree, Returned
<1>6. \A k \in S : vmn[k] = vs[k]
  BY <1>1 DEF Started
<1>7. \A k \in Bz \ (Hd \cup Hl \cup S) : vmn[k] = vm[s][k]
  <2> SUFFICES ASSUME NEW k \in Bz \ (Hd \cup Hl \cup S)
               PROVE  vmn[k] = vm[s][k]
    OBVIOUS
  <2>1. k \in Sigs /\ k \notin Harvested(s) /\ HarvestedExec[s][k] # "idle"
    BY <1>1, <1>2 DEF Busy, HarvestedExec
  <2>2. k \notin Gone(R, s)
    BY <1>1, <2>1, GoneIdle
  <2>. QED
    BY <1>1, <2>1, <2>2
<1>8. /\ free'[s] = (free[s] \cup built[s] \cup {vm[s][j] : j \in Hd}) \ {vs[k] : k \in S}
      /\ pending'[s] = (pending[s] \ built[s]) \cup {vm[s][j] : j \in Hl}
  BY <1>1 DEF HarvestedFree, PolledFree, Returned, HarvestedPending,
              PolledPending, Recreated, vs, S
<1>9. Busy(s)' = S \cup (Bz \ (Hd \cup Hl))
  <2>1. S \subseteq Sigs
    BY DEF S, Started
  <2>. QED
    BY <1>1, <1>2, <2>1 DEF Busy, HarvestedExec, S, Bz
<1>10. /\ Conserved(free[s], pending[s], Bz, vm[s], VmIds(s))
       /\ built[s] \subseteq pending[s]
  BY <1>1
<1>11. /\ \A k \in S : vs[k] \in free[s] \cup built[s] \cup {vm[s][j] : j \in Hd}
       /\ \A k1, k2 \in S : k1 # k2 => vs[k1] # vs[k2]
  BY <1>3, <1>5
<1>12. Hd \subseteq Bz /\ Hl \subseteq Bz /\ Hd \cap Hl = {}
  BY <1>2
<1> DEFINE new == PoolAfterTick(free[s], pending[s], built[s], Bz, vm[s], Hd, Hl, S, vs)
<1>13. Conserved(new.free, new.pending, new.busy, vm'[s], VmIds(s))
  BY <1>4, <1>6, <1>7, <1>10, <1>11, <1>12, ConservedStep DEF vmn, new
<1>14. new.free = free'[s] /\ new.pending = pending'[s] /\ new.busy = Busy(s)'
  BY <1>8, <1>9 DEF new, PoolAfterTick
<1>. QED
  BY <1>13, <1>14

\* A poll tick keeps the invariant: every pool by PollTickScope, and a
\* worker that never had a pool starts no actor.
LEMMA PollTickPoolInv ==
    ASSUME PoolInv, TypeOK', PollTick
    PROVE  PoolInv'
<1>1. PICK R \in SUBSET CleanupEligible(HarvestedExec) :
         \E v \in [Scopes -> UNION {StartOptions(R, s) : s \in Scopes}] :
              /\ \A s \in Scopes : v[s] \in StartOptions(R, s)
              /\ exec' = [s \in Scopes |-> [k \in Sigs |->
                           IF k \in Started(v, s) THEN "running"
                           ELSE HarvestedExec[s][k]]]
              /\ vm' = [s \in Scopes |-> [k \in Sigs |->
                         IF k \in Started(v, s) THEN v[s][k]
                         ELSE IF k \in Harvested(s) \/ k \in Gone(R, s) THEN NoVm
                         ELSE vm[s][k]]]
              /\ free' = [s \in Scopes |->
                            HarvestedFree[s] \ {v[s][k] : k \in Started(v, s)}]
              /\ pending' = HarvestedPending
              /\ built' = NoneBuilt
              /\ pooled' = pooled
              /\ everPooled' = everPooled
  BY PollTickShape
<1>2. PICK v \in [Scopes -> UNION {StartOptions(R, s) : s \in Scopes}] :
              /\ \A s \in Scopes : v[s] \in StartOptions(R, s)
              /\ exec' = [s \in Scopes |-> [k \in Sigs |->
                           IF k \in Started(v, s) THEN "running"
                           ELSE HarvestedExec[s][k]]]
              /\ vm' = [s \in Scopes |-> [k \in Sigs |->
                         IF k \in Started(v, s) THEN v[s][k]
                         ELSE IF k \in Harvested(s) \/ k \in Gone(R, s) THEN NoVm
                         ELSE vm[s][k]]]
              /\ free' = [s \in Scopes |->
                            HarvestedFree[s] \ {v[s][k] : k \in Started(v, s)}]
              /\ pending' = HarvestedPending
              /\ built' = NoneBuilt
              /\ pooled' = pooled
              /\ everPooled' = everPooled
  BY <1>1
<1>3. PoolScopes' = PoolScopes /\ PoolScopes \subseteq Scopes
  BY <1>2, PoolScopesScopes DEF PoolScopes, PoolInv
<1>4. \A s \in PoolScopes' :
        Conserved(free'[s], pending'[s], Busy(s)', vm'[s], VmIds(s))
  BY <1>2, <1>3, PollTickScope
<1>5. \A s \in PoolScopes' : built'[s] \subseteq pending'[s]
  BY <1>2, <1>3 DEF NoneBuilt
<1>6. \A w \in Workers \ everPooled' : Busy(w)' = {}
  <2> SUFFICES ASSUME NEW w \in Workers \ everPooled
               PROVE  Busy(w)' = {}
    BY <1>2
  <2>1. w \in Scopes /\ w \notin PoolScopes /\ Busy(w) = {}
    BY ConstantsAssumption DEF PoolInv, PoolScopes, Scopes
  <2>2. Started(v, w) = {} /\ Harvested(w) = {}
    BY <1>2, <2>1, StartedScopeFacts DEF PoolInv, Harvested
  <2>. QED
    BY <1>2, <2>1, <2>2 DEF Busy, HarvestedExec
<1>7. pooled' \subseteq everPooled'
  BY <1>2 DEF PoolInv
<1>. QED
  BY <1>4, <1>5, <1>6, <1>7 DEF PoolInv

\* Every step of the plumber, or a stutter, preserves the invariant when
\* create_worker_pool is called at most once per worker.
LEMMA NextPoolInv ==
    ASSUME ~PoolRecreation
    PROVE  PoolInv /\ [Next]_vars => PoolInv'
<1> SUFFICES ASSUME PoolInv, [Next]_vars PROVE PoolInv'
  OBVIOUS
<1>0. TypeOK'
  BY NextTypeOK DEF PoolInv
<1>1. CASE \E k \in Sigs, s \in Scopes : Ingest(k, s)
  BY <1>0, <1>1, FramePoolInv DEF Ingest
<1>2. CASE \E w \in Workers : CreateWorkerPool(w)
  BY <1>0, <1>2, CreateWorkerPoolInv
<1>3. CASE \E w \in Workers : RemoveWorkerPool(w)
  BY <1>0, <1>3, RemoveWorkerPoolInv
<1>4. CASE PollEvent
  BY <1>0, <1>4, PollEventPoolInv
<1>5. CASE PollTick
  BY <1>0, <1>5, PollTickPoolInv
<1>6. CASE \E s \in Scopes, k \in Sigs : AvmComplete(s, k)
  BY <1>0, <1>6, AvmCompletePoolInv
<1>7. CASE \E s \in Scopes : \E id \in VmIds(s) : VmBuilt(s, id)
  BY <1>0, <1>7, VmBuiltPoolInv
<1>8. CASE CleanupDone
  BY <1>0, <1>8, FramePoolInv DEF CleanupDone
<1>9. CASE Tick
  BY <1>0, <1>9, FramePoolInv DEF Tick
<1>10. CASE UNCHANGED vars
  BY <1>0, <1>10, FramePoolInv DEF vars
<1>. QED
  BY <1>1, <1>2, <1>3, <1>4, <1>5, <1>6, <1>7, <1>8, <1>9, <1>10 DEF Next, Poll

\* Spec 3: with create_worker_pool called at most once per worker, every
\* vm_id of the host pool and of each live worker pool is, in every state,
\* in exactly one place: the free list, a pending creation, or the AVM
\* future of exactly one actor, through any interleaving of ingests, polls,
\* AVM completions and losses, VM creations, cleanups and pool removals.
THEOREM VmConservationInvariant ==
    ASSUME ~PoolRecreation
    PROVE  Spec => []VmConservation
<1>1. Init => PoolInv
  BY InitPoolInv
<1>2. PoolInv /\ [Next]_vars => PoolInv'
  BY NextPoolInv
<1>3. PoolInv => VmConservation
  BY ConservedIsVmConservation DEF PoolInv
<1>. QED
  BY <1>1, <1>2, <1>3, PTL DEF Spec
=============================================================================
