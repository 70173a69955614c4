------------------------------- MODULE Plumber -------------------------------
(***************************************************************************)
(* The particle execution plumber of aquamarine (src/aquamarine/src/       *)
(* plumber.rs): the actor maps of the host and of the workers, their VM    *)
(* pools, the event queue and the batch cleanup of expired actors.         *)
(*                                                                         *)
(* A particle is identified by its signature: the signature covers the     *)
(* particle's id, initiator, timestamp and ttl, so two particles with one  *)
(* signature share an actor (ActorKey) and a deadline.  Payload, scripts,  *)
(* keys, metrics and tracing are abstracted away.  One call of             *)
(* Plumber::ingest and one call of Plumber::poll are each one atomic step: *)
(* the plumber is a polled state machine that never suspends inside them.  *)
(* The AVM futures, the VM creation futures and the cleanup future resolve *)
(* in steps of their own, between two polls.                               *)
(***************************************************************************)
EXTENDS Naturals, FiniteSets

CONSTANTS
    Host,            \* PeerScope::Host
    Workers,         \* the WorkerIds of this node (PeerScope::WorkerId)
    Sigs,            \* particle signatures, i.e. actor keys
    Remote,          \* a next peer that PeerScopes::scope does not resolve
    Deadline,        \* Deadline::from(particle): timestamp + ttl, per signature
    Verified,        \* signatures for which Particle::verify succeeds
    Privileged,      \* signatures whose init_peer_id is the host or a manager
    ActiveWorkers,   \* Workers::is_worker_active
    Provisioned,     \* workers with a key pair, a deal id and a runtime handle
    HostPoolSize,    \* capacity of the host VmPool
    WorkerPoolSize,  \* thread_count passed to create_worker_pool
    Granularity,     \* resolution of real_time::now_ms (a second)
    MaxTime,         \* bound on the wall clock
    MaxIngests,      \* bound on external calls of ingest
    MaxHops,         \* bound on local next peers produced by all AVM calls
    MaxCleanupKeys,  \* MAX_CLEANUP_KEYS_SIZE
    PoolRecreation   \* may create_worker_pool be called twice for one worker

Scopes == {Host} \cup Workers

ASSUME ConstantsAssumption ==
    /\ Host \notin Workers
    /\ Remote \notin Scopes
    /\ IsFiniteSet(Workers)
    /\ IsFiniteSet(Sigs)
    /\ Deadline \in [Sigs -> Nat]
    /\ Verified \subseteq Sigs
    /\ Privileged \subseteq Sigs
    /\ ActiveWorkers \subseteq Workers
    /\ Provisioned \subseteq Workers
    /\ HostPoolSize \in Nat
    /\ WorkerPoolSize \in Nat
    /\ Granularity \in Nat \ {0}
    /\ MaxTime \in Nat
    /\ MaxIngests \in Nat
    /\ MaxHops \in Nat
    /\ MaxCleanupKeys \in Nat \ {0}
    /\ PoolRecreation \in BOOLEAN

Targets == Scopes \cup {Remote}
PoolSize(s) == IF s = Host THEN HostPoolSize ELSE WorkerPoolSize
VmIds(s) == 1..PoolSize(s)
NoVm == 0
ExecStates == {"idle", "running", "done", "lost"}
EventKinds == {"expired", "sigfail", "remote"}
Events == [kind : EventKinds, sig : Sigs, scope : Scopes]
MinOf(a, b) == IF a <= b THEN a ELSE b

VARIABLES
    clock,          \* wall clock, in ms
    events,         \* Plumber.events: pending events, counted per kind
    actors,         \* actors[s]: keys of host_actors / worker_actors[w]
    buckets,        \* workers that have an entry in worker_actors
    mailbox,        \* mailbox[s][k]: particles queued in actor k of scope s
    exec,           \* exec[s][k]: the actor's in-flight AVM future
    vm,             \* vm[s][k]: the vm_id moved into that future
    peers,          \* peers[s][k]: next_peers of a finished AVM call
    pooled,         \* workers with an entry in worker_vm_pools
    everPooled,     \* workers create_worker_pool was ever called for
    free,           \* free[s]: vm_ids on the free list of the pool of s
    pending,        \* pending[s]: vm_ids being (re)created by the pool of s
    built,          \* built[s]: pending vm_ids whose creation has finished
    started,        \* scopes whose current VmPool has been polled once
    cleanupFuture,  \* Plumber.cleanup_future: "none", "created" (never
                    \* polled yet), "running" or "ready"
    submitted,      \* submitted[s][k]: cleanup keys handed to the data store
    ingests,        \* external ingests so far (bounded by MaxIngests)
    hops,           \* local next peers produced so far (bounded by MaxHops)
    woken           \* the plumber's waker fired since poll last returned

vars == <<clock, events, actors, buckets, mailbox, exec, vm, peers, pooled,
          everPooled, free, pending, built, started, cleanupFuture,
          submitted, ingests, hops, woken>>

PoolScopes == {Host} \cup pooled

-----------------------------------------------------------------------------
(* Time and admission *)

\* real_time::now_ms: Utc::now().timestamp() * 1000, whole seconds only.
NowMs == clock - (clock % Granularity)

\* Deadline::is_expired (spec 4.5): now >= timestamp + ttl.
IsExpired(k, now) == now >= Deadline[k]

\* Mutant: ingest without its expiry check.
AdmissionNoExpiry(k, s) ==
    IF k \notin Verified THEN "sigfail"
    ELSE IF s # Host /\ s \notin ActiveWorkers /\ k \notin Privileged
         THEN "inactive"
    ELSE IF s # Host /\ s \notin Provisioned THEN "rejected"
    ELSE "accepted"

\* The early returns of Plumber::ingest and of get_or_create_actor, in the
\* order the code takes them: the fate of particle k ingested into scope s.
Admission(k, s) ==
    IF IsExpired(k, NowMs) THEN "expired"
    ELSE IF k \notin Verified THEN "sigfail"
    ELSE IF s # Host /\ s \notin ActiveWorkers /\ k \notin Privileged
         THEN "inactive"
    ELSE IF s # Host /\ s \notin Provisioned THEN "rejected"
    ELSE "accepted"

(* Plumber::ingest of cnt[s][k] copies of particle k into scope s, for all  *)
(* s and k at once, as four functions of the state parts it changes.       *)
AdmitEvents(ev, cnt) ==
    [e \in Events |-> ev[e] + IF Admission(e.sig, e.scope) = e.kind
                              THEN cnt[e.scope][e.sig] ELSE 0]

\* get_or_create_actor inserts the worker's bucket before it looks up the
\* deal id and the runtime handle, so a rejected particle leaves one behind.
AdmitBuckets(bk, cnt) ==
    bk \cup {w \in Workers :
               \E k \in Sigs : /\ cnt[w][k] > 0
                               /\ Admission(k, w) \in {"rejected", "accepted"}}

AdmitActors(act, cnt) ==
    [s \in Scopes |-> act[s] \cup {k \in Sigs : /\ cnt[s][k] > 0
                                               /\ Admission(k, s) = "accepted"}]

AdmitMailbox(mb, cnt) ==
    [s \in Scopes |-> [k \in Sigs |->
        mb[s][k] + IF Admission(k, s) = "accepted" THEN cnt[s][k] ELSE 0]]

-----------------------------------------------------------------------------
(* Operations called by the node *)

\* Mutant: ingest without its self.wake().
WakesNever(k, s) == FALSE

\* ingest ends with self.wake() unless it returned early: for an expired
\* or unsigned particle (whose event is queued without a wake) or for an
\* inactive worker.
Wakes(k, s) == Admission(k, s) \in {"rejected", "accepted"}

\* Plumber::ingest(particle, None, peer_scope) from the network side.
Ingest(k, s) ==
    LET one == [r \in Scopes |-> [j \in Sigs |-> IF r = s /\ j = k THEN 1 ELSE 0]]
    IN  /\ ingests < MaxIngests
        /\ ingests' = ingests + 1
        /\ events' = AdmitEvents(events, one)
        /\ buckets' = AdmitBuckets(buckets, one)
        /\ actors' = AdmitActors(actors, one)
        /\ mailbox' = AdmitMailbox(mailbox, one)
        /\ woken' = (woken \/ Wakes(k, s))
        /\ UNCHANGED <<clock, exec, vm, peers, pooled, everPooled, free,
                       pending, built, started, cleanupFuture, submitted,
                       hops>>

\* Plumber::create_worker_pool: a fresh VmPool replaces any previous one; its
\* VMs are all still to be created, which VmPool starts on its first poll.
\* Nothing wakes the plumber.
CreateWorkerPool(w) ==
    /\ PoolRecreation \/ w \notin everPooled
    /\ pooled' = pooled \cup {w}
    /\ everPooled' = everPooled \cup {w}
    /\ free' = [free EXCEPT ![w] = {}]
    /\ pending' = [pending EXCEPT ![w] = VmIds(w)]
    /\ built' = [built EXCEPT ![w] = {}]
    /\ started' = started \ {w}
    /\ UNCHANGED <<clock, events, actors, buckets, mailbox, exec, vm, peers,
                   cleanupFuture, submitted, ingests, hops, woken>>

\* Plumber::remove_worker_pool: the pool is dropped with its free list.
RemoveWorkerPool(w) ==
    /\ w \in pooled
    /\ pooled' = pooled \ {w}
    /\ free' = [free EXCEPT ![w] = {}]
    /\ pending' = [pending EXCEPT ![w] = {}]
    /\ built' = [built EXCEPT ![w] = {}]
    /\ started' = started \ {w}
    /\ UNCHANGED <<clock, events, actors, buckets, mailbox, exec, vm, peers,
                   everPooled, cleanupFuture, submitted, ingests, hops, woken>>

-----------------------------------------------------------------------------
(* The futures the plumber polls, resolving between two polls; each wakes *)
(* the waker it was last polled with, the plumber's.                        *)

\* The AVM call of actor k of scope s finishes (Actor::poll_completed will be
\* Ready): with its next peers, or with the VM lost to a panic.
AvmComplete(s, k) ==
    /\ exec[s][k] = "running"
    /\ \/ \E p \in SUBSET Targets :
             /\ hops + Cardinality(p \cap Scopes) <= MaxHops
             /\ hops' = hops + Cardinality(p \cap Scopes)
             /\ exec' = [exec EXCEPT ![s][k] = "done"]
             /\ peers' = [peers EXCEPT ![s][k] = p]
       \/ /\ exec' = [exec EXCEPT ![s][k] = "lost"]
          /\ UNCHANGED <<peers, hops>>
    /\ woken' = TRUE
    /\ UNCHANGED <<clock, events, actors, buckets, mailbox, vm, pooled,
                   everPooled, free, pending, built, started, cleanupFuture,
                   submitted, ingests>>

\* The creation future of VM id of the pool of s resolves; a pool makes
\* its first VMs only once it has been polled.
VmBuilt(s, id) ==
    /\ s \in PoolScopes \cap started
    /\ id \in pending[s] \ built[s]
    /\ built' = [built EXCEPT ![s] = @ \cup {id}]
    /\ woken' = TRUE
    /\ UNCHANGED <<clock, events, actors, buckets, mailbox, exec, vm, peers,
                   pooled, everPooled, free, pending, started, cleanupFuture,
                   submitted, ingests, hops>>

\* ParticleDataStore::batch_cleanup_data finishes.  The async block runs
\* only once polled, so a future cleanup has built but not polled yet
\* ("created") neither finishes nor wakes anyone.
CleanupDone ==
    /\ cleanupFuture = "running"
    /\ cleanupFuture' = "ready"
    /\ woken' = TRUE
    /\ UNCHANGED <<clock, events, actors, buckets, mailbox, exec, vm, peers,
                   pooled, everPooled, free, pending, built, started,
                   submitted, ingests, hops>>

\* Wall-clock time passes.
Tick ==
    /\ clock < MaxTime
    /\ clock' = clock + 1
    /\ UNCHANGED <<events, actors, buckets, mailbox, exec, vm, peers, pooled,
                   everPooled, free, pending, built, started, cleanupFuture,
                   submitted, ingests, hops, woken>>

-----------------------------------------------------------------------------
(* Plumber::poll, one scheduling tick *)

\* poll_pools: each pool moves the VMs whose creation finished to its free list.
PolledFree == [s \in Scopes |-> free[s] \cup built[s]]
PolledPending == [s \in Scopes |-> pending[s] \ built[s]]
NoneBuilt == [s \in Scopes |-> {}]

\* poll returns the first queued event; nothing but the pools moves.  The
\* caller polls again after a Ready (spec 5: "caller must keep polling").
PollEvent ==
    /\ \E e \in Events : /\ events[e] > 0
                         /\ events' = [events EXCEPT ![e] = @ - 1]
    /\ free' = PolledFree
    /\ pending' = PolledPending
    /\ built' = NoneBuilt
    /\ started' = PoolScopes
    /\ woken' = TRUE
    /\ UNCHANGED <<clock, actors, buckets, mailbox, exec, vm, peers, pooled,
                   everPooled, cleanupFuture, submitted, ingests, hops>>

\* poll_host_actors and poll_workers_actors call poll_completed on the
\* actors of the host and of every worker that still has a VM pool.
Harvested(s) ==
    IF s \in PoolScopes THEN {k \in Sigs : exec[s][k] \in {"done", "lost"}}
    ELSE {}

\* poll_actors: a VM comes back to the free list, a lost one is recreated.
Returned(s) == {vm[s][k] : k \in {j \in Harvested(s) : exec[s][j] = "done"}}
Recreated(s) == {vm[s][k] : k \in {j \in Harvested(s) : exec[s][j] = "lost"}}

\* The remote next peers of each finished call become one event ...
RemoteEffects ==
    [e \in Events |-> IF /\ e.kind = "remote"
                         /\ e.sig \in Harvested(e.scope)
                         /\ Remote \in peers[e.scope][e.sig]
                      THEN 1 ELSE 0]

\* ... and each local next peer one re-ingest of the particle into its scope.
LocalEffects ==
    [s \in Scopes |-> [k \in Sigs |->
        Cardinality({r \in Scopes : k \in Harvested(r) /\ s \in peers[r][k]})]]

\* Mutant: cleanup_actors without the is_executing check.
CleanupEligibleExecuting(ex) ==
    {p \in Scopes \X Sigs : /\ p[2] \in actors[p[1]]
                            /\ IsExpired(p[2], NowMs)}

\* cleanup_actors: an actor is removed iff expired and not executing.
\* Actor::is_executing holds as long as its future was not taken by
\* poll_completed, finished or not.
CleanupEligible(ex) ==
    {p \in Scopes \X Sigs : /\ p[2] \in actors[p[1]]
                            /\ IsExpired(p[2], NowMs)
                            /\ ex[p[1]][p[2]] = "idle"}

\* Plumber::cleanup polls the cleanup future first: a finished one is taken,
\* and one that was never polled starts now, and may finish in this very
\* poll.  While one runs no actor is removed.
CleanupPolled ==
    IF cleanupFuture = "ready" THEN {"none"}
    ELSE IF cleanupFuture = "created" THEN {"none", "running"}
    ELSE {cleanupFuture}

\* Mutant: Actor::poll_next pops the head of an empty mailbox.
ReadyActorsAnyMailbox(act, ex, mb, s) ==
    {k \in act[s] : ex[s][k] = "idle"}

\* Actor::poll_next starts a particle iff nothing is in flight and the
\* mailbox is not empty.
ReadyActors(act, ex, mb, s) ==
    {k \in act[s] : ex[s][k] = "idle" /\ mb[s][k] > 0}

\* cleanup_host_actors, then cleanup_worker_actors unless the host actors
\* already filled MAX_CLEANUP_KEYS_SIZE keys; the hash maps are walked in
\* an unspecified order, so any keys up to the limit may be taken.
CleanupSelection(R, elig) ==
    LET hostElig == {p \in elig : p[1] = Host}
    IN  IF Cardinality(hostElig) >= MaxCleanupKeys
        THEN /\ R \subseteq hostElig
             /\ Cardinality(R) = MaxCleanupKeys
        ELSE /\ hostElig \subseteq R
             /\ R \subseteq elig
             /\ Cardinality(R) = MinOf(MaxCleanupKeys, Cardinality(elig))

\* The worker pass, when it runs, also drops the buckets that are empty and
\* have no VM pool.
WorkerPassRuns(elig) ==
    Cardinality({p \in elig : p[1] = Host}) < MaxCleanupKeys

\* poll_next_host_messages, poll_next_worker_messages: every actor of a scope
\* with a pool gets a VM while the pool has one; Actor::poll_next starts the
\* head of an idle, non-empty mailbox and hands any other VM back.  The
\* actors are walked in hash order, so which ready actors start is open.
Starts(v, s, ready, fr) ==
    LET S == {k \in Sigs : v[k] # NoVm}
    IN  /\ S \subseteq ready
        /\ \A k \in S : v[k] \in fr
        /\ \A k1, k2 \in S : k1 # k2 => v[k1] # v[k2]
        /\ Cardinality(S) = IF s \in PoolScopes
                            THEN MinOf(Cardinality(fr), Cardinality(ready))
                            ELSE 0

\* The pools and actors once poll_actors has taken the finished futures.
HarvestedFree == [s \in Scopes |-> PolledFree[s] \cup Returned(s)]
HarvestedPending == [s \in Scopes |-> PolledPending[s] \cup Recreated(s)]
HarvestedExec ==
    [s \in Scopes |-> [k \in Sigs |->
        IF k \in Harvested(s) THEN "idle" ELSE exec[s][k]]]

\* The actors this tick's cleanup may remove, c being the cleanup future
\* once polled.
Eligible(c) ==
    IF c = "none" THEN CleanupEligible(HarvestedExec) ELSE {}

\* The actors, mailboxes and buckets once cleanup removed the actors R.
Gone(R, s) == {k \in Sigs : <<s, k>> \in R}
CleanedActors(R) == [s \in Scopes |-> actors[s] \ Gone(R, s)]
CleanedMailbox(R) ==
    [s \in Scopes |-> [k \in Sigs |->
        IF k \in Gone(R, s) THEN 0 ELSE mailbox[s][k]]]
CleanedBuckets(R, c) ==
    IF c = "none" /\ WorkerPassRuns(Eligible(c))
    THEN {w \in buckets : CleanedActors(R)[w] # {} \/ w \in pooled}
    ELSE buckets

\* The ways poll_next may hand out the VMs of scope s after that cleanup.
StartOptions(R, s) ==
    {f \in [Sigs -> {NoVm} \cup HarvestedFree[s]] :
        Starts(f, s, ReadyActors(CleanedActors(R), HarvestedExec,
                                 CleanedMailbox(R), s),
               HarvestedFree[s])}

Started(v, s) == {k \in Sigs : v[s][k] # NoVm}

\* The local next peers re-ingested at the end of the tick wake the plumber
\* again; the remote events buffered after them do not.
LocalWake ==
    \E s \in Scopes, k \in Sigs : LocalEffects[s][k] > 0 /\ Wakes(k, s)

\* The rest of poll: pools, completions, cleanup, new executions, local
\* re-ingest, remote events, in the order of Plumber::poll.  A cleanup
\* future built here is not polled before the next tick.
PollTick ==
    /\ \A e \in Events : events[e] = 0
    /\ \E c \in CleanupPolled : \E R \in SUBSET Eligible(c) :
         /\ CleanupSelection(R, Eligible(c))
         /\ \E v \in [Scopes -> UNION {StartOptions(R, s) : s \in Scopes}] :
              /\ \A s \in Scopes : v[s] \in StartOptions(R, s)
              /\ exec' = [s \in Scopes |-> [k \in Sigs |->
                           IF k \in Started(v, s) THEN "running"
                           ELSE HarvestedExec[s][k]]]
              /\ vm' = [s \in Scopes |-> [k \in Sigs |->
                         IF k \in Started(v, s) THEN v[s][k]
                         ELSE IF k \in Harvested(s) \/ k \in Gone(R, s) THEN NoVm
                         ELSE vm[s][k]]]
              /\ peers' = [s \in Scopes |-> [k \in Sigs |->
                            IF k \in Harvested(s) THEN {} ELSE peers[s][k]]]
              /\ free' = [s \in Scopes |->
                            HarvestedFree[s] \ {v[s][k] : k \in Started(v, s)}]
              /\ pending' = HarvestedPending
              /\ built' = NoneBuilt
              /\ cleanupFuture' = IF R # {} THEN "created" ELSE c
              /\ submitted' = [s \in Scopes |-> [k \in Sigs |->
                                submitted[s][k] + IF k \in Gone(R, s) THEN 1 ELSE 0]]
              /\ actors' = AdmitActors(CleanedActors(R), LocalEffects)
              /\ mailbox' = AdmitMailbox(
                              [s \in Scopes |-> [k \in Sigs |->
                                 IF k \in Started(v, s)
                                 THEN CleanedMailbox(R)[s][k] - 1
                                 ELSE CleanedMailbox(R)[s][k]]],
                              LocalEffects)
              /\ buckets' = AdmitBuckets(CleanedBuckets(R, c), LocalEffects)
              /\ events' = AdmitEvents(RemoteEffects, LocalEffects)
    /\ started' = PoolScopes
    /\ woken' = LocalWake
    /\ UNCHANGED <<clock, pooled, everPooled, ingests, hops>>

Poll == PollEvent \/ PollTick

-----------------------------------------------------------------------------
(* The specification *)

Init ==
    /\ clock = 0
    /\ events = [e \in Events |-> 0]
    /\ actors = [s \in Scopes |-> {}]
    /\ buckets = {}
    /\ mailbox = [s \in Scopes |-> [k \in Sigs |-> 0]]
    /\ exec = [s \in Scopes |-> [k \in Sigs |-> "idle"]]
    /\ vm = [s \in Scopes |-> [k \in Sigs |-> NoVm]]
    /\ peers = [s \in Scopes |-> [k \in Sigs |-> {}]]
    /\ pooled = {}
    /\ everPooled = {}
    /\ free = [s \in Scopes |-> {}]
    /\ pending = [s \in Scopes |-> IF s = Host THEN VmIds(Host) ELSE {}]
    /\ built = [s \in Scopes |-> {}]
    /\ started = {}
    /\ cleanupFuture = "none"
    /\ submitted = [s \in Scopes |-> [k \in Sigs |-> 0]]
    /\ ingests = 0
    /\ hops = 0
    /\ woken = TRUE        \* the executor polls a task it spawns once

Next ==
    \/ \E k \in Sigs, s \in Scopes : Ingest(k, s)
    \/ \E w \in Workers : CreateWorkerPool(w) \/ RemoveWorkerPool(w)
    \/ Poll
    \/ \E s \in Scopes, k \in Sigs : AvmComplete(s, k)
    \/ \E s \in Scopes : \E id \in VmIds(s) : VmBuilt(s, id)
    \/ CleanupDone
    \/ Tick

\* The executor polls the plumber again once its waker has fired: ingest,
\* the AVM futures, the VM pools and a cleanup future that was polled wake
\* it, and a Ready event makes the caller poll again.  There is no timer:
\* nothing wakes the plumber when a deadline passes.  The futures run on
\* runtimes of their own, and time passes.
Fairness ==
    /\ WF_vars(woken /\ Poll)
    /\ \A s \in Scopes, k \in Sigs : WF_vars(AvmComplete(s, k))
    /\ \A s \in Scopes : WF_vars(\E id \in VmIds(s) : VmBuilt(s, id))
    /\ WF_vars(CleanupDone)
    /\ WF_vars(Tick)

\* An executor that polls the plumber whenever it can step, woken or not:
\* more than the code asks for, used to show a leak no polling cures.
EagerPolling ==
    /\ WF_vars(Poll)
    /\ \A s \in Scopes, k \in Sigs : WF_vars(AvmComplete(s, k))
    /\ \A s \in Scopes : WF_vars(\E id \in VmIds(s) : VmBuilt(s, id))
    /\ WF_vars(CleanupDone)
    /\ WF_vars(Tick)

Spec == Init /\ [][Next]_vars
FairSpec == Spec /\ Fairness
EagerSpec == Spec /\ EagerPolling

-----------------------------------------------------------------------------
(* Properties *)

\* Every variable holds a value of its type.
TypeOK ==
    /\ clock \in 0..MaxTime
    /\ events \in [Events -> Nat]
    /\ actors \in [Scopes -> SUBSET Sigs]
    /\ buckets \subseteq Workers
    /\ mailbox \in [Scopes -> [Sigs -> Nat]]
    /\ exec \in [Scopes -> [Sigs -> ExecStates]]
    /\ vm \in [Scopes -> [Sigs -> Nat]]
    /\ peers \in [Scopes -> [Sigs -> SUBSET Targets]]
    /\ pooled \subseteq Workers
    /\ everPooled \subseteq Workers
    /\ free \in [Scopes -> SUBSET Nat]
    /\ pending \in [Scopes -> SUBSET Nat]
    /\ built \in [Scopes -> SUBSET Nat]
    /\ started \subseteq Scopes
    /\ cleanupFuture \in {"none", "created", "running", "ready"}
    /\ submitted \in [Scopes -> [Sigs -> Nat]]
    /\ ingests \in 0..MaxIngests
    /\ hops \in 0..MaxHops
    /\ woken \in BOOLEAN

\* The actors of scope s whose AVM future has not been taken back yet.
Busy(s) == {k \in Sigs : exec[s][k] # "idle"}

\* Spec 3 (VM Pool): every vm_id of a live pool is in exactly one place: on
\* the free list, being (re)created, or moved into the future of one actor.
\* It takes poll_next, the AVM completion, poll_actors' put_vm/recreate_avm
\* and cleanup (which must never drop an actor holding a VM) to keep it.
VmConservation ==
    \A s \in PoolScopes :
        /\ free[s] \cap pending[s] = {}
        /\ \A k \in Busy(s) : vm[s][k] \notin free[s] \cup pending[s]
        /\ \A k1, k2 \in Busy(s) : k1 # k2 => vm[s][k1] # vm[s][k2]
        /\ free[s] \cup pending[s] \cup {vm[s][k] : k \in Busy(s)} = VmIds(s)

\* Spec 8: the cleanup key of an actor is handed to the data store at most
\* once.  It rests on ingest refusing expired particles and on cleanup
\* removing only expired actors, with a clock that never goes back.
CleanupKeyOnce ==
    \A s \in Scopes, k \in Sigs : submitted[s][k] <= 1

\* Spec 8 ("within O(ticks) it is removed"): an actor of a scope that keeps
\* its VM pool is eventually removed by Plumber::cleanup, after its deadline
\* and once it stops executing, without any other traffic.
ActorsRetired ==
    \A s \in Scopes, k \in Sigs :
        (k \in actors[s] /\ s \in PoolScopes) ~> (k \notin actors[s] \/ s \notin PoolScopes)

\* Spec 4.1 (remove_worker_pool): actors of every scope, with a pool or
\* not, "may still exist until expired", i.e. are eventually removed.
ActorsRetiredEverywhere ==
    \A s \in Scopes, k \in Sigs : (k \in actors[s]) ~> (k \notin actors[s])

\* Spec 5 (the waker is "woken whenever new work appears"): every event
\* queued for the caller, a remote effect or an expired or unsigned
\* particle, is eventually returned by poll.
EventsDelivered ==
    \A e \in Events : events[e] > 0 ~> events[e] = 0

\* Work the plumber already holds is dealt with without new traffic: every
\* buffered event is returned (spec 5, the waker is "woken whenever new
\* work appears") and every actor of a scope that keeps its pool is retired
\* (spec 8, "within O(ticks)").  Both wait on a poll that only a wake brings.
HeldWorkDone == EventsDelivered /\ ActorsRetired

\* Spec 5 (data flow): a particle queued in an actor of a scope whose VM
\* pool has been polled is eventually executed, unless cleanup drops the
\* actor or the pool is removed.  It takes a wake for every VM that comes
\* back, is rebuilt after a loss or is built, and for every local re-ingest.
MailboxServed ==
    \A s \in Scopes, k \in Sigs :
        (mailbox[s][k] > 0 /\ s \in started)
            ~> (mailbox[s][k] = 0 \/ s \notin PoolScopes)

\* Spec 4 (create_worker_pool) and spec 5: the same for any scope with a
\* pool, also one that create_worker_pool made while particles waited.
MailboxServedNewPool ==
    \A s \in Scopes, k \in Sigs :
        (mailbox[s][k] > 0 /\ s \in PoolScopes)
            ~> (mailbox[s][k] = 0 \/ s \notin PoolScopes)

\* Spec 8: a particle whose deadline has passed when it is ingested creates
\* no actor; the deadline is compared with the wall clock, in ms.
ExpiredNeverAdmitted ==
    [][\A s \in Scopes, k \in Sigs :
          (k \notin actors[s] /\ k \in actors'[s]) => ~IsExpired(k, clock)]_vars

=============================================================================
