------------------------- MODULE PlumberCleanupProofs -------------------------
(***************************************************************************)
(* Proof that Plumber::cleanup hands the cleanup key of an actor to the    *)
(* data store at most once, for every value of the constants.  The         *)
(* argument: cleanup takes only expired actors, it removes them from the   *)
(* actor map in the same poll, and an expired particle is never admitted   *)
(* again, by ingest or by a local next peer, because real_time::now_ms     *)
(* never goes back.                                                         *)
(***************************************************************************)
EXTENDS PlumberProofs

\* A submitted actor is gone from its map and stays expired.
SubmittedRetired ==
    \A s \in Scopes, k \in Sigs :
        /\ submitted[s][k] <= 1
        /\ submitted[s][k] = 1 => IsExpired(k, NowMs) /\ k \notin actors[s]

\* The inductive invariant.
KInv == TypeOK /\ SubmittedRetired

\* now_ms, whole seconds of a clock that only advances, never decreases.
LEMMA NowMsMonotone ==
    ASSUME NEW c \in Nat
    PROVE  c - (c % Granularity) <= (c + 1) - ((c + 1) % Granularity)
<1>1. Granularity \in Nat \ {0}
  BY ConstantsAssumption
<1>2. c - (c % Granularity) = Granularity * (c \div Granularity)
      /\ (c + 1) - ((c + 1) % Granularity) = Granularity * ((c + 1) \div Granularity)
  BY <1>1
<1>3. c \div Granularity <= (c + 1) \div Granularity
  BY <1>1
<1>. QED
  BY <1>1, <1>2, <1>3

\* An expired particle creates no actor: Admission returns "expired" first.
LEMMA ExpiredNotAdmitted ==
    ASSUME NEW act, NEW cnt, NEW s \in Scopes, NEW k \in Sigs,
           k \notin act[s], IsExpired(k, NowMs)
    PROVE  k \notin AdmitActors(act, cnt)[s]
<1>1. Admission(k, s) = "expired"
  BY DEF Admission
<1>. QED
  BY <1>1 DEF AdmitActors

LEMMA InitKInv == Init => KInv
BY InitTypeOK DEF Init, KInv, SubmittedRetired

\* Steps that change neither the clock, the actors nor the submitted keys.
LEMMA FrameKInv ==
    ASSUME KInv, TypeOK', UNCHANGED <<clock, actors, submitted>>
    PROVE  KInv'
BY DEF KInv, SubmittedRetired, NowMs, IsExpired

LEMMA IngestKInv ==
    ASSUME KInv, TypeOK', NEW k0 \in Sigs, NEW s0 \in Scopes, Ingest(k0, s0)
    PROVE  KInv'
<1> DEFINE one == [r \in Scopes |-> [j \in Sigs |-> IF r = s0 /\ j = k0 THEN 1 ELSE 0]]
<1>1. actors' = AdmitActors(actors, one) /\ UNCHANGED <<clock, submitted>>
  BY DEF Ingest, one
<1>2. SubmittedRetired'
  <2> SUFFICES ASSUME NEW s \in Scopes, NEW k \in Sigs
               PROVE  /\ submitted'[s][k] <= 1
                      /\ submitted'[s][k] = 1 =>
                            IsExpired(k, NowMs') /\ k \notin actors'[s]
    BY DEF SubmittedRetired
  <2>1. NowMs' = NowMs
    BY <1>1 DEF NowMs
  <2>2. submitted[s][k] = 1 => k \notin AdmitActors(actors, one)[s]
    BY ExpiredNotAdmitted DEF KInv, SubmittedRetired
  <2>. QED
    BY <1>1, <2>1, <2>2 DEF KInv, SubmittedRetired, IsExpired
<1>. QED
  BY <1>2 DEF KInv

\* The clock advances one ms; an expired particle stays expired.
LEMMA TickKInv ==
    ASSUME KInv, TypeOK', Tick
    PROVE  KInv'
<1>1. clock \in Nat /\ clock' = clock + 1
  BY DEF Tick, KInv, TypeOK
<1>2. NowMs <= NowMs'
  BY <1>1, NowMsMonotone DEF NowMs
<1>3. \A k \in Sigs : IsExpired(k, NowMs) => IsExpired(k, NowMs')
  <2> SUFFICES ASSUME NEW k \in Sigs, IsExpired(k, NowMs)
               PROVE  IsExpired(k, NowMs')
    OBVIOUS
  <2>1. Deadline[k] \in Nat /\ NowMs \in Int /\ NowMs' \in Int
    BY <1>1, ConstantsAssumption DEF NowMs
  <2>. QED
    BY <1>2, <2>1 DEF IsExpired
<1>4. UNCHANGED <<actors, submitted>>
  BY DEF Tick
<1>. QED
  BY <1>3, <1>4 DEF KInv, SubmittedRetired

\* What a poll tick does to the actors and the cleanup keys, whichever VMs
\* poll_next hands out.
LEMMA PollTickCleanup ==
    ASSUME PollTick
    PROVE  \E c \in CleanupPolled : \E R \in SUBSET Eligible(c) :
              /\ submitted' = [s \in Scopes |-> [k \in Sigs |->
                                submitted[s][k] + IF k \in Gone(R, s) THEN 1 ELSE 0]]
              /\ actors' = AdmitActors(CleanedActors(R), LocalEffects)
              /\ clock' = clock
BY Zenon DEF PollTick

\* cleanup takes only actors that are in the map and expired.
LEMMA EligibleFacts ==
    ASSUME NEW c, NEW R \in SUBSET Eligible(c), NEW s \in Scopes,
           NEW k \in Gone(R, s)
    PROVE  k \in actors[s] /\ IsExpired(k, NowMs)
<1>1. <<s, k>> \in Eligible(c)
  BY DEF Gone
<1>2. <<s, k>> \in CleanupEligible(HarvestedExec)
  BY <1>1 DEF Eligible
<1>. QED
  BY <1>2 DEF CleanupEligible

\* A poll tick submits the key of each actor its cleanup removes, once: the
\* actor was in the map, so its key had not been submitted, and it is
\* expired, so no local next peer of this tick brings it back.
LEMMA PollTickKInv ==
    ASSUME KInv, TypeOK', PollTick
    PROVE  KInv'
<1>0. PICK c \in CleanupPolled : \E R \in SUBSET Eligible(c) :
          /\ submitted' = [s \in Scopes |-> [k \in Sigs |->
                            submitted[s][k] + IF k \in Gone(R, s) THEN 1 ELSE 0]]
          /\ actors' = AdmitActors(CleanedActors(R), LocalEffects)
          /\ clock' = clock
  BY PollTickCleanup
<1>1. PICK R \in SUBSET Eligible(c) :
          /\ submitted' = [s \in Scopes |-> [k \in Sigs |->
                            submitted[s][k] + IF k \in Gone(R, s) THEN 1 ELSE 0]]
          /\ actors' = AdmitActors(CleanedActors(R), LocalEffects)
          /\ clock' = clock
  BY <1>0
<1>2. SubmittedRetired'
  <2> SUFFICES ASSUME NEW s \in Scopes, NEW k \in Sigs
               PROVE  /\ submitted'[s][k] <= 1
                      /\ submitted'[s][k] = 1 =>
                            IsExpired(k, NowMs') /\ k \notin actors'[s]
    BY DEF SubmittedRetired
  <2>1. NowMs' = NowMs
    BY <1>1 DEF NowMs
  <2>2. submitted[s][k] \in Nat
    BY DEF KInv, TypeOK
  <2>3. CASE k \in Gone(R, s)
    <3>1. k \in actors[s] /\ IsExpired(k, NowMs)
      BY <2>3, EligibleFacts
    <3>2. submitted[s][k] = 0
      BY <2>2, <3>1 DEF KInv, SubmittedRetired
    <3>3. submitted'[s][k] = 1
      BY <1>1, <2>3, <3>2
    <3>4. k \notin CleanedActors(R)[s]
      BY <2>3 DEF CleanedActors
    <3>5. k \notin actors'[s]
      BY <1>1, <3>1, <3>4, ExpiredNotAdmitted
    <3>. QED
      BY <2>1, <3>1, <3>3, <3>5
  <2>4. CASE k \notin Gone(R, s)
    <3>1. submitted'[s][k] = submitted[s][k]
      BY <1>1, <2>2, <2>4
    <3>2. ASSUME submitted[s][k] = 1
          PROVE  k \notin actors'[s]
      <4>1. k \notin actors[s] /\ IsExpired(k, NowMs)
        BY <3>2 DEF KInv, SubmittedRetired
      <4>2. k \notin CleanedActors(R)[s]
        BY <4>1 DEF CleanedActors
      <4>. QED
        BY <1>1, <4>1, <4>2, ExpiredNotAdmitted
    <3>. QED
      BY <2>1, <3>1, <3>2 DEF KInv, SubmittedRetired
  <2>. QED
    BY <2>3, <2>4
<1>. QED
  BY <1>2 DEF KInv

\* Every step of the plumber, or a stutter, preserves the invariant.
LEMMA NextKInv == KInv /\ [Next]_vars => KInv'
<1> SUFFICES ASSUME KInv, [Next]_vars PROVE KInv'
  OBVIOUS
<1>0. TypeOK'
  BY NextTypeOK DEF KInv
<1>1. CASE \E k \in Sigs, s \in Scopes : Ingest(k, s)
  BY <1>0, <1>1, IngestKInv
<1>2. CASE \E w \in Workers : CreateWorkerPool(w) \/ RemoveWorkerPool(w)
  BY <1>0, <1>2, FrameKInv DEF CreateWorkerPool, RemoveWorkerPool
<1>3. CASE PollEvent
  BY <1>0, <1>3, FrameKInv DEF PollEvent
<1>4. CASE PollTick
  BY <1>0, <1>4, PollTickKInv
<1>5. CASE \E s \in Scopes, k \in Sigs : AvmComplete(s, k)
  BY <1>0, <1>5, FrameKInv DEF AvmComplete
<1>6. CASE \E s \in Scopes : \E id \in VmIds(s) : VmBuilt(s, id)
  BY <1>0, <1>6, FrameKInv DEF VmBuilt
<1>7. CASE CleanupDone
  BY <1>0, <1>7, FrameKInv DEF CleanupDone
<1>8. CASE Tick
  BY <1>0, <1>8, TickKInv
<1>9. CASE UNCHANGED vars
  BY <1>0, <1>9, FrameKInv DEF vars
<1>. QED
  BY <1>1, <1>2, <1>3, <1>4, <1>5, <1>6, <1>7, <1>8, <1>9 DEF Next, Poll

\* Plumber::cleanup hands the cleanup key of an actor to
\* ParticleDataStore::batch_cleanup_data at most once, after any interleaving
\* of ingests, polls, AVM completions, pool changes and clock ticks.
THEOREM CleanupKeyOnceInvariant == Spec => []CleanupKeyOnce
<1>1. Spec => []KInv
  BY InitKInv, NextKInv, PTL DEF Spec
<1>2. KInv => CleanupKeyOnce
  BY DEF KInv, SubmittedRetired, CleanupKeyOnce
<1>. QED
  BY <1>1, <1>2, PTL
=============================================================================
