--------------------- MODULE MemoryStoreProvidedProofs ---------------------
(***************************************************************************)
(* Proof that every provider record of the local peer that the store holds *)
(* is matched by a record of the local peer for that key in `provided`     *)
(* (LocalProvidersProvided), for every value of the constants.  The proof  *)
(* needs the sortedness of the lists: a list holds a provider at most once, *)
(* so the record that the excess pop or remove_provider takes out of       *)
(* `provided` is never the one standing for a local record still stored.   *)
(***************************************************************************)
EXTENDS MemoryStoreProofs

\* provided holds a record of the local peer for key k.
HasLocal(k, prov) == \E w \in prov : w.key = k /\ w.provider = Local

\* Every local record of the list ps is matched in prov.
ListCovered(ps, k, prov) ==
    \A j \in 1..Len(ps) : ps[j].provider = Local => HasLocal(k, prov)

\* The inductive invariant.
LInv == IInv /\ LocalProvidersProvided

LEMMA CoveredIsLocalProvided ==
    LocalProvidersProvided <=>
        \A k \in Keys : ListCovered(providers[k], k, provided)
BY DEF LocalProvidersProvided, ListCovered, HasLocal

\* A sorted list holds each provider at most once.
LEMMA SortedUnique ==
    ASSUME NEW k \in Keys, NEW n \in Nat, NEW ps \in Seq(ProviderRecords),
           Len(ps) = n, SortedFor(ps, k), NEW i \in 1..n, NEW j \in 1..n, i # j
    PROVE  ps[i].provider # ps[j].provider
<1>1. ps[i].provider \in Peers /\ ps[j].provider \in Peers
  <2>1. ps[i] \in ProviderRecords /\ ps[j] \in ProviderRecords
    BY Len(ps) = n
  <2>. QED
    BY <2>1 DEF ProviderRecords
<1>2. Dist[k][ps[i].provider] \in Nat /\ Dist[k][ps[j].provider] \in Nat
  BY <1>1, DistFacts
<1>3. Dist[k][ps[i].provider] # Dist[k][ps[j].provider]
  <2>1. CASE i < j
    BY <2>1, <1>2 DEF SortedFor
  <2>2. CASE j < i
    BY <2>2, <1>2 DEF SortedFor
  <2>. QED
    BY <2>1, <2>2
<1>. QED
  BY <1>3

\* A step that replaces the list of key k by a covered one, and keeps in
\* provided every record of another key, keeps the invariant, given that it
\* keeps IInv.
LEMMA ReplaceCovered ==
    ASSUME LInv, IInv', NEW k \in Keys, NEW new,
           providers' = [providers EXCEPT ![k] = new],
           ListCovered(new, k, provided'),
           \A w \in provided : w.key # k => w \in provided'
    PROVE  LInv'
<1>1. \A kk \in Keys \ {k} : ListCovered(providers[kk], kk, provided)
  BY CoveredIsLocalProvided DEF LInv
<1>2. \A kk \in Keys \ {k} : ListCovered(providers'[kk], kk, provided')
  <2> SUFFICES ASSUME NEW kk \in Keys \ {k}
               PROVE  ListCovered(providers'[kk], kk, provided')
    OBVIOUS
  <2>1. providers'[kk] = providers[kk]
    BY DEF LInv, IInv, TypeOK
  <2>2. \A w \in provided : w.key = kk => w \in provided'
    OBVIOUS
  <2>. QED
    BY <1>1, <2>1, <2>2 DEF ListCovered, HasLocal
<1>3. ListCovered(providers'[k], k, provided')
  BY DEF LInv, IInv, TypeOK
<1>4. LocalProvidersProvided'
  BY <1>2, <1>3 DEF LocalProvidersProvided, ListCovered, HasLocal
<1>. QED
  BY <1>4 DEF LInv

-----------------------------------------------------------------------------
(* One lemma per branch of add_provider and per other call. *)

LEMMA InitLInv == Init => LInv
BY InitIInv DEF Init, LInv, LocalProvidersProvided

\* The in-place update puts a record of the same provider at the same place
\* and leaves provided as it was.
LEMMA UpdateLInv ==
    ASSUME LInv, NEW r \in ProviderRecords, AddProvider(r), AddProviderUpdate(r)
    PROVE  LInv'
<1> DEFINE k == r.key
           ps == providers[k]
           pos == ProviderPos(ps, r.provider)
           new == [ps EXCEPT ![pos] = r]
<1>1. k \in Keys /\ ps \in Seq(ProviderRecords)
  BY DEF ProviderRecords, LInv, IInv, TypeOK, k, ps
<1>2. pos \in 1..Len(ps) /\ ps[pos].provider = r.provider
  BY <1>1, ProviderPosFacts DEF AddProviderUpdate, pos, ps, k
<1>3. providers' = [providers EXCEPT ![k] = new] /\ provided' = provided
  BY DEF AddProviderUpdate, new, pos, ps, k
<1>4. ListCovered(ps, k, provided)
  BY <1>1, CoveredIsLocalProvided DEF LInv
<1>5. ListCovered(new, k, provided')
  <2> SUFFICES ASSUME NEW j \in 1..Len(new), new[j].provider = Local
               PROVE  HasLocal(k, provided')
    BY DEF ListCovered
  <2>1. Len(new) = Len(ps) /\ new[j].provider = ps[j].provider
    BY <1>1, <1>2 DEF new
  <2>. QED
    BY <1>3, <1>4, <2>1 DEF ListCovered
<1>. QED
  BY <1>1, <1>3, <1>5, ReplaceCovered, AddProviderIInv DEF LInv

\* The push appends r and adds it to provided when it is the local peer's.
LEMMA PushLInv ==
    ASSUME LInv, NEW r \in ProviderRecords, AddProvider(r), AddProviderPush(r)
    PROVE  LInv'
<1> DEFINE k == r.key
           ps == providers[k]
           new == Append(ps, r)
<1>1. k \in Keys /\ ps \in Seq(ProviderRecords)
  BY DEF ProviderRecords, LInv, IInv, TypeOK, k, ps
<1>2. providers' = [providers EXCEPT ![k] = new]
      /\ provided' = provided \cup IfLocal(r)
  BY DEF AddProviderPush, new, ps, k
<1>3. ListCovered(ps, k, provided)
  BY <1>1, CoveredIsLocalProvided DEF LInv
<1>4. ListCovered(new, k, provided')
  <2> SUFFICES ASSUME NEW j \in 1..Len(new), new[j].provider = Local
               PROVE  HasLocal(k, provided')
    BY DEF ListCovered
  <2>1. Len(new) = Len(ps) + 1
        /\ \A i \in 1..Len(ps) : new[i] = ps[i]
        /\ new[Len(ps) + 1] = r
    BY <1>1, AppendProperties DEF new
  <2>2. CASE j = Len(ps) + 1
    <3>1. r.provider = Local /\ r \in provided'
      BY <1>2, <2>1, <2>2 DEF IfLocal
    <3>. QED
      BY <3>1 DEF HasLocal, k
  <2>3. CASE j \in 1..Len(ps)
    BY <1>2, <1>3, <2>1, <2>3 DEF ListCovered, HasLocal
  <2>. QED
    BY <2>1, <2>2, <2>3
<1>5. \A w \in provided : w.key # k => w \in provided'
  BY <1>2
<1>. QED
  BY <1>1, <1>2, <1>4, <1>5, ReplaceCovered, AddProviderIInv DEF LInv

\* The insert branch: the record dropped from the end when the list overflows
\* is ps[n], never r and never a provider standing before it, so every local
\* record of the new list keeps a witness in provided.
LEMMA InsertCovered ==
    ASSUME NEW k \in Keys, NEW n \in Nat, NEW ps \in Seq(ProviderRecords),
           Len(ps) = n, SortedFor(ps, k),
           NEW r \in ProviderRecords, r.key = k,
           \A j \in 1..n : ps[j].provider # r.provider,
           NEW c \in 1..n, NEW prov, ListCovered(ps, k, prov)
    PROVE  LET ins == VecInsert(ps, c, r)
               excess == Len(ins) > MaxProvidersPerKey
               new == IF excess THEN SubSeq(ins, 1, Len(ins) - 1) ELSE ins
               out == IF excess THEN {ins[Len(ins)]} ELSE {}
           IN  /\ ListCovered(new, k, (prov \cup IfLocal(r)) \ out)
               /\ \A w \in out : w.key = k
<1> DEFINE ins == VecInsert(ps, c, r)
           excess == Len(ins) > MaxProvidersPerKey
           new == IF excess THEN SubSeq(ins, 1, Len(ins) - 1) ELSE ins
           out == IF excess THEN {ins[Len(ins)]} ELSE {}
           prov2 == (prov \cup IfLocal(r)) \ out
<1>1. /\ ins \in Seq(ProviderRecords)
      /\ Len(ins) = n + 1
      /\ \A j \in 1..n + 1 : ins[j] = IF j < c THEN ps[j]
                                     ELSE IF j = c THEN r ELSE ps[j - 1]
  <2>1. VecInsert(ps, c, r) \in Seq(ProviderRecords)
        /\ Len(VecInsert(ps, c, r)) = n + 1
    BY VecInsertFacts
  <2>2. \A j \in 1..n + 1 :
          VecInsert(ps, c, r)[j] = IF j < c THEN ps[j]
                                   ELSE IF j = c THEN r ELSE ps[j - 1]
    BY VecInsertAt
  <2>. QED
    BY <2>1, <2>2 DEF ins
<1>2. ins[n + 1] = ps[n] /\ ps[n].key = k
  BY <1>1 DEF SortedFor
<1>3. out \subseteq {ps[n]}
  BY <1>1, <1>2 DEF out
<1>4. /\ Len(new) \in {n, n + 1}
      /\ excess => Len(new) = n
      /\ \A j \in 1..Len(new) : new[j] = ins[j]
  <2>1. CASE excess
    <3>1. /\ Len(SubSeq(ins, 1, n)) = n
          /\ \A j \in 1..n : SubSeq(ins, 1, n)[j] = ins[j]
      BY <1>1, VecPopFacts
    <3>. QED
      BY <1>1, <2>1, <3>1 DEF new
  <2>2. CASE ~excess
    BY <1>1, <2>2 DEF new
  <2>. QED
    BY <2>1, <2>2
<1>5. \A w \in prov : w.key # k => w \in prov2
  BY <1>2, <1>3 DEF prov2
<1>6. ListCovered(new, k, prov2)
  <2> SUFFICES ASSUME NEW j \in 1..Len(new), new[j].provider = Local
               PROVE  HasLocal(k, prov2)
    BY DEF ListCovered
  <2>1. j \in 1..n + 1 /\ (excess => j \in 1..n)
    BY <1>4
  <2>2. CASE j = c
    <3>1. new[j] = r /\ r.provider = Local
      BY <1>1, <1>4, <2>1, <2>2
    <3>2. r \in prov \cup IfLocal(r)
      BY <3>1 DEF IfLocal
    <3>3. ps[n].provider # r.provider
      OBVIOUS
    <3>4. r \in prov2
      BY <1>3, <3>2, <3>3 DEF prov2
    <3>. QED
      BY <3>1, <3>4 DEF HasLocal
  <2>3. CASE j # c
    <3>1. PICK m \in 1..n : new[j] = ps[m] /\ (excess => m < n)
      <4>1. CASE j < c
        BY <1>1, <1>4, <2>1, <4>1
      <4>2. CASE j > c
        <5>1. new[j] = ps[j - 1] /\ j - 1 \in 1..n
          BY <1>1, <1>4, <2>1, <4>2
        <5>2. excess => j - 1 < n
          BY <2>1
        <5>. QED
          BY <5>1, <5>2
      <4>. QED
        BY <2>3, <4>1, <4>2
    <3>2. PICK w \in prov : w.key = k /\ w.provider = Local
      BY <3>1, <2>3 DEF ListCovered, HasLocal
    <3>3. excess => w # ps[n]
      <4> HAVE excess
      <4>1. ps[m].provider # ps[n].provider
        BY <3>1, SortedUnique
      <4>. QED
        BY <3>1, <3>2, <4>1
    <3>4. w \in prov2
      BY <1>3, <3>3 DEF prov2, out
    <3>. QED
      BY <3>2, <3>4 DEF HasLocal
  <2>. QED
    BY <2>2, <2>3
<1>. QED
  BY <1>2, <1>3, <1>6

LEMMA InsertLInv ==
    ASSUME LInv, NEW r \in ProviderRecords, AddProvider(r), AddProviderInsert(r)
    PROVE  LInv'
<1> DEFINE k == r.key
           ps == providers[k]
           n == Len(ps)
           c == CloserPos(ps, r)
           ins == VecInsert(ps, c, r)
           excess == Len(ins) > MaxProvidersPerKey
           new == IF excess THEN SubSeq(ins, 1, Len(ins) - 1) ELSE ins
           out == IF excess THEN {ins[Len(ins)]} ELSE {}
<1>1. k \in Keys
  BY DEF ProviderRecords, k
<1>2. ps \in Seq(ProviderRecords) /\ n \in Nat /\ SortedFor(ps, k)
  BY <1>1, OrderedIsSorted DEF LInv, IInv, TypeOK, ps, n
<1>3. \A j \in 1..n : ps[j].provider # r.provider
  BY <1>2, ProviderPosFacts DEF AddProviderInsert, ps, n, k
<1>4. c \in 1..n
  BY <1>2, CloserPosFacts DEF AddProviderInsert, c, ps, n, k
<1>5. ListCovered(ps, k, provided)
  BY <1>1, CoveredIsLocalProvided DEF LInv, ps
<1>6. /\ ListCovered(new, k, (provided \cup IfLocal(r)) \ out)
      /\ \A w \in out : w.key = k
  BY <1>1, <1>2, <1>3, <1>4, <1>5, InsertCovered DEF new, out, excess, ins, n
<1>7. providers' = [providers EXCEPT ![k] = new]
      /\ provided' = (provided \cup IfLocal(r)) \ out
  BY DEF AddProviderInsert, new, out, excess, ins, c, ps, k
<1>8. \A w \in provided : w.key # k => w \in provided'
  BY <1>6, <1>7
<1>. QED
  BY <1>1, <1>6, <1>7, <1>8, ReplaceCovered, AddProviderIInv DEF LInv

\* Vec::remove on a provider list, element by element.
LEMMA RemoveAt ==
    ASSUME NEW n \in Nat, NEW ps \in Seq(ProviderRecords), Len(ps) = n,
           NEW i \in 1..n
    PROVE  /\ Len(VecRemove(ps, i)) = n - 1
           /\ \A j \in 1..n - 1 :
                 VecRemove(ps, i)[j] = IF j < i THEN ps[j] ELSE ps[j + 1]
<1>1. /\ VecRemove(ps, i) \in Seq(ProviderRecords)
      /\ Len(VecRemove(ps, i)) = n - 1
  BY VecRemoveFacts
<1>2. \A j \in 1..n - 1 : VecRemove(ps, i)[j] = IF j < i THEN ps[j] ELSE ps[j + 1]
  BY VecRemoveFacts
<1>. QED
  BY <1>1, <1>2

\* remove_provider drops ps[i] from provided; a local record that stays in
\* the list has another provider than ps[i], so ps[i] is not local then.
LEMMA RemoveProviderLInv ==
    ASSUME LInv, NEW k \in Keys, NEW p \in Peers, RemoveProvider(k, p)
    PROVE  LInv'
<1> DEFINE ps == providers[k]
           n == Len(ps)
           i == ProviderPos(ps, p)
           new == VecRemove(ps, i)
<1>1. ps \in Seq(ProviderRecords) /\ n \in Nat /\ SortedFor(ps, k)
  BY OrderedIsSorted DEF LInv, IInv, TypeOK, ps, n
<1>2. i \in 1..n
  BY <1>1, ProviderPosFacts DEF RemoveProvider, i, ps, n
<1>3. /\ Len(new) = n - 1
      /\ \A j \in 1..n - 1 : new[j] = IF j < i THEN ps[j] ELSE ps[j + 1]
  BY <1>1, <1>2, RemoveAt DEF new
<1>4. providers' = [providers EXCEPT ![k] = new] /\ provided' = provided \ {ps[i]}
  BY DEF RemoveProvider, new, i, ps
<1>5. ListCovered(ps, k, provided)
  BY CoveredIsLocalProvided DEF LInv, ps
<1>6. ListCovered(new, k, provided')
  <2> SUFFICES ASSUME NEW j \in 1..Len(new), new[j].provider = Local
               PROVE  HasLocal(k, provided')
    BY DEF ListCovered
  <2>1. PICK m \in 1..n : new[j] = ps[m] /\ m # i
    <3>1. CASE j < i
      BY <1>3, <3>1
    <3>2. CASE ~(j < i)
      BY <1>3, <3>2
    <3>. QED
      BY <3>1, <3>2
  <2>2. PICK w \in provided : w.key = k /\ w.provider = Local
    BY <1>5, <2>1 DEF ListCovered, HasLocal
  <2>3. ps[m].provider # ps[i].provider
    BY <1>1, <1>2, <2>1, SortedUnique
  <2>4. w # ps[i]
    BY <2>1, <2>2, <2>3
  <2>. QED
    BY <1>4, <2>2, <2>4 DEF HasLocal
<1>7. ps[i].key = k
  BY <1>1, <1>2 DEF SortedFor
<1>8. \A w \in provided : w.key # k => w \in provided'
  BY <1>4, <1>7
<1>. QED
  BY <1>4, <1>6, <1>8, ReplaceCovered, RemoveProviderIInv DEF LInv

\* put, remove and retain leave the provider lists and provided alone.
LEMMA RecordsLInv ==
    ASSUME LInv, LInv!1', UNCHANGED <<providers, provided>>
    PROVE  LInv'
BY DEF LInv, LocalProvidersProvided

\* Every step of the store, or a stutter, preserves the invariant.
LEMMA NextLInv == LInv /\ [Next]_vars => LInv'
<1> SUFFICES ASSUME LInv, [Next]_vars PROVE LInv'
  OBVIOUS
<1>1. CASE \E k \in Keys, v \in Values, e \in Expansions :
             /\ e.kind = "single" => e.vals = {v}
             /\ Put(k, v, e)
  BY <1>1, PutIInv, RecordsLInv DEF Put, LInv
<1>2. CASE \E k \in Keys : Remove(k)
  BY <1>2, RemoveIInv, RecordsLInv DEF Remove, LInv
<1>3. CASE Retain
  BY <1>3, RetainIInv, RecordsLInv DEF Retain, LInv
<1>4. CASE \E r \in ProviderRecords : AddProvider(r)
  <2>1. PICK r \in ProviderRecords : AddProvider(r)
    BY <1>4
  <2>. QED
    BY <2>1, UpdateLInv, InsertLInv, PushLInv DEF AddProvider
<1>5. CASE \E k \in Keys, p \in Peers : RemoveProvider(k, p)
  BY <1>5, RemoveProviderLInv
<1>6. CASE UNCHANGED vars
  BY <1>6 DEF vars, LInv, IInv, TypeOK, ProvidersOrdered, LocalProvidersProvided
<1>. QED
  BY <1>1, <1>2, <1>3, <1>4, <1>5, <1>6 DEF Next

\* Every record of the local peer that add_provider keeps in a provider list
\* has a record of the local peer for that key in `provided`, after any
\* interleaving of add_provider (its update, insert, excess pop and push) and
\* remove_provider: the set that provided() iterates never loses a key the
\* local peer still provides.
THEOREM LocalProvidersProvidedInvariant == Spec => []LocalProvidersProvided
<1>1. Spec => []LInv
  BY InitLInv, NextLInv, PTL DEF Spec
<1>. QED
  BY <1>1, PTL DEF LInv
=============================================================================
