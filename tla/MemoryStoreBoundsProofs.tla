---------------------- MODULE MemoryStoreBoundsProofs ----------------------
(***************************************************************************)
(* Proof that the store never holds more than max_records record keys nor  *)
(* more than max_provided_keys provider keys (StoreBounds), for every      *)
(* value of the constants.  The keys may be infinitely many: the sets the  *)
(* bounds are about stay finite because each call adds at most one key.   *)
(***************************************************************************)
EXTENDS MemoryStoreProofs, FiniteSetTheorems

\* The inductive invariant: the provider lists are typed and sorted, both
\* key sets are finite, and both bounds hold.
BInv ==
    /\ IInv
    /\ IsFiniteSet(recKeys)
    /\ IsFiniteSet(ProviderKeys)
    /\ StoreBounds

-----------------------------------------------------------------------------
(* What add_provider does to the providers map, in all three branches: it   *)
(* replaces the list of the record's key by a non-empty one.                *)

\* The list the insert branch stores, with or without the excess pop, is a
\* non-empty list of provider records.
LEMMA InsertNonEmpty ==
    ASSUME NEW n \in Nat, NEW ps \in Seq(ProviderRecords), Len(ps) = n,
           NEW c \in 1..n, NEW r \in ProviderRecords
    PROVE  LET ins == VecInsert(ps, c, r)
               new == IF Len(ins) > MaxProvidersPerKey
                      THEN SubSeq(ins, 1, Len(ins) - 1) ELSE ins
           IN  new \in Seq(ProviderRecords) /\ Len(new) >= 1
<1>1. VecInsert(ps, c, r) \in Seq(ProviderRecords)
      /\ Len(VecInsert(ps, c, r)) = n + 1
  BY VecInsertFacts
<1>2. CASE n + 1 > MaxProvidersPerKey
  <2>1. n \in Nat \ {0}
    BY <1>2, StoreAssumption
  <2>2. SubSeq(VecInsert(ps, c, r), 1, n) \in Seq(ProviderRecords)
        /\ Len(SubSeq(VecInsert(ps, c, r), 1, n)) = n
    BY <1>1, <2>1, VecPopFacts
  <2>. QED
    BY <1>1, <1>2, <2>1, <2>2
<1>3. CASE ~(n + 1 > MaxProvidersPerKey)
  BY <1>1, <1>3
<1>. QED
  BY <1>2, <1>3

LEMMA AddProviderShape ==
    ASSUME IInv, NEW r \in ProviderRecords, AddProvider(r)
    PROVE  \E new \in Seq(ProviderRecords) :
              /\ Len(new) >= 1
              /\ providers' = [providers EXCEPT ![r.key] = new]
<1> DEFINE k == r.key
           ps == providers[k]
           n == Len(ps)
           pos == ProviderPos(ps, r.provider)
           c == CloserPos(ps, r)
<1>1. k \in Keys /\ ps \in Seq(ProviderRecords) /\ n \in Nat
  <2>1. k \in Keys
    BY DEF ProviderRecords, k
  <2>2. ps \in Seq(ProviderRecords) /\ n \in Nat
    BY <2>1 DEF IInv, TypeOK, ps, n
  <2>. QED
    BY <2>1, <2>2
<1>2. CASE AddProviderUpdate(r)
  <2>1. pos \in 1..n
    BY <1>1, <1>2, ProviderPosFacts DEF AddProviderUpdate
  <2>2. /\ [ps EXCEPT ![pos] = r] \in Seq(ProviderRecords)
        /\ Len([ps EXCEPT ![pos] = r]) = n
    BY <1>1, <2>1, ExceptSeq
  <2>3. providers' = [providers EXCEPT ![r.key] = [ps EXCEPT ![pos] = r]]
    BY <1>2 DEF AddProviderUpdate, k, ps, pos
  <2>4. Len([ps EXCEPT ![pos] = r]) >= 1
    BY <2>1, <2>2
  <2>. QED
    BY <2>2, <2>3, <2>4, Zenon
<1>3. CASE AddProviderInsert(r)
  <2>1. c \in 1..n
    BY <1>1, <1>3, CloserPosFacts DEF AddProviderInsert
  <2> DEFINE ins == VecInsert(ps, c, r)
             new == IF Len(ins) > MaxProvidersPerKey
                    THEN SubSeq(ins, 1, Len(ins) - 1) ELSE ins
  <2>3. new \in Seq(ProviderRecords) /\ Len(new) >= 1
    BY <1>1, <2>1, InsertNonEmpty DEF n
  <2>4. providers' = [providers EXCEPT ![r.key] = new]
    BY <1>3 DEF AddProviderInsert, new, ins, c, ps, k
  <2>. QED
    BY <2>3, <2>4, Zenon
<1>4. CASE AddProviderPush(r)
  <2>1. Append(ps, r) \in Seq(ProviderRecords) /\ Len(Append(ps, r)) = n + 1
    BY <1>1, AppendProperties
  <2>2. providers' = [providers EXCEPT ![r.key] = Append(ps, r)]
    BY <1>4 DEF AddProviderPush, ps, k
  <2>3. Len(Append(ps, r)) >= 1
    BY <1>1, <2>1
  <2>. QED
    BY <2>1, <2>2, <2>3, Zenon
<1>. QED
  BY <1>2, <1>3, <1>4 DEF AddProvider

\* Replacing one key's list by a non-empty one adds that key to the keys of
\* the providers map and leaves the others as they were.
LEMMA ProviderKeysAdd ==
    ASSUME TypeOK, NEW k \in Keys, NEW new \in Seq(ProviderRecords), Len(new) >= 1,
           providers' = [providers EXCEPT ![k] = new]
    PROVE  ProviderKeys' = ProviderKeys \cup {k}
<1>1. new # <<>>
  BY EmptySeq
<1>. QED
  BY <1>1 DEF ProviderKeys, TypeOK

\* Replacing one key's list by any list removes at most that key.
LEMMA ProviderKeysShrink ==
    ASSUME TypeOK, NEW k \in ProviderKeys, NEW new,
           providers' = [providers EXCEPT ![k] = new]
    PROVE  ProviderKeys' \subseteq ProviderKeys
BY DEF ProviderKeys, TypeOK

-----------------------------------------------------------------------------
(* One lemma per call of the store. *)

LEMMA InitBInv == Init => BInv
<1> SUFFICES ASSUME Init PROVE BInv
  OBVIOUS
<1>1. recKeys = {} /\ ProviderKeys = {}
  BY DEF Init, ProviderKeys
<1>. QED
  BY <1>1, InitIInv, FS_EmptySet, StoreAssumption DEF BInv, StoreBounds

\* put: a new key is admitted only while fewer than max_records are stored.
LEMMA PutBInv ==
    ASSUME BInv, NEW k \in Keys, NEW v \in Values, NEW e \in Expansions,
           Put(k, v, e)
    PROVE  BInv'
<1>1. IInv'
  BY PutIInv DEF BInv
<1>2. recKeys' = recKeys \cup {k} /\ providers' = providers
  BY DEF Put
<1>3. IsFiniteSet(recKeys') /\ Cardinality(recKeys') <= MaxRecords
  <2>1. /\ IsFiniteSet(recKeys \cup {k})
        /\ Cardinality(recKeys \cup {k}) =
             IF k \in recKeys THEN Cardinality(recKeys) ELSE Cardinality(recKeys) + 1
    BY FS_AddElement DEF BInv
  <2>2. k \notin recKeys => Cardinality(recKeys) < MaxRecords
    BY DEF Put
  <2>3. Cardinality(recKeys) \in Nat /\ Cardinality(recKeys) <= MaxRecords
    BY FS_CardinalityType DEF BInv, StoreBounds
  <2>4. Cardinality(recKeys \cup {k}) <= MaxRecords
    BY <2>1, <2>2, <2>3, StoreAssumption
  <2>. QED
    BY <1>2, <2>1, <2>4
<1>4. ProviderKeys' = ProviderKeys
  BY <1>2 DEF ProviderKeys
<1>. QED
  BY <1>1, <1>3, <1>4 DEF BInv, StoreBounds

\* remove and retain never add a key.
LEMMA RemoveBInv ==
    ASSUME BInv, NEW k \in Keys, Remove(k)
    PROVE  BInv'
<1>1. IInv'
  BY RemoveIInv DEF BInv
<1>2. recKeys' \subseteq recKeys /\ providers' = providers
  BY DEF Remove
<1>3. IsFiniteSet(recKeys') /\ Cardinality(recKeys') <= MaxRecords
  <2>1. IsFiniteSet(recKeys') /\ Cardinality(recKeys') <= Cardinality(recKeys)
    BY <1>2, FS_Subset DEF BInv
  <2>2. Cardinality(recKeys') \in Nat /\ Cardinality(recKeys) \in Nat
    BY <2>1, FS_CardinalityType DEF BInv
  <2>. QED
    BY <2>1, <2>2, StoreAssumption DEF BInv, StoreBounds
<1>4. ProviderKeys' = ProviderKeys
  BY <1>2 DEF ProviderKeys
<1>. QED
  BY <1>1, <1>3, <1>4 DEF BInv, StoreBounds

LEMMA RetainBInv ==
    ASSUME BInv, Retain
    PROVE  BInv'
<1>1. IInv'
  BY RetainIInv DEF BInv
<1>2. recKeys' = recKeys /\ providers' = providers
  BY DEF Retain
<1>3. ProviderKeys' = ProviderKeys
  BY <1>2 DEF ProviderKeys
<1>. QED
  BY <1>1, <1>2, <1>3 DEF BInv, StoreBounds

\* add_provider: a new key is admitted only while the map holds fewer than
\* max_provided_keys keys.
LEMMA AddProviderBInv ==
    ASSUME BInv, NEW r \in ProviderRecords, AddProvider(r)
    PROVE  BInv'
<1>1. IInv'
  BY AddProviderIInv DEF BInv
<1>2. recKeys' = recKeys
  BY DEF AddProvider
<1>3. ProviderKeys' = ProviderKeys \cup {r.key}
  <2>1. PICK new \in Seq(ProviderRecords) :
          /\ Len(new) >= 1
          /\ providers' = [providers EXCEPT ![r.key] = new]
    BY AddProviderShape DEF BInv
  <2>. QED
    BY <2>1, ProviderKeysAdd DEF BInv, IInv, ProviderRecords
<1>4. IsFiniteSet(ProviderKeys') /\ Cardinality(ProviderKeys') <= MaxProvidedKeys
  <2>1. /\ IsFiniteSet(ProviderKeys \cup {r.key})
        /\ Cardinality(ProviderKeys \cup {r.key}) =
             IF r.key \in ProviderKeys THEN Cardinality(ProviderKeys)
             ELSE Cardinality(ProviderKeys) + 1
    BY FS_AddElement DEF BInv
  <2>2. r.key \notin ProviderKeys => Cardinality(ProviderKeys) # MaxProvidedKeys
    BY DEF AddProvider
  <2>3. Cardinality(ProviderKeys) \in Nat
        /\ Cardinality(ProviderKeys) <= MaxProvidedKeys
    BY FS_CardinalityType DEF BInv, StoreBounds
  <2>4. Cardinality(ProviderKeys \cup {r.key}) <= MaxProvidedKeys
    BY <2>1, <2>2, <2>3, StoreAssumption
  <2>. QED
    BY <1>3, <2>1, <2>4
<1>. QED
  BY <1>1, <1>2, <1>4 DEF BInv, StoreBounds

\* remove_provider removes a provider from a key that has one.
LEMMA RemoveProviderBInv ==
    ASSUME BInv, NEW k \in Keys, NEW p \in Peers, RemoveProvider(k, p)
    PROVE  BInv'
<1>1. IInv'
  BY RemoveProviderIInv DEF BInv
<1>2. recKeys' = recKeys
  BY DEF RemoveProvider
<1>3. k \in ProviderKeys
  <2>1. providers[k] \in Seq(ProviderRecords)
    BY DEF BInv, IInv, TypeOK
  <2>2. ProviderPos(providers[k], p) \in 1..Len(providers[k])
    BY <2>1, ProviderPosFacts DEF RemoveProvider
  <2>3. providers[k] # <<>>
    BY <2>2
  <2>. QED
    BY <2>3 DEF ProviderKeys
<1>4. ProviderKeys' \subseteq ProviderKeys
  BY <1>3, ProviderKeysShrink DEF RemoveProvider, BInv, IInv
<1>5. IsFiniteSet(ProviderKeys') /\ Cardinality(ProviderKeys') <= MaxProvidedKeys
  <2>1. IsFiniteSet(ProviderKeys')
        /\ Cardinality(ProviderKeys') <= Cardinality(ProviderKeys)
    BY <1>4, FS_Subset DEF BInv
  <2>2. Cardinality(ProviderKeys') \in Nat /\ Cardinality(ProviderKeys) \in Nat
    BY <2>1, FS_CardinalityType DEF BInv
  <2>. QED
    BY <2>1, <2>2, StoreAssumption DEF BInv, StoreBounds
<1>. QED
  BY <1>1, <1>2, <1>5 DEF BInv, StoreBounds

LEMMA NextBInv == BInv /\ [Next]_vars => BInv'
<1> SUFFICES ASSUME BInv, [Next]_vars PROVE BInv'
  OBVIOUS
<1>1. CASE \E k \in Keys, v \in Values, e \in Expansions :
             /\ e.kind = "single" => e.vals = {v}
             /\ Put(k, v, e)
  BY <1>1, PutBInv
<1>2. CASE \E k \in Keys : Remove(k)
  BY <1>2, RemoveBInv
<1>3. CASE Retain
  BY <1>3, RetainBInv
<1>4. CASE \E r \in ProviderRecords : AddProvider(r)
  BY <1>4, AddProviderBInv
<1>5. CASE \E k \in Keys, p \in Peers : RemoveProvider(k, p)
  BY <1>5, RemoveProviderBInv
<1>6. CASE UNCHANGED vars
  BY <1>6 DEF vars, BInv, IInv, TypeOK, ProvidersOrdered, ProviderKeys, StoreBounds
<1>. QED
  BY <1>1, <1>2, <1>3, <1>4, <1>5, <1>6 DEF Next

(* Theorem: however put, remove, retain, add_provider and remove_provider  *)
(* calls interleave, the records map never holds more than max_records     *)
(* keys and the providers map never more than max_provided_keys keys.      *)
THEOREM StoreBoundsInvariant == Spec => []StoreBounds
<1>1. Spec => []BInv
  BY InitBInv, NextBInv, PTL DEF Spec
<1>. QED
  BY <1>1, PTL DEF BInv
=============================================================================
