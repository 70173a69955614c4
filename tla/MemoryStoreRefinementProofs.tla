------------------- MODULE MemoryStoreRefinementProofs -------------------
(***************************************************************************)
(* Proof that the provider lists of the Kademlia MemoryStore, read as the  *)
(* sets of records they hold, implement the abstract ProviderStore, for    *)
(* every value of the constants (ProviderSetRefinement).                   *)
(*                                                                         *)
(* The argument: a list sorted strictly by distance holds each record      *)
(* once, and its j-th record has exactly j - 1 records of the list closer  *)
(* to the key.  So ProviderStore's Closest, applied to the records of such *)
(* a list, keeps its first MaxProvidersPerKey records: what add_provider's *)
(* push, insert and pop of the farthest record leave in the list.          *)
(***************************************************************************)
EXTENDS MemoryStoreProvidedProofs, FiniteSetTheorems

\* The refinement mapping of ProviderSet: the records of each key's list.
PS == [k \in Keys |-> Range(providers[k])]

\* A list ordered strictly by the distance of its providers to key k.
Ordered(q, k) ==
    \A a, b \in 1..Len(q) : a < b => Dist[k][q[a].provider] < Dist[k][q[b].provider]

\* The records of a list are its elements at positions 1..Len.
LEMMA RangeSeq ==
    ASSUME NEW q \in Seq(ProviderRecords)
    PROVE  Range(q) = {q[i] : i \in 1..Len(q)}
BY DEF Range

\* t distinct elements make a set of t elements.
LEMMA ImageCard ==
    ASSUME NEW t \in Nat, NEW q,
           \A a, b \in 1..t : a # b => q[a] # q[b]
    PROVE  Cardinality({q[i] : i \in 1..t}) = t
<1> DEFINE T == {q[i] : i \in 1..t}
           f == [i \in 1..t |-> q[i]]
<1>1. f \in Bijection(1..t, T)
  BY DEF Bijection, Injection, Surjection, IsInjective
<1>2. ExistsBijection(1..t, T)
  BY <1>1 DEF ExistsBijection
<1>3. IsFiniteSet(1..t) /\ Cardinality(1..t) = t
  BY FS_Interval
<1>. QED
  BY <1>2, <1>3, FS_Bijection

\* In an ordered list, distance order is position order, and no record is
\* held twice.
LEMMA OrderedFacts ==
    ASSUME NEW k \in Keys, NEW q \in Seq(ProviderRecords), Ordered(q, k),
           NEW a \in 1..Len(q), NEW b \in 1..Len(q)
    PROVE  /\ Dist[k][q[a].provider] < Dist[k][q[b].provider] <=> a < b
           /\ a # b => q[a] # q[b]
<1>1. q[a] \in ProviderRecords /\ q[b] \in ProviderRecords
  OBVIOUS
<1>2. Dist[k][q[a].provider] \in Nat /\ Dist[k][q[b].provider] \in Nat
  BY <1>1, DistFacts DEF ProviderRecords
<1>3. a < b => Dist[k][q[a].provider] < Dist[k][q[b].provider]
  BY DEF Ordered
<1>4. b < a => Dist[k][q[b].provider] < Dist[k][q[a].provider]
  BY DEF Ordered
<1>. QED
  BY <1>2, <1>3, <1>4

\* The j-th record of an ordered list has j - 1 records of the list closer
\* to the key.
LEMMA CloserCount ==
    ASSUME NEW k \in Keys, NEW q \in Seq(ProviderRecords), Ordered(q, k),
           NEW j \in 1..Len(q)
    PROVE  Cardinality({y \in Range(q) : Dist[k][y.provider] < Dist[k][q[j].provider]})
               = j - 1
<1>1. {y \in Range(q) : Dist[k][y.provider] < Dist[k][q[j].provider]}
        = {q[i] : i \in 1..j - 1}
  <2>1. \A i \in 1..Len(q) : Dist[k][q[i].provider] < Dist[k][q[j].provider] <=> i < j
    BY OrderedFacts
  <2>. QED
    BY <2>1, RangeSeq
<1>2. \A a, b \in 1..j - 1 : a # b => q[a] # q[b]
  BY OrderedFacts
<1>3. j - 1 \in Nat
  OBVIOUS
<1>4. Cardinality({q[i] : i \in 1..j - 1}) = j - 1
  BY <1>2, <1>3, ImageCard
<1>. QED
  BY <1>1, <1>4

\* ProviderStore's instance of FiniteSets counts as FiniteSets does.
LEMMA CardinalitySame ==
    ASSUME NEW S
    PROVE  ProviderSet!Cardinality(S) = Cardinality(S)
BY DEF ProviderSet!Cardinality, Cardinality

\* ProviderStore's Closest keeps the first MaxProvidersPerKey records of an
\* ordered list.
LEMMA ClosestOrdered ==
    ASSUME NEW k \in Keys, NEW q \in Seq(ProviderRecords), Ordered(q, k)
    PROVE  ProviderSet!Closest(Range(q), k)
               = {q[j] : j \in {i \in 1..Len(q) : i <= MaxProvidersPerKey}}
<1>1. \A j \in 1..Len(q) :
        q[j] \in ProviderSet!Closest(Range(q), k) <=> j <= MaxProvidersPerKey
  <2> SUFFICES ASSUME NEW j \in 1..Len(q)
               PROVE  q[j] \in ProviderSet!Closest(Range(q), k) <=> j <= MaxProvidersPerKey
    OBVIOUS
  <2>1. q[j] \in Range(q)
    BY RangeSeq
  <2>2. Cardinality({y \in Range(q) : Dist[k][y.provider] < Dist[k][q[j].provider]})
          = j - 1
    BY CloserCount
  <2>3. MaxProvidersPerKey \in Nat
    BY StoreAssumption
  <2>4. q[j] \in ProviderSet!Closest(Range(q), k)
          <=> ProviderSet!Cardinality({y \in Range(q) :
                  Dist[k][y.provider] < Dist[k][q[j].provider]}) < MaxProvidersPerKey
    BY <2>1 DEF ProviderSet!Closest
  <2>5. ProviderSet!Cardinality({y \in Range(q) :
            Dist[k][y.provider] < Dist[k][q[j].provider]}) = j - 1
    BY <2>2, CardinalitySame
  <2>. QED
    BY <2>3, <2>4, <2>5
<1>2. ProviderSet!Closest(Range(q), k) \subseteq Range(q)
  BY DEF ProviderSet!Closest
<1>. QED
  BY <1>1, <1>2, RangeSeq

-----------------------------------------------------------------------------
(* The refinement mapping, one list at a time.                             *)

\* A list holds no record exactly when it is empty.
LEMMA RangeEmpty ==
    ASSUME NEW q \in Seq(ProviderRecords)
    PROVE  Range(q) = {} <=> q = << >>
<1>1. Range(q) = {} <=> Len(q) = 0
  BY RangeSeq
<1>2. Len(q) = 0 <=> q = << >>
  BY EmptySeq
<1>. QED
  BY <1>1, <1>2

\* ProviderStore's keys with providers are the keys of the providers map.
LEMMA KeysWithProvidersMap ==
    ASSUME TypeOK
    PROVE  ProviderSet!KeysWithProviders = ProviderKeys
<1>1. \A k \in Keys : PS[k] = {} <=> providers[k] = << >>
  BY RangeEmpty DEF TypeOK, PS
<1>. QED
  BY <1>1 DEF ProviderSet!KeysWithProviders, ProviderKeys, PS

\* A step that replaces the list of key k replaces its set of records.
LEMMA MapReplace ==
    ASSUME TypeOK, NEW k \in Keys, NEW new,
           providers' = [providers EXCEPT ![k] = new]
    PROVE  PS' = [PS EXCEPT ![k] = Range(new)]
BY DEF PS, TypeOK

\* What add_provider must do to the records of its key to be an Add of
\* ProviderStore.
LEMMA AbstractAdd ==
    ASSUME TypeOK, NEW r \in ProviderRecords,
           PS[r.key] = {} => Cardinality(ProviderKeys) # MaxProvidedKeys,
           PS' = [PS EXCEPT ![r.key] =
                     IF {x \in PS[r.key] : x.provider = r.provider} # {}
                     THEN (PS[r.key] \ {x \in PS[r.key] : x.provider = r.provider}) \cup {r}
                     ELSE ProviderSet!Closest(PS[r.key] \cup {r}, r.key)]
    PROVE  ProviderSet!Add(r)
<1>1. ProviderSet!Cardinality(ProviderSet!KeysWithProviders) = Cardinality(ProviderKeys)
  BY KeysWithProvidersMap, CardinalitySame
<1>. QED
  BY <1>1 DEF ProviderSet!Add, PS

\* What remove_provider must do to be a Remove of ProviderStore.
LEMMA AbstractRemove ==
    ASSUME NEW k \in Keys, NEW p \in Peers,
           \E x \in PS[k] : x.provider = p,
           PS' = [PS EXCEPT ![k] = {x \in PS[k] : x.provider # p}]
    PROVE  ProviderSet!Remove(k, p)
BY DEF ProviderSet!Remove, PS

-----------------------------------------------------------------------------
(* The records of the lists add_provider builds.                           *)

LEMMA SortedOrdered ==
    ASSUME NEW k, NEW q, SortedFor(q, k)
    PROVE  Ordered(q, k)
BY DEF SortedFor, Ordered

\* Vec::push adds one record.
LEMMA RangeAppend ==
    ASSUME NEW ps \in Seq(ProviderRecords), NEW r \in ProviderRecords
    PROVE  Range(Append(ps, r)) = Range(ps) \cup {r}
<1>1. /\ Append(ps, r) \in Seq(ProviderRecords)
      /\ Len(Append(ps, r)) = Len(ps) + 1
      /\ \A j \in 1..Len(ps) : Append(ps, r)[j] = ps[j]
      /\ Append(ps, r)[Len(ps) + 1] = r
  BY AppendProperties
<1>2. Range(Append(ps, r)) = {Append(ps, r)[j] : j \in 1..Len(ps) + 1}
  BY <1>1 DEF Range
<1>3. Range(ps) = {ps[j] : j \in 1..Len(ps)}
  BY RangeSeq
<1>. QED
  BY <1>1, <1>2, <1>3

\* An ordered list of at most MaxProvidersPerKey records is what Closest
\* keeps of it.
LEMMA ClosestAll ==
    ASSUME NEW k \in Keys, NEW q \in Seq(ProviderRecords), Ordered(q, k),
           Len(q) <= MaxProvidersPerKey
    PROVE  ProviderSet!Closest(Range(q), k) = Range(q)
<1>1. ProviderSet!Closest(Range(q), k)
        = {q[j] : j \in {i \in 1..Len(q) : i <= MaxProvidersPerKey}}
  BY ClosestOrdered
<1>2. {i \in 1..Len(q) : i <= MaxProvidersPerKey} = 1..Len(q)
  BY StoreAssumption
<1>3. Range(q) = {q[j] : j \in 1..Len(q)}
  BY RangeSeq
<1>. QED
  BY <1>1, <1>2, <1>3

\* Of an ordered list one record too long, Closest keeps all but the last.
LEMMA ClosestPop ==
    ASSUME NEW k \in Keys, NEW q \in Seq(ProviderRecords), Ordered(q, k),
           Len(q) = MaxProvidersPerKey + 1
    PROVE  ProviderSet!Closest(Range(q), k)
               = Range(SubSeq(q, 1, MaxProvidersPerKey))
<1> DEFINE m == MaxProvidersPerKey
<1>1. m \in Nat \ {0}
  BY StoreAssumption
<1>2. /\ SubSeq(q, 1, m) \in Seq(ProviderRecords)
      /\ Len(SubSeq(q, 1, m)) = m
      /\ \A j \in 1..m : SubSeq(q, 1, m)[j] = q[j]
  <2>1. \A j \in 1..m : q[j] \in ProviderRecords
    BY <1>1
  <2>. QED
    BY <1>1, <2>1, SubSeqProperties
<1>3. Range(SubSeq(q, 1, m)) = {q[j] : j \in 1..m}
  BY <1>2 DEF Range
<1>4. {i \in 1..Len(q) : i <= m} = 1..m
  BY <1>1
<1>. QED
  BY <1>3, <1>4, ClosestOrdered

\* Vec::insert on a provider list makes it one record longer.
LEMMA InsertLen ==
    ASSUME NEW n \in Nat, NEW ps \in Seq(ProviderRecords), Len(ps) = n,
           NEW c \in 1..n, NEW r \in ProviderRecords
    PROVE  VecInsert(ps, c, r) \in Seq(ProviderRecords) /\ Len(VecInsert(ps, c, r)) = n + 1
BY VecInsertFacts

\* Vec::insert adds one record.
LEMMA RangeInsert ==
    ASSUME NEW n \in Nat, NEW ps \in Seq(ProviderRecords), Len(ps) = n,
           NEW c \in 1..n, NEW r \in ProviderRecords
    PROVE  Range(VecInsert(ps, c, r)) = Range(ps) \cup {r}
<1> DEFINE ins == VecInsert(ps, c, r)
<1>1. ins \in Seq(ProviderRecords) /\ Len(ins) = n + 1
  BY VecInsertFacts
<1>2. \A j \in 1..n + 1 : ins[j] = IF j < c THEN ps[j] ELSE IF j = c THEN r ELSE ps[j - 1]
  BY VecInsertAt
<1>3. Range(ins) = {ins[j] : j \in 1..n + 1}
  BY <1>1 DEF Range
<1>4. Range(ps) = {ps[j] : j \in 1..n}
  BY RangeSeq
<1>5. \A j \in 1..n : ps[j] \in Range(ins)
  <2> TAKE j \in 1..n
  <2>1. CASE j < c
    BY <2>1, <1>2, <1>3
  <2>2. CASE ~(j < c)
    <3>1. ins[j + 1] = ps[j]
      BY <2>2, <1>2
    <3>. QED
      BY <3>1, <1>3
  <2>. QED
    BY <2>1, <2>2
<1>6. r \in Range(ins)
  BY <1>2, <1>3
<1>7. Range(ins) \subseteq Range(ps) \cup {r}
  BY <1>2, <1>3, <1>4
<1>. QED
  BY <1>4, <1>5, <1>6, <1>7

-----------------------------------------------------------------------------
(* One lemma per branch of add_provider, and one for remove_provider.      *)

\* The list of r's key, as IInv gives it.
LEMMA KeyList ==
    ASSUME IInv, NEW r \in ProviderRecords
    PROVE  /\ r.key \in Keys
           /\ providers[r.key] \in Seq(ProviderRecords)
           /\ Len(providers[r.key]) \in Nat
           /\ SortedFor(providers[r.key], r.key)
<1>1. r.key \in Keys
  BY DEF ProviderRecords
<1>2. providers[r.key] \in Seq(ProviderRecords)
  BY <1>1 DEF IInv, TypeOK
<1>3. SortedFor(providers[r.key], r.key)
  BY <1>1, OrderedIsSorted DEF IInv
<1>. QED
  BY <1>1, <1>2, <1>3

\* add_provider's max_provided_keys check is ProviderStore's guard: a key
\* with no records is a key without a providers entry.
LEMMA AddGuard ==
    ASSUME IInv, NEW r \in ProviderRecords, AddProvider(r)
    PROVE  PS[r.key] = {} => Cardinality(ProviderKeys) # MaxProvidedKeys
<1>1. r.key \in Keys /\ providers[r.key] \in Seq(ProviderRecords)
  BY KeyList
<1>2. PS[r.key] = {} => providers[r.key] = << >>
  BY <1>1, RangeEmpty DEF PS
<1>3. providers[r.key] = << >> => r.key \notin ProviderKeys
  BY DEF ProviderKeys
<1>. QED
  BY <1>2, <1>3 DEF AddProvider

\* The in-place update replaces the one record of the provider.
LEMMA UpdateRefines ==
    ASSUME IInv, NEW r \in ProviderRecords, AddProvider(r), AddProviderUpdate(r)
    PROVE  ProviderSet!Add(r)
<1> DEFINE k == r.key
           ps == providers[k]
           n == Len(ps)
           pos == ProviderPos(ps, r.provider)
           new == [ps EXCEPT ![pos] = r]
           old == {x \in PS[k] : x.provider = r.provider}
<1>1. k \in Keys /\ ps \in Seq(ProviderRecords) /\ n \in Nat /\ SortedFor(ps, k)
  BY KeyList
<1>2. pos \in 1..n /\ ps[pos].provider = r.provider
  BY <1>1, ProviderPosFacts DEF AddProviderUpdate
<1>3. \A j \in 1..n : j # pos => ps[j].provider # ps[pos].provider
  BY <1>1, <1>2, SortedUnique
<1>4. PS[k] = {ps[j] : j \in 1..n}
  BY <1>1, RangeSeq DEF PS
<1>5. old = {ps[pos]}
  BY <1>2, <1>3, <1>4
<1>6. Range(new) = (PS[k] \ {ps[pos]}) \cup {r}
  <2>1. /\ new \in Seq(ProviderRecords)
        /\ Len(new) = n
        /\ \A j \in 1..n : new[j] = IF j = pos THEN r ELSE ps[j]
    BY <1>1, <1>2, ExceptSeq
  <2>2. Range(new) = {new[j] : j \in 1..n}
    BY <2>1 DEF Range
  <2>3. \A j \in 1..n : j # pos => ps[j] # ps[pos]
    BY <1>3
  <2>. QED
    BY <1>2, <1>4, <2>1, <2>2, <2>3
<1>7. PS' = [PS EXCEPT ![k] = Range(new)]
  <2>1. providers' = [providers EXCEPT ![k] = new]
    BY DEF AddProviderUpdate
  <2>. QED
    BY <1>1, <2>1, MapReplace DEF IInv
<1>8. PS' = [PS EXCEPT ![k] = IF old # {} THEN (PS[k] \ old) \cup {r}
                                ELSE ProviderSet!Closest(PS[k] \cup {r}, k)]
  BY <1>5, <1>6, <1>7
<1>. QED
  BY <1>8, AddGuard, AbstractAdd DEF IInv

\* The push of a provider farther than all: Closest keeps every record, as
\* there is room for the new one.
LEMMA PushRefines ==
    ASSUME IInv, NEW r \in ProviderRecords, AddProvider(r), AddProviderPush(r)
    PROVE  ProviderSet!Add(r)
<1> DEFINE k == r.key
           ps == providers[k]
           n == Len(ps)
           new == Append(ps, r)
           old == {x \in PS[k] : x.provider = r.provider}
<1>1. k \in Keys /\ ps \in Seq(ProviderRecords) /\ n \in Nat /\ SortedFor(ps, k)
  BY KeyList
<1>2. \A j \in 1..n : ps[j].provider # r.provider
  BY <1>1, ProviderPosFacts DEF AddProviderPush
<1>3. \A j \in 1..n : ~(Dist[k][r.provider] < Dist[k][ps[j].provider])
  BY <1>1, CloserPosFacts DEF AddProviderPush
<1>4. new \in Seq(ProviderRecords) /\ SortedFor(new, k)
  <2>1. n < MaxProvidersPerKey
    BY DEF AddProviderPush
  <2>. QED
    BY <1>1, <1>2, <1>3, <2>1, PushSorted
<1>5. PS[k] = Range(ps)
  BY <1>1 DEF PS
<1>6. old = {}
  BY <1>1, <1>2, <1>5, RangeSeq
<1>7. ProviderSet!Closest(PS[k] \cup {r}, k) = Range(new)
  <2>1. Range(new) = PS[k] \cup {r}
    BY <1>1, <1>5, RangeAppend
  <2>2. Ordered(new, k) /\ Len(new) <= MaxProvidersPerKey
    BY <1>4, SortedOrdered DEF SortedFor
  <2>3. ProviderSet!Closest(Range(new), k) = Range(new)
    BY <1>1, <1>4, <2>2, ClosestAll
  <2>. QED
    BY <2>1, <2>3
<1>8. PS' = [PS EXCEPT ![k] = Range(new)]
  <2>1. providers' = [providers EXCEPT ![k] = new]
    BY DEF AddProviderPush
  <2>. QED
    BY <1>1, <2>1, MapReplace DEF IInv
<1>9. PS' = [PS EXCEPT ![k] = IF old # {} THEN (PS[k] \ old) \cup {r}
                                ELSE ProviderSet!Closest(PS[k] \cup {r}, k)]
  BY <1>6, <1>7, <1>8
<1>. QED
  BY <1>9, AddGuard, AbstractAdd DEF IInv

\* The insert before the first farther provider: the list with the new
\* record is ordered, and the pop of its last record when it overflows is
\* what Closest drops.
LEMMA InsertRefines ==
    ASSUME IInv, NEW r \in ProviderRecords, AddProvider(r), AddProviderInsert(r)
    PROVE  ProviderSet!Add(r)
<1> DEFINE k == r.key
           ps == providers[k]
           n == Len(ps)
           c == CloserPos(ps, r)
           ins == VecInsert(ps, c, r)
           new == IF Len(ins) > MaxProvidersPerKey
                  THEN SubSeq(ins, 1, Len(ins) - 1) ELSE ins
           old == {x \in PS[k] : x.provider = r.provider}
<1>1. k \in Keys /\ ps \in Seq(ProviderRecords) /\ n \in Nat /\ SortedFor(ps, k)
  BY KeyList
<1>2. \A j \in 1..n : ps[j].provider # r.provider
  BY <1>1, ProviderPosFacts DEF AddProviderInsert
<1>3. /\ c \in 1..n
      /\ Dist[k][r.provider] < Dist[k][ps[c].provider]
      /\ \A j \in 1..c - 1 : ~(Dist[k][r.provider] < Dist[k][ps[j].provider])
  BY <1>1, CloserPosFacts DEF AddProviderInsert
<1>4. /\ ins \in Seq(ProviderRecords)
      /\ Len(ins) = n + 1
      /\ \A a, b \in 1..n + 1 :
            a < b => Dist[k][ins[a].provider] < Dist[k][ins[b].provider]
  <2>1. ins \in Seq(ProviderRecords) /\ Len(ins) = n + 1
    BY <1>1, <1>3, InsertLen DEF ins
  <2>2. ASSUME NEW a \in 1..n + 1, NEW b \in 1..n + 1, a < b
        PROVE  Dist[k][ins[a].provider] < Dist[k][ins[b].provider]
    BY <1>1, <1>2, <1>3, <2>2, InsertPairOrdered DEF ins
  <2>. QED
    BY <2>1, <2>2
<1>5. PS[k] = Range(ps)
  BY <1>1 DEF PS
<1>6. old = {}
  BY <1>1, <1>2, <1>5, RangeSeq
<1>7. Ordered(ins, k) /\ Range(ins) = PS[k] \cup {r}
  <2>1. Ordered(ins, k)
    BY <1>4 DEF Ordered
  <2>2. Range(ins) = Range(ps) \cup {r}
    BY <1>1, <1>3, RangeInsert DEF ins
  <2>. QED
    BY <1>5, <2>1, <2>2
<1>8. ProviderSet!Closest(PS[k] \cup {r}, k) = Range(new)
  <2>1. CASE n + 1 > MaxProvidersPerKey
    <3>1. n = MaxProvidersPerKey
      BY <2>1, <1>1, StoreAssumption DEF SortedFor
    <3>2. Len(ins) = MaxProvidersPerKey + 1 /\ new = SubSeq(ins, 1, MaxProvidersPerKey)
      BY <1>4, <2>1, <3>1
    <3>. QED
      BY <1>1, <1>4, <1>7, <3>2, ClosestPop
  <2>2. CASE ~(n + 1 > MaxProvidersPerKey)
    <3>1. Len(ins) <= MaxProvidersPerKey /\ new = ins
      BY <1>4, <2>2, StoreAssumption
    <3>. QED
      BY <1>1, <1>4, <1>7, <3>1, ClosestAll
  <2>. QED
    BY <2>1, <2>2
<1>9. PS' = [PS EXCEPT ![k] = Range(new)]
  <2>1. providers' = [providers EXCEPT ![k] = new]
    BY DEF AddProviderInsert
  <2>. QED
    BY <1>1, <2>1, MapReplace DEF IInv
<1>10. PS' = [PS EXCEPT ![k] = IF old # {} THEN (PS[k] \ old) \cup {r}
                                 ELSE ProviderSet!Closest(PS[k] \cup {r}, k)]
  BY <1>6, <1>8, <1>9
<1>. QED
  BY <1>10, AddGuard, AbstractAdd DEF IInv

\* remove_provider's Vec::remove drops the one record of the provider.
LEMMA RemoveRefines ==
    ASSUME IInv, NEW k \in Keys, NEW p \in Peers, RemoveProvider(k, p)
    PROVE  ProviderSet!Remove(k, p)
<1> DEFINE ps == providers[k]
           n == Len(ps)
           i == ProviderPos(ps, p)
           new == VecRemove(ps, i)
<1>1. ps \in Seq(ProviderRecords) /\ n \in Nat /\ SortedFor(ps, k)
  BY OrderedIsSorted DEF IInv, TypeOK
<1>2. i \in 1..n /\ ps[i].provider = p
  BY <1>1, ProviderPosFacts DEF RemoveProvider
<1>3. \A j \in 1..n : j # i => ps[j].provider # p
  BY <1>1, <1>2, SortedUnique
<1>4. PS[k] = {ps[j] : j \in 1..n}
  BY <1>1, RangeSeq DEF PS
<1>5. /\ new \in Seq(ProviderRecords)
      /\ Len(new) = n - 1
      /\ \A j \in 1..n - 1 : new[j] = IF j < i THEN ps[j] ELSE ps[j + 1]
  <2>1. new \in Seq(ProviderRecords)
    BY <1>1, <1>2, RemoveSorted
  <2>. QED
    BY <1>1, <1>2, <2>1, RemoveAt
<1>6. Range(new) = {x \in PS[k] : x.provider # p}
  <2>1. Range(new) = {new[j] : j \in 1..n - 1}
    BY <1>5 DEF Range
  <2>2. \A j \in 1..n - 1 : new[j] \in PS[k] /\ new[j].provider # p
    BY <1>3, <1>4, <1>5
  <2>3. ASSUME NEW m \in 1..n, ps[m].provider # p
        PROVE  ps[m] \in Range(new)
    <3>1. CASE m < i
      <4>1. m \in 1..n - 1 /\ new[m] = ps[m]
        BY <3>1, <1>2, <1>5
      <4>. QED
        BY <4>1, <2>1
    <3>2. CASE m > i
      <4>1. m - 1 \in 1..n - 1 /\ new[m - 1] = ps[m]
        BY <3>2, <1>2, <1>5
      <4>. QED
        BY <4>1, <2>1
    <3>. QED
      BY <3>1, <3>2, <1>2, <2>3
  <2>. QED
    BY <1>4, <2>1, <2>2, <2>3
<1>7. PS' = [PS EXCEPT ![k] = Range(new)]
  <2>1. providers' = [providers EXCEPT ![k] = new]
    BY DEF RemoveProvider
  <2>. QED
    BY <2>1, MapReplace DEF IInv
<1>8. \E x \in PS[k] : x.provider = p
  BY <1>2, <1>4
<1>. QED
  BY <1>6, <1>7, <1>8, AbstractRemove

\* A step that leaves the provider lists alone leaves their records alone.
LEMMA ListsUnchanged ==
    ASSUME providers' = providers
    PROVE  PS' = PS
BY DEF PS

\* Every step of the store maps to a step of ProviderStore or a stutter.
LEMMA NextRefines == IInv /\ [Next]_vars => [ProviderSet!Next]_PS
<1> SUFFICES ASSUME IInv, [Next]_vars PROVE [ProviderSet!Next]_PS
  OBVIOUS
<1>1. CASE \E k \in Keys, v \in Values, e \in Expansions : Put(k, v, e)
  BY <1>1, ListsUnchanged DEF Put
<1>2. CASE \E k \in Keys : Remove(k)
  BY <1>2, ListsUnchanged DEF Remove
<1>3. CASE Retain
  BY <1>3, ListsUnchanged DEF Retain
<1>4. CASE \E r \in ProviderRecords : AddProvider(r)
  <2>1. PICK r \in ProviderRecords : AddProvider(r)
    BY <1>4
  <2>2. ProviderSet!Add(r)
    BY <2>1, UpdateRefines, InsertRefines, PushRefines DEF AddProvider
  <2>. QED
    BY <2>2 DEF ProviderSet!Next, ProviderSet!Records, ProviderRecords
<1>5. CASE \E k \in Keys, p \in Peers : RemoveProvider(k, p)
  <2>1. PICK k \in Keys, p \in Peers : RemoveProvider(k, p)
    BY <1>5
  <2>2. ProviderSet!Remove(k, p)
    BY <2>1, RemoveRefines
  <2>. QED
    BY <2>2 DEF ProviderSet!Next
<1>6. CASE UNCHANGED vars
  BY <1>6, ListsUnchanged DEF vars
<1>. QED
  BY <1>1, <1>2, <1>3, <1>4, <1>5, <1>6 DEF Next

\* The empty store is the empty ProviderStore.
LEMMA InitRefines == Init => ProviderSet!Init
BY DEF Init, ProviderSet!Init, Range

(* Theorem: the provider lists of MemoryStore, read as sets of records,     *)
(* implement ProviderStore: after any interleaving of put, remove, retain,  *)
(* add_provider and remove_provider, every add_provider is an Add, every    *)
(* remove_provider a Remove and every other call a stutter of it.           *)
THEOREM ProviderSetRefinementHolds == Spec => ProviderSetRefinement
<1>1. Spec => []IInv
  BY InitIInv, NextIInv, PTL DEF Spec
<1>2. Spec => ProviderSet!Init
  BY InitRefines DEF Spec
<1>3. [][Next]_vars /\ []IInv => [][ProviderSet!Next]_PS
  BY NextRefines, PTL
<1>. QED
  BY <1>1, <1>2, <1>3, PTL DEF Spec, ProviderSetRefinement, ProviderSet!Spec, PS
=============================================================================
