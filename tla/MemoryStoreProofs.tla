------------------------- MODULE MemoryStoreProofs -------------------------
(***************************************************************************)
(* Proofs about the Kademlia MemoryStore model: type correctness, and that *)
(* add_provider and remove_provider keep every provider list sorted by     *)
(* distance to its key and within max_providers_per_key.                   *)
(***************************************************************************)
EXTENDS MemoryStore, SequenceTheorems, WellFoundedInduction, TLAPS

-----------------------------------------------------------------------------
(* The position helpers: Vec::position returns the first matching index.   *)

\* A non-empty set of naturals has a least element, which FirstOf picks.
LEMMA FirstOfLeast ==
    ASSUME NEW I \in SUBSET Nat, I # {}
    PROVE  /\ FirstOf(I) \in I
           /\ \A j \in I : FirstOf(I) <= j
<1> DEFINE LT == OpToRel(<, Nat)
<1>0. IsWellFoundedOn(LT, Nat)
  BY NatLessThanWellFounded
<1>1. \E x \in I : \A y \in I : ~(<<y, x>> \in LT)
  BY <1>0, WFMin, Zenon
<1>a. \A x, y \in Nat : <<y, x>> \in LT <=> y < x
  BY Zenon DEF OpToRel
<1>2. \E x \in I : \A y \in I : ~(y < x)
  BY <1>1, <1>a, Zenon
<1>3. \E x \in I : \A y \in I : x <= y
  BY <1>2
<1>. QED
  BY <1>3 DEF FirstOf

\* FirstOf of a set of positions is 0 exactly when the set is empty.
LEMMA FirstOfPositions ==
    ASSUME NEW n \in Nat, NEW I \in SUBSET (1..n)
    PROVE  /\ I = {} => FirstOf(I) = 0
           /\ I # {} => /\ FirstOf(I) \in I
                        /\ \A j \in I : FirstOf(I) <= j
<1>1. I = {} => FirstOf(I) = 0
  BY DEF FirstOf
<1>. QED
  BY <1>1, FirstOfLeast

-----------------------------------------------------------------------------
(* What the Vec operations build, element by element.                      *)

\* Vec::insert(i, x) shifts the tail right by one.
LEMMA VecInsertFacts ==
    ASSUME NEW S, NEW n \in Nat, NEW s \in Seq(S), Len(s) = n,
           NEW i \in 1..n, NEW x \in S
    PROVE  /\ VecInsert(s, i, x) \in Seq(S)
           /\ Len(VecInsert(s, i, x)) = n + 1
           /\ \A j \in 1..n + 1 :
                 VecInsert(s, i, x)[j] = IF j < i THEN s[j]
                                         ELSE IF j = i THEN x ELSE s[j - 1]
<1> DEFINE front == SubSeq(s, 1, i - 1) \o <<x>>
           back == SubSeq(s, i, n)
<1>0. \A j \in 1..n : s[j] \in S
  BY ElementOfSeq
<1>1. /\ SubSeq(s, 1, i - 1) \in Seq(S)
      /\ Len(SubSeq(s, 1, i - 1)) = i - 1
      /\ \A j \in 1..i - 1 : SubSeq(s, 1, i - 1)[j] = s[j]
  BY <1>0, SubSeqProperties
<1>2. /\ front \in Seq(S)
      /\ Len(front) = i
      /\ \A j \in 1..i : front[j] = IF j < i THEN s[j] ELSE x
  BY <1>1, ConcatProperties
<1>3. /\ back \in Seq(S)
      /\ Len(back) = n - i + 1
      /\ \A j \in 1..n - i + 1 : back[j] = s[i + j - 1]
  BY <1>0, SubSeqProperties
<1>4. /\ front \o back \in Seq(S)
      /\ Len(front \o back) = n + 1
      /\ \A j \in 1..n + 1 :
            (front \o back)[j] = IF j <= i THEN front[j] ELSE back[j - i]
  BY <1>2, <1>3, ConcatProperties
<1>5. ASSUME NEW j \in 1..n + 1
      PROVE  (front \o back)[j] = IF j < i THEN s[j]
                                  ELSE IF j = i THEN x ELSE s[j - 1]
  <2>1. CASE j <= i
    BY <2>1, <1>2, <1>4
  <2>2. CASE ~(j <= i)
    <3>1. j - i \in 1..n - i + 1
      BY <2>2
    <3>2. back[j - i] = s[j - 1]
      BY <3>1, <1>3
    <3>. QED
      BY <2>2, <3>2, <1>4
  <2>. QED
    BY <2>1, <2>2
<1>. QED
  BY <1>4, <1>5 DEF VecInsert

\* The element formula of Vec::insert, one index at a time.
LEMMA VecInsertAt ==
    ASSUME NEW S, NEW n \in Nat, NEW s \in Seq(S), Len(s) = n,
           NEW i \in 1..n, NEW x \in S, NEW m \in 1..n + 1
    PROVE  VecInsert(s, i, x)[m] = IF m < i THEN s[m]
                                   ELSE IF m = i THEN x ELSE s[m - 1]
<1> DEFINE front == SubSeq(s, 1, i - 1) \o <<x>>
           back == SubSeq(s, i, n)
<1>0. \A j \in 1..n : s[j] \in S
  BY ElementOfSeq
<1>1. /\ SubSeq(s, 1, i - 1) \in Seq(S)
      /\ Len(SubSeq(s, 1, i - 1)) = i - 1
      /\ \A j \in 1..i - 1 : SubSeq(s, 1, i - 1)[j] = s[j]
  BY <1>0, SubSeqProperties
<1>2. /\ front \in Seq(S)
      /\ Len(front) = i
      /\ \A j \in 1..i : front[j] = IF j < i THEN s[j] ELSE x
  BY <1>1, ConcatProperties
<1>3. /\ back \in Seq(S)
      /\ Len(back) = n - i + 1
      /\ \A j \in 1..n - i + 1 : back[j] = s[i + j - 1]
  BY <1>0, SubSeqProperties
<1>4. /\ front \o back \in Seq(S)
      /\ Len(front \o back) = n + 1
      /\ \A j \in 1..n + 1 :
            (front \o back)[j] = IF j <= i THEN front[j] ELSE back[j - i]
  BY <1>2, <1>3, ConcatProperties
<1>5. CASE m <= i
  BY <1>5, <1>2, <1>4 DEF VecInsert
<1>6. CASE ~(m <= i)
  <2>1. m - i \in 1..n - i + 1
    BY <1>6
  <2>2. back[m - i] = s[m - 1]
    BY <2>1, <1>3
  <2>. QED
    BY <1>6, <2>2, <1>4 DEF VecInsert
<1>. QED
  BY <1>5, <1>6

\* Vec::remove(i) shifts the tail left by one.
LEMMA VecRemoveFacts ==
    ASSUME NEW S, NEW n \in Nat, NEW s \in Seq(S), Len(s) = n, NEW i \in 1..n
    PROVE  /\ VecRemove(s, i) \in Seq(S)
           /\ Len(VecRemove(s, i)) = n - 1
           /\ \A j \in 1..n - 1 :
                 VecRemove(s, i)[j] = IF j < i THEN s[j] ELSE s[j + 1]
<1> DEFINE front == SubSeq(s, 1, i - 1)
           back == SubSeq(s, i + 1, n)
<1>0. \A j \in 1..n : s[j] \in S
  BY ElementOfSeq
<1>1. /\ front \in Seq(S)
      /\ Len(front) = i - 1
      /\ \A j \in 1..i - 1 : front[j] = s[j]
  BY <1>0, SubSeqProperties
<1>2. /\ back \in Seq(S)
      /\ Len(back) = n - i
      /\ \A j \in 1..n - i : back[j] = s[i + j]
  BY <1>0, SubSeqProperties
<1>3. /\ front \o back \in Seq(S)
      /\ Len(front \o back) = n - 1
      /\ \A j \in 1..n - 1 :
            (front \o back)[j] = IF j <= i - 1 THEN front[j] ELSE back[j - (i - 1)]
  BY <1>1, <1>2, ConcatProperties
<1>4. ASSUME NEW j \in 1..n - 1
      PROVE  (front \o back)[j] = IF j < i THEN s[j] ELSE s[j + 1]
  <2>1. CASE j < i
    BY <2>1, <1>1, <1>3
  <2>2. CASE ~(j < i)
    <3>1. (front \o back)[j] = back[j - (i - 1)]
      BY <2>2, <1>3
    <3>2. j - (i - 1) \in 1..n - i
      BY <2>2
    <3>3. back[j - (i - 1)] = s[j + 1]
      BY <3>2, <1>2
    <3>. QED
      BY <3>1, <3>3, <2>2
  <2>. QED
    BY <2>1, <2>2
<1>. QED
  BY <1>3, <1>4 DEF VecRemove

\* Vec::pop drops the last element.
LEMMA VecPopFacts ==
    ASSUME NEW S, NEW n \in Nat \ {0}, NEW s \in Seq(S), Len(s) = n
    PROVE  /\ SubSeq(s, 1, n - 1) \in Seq(S)
           /\ Len(SubSeq(s, 1, n - 1)) = n - 1
           /\ \A j \in 1..n - 1 : SubSeq(s, 1, n - 1)[j] = s[j]
<1>1. \A j \in 1..n - 1 : s[j] \in S
  BY ElementOfSeq
<1>. QED
  BY <1>1, SubSeqProperties

-----------------------------------------------------------------------------
(* The two searches of add_provider and remove_provider.                   *)

\* position(|p| p.provider == provider): 0 when no record of that provider
\* is stored, else the index of one.
LEMMA ProviderPosFacts ==
    ASSUME NEW n \in Nat, NEW ps \in Seq(ProviderRecords), Len(ps) = n,
           NEW p
    PROVE  /\ ProviderPos(ps, p) = 0 => \A j \in 1..n : ps[j].provider # p
           /\ ProviderPos(ps, p) # 0 => /\ ProviderPos(ps, p) \in 1..n
                                       /\ ps[ProviderPos(ps, p)].provider = p
<1> DEFINE I == {i \in 1..n : ps[i].provider = p}
<1>1. ProviderPos(ps, p) = FirstOf(I)
  BY DEF ProviderPos
<1>2. I = {} => FirstOf(I) = 0
  BY FirstOfPositions
<1>3. I # {} => FirstOf(I) \in I
  BY FirstOfPositions
<1>. QED
  BY <1>1, <1>2, <1>3

\* The first stored provider farther from the key than the new one: every
\* provider before it is not farther.
LEMMA CloserPosFacts ==
    ASSUME NEW n \in Nat, NEW ps \in Seq(ProviderRecords), Len(ps) = n,
           NEW r \in ProviderRecords
    PROVE  /\ CloserPos(ps, r) = 0 =>
                 \A j \in 1..n : ~(Dist[r.key][r.provider] < Dist[r.key][ps[j].provider])
           /\ CloserPos(ps, r) # 0 =>
                 /\ CloserPos(ps, r) \in 1..n
                 /\ Dist[r.key][r.provider] < Dist[r.key][ps[CloserPos(ps, r)].provider]
                 /\ \A j \in 1..CloserPos(ps, r) - 1 :
                       ~(Dist[r.key][r.provider] < Dist[r.key][ps[j].provider])
<1> DEFINE I == {i \in 1..n : Dist[r.key][r.provider] < Dist[r.key][ps[i].provider]}
<1>1. CloserPos(ps, r) = FirstOf(I)
  BY DEF CloserPos
<1>2. I = {} => FirstOf(I) = 0
  BY FirstOfPositions
<1>3. I # {} => /\ FirstOf(I) \in I
                /\ \A j \in I : FirstOf(I) <= j
  BY FirstOfPositions
<1>4. \A j \in 1..n : j \notin I => ~(Dist[r.key][r.provider] < Dist[r.key][ps[j].provider])
  OBVIOUS
<1>5. CASE I = {}
  BY <1>1, <1>2, <1>4, <1>5
<1>6. CASE I # {}
  <2>1. FirstOf(I) \in 1..n /\ FirstOf(I) # 0
    <3>1. FirstOf(I) \in I
      BY <1>3, <1>6
    <3>2. I \subseteq 1..n
      BY DEF I
    <3>3. FirstOf(I) \in 1..n
      BY <3>1, <3>2, Zenon
    <3>4. 0 \notin 1..n
      OBVIOUS
    <3>. QED
      BY <3>3, <3>4, Zenon
  <2>2. Dist[r.key][r.provider] < Dist[r.key][ps[FirstOf(I)].provider]
    BY <1>3, <1>6
  <2>3. \A j \in 1..FirstOf(I) - 1 : j \notin I
    <3>1. \A x \in I : FirstOf(I) <= x
      BY <1>3, <1>6
    <3>2. FirstOf(I) \in Nat
      BY <2>1
    <3>3. I \subseteq Nat
      OBVIOUS
    <3>. QED
      BY <3>1, <3>2, <3>3
  <2>4. \A j \in 1..FirstOf(I) - 1 : j \in 1..n
    BY <2>1
  <2>. QED
    BY <1>1, <2>1, <2>2, <2>3, <2>4, <1>4
<1>. QED
  BY <1>5, <1>6

-----------------------------------------------------------------------------
(* A provider list that add_provider and remove_provider keep in shape.   *)

SortedFor(ps, k) ==
    /\ Len(ps) <= MaxProvidersPerKey
    /\ \A i \in 1..Len(ps) : ps[i].key = k
    /\ \A i, j \in 1..Len(ps) :
          i < j => Dist[k][ps[i].provider] < Dist[k][ps[j].provider]

\* ProvidersOrdered says that every provider list is sorted for its key.
LEMMA OrderedIsSorted ==
    ProvidersOrdered <=> \A k \in Keys : SortedFor(providers[k], k)
BY DEF ProvidersOrdered, SortedFor

\* The distances of two different peers to one key differ, and are naturals.
LEMMA DistFacts ==
    ASSUME NEW k \in Keys, NEW p \in Peers, NEW q \in Peers
    PROVE  /\ Dist[k][p] \in Nat
           /\ p # q => Dist[k][p] # Dist[k][q]
BY StoreAssumption

\* add_provider's in-place update keeps the list sorted: the record it
\* replaces has the same provider, hence the same distance.
LEMMA UpdateSorted ==
    ASSUME NEW k \in Keys, NEW n \in Nat, NEW ps \in Seq(ProviderRecords),
           Len(ps) = n, SortedFor(ps, k),
           NEW r \in ProviderRecords, r.key = k,
           NEW i \in 1..n, ps[i].provider = r.provider
    PROVE  /\ [ps EXCEPT ![i] = r] \in Seq(ProviderRecords)
           /\ SortedFor([ps EXCEPT ![i] = r], k)
<1> DEFINE new == [ps EXCEPT ![i] = r]
<1>1. /\ new \in Seq(ProviderRecords)
      /\ Len(new) = n
      /\ \A j \in 1..n : new[j] = IF j = i THEN r ELSE ps[j]
  BY ExceptSeq
<1>2. \A j \in 1..n : new[j].provider = ps[j].provider /\ new[j].key = k
  BY <1>1 DEF SortedFor
<1>. QED
  BY <1>1, <1>2 DEF SortedFor

\* add_provider's push of a provider farther than all stored ones keeps the
\* list sorted, given room for it.
LEMMA PushSorted ==
    ASSUME NEW k \in Keys, NEW n \in Nat, NEW ps \in Seq(ProviderRecords),
           Len(ps) = n, SortedFor(ps, k),
           NEW r \in ProviderRecords, r.key = k,
           \A j \in 1..n : ps[j].provider # r.provider,
           \A j \in 1..n : ~(Dist[k][r.provider] < Dist[k][ps[j].provider]),
           n < MaxProvidersPerKey
    PROVE  /\ Append(ps, r) \in Seq(ProviderRecords)
           /\ SortedFor(Append(ps, r), k)
<1> DEFINE new == Append(ps, r)
<1>1. /\ new \in Seq(ProviderRecords)
      /\ Len(new) = n + 1
      /\ \A j \in 1..n : new[j] = ps[j]
      /\ new[n + 1] = r
  BY AppendProperties
<1>2. \A j \in 1..n : Dist[k][ps[j].provider] < Dist[k][r.provider]
  <2> TAKE j \in 1..n
  <2>1. ps[j] \in ProviderRecords
    BY ElementOfSeq
  <2>2. /\ ps[j].provider \in Peers
        /\ r.provider \in Peers
        /\ ps[j].provider # r.provider
    BY <2>1 DEF ProviderRecords
  <2>3. /\ Dist[k][ps[j].provider] \in Nat
        /\ Dist[k][r.provider] \in Nat
        /\ Dist[k][ps[j].provider] # Dist[k][r.provider]
    BY <2>2, DistFacts
  <2>. QED
    BY <2>3
<1>3. \A a, b \in 1..n + 1 :
        a < b => Dist[k][new[a].provider] < Dist[k][new[b].provider]
  BY <1>1, <1>2 DEF SortedFor
<1>4. \A a \in 1..n + 1 : new[a].key = k
  BY <1>1 DEF SortedFor
<1>5. n + 1 <= MaxProvidersPerKey
  BY StoreAssumption
<1>. QED
  BY <1>1, <1>3, <1>4, <1>5 DEF SortedFor

\* Two records of the list that Vec::insert builds, before the first
\* farther provider, are in distance order.
LEMMA InsertPairOrdered ==
    ASSUME NEW k \in Keys, NEW n \in Nat, NEW ps \in Seq(ProviderRecords),
           Len(ps) = n, SortedFor(ps, k),
           NEW r \in ProviderRecords, r.key = k,
           \A j \in 1..n : ps[j].provider # r.provider,
           NEW c \in 1..n,
           Dist[k][r.provider] < Dist[k][ps[c].provider],
           \A j \in 1..c - 1 : ~(Dist[k][r.provider] < Dist[k][ps[j].provider]),
           NEW a \in 1..n + 1, NEW b \in 1..n + 1, a < b
    PROVE  Dist[k][VecInsert(ps, c, r)[a].provider] < Dist[k][VecInsert(ps, c, r)[b].provider]
<1> DEFINE ins == VecInsert(ps, c, r)
<1>1. /\ ins \in Seq(ProviderRecords)
      /\ Len(ins) = n + 1
      /\ \A j \in 1..n + 1 : ins[j] = IF j < c THEN ps[j]
                                     ELSE IF j = c THEN r ELSE ps[j - 1]
  <2>1. c \in 1..n /\ r \in ProviderRecords /\ Len(ps) = n
    OBVIOUS
  <2>2. VecInsert(ps, c, r) \in Seq(ProviderRecords)
    BY <2>1, VecInsertFacts
  <2>3. Len(VecInsert(ps, c, r)) = n + 1
    BY <2>1, VecInsertFacts
  <2>4. \A j \in 1..n + 1 :
          VecInsert(ps, c, r)[j] = IF j < c THEN ps[j]
                                   ELSE IF j = c THEN r ELSE ps[j - 1]
    BY <2>1, VecInsertAt
  <2>. QED
    BY <2>2, <2>3, <2>4 DEF ins
<1>2. \A j \in 1..n : Dist[k][ps[j].provider] \in Nat
  <2> TAKE j \in 1..n
  <2>1. ps[j] \in ProviderRecords
    BY ElementOfSeq
  <2>. QED
    BY <2>1, DistFacts DEF ProviderRecords
<1>3. Dist[k][r.provider] \in Nat
  BY DistFacts DEF ProviderRecords
<1>4. \A j \in 1..c - 1 : Dist[k][ps[j].provider] < Dist[k][r.provider]
  <2> TAKE j \in 1..c - 1
  <2>1. ps[j] \in ProviderRecords
    BY ElementOfSeq
  <2>2. Dist[k][ps[j].provider] # Dist[k][r.provider]
    BY <2>1, DistFacts DEF ProviderRecords
  <2>. QED
    BY <2>2, <1>2, <1>3
<1>5. \A j \in c..n : Dist[k][r.provider] < Dist[k][ps[j].provider]
  <2> TAKE j \in c..n
  <2>1. CASE j = c
    BY <2>1
  <2>2. CASE j # c
    <3>1. Dist[k][ps[c].provider] < Dist[k][ps[j].provider]
      BY <2>2 DEF SortedFor
    <3>. QED
      BY <3>1, <1>2, <1>3
  <2>. QED
    BY <2>1, <2>2
<1>6. CASE b < c
  BY <1>6, <1>1 DEF SortedFor
<1>7. CASE b = c
  BY <1>7, <1>1, <1>4
<1>8. CASE b > c /\ a < c
  <2>1. Dist[k][ps[a].provider] < Dist[k][ps[b - 1].provider]
    BY <1>8 DEF SortedFor
  <2>. QED
    BY <1>8, <2>1, <1>1
<1>9. CASE b > c /\ a = c
  <2>1. b - 1 \in c..n
    BY <1>9
  <2>2. ins[a] = r /\ ins[b] = ps[b - 1]
    BY <1>9, <1>1
  <2>3. Dist[k][r.provider] < Dist[k][ps[b - 1].provider]
    BY <2>1, <1>5
  <2>. QED
    BY <2>2, <2>3
<1>10. CASE b > c /\ a > c
  <2>1. Dist[k][ps[a - 1].provider] < Dist[k][ps[b - 1].provider]
    BY <1>10 DEF SortedFor
  <2>. QED
    BY <1>10, <2>1, <1>1
<1>. QED
  BY <1>6, <1>7, <1>8, <1>9, <1>10

\* add_provider's Vec::insert before the first farther provider gives a
\* list of n + 1 records of key k, ordered strictly by distance.
LEMMA InsertOrdered ==
    ASSUME NEW k \in Keys, NEW n \in Nat, NEW ps \in Seq(ProviderRecords),
           Len(ps) = n, SortedFor(ps, k),
           NEW r \in ProviderRecords, r.key = k,
           \A j \in 1..n : ps[j].provider # r.provider,
           NEW c \in 1..n,
           Dist[k][r.provider] < Dist[k][ps[c].provider],
           \A j \in 1..c - 1 : ~(Dist[k][r.provider] < Dist[k][ps[j].provider])
    PROVE  LET ins == VecInsert(ps, c, r)
           IN  /\ ins \in Seq(ProviderRecords)
               /\ Len(ins) = n + 1
               /\ \A j \in 1..n + 1 : ins[j] = IF j < c THEN ps[j]
                                              ELSE IF j = c THEN r ELSE ps[j - 1]
               /\ \A a, b \in 1..n + 1 :
                     a < b => Dist[k][ins[a].provider] < Dist[k][ins[b].provider]
               /\ \A a \in 1..n + 1 : ins[a].key = k
<1> DEFINE ins == VecInsert(ps, c, r)
<1>1. /\ ins \in Seq(ProviderRecords)
      /\ Len(ins) = n + 1
      /\ \A j \in 1..n + 1 : ins[j] = IF j < c THEN ps[j]
                                     ELSE IF j = c THEN r ELSE ps[j - 1]
  <2>1. c \in 1..n /\ r \in ProviderRecords /\ Len(ps) = n
    OBVIOUS
  <2>2. VecInsert(ps, c, r) \in Seq(ProviderRecords)
    BY <2>1, VecInsertFacts
  <2>3. Len(VecInsert(ps, c, r)) = n + 1
    BY <2>1, VecInsertFacts
  <2>4. \A j \in 1..n + 1 :
          VecInsert(ps, c, r)[j] = IF j < c THEN ps[j]
                                   ELSE IF j = c THEN r ELSE ps[j - 1]
    BY <2>1, VecInsertAt
  <2>. QED
    BY <2>2, <2>3, <2>4 DEF ins
<1>6. \A a, b \in 1..n + 1 : a < b => Dist[k][ins[a].provider] < Dist[k][ins[b].provider]
  <2> TAKE a, b \in 1..n + 1
  <2> HAVE a < b
  <2>. QED
    BY InsertPairOrdered
<1>7. \A a \in 1..n + 1 : ins[a].key = k
  BY <1>1 DEF SortedFor
<1>. QED
  BY <1>1, <1>6, <1>7

\* add_provider's insert before the first farther provider, followed by the
\* pop of the farthest one when the list overflows, keeps the list sorted
\* and within max_providers_per_key.
LEMMA InsertSorted ==
    ASSUME NEW k \in Keys, NEW n \in Nat, NEW ps \in Seq(ProviderRecords),
           Len(ps) = n, SortedFor(ps, k),
           NEW r \in ProviderRecords, r.key = k,
           \A j \in 1..n : ps[j].provider # r.provider,
           NEW c \in 1..n,
           Dist[k][r.provider] < Dist[k][ps[c].provider],
           \A j \in 1..c - 1 : ~(Dist[k][r.provider] < Dist[k][ps[j].provider])
    PROVE  LET ins == VecInsert(ps, c, r)
               new == IF Len(ins) > MaxProvidersPerKey
                      THEN SubSeq(ins, 1, Len(ins) - 1) ELSE ins
           IN  /\ new \in Seq(ProviderRecords)
               /\ SortedFor(new, k)
<1> DEFINE ins == VecInsert(ps, c, r)
<1>1. /\ ins \in Seq(ProviderRecords)
      /\ Len(ins) = n + 1
      /\ \A a, b \in 1..n + 1 :
            a < b => Dist[k][ins[a].provider] < Dist[k][ins[b].provider]
      /\ \A a \in 1..n + 1 : ins[a].key = k
  BY InsertOrdered
<1>6. \A a, b \in 1..n + 1 : a < b => Dist[k][ins[a].provider] < Dist[k][ins[b].provider]
  BY <1>1
<1>7. \A a \in 1..n + 1 : ins[a].key = k
  BY <1>1
<1>8. CASE n + 1 > MaxProvidersPerKey
  <2> DEFINE pop == SubSeq(ins, 1, n)
  <2>1. /\ pop \in Seq(ProviderRecords)
        /\ Len(pop) = n
        /\ \A j \in 1..n : pop[j] = ins[j]
    BY <1>1, VecPopFacts
  <2>2. SortedFor(pop, k)
    BY <2>1, <1>6, <1>7 DEF SortedFor
  <2>. QED
    BY <1>1, <1>8, <2>1, <2>2
<1>9. CASE ~(n + 1 > MaxProvidersPerKey)
  <2>1. SortedFor(ins, k)
    BY <1>1, <1>6, <1>7, <1>9, StoreAssumption DEF SortedFor
  <2>. QED
    BY <1>1, <1>9, <2>1
<1>. QED
  BY <1>8, <1>9


\* remove_provider's Vec::remove keeps the list sorted: the records that
\* remain keep their relative order.
LEMMA RemoveSorted ==
    ASSUME NEW k \in Keys, NEW n \in Nat, NEW ps \in Seq(ProviderRecords),
           Len(ps) = n, SortedFor(ps, k), NEW i \in 1..n
    PROVE  /\ VecRemove(ps, i) \in Seq(ProviderRecords)
           /\ SortedFor(VecRemove(ps, i), k)
<1>1. /\ VecRemove(ps, i) \in Seq(ProviderRecords)
      /\ Len(VecRemove(ps, i)) = n - 1
  BY VecRemoveFacts
<1>2. \A j \in 1..n - 1 : VecRemove(ps, i)[j] = IF j < i THEN ps[j] ELSE ps[j + 1]
  BY VecRemoveFacts
<1>3. \A a, b \in 1..n - 1 :
        a < b => Dist[k][VecRemove(ps, i)[a].provider] < Dist[k][VecRemove(ps, i)[b].provider]
  <2> TAKE a, b \in 1..n - 1
  <2> HAVE a < b
  <2>1. CASE b < i
    BY <2>1, <1>2 DEF SortedFor
  <2>2. CASE a < i /\ ~(b < i)
    <3>1. Dist[k][ps[a].provider] < Dist[k][ps[b + 1].provider]
      BY <2>2 DEF SortedFor
    <3>. QED
      BY <2>2, <3>1, <1>2
  <2>3. CASE ~(a < i)
    <3>1. Dist[k][ps[a + 1].provider] < Dist[k][ps[b + 1].provider]
      BY <2>3 DEF SortedFor
    <3>. QED
      BY <2>3, <3>1, <1>2
  <2>. QED
    BY <2>1, <2>2, <2>3
<1>4. \A a \in 1..n - 1 : VecRemove(ps, i)[a].key = k
  BY <1>2 DEF SortedFor
<1>5. Len(VecRemove(ps, i)) <= MaxProvidersPerKey
  <2>1. n <= MaxProvidersPerKey
    BY DEF SortedFor
  <2>. QED
    BY <1>1, <2>1, StoreAssumption
<1>. QED
  BY <1>1, <1>3, <1>4, <1>5 DEF SortedFor

-----------------------------------------------------------------------------
(* The inductive invariant: TypeOK and ProvidersOrdered together.          *)

IInv == TypeOK /\ ProvidersOrdered

\* A step that replaces one provider list by a sorted one, keeps `provided`
\* a set of provider records and leaves the record map alone preserves the
\* invariant.
LEMMA ReplaceList ==
    ASSUME IInv, NEW k \in Keys, NEW new \in Seq(ProviderRecords),
           SortedFor(new, k),
           providers' = [providers EXCEPT ![k] = new],
           provided' \subseteq ProviderRecords,
           recKeys' = recKeys, records' = records
    PROVE  IInv'
<1>1. TypeOK'
  BY DEF IInv, TypeOK
<1>2. \A kk \in Keys : SortedFor(providers'[kk], kk)
  BY OrderedIsSorted DEF IInv, TypeOK
<1>. QED
  BY <1>1, <1>2 DEF IInv, ProvidersOrdered, SortedFor

\* The empty store of MemoryStore::with_config satisfies the invariant.
LEMMA InitIInv == Init => IInv
<1> SUFFICES ASSUME Init PROVE IInv
  OBVIOUS
<1>1. <<>> \in Seq(ProviderRecords)
  OBVIOUS
<1>2. TypeOK
  BY <1>1 DEF Init, TypeOK
<1>3. ProvidersOrdered
  BY StoreAssumption DEF Init, ProvidersOrdered
<1>. QED
  BY <1>2, <1>3 DEF IInv

\* put adds records of the value set and leaves the provider lists alone.
LEMMA PutIInv ==
    ASSUME IInv, NEW k \in Keys, NEW v \in Values, NEW e \in Expansions,
           Put(k, v, e)
    PROVE  IInv'
<1>1. e.vals \subseteq Values
  BY DEF Expansions
<1>. QED
  BY <1>1 DEF Put, IInv, TypeOK, ProvidersOrdered

\* remove empties one record entry and leaves the provider lists alone.
LEMMA RemoveIInv ==
    ASSUME IInv, NEW k \in Keys, Remove(k)
    PROVE  IInv'
BY DEF Remove, IInv, TypeOK, ProvidersOrdered

\* retain keeps a subset of every record set and leaves the provider lists
\* alone.
LEMMA RetainIInv ==
    ASSUME IInv, Retain
    PROVE  IInv'
<1>1. records' \in [Keys -> SUBSET Values]
  BY DEF Retain, IInv, TypeOK
<1>. QED
  BY <1>1 DEF Retain, IInv, TypeOK, ProvidersOrdered

\* remove_provider deletes the provider's record from a sorted list.
LEMMA RemoveProviderIInv ==
    ASSUME IInv, NEW k \in Keys, NEW p \in Peers, RemoveProvider(k, p)
    PROVE  IInv'
<1> DEFINE ps == providers[k]
           n == Len(ps)
           i == ProviderPos(ps, p)
<1>1. ps \in Seq(ProviderRecords) /\ n \in Nat /\ SortedFor(ps, k)
  BY OrderedIsSorted DEF IInv, TypeOK
<1>2. i \in 1..n
  BY <1>1, ProviderPosFacts DEF RemoveProvider
<1>3. VecRemove(ps, i) \in Seq(ProviderRecords) /\ SortedFor(VecRemove(ps, i), k)
  BY <1>1, <1>2, RemoveSorted
<1>4. provided' \subseteq ProviderRecords
  BY DEF RemoveProvider, IInv, TypeOK
<1>. QED
  BY <1>3, <1>4, ReplaceList DEF RemoveProvider

\* add_provider, in each of its three branches, stores a sorted list.
LEMMA AddProviderIInv ==
    ASSUME IInv, NEW r \in ProviderRecords, AddProvider(r)
    PROVE  IInv'
<1> DEFINE k == r.key
           ps == providers[k]
           n == Len(ps)
           pos == ProviderPos(ps, r.provider)
           c == CloserPos(ps, r)
<1>1. /\ k \in Keys
      /\ ps \in Seq(ProviderRecords)
      /\ n \in Nat
      /\ SortedFor(ps, k)
  <2>1. k \in Keys
    BY DEF ProviderRecords, k
  <2>2. ps \in Seq(ProviderRecords) /\ n \in Nat
    BY <2>1 DEF IInv, TypeOK, ps, n
  <2>3. SortedFor(ps, k)
    BY <2>1, OrderedIsSorted DEF IInv, ps
  <2>. QED
    BY <2>1, <2>2, <2>3
<1>2. /\ recKeys' = recKeys
      /\ records' = records
  BY Zenon DEF AddProvider
<1>3. IfLocal(r) \subseteq ProviderRecords
  BY DEF IfLocal
<1>4. CASE AddProviderUpdate(r)
  <2>1. pos \in 1..n /\ ps[pos].provider = r.provider
    BY <1>1, <1>4, ProviderPosFacts DEF AddProviderUpdate
  <2>2. /\ [ps EXCEPT ![pos] = r] \in Seq(ProviderRecords)
        /\ SortedFor([ps EXCEPT ![pos] = r], k)
    BY <1>1, <2>1, UpdateSorted
  <2>3. providers' = [providers EXCEPT ![k] = [ps EXCEPT ![pos] = r]]
    BY <1>4 DEF AddProviderUpdate
  <2>4. provided' \subseteq ProviderRecords
    BY <1>4 DEF AddProviderUpdate, IInv, TypeOK
  <2>. QED
    BY <1>1, <1>2, <2>2, <2>3, <2>4, ReplaceList
<1>5. CASE AddProviderInsert(r)
  <2>1. \A j \in 1..n : ps[j].provider # r.provider
    BY <1>1, <1>5, ProviderPosFacts DEF AddProviderInsert
  <2>2. /\ c \in 1..n
        /\ Dist[k][r.provider] < Dist[k][ps[c].provider]
        /\ \A j \in 1..c - 1 : ~(Dist[k][r.provider] < Dist[k][ps[j].provider])
    BY <1>1, <1>5, CloserPosFacts DEF AddProviderInsert
  <2> DEFINE ins == VecInsert(ps, c, r)
             new == IF Len(ins) > MaxProvidersPerKey
                    THEN SubSeq(ins, 1, Len(ins) - 1) ELSE ins
  <2>3. new \in Seq(ProviderRecords) /\ SortedFor(new, k)
    BY <1>1, <2>1, <2>2, InsertSorted
  <2>4. providers' = [providers EXCEPT ![k] = new]
    BY <1>5 DEF AddProviderInsert
  <2>5. provided' \subseteq ProviderRecords
    BY <1>3, <1>5 DEF AddProviderInsert, IInv, TypeOK
  <2>. QED
    BY <1>1, <1>2, <2>3, <2>4, <2>5, ReplaceList
<1>6. CASE AddProviderPush(r)
  <2>1. \A j \in 1..n : ps[j].provider # r.provider
    BY <1>1, <1>6, ProviderPosFacts DEF AddProviderPush
  <2>2. \A j \in 1..n : ~(Dist[k][r.provider] < Dist[k][ps[j].provider])
    BY <1>1, <1>6, CloserPosFacts DEF AddProviderPush
  <2>3. n < MaxProvidersPerKey
    BY <1>6 DEF AddProviderPush
  <2>4. Append(ps, r) \in Seq(ProviderRecords) /\ SortedFor(Append(ps, r), k)
    BY <1>1, <2>1, <2>2, <2>3, PushSorted
  <2>5. providers' = [providers EXCEPT ![k] = Append(ps, r)]
    BY <1>6 DEF AddProviderPush
  <2>6. provided' \subseteq ProviderRecords
    BY <1>3, <1>6 DEF AddProviderPush, IInv, TypeOK
  <2>. QED
    BY <1>1, <1>2, <2>4, <2>5, <2>6, ReplaceList
<1>. QED
  BY <1>4, <1>5, <1>6 DEF AddProvider

\* Every step of the store, or a stutter, preserves the invariant.
LEMMA NextIInv == IInv /\ [Next]_vars => IInv'
<1> SUFFICES ASSUME IInv, [Next]_vars PROVE IInv'
  OBVIOUS
<1>1. CASE \E k \in Keys, v \in Values, e \in Expansions :
             /\ e.kind = "single" => e.vals = {v}
             /\ Put(k, v, e)
  BY <1>1, PutIInv
<1>2. CASE \E k \in Keys : Remove(k)
  BY <1>2, RemoveIInv
<1>3. CASE \E r \in ProviderRecords : AddProvider(r)
  BY <1>3, AddProviderIInv
<1>4. CASE \E k \in Keys, p \in Peers : RemoveProvider(k, p)
  BY <1>4, RemoveProviderIInv
<1>5. CASE Retain
  BY <1>5, RetainIInv
<1>6. CASE UNCHANGED vars
  BY <1>6 DEF vars, IInv, TypeOK, ProvidersOrdered
<1>. QED
  BY <1>1, <1>2, <1>3, <1>4, <1>5, <1>6 DEF Next

\* Every provider list the store ever holds, after any interleaving of put,
\* remove, add_provider and remove_provider calls, is sorted strictly by
\* distance to its key and holds at most max_providers_per_key records.
THEOREM ProvidersOrderedInvariant == Spec => []ProvidersOrdered
<1>1. Spec => []IInv
  BY InitIInv, NextIInv, PTL DEF Spec
<1>. QED
  BY <1>1, PTL DEF IInv

\* The store's fields keep their types in every reachable state.
THEOREM StoreTypeCorrect == Spec => []TypeOK
<1>1. Spec => []IInv
  BY InitIInv, NextIInv, PTL DEF Spec
<1>. QED
  BY <1>1, PTL DEF IInv

=============================================================================
