---------------------------- MODULE ProviderStore ----------------------------
(***************************************************************************)
(* What the provider half of the Kademlia record store promises, without   *)
(* lists or positions: for every key, a set of provider records, one per   *)
(* provider, of at most MaxProvidersPerKey providers.  A provider that an  *)
(* add evicted is gone for good: after a removal the set may hold fewer    *)
(* than MaxProvidersPerKey records although evicted providers were never   *)
(* removed, so it is not "the closest of those added and not removed".     *)
(*                                                                         *)
(*  - adding a record of a provider already stored replaces its record;    *)
(*  - adding a record of a new provider keeps the MaxProvidersPerKey       *)
(*    closest of the stored providers and the new one;                     *)
(*  - a key without providers takes a first one only while fewer than      *)
(*    MaxProvidedKeys keys have providers;                                 *)
(*  - removing a provider drops its record.                                *)
(*                                                                         *)
(* MemoryStore, which keeps each key's records in a list sorted by         *)
(* distance, implements this specification (see MemoryStore's             *)
(* ProviderSetRefinement).                                                 *)
(***************************************************************************)
EXTENDS Naturals, FiniteSets

CONSTANTS Keys, Peers, Versions, Dist, MaxProvidersPerKey, MaxProvidedKeys

VARIABLE provSet   \* provSet[k]: the provider records stored for key k

Records == [key : Keys, provider : Peers, ver : Versions]

\* The records of S whose provider has fewer than MaxProvidersPerKey
\* providers of S closer to key k.
Closest(S, k) ==
    {x \in S : Cardinality({y \in S : Dist[k][y.provider] < Dist[k][x.provider]})
                   < MaxProvidersPerKey}

KeysWithProviders == {k \in Keys : provSet[k] # {}}

Init == provSet = [k \in Keys |-> {}]

Add(r) ==
    LET S   == provSet[r.key]
        old == {x \in S : x.provider = r.provider}
    IN
    /\ S = {} => Cardinality(KeysWithProviders) # MaxProvidedKeys
    /\ provSet' = [provSet EXCEPT ![r.key] =
                      IF old # {} THEN (S \ old) \cup {r}
                      ELSE Closest(S \cup {r}, r.key)]

Remove(k, p) ==
    /\ \E x \in provSet[k] : x.provider = p
    /\ provSet' = [provSet EXCEPT ![k] = {x \in @ : x.provider # p}]

Next ==
    \/ \E r \in Records : Add(r)
    \/ \E k \in Keys, p \in Peers : Remove(k, p)

Spec == Init /\ [][Next]_provSet
=============================================================================
