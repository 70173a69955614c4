---------------------------- MODULE MemoryStore ----------------------------
(***************************************************************************)
(* The in-memory Kademlia record store of the janus server                 *)
(* (src/janus/server/src/kademlia/memory_store.rs).                        *)
(*                                                                         *)
(* Two maps are modelled: `records`, from a key to the set of records      *)
(* stored under it, and `providers`, from a key to the list of provider    *)
(* records, kept ordered by the XOR distance of the provider to the key.   *)
(* The third field, `provided`, caches the provider records whose provider *)
(* is the local peer; the code says it "must be kept in sync with          *)
(* providers".                                                             *)
(*                                                                         *)
(* Data is abstracted: a record is a key and a value from a small set; a   *)
(* provider record is a key, a provider peer and a version that stands for *)
(* the fields (expiry, addresses) that make two records of the same        *)
(* provider unequal.  The XOR distance is a constant Dist, injective per   *)
(* key as the XOR metric is.  Each method is one atomic step: the store is *)
(* owned by the Kademlia behaviour and called with &mut self.              *)
(***************************************************************************)
EXTENDS Naturals, Sequences, FiniteSets, Functions

CONSTANTS
    Keys,               \* record keys
    Peers,              \* peer ids
    Local,              \* local_key: the peer owning the store
    Versions,           \* what tells two records of one provider apart
    Values,             \* record values
    Large,              \* values with len >= max_value_bytes
    Dist,               \* Dist[k][p]: XOR distance of peer p to key k
    MaxRecords,         \* config.max_records
    MaxProvidersPerKey, \* config.max_providers_per_key
    MaxProvidedKeys     \* config.max_provided_keys

ASSUME StoreAssumption ==
    /\ Local \in Peers
    /\ Large \subseteq Values
    /\ Dist \in [Keys -> [Peers -> Nat]]
    /\ \A k \in Keys, p, q \in Peers : Dist[k][p] = Dist[k][q] => p = q
    /\ MaxRecords \in Nat
    /\ MaxProvidersPerKey \in Nat \ {0}
    /\ MaxProvidedKeys \in Nat

ProviderRecords == [key : Keys, provider : Peers, ver : Versions]

(* What expand_record_set (record.rs, not in this repository) may make of   *)
(* a record value: the record itself, a multi-record decoded into a set of  *)
(* records, or a multi-record that fails to parse.                          *)
Expansions == [kind : {"single"}, vals : {{v} : v \in Values}]
              \cup [kind : {"multi"}, vals : SUBSET Values]
              \cup [kind : {"bad"}, vals : {{}}]

VARIABLES
    recKeys,    \* the keys of the `records` HashMap
    records,    \* records[k]: the HashSet<Record> under k ({} if absent)
    providers,  \* providers[k]: the SmallVec of provider records (<<>> if absent)
    provided    \* the HashSet<ProviderRecord> of the local peer's records

vars == <<recKeys, records, providers, provided>>

-----------------------------------------------------------------------------
(* Vec helpers: insert(i, x), remove(i) and position(pred) of the code.     *)
VecInsert(s, i, x) == SubSeq(s, 1, i - 1) \o <<x>> \o SubSeq(s, i, Len(s))

VecRemove(s, i) == SubSeq(s, 1, i - 1) \o SubSeq(s, i + 1, Len(s))

FirstOf(I) == IF I = {} THEN 0 ELSE CHOOSE i \in I : \A j \in I : i <= j

(* providers.iter().position(|p| p.provider == record.provider) *)
ProviderPos(ps, p) == FirstOf({i \in 1..Len(ps) : ps[i].provider = p})

(* Mutant: the position of the last farther provider instead of the first. *)
CloserPosLast(ps, r) ==
    LET I == {i \in 1..Len(ps) : Dist[r.key][r.provider] < Dist[r.key][ps[i].provider]}
    IN  IF I = {} THEN 0 ELSE CHOOSE i \in I : \A j \in I : j <= i

(* The first existing provider farther from the key than the new one. *)
CloserPos(ps, r) ==
    FirstOf({i \in 1..Len(ps) : Dist[r.key][r.provider] < Dist[r.key][ps[i].provider]})

(* The keys present in the `providers` HashMap: an entry is never left     *)
(* empty, since add_provider pushes onto a new entry and remove_provider   *)
(* removes an entry it empties.                                            *)
ProviderKeys == {k \in Keys : providers[k] # <<>>}

(* Mutant: the local peer's new record is not added to `provided`. *)
IfLocalNever(r) == {}

IfLocal(r) == IF r.provider = Local THEN {r} ELSE {}

-----------------------------------------------------------------------------
Init ==
    /\ recKeys = {}
    /\ records = [k \in Keys |-> {}]
    /\ providers = [k \in Keys |-> <<>>]
    /\ provided = {}

(* MemoryStore::insert: add the expanded records to a set; a multi-record   *)
(* that does not parse fails the put.                                       *)
InsertOk(e) == e.kind # "bad"

(* RecordStore::put.  A value too large is refused; a new key is refused   *)
(* when the map already holds max_records keys; on an insert error the     *)
(* entry is left as it was (or never created).                             *)
Put(k, v, e) ==
    /\ v \notin Large
    /\ k \notin recKeys => Cardinality(recKeys) < MaxRecords
    /\ InsertOk(e)
    /\ recKeys' = recKeys \cup {k}
    /\ records' = [records EXCEPT ![k] = @ \cup e.vals]
    /\ UNCHANGED <<providers, provided>>

(* MemoryStore::retain(f): every record set keeps the records f accepts;   *)
(* f is any predicate, so any subset may remain.  An emptied set stays in  *)
(* the map under its key.                                                  *)
Retain ==
    /\ \E kept \in [Keys -> SUBSET Values] :
          /\ \A k \in Keys : kept[k] \subseteq records[k]
          /\ records' = kept
    /\ UNCHANGED <<recKeys, providers, provided>>

(* RecordStore::remove *)
Remove(k) ==
    /\ recKeys' = recKeys \ {k}
    /\ records' = [records EXCEPT ![k] = {}]
    /\ UNCHANGED <<providers, provided>>

(* RecordStore::add_provider, all of its branches. *)
AddProviderUpdate(r) ==      \* in-place update of an existing provider record
    LET ps == providers[r.key] IN
    /\ ProviderPos(ps, r.provider) # 0
    /\ providers' = [providers EXCEPT ![r.key][ProviderPos(ps, r.provider)] = r]
    /\ UNCHANGED provided

(* Mutant: the list is trimmed once it reaches, not exceeds, the bound. *)
AddProviderInsertEarlyTrim(r) ==
    LET ps == providers[r.key]
        ins == VecInsert(ps, CloserPos(ps, r), r)
        excess == Len(ins) >= MaxProvidersPerKey
    IN
    /\ ProviderPos(ps, r.provider) = 0
    /\ CloserPos(ps, r) # 0
    /\ providers' = [providers EXCEPT ![r.key] =
                        IF excess THEN SubSeq(ins, 1, Len(ins) - 1) ELSE ins]
    /\ provided' = (provided \cup IfLocal(r))
                     \ (IF excess THEN {ins[Len(ins)]} ELSE {})

AddProviderInsert(r) ==      \* insert before the first farther provider
    LET ps == providers[r.key]
        ins == VecInsert(ps, CloserPos(ps, r), r)
        excess == Len(ins) > MaxProvidersPerKey
    IN
    /\ ProviderPos(ps, r.provider) = 0
    /\ CloserPos(ps, r) # 0
    /\ providers' = [providers EXCEPT ![r.key] =
                        IF excess THEN SubSeq(ins, 1, Len(ins) - 1) ELSE ins]
    /\ provided' = (provided \cup IfLocal(r))
                     \ (IF excess THEN {ins[Len(ins)]} ELSE {})

AddProviderPush(r) ==        \* farther than all, but there is room
    LET ps == providers[r.key] IN
    /\ ProviderPos(ps, r.provider) = 0
    /\ CloserPos(ps, r) = 0
    /\ Len(ps) < MaxProvidersPerKey
    /\ providers' = [providers EXCEPT ![r.key] = Append(@, r)]
    /\ provided' = provided \cup IfLocal(r)

(* Mutant: the max_provided_keys check compares with > instead of ==. *)
AddProviderLenient(r) ==
    /\ r.key \notin ProviderKeys => ~(Cardinality(ProviderKeys) > MaxProvidedKeys)
    /\ \/ AddProviderUpdate(r)
       \/ AddProviderInsert(r)
       \/ AddProviderPush(r)
    /\ UNCHANGED <<recKeys, records>>

AddProvider(r) ==
    /\ r.key \notin ProviderKeys => Cardinality(ProviderKeys) # MaxProvidedKeys
    /\ \/ AddProviderUpdate(r)
       \/ AddProviderInsert(r)
       \/ AddProviderPush(r)
    /\ UNCHANGED <<recKeys, records>>

(* RecordStore::remove_provider *)
RemoveProvider(k, p) ==
    LET ps == providers[k]
        i == ProviderPos(ps, p)
    IN
    /\ i # 0
    /\ providers' = [providers EXCEPT ![k] = VecRemove(ps, i)]
    /\ provided' = provided \ {ps[i]}
    /\ UNCHANGED <<recKeys, records>>

Next ==
    \/ \E k \in Keys, v \in Values, e \in Expansions :
          /\ e.kind = "single" => e.vals = {v}
          /\ Put(k, v, e)
    \/ \E k \in Keys : Remove(k)
    \/ Retain
    \/ \E r \in ProviderRecords : AddProvider(r)
    \/ \E k \in Keys, p \in Peers : RemoveProvider(k, p)

Spec == Init /\ [][Next]_vars

-----------------------------------------------------------------------------
TypeOK ==
    /\ recKeys \subseteq Keys
    /\ records \in [Keys -> SUBSET Values]
    /\ providers \in [Keys -> Seq(ProviderRecords)]
    /\ provided \subseteq ProviderRecords

(* Every provider list of add_provider stays ordered strictly by distance   *)
(* to its key (hence without a provider twice), holds only records of that  *)
(* key, and never exceeds max_providers_per_key: what the test              *)
(* providers_ordered_by_distance_to_key checks for one key and one order of *)
(* inserts, here for every interleaving of adds, updates and removals.      *)
ProvidersOrdered ==
    \A k \in Keys :
        LET ps == providers[k] IN
        /\ Len(ps) <= MaxProvidersPerKey
        /\ \A i \in 1..Len(ps) : ps[i].key = k
        /\ \A i, j \in 1..Len(ps) :
              i < j => Dist[k][ps[i].provider] < Dist[k][ps[j].provider]

(* add_provider never lets the providers map hold more than                *)
(* max_provided_keys keys, and put never more than max_records keys.       *)
StoreBounds ==
    /\ Cardinality(ProviderKeys) <= MaxProvidedKeys
    /\ Cardinality(recKeys) <= MaxRecords

(* Every stored provider record of the local peer is listed in `provided`, *)
(* up to its version: add_provider adds the local peer's new records there  *)
(* in both of its inserting branches, and neither the excess pop nor        *)
(* remove_provider can take out a record that is still stored.             *)
LocalProvidersProvided ==
    \A k \in Keys : \A i \in 1..Len(providers[k]) :
        providers[k][i].provider = Local =>
            \E r \in provided : r.key = k /\ r.provider = Local

(* `provided` is kept in sync with `providers` (the comment on the field): *)
(* it holds exactly the stored provider records of the local peer.         *)
ProvidedInSync ==
    provided = {r \in ProviderRecords :
                   /\ r.provider = Local
                   /\ \E i \in 1..Len(providers[r.key]) : providers[r.key][i] = r}

(* The store's provider lists, read as the sets of records they hold,      *)
(* implement the abstract provider store: every add_provider and          *)
(* remove_provider is a step of ProviderStore, every other call a stutter. *)
ProviderSet == INSTANCE ProviderStore
                   WITH provSet <- [k \in Keys |-> Range(providers[k])]

ProviderSetRefinement == ProviderSet!Spec

(* max_records bounds "the maximum number of records" (its doc comment):   *)
(* the records stored under all keys together.                             *)
RecordsBounded ==
    Cardinality({p \in recKeys \X Values : p[2] \in records[p[1]]}) <= MaxRecords
=============================================================================
