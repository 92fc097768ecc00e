--------------------------- MODULE HashTable_proofs ---------------------------
(***************************************************************************)
(* What a search of a table of laserd.hash finds, and what every writer    *)
(* keeps true so that the next search works: every sequence of the public  *)
(* operations keeps the table searchable and acts on it as on the ordered  *)
(* map of docs/hash.md, for every policy that keeps its contract and every *)
(* choice of the constants.                                                *)
(***************************************************************************)
EXTENDS HashTable, HashStorage_proofs

-----------------------------------------------------------------------------
(* Tables whose searches work.                                             *)

(* The inductive invariant.  A table is searchable if it is sound, no two   *)
(* of its live entries have equal keys, the probe for the hash of a live    *)
(* entry reaches it, and no more bins are used than entries were appended:  *)
(* deleted bins count as used, so that the last conjunct bounds them, too.  *)
Searchable(t) ==
  /\ Sound(t)
  /\ KeysDistinct(t)
  /\ EntriesReachable(t)
  /\ UsesAtMost(t.bins, t.entries_bound)

(* The bins of a table that has bins.                                       *)
LEMMA TableBins ==
  ASSUME NEW t, TableType(t), has_bins(t)
  PROVE  /\ t.entry_power \in MINIMAL_POWER2 .. MAX_POWER2
         /\ IsBins(t.bins, t.entry_power)
         /\ t.entries_bound \in Nat
         /\ t.entries_bound < Pow2[t.entry_power + 1]
<1>1. t.entry_power \in MINIMAL_POWER2 .. MAX_POWER2 /\ t.entry_power \in Nat
  BY TableFacts DEF TableType
<1>2. BinsCount(t.entry_power) = Pow2[t.entry_power + 1]
  BY DEF BinsCount, has_bins
<1>3. IsBins(t.bins, t.entry_power)
  <2> DEFINE D == 0 .. Pow2[t.entry_power + 1] - 1
             R == 0 .. allocated_entries(t) + 1
  <2>1. t.bins \in [D -> R]
    BY <1>2 DEF TableType
  <2>2. R \subseteq Nat
    OBVIOUS
  <2> HIDE DEF R, D
  <2>3. t.bins \in [D -> Nat]
    BY <2>1, <2>2
  <2> QED BY <2>3 DEF IsBins, D
<1>4. t.entries_bound \in Nat /\ t.entries_bound <= Pow2[t.entry_power]
  BY TableFacts DEF TableType, allocated_entries
<1>5. /\ Pow2[t.entry_power + 1] = 2 * Pow2[t.entry_power]
      /\ Pow2[t.entry_power] \in Nat \ {0}
  BY <1>1, Pow2Def
<1> QED BY <1>1, <1>3, <1>4, <1>5

(* EntriesReachable, in terms of Reaches.                                   *)
LEMMA ReachableReaches ==
  ASSUME NEW t
  PROVE  EntriesReachable(t) <=>
           (has_bins(t) => \A i \in Live(t) :
              Reaches(t.bins, t.entry_power, t.entries[i].hash, i + ENTRY_BASE))
  BY DEF EntriesReachable, Reaches

(* The loops of find_bin_for_entry and find_insertion_bin end for every     *)
(* hash: the probe meets an empty bin.                                      *)
LEMMA ProbesEnd ==
  ASSUME NEW t, Searchable(t), has_bins(t), NEW hash \in Hashes
  PROVE  StepsAt(t.bins, t.entry_power, hash, EMPTY_BIN) # {}
<1>1. TableType(t) /\ UsesAtMost(t.bins, t.entries_bound)
  BY DEF Searchable, Sound
<1> QED BY <1>1, TableBins, EmptyBinMet

(* The hash a live entry stores is the hash of its key.                     *)
LEMMA LiveHash ==
  ASSUME NEW t, Searchable(t), NEW i \in Live(t)
  PROVE  /\ t.entries[i].key \in Key
         /\ t.entries[i].hash = do_hash(t.entries[i].key)
         /\ t.entries[i].hash \in Hashes
         /\ i \in Nat /\ i \in 0 .. t.entries_bound - 1
<1>1. TableType(t) /\ KeysDistinct(t)
  BY DEF Searchable, Sound
<1>2. i \in 0 .. t.entries_bound - 1 /\ i \in Nat
  BY <1>1, TableFacts
<1>3. t.entries[i].key \in Key
  BY <1>1, <1>2 DEF TableType, Entry
<1>4. t.entries[i].hash = do_hash(t.entries[i].key)
  BY <1>1 DEF KeysDistinct
<1> QED BY <1>2, <1>3, <1>4 DEF Hashes

(* Equal keys have equal hashes, normalized or not.                         *)
LEMMA EqualHash ==
  ASSUME NEW k \in Key, NEW l \in Key, keys_equal(k, l)
  PROVE  do_hash(k) = do_hash(l)
  BY PolicyContract DEF keys_equal, do_hash

(* A bin that holds an entry holds a natural number as its index.           *)
LEMMA IndexOfEntry ==
  ASSUME NEW v \in Nat, v >= ENTRY_BASE
  PROVE  v - ENTRY_BASE \in Nat
BY DEF ENTRY_BASE

(* A search for a key finds the entry whose key is equal.                   *)
LEMMA SearchFinds ==
  ASSUME NEW t, Searchable(t), NEW key \in Key, NEW i \in Live(t),
         keys_equal(key, t.entries[i].key)
  PROVE  find_entry_index(t, do_hash(key), key) = i
<1> DEFINE hash == do_hash(key)
           found == find_entry_index(t, hash, key)
<1>0. Sound(t) /\ TableType(t) /\ KeysDistinct(t) /\ EntriesReachable(t)
  BY DEF Searchable, Sound
<1>1. hash \in Hashes /\ t.entries[i].hash = hash /\ i \in Nat
  BY LiveHash, EqualHash DEF Hashes
<1>2. entry_matches(t, i, hash, key)
  BY <1>1 DEF entry_matches
<1>3. found # NO_INDEX
  <2>1. CASE ~ has_bins(t)
    <3> DEFINE hits == {j \in t.entries_start .. t.entries_bound - 1 :
                          entry_matches(t, j, hash, key)}
    <3>1. i \in hits
      BY <1>2 DEF Live
    <3>2. hits \in SUBSET Nat
      BY <1>0, TableFacts
    <3>3. Min(hits) \in Nat
      BY <3>1, <3>2, MinNat
    <3>4. found = Min(hits)
      BY <2>1, <3>1 DEF find_entry_index, find_entry_linear
    <3> HIDE DEF found, hits
    <3> QED BY <3>3, <3>4 DEF NO_INDEX
  <2>2. CASE has_bins(t)
    <3> DEFINE hits == StepsMatching(t, hash, key)
               empties == StepsAt(t.bins, t.entry_power, hash, EMPTY_BIN)
               stop == Min(hits \cup empties)
               path == ProbePath[hash][t.entry_power]
               bin == find_bin_for_entry(t, hash, key)
    <3>1. PICK n \in ProbeSteps(t.entry_power) :
            /\ t.bins[path[n]] = i + ENTRY_BASE
            /\ \A m \in 0 .. n - 1 : t.bins[path[m]] # EMPTY_BIN
      BY <1>0, <1>1, <2>2 DEF EntriesReachable
    <3>2. i + ENTRY_BASE >= ENTRY_BASE /\ (i + ENTRY_BASE) - ENTRY_BASE = i
      BY <1>1 DEF ENTRY_BASE
    <3>3. n \in hits
      BY <1>2, <3>1, <3>2 DEF StepsMatching
    <3>4. /\ t.entry_power \in MINIMAL_POWER2 .. MAX_POWER2
          /\ IsBins(t.bins, t.entry_power)
      BY <1>0, <2>2, TableBins
    <3>5. hits \cup empties \in SUBSET Nat /\ n \in Nat
      BY <3>4, BinsFacts DEF StepsMatching, StepsAt
    <3> HIDE DEF hits
    <3>6. stop \in hits \cup empties /\ stop <= n /\ stop \in Nat
      BY <3>3, <3>5, MinNat
    <3> HIDE DEF stop
    <3>7. stop \in hits
      <4> SUFFICES ASSUME stop \in empties PROVE FALSE
        BY <3>6
      <4>1. t.bins[path[stop]] = EMPTY_BIN
        BY DEF StepsAt
      <4>2. stop # n
        <5>1. i + ENTRY_BASE # EMPTY_BIN
          BY <1>1 DEF EMPTY_BIN, ENTRY_BASE
        <5> QED BY Zenon, <3>1, <4>1, <5>1
      <4>3. stop \in 0 .. n - 1
        BY <3>5, <3>6, <4>2
      <4> QED BY <3>1, <4>1, <4>3
    <3>8. bin = path[stop] /\ t.bins[bin] >= ENTRY_BASE
      <4>1. bin = path[stop]
        BY <3>7 DEF find_bin_for_entry, stop, hits
      <4> QED BY <3>7, <4>1 DEF StepsMatching, hits
    <3>9. stop \in ProbeSteps(t.entry_power)
      BY <3>7 DEF StepsMatching, hits
    <3>10. bin \in DOMAIN t.bins /\ bin \in Nat
      <4>1. path \in [ProbeSteps(t.entry_power) -> 0 .. Pow2[t.entry_power + 1] - 1]
        BY <1>1, <3>4, ProbePathType
      <4>2. DOMAIN t.bins = 0 .. Pow2[t.entry_power + 1] - 1
        BY <3>4, BinsFacts
      <4> HIDE DEF path, bin
      <4>3. bin \in 0 .. Pow2[t.entry_power + 1] - 1
        BY <3>8, <3>9, <4>1
      <4> QED BY <4>2, <4>3
    <3>11. t.bins[bin] - ENTRY_BASE \in Nat
      <4>1. t.bins[bin] \in Nat
        BY <3>4, <3>10 DEF IsBins
      <4> HIDE DEF bin
      <4> QED BY Zenon, <3>8, <4>1, IndexOfEntry
    <3>12. found = t.bins[bin] - ENTRY_BASE
      <4>1. bin # NO_INDEX
        <5> HIDE DEF bin
        <5> QED BY <3>10 DEF NO_INDEX
      <4> QED BY <2>2, <4>1 DEF find_entry_index, find_entry_binned
    <3> HIDE DEF bin, found
    <3> QED BY <3>11, <3>12 DEF NO_INDEX
  <2> QED BY <2>1, <2>2
<1>4. found \in Live(t) /\ entry_matches(t, found, hash, key)
  <2> HIDE DEF hash
  <2> QED BY <1>0, <1>1, <1>3, FoundIsLive
<1> HIDE DEF found
<1>5. keys_equal(t.entries[i].key, t.entries[found].key)
  BY <1>4 DEF entry_matches, keys_equal
<1>6. i = found
  BY <1>0, <1>4, <1>5 DEF KeysDistinct
<1> QED BY <1>6 DEF found

-----------------------------------------------------------------------------
(* Every writer keeps a table searchable.                                  *)

(* u is table t with the key and the record of entry i overwritten.         *)
EntrySet(t, u, i, key, value) ==
  /\ u.entry_power = t.entry_power /\ u.entries_bound = t.entries_bound
  /\ u.bins = t.bins
  /\ u.entries[i] = [hash |-> t.entries[i].hash, key |-> key, record |-> value]
  /\ \A j \in 0 .. t.entries_bound - 1 : j # i => u.entries[j] = t.entries[j]

(* What SetRecord leaves of a table.                                        *)
LEMMA SetRecordFields ==
  ASSUME NEW t, TableType(t), NEW i \in 0 .. t.entries_bound - 1, NEW key, NEW value
  PROVE  EntrySet(t, SetRecord(t, i, key, value), i, key, value)
<1> DEFINE u == SetRecord(t, i, key, value)
           e == [hash |-> t.entries[i].hash, key |-> key, record |-> value]
<1>1. /\ u.entry_power = t.entry_power /\ u.entries_bound = t.entries_bound
      /\ u.bins = t.bins /\ u.entries = [t.entries EXCEPT ![i] = e]
  BY DEF SetRecord, TableType
<1>2. DOMAIN t.entries = 0 .. t.entries_bound - 1
  BY DEF TableType
<1> HIDE DEF u, e
<1>3. u.entries[i] = e
  BY <1>1, <1>2
<1>4. \A j \in 0 .. t.entries_bound - 1 : j # i => u.entries[j] = t.entries[j]
  BY <1>1, <1>2
<1> QED BY Zenon, <1>1, <1>3, <1>4 DEF u, e, EntrySet

(* u is table t with one more entry, indexed by bin if there is one.        *)
EntryAppended(t, u, hash, key, value, bin) ==
  LET n == t.entries_bound
  IN  /\ u.entry_power = t.entry_power /\ u.entries_bound = n + 1
      /\ u.bins = IF bin = NO_INDEX THEN t.bins
                  ELSE set_bin(t.bins, t.entry_power, bin, n + ENTRY_BASE)
      /\ u.entries[n] = [hash |-> hash, key |-> key, record |-> value]
      /\ \A j \in 0 .. n - 1 : u.entries[j] = t.entries[j]

(* What AppendEntry leaves of a table.                                      *)
LEMMA AppendEntryFields ==
  ASSUME NEW t, TableType(t), NEW hash, NEW key, NEW value, NEW bin
  PROVE  EntryAppended(t, AppendEntry(t, hash, key, value, bin), hash, key, value, bin)
<1> DEFINE u == AppendEntry(t, hash, key, value, bin)
           n == t.entries_bound
           e == [hash |-> hash, key |-> key, record |-> value]
<1>1. /\ u.entry_power = t.entry_power /\ u.entries_bound = n + 1
      /\ u.bins = IF bin = NO_INDEX THEN t.bins
                  ELSE set_bin(t.bins, t.entry_power, bin, n + ENTRY_BASE)
      /\ u.entries = [j \in 0 .. n |-> IF j = n THEN e ELSE t.entries[j]]
  BY DEF AppendEntry, TableType
<1>2. n \in Nat
  BY TableFacts
<1> HIDE DEF u, e, n
<1>3. u.entries[n] = e
  BY <1>1, <1>2
<1>4. \A j \in 0 .. n - 1 : u.entries[j] = t.entries[j]
  BY <1>1, <1>2
<1> QED BY Zenon, <1>1, <1>3, <1>4 DEF u, e, n, EntryAppended

(* What RemoveEntry leaves of a table, entries_start aside.                 *)
LEMMA RemoveEntryFields ==
  ASSUME NEW t, TableType(t), NEW i, NEW bin
  PROVE  LET u == RemoveEntry(t, i, bin)
         IN  /\ u.entry_power = t.entry_power /\ u.entries_bound = t.entries_bound
             /\ u.bins = IF has_bins(t) THEN set_bin(t.bins, t.entry_power, bin, DELETED_BIN)
                         ELSE t.bins
             /\ \A j \in 0 .. t.entries_bound - 1 : j # i => u.entries[j] = t.entries[j]
<1> DEFINE E == [t.entries EXCEPT ![i].hash = DELETED_HASH]
           B == IF has_bins(t) THEN set_bin(t.bins, t.entry_power, bin, DELETED_BIN) ELSE t.bins
           v == [t EXCEPT !.entries = E, !.bins = B, !.num_entries = t.num_entries - 1]
           u == RemoveEntry(t, i, bin)
           F == {"entry_power", "num_entries", "entries_start", "entries_bound",
                 "rebuilds_num", "entries", "bins"}
<1>1. u = update_start_after_delete(v)
  BY DEF RemoveEntry
<1>2. \A j \in 0 .. t.entries_bound - 1 : j # i => E[j] = t.entries[j]
  BY DEF TableType
<1> HIDE DEF E, B
<1>3. DOMAIN t = F
  BY DEF TableType
<1>4. /\ v.entry_power = t.entry_power /\ v.entries_bound = t.entries_bound
      /\ v.entries = E /\ v.bins = B /\ DOMAIN v = F
  BY <1>3
<1> HIDE DEF v, u
<1>5. /\ u.entry_power = v.entry_power /\ u.entries_bound = v.entries_bound
      /\ u.entries = v.entries /\ u.bins = v.bins
  BY <1>1, <1>4 DEF update_start_after_delete
<1> QED BY <1>2, <1>4, <1>5 DEF u, B

(* u holds the live entries of table t in their order, and no other.        *)
EntriesRepacked(t, u, power) ==
  LET n == Cardinality(Live(t))
  IN  /\ u.entry_power = power /\ u.entries_bound = n
      /\ u.entries = LiveEntries(t)
      /\ u.bins = build_bins(power, LiveEntries(t), n)
      /\ \A d \in 0 .. n - 1 : u.entries[d] = t.entries[LiveAt(t, d)]

(* What Repacked leaves of a table.                                         *)
LEMMA RepackedFields ==
  ASSUME NEW t, TableType(t), NEW power
  PROVE  EntriesRepacked(t, Repacked(t, power), power)
<1> DEFINE u == Repacked(t, power)
<1>1. /\ u.entry_power = power /\ u.entries_bound = Cardinality(Live(t))
      /\ u.entries = LiveEntries(t)
      /\ u.bins = build_bins(power, LiveEntries(t), Cardinality(Live(t)))
  BY DEF Repacked, TableType
<1>2. \A d \in 0 .. Cardinality(Live(t)) - 1 : LiveEntries(t)[d] = t.entries[LiveAt(t, d)]
  BY DEF LiveEntries
<1> HIDE DEF u
<1>3. \A d \in 0 .. Cardinality(Live(t)) - 1 : u.entries[d] = t.entries[LiveAt(t, d)]
  BY <1>1, <1>2
<1> QED BY Zenon, <1>1, <1>3 DEF u, EntriesRepacked

(* A table with no entry at all, as allocate_table and st_clear leave it.   *)
LEMMA EmptySearchable ==
  ASSUME NEW t, Sound(t), t.entries_bound = 0,
         \A b \in DOMAIN t.bins : t.bins[b] = EMPTY_BIN
  PROVE  Searchable(t)
<1>1. Live(t) = {}
  <2>1. Live(t) \in SUBSET (0 .. t.entries_bound - 1)
    BY TableFacts DEF Sound
  <2> QED BY <2>1
<1>2. UsedBins(t.bins) = {}
  BY DEF UsedBins
<1>3. UsesAtMost(t.bins, t.entries_bound)
  BY <1>2, FS_EmptySet DEF UsesAtMost
<1> QED BY <1>1, <1>3 DEF Searchable, KeysDistinct, EntriesReachable

(* allocate_table.                                                          *)
LEMMA EmptyTableSearchable ==
  ASSUME NEW p \in MINIMAL_POWER2 .. MAX_POWER2
  PROVE  Searchable(EmptyTable(p))
<1> DEFINE t == EmptyTable(p)
<1>1. Sound(t)
  BY EmptyTableSound
<1>2. t.entries_bound = 0 /\ \A b \in DOMAIN t.bins : t.bins[b] = EMPTY_BIN
  BY DEF EmptyTable, initialize_bins
<1> HIDE DEF t
<1> QED BY <1>1, <1>2, EmptySearchable DEF t

(* st_clear.                                                                *)
LEMMA ClearedSearchable ==
  ASSUME NEW t, TableType(t)
  PROVE  Searchable(Cleared(t))
<1> DEFINE u == Cleared(t)
<1>1. Sound(u)
  BY ClearedSound
<1>2. u.entries_bound = 0 /\ u.bins = initialize_bins(t.entry_power)
  BY DEF Cleared, TableType
<1> HIDE DEF u
<1> QED BY <1>1, <1>2, EmptySearchable DEF u, initialize_bins

(* Writing an equal key and a record to a live entry, as st_insert,         *)
(* st_update and ST_REPLACE do.                                             *)
LEMMA SetRecordSearchable ==
  ASSUME NEW t, Searchable(t), NEW i \in Live(t), NEW key \in Key, NEW value \in Value,
         keys_equal(key, t.entries[i].key)
  PROVE  Searchable(SetRecord(t, i, key, value))
<1> DEFINE u == SetRecord(t, i, key, value)
<1>0. /\ Sound(t) /\ TableType(t) /\ KeysDistinct(t) /\ EntriesReachable(t)
      /\ UsesAtMost(t.bins, t.entries_bound)
  BY DEF Searchable, Sound
<1>1. i \in 0 .. t.entries_bound - 1 /\ t.entries[i].key \in Key
  BY LiveHash
<1>2. Sound(u) /\ Live(u) = Live(t)
  BY <1>0, <1>1, SetRecordSound
<1>3. /\ u.entry_power = t.entry_power /\ u.entries_bound = t.entries_bound /\ u.bins = t.bins
      /\ u.entries[i] = [hash |-> t.entries[i].hash, key |-> key, record |-> value]
      /\ \A j \in 0 .. t.entries_bound - 1 : j # i => u.entries[j] = t.entries[j]
  <2>1. EntrySet(t, u, i, key, value)
    BY Zenon, <1>0, <1>1, SetRecordFields
  <2> HIDE DEF u
  <2> QED BY Zenon, <2>1 DEF EntrySet
<1> HIDE DEF u
<1>4. \A j \in Live(t) : j \in 0 .. t.entries_bound - 1
  BY LiveHash
<1>5. /\ u.entries[i].key = key /\ u.entries[i].hash = t.entries[i].hash
      /\ \A j \in Live(t) : j # i => u.entries[j] = t.entries[j]
  BY <1>3, <1>4
<1>6. \A j \in Live(t) : /\ u.entries[j].hash = t.entries[j].hash
                         /\ Ident[u.entries[j].key] = Ident[t.entries[j].key]
  BY <1>5 DEF keys_equal
<1>7. KeysDistinct(u)
  <2>1. ASSUME NEW j \in Live(t) PROVE u.entries[j].hash = do_hash(u.entries[j].key)
    <3>1. t.entries[j].hash = do_hash(t.entries[j].key)
      BY LiveHash
    <3>2. CASE j = i
      <4>1. do_hash(key) = do_hash(t.entries[i].key)
        BY <1>1, EqualHash
      <4> QED BY <1>5, <3>1, <3>2, <4>1
    <3>3. CASE j # i
      BY <1>5, <3>1, <3>3
    <3> QED BY <3>2, <3>3
  <2> QED BY <1>0, <1>2, <1>6, <2>1 DEF KeysDistinct, keys_equal
<1>8. EntriesReachable(u)
  <2>1. has_bins(u) <=> has_bins(t)
    BY <1>3 DEF has_bins
  <2>2. ASSUME has_bins(u), NEW j \in Live(u)
        PROVE  Reaches(u.bins, u.entry_power, u.entries[j].hash, j + ENTRY_BASE)
    <3>1. Reaches(t.bins, t.entry_power, t.entries[j].hash, j + ENTRY_BASE)
      BY <1>0, <1>2, <2>1, <2>2, ReachableReaches
    <3> QED BY <1>2, <1>3, <1>6, <3>1
  <2> QED BY <2>2, ReachableReaches
<1> QED BY <1>0, <1>2, <1>3, <1>7, <1>8 DEF Searchable, u

(* Appending an entry for a key that no live entry has, in the bin that the *)
(* search for it reserved.                                                  *)
LEMMA AppendEntrySearchable ==
  ASSUME NEW t, Searchable(t), t.entries_bound < allocated_entries(t),
         NEW key \in Key, NEW value \in Value,
         \A i \in Live(t) : ~ keys_equal(key, t.entries[i].key)
  PROVE  Searchable(AppendEntry(t, do_hash(key), key, value, ReservedBin(t, do_hash(key))))
<1> DEFINE hash == do_hash(key)
           bin == ReservedBin(t, hash)
           u == AppendEntry(t, hash, key, value, bin)
           n == t.entries_bound
<1>0. /\ Sound(t) /\ TableType(t) /\ KeysDistinct(t) /\ EntriesReachable(t)
      /\ UsesAtMost(t.bins, t.entries_bound)
  BY DEF Searchable, Sound
<1>1. hash \in Hashes /\ hash \in 0 .. RESERVED_HASH /\ hash # DELETED_HASH
  BY DoHash DEF Hashes
<1>2. n \in Nat /\ t.entry_power \in MINIMAL_POWER2 .. MAX_POWER2
  BY <1>0, TableFacts DEF TableType
<1> HIDE DEF bin
<1>3. Sound(u) /\ Live(u) = Live(t) \cup {n}
  BY <1>0, <1>1, AppendEntrySound
<1>4. /\ u.entry_power = t.entry_power /\ u.entries_bound = n + 1
      /\ u.bins = IF bin = NO_INDEX THEN t.bins
                  ELSE set_bin(t.bins, t.entry_power, bin, n + ENTRY_BASE)
      /\ u.entries[n] = [hash |-> hash, key |-> key, record |-> value]
      /\ \A j \in 0 .. n - 1 : u.entries[j] = t.entries[j]
  <2>1. EntryAppended(t, u, hash, key, value, bin)
    BY Zenon, <1>0, AppendEntryFields
  <2> HIDE DEF u
  <2> QED BY Zenon, <2>1 DEF EntryAppended
<1> HIDE DEF u
<1>5. \A j \in Live(t) : j \in 0 .. n - 1
  BY LiveHash
<1>6. /\ u.entries[n].key = key /\ u.entries[n].hash = hash
      /\ \A j \in Live(t) : u.entries[j] = t.entries[j]
  BY <1>4, <1>5
<1>7. KeysDistinct(u)
  <2>1. ASSUME NEW j \in Live(u) PROVE u.entries[j].hash = do_hash(u.entries[j].key)
    BY <1>3, <1>6, LiveHash
  <2>2. ASSUME NEW j \in Live(u), NEW k \in Live(u),
               keys_equal(u.entries[j].key, u.entries[k].key)
        PROVE  j = k
    BY <1>0, <1>3, <1>6, <2>2 DEF KeysDistinct, keys_equal
  <2> QED BY <2>1, <2>2 DEF KeysDistinct
<1>8. CASE ~ has_bins(t)
  <2>1. bin = NO_INDEX /\ u.bins = t.bins
    BY <1>4, <1>8 DEF bin, ReservedBin
  <2>2. EntriesReachable(u)
    BY <1>4, <1>8 DEF EntriesReachable, has_bins
  <2>3. UsesAtMost(u.bins, u.entries_bound)
    <3>1. Cardinality(UsedBins(t.bins)) = 0
      <4>1. UsedBins(t.bins) = {}
        BY <1>0, <1>8 DEF UsedBins, TableType, BinsCount, has_bins
      <4> QED BY <4>1, FS_EmptySet
    <3> QED BY <1>2, <1>4, <2>1, <3>1 DEF UsesAtMost
  <2>4. Searchable(u)
    BY <1>3, <1>7, <2>2, <2>3 DEF Searchable
  <2> QED BY <2>4 DEF u, bin
<1>9. CASE has_bins(t)
  <2> DEFINE p == t.entry_power
             v == n + ENTRY_BASE
  <2>1. IsBins(t.bins, p) /\ StepsAt(t.bins, p, hash, EMPTY_BIN) # {}
    BY <1>0, <1>1, <1>9, TableBins, ProbesEnd
  <2>2. bin = find_insertion_bin(t.bins, p, hash)
    BY <1>9 DEF bin, ReservedBin
  <2>3. bin \in DOMAIN t.bins /\ DOMAIN t.bins = 0 .. Pow2[p + 1] - 1
    <3>1. bin \in DOMAIN t.bins
      <4>1. PICK k \in ProbeSteps(p) : InsertsAt(k, t.bins, p, hash)
        BY <1>1, <1>2, <2>1, InsertionBin
      <4> QED BY Zenon, <2>2, <4>1 DEF InsertsAt
    <3> QED BY <1>2, <2>1, <3>1, BinsFacts
  <2>4. bin # NO_INDEX
    <3>1. bin \in Nat
      BY <2>3
    <3> QED BY <3>1 DEF NO_INDEX
  <2>5. v % BinModulus(p) = v /\ v \in Nat /\ v >= ENTRY_BASE
    <3>1. BinModulus(p) \in Nat /\ n + 2 < BinModulus(p)
      <4>1. Pow2[p] \in Nat /\ n < Pow2[p]
        BY <1>2, <2>1, BinsFacts DEF allocated_entries
      <4> QED BY <1>2, <4>1, BinsWideEnough
    <3> QED BY <1>2, <3>1 DEF ENTRY_BASE
  <2>6. u.bins = [t.bins EXCEPT ![find_insertion_bin(t.bins, p, hash)] = v]
    BY <1>4, <2>2, <2>4, <2>5 DEF set_bin
  <2> HIDE DEF v
  <2>7. /\ Reaches(u.bins, p, hash, v)
        /\ KeepsReached(t.bins, u.bins, p)
        /\ UsesAtMost(u.bins, n + 1)
    BY <1>0, <1>1, <1>2, <2>1, <2>5, <2>6, FillsInsertionBin
  <2>8. ASSUME NEW j \in Live(u)
        PROVE  Reaches(u.bins, p, u.entries[j].hash, j + ENTRY_BASE)
    <3>1. CASE j = n
      BY <1>6, <2>7, <3>1 DEF v
    <3>2. CASE j \in Live(t)
      <4>1. t.entries[j].hash \in Hashes /\ j \in Nat
        BY <3>2, LiveHash
      <4>2. Reaches(t.bins, p, t.entries[j].hash, j + ENTRY_BASE)
        BY <1>0, <1>9, <3>2, ReachableReaches
      <4>3. j + ENTRY_BASE \in Nat /\ j + ENTRY_BASE >= ENTRY_BASE
        BY <4>1 DEF ENTRY_BASE
      <4> QED BY <1>6, <2>7, <3>2, <4>1, <4>2, <4>3 DEF KeepsReached
    <3> QED BY <1>3, <3>1, <3>2
  <2>9. EntriesReachable(u)
    BY <1>4, <2>8, ReachableReaches
  <2>10. Searchable(u)
    BY <1>3, <1>4, <1>7, <2>7, <2>9 DEF Searchable
  <2> QED BY <2>10 DEF u, bin
<1> QED BY <1>8, <1>9

(* Deleting a live entry and marking the bin that holds it.                 *)
LEMMA RemoveEntrySearchable ==
  ASSUME NEW t, Searchable(t), NEW i \in Live(t), NEW bin,
         has_bins(t) => bin \in DOMAIN t.bins /\ t.bins[bin] = i + ENTRY_BASE
  PROVE  Searchable(RemoveEntry(t, i, bin))
<1> DEFINE u == RemoveEntry(t, i, bin)
<1>0. /\ Sound(t) /\ TableType(t) /\ KeysDistinct(t) /\ EntriesReachable(t)
      /\ UsesAtMost(t.bins, t.entries_bound)
  BY DEF Searchable, Sound
<1>1. Sound(u) /\ Live(u) = Live(t) \ {i}
  BY <1>0, RemoveEntrySound
<1>2. /\ u.entry_power = t.entry_power /\ u.entries_bound = t.entries_bound
      /\ u.bins = IF has_bins(t) THEN set_bin(t.bins, t.entry_power, bin, DELETED_BIN)
                  ELSE t.bins
      /\ \A j \in 0 .. t.entries_bound - 1 : j # i => u.entries[j] = t.entries[j]
  BY <1>0, RemoveEntryFields
<1> HIDE DEF u
<1>3. i \in Nat /\ \A j \in Live(t) : j \in 0 .. t.entries_bound - 1 /\ j \in Nat
  BY LiveHash
<1>4. \A j \in Live(u) : u.entries[j] = t.entries[j] /\ j \in Live(t) /\ j # i
  BY <1>1, <1>2, <1>3
<1>5. KeysDistinct(u)
  BY <1>0, <1>4 DEF KeysDistinct
<1>6. CASE ~ has_bins(t)
  <2>1. u.bins = t.bins
    BY <1>2, <1>6
  <2>2. EntriesReachable(u)
    BY <1>2, <1>6 DEF EntriesReachable, has_bins
  <2> QED BY <1>0, <1>1, <1>2, <1>5, <2>1, <2>2 DEF Searchable, u
<1>7. CASE has_bins(t)
  <2> DEFINE p == t.entry_power
             D == DOMAIN t.bins
  <2>1. p \in MINIMAL_POWER2 .. MAX_POWER2 /\ IsBins(t.bins, p)
    BY <1>0, <1>7, TableBins
  <2>2. t.bins \in [D -> Nat] /\ D = 0 .. Pow2[p + 1] - 1
    BY <2>1 DEF IsBins
  <2>3. DELETED_BIN % BinModulus(p) = DELETED_BIN
    <3>1. BinModulus(p) \in Nat /\ 1 < BinModulus(p)
      BY <2>1, BinsWideEnough, BinsFacts
    <3> QED BY <3>1 DEF DELETED_BIN
  <2>4. u.bins = [t.bins EXCEPT ![bin] = DELETED_BIN]
    BY <1>2, <1>7, <2>3 DEF set_bin
  <2> HIDE DEF D
  <2>5. /\ DOMAIN u.bins = D
        /\ u.bins[bin] = DELETED_BIN
        /\ \A b \in D : b # bin => u.bins[b] = t.bins[b]
    BY <1>7, <2>2, <2>4 DEF D
  <2>6. \A b \in D : u.bins[b] = EMPTY_BIN <=> t.bins[b] = EMPTY_BIN
    <3>1. t.bins[bin] = i + ENTRY_BASE
      BY <1>7
    <3> QED BY <1>3, <2>5, <3>1 DEF EMPTY_BIN, DELETED_BIN, ENTRY_BASE
  <2>7. UsesAtMost(u.bins, u.entries_bound)
    <3>1. UsedBins(u.bins) = UsedBins(t.bins)
      BY <2>5, <2>6 DEF UsedBins, D
    <3> QED BY <1>0, <1>2, <3>1 DEF UsesAtMost
  <2>8. ASSUME NEW j \in Live(u)
        PROVE  Reaches(u.bins, p, u.entries[j].hash, j + ENTRY_BASE)
    <3> DEFINE path == ProbePath[t.entries[j].hash][p]
    <3>1. j \in Live(t) /\ j # i /\ u.entries[j] = t.entries[j] /\ j \in Nat
      BY <1>3, <1>4
    <3>2. PICK n \in ProbeSteps(p) :
            /\ t.bins[path[n]] = j + ENTRY_BASE
            /\ \A m \in 0 .. n - 1 : t.bins[path[m]] # EMPTY_BIN
      <4>1. Reaches(t.bins, p, t.entries[j].hash, j + ENTRY_BASE)
        BY <1>0, <1>7, <3>1, ReachableReaches
      <4> QED BY <4>1 DEF Reaches
    <3>3. \A m \in ProbeSteps(p) : path[m] \in D
      <4>1. t.entries[j].hash \in Hashes
        BY <3>1, LiveHash
      <4>2. path \in [ProbeSteps(p) -> 0 .. Pow2[p + 1] - 1]
        BY <2>1, <4>1, ProbePathType
      <4> HIDE DEF path
      <4> QED BY <2>2, <4>2
    <3>4. \A m \in 0 .. n - 1 : m \in ProbeSteps(p)
      BY <2>1, StepsBefore
    <3> HIDE DEF path
    <3>5. path[n] # bin
      BY <1>3, <1>7, <3>1, <3>2 DEF ENTRY_BASE
    <3>6. u.bins[path[n]] = j + ENTRY_BASE
      BY <2>5, <3>2, <3>3, <3>5
    <3>7. \A m \in 0 .. n - 1 : u.bins[path[m]] # EMPTY_BIN
      BY <2>6, <3>2, <3>3, <3>4
    <3> QED BY <3>1, <3>6, <3>7 DEF Reaches, path
  <2>9. EntriesReachable(u)
    BY <1>2, <2>8, ReachableReaches
  <2> QED BY <1>1, <1>5, <2>7, <2>9 DEF Searchable, u
<1> QED BY <1>6, <1>7

(* Two indexes that the copying loops fill come from two live entries.      *)
LEMMA LiveAtDistinct ==
  ASSUME NEW t, TableType(t),
         NEW d \in 0 .. Cardinality(Live(t)) - 1, NEW e \in 0 .. Cardinality(Live(t)) - 1,
         LiveAt(t, d) = LiveAt(t, e)
  PROVE  d = e
<1>1. Cardinality({j \in Live(t) : j < LiveAt(t, d)}) = d
  BY LiveAtRank
<1>2. Cardinality({j \in Live(t) : j < LiveAt(t, e)}) = e
  BY LiveAtRank
<1> QED BY <1>1, <1>2

(* rebuild and compact_in_place.                                            *)
LEMMA RepackedSearchable ==
  ASSUME NEW t, Searchable(t), NEW power \in MINIMAL_POWER2 .. MAX_POWER2,
         t.num_entries <= Pow2[power]
  PROVE  Searchable(Repacked(t, power))
<1> DEFINE u == Repacked(t, power)
           n == Cardinality(Live(t))
<1>0. /\ Sound(t) /\ TableType(t) /\ KeysDistinct(t)
      /\ t.num_entries = n /\ n \in Nat
  BY TableFacts DEF Searchable, Sound, CountsLive
<1>1. Sound(u) /\ Live(u) = 0 .. n - 1
  BY <1>0, RepackedSound
<1>2. /\ u.entry_power = power /\ u.entries_bound = n
      /\ u.bins = build_bins(power, LiveEntries(t), n) /\ u.entries = LiveEntries(t)
      /\ \A d \in 0 .. n - 1 : u.entries[d] = t.entries[LiveAt(t, d)]
  <2>1. EntriesRepacked(t, u, power)
    BY Zenon, <1>0, RepackedFields
  <2> HIDE DEF u
  <2> QED BY Zenon, <2>1 DEF EntriesRepacked
<1>3. LiveEntries(t) = u.entries
  BY <1>2
<1> HIDE DEF u
<1>4. \A d \in 0 .. n - 1 : LiveAt(t, d) \in Live(t) /\ u.entries[d] = t.entries[LiveAt(t, d)]
  BY <1>0, <1>2, LiveAtRank
<1>5. KeysDistinct(u)
  <2>1. ASSUME NEW d \in 0 .. n - 1 PROVE u.entries[d].hash = do_hash(u.entries[d].key)
    BY <1>4, LiveHash
  <2>2. ASSUME NEW d \in 0 .. n - 1, NEW e \in 0 .. n - 1,
               keys_equal(u.entries[d].key, u.entries[e].key)
        PROVE  d = e
    <3>1. LiveAt(t, d) = LiveAt(t, e)
      BY <1>0, <1>4, <2>2 DEF KeysDistinct
    <3> QED BY <1>0, <3>1, LiveAtDistinct
  <2> QED BY <1>1, <2>1, <2>2 DEF KeysDistinct
<1>6. CASE power > MAX_POWER2_WITHOUT_BINS
  <2>1. \A j \in 0 .. n - 1 : u.entries[j].hash \in Hashes
    BY <1>4, LiveHash
  <2>2. Indexes(u.bins, power, u.entries, n)
    BY <1>0, <1>2, <1>3, <1>6, <2>1, BuildBinsIndexes
  <2>3. UsesAtMost(u.bins, u.entries_bound)
    BY <1>2, <2>2 DEF Indexes
  <2>4. EntriesReachable(u)
    <3>1. \A j \in Live(u) : Reaches(u.bins, u.entry_power, u.entries[j].hash, j + ENTRY_BASE)
      BY <1>1, <1>2, <2>2 DEF Indexes
    <3> QED BY <3>1, ReachableReaches
  <2> QED BY <1>1, <1>5, <2>3, <2>4 DEF Searchable, u
<1>7. CASE ~ (power > MAX_POWER2_WITHOUT_BINS)
  <2>1. ~ has_bins(u)
    BY <1>2, <1>7 DEF has_bins
  <2>2. UsedBins(u.bins) = {}
    <3>1. DOMAIN u.bins = 0 .. BinsCount(u.entry_power) - 1
      BY <1>1 DEF Sound, TableType
    <3> QED BY <1>2, <1>7, <3>1 DEF UsedBins, BinsCount
  <2>3. UsesAtMost(u.bins, u.entries_bound)
    BY <1>0, <1>2, <2>2, FS_EmptySet DEF UsesAtMost
  <2>4. EntriesReachable(u)
    BY <2>1 DEF EntriesReachable
  <2> QED BY <1>1, <1>5, <2>3, <2>4 DEF Searchable, u
<1> QED BY <1>6, <1>7

(* ensure_insert_capacity leaves a searchable table with room for an entry. *)
LEMMA EnsuresSearchable ==
  ASSUME NEW t, Searchable(t), CanGrow(t)
  PROVE  /\ Searchable(ensure_insert_capacity(t))
         /\ ensure_insert_capacity(t).entries_bound
              < allocated_entries(ensure_insert_capacity(t))
<1> DEFINE u == ensure_insert_capacity(t)
<1>0. Sound(t) /\ TableType(t)
  BY DEF Searchable, Sound
<1>1. u.entries_bound < allocated_entries(u)
  BY <1>0, EnsuresCapacity
<1> HIDE DEF u
<1>2. ASSUME NEW p \in MINIMAL_POWER2 .. MAX_POWER2, u = Repacked(t, p), t.num_entries < Pow2[p]
      PROVE  Searchable(u)
  <2>1. p \in Nat
    BY StorageConstants
  <2>2. t.num_entries \in Nat
    BY <1>0 DEF TableType
  <2>3. t.num_entries <= Pow2[p]
    BY <1>2, <2>1, <2>2, Pow2Def
  <2> QED BY <1>2, <2>3, RepackedSearchable
<1>3. u = t \/ \E p \in MINIMAL_POWER2 .. MAX_POWER2 :
                 u = Repacked(t, p) /\ t.num_entries < Pow2[p]
  BY <1>0, EnsuresRoom DEF u
<1> QED BY <1>1, <1>2, <1>3 DEF u

(* A search that reports no entry means that no live entry has the key.     *)
LEMMA SearchMisses ==
  ASSUME NEW t, Searchable(t), NEW key \in Key,
         find_entry_index(t, do_hash(key), key) = NO_INDEX
  PROVE  \A i \in Live(t) : ~ keys_equal(key, t.entries[i].key)
<1> SUFFICES ASSUME NEW i \in Live(t), keys_equal(key, t.entries[i].key) PROVE FALSE
  OBVIOUS
<1>1. i = NO_INDEX /\ i \in Nat
  BY SearchFinds, LiveHash
<1> QED BY <1>1 DEF NO_INDEX

(* A search that reports an entry reports the one that has the key.         *)
LEMMA SearchHits ==
  ASSUME NEW t, Searchable(t), NEW key \in Key,
         find_entry_index(t, do_hash(key), key) # NO_INDEX
  PROVE  LET i == find_entry_index(t, do_hash(key), key)
         IN  /\ i \in Live(t)
             /\ keys_equal(key, t.entries[i].key)
             /\ has_bins(t) => BinOf(t, do_hash(key), key) \in DOMAIN t.bins
                               /\ t.bins[BinOf(t, do_hash(key), key)] = i + ENTRY_BASE
<1>1. Sound(t) /\ do_hash(key) \in Hashes
  BY DEF Searchable, Hashes
<1> QED BY <1>1, FoundIsLive DEF entry_matches, BinOf

(* st_insert and st_insert2 on a table with room.                           *)
LEMMA InsertedSearchable ==
  ASSUME NEW t, Searchable(t), t.entries_bound < allocated_entries(t),
         NEW key \in Key, NEW stored \in Key, keys_equal(key, stored), NEW value \in Value
  PROVE  Searchable(Inserted(t, key, stored, value))
<1> DEFINE i == find_entry_index(t, do_hash(key), key)
<1>1. CASE i = NO_INDEX
  <2>1. do_hash(key) = do_hash(stored)
    BY EqualHash
  <2>2. \A j \in Live(t) : ~ keys_equal(stored, t.entries[j].key)
    BY <1>1, SearchMisses DEF keys_equal
  <2>3. Searchable(AppendEntry(t, do_hash(stored), stored, value, ReservedBin(t, do_hash(stored))))
    BY <2>2, AppendEntrySearchable
  <2> QED BY <1>1, <2>1, <2>3 DEF Inserted
<1>2. CASE i # NO_INDEX
  <2>1. i \in Live(t)
    BY <1>2, SearchHits
  <2> HIDE DEF i
  <2>2. t.entries[i].key \in Key /\ keys_equal(t.entries[i].key, t.entries[i].key)
    BY <2>1, LiveHash DEF keys_equal
  <2>3. Searchable(SetRecord(t, i, t.entries[i].key, value))
    BY <2>1, <2>2, SetRecordSearchable
  <2> QED BY <1>2, <2>3 DEF Inserted, i
<1> QED BY <1>1, <1>2

(* st_delete.                                                               *)
LEMMA DeletedSearchable ==
  ASSUME NEW t, Searchable(t), NEW key \in Key
  PROVE  Searchable(Deleted(t, key))
<1> DEFINE i == find_entry_index(t, do_hash(key), key)
<1>1. CASE i = NO_INDEX
  BY <1>1 DEF Deleted
<1>2. CASE i # NO_INDEX
  <2>1. /\ i \in Live(t)
        /\ has_bins(t) => BinOf(t, do_hash(key), key) \in DOMAIN t.bins
                          /\ t.bins[BinOf(t, do_hash(key), key)] = i + ENTRY_BASE
    BY <1>2, SearchHits
  <2> HIDE DEF i
  <2>2. Searchable(RemoveEntry(t, i, BinOf(t, do_hash(key), key)))
    BY <2>1, RemoveEntrySearchable
  <2> QED BY <1>2, <2>2 DEF Deleted, i
<1> QED BY <1>1, <1>2

(* A searchable table is well formed.                                       *)
LEMMA SearchableWellFormed ==
  ASSUME NEW t, Searchable(t)
  PROVE  WellFormed(t)
  BY DEF Searchable, Sound, WellFormed

-----------------------------------------------------------------------------
(* What the operations do to the map a table stands for.                   *)

Fields == {"entry_power", "num_entries", "entries_start", "entries_bound",
           "rebuilds_num", "entries", "bins"}

IsRecord(t) == t = [f \in Fields |-> t[f]]

IsTable(t) == Searchable(t) /\ IsRecord(t)

(* Every helper that changes a table returns a table.                        *)
LEMMA RecordsStay ==
  ASSUME NEW t, TableType(t)
  PROVE  /\ \A i, key, value : IsRecord(SetRecord(t, i, key, value))
         /\ \A hash, key, value, bin : IsRecord(AppendEntry(t, hash, key, value, bin))
         /\ \A i, bin : IsRecord(RemoveEntry(t, i, bin))
         /\ \A power : IsRecord(Repacked(t, power))
         /\ \A power : IsRecord([t EXCEPT !.entry_power = power])
         /\ IsRecord(Cleared(t))
<1>1. ASSUME NEW i, NEW key, NEW value PROVE IsRecord(SetRecord(t, i, key, value))
  BY DEF TableType, SetRecord, Fields, IsRecord
<1>2. ASSUME NEW hash, NEW key, NEW value, NEW bin
      PROVE  IsRecord(AppendEntry(t, hash, key, value, bin))
  BY DEF TableType, AppendEntry, Fields, IsRecord
<1>3. ASSUME NEW i, NEW bin PROVE IsRecord(RemoveEntry(t, i, bin))
  BY DEF TableType, RemoveEntry, update_start_after_delete, Fields, IsRecord
<1>4. ASSUME NEW power PROVE IsRecord(Repacked(t, power))
  BY DEF TableType, Repacked, Fields, IsRecord
<1>5. ASSUME NEW power PROVE IsRecord([t EXCEPT !.entry_power = power])
  BY DEF TableType, Fields, IsRecord
<1>6. IsRecord(Cleared(t))
  BY DEF TableType, Cleared, Fields, IsRecord
<1> QED BY <1>1, <1>2, <1>3, <1>4, <1>5, <1>6

(* The place of key in a sequence of pairs, 0 when it is in none of them.   *)
PlaceIn(c, key) ==
  IF \E n \in DOMAIN c : keys_equal(c[n].key, key)
  THEN CHOOSE n \in DOMAIN c : keys_equal(c[n].key, key)
  ELSE 0

(* A search finds the entry at the place of its key, or nothing when the    *)
(* key has no place.                                                        *)
LEMMA SearchIsPlace ==
  ASSUME NEW t, Searchable(t), NEW key \in Key
  PROVE  LET i == find_entry_index(t, do_hash(key), key)
             c == Contents(t)
         IN  \/ i = NO_INDEX /\ PlaceIn(c, key) = 0
             \/ /\ i # NO_INDEX /\ i \in Live(t) /\ keys_equal(key, t.entries[i].key)
                /\ PlaceIn(c, key) = RankIn(Live(t), i) + 1
                /\ PlaceIn(c, key) \in DOMAIN c /\ PlaceIn(c, key) # 0
                /\ c[PlaceIn(c, key)] = Pair(t.entries[i])
<1> DEFINE i == find_entry_index(t, do_hash(key), key)
           c == Contents(t)
           N == Cardinality(Live(t))
<1>0. TableType(t) /\ N \in Nat
  BY TableFacts DEF Searchable, Sound
<1>1. ASSUME NEW n \in DOMAIN c, keys_equal(c[n].key, key)
      PROVE  i \in Live(t) /\ i # NO_INDEX /\ n = RankIn(Live(t), i) + 1
  <2> DEFINE j == LiveAt(t, n - 1)
  <2>0. n \in 1 .. N
    BY <1>0, ContentsIsSeq
  <2>1. j \in Live(t) /\ RankIn(Live(t), j) = n - 1 /\ c[n] = Pair(t.entries[j])
    BY <1>0, <2>0, ContentsIsSeq
  <2> HIDE DEF j
  <2>2. keys_equal(key, t.entries[j].key)
    BY <1>1, <2>1 DEF keys_equal, Pair
  <2>3. i = j /\ j \in Nat
    BY <2>1, <2>2, SearchFinds, LiveHash
  <2> QED BY <2>0, <2>1, <2>3 DEF NO_INDEX
<1>2. CASE i = NO_INDEX
  BY <1>1, <1>2 DEF PlaceIn
<1>3. CASE i # NO_INDEX
  <2> DEFINE r == RankIn(Live(t), i) + 1
  <2>1. i \in Live(t) /\ keys_equal(key, t.entries[i].key)
    BY <1>3, SearchHits
  <2> HIDE DEF i
  <2>2. r \in DOMAIN c /\ c[r] = Pair(t.entries[i])
    BY <1>0, <2>1, ContentsAt
  <2>3. keys_equal(c[r].key, key)
    BY <2>1, <2>2 DEF keys_equal, Pair
  <2>4. DOMAIN c = 1 .. N
    BY <1>0, ContentsIsSeq
  <2> HIDE DEF c, r
  <2>5. PlaceIn(c, key) = r
    BY <1>1, <2>2, <2>3 DEF PlaceIn, r
  <2>6. r # 0
    BY <1>0, <2>2, <2>4
  <2> QED BY <1>3, <2>1, <2>2, <2>5, <2>6 DEF i, c, r
<1> QED BY <1>2, <1>3

(* Appending an absent key.                                                 *)
LEMMA AppendedMap ==
  ASSUME NEW t, IsTable(t), t.entries_bound < allocated_entries(t),
         NEW key \in Key, NEW value \in Value,
         \A i \in Live(t) : ~ keys_equal(key, t.entries[i].key)
  PROVE  LET u == AppendEntry(t, do_hash(key), key, value, ReservedBin(t, do_hash(key)))
         IN  IsTable(u) /\ Contents(u) = Append(Contents(t), [key |-> key, value |-> value])
<1> DEFINE u == AppendEntry(t, do_hash(key), key, value, ReservedBin(t, do_hash(key)))
           n == t.entries_bound
<1>0. Searchable(t) /\ Sound(t) /\ TableType(t)
  BY DEF IsTable, Searchable, Sound
<1>1. Searchable(u) /\ IsRecord(u)
  BY <1>0, AppendEntrySearchable, RecordsStay
<1>2. Live(u) = Live(t) \cup {n}
  BY <1>0, DoHash, AppendEntrySound
<1>3. /\ u.entries[n] = [hash |-> do_hash(key), key |-> key, record |-> value]
      /\ \A j \in 0 .. n - 1 : u.entries[j] = t.entries[j]
  <2>1. EntryAppended(t, u, do_hash(key), key, value, ReservedBin(t, do_hash(key)))
    BY Zenon, <1>0, AppendEntryFields
  <2> HIDE DEF u
  <2> QED BY Zenon, <2>1 DEF EntryAppended
<1> HIDE DEF u
<1>4. n \in Nat /\ \A i \in Live(t) : i \in 0 .. n - 1
  BY <1>0, TableFacts
<1>5. \A i \in Live(t) : i < n /\ u.entries[i] = t.entries[i]
  BY <1>3, <1>4
<1>6. Pair(u.entries[n]) = [key |-> key, value |-> value]
  BY <1>3 DEF Pair
<1>7. TableType(u)
  BY <1>1 DEF Searchable, Sound
<1>8. Contents(u) = Append(Contents(t), Pair(u.entries[n]))
  BY <1>0, <1>2, <1>4, <1>5, <1>7, ContentsAppended
<1> QED BY <1>1, <1>6, <1>8 DEF IsTable, u

(* Overwriting a live entry with an equal key and a record.                 *)
LEMMA SetMap ==
  ASSUME NEW t, IsTable(t), NEW i \in Live(t), NEW key \in Key, NEW value \in Value,
         keys_equal(key, t.entries[i].key)
  PROVE  LET u == SetRecord(t, i, key, value)
         IN  /\ IsTable(u)
             /\ Contents(u) = [Contents(t) EXCEPT ![RankIn(Live(t), i) + 1] =
                                 [key |-> key, value |-> value]]
<1> DEFINE u == SetRecord(t, i, key, value)
<1>0. Searchable(t) /\ Sound(t) /\ TableType(t) /\ i \in 0 .. t.entries_bound - 1
  BY LiveHash DEF IsTable, Searchable, Sound
<1>1. Searchable(u) /\ IsRecord(u)
  BY <1>0, SetRecordSearchable, RecordsStay
<1>2. Live(u) = Live(t)
  BY <1>0, SetRecordSound
<1>3. /\ u.entries[i] = [hash |-> t.entries[i].hash, key |-> key, record |-> value]
      /\ \A j \in 0 .. t.entries_bound - 1 : j # i => u.entries[j] = t.entries[j]
  <2>1. EntrySet(t, u, i, key, value)
    BY Zenon, <1>0, SetRecordFields
  <2> HIDE DEF u
  <2> QED BY Zenon, <2>1 DEF EntrySet
<1> HIDE DEF u
<1>4. \A j \in Live(t) : j \in 0 .. t.entries_bound - 1
  BY <1>0, LiveHash
<1>5. \A j \in Live(t) : j # i => u.entries[j] = t.entries[j]
  BY <1>3, <1>4
<1>6. Pair(u.entries[i]) = [key |-> key, value |-> value]
  BY <1>3 DEF Pair
<1>7. TableType(u)
  BY <1>1 DEF Searchable, Sound
<1>8. Contents(u) = Overwritten(Contents(t), RankIn(Live(t), i) + 1, Pair(u.entries[i]))
  BY Zenon, <1>0, <1>2, <1>5, <1>7, ContentsSet
<1> QED BY Zenon, <1>1, <1>6, <1>8 DEF IsTable, u, Overwritten

(* Removing a live entry and its bin.                                       *)
LEMMA RemovedMap ==
  ASSUME NEW t, IsTable(t), NEW i \in Live(t), NEW bin,
         has_bins(t) => bin \in DOMAIN t.bins /\ t.bins[bin] = i + ENTRY_BASE
  PROVE  LET u == RemoveEntry(t, i, bin)
             c == Contents(t)
             r == RankIn(Live(t), i) + 1
         IN  IsTable(u) /\ Contents(u) = SubSeq(c, 1, r - 1) \o SubSeq(c, r + 1, Len(c))
<1> DEFINE u == RemoveEntry(t, i, bin)
<1>0. Searchable(t) /\ Sound(t) /\ TableType(t)
  BY DEF IsTable, Searchable, Sound
<1>1. Searchable(u) /\ IsRecord(u)
  BY <1>0, RemoveEntrySearchable, RecordsStay
<1>2. Live(u) = Live(t) \ {i}
  BY <1>0, RemoveEntrySound
<1>3. \A j \in 0 .. t.entries_bound - 1 : j # i => u.entries[j] = t.entries[j]
  BY <1>0, RemoveEntryFields
<1> HIDE DEF u
<1>4. \A j \in Live(t) : j \in 0 .. t.entries_bound - 1
  BY <1>0, LiveHash
<1>5. \A j \in Live(u) : u.entries[j] = t.entries[j]
  BY <1>2, <1>3, <1>4
<1>6. TableType(u)
  BY <1>1 DEF Searchable, Sound
<1> QED BY <1>0, <1>1, <1>2, <1>5, <1>6, ContentsRemoved DEF IsTable, u

(* ensure_insert_capacity makes room and keeps the map.                     *)
LEMMA EnsuredMap ==
  ASSUME NEW t, IsTable(t), CanGrow(t)
  PROVE  LET u == ensure_insert_capacity(t)
         IN  /\ IsTable(u) /\ Contents(u) = Contents(t)
             /\ u.entries_bound < allocated_entries(u)
<1> DEFINE u == ensure_insert_capacity(t)
<1>0. Searchable(t) /\ Sound(t) /\ TableType(t)
  BY DEF IsTable, Searchable, Sound
<1>1. Searchable(u) /\ u.entries_bound < allocated_entries(u)
  BY <1>0, EnsuresSearchable
<1>2. u = t \/ \E p \in MINIMAL_POWER2 .. MAX_POWER2 :
                 u = Repacked(t, p) /\ t.num_entries < Pow2[p]
  BY <1>0, EnsuresRoom
<1> HIDE DEF u
<1>3. CASE u = t
  BY <1>1, <1>3 DEF IsTable, u
<1>4. ASSUME NEW p \in MINIMAL_POWER2 .. MAX_POWER2, u = Repacked(t, p), t.num_entries < Pow2[p]
      PROVE  IsTable(u) /\ Contents(u) = Contents(t)
  <2>1. t.num_entries \in Nat /\ t.num_entries = Cardinality(Live(t)) /\ Pow2[p] \in Nat
    <3>1. p \in Nat
      BY StorageConstants
    <3> QED BY <1>0, <3>1, Pow2Def DEF TableType, Sound, CountsLive
  <2>2. t.num_entries <= Pow2[p]
    BY <1>4, <2>1
  <2>3. Live(u) = 0 .. Cardinality(Live(t)) - 1
    BY <1>0, <1>4, <2>1, <2>2, RepackedSound
  <2>4. \A d \in 0 .. Cardinality(Live(t)) - 1 : u.entries[d] = t.entries[LiveAt(t, d)]
    <3>1. EntriesRepacked(t, u, p)
      BY Zenon, <1>0, <1>4, RepackedFields
    <3> QED BY Zenon, <3>1 DEF EntriesRepacked
  <2>5. \A d \in Live(u) : u.entries[d] = t.entries[LiveAt(t, d)]
    BY <2>3, <2>4
  <2>6. TableType(u)
    BY <1>1 DEF Searchable, Sound
  <2>7. Contents(u) = Contents(t)
    BY <1>0, <2>3, <2>5, <2>6, ContentsRepacked
  <2>8. IsRecord(u)
    BY <1>0, <1>4, RecordsStay
  <2> QED BY <1>1, <2>7, <2>8 DEF IsTable
<1> QED BY <1>1, <1>2, <1>3, <1>4 DEF u

-----------------------------------------------------------------------------
(* Tables and the null pointer.                                            *)

(* A table is not the null pointer.                                          *)
LEMMA TableExists ==
  ASSUME NEW t, IsTable(t)
  PROVE  t # NoTable
<1> DEFINE e == t.entry_power
<1>0. TableType(t)
  BY DEF IsTable, Searchable, Sound
<1>1. t = [entry_power |-> t.entry_power, num_entries |-> t.num_entries,
           entries_start |-> t.entries_start, entries_bound |-> t.entries_bound,
           rebuilds_num |-> t.rebuilds_num, entries |-> t.entries, bins |-> t.bins]
  BY DEF IsTable, IsRecord, Fields
<1>2. /\ t.entry_power \in Nat /\ t.num_entries \in Nat /\ t.entries_start \in Nat
      /\ t.entries_bound \in Nat /\ t.rebuilds_num \in Nat
  BY <1>0, TableFacts, StorageConstants DEF TableType
<1>3. e \in Nat /\ MAX_POWER2 \in Nat /\ e <= MAX_POWER2
  BY <1>0, StorageConstants DEF TableType
<1> HIDE DEF e
<1>4. Pow2[e] \in Nat /\ Pow2[e + 1] \in Nat /\ Pow2[MAX_POWER2] \in Nat
      /\ Pow2[MAX_POWER2 + 1] \in Nat
  BY <1>3, Pow2Def
<1>5. Pow2[e] <= Pow2[MAX_POWER2]
  BY <1>3, Pow2Mono
<1>6. Pow2[e + 1] <= Pow2[MAX_POWER2 + 1]
  BY <1>3, Pow2Mono
<1>7. t.entries_bound \in 0 .. Pow2[MAX_POWER2]
  BY <1>0, <1>2, <1>4, <1>5 DEF TableType, allocated_entries, e
<1>8. BinsCount(e) \in 0 .. Pow2[MAX_POWER2 + 1]
  BY <1>4, <1>6 DEF BinsCount
<1>9. t.entries \in UNION {[0 .. n - 1 -> Entry] : n \in 0 .. Pow2[MAX_POWER2]}
  BY <1>0, <1>7 DEF TableType
<1>10. t.bins \in [0 .. BinsCount(e) - 1 -> Nat]
  BY <1>0, <1>4 DEF TableType, allocated_entries, e
<1>11. t.bins \in UNION {[0 .. n - 1 -> Nat] : n \in 0 .. Pow2[MAX_POWER2 + 1]}
  BY <1>8, <1>10
<1>12. t \in Tables
  BY <1>1, <1>2, <1>9, <1>11 DEF Tables
<1> QED BY <1>12, NullIsNoTable

-----------------------------------------------------------------------------
(* The operations.                                                         *)

(* The inductive invariant: a table that exists is searchable.  Of the      *)
(* conjuncts of Searchable, CountsLive is there because the room that a     *)
(* rebuild makes depends on num_entries being the number of live entries,   *)
(* BinsSound because st_delete trusts the bin it finds, and UsesAtMost      *)
(* because a probe ends only while some bin is empty.                       *)
SearchableTable == tab = NoTable \/ IsTable(tab)

(* The place of a key in the map of a table is its Position.                *)
LEMMA PositionIsPlace ==
  ASSUME tab # NoTable, NEW key
  PROVE  AsMap!Position(key) = PlaceIn(Contents(tab), key)
  BY DEF AsMap!Position, AsMap!Same, PlaceIn, keys_equal

(* A call that leaves the table alone.                                      *)
LEMMA ReturnsStep ==
  ASSUME NEW call, NEW words, Returns(call, words)
  PROVE  AsMap!Returns(call, words) /\ tab' = tab /\ out' = [call |-> call, words |-> words]
  BY DEF Returns, Reply, AsMap!Returns, AsMap!Reply

(* st_insert and st_insert2 append a new key and keep the place and the key *)
(* of a present one, in the room that ensure_insert_capacity made.          *)
LEMMA InsertStep ==
  ASSUME IsTable(tab), NEW key \in Key, NEW stored \in Key, NEW value \in Value,
         keys_equal(key, stored), NEW call, Inserts(call, key, stored, value)
  PROVE  IsTable(tab') /\ AsMap!Inserts(call, key, stored, value)
<1> DEFINE t == ensure_insert_capacity(tab)
           c == Contents(tab)
           i == find_entry_index(t, do_hash(key), key)
           u == Inserted(t, key, stored, value)
           p == PlaceIn(c, key)
<1>0. tab # NoTable
  BY TableExists
<1>1. CASE GrowthMayFail(tab) /\ Returns(call, <<ST_ERROR>>)
  <2>1. AsMap!Returns(call, <<-1>>) /\ tab' = tab
    BY <1>1, ReturnsStep DEF ST_ERROR
  <2> QED BY <2>1 DEF AsMap!Inserts
<1>2. CASE /\ CanGrow(tab) /\ tab' = u
           /\ Reply(call, <<IF i = NO_INDEX THEN 0 ELSE 1>>)
  <2>1. IsTable(t) /\ Contents(t) = c /\ t.entries_bound < allocated_entries(t)
    BY <1>2, EnsuredMap
  <2>2. Searchable(t)
    BY <2>1 DEF IsTable
  <2> HIDE DEF t
  <2>3. \/ i = NO_INDEX /\ p = 0
        \/ /\ i # NO_INDEX /\ i \in Live(t) /\ keys_equal(key, t.entries[i].key)
           /\ p = RankIn(Live(t), i) + 1
           /\ p \in DOMAIN c /\ p # 0
           /\ c[p] = Pair(t.entries[i])
    <3>1. Contents(t) = c
      BY <2>1
    <3> HIDE DEF c
    <3> QED BY <2>2, <3>1, SearchIsPlace
  <2>4. AsMap!Position(key) = p
    BY <1>0, PositionIsPlace
  <2>5. CASE i = NO_INDEX
    <3>1. do_hash(key) = do_hash(stored)
      BY EqualHash
    <3>2. \A j \in Live(t) : ~ keys_equal(stored, t.entries[j].key)
      BY <2>2, <2>5, SearchMisses DEF keys_equal
    <3>3. u = AppendEntry(t, do_hash(stored), stored, value, ReservedBin(t, do_hash(stored)))
      BY <2>5, <3>1 DEF Inserted
    <3>4. IsTable(u) /\ Contents(u) = Append(c, [key |-> stored, value |-> value])
      BY <2>1, <3>2, <3>3, AppendedMap
    <3>5. IsTable(tab') /\ tab' # NoTable
          /\ Contents(tab') = Append(c, [key |-> stored, value |-> value])
      BY <1>2, <3>4, TableExists
    <3>6. p = 0 /\ out' = [call |-> call, words |-> <<0>>]
      BY <1>2, <2>3, <2>5 DEF Reply
    <3> HIDE DEF p, i, u
    <3> QED BY <1>0, <2>4, <3>5, <3>6 DEF AsMap!Inserts, AsMap!Reply
  <2>6. CASE i # NO_INDEX
    <3> HIDE DEF i, c, p
    <3>1. /\ i \in Live(t) /\ t.entries[i].key \in Key
          /\ keys_equal(t.entries[i].key, t.entries[i].key)
      BY <2>2, <2>3, <2>6, LiveHash DEF keys_equal
    <3>2. u = SetRecord(t, i, t.entries[i].key, value)
      BY <2>6 DEF Inserted, i
    <3>3. IsTable(u) /\ Contents(u) = [c EXCEPT ![p] = [key |-> t.entries[i].key, value |-> value]]
      BY <2>1, <2>3, <2>6, <3>1, <3>2, SetMap
    <3>4. [c[p] EXCEPT !.value = value] = [key |-> t.entries[i].key, value |-> value]
      BY <2>3, <2>6 DEF Pair
    <3>5. Contents(u) = [c EXCEPT ![p].value = value]
      BY <2>3, <2>6, <3>3, <3>4
    <3>6. IsTable(tab') /\ tab' # NoTable /\ Contents(tab') = [c EXCEPT ![p].value = value]
      BY <1>2, <3>3, <3>5, TableExists
    <3>7. p # 0 /\ out' = [call |-> call, words |-> <<1>>]
      BY <1>2, <2>3, <2>6 DEF Reply, i
    <3> HIDE DEF u
    <3> QED BY <1>0, <2>4, <3>6, <3>7 DEF AsMap!Inserts, AsMap!Reply, c
  <2> QED BY <2>5, <2>6
<1> QED BY <1>1, <1>2 DEF Inserts

(* st_add_direct appends without a search, in the room a rebuild made; its   *)
(* caller knows that the key is absent.                                      *)
LEMMA AddDirectStep ==
  ASSUME IsTable(tab), NEW key \in Key, NEW value \in Value, st_add_direct(key, value)
  PROVE  IsTable(tab') /\ AsMap!Insert(key, key, value)
<1> DEFINE t == ensure_insert_capacity(tab)
           call == <<"insert", key, key, value>>
<1>1. CASE GrowthMayFail(tab) /\ Returns(call, <<ST_ERROR>>)
  <2>1. Inserts(call, key, key, value)
    BY <1>1 DEF Inserts
  <2>2. keys_equal(key, key)
    BY DEF keys_equal
  <2> QED BY <2>1, <2>2, InsertStep DEF AsMap!Insert
<1>2. CASE /\ CanGrow(tab) /\ Reply(call, <<0>>)
           /\ tab' = AppendEntry(t, do_hash(key), key, value, ReservedBin(t, do_hash(key)))
  <2>1. IsTable(t) /\ Contents(t) = Contents(tab)
    BY <1>2, EnsuredMap
  <2>2. Searchable(t) /\ Searchable(tab)
    BY <2>1 DEF IsTable
  <2> HIDE DEF t
  <2>3. find_entry_index(tab, do_hash(key), key) = NO_INDEX
    BY DEF st_add_direct
  <2>4. PlaceIn(Contents(t), key) = 0
    BY <2>1, <2>2, <2>3, SearchIsPlace
  <2>5. find_entry_index(t, do_hash(key), key) = NO_INDEX
    BY <2>2, <2>4, SearchIsPlace
  <2>6. Inserts(call, key, key, value)
    BY <1>2, <2>5 DEF Inserts, Inserted, t
  <2>7. keys_equal(key, key)
    BY DEF keys_equal
  <2> QED BY <2>6, <2>7, InsertStep DEF AsMap!Insert
<1> QED BY <1>1, <1>2 DEF st_add_direct

(* st_delete removes the entry it found and marks its bin.                   *)
LEMMA DeletedMap ==
  ASSUME IsTable(tab), NEW key \in Key, PlaceIn(Contents(tab), key) # 0,
         tab' = Deleted(tab, key)
  PROVE  /\ IsTable(tab') /\ tab' # NoTable
         /\ Contents(tab') = AsMap!Without(PlaceIn(Contents(tab), key))
<1> DEFINE i == find_entry_index(tab, do_hash(key), key)
           bin == BinOf(tab, do_hash(key), key)
           p == PlaceIn(Contents(tab), key)
<1>0. Searchable(tab) /\ tab # NoTable
  BY TableExists DEF IsTable
<1>1. i # NO_INDEX /\ i \in Live(tab) /\ p = RankIn(Live(tab), i) + 1
  BY <1>0, SearchIsPlace
<1>2. has_bins(tab) => bin \in DOMAIN tab.bins /\ tab.bins[bin] = i + ENTRY_BASE
  BY <1>0, <1>1, SearchHits
<1>3. tab' = RemoveEntry(tab, i, bin)
  BY <1>1 DEF Deleted
<1> HIDE DEF i, bin
<1>4. /\ IsTable(tab')
      /\ Contents(tab') = SubSeq(Contents(tab), 1, p - 1)
                            \o SubSeq(Contents(tab), p + 1, Len(Contents(tab)))
  BY <1>1, <1>2, <1>3, RemovedMap
<1> HIDE DEF p
<1>5. tab' # NoTable
  BY <1>4, TableExists
<1>6. Contents(tab') = AsMap!Without(p)
  BY <1>0, <1>4 DEF AsMap!Without
<1> QED BY <1>4, <1>5, <1>6 DEF p

(* What st_delete returns of the entry it finds.                            *)
LEMMA FoundWords ==
  ASSUME NEW key, NEW i, i = find_entry_index(tab, do_hash(key), key), i # NO_INDEX,
         NEW e, e = Pair(tab.entries[i])
  PROVE  DeleteWords(tab, key) = <<1, e.key, e.value>>
<1>1. DeleteWords(tab, key) = <<1, tab.entries[i].key, tab.entries[i].record>>
  BY Zenon DEF DeleteWords
<1>2. e.key = tab.entries[i].key /\ e.value = tab.entries[i].record
  BY DEF Pair
<1> QED BY Zenon, <1>1, <1>2

(* st_delete returns the stored key and the record, or nothing.             *)
LEMMA DeleteStep ==
  ASSUME IsTable(tab), NEW key \in Key, st_delete(key)
  PROVE  IsTable(tab') /\ AsMap!Delete(key)
<1> DEFINE i == find_entry_index(tab, do_hash(key), key)
           c == Contents(tab)
           p == PlaceIn(c, key)
           call == <<"delete", key>>
<1>0. Searchable(tab) /\ tab # NoTable
  BY TableExists DEF IsTable
<1>1. AsMap!Position(key) = p
  BY <1>0, PositionIsPlace
<1>2. tab' = Deleted(tab, key) /\ out' = [call |-> call, words |-> DeleteWords(tab, key)]
  BY DEF st_delete, Deletes, Reply
<1>3. CASE i = NO_INDEX
  <2>1. p = 0
    BY <1>0, <1>3, SearchIsPlace
  <2>2. tab' = tab /\ out' = [call |-> call, words |-> <<0, key, 0>>]
    BY <1>2, <1>3 DEF Deleted, DeleteWords
  <2> HIDE DEF p
  <2> QED BY <1>1, <2>1, <2>2 DEF AsMap!Delete, AsMap!Called, AsMap!Returns, AsMap!Reply
<1>4. CASE i # NO_INDEX
  <2>1. p # 0 /\ c[p] = Pair(tab.entries[i])
    BY <1>0, <1>4, SearchIsPlace
  <2>2. IsTable(tab') /\ tab' # NoTable /\ Contents(tab') = AsMap!Without(p)
    BY <1>2, <2>1, DeletedMap
  <2>3. out' = [call |-> call, words |-> <<1, c[p].key, c[p].value>>]
    BY Zenon, <1>2, <1>4, <2>1, FoundWords
  <2> HIDE DEF p, i, c
  <2>4. AsMap!RemoveAt(call, p)
    BY <1>0, <2>2, <2>3 DEF AsMap!RemoveAt, AsMap!Reply, c
  <2>5. out'.call = call
    BY <2>3
  <2> QED BY <1>1, <2>1, <2>2, <2>4, <2>5 DEF AsMap!Delete, AsMap!Called
<1> QED BY <1>3, <1>4

(* st_shift deletes by the key at entries_start: the first of the map.       *)
LEMMA ShiftStep ==
  ASSUME IsTable(tab), st_shift
  PROVE  IsTable(tab') /\ AsMap!Shift
<1> DEFINE c == Contents(tab)
           s == tab.entries_start
           key == tab.entries[s].key
           call == <<"shift">>
<1>0. Searchable(tab) /\ TableType(tab) /\ CountsLive(tab) /\ tab # NoTable
  BY TableExists DEF IsTable, Searchable, Sound
<1>1. c = << >> <=> Live(tab) = {}
  BY <1>0, ContentsEmpty
<1>2. tab.num_entries = 0 <=> Live(tab) = {}
  BY <1>0, TableFacts, FS_EmptySet DEF CountsLive
<1>3. CASE tab.num_entries = 0
  <2>1. AsMap!Returns(call, <<0, 0>>) /\ tab' = tab /\ out'.call = call
    BY <1>3, ReturnsStep DEF st_shift
  <2> QED BY <1>0, <1>1, <1>2, <1>3, <2>1 DEF AsMap!Shift, AsMap!Called
<1>4. CASE tab.num_entries # 0
  <2>1. s \in Live(tab) /\ s \in Nat
    <3>1. PICK j \in Live(tab) : TRUE
      BY <1>2, <1>4
    <3>2. tab.entries_start \in Nat /\ tab.entries_bound \in Nat
      BY <1>0, TableFacts
    <3>3. j \in s .. tab.entries_bound - 1
      BY <3>1 DEF Live
    <3>4. s # tab.entries_bound
      BY <3>2, <3>3
    <3> QED BY <1>0, <3>2, <3>4 DEF CountsLive
  <2>2. key \in Key /\ keys_equal(key, tab.entries[s].key)
    BY <1>0, <2>1, LiveHash DEF keys_equal
  <2>3. find_entry_index(tab, do_hash(key), key) = s /\ s # NO_INDEX
    <3>1. find_entry_index(tab, do_hash(key), key) = s
      BY Zenon, <1>0, <2>1, <2>2, SearchFinds
    <3> HIDE DEF s
    <3>2. s # NO_INDEX
      BY <2>1 DEF NO_INDEX
    <3> QED BY Zenon, <3>1, <3>2
  <2>4. RankIn(Live(tab), s) = 0
    <3>1. \A j \in Live(tab) : j \in Nat /\ s <= j
      <4>1. tab.entries_start \in Nat /\ tab.entries_bound \in Nat
        BY <1>0, TableFacts
      <4>2. \A j \in Live(tab) : j \in tab.entries_start .. tab.entries_bound - 1
        BY Zenon DEF Live
      <4> QED BY <4>1, <4>2
    <3>2. {j \in Live(tab) : j < s} = {}
      <4> HIDE DEF s
      <4>1. \A j \in Live(tab) : ~ (j < s)
        BY <2>1, <3>1
      <4> QED BY Zenon, <4>1
    <3> QED BY <3>2, FS_EmptySet DEF RankIn
  <2>5. Deletes(call, key)
    BY <1>4 DEF st_shift
  <2>6. tab' = Deleted(tab, key) /\ out' = [call |-> call, words |-> DeleteWords(tab, key)]
    BY <2>5 DEF Deletes, Reply
  <2> HIDE DEF key, s
  <2>7. PlaceIn(c, key) = 0 + 1 /\ PlaceIn(c, key) # 0 /\ c[PlaceIn(c, key)] = Pair(tab.entries[s])
    BY <1>0, <2>2, <2>3, <2>4, SearchIsPlace
  <2>8. IsTable(tab') /\ tab' # NoTable /\ Contents(tab') = AsMap!Without(1)
    BY <2>2, <2>6, <2>7, DeletedMap
  <2>9. out' = [call |-> call, words |-> <<1, c[1].key, c[1].value>>]
    <3>1. PlaceIn(c, key) = 1
      BY <2>7
    <3>2. s = find_entry_index(tab, do_hash(key), key) /\ c[1] = Pair(tab.entries[s])
      BY Zenon, <2>3, <2>7, <3>1
    <3> QED BY Zenon, <2>3, <2>6, <3>2, FoundWords
  <2>10. c # << >>
    BY <1>1, <1>2, <1>4
  <2> HIDE DEF c
  <2>11. AsMap!RemoveAt(call, 1)
    BY <1>0, <2>8, <2>9 DEF AsMap!RemoveAt, AsMap!Reply, c
  <2>12. out'.call = call
    BY <2>9
  <2> QED BY <1>0, <2>8, <2>10, <2>11, <2>12 DEF AsMap!Shift, AsMap!Called, c
<1> QED BY <1>3, <1>4

(* Each action st_update's callback may return: delete, insert or overwrite. *)
LEMMA UpdateStep ==
  ASSUME IsTable(tab), NEW key \in Key, NEW stored \in Key, NEW value \in Value,
         keys_equal(key, stored),
         NEW action \in {"ST_CONTINUE", "ST_STOP", "ST_DELETE"},
         st_update(key, stored, value, action)
  PROVE  IsTable(tab') /\ AsMap!Update(key, stored, value, action)
<1> DEFINE i == find_entry_index(tab, do_hash(key), key)
           existing == IF i = NO_INDEX THEN 0 ELSE 1
           c == Contents(tab)
           p == PlaceIn(c, key)
           call == <<"update", key, stored, value, action>>
<1>0. Searchable(tab) /\ tab # NoTable
  BY TableExists DEF IsTable
<1>1. AsMap!Position(key) = p
  BY <1>0, PositionIsPlace
<1>2. \/ i = NO_INDEX /\ p = 0
      \/ /\ i # NO_INDEX /\ i \in Live(tab) /\ keys_equal(key, tab.entries[i].key)
         /\ p = RankIn(Live(tab), i) + 1 /\ p # 0
  BY <1>0, SearchIsPlace
<1>3. CASE (action = "ST_DELETE" /\ i = NO_INDEX) \/ action = "ST_STOP"
  <2>1. tab' = tab /\ out' = [call |-> call, words |-> <<existing>>]
    BY <1>3 DEF st_update, Returns, Reply
  <2>2. existing = IF p = 0 THEN 0 ELSE 1
    BY <1>2
  <2>3. (action = "ST_DELETE" /\ p = 0) \/ action = "ST_STOP"
    BY <1>2, <1>3
  <2> HIDE DEF p, existing, i
  <2>4. AsMap!Returns(call, <<IF p = 0 THEN 0 ELSE 1>>) /\ out'.call = call
    BY <2>1, <2>2 DEF AsMap!Returns, AsMap!Reply
  <2> QED BY <1>1, <2>1, <2>3, <2>4 DEF AsMap!Update, AsMap!Called
<1>4. CASE action = "ST_DELETE" /\ i # NO_INDEX
  <2>1. tab' = Deleted(tab, key) /\ out' = [call |-> call, words |-> <<1>>]
    BY <1>4 DEF st_update, Reply
  <2>2. IsTable(tab') /\ tab' # NoTable /\ Contents(tab') = AsMap!Without(p) /\ p # 0
    BY <1>2, <1>4, <2>1, DeletedMap
  <2> HIDE DEF p, i
  <2> QED BY <1>0, <1>1, <1>4, <2>1, <2>2 DEF AsMap!Update, AsMap!Called, AsMap!Reply
<1>5. CASE action = "ST_CONTINUE" /\ i = NO_INDEX
  <2>1. Inserts(call, stored, stored, value)
    BY <1>5 DEF st_update
  <2>2. keys_equal(stored, stored)
    BY DEF keys_equal
  <2>3. IsTable(tab') /\ AsMap!Inserts(call, stored, stored, value)
    BY <2>1, <2>2, InsertStep
  <2>4. AsMap!Position(stored) = AsMap!Position(key)
    BY DEF AsMap!Position, AsMap!Same, keys_equal
  <2>5. AsMap!Inserts(call, key, stored, value)
    BY <2>3, <2>4, Zenon DEF AsMap!Inserts
  <2>6. out'.call = call
    BY <2>3 DEF AsMap!Inserts, AsMap!Returns, AsMap!Reply
  <2>7. p = 0
    BY <1>2, <1>5
  <2> HIDE DEF p, i
  <2> QED BY <1>1, <1>5, <2>3, <2>5, <2>6, <2>7 DEF AsMap!Update, AsMap!Called
<1>6. CASE action = "ST_CONTINUE" /\ i # NO_INDEX
  <2>1. tab' = SetRecord(tab, i, stored, value) /\ out' = [call |-> call, words |-> <<1>>]
    BY <1>6 DEF st_update, Reply
  <2>2. i \in Live(tab) /\ keys_equal(stored, tab.entries[i].key) /\ p # 0
        /\ p = RankIn(Live(tab), i) + 1
    BY <1>2, <1>6 DEF keys_equal
  <2> HIDE DEF i, p
  <2>3. IsTable(tab') /\ Contents(tab') = [c EXCEPT ![p] = [key |-> stored, value |-> value]]
    BY <2>1, <2>2, SetMap
  <2>4. tab' # NoTable
    BY <2>3, TableExists
  <2> QED BY <1>0, <1>1, <1>6, <2>1, <2>2, <2>3, <2>4
          DEF AsMap!Update, AsMap!Called, AsMap!Reply
<1> QED BY <1>3, <1>4, <1>5, <1>6

(* The copy has the power of the original, so all its bytes fit.             *)
LEMMA CopyStep ==
  ASSUME IsTable(tab), st_copy
  PROVE  IsTable(tab') /\ AsMap!Copy
<1> DEFINE u == [tab EXCEPT !.entry_power = tab.entry_power]
<1>0. TableType(tab) /\ IsRecord(tab)
  BY DEF IsTable, Searchable, Sound
<1>1. tab.entry_power \in MINIMAL_POWER2 .. MAX_POWER2
  BY <1>0 DEF TableType
<1>2. get_power2(allocated_entries(tab) - 1) = tab.entry_power
  BY <1>1, CapacityRoundTrip DEF allocated_entries
<1>3. u = tab
  BY <1>0 DEF IsRecord, Fields
<1>4. tab' = tab /\ \E done \in {0, 1} : out' = [call |-> <<"copy">>, words |-> <<done>>]
  BY <1>2, <1>3 DEF st_copy, Returns, Reply
<1> QED BY <1>4 DEF AsMap!Copy, AsMap!Returns, AsMap!Reply

(* allocate_table builds an empty table of a power in range, or nothing.      *)
LEMMA CreateStep ==
  ASSUME Create
  PROVE  SearchableTable' /\ AsMap!Create
<1> PICK size \in Sizes : st_init_table_with_size(size)
  BY DEF Create
<1>0. tab = NoTable
  BY DEF st_init_table_with_size
<1>1. CASE Returns(<<"create">>, <<0>>)
  BY <1>0, <1>1, ReturnsStep DEF SearchableTable, AsMap!Create
<1>2. CASE /\ get_power2(size) # ST_ERROR /\ tab' = EmptyTable(get_power2(size))
           /\ Reply(<<"create">>, <<1>>)
  <2> DEFINE u == EmptyTable(get_power2(size))
  <2>1. Searchable(u)
    BY <1>2, GetPower2, EmptyTableSearchable
  <2>2. IsRecord(u) /\ u.entries_bound = 0
    BY DEF EmptyTable, IsRecord, Fields
  <2> HIDE DEF u
  <2>3. IsTable(u) /\ TableType(u)
    BY <2>1, <2>2 DEF IsTable, Searchable, Sound
  <2>4. Contents(u) = << >> /\ u # NoTable
    BY <2>2, <2>3, EmptyMap, TableExists
  <2>5. tab' = u /\ out' = [call |-> <<"create">>, words |-> <<1>>]
    BY <1>2 DEF Reply, u
  <2> QED BY <1>0, <2>3, <2>4, <2>5 DEF SearchableTable, AsMap!Create, AsMap!Reply
<1> QED BY <1>1, <1>2 DEF st_init_table_with_size

(* st_clear leaves a table without entries.                                 *)
LEMMA ClearStep ==
  ASSUME IsTable(tab), st_clear
  PROVE  IsTable(tab') /\ AsMap!Clear
<1> DEFINE u == Cleared(tab)
<1>0. TableType(tab) /\ tab # NoTable
  BY TableExists DEF IsTable, Searchable, Sound
<1>1. Searchable(u) /\ IsRecord(u)
  BY <1>0, ClearedSearchable, RecordsStay
<1>2. u.entries_bound = 0
  BY <1>0 DEF Cleared, TableType
<1> HIDE DEF u
<1>3. IsTable(u) /\ TableType(u)
  BY <1>1 DEF IsTable, Searchable, Sound
<1>4. Contents(u) = << >> /\ u # NoTable
  BY <1>2, <1>3, EmptyMap, TableExists
<1>5. tab' = u /\ out' = [call |-> <<"clear">>, words |-> << >>]
  BY DEF st_clear, Reply, u
<1> QED BY <1>0, <1>3, <1>4, <1>5 DEF AsMap!Clear, AsMap!Reply

(* st_lookup, st_table_size, st_keys and st_values report the map.           *)
LEMMA ReadStep ==
  ASSUME IsTable(tab), Read
  PROVE  /\ IsTable(tab')
         /\ \/ \E key \in Key : AsMap!Lookup(key)
            \/ AsMap!Size
            \/ \E n \in Sizes : AsMap!Export(n)
<1> DEFINE c == Contents(tab)
<1>0. Searchable(tab) /\ TableType(tab) /\ CountsLive(tab) /\ tab # NoTable
  BY TableExists DEF IsTable, Searchable, Sound
<1>1. /\ Len(c) = Cardinality(Live(tab)) /\ DOMAIN c = 1 .. Cardinality(Live(tab))
      /\ Cardinality(Live(tab)) \in Nat
  BY <1>0, ContentsIsSeq, TableFacts
<1>2. ASSUME NEW key \in Key, st_lookup(key) PROVE IsTable(tab') /\ AsMap!Lookup(key)
  <2> DEFINE i == find_entry_index(tab, do_hash(key), key)
             p == PlaceIn(c, key)
             call == <<"lookup", key>>
             words == IF i = NO_INDEX THEN <<0>>
                      ELSE <<1, tab.entries[i].key, tab.entries[i].record>>
  <2>1. words = IF p = 0 THEN <<0>> ELSE <<1, c[p].key, c[p].value>>
    <3>1. \/ i = NO_INDEX /\ p = 0
          \/ i # NO_INDEX /\ p # 0 /\ c[p] = Pair(tab.entries[i])
      BY <1>0, SearchIsPlace
    <3> HIDE DEF i, p, c
    <3>2. c[p] = Pair(tab.entries[i]) =>
            c[p].key = tab.entries[i].key /\ c[p].value = tab.entries[i].record
      BY DEF Pair
    <3> QED BY Zenon, <3>1, <3>2
  <2>2. Returns(call, words)
    BY <1>2 DEF st_lookup
  <2>3. AsMap!Position(key) = p
    BY <1>0, PositionIsPlace
  <2> HIDE DEF words, p, i, c
  <2>4. AsMap!Returns(call, words) /\ tab' = tab /\ out'.call = call
    BY <2>2, ReturnsStep
  <2> QED BY <1>0, <2>1, <2>3, <2>4 DEF AsMap!Lookup, AsMap!Called, c
<1>3. ASSUME st_table_size PROVE IsTable(tab') /\ AsMap!Size
  <2>1. tab.num_entries = Len(c)
    BY <1>0, <1>1 DEF CountsLive
  <2>2. AsMap!Returns(<<"size">>, <<tab.num_entries>>) /\ tab' = tab /\ out'.call = <<"size">>
    BY <1>3, ReturnsStep DEF st_table_size
  <2> QED BY <1>0, <2>1, <2>2 DEF AsMap!Size, AsMap!Called
<1>4. ASSUME NEW size \in Sizes, st_keys(size) \/ st_values(size)
      PROVE  IsTable(tab') /\ AsMap!Export(size)
  <2> DEFINE n == IF size < Len(c) THEN size ELSE Len(c)
  <2>1. Exported(tab, size) = 1 .. n
    BY <1>1 DEF Exported
  <2>2. \A k \in 1 .. n : c[k].key = LiveEntries(tab)[k - 1].key
                          /\ c[k].value = LiveEntries(tab)[k - 1].record
    <3> SUFFICES ASSUME NEW k \in 1 .. n
                 PROVE  c[k].key = LiveEntries(tab)[k - 1].key
                        /\ c[k].value = LiveEntries(tab)[k - 1].record
      OBVIOUS
    <3>1. k \in 1 .. Cardinality(Live(tab)) /\ k - 1 \in 0 .. Cardinality(Live(tab)) - 1
      BY <1>1, SizesAreWords
    <3> QED BY <3>1 DEF Contents, LiveEntries
  <2> HIDE DEF n, c
  <2>3. ASSUME st_keys(size) PROVE IsTable(tab') /\ AsMap!Export(size)
    <3> DEFINE call == <<"keys", size>>
               words == [k \in 1 .. n |-> c[k].key]
    <3>1. words = [k \in Exported(tab, size) |-> LiveEntries(tab)[k - 1].key]
      BY <2>1, <2>2
    <3>2. Returns(call, words)
      BY <2>3, <3>1 DEF st_keys
    <3>3. AsMap!Returns(call, words) /\ tab' = tab /\ out'.call = call
      <4> HIDE DEF words
      <4> QED BY <3>2, ReturnsStep
    <3> QED BY <1>0, <3>3 DEF AsMap!Export, AsMap!Called, n, c
  <2>4. ASSUME st_values(size) PROVE IsTable(tab') /\ AsMap!Export(size)
    <3> DEFINE call == <<"values", size>>
               words == [k \in 1 .. n |-> c[k].value]
    <3>1. words = [k \in Exported(tab, size) |-> LiveEntries(tab)[k - 1].record]
      BY <2>1, <2>2
    <3>2. Returns(call, words)
      BY <2>4, <3>1 DEF st_values
    <3>3. AsMap!Returns(call, words) /\ tab' = tab /\ out'.call = call
      <4> HIDE DEF words
      <4> QED BY <3>2, ReturnsStep
    <3> QED BY <1>0, <3>3 DEF AsMap!Export, AsMap!Called, n, c
  <2> QED BY <1>4, <2>3, <2>4
<1> QED BY <1>2, <1>3, <1>4 DEF Read

(* Every public operation keeps the table searchable and is a step of the   *)
(* ordered map, or leaves it as it is.                                      *)
LEMMA TableStep ==
  ASSUME SearchableTable, [Next]_vars
  PROVE  SearchableTable' /\ [AsMap!Next]_(AsMap!vars)
<1>1. CASE UNCHANGED vars
  BY <1>1 DEF vars, SearchableTable, AsMap!vars
<1>2. CASE Create
  <2>1. SearchableTable' /\ AsMap!Create
    BY <1>2, CreateStep
  <2>2. AsMap!Next
    BY <2>1 DEF AsMap!Next
  <2> QED BY <2>1, <2>2
<1>3. CASE tab # NoTable /\ Next
  <2>0. IsTable(tab) /\ tab # NoTable
    BY <1>3 DEF SearchableTable
  <2> SUFFICES SearchableTable' /\ AsMap!Next
    OBVIOUS
  <2>9. ~ Create
    BY <2>0 DEF Create, st_init_table_with_size
  <2>1. CASE st_copy
    BY <2>0, <2>1, CopyStep DEF SearchableTable, AsMap!Next
  <2>2. CASE st_free_table
    BY <2>0, <2>2 DEF st_free_table, Reply, SearchableTable, AsMap!Next, AsMap!Free, AsMap!Reply
  <2>3. CASE Insert
    <3>1. PICK key \in Key, stored \in Key, value \in Value :
            /\ keys_equal(key, stored)
            /\ \/ st_insert2(key, stored, value)
               \/ stored = key /\ st_insert(key, value)
               \/ stored = key /\ st_add_direct(key, value)
      BY <2>3 DEF Insert
    <3>2. IsTable(tab') /\ AsMap!Insert(key, stored, value)
      <4>1. CASE stored = key /\ st_add_direct(key, value)
        BY <2>0, <4>1, AddDirectStep
      <4>2. CASE Inserts(<<"insert", key, stored, value>>, key, stored, value)
        BY <2>0, <3>1, <4>2, InsertStep DEF AsMap!Insert
      <4> QED BY <3>1, <4>1, <4>2 DEF st_insert, st_insert2
    <3>3. AsMap!Same(stored, key)
      BY <3>1 DEF AsMap!Same, keys_equal
    <3> QED BY <2>0, <3>2, <3>3 DEF SearchableTable, AsMap!Next
  <2>4. CASE Update
    <3>1. PICK key \in Key, stored \in Key, value \in Value,
               action \in {"ST_CONTINUE", "ST_STOP", "ST_DELETE"} :
            keys_equal(key, stored) /\ st_update(key, stored, value, action)
      BY <2>4 DEF Update
    <3>2. IsTable(tab') /\ AsMap!Update(key, stored, value, action)
      BY <2>0, <3>1, UpdateStep
    <3>3. AsMap!Same(stored, key) /\ action \in AsMap!Actions
      BY <3>1 DEF AsMap!Same, keys_equal, AsMap!Actions
    <3>4. AsMap!Next
      BY <2>0, <3>2, <3>3, Zenon DEF AsMap!Next
    <3> QED BY <3>2, <3>4 DEF SearchableTable
  <2>5. CASE Delete
    <3>1. PICK key \in Key : st_delete(key)
      BY <2>5 DEF Delete
    <3>2. IsTable(tab') /\ AsMap!Delete(key)
      BY <2>0, <3>1, DeleteStep
    <3> QED BY <2>0, <3>2 DEF SearchableTable, AsMap!Next
  <2>6. CASE st_shift
    BY <2>0, <2>6, ShiftStep DEF SearchableTable, AsMap!Next
  <2>7. CASE st_clear
    BY <2>0, <2>7, ClearStep DEF SearchableTable, AsMap!Next
  <2>8. CASE Read
    BY <2>0, <2>8, ReadStep DEF SearchableTable, AsMap!Next
  <2> QED BY <1>3, <2>1, <2>2, <2>3, <2>4, <2>5, <2>6, <2>7, <2>8, <2>9 DEF Next
<1> QED BY <1>1, <1>2, <1>3 DEF Next

(* Every sequence of public operations leaves a searchable table.           *)
THEOREM TableIsSearchable == Spec => []SearchableTable
<1>1. Init => SearchableTable
  BY DEF Init, SearchableTable
<1>2. SearchableTable /\ [Next]_vars => SearchableTable'
  BY TableStep
<1> QED BY <1>1, <1>2, PTL DEF Spec

(* No operation writes an entry past the allocated ones, and no bin value   *)
(* is truncated by the width of a packed bin.                               *)
THEOREM TypeCorrect == Spec => []TypeOK
<1>1. SearchableTable => TypeOK
  BY DEF SearchableTable, IsTable, Searchable, Sound, TypeOK
<1> QED BY <1>1, TableIsSearchable, PTL

(* num_entries is the number of live entries and entries_start the oldest   *)
(* of them: what st_table_size reports and st_shift removes.                *)
THEOREM StartIsOldest == Spec => []OldestAtStart
<1>1. SearchableTable => OldestAtStart
  BY DEF SearchableTable, IsTable, Searchable, Sound, OldestAtStart
<1> QED BY <1>1, TableIsSearchable, PTL

(* No bin names a deleted or moved entry, and no entry is in two bins.      *)
THEOREM BinsNameLiveEntries == Spec => []BinsIndexLive
<1>1. SearchableTable => BinsIndexLive
  BY DEF SearchableTable, IsTable, Searchable, Sound, BinsIndexLive
<1> QED BY <1>1, TableIsSearchable, PTL

(* Every search finds the entry of its key, no key is there twice, and the  *)
(* probe loops, which have no bound, end for every key: whatever was        *)
(* inserted, deleted and rebuilt before.                                    *)
THEOREM ProbesWork == Spec => []EveryProbeWorks
<1>1. SearchableTable => EveryProbeWorks
  <2> SUFFICES ASSUME Searchable(tab) PROVE EveryProbeWorks
    BY DEF SearchableTable, IsTable, EveryProbeWorks
  <2>1. KeysDistinct(tab)
    BY DEF Searchable
  <2>2. ASSUME NEW i \in Live(tab)
        PROVE  find_entry_index(tab, tab.entries[i].hash, tab.entries[i].key) = i
    <3>1. tab.entries[i].key \in Key /\ tab.entries[i].hash = do_hash(tab.entries[i].key)
          /\ keys_equal(tab.entries[i].key, tab.entries[i].key)
      BY LiveHash DEF keys_equal
    <3> QED BY <3>1, SearchFinds
  <2>3. ASSUME has_bins(tab), NEW key \in Key
        PROVE  StepsAt(tab.bins, tab.entry_power, do_hash(key), EMPTY_BIN) # {}
    <3>1. do_hash(key) \in Hashes
      BY DEF Hashes
    <3> QED BY <2>3, <3>1, ProbesEnd
  <2> QED BY <2>1, <2>2, <2>3 DEF EveryProbeWorks
<1> QED BY <1>1, TableIsSearchable, PTL

(* The table implements the ordered map: every call returns, and every      *)
(* later call sees, what a map kept in insertion order would.               *)
THEOREM TableImplementsOrderedMap == Spec => ImplementsOrderedMap
<1>1. Init => AsMap!Init
  BY DEF Init, AsMap!Init
<1>2. SearchableTable /\ [Next]_vars => [AsMap!Next]_(AsMap!vars)
  BY TableStep
<1> QED BY <1>1, <1>2, TableIsSearchable, PTL DEF Spec, ImplementsOrderedMap, AsMap!Spec
=============================================================================
