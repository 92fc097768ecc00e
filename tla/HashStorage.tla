----------------------------- MODULE HashStorage -----------------------------
(***************************************************************************)
(* The storage of laserd.hash (library/laserd/hash.d): the st_table record *)
(* with its array of entries and its open-addressed bins, and the private  *)
(* helpers every public operation is built from.  All of them are pure     *)
(* operators on a table record; the modules HashTable and HashReentry turn *)
(* them into steps.                                                        *)
(*                                                                         *)
(* A key is an abstract word.  Ident names the equivalence class the       *)
(* policy's compare callback puts a key in, RawHash is its hash callback.  *)
(* The compile-time constants of the source are parameters, so that a      *)
(* small instance reaches binned tables, compaction and growth.            *)
(***************************************************************************)
EXTENDS Integers, FiniteSetsExt

CONSTANTS
  Key,                      \* machine words used as keys
  Value,                    \* machine words used as records
  Ident,                    \* [Key -> class]: compare(l, r) = 0 iff same class
  RawHash,                  \* [Key -> Nat]: the policy's hash callback
  HASH_BITS,                \* width of st_hash_t (64 in the source)
  MINIMAL_POWER2,           \* 2 in the source
  MAX_POWER2,               \* 62 in the source
  MAX_POWER2_WITHOUT_BINS,  \* 4 in the source
  BIN_BITS,                 \* width of the narrowest packed bin (8)
  REBUILDS_MOD              \* rebuilds_num is a uint: 2^32 in the source

\* 1 << n.
Pow2[n \in Nat] == IF n = 0 THEN 1 ELSE 2 * Pow2[n - 1]

EMPTY_BIN == 0
DELETED_BIN == 1
ENTRY_BASE == 2
RESERVED_HASH == Pow2[HASH_BITS] - 1
DELETED_HASH == RESERVED_HASH
REBUILD_THRESHOLD == 4
ST_ERROR == -1
\* st_index_t.max in the source: no entry or bin has this index.
NO_INDEX == -1

\* The words the program can hold: at least two hash values, powers that
\* leave room for a growing table, bins wide enough for the smallest one.
ASSUME StorageConstants ==
  /\ HASH_BITS \in Nat \ {0}
  /\ MINIMAL_POWER2 \in Nat \ {0}
  /\ MAX_POWER2 \in Nat
  /\ MINIMAL_POWER2 <= MAX_POWER2
  /\ MAX_POWER2_WITHOUT_BINS \in Nat
  /\ BIN_BITS \in Nat \ {0, 1}
  /\ MAX_POWER2 < 8 * BIN_BITS
  /\ REBUILDS_MOD \in Nat \ {0}
  /\ 0 \in Value

\* docs/hash.md: "equal keys must have equal hashes".
ASSUME PolicyContract ==
  /\ DOMAIN Ident = Key
  /\ RawHash \in [Key -> 0 .. RESERVED_HASH]
  /\ \A k, l \in Key : Ident[k] = Ident[l] => RawHash[k] = RawHash[l]

-----------------------------------------------------------------------------
(* Hashing and comparing.                                                  *)

normalize_hash(value) == IF value = RESERVED_HASH THEN 0 ELSE value

do_hash(key) == normalize_hash(RawHash[key])

keys_equal(left, right) == Ident[left] = Ident[right]

entry_matches(t, i, hash, key) ==
  /\ t.entries[i].hash = hash
  /\ keys_equal(key, t.entries[i].key)

-----------------------------------------------------------------------------
(* Features: capacity, bins and the width of a packed bin.                 *)

\* The powers whose capacity exceeds size.
PowersAbove(size) == {p \in MINIMAL_POWER2 .. MAX_POWER2 : Pow2[p] > size}

get_power2(size) ==
  IF PowersAbove(size) = {} THEN ST_ERROR ELSE Min(PowersAbove(size))

allocated_entries(t) == Pow2[t.entry_power]

has_bins(t) == t.entry_power > MAX_POWER2_WITHOUT_BINS

\* Number of bins behind the entries of a table of this power: 1 << bin_power,
\* none for a table small enough to be searched linearly.
BinsCount(power) ==
  IF power > MAX_POWER2_WITHOUT_BINS THEN Pow2[power + 1] ELSE 0

\* Mutant: the largest indices of a table of power BIN_BITS do not fit its bins.
NarrowBins(power) ==
  CASE power <= BIN_BITS    -> 0
    [] power > BIN_BITS /\ power < 2 * BIN_BITS -> 1
    [] power >= 2 * BIN_BITS /\ power < 4 * BIN_BITS -> 2
    [] OTHER -> 3

size_index_for_power(power) ==
  CASE power < BIN_BITS     -> 0
    [] power >= BIN_BITS /\ power < 2 * BIN_BITS -> 1
    [] power >= 2 * BIN_BITS /\ power < 4 * BIN_BITS -> 2
    [] OTHER -> 3

\* One past the largest value a packed bin of such a table holds.
BinModulus(power) == Pow2[BIN_BITS * Pow2[size_index_for_power(power)]]

\* The cast in set_bin truncates the value to the width of the bin.
set_bin(bins, power, index, value) ==
  [bins EXCEPT ![index] = value % BinModulus(power)]

initialize_bins(power) == [b \in 0 .. BinsCount(power) - 1 |-> EMPTY_BIN]

-----------------------------------------------------------------------------
(* Probing.  The loop of every binned search visits the bins ProbePath of  *)
(* its hash: [0], [1], ... and stops at the first one that is empty or, in *)
(* the searches for a key, holds a matching entry.                         *)

\* Mutant: the multiplier is 4, so the probe falls into a short cycle.
ShortCycle(count, at) ==
  LET perturb == at.perturb \div 2048
  IN  [bin |-> (4 * at.bin + perturb + 1) % count, perturb |-> perturb]

\* perturb >>= 11, then 5 * index + perturb + 1 modulo the number of bins.
secondary_hash(count, at) ==
  LET perturb == at.perturb \div 2048
  IN  [bin |-> (4 * at.bin + at.bin + perturb + 1) % count, perturb |-> perturb]

\* The steps after which perturb is zero, then one full cycle of the generator.
ProbeSteps(power) == 0 .. (HASH_BITS + 10) \div 11 + Pow2[power + 1]

ProbePath ==
  [hash \in {do_hash(key) : key \in Key} |-> [power \in MINIMAL_POWER2 .. MAX_POWER2 |->
     LET count == Pow2[power + 1]
         at[n \in Nat] == IF n = 0 THEN [bin |-> hash % count, perturb |-> hash]
                                   ELSE secondary_hash(count, at[n - 1])
     IN  [n \in ProbeSteps(power) |-> at[n].bin]]]

\* The steps at which the probe for hash meets this bin value.
StepsAt(bins, power, hash, value) ==
  {n \in ProbeSteps(power) : bins[ProbePath[hash][power][n]] = value}

\* The steps at which it meets an entry that matches hash and key.
StepsMatching(t, hash, key) ==
  {n \in ProbeSteps(t.entry_power) :
     LET bin == t.bins[ProbePath[hash][t.entry_power][n]]
     IN  bin >= ENTRY_BASE /\ entry_matches(t, bin - ENTRY_BASE, hash, key)}

find_entry_linear(t, hash, key) ==
  LET hits == {i \in t.entries_start .. t.entries_bound - 1 :
                 entry_matches(t, i, hash, key)}
  IN  IF hits = {} THEN NO_INDEX ELSE Min(hits)

find_bin_for_entry(t, hash, key) ==
  LET hits == StepsMatching(t, hash, key)
      stop == Min(hits \cup StepsAt(t.bins, t.entry_power, hash, EMPTY_BIN))
  IN  IF stop \in hits THEN ProbePath[hash][t.entry_power][stop] ELSE NO_INDEX

find_entry_binned(t, hash, key) ==
  LET bin == find_bin_for_entry(t, hash, key)
  IN  IF bin = NO_INDEX THEN NO_INDEX ELSE t.bins[bin] - ENTRY_BASE

find_entry_index(t, hash, key) ==
  IF has_bins(t) THEN find_entry_binned(t, hash, key)
                 ELSE find_entry_linear(t, hash, key)

\* The first deleted bin before the first empty one, else the empty one.
find_insertion_bin(bins, power, hash) ==
  LET empty == Min(StepsAt(bins, power, hash, EMPTY_BIN))
      deleted == {n \in StepsAt(bins, power, hash, DELETED_BIN) : n < empty}
      stop == IF deleted = {} THEN empty ELSE Min(deleted)
  IN  ProbePath[hash][power][stop]

-----------------------------------------------------------------------------
(* Rebuilding.                                                             *)

Live(t) == {i \in t.entries_start .. t.entries_bound - 1 :
              t.entries[i].hash # DELETED_HASH}

\* The source index that a copying loop moves to index d.
LiveAt(t, d) ==
  CHOOSE i \in Live(t) : Cardinality({j \in Live(t) : j < i}) = d

\* The live entries, moved to the front in their order.
LiveEntries(t) ==
  [d \in 0 .. Cardinality(Live(t)) - 1 |-> t.entries[LiveAt(t, d)]]

\* The bins with entry i put where the probe for its hash finds room.
FillBin(bins, power, hash, i) ==
  set_bin(bins, power, find_insertion_bin(bins, power, hash), i + ENTRY_BASE)

build_bins(power, entries, bound) ==
  LET filled[n \in 0 .. bound] ==
        IF n = 0 THEN initialize_bins(power)
        ELSE IF entries[n - 1].hash = DELETED_HASH THEN filled[n - 1]
        ELSE FillBin(filled[n - 1], power, entries[n - 1].hash, n - 1)
  IN  IF BinsCount(power) = 0 THEN initialize_bins(power) ELSE filled[bound]

\* The table with its live entries in an entries-and-bins block of this power.
Repacked(t, power) ==
  LET entries == LiveEntries(t)
      bound == Cardinality(Live(t))
  IN  [t EXCEPT !.entry_power = power,
                !.entries_start = 0,
                !.entries_bound = bound,
                !.entries = entries,
                !.bins = build_bins(power, entries, bound),
                !.rebuilds_num = (@ + 1) % REBUILDS_MOD]

compact_in_place(t) == Repacked(t, t.entry_power)

\* rebuild compacts in place, without allocating, a table that is sparse but
\* not too sparse, and every table of fewer entries than the least capacity.
CompactsInPlace(t) ==
  \/ /\ 2 * t.num_entries <= allocated_entries(t)
     /\ REBUILD_THRESHOLD * t.num_entries > allocated_entries(t)
  \/ t.num_entries < Pow2[MINIMAL_POWER2]

\* The power of the block that replaces the storage of t.
ReplacementPower(t) == get_power2(2 * t.num_entries - 1)

\* rebuild can succeed: it needs no block, or asks for one of a legal size.
CanRebuild(t) == CompactsInPlace(t) \/ ReplacementPower(t) # ST_ERROR

rebuild(t) ==
  IF CompactsInPlace(t) THEN compact_in_place(t)
                        ELSE Repacked(t, ReplacementPower(t))

\* Mutant: the capacity check lets one entry too many in.
FullOffByOne(t) == t.entries_bound > allocated_entries(t)

IsFull(t) == t.entries_bound >= allocated_entries(t)

\* ensure_insert_capacity can return ST_ERROR, leaving the table as it was: it
\* needs a block, which the arena refuses or which would be too large.
GrowthMayFail(t) == IsFull(t) /\ ~ CompactsInPlace(t)

CanGrow(t) == IsFull(t) => CanRebuild(t)

ensure_insert_capacity(t) == IF IsFull(t) THEN rebuild(t) ELSE t

-----------------------------------------------------------------------------
(* Writing entries.                                                        *)

\* Append the entry at entries_bound; bin is its bin, or NO_INDEX.
AppendEntry(t, hash, key, value, bin) ==
  LET i == t.entries_bound
  IN  [t EXCEPT
        !.entries = [j \in 0 .. i |-> IF j = i
                      THEN [hash |-> hash, key |-> key, record |-> value]
                      ELSE t.entries[j]],
        !.entries_bound = i + 1,
        !.bins = IF bin = NO_INDEX THEN @
                 ELSE set_bin(@, t.entry_power, bin, i + ENTRY_BASE),
        !.num_entries = @ + 1]

\* The insertion bin that find_entry_and_reserve reports for an absent key.
ReservedBin(t, hash) ==
  IF has_bins(t)
  THEN find_insertion_bin(t.bins, t.entry_power, hash)
  ELSE NO_INDEX

SetRecord(t, i, key, value) ==
  [t EXCEPT !.entries =
     [t.entries EXCEPT ![i] =
        [hash |-> t.entries[i].hash, key |-> key, record |-> value]]]

\* Mutant: entries_start moves by one, whatever follows it.
StartMovesByOne(t) ==
  [t EXCEPT !.entries_start = IF @ \in Live(t) THEN @ ELSE @ + 1]

update_start_after_delete(t) ==
  [t EXCEPT !.entries_start = IF Live(t) = {} THEN t.entries_bound ELSE Min(Live(t))]

\* Mutant: the bin is emptied, which ends every probe that went past it.
EmptiesBin(t, i, bin) ==
  update_start_after_delete(
    [t EXCEPT !.entries = [t.entries EXCEPT ![i].hash = DELETED_HASH],
              !.bins = IF has_bins(t)
                       THEN set_bin(t.bins, t.entry_power, bin, EMPTY_BIN)
                       ELSE t.bins,
              !.num_entries = @ - 1])

\* Mutant: the bin keeps naming the deleted entry.
KeepsBin(t, i, bin) ==
  update_start_after_delete(
    [t EXCEPT !.entries = [t.entries EXCEPT ![i].hash = DELETED_HASH],
              !.num_entries = @ - 1])

\* Mark entry i deleted, its bin too, and advance entries_start.
RemoveEntry(t, i, bin) ==
  update_start_after_delete(
    [t EXCEPT !.entries = [t.entries EXCEPT ![i].hash = DELETED_HASH],
              !.bins = IF has_bins(t)
                       THEN set_bin(t.bins, t.entry_power, bin, DELETED_BIN)
                       ELSE t.bins,
              !.num_entries = @ - 1])

\* What allocate_table builds once both of its allocations succeed.
EmptyTable(power) ==
  [entry_power |-> power, num_entries |-> 0, entries_start |-> 0,
   entries_bound |-> 0, rebuilds_num |-> 0,
   entries |-> [i \in 0 .. -1 |-> 0], bins |-> initialize_bins(power)]

-----------------------------------------------------------------------------
(* What the public operations do to a table, callbacks left aside.         *)

\* Mutant: the new key replaces an equal one that is present.
ReplacesKey(t, key, stored, value) ==
  LET hash == do_hash(key)
      i == find_entry_index(t, hash, key)
  IN  IF i # NO_INDEX THEN SetRecord(t, i, stored, value)
      ELSE AppendEntry(t, hash, stored, value, ReservedBin(t, hash))

\* The table after key is found and its record set, or is appended.
Inserted(t, key, stored, value) ==
  LET hash == do_hash(key)
      i == find_entry_index(t, hash, key)
  IN  IF i # NO_INDEX THEN SetRecord(t, i, t.entries[i].key, value)
      ELSE AppendEntry(t, hash, stored, value, ReservedBin(t, hash))

\* The bin st_delete marks deleted; a table without bins has none.
BinOf(t, hash, key) ==
  IF has_bins(t) THEN find_bin_for_entry(t, hash, key) ELSE NO_INDEX

\* The table after st_delete(key).
Deleted(t, key) ==
  LET hash == do_hash(key)
      i == find_entry_index(t, hash, key)
  IN  IF i = NO_INDEX THEN t ELSE RemoveEntry(t, i, BinOf(t, hash, key))

\* Mutant: the bins keep naming the entries that are gone.
ClearKeepsBins(t) ==
  [t EXCEPT !.num_entries = 0, !.entries_start = 0, !.entries_bound = 0,
            !.entries = [i \in 0 .. -1 |-> 0],
            !.rebuilds_num = (@ + 1) % REBUILDS_MOD]

\* Mutant: an iteration cannot tell that its index is gone.
ClearUncounted(t) ==
  [t EXCEPT !.num_entries = 0, !.entries_start = 0, !.entries_bound = 0,
            !.entries = [i \in 0 .. -1 |-> 0],
            !.bins = initialize_bins(t.entry_power)]

\* The table after st_clear.
Cleared(t) ==
  [t EXCEPT !.num_entries = 0, !.entries_start = 0, !.entries_bound = 0,
            !.entries = [i \in 0 .. -1 |-> 0],
            !.bins = initialize_bins(t.entry_power),
            !.rebuilds_num = (@ + 1) % REBUILDS_MOD]

-----------------------------------------------------------------------------
(* What makes a table well formed.                                         *)

Entry == [hash : 0 .. RESERVED_HASH, key : Key, record : Value]

TableType(t) ==
  /\ DOMAIN t = {"entry_power", "num_entries", "entries_start", "entries_bound",
                 "rebuilds_num", "entries", "bins"}
  /\ t.entry_power \in MINIMAL_POWER2 .. MAX_POWER2
  /\ t.num_entries \in Nat
  /\ t.entries_bound \in 0 .. allocated_entries(t)
  /\ t.entries_start \in 0 .. t.entries_bound
  /\ t.rebuilds_num \in 0 .. REBUILDS_MOD - 1
  /\ t.entries \in [0 .. t.entries_bound - 1 -> Entry]
  /\ t.bins \in [0 .. BinsCount(t.entry_power) - 1 -> 0 .. allocated_entries(t) + 1]

\* The tables there can be.
Tables ==
  [entry_power : Nat, num_entries : Nat, entries_start : Nat, entries_bound : Nat,
   rebuilds_num : Nat,
   entries : UNION {[0 .. n - 1 -> Entry] : n \in 0 .. Pow2[MAX_POWER2]},
   bins : UNION {[0 .. n - 1 -> Nat] : n \in 0 .. Pow2[MAX_POWER2 + 1]}]

\* The live entries in their order, as keys and values.
Contents(t) ==
  [n \in 1 .. Cardinality(Live(t)) |->
     [key |-> t.entries[LiveAt(t, n - 1)].key, value |-> t.entries[LiveAt(t, n - 1)].record]]

\* Every live entry stores the hash of its key, and no two hold equal keys.
KeysDistinct(t) ==
  \A i \in Live(t) :
    /\ t.entries[i].hash = do_hash(t.entries[i].key)
    /\ \A j \in Live(t) : keys_equal(t.entries[i].key, t.entries[j].key) => i = j

\* num_entries counts the live entries, none lies before entries_start, and
\* entries_start is itself live unless none is.
CountsLive(t) ==
  /\ t.num_entries = Cardinality(Live(t))
  /\ \A i \in 0 .. t.entries_start - 1 : t.entries[i].hash = DELETED_HASH
  /\ t.entries_start \in Live(t) \/ t.entries_start = t.entries_bound

\* A bin that is neither empty nor deleted holds a live entry, and no two
\* bins hold the same one.
BinsSound(t) ==
  \A b \in DOMAIN t.bins : t.bins[b] >= ENTRY_BASE =>
    /\ t.bins[b] - ENTRY_BASE \in Live(t)
    /\ \A c \in DOMAIN t.bins : t.bins[c] = t.bins[b] => c = b

\* Every live entry is met by the probe for its hash before an empty bin is.
EntriesReachable(t) ==
  has_bins(t) => \A i \in Live(t) :
    LET path == ProbePath[t.entries[i].hash][t.entry_power]
    IN  \E n \in ProbeSteps(t.entry_power) :
          /\ t.bins[path[n]] = i + ENTRY_BASE
          /\ \A m \in 0 .. n - 1 : t.bins[path[m]] # EMPTY_BIN

WellFormed(t) ==
  /\ TableType(t)
  /\ KeysDistinct(t)
  /\ CountsLive(t)
  /\ BinsSound(t)
  /\ EntriesReachable(t)
=============================================================================
