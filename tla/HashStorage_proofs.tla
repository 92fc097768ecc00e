-------------------------- MODULE HashStorage_proofs --------------------------
(***************************************************************************)
(* What the operators of HashStorage return and preserve, for every key    *)
(* set, hash function and choice of the compile-time constants; and why    *)
(* every search ends and finds what is there: the probe of every hash      *)
(* visits every bin, one bin is always empty, and no operation hides an    *)
(* entry from the probe for its hash.                                      *)
(***************************************************************************)
EXTENDS HashStorage, Sequences, Recursion, FiniteSetTheorems

-----------------------------------------------------------------------------
(* Powers of two.                                                          *)

(* Pow2 is the function its recursive definition describes: 1 << n.        *)
LEMMA Pow2Def ==
  /\ Pow2 \in [Nat -> Nat \ {0}]
  /\ Pow2[0] = 1
  /\ \A n \in Nat : Pow2[n + 1] = 2 * Pow2[n]
<1> DEFINE Pos == Nat \ {0}
           F == [x \in Nat \X Pos |-> 2 * x[2]]
<1>1. F \in [Nat \X Pos -> Pos]
  OBVIOUS
<1>2. PICK f : Unfolds(f, Pos, 1, F)
  <2>1. 1 \in Pos
    OBVIOUS
  <2> HIDE DEF F, Pos
  <2> QED BY <1>1, <2>1, RecursionExists
<1>3. f \in [Nat -> Pos] /\ f[0] = 1 /\ \A n \in Nat : f[n + 1] = 2 * f[n]
  BY <1>2 DEF Unfolds
<1>4. f = [n \in Nat |-> IF n = 0 THEN 1 ELSE 2 * f[n - 1]]
  <2>1. ASSUME NEW n \in Nat PROVE f[n] = IF n = 0 THEN 1 ELSE 2 * f[n - 1]
    <3>1. CASE n = 0
      BY <1>3, <3>1
    <3>2. CASE n # 0
      <4>1. n - 1 \in Nat /\ (n - 1) + 1 = n
        BY <3>2
      <4>2. f[(n - 1) + 1] = 2 * f[n - 1]
        BY <1>3, <4>1
      <4> QED BY <3>2, <4>1, <4>2
    <3> QED BY <3>1, <3>2
  <2> QED BY <1>3, <2>1
<1>5. Pow2 = [n \in Nat |-> IF n = 0 THEN 1 ELSE 2 * Pow2[n - 1]]
  BY <1>4 DEF Pow2
<1>6. Pow2[0] = 1
  BY <1>5
<1>7. ASSUME NEW n \in Nat PROVE Pow2[n + 1] = 2 * Pow2[n]
  <2>1. n + 1 \in Nat /\ n + 1 # 0 /\ (n + 1) - 1 = n
    OBVIOUS
  <2> QED BY <1>5, <2>1
<1> DEFINE T == {n \in Nat : Pow2[n] \in Pos}
<1>8. T = Nat
  <2>1. 0 \in T /\ T \subseteq Nat
    BY <1>6
  <2>2. ASSUME NEW n \in T PROVE n + 1 \in T
    BY <1>7
  <2> HIDE DEF T
  <2> QED BY <2>1, <2>2, InductiveSet
<1>9. Pow2 \in [Nat -> Pos]
  BY <1>5, <1>8
<1> QED BY <1>6, <1>7, <1>9

(* 1 << n grows with n: a larger power at least doubles the capacity.      *)
LEMMA Pow2Grows ==
  ASSUME NEW m \in Nat, NEW n \in Nat, m < n
  PROVE  2 * Pow2[m] <= Pow2[n]
<1> DEFINE T == {d \in Nat : 2 * Pow2[m] <= Pow2[m + 1 + d]}
<1>1. 0 \in T /\ T \subseteq Nat
  BY Pow2Def
<1>2. ASSUME NEW d \in T PROVE d + 1 \in T
  <2>1. m + 1 + d \in Nat /\ m + 1 + (d + 1) = (m + 1 + d) + 1
    OBVIOUS
  <2>2. Pow2[m + 1 + (d + 1)] = 2 * Pow2[m + 1 + d]
    BY <2>1, Pow2Def
  <2>3. Pow2[m + 1 + d] \in Nat \ {0} /\ Pow2[m] \in Nat
    BY <2>1, Pow2Def
  <2> QED BY <2>1, <2>2, <2>3
<1> HIDE DEF T
<1>3. T = Nat
  BY <1>1, <1>2, InductiveSet
<1>4. n - (m + 1) \in Nat /\ m + 1 + (n - (m + 1)) = n
  OBVIOUS
<1> QED BY <1>3, <1>4 DEF T

(* A larger entry_power never has a smaller capacity.                       *)
LEMMA Pow2Mono ==
  ASSUME NEW m \in Nat, NEW n \in Nat, m <= n
  PROVE  Pow2[m] <= Pow2[n]
<1>1. Pow2[m] \in Nat \ {0} /\ Pow2[n] \in Nat
  BY Pow2Def
<1>2. CASE m = n
  BY <1>1, <1>2
<1>3. CASE m < n
  BY <1>1, <1>3, Pow2Grows
<1> QED BY <1>2, <1>3

(* The smallest element that get_power2 and the searches choose exists.    *)
LEMMA MinNat ==
  ASSUME NEW T \in SUBSET Nat, T # {}
  PROVE  Min(T) \in T /\ \A k \in T : Min(T) <= k
  BY LeastNat DEF Min

(* get_power2 returns the smallest power whose capacity exceeds size.      *)
LEMMA GetPower2 ==
  ASSUME NEW size, get_power2(size) # ST_ERROR
  PROVE  /\ get_power2(size) \in MINIMAL_POWER2 .. MAX_POWER2
         /\ Pow2[get_power2(size)] > size
         /\ \A p \in MINIMAL_POWER2 .. MAX_POWER2 : Pow2[p] > size => get_power2(size) <= p
<1>1. PowersAbove(size) \in SUBSET Nat /\ PowersAbove(size) # {}
  BY StorageConstants DEF PowersAbove, get_power2
<1>2. get_power2(size) = Min(PowersAbove(size))
  BY <1>1 DEF get_power2
<1>3. Min(PowersAbove(size)) \in PowersAbove(size)
      /\ \A k \in PowersAbove(size) : Min(PowersAbove(size)) <= k
  BY <1>1, MinNat
<1> QED BY <1>2, <1>3 DEF PowersAbove

(* The capacity of a power is itself a size whose power is that power: what *)
(* st_copy relies on when it sizes the copy from the original's capacity.   *)
LEMMA CapacityRoundTrip ==
  ASSUME NEW p \in MINIMAL_POWER2 .. MAX_POWER2
  PROVE  get_power2(Pow2[p] - 1) = p
<1>1. p \in Nat /\ Pow2[p] \in Nat \ {0}
  BY StorageConstants, Pow2Def
<1>2. p \in PowersAbove(Pow2[p] - 1)
  BY <1>1 DEF PowersAbove
<1>3. get_power2(Pow2[p] - 1) # ST_ERROR
  <2>1. PowersAbove(Pow2[p] - 1) \in SUBSET Nat
    BY StorageConstants DEF PowersAbove
  <2>2. Min(PowersAbove(Pow2[p] - 1)) \in Nat
    BY <1>2, <2>1, MinNat
  <2> QED BY <1>2, <2>2 DEF get_power2, ST_ERROR
<1> DEFINE q == get_power2(Pow2[p] - 1)
<1>4. q \in MINIMAL_POWER2 .. MAX_POWER2 /\ Pow2[q] > Pow2[p] - 1 /\ q <= p
  BY <1>1, <1>3, GetPower2
<1> HIDE DEF q
<1>5. q \in Nat /\ Pow2[q] \in Nat \ {0}
  BY <1>4, StorageConstants, Pow2Def
<1>6. ASSUME q < p PROVE FALSE
  BY <1>1, <1>4, <1>5, <1>6, Pow2Grows
<1> QED BY <1>1, <1>4, <1>5, <1>6 DEF q

(* Every index of the entries, offset by ENTRY_BASE, fits in a packed bin:   *)
(* the cast in set_bin never truncates.                                      *)
LEMMA BinsWideEnough ==
  ASSUME NEW p \in MINIMAL_POWER2 .. MAX_POWER2
  PROVE  BinModulus(p) \in Nat /\ Pow2[p] + 1 < BinModulus(p)
<1>1. p \in Nat \ {0} /\ BIN_BITS \in Nat \ {0, 1} /\ p < 8 * BIN_BITS
  BY StorageConstants
<1>2. Pow2[0] = 1 /\ Pow2[1] = 2 /\ Pow2[2] = 4 /\ Pow2[3] = 8
  <2>1. Pow2[0 + 1] = 2 * Pow2[0] /\ Pow2[1 + 1] = 2 * Pow2[1] /\ Pow2[2 + 1] = 2 * Pow2[2]
    BY Pow2Def
  <2> QED BY <2>1, Pow2Def
<1> DEFINE s == size_index_for_power(p)
<1>3. Pow2[s] \in Nat /\ BIN_BITS * Pow2[s] \in Nat /\ p < BIN_BITS * Pow2[s]
  <2>1. CASE p < BIN_BITS
    BY <1>1, <1>2, <2>1 DEF size_index_for_power
  <2>2. CASE p >= BIN_BITS /\ p < 2 * BIN_BITS
    BY <1>1, <1>2, <2>2 DEF size_index_for_power
  <2>3. CASE p >= 2 * BIN_BITS /\ p < 4 * BIN_BITS
    BY <1>1, <1>2, <2>3 DEF size_index_for_power
  <2>4. CASE p >= 4 * BIN_BITS
    <3>1. s = 3
      BY <1>1, <2>4 DEF size_index_for_power
    <3> QED BY <1>1, <1>2, <3>1
  <2> QED BY <1>1, <2>1, <2>2, <2>3, <2>4
<1> HIDE DEF s
<1> DEFINE w == BIN_BITS * Pow2[s]
<1>4. w \in Nat /\ p < w
  BY <1>3
<1>5. BinModulus(p) = Pow2[w]
  BY DEF BinModulus, s
<1> HIDE DEF w
<1>6. 2 * Pow2[p] <= Pow2[w] /\ Pow2[w] \in Nat /\ Pow2[p] \in Nat
  BY <1>1, <1>4, Pow2Grows, Pow2Def
<1>7. 2 * Pow2[0] <= Pow2[p]
  BY <1>1, Pow2Grows
<1> QED BY <1>2, <1>5, <1>6, <1>7

-----------------------------------------------------------------------------
(* The part of well-formedness that does not depend on probing.            *)

Sound(t) == TableType(t) /\ CountsLive(t) /\ BinsSound(t)

(* The capacity of a table is a natural; its entries and bins are indexed  *)
(* from 0.                                                                 *)
LEMMA TableFacts ==
  ASSUME NEW t, TableType(t)
  PROVE  /\ t.entry_power \in Nat
         /\ allocated_entries(t) \in Nat
         /\ Live(t) \in SUBSET Nat
         /\ Live(t) \in SUBSET (0 .. t.entries_bound - 1)
         /\ IsFiniteSet(Live(t))
         /\ Cardinality(Live(t)) \in Nat
         /\ DELETED_HASH \in Nat
         /\ t.entries_start \in Nat /\ t.entries_bound \in Nat
<1>1. t.entry_power \in Nat /\ allocated_entries(t) \in Nat
  <2>1. t.entry_power \in MINIMAL_POWER2 .. MAX_POWER2
    BY DEF TableType
  <2>2. t.entry_power \in Nat
    BY <2>1, StorageConstants
  <2> QED BY <2>2, Pow2Def DEF allocated_entries
<1>2. t.entries_start \in Nat /\ t.entries_bound \in Nat
  BY <1>1 DEF TableType
<1>3. Live(t) \in SUBSET Nat /\ Live(t) \in SUBSET (0 .. t.entries_bound - 1)
  BY <1>2 DEF Live
<1>4. IsFiniteSet(0 .. t.entries_bound - 1)
  BY <1>2, FS_Interval
<1>5. IsFiniteSet(Live(t)) /\ Cardinality(Live(t)) \in Nat
  BY <1>3, <1>4, FS_Subset, FS_CardinalityType
<1>6. DELETED_HASH \in Nat
  BY StorageConstants, Pow2Def DEF DELETED_HASH, RESERVED_HASH
<1> QED BY <1>1, <1>2, <1>3, <1>5, <1>6

(* A table with no entry at all, as allocate_table and st_clear leave it.  *)
LEMMA EmptySound ==
  ASSUME NEW t, TableType(t), t.num_entries = 0, t.entries_start = 0,
         t.entries_bound = 0, \A b \in DOMAIN t.bins : t.bins[b] = EMPTY_BIN
  PROVE  Sound(t)
<1>1. Live(t) = {}
  BY DEF Live
<1>2. CountsLive(t)
  BY <1>1, FS_EmptySet DEF CountsLive
<1>3. BinsSound(t)
  BY DEF BinsSound, EMPTY_BIN, ENTRY_BASE
<1> QED BY <1>2, <1>3 DEF Sound

(* allocate_table builds a sound table.                                    *)
LEMMA EmptyTableSound ==
  ASSUME NEW p \in MINIMAL_POWER2 .. MAX_POWER2
  PROVE  Sound(EmptyTable(p))
<1> DEFINE t == EmptyTable(p)
<1>1. Pow2[p] \in Nat /\ REBUILDS_MOD \in Nat \ {0}
  BY StorageConstants, Pow2Def
<1>2. TableType(t)
  BY <1>1 DEF EmptyTable, TableType, allocated_entries, initialize_bins, EMPTY_BIN
<1>3. t.num_entries = 0 /\ t.entries_start = 0 /\ t.entries_bound = 0
      /\ \A b \in DOMAIN t.bins : t.bins[b] = EMPTY_BIN
  BY DEF EmptyTable, initialize_bins
<1> HIDE DEF t
<1> QED BY <1>2, <1>3, EmptySound DEF t

(* The type of a table, field by field.                                    *)
LEMMA TableTypeBy ==
  ASSUME NEW t, TableType(t), NEW u, DOMAIN u = DOMAIN t,
         u.entry_power \in MINIMAL_POWER2 .. MAX_POWER2, u.num_entries \in Nat,
         u.entries_bound \in 0 .. Pow2[u.entry_power],
         u.entries_start \in 0 .. u.entries_bound,
         u.rebuilds_num \in 0 .. REBUILDS_MOD - 1,
         u.entries \in [0 .. u.entries_bound - 1 -> Entry],
         u.bins \in [0 .. BinsCount(u.entry_power) - 1 -> 0 .. Pow2[u.entry_power] + 1]
  PROVE  TableType(u)
BY DEF TableType, allocated_entries

(* st_clear leaves a sound table.                                          *)
LEMMA ClearedSound ==
  ASSUME NEW t, TableType(t)
  PROVE  Sound(Cleared(t))
<1> DEFINE u == Cleared(t)
<1>1. REBUILDS_MOD \in Nat \ {0} /\ allocated_entries(t) \in Nat
  BY StorageConstants, TableFacts
<1>2. /\ u.entry_power = t.entry_power /\ u.num_entries = 0 /\ u.entries_start = 0
      /\ u.entries_bound = 0 /\ u.rebuilds_num = (t.rebuilds_num + 1) % REBUILDS_MOD
      /\ u.entries = [i \in 0 .. -1 |-> 0] /\ u.bins = initialize_bins(t.entry_power)
      /\ DOMAIN u = DOMAIN t
  BY DEF Cleared, TableType
<1> HIDE DEF u
<1>3. TableType(u)
  <2>1. u.rebuilds_num \in 0 .. REBUILDS_MOD - 1
    BY <1>1, <1>2 DEF TableType
  <2>2. t.entry_power \in MINIMAL_POWER2 .. MAX_POWER2 /\ Pow2[t.entry_power] \in Nat
    BY <1>1 DEF TableType, allocated_entries
  <2>3. /\ u.num_entries \in Nat /\ u.entries_bound \in 0 .. Pow2[u.entry_power]
        /\ u.entries_start \in 0 .. u.entries_bound
    BY <1>2, <2>2
  <2>4. u.entries \in [0 .. u.entries_bound - 1 -> Entry]
    BY <1>2
  <2>5. u.bins \in [0 .. BinsCount(u.entry_power) - 1 -> 0 .. Pow2[u.entry_power] + 1]
    BY <1>2, <2>2 DEF initialize_bins, EMPTY_BIN
  <2> QED BY Zenon, <1>2, <2>1, <2>2, <2>3, <2>4, <2>5, TableTypeBy
<1> QED BY <1>2, <1>3, EmptySound DEF u, initialize_bins

(* Writing the key and the record of an entry, as st_insert, st_update and  *)
(* ST_REPLACE do, keeps a table sound.                                      *)
LEMMA SetRecordSound ==
  ASSUME NEW t, Sound(t), NEW i \in 0 .. t.entries_bound - 1,
         NEW key \in Key, NEW value \in Value
  PROVE  Sound(SetRecord(t, i, key, value)) /\ Live(SetRecord(t, i, key, value)) = Live(t)
<1> DEFINE u == SetRecord(t, i, key, value)
<1>0. TableType(t) /\ CountsLive(t) /\ BinsSound(t)
  BY DEF Sound
<1>1. /\ u.entry_power = t.entry_power /\ u.num_entries = t.num_entries
      /\ u.entries_start = t.entries_start /\ u.entries_bound = t.entries_bound
      /\ u.rebuilds_num = t.rebuilds_num /\ u.bins = t.bins
      /\ u.entries = [t.entries EXCEPT ![i] =
                        [hash |-> t.entries[i].hash, key |-> key, record |-> value]]
      /\ DOMAIN u = DOMAIN t
  BY <1>0 DEF SetRecord, TableType
<1> HIDE DEF u
<1>2. t.entries \in [0 .. t.entries_bound - 1 -> Entry]
  BY <1>0 DEF TableType
<1>3. /\ u.entries \in [0 .. t.entries_bound - 1 -> Entry]
      /\ \A j \in 0 .. t.entries_bound - 1 : u.entries[j].hash = t.entries[j].hash
  <2>1. \A e \in Entry : [hash |-> e.hash, key |-> key, record |-> value] \in Entry
    BY DEF Entry
  <2>2. t.entries[i] \in Entry
    BY <1>2
  <2> QED BY <1>1, <1>2, <2>1, <2>2
<1>4. Live(u) = Live(t)
  <2>1. t.entries_start .. t.entries_bound - 1 \subseteq 0 .. t.entries_bound - 1
    BY <1>0, TableFacts
  <2> QED BY <1>1, <1>3, <2>1 DEF Live
<1>5. TableType(u)
  BY <1>0, <1>1, <1>3 DEF TableType, allocated_entries
<1>6. CountsLive(u)
  <2>1. \A j \in 0 .. t.entries_start - 1 : j \in 0 .. t.entries_bound - 1
    BY <1>0, TableFacts DEF TableType
  <2> QED BY <1>0, <1>1, <1>3, <1>4, <2>1 DEF CountsLive
<1>7. BinsSound(u)
  BY <1>0, <1>1, <1>4 DEF BinsSound
<1> QED BY <1>4, <1>5, <1>6, <1>7 DEF Sound, u

(* Appending an entry to a table with room for it, as all insertions do,    *)
(* keeps it sound, whichever bin the entry goes to.                         *)
LEMMA AppendEntrySound ==
  ASSUME NEW t, Sound(t), t.entries_bound < allocated_entries(t),
         NEW hash \in 0 .. RESERVED_HASH, hash # DELETED_HASH,
         NEW key \in Key, NEW value \in Value, NEW bin
  PROVE  /\ Sound(AppendEntry(t, hash, key, value, bin))
         /\ Live(AppendEntry(t, hash, key, value, bin)) = Live(t) \cup {t.entries_bound}
<1> DEFINE u == AppendEntry(t, hash, key, value, bin)
           n == t.entries_bound
<1>0. TableType(t) /\ CountsLive(t) /\ BinsSound(t)
  BY DEF Sound
<1>1. /\ u.entry_power = t.entry_power /\ u.num_entries = t.num_entries + 1
      /\ u.entries_start = t.entries_start /\ u.entries_bound = n + 1
      /\ u.rebuilds_num = t.rebuilds_num
      /\ u.bins = IF bin = NO_INDEX THEN t.bins
                  ELSE set_bin(t.bins, t.entry_power, bin, n + ENTRY_BASE)
      /\ u.entries = [j \in 0 .. n |-> IF j = n
                        THEN [hash |-> hash, key |-> key, record |-> value]
                        ELSE t.entries[j]]
      /\ DOMAIN u = DOMAIN t
  BY <1>0 DEF AppendEntry, TableType
<1> HIDE DEF u
<1>2. t.entries \in [0 .. n - 1 -> Entry] /\ n \in Nat /\ allocated_entries(t) \in Nat
  BY <1>0, TableFacts DEF TableType
<1>3. /\ u.entries \in [0 .. n -> Entry]
      /\ u.entries[n].hash = hash
      /\ \A j \in 0 .. n - 1 : u.entries[j] = t.entries[j]
  BY <1>1, <1>2 DEF Entry
<1>4. t.entries_start \in 0 .. n
  BY <1>0 DEF TableType
<1>5. Live(u) = Live(t) \cup {n}
  BY <1>1, <1>2, <1>3, <1>4 DEF Live
<1>6. t.bins \in [0 .. BinsCount(t.entry_power) - 1 -> 0 .. allocated_entries(t) + 1]
  BY <1>0 DEF TableType
<1>7. (n + ENTRY_BASE) % BinModulus(t.entry_power) = n + 2
  <2>1. t.entry_power \in MINIMAL_POWER2 .. MAX_POWER2
    BY <1>0 DEF TableType
  <2>2. BinModulus(t.entry_power) \in Nat /\ n + 2 < BinModulus(t.entry_power)
    BY <1>2, <2>1, BinsWideEnough DEF allocated_entries
  <2> HIDE DEF n
  <2> QED BY <1>2, <2>2 DEF ENTRY_BASE
<1> DEFINE D == 0 .. BinsCount(t.entry_power) - 1
           R == 0 .. allocated_entries(t) + 1
<1>8. /\ u.bins \in [D -> R]
      /\ \A b \in DOMAIN u.bins : u.bins[b] = t.bins[b] \/ (b = bin /\ u.bins[b] = n + 2)
  <2>1. CASE bin = NO_INDEX
    BY <1>1, <1>6, <2>1
  <2>2. CASE bin # NO_INDEX
    <3>1. u.bins = [t.bins EXCEPT ![bin] = n + 2]
      BY <1>1, <1>7, <2>2 DEF set_bin
    <3>2. n + 2 \in R /\ t.bins \in [D -> R]
      BY <1>2, <1>6
    <3> HIDE DEF D, R, n
    <3> QED BY <3>1, <3>2
  <2> QED BY <2>1, <2>2
<1>9. TableType(u)
  <2>1. u.entry_power = t.entry_power /\ allocated_entries(u) = allocated_entries(t)
    BY <1>1 DEF allocated_entries
  <2>2. /\ DOMAIN u = {"entry_power", "num_entries", "entries_start", "entries_bound",
                       "rebuilds_num", "entries", "bins"}
        /\ u.entry_power \in MINIMAL_POWER2 .. MAX_POWER2
        /\ u.num_entries \in Nat
        /\ u.rebuilds_num \in 0 .. REBUILDS_MOD - 1
    BY <1>0, <1>1 DEF TableType
  <2>3. /\ u.entries_bound \in 0 .. allocated_entries(u)
        /\ u.entries_start \in 0 .. u.entries_bound
    BY <1>0, <1>1, <1>2, <1>4, <2>1
  <2>4. u.entries \in [0 .. u.entries_bound - 1 -> Entry]
    <3>1. u.entries_bound - 1 = n
      BY <1>1, <1>2
    <3> QED BY <1>3, <3>1
  <2>5. u.bins \in [0 .. BinsCount(u.entry_power) - 1 -> 0 .. allocated_entries(u) + 1]
    BY <1>8, <2>1
  <2> QED BY <2>2, <2>3, <2>4, <2>5 DEF TableType
<1>10. CountsLive(u)
  <2>1. n \notin Live(t) /\ IsFiniteSet(Live(t))
    BY <1>0, <1>2, TableFacts DEF Live
  <2>2. Cardinality(Live(u)) = Cardinality(Live(t)) + 1
    BY <1>5, <2>1, FS_AddElement
  <2>3. \A j \in 0 .. u.entries_start - 1 : u.entries[j].hash = DELETED_HASH
    BY <1>0, <1>1, <1>2, <1>3, <1>4 DEF CountsLive
  <2>4. u.entries_start \in Live(u)
    BY <1>0, <1>1, <1>5 DEF CountsLive
  <2>5. u.num_entries = Cardinality(Live(u))
    BY <1>0, <1>1, <2>2 DEF CountsLive
  <2> QED BY <2>3, <2>4, <2>5 DEF CountsLive
<1>11. BinsSound(u)
  <2> SUFFICES ASSUME NEW b \in DOMAIN u.bins, u.bins[b] >= ENTRY_BASE
               PROVE  /\ u.bins[b] - ENTRY_BASE \in Live(u)
                      /\ \A c \in DOMAIN u.bins : u.bins[c] = u.bins[b] => c = b
    BY DEF BinsSound
  <2>1. DOMAIN u.bins = DOMAIN t.bins
    BY <1>6, <1>8
  <2>2. ASSUME NEW c \in DOMAIN t.bins PROVE t.bins[c] # n + 2
    <3>1. t.bins[c] \in Nat
      <4>1. R \subseteq Nat /\ t.bins \in [D -> R]
        BY <1>2, <1>6
      <4> HIDE DEF D, R
      <4> QED BY <4>1
    <3>2. t.bins[c] >= 2 => t.bins[c] - 2 \in 0 .. n - 1
      BY <1>0, TableFacts DEF BinsSound, ENTRY_BASE
    <3> QED BY <1>2, <3>1, <3>2
  <2>3. CASE u.bins[b] = t.bins[b]
    <3>1. t.bins[b] - ENTRY_BASE \in Live(t)
          /\ \A c \in DOMAIN t.bins : t.bins[c] = t.bins[b] => c = b
      BY <1>0, <2>1, <2>3 DEF BinsSound
    <3>2. ASSUME NEW c \in DOMAIN u.bins, u.bins[c] = u.bins[b] PROVE c = b
      BY <1>8, <2>1, <2>2, <2>3, <3>1, <3>2
    <3> QED BY <1>5, <2>3, <3>1, <3>2
  <2>4. CASE b = bin /\ u.bins[b] = n + 2
    <3>1. ASSUME NEW c \in DOMAIN u.bins, u.bins[c] = u.bins[b] PROVE c = b
      BY <1>8, <2>1, <2>2, <2>4, <3>1
    <3>2. u.bins[b] - ENTRY_BASE = n
      BY <1>2, <2>4 DEF ENTRY_BASE
    <3> QED BY <1>5, <3>1, <3>2
  <2> QED BY <1>8, <2>3, <2>4
<1> QED BY <1>5, <1>9, <1>10, <1>11 DEF Sound, u

(* Deleting a live entry, with the bin that holds it, keeps a table sound   *)
(* and moves entries_start to the oldest entry left.                        *)
LEMMA RemoveEntrySound ==
  ASSUME NEW t, Sound(t), NEW i \in Live(t), NEW bin,
         has_bins(t) => bin \in DOMAIN t.bins /\ t.bins[bin] = i + ENTRY_BASE
  PROVE  Sound(RemoveEntry(t, i, bin)) /\ Live(RemoveEntry(t, i, bin)) = Live(t) \ {i}
<1> DEFINE E == [t.entries EXCEPT ![i].hash = DELETED_HASH]
           B == IF has_bins(t) THEN set_bin(t.bins, t.entry_power, bin, DELETED_BIN) ELSE t.bins
           v == [t EXCEPT !.entries = E, !.bins = B, !.num_entries = t.num_entries - 1]
           u == RemoveEntry(t, i, bin)
           L == Live(t) \ {i}
<1>0. TableType(t) /\ CountsLive(t) /\ BinsSound(t)
  BY DEF Sound
<1>1. u = update_start_after_delete(v)
  BY DEF RemoveEntry
<1>2. /\ v.entry_power = t.entry_power /\ v.num_entries = t.num_entries - 1
      /\ v.entries_start = t.entries_start /\ v.entries_bound = t.entries_bound
      /\ v.rebuilds_num = t.rebuilds_num /\ v.entries = E /\ v.bins = B
      /\ DOMAIN v = DOMAIN t
  <2> HIDE DEF E, B
  <2> QED BY <1>0 DEF TableType
<1> HIDE DEF v, u
<1>3. t.entries \in [0 .. t.entries_bound - 1 -> Entry] /\ i \in 0 .. t.entries_bound - 1
  BY <1>0, TableFacts DEF TableType
<1>4. /\ E \in [0 .. t.entries_bound - 1 -> Entry]
      /\ E[i].hash = DELETED_HASH
      /\ \A j \in 0 .. t.entries_bound - 1 : j # i => E[j] = t.entries[j]
  <2>1. DELETED_HASH \in 0 .. RESERVED_HASH
    BY <1>0, TableFacts DEF DELETED_HASH
  <2>2. \A e \in Entry : [e EXCEPT !.hash = DELETED_HASH] \in Entry
                         /\ [e EXCEPT !.hash = DELETED_HASH].hash = DELETED_HASH
    BY <2>1 DEF Entry
  <2> QED BY <1>3, <2>2
<1> HIDE DEF E
<1>5. Live(v) = L
  <2>1. t.entries_start .. t.entries_bound - 1 \subseteq 0 .. t.entries_bound - 1
    BY <1>0, TableFacts
  <2> QED BY <1>2, <1>4, <2>1 DEF Live
<1>6. L \in SUBSET Nat /\ L \in SUBSET (t.entries_start .. t.entries_bound - 1)
      /\ t.entries_start \in Nat /\ t.entries_bound \in Nat /\ t.entries_start <= t.entries_bound
  BY <1>0, TableFacts DEF Live, TableType
<1> DEFINE s == IF L = {} THEN t.entries_bound ELSE Min(L)
<1>7. /\ s \in t.entries_start .. t.entries_bound
      /\ \A j \in L : s <= j
      /\ s \in L \/ s = t.entries_bound
  <2>1. CASE L = {}
    BY <1>6, <2>1
  <2>2. CASE L # {}
    <3>1. Min(L) \in L /\ \A j \in L : Min(L) <= j
      BY <1>6, <2>2, MinNat
    <3>2. s = Min(L)
      BY <2>2
    <3> HIDE DEF L, s
    <3>3. s \in L /\ \A j \in L : s <= j
      BY <3>1, <3>2
    <3>4. s \in t.entries_start .. t.entries_bound - 1
      BY <1>6, <3>3
    <3> QED BY <1>6, <3>3, <3>4
  <2> QED BY <2>1, <2>2
<1>8. /\ u.entry_power = t.entry_power /\ u.num_entries = t.num_entries - 1
      /\ u.entries_start = s /\ u.entries_bound = t.entries_bound
      /\ u.rebuilds_num = t.rebuilds_num /\ u.entries = E /\ u.bins = B
      /\ DOMAIN u = DOMAIN t
  <2> HIDE DEF L, B
  <2>1. DOMAIN v = {"entry_power", "num_entries", "entries_start", "entries_bound",
                    "rebuilds_num", "entries", "bins"}
    BY <1>0, <1>2 DEF TableType
  <2> QED BY <1>1, <1>2, <1>5, <2>1 DEF update_start_after_delete
<1> HIDE DEF s
<1>9. Live(u) = L
  <2>1. t.entries_start .. t.entries_bound - 1 \subseteq 0 .. t.entries_bound - 1
    BY <1>0, TableFacts
  <2>2. \A j \in L : j \in s .. t.entries_bound - 1 /\ E[j].hash # DELETED_HASH
    BY <1>2, <1>5, <1>6, <1>7 DEF Live
  <2>3. \A j \in s .. t.entries_bound - 1 :
          E[j].hash # DELETED_HASH => j \in L
    BY <1>2, <1>5, <1>6, <1>7 DEF Live
  <2> HIDE DEF L
  <2> QED BY <1>8, <2>2, <2>3 DEF Live
<1> DEFINE D == 0 .. BinsCount(t.entry_power) - 1
           R == 0 .. allocated_entries(t) + 1
<1>10. /\ B \in [D -> R]
       /\ has_bins(t) => B = [t.bins EXCEPT ![bin] = DELETED_BIN]
       /\ ~ has_bins(t) => D = {}
  <2>1. t.bins \in [D -> R] /\ allocated_entries(t) \in Nat
        /\ t.entry_power \in MINIMAL_POWER2 .. MAX_POWER2
    BY <1>0, TableFacts DEF TableType
  <2>2. BinModulus(t.entry_power) \in Nat /\ 1 < BinModulus(t.entry_power)
    BY <2>1, BinsWideEnough DEF allocated_entries
  <2>3. DELETED_BIN % BinModulus(t.entry_power) = DELETED_BIN /\ DELETED_BIN \in R
    BY <2>1, <2>2 DEF DELETED_BIN
  <2>4. has_bins(t) => B = [t.bins EXCEPT ![bin] = DELETED_BIN]
    BY <2>3 DEF set_bin
  <2>5. ~ has_bins(t) => B = t.bins
    OBVIOUS
  <2>6. B \in [D -> R]
    <3> HIDE DEF B, D, R
    <3> QED BY <2>1, <2>3, <2>4, <2>5
  <2>7. ~ has_bins(t) => D = {}
    BY DEF has_bins, BinsCount
  <2> QED BY <2>4, <2>6, <2>7
<1> HIDE DEF B
<1>11. TableType(u)
  <2>1. s \in 0 .. t.entries_bound
    BY <1>6, <1>7
  <2>2. t.num_entries - 1 \in Nat
    <3>1. IsFiniteSet(Live(t)) /\ Live(t) # {} /\ Cardinality(Live(t)) \in Nat
      BY <1>0, TableFacts
    <3>2. Cardinality(Live(t)) # 0
      BY <3>1, FS_EmptySet
    <3> QED BY <1>0, <3>1, <3>2 DEF CountsLive
  <2> QED BY <1>0, <1>4, <1>8, <1>10, <2>1, <2>2 DEF TableType, allocated_entries
<1>12. CountsLive(u)
  <2>1. Cardinality(L) = Cardinality(Live(t)) - 1
    BY <1>0, TableFacts, FS_RemoveElement
  <2>2. ASSUME NEW j \in 0 .. s - 1 PROVE E[j].hash = DELETED_HASH
    <3>1. j \in 0 .. t.entries_bound - 1 /\ j \notin L
      BY <1>6, <1>7
    <3>2. CASE j < t.entries_start
      BY <1>0, <1>4, <1>6, <3>1, <3>2 DEF CountsLive
    <3>3. CASE j >= t.entries_start
      BY <1>2, <1>5, <1>6, <3>1, <3>3 DEF Live
    <3> QED BY <1>6, <3>1, <3>2, <3>3
  <2> QED BY <1>0, <1>7, <1>8, <1>9, <2>1, <2>2 DEF CountsLive
<1>13. BinsSound(u)
  <2> SUFFICES ASSUME NEW b \in DOMAIN B, B[b] >= ENTRY_BASE
               PROVE  /\ B[b] - ENTRY_BASE \in L
                      /\ \A c \in DOMAIN B : B[c] = B[b] => c = b
    BY <1>8, <1>9 DEF BinsSound
  <2>1. t.bins \in [D -> R] /\ R \subseteq Nat
    BY <1>0, TableFacts DEF TableType
  <2> HIDE DEF D, R
  <2>2. has_bins(t) /\ b \in D
    BY <1>10
  <2>3. b # bin /\ B[b] = t.bins[b]
    BY <1>10, <2>1, <2>2 DEF DELETED_BIN, ENTRY_BASE
  <2>4. t.bins[b] - ENTRY_BASE \in Live(t)
        /\ \A c \in D : t.bins[c] = t.bins[b] => c = b
    BY <1>0, <2>1, <2>2, <2>3 DEF BinsSound
  <2>5. t.bins[b] - ENTRY_BASE # i
    <3>1. t.bins[bin] = i + 2 /\ bin \in D /\ i \in Nat /\ t.bins[b] \in Nat
      BY <1>0, <2>1, <2>2, TableFacts DEF ENTRY_BASE
    <3> QED BY <2>3, <2>4, <3>1 DEF ENTRY_BASE
  <2>6. ASSUME NEW c \in DOMAIN B, B[c] = B[b] PROVE c = b
    BY <1>10, <2>1, <2>2, <2>3, <2>4, <2>6 DEF DELETED_BIN, ENTRY_BASE
  <2> QED BY <2>3, <2>4, <2>5, <2>6
<1> QED BY <1>9, <1>11, <1>12, <1>13 DEF Sound, u

-----------------------------------------------------------------------------
(* Rebuilding.                                                             *)

(* The copying loops of rebuild and compact_in_place move exactly one live  *)
(* entry to each index below the number of live entries.                    *)
LEMMA LiveAtRank ==
  ASSUME NEW t, TableType(t), NEW d \in 0 .. Cardinality(Live(t)) - 1
  PROVE  /\ LiveAt(t, d) \in Live(t)
         /\ Cardinality({j \in Live(t) : j < LiveAt(t, d)}) = d
<1> DEFINE L == Live(t)
           n == Cardinality(L)
           Below(i) == {j \in L : j < i}
           rank == [i \in L |-> Cardinality(Below(i))]
<1>1. L \in SUBSET Nat /\ IsFiniteSet(L) /\ n \in Nat
  BY TableFacts
<1>2. ASSUME NEW i \in L
      PROVE  /\ IsFiniteSet(Below(i))
             /\ Cardinality(Below(i)) \in Nat
             /\ Cardinality(Below(i)) \in 0 .. n - 1
  <2>1. Below(i) \in SUBSET (L \ {i}) /\ Below(i) \in SUBSET L
    BY <1>1
  <2>2. IsFiniteSet(L \ {i}) /\ Cardinality(L \ {i}) = n - 1
    BY <1>1, FS_RemoveElement
  <2>3. IsFiniteSet(Below(i)) /\ Cardinality(Below(i)) <= n - 1
    BY <2>1, <2>2, FS_Subset
  <2>4. Cardinality(Below(i)) \in Nat
    BY <2>3, FS_CardinalityType
  <2> QED BY <1>1, <2>3, <2>4
<1>3. ASSUME NEW i \in L, NEW k \in L, i < k PROVE Cardinality(Below(i)) < Cardinality(Below(k))
  <2>1. Below(i) \cup {i} \in SUBSET Below(k) /\ i \notin Below(i)
    BY <1>1, <1>3
  <2>2. Cardinality(Below(i) \cup {i}) = Cardinality(Below(i)) + 1
    BY <1>2, <2>1, FS_AddElement
  <2>3. Cardinality(Below(i) \cup {i}) <= Cardinality(Below(k))
    BY <1>2, <2>1, FS_Subset
  <2>4. Cardinality(Below(i)) \in Nat /\ Cardinality(Below(k)) \in Nat
    BY <1>2
  <2> HIDE DEF Below
  <2> QED BY <2>2, <2>3, <2>4
<1>4. rank \in [L -> 0 .. n - 1]
  BY <1>2
<1>5. \A i, k \in L : rank[i] = rank[k] => i = k
  <2> SUFFICES ASSUME NEW i \in L, NEW k \in L, rank[i] = rank[k] PROVE i = k
    OBVIOUS
  <2>1. Cardinality(Below(i)) = Cardinality(Below(k))
    OBVIOUS
  <2>2. Cardinality(Below(i)) \in Nat /\ Cardinality(Below(k)) \in Nat
    BY <1>2
  <2>3. ~ (i < k) /\ ~ (k < i)
    <3> HIDE DEF Below
    <3> QED BY <1>3, <2>1, <2>2
  <2> QED BY <1>1, <2>3
<1>6. rank \in Injection(L, 0 .. n - 1)
  <2> HIDE DEF rank
  <2> QED BY <1>4, <1>5 DEF Injection, IsInjective
<1>7. IsFiniteSet(0 .. n - 1) /\ Cardinality(0 .. n - 1) = n
  <2> HIDE DEF n
  <2>1. 0 \in Int /\ n - 1 \in Int
    BY <1>1
  <2> QED BY <1>1, <2>1, FS_Interval
<1>8. rank \in Surjection(L, 0 .. n - 1)
  <2> HIDE DEF rank
  <2> QED BY <1>6, <1>7, FS_Injection
<1>9. \E i \in L : rank[i] = d
  <2> HIDE DEF rank
  <2> QED BY <1>8 DEF Surjection
<1>10. \E i \in L : Cardinality({j \in L : j < i}) = d
  BY <1>9
<1> QED BY <1>10 DEF LiveAt

(* The bins after each iteration of the loop in build_bins.                 *)
BuildsBins(filled, power, entries, bound) ==
  /\ filled \in [0 .. bound -> [0 .. BinsCount(power) - 1 -> Nat]]
  /\ filled[0] = initialize_bins(power)
  /\ \A n \in 0 .. bound - 1 :
       filled[n + 1] = IF entries[n].hash = DELETED_HASH THEN filled[n]
                       ELSE FillBin(filled[n], power, entries[n].hash, n)
  /\ build_bins(power, entries, bound) = filled[bound]

(* build_bins fills the bins one entry at a time.                           *)
LEMMA FilledUnfolds ==
  ASSUME NEW power \in Nat, NEW entries, NEW bound \in Nat,
         power > MAX_POWER2_WITHOUT_BINS
  PROVE  \E filled : BuildsBins(filled, power, entries, bound)
<1> DEFINE S == [0 .. BinsCount(power) - 1 -> Nat]
           Next1(n, b) == IF entries[n].hash = DELETED_HASH THEN b
                          ELSE FillBin(b, power, entries[n].hash, n)
           F == [x \in Nat \X S |-> Next1(x[1], x[2])]
           Body(f) == [n \in 0 .. bound |->
                         IF n = 0 THEN initialize_bins(power)
                         ELSE IF entries[n - 1].hash = DELETED_HASH THEN f[n - 1]
                         ELSE FillBin(f[n - 1], power, entries[n - 1].hash, n - 1)]
<1>1. initialize_bins(power) \in S
  BY DEF initialize_bins, EMPTY_BIN
<1>2. ASSUME NEW n \in Nat, NEW b \in S PROVE Next1(n, b) \in S
  <2>1. BinModulus(power) \in Nat \ {0}
    <3>1. size_index_for_power(power) \in Nat
      BY DEF size_index_for_power
    <3>2. Pow2[size_index_for_power(power)] \in Nat
      BY <3>1, Pow2Def
    <3>3. BIN_BITS * Pow2[size_index_for_power(power)] \in Nat
      BY <3>2, StorageConstants
    <3> QED BY <3>3, Pow2Def DEF BinModulus
  <2>2. (n + ENTRY_BASE) % BinModulus(power) \in Nat
    BY <2>1 DEF ENTRY_BASE
  <2> QED BY <2>2 DEF FillBin, set_bin
<1>3. F \in [Nat \X S -> S]
  <2> HIDE DEF S, Next1
  <2> QED BY <1>2
<1> HIDE DEF S
<1>4. PICK f : Unfolds(f, S, initialize_bins(power), F)
  <2> HIDE DEF F
  <2> QED BY <1>1, <1>3, RecursionExists
<1>5. f \in [Nat -> S] /\ f[0] = initialize_bins(power)
      /\ \A n \in Nat : f[n + 1] = Next1(n, f[n])
  <2>1. \A n \in Nat, b \in S : F[<<n, b>>] = Next1(n, b)
    <3> HIDE DEF Next1
    <3> QED OBVIOUS
  <2> HIDE DEF F, Next1
  <2> QED BY <1>4, <2>1 DEF Unfolds
<1> DEFINE g == [n \in 0 .. bound |-> f[n]]
<1>6. g = Body(g)
  <2>1. ASSUME NEW n \in 0 .. bound PROVE g[n] = Body(g)[n]
    <3>1. CASE n = 0
      BY <1>5, <3>1
    <3>2. CASE n # 0
      <4>1. n - 1 \in Nat /\ n - 1 \in 0 .. bound /\ (n - 1) + 1 = n
        BY <3>2
      <4>2. f[n] = Next1(n - 1, f[n - 1])
        BY <1>5, <4>1
      <4> QED BY <3>2, <4>1, <4>2
    <3> QED BY <3>1, <3>2
  <2> QED BY <2>1
<1> DEFINE h == CHOOSE filled : filled = Body(filled)
<1>7. h = Body(h)
  BY <1>6
<1>8. build_bins(power, entries, bound) = h[bound]
  <2>1. BinsCount(power) # 0
    <3>1. power + 1 \in Nat
      OBVIOUS
    <3> QED BY <3>1, Pow2Def DEF BinsCount
  <2> QED BY <2>1 DEF build_bins
<1> HIDE DEF h
<1>9. h[0] = initialize_bins(power)
  BY <1>7
<1>10. ASSUME NEW n \in 0 .. bound - 1 PROVE h[n + 1] = Next1(n, h[n])
  <2>1. n + 1 \in 0 .. bound /\ n + 1 # 0 /\ (n + 1) - 1 = n
    OBVIOUS
  <2> QED BY <1>7, <2>1
<1>11. h \in [0 .. bound -> S]
  <2> DEFINE T == {n \in Nat : n <= bound => h[n] \in S}
  <2>1. 0 \in T /\ T \subseteq Nat
    BY <1>1, <1>9
  <2>2. ASSUME NEW n \in T PROVE n + 1 \in T
    <3> HIDE DEF Next1
    <3> QED BY <1>2, <1>10
  <2> HIDE DEF T
  <2>3. T = Nat
    BY <2>1, <2>2, InductiveSet
  <2>4. \A n \in 0 .. bound : h[n] \in S
    BY <2>3 DEF T
  <2>5. h = [n \in 0 .. bound |-> h[n]]
    BY <1>7
  <2> QED BY <2>4, <2>5
<1> QED BY <1>8, <1>9, <1>10, <1>11 DEF S, BuildsBins

(* The bins hold the indexes below n, each at most once.                    *)
IndexBelow(bins, n) ==
  \A b \in DOMAIN bins :
    /\ bins[b] < n + ENTRY_BASE
    /\ \A c \in DOMAIN bins : bins[b] >= ENTRY_BASE /\ bins[c] = bins[b] => c = b

(* build_bins puts each entry of the array in one bin at most.              *)
LEMMA BuildBinsIndex ==
  ASSUME NEW power \in MINIMAL_POWER2 .. MAX_POWER2, NEW entries,
         NEW bound \in Nat, bound <= Pow2[power]
  PROVE  /\ build_bins(power, entries, bound) \in [0 .. BinsCount(power) - 1 -> Nat]
         /\ IndexBelow(build_bins(power, entries, bound), bound)
<1> DEFINE D == 0 .. BinsCount(power) - 1
<1>0. power \in Nat /\ Pow2[power] \in Nat
  BY StorageConstants, Pow2Def
<1>1. CASE ~ (power > MAX_POWER2_WITHOUT_BINS)
  <2>1. BinsCount(power) = 0 /\ D = {}
    BY <1>1 DEF BinsCount
  <2>2. build_bins(power, entries, bound) = initialize_bins(power)
    BY <2>1 DEF build_bins
  <2> QED BY <2>1, <2>2 DEF initialize_bins, IndexBelow
<1>2. CASE power > MAX_POWER2_WITHOUT_BINS
  <2>0. PICK filled : BuildsBins(filled, power, entries, bound)
    BY <1>0, <1>2, FilledUnfolds
  <2>1. /\ filled \in [0 .. bound -> [D -> Nat]]
        /\ filled[0] = initialize_bins(power)
        /\ \A n \in 0 .. bound - 1 :
             filled[n + 1] = IF entries[n].hash = DELETED_HASH THEN filled[n]
                             ELSE FillBin(filled[n], power, entries[n].hash, n)
        /\ build_bins(power, entries, bound) = filled[bound]
    BY <2>0 DEF BuildsBins
  <2> DEFINE T == {n \in Nat : n <= bound => IndexBelow(filled[n], n)}
  <2>2. IndexBelow(filled[0], 0)
    BY <2>1 DEF IndexBelow, initialize_bins, EMPTY_BIN, ENTRY_BASE
  <2> HIDE DEF D
  <2>3. ASSUME NEW n \in Nat, n <= bound => IndexBelow(filled[n], n), n + 1 <= bound
        PROVE  IndexBelow(filled[n + 1], n + 1)
    <3>1. n \in 0 .. bound - 1 /\ n \in 0 .. bound /\ IndexBelow(filled[n], n)
      BY <2>3
    <3>2. filled[n] \in [D -> Nat]
      BY <2>1, <3>1
    <3>3. CASE filled[n + 1] = filled[n]
      BY <3>1, <3>2, <3>3 DEF IndexBelow, ENTRY_BASE
    <3>4. CASE filled[n + 1] = FillBin(filled[n], power, entries[n].hash, n)
      <4> DEFINE x == find_insertion_bin(filled[n], power, entries[n].hash)
                 B == filled[n]
                 C == filled[n + 1]
      <4>1. (n + ENTRY_BASE) % BinModulus(power) = n + 2
        <5>1. BinModulus(power) \in Nat /\ n + 2 < BinModulus(power)
          BY <1>0, <3>1, BinsWideEnough
        <5> QED BY <5>1 DEF ENTRY_BASE
      <4>2. C = [B EXCEPT ![x] = n + 2]
        BY <3>4, <4>1 DEF FillBin, set_bin
      <4>3. B \in [D -> Nat] /\ IndexBelow(B, n)
        BY <3>1, <3>2
      <4>4. \A b \in D : B[b] < n + 2
        BY <4>3 DEF IndexBelow, ENTRY_BASE
      <4> HIDE DEF x, B, C
      <4>5. \A b \in D : C[b] = IF b = x THEN n + 2 ELSE B[b]
        BY <4>2, <4>3
      <4>6. DOMAIN C = D
        BY <4>2, <4>3
      <4>7. IndexBelow(C, n + 1)
        <5> SUFFICES ASSUME NEW b \in D, NEW c \in D
                     PROVE  /\ C[b] < (n + 1) + ENTRY_BASE
                            /\ C[b] >= ENTRY_BASE /\ C[c] = C[b] => c = b
          BY <4>6 DEF IndexBelow
        <5>1. B[b] \in Nat /\ B[c] \in Nat /\ B[b] < n + 2 /\ B[c] < n + 2
          BY <4>3, <4>4
        <5>2. B[b] >= ENTRY_BASE /\ B[c] = B[b] => c = b
          BY <4>3 DEF IndexBelow
        <5>3. C[b] = (IF b = x THEN n + 2 ELSE B[b]) /\ C[c] = (IF c = x THEN n + 2 ELSE B[c])
          BY <4>5
        <5> HIDE DEF T
        <5> QED BY <5>1, <5>2, <5>3 DEF ENTRY_BASE
      <4> QED BY <4>7 DEF C
    <3> QED BY <2>1, <3>1, <3>3, <3>4
  <2>4. T = Nat
    <3>1. 0 \in T /\ T \subseteq Nat /\ \A n \in T : n + 1 \in T
      BY <2>2, <2>3
    <3> HIDE DEF T
    <3> QED BY <3>1, InductiveSet
  <2>5. IndexBelow(filled[bound], bound)
    <3>1. bound \in T
      BY <2>4
    <3> QED BY <3>1
  <2> QED BY <2>1, <2>5 DEF D
<1> QED BY <1>1, <1>2

(* rebuild and compact_in_place keep a table sound, and the live entries in *)
(* their order, when the new capacity has room for them.                    *)
LEMMA RepackedSound ==
  ASSUME NEW t, Sound(t), NEW power \in MINIMAL_POWER2 .. MAX_POWER2,
         t.num_entries <= Pow2[power]
  PROVE  /\ Sound(Repacked(t, power))
         /\ Repacked(t, power).entry_power = power
         /\ Repacked(t, power).entries_bound = t.num_entries
         /\ Live(Repacked(t, power)) = 0 .. t.num_entries - 1
<1> DEFINE u == Repacked(t, power)
           n == t.num_entries
           D == 0 .. BinsCount(power) - 1
<1>0. TableType(t) /\ CountsLive(t)
  BY DEF Sound
<1>1. n \in Nat /\ n = Cardinality(Live(t)) /\ Pow2[power] \in Nat
  BY <1>0, StorageConstants, Pow2Def DEF TableType, CountsLive
<1>2. /\ u.entry_power = power /\ u.num_entries = n /\ u.entries_start = 0
      /\ u.entries_bound = n /\ u.rebuilds_num = (t.rebuilds_num + 1) % REBUILDS_MOD
      /\ u.entries = LiveEntries(t)
      /\ u.bins = build_bins(power, LiveEntries(t), n)
      /\ DOMAIN u = DOMAIN t
  BY <1>0, <1>1 DEF Repacked, TableType
<1> HIDE DEF u
<1>3. u.entries = [d \in 0 .. n - 1 |-> t.entries[LiveAt(t, d)]]
  BY <1>1, <1>2 DEF LiveEntries
<1>4. ASSUME NEW d \in 0 .. n - 1
      PROVE  u.entries[d] \in Entry /\ u.entries[d].hash # DELETED_HASH
  <2>1. LiveAt(t, d) \in Live(t)
    BY <1>0, <1>1, LiveAtRank
  <2>2. LiveAt(t, d) \in 0 .. t.entries_bound - 1 /\ t.entries[LiveAt(t, d)].hash # DELETED_HASH
    BY <1>0, <2>1, TableFacts DEF Live
  <2>3. t.entries[LiveAt(t, d)] \in Entry
    BY <1>0, <2>2 DEF TableType
  <2> QED BY <1>3, <2>2, <2>3
<1>5. Live(u) = 0 .. n - 1
  BY <1>2, <1>4 DEF Live
<1>6. u.bins \in [D -> Nat] /\ IndexBelow(u.bins, n)
  BY <1>1, <1>2, BuildBinsIndex
<1>7. TableType(u)
  <2>1. u.entries \in [0 .. n - 1 -> Entry]
    BY <1>3, <1>4
  <2>2. u.rebuilds_num \in 0 .. REBUILDS_MOD - 1
    <3>1. REBUILDS_MOD \in Nat \ {0} /\ t.rebuilds_num \in Nat
      BY <1>0, StorageConstants DEF TableType
    <3> QED BY <1>2, <3>1
  <2>3. u.bins \in [D -> 0 .. Pow2[power] + 1]
    <3>1. \A b \in D : u.bins[b] \in 0 .. Pow2[power] + 1
      <4>1. \A b \in D : u.bins[b] \in Nat /\ u.bins[b] < n + 2
        BY <1>6 DEF IndexBelow, ENTRY_BASE
      <4>2. n <= Pow2[power]
        OBVIOUS
      <4> HIDE DEF D, n
      <4> QED BY <1>1, <4>1, <4>2
    <3> HIDE DEF D
    <3> QED BY <1>6, <3>1
  <2>4. /\ u.num_entries \in Nat /\ u.entries_bound \in 0 .. Pow2[u.entry_power]
        /\ u.entries_start \in 0 .. u.entries_bound
    BY <1>1, <1>2
  <2> HIDE DEF n
  <2> QED BY Zenon, <1>0, <1>2, <2>1, <2>2, <2>3, <2>4, TableTypeBy DEF D
<1>8. CountsLive(u)
  <2>1. Cardinality(0 .. n - 1) = n
    <3>1. 0 \in Int /\ n - 1 \in Int
      BY <1>1
    <3> HIDE DEF n
    <3> QED BY <1>1, <3>1, FS_Interval
  <2> QED BY <1>1, <1>2, <1>5, <2>1 DEF CountsLive
<1>9. BinsSound(u)
  <2> HIDE DEF D
  <2>1. \A b \in D : u.bins[b] \in Nat
    BY <1>6
  <2> QED BY <1>1, <1>5, <1>6, <2>1 DEF BinsSound, IndexBelow, ENTRY_BASE
<1> QED BY <1>2, <1>5, <1>7, <1>8, <1>9 DEF Sound, u

(* ensure_insert_capacity leaves a table alone that has room, or packs its  *)
(* live entries into a block that has room for one more: compaction and     *)
(* growth alike leave a free slot.                                          *)
LEMMA EnsuresRoom ==
  ASSUME NEW t, Sound(t), CanGrow(t)
  PROVE  \/ /\ ensure_insert_capacity(t) = t
            /\ t.entries_bound < allocated_entries(t)
         \/ \E p \in MINIMAL_POWER2 .. MAX_POWER2 :
              /\ ensure_insert_capacity(t) = Repacked(t, p)
              /\ t.num_entries < Pow2[p]
<1> DEFINE u == ensure_insert_capacity(t)
           n == t.num_entries
<1>0. /\ TableType(t) /\ t.entry_power \in MINIMAL_POWER2 .. MAX_POWER2 /\ n \in Nat
      /\ t.entries_bound \in Nat /\ allocated_entries(t) \in Nat /\ t.entry_power \in Nat
      /\ MINIMAL_POWER2 \in Nat \ {0} /\ MINIMAL_POWER2 <= t.entry_power
  BY TableFacts, StorageConstants DEF Sound, TableType
<1>1. CASE ~ IsFull(t)
  BY <1>0, <1>1 DEF ensure_insert_capacity, IsFull
<1>2. CASE IsFull(t) /\ CompactsInPlace(t)
  <2>1. u = Repacked(t, t.entry_power)
    BY <1>2 DEF ensure_insert_capacity, rebuild, compact_in_place
  <2>2. Pow2[MINIMAL_POWER2] <= Pow2[t.entry_power] /\ Pow2[MINIMAL_POWER2] \in Nat
        /\ Pow2[t.entry_power] \in Nat \ {0}
    BY <1>0, Pow2Mono, Pow2Def
  <2>3. n < Pow2[t.entry_power]
    <3>1. CASE n < Pow2[MINIMAL_POWER2]
      BY <1>0, <2>2, <3>1
    <3>2. CASE 2 * n <= Pow2[t.entry_power]
      BY <1>0, <2>2, <3>2
    <3> QED BY <1>2, <3>1, <3>2 DEF CompactsInPlace, allocated_entries
  <2> HIDE DEF u
  <2> QED BY <1>0, <2>1, <2>3 DEF u
<1>3. CASE IsFull(t) /\ ~ CompactsInPlace(t)
  <2> DEFINE p == ReplacementPower(t)
  <2>1. u = Repacked(t, p) /\ p # ST_ERROR
    BY <1>3 DEF ensure_insert_capacity, rebuild, CanGrow, CanRebuild
  <2>2. p \in MINIMAL_POWER2 .. MAX_POWER2 /\ Pow2[p] > 2 * n - 1
    BY <2>1, GetPower2 DEF ReplacementPower
  <2>3. n >= Pow2[MINIMAL_POWER2] /\ Pow2[MINIMAL_POWER2] \in Nat \ {0}
    BY <1>0, <1>3, Pow2Def DEF CompactsInPlace
  <2>4. 2 * Pow2[0] <= Pow2[MINIMAL_POWER2] /\ Pow2[0] = 1
    BY <1>0, Pow2Grows, Pow2Def
  <2>5. p \in Nat /\ Pow2[p] \in Nat
    BY <2>2, StorageConstants, Pow2Def
  <2>6. n < Pow2[p]
    BY <1>0, <2>2, <2>3, <2>4, <2>5
  <2> HIDE DEF u, p
  <2> QED BY <2>1, <2>2, <2>6 DEF u
<1> QED BY <1>1, <1>2, <1>3

(* After ensure_insert_capacity a table is sound and has room for an entry. *)
LEMMA EnsuresCapacity ==
  ASSUME NEW t, Sound(t), CanGrow(t)
  PROVE  /\ Sound(ensure_insert_capacity(t))
         /\ ensure_insert_capacity(t).entries_bound
              < allocated_entries(ensure_insert_capacity(t))
<1> DEFINE u == ensure_insert_capacity(t)
<1>1. CASE u = t /\ t.entries_bound < allocated_entries(t)
  BY <1>1
<1>2. ASSUME NEW p \in MINIMAL_POWER2 .. MAX_POWER2, u = Repacked(t, p), t.num_entries < Pow2[p]
      PROVE  Sound(u) /\ u.entries_bound < allocated_entries(u)
  <2>1. t.num_entries \in Nat /\ Pow2[p] \in Nat
    <3>1. p \in Nat
      BY StorageConstants
    <3>2. t.num_entries \in Nat
      BY DEF Sound, TableType
    <3> QED BY <3>1, <3>2, Pow2Def
  <2>2. t.num_entries <= Pow2[p]
    BY <1>2, <2>1
  <2> HIDE DEF u
  <2>3. /\ Sound(Repacked(t, p)) /\ Repacked(t, p).entry_power = p
        /\ Repacked(t, p).entries_bound = t.num_entries
    BY <2>2, RepackedSound
  <2> QED BY <1>2, <2>3 DEF allocated_entries
<1> HIDE DEF u
<1>3. \/ u = t /\ t.entries_bound < allocated_entries(t)
      \/ \E p \in MINIMAL_POWER2 .. MAX_POWER2 : u = Repacked(t, p) /\ t.num_entries < Pow2[p]
  BY EnsuresRoom DEF u
<1> QED BY <1>1, <1>2, <1>3 DEF u

-----------------------------------------------------------------------------
(* Hashing and probing.                                                    *)

Hashes == {do_hash(key) : key \in Key}

(* normalize_hash: no key's hash is the mark of a deleted entry.            *)
LEMMA DoHash ==
  ASSUME NEW key \in Key
  PROVE  /\ do_hash(key) \in 0 .. RESERVED_HASH
         /\ do_hash(key) # DELETED_HASH
         /\ do_hash(key) \in Nat
<1>1. HASH_BITS \in Nat /\ 0 < HASH_BITS
  BY StorageConstants
<1>2. 2 * Pow2[0] <= Pow2[HASH_BITS] /\ Pow2[0] = 1 /\ Pow2[HASH_BITS] \in Nat
  BY <1>1, Pow2Grows, Pow2Def
<1>3. RESERVED_HASH \in Nat \ {0}
  BY <1>2 DEF RESERVED_HASH
<1>4. RawHash[key] \in 0 .. RESERVED_HASH
  BY PolicyContract
<1> QED BY <1>3, <1>4 DEF do_hash, normalize_hash, DELETED_HASH

(* at is the state of the probing loop for hash after each of its steps.    *)
Probes(at, hash, power) ==
  LET count == Pow2[power + 1]
  IN  /\ at \in [Nat -> [bin : 0 .. count - 1, perturb : Nat]]
      /\ at[0] = [bin |-> hash % count, perturb |-> hash]
      /\ \A n \in Nat : at[n + 1] = secondary_hash(count, at[n])
      /\ ProbePath[hash][power] = [n \in ProbeSteps(power) |-> at[n].bin]

(* The probing loop stays inside the bins.                                  *)
LEMMA ProbePathUnfolds ==
  ASSUME NEW hash \in Hashes, NEW power \in MINIMAL_POWER2 .. MAX_POWER2
  PROVE  \E at : Probes(at, hash, power)
<1> DEFINE count == Pow2[power + 1]
           S == [bin : 0 .. count - 1, perturb : Nat]
           s0 == [bin |-> hash % count, perturb |-> hash]
           F == [x \in Nat \X S |-> secondary_hash(count, x[2])]
           Body(f) == [n \in Nat |-> IF n = 0 THEN s0 ELSE secondary_hash(count, f[n - 1])]
<1>1. power + 1 \in Nat /\ count \in Nat \ {0} /\ hash \in Nat
  <2>1. power + 1 \in Nat
    BY StorageConstants
  <2> QED BY <2>1, Pow2Def, DoHash DEF Hashes
<1> HIDE DEF count
<1>2. s0 \in S
  BY <1>1
<1>3. ASSUME NEW a \in S PROVE secondary_hash(count, a) \in S
  <2>1. a.bin \in Nat /\ a.perturb \in Nat
    BY <1>1
  <2>2. a.perturb \div 2048 \in Nat
    BY <2>1
  <2>3. 4 * a.bin + a.bin + (a.perturb \div 2048) + 1 \in Nat
    BY <2>1, <2>2
  <2>4. (4 * a.bin + a.bin + (a.perturb \div 2048) + 1) % count \in 0 .. count - 1
    BY <1>1, <2>3
  <2> QED BY <2>2, <2>4 DEF secondary_hash
<1> HIDE DEF S, s0
<1>4. F \in [Nat \X S -> S]
  BY <1>3
<1>5. PICK f : Unfolds(f, S, s0, F)
  <2> HIDE DEF F
  <2> QED BY <1>2, <1>4, RecursionExists
<1>6. f \in [Nat -> S] /\ f[0] = s0 /\ \A n \in Nat : f[n + 1] = secondary_hash(count, f[n])
  <2>1. \A n \in Nat, a \in S : F[<<n, a>>] = secondary_hash(count, a)
    OBVIOUS
  <2> HIDE DEF F
  <2> QED BY <1>5, <2>1 DEF Unfolds
<1>7. f = Body(f)
  <2>1. ASSUME NEW n \in Nat PROVE f[n] = Body(f)[n]
    <3>1. CASE n = 0
      BY <1>6, <3>1
    <3>2. CASE n # 0
      <4>1. n - 1 \in Nat /\ (n - 1) + 1 = n
        BY <3>2
      <4>2. f[(n - 1) + 1] = secondary_hash(count, f[n - 1])
        BY <1>6, <4>1
      <4> QED BY <3>2, <4>1, <4>2
    <3> QED BY <3>1, <3>2
  <2> QED BY <1>6, <2>1
<1> DEFINE h == CHOOSE at : at = Body(at)
<1>8. h = Body(h)
  BY <1>7
<1>9. ProbePath[hash][power] = [n \in ProbeSteps(power) |-> h[n].bin]
  BY DEF ProbePath, Hashes, count, s0
<1> HIDE DEF h
<1>10. h[0] = s0
  BY <1>8
<1>11. ASSUME NEW n \in Nat PROVE h[n + 1] = secondary_hash(count, h[n])
  <2>1. n + 1 \in Nat /\ n + 1 # 0 /\ (n + 1) - 1 = n
    OBVIOUS
  <2> QED BY <1>8, <2>1
<1>12. h \in [Nat -> S]
  <2> DEFINE T == {n \in Nat : h[n] \in S}
  <2>1. 0 \in T /\ T \subseteq Nat /\ \A n \in T : n + 1 \in T
    BY <1>2, <1>3, <1>10, <1>11
  <2> HIDE DEF T
  <2>2. T = Nat
    BY <2>1, InductiveSet
  <2>3. \A n \in Nat : h[n] \in S
    BY <2>2 DEF T
  <2> QED BY <1>8, <2>3
<1> QED BY <1>9, <1>10, <1>11, <1>12 DEF Probes, count, S, s0

(* Every step of every probe is the index of a bin of the table.            *)
LEMMA ProbePathType ==
  ASSUME NEW hash \in Hashes, NEW power \in MINIMAL_POWER2 .. MAX_POWER2
  PROVE  /\ ProbePath[hash][power] \in [ProbeSteps(power) -> 0 .. Pow2[power + 1] - 1]
         /\ ProbeSteps(power) \in SUBSET Nat
<1>1. PICK at : Probes(at, hash, power)
  BY ProbePathUnfolds
<1>2. ProbeSteps(power) \in SUBSET Nat
  BY DEF ProbeSteps
<1> DEFINE R == 0 .. Pow2[power + 1] - 1
<1>3. at \in [Nat -> [bin : R, perturb : Nat]]
      /\ ProbePath[hash][power] = [n \in ProbeSteps(power) |-> at[n].bin]
  BY <1>1 DEF Probes
<1> HIDE DEF R
<1>4. \A n \in Nat : at[n].bin \in R
  BY <1>3
<1> QED BY <1>2, <1>3, <1>4 DEF R

(* What the searches report is a live entry that matches, and in a binned   *)
(* table the bin that holds it: st_delete and the writers act on nothing    *)
(* else.                                                                    *)
LEMMA FoundIsLive ==
  ASSUME NEW t, Sound(t), NEW hash \in Hashes, NEW key \in Key,
         find_entry_index(t, hash, key) # NO_INDEX
  PROVE  LET i == find_entry_index(t, hash, key)
             bin == find_bin_for_entry(t, hash, key)
         IN  /\ i \in Live(t)
             /\ entry_matches(t, i, hash, key)
             /\ has_bins(t) => bin \in DOMAIN t.bins /\ t.bins[bin] = i + ENTRY_BASE
<1>0. TableType(t) /\ BinsSound(t)
  BY DEF Sound
<1>1. CASE ~ has_bins(t)
  <2> DEFINE hits == {i \in t.entries_start .. t.entries_bound - 1 :
                        entry_matches(t, i, hash, key)}
  <2>1. hits # {} /\ find_entry_index(t, hash, key) = Min(hits)
    BY <1>1 DEF find_entry_index, find_entry_linear
  <2>2. hits \in SUBSET Nat
    BY <1>0, TableFacts
  <2>3. Min(hits) \in hits
    BY <2>1, <2>2, MinNat
  <2>4. hash # DELETED_HASH
    BY DoHash DEF Hashes
  <2> HIDE DEF hits
  <2> QED BY <1>1, <2>1, <2>3, <2>4 DEF Live, entry_matches, hits
<1>2. CASE has_bins(t)
  <2> DEFINE hits == StepsMatching(t, hash, key)
             stop == Min(hits \cup StepsAt(t.bins, t.entry_power, hash, EMPTY_BIN))
             bin == find_bin_for_entry(t, hash, key)
             path == ProbePath[hash][t.entry_power]
             i == find_entry_index(t, hash, key)
  <2>1. bin = (IF stop \in hits THEN path[stop] ELSE NO_INDEX)
    BY DEF find_bin_for_entry
  <2>2. i = (IF bin = NO_INDEX THEN NO_INDEX ELSE t.bins[bin] - ENTRY_BASE)
    BY <1>2 DEF find_entry_index, find_entry_binned
  <2> HIDE DEF bin, stop, i
  <2>3. stop \in hits /\ bin = path[stop] /\ i = t.bins[bin] - ENTRY_BASE
    BY <2>1, <2>2 DEF i
  <2>4. /\ stop \in ProbeSteps(t.entry_power)
        /\ t.bins[bin] >= ENTRY_BASE
        /\ entry_matches(t, i, hash, key)
    BY <2>3 DEF StepsMatching
  <2>5. t.entry_power \in MINIMAL_POWER2 .. MAX_POWER2 /\ t.entry_power \in Nat
    BY <1>0, TableFacts DEF TableType
  <2>6. bin \in 0 .. Pow2[t.entry_power + 1] - 1
    BY <2>3, <2>4, <2>5, ProbePathType
  <2>7. DOMAIN t.bins = 0 .. Pow2[t.entry_power + 1] - 1
    BY <1>0, <1>2 DEF TableType, BinsCount, has_bins
  <2>8. i \in Live(t)
    BY <1>0, <2>3, <2>4, <2>6, <2>7 DEF BinsSound
  <2>9. t.bins[bin] = i + ENTRY_BASE
    <3>1. i \in Nat
      BY <1>0, <2>8, TableFacts
    <3>2. t.bins[bin] \in Nat
      <4> DEFINE D == 0 .. BinsCount(t.entry_power) - 1
                 R == 0 .. allocated_entries(t) + 1
      <4>1. t.bins \in [D -> R] /\ R \subseteq Nat
        BY <1>0, TableFacts DEF TableType
      <4> HIDE DEF D, R
      <4> QED BY <2>6, <2>7, <4>1
    <3>3. i = t.bins[bin] - 2
      BY <2>3 DEF ENTRY_BASE
    <3> HIDE DEF hits, path
    <3> QED BY <3>1, <3>2, <3>3 DEF ENTRY_BASE
  <2> QED BY <2>4, <2>6, <2>7, <2>8, <2>9 DEF bin, i
<1> QED BY <1>1, <1>2

-----------------------------------------------------------------------------
(* The public operations.                                                  *)

(* st_insert, st_insert2 and st_add_direct on a table with room.            *)
LEMMA InsertedSound ==
  ASSUME NEW t, Sound(t), t.entries_bound < allocated_entries(t),
         NEW key \in Key, NEW stored \in Key, NEW value \in Value
  PROVE  Sound(Inserted(t, key, stored, value))
<1> DEFINE hash == do_hash(key)
           i == find_entry_index(t, hash, key)
<1>1. hash \in Hashes /\ hash \in 0 .. RESERVED_HASH /\ hash # DELETED_HASH
  BY DoHash DEF Hashes
<1>2. CASE i = NO_INDEX
  <2> HIDE DEF hash
  <2>1. Sound(AppendEntry(t, hash, stored, value, ReservedBin(t, hash)))
    BY <1>1, AppendEntrySound
  <2> QED BY <1>2, <2>1 DEF Inserted, hash
<1>3. CASE i # NO_INDEX
  <2>1. i \in Live(t)
    <3> HIDE DEF hash
    <3> QED BY <1>1, <1>3, FoundIsLive
  <2>2. TableType(t)
    BY DEF Sound
  <2>3. i \in 0 .. t.entries_bound - 1
    BY <2>1, <2>2, TableFacts
  <2>4. t.entries[i].key \in Key
    <3> HIDE DEF i
    <3> QED BY <2>2, <2>3 DEF TableType, Entry
  <2>5. Sound(SetRecord(t, i, t.entries[i].key, value))
    <3> HIDE DEF i
    <3> QED BY <2>3, <2>4, SetRecordSound
  <2> QED BY <1>3, <2>5 DEF Inserted
<1> QED BY <1>2, <1>3

(* st_delete.                                                               *)
LEMMA DeletedSound ==
  ASSUME NEW t, Sound(t), NEW key \in Key
  PROVE  Sound(Deleted(t, key))
<1> DEFINE hash == do_hash(key)
           i == find_entry_index(t, hash, key)
<1>1. hash \in Hashes
  BY DEF Hashes
<1>2. CASE i = NO_INDEX
  BY <1>2 DEF Deleted
<1>3. CASE i # NO_INDEX
  <2>1. /\ i \in Live(t)
        /\ has_bins(t) => BinOf(t, hash, key) \in DOMAIN t.bins
                          /\ t.bins[BinOf(t, hash, key)] = i + ENTRY_BASE
    <3> HIDE DEF hash
    <3> QED BY <1>1, <1>3, FoundIsLive DEF BinOf
  <2> HIDE DEF i
  <2>2. Sound(RemoveEntry(t, i, BinOf(t, hash, key)))
    BY <2>1, RemoveEntrySound
  <2> QED BY <1>3, <2>2 DEF Deleted, i
<1> QED BY <1>2, <1>3

-----------------------------------------------------------------------------
(* The map a table stands for.                                             *)

(* How many indexes of L come before i.                                     *)
RankIn(L, i) == Cardinality({j \in L : j < i})

(* What a live entry shows of itself to callers.                            *)
Pairs == [key : Key, value : Value]

Pair(e) == [key |-> e.key, value |-> e.record]

(* Two sequences of one length are equal when their elements are.           *)
LEMMA SameElements ==
  ASSUME NEW S, NEW s \in Seq(S), NEW t \in Seq(S), Len(s) = Len(t),
         \A n \in 1 .. Len(s) : s[n] = t[n]
  PROVE  s = t
  OBVIOUS

(* The elements of a longer sequence.                                       *)
LEMMA AppendElements ==
  ASSUME NEW S, NEW s \in Seq(S), NEW e \in S
  PROVE  /\ Append(s, e) \in Seq(S) /\ Len(Append(s, e)) = Len(s) + 1
         /\ \A n \in 1 .. Len(s) : Append(s, e)[n] = s[n]
         /\ Append(s, e)[Len(s) + 1] = e
  OBVIOUS

(* The elements of two sequences, one behind the other.                     *)
LEMMA ConcatElements ==
  ASSUME NEW S, NEW s \in Seq(S), NEW t \in Seq(S)
  PROVE  /\ s \o t \in Seq(S) /\ Len(s \o t) = Len(s) + Len(t)
         /\ \A n \in 1 .. Len(s) + Len(t) :
              (s \o t)[n] = IF n <= Len(s) THEN s[n] ELSE t[n - Len(s)]
  OBVIOUS

(* Ranks grow with the index and stay below the number of indexes.          *)
LEMMA RankGrows ==
  ASSUME NEW L \in SUBSET Nat, IsFiniteSet(L), NEW i \in L
  PROVE  /\ RankIn(L, i) \in 0 .. Cardinality(L) - 1
         /\ \A k \in L : i < k => RankIn(L, i) < RankIn(L, k)
<1> DEFINE Below(k) == {j \in L : j < k}
<1>1. ASSUME NEW T, IsFiniteSet(T), T \in SUBSET L, Below(i) \in SUBSET T, i \in T
      PROVE  Cardinality(Below(i)) < Cardinality(T)
  <2>1. i \notin Below(i)
    OBVIOUS
  <2>2. Cardinality(Below(i)) <= Cardinality(T) /\ Cardinality(Below(i)) # Cardinality(T)
    BY <1>1, <2>1, FS_Subset
  <2>3. Cardinality(Below(i)) \in Nat /\ Cardinality(T) \in Nat
    BY <1>1, FS_Subset, FS_CardinalityType
  <2> QED BY <2>2, <2>3
<1>2. Cardinality(Below(i)) < Cardinality(L)
  <2>1. Below(i) \in SUBSET L
    OBVIOUS
  <2> QED BY <1>1, <2>1
<1>3. ASSUME NEW k \in L, i < k PROVE Cardinality(Below(i)) < Cardinality(Below(k))
  <2>0. \A j \in L : j < i => j < k
    BY <1>3
  <2>1. Below(k) \in SUBSET L /\ Below(i) \in SUBSET Below(k) /\ i \in Below(k)
    BY <1>3, <2>0, Zenon
  <2>2. IsFiniteSet(Below(k))
    BY <2>1, FS_Subset
  <2> QED BY <1>1, <2>1, <2>2
<1>4. Cardinality(Below(i)) \in Nat /\ Cardinality(L) \in Nat
  <2>1. Below(i) \in SUBSET L
    OBVIOUS
  <2> QED BY <2>1, FS_Subset, FS_CardinalityType
<1> QED BY <1>2, <1>3, <1>4 DEF RankIn

(* LiveAt inverts the rank: the copying loops move entry i to its rank.     *)
LEMMA RankIsPlace ==
  ASSUME NEW t, TableType(t), NEW i \in Live(t)
  PROVE  /\ RankIn(Live(t), i) \in 0 .. Cardinality(Live(t)) - 1
         /\ LiveAt(t, RankIn(Live(t), i)) = i
<1> DEFINE L == Live(t)
           d == RankIn(L, i)
           k == LiveAt(t, d)
<1>1. L \in SUBSET Nat /\ IsFiniteSet(L)
  BY TableFacts
<1>2. d \in 0 .. Cardinality(L) - 1
  BY <1>1, RankGrows
<1>3. k \in L /\ RankIn(L, k) = d
  BY <1>2, LiveAtRank DEF RankIn
<1> HIDE DEF L, d, k
<1>4. ~ (i < k) /\ ~ (k < i)
  <2>1. i < k => d < RankIn(L, k)
    BY <1>1, <1>3, RankGrows DEF d, L
  <2>2. k < i => RankIn(L, k) < d
    BY <1>1, <1>3, RankGrows DEF d, L
  <2> QED BY <1>2, <1>3, <2>1, <2>2
<1>5. i \in Nat /\ k \in Nat
  BY <1>1, <1>3 DEF L
<1> QED BY <1>2, <1>4, <1>5 DEF L, d, k

(* The contents of a table are a sequence with one pair for each live entry. *)
LEMMA ContentsIsSeq ==
  ASSUME NEW t, TableType(t)
  PROVE  /\ Contents(t) \in Seq(Pairs)
         /\ Len(Contents(t)) = Cardinality(Live(t))
         /\ DOMAIN Contents(t) = 1 .. Cardinality(Live(t))
         /\ \A n \in 1 .. Cardinality(Live(t)) :
              /\ LiveAt(t, n - 1) \in Live(t)
              /\ RankIn(Live(t), LiveAt(t, n - 1)) = n - 1
              /\ Contents(t)[n] = Pair(t.entries[LiveAt(t, n - 1)])
<1> DEFINE N == Cardinality(Live(t))
<1>1. N \in Nat
  BY TableFacts
<1>2. ASSUME NEW n \in 1 .. N
      PROVE  /\ LiveAt(t, n - 1) \in Live(t)
             /\ RankIn(Live(t), LiveAt(t, n - 1)) = n - 1
  <2>1. n - 1 \in 0 .. N - 1
    BY <1>1
  <2> HIDE DEF N
  <2> QED BY <2>1, LiveAtRank DEF N, RankIn
<1>3. \A i \in Live(t) : Pair(t.entries[i]) \in Pairs
  <2>1. \A i \in Live(t) : t.entries[i] \in Entry
    BY TableFacts DEF TableType
  <2> QED BY <2>1 DEF Pair, Pairs, Entry
<1>4. Contents(t) = [n \in 1 .. N |-> Pair(t.entries[LiveAt(t, n - 1)])]
  BY DEF Contents, Pair
<1> HIDE DEF N
<1>5. Contents(t) \in [1 .. N -> Pairs]
  BY <1>2, <1>3, <1>4
<1>6. Contents(t) \in Seq(Pairs) /\ Len(Contents(t)) = N
  BY <1>1, <1>5
<1> QED BY <1>2, <1>4, <1>6 DEF N

(* A live entry is at the place of the contents that its rank says.          *)
LEMMA ContentsAt ==
  ASSUME NEW t, TableType(t), NEW i \in Live(t)
  PROVE  /\ RankIn(Live(t), i) + 1 \in DOMAIN Contents(t)
         /\ Contents(t)[RankIn(Live(t), i) + 1] = Pair(t.entries[i])
<1> DEFINE d == RankIn(Live(t), i)
<1>1. d \in 0 .. Cardinality(Live(t)) - 1 /\ LiveAt(t, d) = i
  BY RankIsPlace
<1>2. Cardinality(Live(t)) \in Nat
  BY TableFacts
<1> HIDE DEF d
<1>3. d + 1 \in 1 .. Cardinality(Live(t)) /\ (d + 1) - 1 = d
  BY <1>1, <1>2
<1> QED BY <1>1, <1>3, ContentsIsSeq DEF d

(* AppendEntry puts the new pair behind the others.                         *)
LEMMA ContentsAppended ==
  ASSUME NEW t, TableType(t), NEW u, TableType(u), NEW b \in Nat,
         Live(u) = Live(t) \cup {b}, \A i \in Live(t) : i < b,
         \A i \in Live(t) : u.entries[i] = t.entries[i]
  PROVE  Contents(u) = Append(Contents(t), Pair(u.entries[b]))
<1> DEFINE N == Cardinality(Live(t))
           c == Contents(t)
           e == Contents(u)
           p == Pair(u.entries[b])
<1>1. Live(t) \in SUBSET Nat /\ IsFiniteSet(Live(t)) /\ N \in Nat /\ b \notin Live(t)
  BY TableFacts
<1>2. Cardinality(Live(u)) = N + 1
  BY <1>1, FS_AddElement
<1>3. /\ c \in Seq(Pairs) /\ Len(c) = N
      /\ e \in Seq(Pairs) /\ Len(e) = N + 1
  BY <1>2, ContentsIsSeq
<1>4. RankIn(Live(u), b) = N
  <2>1. {j \in Live(u) : j < b} = Live(t)
    BY <1>1
  <2> QED BY <2>1 DEF RankIn
<1>5. e[N + 1] = p /\ p \in Pairs
  <2>1. b \in Live(u)
    OBVIOUS
  <2>2. e[N + 1] = p /\ N + 1 \in DOMAIN e
    BY <1>4, <2>1, ContentsAt
  <2> HIDE DEF e, p
  <2> QED BY <1>3, <2>2
<1>6. ASSUME NEW n \in 1 .. N PROVE e[n] = c[n]
  <2> DEFINE i == LiveAt(t, n - 1)
  <2>1. i \in Live(t) /\ RankIn(Live(t), i) = n - 1 /\ c[n] = Pair(t.entries[i])
    BY ContentsIsSeq
  <2> HIDE DEF i
  <2>2. {j \in Live(u) : j < i} = {j \in Live(t) : j < i}
    BY <1>1, <2>1
  <2>3. RankIn(Live(u), i) = n - 1
    BY <2>1, <2>2 DEF RankIn
  <2>4. e[(n - 1) + 1] = Pair(u.entries[i])
    BY <2>1, <2>3, ContentsAt
  <2>5. (n - 1) + 1 = n
    BY <1>1
  <2> QED BY <2>1, <2>4, <2>5
<1> HIDE DEF c, e, p, N
<1>7. /\ Append(c, p) \in Seq(Pairs) /\ Len(Append(c, p)) = N + 1
      /\ \A n \in 1 .. N : Append(c, p)[n] = c[n]
      /\ Append(c, p)[N + 1] = p
  BY <1>3, <1>5, AppendElements
<1>8. \A n \in 1 .. N + 1 : e[n] = Append(c, p)[n]
  <2>1. \A n \in 1 .. N + 1 : n \in 1 .. N \/ n = N + 1
    BY <1>1
  <2> QED BY <1>5, <1>6, <1>7, <2>1
<1>9. e = Append(c, p)
  BY <1>3, <1>7, <1>8, SameElements
<1> QED BY <1>9 DEF c, e, p

(* c with e at place p.                                                     *)
Overwritten(c, p, e) == [c EXCEPT ![p] = e]

(* SetRecord changes one pair in its place.                                 *)
LEMMA ContentsSet ==
  ASSUME NEW t, TableType(t), NEW u, TableType(u), NEW i \in Live(t),
         Live(u) = Live(t), \A j \in Live(t) : j # i => u.entries[j] = t.entries[j]
  PROVE  Contents(u) = Overwritten(Contents(t), RankIn(Live(t), i) + 1, Pair(u.entries[i]))
<1> DEFINE N == Cardinality(Live(t))
           c == Contents(t)
           e == Contents(u)
           r == RankIn(Live(t), i) + 1
<1>1. N \in Nat
  BY TableFacts
<1>2. c \in [1 .. N -> Pairs] /\ e \in [1 .. N -> Pairs]
  BY ContentsIsSeq
<1>3. e[r] = Pair(u.entries[i])
  BY ContentsAt
<1>4. ASSUME NEW n \in 1 .. N, n # r PROVE e[n] = c[n]
  <2> DEFINE j == LiveAt(t, n - 1)
  <2>1. j \in Live(t) /\ RankIn(Live(t), j) = n - 1 /\ c[n] = Pair(t.entries[j])
    BY ContentsIsSeq
  <2>2. e[n] = Pair(u.entries[LiveAt(u, n - 1)])
    BY ContentsIsSeq
  <2>3. LiveAt(u, n - 1) = j
    BY DEF LiveAt
  <2> HIDE DEF j
  <2>4. j # i
    BY <1>1, <1>4, <2>1
  <2> QED BY <2>1, <2>2, <2>3, <2>4
<1> HIDE DEF c, e, r, N
<1>5. e = [c EXCEPT ![r] = Pair(u.entries[i])]
  BY <1>2, <1>3, <1>4
<1> QED BY Zenon, <1>5 DEF c, e, r, Overwritten

(* RemoveEntry closes the gap.                                              *)
LEMMA ContentsRemoved ==
  ASSUME NEW t, TableType(t), NEW u, TableType(u), NEW i \in Live(t),
         Live(u) = Live(t) \ {i}, \A j \in Live(u) : u.entries[j] = t.entries[j]
  PROVE  LET c == Contents(t)
             r == RankIn(Live(t), i) + 1
         IN  Contents(u) = SubSeq(c, 1, r - 1) \o SubSeq(c, r + 1, Len(c))
<1> DEFINE N == Cardinality(Live(t))
           c == Contents(t)
           e == Contents(u)
           r == RankIn(Live(t), i) + 1
           f == SubSeq(c, 1, r - 1)
           g == SubSeq(c, r + 1, N)
<1>1. Live(t) \in SUBSET Nat /\ IsFiniteSet(Live(t)) /\ N \in Nat
  BY TableFacts
<1>2. Cardinality(Live(u)) = N - 1
  BY <1>1, FS_RemoveElement
<1>3. /\ c \in Seq(Pairs) /\ Len(c) = N
      /\ e \in Seq(Pairs) /\ Len(e) = N - 1
  BY <1>2, ContentsIsSeq
<1>4. r \in 1 .. N /\ RankIn(Live(t), i) = r - 1
  <2>1. RankIn(Live(t), i) \in 0 .. N - 1
    BY RankIsPlace
  <2> HIDE DEF N
  <2> QED BY <1>1, <2>1
<1>5. ASSUME NEW n \in 1 .. r - 1 PROVE e[n] = c[n]
  <2> DEFINE j == LiveAt(t, n - 1)
  <2>0. n \in 1 .. N /\ n - 1 < r - 1
    BY <1>1, <1>4
  <2>1. j \in Live(t) /\ RankIn(Live(t), j) = n - 1 /\ c[n] = Pair(t.entries[j])
    BY <2>0, ContentsIsSeq
  <2> HIDE DEF j
  <2>2. j < i
    <3>1. ~ (i < j) /\ i # j
      BY <1>1, <1>4, <2>0, <2>1, RankGrows
    <3> QED BY <1>1, <2>1, <3>1
  <2>3. {k \in Live(u) : k < j} = {k \in Live(t) : k < j}
    <3>1. \A k \in Live(t) : k < j => k # i
      BY <1>1, <2>1, <2>2
    <3> QED BY Zenon, <3>1
  <2>4. j \in Live(u) /\ RankIn(Live(u), j) = n - 1
    BY <2>1, <2>2, <2>3, <1>1 DEF RankIn
  <2>5. e[(n - 1) + 1] = Pair(u.entries[j])
    BY <2>4, ContentsAt
  <2>6. (n - 1) + 1 = n
    BY <1>1
  <2> QED BY <2>1, <2>4, <2>5, <2>6
<1>6. ASSUME NEW n \in r .. N - 1 PROVE e[n] = c[n + 1]
  <2> DEFINE j == LiveAt(t, n)
  <2>0. n + 1 \in 1 .. N /\ (n + 1) - 1 = n /\ n > r - 1 /\ n \in Nat /\ r - 1 \in Nat
    BY <1>1, <1>4
  <2>1. j \in Live(t) /\ RankIn(Live(t), j) = n /\ c[n + 1] = Pair(t.entries[j])
    BY <2>0, ContentsIsSeq
  <2> HIDE DEF j
  <2>2. i < j
    <3>1. ~ (j < i) /\ i # j
      BY <1>1, <1>4, <2>0, <2>1, RankGrows
    <3> QED BY <1>1, <2>1, <3>1
  <2>3. {k \in Live(u) : k < j} = {k \in Live(t) : k < j} \ {i}
    OBVIOUS
  <2>4. Cardinality({k \in Live(t) : k < j} \ {i}) = n - 1
    <3> DEFINE B == {k \in Live(t) : k < j}
    <3>1. IsFiniteSet(B) /\ i \in B /\ Cardinality(B) = n
      BY <1>1, <2>1, <2>2, FS_Subset DEF RankIn
    <3> HIDE DEF B
    <3> QED BY <3>1, FS_RemoveElement DEF B
  <2>5. j \in Live(u) /\ RankIn(Live(u), j) = n - 1
    <3>1. j # i
      BY <1>1, <2>1, <2>2
    <3> QED BY <2>1, <2>3, <2>4, <3>1, Zenon DEF RankIn
  <2>6. e[(n - 1) + 1] = Pair(u.entries[j])
    BY <2>5, ContentsAt
  <2>7. (n - 1) + 1 = n
    BY <2>0
  <2> QED BY <2>1, <2>5, <2>6, <2>7
<1> HIDE DEF c, e, r, N
<1>7. /\ f \in Seq(Pairs) /\ Len(f) = r - 1 /\ \A n \in 1 .. r - 1 : f[n] = c[n]
  BY <1>1, <1>3, <1>4
<1>8. /\ g \in Seq(Pairs) /\ Len(g) = N - r /\ \A n \in 1 .. N - r : g[n] = c[n + r]
  BY <1>1, <1>3, <1>4
<1> HIDE DEF f, g
<1>9. /\ f \o g \in Seq(Pairs) /\ Len(f \o g) = N - 1
      /\ \A n \in 1 .. N - 1 : (f \o g)[n] = IF n <= r - 1 THEN f[n] ELSE g[n - (r - 1)]
  <2>1. (r - 1) + (N - r) = N - 1
    BY <1>1, <1>4
  <2>2. /\ f \o g \in Seq(Pairs) /\ Len(f \o g) = Len(f) + Len(g)
        /\ \A n \in 1 .. Len(f) + Len(g) :
             (f \o g)[n] = IF n <= Len(f) THEN f[n] ELSE g[n - Len(f)]
    <3>1. f \in Seq(Pairs) /\ g \in Seq(Pairs)
      BY <1>7, <1>8
    <3> QED BY <3>1, ConcatElements, Zenon
  <2>3. Len(f) = r - 1 /\ Len(g) = N - r
    BY <1>7, <1>8
  <2>4. Len(f) + Len(g) = N - 1
    BY <2>1, <2>3
  <2> QED BY <2>2, <2>3, <2>4, Zenon
<1> DEFINE h == f \o g
<1> HIDE DEF h
<1>10. ASSUME NEW n \in 1 .. N - 1 PROVE e[n] = h[n]
  <2>1. CASE n <= r - 1
    <3>1. n \in 1 .. r - 1
      BY <1>1, <1>4, <2>1
    <3>2. h[n] = f[n]
      BY <1>9, <2>1 DEF h
    <3> QED BY <1>5, <1>7, <3>1, <3>2
  <2>2. CASE ~ (n <= r - 1)
    <3>1. n \in r .. N - 1 /\ n - (r - 1) \in 1 .. N - r /\ (n - (r - 1)) + r = n + 1
      BY <1>1, <1>4, <2>2
    <3>2. h[n] = g[n - (r - 1)]
      BY <1>9, <2>2 DEF h
    <3> QED BY <1>6, <1>8, <3>1, <3>2
  <2> QED BY <2>1, <2>2
<1>11. e = h
  BY <1>3, <1>9, <1>10, SameElements DEF h
<1> QED BY <1>3, <1>11 DEF c, e, f, g, h, r

(* rebuild moves the entries and keeps their order.                         *)
LEMMA ContentsRepacked ==
  ASSUME NEW t, TableType(t), NEW u, TableType(u),
         Live(u) = 0 .. Cardinality(Live(t)) - 1,
         \A d \in Live(u) : u.entries[d] = t.entries[LiveAt(t, d)]
  PROVE  Contents(u) = Contents(t)
<1> DEFINE N == Cardinality(Live(t))
<1>1. N \in Nat
  BY TableFacts
<1>2. Cardinality(Live(u)) = N
  BY <1>1, FS_Interval
<1>3. /\ Contents(t) \in Seq(Pairs) /\ Len(Contents(t)) = N
      /\ Contents(u) \in Seq(Pairs) /\ Len(Contents(u)) = N
  BY <1>2, ContentsIsSeq
<1>4. ASSUME NEW n \in 1 .. N PROVE Contents(u)[n] = Contents(t)[n]
  <2>1. n - 1 \in Live(u) /\ n - 1 \in Nat /\ (n - 1) + 1 = n
    BY <1>1
  <2>2. RankIn(Live(u), n - 1) = n - 1
    <3>1. {j \in Live(u) : j < n - 1} = 0 .. (n - 1) - 1
      BY <1>1, <2>1
    <3> DEFINE m == n - 1
    <3> HIDE DEF m
    <3>2. m \in Nat /\ {j \in Live(u) : j < m} = 0 .. m - 1
      BY <2>1, <3>1 DEF m
    <3>3. Cardinality(0 .. m - 1) = m
      BY <3>2, FS_Interval
    <3> QED BY <3>2, <3>3 DEF RankIn, m
  <2>3. Contents(u)[(n - 1) + 1] = Pair(u.entries[n - 1])
    BY <2>1, <2>2, ContentsAt
  <2>4. Contents(t)[n] = Pair(t.entries[LiveAt(t, n - 1)])
    BY ContentsIsSeq
  <2> QED BY <2>1, <2>3, <2>4
<1> HIDE DEF N
<1> QED BY <1>3, <1>4, SameElements

(* A table without entries.                                                 *)
LEMMA ContentsEmpty ==
  ASSUME NEW t, TableType(t)
  PROVE  Contents(t) = << >> <=> Live(t) = {}
<1>1. Contents(t) \in Seq(Pairs) /\ Len(Contents(t)) = Cardinality(Live(t))
  BY ContentsIsSeq
<1>2. IsFiniteSet(Live(t))
  BY TableFacts
<1>3. Cardinality(Live(t)) = 0 <=> Live(t) = {}
  BY <1>2, FS_EmptySet
<1> QED BY <1>1, <1>3

(* A table without entries stands for the empty map.                        *)
LEMMA EmptyMap ==
  ASSUME NEW t, TableType(t), t.entries_bound = 0
  PROVE  Contents(t) = << >>
<1>1. Live(t) \in SUBSET (0 .. 0 - 1)
  BY TableFacts
<1>2. Live(t) = {}
  BY <1>1
<1> QED BY <1>2, ContentsEmpty

-----------------------------------------------------------------------------
(* The generator of secondary_hash, once perturb is zero: 5 * x + 1.       *)

Generates(y) == y \in [Nat -> Nat] /\ \A n \in Nat : y[n + 1] = 5 * y[n] + 1

(* b is an odd multiple of Pow2[k], by which Pow2[k] steps of the generator *)
(* move every one of its values, up to a factor 1 modulo 4.                 *)
Strides(y, k, b) ==
  /\ b \in Nat
  /\ \E c \in Nat : b = Pow2[k] * (2 * c + 1)
  /\ \A n \in Nat : y[n + Pow2[k]] = y[n] + b * (4 * y[n] + 1)

(* Two strides of Pow2[k] steps make one of twice as many.                  *)
LEMMA StrideDoubles ==
  ASSUME NEW y, Generates(y), NEW k \in Nat, NEW b, Strides(y, k, b)
  PROVE  Strides(y, k + 1, 2 * b * (2 * b + 1))
<1>1. Pow2[k] \in Nat /\ Pow2[k + 1] \in Nat /\ Pow2[k + 1] = 2 * Pow2[k]
  BY Pow2Def
<1>2. PICK c \in Nat : b = Pow2[k] * (2 * c + 1)
  BY DEF Strides
<1>0. b \in Nat /\ 2 * b + 1 \in Nat /\ 2 * b * (2 * b + 1) \in Nat
  BY DEF Strides
<1>3. 2 * b * (2 * b + 1) = Pow2[k + 1] * (2 * (2 * b * c + b + c) + 1)
  <2> DEFINE p == Pow2[k]
             d == 2 * c + 1
  <2>1. 2 * (2 * b * c + b + c) + 1 = d * (2 * b + 1)
    BY <1>0
  <2>2. 2 * b = Pow2[k + 1] * d
    BY <1>1, <1>2
  <2>3. d \in Nat /\ 2 * b + 1 \in Nat /\ Pow2[k + 1] \in Nat
    BY <1>0, <1>1
  <2> HIDE DEF d
  <2>4. (Pow2[k + 1] * d) * (2 * b + 1) = Pow2[k + 1] * (d * (2 * b + 1))
    BY <2>3
  <2> QED BY <2>1, <2>2, <2>4
<1>4. 2 * b * c + b + c \in Nat
  BY <1>0
<1>5. ASSUME NEW n \in Nat
      PROVE  y[n + Pow2[k + 1]] = y[n] + (2 * b * (2 * b + 1)) * (4 * y[n] + 1)
  <2> DEFINE v == y[n]
             w == y[n + Pow2[k]]
  <2>1. v \in Nat /\ n + Pow2[k] \in Nat
    BY <1>1 DEF Generates
  <2>2. w = v + b * (4 * v + 1)
    BY DEF Strides
  <2>3. y[(n + Pow2[k]) + Pow2[k]] = w + b * (4 * w + 1)
    BY <2>1 DEF Strides
  <2>4. (n + Pow2[k]) + Pow2[k] = n + Pow2[k + 1]
    BY <1>1
  <2> HIDE DEF v, w
  <2>5. w + b * (4 * w + 1) = v + (2 * b * (2 * b + 1)) * (4 * v + 1)
    <3> DEFINE e == b * (4 * v + 1)
    <3>1. e \in Nat /\ w = v + e
      BY <1>0, <2>1, <2>2
    <3>2. b * (4 * w + 1) = e + 4 * (b * e)
      <4>1. 4 * w + 1 = (4 * v + 1) + 4 * e
        BY <2>1, <3>1
      <4>2. b * ((4 * v + 1) + 4 * e) = b * (4 * v + 1) + 4 * (b * e)
        BY <1>0, <2>1, <3>1
      <4> QED BY <4>1, <4>2
    <3>3. (2 * b * (2 * b + 1)) * (4 * v + 1) = 4 * (b * e) + 2 * e
      BY <1>0, <2>1
    <3> HIDE DEF e
    <3>4. b * e \in Nat
      BY <1>0, <3>1
    <3> QED BY <2>1, <3>1, <3>2, <3>3, <3>4
  <2> QED BY <2>3, <2>4, <2>5 DEF v, w
<1> QED BY <1>0, <1>3, <1>4, <1>5 DEF Strides

(* Every power of two has a stride.                                         *)
LEMMA StrideExists ==
  ASSUME NEW y, Generates(y), NEW k \in Nat
  PROVE  \E b : Strides(y, k, b)
<1> DEFINE T == {n \in Nat : \E b : Strides(y, n, b)}
<1>1. Strides(y, 0, 1)
  <2>1. Pow2[0] = 1
    BY Pow2Def
  <2>2. 1 = Pow2[0] * (2 * 0 + 1)
    BY <2>1
  <2>3. \A n \in Nat : y[n + Pow2[0]] = y[n] + 1 * (4 * y[n] + 1)
    BY <2>1 DEF Generates
  <2> QED BY <2>2, <2>3 DEF Strides
<1>2. 0 \in T /\ T \subseteq Nat /\ \A n \in T : n + 1 \in T
  BY <1>1, StrideDoubles
<1> HIDE DEF T
<1>3. T = Nat
  BY <1>2, InductiveSet
<1> QED BY <1>3 DEF T

(* One of the first Pow2[k] values is r, modulo Pow2[k].                     *)
MeetsResidue(y, k, r) == \E n \in 0 .. Pow2[k] - 1, q \in Int : y[n] = r + Pow2[k] * q

(* The generator 5 * x + 1 has a full cycle modulo every power of two: its  *)
(* first Pow2[k] values reach every residue.  (Knuth's condition, which the *)
(* comment on secondary_hash relies on.)                                    *)
LEMMA FullCycle ==
  ASSUME NEW y, Generates(y), NEW k \in Nat, NEW r \in Nat
  PROVE  MeetsResidue(y, k, r)
<1> DEFINE Meets(j) == \E n \in 0 .. Pow2[j] - 1, q \in Int : y[n] = r + Pow2[j] * q
           T == {j \in Nat : Meets(j)}
<1>1. Meets(0)
  <2>1. Pow2[0] = 1 /\ 0 \in 0 .. Pow2[0] - 1 /\ y[0] \in Nat
    BY Pow2Def DEF Generates
  <2>2. y[0] - r \in Int /\ y[0] = r + Pow2[0] * (y[0] - r)
    BY <2>1
  <2> QED BY <2>1, <2>2
<1>2. ASSUME NEW j \in Nat, Meets(j) PROVE Meets(j + 1)
  <2> DEFINE p == Pow2[j]
  <2>1. p \in Nat \ {0} /\ Pow2[j + 1] = 2 * p
    BY Pow2Def
  <2>2. PICK n \in 0 .. p - 1, q \in Int : y[n] = r + p * q
    BY <1>2
  <2> HIDE DEF p
  <2>3. n \in Nat /\ y[n] \in Nat
    BY <2>1 DEF Generates
  <2>4. PICK b : Strides(y, j, b)
    BY StrideExists
  <2>5. PICK c \in Nat : b = p * (2 * c + 1)
    BY <2>4 DEF Strides, p
  <2>6. y[n + p] = y[n] + b * (4 * y[n] + 1)
    BY <2>3, <2>4 DEF Strides, p
  <2>7. q % 2 = 0 \/ q % 2 = 1
    OBVIOUS
  <2>8. CASE q % 2 = 0
    <3>1. q = 2 * (q \div 2) /\ q \div 2 \in Int
      BY <2>8
    <3>2. p * q = (2 * p) * (q \div 2)
      BY <2>1, <3>1
    <3>3. n \in 0 .. 2 * p - 1
      BY <2>1
    <3> QED BY <2>1, <2>2, <3>1, <3>2, <3>3
  <2>9. CASE q % 2 = 1
    <3> DEFINE h == q \div 2
               v == y[n]
               e == h + 4 * c * v + c + 2 * v + 1
    <3>1. q = 2 * h + 1 /\ h \in Int
      BY <2>9
    <3>2. v \in Nat
      BY <2>3
    <3> HIDE DEF h, v
    <3>3. e \in Int
      BY <3>1, <3>2
    <3>4. q + (2 * c + 1) * (4 * v + 1) = 2 * e
      BY <3>1, <3>2
    <3>5. p * q + b * (4 * v + 1) = p * (q + (2 * c + 1) * (4 * v + 1))
      BY <2>1, <2>5, <3>2
    <3>6. y[n + p] = r + (p * q + b * (4 * v + 1))
      <4>1. p * q \in Int /\ b * (4 * v + 1) \in Int
        BY <2>1, <2>5, <3>2
      <4> QED BY <2>2, <2>6, <3>2, <4>1 DEF v
    <3> HIDE DEF e
    <3>7. p * (2 * e) = (2 * p) * e
      BY <2>1, <3>3
    <3>8. n + p \in 0 .. 2 * p - 1
      BY <2>1
    <3> QED BY <2>1, <3>3, <3>4, <3>5, <3>6, <3>7, <3>8
  <2> QED BY <2>7, <2>8, <2>9
<1>3. 0 \in T /\ T \subseteq Nat /\ \A j \in T : j + 1 \in T
  BY <1>1, <1>2
<1> HIDE DEF T
<1>4. T = Nat
  BY <1>3, InductiveSet
<1> QED BY <1>4 DEF T, MeetsResidue

-----------------------------------------------------------------------------
(* The probe of every hash visits every bin.                               *)

(* Eleven doublings: what perturb >>= 11 takes away.                        *)
LEMMA Pow2Eleven ==
  ASSUME NEW m \in Nat
  PROVE  Pow2[m + 11] = 2048 * Pow2[m]
<1>1. \A k \in Nat : Pow2[k + 1] = 2 * Pow2[k] /\ Pow2[k] \in Nat
  BY Pow2Def
<1>2. Pow2[m + 4] = 16 * Pow2[m]
  <2>1. /\ Pow2[m + 1] = 2 * Pow2[m] /\ Pow2[(m + 1) + 1] = 2 * Pow2[m + 1]
        /\ Pow2[(m + 2) + 1] = 2 * Pow2[m + 2] /\ Pow2[(m + 3) + 1] = 2 * Pow2[m + 3]
    BY <1>1
  <2>2. (m + 1) + 1 = m + 2 /\ (m + 2) + 1 = m + 3 /\ (m + 3) + 1 = m + 4
    OBVIOUS
  <2> QED BY <1>1, <2>1, <2>2
<1>3. Pow2[m + 8] = 16 * Pow2[m + 4]
  <2>1. /\ Pow2[(m + 4) + 1] = 2 * Pow2[m + 4] /\ Pow2[(m + 5) + 1] = 2 * Pow2[m + 5]
        /\ Pow2[(m + 6) + 1] = 2 * Pow2[m + 6] /\ Pow2[(m + 7) + 1] = 2 * Pow2[m + 7]
    BY <1>1
  <2>2. /\ (m + 4) + 1 = m + 5 /\ (m + 5) + 1 = m + 6
        /\ (m + 6) + 1 = m + 7 /\ (m + 7) + 1 = m + 8
    OBVIOUS
  <2>3. Pow2[m + 4] \in Nat
    BY <1>1
  <2> QED BY <2>1, <2>2, <2>3
<1>4. Pow2[m + 11] = 8 * Pow2[m + 8]
  <2>1. /\ Pow2[(m + 8) + 1] = 2 * Pow2[m + 8] /\ Pow2[(m + 9) + 1] = 2 * Pow2[m + 9]
        /\ Pow2[(m + 10) + 1] = 2 * Pow2[m + 10]
    BY <1>1
  <2>2. (m + 8) + 1 = m + 9 /\ (m + 9) + 1 = m + 10 /\ (m + 10) + 1 = m + 11
    OBVIOUS
  <2>3. Pow2[m + 8] \in Nat
    BY <1>1
  <2> QED BY <2>1, <2>2, <2>3
<1>5. Pow2[m] \in Nat
  BY <1>1
<1> QED BY <1>2, <1>3, <1>4, <1>5

(* The probe for hash: the bins b it visits, the perturbations p.            *)
Runs(b, p, hash, power) ==
  /\ b \in [Nat -> 0 .. Pow2[power + 1] - 1]
  /\ p \in [Nat -> Nat]
  /\ p[0] = hash
  /\ \A n \in Nat : /\ p[n + 1] = p[n] \div 2048
                    /\ b[n + 1] = (5 * b[n] + p[n + 1] + 1) % Pow2[power + 1]
  /\ ProbePath[hash][power] = [n \in ProbeSteps(power) |-> b[n]]

(* The probing loop, field by field.                                        *)
LEMMA ProbeRuns ==
  ASSUME NEW hash \in Hashes, NEW power \in MINIMAL_POWER2 .. MAX_POWER2
  PROVE  \E b, p : Runs(b, p, hash, power)
<1> DEFINE count == Pow2[power + 1]
           R == 0 .. count - 1
           S == [bin : R, perturb : Nat]
<1>0. power + 1 \in Nat /\ count \in Nat \ {0}
  <2>1. power + 1 \in Nat
    BY StorageConstants
  <2> QED BY <2>1, Pow2Def
<1>1. PICK at : Probes(at, hash, power)
  BY ProbePathUnfolds
<1>2. /\ at \in [Nat -> S]
      /\ at[0].perturb = hash
      /\ \A n \in Nat : at[n + 1] = secondary_hash(count, at[n])
      /\ ProbePath[hash][power] = [n \in ProbeSteps(power) |-> at[n].bin]
  <2>1. at \in [Nat -> S]
    BY <1>1 DEF Probes
  <2>2. at[0].perturb = hash
    BY <1>1 DEF Probes
  <2>3. \A n \in Nat : at[n + 1] = secondary_hash(count, at[n])
    BY <1>1, Zenon DEF Probes
  <2>4. ProbePath[hash][power] = [n \in ProbeSteps(power) |-> at[n].bin]
    BY <1>1, Zenon DEF Probes
  <2> QED BY <2>1, <2>2, <2>3, <2>4
<1>3. \A n \in Nat : /\ secondary_hash(count, at[n]).perturb = at[n].perturb \div 2048
                     /\ secondary_hash(count, at[n]).bin =
                          (4 * at[n].bin + at[n].bin + (at[n].perturb \div 2048) + 1) % count
  BY DEF secondary_hash
<1> HIDE DEF count
<1>4. \A n \in Nat : at[n].bin \in R /\ at[n].perturb \in Nat
  <2> HIDE DEF R
  <2> QED BY <1>2
<1> DEFINE b == [n \in Nat |-> at[n].bin]
           p == [n \in Nat |-> at[n].perturb]
<1>5. b \in [Nat -> R] /\ p \in [Nat -> Nat] /\ p[0] = hash
  BY <1>2, <1>4
<1>6. ProbePath[hash][power] = [n \in ProbeSteps(power) |-> b[n]]
  <2>1. ProbeSteps(power) \in SUBSET Nat
    BY DEF ProbeSteps
  <2> QED BY <1>2, <2>1
<1>7. ASSUME NEW n \in Nat
      PROVE  p[n + 1] = p[n] \div 2048 /\ b[n + 1] = (5 * b[n] + p[n + 1] + 1) % count
  <2>0. /\ n + 1 \in Nat
        /\ at[n + 1] = secondary_hash(count, at[n])
    BY <1>2
  <2>5. /\ p[n] = at[n].perturb /\ p[n + 1] = at[n + 1].perturb
        /\ b[n] = at[n].bin /\ b[n + 1] = at[n + 1].bin
    BY <2>0, Zenon
  <2> HIDE DEF b, p
  <2>1. p[n + 1] = p[n] \div 2048
    BY <1>3, <2>0, <2>5, SMT
  <2>2. b[n + 1] = (4 * b[n] + b[n] + p[n + 1] + 1) % count
    <3>1. at[n + 1].bin = (4 * at[n].bin + at[n].bin + (at[n].perturb \div 2048) + 1) % count
      BY <1>3, <2>0, SMT
    <3> QED BY <3>1, <2>1, <2>5, SMT
  <2>3. b[n] \in Int /\ p[n + 1] \in Int
    BY <1>0, <1>4, <2>0, <2>5
  <2>4. 4 * b[n] + b[n] + p[n + 1] + 1 = 5 * b[n] + p[n + 1] + 1
    BY <2>3
  <2> QED BY <2>1, <2>2, <2>4
<1>8. Runs(b, p, hash, power)
  <2> HIDE DEF b, p
  <2> QED BY <1>5, <1>6, <1>7 DEF Runs, count
<1> QED BY <1>8

(* The step of a probe after which perturb has become zero.                 *)
SettledAt == (HASH_BITS + 10) \div 11

(* perturb shrinks to zero: after SettledAt steps the probe is a pure       *)
(* generator modulo the number of bins.                                     *)
LEMMA PerturbVanishes ==
  ASSUME NEW hash \in Hashes, NEW power \in MINIMAL_POWER2 .. MAX_POWER2,
         NEW b, NEW p, Runs(b, p, hash, power)
  PROVE  /\ SettledAt \in Nat
         /\ \A n \in Nat : SettledAt <= n => p[n] = 0
<1> DEFINE Exp(n) == IF 11 * n <= HASH_BITS THEN HASH_BITS - 11 * n ELSE 0
           T == {n \in Nat : p[n] < Pow2[Exp(n)]}
<1>0. HASH_BITS \in Nat /\ SettledAt \in Nat /\ 11 * SettledAt >= HASH_BITS
  BY StorageConstants DEF SettledAt
<1>1. p \in [Nat -> Nat] /\ \A n \in Nat : p[n + 1] = p[n] \div 2048
  <2>1. p \in [Nat -> Nat]
    BY Zenon DEF Runs
  <2>2. \A n \in Nat : p[n + 1] = p[n] \div 2048
    BY SMT DEF Runs
  <2> QED BY Zenon, <2>1, <2>2
<1>3. p[0] = hash /\ hash \in Nat /\ hash < Pow2[HASH_BITS]
  <2>1. p[0] = hash
    BY DEF Runs
  <2>2. hash \in 0 .. RESERVED_HASH
    BY DoHash DEF Hashes
  <2>3. Pow2[HASH_BITS] \in Nat
    BY <1>0, Pow2Def
  <2> QED BY <2>1, <2>2, <2>3 DEF RESERVED_HASH
<1>4. 0 \in T
  BY <1>0, <1>3
<1>5. ASSUME NEW n \in T PROVE n + 1 \in T
  <2> DEFINE e == Exp(n)
             f == Exp(n + 1)
  <2>1. n \in Nat /\ p[n] \in Nat /\ p[n] < Pow2[e] /\ p[n + 1] = p[n] \div 2048
    BY <1>1
  <2>2. CASE e >= 11
    <3>1. f \in Nat /\ f = e - 11 /\ f + 11 = e
      BY <1>0, <2>1, <2>2
    <3> HIDE DEF e, f
    <3>2. Pow2[e] = 2048 * Pow2[f] /\ Pow2[f] \in Nat
      <4>1. Pow2[f + 11] = 2048 * Pow2[f]
        BY <3>1, Pow2Eleven
      <4>2. Pow2[f] \in Nat
        BY <3>1, Pow2Def
      <4> QED BY <3>1, <4>1, <4>2
    <3>3. p[n] \div 2048 < Pow2[f]
      BY <2>1, <3>2
    <3> QED BY <2>1, <3>3 DEF f
  <2>3. CASE e < 11
    <3>1. e \in 0 .. 10 /\ f = 0 /\ e \in Nat
      BY <1>0, <2>1, <2>3
    <3> HIDE DEF e, f
    <3>2. Pow2[e] < 2048 /\ Pow2[e] \in Nat
      <4>1. Pow2[0 + 11] = 2048 * Pow2[0] /\ Pow2[0] = 1
        BY Pow2Eleven, Pow2Def
      <4>2. 2 * Pow2[e] <= Pow2[11]
        BY <3>1, Pow2Grows
      <4>3. Pow2[e] \in Nat
        BY <3>1, Pow2Def
      <4> QED BY <4>1, <4>2, <4>3
    <3>3. p[n] \div 2048 = 0
      BY <2>1, <3>2
    <3>4. Pow2[f] = 1
      BY <3>1, Pow2Def
    <3> QED BY <2>1, <3>3, <3>4 DEF f
  <2>4. e \in Int
    BY <1>0, <2>1
  <2> QED BY <2>2, <2>3, <2>4
<1>6. T = Nat
  <2>1. T \subseteq Nat
    OBVIOUS
  <2> HIDE DEF T
  <2> QED BY <1>4, <1>5, <2>1, InductiveSet
<1>7. ASSUME NEW n \in Nat, SettledAt <= n PROVE p[n] = 0
  <2>1. Exp(n) = 0
    BY <1>0, <1>7
  <2>2. p[n] < Pow2[0]
    BY <1>6, <2>1
  <2> QED BY <1>1, <2>2, Pow2Def
<1> QED BY <1>0, <1>7

(* A value of the generator and its residue, which the probe holds.         *)
Congruent(x, r, count) == \E q \in Int : x = r + count * q

(* Residues of one value, both below the modulus, are the same.             *)
LEMMA OneResidue ==
  ASSUME NEW count \in Nat \ {0}, NEW x \in Int,
         NEW r \in 0 .. count - 1, NEW s \in 0 .. count - 1,
         Congruent(x, r, count), Congruent(x, s, count)
  PROVE  r = s
<1>1. PICK q \in Int : x = r + count * q
  BY DEF Congruent
<1>2. PICK k \in Int : x = s + count * k
  BY DEF Congruent
<1>3. r - s = count * (k - q)
  BY <1>1, <1>2
<1>4. CASE k > q
  <2>1. count * (k - q) >= count
    BY <1>4
  <2> QED BY <1>3, <2>1
<1>5. CASE k < q
  <2>1. count * (k - q) <= - count
    BY <1>5
  <2> QED BY <1>3, <2>1
<1>6. CASE k = q
  <2>1. count * q \in Int
    OBVIOUS
  <2> QED BY <1>1, <1>2, <1>6, <2>1
<1> QED BY <1>4, <1>5, <1>6

(* The comment on secondary_hash promises a full cycle: for every hash, and *)
(* whatever its perturbation did first, the probing loops visit every bin.  *)
THEOREM ProbeVisitsEveryBin ==
  ASSUME NEW hash \in Hashes, NEW power \in MINIMAL_POWER2 .. MAX_POWER2,
         NEW bin \in 0 .. Pow2[power + 1] - 1
  PROVE  \E n \in ProbeSteps(power) : ProbePath[hash][power][n] = bin
<1> DEFINE count == Pow2[power + 1]
           R == 0 .. count - 1
           s == SettledAt
<1>0. power + 1 \in Nat /\ count \in Nat \ {0} /\ R \in SUBSET Nat
  <2>1. power + 1 \in Nat
    BY StorageConstants
  <2> QED BY <2>1, Pow2Def
<1>1. PICK b, p : Runs(b, p, hash, power)
  BY ProbeRuns
<1>2. s \in Nat /\ \A n \in Nat : s <= n => p[n] = 0
  BY <1>1, PerturbVanishes
<1>3. /\ b \in [Nat -> R]
      /\ \A n \in Nat : b[n + 1] = (5 * b[n] + p[n + 1] + 1) % count
      /\ ProbePath[hash][power] = [n \in ProbeSteps(power) |-> b[n]]
      /\ ProbeSteps(power) = 0 .. s + count
  <2>1. b \in [Nat -> R]
    BY <1>1 DEF Runs
  <2>2. \A n \in Nat : b[n + 1] = (5 * b[n] + p[n + 1] + 1) % count
    <3> SUFFICES ASSUME NEW n \in Nat PROVE b[n + 1] = (5 * b[n] + p[n + 1] + 1) % count
      OBVIOUS
    <3> QED BY <1>1 DEF Runs
  <2>3. ProbePath[hash][power] = [n \in ProbeSteps(power) |-> b[n]]
    BY <1>1, Zenon DEF Runs
  <2>4. ProbeSteps(power) = 0 .. s + count
    BY DEF ProbeSteps, SettledAt
  <2> QED BY <2>1, <2>2, <2>3, <2>4
<1>7. bin \in Nat /\ bin \in R
  BY <1>0
<1> HIDE DEF s, R
<1>5. PICK y : Generates(y) /\ y[0] = b[s]
  <2> DEFINE F == [x \in Nat \X Nat |-> 5 * x[2] + 1]
  <2>1. F \in [Nat \X Nat -> Nat] /\ \A n, v \in Nat : F[<<n, v>>] = 5 * v + 1
    OBVIOUS
  <2> HIDE DEF F
  <2>2. b[s] \in Nat
    BY <1>0, <1>2, <1>3
  <2>3. PICK f : Unfolds(f, Nat, b[s], F)
    BY <2>1, <2>2, RecursionExists
  <2>4. Generates(f) /\ f[0] = b[s]
    BY <2>1, <2>3 DEF Unfolds, Generates
  <2> QED BY <2>4
<1>8. PICK n \in 0 .. count - 1, q \in Int : y[n] = bin + count * q
  <2>1. MeetsResidue(y, power + 1, bin)
    BY <1>0, <1>5, <1>7, FullCycle
  <2> QED BY <2>1 DEF MeetsResidue
<1> HIDE DEF count
<1>4. ASSUME NEW i \in Nat, s <= i
      PROVE  b[i + 1] = (5 * b[i] + 1) % count
  <2>0. i + 1 \in Nat /\ s <= i + 1
    BY <1>2, <1>4
  <2>1. p[i + 1] = 0 /\ b[i] \in Nat
    BY <1>0, <1>2, <1>3, <2>0
  <2>2. 5 * b[i] + p[i + 1] + 1 = 5 * b[i] + 1
    BY <2>1
  <2> QED BY <1>3, <2>2
<1>6. \A m \in Nat : Congruent(y[m], b[s + m], count)
  <2> DEFINE T == {m \in Nat : Congruent(y[m], b[s + m], count)}
  <2>1. 0 \in T
    <3>0. b[s] \in Nat
      BY <1>0, <1>2, <1>3
    <3>1. s + 0 = s /\ b[s] = b[s] + count * 0
      BY <1>0, <1>2, <3>0
    <3> QED BY <1>5, <3>1 DEF Congruent
  <2>2. ASSUME NEW m \in T PROVE m + 1 \in T
    <3>1. PICK k \in Int : y[m] = b[s + m] + count * k
      BY <2>2 DEF Congruent
    <3> DEFINE x == b[s + m]
               z == b[s + (m + 1)]
               d == (5 * x + 1) \div count
    <3>2. m \in Nat /\ s + m \in Nat /\ s <= s + m /\ (s + m) + 1 = s + (m + 1)
      BY <1>2, <2>2
    <3>3. z = (5 * x + 1) % count /\ x \in Nat
      <4>1. b[(s + m) + 1] = (5 * b[s + m] + 1) % count
        BY <1>4, <3>2
      <4>2. b[s + m] \in Nat
        BY <1>0, <1>3, <3>2
      <4> QED BY <3>2, <4>1, <4>2
    <3> HIDE DEF x, z
    <3>4. d \in Int /\ 5 * x + 1 = z + count * d
      BY <1>0, <3>3
    <3>5. y[m + 1] = 5 * (x + count * k) + 1
      BY <1>5, <3>1, <3>2 DEF Generates, x
    <3> HIDE DEF d
    <3>6. 5 * (x + count * k) + 1 = (5 * x + 1) + count * (5 * k)
      BY <1>0, <3>3
    <3>7. (z + count * d) + count * (5 * k) = z + count * (d + 5 * k)
      <4>1. z \in Int
        BY <1>0, <3>3
      <4> QED BY <1>0, <3>4, <4>1
    <3>8. d + 5 * k \in Int
      BY <3>4
    <3>9. y[m + 1] = z + count * (d + 5 * k)
      BY <3>4, <3>5, <3>6, <3>7
    <3> QED BY <3>2, <3>8, <3>9 DEF Congruent, z
  <2>3. T \subseteq Nat
    OBVIOUS
  <2> HIDE DEF T
  <2>4. T = Nat
    BY <2>1, <2>2, <2>3, InductiveSet
  <2> QED BY <2>4 DEF T
<1>10. s + n \in 0 .. s + count /\ s + n \in Nat /\ n \in Nat /\ y[n] \in Int
  BY <1>0, <1>2, <1>5 DEF Generates
<1>11. b[s + n] = bin
  <2>1. Congruent(y[n], bin, count) /\ Congruent(y[n], b[s + n], count)
    BY <1>6, <1>8, <1>10 DEF Congruent
  <2>2. b[s + n] \in 0 .. count - 1 /\ bin \in 0 .. count - 1
    BY <1>3, <1>7, <1>10 DEF R
  <2> QED BY <1>0, <1>10, <2>1, <2>2, OneResidue
<1> QED BY <1>3, <1>10, <1>11

-----------------------------------------------------------------------------
(* One bin is empty, and an entry put in its insertion bin is found again. *)

UsedBins(bins) == {b \in DOMAIN bins : bins[b] # EMPTY_BIN}

(* At most n bins are used.                                                 *)
UsesAtMost(bins, n) == Cardinality(UsedBins(bins)) <= n

(* The probe for hash meets value, and no empty bin before it.              *)
Reaches(bins, power, hash, value) ==
  \E n \in ProbeSteps(power) :
    /\ bins[ProbePath[hash][power][n]] = value
    /\ \A m \in 0 .. n - 1 : bins[ProbePath[hash][power][m]] # EMPTY_BIN

(* No probe loses what it meets when bins become after.                     *)
KeepsReached(bins, after, power) ==
  \A h \in Hashes, v \in Nat :
    v >= ENTRY_BASE /\ Reaches(bins, power, h, v) => Reaches(after, power, h, v)

(* What the bins of a table of this power are.                              *)
IsBins(bins, power) == bins \in [0 .. Pow2[power + 1] - 1 -> Nat]

(* The number of bins is a natural, as is every step of a probe.            *)
LEMMA BinsFacts ==
  ASSUME NEW power \in MINIMAL_POWER2 .. MAX_POWER2, NEW bins, IsBins(bins, power)
  PROVE  /\ power \in Nat
         /\ Pow2[power + 1] \in Nat \ {0}
         /\ Pow2[power] \in Nat \ {0}
         /\ Pow2[power + 1] = 2 * Pow2[power]
         /\ DOMAIN bins = 0 .. Pow2[power + 1] - 1
         /\ IsFiniteSet(DOMAIN bins)
         /\ Cardinality(DOMAIN bins) = Pow2[power + 1]
         /\ IsFiniteSet(UsedBins(bins))
         /\ Cardinality(UsedBins(bins)) \in Nat
         /\ ProbeSteps(power) \in SUBSET Nat
<1>1. power \in Nat
  BY StorageConstants
<1>2. Pow2[power + 1] \in Nat \ {0} /\ Pow2[power] \in Nat \ {0}
      /\ Pow2[power + 1] = 2 * Pow2[power]
  BY <1>1, Pow2Def
<1>3. DOMAIN bins = 0 .. Pow2[power + 1] - 1
  BY DEF IsBins
<1>4. IsFiniteSet(DOMAIN bins) /\ Cardinality(DOMAIN bins) = Pow2[power + 1]
  <2> DEFINE c == Pow2[power + 1]
  <2>1. c \in Nat /\ c - 1 \in Int /\ 0 \in Int /\ c > 0
    BY <1>2
  <2> HIDE DEF c
  <2>2. IsFiniteSet(0 .. c - 1) /\ Cardinality(0 .. c - 1) = c
    BY <2>1, FS_Interval
  <2> QED BY <1>3, <2>2 DEF c
<1>5. IsFiniteSet(UsedBins(bins)) /\ Cardinality(UsedBins(bins)) \in Nat
  <2>1. UsedBins(bins) \in SUBSET DOMAIN bins
    BY DEF UsedBins
  <2> QED BY <1>4, <2>1, FS_Subset, FS_CardinalityType
<1>6. ProbeSteps(power) \in SUBSET Nat
  BY DEF ProbeSteps
<1> QED BY <1>1, <1>2, <1>3, <1>4, <1>5, <1>6

(* The steps of a probe before one of its steps.                            *)
LEMMA StepsBefore ==
  ASSUME NEW power \in MINIMAL_POWER2 .. MAX_POWER2
  PROVE  \A n \in ProbeSteps(power) :
           n \in Nat /\ \A m \in 0 .. n - 1 : m \in ProbeSteps(power)
<1> DEFINE last == (HASH_BITS + 10) \div 11 + Pow2[power + 1]
<1>1. power + 1 \in Nat /\ HASH_BITS \in Nat
  BY StorageConstants
<1>2. last \in Nat
  BY <1>1, Pow2Def
<1>3. ProbeSteps(power) = 0 .. last
  BY DEF ProbeSteps
<1> HIDE DEF last
<1> QED BY <1>2, <1>3

(* The loops of the binned searches end: fewer bins are used than there     *)
(* are, so that every probe meets an empty one.                             *)
LEMMA EmptyBinMet ==
  ASSUME NEW power \in MINIMAL_POWER2 .. MAX_POWER2, NEW bins, IsBins(bins, power),
         NEW n \in Nat, n < Pow2[power + 1], UsesAtMost(bins, n), NEW hash \in Hashes
  PROVE  StepsAt(bins, power, hash, EMPTY_BIN) # {}
<1>1. PICK b \in DOMAIN bins : b \notin UsedBins(bins)
  <2> SUFFICES ASSUME \A b \in DOMAIN bins : b \in UsedBins(bins) PROVE FALSE
    OBVIOUS
  <2>1. UsedBins(bins) = DOMAIN bins
    BY DEF UsedBins
  <2>2. Cardinality(UsedBins(bins)) = Pow2[power + 1] /\ Pow2[power + 1] \in Nat
    BY <2>1, BinsFacts
  <2> QED BY <2>2 DEF UsesAtMost
<1>2. bins[b] = EMPTY_BIN /\ b \in 0 .. Pow2[power + 1] - 1
  BY <1>1, BinsFacts DEF UsedBins
<1>3. PICK k \in ProbeSteps(power) : ProbePath[hash][power][k] = b
  BY <1>2, ProbeVisitsEveryBin
<1> QED BY <1>2, <1>3 DEF StepsAt

(* An entry of this hash is indexed at step n of its probe: nothing before  *)
(* it ends the probe.                                                       *)
InsertsAt(n, bins, power, hash) ==
  LET path == ProbePath[hash][power]
  IN  /\ find_insertion_bin(bins, power, hash) = path[n]
      /\ path[n] \in DOMAIN bins
      /\ bins[path[n]] \in {EMPTY_BIN, DELETED_BIN}
      /\ \A m \in 0 .. n - 1 : bins[path[m]] # EMPTY_BIN

(* find_insertion_bin: an empty or deleted bin of the probe for the hash    *)
(* with no empty bin before it.                                             *)
LEMMA InsertionBin ==
  ASSUME NEW power \in MINIMAL_POWER2 .. MAX_POWER2, NEW bins, IsBins(bins, power),
         NEW hash \in Hashes, StepsAt(bins, power, hash, EMPTY_BIN) # {}
  PROVE  \E n \in ProbeSteps(power) : InsertsAt(n, bins, power, hash)
<1> DEFINE path == ProbePath[hash][power]
           E == StepsAt(bins, power, hash, EMPTY_BIN)
           empty == Min(E)
           deleted == {n \in StepsAt(bins, power, hash, DELETED_BIN) : n < empty}
           stop == IF deleted = {} THEN empty ELSE Min(deleted)
<1>1. ProbeSteps(power) \in SUBSET Nat /\ E \in SUBSET Nat /\ deleted \in SUBSET Nat
  BY BinsFacts DEF StepsAt
<1>2. empty \in E /\ \A k \in E : empty <= k
  BY <1>1, MinNat
<1>3. stop \in ProbeSteps(power) /\ stop <= empty /\ bins[path[stop]] \in {EMPTY_BIN, DELETED_BIN}
  <2>1. CASE deleted = {}
    <3>1. stop = empty
      BY <2>1
    <3> HIDE DEF stop, empty
    <3> QED BY <1>1, <1>2, <3>1 DEF StepsAt
  <2>2. CASE deleted # {}
    <3>1. stop = Min(deleted) /\ Min(deleted) \in deleted
      BY <1>1, <2>2, MinNat
    <3> HIDE DEF stop, empty
    <3>2. stop \in deleted
      BY <3>1
    <3> QED BY <1>1, <1>2, <3>2 DEF StepsAt
  <2> QED BY <2>1, <2>2
<1>4. find_insertion_bin(bins, power, hash) = path[stop]
  BY DEF find_insertion_bin
<1> HIDE DEF stop, empty
<1>5. ASSUME NEW m \in 0 .. stop - 1 PROVE bins[path[m]] # EMPTY_BIN
  <2>1. stop \in Nat /\ empty \in Nat
    BY <1>1, <1>2, <1>3
  <2>2. m \in ProbeSteps(power) /\ m < empty
    BY <1>3, <2>1, StepsBefore
  <2>3. m \notin E
    BY <1>2, <2>1, <2>2
  <2> QED BY <2>2, <2>3 DEF StepsAt
<1>6. path[stop] \in DOMAIN bins
  <2>1. path \in [ProbeSteps(power) -> 0 .. Pow2[power + 1] - 1]
    BY ProbePathType
  <2>2. DOMAIN bins = 0 .. Pow2[power + 1] - 1
    BY BinsFacts
  <2> HIDE DEF path
  <2> QED BY <1>3, <2>1, <2>2
<1>7. InsertsAt(stop, bins, power, hash)
  BY Zenon, <1>3, <1>4, <1>5, <1>6 DEF InsertsAt
<1> QED BY Zenon, <1>3, <1>7

(* Writing a value to the insertion bin of a hash: the probe for the hash   *)
(* meets it, no other probe loses what it met, and one more bin is used.    *)
LEMMA FillsInsertionBin ==
  ASSUME NEW power \in MINIMAL_POWER2 .. MAX_POWER2, NEW bins, IsBins(bins, power),
         NEW hash \in Hashes, StepsAt(bins, power, hash, EMPTY_BIN) # {},
         NEW value \in Nat, value >= ENTRY_BASE, NEW after,
         after = [bins EXCEPT ![find_insertion_bin(bins, power, hash)] = value]
  PROVE  /\ IsBins(after, power)
         /\ Reaches(after, power, hash, value)
         /\ KeepsReached(bins, after, power)
         /\ \A n \in Nat : UsesAtMost(bins, n) => UsesAtMost(after, n + 1)
<1> DEFINE path == ProbePath[hash][power]
           x == find_insertion_bin(bins, power, hash)
           D == 0 .. Pow2[power + 1] - 1
<1>1. PICK k \in ProbeSteps(power) :
        /\ x = path[k]
        /\ x \in DOMAIN bins
        /\ bins[x] \in {EMPTY_BIN, DELETED_BIN}
        /\ \A m \in 0 .. k - 1 : bins[path[m]] # EMPTY_BIN
  <2>1. \E n \in ProbeSteps(power) : InsertsAt(n, bins, power, hash)
    BY Zenon, InsertionBin
  <2>2. PICK n \in ProbeSteps(power) : InsertsAt(n, bins, power, hash)
    BY Zenon, <2>1
  <2> QED BY <2>2 DEF InsertsAt
<1>2. bins \in [D -> Nat] /\ DOMAIN bins = D
  BY DEF IsBins
<1> HIDE DEF x, path, D
<1>3. after = [bins EXCEPT ![x] = value]
  BY DEF x
<1>4. after \in [D -> Nat] /\ DOMAIN after = D /\ after[x] = value
      /\ \A b \in D : b # x => after[b] = bins[b]
  BY <1>1, <1>2, <1>3
<1>5. \A b \in D : bins[b] # EMPTY_BIN => after[b] # EMPTY_BIN
  BY <1>4 DEF EMPTY_BIN, ENTRY_BASE
<1>6. \A h \in Hashes, m \in ProbeSteps(power) : ProbePath[h][power][m] \in D
  <2> SUFFICES ASSUME NEW h \in Hashes, NEW m \in ProbeSteps(power)
               PROVE  ProbePath[h][power][m] \in D
    OBVIOUS
  <2>1. ProbePath[h][power] \in [ProbeSteps(power) -> D]
    BY ProbePathType DEF D
  <2> QED BY <2>1
<1>7. \A n \in ProbeSteps(power) : \A m \in 0 .. n - 1 : m \in ProbeSteps(power)
  BY StepsBefore
<1>8. Reaches(after, power, hash, value)
  <2>1. \A m \in 0 .. k - 1 : after[path[m]] # EMPTY_BIN
    BY <1>1, <1>5, <1>6, <1>7 DEF path
  <2> QED BY <1>1, <1>4, <2>1 DEF Reaches, path
<1>9. ASSUME NEW h \in Hashes, NEW v \in Nat, v >= ENTRY_BASE, Reaches(bins, power, h, v)
      PROVE  Reaches(after, power, h, v)
  <2> DEFINE other == ProbePath[h][power]
  <2>1. PICK n \in ProbeSteps(power) :
          bins[other[n]] = v /\ \A m \in 0 .. n - 1 : bins[other[m]] # EMPTY_BIN
    BY <1>9 DEF Reaches
  <2>2. other[n] \in D /\ other[n] # x
    <3>1. other[n] \in D
      BY Zenon, <1>6
    <3>2. v \notin {EMPTY_BIN, DELETED_BIN}
      BY <1>9 DEF EMPTY_BIN, DELETED_BIN, ENTRY_BASE
    <3> QED BY Zenon, <1>1, <2>1, <3>1, <3>2
  <2>3. after[other[n]] = v
    BY <1>4, <2>1, <2>2
  <2>4. \A m \in 0 .. n - 1 : after[other[m]] # EMPTY_BIN
    BY <1>5, <1>6, <1>7, <2>1
  <2> QED BY <2>3, <2>4 DEF Reaches
<1>10. ASSUME NEW n \in Nat, UsesAtMost(bins, n) PROVE UsesAtMost(after, n + 1)
  <2>1. UsedBins(after) \in SUBSET (UsedBins(bins) \cup {x})
    BY <1>2, <1>4 DEF UsedBins
  <2>2. IsFiniteSet(UsedBins(bins)) /\ Cardinality(UsedBins(bins)) \in Nat
    BY BinsFacts
  <2>3. IsFiniteSet(UsedBins(bins) \cup {x})
        /\ Cardinality(UsedBins(bins) \cup {x}) <= Cardinality(UsedBins(bins)) + 1
    <3>1. CASE x \in UsedBins(bins)
      <4>1. UsedBins(bins) \cup {x} = UsedBins(bins)
        BY <3>1
      <4>2. Cardinality(UsedBins(bins)) <= Cardinality(UsedBins(bins)) + 1
        BY <2>2
      <4> QED BY <2>2, <4>1, <4>2, Zenon
    <3>2. CASE x \notin UsedBins(bins)
      <4>1. /\ IsFiniteSet(UsedBins(bins) \cup {x})
            /\ Cardinality(UsedBins(bins) \cup {x}) = Cardinality(UsedBins(bins)) + 1
        BY <2>2, <3>2, FS_AddElement
      <4> QED BY <2>2, <4>1
    <3> QED BY <3>1, <3>2
  <2>4. /\ Cardinality(UsedBins(after)) <= Cardinality(UsedBins(bins) \cup {x})
        /\ IsFiniteSet(UsedBins(after))
    BY <2>1, <2>3, FS_Subset
  <2>5. Cardinality(UsedBins(after)) \in Nat /\ Cardinality(UsedBins(bins) \cup {x}) \in Nat
    BY <2>3, <2>4, FS_CardinalityType
  <2> QED BY <1>10, <2>2, <2>3, <2>4, <2>5 DEF UsesAtMost
<1>11. IsBins(after, power)
  BY <1>4 DEF IsBins, D
<1>12. KeepsReached(bins, after, power)
  BY <1>9 DEF KeepsReached
<1> QED BY <1>8, <1>10, <1>11, <1>12

(* The bins of n entries: each is reached by the probe for its hash, and no *)
(* more bins are used than there are entries.                               *)
Indexes(bins, power, entries, n) ==
  /\ IsBins(bins, power)
  /\ UsesAtMost(bins, n)
  /\ \A j \in 0 .. n - 1 : Reaches(bins, power, entries[j].hash, j + ENTRY_BASE)

(* Filling the bin of the next entry, in the loop of build_bins.            *)
LEMMA FillBinIndexes ==
  ASSUME NEW power \in MINIMAL_POWER2 .. MAX_POWER2, NEW bins, NEW entries,
         NEW n \in Nat, n < Pow2[power], Indexes(bins, power, entries, n),
         \A j \in 0 .. n : entries[j].hash \in Hashes
  PROVE  Indexes(FillBin(bins, power, entries[n].hash, n), power, entries, n + 1)
<1> DEFINE hash == entries[n].hash
           after == FillBin(bins, power, hash, n)
<1>1. IsBins(bins, power) /\ UsesAtMost(bins, n) /\ hash \in Hashes
  BY DEF Indexes
<1>2. n < Pow2[power + 1]
  BY <1>1, BinsFacts
<1> HIDE DEF hash
<1>3. StepsAt(bins, power, hash, EMPTY_BIN) # {}
  BY <1>1, <1>2, EmptyBinMet
<1>4. (n + ENTRY_BASE) % BinModulus(power) = n + ENTRY_BASE
  <2>1. BinModulus(power) \in Nat /\ n + 2 < BinModulus(power)
    <3>1. Pow2[power] \in Nat
      BY <1>1, BinsFacts
    <3> QED BY <3>1, BinsWideEnough
  <2> QED BY <2>1 DEF ENTRY_BASE
<1>5. after = [bins EXCEPT ![find_insertion_bin(bins, power, hash)] = n + ENTRY_BASE]
  BY <1>4 DEF FillBin, set_bin
<1> HIDE DEF after
<1>6. n + ENTRY_BASE \in Nat /\ n + ENTRY_BASE >= ENTRY_BASE
  BY DEF ENTRY_BASE
<1>7. /\ IsBins(after, power)
      /\ Reaches(after, power, hash, n + ENTRY_BASE)
      /\ KeepsReached(bins, after, power)
      /\ UsesAtMost(after, n + 1)
  BY <1>1, <1>3, <1>5, <1>6, FillsInsertionBin
<1>8. ASSUME NEW j \in 0 .. (n + 1) - 1
      PROVE  Reaches(after, power, entries[j].hash, j + ENTRY_BASE)
  <2>1. CASE j = n
    BY <1>7, <2>1 DEF hash
  <2>2. CASE j # n
    <3>1. j \in 0 .. n - 1 /\ j \in 0 .. n /\ j + ENTRY_BASE \in Nat /\ j + ENTRY_BASE >= ENTRY_BASE
      BY <2>2 DEF ENTRY_BASE
    <3>2. Reaches(bins, power, entries[j].hash, j + ENTRY_BASE) /\ entries[j].hash \in Hashes
      BY <3>1 DEF Indexes
    <3> QED BY <1>7, <3>1, <3>2 DEF KeepsReached
  <2> QED BY <2>1, <2>2
<1> QED BY <1>7, <1>8 DEF Indexes, after, hash

(* build_bins makes every entry of a rebuilt table reachable.               *)
LEMMA BuildBinsIndexes ==
  ASSUME NEW power \in MINIMAL_POWER2 .. MAX_POWER2, power > MAX_POWER2_WITHOUT_BINS,
         NEW entries, NEW bound \in Nat, bound <= Pow2[power],
         \A j \in 0 .. bound - 1 : entries[j].hash \in Hashes
  PROVE  Indexes(build_bins(power, entries, bound), power, entries, bound)
<1>0. power \in Nat /\ Pow2[power] \in Nat /\ Pow2[power + 1] \in Nat
  <2>1. power \in Nat /\ power + 1 \in Nat
    BY StorageConstants
  <2> QED BY <2>1, Pow2Def
<1>1. PICK filled : BuildsBins(filled, power, entries, bound)
  BY <1>0, FilledUnfolds
<1>2. BinsCount(power) = Pow2[power + 1]
  BY DEF BinsCount
<1>3. filled[0] = initialize_bins(power) /\ build_bins(power, entries, bound) = filled[bound]
  BY <1>1 DEF BuildsBins
<1>4. \A h \in Hashes : h # DELETED_HASH
  BY DoHash DEF Hashes
<1>5. ASSUME NEW n \in 0 .. bound - 1
      PROVE  filled[n + 1] = FillBin(filled[n], power, entries[n].hash, n)
  BY <1>1, <1>4 DEF BuildsBins
<1> DEFINE T == {n \in Nat : n <= bound => Indexes(filled[n], power, entries, n)}
<1>6. 0 \in T
  <2> DEFINE b == initialize_bins(power)
             D == 0 .. Pow2[power + 1] - 1
  <2>1. b = [k \in D |-> EMPTY_BIN]
    BY <1>2 DEF initialize_bins
  <2>2. IsBins(b, power) /\ UsedBins(b) = {}
    BY <2>1 DEF IsBins, UsedBins, EMPTY_BIN
  <2>3. UsesAtMost(b, 0)
    BY <2>2, FS_EmptySet DEF UsesAtMost
  <2> HIDE DEF b
  <2>4. Indexes(b, power, entries, 0)
    BY <2>2, <2>3 DEF Indexes
  <2> QED BY <1>3, <2>4 DEF b
<1>7. ASSUME NEW n \in T PROVE n + 1 \in T
  <2> SUFFICES ASSUME n + 1 <= bound PROVE Indexes(filled[n + 1], power, entries, n + 1)
    BY <1>7
  <2>1. n \in Nat /\ n \in 0 .. bound - 1 /\ n < Pow2[power] /\ n <= bound
    BY <1>0, <1>7
  <2>2. Indexes(filled[n], power, entries, n)
    BY <1>7, <2>1
  <2>3. \A j \in 0 .. n : entries[j].hash \in Hashes
    BY <2>1
  <2>4. Indexes(FillBin(filled[n], power, entries[n].hash, n), power, entries, n + 1)
    BY <2>1, <2>2, <2>3, FillBinIndexes
  <2> QED BY <1>5, <2>1, <2>4
<1>8. T = Nat
  <2>1. T \subseteq Nat
    OBVIOUS
  <2> HIDE DEF T
  <2> QED BY <1>6, <1>7, <2>1, InductiveSet
<1>9. Indexes(filled[bound], power, entries, bound)
  BY <1>8
<1> QED BY <1>3, <1>9
=============================================================================
