------------------------------ MODULE HashTable ------------------------------
(***************************************************************************)
(* The public operations of laserd.hash (library/laserd/hash.d) on one     *)
(* table, called one after the other with callbacks that leave the table   *)
(* alone: the three built-in policies, and custom ones that do not         *)
(* re-enter.  Each operation is one step.  The arena may refuse any block  *)
(* that an operation asks for.                                             *)
(***************************************************************************)
EXTENDS HashStorage, Sequences

CONSTANTS
  NoTable,  \* the null table pointer
  Sizes     \* the sizes callers pass to st_init_table_with_size and st_keys

ASSUME SizesAreWords == Sizes \subseteq Nat

\* A null pointer is not a table.
ASSUME NullIsNoTable == NoTable \notin Tables

VARIABLES
  tab,      \* the table, or NoTable
  out       \* the last call, and what it returned: its int, then its output words

vars == <<tab, out>>

Init == tab = NoTable /\ out = [call |-> << >>, words |-> << >>]

Reply(call, words) == out' = [call |-> call, words |-> words]

\* A call that changes no table.
Returns(call, words) == Reply(call, words) /\ UNCHANGED tab

-----------------------------------------------------------------------------
(* Creating, copying and freeing.                                          *)

\* allocate_table: the header is allocated first, and freed again when the
\* size is out of range or the storage is refused.
st_init_table_with_size(size) ==
  LET power == get_power2(size)
  IN  /\ tab = NoTable
      /\ \/ Returns(<<"create">>, <<0>>)
         \/ /\ power # ST_ERROR
            /\ tab' = EmptyTable(power)
            /\ Reply(<<"create">>, <<1>>)

\* st_copy, after which the caller frees the original and keeps the copy.  The
\* copy's storage is sized from the capacity of the original, then filled
\* with all the bytes of the original's block.
st_copy ==
  LET power == get_power2(allocated_entries(tab) - 1)
  IN  \/ Returns(<<"copy">>, <<0>>)
      \/ /\ power # ST_ERROR
         /\ tab' = [tab EXCEPT !.entry_power = power]
         /\ Reply(<<"copy">>, <<1>>)

st_free_table == tab' = NoTable /\ Reply(<<"free">>, << >>)

-----------------------------------------------------------------------------
(* Inserting.  st_insert2 passes a new key through a transform callback,   *)
(* which returns an equal key; st_insert stores the key it was given.      *)

Inserts(call, key, stored, value) ==
  \/ GrowthMayFail(tab) /\ Returns(call, <<ST_ERROR>>)
  \/ LET t == ensure_insert_capacity(tab)
     IN  /\ CanGrow(tab)
         /\ tab' = Inserted(t, key, stored, value)
         /\ Reply(call, <<IF find_entry_index(t, do_hash(key), key) = NO_INDEX THEN 0 ELSE 1>>)

st_insert2(key, stored, value) == Inserts(<<"insert", key, stored, value>>, key, stored, value)

st_insert(key, value) == st_insert2(key, key, value)

\* The caller knows that key is absent.
st_add_direct(key, value) ==
  /\ find_entry_index(tab, do_hash(key), key) = NO_INDEX
  /\ \/ GrowthMayFail(tab) /\ Returns(<<"insert", key, key, value>>, <<ST_ERROR>>)
     \/ LET t == ensure_insert_capacity(tab)
            hash == do_hash(key)
        IN  /\ CanGrow(tab)
            /\ tab' = AppendEntry(t, hash, key, value, ReservedBin(t, hash))
            /\ Reply(<<"insert", key, key, value>>, <<0>>)

-----------------------------------------------------------------------------
(* Deleting.                                                               *)

\* The words st_delete(key) returns.
DeleteWords(t, key) ==
  LET i == find_entry_index(t, do_hash(key), key)
  IN  IF i = NO_INDEX THEN <<0, key, 0>>
      ELSE <<1, t.entries[i].key, t.entries[i].record>>

Deletes(call, key) == tab' = Deleted(tab, key) /\ Reply(call, DeleteWords(tab, key))

st_delete(key) == Deletes(<<"delete", key>>, key)

st_shift ==
  IF tab.num_entries = 0 THEN Returns(<<"shift">>, <<0, 0>>)
  ELSE Deletes(<<"shift">>, tab.entries[tab.entries_start].key)

st_clear == tab' = Cleared(tab) /\ Reply(<<"clear">>, << >>)

-----------------------------------------------------------------------------
(* Updating through a callback, which may set the key to an equal one, set *)
(* the value, and returns ST_DELETE, ST_STOP or another action.            *)

st_update(key, stored, value, action) ==
  LET i == find_entry_index(tab, do_hash(key), key)
      existing == IF i = NO_INDEX THEN 0 ELSE 1
      call == <<"update", key, stored, value, action>>
  IN  CASE action = "ST_DELETE" ->
             /\ tab' = IF i = NO_INDEX THEN tab ELSE Deleted(tab, key)
             /\ Reply(call, <<existing>>)
        [] action = "ST_STOP" -> Returns(call, <<existing>>)
        [] action = "ST_CONTINUE" ->
             IF i = NO_INDEX THEN Inserts(call, stored, stored, value)
             ELSE /\ tab' = SetRecord(tab, i, stored, value)
                  /\ Reply(call, <<1>>)

-----------------------------------------------------------------------------
(* Reading.                                                                *)

\* st_lookup and st_get_key: the record and the stored key.
st_lookup(key) ==
  LET i == find_entry_index(tab, do_hash(key), key)
  IN  Returns(<<"lookup", key>>,
              IF i = NO_INDEX THEN <<0>> ELSE <<1, tab.entries[i].key, tab.entries[i].record>>)

st_table_size == Returns(<<"size">>, <<tab.num_entries>>)

\* The first size live entries, or all of them.
Exported(t, size) ==
  1 .. (IF size < Cardinality(Live(t)) THEN size ELSE Cardinality(Live(t)))

st_keys(size) ==
  Returns(<<"keys", size>>, [n \in Exported(tab, size) |-> LiveEntries(tab)[n - 1].key])

st_values(size) ==
  Returns(<<"values", size>>, [n \in Exported(tab, size) |-> LiveEntries(tab)[n - 1].record])

-----------------------------------------------------------------------------
Create == \E size \in Sizes : st_init_table_with_size(size)

Insert == \E key, stored \in Key, value \in Value :
            /\ keys_equal(key, stored)
            /\ \/ stored # key /\ st_insert2(key, stored, value)
               \/ stored = key /\ st_insert(key, value)
               \/ stored = key /\ st_add_direct(key, value)

Update == \E key, stored \in Key, value \in Value,
             action \in {"ST_CONTINUE", "ST_STOP", "ST_DELETE"} :
            /\ keys_equal(key, stored)
            /\ st_update(key, stored, value, action)

Delete == \E key \in Key : st_delete(key)

Read == \/ \E key \in Key : st_lookup(key)
        \/ st_table_size
        \/ \E size \in Sizes : st_keys(size) \/ st_values(size)

Next ==
  \/ Create
  \/ /\ tab # NoTable
     /\ \/ st_copy \/ st_free_table \/ Insert \/ Update
        \/ Delete \/ st_shift \/ st_clear \/ Read

Spec == Init /\ [][Next]_vars

-----------------------------------------------------------------------------
(* What makes a table correct.                                             *)

\* Every field stays in its range: no entry is written past the allocated
\* entries, and no bin value is truncated by the width of a packed bin.
TypeOK == tab = NoTable \/ TableType(tab)

\* st_shift relies on it: entries_start is the oldest entry of a table that is
\* not empty, after any mix of deletions, rebuilds and insertions.
OldestAtStart == tab # NoTable => CountsLive(tab)

\* The bins stay an index of the live entries: what build_bins, insertion into
\* a deleted bin and deletion leave behind never names a dead or moved entry.
BinsIndexLive == tab # NoTable => BinsSound(tab)

\* Every binned or linear search for a key in the table finds its entry, and
\* no key is in the table twice: st_insert never adds a second entry for a
\* key that a deleted bin or a rebuild has hidden from its search.  The loops
\* of the binned searches, which have no bound, end for every hash: some bin on
\* the path is empty, as the comment on secondary_hash promises.
EveryProbeWorks ==
  tab # NoTable =>
    /\ KeysDistinct(tab)
    /\ \A i \in Live(tab) :
         find_entry_index(tab, tab.entries[i].hash, tab.entries[i].key) = i
    /\ has_bins(tab) =>
         \A key \in Key :
           StepsAt(tab.bins, tab.entry_power, do_hash(key), EMPTY_BIN) # {}

\* The table implements the insertion-ordered map of docs/hash.md: what every
\* call returns and every later call sees, across growth, compaction, reuse
\* of deleted bins and failed allocations.
AsMap == INSTANCE OrderedMap WITH
  exists <- tab # NoTable,
  map <- IF tab = NoTable THEN << >> ELSE Contents(tab)

ImplementsOrderedMap == AsMap!Spec
=============================================================================
