----------------------------- MODULE HashForeach -----------------------------
(***************************************************************************)
(* Iteration of laserd.hash (library/laserd/hash.d) with callbacks that    *)
(* re-enter the table: st_foreach, st_foreach_check and                    *)
(* st_foreach_with_replace.  Between the call of a callback and its return *)
(* the callback may insert, delete and clear; the loop then decides from   *)
(* rebuilds_num whether its index still means anything.                    *)
(*                                                                         *)
(* The record of an entry is a serial number, fresh for every entry that   *)
(* is added, so that a key deleted and inserted again is told apart.       *)
(***************************************************************************)
EXTENDS HashStorage, Sequences

CONSTANTS
  Variants,  \* the iteration functions that callers use
  MaxOps     \* bound: table operations done before and during iterations

VARIABLES
  tab,     \* the table
  it,      \* the activation of the iteration function
  old,     \* ghost: the serials in the table when the iteration started
  seen,    \* ghost: the serials its callback was given, in order
  strayed, \* ghost: a callback removed its own entry and rebuilt the table
  serial,  \* ghost: the next serial
  left     \* table operations that callers and callbacks still do

vars == <<tab, it, old, seen, strayed, serial, left>>

Idle == [pc |-> "idle"]

Init ==
  /\ tab = EmptyTable(MINIMAL_POWER2)
  /\ it = Idle
  /\ old = {}
  /\ seen = << >>
  /\ strayed = FALSE
  /\ serial = 0
  /\ left = MaxOps

\* Serials of the entries of the table.
Present == {tab.entries[i].record : i \in Live(tab)}

-----------------------------------------------------------------------------
(* The operations that a caller does between iterations, and a callback    *)
(* inside one.                                                             *)

\* An insertion of a key that is present leaves its serial alone, but may
\* rebuild the table all the same.
CallInsert(key) ==
  LET t == ensure_insert_capacity(tab)
      i == find_entry_index(t, do_hash(key), key)
  IN  /\ CanGrow(tab)
      /\ tab' = Inserted(t, key, key, IF i = NO_INDEX THEN serial ELSE t.entries[i].record)
      /\ serial' = IF i = NO_INDEX THEN serial + 1 ELSE serial

CallDelete(key) == tab' = Deleted(tab, key) /\ UNCHANGED serial

CallClear == tab' = Cleared(tab) /\ UNCHANGED serial

Call ==
  /\ it.pc \in {"idle", "callback", "replace", "lost"}
  /\ left > 0
  /\ left' = left - 1
  /\ CallClear \/ \E key \in Key : CallInsert(key) \/ CallDelete(key)
  /\ UNCHANGED <<it, old, seen, strayed>>

-----------------------------------------------------------------------------
(* The loop.                                                               *)

Start(variant) ==
  /\ it.pc = "idle"
  /\ it' = [pc |-> "loop", variant |-> variant, index |-> tab.entries_start]
  /\ old' = Present
  /\ seen' = << >>
  /\ strayed' = FALSE
  /\ UNCHANGED <<tab, serial, left>>

\* The live entries at or after the index.
Ahead == {i \in Live(tab) : i >= it.index}

Finish(ret) == it' = [pc |-> "done", variant |-> it.variant, ret |-> ret]

\* Skip deleted entries; call the callback on the next live one.
Visit ==
  /\ it.pc = "loop"
  /\ IF Ahead = {} THEN Finish("end") /\ UNCHANGED seen
     ELSE LET i == Min(Ahead)
              entry == tab.entries[i]
          IN  /\ it' = [pc |-> "callback", variant |-> it.variant, index |-> i,
                        key |-> entry.key, hash |-> entry.hash,
                        rebuilds |-> tab.rebuilds_num]
              /\ seen' = Append(seen, entry.record)
  /\ UNCHANGED <<tab, old, strayed, serial, left>>

\* Where the current entry is after the callback: after a rebuild it is looked
\* up again by its key.
Refound ==
  IF it.rebuilds = tab.rebuilds_num THEN it.index
  ELSE find_entry_index(tab, it.hash, it.key)

\* Mutant: the index stays on an entry that a rebuild has moved.
Lingers(i) ==
  it' = [pc |-> "loop", variant |-> it.variant,
         index |-> IF it.rebuilds = tab.rebuilds_num THEN i + 1 ELSE i]

\* Mutant: the loop goes on from the index it had before a rebuild.
StaleIndex(i) == it' = [pc |-> "loop", variant |-> it.variant, index |-> it.index + 1]

\* Mutant: the index stays on the entry that was visited.
StaysOnEntry(i) == it' = [pc |-> "loop", variant |-> it.variant, index |-> i]

Continue(i) == it' = [pc |-> "loop", variant |-> it.variant, index |-> i + 1]

\* The callback returns and the loop acts on what it asked for.
Return(action) ==
  /\ it.pc = "callback"
  /\ IF Refound = NO_INDEX
     THEN \* st_foreach leaves the loop; the checked variants report first.
          /\ IF it.variant = "foreach" THEN Finish("end")
             ELSE it' = [pc |-> "lost", variant |-> it.variant]
          /\ UNCHANGED tab
     ELSE CASE action = "ST_STOP" -> Finish("stop") /\ UNCHANGED tab
            [] action = "ST_DELETE" -> Continue(Refound) /\ tab' = Deleted(tab, it.key)
            [] action \in {"ST_CONTINUE", "ST_CHECK"} -> Continue(Refound) /\ UNCHANGED tab
            [] action = "ST_REPLACE" ->
                 /\ IF it.variant = "foreach_with_replace"
                    THEN it' = [pc |-> "replace", variant |-> it.variant, index |-> Refound,
                                key |-> it.key, value |-> tab.entries[Refound].record,
                                rebuilds |-> tab.rebuilds_num]
                    ELSE Finish("error")
                 /\ UNCHANGED tab
  /\ strayed' = (strayed \/ /\ it.rebuilds # tab.rebuilds_num
                            /\ seen[Len(seen)] \notin Present)
  /\ UNCHANGED <<old, seen, serial, left>>

\* Mutant: the entry pointer is written through after a rebuild.
ReplacesUnchecked(action, key) ==
  /\ it.pc = "replace"
  /\ keys_equal(key, it.key)
  /\ Continue(it.index)
  /\ tab' = IF action = "ST_DELETE" THEN Deleted(tab, key)
            ELSE SetRecord(tab, it.index, key, it.value)
  /\ UNCHANGED <<old, seen, strayed, serial, left>>

\* The replace callback returns an equal key, leaving the value alone.
ReplaceReturn(action, key) ==
  /\ it.pc = "replace"
  /\ keys_equal(key, it.key)
  /\ IF it.rebuilds # tab.rebuilds_num THEN Finish("error") /\ UNCHANGED tab
     ELSE /\ Continue(it.index)
          /\ tab' = IF action = "ST_DELETE" THEN Deleted(tab, key)
                    ELSE SetRecord(tab, it.index, key, it.value)
  /\ UNCHANGED <<old, seen, strayed, serial, left>>

\* The callback that was told the current entry is lost returns.
LostReturn ==
  /\ it.pc = "lost"
  /\ Finish("error")
  /\ UNCHANGED <<tab, old, seen, strayed, serial, left>>

\* The caller goes on.
Resume ==
  /\ it.pc = "done"
  /\ it' = Idle
  /\ old' = {}
  /\ seen' = << >>
  /\ strayed' = FALSE
  /\ UNCHANGED <<tab, serial, left>>

Actions == {"ST_CONTINUE", "ST_CHECK", "ST_STOP", "ST_DELETE", "ST_REPLACE"}

Loop ==
  \/ Visit
  \/ \E action \in Actions : Return(action)
  \/ \E action \in {"ST_DELETE", "ST_CONTINUE"}, key \in Key : ReplaceReturn(action, key)
  \/ LostReturn

Next == Call \/ (\E variant \in Variants : Start(variant)) \/ Loop \/ Resume

\* A callback returns after finitely many operations, and the loop goes on.
Spec == Init /\ [][Next]_vars /\ WF_vars(Loop)

-----------------------------------------------------------------------------
(* Properties.                                                             *)

\* Whatever callbacks do to the table inside an iteration, deletion,
\* replacement through the cached entry pointer and the loop itself leave it
\* well formed.
TableStaysWellFormed == WellFormed(tab)

\* Entries are handed to the callback in the order of their insertion, none of
\* them twice, whatever its callbacks delete, insert or clear.
VisitsInOrder == \A i, j \in DOMAIN seen : i < j => seen[i] < seen[j]

Visited == {seen[i] : i \in DOMAIN seen}

RanToEnd == it.pc = "done" /\ it.ret = "end"

\* laserd/HASH_PORT_REVIEW.md on a rebuild during iteration: "every surviving
\* entry is still visited exactly once".  The survivors are the entries that
\* were there when the iteration started and still are when it ends.
EverySurvivorVisited == RanToEnd => old \cap Present \subseteq Visited

\* An iteration that runs to its end has visited every entry of the table, the
\* ones its callbacks added included, unless a callback both removed the entry
\* it was called for and rebuilt the table.
AllVisitedUnlessStrayed == RanToEnd /\ ~ strayed => Present \subseteq Visited

\* What an iteration can still do: after an operation of a callback, and after
\* it has looked for its entry again, no more than visit a full table.
WorkPerCall == 3 * Pow2[MAX_POWER2] + 4

Work ==
  LET ahead == Cardinality({i \in 0 .. tab.entries_bound - 1 : i >= it.index})
  IN  left * WorkPerCall +
        CASE it.pc = "loop" -> 3 * ahead + 3
          [] it.pc = "callback" /\ it.rebuilds # tab.rebuilds_num -> WorkPerCall - 1
          [] it.pc = "callback" /\ it.rebuilds = tab.rebuilds_num -> 3 * ahead + 2
          [] it.pc = "replace" -> 3 * ahead + 1
          [] it.pc = "lost" -> 1
          [] OTHER -> 0

\* Every iteration ends, also when its callbacks add entries ahead of the index
\* and rebuild the table: each step leaves less to do, unless it ends it.
IterationEnds == [][it.pc # "idle" /\ it'.pc # "idle" => Work' < Work]_vars
=============================================================================
