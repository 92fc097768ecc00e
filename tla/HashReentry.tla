----------------------------- MODULE HashReentry -----------------------------
(***************************************************************************)
(* The searching operations of laserd.hash (library/laserd/hash.d) with    *)
(* policy callbacks that re-enter the table.  A search calls compare on    *)
(* every entry whose hash equals its own and whose key is another word;    *)
(* the hash, transform and update callbacks run at their places in the     *)
(* operation.  While a callback runs it may insert, delete and clear.      *)
(***************************************************************************)
EXTENDS HashStorage, Sequences

CONSTANTS
  Ops,        \* the operations that callers use
  MayMutate,  \* <<op, callback>>: it may leave the table changed, not rebuilt
  MayRebuild, \* <<op, callback>>: it may leave the table rebuilt
  MaxOps      \* bound: operations done by callers and callbacks

VARIABLES
  tab,     \* the table
  call,    \* the activation of the outer operation
  answers, \* ghost: what a lookup of its key could have returned so far
  left     \* operations that callers and callbacks still do

vars == <<tab, call, answers, left>>

Idle == [pc |-> "idle"]

\* The caller has created a table, for any number of entries.
Init ==
  /\ \E power \in MINIMAL_POWER2 .. MAX_POWER2 : tab = EmptyTable(power)
  /\ call = Idle
  /\ answers = {}
  /\ left = MaxOps

\* What st_lookup(key) returns on a table that nobody else touches.
Answer(t, key) ==
  LET i == find_entry_index(t, do_hash(key), key)
  IN  IF i = NO_INDEX THEN <<0>> ELSE <<1, t.entries[i].record>>

-----------------------------------------------------------------------------
(* The operations that a callback, or a caller between calls, does.        *)

Mutated(t) ==
  {Cleared(t)}
    \cup {Deleted(t, key) : key \in Key}
    \cup {Inserted(ensure_insert_capacity(t), key, key, value) :
            key \in IF CanGrow(t) THEN Key ELSE {}, value \in Value}

Callbacks == {"hash", "compare", "transform", "update"}

\* The callback has kept to what it may do.
MayReturn ==
  call.mutated =>
    <<call.op, call.pc>> \in
      IF call.rebuilds = tab.rebuilds_num THEN MayMutate ELSE MayRebuild

\* A callback that is bound to rebuild the table keeps an operation for it.
Mutate ==
  /\ call.pc \in Callbacks => <<call.op, call.pc>> \in MayMutate \cup MayRebuild
  /\ call.pc \in Callbacks \cup {"idle"}
  /\ left > 0
  /\ left' = left - 1
  /\ tab' \in Mutated(tab)
  /\ IF call.pc = "idle" THEN UNCHANGED <<call, answers>>
     ELSE /\ call' = [call EXCEPT !.mutated = TRUE]
          /\ answers' = answers \cup {Answer(tab', call.key)}
          /\ left' = 0 => MayReturn'

-----------------------------------------------------------------------------
(* An operation starts by hashing its key.                                 *)

\* The callback at pc starts.
Enter(pc, c) == [c EXCEPT !.pc = pc, !.rebuilds = tab.rebuilds_num, !.mutated = FALSE]

\* st_add_direct makes room before it hashes; the others hash first.
Begin(op, key, value) ==
  LET c == [pc |-> "hash", op |-> op, key |-> key, value |-> value, at |-> 0,
            bound |-> 0, free |-> NO_INDEX, found |-> NO_INDEX,
            equal |-> FALSE, rebuilds |-> 0, mutated |-> FALSE]
      t == IF op = "add_direct" THEN ensure_insert_capacity(tab) ELSE tab
  IN  /\ call.pc = "idle"
      /\ left > 0
      /\ left' = left - 1
      /\ op = "add_direct" => CanGrow(tab) /\ Answer(tab, key) = <<0>>
      /\ tab' = t
      /\ call' = [c EXCEPT !.rebuilds = t.rebuilds_num]
      /\ answers' = {Answer(tab, key)}

Done(ret) ==
  call' = [pc |-> "done", op |-> call.op, key |-> call.key, value |-> call.value, ret |-> ret]

Goto(pc) == call' = [call EXCEPT !.pc = pc]

Hash == do_hash(call.key)

HashReturn ==
  /\ call.pc = "hash" /\ MayReturn
  /\ IF call.op = "add_direct" THEN Goto("append") ELSE Goto("start")
  /\ UNCHANGED <<tab, answers, left>>

-----------------------------------------------------------------------------
(* The search loops.  at is the probe step of a binned search, the index   *)
(* of a linear one, whose bound is read once; free is the first deleted    *)
(* bin that find_entry_and_reserve met.                                    *)

Inserting == call.op \in {"insert", "insert2"}

\* Mutant: a retry keeps the bin reserved before the rebuild.
KeepsReserved ==
  /\ call.pc = "start"
  /\ Inserting => CanGrow(tab)
  /\ LET t == IF Inserting THEN ensure_insert_capacity(tab) ELSE tab
     IN  /\ tab' = t
         /\ call' = [call EXCEPT !.pc = "scan",
                       !.at = IF has_bins(t) THEN 0 ELSE t.entries_start,
                       !.bound = t.entries_bound]
  /\ UNCHANGED <<answers, left>>

\* The head of the retry loop: insertions make room on every attempt.
Restart ==
  /\ call.pc = "start"
  /\ Inserting => CanGrow(tab)
  /\ LET t == IF Inserting THEN ensure_insert_capacity(tab) ELSE tab
     IN  /\ tab' = t
         /\ call' = [call EXCEPT !.pc = "scan", !.free = NO_INDEX,
                       !.at = IF has_bins(t) THEN 0 ELSE t.entries_start,
                       !.bound = t.entries_bound]
  /\ UNCHANGED <<answers, left>>

\* Mutant: an insertion that finds no room reports a new entry.
FailsSilently ==
  /\ call.pc = "start" /\ Inserting /\ GrowthMayFail(tab)
  /\ Done(<<0>>)
  /\ UNCHANGED <<tab, answers, left>>

GrowthFails ==
  /\ call.pc = "start" /\ Inserting /\ GrowthMayFail(tab)
  /\ Done(<<ST_ERROR>>)
  /\ UNCHANGED <<tab, answers, left>>

Path == ProbePath[Hash][tab.entry_power]

\* The entry at a probe step or index, if the search looks at one there.
EntryAt(n) ==
  CASE ~ has_bins(tab) -> n
    [] has_bins(tab) /\ tab.bins[Path[n]] >= ENTRY_BASE -> tab.bins[Path[n]] - ENTRY_BASE
    [] OTHER -> NO_INDEX

\* Where the scan stops: at an empty bin, or at an entry with the same hash.
Stops ==
  {n \in IF has_bins(tab) THEN ProbeSteps(tab.entry_power) ELSE 0 .. call.bound - 1 :
     /\ n >= call.at
     /\ \/ has_bins(tab) /\ tab.bins[Path[n]] = EMPTY_BIN
        \/ EntryAt(n) # NO_INDEX /\ tab.entries[EntryAt(n)].hash = Hash}

\* The first deleted bin met up to step n.
FreeAt(n) ==
  LET deleted == {m \in call.at .. n : has_bins(tab) /\ tab.bins[Path[m]] = DELETED_BIN}
  IN  IF call.free # NO_INDEX \/ deleted = {} THEN call.free ELSE Path[Min(deleted)]

\* Scan to the next stop: the key is absent, or compare is called unless the
\* two keys are the same word.
Scan ==
  /\ call.pc = "scan"
  /\ IF Stops = {}
     THEN call' = [call EXCEPT !.pc = "apply", !.found = NO_INDEX]
     ELSE LET n == Min(Stops)
              i == EntryAt(n)
              c == [call EXCEPT !.at = n, !.found = i, !.free = FreeAt(n)]
          IN  IF i = NO_INDEX
              THEN call' = [c EXCEPT !.pc = "apply",
                             !.free = IF c.free = NO_INDEX THEN Path[n] ELSE c.free]
              ELSE IF tab.entries[i].key = call.key
              THEN call' = [c EXCEPT !.pc = "apply"]
              ELSE call' = Enter("compare",
                     [c EXCEPT !.equal = keys_equal(call.key, tab.entries[i].key)])
  /\ UNCHANGED <<tab, answers, left>>

\* Mutant: a rebuild is taken for the end of the search.
GivesUp ==
  /\ call.pc = "compare" /\ MayReturn
  /\ CASE call.rebuilds # tab.rebuilds_num -> call' = [call EXCEPT !.pc = "apply", !.found = NO_INDEX]
       [] call.rebuilds = tab.rebuilds_num /\ call.equal -> Goto("apply")
       [] OTHER -> call' = [call EXCEPT !.pc = "scan", !.at = @ + 1]
  /\ UNCHANGED <<tab, answers, left>>

\* Mutant: a search compares the same entry again and again.
StaysOnEntry ==
  /\ call.pc = "compare" /\ MayReturn
  /\ CASE call.rebuilds # tab.rebuilds_num -> Goto("start")
       [] call.rebuilds = tab.rebuilds_num /\ call.equal -> Goto("apply")
       [] OTHER -> call' = [call EXCEPT !.pc = "scan"]
  /\ UNCHANGED <<tab, answers, left>>

\* entry_matches: a rebuild during compare restarts the operation.
CompareReturn ==
  /\ call.pc = "compare" /\ MayReturn
  /\ CASE call.rebuilds # tab.rebuilds_num -> Goto("start")
       [] call.rebuilds = tab.rebuilds_num /\ call.equal -> Goto("apply")
       [] OTHER -> call' = [call EXCEPT !.pc = "scan", !.at = @ + 1]
  /\ UNCHANGED <<tab, answers, left>>

-----------------------------------------------------------------------------
(* The end of each operation, with what its search reported.               *)

SetsRecord ==
  /\ call.pc = "apply" /\ Inserting /\ call.found # NO_INDEX
  /\ tab' = SetRecord(tab, call.found, tab.entries[call.found].key, call.value)
  /\ Done(<<1>>)
  /\ UNCHANGED <<answers, left>>

Transforms ==
  /\ call.pc = "apply" /\ call.found = NO_INDEX
  /\ \/ call.op = "insert" /\ Goto("append")
     \/ call.op = "insert2" /\ call' = Enter("transform", call)
  /\ UNCHANGED <<tab, answers, left>>

TransformReturn ==
  /\ call.pc = "transform" /\ MayReturn
  /\ Goto("append")
  /\ UNCHANGED <<tab, answers, left>>

\* Mutant: only st_add_direct gives the new entry a bin.
AppendsUnbinned ==
  /\ call.pc = "append"
  /\ tab' = AppendEntry(tab, Hash, call.key, call.value,
              IF call.op = "add_direct" THEN ReservedBin(tab, Hash) ELSE NO_INDEX)
  /\ Done(<<0>>)
  /\ UNCHANGED <<answers, left>>

\* st_add_direct looks for its bin now; the others use the one they reserved.
Appends ==
  /\ call.pc = "append"
  /\ tab' = AppendEntry(tab, Hash, call.key, call.value,
              IF call.op = "add_direct" THEN ReservedBin(tab, Hash)
              ELSE IF has_bins(tab) THEN call.free ELSE NO_INDEX)
  /\ Done(<<0>>)
  /\ UNCHANGED <<answers, left>>

Reads ==
  /\ call.pc = "apply" /\ call.op = "lookup"
  /\ IF call.found = NO_INDEX THEN Done(<<0>>)
     ELSE Done(<<1, tab.entries[call.found].record>>)
  /\ UNCHANGED <<tab, answers, left>>

\* st_delete reads the entry's index from its bin again.  Inside st_update its
\* result is dropped: the entry existed.
Removes ==
  /\ call.pc = "apply" /\ call.op \in {"delete", "update_delete"}
  /\ IF call.found = NO_INDEX
     THEN Done(<<IF call.op = "delete" THEN 0 ELSE 1>>) /\ UNCHANGED tab
     ELSE /\ tab' = IF has_bins(tab) THEN RemoveEntry(tab, EntryAt(call.at), Path[call.at])
                    ELSE RemoveEntry(tab, call.found, NO_INDEX)
          /\ Done(<<1>>)
  /\ UNCHANGED <<answers, left>>

Updates ==
  /\ call.pc = "apply" /\ call.op = "update"
  /\ call' = Enter("update", call)
  /\ UNCHANGED <<tab, answers, left>>

\* The update callback returns, with an equal key for the entry.  A deletion
\* and an insertion hash and search afresh.
UpdateReturn(action, key) ==
  LET existing == IF call.found = NO_INDEX THEN 0 ELSE 1
      again(op, k) == call' = Enter("hash", [call EXCEPT !.op = op, !.key = k])
  IN  /\ call.pc = "update" /\ MayReturn
      /\ keys_equal(key, call.key)
      /\ CASE call.rebuilds # tab.rebuilds_num -> Done(<<ST_ERROR>>) /\ UNCHANGED tab
           [] call.rebuilds = tab.rebuilds_num /\ action = "ST_STOP" ->
                Done(<<existing>>) /\ UNCHANGED tab
           [] call.rebuilds = tab.rebuilds_num /\ action = "ST_DELETE" ->
                /\ IF existing = 1 THEN again("update_delete", call.key) ELSE Done(<<0>>)
                /\ UNCHANGED tab
           [] OTHER ->
                IF existing = 1
                THEN tab' = SetRecord(tab, call.found, key, call.value) /\ Done(<<1>>)
                ELSE again("insert", key) /\ UNCHANGED tab
      /\ UNCHANGED <<answers, left>>

Resume == call.pc = "done" /\ call' = Idle /\ answers' = {} /\ UNCHANGED <<tab, left>>

Step ==
  \/ HashReturn \/ Restart \/ GrowthFails \/ Scan \/ CompareReturn
  \/ SetsRecord \/ Transforms \/ TransformReturn \/ Appends
  \/ Reads \/ Removes \/ Updates
  \/ \E action \in {"ST_CONTINUE", "ST_STOP", "ST_DELETE"}, key \in Key :
       UpdateReturn(action, key)

\* Callers and callbacks have done what they do.
Finished == call.pc = "idle" /\ left = 0 /\ UNCHANGED vars

Next ==
  \/ Mutate
  \/ \E op \in Ops, key \in Key, value \in Value : Begin(op, key, value)
  \/ Step
  \/ Resume
  \/ Finished

\* An operation goes on, a callback returns once it may, and one that must
\* rebuild the table before it returns does so.
Spec ==
  /\ Init /\ [][Next]_vars
  /\ WF_vars(Step)
  /\ WF_vars(call.pc \in Callbacks /\ ~ MayReturn /\ Mutate)

-----------------------------------------------------------------------------
(* Properties.                                                             *)

\* Whenever a callback or a caller can look at it the table is well formed:
\* no search acts on an index or a bin that a callback's rebuild has moved.
TableStaysWellFormed == WellFormed(tab)

\* st_lookup answers with what the table held for its key at some moment of
\* the call, however its callbacks change the table under the search.
LookupLinearizable == call.pc = "done" /\ call.op = "lookup" => call.ret \in answers

\* When st_insert, st_insert2 or st_delete returns after any number of retries
\* its key holds the inserted value, or is gone.
RetryTakesEffect ==
  call.pc = "done" /\ call.ret # <<ST_ERROR>> =>
    /\ call.op \in {"insert", "insert2", "add_direct"} =>
         Answer(tab, call.key) = <<1, call.value>>
    /\ call.op \in {"delete", "update_delete"} => Answer(tab, call.key) = <<0>>

\* hash.d, entry_matches: "A callback is allowed to re-enter the table".  A
\* deletion, and every other operation, still counts every entry once.
ReentryKeepsCount == CountsLive(tab)

\* What an operation can still do: after an operation of a callback no more
\* than one search, or two inside st_update.
WorkPerSearch == 2 * Max(ProbeSteps(MAX_POWER2)) + 10
WorkPerCall == 2 * WorkPerSearch + 4

Work ==
  LET ahead == Max(ProbeSteps(MAX_POWER2)) + 1 - call.at
  IN  left * WorkPerCall +
        (IF call.pc \in {"idle", "done"} THEN 0
         ELSE (IF call.op = "update" THEN WorkPerSearch + 2 ELSE 0) +
              CASE call.pc = "hash" -> WorkPerSearch + 1
                [] call.pc = "start" -> WorkPerSearch
                [] call.pc = "scan" -> 2 * ahead + 5
                [] call.pc = "compare" /\ call.rebuilds # tab.rebuilds_num -> WorkPerSearch + 1
                [] call.pc = "compare" /\ call.rebuilds = tab.rebuilds_num -> 2 * ahead + 4
                [] call.pc = "apply" -> 4
                [] call.pc \in {"transform", "update"} -> 3
                [] call.pc = "append" -> 2)

\* Every operation returns: each step, a retry included, leaves less to do,
\* since only an operation of a callback makes it retry.
OperationReturns == [][call.pc # "idle" /\ call'.pc # "idle" => Work' < Work]_vars
=============================================================================
