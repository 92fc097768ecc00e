# TLA+ models of the Laser-D libraries

This directory holds TLA+ specifications of the run-time libraries of Laser-D
(`library/laserd` and the code below it), the TLC configurations that check them
on small instances, and proofs that TLAPS checks for all values of the constants.

## 1. The system

Laser-D is a restricted D language: a compiler derived from DMD and a set of
libraries that programs link against. The libraries are where programs keep
state at run time, and where the behaviour that is hard to test lies: user
callbacks that re-enter a data structure, storage that moves, allocations that
fail, and threads.

| Component | State | Operations | Interacts with |
| --- | --- | --- | --- |
| `laserd.hash` | `st_table`: an array of entries in insertion order, packed open-addressed bins that index it, counters | create, copy, free; insert, insert2, add_direct, update; delete, shift, clear; lookup, get_key, keys, values; foreach, foreach_check, foreach_with_replace | policy callbacks (hash, compare), transform, update and iteration callbacks, all of which may re-enter the table; the arena |
| `laserd.memory` | `Arena`: a vtable and a context; fixed region (block, offset); bump allocator (list of regions, current region) | alloc, calloc, realloc and their aligned forms, free, expandArray, create, destroy | rpmalloc; every container |
| `laserd.array` | `State`: arena, storage slice, used length, shared by all copies; ranges are index pairs into it | reserve, resize, insert, remove, replace, dup, clear, destroy, slicing | the arena |
| `laserd.rpmalloc` | heaps of threads, pages of a size class, deferred free lists, the pool of heaps | malloc, calloc, free from the owner or from another thread, thread start and end | the operating system |
| `laserd.thread` | Foundation threads; nsync mutexes and condition variables | create, start, join, destroy; lock, shared lock, try; wait, signal, broadcast | the operating system |
| nsync | the word and the queue of a mutex or condition variable, one waiter struct per thread | the above, and waits for conditions on a mutex (`nsync_mu_wait`) | semaphores |
| `laserd.foundation`, `laserd.system` | process-wide initialisation; processes and pipes | | the operating system |
| `laserd.result`, `laserd.typedesc`, `laserd.utf8proc`, `std.traits`, `core.stdc` | none | plain values, compile-time templates, declarations | |
| compiler, druntime, specification | syntax trees | parsing, semantic analysis, code generation | |

What is hard in each of them, and what makes it correct:

* **Hash tables.** A table is an array of entries plus an index of it. Deletion
  leaves markers in both; insertion reuses deleted bins; a full array is
  compacted or moved to a larger block. Correct means: every key is found by its
  probe, none is there twice, the count and the oldest entry are right, every
  probe ends, and all this looks to the caller like a map in insertion order.
  Callbacks make it harder: the index, the entry pointer and the reserved bin
  that an operation holds while it calls user code may be stale afterwards. The
  code detects this through `rebuilds_num`, which grows with every compaction,
  growth and clear.
* **Arenas.** Blocks handed out never overlap, are aligned and zeroed; a failed
  allocation leaves the arena as it was; destroying it frees every region once.
* **Arrays.** Copies and ranges share state; insertion may move the storage that
  the values being inserted are in; growth is computed near the top of `size_t`.
* **rpmalloc.** A block freed by another thread passes through lock-free lists
  that the owner empties at times of its own; a full page is on no list until one
  of its blocks comes back; a thread that ends leaves its heap to a later one.
* **Mutexes and condition variables.** One word holds the lock bits, a spinlock
  and hints about the queue; unlocks decide from the hints whether to wake
  anybody, a scan tests waiters' conditions while it holds the lock on behalf of
  the unlocking thread, a signal moves waiters to the mutex, and deadlines race
  all of them. Correct means mutual exclusion, a waiter on exactly one list, no
  lost wake-up, and no starvation by newcomers.

## 2. Modules

| Module | Models |
| --- | --- |
| `HashStorage` | the `st_table` record and every private helper of `hash.d` as a pure operator: hashing, probing, searching, `rebuild`, `compact_in_place`, appending, deleting, clearing |
| `HashTable` | the public operations, one action each, with callbacks that leave the table alone; allocation may fail |
| `OrderedMap` | the abstract specification: a sequence of key/value pairs in insertion order |
| `HashForeach` | the three iteration functions with callbacks that insert, delete and clear |
| `HashReentry` | lookup, insert, insert2, add_direct, delete and update, broken into one step per callback, with callbacks that insert, delete and clear |
| `Arena` | `memory.d`: the three backends of an arena, over an rpmalloc that may refuse any block |
| `Array` | `array.d`: every operation that changes the shared state, over storage that moves, stays or is refused |
| `Rpmalloc` | `rpmalloc.c`: pages, blocks, deferred frees and the heaps of threads that start and end |
| `NsyncMu` | `mu.c`: lock, try-lock and unlock in both modes, fast and slow paths |
| `NsyncMuWait` | `mu_wait.c`: waiting for a condition on a mutex, its timeout, unlock without wake-up |
| `NsyncCv` | `cv.c`: wait with deadline, signal, broadcast, and the transfer of waiters to the mutex |
| `NsyncRings` | the rings of waiters with equal conditions (`mu.c`, `mu_wait.c`, `dll.c`): how they are built, taken apart and used by a scan to skip waiters |
| `Monitor` | the abstract specification of a mutex: a reader-writer lock, each operation one step |
| `ConditionMonitor` | the abstract specification of a condition variable: a wait gives up the mutex and begins in one step, and returns with the mutex held in the mode in which it was called |
| `MC...` | instances for TLC |
| `Recursion` | existence and unfolding of recursive functions on natural numbers, induction over them |
| `NsyncCounting` | what the proofs about mutexes use of counting: finite cardinalities, how often a list names a thread, loops |
| `..._proofs` | lemmas and theorems, section 4 |

### From `hash.d` to `HashStorage`

A table is a record with the fields of `st_table`. `bin_power` and `size_ind` are
functions of `entry_power` (`BinsCount`, `size_index_for_power`); `arena` and
`type` never change. `entries` is a function on `0 .. entries_bound - 1`: entries
past the bound are never read. `bins` is a function on the bin indices; `set_bin`
truncates a value to the width of a packed bin, as the cast in the source does.

Keys and records are abstract words. The policy is two constants: `Ident` gives
the class of keys that `compare` calls equal, `RawHash` is the hash callback. The
only assumption is that equal keys have equal hashes. The compile-time constants
of the source (`MINIMAL_POWER2`, `MAX_POWER2`, `MAX_POWER2_WITHOUT_BINS`, the
widths of hashes and bins, the width of `rebuilds_num`) are parameters, so that
small instances reach binned tables, compaction, growth and the change of bin
width. The loops of the source that scan the entries are sets (`Live`,
`find_entry_linear`); the probe loops follow `ProbePath`, the sequence of bins
that repeated `secondary_hash` visits, and stop at the first step that the source
stops at.

In `HashTable` every call is one step; `out` records the call and what it
returned. Whenever the source asks the arena for a block, the action also has the
disjunct in which the block is refused. `st_copy` is followed by freeing the
original, so that one table is enough.

In `HashForeach` the loop stops at every callback. While the callback runs,
`Call` performs whole operations on the table. The record of an entry is a serial
number, fresh for every new entry, so that an entry deleted and added again is
told from the old one.

In `HashReentry` a search is a loop over its stops: the entries whose hash equals
the one looked for. At each of them `compare` runs, unless the two keys are the
same word. Hash, transform and update callbacks run at their places. `MayMutate`
and `MayRebuild` say which callbacks of which operations may leave the table
changed, respectively rebuilt: a lookup's may do anything; for the operations that
change the table a compare callback either leaves the table alone or rebuilds it,
which is what the source detects. The other cases are hazards listed in
`PROJECT.json`, one of them shown by a run.

### Memory

`Arena`: there is one arena. `heap` says which blocks of rpmalloc are in use;
`arena` holds the backend (`kind`, the vtable of the source), the header, the
context and the regions in list order, with the index of the current one. The
address of a block matters only modulo the largest alignment, and is its *phase*.
`blocks` are the allocations that callers hold, each with the offsets at which its
caller must find data; `written` are the bytes of memory that hold data. A call is
one step, since access to an arena is serialised. What a call may return is a set of
outcomes: every request for a block of rpmalloc may be refused, and one that is granted
may have any phase. Three things that the backends do differently are kept:

* `realloc` of a region backend returns a block that is large enough where it is, whatever
  alignment is asked for (`memory.d` lines 382 and 520). A block therefore records both
  the alignment it was placed with (`placed`) and the one last asked for (`alignment`);
  `BlocksPlaced` promises the second except in this one case.
* `calloc` of a region backend returns null when the product of count and size does not fit
  `size_t`. `rpcalloc` and `rpaligned_calloc` multiply without a test (rpmalloc is built
  with `ENABLE_VALIDATE_ARGS` 0), so the model returns a block of the wrapped size.
  `allocArray` and `expandArray` test the product themselves.
* `realloc` on rpmalloc, of null too, takes a block that is not cleared, or keeps the old
  one with stale bytes behind the bytes in use, and `zero_reallocated_tail` clears what the
  caller did not have before. A request with no alignment of its own may take a block that
  was moved up for its alignment back to where its memory begins.

As `docs/memory.md` requires, callers pass the true old size and free the blocks of an
rpmalloc arena before they destroy it.

`Array`: `storage` and `used` are the shared state, one for all copies. Growing
asks for storage, which is refused, extended in place or moved; after a move, a
slice that pointed into the old storage reads `Junk`. Sizes are computed modulo
`Max_size_t + 1`.

`Rpmalloc`: one step makes at most one access that other threads can observe: a
deferred list, the full flag, or a section under the global heap lock. Work of the
owner on its own heap and pages is part of the step it belongs to. Pages have one
page type; size classes differ in how many blocks one memory page holds, which
decides how many blocks are linked at a time. The system may refuse to decommit a free
page, which then stays committed. With `CommitFails` it may also refuse to commit: a page
that is used again stays on its list uncommitted; for a later page of a span
`span_allocate_page` returns null, `heap_get_page_generic` reads through it, and the
process ends (`ReadsNullPage`). The module assumes that no thread has the id of an
earlier one, see section 5.

### nsync

`word` has a field for each bit of `mu->word`, and one for the reader count, which
wraps at `READER_COUNTS`. `waiters` is the queue, `waiter[t]` the waiter struct of
thread `t`, whom it names. `pc[t]` is where the thread is and `ret[t]` where its
lock or unlock returns to, since waits call them. `locking`, `waking`, `mwait`,
`waits` and `signals` are the locals of the five slow paths, reset when a call
returns. `held` is a ghost.

A step is one atomic access to shared memory. A load and the compare-and-swap that
depends on it are one step, because the swap succeeds only if the word still has
the value on which every decision between them depends; a swap that fails in a loop
changes nothing and is no step; one that fails on a fast path sends the thread to
the slow path, which the fast path may therefore always take. Work on a queue under
its spinlock belongs to the step before or after it. A store of a whole word loaded
earlier (`mu_try_acquire_after_timeout_or_cancel`) keeps its load and its store
apart. So do the two swaps before it: when the one that acquires has failed because the
word changed after its load, the one that announces a waiting writer still compares with
the old value, and may set the bit on a mutex that is free (`TimeoutSwapFails`,
`TimeoutAnnounce`). Memory is sequentially consistent: the acquire and release orders that the
code asks for are taken to be enough.

Clients keep the rules of the library: they unlock what they hold, conditions
depend on data that the mutex protects, and a section that made a condition true is
not left with `nsync_mu_unlock_without_wakeup`.

A scan that finds a condition false skips the waiters that are in the same ring
(`same_condition`) without testing them, whereas `NsyncMu` tests every waiter. The two agree
if a ring holds only neighbours with equal conditions, since a condition does not change
during a scan. That is a property of how rings are spliced and cut, and `NsyncRings` models
exactly this: waiters that queue at either end, waits that time out, and a scan that works
on two lists of its own while others queue. Its rings are the pointers of the source.

`ConditionMonitor` adds to `Monitor` the mode that a wait owes its caller. `NsyncCv` keeps
the mode of the call in a ghost (`calledIn`); the mapping (`CvAbstract`) shows that a wait
returns only with the mutex held in that mode.

## 3. Runs

| Run | Question | Result |
| --- | --- | --- |
| `hash_table` | Is the table well formed and a faithful insertion-ordered map after every sequence of calls, with equal, colliding and reserved hashes, three capacities, two bin widths and refused blocks? | holds |
| `hash_foreach` | What survives callbacks that change the table under an iteration, and does it end? | the table, the order, and that nothing is missed unless a callback removed its own entry and rebuilt; every step leaves less to do |
| `hash_foreach_lost` | Is every surviving entry visited? | no, see below |
| `hash_reentry` | Do the retry loops protect the table, is what the operation returns true, and do they end? | yes, for the callbacks the source protects against |
| `hash_reentry_count` | May any compare callback change the table? | no, see below |
| `memory` | Do blocks of the three arena backends keep their place, data and owner, and do failures change nothing? Does an array act on its elements like a sequence? Is every block of rpmalloc in one place and no page lost, whoever frees? | holds |
| `rpmalloc_commit` | Is memory that clients get committed when the system may refuse to commit? | no, see below |
| `mutex` | Mutual exclusion, exact lists, truth of the hints in the word, no panic, no lost wake-up, no overtaking, and refinement of `Monitor`, with waits for conditions and timeouts; are the waiters that a scan skips those with the condition it tested? | holds; lost wake-ups are excluded among clients that only lock, and among writers that wait |
| `mutex_wait_timeout`, `mutex_wait_readers` | Is no wake-up lost when waits time out, or when readers wait? | no, see below |
| `condition` | Do waits release and block atomically and return in the mode of their call, do signals reach sleepers rather than waits that timed out, also when waiters are moved to the mutex? | holds |
| `threads_live` | Does every lock and unlock return, is every consumer served after a broadcast, does a wait whose condition stays true return? | yes |

Five runs end in a counterexample:

* `hash_foreach_lost`. `HASH_PORT_REVIEW.md` (lines 54 to 57) says that after a
  rebuild every surviving entry is still visited exactly once. In `st_foreach` a
  callback that makes the table rebuild and removes the entry it was called for
  ends the iteration: the entry is not found again, the index becomes `NO_INDEX`,
  the loop condition fails, and 0 is returned. The checked variants report the
  loss instead.
* `hash_reentry_count`. The comment of `entry_matches` says that a callback is
  allowed to re-enter the table. If the compare callback of `st_delete` deletes
  the entry that is being compared, no rebuild happens, nothing is noticed, and
  the entry is counted as deleted twice.
* `mutex_wait_timeout`. While a timed-out wait spins it sets `MU_WRITER_WAITING`,
  which a comment says the acquisition clears. The word that it loads before it
  acquires has the bit set, and that word is what it stores at the end: the bit
  stays, with no writer waiting, and a later reader sleeps on a free mutex.
* `mutex_wait_readers`. A wait in read mode decides whether it must wake others
  from a look at the word when it takes the spinlock; by the time it releases the
  mutex, the designated waker it saw may have come and gone, and a queued writer is
  left asleep on a free mutex.
* `rpmalloc_commit`. A decommitted page is put on the available list before its
  memory is committed; when that fails the page stays there, and the next
  allocation takes blocks of memory that is not committed.

**Bounds.** `hash_table` starts from capacity 2 (`MINIMAL_POWER2 = 1`) and grows to
8: capacity 2 has no bins, 4 has narrow ones and 8 wider ones (`BIN_BITS = 2`). In a
behaviour callers store keys of which two are equal and one hashes to the reserved
value, or three keys that meet in the same bins, one of them leaving by another path
(`Plans`); this reaches every branch of `rebuild`: compaction of a small table,
compaction of a sparse one, growth, and refusal at `MAX_POWER2`. In the callback runs
`MaxOps` bounds the operations done by callers and callbacks together: five are
enough to fill a table, rebuild it inside a callback, change it again and look at
the result. `REBUILDS_MOD` is 16 there, more than any of those runs can count, since
a counter that wraps within one callback is a different question; `HashTable` never
compares the counter and uses 2. `MCHashTable` views a state without `out` and
without what deleted entries hold: no operation reads either, and every transition
is still checked against `OrderedMap`.

In `memory` a behaviour is one part on its own (`part`). Memory is counted in small units:
the default alignment is one and the larger one two, rpmalloc blocks start at phase 0 or 1,
a bump region holds two, and `SIZE_MAX` is three. Six blocks of rpmalloc are the header and
context of a bump arena, two regions with their nodes, or one region and a request that is
refused half way. Sizes up to three with either alignment make an allocation fill a region
exactly, follow another with padding between them, need a dedicated region because of its
size or only because of its padding, and exceed `SIZE_MAX` by one; two elements of size two
or three make the product of `calloc` wrap, to zero and to a block smaller than asked for,
and arrays grow, move and overflow. `MaxHeld`, the number of blocks held at once,
is two: every property is about one block or a pair. Arrays grow to four elements,
the largest `size_t`, so that growth wraps. rpmalloc has two pages of two blocks: with
two threads that ask for zeroed memory, with three threads, and with two size classes;
a page fills, empties and is handed over in each. `MCMemory` views a state without what the
last call returned, which no operation reads, and, where nobody asks for zeroed memory,
without what memory holds.

In `mutex` three threads make two calls each when they only lock and one each when
they also wait for a condition, all as writers or in both modes (`clients`); one
deadline may pass. Three threads are a holder, a waiter and one that arrives between
two steps of either; the long-wait threshold is one, so that every second sleep sets
`MU_LONG_WAIT`. The rings have four waiters and two conditions beside none: two rings of
two, a ring of three that is cut at either end or in the middle, and a waiter between two
rings that merge when it leaves. `condition` has two consumers and a producer, one deadline and both
kinds of wake-up. `threads_live` bounds calls but lets two writers wait as often as
they like, so that behaviours are infinite. Threads are symmetric in the runs that
check no liveness.

**Fairness.** The hash code is sequential: an operation that has been called keeps
executing, and a callback returns. `HashForeach` and `HashReentry` show termination by
a measure that every step lowers (`Work`), so that it does not rest on fairness beyond
the program going on; callbacks do finitely many operations because of `MaxOps`, and a
callback that rebuilds for ever makes the code loop for ever. In `threads_live` every
thread is weakly fair: the operating system runs it, and clients leave their critical
sections and go on with their jobs. Calls are bounded, except in the part with waits for
conditions, so that nobody is overtaken for ever by new callers.

**Deadlock** is checked except in the runs of nsync, where threads stop when their
calls are used up, or may sleep for a condition that stays false; the actions that
say so (`Terminated`, `Quiescent`) are part of the specifications.

## 4. Proofs

TLAPS checks the theorems below for every value of the constants that the assumptions
allow: `StorageConstants` (the order of the powers and the widths, as in the source),
`PolicyContract` (equal keys have equal hashes), `SizesAreWords` and `NullIsNoTable` for
hash tables; `NsyncMuConstants` (finitely many threads, fewer than the reader count can
count) and `NsyncMuWaitConstants` for mutexes. TLC evaluates all of them.

### Hash tables

`Recursion` -> `HashStorage_proofs` (storage, probing) -> `HashTable_proofs` (searches,
operations, refinement).

* `ProbeVisitsEveryBin`: for every hash and capacity the probe visits every bin. Once the
  perturbation is shifted out the probe is `x -> 5x + 1` modulo a power of two; that this
  is a full cycle is proved by halving: two steps of it act on `x \div 2` like a generator
  of the same kind with half the modulus.
* `TypeCorrect`: no operation writes past the allocated entries, and no bin value is
  truncated.
* `StartIsOldest`: `num_entries` is the number of live entries, nothing live lies before
  `entries_start`, and `entries_start` is live unless the table is empty.
* `BinsNameLiveEntries`: every bin that is neither empty nor deleted names a live entry,
  and no two name the same one.
* `ProbesWork`: every search finds the entry of its key, no key is there twice, and the
  probe loops, which have no bound, end.
* `TableImplementsOrderedMap`: `HashTable` implements `OrderedMap`, results included.

None of them is inductive alone. That an insertion stays within the array needs
`num_entries` to be the true count, because `rebuild` sizes the new block from it; that
deletion keeps the count right needs the bin it found to name a live entry; that a bin
names a live entry after an insertion needs the new index to fit the bin; that a search
finds a key needs every live entry to be reachable from its hash without crossing an
empty bin; and that a probe ends needs an empty bin, hence a bound on the bins that
deletions have used up (`UsesAtMost`). The inductive invariant is `SearchableTable`,
their conjunction for a table that exists; `TableStep` proves with one lemma per
operation that a step keeps it and is a step of `OrderedMap`. The recursive functions
of the model (`Pow2`, the bins filled so far, the probe path) are handled by
`Recursion`, which proves by well-founded induction that such a function exists and
unfolds.

### Mutexes

`NsyncMu_proofs` (lock bits, shared facts) -> `NsyncQueue_proofs` (lists) ->
`NsyncMuWait_proofs` (waits); `NsyncMu_proofs` -> `NsyncWake_proofs` (hints); all of them
-> `Nsync_proofs` (the theorems). The lemmas of the first four take what they use of
counting as a premise, `CountingLaws`; `Nsync_proofs` proves it (`Counting`) from the
library's facts about finite sets and from `Recursion`, and no theorem has a premise left.

For clients that lock, try to lock and unlock (`Spec` of `NsyncMu`):

* `MutualExclusion`, `LockBitsCountHolders`: a writer holds the mutex alone, and the lock
  bits are the numbers of writers and readers that hold it.
* `MutexImplementsMonitor`: the mutex implements the reader-writer lock of `Monitor`.
* `LongWaitersNotOvertaken`: while `MU_LONG_WAIT` is set, only a thread that has slept on
  the mutex acquires it.
* `UnlockNeverPanics`: the sanity checks at the head of the unlocks pass.

For clients that also wait for conditions, with deadlines (`WaitSpec` of `NsyncMuWait`):

* `WaitsKeepCounts`, `WaitsImplementMonitor`, `WaitsOvertakeNobody`: the same, although a
  scan turns a read lock into a write lock and releases it later, and a timeout stores a
  whole word.
* `WaitersOnOneList`: a waiter that must still be told to go on is on exactly one list,
  whatever scans and timeouts race for it.
* `TimeoutsOverwriteNothing`: the word that a timeout stores back undoes no change of
  another thread.
* `DesigWakerIsTruthful`: `MU_DESIG_WAKER` is set only while a woken waiter is on its way
  or an unlock is choosing one; an unlock that sees the bit leaves without waking anybody.
* `AllFalseIsTruthful`: while `MU_ALL_FALSE` is set and no writer is in its section, no
  queued waiter could go on; a reader that sees the bit leaves without a scan.
* `WaitsNeverPanic`: no thread reaches `nsync_panic_`. Beside the sanity checks this is the
  one inside a scan: `nsync_mu_unlock_slow_` gives up the lock early when `MU_CONDITION` is
  clear, and panics if it then meets a waiter with a condition.

The invariants build on each other. `MuInv` relates the lock bits to the holders and says
what every label of the slow paths knows of them: a thread in a scan holds the mutex as a
writer exactly when its locals say that the lock is released late. `QueueInv` adds the
lists: the spinlock has one owner, a scan has the whole queue, a thread is listed as often
as it must still be told (`Due`), and those on a wake list are marked as removed. A scan
runs without the spinlock while it tests conditions, so that lists change hands between
steps; that the loop over them loses and doubles nobody is an induction over its turns
(`ExamineConserves`). `WaitInv` adds what the labels of a wait know, and that a thread that
confirms a timeout knows the value of the word. These need each other: the timeout may
take its waiter from the queue only because a scan that has taken it has marked it as
removed, or cannot have, since the timeout holds the mutex and the spinlock.

`WakeInv` adds the hints. The three theorems about them need each other and more:

* `ConditionBitOK`: a clear `MU_CONDITION` means that nobody queued has a condition. A wait
  sets the bit before it queues itself (`QueueingOK`), and only a scan clears it; that there
  is one scan at a time is `OneScanner`.
* `AllFalseOK`: a set `MU_ALL_FALSE` is believed only while no writer may have changed the
  data unseen. A writer that made a condition true is `Answerable`: it clears the bit, or
  scans anew, before the mutex is free. What a scan has found so far (`ScanFound`) must stay
  true while it tests without the spinlock and others queue themselves.
* `DesigOK`: some thread is `OnItsWay`. A thread woken from its semaphore stays so until it
  acquires the mutex or queues itself again, and both clear the bit (`QueueingOK`).
* `PlaceOK`: no thread has panicked, a lock call waits without a condition, and a scan that
  holds the lock stops testing conditions only once it has a writer to wake.

One lemma per action shows that it keeps the invariant (`...Queue` for the lists, `...Wait`
for waits, `...Plain` and `...Wake` for the hints), from general ones that say which facts
about one thread suffice for all (`QueueKeeps`, `WaitKeeps`, `PlainKeeps`, `ScanKeeps`).

### Only model-checked

* Liveness, which the prover does not reach.
* Lost wake-ups (`LockersMissNothing`, `WritersMissNothing`): beyond the hints, which are
  proved truthful, their inductive invariant must say of every queued waiter which thread
  will still come to wake it.
* The condition variable, whose waits and transfers add lists to `QueueInv`.
* Iteration and re-entry, arenas, arrays and rpmalloc.

## 5. Not modelled

* The policies of `hash.d` and its hash functions: pure arithmetic, pinned by test
  vectors; the models hold for any policy.
* `st_memsize`, byte sizes, and the overflow check of `valid_storage_size`: a block
  that is too large is a refused block.
* Memory contents beyond entries and bins; a freed block is not modelled, but an
  index or pointer used after a rebuild is caught because the table has changed.
* In arenas: the check of `vtable` after destruction, which callers must not rely on,
  and the contents of headers and regions' nodes.
* In arrays: reads, equality and assignment of single elements.
* In `Rpmalloc`: huge blocks, aligned blocks, first-class heaps, finalization and
  statistics; reallocation is part of `Arena`, with blocks as units.
* Ids of threads that are used again. rpmalloc takes the thread pointer as id, which a later
  thread may have again, and a released heap keeps the id of its last owner. In `Rpmalloc`
  every thread has an id of its own, and the owner test of `block_deallocate` is one step
  with the free that follows it. The properties rest on this: in a variant where ids are
  used again and the two are apart, `EveryBlockInOnePlace` fails, because a thread passes the
  owner test for the heap of an earlier thread while a third one is taking that heap over.
* In `NsyncMu`: `same_condition`. Every waiter is tested; `NsyncRings` justifies it.
* In nsync: waits on condition variables with other kinds of mutex, `nsync_wait_n`, notes,
  counters and once, and memory orders weaker than sequential consistency.
* `laserd.foundation`, the start and join of threads, `laserd.result`, `laserd.typedesc`,
  `laserd.system`, `laserd.utf8proc`, vendored Foundation and utf8proc, the compiler and
  druntime: see `PROJECT.json` for the reason of each.
