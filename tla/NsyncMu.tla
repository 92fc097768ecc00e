------------------------------ MODULE NsyncMu ------------------------------
(***************************************************************************)
(* The reader-writer mutex nsync_mu (library/nsync/internal/mu.c), the     *)
(* Mutex of laserd.thread.  A step is one atomic access to memory that     *)
(* threads share:                                                          *)
(*   - a load followed by a compare-and-swap of the same word is one step, *)
(*     since the swap succeeds only if the word still has the loaded value *)
(*     and every decision between the two depends on that value alone;     *)
(*   - a swap that fails in a loop changes nothing and is no step; one that*)
(*     fails on a fast path sends the thread to the slow path, which the   *)
(*     fast path may therefore take whatever the word holds;               *)
(*   - work on a queue under its spinlock is part of the step before or    *)
(*     after it.                                                           *)
(* Each thread has one waiter struct (waiter_for_thread) and names it.     *)
(* Locals of a call are reset when it returns.  Memory is sequentially     *)
(* consistent.                                                             *)
(***************************************************************************)
EXTENDS Naturals, Sequences, FiniteSets, Functions

CONSTANTS
  Threads,
  Modes,                \* modes in which clients lock: a subset of {"w", "r"}
  Calls,                \* bound: acquiring calls that each thread makes
  Conditions,           \* conditions that nsync_mu_wait waits for
  NoCondition,          \* a null condition function
  LONG_WAIT_THRESHOLD,  \* 30 in the source
  READER_COUNTS         \* number of values of MU_RLOCK_FIELD: 2^24 in the source

ASSUME NsyncMuConstants ==
  /\ IsFiniteSet(Threads) /\ Cardinality(Threads) < READER_COUNTS
  /\ Modes \subseteq {"w", "r"}
  /\ Calls \in Nat
  /\ NoCondition \notin Conditions
  /\ LONG_WAIT_THRESHOLD \in Nat \ {0}
  /\ READER_COUNTS \in Nat

VARIABLES
  word,     \* mu->word, a field for each of its bits and for the reader count
  waiters,  \* mu->waiters, first to last
  waiter,   \* each thread's waiter struct
  pc,       \* where each thread is: "client" is outside nsync
  ret,      \* where each thread's current call to lock or unlock returns to
  held,     \* ghost: the mode in which each thread holds the mutex, or "none"
  locking,  \* locals of nsync_mu_lock_slow_
  waking,   \* locals of nsync_mu_unlock_slow_
  truth,    \* the clients' conditions that are true; the mutex protects it
  calls     \* acquiring calls that each thread still makes

muVars == <<word, waiters, waiter, pc, ret, held, locking, waking, truth, calls>>

(* The bits of common.h: WLOCK, RLOCK_FIELD, SPINLOCK, WAITING,            *)
(* DESIG_WAKER, CONDITION, WRITER_WAITING, LONG_WAIT, ALL_FALSE.           *)
FreeWord ==
  [wlock |-> 0, readers |-> 0, spin |-> FALSE, waiting |-> FALSE,
   desig |-> FALSE, condition |-> FALSE, writerWaiting |-> FALSE,
   longWait |-> FALSE, allFalse |-> FALSE]

NewWaiter ==
  [waiting |-> FALSE, sem |-> 0, removed |-> FALSE, lType |-> "w",
   cond |-> NoCondition, cvMu |-> FALSE]

NotLocking == [mode |-> "w", slept |-> FALSE, waits |-> 0, oldWord |-> FreeWord]

NotWaking ==
  [mode |-> "w", testing |-> FALSE, late |-> FALSE, new |-> <<>>,
   kept |-> <<>>, wake |-> <<>>, wakeType |-> "none",
   writerWaiting |-> FALSE, allFalse |-> TRUE]

Init ==
  /\ word = FreeWord
  /\ waiters = <<>>
  /\ waiter = [t \in Threads |-> NewWaiter]
  /\ pc = [t \in Threads |-> "client"]
  /\ ret = [t \in Threads |-> "client"]
  /\ held = [t \in Threads |-> "none"]
  /\ locking = [t \in Threads |-> NotLocking]
  /\ waking = [t \in Threads |-> NotWaking]
  /\ truth = {}
  /\ calls = [t \in Threads |-> Calls]

Goto(t, label) == pc' = [pc EXCEPT ![t] = label]

(* The current call to lock or unlock returns.                             *)
Return(t) == Goto(t, ret[t]) /\ ret' = [ret EXCEPT ![t] = "client"]

Panic(t) ==
  /\ Goto(t, "panic")
  /\ UNCHANGED <<word, waiters, waiter, ret, held, locking, waking, truth>>

-----------------------------------------------------------------------------
(* The lock types.                                                         *)

(* Mutant: a thread that has slept does not mind readers.                  *)
BlockedByWriterOnly(wd, mode, slept) ==
  \/ wd.wlock # 0
  \/ ~slept /\ mode = "w" /\ wd.readers # 0
  \/ ~slept /\ (wd.longWait \/ (mode = "r" /\ wd.writerWaiting))

(* Mutant: MU_LONG_WAIT stops readers only.                                *)
BlockedUnlessLongWait(wd, mode, slept) ==
  \/ wd.wlock # 0
  \/ mode = "w" /\ wd.readers # 0
  \/ ~slept /\ mode = "r" /\ (wd.longWait \/ wd.writerWaiting)

(* word & zero_to_acquire != 0; a thread that has slept on the mutex is    *)
(* stopped by the constraints of mutual exclusion only.                    *)
Blocked(wd, mode, slept) ==
  \/ wd.wlock # 0
  \/ mode = "w" /\ wd.readers # 0
  \/ ~slept /\ (wd.longWait \/ (mode = "r" /\ wd.writerWaiting))

(* word + add_to_acquire.                                                  *)
Added(wd, mode) ==
  [wd EXCEPT !.wlock = IF mode = "w" THEN @ + 1 ELSE @,
             !.readers = IF mode = "r" THEN (@ + 1) % READER_COUNTS ELSE @]

(* Mutant: a designated waker that acquires leaves its bit set.            *)
AcquiredKeepsDesig(wd, mode, slept, longWait) ==
  [Added(wd, mode) EXCEPT !.longWait = @ /\ ~longWait,
                          !.writerWaiting = @ /\ mode # "w"]

(* The same, without the bits that the acquirer clears.                    *)
Acquired(wd, mode, slept, longWait) ==
  [Added(wd, mode) EXCEPT !.desig = @ /\ ~slept,
                          !.longWait = @ /\ ~longWait,
                          !.writerWaiting = @ /\ mode # "w"]

(* word - add_to_acquire.                                                  *)
Released(wd, mode) ==
  [wd EXCEPT !.wlock = IF mode = "w" THEN @ - 1 ELSE @,
             !.readers = IF mode = "r"
                         THEN (@ + (READER_COUNTS - 1)) % READER_COUNTS ELSE @]

(* Mutant: a writer's release keeps MU_ALL_FALSE.                          *)
ReleasedKeepsAllFalse(wd, mode) == Released(wd, mode)

(* The same, without clear_on_uncontended_release.                         *)
ReleasedQuietly(wd, mode) ==
  [Released(wd, mode) EXCEPT !.allFalse = @ /\ mode # "w"]

-----------------------------------------------------------------------------
(* Acquiring.                                                              *)

EnterLockSlow(t, mode, slept, next) ==
  /\ waiter' = [waiter EXCEPT ![t].lType = mode, ![t].cvMu = FALSE,
                              ![t].cond = NoCondition]
  /\ locking' = [locking EXCEPT ![t].mode = mode, ![t].slept = slept]
  /\ ret' = [ret EXCEPT ![t] = next]
  /\ Goto(t, "lock_slow")
  /\ UNCHANGED <<word, waiters, held, waking, truth>>

AcquireNow(t, mode, next) ==
  /\ ~Blocked(word, mode, FALSE)
  /\ word' = Acquired(word, mode, FALSE, FALSE)
  /\ held' = [held EXCEPT ![t] = mode]
  /\ Goto(t, next)
  /\ UNCHANGED <<waiters, waiter, ret, locking, waking, truth>>

(* nsync_mu_lock and nsync_mu_rlock.                                       *)
LockBody(t, mode, next) ==
  AcquireNow(t, mode, next) \/ EnterLockSlow(t, mode, FALSE, next)

StartsCall(t) ==
  /\ pc[t] = "client" /\ held[t] = "none" /\ calls[t] > 0
  /\ calls' = [calls EXCEPT ![t] = @ - 1]

Lock(t, mode) ==
  StartsCall(t) /\ LockBody(t, mode, "client")

(* nsync_mu_trylock and nsync_mu_rtrylock: a failure changes nothing.      *)
TryLock(t, mode) ==
  /\ StartsCall(t)
  /\ \/ AcquireNow(t, mode, "client")
     \/ UNCHANGED <<word, waiters, waiter, pc, ret, held, locking, waking, truth>>

(* One turn of the loop of nsync_mu_lock_slow_.                            *)
LockSlowAcquire(t) ==
  LET l == locking[t]
      longWait == l.waits >= LONG_WAIT_THRESHOLD
  IN /\ pc[t] = "lock_slow"
     /\ ~Blocked(word, l.mode, l.slept)
     /\ word' = Acquired(word, l.mode, l.slept, longWait)
     /\ held' = [held EXCEPT ![t] = l.mode]
     /\ locking' = [locking EXCEPT ![t] = NotLocking]
     /\ Return(t)
     /\ UNCHANGED <<waiters, waiter, waking, truth, calls>>

(* Mutant: does not wait for the spinlock.                                 *)
QueueWithoutSpinlock(t) ==
  LET l == locking[t] IN
  /\ pc[t] = "lock_slow"
  /\ Blocked(word, l.mode, l.slept)
  /\ word' = [word EXCEPT !.spin = TRUE, !.waiting = TRUE,
                !.longWait = @ \/ l.waits >= LONG_WAIT_THRESHOLD,
                !.writerWaiting = @ \/ l.mode = "w",
                !.desig = @ /\ ~l.slept,
                !.allFalse = FALSE]
  /\ Goto(t, "lock_queue")
  /\ UNCHANGED <<waiters, waiter, ret, held, locking, waking, truth, calls>>

LockSlowSpinlock(t) ==
  LET l == locking[t] IN
  /\ pc[t] = "lock_slow"
  /\ Blocked(word, l.mode, l.slept)
  /\ ~word.spin
  /\ word' = [word EXCEPT !.spin = TRUE, !.waiting = TRUE,
                !.longWait = @ \/ l.waits >= LONG_WAIT_THRESHOLD,
                !.writerWaiting = @ \/ l.mode = "w",
                !.desig = @ /\ ~l.slept,
                !.allFalse = FALSE]
  /\ Goto(t, "lock_queue")
  /\ UNCHANGED <<waiters, waiter, ret, held, locking, waking, truth, calls>>

(* The first wait goes to the end of the queue, later ones to its front;   *)
(* then mu_release_spinlock.                                               *)
LockSlowQueue(t) ==
  /\ pc[t] = "lock_queue"
  /\ waiter' = [waiter EXCEPT ![t].waiting = TRUE]
  /\ waiters' = IF locking[t].waits = 0 THEN Append(waiters, t)
                ELSE <<t>> \o waiters
  /\ word' = [word EXCEPT !.spin = FALSE]
  /\ Goto(t, "lock_wait")
  /\ UNCHANGED <<ret, held, locking, waking, truth, calls>>

(* nsync_dll_remove_: the list without t, which is on it once.             *)
Unlinked(list, t) ==
  LET at == CHOOSE i \in DOMAIN list : list[i] = t
  IN  [i \in 1 .. Len(list) - 1 |-> IF i < at THEN list[i] ELSE list[i + 1]]

(* The loop that waits until w->nw.waiting is zero.                        *)
LockSlowWait(t) ==
  /\ pc[t] = "lock_wait"
  /\ \/ /\ waiter[t].waiting
        /\ Goto(t, "lock_p")
        /\ UNCHANGED locking
     \/ /\ ~waiter[t].waiting
        /\ locking' = [locking EXCEPT ![t].slept = TRUE,
                         ![t].waits = IF @ < LONG_WAIT_THRESHOLD THEN @ + 1 ELSE @]
        /\ Goto(t, "lock_slow")
  /\ UNCHANGED <<word, waiters, waiter, ret, held, waking, truth, calls>>

(* nsync_mu_semaphore_p.                                                   *)
SemaphoreP(t, next) ==
  /\ waiter[t].sem > 0
  /\ waiter' = [waiter EXCEPT ![t].sem = @ - 1]
  /\ Goto(t, next)

LockSlowP(t) ==
  /\ pc[t] = "lock_p"
  /\ SemaphoreP(t, "lock_wait")
  /\ UNCHANGED <<word, waiters, ret, held, locking, waking, truth, calls>>

-----------------------------------------------------------------------------
(* Releasing.                                                              *)

EnterUnlockSlow(t, mode, next) ==
  /\ waking' = [waking EXCEPT ![t] = [NotWaking EXCEPT !.mode = mode]]
  /\ ret' = [ret EXCEPT ![t] = next]
  /\ Goto(t, "unlock_slow")
  /\ UNCHANGED <<word, waiters, waiter, held, locking, truth>>

ReleaseNow(t, mode, next) ==
  /\ word' = ReleasedQuietly(word, mode)
  /\ held' = [held EXCEPT ![t] = "none"]
  /\ Goto(t, next)
  /\ UNCHANGED <<waiters, waiter, ret, locking, waking, truth>>

(* Mutant: trusts MU_ALL_FALSE after a writer's critical section.          *)
WriterUnlockTrustsAllFalse(t, next) ==
  IF word.wlock = 0 \/ word.readers # 0
  THEN Panic(t)
  ELSE \/ /\ ~(word.waiting /\ ~word.desig /\ ~word.allFalse)
          /\ ReleaseNow(t, "w", next)
       \/ /\ ~word.allFalse
          /\ EnterUnlockSlow(t, "w", next)

(* nsync_mu_unlock.                                                        *)
WriterUnlockBody(t, next) ==
  IF word.wlock = 0 \/ word.readers # 0
  THEN Panic(t)
  ELSE \/ /\ ~(word.waiting /\ ~word.desig)
          /\ ReleaseNow(t, "w", next)
       \/ EnterUnlockSlow(t, "w", next)

(* nsync_mu_runlock.                                                       *)
ReaderUnlockBody(t, next) ==
  IF word.wlock # 0 /\ word.readers = 0
  THEN Panic(t)
  ELSE \/ /\ ~(/\ word.waiting /\ ~word.desig
               /\ word.readers = 1 /\ ~word.allFalse)
          /\ ReleaseNow(t, "r", next)
       \/ EnterUnlockSlow(t, "r", next)

UnlockBody(t, mode, next) ==
  IF mode = "w" THEN WriterUnlockBody(t, next) ELSE ReaderUnlockBody(t, next)

Unlock(t) ==
  /\ pc[t] = "client" /\ held[t] # "none"
  /\ UnlockBody(t, held[t], "client")
  /\ UNCHANGED calls

(* Mutant: the last reader leaves as quietly as the others.                *)
NobodyToWakeForReaders ==
  \/ ~word.waiting
  \/ word.desig
  \/ word.readers >= 1

(* The first branch of the loop of nsync_mu_unlock_slow_: no waiter, a     *)
(* designated waker, other readers, or a reader and only false conditions. *)
NobodyToWake ==
  \/ ~word.waiting
  \/ word.desig
  \/ word.readers > 1
  \/ word.readers = 1 /\ word.allFalse

UnlockSlowRelease(t) ==
  /\ pc[t] = "unlock_slow"
  /\ NobodyToWake
  /\ word' = ReleasedQuietly(word, waking[t].mode)
  /\ held' = [held EXCEPT ![t] = "none"]
  /\ waking' = [waking EXCEPT ![t] = NotWaking]
  /\ Return(t)
  /\ UNCHANGED <<waiters, waiter, locking, truth, calls>>

(* Mutant: forgets to release the lock with the spinlock taken.            *)
UnlockSlowKeepsLock(t) ==
  /\ pc[t] = "unlock_slow"
  /\ ~NobodyToWake
  /\ ~word.spin
  /\ word' = [word EXCEPT !.spin = TRUE, !.desig = TRUE]
  /\ held' = [held EXCEPT ![t] = "none"]
  /\ waking' = [waking EXCEPT ![t].new = waiters]
  /\ waiters' = <<>>
  /\ Goto(t, "unlock_scan")
  /\ UNCHANGED <<waiter, ret, locking, truth, calls>>

(* The second branch: with conditions to test, the lock becomes a write    *)
(* lock that is released later.                                            *)
UnlockSlowSpinlock(t) ==
  LET mode == waking[t].mode
      released == Released(word, mode)
      testing == word.condition
  IN /\ pc[t] = "unlock_slow"
     /\ ~NobodyToWake
     /\ ~word.spin
     /\ word' = [released EXCEPT !.spin = TRUE, !.desig = TRUE,
                                 !.wlock = IF testing THEN @ + 1 ELSE @]
     /\ held' = [held EXCEPT ![t] = IF testing THEN "w" ELSE "none"]
     /\ waking' = [waking EXCEPT ![t].testing = testing, ![t].late = testing,
                                 ![t].new = waiters]
     /\ waiters' = <<>>
     /\ Goto(t, "unlock_scan")
     /\ UNCHANGED <<waiter, ret, locking, truth, calls>>

(* The inner loop over new_waiters, one waiter at a time.  Waiters with    *)
(* the same false condition are skipped one by one.                        *)
Consider(s, p) ==
  LET w == waiter[p] IN
  IF s.wakeType = "w"
  THEN [s EXCEPT !.kept = Append(@, p), !.allFalse = FALSE]
  ELSE IF w.cond # NoCondition /\ w.cond \notin truth
  THEN [s EXCEPT !.kept = Append(@, p)]
  ELSE IF s.wakeType = "none" \/ w.lType = "r"
  THEN [s EXCEPT !.wake = Append(@, p), !.wakeType = w.lType]
  ELSE [s EXCEPT !.kept = Append(@, p), !.writerWaiting = TRUE, !.allFalse = FALSE]

(* Where the loop is after each number of waiters.                         *)
Considered(s) ==
  LET after[i \in 0 .. Len(s.new)] ==
        IF i = 0 THEN s ELSE Consider(after[i - 1], s.new[i])
  IN after

Examine(s) ==
  LET seen == Considered(s)[Len(s.new)] IN
  [s EXCEPT !.new = <<>>, !.kept = seen.kept, !.wake = seen.wake,
            !.wakeType = seen.wakeType, !.allFalse = seen.allFalse,
            !.writerWaiting = seen.writerWaiting]

(* The waiters that the scan wakes leave the queue for good.               *)
MarkRemoved(woken) ==
  waiter' = [p \in Threads |->
               IF p \in woken THEN [waiter[p] EXCEPT !.removed = TRUE]
               ELSE waiter[p]]

StillTesting(s) ==
  /\ s.testing
  /\ s.wakeType # "w"
  /\ ~(/\ s.wakeType = "none"
       /\ waiter[Head(s.new)].lType = "w"
       /\ waiter[Head(s.new)].cond = NoCondition)

(* A waiter with a condition that is met while no conditions are tested.   *)
ChecksUnlocked(s) ==
  \E i \in 1 .. Len(s.new) :
    /\ waiter[s.new[i]].cond # NoCondition
    /\ Considered(s)[i - 1].wakeType # "w"

(* An iteration of the outer loop that tests no conditions keeps the       *)
(* spinlock to its end, where it picks up the next set of new waiters.     *)
UnlockSlowScan(t) ==
  LET s == [waking[t] EXCEPT !.testing = FALSE]
      done == Examine(s)
  IN /\ pc[t] = "unlock_scan"
     /\ waking[t].new # <<>>
     /\ ~StillTesting(waking[t])
     /\ IF ChecksUnlocked(s)
        THEN Panic(t)
        ELSE /\ waking' = [waking EXCEPT ![t] = [done EXCEPT !.new = waiters]]
             /\ waiters' = <<>>
             /\ MarkRemoved(Range(done.wake))
             /\ UNCHANGED <<word, pc, ret, held, locking, truth>>
     /\ UNCHANGED calls

(* An iteration that tests conditions releases the spinlock around them.   *)
UnlockSlowDropSpinlock(t) ==
  /\ pc[t] = "unlock_scan"
  /\ waking[t].new # <<>>
  /\ StillTesting(waking[t])
  /\ word' = [word EXCEPT !.spin = FALSE]
  /\ Goto(t, "unlock_test")
  /\ UNCHANGED <<waiters, waiter, ret, held, locking, waking, truth, calls>>

UnlockSlowTest(t) ==
  LET done == Examine(waking[t]) IN
  /\ pc[t] = "unlock_test"
  /\ waking' = [waking EXCEPT ![t] = done]
  /\ MarkRemoved(Range(done.wake))
  /\ Goto(t, "unlock_respin")
  /\ UNCHANGED <<word, waiters, ret, held, locking, truth, calls>>

UnlockSlowRespin(t) ==
  /\ pc[t] = "unlock_respin"
  /\ ~word.spin
  /\ word' = [word EXCEPT !.spin = TRUE]
  /\ waking' = [waking EXCEPT ![t].new = waiters]
  /\ waiters' = <<>>
  /\ Goto(t, "unlock_scan")
  /\ UNCHANGED <<waiter, ret, held, locking, truth, calls>>

(* With no new waiters left: the list goes back to the mutex, and one swap *)
(* releases the spinlock and, if it is still held, the lock.               *)
FinalWord(s) ==
  LET empty == s.kept = <<>> IN
  [word EXCEPT
     !.wlock = IF s.late THEN @ - 1 ELSE @,
     !.spin = FALSE,
     !.desig = @ /\ s.wake # <<>>,
     !.allFalse = s.allFalse /\ ~empty,
     !.writerWaiting = (@ \/ s.writerWaiting) /\ ~empty,
     !.waiting = @ /\ ~empty,
     !.condition = @ /\ ~empty]

UnlockSlowFinish(t) ==
  LET s == waking[t] IN
  /\ pc[t] = "unlock_scan"
  /\ s.new = <<>>
  /\ word' = FinalWord(s)
  /\ waiters' = s.kept
  /\ held' = [held EXCEPT ![t] = "none"]
  /\ waking' = [waking EXCEPT ![t] = [NotWaking EXCEPT !.wake = s.wake]]
  /\ IF s.wake = <<>> THEN Return(t) ELSE Goto(t, "unlock_wake") /\ UNCHANGED ret
  /\ UNCHANGED <<waiter, locking, truth, calls>>

(* Waking: waiting is cleared, then the semaphore is raised.               *)
ClearWaiting(t, p, label) ==
  /\ waiter' = [waiter EXCEPT ![p].waiting = FALSE]
  /\ Goto(t, label)

(* nsync_mu_semaphore_v.                                                   *)
SemaphoreV(p) == waiter' = [waiter EXCEPT ![p].sem = @ + 1]

UnlockSlowWake(t) ==
  /\ pc[t] = "unlock_wake"
  /\ ClearWaiting(t, Head(waking[t].wake), "unlock_v")
  /\ UNCHANGED <<word, waiters, ret, held, locking, waking, truth, calls>>

(* Mutant: wakes the first waiter of its list only.                        *)
UnlockSlowWakesOne(t) ==
  /\ pc[t] = "unlock_v"
  /\ SemaphoreV(Head(waking[t].wake))
  /\ waking' = [waking EXCEPT ![t].wake = <<>>]
  /\ Return(t)
  /\ UNCHANGED <<word, waiters, held, locking, truth, calls>>

UnlockSlowV(t) ==
  LET rest == Tail(waking[t].wake) IN
  /\ pc[t] = "unlock_v"
  /\ SemaphoreV(Head(waking[t].wake))
  /\ waking' = [waking EXCEPT ![t].wake = rest]
  /\ IF rest = <<>> THEN Return(t) ELSE Goto(t, "unlock_wake") /\ UNCHANGED ret
  /\ UNCHANGED <<word, waiters, held, locking, truth, calls>>

-----------------------------------------------------------------------------
(* Steps that a thread inside a lock or unlock call takes.                 *)
MuStep(t) ==
  \/ LockSlowAcquire(t) \/ LockSlowSpinlock(t) \/ LockSlowQueue(t)
  \/ LockSlowWait(t) \/ LockSlowP(t)
  \/ UnlockSlowRelease(t) \/ UnlockSlowSpinlock(t) \/ UnlockSlowScan(t)
  \/ UnlockSlowFinish(t) \/ UnlockSlowWake(t) \/ UnlockSlowV(t)

(* Steps of an unlock that tests the conditions of waiters, which only     *)
(* conditional critical sections have.                                     *)
TestStep(t) == UnlockSlowDropSpinlock(t) \/ UnlockSlowTest(t) \/ UnlockSlowRespin(t)

(* Every thread has returned from its last call.                           *)
Terminated ==
  /\ \A t \in Threads : pc[t] = "client" /\ held[t] = "none" /\ calls[t] = 0
  /\ UNCHANGED muVars

Next ==
  \/ \E t \in Threads :
       \/ \E mode \in Modes : Lock(t, mode) \/ TryLock(t, mode)
       \/ Unlock(t)
       \/ MuStep(t)
  \/ Terminated

(* The operating system runs every thread, and clients leave their         *)
(* critical sections.                                                      *)
Fairness == \A t \in Threads : WF_muVars(Unlock(t) \/ MuStep(t))

Spec == Init /\ [][Next]_muVars /\ Fairness

-----------------------------------------------------------------------------
(* Properties.                                                             *)

UnlockLabels ==
  {"unlock_slow", "unlock_scan", "unlock_test", "unlock_respin",
   "unlock_wake", "unlock_v"}

(* Type invariant: the word, the queue, the waiter structs and the ghosts  *)
(* have the shape that mu.c gives them.                                    *)
TypeOK ==
  /\ word \in [wlock : {0, 1}, readers : 0 .. READER_COUNTS - 1,
               spin : BOOLEAN, waiting : BOOLEAN, desig : BOOLEAN,
               condition : BOOLEAN, writerWaiting : BOOLEAN,
               longWait : BOOLEAN, allFalse : BOOLEAN]
  /\ waiters \in Seq(Threads)
  /\ \A t \in Threads :
       /\ waiter[t] \in [waiting : BOOLEAN, sem : Nat, removed : BOOLEAN,
                         lType : {"w", "r"}, cvMu : BOOLEAN,
                         cond : Conditions \cup {NoCondition}]
       /\ held[t] \in {"none", "w", "r"}
       /\ calls[t] \in 0 .. Calls
       /\ locking[t].waits \in 0 .. LONG_WAIT_THRESHOLD

Holders(mode) == {t \in Threads : held[t] = mode}

(* The lock bits of the word count the threads that hold the mutex: no     *)
(* path of lock or unlock, fast or slow, gains or loses a holder.          *)
WordCountsHolders ==
  /\ word.wlock = Cardinality(Holders("w"))
  /\ word.readers = Cardinality(Holders("r"))

(* Mutual exclusion: a thread that holds the mutex in write mode, also the *)
(* one that tests conditions inside its unlock, holds it alone.            *)
Exclusion ==
  \A t, u \in Threads : t # u /\ held[t] = "w" => held[u] = "none"

(* Clients that keep the rules never reach nsync_panic_: the checks of     *)
(* unlock pass, and no condition is met while none are tested.             *)
NoPanic == \A t \in Threads : pc[t] # "panic"

Positions(list, t) == {i \in DOMAIN list : list[i] = t}

(* The same in a list of waiters to wake, but for the first if it was told *)
(* and only its semaphore must still be raised.                            *)
Untold(list, told, t) == {i \in Positions(list, t) : ~(told /\ i = 1)}

(* Where the waiter of t is listed: the queue of the mutex and the lists   *)
(* of unlocks.                                                             *)
MuPlaces(t) ==
  ({<<"mu", "waiters">>} \X Positions(waiters, t)) \cup
  UNION {({<<u, "new">>} \X Positions(waking[u].new, t)) \cup
         ({<<u, "kept">>} \X Positions(waking[u].kept, t)) \cup
         ({<<u, "wake">>} \X Untold(waking[u].wake, pc[u] = "unlock_v", t)) :
           u \in Threads}

(* Where a thread waits for its waiter to be told; the labels of waits on  *)
(* conditions and condition variables are those of NsyncCv and NsyncMuWait.*)
ParkedLabels ==
  {"lock_wait", "lock_p",
   "cv_wait", "cv_p", "cv_timeout", "cv_confirm", "cv_woken",
   "wait_wait", "wait_p", "wait_timeout", "wait_confirm", "wait_woken"}

(* A thread that was woken from the queue of the mutex and has neither     *)
(* acquired nor gone back to sleep.  A wait whose own unlock is still busy *)
(* waking others may have been woken already.                              *)
Awake(t) ==
  \/ pc[t] \in {"lock_slow", "lock_queue"} /\ locking[t].slept
  \/ /\ \/ pc[t] \in ParkedLabels
        \/ pc[t] \in UnlockLabels /\ ret[t] \in ParkedLabels
     /\ ~waiter[t].waiting /\ ~waiter[t].cvMu

BeingWoken(t) ==
  \E u \in Threads :
    pc[u] \in {"unlock_scan", "unlock_test", "unlock_respin", "unlock_wake"}
      /\ t \in Range(waking[u].wake)

Scanning(t) == pc[t] \in {"unlock_scan", "unlock_test", "unlock_respin"}

(* "illegal to set it when no such waiter exists" (common.h:114): the      *)
(* designated-waker bit is set only while a woken waiter is on its way, or *)
(* an unlock is choosing one; unlocks that trust the bit wake nobody.      *)
DesignatedWakerExists ==
  word.desig =>
    \E t \in Threads : Awake(t) \/ BeingWoken(t) \/ Scanning(t)

(* An unlock that is not done when it has woken the first of its list.     *)
MoreToWake(t) == pc[t] = "unlock_v" /\ Len(waking[t].wake) > 1

(* No lost wake-up: a thread sleeps in the queue of a free mutex only      *)
(* while another thread is bound to wake a waiter or to try for the mutex: *)
(* one that works on the queue, or was woken.                              *)
NobodyLeftAsleep ==
  waiters # <<>> /\ word.wlock = 0 /\ word.readers = 0 =>
    \E t \in Threads :
      Awake(t) \/ BeingWoken(t) \/ Scanning(t) \/ MoreToWake(t)

(* MU_LONG_WAIT keeps its promise: while it is set no thread that has not  *)
(* slept on the mutex acquires it, by any path.                            *)
NoOvertaking ==
  [][\A t \in Threads :
       held[t] = "none" /\ held'[t] # "none" /\ word.longWait
         => locking[t].slept]_muVars

(* The abstract mutex.                                                     *)
Abstract == INSTANCE Monitor WITH holds <- held, sleeping <- {}

(* The mutex implements the abstract reader-writer lock: whatever the      *)
(* interleaving, holders come and go one at a time and only compatibly.    *)
ImplementsMonitor == Abstract!Spec

(* The calls of t return, if holders unlock.                               *)
CallsReturn(t) == pc[t] # "client" ~> pc[t] = "client"
=============================================================================
