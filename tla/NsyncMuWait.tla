---------------------------- MODULE NsyncMuWait ----------------------------
(***************************************************************************)
(* Conditional critical sections on an nsync_mu                            *)
(* (library/nsync/internal/mu_wait.c): nsync_mu_wait_with_deadline, which  *)
(* queues a waiter with a condition on the mutex itself, and               *)
(* nsync_mu_unlock_without_wakeup.  nsync's own notes wait for their       *)
(* children with it.                                                       *)
(*                                                                         *)
(* The clients keep its rules: conditions depend on data that the mutex    *)
(* protects (truth), and a critical section that made a condition true is  *)
(* not left with nsync_mu_unlock_without_wakeup.                           *)
(***************************************************************************)
EXTENDS NsyncMu

CONSTANT Deadlines  \* bound: deadlines of waits that pass

ASSUME NsyncMuWaitConstants == Deadlines \in Nat

VARIABLES
  mwait,     \* locals of nsync_mu_wait_with_deadline
  section,   \* the data in the writer's section: "fresh", "lowered", "raised"
  deadlines  \* deadlines that may still pass

waitOnly == <<mwait, section, deadlines>>
waitVars == <<muVars, waitOnly>>

NotWaiting ==
  [cond |-> NoCondition, mode |-> "w", first |-> TRUE, hadWaiters |-> FALSE,
   timedOut |-> FALSE, swap |-> "none", outcome |-> "woken"]

WaitInit ==
  /\ Init
  /\ mwait = [t \in Threads |-> NotWaiting]
  /\ section = "fresh"
  /\ deadlines = Deadlines

-----------------------------------------------------------------------------
(* nsync_mu_wait_with_deadline.                                            *)

(* A turn of its loop: prepare the waiter struct and remember remove_count. *)
PrepareWait(t, l) ==
  /\ waiter' = [waiter EXCEPT ![t].cvMu = FALSE, ![t].lType = l.mode,
                  ![t].cond = l.cond, ![t].waiting = TRUE, ![t].removed = FALSE]
  /\ mwait' = [mwait EXCEPT ![t] = l]
  /\ Goto(t, "wait_spin")
  /\ UNCHANGED <<word, waiters, ret, held, locking, waking, truth>>

(* The mode comes from the word; a condition that is true ends the call.   *)
MuWait(t, c) ==
  /\ pc[t] = "client" /\ held[t] # "none"
  /\ CASE word.wlock = 0 /\ word.readers = 0 -> Panic(t) /\ UNCHANGED mwait
       [] ~(word.wlock = 0 /\ word.readers = 0) /\ c \in truth ->
            UNCHANGED <<word, waiters, waiter, pc, ret, held, locking, waking,
                        truth, mwait>>
       [] OTHER -> PrepareWait(t, [NotWaiting EXCEPT !.cond = c,
                     !.mode = IF word.readers # 0 THEN "r" ELSE "w"])
  /\ UNCHANGED <<calls, section, deadlines>>

(* Mutant: does not announce that its waiter has a condition.              *)
WaitSpinlockUnannounced(t) ==
  /\ pc[t] = "wait_spin"
  /\ ~word.spin
  /\ word' = [word EXCEPT !.spin = TRUE, !.waiting = TRUE, !.allFalse = FALSE]
  /\ mwait' = [mwait EXCEPT ![t].hadWaiters = word.waiting /\ ~word.desig]
  /\ Goto(t, "wait_queue")
  /\ UNCHANGED <<waiters, waiter, ret, held, locking, waking, truth, calls,
                 section, deadlines>>

WaitSpinlock(t) ==
  /\ pc[t] = "wait_spin"
  /\ ~word.spin
  /\ word' = [word EXCEPT !.spin = TRUE, !.waiting = TRUE, !.condition = TRUE,
                          !.allFalse = FALSE]
  /\ mwait' = [mwait EXCEPT ![t].hadWaiters = word.waiting /\ ~word.desig]
  /\ Goto(t, "wait_queue")
  /\ UNCHANGED <<waiters, waiter, ret, held, locking, waking, truth, calls,
                 section, deadlines>>

(* Queue, then release the spinlock together with the mutex, unless other  *)
(* waiters must be woken: then nsync_mu_unlock_slow_ releases the mutex.   *)
WaitQueue(t) ==
  LET l == mwait[t]
      released == Released(word, l.mode)
      slow == released.wlock = 0 /\ released.readers = 0 /\ l.hadWaiters
  IN /\ pc[t] = "wait_queue"
     /\ waiters' = IF l.first THEN Append(waiters, t) ELSE <<t>> \o waiters
     /\ mwait' = [mwait EXCEPT ![t].first = FALSE]
     /\ IF slow
        THEN /\ word' = [word EXCEPT !.spin = FALSE]
             /\ waking' = [waking EXCEPT ![t] = [NotWaking EXCEPT !.mode = l.mode]]
             /\ ret' = [ret EXCEPT ![t] = "wait_wait"]
             /\ Goto(t, "unlock_slow")
             /\ UNCHANGED held
        ELSE /\ word' = [released EXCEPT !.spin = FALSE]
             /\ held' = [held EXCEPT ![t] = "none"]
             /\ Goto(t, "wait_wait")
             /\ UNCHANGED <<waking, ret>>
     /\ section' = "fresh"
     /\ UNCHANGED <<waiter, locking, truth, calls, deadlines>>

(* The loop that waits until w->nw.waiting is zero.  After a timeout that  *)
(* another thread's wake-up overtook, it spins.                            *)
WaitTest(t) ==
  /\ pc[t] = "wait_wait"
  /\ \/ ~waiter[t].waiting /\ Goto(t, "wait_woken")
     \/ waiter[t].waiting /\ ~mwait[t].timedOut /\ Goto(t, "wait_p")
  /\ UNCHANGED <<word, waiters, waiter, ret, held, locking, waking, truth, calls,
                 waitOnly>>

WaitP(t) ==
  /\ pc[t] = "wait_p"
  /\ SemaphoreP(t, "wait_wait")
  /\ UNCHANGED <<word, waiters, ret, held, locking, waking, truth, calls, waitOnly>>

WaitDeadlinePasses(t) ==
  /\ pc[t] = "wait_p" /\ deadlines > 0
  /\ deadlines' = deadlines - 1
  /\ mwait' = [mwait EXCEPT ![t].timedOut = TRUE]
  /\ Goto(t, IF waiter[t].waiting THEN "wait_timeout" ELSE "wait_wait")
  /\ UNCHANGED <<word, waiters, waiter, ret, held, locking, waking, truth, calls,
                 section>>

(* mu_try_acquire_after_timeout_or_cancel: spin for the write lock and the *)
(* spinlock together, keeping new readers out meanwhile.                   *)
TimeoutAcquire(t) ==
  /\ pc[t] = "wait_timeout"
  /\ ~Blocked(word, "w", FALSE) /\ ~word.spin
  /\ word' = [Acquired(word, "w", FALSE, FALSE) EXCEPT !.spin = TRUE]
  /\ held' = [held EXCEPT ![t] = "w"]
  /\ locking' = [locking EXCEPT ![t].oldWord = word]
  /\ mwait' = [mwait EXCEPT ![t].swap = "none"]
  /\ Goto(t, "wait_confirm")
  /\ UNCHANGED <<waiters, waiter, ret, waking, truth, calls, section, deadlines>>

(* The word loaded is free, but the swap finds that it has changed since.  *)
TimeoutSwapFails(t) ==
  /\ pc[t] = "wait_timeout"
  /\ \/ /\ ~Blocked(word, "w", FALSE) /\ ~word.spin /\ ~word.writerWaiting
        /\ mwait[t].swap # "loaded"
        /\ locking' = [locking EXCEPT ![t].oldWord = word]
        /\ mwait' = [mwait EXCEPT ![t].swap = "loaded"]
     \/ /\ mwait[t].swap = "loaded" /\ word # locking[t].oldWord
        /\ mwait' = [mwait EXCEPT ![t].swap = "failed"]
        /\ UNCHANGED locking
  /\ UNCHANGED <<word, waiters, waiter, pc, ret, held, waking, truth, calls,
                 section, deadlines>>

(* The bit is set on a word that is blocked, or that has come back to the  *)
(* value loaded after the swap failed.                                     *)
TimeoutAnnounce(t) ==
  /\ pc[t] = "wait_timeout"
  /\ ~word.spin /\ ~word.writerWaiting
  /\ \/ Blocked(word, "w", FALSE)
     \/ mwait[t].swap = "failed" /\ word = locking[t].oldWord
  /\ word' = [word EXCEPT !.writerWaiting = TRUE]
  /\ mwait' = [mwait EXCEPT ![t].swap = "none"]
  /\ UNCHANGED <<waiters, waiter, pc, ret, held, locking, waking, truth, calls,
                 section, deadlines>>

(* Mutant: does not check that no unlock has taken the waiter meanwhile.   *)
TimeoutConfirmUnchecked(t) ==
  /\ pc[t] = "wait_confirm"
  /\ waiters' = SelectSeq(waiters, LAMBDA p : p # t)
  /\ waiter' = [waiter EXCEPT ![t].waiting = FALSE, ![t].removed = TRUE]
  /\ word' = Added(locking[t].oldWord, mwait[t].mode)
  /\ held' = [held EXCEPT ![t] = mwait[t].mode]
  /\ mwait' = [mwait EXCEPT ![t].outcome = "timed out"]
  /\ Goto(t, "wait_eval")
  /\ locking' = [locking EXCEPT ![t] = NotLocking]
  /\ UNCHANGED <<ret, waking, truth, calls, section, deadlines>>

(* The timeout counts only if w is still in the queue.  The word is        *)
(* overwritten with the value it had before the write lock was taken.      *)
TimeoutConfirm(t) ==
  LET oldWord == locking[t].oldWord
      l == mwait[t]
  IN /\ pc[t] = "wait_confirm"
     /\ IF waiter[t].waiting /\ ~waiter[t].removed
        THEN /\ waiters' = Unlinked(waiters, t)
             /\ waiter' = [waiter EXCEPT ![t].waiting = FALSE, ![t].removed = TRUE]
             /\ word' = Added(oldWord, l.mode)
             /\ held' = [held EXCEPT ![t] = l.mode]
             /\ mwait' = [mwait EXCEPT ![t].outcome = "timed out"]
             /\ Goto(t, "wait_eval")
        ELSE /\ word' = oldWord
             /\ held' = [held EXCEPT ![t] = "none"]
             /\ Goto(t, "wait_wait")
             /\ UNCHANGED <<waiters, waiter, mwait>>
     /\ locking' = [locking EXCEPT ![t] = NotLocking]
     /\ UNCHANGED <<ret, waking, truth, calls, section, deadlines>>

WaitReacquire(t) ==
  /\ pc[t] = "wait_woken"
  /\ EnterLockSlow(t, mwait[t].mode, TRUE, "wait_eval")
  /\ UNCHANGED <<calls, waitOnly>>

(* With the mutex held: return, or wait again at the front of the queue.   *)
WaitEvaluate(t) ==
  LET l == mwait[t] IN
  /\ pc[t] = "wait_eval"
  /\ IF l.cond \in truth \/ l.outcome = "timed out"
     THEN /\ mwait' = [mwait EXCEPT ![t] = NotWaiting]
          /\ Goto(t, "client")
          /\ UNCHANGED <<word, waiters, waiter, ret, held, locking, waking, truth>>
     ELSE PrepareWait(t, [l EXCEPT !.timedOut = FALSE])
  /\ UNCHANGED <<calls, section, deadlines>>

-----------------------------------------------------------------------------
(* nsync_mu_unlock_without_wakeup.                                         *)
UnlockWithoutWakeup(t) ==
  /\ pc[t] = "client" /\ held[t] = "w" /\ section # "raised"
  /\ IF word.wlock = 0 \/ word.readers # 0
     THEN Panic(t)
     ELSE \/ /\ ~(word.waiting /\ ~word.desig /\ ~word.allFalse)
             /\ word' = Released(word, "w")
             /\ held' = [held EXCEPT ![t] = "none"]
             /\ UNCHANGED <<waiters, waiter, pc, ret, locking, waking, truth>>
          \/ EnterUnlockSlow(t, "w", "client")
  /\ section' = "fresh"
  /\ UNCHANGED <<calls, mwait, deadlines>>

-----------------------------------------------------------------------------
(* The clients.                                                            *)

ClientLock(t, mode) ==
  /\ Lock(t, mode) \/ TryLock(t, mode)
  /\ UNCHANGED waitOnly

ClientUnlock(t) ==
  /\ Unlock(t)
  /\ section' = "fresh"
  /\ UNCHANGED <<mwait, deadlines>>

(* A writer changes the data, once in a critical section.                  *)
Change(t, c) ==
  /\ pc[t] = "client" /\ held[t] = "w" /\ section = "fresh"
  /\ \/ c \notin truth /\ truth' = truth \cup {c} /\ section' = "raised"
     \/ c \in truth /\ truth' = truth \ {c} /\ section' = "lowered"
  /\ UNCHANGED <<word, waiters, waiter, pc, ret, held, locking, waking, calls,
                 mwait, deadlines>>

-----------------------------------------------------------------------------
WaitStep(t) ==
  \/ WaitSpinlock(t) \/ WaitQueue(t) \/ WaitTest(t) \/ WaitP(t)
  \/ TimeoutAcquire(t) \/ TimeoutSwapFails(t) \/ TimeoutAnnounce(t)
  \/ TimeoutConfirm(t)
  \/ WaitReacquire(t) \/ WaitEvaluate(t)
  \/ ((MuStep(t) \/ TestStep(t)) /\ UNCHANGED waitOnly)

(* Every thread has returned from its last call, or sleeps in the queue    *)
(* until a condition that is false comes true.                             *)
Quiescent ==
  /\ \A t \in Threads :
       \/ pc[t] = "client" /\ held[t] = "none" /\ calls[t] = 0
       \/ pc[t] = "wait_p" /\ t \in Range(waiters) /\ waiter[t].cond \notin truth
  /\ UNCHANGED waitVars

(* The steps of these clients, who lock in these modes.                    *)
WaitNextBy(clients, modes) ==
  \/ \E t \in clients :
       \/ \E mode \in modes : ClientLock(t, mode)
       \/ ClientUnlock(t) \/ UnlockWithoutWakeup(t)
       \/ \E c \in Conditions : MuWait(t, c) \/ Change(t, c)
       \/ WaitStep(t) \/ WaitDeadlinePasses(t)
  \/ Quiescent

WaitNext == WaitNextBy(Threads, Modes)

WaitSpec ==
  WaitInit /\ [][WaitNext]_waitVars
    /\ \A t \in Threads : WF_waitVars(ClientUnlock(t) \/ WaitStep(t))

-----------------------------------------------------------------------------
(* Properties.                                                             *)

(* The waiters that hold back: a scan has put none of them on a wake list. *)
Queued ==
  Range(waiters) \cup
    UNION {Range(waking[t].new) \cup Range(waking[t].kept) : t \in Threads}

Satisfied(p) == waiter[p].cond = NoCondition \/ waiter[p].cond \in truth

(* "illegal to set it inappropriately" (common.h:133): while MU_ALL_FALSE  *)
(* is set and no writer is in its critical section, every queued waiter    *)
(* has a condition and it is false, so that a reader may leave without     *)
(* looking.                                                                *)
AllFalseIsTrue ==
  word.allFalse /\ Holders("w") = {} => \A p \in Queued : ~Satisfied(p)

(* No lost wake-up: while the mutex is free, a waiter that could go on     *)
(* sleeps only as long as some thread is bound to wake it or to take the   *)
(* mutex and pass the duty on.                                             *)
NoConditionMissed ==
  (\E p \in Range(waiters) : Satisfied(p)) /\ word.wlock = 0 /\ word.readers = 0 =>
    \E t \in Threads :
      \/ Awake(t) \/ BeingWoken(t) \/ Scanning(t) \/ MoreToWake(t)
      \/ pc[t] \in {"lock_queue", "wait_timeout"}

(* A waiter that must still be told to go on is on exactly one list, also  *)
(* when its timeout races the scan of an unlock that tests its condition.  *)
WaitWaitersOnOneList ==
  \A t \in Threads :
    Cardinality(MuPlaces(t)) =
      IF waiter[t].waiting /\ pc[t] \notin {"wait_spin", "wait_queue"} THEN 1 ELSE 0

(* Only the thread that took both locks after a timeout writes the word    *)
(* until it stores the old value back: the store undoes no other change.   *)
TimeoutOverwritesNothing ==
  \A t \in Threads :
    pc[t] = "wait_confirm" =>
      word = [Acquired(locking[t].oldWord, "w", FALSE, FALSE) EXCEPT !.spin = TRUE]

(* A wait of t for a condition that stays true returns.                    *)
TrueConditionEndsWait(t) ==
  \A c \in Conditions :
    <>[](c \in truth) => (mwait[t].cond = c ~> pc[t] = "client")
=============================================================================
