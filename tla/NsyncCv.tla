------------------------------ MODULE NsyncCv ------------------------------
(***************************************************************************)
(* The condition variable nsync_cv (library/nsync/internal/cv.c), the      *)
(* Condition of laserd.thread, with the mutex of NsyncMu that its waiters  *)
(* release and reacquire, and to whose queue a signal may move them.       *)
(*                                                                         *)
(* The clients are producers and consumers of items that the mutex         *)
(* protects.  A consumer locks in one of Modes and waits in a loop until   *)
(* there is an item; a producer locks in write mode, adds an item and      *)
(* signals or broadcasts, before or after it unlocks.                      *)
(***************************************************************************)
EXTENDS NsyncMu

CONSTANTS
  Consumers, Producers,  \* a partition of Threads
  Wakers,                \* how producers wake: {"signal"}, {"broadcast"} or both
  Takes,                 \* whether a consumer in write mode removes the item
  CvDeadlines            \* bound: deadlines of waits that pass

ASSUME NsyncCvConstants ==
  /\ Consumers \cup Producers = Threads /\ Consumers \cap Producers = {}
  /\ Wakers \subseteq {"signal", "broadcast"}
  /\ Takes \in BOOLEAN /\ CvDeadlines \in Nat

VARIABLES
  cvWord,     \* pcv->word: CV_SPINLOCK and CV_NON_EMPTY
  cvWaiters,  \* pcv->waiters, first to last
  waits,      \* locals of nsync_cv_wait_with_deadline_generic
  signals,    \* locals of nsync_cv_signal, nsync_cv_broadcast and wake_waiters
  items,      \* the clients' data
  job,        \* how far each client is: "idle", "todo", "done", "told"
  calledIn,   \* the mode in which each consumer called its wait, or "none"
  cvDeadlines \* deadlines that may still pass

cvOnly == <<cvWord, cvWaiters, waits, signals, items, job, calledIn, cvDeadlines>>
cvVars == <<muVars, cvOnly>>

NotOnCv == [mode |-> "w", timedOut |-> FALSE, outcome |-> "woken"]

NotSignalling == [kind |-> "signal", wake |-> <<>>, allReaders |-> FALSE,
                  firstBlocked |-> FALSE]

CvInit ==
  /\ Init
  /\ cvWord = [spin |-> FALSE, nonEmpty |-> FALSE]
  /\ cvWaiters = <<>>
  /\ waits = [t \in Threads |-> NotOnCv]
  /\ signals = [t \in Threads |-> NotSignalling]
  /\ items = 0
  /\ job = [t \in Threads |-> "idle"]
  /\ calledIn = [t \in Threads |-> "none"]
  /\ cvDeadlines = CvDeadlines

-----------------------------------------------------------------------------
(* nsync_cv_wait_with_deadline_generic, on an nsync_mu.                    *)

(* The mode comes from the word of the mutex.                              *)
CvWait(t) ==
  LET mode == IF word.wlock # 0 THEN "w" ELSE "r" IN
  /\ pc[t] = "client" /\ t \in Consumers /\ job[t] = "todo"
  /\ held[t] # "none" /\ items = 0
  /\ IF (word.wlock # 0) <=> (word.readers # 0)
     THEN Panic(t) /\ UNCHANGED <<waits, calledIn>>
     ELSE /\ waiter' = [waiter EXCEPT ![t].waiting = TRUE, ![t].cvMu = TRUE,
                          ![t].cond = NoCondition, ![t].lType = mode]
          /\ waits' = [waits EXCEPT ![t] = [NotOnCv EXCEPT !.mode = mode]]
          /\ calledIn' = [calledIn EXCEPT ![t] = held[t]]
          /\ Goto(t, "cv_enqueue")
          /\ UNCHANGED <<word, waiters, ret, held, locking, waking, truth>>
  /\ UNCHANGED <<calls, cvWord, cvWaiters, signals, items, job, cvDeadlines>>

(* nsync_spin_test_and_set_ on the word of the condition variable.         *)
CvSpinlock(t, from, to, nonEmpty) ==
  /\ pc[t] = from
  /\ ~cvWord.spin
  /\ cvWord' = [spin |-> TRUE, nonEmpty |-> cvWord.nonEmpty \/ nonEmpty]
  /\ Goto(t, to)
  /\ UNCHANGED <<word, waiters, waiter, ret, held, locking, waking, truth, calls,
                 cvWaiters, waits, signals, items, job, calledIn, cvDeadlines>>

CvEnqueueSpinlock(t) == CvSpinlock(t, "cv_enqueue", "cv_queue", TRUE)

(* Queue, remember remove_count, release the spinlock.                     *)
CvQueue(t) ==
  /\ pc[t] = "cv_queue"
  /\ cvWaiters' = Append(cvWaiters, t)
  /\ waiter' = [waiter EXCEPT ![t].removed = FALSE]
  /\ cvWord' = [spin |-> FALSE, nonEmpty |-> TRUE]
  /\ Goto(t, "cv_unlock")
  /\ UNCHANGED <<word, waiters, ret, held, locking, waking, truth, calls,
                 waits, signals, items, job, calledIn, cvDeadlines>>

CvUnlock(t) ==
  /\ pc[t] = "cv_unlock"
  /\ UnlockBody(t, waits[t].mode, "cv_wait")
  /\ UNCHANGED <<calls, cvOnly>>

(* The loop that waits until w->nw.waiting is zero.                        *)
CvWaitTest(t) ==
  /\ pc[t] = "cv_wait"
  /\ Goto(t, CASE ~waiter[t].waiting -> "cv_woken"
               [] waiter[t].waiting /\ ~waits[t].timedOut -> "cv_p"
               [] waiter[t].waiting /\ waits[t].timedOut -> "cv_timeout")
  /\ UNCHANGED <<word, waiters, waiter, ret, held, locking, waking, truth, calls,
                 cvOnly>>

CvP(t) ==
  /\ pc[t] = "cv_p"
  /\ SemaphoreP(t, "cv_wait")
  /\ UNCHANGED <<word, waiters, ret, held, locking, waking, truth, calls, cvOnly>>

CvDeadlinePasses(t) ==
  /\ pc[t] = "cv_p" /\ cvDeadlines > 0
  /\ cvDeadlines' = cvDeadlines - 1
  /\ waits' = [waits EXCEPT ![t].timedOut = TRUE]
  /\ Goto(t, "cv_wait")
  /\ UNCHANGED <<word, waiters, waiter, ret, held, locking, waking, truth, calls,
                 cvWord, cvWaiters, signals, items, job, calledIn>>

CvTimeoutSpinlock(t) == CvSpinlock(t, "cv_timeout", "cv_confirm", FALSE)

(* Mutant: does not check that no signal has taken the waiter meanwhile.   *)
CvConfirmUnchecked(t) ==
  LET rest == SelectSeq(cvWaiters, LAMBDA p : p # t) IN
  /\ pc[t] = "cv_confirm"
  /\ waits' = [waits EXCEPT ![t].outcome = "timed out"]
  /\ cvWaiters' = rest
  /\ waiter' = [waiter EXCEPT ![t].waiting = FALSE, ![t].removed = TRUE]
  /\ cvWord' = [spin |-> FALSE, nonEmpty |-> cvWord.nonEmpty /\ rest # <<>>]
  /\ Goto(t, "cv_wait")
  /\ UNCHANGED <<word, waiters, ret, held, locking, waking, truth, calls,
                 signals, items, job, calledIn, cvDeadlines>>

(* The timeout counts only if w is still in the queue of the condition     *)
(* variable: waiting, and not removed since it was queued.                 *)
CvConfirm(t) ==
  LET rest == Unlinked(cvWaiters, t) IN
  /\ pc[t] = "cv_confirm"
  /\ IF waiter[t].waiting /\ ~waiter[t].removed
     THEN /\ waits' = [waits EXCEPT ![t].outcome = "timed out"]
          /\ cvWaiters' = rest
          /\ waiter' = [waiter EXCEPT ![t].waiting = FALSE, ![t].removed = TRUE]
          /\ cvWord' = [spin |-> FALSE, nonEmpty |-> cvWord.nonEmpty /\ rest # <<>>]
     ELSE /\ cvWord' = [cvWord EXCEPT !.spin = FALSE]
          /\ UNCHANGED <<waits, cvWaiters, waiter>>
  /\ Goto(t, "cv_wait")
  /\ UNCHANGED <<word, waiters, ret, held, locking, waking, truth, calls,
                 signals, items, job, calledIn, cvDeadlines>>

(* Mutant: reacquires in write mode whatever the mode of the wait.         *)
CvReacquireAsWriter(t) ==
  /\ pc[t] = "cv_woken"
  /\ IF waiter[t].cvMu THEN LockBody(t, "w", "client")
     ELSE EnterLockSlow(t, "w", TRUE, "client")
  /\ waits' = [waits EXCEPT ![t] = NotOnCv]
  /\ UNCHANGED <<calls, cvWord, cvWaiters, signals, items, job, calledIn, cvDeadlines>>

(* Reacquire: a waiter that was moved to the mutex is a designated waker.  *)
CvReacquire(t) ==
  /\ pc[t] = "cv_woken"
  /\ IF waiter[t].cvMu THEN LockBody(t, waits[t].mode, "client")
     ELSE EnterLockSlow(t, waits[t].mode, TRUE, "client")
  /\ waits' = [waits EXCEPT ![t] = NotOnCv]
  /\ UNCHANGED <<calls, cvWord, cvWaiters, signals, items, job, calledIn, cvDeadlines>>

-----------------------------------------------------------------------------
(* nsync_cv_signal and nsync_cv_broadcast.                                 *)

CvCall(t, kind) ==
  /\ pc[t] = "client" /\ t \in Producers /\ job[t] = "done"
  /\ signals' = [signals EXCEPT ![t].kind =
                   IF cvWord.nonEmpty THEN kind ELSE @]
  /\ job' = [job EXCEPT ![t] = "told"]
  /\ Goto(t, IF cvWord.nonEmpty THEN "cv_signal" ELSE "client")
  /\ UNCHANGED <<word, waiters, waiter, ret, held, locking, waking, truth, calls,
                 cvWord, cvWaiters, waits, items, calledIn, cvDeadlines>>

CvSignalSpinlock(t) == CvSpinlock(t, "cv_signal", "cv_pick", FALSE)

IsReader(p) == waiter[p].lType = "r"

(* Mutant: takes the first waiter only.                                    *)
PickedFirst(kind) == {i \in DOMAIN cvWaiters : i = 1}

(* A signal takes the first waiter and, if that is a reader, all readers   *)
(* and the first writer; a broadcast takes all.                            *)
Picked(kind) ==
  {i \in DOMAIN cvWaiters :
     \/ kind = "broadcast" \/ i = 1
     \/ /\ IsReader(cvWaiters[1])
        /\ IsReader(cvWaiters[i]) \/ \A j \in 1 .. i - 1 : IsReader(cvWaiters[j])}

SubSeqOf(seq, indices) ==
  [i \in 1 .. Cardinality(indices) |->
     seq[CHOOSE j \in indices : Cardinality({k \in indices : k <= j}) = i]]

CvPick(t) ==
  LET picked == Picked(signals[t].kind)
      wake == SubSeqOf(cvWaiters, picked)
      rest == SubSeqOf(cvWaiters, DOMAIN cvWaiters \ picked)
  IN /\ pc[t] = "cv_pick"
     /\ cvWaiters' = rest
     /\ MarkRemoved(Range(wake))
     /\ signals' = [signals EXCEPT ![t] =
          IF wake = <<>> THEN NotSignalling
          ELSE [@ EXCEPT !.wake = wake,
                         !.allReaders = \A p \in Range(wake) : IsReader(p)]]
     /\ cvWord' = [spin |-> FALSE, nonEmpty |-> cvWord.nonEmpty /\ rest # <<>>]
     /\ Goto(t, IF wake = <<>> THEN "client" ELSE "cv_transfer")
     /\ UNCHANGED <<word, waiters, ret, held, locking, waking, truth, calls,
                    waits, items, job, calledIn, cvDeadlines>>

(* Mutant: does not tell the mutex that it will have waiters.              *)
CvTransferUnannounced(t) ==
  LET wake == signals[t].wake
      blocked == Blocked(word, waiter[Head(wake)].lType, FALSE)
  IN /\ pc[t] = "cv_transfer"
     /\ \/ /\ word.wlock # 0 \/ word.readers # 0
           /\ ~word.spin
           /\ blocked \/ (Len(wake) > 1 /\ ~signals[t].allReaders)
           /\ word' = [word EXCEPT !.spin = TRUE]
           /\ signals' = [signals EXCEPT ![t].firstBlocked = blocked]
           /\ Goto(t, "cv_move")
        \/ /\ Goto(t, "cv_wake")
           /\ UNCHANGED <<word, signals>>
     /\ UNCHANGED <<waiters, waiter, ret, held, locking, waking, truth, calls,
                    cvWord, cvWaiters, waits, items, job, calledIn, cvDeadlines>>

(* wake_waiters: take the spinlock of the mutex if its holder will have to *)
(* wake whom we transfer; a swap that fails leaves every waiter to be      *)
(* woken here.                                                             *)
CvTransfer(t) ==
  LET wake == signals[t].wake
      blocked == Blocked(word, waiter[Head(wake)].lType, FALSE)
  IN /\ pc[t] = "cv_transfer"
     /\ \/ /\ word.wlock # 0 \/ word.readers # 0
           /\ ~word.spin
           /\ blocked \/ (Len(wake) > 1 /\ ~signals[t].allReaders)
           /\ word' = [word EXCEPT !.spin = TRUE, !.waiting = TRUE, !.allFalse = FALSE]
           /\ signals' = [signals EXCEPT ![t].firstBlocked = blocked]
           /\ Goto(t, "cv_move")
        \/ /\ Goto(t, "cv_wake")
           /\ UNCHANGED <<word, signals>>
     /\ UNCHANGED <<waiters, waiter, ret, held, locking, waking, truth, calls,
                    cvWord, cvWaiters, waits, items, job, calledIn, cvDeadlines>>

(* Which elements of the list move to the queue of the mutex.              *)
Moves(s, i) ==
  \/ s.firstBlocked
  \/ i > 1 /\ (~IsReader(s.wake[1]) \/ ~IsReader(s.wake[i]))

CvMove(t) ==
  LET s == signals[t]
      moved == {i \in DOMAIN s.wake : Moves(s, i)}
      movedSeq == SubSeqOf(s.wake, moved)
      stay == SubSeqOf(s.wake, DOMAIN s.wake \ moved)
      movedWriter == \E p \in Range(movedSeq) : ~IsReader(p)
      wokeReader == \E p \in Range(stay) : IsReader(p)
  IN /\ pc[t] = "cv_move"
     /\ waiters' = waiters \o movedSeq
     /\ waiter' = [p \in Threads |->
                     IF p \in Range(movedSeq) THEN [waiter[p] EXCEPT !.cvMu = FALSE]
                     ELSE waiter[p]]
     /\ word' = [word EXCEPT !.spin = FALSE,
                   !.writerWaiting = @ \/ (movedWriter /\ ~wokeReader)]
     /\ signals' = [signals EXCEPT ![t] =
          IF stay = <<>> THEN NotSignalling ELSE [@ EXCEPT !.wake = stay]]
     /\ Goto(t, IF stay = <<>> THEN "client" ELSE "cv_wake")
     /\ UNCHANGED <<ret, held, locking, waking, truth, calls,
                    cvWord, cvWaiters, waits, items, job, calledIn, cvDeadlines>>

CvWake(t) ==
  /\ pc[t] = "cv_wake"
  /\ ClearWaiting(t, Head(signals[t].wake), "cv_v")
  /\ UNCHANGED <<word, waiters, ret, held, locking, waking, truth, calls, cvOnly>>

CvV(t) ==
  LET rest == Tail(signals[t].wake) IN
  /\ pc[t] = "cv_v"
  /\ SemaphoreV(Head(signals[t].wake))
  /\ signals' = [signals EXCEPT ![t] =
                   IF rest = <<>> THEN NotSignalling ELSE [@ EXCEPT !.wake = rest]]
  /\ Goto(t, IF rest = <<>> THEN "client" ELSE "cv_wake")
  /\ UNCHANGED <<word, waiters, ret, held, locking, waking, truth, calls,
                 cvWord, cvWaiters, waits, items, job, calledIn, cvDeadlines>>

-----------------------------------------------------------------------------
(* The clients.                                                            *)

CvClientLock(t, mode) ==
  /\ job[t] = "idle"
  /\ IF t \in Producers THEN mode = "w" ELSE mode \in Modes
  /\ Lock(t, mode)
  /\ job' = [job EXCEPT ![t] = "todo"]
  /\ UNCHANGED <<cvWord, cvWaiters, waits, signals, items, calledIn, cvDeadlines>>

Produce(t) ==
  /\ pc[t] = "client" /\ t \in Producers /\ job[t] = "todo" /\ held[t] = "w"
  /\ items' = items + 1
  /\ job' = [job EXCEPT ![t] = "done"]
  /\ UNCHANGED <<muVars, cvWord, cvWaiters, waits, signals, calledIn, cvDeadlines>>

Consume(t) ==
  /\ pc[t] = "client" /\ t \in Consumers /\ job[t] = "todo" /\ held[t] # "none"
  /\ items > 0
  /\ items' = IF Takes /\ held[t] = "w" THEN items - 1 ELSE items
  /\ job' = [job EXCEPT ![t] = "told"]
  /\ calledIn' = [calledIn EXCEPT ![t] = "none"]
  /\ UNCHANGED <<muVars, cvWord, cvWaiters, waits, signals, cvDeadlines>>

CvClientUnlock(t) ==
  /\ job[t] \in {"done", "told"}
  /\ Unlock(t)
  /\ UNCHANGED cvOnly

-----------------------------------------------------------------------------
CvStep(t) ==
  \/ CvEnqueueSpinlock(t) \/ CvQueue(t) \/ CvUnlock(t) \/ CvWaitTest(t)
  \/ CvP(t) \/ CvTimeoutSpinlock(t) \/ CvConfirm(t) \/ CvReacquire(t)
  \/ CvSignalSpinlock(t) \/ CvPick(t) \/ CvTransfer(t) \/ CvMove(t)
  \/ CvWake(t) \/ CvV(t)
  \/ (MuStep(t) /\ UNCHANGED cvOnly)

ClientStep(t) ==
  \/ \E mode \in {"w", "r"} : CvClientLock(t, mode)
  \/ Produce(t) \/ Consume(t) \/ CvClientUnlock(t) \/ CvWait(t)
  \/ \E kind \in Wakers : CvCall(t, kind)

CvTerminated ==
  /\ \A t \in Threads : pc[t] = "client" /\ held[t] = "none" /\ job[t] = "told"
  /\ UNCHANGED cvVars

CvNext ==
  \/ \E t \in Threads : CvStep(t) \/ ClientStep(t) \/ CvDeadlinePasses(t)
  \/ CvTerminated

(* Every thread runs, and clients do their jobs.                           *)
CvSpec ==
  CvInit /\ [][CvNext]_cvVars
    /\ \A t \in Threads : WF_cvVars(CvStep(t) \/ ClientStep(t))

-----------------------------------------------------------------------------
(* Properties.                                                             *)

(* Where the waiter of t is listed besides: the queue of the condition     *)
(* variable and the lists of signals.                                      *)
CvPlaces(t) ==
  ({<<"cv", "waiters">>} \X Positions(cvWaiters, t)) \cup
  UNION {{<<u, "signal">>} \X Untold(signals[u].wake, pc[u] = "cv_v", t) : u \in Threads}

(* A waiter that must still be told to go on is on exactly one list: the   *)
(* queue of the condition variable, the list of a signal, the queue of the *)
(* mutex or the lists of an unlock.  A signal, a transfer and a timeout    *)
(* that race for a waiter never leave it on two lists or on none.          *)
CvWaitersOnOneList ==
  \A t \in Threads :
    Cardinality(MuPlaces(t)) + Cardinality(CvPlaces(t)) =
      IF waiter[t].waiting /\ pc[t] \notin {"cv_enqueue", "cv_queue"} THEN 1 ELSE 0

(* The threads that are blocked: queued, and out of the mutex.             *)
Sleepers == {t \in Range(cvWaiters) : held[t] = "none"}

(* "Wake at least one thread if any are currently blocked" (cv.c:311): a   *)
(* signal that looks at the queue takes a blocked thread from it, a        *)
(* broadcast takes them all.                                               *)
SignalsReachSleepers ==
  [][\A t \in Threads :
       pc[t] = "cv_pick" /\ pc'[t] # "cv_pick" /\ Sleepers # {} =>
         /\ Sleepers' # Sleepers
         /\ signals[t].kind = "broadcast" => Sleepers' = {}]_cvVars

(* The mode in which a thread that is out of the mutex for a wait called   *)
(* it.                                                                     *)
Owed == [t \in Threads |-> IF held[t] = "none" THEN calledIn[t] ELSE "none"]

CvAbstract ==
  INSTANCE ConditionMonitor WITH holds <- held, sleeping <- Sleepers, owed <- Owed

(* As its callers see it, a wait releases the mutex and blocks in one      *)
(* step, and whether a signal, a broadcast or a timeout ends it, it        *)
(* returns with the mutex held in the mode in which it was called; other   *)
(* calls acquire the mutex only in a mode that its holders allow.          *)
CvImplementsMonitor == CvAbstract!ConditionSpec

(* A thread that was moved to the mutex by a signal, or waits for it, is   *)
(* not left asleep while the mutex is free; a mover still has to let go.   *)
CvNobodyLeftAsleep ==
  waiters # <<>> /\ word.wlock = 0 /\ word.readers = 0 =>
    \E t \in Threads :
      \/ Awake(t) \/ BeingWoken(t) \/ Scanning(t) \/ MoreToWake(t)
      \/ pc[t] \in {"lock_queue", "cv_move"}

(* Client t gets its job done and its calls return.                        *)
Served(t) == job[t] = "todo" ~> job[t] # "todo" /\ held[t] = "none"
=============================================================================
