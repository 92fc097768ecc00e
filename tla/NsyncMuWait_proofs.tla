------------------------- MODULE NsyncMuWait_proofs -------------------------
(***************************************************************************)
(* Proofs about conditional critical sections: with waits, timeouts and    *)
(* unlocks that test conditions, the mutex still excludes, a waiter that   *)
(* must be told is on exactly one list, and a timeout that restores the    *)
(* word overwrites nothing.                                                *)
(***************************************************************************)
EXTENDS NsyncQueue_proofs

(* Nobody else writes the word meanwhile: the thread holds the mutex alone *)
(* and owns its spinlock.                                                  *)
LEMMA ConfirmingAlone ==
  ASSUME CountingLaws, WaitInv, NEW t \in Threads, NEW u \in Threads \ {t},
         pc[u] = "wait_confirm",
         SpinStep(t)
  PROVE  word' = word
<1>1. /\ held[u] = "w" /\ SpinOwner(pc[u], waking[u])
  BY DEF WaitInv, WaitThreadOK, SpinOwner, SpinLabels
<1>2. word.spin /\ ~SpinOwner(pc[t], waking[t])
  BY <1>1 DEF WaitInv, QueueInv, OneOwner
<1>3. held[t] = "none"
  BY <1>1 DEF WaitInv, QueueInv, MuInv, CountsHolders
<1>4. word.wlock # 0
  BY <1>1, UnlockChecksPass DEF WaitInv, QueueInv
<1>. QED BY <1>2, <1>3, <1>4 DEF SpinStep, MayWrite

(* A step of one thread keeps the invariant of all.                        *)
LEMMA WaitKeeps ==
  ASSUME CountingLaws, WaitInv, NEW t \in Threads, QueueStep(t),
         DOMAIN mwait' = Threads, \A u \in Threads \ {t} : mwait'[u] = mwait[u],
         WaitThreadOK(pc'[t], ret'[t], held'[t], locking'[t], mwait'[t], waiter'[t]),
         Confirming(pc'[t], locking'[t], word')
  PROVE  WaitInv'
<1>1. QueueInv' /\ Balanced /\ SpinStep(t) /\ OthersStay(t)
  BY DEF QueueStep
<1>2. ListedOnce'
  <2>1. ASSUME NEW p \in Threads PROVE Cardinality(MuPlaces(p)') = Due(p)'
    <3>1. /\ Cardinality(MuPlaces(p)') + Due(p) = Cardinality(MuPlaces(p)) + Due(p)'
          /\ Cardinality(MuPlaces(p)) = Due(p)
      BY <1>1 DEF Balanced, WaitInv, ListedOnce
    <3>2. Due(p) \in Nat /\ Due(p)' \in Nat
      BY DEF Due
    <3>3. Cardinality(MuPlaces(p))' \in Nat
      <4>1. waiters' \in Seq(Threads)
        BY <1>1 DEF QueueInv, QueueTyped
      <4>2. \A u \in Threads : ListsTyped(waking'[u])
        BY <1>1 DEF QueueInv, QueueTyped, QueueThreadOK, WakeState, ListsTyped
      <4>3. MuPlaces(p)' = PlacesIn(waiters', waking', pc', p)
        BY DEF MuPlaces, PlacesIn, Own, Positions, Untold
      <4>4. IsFiniteSet(PlacesIn(waiters', waking', pc', p))
        BY Zenon, <4>1, <4>2 DEF CountingLaws, PlacesCountLaw
      <4>. QED BY <4>3, <4>4 DEF CountingLaws, CardinalityLaw
    <3>. QED BY <3>1, <3>2, <3>3
  <2>. QED BY <2>1 DEF ListedOnce
<1>3. ASSUME NEW u \in Threads \ {t}
      PROVE  /\ WaitThreadOK(pc'[u], ret'[u], held'[u], locking'[u], mwait'[u], waiter'[u])
             /\ Confirming(pc'[u], locking'[u], word')
  <2>1. /\ pc'[u] = pc[u] /\ ret'[u] = ret[u] /\ held'[u] = held[u]
        /\ locking'[u] = locking[u] /\ mwait'[u] = mwait[u]
        /\ waiter'[u].waiting => waiter[u].waiting
        /\ pc[u] \in Unlisted => waiter'[u].waiting = waiter[u].waiting
    BY <1>1 DEF OthersStay
  <2>2. /\ WaitThreadOK(pc[u], ret[u], held[u], locking[u], mwait[u], waiter[u])
        /\ Confirming(pc[u], locking[u], word)
    BY DEF WaitInv
  <2>3. Confirming(pc'[u], locking'[u], word')
    BY Zenon, <1>1, <2>1, <2>2, ConfirmingAlone DEF Confirming
  <2>. QED BY <2>1, <2>2, <2>3 DEF WaitThreadOK, Unlisted
<1>. QED BY <1>1, <1>2, <1>3 DEF WaitInv

-----------------------------------------------------------------------------
(* Steps of lock and unlock.                                               *)

InUnlock == ScanLabels \cup WakeLabels \cup {"unlock_slow"}

(* How a step of lock or unlock moves its thread: it stays in the call, or *)
(* returns from it with the mutex or without.                              *)
MuMoves(t) ==
  \/ /\ pc[t] \in LockLabels /\ pc'[t] \in LockLabels /\ ret'[t] = ret[t]
     /\ locking'[t].mode = locking[t].mode
  \/ pc[t] \in InUnlock /\ pc'[t] \in InUnlock \cup {"panic"} /\ ret'[t] = ret[t]
  \/ /\ pc[t] \in LockLabels /\ pc'[t] = ret[t] /\ ret'[t] = "client"
     /\ held'[t] = locking[t].mode
  \/ /\ pc[t] \in InUnlock /\ pc'[t] = ret[t] /\ ret'[t] = "client"
     /\ held'[t] = "none"

(* Every step of lock and unlock does.                                     *)
LEMMA MuStepMoves ==
  ASSUME QueueInv, NEW t \in Threads, MuStep(t) \/ TestStep(t)
  PROVE  MuMoves(t)
<1>0. /\ DOMAIN pc = Threads /\ DOMAIN ret = Threads /\ DOMAIN held = Threads
      /\ DOMAIN locking = Threads
      /\ ThreadOK(pc[t], held[t], locking[t], waking[t])
  BY QueueFacts
<1>1. CASE LockSlowAcquire(t)
  BY <1>0, <1>1 DEF LockSlowAcquire, Return, Goto, MuMoves, LockLabels
<1>2. CASE LockSlowSpinlock(t)
  BY <1>0, <1>2 DEF LockSlowSpinlock, Goto, MuMoves, LockLabels
<1>3. CASE LockSlowQueue(t)
  BY <1>0, <1>3 DEF LockSlowQueue, Goto, MuMoves, LockLabels
<1>4. CASE LockSlowWait(t)
  <2>1. DOMAIN locking[t] = DOMAIN NotLocking
    BY <1>0 DEF ThreadOK
  <2>. QED BY <1>0, <1>4, <2>1 DEF LockSlowWait, Goto, MuMoves, LockLabels, NotLocking
<1>5. CASE LockSlowP(t)
  BY <1>0, <1>5 DEF LockSlowP, SemaphoreP, Goto, MuMoves, LockLabels
<1>6. CASE UnlockSlowRelease(t)
  BY <1>0, <1>6 DEF UnlockSlowRelease, Return, Goto, MuMoves, InUnlock
<1>7. CASE UnlockSlowSpinlock(t)
  BY <1>0, <1>7 DEF UnlockSlowSpinlock, Goto, MuMoves, InUnlock, ScanLabels
<1>8. CASE UnlockSlowScan(t)
  BY <1>0, <1>8 DEF UnlockSlowScan, Panic, Goto, MuMoves, InUnlock, ScanLabels
<1>9. CASE UnlockSlowFinish(t)
  BY <1>0, <1>9 DEF UnlockSlowFinish, Return, Goto, MuMoves, InUnlock, ScanLabels, WakeLabels
<1>10. CASE UnlockSlowWake(t)
  BY <1>0, <1>10 DEF UnlockSlowWake, ClearWaiting, Goto, MuMoves, InUnlock, WakeLabels
<1>11. CASE UnlockSlowV(t)
  <2>1. held'[t] = "none"
    BY <1>0, <1>11 DEF UnlockSlowV, ThreadOK, WakeLabels
  <2>. QED BY <1>0, <1>11, <2>1
           DEF UnlockSlowV, SemaphoreV, Return, Goto, MuMoves, InUnlock, WakeLabels
<1>12. CASE TestStep(t)
  BY <1>0, <1>12
  DEF TestStep, UnlockSlowDropSpinlock, UnlockSlowTest, UnlockSlowRespin, Goto, MuMoves,
      InUnlock, ScanLabels
<1>. QED BY <1>1, <1>2, <1>3, <1>4, <1>5, <1>6, <1>7, <1>8, <1>9, <1>10, <1>11, <1>12 DEF MuStep

(* It keeps the invariant of conditional critical sections.                *)
LEMMA MuStepWait ==
  ASSUME CountingLaws, WaitInv, NEW t \in Threads, MuStep(t) \/ TestStep(t), UNCHANGED mwait
  PROVE  WaitInv' /\ LockStep
<1>0. QueueInv /\ MuInv
  BY DEF WaitInv, QueueInv
<1>1. QueueStep(t)
  BY <1>0, MuStepQueue
<1>2. LockStep
  BY <1>0, MuStepStep, UnlockSlowDropSpinlockStep, UnlockSlowTestStep, UnlockSlowRespinStep
  DEF TestStep, LockStep
<1>3. MuMoves(t)
  BY <1>0, MuStepMoves
<1>4. WaitThreadOK(pc[t], ret[t], held[t], locking[t], mwait[t], waiter[t])
  BY DEF WaitInv
<1>5. /\ WaitThreadOK(pc'[t], ret'[t], held'[t], locking'[t], mwait'[t], waiter'[t])
      /\ pc'[t] # "wait_confirm"
  <2>1. /\ mwait'[t] = mwait[t]
        /\ LockLabels \cap InUnlock = {}
        /\ \A x \in {"client", "panic", "wait_spin", "wait_queue", "wait_wait", "wait_p",
              "wait_timeout", "wait_confirm", "wait_woken", "wait_eval"} :
             x \notin LockLabels /\ x \notin InUnlock
    BY DEF LockLabels, InUnlock, ScanLabels, WakeLabels
  <2>2. LockLabels \subseteq WaitPlaces /\ InUnlock \cup {"panic"} \subseteq WaitPlaces
    BY DEF WaitPlaces, MuLabels, InUnlock
  <2>3. CASE /\ pc[t] \in LockLabels /\ pc'[t] \in LockLabels /\ ret'[t] = ret[t]
             /\ locking'[t].mode = locking[t].mode
    BY <1>4, <2>1, <2>2, <2>3 DEF WaitThreadOK, InUnlock
  <2>4. CASE pc[t] \in InUnlock /\ pc'[t] \in InUnlock \cup {"panic"} /\ ret'[t] = ret[t]
    BY <1>4, <2>1, <2>2, <2>4 DEF WaitThreadOK, InUnlock
  <2>5. CASE /\ pc[t] \in LockLabels /\ pc'[t] = ret[t] /\ ret'[t] = "client"
             /\ held'[t] = locking[t].mode
    BY <1>4, <2>1, <2>5 DEF WaitThreadOK, InUnlock, WaitPlaces
  <2>6. CASE /\ pc[t] \in InUnlock /\ pc'[t] = ret[t] /\ ret'[t] = "client"
             /\ held'[t] = "none"
    BY <1>4, <2>1, <2>6 DEF WaitThreadOK, InUnlock, WaitPlaces
  <2>. QED BY <1>3, <2>3, <2>4, <2>5, <2>6 DEF MuMoves
<1>6. Confirming(pc'[t], locking'[t], word')
  BY <1>5 DEF Confirming
<1>7. DOMAIN mwait' = Threads /\ \A u \in Threads \ {t} : mwait'[u] = mwait[u]
  BY DEF WaitInv
<1>. QED BY <1>1, <1>2, <1>5, <1>6, <1>7, WaitKeeps

-----------------------------------------------------------------------------
(* Steps outside lock and unlock.                                          *)

(* A thread that moves between places outside lock and unlock keeps what   *)
(* they rely on, if it leaves the lock bits and the locals alone.          *)
LEMMA OutsideMu ==
  ASSUME QueueInv, NEW t \in Threads, NEW label, label \notin MuLabels,
         pc' = [pc EXCEPT ![t] = label], UNCHANGED <<held, locking, waking, ret>>,
         DOMAIN word' = WordFields, word'.wlock = word.wlock, word'.readers = word.readers
  PROVE  /\ MuInv' /\ pc'[t] = label /\ ret'[t] = ret[t] /\ waking'[t] = waking[t]
         /\ \A u \in Threads \ {t} : pc'[u] = pc[u]
<1>0. MuInv /\ DOMAIN pc = Threads
  BY DEF QueueInv, MuInv
<1>1. CountsHolders(word, held)'
  BY <1>0 DEF MuInv, CountsHolders
<1>2. OthersWait(t) /\ DOMAIN pc' = Threads /\ pc'[t] = label
  BY <1>0 DEF OthersWait
<1>3. ThreadOK(pc'[t], held'[t], locking'[t], waking'[t])
  <2>1. locking'[t] = locking[t] /\ waking'[t] = waking[t]
    OBVIOUS
  <2>. QED BY <1>0, <1>2, <2>1, LocalsStayOK, OutsideOK
<1>4. MuInv'
  BY <1>0, <1>1, <1>2, <1>3, ThreadStep DEF MuInv
<1>. QED BY <1>0, <1>2, <1>4

(* Such a step that leaves the queue alone keeps every waiter listed.      *)
LEMMA OutsideQuiet ==
  ASSUME CountingLaws, QueueInv, NEW t \in Threads, Idle(pc[t]), NEW label, Idle(label),
         pc' = [pc EXCEPT ![t] = label],
         UNCHANGED <<word, waiters, held, locking, waking, ret>>,
         DOMAIN waiter' = Threads, waiter'[t] \in WaiterState,
         waiter'[t].waiting = waiter[t].waiting, waiter'[t].removed = waiter[t].removed,
         \A p \in Threads \ {t} : waiter'[p] = waiter[p],
         waiter[t].waiting => label \in ParkedLabels
  PROVE  QueueStep(t)
<1>1. /\ MuInv' /\ pc'[t] = label /\ ret'[t] = ret[t] /\ waking'[t] = waking[t]
      /\ \A u \in Threads \ {t} : pc'[u] = pc[u]
  <2>1. DOMAIN word' = WordFields /\ word'.wlock = word.wlock /\ word'.readers = word.readers
    BY QueueFacts
  <2>. QED BY Zenon, <2>1, OutsideMu DEF Idle
<1>2. OthersStay(t)
  BY <1>1 DEF OthersStay
<1>3. QueueThreadOK(pc'[t], ret'[t], waking'[t], waiter'[t])
  <2>1. label \notin MuLabels /\ ret[t] \notin Afar /\ waking[t] \in WakeState
    BY IdleFacts DEF Idle
  <2>2. waiter'[t].waiting => MayWait(label, ret[t])
    BY DEF MayWait
  <2>3. waking[t].testing => waking[t].late
    BY IdleFacts
  <2>4. NoLists(waking[t])
    BY IdleFacts
  <2>. QED BY <1>1, <2>1, <2>2, <2>3, <2>4, OutsideQueueOK
<1>4. ~SpinOwner(pc'[t], waking'[t]) /\ pc'[t] # "unlock_v" /\ pc'[t] \notin Unlisted
  BY <1>1, IdleAfter
<1>5. NoLists(waking[t]) /\ NoLists(waking'[t]) /\ pc[t] # "unlock_v" /\ pc[t] \notin Unlisted
  BY <1>1, IdleFacts
<1>6. \A p \in Threads :
        /\ waiter'[p] \in WaiterState /\ waiter'[p].waiting = waiter[p].waiting
        /\ waiter[p].removed => waiter'[p].removed \/ Due(p) = 0
  BY QueueFacts
<1>7. WordBits(word') /\ word' = word /\ word'.spin = word.spin
  BY QueueFacts
<1>. QED BY <1>1, <1>2, <1>3, <1>4, <1>5, <1>6, <1>7, QuietStep

-----------------------------------------------------------------------------
(* Steps of nsync_mu_wait_with_deadline.                                   *)

(* Steps of the loop that waits, and the return from the call.             *)
LEMMA LoopWait ==
  ASSUME CountingLaws, WaitInv, NEW t \in Threads, NEW label,
         \/ pc[t] \in {"wait_wait", "wait_p"} /\ label \in {"wait_wait", "wait_p", "wait_timeout"}
         \/ pc[t] = "wait_wait" /\ label = "wait_woken" /\ ~waiter[t].waiting
         \/ pc[t] = "wait_eval" /\ label = "client",
         pc' = [pc EXCEPT ![t] = label],
         UNCHANGED <<word, waiters, held, locking, waking, ret>>,
         DOMAIN waiter' = Threads, waiter'[t] \in WaiterState,
         waiter'[t].waiting = waiter[t].waiting, waiter'[t].removed = waiter[t].removed,
         \A p \in Threads \ {t} : waiter'[p] = waiter[p],
         DOMAIN mwait' = Threads, \A u \in Threads \ {t} : mwait'[u] = mwait[u],
         WaitLocals(mwait'[t])
  PROVE  WaitInv' /\ LockStep
<1>0. /\ QueueInv /\ DOMAIN mwait = Threads /\ DOMAIN pc = Threads
      /\ WaitThreadOK(pc[t], ret[t], held[t], locking[t], mwait[t], waiter[t])
  BY WaitFacts, QueueFacts
<1>1. Idle(pc[t]) /\ Idle(label)
  BY WaitIdle
<1>2. waiter[t].waiting => label \in ParkedLabels
  <2>1. CASE pc[t] = "wait_eval"
    <3>1. QueueThreadOK("wait_eval", ret[t], waking[t], waiter[t])
      BY <1>0, <2>1, QueueFacts
    <3>. QED BY <3>1 DEF QueueThreadOK, MayWait, ParkedLabels, Unlisted, UnlockLabels
  <2>2. CASE pc[t] # "wait_eval"
    BY <2>2 DEF ParkedLabels
  <2>. QED BY <2>1, <2>2
<1>3. QueueStep(t)
  BY Zenon, <1>0, <1>1, <1>2, OutsideQuiet
<1>4. /\ pc'[t] = label /\ ret'[t] = ret[t] /\ held'[t] = held[t] /\ locking'[t] = locking[t]
  BY <1>0
<1>5. label \notin MuLabels /\ label \in WaitPlaces
  BY <1>1 DEF Idle, WaitPlaces
<1>6. label \notin LockLabels \cup ScanLabels \cup WakeLabels \cup {"unlock_slow"}
  BY <1>5 DEF MuLabels
<1>7. WaitThreadOK(pc'[t], ret'[t], held'[t], locking'[t], mwait'[t], waiter'[t])
  BY <1>0, <1>4, <1>5, <1>6 DEF WaitThreadOK
<1>8. Confirming(pc'[t], locking'[t], word')
  BY <1>4 DEF Confirming
<1>. QED BY <1>3, <1>4, <1>7, <1>8, WaitKeeps DEF LockStep

(* Waiting to be told, and waiting on the semaphore, with a deadline.      *)
LEMMA WaitLoopWait ==
  ASSUME CountingLaws, WaitInv, NEW t \in Threads,
         WaitTest(t) \/ WaitP(t) \/ WaitDeadlinePasses(t)
  PROVE  WaitInv' /\ LockStep
<1>0. /\ QueueInv /\ DOMAIN mwait = Threads /\ DOMAIN waiter = Threads
      /\ WaitThreadOK(pc[t], ret[t], held[t], locking[t], mwait[t], waiter[t])
      /\ \A p \in Threads : waiter[p] \in WaiterState
  BY WaitFacts, QueueFacts
<1>1. WaitLocals(mwait[t])
  BY <1>0 DEF WaitThreadOK
<1>3. CASE WaitTest(t)
  <2>1. \/ ~waiter[t].waiting /\ pc' = [pc EXCEPT ![t] = "wait_woken"]
        \/ pc' = [pc EXCEPT ![t] = "wait_p"]
    BY <1>3 DEF WaitTest, Goto
  <2>2. /\ pc[t] = "wait_wait" /\ UNCHANGED <<word, waiters, waiter, held, locking, waking, ret>>
        /\ UNCHANGED mwait
    BY <1>3 DEF WaitTest, waitOnly
  <2>3. \E label : /\ (label = "wait_woken" /\ ~waiter[t].waiting) \/ label = "wait_p"
                   /\ pc' = [pc EXCEPT ![t] = label]
    BY <2>1
  <2>. QED BY Zenon, <1>0, <1>1, <2>2, <2>3, LoopWait
<1>4. CASE WaitP(t)
  <2>1. /\ pc[t] = "wait_p" /\ UNCHANGED <<word, waiters, held, locking, waking, ret, mwait>>
        /\ pc' = [pc EXCEPT ![t] = "wait_wait"] /\ waiter[t].sem > 0
        /\ waiter' = [waiter EXCEPT ![t].sem = @ - 1]
    BY <1>4 DEF WaitP, SemaphoreP, Goto, waitOnly
  <2>2. /\ DOMAIN waiter' = Threads /\ waiter'[t] \in WaiterState
        /\ waiter'[t].waiting = waiter[t].waiting /\ waiter'[t].removed = waiter[t].removed
        /\ \A p \in Threads \ {t} : waiter'[p] = waiter[p]
    BY <1>0, <2>1 DEF WaiterState
  <2>. QED BY Zenon, <1>0, <1>1, <2>1, <2>2, LoopWait
<1>5. CASE WaitDeadlinePasses(t)
  <2>. DEFINE m == [mwait[t] EXCEPT !.timedOut = TRUE]
              label == IF waiter[t].waiting THEN "wait_timeout" ELSE "wait_wait"
  <2>1. /\ pc[t] = "wait_p" /\ UNCHANGED <<word, waiters, waiter, held, locking, waking, ret>>
        /\ pc' = [pc EXCEPT ![t] = label] /\ mwait' = [mwait EXCEPT ![t] = m]
    BY <1>5 DEF WaitDeadlinePasses, Goto
  <2>2. WaitLocals(m)
    BY <1>1 DEF WaitLocals, WaitFields, NotWaiting
  <2>3. label \in {"wait_wait", "wait_p", "wait_timeout"}
    OBVIOUS
  <2>. HIDE DEF m, label
  <2>4. /\ DOMAIN mwait' = Threads /\ mwait'[t] = m
        /\ \A u \in Threads \ {t} : mwait'[u] = mwait[u]
    BY <1>0, <2>1
  <2>. QED BY Zenon, <1>0, <2>1, <2>2, <2>3, <2>4, LoopWait
<1>. QED BY <1>3, <1>4, <1>5

(* A turn of the loop of the call prepares the waiter: it is marked as     *)
(* waiting before it is queued.                                            *)
LEMMA PrepareWaitWait ==
  ASSUME CountingLaws, WaitInv, NEW t \in Threads, pc[t] \in {"client", "wait_eval"},
         NEW l, WaitLocals(l), held[t] = l.mode, PrepareWait(t, l)
  PROVE  WaitInv' /\ LockStep
<1>0. /\ QueueInv /\ DOMAIN mwait = Threads /\ DOMAIN waiter = Threads /\ DOMAIN pc = Threads
      /\ WaitThreadOK(pc[t], ret[t], held[t], locking[t], mwait[t], waiter[t])
      /\ \A p \in Threads : waiter[p] \in WaiterState
      /\ DOMAIN word = WordFields /\ WordBits(word)
      /\ QueueThreadOK(pc[t], ret[t], waking[t], waiter[t])
  BY WaitFacts, QueueFacts
<1>1. /\ waiter' = [waiter EXCEPT ![t].cvMu = FALSE, ![t].lType = l.mode,
                      ![t].cond = l.cond, ![t].waiting = TRUE, ![t].removed = FALSE]
      /\ mwait' = [mwait EXCEPT ![t] = l] /\ pc' = [pc EXCEPT ![t] = "wait_spin"]
      /\ UNCHANGED <<word, waiters, held, locking, waking, ret>>
  BY DEF PrepareWait, Goto
<1>2. Idle(pc[t])
  BY WaitIdle
<1>3. /\ NoLists(waking[t]) /\ waking[t] \in WakeState /\ ret[t] \notin Afar
      /\ pc[t] # "unlock_v"
  BY <1>0, <1>2, IdleFacts
<1>4. waking[t].testing => waking[t].late
  BY <1>0, <1>2, IdleFacts
<1>5. ~waiter[t].waiting
  BY <1>0 DEF QueueThreadOK, MayWait, ParkedLabels, Unlisted, UnlockLabels
<1>6. /\ DOMAIN waiter' = Threads /\ waiter'[t].waiting /\ waiter'[t] \in WaiterState
      /\ \A p \in Threads \ {t} : waiter'[p] = waiter[p]
  <2>1. /\ DOMAIN waiter' = Threads /\ \A p \in Threads \ {t} : waiter'[p] = waiter[p]
        /\ waiter'[t] = [[[[[waiter[t] EXCEPT !.cvMu = FALSE] EXCEPT !.lType = l.mode]
                             EXCEPT !.cond = l.cond] EXCEPT !.waiting = TRUE]
                             EXCEPT !.removed = FALSE]
    BY <1>0, <1>1
  <2>2. waiter[t] \in WaiterState
    BY Zenon, <1>0
  <2>3. l.mode \in LockModes /\ l.cond \in Conditions \cup {NoCondition}
    BY Zenon DEF WaitLocals
  <2>. QED BY <2>1, <2>2, <2>3 DEF WaiterState
<1>7. "wait_spin" \notin MuLabels
  BY DEF MuLabels, LockLabels, ScanLabels, WakeLabels
<1>8. /\ MuInv' /\ pc'[t] = "wait_spin" /\ ret'[t] = ret[t] /\ waking'[t] = waking[t]
      /\ \A u \in Threads \ {t} : pc'[u] = pc[u]
  BY Zenon, <1>0, <1>1, <1>7, OutsideMu
<1>9. OthersStay(t)
  BY <1>1, <1>6, <1>8 DEF OthersStay
<1>10. QueueThreadOK(pc'[t], ret'[t], waking'[t], waiter'[t])
  <2>1. MayWait("wait_spin", ret[t])
    BY DEF MayWait, Unlisted
  <2>. QED BY <1>3, <1>4, <1>6, <1>7, <1>8, <2>1, OutsideQueueOK
<1>11. SpinStep(t)
  <2>1. ~SpinOwner(pc'[t], waking'[t])
    BY <1>8 DEF SpinOwner, SpinLabels
  <2>. QED BY <1>1, <2>1, SpinQuiet
<1>12. StepTyped(t)
  <2>1. \A p \in Threads : Untold(waking'[t].wake, pc'[t] = "unlock_v", p) = {}
    BY Zenon, <1>3, <1>8, NoListsUntold
  <2>2. waiters' \in Seq(Threads) /\ WordBits(word')
    BY <1>0, <1>1 DEF QueueInv, QueueTyped
  <2>3. Due(t) = 0
    BY <1>5 DEF Due
  <2>4. \A p \in Threads : /\ waiter'[p] \in WaiterState
                           /\ waiter[p].removed => waiter'[p].removed \/ Due(p) = 0
    BY <1>0, <1>6, <2>3
  <2>. QED BY <1>6, <1>10, <2>1, <2>2, <2>4 DEF StepTyped
<1>13. HereBalanced(t)
  <2>1. ASSUME NEW p \in Threads PROVE Here(t, p)' = Here(t, p) /\ Due(p)' = Due(p)
    <3>1. waiters \in Seq(Threads)
      BY <1>0 DEF QueueInv, QueueTyped
    <3>2. Here(t, p) = Times(waiters, p) /\ Here(t, p)' = Times(waiters, p)
      BY <1>1, <1>3, <1>8, <3>1, HereCounted, NoListsCounted
    <3>3. Due(p)' = Due(p)
      BY <1>5, <1>6, <1>8 DEF Due, Unlisted
    <3>. QED BY <3>2, <3>3
  <2>. QED BY <2>1 DEF HereBalanced
<1>14. QueueStep(t)
  BY <1>0, <1>8, <1>9, <1>11, <1>12, <1>13, QueueKeeps DEF QueueStep
<1>15. /\ DOMAIN mwait' = Threads /\ mwait'[t] = l
       /\ \A u \in Threads \ {t} : mwait'[u] = mwait[u]
  BY <1>0, <1>1
<1>16. /\ WaitThreadOK(pc'[t], ret'[t], held'[t], locking'[t], mwait'[t], waiter'[t])
       /\ Confirming(pc'[t], locking'[t], word')
  <2>1. held'[t] = l.mode /\ "wait_spin" \in WaitPlaces
    BY <1>1 DEF WaitPlaces
  <2>2. "wait_spin" \notin LockLabels \cup ScanLabels \cup WakeLabels \cup {"unlock_slow"}
    BY <1>7 DEF MuLabels
  <2>. QED BY <1>0, <1>6, <1>8, <1>15, <2>1, <2>2 DEF WaitThreadOK, Confirming
<1>. QED BY Zenon, <1>1, <1>14, <1>15, <1>16, WaitKeeps DEF LockStep

(* Steps that change nothing of the mutex and the waits.                   *)
LEMMA WaitStutters ==
  ASSUME WaitInv, UNCHANGED <<word, waiters, waiter, pc, ret, held, locking, waking, mwait>>
  PROVE  WaitInv' /\ LockStep
<1>1. QueueInv'
  BY QueueStutters DEF WaitInv
<1>2. \A p \in Threads : MuPlaces(p)' = MuPlaces(p) /\ Due(p)' = Due(p)
  BY DEF MuPlaces, Due, Untold, Positions
<1>3. ListedOnce'
  BY <1>2 DEF WaitInv, ListedOnce
<1>4. \A t \in Threads :
        /\ WaitThreadOK(pc'[t], ret'[t], held'[t], locking'[t], mwait'[t], waiter'[t])
        /\ Confirming(pc'[t], locking'[t], word')
  BY DEF WaitInv
<1>. QED BY <1>1, <1>3, <1>4 DEF WaitInv, LockStep

(* nsync_mu_wait_with_deadline starts: the condition is true already, or   *)
(* the waiter is prepared; its check of the word passes.                   *)
LEMMA MuWaitWait ==
  ASSUME CountingLaws, WaitInv, NEW t \in Threads, NEW c \in Conditions, MuWait(t, c)
  PROVE  WaitInv' /\ LockStep
<1>0. MuInv
  BY WaitFacts
<1>1. pc[t] = "client" /\ held[t] # "none"
  BY DEF MuWait
<1>2. /\ held[t] \in LockModes /\ ~(word.wlock = 0 /\ word.readers = 0)
      /\ held[t] = IF word.readers # 0 THEN "r" ELSE "w"
  BY <1>0, <1>1, HolderReadsMode
<1>3. CASE UNCHANGED <<word, waiters, waiter, pc, ret, held, locking, waking, truth, mwait>>
  BY <1>3, WaitStutters
<1>. DEFINE l == [NotWaiting EXCEPT !.cond = c, !.mode = IF word.readers # 0 THEN "r" ELSE "w"]
<1>4. CASE PrepareWait(t, l)
  <2>1. WaitLocals(l) /\ held[t] = l.mode
    BY <1>2 DEF WaitLocals, WaitFields, NotWaiting, LockModes
  <2>. HIDE DEF l
  <2>. QED BY <1>1, <1>4, <2>1, PrepareWaitWait
<1>5. \/ UNCHANGED <<word, waiters, waiter, pc, ret, held, locking, waking, truth, mwait>>
      \/ PrepareWait(t, l)
  BY <1>2 DEF MuWait
<1>. QED BY <1>3, <1>4, <1>5

(* Its loop ends, or prepares the waiter again.                            *)
LEMMA WaitEvaluateWait ==
  ASSUME CountingLaws, WaitInv, NEW t \in Threads, WaitEvaluate(t)
  PROVE  WaitInv' /\ LockStep
<1>0. /\ QueueInv /\ DOMAIN mwait = Threads /\ DOMAIN waiter = Threads
      /\ WaitThreadOK(pc[t], ret[t], held[t], locking[t], mwait[t], waiter[t])
      /\ \A p \in Threads : waiter[p] \in WaiterState
  BY WaitFacts, QueueFacts
<1>1. pc[t] = "wait_eval" /\ WaitLocals(mwait[t]) /\ held[t] = mwait[t].mode
  BY Zenon, <1>0 DEF WaitEvaluate, WaitThreadOK
<1>2. CASE /\ mwait' = [mwait EXCEPT ![t] = NotWaiting] /\ Goto(t, "client")
           /\ UNCHANGED <<word, waiters, waiter, ret, held, locking, waking, truth>>
  <2>1. WaitLocals(NotWaiting)
    BY DEF WaitLocals, WaitFields, NotWaiting, LockModes
  <2>2. /\ DOMAIN mwait' = Threads /\ mwait'[t] = NotWaiting
        /\ \A u \in Threads \ {t} : mwait'[u] = mwait[u]
    BY <1>0, <1>2
  <2>. QED BY Zenon, <1>0, <1>1, <1>2, <2>1, <2>2, LoopWait DEF Goto
<1>. DEFINE l == [mwait[t] EXCEPT !.timedOut = FALSE]
<1>3. CASE PrepareWait(t, l)
  <2>1. WaitLocals(l) /\ held[t] = l.mode
    BY <1>1 DEF WaitLocals, WaitFields, NotWaiting
  <2>. HIDE DEF l
  <2>. QED BY <1>1, <1>3, <2>1, PrepareWaitWait
<1>. QED BY Zenon, <1>2, <1>3 DEF WaitEvaluate

(* Taking the spinlock to queue the waiter.                                *)
LEMMA WaitSpinlockWait ==
  ASSUME CountingLaws, WaitInv, NEW t \in Threads, WaitSpinlock(t)
  PROVE  WaitInv' /\ LockStep
<1>0. /\ QueueInv /\ DOMAIN mwait = Threads /\ DOMAIN waiter = Threads
      /\ WaitThreadOK(pc[t], ret[t], held[t], locking[t], mwait[t], waiter[t])
      /\ \A p \in Threads : waiter[p] \in WaiterState
      /\ DOMAIN word = WordFields /\ WordBits(word)
  BY WaitFacts, QueueFacts
<1>. DEFINE m == [mwait[t] EXCEPT !.hadWaiters = word.waiting /\ ~word.desig]
<1>1. /\ pc[t] = "wait_spin" /\ ~word.spin /\ mwait' = [mwait EXCEPT ![t] = m]
      /\ word' = [word EXCEPT !.spin = TRUE, !.waiting = TRUE, !.condition = TRUE,
                              !.allFalse = FALSE]
      /\ pc' = [pc EXCEPT ![t] = "wait_queue"]
      /\ UNCHANGED <<waiters, waiter, ret, held, locking, waking>>
  BY DEF WaitSpinlock, Goto
<1>2. /\ WaitLocals(mwait[t]) /\ waiter[t].waiting /\ held[t] = mwait[t].mode
      /\ ret[t] \in {"client", "wait_wait", "wait_eval"}
  BY <1>0, <1>1 DEF WaitThreadOK
<1>3. WaitLocals(m) /\ m.mode = mwait[t].mode
  BY <1>2 DEF WaitLocals, WaitFields, NotWaiting
<1>. HIDE DEF m
<1>4. /\ DOMAIN word' = WordFields /\ WordBits(word') /\ word'.spin
      /\ word'.wlock = word.wlock /\ word'.readers = word.readers
  BY <1>0, <1>1 DEF WordFields, WordBits
<1>5. "wait_queue" \notin MuLabels
  BY DEF MuLabels, LockLabels, ScanLabels, WakeLabels
<1>6. /\ MuInv' /\ pc'[t] = "wait_queue" /\ ret'[t] = ret[t] /\ waking'[t] = waking[t]
      /\ \A u \in Threads \ {t} : pc'[u] = pc[u]
  BY Zenon, <1>0, <1>1, <1>4, <1>5, OutsideMu
<1>7. OthersStay(t)
  BY <1>1, <1>6 DEF OthersStay
<1>8. QueueThreadOK(pc'[t], ret'[t], waking'[t], waiter'[t])
  <2>1. MayWait("wait_queue", ret[t])
    BY DEF MayWait, Unlisted
  <2>2. waiter'[t] \in WaiterState
    BY <1>0, <1>1
  <2>. QED BY <1>1, <1>5, <1>6, <2>1, <2>2, UnlistedFacts, OutsideQueueOK
<1>9. SpinStep(t)
  BY Zenon, <1>1, <1>4, <1>6 DEF SpinStep, MayWrite
<1>10. Quietly(t)
  BY <1>0, <1>1, <1>4, <1>6, <1>8 DEF Quietly, Unlisted
<1>11. QueueStep(t)
  BY <1>0, <1>6, <1>7, <1>9, <1>10, QuietKeeps
<1>12. /\ DOMAIN mwait' = Threads /\ mwait'[t] = m
       /\ \A u \in Threads \ {t} : mwait'[u] = mwait[u]
  BY <1>0, <1>1
<1>13. /\ WaitThreadOK(pc'[t], ret'[t], held'[t], locking'[t], mwait'[t], waiter'[t])
       /\ Confirming(pc'[t], locking'[t], word')
  <2>1. "wait_queue" \notin LockLabels \cup ScanLabels \cup WakeLabels \cup {"unlock_slow"}
    BY <1>5 DEF MuLabels
  <2>. QED BY <1>1, <1>2, <1>3, <1>6, <1>12, <2>1 DEF WaitThreadOK, Confirming, WaitPlaces
<1>. QED BY <1>1, <1>11, <1>12, <1>13, WaitKeeps DEF LockStep

(* A timed-out thread notes how its swap went.                             *)
LEMMA SwapNoted ==
  ASSUME DOMAIN mwait = Threads, NEW t \in Threads, WaitLocals(mwait[t]), NEW s,
         mwait' = [mwait EXCEPT ![t].swap = s]
  PROVE  /\ DOMAIN mwait' = Threads /\ WaitLocals(mwait'[t])
         /\ mwait'[t].mode = mwait[t].mode
         /\ \A u \in Threads \ {t} : mwait'[u] = mwait[u]
<1>. DEFINE m == [mwait[t] EXCEPT !.swap = s]
<1>1. /\ DOMAIN mwait' = Threads /\ mwait'[t] = m
      /\ \A u \in Threads \ {t} : mwait'[u] = mwait[u]
  OBVIOUS
<1>2. WaitLocals(m) /\ m.mode = mwait[t].mode
  BY DEF WaitLocals, WaitFields, NotWaiting
<1>. QED BY Zenon, <1>1, <1>2

(* The word it loaded has changed: only its own locals do.                 *)
LEMMA TimeoutSwapFailsWait ==
  ASSUME CountingLaws, WaitInv, NEW t \in Threads, TimeoutSwapFails(t)
  PROVE  WaitInv' /\ LockStep
<1>0. /\ QueueInv /\ MuInv /\ DOMAIN mwait = Threads /\ DOMAIN waiter = Threads
      /\ WaitThreadOK(pc[t], ret[t], held[t], locking[t], mwait[t], waiter[t])
      /\ QueueThreadOK(pc[t], ret[t], waking[t], waiter[t])
      /\ \A p \in Threads : waiter[p] \in WaiterState
      /\ DOMAIN word = WordFields /\ WordBits(word) /\ DOMAIN locking = Threads
      /\ WaitLocals(mwait[t])
  BY WaitFacts, QueueFacts DEF WaitThreadOK
<1>. DEFINE k == [locking[t] EXCEPT !.oldWord = word]
<1>1. /\ pc[t] = "wait_timeout"
      /\ locking' = [locking EXCEPT ![t] = k] \/ locking' = locking
      /\ \E s \in {"loaded", "failed"} : mwait' = [mwait EXCEPT ![t].swap = s]
      /\ UNCHANGED <<word, waiters, waiter, pc, ret, held, waking>>
  BY DEF TimeoutSwapFails
<1>2. LocalsOK(locking'[t], waking[t]) /\ locking'[t].mode = locking[t].mode
  <2>1. LocalsOK(locking[t], waking[t])
    BY <1>0, LocalsStayOK
  <2>2. LocalsOK(k, waking[t]) /\ k.mode = locking[t].mode
    BY <2>1 DEF LocalsOK, NotLocking
  <2>. HIDE DEF k
  <2>. QED BY <1>0, <1>1, <2>1, <2>2
<1>. HIDE DEF k
<1>3. /\ DOMAIN mwait' = Threads /\ WaitLocals(mwait'[t])
      /\ mwait'[t].mode = mwait[t].mode
      /\ \A u \in Threads \ {t} : mwait'[u] = mwait[u]
  BY Zenon, <1>0, <1>1, SwapNoted
<1>4. DOMAIN locking' = Threads /\ OthersStay(t) /\ OthersWait(t)
  BY <1>0, <1>1 DEF OthersStay, OthersWait
<1>5. MuInv'
  <2>1. "wait_timeout" \notin MuLabels
    BY DEF MuLabels, LockLabels, ScanLabels, WakeLabels
  <2>2. ThreadOK(pc'[t], held'[t], locking'[t], waking'[t])
    BY <1>1, <1>2, <2>1, OutsideOK
  <2>. QED BY <1>0, <1>1, <1>4, <2>2, ThreadStep DEF MuInv
<1>6. SpinStep(t)
  BY <1>1 DEF SpinStep, SpinOwner, SpinLabels
<1>7. Quietly(t)
  BY <1>0, <1>1 DEF Quietly
<1>8. QueueStep(t)
  BY Zenon, <1>0, <1>4, <1>5, <1>6, <1>7, QuietKeeps
<1>9. /\ WaitThreadOK(pc'[t], ret'[t], held'[t], locking'[t], mwait'[t], waiter'[t])
      /\ Confirming(pc'[t], locking'[t], word')
  BY <1>0, <1>1, <1>2, <1>3 DEF WaitThreadOK, Confirming
<1>. QED BY Zenon, <1>1, <1>3, <1>8, <1>9, WaitKeeps DEF LockStep

(* A timed-out thread keeps new readers out.                               *)
LEMMA TimeoutAnnounceWait ==
  ASSUME CountingLaws, WaitInv, NEW t \in Threads, TimeoutAnnounce(t)
  PROVE  WaitInv' /\ LockStep
<1>0. /\ QueueInv /\ MuInv /\ DOMAIN mwait = Threads /\ DOMAIN waiter = Threads
      /\ WaitThreadOK(pc[t], ret[t], held[t], locking[t], mwait[t], waiter[t])
      /\ QueueThreadOK(pc[t], ret[t], waking[t], waiter[t])
      /\ \A p \in Threads : waiter[p] \in WaiterState
      /\ DOMAIN word = WordFields /\ WordBits(word) /\ WaitLocals(mwait[t])
  BY WaitFacts, QueueFacts DEF WaitThreadOK
<1>1. /\ pc[t] = "wait_timeout" /\ ~word.spin
      /\ mwait' = [mwait EXCEPT ![t].swap = "none"]
      /\ word' = [word EXCEPT !.writerWaiting = TRUE]
      /\ UNCHANGED <<waiters, waiter, pc, ret, held, locking, waking>>
  BY DEF TimeoutAnnounce
<1>2. /\ DOMAIN word' = WordFields /\ WordBits(word') /\ word'.spin = word.spin
      /\ word'.wlock = word.wlock /\ word'.readers = word.readers
  BY <1>0, <1>1 DEF WordFields, WordBits
<1>3. MuInv'
  BY <1>0, <1>1, <1>2 DEF MuInv, CountsHolders
<1>4. OthersStay(t)
  BY <1>1 DEF OthersStay
<1>5. SpinStep(t)
  BY <1>1, <1>2 DEF SpinStep, MayWrite, SpinOwner, SpinLabels
<1>6. Quietly(t)
  BY <1>0, <1>1, <1>2 DEF Quietly
<1>7. QueueStep(t)
  BY <1>0, <1>3, <1>4, <1>5, <1>6, QuietKeeps
<1>8. /\ DOMAIN mwait' = Threads /\ WaitLocals(mwait'[t])
      /\ mwait'[t].mode = mwait[t].mode
      /\ \A u \in Threads \ {t} : mwait'[u] = mwait[u]
  BY Zenon, <1>0, <1>1, SwapNoted
<1>9. /\ WaitThreadOK(pc'[t], ret'[t], held'[t], locking'[t], mwait'[t], waiter'[t])
      /\ Confirming(pc'[t], locking'[t], word')
  BY <1>0, <1>1, <1>8 DEF WaitThreadOK, Confirming
<1>. QED BY Zenon, <1>1, <1>7, <1>8, <1>9, WaitKeeps DEF LockStep

(* The word of a mutex that a writer acquires.                             *)
LEMMA WriterAcquired ==
  ASSUME NEW wd, DOMAIN wd = WordFields, NEW slept, NEW longWait
  PROVE  LET a == Acquired(wd, "w", slept, longWait) IN
         DOMAIN a = WordFields /\ a.wlock = wd.wlock + 1 /\ a.readers = wd.readers
BY SMTT(20), WordOperators

(* Both locks taken together after a timeout.                              *)
LEMMA TimeoutAcquireWait ==
  ASSUME CountingLaws, WaitInv, NEW t \in Threads, TimeoutAcquire(t)
  PROVE  WaitInv' /\ LockStep
<1>0. /\ QueueInv /\ MuInv /\ DOMAIN mwait = Threads /\ DOMAIN waiter = Threads
      /\ WaitThreadOK(pc[t], ret[t], held[t], locking[t], mwait[t], waiter[t])
      /\ QueueThreadOK(pc[t], ret[t], waking[t], waiter[t])
      /\ \A p \in Threads : waiter[p] \in WaiterState
      /\ DOMAIN word = WordFields /\ WordBits(word)
      /\ DOMAIN pc = Threads /\ DOMAIN locking = Threads /\ DOMAIN held = Threads
      /\ WaitLocals(mwait[t])
  BY WaitFacts, QueueFacts DEF WaitThreadOK
<1>. DEFINE a == Acquired(word, "w", FALSE, FALSE)
            k == [locking[t] EXCEPT !.oldWord = word]
<1>1. /\ pc[t] = "wait_timeout" /\ ~word.spin
      /\ mwait' = [mwait EXCEPT ![t].swap = "none"]
      /\ ~Blocked(word, "w", FALSE) /\ word' = [a EXCEPT !.spin = TRUE]
      /\ held' = [held EXCEPT ![t] = "w"] /\ locking' = [locking EXCEPT ![t] = k]
      /\ pc' = [pc EXCEPT ![t] = "wait_confirm"]
      /\ UNCHANGED <<waiters, waiter, ret, waking>>
  BY Zenon DEF TimeoutAcquire, Goto
<1>2. word.wlock = 0 /\ word.readers = 0 /\ ~word.longWait /\ held[t] = "none"
  BY <1>0, <1>1 DEF Blocked, WaitThreadOK
<1>3. /\ DOMAIN a = WordFields /\ WordBits(a) /\ a.wlock = word.wlock + 1
      /\ a.readers = word.readers
  <2>1. WordBits(a)
    BY Zenon, <1>0, SpinKept
  <2>2. DOMAIN a = WordFields /\ a.wlock = word.wlock + 1 /\ a.readers = word.readers
    BY Zenon, <1>0, WriterAcquired
  <2>. QED BY Zenon, <2>1, <2>2
<1>4. LocalsOK(k, waking[t]) /\ k.oldWord = word
  <2>1. LocalsOK(locking[t], waking[t])
    BY <1>0, LocalsStayOK
  <2>. QED BY <2>1 DEF LocalsOK, NotLocking
<1>. HIDE DEF a, k
<1>5. /\ DOMAIN word' = WordFields /\ WordBits(word') /\ word'.spin
      /\ word'.wlock = word.wlock + 1 /\ word'.readers = word.readers
  BY <1>1, <1>3 DEF WordFields, WordBits
<1>6. CountsHolders(word, held)' /\ Abstract!Acquire(t, "w")
  <2>1. CountsHolders(word, held)
    BY Zenon, <1>0 DEF MuInv
  <2>2. \E mode \in LockModes :
          /\ mode = "w"
          /\ word'.wlock = IF mode = "w" THEN word.wlock + 1 ELSE word.wlock
          /\ word'.readers = IF mode = "r" THEN (word.readers + 1) % READER_COUNTS
                             ELSE word.readers
    BY <1>5 DEF LockModes
  <2>. QED BY Zenon, <1>1, <1>2, <1>5, <2>1, <2>2, AcquireCounts
<1>7. /\ pc'[t] = "wait_confirm" /\ ret'[t] = ret[t] /\ waking'[t] = waking[t]
      /\ locking'[t] = k /\ held'[t] = "w" /\ waiter'[t] = waiter[t]
      /\ DOMAIN pc' = Threads /\ DOMAIN locking' = Threads
      /\ OthersStay(t) /\ OthersWait(t)
  BY <1>0, <1>1 DEF OthersStay, OthersWait
<1>8. "wait_confirm" \notin MuLabels
  BY DEF MuLabels, LockLabels, ScanLabels, WakeLabels
<1>9. MuInv'
  <2>1. ThreadOK(pc'[t], held'[t], locking'[t], waking'[t])
    BY <1>4, <1>7, <1>8, OutsideOK
  <2>. QED BY <1>0, <1>1, <1>6, <1>7, <2>1, ThreadStep DEF MuInv
<1>10. NoLists(waking[t])
  BY <1>0, <1>1, WaitIdle, IdleFacts
<1>11. QueueThreadOK(pc'[t], ret'[t], waking'[t], waiter'[t])
  <2>1. MayWait("wait_confirm", ret[t])
    BY DEF MayWait, ParkedLabels
  <2>2. /\ ret[t] \notin Afar /\ waking[t] \in WakeState /\ waiter[t] \in WaiterState
        /\ waking[t].testing => waking[t].late
    BY Zenon, <1>0 DEF QueueThreadOK
  <2>3. QueueThreadOK("wait_confirm", ret[t], waking[t], waiter[t])
    BY Zenon, <1>8, <1>10, <2>1, <2>2, OutsideQueueOK
  <2>. QED BY <1>7, <2>3
<1>12. SpinStep(t)
  BY Zenon, <1>1, <1>5, <1>7 DEF SpinStep, MayWrite
<1>13. Quietly(t)
  BY <1>0, <1>1, <1>5, <1>7, <1>11 DEF Quietly, Unlisted
<1>14. QueueStep(t)
  BY Zenon, <1>0, <1>7, <1>9, <1>12, <1>13, QuietKeeps
<1>15. /\ DOMAIN mwait' = Threads /\ WaitLocals(mwait'[t])
       /\ \A u \in Threads \ {t} : mwait'[u] = mwait[u]
  BY Zenon, <1>0, <1>1, SwapNoted
<1>16. /\ WaitThreadOK(pc'[t], ret'[t], held'[t], locking'[t], mwait'[t], waiter'[t])
       /\ Confirming(pc'[t], locking'[t], word')
  <2>1. "wait_confirm" \notin LockLabels \cup ScanLabels \cup WakeLabels \cup {"unlock_slow"}
    BY <1>8 DEF MuLabels
  <2>2. WaitThreadOK(pc'[t], ret'[t], held'[t], locking'[t], mwait'[t], waiter'[t])
    BY <1>0, <1>1, <1>7, <1>15, <2>1 DEF WaitThreadOK, WaitPlaces
  <2>3. Confirming(pc'[t], locking'[t], word')
    BY Zenon, <1>0, <1>1, <1>2, <1>4, <1>7 DEF Confirming, a
  <2>. QED BY <2>2, <2>3
<1>17. LockStep
  BY <1>2, <1>6 DEF LockStep, LockModes
<1>. QED BY Zenon, <1>14, <1>15, <1>16, <1>17, WaitKeeps

(* Adding a waiter to those that must be listed, or none.                  *)
LEMMA Sums == 0 + 1 = 1 /\ \A n \in Nat : n + 0 = n
OBVIOUS

(* A waiter must be listed once or not at all.                             *)
LEMMA ZeroOne == 0 \in Nat /\ 1 \in Nat
OBVIOUS

(* A thread without lists of its own is seen where the queue names it.     *)
LEMMA HereListed ==
  ASSUME CountingLaws, NEW t \in Threads, NEW p, waiters \in Seq(Threads),
         waiters' \in Seq(Threads), NoLists(waking[t]), NoLists(waking'[t])
  PROVE  Here(t, p) = Times(waiters, p) /\ Here(t, p)' = Times(waiters', p)
<1>1. /\ Counted(waiters, waking[t], pc[t], p) = Times(waiters, p)
      /\ Counted(waiters', waking'[t], pc'[t], p) = Times(waiters', p)
  BY NoListsCounted
<1>. QED BY Zenon, <1>1, HereCounted

(* A waiter that is marked already enters the queue.                       *)
LEMMA QueuedKeeps ==
  ASSUME CountingLaws, QueueInv, NEW t \in Threads, pc[t] = "wait_queue", waiter[t].waiting,
         MuInv', OthersStay(t), UNCHANGED waiter, WordBits(word'),
         waiters' = Append(waiters, t) \/ waiters' = <<t>> \o waiters,
         \A u \in Threads \ {t} : pc'[u] = pc[u],
         Idle(pc'[t]) \/ pc'[t] = "unlock_slow",
         NoLists(waking[t]), NoLists(waking'[t]),
         QueueThreadOK(pc'[t], ret'[t], waking'[t], waiter'[t])
  PROVE  QueueStep(t)
<1>1. pc'[t] \notin Unlisted /\ ~SpinOwner(pc'[t], waking'[t]) /\ pc'[t] # "unlock_scan"
  <2>1. CASE pc'[t] = "unlock_slow"
    BY <2>1 DEF Unlisted, SpinOwner, SpinLabels
  <2>2. CASE Idle(pc'[t])
    <3>1. pc'[t] # "unlock_scan"
      BY <2>2 DEF Idle, MuLabels, ScanLabels
    <3>. QED BY Zenon, <2>2, <3>1, IdleAfter
  <2>. QED BY <2>1, <2>2
<1>2. SpinStep(t)
  <2>1. SpinOwner(pc[t], waking[t])
    BY DEF SpinOwner, SpinLabels
  <2>. QED BY <1>1, <2>1 DEF SpinStep, MayWrite
<1>3. waiters \in Seq(Threads) /\ waiters' \in Seq(Threads)
  <2>1. waiters \in Seq(Threads)
    BY DEF QueueInv, QueueTyped
  <2>2. Append(waiters, t) \in Seq(Threads) /\ <<t>> \o waiters \in Seq(Threads)
    BY <2>1
  <2>. QED BY Zenon, <2>1, <2>2
<1>4. StepTyped(t)
  <2>1. \A p \in Threads : Untold(waking'[t].wake, pc'[t] = "unlock_v", p) = {}
    BY Zenon, NoListsUntold
  <2>. QED BY Zenon, <1>3, <2>1, QueueFacts DEF StepTyped
<1>5. ASSUME NEW p \in Threads PROVE Here(t, p)' + Due(p) = Here(t, p) + Due(p)'
  <2>1. Times(waiters', p) = Times(waiters, p) + One(t, p) /\ Times(waiters, p) \in Nat
    <3>1. /\ Times(Append(waiters, t), p) = Times(waiters, p) + One(t, p)
          /\ Times(<<t>> \o waiters, p) = Times(waiters, p) + One(t, p)
      BY Zenon, <1>3 DEF CountingLaws, TimesQueuedLaw
    <3>2. Times(waiters, p) \in Nat
      BY Zenon, <1>3 DEF CountingLaws, PositionsFiniteLaw
    <3>. QED BY Zenon, <3>1, <3>2
  <2>2. Here(t, p) = Times(waiters, p) /\ Here(t, p)' = Times(waiters', p)
    BY Zenon, <1>3, HereListed
  <2>3. Due(p)' = Due(p) + One(t, p)
    <3>1. CASE p = t
      <4>1. Due(p) = 0 /\ Due(p)' = 1 /\ One(t, p) = 1
        BY <1>1, <3>1 DEF Due, One, Unlisted
      <4>. QED BY Zenon, <4>1, Sums
    <3>2. CASE p # t
      <4>1. Due(p)' = Due(p) /\ One(t, p) = 0 /\ Due(p) \in Nat
        BY <3>2 DEF Due, One
      <4>. QED BY Zenon, <4>1, Sums
    <3>. QED BY Zenon, <3>1, <3>2
  <2>4. One(t, p) \in Nat /\ Due(p) \in Nat
    BY DEF One, Due
  <2>5. (Times(waiters, p) + One(t, p)) + Due(p) = Times(waiters, p) + (Due(p) + One(t, p))
    BY Zenon, <2>1, <2>4, Balance
  <2>. QED BY Zenon, <2>1, <2>2, <2>3, <2>5
<1>6. HereBalanced(t)
  BY <1>5 DEF HereBalanced
<1>. QED BY <1>2, <1>4, <1>6, QueueKeeps DEF QueueStep

(* Queueing, with the mutex released in the same step or by unlock_slow.   *)
LEMMA WaitQueueWait ==
  ASSUME CountingLaws, WaitInv, NEW t \in Threads, WaitQueue(t)
  PROVE  WaitInv' /\ LockStep
<1>0. /\ QueueInv /\ MuInv /\ DOMAIN mwait = Threads /\ DOMAIN waiter = Threads
      /\ WaitThreadOK(pc[t], ret[t], held[t], locking[t], mwait[t], waiter[t])
      /\ QueueThreadOK(pc[t], ret[t], waking[t], waiter[t])
      /\ \A p \in Threads : waiter[p] \in WaiterState
      /\ DOMAIN word = WordFields /\ WordBits(word)
      /\ DOMAIN pc = Threads /\ DOMAIN ret = Threads /\ DOMAIN held = Threads
      /\ DOMAIN waking = Threads /\ DOMAIN locking = Threads
  BY Zenon, WaitFacts, QueueFacts
<1>. DEFINE mode == mwait[t].mode
            released == Released(word, mode)
            m == [mwait[t] EXCEPT !.first = FALSE]
            s == [NotWaking EXCEPT !.mode = mode]
<1>1. /\ pc[t] = "wait_queue" /\ mwait' = [mwait EXCEPT ![t] = m]
      /\ waiters' = Append(waiters, t) \/ waiters' = <<t>> \o waiters
      /\ UNCHANGED <<waiter, locking>>
      /\ \/ /\ word' = [word EXCEPT !.spin = FALSE]
            /\ waking' = [waking EXCEPT ![t] = s]
            /\ ret' = [ret EXCEPT ![t] = "wait_wait"]
            /\ pc' = [pc EXCEPT ![t] = "unlock_slow"]
            /\ UNCHANGED held
         \/ /\ word' = [released EXCEPT !.spin = FALSE]
            /\ held' = [held EXCEPT ![t] = "none"]
            /\ pc' = [pc EXCEPT ![t] = "wait_wait"]
            /\ UNCHANGED <<waking, ret>>
  BY DEF WaitQueue, Goto
<1>2. /\ WaitLocals(mwait[t]) /\ waiter[t].waiting /\ held[t] = mode /\ mode \in LockModes
      /\ ret[t] \in {"client", "wait_wait", "wait_eval"}
  BY <1>0, <1>1 DEF WaitThreadOK, WaitLocals
<1>3. WaitLocals(m)
  BY <1>2 DEF WaitLocals, WaitFields, NotWaiting
<1>4. /\ DOMAIN released = WordFields /\ WordBits(released)
      /\ released.wlock = IF mode = "w" THEN word.wlock - 1 ELSE word.wlock
      /\ released.readers = IF mode = "r"
                            THEN (word.readers + (READER_COUNTS - 1)) % READER_COUNTS
                            ELSE word.readers
  <2>. HIDE DEF mode
  <2>. QED BY Zenon, <1>0, WordOperators, SpinKept
<1>5. /\ s \in WakeState /\ NoLists(s) /\ ~s.testing
      /\ s.mode = mode /\ LocalsOK(locking[t], s)
  <2>1. s \in WakeState /\ NoLists(s) /\ ~s.testing
    BY <1>2, FreshWaking
  <2>2. LocalsOK(locking[t], NotWaking)
    BY Zenon, <1>0, LocalsStayOK
  <2>3. s.mode = mode /\ DOMAIN s = DOMAIN NotWaking
    BY DEF NotWaking
  <2>. QED BY <1>2, <2>1, <2>2, <2>3 DEF LocalsOK
<1>. HIDE DEF released, m, s, mode
<1>6. /\ DOMAIN mwait' = Threads /\ mwait'[t] = m
      /\ \A u \in Threads \ {t} : mwait'[u] = mwait[u]
  BY <1>0, <1>1
<1>7. Idle("wait_wait") /\ "wait_wait" \notin MuLabels
  BY WaitIdle DEF Idle
<1>8. waiter'[t] = waiter[t] /\ waiter'[t] \in WaiterState
  BY <1>0, <1>1
<1>9. CASE pc' = [pc EXCEPT ![t] = "unlock_slow"]
  <2>1. /\ word' = [word EXCEPT !.spin = FALSE] /\ waking' = [waking EXCEPT ![t] = s]
        /\ ret' = [ret EXCEPT ![t] = "wait_wait"] /\ UNCHANGED held
    <3>1. pc'[t] = "unlock_slow"
      BY <1>0, <1>9
    <3>. QED BY <1>0, <1>1, <3>1
  <2>2. /\ pc'[t] = "unlock_slow" /\ ret'[t] = "wait_wait" /\ waking'[t] = s
        /\ held'[t] = held[t] /\ locking'[t] = locking[t]
        /\ DOMAIN pc' = Threads /\ DOMAIN waking' = Threads
        /\ \A u \in Threads \ {t} : pc'[u] = pc[u]
        /\ OthersStay(t) /\ OthersWait(t)
    BY <1>0, <1>1, <1>9, <2>1 DEF OthersStay, OthersWait
  <2>3. /\ DOMAIN word' = WordFields /\ WordBits(word')
        /\ word'.wlock = word.wlock /\ word'.readers = word.readers
    BY <1>0, <2>1 DEF WordFields, WordBits
  <2>4. MuInv'
    <3>1. ThreadOK(pc'[t], held'[t], locking'[t], waking'[t])
      BY <1>2, <1>5, <2>2 DEF ThreadOK, LocalsOK, LockLabels, WakeLabels, ScanLabels
    <3>2. CountsHolders(word, held)'
      BY <1>0, <2>1, <2>3 DEF MuInv, CountsHolders
    <3>3. ReturnsOutside(ret')
      BY Zenon, <1>0, <1>7, <2>1, ReturnKeeps DEF MuInv
    <3>. QED BY <1>0, <1>1, <2>2, <3>1, <3>2, <3>3, ThreadStep
  <2>5. QueueThreadOK(pc'[t], ret'[t], waking'[t], waiter'[t])
    BY <1>5, <1>7, <1>8, <2>2
    DEF QueueThreadOK, ScanLabels, WakeLabels, MayWait, UnlockLabels, ParkedLabels, Idle
  <2>6. QueueStep(t)
    <3>1. NoLists(waking[t]) /\ NoLists(waking'[t])
      BY <1>1, <1>5, <2>2, UnlistedFacts
    <3>. QED BY <1>0, <1>1, <1>2, <2>2, <2>3, <2>4, <2>5, <3>1, QueuedKeeps
  <2>7. /\ WaitThreadOK(pc'[t], ret'[t], held'[t], locking'[t], mwait'[t], waiter'[t])
        /\ Confirming(pc'[t], locking'[t], word')
    BY <1>3, <1>6, <2>2
    DEF WaitThreadOK, Confirming, WaitPlaces, MuLabels, LockLabels, ScanLabels, WakeLabels
  <2>. QED BY Zenon, <1>6, <2>1, <2>6, <2>7, WaitKeeps DEF LockStep
<1>10. CASE pc' = [pc EXCEPT ![t] = "wait_wait"]
  <2>1. /\ word' = [released EXCEPT !.spin = FALSE]
        /\ held' = [held EXCEPT ![t] = "none"] /\ UNCHANGED <<waking, ret>>
    <3>1. pc'[t] = "wait_wait"
      BY <1>0, <1>10
    <3>. QED BY <1>0, <1>1, <3>1
  <2>2. /\ pc'[t] = "wait_wait" /\ ret'[t] = ret[t] /\ waking'[t] = waking[t]
        /\ held'[t] = "none" /\ locking'[t] = locking[t]
        /\ DOMAIN pc' = Threads
        /\ \A u \in Threads \ {t} : pc'[u] = pc[u]
        /\ OthersStay(t) /\ OthersWait(t)
    BY <1>0, <1>1, <1>10, <2>1 DEF OthersStay, OthersWait
  <2>3. /\ DOMAIN word' = WordFields /\ WordBits(word')
        /\ word'.wlock = released.wlock /\ word'.readers = released.readers
    BY <1>4, <2>1 DEF WordFields, WordBits
  <2>4. CountsHolders(word, held)' /\ Abstract!Release(t)
    <3>1. CountsHolders(word, held)
      BY Zenon, <1>0 DEF MuInv
    <3>. QED BY Zenon, <1>2, <1>4, <2>1, <2>3, <3>1, ReleaseCounts
  <2>5. MuInv'
    <3>1. ThreadOK(pc'[t], held'[t], locking'[t], waking'[t])
      BY Zenon, <1>0, <1>7, <2>2, OutsideOK, LocalsStayOK
    <3>. QED BY <1>0, <1>1, <2>1, <2>2, <2>4, <3>1, ThreadStep DEF MuInv
  <2>6. NoLists(waking[t]) /\ NoLists(waking'[t])
    BY <1>1, <2>2, UnlistedFacts
  <2>7. QueueThreadOK(pc'[t], ret'[t], waking'[t], waiter'[t])
    <3>1. MayWait("wait_wait", ret[t])
      BY DEF MayWait, ParkedLabels
    <3>. QED BY <1>1, <1>7, <1>8, <2>2, <3>1, UnlistedFacts, OutsideQueueOK
  <2>8. QueueStep(t)
    BY <1>0, <1>1, <1>2, <1>7, <2>2, <2>3, <2>5, <2>6, <2>7, QueuedKeeps
  <2>9. /\ WaitThreadOK(pc'[t], ret'[t], held'[t], locking'[t], mwait'[t], waiter'[t])
        /\ Confirming(pc'[t], locking'[t], word')
    BY <1>2, <1>3, <1>6, <2>2
    DEF WaitThreadOK, Confirming, WaitPlaces, LockLabels, ScanLabels, WakeLabels
  <2>. QED BY <1>6, <2>4, <2>8, <2>9, WaitKeeps DEF LockStep
<1>. QED BY <1>1, <1>9, <1>10

(* A reader that took the mutex alone goes back to sharing.                *)
LEMMA DemoteCounts ==
  ASSUME CountingLaws, CountsHolders(word, held), NEW t \in Threads, held[t] = "w",
         DOMAIN word' = WordFields, word'.wlock = 0, word'.readers = 1 % READER_COUNTS,
         held' = [held EXCEPT ![t] = "r"]
  PROVE  CountsHolders(word, held)' /\ Abstract!Demote(t)
<1>0. held \in [Threads -> HeldModes] /\ \A u \in Threads \ {t} : held[u] = "none"
  BY DEF CountsHolders
<1>1. held' \in [Threads -> HeldModes] /\ held'[t] = "r"
  BY <1>0 DEF HeldModes
<1>2. \A u \in Threads \ {t} : held'[u] = "none"
  BY <1>0
<1>3. Held(held', "w") = {} /\ Held(held', "r") = {t}
  BY <1>1, <1>2 DEF Held
<1>4. Cardinality(Held(held', "w")) = 0 /\ Cardinality(Held(held', "r")) = 1
  BY Zenon, <1>3 DEF CountingLaws, CardinalityLaw
<1>5. 1 % READER_COUNTS = 1
  <2>1. Cardinality(Held(held', "r")) <= Cardinality(Threads)
    BY Zenon, <1>1 DEF CountingLaws, HoldersCountLaw
  <2>2. Cardinality(Threads) \in Nat /\ Cardinality(Threads) < READER_COUNTS
    BY NsyncMuConstants DEF CountingLaws, CardinalityLaw
  <2>3. 0 \in Nat /\ 0 + 1 < READER_COUNTS
    BY <1>4, <2>1, <2>2, NsyncMuConstants
  <2>4. (0 + 1) % READER_COUNTS = 0 + 1
    BY <2>3, Modulo, NsyncMuConstants
  <2>. QED BY <2>4
<1>6. \A u, v \in Threads : u # v /\ held'[u] = "w" => held'[v] = "none"
  BY <1>1, <1>2
<1>. QED BY <1>1, <1>4, <1>5, <1>6 DEF CountsHolders, Abstract!Demote

(* What the word was and is, for a thread that makes sure of a timeout.    *)
LEMMA ConfirmingWord ==
  ASSUME WaitInv, NEW t \in Threads, pc[t] = "wait_confirm"
  PROVE  LET old == locking[t].oldWord IN
         /\ DOMAIN old = WordFields /\ WordBits(old)
         /\ old.wlock = 0 /\ old.readers = 0 /\ ~old.spin
         /\ word.wlock = 1 /\ word.readers = 0
<1>. DEFINE old == locking[t].oldWord
            a == Acquired(old, "w", FALSE, FALSE)
<1>1. /\ DOMAIN old = WordFields /\ WordBits(old)
      /\ old.wlock = 0 /\ old.readers = 0 /\ ~old.spin
      /\ word = [a EXCEPT !.spin = TRUE]
  BY Zenon, WaitFacts DEF Confirming
<1>2. DOMAIN a = WordFields /\ a.wlock = old.wlock + 1 /\ a.readers = old.readers
  <2>1. \E slept, longWait : a = Acquired(old, "w", slept, longWait)
    BY Zenon
  <2>. HIDE DEF a, old
  <2>. QED BY <1>1, <2>1, WordOperators
<1>. HIDE DEF a, old
<1>3. word.wlock = 1 /\ word.readers = 0
  BY <1>1, <1>2 DEF WordFields
<1>. QED BY <1>1, <1>3 DEF old

(* A thread leaves the check of its timeout for an idle place, with the    *)
(* word that it had found.                                                 *)
ConfirmLeft(t, label, h) ==
  /\ MuInv' /\ OthersStay(t) /\ SpinStep(t) /\ NoLists(waking[t])
  /\ QueueThreadOK(pc'[t], ret'[t], waking'[t], waiter'[t])
  /\ pc'[t] = label /\ waking'[t] = waking[t] /\ ret'[t] = ret[t]
  /\ locking'[t] = NotLocking /\ held'[t] = h
  /\ \A u \in Threads \ {t} : pc'[u] = pc[u]

(* That is so whether the timeout counts or came too late.                 *)
LEMMA ConfirmLeaves ==
  ASSUME WaitInv, NEW t \in Threads, pc[t] = "wait_confirm", NEW label, Idle(label),
         pc' = [pc EXCEPT ![t] = label], CountsHolders(word, held)', WordBits(word'),
         NEW h, held' = [held EXCEPT ![t] = h],
         locking' = [locking EXCEPT ![t] = NotLocking], UNCHANGED <<ret, waking>>,
         \A u \in Threads \ {t} : waiter'[u] = waiter[u], waiter'[t] \in WaiterState,
         waiter'[t].waiting => label \in ParkedLabels
  PROVE  ConfirmLeft(t, label, h)
<1>0. /\ QueueInv /\ MuInv /\ DOMAIN pc = Threads /\ DOMAIN locking = Threads
      /\ DOMAIN held = Threads
  BY Zenon, WaitFacts, QueueFacts
<1>1. /\ pc'[t] = label /\ waking'[t] = waking[t] /\ ret'[t] = ret[t]
      /\ locking'[t] = NotLocking /\ held'[t] = h
      /\ DOMAIN pc' = Threads /\ DOMAIN locking' = Threads
      /\ \A u \in Threads \ {t} : pc'[u] = pc[u]
      /\ OthersStay(t) /\ OthersWait(t)
  BY <1>0 DEF OthersStay, OthersWait
<1>2. label \notin MuLabels
  BY DEF Idle
<1>3. MuInv'
  <2>1. ThreadOK(pc'[t], held'[t], locking'[t], waking'[t])
    BY <1>0, <1>1, <1>2, OutsideOK, LocalsStayOK
  <2>. QED BY <1>0, <1>1, <2>1, ThreadStep DEF MuInv
<1>4. SpinStep(t)
  <2>1. SpinOwner(pc[t], waking[t])
    BY DEF SpinOwner, SpinLabels
  <2>2. ~SpinOwner(pc'[t], waking'[t]) /\ pc'[t] # "unlock_scan"
    <3>1. label # "unlock_scan"
      BY <1>2 DEF MuLabels, ScanLabels
    <3>. QED BY <1>1, <3>1, IdleAfter
  <2>. QED BY <2>1, <2>2 DEF SpinStep, MayWrite
<1>5. QueueThreadOK(pc'[t], ret'[t], waking'[t], waiter'[t])
  <2>1. waiter'[t].waiting => MayWait(label, ret[t])
    BY DEF MayWait
  <2>. QED BY <1>1, <1>2, <2>1, UnlistedFacts, OutsideQueueOK
<1>6. NoLists(waking[t])
  BY UnlistedFacts
<1>. QED BY Zenon, <1>1, <1>3, <1>4, <1>5, <1>6 DEF ConfirmLeft

(* An unlock took the waiter first: the thread waits for its wake-up.      *)
LEMMA TimeoutTooLate ==
  ASSUME CountingLaws, WaitInv, NEW t \in Threads, pc[t] = "wait_confirm",
         word' = locking[t].oldWord, held' = [held EXCEPT ![t] = "none"],
         pc' = [pc EXCEPT ![t] = "wait_wait"],
         locking' = [locking EXCEPT ![t] = NotLocking],
         UNCHANGED <<waiters, waiter, mwait>>, UNCHANGED <<ret, waking>>
  PROVE  WaitInv' /\ LockStep
<1>0. /\ QueueInv /\ MuInv /\ DOMAIN mwait = Threads /\ DOMAIN waiter = Threads
      /\ WaitThreadOK(pc[t], ret[t], held[t], locking[t], mwait[t], waiter[t])
      /\ \A p \in Threads : waiter[p] \in WaiterState
  BY Zenon, WaitFacts, QueueFacts
<1>1. /\ DOMAIN word' = WordFields /\ WordBits(word')
      /\ word'.wlock = 0 /\ word'.readers = 0
      /\ word.wlock = 1 /\ word.readers = 0
  BY ConfirmingWord
<1>2. CountsHolders(word, held)' /\ Abstract!Release(t)
  <2>1. CountsHolders(word, held) /\ held[t] = "w"
    BY <1>0 DEF MuInv, WaitThreadOK
  <2>2. \E mode \in LockModes :
          /\ held[t] = mode
          /\ word'.wlock = IF mode = "w" THEN word.wlock - 1 ELSE word.wlock
          /\ word'.readers = IF mode = "r"
                             THEN (word.readers + (READER_COUNTS - 1)) % READER_COUNTS
                             ELSE word.readers
    BY <1>1, <2>1 DEF LockModes
  <2>. QED BY Zenon, <1>1, <2>1, <2>2, ReleaseCounts
<1>3. /\ Idle("wait_wait") /\ "wait_wait" \in ParkedLabels /\ "wait_wait" \notin Unlisted
  BY WaitIdle DEF ParkedLabels, Unlisted
<1>4. /\ MuInv' /\ OthersStay(t) /\ SpinStep(t) /\ NoLists(waking[t])
      /\ QueueThreadOK(pc'[t], ret'[t], waking'[t], waiter'[t])
      /\ pc'[t] = "wait_wait" /\ waking'[t] = waking[t] /\ ret'[t] = ret[t]
      /\ locking'[t] = NotLocking /\ held'[t] = "none"
  <2>1. /\ \A u \in Threads \ {t} : waiter'[u] = waiter[u]
        /\ waiter'[t] \in WaiterState
    BY <1>0
  <2>2. ConfirmLeft(t, "wait_wait", "none")
    BY Zenon, <1>1, <1>2, <1>3, <2>1, ConfirmLeaves
  <2>. QED BY Zenon, <2>2 DEF ConfirmLeft
<1>5. Quietly(t)
  BY Zenon, <1>0, <1>1, <1>3, <1>4 DEF Quietly, Unlisted
<1>6. QueueStep(t)
  BY Zenon, <1>0, <1>4, <1>5, QuietKeeps
<1>7. /\ WaitThreadOK(pc'[t], ret'[t], held'[t], locking'[t], mwait'[t], waiter'[t])
      /\ Confirming(pc'[t], locking'[t], word')
  BY <1>0, <1>4 DEF WaitThreadOK, Confirming, WaitPlaces, LockLabels, ScanLabels, WakeLabels
<1>. QED BY Zenon, <1>0, <1>2, <1>6, <1>7, WaitKeeps DEF LockStep

(* Leaving the queue keeps every waiter on as many lists as it must be on. *)
LEMMA DequeuedKeeps ==
  ASSUME CountingLaws, QueueInv, NEW t \in Threads, pc[t] = "wait_confirm", Idle(pc'[t]),
         waiter[t].waiting, Times(waiters, t) > 0, waiters' = Unlinked(waiters, t),
         DOMAIN waiter' = Threads, \A u \in Threads \ {t} : waiter'[u] = waiter[u],
         waiter'[t] \in WaiterState, ~waiter'[t].waiting, waiter'[t].removed,
         MuInv', OthersStay(t), SpinStep(t), WordBits(word'),
         \A u \in Threads \ {t} : pc'[u] = pc[u],
         NoLists(waking[t]), NoLists(waking'[t]),
         QueueThreadOK(pc'[t], ret'[t], waking'[t], waiter'[t])
  PROVE  QueueStep(t)
<1>1. waiters \in Seq(Threads) /\ \A p \in Threads : waiter[p] \in WaiterState
  BY Zenon, QueueFacts DEF QueueInv, QueueTyped
<1>2. /\ waiters' \in Seq(Threads)
      /\ \A p : Times(waiters, p) = Times(waiters', p) + One(t, p)
  <2>1. /\ Unlinked(waiters, t) \in Seq(Threads)
        /\ \A p : Times(waiters, p) = Times(Unlinked(waiters, t), p) + One(t, p)
    BY Zenon, <1>1 DEF CountingLaws, TimesUnlinkedLaw
  <2>. QED BY <2>1
<1>3. StepTyped(t)
  <2>1. \A p \in Threads : Untold(waking'[t].wake, pc'[t] = "unlock_v", p) = {}
    BY Zenon, NoListsUntold
  <2>2. \A p \in Threads : /\ waiter'[p] \in WaiterState
                           /\ waiter[p].removed => waiter'[p].removed
    BY <1>1
  <2>. QED BY Zenon, <1>2, <2>1, <2>2 DEF StepTyped
<1>4. ASSUME NEW p \in Threads PROVE Here(t, p)' + Due(p) = Here(t, p) + Due(p)'
  <2>1. Here(t, p) = Times(waiters, p) /\ Here(t, p)' = Times(waiters', p)
    BY Zenon, <1>1, <1>2, HereListed
  <2>2. Times(waiters, p) \in Nat /\ Times(waiters', p) \in Nat
    BY Zenon, <1>1, <1>2 DEF CountingLaws, PositionsFiniteLaw
  <2>3. Due(p) = Due(p)' + One(t, p)
    <3>1. CASE p = t
      <4>1. pc[t] \notin Unlisted
        BY Zenon DEF Unlisted
      <4>2. Due(p) = 1
        BY Zenon, <3>1, <4>1 DEF Due
      <4>3. Due(p)' = 0
        BY Zenon, <3>1 DEF Due
      <4>4. One(t, p) = 1
        BY Zenon, <3>1 DEF One
      <4>. QED BY Zenon, <4>2, <4>3, <4>4, Sums
    <3>2. CASE p # t
      <4>1. Due(p)' = Due(p)
        BY Zenon, <3>2 DEF Due
      <4>2. One(t, p) = 0
        BY Zenon, <3>2 DEF One
      <4>3. Due(p) \in Nat
        BY Zenon, ZeroOne DEF Due
      <4>. QED BY Zenon, <4>1, <4>2, <4>3, Sums
    <3>. QED BY Zenon, <3>1, <3>2
  <2>4. One(t, p) \in Nat /\ Due(p)' \in Nat
    BY DEF One, Due
  <2>5. Times(waiters, p) = Times(waiters', p) + One(t, p)
    BY Zenon, <1>2
  <2>6. Times(waiters', p) + (Due(p)' + One(t, p)) = (Times(waiters', p) + One(t, p)) + Due(p)'
    BY Zenon, <2>2, <2>4, Balance
  <2>. QED BY Zenon, <2>1, <2>3, <2>5, <2>6
<1>5. HereBalanced(t)
  BY Zenon, <1>4 DEF HereBalanced
<1>. QED BY Zenon, <1>3, <1>5, QueueKeeps DEF QueueStep

(* The word and the holders once a timeout counts.                         *)
LEMMA TimeoutHolders ==
  ASSUME CountingLaws, CountsHolders(word, held), NEW t \in Threads, held[t] = "w",
         NEW old, DOMAIN old = WordFields, WordBits(old), old.wlock = 0, old.readers = 0,
         word.wlock = 1, word.readers = 0, NEW mode \in LockModes,
         word' = Added(old, mode), held' = [held EXCEPT ![t] = mode]
  PROVE  /\ WordBits(word') /\ CountsHolders(word, held)'
         /\ Abstract!Demote(t) \/ UNCHANGED held
<1>1. DOMAIN word' = WordFields /\ WordBits(word')
  BY DEF Added, WordFields, WordBits
<1>2. CASE mode = "w"
  <2>1. held' = held
    BY <1>2 DEF CountsHolders
  <2>2. word'.wlock = 1 /\ word'.readers = 0
    BY <1>2 DEF Added, WordFields
  <2>. QED BY <1>1, <2>1, <2>2 DEF CountsHolders
<1>3. CASE mode = "r"
  <2>1. word'.wlock = 0 /\ word'.readers = (0 + 1) % READER_COUNTS
    BY <1>3 DEF Added, WordFields
  <2>2. word'.readers = 1 % READER_COUNTS
    BY <2>1
  <2>. QED BY Zenon, <1>1, <1>3, <2>1, <2>2, DemoteCounts
<1>. QED BY <1>2, <1>3 DEF LockModes

(* The timeout counts: the thread takes its waiter out of the queue and    *)
(* has the mutex in the mode in which it waited.                           *)
LEMMA TimeoutCounts ==
  ASSUME CountingLaws, WaitInv, NEW t \in Threads, pc[t] = "wait_confirm",
         waiter[t].waiting, ~waiter[t].removed, waiters' = Unlinked(waiters, t),
         DOMAIN waiter' = Threads, \A u \in Threads \ {t} : waiter'[u] = waiter[u],
         waiter'[t] \in WaiterState, ~waiter'[t].waiting, waiter'[t].removed,
         word' = Added(locking[t].oldWord, mwait[t].mode),
         held' = [held EXCEPT ![t] = mwait[t].mode],
         NEW m, WaitLocals(m), m.mode = mwait[t].mode, mwait' = [mwait EXCEPT ![t] = m],
         pc' = [pc EXCEPT ![t] = "wait_eval"],
         locking' = [locking EXCEPT ![t] = NotLocking], UNCHANGED <<ret, waking>>
  PROVE  WaitInv' /\ LockStep
<1>0. /\ QueueInv /\ MuInv /\ DOMAIN mwait = Threads /\ CountsHolders(word, held)
      /\ WaitThreadOK(pc[t], ret[t], held[t], locking[t], mwait[t], waiter[t])
  BY Zenon, WaitFacts DEF MuInv
<1>1. mwait[t].mode \in LockModes /\ held[t] = "w"
  BY Zenon, <1>0 DEF WaitThreadOK, WaitLocals
<1>2. WordBits(word') /\ CountsHolders(word, held)' /\ (Abstract!Demote(t) \/ UNCHANGED held)
  BY Zenon, <1>0, <1>1, ConfirmingWord, TimeoutHolders
<1>3. Idle("wait_eval")
  BY Zenon, WaitIdle
<1>4. /\ MuInv' /\ OthersStay(t) /\ SpinStep(t) /\ NoLists(waking[t])
      /\ QueueThreadOK(pc'[t], ret'[t], waking'[t], waiter'[t])
      /\ pc'[t] = "wait_eval" /\ waking'[t] = waking[t] /\ ret'[t] = ret[t]
      /\ locking'[t] = NotLocking /\ held'[t] = mwait[t].mode
      /\ \A u \in Threads \ {t} : pc'[u] = pc[u]
  <2>1. ConfirmLeft(t, "wait_eval", mwait[t].mode)
    BY Zenon, <1>2, <1>3, ConfirmLeaves
  <2>. QED BY Zenon, <2>1 DEF ConfirmLeft
<1>5. Times(waiters, t) > 0
  BY ConfirmedQueued
<1>6. QueueStep(t)
  <2>1. NoLists(waking'[t]) /\ Idle(pc'[t])
    BY Zenon, <1>3, <1>4
  <2>. QED BY Zenon, <1>0, <1>2, <1>4, <1>5, <2>1, DequeuedKeeps
<1>7. /\ DOMAIN mwait' = Threads /\ mwait'[t] = m
      /\ \A u \in Threads \ {t} : mwait'[u] = mwait[u]
  BY Zenon, <1>0
<1>8. /\ WaitThreadOK(pc'[t], ret'[t], held'[t], locking'[t], mwait'[t], waiter'[t])
      /\ Confirming(pc'[t], locking'[t], word')
  BY <1>0, <1>4, <1>7
  DEF WaitThreadOK, Confirming, WaitPlaces, LockLabels, ScanLabels, WakeLabels
<1>. QED BY Zenon, <1>2, <1>6, <1>7, <1>8, WaitKeeps DEF LockStep

(* Making sure of a timeout.                                               *)
LEMMA TimeoutConfirmWait ==
  ASSUME CountingLaws, WaitInv, NEW t \in Threads, TimeoutConfirm(t)
  PROVE  WaitInv' /\ LockStep
<1>1. CASE waiter[t].waiting /\ ~waiter[t].removed
  <2>. DEFINE m == [mwait[t] EXCEPT !.outcome = "timed out"]
  <2>1. /\ pc[t] = "wait_confirm" /\ waiters' = Unlinked(waiters, t)
        /\ waiter' = [waiter EXCEPT ![t].waiting = FALSE, ![t].removed = TRUE]
        /\ word' = Added(locking[t].oldWord, mwait[t].mode)
        /\ held' = [held EXCEPT ![t] = mwait[t].mode]
        /\ mwait' = [mwait EXCEPT ![t] = m]
        /\ pc' = [pc EXCEPT ![t] = "wait_eval"]
        /\ locking' = [locking EXCEPT ![t] = NotLocking] /\ UNCHANGED <<ret, waking>>
    BY Zenon, <1>1 DEF TimeoutConfirm, Goto
  <2>2. WaitLocals(m) /\ m.mode = mwait[t].mode
    <3>1. WaitLocals(mwait[t])
      BY WaitFacts DEF WaitThreadOK
    <3>. QED BY <3>1 DEF WaitLocals, WaitFields, NotWaiting
  <2>3. DOMAIN waiter = Threads /\ waiter[t] \in WaiterState
    BY Zenon, WaitFacts, QueueFacts
  <2>4. /\ DOMAIN waiter' = Threads /\ \A u \in Threads \ {t} : waiter'[u] = waiter[u]
        /\ waiter'[t] \in WaiterState /\ ~waiter'[t].waiting /\ waiter'[t].removed
    BY Zenon, <2>1, <2>3 DEF WaiterState
  <2>. HIDE DEF m
  <2>. QED BY Zenon, <1>1, <2>1, <2>2, <2>4, TimeoutCounts
<1>2. CASE ~(waiter[t].waiting /\ ~waiter[t].removed)
  BY Zenon, <1>2, TimeoutTooLate DEF TimeoutConfirm, Goto
<1>. QED BY <1>1, <1>2

-----------------------------------------------------------------------------
(* The calls of the clients.                                               *)

(* A woken thread goes through the slow path of lock, in its own mode.     *)
LEMMA WaitReacquireWait ==
  ASSUME CountingLaws, WaitInv, NEW t \in Threads, WaitReacquire(t)
  PROVE  WaitInv' /\ LockStep
<1>0. /\ QueueInv /\ MuInv /\ DOMAIN mwait = Threads /\ pc[t] = "wait_woken"
      /\ WaitThreadOK(pc[t], ret[t], held[t], locking[t], mwait[t], waiter[t])
      /\ DOMAIN locking = Threads /\ DOMAIN pc = Threads /\ DOMAIN ret = Threads
      /\ ThreadOK(pc[t], held[t], locking[t], waking[t])
  BY Zenon, WaitFacts, QueueFacts DEF WaitReacquire
<1>1. /\ WaitLocals(mwait[t]) /\ mwait[t].mode \in LockModes
      /\ held[t] = "none" /\ ~waiter[t].waiting
  BY Zenon, <1>0 DEF WaitThreadOK, WaitLocals
<1>2. EnterLockSlow(t, mwait[t].mode, TRUE, "wait_eval") /\ UNCHANGED mwait
  BY Zenon DEF WaitReacquire, waitOnly
<1>3. Idle(pc[t]) /\ Idle("wait_eval") /\ "wait_eval" \notin MuLabels
  BY <1>0, WaitIdle DEF Idle
<1>4. QueueStep(t)
  BY Zenon, <1>0, <1>1, <1>2, <1>3, EnterLockSlowQueue
<1>5. UNCHANGED held
  BY Zenon, <1>0, <1>1, <1>2, <1>3, EnterLockSlowStep
<1>6. /\ pc'[t] = "lock_slow" /\ ret'[t] = "wait_eval" /\ mwait'[t] = mwait[t]
      /\ locking'[t].mode = mwait[t].mode
  <2>1. "mode" \in DOMAIN locking[t]
    BY Zenon, <1>0 DEF ThreadOK, NotLocking
  <2>2. /\ locking' = [locking EXCEPT ![t].mode = mwait[t].mode, ![t].slept = TRUE]
        /\ ret' = [ret EXCEPT ![t] = "wait_eval"] /\ pc' = [pc EXCEPT ![t] = "lock_slow"]
    BY Zenon, <1>2 DEF EnterLockSlow, Goto
  <2>. QED BY <1>0, <1>2, <2>1, <2>2
<1>7. /\ WaitThreadOK(pc'[t], ret'[t], held'[t], locking'[t], mwait'[t], waiter'[t])
      /\ Confirming(pc'[t], locking'[t], word')
  BY <1>1, <1>6
  DEF WaitThreadOK, Confirming, WaitPlaces, MuLabels, LockLabels, ScanLabels, WakeLabels
<1>. QED BY Zenon, <1>0, <1>2, <1>4, <1>5, <1>7, WaitKeeps DEF LockStep

(* A call starts lock or unlock, or is over at once.                       *)
LEMMA ClientWait ==
  ASSUME CountingLaws, WaitInv, NEW t \in Threads, pc[t] = "client", QueueStep(t),
         UNCHANGED mwait,
         pc'[t] \in {"client", "lock_slow", "unlock_slow"},
         ret'[t] = "client" \/ (pc'[t] = "client" /\ ret'[t] = ret[t])
  PROVE  WaitInv'
<1>1. /\ WaitThreadOK(pc[t], ret[t], held[t], locking[t], mwait[t], waiter[t])
      /\ DOMAIN mwait = Threads
  BY Zenon, WaitFacts
<1>2. /\ WaitThreadOK(pc'[t], ret'[t], held'[t], locking'[t], mwait'[t], waiter'[t])
      /\ Confirming(pc'[t], locking'[t], word')
  BY Zenon, <1>1
  DEF WaitThreadOK, Confirming, WaitPlaces, MuLabels, LockLabels, ScanLabels, WakeLabels
<1>. QED BY Zenon, <1>1, <1>2, WaitKeeps

(* Locking, with or without waiting.                                       *)
LEMMA ClientLockWait ==
  ASSUME CountingLaws, WaitInv, NEW t \in Threads, NEW mode \in Modes, ClientLock(t, mode)
  PROVE  WaitInv' /\ LockStep
<1>1. /\ pc[t] = "client" /\ held[t] = "none" /\ UNCHANGED mwait
      /\ \/ LockBody(t, mode, "client")
         \/ AcquireNow(t, mode, "client")
         \/ UNCHANGED <<word, waiters, waiter, pc, ret, held, locking, waking, truth>>
  BY Zenon DEF ClientLock, Lock, TryLock, StartsCall, waitOnly
<1>2. /\ QueueInv /\ MuInv /\ Idle(pc[t]) /\ Idle("client") /\ "client" \notin MuLabels
      /\ ~waiter[t].waiting
  BY Zenon, <1>1, ClientFacts
<1>3. mode \in LockModes
  BY NsyncMuConstants DEF LockModes
<1>4. CASE LockBody(t, mode, "client") \/ AcquireNow(t, mode, "client")
  <2>1. LockBody(t, mode, "client")
    BY Zenon, <1>4 DEF LockBody
  <2>2. QueueStep(t) /\ LockStep
    BY Zenon, <1>1, <1>2, <1>3, <2>1, LockBodyQueue, LockBodyStep
  <2>3. /\ pc'[t] \in {"client", "lock_slow"}
        /\ ret'[t] = "client" \/ (pc'[t] = "client" /\ ret'[t] = ret[t])
    <3>1. DOMAIN pc = Threads /\ DOMAIN ret = Threads
      BY <1>2, QueueFacts
    <3>2. CASE AcquireNow(t, mode, "client")
      <4>1. pc' = [pc EXCEPT ![t] = "client"] /\ ret' = ret
        BY Zenon, <3>2 DEF AcquireNow, Goto
      <4>. QED BY <3>1, <4>1
    <3>3. CASE EnterLockSlow(t, mode, FALSE, "client")
      <4>1. pc' = [pc EXCEPT ![t] = "lock_slow"] /\ ret' = [ret EXCEPT ![t] = "client"]
        BY Zenon, <3>3 DEF EnterLockSlow, Goto
      <4>. QED BY <3>1, <4>1
    <3>. QED BY Zenon, <2>1, <3>2, <3>3 DEF LockBody
  <2>. QED BY <1>1, <2>2, <2>3, ClientWait
<1>5. CASE UNCHANGED <<word, waiters, waiter, pc, ret, held, locking, waking, truth>>
  BY <1>1, <1>5, WaitStutters
<1>. QED BY Zenon, <1>1, <1>4, <1>5

(* Unlocking.                                                              *)
LEMMA ClientUnlockWait ==
  ASSUME CountingLaws, WaitInv, NEW t \in Threads, ClientUnlock(t)
  PROVE  WaitInv' /\ LockStep
<1>1. /\ pc[t] = "client" /\ held[t] # "none" /\ UNCHANGED mwait
      /\ UnlockBody(t, held[t], "client")
  BY Zenon DEF ClientUnlock, Unlock
<1>2. /\ QueueInv /\ MuInv /\ Idle(pc[t]) /\ Idle("client") /\ "client" \notin MuLabels
      /\ ~waiter[t].waiting
  BY <1>1, ClientFacts
<1>3. held[t] \in LockModes
  BY Zenon, <1>1, <1>2 DEF MuInv, CountsHolders, HeldModes, LockModes
<1>4. QueueStep(t)
  BY Zenon, <1>1, <1>2, <1>3, UnlockBodyQueue
<1>5. LockStep
  BY Zenon, <1>1, <1>2, <1>3, UnlockBodyStep
<1>6. /\ pc'[t] \in {"client", "unlock_slow"}
      /\ ret'[t] = "client" \/ (pc'[t] = "client" /\ ret'[t] = ret[t])
  <2>1. DOMAIN pc = Threads /\ DOMAIN ret = Threads
    BY <1>2, QueueFacts
  <2>2. CASE ReleaseNow(t, held[t], "client")
    <3>1. pc' = [pc EXCEPT ![t] = "client"] /\ ret' = ret
      BY Zenon, <2>2 DEF ReleaseNow, Goto
    <3>. QED BY <2>1, <3>1
  <2>3. CASE EnterUnlockSlow(t, held[t], "client")
    <3>1. pc' = [pc EXCEPT ![t] = "unlock_slow"] /\ ret' = [ret EXCEPT ![t] = "client"]
      BY Zenon, <2>3 DEF EnterUnlockSlow, Goto
    <3>. QED BY <2>1, <3>1
  <2>4. ReleaseNow(t, held[t], "client") \/ EnterUnlockSlow(t, held[t], "client")
    BY Zenon, <1>1, <1>2, <1>3, UnlockChecksPass
    DEF UnlockBody, WriterUnlockBody, ReaderUnlockBody, LockModes
  <2>. QED BY Zenon, <2>2, <2>3, <2>4
<1>. QED BY <1>1, <1>4, <1>5, <1>6, ClientWait

(* Unlocking without waking waiters whose conditions cannot have changed.  *)
LEMMA UnlockWithoutWakeupWait ==
  ASSUME CountingLaws, WaitInv, NEW t \in Threads, UnlockWithoutWakeup(t)
  PROVE  WaitInv' /\ LockStep
<1>0. pc[t] = "client" /\ held[t] = "w" /\ UNCHANGED mwait
  BY Zenon DEF UnlockWithoutWakeup
<1>1. /\ QueueInv /\ MuInv /\ Idle(pc[t]) /\ Idle("client") /\ "client" \notin MuLabels
      /\ ~waiter[t].waiting /\ "w" \in LockModes
      /\ DOMAIN pc = Threads /\ DOMAIN ret = Threads /\ DOMAIN word = WordFields
  BY Zenon, <1>0, ClientFacts, QueueFacts DEF LockModes
<1>2. CASE /\ word' = Released(word, "w") /\ held' = [held EXCEPT ![t] = "none"]
           /\ UNCHANGED <<waiters, waiter, pc, ret, locking, waking>>
  <2>1. /\ DOMAIN word' = WordFields /\ word'.wlock = word.wlock - 1
        /\ word'.readers = word.readers
    BY Zenon, <1>1, <1>2, WordOperators
  <2>2. CountsHolders(word, held)' /\ Abstract!Release(t)
    <3>1. CountsHolders(word, held)
      BY <1>1 DEF MuInv
    <3>. QED BY Zenon, <1>0, <1>1, <1>2, <2>1, <3>1, ReleaseCounts
  <2>3. MuInv'
    <3>1. ThreadOK(pc'[t], held'[t], locking'[t], waking'[t])
      <4>1. LocalsOK(locking'[t], waking'[t]) /\ pc'[t] \notin MuLabels
        BY Zenon, <1>0, <1>1, <1>2, LocalsStayOK
      <4>. QED BY <4>1, OutsideOK
    <3>2. OthersWait(t)
      BY <1>1, <1>2, QueueFacts DEF OthersWait
    <3>. QED BY Zenon, <1>1, <1>2, <2>2, <3>1, <3>2, ThreadStep DEF MuInv
  <2>4. /\ OthersStay(t) /\ word'.spin = word.spin /\ WordBits(word') /\ MayWrite(t)
    <3>1. word'.spin = word.spin /\ WordBits(word')
      BY Zenon, <1>1, <1>2, SpinKept, QueueFacts
    <3>2. OthersStay(t)
      BY Zenon, <1>1, <1>2, QueueFacts DEF OthersStay
    <3>. QED BY <1>0, <3>1, <3>2 DEF MayWrite
  <2>5. QueueThreadOK(pc'[t], ret'[t], waking'[t], waiter'[t])
    BY Zenon, <1>1, <1>2, QueueFacts
  <2>6. SpinStep(t)
    <3>1. ~SpinOwner(pc'[t], waking'[t])
      BY <1>0, <1>2 DEF SpinOwner, SpinLabels
    <3>. QED BY Zenon, <1>2, <2>4, <3>1, SpinQuiet
  <2>7. Quietly(t)
    BY Zenon, <1>1, <1>2, <2>4, <2>5, QueueFacts DEF Quietly
  <2>8. QueueStep(t)
    BY Zenon, <1>1, <2>3, <2>4, <2>6, <2>7, QuietKeeps
  <2>9. pc'[t] = "client" /\ ret'[t] = ret[t]
    BY Zenon, <1>0, <1>2
  <2>. QED BY <1>0, <2>2, <2>8, <2>9, ClientWait DEF LockStep
<1>3. CASE EnterUnlockSlow(t, "w", "client")
  <2>1. QueueStep(t) /\ UNCHANGED held
    BY Zenon, <1>0, <1>1, <1>3, EnterUnlockSlowQueue, EnterUnlockSlowStep
  <2>2. pc'[t] = "unlock_slow" /\ ret'[t] = "client"
    BY <1>1, <1>3 DEF EnterUnlockSlow, Goto
  <2>. QED BY <1>0, <2>1, <2>2, ClientWait DEF LockStep
<1>4. ~(word.wlock = 0 \/ word.readers # 0)
  BY <1>0, <1>1, UnlockChecksPass
<1>. QED BY Zenon, <1>2, <1>3, <1>4 DEF UnlockWithoutWakeup

-----------------------------------------------------------------------------
(* Every step.                                                             *)

(* At first nobody waits.                                                  *)
LEMMA InitWaitInv ==
  ASSUME CountingLaws, WaitInit
  PROVE  WaitInv /\ Abstract!Init
<1>1. Init /\ DOMAIN mwait = Threads /\ \A t \in Threads : mwait[t] = NotWaiting
  BY DEF WaitInit
<1>2. QueueInv /\ Abstract!Init /\ \A p \in Threads : Cardinality(MuPlaces(p)) = Due(p)
  BY <1>1, InitQueueInv, InitMuInv
<1>3. ASSUME NEW t \in Threads
      PROVE  /\ WaitThreadOK(pc[t], ret[t], held[t], locking[t], mwait[t], waiter[t])
             /\ Confirming(pc[t], locking[t], word)
  <2>1. pc[t] = "client" /\ ret[t] = "client"
    BY <1>1 DEF Init
  <2>2. WaitLocals(mwait[t])
    <3>1. WaitLocals(NotWaiting)
      BY DEF WaitLocals, WaitFields, NotWaiting, LockModes
    <3>. QED BY Zenon, <1>1, <3>1
  <2>. QED BY <2>1, <2>2
       DEF WaitThreadOK, Confirming, WaitPlaces, LockLabels, ScanLabels, WakeLabels
<1>. QED BY <1>1, <1>2, <1>3 DEF WaitInv, ListedOnce

(* Every step keeps the invariant and does with the mutex what one thread  *)
(* may do.                                                                 *)
LEMMA WaitNextStep ==
  ASSUME CountingLaws, WaitInv, [WaitNext]_waitVars
  PROVE  WaitInv' /\ LockStep
<1>1. CASE UNCHANGED waitVars
  BY <1>1, WaitStutters DEF waitVars, waitOnly, muVars
<1>2. ASSUME NEW t \in Threads, NEW mode \in Modes, ClientLock(t, mode)
      PROVE  WaitInv' /\ LockStep
  BY Zenon, <1>2, ClientLockWait
<1>3. ASSUME NEW t \in Threads, ClientUnlock(t) \/ UnlockWithoutWakeup(t)
      PROVE  WaitInv' /\ LockStep
  BY Zenon, <1>3, ClientUnlockWait, UnlockWithoutWakeupWait
<1>4. ASSUME NEW t \in Threads, NEW c \in Conditions, MuWait(t, c) \/ Change(t, c)
      PROVE  WaitInv' /\ LockStep
  <2>1. CASE MuWait(t, c)
    BY Zenon, <2>1, MuWaitWait
  <2>2. CASE Change(t, c)
    BY <2>2, WaitStutters DEF Change
  <2>. QED BY Zenon, <1>4, <2>1, <2>2
<1>5. ASSUME NEW t \in Threads, WaitStep(t) \/ WaitDeadlinePasses(t)
      PROVE  WaitInv' /\ LockStep
  <2>1. CASE WaitTest(t) \/ WaitP(t) \/ WaitDeadlinePasses(t)
    BY Zenon, <2>1, WaitLoopWait
  <2>2. CASE (MuStep(t) \/ TestStep(t)) /\ UNCHANGED waitOnly
    BY Zenon, <2>2, MuStepWait DEF waitOnly
  <2>. QED BY Zenon, <1>5, <2>1, <2>2, WaitSpinlockWait, WaitQueueWait, TimeoutAcquireWait,
          TimeoutSwapFailsWait, TimeoutAnnounceWait, TimeoutConfirmWait,
          WaitReacquireWait, WaitEvaluateWait
       DEF WaitStep
<1>6. CASE Quiescent
  BY <1>1, <1>6 DEF Quiescent
<1>. QED BY Zenon, <1>1, <1>2, <1>3, <1>4, <1>5, <1>6 DEF WaitNext, WaitNextBy

-----------------------------------------------------------------------------
(* What conditional critical sections keep, for every number of threads,   *)
(* conditions, calls and deadlines.                                        *)
=============================================================================
