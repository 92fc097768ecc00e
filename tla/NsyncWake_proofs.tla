-------------------------- MODULE NsyncWake_proofs --------------------------
(***************************************************************************)
(* The bits of the word that let an unlock skip its scan of the queue are  *)
(* truthful, with conditional critical sections and their timeouts:        *)
(* MU_DESIG_WAKER is set only while a woken waiter is on its way or an     *)
(* unlock is choosing one, MU_ALL_FALSE only while no queued waiter could  *)
(* go on, and a clear MU_CONDITION means that no queued waiter has a       *)
(* condition, so that nsync_mu_unlock_slow_ never panics.                  *)
(***************************************************************************)
EXTENDS NsyncMu_proofs

(* A thread that a set MU_DESIG_WAKER may stand for.                       *)
OnItsWay(t) == Awake(t) \/ pc[t] \in ScanLabels \cup {"unlock_wake"}

(* What a thread's place says of its waiter and of its scan: a lock call   *)
(* waits without a condition, and a scan that holds the lock stops testing *)
(* conditions only with a writer on its wake list.                         *)
PlaceOK(label, s, w) ==
  /\ label # "panic" /\ ~w.cvMu
  /\ label \in LockLabels => w.cond = NoCondition
  /\ label \in ScanLabels /\ s.late /\ ~s.testing => s.wakeType = "w"
  /\ label \in {"unlock_test", "unlock_respin"} => s.testing

(* The bits that a thread has set or cleared before it queues its waiter.  *)
QueueingOK(label, l, wd) ==
  /\ label \in {"lock_queue", "wait_queue"} => ~wd.allFalse
  /\ label = "wait_queue" => wd.condition
  /\ label = "lock_queue" /\ l.slept => ~wd.desig

Met(w, data) == w.cond = NoCondition \/ w.cond \in data

(* What a scan has found: without the lock, only waiters without           *)
(* conditions; with it, ALL_FALSE tells of every waiter that it kept.      *)
ScanFound(s, w, data, condition) ==
  /\ s.late => condition /\ (s.allFalse => \A p \in Range(s.kept) : ~Met(w[p], data))
  /\ ~s.late => /\ \A p \in Range(s.new) : w[p].cond = NoCondition
                /\ s.allFalse => s.kept = <<>>

OneScanner ==
  \A t, u \in Threads : pc[t] \in ScanLabels /\ pc[u] \in ScanLabels => t = u

(* A clear MU_CONDITION means that no queued waiter has a condition.       *)
ConditionBitOK == ~word.condition => \A p \in Queued : waiter[p].cond = NoCondition

(* A writer that may have made a condition true and is bound to clear      *)
(* MU_ALL_FALSE, or to set it anew, before the mutex is free.              *)
Answerable(t) ==
  /\ held[t] = "w"
  /\ \/ pc[t] \in ScanLabels \cup {"unlock_slow"}
     \/ pc[t] \in {"client", "wait_spin"} /\ section = "raised"

AllFalseOK ==
  word.allFalse =>
    /\ word.condition
    /\ (\A t \in Threads : ~Answerable(t)) => \A p \in Queued : ~Satisfied(p)

DesigOK == word.desig => \E t \in Threads : OnItsWay(t)

WakeInv ==
  /\ \A t \in Threads : /\ PlaceOK(pc[t], waking[t], waiter[t])
                        /\ QueueingOK(pc[t], locking[t], word)
                        /\ pc[t] \in ScanLabels =>
                             ScanFound(waking[t], waiter, truth, word.condition)
  /\ OneScanner /\ ConditionBitOK /\ AllFalseOK /\ DesigOK

-----------------------------------------------------------------------------
(* Steps.                                                                  *)

(* What a step of t leaves alone.                                          *)
Rests(t) ==
  /\ OthersStay(t)
  /\ \A u \in Threads \ {t} : /\ waiter'[u].cond = waiter[u].cond
                              /\ waiter'[u].cvMu = waiter[u].cvMu

(* The bits change only in the safe direction.                             *)
Falls(wd, wd2) ==
  /\ wd.condition => wd2.condition
  /\ wd2.allFalse => wd.allFalse
  /\ wd2.desig => wd.desig

(* A woken waiter stays on its way while other threads move.               *)
LEMMA StaysOnItsWay ==
  ASSUME NEW t \in Threads, Rests(t), NEW u \in Threads \ {t}, OnItsWay(u)
  PROVE  OnItsWay(u)'
<1>1. /\ pc'[u] = pc[u] /\ ret'[u] = ret[u] /\ locking'[u] = locking[u]
      /\ waiter'[u].waiting => waiter[u].waiting
      /\ waiter'[u].cvMu = waiter[u].cvMu
  BY Zenon DEF Rests, OthersStay
<1>. QED BY <1>1 DEF OnItsWay, Awake

(* What the invariant asks of every step.                                  *)
LEMMA WakeKeeps ==
  ASSUME WakeInv, NEW t \in Threads, Rests(t),
         \A u \in Threads \ {t} :
           /\ pc[u] \in {"lock_queue", "wait_queue"} => Falls(word, word')
           /\ pc[u] \in ScanLabels =>
                ScanFound(waking[u], waiter', truth', word'.condition),
         PlaceOK(pc'[t], waking'[t], waiter'[t]),
         QueueingOK(pc'[t], locking'[t], word'),
         pc'[t] \in ScanLabels =>
           /\ ScanFound(waking'[t], waiter', truth', word'.condition)
           /\ pc[t] \in ScanLabels \/ \A u \in Threads : pc[u] \notin ScanLabels,
         ConditionBitOK', AllFalseOK',
         word'.desig =>
           /\ word.desig \/ OnItsWay(t)'
           /\ OnItsWay(t) => \E p \in Threads : OnItsWay(p)'
  PROVE  WakeInv'
<1>1. \A u \in Threads \ {t} : /\ pc'[u] = pc[u] /\ waking'[u] = waking[u]
                               /\ locking'[u] = locking[u]
                               /\ waiter'[u].cond = waiter[u].cond
                               /\ waiter'[u].cvMu = waiter[u].cvMu
  BY Zenon DEF Rests, OthersStay
<1>2. ASSUME NEW u \in Threads
      PROVE  /\ PlaceOK(pc'[u], waking'[u], waiter'[u])
             /\ QueueingOK(pc'[u], locking'[u], word')
             /\ pc'[u] \in ScanLabels =>
                  ScanFound(waking'[u], waiter', truth', word'.condition)
  <2>1. CASE u = t
    BY Zenon, <2>1
  <2>2. CASE u # t
    <3>1. PlaceOK(pc[u], waking[u], waiter[u]) /\ QueueingOK(pc[u], locking[u], word)
      BY Zenon DEF WakeInv
    <3>2. u \in Threads \ {t}
      BY <2>2
    <3>3. PlaceOK(pc'[u], waking'[u], waiter'[u])
      BY <1>1, <3>1, <3>2 DEF PlaceOK
    <3>4. QueueingOK(pc[u], locking[u], word')
      BY <3>1, <3>2 DEF QueueingOK, Falls
    <3>. QED BY Zenon, <1>1, <3>2, <3>3, <3>4
  <2>. QED BY <2>1, <2>2
<1>3. OneScanner'
  BY <1>1 DEF WakeInv, OneScanner
<1>4. DesigOK'
  <2>1. ASSUME word'.desig, ~OnItsWay(t)' PROVE \E p \in Threads : OnItsWay(p)'
    <3>1. PICK u \in Threads : OnItsWay(u)
      BY Zenon, <2>1 DEF WakeInv, DesigOK
    <3>. QED BY Zenon, <2>1, <3>1, StaysOnItsWay
  <2>. QED BY Zenon, <2>1 DEF DesigOK
<1>. QED BY Zenon, <1>2, <1>3, <1>4 DEF WakeInv

-----------------------------------------------------------------------------
(* Steps that scan nothing.                                                *)

(* Waiters on the queue and on the lists of scans are due to be told.      *)
LEMMA QueuedAreDue ==
  ASSUME CountingLaws, QueueInv, NEW p \in Queued
  PROVE  p \in Threads /\ Due(p) # 0
<1>1. /\ waiters \in Seq(Threads)
      /\ \A u \in Threads : waking[u].new \in Seq(Threads) /\ waking[u].kept \in Seq(Threads)
  BY DEF QueueInv, QueueTyped, QueueThreadOK, WakeState
<1>2. \/ p \in Range(waiters)
      \/ \E u \in Threads : p \in Range(waking[u].new) \/ p \in Range(waking[u].kept)
  BY DEF Queued
<1>3. \A l \in Seq(Threads) : p \in Range(l) => p \in Threads /\ Positions(l, p) # {}
  BY DEF Range, Positions
<1>4. p \in Threads
  BY Zenon, <1>1, <1>2, <1>3
<1>5. ASSUME Due(p) = 0 PROVE FALSE
  <2>1. /\ Positions(waiters, p) = {}
        /\ \A u \in Threads :
             Positions(waking[u].new, p) = {} /\ Positions(waking[u].kept, p) = {}
    BY Zenon, <1>4, <1>5, NotDueNotListed
  <2>. QED BY Zenon, <1>1, <1>2, <1>3, <2>1
<1>. QED BY <1>4, <1>5

(* A step that has no scan before or after it.                             *)
Plain(t) ==
  /\ Rests(t) /\ Falls(word, word') /\ truth' = truth
  /\ pc[t] \notin ScanLabels /\ pc'[t] \notin ScanLabels
  /\ PlaceOK(pc'[t], waking'[t], waiter'[t])
  /\ QueueingOK(pc'[t], locking'[t], word')
  /\ waiter'[t].cond = waiter[t].cond \/ Due(t) = 0
  /\ \A p \in Range(waiters') :
       \/ p \in Range(waiters)
       \/ p = t /\ ~word'.allFalse /\ (word'.condition \/ waiter'[t].cond = NoCondition)
  /\ word'.allFalse /\ Answerable(t) => Answerable(t)'
  /\ section' = section \/ held[t] # "none"
  /\ word'.desig /\ OnItsWay(t) => \E p \in Threads : OnItsWay(p)'

(* What such a step must do to keep the invariant.                         *)
LEMMA PlainKeeps ==
  ASSUME CountingLaws, WaitInv, WaitInv', WakeInv, NEW t \in Threads, Plain(t)
  PROVE  WakeInv'
<1>0. /\ Rests(t) /\ Falls(word, word') /\ truth' = truth
      /\ pc[t] \notin ScanLabels /\ pc'[t] \notin ScanLabels
      /\ PlaceOK(pc'[t], waking'[t], waiter'[t])
      /\ QueueingOK(pc'[t], locking'[t], word')
  BY Zenon DEF Plain
<1>1. \A u \in Threads \ {t} : /\ pc'[u] = pc[u] /\ waking'[u] = waking[u]
                               /\ held'[u] = held[u]
                               /\ waiter'[u].cond = waiter[u].cond
  BY Zenon, <1>0 DEF Rests, OthersStay
<1>2. QueueInv /\ MuInv
  BY Zenon, WaitFacts
<1>3. \A p \in Queued : p \in Threads /\ waiter'[p].cond = waiter[p].cond
  BY Zenon, <1>1, <1>2, QueuedAreDue DEF Plain
<1>4. waking'[t].new = <<>> /\ waking'[t].kept = <<>>
  <2>1. QueueThreadOK(pc'[t], ret'[t], waking'[t], waiter'[t])
    BY Zenon DEF WaitInv, QueueInv, QueueTyped
  <2>. QED BY <1>0, <2>1 DEF QueueThreadOK, NoLists, PlaceOK
<1>5. \A p \in Queued' :
        \/ p \in Queued
        \/ p = t /\ ~word'.allFalse /\ (word'.condition \/ waiter'[t].cond = NoCondition)
  <2>1. ASSUME NEW u \in Threads, NEW p,
               p \in Range(waking'[u].new) \/ p \in Range(waking'[u].kept)
        PROVE  p \in Queued
    <3>1. u # t
      BY <1>4, <2>1 DEF Range
    <3>. QED BY <1>1, <2>1, <3>1 DEF Queued
  <2>2. ASSUME NEW p \in Range(waiters) PROVE p \in Queued
    BY DEF Queued
  <2>3. \A p \in Queued' : \/ p \in Range(waiters')
                           \/ \E u \in Threads : p \in Range(waking'[u].new)
                                                   \/ p \in Range(waking'[u].kept)
    BY DEF Queued
  <2>. QED BY Zenon, <2>1, <2>2, <2>3 DEF Plain
<1>6. ConditionBitOK'
  BY <1>0, <1>3, <1>5 DEF ConditionBitOK, Falls, WakeInv
<1>7. AllFalseOK'
  <2>1. word'.allFalse => word.allFalse /\ word.condition /\ word'.condition
    BY <1>0 DEF Falls, WakeInv, AllFalseOK
  <2>2. ASSUME word'.allFalse, \A u \in Threads : ~Answerable(u)', NEW u \in Threads
        PROVE  ~Answerable(u)
    <3>1. CASE u = t
      BY Zenon, <2>2, <3>1 DEF Plain
    <3>2. CASE u # t
      <4>1. held[u] = "w" => held[t] = "none"
        BY <1>2, <3>2 DEF MuInv, CountsHolders
      <4>2. section' = section \/ held[t] # "none"
        BY Zenon DEF Plain
      <4>. QED BY <1>1, <2>2, <3>2, <4>1, <4>2 DEF Answerable
    <3>. QED BY <3>1, <3>2
  <2>3. ASSUME word'.allFalse, \A u \in Threads : ~Answerable(u)', NEW p \in Queued'
        PROVE  ~Satisfied(p)'
    <3>1. p \in Queued /\ ~Satisfied(p)
      BY Zenon, <1>5, <2>1, <2>2, <2>3 DEF WakeInv, AllFalseOK
    <3>. QED BY <1>0, <1>3, <3>1 DEF Satisfied
  <2>. QED BY Zenon, <2>1, <2>3 DEF AllFalseOK
<1>8. ASSUME NEW u \in Threads \ {t}, pc[u] \in ScanLabels
      PROVE  ScanFound(waking[u], waiter', truth', word'.condition)
  <2>1. ScanFound(waking[u], waiter, truth, word.condition)
    BY Zenon, <1>8 DEF WakeInv
  <2>2. \A p : p \in Range(waking[u].new) \/ p \in Range(waking[u].kept) =>
                 waiter'[p].cond = waiter[p].cond
    BY <1>3 DEF Queued
  <2>. QED BY <1>0, <2>1, <2>2 DEF ScanFound, Met, Falls
<1>9. word'.desig => /\ word.desig \/ OnItsWay(t)'
                     /\ OnItsWay(t) => \E p \in Threads : OnItsWay(p)'
  BY Zenon, <1>0 DEF Falls, Plain
<1>. QED BY Zenon, <1>0, <1>6, <1>7, <1>8, <1>9, WakeKeeps

-----------------------------------------------------------------------------
(* The steps of lock calls.                                                *)

(* What the operators on the word do to the three bits.                    *)
LEMMA BitsAfter ==
  ASSUME NEW wd, DOMAIN wd = WordFields, NEW mode, NEW slept, NEW longWait
  PROVE  /\ LET a == Acquired(wd, mode, slept, longWait) IN
            Falls(wd, a) /\ (slept => ~a.desig)
         /\ LET r == Released(wd, mode) IN
            /\ r.condition = wd.condition /\ r.desig = wd.desig
            /\ r.allFalse = wd.allFalse
         /\ LET q == ReleasedQuietly(wd, mode) IN
            Falls(wd, q) /\ (mode = "w" => ~q.allFalse)
         /\ LET d == Added(wd, mode) IN
            /\ d.condition = wd.condition /\ d.desig = wd.desig
            /\ d.allFalse = wd.allFalse
<1>1. LET d == Added(wd, mode) IN
      /\ d.condition = wd.condition /\ d.desig = wd.desig
      /\ d.allFalse = wd.allFalse /\ DOMAIN d = WordFields
  BY DEF Added, WordFields
<1>2. LET r == Released(wd, mode) IN
      /\ r.condition = wd.condition /\ r.desig = wd.desig
      /\ r.allFalse = wd.allFalse /\ DOMAIN r = WordFields
  BY DEF Released, WordFields
<1>3. LET a == Acquired(wd, mode, slept, longWait) IN
      Falls(wd, a) /\ (slept => ~a.desig)
  BY <1>1 DEF Acquired, WordFields, Falls
<1>4. LET q == ReleasedQuietly(wd, mode) IN
      Falls(wd, q) /\ (mode = "w" => ~q.allFalse)
  BY <1>2 DEF ReleasedQuietly, WordFields, Falls
<1>. QED BY Zenon, <1>1, <1>2, <1>3, <1>4

(* What the invariants say of a thread that takes a step.                  *)
LEMMA StepFacts ==
  ASSUME WaitInv, WakeInv, NEW t \in Threads
  PROVE  /\ QueueInv /\ MuInv
         /\ DOMAIN pc = Threads /\ DOMAIN ret = Threads /\ DOMAIN held = Threads
         /\ DOMAIN locking = Threads /\ DOMAIN waking = Threads
         /\ DOMAIN waiter = Threads /\ DOMAIN word = WordFields
         /\ \A p \in Threads : waiter[p] \in WaiterState
         /\ DOMAIN locking[t] = DOMAIN NotLocking
         /\ PlaceOK(pc[t], waking[t], waiter[t]) /\ QueueingOK(pc[t], locking[t], word)
         /\ WaitThreadOK(pc[t], ret[t], held[t], locking[t], mwait[t], waiter[t])
         /\ ThreadOK(pc[t], held[t], locking[t], waking[t])
<1>1. QueueInv /\ MuInv
         /\ WaitThreadOK(pc[t], ret[t], held[t], locking[t], mwait[t], waiter[t])
  BY Zenon, WaitFacts
<1>2. /\ DOMAIN pc = Threads /\ DOMAIN ret = Threads /\ DOMAIN held = Threads
      /\ DOMAIN locking = Threads /\ DOMAIN waking = Threads
      /\ DOMAIN waiter = Threads /\ DOMAIN word = WordFields
      /\ \A p \in Threads : waiter[p] \in WaiterState
      /\ ThreadOK(pc[t], held[t], locking[t], waking[t])
  BY Zenon, <1>1, QueueFacts
<1>3. DOMAIN locking[t] = DOMAIN NotLocking
  BY Zenon, <1>2 DEF ThreadOK
<1>4. PlaceOK(pc[t], waking[t], waiter[t]) /\ QueueingOK(pc[t], locking[t], word)
  BY Zenon DEF WakeInv
<1>. QED BY Zenon, <1>1, <1>2, <1>3, <1>4

(* Entering the slow path of lock, from a client or from a woken wait.     *)
LEMMA EnterLockSlowPlain ==
  ASSUME WaitInv, WakeInv, NEW t \in Threads, NEW mode, NEW slept, NEW next,
         pc[t] = "client" \/ (pc[t] = "wait_woken" /\ slept),
         ~waiter[t].waiting, held[t] = "none", UNCHANGED section,
         EnterLockSlow(t, mode, slept, next)
  PROVE  Plain(t)
<1>0. /\ DOMAIN pc = Threads /\ DOMAIN ret = Threads /\ DOMAIN locking = Threads
      /\ DOMAIN waiter = Threads /\ DOMAIN locking[t] = DOMAIN NotLocking
      /\ waiter[t] \in WaiterState
  BY Zenon, StepFacts
<1>1. /\ pc'[t] = "lock_slow" /\ locking'[t].slept = slept
      /\ waiter'[t].cond = NoCondition /\ waiter'[t].cvMu = FALSE
      /\ word' = word /\ waiters' = waiters /\ truth' = truth
  BY <1>0 DEF EnterLockSlow, Goto, NotLocking, WaiterState
<1>2. Rests(t)
  BY <1>0 DEF EnterLockSlow, Goto, Rests, OthersStay
<1>3. PlaceOK(pc'[t], waking'[t], waiter'[t]) /\ QueueingOK(pc'[t], locking'[t], word')
  BY <1>1 DEF PlaceOK, QueueingOK, ScanLabels, LockLabels
<1>4. OnItsWay(t) => OnItsWay(t)'
  BY <1>1 DEF OnItsWay, Awake, ScanLabels, ParkedLabels, UnlockLabels
<1>5. Due(t) = 0 /\ ~Answerable(t) /\ Falls(word, word')
  BY <1>1 DEF Due, Answerable, Falls
<1>. QED BY <1>1, <1>2, <1>3, <1>4, <1>5 DEF Plain, ScanLabels

(* An uncontended acquisition.                                             *)
LEMMA AcquireNowPlain ==
  ASSUME WaitInv, WakeInv, NEW t \in Threads, NEW mode, pc[t] = "client",
         held[t] = "none", UNCHANGED section, AcquireNow(t, mode, "client")
  PROVE  Plain(t)
<1>0. /\ DOMAIN pc = Threads /\ DOMAIN held = Threads /\ DOMAIN word = WordFields
      /\ PlaceOK(pc[t], waking[t], waiter[t])
  BY Zenon, StepFacts
<1>1. /\ pc'[t] = "client" /\ waiter'[t] = waiter[t] /\ waking'[t] = waking[t]
      /\ waiters' = waiters /\ truth' = truth
  BY <1>0 DEF AcquireNow, Goto
<1>2. Rests(t)
  BY <1>0 DEF AcquireNow, Goto, Rests, OthersStay
<1>3. Falls(word, word')
  BY Zenon, <1>0, BitsAfter DEF AcquireNow
<1>4. PlaceOK(pc'[t], waking'[t], waiter'[t]) /\ QueueingOK(pc'[t], locking'[t], word')
  BY <1>0, <1>1 DEF PlaceOK, QueueingOK, ScanLabels, LockLabels
<1>5. ~OnItsWay(t) /\ ~Answerable(t)
  BY <1>1 DEF OnItsWay, Awake, ScanLabels, ParkedLabels, UnlockLabels, Answerable
<1>. QED BY <1>1, <1>2, <1>3, <1>4, <1>5 DEF Plain, ScanLabels

(* The slow path acquires: a designated waker gives up its bit.            *)
LEMMA LockSlowAcquirePlain ==
  ASSUME WaitInv, WakeInv, NEW t \in Threads, UNCHANGED section, LockSlowAcquire(t)
  PROVE  Plain(t)
<1>0. /\ DOMAIN pc = Threads /\ DOMAIN ret = Threads /\ DOMAIN held = Threads
      /\ DOMAIN word = WordFields /\ DOMAIN locking = Threads
      /\ PlaceOK(pc[t], waking[t], waiter[t])
      /\ WaitThreadOK(pc[t], ret[t], held[t], locking[t], mwait[t], waiter[t])
      /\ ThreadOK(pc[t], held[t], locking[t], waking[t])
  BY Zenon, StepFacts
<1>1. /\ pc[t] = "lock_slow" /\ pc'[t] = ret[t] /\ waiter'[t] = waiter[t]
      /\ waking'[t] = waking[t] /\ waiters' = waiters /\ truth' = truth
  BY <1>0 DEF LockSlowAcquire, Return, Goto
<1>2. Rests(t)
  BY <1>0 DEF LockSlowAcquire, Return, Goto, Rests, OthersStay
<1>3. Falls(word, word') /\ (locking[t].slept => ~word'.desig)
  BY Zenon, <1>0, BitsAfter DEF LockSlowAcquire
<1>4. pc'[t] \in {"client", "wait_eval"} /\ held[t] = "none"
  BY <1>0, <1>1 DEF WaitThreadOK, ThreadOK, LockLabels
<1>5. PlaceOK(pc'[t], waking'[t], waiter'[t]) /\ QueueingOK(pc'[t], locking'[t], word')
  BY <1>0, <1>1, <1>4 DEF PlaceOK, QueueingOK, ScanLabels, LockLabels
<1>6. ~Answerable(t) /\ (OnItsWay(t) => locking[t].slept)
  BY <1>1, <1>4 DEF OnItsWay, Awake, ScanLabels, ParkedLabels, UnlockLabels, Answerable
<1>. QED BY <1>1, <1>2, <1>3, <1>4, <1>5, <1>6 DEF Plain, ScanLabels

(* Taking the spinlock to queue: MU_ALL_FALSE goes, and a designated waker *)
(* that must sleep again gives up its bit.                                 *)
LEMMA LockSlowSpinlockPlain ==
  ASSUME WaitInv, WakeInv, NEW t \in Threads, UNCHANGED section, LockSlowSpinlock(t)
  PROVE  Plain(t)
<1>0. /\ DOMAIN pc = Threads /\ DOMAIN word = WordFields
      /\ PlaceOK(pc[t], waking[t], waiter[t])
      /\ ThreadOK(pc[t], held[t], locking[t], waking[t])
  BY Zenon, StepFacts
<1>1. /\ pc[t] = "lock_slow" /\ pc'[t] = "lock_queue" /\ waiter'[t] = waiter[t]
      /\ waking'[t] = waking[t] /\ locking'[t] = locking[t]
      /\ waiters' = waiters /\ truth' = truth
  BY <1>0 DEF LockSlowSpinlock, Goto
<1>2. Rests(t)
  BY <1>0 DEF LockSlowSpinlock, Goto, Rests, OthersStay
<1>3. Falls(word, word') /\ (locking[t].slept => ~word'.desig) /\ ~word'.allFalse
  BY <1>0 DEF LockSlowSpinlock, WordFields, Falls
<1>4. held[t] = "none"
  BY <1>0, <1>1 DEF ThreadOK, LockLabels
<1>5. PlaceOK(pc'[t], waking'[t], waiter'[t]) /\ QueueingOK(pc'[t], locking'[t], word')
  BY <1>0, <1>1, <1>3 DEF PlaceOK, QueueingOK, ScanLabels, LockLabels
<1>6. ~Answerable(t) /\ (OnItsWay(t) => locking[t].slept)
  BY <1>1, <1>4 DEF OnItsWay, Awake, ScanLabels, ParkedLabels, UnlockLabels, Answerable
<1>. QED BY <1>1, <1>2, <1>3, <1>5, <1>6 DEF Plain, ScanLabels

(* The member that a list gains at either end.                             *)
LEMMA RangeGains ==
  ASSUME NEW l \in Seq(Threads), NEW t \in Threads, NEW p
  PROVE  p \in Range(Append(l, t)) \/ p \in Range(<<t>> \o l) => p \in Range(l) \/ p = t
<1>. DEFINE m == Append(l, t)
            n == <<t>> \o l
<1>1. \A i \in DOMAIN m : m[i] = t \/ (i \in DOMAIN l /\ m[i] = l[i])
  OBVIOUS
<1>2. \A i \in DOMAIN n : n[i] = t \/ (i - 1 \in DOMAIN l /\ n[i] = l[i - 1])
  OBVIOUS
<1>. QED BY <1>1, <1>2 DEF Range

(* Queueing a waiter without a condition, with MU_ALL_FALSE clear.         *)
LEMMA LockSlowQueuePlain ==
  ASSUME CountingLaws, WaitInv, WakeInv, NEW t \in Threads, UNCHANGED section,
         LockSlowQueue(t), OthersStay(t)
  PROVE  Plain(t)
<1>0. /\ DOMAIN pc = Threads /\ DOMAIN word = WordFields /\ DOMAIN waiter = Threads
      /\ waiter[t] \in WaiterState
      /\ PlaceOK(pc[t], waking[t], waiter[t]) /\ QueueingOK(pc[t], locking[t], word)
      /\ ThreadOK(pc[t], held[t], locking[t], waking[t])
  BY Zenon, StepFacts
<1>1. /\ pc[t] = "lock_queue" /\ pc'[t] = "lock_wait"
      /\ waiter'[t].cond = waiter[t].cond /\ waiter'[t].cvMu = waiter[t].cvMu
      /\ waking'[t] = waking[t] /\ truth' = truth
  BY <1>0 DEF LockSlowQueue, Goto, WaiterState
<1>2. Rests(t)
  <2>1. OthersStay(t)
    OBVIOUS
  <2>2. \A u \in Threads \ {t} : waiter'[u] = waiter[u]
    BY <1>0 DEF LockSlowQueue
  <2>. QED BY Zenon, <2>1, <2>2 DEF Rests
<1>3. /\ word'.condition = word.condition /\ word'.desig = word.desig
      /\ word'.allFalse = word.allFalse
  BY <1>0 DEF LockSlowQueue, WordFields
<1>4. waiter[t].cond = NoCondition /\ ~word.allFalse /\ held[t] = "none"
  BY <1>0, <1>1 DEF PlaceOK, QueueingOK, LockLabels, ThreadOK
<1>5. PlaceOK(pc'[t], waking'[t], waiter'[t]) /\ QueueingOK(pc'[t], locking'[t], word')
  BY <1>0, <1>1, <1>4 DEF PlaceOK, QueueingOK, ScanLabels, LockLabels
<1>6. ~Answerable(t) /\ (OnItsWay(t) => ~word.desig)
  BY <1>0, <1>1, <1>4 DEF OnItsWay, Awake, ScanLabels, ParkedLabels, UnlockLabels,
    Answerable, QueueingOK
<1>7. \A p \in Range(waiters') : p \in Range(waiters) \/ p = t
  <2>1. waiters \in Seq(Threads)
    BY Zenon DEF WaitInv, QueueInv, QueueTyped
  <2>2. waiters' = Append(waiters, t) \/ waiters' = <<t>> \o waiters
    BY Zenon DEF LockSlowQueue
  <2>. QED BY Zenon, <2>1, <2>2, RangeGains
<1>8. Falls(word, word')
  BY <1>3 DEF Falls
<1>. QED BY <1>1, <1>2, <1>3, <1>4, <1>5, <1>6, <1>7, <1>8 DEF Plain, ScanLabels

(* The loop that waits to be told: told, the thread has slept.             *)
LEMMA LockSlowWaitPlain ==
  ASSUME WaitInv, WakeInv, NEW t \in Threads, UNCHANGED section,
         LockSlowWait(t) \/ LockSlowP(t)
  PROVE  Plain(t)
<1>0. /\ DOMAIN pc = Threads /\ DOMAIN waiter = Threads /\ DOMAIN locking = Threads
      /\ waiter[t] \in WaiterState /\ DOMAIN locking[t] = DOMAIN NotLocking
      /\ PlaceOK(pc[t], waking[t], waiter[t])
      /\ ThreadOK(pc[t], held[t], locking[t], waking[t])
  BY Zenon, StepFacts
<1>1. /\ pc[t] \in {"lock_wait", "lock_p"}
      /\ waiter'[t].cond = waiter[t].cond /\ waiter'[t].cvMu = waiter[t].cvMu
      /\ waiter'[t].waiting = waiter[t].waiting
      /\ waking'[t] = waking[t] /\ truth' = truth /\ word' = word /\ waiters' = waiters
  BY <1>0 DEF LockSlowWait, LockSlowP, SemaphoreP, WaiterState
<1>2. \/ pc'[t] \in {"lock_wait", "lock_p"}
      \/ pc'[t] = "lock_slow" /\ locking'[t].slept
  BY <1>0 DEF LockSlowWait, LockSlowP, SemaphoreP, Goto, NotLocking
<1>3. Rests(t)
  BY <1>0 DEF LockSlowWait, LockSlowP, SemaphoreP, Goto, Rests, OthersStay
<1>4. held[t] = "none" /\ Falls(word, word')
  BY <1>0, <1>1 DEF ThreadOK, LockLabels, Falls
<1>5. PlaceOK(pc'[t], waking'[t], waiter'[t]) /\ QueueingOK(pc'[t], locking'[t], word')
  BY <1>0, <1>1, <1>2 DEF PlaceOK, QueueingOK, ScanLabels, LockLabels
<1>6. ~Answerable(t) /\ (OnItsWay(t) => OnItsWay(t)')
  BY <1>1, <1>2, <1>4 DEF OnItsWay, Awake, ScanLabels, ParkedLabels, UnlockLabels, Answerable
<1>. QED BY <1>1, <1>2, <1>3, <1>4, <1>5, <1>6 DEF Plain, ScanLabels

-----------------------------------------------------------------------------
(* The steps of unlock calls outside the scan.                             *)

(* Entering the slow path of unlock.                                       *)
LEMMA EnterUnlockSlowPlain ==
  ASSUME WaitInv, WakeInv, NEW t \in Threads, NEW mode \in LockModes, pc[t] = "client",
         held[t] = mode, EnterUnlockSlow(t, mode, "client")
  PROVE  Plain(t)
<1>0. /\ DOMAIN pc = Threads /\ DOMAIN ret = Threads /\ DOMAIN waking = Threads
      /\ PlaceOK(pc[t], waking[t], waiter[t])
  BY Zenon, StepFacts
<1>1. /\ pc'[t] = "unlock_slow" /\ waiter'[t] = waiter[t] /\ held'[t] = held[t]
      /\ waiters' = waiters /\ truth' = truth /\ word' = word
  BY <1>0 DEF EnterUnlockSlow, Goto
<1>2. Rests(t)
  BY <1>0 DEF EnterUnlockSlow, Goto, Rests, OthersStay
<1>3. PlaceOK(pc'[t], waking'[t], waiter'[t]) /\ QueueingOK(pc'[t], locking'[t], word')
  BY <1>0, <1>1 DEF PlaceOK, QueueingOK, ScanLabels, LockLabels
<1>4. ~OnItsWay(t) /\ Falls(word, word') /\ held[t] # "none"
  BY <1>1 DEF OnItsWay, Awake, ScanLabels, ParkedLabels, UnlockLabels, Falls, LockModes
<1>5. Answerable(t) => Answerable(t)'
  BY <1>1 DEF Answerable
<1>. QED BY <1>1, <1>2, <1>3, <1>4, <1>5 DEF Plain, ScanLabels

(* An uncontended release: a writer's clears MU_ALL_FALSE.                 *)
LEMMA ReleaseNowPlain ==
  ASSUME WaitInv, WakeInv, NEW t \in Threads, NEW mode \in LockModes, pc[t] = "client",
         held[t] = mode, ReleaseNow(t, mode, "client")
  PROVE  Plain(t)
<1>0. /\ DOMAIN pc = Threads /\ DOMAIN held = Threads /\ DOMAIN word = WordFields
      /\ PlaceOK(pc[t], waking[t], waiter[t])
  BY Zenon, StepFacts
<1>1. /\ pc'[t] = "client" /\ waiter'[t] = waiter[t] /\ waking'[t] = waking[t]
      /\ waiters' = waiters /\ truth' = truth
  BY <1>0 DEF ReleaseNow, Goto
<1>2. Rests(t)
  BY <1>0 DEF ReleaseNow, Goto, Rests, OthersStay
<1>3. Falls(word, word') /\ (mode = "w" => ~word'.allFalse)
  BY Zenon, <1>0, BitsAfter DEF ReleaseNow
<1>4. PlaceOK(pc'[t], waking'[t], waiter'[t]) /\ QueueingOK(pc'[t], locking'[t], word')
  BY <1>0, <1>1 DEF PlaceOK, QueueingOK, ScanLabels, LockLabels
<1>5. ~OnItsWay(t) /\ held[t] # "none" /\ (Answerable(t) => mode = "w")
  BY <1>1 DEF OnItsWay, Awake, ScanLabels, ParkedLabels, UnlockLabels, Answerable, LockModes
<1>. QED BY <1>1, <1>2, <1>3, <1>4, <1>5 DEF Plain, ScanLabels

(* The slow path finds nobody to wake.                                     *)
LEMMA UnlockSlowReleasePlain ==
  ASSUME WaitInv, WakeInv, NEW t \in Threads, UNCHANGED section, UnlockSlowRelease(t)
  PROVE  Plain(t)
<1>0. /\ DOMAIN pc = Threads /\ DOMAIN held = Threads /\ DOMAIN word = WordFields
      /\ DOMAIN ret = Threads /\ DOMAIN waking = Threads
      /\ PlaceOK(pc[t], waking[t], waiter[t])
      /\ WaitThreadOK(pc[t], ret[t], held[t], locking[t], mwait[t], waiter[t])
      /\ ThreadOK(pc[t], held[t], locking[t], waking[t])
  BY Zenon, StepFacts
<1>1. /\ pc[t] = "unlock_slow" /\ pc'[t] = ret[t] /\ waiter'[t] = waiter[t]
      /\ waiters' = waiters /\ truth' = truth
  BY <1>0 DEF UnlockSlowRelease, Return, Goto
<1>2. Rests(t)
  BY <1>0 DEF UnlockSlowRelease, Return, Goto, Rests, OthersStay
<1>3. Falls(word, word') /\ (waking[t].mode = "w" => ~word'.allFalse)
  BY Zenon, <1>0, BitsAfter DEF UnlockSlowRelease
<1>4. pc'[t] \in {"client", "wait_wait"} /\ held[t] = waking[t].mode
  BY <1>0, <1>1 DEF WaitThreadOK, ThreadOK
<1>5. PlaceOK(pc'[t], waking'[t], waiter'[t]) /\ QueueingOK(pc'[t], locking'[t], word')
  BY <1>0, <1>1, <1>4 DEF PlaceOK, QueueingOK, ScanLabels, LockLabels
<1>6. OnItsWay(t) => OnItsWay(t)'
  BY <1>1 DEF OnItsWay, Awake, ScanLabels, ParkedLabels, UnlockLabels
<1>7. Answerable(t) => waking[t].mode = "w"
  BY <1>4 DEF Answerable
<1>. QED BY <1>1, <1>2, <1>3, <1>4, <1>5, <1>6, <1>7 DEF Plain, ScanLabels

(* Telling the first waiter on the wake list puts that waiter on its way.  *)
LEMMA UnlockSlowWakePlain ==
  ASSUME CountingLaws, WaitInv, WakeInv, NEW t \in Threads, UNCHANGED section,
         UnlockSlowWake(t), OthersStay(t)
  PROVE  Plain(t)
<1>. DEFINE p == Head(waking[t].wake)
<1>0. /\ QueueInv /\ DOMAIN pc = Threads /\ DOMAIN waiter = Threads
      /\ \A u \in Threads : waiter[u] \in WaiterState
      /\ PlaceOK(pc[t], waking[t], waiter[t])
      /\ ThreadOK(pc[t], held[t], locking[t], waking[t])
  BY Zenon, StepFacts
<1>1. /\ pc[t] = "unlock_wake" /\ pc'[t] = "unlock_v"
      /\ waiters' = waiters /\ truth' = truth /\ waking' = waking /\ word' = word
      /\ ret' = ret
      /\ waiter' = [waiter EXCEPT ![p].waiting = FALSE]
      /\ \A u \in Threads \ {t} : pc'[u] = pc[u]
  BY <1>0 DEF UnlockSlowWake, ClearWaiting, Goto
<1>2. waking[t].wake \in Seq(Threads) /\ waking[t].wake # <<>> /\ p \in Threads
  BY Zenon, <1>0, <1>1, WakeFacts DEF WakeLabels
<1>3. /\ ~waiter'[p].waiting
      /\ \A u \in Threads : /\ waiter'[u].cond = waiter[u].cond
                            /\ waiter'[u].cvMu = waiter[u].cvMu
  <2>. HIDE DEF p
  <2>. QED BY <1>0, <1>1, <1>2 DEF WaiterState
<1>4. Rests(t)
  <2>1. OthersStay(t)
    OBVIOUS
  <2>. QED BY Zenon, <1>3, <2>1 DEF Rests
<1>5. pc[p] \in ParkedLabels \/ (pc[p] \in UnlockLabels /\ ret[p] \in ParkedLabels)
  <2>1. Untold(waking[t].wake, FALSE, p) # {}
    BY <1>2 DEF Untold, Positions
  <2>2. Due(p) # 0
    <3>1. Untold(waking[t].wake, pc[t] = "unlock_v", p) # {}
      BY <1>1, <2>1
    <3>. QED BY Zenon, <1>0, <1>2, <3>1, NotDueNotListed
  <2>3. waiter[p].waiting /\ pc[p] \notin Unlisted
    BY <2>2 DEF Due
  <2>4. /\ QueueThreadOK(pc[p], ret[p], waking[p], waiter[p])
        /\ PlaceOK(pc[p], waking[p], waiter[p])
        /\ WaitThreadOK(pc[p], ret[p], held[p], locking[p], mwait[p], waiter[p])
    BY Zenon, <1>2 DEF WaitInv, QueueInv, QueueTyped, WakeInv
  <2>. HIDE DEF p
  <2>5. pc[p] # "panic" /\ pc[p] # "cv_unlock"
    BY <2>4 DEF PlaceOK, WaitThreadOK, WaitPlaces, MuLabels, LockLabels, ScanLabels, WakeLabels
  <2>. QED BY <2>3, <2>4, <2>5 DEF QueueThreadOK, MayWait
<1>6. \E q \in Threads : OnItsWay(q)'
  <2>. HIDE DEF p
  <2>0. PICK q \in Threads : q = p
    BY <1>2
  <2>1. ~waiter[q].cvMu /\ ~waiter'[q].waiting /\ waiter'[q].cvMu = waiter[q].cvMu
    BY Zenon, <1>3, <2>0 DEF WakeInv, PlaceOK
  <2>2. pc'[q] = pc[q] \/ (pc[q] = "unlock_wake" /\ pc'[q] = "unlock_v")
    BY <1>1
  <2>3. pc[q] \in ParkedLabels \/ (pc[q] \in UnlockLabels /\ ret[q] \in ParkedLabels)
    BY Zenon, <1>5, <2>0
  <2>4. OnItsWay(q)'
    BY <1>1, <2>1, <2>2, <2>3 DEF OnItsWay, Awake, ParkedLabels, UnlockLabels
  <2>. QED BY Zenon, <2>4
<1>. HIDE DEF p
<1>7. PlaceOK(pc'[t], waking'[t], waiter'[t]) /\ QueueingOK(pc'[t], locking'[t], word')
  BY <1>0, <1>1, <1>3 DEF PlaceOK, QueueingOK, ScanLabels, LockLabels
<1>8. ~Answerable(t) /\ Falls(word, word')
  BY <1>0, <1>1 DEF Answerable, Falls, ThreadOK, WakeLabels
<1>. QED BY <1>1, <1>2, <1>3, <1>4, <1>6, <1>7, <1>8 DEF Plain, ScanLabels

(* Raising the semaphore of a waiter that was told.                        *)
LEMMA UnlockSlowVPlain ==
  ASSUME CountingLaws, WaitInv, WakeInv, NEW t \in Threads, UNCHANGED section,
         UnlockSlowV(t), OthersStay(t)
  PROVE  Plain(t)
<1>. DEFINE p == Head(waking[t].wake)
<1>0. /\ QueueInv /\ DOMAIN pc = Threads /\ DOMAIN waiter = Threads /\ DOMAIN ret = Threads
      /\ \A u \in Threads : waiter[u] \in WaiterState
      /\ PlaceOK(pc[t], waking[t], waiter[t])
      /\ WaitThreadOK(pc[t], ret[t], held[t], locking[t], mwait[t], waiter[t])
      /\ ThreadOK(pc[t], held[t], locking[t], waking[t])
  BY Zenon, StepFacts
<1>1. /\ pc[t] = "unlock_v"
      /\ pc'[t] = ret[t] \/ (pc'[t] = "unlock_wake" /\ ret'[t] = ret[t])
      /\ waiters' = waiters /\ truth' = truth /\ word' = word
      /\ waiter' = [waiter EXCEPT ![p].sem = @ + 1]
  BY <1>0 DEF UnlockSlowV, SemaphoreV, Return, Goto
<1>2. \A u \in Threads : /\ waiter'[u].cond = waiter[u].cond
                         /\ waiter'[u].cvMu = waiter[u].cvMu
                         /\ waiter'[u].waiting = waiter[u].waiting
  <2>1. p \in Threads
    BY Zenon, <1>0, <1>1, WakeFacts DEF WakeLabels
  <2>. HIDE DEF p
  <2>. QED BY <1>0, <1>1, <2>1 DEF WaiterState
<1>. HIDE DEF p
<1>3. Rests(t)
  <2>1. OthersStay(t)
    OBVIOUS
  <2>. QED BY Zenon, <1>2, <2>1 DEF Rests
<1>4. pc'[t] \in {"client", "wait_wait", "unlock_wake"}
  BY <1>0, <1>1 DEF WaitThreadOK, WakeLabels
<1>5. PlaceOK(pc'[t], waking'[t], waiter'[t]) /\ QueueingOK(pc'[t], locking'[t], word')
  BY <1>0, <1>2, <1>4 DEF PlaceOK, QueueingOK, ScanLabels, LockLabels
<1>6. OnItsWay(t) => OnItsWay(t)'
  BY <1>1, <1>2 DEF OnItsWay, Awake, ScanLabels, ParkedLabels, UnlockLabels
<1>7. ~Answerable(t) /\ Falls(word, word')
  BY <1>0, <1>1 DEF Answerable, Falls, ThreadOK, WakeLabels
<1>. QED BY <1>1, <1>2, <1>3, <1>4, <1>5, <1>6, <1>7 DEF Plain, ScanLabels

-----------------------------------------------------------------------------
(* The steps of waits on conditions.                                       *)

(* Preparing the waiter struct, which is on no list.                       *)
LEMMA PrepareWaitPlain ==
  ASSUME WaitInv, WakeInv, NEW t \in Threads, NEW l, pc[t] \in {"client", "wait_eval"},
         UNCHANGED section, PrepareWait(t, l)
  PROVE  Plain(t)
<1>0. /\ QueueInv /\ DOMAIN pc = Threads /\ DOMAIN waiter = Threads
      /\ waiter[t] \in WaiterState /\ PlaceOK(pc[t], waking[t], waiter[t])
  BY Zenon, StepFacts
<1>1. /\ pc'[t] = "wait_spin" /\ ~waiter'[t].cvMu /\ held'[t] = held[t]
      /\ waiters' = waiters /\ truth' = truth /\ word' = word
  BY <1>0 DEF PrepareWait, Goto, WaiterState
<1>2. Rests(t)
  BY <1>0 DEF PrepareWait, Goto, Rests, OthersStay
<1>3. Due(t) = 0
  <2>1. QueueThreadOK(pc[t], ret[t], waking[t], waiter[t])
    BY Zenon, <1>0, QueueFacts
  <2>. QED BY <2>1 DEF QueueThreadOK, MayWait, Due, ParkedLabels, Unlisted, UnlockLabels
<1>4. PlaceOK(pc'[t], waking'[t], waiter'[t]) /\ QueueingOK(pc'[t], locking'[t], word')
  BY <1>1 DEF PlaceOK, QueueingOK, ScanLabels, LockLabels
<1>5. ~OnItsWay(t) /\ Falls(word, word')
  BY <1>1 DEF OnItsWay, Awake, ScanLabels, ParkedLabels, UnlockLabels, Falls
<1>6. Answerable(t) => Answerable(t)'
  BY <1>1 DEF Answerable, ScanLabels
<1>. QED BY <1>1, <1>2, <1>3, <1>4, <1>5, <1>6 DEF Plain, ScanLabels

(* Taking the spinlock to queue sets MU_CONDITION and clears MU_ALL_FALSE. *)
LEMMA WaitSpinlockPlain ==
  ASSUME WaitInv, WakeInv, NEW t \in Threads, WaitSpinlock(t)
  PROVE  Plain(t)
<1>0. /\ DOMAIN pc = Threads /\ DOMAIN word = WordFields
      /\ PlaceOK(pc[t], waking[t], waiter[t])
  BY Zenon, StepFacts
<1>1. /\ pc[t] = "wait_spin" /\ pc'[t] = "wait_queue" /\ waiter'[t] = waiter[t]
      /\ waking'[t] = waking[t] /\ waiters' = waiters /\ truth' = truth
      /\ section' = section
  BY <1>0 DEF WaitSpinlock, Goto
<1>2. Rests(t)
  BY <1>0 DEF WaitSpinlock, Goto, Rests, OthersStay
<1>3. Falls(word, word') /\ ~word'.allFalse /\ word'.condition
  BY <1>0 DEF WaitSpinlock, WordFields, Falls
<1>4. PlaceOK(pc'[t], waking'[t], waiter'[t]) /\ QueueingOK(pc'[t], locking'[t], word')
  BY <1>0, <1>1, <1>3 DEF PlaceOK, QueueingOK, ScanLabels, LockLabels
<1>5. ~OnItsWay(t)
  BY <1>1 DEF OnItsWay, Awake, ScanLabels, ParkedLabels, UnlockLabels
<1>. QED BY <1>1, <1>2, <1>3, <1>4, <1>5 DEF Plain, ScanLabels

(* Queueing a waiter with a condition, and releasing the mutex.            *)
LEMMA WaitQueuePlain ==
  ASSUME WaitInv, WakeInv, NEW t \in Threads, WaitQueue(t)
  PROVE  Plain(t)
<1>. DEFINE released == Released(word, mwait[t].mode)
<1>0. /\ DOMAIN pc = Threads /\ DOMAIN word = WordFields /\ DOMAIN ret = Threads
      /\ DOMAIN held = Threads /\ DOMAIN waking = Threads
      /\ PlaceOK(pc[t], waking[t], waiter[t]) /\ QueueingOK(pc[t], locking[t], word)
  BY Zenon, StepFacts
<1>1. /\ pc[t] = "wait_queue" /\ pc'[t] \in {"wait_wait", "unlock_slow"}
      /\ waiter'[t] = waiter[t] /\ truth' = truth /\ held[t] # "none"
  <2>1. WaitThreadOK(pc[t], ret[t], held[t], locking[t], mwait[t], waiter[t])
    BY Zenon, StepFacts
  <2>. QED BY <1>0, <2>1 DEF WaitQueue, Goto, WaitThreadOK, WaitLocals, LockModes
<1>2. Rests(t)
  BY <1>0 DEF WaitQueue, Goto, Rests, OthersStay
<1>3. /\ word'.condition = word.condition /\ word'.desig = word.desig
      /\ word'.allFalse = word.allFalse
  <2>1. /\ released.condition = word.condition /\ released.desig = word.desig
        /\ released.allFalse = word.allFalse /\ DOMAIN released = WordFields
    BY <1>0, BitsAfter, WordOperators
  <2>2. word' = [word EXCEPT !.spin = FALSE] \/ word' = [released EXCEPT !.spin = FALSE]
    BY Zenon DEF WaitQueue
  <2>. HIDE DEF released
  <2>. QED BY <1>0, <2>1, <2>2 DEF WordFields
<1>4. ~word'.allFalse /\ word'.condition /\ Falls(word, word')
  BY <1>0, <1>1, <1>3 DEF QueueingOK, Falls
<1>5. PlaceOK(pc'[t], waking'[t], waiter'[t]) /\ QueueingOK(pc'[t], locking'[t], word')
  BY <1>0, <1>1 DEF PlaceOK, QueueingOK, ScanLabels, LockLabels
<1>6. ~OnItsWay(t)
  BY <1>1 DEF OnItsWay, Awake, ScanLabels, ParkedLabels, UnlockLabels
<1>7. \A p \in Range(waiters') : p \in Range(waiters) \/ p = t
  <2>1. waiters \in Seq(Threads)
    BY Zenon DEF WaitInv, QueueInv, QueueTyped
  <2>2. waiters' = Append(waiters, t) \/ waiters' = <<t>> \o waiters
    BY Zenon DEF WaitQueue
  <2>. QED BY Zenon, <2>1, <2>2, RangeGains
<1>. QED BY <1>1, <1>2, <1>4, <1>5, <1>6, <1>7 DEF Plain, ScanLabels

(* The loop that waits to be told, and the passing of the deadline.        *)
LEMMA WaitLoopPlain ==
  ASSUME WaitInv, WakeInv, NEW t \in Threads,
         \/ WaitTest(t) \/ WaitP(t) \/ WaitDeadlinePasses(t)
         \/ TimeoutSwapFails(t) \/ TimeoutAnnounce(t)
  PROVE  Plain(t)
<1>0. /\ DOMAIN pc = Threads /\ DOMAIN word = WordFields /\ DOMAIN waiter = Threads
      /\ DOMAIN locking = Threads /\ waiter[t] \in WaiterState
      /\ PlaceOK(pc[t], waking[t], waiter[t])
      /\ WaitThreadOK(pc[t], ret[t], held[t], locking[t], mwait[t], waiter[t])
  BY Zenon, StepFacts
<1>1. /\ pc[t] \in {"wait_wait", "wait_p", "wait_timeout"}
      /\ pc'[t] \in {"wait_wait", "wait_p", "wait_timeout", "wait_woken"}
  BY <1>0 DEF WaitTest, WaitP, WaitDeadlinePasses, TimeoutSwapFails, TimeoutAnnounce,
    SemaphoreP, Goto
<1>6. /\ waiter'[t].cond = waiter[t].cond /\ waiter'[t].cvMu = waiter[t].cvMu
      /\ waiter'[t].waiting = waiter[t].waiting
  <2>1. CASE waiter' = waiter
    BY Zenon, <2>1
  <2>2. CASE waiter' = [waiter EXCEPT ![t].sem = @ - 1]
    BY <1>0, <2>2 DEF WaiterState
  <2>. QED BY Zenon, <2>1, <2>2
       DEF WaitTest, WaitP, WaitDeadlinePasses, TimeoutSwapFails, TimeoutAnnounce, SemaphoreP
<1>7. /\ waking'[t] = waking[t] /\ waiters' = waiters /\ truth' = truth
      /\ section' = section
  BY DEF WaitTest, WaitP, WaitDeadlinePasses, TimeoutSwapFails, TimeoutAnnounce, waitOnly
<1>2. Rests(t)
  BY <1>0 DEF WaitTest, WaitP, WaitDeadlinePasses, TimeoutSwapFails, TimeoutAnnounce,
    SemaphoreP, Goto, Rests, OthersStay
<1>3. Falls(word, word')
  BY <1>0 DEF WaitTest, WaitP, WaitDeadlinePasses, TimeoutSwapFails, TimeoutAnnounce,
    WordFields, Falls
<1>4. PlaceOK(pc'[t], waking'[t], waiter'[t]) /\ QueueingOK(pc'[t], locking'[t], word')
  BY <1>0, <1>1, <1>6, <1>7 DEF PlaceOK, QueueingOK, ScanLabels, LockLabels
<1>5. (OnItsWay(t) => OnItsWay(t)') /\ ~Answerable(t)
  BY <1>1, <1>6 DEF OnItsWay, Awake, ScanLabels, ParkedLabels, UnlockLabels, Answerable
<1>. QED BY <1>1, <1>2, <1>3, <1>4, <1>5, <1>6, <1>7 DEF Plain, ScanLabels

(* After a timeout: the write lock and the spinlock are taken together.    *)
LEMMA TimeoutAcquirePlain ==
  ASSUME WaitInv, WakeInv, NEW t \in Threads, TimeoutAcquire(t)
  PROVE  Plain(t)
<1>. DEFINE acquired == Acquired(word, "w", FALSE, FALSE)
<1>0. /\ DOMAIN pc = Threads /\ DOMAIN word = WordFields /\ DOMAIN held = Threads
      /\ DOMAIN locking = Threads
      /\ PlaceOK(pc[t], waking[t], waiter[t])
  BY Zenon, StepFacts
<1>1. /\ pc[t] = "wait_timeout" /\ pc'[t] = "wait_confirm" /\ waiter'[t] = waiter[t]
      /\ waking'[t] = waking[t] /\ waiters' = waiters /\ truth' = truth
      /\ section' = section
  BY <1>0 DEF TimeoutAcquire, Goto
<1>2. Rests(t)
  BY <1>0 DEF TimeoutAcquire, Goto, Rests, OthersStay
<1>3. Falls(word, word')
  <2>1. Falls(word, acquired) /\ DOMAIN acquired = WordFields
    BY <1>0, BitsAfter, WordOperators
  <2>2. word' = [acquired EXCEPT !.spin = TRUE]
    BY Zenon DEF TimeoutAcquire
  <2>. HIDE DEF acquired
  <2>. QED BY <2>1, <2>2 DEF WordFields, Falls
<1>4. PlaceOK(pc'[t], waking'[t], waiter'[t]) /\ QueueingOK(pc'[t], locking'[t], word')
  BY <1>0, <1>1 DEF PlaceOK, QueueingOK, ScanLabels, LockLabels
<1>5. (OnItsWay(t) => OnItsWay(t)') /\ ~Answerable(t)
  BY <1>1 DEF OnItsWay, Awake, ScanLabels, ParkedLabels, UnlockLabels, Answerable
<1>. QED BY <1>1, <1>2, <1>3, <1>4, <1>5 DEF Plain, ScanLabels

(* The member that a list loses.                                           *)
LEMMA RangeLoses ==
  ASSUME CountingLaws, NEW l \in Seq(Threads), NEW t \in Threads, Times(l, t) > 0,
         NEW p \in Range(Unlinked(l, t))
  PROVE  p \in Range(l)
<1>1. Unlinked(l, t) \in Seq(Threads)
  BY Zenon DEF CountingLaws, TimesUnlinkedLaw
<1>2. p \in Threads
  BY <1>1 DEF Range
<1>3. /\ Times(Unlinked(l, t), p) > 0 /\ Times(Unlinked(l, t), p) \in Nat
      /\ Times(l, p) = Times(Unlinked(l, t), p) + One(t, p)
  BY Zenon, <1>1 DEF CountingLaws, TimesMemberLaw, TimesUnlinkedLaw, PositionsFiniteLaw
<1>4. Times(l, p) > 0
  BY <1>3 DEF One
<1>. QED BY Zenon, <1>4 DEF CountingLaws, TimesMemberLaw

(* The timeout counts, or it came too late: the stored word has the bits   *)
(* that it had before.                                                     *)
LEMMA TimeoutConfirmPlain ==
  ASSUME CountingLaws, WaitInv, WakeInv, NEW t \in Threads, TimeoutConfirm(t)
  PROVE  Plain(t)
<1>. DEFINE old == locking[t].oldWord
            counts == waiter[t].waiting /\ ~waiter[t].removed
<1>0. /\ DOMAIN pc = Threads /\ DOMAIN waiter = Threads /\ DOMAIN held = Threads
      /\ DOMAIN locking = Threads /\ waiter[t] \in WaiterState
      /\ PlaceOK(pc[t], waking[t], waiter[t])
  BY Zenon, StepFacts
<1>1. /\ pc[t] = "wait_confirm"
      /\ \/ counts /\ pc'[t] = "wait_eval"
         \/ ~counts /\ pc'[t] = "wait_wait" /\ waiter' = waiter /\ waiters' = waiters
      /\ waking'[t] = waking[t] /\ truth' = truth /\ section' = section
  <2>1. CASE counts
    BY <1>0, <2>1 DEF TimeoutConfirm, Goto
  <2>2. CASE ~counts
    BY <1>0, <2>2 DEF TimeoutConfirm, Goto
  <2>. QED BY <2>1, <2>2
<1>2. waiter'[t].cond = waiter[t].cond /\ waiter'[t].cvMu = waiter[t].cvMu
  <2>1. \/ waiter' = waiter
        \/ waiter' = [waiter EXCEPT ![t].waiting = FALSE, ![t].removed = TRUE]
    BY Zenon DEF TimeoutConfirm
  <2>. QED BY <1>0, <2>1 DEF WaiterState
<1>3. Rests(t)
  BY <1>0 DEF TimeoutConfirm, Goto, Rests, OthersStay
<1>4. Falls(word, word')
  <2>1. /\ DOMAIN old = WordFields
        /\ word = [Acquired(old, "w", FALSE, FALSE) EXCEPT !.spin = TRUE]
    BY <1>1 DEF WaitInv, Confirming
  <2>2. word' = old \/ word' = Added(old, mwait[t].mode)
    BY Zenon DEF TimeoutConfirm
  <2>. HIDE DEF old
  <2>3. /\ word.condition => old.condition
        /\ old.allFalse => word.allFalse
        /\ old.desig => word.desig
    <3>. DEFINE a == Added(old, "w")
    <3>1. /\ a.condition = old.condition /\ a.allFalse = old.allFalse
          /\ a.desig = old.desig /\ DOMAIN a = WordFields
      BY <2>1 DEF Added, WordFields
    <3>2. word = [[a EXCEPT !.desig = @ /\ ~FALSE, !.longWait = @ /\ ~FALSE,
                            !.writerWaiting = @ /\ "w" # "w"] EXCEPT !.spin = TRUE]
      BY Zenon, <2>1 DEF Acquired
    <3>. HIDE DEF a
    <3>. QED BY <3>1, <3>2 DEF WordFields
  <2>4. /\ word'.condition = old.condition /\ word'.allFalse = old.allFalse
        /\ word'.desig = old.desig
    <3>. DEFINE a == Added(old, mwait[t].mode)
    <3>1. a.condition = old.condition /\ a.allFalse = old.allFalse /\ a.desig = old.desig
      BY Zenon, <2>1, BitsAfter
    <3>. HIDE DEF a
    <3>2. word' = old \/ word' = a
      BY Zenon, <2>2 DEF a
    <3>. QED BY <3>1, <3>2
  <2>. QED BY <2>3, <2>4 DEF Falls
<1>5. \A p \in Range(waiters') : p \in Range(waiters)
  <2>1. CASE counts
    <3>1. waiters \in Seq(Threads)
      BY Zenon DEF WaitInv, QueueInv, QueueTyped
    <3>2. Times(waiters, t) > 0
      BY Zenon, <1>1, <2>1, ConfirmedQueued
    <3>3. waiters' = Unlinked(waiters, t)
      BY <2>1 DEF TimeoutConfirm
    <3>. QED BY Zenon, <3>1, <3>2, <3>3, RangeLoses
  <2>. QED BY <1>1, <2>1
<1>6. PlaceOK(pc'[t], waking'[t], waiter'[t]) /\ QueueingOK(pc'[t], locking'[t], word')
  BY <1>0, <1>1, <1>2 DEF PlaceOK, QueueingOK, ScanLabels, LockLabels
<1>7. (OnItsWay(t) => OnItsWay(t)') /\ ~Answerable(t)
  BY <1>1 DEF OnItsWay, Awake, ScanLabels, ParkedLabels, UnlockLabels, Answerable
<1>. QED BY <1>1, <1>2, <1>3, <1>4, <1>5, <1>6, <1>7 DEF Plain, ScanLabels

(* A wait returns to the client that called it.                            *)
LEMMA WaitReturnsPlain ==
  ASSUME WaitInv, WakeInv, NEW t \in Threads, pc[t] = "wait_eval",
         Goto(t, "client"), UNCHANGED section,
         UNCHANGED <<word, waiters, waiter, ret, held, locking, waking, truth>>
  PROVE  Plain(t)
<1>0. DOMAIN pc = Threads /\ PlaceOK(pc[t], waking[t], waiter[t])
  BY Zenon, StepFacts
<1>1. pc'[t] = "client" /\ Rests(t) /\ Falls(word, word')
  BY <1>0 DEF Goto, Rests, OthersStay, Falls
<1>2. PlaceOK(pc'[t], waking'[t], waiter'[t]) /\ QueueingOK(pc'[t], locking'[t], word')
  BY <1>0, <1>1 DEF PlaceOK, QueueingOK, ScanLabels, LockLabels
<1>3. ~OnItsWay(t) /\ ~Answerable(t)
  BY DEF OnItsWay, Awake, ScanLabels, ParkedLabels, UnlockLabels, Answerable
<1>. QED BY <1>1, <1>2, <1>3 DEF Plain, ScanLabels

(* A release that wakes nobody keeps MU_ALL_FALSE: its section made no     *)
(* condition true.                                                         *)
LEMMA QuietUnlockPlain ==
  ASSUME WaitInv, WakeInv, NEW t \in Threads, pc[t] = "client", held[t] = "w",
         section # "raised", word' = Released(word, "w"),
         held' = [held EXCEPT ![t] = "none"],
         UNCHANGED <<waiters, waiter, pc, ret, locking, waking, truth>>
  PROVE  Plain(t)
<1>0. /\ DOMAIN held = Threads /\ DOMAIN word = WordFields
      /\ PlaceOK(pc[t], waking[t], waiter[t])
  BY Zenon, StepFacts
<1>1. Rests(t)
  BY <1>0 DEF Rests, OthersStay
<1>2. Falls(word, word')
  <2>1. /\ word'.condition = word.condition /\ word'.desig = word.desig
        /\ word'.allFalse = word.allFalse
    BY Zenon, <1>0, BitsAfter
  <2>. QED BY <2>1 DEF Falls
<1>3. PlaceOK(pc'[t], waking'[t], waiter'[t]) /\ QueueingOK(pc'[t], locking'[t], word')
  BY <1>0 DEF PlaceOK, QueueingOK, ScanLabels, LockLabels
<1>4. ~OnItsWay(t) /\ ~Answerable(t)
  BY DEF OnItsWay, Awake, ScanLabels, ParkedLabels, UnlockLabels, Answerable
<1>. QED BY <1>1, <1>2, <1>3, <1>4 DEF Plain, ScanLabels

-----------------------------------------------------------------------------
(* The scan of an unlock.                                                  *)

(* What one turn of the inner loop does to what the scan has found: a      *)
(* waiter that is kept while ALL_FALSE stays set cannot go on.             *)
LEMMA ConsiderFinds ==
  ASSUME NEW s \in WakeState, NEW p \in Threads, waiter[p] \in WaiterState
  PROVE  LET d == Consider(s, p) IN
         /\ s.wakeType = "w" => d.wakeType = "w"
         /\ /\ s.wakeType = "none" /\ waiter[p].lType = "w" /\ waiter[p].cond = NoCondition
            => d.wakeType = "w"
         /\ \/ d.kept = s.kept /\ d.allFalse = s.allFalse
            \/ d.kept = Append(s.kept, p) /\ ~d.allFalse
            \/ d.kept = Append(s.kept, p) /\ d.allFalse = s.allFalse /\ ~Satisfied(p)
<1>. DEFINE w == waiter[p]
            k == Append(s.kept, p)
            k2 == Append(s.wake, p)
<1>. HIDE DEF k, k2
<1>1. CASE s.wakeType = "w"
  <2>1. Consider(s, p) = [s EXCEPT !.kept = k, !.allFalse = FALSE]
    BY <1>1 DEF Consider, k
  <2>. QED BY <1>1, <2>1 DEF WakeState, k
<1>2. CASE s.wakeType # "w" /\ w.cond # NoCondition /\ w.cond \notin truth
  <2>1. Consider(s, p) = [s EXCEPT !.kept = k] /\ ~Satisfied(p)
    BY <1>2 DEF Consider, k, Satisfied
  <2>. QED BY <1>2, <2>1 DEF WakeState, k
<1>3. CASE /\ s.wakeType # "w" /\ ~(w.cond # NoCondition /\ w.cond \notin truth)
           /\ s.wakeType = "none" \/ w.lType = "r"
  <2>1. Consider(s, p) = [s EXCEPT !.wake = k2, !.wakeType = w.lType]
    BY <1>3 DEF Consider, k2
  <2>. QED BY <1>3, <2>1 DEF WakeState
<1>4. CASE /\ s.wakeType # "w" /\ ~(w.cond # NoCondition /\ w.cond \notin truth)
           /\ ~(s.wakeType = "none" \/ w.lType = "r")
  <2>1. Consider(s, p) = [s EXCEPT !.kept = k, !.writerWaiting = TRUE, !.allFalse = FALSE]
    BY <1>4 DEF Consider, k
  <2>. QED BY <1>4, <2>1 DEF WakeState, k
<1>. QED BY <1>1, <1>2, <1>3, <1>4

(* A scan that has chosen nobody meets a writer without a condition.       *)
WriterFirst(s) ==
  /\ s.wakeType = "none"
  /\ waiter[s.new[1]].lType = "w" /\ waiter[s.new[1]].cond = NoCondition

(* What the loop has found after i turns, as d tells.                      *)
LoopFound(s, d, i) ==
  /\ s.wakeType = "w" \/ (i > 0 /\ WriterFirst(s)) => d.wakeType = "w"
  /\ \A q \in Range(d.kept) : q \in Range(s.kept) \/ q \in Range(s.new)
  /\ d.allFalse => s.allFalse /\ \A q \in Range(d.kept) : q \in Range(s.kept) \/ ~Satisfied(q)

(* One more turn.                                                          *)
LEMMA TurnFinds ==
  ASSUME \A p \in Threads : waiter[p] \in WaiterState, NEW s \in WakeState,
         NEW i \in Nat, i < Len(s.new), NEW a \in WakeState, LoopFound(s, a, i),
         i = 0 => a = s
  PROVE  LoopFound(s, Consider(a, s.new[i + 1]), i + 1)
<1>. DEFINE p == s.new[i + 1]
            d == Consider(a, p)
<1>1. p \in Threads /\ p \in Range(s.new)
  <2>1. s.new \in Seq(Threads)
    BY Zenon DEF WakeState
  <2>2. i + 1 \in DOMAIN s.new
    BY <2>1
  <2>3. s.new[i + 1] \in Threads
    BY <2>1, <2>2
  <2>. QED BY Zenon, <2>2, <2>3 DEF Range
<1>2. /\ a.wakeType = "w" => d.wakeType = "w"
      /\ /\ a.wakeType = "none" /\ waiter[p].lType = "w" /\ waiter[p].cond = NoCondition
         => d.wakeType = "w"
      /\ \/ d.kept = a.kept /\ d.allFalse = a.allFalse
         \/ d.kept = Append(a.kept, p) /\ ~d.allFalse
         \/ d.kept = Append(a.kept, p) /\ d.allFalse = a.allFalse /\ ~Satisfied(p)
  BY Zenon, <1>1, ConsiderFinds
<1>3. s.wakeType = "w" \/ (i + 1 > 0 /\ WriterFirst(s)) => d.wakeType = "w"
  <2>. HIDE DEF d
  <2>1. i = 0 \/ i > 0
    OBVIOUS
  <2>. QED BY <1>2, <2>1 DEF LoopFound, WriterFirst
<1>4. \A q \in Range(d.kept) : q \in Range(a.kept) \/ (q = p /\ d.kept # a.kept)
  <2>1. \A q \in Range(Append(a.kept, p)) : q \in Range(a.kept) \/ q = p
    BY Zenon, <1>1, RangeGains DEF WakeState
  <2>. HIDE DEF d, p
  <2>. QED BY Zenon, <1>2, <2>1
<1>. HIDE DEF d, p
<1>5. \A q \in Range(d.kept) : q \in Range(s.kept) \/ q \in Range(s.new)
  BY Zenon, <1>1, <1>4 DEF LoopFound
<1>6. ASSUME d.allFalse
      PROVE  s.allFalse /\ \A q \in Range(d.kept) : q \in Range(s.kept) \/ ~Satisfied(q)
  <2>1. a.allFalse /\ (d.kept # a.kept => ~Satisfied(p))
    BY <1>2, <1>6
  <2>. QED BY Zenon, <1>4, <2>1 DEF LoopFound
<1>7. LoopFound(s, d, i + 1)
  BY Zenon, <1>3, <1>5, <1>6 DEF LoopFound
<1>. QED BY Zenon, <1>7 DEF d, p

(* The whole loop.                                                         *)
LEMMA LoopFinds ==
  ASSUME CountingLaws, \A p \in Threads : waiter[p] \in WaiterState, NEW s \in WakeState,
         NEW j \in 0 .. Len(s.new)
  PROVE  LoopFound(s, Considered(s)[j], j)
<1>. DEFINE n == Len(s.new)
            c == Considered(s)
            T == {i \in Nat : i <= n => LoopFound(s, c[i], i)}
<1>1. n \in Nat
  BY DEF WakeState
<1>2. /\ c \in [0 .. n -> WakeState] /\ c[0] = s
      /\ \A i \in 1 .. n : c[i] = Consider(c[i - 1], s.new[i])
  <2>1. \A p \in Threads : waiter[p].lType \in LockModes
    BY DEF WaiterState
  <2>. QED BY Zenon, <2>1, ConsideredLoops DEF Loops
<1>. HIDE DEF c
<1>3. 0 \in T
  BY <1>1, <1>2 DEF LoopFound
<1>4. ASSUME NEW i \in T PROVE i + 1 \in T
  <2>1. CASE i + 1 <= n
    <3>1. i \in Nat /\ i < Len(s.new) /\ LoopFound(s, c[i], i) /\ c[i] \in WakeState
      BY <1>1, <1>2, <2>1
    <3>2. c[i + 1] = Consider(c[i], s.new[i + 1])
      BY <1>1, <1>2, <2>1, <3>1
    <3>3. i = 0 => c[i] = s
      BY <1>2
    <3>4. LoopFound(s, c[i + 1], i + 1)
      BY Zenon, <3>1, <3>2, <3>3, TurnFinds
    <3>. QED BY <3>1, <3>4
  <2>. QED BY <2>1
<1>5. T = Nat
  <2>1. T \in SUBSET Nat
    OBVIOUS
  <2>. HIDE DEF T
  <2>. QED BY <1>3, <1>4, <2>1 DEF CountingLaws, InductiveSetLaw
<1>. QED BY <1>1, <1>5 DEF c

(* What a whole iteration of the scan finds.                               *)
LEMMA ExamineFinds ==
  ASSUME CountingLaws, \A p \in Threads : waiter[p] \in WaiterState, NEW s \in WakeState
  PROVE  LoopFound(s, Examine(s), Len(s.new))
<1>. DEFINE e == Considered(s)[Len(s.new)]
<1>1. Len(s.new) \in 0 .. Len(s.new)
  BY DEF WakeState
<1>2. LoopFound(s, e, Len(s.new))
  BY Zenon, <1>1, LoopFinds
<1>3. Examine(s) = [s EXCEPT !.new = <<>>, !.kept = e.kept, !.wake = e.wake,
                             !.wakeType = e.wakeType, !.allFalse = e.allFalse,
                             !.writerWaiting = e.writerWaiting]
  BY DEF Examine
<1>. HIDE DEF e
<1>4. /\ Examine(s).kept = e.kept /\ Examine(s).wakeType = e.wakeType
      /\ Examine(s).allFalse = e.allFalse
  BY <1>3 DEF WakeState
<1>. QED BY Zenon, <1>2, <1>4 DEF LoopFound

(* The empty list names nobody.                                            *)
LEMMA NobodyIn ==
  Range(<<>>) = {}
BY DEF Range

(* An iteration of the scan keeps what the scan knows.                     *)
LEMMA ExamineKeepsFound ==
  ASSUME CountingLaws, \A p \in Threads : waiter[p] \in WaiterState, NEW s \in WakeState,
         NEW condition, ScanFound(s, waiter, truth, condition),
         NEW d, d.late = s.late, d.kept = Examine(s).kept, d.allFalse = Examine(s).allFalse,
         s.late \/ d.new = <<>>
  PROVE  ScanFound(d, waiter, truth, condition)
<1>1. /\ \A q \in Range(d.kept) : q \in Range(s.kept) \/ q \in Range(s.new)
      /\ d.allFalse => /\ s.allFalse
                       /\ \A q \in Range(d.kept) : q \in Range(s.kept) \/ ~Satisfied(q)
  BY Zenon, ExamineFinds DEF LoopFound
<1>2. \A q : Satisfied(q) <=> Met(waiter[q], truth)
  BY DEF Satisfied, Met
<1>3. CASE s.late
  BY <1>1, <1>2, <1>3 DEF ScanFound
<1>4. CASE ~s.late
  <2>1. ASSUME d.allFalse PROVE d.kept = <<>>
    <3>1. s.kept = <<>> /\ \A p \in Range(s.new) : waiter[p].cond = NoCondition
      BY Zenon, <1>1, <1>4, <2>1 DEF ScanFound
    <3>2. \A q \in Range(d.kept) : q \in Range(s.new) /\ ~Satisfied(q)
      BY Zenon, <1>1, <2>1, <3>1, NobodyIn
    <3>3. Range(d.kept) = {}
      BY <3>1, <3>2 DEF Satisfied
    <3>4. d.kept \in Seq(Threads)
      <4>1. Examine(s) \in WakeState
        BY ExamineConserves DEF WaiterState
      <4>. QED BY <4>1 DEF WakeState
    <3>5. d.kept = <<>> \/ d.kept[1] \in Range(d.kept)
      BY <3>4 DEF Range
    <3>. QED BY <3>3, <3>5
  <2>2. Range(d.new) = {}
    BY <1>4 DEF Range
  <2>. QED BY <1>4, <2>1, <2>2 DEF ScanFound
<1>. QED BY <1>3, <1>4

(* What a step inside a scan must do to keep the invariant.                *)
LEMMA ScanKeeps ==
  ASSUME CountingLaws, WaitInv, WakeInv, NEW t \in Threads, pc[t] \in ScanLabels,
         pc'[t] \in ScanLabels,
         OthersStay(t),
         \A u \in Threads : /\ waiter'[u].cond = waiter[u].cond
                            /\ waiter'[u].cvMu = waiter[u].cvMu,
         held'[t] = held[t], section' = section, truth' = truth,
         word'.condition = word.condition, word'.allFalse = word.allFalse,
         word'.desig = word.desig,
         PlaceOK(pc'[t], waking'[t], waiter'[t]),
         ScanFound(waking'[t], waiter, truth, word.condition),
         \A p : \/ p \in Range(waiters') \/ p \in Range(waking'[t].new)
                \/ p \in Range(waking'[t].kept)
                => p \in Queued
  PROVE  WakeInv'
<1>1. \A u \in Threads \ {t} : /\ pc'[u] = pc[u] /\ waking'[u] = waking[u]
                               /\ held'[u] = held[u]
  BY Zenon DEF OthersStay
<1>2. QueueInv /\ Rests(t) /\ Falls(word, word')
  BY WaitFacts DEF Rests, Falls
<1>3. \A p \in Queued : p \in Threads /\ waiter'[p].cond = waiter[p].cond
  BY Zenon, <1>2, QueuedAreDue
<1>4. \A p \in Queued' : p \in Queued
  <2>1. ASSUME NEW u \in Threads, NEW p,
               p \in Range(waking'[u].new) \/ p \in Range(waking'[u].kept)
        PROVE  p \in Queued
    <3>1. CASE u = t
      BY Zenon, <2>1, <3>1
    <3>2. CASE u # t
      BY <1>1, <2>1, <3>2 DEF Queued
    <3>. QED BY <3>1, <3>2
  <2>2. \A p \in Queued' : \/ p \in Range(waiters')
                           \/ \E u \in Threads : p \in Range(waking'[u].new)
                                                   \/ p \in Range(waking'[u].kept)
    BY DEF Queued
  <2>. QED BY Zenon, <2>1, <2>2
<1>5. ConditionBitOK'
  BY <1>3, <1>4 DEF ConditionBitOK, WakeInv
<1>6. AllFalseOK'
  <2>1. \A u \in Threads : Answerable(u) => Answerable(u)'
    BY <1>1 DEF Answerable
  <2>2. \A p \in Queued' : p \in Queued /\ (Satisfied(p)' => Satisfied(p))
    BY <1>3, <1>4 DEF Satisfied
  <2>. QED BY Zenon, <2>1, <2>2 DEF AllFalseOK, WakeInv
<1>7. ScanFound(waking'[t], waiter', truth', word'.condition)
  <2>1. \A p : \/ p \in Range(waking'[t].new) \/ p \in Range(waking'[t].kept)
               => waiter'[p].cond = waiter[p].cond
    BY Zenon, <1>3
  <2>. QED BY <2>1 DEF ScanFound, Met
<1>8. ASSUME NEW u \in Threads \ {t}, pc[u] \in ScanLabels
      PROVE  ScanFound(waking[u], waiter', truth', word'.condition)
  BY Zenon, <1>8 DEF WakeInv, OneScanner
<1>9. QueueingOK(pc'[t], locking'[t], word')
  BY DEF QueueingOK, ScanLabels
<1>10. OnItsWay(t)'
  BY DEF OnItsWay
<1>11. word'.desig => /\ word.desig \/ OnItsWay(t)'
                      /\ OnItsWay(t) => \E p \in Threads : OnItsWay(p)'
  BY Zenon, <1>10
<1>. QED BY Zenon, <1>2, <1>5, <1>6, <1>7, <1>8, <1>9, <1>11, WakeKeeps

(* Marking waiters as removed changes nothing else of them.                *)
LEMMA MarkedConds ==
  ASSUME \A p \in Threads : waiter[p] \in WaiterState, NEW S, MarkRemoved(S)
  PROVE  \A u \in Threads : /\ waiter'[u].cond = waiter[u].cond
                            /\ waiter'[u].cvMu = waiter[u].cvMu
BY DEF MarkRemoved, WaiterState

(* What an unlock_slow that scans the queue may rely on.                   *)
LEMMA ScanFacts ==
  ASSUME WaitInv, WakeInv, NEW t \in Threads, pc[t] \in ScanLabels
  PROVE  /\ QueueInv /\ waking[t] \in WakeState /\ waiters \in Seq(Threads)
         /\ waking[t].testing => waking[t].late
         /\ DOMAIN pc = Threads /\ DOMAIN held = Threads /\ DOMAIN waking = Threads
         /\ DOMAIN waiter = Threads /\ DOMAIN word = WordFields
         /\ \A p \in Threads : waiter[p] \in WaiterState
         /\ ScanFound(waking[t], waiter, truth, word.condition)
         /\ PlaceOK(pc[t], waking[t], waiter[t])
         /\ pc[t] = "unlock_scan" => waiters = <<>>
         /\ \A p : \/ p \in Range(waiters) \/ p \in Range(waking[t].new)
                   \/ p \in Range(waking[t].kept)
                   => p \in Queued
<1>1. QueueInv
  BY Zenon, WaitFacts
<1>2. QueueThreadOK(pc[t], ret[t], waking[t], waiter[t])
  BY Zenon, <1>1, QueueFacts
<1>3. waking[t].testing => waking[t].late
  BY <1>2 DEF QueueThreadOK
<1>4. waking[t] \in WakeState
  BY <1>2 DEF QueueThreadOK
<1>5. /\ DOMAIN pc = Threads /\ DOMAIN held = Threads /\ DOMAIN waking = Threads
      /\ DOMAIN waiter = Threads /\ DOMAIN word = WordFields
      /\ \A p \in Threads : waiter[p] \in WaiterState
  BY Zenon, <1>1, QueueFacts
<1>6. /\ ScanFound(waking[t], waiter, truth, word.condition)
      /\ PlaceOK(pc[t], waking[t], waiter[t])
  BY Zenon DEF WakeInv
<1>7. pc[t] = "unlock_scan" => waiters = <<>>
  BY Zenon, <1>1 DEF QueueInv, ScanHasQueue
<1>8. waiters \in Seq(Threads)
  BY Zenon, <1>1 DEF QueueInv, QueueTyped
<1>9. \A p : \/ p \in Range(waiters) \/ p \in Range(waking[t].new)
             \/ p \in Range(waking[t].kept)
             => p \in Queued
  BY DEF Queued
<1>. QED BY Zenon, <1>1, <1>3, <1>4, <1>5, <1>6, <1>7, <1>8, <1>9

(* The spinlock is dropped before conditions are tested.                   *)
LEMMA UnlockSlowDropSpinlockWake ==
  ASSUME CountingLaws, WaitInv, WakeInv, NEW t \in Threads, UnlockSlowDropSpinlock(t),
         UNCHANGED section, OthersStay(t)
  PROVE  WakeInv'
<1>1. /\ pc[t] = "unlock_scan" /\ pc' = [pc EXCEPT ![t] = "unlock_test"]
      /\ waking[t].testing /\ word' = [word EXCEPT !.spin = FALSE]
      /\ UNCHANGED <<waiters, waiter, held, waking, truth>>
  BY DEF UnlockSlowDropSpinlock, Goto, StillTesting
<1>2. pc[t] \in ScanLabels
  BY <1>1 DEF ScanLabels
<1>3. OthersStay(t)
  OBVIOUS
<1>4. /\ ScanFound(waking[t], waiter, truth, word.condition)
      /\ PlaceOK(pc[t], waking[t], waiter[t])
      /\ \A p : \/ p \in Range(waiters) \/ p \in Range(waking[t].new)
                \/ p \in Range(waking[t].kept)
                => p \in Queued
  BY Zenon, ScanFacts, <1>2
<1>5. pc'[t] = "unlock_test" /\ pc'[t] \in ScanLabels
  BY ScanFacts, <1>1, <1>2 DEF ScanLabels
<1>6. /\ word'.condition = word.condition /\ word'.allFalse = word.allFalse
      /\ word'.desig = word.desig
  BY ScanFacts, <1>1, <1>2 DEF WordFields
<1>7. PlaceOK(pc'[t], waking'[t], waiter'[t])
  BY <1>1, <1>4, <1>5 DEF PlaceOK, LockLabels
<1>8. /\ UNCHANGED <<waiters, waiter, held, waking, truth, section>>
  BY Zenon, <1>1
<1>. QED BY Zenon, <1>2, <1>3, <1>4, <1>5, <1>6, <1>7, <1>8, ScanKeeps

(* The iteration that tests conditions, with the lock held for writing.    *)
LEMMA UnlockSlowTestWake ==
  ASSUME CountingLaws, WaitInv, WakeInv, NEW t \in Threads, UnlockSlowTest(t),
         UNCHANGED section, OthersStay(t)
  PROVE  WakeInv'
<1>. DEFINE s == waking[t]
            done == Examine(s)
<1>. HIDE DEF done
<1>1. /\ pc[t] = "unlock_test" /\ pc' = [pc EXCEPT ![t] = "unlock_respin"]
      /\ waking' = [waking EXCEPT ![t] = done]
      /\ \E S : MarkRemoved(S)
      /\ UNCHANGED <<word, waiters, held, truth>>
  BY Zenon DEF UnlockSlowTest, Goto, done
<1>2. pc[t] \in ScanLabels
  BY <1>1 DEF ScanLabels
<1>3. /\ QueueInv /\ s \in WakeState
      /\ s.testing => s.late
      /\ DOMAIN pc = Threads /\ DOMAIN held = Threads /\ DOMAIN waking = Threads
      /\ \A p \in Threads : waiter[p] \in WaiterState
      /\ ScanFound(s, waiter, truth, word.condition)
      /\ PlaceOK(pc[t], waking[t], waiter[t])
      /\ \A p : \/ p \in Range(waiters) \/ p \in Range(s.new) \/ p \in Range(s.kept)
                => p \in Queued
  BY Zenon, ScanFacts, <1>2
<1>4. OthersStay(t)
  OBVIOUS
<1>5. /\ pc'[t] = "unlock_respin" /\ pc'[t] \in ScanLabels /\ waking'[t] = done
  BY <1>1, <1>3 DEF ScanLabels
<1>6. \A u \in Threads : /\ waiter'[u].cond = waiter[u].cond
                         /\ waiter'[u].cvMu = waiter[u].cvMu
  BY Zenon, <1>1, <1>3, MarkedConds
<1>7. s.testing /\ s.late /\ s \in WakeState
  BY <1>1, <1>3 DEF PlaceOK
<1>8. /\ done.new = <<>> /\ done.late = s.late /\ done.testing = s.testing
      /\ LoopFound(s, done, Len(s.new))
  <2>1. \A p \in Threads : waiter[p].lType \in LockModes
    BY <1>3 DEF WaiterState
  <2>. QED BY Zenon, <1>3, <1>7, <2>1, ExamineConserves, ExamineFinds DEF done
<1>9. ScanFound(done, waiter, truth, word.condition)
  BY Zenon, <1>3, <1>7, <1>8, ExamineKeepsFound DEF done
<1>10. PlaceOK(pc'[t], waking'[t], waiter'[t])
  BY <1>3, <1>5, <1>6, <1>7, <1>8 DEF PlaceOK, LockLabels
<1>11. \A p : \/ p \in Range(waiters') \/ p \in Range(done.new) \/ p \in Range(done.kept)
              => p \in Queued
  <2>1. Range(done.new) = {}
    BY <1>8 DEF Range
  <2>. QED BY Zenon, <1>1, <1>3, <1>8, <2>1 DEF LoopFound
<1>12. /\ held'[t] = held[t] /\ truth' = truth
       /\ word'.condition = word.condition /\ word'.allFalse = word.allFalse
       /\ word'.desig = word.desig
  BY Zenon, <1>1
<1>. QED BY Zenon, <1>2, <1>4, <1>5, <1>6, <1>9, <1>10, <1>11, <1>12, ScanKeeps

(* The spinlock is taken again, and the waiters queued meanwhile with it.  *)
LEMMA UnlockSlowRespinWake ==
  ASSUME CountingLaws, WaitInv, WakeInv, NEW t \in Threads, UnlockSlowRespin(t),
         UNCHANGED section, OthersStay(t)
  PROVE  WakeInv'
<1>. DEFINE s == waking[t]
<1>1. /\ pc[t] = "unlock_respin" /\ pc' = [pc EXCEPT ![t] = "unlock_scan"]
      /\ word' = [word EXCEPT !.spin = TRUE]
      /\ waking' = [waking EXCEPT ![t].new = waiters] /\ waiters' = <<>>
      /\ UNCHANGED <<waiter, held, truth>>
  BY DEF UnlockSlowRespin, Goto
<1>2. pc[t] \in ScanLabels
  BY <1>1 DEF ScanLabels
<1>3. /\ QueueInv /\ s \in WakeState
      /\ s.testing => s.late
      /\ DOMAIN pc = Threads /\ DOMAIN waking = Threads /\ DOMAIN word = WordFields
      /\ ScanFound(s, waiter, truth, word.condition)
      /\ PlaceOK(pc[t], waking[t], waiter[t])
      /\ \A p : \/ p \in Range(waiters) \/ p \in Range(s.new) \/ p \in Range(s.kept)
                => p \in Queued
  BY Zenon, ScanFacts, <1>2
<1>4. OthersStay(t)
  OBVIOUS
<1>5. s.testing /\ s.late /\ s \in WakeState
  BY <1>1, <1>3 DEF PlaceOK
<1>6. /\ pc'[t] = "unlock_scan" /\ pc'[t] \in ScanLabels
      /\ waking'[t].new = waiters /\ waking'[t].kept = s.kept
      /\ waking'[t].late = s.late /\ waking'[t].testing = s.testing
      /\ waking'[t].allFalse = s.allFalse
  BY <1>1, <1>3, <1>5 DEF ScanLabels, WakeState
<1>7. /\ word'.condition = word.condition /\ word'.allFalse = word.allFalse
      /\ word'.desig = word.desig
  BY <1>1, <1>3 DEF WordFields
<1>8. ScanFound(waking'[t], waiter, truth, word.condition)
  BY <1>3, <1>5, <1>6 DEF ScanFound
<1>9. PlaceOK(pc'[t], waking'[t], waiter'[t])
  BY <1>1, <1>3, <1>5, <1>6 DEF PlaceOK, LockLabels
<1>10. \A p : \/ p \in Range(waiters') \/ p \in Range(waking'[t].new)
              \/ p \in Range(waking'[t].kept)
              => p \in Queued
  <2>1. Range(waiters') = {}
    BY <1>1 DEF Range
  <2>. QED BY Zenon, <1>3, <1>6, <2>1
<1>11. UNCHANGED <<waiter, held, truth, section>>
  BY Zenon, <1>1
<1>. QED BY Zenon, <1>2, <1>4, <1>6, <1>7, <1>8, <1>9, <1>10, <1>11, ScanKeeps

(* The iteration that tests no conditions: a scan that gave up the lock    *)
(* has no waiters with conditions, and one that holds it has found a       *)
(* writer to wake, who shuts the others out.                               *)
LEMMA UntestedNeedNoTest ==
  ASSUME CountingLaws, WaitInv, WakeInv, NEW t \in Threads, pc[t] = "unlock_scan",
         waking[t].new # <<>>, ~StillTesting(waking[t]),
         NEW s, s = [waking[t] EXCEPT !.testing = FALSE]
  PROVE  /\ s \in WakeState /\ Len(s.new) > 0
         /\ s.new = waking[t].new /\ s.kept = waking[t].kept /\ s.late = waking[t].late
         /\ s.allFalse = waking[t].allFalse /\ ~s.testing
         /\ s.late => s.wakeType = "w" \/ WriterFirst(s)
         /\ ~ChecksUnlocked(s)
<1>. DEFINE z == waking[t]
<1>1. pc[t] \in ScanLabels
  BY DEF ScanLabels
<1>2. /\ z \in WakeState
      /\ \A p \in Threads : waiter[p] \in WaiterState
      /\ ScanFound(z, waiter, truth, word.condition)
      /\ PlaceOK(pc[t], z, waiter[t])
  BY Zenon, <1>1, ScanFacts
<1>3. /\ s \in WakeState
      /\ s.new = z.new /\ s.kept = z.kept /\ s.late = z.late
      /\ s.allFalse = z.allFalse /\ ~s.testing /\ s.wakeType = z.wakeType
  BY <1>2 DEF WakeState
<1>4. s.new \in Seq(Threads) /\ Len(s.new) \in Nat /\ Len(s.new) > 0
      /\ Head(z.new) = s.new[1]
  BY <1>2, <1>3 DEF WakeState
<1>5. s.late => s.wakeType = "w" \/ WriterFirst(s)
  <2>1. CASE z.testing
    BY <1>3, <1>4, <2>1 DEF StillTesting, WriterFirst
  <2>2. CASE ~z.testing
    BY <1>1, <1>2, <1>3, <2>2 DEF PlaceOK
  <2>. QED BY <2>1, <2>2
<1>6. ASSUME NEW i \in 1 .. Len(s.new), waiter[s.new[i]].cond # NoCondition
      PROVE  Considered(s)[i - 1].wakeType = "w"
  <2>1. s.new[i] \in Range(s.new)
    BY <1>4 DEF Range
  <2>2. s.late
    BY <1>2, <1>3, <1>6, <2>1 DEF ScanFound
  <2>3. i - 1 \in 0 .. Len(s.new)
    BY <1>4
  <2>4. LoopFound(s, Considered(s)[i - 1], i - 1)
    BY Zenon, <1>2, <1>3, <2>3, LoopFinds
  <2>5. WriterFirst(s) => i - 1 > 0
    BY <1>4, <1>6 DEF WriterFirst
  <2>. QED BY Zenon, <1>5, <2>2, <2>4, <2>5 DEF LoopFound
<1>7. ~ChecksUnlocked(s)
  BY Zenon, <1>6 DEF ChecksUnlocked
<1>. QED BY Zenon, <1>3, <1>4, <1>5, <1>7

(* A scan of unlock_slow: it ends with its list, or goes on to test.       *)
LEMMA UnlockSlowScanWake ==
  ASSUME CountingLaws, WaitInv, WakeInv, NEW t \in Threads, UnlockSlowScan(t),
         UNCHANGED section, OthersStay(t)
  PROVE  WakeInv'
<1>. DEFINE z == waking[t]
            s == [z EXCEPT !.testing = FALSE]
            done == Examine(s)
            next == [done EXCEPT !.new = waiters]
<1>1. pc[t] = "unlock_scan" /\ z.new # <<>> /\ ~StillTesting(z)
  BY DEF UnlockSlowScan
<1>2. pc[t] \in ScanLabels
  BY <1>1 DEF ScanLabels
<1>3. /\ s \in WakeState /\ Len(s.new) > 0
      /\ s.new = z.new /\ s.kept = z.kept /\ s.late = z.late
      /\ s.allFalse = z.allFalse /\ ~s.testing
      /\ s.late => s.wakeType = "w" \/ WriterFirst(s)
      /\ ~ChecksUnlocked(s)
  BY Zenon, <1>1, UntestedNeedNoTest
<1>4. /\ QueueInv /\ z \in WakeState
      /\ DOMAIN waking = Threads
      /\ \A p \in Threads : waiter[p] \in WaiterState
      /\ ScanFound(z, waiter, truth, word.condition)
      /\ PlaceOK(pc[t], z, waiter[t])
      /\ pc[t] = "unlock_scan" => waiters = <<>>
      /\ \A p : \/ p \in Range(waiters) \/ p \in Range(z.new) \/ p \in Range(z.kept)
                => p \in Queued
  BY Zenon, ScanFacts, <1>2
<1>5. OthersStay(t)
  OBVIOUS
<1>6. /\ waking' = [waking EXCEPT ![t] = next] /\ waiters' = <<>>
      /\ \E S : MarkRemoved(S)
      /\ UNCHANGED <<word, pc, held, truth>>
  BY <1>3 DEF UnlockSlowScan
<1>. HIDE DEF s
<1>7. /\ done \in WakeState /\ done.late = s.late /\ done.testing = s.testing
      /\ LoopFound(s, done, Len(s.new))
  <2>1. \A p \in Threads : waiter[p].lType \in LockModes
    BY <1>4 DEF WaiterState
  <2>. QED BY Zenon, <1>3, <1>4, <2>1, ExamineConserves, ExamineFinds
<1>8. ScanFound(s, waiter, truth, word.condition)
  BY Zenon, <1>3, <1>4 DEF ScanFound
<1>. HIDE DEF done
<1>9. /\ next.new = <<>> /\ next.late = done.late /\ next.kept = done.kept
      /\ next.testing = done.testing /\ next.wakeType = done.wakeType
      /\ next.allFalse = done.allFalse
  BY <1>1, <1>4, <1>7 DEF WakeState
<1>. HIDE DEF next
<1>10. waking'[t] = next
  BY <1>4, <1>6
<1>11. ScanFound(next, waiter, truth, word.condition)
  <2>1. next.late = s.late /\ next.kept = Examine(s).kept /\ next.allFalse = Examine(s).allFalse
    BY Zenon, <1>7, <1>9 DEF done
  <2>. QED BY Zenon, <1>3, <1>4, <1>8, <1>9, <2>1, ExamineKeepsFound
<1>12. next.late => next.wakeType = "w"
  BY Zenon, <1>3, <1>7, <1>9 DEF LoopFound
<1>13. \A u \in Threads : /\ waiter'[u].cond = waiter[u].cond
                          /\ waiter'[u].cvMu = waiter[u].cvMu
  BY Zenon, <1>4, <1>6, MarkedConds
<1>14. PlaceOK(pc'[t], waking'[t], waiter'[t])
  BY <1>1, <1>4, <1>6, <1>10, <1>12, <1>13 DEF PlaceOK, LockLabels
<1>15. \A p : \/ p \in Range(waiters') \/ p \in Range(next.new) \/ p \in Range(next.kept)
              => p \in Queued
  <2>1. Range(next.new) = {} /\ Range(waiters') = {}
    BY <1>6, <1>9 DEF Range
  <2>. QED BY Zenon, <1>3, <1>4, <1>7, <1>9, <2>1 DEF LoopFound
<1>16. /\ held'[t] = held[t] /\ truth' = truth /\ pc'[t] \in ScanLabels
       /\ word'.condition = word.condition /\ word'.allFalse = word.allFalse
       /\ word'.desig = word.desig
  BY Zenon, <1>2, <1>6
<1>. QED BY Zenon, <1>2, <1>5, <1>10, <1>11, <1>13, <1>14, <1>15, <1>16, ScanKeeps

(* An unlock starts its scan.  Nobody else scans: a scan that holds the    *)
(* lock excludes the caller, and one that does not holds the spinlock.     *)
LEMMA UnlockSlowSpinlockWake ==
  ASSUME CountingLaws, WaitInv, WakeInv, NEW t \in Threads, UnlockSlowSpinlock(t),
         UNCHANGED section, OthersStay(t)
  PROVE  WakeInv'
<1>. DEFINE z == waking[t]
<1>1. /\ pc[t] = "unlock_slow" /\ ~word.spin
      /\ word'.condition = word.condition /\ word'.allFalse = word.allFalse
      /\ held' = [held EXCEPT ![t] = IF word.condition THEN "w" ELSE "none"]
      /\ waking' = [waking EXCEPT ![t].testing = word.condition,
                                  ![t].late = word.condition, ![t].new = waiters]
      /\ waiters' = <<>> /\ pc' = [pc EXCEPT ![t] = "unlock_scan"]
      /\ UNCHANGED <<waiter, locking, truth>>
  <2>1. DOMAIN word = WordFields
    BY Zenon, StepFacts
  <2>2. LET r == Released(word, z.mode) IN
        r.condition = word.condition /\ r.allFalse = word.allFalse /\ DOMAIN r = WordFields
    BY <2>1 DEF Released, WordFields
  <2>. QED BY <2>2 DEF UnlockSlowSpinlock, Goto, WordFields
<1>2. /\ QueueInv /\ MuInv /\ DOMAIN pc = Threads /\ DOMAIN held = Threads
      /\ DOMAIN waking = Threads
      /\ PlaceOK(pc[t], z, waiter[t]) /\ ThreadOK(pc[t], held[t], locking[t], z)
  BY Zenon, StepFacts
<1>3. z \in WakeState /\ z.kept = <<>>
  <2>1. QueueThreadOK(pc[t], ret[t], z, waiter[t])
    BY Zenon, <1>2, QueueFacts
  <2>. QED BY <1>1, <2>1 DEF QueueThreadOK, NoLists, ScanLabels, WakeLabels
<1>4. OthersStay(t) /\ Rests(t)
  <2>1. OthersStay(t)
    OBVIOUS
  <2>. QED BY <1>1, <2>1 DEF Rests
<1>5. held[t] \in LockModes
  BY <1>1, <1>2 DEF ThreadOK
<1>6. ASSUME NEW u \in Threads
      PROVE  pc[u] \notin ScanLabels /\ pc[u] \notin {"lock_queue", "wait_queue"}
  <2>1. ~SpinOwner(pc[u], waking[u])
    BY <1>1, <1>2 DEF QueueInv, OneOwner
  <2>2. pc[u] \notin {"lock_queue", "wait_queue", "unlock_scan"}
    BY <2>1 DEF SpinOwner, SpinLabels
  <2>3. CASE pc[u] \in ScanLabels
    <3>1. QueueThreadOK(pc[u], ret[u], waking[u], waiter[u])
          /\ ThreadOK(pc[u], held[u], locking[u], waking[u])
      BY Zenon, <1>2, QueueFacts
    <3>2. held[u] = "w" /\ u # t
      BY <1>1, <2>2, <2>3, <3>1 DEF QueueThreadOK, ThreadOK, ScanLabels
    <3>3. held[t] = "none"
      BY Zenon, <1>2, <3>2 DEF MuInv, CountsHolders
    <3>. QED BY <1>5, <3>3 DEF LockModes
  <2>. QED BY <2>2, <2>3
<1>7. /\ waking'[t].new = waiters /\ waking'[t].kept = <<>>
      /\ waking'[t].late = word.condition /\ waking'[t].testing = word.condition
      /\ pc'[t] = "unlock_scan" /\ pc'[t] \in ScanLabels
      /\ held'[t] = IF word.condition THEN "w" ELSE "none"
  BY <1>1, <1>2, <1>3 DEF ScanLabels, WakeState
<1>8. \A p \in Queued' : p \in Queued
  <2>1. ASSUME NEW u \in Threads, NEW p,
               p \in Range(waking'[u].new) \/ p \in Range(waking'[u].kept)
        PROVE  p \in Queued
    <3>1. CASE u = t
      BY <1>7, <2>1, <3>1 DEF Queued, Range
    <3>2. CASE u # t
      <4>1. waking'[u] = waking[u]
        BY Zenon, <1>4, <3>2 DEF OthersStay
      <4>. QED BY <2>1, <4>1 DEF Queued
    <3>. QED BY <3>1, <3>2
  <2>2. Range(waiters') = {}
    BY <1>1 DEF Range
  <2>3. \A p \in Queued' : \/ p \in Range(waiters')
                           \/ \E u \in Threads : p \in Range(waking'[u].new)
                                                   \/ p \in Range(waking'[u].kept)
    BY DEF Queued
  <2>. QED BY Zenon, <2>1, <2>2, <2>3
<1>9. ConditionBitOK'
  BY Zenon, <1>1, <1>8 DEF ConditionBitOK, WakeInv
<1>10. word.allFalse => word.condition
  BY Zenon DEF WakeInv, AllFalseOK
<1>11. AllFalseOK'
  <2>1. word.condition => Answerable(t)'
    BY <1>7 DEF Answerable
  <2>. QED BY Zenon, <1>1, <1>10, <2>1 DEF AllFalseOK
<1>12. ScanFound(waking'[t], waiter', truth', word'.condition)
  <2>1. ~word.condition => \A p \in Range(waiters) : waiter[p].cond = NoCondition
    BY DEF WakeInv, ConditionBitOK, Queued
  <2>2. Range(waking'[t].kept) = {}
    BY <1>7 DEF Range
  <2>. QED BY <1>1, <1>7, <2>1, <2>2 DEF ScanFound
<1>13. PlaceOK(pc'[t], waking'[t], waiter'[t])
  BY <1>1, <1>2, <1>7 DEF PlaceOK, LockLabels
<1>14. QueueingOK(pc'[t], locking'[t], word')
  BY <1>7 DEF QueueingOK
<1>15. OnItsWay(t)'
  BY <1>7 DEF OnItsWay
<1>. QED BY Zenon, <1>4, <1>6, <1>9, <1>11, <1>12, <1>13, <1>14, <1>15, WakeKeeps

(* An unlock puts back the waiters that it kept, and releases the lock if  *)
(* its scan has held it.                                                   *)
LEMMA UnlockSlowFinishWake ==
  ASSUME CountingLaws, WaitInv, WakeInv, NEW t \in Threads, UnlockSlowFinish(t),
         UNCHANGED section, OthersStay(t)
  PROVE  WakeInv'
<1>. DEFINE s == waking[t]
<1>1. /\ pc[t] = "unlock_scan" /\ s.new = <<>> /\ word' = FinalWord(s)
      /\ waiters' = s.kept
      /\ waking' = [waking EXCEPT ![t] = [NotWaking EXCEPT !.wake = s.wake]]
      /\ pc' = [pc EXCEPT ![t] = IF s.wake = <<>> THEN ret[t] ELSE "unlock_wake"]
      /\ UNCHANGED <<waiter, locking, truth>>
  BY DEF UnlockSlowFinish, Return, Goto
<1>2. pc[t] \in ScanLabels
  BY <1>1 DEF ScanLabels
<1>3. /\ QueueInv /\ s \in WakeState
      /\ DOMAIN pc = Threads /\ DOMAIN waking = Threads /\ DOMAIN word = WordFields
      /\ ScanFound(s, waiter, truth, word.condition)
      /\ PlaceOK(pc[t], s, waiter[t])
      /\ \A p : \/ p \in Range(waiters) \/ p \in Range(s.new) \/ p \in Range(s.kept)
                => p \in Queued
  BY Zenon, ScanFacts, <1>2
<1>4. /\ word'.condition = (word.condition /\ s.kept # <<>>)
      /\ word'.allFalse = (s.allFalse /\ s.kept # <<>>)
      /\ word'.desig = (word.desig /\ s.wake # <<>>)
  BY <1>1, <1>3 DEF FinalWord, WordFields
<1>5. /\ waking'[t].new = <<>> /\ waking'[t].kept = <<>>
      /\ pc'[t] = IF s.wake = <<>> THEN ret[t] ELSE "unlock_wake"
  BY <1>1, <1>3 DEF NotWaking
<1>6. OthersStay(t) /\ Rests(t)
  <2>1. OthersStay(t)
    OBVIOUS
  <2>. QED BY <1>1, <2>1 DEF Rests
<1>7. ret[t] \notin MuLabels /\ ret[t] \notin Afar
  <2>1. QueueThreadOK(pc[t], ret[t], s, waiter[t]) /\ ret[t] \notin MuLabels
    BY Zenon, <1>3, QueueFacts
  <2>. QED BY Zenon, <2>1 DEF QueueThreadOK
<1>8. /\ pc'[t] \notin ScanLabels /\ pc'[t] \notin LockLabels
      /\ pc'[t] \notin {"lock_queue", "wait_queue", "panic"}
  BY <1>5, <1>7 DEF MuLabels, Afar, SpinLabels, ScanLabels, LockLabels
<1>9. ASSUME NEW u \in Threads \ {t}
      PROVE  /\ pc[u] \notin ScanLabels /\ pc[u] \notin {"lock_queue", "wait_queue"}
             /\ waking[u].new = <<>> /\ waking[u].kept = <<>>
  <2>1. pc[u] \notin ScanLabels
    BY Zenon, <1>2 DEF WakeInv, OneScanner
  <2>2. ~SpinOwner(pc[u], waking[u])
    BY <1>1, <1>3 DEF QueueInv, OneOwner, SpinOwner, SpinLabels
  <2>3. pc[u] \notin {"lock_queue", "wait_queue"}
    BY <2>2 DEF SpinOwner, SpinLabels
  <2>4. QueueThreadOK(pc[u], ret[u], waking[u], waiter[u]) /\ pc[u] # "panic"
    BY <1>3, QueueFacts DEF WakeInv, PlaceOK
  <2>5. waking[u].new = <<>> /\ waking[u].kept = <<>>
    BY Zenon, <2>1, <2>4 DEF QueueThreadOK, NoLists
  <2>. QED BY Zenon, <2>1, <2>3, <2>5
<1>10. \A p \in Queued' : p \in Range(s.kept) /\ p \in Queued
  <2>1. ASSUME NEW u \in Threads, NEW p
        PROVE  p \notin Range(waking'[u].new) /\ p \notin Range(waking'[u].kept)
    <3>1. waking'[u].new = <<>> /\ waking'[u].kept = <<>>
      <4>1. CASE u = t
        BY Zenon, <1>5, <4>1
      <4>2. CASE u # t
        <5>1. u \in Threads \ {t}
          BY Zenon, <4>2
        <5>2. waking'[u] = waking[u]
          BY Zenon, <1>6, <5>1 DEF OthersStay
        <5>3. waking[u].new = <<>> /\ waking[u].kept = <<>>
          BY Zenon, <1>9, <5>1
        <5>. QED BY Zenon, <5>2, <5>3
      <4>. QED BY Zenon, <4>1, <4>2
    <3>. QED BY Zenon, <3>1, NobodyIn
  <2>2. \A p \in Queued' : \/ p \in Range(waiters')
                           \/ \E u \in Threads : p \in Range(waking'[u].new)
                                                   \/ p \in Range(waking'[u].kept)
    BY DEF Queued
  <2>. QED BY Zenon, <1>1, <1>3, <2>1, <2>2
<1>11. s.kept = <<>> => Queued' = {}
  BY Zenon, <1>10, NobodyIn
<1>12. ConditionBitOK'
  BY <1>1, <1>4, <1>10, <1>11 DEF ConditionBitOK, WakeInv
<1>13. AllFalseOK'
  <2>1. word'.allFalse => /\ word.condition /\ s.kept # <<>>
                          /\ \A p \in Range(s.kept) : ~Met(waiter[p], truth)
    BY Zenon, <1>3, <1>4 DEF ScanFound
  <2>2. \A p : Satisfied(p)' <=> Met(waiter[p], truth)
    BY <1>1 DEF Satisfied, Met
  <2>. QED BY Zenon, <1>4, <1>10, <2>1, <2>2 DEF AllFalseOK
<1>14. PlaceOK(pc'[t], waking'[t], waiter'[t]) /\ QueueingOK(pc'[t], locking'[t], word')
  BY <1>1, <1>3, <1>8 DEF PlaceOK, QueueingOK, ScanLabels
<1>15. word'.desig => word.desig /\ OnItsWay(t)'
  BY <1>4, <1>5 DEF OnItsWay
<1>. QED BY Zenon, <1>6, <1>8, <1>9, <1>12, <1>13, <1>14, <1>15, WakeKeeps

-----------------------------------------------------------------------------
(* The clients.                                                            *)

(* Steps that change nothing of the mutex and the data.                    *)
LEMMA WakeStutters ==
  ASSUME WakeInv,
         UNCHANGED <<word, waiters, waiter, pc, ret, held, locking, waking, truth, section>>
  PROVE  WakeInv'
<1>1. Queued' = Queued
  BY DEF Queued
<1>2. \A t \in Threads : /\ OnItsWay(t) => OnItsWay(t)'
                         /\ Answerable(t) => Answerable(t)'
                         /\ Satisfied(t)' => Satisfied(t)
  BY Zenon DEF OnItsWay, Awake, Answerable, Satisfied
<1>3. \A p : Satisfied(p)' => Satisfied(p)
  BY DEF Satisfied
<1>4. OneScanner' /\ ConditionBitOK'
  BY Zenon, <1>1 DEF WakeInv, OneScanner, ConditionBitOK
<1>5. AllFalseOK'
  BY Zenon, <1>1, <1>2, <1>3 DEF WakeInv, AllFalseOK
<1>6. DesigOK'
  BY Zenon, <1>2 DEF WakeInv, DesigOK
<1>. QED BY Zenon, <1>4, <1>5, <1>6 DEF WakeInv

(* A writer changes the data.  The scans of others do not hold the lock,   *)
(* and have no conditions; a condition that the writer makes true is seen  *)
(* to when it unlocks.                                                     *)
LEMMA ChangeWake ==
  ASSUME WaitInv, WakeInv, NEW t \in Threads, NEW c, Change(t, c)
  PROVE  WakeInv'
<1>1. /\ pc[t] = "client" /\ held[t] = "w" /\ section = "fresh"
      /\ UNCHANGED <<word, waiters, waiter, pc, ret, held, locking, waking>>
      /\ \/ section' = "raised"
         \/ section' = "lowered" /\ \A d \in truth' : d \in truth
  BY DEF Change
<1>2. /\ QueueInv /\ MuInv
      /\ PlaceOK(pc[t], waking[t], waiter[t]) /\ QueueingOK(pc[t], locking[t], word)
  BY Zenon, StepFacts
<1>3. Rests(t) /\ Falls(word, word')
  BY Zenon, <1>1 DEF Rests, OthersStay, Falls
<1>4. \A u \in Threads \ {t} : held[u] = "none"
  BY <1>1, <1>2 DEF MuInv, CountsHolders
<1>5. ASSUME NEW u \in Threads \ {t}, pc[u] \in ScanLabels
      PROVE  ScanFound(waking[u], waiter', truth', word'.condition)
  <2>1. ~waking[u].late
    <3>1. ThreadOK(pc[u], held[u], locking[u], waking[u])
      BY Zenon, <1>2, QueueFacts
    <3>. QED BY <1>4, <1>5, <3>1 DEF ThreadOK
  <2>2. ScanFound(waking[u], waiter, truth, word.condition)
    BY Zenon, <1>5 DEF WakeInv
  <2>. QED BY Zenon, <1>1, <2>1, <2>2 DEF ScanFound
<1>6. Queued' = Queued
  BY <1>1 DEF Queued
<1>7. ConditionBitOK'
  BY Zenon, <1>1, <1>6 DEF WakeInv, ConditionBitOK
<1>8. AllFalseOK'
  <2>1. CASE section' = "raised"
    <3>1. Answerable(t)'
      BY <1>1, <2>1 DEF Answerable
    <3>. QED BY Zenon, <1>1, <3>1 DEF WakeInv, AllFalseOK
  <2>2. CASE section' = "lowered" /\ \A d \in truth' : d \in truth
    <3>1. \A u \in Threads : ~Answerable(u)
      BY <1>1, <1>4 DEF Answerable, ScanLabels
    <3>2. \A p : Satisfied(p)' => Satisfied(p)
      BY Zenon, <1>1, <2>2 DEF Satisfied
    <3>. QED BY Zenon, <1>1, <1>6, <3>1, <3>2 DEF WakeInv, AllFalseOK
  <2>. QED BY Zenon, <1>1, <2>1, <2>2
<1>9. PlaceOK(pc'[t], waking'[t], waiter'[t]) /\ QueueingOK(pc'[t], locking'[t], word')
  BY Zenon, <1>1, <1>2
<1>10. pc'[t] \notin ScanLabels
  BY <1>1 DEF ScanLabels
<1>11. word'.desig => /\ word.desig \/ OnItsWay(t)'
                      /\ OnItsWay(t) => \E p \in Threads : OnItsWay(p)'
  <2>1. OnItsWay(t) => OnItsWay(t)'
    BY Zenon, <1>1 DEF OnItsWay, Awake
  <2>. QED BY Zenon, <1>1, <2>1
<1>. QED BY Zenon, <1>3, <1>5, <1>7, <1>8, <1>9, <1>10, <1>11, WakeKeeps

(* Calls of lock and trylock.                                              *)
LEMMA ClientLockWake ==
  ASSUME CountingLaws, WaitInv, WaitInv', WakeInv, NEW t \in Threads, NEW mode,
         ClientLock(t, mode)
  PROVE  WakeInv'
<1>1. /\ pc[t] = "client" /\ held[t] = "none" /\ UNCHANGED section
      /\ \/ LockBody(t, mode, "client") \/ AcquireNow(t, mode, "client")
         \/ UNCHANGED <<word, waiters, waiter, pc, ret, held, locking, waking, truth>>
  BY Zenon DEF ClientLock, Lock, TryLock, StartsCall, waitOnly
<1>2. ~waiter[t].waiting
  BY Zenon, <1>1, ClientFacts
<1>3. CASE AcquireNow(t, mode, "client")
  BY Zenon, <1>1, <1>3, AcquireNowPlain, PlainKeeps
<1>4. CASE EnterLockSlow(t, mode, FALSE, "client")
  BY Zenon, <1>1, <1>2, <1>4, EnterLockSlowPlain, PlainKeeps
<1>5. CASE UNCHANGED <<word, waiters, waiter, pc, ret, held, locking, waking, truth>>
  BY Zenon, <1>1, <1>5, WakeStutters
<1>. QED BY Zenon, <1>1, <1>3, <1>4, <1>5 DEF LockBody

(* Both unlocks.                                                           *)
LEMMA ClientUnlockWake ==
  ASSUME CountingLaws, WaitInv, WaitInv', WakeInv, NEW t \in Threads,
         ClientUnlock(t) \/ UnlockWithoutWakeup(t)
  PROVE  WakeInv'
<1>1. CASE ClientUnlock(t)
  <2>1. /\ pc[t] = "client" /\ held[t] # "none"
        /\ UnlockBody(t, held[t], "client")
    BY Zenon, <1>1 DEF ClientUnlock, Unlock
  <2>2. MuInv
    BY Zenon, WaitFacts
  <2>3. held[t] \in LockModes
    BY Zenon, <2>1, <2>2, HolderReadsMode
  <2>4. ReleaseNow(t, held[t], "client") \/ EnterUnlockSlow(t, held[t], "client")
    BY Zenon, <2>1, <2>2, <2>3, UnlockChecksPass
    DEF UnlockBody, WriterUnlockBody, ReaderUnlockBody, LockModes
  <2>5. Plain(t)
    BY Zenon, <2>1, <2>3, <2>4, ReleaseNowPlain, EnterUnlockSlowPlain
  <2>. QED BY Zenon, <2>5, PlainKeeps
<1>2. CASE UnlockWithoutWakeup(t)
  <2>1. /\ pc[t] = "client" /\ held[t] = "w" /\ section # "raised"
        /\ "w" \in LockModes
    BY Zenon, <1>2 DEF UnlockWithoutWakeup, LockModes
  <2>2. ~(word.wlock = 0 \/ word.readers # 0)
    BY Zenon, <2>1, WaitFacts, UnlockChecksPass
  <2>3. \/ /\ word' = Released(word, "w") /\ held' = [held EXCEPT ![t] = "none"]
           /\ UNCHANGED <<waiters, waiter, pc, ret, locking, waking, truth>>
        \/ EnterUnlockSlow(t, "w", "client")
    BY Zenon, <1>2, <2>2 DEF UnlockWithoutWakeup
  <2>4. Plain(t)
    BY Zenon, <2>1, <2>3, QuietUnlockPlain, EnterUnlockSlowPlain
  <2>. QED BY Zenon, <2>4, PlainKeeps
<1>. QED BY Zenon, <1>1, <1>2

(* The wait's own steps at the ends of its loop.                           *)
LEMMA WaitEndsWake ==
  ASSUME CountingLaws, WaitInv, WaitInv', WakeInv, NEW t \in Threads,
         \/ \E c : MuWait(t, c)
         \/ WaitReacquire(t) \/ WaitEvaluate(t)
  PROVE  WakeInv'
<1>1. ASSUME NEW c, MuWait(t, c) PROVE WakeInv'
  <2>1. pc[t] = "client" /\ held[t] # "none" /\ section' = section
    BY Zenon, <1>1 DEF MuWait
  <2>2. ~(word.wlock = 0 /\ word.readers = 0)
    BY Zenon, <2>1, WaitFacts, HolderReadsMode
  <2>3. \/ UNCHANGED <<word, waiters, waiter, pc, ret, held, locking, waking, truth>>
        \/ \E l : PrepareWait(t, l)
    BY <1>1, <2>2 DEF MuWait
  <2>5. CASE UNCHANGED <<word, waiters, waiter, pc, ret, held, locking, waking, truth>>
    BY Zenon, <2>1, <2>5, WakeStutters
  <2>6. ASSUME NEW l, PrepareWait(t, l) PROVE WakeInv'
    <3>1. Plain(t)
      BY <2>1, <2>6, PrepareWaitPlain
    <3>. QED BY Zenon, <3>1, PlainKeeps
  <2>. QED BY Zenon, <2>3, <2>5, <2>6
<1>2. CASE WaitReacquire(t)
  <2>1. /\ pc[t] = "wait_woken" /\ section' = section
        /\ EnterLockSlow(t, mwait[t].mode, TRUE, "wait_eval")
    BY Zenon, <1>2 DEF WaitReacquire, waitOnly
  <2>2. held[t] = "none" /\ ~waiter[t].waiting
    BY Zenon, <2>1, WaitFacts DEF WaitThreadOK
  <2>3. Plain(t)
    BY Zenon, <2>1, <2>2, EnterLockSlowPlain
  <2>. QED BY Zenon, <2>3, PlainKeeps
<1>3. CASE WaitEvaluate(t)
  <2>1. /\ pc[t] = "wait_eval" /\ section' = section
        /\ \/ /\ Goto(t, "client")
              /\ UNCHANGED <<word, waiters, waiter, ret, held, locking, waking, truth>>
           \/ PrepareWait(t, [mwait[t] EXCEPT !.timedOut = FALSE])
    BY Zenon, <1>3 DEF WaitEvaluate
  <2>2. PrepareWait(t, [mwait[t] EXCEPT !.timedOut = FALSE]) => Plain(t)
    BY <2>1, PrepareWaitPlain
  <2>3. Plain(t)
    BY Zenon, <2>1, <2>2, WaitReturnsPlain
  <2>. QED BY Zenon, <2>3, PlainKeeps
<1>. QED BY Zenon, <1>1, <1>2, <1>3

-----------------------------------------------------------------------------
(* Every step.                                                             *)

(* At first nobody waits and every bit is clear.                           *)
LEMMA InitWakeInv ==
  ASSUME WaitInit
  PROVE  WakeInv
<1>1. /\ \A t \in Threads : /\ pc[t] = "client" /\ ~waiter[t].cvMu
                            /\ waking[t].new = <<>> /\ waking[t].kept = <<>>
      /\ waiters = <<>> /\ ~word.allFalse /\ ~word.desig
  BY DEF WaitInit, Init, NotWaking, NewWaiter, FreeWord
<1>2. \A t \in Threads : /\ PlaceOK(pc[t], waking[t], waiter[t])
                         /\ QueueingOK(pc[t], locking[t], word)
                         /\ pc[t] \notin ScanLabels
  BY <1>1 DEF PlaceOK, QueueingOK, ScanLabels, LockLabels
<1>3. Queued = {}
  BY <1>1 DEF Queued, Range
<1>. QED BY <1>1, <1>2, <1>3
     DEF WakeInv, OneScanner, ConditionBitOK, AllFalseOK, DesigOK

(* The steps inside lock and unlock.                                       *)
LEMMA MuStepWake ==
  ASSUME CountingLaws, WaitInv, WaitInv', WakeInv, NEW t \in Threads,
         MuStep(t) \/ TestStep(t),
         UNCHANGED section, OthersStay(t)
  PROVE  WakeInv'
<1>1. CASE \/ LockSlowAcquire(t) \/ LockSlowSpinlock(t) \/ LockSlowQueue(t)
           \/ LockSlowWait(t) \/ LockSlowP(t)
  <2>1. Plain(t)
    BY Zenon, <1>1, LockSlowAcquirePlain, LockSlowSpinlockPlain, LockSlowQueuePlain,
       LockSlowWaitPlain
  <2>. QED BY Zenon, <2>1, PlainKeeps
<1>2. CASE UnlockSlowRelease(t) \/ UnlockSlowWake(t) \/ UnlockSlowV(t)
  <2>1. Plain(t)
    BY Zenon, <1>2, UnlockSlowReleasePlain, UnlockSlowWakePlain, UnlockSlowVPlain
  <2>. QED BY Zenon, <2>1, PlainKeeps
<1>3. CASE UnlockSlowSpinlock(t) \/ UnlockSlowScan(t) \/ UnlockSlowFinish(t)
  BY Zenon, <1>3, UnlockSlowSpinlockWake, UnlockSlowScanWake, UnlockSlowFinishWake
<1>4. CASE TestStep(t)
  BY Zenon, <1>4, UnlockSlowDropSpinlockWake, UnlockSlowTestWake, UnlockSlowRespinWake
     DEF TestStep
<1>. QED BY Zenon, <1>1, <1>2, <1>3, <1>4 DEF MuStep

(* A step inside lock or unlock leaves the other threads alone.            *)
MuStepsStay == \A t \in Threads : MuStep(t) \/ TestStep(t) => OthersStay(t)

(* Every step keeps the invariant.                                         *)
LEMMA WakeNextStep ==
  ASSUME CountingLaws, WaitInv, WaitInv', WakeInv, MuStepsStay, [WaitNext]_waitVars
  PROVE  WakeInv'
<1>1. CASE UNCHANGED waitVars
  <2>1. UNCHANGED <<word, waiters, waiter, pc, ret, held, locking, waking, truth, section>>
    BY Zenon, <1>1 DEF waitVars, waitOnly, muVars
  <2>. QED BY Zenon, <2>1, WakeStutters
<1>2. ASSUME NEW t \in Threads, NEW mode \in Modes, ClientLock(t, mode)
      PROVE  WakeInv'
  BY Zenon, <1>2, ClientLockWake
<1>3. ASSUME NEW t \in Threads, ClientUnlock(t) \/ UnlockWithoutWakeup(t)
      PROVE  WakeInv'
  BY Zenon, <1>3, ClientUnlockWake
<1>4. ASSUME NEW t \in Threads, NEW c \in Conditions, MuWait(t, c) \/ Change(t, c)
      PROVE  WakeInv'
  BY Zenon, <1>4, WaitEndsWake, ChangeWake
<1>5. ASSUME NEW t \in Threads, WaitStep(t) \/ WaitDeadlinePasses(t)
      PROVE  WakeInv'
  <2>1. CASE \/ WaitSpinlock(t) \/ WaitQueue(t) \/ TimeoutAcquire(t) \/ TimeoutConfirm(t)
    <3>1. Plain(t)
      BY Zenon, <2>1, WaitSpinlockPlain, WaitQueuePlain, TimeoutAcquirePlain,
         TimeoutConfirmPlain
    <3>. QED BY Zenon, <3>1, PlainKeeps
  <2>2. CASE \/ WaitTest(t) \/ WaitP(t) \/ WaitDeadlinePasses(t)
             \/ TimeoutSwapFails(t) \/ TimeoutAnnounce(t)
    <3>1. Plain(t)
      BY Zenon, <2>2, WaitLoopPlain
    <3>. QED BY Zenon, <3>1, PlainKeeps
  <2>3. CASE WaitReacquire(t) \/ WaitEvaluate(t)
    BY Zenon, <2>3, WaitEndsWake
  <2>4. CASE (MuStep(t) \/ TestStep(t)) /\ UNCHANGED waitOnly
    BY Zenon, <2>4, MuStepWake DEF waitOnly, MuStepsStay
  <2>. QED BY Zenon, <1>5, <2>1, <2>2, <2>3, <2>4 DEF WaitStep
<1>6. CASE Quiescent
  BY Zenon, <1>1, <1>6 DEF Quiescent
<1>. QED BY Zenon, <1>1, <1>2, <1>3, <1>4, <1>5, <1>6 DEF WaitNext, WaitNextBy

-----------------------------------------------------------------------------
(* The bits of the word, for every number of threads, conditions, calls    *)
(* and deadlines.                                                          *)
=============================================================================
