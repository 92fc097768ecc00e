--------------------------- MODULE NsyncMu_proofs ---------------------------
(***************************************************************************)
(* Proofs about lock and unlock, for every number of threads and of calls: *)
(* the lock bits count the holders, who exclude each other.  Then the      *)
(* inductive invariants of the queue and of conditional critical sections, *)
(* with the facts that the proofs about both of them share.                *)
(***************************************************************************)
EXTENDS NsyncMuWait, NsyncCounting, TLAPS

WordFields ==
  {"wlock", "readers", "spin", "waiting", "desig", "condition",
   "writerWaiting", "longWait", "allFalse"}

(* What the arithmetic of the reader count needs of a modulus.             *)
LEMMA Modulo ==
  ASSUME NEW n \in Nat, NEW a \in Nat, a < n
  PROVE  /\ a + 1 < n => (a + 1) % n = a + 1
         /\ a > 0 => (a + (n - 1)) % n = a - 1
<1>1. a + 1 < n => (a + 1) % n = a + 1
  OBVIOUS
<1>2. ASSUME a > 0 PROVE (a + (n - 1)) % n = a - 1
  <2>1. a + (n - 1) = n + (a - 1)
    OBVIOUS
  <2>. QED BY <1>2, <2>1
<1>. QED BY <1>1, <1>2

-----------------------------------------------------------------------------
(* The inductive invariant.                                                *)

LockLabels == {"lock_slow", "lock_queue", "lock_wait", "lock_p"}

ScanLabels == {"unlock_scan", "unlock_test", "unlock_respin"}

WakeLabels == {"unlock_wake", "unlock_v"}

LockModes == {"w", "r"}

(* Where a thread is tells how it holds the mutex: not at all while it     *)
(* locks, in the mode it releases when unlock starts, and in write mode    *)
(* while an unlock that releases late looks at the queue.                  *)
ThreadOK(label, h, l, s) ==
  /\ DOMAIN l = DOMAIN NotLocking /\ l.mode \in LockModes
  /\ DOMAIN s = DOMAIN NotWaking /\ s.mode \in LockModes
  /\ label \in LockLabels \cup WakeLabels => h = "none"
  /\ label = "unlock_slow" => h = s.mode
  /\ label \in ScanLabels => h = IF s.late THEN "w" ELSE "none"

(* The lock bits count the holders, who exclude each other.                *)
CountsHolders(wd, h) ==
  /\ h \in [Threads -> HeldModes]
  /\ DOMAIN wd = WordFields
  /\ wd.wlock = Cardinality(Held(h, "w"))
  /\ wd.readers = Cardinality(Held(h, "r"))
  /\ \A t, u \in Threads : t # u /\ h[t] = "w" => h[u] = "none"

(* The calls of lock and unlock return to code outside them.               *)
MuLabels == LockLabels \cup ScanLabels \cup WakeLabels \cup {"unlock_slow"}

ReturnsOutside(r) == DOMAIN r = Threads /\ \A t \in Threads : r[t] \notin MuLabels

MuInv ==
  /\ CountsHolders(word, held)
  /\ DOMAIN pc = Threads /\ ReturnsOutside(ret)
  /\ DOMAIN locking = Threads /\ DOMAIN waking = Threads
  /\ \A t \in Threads : ThreadOK(pc[t], held[t], locking[t], waking[t])

(* A caller of nsync_mu_lock or nsync_mu_unlock is outside them.           *)
LEMMA ClientOutside == "client" \notin MuLabels
BY DEF MuLabels, LockLabels, ScanLabels, WakeLabels

(* A return keeps the other threads' returns.                              *)
LEMMA ReturnKeeps ==
  ASSUME NEW r, ReturnsOutside(r), NEW t \in Threads, NEW next, next \notin MuLabels
  PROVE  ReturnsOutside([r EXCEPT ![t] = next])
BY DEF ReturnsOutside

(* The locals of the slow paths.                                           *)
LocalsOK(l, s) ==
  /\ DOMAIN l = DOMAIN NotLocking /\ l.mode \in LockModes
  /\ DOMAIN s = DOMAIN NotWaking /\ s.mode \in LockModes

(* They are what they were, or reset when a call returns.                  *)
LEMMA LocalsStayOK ==
  ASSUME MuInv, NEW t \in Threads
  PROVE  /\ LocalsOK(locking[t], waking[t])
         /\ LocalsOK(NotLocking, waking[t]) /\ LocalsOK(locking[t], NotWaking)
BY DEF MuInv, ThreadOK, LocalsOK, NotLocking, NotWaking, LockModes

(* A thread outside lock and unlock may hold the mutex in any mode.        *)
LEMMA OutsideOK ==
  ASSUME NEW label, label \notin MuLabels, NEW h, NEW l, NEW s, LocalsOK(l, s)
  PROVE  ThreadOK(label, h, l, s)
BY DEF ThreadOK, MuLabels, LocalsOK

(* A thread that finds the mutex free for its mode may add itself.         *)
LEMMA AcquireCounts ==
  ASSUME CountingLaws, CountsHolders(word, held), NEW t \in Threads, NEW mode \in LockModes,
         held[t] = "none", word.wlock = 0, mode = "w" => word.readers = 0,
         DOMAIN word' = WordFields,
         word'.wlock = IF mode = "w" THEN word.wlock + 1 ELSE word.wlock,
         word'.readers = IF mode = "r" THEN (word.readers + 1) % READER_COUNTS
                         ELSE word.readers,
         held' = [held EXCEPT ![t] = mode]
  PROVE  CountsHolders(word, held)' /\ Abstract!Acquire(t, mode)
<1>0. held \in [Threads -> HeldModes]
  BY DEF CountsHolders
<1>1. held' \in [Threads -> HeldModes]
  BY DEF CountsHolders, HeldModes, LockModes
<1>c. CountChange(held, held', t, "w") /\ CountChange(held, held', t, "r")
  <2>1. \A u \in Threads \ {t} : held'[u] = held[u]
    BY <1>0
  <2>. QED BY Zenon, <1>0, <1>1, <2>1 DEF CountingLaws, HoldersChangeLaw
<1>d. held'[t] = mode
  BY <1>0
<1>2. \A u \in Threads : held[u] # "w" /\ (mode = "w" => held[u] = "none")
  BY DEF CountsHolders, HeldModes, LockModes, CountingLaws, HoldersCountLaw
<1>3. word'.wlock = Cardinality(Held(held', "w"))
  BY <1>c, <1>d DEF CountsHolders, CountChange, LockModes
<1>4. word'.readers = Cardinality(Held(held', "r"))
  <2>1. CASE mode = "w"
    BY <2>1, <1>c, <1>d DEF CountsHolders, CountChange
  <2>2. CASE mode = "r"
    <3>1. /\ Cardinality(Held(held', "r")) = Cardinality(Held(held, "r")) + 1
          /\ Cardinality(Held(held, "r")) \in Nat
      BY <2>2, <1>c, <1>d DEF CountChange
    <3>2. Cardinality(Held(held', "r")) < READER_COUNTS
      <4>1. Cardinality(Held(held', "r")) <= Cardinality(Threads)
        BY Zenon, <1>1 DEF CountingLaws, HoldersCountLaw
      <4>2. Cardinality(Held(held', "r")) \in Nat
        BY Zenon, <1>1 DEF CountingLaws, HoldersCountLaw
      <4>3. Cardinality(Threads) \in Nat /\ Cardinality(Threads) < READER_COUNTS
        BY NsyncMuConstants DEF CountingLaws, CardinalityLaw
      <4>. QED BY <4>1, <4>2, <4>3, NsyncMuConstants
    <3>3. word.readers \in Nat /\ word.readers + 1 < READER_COUNTS
      BY <3>1, <3>2 DEF CountsHolders
    <3>4. (word.readers + 1) % READER_COUNTS = word.readers + 1
      BY <3>3, Modulo, NsyncMuConstants
    <3>. QED BY <2>2, <3>1, <3>4 DEF CountsHolders
  <2>. QED BY <2>1, <2>2 DEF LockModes
<1>5. \A u, v \in Threads : u # v /\ held'[u] = "w" => held'[v] = "none"
  BY <1>2 DEF CountsHolders, LockModes, HeldModes
<1>6. \A u \in Threads \ {t} : held[u] = "none" \/ (mode = "r" /\ held[u] = "r")
  BY <1>2 DEF CountsHolders, LockModes, HeldModes
<1>. QED BY <1>1, <1>3, <1>4, <1>5, <1>6
       DEF CountsHolders, Abstract!Acquire, Abstract!Compatible

(* A holder may take itself off.                                           *)
LEMMA ReleaseCounts ==
  ASSUME CountingLaws, CountsHolders(word, held), NEW t \in Threads, NEW mode \in LockModes,
         held[t] = mode,
         DOMAIN word' = WordFields,
         word'.wlock = IF mode = "w" THEN word.wlock - 1 ELSE word.wlock,
         word'.readers = IF mode = "r"
                         THEN (word.readers + (READER_COUNTS - 1)) % READER_COUNTS
                         ELSE word.readers,
         held' = [held EXCEPT ![t] = "none"]
  PROVE  CountsHolders(word, held)' /\ Abstract!Release(t)
<1>0. held \in [Threads -> HeldModes]
  BY DEF CountsHolders
<1>1. held' \in [Threads -> HeldModes]
  BY DEF CountsHolders, HeldModes, LockModes
<1>c. CountChange(held, held', t, "w") /\ CountChange(held, held', t, "r")
  <2>1. \A u \in Threads \ {t} : held'[u] = held[u]
    BY <1>0
  <2>. QED BY Zenon, <1>0, <1>1, <2>1 DEF CountingLaws, HoldersChangeLaw
<1>d. held'[t] = "none"
  BY <1>0
<1>2. word'.wlock = Cardinality(Held(held', "w"))
  BY <1>c, <1>d DEF CountsHolders, CountChange, LockModes
<1>3. word'.readers = Cardinality(Held(held', "r"))
  <2>1. CASE mode = "w"
    BY <2>1, <1>c, <1>d DEF CountsHolders, CountChange
  <2>2. CASE mode = "r"
    <3>1. /\ Cardinality(Held(held', "r")) = Cardinality(Held(held, "r")) - 1
          /\ Cardinality(Held(held, "r")) \in Nat
      BY <2>2, <1>c, <1>d DEF CountChange
    <3>2. word.readers # 0 /\ word.readers <= Cardinality(Threads)
      BY <2>2 DEF CountsHolders, CountingLaws, HoldersCountLaw
    <3>3. Cardinality(Threads) \in Nat /\ Cardinality(Threads) < READER_COUNTS
      BY NsyncMuConstants DEF CountingLaws, CardinalityLaw
    <3>4. word.readers \in Nat /\ word.readers > 0 /\ word.readers < READER_COUNTS
      BY <3>1, <3>2, <3>3, NsyncMuConstants DEF CountsHolders
    <3>5. (word.readers + (READER_COUNTS - 1)) % READER_COUNTS = word.readers - 1
      BY <3>4, Modulo, NsyncMuConstants
    <3>. QED BY <2>2, <3>1, <3>5 DEF CountsHolders
  <2>. QED BY <2>1, <2>2 DEF LockModes
<1>4. \A u, v \in Threads : u # v /\ held'[u] = "w" => held'[v] = "none"
  BY DEF CountsHolders, HeldModes, LockModes
<1>. QED BY <1>1, <1>2, <1>3, <1>4
       DEF CountsHolders, Abstract!Release, LockModes

(* The last reader may become a writer, as unlock does to test conditions. *)
LEMMA PromoteCounts ==
  ASSUME CountingLaws, CountsHolders(word, held), NEW t \in Threads,
         held[t] = "r", ~(word.readers > 1),
         DOMAIN word' = WordFields,
         word'.wlock = word.wlock + 1,
         word'.readers = (word.readers + (READER_COUNTS - 1)) % READER_COUNTS,
         held' = [held EXCEPT ![t] = "w"]
  PROVE  CountsHolders(word, held)' /\ Abstract!Promote(t)
<1>0. held \in [Threads -> HeldModes]
  BY DEF CountsHolders
<1>1. held' \in [Threads -> HeldModes]
  BY <1>0 DEF HeldModes
<1>2. CountChange(held, held', t, "w") /\ CountChange(held, held', t, "r")
  <2>1. \A u \in Threads \ {t} : held'[u] = held[u]
    BY <1>0
  <2>. QED BY Zenon, <1>0, <1>1, <2>1 DEF CountingLaws, HoldersChangeLaw
<1>3. held'[t] = "w"
  BY <1>0
<1>4. /\ Cardinality(Held(held, "r")) \in Nat
      /\ Cardinality(Held(held, "r")) # 0
      /\ Cardinality(Held(held, "w")) = 0
  BY <1>0 DEF CountsHolders, CountingLaws, HoldersCountLaw
<1>5. word.readers = 1
  BY <1>4 DEF CountsHolders
<1>6. \A u \in Threads \ {t} : held[u] = "none"
  <2>1. \A u \in Threads \ {t} : held[u] # "r"
    BY <1>0, <1>5 DEF CountsHolders, CountingLaws, HoldersCountLaw
  <2>2. \A u \in Threads \ {t} : held[u] # "w"
    BY <1>0, <1>4 DEF CountingLaws, HoldersCountLaw
  <2>. QED BY <1>0, <2>1, <2>2 DEF HeldModes
<1>7. word'.wlock = Cardinality(Held(held', "w"))
  BY <1>2, <1>3 DEF CountsHolders, CountChange
<1>8. word'.readers = Cardinality(Held(held', "r"))
  <2>1. Cardinality(Threads) \in Nat /\ Cardinality(Threads) < READER_COUNTS
    BY NsyncMuConstants DEF CountingLaws, CardinalityLaw
  <2>2. 1 <= Cardinality(Threads)
    BY <1>0, <1>5 DEF CountsHolders, CountingLaws, HoldersCountLaw
  <2>3. (1 + (READER_COUNTS - 1)) % READER_COUNTS = 1 - 1
    BY <2>1, <2>2, Modulo, NsyncMuConstants
  <2>. QED BY <1>2, <1>3, <1>5, <2>3 DEF CountsHolders, CountChange
<1>9. \A u, v \in Threads : u # v /\ held'[u] = "w" => held'[v] = "none"
  BY <1>0, <1>6
<1>. QED BY <1>1, <1>6, <1>7, <1>8, <1>9
       DEF CountsHolders, Abstract!Promote, Abstract!Compatible

OthersWait(t) ==
  \A u \in Threads \ {t} :
    /\ pc'[u] = pc[u] /\ held'[u] = held[u]
    /\ locking'[u] = locking[u] /\ waking'[u] = waking[u]

(* A step of one thread keeps the invariant of all threads if it keeps the *)
(* thread's own and the count.                                             *)
LEMMA ThreadStep ==
  ASSUME MuInv, NEW t \in Threads, CountsHolders(word, held)',
         DOMAIN pc' = Threads, ReturnsOutside(ret'),
         DOMAIN locking' = Threads, DOMAIN waking' = Threads, OthersWait(t),
         ThreadOK(pc'[t], held'[t], locking'[t], waking'[t])
  PROVE  MuInv'
BY DEF MuInv, OthersWait

(* The invariant holds at first.                                           *)
LEMMA InitMuInv ==
  ASSUME CountingLaws, Init
  PROVE  MuInv /\ Abstract!Init
<1>1. held \in [Threads -> HeldModes] /\ \A t \in Threads : held[t] = "none"
  BY DEF Init, HeldModes
<1>2. Cardinality(Held(held, "w")) = 0 /\ Cardinality(Held(held, "r")) = 0
  BY <1>1 DEF CountingLaws, HoldersCountLaw
<1>3. CountsHolders(word, held)
  BY <1>1, <1>2 DEF Init, CountsHolders, FreeWord, WordFields
<1>4. \A t \in Threads : ThreadOK(pc[t], held[t], locking[t], waking[t])
  BY DEF Init, ThreadOK, NotLocking, NotWaking, LockModes, LockLabels,
         WakeLabels, ScanLabels
<1>5. ReturnsOutside(ret)
  BY ClientOutside DEF Init, ReturnsOutside
<1>. QED BY <1>3, <1>4, <1>5 DEF Init, MuInv, Abstract!Init

-----------------------------------------------------------------------------
(* Steps that leave the holders alone.                                     *)

(* Entering nsync_mu_lock_slow_ changes no holder.                         *)
LEMMA EnterLockSlowStep ==
  ASSUME MuInv, NEW t \in Threads, held[t] = "none",
         NEW mode \in LockModes, NEW slept, NEW next, next \notin MuLabels,
         EnterLockSlow(t, mode, slept, next)
  PROVE  MuInv' /\ UNCHANGED held
<1>1. UNCHANGED held /\ CountsHolders(word, held)'
  BY DEF EnterLockSlow, Goto, MuInv, CountsHolders, WordFields
<1>2. OthersWait(t) /\ ReturnsOutside(ret')
  BY Zenon, ReturnKeeps DEF EnterLockSlow, Goto, MuInv, OthersWait
<1>3. DOMAIN pc' = Threads /\ DOMAIN locking' = Threads /\ DOMAIN waking' = Threads
  BY DEF EnterLockSlow, Goto, MuInv
<1>4. ThreadOK(pc'[t], held'[t], locking'[t], waking'[t])
  BY DEF EnterLockSlow, Goto, MuInv, ThreadOK, LockLabels, WakeLabels, ScanLabels
<1>. QED BY <1>1, <1>2, <1>3, <1>4, ThreadStep

(* Taking the spinlock to queue a waiter changes no holder.                *)
LEMMA LockSlowSpinlockStep ==
  ASSUME MuInv, NEW t \in Threads, LockSlowSpinlock(t)
  PROVE  MuInv' /\ UNCHANGED held
<1>1. UNCHANGED held /\ CountsHolders(word, held)'
  BY DEF LockSlowSpinlock, Goto, MuInv, CountsHolders, WordFields
<1>2. OthersWait(t) /\ ReturnsOutside(ret')
  BY DEF LockSlowSpinlock, Goto, MuInv, OthersWait
<1>3. DOMAIN pc' = Threads /\ DOMAIN locking' = Threads /\ DOMAIN waking' = Threads
  BY DEF LockSlowSpinlock, Goto, MuInv
<1>4. ThreadOK(pc'[t], held'[t], locking'[t], waking'[t])
  BY DEF LockSlowSpinlock, Goto, MuInv, ThreadOK, LockLabels, WakeLabels, ScanLabels
<1>. QED BY <1>1, <1>2, <1>3, <1>4, ThreadStep

(* Queueing a waiter changes no holder.                                    *)
LEMMA LockSlowQueueStep ==
  ASSUME MuInv, NEW t \in Threads, LockSlowQueue(t)
  PROVE  MuInv' /\ UNCHANGED held
<1>1. UNCHANGED held /\ CountsHolders(word, held)'
  BY DEF LockSlowQueue, Goto, MuInv, CountsHolders, WordFields
<1>2. OthersWait(t) /\ ReturnsOutside(ret')
  BY DEF LockSlowQueue, Goto, MuInv, OthersWait
<1>3. DOMAIN pc' = Threads /\ DOMAIN locking' = Threads /\ DOMAIN waking' = Threads
  BY DEF LockSlowQueue, Goto, MuInv
<1>4. ThreadOK(pc'[t], held'[t], locking'[t], waking'[t])
  BY DEF LockSlowQueue, Goto, MuInv, ThreadOK, LockLabels, WakeLabels, ScanLabels
<1>. QED BY <1>1, <1>2, <1>3, <1>4, ThreadStep

(* Waiting for a wake-up changes no holder.                                *)
LEMMA LockSlowWaitStep ==
  ASSUME MuInv, NEW t \in Threads, LockSlowWait(t)
  PROVE  MuInv' /\ UNCHANGED held
<1>1. UNCHANGED held /\ CountsHolders(word, held)'
  BY DEF LockSlowWait, Goto, MuInv, CountsHolders, WordFields
<1>2. OthersWait(t) /\ ReturnsOutside(ret')
  BY DEF LockSlowWait, Goto, MuInv, OthersWait
<1>3. DOMAIN pc' = Threads /\ DOMAIN locking' = Threads /\ DOMAIN waking' = Threads
  BY DEF LockSlowWait, Goto, MuInv
<1>4. ThreadOK(pc'[t], held'[t], locking'[t], waking'[t])
  <2>1. ThreadOK(pc[t], held[t], locking[t], waking[t]) /\ DOMAIN locking = Threads
    BY DEF MuInv
  <2>2. DOMAIN locking'[t] = DOMAIN locking[t] /\ locking'[t].mode = locking[t].mode
    BY <2>1 DEF LockSlowWait, ThreadOK, NotLocking
  <2>3. pc'[t] \in {"lock_p", "lock_slow"} /\ held'[t] = "none"
    BY <2>1 DEF LockSlowWait, Goto, MuInv, ThreadOK, LockLabels
  <2>4. waking'[t] = waking[t]
    BY DEF LockSlowWait
  <2>. QED BY <2>1, <2>2, <2>3, <2>4
         DEF ThreadOK, LockLabels, WakeLabels, ScanLabels
<1>. QED BY <1>1, <1>2, <1>3, <1>4, ThreadStep

(* Sleeping on the semaphore changes no holder.                            *)
LEMMA LockSlowPStep ==
  ASSUME MuInv, NEW t \in Threads, LockSlowP(t)
  PROVE  MuInv' /\ UNCHANGED held
<1>1. UNCHANGED held /\ CountsHolders(word, held)'
  BY DEF LockSlowP, SemaphoreP, Goto, MuInv, CountsHolders, WordFields
<1>2. OthersWait(t) /\ ReturnsOutside(ret')
  BY DEF LockSlowP, SemaphoreP, Goto, MuInv, OthersWait
<1>3. DOMAIN pc' = Threads /\ DOMAIN locking' = Threads /\ DOMAIN waking' = Threads
  BY DEF LockSlowP, SemaphoreP, Goto, MuInv
<1>4. ThreadOK(pc'[t], held'[t], locking'[t], waking'[t])
  BY DEF LockSlowP, SemaphoreP, Goto, MuInv, ThreadOK, LockLabels, WakeLabels, ScanLabels
<1>. QED BY <1>1, <1>2, <1>3, <1>4, ThreadStep

(* Entering nsync_mu_unlock_slow_ changes no holder.                       *)
LEMMA EnterUnlockSlowStep ==
  ASSUME MuInv, NEW t \in Threads, NEW mode \in LockModes,
         held[t] = mode, NEW next, next \notin MuLabels, EnterUnlockSlow(t, mode, next)
  PROVE  MuInv' /\ UNCHANGED held
<1>1. UNCHANGED held /\ CountsHolders(word, held)'
  BY DEF EnterUnlockSlow, Goto, MuInv, CountsHolders, WordFields
<1>2. OthersWait(t) /\ ReturnsOutside(ret')
  BY Zenon, ReturnKeeps DEF EnterUnlockSlow, Goto, MuInv, OthersWait
<1>3. DOMAIN pc' = Threads /\ DOMAIN locking' = Threads /\ DOMAIN waking' = Threads
  BY DEF EnterUnlockSlow, Goto, MuInv
<1>4. ThreadOK(pc'[t], held'[t], locking'[t], waking'[t])
  BY DEF EnterUnlockSlow, Goto, MuInv, ThreadOK, LockLabels, WakeLabels, ScanLabels, NotWaking
<1>. QED BY <1>1, <1>2, <1>3, <1>4, ThreadStep

(* A panic changes no holder.                                              *)
LEMMA PanicStep ==
  ASSUME MuInv, NEW t \in Threads, Panic(t)
  PROVE  MuInv' /\ UNCHANGED held
<1>1. UNCHANGED held /\ CountsHolders(word, held)'
  BY DEF Panic, Goto, MuInv, CountsHolders, WordFields
<1>2. OthersWait(t) /\ ReturnsOutside(ret')
  BY DEF Panic, Goto, MuInv, OthersWait
<1>3. DOMAIN pc' = Threads /\ DOMAIN locking' = Threads /\ DOMAIN waking' = Threads
  BY DEF Panic, Goto, MuInv
<1>4. ThreadOK(pc'[t], held'[t], locking'[t], waking'[t])
  BY DEF Panic, Goto, MuInv, ThreadOK, LockLabels, WakeLabels, ScanLabels
<1>. QED BY <1>1, <1>2, <1>3, <1>4, ThreadStep

(* Looking at the queue keeps what unlock knows of the lock it releases.   *)
LEMMA ExamineKeeps ==
  ASSUME NEW s, DOMAIN s = DOMAIN NotWaking
  PROVE  /\ DOMAIN Examine(s) = DOMAIN NotWaking
         /\ Examine(s).mode = s.mode /\ Examine(s).late = s.late
BY DEF Examine, NotWaking

(* A pass over the queue without conditions changes no holder.             *)
LEMMA UnlockSlowScanStep ==
  ASSUME MuInv, NEW t \in Threads, UnlockSlowScan(t)
  PROVE  MuInv' /\ UNCHANGED held
<1>. DEFINE s == [waking[t] EXCEPT !.testing = FALSE]
            done == Examine(s)
<1>1. CASE ChecksUnlocked(s)
  BY <1>1, PanicStep DEF UnlockSlowScan
<1>2. CASE ~ChecksUnlocked(s)
  <2>1. /\ waking' = [waking EXCEPT ![t] = [done EXCEPT !.new = waiters]]
        /\ pc[t] = "unlock_scan"
        /\ UNCHANGED <<word, pc, ret, held, locking>>
    BY Zenon, <1>2 DEF UnlockSlowScan
  <2>2. ThreadOK(pc[t], held[t], locking[t], waking[t]) /\ DOMAIN waking = Threads
    BY DEF MuInv
  <2>3. DOMAIN s = DOMAIN NotWaking /\ s.mode = waking[t].mode
          /\ s.late = waking[t].late
    BY <2>2 DEF ThreadOK, NotWaking
  <2>. HIDE DEF s
  <2>4. DOMAIN done = DOMAIN NotWaking /\ done.mode = waking[t].mode
          /\ done.late = waking[t].late
    BY <2>3, ExamineKeeps
  <2>. HIDE DEF done
  <2>5. /\ DOMAIN waking'[t] = DOMAIN NotWaking /\ waking'[t].mode = waking[t].mode
        /\ waking'[t].late = waking[t].late
    BY <2>1, <2>2, <2>4 DEF NotWaking
  <2>6. ThreadOK(pc'[t], held'[t], locking'[t], waking'[t])
    BY <2>1, <2>2, <2>5 DEF ThreadOK
  <2>7. CountsHolders(word, held)'
    BY <2>1 DEF MuInv, CountsHolders
  <2>8. OthersWait(t) /\ DOMAIN waking' = Threads
    BY <2>1, <2>2 DEF OthersWait
  <2>. QED BY <2>1, <2>6, <2>7, <2>8, ThreadStep DEF MuInv
<1>. QED BY <1>1, <1>2

(* Testing conditions changes no holder.                                   *)
LEMMA UnlockSlowTestStep ==
  ASSUME MuInv, NEW t \in Threads, UnlockSlowTest(t)
  PROVE  MuInv' /\ UNCHANGED held
<1>. DEFINE done == Examine(waking[t])
<1>1. /\ waking' = [waking EXCEPT ![t] = done]
      /\ pc[t] = "unlock_test" /\ pc' = [pc EXCEPT ![t] = "unlock_respin"]
      /\ UNCHANGED <<word, ret, held, locking>>
  BY DEF UnlockSlowTest, Goto
<1>2. /\ ThreadOK(pc[t], held[t], locking[t], waking[t])
      /\ DOMAIN waking = Threads /\ DOMAIN pc = Threads
  BY DEF MuInv
<1>3. DOMAIN done = DOMAIN NotWaking /\ done.mode = waking[t].mode
        /\ done.late = waking[t].late
  BY <1>2, ExamineKeeps DEF ThreadOK
<1>. HIDE DEF done
<1>4. ThreadOK(pc'[t], held'[t], locking'[t], waking'[t])
  BY <1>1, <1>2, <1>3 DEF ThreadOK, LockLabels, WakeLabels, ScanLabels
<1>5. CountsHolders(word, held)'
  BY <1>1 DEF MuInv, CountsHolders
<1>6. OthersWait(t) /\ DOMAIN waking' = Threads /\ DOMAIN pc' = Threads
  BY <1>1, <1>2 DEF OthersWait
<1>. QED BY <1>1, <1>4, <1>5, <1>6, ThreadStep DEF MuInv

(* Dropping the spinlock to test conditions changes no holder.             *)
LEMMA UnlockSlowDropSpinlockStep ==
  ASSUME MuInv, NEW t \in Threads, UnlockSlowDropSpinlock(t)
  PROVE  MuInv' /\ UNCHANGED held
<1>1. UNCHANGED held /\ CountsHolders(word, held)'
  BY DEF UnlockSlowDropSpinlock, Goto, MuInv, CountsHolders, WordFields
<1>2. OthersWait(t) /\ ReturnsOutside(ret')
  BY DEF UnlockSlowDropSpinlock, Goto, MuInv, OthersWait
<1>3. DOMAIN pc' = Threads /\ DOMAIN locking' = Threads /\ DOMAIN waking' = Threads
  BY DEF UnlockSlowDropSpinlock, Goto, MuInv
<1>4. ThreadOK(pc'[t], held'[t], locking'[t], waking'[t])
  BY DEF UnlockSlowDropSpinlock, Goto, MuInv, ThreadOK, LockLabels, WakeLabels, ScanLabels
<1>. QED BY <1>1, <1>2, <1>3, <1>4, ThreadStep

(* Taking the spinlock again changes no holder.                            *)
LEMMA UnlockSlowRespinStep ==
  ASSUME MuInv, NEW t \in Threads, UnlockSlowRespin(t)
  PROVE  MuInv' /\ UNCHANGED held
<1>1. UNCHANGED held /\ CountsHolders(word, held)'
  BY DEF UnlockSlowRespin, Goto, MuInv, CountsHolders, WordFields
<1>2. OthersWait(t) /\ ReturnsOutside(ret')
  BY DEF UnlockSlowRespin, Goto, MuInv, OthersWait
<1>3. DOMAIN pc' = Threads /\ DOMAIN locking' = Threads /\ DOMAIN waking' = Threads
  BY DEF UnlockSlowRespin, Goto, MuInv
<1>4. ThreadOK(pc'[t], held'[t], locking'[t], waking'[t])
  BY DEF UnlockSlowRespin, Goto, MuInv, ThreadOK, LockLabels, WakeLabels, ScanLabels, NotWaking
<1>. QED BY <1>1, <1>2, <1>3, <1>4, ThreadStep

(* An unlock that tests the conditions of waiters, as it does for          *)
(* conditional critical sections, keeps the invariant and every holder.    *)
LEMMA TestStepKeepsHolders ==
  ASSUME MuInv, NEW t \in Threads, TestStep(t)
  PROVE  MuInv' /\ UNCHANGED held
BY UnlockSlowTestStep, UnlockSlowDropSpinlockStep, UnlockSlowRespinStep DEF TestStep

(* Telling a waiter to go on changes no holder.                            *)
LEMMA UnlockSlowWakeStep ==
  ASSUME MuInv, NEW t \in Threads, UnlockSlowWake(t)
  PROVE  MuInv' /\ UNCHANGED held
<1>1. UNCHANGED held /\ CountsHolders(word, held)'
  BY DEF UnlockSlowWake, ClearWaiting, Goto, MuInv, CountsHolders, WordFields
<1>2. OthersWait(t) /\ ReturnsOutside(ret')
  BY DEF UnlockSlowWake, ClearWaiting, Goto, MuInv, OthersWait
<1>3. DOMAIN pc' = Threads /\ DOMAIN locking' = Threads /\ DOMAIN waking' = Threads
  BY DEF UnlockSlowWake, ClearWaiting, Goto, MuInv
<1>4. ThreadOK(pc'[t], held'[t], locking'[t], waking'[t])
  BY DEF UnlockSlowWake, ClearWaiting, Goto, MuInv, ThreadOK, LockLabels, WakeLabels, ScanLabels
<1>. QED BY <1>1, <1>2, <1>3, <1>4, ThreadStep

(* Raising a semaphore changes no holder.                                  *)
LEMMA UnlockSlowVStep ==
  ASSUME MuInv, NEW t \in Threads, UnlockSlowV(t)
  PROVE  MuInv' /\ UNCHANGED held
<1>1. UNCHANGED held /\ CountsHolders(word, held)'
  BY DEF UnlockSlowV, Return, Goto, MuInv, CountsHolders, WordFields
<1>2. OthersWait(t) /\ ReturnsOutside(ret')
  BY ReturnKeeps, ClientOutside DEF UnlockSlowV, Return, Goto, MuInv, OthersWait
<1>3. DOMAIN pc' = Threads /\ DOMAIN locking' = Threads /\ DOMAIN waking' = Threads
  BY DEF UnlockSlowV, Return, Goto, MuInv
<1>4. ThreadOK(pc'[t], held'[t], locking'[t], waking'[t])
  <2>1. LocalsOK(locking'[t], waking'[t])
    BY DEF UnlockSlowV, MuInv, ThreadOK, NotWaking, LocalsOK
  <2>2. held'[t] = "none"
    BY DEF UnlockSlowV, MuInv, ThreadOK, WakeLabels
  <2>3. pc'[t] = ret[t] \/ pc'[t] = "unlock_wake"
    BY DEF UnlockSlowV, Return, Goto, MuInv
  <2>4. CASE pc'[t] = ret[t]
    BY <2>1, <2>4, OutsideOK DEF MuInv, ReturnsOutside
  <2>5. CASE pc'[t] = "unlock_wake"
    BY <2>1, <2>2, <2>5 DEF ThreadOK, LocalsOK, LockLabels, WakeLabels, ScanLabels
  <2>. QED BY <2>3, <2>4, <2>5
<1>. QED BY <1>1, <1>2, <1>3, <1>4, ThreadStep

-----------------------------------------------------------------------------
(* Steps that acquire and release.                                         *)

(* What the operators on the word do to the lock bits.                     *)
LEMMA WordOperators ==
  ASSUME NEW wd, DOMAIN wd = WordFields, NEW mode, NEW slept, NEW longWait
  PROVE  /\ LET a == Acquired(wd, mode, slept, longWait) IN
            /\ DOMAIN a = WordFields
            /\ a.wlock = IF mode = "w" THEN wd.wlock + 1 ELSE wd.wlock
            /\ a.readers = IF mode = "r" THEN (wd.readers + 1) % READER_COUNTS
                           ELSE wd.readers
         /\ LET r == Released(wd, mode) IN
            /\ DOMAIN r = WordFields
            /\ r.wlock = IF mode = "w" THEN wd.wlock - 1 ELSE wd.wlock
            /\ r.readers = IF mode = "r"
                           THEN (wd.readers + (READER_COUNTS - 1)) % READER_COUNTS
                           ELSE wd.readers
         /\ LET q == ReleasedQuietly(wd, mode) IN
            /\ DOMAIN q = WordFields
            /\ q.wlock = IF mode = "w" THEN wd.wlock - 1 ELSE wd.wlock
            /\ q.readers = IF mode = "r"
                           THEN (wd.readers + (READER_COUNTS - 1)) % READER_COUNTS
                           ELSE wd.readers
<1>1. /\ DOMAIN Added(wd, mode) = WordFields
      /\ Added(wd, mode).wlock = IF mode = "w" THEN wd.wlock + 1 ELSE wd.wlock
      /\ Added(wd, mode).readers = IF mode = "r" THEN (wd.readers + 1) % READER_COUNTS
                                   ELSE wd.readers
  BY DEF Added, WordFields
<1>2. /\ DOMAIN Acquired(wd, mode, slept, longWait) = WordFields
      /\ Acquired(wd, mode, slept, longWait).wlock = Added(wd, mode).wlock
      /\ Acquired(wd, mode, slept, longWait).readers = Added(wd, mode).readers
  BY <1>1 DEF Acquired, WordFields
<1>3. /\ DOMAIN Released(wd, mode) = WordFields
      /\ Released(wd, mode).wlock = IF mode = "w" THEN wd.wlock - 1 ELSE wd.wlock
      /\ Released(wd, mode).readers =
           IF mode = "r" THEN (wd.readers + (READER_COUNTS - 1)) % READER_COUNTS
           ELSE wd.readers
  BY DEF Released, WordFields
<1>4. /\ DOMAIN ReleasedQuietly(wd, mode) = WordFields
      /\ ReleasedQuietly(wd, mode).wlock = Released(wd, mode).wlock
      /\ ReleasedQuietly(wd, mode).readers = Released(wd, mode).readers
  BY <1>3 DEF ReleasedQuietly, WordFields
<1>. QED BY <1>1, <1>2, <1>3, <1>4

(* The word next counts one holder in mode more, or less, than wd.         *)
HolderAdded(wd, next, mode) ==
  /\ DOMAIN next = WordFields
  /\ next.wlock = IF mode = "w" THEN wd.wlock + 1 ELSE wd.wlock
  /\ next.readers = IF mode = "r" THEN (wd.readers + 1) % READER_COUNTS ELSE wd.readers

HolderTaken(wd, next, mode) ==
  /\ DOMAIN next = WordFields
  /\ next.wlock = IF mode = "w" THEN wd.wlock - 1 ELSE wd.wlock
  /\ next.readers = IF mode = "r"
                    THEN (wd.readers + (READER_COUNTS - 1)) % READER_COUNTS
                    ELSE wd.readers

(* What acquiring and releasing do to the counts of a word.                *)
LEMMA WordCounts ==
  ASSUME NEW wd, DOMAIN wd = WordFields, NEW mode, NEW slept, NEW longWait
  PROVE  /\ HolderAdded(wd, Acquired(wd, mode, slept, longWait), mode)
         /\ HolderTaken(wd, Released(wd, mode), mode)
         /\ HolderTaken(wd, ReleasedQuietly(wd, mode), mode)
BY WordOperators DEF HolderAdded, HolderTaken

(* Acquiring on a fast path, in mode.                                      *)
LEMMA AcquireNowStep ==
  ASSUME CountingLaws, MuInv, NEW t \in Threads, NEW mode \in LockModes, held[t] = "none",
         NEW next, next \notin MuLabels, AcquireNow(t, mode, next)
  PROVE  MuInv' /\ Abstract!Acquire(t, mode) /\ ~word.longWait
<1>1. /\ ~Blocked(word, mode, FALSE) /\ word' = Acquired(word, mode, FALSE, FALSE)
      /\ held' = [held EXCEPT ![t] = mode] /\ pc' = [pc EXCEPT ![t] = next]
      /\ UNCHANGED <<ret, locking, waking>>
  BY Zenon DEF AcquireNow, Goto
<1>2. word.wlock = 0 /\ (mode = "w" => word.readers = 0) /\ ~word.longWait
  BY <1>1 DEF Blocked
<1>3. CountsHolders(word, held)' /\ Abstract!Acquire(t, mode)
  <2>1. CountsHolders(word, held) /\ DOMAIN word = WordFields
    BY DEF MuInv, CountsHolders
  <2>2. /\ DOMAIN word' = WordFields
        /\ word'.wlock = IF mode = "w" THEN word.wlock + 1 ELSE word.wlock
        /\ word'.readers = IF mode = "r" THEN (word.readers + 1) % READER_COUNTS
                           ELSE word.readers
    <3>1. HolderAdded(word, word', mode)
      BY Zenon, <1>1, <2>1, WordCounts
    <3>. QED BY Zenon, <3>1 DEF HolderAdded
  <2>. QED BY Zenon, <1>1, <1>2, <2>1, <2>2, AcquireCounts
<1>4. OthersWait(t) /\ DOMAIN pc' = Threads
  BY <1>1 DEF OthersWait, MuInv, CountsHolders
<1>5. ThreadOK(pc'[t], held'[t], locking'[t], waking'[t])
  <2>1. pc'[t] = next /\ locking'[t] = locking[t] /\ waking'[t] = waking[t]
    BY <1>1 DEF MuInv
  <2>. QED BY <2>1, LocalsStayOK, OutsideOK
<1>. QED BY Zenon, <1>1, <1>2, <1>3, <1>4, <1>5, ThreadStep DEF MuInv

(* Acquiring in nsync_mu_lock_slow_.                                       *)
LEMMA LockSlowAcquireStep ==
  ASSUME CountingLaws, MuInv, NEW t \in Threads, LockSlowAcquire(t)
  PROVE  /\ MuInv' /\ Abstract!Acquire(t, locking[t].mode) /\ locking[t].mode \in LockModes
         /\ word.longWait => locking[t].slept
<1>. DEFINE l == locking[t]
            longWait == l.waits >= LONG_WAIT_THRESHOLD
<1>1. /\ ~Blocked(word, l.mode, l.slept)
      /\ word' = Acquired(word, l.mode, l.slept, longWait)
      /\ held' = [held EXCEPT ![t] = l.mode] /\ pc' = [pc EXCEPT ![t] = ret[t]]
      /\ locking' = [locking EXCEPT ![t] = NotLocking]
      /\ ret' = [ret EXCEPT ![t] = "client"] /\ UNCHANGED waking
      /\ pc[t] = "lock_slow"
  BY DEF LockSlowAcquire, Return, Goto
<1>2. /\ word.wlock = 0 /\ (l.mode = "w" => word.readers = 0)
      /\ word.longWait => l.slept
  BY <1>1 DEF Blocked
<1>3. l.mode \in LockModes /\ held[t] = "none"
  BY <1>1 DEF MuInv, ThreadOK, LockLabels
<1>4. CountsHolders(word, held)' /\ Abstract!Acquire(t, l.mode)
  <2>1. CountsHolders(word, held) /\ DOMAIN word = WordFields
    BY DEF MuInv, CountsHolders
  <2>2. /\ DOMAIN word' = WordFields
        /\ word'.wlock = IF l.mode = "w" THEN word.wlock + 1 ELSE word.wlock
        /\ word'.readers = IF l.mode = "r" THEN (word.readers + 1) % READER_COUNTS
                           ELSE word.readers
    <3>1. HolderAdded(word, word', l.mode)
      BY Zenon, <1>1, <2>1, WordCounts
    <3>. QED BY Zenon, <3>1 DEF HolderAdded
  <2>. QED BY Zenon, <1>1, <1>2, <1>3, <2>1, <2>2, AcquireCounts
<1>5. /\ OthersWait(t) /\ DOMAIN pc' = Threads /\ DOMAIN locking' = Threads
      /\ ReturnsOutside(ret')
  BY Zenon, <1>1, ReturnKeeps, ClientOutside DEF OthersWait, MuInv, CountsHolders
<1>6. pc'[t] = ret[t] /\ locking'[t] = NotLocking /\ ret[t] \notin MuLabels
  BY <1>1 DEF MuInv, ReturnsOutside
<1>7. ThreadOK(pc'[t], held'[t], locking'[t], waking'[t])
  BY <1>1, <1>6, LocalsStayOK, OutsideOK
<1>. QED BY Zenon, <1>1, <1>2, <1>3, <1>4, <1>5, <1>7, ThreadStep DEF MuInv

(* Releasing on a fast path, in mode.                                      *)
LEMMA ReleaseNowStep ==
  ASSUME CountingLaws, MuInv, NEW t \in Threads, NEW mode \in LockModes, held[t] = mode,
         NEW next, next \notin MuLabels, ReleaseNow(t, mode, next)
  PROVE  MuInv' /\ Abstract!Release(t)
<1>1. /\ word' = ReleasedQuietly(word, mode)
      /\ held' = [held EXCEPT ![t] = "none"] /\ pc' = [pc EXCEPT ![t] = next]
      /\ UNCHANGED <<ret, locking, waking>>
  BY DEF ReleaseNow, Goto
<1>2. CountsHolders(word, held)' /\ Abstract!Release(t)
  <2>1. CountsHolders(word, held) /\ DOMAIN word = WordFields
    BY DEF MuInv, CountsHolders
  <2>2. /\ DOMAIN word' = WordFields
        /\ word'.wlock = IF mode = "w" THEN word.wlock - 1 ELSE word.wlock
        /\ word'.readers = IF mode = "r"
                           THEN (word.readers + (READER_COUNTS - 1)) % READER_COUNTS
                           ELSE word.readers
    <3>1. HolderTaken(word, word', mode)
      BY Zenon, <1>1, <2>1, WordCounts
    <3>. QED BY Zenon, <3>1 DEF HolderTaken
  <2>. QED BY Zenon, <1>1, <2>1, <2>2, ReleaseCounts
<1>3. OthersWait(t) /\ DOMAIN pc' = Threads
  BY <1>1 DEF OthersWait, MuInv, CountsHolders
<1>4. ThreadOK(pc'[t], held'[t], locking'[t], waking'[t])
  <2>1. pc'[t] = next /\ locking'[t] = locking[t] /\ waking'[t] = waking[t]
    BY <1>1 DEF MuInv
  <2>. QED BY <2>1, LocalsStayOK, OutsideOK
<1>. QED BY <1>1, <1>2, <1>3, <1>4, ThreadStep DEF MuInv

(* Releasing in nsync_mu_unlock_slow_ with nobody to wake.                 *)
LEMMA UnlockSlowReleaseStep ==
  ASSUME CountingLaws, MuInv, NEW t \in Threads, UnlockSlowRelease(t)
  PROVE  MuInv' /\ Abstract!Release(t)
<1>. DEFINE mode == waking[t].mode
<1>1. /\ word' = ReleasedQuietly(word, mode) /\ pc[t] = "unlock_slow"
      /\ held' = [held EXCEPT ![t] = "none"] /\ pc' = [pc EXCEPT ![t] = ret[t]]
      /\ waking' = [waking EXCEPT ![t] = NotWaking]
      /\ ret' = [ret EXCEPT ![t] = "client"] /\ UNCHANGED locking
  BY DEF UnlockSlowRelease, Return, Goto
<1>2. mode \in LockModes /\ held[t] = mode
  BY <1>1 DEF MuInv, ThreadOK
<1>3. CountsHolders(word, held)' /\ Abstract!Release(t)
  <2>1. CountsHolders(word, held) /\ DOMAIN word = WordFields
    BY DEF MuInv, CountsHolders
  <2>2. /\ DOMAIN word' = WordFields
        /\ word'.wlock = IF mode = "w" THEN word.wlock - 1 ELSE word.wlock
        /\ word'.readers = IF mode = "r"
                           THEN (word.readers + (READER_COUNTS - 1)) % READER_COUNTS
                           ELSE word.readers
    <3>1. HolderTaken(word, word', mode)
      BY Zenon, <1>1, <2>1, WordCounts
    <3>. QED BY Zenon, <3>1 DEF HolderTaken
  <2>. QED BY Zenon, <1>1, <1>2, <2>1, <2>2, ReleaseCounts
<1>4. /\ OthersWait(t) /\ DOMAIN pc' = Threads /\ DOMAIN waking' = Threads
      /\ ReturnsOutside(ret')
  BY Zenon, <1>1, ReturnKeeps, ClientOutside DEF OthersWait, MuInv, CountsHolders
<1>5. /\ pc'[t] = ret[t] /\ ret[t] \notin MuLabels
      /\ waking'[t] = NotWaking /\ locking'[t] = locking[t]
  BY <1>1 DEF MuInv, ReturnsOutside
<1>6. ThreadOK(pc'[t], held'[t], locking'[t], waking'[t])
  BY <1>5, LocalsStayOK, OutsideOK
<1>. QED BY Zenon, <1>1, <1>3, <1>4, <1>6, ThreadStep DEF MuInv

(* The end of nsync_mu_unlock_slow_ releases a lock that it kept so far.   *)
LEMMA UnlockSlowFinishStep ==
  ASSUME CountingLaws, MuInv, NEW t \in Threads, UnlockSlowFinish(t)
  PROVE  MuInv' /\ (Abstract!Release(t) \/ UNCHANGED held)
<1>. DEFINE s == waking[t]
            woken == [NotWaking EXCEPT !.wake = s.wake]
<1>1. /\ word' = FinalWord(s) /\ pc[t] = "unlock_scan"
      /\ held' = [held EXCEPT ![t] = "none"]
      /\ waking' = [waking EXCEPT ![t] = woken] /\ UNCHANGED locking
      /\ \/ pc' = [pc EXCEPT ![t] = ret[t]] /\ ret' = [ret EXCEPT ![t] = "client"]
         \/ pc' = [pc EXCEPT ![t] = "unlock_wake"] /\ UNCHANGED ret
  BY DEF UnlockSlowFinish, Return, Goto
<1>2. held[t] = IF s.late THEN "w" ELSE "none"
  BY <1>1 DEF MuInv, ThreadOK, ScanLabels
<1>3. CountsHolders(word, held)' /\ (Abstract!Release(t) \/ UNCHANGED held)
  <2>1. CountsHolders(word, held) /\ DOMAIN word = WordFields
    BY DEF MuInv, CountsHolders
  <2>2. /\ DOMAIN word' = WordFields
        /\ word'.wlock = IF s.late THEN word.wlock - 1 ELSE word.wlock
        /\ word'.readers = word.readers
    BY <1>1, <2>1 DEF FinalWord, WordFields
  <2>3. CASE s.late
    BY Zenon, <1>1, <1>2, <2>1, <2>2, <2>3, ReleaseCounts DEF LockModes
  <2>4. CASE ~s.late
    <3>1. held' = held
      BY <1>1, <1>2, <2>1, <2>4 DEF CountsHolders
    <3>. QED BY <2>1, <2>2, <2>4, <3>1 DEF CountsHolders
  <2>. QED BY <2>3, <2>4
<1>4. /\ OthersWait(t) /\ DOMAIN pc' = Threads /\ DOMAIN waking' = Threads
      /\ ReturnsOutside(ret')
  BY <1>1, ReturnKeeps, ClientOutside DEF OthersWait, MuInv, CountsHolders
<1>5. /\ pc'[t] \in {ret[t], "unlock_wake"} /\ waking'[t] = woken
      /\ locking'[t] = locking[t] /\ held'[t] = "none" /\ ret[t] \notin MuLabels
  BY <1>1 DEF MuInv, CountsHolders, ReturnsOutside
<1>6. ThreadOK(pc'[t], held'[t], locking'[t], waking'[t])
  <2>1. DOMAIN woken = DOMAIN NotWaking /\ woken.mode \in LockModes
    BY DEF NotWaking, LockModes
  <2>. HIDE DEF woken
  <2>2. CASE pc'[t] = ret[t]
    <3>1. LocalsOK(locking[t], woken)
      BY <2>1, LocalsStayOK DEF LocalsOK
    <3>. QED BY <1>5, <2>2, <3>1, OutsideOK
  <2>3. CASE pc'[t] = "unlock_wake"
    BY <1>5, <2>1, <2>3 DEF MuInv, ThreadOK, LockLabels, WakeLabels, ScanLabels
  <2>. QED BY <1>5, <2>2, <2>3
<1>. QED BY <1>1, <1>3, <1>4, <1>6, ThreadStep DEF MuInv

(* Taking the spinlock in nsync_mu_unlock_slow_ releases the lock, or turns*)
(* it into a write lock while conditions are tested.                       *)
LEMMA UnlockSlowSpinlockStep ==
  ASSUME CountingLaws, MuInv, NEW t \in Threads, UnlockSlowSpinlock(t)
  PROVE  MuInv' /\ (Abstract!Release(t) \/ Abstract!Promote(t) \/ UNCHANGED held)
<1>. DEFINE s == waking[t]
            released == Released(word, s.mode)
            testing == word.condition
<1>1. /\ pc[t] = "unlock_slow" /\ ~NobodyToWake
      /\ word' = [released EXCEPT !.spin = TRUE, !.desig = TRUE,
                                  !.wlock = IF testing THEN @ + 1 ELSE @]
      /\ held' = [held EXCEPT ![t] = IF testing THEN "w" ELSE "none"]
      /\ waking' = [waking EXCEPT ![t].testing = testing, ![t].late = testing,
                                  ![t].new = waiters]
      /\ pc' = [pc EXCEPT ![t] = "unlock_scan"]
      /\ UNCHANGED <<ret, locking>>
  BY DEF UnlockSlowSpinlock, Goto
<1>2. s.mode \in LockModes /\ held[t] = s.mode /\ DOMAIN s = DOMAIN NotWaking
  BY <1>1 DEF MuInv, ThreadOK
<1>3. /\ CountsHolders(word, held)'
      /\ Abstract!Release(t) \/ Abstract!Promote(t) \/ UNCHANGED held
  <2>1. CountsHolders(word, held) /\ DOMAIN word = WordFields
    BY DEF MuInv, CountsHolders
  <2>2. /\ DOMAIN released = WordFields
        /\ released.wlock = IF s.mode = "w" THEN word.wlock - 1 ELSE word.wlock
        /\ released.readers = IF s.mode = "r"
                              THEN (word.readers + (READER_COUNTS - 1)) % READER_COUNTS
                              ELSE word.readers
    <3>1. HolderTaken(word, released, s.mode)
      BY Zenon, <2>1, WordCounts
    <3>. QED BY Zenon, <3>1 DEF HolderTaken
  <2>3. /\ DOMAIN word' = WordFields
        /\ word'.wlock = IF testing THEN released.wlock + 1 ELSE released.wlock
        /\ word'.readers = released.readers
    BY <1>1, <2>2 DEF WordFields
  <2>4. CASE ~testing
    BY Zenon, <1>1, <1>2, <2>1, <2>2, <2>3, <2>4, ReleaseCounts
  <2>5. CASE testing /\ s.mode = "r"
    <3>1. ~(word.readers > 1)
      BY <1>1 DEF NobodyToWake
    <3>. QED BY Zenon, <1>1, <1>2, <2>1, <2>2, <2>3, <2>5, <3>1, PromoteCounts
  <2>6. CASE testing /\ s.mode = "w"
    <3>1. held' = held
      BY <1>1, <1>2, <2>1, <2>6 DEF CountsHolders
    <3>2. word.wlock \in Nat
      BY <2>1 DEF CountsHolders, CountingLaws, HoldersCountLaw
    <3>3. word'.wlock = word.wlock /\ word'.readers = word.readers
      BY <2>2, <2>3, <2>6, <3>2
    <3>. QED BY <2>1, <2>3, <3>1, <3>3 DEF CountsHolders
  <2>. QED BY <1>2, <2>4, <2>5, <2>6 DEF LockModes
<1>4. /\ OthersWait(t) /\ DOMAIN pc' = Threads /\ DOMAIN waking' = Threads
  BY <1>1 DEF OthersWait, MuInv, CountsHolders
<1>5. /\ pc'[t] = "unlock_scan" /\ locking'[t] = locking[t]
      /\ held'[t] = IF testing THEN "w" ELSE "none"
  BY <1>1 DEF MuInv, CountsHolders
<1>6. /\ DOMAIN waking'[t] = DOMAIN NotWaking
      /\ waking'[t].mode = s.mode /\ waking'[t].late = testing
  <2>1. DOMAIN waking = Threads
    BY DEF MuInv
  <2>. QED BY <1>1, <1>2, <2>1 DEF NotWaking
<1>7. ThreadOK(pc'[t], held'[t], locking'[t], waking'[t])
  BY <1>2, <1>5, <1>6 DEF MuInv, ThreadOK, LockLabels, WakeLabels, ScanLabels
<1>. QED BY <1>1, <1>3, <1>4, <1>7, ThreadStep DEF MuInv

(* The checks of nsync_mu_unlock and nsync_mu_runlock pass for a holder:   *)
(* whatever other threads do, its own unlock never panics.                 *)
LEMMA UnlockChecksPass ==
  ASSUME CountingLaws, MuInv, NEW t \in Threads, held[t] # "none"
  PROVE  /\ held[t] = "w" => ~(word.wlock = 0 \/ word.readers # 0)
         /\ held[t] = "r" => ~(word.wlock # 0 /\ word.readers = 0)
<1>1. CountsHolders(word, held)
  BY DEF MuInv
<1>2. ASSUME held[t] = "w" PROVE word.wlock # 0 /\ word.readers = 0
  <2>1. word.wlock # 0
    BY <1>1, <1>2 DEF CountsHolders, CountingLaws, HoldersCountLaw
  <2>2. \A u \in Threads : held[u] # "r"
    BY <1>1, <1>2 DEF CountsHolders
  <2>3. word.readers = 0
    BY <1>1, <2>2 DEF CountsHolders, CountingLaws, HoldersCountLaw
  <2>. QED BY <2>1, <2>3
<1>3. ASSUME held[t] = "r" PROVE word.readers # 0
  BY <1>1, <1>3 DEF CountsHolders, CountingLaws, HoldersCountLaw
<1>. QED BY <1>2, <1>3

(* A step of one thread that the abstract lock allows, and that overtakes  *)
(* no long waiter.                                                         *)
LockStep ==
  \/ UNCHANGED held
  \/ \E t \in Threads :
       \/ Abstract!Release(t) \/ Abstract!Promote(t) \/ Abstract!Demote(t)
       \/ \E mode \in LockModes :
            Abstract!Acquire(t, mode) /\ (word.longWait => locking[t].slept)

Overtakes(t) ==
  held[t] = "none" /\ held'[t] # "none" /\ word.longWait /\ ~locking[t].slept

(* What such a step is to a user of the lock.                              *)
LEMMA LockStepAllowed ==
  ASSUME DOMAIN held = Threads, LockStep
  PROVE  [Abstract!Next]_held /\ \A t \in Threads : ~Overtakes(t)
<1>1. [Abstract!Next]_held
  BY DEF LockStep, LockModes, Abstract!Next
<1>2. CASE UNCHANGED held
  BY <1>2 DEF Overtakes
<1>3. ASSUME NEW t \in Threads, NEW u \in Threads, Overtakes(u), NEW m,
             m = "none" \/ held[t] # "none" \/ (word.longWait => locking[t].slept),
             held' = [held EXCEPT ![t] = m]
      PROVE  FALSE
  BY <1>3 DEF Overtakes
<1>. QED BY <1>1, <1>2, <1>3
       DEF LockStep, Abstract!Release, Abstract!Promote, Abstract!Demote, Abstract!Acquire

(* Locking on a fast path or entering the slow one.                        *)
LEMMA LockBodyStep ==
  ASSUME CountingLaws, MuInv, NEW t \in Threads, NEW mode \in LockModes, held[t] = "none",
         NEW next, next \notin MuLabels, LockBody(t, mode, next)
  PROVE  MuInv' /\ LockStep
<1>1. CASE AcquireNow(t, mode, next)
  BY <1>1, AcquireNowStep DEF LockStep
<1>2. CASE EnterLockSlow(t, mode, FALSE, next)
  BY Zenon, <1>2, EnterLockSlowStep DEF LockStep
<1>. QED BY Zenon, <1>1, <1>2 DEF LockBody

(* A step inside lock or unlock keeps the invariant.                       *)
LEMMA MuStepStep ==
  ASSUME CountingLaws, MuInv, NEW t \in Threads, MuStep(t)
  PROVE  MuInv' /\ LockStep
<1>1. CASE LockSlowAcquire(t)
  BY <1>1, LockSlowAcquireStep DEF LockStep
<1>2. CASE UnlockSlowRelease(t)
  BY <1>2, UnlockSlowReleaseStep DEF LockStep
<1>3. CASE UnlockSlowSpinlock(t)
  BY <1>3, UnlockSlowSpinlockStep DEF LockStep
<1>4. CASE UnlockSlowFinish(t)
  BY <1>4, UnlockSlowFinishStep DEF LockStep
<1>5. CASE LockSlowSpinlock(t) \/ LockSlowQueue(t) \/ LockSlowWait(t) \/ LockSlowP(t)
  BY <1>5, LockSlowSpinlockStep, LockSlowQueueStep, LockSlowWaitStep, LockSlowPStep
  DEF LockStep
<1>6. CASE UnlockSlowScan(t)
  BY <1>6, UnlockSlowScanStep DEF LockStep
<1>7. CASE UnlockSlowWake(t) \/ UnlockSlowV(t)
  BY <1>7, UnlockSlowWakeStep, UnlockSlowVStep DEF LockStep
<1>. QED BY <1>1, <1>2, <1>3, <1>4, <1>5, <1>6, <1>7 DEF MuStep

(* Unlocking, in the mode that is held.                                    *)
LEMMA UnlockBodyStep ==
  ASSUME CountingLaws, MuInv, NEW t \in Threads, held[t] \in LockModes,
         NEW next, next \notin MuLabels, UnlockBody(t, held[t], next)
  PROVE  MuInv' /\ LockStep
<1>1. CASE ReleaseNow(t, held[t], next)
  BY <1>1, ReleaseNowStep DEF LockStep
<1>2. CASE EnterUnlockSlow(t, held[t], next)
  BY <1>2, EnterUnlockSlowStep DEF LockStep
<1>. QED BY <1>1, <1>2, UnlockChecksPass
       DEF UnlockBody, WriterUnlockBody, ReaderUnlockBody, LockModes

(* Every step keeps the invariant and is a step of the abstract lock.      *)
LEMMA NextStep ==
  ASSUME CountingLaws, MuInv, [Next]_muVars
  PROVE  MuInv' /\ LockStep
<1>1. CASE UNCHANGED muVars
  BY <1>1 DEF muVars, MuInv, CountsHolders, LockStep
<1>2. ASSUME NEW t \in Threads, NEW mode \in Modes, Lock(t, mode)
      PROVE  MuInv' /\ LockStep
  <2>1. mode \in LockModes /\ held[t] = "none"
    BY <1>2, NsyncMuConstants DEF LockModes, Lock, StartsCall
  <2>. QED BY Zenon, <1>2, <2>1, LockBodyStep, ClientOutside DEF Lock
<1>3. ASSUME NEW t \in Threads, NEW mode \in Modes, TryLock(t, mode)
      PROVE  MuInv' /\ LockStep
  <2>1. mode \in LockModes /\ held[t] = "none"
    BY Zenon, <1>3, NsyncMuConstants DEF LockModes, TryLock, StartsCall
  <2>2. CASE AcquireNow(t, mode, "client")
    BY <2>1, <2>2, AcquireNowStep, ClientOutside DEF LockStep
  <2>3. CASE UNCHANGED <<word, waiters, waiter, pc, ret, held, locking, waking, truth>>
    BY <2>3 DEF MuInv, CountsHolders, LockStep
  <2>. QED BY <1>3, <2>2, <2>3 DEF TryLock
<1>4. ASSUME NEW t \in Threads, Unlock(t) PROVE MuInv' /\ LockStep
  <2>1. held[t] \in LockModes
    BY <1>4 DEF Unlock, MuInv, CountsHolders, HeldModes, LockModes
  <2>. QED BY <1>4, <2>1, UnlockBodyStep, ClientOutside DEF Unlock
<1>5. ASSUME NEW t \in Threads, MuStep(t) PROVE MuInv' /\ LockStep
  BY <1>5, MuStepStep
<1>6. CASE Terminated
  BY <1>1, <1>6 DEF Terminated
<1>. QED BY <1>1, <1>2, <1>3, <1>4, <1>5, <1>6 DEF Next

-----------------------------------------------------------------------------
(* What the invariant and a step of a thread give the users of the mutex.  *)
LEMMA AllowedStep ==
  MuInv /\ LockStep =>
    /\ [Abstract!Next]_(Abstract!monitorVars)
    /\ \A t \in Threads :
         held[t] = "none" /\ held'[t] # "none" /\ word.longWait => locking[t].slept
<1>. SUFFICES ASSUME MuInv, LockStep
              PROVE  /\ [Abstract!Next]_(Abstract!monitorVars)
                     /\ \A t \in Threads : ~Overtakes(t)
  BY DEF Overtakes
<1>1. DOMAIN held = Threads
  BY DEF MuInv, CountsHolders
<1>. QED BY <1>1, LockStepAllowed DEF Abstract!monitorVars

-----------------------------------------------------------------------------
(* The scan of the queue.                                                  *)

WakeState ==
  [mode : LockModes, testing : BOOLEAN, late : BOOLEAN, new : Seq(Threads),
   kept : Seq(Threads), wake : Seq(Threads), wakeType : HeldModes,
   writerWaiting : BOOLEAN, allFalse : BOOLEAN]

WaiterState ==
  [waiting : BOOLEAN, sem : Nat, removed : BOOLEAN, lType : LockModes,
   cond : Conditions \cup {NoCondition}, cvMu : BOOLEAN]

(* What the scan does with a waiter: it goes to the end of one list.       *)
Placed(s, s2, p) ==
  /\ s2 \in WakeState /\ s2.new = s.new
  /\ \/ s2.kept = Append(s.kept, p) /\ s2.wake = s.wake /\ s2.wakeType = s.wakeType
     \/ /\ s2.wake = Append(s.wake, p) /\ s2.kept = s.kept
        /\ s2.wakeType = waiter[p].lType /\ s2.allFalse = s.allFalse

(* A waiter that the scan considers is kept or woken.                      *)
LEMMA ConsiderPlaces ==
  ASSUME NEW s \in WakeState, NEW p \in Threads, waiter[p].lType \in LockModes
  PROVE  Placed(s, Consider(s, p), p)
<1>. DEFINE w == waiter[p]
            k == Append(s.kept, p)
            k2 == Append(s.wake, p)
<1>0. k \in Seq(Threads) /\ k2 \in Seq(Threads)
  BY DEF WakeState
<1>. HIDE DEF k, k2
<1>1. ASSUME NEW a \in BOOLEAN, NEW v \in BOOLEAN,
             Consider(s, p) = [s EXCEPT !.kept = k, !.writerWaiting = v, !.allFalse = a]
      PROVE  Placed(s, Consider(s, p), p)
  BY Zenon, <1>0, <1>1 DEF Placed, WakeState, k
<1>2. ASSUME Consider(s, p) = [s EXCEPT !.wake = k2, !.wakeType = w.lType]
      PROVE  Placed(s, Consider(s, p), p)
  BY Zenon, <1>0, <1>2 DEF Placed, WakeState, k2, HeldModes, LockModes
<1>3. CASE s.wakeType = "w"
  <2>1. Consider(s, p) = [s EXCEPT !.kept = k, !.allFalse = FALSE]
    BY <1>3 DEF Consider, k
  <2>2. Consider(s, p) = [s EXCEPT !.kept = k, !.writerWaiting = s.writerWaiting, !.allFalse = FALSE]
    BY Zenon, <2>1 DEF WakeState
  <2>. QED BY Zenon, <1>1, <2>2 DEF WakeState
<1>4. CASE s.wakeType # "w" /\ w.cond # NoCondition /\ w.cond \notin truth
  <2>1. Consider(s, p) = [s EXCEPT !.kept = k]
    BY <1>4 DEF Consider, k
  <2>2. Consider(s, p) = [s EXCEPT !.kept = k, !.writerWaiting = s.writerWaiting, !.allFalse = s.allFalse]
    BY Zenon, <2>1 DEF WakeState
  <2>. QED BY Zenon, <1>1, <2>2 DEF WakeState
<1>5. CASE /\ s.wakeType # "w" /\ ~(w.cond # NoCondition /\ w.cond \notin truth)
           /\ s.wakeType = "none" \/ w.lType = "r"
  BY <1>2, <1>5 DEF Consider, k2
<1>6. CASE /\ s.wakeType # "w" /\ ~(w.cond # NoCondition /\ w.cond \notin truth)
           /\ ~(s.wakeType = "none" \/ w.lType = "r")
  <2>1. Consider(s, p) = [s EXCEPT !.kept = k, !.writerWaiting = TRUE, !.allFalse = FALSE]
    BY <1>6 DEF Consider, k
  <2>. QED BY Zenon, <1>1, <2>1
<1>. QED BY <1>3, <1>4, <1>5, <1>6

(* The loop over the new waiters does one step for each.                   *)
Loops(s, after) ==
  /\ after \in [0 .. Len(s.new) -> WakeState]
  /\ after[0] = s
  /\ \A i \in 1 .. Len(s.new) : after[i] = Consider(after[i - 1], s.new[i])

(* The loop of nsync_mu_unlock_slow_ is well defined.                      *)
LEMMA ConsideredLoops ==
  ASSUME CountingLaws, NEW s \in WakeState, \A p \in Threads : waiter[p].lType \in LockModes
  PROVE  Loops(s, Considered(s))
<1>. DEFINE n == Len(s.new)
            Step(i, st) == IF i \in 1 .. n THEN Consider(st, s.new[i]) ELSE st
            F == [x \in Nat \X WakeState |-> Step(x[1] + 1, x[2])]
<1>0. n \in Nat /\ \A i \in 1 .. n : s.new[i] \in Threads
  BY DEF WakeState
<1>. HIDE DEF n
<1>1. \A i \in Nat : \A st \in WakeState : Step(i, st) \in WakeState
  <2>1. \A i \in 1 .. n : \A st \in WakeState : Consider(st, s.new[i]) \in WakeState
    BY <1>0, ConsiderPlaces DEF Placed
  <2>. QED BY <2>1
<1>2. F \in [Nat \X WakeState -> WakeState]
  <2>1. ASSUME NEW x \in Nat \X WakeState PROVE Step(x[1] + 1, x[2]) \in WakeState
    BY <1>1
  <2>. QED BY <2>1
<1>3. \A i \in Nat : \A st \in WakeState : F[<<i, st>>] = Step(i + 1, st)
  OBVIOUS
<1>. HIDE DEF F
<1>4. PICK f \in [Nat -> WakeState] :
        f[0] = s /\ \A i \in Nat : f[i + 1] = F[<<i, f[i]>>]
  <2>1. PICK f : Iterates(f, WakeState, s, F)
    BY <1>2 DEF CountingLaws, RecursionExistsLaw
  <2>. QED BY Zenon, <2>1 DEF Iterates
<1>5. /\ f \in [Nat -> WakeState] /\ f[0] = s
      /\ \A i \in Nat : f[i + 1] = Step(i + 1, f[i])
  BY Zenon, <1>3, <1>4
<1>6. \A i \in 1 .. n : f[i] = Consider(f[i - 1], s.new[i])
  <2>1. ASSUME NEW i \in 1 .. n PROVE f[i] = Consider(f[i - 1], s.new[i])
    <3>1. i - 1 \in Nat /\ (i - 1) + 1 = i
      BY <1>0
    <3>2. f[(i - 1) + 1] = Step((i - 1) + 1, f[i - 1])
      BY <1>5, <3>1
    <3>. QED BY <3>1, <3>2
  <2>. QED BY <2>1
<1>. DEFINE g == [i \in 0 .. n |-> f[i]]
            Rec(a) == [i \in 0 .. n |-> IF i = 0 THEN s ELSE Consider(a[i - 1], s.new[i])]
<1>7. g = Rec(g)
  <2>1. ASSUME NEW i \in 0 .. n
        PROVE  f[i] = IF i = 0 THEN s ELSE Consider(g[i - 1], s.new[i])
    BY <1>0, <1>5, <1>6
  <2>. QED BY <2>1
<1>8. Considered(s) = CHOOSE a : a = Rec(a)
  BY DEF Considered, n
<1>9. Considered(s) = Rec(Considered(s))
  <2>1. \E a : a = Rec(a)
    BY Zenon, <1>7
  <2>. QED BY Zenon, <1>8, <2>1
<1>. DEFINE c == Considered(s)
<1>10. /\ DOMAIN c = 0 .. n /\ c[0] = s
       /\ \A i \in 1 .. n : c[i] = Consider(c[i - 1], s.new[i])
  <2>. HIDE DEF c
  <2>1. c = Rec(c)
    BY Zenon, <1>9 DEF c
  <2>2. \A i \in 0 .. n : c[i] = IF i = 0 THEN s ELSE Consider(c[i - 1], s.new[i])
    BY Zenon, <2>1
  <2>. QED BY <1>0, <2>1, <2>2
<1>. HIDE DEF c
<1>11. \A i \in 0 .. n : c[i] \in WakeState
  <2>. DEFINE T == {i \in Nat : i <= n => c[i] \in WakeState}
  <2>1. 0 \in T
    BY <1>10
  <2>2. ASSUME NEW i \in T PROVE i + 1 \in T
    <3>1. CASE i + 1 <= n
      <4>1. i + 1 \in 1 .. n /\ (i + 1) - 1 = i /\ c[i] \in WakeState
        BY <1>0, <3>1
      <4>2. c[i + 1] = Consider(c[i], s.new[i + 1])
        BY <1>10, <4>1
      <4>. QED BY <1>1, <4>1, <4>2
    <3>. QED BY <3>1
  <2>3. T = Nat
    <3>. HIDE DEF T
    <3>1. T \in SUBSET Nat
      BY DEF T
    <3>. QED BY <2>1, <2>2, <3>1 DEF CountingLaws, InductiveSetLaw
  <2>. QED BY <1>0, <2>3
<1>12. c \in [0 .. n -> WakeState]
  <2>1. c = [i \in 0 .. n |-> c[i]]
    BY Zenon, <1>9 DEF c
  <2>. QED BY <1>11, <2>1
<1>. QED BY <1>10, <1>12 DEF Loops, c, n

(* The loop conserves the waiters it considers, and forgets none it found. *)
Conserves(s, s2) ==
  \A q \in Threads :
    Times(s2.kept, q) + Times(s2.wake, q) =
      Times(s.kept, q) + Times(s.wake, q) + Times(s.new, q)

(* A scan moves every new waiter to one of its lists, once.                *)
LEMMA ExamineConserves ==
  ASSUME CountingLaws, NEW s \in WakeState, \A p \in Threads : waiter[p].lType \in LockModes
  PROVE  /\ Examine(s) \in WakeState
         /\ Examine(s).new = <<>> /\ Examine(s).mode = s.mode
         /\ Examine(s).late = s.late /\ Examine(s).testing = s.testing
         /\ Conserves(s, Examine(s))
<1>. DEFINE n == Len(s.new)
            c == Considered(s)
            e == c[n]
<1>1. Loops(s, c)
  BY ConsideredLoops
<1>. HIDE DEF c
<1>2. n \in Nat /\ s.new \in Seq(Threads) /\ \A i \in 1 .. n : s.new[i] \in Threads
  BY DEF WakeState
<1>3. e \in WakeState /\ c[0] = s
  BY <1>1, <1>2 DEF Loops
<1>4. Examine(s) = [s EXCEPT !.new = <<>>, !.kept = e.kept, !.wake = e.wake,
                             !.wakeType = e.wakeType, !.allFalse = e.allFalse,
                             !.writerWaiting = e.writerWaiting]
  BY DEF Examine, c
<1>5. /\ Examine(s) \in WakeState /\ Examine(s).new = <<>> /\ Examine(s).mode = s.mode
      /\ Examine(s).late = s.late /\ Examine(s).testing = s.testing
      /\ Examine(s).kept = e.kept /\ Examine(s).wake = e.wake
  <2>. HIDE DEF e
  <2>1. /\ e.kept \in Seq(Threads) /\ e.wake \in Seq(Threads)
        /\ e.wakeType \in HeldModes /\ e.allFalse \in BOOLEAN
        /\ e.writerWaiting \in BOOLEAN /\ <<>> \in Seq(Threads)
    BY <1>3 DEF WakeState
  <2>2. Examine(s) \in WakeState
    BY Zenon, <1>4, <2>1 DEF WakeState
  <2>. QED BY <1>4, <2>2 DEF WakeState
<1>6. ASSUME NEW q \in Threads
      PROVE  Times(e.kept, q) + Times(e.wake, q) =
               Times(s.kept, q) + Times(s.wake, q) + Times(s.new, q)
  <2>. DEFINE Sum(i) == Times(c[i].kept, q) + Times(c[i].wake, q)
              T == {i \in Nat : i <= n =>
                      Sum(i) = Sum(0) + Times(SubSeq(s.new, 1, i), q)}
  <2>0. \A i \in 0 .. n : /\ c[i].kept \in Seq(Threads) /\ c[i].wake \in Seq(Threads)
                           /\ Times(c[i].kept, q) \in Nat /\ Times(c[i].wake, q) \in Nat
    <3>1. \A i \in 0 .. n : c[i].kept \in Seq(Threads) /\ c[i].wake \in Seq(Threads)
      BY <1>1 DEF Loops, WakeState
    <3>. QED BY <3>1 DEF CountingLaws, PositionsFiniteLaw
  <2>1. 0 \in T
    <3>1. SubSeq(s.new, 1, 0) = <<>>
      BY <1>2
    <3>2. Times(SubSeq(s.new, 1, 0), q) = 0
      BY Zenon, <3>1 DEF CountingLaws, TimesEmptyLaw
    <3>3. Sum(0) \in Nat
      BY <1>2, <2>0
    <3>. HIDE DEF Sum
    <3>. QED BY <3>2, <3>3
  <2>2. ASSUME NEW i \in T PROVE i + 1 \in T
    <3>1. CASE i + 1 <= n
      <4>. DEFINE p == s.new[i + 1]
                  a == c[i]
                  b == c[i + 1]
                  l == SubSeq(s.new, 1, i)
      <4>1. i \in Nat /\ i + 1 \in 1 .. n /\ i \in 0 .. n /\ (i + 1) - 1 = i
              /\ i + 1 \in 0 .. n
        BY <1>2, <3>1
      <4>2. p \in Threads /\ b = Consider(a, p) /\ a \in WakeState
        BY <1>1, <1>2, <4>1 DEF Loops
      <4>3. Placed(a, b, p)
        BY <4>2, ConsiderPlaces
      <4>4. SubSeq(s.new, 1, i + 1) = Append(l, p) /\ l \in Seq(Threads)
        BY <1>2, <4>1
      <4>5. Times(Append(l, p), q) = Times(l, q) + One(p, q)
              /\ Times(l, q) \in Nat
        BY Zenon, <4>2, <4>4 DEF CountingLaws, TimesQueuedLaw, PositionsFiniteLaw
      <4>6. Sum(i) = Sum(0) + Times(l, q)
        BY <4>1
      <4>7. Sum(i + 1) = Sum(i) + One(p, q)
        <5>. HIDE DEF p, a, b
        <5>1. /\ a.kept \in Seq(Threads) /\ a.wake \in Seq(Threads)
              /\ Times(a.kept, q) \in Nat /\ Times(a.wake, q) \in Nat
          BY Zenon, <2>0, <4>1 DEF a
        <5>2. /\ Times(Append(a.kept, p), q) = Times(a.kept, q) + One(p, q)
              /\ Times(Append(a.wake, p), q) = Times(a.wake, q) + One(p, q)
          <6>1. p \in Threads
            BY <4>2
          <6>. QED BY Zenon, <6>1, <5>1 DEF CountingLaws, TimesQueuedLaw
        <5>3. \/ b.kept = Append(a.kept, p) /\ b.wake = a.wake
              \/ b.wake = Append(a.wake, p) /\ b.kept = a.kept
          BY <4>3 DEF Placed
        <5>4. Times(b.kept, q) + Times(b.wake, q) =
                Times(a.kept, q) + Times(a.wake, q) + One(p, q)
          <6>1. CASE b.kept = Append(a.kept, p) /\ b.wake = a.wake
            BY <5>1, <5>2, <6>1 DEF One
          <6>2. CASE b.wake = Append(a.wake, p) /\ b.kept = a.kept
            BY <5>1, <5>2, <6>2 DEF One
          <6>. QED BY <5>3, <6>1, <6>2
        <5>. QED BY <5>4 DEF a, b
      <4>8. Sum(0) \in Nat
        BY <1>2, <2>0
      <4>9. Times(SubSeq(s.new, 1, i + 1), q) = Times(l, q) + One(p, q)
        BY Zenon, <4>4, <4>5
      <4>10. Sum(i + 1) = Sum(0) + Times(SubSeq(s.new, 1, i + 1), q)
        <5>. HIDE DEF Sum, l, p
        <5>. QED BY <4>5, <4>6, <4>7, <4>8, <4>9 DEF One
      <4>. HIDE DEF Sum
      <4>. QED BY <4>1, <4>10
    <3>2. CASE ~(i + 1 <= n)
      <4>. HIDE DEF Sum
      <4>. QED BY <3>2
    <3>. QED BY <3>1, <3>2
  <2>3. T = Nat
    <3>. HIDE DEF T
    <3>1. T \in SUBSET Nat
      BY DEF T
    <3>. QED BY <2>1, <2>2, <3>1 DEF CountingLaws, InductiveSetLaw
  <2>4. Sum(n) = Sum(0) + Times(SubSeq(s.new, 1, n), q)
    BY <1>2, <2>3
  <2>5. SubSeq(s.new, 1, n) = s.new
    BY <1>2
  <2>6. Sum(n) = Sum(0) + Times(s.new, q)
    <3>. HIDE DEF Sum
    <3>. QED BY Zenon, <2>4, <2>5
  <2>7. Sum(0) = Times(s.kept, q) + Times(s.wake, q)
    BY <1>3
  <2>8. Times(s.kept, q) \in Nat /\ Times(s.wake, q) \in Nat
    BY <1>3, <2>0, <1>2
  <2>. QED BY <2>6, <2>7
<1>. QED BY <1>5, <1>6 DEF Conserves

-----------------------------------------------------------------------------
(* The inductive invariant of the queue.                                   *)

(* A waiter is marked as waiting before it is queued.                      *)
Unlisted == {"wait_spin", "wait_queue", "cv_enqueue", "cv_queue"}

(* How often the waiter of p must be listed.                               *)
Due(p) == IF waiter[p].waiting /\ pc[p] \notin Unlisted THEN 1 ELSE 0

(* Where a thread owns the spinlock; a scan that panics never lets it go.  *)
SpinLabels == {"lock_queue", "unlock_scan", "wait_queue", "wait_confirm", "cv_move"}

SpinOwner(label, s) == label \in SpinLabels \/ (label = "panic" /\ s.new # <<>>)

(* Where lock and unlock never return to.                                  *)
Afar == Unlisted \cup SpinLabels \cup {"panic"}

(* Where the waiter of a thread may be marked as waiting.                  *)
MayWait(label, r) ==
  \/ label \in ParkedLabels \cup Unlisted \cup {"cv_unlock", "panic"}
  \/ label \in UnlockLabels /\ r \in ParkedLabels

NoLists(s) == s.new = <<>> /\ s.kept = <<>> /\ s.wake = <<>>

(* What a thread's place in the code says about its lists and its waiter.  *)
QueueThreadOK(label, r, s, w) ==
  /\ s \in WakeState /\ w \in WaiterState
  /\ r \notin Afar
  /\ w.waiting => MayWait(label, r)
  /\ label \notin ScanLabels \cup WakeLabels \cup {"panic"} => NoLists(s)
  /\ label = "unlock_respin" => s.new = <<>>
  /\ label = "panic" /\ s.new = <<>> => NoLists(s)
  /\ label \in WakeLabels => s.new = <<>> /\ s.kept = <<>> /\ s.wake # <<>>
  /\ label \in {"unlock_test", "unlock_respin"} \/ s.testing => s.late

OneOwner ==
  \A t \in Threads :
    SpinOwner(pc[t], waking[t]) =>
      word.spin /\ \A u \in Threads \ {t} : ~SpinOwner(pc[u], waking[u])

(* A scan has taken the whole queue.                                       *)
ScanHasQueue == \A t \in Threads : pc[t] = "unlock_scan" => waiters = <<>>

(* Nobody is listed who need not be told.                                  *)
ListedAreDue == \A p \in Threads : Cardinality(MuPlaces(p)) <= Due(p)

(* An unlock has counted those it wakes as removed.                        *)
WokenAreRemoved ==
  \A u, p \in Threads :
    Untold(waking[u].wake, pc[u] = "unlock_v", p) # {} => waiter[p].removed

(* The flags of the word.                                                  *)
WordBits(wd) ==
  /\ wd.spin \in BOOLEAN /\ wd.waiting \in BOOLEAN /\ wd.desig \in BOOLEAN
  /\ wd.condition \in BOOLEAN /\ wd.writerWaiting \in BOOLEAN
  /\ wd.longWait \in BOOLEAN /\ wd.allFalse \in BOOLEAN

QueueTyped ==
  /\ WordBits(word) /\ waiters \in Seq(Threads) /\ DOMAIN waiter = Threads
  /\ \A t \in Threads : QueueThreadOK(pc[t], ret[t], waking[t], waiter[t])

QueueInv ==
  MuInv /\ QueueTyped /\ OneOwner /\ ScanHasQueue /\ ListedAreDue /\ WokenAreRemoved

-----------------------------------------------------------------------------
(* A step of one thread.                                                   *)

OthersStay(t) ==
  \A u \in Threads \ {t} :
    /\ pc'[u] = pc[u] /\ ret'[u] = ret[u] /\ held'[u] = held[u]
    /\ locking'[u] = locking[u] /\ waking'[u] = waking[u]
    /\ waiter'[u].waiting => waiter[u].waiting
    /\ pc[u] \in Unlisted => waiter'[u].waiting = waiter[u].waiting

(* It changes the word and the queue only with the right to.               *)
MayWrite(t) ==
  held[t] # "none" \/ word.wlock = 0 \/ ~word.spin \/ SpinOwner(pc[t], waking[t])

SpinStep(t) ==
  /\ word' = word \/ MayWrite(t)
  /\ word'.spin = word.spin \/ ~word.spin \/ SpinOwner(pc[t], waking[t])
  /\ waiters' = waiters \/ ~word.spin \/ SpinOwner(pc[t], waking[t])
  /\ SpinOwner(pc'[t], waking'[t]) =>
       word'.spin /\ (SpinOwner(pc[t], waking[t]) \/ ~word.spin)
  /\ pc'[t] = "unlock_scan" => waiters' = <<>>

(* Who waits is listed: a step that changes one changes the other.         *)
Balanced ==
  \A p \in Threads :
    Cardinality(MuPlaces(p)') + Due(p) = Cardinality(MuPlaces(p)) + Due(p)'

(* Where the lists that a step of t may change name p.                     *)
Here(t, p) == Times(waiters, p) + OwnCount(waking[t], pc[t] = "unlock_v", p)

(* The lists of the invariant are lists, and counts are numbers.           *)
LEMMA QueueCounts ==
  ASSUME CountingLaws, QueueTyped, NEW t \in Threads, NEW p
  PROVE  /\ ListsTyped(waking[t]) /\ Here(t, p) \in Nat
         /\ IsFiniteSet(MuPlaces(p)) /\ Cardinality(MuPlaces(p)) \in Nat
<1>1. \A u \in Threads : ListsTyped(waking[u])
  BY DEF QueueTyped, QueueThreadOK, WakeState, ListsTyped
<1>2. MuPlaces(p) = PlacesIn(waiters, waking, pc, p)
  BY DEF MuPlaces, PlacesIn, Own
<1>3. waiters \in Seq(Threads)
  BY DEF QueueTyped
<1>4. IsFiniteSet(PlacesIn(waiters, waking, pc, p))
  BY Zenon, <1>1, <1>3 DEF CountingLaws, PlacesCountLaw
<1>5. OwnCount(waking[t], pc[t] = "unlock_v", p) \in Nat /\ Times(waiters, p) \in Nat
  BY Zenon, <1>1, <1>3 DEF CountingLaws, OwnIsCountedLaw, PositionsFiniteLaw
<1>6. Here(t, p) \in Nat
  BY <1>5 DEF Here
<1>7. Cardinality(MuPlaces(p)) \in Nat
  BY Zenon, <1>2, <1>4 DEF CountingLaws, CardinalityLaw
<1>. QED BY Zenon, <1>1, <1>2, <1>4, <1>6, <1>7

(* Who need not be told is on no list.                                     *)
LEMMA NotDueNotListed ==
  ASSUME CountingLaws, QueueInv, NEW p \in Threads, Due(p) = 0
  PROVE  /\ MuPlaces(p) = {} /\ Positions(waiters, p) = {}
         /\ \A u \in Threads :
              /\ Positions(waking[u].new, p) = {} /\ Positions(waking[u].kept, p) = {}
              /\ Untold(waking[u].wake, pc[u] = "unlock_v", p) = {}
<1>1. IsFiniteSet(MuPlaces(p)) /\ Cardinality(MuPlaces(p)) \in Nat
  BY QueueCounts DEF QueueInv
<1>2. Cardinality(MuPlaces(p)) <= 0
  BY DEF QueueInv, ListedAreDue
<1>3. MuPlaces(p) = {}
  BY <1>1, <1>2 DEF CountingLaws, CardinalityLaw
<1>4. ASSUME NEW x \in Positions(waiters, p) PROVE FALSE
  <2>1. <<<<"mu", "waiters">>, x>> \in MuPlaces(p)
    BY DEF MuPlaces
  <2>. QED BY <1>3, <2>1
<1>5. ASSUME NEW u \in Threads, NEW x,
             \/ x \in Positions(waking[u].new, p) \/ x \in Positions(waking[u].kept, p)
             \/ x \in Untold(waking[u].wake, pc[u] = "unlock_v", p)
      PROVE  FALSE
  <2>1. Own(waking[u], pc[u] = "unlock_v", u, p) \subseteq MuPlaces(p)
    BY DEF MuPlaces, Own
  <2>2. Own(waking[u], pc[u] = "unlock_v", u, p) # {}
    <3>1. \A tag, S : x \in S => <<tag, x>> \in {tag} \X S
      OBVIOUS
    <3>. QED BY Zenon, <1>5, <3>1 DEF Own
  <2>. QED BY <1>3, <2>1, <2>2
<1>. QED BY <1>3, <1>4, <1>5

QueueStep(t) == QueueInv' /\ Balanced /\ SpinStep(t) /\ OthersStay(t)

(* What the invariant says of one thread.                                  *)
LEMMA QueueFacts ==
  ASSUME QueueInv, NEW t \in Threads
  PROVE  /\ DOMAIN pc = Threads /\ DOMAIN ret = Threads /\ DOMAIN held = Threads
         /\ DOMAIN locking = Threads /\ DOMAIN waking = Threads
         /\ DOMAIN waiter = Threads /\ DOMAIN word = WordFields
         /\ QueueThreadOK(pc[t], ret[t], waking[t], waiter[t])
         /\ ThreadOK(pc[t], held[t], locking[t], waking[t])
         /\ ret[t] \notin MuLabels
         /\ \A p \in Threads : waiter[p] \in WaiterState
         /\ WordBits(word)
BY Zenon DEF QueueInv, MuInv, CountsHolders, ReturnsOutside, QueueTyped, QueueThreadOK

(* Labels outside lock, unlock and the work on queues.                     *)
Idle(label) == label \notin MuLabels /\ label \notin Afar

(* A thread that wakes has someone to wake.                                *)
LEMMA WakeFacts ==
  ASSUME QueueInv, NEW t \in Threads, pc[t] \in WakeLabels
  PROVE  /\ waking[t] \in WakeState /\ waking[t].wake \in Seq(Threads)
         /\ waking[t].wake # <<>> /\ Head(waking[t].wake) \in Threads
         /\ waking[t].new = <<>> /\ waking[t].kept = <<>> /\ waiter[t] \in WaiterState
         /\ waking[t].testing => waking[t].late
         /\ ListsTyped(waking[t]) /\ waiters \in Seq(Threads)
         /\ Idle(ret[t])
         /\ waiter[t].waiting => ret[t] \in ParkedLabels
         /\ pc[t] \notin Unlisted /\ ~SpinOwner(pc[t], waking[t])
<1>1. QueueThreadOK(pc[t], ret[t], waking[t], waiter[t])
  BY Zenon, QueueFacts
<1>2. /\ waking[t] \in WakeState /\ waking[t].wake # <<>> /\ waiter[t] \in WaiterState
      /\ waking[t].new = <<>> /\ waking[t].kept = <<>>
      /\ waking[t].testing => waking[t].late
      /\ ret[t] \notin Afar
  BY Zenon, <1>1 DEF QueueThreadOK
<1>3. waking[t].wake \in Seq(Threads) /\ ListsTyped(waking[t])
  BY <1>2 DEF WakeState, ListsTyped
<1>4. Head(waking[t].wake) \in Threads
  BY <1>2, <1>3
<1>5. waiter[t].waiting => ret[t] \in ParkedLabels
  BY <1>1 DEF QueueThreadOK, MayWait, WakeLabels, ParkedLabels, Unlisted
<1>6. pc[t] \notin Unlisted /\ ~SpinOwner(pc[t], waking[t])
  BY DEF WakeLabels, Unlisted, SpinOwner, SpinLabels
<1>7. Idle(ret[t]) /\ waiters \in Seq(Threads)
  BY Zenon, <1>2, QueueFacts DEF Idle, QueueInv, QueueTyped
<1>. QED BY <1>2, <1>3, <1>4, <1>5, <1>6, <1>7

-----------------------------------------------------------------------------
(* What the invariant of conditional critical sections says.              *)

(* The locals of nsync_mu_wait_with_deadline.                              *)
WaitFields == DOMAIN NotWaiting

WaitLocals(m) ==
  DOMAIN m = WaitFields /\ m.mode \in LockModes /\ m.cond \in Conditions \cup {NoCondition}

(* The places of the code of conditional critical sections.                *)
WaitPlaces ==
  MuLabels \cup
  {"client", "panic", "wait_spin", "wait_queue", "wait_wait", "wait_p", "wait_timeout",
   "wait_confirm", "wait_woken", "wait_eval"}

(* Where a waiting thread is tells how it holds the mutex: in the mode in  *)
(* which it waits until it is queued and after it is back, and in write    *)
(* mode while it makes sure of a timeout.                                  *)
WaitThreadOK(label, r, h, l, m, w) ==
  /\ WaitLocals(m)
  /\ label \in WaitPlaces
  /\ r \in {"client", "wait_wait", "wait_eval"}
  /\ label \in LockLabels => r # "wait_wait"
  /\ label \in LockLabels /\ r = "wait_eval" => l.mode = m.mode
  /\ label \in ScanLabels \cup WakeLabels \cup {"unlock_slow"} => r # "wait_eval"
  /\ label \in {"wait_spin", "wait_queue", "wait_eval"} => h = m.mode
  /\ label \in {"wait_wait", "wait_p", "wait_timeout", "wait_woken"} => h = "none"
  /\ label = "wait_confirm" => h = "w"
  /\ label \in {"wait_spin", "wait_queue"} => w.waiting
  /\ label = "wait_woken" => ~w.waiting

(* A thread that makes sure of a timeout knows what the word was, and      *)
(* nobody has changed it since.                                            *)
Confirming(label, l, wd) ==
  label = "wait_confirm" =>
    LET old == l.oldWord IN
    /\ DOMAIN old = WordFields /\ WordBits(old)
    /\ old.wlock = 0 /\ old.readers = 0 /\ ~old.spin
    /\ wd = [Acquired(old, "w", FALSE, FALSE) EXCEPT !.spin = TRUE]

ListedOnce == \A p \in Threads : Cardinality(MuPlaces(p)) = Due(p)

(* The inductive invariant of conditional critical sections.               *)
WaitInv ==
  /\ QueueInv /\ ListedOnce /\ DOMAIN mwait = Threads
  /\ \A t \in Threads :
       /\ WaitThreadOK(pc[t], ret[t], held[t], locking[t], mwait[t], waiter[t])
       /\ Confirming(pc[t], locking[t], word)

(* What the invariant says of one thread.                                  *)
LEMMA WaitFacts ==
  ASSUME WaitInv, NEW t \in Threads
  PROVE  /\ QueueInv /\ MuInv /\ DOMAIN mwait = Threads
         /\ WaitThreadOK(pc[t], ret[t], held[t], locking[t], mwait[t], waiter[t])
         /\ Confirming(pc[t], locking[t], word)
BY DEF WaitInv, QueueInv

(* The places of a wait that are outside lock, unlock and the queue.       *)
LEMMA WaitIdle ==
  \A label \in {"client", "wait_wait", "wait_p", "wait_timeout", "wait_woken", "wait_eval"} :
    Idle(label)
BY DEF Idle, MuLabels, LockLabels, ScanLabels, WakeLabels, Afar, Unlisted, SpinLabels

(* A holder reads from the word in which mode it holds the mutex.          *)
LEMMA HolderReadsMode ==
  ASSUME CountingLaws, MuInv, NEW t \in Threads, held[t] # "none"
  PROVE  /\ held[t] \in LockModes /\ ~(word.wlock = 0 /\ word.readers = 0)
         /\ held[t] = IF word.readers # 0 THEN "r" ELSE "w"
<1>1. CountsHolders(word, held)
  BY DEF MuInv
<1>2. held[t] \in LockModes
  BY <1>1 DEF CountsHolders, HeldModes, LockModes
<1>3. held[t] = "r" => word.readers # 0
  BY <1>1 DEF CountsHolders, CountingLaws, HoldersCountLaw
<1>4. held[t] = "w" => ~(word.wlock = 0 \/ word.readers # 0)
  BY UnlockChecksPass
<1>. QED BY <1>2, <1>3, <1>4 DEF LockModes

(* A waiting thread outside lock, unlock and the idle places.              *)
LEMMA UnlistedFacts ==
  ASSUME WaitInv, NEW t \in Threads, pc[t] \in {"wait_spin", "wait_queue", "wait_confirm"}
  PROVE  /\ NoLists(waking[t]) /\ waking[t] \in WakeState /\ ret[t] \notin Afar
         /\ waking[t].testing => waking[t].late
         /\ pc[t] # "unlock_v"
<1>1. QueueThreadOK(pc[t], ret[t], waking[t], waiter[t])
  BY Zenon, WaitFacts, QueueFacts
<1>. QED BY <1>1 DEF QueueThreadOK, ScanLabels, WakeLabels

(* A timed-out waiter that no unlock has taken is still in the queue: no   *)
(* scan has it, as one that tests conditions holds the mutex and every     *)
(* other one owns the spinlock.                                            *)
LEMMA ConfirmedQueued ==
  ASSUME CountingLaws, WaitInv, NEW t \in Threads, pc[t] = "wait_confirm",
         waiter[t].waiting, ~waiter[t].removed
  PROVE  Times(waiters, t) > 0
<1>0. QueueInv /\ MuInv /\ held[t] = "w"
  BY WaitFacts DEF WaitThreadOK
<1>1. MuPlaces(t) # {}
  <2>1. Cardinality(MuPlaces(t)) = 1
    BY DEF WaitInv, ListedOnce, Due, Unlisted
  <2>. QED BY <2>1 DEF CountingLaws, CardinalityLaw
<1>2. ASSUME NEW u \in Threads PROVE waking[u].new = <<>> /\ waking[u].kept = <<>>
  <2>1. /\ QueueThreadOK(pc[u], ret[u], waking[u], waiter[u])
        /\ ThreadOK(pc[u], held[u], locking[u], waking[u])
    BY Zenon, <1>0, QueueFacts
  <2>2. CASE u = t
    BY <2>2, UnlistedFacts DEF NoLists
  <2>3. CASE u # t
    <3>1. held[u] = "none"
      BY Zenon, <1>0, <2>3 DEF MuInv, CountsHolders
    <3>2. ~SpinOwner(pc[u], waking[u])
      <4>1. SpinOwner(pc[t], waking[t])
        BY DEF SpinOwner, SpinLabels
      <4>. QED BY Zenon, <1>0, <2>3, <4>1 DEF QueueInv, OneOwner
    <3>3. pc[u] # "unlock_scan" /\ (pc[u] = "panic" => waking[u].new = <<>>)
      BY <3>2 DEF SpinOwner, SpinLabels
    <3>4. pc[u] \notin ScanLabels
      BY <2>1, <3>1, <3>3 DEF ThreadOK, QueueThreadOK, ScanLabels
    <3>. QED BY Zenon, <2>1, <3>3, <3>4 DEF QueueThreadOK, NoLists
  <2>. QED BY <2>2, <2>3
<1>3. ASSUME NEW u \in Threads PROVE Untold(waking[u].wake, pc[u] = "unlock_v", t) = {}
  BY <1>0 DEF QueueInv, WokenAreRemoved
<1>4. \A u \in Threads : Positions(waking[u].new, t) = {} /\ Positions(waking[u].kept, t) = {}
  BY <1>2 DEF Positions
<1>5. Positions(waiters, t) # {}
  <2>. SUFFICES ASSUME Positions(waiters, t) = {} PROVE FALSE
    OBVIOUS
  <2>1. \A x : {x} \X {} = {}
    OBVIOUS
  <2>. QED BY <1>1, <1>3, <1>4, <2>1 DEF MuPlaces
<1>6. waiters \in Seq(Threads)
  BY <1>0 DEF QueueInv, QueueTyped
<1>7. IsFiniteSet(Positions(waiters, t))
  BY <1>6 DEF CountingLaws, PositionsFiniteLaw
<1>8. Times(waiters, t) \in Nat /\ Times(waiters, t) # 0
  BY <1>5, <1>7 DEF Times, CountingLaws, CardinalityLaw
<1>. QED BY <1>8

(* What holds of a thread that is in no call.                              *)
LEMMA ClientFacts ==
  ASSUME WaitInv, NEW t \in Threads, pc[t] = "client"
  PROVE  /\ QueueInv /\ MuInv /\ Idle(pc[t]) /\ Idle("client") /\ "client" \notin MuLabels
         /\ ~waiter[t].waiting
         /\ WaitThreadOK(pc[t], ret[t], held[t], locking[t], mwait[t], waiter[t])
<1>1. /\ QueueInv /\ MuInv
      /\ WaitThreadOK(pc[t], ret[t], held[t], locking[t], mwait[t], waiter[t])
      /\ QueueThreadOK(pc[t], ret[t], waking[t], waiter[t])
  BY Zenon, WaitFacts, QueueFacts
<1>2. Idle("client") /\ "client" \notin MuLabels
  BY WaitIdle DEF Idle
<1>3. ~MayWait("client", ret[t])
  BY DEF MayWait, ParkedLabels, Unlisted, UnlockLabels, MuLabels, ScanLabels, WakeLabels
<1>4. ~waiter[t].waiting
  BY Zenon, <1>1, <1>3 DEF QueueThreadOK
<1>. QED BY <1>1, <1>2, <1>4
=============================================================================
