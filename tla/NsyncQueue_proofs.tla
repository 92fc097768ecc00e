-------------------------- MODULE NsyncQueue_proofs --------------------------
(***************************************************************************)
(* Proofs about the queue of the mutex, for every number of threads and of *)
(* calls: the spinlock has one owner, and a waiter that must be told to go *)
(* on is on one list.  The counting they rest on is the premise            *)
(* CountingLaws.                                                           *)
(***************************************************************************)
EXTENDS NsyncMu_proofs

-----------------------------------------------------------------------------
(* What a step of one thread keeps.                                        *)

(* The other lists stay as they are.                                       *)
LEMMA PlacesBalance ==
  ASSUME CountingLaws, waiters \in Seq(Threads), waiters' \in Seq(Threads),
         NEW t \in Threads,
         \A u \in Threads : ListsTyped(waking[u]) /\ ListsTyped(waking'[u]),
         OthersStay(t), NEW p
  PROVE  \E k \in Nat : /\ Cardinality(MuPlaces(p)) = Here(t, p) + k
                        /\ Cardinality(MuPlaces(p)') = Here(t, p)' + k
<1>0. /\ \A u \in Threads : ListsTyped(waking[u])
      /\ \A u \in Threads : ListsTyped(waking'[u])
  OBVIOUS
<1>1. MuPlaces(p) = PlacesIn(waiters, waking, pc, p)
  BY DEF MuPlaces, PlacesIn, Own
<1>2. MuPlaces(p)' = PlacesIn(waiters', waking', pc', p)
  BY DEF MuPlaces, PlacesIn, Own, Positions, Untold
<1>3. Elsewhere(waking', pc', t, p) = Elsewhere(waking, pc, t, p)
  BY DEF Elsewhere, OthersStay
<1>4. /\ Cardinality(Elsewhere(waking, pc, t, p)) \in Nat
      /\ Cardinality(PlacesIn(waiters, waking, pc, p)) =
           Here(t, p) + Cardinality(Elsewhere(waking, pc, t, p))
  BY <1>0 DEF Here, CountingLaws, PlacesCountLaw
<1>5. Cardinality(PlacesIn(waiters', waking', pc', p)) =
        Here(t, p)' + Cardinality(Elsewhere(waking', pc', t, p))
  <2>1. Here(t, p)' = Times(waiters', p) + OwnCount(waking'[t], pc'[t] = "unlock_v", p)
    BY DEF Here, Times, OwnCount, Live, Positions, Untold
  <2>. QED BY <1>0, <2>1 DEF CountingLaws, PlacesCountLaw
<1>. QED BY <1>1, <1>2, <1>3, <1>4, <1>5

(* The proof obligations of a step of t.                                   *)
StepTyped(t) ==
  /\ WordBits(word') /\ DOMAIN waiter' = Threads /\ waiters' \in Seq(Threads)
  /\ \A p \in Threads :
       /\ waiter'[p] \in WaiterState
       /\ waiter[p].removed => waiter'[p].removed \/ Due(p) = 0
  /\ QueueThreadOK(pc'[t], ret'[t], waking'[t], waiter'[t])
  /\ \A p \in Threads :
       Untold(waking'[t].wake, pc'[t] = "unlock_v", p) # {} => waiter'[p].removed

HereBalanced(t) ==
  \A p \in Threads : Here(t, p)' + Due(p) = Here(t, p) + Due(p)'

(* A step of one thread keeps the invariant of all.                        *)
LEMMA QueueKeeps ==
  ASSUME CountingLaws, QueueInv, NEW t \in Threads, MuInv', OthersStay(t), SpinStep(t),
         StepTyped(t), HereBalanced(t)
  PROVE  QueueInv' /\ Balanced
<1>1. QueueTyped'
  <2>1. ASSUME NEW u \in Threads
        PROVE  QueueThreadOK(pc'[u], ret'[u], waking'[u], waiter'[u])
    <3>1. CASE u = t
      BY <3>1 DEF StepTyped
    <3>2. CASE u # t
      <4>1. /\ pc'[u] = pc[u] /\ ret'[u] = ret[u] /\ waking'[u] = waking[u]
            /\ waiter'[u].waiting => waiter[u].waiting
        BY <3>2 DEF OthersStay
      <4>2. waiter'[u] \in WaiterState
        BY DEF StepTyped
      <4>3. QueueThreadOK(pc[u], ret[u], waking[u], waiter[u])
        BY DEF QueueInv, QueueTyped
      <4>. QED BY Zenon, <4>1, <4>2, <4>3 DEF QueueThreadOK
    <3>. QED BY <3>1, <3>2
  <2>. QED BY <2>1 DEF QueueTyped, StepTyped, WordBits
<1>2. OneOwner'
  <2>1. ASSUME NEW u \in Threads, SpinOwner(pc'[u], waking'[u])
        PROVE  word'.spin /\ \A v \in Threads \ {u} : ~SpinOwner(pc'[v], waking'[v])
    <3>1. CASE u = t
      BY <2>1, <3>1 DEF QueueInv, OneOwner, OthersStay, SpinStep
    <3>2. CASE u # t
      <4>1. SpinOwner(pc[u], waking[u])
        BY <2>1, <3>2 DEF OthersStay
      <4>2. word.spin /\ \A v \in Threads \ {u} : ~SpinOwner(pc[v], waking[v])
        BY <4>1 DEF QueueInv, OneOwner
      <4>3. word'.spin = word.spin /\ ~SpinOwner(pc'[t], waking'[t])
        BY Zenon, <3>2, <4>2 DEF SpinStep
      <4>. QED BY <3>2, <4>2, <4>3 DEF OthersStay
    <3>. QED BY <3>1, <3>2
  <2>. QED BY <2>1 DEF OneOwner
<1>3. ScanHasQueue'
  <2>1. ASSUME NEW u \in Threads, pc'[u] = "unlock_scan" PROVE waiters' = <<>>
    <3>1. CASE u = t
      BY <2>1, <3>1 DEF SpinStep
    <3>2. CASE u # t
      <4>1. pc[u] = "unlock_scan" /\ SpinOwner(pc[u], waking[u])
        BY <2>1, <3>2 DEF OthersStay, SpinOwner, SpinLabels
      <4>2. word.spin /\ ~SpinOwner(pc[t], waking[t]) /\ waiters = <<>>
        BY <3>2, <4>1 DEF QueueInv, OneOwner, ScanHasQueue
      <4>. QED BY <4>2 DEF SpinStep
    <3>. QED BY <3>1, <3>2
  <2>. QED BY <2>1 DEF ScanHasQueue
<1>4. Balanced
  <2>1. ASSUME NEW p \in Threads
        PROVE  Cardinality(MuPlaces(p)') + Due(p) = Cardinality(MuPlaces(p)) + Due(p)'
    <3>1. \A u \in Threads : ListsTyped(waking[u])
      BY Zenon DEF QueueInv, QueueTyped, QueueThreadOK, WakeState, ListsTyped
    <3>2. \A u \in Threads : ListsTyped(waking'[u])
      BY Zenon, <1>1 DEF QueueTyped, QueueThreadOK, WakeState, ListsTyped
    <3>3. waiters \in Seq(Threads) /\ waiters' \in Seq(Threads)
      BY Zenon, <1>1 DEF QueueInv, QueueTyped
    <3>4. PICK k \in Nat : /\ Cardinality(MuPlaces(p)) = Here(t, p) + k
                           /\ Cardinality(MuPlaces(p)') = Here(t, p)' + k
      BY <3>1, <3>2, <3>3, PlacesBalance
    <3>5. Here(t, p)' + Due(p) = Here(t, p) + Due(p)'
      BY DEF HereBalanced
    <3>6. Here(t, p) \in Nat
      BY QueueCounts DEF QueueInv
    <3>7. Here(t, p)' \in Nat
      <4>1. (pc'[t] = "unlock_v") \in BOOLEAN
        OBVIOUS
      <4>2. OwnCount(waking'[t], pc'[t] = "unlock_v", p) \in Nat /\ Times(waiters', p) \in Nat
        BY Zenon, <3>2, <3>3, <4>1 DEF CountingLaws, OwnIsCountedLaw, PositionsFiniteLaw
      <4>3. Here(t, p)' = Times(waiters', p) + OwnCount(waking'[t], pc'[t] = "unlock_v", p)
        BY DEF Here, Times, OwnCount, Live, Positions, Untold
      <4>. QED BY <4>2, <4>3
    <3>8. Due(p) \in Nat /\ Due(p)' \in Nat
      BY DEF Due
    <3>. QED BY <3>4, <3>5, <3>6, <3>7, <3>8
  <2>. QED BY <2>1 DEF Balanced
<1>5. ListedAreDue'
  <2>1. ASSUME NEW p \in Threads PROVE Cardinality(MuPlaces(p)') <= Due(p)'
    <3>1. Cardinality(MuPlaces(p)) \in Nat /\ Cardinality(MuPlaces(p)) <= Due(p)
      BY QueueCounts DEF QueueInv, ListedAreDue
    <3>2. Cardinality(MuPlaces(p)') \in Nat
      <4>1. \A u \in Threads : ListsTyped(waking'[u])
        BY <1>1 DEF QueueTyped, QueueThreadOK, WakeState, ListsTyped
      <4>2. MuPlaces(p)' = PlacesIn(waiters', waking', pc', p)
        BY DEF MuPlaces, PlacesIn, Own, Positions, Untold
      <4>3. IsFiniteSet(PlacesIn(waiters', waking', pc', p))
        BY Zenon, <1>1, <4>1 DEF QueueTyped, CountingLaws, PlacesCountLaw
      <4>. QED BY <4>2, <4>3 DEF CountingLaws, CardinalityLaw
    <3>3. Due(p) \in Nat /\ Due(p)' \in Nat
      BY DEF Due
    <3>4. Cardinality(MuPlaces(p)') + Due(p) = Cardinality(MuPlaces(p)) + Due(p)'
      BY <1>4 DEF Balanced
    <3>. QED BY <3>1, <3>2, <3>3, <3>4
  <2>. QED BY <2>1 DEF ListedAreDue
<1>6. WokenAreRemoved'
  <2>1. ASSUME NEW u \in Threads, NEW p \in Threads,
               Untold(waking'[u].wake, pc'[u] = "unlock_v", p) # {}
        PROVE  waiter'[p].removed
    <3>1. CASE u = t
      BY <2>1, <3>1 DEF StepTyped
    <3>2. CASE u # t
      <4>1. Untold(waking[u].wake, pc[u] = "unlock_v", p) # {}
        BY <2>1, <3>2 DEF OthersStay
      <4>2. waiter[p].removed
        BY <4>1 DEF QueueInv, WokenAreRemoved
      <4>3. Due(p) # 0
        BY <4>1, NotDueNotListed
      <4>. QED BY <4>2, <4>3 DEF StepTyped
    <3>. QED BY <3>1, <3>2
  <2>2. \A u, p \in Threads :
          Untold(waking'[u].wake, pc'[u] = "unlock_v", p) # {} => waiter'[p].removed
    BY <2>1
  <2>. QED BY <2>2 DEF WokenAreRemoved, Untold, Positions
<1>. QED BY <1>1, <1>2, <1>3, <1>4, <1>5, <1>6 DEF QueueInv

(* Steps that leave the lists alone.                                       *)
Quietly(t) ==
  /\ WordBits(word') /\ waiters' = waiters /\ DOMAIN waiter' = Threads
  /\ \A p \in Threads :
       /\ waiter'[p] \in WaiterState /\ waiter'[p].waiting = waiter[p].waiting
       /\ waiter[p].removed => waiter'[p].removed \/ Due(p) = 0
  /\ QueueThreadOK(pc'[t], ret'[t], waking'[t], waiter'[t])
  /\ waking'[t].new = waking[t].new /\ waking'[t].kept = waking[t].kept
  /\ waking'[t].wake = waking[t].wake
  /\ pc'[t] = "unlock_v" <=> pc[t] = "unlock_v"
  /\ waiter[t].waiting => (pc[t] \in Unlisted <=> pc'[t] \in Unlisted)

(* They keep the invariant.                                                *)
LEMMA QuietKeeps ==
  ASSUME CountingLaws, QueueInv, NEW t \in Threads, MuInv', OthersStay(t), SpinStep(t),
         Quietly(t)
  PROVE  QueueStep(t)
<1>1. \A p \in Threads :
        Untold(waking'[t].wake, pc'[t] = "unlock_v", p) =
          Untold(waking[t].wake, pc[t] = "unlock_v", p)
  BY DEF Quietly
<1>2. StepTyped(t)
  <2>1. ASSUME NEW p \in Threads, Untold(waking'[t].wake, pc'[t] = "unlock_v", p) # {}
        PROVE  waiter'[p].removed
    <3>1. Untold(waking[t].wake, pc[t] = "unlock_v", p) # {}
      BY <1>1, <2>1
    <3>2. waiter[p].removed
      BY <3>1 DEF QueueInv, WokenAreRemoved
    <3>3. Due(p) # 0
      BY <3>1, NotDueNotListed
    <3>. QED BY Zenon, <3>2, <3>3 DEF Quietly
  <2>. QED BY Zenon, <2>1 DEF StepTyped, Quietly, QueueInv, QueueTyped
<1>3. HereBalanced(t)
  <2>1. ASSUME NEW p \in Threads PROVE Here(t, p)' = Here(t, p) /\ Due(p)' = Due(p)
    <3>1. Here(t, p)' = Times(waiters', p) + OwnCount(waking'[t], pc'[t] = "unlock_v", p)
      BY DEF Here, Times, OwnCount, Live, Positions, Untold
    <3>2. OwnCount(waking'[t], pc'[t] = "unlock_v", p) = OwnCount(waking[t], pc[t] = "unlock_v", p)
      BY <1>1 DEF OwnCount, Quietly, Live
    <3>3. Due(p)' = Due(p)
      BY Zenon DEF Due, Quietly, OthersStay
    <3>. QED BY <3>1, <3>2, <3>3 DEF Here, Quietly
  <2>. QED BY <2>1 DEF HereBalanced
<1>. QED BY <1>2, <1>3, QueueKeeps DEF QueueStep

(* A thread outside lock and unlock has no lists.                          *)
LEMMA OutsideQueueOK ==
  ASSUME NEW label, label \notin MuLabels, NEW r, r \notin Afar, NEW s \in WakeState,
         NoLists(s), s.testing => s.late, NEW w \in WaiterState,
         w.waiting => MayWait(label, r)
  PROVE  QueueThreadOK(label, r, s, w)
BY DEF QueueThreadOK, MuLabels, WakeLabels, ScanLabels

(* A step that works neither on the queue nor for it.                      *)
LEMMA SpinQuiet ==
  ASSUME NEW t \in Threads, word' = word \/ MayWrite(t), word'.spin = word.spin,
         waiters' = waiters, ~SpinOwner(pc'[t], waking'[t])
  PROVE  SpinStep(t)
BY DEF SpinStep, SpinOwner, SpinLabels

(* The word operators of lock and unlock keep the spinlock.                *)
LEMMA SpinKept ==
  ASSUME NEW wd, DOMAIN wd = WordFields, WordBits(wd), NEW mode, NEW slept, NEW longWait
  PROVE  /\ Acquired(wd, mode, slept, longWait).spin = wd.spin
         /\ WordBits(Acquired(wd, mode, slept, longWait))
         /\ Released(wd, mode).spin = wd.spin /\ WordBits(Released(wd, mode))
         /\ ReleasedQuietly(wd, mode).spin = wd.spin /\ WordBits(ReleasedQuietly(wd, mode))
<1>1. /\ Added(wd, mode).spin = wd.spin /\ WordBits(Added(wd, mode))
      /\ DOMAIN Added(wd, mode) = WordFields
  BY DEF Added, WordFields, WordBits
<1>2. /\ Released(wd, mode).spin = wd.spin /\ WordBits(Released(wd, mode))
      /\ DOMAIN Released(wd, mode) = WordFields
  BY DEF Released, WordFields, WordBits
<1>3. /\ Acquired(wd, mode, slept, longWait).spin = wd.spin
      /\ WordBits(Acquired(wd, mode, slept, longWait))
  BY <1>1 DEF Acquired, WordFields, WordBits
<1>4. /\ ReleasedQuietly(wd, mode).spin = wd.spin /\ WordBits(ReleasedQuietly(wd, mode))
  BY <1>2 DEF ReleasedQuietly, WordFields, WordBits
<1>. QED BY <1>2, <1>3, <1>4

(* Acquiring in nsync_mu_lock_slow_ leaves the lists alone.                *)
LEMMA LockSlowAcquireQueue ==
  ASSUME CountingLaws, QueueInv, NEW t \in Threads, LockSlowAcquire(t)
  PROVE  QueueStep(t)
<1>0. MuInv'
  BY LockSlowAcquireStep DEF QueueInv
<1>1. /\ pc[t] = "lock_slow" /\ ~Blocked(word, locking[t].mode, locking[t].slept)
      /\ \E mode, slept, longWait : word' = Acquired(word, mode, slept, longWait)
      /\ pc' = [pc EXCEPT ![t] = ret[t]] /\ ret' = [ret EXCEPT ![t] = "client"]
      /\ \E h : held' = [held EXCEPT ![t] = h]
      /\ locking' = [locking EXCEPT ![t] = NotLocking]
      /\ UNCHANGED <<waiters, waiter, waking>>
  BY Zenon DEF LockSlowAcquire, Return, Goto
<1>2. /\ OthersStay(t) /\ pc'[t] = ret[t] /\ ret'[t] = "client"
      /\ waking'[t] = waking[t] /\ waiter'[t] = waiter[t]
  BY Zenon, <1>1, QueueFacts DEF OthersStay
<1>3. QueueThreadOK("lock_slow", ret[t], waking[t], waiter[t])
  BY Zenon, <1>1, QueueFacts
<1>4. /\ ret[t] \notin MuLabels /\ ret[t] \notin Afar /\ NoLists(waking[t])
      /\ waking[t] \in WakeState /\ waiter[t] \in WaiterState /\ ~waiter[t].waiting
      /\ waking[t].testing => waking[t].late
  BY Zenon, <1>3, QueueFacts
  DEF QueueThreadOK, MayWait, ParkedLabels, Unlisted, UnlockLabels, WakeLabels, ScanLabels
<1>5. QueueThreadOK(pc'[t], ret'[t], waking'[t], waiter'[t])
  <2>1. "client" \notin Afar
    BY DEF Afar, SpinLabels, Unlisted
  <2>. QED BY Zenon, <1>2, <1>4, <2>1, OutsideQueueOK
<1>8. word'.spin = word.spin /\ WordBits(word')
  <2>1. DOMAIN word = WordFields /\ WordBits(word)
    BY Zenon, QueueFacts
  <2>2. PICK mode, slept, longWait : word' = Acquired(word, mode, slept, longWait)
    BY Zenon, <1>1
  <2>3. /\ Acquired(word, mode, slept, longWait).spin = word.spin
        /\ WordBits(Acquired(word, mode, slept, longWait))
    BY <2>1, SpinKept
  <2>. QED BY Zenon, <2>2, <2>3
<1>6. SpinStep(t)
  <2>2. MayWrite(t)
    BY <1>1 DEF MayWrite, Blocked
  <2>3. ~SpinOwner(pc'[t], waking'[t])
    BY <1>2, <1>4 DEF Afar, SpinOwner
  <2>. QED BY <1>1, <1>8, <2>2, <2>3, SpinQuiet
<1>7. Quietly(t)
  <2>1. pc'[t] # "unlock_v" /\ pc[t] # "unlock_v"
    BY Zenon, <1>1, <1>2, <1>4 DEF MuLabels, WakeLabels
  <2>. QED BY Zenon, <1>1, <1>2, <1>4, <1>5, <1>8, <2>1, QueueFacts DEF Quietly
<1>. QED BY <1>0, <1>2, <1>6, <1>7, QuietKeeps

(* The locals of an unlock that starts.                                    *)
LEMMA FreshWaking ==
  ASSUME NEW mode \in LockModes, NEW s,
         s = NotWaking \/ s = [NotWaking EXCEPT !.mode = mode]
  PROVE  s \in WakeState /\ NoLists(s) /\ ~s.testing
<1>1. /\ <<>> \in Seq(Threads) /\ "w" \in LockModes /\ "none" \in HeldModes
      /\ TRUE \in BOOLEAN /\ FALSE \in BOOLEAN
  BY DEF LockModes, HeldModes
<1>2. NotWaking \in WakeState
  BY <1>1 DEF NotWaking, WakeState
<1>3. s \in WakeState
  BY <1>2 DEF WakeState
<1>. QED BY <1>3 DEF NotWaking, NoLists

(* The common part of the steps below.                                     *)
LEMMA QuietStep ==
  ASSUME CountingLaws, QueueInv, NEW t \in Threads, MuInv', OthersStay(t),
         UNCHANGED waiters,
         WordBits(word'), word' = word \/ MayWrite(t), word'.spin = word.spin,
         ~SpinOwner(pc'[t], waking'[t]),
         DOMAIN waiter' = Threads,
         \A p \in Threads :
           /\ waiter'[p] \in WaiterState /\ waiter'[p].waiting = waiter[p].waiting
           /\ waiter[p].removed => waiter'[p].removed \/ Due(p) = 0,
         QueueThreadOK(pc'[t], ret'[t], waking'[t], waiter'[t]),
         NoLists(waking[t]), NoLists(waking'[t]),
         pc[t] # "unlock_v", pc'[t] # "unlock_v",
         waiter[t].waiting => pc[t] \notin Unlisted /\ pc'[t] \notin Unlisted
  PROVE  QueueStep(t)
<1>1. SpinStep(t)
  BY SpinQuiet
<1>2. Quietly(t)
  BY Zenon DEF Quietly, NoLists
<1>. QED BY Zenon, <1>1, <1>2, QuietKeeps

(* Waiting for the wake-up in nsync_mu_lock_slow_.                         *)
LEMMA LockSlowWaitQueue ==
  ASSUME CountingLaws, QueueInv, NEW t \in Threads, LockSlowWait(t)
  PROVE  QueueStep(t)
<1>0. MuInv'
  BY LockSlowWaitStep DEF QueueInv
<1>1. /\ pc[t] = "lock_wait"
      /\ UNCHANGED <<word, waiters, waiter, ret, held, waking>>
      /\ \/ waiter[t].waiting /\ pc' = [pc EXCEPT ![t] = "lock_p"] /\ UNCHANGED locking
         \/ /\ ~waiter[t].waiting /\ pc' = [pc EXCEPT ![t] = "lock_slow"]
            /\ \E l : locking' = [locking EXCEPT ![t] = l]
  BY DEF LockSlowWait, Goto
<1>2. /\ OthersStay(t) /\ ret'[t] = ret[t] /\ waking'[t] = waking[t] /\ waiter'[t] = waiter[t]
      /\ pc'[t] = "lock_p" \/ (pc'[t] = "lock_slow" /\ ~waiter[t].waiting)
  <2>1. \A u \in Threads \ {t} : pc'[u] = pc[u] /\ locking'[u] = locking[u]
    BY Zenon, <1>1, QueueFacts
  <2>. QED BY Zenon, <1>1, <2>1, QueueFacts DEF OthersStay
<1>3. QueueThreadOK("lock_wait", ret[t], waking[t], waiter[t])
  BY <1>1, QueueFacts
<1>4. QueueThreadOK(pc'[t], ret'[t], waking'[t], waiter'[t]) /\ NoLists(waking[t])
  BY <1>2, <1>3 DEF QueueThreadOK, MayWait, ParkedLabels, Unlisted, ScanLabels, WakeLabels
<1>5. ~SpinOwner(pc'[t], waking'[t]) /\ pc'[t] # "unlock_v" /\ pc[t] # "unlock_v"
      /\ pc[t] \notin Unlisted /\ pc'[t] \notin Unlisted
  BY <1>1, <1>2 DEF SpinOwner, SpinLabels, Unlisted
<1>. QED BY Zenon, <1>0, <1>1, <1>2, <1>4, <1>5, QuietStep, QueueFacts

(* Sleeping on the semaphore in nsync_mu_lock_slow_.                       *)
LEMMA LockSlowPQueue ==
  ASSUME CountingLaws, QueueInv, NEW t \in Threads, LockSlowP(t)
  PROVE  QueueStep(t)
<1>0. MuInv'
  BY LockSlowPStep DEF QueueInv
<1>1. /\ pc[t] = "lock_p" /\ waiter[t].sem > 0
      /\ waiter' = [waiter EXCEPT ![t].sem = @ - 1]
      /\ pc' = [pc EXCEPT ![t] = "lock_wait"]
      /\ UNCHANGED <<word, waiters, ret, held, locking, waking>>
  BY DEF LockSlowP, SemaphoreP, Goto
<1>2. /\ OthersStay(t) /\ ret'[t] = ret[t] /\ waking'[t] = waking[t] /\ pc'[t] = "lock_wait"
      /\ DOMAIN waiter' = Threads
      /\ waiter'[t].waiting = waiter[t].waiting /\ waiter'[t].removed = waiter[t].removed
      /\ \A p \in Threads \ {t} : waiter'[p] = waiter[p]
  BY <1>1, QueueFacts DEF OthersStay, WaiterState
<1>3. waiter'[t] \in WaiterState
  BY <1>1, QueueFacts DEF WaiterState
<1>4. QueueThreadOK("lock_p", ret[t], waking[t], waiter[t])
  BY <1>1, QueueFacts
<1>5. QueueThreadOK(pc'[t], ret'[t], waking'[t], waiter'[t]) /\ NoLists(waking[t])
  BY Zenon, <1>2, <1>3, <1>4 DEF QueueThreadOK, MayWait, ParkedLabels, Unlisted, ScanLabels, WakeLabels
<1>6. ~SpinOwner(pc'[t], waking'[t]) /\ pc'[t] # "unlock_v" /\ pc[t] # "unlock_v"
      /\ pc[t] \notin Unlisted /\ pc'[t] \notin Unlisted
  BY <1>1, <1>2 DEF SpinOwner, SpinLabels, Unlisted
<1>7. \A p \in Threads :
           /\ waiter'[p] \in WaiterState /\ waiter'[p].waiting = waiter[p].waiting
           /\ waiter[p].removed => waiter'[p].removed \/ Due(p) = 0
  BY <1>2, <1>3, QueueFacts
<1>. QED BY <1>0, <1>1, <1>2, <1>5, <1>6, <1>7, QuietStep, QueueFacts

(* Taking the spinlock to queue the waiter.                                *)
LEMMA LockSlowSpinlockQueue ==
  ASSUME CountingLaws, QueueInv, NEW t \in Threads, LockSlowSpinlock(t)
  PROVE  QueueStep(t)
<1>0. MuInv'
  BY LockSlowSpinlockStep DEF QueueInv
<1>1. /\ pc[t] = "lock_slow" /\ ~word.spin /\ word'.spin /\ WordBits(word')
      /\ pc' = [pc EXCEPT ![t] = "lock_queue"]
      /\ UNCHANGED <<waiters, waiter, ret, held, locking, waking>>
  BY QueueFacts DEF LockSlowSpinlock, Goto, WordFields, WordBits
<1>2. /\ OthersStay(t) /\ ret'[t] = ret[t] /\ waking'[t] = waking[t] /\ waiter'[t] = waiter[t]
      /\ pc'[t] = "lock_queue"
  BY <1>1, QueueFacts DEF OthersStay
<1>3. QueueThreadOK("lock_slow", ret[t], waking[t], waiter[t])
  BY Zenon, <1>1, QueueFacts
<1>4. ~waiter[t].waiting
  BY <1>3 DEF QueueThreadOK, MayWait, ParkedLabels, Unlisted, UnlockLabels
<1>5. QueueThreadOK(pc'[t], ret'[t], waking'[t], waiter'[t])
  BY Zenon, <1>2, <1>3, <1>4 DEF QueueThreadOK, ScanLabels, WakeLabels
<1>6. SpinStep(t)
  BY Zenon, <1>1, <1>2 DEF SpinStep, MayWrite
<1>7. Quietly(t)
  BY Zenon, <1>1, <1>2, <1>4, <1>5, QueueFacts DEF Quietly
<1>. QED BY <1>0, <1>2, <1>6, <1>7, QuietKeeps

(* What holds of a thread at such a label.                                 *)
LEMMA IdleFacts ==
  ASSUME QueueInv, NEW t \in Threads, Idle(pc[t])
  PROVE  /\ NoLists(waking[t])
         /\ waking[t].testing => waking[t].late
         /\ waking[t] \in WakeState /\ waiter[t] \in WaiterState /\ ret[t] \notin Afar
         /\ pc[t] # "unlock_v" /\ pc[t] \notin Unlisted
<1>1. QueueThreadOK(pc[t], ret[t], waking[t], waiter[t])
  BY Zenon, QueueFacts
<1>2. pc[t] \notin ScanLabels \cup WakeLabels \cup {"panic"} /\ pc[t] # "unlock_v"
      /\ pc[t] \notin Unlisted
  BY DEF Idle, MuLabels, Afar, WakeLabels
<1>. QED BY <1>1, <1>2 DEF QueueThreadOK

(* What follows from being at such a label after a step.                   *)
LEMMA IdleAfter ==
  ASSUME NEW label, Idle(label), NEW s
  PROVE  label # "unlock_v" /\ label \notin Unlisted /\ ~SpinOwner(label, s)
BY DEF Idle, MuLabels, WakeLabels, Afar, SpinOwner

(* Entering nsync_mu_lock_slow_.                                           *)
LEMMA EnterLockSlowQueue ==
  ASSUME CountingLaws, QueueInv, NEW t \in Threads, Idle(pc[t]), held[t] = "none",
         ~waiter[t].waiting,
         NEW mode \in LockModes, NEW slept, NEW next, Idle(next),
         EnterLockSlow(t, mode, slept, next)
  PROVE  QueueStep(t)
<1>0. MuInv'
  BY EnterLockSlowStep DEF QueueInv, Idle
<1>1. /\ waiter' = [waiter EXCEPT ![t].lType = mode, ![t].cvMu = FALSE,
                                  ![t].cond = NoCondition]
      /\ \E l : locking' = [locking EXCEPT ![t] = l]
      /\ ret' = [ret EXCEPT ![t] = next] /\ pc' = [pc EXCEPT ![t] = "lock_slow"]
      /\ UNCHANGED <<word, waiters, held, waking>>
  BY Zenon DEF EnterLockSlow, Goto
<1>2. /\ OthersStay(t) /\ ret'[t] = next /\ waking'[t] = waking[t] /\ pc'[t] = "lock_slow"
      /\ DOMAIN waiter' = Threads
      /\ waiter'[t].waiting = waiter[t].waiting /\ waiter'[t].removed = waiter[t].removed
      /\ \A p \in Threads \ {t} : waiter'[p] = waiter[p]
  <2>1. /\ DOMAIN waiter' = Threads /\ \A p \in Threads \ {t} : waiter'[p] = waiter[p]
        /\ waiter'[t].waiting = waiter[t].waiting /\ waiter'[t].removed = waiter[t].removed
    BY <1>1, QueueFacts DEF WaiterState
  <2>2. \A u \in Threads \ {t} : locking'[u] = locking[u] /\ pc'[u] = pc[u] /\ ret'[u] = ret[u]
    BY <1>1, QueueFacts
  <2>. QED BY <1>1, <2>1, <2>2, QueueFacts DEF OthersStay
<1>3. waiter'[t] \in WaiterState
  <2>1. waiter'[t] = [[[waiter[t] EXCEPT !.lType = mode] EXCEPT !.cvMu = FALSE]
                        EXCEPT !.cond = NoCondition]
    BY <1>1, QueueFacts
  <2>2. waiter[t] \in WaiterState
    BY Zenon, QueueFacts
  <2>3. [[[waiter[t] EXCEPT !.lType = mode] EXCEPT !.cvMu = FALSE]
           EXCEPT !.cond = NoCondition] \in WaiterState
    BY <2>2 DEF WaiterState
  <2>. QED BY Zenon, <2>1, <2>3
<1>4. QueueThreadOK(pc'[t], ret'[t], waking'[t], waiter'[t])
  <2>1. /\ next \notin Afar /\ waking[t] \in WakeState /\ NoLists(waking[t])
        /\ waking[t].testing => waking[t].late
    BY IdleFacts DEF Idle
  <2>. QED BY <1>2, <1>3, <2>1 DEF QueueThreadOK, ScanLabels, WakeLabels
<1>5. ~SpinOwner(pc'[t], waking'[t]) /\ pc'[t] # "unlock_v" /\ pc'[t] \notin Unlisted
  BY <1>2 DEF SpinOwner, SpinLabels, Unlisted
<1>6. \A p \in Threads :
        /\ waiter'[p] \in WaiterState /\ waiter'[p].waiting = waiter[p].waiting
        /\ waiter[p].removed => waiter'[p].removed \/ Due(p) = 0
  BY Zenon, <1>2, <1>3, QueueFacts
<1>7. NoLists(waking[t]) /\ NoLists(waking'[t]) /\ pc[t] # "unlock_v"
  BY Zenon, <1>2, IdleFacts
<1>. QED BY <1>0, <1>1, <1>2, <1>4, <1>5, <1>6, <1>7, QuietStep, QueueFacts

(* Acquiring on a fast path.                                               *)
LEMMA AcquireNowQueue ==
  ASSUME CountingLaws, QueueInv, NEW t \in Threads, Idle(pc[t]), held[t] = "none",
         ~waiter[t].waiting,
         NEW mode \in LockModes, NEW next, Idle(next), AcquireNow(t, mode, next)
  PROVE  QueueStep(t)
<1>0. MuInv'
  BY AcquireNowStep DEF QueueInv, Idle
<1>1. /\ ~Blocked(word, mode, FALSE) /\ word' = Acquired(word, mode, FALSE, FALSE)
      /\ held' = [held EXCEPT ![t] = mode] /\ pc' = [pc EXCEPT ![t] = next]
      /\ UNCHANGED <<waiters, waiter, ret, locking, waking>>
  BY Zenon DEF AcquireNow, Goto
<1>2. /\ OthersStay(t) /\ ret'[t] = ret[t] /\ waking'[t] = waking[t] /\ pc'[t] = next
      /\ waiter'[t] = waiter[t]
  BY Zenon, <1>1, QueueFacts DEF OthersStay
<1>3. QueueThreadOK(pc'[t], ret'[t], waking'[t], waiter'[t])
  <2>1. /\ next \notin MuLabels /\ ret[t] \notin Afar /\ waking[t] \in WakeState
        /\ NoLists(waking[t]) /\ waiter[t] \in WaiterState
        /\ waking[t].testing => waking[t].late
    BY Zenon, IdleFacts DEF Idle
  <2>. QED BY Zenon, <1>2, <2>1, OutsideQueueOK
<1>4. word'.spin = word.spin /\ WordBits(word') /\ MayWrite(t)
  <2>1. MayWrite(t)
    BY <1>1 DEF MayWrite, Blocked
  <2>2. DOMAIN word = WordFields /\ WordBits(word)
    BY QueueFacts
  <2>3. ASSUME NEW slept, NEW longWait
        PROVE  /\ Acquired(word, mode, slept, longWait).spin = word.spin
               /\ WordBits(Acquired(word, mode, slept, longWait))
    BY <2>2, SpinKept
  <2>. QED BY Zenon, <1>1, <2>1, <2>3
<1>5. ~SpinOwner(pc'[t], waking'[t]) /\ pc'[t] # "unlock_v" /\ pc'[t] \notin Unlisted
  BY <1>2, IdleAfter
<1>6. NoLists(waking[t]) /\ NoLists(waking'[t]) /\ pc[t] # "unlock_v"
  BY <1>2, IdleFacts
<1>. QED BY Zenon, <1>0, <1>1, <1>2, <1>3, <1>4, <1>5, <1>6, QuietStep, QueueFacts

(* Entering nsync_mu_unlock_slow_, also from a wait that was queued.       *)
LEMMA EnterUnlockSlowQueue ==
  ASSUME CountingLaws, QueueInv, NEW t \in Threads, Idle(pc[t]), NEW mode \in LockModes,
         held[t] = mode,
         NEW next, Idle(next), waiter[t].waiting => next \in ParkedLabels,
         EnterUnlockSlow(t, mode, next)
  PROVE  QueueStep(t)
<1>0. MuInv'
  BY EnterUnlockSlowStep DEF QueueInv, Idle
<1>1. /\ waking' = [waking EXCEPT ![t] = [NotWaking EXCEPT !.mode = mode]]
      /\ ret' = [ret EXCEPT ![t] = next] /\ pc' = [pc EXCEPT ![t] = "unlock_slow"]
      /\ UNCHANGED <<word, waiters, waiter, held, locking>>
  BY DEF EnterUnlockSlow, Goto
<1>2. /\ OthersStay(t) /\ ret'[t] = next /\ waking'[t] = [NotWaking EXCEPT !.mode = mode]
      /\ pc'[t] = "unlock_slow" /\ waiter'[t] = waiter[t]
  BY <1>1, QueueFacts DEF OthersStay
<1>3. waking'[t] \in WakeState /\ NoLists(waking'[t]) /\ ~waking'[t].testing
  BY <1>2, FreshWaking
<1>4. QueueThreadOK(pc'[t], ret'[t], waking'[t], waiter'[t])
  BY <1>2, <1>3, IdleFacts
  DEF QueueThreadOK, ScanLabels, WakeLabels, Idle, MayWait, UnlockLabels
<1>5. ~SpinOwner(pc'[t], waking'[t]) /\ pc'[t] # "unlock_v" /\ pc'[t] \notin Unlisted
  BY <1>2 DEF SpinOwner, SpinLabels, Unlisted
<1>6. NoLists(waking[t]) /\ pc[t] # "unlock_v" /\ pc[t] \notin Unlisted
  BY IdleFacts
<1>. QED BY <1>0, <1>1, <1>2, <1>3, <1>4, <1>5, <1>6, QuietStep, QueueFacts

(* Releasing on a fast path, also in a wait that was queued.               *)
LEMMA ReleaseNowQueue ==
  ASSUME CountingLaws, QueueInv, NEW t \in Threads, Idle(pc[t]), NEW mode \in LockModes,
         held[t] = mode,
         NEW next, Idle(next), waiter[t].waiting => next \in ParkedLabels,
         ReleaseNow(t, mode, next)
  PROVE  QueueStep(t)
<1>0. MuInv'
  BY Zenon, ReleaseNowStep DEF QueueInv, Idle
<1>1. /\ word' = ReleasedQuietly(word, mode)
      /\ held' = [held EXCEPT ![t] = "none"] /\ pc' = [pc EXCEPT ![t] = next]
      /\ UNCHANGED <<waiters, waiter, ret, locking, waking>>
  BY DEF ReleaseNow, Goto
<1>2. /\ OthersStay(t) /\ ret'[t] = ret[t] /\ waking'[t] = waking[t] /\ pc'[t] = next
      /\ waiter'[t] = waiter[t]
  BY Zenon, <1>1, QueueFacts DEF OthersStay
<1>3. QueueThreadOK(pc'[t], ret'[t], waking'[t], waiter'[t])
  <2>1. /\ next \notin MuLabels /\ ret[t] \notin Afar /\ waking[t] \in WakeState
        /\ NoLists(waking[t]) /\ waiter[t] \in WaiterState
        /\ waking[t].testing => waking[t].late
    BY Zenon, IdleFacts DEF Idle
  <2>. QED BY Zenon, <1>2, <2>1, OutsideQueueOK DEF MayWait
<1>4. word'.spin = word.spin /\ WordBits(word') /\ MayWrite(t)
  BY Zenon, <1>1, SpinKept, QueueFacts DEF MayWrite, LockModes
<1>5. ~SpinOwner(pc'[t], waking'[t]) /\ pc'[t] # "unlock_v" /\ pc'[t] \notin Unlisted
  BY Zenon, <1>2, IdleAfter
<1>6. NoLists(waking[t]) /\ NoLists(waking'[t]) /\ pc[t] # "unlock_v" /\ pc[t] \notin Unlisted
  BY <1>2, IdleFacts
<1>. QED BY Zenon, <1>0, <1>1, <1>2, <1>3, <1>4, <1>5, <1>6, QuietStep, QueueFacts

(* Releasing in nsync_mu_unlock_slow_ with nobody to wake.                 *)
LEMMA UnlockSlowReleaseQueue ==
  ASSUME CountingLaws, QueueInv, NEW t \in Threads, UnlockSlowRelease(t)
  PROVE  QueueStep(t)
<1>0. MuInv'
  BY UnlockSlowReleaseStep DEF QueueInv
<1>1. /\ pc[t] = "unlock_slow" /\ word' = ReleasedQuietly(word, waking[t].mode)
      /\ held' = [held EXCEPT ![t] = "none"]
      /\ waking' = [waking EXCEPT ![t] = NotWaking]
      /\ pc' = [pc EXCEPT ![t] = ret[t]] /\ ret' = [ret EXCEPT ![t] = "client"]
      /\ UNCHANGED <<waiters, waiter, locking>>
  BY DEF UnlockSlowRelease, Return, Goto
<1>2. /\ OthersStay(t) /\ pc'[t] = ret[t] /\ ret'[t] = "client" /\ waking'[t] = NotWaking
      /\ waiter'[t] = waiter[t]
  BY Zenon, <1>1, QueueFacts DEF OthersStay
<1>3. /\ QueueThreadOK("unlock_slow", ret[t], waking[t], waiter[t])
      /\ ThreadOK("unlock_slow", held[t], locking[t], waking[t])
  BY Zenon, <1>1, QueueFacts
<1>4. /\ Idle(ret[t]) /\ NoLists(waking[t]) /\ held[t] # "none"
      /\ waiter[t] \in WaiterState
      /\ waiter[t].waiting => ret[t] \in ParkedLabels
  BY Zenon, <1>3, QueueFacts
  DEF QueueThreadOK, ThreadOK, Idle, MayWait, ParkedLabels, Unlisted, ScanLabels, WakeLabels,
      LockModes
<1>5. NotWaking \in WakeState /\ NoLists(NotWaking) /\ ~NotWaking.testing
  BY FreshWaking DEF LockModes
<1>6. QueueThreadOK(pc'[t], ret'[t], waking'[t], waiter'[t])
  <2>1. "client" \notin Afar
    BY DEF Afar, SpinLabels, Unlisted
  <2>. QED BY Zenon, <1>2, <1>4, <1>5, <2>1, OutsideQueueOK DEF Idle, MayWait
<1>7. word'.spin = word.spin /\ WordBits(word') /\ MayWrite(t)
  BY Zenon, <1>1, <1>4, SpinKept, QueueFacts DEF MayWrite
<1>8. ~SpinOwner(pc'[t], waking'[t]) /\ pc'[t] # "unlock_v" /\ pc'[t] \notin Unlisted
  BY Zenon, <1>2, <1>4, IdleAfter
<1>9. NoLists(waking'[t]) /\ pc[t] # "unlock_v" /\ pc[t] \notin Unlisted
  BY <1>1, <1>2, <1>5 DEF Unlisted
<1>. QED BY Zenon, <1>0, <1>1, <1>2, <1>4, <1>6, <1>7, <1>8, <1>9, QuietStep, QueueFacts

(* Dropping the spinlock to test conditions.                               *)
LEMMA UnlockSlowDropSpinlockQueue ==
  ASSUME CountingLaws, QueueInv, NEW t \in Threads, UnlockSlowDropSpinlock(t)
  PROVE  QueueStep(t)
<1>0. MuInv'
  BY UnlockSlowDropSpinlockStep DEF QueueInv
<1>1. /\ pc[t] = "unlock_scan" /\ waking[t].testing /\ WordBits(word')
      /\ pc' = [pc EXCEPT ![t] = "unlock_test"]
      /\ UNCHANGED <<waiters, waiter, ret, held, locking, waking>>
  BY QueueFacts DEF UnlockSlowDropSpinlock, Goto, StillTesting, WordBits, WordFields
<1>2. /\ OthersStay(t) /\ ret'[t] = ret[t] /\ waking'[t] = waking[t] /\ pc'[t] = "unlock_test"
      /\ waiter'[t] = waiter[t]
  BY Zenon, <1>1, QueueFacts DEF OthersStay
<1>3. QueueThreadOK("unlock_scan", ret[t], waking[t], waiter[t])
  BY <1>1, QueueFacts
<1>4. QueueThreadOK(pc'[t], ret'[t], waking'[t], waiter'[t])
  BY <1>1, <1>2, <1>3
  DEF QueueThreadOK, ScanLabels, WakeLabels, MayWait, ParkedLabels, Unlisted, UnlockLabels
<1>5. SpinStep(t)
  BY Zenon, <1>1, <1>2 DEF SpinStep, MayWrite, SpinOwner, SpinLabels
<1>6. Quietly(t)
  BY Zenon, <1>1, <1>2, <1>4, QueueFacts DEF Quietly, Unlisted
<1>. QED BY <1>0, <1>2, <1>5, <1>6, QuietKeeps

(* A panic.                                                                *)
LEMMA PanicQueue ==
  ASSUME CountingLaws, QueueInv, NEW t \in Threads, Panic(t),
         Idle(pc[t]) \/ (pc[t] = "unlock_scan" /\ waking[t].new # <<>>)
  PROVE  QueueStep(t)
<1>0. MuInv'
  BY PanicStep DEF QueueInv
<1>1. /\ pc' = [pc EXCEPT ![t] = "panic"]
      /\ UNCHANGED <<word, waiters, waiter, ret, held, locking, waking>>
  BY DEF Panic, Goto
<1>2. /\ OthersStay(t) /\ ret'[t] = ret[t] /\ waking'[t] = waking[t] /\ pc'[t] = "panic"
      /\ waiter'[t] = waiter[t]
  BY Zenon, <1>1, QueueFacts DEF OthersStay
<1>3. /\ QueueThreadOK(pc[t], ret[t], waking[t], waiter[t])
      /\ pc[t] # "unlock_scan" => NoLists(waking[t])
      /\ pc[t] \notin Unlisted /\ pc[t] # "unlock_v"
      /\ pc[t] \in SpinLabels <=> pc[t] = "unlock_scan"
  <2>1. CASE Idle(pc[t])
    <3>1. pc[t] \notin SpinLabels /\ pc[t] # "unlock_scan"
      BY <2>1 DEF Idle, Afar, MuLabels, ScanLabels
    <3>. QED BY Zenon, <2>1, <3>1, QueueFacts, IdleFacts
  <2>2. CASE pc[t] = "unlock_scan"
    BY <2>2, QueueFacts DEF Unlisted, SpinLabels
  <2>. QED BY Zenon, <2>1, <2>2
<1>4. QueueThreadOK(pc'[t], ret'[t], waking'[t], waiter'[t])
  <2>1. waking[t].new = <<>> => NoLists(waking[t])
    BY Zenon, <1>3, IdleFacts
  <2>. QED BY <1>2, <1>3, <2>1 DEF QueueThreadOK, ScanLabels, WakeLabels, MayWait
<1>5. SpinStep(t)
  <2>1. SpinOwner(pc'[t], waking'[t]) => SpinOwner(pc[t], waking[t])
    BY Zenon, <1>2, <1>3 DEF SpinOwner, SpinLabels, NoLists
  <2>2. SpinOwner(pc[t], waking[t]) => word.spin
    BY Zenon DEF QueueInv, OneOwner
  <2>. QED BY Zenon, <1>1, <1>2, <2>1, <2>2 DEF SpinStep
<1>6. Quietly(t)
  BY Zenon, <1>1, <1>2, <1>3, <1>4, QueueFacts DEF Quietly, Unlisted
<1>. QED BY Zenon, <1>0, <1>2, <1>5, <1>6, QuietKeeps

-----------------------------------------------------------------------------
(* Steps that move waiters from list to list.                              *)

Total(list, s, p) ==
  Times(list, p) + (Times(s.new, p) + Times(s.kept, p) + Times(s.wake, p))

Counted(list, s, label, p) == Times(list, p) + OwnCount(s, label = "unlock_v", p)

(* The lists of a thread name everyone, but the waiter just told.          *)
LEMMA OwnTotal ==
  ASSUME CountingLaws, NEW list \in Seq(Threads), NEW s, ListsTyped(s), NEW label, NEW p
  PROVE  /\ Total(list, s, p) \in Nat /\ Counted(list, s, label, p) \in Nat
         /\ label # "unlock_v" => Counted(list, s, label, p) = Total(list, s, p)
         /\ label = "unlock_v" /\ s.wake # <<>> =>
              Counted(list, s, label, p) + One(Head(s.wake), p) = Total(list, s, p)
<1>1. s.new \in Seq(Threads) /\ s.kept \in Seq(Threads) /\ s.wake \in Seq(Threads)
  BY DEF ListsTyped
<1>2. /\ Times(list, p) \in Nat /\ Times(s.new, p) \in Nat
      /\ Times(s.kept, p) \in Nat /\ Times(s.wake, p) \in Nat
  BY <1>1 DEF CountingLaws, PositionsFiniteLaw
<1>. DEFINE told == label = "unlock_v"
            live == Live(s.wake, told, p)
            first == One(Head(s.wake), p)
<1>3. /\ live \in Nat
      /\ Times(s.wake, p) = live + (IF told /\ s.wake # <<>> THEN first ELSE 0)
  <2>1. told \in BOOLEAN
    OBVIOUS
  <2>. HIDE DEF told
  <2>. QED BY <1>1, <2>1 DEF CountingLaws, LiveCountLaw
<1>4. first \in Nat
  BY DEF One
<1>5. Counted(list, s, label, p) = Times(list, p) + (Times(s.new, p) + Times(s.kept, p) + live)
  BY DEF Counted, OwnCount
<1>6. told <=> label = "unlock_v"
  OBVIOUS
<1>. HIDE DEF live, first, told
<1>7. /\ label # "unlock_v" => Times(s.wake, p) = live
      /\ label = "unlock_v" /\ s.wake # <<>> => Times(s.wake, p) = live + first
  BY <1>3, <1>4, <1>6
<1>8. /\ Times(s.wake, p) = live => Counted(list, s, label, p) = Total(list, s, p)
      /\ Times(s.wake, p) = live + first =>
           Counted(list, s, label, p) + first = Total(list, s, p)
  BY <1>2, <1>3, <1>4, <1>5 DEF Total
<1>9. Total(list, s, p) \in Nat /\ Counted(list, s, label, p) \in Nat
  BY <1>2, <1>3, <1>5 DEF Total
<1>. QED BY Zenon, <1>7, <1>8, <1>9 DEF first

(* Empty lists hold no place that is still to be told.                     *)
LEMMA NoListsUntold ==
  ASSUME NEW s, NoLists(s), NEW told, NEW p
  PROVE  Untold(s.wake, told, p) = {}
BY DEF Untold, Positions, NoLists

(* A place gained in a list balances one gained in what is due.            *)
LEMMA Balance ==
  ASSUME NEW a \in Nat, NEW d \in Nat, NEW o \in Nat
  PROVE  (a + o) + d = a + (d + o) /\ a + (d + o) = (a + o) + d
OBVIOUS

(* An unlock that has told nobody counts all its lists.                    *)
LEMMA QuietTotal ==
  ASSUME CountingLaws, NEW list \in Seq(Threads), NEW s, ListsTyped(s),
         NEW label, label # "unlock_v", NEW p
  PROVE  Total(list, s, p) \in Nat /\ Counted(list, s, label, p) = Total(list, s, p)
BY Zenon, OwnTotal

(* What a number was added to is determined by the sum.                    *)
LEMMA Cancelled ==
  ASSUME NEW a \in Nat, NEW b \in Nat, NEW o \in Nat, NEW sum, a + o = sum, sum = b + o
  PROVE  a = b
OBVIOUS

(* The total of an unlock whose list of waiters to wake got shorter.       *)
LEMMA TotalLess ==
  ASSUME NEW list, NEW s, NEW r, NEW p, NEW o \in Nat, r.new = s.new, r.kept = s.kept,
         Times(s.wake, p) = Times(r.wake, p) + o, Times(list, p) \in Nat,
         Times(s.new, p) \in Nat, Times(s.kept, p) \in Nat, Times(r.wake, p) \in Nat
  PROVE  Total(list, s, p) = Total(list, r, p) + o
BY DEF Total

(* Without lists of its own a thread counts the queue.                     *)
LEMMA NoListsCounted ==
  ASSUME CountingLaws, NEW list \in Seq(Threads), NEW s, NoLists(s), NEW label, NEW p
  PROVE  Counted(list, s, label, p) = Times(list, p) /\ Times(list, p) \in Nat
<1>. DEFINE told == label = "unlock_v"
<1>1. Untold(s.wake, told, p) = {}
  BY Zenon, NoListsUntold
<1>2. Live(s.wake, told, p) = 0
  BY Zenon, <1>1 DEF Live, CountingLaws, CardinalityLaw
<1>3. Times(s.new, p) = 0 /\ Times(s.kept, p) = 0
  BY DEF NoLists, CountingLaws, TimesEmptyLaw
<1>4. OwnCount(s, told, p) = 0
  <2>. HIDE DEF told
  <2>. QED BY <1>2, <1>3 DEF OwnCount
<1>5. Counted(list, s, label, p) = Times(list, p) + OwnCount(s, told, p)
  BY DEF Counted
<1>. HIDE DEF told
<1>. QED BY <1>4, <1>5 DEF CountingLaws, PositionsFiniteLaw

(* Where the lists name p before and after a step.                         *)
LEMMA HereCounted ==
  ASSUME NEW t \in Threads, NEW p
  PROVE  /\ Here(t, p) = Counted(waiters, waking[t], pc[t], p)
         /\ Here(t, p)' = Counted(waiters', waking'[t], pc'[t], p)
BY DEF Here, Counted, Times, OwnCount, Live, Positions, Untold

(* A step that conserves the lists keeps the invariant.                    *)
LEMMA MoveKeeps ==
  ASSUME CountingLaws, QueueInv, NEW t \in Threads, MuInv', OthersStay(t), SpinStep(t),
         StepTyped(t),
         \A p \in Threads : waiter'[p].waiting = waiter[p].waiting,
         \A p \in Threads : Total(waiters', waking'[t], p) = Total(waiters, waking[t], p),
         pc[t] \notin Unlisted, pc'[t] \notin Unlisted,
         pc[t] # "unlock_v", pc'[t] # "unlock_v"
  PROVE  QueueStep(t)
<1>0. ASSUME NEW list \in Seq(Threads), NEW s, ListsTyped(s), NEW label,
             label # "unlock_v", NEW p
      PROVE  Counted(list, s, label, p) = Total(list, s, p)
  BY <1>0, OwnTotal
<1>1. ASSUME NEW p \in Threads PROVE Here(t, p)' = Here(t, p) /\ Due(p)' = Due(p)
  <2>1. ListsTyped(waking[t]) /\ waiters \in Seq(Threads)
    BY Zenon DEF QueueInv, QueueTyped, QueueThreadOK, WakeState, ListsTyped
  <2>2. ListsTyped(waking'[t]) /\ waiters' \in Seq(Threads)
    BY Zenon DEF StepTyped, QueueThreadOK, WakeState, ListsTyped
  <2>3. Here(t, p) = Total(waiters, waking[t], p)
    <3>1. Counted(waiters, waking[t], pc[t], p) = Total(waiters, waking[t], p)
      BY <1>0, <2>1
    <3>. QED BY Zenon, <3>1, HereCounted
  <2>4. Here(t, p)' = Total(waiters', waking'[t], p)
    <3>1. Counted(waiters', waking'[t], pc'[t], p) = Total(waiters', waking'[t], p)
      BY <1>0, <2>2
    <3>. QED BY Zenon, <3>1, HereCounted
  <2>5. Due(p)' = Due(p)
    BY Zenon DEF Due, OthersStay
  <2>. QED BY Zenon, <2>3, <2>4, <2>5
<1>2. HereBalanced(t)
  BY Zenon, <1>1 DEF HereBalanced
<1>. QED BY Zenon, <1>2, QueueKeeps DEF QueueStep

(* The scan takes the queue.                                               *)
LEMMA UnlockSlowSpinlockQueue ==
  ASSUME CountingLaws, QueueInv, NEW t \in Threads, UnlockSlowSpinlock(t)
  PROVE  QueueStep(t)
<1>0. MuInv'
  BY UnlockSlowSpinlockStep DEF QueueInv
<1>1. /\ pc[t] = "unlock_slow" /\ ~word.spin
      /\ \E h : held' = [held EXCEPT ![t] = h]
      /\ waking' = [waking EXCEPT ![t].testing = word.condition, ![t].late = word.condition,
                                  ![t].new = waiters]
      /\ waiters' = <<>> /\ pc' = [pc EXCEPT ![t] = "unlock_scan"]
      /\ UNCHANGED <<waiter, ret, locking>>
  BY Zenon DEF UnlockSlowSpinlock, Goto
<1>2. word'.spin /\ WordBits(word')
  <2>1. /\ DOMAIN Released(word, waking[t].mode) = WordFields
        /\ WordBits(Released(word, waking[t].mode))
    BY Zenon, QueueFacts, WordOperators, SpinKept
  <2>. QED BY <2>1 DEF UnlockSlowSpinlock, WordFields, WordBits
<1>3. QueueThreadOK("unlock_slow", ret[t], waking[t], waiter[t])
  BY <1>1, QueueFacts
<1>4. /\ waking[t] \in WakeState /\ NoLists(waking[t]) /\ ret[t] \notin Afar
      /\ waiter[t] \in WaiterState
      /\ waiter[t].waiting => ret[t] \in ParkedLabels
  BY <1>3 DEF QueueThreadOK, MayWait, ParkedLabels, Unlisted, ScanLabels, WakeLabels
<1>5. /\ \A u \in Threads \ {t} : waking'[u] = waking[u] /\ held'[u] = held[u]
      /\ waking'[t] = [waking[t] EXCEPT !.testing = word.condition, !.late = word.condition,
                                        !.new = waiters]
  BY Zenon, <1>1, QueueFacts
<1>6. /\ OthersStay(t) /\ ret'[t] = ret[t] /\ pc'[t] = "unlock_scan" /\ waiter'[t] = waiter[t]
  BY <1>1, <1>5, QueueFacts DEF OthersStay
<1>7. waiters \in Seq(Threads) /\ word.condition \in BOOLEAN
  BY DEF QueueInv, QueueTyped, WordBits
<1>8. /\ waking'[t] \in WakeState /\ waking'[t].testing = waking'[t].late
      /\ waking'[t].new = waiters /\ waking'[t].kept = <<>> /\ waking'[t].wake = <<>>
  BY Zenon, <1>4, <1>5, <1>7 DEF WakeState, NoLists
<1>9. QueueThreadOK(pc'[t], ret'[t], waking'[t], waiter'[t])
  BY <1>4, <1>6, <1>8 DEF QueueThreadOK, ScanLabels, WakeLabels, MayWait, UnlockLabels
<1>10. SpinStep(t)
  BY Zenon, <1>1, <1>2, <1>6 DEF SpinStep, MayWrite
<1>11. StepTyped(t)
  <2>1. \A p \in Threads : Untold(waking'[t].wake, pc'[t] = "unlock_v", p) = {}
    BY <1>8 DEF Untold, Positions
  <2>2. waiters' \in Seq(Threads)
    BY <1>1
  <2>. QED BY Zenon, <1>1, <1>2, <1>9, <2>1, <2>2, QueueFacts DEF StepTyped
<1>12. \A p \in Threads : Total(waiters', waking'[t], p) = Total(waiters, waking[t], p)
  <2>1. \A p : Times(<<>>, p) = 0
    BY DEF CountingLaws, TimesEmptyLaw
  <2>2. \A p : Times(waiters, p) \in Nat
    BY <1>7 DEF CountingLaws, PositionsFiniteLaw
  <2>. QED BY <1>1, <1>4, <1>8, <2>1, <2>2 DEF Total, NoLists
<1>. QED BY Zenon, <1>0, <1>1, <1>6, <1>10, <1>11, <1>12, MoveKeeps DEF Unlisted

(* The scan marks those it will wake, and only marks them.                 *)
LEMMA MarksRemoved ==
  ASSUME \A p \in Threads : waiter[p] \in WaiterState,
         NEW wake \in Seq(Threads), MarkRemoved(Range(wake))
  PROVE  /\ DOMAIN waiter' = Threads
         /\ \A p \in Threads :
              /\ waiter'[p] \in WaiterState /\ waiter'[p].waiting = waiter[p].waiting
              /\ waiter[p].removed => waiter'[p].removed
         /\ \A p \in Threads : Positions(wake, p) # {} => waiter'[p].removed
<1>1. /\ DOMAIN waiter' = Threads
      /\ \A p \in Threads :
           waiter'[p] = IF p \in Range(wake) THEN [waiter[p] EXCEPT !.removed = TRUE]
                        ELSE waiter[p]
  BY DEF MarkRemoved
<1>2. ASSUME NEW p \in Threads
      PROVE  /\ waiter'[p] \in WaiterState /\ waiter'[p].waiting = waiter[p].waiting
             /\ waiter[p].removed => waiter'[p].removed
             /\ p \in Range(wake) => waiter'[p].removed
  <2>1. CASE p \in Range(wake)
    BY Zenon, <1>1, <2>1 DEF WaiterState
  <2>2. CASE p \notin Range(wake)
    BY <1>1, <2>2
  <2>. QED BY <2>1, <2>2
<1>3. \A p \in Threads : Positions(wake, p) # {} => p \in Range(wake)
  BY DEF Positions, Range
<1>. QED BY <1>1, <1>2, <1>3

(* What the scan of a list does to the counts.                             *)
LEMMA ExamineTotal ==
  ASSUME CountingLaws, NEW s \in WakeState, \A p \in Threads : waiter[p] \in WaiterState,
         NEW p \in Threads
  PROVE  Total(<<>>, Examine(s), p) = Total(<<>>, s, p)
<1>1. \A q \in Threads : waiter[q].lType \in LockModes
  BY DEF WaiterState
<1>2. /\ Examine(s).new = <<>> /\ Conserves(s, Examine(s)) /\ Examine(s) \in WakeState
  BY <1>1, ExamineConserves
<1>3. Times(<<>>, p) = 0
  BY DEF CountingLaws, TimesEmptyLaw
<1>4. /\ Times(s.new, p) \in Nat /\ Times(s.kept, p) \in Nat /\ Times(s.wake, p) \in Nat
  BY DEF WakeState, CountingLaws, PositionsFiniteLaw
<1>5. /\ Times(Examine(s).kept, p) \in Nat /\ Times(Examine(s).wake, p) \in Nat
  BY <1>2 DEF WakeState, CountingLaws, PositionsFiniteLaw
<1>6. Times(Examine(s).kept, p) + Times(Examine(s).wake, p) =
        Times(s.kept, p) + Times(s.wake, p) + Times(s.new, p)
  BY <1>2 DEF Conserves
<1>7. Times(Examine(s).new, p) = 0
  BY <1>2, <1>3
<1>. QED BY <1>3, <1>4, <1>5, <1>6, <1>7 DEF Total

(* The scan without conditions to test.                                    *)
LEMMA UnlockSlowScanQueue ==
  ASSUME CountingLaws, QueueInv, NEW t \in Threads, UnlockSlowScan(t)
  PROVE  QueueStep(t)
<1>. DEFINE s == [waking[t] EXCEPT !.testing = FALSE]
            done == Examine(s)
<1>0. MuInv'
  BY UnlockSlowScanStep DEF QueueInv
<1>1. pc[t] = "unlock_scan" /\ waking[t].new # <<>>
  BY DEF UnlockSlowScan
<1>2. CASE Panic(t)
  BY <1>1, <1>2, PanicQueue
<1>3. CASE ~Panic(t)
  <2>. HIDE DEF done
  <2>1. /\ waking' = [waking EXCEPT ![t] = [done EXCEPT !.new = waiters]]
        /\ waiters' = <<>> /\ MarkRemoved(Range(done.wake))
        /\ UNCHANGED <<word, pc, ret, held, locking>>
    BY Zenon, <1>3 DEF UnlockSlowScan, done
  <2>. HIDE DEF s
  <2>2. QueueThreadOK("unlock_scan", ret[t], waking[t], waiter[t])
    BY Zenon, <1>1, QueueFacts
  <2>3. /\ s \in WakeState /\ s.late = waking[t].late /\ ~s.testing /\ s.new = waking[t].new
        /\ s.kept = waking[t].kept /\ s.wake = waking[t].wake
    BY Zenon, <2>2 DEF s, QueueThreadOK, WakeState
  <2>4. waiters = <<>>
    BY <1>1 DEF QueueInv, ScanHasQueue
  <2>5. done \in WakeState /\ done.new = <<>> /\ done.late = s.late /\ done.testing = s.testing
    <3>1. \A q \in Threads : waiter[q].lType \in LockModes
      BY QueueFacts DEF WaiterState
    <3>. QED BY <2>3, <3>1, ExamineConserves DEF done
  <2>6. waking'[t] = done /\ \A u \in Threads \ {t} : waking'[u] = waking[u]
    <3>1. [done EXCEPT !.new = waiters] = done
      BY <2>4, <2>5 DEF WakeState
    <3>. QED BY <2>1, <3>1, QueueFacts
  <2>7. /\ DOMAIN waiter' = Threads
        /\ \A p \in Threads :
             /\ waiter'[p] \in WaiterState /\ waiter'[p].waiting = waiter[p].waiting
             /\ waiter[p].removed => waiter'[p].removed
        /\ \A p \in Threads : Positions(done.wake, p) # {} => waiter'[p].removed
    <3>1. done.wake \in Seq(Threads) /\ \A p \in Threads : waiter[p] \in WaiterState
      BY <2>5, QueueFacts DEF WakeState
    <3>. QED BY <2>1, <3>1, MarksRemoved
  <2>8. OthersStay(t) /\ ret'[t] = ret[t] /\ pc'[t] = "unlock_scan"
    BY <1>1, <2>1, <2>6, <2>7 DEF OthersStay
  <2>9. QueueThreadOK(pc'[t], ret'[t], waking'[t], waiter'[t])
    <3>1. waiter'[t] \in WaiterState /\ waiter'[t].waiting = waiter[t].waiting
      BY <2>7
    <3>. QED BY Zenon, <2>2, <2>3, <2>5, <2>6, <2>8, <3>1 DEF QueueThreadOK, ScanLabels, WakeLabels
  <2>10. SpinStep(t)
    <3>1. SpinOwner(pc[t], waking[t]) /\ word.spin
      BY <1>1 DEF QueueInv, OneOwner, SpinOwner, SpinLabels
    <3>. QED BY <2>1, <3>1 DEF SpinStep
  <2>11. StepTyped(t)
    <3>1. \A p \in Threads : Untold(waking'[t].wake, pc'[t] = "unlock_v", p) # {} =>
            Positions(done.wake, p) # {}
      BY <2>6 DEF Untold
    <3>2. waiters' \in Seq(Threads) /\ WordBits(word')
      BY <2>1, QueueFacts
    <3>. QED BY Zenon, <2>7, <2>9, <3>1, <3>2 DEF StepTyped
  <2>12. \A p \in Threads : Total(waiters', waking'[t], p) = Total(waiters, waking[t], p)
    <3>1. \A p \in Threads : Total(<<>>, done, p) = Total(<<>>, s, p)
      BY Zenon, <2>3, ExamineTotal, QueueFacts DEF done
    <3>2. \A p \in Threads : Total(<<>>, s, p) = Total(<<>>, waking[t], p)
      BY <2>3 DEF Total
    <3>. QED BY <2>1, <2>4, <2>6, <3>1, <3>2
  <2>. QED BY Zenon, <1>0, <1>1, <2>7, <2>8, <2>10, <2>11, <2>12, MoveKeeps DEF Unlisted
<1>. QED BY <1>2, <1>3

(* The scan that tests conditions.                                         *)
LEMMA UnlockSlowTestQueue ==
  ASSUME CountingLaws, QueueInv, NEW t \in Threads, UnlockSlowTest(t)
  PROVE  QueueStep(t)
<1>. DEFINE s == waking[t]
            done == Examine(s)
<1>0. MuInv'
  BY UnlockSlowTestStep DEF QueueInv
<1>. HIDE DEF done
<1>1. /\ pc[t] = "unlock_test" /\ waking' = [waking EXCEPT ![t] = done]
      /\ MarkRemoved(Range(done.wake)) /\ pc' = [pc EXCEPT ![t] = "unlock_respin"]
      /\ UNCHANGED <<word, waiters, ret, held, locking>>
  BY DEF UnlockSlowTest, done, Goto
<1>2. QueueThreadOK("unlock_test", ret[t], s, waiter[t]) /\ s \in WakeState
  BY Zenon, <1>1, QueueFacts DEF QueueThreadOK
<1>3. done \in WakeState /\ done.new = <<>> /\ done.late = s.late /\ done.testing = s.testing
  <2>1. \A q \in Threads : waiter[q].lType \in LockModes
    BY QueueFacts DEF WaiterState
  <2>. QED BY Zenon, <1>2, <2>1, ExamineConserves DEF done
<1>4. waking'[t] = done /\ \A u \in Threads \ {t} : waking'[u] = waking[u] /\ pc'[u] = pc[u]
  BY Zenon, <1>1, QueueFacts
<1>5. /\ DOMAIN waiter' = Threads
      /\ \A p \in Threads :
           /\ waiter'[p] \in WaiterState /\ waiter'[p].waiting = waiter[p].waiting
           /\ waiter[p].removed => waiter'[p].removed
      /\ \A p \in Threads : Positions(done.wake, p) # {} => waiter'[p].removed
  <2>1. done.wake \in Seq(Threads) /\ \A p \in Threads : waiter[p] \in WaiterState
    BY Zenon, <1>3, QueueFacts DEF WakeState
  <2>. QED BY Zenon, <1>1, <2>1, MarksRemoved
<1>6. OthersStay(t) /\ ret'[t] = ret[t] /\ pc'[t] = "unlock_respin"
  BY Zenon, <1>1, <1>4, <1>5, QueueFacts DEF OthersStay
<1>7. QueueThreadOK(pc'[t], ret'[t], waking'[t], waiter'[t])
  <2>1. waiter'[t] \in WaiterState /\ waiter'[t].waiting = waiter[t].waiting
    BY <1>5
  <2>. QED BY Zenon, <1>2, <1>3, <1>4, <1>6, <2>1
           DEF QueueThreadOK, ScanLabels, WakeLabels, MayWait, ParkedLabels, Unlisted, UnlockLabels
<1>8. SpinStep(t)
  BY Zenon, <1>1, <1>6 DEF SpinStep, SpinOwner, SpinLabels
<1>9. StepTyped(t)
  <2>1. \A p \in Threads : Untold(waking'[t].wake, pc'[t] = "unlock_v", p) # {} =>
          Positions(done.wake, p) # {}
    BY <1>4 DEF Untold
  <2>2. waiters' \in Seq(Threads) /\ WordBits(word')
    BY Zenon, <1>1, QueueFacts DEF QueueInv, QueueTyped
  <2>. QED BY Zenon, <1>5, <1>7, <2>1, <2>2 DEF StepTyped
<1>10. \A p \in Threads : Total(waiters', waking'[t], p) = Total(waiters, waking[t], p)
  <2>1. ASSUME NEW p \in Threads
        PROVE  Total(waiters, done, p) = Total(waiters, s, p)
    <3>1. Total(<<>>, done, p) = Total(<<>>, s, p)
      BY Zenon, <1>2, ExamineTotal, QueueFacts DEF done
    <3>2. Times(<<>>, p) = 0
      BY DEF CountingLaws, TimesEmptyLaw
    <3>3. /\ Times(s.new, p) \in Nat /\ Times(s.kept, p) \in Nat /\ Times(s.wake, p) \in Nat
      BY Zenon, <1>2 DEF WakeState, CountingLaws, PositionsFiniteLaw
    <3>4. /\ Times(done.kept, p) \in Nat /\ Times(done.wake, p) \in Nat
          /\ Times(done.new, p) \in Nat
      BY <1>3 DEF WakeState, CountingLaws, PositionsFiniteLaw
    <3>. HIDE DEF s
    <3>. QED BY <3>1, <3>2, <3>3, <3>4 DEF Total
  <2>. QED BY <1>1, <1>4, <2>1
<1>. QED BY Zenon, <1>0, <1>1, <1>5, <1>6, <1>8, <1>9, <1>10, MoveKeeps DEF Unlisted

(* The scan takes the spinlock and what was queued meanwhile.              *)
LEMMA UnlockSlowRespinQueue ==
  ASSUME CountingLaws, QueueInv, NEW t \in Threads, UnlockSlowRespin(t)
  PROVE  QueueStep(t)
<1>0. MuInv'
  BY UnlockSlowRespinStep DEF QueueInv
<1>1. /\ pc[t] = "unlock_respin" /\ ~word.spin
      /\ waking' = [waking EXCEPT ![t].new = waiters]
      /\ waiters' = <<>> /\ pc' = [pc EXCEPT ![t] = "unlock_scan"]
      /\ UNCHANGED <<waiter, ret, held, locking>>
  BY DEF UnlockSlowRespin, Goto
<1>2. word'.spin /\ WordBits(word')
  BY QueueFacts DEF UnlockSlowRespin, WordFields, WordBits
<1>3. QueueThreadOK("unlock_respin", ret[t], waking[t], waiter[t])
  BY <1>1, QueueFacts
<1>4. waking[t] \in WakeState /\ waking[t].new = <<>> /\ waking[t].late
  BY <1>3 DEF QueueThreadOK
<1>5. waiters \in Seq(Threads)
  BY DEF QueueInv, QueueTyped
<1>6. /\ waking'[t] \in WakeState /\ waking'[t].late
      /\ waking'[t].new = waiters
      /\ waking'[t].kept = waking[t].kept /\ waking'[t].wake = waking[t].wake
      /\ \A u \in Threads \ {t} : waking'[u] = waking[u]
  BY <1>1, <1>4, <1>5, QueueFacts DEF WakeState
<1>7. OthersStay(t) /\ ret'[t] = ret[t] /\ pc'[t] = "unlock_scan" /\ waiter'[t] = waiter[t]
  BY <1>1, <1>6, QueueFacts DEF OthersStay
<1>8. QueueThreadOK(pc'[t], ret'[t], waking'[t], waiter'[t])
  BY <1>3, <1>6, <1>7
  DEF QueueThreadOK, ScanLabels, WakeLabels, MayWait, ParkedLabels, Unlisted, UnlockLabels
<1>9. SpinStep(t)
  BY Zenon, <1>1, <1>2, <1>7 DEF SpinStep, MayWrite
<1>10. StepTyped(t)
  <2>1. \A p \in Threads : Untold(waking'[t].wake, pc'[t] = "unlock_v", p) =
                             Untold(waking[t].wake, pc[t] = "unlock_v", p)
    BY <1>1, <1>6, <1>7 DEF Untold
  <2>2. \A p \in Threads : Untold(waking[t].wake, pc[t] = "unlock_v", p) # {} => waiter[p].removed
    BY DEF QueueInv, WokenAreRemoved
  <2>3. waiters' \in Seq(Threads)
    BY <1>1
  <2>. QED BY <1>1, <1>2, <1>8, <2>1, <2>2, <2>3, QueueFacts DEF StepTyped
<1>11. \A p \in Threads : Total(waiters', waking'[t], p) = Total(waiters, waking[t], p)
  <2>1. \A p : Times(<<>>, p) = 0
    BY DEF CountingLaws, TimesEmptyLaw
  <2>2. \A p : /\ Times(waiters, p) \in Nat /\ Times(waking[t].kept, p) \in Nat
               /\ Times(waking[t].wake, p) \in Nat
    BY Zenon, <1>4, <1>5 DEF WakeState, CountingLaws, PositionsFiniteLaw
  <2>. QED BY <1>1, <1>4, <1>6, <2>1, <2>2 DEF Total
<1>. QED BY <1>0, <1>1, <1>7, <1>9, <1>10, <1>11, MoveKeeps DEF Unlisted

(* The kept waiters go back to the queue, the others will be woken.        *)
LEMMA UnlockSlowFinishQueue ==
  ASSUME CountingLaws, QueueInv, NEW t \in Threads, UnlockSlowFinish(t)
  PROVE  QueueStep(t)
<1>. DEFINE s == waking[t]
            s2 == [NotWaking EXCEPT !.wake = s.wake]
<1>0. MuInv'
  BY UnlockSlowFinishStep DEF QueueInv
<1>1. /\ pc[t] = "unlock_scan" /\ s.new = <<>> /\ word' = FinalWord(s) /\ waiters' = s.kept
      /\ held' = [held EXCEPT ![t] = "none"] /\ waking' = [waking EXCEPT ![t] = s2]
      /\ IF s.wake = <<>>
         THEN pc' = [pc EXCEPT ![t] = ret[t]] /\ ret' = [ret EXCEPT ![t] = "client"]
         ELSE pc' = [pc EXCEPT ![t] = "unlock_wake"] /\ ret' = ret
      /\ UNCHANGED <<waiter, locking>>
  BY DEF UnlockSlowFinish, Goto, Return
<1>2. QueueThreadOK("unlock_scan", ret[t], s, waiter[t])
  BY <1>1, QueueFacts
<1>3. /\ s \in WakeState /\ waiter[t] \in WaiterState /\ Idle(ret[t])
      /\ waiter[t].waiting => ret[t] \in ParkedLabels
  BY Zenon, <1>2, QueueFacts DEF QueueThreadOK, MayWait, ParkedLabels, Unlisted, Idle
<1>4. waiters = <<>>
  BY <1>1 DEF QueueInv, ScanHasQueue
<1>5. /\ s2 \in WakeState /\ s2.new = <<>> /\ s2.kept = <<>> /\ s2.wake = s.wake
      /\ ~s2.testing
  <2>1. NotWaking \in WakeState /\ NoLists(NotWaking) /\ ~NotWaking.testing
    BY FreshWaking DEF LockModes
  <2>2. s.wake \in Seq(Threads)
    BY Zenon, <1>3 DEF WakeState
  <2>. QED BY <2>1, <2>2 DEF WakeState, NoLists
<1>. HIDE DEF s2
<1>6. /\ waking'[t] = s2 /\ waiter'[t] = waiter[t]
      /\ IF s.wake = <<>> THEN pc'[t] = ret[t] /\ ret'[t] = "client"
         ELSE pc'[t] = "unlock_wake" /\ ret'[t] = ret[t]
      /\ \A u \in Threads \ {t} : /\ waking'[u] = waking[u] /\ held'[u] = held[u]
                                  /\ pc'[u] = pc[u] /\ ret'[u] = ret[u]
  BY Zenon, <1>1, QueueFacts
<1>7. OthersStay(t)
  BY Zenon, <1>1, <1>6 DEF OthersStay
<1>8. /\ pc'[t] \notin Unlisted /\ pc'[t] # "unlock_v" /\ ~SpinOwner(pc'[t], waking'[t])
      /\ pc'[t] # "unlock_scan"
  <2>1. CASE s.wake = <<>>
    BY <1>3, <1>6, <2>1, IdleAfter DEF Idle, MuLabels, ScanLabels
  <2>2. CASE s.wake # <<>>
    BY <1>6, <2>2 DEF Unlisted, SpinOwner, SpinLabels
  <2>. QED BY Zenon, <2>1, <2>2
<1>9. QueueThreadOK(pc'[t], ret'[t], waking'[t], waiter'[t])
  <2>1. CASE s.wake = <<>>
    <3>1. "client" \notin Afar
      BY DEF Afar, SpinLabels, Unlisted
    <3>2. NoLists(s2) /\ (waiter[t].waiting => MayWait(ret[t], "client"))
      BY <1>3, <1>5, <2>1 DEF NoLists, MayWait
    <3>. QED BY Zenon, <1>3, <1>5, <1>6, <2>1, <3>1, <3>2, OutsideQueueOK DEF Idle
  <2>2. CASE s.wake # <<>>
    BY Zenon, <1>3, <1>5, <1>6, <2>2
    DEF QueueThreadOK, ScanLabels, WakeLabels, MayWait, UnlockLabels, Idle
  <2>. QED BY <2>1, <2>2
<1>10. SpinStep(t)
  <2>1. SpinOwner(pc[t], waking[t])
    BY Zenon, <1>1 DEF SpinOwner, SpinLabels
  <2>. QED BY Zenon, <1>8, <2>1 DEF SpinStep, MayWrite
<1>11. StepTyped(t)
  <2>1. \A p \in Threads : Untold(waking'[t].wake, pc'[t] = "unlock_v", p) =
                             Untold(waking[t].wake, pc[t] = "unlock_v", p)
    BY Zenon, <1>1, <1>5, <1>6, <1>8 DEF Untold
  <2>2. \A p \in Threads : Untold(waking[t].wake, pc[t] = "unlock_v", p) # {} => waiter[p].removed
    BY DEF QueueInv, WokenAreRemoved
  <2>3. waiters' \in Seq(Threads)
    BY <1>1, <1>3 DEF WakeState
  <2>4. WordBits(word')
    <3>1. s.allFalse \in BOOLEAN /\ s.writerWaiting \in BOOLEAN
      BY Zenon, <1>3 DEF WakeState
    <3>2. word' = FinalWord(s) /\ DOMAIN word = WordFields /\ WordBits(word)
      BY Zenon, <1>1, QueueFacts
    <3>. HIDE DEF s
    <3>. QED BY <3>1, <3>2 DEF FinalWord, WordBits, WordFields
  <2>. QED BY Zenon, <1>1, <1>9, <2>1, <2>2, <2>3, <2>4, QueueFacts DEF StepTyped
<1>12. \A p \in Threads : Total(waiters', waking'[t], p) = Total(waiters, waking[t], p)
  <2>1. \A p : Times(<<>>, p) = 0
    BY DEF CountingLaws, TimesEmptyLaw
  <2>2. \A p : Times(s.kept, p) \in Nat /\ Times(s.wake, p) \in Nat
    BY Zenon, <1>3 DEF WakeState, CountingLaws, PositionsFiniteLaw
  <2>3. \A p : /\ Total(waiters', waking'[t], p) =
                   Times(s.kept, p) + (Times(<<>>, p) + Times(<<>>, p) + Times(s.wake, p))
              /\ Total(waiters, waking[t], p) =
                   Times(<<>>, p) + (Times(<<>>, p) + Times(s.kept, p) + Times(s.wake, p))
    BY Zenon, <1>1, <1>4, <1>5, <1>6 DEF Total
  <2>. QED BY <2>1, <2>2, <2>3
<1>. QED BY Zenon, <1>0, <1>1, <1>7, <1>8, <1>10, <1>11, <1>12, MoveKeeps DEF Unlisted

-----------------------------------------------------------------------------
(* Steps that tell or queue a waiter.                                      *)

(* Telling a waiter: it is listed no more, and waits no more.              *)
LEMMA UnlockSlowWakeQueue ==
  ASSUME CountingLaws, QueueInv, NEW t \in Threads, UnlockSlowWake(t)
  PROVE  QueueStep(t)
<1>. DEFINE q == Head(waking[t].wake)
<1>0. MuInv'
  BY UnlockSlowWakeStep DEF QueueInv
<1>1. /\ pc[t] = "unlock_wake" /\ waiter' = [waiter EXCEPT ![q].waiting = FALSE]
      /\ pc' = [pc EXCEPT ![t] = "unlock_v"]
      /\ UNCHANGED <<word, waiters, ret, held, locking, waking>>
  BY DEF UnlockSlowWake, ClearWaiting, Goto
<1>2. pc[t] \in WakeLabels
  BY <1>1 DEF WakeLabels
<1>3. /\ q \in Threads /\ waking[t].wake \in Seq(Threads) /\ waking[t].wake # <<>>
  BY <1>2, WakeFacts
<1>4. waiter[q].waiting /\ pc[q] \notin Unlisted
  <2>1. 1 \in Untold(waking[t].wake, pc[t] = "unlock_v", q)
    BY <1>1, <1>3 DEF Untold, Positions
  <2>2. Due(q) # 0
    BY Zenon, <1>3, <2>1, NotDueNotListed
  <2>. QED BY Zenon, <2>2 DEF Due
<1>. HIDE DEF q
<1>5. /\ DOMAIN waiter' = Threads /\ \A p \in Threads \ {q} : waiter'[p] = waiter[p]
      /\ waiter'[q] \in WaiterState /\ ~waiter'[q].waiting
      /\ waiter'[q].removed = waiter[q].removed
  <2>1. waiter[q] \in WaiterState /\ DOMAIN waiter = Threads
    BY Zenon, <1>3, QueueFacts
  <2>. QED BY Zenon, <1>1, <1>3, <2>1 DEF WaiterState
<1>6. /\ OthersStay(t) /\ pc'[t] = "unlock_v" /\ ret'[t] = ret[t] /\ waking'[t] = waking[t]
      /\ \A p \in Threads : pc'[p] \in Unlisted <=> pc[p] \in Unlisted
  <2>1. pc[q] \notin Unlisted
    BY <1>4
  <2>2. /\ pc'[t] = "unlock_v" /\ ret'[t] = ret[t] /\ waking'[t] = waking[t]
        /\ \A p \in Threads \ {t} : pc'[p] = pc[p]
    BY <1>1, QueueFacts
  <2>3. OthersStay(t)
    BY Zenon, <1>1, <1>5, <2>1, <2>2 DEF OthersStay
  <2>. QED BY <1>1, <2>2, <2>3 DEF Unlisted
<1>7. \A p \in Threads : /\ waiter'[p] \in WaiterState
                         /\ waiter[p].removed => waiter'[p].removed
                         /\ waiter'[p].waiting => waiter[p].waiting
  BY Zenon, <1>5, QueueFacts
<1>8. QueueThreadOK(pc'[t], ret'[t], waking'[t], waiter'[t])
  <2>1. waiter'[t] \in WaiterState /\ (waiter'[t].waiting => waiter[t].waiting)
    BY Zenon, <1>7
  <2>2. /\ waking[t] \in WakeState /\ waking[t].wake # <<>>
        /\ waking[t].new = <<>> /\ waking[t].kept = <<>>
        /\ waking[t].testing => waking[t].late
        /\ ret[t] \notin Afar
        /\ waiter[t].waiting => ret[t] \in ParkedLabels
    BY Zenon, <1>2, WakeFacts DEF Idle
  <2>. QED BY Zenon, <1>6, <2>1, <2>2 DEF QueueThreadOK, WakeLabels, MayWait, UnlockLabels
<1>9. SpinStep(t)
  <2>1. ~SpinOwner(pc'[t], waking'[t])
    BY Zenon, <1>6 DEF SpinOwner, SpinLabels
  <2>. QED BY <1>1, <1>6, <2>1 DEF SpinStep
<1>10. StepTyped(t)
  <2>1. ASSUME NEW p \in Threads, Untold(waking'[t].wake, pc'[t] = "unlock_v", p) # {}
        PROVE  waiter'[p].removed
    <3>1. Untold(waking[t].wake, pc[t] = "unlock_v", p) # {}
      BY <1>1, <1>6, <2>1 DEF Untold
    <3>2. waiter[p].removed
      BY <3>1 DEF QueueInv, WokenAreRemoved
    <3>. QED BY <1>7, <3>2
  <2>2. waiters' \in Seq(Threads) /\ WordBits(word')
    BY <1>1, QueueFacts DEF QueueInv, QueueTyped
  <2>. QED BY Zenon, <1>5, <1>7, <1>8, <2>1, <2>2 DEF StepTyped
<1>11. HereBalanced(t)
  <2>1. ASSUME NEW p \in Threads PROVE Here(t, p)' + Due(p) = Here(t, p) + Due(p)'
    <3>1. /\ Total(waiters, waking[t], p) \in Nat
          /\ Counted(waiters, waking[t], pc[t], p) = Total(waiters, waking[t], p)
          /\ Counted(waiters, waking[t], pc'[t], p) \in Nat
          /\ Counted(waiters, waking[t], pc'[t], p) + One(q, p) = Total(waiters, waking[t], p)
      <4>1. ListsTyped(waking[t]) /\ waiters \in Seq(Threads)
        BY <1>2, WakeFacts
      <4>2. pc[t] # "unlock_v" /\ pc'[t] = "unlock_v"
        BY <1>1, <1>6
      <4>. QED BY Zenon, <1>3, <4>1, <4>2, OwnTotal DEF q
    <3>2. /\ Here(t, p) = Counted(waiters, waking[t], pc[t], p)
          /\ Here(t, p)' = Counted(waiters, waking[t], pc'[t], p)
      BY <1>1, HereCounted
    <3>3. Due(p) = Due(p)' + One(q, p)
      <4>1. CASE p = q
        BY <1>4, <1>5, <4>1 DEF Due, One
      <4>2. CASE p # q
        BY <1>5, <1>6, <4>2 DEF Due, One
      <4>. QED BY <4>1, <4>2
    <3>4. One(q, p) \in Nat /\ Due(p)' \in Nat
      BY DEF One, Due
    <3>5. Counted(waiters, waking[t], pc'[t], p) + (Due(p)' + One(q, p))
            = (Counted(waiters, waking[t], pc'[t], p) + One(q, p)) + Due(p)'
      BY Zenon, <3>1, <3>4, Balance
    <3>. QED BY Zenon, <3>1, <3>2, <3>3, <3>5
  <2>. QED BY <2>1 DEF HereBalanced
<1>. QED BY Zenon, <1>0, <1>6, <1>9, <1>10, <1>11, QueueKeeps DEF QueueStep

(* Raising the semaphore of the waiter that was told.                      *)
LEMMA UnlockSlowVQueue ==
  ASSUME CountingLaws, QueueInv, NEW t \in Threads, UnlockSlowV(t)
  PROVE  QueueStep(t)
<1>. DEFINE q == Head(waking[t].wake)
            rest == Tail(waking[t].wake)
<1>0. MuInv'
  BY UnlockSlowVStep DEF QueueInv
<1>1. /\ pc[t] = "unlock_v" /\ waiter' = [waiter EXCEPT ![q].sem = @ + 1]
      /\ waking' = [waking EXCEPT ![t].wake = rest]
      /\ IF rest = <<>>
         THEN pc' = [pc EXCEPT ![t] = ret[t]] /\ ret' = [ret EXCEPT ![t] = "client"]
         ELSE pc' = [pc EXCEPT ![t] = "unlock_wake"] /\ ret' = ret
      /\ UNCHANGED <<word, waiters, held, locking>>
  BY DEF UnlockSlowV, SemaphoreV, Return, Goto
<1>2. pc[t] \in WakeLabels
  BY <1>1 DEF WakeLabels
<1>3. /\ q \in Threads /\ waking[t].wake \in Seq(Threads) /\ waking[t].wake # <<>>
      /\ waking[t] \in WakeState /\ rest \in Seq(Threads)
  BY <1>2, WakeFacts
<1>4. \A p : Times(waking[t].wake, p) = Times(rest, p) + One(q, p)
  BY <1>3 DEF CountingLaws, TimesTailLaw
<1>5. \A p : Positions(rest, p) # {} => Untold(waking[t].wake, pc[t] = "unlock_v", p) # {}
  <2>1. ASSUME NEW p, NEW i \in Positions(rest, p)
        PROVE  i + 1 \in Untold(waking[t].wake, pc[t] = "unlock_v", p)
    BY <1>3, <2>1 DEF Positions, Untold
  <2>. QED BY <2>1
<1>. HIDE DEF q, rest
<1>6. /\ DOMAIN waiter' = Threads
      /\ \A p \in Threads : /\ waiter'[p] \in WaiterState
                            /\ waiter'[p].waiting = waiter[p].waiting
                            /\ waiter'[p].removed = waiter[p].removed
  <2>1. waiter[q] \in WaiterState /\ DOMAIN waiter = Threads
    BY <1>3, QueueFacts
  <2>2. /\ DOMAIN waiter' = Threads /\ \A p \in Threads \ {q} : waiter'[p] = waiter[p]
        /\ waiter'[q] = [waiter[q] EXCEPT !.sem = @ + 1]
    BY <1>1, <1>3, <2>1
  <2>3. /\ waiter'[q] \in WaiterState /\ waiter'[q].waiting = waiter[q].waiting
        /\ waiter'[q].removed = waiter[q].removed
    BY <2>1, <2>2 DEF WaiterState
  <2>. QED BY Zenon, <2>2, <2>3, QueueFacts
<1>7. /\ waking'[t] \in WakeState /\ waking'[t].new = waking[t].new
      /\ waking'[t].kept = waking[t].kept /\ waking'[t].wake = rest
      /\ waking'[t].testing = waking[t].testing /\ waking'[t].late = waking[t].late
      /\ \A u \in Threads \ {t} : waking'[u] = waking[u]
  BY Zenon, <1>1, <1>3, QueueFacts DEF WakeState
<1>8. /\ IF rest = <<>> THEN pc'[t] = ret[t] /\ ret'[t] = "client"
         ELSE pc'[t] = "unlock_wake" /\ ret'[t] = ret[t]
      /\ \A u \in Threads \ {t} : pc'[u] = pc[u] /\ ret'[u] = ret[u]
  BY <1>1, QueueFacts
<1>9. OthersStay(t)
  BY <1>1, <1>6, <1>7, <1>8 DEF OthersStay
<1>10. /\ Idle(ret[t]) /\ ret[t] \notin Afar
       /\ waking[t].new = <<>> /\ waking[t].kept = <<>>
       /\ waking[t].testing => waking[t].late
       /\ waiter[t].waiting => ret[t] \in ParkedLabels
       /\ pc[t] \notin Unlisted /\ ListsTyped(waking[t]) /\ waiters \in Seq(Threads)
  BY <1>2, WakeFacts DEF Idle
<1>11. /\ pc'[t] \notin Unlisted /\ pc'[t] # "unlock_v" /\ ~SpinOwner(pc'[t], waking'[t])
  <2>1. CASE rest = <<>>
    BY Zenon, <1>8, <1>10, <2>1, IdleAfter
  <2>2. CASE rest # <<>>
    BY <1>8, <2>2 DEF Unlisted, SpinOwner, SpinLabels
  <2>. QED BY <2>1, <2>2
<1>12. QueueThreadOK(pc'[t], ret'[t], waking'[t], waiter'[t])
  <2>0. waiter'[t] \in WaiterState /\ waiter'[t].waiting = waiter[t].waiting
    BY <1>6
  <2>1. CASE rest = <<>>
    <3>1. "client" \notin Afar /\ ret[t] \notin MuLabels
      BY <1>10 DEF Afar, SpinLabels, Unlisted, Idle
    <3>2. NoLists(waking'[t]) /\ (waiter'[t].waiting => MayWait(ret[t], "client"))
      BY <1>7, <1>10, <2>0, <2>1 DEF NoLists, MayWait
    <3>3. pc'[t] = ret[t] /\ ret'[t] = "client" /\ (waking'[t].testing => waking'[t].late)
      BY Zenon, <1>7, <1>8, <1>10, <2>1
    <3>. QED BY Zenon, <1>7, <2>0, <3>1, <3>2, <3>3, OutsideQueueOK
  <2>2. CASE rest # <<>>
    BY Zenon, <1>7, <1>8, <1>10, <2>0, <2>2
    DEF QueueThreadOK, ScanLabels, WakeLabels, MayWait, UnlockLabels
  <2>. QED BY <2>1, <2>2
<1>13. SpinStep(t)
  BY <1>1, <1>11, SpinQuiet
<1>14. StepTyped(t)
  <2>1. ASSUME NEW p \in Threads, Untold(waking'[t].wake, pc'[t] = "unlock_v", p) # {}
        PROVE  waiter'[p].removed
    <3>1. Untold(waking[t].wake, pc[t] = "unlock_v", p) # {}
      BY Zenon, <1>5, <1>7, <2>1 DEF Untold
    <3>2. waiter[p].removed
      BY <3>1 DEF QueueInv, WokenAreRemoved
    <3>. QED BY <1>6, <3>2
  <2>2. waiters' \in Seq(Threads) /\ WordBits(word')
    BY <1>1, <1>10, QueueFacts
  <2>. QED BY Zenon, <1>6, <1>12, <2>1, <2>2 DEF StepTyped
<1>15. HereBalanced(t)
  <2>1. ASSUME NEW p \in Threads PROVE Here(t, p)' + Due(p) = Here(t, p) + Due(p)'
    <3>1. /\ Counted(waiters, waking[t], pc[t], p) \in Nat
          /\ Counted(waiters, waking[t], pc[t], p) + One(q, p) = Total(waiters, waking[t], p)
      BY <1>1, <1>3, <1>10, OwnTotal DEF q
    <3>2. Counted(waiters, waking'[t], pc'[t], p) = Total(waiters, waking'[t], p)
      <4>1. ListsTyped(waking'[t])
        BY Zenon, <1>7 DEF WakeState, ListsTyped
      <4>. QED BY Zenon, <1>10, <1>11, <4>1, QuietTotal
    <3>3. Total(waiters, waking[t], p) = Total(waiters, waking'[t], p) + One(q, p)
      <4>1. /\ Times(waiters, p) \in Nat /\ Times(waking[t].new, p) \in Nat
            /\ Times(waking[t].kept, p) \in Nat /\ Times(rest, p) \in Nat
            /\ One(q, p) \in Nat
        BY Zenon, <1>3, <1>10 DEF ListsTyped, One, CountingLaws, PositionsFiniteLaw
      <4>2. Times(waking[t].wake, p) = Times(rest, p) + One(q, p)
        BY Zenon, <1>4
      <4>3. Times(waking[t].wake, p) = Times(waking'[t].wake, p) + One(q, p)
        BY Zenon, <1>7, <4>2
      <4>4. Times(waking'[t].wake, p) \in Nat
        BY Zenon, <1>7, <4>1
      <4>. QED BY <1>7, <4>1, <4>3, <4>4, TotalLess
    <3>4. Total(waiters, waking'[t], p) \in Nat /\ One(q, p) \in Nat
      <4>1. ListsTyped(waking'[t])
        BY Zenon, <1>7 DEF WakeState, ListsTyped
      <4>2. One(q, p) \in Nat
        BY DEF One
      <4>. QED BY Zenon, <1>10, <1>11, <4>1, <4>2, QuietTotal
    <3>5. /\ Here(t, p) = Counted(waiters, waking[t], pc[t], p)
          /\ Here(t, p)' = Counted(waiters, waking'[t], pc'[t], p)
      BY <1>1, HereCounted
    <3>6. Due(p)' = Due(p)
      BY <1>6, <1>8, <1>10, <1>11 DEF Due
    <3>7. Counted(waiters, waking[t], pc[t], p) = Total(waiters, waking'[t], p)
      BY Zenon, <3>1, <3>3, <3>4, Cancelled
    <3>. QED BY Zenon, <3>2, <3>5, <3>6, <3>7
  <2>. QED BY <2>1 DEF HereBalanced
<1>. QED BY <1>0, <1>9, <1>13, <1>14, <1>15, QueueKeeps DEF QueueStep

(* Queueing: a thread that puts its waiter in the queue marks it.          *)
LEMMA LockSlowQueueQueue ==
  ASSUME CountingLaws, QueueInv, NEW t \in Threads, LockSlowQueue(t)
  PROVE  QueueStep(t)
<1>0. MuInv'
  BY LockSlowQueueStep DEF QueueInv
<1>1. /\ pc[t] = "lock_queue" /\ waiter' = [waiter EXCEPT ![t].waiting = TRUE]
      /\ waiters' = Append(waiters, t) \/ waiters' = <<t>> \o waiters
      /\ word' = [word EXCEPT !.spin = FALSE] /\ pc' = [pc EXCEPT ![t] = "lock_wait"]
      /\ UNCHANGED <<ret, held, locking, waking>>
  BY DEF LockSlowQueue, Goto
<1>2. QueueThreadOK("lock_queue", ret[t], waking[t], waiter[t])
  BY <1>1, QueueFacts
<1>3. /\ ~waiter[t].waiting /\ NoLists(waking[t]) /\ waking[t] \in WakeState
      /\ waking[t].testing => waking[t].late
      /\ ret[t] \notin Afar
  BY <1>2 DEF QueueThreadOK, MayWait, ParkedLabels, Unlisted, UnlockLabels, ScanLabels, WakeLabels
<1>4. /\ DOMAIN waiter' = Threads /\ \A p \in Threads \ {t} : waiter'[p] = waiter[p]
      /\ waiter'[t] \in WaiterState /\ waiter'[t].waiting
      /\ waiter'[t].removed = waiter[t].removed
  BY Zenon, <1>1, QueueFacts DEF WaiterState
<1>5. /\ OthersStay(t) /\ pc'[t] = "lock_wait" /\ ret'[t] = ret[t] /\ waking'[t] = waking[t]
      /\ \A p \in Threads \ {t} : pc'[p] = pc[p]
  BY <1>1, <1>4, QueueFacts DEF OthersStay
<1>6. QueueThreadOK(pc'[t], ret'[t], waking'[t], waiter'[t])
  BY Zenon, <1>3, <1>4, <1>5 DEF QueueThreadOK, MayWait, ParkedLabels, ScanLabels, WakeLabels
<1>7. SpinStep(t)
  <2>1. SpinOwner(pc[t], waking[t]) /\ ~SpinOwner(pc'[t], waking'[t])
    BY <1>1, <1>5 DEF SpinOwner, SpinLabels
  <2>. QED BY Zenon, <1>5, <2>1 DEF SpinStep, MayWrite
<1>8. waiters \in Seq(Threads)
  BY DEF QueueInv, QueueTyped
<1>9. StepTyped(t)
  <2>1. \A p \in Threads : Untold(waking'[t].wake, pc'[t] = "unlock_v", p) = {}
    BY Zenon, <1>3, <1>5, NoListsUntold
  <2>2. waiters' \in Seq(Threads)
    <3>1. Append(waiters, t) \in Seq(Threads) /\ <<t>> \o waiters \in Seq(Threads)
      BY <1>8
    <3>. QED BY Zenon, <1>1, <3>1
  <2>3. WordBits(word')
    BY <1>1, QueueFacts DEF WordBits, WordFields
  <2>4. \A p \in Threads : /\ waiter'[p] \in WaiterState
                           /\ waiter[p].removed => waiter'[p].removed
    BY Zenon, <1>4, QueueFacts
  <2>. QED BY Zenon, <1>4, <1>6, <2>1, <2>2, <2>3, <2>4 DEF StepTyped
<1>10. HereBalanced(t)
  <2>1. ASSUME NEW p \in Threads PROVE Here(t, p)' + Due(p) = Here(t, p) + Due(p)'
    <3>1. Times(waiters', p) = Times(waiters, p) + One(t, p) /\ Times(waiters, p) \in Nat
      BY Zenon, <1>1, <1>8 DEF CountingLaws, TimesQueuedLaw, PositionsFiniteLaw
    <3>2. Append(waiters, t) \in Seq(Threads) /\ <<t>> \o waiters \in Seq(Threads)
      BY <1>8
    <3>3. Here(t, p) = Times(waiters, p) /\ Here(t, p)' = Times(waiters', p)
      <4>1. waiters' \in Seq(Threads)
        BY Zenon, <1>1, <3>2
      <4>2. Counted(waiters, waking[t], pc[t], p) = Times(waiters, p)
        BY Zenon, <1>3, <1>8, NoListsCounted
      <4>3. NoLists(waking'[t])
        BY Zenon, <1>3, <1>5
      <4>4. Counted(waiters', waking'[t], pc'[t], p) = Times(waiters', p)
        BY Zenon, <4>1, <4>3, NoListsCounted
      <4>. QED BY Zenon, <4>2, <4>4, HereCounted
    <3>4. Due(p)' = Due(p) + One(t, p)
      <4>1. CASE p = t
        BY <1>3, <1>4, <1>5, <4>1 DEF Due, One, Unlisted
      <4>2. CASE p # t
        <5>1. Due(p)' = Due(p) /\ One(t, p) = 0
          BY Zenon, <1>4, <1>5, <4>2 DEF Due, One
        <5>2. Due(p) \in Nat
          BY DEF Due
        <5>. QED BY <5>1, <5>2
      <4>. QED BY <4>1, <4>2
    <3>5. One(t, p) \in Nat /\ Due(p) \in Nat
      BY DEF One, Due
    <3>6. (Times(waiters, p) + One(t, p)) + Due(p) = Times(waiters, p) + (Due(p) + One(t, p))
      BY Zenon, <3>1, <3>5, Balance
    <3>. QED BY Zenon, <3>1, <3>3, <3>4, <3>6
  <2>. QED BY <2>1 DEF HereBalanced
<1>. QED BY <1>0, <1>5, <1>7, <1>9, <1>10, QueueKeeps DEF QueueStep

-----------------------------------------------------------------------------
(* Every step of the mutex.                                                *)

(* A step inside lock or unlock keeps every waiter on one list.            *)
LEMMA MuStepQueue ==
  ASSUME CountingLaws, QueueInv, NEW t \in Threads, MuStep(t) \/ TestStep(t)
  PROVE  QueueStep(t)
<1>1. CASE MuStep(t)
  BY Zenon, <1>1, LockSlowAcquireQueue, LockSlowSpinlockQueue, LockSlowQueueQueue,
     LockSlowWaitQueue, LockSlowPQueue, UnlockSlowReleaseQueue, UnlockSlowSpinlockQueue,
     UnlockSlowScanQueue, UnlockSlowFinishQueue, UnlockSlowWakeQueue, UnlockSlowVQueue
  DEF MuStep
<1>2. CASE TestStep(t)
  BY Zenon, <1>2, UnlockSlowDropSpinlockQueue, UnlockSlowTestQueue, UnlockSlowRespinQueue
  DEF TestStep
<1>. QED BY <1>1, <1>2

(* So does a call of lock by a thread that holds nothing and waits for     *)
(* nothing.                                                                *)
LEMMA LockBodyQueue ==
  ASSUME CountingLaws, QueueInv, NEW t \in Threads, Idle(pc[t]), held[t] = "none",
         ~waiter[t].waiting,
         NEW mode \in LockModes, NEW next, Idle(next), LockBody(t, mode, next)
  PROVE  QueueStep(t)
<1>1. CASE AcquireNow(t, mode, next)
  BY Zenon, <1>1, AcquireNowQueue
<1>2. CASE EnterLockSlow(t, mode, FALSE, next)
  BY Zenon, <1>2, EnterLockSlowQueue
<1>. QED BY Zenon, <1>1, <1>2 DEF LockBody

(* So does a call of unlock, also in a wait that is queued.                *)
LEMMA UnlockBodyQueue ==
  ASSUME CountingLaws, QueueInv, NEW t \in Threads, Idle(pc[t]), held[t] \in LockModes,
         NEW next, Idle(next), waiter[t].waiting => next \in ParkedLabels,
         UnlockBody(t, held[t], next)
  PROVE  QueueStep(t)
<1>0. MuInv
  BY DEF QueueInv
<1>1. CASE ReleaseNow(t, held[t], next)
  BY <1>1, ReleaseNowQueue
<1>2. CASE EnterUnlockSlow(t, held[t], next)
  BY <1>2, EnterUnlockSlowQueue
<1>. QED BY Zenon, <1>0, <1>1, <1>2, UnlockChecksPass
       DEF UnlockBody, WriterUnlockBody, ReaderUnlockBody, LockModes

(* Nothing of the mutex changes.                                           *)
LEMMA QueueStutters ==
  ASSUME QueueInv,
         UNCHANGED <<word, waiters, waiter, pc, ret, held, locking, waking>>
  PROVE  QueueInv' /\ Balanced /\ \A t \in Threads : SpinStep(t) /\ OthersStay(t)
<1>1. MuInv'
  BY DEF QueueInv, MuInv, CountsHolders
<1>2. QueueTyped'
  BY DEF QueueInv, QueueTyped, WordBits
<1>3. OneOwner' /\ ScanHasQueue'
  BY DEF QueueInv, OneOwner, ScanHasQueue
<1>4. \A p \in Threads : MuPlaces(p)' = MuPlaces(p) /\ Due(p)' = Due(p)
  BY DEF MuPlaces, Due, Untold, Positions
<1>5. ListedAreDue'
  BY <1>4 DEF QueueInv, ListedAreDue
<1>6. WokenAreRemoved'
  BY DEF QueueInv, WokenAreRemoved, Untold, Positions
<1>7. Balanced
  BY <1>4 DEF Balanced
<1>8. ASSUME NEW t \in Threads PROVE SpinStep(t) /\ OthersStay(t)
  <2>1. pc'[t] = "unlock_scan" => waiters' = <<>>
    BY DEF QueueInv, ScanHasQueue
  <2>2. SpinOwner(pc'[t], waking'[t]) => word'.spin /\ SpinOwner(pc[t], waking[t])
    BY DEF QueueInv, OneOwner
  <2>. QED BY <2>1, <2>2 DEF SpinStep, OthersStay
<1>. QED BY <1>1, <1>2, <1>3, <1>5, <1>6, <1>7, <1>8 DEF QueueInv

(* At first nobody waits and no list names anyone.                         *)
LEMMA InitQueueInv ==
  ASSUME CountingLaws, Init
  PROVE  QueueInv /\ \A p \in Threads : Cardinality(MuPlaces(p)) = 0 /\ Due(p) = 0
<1>1. MuInv
  BY InitMuInv
<1>2. \A t \in Threads : /\ pc[t] = "client" /\ ret[t] = "client" /\ waking[t] = NotWaking
                         /\ waiter[t] = NewWaiter
  BY DEF Init
<1>3. QueueTyped
  <2>1. NotWaking \in WakeState /\ NoLists(NotWaking) /\ ~NotWaking.testing
    BY FreshWaking DEF LockModes
  <2>2. NewWaiter \in WaiterState /\ ~NewWaiter.waiting
    BY DEF NewWaiter, WaiterState, LockModes
  <2>3. "client" \notin Afar /\ "client" \notin MuLabels
    BY ClientOutside DEF Afar, SpinLabels, Unlisted
  <2>4. QueueThreadOK("client", "client", NotWaking, NewWaiter)
    BY <2>1, <2>2, <2>3, OutsideQueueOK
  <2>5. WordBits(word) /\ waiters \in Seq(Threads) /\ DOMAIN waiter = Threads
    BY DEF Init, FreeWord, WordBits
  <2>. QED BY <1>2, <2>4, <2>5 DEF QueueTyped
<1>4. OneOwner /\ ScanHasQueue
  BY <1>2 DEF OneOwner, ScanHasQueue, SpinOwner, SpinLabels
<1>5. \A u, p \in Threads : Untold(waking[u].wake, pc[u] = "unlock_v", p) = {}
  BY <1>2 DEF Untold, Positions, NotWaking
<1>6. ASSUME NEW p \in Threads PROVE Cardinality(MuPlaces(p)) = 0 /\ Due(p) = 0
  <2>1. \A u \in Threads : Positions(waking[u].new, p) = {} /\ Positions(waking[u].kept, p) = {}
    <3>1. NotWaking.new = <<>> /\ NotWaking.kept = <<>> /\ Positions(<<>>, p) = {}
      BY DEF NotWaking, Positions
    <3>. QED BY Zenon, <1>2, <3>1
  <2>2. Positions(waiters, p) = {}
    BY DEF Init, Positions
  <2>3. MuPlaces(p) = {}
    BY <1>5, <2>1, <2>2 DEF MuPlaces
  <2>. QED BY <1>2, <2>3 DEF Due, NewWaiter, CountingLaws, CardinalityLaw
<1>7. ListedAreDue /\ WokenAreRemoved
  BY <1>5, <1>6 DEF ListedAreDue, WokenAreRemoved
<1>. QED BY <1>1, <1>3, <1>4, <1>6, <1>7 DEF QueueInv
==============================================================================
