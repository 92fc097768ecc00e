----------------------------- MODULE MCNsyncLive -----------------------------
(***************************************************************************)
(* Liveness of the mutex, of the condition variable and of conditional     *)
(* critical sections.  A behaviour is one of the three on its own: part is *)
(* chosen at the start and what the others need stays idle.                *)
(***************************************************************************)
EXTENDS NsyncCv, NsyncMuWait

CONSTANTS t1, t2, t3, c1

\* Two threads are enough for the waits; they may wait as often as they like.
WaitClients == {t1, t2}

VARIABLE part

liveVars == <<muVars, cvOnly, waitOnly, part>>

LiveInit == part \in {"mutex", "condition", "wait"} /\ CvInit /\ WaitInit

\* Conditional critical sections are used by writers; see NoConditionMissed.
LiveNext ==
  /\ UNCHANGED part
  /\ \/ part = "mutex" /\ Next /\ UNCHANGED <<cvOnly, waitOnly>>
     \/ part = "condition" /\ CvNext /\ UNCHANGED waitOnly
     \/ part = "wait" /\ WaitNextBy(WaitClients, {"w"}) /\ UNCHANGED cvOnly

\* The operating system runs every thread, and clients go on with their jobs.
LiveFairness ==
  \A t \in Threads :
    /\ WF_muVars(part = "mutex" /\ (Unlock(t) \/ MuStep(t)))
    /\ WF_cvVars(part = "condition" /\ (CvStep(t) \/ ClientStep(t)))
    /\ WF_waitVars(part = "wait" /\ (ClientUnlock(t) \/ WaitStep(t)))

LiveSpec == LiveInit /\ [][LiveNext]_liveVars /\ LiveFairness

(* Threads, and among them consumers, differ in nothing but their names:   *)
(* what holds for t1 holds for each.                                       *)

\* Every lock and unlock returns, if holders unlock: neither lost wake-ups nor
\* the spinlock can block a thread for ever.
EveryCallReturns == part = "mutex" => CallsReturn(t1)

\* No lost wake-up end to end: after a broadcast every consumer gets its item,
\* and its calls return.
EverybodyServed == part = "condition" => Served(t1)

\* A wait of a writer whose condition stays true returns, without any signal.
TrueConditionEndsEveryWait == part = "wait" => TrueConditionEndsWait(t1)
=============================================================================
