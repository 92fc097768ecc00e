---------------------------- MODULE MCNsyncMuWait ----------------------------
(***************************************************************************)
(* The mutex on small sets of threads and conditions.  In a behaviour of   *)
(* MCWaitSpec the clients only lock and unlock, or they wait for           *)
(* conditions as well: all in write mode, or in both modes.                *)
(***************************************************************************)
EXTENDS NsyncMuWait, TLC

CONSTANTS
  t1, t2, t3, c1,
  WaitCalls  \* bound: calls of a thread that also waits for conditions

VARIABLE clients

MCWaitInit == WaitInit /\ clients \in {"lockers", "writers", "mixed"}

MCWaitNext ==
  /\ IF clients = "lockers"
     THEN Next /\ UNCHANGED waitOnly
     ELSE /\ WaitNextBy(Threads, IF clients = "writers" THEN {"w"} ELSE Modes)
          /\ \A t \in Threads : Calls - calls'[t] <= WaitCalls
  /\ UNCHANGED clients

MCWaitSpec == MCWaitInit /\ [][MCWaitNext]_<<waitVars, clients>>

\* Among clients that only lock and unlock no wake-up is lost.
LockersMissNothing == clients = "lockers" => NobodyLeftAsleep

\* Among writers no wake-up is lost, also when a wait times out: an unlock that
\* makes a condition true, or leaves one true, wakes its waiter.
WritersMissNothing == clients = "writers" => NoConditionMissed

ThreadSymmetry == Permutations(Threads)
=============================================================================
