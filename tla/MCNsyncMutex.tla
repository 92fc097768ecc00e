----------------------------- MODULE MCNsyncMutex -----------------------------
(* A behaviour is one of MCNsyncMuWait, or of the rings of its queue.          *)
EXTENDS MCNsyncMuWait, NsyncRings

CONSTANTS w1, w2, w3, w4, f1, f2

VARIABLE part

mutexVars == <<waitVars, clients, ringVars, part>>

MutexInit ==
  /\ MCWaitInit /\ RingInit
  /\ part = "mutex" \/ (part = "rings" /\ clients = "lockers")

MutexNext ==
  /\ UNCHANGED part
  /\ \/ part = "mutex" /\ MCWaitNext /\ UNCHANGED ringVars
     \/ part = "rings" /\ RingNext /\ UNCHANGED <<waitVars, clients>>

MutexSpec == MutexInit /\ [][MutexNext]_mutexVars

=============================================================================
