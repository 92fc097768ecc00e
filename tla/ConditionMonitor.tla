-------------------------- MODULE ConditionMonitor --------------------------
(***************************************************************************)
(* Monitor, with the rest of what a wait on a Condition of laserd.thread   *)
(* promises its caller: it returns with the mutex held again, in the mode  *)
(* in which it was held when the wait was called.                          *)
(***************************************************************************)
EXTENDS Monitor

VARIABLE owed  \* the mode in which the wait of a thread must return, or "none"

conditionVars == <<monitorVars, owed>>

ConditionInit == Init /\ owed = [t \in Threads |-> "none"]

LockCall(t, mode) == owed[t] = "none" /\ Acquire(t, mode) /\ UNCHANGED owed

UnlockCall(t) == Release(t) /\ UNCHANGED owed

(* A waiter that a signal picked before it could block only releases.      *)
WaitCall(t) ==
  /\ Wait(t) \/ Release(t)
  /\ owed' = [owed EXCEPT ![t] = holds[t]]

WaitReturn(t) ==
  /\ owed[t] # "none" /\ Acquire(t, owed[t])
  /\ owed' = [owed EXCEPT ![t] = "none"]

WakeCall(woken) == Wake(woken) /\ UNCHANGED owed

ConditionNext ==
  \/ \E t \in Threads :
       \/ \E mode \in {"w", "r"} : LockCall(t, mode)
       \/ UnlockCall(t) \/ WaitCall(t) \/ WaitReturn(t)
  \/ \E woken \in SUBSET sleeping : WakeCall(woken)

ConditionSpec == ConditionInit /\ [][ConditionNext]_conditionVars
=============================================================================
