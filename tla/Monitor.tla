------------------------------ MODULE Monitor ------------------------------
(***************************************************************************)
(* What a Mutex and a Condition of laserd.thread promise: a reader-writer  *)
(* lock and a Mesa condition variable, each operation in one step.         *)
(***************************************************************************)
EXTENDS FiniteSets

CONSTANT Threads

VARIABLES
  holds,    \* the mode in which each thread holds the mutex: "none", "w", "r"
  sleeping  \* the threads that wait for the condition

monitorVars == <<holds, sleeping>>

Init ==
  /\ holds = [t \in Threads |-> "none"]
  /\ sleeping = {}

Compatible(t, mode) ==
  \A u \in Threads \ {t} : holds[u] = "none" \/ (mode = "r" /\ holds[u] = "r")

Acquire(t, mode) ==
  /\ holds[t] = "none" /\ t \notin sleeping
  /\ Compatible(t, mode)
  /\ holds' = [holds EXCEPT ![t] = mode]
  /\ UNCHANGED sleeping

Release(t) ==
  /\ holds[t] # "none"
  /\ holds' = [holds EXCEPT ![t] = "none"]
  /\ UNCHANGED sleeping

(* The last reader keeps others out while its unlock tests conditions.     *)
Promote(t) ==
  /\ holds[t] = "r"
  /\ Compatible(t, "w")
  /\ holds' = [holds EXCEPT ![t] = "w"]
  /\ UNCHANGED sleeping

(* A reader whose timed-out wait took the mutex alone goes back to sharing. *)
Demote(t) ==
  /\ holds[t] = "w"
  /\ holds' = [holds EXCEPT ![t] = "r"]
  /\ UNCHANGED sleeping

(* Release the mutex and block, in one step.                               *)
Wait(t) ==
  /\ holds[t] # "none"
  /\ holds' = [holds EXCEPT ![t] = "none"]
  /\ sleeping' = sleeping \cup {t}

(* A signal, a broadcast or a timeout.                                     *)
Wake(woken) ==
  /\ woken # {} /\ woken \subseteq sleeping
  /\ sleeping' = sleeping \ woken
  /\ UNCHANGED holds

Next ==
  \/ \E t \in Threads :
       \/ \E mode \in {"w", "r"} : Acquire(t, mode)
       \/ Release(t) \/ Promote(t) \/ Demote(t) \/ Wait(t)
  \/ \E woken \in SUBSET sleeping : Wake(woken)

Spec == Init /\ [][Next]_monitorVars
=============================================================================
