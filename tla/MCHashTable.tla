----------------------------- MODULE MCHashTable -----------------------------
(***************************************************************************)
(* Instances of HashTable for TLC.  Keys are small numbers: 1 and 2 are    *)
(* equal under the policy; the hashes of 1 .. 4 start in the same bin of 8 *)
(* and key 4 leaves it along another path, through its perturbation; the   *)
(* hash of key 5 is the reserved one, which normalize_hash maps to 0.      *)
(***************************************************************************)
EXTENDS HashTable

MCIdent == [k \in Key |-> IF k = 2 THEN 1 ELSE k]
MCRawHash == [k \in Key |->
  CASE k \in {1, 2} -> 0 [] k = 3 -> 16 [] k = 4 -> 2048 * 3 [] k = 5 -> RESERVED_HASH]

\* What callers store in one behaviour: equal keys and the reserved hash with
\* two values, or three keys that meet in the same bins.  They look for all keys.
Plans == {{1, 2, 5} \X {0, 1}, {1, 3, 4} \X {0}}

VARIABLE plan

MCInit == Init /\ plan \in Plans

MCNext ==
  /\ Next
  /\ UNCHANGED plan
  /\ tab' # NoTable =>
       \A i \in Live(tab') : <<tab'.entries[i].key, tab'.entries[i].record>> \in plan

MCSpec == MCInit /\ [][MCNext]_<<vars, plan>>

\* No operation reads out, nor what a deleted entry still holds.
View ==
  IF tab = NoTable THEN <<plan, tab>>
  ELSE <<plan, [tab EXCEPT !.entries =
          [i \in DOMAIN @ |-> IF @[i].hash = DELETED_HASH THEN 0 ELSE @[i]]]>>
=============================================================================
