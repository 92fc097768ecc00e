---------------------------- MODULE MCHashReentry ----------------------------
(* HashReentry with keys whose hashes collide: 1 and 2 are equal keys, 5 is  *)
(* another key with their hash (its raw hash is the reserved one).           *)
EXTENDS HashReentry

MCIdent == [k \in Key |-> IF k = 2 THEN 1 ELSE k]

MCRawHash ==
  [k \in Key |-> CASE k \in {1, 2} -> 0 [] k = 3 -> 16 [] k = 5 -> RESERVED_HASH]

\* Callbacks that leave the table changed but not rebuilt: any of a lookup,
\* the hash callback of an operation that hashes before it looks, update's.
MCMutate ==
  ({"lookup"} \X Callbacks) \cup
  ({"insert", "insert2", "delete", "update", "update_delete"} \X {"hash"}) \cup
  {<<"update", "update">>}

\* Callbacks whose rebuild the operation detects.
MCRebuild ==
  MCMutate \cup
  ({"insert", "insert2", "delete", "update", "update_delete"} \X {"compare"})

\* Any compare callback may change the table, as entry_matches says.
AnyCompare == {"delete"} \X {"compare"}
=============================================================================
