---------------------------- MODULE MCHashForeach ----------------------------
(***************************************************************************)
(* Instances of HashForeach for TLC: four keys, two of them equal, whose   *)
(* hashes share a bin.                                                     *)
(***************************************************************************)
EXTENDS HashForeach

MCIdent == [k \in Key |-> IF k = 2 THEN 1 ELSE k]
MCRawHash == [k \in Key |-> IF k = 4 THEN 1 ELSE 0]
=============================================================================
