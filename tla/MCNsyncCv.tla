------------------------------ MODULE MCNsyncCv ------------------------------
(* NsyncCv on small sets of consumers and producers.                         *)
EXTENDS NsyncCv, TLC

CONSTANTS t1, t2, t3, t4

ClientSymmetry == Permutations(Consumers) \cup Permutations(Producers)
=============================================================================
