----------------------------- MODULE MCRpmalloc -----------------------------
(* Rpmalloc with two threads, for TLC.                                     *)
EXTENDS Rpmalloc

CONSTANTS w1, w2, h1, h2

\* A memory page holds one block of class 1 and two of class 2.
MCLinkedBlocks == [c \in Classes |-> c]

WorkerSymmetry == Permutations(Workers)
=============================================================================
