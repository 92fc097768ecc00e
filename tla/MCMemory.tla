------------------------------ MODULE MCMemory ------------------------------
(***************************************************************************)
(* The memory of the library, for TLC: arenas, an array on top of them and *)
(* rpmalloc below them.  A behaviour is one of these parts on its own:     *)
(* part is chosen at the start and the others stay idle.  The page         *)
(* allocator of rpmalloc is taken apart in three: two threads that ask for *)
(* zeroed memory, three threads, and two threads with two size classes.    *)
(***************************************************************************)
EXTENDS Arena, Array, Rpmalloc

CONSTANTS w1, w2, w3, h1, h2, e1

VARIABLE part

memoryVars == <<vars, arrayVars, rpVars, part>>

\* A memory page holds one block of class 1 and two of class 2.
MCLinkedBlocks == [c \in Classes |-> c]

Started == {t \in Workers : worker[t].at # "ended"}

MemoryInit ==
  /\ part \in {"arena", "array", "zeroing", "threads", "classes"}
  /\ Init /\ ArrayInit /\ RpInit
  /\ Cardinality(Started) = CASE part \in {"arena", "array"} -> 0
                              [] part = "threads" -> 3
                              [] OTHER -> 2

MemoryNext ==
  /\ UNCHANGED part
  /\ \/ part = "arena" /\ Next /\ UNCHANGED <<arrayVars, rpVars>>
     \/ part = "array" /\ ArrayNext /\ UNCHANGED <<vars, rpVars>>
     \/ part = "zeroing" /\ RpNextBy({1}, BOOLEAN) /\ UNCHANGED <<vars, arrayVars>>
     \/ part = "threads" /\ RpNextBy({1}, {FALSE}) /\ UNCHANGED <<vars, arrayVars>>
     \/ part = "classes" /\ RpNextBy(Classes, {FALSE}) /\ UNCHANGED <<vars, arrayVars>>

MemorySpec == MemoryInit /\ [][MemoryNext]_memoryVars

\* No operation reads what the last one returned.  What memory holds matters
\* only where zeroed memory is asked for.
MemoryView ==
  <<heap, arena, blocks, written, storage, used, cut, pageVars, poolVars, worker,
    lent, zeroed, IF part = "zeroing" THEN dirty ELSE {}, part>>

WorkerSymmetry == Permutations(Workers)
=============================================================================
