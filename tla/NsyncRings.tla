----------------------------- MODULE NsyncRings -----------------------------
(***************************************************************************)
(* The rings of neighbours with equal conditions in the queue of an        *)
(* nsync_mu (same_condition, library/nsync/internal/mu.c and mu_wait.c).   *)
(* When a condition is false, the scan of an unlock skips the rest of its  *)
(* ring without testing it; NsyncMu tests every waiter.  That the two come *)
(* to the same depends on the rings alone, and they are modelled here with *)
(* all that changes them: waiters that queue at either end, waits that     *)
(* time out, and the scan, which works on lists of its own while others    *)
(* queue.  Which waiter a scan wakes or passes over also depends on lock   *)
(* modes; that choice is left open.                                        *)
(***************************************************************************)
EXTENDS Naturals, Sequences, Functions

CONSTANTS
  Waiters,     \* waiter structs
  WaitConditions,  \* non-nil conditions (cond.f and its argument)
  Nil          \* a null condition function, and a null pointer

VARIABLES
  cond,   \* the condition of each waiter
  ring,   \* w->same_condition of each waiter: its next and prev
  queue,  \* mu->waiters, first to last
  new,    \* new_waiters of the scan
  kept,   \* waiters of the scan
  at,     \* p of the scan: a waiter of new, or Nil at the end of its loop
  scan    \* "none", or what the scan has woken: "nobody", "readers", "writer"

ringVars == <<cond, ring, queue, new, kept, at, scan>>

RingInit ==
  /\ cond = [w \in Waiters |-> Nil]
  /\ ring = [w \in Waiters |-> [next |-> w, prev |-> w]]
  /\ queue = <<>> /\ new = <<>> /\ kept = <<>>
  /\ at = Nil /\ scan = "none"

-----------------------------------------------------------------------------
(* Lists of waiters, which are circular: a list is known by its last.      *)

FirstOf(list) == IF list = <<>> THEN Nil ELSE list[1]
LastOf(list) == IF list = <<>> THEN Nil ELSE list[Len(list)]
Place(list, w) == CHOOSE i \in DOMAIN list : list[i] = w
NextOf(list, w) ==
  IF w \notin Range(list) \/ w = LastOf(list) THEN Nil ELSE list[Place(list, w) + 1]
Before(list, w) == IF w = FirstOf(list) THEN LastOf(list) ELSE list[Place(list, w) - 1]
After(list, w) == IF w = LastOf(list) THEN FirstOf(list) ELSE list[Place(list, w) + 1]
Without(list, w) == SelectSeq(list, LAMBDA v : v # w)

(* nsync_dll_splice_after_ on two rings.                                   *)
SpliceAfter(r, p, n) ==
  LET second == r[p].next
      last == r[n].prev
  IN [r EXCEPT ![p].next = n, ![n].prev = p, ![last].next = second, ![second].prev = last]

(* nsync_maybe_merge_conditions_, with the conditions c.                   *)
MergeConditions(r, c, p, n) ==
  IF p # Nil /\ n # Nil /\ c[p] # Nil /\ c[p] = c[n] THEN SpliceAfter(r, p, n) ELSE r

(* Mutant: a waiter that leaves stays in the ring of its neighbours.       *)
KeepsRing(list, w) ==
  IF Len(list) > 1 /\ ring[w].next = w /\ Before(list, w) # LastOf(Without(list, w))
  THEN MergeConditions(ring, cond, Before(list, w), After(list, w))
  ELSE ring

(* The rings after nsync_remove_from_mu_queue_: w leaves its ring, or, if  *)
(* it was alone, its neighbours merge, unless the queue only meets itself. *)
RingAfterRemoval(list, w) ==
  LET rest == Without(list, w) IN
  IF rest = <<>> THEN ring
  ELSE IF ring[w].next # w
  THEN [ring EXCEPT ![ring[w].next].prev = ring[w].prev, ![ring[w].prev].next = ring[w].next,
                    ![w] = [next |-> w, prev |-> w]]
  ELSE IF Before(list, w) # LastOf(rest)
  THEN MergeConditions(ring, cond, Before(list, w), After(list, w))
  ELSE ring

(* skip_past_same_condition: the waiter after the ring of w, if w is the   *)
(* first of a longer one.                                                  *)
SkipPastSameCondition(list, w) ==
  LET last == ring[w].prev IN
  NextOf(list, IF last # w /\ last # Before(list, w) THEN last ELSE w)

-----------------------------------------------------------------------------
(* A waiter queues: a first wait at the end, a later one at the front.  A  *)
(* locker, or a waiter moved by a signal, has no condition and merges with *)
(* nobody.                                                                 *)
QueueWaiter(w, c, first) ==
  LET cond2 == [cond EXCEPT ![w] = c] IN
  /\ cond' = cond2
  /\ IF first
     THEN /\ ring' = MergeConditions(ring, cond2, LastOf(queue), w)
          /\ queue' = Append(queue, w)
     ELSE /\ ring' = MergeConditions(ring, cond2, w, FirstOf(queue))
          /\ queue' = <<w>> \o queue
  /\ UNCHANGED <<new, kept, at, scan>>

(* The condition of a waiter that left is not read before it queues again. *)
Forgets(w) == cond' = [cond EXCEPT ![w] = Nil]

(* A wait that timed out; it holds the mutex, so that no scan is going on. *)
RemoveTimedOut(w) ==
  /\ scan = "none" /\ w \in Range(queue) /\ cond[w] # Nil
  /\ ring' = RingAfterRemoval(queue, w)
  /\ queue' = Without(queue, w)
  /\ Forgets(w)
  /\ UNCHANGED <<new, kept, at, scan>>

BeginScan ==
  /\ scan = "none" /\ queue # <<>>
  /\ new' = queue /\ queue' = <<>>
  /\ at' = FirstOf(queue) /\ scan' = "nobody"
  /\ UNCHANGED <<cond, ring, kept>>

(* Its condition is false.                                                 *)
Skip ==
  /\ at # Nil /\ scan # "writer" /\ cond[at] # Nil
  /\ at' = SkipPastSameCondition(new, at)
  /\ UNCHANGED <<cond, ring, queue, new, kept, scan>>

WakeOne ==
  /\ at # Nil /\ scan # "writer"
  /\ at' = NextOf(new, at)
  /\ ring' = RingAfterRemoval(new, at)
  /\ new' = Without(new, at)
  /\ scan' \in IF scan = "nobody" THEN {"readers", "writer"} ELSE {"readers"}
  /\ Forgets(at)
  /\ UNCHANGED <<queue, kept>>

(* A writer after readers that are woken.                                  *)
PassOver ==
  /\ at # Nil /\ scan = "readers"
  /\ at' = NextOf(new, at)
  /\ UNCHANGED <<cond, ring, queue, new, kept, scan>>

(* The end of a turn of the outer loop, which goes on with those who have  *)
(* queued meanwhile, or gives the list back.                               *)
NextTurn ==
  /\ scan # "none" /\ (at = Nil \/ scan = "writer")
  /\ ring' = MergeConditions(ring, cond, LastOf(kept), FirstOf(new))
  /\ at' = FirstOf(queue)
  /\ IF queue = <<>>
     THEN queue' = kept \o new /\ new' = <<>> /\ kept' = <<>> /\ scan' = "none"
     ELSE queue' = <<>> /\ new' = queue /\ kept' = kept \o new /\ UNCHANGED scan
  /\ UNCHANGED cond

(* Waiter structs that are on no list; it does not matter which is taken.  *)
Pool == Waiters \ (Range(queue) \cup Range(new) \cup Range(kept))

RingNext ==
  \/ /\ Pool # {}
     /\ \E c \in WaitConditions \cup {Nil}, first \in BOOLEAN :
          QueueWaiter(CHOOSE w \in Pool : TRUE, c, first)
  \/ \E w \in Waiters : RemoveTimedOut(w)
  \/ BeginScan \/ Skip \/ WakeOne \/ PassOver \/ NextTurn

-----------------------------------------------------------------------------
(* Properties.                                                             *)

(* "return a pointer to the next element of the list that has a different  *)
(* condition" (mu.c:207): wherever the scan skips, it skips only waiters   *)
(* whose condition is the one it has just found false, so that no waiter   *)
(* misses a test.                                                          *)
SkipsOnlyEqualConditions ==
  \A list \in {queue, new, kept} : \A i \in DOMAIN list :
    LET next == SkipPastSameCondition(list, list[i])
        end == IF next = Nil THEN Len(list) ELSE Place(list, next) - 1
    IN cond[list[i]] # Nil =>
         end >= i /\ \A j \in i .. end : cond[list[j]] = cond[list[i]]
=============================================================================
