--------------------------- MODULE NsyncCounting ---------------------------
(***************************************************************************)
(* How the proofs about the mutex count: the holders that the lock bits of *)
(* the word count, and the places of a waiter on the lists of the mutex.   *)
(* What they use of finite sets, of the naturals and of sequences is here  *)
(* as laws, which Nsync_proofs proves and the proofs about the steps of    *)
(* the code take as a premise, CountingLaws.                               *)
(***************************************************************************)
EXTENDS NsyncMu

-----------------------------------------------------------------------------
(* Holders.                                                                *)

Held(h, mode) == {t \in Threads : h[t] = mode}
HeldModes == {"none", "w", "r"}

(* How the number of holders changes when one thread changes its mode.     *)
CountChange(h, h2, t, mode) ==
  /\ Cardinality(Held(h, mode)) \in Nat
  /\ Cardinality(Held(h2, mode)) =
       Cardinality(Held(h, mode)) + (IF h2[t] = mode THEN 1 ELSE 0)
                                  - (IF h[t] = mode THEN 1 ELSE 0)

-----------------------------------------------------------------------------
(* Places.                                                                 *)

(* How often a list of waiters names a thread.                             *)
Times(list, p) == Cardinality(Positions(list, p))

One(q, p) == IF q = p THEN 1 ELSE 0

Live(list, told, p) == Cardinality(Untold(list, told, p))

(* Where the lists of one unlock, and those of all but one, name t.        *)
Own(s, told, u, t) ==
  ({<<u, "new">>} \X Positions(s.new, t)) \cup
  ({<<u, "kept">>} \X Positions(s.kept, t)) \cup
  ({<<u, "wake">>} \X Untold(s.wake, told, t))

Elsewhere(wk, lab, u, t) ==
  UNION {Own(wk[v], lab[v] = "unlock_v", v, t) : v \in Threads \ {u}}

PlacesIn(ws, wk, lab, t) ==
  ({<<"mu", "waiters">>} \X Positions(ws, t)) \cup
  UNION {Own(wk[u], lab[u] = "unlock_v", u, t) : u \in Threads}

OwnCount(s, told, t) == Times(s.new, t) + Times(s.kept, t) + Live(s.wake, told, t)

ListsTyped(s) ==
  s.new \in Seq(Threads) /\ s.kept \in Seq(Threads) /\ s.wake \in Seq(Threads)

-----------------------------------------------------------------------------
(* The laws.                                                               *)

CardinalityLaw ==
  /\ IsFiniteSet({}) /\ Cardinality({}) = 0
  /\ \A x : Cardinality({x}) = 1
  /\ \A S : IsFiniteSet(S) => Cardinality(S) \in Nat /\ (Cardinality(S) = 0 <=> S = {})

(* One thread changes its mode.                                            *)
HoldersChangeLaw ==
  \A h, h2 \in [Threads -> HeldModes] : \A t \in Threads : \A mode :
    (\A u \in Threads \ {t} : h2[u] = h[u]) => CountChange(h, h2, t, mode)

(* What the number of holders says about who they are.                     *)
HoldersCountLaw ==
  \A h \in [Threads -> HeldModes] : \A mode :
    /\ Cardinality(Held(h, mode)) \in Nat
    /\ Cardinality(Held(h, mode)) <= Cardinality(Threads)
    /\ Cardinality(Held(h, mode)) = 0 <=> \A t \in Threads : h[t] # mode
    /\ \A t \in Threads :
         h[t] = mode /\ Cardinality(Held(h, mode)) = 1 =>
           \A u \in Threads : h[u] = mode => u = t

PositionsFiniteLaw ==
  \A list \in Seq(Threads) : \A p :
    IsFiniteSet(Positions(list, p)) /\ Times(list, p) \in Nat

TimesEmptyLaw == \A p : Times(<<>>, p) = 0

TimesMemberLaw ==
  \A list \in Seq(Threads) : \A p :
    /\ Times(list, p) = 0 <=> Positions(list, p) = {}
    /\ p \in Range(list) <=> Times(list, p) > 0

(* A waiter joins a list, at either end.                                   *)
TimesQueuedLaw ==
  \A l \in Seq(Threads) : \A q \in Threads : \A p :
    /\ Times(<<q>>, p) = One(q, p)
    /\ Times(Append(l, q), p) = Times(l, p) + One(q, p)
    /\ Times(<<q>> \o l, p) = Times(l, p) + One(q, p)

TimesTailLaw ==
  \A l \in Seq(Threads) : \A p :
    l # <<>> => /\ Head(l) \in Threads /\ Tail(l) \in Seq(Threads)
                /\ Times(l, p) = Times(Tail(l), p) + One(Head(l), p)

TimesUnlinkedLaw ==
  \A l \in Seq(Threads) : \A t \in Threads : \A p :
    Times(l, t) > 0 => /\ Unlinked(l, t) \in Seq(Threads)
                       /\ Times(l, p) = Times(Unlinked(l, t), p) + One(t, p)

(* The first waiter of a wake list that has been told is not counted.      *)
LiveCountLaw ==
  \A l \in Seq(Threads) : \A told \in BOOLEAN : \A p :
    /\ IsFiniteSet(Untold(l, told, p)) /\ Live(l, told, p) \in Nat
    /\ Live(l, told, p) = 0 <=> Untold(l, told, p) = {}
    /\ Times(l, p) = Live(l, told, p) +
         (IF told /\ l # <<>> THEN One(Head(l), p) ELSE 0)

OwnIsCountedLaw ==
  \A s, u, t : \A told \in BOOLEAN :
    ListsTyped(s) => /\ IsFiniteSet(Own(s, told, u, t))
                     /\ Cardinality(Own(s, told, u, t)) = OwnCount(s, told, t)
                     /\ OwnCount(s, told, t) \in Nat

(* All places of a waiter: in the queue of the mutex, in the lists of one  *)
(* unlock, and in those of the others.                                     *)
PlacesCountLaw ==
  \A ws \in Seq(Threads) : \A wk, lab, t : \A u \in Threads :
    (\A v \in Threads : ListsTyped(wk[v])) =>
      /\ IsFiniteSet(PlacesIn(ws, wk, lab, t))
      /\ Cardinality(Elsewhere(wk, lab, u, t)) \in Nat
      /\ Cardinality(PlacesIn(ws, wk, lab, t)) =
           Times(ws, t) + OwnCount(wk[u], lab[u] = "unlock_v", t) +
           Cardinality(Elsewhere(wk, lab, u, t))

(* Induction and recursion, for the loop over the waiters of a scan.       *)
InductiveSetLaw ==
  \A T \in SUBSET Nat : 0 \in T /\ (\A n \in T : n + 1 \in T) => T = Nat

Iterates(f, S, s0, F) ==
  /\ f \in [Nat -> S] /\ f[0] = s0
  /\ \A n \in Nat : f[n + 1] = F[<<n, f[n]>>]

RecursionExistsLaw ==
  \A S : \A s0 \in S : \A F \in [Nat \X S -> S] : \E f : Iterates(f, S, s0, F)

CountingLaws ==
  /\ CardinalityLaw /\ HoldersChangeLaw /\ HoldersCountLaw
  /\ PositionsFiniteLaw /\ TimesEmptyLaw /\ TimesMemberLaw /\ TimesQueuedLaw
  /\ TimesTailLaw /\ TimesUnlinkedLaw
  /\ LiveCountLaw /\ OwnIsCountedLaw /\ PlacesCountLaw
  /\ InductiveSetLaw /\ RecursionExistsLaw
=============================================================================
