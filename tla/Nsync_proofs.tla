---------------------------- MODULE Nsync_proofs ----------------------------
(***************************************************************************)
(* The theorems about the mutex and its conditional critical sections, for *)
(* every number of threads, conditions, calls and deadlines.  The proofs   *)
(* of its steps take the laws of counting as a premise; it is discharged   *)
(* here, by the lemma Counting.                                            *)
(***************************************************************************)
EXTENDS NsyncMuWait_proofs, NsyncWake_proofs, Recursion, FiniteSetTheorems

-----------------------------------------------------------------------------
(* The laws of counting on which the proofs about the mutex rest: the      *)
(* holders, and the places of a waiter on the lists of the mutex.          *)

(* A step that changes the mode of one thread, as every path of lock and   *)
(* unlock does, changes the number of holders by that thread.              *)
LEMMA HoldersChange ==
  ASSUME NEW h \in [Threads -> HeldModes], NEW h2 \in [Threads -> HeldModes],
         NEW t \in Threads, NEW mode, \A u \in Threads \ {t} : h2[u] = h[u]
  PROVE  CountChange(h, h2, t, mode)
<1>0. IsFiniteSet(Held(h, mode))
  BY FS_Subset, NsyncMuConstants DEF Held
<1>1. Cardinality(Held(h, mode)) \in Nat
  BY <1>0, FS_CardinalityType
<1>2. CASE h[t] = mode <=> h2[t] = mode
  <2>1. Held(h2, mode) = Held(h, mode)
    BY <1>2 DEF Held
  <2>. QED BY <1>1, <1>2, <2>1 DEF CountChange
<1>3. CASE h[t] # mode /\ h2[t] = mode
  <2>1. Held(h2, mode) = Held(h, mode) \cup {t} /\ t \notin Held(h, mode)
    BY <1>3 DEF Held
  <2>2. Cardinality(Held(h2, mode)) = Cardinality(Held(h, mode)) + 1
    BY <1>0, <2>1, FS_AddElement
  <2>. QED BY <1>1, <1>3, <2>2 DEF CountChange
<1>4. CASE h[t] = mode /\ h2[t] # mode
  <2>1. Held(h2, mode) = Held(h, mode) \ {t} /\ t \in Held(h, mode)
    BY <1>4 DEF Held
  <2>2. Cardinality(Held(h2, mode)) = Cardinality(Held(h, mode)) - 1
    BY <1>0, <2>1, FS_RemoveElement
  <2>. QED BY <1>1, <1>4, <2>2 DEF CountChange
<1>. QED BY <1>2, <1>3, <1>4

(* What the number of holders says about who they are.                     *)
LEMMA HoldersCount ==
  ASSUME NEW h, NEW mode, h \in [Threads -> HeldModes]
  PROVE  /\ Cardinality(Held(h, mode)) \in Nat
         /\ Cardinality(Held(h, mode)) <= Cardinality(Threads)
         /\ Cardinality(Held(h, mode)) = 0 <=> \A t \in Threads : h[t] # mode
         /\ \A t \in Threads :
              h[t] = mode /\ Cardinality(Held(h, mode)) = 1 =>
                \A u \in Threads : h[u] = mode => u = t
<1>0. IsFiniteSet(Held(h, mode))
  BY FS_Subset, NsyncMuConstants DEF Held
<1>1. Cardinality(Held(h, mode)) \in Nat
  BY <1>0, FS_CardinalityType
<1>2. Cardinality(Held(h, mode)) <= Cardinality(Threads)
  BY FS_Subset, NsyncMuConstants DEF Held
<1>3. Cardinality(Held(h, mode)) = 0 <=> \A t \in Threads : h[t] # mode
  <2>1. Cardinality(Held(h, mode)) = 0 <=> Held(h, mode) = {}
    BY <1>0, FS_EmptySet
  <2>. QED BY <2>1 DEF Held
<1>4. ASSUME NEW t \in Threads, h[t] = mode, Cardinality(Held(h, mode)) = 1,
             NEW u \in Threads, h[u] = mode
      PROVE  u = t
  <2>1. PICK x : Held(h, mode) = {x}
    BY Zenon, <1>0, <1>4, FS_Singleton
  <2>. QED BY <2>1, <1>4 DEF Held
<1>. QED BY <1>1, <1>2, <1>3, <1>4

(* The places of a thread in a list are finitely many.                     *)
LEMMA PositionsFinite ==
  ASSUME NEW list \in Seq(Threads), NEW p
  PROVE  IsFiniteSet(Positions(list, p)) /\ Times(list, p) \in Nat
<1>1. Len(list) \in Nat /\ DOMAIN list = 1 .. Len(list)
  OBVIOUS
<1>2. IsFiniteSet(1 .. Len(list))
  BY <1>1, FS_Interval
<1>3. Positions(list, p) \in SUBSET (1 .. Len(list))
  BY <1>1 DEF Positions
<1>4. IsFiniteSet(Positions(list, p))
  BY Zenon, <1>2, <1>3, FS_Subset
<1>. QED BY <1>4, FS_CardinalityType DEF Times

(* An empty queue names nobody.                                            *)
LEMMA TimesEmpty ==
  ASSUME NEW p
  PROVE  Times(<<>>, p) = 0
<1>1. Positions(<<>>, p) = {}
  BY DEF Positions
<1>. QED BY <1>1, FS_EmptySet DEF Times

(* A list names whom it names at least once.                               *)
LEMMA TimesMember ==
  ASSUME NEW list \in Seq(Threads), NEW p
  PROVE  /\ Times(list, p) = 0 <=> Positions(list, p) = {}
         /\ p \in Range(list) <=> Times(list, p) > 0
<1>1. IsFiniteSet(Positions(list, p)) /\ Times(list, p) \in Nat
  BY PositionsFinite
<1>2. Times(list, p) = 0 <=> Positions(list, p) = {}
  BY <1>1, FS_EmptySet DEF Times
<1>3. p \in Range(list) <=> Positions(list, p) # {}
  BY DEF Range, Positions
<1>. QED BY <1>1, <1>2, <1>3

(* Lists that are joined, as a move to the queue joins them.               *)
LEMMA TimesConcat ==
  ASSUME NEW l \in Seq(Threads), NEW m \in Seq(Threads), NEW p
  PROVE  Times(l \o m, p) = Times(l, p) + Times(m, p)
<1>. DEFINE n == Len(l)
            A == Positions(l, p)
            B == Positions(m, p)
            C == {i \in (n + 1) .. (n + Len(m)) : m[i - n] = p}
            f == [i \in B |-> i + n]
<1>0. n \in Nat /\ Len(m) \in Nat /\ DOMAIN l = 1 .. n /\ DOMAIN m = 1 .. Len(m)
  OBVIOUS
<1>1. Positions(l \o m, p) = A \cup C
  <2>1. DOMAIN (l \o m) = 1 .. (n + Len(m))
    OBVIOUS
  <2>2. \A i \in 1 .. (n + Len(m)) : (l \o m)[i] = IF i <= n THEN l[i] ELSE m[i - n]
    OBVIOUS
  <2>. QED BY <2>1, <2>2, <1>0 DEF Positions
<1>2. A \cap C = {}
  BY <1>0 DEF Positions
<1>3. IsFiniteSet(A) /\ IsFiniteSet(B) /\ Times(l, p) \in Nat /\ Times(m, p) \in Nat
  BY PositionsFinite
<1>4. f \in Bijection(B, C)
  <2>0. \A i \in B : i \in 1 .. Len(m) /\ m[i] = p
    BY <1>0 DEF Positions
  <2>1. f \in [B -> C]
    BY <1>0, <2>0
  <2>2. \A i, j \in B : f[i] = f[j] => i = j
    BY <1>0, <2>0
  <2>3. \A c \in C : \E b \in B : f[b] = c
    <3>1. ASSUME NEW c \in C PROVE c - n \in B /\ f[c - n] = c
      BY <1>0 DEF Positions
    <3>. QED BY Zenon, <3>1
  <2>. QED BY Zenon, <2>1, <2>2, <2>3 DEF Bijection, Injection, Surjection, IsInjective
<1>5. IsFiniteSet(C) /\ Cardinality(C) = Cardinality(B)
  BY Zenon, <1>3, <1>4, FS_Bijection DEF ExistsBijection
<1>6. Cardinality(A \cup C) = Cardinality(A) + Cardinality(C) - Cardinality(A \cap C)
  BY Zenon, <1>3, <1>5, FS_Union
<1>7. Cardinality(A \cap C) = 0
  BY Zenon, <1>2, FS_EmptySet
<1>. QED BY <1>1, <1>3, <1>5, <1>6, <1>7 DEF Times

(* A waiter that is queued adds itself, at either end.                     *)
LEMMA TimesQueued ==
  ASSUME NEW l \in Seq(Threads), NEW q \in Threads, NEW p
  PROVE  /\ Times(<<q>>, p) = One(q, p)
         /\ Times(Append(l, q), p) = Times(l, p) + One(q, p)
         /\ Times(<<q>> \o l, p) = Times(l, p) + One(q, p)
<1>1. Times(<<q>>, p) = One(q, p) /\ One(q, p) \in {0, 1}
  <2>1. Positions(<<q>>, p) = IF q = p THEN {1} ELSE {}
    BY DEF Positions
  <2>. QED BY Zenon, <2>1, FS_EmptySet, FS_Singleton DEF Times, One
<1>2. Append(l, q) = l \o <<q>> /\ <<q>> \in Seq(Threads)
  OBVIOUS
<1>3. Times(l, p) \in Nat
  BY PositionsFinite
<1>4. /\ Times(l \o <<q>>, p) = Times(l, p) + Times(<<q>>, p)
      /\ Times(<<q>> \o l, p) = Times(<<q>>, p) + Times(l, p)
  BY Zenon, <1>2, TimesConcat
<1>. QED BY <1>1, <1>2, <1>3, <1>4

(* A list is its first element and the rest.                               *)
LEMMA TimesTail ==
  ASSUME NEW l \in Seq(Threads), l # <<>>, NEW p
  PROVE  /\ Head(l) \in Threads /\ Tail(l) \in Seq(Threads)
         /\ Times(l, p) = Times(Tail(l), p) + One(Head(l), p)
<1>1. /\ Head(l) \in Threads /\ Tail(l) \in Seq(Threads)
      /\ l = <<Head(l)>> \o Tail(l)
  OBVIOUS
<1>2. Times(<<Head(l)>> \o Tail(l), p) =
        Times(Tail(l), p) + One(Head(l), p)
  BY Zenon, <1>1, TimesQueued
<1>. QED BY Zenon, <1>1, <1>2

(* nsync_dll_remove_ takes one element out of a list that has it.          *)
LEMMA TimesUnlinked ==
  ASSUME NEW l \in Seq(Threads), NEW t \in Threads, Times(l, t) > 0, NEW p
  PROVE  /\ Unlinked(l, t) \in Seq(Threads)
         /\ Times(l, p) = Times(Unlinked(l, t), p) + One(t, p)
<1>. DEFINE at == CHOOSE i \in DOMAIN l : l[i] = t
            n == Len(l)
            m == Unlinked(l, t)
<1>1. at \in 1 .. n /\ l[at] = t
  <2>1. Positions(l, t) # {}
    BY TimesMember
  <2>. QED BY <2>1 DEF Positions
<1>2. m = [i \in 1 .. n - 1 |-> IF i < at THEN l[i] ELSE l[i + 1]]
  BY DEF Unlinked
<1>. HIDE DEF at, m
<1>0. n \in Nat /\ DOMAIN l = 1 .. n /\ at \in Nat /\ at >= 1 /\ at <= n
  BY <1>1
<1>. HIDE DEF n
<1>3. m \in Seq(Threads) /\ DOMAIN m = 1 .. n - 1
  <2>1. \A i \in 1 .. n - 1 : (IF i < at THEN l[i] ELSE l[i + 1]) \in Threads
    BY <1>0 DEF n
  <2>. QED BY <1>0, <1>2, <2>1
<1>. DEFINE A == Positions(l, p)
            B == Positions(m, p)
            f == [i \in B |-> IF i < at THEN i ELSE i + 1]
<1>a. \A i : i \in A <=> i \in 1 .. n /\ l[i] = p
  BY <1>0 DEF Positions
<1>b. \A i : i \in B <=> i \in 1 .. n - 1 /\ (IF i < at THEN l[i] ELSE l[i + 1]) = p
  BY <1>2, <1>3 DEF Positions
<1>c. IsFiniteSet(A) /\ IsFiniteSet(B) /\ Times(l, p) \in Nat /\ Times(m, p) \in Nat
  BY <1>3, PositionsFinite
<1>. HIDE DEF A, B
<1>4. f \in Bijection(B, A \ {at})
  <2>1. f \in [B -> A \ {at}]
    BY <1>0, <1>a, <1>b
  <2>2. \A i, j \in B : f[i] = f[j] => i = j
    BY <1>0, <1>b
  <2>3. \A c \in A \ {at} : \E b \in B : f[b] = c
    <3>1. ASSUME NEW c \in A \ {at}, c < at PROVE c \in B /\ f[c] = c
      BY <1>0, <1>a, <1>b, <3>1
    <3>2. ASSUME NEW c \in A \ {at}, ~(c < at) PROVE c - 1 \in B /\ f[c - 1] = c
      <4>1. c \in 1 .. n /\ l[c] = p /\ c > at
        BY <1>0, <1>a, <3>2
      <4>2. c - 1 \in 1 .. n - 1 /\ ~(c - 1 < at) /\ (c - 1) + 1 = c
        BY <1>0, <4>1
      <4>. QED BY <4>1, <4>2, <1>b
    <3>. QED BY Zenon, <3>1, <3>2
  <2>. QED BY Zenon, <2>1, <2>2, <2>3 DEF Bijection, Injection, Surjection, IsInjective
<1>5. Cardinality(A \ {at}) = Cardinality(B)
  BY Zenon, <1>c, <1>4, FS_Bijection DEF ExistsBijection
<1>6. Cardinality(A \ {at}) = IF at \in A THEN Cardinality(A) - 1 ELSE Cardinality(A)
  BY Zenon, <1>c, FS_RemoveElement
<1>7. at \in A <=> t = p
  BY <1>1, <1>a DEF n
<1>8. Times(l, p) = Cardinality(A) /\ Times(m, p) = Cardinality(B)
  BY DEF Times, A, B
<1>9. m \in Seq(Threads) /\ Times(l, p) = Times(m, p) + One(t, p)
  BY <1>3, <1>c, <1>5, <1>6, <1>7, <1>8 DEF One
<1>. QED BY <1>9 DEF m

(* Telling the first waiter of a wake list takes it off, before it is.     *)
LEMMA LiveCount ==
  ASSUME NEW l \in Seq(Threads), NEW told \in BOOLEAN, NEW p
  PROVE  /\ IsFiniteSet(Untold(l, told, p)) /\ Live(l, told, p) \in Nat
         /\ Live(l, told, p) = 0 <=> Untold(l, told, p) = {}
         /\ Times(l, p) = Live(l, told, p) +
              (IF told /\ l # <<>> THEN One(Head(l), p) ELSE 0)
<1>1. IsFiniteSet(Positions(l, p)) /\ Times(l, p) \in Nat
  BY PositionsFinite
<1>2. Untold(l, told, p) = IF told THEN Positions(l, p) \ {1} ELSE Positions(l, p)
  BY DEF Untold
<1>3. 1 \in Positions(l, p) <=> l # <<>> /\ Head(l) = p
  BY DEF Positions
<1>4. /\ IsFiniteSet(Positions(l, p) \ {1})
      /\ Cardinality(Positions(l, p) \ {1}) =
           IF 1 \in Positions(l, p) THEN Times(l, p) - 1 ELSE Times(l, p)
  BY Zenon, <1>1, FS_RemoveElement DEF Times
<1>5. IsFiniteSet(Untold(l, told, p))
  BY <1>1, <1>2, <1>4
<1>6. Live(l, told, p) \in Nat /\ (Live(l, told, p) = 0 <=> Untold(l, told, p) = {})
  BY <1>5, FS_CardinalityType, FS_EmptySet DEF Live
<1>7. Live(l, told, p) = IF told /\ 1 \in Positions(l, p) THEN Times(l, p) - 1 ELSE Times(l, p)
  <2>1. CASE told
    BY Zenon, <2>1, <1>2, <1>4 DEF Live
  <2>2. CASE ~told
    BY <2>2, <1>2 DEF Live, Times
  <2>. QED BY <2>1, <2>2
<1>. QED BY <1>1, <1>3, <1>5, <1>6, <1>7 DEF One

(* The list a place is in does not matter to their number.                 *)
LEMMA TaggedCount ==
  ASSUME NEW S, IsFiniteSet(S), NEW tag
  PROVE  IsFiniteSet({tag} \X S) /\ Cardinality({tag} \X S) = Cardinality(S)
<1>. DEFINE f == [x \in S |-> <<tag, x>>]
<1>1. f \in Bijection(S, {tag} \X S)
  <2>1. f \in [S -> {tag} \X S]
    OBVIOUS
  <2>2. \A x, y \in S : f[x] = f[y] => x = y
    OBVIOUS
  <2>3. \A c \in {tag} \X S : \E x \in S : f[x] = c
    OBVIOUS
  <2>. QED BY Zenon, <2>1, <2>2, <2>3 DEF Bijection, Injection, Surjection, IsInjective
<1>. QED BY Zenon, <1>1, FS_Bijection DEF ExistsBijection

(* Sets of places that have nothing in common.                             *)
LEMMA DisjointCount ==
  ASSUME NEW A, NEW B, IsFiniteSet(A), IsFiniteSet(B), A \cap B = {}
  PROVE  /\ IsFiniteSet(A \cup B)
         /\ Cardinality(A \cup B) = Cardinality(A) + Cardinality(B)
<1>1. Cardinality(A) \in Nat /\ Cardinality(B) \in Nat /\ Cardinality({}) = 0
  BY FS_CardinalityType, FS_EmptySet
<1>2. /\ IsFiniteSet(A \cup B)
      /\ Cardinality(A \cup B) = Cardinality(A) + Cardinality(B) - Cardinality(A \cap B)
  BY Zenon, FS_Union
<1>3. Cardinality(A \cap B) = 0
  BY Zenon, <1>1
<1>. QED BY <1>1, <1>2, <1>3

(* The places in the lists of one unlock.                                  *)
LEMMA OwnIsCounted ==
  ASSUME NEW s, ListsTyped(s), NEW told \in BOOLEAN, NEW u, NEW t
  PROVE  /\ IsFiniteSet(Own(s, told, u, t))
         /\ Cardinality(Own(s, told, u, t)) = OwnCount(s, told, t)
         /\ OwnCount(s, told, t) \in Nat
<1>. DEFINE A == {<<u, "new">>} \X Positions(s.new, t)
            B == {<<u, "kept">>} \X Positions(s.kept, t)
            C == {<<u, "wake">>} \X Untold(s.wake, told, t)
<1>1. IsFiniteSet(A) /\ Cardinality(A) = Times(s.new, t) /\ Times(s.new, t) \in Nat
  BY Zenon, PositionsFinite, TaggedCount DEF Times, ListsTyped
<1>2. IsFiniteSet(B) /\ Cardinality(B) = Times(s.kept, t) /\ Times(s.kept, t) \in Nat
  BY Zenon, PositionsFinite, TaggedCount DEF Times, ListsTyped
<1>3. /\ IsFiniteSet(C) /\ Cardinality(C) = Live(s.wake, told, t)
      /\ Live(s.wake, told, t) \in Nat
  BY Zenon, LiveCount, TaggedCount DEF Live, ListsTyped
<1>4. A \cap B = {} /\ (A \cup B) \cap C = {}
  OBVIOUS
<1>5. Own(s, told, u, t) = (A \cup B) \cup C
  BY DEF Own
<1>. HIDE DEF A, B, C
<1>6. IsFiniteSet(A \cup B) /\ Cardinality(A \cup B) = Cardinality(A) + Cardinality(B)
  BY Zenon, <1>1, <1>2, <1>4, DisjointCount
<1>7. /\ IsFiniteSet((A \cup B) \cup C)
      /\ Cardinality((A \cup B) \cup C) = Cardinality(A \cup B) + Cardinality(C)
  BY Zenon, <1>3, <1>4, <1>6, DisjointCount
<1>. QED BY <1>1, <1>2, <1>3, <1>5, <1>6, <1>7 DEF OwnCount

(* All places: in the queue of the mutex, in the lists of one unlock, and  *)
(* in those of the others.                                                 *)
LEMMA PlacesCount ==
  ASSUME NEW ws \in Seq(Threads), NEW wk, \A v \in Threads : ListsTyped(wk[v]),
         NEW lab, NEW u \in Threads, NEW t
  PROVE  /\ IsFiniteSet(PlacesIn(ws, wk, lab, t))
         /\ Cardinality(Elsewhere(wk, lab, u, t)) \in Nat
         /\ Cardinality(PlacesIn(ws, wk, lab, t)) =
              Times(ws, t) + OwnCount(wk[u], lab[u] = "unlock_v", t) +
              Cardinality(Elsewhere(wk, lab, u, t))
<1>. DEFINE A == {<<"mu", "waiters">>} \X Positions(ws, t)
            O(v) == Own(wk[v], lab[v] = "unlock_v", v, t)
            E == Elsewhere(wk, lab, u, t)
            B == O(u)
<1>1. IsFiniteSet(A) /\ Cardinality(A) = Times(ws, t) /\ Times(ws, t) \in Nat
  BY Zenon, PositionsFinite, TaggedCount DEF Times
<1>2. \A v \in Threads : IsFiniteSet(O(v))
  <2>1. \A v : (lab[v] = "unlock_v") \in BOOLEAN
    OBVIOUS
  <2>. QED BY Zenon, <2>1, OwnIsCounted
<1>3. /\ Cardinality(B) = OwnCount(wk[u], lab[u] = "unlock_v", t)
      /\ OwnCount(wk[u], lab[u] = "unlock_v", t) \in Nat
  <2>1. (lab[u] = "unlock_v") \in BOOLEAN /\ ListsTyped(wk[u])
    OBVIOUS
  <2>2. \A told \in BOOLEAN :
          /\ Cardinality(Own(wk[u], told, u, t)) = OwnCount(wk[u], told, t)
          /\ OwnCount(wk[u], told, t) \in Nat
    BY Zenon, <2>1, OwnIsCounted
  <2>. QED BY Zenon, <2>1, <2>2
<1>4. IsFiniteSet(E)
  <2>. DEFINE F == [v \in Threads \ {u} |-> O(v)]
  <2>1. IsFiniteSet(Threads \ {u})
    BY Zenon, NsyncMuConstants, FS_RemoveElement
  <2>2. F \in Surjection(Threads \ {u}, {O(v) : v \in Threads \ {u}})
    BY DEF Surjection
  <2>3. IsFiniteSet({O(v) : v \in Threads \ {u}})
    BY Zenon, <2>1, <2>2, FS_Surjection
  <2>4. \A S \in {O(v) : v \in Threads \ {u}} : IsFiniteSet(S)
    BY Zenon, <1>2
  <2>5. E = UNION {O(v) : v \in Threads \ {u}}
    BY DEF Elsewhere
  <2>. QED BY Zenon, <2>3, <2>4, <2>5, FS_UNION
<1>5. PlacesIn(ws, wk, lab, t) = (A \cup B) \cup E
  BY DEF PlacesIn, Elsewhere
<1>6. \A v : \A x \in O(v) : x[1][1] = v /\ x[1][2] # "waiters"
  BY DEF Own
<1>7. A \cap B = {} /\ (A \cup B) \cap E = {}
  <2>1. \A x \in A : x[1][2] = "waiters"
    OBVIOUS
  <2>2. \A x \in E : x[1][1] # u /\ x[1][2] # "waiters"
    BY <1>6 DEF Elsewhere
  <2>. HIDE DEF A, E, O
  <2>. QED BY <1>6, <2>1, <2>2
<1>. HIDE DEF A, B, E, O
<1>8. IsFiniteSet(A \cup B) /\ Cardinality(A \cup B) = Cardinality(A) + Cardinality(B)
  BY Zenon, <1>1, <1>2, <1>7, DisjointCount DEF B
<1>9. /\ IsFiniteSet((A \cup B) \cup E)
      /\ Cardinality((A \cup B) \cup E) = Cardinality(A \cup B) + Cardinality(E)
  BY Zenon, <1>4, <1>7, <1>8, DisjointCount
<1>10. Cardinality(E) \in Nat
  BY <1>4, FS_CardinalityType
<1>. QED BY <1>1, <1>3, <1>5, <1>8, <1>9, <1>10 DEF E

-----------------------------------------------------------------------------
(* The laws hold: the premise of the proofs about lock, unlock and waits.  *)
LEMMA Counting == CountingLaws
<1>1. CardinalityLaw
  BY Zenon, FS_EmptySet, FS_CardinalityType, FS_Singleton DEF CardinalityLaw
<1>2. HoldersChangeLaw
  BY Zenon, HoldersChange DEF HoldersChangeLaw
<1>3. HoldersCountLaw
  BY Zenon, HoldersCount DEF HoldersCountLaw
<1>4. PositionsFiniteLaw
  BY Zenon, PositionsFinite DEF PositionsFiniteLaw
<1>5. TimesEmptyLaw
  BY Zenon, TimesEmpty DEF TimesEmptyLaw
<1>6. TimesMemberLaw
  BY Zenon, TimesMember DEF TimesMemberLaw
<1>7. TimesQueuedLaw
  BY Zenon, TimesQueued DEF TimesQueuedLaw
<1>8. TimesTailLaw
  BY Zenon, TimesTail DEF TimesTailLaw
<1>9. TimesUnlinkedLaw
  BY Zenon, TimesUnlinked DEF TimesUnlinkedLaw
<1>10. LiveCountLaw
  BY Zenon, LiveCount DEF LiveCountLaw
<1>11. OwnIsCountedLaw
  BY Zenon, OwnIsCounted DEF OwnIsCountedLaw
<1>12. PlacesCountLaw
  <2>. SUFFICES ASSUME NEW ws \in Seq(Threads), NEW wk, NEW lab, NEW t, NEW u \in Threads,
                       \A v \in Threads : ListsTyped(wk[v])
                PROVE  /\ IsFiniteSet(PlacesIn(ws, wk, lab, t))
                       /\ Cardinality(Elsewhere(wk, lab, u, t)) \in Nat
                       /\ Cardinality(PlacesIn(ws, wk, lab, t)) =
                            Times(ws, t) + OwnCount(wk[u], lab[u] = "unlock_v", t) +
                            Cardinality(Elsewhere(wk, lab, u, t))
    BY Zenon DEF PlacesCountLaw
  <2>. QED BY PlacesCount
<1>13. InductiveSetLaw
  BY Zenon, InductiveSet DEF InductiveSetLaw
<1>14. RecursionExistsLaw
  <2>. SUFFICES ASSUME NEW S, NEW s0 \in S, NEW F \in [Nat \X S -> S]
                PROVE  \E f : Iterates(f, S, s0, F)
    BY Zenon DEF RecursionExistsLaw
  <2>1. PICK f : Unfolds(f, S, s0, F)
    BY Zenon, RecursionExists
  <2>. QED BY Zenon, <2>1 DEF Unfolds, Iterates
<1>. QED BY Zenon, <1>1, <1>2, <1>3, <1>4, <1>5, <1>6, <1>7, <1>8, <1>9, <1>10, <1>11,
            <1>12, <1>13, <1>14
     DEF CountingLaws

-----------------------------------------------------------------------------
(* Lock and unlock alone.                                                  *)

(* The checks of nsync_mu_unlock and nsync_mu_runlock pass for a holder:   *)
(* whatever other threads do, its own unlock never panics.                 *)
THEOREM UnlockNeverPanics ==
  ASSUME MuInv, NEW t \in Threads, held[t] # "none"
  PROVE  /\ held[t] = "w" => ~(word.wlock = 0 \/ word.readers # 0)
         /\ held[t] = "r" => ~(word.wlock # 0 /\ word.readers = 0)
BY Zenon, Counting, UnlockChecksPass

(* The invariant of lock and unlock is inductive.                          *)
LEMMA MuInductive ==
  /\ Init => MuInv /\ Abstract!Init
  /\ MuInv /\ [Next]_muVars => MuInv' /\ LockStep
BY Zenon, Counting, InitMuInv, NextStep

(* Mutual exclusion, for every number of threads and calls: no path of     *)
(* lock and unlock, fast or slow, lets a writer in beside another holder.  *)
THEOREM MutualExclusion == Spec => []Exclusion
<1>1. MuInv => Exclusion
  BY DEF MuInv, CountsHolders, Exclusion
<1>. QED BY <1>1, MuInductive, PTL DEF Spec

(* The lock bits of the word count the holders, for every number of        *)
(* threads below the range of the reader count.                            *)
THEOREM LockBitsCountHolders == Spec => []WordCountsHolders
<1>1. MuInv => WordCountsHolders
  BY DEF MuInv, CountsHolders, WordCountsHolders, Holders, Held
<1>. QED BY <1>1, MuInductive, PTL DEF Spec

(* The mutex implements the abstract reader-writer lock, for every number  *)
(* of threads and calls.                                                   *)
THEOREM MutexImplementsMonitor == Spec => ImplementsMonitor
BY AllowedStep, MuInductive, PTL DEF Spec, ImplementsMonitor, Abstract!Spec

(* MU_LONG_WAIT keeps its promise on every path, for every number of       *)
(* threads and calls: while it is set, a thread that has not slept on the  *)
(* mutex does not get it.                                                  *)
THEOREM LongWaitersNotOvertaken == Spec => NoOvertaking
<1>1. MuInv /\ LockStep =>
        \A t \in Threads :
          held[t] = "none" /\ held'[t] # "none" /\ word.longWait => locking[t].slept
  BY AllowedStep
<1>. QED BY <1>1, MuInductive, PTL DEF Spec, NoOvertaking

-----------------------------------------------------------------------------
(* Conditional critical sections.                                          *)

(* The invariant of waits and timeouts is inductive.                       *)
LEMMA WaitInductive ==
  /\ WaitInit => WaitInv /\ Abstract!Init
  /\ WaitInv /\ [WaitNext]_waitVars => WaitInv' /\ LockStep
BY Zenon, Counting, InitWaitInv, WaitNextStep

(* The lock bits of the word count the holders also while timeouts store   *)
(* whole words into it.                                                    *)
THEOREM WaitsKeepCounts == WaitSpec => []WordCountsHolders
<1>1. WaitInv => WordCountsHolders
  BY Zenon DEF WaitInv, QueueInv, MuInv, CountsHolders, WordCountsHolders, Holders, Held
<1>. QED BY <1>1, WaitInductive, PTL DEF WaitSpec

(* A waiter that must still be told to go on is on exactly one list: the   *)
(* queue, a list of one scan or the wake list of one unlock, also when its *)
(* timeout races the scan that tests its condition.                        *)
THEOREM WaitersOnOneList == WaitSpec => []WaitWaitersOnOneList
<1>1. WaitInv => WaitWaitersOnOneList
  <2>. SUFFICES ASSUME WaitInv, NEW t \in Threads
                PROVE  Cardinality(MuPlaces(t)) =
                         IF waiter[t].waiting /\ pc[t] \notin {"wait_spin", "wait_queue"}
                         THEN 1 ELSE 0
    BY DEF WaitWaitersOnOneList
  <2>1. Cardinality(MuPlaces(t)) = Due(t)
    BY DEF WaitInv, ListedOnce
  <2>2. pc[t] \notin {"cv_enqueue", "cv_queue"}
    BY WaitFacts DEF WaitThreadOK, WaitPlaces, MuLabels, LockLabels, ScanLabels, WakeLabels
  <2>. QED BY <2>1, <2>2 DEF Due, Unlisted
<1>. QED BY <1>1, WaitInductive, PTL DEF WaitSpec

(* The word that a timed-out waiter stores undoes no change of another     *)
(* thread: nobody has written the word since the waiter took both locks.   *)
THEOREM TimeoutsOverwriteNothing == WaitSpec => []TimeoutOverwritesNothing
<1>1. WaitInv => TimeoutOverwritesNothing
  BY Zenon DEF WaitInv, Confirming, TimeoutOverwritesNothing
<1>. QED BY <1>1, WaitInductive, PTL DEF WaitSpec

(* For its holders, the mutex with conditional critical sections is the    *)
(* monitor: what a scan or a timeout does with the lock bits is one of its *)
(* steps.                                                                  *)
THEOREM WaitsImplementMonitor == WaitSpec => ImplementsMonitor
<1>1. WaitInv => MuInv
  BY DEF WaitInv, QueueInv
<1>. QED BY <1>1, AllowedStep, WaitInductive, PTL
     DEF WaitSpec, ImplementsMonitor, Abstract!Spec

(* While MU_LONG_WAIT is set, a thread that has not slept on the mutex     *)
(* does not get it, whether it locks, waits or tests conditions.           *)
THEOREM WaitsOvertakeNobody == WaitSpec => NoOvertaking
<1>1. WaitInv /\ LockStep =>
        \A t \in Threads :
          held[t] = "none" /\ held'[t] # "none" /\ word.longWait => locking[t].slept
  BY Zenon, AllowedStep DEF WaitInv, QueueInv
<1>2. UNCHANGED muVars => UNCHANGED held
  BY DEF muVars
<1>. QED BY <1>1, WaitInductive, PTL DEF WaitSpec, NoOvertaking

-----------------------------------------------------------------------------
(* The bits by which an unlock skips its scan of the queue.                *)

(* The invariant of these bits is inductive beside that of the waits.      *)
LEMMA WakeInductive ==
  /\ WaitInit => WaitInv /\ WakeInv
  /\ WaitInv /\ WakeInv /\ [WaitNext]_waitVars => WaitInv' /\ WakeInv'
<1>1. WaitInit => WaitInv /\ WakeInv
  BY Zenon, WaitInductive, InitWakeInv
<1>2. ASSUME WaitInv, WakeInv, [WaitNext]_waitVars PROVE WaitInv' /\ WakeInv'
  <2>1. WaitInv'
    BY Zenon, <1>2, WaitInductive
  <2>2. QueueInv
    BY Zenon, <1>2 DEF WaitInv
  <2>3. MuStepsStay
    BY Zenon, <2>2, Counting, MuStepQueue DEF MuStepsStay, QueueStep
  <2>. QED BY Zenon, <1>2, <2>1, <2>3, Counting, WakeNextStep
<1>. QED BY Zenon, <1>1, <1>2

(* No client that keeps the rules reaches nsync_panic_: neither the checks *)
(* of the unlocks and of nsync_mu_wait_with_deadline fail, nor does        *)
(* nsync_mu_unlock_slow_ meet a condition after it gave up the lock.       *)
THEOREM WaitsNeverPanic == WaitSpec => []NoPanic
<1>1. WakeInv => NoPanic
  BY Zenon DEF WakeInv, PlaceOK, NoPanic
<1>. QED BY <1>1, WakeInductive, PTL DEF WaitSpec

(* While MU_ALL_FALSE is set and no writer is in its critical section, no  *)
(* queued waiter could go on, so that a reader that sees the bit may leave *)
(* without scanning the queue.                                             *)
THEOREM AllFalseIsTruthful == WaitSpec => []AllFalseIsTrue
<1>1. WakeInv => AllFalseIsTrue
  <2>1. Holders("w") = {} => \A t \in Threads : ~Answerable(t)
    BY DEF Holders, Answerable
  <2>. QED BY Zenon, <2>1 DEF WakeInv, AllFalseOK, AllFalseIsTrue
<1>. QED BY <1>1, WakeInductive, PTL DEF WaitSpec

(* MU_DESIG_WAKER is set only while a woken waiter is on its way to the    *)
(* mutex or an unlock is choosing one, so that an unlock that sees the bit *)
(* may leave without waking anybody, also with timeouts.                   *)
THEOREM DesigWakerIsTruthful == WaitSpec => []DesignatedWakerExists
<1>1. WaitInv /\ WakeInv => DesignatedWakerExists
  <2>. SUFFICES ASSUME WaitInv, WakeInv, word.desig
                PROVE  \E t \in Threads : Awake(t) \/ BeingWoken(t) \/ Scanning(t)
    BY DEF DesignatedWakerExists
  <2>1. PICK t \in Threads : OnItsWay(t)
    BY Zenon DEF WakeInv, DesigOK
  <2>2. CASE pc[t] = "unlock_wake"
    <3>1. /\ QueueInv /\ pc[t] \in WakeLabels
      BY <2>2, WaitFacts DEF WakeLabels
    <3>2. /\ waking[t].wake \in Seq(Threads) /\ waking[t].wake # <<>>
          /\ Head(waking[t].wake) \in Threads
      BY Zenon, <3>1, WakeFacts
    <3>3. Head(waking[t].wake) \in Range(waking[t].wake)
      BY <3>2 DEF Range
    <3>4. BeingWoken(Head(waking[t].wake))
      BY <2>2, <3>3 DEF BeingWoken
    <3>. QED BY Zenon, <3>2, <3>4
  <2>3. CASE Awake(t) \/ pc[t] \in ScanLabels
    BY <2>3 DEF Scanning, ScanLabels
  <2>. QED BY <2>1, <2>2, <2>3 DEF OnItsWay
<1>. QED BY <1>1, WakeInductive, PTL DEF WaitSpec
=============================================================================
