-------------------------------- MODULE Array --------------------------------
(***************************************************************************)
(* laserd.array (library/laserd/array.d): a growable array on an arena.    *)
(* Copies share one State, so that one state stands for all of them.  Raw  *)
(* slices and ranges are arguments: callers obtain them for the call, as   *)
(* docs/array.md asks.  What the arena does to an array that grows is the  *)
(* contract of expandArray in Arena: the elements are kept, the new ones   *)
(* are zero, and the storage stays where it is or moves.                   *)
(***************************************************************************)
EXTENDS Integers, SequencesExt

CONSTANTS
  Elements,     \* the values that callers store
  Zero,         \* the value whose bytes are zero
  TInit,        \* T.init
  Junk,         \* what memory holds that was given back
  Max_size_t,   \* size_t.max
  MaxCapacity   \* bound: elements of the largest array that memory has room for

ASSUME ArrayConstants == MaxCapacity \in 0 .. Max_size_t

VARIABLES
  storage,  \* state.storage; << >> when it is null
  used,     \* state.used
  result,   \* what the last call returned: a count, or 0 for failure
  cut       \* ghost: the indexes behind used that resize cut off

arrayVars == <<storage, used, result, cut>>

ArrayInit == storage = << >> /\ used = 0 /\ result = 0 /\ cut = {}

capacity == Len(storage)
data == SubSeq(storage, 1, used)

-----------------------------------------------------------------------------
(* Growing: the outcomes of a request for more storage.  moved tells that  *)
(* the memory of the old storage was given back.                           *)

Expanded(cells, elements) ==
  {[ok |-> FALSE, storage |-> cells, moved |-> FALSE]} \cup
  {[ok |-> TRUE, storage |-> cells \o [i \in 1 .. elements - Len(cells) |-> Zero],
    moved |-> moved] : moved \in {m \in BOOLEAN : elements <= MaxCapacity}}

reserve(elements) ==
  IF elements <= capacity
  THEN {[ok |-> TRUE, storage |-> storage, moved |-> FALSE]}
  ELSE Expanded(storage, elements)

\* One and a half times the capacity and one more, in size_t, or what is
\* required if that is more or the sum wrapped.
Grown(required) ==
  LET grown == (capacity + capacity \div 2 + 1) % (Max_size_t + 1)
  IN  IF grown < capacity \/ grown < required THEN required ELSE grown

ensureAdditional(count) ==
  IF count > Max_size_t - used
  THEN {[ok |-> FALSE, storage |-> storage, moved |-> FALSE]}
  ELSE IF used + count <= capacity THEN reserve(capacity)
  ELSE reserve(Grown(used + count))

Sets(cells, length, returned) ==
  /\ storage' = cells
  /\ used' = length
  /\ result' = returned
  /\ cut' = {i \in cut : length < i /\ i <= Len(cells)}

\* A call for which no memory was found.
Fails(cells) == Sets(cells, used, 0)

Reserve(elements) ==
  \E grown \in reserve(elements) : Sets(grown.storage, used, IF grown.ok THEN 1 ELSE 0)

resize(length) ==
  \E grown \in reserve(length) :
    /\ storage' = grown.storage
    /\ used' = IF grown.ok THEN length ELSE used
    /\ result' = IF grown.ok THEN 1 ELSE 0
    /\ cut' = {i \in cut \cup 1 .. used : used' < i}

-----------------------------------------------------------------------------
(* Insertion.                                                              *)

\* The cells after values were stored one by one from index length on.
Stored(cells, length, values) ==
  [i \in DOMAIN cells |->
     IF i \in length + 1 .. length + Len(values) THEN values[i - length] ELSE cells[i]]

insertBack(value) ==
  \E grown \in ensureAdditional(1) :
    IF grown.ok THEN Sets(Stored(grown.storage, used, <<value>>), used + 1, 1)
    ELSE Fails(grown.storage)

\* A slice of other memory.
insertBackOther(values) ==
  \E grown \in ensureAdditional(Len(values)) :
    IF grown.ok
    THEN Sets(Stored(grown.storage, used, values), used + Len(values), Len(values))
    ELSE Fails(grown.storage)

\* Mutant: reads the slice where it was before the array grew.
InsertsStaleSlice(first, count) ==
  \E grown \in ensureAdditional(count) :
    LET values == IF grown.moved THEN [i \in 1 .. count |-> Junk]
                  ELSE SubSeq(grown.storage, first + 1, first + count)
    IN  IF grown.ok THEN Sets(Stored(grown.storage, used, values), used + count, count)
        ELSE Fails(grown.storage)

\* A slice of the array itself is found again by its offset.
insertBackOwn(first, count) ==
  \E grown \in ensureAdditional(count) :
    LET found == \E i \in 0 .. used - 1 : i = first
        values == IF grown.moved /\ ~found THEN [i \in 1 .. count |-> Junk]
                  ELSE SubSeq(grown.storage, first + 1, first + count)
    IN  IF grown.ok THEN Sets(Stored(grown.storage, used, values), used + count, count)
        ELSE Fails(grown.storage)

\* memmove of count cells from one index to another.
Moved(cells, to, from, count) == Stored(cells, to, SubSeq(cells, from + 1, from + count))

insertBefore(first, value) ==
  \E grown \in ensureAdditional(1) :
    IF grown.ok
    THEN Sets(Stored(Moved(grown.storage, first + 1, first, used - first), first, <<value>>),
              used + 1, 1)
    ELSE Fails(grown.storage)

insertAfter(pastLast, value) == insertBefore(pastLast, value)

-----------------------------------------------------------------------------
(* Removal.                                                                *)

\* The cells from index length on, up to past, are set to T.init.
Cleared(cells, length, past) == Stored(cells, length, [i \in 1 .. past - length |-> TInit])

removeBack(howMany) ==
  LET removed == IF howMany > used THEN used ELSE howMany
  IN  Sets(Cleared(storage, used - removed, used), used - removed, removed)

\* The cells after the removal of first .. pastLast - 1.
Removed(cells, first, pastLast) ==
  Cleared(Moved(cells, first, pastLast, used - pastLast), used - (pastLast - first), used)

linearRemove(first, pastLast) ==
  Sets(Removed(storage, first, pastLast), used - (pastLast - first), 1)

replace(first, pastLast, value) ==
  \/ first = pastLast /\ insertBefore(first, value)
  \/ /\ first < pastLast
     /\ LET cells == Stored(storage, first, <<value>>)
        IN  Sets(IF pastLast - first > 1 THEN Removed(cells, first + 1, pastLast) ELSE cells,
                 used - (pastLast - first - 1), 1)

opSliceAssign(value, first, pastLast) ==
  Sets(Stored(storage, first, [i \in 1 .. pastLast - first |-> value]), used, 1)

\* The caller goes on with the duplicate; a refused block ends the program.
dup ==
  /\ used <= MaxCapacity
  /\ Sets(Stored([i \in 1 .. used |-> Zero], 0, data), used, 1)

\* destroy clears as well, and gives the state back.
clear == Sets(<< >>, 0, 1)

ArrayNext ==
  \/ \E n \in 0 .. MaxCapacity : Reserve(n) \/ resize(n) \/ removeBack(n)
  \/ \E v \in Elements : insertBack(v)
  \/ \E values \in [1 .. 2 -> Elements] : insertBackOther(values)
  \/ dup \/ clear
  \/ \E first \in 0 .. used, pastLast \in 0 .. used :
       /\ first <= pastLast
       /\ \/ first < pastLast /\ insertBackOwn(first, pastLast - first)
          \/ linearRemove(first, pastLast)
          \/ \E v \in Elements :
               \/ insertBefore(first, v) \/ insertAfter(pastLast, v)
               \/ replace(first, pastLast, v) \/ opSliceAssign(v, first, pastLast)

ArraySpec == ArrayInit /\ [][ArrayNext]_arrayVars

-----------------------------------------------------------------------------
(* Properties.                                                             *)

\* s with values in place of its elements first .. pastLast - 1.
Spliced(s, first, pastLast, values) ==
  SubSeq(s, 1, first) \o values \o SubSeq(s, pastLast + 1, Len(s))

\* data becomes s, unless the call returned 0; then it stays.
Yields(s) == data' = IF result' = 0 THEN data ELSE s

\* Every call does to the elements what it would do to a sequence, or returns 0
\* and does nothing: growth moves the storage under a slice of the array itself,
\* memmove shifts over cells that are read later, and capacity wraps.  Behind
\* the elements no removed one survives, but those that resize cut off.
ActsOnSequence ==
  [][UNCHANGED arrayVars \/
     /\ \A v \in Elements : insertBack(v) => Yields(Append(data, v))
     /\ \A values \in [1 .. 2 -> Elements] : insertBackOther(values) => Yields(data \o values)
     /\ \A n \in 0 .. MaxCapacity :
          /\ Reserve(n) => data' = data
          /\ removeBack(n) => data' = SubSeq(data, 1, IF n < used THEN used - n ELSE 0)
          /\ resize(n) /\ result' # 0 =>
               /\ used' = n
               /\ \A i \in 1 .. n : i <= used => data'[i] = data[i]
     /\ dup => data' = data
     /\ \A first \in 0 .. used, pastLast \in 0 .. used : first <= pastLast =>
          /\ first < pastLast /\ insertBackOwn(first, pastLast - first) =>
               Yields(data \o SubSeq(data, first + 1, pastLast))
          /\ linearRemove(first, pastLast) => data' = Spliced(data, first, pastLast, << >>)
          /\ \A v \in Elements :
               /\ insertBefore(first, v) => Yields(Spliced(data, first, first, <<v>>))
               /\ insertAfter(pastLast, v) => Yields(Spliced(data, pastLast, pastLast, <<v>>))
               /\ replace(first, pastLast, v) => Yields(Spliced(data, first, pastLast, <<v>>))
     /\ \A i \in used' + 1 .. capacity' : storage'[i] \in {Zero, TInit} \/ i \in cut'
    ]_arrayVars
=============================================================================
