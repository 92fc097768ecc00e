------------------------------ MODULE OrderedMap ------------------------------
(***************************************************************************)
(* What library/docs/hash.md promises of a table whose callbacks leave the *)
(* table alone: a map from keys to values kept in insertion order.  out is *)
(* the last call and what it returned: its int, then its output words.     *)
(***************************************************************************)
EXTENDS Integers, Sequences

CONSTANTS
  Key, Value,  \* words
  Ident,       \* [Key -> class]: keys of one class are equal
  Sizes        \* the sizes callers pass

VARIABLES exists, map, out

vars == <<exists, map, out>>

Same(k, l) == Ident[k] = Ident[l]

\* The position of the entry for key, 0 when there is none.
Position(key) ==
  IF \E i \in DOMAIN map : Same(map[i].key, key)
  THEN CHOOSE i \in DOMAIN map : Same(map[i].key, key)
  ELSE 0

Without(i) == SubSeq(map, 1, i - 1) \o SubSeq(map, i + 1, Len(map))

Init == exists = FALSE /\ map = << >> /\ out = [call |-> << >>, words |-> << >>]

\* Which call it is; every action says so first.
Called(call) == out'.call = call

Reply(call, words) == out' = [call |-> call, words |-> words]

\* A call that fails, or that only reports, leaves the map as it was.
Returns(call, words) == Reply(call, words) /\ UNCHANGED <<exists, map>>

Create ==
  /\ ~ exists
  /\ \/ Returns(<<"create">>, <<0>>)
     \/ Reply(<<"create">>, <<1>>) /\ exists' = TRUE /\ map' = << >>

Free == Reply(<<"free">>, << >>) /\ exists' = FALSE /\ map' = << >>

\* The caller goes on with the copy, which holds the same entries.
Copy == \E done \in {0, 1} : Returns(<<"copy">>, <<done>>)

\* A new key goes last; a present one keeps its place and its key.
Inserts(call, key, stored, value) ==
  \/ Returns(call, <<-1>>)
  \/ /\ Reply(call, <<0>>)
     /\ Position(key) = 0
     /\ map' = Append(map, [key |-> stored, value |-> value])
     /\ UNCHANGED exists
  \/ /\ Reply(call, <<1>>)
     /\ Position(key) # 0
     /\ map' = [map EXCEPT ![Position(key)].value = value]
     /\ UNCHANGED exists

Insert(key, stored, value) == Inserts(<<"insert", key, stored, value>>, key, stored, value)

RemoveAt(call, i) ==
  /\ map' = Without(i)
  /\ Reply(call, <<1, map[i].key, map[i].value>>)
  /\ UNCHANGED exists

Delete(key) ==
  LET call == <<"delete", key>>
  IN  /\ Called(call)
      /\ IF Position(key) = 0 THEN Returns(call, <<0, key, 0>>)
         ELSE RemoveAt(call, Position(key))

Shift ==
  /\ Called(<<"shift">>)
  /\ IF map = << >> THEN Returns(<<"shift">>, <<0, 0>>) ELSE RemoveAt(<<"shift">>, 1)

Clear == Reply(<<"clear">>, << >>) /\ map' = << >> /\ UNCHANGED exists

Lookup(key) ==
  LET call == <<"lookup", key>>
  IN  /\ Called(call)
      /\ Returns(call, IF Position(key) = 0 THEN <<0>>
                       ELSE <<1, map[Position(key)].key, map[Position(key)].value>>)

\* The callback returns an equal key, a value, and what to do with them.
Update(key, stored, value, action) ==
  LET call == <<"update", key, stored, value, action>>
      i == Position(key)
  IN  /\ Called(call)
      /\ \/ /\ action = "ST_STOP" \/ (action = "ST_DELETE" /\ i = 0)
            /\ Returns(call, <<IF i = 0 THEN 0 ELSE 1>>)
         \/ /\ action = "ST_DELETE" /\ i # 0
            /\ map' = Without(i) /\ Reply(call, <<1>>) /\ UNCHANGED exists
         \/ /\ action = "ST_CONTINUE" /\ i = 0
            /\ Inserts(call, key, stored, value)
         \/ /\ action = "ST_CONTINUE" /\ i # 0
            /\ map' = [map EXCEPT ![i] = [key |-> stored, value |-> value]]
            /\ Reply(call, <<1>>)
            /\ UNCHANGED exists

Size == Called(<<"size">>) /\ Returns(<<"size">>, <<Len(map)>>)

\* st_keys and st_values: the first entries, at most size of them.
Export(size) ==
  LET n == IF size < Len(map) THEN size ELSE Len(map)
  IN  \/ /\ Called(<<"keys", size>>)
         /\ Returns(<<"keys", size>>, [i \in 1 .. n |-> map[i].key])
      \/ /\ Called(<<"values", size>>)
         /\ Returns(<<"values", size>>, [i \in 1 .. n |-> map[i].value])

Actions == {"ST_CONTINUE", "ST_STOP", "ST_DELETE"}

Next ==
  \/ Create
  \/ /\ exists
     /\ \/ Free \/ Shift \/ Clear \/ Size \/ Copy
        \/ \E n \in Sizes : Export(n)
        \/ \E key \in Key :
             \/ Delete(key) \/ Lookup(key)
             \/ \E stored \in Key, value \in Value :
                  /\ Same(stored, key)
                  /\ \/ Insert(key, stored, value)
                     \/ \E action \in Actions : Update(key, stored, value, action)

Spec == Init /\ [][Next]_vars
=============================================================================
