----------------------------------- MODULE Map ----------------------------------
(***************************************************************************)
(* base/Map.h: chained hashing without growth.  A map is a function from   *)
(* the buckets 0 .. Length - 1 to chains, sequences of [key, value] in the *)
(* order the keys came.  What the callers rely on is stated where they     *)
(* are: timers' handlers, states, sessions and protocols.                  *)
(***************************************************************************)
EXTENDS Integers, Sequences, FiniteSets, SequencesExt

emptyMap(length) == [i \in 0 .. length - 1 |-> <<>>]

mapBucket(map, key) == key % Cardinality(DOMAIN map)

\* has.
mapHas(map, key) == \E i \in DOMAIN map[mapBucket(map, key)] :
                        map[mapBucket(map, key)][i].key = key

\* get, of a key the map has: the first in its chain.
mapGet(map, key) ==
    LET chain == map[mapBucket(map, key)]
    IN  chain[SelectInSeq(chain, LAMBDA e : e.key = key)].value

\* set: a new key goes to the end of its chain; a key that is there keeps the value it has.
mapSet(map, key, value) ==
    IF mapHas(map, key) THEN map
    ELSE [map EXCEPT ![mapBucket(map, key)] = Append(@, [key |-> key, value |-> value])]

\* del: the first of a chain takes the whole chain with it.
mapDel(map, key) ==
    LET b == mapBucket(map, key)
        i == SelectInSeq(map[b], LAMBDA e : e.key = key)
    IN  [map EXCEPT ![b] = CASE i = 0 -> @ [] i = 1 -> <<>> [] OTHER -> RemoveAt(@, i)]

\* The values in a map, as clear hands them to its callback.
mapValues(map) == UNION {{e.value : e \in Range(map[b])} : b \in DOMAIN map}
=================================================================================
