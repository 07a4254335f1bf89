--------------------------- MODULE EnumerableMap ---------------------------
(***************************************************************************)
(* The Map that EnumerableMap.js generates: an enumerable set of its keys  *)
(* and a mapping, which has the value 0 for keys it was never given.       *)
(***************************************************************************)
EXTENDS Conversion, Sequences

Keys == INSTANCE EnumerableSet

MapType == [keys : Keys!SetType, values : [Bytes32 -> Bytes32]]

EmptyMap == [keys |-> Keys!EmptySet, values |-> [w \in Bytes32 |-> 0]]

Contains(map, key) == Keys!Contains(map.keys, key)

Length(map) == Keys!Length(map.keys)

InBounds(map, index) == Keys!InBounds(map.keys, index)
At(map, index) ==
    LET key == Keys!At(map.keys, index) IN <<key, map.values[key]>>

\* Both return what the set of keys returns: whether the key was added, removed.
Set(map, key, value) ==
    [keys   |-> Keys!Add(map.keys, key),
     values |-> [map.values EXCEPT ![key] = value]]

\* Mutant: the value of the removed key stays.
RemoveKeyOnly(map, key) ==
    [keys |-> Keys!Remove(map.keys, key), values |-> map.values]

Remove(map, key) ==
    [keys   |-> Keys!Remove(map.keys, key),
     values |-> [map.values EXCEPT ![key] = 0]]

\* Mutant: a value of 0 is taken for an absent key.
TryGetNonzero(map, key) ==
    LET value == map.values[key] IN <<value # 0, value>>

\* The set of keys is asked only about a value of 0.
TryGet(map, key) ==
    LET value == map.values[key]
    IN  IF value = 0 THEN <<Contains(map, key), 0>> ELSE <<TRUE, value>>

\* The condition under which `get` does not fail.
Gettable(map, key) == map.values[key] # 0 \/ Contains(map, key)
Get(map, key) == map.values[key]
=============================================================================
