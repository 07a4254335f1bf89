------------------------- MODULE EnumerableMapMock -------------------------
(***************************************************************************)
(* The contract of EnumerableMapMock.js: one enumerable map, its functions *)
(* called from outside.  Each call is a transaction.                       *)
(***************************************************************************)
EXTENDS EnumerableMap, FiniteSets

CONSTANTS KeyType, ValueType   \* of Types

VARIABLES
    map,      \* _map
    call      \* the last call: its function, its arguments and its answer (of set,
              \* remove: OperationResult), <<>> if it failed

vars == <<map, call>>

KeySet == ValuesOf(KeyType)
ValueSet == ValuesOf(ValueType)
Indices == 0 .. Bytes32Max + 1    \* positions up to one past any that can exist
Zero == 0

KeyWord(key) == ToBytes32(KeyType, key)
ValueWord(value) == ToBytes32(ValueType, value)
Key(word) == FromBytes32(KeyType, word)
Value(word) == FromBytes32(ValueType, word)

Answers(fn, args, answer) == call' = <<fn, args, answer>>

Init == map = EmptyMap /\ call = <<"none", <<0, 0>>, <<>>>>

set(key, value) ==
    /\ map' = Set(map, KeyWord(key), ValueWord(value))
    /\ Answers("set", <<key, value>>, <<~Contains(map, KeyWord(key))>>)

remove(key) ==
    /\ map' = Remove(map, KeyWord(key))
    /\ Answers("remove", <<key, 0>>, <<Contains(map, KeyWord(key))>>)

contains(key) ==
    /\ Answers("contains", <<key, 0>>, <<Contains(map, KeyWord(key))>>)
    /\ UNCHANGED map

length ==
    /\ Answers("length", <<0, 0>>, <<Length(map)>>)
    /\ UNCHANGED map

at(index) ==
    /\ LET entry == At(map, index)
       IN  Answers("at", <<index, 0>>,
                   IF InBounds(map, index)
                   THEN <<Key(entry[1]), Value(entry[2])>> ELSE <<>>)
    /\ UNCHANGED map

tryGet(key) ==
    /\ LET found == TryGet(map, KeyWord(key))
       IN  Answers("tryGet", <<key, 0>>, <<found[1], Value(found[2])>>)
    /\ UNCHANGED map

\* `getWithMessage` is the same with another error.
get(key) ==
    /\ Answers("get", <<key, 0>>,
               IF Gettable(map, KeyWord(key))
               THEN <<Value(Get(map, KeyWord(key)))>> ELSE <<>>)
    /\ UNCHANGED map

Next ==
    \/ \E key \in KeySet, value \in ValueSet : set(key, value)
    \/ \E key \in KeySet : remove(key) \/ contains(key) \/ tryGet(key) \/ get(key)
    \/ \E index \in Indices : at(index)
    \/ length

Spec == Init /\ [][Next]_vars

-----------------------------------------------------------------------------

\* The map has its type, and never more entries than there are keys.
TypeOK == map \in MapType /\ Length(map) <= Cardinality(KeySet)

\* A key that is not in the map has no value left, which allows `tryGet` and `get`
\* to ask the set of keys only about a value of 0 (EnumerableMap.js:96-99, 136).
AbsentIsZero ==
    \A w \in Bytes32 :
       ~Contains(map, w) => map.values[w] = 0

\* The contract is a map: it answers as a function with a domain would, a value
\* of 0 that was set being told from none (EnumerableMap.js:130-170).
Promise == INSTANCE MapPromise WITH
    entries <- [k \in {k \in KeySet : Contains(map, KeyWord(k))} |->
                   Value(map.values[KeyWord(k)])]
IsAMap == Promise!Spec
=============================================================================
