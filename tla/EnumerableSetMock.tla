------------------------- MODULE EnumerableSetMock -------------------------
(***************************************************************************)
(* The contract of EnumerableSetMock.js: one enumerable set of a type, its *)
(* functions called from outside.  Each call is a transaction.             *)
(***************************************************************************)
EXTENDS EnumerableSet, FiniteSets

CONSTANT ValueType   \* one of Types

VARIABLES
    set,      \* _set
    call      \* the last call: its function, its argument and its answer (of add,
              \* remove: OperationResult), <<>> if it failed

vars == <<set, call>>

Elements == ValuesOf(ValueType)
Indices == 0 .. Bytes32Max + 1    \* positions up to one past any that can exist
Word(value) == ToBytes32(ValueType, value)
Value(word) == FromBytes32(ValueType, word)

Answers(fn, arg, answer) == call' = <<fn, arg, answer>>

Init == set = EmptySet /\ call = <<"none", 0, <<>>>>

add(value) ==
    /\ set' = Add(set, Word(value))
    /\ Answers("add", value, <<~Contains(set, Word(value))>>)

remove(value) ==
    /\ set' = Remove(set, Word(value))
    /\ Answers("remove", value, <<Contains(set, Word(value))>>)

contains(value) ==
    /\ Answers("contains", value, <<Contains(set, Word(value))>>)
    /\ UNCHANGED set

length ==
    /\ Answers("length", 0, <<Length(set)>>)
    /\ UNCHANGED set

at(index) ==
    /\ Answers("at", index,
               IF InBounds(set, index) THEN <<Value(At(set, index))>> ELSE <<>>)
    /\ UNCHANGED set

\* The words are taken for values as they are.
values ==
    /\ Answers("values", 0, set.values)
    /\ UNCHANGED set

Next ==
    \/ \E value \in Elements : add(value) \/ remove(value) \/ contains(value)
    \/ \E index \in Indices : at(index)
    \/ length \/ values

Spec == Init /\ [][Next]_vars

-----------------------------------------------------------------------------

\* The set has its type, and never more members than there are values.
TypeOK == set \in SetType /\ Length(set) <= Cardinality(Elements)

\* The array and the indexes tell of the same set: an index names the place
\* of its word, and every word in the array has its own place as index.
Indexed ==
    /\ \A w \in Bytes32 : Contains(set, w) =>
          set.indexes[w] \in 1 .. Length(set) /\ set.values[set.indexes[w]] = w
    /\ \A i \in 1 .. Length(set) : set.indexes[set.values[i]] = i

\* The contract is a set: every answer of it is one that a set would give, and
\* an enumeration names every member once (EnumerableSet.js:20-24).
Promise == INSTANCE SetPromise WITH
    members <- {v \in Elements : Contains(set, Word(v))}
IsASet == Promise!Spec
=============================================================================
