--------------------------- MODULE EnumerableSet ---------------------------
(***************************************************************************)
(* The Set that EnumerableSet.js generates: an array of its values, and    *)
(* for each word its position in the array plus one, 0 for none.  Removal  *)
(* moves the last value to the place that becomes free.                    *)
(***************************************************************************)
EXTENDS Conversion, Sequences

SetType == [values : Seq(Bytes32), indexes : [Bytes32 -> Nat]]

EmptySet == [values |-> <<>>, indexes |-> [w \in Bytes32 |-> 0]]

Contains(set, value) == set.indexes[value] # 0

Length(set) == Len(set.values)

\* Positions of the array begin at 0.  Solidity checks the bound of `_at`.
InBounds(set, index) == index < Length(set)
At(set, index) == set.values[index + 1]

\* Both return whether they changed the set: ~Contains, Contains before.
Add(set, value) ==
    IF Contains(set, value) THEN set
    ELSE [values  |-> Append(set.values, value),
          indexes |-> [set.indexes EXCEPT ![value] = Length(set) + 1]]

\* The last value takes the place `index` (counted from 1).
MoveLast(set, index) ==
    LET lastValue == set.values[Length(set)]
    IN  IF index = Length(set) THEN set
        ELSE [values  |-> [set.values EXCEPT ![index] = lastValue],
              indexes |-> [set.indexes EXCEPT ![lastValue] = index]]

\* Mutant: the moved value keeps its old index.
RemoveStale(set, value) ==
    IF ~Contains(set, value) THEN set
    ELSE LET moved == MoveLast(set, set.indexes[value])
         IN  [values  |-> SubSeq(moved.values, 1, Length(set) - 1),
              indexes |-> [set.indexes EXCEPT ![value] = 0]]

\* Mutant: the last value is dropped, whichever was to be removed.
RemoveLast(set, value) ==
    IF ~Contains(set, value) THEN set
    ELSE [values  |-> SubSeq(set.values, 1, Length(set) - 1),
          indexes |-> [set.indexes EXCEPT ![value] = 0]]

Remove(set, value) ==
    IF ~Contains(set, value) THEN set
    ELSE LET moved == MoveLast(set, set.indexes[value])
         IN  [values  |-> SubSeq(moved.values, 1, Length(set) - 1),
              indexes |-> [moved.indexes EXCEPT ![value] = 0]]
=============================================================================
