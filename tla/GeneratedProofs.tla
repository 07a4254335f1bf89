-------------------------- MODULE GeneratedProofs ---------------------------
(***************************************************************************)
(* The generated contracts, for words of any width and any calls.  For     *)
(* each structure, first what its functions keep; then the contract around *)
(* it.                                                                     *)
(***************************************************************************)
EXTENDS GeneratedMocks, SequenceTheorems, FiniteSetTheorems, WellFoundedInduction, TLAPS

-----------------------------------------------------------------------------
(* The set.                                                                *)

\* `Indexed` of a set s.
Agrees(s) ==
    /\ \A w \in Bytes32 : Contains(s, w) =>
          s.indexes[w] \in 1 .. Length(s) /\ s.values[s.indexes[w]] = w
    /\ \A i \in 1 .. Length(s) : s.indexes[s.values[i]] = i

Good(s) == s \in SetType /\ Agrees(s)

LEMMA EmptyGood == Good(EmptySet) /\ \A w \in Bytes32 : ~Contains(EmptySet, w)
  BY DEF Good, EmptySet, SetType, Agrees, Contains, Length

\* An array and indexes, apart, as a set has them.
Tells(v, n, x) ==
    /\ \A w \in Bytes32 : x[w] # 0 => x[w] \in 1 .. n /\ v[x[w]] = w
    /\ \A i \in 1 .. n : x[v[i]] = i

LEMMA GoodTells ==
    ASSUME NEW s
    PROVE  Good(s) <=> s \in SetType /\ Tells(s.values, Len(s.values), s.indexes)
  BY DEF Good, Agrees, Tells, Contains, Length

LEMMA AddKeeps ==
    ASSUME NEW s, Good(s), NEW w \in Bytes32
    PROVE  /\ Good(Add(s, w))
           /\ \A x \in Bytes32 : Contains(Add(s, w), x) <=> Contains(s, x) \/ x = w
<1> DEFINE n == Len(s.values)
           v == Append(s.values, w)
           x == [s.indexes EXCEPT ![w] = n + 1]
<1>1. CASE Contains(s, w)
  BY <1>1 DEF Add
<1>2. CASE ~Contains(s, w)
  <2>1. Add(s, w) = [values |-> v, indexes |-> x]
    BY <1>2 DEF Add, Length
  <2>2. s.values \in Seq(Bytes32) /\ s.indexes \in [Bytes32 -> Nat] /\ n \in Nat
    BY DEF Good, SetType
  <2>3. v \in Seq(Bytes32) /\ Len(v) = n + 1 /\ v[n + 1] = w /\ \A i \in 1 .. n : v[i] = s.values[i]
    BY <2>2
  <2>4. x \in [Bytes32 -> Nat] /\ x[w] = n + 1 /\ \A y \in Bytes32 \ {w} : x[y] = s.indexes[y]
    BY <2>2
  <2>5. \A i \in 1 .. n : s.values[i] \in Bytes32 /\ s.values[i] # w
    <3>1. \A i \in 1 .. n : s.values[i] \in Bytes32 /\ s.indexes[s.values[i]] = i
      BY <2>2, GoodTells DEF Tells
    <3>2. s.indexes[w] = 0
      BY <1>2 DEF Contains
    <3> QED BY <3>1, <3>2
  <2>6. Tells(v, n + 1, x)
    <3>1. ASSUME NEW y \in Bytes32, x[y] # 0 PROVE x[y] \in 1 .. n + 1 /\ v[x[y]] = y
      <4>1. CASE y = w
        BY <4>1, <2>2, <2>3, <2>4
      <4>2. CASE y # w
        <5>1. x[y] \in 1 .. n /\ s.values[x[y]] = y
          BY <4>2, <3>1, <2>4, GoodTells DEF Tells
        <5> QED BY <5>1, <2>2, <2>3
      <4> QED BY <4>1, <4>2
    <3>2. ASSUME NEW i \in 1 .. n + 1 PROVE x[v[i]] = i
      <4>1. CASE i = n + 1
        BY <4>1, <2>3, <2>4
      <4>2. CASE i # n + 1
        <5>1. i \in 1 .. n
          BY <4>2, <2>2
        <5> QED BY <5>1, <2>3, <2>4, <2>5, GoodTells DEF Tells
      <4> QED BY <4>1, <4>2
    <3> QED BY <3>1, <3>2 DEF Tells
  <2>7. Good(Add(s, w))
    <3>1. Add(s, w) \in SetType
      BY <2>1, <2>3, <2>4 DEF SetType
    <3>2. Add(s, w).values = v /\ Add(s, w).indexes = x
      BY <2>1
    <3>3. Tells(Add(s, w).values, Len(Add(s, w).values), Add(s, w).indexes)
      <4> HIDE DEF v, x, n
      <4> QED BY <3>2, <2>3, <2>6
    <3> QED BY <3>1, <3>3, GoodTells
  <2>8. \A y \in Bytes32 : Contains(Add(s, w), y) <=> Contains(s, y) \/ y = w
    BY <2>1, <2>2, <2>4 DEF Contains
  <2> QED BY <2>7, <2>8
<1> QED BY <1>1, <1>2
\* Removal, said of the array and the indexes apart: place i of w is taken by the
\* last value, and the array ends one place earlier.
LEMMA Moves ==
    ASSUME NEW s, Good(s), NEW w \in Bytes32, Contains(s, w)
    PROVE  LET n == Len(s.values)
               i == s.indexes[w]
               r == Remove(s, w) IN
           /\ n \in Nat /\ i \in 1 .. n /\ s.values[i] = w /\ s.values[n] \in Bytes32
           /\ r \in SetType /\ Len(r.values) = n - 1
           /\ \A j \in 1 .. n - 1 :
                 r.values[j] = IF j = i THEN s.values[n] ELSE s.values[j]
           /\ \A y \in Bytes32 :
                 r.indexes[y] = IF y = w THEN 0
                                ELSE IF y = s.values[n] THEN i ELSE s.indexes[y]
<1> DEFINE n == Len(s.values)
           i == s.indexes[w]
           last == s.values[n]
           m == MoveLast(s, i)
           v == SubSeq(m.values, 1, n - 1)
           x == [m.indexes EXCEPT ![w] = 0]
<1>1. s.values \in Seq(Bytes32) /\ s.indexes \in [Bytes32 -> Nat] /\ n \in Nat
  BY DEF Good, SetType
<1>2. i \in 1 .. n /\ s.values[i] = w
  BY GoodTells DEF Tells, Contains
<1>3. last \in Bytes32
  BY <1>1, <1>2
<1>4. /\ m.values \in Seq(Bytes32) /\ Len(m.values) = n
      /\ \A j \in 1 .. n : m.values[j] = IF j = i THEN last ELSE s.values[j]
      /\ m.indexes \in [Bytes32 -> Nat]
      /\ \A y \in Bytes32 \ {w} : m.indexes[y] = IF y = last THEN i ELSE s.indexes[y]
  <2>1. CASE i = n
    BY <2>1, <1>1, <1>2 DEF MoveLast, Length
  <2>2. CASE i # n
    <3>1. m = [values  |-> [s.values EXCEPT ![i] = last],
               indexes |-> [s.indexes EXCEPT ![last] = i]]
      BY <2>2 DEF MoveLast, Length
    <3>2. /\ [s.values EXCEPT ![i] = last] \in Seq(Bytes32)
          /\ Len([s.values EXCEPT ![i] = last]) = n
          /\ \A j \in 1 .. n : [s.values EXCEPT ![i] = last][j]
                                  = IF j = i THEN last ELSE s.values[j]
      BY <1>1, <1>2, <1>3
    <3>3. /\ [s.indexes EXCEPT ![last] = i] \in [Bytes32 -> Nat]
          /\ \A y \in Bytes32 : [s.indexes EXCEPT ![last] = i][y]
                                   = IF y = last THEN i ELSE s.indexes[y]
      BY <1>1, <1>2, <1>3
    <3> QED BY <3>1, <3>2, <3>3
  <2> QED BY <2>1, <2>2
<1>5. Remove(s, w) = [values |-> v, indexes |-> x]
  BY DEF Remove, Length
<1>6. /\ v \in Seq(Bytes32) /\ Len(v) = n - 1
      /\ \A j \in 1 .. n - 1 : v[j] = m.values[j]
  <2>1. \A j \in 1 .. n - 1 : m.values[j] \in Bytes32
    BY <1>1, <1>4
  <2> HIDE DEF m
  <2> QED BY <2>1, <1>1, <1>2, SubSeqProperties
<1>7. /\ x \in [Bytes32 -> Nat] /\ x[w] = 0
      /\ \A y \in Bytes32 \ {w} : x[y] = m.indexes[y]
  BY <1>4
<1>8. Remove(s, w) \in SetType
  BY <1>5, <1>6, <1>7 DEF SetType
<1>9. Remove(s, w).values = v /\ Remove(s, w).indexes = x
  BY <1>5
<1> HIDE DEF v, x, m
<1>10. \A j \in 1 .. n - 1 : v[j] = IF j = i THEN last ELSE s.values[j]
  BY <1>1, <1>4, <1>6
<1>11. \A y \in Bytes32 : x[y] = IF y = w THEN 0 ELSE IF y = last THEN i ELSE s.indexes[y]
  BY <1>4, <1>7
<1> QED BY <1>1, <1>2, <1>3, <1>6, <1>8, <1>9, <1>10, <1>11

LEMMA RemoveKeeps ==
    ASSUME NEW s, Good(s), NEW w \in Bytes32
    PROVE  /\ Good(Remove(s, w))
           /\ \A x \in Bytes32 : Contains(Remove(s, w), x) <=> Contains(s, x) /\ x # w
<1>1. CASE ~Contains(s, w)
  BY <1>1 DEF Remove
<1>2. CASE Contains(s, w)
  <2> DEFINE n == Len(s.values)
             i == s.indexes[w]
             last == s.values[n]
             r == Remove(s, w)
  <2>1. /\ n \in Nat /\ i \in 1 .. n /\ s.values[i] = w /\ last \in Bytes32
        /\ r \in SetType /\ Len(r.values) = n - 1
        /\ \A j \in 1 .. n - 1 : r.values[j] = IF j = i THEN last ELSE s.values[j]
        /\ \A y \in Bytes32 :
              r.indexes[y] = IF y = w THEN 0 ELSE IF y = last THEN i ELSE s.indexes[y]
    BY <1>2, Moves
  <2>2. /\ \A y \in Bytes32 : s.indexes[y] # 0 =>
              s.indexes[y] \in 1 .. n /\ s.values[s.indexes[y]] = y
        /\ \A j \in 1 .. n : s.indexes[s.values[j]] = j /\ s.values[j] \in Bytes32
    BY GoodTells DEF Tells, Good, SetType
  <2> HIDE DEF r, n, i, last
  <2>3. s.indexes[last] = n /\ (last = w <=> i = n) /\ s.indexes[w] = i
    BY <2>1, <2>2 DEF last, i
  <2>4. ASSUME NEW y \in Bytes32, r.indexes[y] # 0
        PROVE  r.indexes[y] \in 1 .. n - 1 /\ r.values[r.indexes[y]] = y
    <3>1. y # w
      BY <2>1, <2>4
    <3>2. CASE y = last
      <4>1. r.indexes[y] = i /\ i \in 1 .. n - 1
        BY <3>1, <3>2, <2>1, <2>3
      <4> QED BY <4>1, <3>2, <2>1
    <3>3. CASE y # last
      <4>1. r.indexes[y] = s.indexes[y] /\ s.indexes[y] \in 1 .. n
            /\ s.values[s.indexes[y]] = y
        BY <3>1, <3>3, <2>1, <2>2, <2>4
      <4>2. s.indexes[y] # n /\ s.indexes[y] # i
        BY <4>1, <3>1, <3>3, <2>1 DEF last
      <4> QED BY <4>1, <4>2, <2>1
    <3> QED BY <3>2, <3>3
  <2>5. ASSUME NEW j \in 1 .. n - 1 PROVE r.indexes[r.values[j]] = j
    <3>1. j \in 1 .. n /\ j # n
      BY <2>1
    <3>2. CASE j = i
      BY <3>1, <3>2, <2>1, <2>3
    <3>3. CASE j # i
      <4>1. r.values[j] = s.values[j] /\ s.values[j] \in Bytes32 /\ s.indexes[s.values[j]] = j
        BY <3>1, <3>3, <2>1, <2>2
      <4>2. s.values[j] # w /\ s.values[j] # last
        BY <4>1, <3>1, <3>3, <2>3
      <4> QED BY <4>1, <4>2, <2>1
    <3> QED BY <3>2, <3>3
  <2>6. Good(r)
    <3>1. Tells(r.values, n - 1, r.indexes)
      BY <2>4, <2>5 DEF Tells
    <3>2. Tells(r.values, Len(r.values), r.indexes)
      BY <3>1, <2>1
    <3> QED BY <3>2, <2>1, GoodTells
  <2>7. \A y \in Bytes32 : Contains(r, y) <=> Contains(s, y) /\ y # w
    <3> SUFFICES ASSUME NEW y \in Bytes32
                 PROVE  r.indexes[y] # 0 <=> s.indexes[y] # 0 /\ y # w
      BY DEF Contains
    <3>1. n # 0 /\ i # 0
      BY <2>1
    <3> QED BY <3>1, <2>1, <2>3
  <2> QED BY <2>6, <2>7 DEF r
<1> QED BY <1>1, <1>2
-----------------------------------------------------------------------------
(* The contract around the set                                             *)

\* What its type can have survives the way into a word and back.
LEMMA Kept ==
    ASSUME NEW v \in Elements
    PROVE  v \in Bytes32 /\ Word(v) = v /\ Value(v) = v
<1> USE ConversionAssumption
<1>1. ASSUME NEW a \in Address PROVE Uint160(a) = a
  <2>1. a \in 0 .. AddressMax /\ AddressMax + 1 \in Nat /\ a < AddressMax + 1
    BY DEF Address
  <2>2. a % (AddressMax + 1) = a
    BY <2>1
  <2> QED BY <2>2 DEF Uint160
<1>2. v \in Bytes32
  BY DEF Elements, ValuesOf, Address, Bytes32
<1>3. ValueType = "address" => v \in Address
  BY DEF Elements, ValuesOf
<1> QED BY <1>1, <1>2, <1>3 DEF Word, Value, ToBytes32, FromBytes32

Members(s) == {v \in Elements : Contains(s, Word(v))}

\* The words in the set are of its type.
SetInv == Good(set) /\ \A w \in Bytes32 : Contains(set, w) => w \in Elements

\* The array enumerates the members, each once.
LEMMA ArrayOfMembers ==
    ASSUME NEW s, Good(s), NEW E \in SUBSET Bytes32, \A w \in Bytes32 : Contains(s, w) => w \in E
    PROVE  LET M == {v \in E : Contains(s, v)} IN
           /\ Length(s) \in Nat /\ IsFiniteSet(M) /\ Cardinality(M) = Length(s)
           /\ s.values \in [1 .. Length(s) -> M]
           /\ \A i, j \in 1 .. Length(s) : i # j => s.values[i] # s.values[j]
<1> DEFINE M == {v \in E : Contains(s, v)}
           n == Len(s.values)
<1>1. s.values \in Seq(Bytes32) /\ n \in Nat /\ s.values \in [1 .. n -> Bytes32]
  BY DEF Good, SetType
<1>2. \A i \in 1 .. n : s.values[i] \in Bytes32 /\ s.indexes[s.values[i]] = i
  BY <1>1, GoodTells DEF Tells
<1>3. \A i \in 1 .. n : s.values[i] \in M
  BY <1>2 DEF Contains
<1>4. s.values \in [1 .. n -> M]
  BY <1>1, <1>3
<1>5. \A i, j \in 1 .. n : s.values[i] = s.values[j] => i = j
  BY <1>2
<1>6. ASSUME NEW v \in M PROVE \E i \in 1 .. n : s.values[i] = v
  <2>1. v \in Bytes32 /\ Contains(s, v)
    OBVIOUS
  <2>2. s.indexes[v] \in 1 .. n /\ s.values[s.indexes[v]] = v
    BY <2>1, GoodTells DEF Tells, Contains
  <2> QED BY <2>2
<1> HIDE DEF M
<1>7. s.values \in Bijection(1 .. n, M)
  BY <1>4, <1>5, <1>6 DEF Bijection, Injection, Surjection, IsInjective
<1>8. IsFiniteSet(M) /\ Cardinality(M) = n
  <2>1. ExistsBijection(1 .. n, M)
    BY <1>7 DEF ExistsBijection
  <2> QED BY <2>1, <1>1, FS_CountingElements, FS_NatBijection
<1> QED BY <1>1, <1>4, <1>5, <1>8 DEF Length, M

LEMMA Enumerates ==
    ASSUME SetInv
    PROVE  /\ Length(set) \in Nat
           /\ IsFiniteSet(Members(set)) /\ Cardinality(Members(set)) = Length(set)
           /\ set.values \in [1 .. Length(set) -> Members(set)]
           /\ \A i, j \in 1 .. Length(set) : i # j => set.values[i] # set.values[j]
<1>1. Elements \in SUBSET Bytes32
  BY Kept
<1>2. Members(set) = {v \in Elements : Contains(set, v)}
  BY Kept DEF Members
<1> QED BY <1>1, <1>2, ArrayOfMembers DEF SetInv

LEMMA InitSet == Init => SetInv
  BY EmptyGood DEF Init, SetInv

LEMMA StepSet == SetInv /\ [Next]_vars => SetInv'
<1> SUFFICES ASSUME SetInv, [Next]_vars PROVE SetInv'
  OBVIOUS
<1>1. ASSUME NEW elem \in Elements, add(elem) PROVE SetInv'
  <2>1. elem \in Bytes32 /\ Word(elem) = elem /\ set' = Add(set, elem)
    BY <1>1, Kept DEF add
  <2>2. Good(set') /\ \A w \in Bytes32 : Contains(set', w) <=> Contains(set, w) \/ w = elem
    BY <2>1, AddKeeps DEF SetInv
  <2> QED BY <2>2, <1>1 DEF SetInv
<1>2. ASSUME NEW elem \in Elements, remove(elem) PROVE SetInv'
  <2>1. elem \in Bytes32 /\ Word(elem) = elem /\ set' = Remove(set, elem)
    BY <1>2, Kept DEF remove
  <2>2. Good(set') /\ \A w \in Bytes32 : Contains(set', w) <=> Contains(set, w) /\ w # elem
    BY <2>1, RemoveKeeps DEF SetInv
  <2> QED BY <2>2 DEF SetInv
<1>3. CASE UNCHANGED set
  BY <1>3 DEF SetInv
<1> QED
  BY <1>1, <1>2, <1>3 DEF Next, vars, contains, length, at, values

\* The set keeps its invariant, through any calls.
THEOREM SetInvariant == Spec => []SetInv
  BY InitSet, StepSet, PTL DEF Spec

\* Whatever the widths, and through any calls, the array and the indexes tell of
\* the same set: no swap-and-pop of _remove leaves a stale index.
THEOREM AlwaysIndexed == Spec => []Indexed
<1>1. SetInv => Indexed
  BY DEF SetInv, Good, Agrees, Indexed
<1> QED BY <1>1, SetInvariant, PTL

LEMMA SetTyped == ASSUME SetInv PROVE TypeOK
<1>1. IsFiniteSet(Elements)
  <2>1. IsFiniteSet(0 .. Bytes32Max) /\ IsFiniteSet(0 .. AddressMax)
    BY FS_Interval, ConversionAssumption
  <2> QED BY <2>1 DEF Elements, ValuesOf, Address, Bytes32
<1>2. Cardinality(Members(set)) <= Cardinality(Elements)
  <2>1. Members(set) \subseteq Elements
    BY DEF Members
  <2> QED BY <1>1, <2>1, FS_Subset
<1> QED BY <1>2, Enumerates DEF TypeOK, SetInv, Good

\* The set has its type, and at most as many members as there are values.
THEOREM SetTypeCorrect == Spec => []TypeOK
<1>1. SetInv => TypeOK
  BY SetTyped
<1> QED BY <1>1, SetInvariant, PTL

-----------------------------------------------------------------------------
(* The contract answers as a set                                           *)

LEMMA InitPromise == Init => Promise!Init
<1> SUFFICES ASSUME Init PROVE Promise!Init
  OBVIOUS
<1>1. \A v \in Elements : ~Contains(set, Word(v))
  BY EmptyGood, Kept DEF Init
<1> QED BY <1>1 DEF Init, Promise!Init

LEMMA StepPromise == SetInv /\ [Next]_vars => [Promise!Next]_(Promise!vars)
<1> DEFINE members == {v \in Elements : Contains(set, Word(v))}
<1> SUFFICES ASSUME SetInv, [Next]_vars PROVE [Promise!Next]_(Promise!vars)
  OBVIOUS
<1>a. \A S : Promise!Cardinality(S) = Cardinality(S)
  BY DEF Promise!Cardinality, Cardinality
<1>0. /\ Length(set) \in Nat /\ Cardinality(members) = Length(set)
      /\ set.values \in [1 .. Length(set) -> members]
      /\ \A i, j \in 1 .. Length(set) : i # j => set.values[i] # set.values[j]
  BY Enumerates DEF Members
<1>1. ASSUME NEW elem \in Elements, add(elem) PROVE Promise!add(elem)
  <2>1. elem \in Bytes32 /\ Word(elem) = elem /\ set' = Add(set, elem)
    BY <1>1, Kept DEF add
  <2>2. \A w \in Bytes32 : Contains(set', w) <=> Contains(set, w) \/ w = elem
    BY <2>1, AddKeeps DEF SetInv
  <2>3. members' = members \cup {elem}
    BY <2>1, <2>2, Kept
  <2>4. (~Contains(set, Word(elem))) = (elem \notin members)
    BY Zenon
  <2> QED BY <1>1, <2>3, <2>4 DEF add, Answers, Promise!add, Promise!Answers
<1>2. ASSUME NEW elem \in Elements, remove(elem) PROVE Promise!remove(elem)
  <2>1. elem \in Bytes32 /\ Word(elem) = elem /\ set' = Remove(set, elem)
    BY <1>2, Kept DEF remove
  <2>2. \A w \in Bytes32 : Contains(set', w) <=> Contains(set, w) /\ w # elem
    BY <2>1, RemoveKeeps DEF SetInv
  <2>3. members' = members \ {elem}
    BY <2>1, <2>2, Kept
  <2>4. Contains(set, Word(elem)) = (elem \in members)
    <3>1. Contains(set, Word(elem)) <=> elem \in members
      OBVIOUS
    <3> HIDE DEF members
    <3> QED BY <3>1, SMT DEF Contains
  <2> QED BY <1>2, <2>3, <2>4 DEF remove, Answers, Promise!remove, Promise!Answers
<1>3. ASSUME NEW elem \in Elements, contains(elem) PROVE Promise!contains(elem)
  <2>1. members' = members
    BY <1>3 DEF contains
  <2>2. Contains(set, Word(elem)) = (elem \in members)
    <3>1. Contains(set, Word(elem)) <=> elem \in members
      OBVIOUS
    <3> HIDE DEF members
    <3> QED BY <3>1, SMT DEF Contains
  <2> QED BY <1>3, <2>1, <2>2 DEF contains, Answers, Promise!contains, Promise!Answers
<1>4. ASSUME length PROVE Promise!length
  <2>1. members' = members
    BY <1>4 DEF length
  <2> QED BY <1>a, <1>0, <1>4, <2>1 DEF length, Answers, Promise!length, Promise!Answers
<1>5. ASSUME NEW index \in Indices, at(index) PROVE Promise!at(index)
  <2>1. members' = members
    BY <1>5 DEF at
  <2>2. CASE InBounds(set, index)
    <3>1. index + 1 \in 1 .. Length(set) /\ index < Cardinality(members)
      BY <1>0, <2>2, ConversionAssumption DEF InBounds, Indices
    <3>2. At(set, index) \in members
      BY <1>0, <3>1 DEF At
    <3>3. Value(At(set, index)) = At(set, index)
      BY <3>2, Kept
    <3> QED BY <1>a, <1>5, <2>1, <2>2, <3>1, <3>2, <3>3 DEF at, Answers, Promise!at, Promise!Answers
  <2>3. CASE ~InBounds(set, index)
    <3>1. ~(index < Cardinality(members))
      BY <1>0, <2>3 DEF InBounds
    <3> QED BY <1>a, <1>5, <2>1, <2>3, <3>1 DEF at, Answers, Promise!at, Promise!Answers
  <2> QED BY <2>2, <2>3
<1>6. ASSUME values PROVE Promise!values
  <2>1. members' = members
    BY <1>6 DEF values
  <2>2. set.values \in Promise!SetToSeqs(members)
    BY <1>a, <1>0 DEF Promise!SetToSeqs
  <2> QED BY <1>6, <2>1, <2>2 DEF values, Answers, Promise!values, Promise!Answers
<1>7. CASE UNCHANGED vars
  BY <1>7 DEF vars, Promise!vars
<1> QED
  BY <1>1, <1>2, <1>3, <1>4, <1>5, <1>6, <1>7 DEF Next, Promise!Next

\* The contract implements the promise: it answers as a set would.
THEOREM ImplementsSet == Spec => IsASet
  BY SetInvariant, InitPromise, StepPromise, PTL DEF Spec, IsASet, Promise!Spec

-----------------------------------------------------------------------------
(* The history of checkpoints: searches are sound from whichever bounds    *)
(* they begin, and lookups answer what each block ended with.              *)

(* Numbers                                                                 *)

\* A square root is found, and is no larger than its number allows.
LEMMA SqrtBounds ==
    ASSUME NEW n \in Nat, n > 5
    PROVE  Sqrt(n) \in 1 .. n - 1
<1> DEFINE T == {t \in Nat : n < (t + 1) * (t + 1)}
           R == OpToRel(<, Nat)
<1>1. T \subseteq Nat /\ n \in T
  <2>1. n < (n + 1) * (n + 1)
    OBVIOUS
  <2> QED BY <2>1
<1>2. PICK r \in T : \A t \in T : <<t, r>> \notin R
  <2> HIDE DEF T, R
  <2>1. IsWellFoundedOn(R, Nat)
    BY NatLessThanWellFounded DEF R
  <2> QED BY <2>1, <1>1, WFMin
<1>3. \A t \in T : ~(t < r)
  BY <1>1, <1>2 DEF OpToRel
<1>4. r \in 0 .. n /\ r * r <= n /\ n < (r + 1) * (r + 1)
  <2>1. r \in Nat /\ n < (r + 1) * (r + 1)
    OBVIOUS
  <2>2. r <= n
    BY <1>1, <1>3
  <2>3. r # 0
    BY <2>1
  <2>4. r - 1 \in Nat /\ r - 1 \notin T
    BY <1>3, <2>1, <2>3
  <2>5. ~(n < r * r)
    BY <2>4, <2>1
  <2> QED BY <2>1, <2>2, <2>5
<1>5. /\ Sqrt(n) \in 0 .. n
      /\ Sqrt(n) * Sqrt(n) <= n /\ n < (Sqrt(n) + 1) * (Sqrt(n) + 1)
  <2> DEFINE P(q) == q * q <= n /\ n < (q + 1) * (q + 1)
  <2>1. \E q \in 0 .. n : P(q)
    BY <1>4
  <2>2. Sqrt(n) = CHOOSE q \in 0 .. n : P(q)
    BY DEF Sqrt
  <2> HIDE DEF P
  <2>3. Sqrt(n) \in 0 .. n /\ P(Sqrt(n))
    BY <2>1, <2>2
  <2> QED BY <2>3 DEF P
<1>6. \A q \in 0 .. n : q * q <= n /\ n < (q + 1) * (q + 1) => q \in 1 .. n - 1
  <2> SUFFICES ASSUME NEW q \in 0 .. n, q * q <= n, n < (q + 1) * (q + 1)
               PROVE  q \in 1 .. n - 1
    OBVIOUS
  <2>1. q # 0
    OBVIOUS
  <2>2. q # n
    <3>1. n * n > n
      OBVIOUS
    <3> QED BY <3>1
  <2> QED BY <2>1, <2>2
<1> QED BY <1>5, <1>6

\* A number in its width is not changed by a cast to it.
LEMMA CastKeeps ==
    ASSUME NEW bits, 2 ^ bits \in Nat, NEW val \in Nat, Cast!ToUintFits(bits, val)
    PROVE  Cast!ToUint(bits, val) = val /\ val \in 0 .. Cast!UintMax(bits)
<1> DEFINE m == 2 ^ bits
<1>1. val < m /\ m \in Nat \ {0}
  BY DEF Cast!ToUintFits, Cast!UintMax
<1>2. val % m = val
  <2> HIDE DEF m
  <2> QED BY <1>1
<1> QED BY <1>1, <1>2 DEF Cast!ToUint, Cast!AsUint, Cast!UintMax
-----------------------------------------------------------------------------
(* Checkpoints in the order of their keys                                  *)

\* Checkpoints and searches with keys of any width.
AnyCheckpoint == [key : Nat, value : Nat]
AnySearch == [low : Nat, high : Nat, key : Nat]

Sorted(c) == \A i, j \in 1 .. Len(c) : i < j => c[i].key < c[j].key

\* A history as it can be in block b.
KeptCheckpoints(c, b) ==
    /\ c \in Seq(CheckpointType) /\ Sorted(c)
    /\ \A i \in 1 .. Len(c) : c[i].key <= b

\* `ValueAt` of checkpoints c.
ValueOf(c, b) ==
    LET upTo == {i \in 1 .. Len(c) : c[i].key <= b}
    IN  IF upTo = {} THEN 0
        ELSE c[CHOOSE i \in upTo : \A j \in upTo : j <= i].value

\* The first n checkpoints are those up to block b.
Cut(c, b, n) ==
    /\ n \in 0 .. Len(c)
    /\ \A i \in 1 .. Len(c) : c[i].key <= b <=> i <= n

LEMMA MaxNat == ASSUME HistoryAssumption PROVE MaxKey \in Nat /\ MaxValue \in Nat
  BY DEF HistoryAssumption, MaxKey, MaxValue, Cast!UintMax

LEMMA CheckpointFields ==
    ASSUME NEW c \in Seq(AnyCheckpoint)
    PROVE  /\ Len(c) \in Nat
           /\ \A i \in 1 .. Len(c) :
                 /\ c[i] \in AnyCheckpoint /\ c[i].key \in Nat /\ c[i].value \in Nat
<1>1. \A i \in 1 .. Len(c) : c[i] \in AnyCheckpoint
  OBVIOUS
<1> QED BY <1>1 DEF AnyCheckpoint

LEMMA HistoryFields ==
    ASSUME HistoryAssumption, NEW c \in Seq(CheckpointType)
    PROVE  /\ c \in Seq(AnyCheckpoint)
           /\ \A i \in 1 .. Len(c) :
                 c[i].key \in 0 .. MaxKey /\ c[i].value \in 0 .. MaxValue
<1>1. CheckpointType \subseteq AnyCheckpoint
  BY MaxNat DEF CheckpointType, AnyCheckpoint
<1>2. \A i \in 1 .. Len(c) : c[i] \in CheckpointType
  OBVIOUS
<1>3. \A e \in CheckpointType : e.key \in 0 .. MaxKey /\ e.value \in 0 .. MaxValue
  BY DEF CheckpointType
<1> QED BY <1>1, <1>2, <1>3

LEMMA CutExists ==
    ASSUME NEW c \in Seq(AnyCheckpoint), Sorted(c), NEW b \in Nat
    PROVE  \E n \in Nat : Cut(c, b, n)
<1> DEFINE T == {m \in Nat : \A i \in 1 .. Len(c) : i > m => c[i].key > b}
           R == OpToRel(<, Nat)
<1>1. T \subseteq Nat /\ Len(c) \in T
  BY CheckpointFields
<1>2. PICK n \in T : \A m \in T : <<m, n>> \notin R
  <2> HIDE DEF T, R
  <2>1. IsWellFoundedOn(R, Nat)
    BY NatLessThanWellFounded DEF R
  <2> QED BY <2>1, <1>1, WFMin
<1>3. \A m \in T : ~(m < n)
  BY <1>1, <1>2 DEF OpToRel
<1>4. n \in 0 .. Len(c)
  BY <1>1, <1>3
<1>5. ASSUME NEW i \in 1 .. Len(c), i <= n PROVE c[i].key <= b
  <2>1. n - 1 \in Nat /\ n - 1 \notin T
    BY <1>3, <1>4, <1>5
  <2>2. PICK j \in 1 .. Len(c) : j > n - 1 /\ ~(c[j].key > b)
    BY <2>1
  <2>3. j = n
    BY <1>1, <2>2, <1>4, CheckpointFields
  <2>4. c[n].key <= b
    BY <2>2, <2>3, CheckpointFields
  <2>5. i = n \/ c[i].key < c[n].key
    BY <1>5, <2>2, <2>3 DEF Sorted
  <2> QED BY <2>4, <2>5, <2>2, <2>3, <1>5, CheckpointFields
<1>6. ASSUME NEW i \in 1 .. Len(c), ~(i <= n) PROVE ~(c[i].key <= b)
  BY <1>6, <1>4, CheckpointFields
<1> QED BY <1>4, <1>5, <1>6 DEF Cut

LEMMA ValueAtCut ==
    ASSUME NEW c \in Seq(AnyCheckpoint), NEW b, NEW n \in Nat, Cut(c, b, n)
    PROVE  ValueOf(c, b) = IF n = 0 THEN 0 ELSE c[n].value
<1> DEFINE upTo == {i \in 1 .. Len(c) : c[i].key <= b}
<1>1. upTo = 1 .. n
  BY CheckpointFields DEF Cut
<1>2. CASE n = 0
  BY <1>1, <1>2 DEF ValueOf
<1>3. CASE n # 0
  <2>1. n \in upTo /\ \A j \in upTo : j <= n
    BY <1>1, <1>3
  <2>2. \A i \in upTo : (\A j \in upTo : j <= i) => i = n
    BY <1>1, <1>3
  <2>3. (CHOOSE i \in upTo : \A j \in upTo : j <= i) = n
    <3> HIDE DEF upTo
    <3> QED BY <2>1, <2>2
  <2> QED BY <1>3, <2>1, <2>3 DEF ValueOf
<1> QED BY <1>2, <1>3

LEMMA ValueTyped ==
    ASSUME HistoryAssumption, NEW c \in Seq(CheckpointType), Sorted(c), NEW b \in Nat
    PROVE  ValueOf(c, b) \in 0 .. MaxValue
<1>1. PICK n \in Nat : Cut(c, b, n)
  BY HistoryFields, CutExists
<1>2. CASE n = 0
  BY <1>1, <1>2, HistoryFields, ValueAtCut, MaxNat
<1>3. CASE n # 0
  <2>1. n \in 1 .. Len(c)
    BY <1>1, <1>3 DEF Cut
  <2> QED BY <1>1, <1>3, <2>1, ValueAtCut, HistoryFields
<1> QED BY <1>2, <1>3

\* From the last key on, the value is the latest.
LEMMA LatestIsLast ==
    ASSUME HistoryAssumption, NEW b \in Nat, NEW c, KeptCheckpoints(c, b), NEW q \in Nat, b <= q
    PROVE  ValueOf(c, q) = Latest(c) /\ Latest(c) \in 0 .. MaxValue
<1>1. /\ c \in Seq(CheckpointType) /\ c \in Seq(AnyCheckpoint)
      /\ Sorted(c) /\ Len(c) \in Nat
  BY HistoryFields DEF KeptCheckpoints
<1>2. Cut(c, q, Len(c))
  BY <1>1, CheckpointFields DEF Cut, KeptCheckpoints
<1>3. Latest(c) = IF Len(c) = 0 THEN 0 ELSE c[Len(c)].value
  BY <1>1 DEF Latest, LastOf, UnsafeAccess
<1>4. ValueOf(c, q) = IF Len(c) = 0 THEN 0 ELSE c[Len(c)].value
  BY <1>1, <1>2, ValueAtCut
<1> QED BY <1>1, <1>3, <1>4, ValueTyped

\* A push for key b, from the last key on: one more checkpoint, or the last one overwritten.
LEMMA InsertSorts ==
    ASSUME NEW T \in SUBSET AnyCheckpoint, NEW c \in Seq(T), Sorted(c), NEW b, NEW v,
           Checkpoint(b, v) \in T, \A i \in 1 .. Len(c) : c[i].key <= b
    PROVE  /\ Insertable(c, b)
           /\ Insert(c, b, v) \in Seq(T) /\ Sorted(Insert(c, b, v))
           /\ \A i \in 1 .. Len(Insert(c, b, v)) : Insert(c, b, v)[i].key <= b
           /\ ValueOf(Insert(c, b, v), b) = v
           /\ \A q \in Nat : q < b => ValueOf(Insert(c, b, v), q) = ValueOf(c, q)
<1> DEFINE l == Len(c)
           d == Insert(c, b, v)
<1>1. c \in Seq(AnyCheckpoint) /\ l \in Nat
  OBVIOUS
<1>2. \A i \in 1 .. l : c[i] \in AnyCheckpoint /\ c[i].key \in Nat /\ c[i].key <= b
  BY <1>1, CheckpointFields
<1>3. l # 0 => LastOf(c) = c[l]
  BY <1>1 DEF LastOf, UnsafeAccess
<1>4. /\ Checkpoint(b, v).key = b /\ Checkpoint(b, v).value = v
      /\ Checkpoint(b, v) \in AnyCheckpoint /\ b \in Nat /\ v \in Nat
  BY DEF Checkpoint, AnyCheckpoint
<1>5. Insertable(c, b)
  BY <1>1, <1>2, <1>3 DEF Insertable
\* The new array has m checkpoints: those before m are unchanged, the last is new.
<1>6. PICK m \in 1 .. l + 1 :
         /\ d \in Seq(T) /\ Len(d) = m
         /\ d[m].key = b /\ d[m].value = v
         /\ \A i \in 1 .. m - 1 : i \in 1 .. l /\ d[i] = c[i] /\ c[i].key < b
         /\ \A i \in m .. l : c[i].key = b
  <2>1. CASE l # 0 /\ c[l].key = b
    <3>1. d = [c EXCEPT ![l].value = v]
      BY <2>1, <1>1, <1>3 DEF Insert
    <3>2. /\ d \in Seq(T) /\ Len(d) = l
          /\ d[l] = [c[l] EXCEPT !.value = v] /\ \A i \in 1 .. l - 1 : d[i] = c[i]
      <4>1. [c[l] EXCEPT !.value = v] = Checkpoint(b, v)
        BY <2>1, <1>1, <1>2 DEF AnyCheckpoint, Checkpoint
      <4> QED BY <3>1, <4>1, <2>1, <1>1
    <3>3. d[l].key = b /\ d[l].value = v
      BY <3>2, <2>1, <1>1, <1>2 DEF AnyCheckpoint
    <3>4. \A i \in 1 .. l - 1 : c[i].key < b
      BY <2>1, <1>1 DEF Sorted
    <3>5. l \in 1 .. l + 1 /\ (\A i \in l .. l : c[i].key = b)
      BY <2>1, <1>1
    <3>6. \A i \in 1 .. l - 1 : i \in 1 .. l
      BY <1>1
    <3> HIDE DEF d, l
    <3> QED BY <3>2, <3>3, <3>4, <3>5, <3>6
  <2>2. CASE ~(l # 0 /\ c[l].key = b)
    <3>1. d = Append(c, Checkpoint(b, v))
      BY <2>2, <1>1, <1>3 DEF Insert
    <3>2. /\ d \in Seq(T) /\ Len(d) = l + 1
          /\ d[l + 1] = Checkpoint(b, v) /\ \A i \in 1 .. l : d[i] = c[i]
      BY <3>1, <1>1, <1>4, AppendProperties
    <3>3. \A i \in 1 .. l : c[i].key < b
      <4> SUFFICES ASSUME NEW i \in 1 .. l PROVE c[i].key < b
        OBVIOUS
      <4>1. l \in 1 .. l /\ c[l].key < b
        BY <2>2, <1>1, <1>2, <1>4
      <4>2. i = l \/ c[i].key < c[l].key
        BY <4>1, <1>1 DEF Sorted
      <4> QED BY <4>1, <4>2, <1>2, <1>4
    <3> HIDE DEF d
    <3> QED BY <3>2, <3>3, <1>1, <1>4
  <2> QED BY <2>1, <2>2
<1> HIDE DEF d
<1>7. \A i \in 1 .. Len(d) : i = m \/ i \in 1 .. m - 1
  BY <1>6
<1>8. Sorted(d)
  <2> SUFFICES ASSUME NEW i \in 1 .. Len(d), NEW j \in 1 .. Len(d), i < j
               PROVE  d[i].key < d[j].key
    BY DEF Sorted
  <2>1. i \in 1 .. m - 1 /\ i \in 1 .. l /\ d[i] = c[i] /\ c[i].key < b
    BY <1>6, <1>7
  <2>2. CASE j = m
    BY <2>1, <2>2, <1>6
  <2>3. CASE j # m
    BY <2>1, <2>3, <1>6, <1>7, <1>1 DEF Sorted
  <2> QED BY <2>2, <2>3
<1>9. d \in Seq(AnyCheckpoint) /\ \A i \in 1 .. Len(d) : d[i].key <= b
  BY <1>2, <1>4, <1>6, <1>7
<1>10. ValueOf(d, b) = v
  <2>1. Cut(d, b, m)
    BY <1>6, <1>9 DEF Cut
  <2> QED BY <2>1, <1>6, <1>9, ValueAtCut
<1>11. ASSUME NEW q \in Nat, q < b PROVE ValueOf(d, q) = ValueOf(c, q)
  <2>1. PICK n \in Nat : Cut(c, q, n)
    BY <1>1, CutExists
  <2>2. n <= m - 1
    <3> SUFFICES ASSUME n > m - 1 PROVE FALSE
      BY <1>6
    <3>1. n \in m .. l /\ n \in 1 .. l
      BY <2>1, <1>1, <1>6 DEF Cut
    <3>2. c[n].key <= q /\ c[n].key = b
      BY <3>1, <2>1, <1>6 DEF Cut
    <3> QED BY <3>2, <1>4, <1>11
  <2>3. Cut(d, q, n)
    <3>1. n \in 0 .. Len(d)
      BY <2>2, <1>6
    <3>2. ASSUME NEW i \in 1 .. Len(d) PROVE d[i].key <= q <=> i <= n
      <4>1. CASE i = m
        BY <4>1, <1>4, <1>6, <1>11, <2>2
      <4>2. CASE i # m
        BY <4>2, <1>6, <1>7, <2>1 DEF Cut
      <4> QED BY <4>1, <4>2
    <3> QED BY <3>1, <3>2 DEF Cut
  <2>4. n # 0 => d[n] = c[n]
    <3>1. n # 0 => n \in 1 .. m - 1
      BY <2>2, <1>1, <1>6
    <3> QED BY <3>1, <1>6
  <2>5. ValueOf(d, q) = IF n = 0 THEN 0 ELSE d[n].value
    BY <2>3, <1>9, ValueAtCut
  <2>6. ValueOf(c, q) = IF n = 0 THEN 0 ELSE c[n].value
    BY <2>1, <1>1, ValueAtCut
  <2> QED BY <2>4, <2>5, <2>6
<1> QED BY <1>5, <1>6, <1>8, <1>9, <1>10, <1>11 DEF d

\* A push in block b, for key b.
LEMMA InsertKeeps ==
    ASSUME HistoryAssumption, NEW b \in Nat, NEW c, KeptCheckpoints(c, b),
           b \in 0 .. MaxKey, NEW v \in 0 .. MaxValue
    PROVE  /\ Insertable(c, b)
           /\ KeptCheckpoints(Insert(c, b, v), b)
           /\ ValueOf(Insert(c, b, v), b) = v
           /\ \A q \in Nat : q < b => ValueOf(Insert(c, b, v), q) = ValueOf(c, q)
<1>1. CheckpointType \in SUBSET AnyCheckpoint
  BY MaxNat DEF CheckpointType, AnyCheckpoint
<1>2. Checkpoint(b, v) \in CheckpointType
  BY DEF Checkpoint, CheckpointType
<1>3. c \in Seq(CheckpointType) /\ Sorted(c) /\ \A i \in 1 .. Len(c) : c[i].key <= b
  BY DEF KeptCheckpoints
<1> QED BY <1>1, <1>2, <1>3, InsertSorts DEF KeptCheckpoints

-----------------------------------------------------------------------------
(* Searches                                                                *)

\* What a search has left behind is on the right side of its key.
Fits(c, s) ==
    /\ s \in AnySearch /\ s.low <= s.high /\ s.high <= Len(c)
    /\ \A i \in 1 .. Len(c) :
          /\ i <= s.low => c[i].key <= s.key
          /\ i > s.high => c[i].key > s.key

LEMMA WholeFits ==
    ASSUME NEW c \in Seq(AnyCheckpoint), NEW k \in Nat
    PROVE  Fits(c, Whole(c, k)) /\ Whole(c, k).key = k
  BY CheckpointFields DEF Fits, Whole, Between, AnySearch

LEMMA RecentFits ==
    ASSUME NEW c \in Seq(AnyCheckpoint), Sorted(c),
           NEW k \in Nat
    PROVE  Fits(c, Recent(c, k)) /\ Recent(c, k).key = k
<1> DEFINE l == Len(c)
           mid == l - Sqrt(l)
<1>1. l \in Nat /\ k \in Nat
  BY CheckpointFields
<1>2. CASE l <= 5
  BY <1>2, WholeFits DEF Recent
<1>3. CASE ~(l <= 5)
  <2>1. mid \in 1 .. l - 1
    BY <1>1, <1>3, SqrtBounds
  <2>2. UnsafeAccess(c, mid) = c[mid + 1] /\ mid + 1 \in 1 .. l
    BY <2>1, <1>1 DEF UnsafeAccess
  <2>3. \A i \in 1 .. l : c[i].key \in Nat
    BY CheckpointFields
  <2>4. Recent(c, k) = IF k < UnsafeAccess(c, mid).key THEN Between(0, mid, k)
                       ELSE Between(mid + 1, l, k)
    BY <1>3 DEF Recent
  <2> HIDE DEF mid
  <2>5. CASE k < c[mid + 1].key
    <3>1. Recent(c, k) = Between(0, mid, k)
      BY <2>2, <2>4, <2>5
    <3>2. \A i \in 1 .. l : i > mid => c[i].key > k
      BY <2>1, <2>2, <2>3, <2>5, <1>1 DEF Sorted
    <3> QED BY <3>1, <3>2, <2>1, <1>1 DEF Fits, Between, AnySearch
  <2>6. CASE ~(k < c[mid + 1].key)
    <3>1. Recent(c, k) = Between(mid + 1, l, k)
      BY <2>2, <2>4, <2>6
    <3>2. \A i \in 1 .. l : i <= mid + 1 => c[i].key <= k
      BY <2>1, <2>2, <2>3, <2>6, <1>1 DEF Sorted
    <3> QED BY <3>1, <3>2, <2>1, <1>1 DEF Fits, Between, AnySearch
  <2> QED BY <2>5, <2>6
<1> QED BY <1>2, <1>3

LEMMA UpperStepFits ==
    ASSUME NEW c \in Seq(AnyCheckpoint), Sorted(c),
           NEW s, Fits(c, s), Searching(s)
    PROVE  Fits(c, UpperStep(c, s)) /\ UpperStep(c, s).key = s.key
<1> DEFINE mid == Average(s.low, s.high)
<1>1. s \in AnySearch /\ s.low \in Nat /\ s.high \in Nat /\ s.key \in Nat
      /\ s.low < s.high /\ s.high <= Len(c) /\ Len(c) \in Nat
  BY CheckpointFields DEF Fits, AnySearch, Searching
<1>2. mid \in Nat /\ s.low <= mid /\ mid < s.high
  BY <1>1 DEF Average
<1>3. UnsafeAccess(c, mid) = c[mid + 1] /\ mid + 1 \in 1 .. Len(c)
  BY <1>1, <1>2 DEF UnsafeAccess
<1>4. \A i \in 1 .. Len(c) : c[i].key \in Nat
  BY CheckpointFields
<1>5. UpperStep(c, s) = IF UnsafeAccess(c, mid).key > s.key THEN [s EXCEPT !.high = mid]
                        ELSE [s EXCEPT !.low = mid + 1]
  BY DEF UpperStep
<1> HIDE DEF mid
<1>6. CASE c[mid + 1].key > s.key
  <2>1. UpperStep(c, s) = [s EXCEPT !.high = mid]
    BY <1>3, <1>5, <1>6
  <2>2. \A i \in 1 .. Len(c) : i > mid => c[i].key > s.key
    BY <1>1, <1>2, <1>3, <1>4, <1>6 DEF Sorted
  <2> QED BY <2>1, <2>2, <1>1, <1>2 DEF Fits, AnySearch
<1>7. CASE ~(c[mid + 1].key > s.key)
  <2>1. UpperStep(c, s) = [s EXCEPT !.low = mid + 1]
    BY <1>3, <1>5, <1>7
  <2>2. \A i \in 1 .. Len(c) : i <= mid + 1 => c[i].key <= s.key
    BY <1>1, <1>2, <1>3, <1>4, <1>7 DEF Sorted
  <2> QED BY <2>1, <2>2, <1>1, <1>2 DEF Fits, AnySearch
<1> QED BY <1>6, <1>7

\* A search that has ended has found the value at its key.
LEMMA UpperValueRight ==
    ASSUME NEW c \in Seq(AnyCheckpoint),
           NEW s, Fits(c, s), ~Searching(s)
    PROVE  UpperValue(c, s) = ValueOf(c, s.key)
<1>1. s.low \in Nat /\ s.high \in Nat /\ s.key \in Nat /\ s.low = s.high
      /\ s.high <= Len(c) /\ Len(c) \in Nat
  BY CheckpointFields DEF Fits, AnySearch, Searching
<1>2. Cut(c, s.key, s.high)
  BY <1>1, CheckpointFields DEF Fits, Cut
<1>3. ValueOf(c, s.key) = IF s.high = 0 THEN 0 ELSE c[s.high].value
  BY <1>1, <1>2, ValueAtCut
<1> QED BY <1>1, <1>3 DEF UpperValue, UnsafeAccess

-----------------------------------------------------------------------------
(* The invariant                                                           *)

LookupNames == {"getAtBlock", "getAtProbablyRecentBlock"}

HistoryInv ==
    /\ block \in 0 .. MaxBlock /\ KeptCheckpoints(checkpoints, block)
    /\ ~Idle => /\ Fits(checkpoints, search)
                /\ search.key < block /\ search.key \in 0 .. MaxKey
                /\ \E fn \in LookupNames : asked = <<fn, search.key>>

LEMMA PushKeeps ==
    ASSUME HistoryAssumption, HistoryInv,
           NEW fn, NEW arg, NEW val \in Nat, PushAs(fn, arg, val)
    PROVE  /\ HistoryInv'
           /\ Idle /\ UNCHANGED <<block, search, asked>>
           /\ \/ /\ block <= MaxKey /\ val \in 0 .. MaxValue
                 /\ Remembers(fn, arg, <<Latest(checkpoints), val>>)
                 /\ ValueOf(checkpoints', block) = val
                 /\ \A q \in Nat : q < block =>
                       ValueOf(checkpoints', q) = ValueOf(checkpoints, q)
              \/ /\ ~(block <= MaxKey /\ val \in 0 .. MaxValue)
                 /\ Remembers(fn, arg, <<>>) /\ UNCHANGED checkpoints
<1> DEFINE c == checkpoints
<1>1. /\ MaxKey \in Nat /\ MaxValue \in Nat /\ block \in Nat
      /\ 2 ^ KeyBits \in Nat /\ 2 ^ ValueBits \in Nat
  BY MaxNat DEF HistoryAssumption, HistoryInv
<1>2. /\ Cast!ToUintFits(KeyBits, block) <=> block <= MaxKey
      /\ Cast!ToUintFits(ValueBits, val) <=> val <= MaxValue
  BY DEF Cast!ToUintFits, MaxKey, MaxValue
<1>3. Idle /\ UNCHANGED <<block, search, asked>>
  BY DEF PushAs
<1>4. CASE block <= MaxKey /\ val <= MaxValue
  <2>1. Cast!ToUint(KeyBits, block) = block /\ Cast!ToUint(ValueBits, val) = val
    BY <1>1, <1>2, <1>4, CastKeeps
  <2>2. block \in 0 .. MaxKey /\ val \in 0 .. MaxValue
    BY <1>1, <1>4
  <2>3. KeptCheckpoints(c, block)
    BY DEF HistoryInv
  <2>4. /\ Insertable(c, block)
        /\ KeptCheckpoints(Insert(c, block, val), block)
        /\ ValueOf(Insert(c, block, val), block) = val
        /\ \A q \in Nat : q < block =>
              ValueOf(Insert(c, block, val), q) = ValueOf(c, q)
    BY <1>1, <2>2, <2>3, InsertKeeps
  <2>5. checkpoints' = Insert(c, block, val) /\ Remembers(fn, arg, <<Latest(c), val>>)
    BY <1>2, <1>4, <2>1, <2>4 DEF PushAs, Inserted
  <2>6. HistoryInv'
    BY <1>3, <2>4, <2>5 DEF HistoryInv, Idle
  <2> QED BY <1>3, <1>4, <2>2, <2>4, <2>5, <2>6
<1>5. CASE ~(block <= MaxKey /\ val <= MaxValue)
  <2>1. Remembers(fn, arg, <<>>) /\ UNCHANGED checkpoints
    BY <1>2, <1>5 DEF PushAs
  <2>2. HistoryInv'
    BY <1>3, <2>1 DEF HistoryInv, Idle
  <2>3. ~(block <= MaxKey /\ val \in 0 .. MaxValue)
    BY <1>5
  <2> QED BY <1>3, <2>1, <2>2, <2>3
<1> QED BY <1>4, <1>5

\* A lookup that begins: its bounds fit.
LEMMA BeginKeeps ==
    ASSUME HistoryAssumption, HistoryInv, NEW b \in Blocks,
           NEW fn \in LookupNames, NEW bounds, Begins(fn, b, bounds),
           bounds \in {Whole(checkpoints, Cast!ToUint(KeyBits, b)),
                       Recent(checkpoints, Cast!ToUint(KeyBits, b))}
    PROVE  HistoryInv'
<1> DEFINE c == checkpoints
<1>1. MaxKey \in Nat /\ b \in Nat /\ 2 ^ KeyBits \in Nat
  BY MaxNat DEF HistoryAssumption, Blocks
<1>2. b < block /\ Cast!ToUintFits(KeyBits, b) /\ search' = bounds /\ asked' = <<fn, b>>
      /\ UNCHANGED <<block, checkpoints>>
  BY DEF Begins
<1>3. Cast!ToUint(KeyBits, b) = b /\ b \in 0 .. MaxKey
  BY <1>1, <1>2, CastKeeps DEF MaxKey
<1>4. c \in Seq(AnyCheckpoint) /\ Sorted(c)
  BY HistoryFields DEF HistoryInv, KeptCheckpoints
<1>5. Fits(c, bounds) /\ bounds.key = b
  BY <1>1, <1>3, <1>4, WholeFits, RecentFits
<1> QED BY <1>2, <1>3, <1>5 DEF HistoryInv, Idle

LEMMA InitHistory == ASSUME HistoryAssumption, HistoryInit PROVE HistoryInv
<1>1. checkpoints \in Seq(CheckpointType) /\ Len(checkpoints) = 0
  BY DEF HistoryInit
<1>2. block \in 0 .. MaxBlock
  BY DEF HistoryInit, HistoryAssumption
<1> QED BY <1>1, <1>2 DEF HistoryInit, HistoryInv, KeptCheckpoints, Sorted, Idle

LEMMA LatestNat == ASSUME HistoryAssumption, HistoryInv PROVE Latest(checkpoints) \in Nat
<1>1. block \in Nat /\ KeptCheckpoints(checkpoints, block)
  BY DEF HistoryInv, HistoryAssumption
<1> QED BY <1>1, LatestIsLast, MaxNat

LEMMA StepHistory == ASSUME HistoryAssumption, HistoryInv, [HistoryNext]_historyVars PROVE HistoryInv'
<1> DEFINE c == checkpoints
<1>0. Values \subseteq Nat /\ MaxBlock \in Nat /\ Latest(c) \in Nat
  BY LatestNat DEF HistoryAssumption
<1>1. CASE Mine
  <2>1. block' \in 0 .. MaxBlock /\ block <= block'
    BY <1>0, <1>1 DEF Mine, HistoryInv
  <2>2. KeptCheckpoints(checkpoints', block')
    <3>1. \A i \in 1 .. Len(c) : c[i].key \in Nat
      BY HistoryFields, CheckpointFields DEF HistoryInv, KeptCheckpoints
    <3> QED BY <1>0, <1>1, <2>1, <3>1 DEF Mine, HistoryInv, KeptCheckpoints
  <2> QED BY <1>1, <2>1, <2>2 DEF Mine, HistoryInv, Idle
<1>2. ASSUME NEW v \in Values, push(v) PROVE HistoryInv'
  BY <1>0, <1>2, PushKeeps DEF push
<1>3. ASSUME NEW v \in Values, pushAdd(v) PROVE HistoryInv'
  <2>1. Latest(c) + v \in Nat
    BY <1>0
  <2> QED BY <1>3, <2>1, PushKeeps DEF pushAdd
<1>4. ASSUME NEW v \in Values, pushSubtract(v) PROVE HistoryInv'
  <2>1. CASE v <= Latest(c)
    <3>1. Latest(c) - v \in Nat
      BY <1>0, <2>1
    <3> QED BY <1>4, <2>1, <3>1, PushKeeps DEF pushSubtract
  <2>2. CASE ~(v <= Latest(c))
    BY <1>4, <2>2 DEF pushSubtract, Fails, HistoryInv, Idle
  <2> QED BY <2>1, <2>2
<1>5. ASSUME NEW b \in Blocks, getAtBlock(b) PROVE HistoryInv'
  <2>1. CASE Unmined("getAtBlock", b)
    BY <2>1 DEF Unmined, Fails, HistoryInv, Idle
  <2>2. CASE Begins("getAtBlock", b, Whole(c, Cast!ToUint(KeyBits, b)))
    BY <2>2, BeginKeeps DEF LookupNames
  <2> QED BY <1>5, <2>1, <2>2 DEF getAtBlock
<1>6. ASSUME NEW b \in Blocks, getAtProbablyRecentBlock(b) PROVE HistoryInv'
  <2>1. CASE Unmined("getAtProbablyRecentBlock", b)
    BY <2>1 DEF Unmined, Fails, HistoryInv, Idle
  <2>2. CASE Begins("getAtProbablyRecentBlock", b, Recent(c, Cast!ToUint(KeyBits, b)))
    BY <2>2, BeginKeeps DEF LookupNames
  <2> QED BY <1>6, <2>1, <2>2 DEF getAtProbablyRecentBlock
<1>7. CASE Iterate
  <2>1. Fits(c, search') /\ search'.key = search.key
    BY <1>7, HistoryFields, UpperStepFits DEF Iterate, HistoryInv, KeptCheckpoints
  <2> QED BY <1>7, <2>1 DEF Iterate, HistoryInv, Idle
<1>8. CASE Returns
  BY <1>8 DEF Returns, HistoryInv, Idle
<1>9. CASE latest
  BY <1>9 DEF latest, HistoryInv, Idle
<1>10. CASE UNCHANGED historyVars
  BY <1>10 DEF historyVars, HistoryInv, Idle
<1> QED
  BY <1>1, <1>2, <1>3, <1>4, <1>5, <1>6, <1>7, <1>8, <1>9, <1>10 DEF HistoryNext

\* The history keeps its invariant, through any calls in any blocks.
THEOREM HistoryInvariant == ASSUME HistoryAssumption PROVE HistorySpec => []HistoryInv
<1>1. HistoryInit => HistoryInv
  BY InitHistory
<1>2. HistoryInv /\ [HistoryNext]_historyVars => HistoryInv'
  BY StepHistory
<1> QED BY <1>1, <1>2, PTL DEF HistorySpec
\* Block numbers increase in the array, through any number of pushes in a block and
\* of blocks without one: what the binary searches rely on (_insert).
THEOREM KeysAlwaysIncrease == ASSUME HistoryAssumption PROVE HistorySpec => []KeysIncrease
<1>1. HistoryInv => KeysIncrease
  BY DEF HistoryInv, KeptCheckpoints, Sorted, KeysIncrease, KeyOf
<1> QED BY <1>1, HistoryInvariant, PTL

\* At every iteration of every lookup, from both kinds of bounds: the search is
\* inside the array, which _unsafeAccess does not check, and on both sides of its
\* key.
THEOREM SearchesSound == ASSUME HistoryAssumption PROVE HistorySpec => []SearchSound
<1>1. HistoryInv => SearchSound
  BY DEF HistoryInv, Fits, SearchSound, KeyOf
<1> QED BY <1>1, HistoryInvariant, PTL

\* The checkpoints fit their widths, whatever is pushed.
THEOREM HistoryTypeCorrect == ASSUME HistoryAssumption PROVE HistorySpec => []HistoryTypeOK
<1>1. HistoryInv => HistoryTypeOK
  BY DEF HistoryInv, KeptCheckpoints, Fits, AnySearch, SearchType, HistoryTypeOK, Idle
<1> QED BY <1>1, HistoryInvariant, PTL

-----------------------------------------------------------------------------
(* The contract answers as a history                                       *)

LEMMA ValueAtIs == \A b : ValueAt(b) = ValueOf(checkpoints, b)
  BY DEF ValueAt, ValueOf, KeyOf

LEMMA InitHistoryPromise == ASSUME HistoryAssumption, HistoryInit PROVE Past!Init
<1>1. \A b \in 0 .. block : ValueAt(b) = 0
  BY DEF HistoryInit, ValueAt
<1>2. [b \in 0 .. block |-> ValueAt(b)] = [b \in 0 .. FirstBlock |-> 0]
  BY <1>1 DEF HistoryInit
<1> QED BY <1>2 DEF HistoryInit, NoCall, Past!Init

\* A push is a record of the value for the present block.
LEMMA PushRecords ==
    ASSUME HistoryAssumption, HistoryInv,
           NEW fn, NEW arg, NEW val \in Nat, PushAs(fn, arg, val)
    PROVE  Past!Record(fn, arg, val)
<1> DEFINE history == [b \in 0 .. block |-> ValueAt(b)]
<1>1. block \in Nat /\ KeptCheckpoints(checkpoints, block)
  BY DEF HistoryInv, HistoryAssumption
<1>2. /\ UNCHANGED block
      /\ \/ /\ block <= MaxKey /\ val \in 0 .. MaxValue
            /\ Remembers(fn, arg, <<Latest(checkpoints), val>>)
            /\ ValueOf(checkpoints', block) = val
            /\ \A q \in Nat : q < block =>
                  ValueOf(checkpoints', q) = ValueOf(checkpoints, q)
         \/ /\ ~(block <= MaxKey /\ val \in 0 .. MaxValue)
            /\ Remembers(fn, arg, <<>>) /\ UNCHANGED checkpoints
  BY PushKeeps
<1>3. \A b : ValueAt(b)' = ValueOf(checkpoints', b)
  BY DEF ValueAt, ValueOf, KeyOf
<1>4. history[block] = Latest(checkpoints)
  BY <1>1, LatestIsLast, ValueAtIs
<1>5. CASE block <= MaxKey /\ val \in 0 .. MaxValue
  <2>1. history' = [b \in 0 .. block |-> ValueOf(checkpoints', b)]
    BY <1>2, <1>3
  <2>2. \A b \in 0 .. block :
           ValueOf(checkpoints', b) = IF b = block THEN val ELSE ValueOf(checkpoints, b)
    BY <1>1, <1>2, <1>5
  <2>3. history' = [history EXCEPT ![block] = val]
    BY <2>1, <2>2, <1>1, ValueAtIs
  <2>4. Remembers(fn, arg, <<history[block], val>>)
    BY <1>2, <1>4, <1>5
  <2> QED BY <1>2, <1>5, <2>3, <2>4 DEF Remembers, Past!Record, Past!Answers
<1>6. CASE ~(block <= MaxKey /\ val \in 0 .. MaxValue)
  <2>1. Remembers(fn, arg, <<>>) /\ UNCHANGED <<block, checkpoints>>
    BY <1>2, <1>6
  <2>2. history' = history
    BY <2>1, <1>3, ValueAtIs
  <2> QED BY <1>2, <1>6, <2>1, <2>2 DEF Remembers, Past!Record, Past!Answers
<1> QED BY <1>5, <1>6

LEMMA StepHistoryPromise ==
    ASSUME HistoryAssumption, HistoryInv, [HistoryNext]_historyVars
    PROVE  [Past!Next]_(Past!vars)
<1> DEFINE history == [b \in 0 .. block |-> ValueAt(b)]
<1>0. /\ Values \subseteq Nat /\ block \in Nat /\ MaxBlock \in Nat
      /\ KeptCheckpoints(checkpoints, block) /\ Latest(checkpoints) \in Nat
      /\ history[block] = Latest(checkpoints)
  <2>1. block \in Nat /\ KeptCheckpoints(checkpoints, block)
    BY DEF HistoryInv, HistoryAssumption
  <2> QED BY <2>1, LatestIsLast, LatestNat, ValueAtIs DEF HistoryAssumption
<1>a. \A b : ValueAt(b)' = ValueOf(checkpoints', b)
  BY DEF ValueAt, ValueOf, KeyOf
<1>b. UNCHANGED <<block, checkpoints>> => history' = history
  BY <1>a, ValueAtIs
<1>1. ASSUME Mine PROVE Past!Mine
  <2>1. block' = block + 1 /\ UNCHANGED checkpoints /\ Remembers("none", 0, <<>>)
    BY <1>1 DEF Mine, Forgotten, NoCall, Remembers
  <2>2. ValueOf(checkpoints, block + 1) = ValueOf(checkpoints, block)
    BY <1>0, LatestIsLast
  <2>3. history' = [b \in 0 .. block + 1 |-> ValueOf(checkpoints, b)]
    BY <2>1, <1>a
  <2>4. history' = [b \in 0 .. block + 1 |-> history[IF b > block THEN block ELSE b]]
    <3>1. \A b \in 0 .. block + 1 :
             ValueOf(checkpoints, b) = history[IF b > block THEN block ELSE b]
      BY <1>0, <2>2, ValueAtIs
    <3> QED BY <2>3, <3>1
  <2> QED BY <2>1, <2>4 DEF Remembers, Past!Mine, Past!Answers
<1>2. ASSUME NEW v \in Values, push(v) PROVE Past!push(v)
  BY <1>0, <1>2, PushRecords DEF push, Past!push
<1>3. ASSUME NEW v \in Values, pushAdd(v) PROVE Past!add(v)
  <2>1. Latest(checkpoints) + v \in Nat
    BY <1>0
  <2> QED BY <1>0, <1>3, <2>1, PushRecords DEF pushAdd, Past!add
<1>4. ASSUME NEW v \in Values, pushSubtract(v) PROVE Past!subtract(v)
  <2>1. CASE v <= Latest(checkpoints)
    <3>1. Latest(checkpoints) - v \in Nat
      BY <1>0, <2>1
    <3> QED BY <1>0, <1>4, <2>1, <3>1, PushRecords DEF pushSubtract, Past!subtract
  <2>2. CASE ~(v <= Latest(checkpoints))
    <3>1. Remembers("subtract", v, <<>>) /\ UNCHANGED <<block, checkpoints>>
      BY <1>4, <2>2 DEF pushSubtract, Fails
    <3>2. ~(Latest(checkpoints) - v \in 0 .. MaxValue)
      BY <1>0, <2>2
    <3> QED BY <1>0, <1>b, <3>1, <3>2
            DEF Remembers, Past!subtract, Past!Record, Past!Answers
  <2> QED BY <2>1, <2>2
<1>c. ASSUME NEW fn \in LookupNames, NEW b \in Blocks, Unmined(fn, b)
      PROVE  Past!Lookup(fn, b)
  <2>1. ~(b < block /\ b <= MaxKey) /\ Remembers(fn, b, <<>>) /\ UNCHANGED <<block, checkpoints>>
    BY <1>c DEF Unmined, Fails, Cast!ToUintFits, MaxKey
  <2> QED BY <1>b, <2>1 DEF Remembers, Past!Lookup, Past!Answers
<1>d. ASSUME NEW fn, NEW b, NEW bounds, Begins(fn, b, bounds) PROVE Past!Begins
  BY <1>b, <1>d DEF Begins, Forgotten, NoCall, Past!Begins, Past!Answers
<1>5. ASSUME NEW b \in Blocks, getAtBlock(b)
      PROVE  Past!Begins \/ Past!Lookup("getAtBlock", b)
  BY <1>5, <1>c, <1>d DEF getAtBlock, LookupNames
<1>6. ASSUME NEW b \in Blocks, getAtProbablyRecentBlock(b)
      PROVE  Past!Begins \/ Past!Lookup("getAtProbablyRecentBlock", b)
  BY <1>6, <1>c, <1>d DEF getAtProbablyRecentBlock, LookupNames
<1>7. CASE Iterate
  BY <1>b, <1>7 DEF Iterate, Past!vars
<1>8. ASSUME Returns
      PROVE  \E fn \in LookupNames, b \in Blocks : Past!Lookup(fn, b)
  <2>1. /\ Fits(checkpoints, search) /\ search.key < block
        /\ UNCHANGED <<block, checkpoints>>
    BY <1>8 DEF Returns, HistoryInv
  <2>2. PICK fn \in LookupNames : asked = <<fn, search.key>>
    BY <1>8 DEF Returns, HistoryInv
  <2>3. /\ search.key \in 0 .. MaxKey /\ search.key \in 0 .. block /\ search.key \in Blocks
        /\ search.key <= MaxKey
    BY <1>0, <1>8, <2>1, MaxNat DEF Returns, Blocks, HistoryInv
  <2>4. UpperValue(checkpoints, search) = history[search.key]
    BY <1>0, <1>8, <2>1, <2>3, HistoryFields, UpperValueRight, ValueAtIs
       DEF Returns, KeptCheckpoints
  <2>5. Remembers(fn, search.key, <<history[search.key]>>)
    BY <1>8, <2>2, <2>4 DEF Returns
  <2>6. Past!Lookup(fn, search.key)
    BY <1>b, <2>1, <2>3, <2>5 DEF Remembers, Past!Lookup, Past!Answers
  <2> QED BY <2>3, <2>6
<1>9. ASSUME latest PROVE Past!latest
  BY <1>0, <1>b, <1>9 DEF latest, Remembers, Past!latest, Past!Answers
<1>10. CASE UNCHANGED historyVars
  BY <1>b, <1>10 DEF historyVars, Past!vars
<1> QED
  BY <1>1, <1>2, <1>3, <1>4, <1>5, <1>6, <1>7, <1>8, <1>9, <1>10
  DEF HistoryNext, Past!Next, LookupNames

\* The contract implements the promise: both lookups answer what a block ended
\* with, for any widths, blocks and values.
THEOREM ImplementsHistory == ASSUME HistoryAssumption PROVE HistorySpec => IsAHistory
<1>1. HistoryInit => Past!Init
  BY InitHistoryPromise
<1>2. HistoryInv /\ [HistoryNext]_historyVars => [Past!Next]_(Past!vars)
  BY StepHistoryPromise
<1> QED BY <1>1, <1>2, HistoryInvariant, PTL DEF HistorySpec, IsAHistory, Past!Spec

-----------------------------------------------------------------------------
(* The members of a role                                                   *)

\* A place of the array only ever gets smaller while its value is a member.
LEMMA AddKeepsPlaces ==
    ASSUME NEW s, Good(s), NEW w \in Bytes32, NEW x \in Bytes32, Contains(s, x)
    PROVE  Add(s, w).indexes[x] = s.indexes[x]
<1>1. CASE Contains(s, w)
  BY <1>1 DEF Add
<1>2. CASE ~Contains(s, w)
  <2>1. x # w
    BY <1>2
  <2>2. Add(s, w).indexes = [s.indexes EXCEPT ![w] = Length(s) + 1]
    BY <1>2 DEF Add
  <2>3. s.indexes \in [Bytes32 -> Nat]
    BY DEF Good, SetType
  <2> QED BY <2>1, <2>2, <2>3
<1> QED BY <1>1, <1>2

LEMMA RemoveLowersPlaces ==
    ASSUME NEW s, Good(s), NEW w \in Bytes32, NEW x \in Bytes32, Contains(s, x), x # w
    PROVE  Remove(s, w).indexes[x] <= s.indexes[x]
<1>0. s.indexes[x] \in Nat
  BY DEF Good, SetType
<1>1. CASE ~Contains(s, w)
  BY <1>0, <1>1 DEF Remove
<1>2. CASE Contains(s, w)
  <2> DEFINE n == Len(s.values)
             i == s.indexes[w]
             r == Remove(s, w)
  <2>1. /\ n \in Nat /\ i \in 1 .. n
        /\ r.indexes[x] = IF x = s.values[n] THEN i ELSE s.indexes[x]
    BY <1>2, Moves
  <2>2. x = s.values[n] => s.indexes[x] = n
    BY <2>1, GoodTells DEF Tells
  <2> HIDE DEF n, i, r
  <2>3. r.indexes[x] <= s.indexes[x]
    BY <1>0, <2>1, <2>2
  <2> QED BY <2>3 DEF r
<1> QED BY <1>1, <1>2

LEMMA RolesUseTheSet ==
    /\ Roles!Address = Address /\ Roles!SetType = SetType /\ Roles!EmptySet = EmptySet
    /\ \A s, w : /\ Roles!Contains(s, w) <=> Contains(s, w)
                 /\ Roles!Add(s, w) = Add(s, w) /\ Roles!Remove(s, w) = Remove(s, w)
    /\ \A s : Roles!Length(s) = Length(s)
    /\ \A s, i : (Roles!InBounds(s, i) <=> InBounds(s, i)) /\ Roles!At(s, i) = At(s, i)
  BY DEF Roles!Address, Address, Roles!SetType, SetType, Roles!Bytes32, Bytes32,
         Roles!EmptySet, EmptySet, Roles!Contains, Contains, Roles!Add, Add,
         Roles!Remove, Remove, Roles!MoveLast, MoveLast, Roles!Length, Length,
         Roles!InBounds, InBounds, Roles!At, At

\* The reader has been told of every steady member whose place it has passed.
RolesInv ==
    /\ Good(roleMembers) /\ \A w \in Bytes32 : Contains(roleMembers, w) => w \in Address
    /\ hasRole \in [Address -> BOOLEAN]
    /\ \A a \in Address : hasRole[a] <=> Contains(roleMembers, a)
    /\ left \in Nat /\ count \in Nat /\ left <= count
    /\ seen \subseteq Address /\ steady \subseteq Address
    /\ \A a \in steady : Contains(roleMembers, a)
    /\ \A a \in steady \ seen : roleMembers.indexes[a] <= left

LEMMA AddressIsWord == Address \subseteq Bytes32 /\ Address # {}
  BY ConversionAssumption DEF Address, Bytes32

LEMMA InitRoles == ASSUME Roles!Init PROVE RolesInv
<1>1. roleMembers = EmptySet /\ hasRole = [a \in Address |-> FALSE]
  BY RolesUseTheSet DEF Roles!Init
<1>2. left = 0 /\ count = 0 /\ seen = {} /\ steady = {}
  BY DEF Roles!Init
<1> QED BY <1>1, <1>2, EmptyGood, AddressIsWord DEF RolesInv

LEMMA StepRoles == ASSUME RolesInv, [Roles!Next]_(Roles!vars) PROVE RolesInv'
<1>1. /\ Good(roleMembers) /\ \A w \in Bytes32 : Contains(roleMembers, w) => w \in Address
      /\ Address \subseteq Bytes32
  BY AddressIsWord DEF RolesInv
<1>2. ASSUME NEW a \in Address, Roles!_grantRole(a) PROVE RolesInv'
  <2>1. /\ hasRole' = [hasRole EXCEPT ![a] = TRUE] /\ roleMembers' = Add(roleMembers, a)
        /\ UNCHANGED <<left, count, seen, steady>>
    BY <1>2, RolesUseTheSet DEF Roles!_grantRole
  <2>2. /\ Good(roleMembers')
        /\ \A w \in Bytes32 : Contains(roleMembers', w) <=> Contains(roleMembers, w) \/ w = a
    BY <1>1, <2>1, AddKeeps
  <2>3. \A x \in steady : roleMembers'.indexes[x] = roleMembers.indexes[x]
    BY <1>1, <2>1, AddKeepsPlaces DEF RolesInv
  <2>4. \A x \in steady : Contains(roleMembers', x)
    BY <1>1, <2>2 DEF RolesInv
  <2>5. /\ hasRole' \in [Address -> BOOLEAN]
        /\ \A x \in Address : hasRole'[x] <=> Contains(roleMembers', x)
    BY <1>1, <2>1, <2>2 DEF RolesInv
  <2> QED BY <1>1, <2>1, <2>2, <2>3, <2>4, <2>5 DEF RolesInv
<1>3. ASSUME NEW a \in Address, Roles!_revokeRole(a) PROVE RolesInv'
  <2>1. /\ hasRole' = [hasRole EXCEPT ![a] = FALSE] /\ roleMembers' = Remove(roleMembers, a)
        /\ steady' = steady \ {a} /\ UNCHANGED <<left, count, seen>>
    BY <1>3, RolesUseTheSet DEF Roles!_revokeRole
  <2>2. /\ Good(roleMembers')
        /\ \A w \in Bytes32 : Contains(roleMembers', w) <=> Contains(roleMembers, w) /\ w # a
    BY <1>1, <2>1, RemoveKeeps
  <2>3. ASSUME NEW x \in steady' \ seen' PROVE roleMembers'.indexes[x] <= left'
    <3>1. /\ x \in Bytes32 /\ x # a /\ Contains(roleMembers, x)
          /\ roleMembers.indexes[x] <= left /\ left \in Nat
      BY <1>1, <2>1, <2>3 DEF RolesInv
    <3>2. roleMembers'.indexes[x] <= roleMembers.indexes[x]
      BY <1>1, <2>1, <3>1, RemoveLowersPlaces
    <3>3. roleMembers'.indexes[x] \in Nat /\ roleMembers.indexes[x] \in Nat
      BY <1>1, <2>2, <3>1 DEF Good, SetType
    <3> QED BY <2>1, <3>1, <3>2, <3>3
  <2>4. \A x \in steady' : Contains(roleMembers', x)
    BY <1>1, <2>1, <2>2 DEF RolesInv
  <2>5. /\ hasRole' \in [Address -> BOOLEAN]
        /\ \A x \in Address : hasRole'[x] <=> Contains(roleMembers', x)
    BY <1>1, <2>1, <2>2 DEF RolesInv
  <2> QED BY <1>1, <2>1, <2>2, <2>3, <2>4, <2>5 DEF RolesInv
<1>4. ASSUME Roles!getRoleMemberCount PROVE RolesInv'
  <2>1. /\ left' = Length(roleMembers) /\ count' = left' /\ seen' = {}
        /\ steady' = {a \in Address : Contains(roleMembers, a)}
        /\ UNCHANGED <<hasRole, roleMembers>>
    BY <1>4, RolesUseTheSet DEF Roles!getRoleMemberCount, Roles!Enumerated
  <2>2. Length(roleMembers) \in Nat
    BY <1>1 DEF Good, SetType, Length
  <2>3. \A x \in steady' : roleMembers.indexes[x] \in 1 .. Length(roleMembers)
    BY <1>1, <2>1 DEF Good, Agrees
  <2>4. \A x \in steady' : roleMembers'.indexes[x] <= left'
    BY <2>1, <2>2, <2>3
  <2> QED BY <2>1, <2>2, <2>4 DEF RolesInv
<1>5. ASSUME Roles!getRoleMember PROVE RolesInv'
  <2> DEFINE told == IF InBounds(roleMembers, left - 1) THEN {At(roleMembers, left - 1)} ELSE {}
  <2>1. /\ left > 0 /\ left' = left - 1 /\ seen' = seen \cup told
        /\ UNCHANGED <<hasRole, roleMembers, count, steady>>
    BY <1>5, RolesUseTheSet DEF Roles!getRoleMember, Roles!Told
  <2>2. Length(roleMembers) \in Nat /\ left \in Nat /\ left # 0
    BY <1>1, <2>1 DEF Good, SetType, Length, RolesInv
  <2>3. /\ left <= Length(roleMembers) => told = {roleMembers.values[left]}
        /\ left > Length(roleMembers) => told = {}
    BY <2>2 DEF InBounds, At
  <2>4. ASSUME NEW i \in 1 .. Length(roleMembers) PROVE roleMembers.values[i] \in Address
    <3>1. roleMembers.values[i] \in Bytes32 /\ roleMembers.indexes[roleMembers.values[i]] = i
      BY <1>1 DEF Good, Agrees, SetType, Length
    <3> QED BY <1>1, <3>1 DEF Contains
  <2>5. told \subseteq Address
    BY <2>2, <2>3, <2>4
  <2>6. ASSUME NEW x \in steady' \ seen' PROVE roleMembers'.indexes[x] <= left'
    <3>1. x \in Bytes32 /\ Contains(roleMembers, x) /\ roleMembers.indexes[x] <= left /\ x \notin told
      BY <1>1, <2>1, <2>6 DEF RolesInv
    <3>2. /\ roleMembers.indexes[x] \in 1 .. Length(roleMembers)
          /\ roleMembers.values[roleMembers.indexes[x]] = x
      BY <1>1, <3>1 DEF Good, Agrees
    <3>3. roleMembers.indexes[x] # left
      BY <2>2, <2>3, <3>1, <3>2
    <3> QED BY <2>1, <2>2, <3>1, <3>2, <3>3
  <2> HIDE DEF told
  <2>7. left' \in Nat /\ left' <= count'
    BY <2>1, <2>2 DEF RolesInv
  <2> QED BY <1>1, <2>1, <2>5, <2>6, <2>7 DEF RolesInv
<1>6. CASE UNCHANGED Roles!vars
  BY <1>6 DEF Roles!vars, RolesInv
<1> QED BY <1>2, <1>3, <1>4, <1>5, <1>6, RolesUseTheSet DEF Roles!Next

LEMMA RolesGood ==
    ASSUME RolesInv PROVE Roles!TypeOK /\ Roles!RecordsAgree /\ Roles!SteadyMembersSeen
<1>1. Good(roleMembers) /\ \A w \in Bytes32 : Contains(roleMembers, w) => w \in Address
  BY DEF RolesInv
<1>2. Length(roleMembers) \in Nat /\ Length(roleMembers) <= AddressMax + 1
  <2> DEFINE M == {a \in Address : Contains(roleMembers, a)}
  <2>1. Address \in SUBSET Bytes32
    BY AddressIsWord
  <2>2. Length(roleMembers) \in Nat /\ Cardinality(M) = Length(roleMembers)
    BY <1>1, <2>1, ArrayOfMembers
  <2>3. IsFiniteSet(Address) /\ Cardinality(Address) = AddressMax + 1
    BY FS_Interval, ConversionAssumption DEF Address
  <2>4. Cardinality(M) <= Cardinality(Address)
    BY <2>3, FS_Subset
  <2> QED BY <2>2, <2>3, <2>4
<1>3. Roles!TypeOK
  BY <1>1, <1>2, RolesUseTheSet DEF Roles!TypeOK, RolesInv, Good
<1>4. Roles!RecordsAgree
  BY RolesUseTheSet DEF Roles!RecordsAgree, RolesInv
<1>5. Roles!SteadyMembersSeen
  <2> SUFFICES ASSUME left = 0, NEW a \in steady, a \notin seen PROVE FALSE
    BY DEF Roles!SteadyMembersSeen
  <2>1. a \in Bytes32 /\ Contains(roleMembers, a) /\ roleMembers.indexes[a] <= 0
    BY AddressIsWord DEF RolesInv
  <2>2. roleMembers.indexes[a] \in 1 .. Length(roleMembers)
    BY <1>1, <2>1 DEF Good, Agrees
  <2> QED BY <1>2, <2>1, <2>2
<1> QED BY <1>3, <1>4, <1>5

-----------------------------------------------------------------------------
(* The map                                                                 *)

MapKeys == ValuesOf(MapKeyType)
MapValues == ValuesOf(MapValueType)

LEMMA WordKept ==
    ASSUME NEW t, NEW v \in ValuesOf(t)
    PROVE  v \in Bytes32 /\ ToBytes32(t, v) = v /\ FromBytes32(t, v) = v
<1> USE ConversionAssumption
<1>1. ASSUME NEW a \in Address PROVE Uint160(a) = a
  <2>1. a \in 0 .. AddressMax /\ AddressMax + 1 \in Nat /\ a < AddressMax + 1
    BY DEF Address
  <2>2. a % (AddressMax + 1) = a
    BY <2>1
  <2> QED BY <2>2 DEF Uint160
<1>2. v \in Bytes32
  BY DEF ValuesOf, Address, Bytes32
<1>3. t = "address" => v \in Address
  BY DEF ValuesOf
<1> QED BY <1>1, <1>2, <1>3 DEF ToBytes32, FromBytes32

LEMMA ZeroIsAValue == ASSUME NEW t PROVE 0 \in ValuesOf(t)
  BY ConversionAssumption DEF ValuesOf, Address, Bytes32

LEMMA MapUsesTheSet ==
    /\ Map!Bytes32 = Bytes32 /\ Map!KeySet = MapKeys /\ Map!ValueSet = MapValues
    /\ Map!Keys!SetType = SetType /\ Map!Keys!EmptySet = EmptySet
    /\ \A s, w : /\ Map!Keys!Contains(s, w) <=> Contains(s, w)
                 /\ Map!Keys!Add(s, w) = Add(s, w) /\ Map!Keys!Remove(s, w) = Remove(s, w)
    /\ \A s : Map!Keys!Length(s) = Length(s)
    /\ \A s, i : (Map!Keys!InBounds(s, i) <=> InBounds(s, i)) /\ Map!Keys!At(s, i) = At(s, i)
  BY DEF Map!Bytes32, Bytes32, Map!KeySet, Map!ValueSet, Map!ValuesOf, ValuesOf,
         MapKeys, MapValues, Map!Address, Address,
         Map!Keys!SetType, SetType, Map!Keys!Bytes32, Bytes32,
         Map!Keys!EmptySet, EmptySet, Map!Keys!Contains, Contains, Map!Keys!Add, Add,
         Map!Keys!Remove, Remove, Map!Keys!MoveLast, MoveLast, Map!Keys!Length, Length,
         Map!Keys!InBounds, InBounds, Map!Keys!At, At

LEMMA MapConverts ==
    /\ \A k \in MapKeys : Map!KeyWord(k) = k /\ Map!Key(k) = k /\ k \in Bytes32
    /\ \A v \in MapValues : Map!ValueWord(v) = v /\ Map!Value(v) = v /\ v \in Bytes32
    /\ 0 \in MapValues
<1>1. \A t, v : Map!ToBytes32(t, v) = ToBytes32(t, v) /\ Map!FromBytes32(t, v) = FromBytes32(t, v)
  BY DEF Map!ToBytes32, ToBytes32, Map!FromBytes32, FromBytes32, Map!Uint160, Uint160
<1>2. \A k \in MapKeys : Map!KeyWord(k) = k /\ Map!Key(k) = k /\ k \in Bytes32
  BY <1>1, WordKept DEF MapKeys, Map!KeyWord, Map!Key
<1>3. \A v \in MapValues : Map!ValueWord(v) = v /\ Map!Value(v) = v /\ v \in Bytes32
  BY <1>1, WordKept DEF MapValues, Map!ValueWord, Map!Value
<1> QED BY <1>2, <1>3, ZeroIsAValue DEF MapValues

\* A word that is no key has no value left.
MapInv ==
    /\ map = [keys |-> map.keys, values |-> map.values]
    /\ Good(map.keys) /\ \A w \in Bytes32 : Contains(map.keys, w) => w \in MapKeys
    /\ map.values \in [Bytes32 -> MapValues]
    /\ \A w \in Bytes32 : ~Contains(map.keys, w) => map.values[w] = 0

LEMMA InitMap == ASSUME Map!Init PROVE MapInv
<1>1. map = [keys |-> EmptySet, values |-> [w \in Bytes32 |-> 0]]
  BY MapUsesTheSet DEF Map!Init, Map!EmptyMap
<1> QED BY <1>1, EmptyGood, MapConverts DEF MapInv

\* What the operations make of the map.
LEMMA MapSets ==
    ASSUME MapInv, NEW k \in MapKeys, NEW v \in MapValues, Map!set(k, v)
    PROVE  /\ map' = [keys |-> Add(map.keys, k), values |-> [map.values EXCEPT ![k] = v]]
           /\ map'.keys = Add(map.keys, k) /\ map'.values = [map.values EXCEPT ![k] = v]
           /\ Good(map'.keys)
           /\ \A w \in Bytes32 : Contains(map'.keys, w) <=> Contains(map.keys, w) \/ w = k
<1>1. map' = [keys |-> Add(map.keys, k), values |-> [map.values EXCEPT ![k] = v]]
  BY MapUsesTheSet, MapConverts DEF Map!set, Map!Set
<1>2. map'.keys = Add(map.keys, k) /\ map'.values = [map.values EXCEPT ![k] = v]
  BY <1>1
<1>3. Good(map.keys) /\ k \in Bytes32
  BY MapConverts DEF MapInv
<1> QED BY <1>1, <1>2, <1>3, AddKeeps

LEMMA MapRemoves ==
    ASSUME MapInv, NEW k \in MapKeys, Map!remove(k)
    PROVE  /\ map' = [keys |-> Remove(map.keys, k), values |-> [map.values EXCEPT ![k] = 0]]
           /\ map'.keys = Remove(map.keys, k) /\ map'.values = [map.values EXCEPT ![k] = 0]
           /\ Good(map'.keys)
           /\ \A w \in Bytes32 : Contains(map'.keys, w) <=> Contains(map.keys, w) /\ w # k
<1>1. map' = [keys |-> Remove(map.keys, k), values |-> [map.values EXCEPT ![k] = 0]]
  BY MapUsesTheSet, MapConverts DEF Map!remove, Map!Remove
<1>2. map'.keys = Remove(map.keys, k) /\ map'.values = [map.values EXCEPT ![k] = 0]
  BY <1>1
<1>3. Good(map.keys) /\ k \in Bytes32
  BY MapConverts DEF MapInv
<1> QED BY <1>1, <1>2, <1>3, RemoveKeeps

LEMMA StepMap == ASSUME MapInv, [Map!Next]_(Map!vars) PROVE MapInv'
<1>1. ASSUME NEW k \in MapKeys, NEW v \in MapValues, Map!set(k, v) PROVE MapInv'
  <2>1. /\ map' = [keys |-> map'.keys, values |-> map'.values] /\ Good(map'.keys)
        /\ map'.values = [map.values EXCEPT ![k] = v]
        /\ \A w \in Bytes32 : Contains(map'.keys, w) <=> Contains(map.keys, w) \/ w = k
    BY <1>1, MapSets
  <2>2. map'.values \in [Bytes32 -> MapValues]
    BY <2>1 DEF MapInv
  <2>3. \A w \in Bytes32 : ~Contains(map'.keys, w) => map'.values[w] = 0
    BY <2>1, MapConverts DEF MapInv
  <2> QED BY <2>1, <2>2, <2>3 DEF MapInv
<1>2. ASSUME NEW k \in MapKeys, Map!remove(k) PROVE MapInv'
  <2>1. /\ map' = [keys |-> map'.keys, values |-> map'.values] /\ Good(map'.keys)
        /\ map'.values = [map.values EXCEPT ![k] = 0]
        /\ \A w \in Bytes32 : Contains(map'.keys, w) <=> Contains(map.keys, w) /\ w # k
    BY <1>2, MapRemoves
  <2>2. map'.values \in [Bytes32 -> MapValues]
    BY <2>1, MapConverts DEF MapInv
  <2>3. \A w \in Bytes32 : ~Contains(map'.keys, w) => map'.values[w] = 0
    BY <2>1, MapConverts DEF MapInv
  <2> QED BY <2>1, <2>2, <2>3 DEF MapInv
<1>3. CASE UNCHANGED map
  BY <1>3 DEF MapInv
<1> QED BY <1>1, <1>2, <1>3, MapUsesTheSet
        DEF Map!Next, Map!vars, Map!contains, Map!length, Map!at, Map!tryGet, Map!get

LEMMA MapKeysFinite == IsFiniteSet(MapKeys) /\ MapKeys \in SUBSET Bytes32
<1>1. IsFiniteSet(0 .. Bytes32Max) /\ IsFiniteSet(0 .. AddressMax)
  BY FS_Interval, ConversionAssumption
<1> QED BY <1>1, AddressIsWord DEF MapKeys, ValuesOf, Address, Bytes32

LEMMA MapGood == ASSUME MapInv PROVE Map!TypeOK /\ Map!AbsentIsZero
<1>1. /\ map = [keys |-> map.keys, values |-> map.values] /\ Good(map.keys)
      /\ \A w \in Bytes32 : Contains(map.keys, w) => w \in MapKeys
      /\ map.values \in [Bytes32 -> Bytes32]
  <2>1. map.values \in [Bytes32 -> MapValues] /\ \A v \in MapValues : v \in Bytes32
    BY MapConverts DEF MapInv
  <2>2. map.values \in [Bytes32 -> Bytes32]
    BY <2>1
  <2> QED BY <2>2 DEF MapInv
<1>2. Length(map.keys) \in Nat /\ Length(map.keys) <= Cardinality(MapKeys)
  <2> DEFINE M == {k \in MapKeys : Contains(map.keys, k)}
  <2>1. Length(map.keys) \in Nat /\ Cardinality(M) = Length(map.keys)
    BY <1>1, MapKeysFinite, ArrayOfMembers
  <2>2. Cardinality(M) <= Cardinality(MapKeys)
    BY MapKeysFinite, FS_Subset
  <2> QED BY <2>1, <2>2
<1>3. map \in Map!MapType
  <2>1. map.keys \in SetType
    BY <1>1 DEF Good
  <2> QED BY <1>1, <2>1, MapUsesTheSet DEF Map!MapType
<1>4. Map!TypeOK
  <2>1. Map!Length(map) = Length(map.keys) /\ Map!Cardinality(Map!KeySet) = Cardinality(MapKeys)
    BY MapUsesTheSet DEF Map!Length, Map!Cardinality, Cardinality
  <2> QED BY <1>2, <1>3, <2>1 DEF Map!TypeOK
<1>5. Map!AbsentIsZero
  BY MapUsesTheSet DEF Map!AbsentIsZero, Map!Contains, MapInv
<1> QED BY <1>4, <1>5

\* The function that the map stands for.
MapEntries ==
    [k \in {x \in Map!KeySet : Map!Contains(map, Map!KeyWord(x))} |->
        Map!Value(map.values[Map!KeyWord(k)])]
KeysIn == {k \in MapKeys : Contains(map.keys, k)}
Entries == [k \in KeysIn |-> map.values[k]]

LEMMA EntriesAre == ASSUME MapInv PROVE MapEntries = Entries /\ DOMAIN Entries = KeysIn
<1>1. {x \in Map!KeySet : Map!Contains(map, Map!KeyWord(x))} = KeysIn
  BY MapUsesTheSet, MapConverts DEF KeysIn, Map!Contains
<1>2. ASSUME NEW k \in KeysIn PROVE Map!Value(map.values[Map!KeyWord(k)]) = map.values[k]
  <2>1. k \in MapKeys /\ map.values[k] \in MapValues
    BY MapConverts DEF KeysIn, MapInv
  <2> QED BY <2>1, MapConverts
<1> QED BY <1>1, <1>2 DEF MapEntries, Entries

LEMMA EntriesNext == ASSUME MapInv' PROVE MapEntries' = Entries' /\ DOMAIN Entries' = KeysIn'
<1>1. (MapInv => MapEntries = Entries /\ DOMAIN Entries = KeysIn)'
  BY EntriesAre, PTL
<1> QED BY <1>1

LEMMA InitMapPromise == ASSUME Map!Init PROVE Map!Promise!Init
<1>1. map.keys = EmptySet
  BY MapUsesTheSet DEF Map!Init, Map!EmptyMap
<1>2. MapEntries = Entries /\ KeysIn = {}
  BY <1>1, InitMap, EntriesAre, EmptyGood, MapConverts DEF KeysIn
<1>3. MapEntries = <<>>
  BY <1>2 DEF Entries
<1>4. Map!Promise!Init <=> MapEntries = <<>> /\ mapCall = <<"none", <<0, 0>>, <<>>>>
  BY DEF Map!Promise!Init, MapEntries
<1> QED BY <1>3, <1>4 DEF Map!Init

\* A call answers what its function answers for the entries.
LEMMA MapAnswers ==
    ASSUME MapInv, NEW k \in MapKeys
    PROVE  /\ (Map!Contains(map, Map!KeyWord(k)) = (k \in KeysIn))
           /\ k \in KeysIn => map.values[k] \in MapValues
           /\ k \notin KeysIn => map.values[k] = 0
<1>1. Map!Contains(map, Map!KeyWord(k)) <=> k \in KeysIn
  BY MapUsesTheSet, MapConverts DEF KeysIn, Map!Contains
<1>2. Map!Contains(map, Map!KeyWord(k)) = (k \in KeysIn)
  <2>1. Map!Contains(map, Map!KeyWord(k)) \in BOOLEAN
    BY DEF Map!Contains, Map!Keys!Contains
  <2> HIDE DEF KeysIn
  <2> QED BY <1>1, <2>1
<1> QED BY <1>2, MapConverts DEF KeysIn, MapInv

LEMMA MapSetKept ==
    ASSUME MapInv, MapInv', NEW k \in MapKeys, NEW v \in MapValues, Map!set(k, v)
    PROVE  Map!Promise!set(k, v)
<1>1. /\ map'.values = [map.values EXCEPT ![k] = v]
      /\ \A w \in Bytes32 : Contains(map'.keys, w) <=> Contains(map.keys, w) \/ w = k
  BY MapSets
<1>2. KeysIn' = KeysIn \cup {k}
  BY <1>1, MapConverts DEF KeysIn
<1>3. \A x \in KeysIn \cup {k} : map'.values[x] = IF x = k THEN v ELSE Entries[x]
  <2>1. \A x \in KeysIn : x \in Bytes32
    BY MapConverts DEF KeysIn
  <2> QED BY <1>1, <2>1, MapConverts DEF MapInv, Entries
<1>4. Entries' = [x \in DOMAIN Entries \cup {k} |-> IF x = k THEN v ELSE Entries[x]]
  <2>1. Entries' = [x \in KeysIn \cup {k} |-> IF x = k THEN v ELSE Entries[x]]
    BY <1>2, <1>3 DEF Entries
  <2> QED BY <2>1, EntriesAre
<1>5. mapCall' = <<"set", <<k, v>>, <<k \notin DOMAIN Entries>>>>
  <2>1. mapCall' = <<"set", <<k, v>>, <<~Map!Contains(map, Map!KeyWord(k))>>>>
    BY DEF Map!set, Map!Answers
  <2>2. (~Map!Contains(map, Map!KeyWord(k))) = (k \notin KeysIn)
    BY MapAnswers, Zenon
  <2> QED BY <2>1, <2>2, EntriesAre
<1>6. /\ MapEntries' = [x \in DOMAIN MapEntries \cup {k} |-> IF x = k THEN v ELSE MapEntries[x]]
      /\ mapCall' = <<"set", <<k, v>>, <<k \notin DOMAIN MapEntries>>>>
  <2> HIDE DEF MapEntries, Entries
  <2> QED BY <1>4, <1>5, EntriesAre, EntriesNext
<1> QED BY <1>6 DEF Map!Promise!set, Map!Promise!Answers, MapEntries

LEMMA MapRemoveKept ==
    ASSUME MapInv, MapInv', NEW k \in MapKeys, Map!remove(k)
    PROVE  Map!Promise!remove(k)
<1>1. /\ map'.values = [map.values EXCEPT ![k] = 0]
      /\ \A w \in Bytes32 : Contains(map'.keys, w) <=> Contains(map.keys, w) /\ w # k
  BY MapRemoves
<1>2. KeysIn' = KeysIn \ {k}
  BY <1>1, MapConverts DEF KeysIn
<1>3. \A x \in KeysIn \ {k} : map'.values[x] = Entries[x]
  <2>1. \A x \in KeysIn : x \in Bytes32
    BY MapConverts DEF KeysIn
  <2> QED BY <1>1, <2>1, MapConverts DEF MapInv, Entries
<1>4. Entries' = [x \in DOMAIN Entries \ {k} |-> Entries[x]]
  <2>1. Entries' = [x \in KeysIn \ {k} |-> Entries[x]]
    BY <1>2, <1>3 DEF Entries
  <2> QED BY <2>1, EntriesAre
<1>5. mapCall' = <<"remove", <<k, 0>>, <<k \in DOMAIN Entries>>>>
  <2>1. mapCall' = <<"remove", <<k, 0>>, <<Map!Contains(map, Map!KeyWord(k))>>>>
    BY DEF Map!remove, Map!Answers
  <2> QED BY <2>1, MapAnswers, EntriesAre
<1>6. /\ MapEntries' = [x \in DOMAIN MapEntries \ {k} |-> MapEntries[x]]
      /\ mapCall' = <<"remove", <<k, 0>>, <<k \in DOMAIN MapEntries>>>>
  <2> HIDE DEF MapEntries, Entries
  <2> QED BY <1>4, <1>5, EntriesAre, EntriesNext
<1> QED BY <1>6 DEF Map!Promise!remove, Map!Promise!Answers, MapEntries

\* The functions that read.
LEMMA MapReadKept ==
    ASSUME MapInv, NEW k \in MapKeys
    PROVE  /\ Map!contains(k) => Map!Promise!contains(k)
           /\ Map!tryGet(k) => Map!Promise!tryGet(k)
           /\ Map!get(k) => Map!Promise!get(k)
<1> DEFINE has == k \in DOMAIN MapEntries
<1>1. MapEntries = Entries /\ DOMAIN MapEntries = KeysIn
  BY EntriesAre
<1>2. /\ Map!KeyWord(k) = k /\ (Map!Contains(map, k) = has)
      /\ has => MapEntries[k] = map.values[k]
      /\ ~has => map.values[k] = 0
      /\ map.values[k] \in MapValues /\ Map!Value(map.values[k]) = map.values[k]
  <2>1. map.values[k] \in MapValues
    BY MapConverts DEF MapInv
  <2> QED BY <1>1, <2>1, MapAnswers, MapConverts DEF Entries
<1>3. Map!Value(0) = 0
  BY MapConverts
<1>4. UNCHANGED map => UNCHANGED MapEntries
  BY DEF MapEntries
<1>5. ASSUME Map!contains(k) PROVE Map!Promise!contains(k)
  <2>1. mapCall' = <<"contains", <<k, 0>>, <<has>>>> /\ UNCHANGED MapEntries
    BY <1>2, <1>4, <1>5 DEF Map!contains, Map!Answers
  <2> QED BY <2>1 DEF Map!Promise!contains, Map!Promise!Answers, MapEntries
<1>6. ASSUME Map!tryGet(k) PROVE Map!Promise!tryGet(k)
  <2>1. mapCall' = <<"tryGet", <<k, 0>>, <<Map!TryGet(map, k)[1], Map!Value(Map!TryGet(map, k)[2])>>>>
        /\ UNCHANGED MapEntries
    BY <1>2, <1>4, <1>6 DEF Map!tryGet, Map!Answers
  <2>2. Map!TryGet(map, k) = IF map.values[k] = 0 THEN <<has, 0>> ELSE <<TRUE, map.values[k]>>
    BY <1>2 DEF Map!TryGet
  <2> HIDE DEF MapEntries, has
  <2>3. <<Map!TryGet(map, k)[1], Map!Value(Map!TryGet(map, k)[2])>>
           = IF has THEN <<TRUE, MapEntries[k]>> ELSE <<FALSE, 0>>
    <3> DEFINE r == Map!TryGet(map, k)
    <3>1. CASE map.values[k] = 0 /\ has
      <4>1. r = <<TRUE, 0>>
        <5>1. has = TRUE
          BY <3>1 DEF has
        <5> QED BY <3>1, <5>1, <2>2
      <4>2. r[1] = TRUE /\ r[2] = 0 /\ MapEntries[k] = 0
        BY <3>1, <4>1, <1>2
      <4> QED BY <3>1, <4>2, <1>3
    <3>2. CASE map.values[k] = 0 /\ ~has
      <4>1. r = <<FALSE, 0>>
        <5>1. has = FALSE
          BY <3>2 DEF has
        <5> QED BY <3>2, <5>1, <2>2
      <4>2. r[1] = FALSE /\ r[2] = 0
        BY <4>1
      <4> QED BY <3>2, <4>2, <1>3
    <3>3. CASE map.values[k] # 0
      <4>1. r = <<TRUE, map.values[k]>> /\ has
        BY <3>3, <2>2, <1>2
      <4>2. r[1] = TRUE /\ r[2] = map.values[k]
        BY <4>1
      <4> QED BY <4>1, <4>2, <1>2
    <3> QED BY <3>1, <3>2, <3>3
  <2>4. mapCall' = <<"tryGet", <<k, 0>>, IF has THEN <<TRUE, MapEntries[k]>> ELSE <<FALSE, 0>>>>
    BY <2>1, <2>3
  <2> QED BY <2>1, <2>4 DEF Map!Promise!tryGet, Map!Promise!Answers, MapEntries, Map!Zero, has
<1>7. ASSUME Map!get(k) PROVE Map!Promise!get(k)
  <2>1. mapCall' = <<"get", <<k, 0>>, IF Map!Gettable(map, k) THEN <<map.values[k]>> ELSE <<>>>>
        /\ UNCHANGED MapEntries
    BY <1>2, <1>4, <1>7 DEF Map!get, Map!Answers, Map!Get
  <2>2. Map!Gettable(map, k) <=> has
    BY <1>2 DEF Map!Gettable
  <2> HIDE DEF MapEntries, has
  <2>3. mapCall' = <<"get", <<k, 0>>, IF has THEN <<MapEntries[k]>> ELSE <<>>>>
    BY <2>1, <2>2, <1>2
  <2> QED BY <2>1, <2>3 DEF Map!Promise!get, Map!Promise!Answers, MapEntries, has
<1> QED BY <1>5, <1>6, <1>7

LEMMA MapEnumerationKept ==
    ASSUME MapInv
    PROVE  /\ Map!length => Map!Promise!length
           /\ \A index \in Map!Indices : Map!at(index) => Map!Promise!at(index)
<1>1. MapEntries = Entries /\ DOMAIN MapEntries = KeysIn
  BY EntriesAre
<1>2. /\ Length(map.keys) \in Nat /\ Cardinality(KeysIn) = Length(map.keys)
      /\ map.keys.values \in [1 .. Length(map.keys) -> KeysIn]
  BY MapKeysFinite, ArrayOfMembers DEF MapInv, KeysIn
<1>3. Map!Promise!Cardinality(DOMAIN MapEntries) = Length(map.keys)
  BY <1>1, <1>2 DEF Map!Promise!Cardinality, Cardinality
<1>4. UNCHANGED map => UNCHANGED MapEntries
  BY DEF MapEntries
<1>5. ASSUME Map!length PROVE Map!Promise!length
  <2>1. mapCall' = <<"length", <<0, 0>>, <<Map!Promise!Cardinality(DOMAIN MapEntries)>>>>
        /\ UNCHANGED MapEntries
    BY <1>3, <1>4, <1>5, MapUsesTheSet DEF Map!length, Map!Answers, Map!Length
  <2> QED BY <2>1 DEF Map!Promise!length, Map!Promise!Answers, MapEntries
<1>6. ASSUME NEW index \in Map!Indices, Map!at(index) PROVE Map!Promise!at(index)
  <2> DEFINE k == map.keys.values[index + 1]
             size == Map!Promise!Cardinality(DOMAIN MapEntries)
  <2>1. index \in Nat
    BY ConversionAssumption DEF Map!Indices
  <2>2. /\ mapCall' = <<"at", <<index, 0>>,
                        IF index < Length(map.keys) THEN <<Map!Key(k), Map!Value(map.values[k])>>
                        ELSE <<>>>>
        /\ UNCHANGED MapEntries
    BY <1>4, <1>6, MapUsesTheSet DEF Map!at, Map!Answers, Map!At, Map!InBounds, InBounds, At
  <2>3. ASSUME index < Length(map.keys)
        PROVE  k \in DOMAIN MapEntries /\ Map!Key(k) = k /\ Map!Value(map.values[k]) = MapEntries[k]
    <3>1. index + 1 \in 1 .. Length(map.keys)
      BY <1>2, <2>1, <2>3
    <3>2. k \in KeysIn
      BY <1>2, <3>1
    <3>3. k \in MapKeys /\ k \in Bytes32 /\ map.values[k] \in MapValues
      BY <3>2, MapConverts DEF KeysIn, MapInv
    <3> QED BY <1>1, <3>2, <3>3, MapConverts DEF Entries
  <2> HIDE DEF k
  <2>4. IF index < size
        THEN \E x \in DOMAIN MapEntries : mapCall' = <<"at", <<index, 0>>, <<x, MapEntries[x]>>>>
        ELSE mapCall' = <<"at", <<index, 0>>, <<>>>>
    <3> HIDE DEF MapEntries
    <3> QED BY <1>3, <2>2, <2>3
  <2> QED BY <2>2, <2>4 DEF Map!Promise!at, Map!Promise!Answers, MapEntries
<1> QED BY <1>5, <1>6

LEMMA StepMapPromise ==
    ASSUME MapInv, [Map!Next]_(Map!vars) PROVE [Map!Promise!Next]_(Map!Promise!vars)
<1>1. MapInv'
  BY StepMap
<1>2. UNCHANGED Map!vars => UNCHANGED Map!Promise!vars
  BY DEF Map!vars, Map!Promise!vars
<1>3. Map!Next => Map!Promise!Next
  BY <1>1, MapSetKept, MapRemoveKept, MapReadKept, MapEnumerationKept, MapUsesTheSet
     DEF Map!Next, Map!Promise!Next
<1> QED BY <1>2, <1>3

-----------------------------------------------------------------------------
(* The trace, whose caller chooses the keys                                *)

\* What a lower search has left behind is on the right side of its key.
LowerFits(c, s) ==
    /\ s \in AnySearch /\ s.low <= s.high /\ s.high <= Len(c)
    /\ \A i \in 1 .. Len(c) :
          /\ i <= s.low => c[i].key < s.key
          /\ i > s.high => c[i].key >= s.key

\* The value of the first of checkpoints c from key q on.
FirstOf(c, q) ==
    LET from == {i \in 1 .. Len(c) : c[i].key >= q}
    IN  IF from = {} THEN 0
        ELSE c[CHOOSE i \in from : \A j \in from : i <= j].value

LEMMA WholeLowerFits ==
    ASSUME NEW c \in Seq(AnyCheckpoint), NEW k \in Nat
    PROVE  LowerFits(c, Whole(c, k)) /\ Whole(c, k).key = k
  BY CheckpointFields DEF LowerFits, Whole, Between, AnySearch

LEMMA LowerStepFits ==
    ASSUME NEW c \in Seq(AnyCheckpoint), Sorted(c),
           NEW s, LowerFits(c, s), Searching(s)
    PROVE  LowerFits(c, LowerStep(c, s)) /\ LowerStep(c, s).key = s.key
<1> DEFINE mid == Average(s.low, s.high)
<1>1. s \in AnySearch /\ s.low \in Nat /\ s.high \in Nat /\ s.key \in Nat
      /\ s.low < s.high /\ s.high <= Len(c) /\ Len(c) \in Nat
  BY CheckpointFields DEF LowerFits, AnySearch, Searching
<1>2. mid \in Nat /\ s.low <= mid /\ mid < s.high
  BY <1>1 DEF Average
<1>3. UnsafeAccess(c, mid) = c[mid + 1] /\ mid + 1 \in 1 .. Len(c)
  BY <1>1, <1>2 DEF UnsafeAccess
<1>4. \A i \in 1 .. Len(c) : c[i].key \in Nat
  BY CheckpointFields
<1>5. LowerStep(c, s) = IF UnsafeAccess(c, mid).key < s.key THEN [s EXCEPT !.low = mid + 1]
                        ELSE [s EXCEPT !.high = mid]
  BY DEF LowerStep
<1> HIDE DEF mid
<1>6. CASE c[mid + 1].key < s.key
  <2>1. LowerStep(c, s) = [s EXCEPT !.low = mid + 1]
    BY <1>3, <1>5, <1>6
  <2>2. \A i \in 1 .. Len(c) : i <= mid + 1 => c[i].key < s.key
    BY <1>1, <1>2, <1>3, <1>4, <1>6 DEF Sorted
  <2> QED BY <2>1, <2>2, <1>1, <1>2 DEF LowerFits, AnySearch
<1>7. CASE ~(c[mid + 1].key < s.key)
  <2>1. LowerStep(c, s) = [s EXCEPT !.high = mid]
    BY <1>3, <1>5, <1>7
  <2>2. \A i \in 1 .. Len(c) : i > mid => c[i].key >= s.key
    BY <1>1, <1>2, <1>3, <1>4, <1>7 DEF Sorted
  <2> QED BY <2>1, <2>2, <1>1, <1>2 DEF LowerFits, AnySearch
<1> QED BY <1>6, <1>7

LEMMA LowerValueRight ==
    ASSUME NEW c \in Seq(AnyCheckpoint), NEW s, LowerFits(c, s), ~Searching(s)
    PROVE  LowerValue(c, s) = FirstOf(c, s.key)
<1> DEFINE n == s.high
           from == {i \in 1 .. Len(c) : c[i].key >= s.key}
<1>1. s.low \in Nat /\ n \in Nat /\ s.key \in Nat /\ s.low = n
      /\ n <= Len(c) /\ Len(c) \in Nat
  BY CheckpointFields DEF LowerFits, AnySearch, Searching
<1>2. from = n + 1 .. Len(c)
  <2>1. \A i \in 1 .. Len(c) : c[i].key \in Nat
    BY CheckpointFields
  <2>2. \A i \in 1 .. Len(c) : (i <= n => c[i].key < s.key) /\ (i > n => c[i].key >= s.key)
    BY <1>1 DEF LowerFits
  <2>3. ASSUME NEW i \in 1 .. Len(c) PROVE i \in from <=> i > n
    BY <1>1, <2>1, <2>2
  <2> HIDE DEF n
  <2>4. from \subseteq 1 .. Len(c)
    OBVIOUS
  <2> HIDE DEF from
  <2>5. \A i : i \in n + 1 .. Len(c) <=> i \in 1 .. Len(c) /\ i > n
    BY <1>1
  <2>6. \A i : i \in from <=> i \in n + 1 .. Len(c)
    BY <2>3, <2>4, <2>5
  <2> QED BY <2>6
<1>3. CASE n = Len(c)
  <2>1. from = {}
    BY <1>1, <1>2, <1>3
  <2> QED BY <2>1, <1>3 DEF FirstOf, LowerValue
<1>4. CASE n # Len(c)
  <2>1. n + 1 \in from /\ \A j \in from : n + 1 <= j
    BY <1>1, <1>2, <1>4
  <2>2. \A i \in from : (\A j \in from : i <= j) => i = n + 1
    BY <1>1, <1>2, <1>4
  <2>3. (CHOOSE i \in from : \A j \in from : i <= j) = n + 1
    <3> HIDE DEF from
    <3> QED BY <2>1, <2>2
  <2>4. FirstOf(c, s.key) = c[n + 1].value
    BY <2>1, <2>3 DEF FirstOf
  <2>5. LowerValue(c, s) = c[n + 1].value
    BY <1>1, <1>4 DEF LowerValue, UnsafeAccess
  <2> QED BY <2>4, <2>5
<1> QED BY <1>3, <1>4

\* The first checkpoint from key q on is the n-th, if that is the first with such a key.
LEMMA FirstIs ==
    ASSUME NEW c \in Seq(AnyCheckpoint), NEW q \in Nat, NEW n \in 1 .. Len(c), c[n].key >= q,
           \A j \in 1 .. n - 1 : ~(c[j].key >= q)
    PROVE  FirstOf(c, q) = c[n].value
<1> DEFINE from == {i \in 1 .. Len(c) : c[i].key >= q}
<1>1. n \in from /\ \A j \in from : n <= j
  BY CheckpointFields
<1>2. \A i \in from : (\A j \in from : i <= j) => i = n
  BY <1>1, CheckpointFields
<1>3. (CHOOSE i \in from : \A j \in from : i <= j) = n
  <2> HIDE DEF from
  <2> QED BY <1>1, <1>2
<1> QED BY <1>1, <1>3 DEF FirstOf

\* A push leaves alone what is found before the last checkpoint.
LEMMA InsertKeepsFirst ==
    ASSUME NEW c \in Seq(AnyCheckpoint), Sorted(c), NEW b \in Nat, NEW v \in Nat,
           NEW q \in Nat, NEW i \in 1 .. Len(c), i < Len(c), q <= c[i].key
    PROVE  FirstOf(Insert(c, b, v), q) = FirstOf(c, q)
<1> DEFINE l == Len(c)
           d == Insert(c, b, v)
<1>1. l \in Nat /\ Checkpoint(b, v) \in AnyCheckpoint
  BY CheckpointFields DEF Checkpoint, AnyCheckpoint
<1>2. /\ d \in Seq(AnyCheckpoint) /\ Len(d) >= l /\ Len(d) \in Nat
      /\ \A j \in 1 .. l - 1 : d[j] = c[j]
  <2>1. CASE d = [c EXCEPT ![l].value = v]
    <3>1. [c[l] EXCEPT !.value = v] \in AnyCheckpoint
      <4>1. c[l] \in AnyCheckpoint
        BY <1>1, CheckpointFields
      <4> QED BY <4>1 DEF AnyCheckpoint
    <3>2. l \in 1 .. l /\ c \in [1 .. l -> AnyCheckpoint]
      BY <1>1
    <3>3. d \in [1 .. l -> AnyCheckpoint]
      BY <2>1, <3>1, <3>2
    <3>4. d \in Seq(AnyCheckpoint) /\ Len(d) = l
      BY <1>1, <3>3
    <3>5. \A j \in 1 .. l - 1 : d[j] = c[j]
      BY <1>1, <2>1, <3>2
    <3> QED BY <1>1, <3>4, <3>5
  <2>2. CASE d = Append(c, Checkpoint(b, v))
    BY <1>1, <2>2
  <2> QED BY <2>1, <2>2 DEF Insert
<1>3. PICK n \in 1 .. l - 1 : c[n].key >= q /\ \A j \in 1 .. n - 1 : ~(c[j].key >= q)
  <2>1. CASE q = 0
    BY <1>1, <2>1, CheckpointFields
  <2>2. CASE q # 0
    <3>1. PICK m \in Nat : Cut(c, q - 1, m)
      BY <2>2, CutExists
    <3>2. \A j \in 1 .. l : c[j].key \in Nat /\ (c[j].key >= q <=> j > m)
      BY <2>2, <3>1, CheckpointFields DEF Cut
    <3>3. m < i /\ m + 1 \in 1 .. l - 1 /\ m + 1 > m
      BY <1>1, <3>1, <3>2
    <3>4. \A j \in 1 .. (m + 1) - 1 : j \in 1 .. l /\ ~(j > m)
      BY <1>1, <3>1, <3>3
    <3>5. m + 1 \in 1 .. l /\ c[m + 1].key >= q /\ \A j \in 1 .. (m + 1) - 1 : ~(c[j].key >= q)
      BY <1>1, <3>2, <3>3, <3>4
    <3> QED BY <3>3, <3>5
  <2> QED BY <2>1, <2>2
<1>4. n \in 1 .. l /\ n \in 1 .. Len(d) /\ \A j \in 1 .. n : j \in 1 .. l - 1
  BY <1>1, <1>2, <1>3
<1>5. FirstOf(c, q) = c[n].value
  BY <1>3, <1>4, FirstIs
<1>6. d[n].key >= q /\ \A j \in 1 .. n - 1 : ~(d[j].key >= q)
  BY <1>2, <1>3, <1>4
<1>7. FirstOf(d, q) = d[n].value
  <2> HIDE DEF d
  <2> QED BY <1>2, <1>4, <1>6, FirstIs
<1> QED BY <1>2, <1>3, <1>5, <1>7

LEMMA TraceUsesCheckpoints ==
    /\ \A c, k : Trace!Insertable(c, k) <=> Insertable(c, k)
    /\ \A c, k, v : Trace!Insert(c, k, v) = Insert(c, k, v)
    /\ \A c, k : Trace!Whole(c, k) = Whole(c, k)
    /\ \A s : Trace!Searching(s) <=> Searching(s)
    /\ \A c, s : Trace!UpperStep(c, s) = UpperStep(c, s)
    /\ \A c, s : Trace!LowerStep(c, s) = LowerStep(c, s)
    /\ \A c, s : Trace!UpperValue(c, s) = UpperValue(c, s)
    /\ \A c, s : Trace!LowerValue(c, s) = LowerValue(c, s)
    /\ \A c : Trace!Latest(c) = Latest(c) /\ Trace!LatestCheckpoint(c) = LatestCheckpoint(c)
<1>1. /\ \A c, i : Trace!UnsafeAccess(c, i) = UnsafeAccess(c, i)
      /\ \A c : Trace!LastOf(c) = LastOf(c)
      /\ \A k, v : Trace!Checkpoint(k, v) = Checkpoint(k, v)
      /\ \A m, n : Trace!Average(m, n) = Average(m, n)
  BY DEF Trace!UnsafeAccess, UnsafeAccess, Trace!LastOf, LastOf, Trace!Checkpoint, Checkpoint,
         Trace!Average, Average
<1>2. \A c, k : Trace!Insertable(c, k) <=> Insertable(c, k)
  BY <1>1 DEF Trace!Insertable, Insertable
<1>3. \A c, k, v : Trace!Insert(c, k, v) = Insert(c, k, v)
  BY <1>1 DEF Trace!Insert, Insert
<1>4. \A c, k : Trace!Whole(c, k) = Whole(c, k)
  BY DEF Trace!Whole, Whole, Trace!Between, Between
<1>5. \A s : Trace!Searching(s) <=> Searching(s)
  BY DEF Trace!Searching, Searching
<1>6. \A c, s : Trace!UpperStep(c, s) = UpperStep(c, s)
  BY <1>1 DEF Trace!UpperStep, UpperStep
<1>7. \A c, s : Trace!LowerStep(c, s) = LowerStep(c, s)
  BY <1>1 DEF Trace!LowerStep, LowerStep
<1>8. /\ \A c, s : Trace!UpperValue(c, s) = UpperValue(c, s)
      /\ \A c, s : Trace!LowerValue(c, s) = LowerValue(c, s)
  BY <1>1 DEF Trace!UpperValue, UpperValue, Trace!LowerValue, LowerValue
<1>9. \A c : Trace!Latest(c) = Latest(c) /\ Trace!LatestCheckpoint(c) = LatestCheckpoint(c)
  BY <1>1 DEF Trace!Latest, Latest, Trace!LatestCheckpoint, LatestCheckpoint
<1> QED BY <1>2, <1>3, <1>4, <1>5, <1>6, <1>7, <1>8, <1>9

LEMMA TraceLooksUp ==
    /\ \A q : Trace!FirstFrom(q) = FirstOf(trace, q)
    /\ \A q : Trace!LastUpTo(q) = ValueOf(trace, q)
  BY DEF Trace!FirstFrom, Trace!LastUpTo, Trace!Positions, Trace!Key, FirstOf, ValueOf

TraceType == [key : 0 .. LastKey, value : 0 .. LargestValue]

TraceInv ==
    /\ trace \in Seq(TraceType) /\ Sorted(trace)
    /\ traceSearch # <<>> =>
          /\ traceSearch.key \in 0 .. LastKey
          /\ \/ traceAsked = "lowerLookup" /\ LowerFits(trace, traceSearch)
             \/ traceAsked = "upperLookup" /\ Fits(trace, traceSearch)
    /\ traceCall[1] = "lowerLookup" => traceCall[3] = <<FirstOf(trace, traceCall[2])>>
    /\ traceCall[1] = "upperLookup" => traceCall[3] = <<ValueOf(trace, traceCall[2])>>
    /\ traceCall[1] = "latest" => traceCall[3] = <<Latest(trace)>>
    /\ traceCall[1] = "latestCheckpoint" => traceCall[3] = LatestCheckpoint(trace)
    /\ traceCall[1] = "length" => traceCall[3] = <<Len(trace)>>

LEMMA TraceTyped ==
    ASSUME Trace!TraceAssumption, NEW c \in Seq(TraceType)
    PROVE  /\ TraceType \in SUBSET AnyCheckpoint /\ c \in Seq(AnyCheckpoint)
           /\ 0 .. LastKey \subseteq Nat
<1>1. 0 .. LastKey \subseteq Nat /\ 0 .. LargestValue \subseteq Nat
  BY DEF Trace!TraceAssumption
<1>2. TraceType \subseteq AnyCheckpoint
  BY <1>1 DEF TraceType, AnyCheckpoint
<1>3. Seq(TraceType) \subseteq Seq(AnyCheckpoint)
  BY <1>2
<1> QED BY <1>1, <1>2, <1>3

LEMMA InitTrace == ASSUME Trace!Init PROVE TraceInv
<1>1. trace \in Seq(TraceType) /\ Len(trace) = 0 /\ traceSearch = <<>>
  BY DEF Trace!Init
<1>2. traceCall[1] = "none"
  BY DEF Trace!Init
<1> QED BY <1>1, <1>2 DEF TraceInv, Sorted

\* A push that is accepted changes nothing below its key.
LEMMA TracePushKeeps ==
    ASSUME Trace!TraceAssumption, TraceInv, NEW k \in 0 .. LastKey, NEW v \in 0 .. LargestValue,
           Insertable(trace, k)
    PROVE  /\ Insert(trace, k, v) \in Seq(TraceType) /\ Sorted(Insert(trace, k, v))
           /\ \A i \in 1 .. Len(trace) : trace[i].key <= k
           /\ \A q \in Nat : q < k => ValueOf(Insert(trace, k, v), q) = ValueOf(trace, q)
           /\ \A q \in Nat, i \in 1 .. Len(trace) :
                 i < Len(trace) /\ q <= trace[i].key
                    => FirstOf(Insert(trace, k, v), q) = FirstOf(trace, q)
<1>1. /\ trace \in Seq(TraceType) /\ Sorted(trace) /\ TraceType \in SUBSET AnyCheckpoint
      /\ trace \in Seq(AnyCheckpoint) /\ k \in Nat /\ Len(trace) \in Nat
  BY TraceTyped DEF TraceInv
<1>2. Checkpoint(k, v) \in TraceType
  BY DEF Checkpoint, TraceType
<1>3. ASSUME NEW i \in 1 .. Len(trace) PROVE trace[i].key <= k
  <2>1. Len(trace) \in 1 .. Len(trace) /\ LastOf(trace) = trace[Len(trace)] /\ trace # <<>>
    BY <1>1 DEF LastOf, UnsafeAccess
  <2>2. i = Len(trace) \/ trace[i].key < trace[Len(trace)].key
    BY <1>1, <2>1 DEF Sorted
  <2> QED BY <1>1, <2>1, <2>2, CheckpointFields DEF Insertable
<1>4. v \in Nat
  BY DEF Trace!TraceAssumption
<1>5. \A q \in Nat, i \in 1 .. Len(trace) :
         i < Len(trace) /\ q <= trace[i].key => FirstOf(Insert(trace, k, v), q) = FirstOf(trace, q)
  BY <1>1, <1>4, InsertKeepsFirst
<1> QED BY <1>1, <1>2, <1>3, <1>5, InsertSorts

LEMMA StepTrace ==
    ASSUME Trace!TraceAssumption, TraceInv, [Trace!Next]_(Trace!vars)
    PROVE  TraceInv' /\ [Trace!PastSettled]_(Trace!vars)
<1>1. /\ trace \in Seq(AnyCheckpoint) /\ 0 .. LastKey \subseteq Nat
      /\ trace \in Seq(TraceType) /\ Sorted(trace) /\ Len(trace) \in Nat
  BY TraceTyped DEF TraceInv
<1>2. /\ \A q : Trace!LastUpTo(q)' = ValueOf(trace', q)
      /\ \A q : Trace!FirstFrom(q)' = FirstOf(trace', q)
  BY DEF Trace!LastUpTo, Trace!FirstFrom, Trace!Positions, Trace!Key, ValueOf, FirstOf
<1>3. ASSUME UNCHANGED trace PROVE Trace!PastSettled
  BY <1>2, <1>3, TraceLooksUp DEF Trace!PastSettled
<1>4. ASSUME NEW k \in 0 .. LastKey, NEW v \in 0 .. LargestValue, Trace!push(k, v)
      PROVE  TraceInv' /\ Trace!PastSettled
  <2>1. /\ traceSearch = <<>> /\ UNCHANGED <<traceSearch, traceAsked>> /\ traceCall'[1] = "push"
        /\ \/ Insertable(trace, k) /\ trace' = Insert(trace, k, v)
           \/ UNCHANGED trace
    BY <1>4, TraceUsesCheckpoints DEF Trace!push, Trace!Answers, Trace!Idle
  <2>2. CASE UNCHANGED trace
    BY <1>3, <2>1, <2>2 DEF TraceInv
  <2>3. CASE Insertable(trace, k) /\ trace' = Insert(trace, k, v)
    <3>1. /\ trace' \in Seq(TraceType) /\ Sorted(trace')
          /\ \A i \in 1 .. Len(trace) : trace[i].key <= k
          /\ \A q \in Nat : q < k => ValueOf(trace', q) = ValueOf(trace, q)
          /\ \A q \in Nat, i \in 1 .. Len(trace) :
                i < Len(trace) /\ q <= trace[i].key => FirstOf(trace', q) = FirstOf(trace, q)
      BY <2>3, TracePushKeeps
    <3>2. TraceInv'
      BY <2>1, <3>1 DEF TraceInv
    <3>3. ASSUME NEW key \in 0 .. LastKey, NEW i \in Trace!Positions, key < Trace!Key(i)
          PROVE  Trace!LastUpTo(key)' = Trace!LastUpTo(key)
      <4>1. i \in 1 .. Len(trace) /\ trace[i].key \in Nat /\ key < trace[i].key /\ key \in Nat
        BY <1>1, <3>3, CheckpointFields DEF Trace!Positions, Trace!Key
      <4>2. k \in Nat /\ key < k
        BY <1>1, <3>1, <4>1
      <4>3. ValueOf(trace', key) = ValueOf(trace, key)
        BY <3>1, <4>1, <4>2
      <4> QED BY <1>2, <4>3, TraceLooksUp
    <3>4. ASSUME NEW key \in 0 .. LastKey, NEW i \in Trace!Positions,
                 i < Len(trace), key <= Trace!Key(i)
          PROVE  Trace!FirstFrom(key)' = Trace!FirstFrom(key)
      <4>1. i \in 1 .. Len(trace) /\ key <= trace[i].key /\ key \in Nat
        BY <1>1, <3>4 DEF Trace!Positions, Trace!Key
      <4>2. FirstOf(trace', key) = FirstOf(trace, key)
        BY <3>1, <3>4, <4>1
      <4> QED BY <1>2, <4>2, TraceLooksUp
    <3> QED BY <3>2, <3>3, <3>4 DEF Trace!PastSettled
  <2> QED BY <2>1, <2>2, <2>3
<1>5. CASE Trace!latest \/ Trace!latestCheckpoint \/ Trace!length
  <2>1. /\ UNCHANGED <<trace, traceSearch, traceAsked>>
        /\ \/ traceCall' = <<"latest", 0, <<Latest(trace)>> >>
           \/ traceCall' = <<"latestCheckpoint", 0, LatestCheckpoint(trace)>>
           \/ traceCall' = <<"length", 0, <<Len(trace)>> >>
    BY <1>5, TraceUsesCheckpoints
       DEF Trace!latest, Trace!latestCheckpoint, Trace!length, Trace!View, Trace!Answers
  <2> QED BY <1>3, <2>1 DEF TraceInv
<1>6. ASSUME NEW k \in 0 .. LastKey, Trace!lowerLookup(k) \/ Trace!upperLookup(k)
      PROVE  TraceInv' /\ Trace!PastSettled
  <2>1. /\ UNCHANGED trace /\ traceSearch' = Whole(trace, k)
        /\ traceAsked' \in {"lowerLookup", "upperLookup"} /\ traceCall'[1] = "none"
    BY <1>6, TraceUsesCheckpoints
       DEF Trace!lowerLookup, Trace!upperLookup, Trace!Begins, Trace!Answers
  <2>2. /\ Fits(trace, Whole(trace, k)) /\ LowerFits(trace, Whole(trace, k))
        /\ Whole(trace, k).key = k
    BY <1>1, WholeFits, WholeLowerFits
  <2> QED BY <1>3, <2>1, <2>2 DEF TraceInv
<1>7. CASE Trace!Iterate
  <2>1. /\ traceSearch # <<>> /\ Searching(traceSearch)
        /\ UNCHANGED <<trace, traceAsked, traceCall>>
        /\ traceSearch' = IF traceAsked = "lowerLookup" THEN LowerStep(trace, traceSearch)
                          ELSE UpperStep(trace, traceSearch)
    BY <1>7, TraceUsesCheckpoints DEF Trace!Iterate, Trace!Idle
  <2>2. CASE traceAsked = "lowerLookup"
    BY <1>1, <1>3, <2>1, <2>2, LowerStepFits DEF TraceInv
  <2>3. CASE traceAsked # "lowerLookup"
    BY <1>1, <1>3, <2>1, <2>3, UpperStepFits DEF TraceInv
  <2> QED BY <2>2, <2>3
<1>8. CASE Trace!Returns
  <2>1. /\ traceSearch # <<>> /\ ~Searching(traceSearch) /\ UNCHANGED trace
        /\ traceSearch' = <<>>
        /\ traceCall' = <<traceAsked, traceSearch.key,
                          <<IF traceAsked = "lowerLookup" THEN LowerValue(trace, traceSearch)
                            ELSE UpperValue(trace, traceSearch)>> >>
    BY <1>8, TraceUsesCheckpoints DEF Trace!Returns, Trace!Idle, Trace!Answers
  <2>2. CASE traceAsked = "lowerLookup"
    <3>1. traceCall' = <<"lowerLookup", traceSearch.key, <<FirstOf(trace, traceSearch.key)>> >>
      BY <1>1, <2>1, <2>2, LowerValueRight DEF TraceInv
    <3> QED BY <1>3, <2>1, <3>1 DEF TraceInv
  <2>3. CASE traceAsked # "lowerLookup"
    <3>1. traceCall' = <<"upperLookup", traceSearch.key, <<ValueOf(trace, traceSearch.key)>> >>
      BY <1>1, <2>1, <2>3, UpperValueRight DEF TraceInv
    <3> QED BY <1>3, <2>1, <3>1 DEF TraceInv
  <2> QED BY <2>2, <2>3
<1>9. CASE UNCHANGED Trace!vars
  BY <1>9 DEF Trace!vars, TraceInv
<1> QED BY <1>4, <1>5, <1>6, <1>7, <1>8, <1>9 DEF Trace!Next

\* The last checkpoint is that of the largest key, and there are as many as keys.
LEMMA TraceEnds ==
    ASSUME Trace!TraceAssumption, TraceInv
    PROVE  /\ Latest(trace) = ValueOf(trace, LastKey)
           /\ LatestCheckpoint(trace)
                 = IF Trace!Keys = {} THEN <<FALSE, 0, 0>>
                   ELSE <<TRUE, Trace!Last, ValueOf(trace, Trace!Last)>>
           /\ Trace!Cardinality(Trace!Keys) = Len(trace)
<1> DEFINE l == Len(trace)
           K == Trace!Keys
<1>1. /\ trace \in Seq(AnyCheckpoint) /\ trace \in Seq(TraceType) /\ Sorted(trace)
      /\ l \in Nat /\ K = {trace[i].key : i \in 1 .. l}
  BY TraceTyped DEF TraceInv, Trace!Keys, Trace!Positions, Trace!Key
<1>2. ASSUME NEW i \in 1 .. l PROVE trace[i].key \in Nat /\ trace[i].key <= LastKey
  <2>1. trace[i] \in TraceType
    BY <1>1
  <2>2. trace[i].key \in 0 .. LastKey /\ LastKey \in Nat
    BY <2>1 DEF TraceType, Trace!TraceAssumption
  <2> QED BY <2>2
<1>3. l # 0 => LastOf(trace) = trace[l]
  BY <1>1 DEF LastOf, UnsafeAccess
<1>4. ASSUME NEW q \in Nat, \A i \in 1 .. l : trace[i].key <= q
      PROVE  ValueOf(trace, q) = Latest(trace)
  <2>1. Cut(trace, q, l)
    BY <1>1, <1>4 DEF Cut
  <2>2. ValueOf(trace, q) = IF l = 0 THEN 0 ELSE trace[l].value
    BY <1>1, <2>1, ValueAtCut
  <2> QED BY <1>1, <1>3, <2>2 DEF Latest
<1>5. Latest(trace) = ValueOf(trace, LastKey)
  <2>1. LastKey \in Nat
    BY DEF Trace!TraceAssumption
  <2> HIDE DEF l
  <2> QED BY <1>2, <1>4, <2>1
<1>6. ASSUME l = 0 PROVE K = {} /\ LatestCheckpoint(trace) = <<FALSE, 0, 0>>
  <2>1. K = {}
    BY <1>1, <1>6
  <2>2. trace = <<>>
    BY <1>1, <1>6
  <2> QED BY <2>1, <2>2 DEF LatestCheckpoint
<1>7. ASSUME l # 0
      PROVE  K # {} /\ LatestCheckpoint(trace) = <<TRUE, Trace!Last, ValueOf(trace, Trace!Last)>>
  <2>1. l \in 1 .. l /\ trace[l].key \in K
    BY <1>1, <1>7
  <2>2. \A i \in 1 .. l : trace[i].key <= trace[l].key
    BY <1>1, <1>2, <2>1 DEF Sorted
  <2>3. (\A k \in K : k <= trace[l].key) /\ \A k \in K : k \in Nat
    BY <1>1, <1>2, <2>2
  <2>4. \A k \in K : (\A j \in K : j <= k) => k = trace[l].key
    BY <2>1, <2>3
  <2>5. Trace!Last = trace[l].key
    <3>1. Trace!Last = CHOOSE key \in K : \A k \in K : k <= key
      BY DEF Trace!Last
    <3> HIDE DEF K
    <3> QED BY <2>1, <2>3, <2>4, <3>1
  <2>6. Latest(trace) = trace[l].value
    BY <1>1, <1>3, <1>7 DEF Latest
  <2>7. ValueOf(trace, trace[l].key) = trace[l].value
    BY <1>2, <1>4, <2>1, <2>2, <2>6
  <2>8. LatestCheckpoint(trace) = <<TRUE, trace[l].key, trace[l].value>>
    <3>1. trace # <<>>
      BY <1>7
    <3> QED BY <1>3, <1>7, <3>1 DEF LatestCheckpoint
  <2> QED BY <2>1, <2>5, <2>7, <2>8
<1>8. Cardinality(K) = l
  <2> DEFINE f == [i \in 1 .. l |-> trace[i].key]
  <2>1. f \in [1 .. l -> K] /\ \A k \in K : \E i \in 1 .. l : f[i] = k
    BY <1>1
  <2>2. \A i, j \in 1 .. l : f[i] = f[j] => i = j
    BY <1>1, <1>2 DEF Sorted
  <2> HIDE DEF f, K
  <2>3. f \in Bijection(1 .. l, K)
    BY <2>1, <2>2 DEF Bijection, Injection, Surjection, IsInjective
  <2> QED BY <1>1, <2>3, FS_CountingElements DEF ExistsBijection
<1>9. Trace!Cardinality(K) = Cardinality(K)
  BY DEF Trace!Cardinality, Cardinality
<1> QED BY <1>5, <1>6, <1>7, <1>8, <1>9

LEMMA TraceGood ==
    ASSUME Trace!TraceAssumption, TraceInv
    PROVE  Trace!TypeOK /\ Trace!LookupsRight
<1>1. Trace!LookupsRight
  BY TraceLooksUp, TraceEnds DEF TraceInv, Trace!LookupsRight
<1>2. Len(trace) \in Nat /\ trace \in Seq(TraceType)
  BY DEF TraceInv
<1>3. ASSUME traceSearch # <<>>
      PROVE  /\ traceSearch.key \in 0 .. LastKey
             /\ traceSearch.high \in 0 .. Len(trace) /\ traceSearch.low \in 0 .. traceSearch.high
  <2>1. /\ traceSearch.key \in 0 .. LastKey /\ traceSearch \in AnySearch
        /\ traceSearch.low <= traceSearch.high /\ traceSearch.high <= Len(trace)
    BY <1>3 DEF TraceInv, Fits, LowerFits
  <2> QED BY <1>2, <2>1 DEF AnySearch
<1> QED BY <1>1, <1>2, <1>3 DEF Trace!TypeOK, Trace!Idle, TraceType

-----------------------------------------------------------------------------
(* Casts                                                                   *)

LEMMA Powers ==
    ASSUME Casts!CastAssumption
    PROVE  \A n \in 0 .. WordBits : 2 ^ n \in Nat /\ 2 ^ n >= 1 /\ 2 ^ n <= 2 ^ WordBits
<1> DEFINE p(n) == 2 ^ n
           Low == {n \in Nat : n <= WordBits /\ ~(p(n) \in Nat /\ p(n) >= 1)}
           R == OpToRel(<, Nat)
<1>1. WordBits \in Nat /\ p(0) = 1 /\ \A n \in 1 .. WordBits : p(n) \in Nat /\ p(n) = 2 * p(n - 1)
  BY DEF Casts!CastAssumption, Casts!PowersAssumption
<1> HIDE DEF p
<1>2. IsWellFoundedOn(R, Nat)
  BY NatLessThanWellFounded DEF R
<1>3. ASSUME NEW n \in 0 .. WordBits PROVE p(n) \in Nat /\ p(n) >= 1
  <2> SUFFICES ASSUME Low # {} PROVE FALSE
    BY <1>1
  <2>1. PICK m \in Low : \A x \in Low : <<x, m>> \notin R
    <3>1. Low \subseteq Nat
      OBVIOUS
    <3> HIDE DEF Low, R
    <3> QED BY <1>2, <3>1, WFMin
  <2>2. \A x \in Low : ~(x < m)
    BY <2>1 DEF OpToRel
  <2>3. m \in 1 .. WordBits /\ m - 1 \in Nat /\ m - 1 \notin Low
    BY <1>1, <2>2
  <2> QED BY <1>1, <2>3
<1>4. ASSUME NEW n \in 0 .. WordBits PROVE p(n) <= p(WordBits)
  <2> DEFINE Bad == {k \in Nat : n + k <= WordBits /\ ~(p(n) <= p(n + k))}
  <2> SUFFICES ASSUME Bad # {} PROVE FALSE
    <3>1. WordBits - n \in Nat /\ n + (WordBits - n) = WordBits
      BY <1>1
    <3> QED BY <3>1
  <2>1. PICK m \in Bad : \A x \in Bad : <<x, m>> \notin R
    <3>1. Bad \subseteq Nat
      OBVIOUS
    <3> HIDE DEF Bad, R
    <3> QED BY <1>2, <3>1, WFMin
  <2>2. \A x \in Bad : ~(x < m)
    BY <2>1 DEF OpToRel
  <2>3. m \in Nat /\ n + m \in 0 .. WordBits /\ ~(p(n) <= p(n + m))
    BY <1>1
  <2>4. m # 0
    BY <1>1, <1>3, <2>3
  <2>5. m - 1 \in Nat /\ m - 1 \notin Bad
    <3>1. m - 1 \in Nat /\ m - 1 < m
      BY <2>3, <2>4
    <3> HIDE DEF Bad
    <3> QED BY <2>2, <3>1
  <2>a. n + (m - 1) = (n + m) - 1 /\ n + (m - 1) <= WordBits
    BY <1>1, <2>3
  <2>6. p(n) <= p((n + m) - 1)
    BY <2>5, <2>a
  <2>7. n + m \in 1 .. WordBits /\ (n + m) - 1 \in 0 .. WordBits
    BY <1>1, <2>3, <2>4
  <2> QED BY <1>1, <1>3, <2>3, <2>6, <2>7
<1> QED BY <1>3, <1>4 DEF p

LEMMA Remainders ==
    ASSUME NEW m \in Nat, m >= 1, NEW x \in Int
    PROVE  /\ x % m \in 0 .. m - 1
           /\ x \in 0 .. m - 1 => x % m = x
           /\ x \in -m .. -1 => x % m = x + m
  OBVIOUS

\* The low `bits` bits, read as a number with a sign, are the value if it has that
\* many bits, and a number of that many bits in any case.
LEMMA SignedBits ==
    ASSUME NEW bits, 2 ^ bits \in Nat, 2 ^ (bits - 1) \in Nat, 2 ^ bits = 2 * 2 ^ (bits - 1),
           2 ^ (bits - 1) >= 1, NEW x \in Int
    PROVE  /\ Casts!AsInt(bits, x) \in Casts!Ints(bits)
           /\ x \in Casts!Ints(bits) => Casts!AsInt(bits, x) = x
<1> DEFINE m == 2 ^ bits
           h == 2 ^ (bits - 1)
           low == x % m
<1>1. m \in Nat /\ m >= 1 /\ h \in Nat /\ m = 2 * h /\ h >= 1
  OBVIOUS
<1>2. Casts!AsInt(bits, x) = IF low > h - 1 THEN low - m ELSE low
  BY DEF Casts!AsInt, Casts!AsUint, Casts!IntMax
<1>3. Casts!Ints(bits) = -h .. h - 1
  BY DEF Casts!Ints, Casts!IntMin, Casts!IntMax
<1>4. /\ low \in 0 .. m - 1
      /\ x \in 0 .. m - 1 => low = x
      /\ x \in -m .. -1 => low = x + m
  <2>1. \A k \in Nat : k >= 1 => /\ x % k \in 0 .. k - 1
                                 /\ x \in 0 .. k - 1 => x % k = x
                                 /\ x \in -k .. -1 => x % k = x + k
    BY Remainders
  <2> HIDE DEF m
  <2> QED BY <1>1, <2>1
<1> HIDE DEF m, h, low
<1>5. Casts!AsInt(bits, x) \in Casts!Ints(bits)
  BY <1>1, <1>2, <1>3, <1>4
<1>6. CASE x \in 0 .. h - 1
  BY <1>1, <1>2, <1>3, <1>4, <1>6
<1>7. CASE x \in -h .. -1
  BY <1>1, <1>2, <1>3, <1>4, <1>7
<1> QED BY <1>1, <1>3, <1>5, <1>6, <1>7

CastBits == Lengths \cup {WordBits}

CastsInv ==
    /\ value = start /\ value \in Casts!ValuesOf(type)
    /\ \E bits \in CastBits, signed \in BOOLEAN : type = Casts!Type(bits, signed)
    /\ refused # type => value \notin Casts!ValuesOf(refused)

LEMMA TypeValues ==
    \A bits : /\ Casts!ValuesOf(Casts!Type(bits, TRUE)) = Casts!Ints(bits)
              /\ Casts!ValuesOf(Casts!Type(bits, FALSE)) = Casts!Uints(bits)
              /\ Casts!Type(bits, TRUE).bits = bits /\ Casts!Type(bits, FALSE).bits = bits
              /\ Casts!Type(bits, TRUE).signed = TRUE /\ Casts!Type(bits, FALSE).signed = FALSE
  BY DEF Casts!ValuesOf, Casts!Type

\* What is known of the widths.
LEMMA Widths ==
    ASSUME Casts!CastAssumption, NEW bits \in CastBits
    PROVE  /\ 2 ^ bits \in Nat /\ 2 ^ bits >= 1 /\ 2 ^ bits <= 2 ^ WordBits
           /\ 2 ^ (bits - 1) \in Nat /\ 2 ^ (bits - 1) >= 1
           /\ 2 ^ bits = 2 * 2 ^ (bits - 1)
           /\ 2 ^ (bits - 1) <= 2 ^ (WordBits - 1)
           /\ bits \in Int /\ bits <= WordBits
<1>1. bits \in 1 .. WordBits /\ WordBits \in 1 .. WordBits /\ bits - 1 \in 0 .. WordBits
      /\ bits \in 0 .. WordBits /\ WordBits - 1 \in 0 .. WordBits
  BY DEF Casts!CastAssumption, CastBits
<1>2. 2 ^ bits = 2 * 2 ^ (bits - 1) /\ 2 ^ WordBits = 2 * 2 ^ (WordBits - 1)
  BY <1>1 DEF Casts!CastAssumption, Casts!PowersAssumption
<1>3. \A n \in 0 .. WordBits : 2 ^ n \in Nat /\ 2 ^ n >= 1 /\ 2 ^ n <= 2 ^ WordBits
  BY Powers
<1>4. /\ 2 ^ bits \in Nat /\ 2 ^ bits >= 1 /\ 2 ^ bits <= 2 ^ WordBits
      /\ 2 ^ (bits - 1) \in Nat /\ 2 ^ (bits - 1) >= 1 /\ 2 ^ (WordBits - 1) \in Nat
  BY <1>1, <1>3
<1> QED BY <1>1, <1>2, <1>4

LEMMA InitCasts == ASSUME Casts!Init PROVE CastsInv
  BY DEF Casts!Init, CastsInv, CastBits

\* A cast of what the value is to what it is keeps the invariant, if it fits only
\* where the value has a place.
LEMMA CastGoes ==
    ASSUME CastsInv, NEW fits, NEW result, NEW bits \in CastBits, NEW signed \in BOOLEAN,
           Casts!Cast(fits, result, Casts!Type(bits, signed)),
           fits => result = value /\ value \in Casts!ValuesOf(Casts!Type(bits, signed)),
           ~fits => value \notin Casts!ValuesOf(Casts!Type(bits, signed))
    PROVE  CastsInv'
<1> DEFINE new == Casts!Type(bits, signed)
<1>1. refused' = new /\ UNCHANGED start
  BY DEF Casts!Cast
<1>2. \A t : (Casts!ValuesOf(t))' = Casts!ValuesOf(t')
  BY DEF Casts!ValuesOf, Casts!Ints, Casts!Uints, Casts!IntMin, Casts!IntMax, Casts!UintMax
<1> HIDE DEF new
<1>3. CASE fits
  <2>1. value' = value /\ type' = new /\ value \in Casts!ValuesOf(new)
    BY <1>3 DEF Casts!Cast, new
  <2>2. \E b \in CastBits, s \in BOOLEAN : type' = Casts!Type(b, s)
    BY <2>1 DEF new
  <2> QED BY <1>1, <2>1, <2>2 DEF CastsInv
<1>4. CASE ~fits
  <2>1. UNCHANGED <<value, type>> /\ value \notin Casts!ValuesOf(new)
    BY <1>4 DEF Casts!Cast, new
  <2> QED BY <1>1, <2>1 DEF CastsInv
<1> QED BY <1>3, <1>4

LEMMA StepCasts ==
    ASSUME Casts!CastAssumption, CastsInv, [Casts!Next]_(Casts!vars)
    PROVE  CastsInv'
<1> DEFINE w == WordBits
<1>1. w \in CastBits /\ Lengths \subseteq CastBits
  BY DEF CastBits
<1>2. /\ Casts!Word(FALSE) => value \in 0 .. 2 ^ w - 1
      /\ Casts!Word(TRUE) => value \in -(2 ^ (w - 1)) .. 2 ^ (w - 1) - 1
  BY TypeValues DEF CastsInv, Casts!Word, Casts!Uints, Casts!UintMax,
                    Casts!Ints, Casts!IntMin, Casts!IntMax
<1>3. \A bits : /\ Casts!Uints(bits) = 0 .. 2 ^ bits - 1
                /\ Casts!Ints(bits) = -(2 ^ (bits - 1)) .. 2 ^ (bits - 1) - 1
                /\ \A x : Casts!AsUint(bits, x) = x % 2 ^ bits
  BY DEF Casts!Uints, Casts!UintMax, Casts!Ints, Casts!IntMin, Casts!IntMax, Casts!AsUint
<1>4. \A m \in Nat : m >= 1 => \A x \in 0 .. m - 1 : x % m = x
  BY Remainders
<1>5. ASSUME NEW narrow \in Lengths, Casts!toUintDownCast(narrow) PROVE CastsInv'
  <2> DEFINE fits == Casts!ToUintFits(narrow, value)
  <2>1. /\ Casts!Word(FALSE)
        /\ Casts!Cast(fits, Casts!ToUint(narrow, value), Casts!Type(narrow, FALSE))
    BY <1>5 DEF Casts!toUintDownCast
  <2>2. value \in Nat /\ 2 ^ narrow \in Nat /\ 2 ^ narrow >= 1
    BY <1>1, <1>2, <2>1, Widths
  <2>3. fits <=> value \in 0 .. 2 ^ narrow - 1
    BY <2>2 DEF Casts!ToUintFits, Casts!UintMax
  <2>4. fits => Casts!ToUint(narrow, value) = value
    <3>1. Casts!ToUint(narrow, value) = value % 2 ^ narrow
      BY <1>3 DEF Casts!ToUint
    <3> QED BY <1>4, <2>2, <2>3, <3>1
  <2>5. narrow \in CastBits /\ FALSE \in BOOLEAN
        /\ Casts!ValuesOf(Casts!Type(narrow, FALSE)) = 0 .. 2 ^ narrow - 1
    BY <1>1, <1>3, TypeValues
  <2> HIDE DEF fits
  <2> QED BY <2>1, <2>3, <2>4, <2>5, CastGoes
<1>6. ASSUME NEW narrow \in Lengths, Casts!toIntDownCast(narrow) PROVE CastsInv'
  <2> DEFINE fits == Casts!DownCastFits(narrow, value)
  <2>1. /\ Casts!Word(TRUE)
        /\ Casts!Cast(fits, Casts!DownCast(narrow, value), Casts!Type(narrow, TRUE))
    BY <1>6 DEF Casts!toIntDownCast
  <2>2. /\ Casts!AsInt(narrow, value) \in Casts!Ints(narrow)
        /\ value \in Casts!Ints(narrow) => Casts!AsInt(narrow, value) = value
    <3>1. value \in Int
      BY <1>1, <1>2, <2>1, Widths
    <3> QED BY <3>1, <1>1, Widths, SignedBits
  <2>3. fits <=> Casts!AsInt(narrow, value) = value
    BY DEF Casts!DownCastFits
  <2>4. fits => Casts!DownCast(narrow, value) = value
    BY <2>3 DEF Casts!DownCast
  <2>5. narrow \in CastBits /\ TRUE \in BOOLEAN
        /\ Casts!ValuesOf(Casts!Type(narrow, TRUE)) = Casts!Ints(narrow)
    BY <1>1, TypeValues
  <2> HIDE DEF fits
  <2> QED BY <2>1, <2>2, <2>3, <2>4, <2>5, CastGoes
<1>7. ASSUME Casts!toUint PROVE CastsInv'
  <2> DEFINE fits == Casts!ToUnsignedFits(w, value)
  <2>1. /\ Casts!Word(TRUE)
        /\ Casts!Cast(fits, Casts!ToUnsigned(w, value), Casts!Type(w, FALSE))
    BY <1>7 DEF Casts!toUint
  <2>2. /\ value \in Int /\ value <= 2 ^ w - 1 /\ 2 ^ w \in Nat /\ 2 ^ w >= 1
    BY <1>1, <1>2, <2>1, Widths
  <2>3. fits <=> value \in 0 .. 2 ^ w - 1
    BY <2>2 DEF Casts!ToUnsignedFits
  <2>4. fits => Casts!ToUnsigned(w, value) = value
    <3>1. Casts!ToUnsigned(w, value) = value % 2 ^ w
      BY <1>3 DEF Casts!ToUnsigned
    <3> QED BY <1>4, <2>2, <2>3, <3>1
  <2>5. w \in CastBits /\ FALSE \in BOOLEAN
        /\ Casts!ValuesOf(Casts!Type(w, FALSE)) = 0 .. 2 ^ w - 1
    BY <1>1, <1>3, TypeValues
  <2> HIDE DEF fits
  <2> QED BY <2>1, <2>3, <2>4, <2>5, CastGoes
<1>8. ASSUME Casts!toInt PROVE CastsInv'
  <2> DEFINE fits == Casts!ToSignedFits(w, value)
             most == 2 ^ (w - 1) - 1
  <2>1. /\ Casts!Word(FALSE)
        /\ Casts!Cast(fits, Casts!ToSigned(w, value), Casts!Type(w, TRUE))
    BY <1>8 DEF Casts!toInt
  <2>2. /\ value \in Nat /\ most \in 0 .. 2 ^ w - 1 /\ 2 ^ w \in Nat /\ 2 ^ w >= 1
        /\ 2 ^ (w - 1) \in Nat
    BY <1>1, <1>2, <2>1, Widths
  <2>3. fits <=> value <= most
    <3>1. most % 2 ^ w = most
      <4> HIDE DEF most
      <4> QED BY <1>4, <2>2
    <3> QED BY <3>1, <1>3 DEF Casts!ToSignedFits, Casts!IntMax
  <2>4. fits <=> value \in Casts!Ints(w)
    <3> DEFINE h == 2 ^ (w - 1)
    <3>1. Casts!Ints(w) = -h .. h - 1
      BY DEF Casts!Ints, Casts!IntMin, Casts!IntMax
    <3>2. value \in Nat /\ h \in Nat /\ (fits <=> value <= h - 1)
      BY <2>2, <2>3
    <3> HIDE DEF fits, h
    <3> QED BY <3>1, <3>2
  <2>5. fits => Casts!ToSigned(w, value) = value
    <3>1. /\ value \in Int /\ 2 ^ w \in Nat /\ 2 ^ (w - 1) \in Nat /\ 2 ^ w = 2 * 2 ^ (w - 1)
          /\ 2 ^ (w - 1) >= 1
      BY <2>2, <1>1, Widths
    <3>2. value \in Casts!Ints(w) => Casts!AsInt(w, value) = value
      BY <3>1, SignedBits
    <3> QED BY <2>4, <3>2 DEF Casts!ToSigned
  <2>6. w \in CastBits /\ TRUE \in BOOLEAN
        /\ Casts!ValuesOf(Casts!Type(w, TRUE)) = Casts!Ints(w)
    BY <1>1, TypeValues
  <2> HIDE DEF fits
  <2> QED BY <2>1, <2>4, <2>5, <2>6, CastGoes
<1>9. ASSUME Casts!Widens PROVE CastsInv'
  <2>1. PICK bits \in CastBits, signed \in BOOLEAN : type = Casts!Type(bits, signed)
    BY DEF CastsInv
  <2>2. /\ type' = Casts!Type(w, signed) /\ refused' = type' /\ UNCHANGED <<start, value>>
    BY <1>9, <2>1, TypeValues DEF Casts!Widens
  <2>3. value \in Casts!ValuesOf(Casts!Type(w, signed))
    <3>1. /\ 2 ^ bits \in Nat /\ 2 ^ w \in Nat /\ 2 ^ bits <= 2 ^ w
          /\ 2 ^ (bits - 1) \in Nat /\ 2 ^ (w - 1) \in Nat /\ 2 ^ (bits - 1) <= 2 ^ (w - 1)
      BY <1>1, Widths
    <3>2. CASE signed = TRUE
      <4>1. value \in -(2 ^ (bits - 1)) .. 2 ^ (bits - 1) - 1
        BY <2>1, <3>2, <1>3, TypeValues DEF CastsInv
      <4>2. value \in -(2 ^ (w - 1)) .. 2 ^ (w - 1) - 1
        BY <3>1, <4>1
      <4> QED BY <4>2, <3>2, <1>3, TypeValues
    <3>3. CASE signed = FALSE
      <4>1. value \in 0 .. 2 ^ bits - 1
        BY <2>1, <3>3, <1>3, TypeValues DEF CastsInv
      <4>2. value \in 0 .. 2 ^ w - 1
        BY <3>1, <4>1
      <4> QED BY <4>2, <3>3, <1>3, TypeValues
    <3> QED BY <3>2, <3>3
  <2>4. \E b \in CastBits, s \in BOOLEAN : type' = Casts!Type(b, s)
    BY <1>1, <2>2
  <2> QED BY <2>2, <2>3, <2>4 DEF CastsInv
<1>10. CASE UNCHANGED Casts!vars
  BY <1>10 DEF Casts!vars, CastsInv
<1> QED BY <1>5, <1>6, <1>7, <1>8, <1>9, <1>10 DEF Casts!Next

-----------------------------------------------------------------------------
(* All the contracts                                                       *)

\* Each keeps its own invariant, whichever is called.
MockInv ==
    /\ SetInv /\ HistoryInv /\ MapInv /\ RolesInv /\ TraceInv
    /\ tested = "casts" => CastsInv

LEMMA MockAssumptions ==
    HistoryAssumption /\ Casts!CastAssumption /\ Trace!TraceAssumption
  BY GeneratedAssumption

LEMMA InitMock == MockInit => MockInv
<1> SUFFICES ASSUME MockInit PROVE MockInv
  OBVIOUS
<1>1. /\ Init /\ HistoryInit /\ Map!Init /\ Roles!Init /\ Trace!Init
      /\ tested = "casts" => Casts!Init
  BY DEF MockInit
<1> QED BY <1>1, MockAssumptions, InitSet, InitHistory, InitMap, InitRoles, InitTrace, InitCasts
        DEF MockInv

\* A step of the contracts is a step, or none, of each of them.
LEMMA MockSteps ==
    ASSUME [MockNext]_mockVars
    PROVE  /\ UNCHANGED tested
           /\ [Next]_vars /\ [HistoryNext]_historyVars
           /\ [Map!Next]_(Map!vars) /\ [Roles!Next]_(Roles!vars) /\ [Trace!Next]_(Trace!vars)
           /\ tested = "casts" => [Casts!Next]_(Casts!vars)
<1>1. /\ UNCHANGED tested
      /\ Next \/ UNCHANGED vars
      /\ HistoryNext \/ UNCHANGED historyVars
      /\ Map!Next \/ UNCHANGED mapVars
      /\ Roles!Next \/ UNCHANGED rolesVars
      /\ Trace!Next \/ UNCHANGED traceVars
      /\ tested = "casts" => Casts!Next \/ UNCHANGED castsVars
  BY DEF MockNext, mockVars
<1> QED BY <1>1
        DEF mapVars, Map!vars, rolesVars, Roles!vars, traceVars, Trace!vars, castsVars, Casts!vars

LEMMA StepMock == MockInv /\ [MockNext]_mockVars => MockInv'
<1> SUFFICES ASSUME MockInv, [MockNext]_mockVars PROVE MockInv'
  OBVIOUS
<1>1. SetInv' /\ HistoryInv' /\ MapInv'
  BY MockSteps, MockAssumptions, StepSet, StepHistory, StepMap DEF MockInv
<1>2. RolesInv' /\ TraceInv' /\ UNCHANGED tested
  BY MockSteps, MockAssumptions, StepRoles, StepTrace DEF MockInv
<1>3. tested = "casts" => CastsInv'
  BY MockSteps, MockAssumptions, StepCasts DEF MockInv
<1> QED BY <1>1, <1>2, <1>3 DEF MockInv

THEOREM MockInvariant == MockSpec => []MockInv
  BY InitMock, StepMock, PTL DEF MockSpec

\* Every variable of every generated contract has its type, whatever is called.
THEOREM MockTypeCorrect == MockSpec => []MockTypeOK
<1>1. ASSUME MockInv PROVE MockTypeOK
  <2>1. SetInv => TypeOK
    BY SetTyped
  <2>2. HistoryInv => HistoryTypeOK
    BY DEF HistoryInv, KeptCheckpoints, Fits, AnySearch, SearchType, HistoryTypeOK, Idle
  <2> QED BY <1>1, <2>1, <2>2, MockAssumptions, MapGood, RolesGood, TraceGood
          DEF MockInv, MockTypeOK
<1> QED BY <1>1, MockInvariant, PTL

\* A key that was removed, or never set, has no value left in storage, so that a
\* later read of it cannot see an old one (EnumerableMap.js:96-99).
THEOREM NothingLeftBehind == MockSpec => []AbsentIsZero
<1>1. MockInv => AbsentIsZero
  BY MapGood DEF MockInv, AbsentIsZero
<1> QED BY <1>1, MockInvariant, PTL

\* The map implements the promise of one: sets, removals, the three kinds of reads
\* and the enumeration answer as a function from keys to values does, for any
\* types of key and value (EnumerableMap.js:187-267).
THEOREM ImplementsMap == MockSpec => IsAMap
<1>1. MockInit => Map!Promise!Init
  BY InitMapPromise DEF MockInit
<1>2. MockInv /\ [MockNext]_mockVars => [Map!Promise!Next]_(Map!Promise!vars)
  BY MockSteps, StepMapPromise DEF MockInv
<1>3. MockSpec => Map!Promise!Spec
  BY <1>1, <1>2, MockInvariant, PTL DEF MockSpec, Map!Promise!Spec
<1> QED BY <1>3 DEF IsAMap, Map!IsAMap

\* The two records that AccessControlEnumerable keeps of a role's members agree,
\* after any grants and revocations (AccessControlEnumerable.sol:52-63).
THEOREM RolesAgree == MockSpec => []RecordsAgree
<1>1. MockInv => RecordsAgree
  BY RolesGood DEF MockInv, RecordsAgree
<1> QED BY <1>1, MockInvariant, PTL

\* A reader who goes through the members from the last to the first is told of
\* every one who is a member throughout, although grants and revocations between
\* its calls move members to other places (AccessControlEnumerable.sol:32).
THEOREM SteadyMembersTold == MockSpec => []SteadyMembersSeen
<1>1. MockInv => SteadyMembersSeen
  BY RolesGood DEF MockInv, SteadyMembersSeen
<1> QED BY <1>1, MockInvariant, PTL

\* Through any sequence of casts and any widths a value stays what it was, and a
\* cast fails only where the value has no place (SafeCast.js:70-73).
THEOREM CastsAlwaysExact == MockSpec => []CastsExact
<1>1. MockInv => CastsExact
  BY DEF MockInv, CastsInv, CastsExact, Casts!CastsExact
<1> QED BY <1>1, MockInvariant, PTL

\* The lower and the upper lookup find the first value from a key on and the last
\* one up to it, in a trace of any length (Checkpoints.js:49, 58); the latest
\* checkpoint is that of the largest key, and `length` counts every key once.
THEOREM LookupsAlwaysRight == MockSpec => []LookupsRight
<1>1. MockInv => LookupsRight
  BY MockAssumptions, TraceGood DEF MockInv, LookupsRight
<1> QED BY <1>1, MockInvariant, PTL

\* No push changes what an upper lookup finds below the last key, nor what a lower
\* lookup finds up to the last key but one, although a push for the last key
\* overwrites the checkpoint that is there (Checkpoints.js:177-202).
THEOREM PastStaysFixed == MockSpec => PastFixed
<1>1. MockInv /\ [MockNext]_mockVars => [Trace!PastSettled]_(Trace!vars)
  BY MockSteps, MockAssumptions, StepTrace DEF MockInv
<1> QED BY <1>1, MockInvariant, PTL DEF MockSpec, PastFixed, Trace!PastFixed

\* No contract disturbs another: what is proved of one alone holds of them together.
THEOREM EachOnItsOwn ==
    MockSpec => Spec /\ HistorySpec /\ Map!Spec /\ Roles!Spec /\ Trace!Spec
<1>1. MockInit => Init /\ HistoryInit /\ Map!Init /\ Roles!Init /\ Trace!Init
  BY DEF MockInit
<1>2. [MockNext]_mockVars =>
         /\ [Next]_vars /\ [HistoryNext]_historyVars
         /\ [Map!Next]_(Map!vars) /\ [Roles!Next]_(Roles!vars) /\ [Trace!Next]_(Trace!vars)
  BY MockSteps
<1> QED BY <1>1, <1>2, PTL
        DEF MockSpec, Spec, HistorySpec, Map!Spec, Roles!Spec, Trace!Spec
=============================================================================
