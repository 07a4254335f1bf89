------------------------ MODULE MigrateImportsProofs ------------------------
(***************************************************************************)
(* Theorems about MigrateImports, for every table of paths, every set of   *)
(* files and every sequence of runs that are cut off.                      *)
(*                                                                         *)
(* updateImportPaths folds the table over a text.  The fold is a CHOOSE of *)
(* a function on the sets of places in the table, so it is first shown to  *)
(* exist (FoldExists, by well-founded induction on the last place), then   *)
(* unrolled to the texts in between (Replacements), and from them follows  *)
(* what an update does (Updated).  The invariant relates what is in a file *)
(* to what was in it before the first run.                                 *)
(***************************************************************************)
EXTENDS MigrateImports, FiniteSetTheorems, SequenceTheorems, WellFoundedInduction, TLAPS

\* Replacing the old path of the i-th pair.
Update(text, i) == ReplaceFirst(text, pathUpdates[i][1], pathUpdates[i][2])

\* g computes, on every set of places in the table, the fold that updateImportPaths is.
IsFold(g, source, S) ==
    g = [s \in SUBSET S |->
            IF s = {} THEN source ELSE Update(g[s \ {Max(s)}], Max(s))]

LEMMA UpdateIsFold ==
    ASSUME NEW source
    PROVE  updateImportPaths(source)
           = (CHOOSE g : IsFold(g, source, DOMAIN pathUpdates))[DOMAIN pathUpdates]
  BY DEF updateImportPaths, FoldLeft, MapThenFoldSet, IsFold, Update

-----------------------------------------------------------------------------
(* The table                                                               *)

OldAt(i) == pathUpdates[i][1]
NewAt(i) == pathUpdates[i][2]
Entries == DOMAIN pathUpdates

LEMMA Table ==
    /\ Len(pathUpdates) \in Nat /\ Entries = 1 .. Len(pathUpdates) /\ IsFiniteSet(Entries)
    /\ \A i \in Entries : /\ OldAt(i) \in OldPaths /\ NewAt(i) \in NewPaths
                          /\ NewOf(OldAt(i)) = NewAt(i)
                          /\ OldAt(i) \in Paths /\ NewAt(i) \in Paths
    /\ \A path \in OldPaths : \E i \in Entries : OldAt(i) = path
    /\ \A path \in OldPaths : NewOf(path) \in NewPaths
    /\ OldPaths \cap NewPaths = {}
<1>1. /\ pathUpdates \in Seq(Paths \X Paths) /\ OldPaths \cap NewPaths = {}
      /\ \A i, j \in Entries : OldAt(i) = OldAt(j) => i = j
  BY TableAssumption DEF Entries, OldAt
<1>2. Len(pathUpdates) \in Nat /\ Entries = 1 .. Len(pathUpdates)
  BY <1>1 DEF Entries
<1>3. \A i \in Entries : pathUpdates[i] \in Paths \X Paths
  BY <1>1, <1>2
<1>4. ASSUME NEW i \in Entries PROVE NewOf(OldAt(i)) = NewAt(i)
  <2> DEFINE Same(j) == pathUpdates[j][1] = OldAt(i)
  <2>1. i \in DOMAIN pathUpdates /\ Same(i)
    BY DEF OldAt, Entries
  <2>2. \A j \in DOMAIN pathUpdates : Same(j) => j = i
    BY <1>1 DEF OldAt, Entries
  <2>3. (CHOOSE j \in DOMAIN pathUpdates : Same(j)) = i
    <3> HIDE DEF Same
    <3> QED BY <2>1, <2>2
  <2> QED BY <2>3 DEF NewOf, NewAt
<1>5. \A i \in Entries : OldAt(i) \in OldPaths /\ NewAt(i) \in NewPaths
  BY DEF Entries, OldAt, NewAt, OldPaths, NewPaths
<1>6. \A path \in OldPaths : \E i \in Entries : OldAt(i) = path
  BY DEF Entries, OldAt, OldPaths
<1>7. \A path \in OldPaths : NewOf(path) \in NewPaths
  BY <1>4, <1>5, <1>6
<1>8. IsFiniteSet(Entries)
  BY <1>2, FS_Interval
<1> QED BY <1>1, <1>2, <1>3, <1>4, <1>5, <1>6, <1>7, <1>8 DEF OldAt, NewAt

-----------------------------------------------------------------------------
(* What the fold over the table computes                                   *)

\* The last place of a set of places is one of them.
LEMMA LastIn == ASSUME NEW s \in SUBSET Entries, s # {} PROVE Max(s) \in s
<1> DEFINE n == Len(pathUpdates)
           Left == {n - x : x \in s}
           R == OpToRel(<, Nat)
<1>1. n \in Nat /\ s \subseteq 1 .. n
  BY Table
<1> HIDE DEF n
<1>2. Left \subseteq Nat /\ Left # {}
  <2>1. \A x \in s : n - x \in Nat
    BY <1>1
  <2> QED BY <2>1
<1>3. PICK m \in Left : \A x \in Left : <<x, m>> \notin R
  <2>1. IsWellFoundedOn(R, Nat)
    BY NatLessThanWellFounded DEF R
  <2> HIDE DEF Left, R
  <2> QED BY <1>2, <2>1, WFMin
<1>4. \A x \in Left : ~(x < m)
  BY <1>2, <1>3 DEF OpToRel
<1>5. PICK x \in s : m = n - x
  OBVIOUS
<1>6. \A y \in s : n - y \in Left
  OBVIOUS
<1>7. ASSUME NEW y \in s PROVE x >= y
  <2>1. ~(n - y < n - x)
    BY <1>4, <1>5, <1>6
  <2> QED BY <1>1, <2>1
<1> QED BY <1>7 DEF Max

LEMMA LastIs ==
    ASSUME NEW k \in Int, NEW s, s \subseteq Int, k \in s, \A x \in s : x <= k
    PROVE  Max(s) = k
<1>1. \A x \in s : (\A y \in s : x >= y) => x = k
  OBVIOUS
<1>2. \A y \in s : k >= y
  OBVIOUS
<1> QED BY <1>1, <1>2 DEF Max

\* The fold is defined: up to the k-th place, from what it is up to the one before.
LEMMA FoldExists == ASSUME NEW source PROVE \E g : IsFold(g, source, Entries)
<1> DEFINE n == Len(pathUpdates)
           Bad == {k \in Nat : k <= n /\ ~ \E g : IsFold(g, source, 1 .. k)}
           R == OpToRel(<, Nat)
<1>1. n \in Nat /\ Entries = 1 .. n
  BY Table
<1> HIDE DEF n
<1>2. SUFFICES ASSUME Bad # {} PROVE FALSE
  BY <1>1
<1>3. PICK k \in Bad : \A x \in Bad : <<x, k>> \notin R
  <2>1. IsWellFoundedOn(R, Nat)
    BY NatLessThanWellFounded DEF R
  <2>2. Bad \subseteq Nat
    OBVIOUS
  <2> HIDE DEF Bad, R
  <2> QED BY <1>2, <2>1, <2>2, WFMin
<1>4. \A x \in Bad : ~(x < k)
  BY <1>3 DEF OpToRel
<1>5. CASE k = 0
  <2> DEFINE g == [s \in SUBSET (1 .. 0) |-> source]
  <2>1. \A s \in SUBSET (1 .. 0) : s = {}
    OBVIOUS
  <2>2. IsFold(g, source, 1 .. 0)
    BY <2>1 DEF IsFold
  <2> QED BY <1>5, <2>2
<1>6. CASE k # 0
  <2>1. /\ k \in Nat /\ k <= n /\ k \in 1 .. k /\ k - 1 \in Nat /\ k - 1 < k /\ k - 1 <= n
        /\ 1 .. k \subseteq Entries /\ 1 .. k - 1 \subseteq 1 .. k /\ 1 .. k - 1 = (1 .. k) \ {k}
    BY <1>1, <1>6
  <2>2. PICK g : IsFold(g, source, 1 .. k - 1)
    <3>1. k - 1 \notin Bad
      <4> HIDE DEF Bad
      <4> QED BY <1>4, <2>1
    <3> QED BY <2>1, <3>1
  <2>3. \A s \in SUBSET (1 .. k - 1) :
           g[s] = IF s = {} THEN source ELSE Update(g[s \ {Max(s)}], Max(s))
    BY <2>2 DEF IsFold
  <2> DEFINE h == [s \in SUBSET (1 .. k) |-> IF k \in s THEN Update(g[s \ {k}], k) ELSE g[s]]
  <2>4. ASSUME NEW s \in SUBSET (1 .. k)
        PROVE  h[s] = IF s = {} THEN source ELSE Update(h[s \ {Max(s)}], Max(s))
    <3>1. CASE k \in s
      <4>1. Max(s) = k
        <5>1. k \in Int /\ s \subseteq Int /\ \A x \in s : x <= k
          BY <2>1
        <5> QED BY <3>1, <5>1, LastIs
      <4>2. h[s] = Update(g[s \ {k}], k) /\ h[s \ {k}] = g[s \ {k}]
        BY <2>1, <3>1
      <4> HIDE DEF h
      <4> QED BY <3>1, <4>1, <4>2
    <3>2. CASE k \notin s
      <4>1. s \in SUBSET (1 .. k - 1) /\ s \in SUBSET Entries /\ h[s] = g[s]
        BY <2>1, <3>2
      <4>2. s \ {Max(s)} \in SUBSET (1 .. k) /\ k \notin s \ {Max(s)}
        BY <3>2
      <4>3. h[s \ {Max(s)}] = g[s \ {Max(s)}]
        BY <4>2
      <4> HIDE DEF h
      <4> QED BY <2>3, <4>1, <4>3
    <3> QED BY <3>1, <3>2
  <2>5. h = [s \in SUBSET (1 .. k) |-> h[s]]
    OBVIOUS
  <2> HIDE DEF h
  <2>6. IsFold(h, source, 1 .. k)
    BY <2>4, <2>5 DEF IsFold
  <2> QED BY <2>6
<1> QED BY <1>5, <1>6

\* What becomes of a text, pair after pair of the table.
LEMMA Replacements ==
    ASSUME NEW source
    PROVE  \E text : /\ text[0] = source
                     /\ \A k \in Entries : text[k] = Update(text[k - 1], k)
                     /\ updateImportPaths(source) = text[Len(pathUpdates)]
<1> DEFINE n == Len(pathUpdates)
           g == CHOOSE f : IsFold(f, source, Entries)
           text == [k \in 0 .. n |-> g[1 .. k]]
<1>1. n \in Nat /\ Entries = 1 .. n
  BY Table
<1>2. IsFold(g, source, Entries) /\ updateImportPaths(source) = g[Entries]
  BY FoldExists, UpdateIsFold DEF Entries
<1> HIDE DEF n, g
<1>3. \A s \in SUBSET Entries :
         g[s] = IF s = {} THEN source ELSE Update(g[s \ {Max(s)}], Max(s))
  BY <1>2 DEF IsFold
<1>4. text[0] = source
  <2>1. 1 .. 0 = {} /\ 0 \in 0 .. n
    BY <1>1
  <2>2. g[{}] = source
    BY <1>3
  <2> QED BY <2>1, <2>2
<1>5. ASSUME NEW k \in Entries PROVE text[k] = Update(text[k - 1], k)
  <2> DEFINE s == 1 .. k
  <2>1. k \in 1 .. n
    BY <1>1
  <2>2. k \in Int /\ k \in 0 .. n /\ k - 1 \in 0 .. n
    BY <1>1, <2>1
  <2>3. \A x : x \in s => x \in Int /\ x <= k /\ x \in 1 .. n
    BY <1>1, <2>1
  <2>4. k \in s
    BY <1>1, <2>1
  <2>5. s \ {k} = 1 .. k - 1
    BY <1>1, <2>1
  <2>6. s \in SUBSET Entries
    <3> HIDE DEF s
    <3> QED BY <1>1, <2>3
  <2>7. Max(s) = k
    <3> HIDE DEF s
    <3>1. s \subseteq Int /\ \A x \in s : x <= k
      BY <2>3
    <3> QED BY <2>2, <2>4, <3>1, LastIs
  <2>8. g[s] = Update(g[s \ {k}], k)
    <3> HIDE DEF s
    <3> QED BY <1>3, <2>4, <2>6, <2>7
  <2>9. text[k] = g[s] /\ text[k - 1] = g[1 .. k - 1]
    BY <2>2
  <2> HIDE DEF s, text
  <2> QED BY <2>5, <2>8, <2>9
<1>6. updateImportPaths(source) = text[n]
  BY <1>1, <1>2
<1> HIDE DEF text
<1> QED BY <1>4, <1>5, <1>6 DEF n

-----------------------------------------------------------------------------
(* What an update of a text does                                           *)

\* After, in the place of an old path before, is that path or its new one.
Follows(before, after) ==
    \/ after = before
    \/ before \in OldPaths /\ after = NewOf(before)

\* One pair of the table, applied to a text that came of a source.
LEMMA OnePair ==
    ASSUME NEW source, DOMAIN source \subseteq Int,
           NEW text, DOMAIN text = DOMAIN source, NEW k \in Entries,
           \A i \in DOMAIN source : Follows(source[i], text[i])
    PROVE  /\ DOMAIN Update(text, k) = DOMAIN source
           /\ Update(text, k) = [i \in DOMAIN source |-> Update(text, k)[i]]
           /\ \A i \in DOMAIN source : Follows(source[i], Update(text, k)[i])
           /\ \A i \in DOMAIN source : Update(text, k)[i] \in {text[i], NewAt(k)}
           /\ Once(source) => \A i \in DOMAIN source : Update(text, k)[i] # OldAt(k)
<1> DEFINE found == {i \in DOMAIN text : text[i] = OldAt(k)}
           First(i) == i \in found /\ \A j \in found : i <= j
           after == Update(text, k)
<1>1. after = [i \in DOMAIN source |-> IF First(i) THEN NewAt(k) ELSE text[i]]
  BY DEF Update, ReplaceFirst, OldAt, NewAt
<1>2. /\ OldAt(k) \in OldPaths /\ NewAt(k) \in NewPaths /\ NewOf(OldAt(k)) = NewAt(k)
      /\ \A path \in OldPaths : NewOf(path) \in NewPaths
      /\ OldPaths \cap NewPaths = {}
  BY Table
<1>3. ASSUME NEW i \in found PROVE i \in DOMAIN source /\ source[i] = OldAt(k)
  BY <1>2 DEF Follows
<1>4. \A i \in DOMAIN source : after[i] = IF First(i) THEN NewAt(k) ELSE text[i]
  <2> HIDE DEF after, First
  <2> QED BY <1>1
<1>5. \A i : First(i) => i \in found
  OBVIOUS
<1>6. ASSUME NEW i \in DOMAIN source PROVE Follows(source[i], after[i])
  <2> HIDE DEF after, First, found
  <2>1. CASE First(i)
    BY <1>2, <1>3, <1>4, <1>5, <2>1 DEF Follows
  <2>2. CASE ~First(i)
    BY <1>4, <2>2
  <2> QED BY <2>1, <2>2
<1>7. ASSUME Once(source), NEW i \in DOMAIN source PROVE after[i] # OldAt(k)
  <2>1. CASE First(i)
    <3> HIDE DEF after, First, found
    <3> QED BY <1>2, <1>4, <2>1
  <2>2. CASE i \notin found
    <3>1. text[i] # OldAt(k) /\ ~First(i)
      BY <2>2
    <3> HIDE DEF after, First, found
    <3> QED BY <1>4, <3>1
  <2>3. CASE i \in found
    <3>1. ASSUME NEW j \in found PROVE j = i
      BY <1>2, <1>3, <1>7, <2>3 DEF Once
    <3>2. i \in Int
      OBVIOUS
    <3>3. First(i)
      BY <2>3, <3>1, <3>2
    <3> QED BY <2>1, <3>3
  <2> QED BY <2>2, <2>3
<1>8. \A i \in DOMAIN source : after[i] \in {text[i], NewAt(k)}
  <2> HIDE DEF after, First
  <2> QED BY <1>4
<1>9. after = [i \in DOMAIN source |-> after[i]] /\ DOMAIN after = DOMAIN source
  <2> HIDE DEF First
  <2> QED BY <1>1, Zenon
<1> HIDE DEF after
<1> QED BY <1>6, <1>7, <1>8, <1>9 DEF after

\* The text of a source is one.
LEMMA SourceFields ==
    ASSUME NEW source \in Sources
    PROVE  /\ Len(source) \in 0 .. MaxImports /\ DOMAIN source = 1 .. Len(source)
           /\ source \in [1 .. Len(source) -> Paths] /\ source \in Seq(Paths)
<1>1. PICK n \in 0 .. MaxImports : source \in [1 .. n -> Paths]
  BY DEF Sources
<1>2. n \in Nat
  BY <1>1, BoundsAssumption
<1>3. Len(source) = n /\ source \in Seq(Paths)
  BY <1>1, <1>2
<1> QED BY <1>1, <1>3

LEMMA IsSource ==
    ASSUME NEW n \in 0 .. MaxImports, NEW source \in [1 .. n -> Paths]
    PROVE  source \in Sources /\ Len(source) = n
<1>1. n \in Nat
  BY BoundsAssumption
<1> QED BY <1>1 DEF Sources

\* What updateImportPaths returns: each path is as it was or the new one, in
\* its place, and no old path is left if each was there once.
LEMMA Updated ==
    ASSUME NEW source \in Sources
    PROVE  /\ updateImportPaths(source) \in Sources
           /\ Len(updateImportPaths(source)) = Len(source)
           /\ DOMAIN updateImportPaths(source) = DOMAIN source
           /\ \A i \in DOMAIN source : Follows(source[i], updateImportPaths(source)[i])
           /\ Once(source) => \A i \in DOMAIN source :
                                 updateImportPaths(source)[i] \notin OldPaths
<1> DEFINE n == Len(pathUpdates)
<1>1. PICK text : /\ text[0] = source
                  /\ \A k \in Entries : text[k] = Update(text[k - 1], k)
                  /\ updateImportPaths(source) = text[n]
  BY Replacements
<1>2. n \in Nat /\ Entries = 1 .. n
  BY Table
<1>3. DOMAIN source = 1 .. Len(source) /\ Len(source) \in 0 .. MaxImports
      /\ source \in [1 .. Len(source) -> Paths] /\ DOMAIN source \subseteq Int
  <2>1. Len(source) \in 0 .. MaxImports /\ DOMAIN source = 1 .. Len(source)
        /\ source \in [1 .. Len(source) -> Paths]
    BY SourceFields
  <2> QED BY <2>1
<1> HIDE DEF n
<1> DEFINE Shape(k) == /\ DOMAIN text[k] = DOMAIN source
                       /\ text[k] = [i \in DOMAIN source |-> text[k][i]]
           Line(k) == \A i \in DOMAIN source : Follows(source[i], text[k][i])
           Rid(k) == \A i \in DOMAIN source, j \in 1 .. k : text[k][i] # OldAt(j)
           Good(k) == Shape(k) /\ Line(k) /\ (Once(source) => Rid(k))
           Bad == {k \in Nat : k <= n /\ ~ Good(k)}
           R == OpToRel(<, Nat)
<1>4. Good(0)
  <2>1. Shape(0) /\ Line(0)
    BY <1>1, <1>3 DEF Follows
  <2>2. Rid(0)
    <3>1. 1 .. 0 = {}
      OBVIOUS
    <3> QED BY <3>1
  <2> HIDE DEF Shape, Line, Rid
  <2> QED BY <2>1, <2>2
<1>5. ASSUME NEW k \in Nat, k # 0, k <= n, Good(k - 1) PROVE Good(k)
  <2>1. k \in Entries /\ k - 1 \in Nat
    BY <1>2, <1>5
  <2>2. Shape(k - 1) /\ Line(k - 1) /\ (Once(source) => Rid(k - 1))
    <3> HIDE DEF Shape, Line, Rid
    <3> QED BY <1>5
  <2>3. text[k] = Update(text[k - 1], k)
    BY <1>1, <2>1
  <2>4. DOMAIN text[k - 1] = DOMAIN source
        /\ \A i \in DOMAIN source : Follows(source[i], text[k - 1][i])
    BY <2>2
  <2>5. /\ DOMAIN text[k] = DOMAIN source
        /\ text[k] = [i \in DOMAIN source |-> text[k][i]]
        /\ \A i \in DOMAIN source : Follows(source[i], text[k][i])
        /\ \A i \in DOMAIN source : text[k][i] \in {text[k - 1][i], NewAt(k)}
        /\ Once(source) => \A i \in DOMAIN source : text[k][i] # OldAt(k)
    <3> DEFINE before == text[k - 1]
    <3>1. /\ DOMAIN before = DOMAIN source
          /\ \A i \in DOMAIN source : Follows(source[i], before[i])
      BY <2>4
    <3> HIDE DEF before
    <3>2. DOMAIN source \subseteq Int
      BY <1>3
    <3>3. /\ DOMAIN Update(before, k) = DOMAIN source
          /\ Update(before, k) = [i \in DOMAIN source |-> Update(before, k)[i]]
          /\ \A i \in DOMAIN source : Follows(source[i], Update(before, k)[i])
          /\ \A i \in DOMAIN source : Update(before, k)[i] \in {before[i], NewAt(k)}
          /\ Once(source) => \A i \in DOMAIN source : Update(before, k)[i] # OldAt(k)
      BY <2>1, <3>1, <3>2, OnePair
    <3>4. text[k] = Update(before, k)
      BY <2>3 DEF before
    <3> QED BY <3>3, <3>4, Zenon DEF before
  <2>6. Shape(k) /\ Line(k)
    BY <2>5
  <2>7. ASSUME Once(source) PROVE Rid(k)
    <3>1. ASSUME NEW i \in DOMAIN source, NEW j \in 1 .. k PROVE text[k][i] # OldAt(j)
      <4>1. CASE j = k
        <5>1. text[k][i] # OldAt(k)
          BY <2>5, <2>7
        <5> QED BY <4>1, <5>1
      <4>2. CASE j # k
        <5>1. j \in 1 .. k - 1 /\ j \in Entries
          BY <1>2, <1>5, <4>2
        <5>2. text[k - 1][i] # OldAt(j)
          BY <2>2, <2>7, <5>1
        <5>3. NewAt(k) # OldAt(j)
          BY <2>1, <5>1, Table
        <5>4. text[k][i] \in {text[k - 1][i], NewAt(k)}
          BY <2>5
        <5> QED BY <5>2, <5>3, <5>4
      <4> QED BY <4>1, <4>2
    <3> QED BY <3>1
  <2> HIDE DEF Shape, Line, Rid
  <2> QED BY <2>6, <2>7
<1>6. Good(n)
  <2>1. SUFFICES ASSUME Bad # {} PROVE FALSE
    <3> HIDE DEF Good
    <3> QED BY <1>2
  <2>2. IsWellFoundedOn(R, Nat)
    BY NatLessThanWellFounded
  <2>3. PICK k \in Bad : \A x \in Bad : <<x, k>> \notin R
    <3>1. Bad \subseteq Nat
      OBVIOUS
    <3> HIDE DEF Bad, R
    <3> QED BY <2>1, <2>2, <3>1, WFMin
  <2> HIDE DEF Good
  <2>4. \A x \in Bad : ~(x < k)
    BY <2>3 DEF OpToRel
  <2>5. k \in Nat /\ k <= n /\ ~Good(k)
    OBVIOUS
  <2>6. k # 0
    BY <1>4, <2>5
  <2>7. k - 1 \in Nat /\ k - 1 < k /\ k - 1 <= n
    BY <1>2, <2>5, <2>6
  <2>8. Good(k - 1)
    BY <2>4, <2>7
  <2> QED BY <1>5, <2>5, <2>6, <2>8
<1> DEFINE result == updateImportPaths(source)
<1>7. result = text[n]
  BY <1>1
<1>8. /\ DOMAIN result = DOMAIN source /\ result = [i \in DOMAIN source |-> result[i]]
      /\ \A i \in DOMAIN source : Follows(source[i], result[i])
      /\ Once(source) => Rid(n)
  <2> HIDE DEF result, Rid
  <2> QED BY <1>6, <1>7
<1>9. Once(source) => \A i \in DOMAIN source : result[i] \notin OldPaths
  <2> HIDE DEF result
  <2>1. \A path \in OldPaths : \E j \in Entries : OldAt(j) = path
    BY Table
  <2> QED BY <1>2, <1>7, <1>8, <2>1
<1>10. \A i \in DOMAIN source : result[i] \in Paths
  <2>1. \A path \in OldPaths : NewOf(path) \in Paths
    <3>1. /\ \A i \in Entries : NewOf(OldAt(i)) = NewAt(i) /\ NewAt(i) \in Paths
          /\ \A path \in OldPaths : \E i \in Entries : OldAt(i) = path
      BY Table
    <3> QED BY <3>1
  <2>2. \A i \in DOMAIN source : source[i] \in Paths
    BY <1>3
  <2> HIDE DEF result
  <2> QED BY <1>8, <2>1, <2>2 DEF Follows
<1>11. result \in [1 .. Len(source) -> Paths]
  <2> HIDE DEF result
  <2> QED BY <1>3, <1>8, <1>10
<1>12. result \in Sources /\ Len(result) = Len(source)
  <2> HIDE DEF result
  <2> QED BY <1>3, <1>11, IsSource
<1> HIDE DEF result
<1> QED BY <1>8, <1>9, <1>12 DEF result

-----------------------------------------------------------------------------
(* What is kept by an update, and by the loss of an end                    *)

\* The text came of what was in the file at first, of which the end may be lost.
CameOf(before, after) ==
    /\ Len(after) <= Len(before)
    /\ \A i \in DOMAIN after : Follows(before[i], after[i])

NoOld(source) == \A i \in DOMAIN source : source[i] \notin OldPaths

LEMMA FollowsOn ==
    ASSUME NEW a, NEW b, NEW c, Follows(a, b), Follows(b, c)
    PROVE  Follows(a, c)
<1>1. \A path \in OldPaths : NewOf(path) \notin OldPaths
  BY Table
<1> QED BY <1>1 DEF Follows

LEMMA CameOnce ==
    ASSUME NEW before \in Sources, NEW after \in Sources, CameOf(before, after),
           Once(before)
    PROVE  Once(after)
<1>1. \A path \in OldPaths : NewOf(path) \notin OldPaths
  BY Table
<1>2. DOMAIN after \subseteq DOMAIN before
  <2>1. /\ Len(after) \in Int /\ Len(before) \in Int /\ Len(after) <= Len(before)
        /\ DOMAIN after = 1 .. Len(after) /\ DOMAIN before = 1 .. Len(before)
    BY SourceFields DEF CameOf
  <2> QED BY <2>1
<1>3. \A i \in DOMAIN after : after[i] \in OldPaths => after[i] = before[i]
  BY <1>1 DEF CameOf, Follows
<1> QED BY <1>2, <1>3 DEF Once

LEMMA CameUpdated ==
    ASSUME NEW before \in Sources, NEW after \in Sources, CameOf(before, after)
    PROVE  CameOf(before, updateImportPaths(after))
<1> DEFINE text == updateImportPaths(after)
<1>1. /\ Len(text) = Len(after) /\ DOMAIN text = DOMAIN after
      /\ \A i \in DOMAIN after : Follows(after[i], text[i])
  BY Updated
<1> HIDE DEF text
<1>2. \A i \in DOMAIN text : Follows(before[i], text[i])
  <2>1. ASSUME NEW i \in DOMAIN text PROVE Follows(before[i], text[i])
    <3>1. Follows(before[i], after[i]) /\ Follows(after[i], text[i])
      BY <1>1 DEF CameOf
    <3> QED BY <3>1, FollowsOn
  <2> QED BY <2>1
<1>3. Len(text) <= Len(before)
  BY <1>1 DEF CameOf
<1> QED BY <1>2, <1>3 DEF CameOf, text

LEMMA PrefixIsSource ==
    ASSUME NEW text \in Sources, NEW n \in 0 .. Len(text) - 1
    PROVE  /\ SubSeq(text, 1, n) \in Sources /\ Len(SubSeq(text, 1, n)) = n
           /\ \A i \in DOMAIN SubSeq(text, 1, n) : SubSeq(text, 1, n)[i] = text[i]
<1> DEFINE part == SubSeq(text, 1, n)
<1>1. /\ Len(text) \in 0 .. MaxImports /\ MaxImports \in Nat /\ text \in Seq(Paths)
      /\ text \in [1 .. Len(text) -> Paths]
  BY SourceFields, BoundsAssumption
<1>2. n \in Nat /\ n <= Len(text) /\ n \in 0 .. MaxImports /\ 1 .. n \subseteq 1 .. Len(text)
  BY <1>1
<1>3. part = [i \in 1 .. n |-> text[i]]
  BY <1>1, <1>2
<1> HIDE DEF part
<1>4. part \in [1 .. n -> Paths] /\ \A i \in DOMAIN part : part[i] = text[i]
  BY <1>1, <1>2, <1>3
<1>5. part \in Sources /\ Len(part) = n
  BY <1>2, <1>4, IsSource
<1> QED BY <1>4, <1>5 DEF part

LEMMA CamePrefix ==
    ASSUME NEW before \in Sources, NEW text \in Sources, CameOf(before, text),
           NEW n \in 0 .. Len(text) - 1
    PROVE  CameOf(before, SubSeq(text, 1, n))
<1> DEFINE part == SubSeq(text, 1, n)
<1>1. /\ part \in Sources /\ Len(part) = n
      /\ \A i \in DOMAIN part : part[i] = text[i]
  BY PrefixIsSource
<1> HIDE DEF part
<1>2. DOMAIN part = 1 .. n /\ DOMAIN text = 1 .. Len(text) /\ Len(text) \in Int
      /\ Len(before) \in Int
  BY <1>1, SourceFields
<1>3. \A i \in DOMAIN part : i \in DOMAIN text
  BY <1>2
<1>4. n <= Len(before)
  BY <1>2 DEF CameOf
<1>5. \A i \in DOMAIN part : Follows(before[i], part[i])
  BY <1>1, <1>3 DEF CameOf
<1> QED BY <1>1, <1>4, <1>5 DEF CameOf, part

-----------------------------------------------------------------------------
(* The inductive invariant                                                 *)

\* The file has no old path left, if it had each of them once.
Done(file) == Once(begun[file]) => NoOld(content[file])

Kinds == runs \in BOOLEAN /\ ended \in BOOLEAN /\ begun \in [Files -> Sources]

\* What is held is the update of what is still in a file that was taken off the queue.
HeldIsUpdate ==
    held # <<>> => /\ runs /\ held[1] \in Files \ queue
                   /\ held[2] = updateImportPaths(content[held[1]])

Kept ==
    \A file \in Files : /\ CameOf(begun[file], content[file])
                        /\ file \in torn \/ Len(content[file]) = Len(begun[file])

\* A run has ended or is on, never both; and what it has dealt with is done.
Progress ==
    /\ ended => ~runs /\ \A file \in Files : Done(file)
    /\ runs => \A file \in Files \ queue : Done(file) \/ (held # <<>> /\ held[1] = file)

MigrateInv == TypeOK /\ Kinds /\ HeldIsUpdate /\ Kept /\ Progress

LEMMA InitMigrate == Init => MigrateInv
<1> SUFFICES ASSUME Init PROVE MigrateInv
  OBVIOUS
<1>1. content \in [Files -> Sources] /\ begun = content /\ queue = {} /\ held = <<>>
      /\ runs = FALSE /\ ended = FALSE /\ crashes = 0 /\ torn = {}
  BY DEF Init
<1>2. TypeOK
  BY <1>1, BoundsAssumption DEF TypeOK
<1>3. Kinds
  BY <1>1 DEF Kinds
<1>4. HeldIsUpdate
  BY <1>1 DEF HeldIsUpdate
<1>5. Kept
  <2>1. ASSUME NEW file \in Files PROVE CameOf(content[file], content[file])
    <3>1. Len(content[file]) \in Int
      BY <1>1, SourceFields
    <3> QED BY <3>1 DEF CameOf, Follows
  <2> QED BY <1>1, <2>1 DEF Kept
<1>6. Progress
  BY <1>1 DEF Progress
<1> QED BY <1>2, <1>3, <1>4, <1>5, <1>6 DEF MigrateInv

LEMMA StepStart == MigrateInv /\ Start => MigrateInv'
<1> SUFFICES ASSUME MigrateInv, Start PROVE MigrateInv'
  OBVIOUS
<1> USE DEF MigrateInv
<1>1. /\ ~runs /\ runs' = TRUE /\ ended' = FALSE /\ queue' = Files
      /\ content' = content /\ held' = held /\ crashes' = crashes /\ begun' = begun /\ torn' = torn
  BY DEF Start
<1>2. held = <<>>
  BY <1>1 DEF HeldIsUpdate
<1>3. TypeOK'
  BY <1>1 DEF TypeOK
<1>4. Kinds'
  BY <1>1 DEF Kinds
<1>5. HeldIsUpdate'
  BY <1>1, <1>2 DEF HeldIsUpdate
<1>6. Kept'
  BY <1>1 DEF Kept
<1>7. Progress'
  BY <1>1 DEF Progress
<1> QED BY <1>3, <1>4, <1>5, <1>6, <1>7

\* An update leaves no old path in a file that had each of them once at first.
LEMMA UpdateRids ==
    ASSUME MigrateInv, NEW file \in Files, Once(begun[file])
    PROVE  NoOld(updateImportPaths(content[file]))
<1>1. /\ begun[file] \in Sources /\ content[file] \in Sources
      /\ CameOf(begun[file], content[file])
  BY DEF MigrateInv, TypeOK, Kinds, Kept
<1>2. Once(content[file])
  BY <1>1, CameOnce
<1>3. /\ DOMAIN updateImportPaths(content[file]) = DOMAIN content[file]
      /\ \A i \in DOMAIN content[file] : updateImportPaths(content[file])[i] \notin OldPaths
  BY <1>1, <1>2, Updated
<1> QED BY <1>3 DEF NoOld

LEMMA StepRead == ASSUME MigrateInv, NEW file \in Files, Read(file) PROVE MigrateInv'
<1> DEFINE text == updateImportPaths(content[file])
<1>1. /\ runs /\ held = <<>> /\ file \in queue /\ queue' = queue \ {file}
      /\ held' = IF text # content[file] THEN <<file, text>> ELSE <<>>
      /\ content' = content /\ runs' = runs /\ ended' = ended /\ crashes' = crashes
      /\ begun' = begun /\ torn' = torn
  BY DEF Read
<1>2. text \in Sources
  BY Updated DEF MigrateInv, TypeOK
<1>3. Once(begun[file]) => NoOld(text)
  BY UpdateRids
<1> HIDE DEF text
<1>4. TypeOK'
  BY <1>1, <1>2 DEF MigrateInv, TypeOK
<1>5. Kinds'
  BY <1>1 DEF MigrateInv, Kinds
<1>6. HeldIsUpdate'
  BY <1>1 DEF HeldIsUpdate, text
<1>7. Kept'
  BY <1>1 DEF MigrateInv, Kept
<1>8. Progress'
  <2>1. ~ended
    BY <1>1 DEF MigrateInv, Progress
  <2>2. \A other : (Done(other))' <=> Done(other)
    BY <1>1 DEF Done
  <2>3. ASSUME NEW other \in Files \ queue'
        PROVE  Done(other) \/ (held' # <<>> /\ held'[1] = other)
    <3>1. CASE other = file
      <4>1. CASE text = content[file]
        BY <1>3, <3>1, <4>1 DEF Done
      <4>2. CASE text # content[file]
        BY <1>1, <3>1, <4>2
      <4> QED BY <4>1, <4>2
    <3>2. CASE other # file
      BY <1>1, <3>2 DEF MigrateInv, Progress
    <3> QED BY <3>1, <3>2
  <2> HIDE DEF Done
  <2> QED BY <1>1, <2>1, <2>2, <2>3 DEF Progress
<1> QED BY <1>4, <1>5, <1>6, <1>7, <1>8 DEF MigrateInv

LEMMA StepWrite == MigrateInv /\ Write => MigrateInv'
<1> SUFFICES ASSUME MigrateInv, Write PROVE MigrateInv'
  OBVIOUS
<1> DEFINE file == held[1]
           text == held[2]
<1>1. /\ held # <<>> /\ content' = [content EXCEPT ![file] = text] /\ held' = <<>>
      /\ queue' = queue /\ runs' = runs /\ ended' = ended /\ crashes' = crashes
      /\ begun' = begun /\ torn' = torn
  BY DEF Write
<1>2. /\ file \in Files /\ text \in Sources /\ runs /\ file \notin queue
      /\ text = updateImportPaths(content[file])
  BY <1>1 DEF MigrateInv, TypeOK, HeldIsUpdate
<1>3. content \in [Files -> Sources]
  BY DEF MigrateInv, TypeOK
<1> HIDE DEF file, text
<1>4. content'[file] = text /\ \A other \in Files : other # file => content'[other] = content[other]
  BY <1>1, <1>2, <1>3
<1>5. TypeOK'
  BY <1>1, <1>2, <1>3 DEF MigrateInv, TypeOK
<1>6. Kinds'
  BY <1>1 DEF MigrateInv, Kinds
<1>7. HeldIsUpdate'
  BY <1>1 DEF HeldIsUpdate
<1>8. Kept'
  <2>1. CameOf(begun[file], text) /\ (file \in torn \/ Len(text) = Len(begun[file]))
    <3>1. /\ begun[file] \in Sources /\ content[file] \in Sources
          /\ CameOf(begun[file], content[file])
          /\ file \in torn \/ Len(content[file]) = Len(begun[file])
      BY <1>2, <1>3 DEF MigrateInv, Kinds, Kept
    <3>2. Len(text) = Len(content[file])
      BY <1>2, <3>1, Updated
    <3> QED BY <1>2, <3>1, <3>2, CameUpdated
  <2>2. ASSUME NEW other \in Files
        PROVE  CameOf(begun[other], content'[other])
               /\ (other \in torn \/ Len(content'[other]) = Len(begun[other]))
    <3>1. CASE other = file
      BY <1>4, <2>1, <3>1
    <3>2. CASE other # file
      BY <1>4, <3>2 DEF MigrateInv, Kept
    <3> QED BY <3>1, <3>2
  <2> QED BY <1>1, <2>2 DEF Kept
<1>9. Progress'
  <2>1. ~ended
    BY <1>2 DEF MigrateInv, Progress
  <2>2. ASSUME NEW other \in Files \ queue PROVE (Done(other))'
    <3>1. CASE other = file
      <4>1. Once(begun[file]) => NoOld(text)
        BY <1>2, UpdateRids
      <4> QED BY <1>1, <1>4, <3>1, <4>1 DEF Done
    <3>2. CASE other # file
      <4>1. Done(other)
        BY <1>2, <3>2 DEF MigrateInv, Progress, file
      <4> QED BY <1>1, <1>4, <3>2, <4>1 DEF Done
    <3> QED BY <3>1, <3>2
  <2> HIDE DEF Done
  <2> QED BY <1>1, <2>1, <2>2 DEF Progress
<1> QED BY <1>5, <1>6, <1>7, <1>8, <1>9 DEF MigrateInv

LEMMA StepEnd == MigrateInv /\ End => MigrateInv'
<1> SUFFICES ASSUME MigrateInv, End PROVE MigrateInv'
  OBVIOUS
<1>1. /\ runs /\ queue = {} /\ held = <<>> /\ runs' = FALSE /\ ended' = TRUE
      /\ content' = content /\ queue' = queue /\ held' = held /\ crashes' = crashes
      /\ begun' = begun /\ torn' = torn
  BY DEF End
<1>2. TypeOK'
  BY <1>1 DEF MigrateInv, TypeOK
<1>3. Kinds'
  BY <1>1 DEF MigrateInv, Kinds
<1>4. HeldIsUpdate'
  BY <1>1 DEF HeldIsUpdate
<1>5. Kept'
  BY <1>1 DEF MigrateInv, Kept
<1>6. Progress'
  <2>1. \A file \in Files : Done(file)
    BY <1>1 DEF MigrateInv, Progress
  <2>2. \A file \in Files : (Done(file))'
    BY <1>1, <2>1 DEF Done
  <2> HIDE DEF Done
  <2> QED BY <1>1, <2>2 DEF Progress
<1> QED BY <1>2, <1>3, <1>4, <1>5, <1>6 DEF MigrateInv

LEMMA StepCrash == MigrateInv /\ Crash => MigrateInv'
<1> SUFFICES ASSUME MigrateInv, Crash PROVE MigrateInv'
  OBVIOUS
<1>1. /\ runs /\ crashes < MaxCrashes /\ runs' = FALSE /\ queue' = {} /\ held' = <<>>
      /\ crashes' = crashes + 1 /\ ended' = ended /\ begun' = begun
  BY DEF Crash
<1>2. /\ content \in [Files -> Sources] /\ begun \in [Files -> Sources]
      /\ crashes \in 0 .. MaxCrashes /\ MaxCrashes \in Nat
  BY BoundsAssumption DEF MigrateInv, TypeOK, Kinds
<1>3. /\ content' \in [Files -> Sources]
      /\ \A file \in Files :
            /\ CameOf(begun[file], content'[file])
            /\ file \in torn' \/ Len(content'[file]) = Len(begun[file])
  <2>1. CASE content' = content /\ torn' = torn
    BY <1>2, <2>1 DEF MigrateInv, Kept
  <2>2. CASE /\ held # <<>>
             /\ \E n \in 0 .. Len(held[2]) - 1 :
                   content' = [content EXCEPT ![held[1]] = SubSeq(held[2], 1, n)]
             /\ torn' = torn \cup {held[1]}
    <3> DEFINE file == held[1]
               text == held[2]
    <3>1. /\ file \in Files /\ text \in Sources
          /\ text = updateImportPaths(content[file])
      BY <2>2 DEF MigrateInv, TypeOK, HeldIsUpdate
    <3> HIDE DEF file, text
    <3>2. PICK n \in 0 .. Len(text) - 1 :
             content' = [content EXCEPT ![file] = SubSeq(text, 1, n)]
      BY <2>2 DEF file, text
    <3> DEFINE part == SubSeq(text, 1, n)
    <3>3. begun[file] \in Sources /\ content[file] \in Sources
          /\ CameOf(begun[file], content[file])
      BY <1>2, <3>1 DEF MigrateInv, Kept
    <3>4. part \in Sources /\ CameOf(begun[file], part)
      <4>1. CameOf(begun[file], text)
        BY <3>1, <3>3, CameUpdated
      <4> QED BY <3>1, <3>3, <4>1, PrefixIsSource, CamePrefix
    <3> HIDE DEF part
    <3>5. /\ content' \in [Files -> Sources] /\ content'[file] = part
          /\ \A other \in Files : other # file => content'[other] = content[other]
      BY <1>2, <3>1, <3>2, <3>4 DEF part
    <3>6. ASSUME NEW other \in Files
          PROVE  CameOf(begun[other], content'[other])
                 /\ (other \in torn' \/ Len(content'[other]) = Len(begun[other]))
      <4>1. CASE other = file
        BY <2>2, <3>4, <3>5, <4>1 DEF file
      <4>2. CASE other # file
        BY <2>2, <3>5, <4>2 DEF MigrateInv, Kept
      <4> QED BY <4>1, <4>2
    <3> QED BY <3>5, <3>6
  <2> QED BY <2>1, <2>2 DEF Crash
<1>4. TypeOK'
  BY <1>1, <1>2, <1>3 DEF TypeOK
<1>5. Kinds'
  BY <1>1 DEF MigrateInv, Kinds
<1>6. HeldIsUpdate'
  BY <1>1 DEF HeldIsUpdate
<1>7. Kept'
  BY <1>1, <1>3 DEF Kept
<1>8. Progress'
  BY <1>1 DEF MigrateInv, Progress
<1> QED BY <1>4, <1>5, <1>6, <1>7, <1>8 DEF MigrateInv

LEMMA StutterMigrate == MigrateInv /\ UNCHANGED vars => MigrateInv'
<1> SUFFICES ASSUME MigrateInv, UNCHANGED vars PROVE MigrateInv'
  OBVIOUS
<1>1. /\ content' = content /\ queue' = queue /\ held' = held /\ runs' = runs
      /\ ended' = ended /\ crashes' = crashes /\ begun' = begun /\ torn' = torn
  BY DEF vars
<1>2. TypeOK' /\ Kinds' /\ HeldIsUpdate'
  BY <1>1 DEF MigrateInv, TypeOK, Kinds, HeldIsUpdate
<1>3. Kept' /\ Progress'
  BY <1>1 DEF MigrateInv, Kept, Progress, Done
<1> QED BY <1>2, <1>3 DEF MigrateInv

\* The inductive invariant holds of every reachable state, however often the script
\* is run, cut off and run again (migrate-imports.js:92-142).
THEOREM MigrateInvariant == Spec => []MigrateInv
<1>1. Init => MigrateInv
  BY InitMigrate
<1>2. MigrateInv /\ [Next]_vars => MigrateInv'
  <2> SUFFICES ASSUME MigrateInv, [Next]_vars PROVE MigrateInv'
    OBVIOUS
  <2>1. ASSUME NEW file \in Files, Read(file) PROVE MigrateInv'
    BY <2>1, StepRead
  <2> QED BY <2>1, StepStart, StepWrite, StepEnd, StepCrash, StutterMigrate DEF Next
<1> QED BY <1>1, <1>2, PTL DEF Spec

-----------------------------------------------------------------------------
(* What the script promises                                                *)

\* No file ever names more paths than it may, and what is held of a file is
\* nothing or its name and its text (migrate-imports.js:133-142).
THEOREM MigrateTypeCorrect == Spec => []TypeOK
<1>1. MigrateInv => TypeOK
  BY DEF MigrateInv
<1> QED BY <1>1, MigrateInvariant, PTL

\* A path in a file that was not torn is as it was at first or the new one, in
\* its place, for every table and every sequence of runs (migrate-imports.js:144-157).
THEOREM NothingElseChanges == Spec => []OnlyPathsChange
<1>1. MigrateInv => OnlyPathsChange
  BY DEF MigrateInv, Kept, CameOf, Follows, OnlyPathsChange
<1> QED BY <1>1, MigrateInvariant, PTL

\* A run that came to its end has left no old path in a file that had each of them at
\* most once, whatever cut off the runs before it (migrate-imports.js:144-157).
THEOREM EndedIsMigrated == Spec => []Migrated
<1>1. MigrateInv => Migrated
  <2> SUFFICES ASSUME MigrateInv, ended, NEW file \in Files, Once(begun[file])
               PROVE  Old(content[file]) = {}
    BY DEF Migrated
  <2>1. \A i \in DOMAIN content[file] : content[file][i] \notin OldPaths
    BY DEF MigrateInv, Progress, Done, NoOld
  <2>2. content[file] \in Sources
    BY DEF MigrateInv, TypeOK
  <2>3. Range(content[file]) = {content[file][i] : i \in DOMAIN content[file]}
    BY DEF Range
  <2> QED BY <2>1, <2>3 DEF Old
<1> QED BY <1>1, MigrateInvariant, PTL
=============================================================================
