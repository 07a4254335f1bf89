-------------------------- MODULE NotaMoneyProofs --------------------------
(***************************************************************************)
(* The registrar's money, for any accounts, tokens, amounts and fees, and  *)
(* any depth of calls inside calls: it holds what it owes, at every point  *)
(* of every call and after any of them failed.                             *)
(***************************************************************************)
EXTENDS NotaOwnershipProofs, Sums, WellFoundedInduction

-----------------------------------------------------------------------------
(* What Sum computes, for every finite set.  The folds of the community    *)
(* modules are recursive functions over the subsets of a set; these lemmas *)
(* reason about them through minimal counterexamples under strict          *)
(* inclusion (WFMin), which needs no second-order induction principle.     *)

\* The element that the fold removes first from a non-empty set.
Pick(s) == CHOOSE x \in s : TRUE

\* g computes, on every subset of S, the fold that defines Sum(f, _).
IsFold(g, f, S) ==
    g = [s \in SUBSET S |-> IF s = {} THEN 0 ELSE f[Pick(s)] + g[s \ {Pick(s)}]]

\* Sum is the value at S of some function that IsFold describes, chosen.
LEMMA SumIsFold ==
    ASSUME NEW f, NEW S
    PROVE  Sum(f, S) = (CHOOSE g : IsFold(g, f, S))[S]
  BY DEF Sum, MapThenSumSet, MapThenFoldSet, IsFold, Pick

\* A non-empty family of subsets of a finite set has a minimal member.
LEMMA MinimalSubset ==
    ASSUME NEW S, IsFiniteSet(S), NEW T, T \subseteq SUBSET S, T # {}
    PROVE  \E m \in T : \A u \in T : u \subseteq m => u = m
<1>1. FiniteSubsetsOf(S) = SUBSET S
  BY FS_FiniteSubsetsOfFinite
<1>2. IsWellFoundedOn(StrictSubsetOrdering(S), SUBSET S)
  BY <1>1, FS_StrictSubsetOrderingWellFounded
<1>3. \E m \in T : \A u \in T : <<u, m>> \notin StrictSubsetOrdering(S)
  BY <1>2, WFMin
<1>4. QED
  BY <1>3 DEF StrictSubsetOrdering

LEMMA PickIn == ASSUME NEW s, s # {} PROVE Pick(s) \in s
  BY DEF Pick

\* Two such folds agree wherever both are defined.
LEMMA FoldsAgree ==
    ASSUME NEW f, NEW A, NEW B, NEW g, NEW h,
           IsFold(g, f, A), IsFold(h, f, B),
           NEW S, IsFiniteSet(S), S \subseteq A, S \subseteq B
    PROVE  g[S] = h[S]
<1> DEFINE Bad == {s \in SUBSET S : g[s] # h[s]}
<1>1. SUFFICES ASSUME Bad # {} PROVE FALSE
  BY DEF Bad
<1>2. PICK m \in Bad : \A u \in Bad : u \subseteq m => u = m
  <2>1. Bad \subseteq SUBSET S
    OBVIOUS
  <2> HIDE DEF Bad
  <2> QED BY <1>1, <2>1, MinimalSubset
<1>3. m \in SUBSET A /\ m \in SUBSET B /\ m \in SUBSET S
  BY DEF Bad
<1>4. CASE m = {}
  BY <1>2, <1>3, <1>4 DEF IsFold, Bad
<1>5. CASE m # {}
  <2> DEFINE u == m \ {Pick(m)}
  <2>1. u \subseteq m /\ u # m /\ u \in SUBSET S
    BY <1>3, <1>5, PickIn
  <2>2. g[u] = h[u]
    BY <2>1, <1>2 DEF Bad
  <2>3. g[m] = f[Pick(m)] + g[u] /\ h[m] = f[Pick(m)] + h[u]
    BY <1>3, <1>5 DEF IsFold
  <2>4. QED
    BY <2>2, <2>3, <1>2 DEF Bad
<1>6. QED
  BY <1>4, <1>5

\* The fold exists on every finite set.
LEMMA FoldExists ==
    ASSUME NEW f, NEW S, IsFiniteSet(S)
    PROVE  \E g : IsFold(g, f, S)
<1> DEFINE Bad == {s \in SUBSET S : ~ \E g : IsFold(g, f, s)}
<1>1. SUFFICES ASSUME Bad # {} PROVE FALSE
  BY DEF Bad
<1>2. PICK m \in Bad : \A u \in Bad : u \subseteq m => u = m
  <2>1. Bad \subseteq SUBSET S
    OBVIOUS
  <2> HIDE DEF Bad
  <2> QED BY <1>1, <2>1, MinimalSubset
<1>3. IsFiniteSet(m) /\ m \in SUBSET S
  BY FS_Subset DEF Bad
<1> DEFINE G(s) == (CHOOSE g : IsFold(g, f, s))[s]
           h == [s \in SUBSET m |-> IF s = m
                                    THEN IF s = {} THEN 0
                                         ELSE f[Pick(s)] + G(s \ {Pick(s)})
                                    ELSE G(s)]
<1>4. ASSUME NEW s \in SUBSET m, s # m
      PROVE  IsFold(CHOOSE g : IsFold(g, f, s), f, s)
  BY <1>2, <1>3, <1>4 DEF Bad
<1>5. ASSUME NEW s \in SUBSET m, s # {}, s # m
      PROVE  G(s) = f[Pick(s)] + G(s \ {Pick(s)})
  <2> DEFINE u == s \ {Pick(s)}
             gs == CHOOSE g : IsFold(g, f, s)
             gu == CHOOSE g : IsFold(g, f, u)
  <2>1. u \in SUBSET s /\ u \in SUBSET m /\ u # m /\ IsFiniteSet(u)
    BY <1>3, <1>5, FS_Subset
  <2>2. IsFold(gs, f, s) /\ IsFold(gu, f, u)
    BY <1>4, <1>5, <2>1
  <2>3. gs[u] = gu[u]
    <3> HIDE DEF gs, gu, u
    <3> QED BY <2>1, <2>2, FoldsAgree
  <2>4. gs[s] = f[Pick(s)] + gs[u]
    <3> HIDE DEF gs
    <3> QED BY <2>2, <1>5 DEF IsFold
  <2>5. QED
    BY <2>3, <2>4
<1>6. ASSUME NEW s \in SUBSET m
      PROVE  h[s] = IF s = {} THEN 0 ELSE f[Pick(s)] + h[s \ {Pick(s)}]
  <2>1. CASE s = {} /\ s = m
    BY <2>1
  <2>2. CASE s = {} /\ s # m
    <3> DEFINE gs == CHOOSE g : IsFold(g, f, s)
    <3>1. IsFold(gs, f, s)
      BY <1>4, <2>2
    <3>2. gs[s] = 0
      <4> HIDE DEF gs
      <4> QED BY <3>1, <2>2 DEF IsFold
    <3> QED BY <2>2, <3>2
  <2>3. CASE s # {}
    <3>1. Pick(s) \in s
      BY <2>3, PickIn
    <3>2. s \ {Pick(s)} \in SUBSET m /\ s \ {Pick(s)} # m
      BY <3>1
    <3>3. h[s \ {Pick(s)}] = G(s \ {Pick(s)})
      <4> HIDE DEF G
      <4> QED BY <3>2
    <3>4. h[s] = f[Pick(s)] + G(s \ {Pick(s)})
      <4>1. G(s) = f[Pick(s)] + G(s \ {Pick(s)}) \/ s = m
        BY <1>5, <2>3
      <4> HIDE DEF G
      <4> QED BY <4>1, <2>3
    <3> QED BY <3>3, <3>4, <2>3
  <2>4. QED
    BY <2>1, <2>2, <2>3
<1>7. h = [s \in SUBSET m |-> IF s = {} THEN 0 ELSE f[Pick(s)] + h[s \ {Pick(s)}]]
  <2> HIDE DEF G
  <2>1. h = [s \in SUBSET m |-> h[s]]
    OBVIOUS
  <2> HIDE DEF h
  <2> QED BY <2>1, <1>6
<1>8. IsFold(h, f, m)
  <2> HIDE DEF h
  <2> QED BY <1>7 DEF IsFold
<1>9. QED
  BY <1>8, <1>2 DEF Bad

\* The value of the sum, from the fold that computes it on any larger set.
LEMMA SumByFold ==
    ASSUME NEW f, NEW S, IsFiniteSet(S), NEW A, S \subseteq A,
           NEW g, IsFold(g, f, A)
    PROVE  Sum(f, S) = g[S]
<1> DEFINE h == CHOOSE k : IsFold(k, f, S)
<1>1. IsFold(h, f, S)
  BY FoldExists
<1>2. Sum(f, S) = h[S]
  BY SumIsFold
<1>3. QED
  <2> HIDE DEF h
  <2> QED BY <1>1, <1>2, FoldsAgree

LEMMA SumEmpty == ASSUME NEW f PROVE Sum(f, {}) = 0
<1>1. PICK g : IsFold(g, f, {})
  BY FoldExists, FS_EmptySet
<1>2. Sum(f, {}) = g[{}]
  BY <1>1, SumByFold, FS_EmptySet
<1>3. QED
  BY <1>1, <1>2 DEF IsFold

\* One unfolding, at the element that the fold happens to choose.
LEMMA SumUnfold ==
    ASSUME NEW f, NEW S, IsFiniteSet(S), S # {}
    PROVE  Sum(f, S) = f[Pick(S)] + Sum(f, S \ {Pick(S)})
<1> DEFINE u == S \ {Pick(S)}
<1>1. PICK g : IsFold(g, f, S)
  BY FoldExists
<1>2. Sum(f, S) = g[S]
  BY <1>1, SumByFold
<1>3. IsFiniteSet(u) /\ u \subseteq S
  BY FS_RemoveElement
<1>4. Sum(f, u) = g[u]
  <2> HIDE DEF u
  <2> QED BY <1>1, <1>3, SumByFold
<1>5. QED
  BY <1>1, <1>2, <1>4 DEF IsFold

\* The sum of an integer-valued function is an integer.
LEMMA SumInt ==
    ASSUME NEW S, IsFiniteSet(S), NEW f, \A x \in S : f[x] \in Int
    PROVE  Sum(f, S) \in Int
<1> DEFINE Bad == {s \in SUBSET S : Sum(f, s) \notin Int}
<1>1. SUFFICES ASSUME Bad # {} PROVE FALSE
  BY DEF Bad
<1>2. PICK m \in Bad : \A u \in Bad : u \subseteq m => u = m
  <2>1. Bad \subseteq SUBSET S
    OBVIOUS
  <2> HIDE DEF Bad
  <2> QED BY <1>1, <2>1, MinimalSubset
<1>3. IsFiniteSet(m) /\ m \in SUBSET S /\ Sum(f, m) \notin Int
  BY FS_Subset
<1>4. m # {}
  BY <1>3, SumEmpty
<1>5. Pick(m) \in m
  BY <1>4, PickIn
<1>6. Sum(f, m \ {Pick(m)}) \in Int
  BY <1>2, <1>3, <1>5
<1>7. QED
  BY <1>3, <1>4, <1>5, <1>6, SumUnfold

LEMMA SumZero ==
    ASSUME NEW S, IsFiniteSet(S), NEW f, \A x \in S : f[x] = 0
    PROVE  Sum(f, S) = 0
<1> DEFINE Bad == {s \in SUBSET S : Sum(f, s) # 0}
<1>1. SUFFICES ASSUME Bad # {} PROVE FALSE
  BY DEF Bad
<1>2. PICK m \in Bad : \A u \in Bad : u \subseteq m => u = m
  <2>1. Bad \subseteq SUBSET S
    OBVIOUS
  <2> HIDE DEF Bad
  <2> QED BY <1>1, <2>1, MinimalSubset
<1>3. IsFiniteSet(m) /\ m \in SUBSET S /\ Sum(f, m) # 0
  BY FS_Subset
<1>4. m # {}
  BY <1>3, SumEmpty
<1>5. Pick(m) \in m /\ f[Pick(m)] = 0
  BY <1>3, <1>4, PickIn
<1>6. Sum(f, m \ {Pick(m)}) = 0
  BY <1>2, <1>3, <1>5
<1>7. QED
  BY <1>3, <1>4, <1>5, <1>6, SumUnfold

\* Any element can be taken out of a sum, whichever the fold takes first.
THEOREM SumRemove ==
    ASSUME NEW S, IsFiniteSet(S), NEW f, \A x \in S : f[x] \in Int,
           NEW x \in S
    PROVE  Sum(f, S) = f[x] + Sum(f, S \ {x})
<1> DEFINE Good(s) == \A y \in s : Sum(f, s) = f[y] + Sum(f, s \ {y})
           Bad == {s \in SUBSET S : ~ Good(s)}
<1>1. SUFFICES ASSUME Bad # {} PROVE FALSE
  BY DEF Bad
<1>2. PICK m \in Bad : \A u \in Bad : u \subseteq m => u = m
  <2>1. Bad \subseteq SUBSET S
    OBVIOUS
  <2> HIDE DEF Bad
  <2> QED BY <1>1, <2>1, MinimalSubset
<1>3. IsFiniteSet(m) /\ m \in SUBSET S /\ ~ Good(m)
  BY FS_Subset
<1>4. PICK y \in m : Sum(f, m) # f[y] + Sum(f, m \ {y})
  BY <1>3
<1> DEFINE c == Pick(m)
<1>5. c \in m /\ Sum(f, m) = f[c] + Sum(f, m \ {c})
  BY <1>3, <1>4, PickIn, SumUnfold
<1>6. c # y
  BY <1>4, <1>5
<1>7. Good(m \ {c}) /\ Good(m \ {y})
  BY <1>2, <1>3, <1>5
<1> HIDE DEF c
<1>8. /\ Sum(f, m \ {c}) = f[y] + Sum(f, (m \ {c}) \ {y})
      /\ Sum(f, m \ {y}) = f[c] + Sum(f, (m \ {y}) \ {c})
  BY <1>5, <1>6, <1>7
<1>9. (m \ {c}) \ {y} = (m \ {y}) \ {c}
  OBVIOUS
<1>10. Sum(f, (m \ {y}) \ {c}) \in Int
  <2>1. IsFiniteSet((m \ {y}) \ {c}) /\ (m \ {y}) \ {c} \subseteq S
    BY <1>3, FS_RemoveElement
  <2> QED BY <2>1, SumInt
<1>11. f[c] \in Int /\ f[y] \in Int
  BY <1>3, <1>5
<1>12. ASSUME NEW a \in Int, NEW b \in Int, NEW d \in Int
       PROVE  a + (b + d) = b + (a + d)
  OBVIOUS
<1>13. /\ Sum(f, m) = f[c] + (f[y] + Sum(f, (m \ {y}) \ {c}))
       /\ f[y] + Sum(f, m \ {y}) = f[y] + (f[c] + Sum(f, (m \ {y}) \ {c}))
  BY <1>5, <1>8, <1>9
<1>14. QED
  BY <1>4, <1>10, <1>11, <1>12, <1>13

\* Equal summands give equal sums.
LEMMA SumEqual ==
    ASSUME NEW S, IsFiniteSet(S), NEW f, NEW g, \A x \in S : f[x] = g[x]
    PROVE  Sum(f, S) = Sum(g, S)
<1> DEFINE Bad == {s \in SUBSET S : Sum(f, s) # Sum(g, s)}
<1>1. SUFFICES ASSUME Bad # {} PROVE FALSE
  BY DEF Bad
<1>2. PICK m \in Bad : \A u \in Bad : u \subseteq m => u = m
  <2>1. Bad \subseteq SUBSET S
    OBVIOUS
  <2> HIDE DEF Bad
  <2> QED BY <1>1, <2>1, MinimalSubset
<1>3. IsFiniteSet(m) /\ m \in SUBSET S /\ Sum(f, m) # Sum(g, m)
  BY FS_Subset
<1>4. m # {}
  BY <1>3, SumEmpty
<1>5. Pick(m) \in m /\ f[Pick(m)] = g[Pick(m)]
  BY <1>3, <1>4, PickIn
<1>6. Sum(f, m \ {Pick(m)}) = Sum(g, m \ {Pick(m)})
  BY <1>2, <1>3, <1>5
<1>7. QED
  BY <1>3, <1>4, <1>5, <1>6, SumUnfold

\* Sums over natural numbers are natural numbers, and bound every summand.
THEOREM SumNat ==
    ASSUME NEW S, IsFiniteSet(S), NEW f, \A x \in S : f[x] \in Nat
    PROVE  Sum(f, S) \in Nat /\ \A x \in S : f[x] <= Sum(f, S)
<1> DEFINE Bad == {s \in SUBSET S : Sum(f, s) \notin Nat}
<1>1. Bad = {}
  <2>1. SUFFICES ASSUME Bad # {} PROVE FALSE
    BY DEF Bad
  <2>2. PICK m \in Bad : \A u \in Bad : u \subseteq m => u = m
    <3>1. Bad \subseteq SUBSET S
      OBVIOUS
    <3> HIDE DEF Bad
    <3> QED BY <2>1, <3>1, MinimalSubset
  <2>3. IsFiniteSet(m) /\ m \in SUBSET S /\ Sum(f, m) \notin Nat
    BY FS_Subset
  <2>4. m # {}
    BY <2>3, SumEmpty
  <2>5. Pick(m) \in m /\ f[Pick(m)] \in Nat
    BY <2>3, <2>4, PickIn
  <2>6. Sum(f, m \ {Pick(m)}) \in Nat
    BY <2>2, <2>3, <2>5
  <2>7. QED
    BY <2>3, <2>4, <2>5, <2>6, SumUnfold
<1>2. \A s \in SUBSET S : Sum(f, s) \in Nat
  BY <1>1
<1>3. ASSUME NEW x \in S PROVE f[x] <= Sum(f, S)
  <2>1. \A y \in S : f[y] \in Int
    OBVIOUS
  <2>2. Sum(f, S) = f[x] + Sum(f, S \ {x})
    BY <2>1, SumRemove
  <2>3. Sum(f, S \ {x}) \in Nat
    BY <1>2
  <2>4. QED
    BY <2>2, <2>3
<1>4. QED
  BY <1>2, <1>3

\* Changing one summand changes the sum by the difference.
THEOREM SumUpdate ==
    ASSUME NEW S, IsFiniteSet(S), NEW f, NEW g, NEW x \in S,
           \A y \in S : f[y] \in Int /\ g[y] \in Int,
           \A y \in S \ {x} : f[y] = g[y]
    PROVE  Sum(g, S) = Sum(f, S) + (g[x] - f[x])
<1>1. IsFiniteSet(S \ {x})
  BY FS_RemoveElement
<1>2. Sum(f, S \ {x}) = Sum(g, S \ {x}) /\ Sum(f, S \ {x}) \in Int
  BY <1>1, SumEqual, SumInt
<1>3. Sum(f, S) = f[x] + Sum(f, S \ {x}) /\ Sum(g, S) = g[x] + Sum(g, S \ {x})
  BY SumRemove
<1>4. QED
  BY <1>2, <1>3

-----------------------------------------------------------------------------
(* The inductive invariant.  Operators have the notas n, the revenues r    *)
(* and p, and the balances b of a storage as parameters, and the first d   *)
(* calls of a stack k.                                                     *)

EscrowIn(n, t) == [id \in Ids |-> IF n[id].currency = t THEN n[id].escrowed ELSE 0]
RevenueIn(r, t) == [h \in Contracts |-> r[h][t]]

\* What call f has in flight of token t.
Flight(f, t) ==
    IF f.nota.currency = t THEN Uncredited(f) + Unpaid(f) + FeeKept(f) ELSE 0
FlightIn(k, d, t) == [i \in 1 .. d |-> Flight(k[i], t)]

\* What a storage says is owed of token t.
Books(n, r, p, t) == Sum(EscrowIn(n, t), Ids) + Sum(RevenueIn(r, t), Contracts) + p[t]

Funded(b, n, r, p, k, d) ==
    \A t \in Tokens :
       LET owed == Books(n, r, p, t) + Sum(FlightIn(k, d, t), 1 .. d) IN
       /\ owed <= b[t][Registrar]
       /\ Registrar \notin Payees => owed = b[t][Registrar]

SavedFunded(k, i) ==
    LET s == k[i].saved IN
    Funded(s.balance, s.notas, s.hookRevenue, s.protocolRevenue, k, i - 1)

\* Which functions stop at which points.
Placed(f) ==
    /\ f.at = "hook" => f.fn \in Guarded
    /\ f.at \in {"pull", "pulled", "forward", "forwarded"} => f.fn \in Deposits
    /\ f.at \in {"pay", "paid"} => f.fn \in {"cash"} \cup Withdraws
    /\ f.at = "received" => f.fn = "safeTransferFrom"
    /\ f.at = "finish" => f.fn \in Deposits \cup {"cash"} \cup Withdraws

MoneyInv ==
    /\ OwnInv
    /\ \A i \in 1 .. Depth : Placed(stack[i]) /\ SavedFunded(stack, i)
    /\ Funded(balance, notas, hookRevenue, protocolRevenue, stack, Depth)

\* The protocol's share of what hooks withdrew, in one storage.
Shared(p, pt, ht) ==
    \A t \in Tokens :
       /\ p[t] <= pt[t]
       /\ pt[t] * FeeDenominator <= MaxProtocolFee * Sum(RevenueIn(ht, t), Contracts)

ShareInv ==
    /\ TypeInv
    /\ Shared(protocolRevenue, protocolTotalRevenue, hookTotalRevenue)
    /\ \A i \in 1 .. Depth :
          LET s == stack[i].saved IN
          Shared(s.protocolRevenue, s.protocolTotalRevenue, s.hookTotalRevenue)
-----------------------------------------------------------------------------
(* How the sums change                                                     *)

LEMMA EscrowChange ==
    ASSUME NEW n \in [Ids -> NotaType], NEW nn \in [Ids -> NotaType], NEW id \in Ids,
           \A i \in Ids \ {id} : nn[i] = n[i], NEW t
    PROVE  /\ Sum(EscrowIn(n, t), Ids) \in Int
           /\ Sum(EscrowIn(nn, t), Ids)
                 = Sum(EscrowIn(n, t), Ids) + (EscrowIn(nn, t)[id] - EscrowIn(n, t)[id])
<1> DEFINE f == EscrowIn(n, t)
           g == EscrowIn(nn, t)
<1>1. IsFiniteSet(Ids)
  BY NotasAssumption, FS_Interval DEF Ids
<1>2. /\ \A i \in Ids : f[i] \in Int /\ g[i] \in Int
      /\ \A i \in Ids \ {id} : f[i] = g[i]
  BY UintAssumption DEF EscrowIn, NotaType, Uint
<1> HIDE DEF f, g
<1>3. Sum(f, Ids) \in Int /\ Sum(g, Ids) = Sum(f, Ids) + (g[id] - f[id])
  BY <1>1, <1>2, SumInt, SumUpdate
<1> QED BY <1>3 DEF f, g

LEMMA RevenueChange ==
    ASSUME NEW r \in [Contracts -> [Tokens -> Uint]], NEW rr \in [Contracts -> [Tokens -> Uint]],
           NEW h \in Contracts, NEW t \in Tokens,
           \A c \in Contracts \ {h} : rr[c][t] = r[c][t]
    PROVE  /\ Sum(RevenueIn(r, t), Contracts) \in Int
           /\ Sum(RevenueIn(rr, t), Contracts)
                 = Sum(RevenueIn(r, t), Contracts) + (rr[h][t] - r[h][t])
<1> DEFINE f == RevenueIn(r, t)
           g == RevenueIn(rr, t)
<1>1. /\ \A c \in Contracts : f[c] \in Int /\ g[c] \in Int
      /\ \A c \in Contracts \ {h} : f[c] = g[c]
  BY UintAssumption DEF RevenueIn, Uint
<1>2. f[h] = r[h][t] /\ g[h] = rr[h][t]
  BY DEF RevenueIn
<1> HIDE DEF f, g
<1>3. Sum(f, Contracts) \in Int /\ Sum(g, Contracts) = Sum(f, Contracts) + (g[h] - f[h])
  BY <1>1, AccountsAssumption, SumInt, SumUpdate
<1> QED BY <1>2, <1>3 DEF f, g

LEMMA SumsTyped ==
    ASSUME NEW n \in [Ids -> NotaType], NEW r \in [Contracts -> [Tokens -> Uint]], NEW t \in Tokens
    PROVE  Sum(EscrowIn(n, t), Ids) \in Int /\ Sum(RevenueIn(r, t), Contracts) \in Int
<1>1. IsFiniteSet(Ids)
  BY NotasAssumption, FS_Interval DEF Ids
<1>2. \A i \in Ids : EscrowIn(n, t)[i] \in Int
  BY UintAssumption DEF EscrowIn, NotaType, Uint
<1>3. \A c \in Contracts : RevenueIn(r, t)[c] \in Int
  BY UintAssumption DEF RevenueIn, Uint
<1> HIDE DEF EscrowIn, RevenueIn
<1> QED BY <1>1, <1>2, <1>3, AccountsAssumption, SumInt

LEMMA FlightTyped ==
    ASSUME NEW f \in FrameType, NEW t
    PROVE  Flight(f, t) \in Int
<1>1. f.amount \in Int /\ f.fee \in Int
  BY UintAssumption DEF FrameType, Uint
<1> QED BY <1>1 DEF Flight, Uncredited, Unpaid, FeeKept

\* The calls below the innermost one, and then that one.
LEMMA FlightTop ==
    ASSUME NEW k, NEW kk, NEW d \in Nat, \A i \in 1 .. d + 1 : k[i] \in FrameType,
           \A i \in 1 .. d : kk[i] = k[i], NEW t
    PROVE  /\ Sum(FlightIn(kk, d, t), 1 .. d) \in Int
           /\ Sum(FlightIn(k, d + 1, t), 1 .. d + 1)
                 = Sum(FlightIn(kk, d, t), 1 .. d) + Flight(k[d + 1], t)
<1> DEFINE f == FlightIn(k, d + 1, t)
           g == FlightIn(kk, d, t)
<1>1. IsFiniteSet(1 .. d + 1) /\ IsFiniteSet(1 .. d)
  BY FS_Interval
<1>2. \A i \in 1 .. d + 1 : f[i] \in Int
  BY FlightTyped DEF FlightIn
<1>3. \A i \in 1 .. d : i \in 1 .. d + 1 /\ g[i] = f[i]
  BY DEF FlightIn
<1>4. d + 1 \in 1 .. d + 1 /\ (1 .. d + 1) \ {d + 1} = 1 .. d
  OBVIOUS
<1>5. f[d + 1] = Flight(k[d + 1], t)
  BY <1>4 DEF FlightIn
<1> HIDE DEF f, g
<1>6. Sum(f, 1 .. d + 1) = f[d + 1] + Sum(f, 1 .. d)
  BY <1>1, <1>2, <1>4, SumRemove
<1>7. Sum(g, 1 .. d) = Sum(f, 1 .. d)
  BY <1>1, <1>3, SumEqual
<1>8. Sum(g, 1 .. d) \in Int
  BY <1>1, <1>2, <1>3, SumInt
<1>9. f[d + 1] \in Int
  BY <1>2, <1>4
<1> QED BY <1>5, <1>6, <1>7, <1>8, <1>9 DEF f, g

LEMMA FlightLast ==
    ASSUME NEW k, NEW kk, NEW d \in Nat \ {0}, \A i \in 1 .. d : k[i] \in FrameType,
           \A i \in 1 .. d - 1 : kk[i] = k[i], NEW t
    PROVE  /\ Sum(FlightIn(kk, d - 1, t), 1 .. d - 1) \in Int
           /\ Sum(FlightIn(k, d, t), 1 .. d)
                 = Sum(FlightIn(kk, d - 1, t), 1 .. d - 1) + Flight(k[d], t)
<1>1. PICK e \in Nat : d = e + 1 /\ d - 1 = e
  <2>1. d - 1 \in Nat /\ d = (d - 1) + 1
    OBVIOUS
  <2> QED BY <2>1
<1>2. /\ Sum(FlightIn(kk, e, t), 1 .. e) \in Int
      /\ Sum(FlightIn(k, e + 1, t), 1 .. e + 1) = Sum(FlightIn(kk, e, t), 1 .. e) + Flight(k[e + 1], t)
  <2>1. \A i \in 1 .. e + 1 : k[i] \in FrameType
    BY <1>1
  <2>2. \A i \in 1 .. e : kk[i] = k[i]
    BY <1>1
  <2> QED BY <2>1, <2>2, FlightTop
<1> QED BY <1>1, <1>2

LEMMA FlightsTyped ==
    ASSUME NEW k, NEW d \in Nat, \A i \in 1 .. d : k[i] \in FrameType, NEW t
    PROVE  Sum(FlightIn(k, d, t), 1 .. d) \in Int
<1>1. IsFiniteSet(1 .. d)
  BY FS_Interval
<1>2. \A i \in 1 .. d : FlightIn(k, d, t)[i] \in Int
  BY FlightTyped DEF FlightIn
<1> HIDE DEF FlightIn
<1> QED BY <1>1, <1>2, SumInt

LEMMA FlightSame ==
    ASSUME NEW k, NEW kk, NEW d \in Nat, \A i \in 1 .. d : kk[i] = k[i], NEW t
    PROVE  Sum(FlightIn(kk, d, t), 1 .. d) = Sum(FlightIn(k, d, t), 1 .. d)
<1>1. IsFiniteSet(1 .. d)
  BY FS_Interval
<1>2. \A i \in 1 .. d : FlightIn(kk, d, t)[i] = FlightIn(k, d, t)[i]
  BY DEF FlightIn
<1> HIDE DEF FlightIn
<1> QED BY <1>1, <1>2, SumEqual

LEMMA FundedSame ==
    ASSUME NEW b, NEW n, NEW r, NEW p, NEW k, NEW kk, NEW d \in Nat,
           \A i \in 1 .. d : kk[i] = k[i], Funded(b, n, r, p, k, d)
    PROVE  Funded(b, n, r, p, kk, d)
<1>1. \A t : Sum(FlightIn(kk, d, t), 1 .. d) = Sum(FlightIn(k, d, t), 1 .. d)
  BY FlightSame
<1> HIDE DEF FlightIn
<1> QED BY <1>1 DEF Funded

LEMMA SavedFundedSame ==
    ASSUME NEW k, NEW kk, NEW d \in Nat, NEW i \in 1 .. d,
           \A j \in 1 .. d : kk[j] = k[j], SavedFunded(k, i)
    PROVE  SavedFunded(kk, i)
<1>1. i - 1 \in Nat /\ \A j \in 1 .. i - 1 : kk[j] = k[j]
  OBVIOUS
<1> QED BY <1>1, FundedSame DEF SavedFunded

-----------------------------------------------------------------------------
(* The invariant after a step, from what the step changes.                 *)

BooksNow(t) == Books(notas, hookRevenue, protocolRevenue, t)
Held(t) == balance[t][Registrar]

\* What is owed of t grows by `owes`: the registrar receives as much, or more
\* when somebody pays the registrar itself.
Covers(owes, t) ==
    /\ owes <= Held(t)' - Held(t)
    /\ Registrar \notin Payees => owes = Held(t)' - Held(t)

LEMMA BooksTyped == TypeInv => \A t \in Tokens : BooksNow(t) \in Int /\ Held(t) \in Int
<1> SUFFICES ASSUME TypeInv, NEW t \in Tokens
             PROVE  BooksNow(t) \in Int /\ Held(t) \in Int
  OBVIOUS
<1>1. /\ notas \in [Ids -> NotaType] /\ hookRevenue \in [Contracts -> [Tokens -> Uint]]
      /\ protocolRevenue \in [Tokens -> Uint] /\ balance \in [Tokens -> [Address -> Uint]]
      /\ Registrar \in Address
  BY DEF TypeInv, TypeOK, NotasTypeOK, GovTypeOK, BalanceTypeOK, Address
<1>2. Sum(EscrowIn(notas, t), Ids) \in Int /\ Sum(RevenueIn(hookRevenue, t), Contracts) \in Int
  BY <1>1, SumsTyped
<1>3. protocolRevenue[t] \in Int /\ balance[t][Registrar] \in Int
  BY <1>1, UintAssumption DEF Uint
<1> HIDE DEF EscrowIn, RevenueIn
<1> QED BY <1>2, <1>3 DEF BooksNow, Books, Held

LEMMA NextBooksTyped == TypeInv' => \A t \in Tokens : BooksNow(t)' \in Int /\ Held(t)' \in Int
<1>1. (TypeInv => \A t \in Tokens : BooksNow(t) \in Int /\ Held(t) \in Int)'
  BY BooksTyped, PTL
<1> QED BY <1>1

LEMMA FramesTyped ==
    ASSUME TypeInv
    PROVE  Depth \in Nat /\ \A i \in 1 .. Depth : stack[i] \in FrameType
  BY DEF TypeInv, TypeOK, Depth

LEMMA OpenFunded ==
    ASSUME MoneyInv, OwnInv', NEW f \in FrameType, Open(f), f.saved = Storage, Placed(f),
           \A t \in Tokens : Covers(BooksNow(t)' - BooksNow(t) + Flight(f, t), t)
    PROVE  MoneyInv'
<1>1. TypeInv /\ TypeInv'
  BY DEF MoneyInv, OwnInv, GuardInv
<1>2. /\ Len(stack') = Depth + 1 /\ stack'[Depth + 1] = f
      /\ \A i \in 1 .. Depth : stack'[i] = stack[i]
  BY <1>1, OpenStack DEF TypeInv, TypeOK
<1>3. Depth \in Nat /\ Depth' = Depth + 1 /\ \A i \in 1 .. Depth + 1 : stack'[i] \in FrameType
  BY <1>1, <1>2, FramesTyped DEF Depth
<1>4. \A i \in 1 .. Depth + 1 : i \in 1 .. Depth \/ i = Depth + 1
  BY <1>3
<1>5. /\ f.saved.balance = balance /\ f.saved.notas = notas
      /\ f.saved.hookRevenue = hookRevenue /\ f.saved.protocolRevenue = protocolRevenue
  BY DEF Storage
<1>6. SavedFunded(stack', Depth + 1)
  <2>1. Funded(balance, notas, hookRevenue, protocolRevenue, stack', Depth)
    BY <1>2, <1>3, FundedSame DEF MoneyInv
  <2> QED BY <1>2, <1>3, <1>5, <2>1 DEF SavedFunded
<1>7. ASSUME NEW i \in 1 .. Depth PROVE Placed(stack'[i]) /\ SavedFunded(stack', i)
  BY <1>2, <1>3, SavedFundedSame DEF MoneyInv
<1>8. Funded(balance', notas', hookRevenue', protocolRevenue', stack', Depth + 1)
  <2> SUFFICES ASSUME NEW t \in Tokens
               PROVE  LET owed == BooksNow(t)' + Sum(FlightIn(stack', Depth + 1, t), 1 .. Depth + 1)
                      IN  /\ owed <= Held(t)'
                          /\ Registrar \notin Payees => owed = Held(t)'
    BY DEF Funded, BooksNow, Held
  <2>1. /\ Sum(FlightIn(stack, Depth, t), 1 .. Depth) \in Int
        /\ Sum(FlightIn(stack', Depth + 1, t), 1 .. Depth + 1)
              = Sum(FlightIn(stack, Depth, t), 1 .. Depth) + Flight(f, t)
    <3>1. \A i \in 1 .. Depth : stack[i] = stack'[i]
      BY <1>2
    <3> QED BY <1>2, <1>3, <3>1, FlightTop
  <2>2. /\ BooksNow(t) + Sum(FlightIn(stack, Depth, t), 1 .. Depth) <= Held(t)
        /\ Registrar \notin Payees =>
              BooksNow(t) + Sum(FlightIn(stack, Depth, t), 1 .. Depth) = Held(t)
    BY DEF MoneyInv, Funded, BooksNow, Held
  <2>3. /\ BooksNow(t) \in Int /\ Held(t) \in Int /\ BooksNow(t)' \in Int /\ Held(t)' \in Int
        /\ Flight(f, t) \in Int
    BY <1>1, BooksTyped, NextBooksTyped, FlightTyped
  <2> HIDE DEF BooksNow, Held, Flight, FlightIn
  <2> QED BY SMTT(30), <2>1, <2>2, <2>3 DEF Covers
<1> QED BY <1>2, <1>3, <1>4, <1>6, <1>7, <1>8 DEF MoneyInv
LEMMA ContinueFunded ==
    ASSUME MoneyInv, OwnInv', stack # <<>>, NEW f \in FrameType, Continue(f), Placed(f),
           f.saved = Top.saved,
           \A t \in Tokens :
              Covers(BooksNow(t)' - BooksNow(t) + (Flight(f, t) - Flight(Top, t)), t)
    PROVE  MoneyInv'
<1>1. TypeInv /\ TypeInv'
  BY DEF MoneyInv, OwnInv, GuardInv
<1>2. /\ Len(stack') = Depth /\ stack'[Depth] = f
      /\ \A i \in 1 .. Depth - 1 : stack'[i] = stack[i]
  BY <1>1, ContinueStack DEF TypeInv, TypeOK
<1>3. /\ Depth \in Nat \ {0} /\ Depth' = Depth /\ Depth \in 1 .. Depth /\ Depth - 1 \in Nat
      /\ \A i \in 1 .. Depth : stack'[i] \in FrameType
      /\ \A i \in 1 .. Depth : stack[i] \in FrameType
  <2>1. Depth \in Nat \ {0} /\ Depth' = Depth /\ Depth \in 1 .. Depth
    BY <1>1, <1>2, TopInStack DEF Depth, TypeInv, TypeOK
  <2>2. \A i \in 1 .. Depth : i \in 1 .. Depth - 1 \/ i = Depth
    BY <2>1
  <2>3. \A i \in 1 .. Depth : stack[i] \in FrameType
    BY <1>1, FramesTyped
  <2> QED BY <1>2, <2>1, <2>2, <2>3
<1>4. \A i \in 1 .. Depth : i \in 1 .. Depth - 1 \/ i = Depth
  BY <1>3
<1>5. SavedFunded(stack', Depth)
  <2>1. SavedFunded(stack, Depth)
    BY <1>3 DEF MoneyInv
  <2> QED BY <1>2, <1>3, <2>1, FundedSame DEF SavedFunded, Top
<1>6. ASSUME NEW i \in 1 .. Depth - 1 PROVE Placed(stack'[i]) /\ SavedFunded(stack', i)
  <2>1. i \in 1 .. Depth
    BY <1>3
  <2> QED BY <1>2, <1>3, <2>1, SavedFundedSame DEF MoneyInv
<1>7. Funded(balance', notas', hookRevenue', protocolRevenue', stack', Depth)
  <2> SUFFICES ASSUME NEW t \in Tokens
               PROVE  LET owed == BooksNow(t)' + Sum(FlightIn(stack', Depth, t), 1 .. Depth)
                      IN  /\ owed <= Held(t)'
                          /\ Registrar \notin Payees => owed = Held(t)'
    BY DEF Funded, BooksNow, Held
  <2> DEFINE below == Sum(FlightIn(stack, Depth - 1, t), 1 .. Depth - 1)
  <2>1. /\ below \in Int
        /\ Sum(FlightIn(stack, Depth, t), 1 .. Depth) = below + Flight(Top, t)
        /\ Sum(FlightIn(stack', Depth, t), 1 .. Depth) = below + Flight(f, t)
    <3>1. \A i \in 1 .. Depth - 1 : stack[i] = stack'[i]
      BY <1>2
    <3>2. Sum(FlightIn(stack, Depth, t), 1 .. Depth)
             = Sum(FlightIn(stack', Depth - 1, t), 1 .. Depth - 1) + Flight(Top, t)
      <4>1. Sum(FlightIn(stack, Depth, t), 1 .. Depth)
               = Sum(FlightIn(stack', Depth - 1, t), 1 .. Depth - 1) + Flight(stack[Depth], t)
        <5>1. Depth \in Nat \ {0} /\ \A i \in 1 .. Depth : stack[i] \in FrameType
          BY <1>3
        <5>2. \A i \in 1 .. Depth - 1 : stack'[i] = stack[i]
          BY <1>2
        <5> QED BY <5>1, <5>2, FlightLast
      <4> QED BY <4>1 DEF Top
    <3>3. below \in Int /\ Sum(FlightIn(stack', Depth, t), 1 .. Depth) = below + Flight(f, t)
      BY <1>2, <1>3, <3>1, FlightLast
    <3>4. Sum(FlightIn(stack', Depth - 1, t), 1 .. Depth - 1) = below
      BY <1>2, <1>3, FlightSame
    <3> QED BY <3>2, <3>3, <3>4
  <2>2. /\ BooksNow(t) + Sum(FlightIn(stack, Depth, t), 1 .. Depth) <= Held(t)
        /\ Registrar \notin Payees =>
              BooksNow(t) + Sum(FlightIn(stack, Depth, t), 1 .. Depth) = Held(t)
    BY DEF MoneyInv, Funded, BooksNow, Held
  <2>3. /\ BooksNow(t) \in Int /\ Held(t) \in Int /\ BooksNow(t)' \in Int /\ Held(t)' \in Int
        /\ Flight(f, t) \in Int /\ Flight(Top, t) \in Int
    BY <1>1, <1>3, BooksTyped, NextBooksTyped, FlightTyped DEF Top
  <2> HIDE DEF BooksNow, Held, Flight, FlightIn, below
  <2> QED BY SMTT(30), <2>1, <2>2, <2>3 DEF Covers
<1> QED BY <1>2, <1>3, <1>4, <1>5, <1>6, <1>7 DEF MoneyInv

LEMMA CloseFunded ==
    ASSUME MoneyInv, OwnInv', stack # <<>>, Close,
           \A t \in Tokens : Covers(BooksNow(t)' - BooksNow(t) - Flight(Top, t), t)
    PROVE  MoneyInv'
<1>1. TypeInv /\ TypeInv'
  BY DEF MoneyInv, OwnInv, GuardInv
<1>2. Len(stack') = Depth - 1 /\ \A i \in 1 .. Depth - 1 : stack'[i] = stack[i]
  BY <1>1, CloseStack DEF TypeInv, TypeOK
<1>3. /\ Depth \in Nat \ {0} /\ Depth' = Depth - 1 /\ Depth \in 1 .. Depth /\ Depth - 1 \in Nat
      /\ \A i \in 1 .. Depth : stack[i] \in FrameType
  BY <1>1, <1>2, FramesTyped, TopInStack DEF Depth, TypeInv, TypeOK
<1>4. ASSUME NEW i \in 1 .. Depth - 1 PROVE Placed(stack'[i]) /\ SavedFunded(stack', i)
  <2>1. i \in 1 .. Depth
    BY <1>3
  <2> QED BY <1>2, <1>3, <2>1, SavedFundedSame DEF MoneyInv
<1>5. Funded(balance', notas', hookRevenue', protocolRevenue', stack', Depth - 1)
  <2> SUFFICES ASSUME NEW t \in Tokens
               PROVE  LET owed == BooksNow(t)' + Sum(FlightIn(stack', Depth - 1, t), 1 .. Depth - 1)
                      IN  /\ owed <= Held(t)'
                          /\ Registrar \notin Payees => owed = Held(t)'
    BY DEF Funded, BooksNow, Held
  <2> DEFINE below == Sum(FlightIn(stack', Depth - 1, t), 1 .. Depth - 1)
  <2>1. below \in Int /\ Sum(FlightIn(stack, Depth, t), 1 .. Depth) = below + Flight(Top, t)
    BY <1>2, <1>3, FlightLast DEF Top
  <2>2. /\ BooksNow(t) + Sum(FlightIn(stack, Depth, t), 1 .. Depth) <= Held(t)
        /\ Registrar \notin Payees =>
              BooksNow(t) + Sum(FlightIn(stack, Depth, t), 1 .. Depth) = Held(t)
    BY DEF MoneyInv, Funded, BooksNow, Held
  <2>3. /\ BooksNow(t) \in Int /\ Held(t) \in Int /\ BooksNow(t)' \in Int /\ Held(t)' \in Int
        /\ Flight(Top, t) \in Int
    BY <1>1, <1>3, BooksTyped, NextBooksTyped, FlightTyped DEF Top
  <2> HIDE DEF BooksNow, Held, Flight, FlightIn, below
  <2>4. BooksNow(t)' + below <= Held(t)' /\ (Registrar \notin Payees => BooksNow(t)' + below = Held(t)')
    BY SMTT(30), <2>1, <2>2, <2>3 DEF Covers
  <2> QED BY <2>4 DEF below
<1> QED BY <1>3, <1>4, <1>5 DEF MoneyInv

LEMMA SameFunded ==
    ASSUME MoneyInv, OwnInv', UNCHANGED stack,
           \A t \in Tokens : Covers(BooksNow(t)' - BooksNow(t), t)
    PROVE  MoneyInv'
<1>1. TypeInv /\ TypeInv' /\ Depth' = Depth /\ Depth \in Nat
  BY FramesTyped DEF MoneyInv, OwnInv, GuardInv, Depth
<1>2. Funded(balance', notas', hookRevenue', protocolRevenue', stack, Depth)
  <2> SUFFICES ASSUME NEW t \in Tokens
               PROVE  LET owed == BooksNow(t)' + Sum(FlightIn(stack, Depth, t), 1 .. Depth)
                      IN  /\ owed <= Held(t)'
                          /\ Registrar \notin Payees => owed = Held(t)'
    BY DEF Funded, BooksNow, Held
  <2>1. /\ BooksNow(t) + Sum(FlightIn(stack, Depth, t), 1 .. Depth) <= Held(t)
        /\ Registrar \notin Payees =>
              BooksNow(t) + Sum(FlightIn(stack, Depth, t), 1 .. Depth) = Held(t)
    BY DEF MoneyInv, Funded, BooksNow, Held
  <2>2. /\ BooksNow(t) \in Int /\ Held(t) \in Int /\ BooksNow(t)' \in Int /\ Held(t)' \in Int
    BY <1>1, BooksTyped, NextBooksTyped
  <2>3. Sum(FlightIn(stack, Depth, t), 1 .. Depth) \in Int
    BY <1>1, FramesTyped, FlightsTyped
  <2> HIDE DEF BooksNow, Held, FlightIn
  <2> QED BY <2>1, <2>2, <2>3 DEF Covers
<1> QED BY <1>1, <1>2 DEF MoneyInv, SavedFunded

LEMMA RevertFunded ==
    ASSUME MoneyInv, OwnInv', Revert
    PROVE  MoneyInv'
<1>1. TypeInv
  BY DEF MoneyInv, OwnInv, GuardInv
<1>2. /\ stack # <<>> /\ Len(stack') = Depth - 1
      /\ \A i \in 1 .. Depth - 1 : stack'[i] = stack[i]
  BY <1>1, CloseStack DEF Revert, TypeInv, TypeOK
<1>3. Depth \in Nat \ {0} /\ Depth' = Depth - 1 /\ Depth \in 1 .. Depth /\ Depth - 1 \in Nat
  BY <1>1, <1>2, TopInStack DEF Depth, TypeInv, TypeOK
<1>4. ASSUME NEW i \in 1 .. Depth - 1 PROVE Placed(stack'[i]) /\ SavedFunded(stack', i)
  <2>1. i \in 1 .. Depth
    BY <1>3
  <2> QED BY <1>2, <1>3, <2>1, SavedFundedSame DEF MoneyInv
<1>5. SavedFunded(stack, Depth)
  BY <1>3 DEF MoneyInv
<1>6. Funded(balance', notas', hookRevenue', protocolRevenue', stack, Depth - 1)
  BY <1>5 DEF SavedFunded, Revert, Top
<1>7. Funded(balance', notas', hookRevenue', protocolRevenue', stack', Depth - 1)
  BY <1>2, <1>3, <1>6, FundedSame
<1> QED BY <1>3, <1>4, <1>7 DEF MoneyInv

-----------------------------------------------------------------------------
(* What the parts of an operation do to the books.                         *)

EscrowsNow(t) == Sum(EscrowIn(notas, t), Ids)
RevenuesNow(t) == Sum(RevenueIn(hookRevenue, t), Contracts)

LEMMA EscrowMoves ==
    ASSUME TypeInv, TypeInv', NEW id \in Ids, \A i \in Ids \ {id} : notas'[i] = notas[i], NEW t
    PROVE  EscrowsNow(t)' = EscrowsNow(t) + (EscrowIn(notas', t)[id] - EscrowIn(notas, t)[id])
<1>1. notas \in [Ids -> NotaType] /\ notas' \in [Ids -> NotaType]
  BY DEF TypeInv, TypeOK, NotasTypeOK
<1> HIDE DEF EscrowIn
<1> QED BY <1>1, EscrowChange DEF EscrowsNow

LEMMA CreditMoves ==
    ASSUME TypeInv, TypeInv', NEW h \in Contracts, NEW c \in Tokens, NEW amount \in Int,
           CreditHook(h, c, amount), NEW t \in Tokens
    PROVE  /\ RevenuesNow(t)' = RevenuesNow(t) + (IF t = c THEN amount ELSE 0)
           /\ UNCHANGED protocolRevenue
<1>1. /\ hookRevenue \in [Contracts -> [Tokens -> Uint]]
      /\ hookRevenue' \in [Contracts -> [Tokens -> Uint]]
  BY DEF TypeInv, TypeOK, GovTypeOK
<1>2. /\ hookRevenue' = [hookRevenue EXCEPT ![h][c] = hookRevenue[h][c] + amount]
      /\ UNCHANGED protocolRevenue
  BY DEF CreditHook
<1>3. /\ \A k \in Contracts \ {h} : hookRevenue'[k][t] = hookRevenue[k][t]
      /\ hookRevenue'[h][t] - hookRevenue[h][t] = IF t = c THEN amount ELSE 0
  BY <1>1, <1>2, UintAssumption DEF Uint
<1> HIDE DEF RevenueIn
<1>4. RevenuesNow(t)' = RevenuesNow(t) + (hookRevenue'[h][t] - hookRevenue[h][t])
  BY <1>1, <1>3, RevenueChange DEF RevenuesNow
<1> QED BY <1>2, <1>3, <1>4

LEMMA NowTyped ==
    ASSUME TypeInv, NEW t \in Tokens
    PROVE  EscrowsNow(t) \in Int /\ RevenuesNow(t) \in Int /\ protocolRevenue[t] \in Int
<1>1. /\ notas \in [Ids -> NotaType] /\ hookRevenue \in [Contracts -> [Tokens -> Uint]]
      /\ protocolRevenue \in [Tokens -> Uint]
  BY DEF TypeInv, TypeOK, NotasTypeOK, GovTypeOK
<1> HIDE DEF EscrowIn, RevenueIn
<1> QED BY <1>1, SumsTyped, UintAssumption DEF EscrowsNow, RevenuesNow, Uint

LEMMA BooksParts ==
    ASSUME NEW t
    PROVE  /\ BooksNow(t) = EscrowsNow(t) + RevenuesNow(t) + protocolRevenue[t]
           /\ BooksNow(t)' = EscrowsNow(t)' + RevenuesNow(t)' + protocolRevenue'[t]
  BY DEF BooksNow, Books, EscrowsNow, RevenuesNow

\* A fee that is deducted goes from the nota's escrow to its hook.
LEMMA DeductBooks ==
    ASSUME TypeInv, TypeInv', stack # <<>>, NEW fee \in Uint, DeductFee(fee),
           Top.id \in Ids, notas[Top.id].currency = Top.nota.currency,
           Top.nota.currency \in Tokens, Top.nota.hooks \in Contracts, NEW t \in Tokens
    PROVE  BooksNow(t)' = BooksNow(t)
<1> DEFINE id == Top.id
           c == Top.nota.currency
<1>1. notas \in [Ids -> NotaType] /\ fee \in Int
  BY UintAssumption DEF TypeInv, TypeOK, NotasTypeOK, Uint
<1>2. notas[id].escrowed \in Int
  BY <1>1, UintAssumption DEF NotaType, Uint
<1>3. /\ notas' = [notas EXCEPT ![id].escrowed = notas[id].escrowed - fee]
      /\ CreditHook(Top.nota.hooks, c, fee)
  BY DEF DeductFee
<1>4. EscrowIn(notas', t)[id] - EscrowIn(notas, t)[id] = IF t = c THEN -fee ELSE 0
  BY <1>1, <1>2, <1>3 DEF EscrowIn, NotaType
<1>5. EscrowsNow(t)' = EscrowsNow(t) + (IF t = c THEN -fee ELSE 0)
  BY <1>1, <1>3, <1>4, EscrowMoves
<1>6. /\ RevenuesNow(t)' = RevenuesNow(t) + (IF t = c THEN fee ELSE 0)
      /\ UNCHANGED protocolRevenue
  BY <1>1, <1>3, CreditMoves
<1> QED BY <1>1, <1>5, <1>6, BooksParts, NowTyped
-----------------------------------------------------------------------------
(* The actions                                                             *)

LEMMA TopMoney ==
    ASSUME MoneyInv, stack # <<>>
    PROVE  /\ Top \in FrameType /\ WellOpened(Top) /\ Placed(Top)
           /\ Top.amount \in Nat /\ Top.fee \in Nat /\ Top.instant \in Nat
           /\ Top.nota.escrowed \in Nat
           /\ Top.at = "pay" => Top.fee <= Top.amount
           /\ Top.fn \in Guarded \ {"write"} /\ Top.at # "received" =>
                 /\ Top.id \in Ids /\ notas[Top.id].currency = Top.nota.currency
                 /\ notas[Top.id].escrowed = EscrowNow(Top)
<1>1. Depth \in 1 .. Depth
  BY TopInStack DEF MoneyInv, OwnInv, GuardInv, TypeInv, TypeOK
<1>2. Top \in FrameType /\ WellOpened(Top)
  BY TopOwned DEF MoneyInv
<1>3. Placed(Top)
  BY <1>1 DEF MoneyInv, Top
<1>4. /\ Top.amount \in Nat /\ Top.fee \in Nat /\ Top.instant \in Nat
      /\ Top.nota.escrowed \in Nat
  BY <1>2, UintAssumption DEF FrameType, NotaType, Uint
<1>5. Top.at = "pay" => Top.fee <= Top.amount
  BY TopTyped DEF MoneyInv, OwnInv, GuardInv, PaySound
<1> QED BY <1>2, <1>3, <1>4, <1>5, TopOwned DEF MoneyInv

LEMMA BooksKept ==
    ASSUME UNCHANGED <<notas, hookRevenue, protocolRevenue>>, NEW t
    PROVE  BooksNow(t)' = BooksNow(t)
  BY DEF BooksNow

LEMMA HeldKept == ASSUME UNCHANGED balance, NEW t PROVE Held(t)' = Held(t)
  BY DEF Held

LEMMA CallsMoney == MoneyInv /\ Calls => MoneyInv'
<1> SUFFICES ASSUME MoneyInv, Calls PROVE MoneyInv'
  OBVIOUS
<1>1. OwnInv /\ OwnInv' /\ TypeInv
  BY CallsOwned DEF MoneyInv, OwnInv, GuardInv
<1>2. PICK f : Opened(f) /\ Enter(f)
  BY <1>1, CallsOpen DEF OwnInv
<1>3. f \in FrameType /\ f.saved = Storage /\ f.at = "hook" /\ f.fn \in Guarded /\ Open(f)
  BY <1>2 DEF Opened, Enter
<1>4. UNCHANGED <<balance, notas, hookRevenue, protocolRevenue>>
  BY <1>2 DEF Enter, govVars
<1>5. Placed(f)
  BY <1>3 DEF Placed
<1>6. \A t : Flight(f, t) = 0
  BY <1>3 DEF Flight, Uncredited, Unpaid, FeeKept
<1>7. ASSUME NEW t \in Tokens
      PROVE  Covers(BooksNow(t)' - BooksNow(t) + Flight(f, t), t)
  BY <1>1, <1>4, <1>6, BooksKept, HeldKept, BooksTyped DEF Covers
<1> QED BY <1>1, <1>3, <1>5, <1>7, OpenFunded

\* After the hook's answer, the call waits at another point and the storage is as it was.
LEMMA DepositHookedMoney ==
    ASSUME MoneyInv, OwnInv', NEW fee \in Fees, DepositHooked(fee)
    PROVE  MoneyInv'
<1>1. TypeInv
  BY DEF MoneyInv, OwnInv, GuardInv
<1> DEFINE p == IF ToEscrow(Top.amount, fee) > 0 THEN "pull" ELSE AfterPull
           f == [Top EXCEPT !.fee = fee, !.at = p]
<1>2. /\ stack # <<>> /\ Continue(f) /\ Top.at = "hook" /\ Top.fn \in Deposits
      /\ UNCHANGED <<balance, notas, hookRevenue, protocolRevenue>>
  BY DEF DepositHooked, At, storageVars, govVars
<1>3. /\ Top \in FrameType /\ Top.amount \in Nat /\ fee \in Uint /\ fee \in Nat
  BY <1>2, TopMoney, InputAssumption, UintAssumption DEF Uint
<1>4. /\ p \in Points /\ p \in {"pull", "forward", "finish"}
      /\ p # "pull" => Top.amount + fee = 0
  BY <1>3 DEF Points, External, AfterPull, ToEscrow
<1> HIDE DEF p
<1>5. f \in FrameType
  BY <1>3, <1>4, FrameMoves
<1>6. /\ f.fn = Top.fn /\ f.nota = Top.nota /\ f.amount = Top.amount /\ f.saved = Top.saved
      /\ f.at = p /\ f.fee = fee
  BY <1>3 DEF FrameType
<1> HIDE DEF f
<1>7. Placed(f)
  BY <1>2, <1>4, <1>6 DEF Placed
<1>8. ASSUME NEW t \in Tokens
      PROVE  Covers(BooksNow(t)' - BooksNow(t) + (Flight(f, t) - Flight(Top, t)), t)
  <2>1. Flight(f, t) = 0 /\ Flight(Top, t) = 0
    BY <1>2, <1>3, <1>4, <1>6 DEF Flight, Uncredited, Unpaid, FeeKept, Deposits
  <2> QED BY <1>1, <1>2, <2>1, BooksKept, HeldKept, BooksTyped DEF Covers
<1> QED BY <1>2, <1>5, <1>6, <1>7, <1>8, ContinueFunded

\* A cash takes its amount out of the escrow: a payment and a fee are in flight.
LEMMA CashHookedMoney ==
    ASSUME MoneyInv, OwnInv', NEW fee \in Fees, CashHooked(fee)
    PROVE  MoneyInv'
<1>1. TypeInv /\ TypeInv'
  BY DEF MoneyInv, OwnInv, GuardInv
<1> DEFINE p == IF Top.amount > fee THEN "pay" ELSE "finish"
           f == [Top EXCEPT !.fee = fee, !.at = p]
<1>2. /\ stack # <<>> /\ Continue(f) /\ Top.at = "hook" /\ Top.fn = "cash" /\ fee <= Top.amount
      /\ notas' = [notas EXCEPT ![Top.id].escrowed = notas[Top.id].escrowed - Top.amount]
      /\ UNCHANGED <<balance, hookRevenue, protocolRevenue>>
  BY DEF CashHooked, At, govVars
<1>3. /\ Top \in FrameType /\ Top.amount \in Nat /\ fee \in Uint /\ fee \in Nat
      /\ Top.id \in Ids /\ notas[Top.id].currency = Top.nota.currency
  BY <1>2, TopMoney, InputAssumption, UintAssumption DEF Uint, Guarded
<1>4. /\ p \in Points /\ p \in {"pay", "finish"} /\ (p = "finish" => fee = Top.amount)
  BY <1>2, <1>3 DEF Points, External
<1> HIDE DEF p
<1>5. f \in FrameType
  BY <1>3, <1>4, FrameMoves
<1>6. /\ f.fn = Top.fn /\ f.nota = Top.nota /\ f.amount = Top.amount /\ f.saved = Top.saved
      /\ f.at = p /\ f.fee = fee
  BY <1>3 DEF FrameType
<1> HIDE DEF f
<1>7. Placed(f)
  BY <1>2, <1>4, <1>6 DEF Placed, Guarded
<1>8. ASSUME NEW t \in Tokens
      PROVE  Covers(BooksNow(t)' - BooksNow(t) + (Flight(f, t) - Flight(Top, t)), t)
  <2>1. Flight(Top, t) = 0
    BY <1>2 DEF Flight, Uncredited, Unpaid, FeeKept, Deposits
  <2>2. Flight(f, t) = IF t = Top.nota.currency THEN Top.amount ELSE 0
    BY <1>2, <1>3, <1>4, <1>6 DEF Flight, Uncredited, Unpaid, FeeKept, Deposits
  <2>3. notas \in [Ids -> NotaType] /\ notas[Top.id].escrowed \in Int
    BY <1>1, <1>3, UintAssumption DEF TypeInv, TypeOK, NotasTypeOK, NotaType, Uint
  <2>4. EscrowIn(notas', t)[Top.id] - EscrowIn(notas, t)[Top.id]
           = IF t = Top.nota.currency THEN -Top.amount ELSE 0
    BY <1>2, <1>3, <2>3 DEF EscrowIn, NotaType
  <2>5. EscrowsNow(t)' = EscrowsNow(t) + (IF t = Top.nota.currency THEN -Top.amount ELSE 0)
    BY <1>1, <1>2, <1>3, <2>3, <2>4, EscrowMoves
  <2>6. RevenuesNow(t)' = RevenuesNow(t) /\ protocolRevenue'[t] = protocolRevenue[t]
    BY <1>2 DEF RevenuesNow
  <2>7. BooksNow(t)' - BooksNow(t) + (Flight(f, t) - Flight(Top, t)) = 0
    BY <1>1, <1>3, <2>1, <2>2, <2>5, <2>6, BooksParts, NowTyped
  <2>8. Held(t) \in Int /\ Held(t)' = Held(t)
    BY <1>1, <1>2, BooksTyped, HeldKept
  <2> QED BY <2>7, <2>8 DEF Covers
<1> QED BY <1>2, <1>5, <1>6, <1>7, <1>8, ContinueFunded

\* Approvals, transfers and updates pay their hook from the escrow, at once.
LEMMA DeductMoney ==
    ASSUME MoneyInv, OwnInv', NEW fee \in Fees, stack # <<>>, Top.at = "hook",
           Top.fn \in {"approve", "update"} \cup Transfers, DeductFee(fee), UNCHANGED balance,
           \/ Close
           \/ Top.fn = "safeTransferFrom" /\ Continue([Top EXCEPT !.fee = fee, !.at = "received"])
    PROVE  MoneyInv'
<1>1. TypeInv /\ TypeInv' /\ fee \in Uint
  BY InputAssumption DEF MoneyInv, OwnInv, GuardInv
<1>2. /\ Top \in FrameType /\ WellOpened(Top) /\ Top.id \in Ids
      /\ notas[Top.id].currency = Top.nota.currency /\ Top.fn \in Guarded
  BY TopMoney DEF Guarded, Transfers
<1>3. \A t : Flight(Top, t) = 0
  BY DEF Flight, Uncredited, Unpaid, FeeKept, Deposits, Transfers
<1>4. ASSUME NEW t \in Tokens
      PROVE  /\ BooksNow(t)' = BooksNow(t) /\ Held(t)' = Held(t)
             /\ BooksNow(t) \in Int /\ Held(t) \in Int
  BY <1>1, <1>2, DeductBooks, HeldKept, BooksTyped DEF WellOpened
<1>5. CASE Close
  <2>1. \A t \in Tokens : Covers(BooksNow(t)' - BooksNow(t) - Flight(Top, t), t)
    BY <1>3, <1>4 DEF Covers
  <2> QED BY <1>5, <2>1, CloseFunded
<1>6. CASE Top.fn = "safeTransferFrom" /\ Continue([Top EXCEPT !.fee = fee, !.at = "received"])
  <2> DEFINE f == [Top EXCEPT !.fee = fee, !.at = "received"]
  <2>1. "received" \in Points
    BY DEF Points, External
  <2>2. f \in FrameType
    BY <1>1, <1>2, <2>1, FrameMoves
  <2>3. f.fn = Top.fn /\ f.at = "received" /\ f.saved = Top.saved
    BY <1>2 DEF FrameType
  <2> HIDE DEF f
  <2>4. Placed(f) /\ \A t : Flight(f, t) = 0
    BY <1>6, <2>3 DEF Placed, Flight, Uncredited, Unpaid, FeeKept, Deposits
  <2>5. \A t \in Tokens : Covers(BooksNow(t)' - BooksNow(t) + (Flight(f, t) - Flight(Top, t)), t)
    BY <1>3, <1>4, <2>4 DEF Covers
  <2> QED BY <1>6, <2>2, <2>3, <2>4, <2>5, ContinueFunded DEF f
<1> QED BY <1>5, <1>6

\* A burn gives the whole escrow, as it was before the hook ran, to the hook.
LEMMA BurnMoney ==
    ASSUME MoneyInv, OwnInv', BurnHooked
    PROVE  MoneyInv'
<1>1. TypeInv /\ TypeInv'
  BY DEF MoneyInv, OwnInv, GuardInv
<1>2. /\ stack # <<>> /\ Close /\ Top.at = "hook" /\ Top.fn = "burn"
      /\ CreditHook(Top.nota.hooks, Top.nota.currency, Top.nota.escrowed)
      /\ notas' = [notas EXCEPT ![Top.id] = Blank] /\ UNCHANGED balance
  BY DEF BurnHooked, At, Leave
<1>3. /\ Top \in FrameType /\ Top.nota.hooks \in Contracts /\ Top.nota.currency \in Tokens
      /\ Top.id \in Ids /\ notas[Top.id].currency = Top.nota.currency
      /\ notas[Top.id].escrowed = Top.nota.escrowed /\ Top.nota.escrowed \in Int
  BY <1>2, TopMoney DEF WellOpened, Guarded, EscrowNow
<1>4. ASSUME NEW t \in Tokens PROVE Covers(BooksNow(t)' - BooksNow(t) - Flight(Top, t), t)
  <2> DEFINE part == IF t = Top.nota.currency THEN Top.nota.escrowed ELSE 0
  <2>1. Flight(Top, t) = 0
    BY <1>2 DEF Flight, Uncredited, Unpaid, FeeKept, Deposits
  <2>2. notas \in [Ids -> NotaType] /\ t # Zero
    BY <1>1, AddressAssumption DEF TypeInv, TypeOK, NotasTypeOK
  <2>3. EscrowIn(notas', t)[Top.id] - EscrowIn(notas, t)[Top.id] = -part
    BY <1>2, <1>3, <2>2 DEF EscrowIn, Blank
  <2>4. EscrowsNow(t)' = EscrowsNow(t) + -part
    BY <1>1, <1>2, <1>3, <2>2, <2>3, EscrowMoves
  <2>5. RevenuesNow(t)' = RevenuesNow(t) + part /\ UNCHANGED protocolRevenue
    BY <1>1, <1>2, <1>3, CreditMoves
  <2>6. BooksNow(t)' = BooksNow(t)
    BY <1>1, <1>3, <2>4, <2>5, BooksParts, NowTyped
  <2> QED BY <1>1, <1>2, <2>1, <2>6, HeldKept, BooksTyped DEF Covers
<1> QED BY <1>2, <1>4, CloseFunded

LEMMA AnswersMoney == MoneyInv /\ Answers => MoneyInv'
<1> SUFFICES ASSUME MoneyInv, Answers PROVE MoneyInv'
  OBVIOUS
<1>1. OwnInv' /\ TypeInv
  BY AnswersOwned DEF MoneyInv, OwnInv, GuardInv
<1>2. ASSUME NEW fee \in Fees,
             ApproveHooked(fee) \/ TransferHooked(fee) \/ SafeTransferHooked(fee) \/ UpdateHooked(fee)
      PROVE  MoneyInv'
  <2>1. /\ stack # <<>> /\ Top.at = "hook" /\ Top.fn \in {"approve", "update"} \cup Transfers
        /\ DeductFee(fee) /\ UNCHANGED balance
        /\ \/ Close
           \/ Top.fn = "safeTransferFrom" /\ Continue([Top EXCEPT !.fee = fee, !.at = "received"])
    BY <1>2 DEF ApproveHooked, TransferHooked, SafeTransferHooked, UpdateHooked, At, Leave, Transfers
  <2> QED BY <1>1, <2>1, DeductMoney
<1>3. CASE Received
  <2>1. /\ stack # <<>> /\ Close /\ Top.at = "received" /\ Top.fn = "safeTransferFrom"
        /\ UNCHANGED <<balance, notas, hookRevenue, protocolRevenue>>
    BY <1>3 DEF Received, At, Leave, govVars
  <2>2. \A t : Flight(Top, t) = 0
    BY <2>1 DEF Flight, Uncredited, Unpaid, FeeKept, Deposits
  <2>3. \A t \in Tokens : Covers(BooksNow(t)' - BooksNow(t) - Flight(Top, t), t)
    BY <1>1, <2>1, <2>2, BooksKept, HeldKept, BooksTyped DEF Covers
  <2> QED BY <1>1, <2>1, <2>3, CloseFunded
<1> QED BY <1>1, <1>2, <1>3, DepositHookedMoney, CashHookedMoney, BurnMoney DEF Answers

\* What a token transfer does to the registrar's balance.
LEMMA MoveHeld ==
    ASSUME TypeInv, NEW c \in Tokens, NEW from \in Address, NEW to, NEW amount \in Int,
           to \in AddressOrZero, Move(c, from, to, amount), NEW t \in Tokens
    PROVE  Held(t)' - Held(t)
              = IF t # c \/ from = to THEN 0
                ELSE IF to = Registrar THEN amount
                ELSE IF from = Registrar THEN -amount ELSE 0
<1>1. /\ balance \in [Tokens -> [Address -> Uint]] /\ to \in Address /\ Registrar \in Address
      /\ \A u \in Tokens, a \in Address : balance[u][a] \in Int
  <2>1. balance \in [Tokens -> [Address -> Uint]] /\ to \in Address /\ Registrar \in Address
    BY DEF TypeInv, TypeOK, BalanceTypeOK, Move, AddressOrZero, Address
  <2>2. \A u \in Uint : u \in Int
    BY UintAssumption DEF Uint
  <2> QED BY <2>1, <2>2
<1>2. CASE from = to
  BY <1>1, <1>2 DEF Move, Held
<1>3. CASE from # to
  <2>1. balance' = [balance EXCEPT ![c][from] = balance[c][from] - amount,
                                   ![c][to] = balance[c][to] + amount]
    BY <1>1, <1>3 DEF Move
  <2>2. /\ t # c => balance'[t] = balance[t]
        /\ balance'[c][from] = balance[c][from] - amount
        /\ balance'[c][to] = balance[c][to] + amount
        /\ \A a \in Address \ {from, to} : balance'[c][a] = balance[c][a]
    BY <1>1, <1>3, <2>1
  <2> QED BY <1>1, <1>3, <2>2 DEF Held
<1> QED BY <1>2, <1>3

\* What the innermost call has in flight if it has got to point p.
Due(p) ==
    (IF Top.fn \in Deposits /\ p \in {"pulled", "forward", "forwarded", "finish"}
     THEN Top.amount + Top.fee ELSE 0)
    + (IF p = "pay" THEN Top.amount - Top.fee ELSE 0)
    + (IF Top.fn = "cash" /\ p \in {"pay", "paid", "finish"} THEN Top.fee ELSE 0)

LEMMA TokenStepMoney ==
    ASSUME MoneyInv, OwnInv', stack # <<>>, NEW q \in Points, Continue([Top EXCEPT !.at = q]),
           UNCHANGED <<notas, hookRevenue, protocolRevenue>>,
           \/ q \in {"pulled", "forward", "forwarded", "finish"} /\ Top.fn \in Deposits
           \/ q \in {"paid", "finish"} /\ Top.fn \in {"cash"} \cup Withdraws,
           \A t \in Tokens :
              Covers(IF Top.nota.currency = t THEN Due(q) - Due(Top.at) ELSE 0, t)
    PROVE  MoneyInv'
<1>1. TypeInv /\ TypeInv'
  BY DEF MoneyInv, OwnInv, GuardInv
<1>2. /\ Top \in FrameType /\ Top.fee \in Uint /\ Top.amount \in Int /\ Top.fee \in Int
  BY TopMoney DEF FrameType
<1> DEFINE f == [Top EXCEPT !.at = q]
<1>3. f \in FrameType
  BY <1>2, FrameMoves
<1>4. /\ f.fn = Top.fn /\ f.nota = Top.nota /\ f.amount = Top.amount /\ f.fee = Top.fee
      /\ f.at = q /\ f.saved = Top.saved
  BY <1>2 DEF FrameType
<1>5. Continue(f)
  OBVIOUS
<1> HIDE DEF f
<1>6. Placed(f)
  BY <1>4 DEF Placed
<1>7. ASSUME NEW t \in Tokens
      PROVE  Covers(BooksNow(t)' - BooksNow(t) + (Flight(f, t) - Flight(Top, t)), t)
  <2>1. Flight(f, t) - Flight(Top, t) = IF Top.nota.currency = t THEN Due(q) - Due(Top.at) ELSE 0
    BY <1>4 DEF Flight, Due, Uncredited, Unpaid, FeeKept
  <2>2. BooksNow(t)' = BooksNow(t) /\ BooksNow(t) \in Int
    BY <1>1, BooksKept, BooksTyped
  <2>3. Flight(f, t) \in Int /\ Flight(Top, t) \in Int
    BY <1>2, <1>3, FlightTyped
  <2>4. BooksNow(t)' - BooksNow(t) + (Flight(f, t) - Flight(Top, t)) = Flight(f, t) - Flight(Top, t)
    BY <2>2, <2>3
  <2>5. Covers(IF Top.nota.currency = t THEN Due(q) - Due(Top.at) ELSE 0, t)
    OBVIOUS
  <2> HIDE DEF Covers, BooksNow, Flight, Due
  <2> QED BY <2>1, <2>4, <2>5
<1> QED BY <1>3, <1>4, <1>5, <1>6, <1>7, ContinueFunded

LEMMA TokenStepsMoney == MoneyInv /\ TokenSteps => MoneyInv'
<1> SUFFICES ASSUME MoneyInv, TokenSteps PROVE MoneyInv'
  OBVIOUS
<1>1. OwnInv' /\ TypeInv
  BY TokenStepsOwned DEF MoneyInv, OwnInv, GuardInv
<1>2. /\ stack # <<>> /\ UNCHANGED <<notas, hookRevenue, protocolRevenue>>
  BY DEF TokenSteps, Pulls, PullReturns, Forwards, ForwardReturns, Pays, PayReturns,
         TokenMoves, TokenReturns, At, storageVars, govVars
<1>3. /\ Top \in FrameType /\ WellOpened(Top) /\ Placed(Top) /\ Top.amount \in Nat
      /\ Top.fee \in Nat /\ Top.instant \in Nat
      /\ Top.at = "pay" => Top.fee <= Top.amount
  BY <1>2, TopMoney
<1>4. /\ Top.caller \in Address /\ Top.caller # Registrar /\ Registrar \in Address
      /\ Top.nota.currency \in Tokens /\ Top.to \in AddressOrZero
      /\ Top.fn \notin {"approve", "burn", "update"} => Top.to \in Payees
  BY <1>3, AddressAssumption DEF FrameType, Address, WellOpened
<1>5. /\ AfterPull \in {"forward", "finish"} /\ AfterPull \in Points
      /\ {"pulled", "forwarded", "paid", "finish"} \subseteq Points
  BY DEF AfterPull, Points, External
<1>6. \A t \in Tokens : Held(t) \in Int
  BY <1>1, BooksTyped
<1>7. CASE PullReturns \/ ForwardReturns \/ PayReturns
  <2>1. PICK q \in Points :
           /\ Continue([Top EXCEPT !.at = q]) /\ UNCHANGED balance
           /\ \/ Top.at = "pulled" /\ q \in {"forward", "finish"}
              \/ Top.at = "forwarded" /\ q = "finish"
              \/ Top.at = "paid" /\ q = "finish"
    BY <1>5, <1>7 DEF PullReturns, ForwardReturns, PayReturns, TokenReturns, At, storageVars
  <2>2. \/ q \in {"pulled", "forward", "forwarded", "finish"} /\ Top.fn \in Deposits
        \/ q \in {"paid", "finish"} /\ Top.fn \in {"cash"} \cup Withdraws
    BY <1>3, <2>1 DEF Placed
  <2>3. Due(q) - Due(Top.at) = 0
    BY <1>3, <2>1 DEF Due, Placed, Deposits, Withdraws
  <2>4. \A t \in Tokens : Covers(IF Top.nota.currency = t THEN Due(q) - Due(Top.at) ELSE 0, t)
    BY <1>6, <2>1, <2>3, HeldKept DEF Covers
  <2> QED BY <1>1, <1>2, <2>1, <2>2, <2>4, TokenStepMoney
<1>8. CASE Pulls
  <2> DEFINE sum == Top.amount + Top.fee
  <2>1. /\ Top.at = "pull" /\ Continue([Top EXCEPT !.at = "pulled"])
        /\ Move(Top.nota.currency, Top.caller, Registrar, sum)
    BY <1>8 DEF Pulls, TokenMoves, At, ToEscrow
  <2>2. Top.fn \in Deposits
    BY <1>3, <2>1 DEF Placed
  <2>3. Due("pulled") - Due(Top.at) = sum
    BY <1>3, <2>1, <2>2 DEF Due, Deposits
  <2>4. Registrar \in AddressOrZero /\ sum \in Int
    BY <1>3, <1>4 DEF AddressOrZero
  <2>5. \A t \in Tokens : Held(t)' - Held(t) = IF Top.nota.currency = t THEN sum ELSE 0
    BY <1>1, <1>4, <2>1, <2>4, MoveHeld
  <2>6. \A t \in Tokens :
           Covers(IF Top.nota.currency = t THEN Due("pulled") - Due(Top.at) ELSE 0, t)
    BY <2>3, <2>4, <2>5 DEF Covers
  <2> QED BY <1>1, <1>2, <1>5, <2>1, <2>2, <2>6, TokenStepMoney
<1>9. CASE Forwards
  <2>1. /\ Top.at = "forward" /\ Continue([Top EXCEPT !.at = "forwarded"])
        /\ Move(Top.nota.currency, Top.caller, Top.to, Top.instant)
    BY <1>9 DEF Forwards, TokenMoves, At
  <2>2. Top.fn \in Deposits /\ Top.to \in Payees
    BY <1>3, <1>4, <2>1 DEF Placed, Deposits
  <2>3. Due("forwarded") - Due(Top.at) = 0
    BY <1>3, <2>1, <2>2 DEF Due, Deposits
  <2>4. \A t \in Tokens :
           Held(t)' - Held(t) = IF t # Top.nota.currency \/ Top.caller = Top.to THEN 0
                                ELSE IF Top.to = Registrar THEN Top.instant ELSE 0
    BY <1>1, <1>3, <1>4, <2>1, MoveHeld
  <2>5. \A t \in Tokens :
           Covers(IF Top.nota.currency = t THEN Due("forwarded") - Due(Top.at) ELSE 0, t)
    BY <1>3, <2>2, <2>3, <2>4 DEF Covers
  <2> QED BY <1>1, <1>2, <1>5, <2>1, <2>2, <2>5, TokenStepMoney
<1>10. CASE Pays
  <2> DEFINE paid == Top.amount - Top.fee
  <2>1. /\ Top.at = "pay" /\ Continue([Top EXCEPT !.at = "paid"])
        /\ Move(Top.nota.currency, Registrar, Top.to, paid)
    BY <1>10 DEF Pays, TokenMoves, At
  <2>2. Top.fn \in {"cash"} \cup Withdraws /\ Top.to \in Payees /\ paid \in Nat
    BY <1>3, <1>4, <2>1 DEF Placed, Withdraws
  <2>3. Due("paid") - Due(Top.at) = -paid
    BY <1>3, <2>1, <2>2 DEF Due, Deposits, Withdraws
  <2>4. \A t \in Tokens :
           Held(t)' - Held(t) = IF t # Top.nota.currency \/ Top.to = Registrar THEN 0 ELSE -paid
    BY <1>1, <1>4, <2>1, <2>2, MoveHeld
  <2>5. \A t \in Tokens :
           Covers(IF Top.nota.currency = t THEN Due("paid") - Due(Top.at) ELSE 0, t)
    BY <2>2, <2>3, <2>4 DEF Covers
  <2> QED BY <1>1, <1>2, <1>5, <2>1, <2>2, <2>5, TokenStepMoney
<1> QED BY <1>7, <1>8, <1>9, <1>10 DEF TokenSteps

\* A call that ends by crediting a fee to its hook, and perhaps an amount to its nota.
LEMMA CreditMoney ==
    ASSUME MoneyInv, OwnInv', stack # <<>>, Close, UNCHANGED balance, NEW id \in Ids,
           CreditHook(Top.nota.hooks, Top.nota.currency, Top.fee), Top.nota.hooks \in Contracts,
           \A i \in Ids \ {id} : notas'[i] = notas[i],
           \A t \in Tokens :
              EscrowIn(notas', t)[id] - EscrowIn(notas, t)[id] + (IF t = Top.nota.currency THEN Top.fee ELSE 0)
                 = Flight(Top, t)
    PROVE  MoneyInv'
<1>1. TypeInv /\ TypeInv'
  BY DEF MoneyInv, OwnInv, GuardInv
<1>2. Top \in FrameType /\ Top.fee \in Int /\ Top.nota.currency \in Tokens
  BY TopMoney DEF WellOpened
<1>3. ASSUME NEW t \in Tokens PROVE Covers(BooksNow(t)' - BooksNow(t) - Flight(Top, t), t)
  <2> DEFINE e == EscrowIn(notas', t)[id] - EscrowIn(notas, t)[id]
             part == IF t = Top.nota.currency THEN Top.fee ELSE 0
  <2>1. EscrowsNow(t)' = EscrowsNow(t) + e
    BY <1>1, EscrowMoves
  <2>2. RevenuesNow(t)' = RevenuesNow(t) + part /\ protocolRevenue'[t] = protocolRevenue[t]
    BY <1>1, <1>2, CreditMoves
  <2>3. e + part = Flight(Top, t)
    OBVIOUS
  <2>4. Flight(Top, t) \in Int /\ part \in Int
    BY <1>2, FlightTyped
  <2>5. e \in Int
    BY <1>1, UintAssumption DEF TypeInv, TypeOK, NotasTypeOK, NotaType, Uint, EscrowIn
  <2> HIDE DEF e, part
  <2>6. BooksNow(t)' - BooksNow(t) = Flight(Top, t)
    BY <1>1, <2>1, <2>2, <2>3, <2>4, <2>5, BooksParts, NowTyped
  <2>7. BooksNow(t)' - BooksNow(t) - Flight(Top, t) = 0
    BY <2>4, <2>6
  <2>8. Held(t) \in Int /\ Held(t)' = Held(t)
    BY <1>1, BooksTyped, HeldKept
  <2> QED BY <2>7, <2>8 DEF Covers
<1> QED BY <1>3, CloseFunded

LEMMA FinishesMoney == MoneyInv /\ Finishes => MoneyInv'
<1> SUFFICES ASSUME MoneyInv, Finishes PROVE MoneyInv'
  OBVIOUS
<1>1. OwnInv' /\ TypeInv /\ notas \in [Ids -> NotaType]
  BY FinishesOwned DEF MoneyInv, OwnInv, GuardInv, TypeInv, TypeOK, NotasTypeOK
<1>2. /\ stack # <<>> /\ Close /\ UNCHANGED balance /\ Top.at = "finish"
      /\ Top.fn \in Deposits \cup {"cash"} \cup Withdraws
  BY DEF Finishes, At, WriteFinishes, FundFinishes, CashFinishes, WithdrawFinishes, Leave,
         storageVars, Deposits
<1>3. /\ Top \in FrameType /\ WellOpened(Top) /\ Top.amount \in Nat /\ Top.fee \in Nat
      /\ Top.nota.currency \in Tokens
  BY <1>2, TopMoney DEF WellOpened
<1>4. /\ \A id \in Ids : notas[id].escrowed \in Nat
      /\ Zero \notin Tokens
  BY <1>1, UintAssumption, AddressAssumption DEF NotaType, Uint
<1>5. CASE WriteFinishes
  <2>1. /\ Top.fn = "write" /\ nextId \in Ids /\ owners[nextId] = Zero
        /\ notas' = [notas EXCEPT ![nextId] = Top.nota]
        /\ CreditHook(Top.nota.hooks, Top.nota.currency, Top.fee)
    BY <1>5 DEF WriteFinishes, At, Mint, Exists
  <2>2. Top.nota.hooks \in Contracts /\ Top.nota.escrowed = Top.amount
    BY <1>3, <2>1 DEF WellOpened, Guarded
  <2>3. notas[nextId] = Blank
    BY <2>1 DEF MoneyInv, OwnInv, Recorded
  <2>4. ASSUME NEW t \in Tokens
        PROVE  EscrowIn(notas', t)[nextId] - EscrowIn(notas, t)[nextId]
                  + (IF t = Top.nota.currency THEN Top.fee ELSE 0) = Flight(Top, t)
    <3>1. EscrowIn(notas, t)[nextId] = 0
      BY <1>4, <2>1, <2>3 DEF EscrowIn, Blank
    <3>2. EscrowIn(notas', t)[nextId] = IF t = Top.nota.currency THEN Top.amount ELSE 0
      BY <1>1, <2>1, <2>2 DEF EscrowIn
    <3>3. Flight(Top, t) = IF t = Top.nota.currency THEN Top.amount + Top.fee ELSE 0
      BY <1>2, <1>3, <2>1 DEF Flight, Uncredited, Unpaid, FeeKept, Deposits
    <3> QED BY <1>3, <3>1, <3>2, <3>3
  <2>5. \A i \in Ids \ {nextId} : notas'[i] = notas[i]
    BY <1>1, <2>1
  <2> QED BY <1>1, <1>2, <2>1, <2>2, <2>4, <2>5, CreditMoney
<1>6. CASE FundFinishes \/ CashFinishes
  <2> DEFINE id == Top.id
             more == IF Top.fn = "fund" THEN Top.amount ELSE 0
  <2>1. Top.fn \in {"fund", "cash"} /\ CreditHook(Top.nota.hooks, Top.nota.currency, Top.fee)
    BY <1>6 DEF FundFinishes, CashFinishes, At
  <2>2. /\ Top.nota.hooks \in Contracts /\ id \in Ids
        /\ notas[id].currency = Top.nota.currency
    BY <1>2, <1>3, <2>1, TopMoney DEF WellOpened, Guarded
  <2>3. /\ \A i \in Ids \ {id} : notas'[i] = notas[i]
        /\ notas'[id].currency = notas[id].currency
        /\ notas'[id].escrowed = notas[id].escrowed + more
    <3>1. CASE FundFinishes
      <4>1. /\ notas' = [notas EXCEPT ![Top.id].escrowed = notas[Top.id].escrowed + Top.amount]
            /\ Top.fn = "fund"
        BY <3>1 DEF FundFinishes, At
      <4> QED BY <1>1, <2>2, <4>1 DEF NotaType
    <3>2. CASE CashFinishes
      BY <1>4, <2>2, <3>2 DEF CashFinishes, At
    <3> QED BY <1>6, <3>1, <3>2
  <2>4. ASSUME NEW t \in Tokens
        PROVE  EscrowIn(notas', t)[id] - EscrowIn(notas, t)[id]
                  + (IF t = Top.nota.currency THEN Top.fee ELSE 0) = Flight(Top, t)
    <3>1. EscrowIn(notas', t)[id] - EscrowIn(notas, t)[id]
             = IF t = Top.nota.currency THEN more ELSE 0
      BY <1>3, <1>4, <2>2, <2>3 DEF EscrowIn
    <3>2. Flight(Top, t) = IF t = Top.nota.currency THEN more + Top.fee ELSE 0
      BY <1>2, <1>3, <2>1 DEF Flight, Uncredited, Unpaid, FeeKept, Deposits
    <3> QED BY <1>3, <3>1, <3>2
  <2> QED BY <1>1, <1>2, <2>1, <2>2, <2>3, <2>4, CreditMoney
<1>7. CASE WithdrawFinishes
  <2>1. /\ Top.fn \in Withdraws /\ UNCHANGED <<notas, hookRevenue, protocolRevenue>>
    BY <1>7 DEF WithdrawFinishes, At, storageVars, govVars
  <2>2. \A t : Flight(Top, t) = 0
    BY <1>2, <2>1 DEF Flight, Uncredited, Unpaid, FeeKept, Deposits, Withdraws
  <2>3. \A t \in Tokens : Covers(BooksNow(t)' - BooksNow(t) - Flight(Top, t), t)
    BY <1>1, <1>2, <2>1, <2>2, BooksKept, HeldKept, BooksTyped DEF Covers
  <2> QED BY <1>1, <1>2, <2>3, CloseFunded
<1> QED BY <1>5, <1>6, <1>7 DEF Finishes

\* A withdrawal takes what it pays out of the books before it pays.
LEMMA WithdrawalMoney ==
    ASSUME MoneyInv, OwnInv', NEW f, NEW c \in Tokens, NEW amount \in Int, NEW to, NEW fee \in Int,
           NEW fn \in Withdraws, OpenedWithdrawal(f, fn, c, amount, to, fee), Open(f),
           UNCHANGED balance,
           \A t \in Tokens : BooksNow(t)' - BooksNow(t) = IF t = c THEN fee - amount ELSE 0
    PROVE  MoneyInv'
<1>1. TypeInv /\ TypeInv'
  BY DEF MoneyInv, OwnInv, GuardInv
<1>2. /\ f \in FrameType /\ f.saved = Storage /\ f.fn \in Withdraws /\ f.at = "pay"
      /\ f.nota.currency = c /\ f.amount = amount /\ f.fee = fee
  BY DEF OpenedWithdrawal
<1>3. Placed(f)
  BY <1>2 DEF Placed
<1>4. ASSUME NEW t \in Tokens PROVE Covers(BooksNow(t)' - BooksNow(t) + Flight(f, t), t)
  <2>1. Flight(f, t) = IF t = c THEN amount - fee ELSE 0
    BY <1>2 DEF Flight, Uncredited, Unpaid, FeeKept, Deposits, Withdraws
  <2>2. BooksNow(t)' - BooksNow(t) = IF t = c THEN fee - amount ELSE 0
    OBVIOUS
  <2> HIDE DEF BooksNow, Flight
  <2>3. BooksNow(t)' - BooksNow(t) + Flight(f, t) = 0
    BY <2>1, <2>2
  <2>4. Held(t) \in Int /\ Held(t)' = Held(t)
    BY <1>1, BooksTyped, HeldKept
  <2> QED BY <2>3, <2>4 DEF Covers
<1> QED BY <1>2, <1>3, <1>4, OpenFunded

LEMMA UnguardedMoney == MoneyInv /\ Unguarded => MoneyInv'
<1> SUFFICES ASSUME MoneyInv, Unguarded PROVE MoneyInv'
  OBVIOUS
<1>1. OwnInv /\ OwnInv' /\ TypeInv /\ TypeInv'
  BY UnguardedOwned DEF MoneyInv, OwnInv, GuardInv
<1>2. /\ hookRevenue \in [Contracts -> [Tokens -> Uint]]
      /\ hookRevenue' \in [Contracts -> [Tokens -> Uint]]
      /\ protocolRevenue \in [Tokens -> Uint]
  BY <1>1 DEF TypeInv, TypeOK, GovTypeOK
<1>3. \A u \in Uint : u \in Int
  BY UintAssumption DEF Uint
<1>4. ASSUME NEW h \in Contracts, NEW c \in Tokens, NEW amount \in Withdrawals, NEW to \in Payees,
             HookWithdraw(h, c, amount, to)
      PROVE  MoneyInv'
  <2> DEFINE cut == ProtocolCut(amount)
  <2>1. PICK f : OpenedWithdrawal(f, "hookWithdraw", c, amount, to, cut) /\ Open(f)
    BY <1>1, <1>4, HookWithdrawOpens
  <2>2. amount \in Int /\ cut \in Int /\ "hookWithdraw" \in Withdraws
    <3>1. f.amount \in Uint /\ f.fee \in Uint /\ f.amount = amount /\ f.fee = cut
      BY <2>1 DEF OpenedWithdrawal, FrameType
    <3> QED BY <1>3, <3>1 DEF Withdraws
  <2>3. /\ UNCHANGED <<balance, notas>>
        /\ hookRevenue' = [hookRevenue EXCEPT ![h][c] = hookRevenue[h][c] - amount]
        /\ protocolRevenue' = [protocolRevenue EXCEPT ![c] = protocolRevenue[c] + cut]
    BY <1>4 DEF HookWithdraw, DebitHook
  <2> HIDE DEF cut
  <2>4. ASSUME NEW t \in Tokens
        PROVE  BooksNow(t)' - BooksNow(t) = IF t = c THEN cut - amount ELSE 0
    <3>1. /\ \A k \in Contracts \ {h} : hookRevenue'[k][t] = hookRevenue[k][t]
          /\ hookRevenue'[h][t] - hookRevenue[h][t] = IF t = c THEN -amount ELSE 0
      BY <1>2, <1>3, <2>2, <2>3
    <3>2. RevenuesNow(t)' = RevenuesNow(t) + (hookRevenue'[h][t] - hookRevenue[h][t])
      BY <1>2, <3>1, RevenueChange DEF RevenuesNow
    <3>3. EscrowsNow(t)' = EscrowsNow(t)
      BY <2>3 DEF EscrowsNow
    <3>4. protocolRevenue'[t] - protocolRevenue[t] = IF t = c THEN cut ELSE 0
      BY <1>2, <1>3, <2>2, <2>3
    <3>5. protocolRevenue[t] \in Int /\ protocolRevenue'[t] \in Int
      BY <1>1, NowTyped DEF TypeInv, TypeOK, GovTypeOK, Uint
    <3> QED BY <1>1, <2>2, <3>1, <3>2, <3>3, <3>4, <3>5, BooksParts, NowTyped
  <2> QED BY <1>1, <2>1, <2>2, <2>3, <2>4, WithdrawalMoney
<1>5. ASSUME NEW a \in Callers, NEW c \in Tokens, NEW amount \in Withdrawals, NEW to \in Payees,
             ProtocolWithdraw(a, c, amount, to)
      PROVE  MoneyInv'
  <2>1. PICK f : OpenedWithdrawal(f, "protocolWithdraw", c, amount, to, 0) /\ Open(f)
    BY <1>1, <1>5, ProtocolWithdrawOpens
  <2>2. amount \in Int /\ "protocolWithdraw" \in Withdraws
    <3>1. f.amount \in Uint /\ f.amount = amount
      BY <2>1 DEF OpenedWithdrawal, FrameType
    <3> QED BY <1>3, <3>1 DEF Withdraws
  <2>3. /\ UNCHANGED <<balance, notas, hookRevenue>>
        /\ protocolRevenue' = [protocolRevenue EXCEPT ![c] = protocolRevenue[c] - amount]
    BY <1>5 DEF ProtocolWithdraw, DebitProtocol
  <2>4. ASSUME NEW t \in Tokens
        PROVE  BooksNow(t)' - BooksNow(t) = IF t = c THEN 0 - amount ELSE 0
    <3>1. RevenuesNow(t)' = RevenuesNow(t) /\ EscrowsNow(t)' = EscrowsNow(t)
      BY <2>3 DEF EscrowsNow, RevenuesNow
    <3>2. protocolRevenue'[t] - protocolRevenue[t] = IF t = c THEN -amount ELSE 0
      BY <1>2, <1>3, <2>2, <2>3
    <3>3. protocolRevenue[t] \in Int /\ protocolRevenue'[t] \in Int
      BY <1>2, <1>3, <2>2, <2>3
    <3> QED BY <1>1, <2>2, <3>1, <3>2, <3>3, BooksParts, NowTyped
  <2>5. 0 \in Int
    OBVIOUS
  <2> QED BY <1>1, <2>1, <2>2, <2>3, <2>4, <2>5, WithdrawalMoney
<1>6. ASSUME NEW a \in Callers, NEW c \in Tokens, NEW amount \in Withdrawals, NEW to \in Payees,
             SendTokens(c, a, to, amount)
      PROVE  MoneyInv'
  <2>1. /\ UNCHANGED <<stack, notas, hookRevenue, protocolRevenue>>
        /\ Move(c, a, to, amount)
    BY <1>6 DEF SendTokens, govVars
  <2>2. /\ a \in Address /\ a # Registrar /\ to \in AddressOrZero
        /\ amount \in Nat
    BY InputAssumption, AddressAssumption, UintAssumption DEF Address, AddressOrZero, Uint
  <2>3. \A t \in Tokens :
           Held(t)' - Held(t) = IF t # c \/ a = to THEN 0 ELSE IF to = Registrar THEN amount ELSE 0
    BY <1>1, <2>1, <2>2, MoveHeld
  <2>4. \A t \in Tokens : Covers(BooksNow(t)' - BooksNow(t), t)
    BY <1>1, <2>1, <2>2, <2>3, BooksKept, BooksTyped DEF Covers
  <2> QED BY <1>1, <2>1, <2>4, SameFunded
<1>7. CASE UNCHANGED <<balance, stack, notas, hookRevenue, protocolRevenue>>
  <2>1. \A t \in Tokens : Covers(BooksNow(t)' - BooksNow(t), t)
    BY <1>1, <1>7, BooksKept, HeldKept, BooksTyped DEF Covers
  <2> QED BY <1>1, <1>7, <2>1, SameFunded
<1>8. ASSUME NEW a \in Callers,
             \/ \E newFee \in FeeRates : SetProtocolFee(a, newFee)
             \/ \E g \in Governors : TransferOwnership(a, g)
             \/ RenounceOwnership(a)
             \/ \E o \in Operators, approved \in BOOLEAN : SetApprovalForAll(a, o, approved)
      PROVE  MoneyInv'
  <2>1. UNCHANGED <<balance, stack, notas, hookRevenue, protocolRevenue>>
    BY <1>8 DEF SetProtocolFee, TransferOwnership, RenounceOwnership, SetApprovalForAll,
                SetFee, SetGovOwner, govVars
  <2> QED BY <1>7, <2>1
<1> QED BY <1>4, <1>5, <1>6, <1>8 DEF Unguarded

LEMMA InitMoney == Init => MoneyInv
<1> SUFFICES ASSUME Init PROVE MoneyInv
  OBVIOUS
<1>1. OwnInv /\ Depth = 0
  BY InitOwned DEF Init, Depth
<1>2. ASSUME NEW t \in Tokens
      PROVE  Books(notas, hookRevenue, protocolRevenue, t) = 0 /\ balance[t][Registrar] = 0
             /\ Sum(FlightIn(stack, 0, t), 1 .. 0) = 0
  <2>1. IsFiniteSet(Ids)
    BY NotasAssumption, FS_Interval DEF Ids
  <2>2. \A id \in Ids : EscrowIn(notas, t)[id] = 0
    BY DEF Init, Blank, EscrowIn
  <2>3. \A h \in Contracts : RevenueIn(hookRevenue, t)[h] = 0
    BY DEF Init, GovInit, RevenueIn
  <2>4. Sum(EscrowIn(notas, t), Ids) = 0
    <3> HIDE DEF EscrowIn
    <3> QED BY <2>1, <2>2, SumZero
  <2>5. Sum(RevenueIn(hookRevenue, t), Contracts) = 0
    <3> HIDE DEF RevenueIn
    <3> QED BY <2>3, AccountsAssumption, SumZero
  <2>6. Sum(FlightIn(stack, 0, t), 1 .. 0) = 0
    BY SumEmpty
  <2>7. protocolRevenue[t] = 0 /\ balance[t][Registrar] = 0
    BY DEF Init, GovInit, InitialBalance, Address
  <2> HIDE DEF EscrowIn, RevenueIn
  <2> QED BY <2>4, <2>5, <2>6, <2>7 DEF Books
<1>3. Funded(balance, notas, hookRevenue, protocolRevenue, stack, 0)
  BY <1>2 DEF Funded
<1> QED BY <1>1, <1>3 DEF MoneyInv

LEMMA StepMoney == MoneyInv /\ [Next]_vars => MoneyInv'
<1> SUFFICES ASSUME MoneyInv, [Next]_vars PROVE MoneyInv'
  OBVIOUS
<1>1. OwnInv' /\ TypeInv
  BY StepOwned DEF MoneyInv, OwnInv, GuardInv
<1>2. CASE UNCHANGED vars
  <2>1. UNCHANGED <<balance, stack, notas, hookRevenue, protocolRevenue>>
    BY <1>2 DEF vars, govVars
  <2>2. \A t \in Tokens : Covers(BooksNow(t)' - BooksNow(t), t)
    BY <1>1, <2>1, BooksKept, HeldKept, BooksTyped DEF Covers
  <2> QED BY <1>1, <2>1, <2>2, SameFunded
<1>3. CASE Revert
  BY <1>1, <1>3, RevertFunded
<1> QED
  BY <1>2, <1>3, CallsMoney, AnswersMoney, TokenStepsMoney, FinishesMoney, UnguardedMoney DEF Next

LEMMA AlwaysFunded == Spec => []MoneyInv
  BY InitMoney, StepMoney, PTL DEF Spec

LEMMA OwedIsFunded ==
    ASSUME MoneyInv
    PROVE  /\ \A t \in Tokens : Owed(t) <= balance[t][Registrar]
           /\ Registrar \notin Payees => \A t \in Tokens : Owed(t) = balance[t][Registrar]
<1>1. ASSUME NEW t \in Tokens
      PROVE  Owed(t) = Books(notas, hookRevenue, protocolRevenue, t)
                          + Sum(FlightIn(stack, Depth, t), 1 .. Depth)
  <2>1. EscrowOf(t) = EscrowIn(notas, t)
    BY DEF EscrowOf, EscrowIn
  <2>2. RevenueOf(t) = RevenueIn(hookRevenue, t)
    BY DEF RevenueOf, RevenueIn
  <2>3. InFlight(t) = FlightIn(stack, Depth, t)
    BY DEF InFlight, FlightIn, Flight
  <2> HIDE DEF EscrowIn, RevenueIn, FlightIn
  <2> QED BY <2>1, <2>2, <2>3 DEF Owed, Books
<1> QED BY <1>1 DEF MoneyInv, Funded

-----------------------------------------------------------------------------
(* The protocol's share                                                    *)

\* What a step does to the stack.
OpensFrame == \E f \in FrameType : Open(f) /\ f.saved = Storage /\ (f.fn = "cash" => f.at = "hook")
ContinuesTop ==
    /\ stack # <<>>
    /\ \E f \in FrameType :
          /\ Continue(f) /\ f.saved = Top.saved /\ f.fn = Top.fn /\ f.amount = Top.amount
          /\ f.fn = "cash" => f.fee <= f.amount \/ (Top.at # "hook" /\ f.fee = Top.fee)
ClosesTop == stack # <<>> /\ Close

LEMMA StackSteps ==
    ASSUME TypeInv, Recorded(owners, notas, tokenApprovals), [Next]_vars
    PROVE  UNCHANGED stack \/ OpensFrame \/ ContinuesTop \/ ClosesTop
<1> DEFINE Goal == UNCHANGED stack \/ OpensFrame \/ ContinuesTop \/ ClosesTop
<1> SUFFICES Goal
  OBVIOUS
<1>1. stack # <<>> => Top \in FrameType
  BY TopInStack DEF TypeInv, TypeOK
<1>2. ASSUME stack # <<>>, NEW p \in Points, NEW fee \in Uint,
             Continue([Top EXCEPT !.fee = fee, !.at = p]), Top.fn = "cash" => fee <= Top.amount
      PROVE  Goal
  <2> DEFINE f == [Top EXCEPT !.fee = fee, !.at = p]
  <2>1. f \in FrameType /\ Continue(f)
    BY <1>1, <1>2, FrameMoves
  <2>2. f.saved = Top.saved /\ f.fn = Top.fn /\ f.amount = Top.amount /\ f.fee = fee
    BY <1>1, <1>2 DEF FrameType
  <2> HIDE DEF f
  <2> QED BY <1>2, <2>1, <2>2 DEF ContinuesTop
<1>3. ASSUME stack # <<>>, NEW p \in Points, Continue([Top EXCEPT !.at = p]), Top.at # "hook"
      PROVE  Goal
  <2> DEFINE f == [Top EXCEPT !.at = p]
  <2>1. Top.fee \in Uint
    BY <1>1, <1>3 DEF FrameType
  <2>2. f \in FrameType /\ Continue(f)
    BY <1>1, <1>3, <2>1, FrameMoves
  <2>3. f.saved = Top.saved /\ f.fn = Top.fn /\ f.amount = Top.amount /\ f.fee = Top.fee
    BY <1>1, <1>3 DEF FrameType
  <2> HIDE DEF f
  <2> QED BY <1>3, <2>2, <2>3 DEF ContinuesTop
<1>4. ASSUME stack # <<>>, Close PROVE Goal
  BY <1>4 DEF ClosesTop
<1>5. ASSUME Calls PROVE Goal
  <2>1. PICK f : Opened(f) /\ Enter(f)
    BY <1>5, CallsOpen
  <2> QED BY <2>1 DEF Opened, Enter, OpensFrame
<1>6. ASSUME Answers PROVE Goal
  <2>1. Fees \subseteq Uint /\ {"pull", "forward", "finish", "pay", "received"} \subseteq Points
    BY InputAssumption DEF Points, External
  <2>2. ASSUME NEW fee \in Fees, DepositHooked(fee) PROVE Goal
    BY <1>2, <2>1, <2>2 DEF DepositHooked, At, AfterPull, Deposits
  <2>3. ASSUME NEW fee \in Fees, CashHooked(fee) PROVE Goal
    BY <1>2, <2>1, <2>3 DEF CashHooked, At
  <2>4. ASSUME NEW fee \in Fees, SafeTransferHooked(fee) PROVE Goal
    BY <1>2, <2>1, <2>4 DEF SafeTransferHooked, At
  <2>5. ASSUME NEW fee \in Fees, ApproveHooked(fee) \/ TransferHooked(fee) \/ UpdateHooked(fee)
        PROVE  Goal
    BY <1>4, <2>5 DEF ApproveHooked, TransferHooked, UpdateHooked, At, Leave
  <2>6. ASSUME BurnHooked \/ Received PROVE Goal
    BY <1>4, <2>6 DEF BurnHooked, Received, At, Leave
  <2> QED BY <1>6, <2>2, <2>3, <2>4, <2>5, <2>6 DEF Answers
<1>7. ASSUME TokenSteps PROVE Goal
  <2>1. {"pulled", "forwarded", "paid", "finish"} \subseteq Points /\ AfterPull \in Points
    BY DEF Points, External, AfterPull
  <2>2. PICK p \in Points : stack # <<>> /\ Continue([Top EXCEPT !.at = p]) /\ Top.at # "hook"
    BY <1>7, <2>1 DEF TokenSteps, Pulls, PullReturns, Forwards, ForwardReturns, Pays, PayReturns,
                      TokenMoves, TokenReturns, At
  <2> QED BY <1>3, <2>2
<1>8. ASSUME Finishes \/ Revert PROVE Goal
  BY <1>4, <1>8 DEF Finishes, WriteFinishes, FundFinishes, CashFinishes, WithdrawFinishes,
                    At, Leave, Revert
<1>9. ASSUME Unguarded PROVE Goal
  <2>1. ASSUME NEW c \in Callers, NEW t \in Tokens, NEW amount \in Withdrawals, NEW to \in Payees,
               (c \in Contracts /\ HookWithdraw(c, t, amount, to)) \/ ProtocolWithdraw(c, t, amount, to)
        PROVE  Goal
    <3>1. PICK f, fee : /\ Open(f)
                        /\ \/ OpenedWithdrawal(f, "hookWithdraw", t, amount, to, fee)
                           \/ OpenedWithdrawal(f, "protocolWithdraw", t, amount, to, fee)
      BY <2>1, HookWithdrawOpens, ProtocolWithdrawOpens
    <3> QED BY <3>1 DEF OpenedWithdrawal, OpensFrame
  <2>2. UNCHANGED stack \/ \E c \in Callers, t \in Tokens, amount \in Withdrawals, to \in Payees :
           (c \in Contracts /\ HookWithdraw(c, t, amount, to)) \/ ProtocolWithdraw(c, t, amount, to)
    BY <1>9 DEF Unguarded, SendTokens, SetProtocolFee, TransferOwnership, RenounceOwnership,
                SetApprovalForAll
  <2> QED BY <2>1, <2>2
<1>10. ASSUME UNCHANGED vars PROVE Goal
  BY <1>10 DEF vars
<1> HIDE DEF Goal
<1> QED BY <1>5, <1>6, <1>7, <1>8, <1>9, <1>10 DEF Next

\* The storage that an open call would restore is one that it or an earlier call had.
LEMMA SavedStorages ==
    ASSUME TypeInv, Recorded(owners, notas, tokenApprovals), [Next]_vars
    PROVE  \A i \in 1 .. Depth' :
              (i \in 1 .. Depth /\ stack'[i].saved = stack[i].saved) \/ stack'[i].saved = Storage
<1>1. stack \in Seq(FrameType) /\ Depth \in Nat
  BY DEF TypeInv, TypeOK, Depth
<1>2. ASSUME NEW f \in FrameType, f.saved = Storage, Open(f), NEW i \in 1 .. Depth'
      PROVE  (i \in 1 .. Depth /\ stack'[i].saved = stack[i].saved) \/ stack'[i].saved = Storage
  <2>1. /\ Len(stack') = Depth + 1 /\ stack'[Depth + 1] = f
        /\ \A j \in 1 .. Depth : stack'[j] = stack[j]
    BY <1>1, <1>2, OpenStack
  <2>2. Depth' = Depth + 1
    BY <2>1 DEF Depth
  <2> QED BY <1>1, <1>2, <2>1, <2>2
<1>3. ASSUME stack # <<>>, NEW f \in FrameType, f.saved = Top.saved, Continue(f), NEW i \in 1 .. Depth'
      PROVE  i \in 1 .. Depth /\ stack'[i].saved = stack[i].saved
  <2>1. /\ Len(stack') = Depth /\ stack'[Depth] = f
        /\ \A j \in 1 .. Depth - 1 : stack'[j] = stack[j]
    BY <1>1, <1>3, ContinueStack
  <2>2. Depth' = Depth
    BY <2>1 DEF Depth
  <2> QED BY <1>1, <1>3, <2>1, <2>2 DEF Top
<1>4. ASSUME stack # <<>>, Close, NEW i \in 1 .. Depth'
      PROVE  i \in 1 .. Depth /\ stack'[i].saved = stack[i].saved
  <2>1. Len(stack') = Depth - 1 /\ \A j \in 1 .. Depth - 1 : stack'[j] = stack[j]
    BY <1>1, <1>4, CloseStack
  <2>2. Depth' = Depth - 1
    BY <2>1 DEF Depth
  <2> QED BY <1>1, <1>4, <2>1, <2>2
<1>5. UNCHANGED stack => Depth' = Depth
  BY DEF Depth
<1> QED BY <1>2, <1>3, <1>4, <1>5, StackSteps DEF OpensFrame, ContinuesTop, ClosesTop

\* Of the unguarded functions only the two withdrawals touch a revenue.
LEMMA UnguardedRevenues ==
    ASSUME Unguarded
    PROVE  \/ UNCHANGED <<hookRevenue, hookTotalRevenue, protocolRevenue, protocolTotalRevenue>>
           \/ \E c \in Callers, t \in Tokens, amount \in Withdrawals : DebitProtocol(c, t, amount)
           \/ \E h \in Contracts, t \in Tokens, amount \in Withdrawals : DebitHook(h, t, amount)
<1>1. PICK c \in Callers :
         \/ \E t \in Tokens, amount \in Withdrawals, to \in Payees :
               \/ c \in Contracts /\ HookWithdraw(c, t, amount, to)
               \/ ProtocolWithdraw(c, t, amount, to)
               \/ SendTokens(t, c, to, amount)
         \/ \E newFee \in FeeRates : SetProtocolFee(c, newFee)
         \/ \E g \in Governors : TransferOwnership(c, g)
         \/ Zero \in Governors /\ RenounceOwnership(c)
         \/ \E o \in Operators, approved \in BOOLEAN : SetApprovalForAll(c, o, approved)
  BY DEF Unguarded
<1>2. ASSUME NEW t \in Tokens, NEW amount \in Withdrawals, NEW to \in Payees,
             c \in Contracts, HookWithdraw(c, t, amount, to)
      PROVE  \E h \in Contracts, u \in Tokens, x \in Withdrawals : DebitHook(h, u, x)
  BY <1>2 DEF HookWithdraw
<1>3. ASSUME NEW t \in Tokens, NEW amount \in Withdrawals, NEW to \in Payees,
             ProtocolWithdraw(c, t, amount, to)
      PROVE  \E a \in Callers, u \in Tokens, x \in Withdrawals : DebitProtocol(a, u, x)
  BY <1>3 DEF ProtocolWithdraw
<1>4. ASSUME \/ \E t \in Tokens, amount \in Withdrawals, to \in Payees : SendTokens(t, c, to, amount)
             \/ \E newFee \in FeeRates : SetProtocolFee(c, newFee)
             \/ \E g \in Governors : TransferOwnership(c, g)
             \/ RenounceOwnership(c)
             \/ \E o \in Operators, approved \in BOOLEAN : SetApprovalForAll(c, o, approved)
      PROVE  UNCHANGED <<hookRevenue, hookTotalRevenue, protocolRevenue, protocolTotalRevenue>>
  BY <1>4 DEF SendTokens, SetProtocolFee, SetFee, TransferOwnership, RenounceOwnership,
              SetGovOwner, SetApprovalForAll, govVars
<1> QED BY <1>1, <1>2, <1>3, <1>4

\* The books of the protocol's share change in withdrawals and failures only.
LEMMA ShareChanges ==
    ASSUME TypeInv, Recorded(owners, notas, tokenApprovals), [Next]_vars
    PROVE  \/ UNCHANGED <<protocolRevenue, protocolTotalRevenue, hookTotalRevenue>>
           \/ Revert
           \/ \E c \in Callers, t \in Tokens, amount \in Withdrawals : DebitProtocol(c, t, amount)
           \/ \E h \in Contracts, t \in Tokens, amount \in Withdrawals : DebitHook(h, t, amount)
<1> DEFINE Same == UNCHANGED <<protocolRevenue, protocolTotalRevenue, hookTotalRevenue>>
<1>1. ASSUME Calls PROVE Same
  BY <1>1, CallsOpen DEF Enter, govVars
<1>2. ASSUME Answers PROVE Same
  <2>1. ASSUME NEW fee,
               DepositHooked(fee) \/ CashHooked(fee) \/ ApproveHooked(fee)
               \/ TransferHooked(fee) \/ SafeTransferHooked(fee) \/ UpdateHooked(fee)
        PROVE  Same
    <3>1. ASSUME SafeTransferHooked(fee) \/ ApproveHooked(fee) \/ TransferHooked(fee) \/ UpdateHooked(fee)
          PROVE  CreditHook(Top.nota.hooks, Top.nota.currency, fee)
      BY <3>1 DEF ApproveHooked, TransferHooked, SafeTransferHooked, UpdateHooked, DeductFee
    <3>2. ASSUME DepositHooked(fee) \/ CashHooked(fee) PROVE UNCHANGED govVars
      BY <3>2 DEF DepositHooked, CashHooked, storageVars
    <3> QED BY <2>1, <3>1, <3>2 DEF CreditHook, govVars
  <2>2. ASSUME BurnHooked \/ Received PROVE Same
    BY <2>2 DEF BurnHooked, Received, CreditHook, govVars
  <2> QED BY <1>2, <2>1, <2>2 DEF Answers
<1>3. ASSUME TokenSteps PROVE Same
  <2>1. ASSUME NEW at, NEW next, NEW payer, NEW payee, NEW amount,
               TokenMoves(at, next, payer, payee, amount) \/ TokenReturns(at, next)
        PROVE  Same
    BY <2>1 DEF TokenMoves, TokenReturns, storageVars, govVars
  <2> HIDE DEF Same
  <2> QED BY <1>3, <2>1, Zenon
          DEF TokenSteps, Pulls, PullReturns, Forwards, ForwardReturns, Pays, PayReturns
<1>4. ASSUME Finishes PROVE Same
  BY <1>4 DEF Finishes, WriteFinishes, FundFinishes, CashFinishes, WithdrawFinishes,
              CreditHook, storageVars, govVars
<1>5. ASSUME Unguarded
      PROVE  \/ Same
             \/ \E c \in Callers, t \in Tokens, amount \in Withdrawals : DebitProtocol(c, t, amount)
             \/ \E h \in Contracts, t \in Tokens, amount \in Withdrawals : DebitHook(h, t, amount)
  BY <1>5, UnguardedRevenues
<1> QED BY <1>1, <1>2, <1>3, <1>4, <1>5 DEF Next, vars, govVars

\* A share of at most m / d stays one when at most m / d of what is added is added to it.
LEMMA SharesAdd ==
    ASSUME NEW m \in Nat, NEW d \in Nat, NEW x \in Int, NEW y \in Int, NEW cut \in Nat, NEW amount \in Nat,
           x * d <= m * y, cut * d <= m * amount
    PROVE  (x + cut) * d <= m * (y + amount)
<1>1. (x + cut) * d = x * d + cut * d
  OBVIOUS
<1>2. m * (y + amount) = m * y + m * amount
  OBVIOUS
<1>3. x * d \in Int /\ cut * d \in Int /\ m * y \in Int /\ m * amount \in Int
  OBVIOUS
<1> QED BY <1>1, <1>2, <1>3

LEMMA CutIsShare ==
    ASSUME NEW a \in Nat, NEW p \in 0 .. MaxProtocolFee
    PROVE  ((a * p) \div FeeDenominator) * FeeDenominator <= MaxProtocolFee * a
<1> DEFINE d == FeeDenominator
<1>1. d \in Nat \ {0} /\ MaxProtocolFee \in Nat /\ p \in Nat
  BY GovAssumption
<1>2. a * p \in Nat /\ a * p <= MaxProtocolFee * a
  <2>1. PICK q \in Nat : MaxProtocolFee = p + q
    <3>1. MaxProtocolFee - p \in Nat /\ MaxProtocolFee = p + (MaxProtocolFee - p)
      BY <1>1
    <3> QED BY <3>1
  <2>2. MaxProtocolFee * a = a * p + a * q
    BY <1>1, <2>1
  <2>3. a * p \in Nat /\ a * q \in Nat
    BY <1>1, <2>1
  <2> QED BY <2>2, <2>3
<1>3. \A n \in Nat : (n \div d) * d <= n
  BY <1>1
<1> QED BY <1>1, <1>2, <1>3

LEMMA DebitHookShared ==
    ASSUME TypeInv, TypeInv', Shared(protocolRevenue, protocolTotalRevenue, hookTotalRevenue),
           NEW h \in Contracts, NEW c \in Tokens, NEW amount \in Withdrawals, DebitHook(h, c, amount)
    PROVE  Shared(protocolRevenue, protocolTotalRevenue, hookTotalRevenue)'
<1> DEFINE cut == ProtocolCut(amount)
<1>1. /\ hookTotalRevenue \in [Contracts -> [Tokens -> Uint]]
      /\ hookTotalRevenue' \in [Contracts -> [Tokens -> Uint]]
      /\ protocolRevenue \in [Tokens -> Uint] /\ protocolTotalRevenue \in [Tokens -> Uint]
      /\ protocolFee \in 0 .. MaxProtocolFee
  BY DEF TypeInv, TypeOK, GovTypeOK
<1>2. (\A u \in Uint : u \in Nat) /\ amount \in Nat
  BY UintAssumption, InputAssumption DEF Uint
<1>3. cut \in 0 .. amount
  BY <1>1, <1>2, CutIsPart DEF ProtocolCut
<1>4. cut * FeeDenominator <= MaxProtocolFee * amount
  BY <1>1, <1>2, CutIsShare DEF ProtocolCut
<1>5. /\ protocolRevenue' = [protocolRevenue EXCEPT ![c] = protocolRevenue[c] + cut]
      /\ protocolTotalRevenue' = [protocolTotalRevenue EXCEPT ![c] = protocolTotalRevenue[c] + cut]
      /\ hookTotalRevenue' = [hookTotalRevenue EXCEPT ![h][c] = hookTotalRevenue[h][c] + amount]
  BY DEF DebitHook
<1> HIDE DEF cut
<1>6. cut \in Nat /\ MaxProtocolFee \in Nat /\ FeeDenominator \in Nat
  BY <1>2, <1>3, GovAssumption
<1>7. ASSUME NEW t \in Tokens
      PROVE  /\ protocolRevenue'[t] <= protocolTotalRevenue'[t]
             /\ protocolTotalRevenue'[t] * FeeDenominator
                   <= MaxProtocolFee * Sum(RevenueIn(hookTotalRevenue', t), Contracts)
  <2> DEFINE withdrawn == Sum(RevenueIn(hookTotalRevenue, t), Contracts)
             withdrawnNext == Sum(RevenueIn(hookTotalRevenue', t), Contracts)
             earned == protocolTotalRevenue[t]
  <2>1. earned \in Nat /\ protocolRevenue[t] \in Nat /\ protocolRevenue[t] <= earned
        /\ earned * FeeDenominator <= MaxProtocolFee * withdrawn
    BY <1>1, <1>2 DEF Shared
  <2>2. withdrawn \in Int /\ withdrawnNext = withdrawn + (hookTotalRevenue'[h][t] - hookTotalRevenue[h][t])
    <3>1. \A k \in Contracts \ {h} : hookTotalRevenue'[k][t] = hookTotalRevenue[k][t]
      BY <1>1, <1>5
    <3> QED BY <1>1, <3>1, RevenueChange
  <2>3. hookTotalRevenue'[h][t] - hookTotalRevenue[h][t] = IF t = c THEN amount ELSE 0
    BY <1>1, <1>2, <1>5
  <2> HIDE DEF withdrawn, withdrawnNext
  <2>4. CASE t = c
    <3>1. protocolTotalRevenue'[t] = earned + cut /\ protocolRevenue'[t] = protocolRevenue[t] + cut
      BY <1>1, <1>5, <2>4
    <3>2. withdrawnNext = withdrawn + amount
      BY <2>2, <2>3, <2>4
    <3> HIDE DEF earned
    <3>3. (earned + cut) * FeeDenominator <= MaxProtocolFee * (withdrawn + amount)
      BY <1>2, <1>4, <1>6, <2>1, <2>2, SharesAdd
    <3> QED BY <1>6, <2>1, <3>1, <3>2, <3>3 DEF withdrawnNext
  <2>5. CASE t # c
    <3>1. protocolTotalRevenue'[t] = earned /\ protocolRevenue'[t] = protocolRevenue[t]
      BY <1>1, <1>5, <2>5
    <3>2. withdrawnNext = withdrawn
      BY <2>2, <2>3, <2>5
    <3> QED BY <2>1, <3>1, <3>2 DEF withdrawnNext
  <2> QED BY <2>4, <2>5
<1> QED BY <1>7 DEF Shared

LEMMA StepShared == OwnInv /\ OwnInv' /\ ShareInv /\ [Next]_vars => ShareInv'
<1> SUFFICES ASSUME OwnInv, OwnInv', ShareInv, [Next]_vars PROVE ShareInv'
  OBVIOUS
<1> DEFINE SharedNow == Shared(protocolRevenue, protocolTotalRevenue, hookTotalRevenue)
           SavedShared(k, i) == Shared(k[i].saved.protocolRevenue, k[i].saved.protocolTotalRevenue,
                                       k[i].saved.hookTotalRevenue)
<1>1. /\ TypeInv /\ TypeInv' /\ Recorded(owners, notas, tokenApprovals)
      /\ SharedNow /\ \A i \in 1 .. Depth : SavedShared(stack, i)
  BY DEF OwnInv, GuardInv, ShareInv
<1>2. SharedNow'
  <2>1. CASE UNCHANGED <<protocolRevenue, protocolTotalRevenue, hookTotalRevenue>>
    BY <1>1, <2>1
  <2>2. CASE Revert
    <3>1. Depth \in 1 .. Depth
      BY <1>1, <2>2, TopInStack DEF Revert, TypeInv, TypeOK
    <3> QED BY <1>1, <2>2, <3>1 DEF Revert, Top
  <2>3. ASSUME NEW c \in Callers, NEW t \in Tokens, NEW amount \in Withdrawals,
               DebitProtocol(c, t, amount)
        PROVE  SharedNow'
    <3>1. /\ protocolRevenue' = [protocolRevenue EXCEPT ![t] = protocolRevenue[t] - amount]
          /\ UNCHANGED <<protocolTotalRevenue, hookTotalRevenue>>
      BY <2>3 DEF DebitProtocol
    <3>2. protocolRevenue \in [Tokens -> Uint] /\ protocolTotalRevenue \in [Tokens -> Uint]
      BY <1>1 DEF TypeInv, TypeOK, GovTypeOK
    <3>3. amount \in Nat /\ \A u \in Uint : u \in Nat
      BY UintAssumption, InputAssumption DEF Uint
    <3>4. ASSUME NEW u \in Tokens PROVE protocolRevenue'[u] <= protocolTotalRevenue'[u]
      <4>1. protocolRevenue[u] <= protocolTotalRevenue[u] /\ protocolTotalRevenue'[u] = protocolTotalRevenue[u]
        BY <1>1, <3>1 DEF Shared
      <4>2. protocolRevenue'[u] <= protocolRevenue[u]
        BY <3>1, <3>2, <3>3
      <4>3. /\ protocolRevenue[u] \in Nat /\ protocolTotalRevenue[u] \in Nat
            /\ protocolRevenue'[u] \in Int
        BY <3>1, <3>2, <3>3
      <4> QED BY <4>1, <4>2, <4>3
    <3>5. \A u \in Tokens :
             protocolTotalRevenue'[u] * FeeDenominator
                <= MaxProtocolFee * Sum(RevenueIn(hookTotalRevenue', u), Contracts)
      BY <1>1, <3>1 DEF Shared
    <3> QED BY <3>4, <3>5 DEF Shared
  <2>4. ASSUME NEW h \in Contracts, NEW t \in Tokens, NEW amount \in Withdrawals,
               DebitHook(h, t, amount)
        PROVE  SharedNow'
    BY <1>1, <2>4, DebitHookShared
  <2> QED BY <1>1, <2>1, <2>2, <2>3, <2>4, ShareChanges
<1>3. ASSUME NEW i \in 1 .. Depth' PROVE SavedShared(stack', i)
  <2>1. (i \in 1 .. Depth /\ stack'[i].saved = stack[i].saved) \/ stack'[i].saved = Storage
    BY <1>1, <1>3, SavedStorages
  <2>2. CASE i \in 1 .. Depth /\ stack'[i].saved = stack[i].saved
    BY <1>1, <2>2
  <2>3. CASE stack'[i].saved = Storage
    BY <1>1, <2>3 DEF Storage
  <2> QED BY <2>1, <2>2, <2>3
<1> QED BY <1>1, <1>2, <1>3 DEF ShareInv

LEMMA InitShared == Init => ShareInv
<1> SUFFICES ASSUME Init PROVE ShareInv
  OBVIOUS
<1>1. TypeInv /\ Depth = 0
  BY InitTyped DEF Init, Depth
<1>2. ASSUME NEW t \in Tokens
      PROVE  /\ protocolRevenue[t] = 0 /\ protocolTotalRevenue[t] = 0
             /\ Sum(RevenueIn(hookTotalRevenue, t), Contracts) = 0
  <2>1. \A h \in Contracts : RevenueIn(hookTotalRevenue, t)[h] = 0
    BY DEF Init, GovInit, RevenueIn
  <2> HIDE DEF RevenueIn
  <2> QED BY <2>1, AccountsAssumption, SumZero DEF Init, GovInit
<1>3. FeeDenominator \in Nat /\ MaxProtocolFee \in Nat
  BY GovAssumption
<1> HIDE DEF RevenueIn
<1> QED BY <1>1, <1>2, <1>3 DEF ShareInv, Shared

LEMMA AlwaysShared == Spec => []ShareInv
  BY InitShared, StepShared, AlwaysOwned, PTL DEF Spec

-----------------------------------------------------------------------------
(* The theorems                                                            *)

\* In every state, also in the middle of calls and after any of them failed,
\* the registrar holds of every token at least the escrows, the hooks' and the
\* protocol's revenue, and what calls have taken and not yet booked or paid:
\* whoever withdraws or cashes first leaves enough for the others
\* (NotaRegistrar.sol:36-167, RegistrarGov.sol:39-54).
THEOREM AlwaysSolvent == Spec => []Solvent
<1>1. MoneyInv => Solvent
  BY OwedIsFunded DEF Solvent
<1> QED BY <1>1, AlwaysFunded, PTL

\* If nobody sends tokens to the registrar's own address, it holds exactly what
\* it owes: no fee, deposit or payment is lost between two books
\* (NotaRegistrar.sol:36-167, RegistrarGov.sol:39-54).
THEOREM NothingIsStranded == Spec => []NothingStranded
<1>1. MoneyInv => NothingStranded
  BY OwedIsFunded DEF NothingStranded
<1> QED BY <1>1, AlwaysFunded, PTL

\* The protocol earned at most MAX_PROTOCOL_FEE of what hooks withdrew, by
\* whatever fees were set over time and however the divisions were rounded, and
\* keeps at most what it earned (RegistrarGov.sol:39-54).
THEOREM ShareIsBounded == Spec => []ProtocolShareBounded
<1>1. ShareInv => ProtocolShareBounded
  BY DEF ShareInv, Shared, ProtocolShareBounded, RevenueIn
<1> QED BY <1>1, AlwaysShared, PTL

\* What a hook ever earned of a token, withdrawn or not, is never reduced by a
\* call that succeeds, and grows only by calls about notas of that hook and
\* currency (RegistrarGov.sol:39-54, NotaRegistrar.sol:36-167).
THEOREM EarningsAreKept == Spec => HookEarningsKept
<1> DEFINE A == Revert \/ \A h \in Contracts, t \in Tokens :
                   /\ Earned(h, t)' >= Earned(h, t)
                   /\ Earned(h, t)' > Earned(h, t) => AboutNotaOf(h, t)
<1>1. ASSUME MoneyInv, [Next]_vars PROVE [A]_vars
  <2> SUFFICES ASSUME Next PROVE A
    BY <1>1
  <2>1. /\ hookRevenue \in [Contracts -> [Tokens -> Uint]]
        /\ hookTotalRevenue \in [Contracts -> [Tokens -> Uint]]
    BY <1>1 DEF MoneyInv, OwnInv, GuardInv, TypeInv, TypeOK, GovTypeOK
  <2>2. \A u \in Uint : u \in Nat
    BY UintAssumption DEF Uint
  <2>3. \A h \in Contracts, t \in Tokens : hookRevenue[h][t] \in Nat /\ hookTotalRevenue[h][t] \in Nat
    BY <2>1, <2>2
  <2>4. ASSUME UNCHANGED <<hookRevenue, hookTotalRevenue>> PROVE A
    BY <2>3, <2>4 DEF Earned
  <2>5. ASSUME NEW h, NEW t, NEW amount \in Nat, CreditHook(h, t, amount), AboutNotaOf(h, t)
        PROVE  A
    <3>1. /\ hookRevenue' = [hookRevenue EXCEPT ![h][t] = hookRevenue[h][t] + amount]
          /\ UNCHANGED hookTotalRevenue
      BY <2>5 DEF CreditHook
    <3>2. ASSUME NEW k \in Contracts, NEW u \in Tokens
          PROVE  /\ hookRevenue'[k][u] >= hookRevenue[k][u] /\ hookRevenue'[k][u] \in Nat
                 /\ hookRevenue'[k][u] > hookRevenue[k][u] => k = h /\ u = t
      <4>1. hookRevenue'[k][u] = IF k = h /\ u = t THEN hookRevenue[k][u] + amount ELSE hookRevenue[k][u]
        BY <2>1, <3>1
      <4> QED BY <2>3, <4>1
    <3> QED BY <2>3, <2>5, <3>1, <3>2 DEF Earned
  <2>6. ASSUME NEW h \in Contracts, NEW t \in Tokens, NEW amount \in Withdrawals, DebitHook(h, t, amount)
        PROVE  A
    <3>1. /\ hookRevenue' = [hookRevenue EXCEPT ![h][t] = hookRevenue[h][t] - amount]
          /\ hookTotalRevenue' = [hookTotalRevenue EXCEPT ![h][t] = hookTotalRevenue[h][t] + amount]
          /\ amount \in Nat
      BY <2>2, <2>6, InputAssumption DEF DebitHook
    <3>2. ASSUME NEW k \in Contracts, NEW u \in Tokens
          PROVE  hookRevenue'[k][u] + hookTotalRevenue'[k][u]
                    = hookRevenue[k][u] + hookTotalRevenue[k][u]
      <4>1. hookRevenue'[k][u] = IF k = h /\ u = t THEN hookRevenue[k][u] - amount ELSE hookRevenue[k][u]
        BY <2>1, <3>1
      <4>2. hookTotalRevenue'[k][u]
               = IF k = h /\ u = t THEN hookTotalRevenue[k][u] + amount ELSE hookTotalRevenue[k][u]
        BY <2>1, <3>1
      <4> QED BY <2>3, <3>1, <4>1, <4>2
    <3> QED BY <2>3, <3>2 DEF Earned
  <2>7. Fees \subseteq Nat /\ (stack # <<>> => Top.fee \in Nat /\ Top.nota.escrowed \in Nat)
    BY <1>1, <2>2, InputAssumption, TopMoney
  \* The nota that the call is about has the hook and the currency that the call read.
  <2>a. ASSUME stack # <<>>, Top.fn \in Guarded \ {"write"}, Top.at # "received"
        PROVE  AboutNotaOf(Top.nota.hooks, Top.nota.currency)
    <3>1. notas[Top.id].hooks = Top.nota.hooks /\ notas[Top.id].currency = Top.nota.currency
      BY <1>1, <2>a, TopOwned DEF MoneyInv
    <3>2. Depth > 0
      BY <1>1, <2>a, TopInStack DEF MoneyInv, OwnInv, GuardInv, TypeInv, TypeOK
    <3> QED BY <2>a, <3>1, <3>2 DEF AboutNotaOf
  <2>b. ASSUME WriteFinishes PROVE AboutNotaOf(Top.nota.hooks, Top.nota.currency)
    <3>1. /\ stack # <<>> /\ Top.fn = "write" /\ nextId \in Ids
          /\ notas' = [notas EXCEPT ![nextId] = Top.nota]
      BY <2>b DEF WriteFinishes, At
    <3>2. Depth > 0 /\ Top.id = nextId
      BY <1>1, <3>1, TopInStack, TopFresh
         DEF MoneyInv, OwnInv, GuardInv, TypeInv, TypeOK, Guarded, Fresh
    <3>3. notas'[Top.id] = Top.nota
      BY <1>1, <3>1, <3>2 DEF MoneyInv, OwnInv, GuardInv, TypeInv, TypeOK, NotasTypeOK
    <3> QED BY <3>1, <3>2, <3>3 DEF AboutNotaOf, Guarded
  <2>8. ASSUME Calls PROVE A
    <3>1. UNCHANGED <<hookRevenue, hookTotalRevenue>>
      BY <1>1, <2>8, CallsOpen DEF Enter, govVars, MoneyInv, OwnInv, GuardInv
    <3> QED BY <2>4, <3>1
  <2>9. ASSUME NEW fee \in Fees, ApproveHooked(fee) \/ TransferHooked(fee) \/ SafeTransferHooked(fee)
                                    \/ UpdateHooked(fee)
        PROVE  A
    <3>1. CreditHook(Top.nota.hooks, Top.nota.currency, fee)
      BY <2>9 DEF ApproveHooked, TransferHooked, SafeTransferHooked, UpdateHooked, DeductFee
    <3>2. stack # <<>> /\ Top.fn \in Guarded \ {"write"} /\ Top.at # "received"
      BY <2>9 DEF ApproveHooked, TransferHooked, SafeTransferHooked, UpdateHooked, At, Guarded, Transfers
    <3>3. AboutNotaOf(Top.nota.hooks, Top.nota.currency)
      BY <2>a, <3>2
    <3>4. fee \in Nat
      BY <2>7
    <3> QED BY <2>5, <3>1, <3>3, <3>4
  <2>10. ASSUME BurnHooked \/ WriteFinishes \/ FundFinishes \/ CashFinishes PROVE A
    <3>1. /\ stack # <<>>
          /\ \/ CreditHook(Top.nota.hooks, Top.nota.currency, Top.fee)
             \/ CreditHook(Top.nota.hooks, Top.nota.currency, Top.nota.escrowed)
      BY <2>10 DEF BurnHooked, WriteFinishes, FundFinishes, CashFinishes, At
    <3>2. AboutNotaOf(Top.nota.hooks, Top.nota.currency)
      <4>1. CASE WriteFinishes
        BY <2>b, <4>1
      <4>2. CASE BurnHooked \/ FundFinishes \/ CashFinishes
        <5>1. stack # <<>> /\ Top.fn \in Guarded \ {"write"} /\ Top.at # "received"
          BY <4>2 DEF BurnHooked, FundFinishes, CashFinishes, At, Guarded
        <5> QED BY <2>a, <5>1
      <4> QED BY <2>10, <4>1, <4>2
    <3>3. Top.fee \in Nat /\ Top.nota.escrowed \in Nat
      BY <2>7, <3>1
    <3> QED BY <2>5, <3>1, <3>2, <3>3
  <2>11. ASSUME \/ \E fee \in Fees : DepositHooked(fee) \/ CashHooked(fee)
                \/ Received \/ TokenSteps \/ WithdrawFinishes
         PROVE  A
    <3>1. UNCHANGED <<hookRevenue, hookTotalRevenue>>
      BY <2>11 DEF DepositHooked, CashHooked, Received, TokenSteps, Pulls, PullReturns, Forwards,
                   ForwardReturns, Pays, PayReturns, TokenMoves, TokenReturns, WithdrawFinishes,
                   storageVars, govVars
    <3> QED BY <2>4, <3>1
  <2>12. ASSUME Unguarded PROVE A
    <3>1. \/ UNCHANGED <<hookRevenue, hookTotalRevenue>>
          \/ \E h \in Contracts, t \in Tokens, amount \in Withdrawals : DebitHook(h, t, amount)
      <4>1. (\E c \in Callers, t \in Tokens, amount \in Withdrawals : DebitProtocol(c, t, amount))
               => UNCHANGED <<hookRevenue, hookTotalRevenue>>
        BY DEF DebitProtocol
      <4> QED BY <2>12, <4>1, UnguardedRevenues
    <3> QED BY <2>4, <2>6, <3>1
  <2> HIDE DEF A
  <2>13. CASE Answers
    BY <2>9, <2>10, <2>11, <2>13 DEF Answers
  <2>14. CASE Finishes
    BY <2>10, <2>11, <2>14 DEF Finishes
  <2>15. CASE Revert
    BY <2>15 DEF A
  <2> QED BY <2>8, <2>11, <2>12, <2>13, <2>14, <2>15 DEF Next
<1>2. Spec => [][A]_vars
  BY <1>1, AlwaysFunded, PTL DEF Spec
<1> QED BY <1>2 DEF HookEarningsKept
=============================================================================
