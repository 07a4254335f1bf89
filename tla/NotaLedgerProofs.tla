-------------------------- MODULE NotaLedgerProofs --------------------------
(***************************************************************************)
(* NotaRegistrar implements NotaLedger: every step of the registrar is a   *)
(* step of the ledger, or leaves it as it is.                              *)
(***************************************************************************)
EXTENDS NotaMoneyProofs, NotaRefinement

-----------------------------------------------------------------------------
(* The inductive invariant: a cash books its fee after it has paid, so the *)
(* fee stays a part of the amount until then.                              *)

CashFits(f) == f.fn = "cash" /\ f.at # "hook" => f.fee <= f.amount

LedgerInv ==
    /\ MoneyInv
    /\ \A i \in 1 .. Depth : CashFits(stack[i])

LEMMA StepLedgerInv == LedgerInv /\ [Next]_vars => LedgerInv'
<1> SUFFICES ASSUME LedgerInv, [Next]_vars PROVE LedgerInv'
  OBVIOUS
<1>1. /\ MoneyInv' /\ TypeInv /\ Recorded(owners, notas, tokenApprovals)
      /\ stack \in Seq(FrameType) /\ Depth \in Nat
  BY StepMoney DEF LedgerInv, MoneyInv, OwnInv, GuardInv, TypeInv, TypeOK, Depth
<1>2. \A i \in 1 .. Depth : CashFits(stack[i])
  BY DEF LedgerInv
<1>3. ASSUME OpensFrame, NEW i \in 1 .. Depth' PROVE CashFits(stack'[i])
  <2>1. PICK f \in FrameType : Open(f) /\ (f.fn = "cash" => f.at = "hook")
    BY <1>3 DEF OpensFrame
  <2>2. /\ Len(stack') = Depth + 1 /\ stack'[Depth + 1] = f
        /\ \A j \in 1 .. Depth : stack'[j] = stack[j]
    BY <1>1, <2>1, OpenStack
  <2>3. Depth' = Depth + 1 /\ CashFits(f)
    BY <2>1, <2>2 DEF Depth, CashFits
  <2> QED BY <1>1, <1>2, <2>2, <2>3
<1>4. ASSUME ContinuesTop, NEW i \in 1 .. Depth' PROVE CashFits(stack'[i])
  <2>1. PICK f \in FrameType :
           /\ Continue(f) /\ f.fn = Top.fn /\ f.amount = Top.amount
           /\ f.fn = "cash" => f.fee <= f.amount \/ (Top.at # "hook" /\ f.fee = Top.fee)
    BY <1>4 DEF ContinuesTop
  <2>2. /\ Len(stack') = Depth /\ stack'[Depth] = f
        /\ \A j \in 1 .. Depth - 1 : stack'[j] = stack[j]
    BY <1>1, <1>4, <2>1, ContinueStack DEF ContinuesTop
  <2>3. Depth \in 1 .. Depth
    BY <1>1, <1>4, TopInStack DEF ContinuesTop
  <2>4. Depth' = Depth /\ CashFits(f)
    BY <1>2, <2>1, <2>2, <2>3 DEF Depth, CashFits, Top
  <2> QED BY <1>1, <1>2, <2>2, <2>4
<1>5. ASSUME ClosesTop, NEW i \in 1 .. Depth' PROVE CashFits(stack'[i])
  <2>1. Len(stack') = Depth - 1 /\ \A j \in 1 .. Depth - 1 : stack'[j] = stack[j]
    BY <1>1, <1>5, CloseStack DEF ClosesTop
  <2>2. Depth' = Depth - 1
    BY <2>1 DEF Depth
  <2> QED BY <1>1, <1>2, <2>1, <2>2
<1>6. UNCHANGED stack => \A i \in 1 .. Depth' : CashFits(stack'[i])
  BY <1>2 DEF Depth
<1> QED BY <1>1, <1>3, <1>4, <1>5, <1>6, StackSteps DEF LedgerInv

LEMMA AlwaysLedgerInv == Spec => []LedgerInv
<1>1. Init => LedgerInv
  BY InitMoney DEF LedgerInv, Init, Depth
<1> QED BY <1>1, StepLedgerInv, PTL DEF Spec

-----------------------------------------------------------------------------
(* The ledger and the journal that a state stands for.                     *)

LedgerNow == View(Storage, stack)

Entry(i) == [before |-> View(stack[i].saved, Below(i)), acted |-> HasActed(stack[i])]
Journal == [i \in 1 .. Depth |-> Entry(i)]

LedgerEscrow == [id \in Ids |-> notas[id].escrowed + Taken(stack, id)]
LedgerCurrency == [id \in Ids |-> notas[id].currency]
LedgerHook == [id \in Ids |-> notas[id].hooks]
LedgerHeld == [t \in Tokens |-> Held(t) - HeldAhead(stack, t)]

\* A ledger, field by field.
LedgerOf(o, e, c, h, r, s, m) ==
    [owner |-> o, escrow |-> e, currency |-> c, hook |-> h, revenue |-> r, share |-> s, held |-> m]

LEMMA LedgerIs ==
    LedgerNow = LedgerOf(owners, LedgerEscrow, LedgerCurrency, LedgerHook,
                         hookRevenue, protocolRevenue, LedgerHeld)
  BY DEF LedgerNow, View, Storage, LedgerEscrow, LedgerCurrency, LedgerHook, LedgerHeld, Held, LedgerOf

LEMMA LedgerNextIs ==
    LedgerNow' = LedgerOf(owners', LedgerEscrow', LedgerCurrency', LedgerHook',
                          hookRevenue', protocolRevenue', LedgerHeld')
<1>1. (LedgerNow = LedgerOf(owners, LedgerEscrow, LedgerCurrency, LedgerHook,
                            hookRevenue, protocolRevenue, LedgerHeld))'
  BY LedgerIs, PTL
<1> QED BY <1>1 DEF LedgerOf

\* What one call has taken from nota id, and what it holds that the ledger does not know of.
Cashed(f, id) == IF f.fn = "cash" /\ f.id = id /\ f.at # "hook" THEN f.amount ELSE 0
AheadIn(f, t) == IF f.nota.currency = t THEN Ahead(f) ELSE 0

LEMMA PartsTyped ==
    ASSUME NEW f \in FrameType, NEW x
    PROVE  Cashed(f, x) \in Nat /\ AheadIn(f, x) \in Int
<1>1. f.amount \in Nat /\ f.fee \in Nat
  BY UintAssumption DEF FrameType, Uint
<1> QED BY <1>1 DEF Cashed, AheadIn, Ahead, Elsewhere, Uncredited

\* A sum over 1 .. d is one over 1 .. d - 1 and the last summand.
LEMMA LastOfSum ==
    ASSUME NEW d \in Nat \ {0}, NEW f, NEW g, \A i \in 1 .. d : f[i] \in Int,
           \A i \in 1 .. d - 1 : g[i] = f[i]
    PROVE  Sum(g, 1 .. d - 1) \in Int /\ Sum(f, 1 .. d) = Sum(g, 1 .. d - 1) + f[d]
<1>1. IsFiniteSet(1 .. d) /\ IsFiniteSet(1 .. d - 1)
  BY FS_Interval
<1>2. d \in 1 .. d /\ (1 .. d) \ {d} = 1 .. d - 1
  OBVIOUS
<1>3. Sum(f, 1 .. d) = f[d] + Sum(f, 1 .. d - 1)
  BY <1>1, <1>2, SumRemove
<1>4. Sum(g, 1 .. d - 1) = Sum(f, 1 .. d - 1)
  BY <1>1, SumEqual
<1>5. \A i \in 1 .. d - 1 : g[i] \in Int
  <2>1. \A i \in 1 .. d - 1 : i \in 1 .. d
    OBVIOUS
  <2> QED BY <2>1
<1>6. Sum(g, 1 .. d - 1) \in Int
  BY <1>1, <1>5, SumInt
<1> QED BY <1>2, <1>3, <1>4, <1>6

\* What stacks have taken and hold, when k is kk with one call more.
LEMMA LastCall ==
    ASSUME NEW k \in Seq(FrameType), NEW kk \in Seq(FrameType), Len(k) = Len(kk) + 1,
           \A i \in 1 .. Len(kk) : kk[i] = k[i], NEW x
    PROVE  /\ Taken(kk, x) \in Int /\ Taken(k, x) = Taken(kk, x) + Cashed(k[Len(k)], x)
           /\ HeldAhead(kk, x) \in Int /\ HeldAhead(k, x) = HeldAhead(kk, x) + AheadIn(k[Len(k)], x)
<1> DEFINE d == Len(k)
           f == [i \in 1 .. d |-> Cashed(k[i], x)]
           g == [i \in 1 .. d - 1 |-> Cashed(kk[i], x)]
           ff == [i \in 1 .. d |-> AheadIn(k[i], x)]
           gg == [i \in 1 .. d - 1 |-> AheadIn(kk[i], x)]
<1>1. d \in Nat \ {0} /\ Len(kk) = d - 1 /\ \A i \in 1 .. d : k[i] \in FrameType
  OBVIOUS
<1>2. \A i \in 1 .. d : f[i] \in Int /\ ff[i] \in Int
  BY <1>1, PartsTyped
<1>3. \A i \in 1 .. d - 1 : g[i] = f[i] /\ gg[i] = ff[i]
  BY <1>1
<1>4. f[d] = Cashed(k[d], x) /\ ff[d] = AheadIn(k[d], x)
  BY <1>1
<1>5. /\ Taken(k, x) = Sum(f, 1 .. d) /\ Taken(kk, x) = Sum(g, 1 .. d - 1)
      /\ HeldAhead(k, x) = Sum(ff, 1 .. d) /\ HeldAhead(kk, x) = Sum(gg, 1 .. d - 1)
  BY <1>1 DEF Taken, HeldAhead, Cashed, AheadIn
<1> HIDE DEF d, f, g, ff, gg
<1>6. Sum(g, 1 .. d - 1) \in Int /\ Sum(f, 1 .. d) = Sum(g, 1 .. d - 1) + f[d]
  BY <1>1, <1>2, <1>3, LastOfSum
<1>7. Sum(gg, 1 .. d - 1) \in Int /\ Sum(ff, 1 .. d) = Sum(gg, 1 .. d - 1) + ff[d]
  BY <1>1, <1>2, <1>3, LastOfSum
<1> QED BY <1>4, <1>5, <1>6, <1>7 DEF d

\* What the stack's changes do to both.
LEMMA OpenLedger ==
    ASSUME TypeInv, NEW f \in FrameType, Open(f), NEW x
    PROVE  /\ Taken(stack, x) \in Int /\ Taken(stack', x) = Taken(stack, x) + Cashed(f, x)
           /\ HeldAhead(stack, x) \in Int
           /\ HeldAhead(stack', x) = HeldAhead(stack, x) + AheadIn(f, x)
<1>1. /\ stack \in Seq(FrameType) /\ stack' \in Seq(FrameType)
      /\ Len(stack') = Len(stack) + 1 /\ stack'[Len(stack')] = f
      /\ \A i \in 1 .. Len(stack) : stack[i] = stack'[i]
  BY OpenStack DEF TypeInv, TypeOK, Depth
<1> QED BY <1>1, LastCall

LEMMA CloseLedger ==
    ASSUME TypeInv, stack # <<>>, Close, NEW x
    PROVE  /\ Taken(stack', x) \in Int /\ Taken(stack, x) = Taken(stack', x) + Cashed(Top, x)
           /\ HeldAhead(stack', x) \in Int
           /\ HeldAhead(stack, x) = HeldAhead(stack', x) + AheadIn(Top, x)
<1>1. /\ stack \in Seq(FrameType) /\ stack' \in Seq(FrameType)
      /\ Len(stack) = Len(stack') + 1 /\ stack[Len(stack)] = Top
      /\ \A i \in 1 .. Len(stack') : stack'[i] = stack[i]
  BY CloseStack, TopInStack DEF TypeInv, TypeOK, Depth, Top
<1> QED BY <1>1, LastCall

LEMMA ContinueLedger ==
    ASSUME TypeInv, stack # <<>>, NEW f \in FrameType, Continue(f), NEW x
    PROVE  /\ Taken(stack, x) \in Int
           /\ Taken(stack', x) = Taken(stack, x) + (Cashed(f, x) - Cashed(Top, x))
           /\ HeldAhead(stack, x) \in Int
           /\ HeldAhead(stack', x) = HeldAhead(stack, x) + (AheadIn(f, x) - AheadIn(Top, x))
<1> DEFINE rest == Below(Depth)
<1>1. /\ stack \in Seq(FrameType) /\ stack' \in Seq(FrameType) /\ Depth \in Nat \ {0}
      /\ Len(stack) = Depth /\ Len(stack') = Depth /\ stack'[Depth] = f /\ stack[Depth] = Top
      /\ \A i \in 1 .. Depth - 1 : stack'[i] = stack[i]
  BY ContinueStack, TopInStack DEF TypeInv, TypeOK, Depth, Top
<1>2. /\ rest \in Seq(FrameType) /\ Len(rest) = Depth - 1
      /\ \A i \in 1 .. Depth - 1 : rest[i] = stack[i]
  BY <1>1 DEF Below
<1> HIDE DEF rest
<1>3. /\ Taken(rest, x) \in Int /\ Taken(stack, x) = Taken(rest, x) + Cashed(Top, x)
      /\ HeldAhead(rest, x) \in Int /\ HeldAhead(stack, x) = HeldAhead(rest, x) + AheadIn(Top, x)
  <2>1. Len(stack) = Len(rest) + 1 /\ \A i \in 1 .. Len(rest) : rest[i] = stack[i]
    BY <1>1, <1>2
  <2> QED BY <1>1, <1>2, <2>1, LastCall
<1>4. /\ Taken(stack', x) = Taken(rest, x) + Cashed(f, x)
      /\ HeldAhead(stack', x) = HeldAhead(rest, x) + AheadIn(f, x)
  <2>1. Len(stack') = Len(rest) + 1 /\ \A i \in 1 .. Len(rest) : rest[i] = stack'[i]
    BY <1>1, <1>2
  <2> QED BY <1>1, <1>2, <2>1, LastCall
<1>5. /\ Cashed(f, x) \in Int /\ Cashed(Top, x) \in Int
      /\ AheadIn(f, x) \in Int /\ AheadIn(Top, x) \in Int
  <2>1. Top \in FrameType
    BY <1>1
  <2> QED BY <2>1, PartsTyped
<1> QED BY <1>3, <1>4, <1>5

\* What the open calls hold is an amount, or the lack of one.
LEMMA HeldAheadTyped == ASSUME TypeInv, NEW t PROVE HeldAhead(stack, t) \in Int
<1> DEFINE f == [i \in 1 .. Depth |-> AheadIn(stack[i], t)]
<1>1. Depth \in Nat /\ \A i \in 1 .. Depth : stack[i] \in FrameType
  BY FramesTyped
<1>2. IsFiniteSet(1 .. Depth) /\ \A i \in 1 .. Depth : f[i] \in Int
  BY <1>1, PartsTyped, FS_Interval
<1>3. HeldAhead(stack, t) = Sum(f, 1 .. Depth)
  BY DEF HeldAhead, AheadIn, Depth
<1> HIDE DEF f
<1> QED BY <1>2, <1>3, SumInt

LEMMA OpenJournal ==
    ASSUME TypeInv, NEW f \in FrameType, Open(f), f.saved = Storage
    PROVE  Journal' = Append(Journal, [before |-> LedgerNow, acted |-> HasActed(f)])
<1>1. /\ Depth \in Nat /\ Len(stack') = Depth + 1 /\ stack'[Depth + 1] = f
      /\ \A i \in 1 .. Depth : stack'[i] = stack[i]
      /\ Depth' = Depth + 1
  BY OpenStack, FramesTyped DEF TypeInv, TypeOK, Depth
<1>2. ASSUME NEW i \in 1 .. Depth PROVE Entry(i)' = Entry(i)
  <2>1. Below(i)' = Below(i)
    <3>1. \A j \in 1 .. i - 1 : stack'[j] = stack[j]
      BY <1>1
    <3> QED BY <3>1 DEF Below
  <2> QED BY <1>1, <2>1 DEF Entry
<1>3. [j \in 1 .. (Depth + 1) - 1 |-> stack'[j]] = stack
  <2>1. stack \in Seq(FrameType) /\ (Depth + 1) - 1 = Depth
    BY <1>1 DEF TypeInv, TypeOK
  <2>2. [j \in 1 .. (Depth + 1) - 1 |-> stack'[j]] = [j \in 1 .. Depth |-> stack[j]]
    BY <1>1, <2>1
  <2> QED BY <2>1, <2>2 DEF Depth
<1>4. Journal' = [i \in 1 .. Depth + 1 |-> IF i = Depth + 1 THEN [before |-> LedgerNow, acted |-> HasActed(f)]
                                          ELSE Entry(i)]
  <2>1. Journal' = [i \in 1 .. Depth + 1 |-> Entry(i)']
    BY <1>1 DEF Journal
  <2>2. [before |-> View(stack'[Depth + 1].saved, [j \in 1 .. (Depth + 1) - 1 |-> stack'[j]]),
         acted |-> HasActed(stack'[Depth + 1])]
           = [before |-> LedgerNow, acted |-> HasActed(f)]
    BY <1>1, <1>3 DEF LedgerNow
  <2>3. ASSUME NEW i \in 1 .. Depth + 1
        PROVE  Entry(i)' = IF i = Depth + 1 THEN [before |-> LedgerNow, acted |-> HasActed(f)] ELSE Entry(i)
    <3>1. CASE i = Depth + 1
      BY <2>2, <3>1 DEF Entry, Below
    <3>2. CASE i \in 1 .. Depth
      BY <1>1, <1>2, <3>2
    <3> QED BY <1>1, <3>1, <3>2
  <2> QED BY <2>1, <2>3
<1> DEFINE e == [before |-> LedgerNow, acted |-> HasActed(f)]
<1> HIDE DEF e
<1>5. Journal' = [i \in 1 .. Depth + 1 |-> IF i = Depth + 1 THEN e ELSE Entry(i)]
  BY <1>4 DEF e
<1>6. Append(Journal, e) = [i \in 1 .. Depth + 1 |-> IF i = Depth + 1 THEN e ELSE Entry(i)]
  BY <1>1 DEF Journal
<1> QED BY <1>5, <1>6 DEF e

LEMMA CloseJournal ==
    ASSUME TypeInv, stack # <<>>, Close
    PROVE  /\ Journal # <<>> /\ Len(Journal) = Depth /\ Journal[Len(Journal)] = Entry(Depth)
           /\ Entry(Depth).acted = HasActed(Top)
           /\ Journal' = [i \in 1 .. Len(Journal) - 1 |-> Journal[i]]
<1>1. /\ Depth \in Nat \ {0} /\ Depth' = Depth - 1 /\ stack[Depth] = Top
      /\ \A i \in 1 .. Depth - 1 : stack'[i] = stack[i]
  BY CloseStack, TopInStack DEF TypeInv, TypeOK, Depth, Top
<1>2. Journal # <<>> /\ Len(Journal) = Depth /\ Journal[Depth] = Entry(Depth)
  BY <1>1 DEF Journal
<1>3. ASSUME NEW i \in 1 .. Depth - 1 PROVE Entry(i)' = Entry(i)
  <2>1. Below(i)' = Below(i)
    <3>1. \A j \in 1 .. i - 1 : stack'[j] = stack[j]
      BY <1>1
    <3> QED BY <3>1 DEF Below
  <2> QED BY <1>1, <2>1 DEF Entry
<1>4. Journal' = [i \in 1 .. Depth - 1 |-> Journal[i]]
  BY <1>1, <1>3 DEF Journal
<1> QED BY <1>1, <1>2, <1>4 DEF Entry

LEMMA ContinueJournal ==
    ASSUME TypeInv, stack # <<>>, NEW f \in FrameType, Continue(f), f.saved = Top.saved
    PROVE  /\ Journal # <<>> /\ Len(Journal) = Depth /\ Journal[Len(Journal)] = Entry(Depth)
           /\ Entry(Depth).acted = HasActed(Top)
           /\ Journal' = [Journal EXCEPT ![Len(Journal)].acted = HasActed(f)]
<1>1. /\ Depth \in Nat \ {0} /\ Depth' = Depth /\ stack[Depth] = Top /\ stack'[Depth] = f
      /\ \A i \in 1 .. Depth - 1 : stack'[i] = stack[i]
  BY ContinueStack, TopInStack DEF TypeInv, TypeOK, Depth, Top
<1>2. Journal # <<>> /\ Len(Journal) = Depth /\ Journal[Depth] = Entry(Depth)
  BY <1>1 DEF Journal
<1>3. ASSUME NEW i \in 1 .. Depth PROVE Below(i)' = Below(i)
  <2>1. \A j \in 1 .. i - 1 : stack'[j] = stack[j]
    BY <1>1
  <2> QED BY <2>1 DEF Below
<1>4. ASSUME NEW i \in 1 .. Depth - 1 PROVE Entry(i)' = Entry(i)
  BY <1>1, <1>3 DEF Entry
<1>5. ASSUME NEW i \in 1 .. Depth, i = Depth
      PROVE  Entry(i)' = [Entry(Depth) EXCEPT !.acted = HasActed(f)]
  <2>1. Below(i)' = Below(i) /\ stack'[i] = f /\ stack[i] = Top
    BY <1>1, <1>3, <1>5
  <2>2. Entry(i)' = [before |-> View(f.saved, Below(i)), acted |-> HasActed(f)]
    BY <2>1 DEF Entry
  <2>3. Entry(Depth) = [before |-> View(Top.saved, Below(i)), acted |-> HasActed(Top)]
    BY <1>5, <2>1 DEF Entry
  <2> QED BY <2>2, <2>3
<1>6. Journal' = [i \in 1 .. Depth |-> IF i = Depth THEN [Entry(Depth) EXCEPT !.acted = HasActed(f)]
                                      ELSE Entry(i)]
  <2>1. Journal' = [i \in 1 .. Depth |-> Entry(i)']
    BY <1>1 DEF Journal
  <2>2. ASSUME NEW i \in 1 .. Depth
        PROVE  Entry(i)' = IF i = Depth THEN [Entry(Depth) EXCEPT !.acted = HasActed(f)] ELSE Entry(i)
    <3>1. CASE i = Depth
      BY <1>5, <3>1
    <3>2. CASE i \in 1 .. Depth - 1
      BY <1>1, <1>4, <3>2
    <3> QED BY <1>1, <3>1, <3>2
  <2> QED BY <2>1, <2>2
<1>7. [Journal EXCEPT ![Depth].acted = HasActed(f)]
         = [i \in 1 .. Depth |-> IF i = Depth THEN [Entry(Depth) EXCEPT !.acted = HasActed(f)]
                                ELSE Entry(i)]
  <2> HIDE DEF Entry
  <2> QED BY <1>1 DEF Journal
<1> QED BY <1>1, <1>2, <1>6, <1>7 DEF Entry

-----------------------------------------------------------------------------
(* What the ledger sees.                                                   *)

\* One guarded call is open at most: while the innermost is one, no other cash is.
LEMMA OneTaker ==
    ASSUME OwnInv, stack # <<>>, Top.fn \in Guarded, NEW x
    PROVE  Taken(stack, x) = Cashed(Top, x)
<1> DEFINE rest == Below(Depth)
<1>1. /\ stack \in Seq(FrameType) /\ Depth \in Nat \ {0} /\ Len(stack) = Depth /\ stack[Depth] = Top
  BY TopInStack DEF OwnInv, GuardInv, TypeInv, TypeOK, Depth, Top
<1>2. /\ rest \in Seq(FrameType) /\ Len(rest) = Depth - 1
      /\ \A i \in 1 .. Depth - 1 : rest[i] = stack[i]
  BY <1>1 DEF Below
<1>3. \A i \in 1 .. Depth - 1 : Cashed(rest[i], x) = 0
  <2>1. Depth \in GuardedFrames
    BY <1>1 DEF GuardedFrames
  <2>2. \A i, j \in GuardedFrames : i = j
    BY GuardInvImplies DEF OwnInv, OneGuarded
  <2>3. ASSUME NEW i \in 1 .. Depth - 1 PROVE stack[i].fn \notin Guarded
    <3>1. i \in 1 .. Depth /\ i # Depth
      BY <1>1
    <3> QED BY <2>1, <2>2, <3>1 DEF GuardedFrames
  <2> QED BY <1>2, <2>3 DEF Cashed, Guarded
<1>4. Taken(rest, x) = 0
  <2> DEFINE f == [i \in 1 .. Depth - 1 |-> Cashed(rest[i], x)]
  <2>1. Taken(rest, x) = Sum(f, 1 .. Depth - 1)
    BY <1>2 DEF Taken, Cashed
  <2>2. IsFiniteSet(1 .. Depth - 1) /\ \A i \in 1 .. Depth - 1 : f[i] = 0
    BY <1>1, <1>3, FS_Interval
  <2> HIDE DEF f
  <2> QED BY <2>1, <2>2, SumZero
<1> HIDE DEF rest
<1>5. Taken(stack, x) = Taken(rest, x) + Cashed(Top, x)
  <2>1. Len(stack) = Len(rest) + 1 /\ \A i \in 1 .. Len(rest) : rest[i] = stack[i]
    BY <1>1, <1>2
  <2> QED BY <1>1, <1>2, <2>1, LastCall
<1>6. Cashed(Top, x) \in Int
  <2>1. Top \in FrameType
    BY <1>1
  <2> QED BY <2>1, PartsTyped
<1> QED BY <1>4, <1>5, <1>6

LEMMA LedgerTyped ==
    ASSUME TypeInv
    PROVE  /\ owners \in [Ids -> AddressOrZero] /\ notas \in [Ids -> NotaType]
           /\ hookRevenue \in [Contracts -> [Tokens -> Uint]] /\ protocolRevenue \in [Tokens -> Uint]
           /\ \A id \in Ids : notas[id].escrowed \in Nat
           /\ \A t \in Tokens : Held(t) \in Int
           /\ \A u \in Uint : u \in Nat
<1>1. \A u \in Uint : u \in Nat
  BY UintAssumption DEF Uint
<1>2. /\ owners \in [Ids -> AddressOrZero] /\ notas \in [Ids -> NotaType]
      /\ hookRevenue \in [Contracts -> [Tokens -> Uint]] /\ protocolRevenue \in [Tokens -> Uint]
  BY DEF TypeInv, TypeOK, ERC721TypeOK, NotasTypeOK, GovTypeOK
<1> QED BY <1>1, <1>2, BooksTyped DEF NotaType

\* The ledger does not see a call move on.
LEMMA SameLedger ==
    ASSUME UNCHANGED <<owners, hookRevenue, protocolRevenue>>,
           \A id \in Ids : notas'[id].currency = notas[id].currency,
           \A id \in Ids : notas'[id].hooks = notas[id].hooks,
           \A id \in Ids : notas'[id].escrowed + Taken(stack', id) = notas[id].escrowed + Taken(stack, id),
           \A t \in Tokens : Held(t)' - HeldAhead(stack', t) = Held(t) - HeldAhead(stack, t)
    PROVE  LedgerNow' = LedgerNow
<1>1. LedgerEscrow' = LedgerEscrow /\ LedgerCurrency' = LedgerCurrency /\ LedgerHook' = LedgerHook
  BY DEF LedgerEscrow, LedgerCurrency, LedgerHook
<1>2. LedgerHeld' = LedgerHeld
  BY DEF LedgerHeld
<1> QED BY <1>1, <1>2, LedgerIs, LedgerNextIs

LEMMA Stutters ==
    ASSUME LedgerNow' = LedgerNow, Journal' = Journal
    PROVE  UNCHANGED Ledger!vars
  BY DEF Ledger!vars, LedgerNow, Journal, Entry

-----------------------------------------------------------------------------
(* The ledger's steps, from what a step of the registrar changes: its      *)
(* fields change one by one.                                               *)

\* A nota is booked: its owner, its escrow, a fee, and what comes in or leaves.
LEMMA LedgerBooks ==
    ASSUME NEW id \in Ids, NEW o, NEW e, NEW fee, NEW in, owners[id] # Zero,
           owners' = [owners EXCEPT ![id] = o],
           LedgerEscrow' = [LedgerEscrow EXCEPT ![id] = e],
           LedgerCurrency' = LedgerCurrency, LedgerHook' = LedgerHook,
           hookRevenue' = [hookRevenue EXCEPT ![LedgerHook[id]][LedgerCurrency[id]] = @ + fee],
           UNCHANGED protocolRevenue,
           LedgerHeld' = [LedgerHeld EXCEPT ![LedgerCurrency[id]] = @ + in]
    PROVE  Ledger!Book(id, o, e, fee, in)
<1> DEFINE t == LedgerCurrency[id]
           h == LedgerHook[id]
           L1 == [LedgerNow EXCEPT !.owner[id] = o]
           L2 == [L1 EXCEPT !.escrow[id] = e]
           L3 == [L2 EXCEPT !.revenue[h][t] = @ + fee]
           L4 == [L3 EXCEPT !.held[t] = @ + in]
<1>1. LedgerNow.owner = owners /\ LedgerNow.currency[id] = t /\ LedgerNow.hook[id] = h
  BY LedgerIs DEF LedgerOf
<1>2. /\ hookRevenue' = [hookRevenue EXCEPT ![h][t] = @ + fee]
      /\ LedgerHeld' = [LedgerHeld EXCEPT ![t] = @ + in]
  OBVIOUS
<1> HIDE DEF t, h
<1>3. L1 = LedgerOf(owners', LedgerEscrow, LedgerCurrency, LedgerHook,
                    hookRevenue, protocolRevenue, LedgerHeld)
  BY LedgerIs DEF LedgerOf
<1>4. L2 = LedgerOf(owners', LedgerEscrow', LedgerCurrency, LedgerHook,
                    hookRevenue, protocolRevenue, LedgerHeld)
  <2> HIDE DEF L1
  <2> QED BY <1>3 DEF LedgerOf
<1>5. L3 = LedgerOf(owners', LedgerEscrow', LedgerCurrency, LedgerHook,
                    hookRevenue', protocolRevenue, LedgerHeld)
  <2> HIDE DEF L2
  <2> QED BY <1>2, <1>4 DEF LedgerOf
<1>6. L4 = LedgerOf(owners', LedgerEscrow', LedgerCurrency, LedgerHook,
                    hookRevenue', protocolRevenue, LedgerHeld')
  <2> HIDE DEF L3
  <2> QED BY <1>2, <1>5 DEF LedgerOf
<1>7. LedgerNow' = [LedgerNow EXCEPT !.owner[id] = o, !.escrow[id] = e,
                                     !.revenue[h][t] = @ + fee, !.held[t] = @ + in]
  <2> HIDE DEF L4
  <2>1. LedgerNow' = L4
    BY <1>6, LedgerNextIs
  <2>2. [LedgerNow EXCEPT !.owner[id] = o, !.escrow[id] = e,
                          !.revenue[h][t] = @ + fee, !.held[t] = @ + in] = L4
    BY DEF L4
  <2> QED BY <2>1, <2>2
<1>8. Ledger!Exists(id)
  BY <1>1 DEF Ledger!Exists, LedgerNow
<1>9. LedgerNow' = [LedgerNow EXCEPT !.owner[id] = o, !.escrow[id] = e,
                                     !.revenue[LedgerNow.hook[id]][LedgerNow.currency[id]] = @ + fee,
                                     !.held[LedgerNow.currency[id]] = @ + in]
  BY <1>1, <1>7
<1> QED BY <1>8, <1>9 DEF Ledger!Book, LedgerNow

\* A nota is written.
LEMMA LedgerWrites ==
    ASSUME NEW id \in Ids, NEW o, NEW t, NEW h, NEW n, NEW fee, owners[id] = Zero, o # Zero,
           owners' = [owners EXCEPT ![id] = o],
           LedgerEscrow' = [LedgerEscrow EXCEPT ![id] = n],
           LedgerCurrency' = [LedgerCurrency EXCEPT ![id] = t],
           LedgerHook' = [LedgerHook EXCEPT ![id] = h],
           hookRevenue' = [hookRevenue EXCEPT ![h][t] = @ + fee],
           UNCHANGED protocolRevenue,
           LedgerHeld' = [LedgerHeld EXCEPT ![t] = @ + n + fee]
    PROVE  Ledger!Write(id, o, t, h, n, fee)
<1> DEFINE L1 == [LedgerNow EXCEPT !.owner[id] = o]
           L2 == [L1 EXCEPT !.escrow[id] = n]
           L3 == [L2 EXCEPT !.currency[id] = t]
           L4 == [L3 EXCEPT !.hook[id] = h]
           L5 == [L4 EXCEPT !.revenue[h][t] = @ + fee]
           L6 == [L5 EXCEPT !.held[t] = @ + n + fee]
<1>1. LedgerNow.owner = owners
  BY LedgerIs DEF LedgerOf
<1>2. L1 = LedgerOf(owners', LedgerEscrow, LedgerCurrency, LedgerHook,
                    hookRevenue, protocolRevenue, LedgerHeld)
  BY LedgerIs DEF LedgerOf
<1>3. L2 = LedgerOf(owners', LedgerEscrow', LedgerCurrency, LedgerHook,
                    hookRevenue, protocolRevenue, LedgerHeld)
  <2> HIDE DEF L1
  <2> QED BY <1>2 DEF LedgerOf
<1>4. L3 = LedgerOf(owners', LedgerEscrow', LedgerCurrency', LedgerHook,
                    hookRevenue, protocolRevenue, LedgerHeld)
  <2> HIDE DEF L2
  <2> QED BY <1>3 DEF LedgerOf
<1>5. L4 = LedgerOf(owners', LedgerEscrow', LedgerCurrency', LedgerHook',
                    hookRevenue, protocolRevenue, LedgerHeld)
  <2> HIDE DEF L3
  <2> QED BY <1>4 DEF LedgerOf
<1>6. L5 = LedgerOf(owners', LedgerEscrow', LedgerCurrency', LedgerHook',
                    hookRevenue', protocolRevenue, LedgerHeld)
  <2> HIDE DEF L4
  <2> QED BY <1>5 DEF LedgerOf
<1>7. L6 = LedgerOf(owners', LedgerEscrow', LedgerCurrency', LedgerHook',
                    hookRevenue', protocolRevenue, LedgerHeld')
  <2> HIDE DEF L5
  <2> QED BY SMTT(30), <1>6 DEF LedgerOf
<1>8. LedgerNow' = [LedgerNow EXCEPT !.owner[id] = o, !.escrow[id] = n,
                                     !.currency[id] = t, !.hook[id] = h,
                                     !.revenue[h][t] = @ + fee, !.held[t] = @ + n + fee]
  <2> HIDE DEF L6
  <2>1. LedgerNow' = L6
    BY <1>7, LedgerNextIs
  <2>2. [LedgerNow EXCEPT !.owner[id] = o, !.escrow[id] = n,
                          !.currency[id] = t, !.hook[id] = h,
                          !.revenue[h][t] = @ + fee, !.held[t] = @ + n + fee] = L6
    BY DEF L6
  <2> QED BY <2>1, <2>2
<1>9. ~Ledger!Exists(id)
  BY <1>1 DEF Ledger!Exists, LedgerNow
<1> QED BY <1>8, <1>9 DEF Ledger!Write, LedgerNow

\* A nota is burnt, and its hook earns what it held.
LEMMA LedgerBurns ==
    ASSUME NEW id \in Ids, owners[id] # Zero,
           owners' = [owners EXCEPT ![id] = Zero],
           LedgerEscrow' = [LedgerEscrow EXCEPT ![id] = 0],
           LedgerCurrency' = [LedgerCurrency EXCEPT ![id] = Zero],
           LedgerHook' = [LedgerHook EXCEPT ![id] = Zero],
           hookRevenue' = [hookRevenue EXCEPT
                              ![LedgerHook[id]][LedgerCurrency[id]] = @ + LedgerEscrow[id]],
           UNCHANGED <<protocolRevenue, LedgerHeld>>
    PROVE  Ledger!Burn(id)
<1> DEFINE t == LedgerCurrency[id]
           h == LedgerHook[id]
           n == LedgerEscrow[id]
           L1 == [LedgerNow EXCEPT !.owner[id] = Zero]
           L2 == [L1 EXCEPT !.escrow[id] = 0]
           L3 == [L2 EXCEPT !.currency[id] = Zero]
           L4 == [L3 EXCEPT !.hook[id] = Zero]
           L5 == [L4 EXCEPT !.revenue[h][t] = @ + n]
<1>1. /\ LedgerNow.owner = owners /\ LedgerNow.currency[id] = t /\ LedgerNow.hook[id] = h
      /\ LedgerNow.escrow[id] = n
      /\ hookRevenue' = [hookRevenue EXCEPT ![h][t] = @ + n]
  BY LedgerIs DEF LedgerOf
<1> HIDE DEF t, h, n
<1>2. L1 = LedgerOf(owners', LedgerEscrow, LedgerCurrency, LedgerHook,
                    hookRevenue, protocolRevenue, LedgerHeld)
  BY LedgerIs DEF LedgerOf
<1>3. L2 = LedgerOf(owners', LedgerEscrow', LedgerCurrency, LedgerHook,
                    hookRevenue, protocolRevenue, LedgerHeld)
  <2> HIDE DEF L1
  <2> QED BY <1>2 DEF LedgerOf
<1>4. L3 = LedgerOf(owners', LedgerEscrow', LedgerCurrency', LedgerHook,
                    hookRevenue, protocolRevenue, LedgerHeld)
  <2> HIDE DEF L2
  <2> QED BY <1>3 DEF LedgerOf
<1>5. L4 = LedgerOf(owners', LedgerEscrow', LedgerCurrency', LedgerHook',
                    hookRevenue, protocolRevenue, LedgerHeld)
  <2> HIDE DEF L3
  <2> QED BY <1>4 DEF LedgerOf
<1>6. L5 = LedgerOf(owners', LedgerEscrow', LedgerCurrency', LedgerHook',
                    hookRevenue', protocolRevenue, LedgerHeld)
  <2> HIDE DEF L4
  <2> QED BY <1>1, <1>5 DEF LedgerOf
<1>7. LedgerNow' = [LedgerNow EXCEPT !.owner[id] = Zero, !.escrow[id] = 0,
                                     !.currency[id] = Zero, !.hook[id] = Zero,
                                     !.revenue[h][t] = @ + n]
  <2> HIDE DEF L5
  <2>1. LedgerNow' = L5
    BY <1>6, LedgerNextIs
  <2>2. [LedgerNow EXCEPT !.owner[id] = Zero, !.escrow[id] = 0,
                          !.currency[id] = Zero, !.hook[id] = Zero,
                          !.revenue[h][t] = @ + n] = L5
    BY DEF L5
  <2> QED BY <2>1, <2>2
<1>8. Ledger!Exists(id)
  BY <1>1 DEF Ledger!Exists, LedgerNow
<1>9. LedgerNow' = [LedgerNow EXCEPT
                      !.owner[id] = Zero, !.escrow[id] = 0, !.currency[id] = Zero, !.hook[id] = Zero,
                      !.revenue[LedgerNow.hook[id]][LedgerNow.currency[id]] = @ + LedgerNow.escrow[id]]
  BY <1>1, <1>7
<1> QED BY <1>8, <1>9 DEF Ledger!Burn, LedgerNow

\* A hook withdraws.
LEMMA LedgerHookWithdraws ==
    ASSUME NEW h \in Contracts, NEW t \in Tokens, NEW n, NEW cut, NEW out, n <= hookRevenue[h][t],
           out \in {0, n - cut}, cut * FeeDenominator <= n * MaxProtocolFee,
           UNCHANGED <<owners, LedgerEscrow, LedgerCurrency, LedgerHook>>,
           hookRevenue' = [hookRevenue EXCEPT ![h][t] = @ - n],
           protocolRevenue' = [protocolRevenue EXCEPT ![t] = @ + cut],
           LedgerHeld' = [LedgerHeld EXCEPT ![t] = @ - out]
    PROVE  Ledger!HookWithdraw(h, t, n, cut, out)
<1> DEFINE L1 == [LedgerNow EXCEPT !.revenue[h][t] = @ - n]
           L2 == [L1 EXCEPT !.share[t] = @ + cut]
           L3 == [L2 EXCEPT !.held[t] = @ - out]
<1>1. LedgerNow.revenue = hookRevenue
  BY LedgerIs DEF LedgerOf
<1>2. L1 = LedgerOf(owners, LedgerEscrow, LedgerCurrency, LedgerHook,
                    hookRevenue', protocolRevenue, LedgerHeld)
  BY LedgerIs DEF LedgerOf
<1>3. L2 = LedgerOf(owners, LedgerEscrow, LedgerCurrency, LedgerHook,
                    hookRevenue', protocolRevenue', LedgerHeld)
  <2> HIDE DEF L1
  <2> QED BY <1>2 DEF LedgerOf
<1>4. L3 = LedgerOf(owners, LedgerEscrow, LedgerCurrency, LedgerHook,
                    hookRevenue', protocolRevenue', LedgerHeld')
  <2> HIDE DEF L2
  <2> QED BY <1>3 DEF LedgerOf
<1>5. LedgerNow' = [LedgerNow EXCEPT !.revenue[h][t] = @ - n, !.share[t] = @ + cut,
                                     !.held[t] = @ - out]
  <2> HIDE DEF L3
  <2>1. LedgerNow' = L3
    BY <1>4, LedgerNextIs
  <2>2. [LedgerNow EXCEPT !.revenue[h][t] = @ - n, !.share[t] = @ + cut,
                          !.held[t] = @ - out] = L3
    BY DEF L3
  <2> QED BY <2>1, <2>2
<1> QED BY <1>1, <1>5 DEF Ledger!HookWithdraw, LedgerNow

\* The protocol withdraws.
LEMMA LedgerProtocolWithdraws ==
    ASSUME NEW t \in Tokens, NEW n, NEW out, n <= protocolRevenue[t], out \in {0, n},
           UNCHANGED <<owners, LedgerEscrow, LedgerCurrency, LedgerHook, hookRevenue>>,
           protocolRevenue' = [protocolRevenue EXCEPT ![t] = @ - n],
           LedgerHeld' = [LedgerHeld EXCEPT ![t] = @ - out]
    PROVE  Ledger!ProtocolWithdraw(t, n, out)
<1> DEFINE L1 == [LedgerNow EXCEPT !.share[t] = @ - n]
           L2 == [L1 EXCEPT !.held[t] = @ - out]
<1>1. LedgerNow.share = protocolRevenue
  BY LedgerIs DEF LedgerOf
<1>2. L1 = LedgerOf(owners, LedgerEscrow, LedgerCurrency, LedgerHook,
                    hookRevenue, protocolRevenue', LedgerHeld)
  BY LedgerIs DEF LedgerOf
<1>3. L2 = LedgerOf(owners, LedgerEscrow, LedgerCurrency, LedgerHook,
                    hookRevenue, protocolRevenue', LedgerHeld')
  <2> HIDE DEF L1
  <2> QED BY <1>2 DEF LedgerOf
<1>4. LedgerNow' = [LedgerNow EXCEPT !.share[t] = @ - n, !.held[t] = @ - out]
  <2> HIDE DEF L2
  <2>1. LedgerNow' = L2
    BY <1>3, LedgerNextIs
  <2>2. [LedgerNow EXCEPT !.share[t] = @ - n, !.held[t] = @ - out] = L2
    BY DEF L2
  <2> QED BY <2>1, <2>2
<1> QED BY <1>1, <1>4 DEF Ledger!ProtocolWithdraw, LedgerNow

\* Tokens come to the registrar that nobody can claim.
LEMMA LedgerGift ==
    ASSUME NEW t \in Tokens, NEW n \in Uint, Journal' = Journal,
           UNCHANGED <<owners, LedgerEscrow, LedgerCurrency, LedgerHook, hookRevenue, protocolRevenue>>,
           LedgerHeld' = [LedgerHeld EXCEPT ![t] = @ + n]
    PROVE  Ledger!Gift
<1>1. LedgerNow' = [LedgerNow EXCEPT !.held[t] = @ + n]
  BY LedgerIs, LedgerNextIs DEF LedgerOf
<1> QED BY <1>1 DEF Ledger!Gift, LedgerNow, Journal, Entry

-----------------------------------------------------------------------------
(* What moves, opens and closes look like from the ledger.                 *)

LEMMA TopTaking ==
    ASSUME LedgerInv, stack # <<>>
    PROVE  /\ TypeInv /\ OwnInv /\ Top \in FrameType /\ Placed(Top)
           /\ \A x \in Ids : Cashed(Top, x) \in Int /\ notas[x].escrowed \in Int
           /\ \A t \in Tokens : AheadIn(Top, t) \in Int /\ Held(t) \in Int
<1>1. TypeInv /\ OwnInv /\ Top \in FrameType /\ Placed(Top)
  BY TopMoney DEF LedgerInv, MoneyInv, OwnInv, GuardInv
<1> QED BY <1>1, PartsTyped, LedgerTyped

LEMMA SameJournal ==
    ASSUME TypeInv, stack # <<>>, NEW f \in FrameType, Continue(f), f.saved = Top.saved,
           HasActed(f) <=> HasActed(Top)
    PROVE  Journal' = Journal
<1>1. /\ Journal' = [Journal EXCEPT ![Len(Journal)].acted = HasActed(f)]
      /\ Journal[Len(Journal)] = Entry(Depth) /\ Entry(Depth).acted = HasActed(Top)
  BY ContinueJournal
<1>2. HasActed(f) = HasActed(Top)
  BY DEF HasActed
<1>3. /\ Journal = [i \in 1 .. Depth |-> Journal[i]]
      /\ \A i \in 1 .. Depth : Journal[i] = [before |-> Journal[i].before, acted |-> Journal[i].acted]
  BY DEF Journal, Entry
<1> HIDE DEF Journal, Entry
<1>4. [Journal EXCEPT ![Len(Journal)].acted = HasActed(Top)] = Journal
  BY <1>1, <1>3
<1> QED BY <1>1, <1>2, <1>4

\* The innermost call goes on, and what it changes it has not yet been seen to do.
LEMMA MovesOn ==
    ASSUME LedgerInv, stack # <<>>, NEW f \in FrameType, Continue(f), f.saved = Top.saved,
           HasActed(f) <=> HasActed(Top), UNCHANGED <<owners, hookRevenue, protocolRevenue>>,
           \A x \in Ids : notas'[x].currency = notas[x].currency,
           \A x \in Ids : notas'[x].hooks = notas[x].hooks,
           \A x \in Ids : notas'[x].escrowed + Cashed(f, x) = notas[x].escrowed + Cashed(Top, x),
           \A x \in Ids : notas'[x].escrowed \in Int,
           \A t \in Tokens : Held(t)' \in Int,
           \A t \in Tokens : Held(t)' - AheadIn(f, t) = Held(t) - AheadIn(Top, t)
    PROVE  UNCHANGED Ledger!vars
<1>1. /\ TypeInv /\ Top \in FrameType
      /\ \A x \in Ids : Cashed(Top, x) \in Int /\ notas[x].escrowed \in Int
      /\ \A t \in Tokens : AheadIn(Top, t) \in Int /\ Held(t) \in Int
  BY TopTaking
<1>2. \A x : Cashed(f, x) \in Int /\ AheadIn(f, x) \in Int
  BY PartsTyped
<1>3. ASSUME NEW x \in Ids
      PROVE  notas'[x].escrowed + Taken(stack', x) = notas[x].escrowed + Taken(stack, x)
  <2>1. Taken(stack, x) \in Int /\ Taken(stack', x) = Taken(stack, x) + (Cashed(f, x) - Cashed(Top, x))
    BY <1>1, ContinueLedger
  <2>2. /\ notas'[x].escrowed \in Int /\ notas[x].escrowed \in Int
        /\ Cashed(f, x) \in Int /\ Cashed(Top, x) \in Int
        /\ notas'[x].escrowed + Cashed(f, x) = notas[x].escrowed + Cashed(Top, x)
    BY <1>1, <1>2
  <2> QED BY SMTT(30), <2>1, <2>2
<1>4. ASSUME NEW t \in Tokens
      PROVE  Held(t)' - HeldAhead(stack', t) = Held(t) - HeldAhead(stack, t)
  <2>1. /\ HeldAhead(stack, t) \in Int
        /\ HeldAhead(stack', t) = HeldAhead(stack, t) + (AheadIn(f, t) - AheadIn(Top, t))
    BY <1>1, ContinueLedger
  <2>2. Held(t)' \in Int /\ Held(t)' - AheadIn(f, t) = Held(t) - AheadIn(Top, t)
    OBVIOUS
  <2> QED BY <1>1, <1>2, <2>1, <2>2
<1>5. LedgerNow' = LedgerNow
  BY <1>3, <1>4, SameLedger
<1>6. Journal' = Journal
  BY <1>1, SameJournal
<1> QED BY <1>5, <1>6, Stutters

\* A call opens, which has done nothing yet.
LEMMA OpensUnseen ==
    ASSUME LedgerInv, NEW f \in FrameType, Open(f), f.saved = Storage,
           \A x : Cashed(f, x) = 0, UNCHANGED notas
    PROVE  /\ \A x \in Ids : Taken(stack', x) = Taken(stack, x)
           /\ LedgerEscrow' = LedgerEscrow /\ LedgerCurrency' = LedgerCurrency /\ LedgerHook' = LedgerHook
<1>1. TypeInv
  BY DEF LedgerInv, MoneyInv, OwnInv, GuardInv
<1>2. ASSUME NEW x \in Ids PROVE Taken(stack', x) = Taken(stack, x)
  <2>1. Taken(stack, x) \in Int /\ Taken(stack', x) = Taken(stack, x) + Cashed(f, x)
    BY <1>1, OpenLedger
  <2> QED BY <2>1
<1> QED BY <1>2 DEF LedgerEscrow, LedgerCurrency, LedgerHook

\* A guarded call ends: what it took and held ahead is booked.
LEMMA GuardedCloses ==
    ASSUME LedgerInv, stack # <<>>, Top.fn \in Guarded, Close,
           \A x \in Ids : notas'[x].escrowed \in Int, UNCHANGED balance
    PROVE  /\ LedgerEscrow = [x \in Ids |-> notas[x].escrowed + Cashed(Top, x)]
           /\ LedgerEscrow' = [x \in Ids |-> notas'[x].escrowed]
           /\ \A t \in Tokens : LedgerHeld[t] \in Int
           /\ LedgerHeld' = [t \in Tokens |-> LedgerHeld[t] + AheadIn(Top, t)]
<1>1. /\ TypeInv /\ OwnInv /\ Top \in FrameType
      /\ \A x \in Ids : Cashed(Top, x) \in Int /\ notas[x].escrowed \in Int
      /\ \A t \in Tokens : AheadIn(Top, t) \in Int /\ Held(t) \in Int
  BY TopTaking
<1>2. ASSUME NEW x \in Ids
      PROVE  Taken(stack, x) = Cashed(Top, x) /\ Taken(stack', x) = 0
  <2>1. Taken(stack, x) = Cashed(Top, x)
    BY <1>1, OneTaker
  <2>2. Taken(stack', x) \in Int /\ Taken(stack, x) = Taken(stack', x) + Cashed(Top, x)
    BY <1>1, CloseLedger
  <2> QED BY <1>1, <2>1, <2>2
<1>3. ASSUME NEW t \in Tokens
      PROVE  /\ Held(t) - HeldAhead(stack, t) \in Int
             /\ Held(t)' - HeldAhead(stack', t) = Held(t) - HeldAhead(stack, t) + AheadIn(Top, t)
  <2>1. /\ HeldAhead(stack', t) \in Int
        /\ HeldAhead(stack, t) = HeldAhead(stack', t) + AheadIn(Top, t)
    BY <1>1, CloseLedger
  <2> QED BY <1>1, <2>1, HeldKept
<1> QED BY <1>2, <1>3 DEF LedgerEscrow, LedgerHeld

\* The innermost call ends with a step of the ledger, or had taken it before.
LEMMA Closes ==
    ASSUME LedgerInv, stack # <<>>, Close,
           IF HasActed(Top) THEN LedgerNow' = LedgerNow ELSE Ledger!Acts
    PROVE  Ledger!Close
<1>1. TypeInv
  BY DEF LedgerInv, MoneyInv, OwnInv, GuardInv
<1>2. /\ Journal # <<>> /\ Journal[Len(Journal)].acted = HasActed(Top)
      /\ Journal' = [i \in 1 .. Len(Journal) - 1 |-> Journal[i]]
  BY <1>1, CloseJournal
<1>3. Ledger!Close <=> /\ Journal # <<>> /\ Journal' = [i \in 1 .. Len(Journal) - 1 |-> Journal[i]]
                       /\ IF Journal[Len(Journal)].acted THEN LedgerNow' = LedgerNow ELSE Ledger!Acts
  BY DEF Ledger!Close, Ledger!Pop, Ledger!Innermost, LedgerNow, Journal, Entry
<1> QED BY <1>2, <1>3

-----------------------------------------------------------------------------
(* The actions                                                             *)

LEMMA CallsLedger == ASSUME LedgerInv, Calls PROVE Ledger!Open
<1>1. TypeInv /\ Recorded(owners, notas, tokenApprovals)
  BY DEF LedgerInv, MoneyInv, OwnInv, GuardInv
<1>2. PICK f : Opened(f) /\ Enter(f)
  BY <1>1, CallsOpen
<1>3. /\ f \in FrameType /\ f.saved = Storage /\ f.at = "hook" /\ f.fn \in Guarded /\ Open(f)
      /\ UNCHANGED <<balance, notas, owners, hookRevenue, protocolRevenue>>
  BY <1>2 DEF Opened, Enter, govVars, erc721Vars
<1>4. \A x : Cashed(f, x) = 0 /\ AheadIn(f, x) = 0
  BY <1>3 DEF Cashed, AheadIn, Ahead, Uncredited
<1>5. ~HasActed(f)
  BY <1>3 DEF HasActed, Guarded, Withdraws
<1>6. LedgerNow' = LedgerNow
  <2>1. \A x \in Ids : notas'[x].escrowed + Taken(stack', x) = notas[x].escrowed + Taken(stack, x)
    BY <1>3, <1>4, OpensUnseen
  <2>2. ASSUME NEW t \in Tokens
        PROVE  Held(t)' - HeldAhead(stack', t) = Held(t) - HeldAhead(stack, t)
    <3>1. HeldAhead(stack, t) \in Int /\ HeldAhead(stack', t) = HeldAhead(stack, t) + AheadIn(f, t)
      BY <1>1, <1>3, OpenLedger
    <3> QED BY <1>3, <1>4, <3>1, HeldKept
  <2> QED BY <1>3, <2>1, <2>2, SameLedger
<1>7. Journal' = Append(Journal, [before |-> LedgerNow, acted |-> FALSE])
  <2>1. Journal' = Append(Journal, [before |-> LedgerNow, acted |-> HasActed(f)])
    BY <1>1, <1>3, OpenJournal
  <2>2. HasActed(f) = FALSE
    BY <1>5
  <2> QED BY <2>1, <2>2
<1> QED BY <1>6, <1>7 DEF Ledger!Open, Ledger!Push, LedgerNow, Journal, Entry

LEMMA DepositHookedLedger ==
    ASSUME LedgerInv, TypeInv', NEW fee \in Fees, DepositHooked(fee)
    PROVE  UNCHANGED Ledger!vars
<1> DEFINE p == IF ToEscrow(Top.amount, fee) > 0 THEN "pull" ELSE AfterPull
           f == [Top EXCEPT !.fee = fee, !.at = p]
<1>1. /\ stack # <<>> /\ Continue(f) /\ Top.at = "hook" /\ Top.fn \in Deposits
      /\ UNCHANGED <<balance, notas, owners, hookRevenue, protocolRevenue>>
  BY DEF DepositHooked, At, storageVars, govVars, erc721Vars
<1>2. /\ MoneyInv /\ Top \in FrameType /\ Top.amount \in Nat /\ fee \in Uint /\ fee \in Nat
  BY <1>1, TopMoney, InputAssumption, UintAssumption DEF Uint, LedgerInv
<1>3. /\ p \in Points /\ p \in {"pull", "forward", "finish"}
      /\ p # "pull" => Top.amount + fee = 0
  BY <1>2 DEF Points, External, AfterPull, ToEscrow
<1> HIDE DEF p
<1>4. f \in FrameType
  BY <1>2, <1>3, FrameMoves
<1>5. /\ f.fn = Top.fn /\ f.nota = Top.nota /\ f.amount = Top.amount /\ f.saved = Top.saved
      /\ f.at = p /\ f.fee = fee
  BY <1>2 DEF FrameType
<1> HIDE DEF f
<1>6. \A x : /\ Cashed(f, x) = Cashed(Top, x)
             /\ AheadIn(f, x) = AheadIn(Top, x)
  BY <1>1, <1>2, <1>3, <1>5 DEF Cashed, AheadIn, Ahead, Uncredited, Deposits
<1>7. HasActed(f) <=> HasActed(Top)
  BY <1>1, <1>3, <1>5 DEF HasActed
<1>8. /\ \A x \in Ids : notas'[x].escrowed \in Int
      /\ \A t \in Tokens : Held(t)' \in Int /\ Held(t)' = Held(t)
  BY <1>1, <1>2, TopTaking, HeldKept DEF LedgerInv
<1> QED BY <1>1, <1>4, <1>5, <1>6, <1>7, <1>8, MovesOn

\* The escrow that a cash takes is taken in the ledger when the cash ends.
LEMMA CashHookedLedger ==
    ASSUME LedgerInv, TypeInv', NEW fee \in Fees, CashHooked(fee)
    PROVE  UNCHANGED Ledger!vars
<1> DEFINE p == IF Top.amount > fee THEN "pay" ELSE "finish"
           f == [Top EXCEPT !.fee = fee, !.at = p]
<1>1. /\ stack # <<>> /\ Continue(f) /\ Top.at = "hook" /\ Top.fn = "cash" /\ fee <= Top.amount
      /\ notas' = [notas EXCEPT ![Top.id].escrowed = notas[Top.id].escrowed - Top.amount]
      /\ UNCHANGED <<balance, owners, hookRevenue, protocolRevenue>>
  BY DEF CashHooked, At, govVars, erc721Vars
<1>2. /\ MoneyInv /\ Top \in FrameType /\ Top.amount \in Nat /\ fee \in Uint /\ fee \in Nat
      /\ Top.id \in Ids
  BY <1>1, TopMoney, InputAssumption, UintAssumption DEF Uint, LedgerInv, Guarded
<1>3. p \in Points /\ p \in {"pay", "finish"} /\ (p = "finish" => fee = Top.amount)
  BY <1>1, <1>2 DEF Points, External
<1> HIDE DEF p
<1>4. f \in FrameType
  BY <1>2, <1>3, FrameMoves
<1>5. /\ f.fn = Top.fn /\ f.nota = Top.nota /\ f.amount = Top.amount /\ f.saved = Top.saved
      /\ f.id = Top.id /\ f.at = p /\ f.fee = fee
  BY <1>2 DEF FrameType
<1> HIDE DEF f
<1>6. notas \in [Ids -> NotaType] /\ notas' \in [Ids -> NotaType]
  BY <1>1, TopTaking DEF TypeInv, TypeOK, NotasTypeOK
<1>7. \A x \in Ids : notas[x].escrowed \in Int /\ notas'[x].escrowed \in Int
  BY <1>6, UintAssumption DEF NotaType, Uint
<1>8. ASSUME NEW x \in Ids
      PROVE  /\ notas'[x].currency = notas[x].currency /\ notas'[x].hooks = notas[x].hooks
             /\ notas'[x].escrowed = notas[x].escrowed - (IF x = Top.id THEN Top.amount ELSE 0)
  BY <1>1, <1>2, <1>6, <1>7 DEF NotaType
<1>9. \A x \in Ids : notas'[x].escrowed + Cashed(f, x) = notas[x].escrowed + Cashed(Top, x)
  BY <1>1, <1>2, <1>3, <1>5, <1>7, <1>8 DEF Cashed
<1>10. \A t \in Tokens : AheadIn(f, t) = AheadIn(Top, t)
  <2>1. Ahead(Top) = 0
    BY <1>1 DEF Ahead
  <2>2. CASE p = "pay"
    BY <1>1, <1>5, <2>1, <2>2 DEF AheadIn, Ahead
  <2>3. CASE p = "finish"
    <3>1. Elsewhere(f, f.amount - f.fee) = 0
      BY <1>2, <1>3, <1>5, <2>3 DEF Elsewhere
    <3>2. Ahead(f) = 0
      BY <1>1, <1>5, <2>3, <3>1 DEF Ahead
    <3> QED BY <1>5, <2>1, <3>2 DEF AheadIn
  <2> QED BY <1>3, <2>2, <2>3
<1>11. HasActed(f) <=> HasActed(Top)
  BY <1>1, <1>3, <1>5 DEF HasActed
<1>12. \A t \in Tokens : Held(t)' \in Int /\ Held(t)' = Held(t)
  BY <1>1, TopTaking, HeldKept
<1> QED BY <1>1, <1>4, <1>5, <1>7, <1>8, <1>9, <1>10, <1>11, <1>12, MovesOn

\* approve, update and the transfers take a fee out of their nota's escrow.
LEMMA Charges ==
    ASSUME LedgerInv, stack # <<>>, Top.fn \in Guarded \ {"write"}, Top.at = "hook",
           NEW fee \in Fees, NEW o \in Address, DeductFee(fee),
           owners' = [owners EXCEPT ![Top.id] = o],
           LedgerEscrow = [x \in Ids |-> notas[x].escrowed],
           LedgerEscrow' = [x \in Ids |-> notas'[x].escrowed],
           LedgerHeld' = LedgerHeld, \A t \in Tokens : LedgerHeld[t] \in Int
    PROVE  Ledger!Acts
<1> DEFINE id == Top.id
           e == LedgerEscrow[id] - fee
<1>1. /\ id \in Ids /\ owners[id] # Zero /\ Top.nota.currency \in Tokens
      /\ notas[id].currency = Top.nota.currency /\ notas[id].hooks = Top.nota.hooks
  BY TopOwned DEF LedgerInv, MoneyInv, WellOpened, Exists
<1>2. /\ notas \in [Ids -> NotaType] /\ fee \in Uint /\ o # Zero
  BY InputAssumption, AddressAssumption, TopTaking DEF TypeInv, TypeOK, NotasTypeOK
<1>3. /\ fee <= notas[id].escrowed
      /\ notas' = [notas EXCEPT ![id].escrowed = notas[id].escrowed - fee]
      /\ hookRevenue' = [hookRevenue EXCEPT ![Top.nota.hooks][Top.nota.currency] = @ + fee]
      /\ UNCHANGED protocolRevenue
  BY DEF DeductFee, CreditHook
<1>4. LedgerHook[id] = Top.nota.hooks /\ LedgerCurrency[id] = Top.nota.currency
  BY <1>1 DEF LedgerHook, LedgerCurrency
<1>5. LedgerCurrency' = LedgerCurrency /\ LedgerHook' = LedgerHook
  BY <1>1, <1>2, <1>3 DEF LedgerCurrency, LedgerHook, NotaType
<1>6. LedgerEscrow' = [LedgerEscrow EXCEPT ![id] = e]
  BY <1>1, <1>2, <1>3 DEF NotaType
<1>7. LedgerHeld' = [LedgerHeld EXCEPT ![LedgerCurrency[id]] = @ + 0]
  <2>1. LedgerHeld[LedgerCurrency[id]] + 0 = LedgerHeld[LedgerCurrency[id]]
    BY <1>1, <1>4
  <2> QED BY <2>1 DEF LedgerHeld
<1>8. fee <= LedgerEscrow[id]
  BY <1>1, <1>3
<1> HIDE DEF e
<1>9. Ledger!Book(id, o, e, fee, 0)
  BY <1>1, <1>3, <1>4, <1>5, <1>6, <1>7, LedgerBooks
<1>10. Ledger!Charge(id, o, fee)
  BY <1>2, <1>8, <1>9, LedgerIs DEF Ledger!Charge, LedgerNow, e, LedgerOf
<1> QED BY <1>1, <1>2, <1>10 DEF Ledger!Acts

\* The owner that a call leaves its nota with.
LEMMA ChargesCloses ==
    ASSUME LedgerInv, TypeInv', stack # <<>>, Top.fn \in Guarded \ {"write", "fund", "cash"},
           Top.at = "hook", Close, UNCHANGED balance,
           NEW fee \in Fees, NEW o \in Address, DeductFee(fee),
           owners' = [owners EXCEPT ![Top.id] = o]
    PROVE  Ledger!Close
<1>1. \A x \in Ids : notas'[x].escrowed \in Int
  BY UintAssumption DEF TypeInv, TypeOK, NotasTypeOK, NotaType, Uint
<1>2. /\ LedgerEscrow = [x \in Ids |-> notas[x].escrowed + Cashed(Top, x)]
      /\ LedgerEscrow' = [x \in Ids |-> notas'[x].escrowed]
      /\ \A t \in Tokens : LedgerHeld[t] \in Int
      /\ LedgerHeld' = [t \in Tokens |-> LedgerHeld[t] + AheadIn(Top, t)]
  BY <1>1, GuardedCloses
<1>3. \A x : Cashed(Top, x) = 0 /\ AheadIn(Top, x) = 0
  BY DEF Cashed, AheadIn, Ahead, Uncredited
<1>4. LedgerEscrow = [x \in Ids |-> notas[x].escrowed]
  <2>1. \A x \in Ids : notas[x].escrowed \in Int
    BY TopTaking
  <2> QED BY <1>2, <1>3, <2>1
<1>5. LedgerHeld' = LedgerHeld
  BY <1>2, <1>3 DEF LedgerHeld
<1>6. Ledger!Acts
  BY <1>2, <1>4, <1>5, Charges
<1>7. ~HasActed(Top)
  BY DEF HasActed, Guarded, Withdraws
<1> QED BY <1>6, <1>7, Closes

LEMMA ChargesLedger ==
    ASSUME LedgerInv, TypeInv', NEW fee \in Fees,
           ApproveHooked(fee) \/ TransferHooked(fee) \/ UpdateHooked(fee)
    PROVE  Ledger!Close
<1>1. /\ stack # <<>> /\ Close /\ UNCHANGED balance /\ Top.at = "hook" /\ DeductFee(fee)
      /\ Top.fn \in Guarded \ {"write", "fund", "cash"}
  BY DEF ApproveHooked, TransferHooked, UpdateHooked, At, Leave, Guarded, Transfers
<1>2. /\ Top.id \in Ids /\ owners[Top.id] # Zero
      /\ Top.fn \in Transfers => Top.to \in AddressOrZero
      /\ owners \in [Ids -> AddressOrZero]
  BY <1>1, TopOwned, TopTaking
     DEF LedgerInv, MoneyInv, Exists, FrameType, TypeInv, TypeOK, ERC721TypeOK
<1>3. CASE ApproveHooked(fee) \/ UpdateHooked(fee)
  <2>1. owners' = owners
    BY <1>3 DEF ApproveHooked, UpdateHooked, ApproveNFT, erc721Vars
  <2>2. owners[Top.id] \in Address /\ owners' = [owners EXCEPT ![Top.id] = owners[Top.id]]
    BY <1>2, <2>1 DEF AddressOrZero
  <2> QED BY <1>1, <2>2, ChargesCloses
<1>4. CASE TransferHooked(fee)
  <2>1. /\ Top.fn \in Transfers /\ Top.to # Zero
        /\ owners' = [owners EXCEPT ![Top.id] = Top.to]
    BY <1>4 DEF TransferHooked, TransferNFT, At
  <2>2. Top.to \in Address
    BY <1>2, <2>1 DEF AddressOrZero
  <2> QED BY <1>1, <2>1, <2>2, ChargesCloses
<1> QED BY <1>3, <1>4

\* A safe transfer has acted before it tells the new owner.
LEMMA SafeTransferLedger ==
    ASSUME LedgerInv, TypeInv', NEW fee \in Fees, SafeTransferHooked(fee)
    PROVE  Ledger!ActsEarly
<1> DEFINE f == [Top EXCEPT !.fee = fee, !.at = "received"]
<1>1. /\ stack # <<>> /\ Continue(f) /\ Top.at = "hook" /\ Top.fn = "safeTransferFrom"
      /\ DeductFee(fee) /\ UNCHANGED balance /\ Top.to \in Address
      /\ owners' = [owners EXCEPT ![Top.id] = Top.to]
  BY DEF SafeTransferHooked, At, TransferNFT, Address, Callers
<1>2. /\ TypeInv /\ OwnInv /\ Top \in FrameType /\ fee \in Uint
      /\ \A t \in Tokens : AheadIn(Top, t) \in Int /\ Held(t) \in Int
      /\ \A x \in Ids : notas[x].escrowed \in Int
  BY SMTT(30), <1>1, TopTaking, InputAssumption
<1>3. f \in FrameType
  BY <1>2, FrameMoves DEF Points, External
<1>4. f.fn = Top.fn /\ f.saved = Top.saved /\ f.at = "received"
  BY <1>2 DEF FrameType
<1> HIDE DEF f
<1>5. \A x : /\ Cashed(f, x) = 0 /\ Cashed(Top, x) = 0
             /\ AheadIn(f, x) = 0 /\ AheadIn(Top, x) = 0
  BY <1>1, <1>4 DEF Cashed, AheadIn, Ahead, Uncredited, Deposits
<1>6. \A x \in Ids : notas'[x].escrowed \in Int
  BY UintAssumption DEF TypeInv, TypeOK, NotasTypeOK, NotaType, Uint
<1>7. ASSUME NEW x \in Ids PROVE Taken(stack, x) = 0 /\ Taken(stack', x) = 0
  <2>1. Taken(stack, x) = 0
    BY <1>1, <1>2, <1>5, OneTaker DEF Guarded
  <2>2. Taken(stack', x) = Taken(stack, x) + (Cashed(f, x) - Cashed(Top, x))
    BY <1>1, <1>2, <1>3, ContinueLedger
  <2> QED BY <1>5, <2>1, <2>2
<1>8. /\ LedgerEscrow = [x \in Ids |-> notas[x].escrowed]
      /\ LedgerEscrow' = [x \in Ids |-> notas'[x].escrowed]
  BY <1>2, <1>6, <1>7 DEF LedgerEscrow
<1>9. LedgerHeld' = LedgerHeld /\ \A t \in Tokens : LedgerHeld[t] \in Int
  <2>1. ASSUME NEW t \in Tokens
        PROVE  HeldAhead(stack', t) = HeldAhead(stack, t) /\ Held(t)' = Held(t)
               /\ HeldAhead(stack, t) \in Int
    <3>1. /\ HeldAhead(stack, t) \in Int
          /\ HeldAhead(stack', t) = HeldAhead(stack, t) + (AheadIn(f, t) - AheadIn(Top, t))
      BY <1>1, <1>2, <1>3, ContinueLedger
    <3> QED BY <1>1, <1>5, <3>1, HeldKept
  <2> QED BY <1>2, <2>1 DEF LedgerHeld
<1>10. Ledger!Acts
  BY <1>1, <1>8, <1>9, Charges DEF Guarded
<1>11. /\ Journal # <<>> /\ Journal[Len(Journal)].acted = HasActed(Top)
       /\ Journal' = [Journal EXCEPT ![Len(Journal)].acted = HasActed(f)]
  BY <1>1, <1>2, <1>3, <1>4, ContinueJournal
<1>12. HasActed(f) = TRUE /\ ~HasActed(Top)
  BY <1>1, <1>4 DEF HasActed, Withdraws
<1>13. Ledger!ActsEarly <=> /\ Journal # <<>> /\ ~Journal[Len(Journal)].acted /\ Ledger!Acts
                            /\ Journal' = [Journal EXCEPT ![Len(Journal)].acted = TRUE]
  BY DEF Ledger!ActsEarly, Ledger!Innermost, Journal, Entry
<1> QED BY <1>10, <1>11, <1>12, <1>13

\* A safe transfer or a withdrawal ends, which has acted before.
LEMMA ActedCloses == ASSUME LedgerInv, Received \/ WithdrawFinishes PROVE Ledger!Close
<1>1. /\ stack # <<>> /\ Close
      /\ UNCHANGED <<balance, notas, owners, hookRevenue, protocolRevenue>>
      /\ (Top.fn = "safeTransferFrom" /\ Top.at = "received") \/ (Top.fn \in Withdraws /\ Top.at = "finish")
  BY DEF Received, WithdrawFinishes, At, Leave, storageVars, govVars, erc721Vars
<1>2. HasActed(Top)
  BY <1>1 DEF HasActed
<1>3. \A x : Cashed(Top, x) = 0 /\ AheadIn(Top, x) = 0
  BY <1>1 DEF Cashed, AheadIn, Ahead, Uncredited, Deposits, Withdraws
<1>4. TypeInv
  BY <1>1, TopTaking
<1>5. ASSUME NEW x
      PROVE  Taken(stack', x) = Taken(stack, x) /\ HeldAhead(stack', x) = HeldAhead(stack, x)
  <2>1. /\ Taken(stack', x) \in Int /\ Taken(stack, x) = Taken(stack', x) + Cashed(Top, x)
        /\ HeldAhead(stack', x) \in Int /\ HeldAhead(stack, x) = HeldAhead(stack', x) + AheadIn(Top, x)
    BY <1>1, <1>4, CloseLedger
  <2> QED BY <1>3, <2>1
<1>6. LedgerNow' = LedgerNow
  BY <1>1, <1>5, SameLedger, HeldKept
<1> QED BY <1>1, <1>2, <1>6, Closes

\* What a hook earns from a burn was read before the hook was asked, and is what the nota still has.
LEMMA BurnLedger == ASSUME LedgerInv, TypeInv', BurnHooked PROVE Ledger!Close
<1> DEFINE id == Top.id
           n == Top.nota
<1>1. /\ stack # <<>> /\ Close /\ UNCHANGED <<balance, protocolRevenue>>
      /\ Top.fn = "burn" /\ Top.at = "hook"
      /\ hookRevenue' = [hookRevenue EXCEPT ![n.hooks][n.currency] = @ + n.escrowed]
      /\ notas' = [notas EXCEPT ![id] = Blank] /\ owners' = [owners EXCEPT ![id] = Zero]
  BY DEF BurnHooked, At, Leave, CreditHook, BurnNFT
<1>2. /\ id \in Ids /\ owners[id] # Zero /\ notas[id].currency = n.currency
      /\ notas[id].hooks = n.hooks /\ notas[id].escrowed = n.escrowed
  BY <1>1, TopOwned DEF LedgerInv, MoneyInv, Exists, Guarded, EscrowNow
<1>3. notas \in [Ids -> NotaType] /\ \A x \in Ids : notas[x].escrowed \in Int
  BY <1>1, TopTaking DEF TypeInv, TypeOK, NotasTypeOK
<1>4. \A x \in Ids : notas'[x].escrowed \in Int
  BY UintAssumption DEF TypeInv, TypeOK, NotasTypeOK, NotaType, Uint
<1>5. \A x : Cashed(Top, x) = 0 /\ AheadIn(Top, x) = 0
  BY <1>1 DEF Cashed, AheadIn, Ahead, Uncredited, Deposits
<1>6. /\ LedgerEscrow = [x \in Ids |-> notas[x].escrowed + Cashed(Top, x)]
      /\ LedgerEscrow' = [x \in Ids |-> notas'[x].escrowed]
      /\ \A t \in Tokens : LedgerHeld[t] \in Int
      /\ LedgerHeld' = [t \in Tokens |-> LedgerHeld[t] + AheadIn(Top, t)]
  BY <1>1, <1>4, GuardedCloses DEF Guarded
<1>7. LedgerEscrow = [x \in Ids |-> notas[x].escrowed]
  BY <1>3, <1>5, <1>6
<1>8. LedgerHeld' = LedgerHeld
  BY <1>5, <1>6 DEF LedgerHeld
<1>9. /\ LedgerHook[id] = n.hooks /\ LedgerCurrency[id] = n.currency /\ LedgerEscrow[id] = n.escrowed
  BY <1>2, <1>7 DEF LedgerHook, LedgerCurrency
<1>10. /\ LedgerEscrow' = [LedgerEscrow EXCEPT ![id] = 0]
       /\ LedgerCurrency' = [LedgerCurrency EXCEPT ![id] = Zero]
       /\ LedgerHook' = [LedgerHook EXCEPT ![id] = Zero]
  BY <1>1, <1>2, <1>3, <1>6, <1>7 DEF LedgerCurrency, LedgerHook, Blank
<1> HIDE DEF id, n
<1>11. Ledger!Burn(id)
  BY <1>1, <1>2, <1>8, <1>9, <1>10, LedgerBurns
<1>12. Ledger!Acts
  BY <1>2, <1>11 DEF Ledger!Acts
<1>13. ~HasActed(Top)
  BY <1>1 DEF HasActed, Withdraws
<1> QED BY <1>1, <1>12, <1>13, Closes

\* A write books what it pulled in before it minted: the nota's escrow and the hook's fee.
LEMMA WriteLedger == ASSUME LedgerInv, TypeInv', WriteFinishes PROVE Ledger!Close
<1> DEFINE id == nextId
           n == Top.nota
           fee == Top.fee
<1>1. /\ stack # <<>> /\ Close /\ UNCHANGED <<balance, protocolRevenue>>
      /\ Top.fn = "write" /\ Top.at = "finish" /\ id \in Ids
      /\ Top.to # Zero /\ owners[id] = Zero
      /\ hookRevenue' = [hookRevenue EXCEPT ![n.hooks][n.currency] = @ + fee]
      /\ notas' = [notas EXCEPT ![id] = n] /\ owners' = [owners EXCEPT ![id] = Top.to]
  BY DEF WriteFinishes, At, Leave, CreditHook, Mint, Exists
<1>2. /\ Top \in FrameType /\ WellOpened(Top) /\ OwnInv
  BY <1>1, TopOwned, TopTaking
<1>3. /\ Top.to \in Address /\ fee \in Uint /\ Top.amount \in Uint /\ n \in NotaType
      /\ n.escrowed = Top.amount /\ n.currency \in Tokens /\ n.hooks \in Contracts
  BY <1>1, <1>2 DEF WellOpened, FrameType, AddressOrZero, Guarded
<1>4. n.escrowed \in Nat /\ fee \in Nat /\ n.escrowed \in Uint
  BY <1>3, UintAssumption DEF Uint
<1>5. notas \in [Ids -> NotaType] /\ \A x \in Ids : notas[x].escrowed \in Int
  BY <1>1, TopTaking DEF TypeInv, TypeOK, NotasTypeOK
<1>6. \A x \in Ids : notas'[x].escrowed \in Int
  BY UintAssumption DEF TypeInv, TypeOK, NotasTypeOK, NotaType, Uint
<1>7. /\ \A x : Cashed(Top, x) = 0
      /\ \A t : AheadIn(Top, t) = IF n.currency = t THEN n.escrowed + fee ELSE 0
  BY <1>1, <1>3, <1>4 DEF Cashed, AheadIn, Ahead, Uncredited, Deposits
<1>8. /\ LedgerEscrow = [x \in Ids |-> notas[x].escrowed + Cashed(Top, x)]
      /\ LedgerEscrow' = [x \in Ids |-> notas'[x].escrowed]
      /\ \A t \in Tokens : LedgerHeld[t] \in Int
      /\ LedgerHeld' = [t \in Tokens |-> LedgerHeld[t] + AheadIn(Top, t)]
  BY <1>1, <1>6, GuardedCloses DEF Guarded
<1>9. LedgerEscrow = [x \in Ids |-> notas[x].escrowed]
  BY <1>5, <1>7, <1>8
<1>10. LedgerHeld' = [LedgerHeld EXCEPT ![n.currency] = @ + n.escrowed + fee]
  BY <1>3, <1>4, <1>7, <1>8 DEF LedgerHeld
<1>11. /\ LedgerEscrow' = [LedgerEscrow EXCEPT ![id] = n.escrowed]
       /\ LedgerCurrency' = [LedgerCurrency EXCEPT ![id] = n.currency]
       /\ LedgerHook' = [LedgerHook EXCEPT ![id] = n.hooks]
  BY <1>1, <1>5, <1>8, <1>9 DEF LedgerCurrency, LedgerHook
<1> DEFINE o == Top.to
<1> HIDE DEF id, n, fee, o
<1>12. Ledger!Write(id, o, n.currency, n.hooks, n.escrowed, fee)
  BY <1>1, <1>10, <1>11, LedgerWrites DEF o
<1>13. Ledger!Acts
  BY <1>1, <1>3, <1>4, <1>12 DEF Ledger!Acts, o
<1>14. ~HasActed(Top)
  BY <1>1 DEF HasActed, Withdraws
<1> QED BY <1>1, <1>13, <1>14, Closes

\* A fund books what it pulled in; a cash what it took, what it paid, and its hook's fee.
LEMMA FundCashLedger == ASSUME LedgerInv, TypeInv', FundFinishes \/ CashFinishes PROVE Ledger!Close
<1> DEFINE id == Top.id
           n == Top.nota
           fee == Top.fee
           amount == Top.amount
           leaves == Elsewhere(Top, amount - fee)
           e == notas'[id].escrowed
           in == IF Top.fn = "fund" THEN amount + fee ELSE -leaves
<1>1. /\ stack # <<>> /\ Close /\ UNCHANGED <<balance, protocolRevenue, owners>>
      /\ Top.fn \in {"fund", "cash"} /\ Top.at = "finish"
      /\ hookRevenue' = [hookRevenue EXCEPT ![n.hooks][n.currency] = @ + fee]
      /\ Top.fn = "fund" => notas' = [notas EXCEPT ![id].escrowed = notas[id].escrowed + amount]
      /\ Top.fn = "cash" => notas' = notas
  BY DEF FundFinishes, CashFinishes, At, Leave, CreditHook, erc721Vars
<1>2. /\ Top \in FrameType /\ WellOpened(Top)
      /\ id \in Ids /\ owners[id] # Zero /\ notas[id].currency = n.currency
      /\ notas[id].hooks = n.hooks
  BY <1>1, TopOwned DEF LedgerInv, MoneyInv, Exists, Guarded
<1>3. /\ fee \in Uint /\ amount \in Uint /\ n.currency \in Tokens
      /\ fee \in Nat /\ amount \in Nat
  BY <1>2, UintAssumption DEF WellOpened, FrameType, Uint
<1>4. /\ notas \in [Ids -> NotaType] /\ \A x \in Ids : notas[x].escrowed \in Int
      /\ owners \in [Ids -> AddressOrZero]
  BY <1>1, TopTaking DEF TypeInv, TypeOK, NotasTypeOK, ERC721TypeOK
<1>5. \A x \in Ids : notas'[x].escrowed \in Int
  BY UintAssumption DEF TypeInv, TypeOK, NotasTypeOK, NotaType, Uint
<1>6. Top.fn = "cash" => fee <= amount
  <2>1. Depth \in 1 .. Depth
    BY <1>1, TopInStack DEF LedgerInv, MoneyInv, OwnInv, GuardInv, TypeInv, TypeOK
  <2> QED BY <1>1, <2>1 DEF LedgerInv, CashFits, Top
<1>7. leaves \in Int /\ in \in Int /\ leaves \in {0, amount - fee}
  BY <1>3 DEF Elsewhere
<1>8. /\ \A x : Cashed(Top, x) = IF Top.fn = "cash" /\ x = id THEN amount ELSE 0
      /\ \A t : AheadIn(Top, t) = IF n.currency = t THEN in ELSE 0
  <2>1. Ahead(Top) = in
    BY <1>1, <1>3 DEF Ahead, Uncredited, Deposits
  <2> QED BY <1>1, <2>1 DEF Cashed, AheadIn
<1>9. /\ LedgerEscrow = [x \in Ids |-> notas[x].escrowed + Cashed(Top, x)]
      /\ LedgerEscrow' = [x \in Ids |-> notas'[x].escrowed]
      /\ \A t \in Tokens : LedgerHeld[t] \in Int
      /\ LedgerHeld' = [t \in Tokens |-> LedgerHeld[t] + AheadIn(Top, t)]
  BY <1>1, <1>5, GuardedCloses DEF Guarded
<1>10. /\ LedgerHook[id] = n.hooks /\ LedgerCurrency[id] = n.currency
       /\ LedgerCurrency' = LedgerCurrency /\ LedgerHook' = LedgerHook
  <2>1. ASSUME NEW x \in Ids
        PROVE  notas'[x].currency = notas[x].currency /\ notas'[x].hooks = notas[x].hooks
    BY <1>1, <1>2, <1>4 DEF NotaType
  <2> QED BY <1>2, <2>1 DEF LedgerHook, LedgerCurrency
<1>11. /\ e \in Int
       /\ Top.fn = "fund" => e = LedgerEscrow[id] + amount
       /\ Top.fn = "cash" => e = LedgerEscrow[id] - amount /\ amount <= LedgerEscrow[id]
  <2>1. notas[id] \in NotaType /\ notas[id].escrowed \in Nat
    BY <1>2, <1>4, UintAssumption DEF NotaType, Uint
  <2> QED BY <1>1, <1>2, <1>3, <1>4, <1>8, <1>9, <2>1 DEF NotaType
<1>12. LedgerEscrow' = [LedgerEscrow EXCEPT ![id] = e]
  <2>1. \A x \in Ids : x # id => notas'[x].escrowed = notas[x].escrowed /\ Cashed(Top, x) = 0
    BY <1>1, <1>2, <1>4, <1>8
  <2> QED BY <1>2, <1>4, <1>9, <2>1
<1>13. LedgerHeld' = [LedgerHeld EXCEPT ![n.currency] = @ + in]
  BY <1>3, <1>7, <1>8, <1>9 DEF LedgerHeld
<1>14. owners' = [owners EXCEPT ![id] = owners[id]]
  BY <1>1, <1>2, <1>4
<1> HIDE DEF e, in, leaves, amount, fee, n, id
<1>15. Ledger!Book(id, owners[id], e, fee, in)
  BY <1>1, <1>2, <1>10, <1>12, <1>13, <1>14, LedgerBooks
<1>16. LedgerNow.owner[id] = owners[id] /\ LedgerNow.escrow[id] = LedgerEscrow[id]
  BY LedgerIs DEF LedgerOf
<1>17. CASE Top.fn = "fund"
  <2>1. e = LedgerEscrow[id] + amount /\ in = amount + fee
    BY <1>11, <1>17 DEF in
  <2>2. Ledger!Fund(id, amount, fee)
    BY <1>15, <1>16, <2>1 DEF Ledger!Fund, LedgerNow
  <2>3. Ledger!Acts
    BY <1>2, <1>3, <2>2 DEF Ledger!Acts
  <2>4. ~HasActed(Top)
    BY <1>1, <1>17 DEF HasActed, Withdraws
  <2> QED BY <1>1, <2>3, <2>4, Closes
<1>18. CASE Top.fn = "cash"
  <2>1. e = LedgerEscrow[id] - amount /\ amount <= LedgerEscrow[id] /\ in = -leaves /\ fee <= amount
    BY <1>6, <1>11, <1>18 DEF in
  <2>2. Ledger!Cash(id, amount, fee, leaves)
    BY <1>7, <1>15, <1>16, <2>1 DEF Ledger!Cash, LedgerNow
  <2>3. Ledger!Acts
    BY <1>2, <1>3, <1>7, <2>2 DEF Ledger!Acts
  <2>4. ~HasActed(Top)
    BY <1>1, <1>18 DEF HasActed, Withdraws
  <2> QED BY <1>1, <2>3, <2>4, Closes
<1> QED BY <1>1, <1>17, <1>18

\* A token's call goes on, and what the registrar holds changes by what the ledger knows will come.
LEMMA TokenMovesOn ==
    ASSUME LedgerInv, TypeInv', stack # <<>>, NEW q \in Points \ {"hook", "received"},
           Top.at \notin {"hook", "received"}, Continue([Top EXCEPT !.at = q]),
           UNCHANGED <<owners, notas, hookRevenue, protocolRevenue>>,
           \A t \in Tokens :
              Held(t)' - Held(t)
                 = IF Top.nota.currency = t THEN Ahead([Top EXCEPT !.at = q]) - Ahead(Top) ELSE 0
    PROVE  UNCHANGED Ledger!vars
<1> DEFINE f == [Top EXCEPT !.at = q]
<1>1. /\ TypeInv /\ Top \in FrameType /\ Top.fee \in Uint
      /\ \A x \in Ids : notas[x].escrowed \in Int
      /\ \A t \in Tokens : AheadIn(Top, t) \in Int /\ Held(t) \in Int
  BY TopTaking DEF FrameType
<1>2. f \in FrameType
  BY <1>1, FrameMoves
<1>3. /\ f.fn = Top.fn /\ f.saved = Top.saved /\ f.nota = Top.nota /\ f.at = q
      /\ f.amount = Top.amount /\ f.id = Top.id
  BY <1>1 DEF FrameType
<1>4. Continue(f) /\ \A t \in Tokens :
         Held(t)' - Held(t) = IF Top.nota.currency = t THEN Ahead(f) - Ahead(Top) ELSE 0
  OBVIOUS
<1> HIDE DEF f
<1>5. \A x \in Ids : Cashed(f, x) = Cashed(Top, x)
  BY <1>3 DEF Cashed
<1>6. HasActed(f) <=> HasActed(Top)
  BY <1>3 DEF HasActed
<1>7. \A t \in Tokens : Held(t)' \in Int
  <2>1. TypeInv' => \A t \in Tokens : Held(t)' \in Int
    BY NextBooksTyped
  <2> QED BY <2>1
<1>8. ASSUME NEW t \in Tokens PROVE Held(t)' - AheadIn(f, t) = Held(t) - AheadIn(Top, t)
  <2>1. Ahead(f) \in Int /\ Ahead(Top) \in Int
    <3>1. AheadIn(f, f.nota.currency) \in Int /\ AheadIn(Top, Top.nota.currency) \in Int
      BY <1>1, <1>2, PartsTyped
    <3> QED BY <3>1 DEF AheadIn
  <2>2. Held(t)' - Held(t) = IF Top.nota.currency = t THEN Ahead(f) - Ahead(Top) ELSE 0
    BY <1>4
  <2>3. Held(t) \in Int /\ Held(t)' \in Int
    BY <1>1, <1>7
  <2>4. /\ AheadIn(f, t) = IF Top.nota.currency = t THEN Ahead(f) ELSE 0
        /\ AheadIn(Top, t) = IF Top.nota.currency = t THEN Ahead(Top) ELSE 0
    BY <1>3 DEF AheadIn
  <2> QED BY <2>1, <2>2, <2>3, <2>4
<1> QED BY <1>1, <1>2, <1>3, <1>4, <1>5, <1>6, <1>7, <1>8, MovesOn

LEMMA TokenStepsLedger == ASSUME LedgerInv, TypeInv', TokenSteps PROVE Ledger!Gift \/ UNCHANGED Ledger!vars
<1>1. stack # <<>> /\ UNCHANGED <<owners, notas, hookRevenue, protocolRevenue>>
  BY DEF TokenSteps, Pulls, PullReturns, Forwards, ForwardReturns, Pays, PayReturns,
         TokenMoves, TokenReturns, At, storageVars, govVars, erc721Vars
<1>2. /\ TypeInv /\ Top \in FrameType /\ WellOpened(Top) /\ Placed(Top) /\ Top.amount \in Nat
      /\ Top.fee \in Nat /\ Top.instant \in Nat /\ Top.instant \in Uint
      /\ Top.at = "pay" => Top.fee <= Top.amount
  BY <1>1, TopMoney, TopTaking DEF LedgerInv, FrameType
<1>3. /\ Top.caller \in Address /\ Top.caller # Registrar /\ Registrar \in Address
      /\ Top.nota.currency \in Tokens /\ Top.to \in AddressOrZero
  BY <1>2, AddressAssumption DEF FrameType, Address, WellOpened
<1>4. /\ AfterPull \in {"forward", "finish"} /\ AfterPull \in Points
      /\ {"pulled", "forwarded", "paid", "finish"} \subseteq Points
  BY DEF AfterPull, Points, External
<1>5. \A q \in Points :
         LET f == [Top EXCEPT !.at = q]
         IN  f.fn = Top.fn /\ f.at = q /\ f.to = Top.to /\ f.amount = Top.amount /\ f.fee = Top.fee
             /\ f.nota = Top.nota /\ f.saved = Top.saved /\ f.id = Top.id
  BY <1>2 DEF FrameType
<1>6. \A t \in Tokens : Held(t) \in Int
  BY <1>2, BooksTyped
<1>7. CASE PullReturns \/ ForwardReturns \/ PayReturns
  <2>1. PICK q \in Points :
           /\ Continue([Top EXCEPT !.at = q]) /\ UNCHANGED balance
           /\ \/ Top.at = "pulled" /\ q \in {"forward", "finish"}
              \/ Top.at = "forwarded" /\ q = "finish"
              \/ Top.at = "paid" /\ q = "finish"
    BY <1>4, <1>7 DEF PullReturns, ForwardReturns, PayReturns, TokenReturns, At, storageVars
  <2> DEFINE f == [Top EXCEPT !.at = q]
  <2>2. f.fn = Top.fn /\ f.at = q /\ f.to = Top.to /\ f.amount = Top.amount /\ f.fee = Top.fee
    BY <1>5
  <2> HIDE DEF f
  <2>3. Ahead(f) = Ahead(Top) /\ Ahead(Top) \in Int
    BY <1>2, <2>1, <2>2 DEF Ahead, Uncredited, Elsewhere, Placed, Deposits, Withdraws
  <2>4. \A t \in Tokens :
           Held(t)' - Held(t) = IF Top.nota.currency = t THEN Ahead(f) - Ahead(Top) ELSE 0
    BY <1>6, <2>1, <2>3, HeldKept
  <2> QED BY <1>1, <2>1, <2>4, TokenMovesOn DEF f
<1>8. CASE Pulls
  <2> DEFINE sum == Top.amount + Top.fee
             f == [Top EXCEPT !.at = "pulled"]
  <2>1. /\ Top.at = "pull" /\ Continue(f)
        /\ Move(Top.nota.currency, Top.caller, Registrar, sum)
    BY <1>8 DEF Pulls, TokenMoves, At, ToEscrow
  <2>2. Top.fn \in Deposits
    BY <1>2, <2>1 DEF Placed
  <2>3. f.fn = Top.fn /\ f.at = "pulled" /\ f.to = Top.to /\ f.amount = Top.amount /\ f.fee = Top.fee
    BY <1>4, <1>5
  <2>4. Registrar \in AddressOrZero /\ sum \in Int
    BY <1>2, <1>3 DEF AddressOrZero
  <2>5. \A t \in Tokens : Held(t)' - Held(t) = IF Top.nota.currency = t THEN sum ELSE 0
    BY <1>2, <1>3, <2>1, <2>4, MoveHeld
  <2>6. Ahead(f) = sum /\ Ahead(Top) = 0
    <3> HIDE DEF f
    <3> QED BY <1>2, <2>1, <2>2, <2>3 DEF Ahead, Uncredited, Deposits
  <2>7. \A t \in Tokens :
           Held(t)' - Held(t) = IF Top.nota.currency = t THEN Ahead(f) - Ahead(Top) ELSE 0
    <3> HIDE DEF f
    <3> QED BY <2>4, <2>5, <2>6
  <2> QED BY <1>1, <1>4, <2>1, <2>7, TokenMovesOn
<1>9. CASE Pays
  <2> DEFINE paid == Top.amount - Top.fee
             f == [Top EXCEPT !.at = "paid"]
  <2>1. /\ Top.at = "pay" /\ Continue(f)
        /\ Move(Top.nota.currency, Registrar, Top.to, paid)
    BY <1>9 DEF Pays, TokenMoves, At
  <2>2. Top.fn \in {"cash"} \cup Withdraws /\ paid \in Nat
    BY <1>2, <2>1 DEF Placed
  <2>3. f.fn = Top.fn /\ f.at = "paid" /\ f.to = Top.to /\ f.amount = Top.amount /\ f.fee = Top.fee
    BY <1>4, <1>5
  <2>4. \A t \in Tokens :
           Held(t)' - Held(t) = IF t # Top.nota.currency \/ Top.to = Registrar THEN 0 ELSE -paid
    BY <1>2, <1>3, <2>1, <2>2, MoveHeld
  <2>5. Ahead(f) - Ahead(Top) = IF Top.to = Registrar THEN 0 ELSE -paid
    <3> HIDE DEF f
    <3>1. Ahead(f) = (IF Top.fn = "cash" THEN -Elsewhere(Top, paid) ELSE 0)
      BY <2>2, <2>3 DEF Ahead, Uncredited, Elsewhere, Deposits, Withdraws
    <3>2. Ahead(Top) = (IF Top.fn = "cash" THEN 0 ELSE Elsewhere(Top, paid))
      BY <2>1, <2>2 DEF Ahead, Uncredited, Elsewhere, Deposits, Withdraws
    <3> QED BY <2>2, <3>1, <3>2 DEF Elsewhere
  <2>6. \A t \in Tokens :
           Held(t)' - Held(t) = IF Top.nota.currency = t THEN Ahead(f) - Ahead(Top) ELSE 0
    <3> HIDE DEF f
    <3> QED BY <2>4, <2>5
  <2> QED BY <1>1, <1>4, <2>1, <2>6, TokenMovesOn
<1>10. CASE Forwards
  <2> DEFINE f == [Top EXCEPT !.at = "forwarded"]
             c == Top.nota.currency
             sent == IF Top.to = Registrar THEN Top.instant ELSE 0
  <2>1. Top.at = "forward" /\ Continue(f) /\ Move(c, Top.caller, Top.to, Top.instant)
    BY <1>10 DEF Forwards, TokenMoves, At
  <2>2. f \in FrameType
    BY <1>2, <1>4, FrameMoves DEF FrameType
  <2>3. /\ f.fn = Top.fn /\ f.at = "forwarded" /\ f.amount = Top.amount /\ f.fee = Top.fee
        /\ f.nota = Top.nota /\ f.saved = Top.saved /\ f.id = Top.id
    BY <1>4, <1>5
  <2> HIDE DEF f
  <2>4. Top.fn \in Deposits
    BY <1>2, <2>1 DEF Placed
  <2>5. \A x : Cashed(f, x) = 0 /\ Cashed(Top, x) = 0 /\ AheadIn(f, x) = AheadIn(Top, x)
               /\ AheadIn(f, x) \in Int
    BY <1>2, <2>1, <2>3, <2>4 DEF Cashed, AheadIn, Ahead, Uncredited, Deposits
  <2>6. HasActed(f) <=> HasActed(Top)
    BY <2>1, <2>3 DEF HasActed
  <2>7. Journal' = Journal
    BY <1>1, <1>2, <2>1, <2>2, <2>3, <2>6, SameJournal
  <2>8. \A t \in Tokens : Held(t)' - Held(t) = IF t = c THEN sent ELSE 0
    <3>1. \A t \in Tokens :
             Held(t)' - Held(t) = IF t # c \/ Top.caller = Top.to THEN 0
                                  ELSE IF Top.to = Registrar THEN Top.instant ELSE 0
      BY <1>2, <1>3, <2>1, MoveHeld
    <3> QED BY <1>3, <3>1
  <2>9. \A x : Taken(stack', x) = Taken(stack, x) /\ HeldAhead(stack', x) = HeldAhead(stack, x)
               /\ HeldAhead(stack, x) \in Int
    <3>1. ASSUME NEW x
          PROVE  /\ Taken(stack, x) \in Int /\ HeldAhead(stack, x) \in Int
                 /\ Taken(stack', x) = Taken(stack, x) + (Cashed(f, x) - Cashed(Top, x))
                 /\ HeldAhead(stack', x) = HeldAhead(stack, x) + (AheadIn(f, x) - AheadIn(Top, x))
      BY <1>1, <1>2, <2>1, <2>2, ContinueLedger
    <3> QED BY <2>5, <3>1
  <2>10. UNCHANGED <<LedgerEscrow, LedgerCurrency, LedgerHook>>
    BY <1>1, <2>9 DEF LedgerEscrow, LedgerCurrency, LedgerHook
  <2>11. LedgerHeld' = [LedgerHeld EXCEPT ![c] = @ + sent]
    <3>1. \A t \in Tokens : Held(t)' \in Int
      BY NextBooksTyped
    <3>2. sent \in Int /\ c \in Tokens
      BY <1>2, <1>3
    <3> HIDE DEF sent, c
    <3>3. ASSUME NEW t \in Tokens
          PROVE  Held(t)' - HeldAhead(stack', t)
                    = (Held(t) - HeldAhead(stack, t)) + (IF t = c THEN sent ELSE 0)
                 /\ Held(t) - HeldAhead(stack, t) \in Int
      <4>1. Held(t)' - Held(t) = IF t = c THEN sent ELSE 0
        BY <2>8
      <4>2. Held(t) \in Int /\ Held(t)' \in Int /\ HeldAhead(stack, t) \in Int
            /\ HeldAhead(stack', t) = HeldAhead(stack, t)
        BY <1>6, <2>9, <3>1
      <4> QED BY <3>2, <4>1, <4>2
    <3>4. LedgerHeld' = [t \in Tokens |-> LedgerHeld[t] + (IF t = c THEN sent ELSE 0)]
      BY <3>3 DEF LedgerHeld
    <3>5. \A t \in Tokens : LedgerHeld[t] \in Int
      BY <3>3 DEF LedgerHeld
    <3>6. LedgerHeld = [t \in Tokens |-> LedgerHeld[t]]
      BY DEF LedgerHeld
    <3> HIDE DEF LedgerHeld
    <3>7. [LedgerHeld EXCEPT ![c] = @ + sent]
             = [t \in Tokens |-> LedgerHeld[t] + (IF t = c THEN sent ELSE 0)]
      BY <3>2, <3>5, <3>6
    <3> QED BY <3>4, <3>7
  <2>12. c \in Tokens /\ sent \in Uint
    BY <1>2, <1>3, UintAssumption DEF Uint
  <2> HIDE DEF sent, c
  <2> QED BY <1>1, <2>7, <2>10, <2>11, <2>12, LedgerGift
<1> QED BY <1>7, <1>8, <1>9, <1>10 DEF TokenSteps

\* A withdrawal is booked at once, and its payment follows.
LEMMA WithdrawalOpens ==
    ASSUME LedgerInv, NEW fn \in Withdraws, NEW c \in Tokens, NEW amount, NEW to, NEW fee, NEW f,
           OpenedWithdrawal(f, fn, c, amount, to, fee), Open(f), UNCHANGED <<balance, notas>>
    PROVE  /\ amount \in Uint /\ fee \in Uint /\ Elsewhere(f, amount - fee) \in {0, amount - fee}
           /\ UNCHANGED <<LedgerEscrow, LedgerCurrency, LedgerHook>>
           /\ LedgerHeld' = [LedgerHeld EXCEPT ![c] = @ - Elsewhere(f, amount - fee)]
           /\ Journal' = Append(Journal, [before |-> LedgerNow, acted |-> TRUE])
<1>1. TypeInv /\ \A t \in Tokens : Held(t) \in Int
  BY LedgerTyped DEF LedgerInv, MoneyInv, OwnInv, GuardInv
<1>2. /\ f \in FrameType /\ f.saved = Storage /\ f.fn = fn /\ f.at = "pay" /\ f.nota.currency = c
      /\ f.amount = amount /\ f.fee = fee
  BY DEF OpenedWithdrawal
<1>3. amount \in Uint /\ fee \in Uint /\ amount \in Nat /\ fee \in Nat
  BY <1>2, UintAssumption DEF FrameType, Uint
<1> DEFINE leaves == Elsewhere(f, amount - fee)
<1>4. leaves \in Int /\ leaves \in {0, amount - fee}
  BY <1>3 DEF Elsewhere
<1>5. /\ \A x : Cashed(f, x) = 0
      /\ \A t : AheadIn(f, t) = IF t = c THEN leaves ELSE 0
  <2>1. Ahead(f) = leaves
    BY <1>2, <1>3 DEF Ahead, Uncredited, Deposits, Withdraws, Elsewhere
  <2> QED BY <1>2, <2>1 DEF Cashed, AheadIn, Withdraws
<1>6. UNCHANGED <<LedgerEscrow, LedgerCurrency, LedgerHook>>
  BY <1>2, <1>5, OpensUnseen
<1>7. LedgerHeld' = [LedgerHeld EXCEPT ![c] = @ - leaves]
  <2> HIDE DEF leaves
  <2>1. ASSUME NEW t \in Tokens
        PROVE  Held(t)' - HeldAhead(stack', t)
                  = (Held(t) - HeldAhead(stack, t)) - (IF t = c THEN leaves ELSE 0)
               /\ Held(t) - HeldAhead(stack, t) \in Int
    <3>1. HeldAhead(stack, t) \in Int /\ HeldAhead(stack', t) = HeldAhead(stack, t) + AheadIn(f, t)
      BY <1>1, <1>2, OpenLedger
    <3>2. Held(t)' = Held(t) /\ Held(t) \in Int
      BY <1>1, HeldKept
    <3> QED BY <1>4, <1>5, <3>1, <3>2
  <2>2. LedgerHeld' = [t \in Tokens |-> LedgerHeld[t] - (IF t = c THEN leaves ELSE 0)]
    BY <2>1 DEF LedgerHeld
  <2>3. (\A t \in Tokens : LedgerHeld[t] \in Int) /\ LedgerHeld = [t \in Tokens |-> LedgerHeld[t]]
    BY <2>1 DEF LedgerHeld
  <2> HIDE DEF LedgerHeld
  <2>4. [LedgerHeld EXCEPT ![c] = @ - leaves]
           = [t \in Tokens |-> LedgerHeld[t] - (IF t = c THEN leaves ELSE 0)]
    BY <1>4, <2>3
  <2> QED BY <2>2, <2>4
<1>8. Journal' = Append(Journal, [before |-> LedgerNow, acted |-> TRUE])
  <2>1. Journal' = Append(Journal, [before |-> LedgerNow, acted |-> HasActed(f)])
    BY <1>1, <1>2, OpenJournal
  <2>2. HasActed(f) = TRUE
    BY <1>2 DEF HasActed
  <2> QED BY <2>1, <2>2
<1> QED BY <1>3, <1>4, <1>6, <1>7, <1>8

LEMMA WithdrawsOpen ==
    ASSUME Ledger!Withdraws, Journal' = Append(Journal, [before |-> LedgerNow, acted |-> TRUE])
    PROVE  Ledger!OpenWithdrawal
  BY DEF Ledger!OpenWithdrawal, Ledger!Push, LedgerNow, Journal, Entry

LEMMA HookWithdrawLedger ==
    ASSUME LedgerInv, NEW h \in Contracts, NEW c \in Tokens, NEW amount \in Withdrawals,
           NEW to \in Payees, HookWithdraw(h, c, amount, to)
    PROVE  Ledger!OpenWithdrawal
<1> DEFINE cut == ProtocolCut(amount)
<1>1. TypeInv /\ protocolFee \in 0 .. MaxProtocolFee
  BY DEF LedgerInv, MoneyInv, OwnInv, GuardInv, TypeInv, TypeOK, GovTypeOK
<1>2. PICK f : OpenedWithdrawal(f, "hookWithdraw", c, amount, to, cut) /\ Open(f)
  BY <1>1, HookWithdrawOpens
<1>3. /\ UNCHANGED <<balance, notas, owners>> /\ amount <= hookRevenue[h][c]
      /\ hookRevenue' = [hookRevenue EXCEPT ![h][c] = @ - amount]
      /\ protocolRevenue' = [protocolRevenue EXCEPT ![c] = @ + cut]
  BY DEF HookWithdraw, DebitHook, erc721Vars
<1>4. amount \in Nat
  BY InputAssumption, UintAssumption DEF Uint
<1>5. cut * FeeDenominator <= MaxProtocolFee * amount
  BY <1>1, <1>4, CutIsShare DEF ProtocolCut
<1> HIDE DEF cut
<1>6. cut * FeeDenominator <= amount * MaxProtocolFee
  BY <1>4, <1>5, GovAssumption
<1> DEFINE leaves == Elsewhere(f, amount - cut)
<1>7. "hookWithdraw" \in Withdraws
  BY DEF Withdraws
<1>8. /\ amount \in Uint /\ cut \in Uint /\ leaves \in {0, amount - cut}
      /\ UNCHANGED <<LedgerEscrow, LedgerCurrency, LedgerHook>>
      /\ LedgerHeld' = [LedgerHeld EXCEPT ![c] = @ - leaves]
      /\ Journal' = Append(Journal, [before |-> LedgerNow, acted |-> TRUE])
  BY <1>2, <1>3, <1>7, WithdrawalOpens
<1> HIDE DEF leaves
<1>9. Ledger!HookWithdraw(h, c, amount, cut, leaves)
  BY <1>3, <1>6, <1>8, LedgerHookWithdraws
<1>10. Ledger!Withdraws
  BY <1>8, <1>9 DEF Ledger!Withdraws
<1> QED BY <1>8, <1>10, WithdrawsOpen

LEMMA ProtocolWithdrawLedger ==
    ASSUME LedgerInv, NEW a \in Callers, NEW c \in Tokens, NEW amount \in Withdrawals,
           NEW to \in Payees, ProtocolWithdraw(a, c, amount, to)
    PROVE  Ledger!OpenWithdrawal
<1>1. TypeInv
  BY DEF LedgerInv, MoneyInv, OwnInv, GuardInv
<1>2. PICK f : OpenedWithdrawal(f, "protocolWithdraw", c, amount, to, 0) /\ Open(f)
  BY <1>1, ProtocolWithdrawOpens
<1>3. /\ UNCHANGED <<balance, notas, owners, hookRevenue>> /\ amount <= protocolRevenue[c]
      /\ protocolRevenue' = [protocolRevenue EXCEPT ![c] = @ - amount]
  BY DEF ProtocolWithdraw, DebitProtocol, erc721Vars
<1> DEFINE cut == 0
           leaves == Elsewhere(f, amount - cut)
<1>4. /\ "protocolWithdraw" \in Withdraws /\ UNCHANGED <<balance, notas>>
      /\ OpenedWithdrawal(f, "protocolWithdraw", c, amount, to, cut) /\ Open(f)
  BY <1>2, <1>3 DEF Withdraws
<1>5. cut = 0
  OBVIOUS
<1> HIDE DEF cut
<1>6. /\ amount \in Uint /\ cut \in Uint /\ leaves \in {0, amount - cut}
      /\ UNCHANGED <<LedgerEscrow, LedgerCurrency, LedgerHook>>
      /\ LedgerHeld' = [LedgerHeld EXCEPT ![c] = @ - leaves]
      /\ Journal' = Append(Journal, [before |-> LedgerNow, acted |-> TRUE])
  BY <1>4, WithdrawalOpens
<1> HIDE DEF leaves
<1>7. leaves \in {0, amount}
  BY <1>5, <1>6, UintAssumption DEF Uint
<1>8. Ledger!ProtocolWithdraw(c, amount, leaves)
  BY <1>3, <1>6, <1>7, LedgerProtocolWithdraws
<1>9. Ledger!Withdraws
  BY <1>6, <1>7, <1>8 DEF Ledger!Withdraws
<1> QED BY <1>6, <1>9, WithdrawsOpen

\* What the ledger does not know of.
LEMMA Unseen ==
    ASSUME UNCHANGED <<balance, stack, notas, owners, hookRevenue, protocolRevenue>>
    PROVE  UNCHANGED Ledger!vars
<1>1. LedgerNow' = LedgerNow
  BY SameLedger, HeldKept
<1>2. Journal' = Journal
  BY DEF Journal, Entry, Below, Depth
<1> QED BY <1>1, <1>2, Stutters

LEMMA SendTokensLedger ==
    ASSUME LedgerInv, TypeInv', NEW a \in Callers, NEW c \in Tokens, NEW amount \in Withdrawals,
           NEW to \in Payees, SendTokens(c, a, to, amount)
    PROVE  Ledger!Gift
<1> DEFINE sent == IF to = Registrar THEN amount ELSE 0
<1>1. TypeInv /\ \A t \in Tokens : Held(t) \in Int
  BY LedgerTyped DEF LedgerInv, MoneyInv, OwnInv, GuardInv
<1>2. /\ UNCHANGED <<stack, notas, owners, hookRevenue, protocolRevenue>>
      /\ Move(c, a, to, amount)
  BY DEF SendTokens, govVars, erc721Vars
<1>3. /\ a \in Address /\ a # Registrar /\ to \in AddressOrZero
      /\ amount \in Nat /\ sent \in Uint /\ sent \in Int
  BY InputAssumption, AddressAssumption, UintAssumption DEF Address, AddressOrZero, Uint
<1>4. \A t \in Tokens : Held(t)' - Held(t) = IF t = c THEN sent ELSE 0
  <2>1. \A t \in Tokens :
           Held(t)' - Held(t) = IF t # c \/ a = to THEN 0 ELSE IF to = Registrar THEN amount ELSE 0
    BY <1>1, <1>2, <1>3, MoveHeld
  <2> QED BY <1>3, <2>1
<1> HIDE DEF sent
<1>5. UNCHANGED <<LedgerEscrow, LedgerCurrency, LedgerHook>>
  BY <1>2 DEF LedgerEscrow, LedgerCurrency, LedgerHook
<1>6. Journal' = Journal
  BY <1>2 DEF Journal, Entry, Below, Depth
<1>7. LedgerHeld' = [LedgerHeld EXCEPT ![c] = @ + sent]
  <2>1. \A t \in Tokens : Held(t)' \in Int /\ HeldAhead(stack', t) = HeldAhead(stack, t)
    BY <1>2, NextBooksTyped
  <2>2. \A t \in Tokens : HeldAhead(stack, t) \in Int
    BY <1>1, HeldAheadTyped
  <2>3. ASSUME NEW t \in Tokens
        PROVE  Held(t)' - HeldAhead(stack', t)
                  = (Held(t) - HeldAhead(stack, t)) + (IF t = c THEN sent ELSE 0)
               /\ Held(t) - HeldAhead(stack, t) \in Int
    <3>1. Held(t)' - Held(t) = IF t = c THEN sent ELSE 0
      BY <1>4
    <3> QED BY <1>1, <1>3, <2>1, <2>2, <3>1
  <2>4. LedgerHeld' = [t \in Tokens |-> LedgerHeld[t] + (IF t = c THEN sent ELSE 0)]
    BY <2>3 DEF LedgerHeld
  <2>5. (\A t \in Tokens : LedgerHeld[t] \in Int) /\ LedgerHeld = [t \in Tokens |-> LedgerHeld[t]]
    BY <2>3 DEF LedgerHeld
  <2> HIDE DEF LedgerHeld
  <2>6. [LedgerHeld EXCEPT ![c] = @ + sent]
           = [t \in Tokens |-> LedgerHeld[t] + (IF t = c THEN sent ELSE 0)]
    BY <1>3, <2>5
  <2> QED BY <2>4, <2>6
<1> QED BY <1>2, <1>3, <1>5, <1>6, <1>7, LedgerGift

LEMMA UnguardedLedger ==
    ASSUME LedgerInv, TypeInv', Unguarded
    PROVE  Ledger!OpenWithdrawal \/ Ledger!Gift \/ UNCHANGED Ledger!vars
<1>1. ASSUME NEW a \in Callers,
             \/ \E newFee \in FeeRates : SetProtocolFee(a, newFee)
             \/ \E g \in Governors : TransferOwnership(a, g)
             \/ RenounceOwnership(a)
             \/ \E o \in Operators, approved \in BOOLEAN : SetApprovalForAll(a, o, approved)
      PROVE  UNCHANGED Ledger!vars
  <2>1. UNCHANGED <<balance, stack, notas, owners, hookRevenue, protocolRevenue>>
    BY <1>1 DEF SetProtocolFee, TransferOwnership, RenounceOwnership, SetApprovalForAll,
                SetFee, SetGovOwner, SetOperator, govVars, erc721Vars
  <2> QED BY <2>1, Unseen
<1> QED BY <1>1, HookWithdrawLedger, ProtocolWithdrawLedger, SendTokensLedger DEF Unguarded

\* A failure brings back the ledger that its call found.
LEMMA RevertLedger == ASSUME LedgerInv, Revert PROVE Ledger!Fail
<1>1. TypeInv /\ stack # <<>> /\ Close
  BY DEF LedgerInv, MoneyInv, OwnInv, GuardInv, Revert
<1>2. /\ Journal # <<>> /\ Journal[Len(Journal)] = Entry(Depth)
      /\ Journal' = [i \in 1 .. Len(Journal) - 1 |-> Journal[i]]
  BY <1>1, CloseJournal
<1>3. stack' = Below(Depth) /\ stack[Depth] = Top
  BY <1>1 DEF Close, Below, Top
<1>4. Entry(Depth).before = View(Top.saved, Below(Depth))
  BY <1>3 DEF Entry
<1>5. LedgerNow' = View(Top.saved, Below(Depth))
  <2>1. LedgerNow' = View([owners |-> owners', notas |-> notas', hookRevenue |-> hookRevenue',
                           protocolRevenue |-> protocolRevenue', balance |-> balance'], stack')
    BY DEF LedgerNow, View, Storage
  <2>2. /\ owners' = Top.saved.owners /\ notas' = Top.saved.notas
        /\ hookRevenue' = Top.saved.hookRevenue /\ protocolRevenue' = Top.saved.protocolRevenue
        /\ balance' = Top.saved.balance
    BY DEF Revert
  <2> QED BY <1>3, <2>1, <2>2 DEF View
<1>6. Ledger!Fail <=> /\ Journal # <<>> /\ Journal' = [i \in 1 .. Len(Journal) - 1 |-> Journal[i]]
                      /\ LedgerNow' = Journal[Len(Journal)].before
  BY DEF Ledger!Fail, Ledger!Pop, Ledger!Innermost, LedgerNow, Journal, Entry
<1> QED BY <1>2, <1>4, <1>5, <1>6

LEMMA StepLedger ==
    ASSUME LedgerInv, [Next]_vars PROVE [Ledger!Next]_(Ledger!vars)
<1>1. TypeInv'
  BY StepLedgerInv DEF LedgerInv, MoneyInv, OwnInv, GuardInv
<1>2. Calls => Ledger!Open
  BY CallsLedger
<1>3. Answers => Ledger!Close \/ Ledger!ActsEarly \/ UNCHANGED Ledger!vars
  BY <1>1, DepositHookedLedger, CashHookedLedger, ChargesLedger, SafeTransferLedger,
     BurnLedger, ActedCloses DEF Answers
<1>4. TokenSteps => Ledger!Gift \/ UNCHANGED Ledger!vars
  BY <1>1, TokenStepsLedger
<1>5. Finishes => Ledger!Close
  BY <1>1, WriteLedger, FundCashLedger, ActedCloses DEF Finishes
<1>6. Unguarded => Ledger!OpenWithdrawal \/ Ledger!Gift \/ UNCHANGED Ledger!vars
  BY <1>1, UnguardedLedger
<1>7. Revert => Ledger!Fail
  BY RevertLedger
<1>8. UNCHANGED vars => UNCHANGED Ledger!vars
  BY Unseen DEF vars, erc721Vars, govVars
<1>9. Next \/ UNCHANGED vars
  OBVIOUS
<1>10. Ledger!Next \/ UNCHANGED Ledger!vars
  BY <1>2, <1>3, <1>4, <1>5, <1>6, <1>7, <1>8, <1>9 DEF Next, Ledger!Next
<1> QED BY <1>10

LEMMA InitLedger == ASSUME Init PROVE Ledger!Init
<1>1. /\ stack = <<>> /\ owners = [id \in Ids |-> Zero] /\ notas = [id \in Ids |-> Blank]
      /\ hookRevenue = [h \in Contracts |-> [t \in Tokens |-> 0]]
      /\ protocolRevenue = [t \in Tokens |-> 0]
      /\ \A t \in Tokens : Held(t) = 0
  BY AddressAssumption DEF Init, ERC721Init, GovInit, InitialBalance, Held, Address
<1>2. ASSUME NEW x PROVE Taken(stack, x) = 0 /\ HeldAhead(stack, x) = 0
  <2>1. 1 .. Len(stack) = {}
    BY <1>1
  <2> QED BY <2>1, SumEmpty DEF Taken, HeldAhead
<1>3. /\ LedgerEscrow = [id \in Ids |-> 0] /\ LedgerCurrency = [id \in Ids |-> Zero]
      /\ LedgerHook = [id \in Ids |-> Zero] /\ LedgerHeld = [t \in Tokens |-> 0]
  BY <1>1, <1>2 DEF LedgerEscrow, LedgerCurrency, LedgerHook, LedgerHeld, Blank
<1>4. LedgerNow = Ledger!Empty
  BY <1>1, <1>3, LedgerIs DEF LedgerOf, Ledger!Empty
<1>5. Journal = <<>>
  BY <1>1 DEF Journal, Depth
<1> QED BY <1>4, <1>5 DEF Ledger!Init, LedgerNow, Journal, Entry

-----------------------------------------------------------------------------

\* The registrar is a ledger on which every call acts at once: whatever hooks,
\* tokens and receivers call while a call waits for them, a call that returns has
\* acted exactly once, and one that fails has left no trace, nor have the calls
\* made inside it (NotaRegistrar.sol:36-167, 201-237, RegistrarGov.sol:39-54).
THEOREM RegistrarIsALedger == Spec => IsALedger
<1>1. Init => Ledger!Init
  BY InitLedger
<1>2. LedgerInv /\ [Next]_vars => [Ledger!Next]_(Ledger!vars)
  BY StepLedger
<1> QED BY <1>1, <1>2, AlwaysLedgerInv, PTL DEF Spec, IsALedger, Ledger!Spec
=============================================================================
