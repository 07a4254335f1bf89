-------------------------- MODULE NotaGuardProofs ---------------------------
(***************************************************************************)
(* The type invariant of the registrar, for any accounts, tokens, bounds   *)
(* and inputs, and what the reentrancy guard is for: one guarded call at a *)
(* time, and what such a call read before its external calls is still in   *)
(* storage when it goes on.  Proved for any depth of calls inside calls.   *)
(***************************************************************************)
EXTENDS NotaProperties, TLAPS

-----------------------------------------------------------------------------
(* The stack of calls, as a sequence of frames.                            *)

LEMMA OpenStack ==
    ASSUME NEW S, stack \in Seq(S), NEW f \in S, Open(f)
    PROVE  /\ stack' \in Seq(S)
           /\ Len(stack') = Depth + 1
           /\ stack'[Depth + 1] = f
           /\ \A i \in 1 .. Depth : stack'[i] = stack[i]
  BY DEF Open, Depth

LEMMA ContinueStack ==
    ASSUME NEW S, stack \in Seq(S), stack # <<>>, NEW f \in S, Continue(f)
    PROVE  /\ stack' \in Seq(S)
           /\ Len(stack') = Depth
           /\ stack'[Depth] = f
           /\ \A i \in 1 .. Depth - 1 : stack'[i] = stack[i]
  BY DEF Continue, Depth

LEMMA CloseStack ==
    ASSUME NEW S, stack \in Seq(S), stack # <<>>, Close
    PROVE  /\ stack' \in Seq(S)
           /\ Len(stack') = Depth - 1
           /\ \A i \in 1 .. Depth - 1 : stack'[i] = stack[i]
  BY DEF Close, Depth

LEMMA TopInStack ==
    ASSUME NEW S, stack \in Seq(S), stack # <<>>
    PROVE  Depth \in Nat \ {0} /\ Depth \in 1 .. Depth /\ Top \in S
  BY DEF Depth, Top

-----------------------------------------------------------------------------
(* Arithmetic                                                              *)

LEMMA CutIsPart ==
    ASSUME NEW a \in Nat, NEW p \in 0 .. MaxProtocolFee
    PROVE  (a * p) \div FeeDenominator \in 0 .. a
<1> DEFINE d == FeeDenominator
<1>1. d \in Nat \ {0} /\ p \in 0 .. d
  BY GovAssumption
<1>2. a * p \in Nat /\ a * p <= a * d
  <2>1. PICK q \in Nat : d = p + q
    <3>1. d - p \in Nat /\ d = p + (d - p)
      BY <1>1
    <3> QED BY <3>1
  <2>2. a * d = a * p + a * q
    BY <2>1
  <2>3. a * p \in Nat /\ a * q \in Nat
    BY <1>1, <2>1
  <2> QED BY <2>2, <2>3
<1>3. \A n, m \in Nat : n <= m * d => n \div d \in 0 .. m
  BY <1>1
<1> QED BY <1>2, <1>3

-----------------------------------------------------------------------------
(* The types of what one operator of the specification writes.             *)

LEMMA StorageTyped ==
    ASSUME BalanceTypeOK, ERC721TypeOK, GovTypeOK, NotasTypeOK
    PROVE  Storage \in StorageType
  BY DEF BalanceTypeOK, ERC721TypeOK, GovTypeOK, NotasTypeOK, Storage, StorageType

LEMMA MoveTyped ==
    ASSUME BalanceTypeOK, NEW t, NEW from \in Address, NEW to \in AddressOrZero,
           NEW amount \in Nat, Move(t, from, to, amount)
    PROVE  BalanceTypeOK'
<1>1. CASE t \in Tokens /\ from # to
  BY <1>1, UintAssumption DEF BalanceTypeOK, Move, Uint, AddressOrZero
<1>2. CASE t \notin Tokens \/ from = to
  BY <1>2 DEF BalanceTypeOK, Move
<1> QED BY <1>1, <1>2

LEMMA CreditHookTyped ==
    ASSUME GovTypeOK, NEW h, NEW t, NEW amount \in Nat, CreditHook(h, t, amount)
    PROVE  GovTypeOK'
<1>1. CASE h \in Contracts /\ t \in Tokens
  BY <1>1, UintAssumption DEF GovTypeOK, CreditHook, Uint
<1>2. CASE ~(h \in Contracts /\ t \in Tokens)
  BY <1>2 DEF GovTypeOK, CreditHook
<1> QED BY <1>1, <1>2

LEMMA DebitHookTyped ==
    ASSUME GovTypeOK, NEW h \in Contracts, NEW t \in Tokens, NEW amount \in Uint,
           DebitHook(h, t, amount)
    PROVE  GovTypeOK' /\ ProtocolCut(amount) \in 0 .. amount
<1>1. ProtocolCut(amount) \in 0 .. amount
  BY CutIsPart, UintAssumption DEF GovTypeOK, ProtocolCut, Uint
<1> HIDE DEF ProtocolCut
<1> QED BY <1>1, UintAssumption DEF GovTypeOK, DebitHook, Uint

LEMMA ERC721Typed ==
    ASSUME ERC721TypeOK, NEW a, NEW b \in AddressOrZero, NEW id, NEW yes \in BOOLEAN,
           \/ Mint(b, id)
           \/ BurnNFT(id)
           \/ TransferNFT(a, b, id)
           \/ ApproveNFT(a, b, id)
           \/ SetOperator(a, b, yes) /\ a \in Callers /\ b \in Address
    PROVE  ERC721TypeOK'
<1>1. CASE Mint(b, id)
  <2>1. b \in Address
    BY <1>1 DEF Mint, AddressOrZero
  <2>2. nftBalance' \in [Address -> Int]
    BY <1>1, <2>1 DEF ERC721TypeOK, Mint
  <2>3. owners' \in [Ids -> AddressOrZero]
    BY <1>1 DEF ERC721TypeOK, Mint
  <2> QED BY <1>1, <2>2, <2>3 DEF ERC721TypeOK, Mint
<1>2. CASE BurnNFT(id)
  <2>1. nftBalance' \in [Address -> Int]
    <3> DEFINE o == owners[id]
    <3>1. nftBalance' = [nftBalance EXCEPT ![o] = @ - 1]
      BY <1>2 DEF BurnNFT
    <3>2. CASE o \in Address
      BY <3>1, <3>2 DEF ERC721TypeOK
    <3>3. CASE o \notin Address
      BY <3>1, <3>3 DEF ERC721TypeOK
    <3> QED BY <3>2, <3>3
  <2>2. owners' \in [Ids -> AddressOrZero] /\ tokenApprovals' \in [Ids -> AddressOrZero]
    BY <1>2 DEF ERC721TypeOK, BurnNFT, AddressOrZero
  <2> QED BY <1>2, <2>1, <2>2 DEF ERC721TypeOK, BurnNFT
<1>3. CASE TransferNFT(a, b, id)
  <2>1. nftBalance' \in [Address -> Int]
    <3>1. CASE a = b
      BY <1>3, <3>1 DEF ERC721TypeOK, TransferNFT
    <3>2. CASE a # b
      <4>1. b \in Address
        BY <1>3 DEF TransferNFT, AddressOrZero
      <4>2. CASE a \in Address
        BY <1>3, <3>2, <4>1, <4>2 DEF ERC721TypeOK, TransferNFT
      <4>3. CASE a \notin Address
        BY <1>3, <3>2, <4>1, <4>3 DEF ERC721TypeOK, TransferNFT
      <4> QED BY <4>2, <4>3
    <3> QED BY <3>1, <3>2
  <2> QED BY <1>3, <2>1 DEF ERC721TypeOK, TransferNFT, AddressOrZero
<1>4. CASE ApproveNFT(a, b, id)
  BY <1>4 DEF ERC721TypeOK, ApproveNFT
<1>5. CASE SetOperator(a, b, yes) /\ a \in Callers /\ b \in Address
  BY <1>5 DEF ERC721TypeOK, SetOperator
<1> QED BY <1>1, <1>2, <1>3, <1>4, <1>5

-----------------------------------------------------------------------------
(* Frames                                                                  *)

StackTypeOK == stack \in Seq(FrameType) /\ PaymentsCovered

\* The inductive invariant: TypeOK alone does not bound the payments.
TypeInv == TypeOK /\ PaymentsCovered

PaySound(f) == f.at = "pay" => f.fee <= f.amount

LEMMA CallOfTyped ==
    ASSUME TypeOK, NEW fn \in Guarded \cup Withdraws, NEW c \in Callers,
           NEW id \in 0 .. MaxNotas, NEW nota \in NotaType
    PROVE  /\ CallOf(fn, c, id, nota) \in FrameType
           /\ CallOf(fn, c, id, nota).at = "hook"
<1>1. Storage \in StorageType
  BY StorageTyped DEF TypeOK
<1>2. 0 \in Uint /\ Zero \in AddressOrZero /\ "hook" \in Points
  BY UintAssumption DEF Uint, AddressOrZero, Points, External
<1> HIDE DEF Storage, StorageType, Uint, AddressOrZero, Points, Guarded, Withdraws, NotaType
<1> QED BY <1>1, <1>2 DEF CallOf, FrameType

LEMMA OpenTyped ==
    ASSUME StackTypeOK, NEW f \in FrameType, PaySound(f), Open(f)
    PROVE  StackTypeOK'
<1>1. /\ stack' \in Seq(FrameType)
      /\ Len(stack') = Depth + 1
      /\ stack'[Depth + 1] = f
      /\ \A i \in 1 .. Depth : stack'[i] = stack[i]
  BY OpenStack DEF StackTypeOK
<1>2. Depth \in Nat
  BY DEF StackTypeOK, Depth
<1>3. \A i \in 1 .. Depth + 1 : i \in 1 .. Depth \/ i = Depth + 1
  BY <1>2
<1>4. PaymentsCovered'
  BY <1>1, <1>3 DEF PaymentsCovered, StackTypeOK, Depth, PaySound
<1> QED BY <1>1, <1>4 DEF StackTypeOK

LEMMA ContinueTyped ==
    ASSUME StackTypeOK, stack # <<>>, NEW f \in FrameType, PaySound(f), Continue(f)
    PROVE  StackTypeOK'
<1>1. /\ stack' \in Seq(FrameType)
      /\ Len(stack') = Depth
      /\ stack'[Depth] = f
      /\ \A i \in 1 .. Depth - 1 : stack'[i] = stack[i]
  BY ContinueStack DEF StackTypeOK
<1>2. Depth \in Nat
  BY DEF StackTypeOK, Depth
<1>3. \A i \in 1 .. Depth : i \in 1 .. Depth - 1 \/ i = Depth
  BY <1>2
<1>4. PaymentsCovered'
  BY <1>1, <1>3 DEF PaymentsCovered, StackTypeOK, Depth, PaySound
<1> QED BY <1>1, <1>4 DEF StackTypeOK

LEMMA CloseTyped ==
    ASSUME StackTypeOK, stack # <<>>, Close
    PROVE  StackTypeOK'
<1>1. /\ stack' \in Seq(FrameType)
      /\ Len(stack') = Depth - 1
      /\ \A i \in 1 .. Depth - 1 : stack'[i] = stack[i]
  BY CloseStack DEF StackTypeOK
<1>2. Depth \in Nat
  BY DEF StackTypeOK, Depth
<1>3. PaymentsCovered'
  BY <1>1, <1>2 DEF PaymentsCovered, StackTypeOK, Depth
<1> QED BY <1>1, <1>3 DEF StackTypeOK

\* A guarded call that opens keeps the types.
LEMMA EnterTyped ==
    ASSUME TypeInv, NEW f \in FrameType, f.at = "hook", Enter(f)
    PROVE  TypeInv'
<1>1. StackTypeOK'
  BY OpenTyped DEF TypeInv, TypeOK, StackTypeOK, Enter, PaySound
<1>2. BalanceTypeOK' /\ ERC721TypeOK' /\ GovTypeOK' /\ NotasTypeOK'
  BY DEF TypeInv, TypeOK, Enter, BalanceTypeOK, ERC721TypeOK, erc721Vars,
         GovTypeOK, govVars, NotasTypeOK
<1> QED BY <1>1, <1>2 DEF TypeInv, TypeOK, StackTypeOK

-----------------------------------------------------------------------------
(* The actions                                                             *)

LEMMA CallsTyped == TypeInv /\ Calls => TypeInv'
<1> SUFFICES ASSUME TypeInv, Calls PROVE TypeInv'
  OBVIOUS
<1>1. TypeOK
  BY DEF TypeInv
<1>2. /\ Amounts \subseteq Uint
      /\ Payees \subseteq AddressOrZero
      /\ Approvees \subseteq AddressOrZero
      /\ Address \subseteq AddressOrZero
      /\ \A id \in Ids : id \in 0 .. MaxNotas /\ owners[id] \in AddressOrZero /\ notas[id] \in NotaType
  BY <1>1, InputAssumption, NotasAssumption
     DEF TypeOK, ERC721TypeOK, NotasTypeOK, AddressOrZero, Ids
<1>3. PICK c \in Callers :
        \/ \E t \in Tokens, escrowed, instant \in Amounts, owner \in Payees, h \in Contracts :
             Write(c, t, escrowed, instant, owner, h)
        \/ \E id \in Ids :
             \/ \E amount, instant \in Amounts : Fund(c, id, amount, instant)
             \/ \E amount \in Amounts, to \in Payees : Cash(c, id, amount, to)
             \/ \E to \in Approvees : Approve(c, to, id)
             \/ \E fn \in Transfers, from, to \in Payees : Transfer(fn, c, from, to, id)
             \/ Burn(c, id)
             \/ Update(c, id)
  BY DEF Calls
<1>4. ASSUME NEW t \in Tokens, NEW escrowed \in Amounts, NEW instant \in Amounts,
             NEW owner \in Payees, NEW h \in Contracts, Write(c, t, escrowed, instant, owner, h)
      PROVE  TypeInv'
  <2> DEFINE n == [escrowed |-> escrowed, currency |-> t, hooks |-> h]
             f == CallOf("write", c, nextId, n)
             g == [f EXCEPT !.to = owner, !.amount = escrowed, !.instant = instant]
  <2>1. n \in NotaType /\ nextId \in 0 .. MaxNotas
    BY <1>2, <1>4, NotasAssumption DEF NotaType, Write, Ids
  <2>2. f \in FrameType /\ f.at = "hook"
    BY <1>1, <2>1, CallOfTyped DEF Guarded
  <2>3. Enter(g)
    BY <1>4 DEF Write
  <2> HIDE DEF f
  <2>4. g \in FrameType /\ g.at = "hook"
    BY <1>2, <2>2 DEF FrameType
  <2> QED BY <2>3, <2>4, EnterTyped
<1>5. ASSUME NEW id \in Ids, NEW amount \in Amounts, NEW instant \in Amounts,
             Fund(c, id, amount, instant)
      PROVE  TypeInv'
  <2> DEFINE f == CallOf("fund", c, id, notas[id])
             g == [f EXCEPT !.to = owners[id], !.amount = amount, !.instant = instant]
  <2>1. f \in FrameType /\ f.at = "hook"
    BY <1>1, <1>2, CallOfTyped DEF Guarded
  <2>2. Enter(g)
    BY <1>5 DEF Fund
  <2> HIDE DEF f
  <2>3. g \in FrameType /\ g.at = "hook"
    BY <1>2, <2>1 DEF FrameType
  <2> QED BY <2>2, <2>3, EnterTyped
<1>6. ASSUME NEW id \in Ids, NEW amount \in Amounts, NEW to \in Payees, Cash(c, id, amount, to)
      PROVE  TypeInv'
  <2> DEFINE f == CallOf("cash", c, id, notas[id])
             g == [f EXCEPT !.to = to, !.amount = amount]
  <2>1. f \in FrameType /\ f.at = "hook"
    BY <1>1, <1>2, CallOfTyped DEF Guarded
  <2>2. Enter(g)
    BY <1>6 DEF Cash
  <2> HIDE DEF f
  <2>3. g \in FrameType /\ g.at = "hook"
    BY <1>2, <2>1 DEF FrameType
  <2> QED BY <2>2, <2>3, EnterTyped
<1>7. ASSUME NEW id \in Ids, NEW to \in Approvees, Approve(c, to, id)
      PROVE  TypeInv'
  <2> DEFINE f == CallOf("approve", c, id, notas[id])
             g == [f EXCEPT !.to = to]
  <2>1. f \in FrameType /\ f.at = "hook"
    BY <1>1, <1>2, CallOfTyped DEF Guarded
  <2>2. Enter(g)
    BY <1>7 DEF Approve
  <2> HIDE DEF f
  <2>3. g \in FrameType /\ g.at = "hook"
    BY <1>2, <2>1 DEF FrameType
  <2> QED BY <2>2, <2>3, EnterTyped
<1>8. ASSUME NEW id \in Ids, NEW fn \in Transfers, NEW from \in Payees, NEW to \in Payees,
             Transfer(fn, c, from, to, id)
      PROVE  TypeInv'
  <2> DEFINE f == CallOf(fn, c, id, notas[id])
             g == [f EXCEPT !.from = from, !.to = to]
  <2>1. f \in FrameType /\ f.at = "hook"
    BY <1>1, <1>2, CallOfTyped DEF Guarded, Transfers
  <2>2. Enter(g)
    BY <1>8 DEF Transfer
  <2> HIDE DEF f
  <2>3. g \in FrameType /\ g.at = "hook"
    BY <1>2, <2>1 DEF FrameType
  <2> QED BY <2>2, <2>3, EnterTyped
<1>9. ASSUME NEW id \in Ids, Burn(c, id) \/ Update(c, id)
      PROVE  TypeInv'
  <2>1. PICK fn \in {"burn", "update"} : Enter(CallOf(fn, c, id, notas[id]))
    BY <1>9 DEF Burn, Update
  <2>2. CallOf(fn, c, id, notas[id]) \in FrameType /\ CallOf(fn, c, id, notas[id]).at = "hook"
    BY <1>1, <1>2, CallOfTyped DEF Guarded
  <2> QED BY <2>1, <2>2, EnterTyped
<1> QED
  BY <1>3, <1>4, <1>5, <1>6, <1>7, <1>8, <1>9

LEMMA TopTyped ==
    ASSUME TypeInv, stack # <<>>
    PROVE  Top \in FrameType /\ PaySound(Top)
  BY TopInStack DEF TypeInv, TypeOK, PaymentsCovered, PaySound, Top

\* `_notas[id].escrowed` changed to an amount keeps the type of the notas.
LEMMA EscrowTyped ==
    ASSUME NEW n \in [Ids -> NotaType], NEW id, NEW e, id \in Ids => e \in Uint
    PROVE  [n EXCEPT ![id].escrowed = e] \in [Ids -> NotaType]
<1>1. CASE id \in Ids
  BY <1>1 DEF NotaType
<1>2. CASE id \notin Ids
  BY <1>2
<1> QED BY <1>1, <1>2

LEMMA FrameMoves ==
    ASSUME NEW f \in FrameType, NEW p \in Points, NEW fee \in Uint
    PROVE  /\ [f EXCEPT !.fee = fee, !.at = p] \in FrameType
           /\ [f EXCEPT !.at = p] \in FrameType
  BY DEF FrameType

LEMMA DeductFeeTyped ==
    ASSUME TypeInv, stack # <<>>, NEW fee \in Uint, DeductFee(fee)
    PROVE  notas' \in [Ids -> NotaType] /\ GovTypeOK'
<1>1. Top \in FrameType /\ Top.nota \in NotaType
  BY TopTyped DEF FrameType
<1>2. GovTypeOK'
  <2>1. fee \in Nat
    BY UintAssumption DEF Uint
  <2> QED BY <2>1, CreditHookTyped DEF DeductFee, TypeInv, TypeOK
<1>3. notas \in [Ids -> NotaType]
  BY DEF TypeInv, TypeOK, NotasTypeOK
<1>4. notas' \in [Ids -> NotaType]
  <2> DEFINE id == Top.id
             e == notas[id].escrowed - fee
  <2>1. notas' = [notas EXCEPT ![id].escrowed = e]
    BY DEF DeductFee
  <2>2. id \in Ids => e \in Uint
    BY <1>3, UintAssumption DEF DeductFee, NotaType, Uint
  <2> HIDE DEF e, id
  <2> QED BY <1>3, <2>1, <2>2, EscrowTyped
<1> QED BY <1>2, <1>4

LEMMA AnswersTyped == TypeInv /\ Answers => TypeInv'
<1> SUFFICES ASSUME TypeInv, Answers PROVE TypeInv'
  OBVIOUS
<1>1. stack # <<>>
  BY DEF Answers, At, DepositHooked, CashHooked, ApproveHooked, TransferHooked,
         SafeTransferHooked, UpdateHooked, BurnHooked, Received
<1>2. /\ Top \in FrameType
      /\ Top.id \in 0 .. MaxNotas /\ Top.nota \in NotaType /\ Top.to \in AddressOrZero
      /\ Top.amount \in Uint /\ Top.instant \in Uint /\ Top.nota.escrowed \in Uint
  BY <1>1, TopTyped DEF FrameType, NotaType
<1>3. StackTypeOK /\ BalanceTypeOK /\ ERC721TypeOK /\ GovTypeOK /\ NotasTypeOK
  BY DEF TypeInv, TypeOK, StackTypeOK
<1>4. Fees \subseteq Uint /\ Uint \subseteq Nat /\ External \subseteq Points /\ "finish" \in Points
  BY InputAssumption, UintAssumption DEF Uint, Points
<1>5. Leave => StackTypeOK' /\ status' \in {"NOT_ENTERED", "ENTERED"}
  BY <1>1, <1>3, CloseTyped DEF Leave
<1>6. ASSUME StackTypeOK', BalanceTypeOK', ERC721TypeOK', GovTypeOK', NotasTypeOK'
      PROVE  TypeInv'
  BY <1>6 DEF TypeInv, TypeOK, StackTypeOK
<1>7. UNCHANGED balance => BalanceTypeOK'
  BY <1>3 DEF BalanceTypeOK
<1>8. UNCHANGED erc721Vars => ERC721TypeOK'
  BY <1>3 DEF ERC721TypeOK, erc721Vars
<1>9. UNCHANGED govVars => GovTypeOK'
  BY <1>3 DEF GovTypeOK, govVars
<1>10. ASSUME NEW fee \in Fees, DepositHooked(fee)
       PROVE  TypeInv'
  <2> DEFINE p == IF ToEscrow(Top.amount, fee) > 0 THEN "pull" ELSE AfterPull
             f == [Top EXCEPT !.fee = fee, !.at = p]
  <2>1. p \in Points /\ p # "pay"
    BY DEF Points, External, AfterPull
  <2>2. Continue(f)
    BY <1>10 DEF DepositHooked
  <2> HIDE DEF p
  <2>3. f \in FrameType /\ f.at = p
    BY <1>2, <1>4, <2>1, FrameMoves DEF FrameType
  <2>4. StackTypeOK'
    BY <1>1, <1>3, <2>1, <2>2, <2>3, ContinueTyped DEF PaySound
  <2> QED BY <1>6, <1>3, <1>7, <1>8, <1>9, <1>10, <2>4 DEF DepositHooked, storageVars, NotasTypeOK
<1>11. ASSUME NEW fee \in Fees, CashHooked(fee)
       PROVE  TypeInv'
  <2> DEFINE p == IF Top.amount > fee THEN "pay" ELSE "finish"
             f == [Top EXCEPT !.fee = fee, !.at = p]
             e == notas[Top.id].escrowed - Top.amount
  <2>1. p \in Points
    BY DEF Points, External
  <2>2. Continue(f) /\ fee <= Top.amount
    BY <1>11 DEF CashHooked
  <2>3. f \in FrameType /\ f.fee = fee /\ f.amount = Top.amount
    <3> HIDE DEF p
    <3> QED BY <1>2, <1>4, <2>1, FrameMoves DEF FrameType
  <2>4. StackTypeOK'
    BY <1>1, <1>3, <2>2, <2>3, ContinueTyped DEF PaySound
  <2>5. notas' = [notas EXCEPT ![Top.id].escrowed = e]
    BY <1>11 DEF CashHooked
  <2>6. Top.id \in Ids => e \in Uint
    BY <1>2, <1>3, <1>11, UintAssumption DEF CashHooked, NotasTypeOK, NotaType, Uint
  <2>7. notas' \in [Ids -> NotaType]
    <3> HIDE DEF e
    <3> QED BY <1>3, <2>5, <2>6, EscrowTyped DEF NotasTypeOK
  <2> QED BY <1>6, <1>3, <1>7, <1>8, <1>9, <1>11, <2>4, <2>7 DEF CashHooked, NotasTypeOK
<1>12. ASSUME NEW fee \in Fees, ApproveHooked(fee)
       PROVE  TypeInv'
  <2>1. notas' \in [Ids -> NotaType] /\ GovTypeOK'
    BY <1>1, <1>4, <1>12, DeductFeeTyped DEF ApproveHooked
  <2>2. ERC721TypeOK'
    BY <1>2, <1>3, <1>12, ERC721Typed DEF ApproveHooked
  <2> QED BY <1>3, <1>5, <1>6, <1>7, <1>12, <2>1, <2>2 DEF ApproveHooked, NotasTypeOK
<1>13. ASSUME NEW fee \in Fees, TransferHooked(fee)
       PROVE  TypeInv'
  <2>1. notas' \in [Ids -> NotaType] /\ GovTypeOK'
    BY <1>1, <1>4, <1>13, DeductFeeTyped DEF TransferHooked
  <2>2. ERC721TypeOK'
    BY <1>2, <1>3, <1>13, ERC721Typed DEF TransferHooked
  <2> QED BY <1>3, <1>5, <1>6, <1>7, <1>13, <2>1, <2>2 DEF TransferHooked, NotasTypeOK
<1>14. ASSUME NEW fee \in Fees, SafeTransferHooked(fee)
       PROVE  TypeInv'
  <2> DEFINE f == [Top EXCEPT !.fee = fee, !.at = "received"]
  <2>1. notas' \in [Ids -> NotaType] /\ GovTypeOK'
    BY <1>1, <1>4, <1>14, DeductFeeTyped DEF SafeTransferHooked
  <2>2. ERC721TypeOK'
    BY <1>2, <1>3, <1>14, ERC721Typed DEF SafeTransferHooked
  <2>3. f \in FrameType /\ f.at = "received"
    BY <1>2, <1>4, FrameMoves DEF FrameType, External
  <2>4. Continue(f)
    BY <1>14 DEF SafeTransferHooked
  <2>5. StackTypeOK'
    <3> HIDE DEF f
    <3> QED BY <1>1, <1>3, <2>3, <2>4, ContinueTyped DEF PaySound
  <2> QED BY <1>3, <1>6, <1>7, <1>14, <2>1, <2>2, <2>5 DEF SafeTransferHooked, NotasTypeOK
<1>15. ASSUME NEW fee \in Fees, UpdateHooked(fee)
       PROVE  TypeInv'
  <2>1. notas' \in [Ids -> NotaType] /\ GovTypeOK'
    BY <1>1, <1>4, <1>15, DeductFeeTyped DEF UpdateHooked
  <2> QED BY <1>3, <1>5, <1>6, <1>7, <1>8, <1>15, <2>1 DEF UpdateHooked, NotasTypeOK
<1>16. CASE BurnHooked
  <2>1. GovTypeOK'
    BY <1>2, <1>3, <1>4, <1>16, CreditHookTyped DEF BurnHooked
  <2>2. ERC721TypeOK'
    <3>1. Zero \in AddressOrZero
      BY DEF AddressOrZero
    <3> QED BY <1>3, <1>16, <3>1, ERC721Typed DEF BurnHooked
  <2>3. notas' \in [Ids -> NotaType]
    <3>1. Blank \in NotaType
      BY UintAssumption DEF Blank, NotaType, Uint
    <3> HIDE DEF Blank, NotaType
    <3> QED BY <1>3, <1>16, <3>1 DEF BurnHooked, NotasTypeOK
  <2> QED BY <1>3, <1>5, <1>6, <1>7, <1>16, <2>1, <2>2, <2>3 DEF BurnHooked, NotasTypeOK
<1>17. CASE Received
  BY <1>3, <1>5, <1>6, <1>7, <1>8, <1>9, <1>17 DEF Received, NotasTypeOK
<1> QED
  BY <1>10, <1>11, <1>12, <1>13, <1>14, <1>15, <1>16, <1>17 DEF Answers

\* A step of a token, from point p to point q of a call.
LEMMA TokenStepTyped ==
    ASSUME TypeInv, NEW p \in Points, NEW q \in Points, q # "pay", NEW from \in Address,
           NEW to \in AddressOrZero, NEW amount \in Nat,
           TokenMoves(p, q, from, to, amount) \/ TokenReturns(p, q)
    PROVE  TypeInv'
<1>1. stack # <<>> /\ Continue([Top EXCEPT !.at = q])
  BY DEF TokenMoves, TokenReturns, At
<1>2. [Top EXCEPT !.at = q] \in FrameType /\ [Top EXCEPT !.at = q].at = q
  BY <1>1, TopTyped, FrameMoves DEF FrameType
<1>3. StackTypeOK'
  BY <1>1, <1>2, ContinueTyped DEF TypeInv, TypeOK, StackTypeOK, PaySound
<1>4. BalanceTypeOK'
  <2>1. CASE TokenMoves(p, q, from, to, amount)
    BY <2>1, MoveTyped DEF TokenMoves, TypeInv, TypeOK
  <2>2. CASE TokenReturns(p, q)
    BY <2>2 DEF TokenReturns, storageVars, TypeInv, TypeOK, BalanceTypeOK
  <2> QED BY <2>1, <2>2
<1>5. ERC721TypeOK' /\ GovTypeOK' /\ NotasTypeOK'
  BY DEF TokenMoves, TokenReturns, storageVars, TypeInv, TypeOK, ERC721TypeOK, erc721Vars,
         GovTypeOK, govVars, NotasTypeOK
<1> QED BY <1>3, <1>4, <1>5 DEF TypeInv, TypeOK, StackTypeOK

LEMMA TokenStepsTyped == TypeInv /\ TokenSteps => TypeInv'
<1> SUFFICES ASSUME TypeInv, TokenSteps PROVE TypeInv'
  OBVIOUS
<1>1. stack # <<>>
  BY DEF TokenSteps, Pulls, PullReturns, Forwards, ForwardReturns, Pays, PayReturns,
         TokenMoves, TokenReturns, At
<1>2. /\ Top.caller \in Address /\ Top.to \in AddressOrZero
      /\ Top.amount \in Nat /\ Top.fee \in Nat /\ Top.instant \in Nat
      /\ PaySound(Top)
  BY <1>1, TopTyped, UintAssumption DEF FrameType, Address, Uint
<1>3. /\ {"pull", "pulled", "forward", "forwarded", "pay", "paid", "finish"} \subseteq Points
      /\ AfterPull \in Points /\ AfterPull # "pay"
      /\ Registrar \in Address /\ Registrar \in AddressOrZero
  BY DEF Points, External, AfterPull, Address, AddressOrZero
<1>4. CASE Pulls
  <2>1. ToEscrow(Top.amount, Top.fee) \in Nat
    BY <1>2 DEF ToEscrow
  <2> QED BY <1>2, <1>3, <1>4, <2>1, TokenStepTyped DEF Pulls
<1>5. CASE PullReturns
  BY <1>3, <1>5, TokenStepTyped DEF PullReturns
<1>6. CASE Forwards
  BY <1>2, <1>3, <1>6, TokenStepTyped DEF Forwards
<1>7. CASE ForwardReturns
  BY <1>3, <1>7, TokenStepTyped DEF ForwardReturns
<1>8. CASE Pays
  <2>1. Top.amount - Top.fee \in Nat
    BY <1>2, <1>8 DEF Pays, TokenMoves, At, PaySound
  <2> QED BY <1>2, <1>3, <1>8, <2>1, TokenStepTyped DEF Pays
<1>9. CASE PayReturns
  BY <1>3, <1>9, TokenStepTyped DEF PayReturns
<1> QED BY <1>4, <1>5, <1>6, <1>7, <1>8, <1>9 DEF TokenSteps

LEMMA FinishesTyped == TypeInv /\ Finishes => TypeInv'
<1> SUFFICES ASSUME TypeInv, Finishes PROVE TypeInv'
  OBVIOUS
<1>1. stack # <<>>
  BY DEF Finishes, At, WriteFinishes, FundFinishes, CashFinishes, WithdrawFinishes
<1>2. /\ Top.id \in 0 .. MaxNotas /\ Top.nota \in NotaType /\ Top.to \in AddressOrZero
      /\ Top.amount \in Nat /\ Top.fee \in Nat
  BY <1>1, TopTyped, UintAssumption DEF FrameType, Uint
<1>3. StackTypeOK /\ BalanceTypeOK /\ ERC721TypeOK /\ GovTypeOK /\ NotasTypeOK
  BY DEF TypeInv, TypeOK, StackTypeOK
<1>4. Close => StackTypeOK'
  BY <1>1, <1>3, CloseTyped
<1>5. ASSUME StackTypeOK', BalanceTypeOK', ERC721TypeOK', GovTypeOK', NotasTypeOK'
      PROVE  TypeInv'
  BY <1>5 DEF TypeInv, TypeOK, StackTypeOK
<1>6. UNCHANGED balance => BalanceTypeOK'
  BY <1>3 DEF BalanceTypeOK
<1>7. UNCHANGED erc721Vars => ERC721TypeOK'
  BY <1>3 DEF ERC721TypeOK, erc721Vars
<1>8. CASE WriteFinishes
  <2>1. GovTypeOK'
    BY <1>2, <1>3, <1>8, CreditHookTyped DEF WriteFinishes
  <2>2. ERC721TypeOK'
    BY <1>2, <1>3, <1>8, ERC721Typed DEF WriteFinishes
  <2>3. NotasTypeOK'
    <3>1. notas' \in [Ids -> NotaType]
      BY <1>2, <1>3, <1>8 DEF WriteFinishes, NotasTypeOK
    <3>2. nextId' \in 1 .. MaxNotas + 1
      BY <1>3, <1>8, NotasAssumption DEF WriteFinishes, NotasTypeOK, Ids
    <3> QED BY <1>8, <3>1, <3>2 DEF WriteFinishes, NotasTypeOK, Leave
  <2> QED BY <1>4, <1>5, <1>6, <1>8, <2>1, <2>2, <2>3 DEF WriteFinishes, Leave
<1>9. CASE FundFinishes
  <2> DEFINE e == notas[Top.id].escrowed + Top.amount
  <2>1. GovTypeOK'
    BY <1>2, <1>3, <1>9, CreditHookTyped DEF FundFinishes
  <2>2. notas' = [notas EXCEPT ![Top.id].escrowed = e]
    BY <1>9 DEF FundFinishes
  <2>3. Top.id \in Ids => e \in Uint
    BY <1>2, <1>3, <1>9, UintAssumption DEF FundFinishes, NotasTypeOK, NotaType, Uint
  <2>4. notas' \in [Ids -> NotaType]
    <3> HIDE DEF e
    <3> QED BY <1>3, <2>2, <2>3, EscrowTyped DEF NotasTypeOK
  <2> QED BY <1>3, <1>4, <1>5, <1>6, <1>7, <1>9, <2>1, <2>4 DEF FundFinishes, NotasTypeOK, Leave
<1>10. CASE CashFinishes
  <2>1. GovTypeOK'
    BY <1>2, <1>3, <1>10, CreditHookTyped DEF CashFinishes
  <2> QED BY <1>3, <1>4, <1>5, <1>6, <1>7, <1>10, <2>1 DEF CashFinishes, NotasTypeOK, Leave
<1>11. CASE WithdrawFinishes
  BY <1>3, <1>4, <1>5, <1>6, <1>7, <1>11
     DEF WithdrawFinishes, storageVars, NotasTypeOK, GovTypeOK, govVars
<1> QED BY <1>8, <1>9, <1>10, <1>11 DEF Finishes

LEMMA UnguardedTyped == TypeInv /\ Unguarded => TypeInv'
<1> SUFFICES ASSUME TypeInv, Unguarded PROVE TypeInv'
  OBVIOUS
<1>1. StackTypeOK /\ BalanceTypeOK /\ ERC721TypeOK /\ GovTypeOK /\ NotasTypeOK /\ TypeOK
  BY DEF TypeInv, TypeOK, StackTypeOK
<1>2. ASSUME StackTypeOK', BalanceTypeOK', ERC721TypeOK', GovTypeOK', NotasTypeOK'
      PROVE  TypeInv'
  BY <1>2 DEF TypeInv, TypeOK, StackTypeOK
<1>3. /\ UNCHANGED balance => BalanceTypeOK'
      /\ UNCHANGED erc721Vars => ERC721TypeOK'
      /\ UNCHANGED govVars => GovTypeOK'
      /\ UNCHANGED <<notas, nextId, status>> => NotasTypeOK'
      /\ UNCHANGED stack => StackTypeOK'
  BY <1>1 DEF BalanceTypeOK, ERC721TypeOK, erc721Vars, GovTypeOK, govVars, NotasTypeOK,
              StackTypeOK, PaymentsCovered, Depth
<1>4. /\ Withdrawals \subseteq Uint /\ Payees \subseteq AddressOrZero
      /\ Governors \subseteq AddressOrZero /\ Operators \subseteq Address
      /\ Uint \subseteq Nat /\ 0 \in Uint /\ 0 \in 0 .. MaxNotas
      /\ Callers \subseteq Address /\ Zero \in AddressOrZero /\ "pay" \in Points
      /\ FeeRates \subseteq Nat
  BY InputAssumption, UintAssumption, NotasAssumption
     DEF Uint, AddressOrZero, Address, Points, External
<1>5. PICK c \in Callers :
       \/ \E t \in Tokens, amount \in Withdrawals, to \in Payees :
             \/ c \in Contracts /\ HookWithdraw(c, t, amount, to)
             \/ ProtocolWithdraw(c, t, amount, to)
             \/ SendTokens(t, c, to, amount)
       \/ \E newFee \in FeeRates : SetProtocolFee(c, newFee)
       \/ \E g \in Governors : TransferOwnership(c, g)
       \/ RenounceOwnership(c)
       \/ \E o \in Operators, approved \in BOOLEAN : SetApprovalForAll(c, o, approved)
  BY DEF Unguarded
<1>6. ASSUME NEW t \in Tokens, NEW amount \in Withdrawals, NEW to \in Payees,
             c \in Contracts, HookWithdraw(c, t, amount, to)
      PROVE  TypeInv'
  <2> DEFINE n == [escrowed |-> 0, currency |-> t, hooks |-> c]
             f == CallOf("hookWithdraw", c, 0, n)
             cut == ProtocolCut(amount)
             g == [f EXCEPT !.at = "pay", !.to = to, !.amount = amount, !.fee = cut]
  <2>1. GovTypeOK' /\ cut \in 0 .. amount
    BY <1>1, <1>4, <1>6, DebitHookTyped DEF HookWithdraw
  <2>2. n \in NotaType
    BY <1>4, <1>6 DEF NotaType
  <2>3. f \in FrameType
    BY <1>1, <1>4, <2>2, CallOfTyped DEF Withdraws
  <2>4. Open(g)
    BY <1>6 DEF HookWithdraw
  <2> HIDE DEF f, cut
  <2>5. cut \in Uint /\ cut <= amount
    BY <1>4, <2>1, UintAssumption DEF Uint
  <2>6. g \in FrameType /\ g.amount = amount /\ g.fee = cut
    BY <1>4, <2>3, <2>5 DEF FrameType
  <2>7. StackTypeOK'
    BY <1>1, <2>4, <2>5, <2>6, OpenTyped DEF PaySound
  <2> QED BY <1>2, <1>3, <1>6, <2>1, <2>7 DEF HookWithdraw
<1>7. ASSUME NEW t \in Tokens, NEW amount \in Withdrawals, NEW to \in Payees,
             ProtocolWithdraw(c, t, amount, to)
      PROVE  TypeInv'
  <2> DEFINE n == [escrowed |-> 0, currency |-> t, hooks |-> Zero]
             f == CallOf("protocolWithdraw", c, 0, n)
             g == [f EXCEPT !.at = "pay", !.to = to, !.amount = amount]
  <2>1. GovTypeOK'
    <3>1. protocolRevenue[t] - amount \in Uint
      BY <1>1, <1>4, <1>7, UintAssumption DEF ProtocolWithdraw, DebitProtocol, GovTypeOK, Uint
    <3>2. protocolRevenue' = [protocolRevenue EXCEPT ![t] = protocolRevenue[t] - amount]
      BY <1>7 DEF ProtocolWithdraw, DebitProtocol
    <3> QED BY <1>1, <1>7, <3>1, <3>2 DEF ProtocolWithdraw, DebitProtocol, GovTypeOK
  <2>2. n \in NotaType
    BY <1>4 DEF NotaType
  <2>3. f \in FrameType /\ f.fee = 0
    BY <1>1, <1>4, <2>2, CallOfTyped DEF Withdraws, CallOf
  <2>4. Open(g)
    BY <1>7 DEF ProtocolWithdraw
  <2> HIDE DEF f
  <2>5. g \in FrameType /\ g.amount = amount /\ g.fee = 0
    BY <1>4, <2>3 DEF FrameType
  <2>6. StackTypeOK'
    <3> HIDE DEF g
    <3>1. PaySound(g)
      BY <1>4, <2>5 DEF PaySound
    <3> QED BY <1>1, <2>4, <2>5, <3>1, OpenTyped
  <2> QED BY <1>2, <1>3, <1>7, <2>1, <2>6 DEF ProtocolWithdraw
<1>8. ASSUME NEW t \in Tokens, NEW amount \in Withdrawals, NEW to \in Payees,
             SendTokens(t, c, to, amount)
      PROVE  TypeInv'
  <2>1. BalanceTypeOK'
    BY <1>1, <1>4, <1>8, MoveTyped DEF SendTokens
  <2> QED BY <1>2, <1>3, <1>8, <2>1 DEF SendTokens
<1>9. ASSUME NEW newFee \in FeeRates, SetProtocolFee(c, newFee)
      PROVE  TypeInv'
  <2>1. GovTypeOK'
    BY <1>1, <1>4, <1>9, GovAssumption DEF SetProtocolFee, SetFee, GovTypeOK
  <2> QED BY <1>2, <1>3, <1>9, <2>1 DEF SetProtocolFee
<1>10. ASSUME NEW g \in AddressOrZero, TransferOwnership(c, g) \/ RenounceOwnership(c)
       PROVE  TypeInv'
  <2>1. GovTypeOK'
    BY <1>1, <1>4, <1>10 DEF TransferOwnership, RenounceOwnership, SetGovOwner, GovTypeOK
  <2> QED BY <1>2, <1>3, <1>10, <2>1 DEF TransferOwnership, RenounceOwnership
<1>11. ASSUME NEW o \in Operators, NEW approved \in BOOLEAN, SetApprovalForAll(c, o, approved)
       PROVE  TypeInv'
  <2>1. o \in AddressOrZero /\ o \in Address
    BY <1>4 DEF AddressOrZero
  <2>2. ERC721TypeOK'
    BY <1>1, <1>11, <2>1, ERC721Typed DEF SetApprovalForAll
  <2> QED BY <1>2, <1>3, <1>11, <2>2 DEF SetApprovalForAll
<1> QED BY <1>4, <1>5, <1>6, <1>7, <1>8, <1>9, <1>10, <1>11

LEMMA RevertTyped == TypeInv /\ Revert => TypeInv'
<1> SUFFICES ASSUME TypeInv, Revert PROVE TypeInv'
  OBVIOUS
<1>1. stack # <<>>
  BY DEF Revert
<1>2. StackTypeOK'
  BY <1>1, CloseTyped DEF Revert, TypeInv, TypeOK, StackTypeOK
<1>3. Top.saved \in StorageType
  BY <1>1, TopTyped DEF FrameType
<1>4. BalanceTypeOK' /\ ERC721TypeOK' /\ GovTypeOK' /\ NotasTypeOK'
  BY <1>3 DEF StorageType, Revert, BalanceTypeOK, ERC721TypeOK, GovTypeOK, NotasTypeOK
<1> QED BY <1>2, <1>4 DEF TypeInv, TypeOK, StackTypeOK

LEMMA InitTyped == Init => TypeInv
<1> SUFFICES ASSUME Init PROVE TypeInv
  OBVIOUS
<1>1. BalanceTypeOK
  BY UintAssumption DEF Init, InitialBalance, BalanceTypeOK, Uint, Address
<1>2. ERC721TypeOK
  BY DEF Init, ERC721Init, ERC721TypeOK, AddressOrZero
<1>3. GovTypeOK
  BY UintAssumption, GovAssumption DEF Init, GovInit, GovTypeOK, AddressOrZero, Uint
<1>4. NotasTypeOK
  BY UintAssumption, NotasAssumption DEF Init, NotasTypeOK, Blank, NotaType, Uint
<1>5. stack \in Seq(FrameType) /\ PaymentsCovered
  BY DEF Init, PaymentsCovered, Depth
<1> QED BY <1>1, <1>2, <1>3, <1>4, <1>5 DEF TypeInv, TypeOK

LEMMA StepTyped == TypeInv /\ [Next]_vars => TypeInv'
<1> SUFFICES ASSUME TypeInv, [Next]_vars PROVE TypeInv'
  OBVIOUS
<1>1. CASE UNCHANGED vars
  BY <1>1 DEF vars, TypeInv, TypeOK, PaymentsCovered, Depth, BalanceTypeOK, ERC721TypeOK,
              erc721Vars, GovTypeOK, govVars, NotasTypeOK
<1> QED
  BY <1>1, CallsTyped, AnswersTyped, TokenStepsTyped, FinishesTyped, UnguardedTyped, RevertTyped
     DEF Next

\* Every variable keeps its type, and every frame on the stack its shape,
\* whatever calls run inside each other, return or fail (NotaRegistrar.sol,
\* RegistrarGov.sol; checked by the run accounting).
THEOREM TypeCorrect == Spec => []TypeOK
<1>1. Spec => []TypeInv
  BY InitTyped, StepTyped, PTL DEF Spec
<1>2. TypeInv => TypeOK
  BY DEF TypeInv
<1> QED BY <1>1, <1>2, PTL

\* No payment wraps: what is paid out of a cash or a withdrawal, an amount
\* less a fee, is never negative (NotaRegistrar.sol:115, RegistrarGov.sol:45).
THEOREM PaymentsNeverWrap == Spec => []PaymentsCovered
<1>1. Spec => []TypeInv
  BY InitTyped, StepTyped, PTL DEF Spec
<1>2. TypeInv => PaymentsCovered
  BY DEF TypeInv
<1> QED BY <1>1, <1>2, PTL

-----------------------------------------------------------------------------
(* The inductive invariant.  A failing call restores the storage that its  *)
(* frame saved, so the invariant says of every saved storage what it says  *)
(* of the current one, with respect to the frames below.                   *)

\* What frame f read still holds in the owners o, the notas n, the next id x.
Fresh(f, o, n, x) ==
    /\ f.fn = "write" => f.id = x
    /\ f.fn # "write" /\ f.at # "received" =>
          /\ f.id \in Ids
          /\ o[f.id] # Zero
          /\ n[f.id] = [f.nota EXCEPT !.escrowed = EscrowNow(f)]
    /\ f.fn = "fund" => o[f.id] = f.to

NoneAhead(o, x) == \A id \in Ids : id >= x => o[id] = Zero

\* A storage (its guard is st) fits the first d frames of the stack k.
Fits(k, o, n, x, st, d) ==
    /\ NoneAhead(o, x)
    /\ st = "ENTERED" <=> \E i \in 1 .. d : k[i].fn \in Guarded
    /\ \A i \in 1 .. d : k[i].fn \in Guarded => Fresh(k[i], o, n, x)

SavedFits(k, i) ==
    Fits(k, k[i].saved.owners, k[i].saved.notas, k[i].saved.nextId, k[i].saved.status, i - 1)

StackFits(k, d) ==
    /\ \A i, j \in 1 .. d : k[i].fn \in Guarded /\ k[j].fn \in Guarded => i = j
    /\ \A i \in 1 .. d : SavedFits(k, i)

StorageFits == Fits(stack, owners, notas, nextId, status, Depth)

GuardInv == TypeInv /\ StackFits(stack, Depth) /\ StorageFits

LEMMA GuardInvImplies == GuardInv => OneGuarded /\ SnapshotFresh
<1> SUFFICES ASSUME GuardInv PROVE OneGuarded /\ SnapshotFresh
  OBVIOUS
<1>1. OneGuarded
  BY DEF GuardInv, StackFits, StorageFits, OneGuarded, Fits, GuardedFrames
<1>2. SnapshotFresh
  BY DEF GuardInv, StorageFits, SnapshotFresh, Fits, Fresh, NoneAhead, GuardedFrames, Exists
<1> QED BY <1>1, <1>2

-----------------------------------------------------------------------------
(* What opening, continuing and closing a call keeps; kk is the new stack. *)

LEMMA FitsBelow ==
    ASSUME NEW k, NEW kk, NEW o, NEW n, NEW x, NEW st, NEW d \in Nat,
           \A i \in 1 .. d : kk[i] = k[i], Fits(k, o, n, x, st, d)
    PROVE  Fits(kk, o, n, x, st, d)
  BY DEF Fits

LEMMA StackFitsBelow ==
    ASSUME NEW k, NEW kk, NEW d \in Nat, NEW e \in Nat, d <= e,
           \A i \in 1 .. d : kk[i] = k[i], StackFits(k, e)
    PROVE  StackFits(kk, d)
<1>1. \A i \in 1 .. d : i \in 1 .. e /\ i - 1 \in Nat /\ \A j \in 1 .. i - 1 : kk[j] = k[j]
  OBVIOUS
<1>2. ASSUME NEW i \in 1 .. d PROVE SavedFits(kk, i)
  BY <1>1, FitsBelow DEF StackFits, SavedFits
<1> QED BY <1>1, <1>2 DEF StackFits

LEMMA OpenFits ==
    ASSUME NEW k, NEW kk, NEW f, NEW d \in Nat, StackFits(k, d),
           \A i \in 1 .. d : kk[i] = k[i], kk[d + 1] = f,
           Fits(k, f.saved.owners, f.saved.notas, f.saved.nextId, f.saved.status, d),
           f.fn \in Guarded => f.saved.status # "ENTERED"
    PROVE  StackFits(kk, d + 1)
<1>1. StackFits(kk, d)
  BY StackFitsBelow
<1>2. SavedFits(kk, d + 1)
  <2>1. Fits(kk, f.saved.owners, f.saved.notas, f.saved.nextId, f.saved.status, d)
    BY FitsBelow
  <2> QED BY <2>1 DEF SavedFits
<1>3. \A i \in 1 .. d + 1 : i \in 1 .. d \/ i = d + 1
  OBVIOUS
<1>4. f.fn \in Guarded => \A i \in 1 .. d : kk[i].fn \notin Guarded
  BY DEF Fits
<1> QED BY <1>1, <1>2, <1>3, <1>4 DEF StackFits

LEMMA OpenUnguardedFits ==
    ASSUME NEW k, NEW kk, NEW d \in Nat, NEW o, NEW n, NEW x, NEW st,
           \A i \in 1 .. d : kk[i] = k[i], Fits(k, o, n, x, st, d),
           kk[d + 1].fn \notin Guarded
    PROVE  Fits(kk, o, n, x, st, d + 1)
<1>1. \A i \in 1 .. d + 1 : i \in 1 .. d \/ i = d + 1
  OBVIOUS
<1>2. d + 1 \in 1 .. d + 1 /\ \A i \in 1 .. d : i \in 1 .. d + 1
  OBVIOUS
<1> QED BY <1>1, <1>2 DEF Fits

LEMMA OpenGuardedFits ==
    ASSUME NEW k, NEW kk, NEW f, NEW d \in Nat, NEW o, NEW n, NEW x, NEW st,
           \A i \in 1 .. d : kk[i] = k[i], kk[d + 1] = f, Fits(k, o, n, x, st, d),
           st # "ENTERED", f.fn \in Guarded, Fresh(f, o, n, x)
    PROVE  Fits(kk, o, n, x, "ENTERED", d + 1)
<1>1. \A i \in 1 .. d + 1 : i \in 1 .. d \/ i = d + 1
  OBVIOUS
<1>2. d + 1 \in 1 .. d + 1 /\ \A i \in 1 .. d : i \in 1 .. d + 1
  OBVIOUS
<1> QED BY <1>1, <1>2 DEF Fits

LEMMA ContinueFits ==
    ASSUME NEW k, NEW kk, NEW f, NEW d \in Nat \ {0}, StackFits(k, d),
           \A i \in 1 .. d - 1 : kk[i] = k[i], kk[d] = f,
           f.fn = k[d].fn, f.saved = k[d].saved
    PROVE  StackFits(kk, d)
<1>1. StackFits(kk, d - 1)
  BY StackFitsBelow
<1>2. SavedFits(kk, d)
  <2>1. SavedFits(k, d)
    BY DEF StackFits
  <2>2. d - 1 \in Nat
    OBVIOUS
  <2> QED BY <2>1, <2>2, FitsBelow DEF SavedFits
<1>3. \A i \in 1 .. d : i \in 1 .. d - 1 \/ i = d
  OBVIOUS
<1>4. \A i \in 1 .. d : kk[i].fn = k[i].fn
  BY <1>3
<1> QED BY <1>1, <1>2, <1>3, <1>4 DEF StackFits

LEMMA ContinueFitsStorage ==
    ASSUME NEW k, NEW kk, NEW f, NEW d \in Nat \ {0}, StackFits(k, d),
           NEW o, NEW n, NEW x, NEW st, NEW oo, NEW nn, NEW xx,
           \A i \in 1 .. d - 1 : kk[i] = k[i], kk[d] = f, f.fn = k[d].fn,
           Fits(k, o, n, x, st, d),
           \/ f.fn \notin Guarded /\ oo = o /\ nn = n /\ xx = x
           \/ f.fn \in Guarded /\ NoneAhead(oo, xx) /\ Fresh(f, oo, nn, xx)
    PROVE  Fits(kk, oo, nn, xx, st, d)
<1>1. \A i \in 1 .. d : i \in 1 .. d - 1 \/ i = d
  OBVIOUS
<1>2. \A i \in 1 .. d : kk[i].fn = k[i].fn
  BY <1>1
<1>3. CASE f.fn \notin Guarded
  BY <1>1, <1>2, <1>3 DEF Fits
<1>4. CASE f.fn \in Guarded
  <2>1. \A i \in 1 .. d : kk[i].fn \in Guarded => i = d
    BY <1>2, <1>4 DEF StackFits
  <2>2. NoneAhead(oo, xx) /\ Fresh(f, oo, nn, xx)
    BY <1>4
  <2>3. st = "ENTERED" <=> \E i \in 1 .. d : kk[i].fn \in Guarded
    BY <1>2 DEF Fits
  <2> QED BY <2>1, <2>2, <2>3 DEF Fits
<1> QED BY <1>3, <1>4

LEMMA CloseFitsStorage ==
    ASSUME NEW k, NEW kk, NEW d \in Nat \ {0}, StackFits(k, d),
           NEW o, NEW n, NEW x, NEW st, NEW oo, NEW nn, NEW xx,
           \A i \in 1 .. d - 1 : kk[i] = k[i],
           Fits(k, o, n, x, st, d)
    PROVE  /\ k[d].fn \notin Guarded => Fits(kk, o, n, x, st, d - 1)
           /\ k[d].fn \in Guarded /\ NoneAhead(oo, xx)
                 => Fits(kk, oo, nn, xx, "NOT_ENTERED", d - 1)
<1>1. \A i \in 1 .. d : i \in 1 .. d - 1 \/ i = d
  OBVIOUS
<1>2. \A i \in 1 .. d - 1 : i \in 1 .. d /\ i # d
  OBVIOUS
<1>3. k[d].fn \in Guarded => \A i \in 1 .. d - 1 : kk[i].fn \notin Guarded
  BY <1>2 DEF StackFits
<1> QED BY <1>1, <1>2, <1>3 DEF Fits

-----------------------------------------------------------------------------
(* The same, for the steps of the specification.                           *)

LEMMA EnterGuarded ==
    ASSUME GuardInv, TypeInv', NEW f \in FrameType, Enter(f), f.saved = Storage,
           f.fn \in Guarded, Fresh(f, owners, notas, nextId)
    PROVE  GuardInv'
<1>1. /\ Len(stack') = Depth + 1 /\ stack'[Depth + 1] = f
      /\ \A i \in 1 .. Depth : stack'[i] = stack[i]
  BY OpenStack DEF Enter, GuardInv, TypeInv, TypeOK
<1>2. Depth \in Nat /\ Depth' = Depth + 1
  BY <1>1 DEF Depth, GuardInv, TypeInv, TypeOK
<1>3. /\ f.saved.owners = owners /\ f.saved.notas = notas
      /\ f.saved.nextId = nextId /\ f.saved.status = status
  BY DEF Storage
<1>4. /\ status # "ENTERED" /\ status' = "ENTERED"
      /\ owners' = owners /\ notas' = notas /\ nextId' = nextId
  BY DEF Enter, erc721Vars
<1>5. StackFits(stack', Depth + 1)
  BY <1>1, <1>2, <1>3, <1>4, OpenFits DEF GuardInv, StorageFits
<1>6. Fits(stack', owners, notas, nextId, "ENTERED", Depth + 1)
  <2>1. Fits(stack, owners, notas, nextId, status, Depth)
    BY DEF GuardInv, StorageFits
  <2> QED BY <1>1, <1>2, <1>4, <2>1, OpenGuardedFits
<1> QED BY <1>2, <1>4, <1>5, <1>6 DEF GuardInv, StorageFits

LEMMA OpenUnguarded ==
    ASSUME GuardInv, TypeInv', NEW f \in FrameType, Open(f), f.saved = Storage,
           f.fn \notin Guarded, UNCHANGED <<owners, notas, nextId, status>>
    PROVE  GuardInv'
<1>1. /\ Len(stack') = Depth + 1 /\ stack'[Depth + 1] = f
      /\ \A i \in 1 .. Depth : stack'[i] = stack[i]
  BY OpenStack DEF GuardInv, TypeInv, TypeOK
<1>2. Depth \in Nat /\ Depth' = Depth + 1
  BY <1>1 DEF Depth, GuardInv, TypeInv, TypeOK
<1>3. /\ f.saved.owners = owners /\ f.saved.notas = notas
      /\ f.saved.nextId = nextId /\ f.saved.status = status
  BY DEF Storage
<1>4. StackFits(stack', Depth + 1)
  BY <1>1, <1>2, <1>3, OpenFits DEF GuardInv, StorageFits
<1>5. Fits(stack', owners, notas, nextId, status, Depth + 1)
  BY <1>1, <1>2, OpenUnguardedFits DEF GuardInv, StorageFits
<1> QED BY <1>2, <1>4, <1>5 DEF GuardInv, StorageFits

LEMMA ContinueGuarded ==
    ASSUME GuardInv, TypeInv', stack # <<>>, NEW f \in FrameType, Continue(f),
           f.fn = Top.fn, f.saved = Top.saved, UNCHANGED status,
           \/ f.fn \notin Guarded /\ UNCHANGED <<owners, notas, nextId>>
           \/ /\ f.fn \in Guarded
              /\ NoneAhead(owners', nextId') /\ Fresh(f, owners', notas', nextId')
    PROVE  GuardInv'
<1>1. /\ Len(stack') = Depth /\ stack'[Depth] = f
      /\ \A i \in 1 .. Depth - 1 : stack'[i] = stack[i]
  BY ContinueStack DEF GuardInv, TypeInv, TypeOK
<1>2. Depth \in Nat \ {0} /\ Depth' = Depth
  BY <1>1, TopInStack DEF Depth, GuardInv, TypeInv, TypeOK
<1>3. StackFits(stack', Depth)
  BY <1>1, <1>2, ContinueFits DEF GuardInv, Top
<1>4. Fits(stack', owners', notas', nextId', status, Depth)
  BY <1>1, <1>2, ContinueFitsStorage DEF GuardInv, StorageFits, Top
<1> QED BY <1>2, <1>3, <1>4 DEF GuardInv, StorageFits

LEMMA LeaveGuarded ==
    ASSUME GuardInv, TypeInv', stack # <<>>, Top.fn \in Guarded, Leave,
           NoneAhead(owners', nextId')
    PROVE  GuardInv'
<1>1. Len(stack') = Depth - 1 /\ \A i \in 1 .. Depth - 1 : stack'[i] = stack[i]
  BY CloseStack DEF GuardInv, TypeInv, TypeOK, Leave
<1>2. Depth \in Nat \ {0} /\ Depth - 1 \in Nat /\ Depth - 1 <= Depth /\ Depth' = Depth - 1
  BY <1>1, TopInStack DEF Depth, GuardInv, TypeInv, TypeOK
<1>3. StackFits(stack', Depth - 1)
  BY <1>1, <1>2, StackFitsBelow DEF GuardInv
<1>4. Fits(stack', owners', notas', nextId', "NOT_ENTERED", Depth - 1)
  BY <1>1, <1>2, CloseFitsStorage DEF GuardInv, StorageFits, Top
<1> QED BY <1>2, <1>3, <1>4 DEF GuardInv, StorageFits, Leave

LEMMA CloseUnguarded ==
    ASSUME GuardInv, TypeInv', stack # <<>>, Top.fn \notin Guarded, Close,
           UNCHANGED <<owners, notas, nextId, status>>
    PROVE  GuardInv'
<1>1. Len(stack') = Depth - 1 /\ \A i \in 1 .. Depth - 1 : stack'[i] = stack[i]
  BY CloseStack DEF GuardInv, TypeInv, TypeOK
<1>2. Depth \in Nat \ {0} /\ Depth - 1 \in Nat /\ Depth - 1 <= Depth /\ Depth' = Depth - 1
  BY <1>1, TopInStack DEF Depth, GuardInv, TypeInv, TypeOK
<1>3. StackFits(stack', Depth - 1)
  BY <1>1, <1>2, StackFitsBelow DEF GuardInv
<1>4. Fits(stack', owners, notas, nextId, status, Depth - 1)
  BY <1>1, <1>2, CloseFitsStorage DEF GuardInv, StorageFits, Top
<1> QED BY <1>2, <1>3, <1>4 DEF GuardInv, StorageFits

LEMMA RevertGuarded ==
    ASSUME GuardInv, TypeInv', Revert
    PROVE  GuardInv'
<1>1. stack # <<>> /\ Len(stack') = Depth - 1 /\ \A i \in 1 .. Depth - 1 : stack'[i] = stack[i]
  BY CloseStack DEF Revert, GuardInv, TypeInv, TypeOK
<1>2. Depth \in Nat \ {0} /\ Depth \in 1 .. Depth /\ Depth - 1 \in Nat /\ Depth' = Depth - 1
  BY <1>1, TopInStack DEF Depth, GuardInv, TypeInv, TypeOK
<1>3. StackFits(stack', Depth - 1)
  BY <1>1, <1>2, StackFitsBelow DEF GuardInv
<1>4. SavedFits(stack, Depth)
  BY <1>2 DEF GuardInv, StackFits
<1>5. Fits(stack', owners', notas', nextId', status', Depth - 1)
  BY <1>1, <1>2, <1>4, FitsBelow DEF SavedFits, Revert, Top
<1> QED BY <1>2, <1>3, <1>5 DEF GuardInv, StorageFits

\* The innermost call, if guarded, has read what is still in storage.
LEMMA TopFresh ==
    ASSUME GuardInv, stack # <<>>
    PROVE  /\ NoneAhead(owners, nextId)
           /\ Top \in FrameType
           /\ Top.fn \in Guarded => Fresh(Top, owners, notas, nextId)
<1>1. Depth \in 1 .. Depth
  BY TopInStack DEF GuardInv, TypeInv, TypeOK
<1> QED BY <1>1, TopTyped DEF GuardInv, StorageFits, Fits, Top

-----------------------------------------------------------------------------
(* The actions                                                             *)

\* A frame about a live nota that a call opens is fresh.
LEMMA NewFrameFresh ==
    ASSUME TypeInv, NEW f \in FrameType, f.at = "hook", NEW id \in Ids, Exists(id),
           f.id = id, f.nota = notas[id], f.fn # "write",
           f.fn = "fund" => f.to = owners[id]
    PROVE  Fresh(f, owners, notas, nextId)
<1>1. notas[id] \in NotaType
  BY DEF TypeInv, TypeOK, NotasTypeOK
<1>2. notas[id] = [f.nota EXCEPT !.escrowed = EscrowNow(f)]
  BY <1>1 DEF EscrowNow, NotaType
<1> QED BY <1>2 DEF Fresh, Exists

LEMMA CallsGuarded == GuardInv /\ Calls => GuardInv'
<1> SUFFICES ASSUME GuardInv, Calls PROVE GuardInv'
  OBVIOUS
<1>1. TypeInv /\ TypeOK /\ TypeInv'
  BY CallsTyped DEF GuardInv, TypeInv
<1>2. /\ Amounts \subseteq Uint
      /\ Payees \subseteq AddressOrZero
      /\ Approvees \subseteq AddressOrZero
      /\ \A id \in Ids : id \in 0 .. MaxNotas /\ owners[id] \in AddressOrZero /\ notas[id] \in NotaType
  BY <1>1, InputAssumption, NotasAssumption
     DEF TypeOK, ERC721TypeOK, NotasTypeOK, AddressOrZero, Ids
<1>3. PICK c \in Callers :
        \/ \E t \in Tokens, escrowed, instant \in Amounts, owner \in Payees, h \in Contracts :
             Write(c, t, escrowed, instant, owner, h)
        \/ \E id \in Ids :
             \/ \E amount, instant \in Amounts : Fund(c, id, amount, instant)
             \/ \E amount \in Amounts, to \in Payees : Cash(c, id, amount, to)
             \/ \E to \in Approvees : Approve(c, to, id)
             \/ \E fn \in Transfers, from, to \in Payees : Transfer(fn, c, from, to, id)
             \/ Burn(c, id)
             \/ Update(c, id)
  BY DEF Calls
<1>4. ASSUME NEW t \in Tokens, NEW escrowed \in Amounts, NEW instant \in Amounts,
             NEW owner \in Payees, NEW h \in Contracts, Write(c, t, escrowed, instant, owner, h)
      PROVE  GuardInv'
  <2> DEFINE n == [escrowed |-> escrowed, currency |-> t, hooks |-> h]
             f == CallOf("write", c, nextId, n)
             g == [f EXCEPT !.to = owner, !.amount = escrowed, !.instant = instant]
  <2>1. n \in NotaType /\ nextId \in 0 .. MaxNotas
    BY <1>2, <1>4, NotasAssumption DEF NotaType, Write, Ids
  <2>2. f \in FrameType /\ f.fn = "write" /\ f.id = nextId /\ f.saved = Storage
    BY <1>1, <2>1, CallOfTyped DEF Guarded, CallOf
  <2>3. Enter(g)
    BY <1>4 DEF Write
  <2> HIDE DEF f
  <2>4. g \in FrameType /\ g.fn = "write" /\ g.id = nextId /\ g.saved = Storage
    BY <1>2, <2>2 DEF FrameType
  <2>5. g.fn \in Guarded /\ Fresh(g, owners, notas, nextId)
    BY <2>4 DEF Guarded, Fresh
  <2> QED BY <1>1, <2>3, <2>4, <2>5, EnterGuarded
<1>5. ASSUME NEW id \in Ids, NEW amount \in Amounts, NEW instant \in Amounts,
             Fund(c, id, amount, instant)
      PROVE  GuardInv'
  <2> DEFINE f == CallOf("fund", c, id, notas[id])
             g == [f EXCEPT !.to = owners[id], !.amount = amount, !.instant = instant]
  <2>1. /\ f \in FrameType /\ f.at = "hook" /\ f.fn = "fund" /\ f.id = id
        /\ f.nota = notas[id] /\ f.saved = Storage
    BY <1>1, <1>2, CallOfTyped DEF Guarded, CallOf
  <2>2. Enter(g) /\ Exists(id)
    BY <1>5 DEF Fund
  <2> HIDE DEF f
  <2>3. /\ g \in FrameType /\ g.at = "hook" /\ g.fn = "fund" /\ g.id = id
        /\ g.nota = notas[id] /\ g.saved = Storage /\ g.to = owners[id]
    BY <1>2, <2>1 DEF FrameType
  <2> HIDE DEF g
  <2>4. g.fn \in Guarded /\ Fresh(g, owners, notas, nextId)
    BY <1>1, <2>2, <2>3, NewFrameFresh DEF Guarded
  <2> QED BY <1>1, <2>2, <2>3, <2>4, EnterGuarded
<1>6. ASSUME NEW id \in Ids, NEW amount \in Amounts, NEW to \in Payees, Cash(c, id, amount, to)
      PROVE  GuardInv'
  <2> DEFINE f == CallOf("cash", c, id, notas[id])
             g == [f EXCEPT !.to = to, !.amount = amount]
  <2>1. /\ f \in FrameType /\ f.at = "hook" /\ f.fn = "cash" /\ f.id = id
        /\ f.nota = notas[id] /\ f.saved = Storage
    BY <1>1, <1>2, CallOfTyped DEF Guarded, CallOf
  <2>2. Enter(g) /\ Exists(id)
    BY <1>6 DEF Cash
  <2> HIDE DEF f
  <2>3. /\ g \in FrameType /\ g.at = "hook" /\ g.fn = "cash" /\ g.id = id
        /\ g.nota = notas[id] /\ g.saved = Storage
    BY <1>2, <2>1 DEF FrameType
  <2> HIDE DEF g
  <2>4. g.fn \in Guarded /\ Fresh(g, owners, notas, nextId)
    BY <1>1, <2>2, <2>3, NewFrameFresh DEF Guarded
  <2> QED BY <1>1, <2>2, <2>3, <2>4, EnterGuarded
<1>7. ASSUME NEW id \in Ids, NEW to \in Approvees, Approve(c, to, id)
      PROVE  GuardInv'
  <2> DEFINE f == CallOf("approve", c, id, notas[id])
             g == [f EXCEPT !.to = to]
  <2>1. /\ f \in FrameType /\ f.at = "hook" /\ f.fn = "approve" /\ f.id = id
        /\ f.nota = notas[id] /\ f.saved = Storage
    BY <1>1, <1>2, CallOfTyped DEF Guarded, CallOf
  <2>2. Enter(g) /\ Exists(id)
    BY <1>7 DEF Approve
  <2> HIDE DEF f
  <2>3. /\ g \in FrameType /\ g.at = "hook" /\ g.fn = "approve" /\ g.id = id
        /\ g.nota = notas[id] /\ g.saved = Storage
    BY <1>2, <2>1 DEF FrameType
  <2> HIDE DEF g
  <2>4. g.fn \in Guarded /\ Fresh(g, owners, notas, nextId)
    BY <1>1, <2>2, <2>3, NewFrameFresh DEF Guarded
  <2> QED BY <1>1, <2>2, <2>3, <2>4, EnterGuarded
<1>8. ASSUME NEW id \in Ids, NEW fn \in Transfers, NEW from \in Payees, NEW to \in Payees,
             Transfer(fn, c, from, to, id)
      PROVE  GuardInv'
  <2> DEFINE f == CallOf(fn, c, id, notas[id])
             g == [f EXCEPT !.from = from, !.to = to]
  <2>1. /\ f \in FrameType /\ f.at = "hook" /\ f.fn = fn /\ f.id = id
        /\ f.nota = notas[id] /\ f.saved = Storage
    BY <1>1, <1>2, CallOfTyped DEF Guarded, Transfers, CallOf
  <2>2. Enter(g) /\ Exists(id)
    BY <1>8 DEF Transfer
  <2> HIDE DEF f
  <2>3. /\ g \in FrameType /\ g.at = "hook" /\ g.fn = fn /\ g.id = id
        /\ g.nota = notas[id] /\ g.saved = Storage
    BY <1>2, <2>1 DEF FrameType
  <2> HIDE DEF g
  <2>4. g.fn \in Guarded /\ Fresh(g, owners, notas, nextId)
    BY <1>1, <2>2, <2>3, NewFrameFresh DEF Guarded, Transfers
  <2> QED BY <1>1, <2>2, <2>3, <2>4, EnterGuarded
<1>9. ASSUME NEW id \in Ids, Burn(c, id) \/ Update(c, id)
      PROVE  GuardInv'
  <2>1. PICK fn \in {"burn", "update"} : Enter(CallOf(fn, c, id, notas[id]))
    BY <1>9 DEF Burn, Update
  <2> DEFINE f == CallOf(fn, c, id, notas[id])
  <2>2. /\ f \in FrameType /\ f.at = "hook" /\ f.fn = fn /\ f.id = id
        /\ f.nota = notas[id] /\ f.saved = Storage
    BY <1>1, <1>2, CallOfTyped DEF Guarded, CallOf
  <2>3. Exists(id) /\ Enter(f)
    BY <1>9, <2>1 DEF Burn, Update
  <2> HIDE DEF f
  <2>4. f.fn \in Guarded /\ Fresh(f, owners, notas, nextId)
    BY <1>1, <2>2, <2>3, NewFrameFresh DEF Guarded
  <2> QED BY <1>1, <2>2, <2>3, <2>4, EnterGuarded
<1> QED
  BY <1>3, <1>4, <1>5, <1>6, <1>7, <1>8, <1>9

\* Moving a nota that exists, or ending it, mints nothing ahead.
LEMMA NoneAheadKept ==
    ASSUME TypeInv, NoneAhead(owners, nextId), NEW a, NEW b, NEW id,
           \/ TransferNFT(a, b, id) \/ BurnNFT(id) \/ ApproveNFT(a, b, id)
    PROVE  NoneAhead(owners', nextId)
<1>1. owners \in [Ids -> AddressOrZero]
  BY DEF TypeInv, TypeOK, ERC721TypeOK
<1>2. CASE TransferNFT(a, b, id)
  BY <1>1, <1>2 DEF TransferNFT, Exists, NoneAhead
<1>3. CASE BurnNFT(id)
  BY <1>1, <1>3 DEF BurnNFT, NoneAhead
<1>4. CASE ApproveNFT(a, b, id)
  BY <1>4 DEF ApproveNFT, NoneAhead
<1> QED BY <1>2, <1>3, <1>4

LEMMA AnswersGuarded == GuardInv /\ Answers => GuardInv'
<1> SUFFICES ASSUME GuardInv, Answers PROVE GuardInv'
  OBVIOUS
<1>1. TypeInv /\ TypeInv'
  BY AnswersTyped DEF GuardInv
<1>2. stack # <<>> /\ Top.fn \in Guarded
  BY DEF Answers, At, DepositHooked, CashHooked, ApproveHooked, TransferHooked, Deposits,
         Transfers, Guarded, SafeTransferHooked, UpdateHooked, BurnHooked, Received
<1>3. /\ NoneAhead(owners, nextId) /\ Top \in FrameType
      /\ Fresh(Top, owners, notas, nextId)
  BY <1>2, TopFresh
<1>4. /\ Top.nota \in NotaType /\ notas \in [Ids -> NotaType]
      /\ Fees \subseteq Uint /\ External \subseteq Points /\ "finish" \in Points
  BY <1>1, <1>3, InputAssumption DEF FrameType, TypeInv, TypeOK, NotasTypeOK, Points
<1>5. ASSUME NEW fee \in Fees, DepositHooked(fee)
      PROVE  GuardInv'
  <2> DEFINE p == IF ToEscrow(Top.amount, fee) > 0 THEN "pull" ELSE AfterPull
             f == [Top EXCEPT !.fee = fee, !.at = p]
  <2>1. p \in Points
    BY DEF Points, External, AfterPull
  <2>2. Continue(f) /\ UNCHANGED <<owners, notas, nextId, status>>
    BY <1>5 DEF DepositHooked, storageVars, erc721Vars
  <2> HIDE DEF p
  <2>3. /\ f \in FrameType /\ f.fn = Top.fn /\ f.saved = Top.saved
        /\ f.id = Top.id /\ f.nota = Top.nota /\ f.to = Top.to /\ f.amount = Top.amount
    BY <1>3, <1>4, <2>1, FrameMoves DEF FrameType
  <2>4. Top.at = "hook" /\ Top.fn \in Deposits
    BY <1>5 DEF DepositHooked, At
  <2> HIDE DEF f
  <2>5. Fresh(f, owners, notas, nextId)
    BY <1>3, <2>3, <2>4 DEF Fresh, EscrowNow, Deposits
  <2> QED BY <1>1, <1>2, <1>3, <2>2, <2>3, <2>5, ContinueGuarded
<1>6. ASSUME NEW fee \in Fees, CashHooked(fee)
      PROVE  GuardInv'
  <2> DEFINE p == IF Top.amount > fee THEN "pay" ELSE "finish"
             f == [Top EXCEPT !.fee = fee, !.at = p]
  <2>1. p \in Points /\ p # "hook"
    BY DEF Points, External
  <2>2. Continue(f) /\ UNCHANGED <<owners, nextId, status>>
    BY <1>6 DEF CashHooked, erc721Vars
  <2> HIDE DEF p
  <2>3. /\ f \in FrameType /\ f.fn = Top.fn /\ f.saved = Top.saved /\ f.at = p
        /\ f.id = Top.id /\ f.nota = Top.nota /\ f.to = Top.to /\ f.amount = Top.amount
    BY <1>3, <1>4, <2>1, FrameMoves DEF FrameType
  <2>4. Top.at = "hook" /\ Top.fn = "cash"
    BY <1>6 DEF CashHooked, At
  <2> HIDE DEF f
  <2>5. /\ Top.id \in Ids /\ owners[Top.id] # Zero
        /\ notas[Top.id] = [Top.nota EXCEPT !.escrowed = Top.nota.escrowed]
    BY <1>3, <2>4 DEF Fresh, EscrowNow
  <2>6. notas'[Top.id] = [Top.nota EXCEPT !.escrowed = Top.nota.escrowed - Top.amount]
    BY <1>4, <1>6, <2>5 DEF CashHooked, NotaType
  <2>7. Fresh(f, owners', notas', nextId')
    BY <2>1, <2>2, <2>3, <2>4, <2>5, <2>6 DEF Fresh, EscrowNow
  <2> QED BY <1>1, <1>2, <1>3, <2>2, <2>3, <2>7, ContinueGuarded
<1>7. ASSUME NEW fee \in Fees,
             ApproveHooked(fee) \/ TransferHooked(fee) \/ UpdateHooked(fee) \/ BurnHooked \/ Received
      PROVE  GuardInv'
  <2>1. Leave /\ nextId' = nextId
    BY <1>7 DEF ApproveHooked, TransferHooked, UpdateHooked, BurnHooked, Received
  <2>2. NoneAhead(owners', nextId)
    BY <1>1, <1>3, <1>7, NoneAheadKept
       DEF ApproveHooked, TransferHooked, UpdateHooked, BurnHooked, Received, erc721Vars
  <2> QED BY <1>1, <1>2, <2>1, <2>2, LeaveGuarded
<1>8. ASSUME NEW fee \in Fees, SafeTransferHooked(fee)
      PROVE  GuardInv'
  <2> DEFINE f == [Top EXCEPT !.fee = fee, !.at = "received"]
  <2>1. Continue(f) /\ UNCHANGED <<nextId, status>>
    BY <1>8 DEF SafeTransferHooked
  <2>2. f \in FrameType /\ f.fn = Top.fn /\ f.saved = Top.saved /\ f.at = "received"
    BY <1>3, <1>4, FrameMoves DEF FrameType, External
  <2>3. Top.fn = "safeTransferFrom"
    BY <1>8 DEF SafeTransferHooked, At
  <2>4. NoneAhead(owners', nextId)
    BY <1>1, <1>3, <1>8, NoneAheadKept DEF SafeTransferHooked
  <2> HIDE DEF f
  <2>5. Fresh(f, owners', notas', nextId')
    BY <2>2, <2>3 DEF Fresh
  <2> QED BY <1>1, <1>2, <2>1, <2>2, <2>4, <2>5, ContinueGuarded
<1>9. CASE BurnHooked \/ Received
  <2>1. Leave /\ nextId' = nextId
    BY <1>9 DEF BurnHooked, Received
  <2>2. NoneAhead(owners', nextId)
    BY <1>1, <1>3, <1>9, NoneAheadKept DEF BurnHooked, Received, erc721Vars
  <2> QED BY <1>1, <1>2, <2>1, <2>2, LeaveGuarded
<1> QED BY <1>5, <1>6, <1>7, <1>8, <1>9 DEF Answers

\* A token's steps change no nota, and no frame but for the point it is at.
LEMMA TokenStepGuarded ==
    ASSUME GuardInv, TypeInv', NEW p \in Points, NEW q \in Points,
           p \notin {"hook", "received"}, q \notin {"hook", "received"},
           \/ \E from, to, amount : TokenMoves(p, q, from, to, amount)
           \/ TokenReturns(p, q)
    PROVE  GuardInv'
<1> DEFINE f == [Top EXCEPT !.at = q]
<1>1. /\ stack # <<>> /\ Top.at = p /\ Continue(f)
      /\ UNCHANGED <<owners, notas, nextId, status>>
  BY DEF TokenMoves, TokenReturns, At, storageVars, erc721Vars
<1>2. /\ NoneAhead(owners, nextId) /\ Top \in FrameType
      /\ Top.fn \in Guarded => Fresh(Top, owners, notas, nextId)
  BY <1>1, TopFresh
<1>3. /\ f \in FrameType /\ f.fn = Top.fn /\ f.saved = Top.saved /\ f.at = q
      /\ f.id = Top.id /\ f.nota = Top.nota /\ f.to = Top.to /\ f.amount = Top.amount
  BY <1>2, FrameMoves DEF FrameType
<1> HIDE DEF f
<1>4. Top.fn \in Guarded => Fresh(f, owners, notas, nextId)
  BY <1>1, <1>2, <1>3 DEF Fresh, EscrowNow
<1> QED BY <1>1, <1>2, <1>3, <1>4, ContinueGuarded

LEMMA TokenStepsGuarded == GuardInv /\ TokenSteps => GuardInv'
<1> SUFFICES ASSUME GuardInv, TokenSteps PROVE GuardInv'
  OBVIOUS
<1>1. TypeInv'
  BY TokenStepsTyped DEF GuardInv
<1>2. /\ {"pull", "pulled", "forward", "forwarded", "pay", "paid", "finish"} \subseteq Points
      /\ AfterPull \in Points /\ AfterPull \notin {"hook", "received"}
  BY DEF Points, External, AfterPull
<1>3. CASE Pulls
  <2>1. \E from, to, amount : TokenMoves("pull", "pulled", from, to, amount)
    BY <1>3 DEF Pulls
  <2> QED BY <1>1, <1>2, <2>1, TokenStepGuarded
<1>4. CASE PullReturns
  BY <1>1, <1>2, <1>4, TokenStepGuarded DEF PullReturns
<1>5. CASE Forwards
  <2>1. \E from, to, amount : TokenMoves("forward", "forwarded", from, to, amount)
    BY <1>5 DEF Forwards
  <2> QED BY <1>1, <1>2, <2>1, TokenStepGuarded
<1>6. CASE ForwardReturns
  BY <1>1, <1>2, <1>6, TokenStepGuarded DEF ForwardReturns
<1>7. CASE Pays
  <2>1. \E from, to, amount : TokenMoves("pay", "paid", from, to, amount)
    BY <1>7 DEF Pays
  <2> QED BY <1>1, <1>2, <2>1, TokenStepGuarded
<1>8. CASE PayReturns
  BY <1>1, <1>2, <1>8, TokenStepGuarded DEF PayReturns
<1> QED BY <1>3, <1>4, <1>5, <1>6, <1>7, <1>8 DEF TokenSteps

LEMMA FinishesGuarded == GuardInv /\ Finishes => GuardInv'
<1> SUFFICES ASSUME GuardInv, Finishes PROVE GuardInv'
  OBVIOUS
<1>1. TypeInv /\ TypeInv'
  BY FinishesTyped DEF GuardInv
<1>2. stack # <<>>
  BY DEF Finishes, At, WriteFinishes, FundFinishes, CashFinishes, WithdrawFinishes
<1>3. NoneAhead(owners, nextId)
  BY <1>2, TopFresh
<1>4. CASE WriteFinishes
  <2>1. Top.fn \in Guarded /\ Leave
    BY <1>4 DEF WriteFinishes, At, Guarded
  <2>2. NoneAhead(owners', nextId')
    <3>1. nextId' = nextId + 1 /\ owners' = [owners EXCEPT ![nextId] = Top.to]
      BY <1>4 DEF WriteFinishes, Mint
    <3>2. nextId \in Int /\ owners \in [Ids -> AddressOrZero] /\ Ids \subseteq Int
      BY <1>1, NotasAssumption DEF TypeInv, TypeOK, NotasTypeOK, ERC721TypeOK, Ids
    <3> QED BY <1>3, <3>1, <3>2 DEF NoneAhead
  <2> QED BY <1>1, <1>2, <2>1, <2>2, LeaveGuarded
<1>5. CASE FundFinishes \/ CashFinishes
  <2>1. Top.fn \in Guarded /\ Leave /\ owners' = owners /\ nextId' = nextId
    BY <1>5 DEF FundFinishes, CashFinishes, At, Guarded, erc721Vars
  <2> QED BY <1>1, <1>2, <1>3, <2>1, LeaveGuarded
<1>6. CASE WithdrawFinishes
  <2>1. Top.fn \notin Guarded /\ Close /\ UNCHANGED <<owners, notas, nextId, status>>
    BY <1>6 DEF WithdrawFinishes, At, Guarded, Withdraws, storageVars, erc721Vars
  <2> QED BY <1>1, <1>2, <2>1, CloseUnguarded
<1> QED BY <1>4, <1>5, <1>6 DEF Finishes

\* The unguarded functions leave the notas, their owners and the guard alone.
LEMMA UnguardedKeeps ==
    ASSUME Unguarded
    PROVE  UNCHANGED <<owners, nftBalance, tokenApprovals, notas, nextId, status>>
<1> DEFINE Same == UNCHANGED <<owners, nftBalance, tokenApprovals, notas, nextId, status>>
<1>1. ASSUME NEW c, NEW t, NEW amount, NEW to,
             HookWithdraw(c, t, amount, to) \/ ProtocolWithdraw(c, t, amount, to)
             \/ SendTokens(t, c, to, amount)
      PROVE  Same
  BY <1>1 DEF HookWithdraw, ProtocolWithdraw, SendTokens, erc721Vars
<1>2. ASSUME NEW c, NEW x,
             SetProtocolFee(c, x) \/ TransferOwnership(c, x) \/ RenounceOwnership(c)
      PROVE  Same
  BY <1>2 DEF SetProtocolFee, TransferOwnership, RenounceOwnership, erc721Vars
<1>3. ASSUME NEW c, NEW o, NEW approved, SetApprovalForAll(c, o, approved)
      PROVE  Same
  BY <1>3 DEF SetApprovalForAll, SetOperator
<1> HIDE DEF Same
<1>4. Same
  BY <1>1, <1>2, <1>3, Zenon DEF Unguarded
<1> QED BY <1>4 DEF Same

LEMMA UnguardedGuarded == GuardInv /\ Unguarded => GuardInv'
<1> SUFFICES ASSUME GuardInv, Unguarded PROVE GuardInv'
  OBVIOUS
<1>1. TypeInv /\ TypeOK /\ TypeInv'
  BY UnguardedTyped DEF GuardInv, TypeInv
<1>2. UNCHANGED <<owners, notas, nextId, status>>
  BY UnguardedKeeps
<1>3. CASE UNCHANGED stack
  BY <1>1, <1>2, <1>3 DEF GuardInv, StorageFits, Depth
<1>4. ASSUME NEW c \in Callers, NEW t \in Tokens, NEW amount \in Withdrawals, NEW to \in Payees,
             \/ c \in Contracts /\ HookWithdraw(c, t, amount, to)
             \/ ProtocolWithdraw(c, t, amount, to)
      PROVE  GuardInv'
  <2>1. \E g : Open(g) /\ g.saved = Storage /\ g.fn \in Withdraws
    <3> DEFINE h == [CallOf("hookWithdraw", c, 0, [escrowed |-> 0, currency |-> t, hooks |-> c])
                     EXCEPT !.at = "pay", !.to = to, !.amount = amount, !.fee = ProtocolCut(amount)]
               o == [CallOf("protocolWithdraw", c, 0, [escrowed |-> 0, currency |-> t, hooks |-> Zero])
                     EXCEPT !.at = "pay", !.to = to, !.amount = amount]
    <3>1. /\ h.fn \in Withdraws /\ h.saved = Storage
          /\ o.fn \in Withdraws /\ o.saved = Storage
      BY DEF CallOf, Withdraws
    <3>2. Open(h) \/ Open(o)
      BY <1>4 DEF HookWithdraw, ProtocolWithdraw
    <3> HIDE DEF h, o
    <3> QED BY <3>1, <3>2
  <2> PICK g : Open(g) /\ g.saved = Storage /\ g.fn \in Withdraws
    BY <2>1
  <2>2. stack' = Append(stack, g)
    BY DEF Open
  <2>3. stack \in Seq(FrameType) /\ stack' \in Seq(FrameType) /\ Len(stack') = Depth + 1
    BY <1>1, <2>2 DEF TypeInv, TypeOK, Depth
  <2>4. g \in FrameType
    BY <2>2, <2>3 DEF Depth
  <2>5. g.fn \notin Guarded
    BY DEF Withdraws, Guarded
  <2> QED BY <1>1, <1>2, <2>4, <2>5, OpenUnguarded
<1> QED BY <1>3, <1>4 DEF Unguarded, SendTokens, SetProtocolFee, TransferOwnership,
                          RenounceOwnership, SetApprovalForAll

LEMMA InitGuarded == Init => GuardInv
<1> SUFFICES ASSUME Init PROVE GuardInv
  OBVIOUS
<1>1. TypeInv
  BY InitTyped
<1>2. Depth = 0
  BY DEF Init, Depth
<1>3. NoneAhead(owners, nextId)
  BY DEF Init, ERC721Init, NoneAhead
<1>4. StackFits(stack, 0) /\ Fits(stack, owners, notas, nextId, status, 0)
  BY <1>3 DEF Init, StackFits, Fits
<1> QED BY <1>1, <1>2, <1>4 DEF GuardInv, StorageFits

LEMMA StepGuarded == GuardInv /\ [Next]_vars => GuardInv'
<1> SUFFICES ASSUME GuardInv, [Next]_vars PROVE GuardInv'
  OBVIOUS
<1>1. TypeInv'
  BY StepTyped DEF GuardInv
<1>2. CASE UNCHANGED vars
  BY <1>1, <1>2 DEF vars, GuardInv, StorageFits, Depth, erc721Vars
<1>3. CASE Revert
  BY <1>1, <1>3, RevertGuarded
<1> QED
  BY <1>2, <1>3, CallsGuarded, AnswersGuarded, TokenStepsGuarded, FinishesGuarded, UnguardedGuarded
     DEF Next

\* The reentrancy guard is taken exactly while one guarded call is open, at any
\* depth of calls inside calls, and after any of them failed: it is never left
\* taken, and never given away (ReentrancyGuard.sol:56-68).
THEOREM GuardCorrect == Spec => []OneGuarded
<1>1. Spec => []GuardInv
  BY InitGuarded, StepGuarded, PTL DEF Spec
<1>2. GuardInv => OneGuarded
  BY GuardInvImplies
<1> QED BY <1>1, <1>2, PTL

\* What a guarded call read (nextId, a nota, its owner) before it called a
\* hook, a token or a receiver is in storage when the call returns, whatever
\* they did: no operation goes on with stale data (NotaRegistrar.sol:44-51,
\* 87-98, 106-116, 124-130, 139-149, 155-163, 205-212).
THEOREM NothingReadIsStale == Spec => []SnapshotFresh
<1>1. Spec => []GuardInv
  BY InitGuarded, StepGuarded, PTL DEF Spec
<1>2. GuardInv => SnapshotFresh
  BY GuardInvImplies
<1> QED BY <1>1, <1>2, PTL
=============================================================================
