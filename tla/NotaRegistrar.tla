--------------------------- MODULE NotaRegistrar ---------------------------
(***************************************************************************)
(* NotaRegistrar: notas, each an ERC-721 token with an escrowed amount of  *)
(* one currency and a hook contract that is asked before every operation   *)
(* and answers with a fee.                                                 *)
(*                                                                         *)
(* One action is the code between two external calls.  An operation opens  *)
(* a frame on the stack with its arguments and what it read, stops at each *)
(* external call, and closes its frame at the end.  The functions marked   *)
(* nonReentrant are in Guarded; the others may be called while one waits.  *)
(***************************************************************************)
EXTENDS ERC721, RegistrarGov

CONSTANTS
    Functions,  \* input: which of the guarded functions are called
    Payees,     \* input: who receives tokens and notas
    Approvees,  \* input: who is approved for a nota, Zero for nobody
    Operators,  \* input: who is approved for all notas of an owner
    Governors,  \* input: who is given the registrar's ownership, Zero to renounce it
    Amounts,    \* input: amounts of tokens in guarded calls
    Withdrawals,\* input: amounts of tokens withdrawn, or sent by a holder
    Fees,       \* input: fees that hooks answer with
    FeeRates    \* input: protocol fees that the owner tries to set

ASSUME InputAssumption ==
    /\ Payees \subseteq Address \cup {Zero}
    /\ Approvees \subseteq Address \cup {Zero}
    /\ Operators \subseteq Address
    /\ Governors \subseteq Address \cup {Zero}
    /\ Amounts \subseteq Uint
    /\ Withdrawals \subseteq Uint
    /\ Fees \subseteq Uint
    /\ FeeRates \subseteq Uint

VARIABLES
    notas,      \* _notas[id]
    nextId,
    status      \* ReentrancyGuard's _status

vars == <<balance, stack, erc721Vars, govVars, notas, nextId, status>>

\* What a call may change and a failing call restores.
storageVars == <<balance, erc721Vars, govVars, notas, nextId, status>>

-----------------------------------------------------------------------------

Guarded   == {"write", "fund", "cash", "approve", "transferFrom",
              "safeTransferFrom", "burn", "update"}
Transfers == {"transferFrom", "safeTransferFrom"}
Deposits  == {"write", "fund"}
Withdraws == {"hookWithdraw", "protocolWithdraw"}

\* A mapping's default value, which `delete` restores.
Blank == [escrowed |-> 0, currency |-> Zero, hooks |-> Zero]

Storage ==
    [balance |-> balance, owners |-> owners, nftBalance |-> nftBalance,
     tokenApprovals |-> tokenApprovals, operatorApprovals |-> operatorApprovals,
     govOwner |-> govOwner, protocolFee |-> protocolFee,
     hookRevenue |-> hookRevenue, hookTotalRevenue |-> hookTotalRevenue,
     protocolRevenue |-> protocolRevenue,
     protocolTotalRevenue |-> protocolTotalRevenue,
     notas |-> notas, nextId |-> nextId, status |-> status]

\* A call of fn by c about a nota that it read as `nota`, at its first point.
CallOf(fn, c, id, nota) ==
    [fn |-> fn, at |-> "hook", caller |-> c, id |-> id, nota |-> nota,
     from |-> Zero, to |-> Zero, amount |-> 0, instant |-> 0, fee |-> 0,
     saved |-> Storage]

Init ==
    /\ balance = InitialBalance
    /\ stack = <<>>
    /\ ERC721Init
    /\ GovInit
    /\ notas = [id \in Ids |-> Blank]
    /\ nextId = 1
    /\ status = "NOT_ENTERED"

-----------------------------------------------------------------------------
(* The guarded functions, up to the call of the hook.                      *)

\* Mutant: nonReentrant without its check.
EnterUnguarded(frame) ==
    /\ frame.fn \in Functions
    /\ MayCall(frame.caller)
    /\ status' = "ENTERED"
    /\ Open(frame)
    /\ UNCHANGED <<balance, erc721Vars, govVars, notas, nextId>>

\* A guarded call by c opens; the hook is asked next.
Enter(frame) ==
    /\ frame.fn \in Functions   \* bound
    /\ MayCall(frame.caller)
    /\ status = "NOT_ENTERED"
    /\ status' = "ENTERED"
    /\ Open(frame)
    /\ UNCHANGED <<balance, erc721Vars, govVars, notas, nextId>>

\* Mutant: nonReentrant without its reset.
LeaveLocked == UNCHANGED status /\ Close

Leave == status' = "NOT_ENTERED" /\ Close

Write(c, currency, escrowed, instant, owner, hooks) ==
    /\ nextId \in Ids   \* bound
    /\ Enter([CallOf("write", c, nextId,
                     [escrowed |-> escrowed, currency |-> currency, hooks |-> hooks])
              EXCEPT !.to = owner, !.amount = escrowed, !.instant = instant])

Fund(c, id, amount, instant) ==
    /\ Exists(id)
    /\ Enter([CallOf("fund", c, id, notas[id])
              EXCEPT !.to = owners[id], !.amount = amount, !.instant = instant])

Cash(c, id, amount, to) ==
    /\ Exists(id)
    /\ Enter([CallOf("cash", c, id, notas[id]) EXCEPT !.to = to, !.amount = amount])

Approve(c, to, id) ==
    /\ Exists(id)
    /\ Enter([CallOf("approve", c, id, notas[id]) EXCEPT !.to = to])

\* Mutant: anybody may start a transfer.
TransferByAnyone(fn, c, from, to, id) ==
    /\ Exists(id)
    /\ Enter([CallOf(fn, c, id, notas[id]) EXCEPT !.from = from, !.to = to])

\* transferFrom and safeTransferFrom: the caller is checked before the hook
\* is called, `from` only after.
Transfer(fn, c, from, to, id) ==
    /\ Exists(id)
    /\ IsApprovedOrOwner(c, id)
    /\ Enter([CallOf(fn, c, id, notas[id]) EXCEPT !.from = from, !.to = to])

Burn(c, id) ==
    /\ Exists(id)
    /\ IsApprovedOrOwner(c, id)
    /\ Enter(CallOf("burn", c, id, notas[id]))

Update(c, id) ==
    /\ Exists(id)
    /\ Enter(CallOf("update", c, id, notas[id]))

-----------------------------------------------------------------------------
(* The guarded functions after the hook has answered with a fee.           *)

\* `_notas[id].escrowed -= fee` and the hook's credit, both checked.
DeductFee(fee) ==
    /\ fee <= notas[Top.id].escrowed
    /\ notas' = [notas EXCEPT ![Top.id].escrowed = @ - fee]
    /\ CreditHook(Top.nota.hooks, Top.nota.currency, fee)

AfterPull == IF Top.instant > 0 THEN "forward" ELSE "finish"

\* Mutant: unchecked addition.
ToEscrowWraps(escrowed, fee) == (escrowed + fee) % (MaxUint + 1)

ToEscrow(escrowed, fee) == escrowed + fee

\* _transferTokens: the escrowed amount and the fee are pulled in first.
DepositHooked(fee) ==
    /\ At(Deposits, "hook")
    /\ ToEscrow(Top.amount, fee) <= MaxUint
    /\ Continue([Top EXCEPT !.fee = fee,
                            !.at = IF ToEscrow(Top.amount, fee) > 0 THEN "pull" ELSE AfterPull])
    /\ UNCHANGED storageVars

\* Mutant: the guard is released before the payment.
CashHookedReleases(fee) ==
    /\ At({"cash"}, "hook")
    /\ Top.amount <= notas[Top.id].escrowed
    /\ fee <= Top.amount
    /\ notas' = [notas EXCEPT ![Top.id].escrowed = @ - Top.amount]
    /\ Continue([Top EXCEPT !.fee = fee,
                            !.at = IF Top.amount > fee THEN "pay" ELSE "finish"])
    /\ status' = "NOT_ENTERED"
    /\ UNCHANGED <<balance, erc721Vars, govVars, nextId>>

\* Mutant: the fee may exceed the amount cashed.
CashHookedUnderflows(fee) ==
    /\ At({"cash"}, "hook")
    /\ Top.amount <= notas[Top.id].escrowed
    /\ notas' = [notas EXCEPT ![Top.id].escrowed = @ - Top.amount]
    /\ Continue([Top EXCEPT !.fee = fee,
                            !.at = IF Top.amount # fee THEN "pay" ELSE "finish"])
    /\ UNCHANGED <<balance, erc721Vars, govVars, nextId, status>>

CashHooked(fee) ==
    /\ At({"cash"}, "hook")
    /\ Top.amount <= notas[Top.id].escrowed
    /\ fee <= Top.amount
    /\ notas' = [notas EXCEPT ![Top.id].escrowed = @ - Top.amount]
    /\ Continue([Top EXCEPT !.fee = fee,
                            !.at = IF Top.amount > fee THEN "pay" ELSE "finish"])
    /\ UNCHANGED <<balance, erc721Vars, govVars, nextId, status>>

ApproveHooked(fee) ==
    /\ At({"approve"}, "hook")
    /\ DeductFee(fee)
    /\ ApproveNFT(Top.caller, Top.to, Top.id)
    /\ Leave
    /\ UNCHANGED <<balance, nextId>>

\* Nobody is called after the transfer: transferFrom, or a new owner without code.
TransferHooked(fee) ==
    /\ At(Transfers, "hook")
    /\ Top.fn = "safeTransferFrom" => Top.to \in Users
    /\ DeductFee(fee)
    /\ TransferNFT(Top.from, Top.to, Top.id)
    /\ Leave
    /\ UNCHANGED <<balance, nextId>>

\* The new owner has code, and onERC721Received is called.  The registrar
\* itself has no such function: a safe transfer to it fails.
SafeTransferHooked(fee) ==
    /\ At({"safeTransferFrom"}, "hook")
    /\ Top.to \in Contracts
    /\ DeductFee(fee)
    /\ TransferNFT(Top.from, Top.to, Top.id)
    /\ Continue([Top EXCEPT !.fee = fee, !.at = "received"])
    /\ UNCHANGED <<balance, nextId, status>>

Received ==
    /\ At({"safeTransferFrom"}, "received")
    /\ Leave
    /\ UNCHANGED <<balance, erc721Vars, govVars, notas, nextId>>

\* Mutant: nextId counts the notas that live.
BurnHookedCountsDown ==
    /\ At({"burn"}, "hook")
    /\ CreditHook(Top.nota.hooks, Top.nota.currency, Top.nota.escrowed)
    /\ notas' = [notas EXCEPT ![Top.id] = Blank]
    /\ BurnNFT(Top.id)
    /\ nextId' = nextId - 1
    /\ Leave
    /\ UNCHANGED balance

\* The amount credited is the one read before the hook was called.
BurnHooked ==
    /\ At({"burn"}, "hook")
    /\ CreditHook(Top.nota.hooks, Top.nota.currency, Top.nota.escrowed)
    /\ notas' = [notas EXCEPT ![Top.id] = Blank]
    /\ BurnNFT(Top.id)
    /\ Leave
    /\ UNCHANGED <<balance, nextId>>

UpdateHooked(fee) ==
    /\ At({"update"}, "hook")
    /\ DeductFee(fee)
    /\ Leave
    /\ UNCHANGED <<balance, erc721Vars, nextId>>

-----------------------------------------------------------------------------
(* Token transfers, and what follows them.                                 *)

\* The token moves an amount in the middle of its call.
TokenMoves(p, q, from, to, amount) ==
    /\ At(Guarded \cup Withdraws, p)
    /\ Move(Top.nota.currency, from, to, amount)
    /\ Continue([Top EXCEPT !.at = q])
    /\ UNCHANGED <<erc721Vars, govVars, notas, nextId, status>>

TokenReturns(p, q) ==
    /\ At(Guarded \cup Withdraws, p)
    /\ Continue([Top EXCEPT !.at = q])
    /\ UNCHANGED storageVars

Pulls          == TokenMoves("pull", "pulled", Top.caller, Registrar, ToEscrow(Top.amount, Top.fee))
PullReturns    == TokenReturns("pulled", AfterPull)
Forwards       == TokenMoves("forward", "forwarded", Top.caller, Top.to, Top.instant)
ForwardReturns == TokenReturns("forwarded", "finish")
Pays           == TokenMoves("pay", "paid", Registrar, Top.to, Top.amount - Top.fee)
PayReturns     == TokenReturns("paid", "finish")

\* The id minted is the counter read again, after the hook and the token ran.
WriteFinishes ==
    /\ At({"write"}, "finish")
    /\ nextId \in Ids
    /\ Mint(Top.to, nextId)
    /\ notas' = [notas EXCEPT ![nextId] = Top.nota]
    /\ CreditHook(Top.nota.hooks, Top.nota.currency, Top.fee)
    /\ nextId' = nextId + 1
    /\ Leave
    /\ UNCHANGED balance

FundFinishes ==
    /\ At({"fund"}, "finish")
    /\ notas[Top.id].escrowed + Top.amount <= MaxUint
    /\ notas' = [notas EXCEPT ![Top.id].escrowed = @ + Top.amount]
    /\ CreditHook(Top.nota.hooks, Top.nota.currency, Top.fee)
    /\ Leave
    /\ UNCHANGED <<balance, erc721Vars, nextId>>

\* Mutant: the fee of a cash is not credited.
CashFinishesUncredited ==
    /\ At({"cash"}, "finish")
    /\ Leave
    /\ UNCHANGED <<balance, erc721Vars, govVars, notas, nextId>>

\* Mutant: the fee of a cash is credited to the contract that called.
CashFinishesToCaller ==
    /\ At({"cash"}, "finish")
    /\ Top.caller \in Contracts
    /\ CreditHook(Top.caller, Top.nota.currency, Top.fee)
    /\ Leave
    /\ UNCHANGED <<balance, erc721Vars, notas, nextId>>

\* The fee of a cash is credited only now, after the payment.
CashFinishes ==
    /\ At({"cash"}, "finish")
    /\ CreditHook(Top.nota.hooks, Top.nota.currency, Top.fee)
    /\ Leave
    /\ UNCHANGED <<balance, erc721Vars, notas, nextId>>

WithdrawFinishes ==
    /\ At(Withdraws, "finish")
    /\ Close
    /\ UNCHANGED storageVars

-----------------------------------------------------------------------------
(* The functions without the guard.                                        *)

\* hookWithdraw by a contract that is, or is not, the hook of some nota.
HookWithdraw(h, token, amount, to) ==
    /\ MayCall(h)
    /\ DebitHook(h, token, amount)
    /\ Open([CallOf("hookWithdraw", h, 0, [escrowed |-> 0, currency |-> token, hooks |-> h])
             EXCEPT !.at = "pay", !.to = to, !.amount = amount, !.fee = ProtocolCut(amount)])
    /\ UNCHANGED <<balance, erc721Vars, notas, nextId, status>>

ProtocolWithdraw(c, token, amount, to) ==
    /\ MayCall(c)
    /\ DebitProtocol(c, token, amount)
    /\ Open([CallOf("protocolWithdraw", c, 0, [escrowed |-> 0, currency |-> token, hooks |-> Zero])
             EXCEPT !.at = "pay", !.to = to, !.amount = amount])
    /\ UNCHANGED <<balance, erc721Vars, notas, nextId, status>>

SetProtocolFee(c, newFee) ==
    /\ MayCall(c)
    /\ SetFee(c, newFee)
    /\ UNCHANGED <<balance, stack, erc721Vars, notas, nextId, status>>

TransferOwnership(c, newOwner) ==
    /\ MayCall(c)
    /\ newOwner # Zero
    /\ SetGovOwner(c, newOwner)
    /\ UNCHANGED <<balance, stack, erc721Vars, notas, nextId, status>>

RenounceOwnership(c) ==
    /\ MayCall(c)
    /\ SetGovOwner(c, Zero)
    /\ UNCHANGED <<balance, stack, erc721Vars, notas, nextId, status>>

SetApprovalForAll(c, operator, approved) ==
    /\ MayCall(c)
    /\ SetOperator(c, operator, approved)
    /\ UNCHANGED <<balance, stack, govVars, notas, nextId, status>>

\* A holder sends tokens without the registrar, perhaps to the registrar.
SendTokens(token, c, to, amount) ==
    /\ MayCall(c)
    /\ Move(token, c, to, amount)
    /\ UNCHANGED <<stack, erc721Vars, govVars, notas, nextId, status>>

-----------------------------------------------------------------------------

\* The innermost call fails: a require or a checked subtraction, a hook or a
\* token that fails or answers wrongly, or no gas left.  The storage is what
\* it was when the call began.  Its caller may go on, or fail in turn.
Revert ==
    /\ stack # <<>>
    /\ Close
    /\ LET s == Top.saved IN
       /\ balance' = s.balance
       /\ owners' = s.owners
       /\ nftBalance' = s.nftBalance
       /\ tokenApprovals' = s.tokenApprovals
       /\ operatorApprovals' = s.operatorApprovals
       /\ govOwner' = s.govOwner
       /\ protocolFee' = s.protocolFee
       /\ hookRevenue' = s.hookRevenue
       /\ hookTotalRevenue' = s.hookTotalRevenue
       /\ protocolRevenue' = s.protocolRevenue
       /\ protocolTotalRevenue' = s.protocolTotalRevenue
       /\ notas' = s.notas
       /\ nextId' = s.nextId
       /\ status' = s.status

Calls ==
    \E c \in Callers :
       \/ \E t \in Tokens, escrowed, instant \in Amounts, owner \in Payees, h \in Contracts :
             Write(c, t, escrowed, instant, owner, h)
       \/ \E id \in Ids :
             \/ \E amount, instant \in Amounts : Fund(c, id, amount, instant)
             \/ \E amount \in Amounts, to \in Payees : Cash(c, id, amount, to)
             \/ \E to \in Approvees : Approve(c, to, id)
             \/ \E fn \in Transfers, from, to \in Payees : Transfer(fn, c, from, to, id)
             \/ Burn(c, id)
             \/ Update(c, id)

Answers ==
    \/ \E fee \in Fees :
          \/ DepositHooked(fee)
          \/ CashHooked(fee)
          \/ ApproveHooked(fee)
          \/ TransferHooked(fee)
          \/ SafeTransferHooked(fee)
          \/ UpdateHooked(fee)
    \/ BurnHooked
    \/ Received

TokenSteps ==
    Pulls \/ PullReturns \/ Forwards \/ ForwardReturns \/ Pays \/ PayReturns

Finishes ==
    WriteFinishes \/ FundFinishes \/ CashFinishes \/ WithdrawFinishes

Unguarded ==
    \E c \in Callers :
       \/ \E t \in Tokens, amount \in Withdrawals, to \in Payees :
             \/ c \in Contracts /\ HookWithdraw(c, t, amount, to)
             \/ ProtocolWithdraw(c, t, amount, to)
             \/ SendTokens(t, c, to, amount)
       \/ \E newFee \in FeeRates : SetProtocolFee(c, newFee)
       \/ \E g \in Governors : TransferOwnership(c, g)
       \/ Zero \in Governors /\ RenounceOwnership(c)
       \/ \E o \in Operators, approved \in BOOLEAN : SetApprovalForAll(c, o, approved)

Next == Calls \/ Answers \/ TokenSteps \/ Finishes \/ Unguarded \/ Revert

Spec == Init /\ [][Next]_vars
=============================================================================
