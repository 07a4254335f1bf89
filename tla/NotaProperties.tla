--------------------------- MODULE NotaProperties ---------------------------
(***************************************************************************)
(* What the registrar promises, at every point of every call: what it      *)
(* holds of each token covers what it owes, what a call read before its    *)
(* external calls is still so when it uses it, and notas have one life.    *)
(***************************************************************************)
EXTENDS NotaRegistrar, Sums

(* Types *)

AddressOrZero == Address \cup {Zero}
NotaType == [escrowed : Uint, currency : Tokens \cup {Zero}, hooks : Contracts \cup {Zero}]

StorageType ==
    [balance : [Tokens -> [Address -> Uint]],
     owners : [Ids -> AddressOrZero],
     nftBalance : [Address -> Int],
     tokenApprovals : [Ids -> AddressOrZero],
     operatorApprovals : SUBSET (Callers \X Address),
     govOwner : AddressOrZero,
     protocolFee : 0 .. MaxProtocolFee,
     hookRevenue : [Contracts -> [Tokens -> Uint]],
     hookTotalRevenue : [Contracts -> [Tokens -> Uint]],
     protocolRevenue : [Tokens -> Uint],
     protocolTotalRevenue : [Tokens -> Uint],
     notas : [Ids -> NotaType],
     nextId : 1 .. MaxNotas + 1,
     status : {"NOT_ENTERED", "ENTERED"}]

FrameType ==
    [fn : Guarded \cup Withdraws, at : Points, caller : Callers,
     id : 0 .. MaxNotas, nota : NotaType, from : AddressOrZero, to : AddressOrZero,
     amount : Uint, instant : Uint, fee : Uint, saved : StorageType]

\* The conjuncts of Storage \in StorageType, by the module that declares them.
BalanceTypeOK == balance \in [Tokens -> [Address -> Uint]]

ERC721TypeOK ==
    /\ owners \in [Ids -> AddressOrZero]
    /\ nftBalance \in [Address -> Int]
    /\ tokenApprovals \in [Ids -> AddressOrZero]
    /\ operatorApprovals \in SUBSET (Callers \X Address)

GovTypeOK ==
    /\ govOwner \in AddressOrZero
    /\ protocolFee \in 0 .. MaxProtocolFee
    /\ hookRevenue \in [Contracts -> [Tokens -> Uint]]
    /\ hookTotalRevenue \in [Contracts -> [Tokens -> Uint]]
    /\ protocolRevenue \in [Tokens -> Uint]
    /\ protocolTotalRevenue \in [Tokens -> Uint]

NotasTypeOK ==
    /\ notas \in [Ids -> NotaType]
    /\ nextId \in 1 .. MaxNotas + 1
    /\ status \in {"NOT_ENTERED", "ENTERED"}

\* Every variable, and every frame with the storage it would restore, has its type.
TypeOK ==
    /\ BalanceTypeOK /\ ERC721TypeOK /\ GovTypeOK /\ NotasTypeOK
    /\ stack \in Seq(FrameType)

-----------------------------------------------------------------------------
(* Money *)

\* Nota id's escrow, as an amount of token t.
EscrowOf(t) == [id \in Ids |-> IF notas[id].currency = t THEN notas[id].escrowed ELSE 0]
RevenueOf(t) == [h \in Contracts |-> hookRevenue[h][t]]

\* A deposit that is in, and in no book yet.
Uncredited(f) ==
    IF f.fn \in Deposits /\ f.at \in {"pulled", "forward", "forwarded", "finish"}
    THEN f.amount + f.fee ELSE 0

\* A payment that is out of the books, and not yet paid.
Unpaid(f) == IF f.at = "pay" THEN f.amount - f.fee ELSE 0

\* The fee of a cash, out of the nota's escrow and not yet its hook's revenue.
FeeKept(f) == IF f.fn = "cash" /\ f.at \in {"pay", "paid", "finish"} THEN f.fee ELSE 0

InFlight(t) ==
    [i \in 1 .. Depth |->
        IF stack[i].nota.currency = t
        THEN Uncredited(stack[i]) + Unpaid(stack[i]) + FeeKept(stack[i]) ELSE 0]

Owed(t) ==
    Sum(EscrowOf(t), Ids) + Sum(RevenueOf(t), Contracts)
        + protocolRevenue[t] + Sum(InFlight(t), 1 .. Depth)

\* In every state, also in the middle of calls, the registrar holds at least
\* what it owes to notas, to hooks, to the protocol, and to calls in flight.
Solvent == \A t \in Tokens : Owed(t) <= balance[t][Registrar]

\* If nobody sends tokens to the registrar's own address, it holds exactly
\* what it owes: no operation leaves an amount behind that nobody can claim.
NothingStranded ==
    Registrar \notin Payees => \A t \in Tokens : Owed(t) = balance[t][Registrar]

\* A payment about to be made is an amount less its fee, and never wraps: no
\* hook asks for more than is cashed, and the protocol's cut is a part.
PaymentsCovered ==
    \A i \in 1 .. Depth : stack[i].at = "pay" => stack[i].fee <= stack[i].amount

\* The protocol earned at most MAX_PROTOCOL_FEE of what hooks withdrew, by
\* whatever fees were set over time, and keeps at most what it earned.
ProtocolShareBounded ==
    \A t \in Tokens :
       /\ protocolRevenue[t] <= protocolTotalRevenue[t]
       /\ protocolTotalRevenue[t] * FeeDenominator
             <= MaxProtocolFee * Sum([h \in Contracts |-> hookTotalRevenue[h][t]], Contracts)

\* What hook h ever earned of token t, withdrawn or not.
Earned(h, t) == hookRevenue[h][t] + hookTotalRevenue[h][t]

\* A guarded call about a nota (also one that it writes or burns) of hook h and
\* currency t.
AboutNotaOf(h, t) ==
    /\ Depth > 0 /\ Top.fn \in Guarded
    /\ \E nota \in {notas[Top.id], notas'[Top.id]} : nota.hooks = h /\ nota.currency = t

\* What a hook ever earned of a token is never reduced by a call that succeeds, and
\* grows only by calls about notas of that hook and currency: no fee, burnt escrow
\* or withdrawal goes to the books of another (NotaRegistrar.sol:51, 98, 116,
\* 130, 147, 163, 212).
HookEarningsKept ==
    [][Revert \/ \A h \in Contracts, t \in Tokens :
          /\ Earned(h, t)' >= Earned(h, t)
          /\ Earned(h, t)' > Earned(h, t) => AboutNotaOf(h, t)]_vars

-----------------------------------------------------------------------------
(* Calls *)

GuardedFrames == {i \in 1 .. Depth : stack[i].fn \in Guarded}

\* The guard is taken exactly while a guarded call is open, and one at most is.
OneGuarded ==
    /\ status = "ENTERED" <=> GuardedFrames # {}
    /\ \A i, j \in GuardedFrames : i = j

\* The escrow that frame f leaves in storage until it ends, given what it read.
EscrowNow(f) ==
    IF f.fn = "cash" /\ f.at # "hook" THEN f.nota.escrowed - f.amount ELSE f.nota.escrowed

\* What a guarded call read (or told its hook) before its external calls is
\* still in storage while they run: the id to be minted, the nota, its owner.
SnapshotFresh ==
    \A i \in GuardedFrames :
       LET f == stack[i] IN
       /\ f.fn = "write" => f.id = nextId /\ \A id \in Ids : id >= nextId => ~Exists(id)
       /\ f.fn # "write" /\ f.at # "received" =>
             /\ Exists(f.id)
             /\ notas[f.id] = [f.nota EXCEPT !.escrowed = EscrowNow(f)]
       /\ f.fn = "fund" => owners[f.id] = f.to

\* A nota changes only in a step of the guarded call that was made about it,
\* once its hook has answered; unguarded calls change no nota.
NotaChangedByItsCall ==
    [][Revert \/ \A id \in Ids : notas'[id] # notas[id] =>
          Depth > 0 /\ Top.fn \in Guarded /\ Top.id = id]_vars

-----------------------------------------------------------------------------
(* Ownership *)

\* ERC-721 balances count the notas, and what is no nota is blank: no escrow,
\* no hook, nobody approved.
OwnershipConsistent ==
    /\ \A a \in Address : nftBalance[a] = Cardinality({id \in Ids : owners[id] = a})
    /\ \A id \in Ids : ~Exists(id) => notas[id] = Blank /\ tokenApprovals[id] = Zero
    /\ \A id \in Ids : Exists(id) => id < nextId

\* Ids are given in increasing order, a burnt one never again; the currency and the hook of a nota
\* never change while it lives.
OneLife ==
    [][ /\ Revert \/ /\ nextId' >= nextId
                     /\ \A id \in Ids : id < nextId /\ ~Exists(id) => ~Exists(id)'
        /\ \A id \in Ids : Exists(id) /\ Exists(id)' =>
              notas'[id].currency = notas[id].currency /\ notas'[id].hooks = notas[id].hooks]_vars

\* The authority that a call began with.
WasAuthorised(f) ==
    \/ f.caller = f.saved.owners[f.id]
    \/ f.caller = f.saved.tokenApprovals[f.id]
    \/ <<f.saved.owners[f.id], f.caller>> \in f.saved.operatorApprovals

\* A nota changes hands, or ends, only in a call whose caller was its owner,
\* its approved address or the owner's operator when the call began, and goes
\* from the account that owned it then.
OnlyAuthorisedMoves ==
    [][Revert \/ \A id \in Ids : Exists(id) /\ owners'[id] # owners[id] =>
          /\ Depth > 0 /\ Top.id = id
          /\ WasAuthorised(Top)
          /\ owners[id] = Top.saved.owners[id]]_vars

\* An address becomes approved only by an approve call of the nota's owner
\* then, or of one of the owner's operators, and never outlives that owner.
OnlyOwnersApprove ==
    [][Revert \/ \A id \in Ids :
          /\ tokenApprovals'[id] \notin {tokenApprovals[id], Zero} =>
                /\ Depth > 0 /\ Top.fn = "approve" /\ Top.id = id
                /\ Top.caller = owners[id] \/ <<owners[id], Top.caller>> \in operatorApprovals
          /\ owners'[id] # owners[id] => tokenApprovals'[id] = Zero]_vars

\* The interface says of approve (INotaRegistrar.sol:162): "Caller must be the
\* owner or approved for the nota or an operator for the owner."  So a call of
\* the approved address could complete once its hook asks for no fee.
ApprovedMayApprove ==
    At({"approve"}, "hook")
       /\ Top.caller = tokenApprovals[Top.id] /\ Top.to # owners[Top.id]
          => ENABLED ApproveHooked(0)
=============================================================================
