------------------------------- MODULE ERC721 -------------------------------
(***************************************************************************)
(* The ownership of the notas: OpenZeppelin's ERC721, which NotaRegistrar  *)
(* inherits.  The operators below are its internal functions; the          *)
(* registrar's actions are made of them.                                   *)
(***************************************************************************)
EXTENDS Chain

CONSTANT MaxNotas   \* bound: the number of notas ever written

ASSUME NotasAssumption == MaxNotas \in Nat /\ MaxNotas < MaxUint

Ids == 1 .. MaxNotas

VARIABLES
    owners,             \* _owners[id], Zero if there is no such nota
    nftBalance,         \* _balances[a], the number of notas of a
    tokenApprovals,     \* _tokenApprovals[id], Zero if nobody is approved
    operatorApprovals   \* the pairs <<owner, operator>> approved for all

erc721Vars == <<owners, nftBalance, tokenApprovals, operatorApprovals>>

-----------------------------------------------------------------------------

ERC721Init ==
    /\ owners = [id \in Ids |-> Zero]
    /\ nftBalance = [a \in Address |-> 0]
    /\ tokenApprovals = [id \in Ids |-> Zero]
    /\ operatorApprovals = {}

Exists(id) == owners[id] # Zero

IsApprovedOrOwner(spender, id) ==
    \/ spender = owners[id]
    \/ <<owners[id], spender>> \in operatorApprovals
    \/ spender = tokenApprovals[id]

Mint(to, id) ==
    /\ to # Zero
    /\ ~Exists(id)
    /\ owners' = [owners EXCEPT ![id] = to]
    /\ nftBalance' = [nftBalance EXCEPT ![to] = @ + 1]
    /\ UNCHANGED <<tokenApprovals, operatorApprovals>>

\* Mutant: the approval survives the nota.
BurnNFTKeepsApproval(id) ==
    /\ Exists(id)
    /\ owners' = [owners EXCEPT ![id] = Zero]
    /\ nftBalance' = [nftBalance EXCEPT ![owners[id]] = @ - 1]
    /\ UNCHANGED <<tokenApprovals, operatorApprovals>>

BurnNFT(id) ==
    /\ Exists(id)
    /\ owners' = [owners EXCEPT ![id] = Zero]
    /\ nftBalance' = [nftBalance EXCEPT ![owners[id]] = @ - 1]
    /\ tokenApprovals' = [tokenApprovals EXCEPT ![id] = Zero]
    /\ UNCHANGED operatorApprovals

TransferNFT(from, to, id) ==
    /\ Exists(id)
    /\ owners[id] = from
    /\ to # Zero
    /\ owners' = [owners EXCEPT ![id] = to]
    /\ nftBalance' = IF from = to THEN nftBalance
                     ELSE [nftBalance EXCEPT ![from] = @ - 1, ![to] = @ + 1]
    /\ tokenApprovals' = [tokenApprovals EXCEPT ![id] = Zero]
    /\ UNCHANGED operatorApprovals

\* Mutant: whoever may transfer a nota may also approve.
ApproveNFTByApproved(caller, to, id) ==
    /\ to # owners[id]
    /\ IsApprovedOrOwner(caller, id)
    /\ tokenApprovals' = [tokenApprovals EXCEPT ![id] = to]
    /\ UNCHANGED <<owners, nftBalance, operatorApprovals>>

\* ERC721.approve: the approved address of the nota may not approve another.
ApproveNFT(caller, to, id) ==
    /\ to # owners[id]
    /\ caller = owners[id] \/ <<owners[id], caller>> \in operatorApprovals
    /\ tokenApprovals' = [tokenApprovals EXCEPT ![id] = to]
    /\ UNCHANGED <<owners, nftBalance, operatorApprovals>>

SetOperator(owner, operator, approved) ==
    /\ owner # operator
    /\ operatorApprovals' = IF approved THEN operatorApprovals \cup {<<owner, operator>>}
                            ELSE operatorApprovals \ {<<owner, operator>>}
    /\ UNCHANGED <<owners, nftBalance, tokenApprovals>>
=============================================================================
