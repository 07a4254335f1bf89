---------------------------- MODULE RegistrarGov ----------------------------
(***************************************************************************)
(* RegistrarGov: what hooks and the protocol have earned and may withdraw, *)
(* the protocol's cut of a hook's withdrawals, and the owner who sets it.  *)
(* None of its functions takes the reentrancy guard.  _contractURI, a text *)
(* that nothing reads back, is left out.                                   *)
(***************************************************************************)
EXTENDS Chain

CONSTANTS
    NewOwner,           \* the constructor's argument
    FeeDenominator,     \* 10000 in the code: fees are in basis points
    MaxProtocolFee      \* MAX_PROTOCOL_FEE, 1000 in the code

ASSUME GovAssumption ==
    /\ NewOwner \in Address
    /\ FeeDenominator \in Nat \ {0}
    /\ MaxProtocolFee \in 0 .. FeeDenominator

VARIABLES
    govOwner,               \* Ownable's _owner, Zero once renounced
    protocolFee,
    hookRevenue,            \* hookRevenue[h][t], not yet withdrawn
    hookTotalRevenue,       \* hookTotalRevenue[h][t], ever withdrawn
    protocolRevenue,        \* protocolRevenue[t], not yet withdrawn
    protocolTotalRevenue    \* protocolTotalRevenue[t], ever earned

govVars == <<govOwner, protocolFee, hookRevenue, hookTotalRevenue,
             protocolRevenue, protocolTotalRevenue>>

-----------------------------------------------------------------------------

GovInit ==
    /\ govOwner = NewOwner
    /\ protocolFee = 0
    /\ hookRevenue = [h \in Contracts |-> [t \in Tokens |-> 0]]
    /\ hookTotalRevenue = [h \in Contracts |-> [t \in Tokens |-> 0]]
    /\ protocolRevenue = [t \in Tokens |-> 0]
    /\ protocolTotalRevenue = [t \in Tokens |-> 0]

\* Mutant: an assignment where the code adds.
CreditHookOverwrites(h, t, amount) ==
    /\ hookRevenue' = [hookRevenue EXCEPT ![h][t] = amount]
    /\ UNCHANGED <<govOwner, protocolFee, hookTotalRevenue,
                   protocolRevenue, protocolTotalRevenue>>

\* _hookRevenue[h][t] += amount, with the compiler's overflow check.
CreditHook(h, t, amount) ==
    /\ hookRevenue[h][t] + amount <= MaxUint
    /\ hookRevenue' = [hookRevenue EXCEPT ![h][t] = @ + amount]
    /\ UNCHANGED <<govOwner, protocolFee, hookTotalRevenue,
                   protocolRevenue, protocolTotalRevenue>>

\* Mutant: the cut is rounded up.
ProtocolCutUp(amount) == (amount * protocolFee + FeeDenominator - 1) \div FeeDenominator

ProtocolCut(amount) == (amount * protocolFee) \div FeeDenominator

\* hookWithdraw up to its token transfer: every book is written before it.
DebitHook(h, t, amount) ==
    LET cut == ProtocolCut(amount) IN
    /\ amount <= hookRevenue[h][t]
    /\ amount * protocolFee <= MaxUint
    /\ protocolRevenue[t] + cut <= MaxUint
    /\ protocolTotalRevenue[t] + cut <= MaxUint
    /\ hookTotalRevenue[h][t] + amount <= MaxUint
    /\ hookRevenue' = [hookRevenue EXCEPT ![h][t] = @ - amount]
    /\ protocolRevenue' = [protocolRevenue EXCEPT ![t] = @ + cut]
    /\ protocolTotalRevenue' = [protocolTotalRevenue EXCEPT ![t] = @ + cut]
    /\ hookTotalRevenue' = [hookTotalRevenue EXCEPT ![h][t] = @ + amount]
    /\ UNCHANGED <<govOwner, protocolFee>>

\* protocolWithdraw up to its token transfer.
DebitProtocol(caller, t, amount) ==
    /\ caller = govOwner
    /\ amount <= protocolRevenue[t]
    /\ protocolRevenue' = [protocolRevenue EXCEPT ![t] = @ - amount]
    /\ UNCHANGED <<govOwner, protocolFee, hookRevenue, hookTotalRevenue,
                   protocolTotalRevenue>>

\* Mutant: no maximum fee.
SetFeeUncapped(caller, newFee) ==
    /\ caller = govOwner
    /\ protocolFee' = newFee
    /\ UNCHANGED <<govOwner, hookRevenue, hookTotalRevenue,
                   protocolRevenue, protocolTotalRevenue>>

SetFee(caller, newFee) ==
    /\ caller = govOwner
    /\ newFee <= MaxProtocolFee
    /\ protocolFee' = newFee
    /\ UNCHANGED <<govOwner, hookRevenue, hookTotalRevenue,
                   protocolRevenue, protocolTotalRevenue>>

\* transferOwnership, and renounceOwnership for newOwner = Zero.
SetGovOwner(caller, newOwner) ==
    /\ caller = govOwner
    /\ govOwner' = newOwner
    /\ UNCHANGED <<protocolFee, hookRevenue, hookTotalRevenue,
                   protocolRevenue, protocolTotalRevenue>>
=============================================================================
