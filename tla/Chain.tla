------------------------------- MODULE Chain -------------------------------
(***************************************************************************)
(* What the registrar stands on: accounts, ERC-20 tokens, and the stack of *)
(* calls into the registrar that have not returned.  A contract that the   *)
(* registrar has called (a hook, a token that notifies its holders, the    *)
(* receiver of a nota) may call back before it returns, so a frame stops   *)
(* at every external call it makes, and other calls run in between.        *)
(*                                                                         *)
(* Tokens keep their own books honestly (OpenZeppelin's ERC20): they move  *)
(* what they are asked to, or fail.  A missing allowance, a paused token   *)
(* or a blocked account is such a failure; it needs no state here, because *)
(* every call may fail for a reason of its own (Revert in NotaRegistrar).  *)
(***************************************************************************)
EXTENDS Integers, Sequences, FiniteSets

CONSTANTS
    Users,      \* accounts without code: they call, and are never called
    Contracts,  \* accounts with code: hooks, receivers of notas, callers
    Registrar,  \* the registrar's own address
    Zero,       \* address(0)
    Tokens,     \* the ERC-20 tokens, the currencies of the notas
    Endowment,  \* [Callers -> Uint]: what each holds of every token at first
    MaxUint,    \* the largest uint256
    MaxDepth    \* bound: calls into the registrar that are open at once

Callers == Users \cup Contracts
Address == Callers \cup {Registrar}
Uint    == 0 .. MaxUint

ASSUME AddressAssumption ==
    /\ Users \cap Contracts = {}
    /\ Registrar \notin Callers
    /\ Zero \notin Address
    /\ Tokens \cap (Address \cup {Zero}) = {}

\* An address has 160 bits.
ASSUME AccountsAssumption == IsFiniteSet(Contracts)

ASSUME UintAssumption ==
    /\ MaxUint \in Nat
    /\ MaxDepth \in Nat
    /\ Endowment \in [Callers -> Uint]

VARIABLES
    balance,    \* balance[t][a]: what account a holds of token t
    stack       \* the open calls into the registrar, the innermost last

-----------------------------------------------------------------------------

InitialBalance ==
    [t \in Tokens |-> [a \in Address |-> IF a = Registrar THEN 0 ELSE Endowment[a]]]

\* Points at which a frame waits for code that is not the registrar's: for
\* its hook, for a token before and after it moved the amount, for the
\* receiver of a nota.  At "finish" the registrar's own code goes on.
External == {"hook", "pull", "pulled", "forward", "forwarded", "pay", "paid", "received"}
Points   == External \cup {"finish"}

Depth == Len(stack)
Top   == stack[Depth]

\* c may call the registrar now: anybody opens a transaction, and inside
\* one only contracts run, while the registrar waits for them.
MayCall(c) ==
    IF stack = <<>> THEN c \in Callers
    ELSE c \in Contracts /\ Top.at \in External

Open(frame)     == Depth < MaxDepth /\ stack' = Append(stack, frame)
Continue(frame) == stack' = [stack EXCEPT ![Depth] = frame]
Close           == stack' = [i \in 1 .. Depth - 1 |-> stack[i]]

\* The innermost call is one of the functions fns, and has got to point p.
At(fns, p) == stack # <<>> /\ Top.fn \in fns /\ Top.at = p

\* ERC20._transfer.  The code needs no check of the receiver's balance: the
\* endowments of a real token add up to its totalSupply, a uint256.
Move(t, from, to, amount) ==
    /\ to # Zero
    /\ amount <= balance[t][from]
    /\ from # to => balance[t][to] + amount <= MaxUint
    /\ balance' = IF from = to THEN balance
                  ELSE [balance EXCEPT ![t][from] = @ - amount, ![t][to] = @ + amount]
=============================================================================
