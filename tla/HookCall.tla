------------------------------ MODULE HookCall ------------------------------
(***************************************************************************)
(* How the registrar asks a hook before an operation: Hooks.callHook and   *)
(* Hooks.beforeBurn. A hook runs, may write to its own storage, and        *)
(* returns or fails with any bytes; the library decides from them whether  *)
(* the operation goes on, and with which fee. The operations of the        *)
(* registrar exclude each other, so one call is open at a time; what an    *)
(* operation does after the hook has agreed may still fail, which undoes   *)
(* all of it, what the hook wrote included.                                *)
(***************************************************************************)
EXTENDS Integers, Sequences

CONSTANTS
    Operations,  \* the functions of IHooks that come before an operation
    Nothing,     \* no function
    Burn,        \* beforeBurn, which does not go by callHook
    Cells,       \* values of 4 bytes
    Selector,    \* the selector of each function, a cell
    WordCells,   \* cells in a word of the EVM: 8 there, fewer in an instance
    MaxCalls     \* bound: operations of each kind that are completed

ASSUME HookAssumption ==
    /\ Burn \in Operations
    /\ Nothing \notin Operations
    /\ Selector \in [Operations -> Cells]
    /\ \A f, g \in Operations : Selector[f] = Selector[g] => f = g
    /\ WordCells \in Nat \ {0}
    /\ MaxCalls \in Nat

VARIABLES
    phase,   \* "idle", "asked", "answered", or "agreed"
    op,      \* the hook's function that is called, Nothing between calls
    answer,  \* how that ended: whether it succeeded, and the bytes it gave
    fee,     \* the fee of the operation, the empty word if it has none
    noted,   \* how many calls of each function the hook has kept in its storage
    before,  \* that storage when the call began, or when the last one ended
    done     \* how many operations of each kind the registrar has completed

vars == <<phase, op, answer, fee, noted, before, done>>

Words   == [1 .. WordCells -> Cells]
Answers == [ok : BOOLEAN,
            bytes : UNION {[1 .. n -> Cells] : n \in 0 .. 2 * WordCells}]

NoAnswer == [ok |-> FALSE, bytes |-> <<>>]

Init ==
    /\ phase = "idle"
    /\ op = Nothing
    /\ answer = NoAnswer
    /\ fee = <<>>
    /\ noted = [f \in Operations |-> 0]
    /\ before = noted
    /\ done = noted

-----------------------------------------------------------------------------

\* beforeWrite, beforeFund, ...: the hook is called with its own function.
Asks(f) ==
    /\ phase = "idle"
    /\ phase' = "asked"
    /\ op' = f
    /\ UNCHANGED <<answer, fee, noted, before, done>>

\* A hook that succeeds keeps what it wrote; one that fails does not.
Answered(a) ==
    /\ phase = "asked"
    /\ phase' = "answered"
    /\ answer' = a
    /\ noted' = IF a.ok THEN [noted EXCEPT ![op] = @ + 1] ELSE noted
    /\ UNCHANGED <<op, fee, before, done>>

FirstIs(bytes, f) == Len(bytes) > 0 /\ bytes[1] = Selector[f]

\* Mutant: whether the call succeeded is not looked at.
AcceptedUnchecked ==
    /\ Len(answer.bytes) >= WordCells + 1
    /\ FirstIs(answer.bytes, op)

\* callHook: 36 bytes or more, that begin with the selector.
Accepted ==
    /\ answer.ok
    /\ Len(answer.bytes) >= WordCells + 1
    /\ FirstIs(answer.bytes, op)

\* Mutant: the fee is read from right after the selector.
FeeReadPacked(bytes, memory) ==
    [i \in 1 .. WordCells |->
        IF 1 + i <= Len(bytes) THEN bytes[1 + i] ELSE memory[i]]

\* The word at byte 32 of the answer, which goes on in the memory behind the
\* answer if that is too short.
FeeRead(bytes, memory) ==
    [i \in 1 .. WordCells |->
        IF WordCells + i <= Len(bytes) THEN bytes[WordCells + i] ELSE memory[i]]

CallHook(memory) ==
    /\ phase = "answered"
    /\ op # Burn
    /\ Accepted
    /\ phase' = "agreed"
    /\ fee' = FeeRead(answer.bytes, memory)
    /\ UNCHANGED <<op, answer, noted, before, done>>

\* Mutant: the other functions ask as beforeBurn does, and take no fee.
BeforeBurnForAll ==
    /\ phase = "answered"
    /\ FirstIs(answer.bytes, op)
    /\ phase' = "agreed"
    /\ fee' = <<>>
    /\ UNCHANGED <<op, answer, noted, before, done>>

\* 4 bytes that are the selector, whether the call succeeded or not.
BeforeBurn ==
    /\ phase = "answered"
    /\ op = Burn
    /\ FirstIs(answer.bytes, Burn)
    /\ phase' = "agreed"
    /\ fee' = <<>>
    /\ UNCHANGED <<op, answer, noted, before, done>>

\* What was in memory goes with the call.
Ended ==
    /\ phase' = "idle"
    /\ op' = Nothing
    /\ answer' = NoAnswer
    /\ fee' = <<>>

\* HookFailure, InvalidHookResponse, the hook's own error, a failure of the
\* operation after the hook has agreed, or no gas.
Fails ==
    /\ phase # "idle"
    /\ noted' = before
    /\ Ended
    /\ UNCHANGED <<before, done>>

Completes ==
    /\ phase = "agreed"
    /\ done[op] < MaxCalls   \* bound
    /\ done' = [done EXCEPT ![op] = @ + 1]
    /\ before' = noted
    /\ Ended
    /\ UNCHANGED noted

Next ==
    \/ \E f \in Operations : Asks(f)
    \/ \E a \in Answers : Answered(a)
    \/ \E memory \in Words : CallHook(memory)
    \/ BeforeBurn
    \/ Fails
    \/ Completes

Spec == Init /\ [][Next]_vars

-----------------------------------------------------------------------------

\* Types; a fee is a word, and only a burn has none.
TypeOK ==
    /\ phase \in {"idle", "asked", "answered", "agreed"}
    /\ op \in Operations \cup {Nothing}
    /\ answer \in Answers
    /\ fee \in Words \cup {<<>>}
    /\ phase = "agreed" => (fee = <<>> <=> op = Burn)
    /\ noted \in [Operations -> Nat]
    /\ before \in [Operations -> Nat]
    /\ done \in [Operations -> Nat]

\* Between the calls a hook and the registrar agree on what has happened: the
\* hook's storage counts each operation that was completed and none that
\* failed. Of burns it may have lost some, but counts none that did not happen.
InStep ==
    phase = "idle" =>
        \A f \in Operations :
            /\ noted[f] <= done[f]
            /\ f # Burn => noted[f] = done[f]

\* The answer that abi.encode makes of a selector and a fee.
IsEncoding(bytes, f, w) ==
    /\ FirstIs(bytes, f)
    /\ Len(bytes) = 2 * WordCells
    /\ \A i \in 1 .. WordCells : bytes[WordCells + i] = w[i]

\* A hook written to the interface IHooks, which returns (bytes4, uint256), is
\* charged the fee it named and no other, whatever is left in memory.
FeeAsNamed ==
    phase = "agreed" /\ op # Burn =>
        \A w \in Words : IsEncoding(answer.bytes, op, w) => fee = w

\* The same bytes without padding: 4 of the selector, 32 of the fee.
IsPacked(bytes, f, w) ==
    /\ FirstIs(bytes, f)
    /\ Len(bytes) = WordCells + 1
    /\ \A i \in 1 .. WordCells : bytes[1 + i] = w[i]

\* Hooks.sol asks for 36 bytes (36) and says of them "Load the first 4 bytes
\* (selector) from the result" (49) and "Load the next 32 bytes (uint256 fee) from the
\* result" (51).
FeeFollowsSelector ==
    phase = "agreed" /\ op # Burn =>
        \A w \in Words : IsPacked(answer.bytes, op, w) => fee = w

\* src/src/README.md:8 says that whenever a function is called (the B of
\* WTFCATB is burn) "a Payment Agreement hook is also called so the hook can
\* either revert or update it's storage accordingly."
BurnInStep == phase = "idle" => noted[Burn] = done[Burn]
=============================================================================
