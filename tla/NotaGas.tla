------------------------------ MODULE NotaGas -------------------------------
(***************************************************************************)
(* The registrar's transactions with their gas.  A transaction starts with *)
(* a limited amount, every step of it costs some, and without gas a call   *)
(* can only fail: hooks, tokens and receivers may call as often as they    *)
(* like and still cannot run for ever.                                     *)
(***************************************************************************)
EXTENDS NotaProperties

CONSTANT GasLimit   \* external: the steps that a transaction can pay for

ASSUME GasAssumption == GasLimit \in Nat \ {0}

VARIABLE gas

GasInit == Init /\ gas = GasLimit

Running == stack # <<>>

\* A call from outside starts a transaction.
Starts == ~Running /\ Next /\ gas' = GasLimit

\* The code of a transaction takes a step, or the innermost call fails.
Runs ==
    /\ Running
    /\ \/ gas > 0 /\ Next /\ gas' = gas - 1
       \/ Revert /\ UNCHANGED gas

GasNext == Starts \/ Runs

\* A transaction that was begun is executed to its end: the chain takes no other
\* step before.  Nobody has to start one.
GasSpec == GasInit /\ [][GasNext]_<<vars, gas>> /\ WF_<<vars, gas>>(Runs)

\* Whoever enters the registrar, and whatever runs and fails meanwhile, the guard
\* is free again in the end: no sequence of calls closes the registrar.
GuardFreed == status = "ENTERED" ~> status = "NOT_ENTERED"
=============================================================================
