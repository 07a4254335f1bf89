------------------------------ MODULE MCBooks -------------------------------
(***************************************************************************)
(* The registrar with two hooks and two tokens, in transactions of limited *)
(* gas: books that are kept apart, and calls that end.                     *)
(***************************************************************************)
EXTENDS NotaGas, TLC

CONSTANTS payer

MCEndowment == payer :> 1 @@ [c \in Contracts |-> 0]
=============================================================================
