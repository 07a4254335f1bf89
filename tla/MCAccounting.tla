---------------------------- MODULE MCAccounting ----------------------------
(***************************************************************************)
(* The registrar with few accounts and some money: amounts, fees, and the  *)
(* calls that run inside other calls.                                      *)
(***************************************************************************)
EXTENDS NotaRefinement, TLC

CONSTANTS payer, hook

MCEndowment == payer :> 2 @@ hook :> 0
=============================================================================
