----------------------------- MODULE MCHookCall -----------------------------
(***************************************************************************)
(* Three functions of a hook, and words of two cells.                      *)
(***************************************************************************)
EXTENDS HookCall

MCSelector == [f \in Operations |->
    CASE f = "beforeCash" -> 1 [] f = "beforeUpdate" -> 2 [] f = "beforeBurn" -> 3]
=============================================================================
