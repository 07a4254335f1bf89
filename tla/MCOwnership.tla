---------------------------- MODULE MCOwnership -----------------------------
(***************************************************************************)
(* The registrar with more accounts and no money: who owns a nota, who may *)
(* move it, and what can change while a hook or a receiver runs.           *)
(***************************************************************************)
EXTENDS NotaProperties

MCEndowment == [c \in Callers |-> 0]
=============================================================================
