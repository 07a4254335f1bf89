--------------------------- MODULE NotaRefinement ---------------------------
(***************************************************************************)
(* NotaRegistrar implements NotaLedger.  A call that waits for another     *)
(* contract may have changed some books and not others, may have taken     *)
(* tokens it has not booked and booked payments it has not made.  Seen     *)
(* from the ledger it has not acted yet (or, for a withdrawal, has acted   *)
(* in full), so the ledger is the storage without the partial effects of   *)
(* the open calls.                                                         *)
(***************************************************************************)
EXTENDS NotaProperties

Elsewhere(f, amount) == IF f.to = Registrar THEN 0 ELSE amount

\* What frame f has made the registrar hold that the ledger does not know of: a
\* deposit it has not booked, less a payment of a cash that has not ended, and a
\* withdrawal that is booked and not paid.
Ahead(f) ==
    IF f.fn = "cash"
    THEN IF f.at \in {"paid", "finish"} THEN -Elsewhere(f, f.amount - f.fee) ELSE 0
    ELSE Uncredited(f) + (IF f.at = "pay" THEN Elsewhere(f, f.amount - f.fee) ELSE 0)

HeldAhead(frames, t) ==
    Sum([i \in 1 .. Len(frames) |->
            IF frames[i].nota.currency = t THEN Ahead(frames[i]) ELSE 0],
        1 .. Len(frames))

\* What a cash of nota id has taken from its escrow so far.
Taken(frames, id) ==
    Sum([i \in 1 .. Len(frames) |->
            IF frames[i].fn = "cash" /\ frames[i].id = id /\ frames[i].at # "hook"
            THEN frames[i].amount ELSE 0],
        1 .. Len(frames))

\* The ledger that storage s and the open calls `frames` stand for.
View(s, frames) ==
    [owner    |-> s.owners,
     escrow   |-> [id \in Ids |-> s.notas[id].escrowed + Taken(frames, id)],
     currency |-> [id \in Ids |-> s.notas[id].currency],
     hook     |-> [id \in Ids |-> s.notas[id].hooks],
     revenue  |-> s.hookRevenue,
     share    |-> s.protocolRevenue,
     held     |-> [t \in Tokens |-> s.balance[t][Registrar] - HeldAhead(frames, t)]]

Below(i) == [j \in 1 .. i - 1 |-> stack[j]]

HasActed(f) == f.fn \in Withdraws \/ f.at = "received"

\* Seen from outside, every call acts at once and exactly once, or not at all,
\* whatever runs while it waits: NotaRegistrar.sol's operations and withdrawals,
\* with the calls that hooks, tokens and receivers make from inside them.
Ledger == INSTANCE NotaLedger WITH
    Hooks   <- Contracts,
    Owners  <- Address,
    Nobody  <- Zero,
    Amounts <- Uint,
    ledger  <- View(Storage, stack),
    journal <- [i \in 1 .. Depth |->
                   [before |-> View(stack[i].saved, Below(i)),
                    acted  |-> HasActed(stack[i])]]
IsALedger == Ledger!Spec
=============================================================================
