----------------------------- MODULE NotaLedger -----------------------------
(***************************************************************************)
(* What the registrar promises about money and ownership, seen from        *)
(* outside: a ledger on which every call acts at once.  The calls that     *)
(* have not returned are a journal: each is remembered with the ledger     *)
(* that its failure would bring back.  A call that returns has acted       *)
(* exactly once; one that fails leaves no trace, nor do the calls made     *)
(* inside it.                                                              *)
(***************************************************************************)
EXTENDS Integers, Sequences

CONSTANTS
    Ids,             \* the notas
    Tokens, Hooks,   \* the currencies, and who earns fees
    Owners,          \* who can own a nota
    Nobody,          \* the owner, currency and hook of a nota that does not exist
    Amounts,         \* the amounts of a token
    FeeDenominator,  \* the protocol takes at most
    MaxProtocolFee   \* MaxProtocolFee / FeeDenominator of what a hook withdraws

VARIABLES
    ledger,   \* notas, revenues, and what the registrar holds of each token
    journal   \* the open calls, the innermost last

vars == <<ledger, journal>>

Empty ==
    [owner |-> [id \in Ids |-> Nobody], escrow |-> [id \in Ids |-> 0],
     currency |-> [id \in Ids |-> Nobody], hook |-> [id \in Ids |-> Nobody],
     revenue |-> [h \in Hooks |-> [t \in Tokens |-> 0]],
     share |-> [t \in Tokens |-> 0], held |-> [t \in Tokens |-> 0]]

Init == ledger = Empty /\ journal = <<>>

Exists(id) == ledger.owner[id] # Nobody

-----------------------------------------------------------------------------
\* What a call does to the ledger.  `leaves` is what goes to another account than
\* the registrar.

Write(id, owner, t, h, amount, fee) ==
    /\ ~Exists(id) /\ owner # Nobody
    /\ ledger' = [ledger EXCEPT !.owner[id] = owner, !.escrow[id] = amount,
                                !.currency[id] = t, !.hook[id] = h,
                                !.revenue[h][t] = @ + fee,
                                !.held[t] = @ + amount + fee]

\* Escrow that becomes `escrow`, a fee for the hook, and what comes in or leaves.
Book(id, owner, escrow, fee, in) ==
    /\ Exists(id)
    /\ LET t == ledger.currency[id]
       IN  ledger' = [ledger EXCEPT !.owner[id] = owner, !.escrow[id] = escrow,
                                    !.revenue[ledger.hook[id]][t] = @ + fee,
                                    !.held[t] = @ + in]

Fund(id, amount, fee) ==
    Book(id, ledger.owner[id], ledger.escrow[id] + amount, fee, amount + fee)

Cash(id, amount, fee, leaves) ==
    /\ fee <= amount /\ amount <= ledger.escrow[id] /\ leaves \in {0, amount - fee}
    /\ Book(id, ledger.owner[id], ledger.escrow[id] - amount, fee, -leaves)

\* approve, update, and the transfers, which give the nota another owner.
Charge(id, owner, fee) ==
    /\ fee <= ledger.escrow[id] /\ owner # Nobody
    /\ Book(id, owner, ledger.escrow[id] - fee, fee, 0)

Burn(id) ==
    /\ Exists(id)
    /\ ledger' = [ledger EXCEPT
          !.owner[id] = Nobody, !.escrow[id] = 0,
          !.currency[id] = Nobody, !.hook[id] = Nobody,
          !.revenue[ledger.hook[id]][ledger.currency[id]] = @ + ledger.escrow[id]]

HookWithdraw(h, t, amount, cut, leaves) ==
    /\ amount <= ledger.revenue[h][t] /\ leaves \in {0, amount - cut}
    /\ cut * FeeDenominator <= amount * MaxProtocolFee
    /\ ledger' = [ledger EXCEPT !.revenue[h][t] = @ - amount,
                                !.share[t] = @ + cut, !.held[t] = @ - leaves]

ProtocolWithdraw(t, amount, leaves) ==
    /\ amount <= ledger.share[t] /\ leaves \in {0, amount}
    /\ ledger' = [ledger EXCEPT !.share[t] = @ - amount, !.held[t] = @ - leaves]

\* A guarded call acts, on nota id or a new one.
Acts ==
    \E id \in Ids :
       \/ Burn(id)
       \/ \E amount, fee \in Amounts :
             \/ Fund(id, amount, fee)
             \/ \E leaves \in {0, amount - fee} : Cash(id, amount, fee, leaves)
             \/ \E o \in Owners, t \in Tokens, h \in Hooks :
                   Write(id, o, t, h, amount, fee)
       \/ \E fee \in Amounts, o \in Owners : Charge(id, o, fee)

Withdraws ==
    \E t \in Tokens, amount \in Amounts :
       \/ \E h \in Hooks, cut \in Amounts : \E leaves \in {0, amount - cut} :
             HookWithdraw(h, t, amount, cut, leaves)
       \/ \E leaves \in {0, amount} : ProtocolWithdraw(t, amount, leaves)

-----------------------------------------------------------------------------

Innermost == journal[Len(journal)]
Push(acted) == journal' = Append(journal, [before |-> ledger, acted |-> acted])
Pop == journal' = [i \in 1 .. Len(journal) - 1 |-> journal[i]]

\* A call is made.  A withdrawal acts at once; what follows is its payment.
Open == Push(FALSE) /\ UNCHANGED ledger
OpenWithdrawal == Push(TRUE) /\ Withdraws

\* A call acts and goes on: a safe transfer, before the new owner is told.
ActsEarly ==
    /\ journal # <<>> /\ ~Innermost.acted /\ Acts
    /\ journal' = [journal EXCEPT ![Len(journal)].acted = TRUE]

Close ==
    /\ journal # <<>> /\ Pop
    /\ IF Innermost.acted THEN UNCHANGED ledger ELSE Acts

Fail == journal # <<>> /\ Pop /\ ledger' = Innermost.before

\* Somebody sends tokens to the registrar, which nobody can claim.
Gift ==
    /\ UNCHANGED journal
    /\ \E t \in Tokens, amount \in Amounts :
          ledger' = [ledger EXCEPT !.held[t] = @ + amount]

Next == Open \/ OpenWithdrawal \/ ActsEarly \/ Close \/ Fail \/ Gift

Spec == Init /\ [][Next]_vars
=============================================================================
