--------------------------- MODULE Create2Factory ---------------------------
(***************************************************************************)
(* ImmutableCreate2Factory, which deploys a contract at an address given   *)
(* by a salt and the contract's init code, and never twice at the same.    *)
(* create2 runs the contract's constructor, which may call the factory     *)
(* again, fail, or destroy the contract that it builds; and a contract     *)
(* that is destroyed leaves an account at which create2 would succeed.     *)
(***************************************************************************)
EXTENDS Integers, Sequences

CONSTANTS
    Users,      \* accounts without code: they start transactions
    Contracts,  \* contracts that call the factory, or are called by constructors
    Zero,       \* address(0)
    Failed,     \* no address: the answer of a call that fails
    Nonces,     \* the last 12 bytes of a salt
    Codes,      \* init codes
    MaxDepth    \* bound: constructors that run at once

Callers   == Users \cup Contracts
Salts     == [owner : Callers \cup {Zero}, nonce : Nonces]

\* CREATE2 addresses: a hash of salt and init code, that is a value for each pair.
Addresses == [salt : Salts, code : Codes]
Target(salt, code) == [salt |-> salt, code |-> code]

ASSUME FactoryAssumption ==
    /\ Zero \notin Callers
    /\ Zero \notin Addresses /\ Failed \notin Addresses \cup {Zero}
    /\ MaxDepth \in Nat

VARIABLES
    account,    \* what is at an address: "none", "building", "live", "doomed", "gone"
    deployed,   \* _deployed
    calls,      \* the calls of safeCreate2 that wait for create2, the innermost last
    result      \* what the last call of safeCreate2 returned, and for which address

vars == <<account, deployed, calls, result>>

\* A contract that destroyed itself is there until its transaction ends.
Present(a) == account[a] \in {"live", "doomed"}
Last == calls[Len(calls)]

Init ==
    /\ account = [a \in Addresses |-> "none"]
    /\ deployed = [a \in Addresses |-> FALSE]
    /\ calls = <<>>
    /\ result = [target |-> Zero, returned |-> Zero]

-----------------------------------------------------------------------------

\* Mutant: anybody may use any salt.
AnySalt(c, salt) == TRUE

ContainsCaller(c, salt) == salt.owner \in {c, Zero}

\* The EVM's condition for create2: no code at the address, and nonce 0.
Vacant(a) == account[a] \in {"none", "gone"}

MayCall(c) == IF calls = <<>> THEN c \in Callers ELSE c \in Contracts

\* Mutant: a check of the account, instead of the factory's record.
SafeCreate2Rebuilds(c, salt, code) ==
    LET a == Target(salt, code) IN
    /\ MayCall(c)
    /\ Len(calls) < MaxDepth
    /\ ContainsCaller(c, salt)
    /\ Vacant(a)
    /\ calls' = Append(calls, [target |-> a, caller |-> c,
                               saved |-> [account |-> account, deployed |-> deployed]])
    /\ account' = [account EXCEPT ![a] = "building"]
    /\ UNCHANGED <<deployed, result>>

\* Mutant: the address is recorded before the contract is there.
SafeCreate2Records(c, salt, code) ==
    LET a == Target(salt, code) IN
    /\ MayCall(c)
    /\ Len(calls) < MaxDepth
    /\ ContainsCaller(c, salt)
    /\ ~deployed[a]
    /\ Vacant(a)
    /\ calls' = Append(calls, [target |-> a, caller |-> c,
                               saved |-> [account |-> account, deployed |-> deployed]])
    /\ account' = [account EXCEPT ![a] = "building"]
    /\ deployed' = [deployed EXCEPT ![a] = TRUE]
    /\ UNCHANGED result

\* safeCreate2 up to the constructor.
SafeCreate2(c, salt, code) ==
    LET a == Target(salt, code) IN
    /\ MayCall(c)
    /\ Len(calls) < MaxDepth   \* bound
    /\ ContainsCaller(c, salt)
    /\ ~deployed[a]
    /\ Vacant(a)
    /\ calls' = Append(calls, [target |-> a, caller |-> c,
                               saved |-> [account |-> account, deployed |-> deployed]])
    /\ account' = [account EXCEPT ![a] = "building"]
    /\ UNCHANGED <<deployed, result>>

\* Mutant: what create2 returned is recorded without a look at it.
ConstructedUnchecked(end) ==
    /\ calls # <<>>
    /\ account' = [account EXCEPT ![Last.target] = "none"]
    /\ deployed' = [a \in Addresses \cup {Zero} |-> a = Zero \/ deployed[a]]
    /\ calls' = [i \in 1 .. Len(calls) - 1 |-> calls[i]]
    /\ result' = [target |-> Last.target, returned |-> Zero]

\* The constructor has ended and left a contract, or one that destroyed
\* itself already; create2 returns the address, which is recorded.
Constructed(end) ==
    /\ calls # <<>>
    /\ account' = [account EXCEPT ![Last.target] = end]
    /\ deployed' = [deployed EXCEPT ![Last.target] = TRUE]
    /\ calls' = [i \in 1 .. Len(calls) - 1 |-> calls[i]]
    /\ result' = [target |-> Last.target, returned |-> Last.target]

\* The constructor fails, create2 returns 0, and the call fails with it: all
\* that was done in it, calls of the factory by the constructor included, is
\* undone.
ConstructorFails ==
    /\ calls # <<>>
    /\ account' = Last.saved.account
    /\ deployed' = Last.saved.deployed
    /\ calls' = [i \in 1 .. Len(calls) - 1 |-> calls[i]]
    /\ result' = [target |-> Last.target, returned |-> Failed]

\* A call that fails at once: a salt of somebody else, an address recorded,
\* or one at which create2 fails.
Refused(c, salt, code) ==
    LET a == Target(salt, code) IN
    /\ MayCall(c)
    /\ \/ ~ContainsCaller(c, salt)
       \/ deployed[a]
       \/ ~Vacant(a)
    /\ result' = [target |-> a, returned |-> Failed]
    /\ UNCHANGED <<account, deployed, calls>>

SelfDestruct(a) ==
    /\ account[a] = "live"
    /\ account' = [account EXCEPT ![a] = "doomed"]
    /\ UNCHANGED <<deployed, calls, result>>

\* At the end of a transaction, what destroyed itself in it goes.
EndTransaction ==
    /\ calls = <<>>
    /\ \E a \in Addresses : account[a] = "doomed"
    /\ account' = [a \in Addresses |-> IF account[a] = "doomed" THEN "gone" ELSE account[a]]
    /\ UNCHANGED <<deployed, calls, result>>

Next ==
    \/ \E c \in Callers, salt \in Salts, code \in Codes :
          SafeCreate2(c, salt, code) \/ Refused(c, salt, code)
    \/ \E end \in {"live", "doomed"} : Constructed(end)
    \/ ConstructorFails
    \/ \E a \in Addresses : SelfDestruct(a)
    \/ EndTransaction

Spec == Init /\ [][Next]_vars

-----------------------------------------------------------------------------

\* findCreate2Address and findCreate2AddressViaHash.
Find(a) == IF deployed[a] THEN Zero ELSE a

AccountType  == [Addresses -> {"none", "building", "live", "doomed", "gone"}]
DeployedType == [Addresses -> BOOLEAN]
CallType ==
    [target : Addresses, caller : Callers,
     saved : [account : AccountType, deployed : DeployedType]]

\* Types of the accounts, the record, and what a failing call brings back.
TypeOK ==
    /\ account \in AccountType
    /\ deployed \in DeployedType
    /\ calls \in Seq(CallType)
    /\ result \in [target : Addresses \cup {Zero},
                   returned : Addresses \cup {Zero, Failed}]

\* At every point of every nesting of constructors, and after failures, the
\* record names exactly the addresses at which a contract was completed, so
\* findCreate2Address gives an address exactly as long as it was never used.
Recorded == \A a \in Addresses : Find(a) = Zero <=> Present(a) \/ account[a] = "gone"

StaysUsed(a) ==
    /\ account[a] = "gone" => account'[a] = "gone"
    /\ Present(a) => account'[a] # "building"

\* Where a contract has been destroyed no other is ever built, though the
\* EVM would allow it, and one that is there is never built over.
NeverRebuilt == [][\A a \in Addresses : StaysUsed(a)]_vars

\* A contract appears only in a call of the account that its salt names, if
\* it names one, also when constructors call for others in between.
OwnSalts ==
    [][\A a \in Addresses : ~deployed[a] /\ deployed'[a] =>
          /\ calls # <<>> /\ Last.target = a
          /\ a.salt.owner \in {Last.caller, Zero}]_vars

\* The comment of safeCreate2 says of what it returns (35-36): "Address of the
\* contract that will be created, or the null address if a contract already
\* exists at that address."
NullIfExists ==
    [][result' # result /\ deployed[result'.target] => result'.returned = Zero]_vars
=============================================================================
