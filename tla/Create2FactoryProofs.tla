------------------------ MODULE Create2FactoryProofs ------------------------
(***************************************************************************)
(* The factory's record is exact and no address is built at twice, however *)
(* constructors nest and fail.  A failing call brings back an account and  *)
(* a record of the past, so the invariant speaks of every saved one, and   *)
(* of what cannot have changed since it was saved.                         *)
(***************************************************************************)
EXTENDS Create2Factory, TLAPS

Used == {"live", "doomed", "gone"}

\* The record `dep` names the addresses used in `acc`.
Exact(acc, dep) == \A a \in Addresses : dep[a] <=> acc[a] \in Used

\* What holds of an address in `old` and is still so in `new`, a later state
\* in which no call that was open in `old` has ended.
Kept(old, new) ==
    \A a \in Addresses :
       /\ old[a] = "building" => new[a] = "building"
       /\ old[a] = "gone" <=> new[a] = "gone"
       /\ old[a] \in Used => new[a] \in Used

Saved(cs, i) == cs[i].saved.account

\* The calls cs, innermost last, with account acc in storage.
CallsFit(cs, acc) ==
    \A i \in 1 .. Len(cs) :
       /\ Exact(Saved(cs, i), cs[i].saved.deployed)
       /\ Kept(Saved(cs, i), acc)
       /\ Saved(cs, i)[cs[i].target] = "none"
       /\ acc[cs[i].target] = "building"
       /\ cs[i].target.salt.owner \in {cs[i].caller, Zero}
       /\ \A j \in 1 .. Len(cs) : i < j =>
             /\ Kept(Saved(cs, i), Saved(cs, j))
             /\ Saved(cs, j)[cs[i].target] = "building"

Inv ==
    /\ TypeOK
    /\ Exact(account, deployed)
    /\ CallsFit(calls, account)

Rest(cs) == [i \in 1 .. Len(cs) - 1 |-> cs[i]]

-----------------------------------------------------------------------------

\* An address is a salt and a code, and a salt names somebody or nobody.
LEMMA TargetTyped ==
    ASSUME NEW salt \in Salts, NEW code \in Codes
    PROVE  Target(salt, code) \in Addresses /\ Target(salt, code).salt = salt
  BY DEF Target, Addresses

\* A call that opens: one frame more, whose saved storage is the present one.
LEMMA AppendCall ==
    ASSUME NEW c, calls \in Seq(CallType), calls' = Append(calls, c)
    PROVE  /\ Len(calls') = Len(calls) + 1 /\ Len(calls) \in Nat
           /\ calls'[Len(calls) + 1] = c
           /\ \A i \in 1 .. Len(calls) : calls'[i] = calls[i]
  OBVIOUS

\* The calls below the innermost one, once it has ended.
LEMMA RestOfCalls ==
    ASSUME calls \in Seq(CallType), calls # <<>>, calls' = Rest(calls)
    PROVE  /\ Len(calls) \in Nat \ {0} /\ Len(calls') = Len(calls) - 1
           /\ \A i \in 1 .. Len(calls) - 1 : calls'[i] = calls[i]
           /\ calls' \in Seq(CallType)
           /\ Last \in CallType
<1>1. Len(calls) \in Nat \ {0} /\ Last \in CallType
  BY DEF Last
<1>2. \A i \in 1 .. Len(calls) - 1 : calls[i] \in CallType
  BY <1>1
<1>3. Rest(calls) \in Seq(CallType) /\ Len(Rest(calls)) = Len(calls) - 1
  <2>1. Len(calls) - 1 \in Nat
    BY <1>1
  <2>2. Rest(calls) \in [1 .. Len(calls) - 1 -> CallType]
    BY <1>2 DEF Rest
  <2> QED BY <2>1, <2>2
<1> QED BY <1>1, <1>3 DEF Rest

LEMMA CallTyped ==
    ASSUME calls \in Seq(CallType), NEW i \in 1 .. Len(calls)
    PROVE  /\ calls[i] \in CallType /\ calls[i].target \in Addresses
           /\ calls[i].saved.account \in AccountType
           /\ calls[i].saved.deployed \in DeployedType
<1>1. calls[i] \in CallType
  OBVIOUS
<1> QED BY <1>1 DEF CallType

LEMMA InitInv == Init => Inv
<1> SUFFICES ASSUME Init PROVE Inv
  OBVIOUS
<1>1. TypeOK
  BY DEF Init, TypeOK, AccountType, DeployedType
<1>2. Exact(account, deployed)
  BY DEF Init, Exact, Used
<1>3. CallsFit(calls, account)
  BY DEF Init, CallsFit
<1> QED BY <1>1, <1>2, <1>3 DEF Inv

\* The contract to be built is at an address that was never used.
LEMMA SafeCreate2Inv ==
    ASSUME Inv, NEW c \in Callers, NEW salt \in Salts, NEW code \in Codes,
           SafeCreate2(c, salt, code)
    PROVE  /\ Inv' /\ deployed' = deployed
           /\ account[Target(salt, code)] = "none"
<1> DEFINE a == Target(salt, code)
           f == [target |-> a, caller |-> c,
                 saved |-> [account |-> account, deployed |-> deployed]]
<1>1. a \in Addresses /\ a.salt = salt
  BY TargetTyped
<1>2. /\ calls' = Append(calls, f) /\ account' = [account EXCEPT ![a] = "building"]
      /\ deployed' = deployed /\ result' = result
      /\ ~deployed[a] /\ account[a] \in {"none", "gone"} /\ salt.owner \in {c, Zero}
  BY DEF SafeCreate2, Vacant, ContainsCaller
<1>3. f \in CallType /\ f.target = a /\ f.caller = c /\ f.saved.account = account
      /\ f.saved.deployed = deployed
  BY <1>1 DEF CallType, Inv, TypeOK
<1> HIDE DEF a, f
<1>4. account[a] = "none"
  BY <1>1, <1>2 DEF Inv, Exact, Used
<1>5. /\ account' \in AccountType
      /\ \A x \in Addresses : account'[x] = IF x = a THEN "building" ELSE account[x]
  BY <1>1, <1>2 DEF Inv, TypeOK, AccountType
<1>6. TypeOK'
  BY <1>2, <1>3, <1>5 DEF Inv, TypeOK
<1>7. Exact(account', deployed')
  BY <1>2, <1>4, <1>5 DEF Inv, Exact, Used
<1>8. Kept(account, account')
  BY <1>4, <1>5 DEF Kept, Used
<1>9. \A old : Kept(old, account) => Kept(old, account')
  BY <1>8 DEF Kept
<1>10. /\ Len(calls') = Len(calls) + 1 /\ Len(calls) \in Nat
       /\ calls'[Len(calls) + 1] = f
       /\ \A i \in 1 .. Len(calls) : calls'[i] = calls[i]
  BY <1>2, AppendCall DEF Inv, TypeOK
<1>11. \A i \in 1 .. Len(calls) : calls[i].target \in Addresses
  BY CallTyped DEF Inv, TypeOK
<1>12. CallsFit(calls', account')
  <2> SUFFICES ASSUME NEW i \in 1 .. Len(calls')
               PROVE  /\ Exact(Saved(calls', i), calls'[i].saved.deployed)
                      /\ Kept(Saved(calls', i), account')
                      /\ Saved(calls', i)[calls'[i].target] = "none"
                      /\ account'[calls'[i].target] = "building"
                      /\ calls'[i].target.salt.owner \in {calls'[i].caller, Zero}
                      /\ \A j \in 1 .. Len(calls') : i < j =>
                            /\ Kept(Saved(calls', i), Saved(calls', j))
                            /\ Saved(calls', j)[calls'[i].target] = "building"
    BY DEF CallsFit
  <2>1. CASE i = Len(calls) + 1
    BY <1>1, <1>2, <1>3, <1>4, <1>5, <1>8, <1>10, <2>1 DEF Inv, Saved
  <2>2. CASE i \in 1 .. Len(calls)
    <3>1. calls'[i] = calls[i] /\ Saved(calls', i) = Saved(calls, i)
      BY <1>10, <2>2 DEF Saved
    <3>2. /\ Exact(Saved(calls, i), calls[i].saved.deployed)
          /\ Kept(Saved(calls, i), account)
          /\ Saved(calls, i)[calls[i].target] = "none"
          /\ account[calls[i].target] = "building"
          /\ calls[i].target.salt.owner \in {calls[i].caller, Zero}
          /\ \A j \in 1 .. Len(calls) : i < j =>
                /\ Kept(Saved(calls, i), Saved(calls, j))
                /\ Saved(calls, j)[calls[i].target] = "building"
      BY <2>2 DEF Inv, CallsFit
    <3>3. account'[calls[i].target] = "building"
      BY <1>5, <1>11, <2>2, <3>2
    <3>4. ASSUME NEW j \in 1 .. Len(calls'), i < j
          PROVE  /\ Kept(Saved(calls', i), Saved(calls', j))
                 /\ Saved(calls', j)[calls'[i].target] = "building"
      <4>1. CASE j = Len(calls) + 1
        BY <1>3, <1>10, <3>1, <3>2, <4>1 DEF Saved
      <4>2. CASE j \in 1 .. Len(calls)
        BY <1>10, <3>1, <3>2, <3>4, <4>2 DEF Saved
      <4> QED BY <1>10, <4>1, <4>2
    <3> QED BY <1>9, <3>1, <3>2, <3>3, <3>4
  <2> QED BY <1>10, <2>1, <2>2
<1> QED BY <1>2, <1>4, <1>6, <1>7, <1>12 DEF Inv, a

\* Ending the innermost call with account acc in storage: the calls below fit
\* acc if it agrees with what the innermost call saved, but for its target.
LEMMA EndCall ==
    ASSUME Inv, calls # <<>>, calls' = Rest(calls), NEW acc,
           \A a \in Addresses : a # Last.target =>
              /\ Last.saved.account[a] = "building" => acc[a] = "building"
              /\ Last.saved.account[a] = "gone" <=> acc[a] = "gone"
              /\ Last.saved.account[a] \in Used => acc[a] \in Used,
           acc[Last.target] # "gone"
    PROVE  CallsFit(calls', acc)
<1> DEFINE n == Len(calls)
<1>1. /\ n \in Nat \ {0} /\ Len(calls') = n - 1 /\ Last \in CallType
      /\ \A i \in 1 .. n - 1 : calls'[i] = calls[i]
  BY RestOfCalls DEF Inv, TypeOK
<1>2. /\ Saved(calls, n) = Last.saved.account /\ calls[n] = Last
      /\ Saved(calls, n)[Last.target] = "none"
      /\ Last.target \in Addresses /\ Last.saved.account \in AccountType
  BY <1>1 DEF Inv, CallsFit, Saved, Last, CallType
<1> SUFFICES ASSUME NEW i \in 1 .. n - 1
             PROVE  /\ Exact(Saved(calls, i), calls[i].saved.deployed)
                    /\ Kept(Saved(calls, i), acc)
                    /\ Saved(calls, i)[calls[i].target] = "none"
                    /\ acc[calls[i].target] = "building"
                    /\ calls[i].target.salt.owner \in {calls[i].caller, Zero}
                    /\ \A j \in 1 .. n - 1 : i < j =>
                          /\ Kept(Saved(calls, i), Saved(calls, j))
                          /\ Saved(calls, j)[calls[i].target] = "building"
  BY <1>1 DEF CallsFit, Saved
<1>3. /\ Exact(Saved(calls, i), calls[i].saved.deployed)
      /\ Saved(calls, i)[calls[i].target] = "none"
      /\ calls[i].target.salt.owner \in {calls[i].caller, Zero}
      /\ \A j \in 1 .. n : i < j =>
            /\ Kept(Saved(calls, i), Saved(calls, j))
            /\ Saved(calls, j)[calls[i].target] = "building"
  BY <1>1 DEF Inv, CallsFit
<1>4. /\ Kept(Saved(calls, i), Saved(calls, n))
      /\ Saved(calls, n)[calls[i].target] = "building"
      /\ calls[i].target \in Addresses
  BY <1>1, <1>3, CallTyped DEF Inv, TypeOK
<1>5. Kept(Saved(calls, i), acc)
  BY <1>2, <1>4 DEF Kept, Used
<1>6. acc[calls[i].target] = "building"
  BY <1>2, <1>4
<1> QED BY <1>1, <1>3, <1>5, <1>6
\* The contract is there and recorded.
LEMMA ConstructedInv ==
    ASSUME Inv, NEW end \in {"live", "doomed"}, Constructed(end)
    PROVE  /\ Inv' /\ Last.target \in Addresses /\ account[Last.target] = "building"
           /\ Last.target.salt.owner \in {Last.caller, Zero}
<1> DEFINE n == Len(calls)
           t == Last.target
<1>1. /\ calls # <<>> /\ calls' = Rest(calls)
      /\ account' = [account EXCEPT ![t] = end] /\ deployed' = [deployed EXCEPT ![t] = TRUE]
      /\ result' = [target |-> t, returned |-> t]
  BY DEF Constructed, Rest
<1>2. /\ n \in Nat \ {0} /\ calls[n] = Last /\ calls' \in Seq(CallType)
      /\ t \in Addresses /\ Last.saved.account \in AccountType
  BY <1>1, RestOfCalls, CallTyped DEF Inv, TypeOK, Last
<1>3. /\ Kept(Last.saved.account, account) /\ account[t] = "building"
      /\ t.salt.owner \in {Last.caller, Zero}
  BY <1>2 DEF Inv, CallsFit, Saved
<1> HIDE DEF n, t
<1>4. /\ account' \in AccountType /\ deployed' \in DeployedType
      /\ \A x \in Addresses : account'[x] = IF x = t THEN end ELSE account[x]
      /\ \A x \in Addresses : deployed'[x] = IF x = t THEN TRUE ELSE deployed[x]
  BY <1>1, <1>2 DEF Inv, TypeOK, AccountType, DeployedType
<1>5. TypeOK'
  BY <1>1, <1>2, <1>4 DEF TypeOK
<1>6. Exact(account', deployed')
  BY <1>4 DEF Inv, Exact, Used
<1>7. CallsFit(calls', account')
  <2>1. account'[Last.target] # "gone"
    BY <1>2, <1>4 DEF t
  <2>2. \A a \in Addresses : a # Last.target =>
           /\ Last.saved.account[a] = "building" => account'[a] = "building"
           /\ Last.saved.account[a] = "gone" <=> account'[a] = "gone"
           /\ Last.saved.account[a] \in Used => account'[a] \in Used
    BY <1>3, <1>4 DEF Kept, t
  <2> QED BY <1>1, <2>1, <2>2, EndCall
<1> QED BY <1>2, <1>3, <1>5, <1>6, <1>7 DEF Inv, t

\* What was saved is what held, and the calls below fit it.
LEMMA ConstructorFailsInv ==
    ASSUME Inv, ConstructorFails
    PROVE  Inv' /\ Kept(account', account) /\ Exact(account', deployed')
<1> DEFINE n == Len(calls)
           t == Last.target
<1>1. /\ calls # <<>> /\ calls' = Rest(calls)
      /\ account' = Last.saved.account /\ deployed' = Last.saved.deployed
      /\ result' = [target |-> t, returned |-> Failed]
  BY DEF ConstructorFails, Rest
<1>2. /\ n \in Nat \ {0} /\ calls[n] = Last /\ calls' \in Seq(CallType)
      /\ t \in Addresses /\ account' \in AccountType /\ deployed' \in DeployedType
  BY <1>1, RestOfCalls, CallTyped DEF Inv, TypeOK, Last
<1>3. /\ Kept(Last.saved.account, account) /\ Last.saved.account[t] = "none"
      /\ Exact(Last.saved.account, Last.saved.deployed)
  BY <1>2 DEF Inv, CallsFit, Saved
<1>4. TypeOK'
  BY <1>1, <1>2 DEF TypeOK
<1>5. CallsFit(calls', account')
  BY <1>1, <1>3, EndCall
<1> QED BY <1>1, <1>3, <1>4, <1>5 DEF Inv

\* Contracts go, and the calls that are open stay as they are.
LEMMA DestructionInv ==
    ASSUME Inv, (\E a \in Addresses : SelfDestruct(a)) \/ EndTransaction
    PROVE  /\ Inv' /\ deployed' = deployed
           /\ \A a \in Addresses : account'[a] = account[a]
                  \/ (account[a] = "live" /\ account'[a] = "doomed")
                  \/ (account[a] = "doomed" /\ account'[a] = "gone" /\ calls = <<>>)
<1>1. /\ UNCHANGED <<deployed, calls, result>> /\ account' \in AccountType
      /\ \A a \in Addresses : account'[a] = account[a]
             \/ (account[a] = "live" /\ account'[a] = "doomed")
             \/ (account[a] = "doomed" /\ account'[a] = "gone" /\ calls = <<>>)
  <2>1. CASE EndTransaction
    BY <2>1 DEF EndTransaction, Inv, TypeOK, AccountType
  <2>2. ASSUME NEW a \in Addresses, SelfDestruct(a)
        PROVE  /\ UNCHANGED <<deployed, calls, result>> /\ account' \in AccountType
               /\ \A x \in Addresses : account'[x] = account[x]
                      \/ (account[x] = "live" /\ account'[x] = "doomed")
    BY <2>2 DEF SelfDestruct, Inv, TypeOK, AccountType
  <2> QED BY <2>1, <2>2
<1>2. TypeOK'
  BY <1>1 DEF Inv, TypeOK
<1>3. Exact(account', deployed')
  BY <1>1 DEF Inv, Exact, Used
<1>4. CallsFit(calls', account')
  <2>1. CASE calls = <<>>
    BY <1>1, <2>1 DEF CallsFit
  <2>2. CASE calls # <<>>
    <3>1. \A i \in 1 .. Len(calls) : calls[i].target \in Addresses
      BY CallTyped DEF Inv, TypeOK
    <3>2. \A old : Kept(old, account) => Kept(old, account')
      BY <1>1, <2>2 DEF Kept, Used
    <3>3. \A a \in Addresses : account[a] = "building" => account'[a] = "building"
      BY <1>1
    <3>4. calls' = calls
      BY <1>1
    <3> QED BY <3>1, <3>2, <3>3, <3>4 DEF Inv, CallsFit, Saved
  <2> QED BY <2>1, <2>2
<1> QED BY <1>1, <1>2, <1>3, <1>4 DEF Inv
\* What one step does to accounts and record, and that it keeps the invariant.
LEMMA StepInv ==
    ASSUME Inv, Next
    PROVE  /\ Inv'
           /\ \A a \in Addresses :
                 /\ account[a] = "gone" => account'[a] = "gone"
                 /\ Present(a) => account'[a] # "building"
                 /\ ~deployed[a] /\ deployed'[a] =>
                       /\ calls # <<>> /\ Last.target = a
                       /\ a.salt.owner \in {Last.caller, Zero}
<1>1. ASSUME NEW c \in Callers, NEW salt \in Salts, NEW code \in Codes,
             SafeCreate2(c, salt, code)
      PROVE  /\ Inv' /\ deployed' = deployed
             /\ \A a \in Addresses : account'[a] # account[a] => account[a] = "none"
  <2>1. /\ Inv' /\ deployed' = deployed /\ account[Target(salt, code)] = "none"
    BY <1>1, SafeCreate2Inv
  <2>2. account' = [account EXCEPT ![Target(salt, code)] = "building"]
    BY <1>1 DEF SafeCreate2
  <2> QED BY <2>1, <2>2 DEF Inv, TypeOK, AccountType
<1>2. ASSUME NEW c \in Callers, NEW salt \in Salts, NEW code \in Codes,
             Refused(c, salt, code)
      PROVE  Inv' /\ UNCHANGED <<account, deployed, calls>>
  <2>1. Target(salt, code) \in Addresses
    BY TargetTyped
  <2>2. /\ UNCHANGED <<account, deployed, calls>>
        /\ result' = [target |-> Target(salt, code), returned |-> Failed]
    BY <1>2 DEF Refused
  <2>3. TypeOK'
    BY <2>1, <2>2 DEF Inv, TypeOK
  <2> QED BY <2>2, <2>3 DEF Inv
<1>3. ASSUME NEW end \in {"live", "doomed"}, Constructed(end)
      PROVE  /\ Inv' /\ calls # <<>> /\ account[Last.target] = "building"
             /\ Last.target.salt.owner \in {Last.caller, Zero}
             /\ \A a \in Addresses : a # Last.target =>
                   account'[a] = account[a] /\ deployed'[a] = deployed[a]
             /\ account'[Last.target] # "building"
  <2>1. /\ Inv' /\ Last.target \in Addresses /\ account[Last.target] = "building"
        /\ Last.target.salt.owner \in {Last.caller, Zero}
    BY <1>3, ConstructedInv
  <2>2. /\ calls # <<>> /\ account' = [account EXCEPT ![Last.target] = end]
        /\ deployed' = [deployed EXCEPT ![Last.target] = TRUE]
    BY <1>3 DEF Constructed
  <2> HIDE DEF Last
  <2> QED BY <2>1, <2>2 DEF Inv, TypeOK, AccountType, DeployedType
<1>4. CASE ConstructorFails
  <2>1. Inv' /\ Kept(account', account) /\ Exact(account', deployed')
    BY <1>4, ConstructorFailsInv
  <2> QED BY <2>1 DEF Inv, Exact, Kept, Used, Present
<1>5. CASE (\E a \in Addresses : SelfDestruct(a)) \/ EndTransaction
  <2>1. /\ Inv' /\ deployed' = deployed
        /\ \A a \in Addresses : account'[a] = account[a]
               \/ (account[a] = "live" /\ account'[a] = "doomed")
               \/ (account[a] = "doomed" /\ account'[a] = "gone" /\ calls = <<>>)
    BY <1>5, DestructionInv
  <2> QED BY <2>1 DEF Present
<1>6. CASE \E c \in Callers, salt \in Salts, code \in Codes : SafeCreate2(c, salt, code)
  BY <1>1, <1>6 DEF Present
<1>7. CASE \E c \in Callers, salt \in Salts, code \in Codes : Refused(c, salt, code)
  BY <1>2, <1>7 DEF Present
<1>8. CASE \E end \in {"live", "doomed"} : Constructed(end)
  BY <1>3, <1>8 DEF Present
<1> QED BY <1>4, <1>5, <1>6, <1>7, <1>8 DEF Next

LEMMA StutterInv == Inv /\ UNCHANGED vars => Inv'
  BY DEF Inv, TypeOK, vars

LEMMA InvAlways == Spec => []Inv
<1>1. Inv /\ [Next]_vars => Inv'
  BY StepInv, StutterInv
<1> QED BY InitInv, <1>1, PTL DEF Spec

-----------------------------------------------------------------------------

\* Every variable keeps its type, through nested constructors of any depth.
THEOREM FactoryTypeCorrect == Spec => []TypeOK
<1>1. Inv => TypeOK
  BY DEF Inv
<1> QED BY <1>1, InvAlways, PTL

\* The record, and so findCreate2Address, is exact in every state: a contract
\* was completed at an address if and only if the factory says so.
THEOREM RecordExact == Spec => []Recorded
<1>1. Inv => Recorded
  BY FactoryAssumption DEF Inv, Exact, Used, Recorded, Find, Present
<1> QED BY <1>1, InvAlways, PTL

\* No address is built at again, neither over a contract that is there nor
\* where one destroyed itself.
THEOREM NoRedeployment == Spec => NeverRebuilt
<1> DEFINE Step == \A a \in Addresses : StaysUsed(a)
<1>1. Inv /\ [Next]_vars => [Step]_vars
  BY StepInv DEF StaysUsed
<1>2. NeverRebuilt <=> [][Step]_vars
  BY DEF NeverRebuilt
<1> HIDE DEF Step
<1> QED BY <1>1, <1>2, InvAlways, PTL DEF Spec

\* A salt that names an account is used in that account's calls only.
THEOREM SaltsProtected == Spec => OwnSalts
<1>1. Inv /\ [Next]_vars =>
         [\A a \in Addresses : ~deployed[a] /\ deployed'[a] =>
             /\ calls # <<>> /\ Last.target = a
             /\ a.salt.owner \in {Last.caller, Zero}]_vars
  BY StepInv
<1> QED BY <1>1, InvAlways, PTL DEF Spec, OwnSalts
=============================================================================
