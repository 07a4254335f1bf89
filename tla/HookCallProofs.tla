--------------------------- MODULE HookCallProofs ---------------------------
(***************************************************************************)
(* The hook's storage and the registrar's stay in step, and the fee        *)
(* charged is the one named, for every set of functions and every size of  *)
(* a word.                                                                 *)
(***************************************************************************)
EXTENDS HookCall, TLAPS

\* The storage of a hook after a call that ended as answer says.
After == IF answer.ok THEN [before EXCEPT ![op] = @ + 1] ELSE before

\* What the hook had written when the call began, or between calls.
BeforeInStep ==
    \A f \in Operations :
        /\ before[f] <= done[f]
        /\ f # Burn => before[f] = done[f]

\* What the hook has written at each phase.
NotedFits ==
    /\ phase \in {"idle", "asked"} => noted = before
    /\ phase \in {"answered", "agreed"} => noted = After
    /\ phase = "agreed" /\ op # Burn => answer.ok

\* The cells of the fee that the answer has are those of the answer.
FeeFits ==
    phase = "agreed" /\ op # Burn =>
        \A i \in 1 .. WordCells :
            WordCells + i <= Len(answer.bytes) => fee[i] = answer.bytes[WordCells + i]

CalledIsFunction == phase # "idle" => op \in Operations

Inv == TypeOK /\ CalledIsFunction /\ BeforeInStep /\ NotedFits /\ FeeFits

LEMMA AnswerIsSequence ==
    ASSUME NEW a \in Answers
    PROVE  /\ a.ok \in BOOLEAN
           /\ Len(a.bytes) \in Nat
           /\ \A i \in 1 .. Len(a.bytes) : a.bytes[i] \in Cells
  <1>1. PICK n \in 0 .. 2 * WordCells : a.bytes \in [1 .. n -> Cells]
    BY DEF Answers
  <1>2. n \in Nat
    BY <1>1, HookAssumption
  <1>3. Len(a.bytes) = n
    BY <1>1, <1>2
  <1> QED
    BY <1>1, <1>2, <1>3 DEF Answers

LEMMA NoAnswerIsAnswer == NoAnswer \in Answers
  <1>1. <<>> \in [1 .. 0 -> Cells]
    OBVIOUS
  <1>2. 0 \in 0 .. 2 * WordCells
    BY HookAssumption
  <1>3. <<>> \in UNION {[1 .. n -> Cells] : n \in 0 .. 2 * WordCells}
    BY <1>1, <1>2
  <1> QED
    BY <1>3 DEF NoAnswer, Answers

LEMMA FeeReadIsWord ==
    ASSUME NEW a \in Answers, NEW memory \in Words
    PROVE  /\ FeeRead(a.bytes, memory) \in Words
           /\ \A i \in 1 .. WordCells :
                 WordCells + i <= Len(a.bytes) =>
                     FeeRead(a.bytes, memory)[i] = a.bytes[WordCells + i]
  <1>1. ASSUME NEW i \in 1 .. WordCells, WordCells + i <= Len(a.bytes)
        PROVE  a.bytes[WordCells + i] \in Cells
    <2>1. WordCells + i \in 1 .. Len(a.bytes)
      BY <1>1, AnswerIsSequence, HookAssumption
    <2> QED
      BY <2>1, AnswerIsSequence
  <1> QED
    BY <1>1 DEF FeeRead, Words

LEMMA WordIsNotEmpty == ASSUME NEW w \in Words PROVE w # <<>>
  <1>1. 1 \in DOMAIN w
    BY HookAssumption DEF Words
  <1> QED
    BY <1>1

LEMMA InvInit == Init => Inv
  <1> SUFFICES ASSUME Init PROVE Inv
    OBVIOUS
  <1> USE DEF Init
  <1>1. TypeOK
    BY NoAnswerIsAnswer DEF TypeOK
  <1>2. CalledIsFunction /\ BeforeInStep /\ NotedFits /\ FeeFits
    BY DEF CalledIsFunction, BeforeInStep, NotedFits, FeeFits
  <1> QED
    BY <1>1, <1>2 DEF Inv

LEMMA InvNext == Inv /\ [Next]_vars => Inv'
  <1> SUFFICES ASSUME Inv, [Next]_vars PROVE Inv'
    OBVIOUS
  <1>t. TypeOK /\ CalledIsFunction /\ BeforeInStep /\ NotedFits /\ FeeFits
    BY DEF Inv
  <1> USE DEF Inv, CalledIsFunction, BeforeInStep, NotedFits, FeeFits, After
  <1>1. ASSUME NEW f \in Operations, Asks(f) PROVE Inv'
    BY <1>t, <1>1 DEF Asks, TypeOK
  <1>2. ASSUME NEW a \in Answers, Answered(a) PROVE Inv'
    BY <1>t, <1>2, AnswerIsSequence DEF Answered, TypeOK
  <1>3. ASSUME NEW memory \in Words, CallHook(memory) PROVE Inv'
    <2>1. /\ fee' \in Words
          /\ \A i \in 1 .. WordCells :
                WordCells + i <= Len(answer.bytes) => fee'[i] = answer.bytes[WordCells + i]
      BY <1>t, <1>3, FeeReadIsWord DEF CallHook, TypeOK
    <2>2. fee' # <<>>
      BY <2>1, WordIsNotEmpty
    <2>3. TypeOK'
      BY <1>t, <1>3, <2>1, <2>2 DEF CallHook, TypeOK
    <2>4. NotedFits' /\ FeeFits' /\ BeforeInStep' /\ CalledIsFunction'
      BY <1>t, <1>3, <2>1 DEF CallHook, Accepted
    <2> QED
      BY <2>3, <2>4
  <1>4. CASE BeforeBurn
    BY <1>t, <1>4 DEF BeforeBurn, TypeOK
  <1>5. CASE Fails
    BY <1>t, <1>5, NoAnswerIsAnswer DEF Fails, Ended, TypeOK
  <1>6. CASE Completes
    <2>1. op \in Operations
      BY <1>t, <1>6 DEF Completes
    <2>2. TypeOK'
      BY <1>t, <1>6, <2>1, NoAnswerIsAnswer DEF Completes, Ended, TypeOK
    <2>3. BeforeInStep'
      <3> SUFFICES ASSUME NEW f \in Operations
                   PROVE  /\ noted[f] <= done'[f]
                          /\ f # Burn => noted[f] = done'[f]
        BY <1>6 DEF Completes
      <3>1. before[f] \in Nat /\ done[f] \in Nat
        BY <1>t DEF TypeOK
      <3>2. noted[f] = IF answer.ok /\ f = op THEN before[f] + 1 ELSE before[f]
        BY <1>t, <1>6, <2>1 DEF Completes, TypeOK
      <3>3. done'[f] = IF f = op THEN done[f] + 1 ELSE done[f]
        BY <1>t, <1>6, <2>1 DEF Completes, TypeOK
      <3>4. f = op /\ f # Burn => answer.ok
        BY <1>t, <1>6 DEF Completes
      <3> QED
        BY <1>t, <3>1, <3>2, <3>3, <3>4
    <2>4. CalledIsFunction' /\ NotedFits' /\ FeeFits'
      BY <1>t, <1>6 DEF Completes, Ended
    <2> QED
      BY <2>2, <2>3, <2>4
  <1>7. CASE UNCHANGED vars
    BY <1>t, <1>7 DEF vars, TypeOK
  <1> QED
    BY <1>1, <1>2, <1>3, <1>4, <1>5, <1>6, <1>7 DEF Next

LEMMA InvCorrect == Spec => []Inv
  BY InvInit, InvNext, PTL DEF Spec

\* Every variable keeps its type: the fee of an accepted call is a word, and the
\* counts are those of operations.
THEOREM CallTypeCorrect == Spec => []TypeOK
  <1>1. Inv => TypeOK
    BY DEF Inv
  <1> QED
    BY <1>1, InvCorrect, PTL

\* Whatever a hook answers and wherever a call fails, the hook's storage has
\* each completed operation but for burns, and none that failed.
THEOREM HooksStayInStep == Spec => []InStep
  <1>1. Inv => InStep
    BY DEF Inv, BeforeInStep, NotedFits, InStep
  <1> QED
    BY <1>1, InvCorrect, PTL

\* A hook that answers as the interface says is charged the fee it named.
THEOREM FeesAsNamed == Spec => []FeeAsNamed
  <1>1. Inv => FeeAsNamed
    <2> SUFFICES ASSUME Inv, phase = "agreed", op # Burn,
                        NEW w \in Words, IsEncoding(answer.bytes, op, w)
                 PROVE  fee = w
      BY DEF FeeAsNamed
    <2>1. fee \in Words
      BY DEF Inv, TypeOK
    <2>2. \A i \in 1 .. WordCells : fee[i] = w[i]
      BY HookAssumption DEF Inv, FeeFits, IsEncoding
    <2>3. fee = [i \in 1 .. WordCells |-> fee[i]]
      BY <2>1 DEF Words
    <2>4. w = [i \in 1 .. WordCells |-> w[i]]
      BY DEF Words
    <2>5. [i \in 1 .. WordCells |-> fee[i]] = [i \in 1 .. WordCells |-> w[i]]
      BY <2>2
    <2> QED
      BY <2>3, <2>4, <2>5
  <1> QED
    BY <1>1, InvCorrect, PTL
=============================================================================
