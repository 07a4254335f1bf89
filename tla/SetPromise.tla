----------------------------- MODULE SetPromise -----------------------------
(***************************************************************************)
(* What the contract around an enumerable set promises: a set, the answer  *)
(* of each call, and an enumeration in no particular order.                *)
(***************************************************************************)
EXTENDS Integers, Sequences, FiniteSets, SequencesExt

CONSTANTS
    Elements,  \* what can be a member
    Indices    \* the positions that are asked for

VARIABLES
    members,  \* the set
    call      \* the last call: its function, its argument and its answer, <<>> if it
              \* failed

vars == <<members, call>>

\* The call of `fn` with `arg` answers `answer`.
Answers(fn, arg, answer) == call' = <<fn, arg, answer>>

Init == members = {} /\ call = <<"none", 0, <<>>>>

add(value) ==
    /\ members' = members \cup {value}
    /\ Answers("add", value, <<value \notin members>>)

remove(value) ==
    /\ members' = members \ {value}
    /\ Answers("remove", value, <<value \in members>>)

contains(value) ==
    /\ Answers("contains", value, <<value \in members>>)
    /\ UNCHANGED members

length ==
    /\ Answers("length", 0, <<Cardinality(members)>>)
    /\ UNCHANGED members

at(index) ==
    /\ IF index < Cardinality(members)
       THEN \E value \in members : Answers("at", index, <<value>>)
       ELSE Answers("at", index, <<>>)
    /\ UNCHANGED members

values ==
    /\ \E order \in SetToSeqs(members) : Answers("values", 0, order)
    /\ UNCHANGED members

Next ==
    \/ \E value \in Elements : add(value) \/ remove(value) \/ contains(value)
    \/ \E index \in Indices : at(index)
    \/ length \/ values

Spec == Init /\ [][Next]_vars
=============================================================================
