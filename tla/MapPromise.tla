----------------------------- MODULE MapPromise -----------------------------
(***************************************************************************)
(* What the contract around an enumerable map promises: a function whose   *)
(* domain is the set of keys, the answer of each call, and an enumeration  *)
(* of the entries in no particular order.                                  *)
(***************************************************************************)
EXTENDS Integers, Sequences, FiniteSets

CONSTANTS
    KeySet, ValueSet,  \* what can be a key, a value
    Indices,           \* the positions that are asked for
    Zero               \* the value answered for an absent key

VARIABLES
    entries,  \* the function
    call      \* the last call: its function, its arguments and its answer, <<>> if it
              \* failed

vars == <<entries, call>>

Answers(fn, args, answer) == call' = <<fn, args, answer>>

Init == entries = <<>> /\ call = <<"none", <<0, 0>>, <<>>>>

set(key, value) ==
    /\ entries' = [k \in DOMAIN entries \cup {key} |->
                      IF k = key THEN value ELSE entries[k]]
    /\ Answers("set", <<key, value>>, <<key \notin DOMAIN entries>>)

remove(key) ==
    /\ entries' = [k \in DOMAIN entries \ {key} |-> entries[k]]
    /\ Answers("remove", <<key, 0>>, <<key \in DOMAIN entries>>)

contains(key) ==
    /\ Answers("contains", <<key, 0>>, <<key \in DOMAIN entries>>)
    /\ UNCHANGED entries

length ==
    /\ Answers("length", <<0, 0>>, <<Cardinality(DOMAIN entries)>>)
    /\ UNCHANGED entries

at(index) ==
    /\ IF index < Cardinality(DOMAIN entries)
       THEN \E key \in DOMAIN entries :
               Answers("at", <<index, 0>>, <<key, entries[key]>>)
       ELSE Answers("at", <<index, 0>>, <<>>)
    /\ UNCHANGED entries

tryGet(key) ==
    /\ Answers("tryGet", <<key, 0>>,
               IF key \in DOMAIN entries THEN <<TRUE, entries[key]>>
                                         ELSE <<FALSE, Zero>>)
    /\ UNCHANGED entries

get(key) ==
    /\ Answers("get", <<key, 0>>,
               IF key \in DOMAIN entries THEN <<entries[key]>> ELSE <<>>)
    /\ UNCHANGED entries

Next ==
    \/ \E key \in KeySet, value \in ValueSet : set(key, value)
    \/ \E key \in KeySet : remove(key) \/ contains(key) \/ tryGet(key) \/ get(key)
    \/ \E index \in Indices : at(index)
    \/ length

Spec == Init /\ [][Next]_vars
=============================================================================
