--------------------------- MODULE HistoryPromise ---------------------------
(***************************************************************************)
(* What a history of checkpoints by block promises: the value that there   *)
(* was at the end of each block, and of the present one as it is now.  It  *)
(* is asked for blocks that have ended; what it answers can never change.  *)
(***************************************************************************)
EXTENDS Integers, Sequences

CONSTANTS
    FirstBlock,    \* the block it begins in
    MaxKey,        \* the last block that can have a checkpoint
    MaxValue,      \* the largest value
    Values,        \* the values that are pushed, too large ones included
    Blocks         \* the blocks that are asked for

VARIABLES
    block,    \* the present block
    history,  \* the value at the end of each block up to it
    call      \* the last call, while it is remembered: its function, its argument and
              \* its answer, <<>> if it failed

vars == <<block, history, call>>

Answers(fn, arg, answer) == call' = <<fn, arg, answer>>

Init ==
    /\ block = FirstBlock /\ history = [b \in 0 .. FirstBlock |-> 0]
    /\ call = <<"none", 0, <<>>>>

Mine ==
    /\ block' = block + 1
    /\ history' = [b \in 0 .. block + 1 |->
                      history[IF b > block THEN block ELSE b]]
    /\ Answers("none", 0, <<>>)

\* The call fails if there is no checkpoint for the block or the value.
Record(fn, arg, value) ==
    IF block <= MaxKey /\ value \in 0 .. MaxValue
    THEN /\ history' = [history EXCEPT ![block] = value]
         /\ Answers(fn, arg, <<history[block], value>>)
         /\ UNCHANGED block
    ELSE Answers(fn, arg, <<>>) /\ UNCHANGED <<block, history>>

push(value) == Record("push", value, value)
add(delta) == Record("add", delta, history[block] + delta)
subtract(delta) == Record("subtract", delta, history[block] - delta)

\* Both functions that look up a block answer the same.
Lookup(fn, b) ==
    /\ Answers(fn, b, IF b < block /\ b <= MaxKey THEN <<history[b]>> ELSE <<>>)
    /\ UNCHANGED <<block, history>>

\* A call that takes some time has begun; the answer of the last one is gone.
Begins == Answers("none", 0, <<>>) /\ UNCHANGED <<block, history>>

latest == Answers("latest", 0, <<history[block]>>) /\ UNCHANGED <<block, history>>

Next ==
    \/ Mine \/ latest \/ Begins
    \/ \E v \in Values : push(v) \/ add(v) \/ subtract(v)
    \/ \E b \in Blocks, fn \in {"getAtBlock", "getAtProbablyRecentBlock"} :
          Lookup(fn, b)

Spec == Init /\ [][Next]_vars
=============================================================================
