----------------------------- MODULE TraceMock -----------------------------
(***************************************************************************)
(* The contracts Checkpoints160Mock and Checkpoints224Mock of              *)
(* CheckpointsMock.js: a history whose caller chooses the keys.  The       *)
(* types of its keys and values are as wide as its arguments, so nothing   *)
(* is cast.  A lookup runs as long as its search does.                     *)
(***************************************************************************)
EXTENDS Checkpoints, FiniteSets

CONSTANTS MaxKey, MaxValue

TraceAssumption == MaxKey \in Nat /\ MaxValue \in Nat

VARIABLES
    checkpoints,  \* _totalCheckpoints
    search,       \* the search that runs, <<>> if none does
    asked,        \* the function it is made for
    call          \* the last call, while it is remembered: its function, its argument
                  \* and its answer, <<>> if it failed

vars == <<checkpoints, search, asked, call>>

Idle == search = <<>>

Answers(fn, arg, answer) == call' = <<fn, arg, answer>>

Init ==
    /\ checkpoints = <<>> /\ search = <<>> /\ asked = "none"
    /\ call = <<"none", 0, <<>>>>

push(key, value) ==
    /\ Idle
    /\ IF Insertable(checkpoints, key)
       THEN /\ checkpoints' = Insert(checkpoints, key, value)
            /\ Answers("push", key, Inserted(checkpoints, value))
       ELSE Answers("push", key, <<>>) /\ UNCHANGED checkpoints
    /\ UNCHANGED <<search, asked>>

View(fn, answer) ==
    /\ Idle /\ Answers(fn, 0, answer)
    /\ UNCHANGED <<checkpoints, search, asked>>

latest == View("latest", <<Latest(checkpoints)>>)
latestCheckpoint == View("latestCheckpoint", LatestCheckpoint(checkpoints))
length == View("length", <<Len(checkpoints)>>)

Begins(fn, key) ==
    /\ Idle
    /\ search' = Whole(checkpoints, key) /\ asked' = fn
    /\ Answers("none", 0, <<>>)
    /\ UNCHANGED checkpoints

lowerLookup(key) == Begins("lowerLookup", key)
upperLookup(key) == Begins("upperLookup", key)

Iterate ==
    /\ ~Idle /\ Searching(search)
    /\ search' = IF asked = "lowerLookup" THEN LowerStep(checkpoints, search)
                                          ELSE UpperStep(checkpoints, search)
    /\ UNCHANGED <<checkpoints, asked, call>>

Returns ==
    /\ ~Idle /\ ~Searching(search)
    /\ Answers(asked, search.key,
               <<IF asked = "lowerLookup" THEN LowerValue(checkpoints, search)
                                          ELSE UpperValue(checkpoints, search)>>)
    /\ search' = <<>> /\ asked' = "none"
    /\ UNCHANGED checkpoints

Next ==
    \/ \E key \in 0 .. MaxKey :
          \/ lowerLookup(key) \/ upperLookup(key)
          \/ \E value \in 0 .. MaxValue : push(key, value)
    \/ latest \/ latestCheckpoint \/ length
    \/ Iterate \/ Returns

\* A call that runs is executed to its end.
Fairness == WF_vars(Iterate \/ Returns)

Spec == Init /\ [][Next]_vars
FairSpec == Spec /\ Fairness

-----------------------------------------------------------------------------

Key(i) == checkpoints[i].key
Positions == 1 .. Len(checkpoints)

\* Every variable has its type, and a search its bounds inside the array.
TypeOK ==
    /\ checkpoints \in Seq([key : 0 .. MaxKey, value : 0 .. MaxValue])
    /\ ~Idle => /\ search.key \in 0 .. MaxKey /\ search.high \in 0 .. Len(checkpoints)
                /\ search.low \in 0 .. search.high

\* What the lookups are for: the first checkpoint from a key on, and the last one
\* up to it, or 0.
FirstFrom(key) ==
    LET from == {i \in Positions : Key(i) >= key}
    IN  IF from = {} THEN 0
        ELSE checkpoints[CHOOSE i \in from : \A j \in from : i <= j].value
LastUpTo(key) ==
    LET upTo == {i \in Positions : Key(i) <= key}
    IN  IF upTo = {} THEN 0
        ELSE checkpoints[CHOOSE i \in upTo : \A j \in upTo : j <= i].value

Keys == {Key(i) : i \in Positions}
Last == CHOOSE key \in Keys : \A k \in Keys : k <= key

\* Both searches find what they are asked for, at every length and for keys that
\* are there, between others, below all and above all (Checkpoints.js:49, 58).  The
\* other views agree with them: the latest checkpoint is that of the largest key,
\* and every key is counted once (Checkpoints.js:139-171).
LookupsRight ==
    /\ call[1] = "lowerLookup" => call[3] = <<FirstFrom(call[2])>>
    /\ call[1] = "upperLookup" => call[3] = <<LastUpTo(call[2])>>
    /\ call[1] = "latest" => call[3] = <<LastUpTo(MaxKey)>>
    /\ call[1] = "latestCheckpoint" =>
          call[3] = IF Keys = {} THEN <<FALSE, 0, 0>> ELSE <<TRUE, Last, LastUpTo(Last)>>
    /\ call[1] = "length" => call[3] = <<Cardinality(Keys)>>

\* No push changes what an upper lookup finds below the last key, nor what a lower
\* lookup finds up to the last key but one.  The last checkpoint may be overwritten
\* (Checkpoints.js:192-193), and a lower lookup finds it for keys beyond that.
PastSettled ==
    \A key \in 0 .. MaxKey, i \in Positions :
       /\ key < Key(i) => LastUpTo(key)' = LastUpTo(key)
       /\ i < Len(checkpoints) /\ key <= Key(i) => FirstFrom(key)' = FirstFrom(key)
PastFixed == [][PastSettled]_vars

\* Every lookup ends.
LookupsEnd == ~Idle ~> Idle
=============================================================================
