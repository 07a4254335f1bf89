-------------------------- MODULE CheckpointsMock --------------------------
(***************************************************************************)
(* The contract of CheckpointsMock.js with a history by block number, and  *)
(* the push with an operation that Votes.sol makes.  A call is a           *)
(* transaction; one that looks something up runs as long as its search     *)
(* does, and nothing else happens meanwhile.                               *)
(***************************************************************************)
EXTENDS Checkpoints

CONSTANTS
    KeyBits, ValueBits,  \* the widths of a checkpoint, 32 and 224 in Solidity
    FirstBlock,          \* the block the contract is created in
    MaxBlock,            \* the bound of the block number
    Values               \* the values that are pushed

Cast == INSTANCE SafeCast

MaxKey == Cast!UintMax(KeyBits)
MaxValue == Cast!UintMax(ValueBits)

HistoryAssumption ==
    /\ 2 ^ KeyBits \in Nat \ {0} /\ 2 ^ ValueBits \in Nat \ {0}
    /\ MaxBlock \in Nat /\ FirstBlock \in 0 .. MaxBlock
    /\ Values \subseteq Nat

VARIABLES
    block,        \* block.number
    checkpoints,  \* _totalCheckpoints
    search,       \* the search that runs, <<>> if none does
    asked,        \* the call it is made for
    lastCall      \* the last call, while it is remembered: its function, its argument
                  \* and its answer, <<>> if it failed

historyVars == <<block, checkpoints, search, asked, lastCall>>

Blocks == 0 .. MaxBlock + 1
NoCall == <<"none", 0, <<>>>>

Idle == search = <<>>

Remembers(fn, arg, answer) == lastCall' = <<fn, arg, answer>>
Forgotten == lastCall' = NoCall

HistoryInit ==
    /\ block = FirstBlock /\ checkpoints = <<>>
    /\ search = <<>> /\ asked = <<"none", 0>> /\ lastCall = NoCall

Mine ==
    /\ Idle /\ block < MaxBlock
    /\ block' = block + 1
    /\ Forgotten
    /\ UNCHANGED <<checkpoints, search, asked>>

\* Mutant: the block number is cut to the width of a key, not checked.
PushWrapping(fn, arg, value) ==
    /\ Idle
    /\ IF /\ Cast!ToUintFits(ValueBits, value)
          /\ Insertable(checkpoints, Cast!ToUint(KeyBits, block))
       THEN /\ checkpoints' = Insert(checkpoints, Cast!ToUint(KeyBits, block), value)
            /\ Remembers(fn, arg, Inserted(checkpoints, value))
       ELSE Remembers(fn, arg, <<>>) /\ UNCHANGED checkpoints
    /\ UNCHANGED <<block, search, asked>>

\* push(self, value), called by the function `fn` with `arg`.
PushAs(fn, arg, value) ==
    /\ Idle
    /\ IF /\ Cast!ToUintFits(KeyBits, block) /\ Cast!ToUintFits(ValueBits, value)
          /\ Insertable(checkpoints, Cast!ToUint(KeyBits, block))
       THEN /\ checkpoints' = Insert(checkpoints, Cast!ToUint(KeyBits, block),
                                     Cast!ToUint(ValueBits, value))
            /\ Remembers(fn, arg, Inserted(checkpoints, Cast!ToUint(ValueBits, value)))
       ELSE Remembers(fn, arg, <<>>) /\ UNCHANGED checkpoints
    /\ UNCHANGED <<block, search, asked>>

Fails(fn, arg) ==
    /\ Idle /\ Remembers(fn, arg, <<>>)
    /\ UNCHANGED <<block, checkpoints, search, asked>>

push(value) == PushAs("push", value, value)
pushAdd(delta) == PushAs("add", delta, Latest(checkpoints) + delta)
pushSubtract(delta) ==
    IF delta <= Latest(checkpoints)
    THEN PushAs("subtract", delta, Latest(checkpoints) - delta)
    ELSE Fails("subtract", delta)

latest ==
    /\ Idle /\ Remembers("latest", 0, <<Latest(checkpoints)>>)
    /\ UNCHANGED <<block, checkpoints, search, asked>>

\* A lookup of the block b: the search begins, or the call fails at once.
Begins(fn, b, bounds) ==
    /\ Idle /\ b < block /\ Cast!ToUintFits(KeyBits, b)
    /\ search' = bounds /\ asked' = <<fn, b>> /\ Forgotten
    /\ UNCHANGED <<block, checkpoints>>

Unmined(fn, b) == ~(b < block /\ Cast!ToUintFits(KeyBits, b)) /\ Fails(fn, b)

getAtBlock(b) ==
    \/ Begins("getAtBlock", b, Whole(checkpoints, Cast!ToUint(KeyBits, b)))
    \/ Unmined("getAtBlock", b)

getAtProbablyRecentBlock(b) ==
    \/ Begins("getAtProbablyRecentBlock", b, Recent(checkpoints, Cast!ToUint(KeyBits, b)))
    \/ Unmined("getAtProbablyRecentBlock", b)

Iterate ==
    /\ ~Idle /\ Searching(search)
    /\ search' = UpperStep(checkpoints, search)
    /\ UNCHANGED <<block, checkpoints, asked, lastCall>>

Returns ==
    /\ ~Idle /\ ~Searching(search)
    /\ Remembers(asked[1], asked[2], <<UpperValue(checkpoints, search)>>)
    /\ search' = <<>> /\ asked' = <<"none", 0>>
    /\ UNCHANGED <<block, checkpoints>>

HistoryNext ==
    \/ Mine \/ latest
    \/ \E v \in Values : push(v) \/ pushAdd(v) \/ pushSubtract(v)
    \/ \E b \in Blocks : getAtBlock(b) \/ getAtProbablyRecentBlock(b)
    \/ Iterate \/ Returns

\* A call that runs is executed to its end.
Fairness == WF_historyVars(Iterate \/ Returns)

HistorySpec == HistoryInit /\ [][HistoryNext]_historyVars
FairHistorySpec == HistorySpec /\ Fairness

-----------------------------------------------------------------------------

KeyOf(i) == checkpoints[i].key

CheckpointType == [key : 0 .. MaxKey, value : 0 .. MaxValue]
SearchType == [low : Nat, high : Nat, key : 0 .. MaxKey]

\* Every variable has its type; the checkpoints fit their widths.
HistoryTypeOK ==
    /\ block \in 0 .. MaxBlock /\ checkpoints \in Seq(CheckpointType)
    /\ search \in SearchType \cup {<<>>}

\* The keys increase, and none is a block of the future: what makes the binary
\* search find anything, and what a `push` after a block without one relies on.
KeysIncrease ==
    /\ \A i, j \in 1 .. Len(checkpoints) : i < j => KeyOf(i) < KeyOf(j)
    /\ \A i \in 1 .. Len(checkpoints) : KeyOf(i) <= block

\* A search stays inside the array, which _unsafeAccess does not check, and what
\* it has left behind is on the right side of its key, from whichever bounds it
\* began (Checkpoints.js:204-209, 250).
SearchSound ==
    ~Idle =>
       /\ search.low <= search.high /\ search.high <= Len(checkpoints)
       /\ \A i \in 1 .. Len(checkpoints) :
             /\ i <= search.low => KeyOf(i) <= search.key
             /\ i > search.high => KeyOf(i) > search.key

\* The value that block b ended with: of its checkpoint, or the last one before.
ValueAt(b) ==
    LET upTo == {i \in 1 .. Len(checkpoints) : KeyOf(i) <= b}
    IN  IF upTo = {} THEN 0
        ELSE checkpoints[CHOOSE i \in upTo : \A j \in upTo : j <= i].value

\* The contract keeps a history: both lookups answer what block b ended with, and
\* no later call changes it (Checkpoints.js:68-87).
Past == INSTANCE HistoryPromise WITH
    call <- lastCall, history <- [b \in 0 .. block |-> ValueAt(b)]
IsAHistory == Past!Spec

\* Every lookup ends.
LookupsReturn == ~Idle ~> Idle
=============================================================================
