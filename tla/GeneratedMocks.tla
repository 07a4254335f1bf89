--------------------------- MODULE GeneratedMocks ---------------------------
(***************************************************************************)
(* The contracts that generate/run.js generates for its structures, and    *)
(* one that uses such a structure for the members of a role.  A test       *)
(* deploys them and calls the functions of one of them.                    *)
(***************************************************************************)
EXTENDS EnumerableSetMock, CheckpointsMock

CONSTANTS
    MapKeyType, MapValueType,   \* of the map
    WordBits, Lengths,          \* of the casts
    LastKey, LargestValue       \* of the trace

VARIABLES
    tested,   \* the contract that is called
    map, mapCall,
    hasRole, roleMembers, left, count, seen, steady,
    start, value, type, refused,
    trace, traceSearch, traceAsked, traceCall

Map == INSTANCE EnumerableMapMock WITH
    KeyType <- MapKeyType, ValueType <- MapValueType, call <- mapCall
Roles == INSTANCE RoleReader
Casts == INSTANCE SafeCastMock
Trace == INSTANCE TraceMock WITH
    MaxKey <- LastKey, MaxValue <- LargestValue,
    checkpoints <- trace, search <- traceSearch, asked <- traceAsked,
    call <- traceCall

ASSUME GeneratedAssumption ==
    /\ {ValueType, MapKeyType, MapValueType} \subseteq Types
    /\ HistoryAssumption /\ Casts!CastAssumption /\ Trace!TraceAssumption

mapVars == <<map, mapCall>>
rolesVars == <<hasRole, roleMembers, left, count, seen, steady>>
castsVars == <<start, value, type, refused>>
traceVars == <<trace, traceSearch, traceAsked, traceCall>>
mockVars == <<tested, vars, mapVars, rolesVars, castsVars, historyVars, traceVars>>

Contracts == {"set", "map", "roles", "casts", "history", "trace"}

MockInit ==
    /\ tested \in Contracts
    /\ Init /\ HistoryInit /\ Map!Init /\ Roles!Init /\ Trace!Init
    /\ IF tested = "casts" THEN Casts!Init
       ELSE start = 0 /\ value = 0 /\ type = <<>> /\ refused = <<>>

\* The others stay as they are.
MockNext ==
    /\ UNCHANGED tested
    /\ IF tested = "set" THEN Next ELSE UNCHANGED vars
    /\ IF tested = "map" THEN Map!Next ELSE UNCHANGED mapVars
    /\ IF tested = "roles" THEN Roles!Next ELSE UNCHANGED rolesVars
    /\ IF tested = "casts" THEN Casts!Next ELSE UNCHANGED castsVars
    /\ IF tested = "history" THEN HistoryNext ELSE UNCHANGED historyVars
    /\ IF tested = "trace" THEN Trace!Next ELSE UNCHANGED traceVars

MockSpec == MockInit /\ [][MockNext]_mockVars /\ Fairness /\ Trace!Fairness

-----------------------------------------------------------------------------

\* The variables of every contract have their types.
MockTypeOK ==
    TypeOK /\ HistoryTypeOK /\ Map!TypeOK /\ Roles!TypeOK /\ Trace!TypeOK

\* Indexed, IsASet, KeysIncrease, SearchSound and IsAHistory are stated in the
\* modules of the set and the history.  The properties of the others follow.

\* A removed key leaves no value (EnumerableMap.js:96-99); the map answers as one.
AbsentIsZero == Map!AbsentIsZero
IsAMap == Map!IsAMap

\* The two records of a role agree (AccessControlEnumerable.sol:52-63), and a
\* reader who goes down is told of all who stay members.
RecordsAgree == Roles!RecordsAgree
SteadyMembersSeen == Roles!SteadyMembersSeen

\* No cast changes a value (SafeCast.js:70-73), and none fails where it need not.
CastsExact == tested = "casts" => Casts!CastsExact

\* Lookups by any key find theirs (Checkpoints.js:49, 58).  No push changes what an
\* upper lookup finds below the last key, or a lower one up to the last but one.
LookupsRight == Trace!LookupsRight
PastFixed == Trace!PastFixed

\* Every lookup of either kind ends (Checkpoints.js:216, 239).
AllLookupsReturn == LookupsReturn /\ Trace!LookupsEnd
=============================================================================
