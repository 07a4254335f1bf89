----------------------------- MODULE RoleReader -----------------------------
(***************************************************************************)
(* An enumerable set in use: the members of one role, granted and revoked  *)
(* (AccessControl and AccessControlEnumerable), and a reader that pages    *)
(* through them with getRoleMemberCount and getRoleMember, each query in a *)
(* block of its own.  The contract warns of that.  This reader goes from   *)
(* the last position down.                                                 *)
(***************************************************************************)
EXTENDS EnumerableSet

VARIABLES
    hasRole,      \* _roles[role].members: whether an account has the role
    roleMembers,  \* _roleMembers[role]: the same as an enumerable set
    left,         \* how many positions the reader has still to ask for
    count,        \* how many there were when it began
    seen,         \* the members it was told
    steady        \* the members since it began

vars == <<hasRole, roleMembers, left, count, seen, steady>>

Enumerated == {a \in Address : Contains(roleMembers, a)}

Init ==
    /\ hasRole = [a \in Address |-> FALSE] /\ roleMembers = EmptySet
    /\ left = 0 /\ count = 0 /\ seen = {} /\ steady = {}

\* Neither function fails when there is nothing to do.
_grantRole(account) ==
    /\ hasRole' = [hasRole EXCEPT ![account] = TRUE]
    /\ roleMembers' = Add(roleMembers, account)
    /\ UNCHANGED <<left, count, seen, steady>>

\* Mutant: the enumerable set is forgotten.
_revokeRoleOnly(account) ==
    /\ hasRole' = [hasRole EXCEPT ![account] = FALSE]
    /\ steady' = steady \ {account}
    /\ UNCHANGED <<roleMembers, left, count, seen>>

_revokeRole(account) ==
    /\ hasRole' = [hasRole EXCEPT ![account] = FALSE]
    /\ roleMembers' = Remove(roleMembers, account)
    /\ steady' = steady \ {account}
    /\ UNCHANGED <<left, count, seen>>

getRoleMemberCount ==
    /\ left = 0
    /\ left' = Length(roleMembers) /\ count' = Length(roleMembers)
    /\ seen' = {} /\ steady' = Enumerated
    /\ UNCHANGED <<hasRole, roleMembers>>

\* What a query of `index` tells: nothing if it fails.
Told(index) ==
    IF InBounds(roleMembers, index) THEN {At(roleMembers, index)} ELSE {}

\* Mutant: the reader goes up.
getRoleMemberUp ==
    /\ left > 0
    /\ left' = left - 1 /\ seen' = seen \cup Told(count - left)
    /\ UNCHANGED <<hasRole, roleMembers, count, steady>>

\* A query past the end fails, and the reader goes on below it.
getRoleMember ==
    /\ left > 0
    /\ left' = left - 1 /\ seen' = seen \cup Told(left - 1)
    /\ UNCHANGED <<hasRole, roleMembers, count, steady>>

Next ==
    \/ \E account \in Address : _grantRole(account) \/ _revokeRole(account)
    \/ getRoleMemberCount \/ getRoleMember

Spec == Init /\ [][Next]_vars

-----------------------------------------------------------------------------

\* Every variable has its type, and the role has no more members than accounts.
TypeOK ==
    /\ hasRole \in [Address -> BOOLEAN]
    /\ roleMembers \in SetType /\ Length(roleMembers) <= AddressMax + 1
    /\ left \in Nat /\ count \in Nat /\ left <= count
    /\ seen \subseteq Address /\ steady \subseteq Address

\* The two records of a role never differ, although they are written by two
\* contracts' functions that each decide by themselves whether to write.
RecordsAgree == \A a \in Address : hasRole[a] <=> Contains(roleMembers, a)

\* A reader that goes down is told of every account that had the role all the
\* while, however the array was changed between its queries: a removal moves a
\* value downwards only.  A reader that goes up may miss some, which is what
\* AccessControlEnumerable.sol:32 warns of.
SteadyMembersSeen == left = 0 => steady \subseteq seen
=============================================================================
