---------------------------- MODULE Checkpoints ----------------------------
(***************************************************************************)
(* The histories that Checkpoints.js generates: an array of checkpoints in *)
(* the order of their keys, each with a value, and binary searches in it.  *)
(* A search is its bounds `low` and `high`, positions that begin at 0, and *)
(* the key; one iteration of its loop is one step.                         *)
(***************************************************************************)
EXTENDS Integers, Sequences

Checkpoint(key, value) == [key |-> key, value |-> value]

\* Access without a check of the bound: past the end, storage is zero.
UnsafeAccess(self, pos) ==
    IF pos < Len(self) THEN self[pos + 1] ELSE Checkpoint(0, 0)

LastOf(self) == UnsafeAccess(self, Len(self) - 1)

Latest(self) == IF self = <<>> THEN 0 ELSE LastOf(self).value

LatestCheckpoint(self) ==
    IF self = <<>> THEN <<FALSE, 0, 0>>
    ELSE <<TRUE, LastOf(self).key, LastOf(self).value>>

\* Mutant: any key is accepted.
InsertableAny(self, key) == TRUE

\* The condition under which `_insert` does not fail.
Insertable(self, key) == self = <<>> \/ LastOf(self).key <= key

\* Mutant: a second checkpoint for the same key.
InsertAlways(self, key, value) == Append(self, Checkpoint(key, value))

Insert(self, key, value) ==
    IF self # <<>> /\ LastOf(self).key = key
    THEN [self EXCEPT ![Len(self)].value = value]
    ELSE Append(self, Checkpoint(key, value))

\* What `_insert` returns: the value before, copied, and the new one.
Inserted(self, value) == <<Latest(self), value>>

-----------------------------------------------------------------------------

Average(a, b) == (a + b) \div 2

\* The largest number whose square is at most n.
Sqrt(n) == CHOOSE r \in 0 .. n : r * r <= n /\ n < (r + 1) * (r + 1)

Between(low, high, key) == [low |-> low, high |-> high, key |-> key]

\* Mutant: the upper bound is one past the end.
WholePast(self, key) == Between(0, Len(self) + 1, key)

\* The bounds with which the other searches begin.
Whole(self, key) == Between(0, Len(self), key)

\* Mutant: the checkpoint in the middle is not looked at again.
RecentBelow(self, key) ==
    LET mid == Len(self) - Sqrt(Len(self))
    IN  IF Len(self) <= 5 THEN Whole(self, key)
        ELSE IF key < UnsafeAccess(self, mid).key THEN Between(0, mid - 1, key)
        ELSE Between(mid + 1, Len(self), key)

\* The bounds with which getAtProbablyRecentBlock begins.
Recent(self, key) ==
    LET mid == Len(self) - Sqrt(Len(self))
    IN  IF Len(self) <= 5 THEN Whole(self, key)
        ELSE IF key < UnsafeAccess(self, mid).key THEN Between(0, mid, key)
        ELSE Between(mid + 1, Len(self), key)

Searching(s) == s.low < s.high

\* Mutant: the loop does not come closer when two are left.
UpperStepStuck(self, s) ==
    LET mid == Average(s.low, s.high)
    IN  IF UnsafeAccess(self, mid).key > s.key THEN [s EXCEPT !.high = mid]
        ELSE [s EXCEPT !.low = mid]

\* One iteration of _upperBinaryLookup, and the value that is made of its end.
UpperStep(self, s) ==
    LET mid == Average(s.low, s.high)
    IN  IF UnsafeAccess(self, mid).key > s.key THEN [s EXCEPT !.high = mid]
        ELSE [s EXCEPT !.low = mid + 1]

UpperValue(self, s) ==
    IF s.high = 0 THEN 0 ELSE UnsafeAccess(self, s.high - 1).value

\* Mutant: an equal key is taken for an earlier one.
LowerStepStrict(self, s) ==
    LET mid == Average(s.low, s.high)
    IN  IF UnsafeAccess(self, mid).key <= s.key THEN [s EXCEPT !.low = mid + 1]
        ELSE [s EXCEPT !.high = mid]

\* One iteration of _lowerBinaryLookup, and the value that is made of its end.
LowerStep(self, s) ==
    LET mid == Average(s.low, s.high)
    IN  IF UnsafeAccess(self, mid).key < s.key THEN [s EXCEPT !.low = mid + 1]
        ELSE [s EXCEPT !.high = mid]

LowerValue(self, s) ==
    IF s.high = Len(self) THEN 0 ELSE UnsafeAccess(self, s.high).value
=============================================================================
