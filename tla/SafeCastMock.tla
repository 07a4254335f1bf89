---------------------------- MODULE SafeCastMock ----------------------------
(***************************************************************************)
(* The contract of SafeCastMock.js, and what its callers do: a value goes  *)
(* through casts one after the other, between the widest integers and      *)
(* narrower ones, as far as none fails.  The contract has no state; the    *)
(* value is the caller's.                                                  *)
(***************************************************************************)
EXTENDS SafeCast

CONSTANTS
    WordBits,  \* the bits of the widest integers, 256 in Solidity
    Lengths    \* the bits of the narrower ones, LENGTHS

\* Powers of two, which the provers do not know.
PowersAssumption ==
    2 ^ 0 = 1 /\ \A n \in 1 .. WordBits : 2 ^ n \in Nat /\ 2 ^ n = 2 * 2 ^ (n - 1)

CastAssumption ==
    /\ WordBits \in Nat \ {0, 1}
    /\ \A length \in Lengths : length \in 1 .. WordBits - 1
    /\ PowersAssumption

VARIABLES
    start,   \* the value that the caller began with
    value,   \* what has become of it
    type,    \* the type it has: its bits, and whether it is signed
    refused  \* the type that the last cast refused, its own type if none was

vars == <<start, value, type, refused>>

Type(bits, signed) == [bits |-> bits, signed |-> signed]

Uints(bits) == 0 .. UintMax(bits)
Ints(bits) == IntMin(bits) .. IntMax(bits)
ValuesOf(t) == IF t.signed THEN Ints(t.bits) ELSE Uints(t.bits)

Init ==
    /\ type \in {Type(WordBits, signed) : signed \in BOOLEAN}
    /\ start \in ValuesOf(type) /\ value = start
    /\ refused = type

\* A call of a cast: it fails, or the value gets the new type.
Cast(fits, result, new) ==
    /\ IF fits THEN value' = result /\ type' = new
       ELSE UNCHANGED <<value, type>>
    /\ refused' = new
    /\ UNCHANGED start

Word(signed) == type = Type(WordBits, signed)

toUintDownCast(length) ==
    /\ Word(FALSE)
    /\ Cast(ToUintFits(length, value), ToUint(length, value), Type(length, FALSE))

toIntDownCast(length) ==
    /\ Word(TRUE)
    /\ Cast(DownCastFits(length, value), DownCast(length, value), Type(length, TRUE))

toUint ==
    /\ Word(TRUE)
    /\ Cast(ToUnsignedFits(WordBits, value), ToUnsigned(WordBits, value),
            Type(WordBits, FALSE))

toInt ==
    /\ Word(FALSE)
    /\ Cast(ToSignedFits(WordBits, value), ToSigned(WordBits, value),
            Type(WordBits, TRUE))

\* Solidity widens by itself, and keeps the value.
Widens ==
    /\ type.bits < WordBits
    /\ type' = Type(WordBits, type.signed) /\ refused' = type'
    /\ UNCHANGED <<start, value>>

Next ==
    \/ \E length \in Lengths : toUintDownCast(length) \/ toIntDownCast(length)
    \/ toUint \/ toInt \/ Widens

Spec == Init /\ [][Next]_vars

-----------------------------------------------------------------------------

\* No sequence of casts changes a value, what they give is a value of the type they
\* say (an overflow raises an error, as SafeCast.js:70-73 promises), and a cast
\* fails only if the value has no place in the type that was asked for.
CastsExact ==
    /\ value = start /\ value \in ValuesOf(type)
    /\ refused # type => value \notin ValuesOf(refused)
=============================================================================
