----------------------------- MODULE Conversion -----------------------------
(***************************************************************************)
(* How the generated structures of OpenZeppelin keep values of other types *)
(* in words of 32 bytes (conversion.js).  A word is a natural number up to *)
(* Bytes32Max, an address one up to AddressMax; `uint256` has the values   *)
(* of a word.                                                              *)
(***************************************************************************)
EXTENDS Integers

CONSTANTS Bytes32Max, AddressMax

ASSUME ConversionAssumption ==
    Bytes32Max \in Nat /\ AddressMax \in Nat /\ AddressMax <= Bytes32Max

Bytes32 == 0 .. Bytes32Max
Address == 0 .. AddressMax
Types == {"bytes32", "uint256", "address"}

\* The values of a type that a caller can pass.
ValuesOf(type) == IF type = "address" THEN Address ELSE Bytes32

\* uint160 drops the upper bits of what it is given.
Uint160(word) == word % (AddressMax + 1)

ToBytes32(type, value) == IF type = "address" THEN Uint160(value) ELSE value

FromBytes32(type, word) == IF type = "address" THEN Uint160(word) ELSE word
=============================================================================
