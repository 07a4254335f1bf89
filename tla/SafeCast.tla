------------------------------ MODULE SafeCast ------------------------------
(***************************************************************************)
(* The casts that SafeCast.js generates, for integers of any number of     *)
(* bits.  Solidity's own casts keep the low bits and never fail; each safe *)
(* cast is such a cast and the condition under which it does not fail.     *)
(***************************************************************************)
EXTENDS Integers

UintMax(bits) == 2 ^ bits - 1
IntMax(bits) == 2 ^ (bits - 1) - 1
IntMin(bits) == -(2 ^ (bits - 1))

\* uintN(value) and intN(value): the low `bits` bits, as an unsigned and as a
\* two's complement number.
AsUint(bits, value) == value % 2 ^ bits
AsInt(bits, value) ==
    LET low == AsUint(bits, value)
    IN  IF low > IntMax(bits) THEN low - 2 ^ bits ELSE low

\* toUintN(uint256)
ToUintFits(bits, value) == value <= UintMax(bits)
ToUint(bits, value) == AsUint(bits, value)

\* Mutant: the bound is that of the unsigned type.
DownCastWideFits(bits, value) == value <= UintMax(bits)

\* toIntN(int256): cast first, then compared with what was cast.
DownCastFits(bits, value) == AsInt(bits, value) = value
DownCast(bits, value) == AsInt(bits, value)

\* toUint256(int256)
ToUnsignedFits(bits, value) == value >= 0
ToUnsigned(bits, value) == AsUint(bits, value)

\* toInt256(uint256)
ToSignedFits(bits, value) == value <= AsUint(bits, IntMax(bits))
ToSigned(bits, value) == AsInt(bits, value)
=============================================================================
