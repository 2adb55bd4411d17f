---------------------------- MODULE NumericHelpers ----------------------------
(***************************************************************************)
(* The numeric helpers of the post-processor, as operators.                *)
(***************************************************************************)
EXTENDS Integers

CONSTANTS
    Bits,      \* width of the unsigned type
    NaN,       \* the two values of a floating-point type that are
    Infinity   \* not numbers

ASSUME BitsAssumption == Bits \in Nat \ {0}

(* The remainder of C++ and fmod: its sign is that of the dividend.        *)
Rem(a, b) == IF a >= 0 THEN a % b ELSE -((-a) % b)

NotNegMod(a, mod) == Rem(Rem(a, mod) + mod, mod)

Within(range, value) == range[1] <= value /\ value <= range[2]

(* clampToRange of an integer.  A range is a pair; the ranges in use are so*)
(* much smaller than the type that no sum or difference here overflows.    *)
clampToRange(value, range) ==
    IF Within(range, value) THEN value
    ELSE NotNegMod(value, range[2] - range[1] + 1) + range[1]

(* clampToRange of a floating-point number, counted in halves: value and   *)
(* range are twice what they stand for.  No comparison with a NaN holds,   *)
(* and infinity minus floor(infinity) is a NaN.                            *)
clampReal(value, range) ==
    IF value \in {NaN, Infinity} THEN NaN
    ELSE IF Within(range, value) THEN value
    ELSE LET integer == 2 * (value \div 2)
         IN  NotNegMod(integer, range[2] - range[1]) + range[1] + (value - integer)

IsPowerOfTwo(n) == \E k \in 0 .. Bits - 1 : n = 2 ^ k

(* What reduceToPowerOfTwo promises: "the largest power of 2 that is less  *)
(* than or equal to" the value; zero stays zero.                           *)
IsReduced(value, res) ==
    \/ value = 0 /\ res = 0
    \/ IsPowerOfTwo(res) /\ res <= value /\ value < 2 * res

(* Zero and the powers of two are returned as they are; else res is doubled*)
(* until it is larger than the value, or wraps, and taken back by one step.*)
reduceToPowerOfTwo(value) ==
    LET Loop[res \in 0 .. 2 ^ Bits - 1] ==
            LET next == (2 * res) % 2 ^ Bits
            IN  IF res > value THEN res \div 2
                ELSE IF next < res THEN res
                ELSE Loop[next]
    IN  IF value = 0 \/ IsPowerOfTwo(value) THEN value ELSE Loop[1]
=============================================================================
