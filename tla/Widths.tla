------------------------------- MODULE Widths -------------------------------
(***************************************************************************)
(* Integers of the widths the program uses, and what `as` makes of them.   *)
(*                                                                         *)
(* A cast between integers keeps the bits and not the number.  The widths  *)
(* are constants: Half stands for 2^63, Word for 2^32, Byte for 2^8.       *)
(***************************************************************************)
EXTENDS Integers

CONSTANTS
    Half,             \* u64 is 0 .. 2 * Half - 1, i64 is -Half .. Half - 1
    Word,             \* u32 is 0 .. Word - 1
    Byte              \* u8 is 0 .. Byte - 1

ASSUME WidthAssumption ==
    Half \in Nat \ {0} /\ Word \in 1 .. Half /\ Byte \in 6 .. Half

U64 == 0 .. (2 * Half - 1)
I64 == (-Half) .. (Half - 1)
U32 == 0 .. (Word - 1)
U8 == 0 .. (Byte - 1)

\* `as i64`, of any integer: also what release builds make of a sum or a
\* product that does not fit.
AsI64(n) == ((n + Half) % (2 * Half)) - Half

\* `as u64`, `as u32` and `as u8` of an i64.
AsU64(n) == n % (2 * Half)
AsU32(n) == n % Word
AsU8(n) == n % Byte

=============================================================================
