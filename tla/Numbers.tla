------------------------------ MODULE Numbers ------------------------------
(***************************************************************************)
(* Ruby integers and the integers of CIM: what the conversions between the *)
(* two keep, refuse and cut off.  Widths are given by the number of values *)
(* that are not negative, so that small ones can stand for 2^7 to 2^63.    *)
(***************************************************************************)
EXTENDS Integers

CONSTANTS Half,    \* Half[w]: the non-negative values of a signed integer of w bits
          FixHalf  \* those of a Fixnum

ASSUME HalfAssumption ==
  /\ Half \in [{8, 16, 32, 64} -> Nat \ {0}]
  /\ Half[8] < Half[16] /\ Half[16] < Half[32] /\ Half[32] < Half[64]
ASSUME FixAssumption == FixHalf \in Nat /\ FixHalf <= Half[64]

Width ==
  [uint8 |-> 8, uint16 |-> 16, char16 |-> 16, uint32 |-> 32, uint64 |-> 64,
   sint8 |-> 8, sint16 |-> 16, sint32 |-> 32, sint64 |-> 64]

IntType == DOMAIN Width
Unsigned == {"uint8", "uint16", "char16", "uint32", "uint64"}

SignedRange(w) == (-Half[w]) .. (Half[w] - 1)
UnsignedRange(w) == 0 .. (2 * Half[w] - 1)

\* The values of a type.
ValuesOf(type) == IF type \in Unsigned THEN UnsignedRange(Width[type])
                  ELSE SignedRange(Width[type])

\* n reduced to w bits, as an assignment in C does.
AsUnsigned(n, w) == n % (2 * Half[w])
AsSigned(n, w) == ((n + Half[w]) % (2 * Half[w])) - Half[w]

IsFixnum(n) == n \in (-FixHalf) .. (FixHalf - 1)

\* Fault: the number goes into the union as it is.
HeldWhole(type, n) == n

\* What a Cim::Data of a type holds after data.value = n.  Every integer type
\* has a bit of CIMC_UINT, so the signed ones take the unsigned branch too.
Held(type, n) == IF type \in Unsigned THEN AsUnsigned(n, Width[type])
                 ELSE AsSigned(n, Width[type])

\* NUM2ULL: Fixnums are cast, Bignums must fit in 64 bits with or without sign.
Storable(n) == IsFixnum(n) \/ n \in (-Half[64]) .. (2 * Half[64] - 1)

\* sfcc_value_to_cimdata makes every integer a sint64: NUM2INT takes a Fixnum
\* if it fits in an int, NUM2LL a Bignum if it fits in a long long.
Sendable(n) == n \in SignedRange(IF IsFixnum(n) THEN 32 ELSE 64)

\* Fault: everything is read with UINT2NUM.
ToRubyUnsigned(type, n) == AsUnsigned(n, 32)

\* sfcc_cimdata_to_value: UINT2NUM and INT2NUM take what fits in 32 bits.
ToRuby(type, n) == IF type \in Unsigned THEN AsUnsigned(n, 32) ELSE AsSigned(n, 32)
=============================================================================
