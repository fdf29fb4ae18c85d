------------------------------- MODULE Scalars -------------------------------
(***************************************************************************)
(* Scalar values on the wire (tacky/src/scalars.rs): which wire type each  *)
(* scalar type has, the bytes write_value gives it, the length value_len   *)
(* predicts, what read makes of bytes, and how a field's key and an        *)
(* unknown field's value are read.                                         *)
(*                                                                         *)
(* Numbers are integers; the code's casts are two's complement of 32 and   *)
(* 64 bits, whose moduli are U32 and the size of Word.  Floats are their   *)
(* bit patterns (Fixed32, Fixed64), an enum is its i32, a bool 0 or 1.     *)
(***************************************************************************)
EXTENDS Varint, Integers, SequencesExt

CONSTANTS
    Bytes32,    \* bytes of a 32-bit value: 4 in the code
    Bytes64,    \* bytes of a 64-bit value: 8 in the code
    KeyRadix,   \* wire-type codes in a key: 8 in the code
    NotUtf8     \* bytes no UTF-8 text contains

ByteRadix == 2 * Radix

U32 == Power(ByteRadix, Bytes32)

U64 == Power(ByteRadix, Bytes64)

ASSUME ScalarsAssumption ==
    /\ Bytes32 \in Nat \ {0} /\ Bytes64 \in Nat \ {0}
    /\ Bytes32 <= Bytes64
    /\ KeyRadix \in Nat /\ KeyRadix > 5
    /\ NotUtf8 \subseteq Byte
    /\ U64 = LastGroup * Power(Radix, MaxGroups - 1)

-----------------------------------------------------------------------------
(* Scalar types and their wire types. *)

VarintScalars == {"Int32", "Sint32", "Int64", "Sint64", "Uint32", "Uint64",
                  "Bool", "PbEnum"}
Fixed32Scalars == {"Fixed32", "Sfixed32"}
Fixed64Scalars == {"Fixed64", "Sfixed64"}
LenScalars == {"PbString", "PbBytes"}

Packable == VarintScalars \cup Fixed32Scalars \cup Fixed64Scalars

WireType == {"VARINT", "I64", "LEN", "I32"}

\* The code of a wire type in a key.
WireCode == [VARINT |-> 0, I64 |-> 1, LEN |-> 2, I32 |-> 5]

WIRE_TYPE(p) ==
    CHOOSE w \in WireType :
        \/ w = "VARINT" /\ p \in VarintScalars
        \/ w = "I32" /\ p \in Fixed32Scalars
        \/ w = "I64" /\ p \in Fixed64Scalars
        \/ w = "LEN" /\ p \in LenScalars

-----------------------------------------------------------------------------
(* Casts. *)

\* `x as u32`, `x as u64`.
Unsigned(x, modulus) == x % modulus

\* `x as i32`, `x as i64`.
Signed(x, modulus) ==
    LET u == x % modulus IN IF 2 * u >= modulus THEN u - modulus ELSE u

\* (x << 1) ^ (x >> 31), as the unsigned type.
zigzag(x, modulus) == (IF x >= 0 THEN 2 * x ELSE -2 * x - 1) % modulus

\* (u >> 1) ^ -(u & 1).
unzigzag(u) == IF u % 2 = 0 THEN u \div 2 ELSE -(u \div 2) - 1

\* Little-endian bytes of x in two's complement.
LittleEndian(x, n) ==
    [i \in 1..n |-> ((x % Power(ByteRadix, n)) \div Power(ByteRadix, i - 1)) % ByteRadix]

FromLittleEndian(s, n) ==
    LET sum[i \in 0..n] ==
            IF i = 0 THEN 0 ELSE sum[i - 1] + s[i] * Power(ByteRadix, i - 1)
    IN  sum[n]

-----------------------------------------------------------------------------
(* The values of a type. *)

SignedRange(modulus) == -(modulus \div 2)..(modulus \div 2 - 1)

Numbers(p) ==
    IF p \in {"Int32", "Sint32", "Sfixed32", "PbEnum"} THEN SignedRange(U32)
    ELSE IF p \in {"Int64", "Sint64", "Sfixed64"} THEN SignedRange(U64)
    ELSE IF p \in {"Uint32", "Fixed32"} THEN 0..(U32 - 1)
    ELSE IF p \in {"Uint64", "Fixed64"} THEN 0..(U64 - 1)
    ELSE 0..1

\* Bytes no UTF-8 text contains are all that tells a text from other bytes.
IsUtf8(s) == \A i \in 1..Len(s) : s[i] \notin NotUtf8

\* A length is a u64.
Holds(p, x) ==
    IF p \in LenScalars
    THEN x \in Seq(Byte) /\ Len(x) \in Word /\ (p = "PbString" => IsUtf8(x))
    ELSE x \in Numbers(p)

-----------------------------------------------------------------------------
(* Writing. *)

\* Mutant: a negative int32 is not sign-extended to 64 bits.
M_AsVarint(p, x) ==
    IF p = "Sint32" THEN zigzag(x, U32)
    ELSE IF p = "Sint64" THEN zigzag(x, U64)
    ELSE IF p \in {"Int32", "PbEnum"} THEN Unsigned(x, U32)
    ELSE Unsigned(x, U64)

\* The u64 a varint scalar is written as: negative numbers are sign-extended.
AsVarint(p, x) ==
    IF p = "Sint32" THEN zigzag(x, U32)
    ELSE IF p = "Sint64" THEN zigzag(x, U64)
    ELSE Unsigned(x, U64)

FixedSize(p) == IF p \in Fixed32Scalars THEN Bytes32 ELSE Bytes64

write_value(p, x) ==
    IF p \in VarintScalars THEN write_varint(AsVarint(p, x))
    ELSE IF p \in LenScalars THEN write_varint(Len(x)) \o x
    ELSE LittleEndian(x, FixedSize(p))

\* Mutant: the length of a sint32 is that of its two's complement.
M_value_len(p, x) ==
    IF p = "Bool" THEN 1
    ELSE IF p \in VarintScalars THEN encoded_len_varint(Unsigned(x, U64))
    ELSE IF p \in LenScalars THEN encoded_len_varint(Len(x)) + Len(x)
    ELSE FixedSize(p)

\* What a map entry is sized by before it is written.
value_len(p, x) ==
    IF p = "Bool" THEN 1
    ELSE IF p \in VarintScalars THEN encoded_len_varint(AsVarint(p, x))
    ELSE IF p \in LenScalars THEN encoded_len_varint(Len(x)) + Len(x)
    ELSE FixedSize(p)

-----------------------------------------------------------------------------
(* Reading: a value and how far the cursor moved, or a DecodeError. *)

Read(x, n) == [err |-> "none", value |-> x, used |-> n]

Err(e) == [err |-> e, value |-> << >>, used |-> 0]

IsErr(r) == r.err # "none"

\* The bytes behind the first n.
After(s, n) == SubSeq(s, n + 1, Len(s))

Moved(r, n) == IF IsErr(r) THEN r ELSE [r EXCEPT !.used = @ + n]

\* The code's `?`: an error is returned as it is; otherwise the function goes on
\* with the value and the bytes behind it.
Try(r, s, next(_, _)) ==
    IF IsErr(r) THEN r ELSE Moved(next(r.value, After(s, r.used)), r.used)

\* decode_varint, its only error being Truncated.
varint(s) ==
    LET d == decode_varint(s) IN
    IF d.ok THEN Read(d.value, d.used) ELSE Err("Truncated")

\* split_at, when that many bytes are left.
Split(s, n) == IF Len(s) < n THEN Err("Truncated") ELSE Read(SubSeq(s, 1, n), n)

\* Mutant: a payload that ends behind the input is taken as far as it goes.
M_decode_len(s) == Try(varint(s), s, LAMBDA n, t : Read(t, Len(t)))

\* A length and that many bytes (`as usize` keeps a u64 on 64-bit targets).
decode_len(s) == Try(varint(s), s, LAMBDA n, t : Split(t, n))

\* Mutant: an int64 is read as an int32.
M_FromVarint(p, v) ==
    IF p \in {"Int32", "PbEnum", "Int64"} THEN Signed(v, U32)
    ELSE IF p = "Sint32" THEN unzigzag(Unsigned(v, U32))
    ELSE IF p = "Sint64" THEN unzigzag(v)
    ELSE IF p = "Uint32" THEN Unsigned(v, U32)
    ELSE IF p = "Bool" THEN (IF v = 0 THEN 0 ELSE 1)
    ELSE v

\* What a varint scalar makes of a u64: the high bits of a wider one are lost.
FromVarint(p, v) ==
    IF p \in {"Int32", "PbEnum"} THEN Signed(v, U32)
    ELSE IF p = "Int64" THEN Signed(v, U64)
    ELSE IF p = "Sint32" THEN unzigzag(Unsigned(v, U32))
    ELSE IF p = "Sint64" THEN unzigzag(v)
    ELSE IF p = "Uint32" THEN Unsigned(v, U32)
    ELSE IF p = "Bool" THEN (IF v = 0 THEN 0 ELSE 1)
    ELSE v

read_varint(p, s) == Try(varint(s), s, LAMBDA v, t : Read(FromVarint(p, v), 0))

FromFixed(p, u) ==
    IF p \in {"Sfixed32", "Sfixed64"} THEN Signed(u, Power(ByteRadix, FixedSize(p))) ELSE u

read_fixed(p, s) ==
    Try(Split(s, FixedSize(p)), s,
        LAMBDA b, t : Read(FromFixed(p, FromLittleEndian(b, FixedSize(p))), 0))

read_len(p, s) ==
    Try(decode_len(s), s,
        LAMBDA b, t : IF p = "PbString" /\ ~IsUtf8(b) THEN Err("InvalidUtf8")
                                                      ELSE Read(b, 0))

read(p, s) ==
    IF p \in VarintScalars THEN read_varint(p, s)
    ELSE IF p \in LenScalars THEN read_len(p, s)
    ELSE read_fixed(p, s)

-----------------------------------------------------------------------------
(* Keys and unknown fields. *)

\* EncodedTag::new: the field number shifted by the width of a wire-type code.
EncodedTag(nr, wire) == write_varint((nr * KeyRadix + WireCode[wire]) % U32)

\* The field number (`as u32`) and the wire type in a key.
Key(v) ==
    LET code == v % KeyRadix IN
    IF code \notin Range(WireCode) THEN Err("InvalidWireType")
    ELSE Read([nr   |-> (v \div KeyRadix) % U32,
               wire |-> CHOOSE w \in WireType : WireCode[w] = code], 0)

decode_key(s) == Try(varint(s), s, LAMBDA v, t : Key(v))

skip_varint_value(s) ==
    LET k == skip_varint(s) IN IF k.ok THEN Read(<< >>, k.used) ELSE Err("Truncated")

\* Mutant: a fixed 64-bit value is skipped as a fixed 32-bit one.
M_skip_field(wire, s) ==
    IF wire = "VARINT" THEN skip_varint_value(s)
    ELSE IF wire = "LEN" THEN decode_len(s)
    ELSE Split(s, Bytes32)

\* Moves over a value without looking at it.
skip_field(wire, s) ==
    IF wire = "VARINT" THEN skip_varint_value(s)
    ELSE IF wire = "LEN" THEN decode_len(s)
    ELSE Split(s, IF wire = "I64" THEN Bytes64 ELSE Bytes32)

check_wire_type(actual, expected) ==
    IF actual = expected THEN Read(<< >>, 0) ELSE Err("WireTypeMismatch")
=============================================================================
