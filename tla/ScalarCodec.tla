---------------------------- MODULE ScalarCodec ----------------------------
(***************************************************************************)
(* Every scalar type against every value it can hold: a value is written,  *)
(* more bytes follow it, and it is measured, read, read as another type,   *)
(* and skipped.                                                            *)
(***************************************************************************)
EXTENDS Scalars

CONSTANTS
    MaxTail,    \* bound: bytes behind the value
    Strings     \* the strings and byte strings written

\* A string is UTF-8, and its length is a u64.
ASSUME CodecAssumption ==
    /\ MaxTail \in Nat
    /\ \A s \in Strings : s \in Seq(Byte) /\ IsUtf8(s) /\ Len(s) \in Word

VARIABLES
    type,   \* a scalar type
    value,  \* the value written
    tail    \* what follows it in the message

codecVars == <<type, value, tail>>

ValuesOf(p) == IF p \in LenScalars THEN Strings ELSE Numbers(p)

CodecInit ==
    /\ type \in Packable \cup LenScalars
    /\ value \in ValuesOf(type)
    /\ tail = << >>

\* The next byte of the message.
Follow ==
    /\ Len(tail) < MaxTail
    /\ \E b \in Byte : tail' = Append(tail, b)
    /\ UNCHANGED <<type, value>>

CodecSpec == CodecInit /\ [][Follow]_codecVars

bytes == write_value(type, value)

-----------------------------------------------------------------------------
(***************************************************************************)
(* A value is read back as it was written, over exactly its own bytes,     *)
(* whatever follows - negative numbers through ten sign-extended groups    *)
(* included (scalars.rs write_value and read of every ProtobufScalar).     *)
(***************************************************************************)
RoundTrips ==
    LET r == read(type, bytes \o tail) IN
    ~IsErr(r) /\ r.value = value /\ r.used = Len(bytes)

(***************************************************************************)
(* value_len is the number of bytes write_value writes: a map entry is     *)
(* sized by the one and filled by the other (field.rs write_entry).        *)
(***************************************************************************)
LenPredicts == value_len(type, value) = Len(bytes)

(***************************************************************************)
(* A reader that does not know the field moves over exactly the bytes its  *)
(* writer wrote, for every wire type (scalars.rs skip_field).              *)
(***************************************************************************)
SkipsExactly ==
    LET r == skip_field(WIRE_TYPE(type), bytes \o tail) IN
    ~IsErr(r) /\ r.used = Len(bytes)

\* Types a field may be changed between without changing its wire form.
Families == {{"Int32", "Int64", "Uint32", "Uint64", "Bool", "PbEnum"},
             {"Sint32", "Sint64"}, {"Fixed32", "Sfixed32"},
             {"Fixed64", "Sfixed64"}, {"PbString", "PbBytes"}}

(***************************************************************************)
(* A schema may widen, narrow or re-sign a field: a value both types can   *)
(* hold is read by either as it was written by the other.                  *)
(***************************************************************************)
Evolves ==
    \A family \in Families : \A q \in family :
        type \in family /\ value \in ValuesOf(q) =>
            LET r == read(q, bytes \o tail) IN
            ~IsErr(r) /\ r.value = value /\ r.used = Len(bytes)
=============================================================================
