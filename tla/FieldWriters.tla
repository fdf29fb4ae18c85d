---------------------------- MODULE FieldWriters ----------------------------
(***************************************************************************)
(* The writers a schema's fields offer (tacky/src/field.rs, and for the    *)
(* members of a oneof the code tacky-build/src/parser.rs generates).       *)
(*                                                                         *)
(* A buffer is its direction, whether it hands out blocks to be filled     *)
(* forwards, and the bytes it holds: TackWriter and RevWriter are about    *)
(* how they get there.  A writer takes a buffer to a buffer.  The closure  *)
(* that writes a nested message stands for the bytes it puts into an empty *)
(* buffer of the same kind.                                                *)
(***************************************************************************)
EXTENDS Scalars

Buffer(reverse, claims) == [reverse |-> reverse, claims |-> claims, bytes |-> << >>]

\* Appends, or, through a buffer that grows downwards, prepends.
put(b, s) == [b EXCEPT !.bytes = IF b.reverse THEN s \o @ ELSE @ \o s]

\* The buffer a closure is handed, as far as the closure can tell.
Emptied(b) == Buffer(b.reverse, b.claims)

\* WriteBuf::put_msg.
put_msg(b, tag, body) ==
    IF b.reverse THEN put(put(put(b, body), write_varint(Len(body))), tag)
                 ELSE put(b, tag \o write_varint(Len(body)) \o body)

\* Mutant: no iterator is reversed.
M_ordered(b, values) == values

\* OrderedIter: the order in which this buffer needs the elements written.
ordered(b, values) == IF b.reverse THEN Reverse(values) ELSE values

-----------------------------------------------------------------------------
(* What a caller hands over: ProtoEncode. *)

\* A value of the scalar's own type: encode writes what as_scalar returns.
Value(x) == [scalar |-> x, text |-> x, streams |-> FALSE]

\* PbDisplay, PbWrite: as_scalar is empty, encode streams the text.
Formatted(t) == [scalar |-> << >>, text |-> t, streams |-> TRUE]

\* What the types of a caller's code let it hand over for a field of type p.
Suits(p, v) ==
    /\ v \in {Value(v.text), Formatted(v.text)}
    /\ Holds(p, v.text)
    /\ v.streams => p \in LenScalars

\* A text streamed through a Tack whose placeholder has width 2: its length is
\* padded to two bytes.  Tacks are for buffers that grow upwards.
stream(b, text) ==
    LET width == IF encoded_len_varint(Len(text)) <= 2
                 THEN 2 ELSE encoded_len_varint(Len(text))
    IN  put(b, write_wide_varint(width, Len(text)) \o text)

\* ProtoEncode::encode.
encode(b, p, v) ==
    IF v.streams THEN stream(b, v.text) ELSE put(b, write_value(p, v.scalar))

Default(p) == IF p \in LenScalars THEN << >> ELSE 0

is_default(p, v) == ~v.streams /\ v.scalar = Default(p)

-----------------------------------------------------------------------------
(* Optional, Repeated, Required, Plain. *)

\* Tag and value; the last written comes first in a buffer that grows downwards.
write_field(b, nr, p, v) ==
    LET tag == EncodedTag(nr, WIRE_TYPE(p)) IN
    IF b.reverse THEN put(encode(b, p, v), tag)
                 ELSE encode(put(b, tag), p, v)

\* An Option is a sequence of at most one value.
optional_write(b, nr, p, option) ==
    IF option = << >> THEN b ELSE write_field(b, nr, p, option[1])

repeated_write(b, nr, p, values) ==
    FoldLeft(LAMBDA c, v : write_field(c, nr, p, v), b, ordered(b, values))

plain_write(b, nr, p, v) == IF is_default(p, v) THEN b ELSE write_field(b, nr, p, v)

write_msg(b, nr, body) == put_msg(b, EncodedTag(nr, "LEN"), body)

write_msgs(b, nr, bodies) ==
    FoldLeft(LAMBDA c, body : write_msg(c, nr, body), b, ordered(b, bodies))

\* A oneof member's writer: the scalar, not encode.
oneof_write(b, nr, p, v) ==
    LET tag   == EncodedTag(nr, WIRE_TYPE(p))
        value == write_value(p, v.scalar)
    IN  IF b.reverse THEN put(put(b, value), tag) ELSE put(put(b, tag), value)

-----------------------------------------------------------------------------
(* Packed. *)

put_elements(b, p, values) ==
    FoldLeft(LAMBDA c, v : put(c, write_value(p, v.scalar)), b, ordered(b, values))

packed_write(b, nr, p, values) ==
    IF values = << >> THEN b
    ELSE write_msg(b, nr, put_elements(Emptied(b), p, values).bytes)

FixedWireScalars == Fixed32Scalars \cup Fixed64Scalars \cup {"Bool"}

FIXED_WIRE_SIZE(p) == IF p = "Bool" THEN 1 ELSE FixedSize(p)

\* Mutant: the prefix counts elements, not bytes.
M_write_exact(b, nr, p, values) ==
    IF ~b.reverse /\ p \in FixedWireScalars /\ values # << >>
    THEN put_elements(put(b, EncodedTag(nr, "LEN") \o write_varint(Len(values))), p, values)
    ELSE packed_write(b, nr, p, values)

\* Forwards, the length of fixed-size elements is known before they are written.
write_exact(b, nr, p, values) ==
    IF ~b.reverse /\ p \in FixedWireScalars /\ values # << >>
    THEN put_elements(put(b, EncodedTag(nr, "LEN")
                             \o write_varint(Len(values) * FIXED_WIRE_SIZE(p))),
                      p, values)
    ELSE packed_write(b, nr, p, values)

-----------------------------------------------------------------------------
(* PbMap. *)

\* ProtobufScalar::len.
field_len(nr, p, v) ==
    encoded_len_varint(nr * KeyRadix + WireCode[WIRE_TYPE(p)]) + value_len(p, v.scalar)

\* An entry's length, before it is written.
entry_len(f, key, option) ==
    field_len(1, f.key, key)
    + (IF option = << >> THEN 0 ELSE field_len(2, f.val, option[1]))

\* Tag, length, key and value, in wire order.
entry_forwards(b, nr, f, key, option) ==
    optional_write(
        write_field(put(b, EncodedTag(nr, "LEN")
                           \o write_varint(entry_len(f, key, option))),
                    1, f.key, key),
        2, f.val, option)

\* claim_block: n bytes in front, filled from their start with s.
claim_block(b, n, s) == put(b, [i \in 1..n |-> IF i <= Len(s) THEN s[i] ELSE 0])

\* The same from the end: value, key, length, tag.
entry_mirrored(b, nr, f, key, option) ==
    put(put(write_field(optional_write(b, 2, f.val, option), 1, f.key, key),
            write_varint(entry_len(f, key, option))),
        EncodedTag(nr, "LEN"))

write_entry(b, nr, f, key, option) ==
    IF ~b.reverse THEN entry_forwards(b, nr, f, key, option)
    ELSE IF b.claims
         THEN LET len == entry_len(f, key, option) IN
              claim_block(b, Len(EncodedTag(nr, "LEN")) + encoded_len_varint(len) + len,
                          entry_forwards(Buffer(FALSE, FALSE), nr, f, key, option).bytes)
    ELSE entry_mirrored(b, nr, f, key, option)

\* In the iterator's order, whatever the direction.
map_write(b, nr, f, entries) ==
    FoldLeft(LAMBDA c, e : write_entry(c, nr, f, e[1], <<e[2]>>), b, entries)

\* The closure writes the value; it runs before the key is written in reverse.
map_write_msg(b, nr, f, key, body) ==
    LET keyed(c) == write_field(c, 1, f.key, key)
        inner    == IF b.reverse THEN keyed(write_msg(Emptied(b), 2, body))
                                 ELSE write_msg(keyed(Emptied(b)), 2, body)
    IN  write_msg(b, nr, inner.bytes)

=============================================================================
