----------------------------- MODULE MCUpgrade -----------------------------
(***************************************************************************)
(* Two schemas with fields of every form, an older one of each, and        *)
(* messages put together from whole, malformed and unknown fields.         *)
(***************************************************************************)
EXTENDS Upgrade

\* The older schema lacks the packed field, the nested message and the fifth field.
MCOldNrs == {1, 3, 6}

MCSchemas == {<<Scalar("Uint64"), Packed("Sint32"), SimpleMap("Bool", "Uint32"),
                Message, fifth, Scalar("PbString")>> : fifth \in {MessageMap("Bool"), Scalar("Fixed64")}}

MCNotUtf8 == {63}

Field(nr, wire, value) == EncodedTag(nr, wire) \o value

Delimited(nr, s) == Field(nr, "LEN", write_varint(Len(s)) \o s)

KeyField(x) == Field(1, "VARINT", <<x>>)

\* Entries: whole, value first, repeated key, unknown field, no value, no key.
Entries ==
    {KeyField(1) \o Field(2, "VARINT", <<3>>), Field(2, "VARINT", <<3>>) \o KeyField(0),
     KeyField(0) \o KeyField(1), Field(7, "VARINT", <<9>>) \o KeyField(1), KeyField(1), << >>}

Whole ==
    {Field(1, "VARINT", <<5>>), Field(1, "VARINT", <<40, 2>>),
     Delimited(2, <<1, 2>>), Field(2, "VARINT", <<1>>),
     Delimited(4, <<8>>), Field(5, "I64", <<8, 10>>), Delimited(6, <<7>>),
     Delimited(5, KeyField(1) \o Delimited(2, <<8>>))}
    \cup {Delimited(3, e) : e \in Entries \ {<< >>}}

Unnamed ==
    {Field(7, "VARINT", <<33, 0>>), Field(7, "LEN", <<1, 8>>),
     Field(7, "I32", <<8>>), Field(7, "I64", <<8, 8>>)}

Malformed ==
    {<<3>>,                         \* no such wire type
     <<40>>,                        \* half a key
     Field(1, "LEN", <<1, 5>>),     \* wrong wire type, field 1 or 2 behind it
     Field(1, "I32", <<8>>),
     Field(1, "VARINT", <<33, 33, 5, 8>>),  \* a varint too large for a u64
     Field(2, "I64", <<8, 8>>), Delimited(6, <<63>>), Delimited(3, << >>),
     Delimited(3, KeyField(0) \o <<3>>),
     Delimited(5, KeyField(1) \o Field(2, "VARINT", <<8>>)),
     Field(4, "LEN", <<3, 8>>), Field(7, "LEN", <<3, 8>>)}

Pieces == Whole \cup Unnamed \cup Malformed

MCInputs ==
    {<< >>} \cup Pieces \cup {a \o b : a, b \in Pieces}
    \cup {a \o b \o c : a \in Whole \cup Unnamed, b \in Unnamed \cup Malformed,
                        c \in {Field(1, "VARINT", <<40, 2>>), Delimited(6, <<7>>),
                               Delimited(3, KeyField(1)), Field(7, "LEN", <<3, 8>>)}}
=============================================================================
