------------------------------ MODULE FieldIter ------------------------------
(***************************************************************************)
(* The decoder tacky-build generates for a message (tacky-build/src/       *)
(* field_enum.rs): an iterator over the bytes of a message that yields one *)
(* field per call, skips the fields its schema does not name and stops at  *)
(* the first error.  Packed and map fields are read by PackedIter and      *)
(* PbMap of tacky/src/field.rs.                                            *)
(*                                                                         *)
(* A schema maps a field number to a field: its form, its key type (maps)  *)
(* and its value type.  What a call yields is <<number, value>>; a nested  *)
(* message and a packed field are handed out as the bytes they cover, to   *)
(* be decoded when the caller asks for them.                               *)
(***************************************************************************)
EXTENDS Scalars

CONSTANTS
    Schemas,    \* schemas: field number -> [form, key, val]
    Inputs      \* messages the iterator is given

Scalar(p) == [form |-> "scalar", key |-> "", val |-> p]
Packed(p) == [form |-> "packed", key |-> "", val |-> p]
Message == [form |-> "message", key |-> "", val |-> ""]
SimpleMap(k, v) == [form |-> "map", key |-> k, val |-> v]
MessageMap(k) == [form |-> "message map", key |-> k, val |-> ""]

\* What the generator makes fields of.  PackedIter takes Packable types only, so that
\* generated code with a packed field of strings does not compile.
Forms ==
    {Scalar(p) : p \in Packable \cup LenScalars} \cup {Packed(p) : p \in Packable}
    \cup {Message}
    \cup {SimpleMap(k, v) : k, v \in Packable \cup LenScalars}
    \cup {MessageMap(k) : k \in Packable \cup LenScalars}

ASSUME FieldIterAssumption ==
    /\ \A sch \in Schemas : \A nr \in DOMAIN sch : sch[nr] \in Forms
    /\ Inputs \subseteq Seq(Byte)

VARIABLES
    schema, \* the schema the iterator was generated from
    buf,    \* the bytes not read yet
    got,    \* the fields yielded so far
    failed, \* the error yielded, "none" if none was
    res,    \* what the last call of next returned
    turn    \* flips with every call, so that no call is a stuttering step

vars == <<schema, buf, got, failed, res, turn>>

Init ==
    /\ schema \in Schemas
    /\ buf \in Inputs
    /\ got = << >>
    /\ failed = "none"
    /\ res = "not called"
    /\ turn = 0

-----------------------------------------------------------------------------
(* One field's arm of the generated match: check_wire_type, then the read. *)

\* A value, once the wire type is the one the schema gives.
Checked(actual, expected, r) ==
    LET c == check_wire_type(actual, expected) IN IF IsErr(c) THEN c ELSE r

\* The bytes a value was read from.
RawBytes(s, r) == IF IsErr(r) THEN r ELSE [r EXCEPT !.value = SubSeq(s, 1, r.used)]

Numbered(nr, r) == IF IsErr(r) THEN r ELSE [r EXCEPT !.value = <<nr, @>>]

\* Packed: the payload of a LEN field, or the bytes of one unpacked element.
read_packed(p, wire, s) ==
    IF wire = "LEN" THEN decode_len(s)
    ELSE Checked(wire, WIRE_TYPE(p), RawBytes(s, read(p, s)))

\* A map entry's value; the bytes of a nested message are decoded lazily.
EntryValue(f, wire, s) ==
    IF f.form = "map" THEN Checked(wire, WIRE_TYPE(f.val), read(f.val, s))
                      ELSE Checked(wire, "LEN", decode_len(s))

\* One field of an entry, <<number, value>>.
EntryField(f, s) ==
    Try(decode_key(s), s, LAMBDA k, t :
        Numbered(k.nr,
            IF k.nr = 1 THEN Checked(k.wire, WIRE_TYPE(f.key), read(f.key, t))
            ELSE IF k.nr = 2 THEN EntryValue(f, k.wire, t)
            ELSE skip_field(k.wire, t)))

NoEntry == [err |-> "none", key |-> << >>, val |-> << >>]

\* Mutant: the first key and the first value are kept.
M_Earlier(field, nr, later) == IF field[1] = nr THEN <<field[2]>> ELSE later

\* A key or value already seen behind this field replaces it.
Earlier(field, nr, later) ==
    IF later = << >> /\ field[1] = nr THEN <<field[2]>> ELSE later

\* The loop of PbMap::read and read_msg over an entry's bytes.
EntryFields(f, e) ==
    LET scan[at \in 0..Len(e)] ==
            IF at = Len(e) THEN NoEntry
            ELSE LET i    == EntryField(f, After(e, at))
                     rest == scan[at + i.used]
                 IN  IF IsErr(i) THEN [NoEntry EXCEPT !.err = i.err]
                     ELSE [err |-> rest.err,
                           key |-> Earlier(i.value, 1, rest.key),
                           val |-> Earlier(i.value, 2, rest.val)]
    IN  scan[0]

\* An entry is its key and, optionally, its value; without a key it is invalid.
Entry(e) ==
    IF e.err # "none" THEN Err(e.err)
    ELSE IF e.key = << >> THEN Err("InvalidMapEntry")
    ELSE Read(<<e.key, e.val>>, 0)

read_entry(f, s) == Try(decode_len(s), s, LAMBDA e, t : Entry(EntryFields(f, e)))

read_field(f, wire, s) ==
    IF f.form = "packed" THEN read_packed(f.val, wire, s)
    ELSE IF f.form = "scalar" THEN Checked(wire, WIRE_TYPE(f.val), read(f.val, s))
    ELSE IF f.form = "message" THEN Checked(wire, "LEN", decode_len(s))
    ELSE Checked(wire, "LEN", read_entry(f, s))

-----------------------------------------------------------------------------
(* next(). *)

\* The field at the front of s, passed over if the schema does not name it.
Unknown(s) ==
    Try(decode_key(s), s, LAMBDA k, t :
        IF k.nr \in DOMAIN schema THEN Err("known") ELSE skip_field(k.wire, t))

\* Mutant: the cursor ends one byte behind an unknown field.
M_SkipUnknown(s) ==
    LET u == Unknown(s) IN IF IsErr(u) THEN s ELSE After(s, u.used + 1)

\* The loop over fields the schema does not name: what is left in front of
\* the next known field, the first malformed one or the end.
SkipUnknown(s) ==
    LET skip[at \in 0..Len(s)] ==
            LET u == Unknown(After(s, at)) IN
            IF IsErr(u) THEN at ELSE skip[at + u.used]
    IN  After(s, skip[0])

\* The field, or the error, at the front of what SkipUnknown left.
NextField(s) ==
    Try(decode_key(s), s, LAMBDA k, t :
        IF k.nr \in DOMAIN schema
        THEN Numbered(k.nr, read_field(schema[k.nr], k.wire, t))
        ELSE skip_field(k.wire, t))

Yield ==
    \E s \in {SkipUnknown(buf)} : \E r \in {NextField(s)} :
        /\ s # << >>
        /\ ~IsErr(r)
        /\ buf' = After(s, r.used)
        /\ got' = Append(got, r.value)
        /\ res' = "field"
        /\ UNCHANGED <<schema, failed>>

\* Mutant: the cursor is left behind the key of the malformed field.
M_Fail ==
    \E s \in {SkipUnknown(buf)} : \E r \in {NextField(s)} :
        /\ s # << >>
        /\ IsErr(r)
        /\ buf' = After(s, decode_key(s).used)
        /\ failed' = r.err
        /\ res' = "error"
        /\ UNCHANGED <<schema, got>>

\* "Every error path therefore empties the cursor first."
Fail ==
    \E s \in {SkipUnknown(buf)} : \E r \in {NextField(s)} :
        /\ s # << >>
        /\ IsErr(r)
        /\ buf' = << >>
        /\ failed' = r.err
        /\ res' = "error"
        /\ UNCHANGED <<schema, got>>

End ==
    /\ SkipUnknown(buf) = << >>
    /\ buf' = << >>
    /\ res' = "none"
    /\ UNCHANGED <<schema, got, failed>>

\* Whatever it returned, the caller may call it again.
Next == (Yield \/ Fail \/ End) /\ turn' = 1 - turn

-----------------------------------------------------------------------------
(***************************************************************************)
(* "A `for` loop over hostile input terminates": whatever the bytes, next  *)
(* returns None in the end, and then for good (field_enum.rs, next).       *)
(***************************************************************************)
Terminates == <>[](res = "none")

(***************************************************************************)
(* "The Err is followed by None": no field and no second error is made up  *)
(* from the bytes behind a malformed one.                                  *)
(***************************************************************************)
StopsAtError == [][res = "error" => res' = "none" /\ got' = got]_vars

=============================================================================
