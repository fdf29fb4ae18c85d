------------------------------ MODULE RoundTrip ------------------------------
(***************************************************************************)
(* A program that makes writer calls of FieldWriters against every kind of *)
(* buffer at once, and the generated decoder, FieldIter with PackedIter,   *)
(* on what one of the buffers holds in the end.                            *)
(*                                                                         *)
(* The schema is that of a message that nests itself: the closure of a     *)
(* nested message writes the list of one repeated field, Inner, of the     *)
(* same schema.                                                            *)
(***************************************************************************)
EXTENDS FieldIter, FieldWriters

CONSTANTS
    Fields,     \* field number -> [label, key, val], val "message" for a message
    Values,     \* scalar type -> values a caller passes
    Lists,      \* scalar type -> sequences of them
    Keys,       \* map keys
    Inner,      \* the field number a nested message's closure writes
    MaxCalls    \* bound: writer calls in the program

\* The fields of one label, those of nested messages apart.
Labelled(label) ==
    {nr \in DOMAIN Fields : Fields[nr].label = label /\ Fields[nr].val # "message"}

Nested(label) ==
    {nr \in DOMAIN Fields : Fields[nr].label = label /\ Fields[nr].val = "message"}

Maps == Labelled("PbMap") \cup Nested("PbMap")

\* A key is a u32; "unusable as a map key": PbDisplay and PbWrite.
ASSUME RoundTripAssumption ==
    /\ \A nr \in DOMAIN Fields \cup {1, 2} : nr \in Nat /\ (nr + 1) * KeyRadix <= U32
    /\ \A nr \in DOMAIN Fields \ (Labelled("Packed") \cup Nested("Packed")) :
          Fields[nr].val \in Packable \cup LenScalars \cup {"message"}
    /\ \A nr \in Labelled("Packed") \cup Nested("Packed") : Fields[nr].val \in Packable
    /\ \A nr \in Maps :
          /\ Fields[nr].key \in Packable \cup LenScalars
          /\ \A key \in Keys : Suits(Fields[nr].key, key) /\ ~key.streams
    /\ \A p \in Packable \cup LenScalars :
          /\ \A v \in Values[p] : Suits(p, v)
          /\ \A values \in Lists[p] :
                values \in Seq(ToSet(values)) /\ \A v \in ToSet(values) : Suits(p, v)
    /\ Inner \in Labelled("Repeated")

VARIABLES
    out,        \* the buffers written to, by name
    said,       \* what the calls said: lists of fields, each written as one
    calls,      \* writer calls made
    reading     \* the buffer being decoded, "none" before

programVars == <<out, said, calls, reading>>

Forward == [forward |-> Buffer(FALSE, FALSE)]

\* RevBuf claims; a reverse buffer that does not may be written by a user.
Each ==
    [forward   |-> Buffer(FALSE, FALSE),
     claiming  |-> Buffer(TRUE, TRUE),
     mirroring |-> Buffer(TRUE, FALSE)]

RoundTripInit ==
    /\ Init
    /\ out \in {Forward, Each}
    /\ said = << >>
    /\ calls = 0
    /\ reading = "none"

-----------------------------------------------------------------------------
(* Writing.  A call leaves the reader alone. *)

\* A value that streams its text panics in a buffer that grows downwards.
Writable(v) == v.streams => DOMAIN out = {"forward"}

AllWritable(values) == \A i \in 1..Len(values) : Writable(values[i])

\* No buffer is longer than a usize.
Write(W(_), lists) ==
    /\ reading = "none"
    /\ calls < MaxCalls
    /\ calls' = calls + 1
    /\ out' = [k \in DOMAIN out |-> W(out[k])]
    /\ \A k \in DOMAIN out : Len(out'[k].bytes) \in Word
    /\ said' = said \o lists
    /\ UNCHANGED <<vars, reading>>

\* What a call says: the number and the value it has for whoever reads it.
Says(nr, values) == [i \in 1..Len(values) |-> <<nr, values[i].text>>]

WriteOptional ==
    \E nr \in Labelled("Optional") :
        \E v \in Values[Fields[nr].val] : \E option \in {<< >>, <<v>>} :
            /\ Writable(v)
            /\ Write(LAMBDA b : optional_write(b, nr, Fields[nr].val, option),
                     <<Says(nr, option)>>)

WriteRequired ==
    \E nr \in Labelled("Required") : \E v \in Values[Fields[nr].val] :
        /\ Writable(v)
        /\ Write(LAMBDA b : write_field(b, nr, Fields[nr].val, v), <<Says(nr, <<v>>)>>)

WritePlain ==
    \E nr \in Labelled("Plain") : \E v \in Values[Fields[nr].val] :
        /\ Writable(v)
        /\ Write(LAMBDA b : plain_write(b, nr, Fields[nr].val, v),
                 IF v = Value(Default(Fields[nr].val)) THEN << >> ELSE <<Says(nr, <<v>>)>>)

WriteRepeated ==
    \E nr \in Labelled("Repeated") : \E values \in Lists[Fields[nr].val] :
        /\ AllWritable(values)
        /\ Write(LAMBDA b : repeated_write(b, nr, Fields[nr].val, values),
                 <<Says(nr, values)>>)

\* repeated's write_single: one element a call.
WriteSingle ==
    \E nr \in Labelled("Repeated") : \E v \in Values[Fields[nr].val] :
        /\ Writable(v)
        /\ Write(LAMBDA b : write_field(b, nr, Fields[nr].val, v), <<Says(nr, <<v>>)>>)

WriteOneof ==
    \E nr \in Labelled("Oneof") : \E v \in Values[Fields[nr].val] :
        /\ Writable(v)
        /\ Write(LAMBDA b : oneof_write(b, nr, Fields[nr].val, v), <<Says(nr, <<v>>)>>)

SaysPacked(nr, values) ==
    IF values = << >> THEN << >> ELSE <<<<nr, [i \in 1..Len(values) |-> values[i].text]>>>>

WritePacked ==
    \E nr \in Labelled("Packed") : \E values \in Lists[Fields[nr].val] :
        Write(LAMBDA b : packed_write(b, nr, Fields[nr].val, values),
              <<SaysPacked(nr, values)>>)

WriteExact ==
    \E nr \in Labelled("Packed") : \E values \in Lists[Fields[nr].val] :
        Write(LAMBDA b : write_exact(b, nr, Fields[nr].val, values),
              <<SaysPacked(nr, values)>>)

\* An entry, its key and value as PbMap::read returns them.
SaysEntry(nr, key, option) ==
    <<<<nr, <<<<key.text>>, [i \in 1..Len(option) |-> option[i].text]>>>>>>

WriteEntry ==
    \E nr \in Labelled("PbMap") :
        \E key \in Keys, v \in Values[Fields[nr].val] : \E option \in {<< >>, <<v>>} :
            /\ ~v.streams   \* "unusable as a map key or value"
            /\ Write(LAMBDA b : write_entry(b, nr, Fields[nr], key, option),
                     <<SaysEntry(nr, key, option)>>)

\* maps::write: an entry at a time, in either direction.
WriteMap ==
    \E nr \in Labelled("PbMap") :
        \E k1, k2 \in Keys, values \in Lists[Fields[nr].val] :
            /\ Len(values) = 2
            /\ ~values[1].streams /\ ~values[2].streams
            /\ Write(LAMBDA b : map_write(b, nr, Fields[nr],
                                          <<<<k1, values[1]>>, <<k2, values[2]>>>>),
                     <<SaysEntry(nr, k1, <<values[1]>>), SaysEntry(nr, k2, <<values[2]>>)>>)

\* What the closure of a nested message writes.
Body(b, values) ==
    repeated_write(Emptied(b), Inner, Fields[Inner].val, values).bytes

InnerLists == Lists[Fields[Inner].val]

WriteMsg ==
    \E nr \in Nested("Optional") \cup Nested("Repeated") : \E values \in InnerLists :
        /\ AllWritable(values)
        /\ Write(LAMBDA b : write_msg(b, nr, Body(b, values)),
                 <<<<<<nr, Says(Inner, values)>>>>>>)

WriteMsgs ==
    \E nr \in Nested("Repeated") : \E first, second \in InnerLists :
        /\ AllWritable(first) /\ AllWritable(second)
        /\ Write(LAMBDA b : write_msgs(b, nr, <<Body(b, first), Body(b, second)>>),
                 <<<<<<nr, Says(Inner, first)>>, <<nr, Says(Inner, second)>>>>>>)

WriteMapMsg ==
    \E nr \in Nested("PbMap") : \E key \in Keys, values \in InnerLists :
        /\ AllWritable(values)
        /\ Write(LAMBDA b : map_write_msg(b, nr, Fields[nr], key, Body(b, values)),
                 <<<<<<nr, <<<<key.text>>, <<Says(Inner, values)>>>>>>>>>>)

-----------------------------------------------------------------------------
(* Reading. *)

\* The form the generator gives a field in the decoder.
Form(f) ==
    IF f.label = "Packed" THEN Packed(f.val)
    ELSE IF f.label = "PbMap"
         THEN IF f.val = "message" THEN MessageMap(f.key) ELSE SimpleMap(f.key, f.val)
    ELSE IF f.val = "message" THEN Message
    ELSE Scalar(f.val)

Decode ==
    /\ reading = "none"
    /\ \E k \in DOMAIN out :
        /\ reading' = k
        /\ buf' = out[k].bytes
        /\ schema' = [nr \in DOMAIN Fields |-> Form(Fields[nr])]
    /\ UNCHANGED <<got, failed, res, turn, out, said, calls>>

ReadNext ==
    /\ reading # "none"
    /\ res # "none"
    /\ Next
    /\ UNCHANGED programVars

RoundTripNext ==
    \/ WriteOptional \/ WriteRequired \/ WritePlain \/ WriteRepeated \/ WriteSingle
    \/ WriteOneof \/ WritePacked \/ WriteExact \/ WriteEntry \/ WriteMap
    \/ WriteMsg \/ WriteMsgs \/ WriteMapMsg \/ Decode \/ ReadNext

RoundTripSpec == RoundTripInit /\ [][RoundTripNext]_<<vars, programVars>>

-----------------------------------------------------------------------------
(* What a caller makes of the bytes it is handed. *)

\* What an iterator's loop has when its first result is r and its further ones
\* are `rest`, a function of how far it went.
Collect(r, rest) == IF IsErr(r) THEN << >> ELSE <<r.value>> \o rest[r.used]

\* PackedIter: the elements before the first malformed one.
unpack(p, s) ==
    LET iter[at \in 0..Len(s)] ==
            IF at = Len(s) THEN << >>
            ELSE Collect(read(p, After(s, at)), [n \in 1..Len(s) - at |-> iter[at + n]])
    IN  iter[0]

\* The fields of a nested message, decoded in a loop.
Unnest(s) ==
    LET iter[at \in 0..Len(s)] ==
            IF at = Len(s) THEN << >>
            ELSE Collect(NextField(After(s, at)), [n \in 1..Len(s) - at |-> iter[at + n]])
    IN  iter[0]

\* The message in what a message or a map field yields, and the field with it.
Enclosed(f, value) == IF f.form = "message" THEN value ELSE value[2][1]

WithMessage(f, value, m) == IF f.form = "message" THEN m ELSE <<value[1], <<m>>>>

Heard(field) ==
    LET f == schema[field[1]] IN
    <<field[1],
      IF f.form = "packed" THEN unpack(f.val, field[2])
      ELSE IF f.form \in {"message", "message map"}
           THEN WithMessage(f, field[2], Unnest(Enclosed(f, field[2])))
      ELSE field[2]>>

HeardAll == [i \in 1..Len(got) |-> Heard(got[i])]

\* The decoder has returned None.
Finished == reading # "none" /\ res = "none"

(***************************************************************************)
(* What a program writes is what its reader gets, in every kind of buffer: *)
(* the fields of the calls in call order, in reverse call order through a  *)
(* buffer that grows downwards ("RevBuf's ordering contract"), and every   *)
(* list in its own order, in nested messages too (field.rs, all writers).  *)
(***************************************************************************)
ReadsBack ==
    Finished =>
        /\ failed = "none"
        /\ HeardAll = FlattenSeq(ordered(out[reading], said))

(***************************************************************************)
(* A call that writes one run of fields writes the same bytes whichever    *)
(* the direction and whether or not the buffer hands out blocks: the exact *)
(* packed writer, the claimed map entry and the mirrored one are shortcuts *)
(* and nothing else (field.rs write_exact, write_entry, write_msg).        *)
(***************************************************************************)
Added(k) ==
    LET n == Len(out'[k].bytes) - Len(out[k].bytes) IN
    IF out[k].reverse THEN SubSeq(out'[k].bytes, 1, n)
                      ELSE After(out'[k].bytes, Len(out[k].bytes))

DirectionsAgree ==
    [][Len(said') = Len(said) + 1 =>
        \A k \in DOMAIN out : Added(k) = Added("forward")]_out

(***************************************************************************)
(* "The formatted output becomes the field's UTF-8 value" (buf.rs 707,     *)
(* PbDisplay): a string member of a oneof has the text it was given.       *)
(***************************************************************************)
OutputBecomesValue ==
    Finished =>
        \A i \in 1..Len(got) :
            Fields[got[i][1]].label = "Oneof" =>
                \E j \in 1..Len(said) : said[j] = <<got[i]>>
=============================================================================
