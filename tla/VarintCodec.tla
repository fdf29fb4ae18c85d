---------------------------- MODULE VarintCodec ----------------------------
(***************************************************************************)
(* The two varint readers against each other and against the writer, over  *)
(* every byte string up to MaxLen.  The input grows one byte at a time, so *)
(* that each step crosses, sooner or later, the length at which            *)
(* decode_varint switches from its loop to the unrolled reader.            *)
(***************************************************************************)
EXTENDS Varint

CONSTANT MaxLen     \* bound: longest input

VARIABLE input      \* the bytes under the cursor

inputVars == <<input>>

InputInit == input = << >>

\* More bytes arrive behind what is already there.
Extend ==
    \E b \in Byte :
        /\ Len(input) < MaxLen
        /\ input' = Append(input, b)

InputSpec == InputInit /\ [][Extend]_inputVars

-----------------------------------------------------------------------------
(***************************************************************************)
(* A decoded value is a u64, whatever the bytes: the readers never build a *)
(* number that does not fit, and the cursor stays inside the input.        *)
(* (scalars.rs decode_varint_long's bound on the tenth byte.)              *)
(***************************************************************************)
DecodesWords ==
    LET d == decode_varint(input) IN
    d.ok => /\ d.value \in Word
            /\ d.used \in 1..Len(input)

(***************************************************************************)
(* Skipping an unknown varint field ends exactly where decoding it would   *)
(* have: every varint that decodes can be skipped, over the same bytes.    *)
(* The converse fails for overlong varints, which only skip_varint takes:  *)
(* those have MaxGroups bytes and a last group that is out of range.       *)
(***************************************************************************)
SkipAgrees ==
    LET d == decode_varint(input)
        k == skip_varint(input)
    IN  /\ d.ok => k.ok /\ k.used = d.used
        /\ k.ok /\ ~d.ok => k.used = MaxGroups /\ input[MaxGroups] >= LastGroup

(***************************************************************************)
(* Every value written in any width that holds it - the padded form a Tack *)
(* reserves included - decodes to itself, over exactly its own bytes, with *)
(* any bytes behind it: no writer's bytes run into the next field, whether *)
(* the loop or the unrolled reader gets them.                              *)
(***************************************************************************)
SelfDelimiting ==
    \A v \in Word : \A width \in encoded_len_varint(v)..MaxGroups :
        decode_varint(write_wide_varint(width, v) \o input) = Decoded(v, width)

(***************************************************************************)
(* What decodes is not changed by the bytes that come after it: the loop   *)
(* that reads a short input and the unrolled reader that takes over when   *)
(* the input is longer give the same value and the same length.            *)
(***************************************************************************)
ReadersAgree ==
    [][decode_varint(input).ok => decode_varint(input') = decode_varint(input)]_inputVars

(***************************************************************************)
(* An input the loop cannot read yet is only unfinished: it never rejects  *)
(* a string that more bytes could still complete.  A rejected string that  *)
(* gains a byte is either still unfinished or ends with that byte.         *)
(***************************************************************************)
RejectsOnlyUnfinished ==
    [][LET d == decode_varint(input') IN
       ~decode_varint(input).ok /\ d.ok => d.used = Len(input')]_inputVars

=============================================================================
