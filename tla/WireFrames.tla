----------------------------- MODULE WireFrames -----------------------------
(***************************************************************************)
(* What a protobuf writer promises, whatever its buffer: a stack of        *)
(* messages being written, the outermost first.  Bytes only ever join the  *)
(* innermost one; when it is closed, its length and its payload join the   *)
(* message around it, untouched.                                           *)
(*                                                                         *)
(* A forward writer appends and writes a message's tag when it opens it; a *)
(* downward-growing writer prepends and writes the tag when it closes it.  *)
(* TackWriter and RevWriter implement this module.                         *)
(***************************************************************************)
EXTENDS Varint, SequencesExt

CONSTANTS
    Tags,       \* the encoded field tags
    Widths,     \* widths a message may reserve for its length
    Prepends,   \* TRUE for a downward-growing writer
    MaySpill    \* TRUE if a message may be given up for lack of room

VARIABLE frames     \* the open messages, each [width, body]; frames[1] is the output

Join(old, new) == IF Prepends THEN new \o old ELSE old \o new

\* The length prefix: minimal, unless the reserved width is larger.
Prefix(width, n) ==
    write_wide_varint(IF width > encoded_len_varint(n) THEN width
                      ELSE encoded_len_varint(n), n)

Grew(old, new) == IF Prepends THEN IsSuffix(old, new) ELSE IsPrefix(old, new)

Init == frames = <<[width |-> 0, body |-> << >>]>>

\* Bytes join the innermost message; nothing written before moves.
Write ==
    /\ Len(frames') = Len(frames)
    /\ Front(frames') = Front(frames)
    /\ Last(frames').width = Last(frames).width
    /\ Grew(Last(frames).body, Last(frames').body)

Open ==
    \E tag \in Tags, width \in Widths :
        LET outer == IF Prepends THEN frames
                     ELSE [frames EXCEPT ![Len(frames)].body = @ \o tag]
        IN  frames' = Append(outer, [width |-> width, body |-> << >>])

\* The innermost message leaves the stack as `bytes` in the one around it.
Fold(bytes) ==
    /\ Len(frames) > 1
    /\ frames' = [Front(frames) EXCEPT ![Len(frames) - 1].body = Join(@, bytes)]

Close ==
    \E tag \in (IF Prepends THEN Tags ELSE {<< >>}) :
        LET m == Last(frames)
        IN  Fold(tag \o Prefix(m.width, Len(m.body)) \o m.body)

\* No room for the length: the placeholder is left as it was reserved.
Spill ==
    /\ MaySpill
    /\ LET m == Last(frames) IN Fold(write_wide_varint(m.width, 0) \o m.body)

Next == Write \/ Open \/ Close \/ Spill

Spec == Init /\ [][Next]_frames
=============================================================================
