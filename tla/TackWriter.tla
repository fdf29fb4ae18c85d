----------------------------- MODULE TackWriter -----------------------------
(***************************************************************************)
(* The forward writer: a Vec<u8> or a SliceBuf (tacky/src/buf.rs) and the  *)
(* Tacks open on it (tacky/src/tack.rs).                                   *)
(*                                                                         *)
(* A Tack reserves a placeholder for a length it does not know yet, lets   *)
(* the caller write behind it and, when dropped, patches the length in     *)
(* place, or, when the length needs more bytes than were reserved, shifts  *)
(* the payload to make room.  Tacks nest: each borrows the buffer of the   *)
(* one around it, so they are dropped innermost first - by the end of the  *)
(* closure that writes the message, or by a panic that unwinds it.         *)
(***************************************************************************)
EXTENDS Varint, SequencesExt

CONSTANTS
    Chunks,     \* byte strings one put_* call writes
    Tags,       \* encoded field tags
    Widths,     \* placeholder widths: DEFAULT_WIDTH, and 2 for formatted values
    Growable,   \* TRUE for Vec<u8>, FALSE for SliceBuf
    Capacity,   \* the SliceBuf's size; for a Vec, bound on the bytes written
    Stale,      \* bytes `grow` may uncover: zeros in a Vec, anything in a slice
    MaxDepth,   \* bound: messages open at once
    U32         \* 2^32, the modulus of `as u32`

ASSUME TackAssumption ==
    /\ Capacity \in Nat
    /\ MaxDepth \in Nat
    /\ U32 \in Nat /\ U32 >= 1
    /\ Growable \in BOOLEAN
    /\ Widths \subseteq 1..5
    /\ Stale \subseteq Byte
    /\ Chunks \subseteq Seq(Byte)
    /\ Tags \subseteq Seq(Byte)

\* A buffer of less than 4 GiB: offsets survive `as u32`.
StartFits == Capacity < U32

VARIABLES
    buf,    \* the written bytes, buffer[..len()]
    open,   \* the live Tacks, outermost first
    mode    \* what the thread is doing

vars == <<buf, open, mode>>

Tack == [start : Nat, width : 1..5]

Modes == {"running", "unwinding", "done", "panicked", "aborted"}

Init ==
    /\ buf = << >>
    /\ open = << >>
    /\ mode = "running"

-----------------------------------------------------------------------------
\* n more bytes can be had: always from a Vec, from a SliceBuf while they last.
Fits(n) == Growable \/ Len(buf) + n <= Capacity

\* Bound: the program under the model stops writing to a Vec at Capacity.
Bounded(n) == Len(buf) + n <= Capacity

\* A panic drops the live Tacks first.
Panic == mode' = IF open = << >> THEN "panicked" ELSE "unwinding"

\* put_u8, put_slice, put_varint and the fixed-width puts: all or nothing.
Put(c) ==
    /\ mode = "running"
    /\ Bounded(Len(c))
    /\ buf' = buf \o c
    /\ UNCHANGED <<open, mode>>

PutPanics(c) ==
    /\ mode = "running"
    /\ ~Fits(Len(c))
    /\ Panic
    /\ UNCHANGED <<buf, open>>

-----------------------------------------------------------------------------
\* Mutant: `start` is taken before the placeholder is written.
M_NewTack(len, width) == [start |-> len % U32, width |-> width]

\* Mutant: the width is subtracted from the offset instead of added.
M_NewTack_sign(len, width) == [start |-> len - width, width |-> width]

\* The Tack made after `width` placeholder bytes at offset `len`.
NewTack(len, width) == [start |-> (len + width) % U32, width |-> width]

\* put_msg up to the closure: tag.write, then Tack::new.
BeginMsg(tag, width) ==
    /\ mode = "running"
    /\ Len(open) < MaxDepth
    /\ Bounded(Len(tag) + width)
    /\ buf' = buf \o tag \o write_wide_varint(width, 0)
    /\ open' = Append(open, NewTack(Len(buf) + Len(tag), width))
    /\ UNCHANGED mode

\* The tag goes in whole or not at all, the placeholder byte by byte.
BeginMsgPanics(tag, width) ==
    /\ mode = "running"
    /\ Len(open) < MaxDepth
    /\ ~Fits(Len(tag) + width)
    /\ buf' = IF Fits(Len(tag))
              THEN buf \o tag \o SubSeq(write_wide_varint(width, 0), 1,
                                        Capacity - Len(buf) - Len(tag))
              ELSE buf
    /\ Panic
    /\ UNCHANGED open

\* The caller's closure panics on its own.
ClosurePanics ==
    /\ mode = "running"
    /\ open # << >>
    /\ Panic
    /\ UNCHANGED <<buf, open>>

-----------------------------------------------------------------------------
(* Dropping the innermost Tack: Tack::close. *)

\* b with `bytes` stored from offset lo on.
Patched(b, lo, bytes) ==
    [i \in 1..Len(b) |-> IF i \in (lo + 1)..(lo + Len(bytes))
                         THEN bytes[i - lo] ELSE b[i]]

\* WriteBuf::copy_within(lo..hi, dest), a memmove.
copy_within(b, lo, hi, dest) ==
    [i \in 1..Len(b) |-> IF i \in (dest + 1)..(dest + hi - lo)
                         THEN b[i - dest + lo] ELSE b[i]]

\* Mutant: the payload is moved without the byte that ends it.
M_fix_overflow(b, t, required, fill) ==
    Patched(copy_within(b \o fill, t.start, Len(b) - 1, t.start + Len(fill)),
            t.start - t.width, write_wide_varint(required, Len(b) - t.start))

\* Mutant: the length is written where the payload began, over nothing reserved.
M_fix_overflow_prefix(b, t, required, fill) ==
    Patched(copy_within(b \o fill, t.start, Len(b), t.start + Len(fill)),
            0, write_wide_varint(required, Len(b) - t.start))

\* Grow by `fill`, shift the payload, store the length over both gaps.
fix_overflow(b, t, required, fill) ==
    Patched(copy_within(b \o fill, t.start, Len(b), t.start + Len(fill)),
            t.start - t.width, write_wide_varint(required, Len(b) - t.start))

DataLen(t) == Len(buf) - t.start

\* The bytes the length needs beyond those reserved; none or fewer if it fits.
Extra(t) == encoded_len_varint(DataLen(t)) - t.width

Dropping == mode \in {"running", "unwinding"} /\ open # << >>

\* The last Tack of an unwinding thread lets the panic reach the caller.
Unstack ==
    /\ open' = Front(open)
    /\ mode' = IF mode = "unwinding" /\ Len(open) = 1 THEN "panicked" ELSE mode

CloseInPlace ==
    /\ Dropping
    /\ LET t == Last(open) IN
        /\ Extra(t) <= 0
        /\ buf' = Patched(buf, t.start - t.width,
                          write_wide_varint(t.width, DataLen(t)))
    /\ Unstack

CloseOverflow ==
    /\ Dropping
    /\ LET t == Last(open) IN
        /\ Extra(t) > 0
        /\ Fits(Extra(t))
        /\ \E fill \in [1..Extra(t) -> Stale] :
               buf' = fix_overflow(buf, t, encoded_len_varint(DataLen(t)), fill)
    /\ Unstack

\* `grow` panics inside drop.  In a thread that is unwinding already that is
\* an abort; otherwise the Tack is gone, unpatched, and the unwinding starts.
CloseExhausted ==
    /\ Dropping
    /\ Extra(Last(open)) > 0
    /\ ~Fits(Extra(Last(open)))
    /\ \/ /\ mode = "unwinding"
          /\ mode' = "aborted"
          /\ UNCHANGED open
       \/ /\ mode = "running"
          /\ open' = Front(open)
          /\ mode' = IF Len(open) = 1 THEN "panicked" ELSE "unwinding"
    /\ UNCHANGED buf

Drop == CloseInPlace \/ CloseOverflow \/ CloseExhausted

-----------------------------------------------------------------------------
\* The outermost write returns.
Finish ==
    /\ mode = "running"
    /\ open = << >>
    /\ mode' = "done"
    /\ UNCHANGED <<buf, open>>

Ended == mode \in {"done", "panicked", "aborted"}

Terminating == Ended /\ UNCHANGED vars

Next ==
    \/ \E c \in Chunks : Put(c) \/ PutPanics(c)
    \/ \E tag \in Tags, width \in Widths :
          BeginMsg(tag, width) \/ BeginMsgPanics(tag, width)
    \/ ClosurePanics
    \/ Drop
    \/ Finish \/ Terminating

Spec == Init /\ [][Next]_vars

-----------------------------------------------------------------------------
TypeOK ==
    /\ buf \in Seq(Byte)
    /\ open \in Seq(Tack)
    /\ mode \in Modes

(***************************************************************************)
(* The SAFETY comments of Tack::close and fix_overflow: for its whole life *)
(* a Tack's placeholder and payload lie inside the written bytes, so that  *)
(* both unchecked slices are in range.                                     *)
(***************************************************************************)
StartInBuffer ==
    \A i \in 1..Len(open) :
        open[i].width <= open[i].start /\ open[i].start <= Len(buf)

(***************************************************************************)
(* Tacks nest: the placeholder of an inner one lies wholly inside the      *)
(* payload of the one around it, so that no shift of an inner payload can  *)
(* move or overwrite an outer placeholder (tack.rs fix_overflow).          *)
(***************************************************************************)
Nested ==
    \A i, j \in 1..Len(open) :
        i < j => open[i].start <= open[j].start - open[j].width

\* Tack t's placeholder, as it was reserved.
Reserved(b, t) ==
    SubSeq(b, t.start - t.width + 1, t.start) = write_wide_varint(t.width, 0)

(***************************************************************************)
(* Until it is patched a placeholder reads as a varint of length zero, of  *)
(* exactly the reserved width, at the place the Tack remembers: whatever   *)
(* inner messages did - shifts included - it is still where it was.        *)
(***************************************************************************)
PlaceholdersKept == \A i \in 1..Len(open) : Reserved(buf, open[i])

(***************************************************************************)
(* "Panics if the buffer is exhausted" (buf.rs, SliceBuf): running out of  *)
(* room is a panic, which the caller of a std program may catch; it never  *)
(* ends the process.                                                       *)
(***************************************************************************)
ExhaustionPanics == mode # "aborted"

-----------------------------------------------------------------------------
(* Refinement: message i is what lies between the start of the i-th Tack   *)
(* and the placeholder of the next one.                                    *)

BodyEnd(i) ==
    IF i < Len(open) THEN open[i + 1].start - open[i + 1].width ELSE Len(buf)

Frames ==
    <<[width |-> 0, body |-> SubSeq(buf, 1, BodyEnd(0))]>>
      \o [i \in 1..Len(open) |->
            [width |-> open[i].width,
             body  |-> SubSeq(buf, open[i].start + 1, BodyEnd(i))]]

Wire == INSTANCE WireFrames WITH
            frames <- Frames, Prepends <- FALSE, MaySpill <- ~Growable

(***************************************************************************)
(* The buffer always spells the messages the caller wrote, however deep    *)
(* they nest and however many lengths outgrow their placeholder: closing a *)
(* message - on return or during unwinding - frames its payload unchanged  *)
(* in its parent, with the exact length; only a full SliceBuf may give a   *)
(* message up.                                                             *)
(***************************************************************************)
Framing == Wire!Spec
=============================================================================
