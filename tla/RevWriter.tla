----------------------------- MODULE RevWriter -----------------------------
(***************************************************************************)
(* The downward-growing writer: RevBuf (tacky/src/buf.rs).  Every write    *)
(* goes in front of what is there, so a message's length is known by the   *)
(* time it is written: put_msg runs the closure first and then claims the  *)
(* bytes of the length and of the tag at once.  No placeholder, no shift,  *)
(* nothing to do when a panic unwinds.                                     *)
(***************************************************************************)
EXTENDS Varint, SequencesExt

CONSTANTS
    Chunks,     \* byte strings one put_* call writes
    Tags,       \* encoded field tags
    Capacity,   \* size of the backing slice
    Stale,      \* what the slice may hold before it is written
    MaxDepth    \* bound: messages open at once

VARIABLES
    backing,    \* the caller's slice
    pos,        \* index of the first written byte; Capacity when empty
    open,       \* put_msg calls whose closure is running, outermost first
    mode        \* "running", "done" or "panicked"

vars == <<backing, pos, open, mode>>

Init ==
    /\ \E b \in Stale : backing = [i \in 1..Capacity |-> b]
    /\ pos = Capacity
    /\ open = << >>
    /\ mode = "running"

WrittenLen == Capacity - pos

written == SubSeq(backing, pos + 1, Capacity)

\* Mutant: the cursor is moved without asserting that there is room.
M_Prepend(bytes) ==
    /\ pos' = pos - Len(bytes)
    /\ backing' = [i \in 1..Capacity |->
                    IF i \in (pos' + 1)..pos THEN bytes[i - pos'] ELSE backing[i]]

\* claim(Len(bytes)), filled front to back.
Prepend(bytes) ==
    /\ pos >= Len(bytes)
    /\ pos' = pos - Len(bytes)
    /\ backing' = [i \in 1..Capacity |->
                    IF i \in (pos' + 1)..pos THEN bytes[i - pos'] ELSE backing[i]]

\* Mutant: a write that takes the last byte panics.
M_Exhausted(n) ==
    /\ pos <= n
    /\ mode' = "panicked"
    /\ UNCHANGED <<backing, pos, open>>

\* "RevBuf exhausted": no destructor runs, the closures just end.
Exhausted(n) ==
    /\ pos < n
    /\ mode' = "panicked"
    /\ UNCHANGED <<backing, pos, open>>

-----------------------------------------------------------------------------
\* put_slice, put_varint, put_len_delimited, claim_block: one block each.
Put(c) ==
    /\ mode = "running"
    /\ Prepend(c)
    /\ UNCHANGED <<open, mode>>

PutPanics(c) ==
    /\ mode = "running"
    /\ Exhausted(Len(c))

\* put_msg up to the closure: only the length so far is remembered.
BeginMsg(tag) ==
    /\ mode = "running"
    /\ Len(open) < MaxDepth
    /\ open' = Append(open, [before |-> WrittenLen, tag |-> tag])
    /\ UNCHANGED <<backing, pos, mode>>

\* Mutant: the payload's length is taken as everything written so far.
M_Header(m) == m.tag \o write_varint(WrittenLen)

\* Tag and length of the message whose closure has returned.
Header(m) == m.tag \o write_varint(WrittenLen - m.before)

\* put_msg after the closure.
EndMsg ==
    /\ mode = "running"
    /\ open # << >>
    /\ Prepend(Header(Last(open)))
    /\ open' = Front(open)
    /\ UNCHANGED mode

EndMsgPanics ==
    /\ mode = "running"
    /\ open # << >>
    /\ Exhausted(Len(Header(Last(open))))

ClosurePanics ==
    /\ mode = "running"
    /\ open # << >>
    /\ mode' = "panicked"
    /\ UNCHANGED <<backing, pos, open>>

Finish ==
    /\ mode = "running"
    /\ open = << >>
    /\ mode' = "done"
    /\ UNCHANGED <<backing, pos, open>>

Terminating == mode # "running" /\ UNCHANGED vars

Next ==
    \/ \E c \in Chunks : Put(c) \/ PutPanics(c)
    \/ \E tag \in Tags : BeginMsg(tag)
    \/ EndMsg \/ EndMsgPanics
    \/ ClosurePanics
    \/ Finish \/ Terminating

Spec == Init /\ [][Next]_vars

-----------------------------------------------------------------------------
(* Refinement: message i is what was written after it was opened and       *)
(* before the next one was, counted from the end of the slice.             *)

BodyLen(i) == IF i < Len(open) THEN open[i + 1].before ELSE WrittenLen

Frames ==
    <<[width |-> 0, body |-> SubSeq(backing, Capacity - BodyLen(0) + 1, Capacity)]>>
      \o [i \in 1..Len(open) |->
            [width |-> 1,
             body  |-> SubSeq(backing, Capacity - BodyLen(i) + 1,
                              Capacity - open[i].before)]]

Wire == INSTANCE WireFrames WITH
            frames <- Frames, Widths <- {1}, Prepends <- TRUE, MaySpill <- FALSE

TypeOK ==
    /\ backing \in [1..Capacity -> Byte]
    /\ pos \in 0..Capacity
    /\ open \in Seq([before : 0..Capacity, tag : Tags])
    /\ mode \in {"running", "done", "panicked"}

(***************************************************************************)
(* Written backwards, the slice still spells the messages the caller       *)
(* wrote: each payload is framed with its exact, minimal length and its    *)
(* tag, and no byte once written is ever moved or overwritten - not even   *)
(* by a write that panics (buf.rs RevBuf::put_msg, claim).                 *)
(***************************************************************************)
Framing == Wire!Spec
=============================================================================
