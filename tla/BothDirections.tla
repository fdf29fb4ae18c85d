--------------------------- MODULE BothDirections ---------------------------
(***************************************************************************)
(* One program written twice: forwards into a growing buffer, then, its    *)
(* writes in the opposite order, into a RevBuf.  This is the contract the  *)
(* field writers branch on (WriteBuf::REVERSE, OrderedIter in              *)
(* tacky/src/buf.rs): "Writing a message's fields in descending field      *)
(* order therefore reproduces exactly the bytes an ascending forward       *)
(* writer produces".                                                       *)
(***************************************************************************)
EXTENDS Varint, SequencesExt

CONSTANTS
    Chunks, Tags,
    Capacity,       \* bound: bytes written forwards before lengths grow
    RevCapacity,    \* size of the RevBuf's slice
    MaxDepth, U32,
    Widths,         \* placeholders of the forward writer
    Stale           \* what the RevBuf's slice holds before

ASSUME BothAssumption ==
    /\ Capacity \in Nat
    /\ RevCapacity \in Nat
    /\ MaxDepth \in Nat
    /\ U32 \in Nat /\ U32 >= 1
    /\ Widths \subseteq 1..5
    /\ Stale \subseteq Byte
    /\ Chunks \subseteq Seq(Byte)
    /\ Tags \subseteq Seq(Byte)

VARIABLES
    buf, tacks, mode,           \* the forward writer
    backing, pos, msgs, rmode,  \* the reverse writer
    script,                     \* the calls the program has still to mirror
    tags,                       \* tags of the forward writer's open messages
    padded                      \* whether the program reserved more than the default width

fvars == <<buf, tacks, mode>>
rvars == <<backing, pos, msgs, rmode>>
vars == <<buf, tacks, mode, backing, pos, msgs, rmode, script, tags, padded>>

F == INSTANCE TackWriter WITH
        open <- tacks, Growable <- TRUE, Stale <- {0}

R == INSTANCE RevWriter WITH
        open <- msgs, mode <- rmode, Capacity <- RevCapacity

Init ==
    /\ F!Init
    /\ R!Init
    /\ script = << >>
    /\ tags = << >>
    /\ padded = FALSE

-----------------------------------------------------------------------------
(* The forward pass, remembering the calls. *)

Record(op, bytes) == script' = Append(script, [op |-> op, bytes |-> bytes])

WritePut ==
    \E c \in Chunks :
        /\ F!Put(c)
        /\ Record("put", c)
        /\ UNCHANGED <<rvars, tags, padded>>

WriteBegin ==
    \E tag \in Tags : \E width \in Widths :
        /\ F!BeginMsg(tag, width)
        /\ Record("begin", tag)
        /\ tags' = Append(tags, tag)
        /\ padded' = (padded \/ width # 1)
        /\ UNCHANGED rvars

WriteEnd ==
    /\ mode = "running"
    /\ F!Drop
    /\ Record("end", Last(tags))
    /\ tags' = Front(tags)
    /\ UNCHANGED <<rvars, padded>>

WriteDone ==
    /\ F!Finish
    /\ UNCHANGED <<rvars, script, tags, padded>>

\* The program panics inside a message, and the Tacks are dropped on the way out.
WritePanics ==
    /\ F!ClosurePanics
    /\ UNCHANGED <<rvars, script, tags, padded>>

Unwind ==
    /\ mode = "unwinding"
    /\ F!Drop
    /\ UNCHANGED <<rvars, script, tags, padded>>

-----------------------------------------------------------------------------
\* The mirrored pass: the calls come back to front.  Within one call of a writer it is
\* OrderedIter that sees to this (`.rev()`, buf.rs:237); from call to call it is what a caller
\* has to do, who writes the fields in descending order (buf.rs:483-493).
NextCall == Last(script)

Mirroring == mode = "done" /\ script # << >> /\ rmode = "running"

Called(op) ==
    /\ Mirroring
    /\ NextCall.op = op
    /\ script' = Front(script)
    /\ UNCHANGED <<fvars, tags, padded>>

MirrorPut == Called("put") /\ (R!Put(NextCall.bytes) \/ R!PutPanics(NextCall.bytes))

\* A message's end is the mirrored program's put_msg call, its begin the end
\* of that call's closure.
MirrorEnd == Called("end") /\ R!BeginMsg(NextCall.bytes)

MirrorBegin == Called("begin") /\ (R!EndMsg \/ R!EndMsgPanics)

\* The mirrored program may panic as well: no destructor runs.
MirrorPanics ==
    /\ Mirroring
    /\ R!ClosurePanics
    /\ UNCHANGED <<fvars, script, tags, padded>>

MirrorDone ==
    /\ mode = "done" /\ script = << >>
    /\ R!Finish
    /\ UNCHANGED <<fvars, script, tags, padded>>

Terminating == (rmode # "running" \/ (F!Ended /\ mode # "done")) /\ UNCHANGED vars

Next ==
    \/ WritePut \/ WriteBegin \/ WriteEnd \/ WriteDone \/ WritePanics \/ Unwind
    \/ MirrorPut \/ MirrorEnd \/ MirrorBegin \/ MirrorPanics \/ MirrorDone
    \/ Terminating

Spec == Init /\ [][Next]_vars

-----------------------------------------------------------------------------
(***************************************************************************)
(* The two writers agree byte for byte: placeholders patched and shifted   *)
(* on one side, exact lengths prepended on the other, the message is the   *)
(* same (buf.rs, RevBuf: "reproduces exactly the bytes").  Where a caller  *)
(* asked for a wider placeholder the forward message is padded.            *)
(***************************************************************************)
SameBytes ==
    rmode = "done" => IF padded THEN Len(R!written) <= Len(buf) ELSE R!written = buf

(***************************************************************************)
(* A RevBuf runs out of room only for a message that is larger than its    *)
(* slice: the size of the encoding is enough, no slack is needed while     *)
(* messages are being written (buf.rs RevBuf::claim).  A call that runs    *)
(* out is one the mirrored program does not get behind.                    *)
(***************************************************************************)
RoomIsExact == [][rmode' = "panicked" /\ script' # script => Len(buf) > RevCapacity]_vars

(***************************************************************************)
(* On a Vec, which always has room, the Tacks frame every payload exactly  *)
(* as the abstract writer does, unwinding included: no placeholder is left *)
(* unpatched and nothing outside a message moves (tack.rs).                *)
(***************************************************************************)
VecFraming == F!Framing

(***************************************************************************)
(* Whatever inner messages outgrew, the placeholder of a message that is   *)
(* still being written is where its Tack remembers it (tack.rs).           *)
(***************************************************************************)
VecPlaceholdersKept == F!PlaceholdersKept

(***************************************************************************)
(* Written backwards, each payload is framed with its exact, minimal       *)
(* length and its tag, and no byte once written is moved or overwritten,   *)
(* not even by a write that panics (buf.rs RevBuf::put_msg, claim).        *)
(***************************************************************************)
RevFraming == R!Framing

\* The RevBuf's cursor never leaves its slice, and what the running put_msg calls remember are
\* lengths the buffer had: `self.len() - before` does not underflow (buf.rs, RevBuf).
RevTypeOK == R!TypeOK /\ \A i \in 1..Len(msgs) : msgs[i].before <= R!WrittenLen
=============================================================================
