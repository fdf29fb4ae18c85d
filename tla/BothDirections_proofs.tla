------------------------ MODULE BothDirections_proofs ------------------------
(***************************************************************************)
(* Proofs about the downward-growing writer under any program a forward    *)
(* writer can run, for every radix, slice, depth and set of chunks and     *)
(* tags: what it is by itself, then that it frames its messages, then that *)
(* it says the same as the forward writer.                                 *)
(***************************************************************************)
EXTENDS BothDirections, VarintLemmas, SequenceLemmas

-----------------------------------------------------------------------------
(* The operators of the two writers are those of this module. *)

LEMMA SamePower == \A b, n : R!Power(b, n) = Power(b, n)
BY DEF R!Power, Power

LEMMA SameVarint == \A v : R!write_varint(v) = write_varint(v)
BY SamePower
   DEF R!write_varint, R!write_wide_varint, R!encoded_len_varint, R!Group,
       R!Cardinality, write_varint, write_wide_varint, encoded_len_varint, Group, Cardinality

LEMMA SameByte == R!Byte = Byte
BY DEF R!Byte, Byte

LEMMA SameEnds ==
    \A s : R!Front(s) = Front(s) /\ R!Last(s) = Last(s) /\ F!Front(s) = Front(s)
BY DEF R!Front, R!Last, F!Front, Front, Last

\* A minimal length is a string of bytes.
LEMMA VarintType ==
    ASSUME NEW v \in Nat
    PROVE  R!write_varint(v) \in Seq(Byte)
<1>1. encoded_len_varint(v) \in Nat
  BY EncodedLenType, VarintAssumption
<1> QED
  BY <1>1, WideType, SameVarint DEF write_varint

-----------------------------------------------------------------------------
(* The inductive invariant. *)

\* The slice and its cursor, and lengths on entry that were reached before now.
RevOK ==
    /\ R!TypeOK
    /\ \A i \in 1..Len(msgs) : msgs[i].before <= RevCapacity - pos

Call == [op : {"put"}, bytes : Chunks] \cup [op : {"begin", "end"}, bytes : Tags]

\* What is still to be mirrored is calls, and an open message has a tag.
CallsOK ==
    /\ script \in Seq(Call)
    /\ mode = "running" => /\ tags \in Seq(Tags)
                           /\ IsSeq(tacks)
                           /\ Len(tags) = Len(tacks)

IInv == RevOK /\ CallsOK

LEMMA InitInv == Init => IInv
<1> SUFFICES ASSUME Init
             PROVE  IInv
  OBVIOUS
<1>1. backing \in [1..RevCapacity -> Byte]
  BY BothAssumption DEF Init, R!Init
<1>2. msgs = << >> /\ pos = RevCapacity /\ rmode = "running"
  BY DEF Init, R!Init
<1>3. R!TypeOK
  BY <1>1, <1>2, BothAssumption, SameByte DEF R!TypeOK
<1>4. RevOK
  BY <1>2, <1>3 DEF RevOK
<1>5. IsSeq(<< >>)
  BY DEF IsSeq
<1>6. script = << >> /\ tags = << >> /\ tacks = << >>
  BY DEF Init, F!Init
<1>7. CallsOK
  BY <1>5, <1>6 DEF CallsOK
<1> QED
  BY <1>4, <1>7 DEF IInv

-----------------------------------------------------------------------------
(* Steps of the reverse writer. *)

LEMMA MarkType ==
    ASSUME RevOK, NEW i \in 1..Len(msgs)
    PROVE  msgs[i].before \in 0..RevCapacity
<1> DEFINE Mark == [before : 0..RevCapacity, tag : Tags]
<1>1. msgs \in Seq(Mark)
  BY DEF RevOK, R!TypeOK
<1>2. \A m \in Mark : m.before \in 0..RevCapacity
  OBVIOUS
<1> HIDE DEF Mark
<1>3. msgs[i] \in Mark
  BY <1>1, ElementOfSeq
<1> QED
  BY <1>2, <1>3

LEMMA PrependType ==
    ASSUME RevOK, NEW bytes \in Seq(Byte), R!Prepend(bytes)
    PROVE  /\ backing' \in [1..RevCapacity -> Byte]
           /\ pos' \in 0..RevCapacity
           /\ pos' <= pos
<1>1. /\ backing \in [1..RevCapacity -> Byte]
      /\ pos \in 0..RevCapacity
      /\ RevCapacity \in Nat
  BY SameByte, BothAssumption DEF RevOK, R!TypeOK
<1>2. Len(bytes) \in Nat /\ \A i \in 1..Len(bytes) : bytes[i] \in Byte
  OBVIOUS
<1>3. pos' = pos - Len(bytes) /\ pos >= Len(bytes)
  BY DEF R!Prepend
<1>4. pos' \in 0..RevCapacity /\ pos' <= pos
  BY <1>1, <1>2, <1>3
<1>5. \A i \in (pos' + 1)..pos : i - pos' \in 1..Len(bytes)
  BY <1>1, <1>2, <1>3
<1>6. backing' = [i \in 1..RevCapacity |->
                    IF i \in (pos' + 1)..pos THEN bytes[i - pos'] ELSE backing[i]]
  BY DEF R!Prepend
<1>7. \A i \in 1..RevCapacity :
        (IF i \in (pos' + 1)..pos THEN bytes[i - pos'] ELSE backing[i]) \in Byte
  BY <1>1, <1>2, <1>5
<1> QED
  BY <1>4, <1>6, <1>7

LEMMA PutOK ==
    ASSUME RevOK, NEW c \in Chunks, R!Put(c)
    PROVE  RevOK'
<1>1. c \in Seq(Byte)
  BY BothAssumption
<1>2. R!Prepend(c) /\ msgs' = msgs /\ rmode' = rmode
  BY DEF R!Put
<1>3. /\ backing' \in [1..RevCapacity -> Byte]
      /\ pos' \in 0..RevCapacity
      /\ pos' <= pos
  BY <1>1, <1>2, PrependType
<1>4. pos \in 0..RevCapacity /\ RevCapacity \in Nat
      /\ msgs \in Seq([before : 0..RevCapacity, tag : Tags])
  BY BothAssumption DEF RevOK, R!TypeOK
<1>5. \A i \in 1..Len(msgs) : msgs[i].before \in 0..RevCapacity
  BY MarkType
<1>6. \A i \in 1..Len(msgs') : msgs'[i].before <= RevCapacity - pos'
  BY <1>2, <1>3, <1>4, <1>5, SMTT(20) DEF RevOK
<1>7. R!TypeOK'
  BY <1>2, <1>3, SameByte DEF RevOK, R!TypeOK
<1> QED
  BY <1>6, <1>7 DEF RevOK

LEMMA BeginOK ==
    ASSUME RevOK, NEW tag \in Tags, R!BeginMsg(tag)
    PROVE  RevOK'
<1> DEFINE mark == [before |-> RevCapacity - pos, tag |-> tag]
           Mark == [before : 0..RevCapacity, tag : Tags]
<1>1. msgs' = Append(msgs, mark) /\ UNCHANGED <<backing, pos, rmode>>
  BY DEF R!BeginMsg, R!WrittenLen
<1>2. pos \in 0..RevCapacity /\ RevCapacity \in Nat /\ msgs \in Seq(Mark)
  BY BothAssumption DEF RevOK, R!TypeOK
<1>3. RevCapacity - pos \in 0..RevCapacity
  BY <1>2
<1>4. mark \in Mark /\ mark.before = RevCapacity - pos
  BY <1>3
<1> HIDE DEF mark, Mark
<1>5. /\ msgs' \in Seq(Mark)
      /\ Len(msgs') = Len(msgs) + 1
      /\ \A i \in 1..Len(msgs) : msgs'[i] = msgs[i]
      /\ msgs'[Len(msgs) + 1] = mark
      /\ Len(msgs) \in Nat
  BY <1>1, <1>2, <1>4, AppendProperties
<1>6. \A i \in 1..Len(msgs') : msgs'[i].before <= RevCapacity - pos'
  <2> TAKE i \in 1..Len(msgs')
  <2>1. CASE i \in 1..Len(msgs)
    BY <1>1, <1>5, <2>1 DEF RevOK
  <2>2. CASE i = Len(msgs) + 1
    BY <1>1, <1>3, <1>4, <1>5, <2>2
  <2> QED
    BY <1>5, <2>1, <2>2
<1>7. R!TypeOK'
  BY <1>1, <1>5 DEF RevOK, R!TypeOK, Mark
<1> QED
  BY <1>6, <1>7 DEF RevOK

\* Tag and length of a message that is open are bytes: its length does not underflow.
LEMMA HeaderType ==
    ASSUME RevOK, msgs # << >>
    PROVE  R!Header(Last(msgs)) \in Seq(Byte)
<1> DEFINE Mark == [before : 0..RevCapacity, tag : Tags]
           m == Last(msgs)
<1>1. pos \in 0..RevCapacity /\ RevCapacity \in Nat /\ msgs \in Seq(Mark)
  BY BothAssumption DEF RevOK, R!TypeOK
<1>2. m \in Mark /\ m = msgs[Len(msgs)] /\ Len(msgs) \in Nat \ {0}
  BY <1>1, FrontProps
<1>3. m.tag \in Seq(Byte) /\ m.before \in 0..RevCapacity
  BY <1>2, BothAssumption
<1>4. m.before <= RevCapacity - pos
  BY <1>2 DEF RevOK
<1>5. (RevCapacity - pos) - m.before \in Nat
  BY <1>1, <1>3, <1>4
<1>6. R!write_varint((RevCapacity - pos) - m.before) \in Seq(Byte)
  BY <1>5, VarintType
<1> QED
  BY <1>3, <1>6, ConcatProperties DEF R!Header, R!WrittenLen

LEMMA EndOK ==
    ASSUME RevOK, R!EndMsg
    PROVE  RevOK'
<1> DEFINE Mark == [before : 0..RevCapacity, tag : Tags]
           m == Last(msgs)
<1>1. pos \in 0..RevCapacity /\ RevCapacity \in Nat /\ msgs \in Seq(Mark) /\ msgs # << >>
  BY BothAssumption DEF RevOK, R!TypeOK, R!EndMsg
<1>2. /\ Front(msgs) \in Seq(Mark)
      /\ Len(Front(msgs)) = Len(msgs) - 1
      /\ \A i \in 1..(Len(msgs) - 1) : Front(msgs)[i] = msgs[i]
      /\ m \in Mark
      /\ m = msgs[Len(msgs)]
      /\ Len(msgs) \in Nat \ {0}
  BY <1>1, FrontProps
<1>3. R!Header(m) \in Seq(Byte)
  BY <1>1, HeaderType
<1>4. R!Prepend(R!Header(m)) /\ msgs' = Front(msgs) /\ rmode' = rmode
  BY SameEnds DEF R!EndMsg
<1>5. /\ backing' \in [1..RevCapacity -> Byte]
      /\ pos' \in 0..RevCapacity
      /\ pos' <= pos
  BY <1>3, <1>4, PrependType
<1>6. \A i \in 1..Len(msgs) : msgs[i].before \in 0..RevCapacity
  BY MarkType
<1> HIDE DEF m, Mark
<1>7. \A i \in 1..Len(msgs') : msgs'[i].before <= RevCapacity - pos'
  <2> TAKE i \in 1..Len(msgs')
  <2>1. i \in 1..Len(msgs) /\ msgs'[i] = msgs[i]
    BY <1>2, <1>4
  <2> QED
    BY <1>1, <1>5, <1>6, <2>1 DEF RevOK
<1>8. R!TypeOK'
  BY <1>2, <1>4, <1>5, SameByte DEF RevOK, R!TypeOK, Mark
<1> QED
  BY <1>7, <1>8 DEF RevOK

\* A write that panics, a closure that does, and the end leave the slice as it is.
LEMMA StopOK ==
    ASSUME RevOK, UNCHANGED <<backing, pos, msgs>>, rmode' \in {"running", "done", "panicked"}
    PROVE  RevOK'
BY DEF RevOK, R!TypeOK

-----------------------------------------------------------------------------
(* Steps of the program. *)

LEMMA RecordCall ==
    ASSUME script \in Seq(Call), NEW op, NEW bytes, Record(op, bytes),
           [op |-> op, bytes |-> bytes] \in Call
    PROVE  script' \in Seq(Call)
BY AppendProperties DEF Record

LEMMA PutCall == \A c \in Chunks : [op |-> "put", bytes |-> c] \in Call
BY DEF Call

LEMMA TagCall ==
    \A tag \in Tags : \A op \in {"begin", "end"} : [op |-> op, bytes |-> tag] \in Call
BY DEF Call

LEMMA NextCallType ==
    ASSUME CallsOK, script # << >>
    PROVE  /\ NextCall \in Call
           /\ Front(script) \in Seq(Call)
BY FrontProps DEF CallsOK, NextCall

LEMMA WritePutInv == IInv /\ WritePut => IInv'
<1> SUFFICES ASSUME IInv, NEW c \in Chunks, F!Put(c), Record("put", c),
                    UNCHANGED <<rvars, tags, padded>>
             PROVE  IInv'
  BY DEF WritePut
<1>1. RevOK'
  BY StopOK DEF IInv, RevOK, rvars, R!TypeOK
<1>2. script' \in Seq(Call)
  BY PutCall, RecordCall DEF IInv, CallsOK
<1>3. CallsOK'
  BY <1>2 DEF IInv, CallsOK, F!Put
<1> QED
  BY <1>1, <1>3 DEF IInv

LEMMA WriteBeginInv == IInv /\ WriteBegin => IInv'
<1> SUFFICES ASSUME IInv, NEW tag \in Tags, NEW width \in Widths, F!BeginMsg(tag, width),
                    Record("begin", tag), tags' = Append(tags, tag), UNCHANGED rvars
             PROVE  IInv'
  BY DEF WriteBegin
<1>1. RevOK'
  BY StopOK DEF IInv, RevOK, rvars, R!TypeOK
<1>2. script' \in Seq(Call)
  BY TagCall, RecordCall DEF IInv, CallsOK
<1>3. mode = "running" /\ tacks' = Append(tacks, F!NewTack(Len(buf) + Len(tag), width))
  BY DEF F!BeginMsg
<1>4. tags \in Seq(Tags) /\ IsSeq(tacks) /\ Len(tags) = Len(tacks)
  BY <1>3 DEF IInv, CallsOK
<1>5. tags' \in Seq(Tags) /\ Len(tags') = Len(tags) + 1
  BY <1>4, AppendProperties
<1>6. IsSeq(tacks') /\ Len(tacks') = Len(tacks) + 1
  BY <1>3, <1>4, AppendFacts
<1> QED
  BY <1>1, <1>2, <1>4, <1>5, <1>6 DEF IInv, CallsOK

LEMMA WriteEndInv == IInv /\ WriteEnd => IInv'
<1> SUFFICES ASSUME IInv, mode = "running", F!Drop, Record("end", Last(tags)),
                    tags' = Front(tags), UNCHANGED rvars
             PROVE  IInv'
  BY DEF WriteEnd
<1>1. RevOK'
  BY StopOK DEF IInv, RevOK, rvars, R!TypeOK
<1>2. tacks # << >> /\ tacks' = Front(tacks)
  BY SameEnds DEF F!Drop, F!CloseInPlace, F!CloseOverflow, F!CloseExhausted, F!Dropping, F!Unstack
<1>3. tags \in Seq(Tags) /\ IsSeq(tacks) /\ Len(tags) = Len(tacks)
  BY DEF IInv, CallsOK
<1>4. Len(tacks) \in Nat \ {0}
  <2> DEFINE S == ToSet(tacks)
  <2>1. tacks \in Seq(S)
    BY <1>3 DEF IsSeq
  <2> HIDE DEF S
  <2> QED
    BY <1>2, <2>1, EmptySeq
<1>5. tags # << >>
  BY <1>3, <1>4, EmptySeq
<1>6. tags' \in Seq(Tags) /\ Len(tags') = Len(tags) - 1 /\ Last(tags) \in Tags
  BY <1>3, <1>5, FrontProps
<1>7. IsSeq(tacks') /\ Len(tacks') = Len(tacks) - 1
  BY <1>2, <1>3, FrontFacts
<1>8. script' \in Seq(Call)
  BY <1>6, TagCall, RecordCall DEF IInv, CallsOK
<1> QED
  BY <1>1, <1>3, <1>6, <1>7, <1>8 DEF IInv, CallsOK

\* The forward pass ends or panics: nobody looks at the tags any more.
LEMMA WriteStopsInv == IInv /\ (WriteDone \/ WritePanics \/ Unwind) => IInv'
<1> SUFFICES ASSUME IInv, WriteDone \/ WritePanics \/ Unwind
             PROVE  IInv'
  OBVIOUS
<1>1. UNCHANGED <<rvars, script>>
  BY DEF WriteDone, WritePanics, Unwind
<1>2. RevOK'
  BY <1>1, StopOK DEF IInv, RevOK, rvars, R!TypeOK
<1>3. mode' # "running"
  <2>1. CASE WriteDone
    BY <2>1 DEF WriteDone, F!Finish
  <2>2. CASE WritePanics
    BY <2>2 DEF WritePanics, F!ClosurePanics, F!Panic
  <2>3. CASE Unwind
    BY <2>3 DEF Unwind, F!Drop, F!CloseInPlace, F!CloseOverflow, F!CloseExhausted, F!Unstack
  <2> QED
    BY <2>1, <2>2, <2>3
<1> QED
  BY <1>1, <1>2, <1>3 DEF IInv, CallsOK

\* A mirrored call leaves the rest of the script.
LEMMA CalledOK ==
    ASSUME IInv, NEW op, Called(op)
    PROVE  /\ CallsOK'
           /\ NextCall \in Call
           /\ NextCall.op = op
<1>1. script # << >> /\ mode = "done"
  BY DEF Called, Mirroring
<1>2. NextCall \in Call /\ Front(script) \in Seq(Call)
  BY <1>1, NextCallType DEF IInv
<1>3. script' = Front(script) /\ mode' = mode /\ NextCall.op = op
  BY DEF Called, fvars
<1> QED
  BY <1>1, <1>2, <1>3 DEF CallsOK

LEMMA MirrorPutInv == IInv /\ MirrorPut => IInv'
<1> SUFFICES ASSUME IInv, MirrorPut
             PROVE  IInv'
  OBVIOUS
<1>1. CallsOK' /\ NextCall \in Call /\ NextCall.op = "put"
  BY CalledOK DEF MirrorPut
<1>2. NextCall.bytes \in Chunks
  BY <1>1 DEF Call
<1>3. CASE R!Put(NextCall.bytes)
  BY <1>1, <1>2, <1>3, PutOK DEF IInv
<1>4. CASE R!PutPanics(NextCall.bytes)
  <2>1. UNCHANGED <<backing, pos, msgs>> /\ rmode' = "panicked"
    BY <1>4 DEF R!PutPanics, R!Exhausted
  <2> QED
    BY <1>1, <2>1, StopOK DEF IInv
<1> QED
  BY <1>3, <1>4 DEF MirrorPut

LEMMA MirrorEndInv == IInv /\ MirrorEnd => IInv'
<1> SUFFICES ASSUME IInv, MirrorEnd
             PROVE  IInv'
  OBVIOUS
<1>1. CallsOK' /\ NextCall \in Call /\ NextCall.op = "end"
  BY CalledOK DEF MirrorEnd
<1>2. NextCall.bytes \in Tags
  BY <1>1 DEF Call
<1> QED
  BY <1>1, <1>2, BeginOK DEF IInv, MirrorEnd

LEMMA MirrorBeginInv == IInv /\ MirrorBegin => IInv'
<1> SUFFICES ASSUME IInv, MirrorBegin
             PROVE  IInv'
  OBVIOUS
<1>1. CallsOK'
  BY CalledOK DEF MirrorBegin
<1>2. CASE R!EndMsg
  BY <1>1, <1>2, EndOK DEF IInv
<1>3. CASE R!EndMsgPanics
  <2>1. UNCHANGED <<backing, pos, msgs>> /\ rmode' = "panicked"
    BY <1>3 DEF R!EndMsgPanics, R!Exhausted
  <2> QED
    BY <1>1, <2>1, StopOK DEF IInv
<1> QED
  BY <1>2, <1>3 DEF MirrorBegin

LEMMA MirrorStopsInv == IInv /\ (MirrorPanics \/ MirrorDone) => IInv'
<1> SUFFICES ASSUME IInv, MirrorPanics \/ MirrorDone
             PROVE  IInv'
  OBVIOUS
<1>1. UNCHANGED <<backing, pos, msgs>> /\ rmode' \in {"panicked", "done"}
  BY DEF MirrorPanics, MirrorDone, R!ClosurePanics, R!Finish
<1>2. UNCHANGED <<tacks, mode, script, tags>>
  BY DEF MirrorPanics, MirrorDone, fvars
<1>3. CallsOK'
  BY <1>2 DEF IInv, CallsOK
<1> QED
  BY <1>1, <1>3, StopOK DEF IInv

LEMMA StepInv == IInv /\ [Next]_vars => IInv'
<1> SUFFICES ASSUME IInv, [Next]_vars
             PROVE  IInv'
  OBVIOUS
<1>1. CASE UNCHANGED vars
  BY <1>1 DEF vars, IInv, RevOK, R!TypeOK, CallsOK
<1>2. CASE Terminating
  BY <1>1, <1>2 DEF Terminating, vars, IInv, RevOK, R!TypeOK, CallsOK
<1>3. CASE WritePut
  BY <1>3, WritePutInv
<1>4. CASE WriteBegin
  BY <1>4, WriteBeginInv
<1>5. CASE WriteEnd
  BY <1>5, WriteEndInv
<1>6. CASE WriteDone \/ WritePanics \/ Unwind
  BY <1>6, WriteStopsInv
<1>7. CASE MirrorPut
  BY <1>7, MirrorPutInv
<1>8. CASE MirrorEnd
  BY <1>8, MirrorEndInv
<1>9. CASE MirrorBegin
  BY <1>9, MirrorBeginInv
<1>10. CASE MirrorPanics \/ MirrorDone
  BY <1>10, MirrorStopsInv
<1> QED
  BY <1>1, <1>2, <1>3, <1>4, <1>5, <1>6, <1>7, <1>8, <1>9, <1>10 DEF Next

-----------------------------------------------------------------------------
\* Whatever program is mirrored, and wherever it runs out of room or panics, the cursor stays in
\* the slice and the lengths put_msg remembers are lengths the buffer had: the subtraction that
\* gives a message its length never underflows (buf.rs RevBuf::claim, put_msg).
THEOREM RevTypeCorrect == Spec => []RevTypeOK
<1>1. Init => IInv
  BY InitInv
<1>2. IInv /\ [Next]_vars => IInv'
  BY StepInv
<1>3. IInv => RevTypeOK
  BY DEF IInv, RevOK, RevTypeOK, R!WrittenLen
<1> QED
  BY <1>1, <1>2, <1>3, PTL DEF Spec

-----------------------------------------------------------------------------
(* Refinement of WireFrames.  What is open, seen from the slice: frame k   *)
(* holds what lies between the lengths Lo and Hi, counted from the end.    *)

\* What was written while the length went from lo to hi.
Body(b, lo, hi) == SubSeq(b, RevCapacity - hi + 1, RevCapacity - lo)

\* Its bytes, from the front.
LEMMA BodyFacts ==
    ASSUME NEW b \in [1..RevCapacity -> Byte], NEW lo \in 0..RevCapacity,
           NEW hi \in 0..RevCapacity, lo <= hi
    PROVE  /\ Body(b, lo, hi) \in Seq(Byte)
           /\ IsSeq(Body(b, lo, hi))
           /\ Len(Body(b, lo, hi)) = hi - lo
           /\ hi - lo \in Nat
           /\ \A i \in 1..(hi - lo) : Body(b, lo, hi)[i] = b[(RevCapacity - hi) + i]
<1>1. RevCapacity \in Nat
  BY BothAssumption
<1>2. b \in Seq(Byte) /\ Len(b) = RevCapacity
  BY <1>1
<1> DEFINE x == RevCapacity - hi + 1
           y == RevCapacity - lo
<1>3. /\ x \in Nat \ {0} /\ y \in Nat /\ y <= Len(b) /\ x <= y + 1
      /\ y - x + 1 = hi - lo /\ hi - lo \in Nat
  BY <1>1, <1>2
<1>4. \A k \in 1..(hi - lo) : x + k - 1 = (RevCapacity - hi) + k
  BY <1>1
<1> HIDE DEF x, y
<1>5. /\ SubSeq(b, x, y) \in Seq(Byte)
      /\ Len(SubSeq(b, x, y)) = y - x + 1
      /\ \A k \in 1..(y - x + 1) : SubSeq(b, x, y)[k] = b[x + k - 1]
  BY <1>2, <1>3, SubSeqProps
<1>6. Body(b, lo, hi) = SubSeq(b, x, y)
  BY DEF Body, x, y
<1>7. SubSeq(b, x, y) = [k \in 1..(hi - lo) |-> SubSeq(b, x, y)[k]]
  BY <1>3, <1>5, LenProperties
<1>8. IsSeq(SubSeq(b, x, y))
  BY <1>3, <1>7, FunctionIsSeq
<1> QED
  BY <1>3, <1>4, <1>5, <1>6, <1>8

\* What is written later stands in front.
LEMMA BodySplit ==
    ASSUME NEW b \in [1..RevCapacity -> Byte], NEW lo \in 0..RevCapacity,
           NEW mid \in 0..RevCapacity, NEW hi \in 0..RevCapacity, lo <= mid, mid <= hi
    PROVE  Body(b, lo, hi) = Body(b, mid, hi) \o Body(b, lo, mid)
<1>1. RevCapacity \in Nat
  BY BothAssumption
<1> DEFINE x == Body(b, mid, hi)
           y == Body(b, lo, mid)
           z == Body(b, lo, hi)
<1>2. /\ IsSeq(x) /\ Len(x) = hi - mid
      /\ \A i \in 1..(hi - mid) : x[i] = b[(RevCapacity - hi) + i]
  BY BodyFacts
<1>3. /\ IsSeq(y) /\ Len(y) = mid - lo
      /\ \A i \in 1..(mid - lo) : y[i] = b[(RevCapacity - mid) + i]
  BY BodyFacts
<1>4. lo <= hi
  BY <1>1
<1>5. /\ IsSeq(z) /\ Len(z) = hi - lo
      /\ \A i \in 1..(hi - lo) : z[i] = b[(RevCapacity - hi) + i]
  BY <1>4, BodyFacts
<1> HIDE DEF x, y, z
<1>6. /\ IsSeq(x \o y) /\ Len(x \o y) = (hi - mid) + (mid - lo)
      /\ \A i \in 1..(hi - mid) : (x \o y)[i] = x[i]
      /\ \A i \in 1..(mid - lo) : (x \o y)[(hi - mid) + i] = y[i]
  BY <1>2, <1>3, ConcatFacts
<1>7. Len(x \o y) = hi - lo
  BY <1>1, <1>6
<1>8. \A i \in 1..(hi - lo) : z[i] = (x \o y)[i]
  <2> TAKE i \in 1..(hi - lo)
  <2>1. CASE i \in 1..(hi - mid)
    BY <1>2, <1>5, <1>6, <2>1
  <2>2. CASE i \notin 1..(hi - mid)
    <3>1. i - (hi - mid) \in 1..(mid - lo)
      BY <1>1, <2>2
    <3>2. /\ (hi - mid) + (i - (hi - mid)) = i
          /\ (RevCapacity - mid) + (i - (hi - mid)) = (RevCapacity - hi) + i
      BY <1>1
    <3>3. (x \o y)[i] = y[i - (hi - mid)]
      BY <1>6, <3>1, <3>2
    <3>4. y[i - (hi - mid)] = b[(RevCapacity - hi) + i]
      BY <1>3, <3>1, <3>2
    <3> QED
      BY <1>5, <3>3, <3>4
  <2> QED
    BY <2>1, <2>2
<1>9. z = x \o y
  BY <1>5, <1>6, <1>7, <1>8, SameSeq
<1> QED
  BY <1>9 DEF x, y, z

\* Below what is written now, nothing depends on what is written later.
LEMMA BodySame ==
    ASSUME NEW b \in [1..RevCapacity -> Byte], NEW c \in [1..RevCapacity -> Byte],
           NEW lo \in 0..RevCapacity, NEW hi \in 0..RevCapacity, lo <= hi,
           \A i \in 1..RevCapacity : i > RevCapacity - hi => c[i] = b[i]
    PROVE  Body(c, lo, hi) = Body(b, lo, hi)
<1>1. RevCapacity \in Nat
  BY BothAssumption
<1> DEFINE x == Body(b, lo, hi)
           y == Body(c, lo, hi)
<1>2. /\ IsSeq(x) /\ Len(x) = hi - lo
      /\ \A i \in 1..(hi - lo) : x[i] = b[(RevCapacity - hi) + i]
  BY BodyFacts
<1>3. /\ IsSeq(y) /\ Len(y) = hi - lo
      /\ \A i \in 1..(hi - lo) : y[i] = c[(RevCapacity - hi) + i]
  BY BodyFacts
<1>4. \A i \in 1..(hi - lo) : /\ (RevCapacity - hi) + i \in 1..RevCapacity
                              /\ (RevCapacity - hi) + i > RevCapacity - hi
  BY <1>1
<1> HIDE DEF x, y
<1>5. \A i \in 1..(hi - lo) : y[i] = x[i]
  BY <1>2, <1>3, <1>4
<1>6. y = x
  BY <1>2, <1>3, <1>5, SameSeq
<1> QED
  BY <1>6 DEF x, y

\* What claim has written.
LEMMA Claimed ==
    ASSUME RevOK, NEW bytes \in Seq(Byte), R!Prepend(bytes)
    PROVE  /\ Body(backing', RevCapacity - pos, RevCapacity - pos') = bytes
           /\ \A i \in 1..RevCapacity : i > pos => backing'[i] = backing[i]
<1>1. /\ backing' \in [1..RevCapacity -> Byte]
      /\ pos' \in 0..RevCapacity
      /\ pos' <= pos
  BY PrependType
<1>2. pos \in 0..RevCapacity /\ RevCapacity \in Nat
  BY BothAssumption DEF RevOK, R!TypeOK
<1>3. /\ pos' = pos - Len(bytes)
      /\ backing' = [i \in 1..RevCapacity |->
                       IF i \in (pos' + 1)..pos THEN bytes[i - pos'] ELSE backing[i]]
  BY DEF R!Prepend
<1> DEFINE n == Len(bytes)
<1>n. n \in Nat
  OBVIOUS
<1> HIDE DEF n
<1>m. pos' = pos - n /\ pos' \in 0..RevCapacity
  BY <1>1, <1>3 DEF n
<1>4. n \in Nat /\ pos - pos' = n
  BY <1>2, <1>n, <1>m
<1>5. IsSeq(bytes)
  BY <1>n, LenProperties, FunctionIsSeq DEF n
<1> DEFINE lo == RevCapacity - pos
           hi == RevCapacity - pos'
           x == Body(backing', lo, hi)
<1>6. /\ lo \in 0..RevCapacity /\ hi \in 0..RevCapacity /\ lo <= hi
      /\ hi - lo = n /\ RevCapacity - hi = pos'
  BY <1>2, <1>n, <1>m
<1> HIDE DEF lo, hi
<1>7. /\ IsSeq(x) /\ Len(x) = hi - lo
      /\ \A i \in 1..(hi - lo) : x[i] = backing'[(RevCapacity - hi) + i]
  BY <1>1, <1>6, BodyFacts
<1> HIDE DEF x
<1>8. \A i \in 1..n : /\ pos' + i \in 1..RevCapacity
                               /\ pos' + i \in (pos' + 1)..pos
                               /\ (pos' + i) - pos' = i
  BY <1>2, <1>n, <1>m
<1>9. \A i \in 1..n : x[i] = bytes[i]
  BY <1>3, <1>6, <1>7, <1>8, ZenonT(30)
<1>10. x = bytes
  BY <1>5, <1>6, <1>7, <1>9, SameSeq DEF n
<1>11. \A i \in 1..RevCapacity : i > pos => backing'[i] = backing[i]
  BY <1>1, <1>2, <1>3
<1> QED
  BY <1>10, <1>11 DEF x, lo, hi

-----------------------------------------------------------------------------
\* The lengths when frame k was opened and when the one inside it was.
Lo(ms, k) == IF k = 1 THEN 0 ELSE ms[k - 1].before
Hi(p, ms, k) == IF k <= Len(ms) THEN ms[k].before ELSE RevCapacity - p

\* The frames as a function of the slice.
View(b, p, ms) ==
    [k \in 1..(Len(ms) + 1) |->
        [width |-> IF k = 1 THEN 0 ELSE 1, body |-> Body(b, Lo(ms, k), Hi(p, ms, k))]]

\* Messages were opened one inside the other: no frame ends before it starts.
Ordered(p, ms) == \A k \in 1..(Len(ms) + 1) : Lo(ms, k) <= Hi(p, ms, k)

\* They are a sequence, one for the output and one for each open message.
LEMMA ViewFacts ==
    ASSUME NEW b, NEW p, NEW ms, Len(ms) \in Nat
    PROVE  /\ IsSeq(View(b, p, ms))
           /\ Len(View(b, p, ms)) = Len(ms) + 1
           /\ \A k \in 1..(Len(ms) + 1) :
                /\ View(b, p, ms)[k].width = IF k = 1 THEN 0 ELSE 1
                /\ View(b, p, ms)[k].body = Body(b, Lo(ms, k), Hi(p, ms, k))
                /\ View(b, p, ms)[k] = [width |-> IF k = 1 THEN 0 ELSE 1,
                                        body |-> Body(b, Lo(ms, k), Hi(p, ms, k))]
<1> DEFINE v == View(b, p, ms)
<1>1. v = [k \in 1..(Len(ms) + 1) |-> v[k]]
  BY DEF View
<1>2. Len(ms) + 1 \in Nat
  OBVIOUS
<1>3. \A k \in 1..(Len(ms) + 1) :
        v[k] = [width |-> IF k = 1 THEN 0 ELSE 1, body |-> Body(b, Lo(ms, k), Hi(p, ms, k))]
  BY DEF View
<1> HIDE DEF v
<1>4. IsSeq(v) /\ Len(v) = Len(ms) + 1
  BY <1>1, <1>2, FunctionIsSeq
<1> QED
  BY <1>3, <1>4 DEF v

\* Both lengths are lengths of the slice.
LEMMA LoHiType ==
    ASSUME RevOK
    PROVE  /\ Len(msgs) \in Nat
           /\ \A k \in 1..(Len(msgs) + 1) :
                 Lo(msgs, k) \in 0..RevCapacity /\ Hi(pos, msgs, k) \in 0..RevCapacity
<1>1. pos \in 0..RevCapacity /\ RevCapacity \in Nat /\ Len(msgs) \in Nat
  BY BothAssumption DEF RevOK, R!TypeOK
<1>2. \A k \in 1..Len(msgs) : msgs[k].before \in 0..RevCapacity
  BY MarkType
<1>3. \A k \in 1..(Len(msgs) + 1) : k # 1 => k - 1 \in 1..Len(msgs)
  BY <1>1
<1>4. \A k \in 1..(Len(msgs) + 1) : Lo(msgs, k) \in 0..RevCapacity
  BY <1>1, <1>2, <1>3 DEF Lo
<1>5. RevCapacity - pos \in 0..RevCapacity
  BY <1>1
<1>6. \A k \in 1..(Len(msgs) + 1) : k <= Len(msgs) => k \in 1..Len(msgs)
  BY <1>1
<1>7. \A k \in 1..(Len(msgs) + 1) : Hi(pos, msgs, k) \in 0..RevCapacity
  BY <1>2, <1>5, <1>6 DEF Hi
<1> QED
  BY <1>1, <1>4, <1>7

\* The refinement mapping is that view.
LEMMA FramesView == RevOK => R!Frames = View(backing, pos, msgs)
<1> SUFFICES ASSUME RevOK
             PROVE  R!Frames = View(backing, pos, msgs)
  OBVIOUS
<1>1. Len(msgs) \in Nat /\ pos \in 0..RevCapacity /\ RevCapacity \in Nat
  BY LoHiType, BothAssumption DEF RevOK, R!TypeOK
<1> DEFINE x == [width |-> 0, body |-> SubSeq(backing, RevCapacity - R!BodyLen(0) + 1, RevCapacity)]
           f == [i \in 1..Len(msgs) |->
                  [width |-> 1, body |-> SubSeq(backing, RevCapacity - R!BodyLen(i) + 1,
                                                RevCapacity - msgs[i].before)]]
           v == View(backing, pos, msgs)
<1>2. R!Frames = <<x>> \o f
  BY DEF R!Frames
<1>3. IsSeq(<<x>>) /\ Len(<<x>>) = 1 /\ <<x>>[1] = x
  <2>1. <<x>> = [i \in 1..1 |-> <<x>>[i]]
    OBVIOUS
  <2> QED
    BY <2>1, FunctionIsSeq
<1>4. IsSeq(f) /\ Len(f) = Len(msgs)
  <2>1. f = [i \in 1..Len(msgs) |-> f[i]]
    OBVIOUS
  <2> HIDE DEF f
  <2> QED
    BY <1>1, <2>1, FunctionIsSeq
<1>5. \A i \in 0..Len(msgs) : R!BodyLen(i) = Hi(pos, msgs, i + 1)
  BY <1>1 DEF R!BodyLen, Hi, R!WrittenLen
<1>6. x = v[1]
  <2>1. R!BodyLen(0) = Hi(pos, msgs, 1)
    <3>1. 0 \in 0..Len(msgs) /\ 0 + 1 = 1
      BY <1>1
    <3>2. R!BodyLen(0) = Hi(pos, msgs, 0 + 1)
      BY <1>5, <3>1
    <3> QED
      BY <3>1, <3>2
  <2>2. RevCapacity - Lo(msgs, 1) = RevCapacity
    BY <1>1 DEF Lo
  <2>3. Body(backing, Lo(msgs, 1), Hi(pos, msgs, 1))
          = SubSeq(backing, RevCapacity - R!BodyLen(0) + 1, RevCapacity)
    BY <2>1, <2>2 DEF Body
  <2>4. 1 \in 1..(Len(msgs) + 1)
    BY <1>1
  <2>5. v[1] = [width |-> IF 1 = 1 THEN 0 ELSE 1,
                body |-> Body(backing, Lo(msgs, 1), Hi(pos, msgs, 1))]
    BY <1>1, <2>4, ViewFacts
  <2> QED
    BY <2>3, <2>5
<1>7. \A i \in 1..Len(msgs) : f[i] = v[i + 1]
  <2> TAKE i \in 1..Len(msgs)
  <2>1. i + 1 \in 1..(Len(msgs) + 1) /\ i + 1 # 1 /\ (i + 1) - 1 = i /\ i \in 0..Len(msgs)
    BY <1>1
  <2>2. Body(backing, Lo(msgs, i + 1), Hi(pos, msgs, i + 1))
          = SubSeq(backing, RevCapacity - R!BodyLen(i) + 1, RevCapacity - msgs[i].before)
    BY <1>5, <2>1 DEF Body, Lo
  <2>3. v[i + 1] = [width |-> IF i + 1 = 1 THEN 0 ELSE 1,
                    body |-> Body(backing, Lo(msgs, i + 1), Hi(pos, msgs, i + 1))]
    BY <1>1, <2>1, ViewFacts
  <2> QED
    BY <2>1, <2>2, <2>3
<1>8. IsSeq(v) /\ Len(v) = Len(msgs) + 1
  BY <1>1, ViewFacts
<1> HIDE DEF x, f, v
<1>9. /\ IsSeq(<<x>> \o f) /\ Len(<<x>> \o f) = 1 + Len(msgs)
      /\ \A i \in 1..1 : (<<x>> \o f)[i] = <<x>>[i]
      /\ \A i \in 1..Len(msgs) : (<<x>> \o f)[1 + i] = f[i]
  BY <1>3, <1>4, ConcatFacts
<1>10. \A k \in 1..(1 + Len(msgs)) : (<<x>> \o f)[k] = v[k]
  <2> TAKE k \in 1..(1 + Len(msgs))
  <2>1. CASE k = 1
    BY <1>3, <1>6, <1>9, <2>1
  <2>2. CASE k # 1
    <3>1. k - 1 \in 1..Len(msgs) /\ 1 + (k - 1) = k /\ (k - 1) + 1 = k
      BY <1>1, <2>2
    <3> QED
      BY <1>7, <1>9, <3>1
  <2> QED
    BY <2>1, <2>2
<1>11. <<x>> \o f = v
  <2>1. Len(v) = 1 + Len(msgs)
    BY <1>1, <1>8
  <2> QED
    BY <1>8, <1>9, <1>10, <2>1, SameSeq
<1> QED
  BY <1>2, <1>11 DEF v

\* So it is after a step.
LEMMA FramesViewNext == RevOK' => R!Frames' = View(backing', pos', msgs')
<1>1. (RevOK => R!Frames = View(backing, pos, msgs))'
  BY FramesView, PTL
<1> QED
  BY <1>1

\* The operators of WireFrames are those of this module.
LEMMA WireEnds ==
    /\ \A s : R!Wire!Front(s) = Front(s) /\ R!Wire!Last(s) = Last(s)
    /\ \A s, t : R!Wire!IsSuffix(s, t) = IsSuffix(s, t)
    /\ \A v : R!Wire!write_wide_varint(R!Wire!encoded_len_varint(v), v) = write_varint(v)
    /\ \A v : R!Wire!encoded_len_varint(v) = encoded_len_varint(v)
<1>1. \A s : R!Wire!Front(s) = Front(s) /\ R!Wire!Last(s) = Last(s)
  BY DEF R!Wire!Front, R!Wire!Last, Front, Last
<1>2. \A s, t : R!Wire!IsSuffix(s, t) = IsSuffix(s, t)
  BY DEF R!Wire!IsSuffix, R!Wire!IsPrefix, R!Wire!Reverse, IsSuffix, IsPrefix, Reverse
<1>0. \A b, n : R!Wire!Power(b, n) = Power(b, n)
  BY DEF R!Wire!Power, Power
<1>3. \A v : R!Wire!encoded_len_varint(v) = encoded_len_varint(v)
  BY <1>0 DEF R!Wire!encoded_len_varint, R!Wire!Cardinality, encoded_len_varint, Cardinality
<1>4. \A v : R!Wire!write_wide_varint(R!Wire!encoded_len_varint(v), v) = write_varint(v)
  BY <1>0, <1>3 DEF R!Wire!write_wide_varint, R!Wire!Group, write_varint, write_wide_varint, Group
<1> QED
  BY <1>1, <1>2, <1>3, <1>4

-----------------------------------------------------------------------------
\* What the refinement needs to know of the slice.
SliceInv == RevOK /\ Ordered(pos, msgs)

\* A cursor that has moved down, and the lengths it stands for.
LEMMA LengthOrder ==
    ASSUME NEW c \in Nat, NEW p \in 0..c, NEW q \in 0..c, q <= p,
           NEW lo \in 0..c, NEW hi \in 0..c, lo <= hi, hi <= c - p
    PROVE  /\ c - p \in 0..c /\ c - q \in 0..c
           /\ lo <= c - p /\ c - p <= c - q
           /\ c - (c - p) = p /\ hi <= c - p /\ c - hi >= p
OBVIOUS

\* What a message holds of the slice before and after a claim.
LEMMA ClaimBody ==
    ASSUME RevOK, NEW bytes \in Seq(Byte), R!Prepend(bytes),
           NEW lo \in 0..RevCapacity, NEW hi \in 0..RevCapacity,
           lo <= hi, hi <= RevCapacity - pos
    PROVE  /\ Body(backing', lo, hi) = Body(backing, lo, hi)
           /\ Body(backing', lo, RevCapacity - pos')
                = bytes \o Body(backing, lo, RevCapacity - pos)
<1>1. /\ pos \in 0..RevCapacity /\ RevCapacity \in Nat
      /\ backing \in [1..RevCapacity -> Byte]
  BY BothAssumption, SameByte DEF RevOK, R!TypeOK
<1>2. /\ backing' \in [1..RevCapacity -> Byte]
      /\ pos' \in 0..RevCapacity
      /\ pos' <= pos
  BY PrependType
<1>3. /\ Body(backing', RevCapacity - pos, RevCapacity - pos') = bytes
      /\ \A i \in 1..RevCapacity : i > pos => backing'[i] = backing[i]
  BY Claimed
<1> DEFINE now == RevCapacity - pos
           then == RevCapacity - pos'
<1>4. /\ now \in 0..RevCapacity /\ then \in 0..RevCapacity
      /\ lo <= now /\ now <= then
      /\ RevCapacity - now = pos /\ hi <= now
      /\ RevCapacity - hi >= pos
  <2>1. pos \in 0..RevCapacity /\ RevCapacity \in Nat
    BY <1>1
  <2>2. pos' \in 0..RevCapacity /\ pos' <= pos
    BY <1>2
  <2> QED
    BY <2>1, <2>2, LengthOrder
<1> HIDE DEF now, then
<1>5. \A i \in 1..RevCapacity : i > RevCapacity - hi => backing'[i] = backing[i]
  BY <1>1, <1>3, <1>4
<1>6. \A i \in 1..RevCapacity : i > RevCapacity - now => backing'[i] = backing[i]
  BY <1>3, <1>4
<1>7. Body(backing', lo, hi) = Body(backing, lo, hi)
  BY <1>1, <1>2, <1>5, BodySame
<1>8. Body(backing', lo, now) = Body(backing, lo, now)
  BY <1>1, <1>2, <1>4, <1>6, BodySame
<1>9. Body(backing', lo, then) = Body(backing', now, then) \o Body(backing', lo, now)
  BY <1>2, <1>4, BodySplit, ZenonT(30)
<1> QED
  BY <1>3, <1>7, <1>8, <1>9 DEF now, then

\* The frames around a step, one by one.
LEMMA FramesSteps ==
    ASSUME SliceInv, RevOK'
    PROVE  /\ IsSeq(R!Frames) /\ Len(R!Frames) = Len(msgs) + 1
           /\ \A k \in 1..(Len(msgs) + 1) :
                R!Frames[k] = [width |-> IF k = 1 THEN 0 ELSE 1,
                               body |-> Body(backing, Lo(msgs, k), Hi(pos, msgs, k))]
           /\ IsSeq(R!Frames') /\ Len(R!Frames') = Len(msgs') + 1
           /\ \A k \in 1..(Len(msgs') + 1) :
                R!Frames'[k] = [width |-> IF k = 1 THEN 0 ELSE 1,
                                body |-> Body(backing', Lo(msgs', k), Hi(pos', msgs', k))]
<1>1. R!Frames = View(backing, pos, msgs) /\ R!Frames' = View(backing', pos', msgs')
  BY FramesView, FramesViewNext DEF SliceInv
<1>2. Len(msgs) \in Nat /\ Len(msgs') \in Nat
  <2>1. (RevOK => Len(msgs) \in Nat)'
    BY LoHiType, PTL
  <2> QED
    BY <2>1, LoHiType DEF SliceInv
<1> QED
  BY <1>1, <1>2, ViewFacts

\* Messages around the innermost keep what they hold; the innermost grows.
LEMMA PutFrames ==
    ASSUME SliceInv, RevOK', NEW c \in Seq(Byte), R!Prepend(c), msgs' = msgs
    PROVE  R!Wire!Write
<1> DEFINE f == R!Frames
           g == R!Frames'
           n == Len(msgs) + 1
<1>1. /\ n \in Nat \ {0}
      /\ \A k \in 1..n : Lo(msgs, k) \in 0..RevCapacity /\ Hi(pos, msgs, k) \in 0..RevCapacity
      /\ \A k \in 1..n : Lo(msgs, k) <= Hi(pos, msgs, k)
  BY LoHiType DEF SliceInv, Ordered
<1>2. /\ IsSeq(f) /\ Len(f) = n
      /\ \A k \in 1..n : f[k] = [width |-> IF k = 1 THEN 0 ELSE 1,
                                  body |-> Body(backing, Lo(msgs, k), Hi(pos, msgs, k))]
      /\ IsSeq(g) /\ Len(g) = n
      /\ \A k \in 1..n : g[k] = [width |-> IF k = 1 THEN 0 ELSE 1,
                                  body |-> Body(backing', Lo(msgs, k), Hi(pos', msgs, k))]
  BY FramesSteps
<1>3. /\ Hi(pos, msgs, n) = RevCapacity - pos /\ Hi(pos', msgs, n) = RevCapacity - pos'
      /\ \A k \in 1..(n - 1) : /\ Hi(pos', msgs, k) = Hi(pos, msgs, k)
                                /\ Hi(pos, msgs, k) <= RevCapacity - pos
  <2>1. Len(msgs) \in Nat
    BY LoHiType DEF SliceInv
  <2> QED
    BY <2>1 DEF Hi, SliceInv, RevOK
<1> HIDE DEF f, g, n
<1>4. \A k \in 1..(n - 1) : g[k] = f[k]
  <2> TAKE k \in 1..(n - 1)
  <2>1. k \in 1..n
    BY <1>1
  <2>2. Body(backing', Lo(msgs, k), Hi(pos, msgs, k)) = Body(backing, Lo(msgs, k), Hi(pos, msgs, k))
    BY <1>1, <1>3, <2>1, ClaimBody DEF SliceInv
  <2> QED
    BY <1>2, <1>3, <2>1, <2>2
<1>5. Front(g) = Front(f)
  BY <1>1, <1>2, <1>4, FrontSame
<1>6. n \in 1..n /\ Last(f) = f[n] /\ Last(g) = g[n]
  BY <1>1, <1>2 DEF Last
<1>7. Body(backing', Lo(msgs, n), RevCapacity - pos')
        = c \o Body(backing, Lo(msgs, n), RevCapacity - pos)
  <2>1. /\ Lo(msgs, n) \in 0..RevCapacity /\ RevCapacity - pos \in 0..RevCapacity
        /\ Lo(msgs, n) <= RevCapacity - pos
    BY <1>1, <1>3, <1>6
  <2> QED
    BY <2>1, ClaimBody DEF SliceInv
<1>8. Last(g).width = Last(f).width
  BY <1>2, <1>6
<1>9. IsSuffix(Last(f).body, Last(g).body)
  <2> DEFINE old == Body(backing, Lo(msgs, n), RevCapacity - pos)
  <2>1. Last(f).body = old /\ Last(g).body = c \o old
    BY <1>2, <1>3, <1>6, <1>7
  <2>2. backing \in [1..RevCapacity -> Byte]
    BY SameByte DEF SliceInv, RevOK, R!TypeOK
  <2>3. old \in Seq(Byte)
    BY <1>1, <1>3, <1>6, <2>2, BodyFacts
  <2> HIDE DEF old
  <2> QED
    BY <2>1, <2>3, SuffixOfConcat
<1> QED
  BY <1>2, <1>5, <1>8, <1>9, WireEnds DEF R!Wire!Write, R!Wire!Grew, f, g

\* A message that is opened holds nothing yet.
LEMMA BeginFrames ==
    ASSUME SliceInv, RevOK', NEW tag \in Tags, R!BeginMsg(tag)
    PROVE  R!Wire!Open /\ Ordered(pos', msgs')
<1> DEFINE f == R!Frames
           g == R!Frames'
           n == Len(msgs) + 1
           now == RevCapacity - pos
           mark == [before |-> now, tag |-> tag]
           new == [width |-> 1, body |-> << >>]
<1>1. /\ n \in Nat \ {0} /\ n - 1 = Len(msgs)
      /\ \A k \in 1..n : Lo(msgs, k) \in 0..RevCapacity /\ Hi(pos, msgs, k) \in 0..RevCapacity
      /\ \A k \in 1..n : Lo(msgs, k) <= Hi(pos, msgs, k)
  BY LoHiType DEF SliceInv, Ordered
<1>2. msgs' = Append(msgs, mark) /\ backing' = backing /\ pos' = pos
  BY DEF R!BeginMsg, R!WrittenLen
<1>3. /\ Len(msgs') = n
      /\ \A i \in 1..(n - 1) : msgs'[i] = msgs[i]
      /\ msgs'[n].before = now
  <2>1. msgs \in Seq([before : 0..RevCapacity, tag : Tags])
    BY DEF SliceInv, RevOK, R!TypeOK
  <2>2. IsSeq(msgs)
    <3>1. Len(msgs) \in Nat /\ msgs = [i \in 1..Len(msgs) |-> msgs[i]]
      BY <2>1, LenProperties
    <3> QED
      BY <3>1, FunctionIsSeq
  <2>3. mark.before = now
    OBVIOUS
  <2> HIDE DEF mark
  <2> QED
    BY <1>1, <1>2, <2>2, <2>3, AppendFacts
<1>4. /\ IsSeq(f) /\ Len(f) = n
      /\ \A k \in 1..n : f[k] = [width |-> IF k = 1 THEN 0 ELSE 1,
                                  body |-> Body(backing, Lo(msgs, k), Hi(pos, msgs, k))]
      /\ IsSeq(g) /\ Len(g) = n + 1
      /\ \A k \in 1..(n + 1) : g[k] = [width |-> IF k = 1 THEN 0 ELSE 1,
                                  body |-> Body(backing, Lo(msgs', k), Hi(pos, msgs', k))]
  BY <1>2, <1>3, FramesSteps
<1>5. now \in 0..RevCapacity /\ backing \in [1..RevCapacity -> Byte]
  BY BothAssumption, SameByte DEF SliceInv, RevOK, R!TypeOK
<1>6. \A k \in 1..n : Lo(msgs', k) = Lo(msgs, k) /\ Hi(pos, msgs', k) = Hi(pos, msgs, k)
  <2> TAKE k \in 1..n
  <2>1. Lo(msgs', k) = Lo(msgs, k)
    <3>1. k # 1 => k - 1 \in 1..(n - 1)
      BY <1>1
    <3> QED
      BY <1>3, <3>1 DEF Lo
  <2>2. CASE k = n
    BY <1>1, <1>3, <2>1, <2>2 DEF Hi
  <2>3. CASE k # n
    <3>1. k \in 1..(n - 1) /\ k <= Len(msgs) /\ k <= Len(msgs')
      BY <1>1, <1>3, <2>3
    <3> QED
      BY <1>3, <2>1, <3>1 DEF Hi
  <2> QED
    BY <2>2, <2>3
<1>7. Lo(msgs', n + 1) = now /\ Hi(pos, msgs', n + 1) = now
  BY <1>1, <1>3 DEF Lo, Hi
<1> HIDE DEF f, g, n, now, mark, new
<1>8. Body(backing, now, now) = << >>
  <2>1. now <= now
    BY <1>5
  <2>2. Body(backing, now, now) \in Seq(Byte) /\ Len(Body(backing, now, now)) = now - now
    BY <1>5, <2>1, BodyFacts
  <2>3. now - now = 0
    BY <1>5
  <2> QED
    BY <2>2, <2>3, EmptySeq
<1>9. g = Append(f, new)
  <2>1. /\ IsSeq(Append(f, new)) /\ Len(Append(f, new)) = n + 1
        /\ \A k \in 1..n : Append(f, new)[k] = f[k]
        /\ Append(f, new)[n + 1] = new
    BY <1>4, AppendFacts
  <2>2. g[n + 1] = new
    <3>1. n + 1 \in 1..(n + 1) /\ n + 1 # 1
      BY <1>1
    <3> QED
      BY <1>4, <1>7, <1>8, <3>1 DEF new
  <2>3. \A k \in 1..n : g[k] = f[k]
    <3> TAKE k \in 1..n
    <3>1. k \in 1..(n + 1)
      BY <1>1
    <3> QED
      BY <1>4, <1>6, <3>1
  <2>4. \A k \in 1..(n + 1) : g[k] = Append(f, new)[k]
    <3> TAKE k \in 1..(n + 1)
    <3>1. k \in 1..n \/ k = n + 1
      BY <1>1
    <3> QED
      BY <2>1, <2>2, <2>3, <3>1
  <2> QED
    BY <1>4, <2>1, <2>4, SameSeq
<1>10. R!Wire!Open
  BY <1>9 DEF R!Wire!Open, f, g, new
<1>11. Ordered(pos', msgs')
  <2>1. \A k \in 1..(n + 1) : k \in 1..n \/ k = n + 1
    BY <1>1
  <2>2. now <= now
    BY <1>5
  <2> QED
    BY <1>1, <1>2, <1>3, <1>6, <1>7, <2>1, <2>2 DEF Ordered
<1> QED
  BY <1>10, <1>11

\* A message that is closed joins the one around it, framed.
LEMMA EndFrames ==
    ASSUME SliceInv, RevOK', R!EndMsg
    PROVE  R!Wire!Close
<1> DEFINE f == R!Frames
           g == R!Frames'
           n == Len(msgs)
           m == Last(msgs)
           now == RevCapacity - pos
           then == RevCapacity - pos'
           pre == write_varint(now - m.before)
           head == m.tag \o pre
           inner == Body(backing, m.before, now)
           outer == Body(backing, Lo(msgs, n), m.before)
<1>1. /\ n \in Nat \ {0}
      /\ \A k \in 1..(n + 1) : Lo(msgs, k) \in 0..RevCapacity /\ Hi(pos, msgs, k) \in 0..RevCapacity
      /\ \A k \in 1..(n + 1) : Lo(msgs, k) <= Hi(pos, msgs, k)
      /\ m \in [before : 0..RevCapacity, tag : Tags]
      /\ m = msgs[n]
      /\ Len(Front(msgs)) = n - 1
      /\ \A i \in 1..(n - 1) : Front(msgs)[i] = msgs[i]
  <2>1. msgs \in Seq([before : 0..RevCapacity, tag : Tags]) /\ msgs # << >>
    BY DEF SliceInv, RevOK, R!TypeOK, R!EndMsg
  <2> QED
    BY <2>1, FrontProps, LoHiType DEF SliceInv, Ordered
<1>2. R!Prepend(head) /\ msgs' = Front(msgs)
  BY SameEnds, SameVarint DEF R!EndMsg, R!Header, R!WrittenLen
<1>3. /\ now \in 0..RevCapacity /\ backing \in [1..RevCapacity -> Byte]
      /\ m.tag \in Seq(Byte) /\ m.tag \in Tags /\ m.before \in 0..RevCapacity
      /\ m.before <= now
  <2>1. m.tag \in Tags /\ m.before \in 0..RevCapacity
    BY <1>1
  <2>2. m.before <= now
    BY <1>1 DEF SliceInv, RevOK
  <2>3. now \in 0..RevCapacity /\ backing \in [1..RevCapacity -> Byte]
    BY BothAssumption, SameByte DEF SliceInv, RevOK, R!TypeOK
  <2> QED
    BY <2>1, <2>2, <2>3, BothAssumption
<1>4. /\ IsSeq(f) /\ Len(f) = n + 1
      /\ \A k \in 1..(n + 1) : f[k] = [width |-> IF k = 1 THEN 0 ELSE 1,
                                  body |-> Body(backing, Lo(msgs, k), Hi(pos, msgs, k))]
      /\ IsSeq(g) /\ Len(g) = n
      /\ \A k \in 1..n : g[k] = [width |-> IF k = 1 THEN 0 ELSE 1,
                                  body |-> Body(backing', Lo(msgs', k), Hi(pos', msgs', k))]
  <2>1. Len(msgs') = n - 1 /\ (n - 1) + 1 = n
    BY <1>1, <1>2
  <2> QED
    BY <2>1, FramesSteps
<1>5. /\ \A k \in 1..n : Lo(msgs', k) = Lo(msgs, k)
      /\ \A k \in 1..(n - 1) : Hi(pos', msgs', k) = Hi(pos, msgs, k) /\ Hi(pos, msgs, k) <= now
      /\ Hi(pos', msgs', n) = then
      /\ Hi(pos, msgs, n) = m.before
      /\ Lo(msgs, n + 1) = m.before /\ Hi(pos, msgs, n + 1) = now
  <2>1. \A k \in 1..n : Lo(msgs', k) = Lo(msgs, k)
    <3> TAKE k \in 1..n
    <3>1. k # 1 => k - 1 \in 1..(n - 1)
      BY <1>1
    <3> QED
      BY <1>1, <1>2, <3>1 DEF Lo
  <2>2. \A k \in 1..(n - 1) : Hi(pos', msgs', k) = Hi(pos, msgs, k) /\ Hi(pos, msgs, k) <= now
    <3> TAKE k \in 1..(n - 1)
    <3>1. k <= Len(msgs) /\ k <= Len(msgs') /\ k \in 1..Len(msgs)
      BY <1>1, <1>2
    <3>2. msgs'[k] = msgs[k] /\ msgs[k].before <= now
      BY <1>1, <1>2, <3>1 DEF SliceInv, RevOK
    <3> QED
      BY <3>1, <3>2 DEF Hi
  <2>3. Hi(pos', msgs', n) = then
    BY <1>1, <1>2 DEF Hi
  <2>4. Hi(pos, msgs, n) = m.before
    BY <1>1 DEF Hi
  <2>5. Lo(msgs, n + 1) = m.before
    BY <1>1 DEF Lo
  <2>6. Hi(pos, msgs, n + 1) = now
    BY <1>1 DEF Hi
  <2> QED
    BY <2>1, <2>2, <2>3, <2>4, <2>5, <2>6
<1> HIDE DEF f, g, n, m, now, then
<1>6. n \in 1..(n + 1) /\ n + 1 \in 1..(n + 1) /\ n + 1 # 1 /\ n \in 1..n
  BY <1>1
<1>7. now - m.before \in Nat /\ pre \in Seq(Byte)
  <2>1. now - m.before \in Nat
    BY <1>3
  <2> QED
    BY <2>1, VarintType, SameVarint
<1> HIDE DEF pre
<1>8. head \in Seq(Byte)
  BY <1>3, <1>7, ConcatProperties
<1>9. /\ Lo(msgs, n) \in 0..RevCapacity /\ Lo(msgs, n) <= m.before /\ Lo(msgs, n) <= now
  <2>1. Lo(msgs, n) \in 0..RevCapacity /\ Lo(msgs, n) <= m.before
    BY <1>1, <1>5, <1>6
  <2> QED
    BY <1>3, <2>1
<1>10. /\ inner \in Seq(Byte) /\ Len(inner) = now - m.before
       /\ outer \in Seq(Byte)
       /\ Body(backing, Lo(msgs, n), now) = inner \o outer
  BY <1>3, <1>9, BodyFacts, BodySplit
<1>11. Body(backing', Lo(msgs, n), then) = (head \o inner) \o outer
  <2>1. Body(backing', Lo(msgs, n), then) = head \o Body(backing, Lo(msgs, n), now)
    <3>1. RevOK
      BY DEF SliceInv
    <3>2. /\ R!Prepend(head) => Body(backing', Lo(msgs, n), RevCapacity - pos')
                = head \o Body(backing, Lo(msgs, n), RevCapacity - pos)
      <4> HIDE DEF head
      <4> QED
        BY <1>2, <1>3, <1>8, <1>9, <3>1, ClaimBody DEF now
    <3> QED
      BY <1>2, <3>2 DEF now, then
  <2> HIDE DEF head, inner, outer
  <2> QED
    BY <1>8, <1>10, <2>1, ConcatAssociative
<1>12. \A k \in 1..(n - 1) : g[k] = f[k]
  <2> TAKE k \in 1..(n - 1)
  <2>1. k \in 1..n /\ k \in 1..(n + 1)
    BY <1>1
  <2>2. Body(backing', Lo(msgs, k), Hi(pos, msgs, k)) = Body(backing, Lo(msgs, k), Hi(pos, msgs, k))
    <3> HIDE DEF head
    <3>1. Hi(pos, msgs, k) <= RevCapacity - pos
      BY <1>5 DEF now
    <3> QED
      BY <1>1, <1>2, <1>8, <2>1, <3>1, ClaimBody DEF SliceInv
  <2> QED
    BY <1>4, <1>5, <2>1, <2>2
<1> HIDE DEF head, inner, outer
<1>13. /\ f[n + 1] = [width |-> 1, body |-> inner]
       /\ f[n] = [width |-> IF n = 1 THEN 0 ELSE 1, body |-> outer]
       /\ g[n] = [width |-> IF n = 1 THEN 0 ELSE 1, body |-> (head \o inner) \o outer]
  <2>1. inner = Body(backing, m.before, now) /\ outer = Body(backing, Lo(msgs, n), m.before)
    BY DEF inner, outer
  <2> QED
    BY <1>4, <1>5, <1>6, <1>11, <2>1, SMTT(30)
<1>14. f # << >> /\ Last(f) = f[n + 1]
  BY <1>1, <1>4 DEF Last
<1>15. /\ IsSeq(Front(f)) /\ Len(Front(f)) = n /\ DOMAIN Front(f) = 1..n
       /\ \A k \in 1..n : Front(f)[k] = f[k]
  <2>1. /\ IsSeq(Front(f)) /\ Len(Front(f)) = Len(f) - 1
        /\ \A k \in DOMAIN Front(f) : Front(f)[k] = f[k]
    BY <1>4, <1>14, FrontFacts
  <2>2. Len(f) - 1 = n
    BY <1>1, <1>4
  <2> QED
    BY <2>1, <2>2, SeqFacts
<1>16. g = [Front(f) EXCEPT ![n].body = (head \o inner) \o @]
  <2> DEFINE x == [width |-> IF n = 1 THEN 0 ELSE 1, body |-> (head \o inner) \o outer]
             e == [Front(f) EXCEPT ![n] = x]
  <2>1. Front(f)[n] = [width |-> IF n = 1 THEN 0 ELSE 1, body |-> outer]
    BY <1>6, <1>13, <1>15
  <2>2. [Front(f) EXCEPT ![n].body = (head \o inner) \o @] = e
    <3> DEFINE r == Front(f)
               y == (head \o inner) \o outer
    <3>1. r[n] = [width |-> IF n = 1 THEN 0 ELSE 1, body |-> outer] /\ r[n].body = outer
      BY <2>1
    <3> HIDE DEF r, y
    <3>2. [r[n] EXCEPT !.body = y] = [width |-> IF n = 1 THEN 0 ELSE 1, body |-> y]
      BY <3>1
    <3>3. [r EXCEPT ![n].body = y] = [r EXCEPT ![n] = [r[n] EXCEPT !.body = y]]
      OBVIOUS
    <3>4. [r EXCEPT ![n].body = (head \o inner) \o @] = [r EXCEPT ![n].body = y]
      BY <3>1 DEF y
    <3>5. [r EXCEPT ![n].body = (head \o inner) \o @]
            = [r EXCEPT ![n] = [width |-> IF n = 1 THEN 0 ELSE 1, body |-> y]]
      BY <3>2, <3>3, <3>4
    <3> QED
      BY <3>5 DEF r, y
  <2> HIDE DEF x
  <2>3. /\ IsSeq(e) /\ Len(e) = n
        /\ \A k \in 1..n : e[k] = IF k = n THEN x ELSE Front(f)[k]
    BY <1>15, ExceptFacts, ZenonT(30)
  <2>4. \A k \in 1..n : g[k] = e[k]
    <3> TAKE k \in 1..n
    <3>1. CASE k = n
      BY <1>13, <2>3, <3>1 DEF x
    <3>2. CASE k # n
      <4>1. k \in 1..(n - 1)
        BY <1>1, <3>2
      <4> QED
        BY <1>12, <1>15, <2>3, <3>2, <4>1
    <3> QED
      BY <3>1, <3>2
  <2>5. g = e
    BY <1>4, <2>3, <2>4, SameSeq
  <2> QED
    BY <2>2, <2>5
<1>17. R!Wire!Prefix(1, Len(inner)) = pre
  <2>1. encoded_len_varint(now - m.before) \in Nat \ {0}
    BY EncodedLenType, VarintAssumption
  <2>2. (IF 1 > encoded_len_varint(now - m.before) THEN 1 ELSE encoded_len_varint(now - m.before))
           = encoded_len_varint(now - m.before)
    BY <2>1
  <2> QED
    BY <1>10, <2>2, WireEnds DEF R!Wire!Prefix, pre
<1>18. R!Wire!Fold((m.tag \o R!Wire!Prefix(1, Len(inner))) \o inner)
  <2>1. Len(f) > 1 /\ Len(f) - 1 = n
    BY <1>1, <1>4
  <2>2. head = m.tag \o pre
    BY DEF head
  <2> QED
    BY <1>16, <1>17, <2>1, <2>2, WireEnds DEF R!Wire!Fold, R!Wire!Join, f, g
<1>19. R!Wire!Last(R!Frames).width = 1 /\ R!Wire!Last(R!Frames).body = inner
  BY <1>13, <1>14, WireEnds DEF f
<1> QED
  BY <1>3, <1>18, <1>19 DEF R!Wire!Close

-----------------------------------------------------------------------------
(* Steps of the reverse writer are steps of WireFrames. *)

\* A claim, and a message that is closed, leave the order of what is open.
LEMMA PrependOrdered ==
    ASSUME SliceInv, pos' \in 0..RevCapacity, pos' <= pos, msgs' = msgs
    PROVE  Ordered(pos', msgs')
<1>1. /\ pos \in 0..RevCapacity /\ RevCapacity \in Nat /\ Len(msgs) \in Nat
      /\ \A k \in 1..(Len(msgs) + 1) : Lo(msgs, k) \in 0..RevCapacity
      /\ \A k \in 1..(Len(msgs) + 1) : Lo(msgs, k) <= Hi(pos, msgs, k)
  BY BothAssumption, LoHiType DEF SliceInv, RevOK, R!TypeOK, Ordered
<1>2. ASSUME NEW k \in 1..(Len(msgs) + 1)
      PROVE  Lo(msgs, k) <= Hi(pos', msgs, k)
  <2>1. CASE k <= Len(msgs)
    BY <1>1, <2>1 DEF Hi
  <2>2. CASE ~(k <= Len(msgs))
    <3>1. Hi(pos, msgs, k) = RevCapacity - pos /\ Hi(pos', msgs, k) = RevCapacity - pos'
      BY <2>2 DEF Hi
    <3>2. Lo(msgs, k) \in 0..RevCapacity /\ Lo(msgs, k) <= RevCapacity - pos
      BY <1>1, <3>1
    <3> QED
      BY <1>1, <3>1, <3>2
  <2> QED
    BY <2>1, <2>2
<1> QED
  BY <1>2 DEF Ordered

\* So does closing one, which lets the message around it end later.
LEMMA EndOrdered ==
    ASSUME SliceInv, RevOK', R!EndMsg
    PROVE  Ordered(pos', msgs')
<1> DEFINE n == Len(msgs)
<1>1. msgs \in Seq([before : 0..RevCapacity, tag : Tags]) /\ msgs # << >> /\ msgs' = Front(msgs)
  BY SameEnds DEF SliceInv, RevOK, R!TypeOK, R!EndMsg
<1>2. /\ n \in Nat \ {0} /\ Len(msgs') = n - 1
      /\ \A i \in 1..(n - 1) : msgs'[i] = msgs[i]
  BY <1>1, FrontProps
<1>3. /\ \A k \in 1..(n + 1) : Lo(msgs, k) \in 0..RevCapacity
      /\ \A k \in 1..(n + 1) : Lo(msgs, k) <= Hi(pos, msgs, k)
  BY LoHiType DEF SliceInv, Ordered
<1>4. pos' \in 0..RevCapacity /\ RevCapacity \in Nat /\ pos \in 0..RevCapacity /\ pos' <= pos
  <2>1. pos' \in 0..RevCapacity /\ RevCapacity \in Nat /\ pos \in 0..RevCapacity
    BY BothAssumption DEF SliceInv, RevOK, R!TypeOK
  <2>2. Len(R!Header(Last(msgs))) \in Nat
    <3>1. R!Header(Last(msgs)) \in Seq(Byte)
      BY HeaderType DEF SliceInv, R!EndMsg
    <3> QED
      BY <3>1, LenProperties
  <2>3. pos' = pos - Len(R!Header(Last(msgs)))
    BY SameEnds DEF R!EndMsg, R!Prepend
  <2> QED
    BY <2>1, <2>2, <2>3
<1>5. msgs[n].before <= RevCapacity - pos /\ msgs[n].before \in 0..RevCapacity
  BY <1>2, MarkType DEF SliceInv, RevOK
<1> HIDE DEF n
<1>6. ASSUME NEW k \in 1..((n - 1) + 1)
      PROVE  Lo(msgs', k) <= Hi(pos', msgs', k)
  <2>1. k \in 1..n /\ k \in 1..(n + 1)
    BY <1>2
  <2>2. Lo(msgs', k) = Lo(msgs, k)
    <3>1. k # 1 => k - 1 \in 1..(n - 1)
      BY <1>2
    <3> QED
      BY <1>2, <3>1 DEF Lo
  <2>3. Hi(pos, msgs, k) = msgs[k].before
    BY <2>1 DEF Hi, n
  <2>4. CASE k = n
    <3>1. Hi(pos', msgs', k) = RevCapacity - pos'
      BY <1>2, <2>4 DEF Hi
    <3>2. Lo(msgs, k) \in 0..RevCapacity /\ Lo(msgs, k) <= msgs[n].before
      BY <1>3, <2>1, <2>3, <2>4
    <3> QED
      BY <1>4, <1>5, <2>2, <3>1, <3>2
  <2>5. CASE k # n
    <3>1. k \in 1..(n - 1)
      BY <2>1, <2>5, <1>2
    <3>2. Hi(pos', msgs', k) = msgs[k].before
      BY <1>2, <3>1 DEF Hi
    <3> QED
      BY <1>3, <2>1, <2>2, <2>3, <3>2
  <2> QED
    BY <2>4, <2>5
<1> QED
  BY <1>2, <1>6 DEF Ordered

\* The invariant, with the order of the open messages.
FramesInv == IInv /\ Ordered(pos, msgs)

\* Nothing is written and nothing open: the output is empty.
LEMMA FramesInit == Init => FramesInv /\ R!Wire!Init
<1> SUFFICES ASSUME Init
             PROVE  FramesInv /\ R!Wire!Init
  OBVIOUS
<1>1. IInv
  BY InitInv
<1>2. msgs = << >> /\ pos = RevCapacity /\ Len(msgs) = 0 /\ RevCapacity \in Nat
  BY BothAssumption DEF Init, R!Init
<1>3. Lo(msgs, 1) = 0 /\ Hi(pos, msgs, 1) = 0
  BY <1>2 DEF Lo, Hi
<1>4. Ordered(pos, msgs)
  <2>1. \A k \in 1..(Len(msgs) + 1) : k = 1
    BY <1>2
  <2> QED
    BY <1>3, <2>1 DEF Ordered
<1> DEFINE f == R!Frames
           g == <<[width |-> 0, body |-> << >>]>>
<1>5. Body(backing, 0, 0) = << >>
  <2>1. backing \in [1..RevCapacity -> Byte] /\ 0 \in 0..RevCapacity /\ 0 <= 0
    BY <1>1, <1>2, SameByte DEF IInv, RevOK, R!TypeOK
  <2>2. Body(backing, 0, 0) \in Seq(Byte) /\ Len(Body(backing, 0, 0)) = 0 - 0
    BY <2>1, BodyFacts
  <2> QED
    BY <2>2, EmptySeq
<1>6. f = View(backing, pos, msgs)
  BY <1>1, FramesView DEF IInv
<1> HIDE DEF f
<1>7. IsSeq(f) /\ Len(f) = 1 /\ f[1] = [width |-> 0, body |-> << >>]
  <2>1. IsSeq(f) /\ Len(f) = Len(msgs) + 1
    BY <1>2, <1>6, ViewFacts
  <2>2. f[1] = [width |-> IF 1 = 1 THEN 0 ELSE 1,
                body |-> Body(backing, Lo(msgs, 1), Hi(pos, msgs, 1))]
    <3>1. 1 \in 1..(Len(msgs) + 1)
      BY <1>2
    <3> QED
      BY <1>2, <1>6, <3>1, ViewFacts
  <2> QED
    BY <1>2, <1>3, <1>5, <2>1, <2>2
<1>8. IsSeq(g) /\ Len(g) = 1 /\ g[1] = [width |-> 0, body |-> << >>]
  <2>1. g = [i \in 1..1 |-> g[i]]
    OBVIOUS
  <2>2. g[1] = [width |-> 0, body |-> << >>]
    OBVIOUS
  <2> HIDE DEF g
  <2> QED
    BY <2>1, <2>2, FunctionIsSeq
<1> HIDE DEF g
<1>9. f = g
  BY <1>7, <1>8, SameSeq
<1> QED
  BY <1>1, <1>4, <1>9 DEF FramesInv, R!Wire!Init, f, g

\* What leaves the slice, the cursor and the open calls alone leaves the frames alone.
LEMMA SameFrames ==
    ASSUME FramesInv, UNCHANGED <<backing, pos, msgs>>
    PROVE  Ordered(pos', msgs') /\ R!Frames' = R!Frames
BY DEF FramesInv, R!Frames, R!BodyLen, R!WrittenLen

\* The bytes of a mirrored call are those its kind has.
LEMMA MirroredCall ==
    ASSUME IInv, NEW op, Called(op)
    PROVE  NextCall.bytes \in IF op = "put" THEN Chunks ELSE Tags
<1>1. NextCall \in Call /\ NextCall.op = op
  BY CalledOK
<1> QED
  BY <1>1 DEF Call

\* Every step of the program is a step of WireFrames or leaves the frames alone.
LEMMA FramesStep == FramesInv /\ [Next]_vars => FramesInv' /\ [R!Wire!Next]_(R!Frames)
<1> SUFFICES ASSUME FramesInv, [Next]_vars
             PROVE  FramesInv' /\ [R!Wire!Next]_(R!Frames)
  OBVIOUS
<1>1. IInv /\ SliceInv /\ IInv' /\ RevOK'
  BY StepInv DEF FramesInv, SliceInv, IInv
<1> SUFFICES Ordered(pos', msgs') /\ [R!Wire!Next]_(R!Frames)
  BY <1>1 DEF FramesInv
<1>2. CASE R!Put(NextCall.bytes) /\ MirrorPut
  <2>1. NextCall.bytes \in Chunks
    BY <1>1, <1>2, MirroredCall DEF MirrorPut
  <2>2. PICK c \in Seq(Byte) : R!Prepend(c) /\ msgs' = msgs
    BY <1>2, <2>1, BothAssumption DEF R!Put
  <2>3. pos' \in 0..RevCapacity /\ pos' <= pos
    BY <1>1, <2>2, PrependType DEF IInv
  <2> QED
    BY <1>1, <2>2, <2>3, PrependOrdered, PutFrames DEF R!Wire!Next
<1>3. CASE MirrorEnd
  <2>1. NextCall.bytes \in Tags
    BY <1>1, <1>3, MirroredCall DEF MirrorEnd
  <2>2. PICK tag \in Tags : R!BeginMsg(tag)
    BY <1>3, <2>1 DEF MirrorEnd
  <2> QED
    BY <1>1, <2>2, BeginFrames DEF R!Wire!Next
<1>4. CASE R!EndMsg
  BY <1>1, <1>4, EndFrames, EndOrdered DEF R!Wire!Next
<1>5. CASE UNCHANGED <<backing, pos, msgs>>
  BY <1>5, SameFrames
<1>6. \/ R!Put(NextCall.bytes) /\ MirrorPut
      \/ MirrorEnd
      \/ R!EndMsg
      \/ UNCHANGED <<backing, pos, msgs>>
  <2>1. CASE UNCHANGED vars \/ Terminating
    BY <2>1 DEF Terminating, vars
  <2>2. CASE WritePut \/ WriteBegin \/ WriteEnd \/ WriteDone \/ WritePanics \/ Unwind
    BY <2>2 DEF WritePut, WriteBegin, WriteEnd, WriteDone, WritePanics, Unwind, rvars
  <2>3. CASE MirrorPut
    BY <2>3 DEF MirrorPut, R!PutPanics, R!Exhausted
  <2>4. CASE MirrorEnd
    BY <2>4
  <2>5. CASE MirrorBegin
    BY <2>5 DEF MirrorBegin, R!EndMsgPanics, R!Exhausted
  <2>6. CASE MirrorPanics \/ MirrorDone
    BY <2>6 DEF MirrorPanics, MirrorDone, R!ClosurePanics, R!Finish
  <2> QED
    BY <2>1, <2>2, <2>3, <2>4, <2>5, <2>6 DEF Next
<1> QED
  BY <1>2, <1>3, <1>4, <1>5, <1>6

\* Written backwards, any program's payloads are framed with their exact, minimal lengths and
\* their tags, and no byte once written is moved or overwritten, whatever runs out or panics:
\* the downward-growing writer implements WireFrames (buf.rs RevBuf::put_msg, claim).
THEOREM RevFramesMessages == Spec => RevFraming
<1>1. Init => FramesInv /\ R!Wire!Init
  BY FramesInit
<1>2. FramesInv /\ [Next]_vars => FramesInv' /\ [R!Wire!Next]_(R!Frames)
  BY FramesStep
<1> QED
  BY <1>1, <1>2, PTL DEF Spec, RevFraming, R!Framing, R!Wire!Spec

-----------------------------------------------------------------------------
(* Where the calls of a script are in the buffer.  After its first k calls  *)
(* at[k] bytes are written, and around[k] are the calls that began the      *)
(* messages open by then, outermost first.  The message that call k began  *)
(* has size[k] bytes of payload, its length is wide[k] bytes long.          *)

\* What is open is nested, and was begun before.
Stacked(n, sc, around) ==
    /\ around[0] = << >>
    /\ \A k \in 0..n :
          /\ IsSeq(around[k])
          /\ \A p \in 1..Len(around[k]) : around[k][p] \in 1..k /\ sc[around[k][p]].op = "begin"
          /\ \A p, q \in 1..Len(around[k]) : p < q => around[k][p] < around[k][q]

\* Calls follow each other.
Rising(n, b, at) ==
    /\ at[0] = 0
    /\ \A k \in 0..n : at[k] \in 0..Len(b)
    /\ \A j, k \in 0..n : j <= k => at[j] <= at[k]

PutSpan(k, sc, b, at, around) ==
    /\ around[k] = around[k - 1]
    /\ Piece(b, at[k - 1], at[k]) = sc[k].bytes

BeginSpan(k, sc, b, at, around, size, wide) ==
    /\ around[k] = Append(around[k - 1], k)
    /\ size[k] \in Nat /\ wide[k] \in Nat
    /\ Piece(b, at[k - 1], at[k]) = sc[k].bytes \o write_wide_varint(wide[k], size[k])

EndSpan(k, sc, at, around, size) ==
    LET i == Last(around[k - 1]) IN
    /\ around[k - 1] # << >>
    /\ around[k] = Front(around[k - 1])
    /\ at[k] = at[k - 1] /\ at[k] = at[i] + size[i]
    /\ sc[k].bytes = sc[i].bytes

\* What call k left in the buffer.
Span(k, sc, b, at, around, size, wide) ==
    /\ sc[k].op = "put" => PutSpan(k, sc, b, at, around)
    /\ sc[k].op = "begin" => BeginSpan(k, sc, b, at, around, size, wide)
    /\ sc[k].op = "end" => EndSpan(k, sc, at, around, size)

Laid(n, sc, b, at, around, size, wide) ==
    /\ Stacked(n, sc, around)
    /\ Rising(n, b, at)
    /\ \A k \in 1..n : Span(k, sc, b, at, around, size, wide)

\* The innermost open message was begun before.
LEMMA InnermostBegan ==
    ASSUME NEW n \in Nat, NEW sc, NEW around, Stacked(n, sc, around),
           NEW k \in 0..n, around[k] # << >>
    PROVE  /\ Last(around[k]) \in 1..k
           /\ sc[Last(around[k])].op = "begin"
           /\ Last(around[k]) = around[k][Len(around[k])]
           /\ Len(around[k]) \in Nat \ {0}
<1>1. IsSeq(around[k]) /\ Len(around[k]) \in DOMAIN around[k]
  BY FrontFacts DEF Stacked
<1>2. Len(around[k]) \in Nat /\ Len(around[k]) \in 1..Len(around[k])
  BY <1>1, SeqFacts
<1> QED
  BY <1>2 DEF Stacked, Last

\* It does not matter what comes behind call k.
LEMMA SpanSame ==
    ASSUME NEW k \in Nat \ {0}, NEW b, NEW sc, NEW sc2, NEW at, NEW at2, NEW around, NEW around2,
           NEW size, NEW size2, NEW wide, NEW wide2,
           Stacked(k, sc, around), Span(k, sc, b, at, around, size, wide),
           \A j \in 0..k : at2[j] = at[j] /\ around2[j] = around[j],
           \A j \in 1..k : sc2[j] = sc[j] /\ size2[j] = size[j] /\ wide2[j] = wide[j]
    PROVE  Span(k, sc2, b, at2, around2, size2, wide2)
<1>1. k \in 1..k /\ k \in 0..k /\ k - 1 \in 0..k
  OBVIOUS
<1>2. around[k - 1] # << >> => Last(around[k - 1]) \in 1..k /\ Last(around[k - 1]) \in 0..k
  <2>1. around[k - 1] # << >> => Last(around[k - 1]) \in 1..(k - 1)
    BY <1>1, InnermostBegan
  <2> QED
    BY <2>1
<1>3. sc2[k].op = "put" => PutSpan(k, sc2, b, at2, around2)
  BY <1>1 DEF Span, PutSpan
<1>4. sc2[k].op = "begin" => BeginSpan(k, sc2, b, at2, around2, size2, wide2)
  BY <1>1 DEF Span, BeginSpan
<1>5. sc2[k].op = "end" => EndSpan(k, sc2, at2, around2, size2)
  BY <1>1, <1>2 DEF Span, EndSpan
<1> QED
  BY <1>3, <1>4, <1>5 DEF Span

\* Without its last calls a script is laid out as before.
LEMMA LaidShorter ==
    ASSUME NEW n \in Nat, NEW m \in 0..n, NEW b, NEW sc, NEW sc2, NEW at, NEW around, NEW size, NEW wide,
           Laid(n, sc, b, at, around, size, wide),
           \A j \in 1..m : sc2[j] = sc[j]
    PROVE  Laid(m, sc2, b, at, around, size, wide)
<1>1. \A k \in 0..m : Stacked(k, sc, around)
  BY DEF Laid, Stacked
<1>2. Stacked(m, sc2, around)
  <2>1. ASSUME NEW k \in 0..m
        PROVE  /\ IsSeq(around[k])
               /\ \A p \in 1..Len(around[k]) : around[k][p] \in 1..k /\ sc2[around[k][p]].op = "begin"
               /\ \A p, q \in 1..Len(around[k]) : p < q => around[k][p] < around[k][q]
    <3>1. k \in 0..n /\ \A i \in 1..k : i \in 1..m
      OBVIOUS
    <3>2. \A p \in 1..Len(around[k]) : around[k][p] \in 1..k /\ sc[around[k][p]].op = "begin"
      BY <3>1 DEF Laid, Stacked
    <3> QED
      BY <3>1, <3>2 DEF Laid, Stacked
  <2> QED
    BY <2>1 DEF Laid, Stacked
<1>3. Rising(m, b, at)
  BY DEF Laid, Rising
<1>4. ASSUME NEW k \in 1..m
      PROVE  Span(k, sc2, b, at, around, size, wide)
  <2>1. k \in Nat \ {0} /\ k \in 0..m /\ k \in 1..n /\ \A j \in 1..k : sc2[j] = sc[j]
    OBVIOUS
  <2>2. Stacked(k, sc, around) /\ Span(k, sc, b, at, around, size, wide)
    BY <1>1, <2>1 DEF Laid
  <2> QED
    BY <2>1, <2>2, SpanSame
<1> QED
  BY <1>2, <1>3, <1>4 DEF Laid

\* Up to call n nothing has changed.
SameCalls(n, sc, sc2, at, at2, around, around2, size, size2, wide, wide2) ==
    /\ \A j \in 0..n : at2[j] = at[j] /\ around2[j] = around[j]
    /\ \A j \in 1..n : sc2[j] = sc[j] /\ size2[j] = size[j] /\ wide2[j] = wide[j]

\* What is open after call m was begun before, outermost first.
Nesting(m, sc, around) ==
    /\ IsSeq(around[m])
    /\ \A p \in 1..Len(around[m]) : around[m][p] \in 1..m /\ sc[around[m][p]].op = "begin"
    /\ \A p, q \in 1..Len(around[m]) : p < q => around[m][p] < around[m][q]

\* One more call.
LEMMA LaidNext ==
    ASSUME NEW n \in Nat, NEW b, Len(b) \in Nat,
           NEW sc, NEW sc2, NEW at, NEW at2, NEW around, NEW around2,
           NEW size, NEW size2, NEW wide, NEW wide2,
           Laid(n, sc, b, at, around, size, wide),
           SameCalls(n, sc, sc2, at, at2, around, around2, size, size2, wide, wide2),
           at2[n + 1] \in 0..Len(b), at[n] <= at2[n + 1],
           Nesting(n + 1, sc2, around2),
           Span(n + 1, sc2, b, at2, around2, size2, wide2)
    PROVE  Laid(n + 1, sc2, b, at2, around2, size2, wide2)
<1> USE DEF SameCalls, Nesting
<1>1. 0 \in 0..n /\ n \in 0..n /\ \A k \in 0..(n + 1) : k = n + 1 \/ k \in 0..n
  OBVIOUS
<1>2. Stacked(n + 1, sc2, around2)
  <2>1. around2[0] = << >>
    BY <1>1 DEF Laid, Stacked
  <2>2. ASSUME NEW k \in 0..n
        PROVE  /\ IsSeq(around2[k])
               /\ \A p \in 1..Len(around2[k]) : around2[k][p] \in 1..k /\ sc2[around2[k][p]].op = "begin"
               /\ \A p, q \in 1..Len(around2[k]) : p < q => around2[k][p] < around2[k][q]
    <3>1. \A i \in 1..k : i \in 1..n /\ sc2[i] = sc[i]
      OBVIOUS
    <3>2. around2[k] = around[k]
      OBVIOUS
    <3>3. /\ IsSeq(around[k])
          /\ \A p \in 1..Len(around[k]) : around[k][p] \in 1..k /\ sc[around[k][p]].op = "begin"
          /\ \A p, q \in 1..Len(around[k]) : p < q => around[k][p] < around[k][q]
      BY DEF Laid, Stacked
    <3> QED
      BY <3>1, <3>2, <3>3
  <2> QED
    BY <1>1, <2>1, <2>2 DEF Stacked
<1>3. Rising(n + 1, b, at2)
  <2>1. /\ at2[0] = 0
        /\ \A k \in 0..n : at2[k] \in 0..Len(b)
        /\ \A j, k \in 0..n : j <= k => at2[j] <= at2[k]
        /\ at2[n] <= at2[n + 1]
    BY <1>1 DEF Laid, Rising
  <2>2. ASSUME NEW j \in 0..(n + 1), NEW k \in 0..(n + 1), j <= k
        PROVE  at2[j] <= at2[k]
    <3>1. CASE k \in 0..n
      BY <2>1, <2>2, <3>1
    <3>2. CASE k = n + 1 /\ j \in 0..n
      <4>1. at2[j] <= at2[n] /\ at2[j] \in Nat /\ at2[n] \in Nat /\ at2[n + 1] \in Nat
        BY <1>1, <2>1, <3>2
      <4> QED
        BY <2>1, <3>2, <4>1
    <3>3. CASE k = n + 1 /\ j = n + 1
      BY <3>3
    <3> QED
      BY <1>1, <2>2, <3>1, <3>2, <3>3
  <2> QED
    BY <1>1, <2>1, <2>2 DEF Rising
<1>0. \A k \in 0..n : Stacked(k, sc, around)
  BY DEF Laid, Stacked
<1>4. ASSUME NEW k \in 1..(n + 1)
      PROVE  Span(k, sc2, b, at2, around2, size2, wide2)
  <2>1. CASE k = n + 1
    BY <2>1
  <2>2. CASE k # n + 1
    <3>1. k \in Nat \ {0} /\ k \in 1..n /\ k \in 0..n /\ 0..k \subseteq 0..n /\ 1..k \subseteq 1..n
      BY <2>2
    <3>2. Stacked(k, sc, around) /\ Span(k, sc, b, at, around, size, wide)
      BY <1>0, <3>1 DEF Laid
    <3>3. /\ \A j \in 0..k : at2[j] = at[j] /\ around2[j] = around[j]
          /\ \A j \in 1..k : sc2[j] = sc[j] /\ size2[j] = size[j] /\ wide2[j] = wide[j]
      BY <3>1
    <3> QED
      BY <3>1, <3>2, <3>3, SpanSame
  <2> QED
    BY <2>1, <2>2
<1> QED
  BY <1>2, <1>3, <1>4 DEF Laid

\* The same, for a number of calls with a name.
LEMMA LaidOneMore ==
    ASSUME NEW n \in Nat, NEW m \in Nat, m - 1 = n, NEW b, Len(b) \in Nat,
           NEW sc, NEW sc2, NEW at, NEW at2, NEW around, NEW around2,
           NEW size, NEW size2, NEW wide, NEW wide2,
           Laid(n, sc, b, at, around, size, wide),
           SameCalls(n, sc, sc2, at, at2, around, around2, size, size2, wide, wide2),
           at2[m] \in 0..Len(b), at[n] <= at2[m],
           Nesting(m, sc2, around2),
           Span(m, sc2, b, at2, around2, size2, wide2)
    PROVE  Laid(m, sc2, b, at2, around2, size2, wide2)
<1>1. m = n + 1
  OBVIOUS
<1> QED
  BY <1>1, LaidNext, Zenon

\* More bytes behind those of the calls.
LEMMA LaidGrow ==
    ASSUME NEW n \in Nat, NEW b, IsSeq(b), NEW c, IsSeq(c),
           NEW sc, NEW at, NEW around, NEW size, NEW wide,
           Laid(n, sc, b, at, around, size, wide)
    PROVE  Laid(n, sc, b \o c, at, around, size, wide)
<1>1. Len(b) \in Nat /\ Len(c) \in Nat
  BY SeqFacts
<1>2. /\ Len(b \o c) = Len(b) + Len(c)
      /\ \A x, y \in Nat : x <= y /\ y <= Len(b) => Piece(b \o c, x, y) = Piece(b, x, y)
  BY AppendedPieces
<1>3. Rising(n, b \o c, at)
  BY <1>1, <1>2 DEF Laid, Rising
<1>4. ASSUME NEW k \in 1..n
      PROVE  Span(k, sc, b \o c, at, around, size, wide)
  <2>1. k \in 0..n /\ k - 1 \in 0..n /\ k - 1 <= k
    OBVIOUS
  <2>2. at[k - 1] \in 0..Len(b) /\ at[k] \in 0..Len(b) /\ at[k - 1] <= at[k]
    BY <2>1 DEF Laid, Rising
  <2>3. Piece(b \o c, at[k - 1], at[k]) = Piece(b, at[k - 1], at[k])
    BY <1>1, <1>2, <2>2
  <2> QED
    BY <2>3 DEF Laid, Span, PutSpan, BeginSpan
<1> QED
  BY <1>3, <1>4 DEF Laid

\* A message that is being written since call i, at depth p.
StillOpen(n, around, i, p) ==
    /\ i \in 1..n
    /\ p \in Nat \ {0}
    /\ \A k \in i..n : p <= Len(around[k]) /\ around[k][p] = i

\* A message that ends after another one that is still open was begun, was begun after it too.
LEMMA EndsInside ==
    ASSUME NEW n \in Nat, NEW sc, NEW around, Stacked(n, sc, around),
           NEW i, NEW p, StillOpen(n, around, i, p),
           NEW k \in 1..n, i < k,
           around[k - 1] # << >>, around[k] = Front(around[k - 1])
    PROVE  Last(around[k - 1]) \in 1..(k - 1) /\ i < Last(around[k - 1])
<1> DEFINE s == around[k - 1]
<1>1. i \in Nat /\ k \in i..n /\ k - 1 \in i..n /\ k - 1 \in 0..n /\ p \in Nat \ {0}
  BY DEF StillOpen
<1>2. /\ Last(s) \in 1..(k - 1) /\ Last(s) = s[Len(s)] /\ Len(s) \in Nat \ {0}
  BY <1>1, InnermostBegan
<1>3. Len(Front(s)) = Len(s) - 1
  BY <1>1, FrontFacts DEF Stacked
<1>4. p <= Len(Front(s)) /\ s[p] = i
  BY <1>1 DEF StillOpen
<1>5. p < Len(s) /\ p \in 1..Len(s) /\ Len(s) \in 1..Len(s)
  BY <1>1, <1>2, <1>3, <1>4
<1>6. s[p] < s[Len(s)]
  BY <1>1, <1>5 DEF Stacked
<1> QED
  BY <1>2, <1>4, <1>6

\* Nothing moves before `lo`.
Before(b, c, lo) ==
    \A x, y \in Nat : x <= y /\ y <= lo => Piece(c, x, y) = Piece(b, x, y)

\* A length in the place of another one, behind the tag that starts at `first`.
LEMMA Relength ==
    ASSUME NEW b, IsSeq(b), NEW c, IsSeq(c), NEW tag, IsSeq(tag),
           NEW old, IsSeq(old), NEW new, IsSeq(new),
           NEW first \in Nat, NEW lo \in Nat, NEW hi \in Nat, NEW z \in Nat,
           first <= lo, lo <= hi, hi <= Len(b),
           hi - lo = Len(old), z - lo = Len(new),
           Joined(Piece(b, first, hi), tag, old),
           Spliced(b, c, lo, hi, new)
    PROVE  /\ Shifted(b, c, hi, z)
           /\ Joined(Piece(c, first, z), tag, new)
           /\ Before(b, c, lo)
<1>1. Len(tag) \in Nat /\ Len(old) \in Nat /\ Len(b) \in Nat /\ Len(c) \in Nat /\ Len(new) \in Nat
  BY SeqFacts
<1>2. lo - first = Len(tag)
  <2> DEFINE y == first + Len(tag)
  <2>1. y \in Nat /\ y - first = Len(tag)
    BY <1>1
  <2> HIDE DEF y
  <2>2. hi - y = Len(old)
    BY <2>1, PiecePrefix
  <2> QED
    BY <1>1, <2>1, <2>2
<1>3. Piece(b, first, lo) = tag
  BY <1>2, PiecePrefix
<1>4. Piece(c, lo, z) = new /\ Shifted(b, c, hi, z)
  BY SplicedBehind
<1>5. \A x, y \in Nat : x <= y /\ y <= lo => Piece(c, x, y) = Piece(b, x, y)
  BY SplicedPieces, SMTT(20)
<1>6. Piece(c, first, lo) = tag
  <2>1. lo <= lo
    OBVIOUS
  <2> QED
    BY <1>3, <1>5, <2>1
<1>7. lo <= z /\ z <= Len(c)
  <2>1. Len(c) - z = Len(b) - hi
    BY <1>4 DEF Shifted
  <2> QED
    BY <1>1, <2>1
<1>8. Piece(c, first, z) = Piece(c, first, lo) \o Piece(c, lo, z)
  BY <1>7, PieceSplit
<1> QED
  BY <1>4, <1>5, <1>6, <1>8 DEF Joined, Before

\* The message of call i gets its length, which takes d bytes more than were left free for it.
Closing(n, b, c, i, d, at, wide) ==
    Spliced(b, c, at[i] - wide[i], at[i], write_wide_varint(wide[i] + d, Len(b) - at[i]))

Closed(n, b, i, d, at, size, wide, at2, size2, wide2) ==
    /\ \A k \in 0..n : at2[k] = IF k < i THEN at[k] ELSE at[k] + d
    /\ \A k \in 1..n : size2[k] = IF k = i THEN Len(b) - at[i] ELSE size[k]
    /\ \A k \in 1..n : wide2[k] = IF k = i THEN wide[i] + d ELSE wide[k]

\* Closing a message that is being written: the bytes behind its length move, and the calls
\* that wrote them.
LEMMA LaidClose ==
    ASSUME NEW n \in Nat, NEW b, IsSeq(b), NEW c, IsSeq(c),
           NEW sc, NEW at, NEW around, NEW size, NEW wide,
           Laid(n, sc, b, at, around, size, wide),
           NEW i, NEW p, StillOpen(n, around, i, p), sc[i].op = "begin", IsSeq(sc[i].bytes),
           NEW d \in Nat, Closing(n, b, c, i, d, at, wide),
           NEW at2, NEW size2, NEW wide2,
           Closed(n, b, i, d, at, size, wide, at2, size2, wide2)
    PROVE  Laid(n, sc, c, at2, around, size2, wide2) /\ Len(c) = Len(b) + d
<1> DEFINE lo == at[i] - wide[i]
           hi == at[i]
           z == at[i] + d
           tag == sc[i].bytes
           old == write_wide_varint(wide[i], size[i])
           prefix == write_wide_varint(wide[i] + d, Len(b) - hi)
           first == at[i - 1]
<1>1. /\ i \in 1..n /\ i \in 0..n /\ i - 1 \in 0..n /\ i \in Nat /\ i - 1 <= i
      /\ Len(b) \in Nat /\ Len(c) \in Nat
  BY SeqFacts DEF StillOpen
<1>2. /\ first \in 0..Len(b) /\ hi \in 0..Len(b) /\ first <= hi
      /\ \A k \in 0..n : at[k] \in 0..Len(b)
      /\ \A j, k \in 0..n : j <= k => at[j] <= at[k]
      /\ at[0] = 0
  BY <1>1 DEF Laid, Rising
<1>3. /\ size[i] \in Nat /\ wide[i] \in Nat
      /\ around[i] = Append(around[i - 1], i)
      /\ Piece(b, first, hi) = tag \o old
  BY <1>1 DEF Laid, Span, BeginSpan
<1>4. /\ IsSeq(old) /\ Len(old) = wide[i] /\ IsSeq(tag) /\ Len(tag) \in Nat
  <2>1. IsSeq(old) /\ Len(old) = wide[i]
    BY <1>3, WideType, SeqOverSet
  <2> QED
    BY <1>1, <2>1, SeqFacts
<1>5. hi - first = Len(tag) + Len(old)
  <2>1. Len(tag \o old) = Len(tag) + Len(old)
    BY <1>4, ConcatFacts
  <2>2. first \in Nat /\ hi \in Nat /\ hi <= Len(b) /\ first <= hi
    BY <1>1, <1>2
  <2> HIDE DEF first, hi
  <2>3. Len(Piece(b, first, hi)) = hi - first
    BY <2>2, PieceFacts
  <2> QED
    BY <1>3, <2>1, <2>3
<1>6. /\ lo \in Nat /\ hi \in Nat /\ first \in Nat /\ z \in Nat /\ first <= lo /\ lo <= hi /\ hi <= Len(b)
      /\ hi - lo = Len(old)
  <2>1. /\ hi \in Nat /\ first \in Nat /\ hi <= Len(b) /\ wide[i] \in Nat
        /\ Len(old) = wide[i] /\ Len(tag) \in Nat /\ hi - first = Len(tag) + wide[i]
    BY <1>1, <1>2, <1>3, <1>4, <1>5
  <2>2. lo = hi - wide[i] /\ z = hi + d
    OBVIOUS
  <2> HIDE DEF lo, hi, z, tag, old, first
  <2> QED
    BY <2>1, <2>2, SMTT(20)
<1>7. IsSeq(prefix) /\ z - lo = Len(prefix)
  <2>1. wide[i] + d \in Nat /\ Len(b) - hi \in Nat
    BY <1>1, <1>2, <1>3, SMTT(20)
  <2>2. IsSeq(prefix) /\ Len(prefix) = wide[i] + d
    BY <2>1, WideType, SeqOverSet
  <2> QED
    BY <1>2, <1>3, <2>1, <2>2
<1>8. Spliced(b, c, lo, hi, prefix) /\ Joined(Piece(b, first, hi), tag, old)
  BY <1>3 DEF Joined, Closing
<1>0. z - hi = d
  BY <1>6
<1> HIDE DEF lo, hi, z, tag, old, prefix, first
<1>9. /\ Shifted(b, c, hi, z)
      /\ Joined(Piece(c, first, z), tag, prefix)
      /\ Before(b, c, lo)
  BY <1>4, <1>6, <1>7, <1>8, Relength
<1>14. Len(c) = Len(b) + d
  <2>1. Len(c) - z = Len(b) - hi
    BY <1>9 DEF Shifted
  <2> QED
    BY <1>0, <1>1, <1>6, <2>1
<1> USE DEF Closed
<1>10. Rising(n, c, at2)
  <2>1. at2[0] = 0
    BY <1>1, <1>2 DEF StillOpen
  <2>2. ASSUME NEW k \in 0..n
        PROVE  at2[k] \in 0..Len(c)
    <3>1. at[k] \in 0..Len(b) /\ Len(c) = Len(b) + d
      BY <1>2, <1>14
    <3>2. at2[k] = at[k] \/ at2[k] = at[k] + d
      OBVIOUS
    <3> QED
      BY <1>1, <3>1, <3>2
  <2>3. ASSUME NEW j \in 0..n, NEW k \in 0..n, j <= k
        PROVE  at2[j] <= at2[k]
    <3>1. at[j] <= at[k] /\ at[j] \in Nat /\ at[k] \in Nat
      BY <1>2, <2>3
    <3>2. at2[j] = (IF j < i THEN at[j] ELSE at[j] + d) /\ at2[k] = IF k < i THEN at[k] ELSE at[k] + d
      OBVIOUS
    <3> QED
      BY <1>1, <2>3, <3>1, <3>2
  <2> QED
    BY <2>1, <2>2, <2>3 DEF Rising
<1>11. ASSUME NEW k \in 1..n, k # i
       PROVE  Piece(c, at2[k - 1], at2[k]) = Piece(b, at[k - 1], at[k])
  <2>1. /\ k \in 0..n /\ k - 1 \in 0..n /\ k - 1 <= k
        /\ at[k - 1] \in Nat /\ at[k] \in Nat /\ at[k - 1] <= at[k] /\ at[k] <= Len(b)
    BY <1>2
  <2>2. CASE k < i
    <3>1. at2[k - 1] = at[k - 1] /\ at2[k] = at[k]
      BY <1>1, <2>1, <2>2
    <3>2. at[k] <= first
      BY <1>1, <1>2, <2>1, <2>2 DEF first
    <3>3. at[k] <= lo
      BY <1>6, <2>1, <3>2
    <3> QED
      BY <1>9, <2>1, <3>1, <3>3 DEF Before
  <2>3. CASE k > i
    <3>1. at2[k - 1] = at[k - 1] + d /\ at2[k] = at[k] + d
      BY <1>1, <2>1, <2>3
    <3>2. hi <= at[k - 1]
      BY <1>1, <1>2, <2>1, <2>3 DEF hi
    <3>3. at2[k - 1] \in Nat /\ at2[k] \in Nat /\ at2[k - 1] - at[k - 1] = z - hi /\ at2[k] - at[k] = z - hi
      BY <1>0, <2>1, <3>1
    <3> QED
      BY <1>9, <2>1, <3>2, <3>3 DEF Shifted
  <2> QED
    BY <1>1, <1>11, <2>2, <2>3
<1>12. Piece(c, at2[i - 1], at2[i]) = sc[i].bytes \o prefix
  <2>1. at2[i - 1] = first /\ at2[i] = z
    BY <1>1 DEF first, z
  <2> QED
    BY <1>9, <2>1 DEF Joined, tag
<1>13. ASSUME NEW k \in 1..n
       PROVE  Span(k, sc, c, at2, around, size2, wide2)
  <2>0. Span(k, sc, b, at, around, size, wide) /\ k \in 0..n /\ k - 1 \in 0..n
    BY DEF Laid
  <2>1. ASSUME sc[k].op = "put"
        PROVE  PutSpan(k, sc, c, at2, around)
    <3>1. k # i
      BY <2>1
    <3> QED
      BY <1>11, <2>0, <2>1, <3>1 DEF Span, PutSpan
  <2>2. ASSUME sc[k].op = "begin"
        PROVE  BeginSpan(k, sc, c, at2, around, size2, wide2)
    <3>1. CASE k = i
      <4>1. size2[i] = Len(b) - hi /\ wide2[i] = wide[i] + d
        BY <1>1 DEF hi
      <4>2. Piece(c, at2[i - 1], at2[i]) = sc[i].bytes \o write_wide_varint(wide2[i], size2[i])
        BY <1>12, <4>1 DEF prefix
      <4> QED
        <5>1. Len(b) - hi \in Nat /\ wide[i] + d \in Nat
          BY <1>1, <1>3, <1>6
        <5>2. BeginSpan(i, sc, c, at2, around, size2, wide2)
          BY <1>3, <4>1, <4>2, <5>1 DEF BeginSpan
        <5> QED
          BY <3>1, <5>2
    <3>2. CASE k # i
      BY <1>11, <2>0, <2>2, <3>2 DEF Span, BeginSpan
    <3> QED
      BY <3>1, <3>2
  <2>3. ASSUME sc[k].op = "end"
        PROVE  EndSpan(k, sc, at2, around, size2)
    <3> DEFINE j == Last(around[k - 1])
    <3>1. /\ around[k - 1] # << >> /\ around[k] = Front(around[k - 1])
          /\ at[k] = at[k - 1] /\ at[k] = at[j] + size[j]
          /\ sc[k].bytes = sc[j].bytes
      BY <2>0, <2>3 DEF Span, EndSpan
    <3>2. j \in 1..(k - 1)
      BY <2>0, <3>1, InnermostBegan DEF Laid
    <3>3. k # i
      BY <2>3
    <3>4. i < k => i < j
      BY <3>1, EndsInside DEF Laid
    <3> HIDE DEF j
    <3>5. j \in 0..n /\ j \in 1..n /\ j # i /\ (k < i => j < i)
      BY <1>1, <3>2, <3>3, <3>4
    <3>6. size2[j] = size[j]
      BY <3>5
    <3>7. size[j] \in Nat
      <4>1. sc[j].op = "begin"
        BY <2>0, <3>1, InnermostBegan DEF Laid, j
      <4> QED
        BY <3>5, <4>1 DEF Laid, Span, BeginSpan
    <3>8. at2[k] = at2[k - 1] /\ at2[k] = at2[j] + size2[j]
      <4>1. at[j] \in Nat /\ at[k] \in Nat /\ at[k - 1] \in Nat
        BY <1>2, <2>0, <3>5
      <4>2. CASE k < i
        <5>1. at2[k] = at[k] /\ at2[k - 1] = at[k - 1] /\ at2[j] = at[j]
          BY <1>1, <2>0, <3>5, <4>2
        <5> QED
          BY <3>1, <3>6, <5>1
      <4>3. CASE i < k
        <5>1. at2[k] = at[k] + d /\ at2[k - 1] = at[k - 1] + d /\ at2[j] = at[j] + d
          BY <1>1, <2>0, <3>4, <3>5, <4>3
        <5>2. at[k] = at[k - 1] /\ at[k] = at[j] + size[j]
          BY <3>1
        <5> QED
          BY <3>6, <3>7, <4>1, <5>1, <5>2
      <4> QED
        BY <1>1, <3>3, <4>2, <4>3
    <3> QED
      BY <3>1, <3>8 DEF EndSpan, j
  <2> QED
    BY <2>1, <2>2, <2>3 DEF Span
<1> QED
  BY <1>10, <1>13, <1>14 DEF Laid

\* A function on 0..n with one more value.
Extend(f, n, v) == [k \in 0..(n + 1) |-> IF k = n + 1 THEN v ELSE f[k]]

LEMMA ExtendFacts ==
    ASSUME NEW n \in Nat, NEW f, NEW v
    PROVE  /\ Extend(f, n, v)[n + 1] = v
           /\ \A k \in 0..n : Extend(f, n, v)[k] = f[k]
           /\ \A k \in 1..n : Extend(f, n, v)[k] = f[k]
BY DEF Extend

-----------------------------------------------------------------------------
(* The program while it is written forwards. *)

\* Message p of those that are open.
Holds(p, n, sc, tks, tgs, pd, at, around, wide) ==
    LET i == around[n][p] IN
    /\ StillOpen(n, around, i, p)
    /\ tks[p].start = at[i] /\ tks[p].width = wide[i]
    /\ tgs[p] = sc[i].bytes
    /\ ~pd => wide[i] = 1

\* The length of a message that is finished takes the bytes it needs, or more if it was padded.
Fitting(k, pd, size, wide) ==
    /\ wide[k] >= encoded_len_varint(size[k])
    /\ ~pd => wide[k] = encoded_len_varint(size[k])

Finished(k, n, sc, around) ==
    /\ sc[k].op = "begin"
    /\ \A p \in 1..Len(around[n]) : around[n][p] # k

Forwards(n, sc, b, tks, tgs, pd, at, around, size, wide) ==
    /\ Laid(n, sc, b, at, around, size, wide)
    /\ at[n] = Len(b)
    /\ Len(tks) = Len(around[n]) /\ Len(tgs) = Len(around[n])
    /\ \A p \in 1..Len(around[n]) : Holds(p, n, sc, tks, tgs, pd, at, around, wide)
    /\ \A k \in 1..n : Finished(k, n, sc, around) => Fitting(k, pd, size, wide)

\* Padding once, it is padded from then on.
PadsOn(pd, pd2) == pd => pd2

\* What is open and what is finished stays so, whatever is padded from now on.
LEMMA HoldsOn ==
    ASSUME NEW n \in Nat, NEW m \in Nat, m - 1 = n, NEW p,
           NEW sc, NEW sc2, NEW at, NEW at2, NEW around, NEW around2,
           NEW size, NEW size2, NEW wide, NEW wide2,
           NEW tks, NEW tgs, NEW tks2, NEW tgs2, NEW pd, NEW pd2,
           SameCalls(n, sc, sc2, at, at2, around, around2, size, size2, wide, wide2),
           Holds(p, n, sc, tks, tgs, pd, at, around, wide),
           around2[m][p] = around[n][p], p <= Len(around2[m]),
           tks2[p] = tks[p], tgs2[p] = tgs[p], PadsOn(pd, pd2)
    PROVE  Holds(p, m, sc2, tks2, tgs2, pd2, at2, around2, wide2)
<1> DEFINE i == around[n][p]
<1>1. StillOpen(n, around, i, p)
  BY DEF Holds
<1> HIDE DEF i
<1>2. i \in 1..n /\ i \in 0..n /\ p \in Nat \ {0}
  BY <1>1 DEF StillOpen
<1>3. around2[m][p] = i
  BY DEF i
<1>4. ASSUME NEW k \in i..m
      PROVE  p <= Len(around2[k]) /\ around2[k][p] = i
  <2>1. CASE k = m
    BY <1>3, <2>1
  <2>2. CASE k # m
    <3>1. k \in i..n /\ k \in 0..n
      BY <1>2, <2>2
    <3>2. around2[k] = around[k]
      BY <3>1 DEF SameCalls
    <3> QED
      BY <1>1, <3>1, <3>2 DEF StillOpen
  <2> QED
    BY <2>1, <2>2
<1>5. StillOpen(m, around2, i, p)
  BY <1>2, <1>4 DEF StillOpen
<1>6. at2[i] = at[i] /\ wide2[i] = wide[i] /\ sc2[i] = sc[i]
  BY <1>2 DEF SameCalls
<1>7. /\ tks[p].start = at[i] /\ tks[p].width = wide[i]
      /\ tgs[p] = sc[i].bytes
      /\ ~pd => wide[i] = 1
  BY DEF Holds, i
<1> QED
  BY <1>3, <1>5, <1>6, <1>7 DEF Holds, PadsOn

LEMMA FittingOn ==
    ASSUME NEW n \in Nat, NEW k \in 1..n,
           NEW sc, NEW sc2, NEW at, NEW at2, NEW around, NEW around2,
           NEW size, NEW size2, NEW wide, NEW wide2, NEW pd, NEW pd2,
           SameCalls(n, sc, sc2, at, at2, around, around2, size, size2, wide, wide2),
           Fitting(k, pd, size, wide), PadsOn(pd, pd2)
    PROVE  Fitting(k, pd2, size2, wide2)
BY DEF Fitting, SameCalls, PadsOn

\* Bytes of the message that is being written.
LEMMA PutForwards ==
    ASSUME NEW n \in Nat, NEW sc, IsSeq(sc), Len(sc) = n, NEW b, IsSeq(b), NEW c, IsSeq(c),
           NEW tks, NEW tgs, NEW pd, NEW at, NEW around, NEW size, NEW wide,
           Forwards(n, sc, b, tks, tgs, pd, at, around, size, wide)
    PROVE  \E at2, around2, size2, wide2 :
              Forwards(n + 1, Append(sc, [op |-> "put", bytes |-> c]), b \o c, tks, tgs, pd,
                       at2, around2, size2, wide2)
<1> DEFINE m == n + 1
           call == [op |-> "put", bytes |-> c]
           sc2 == Append(sc, call)
           d == b \o c
           at2 == Extend(at, n, Len(b) + Len(c))
           around2 == Extend(around, n, around[n])
           size2 == Extend(size, n, 0)
           wide2 == Extend(wide, n, 0)
<1>1. /\ \A k \in 1..n : sc2[k] = sc[k]
      /\ sc2[m].op = "put" /\ sc2[m].bytes = c
  <2>1. /\ \A k \in 1..n : sc2[k] = sc[k]
        /\ sc2[m] = call
    BY AppendFacts
  <2> QED
    BY <2>1
<1>2. /\ \A k \in 0..n : at2[k] = at[k] /\ around2[k] = around[k]
      /\ \A k \in 1..n : size2[k] = size[k] /\ wide2[k] = wide[k]
      /\ at2[m] = Len(b) + Len(c) /\ around2[m] = around[n]
  <2> HIDE DEF sc2
  <2> QED
    BY ExtendFacts
<1>3. /\ Len(b) \in Nat /\ Len(c) \in Nat /\ Len(d) = Len(b) + Len(c) /\ IsSeq(d)
      /\ Piece(d, Len(b), Len(b) + Len(c)) = c
  BY SeqFacts, AppendedPieces
<1>4. Laid(n, sc, d, at, around, size, wide)
  BY LaidGrow DEF Forwards
<1> HIDE DEF m, call, sc2, d, at2, around2, size2, wide2
<1>5. n \in 0..n /\ m \in Nat /\ m - 1 = n /\ n \in Nat /\ \A k \in 1..m : k = m \/ k \in 1..n
  BY DEF m
<1>6. /\ IsSeq(around[n]) /\ at[n] = Len(b)
      /\ \A p \in 1..Len(around[n]) : around[n][p] \in 1..n /\ sc[around[n][p]].op = "begin"
      /\ \A p, q \in 1..Len(around[n]) : p < q => around[n][p] < around[n][q]
  BY <1>5 DEF Forwards, Laid, Stacked
<1>0. SameCalls(n, sc, sc2, at, at2, around, around2, size, size2, wide, wide2) /\ PadsOn(pd, pd)
  BY <1>1, <1>2 DEF SameCalls, PadsOn
<1>7. Span(m, sc2, d, at2, around2, size2, wide2)
  <2>1. PutSpan(m, sc2, d, at2, around2)
    BY <1>1, <1>2, <1>3, <1>5, <1>6 DEF PutSpan
  <2> QED
    BY <1>1, <2>1 DEF Span
<1>8. Laid(m, sc2, d, at2, around2, size2, wide2)
  <2>1. at2[m] \in 0..Len(d) /\ at[n] <= at2[m] /\ Len(d) \in Nat
    BY <1>2, <1>3, <1>6
  <2>2. IsSeq(around2[m])
    BY <1>2, <1>6
  <2>3. \A p \in 1..Len(around2[m]) : around2[m][p] \in 1..m /\ sc2[around2[m][p]].op = "begin"
    <3>1. 1..n \subseteq 1..m
      BY DEF m
    <3> QED
      BY <1>1, <1>2, <1>6, <3>1
  <2>4. \A p, q \in 1..Len(around2[m]) : p < q => around2[m][p] < around2[m][q]
    BY <1>2, <1>6
  <2>5. Nesting(m, sc2, around2)
    BY <2>2, <2>3, <2>4 DEF Nesting
  <2> QED
    BY <1>0, <1>4, <1>5, <1>7, <2>1, <2>5, LaidOneMore
<1>9. ASSUME NEW p \in 1..Len(around2[m])
      PROVE  Holds(p, m, sc2, tks, tgs, pd, at2, around2, wide2)
  <2>1. p \in 1..Len(around[n]) /\ around2[m][p] = around[n][p] /\ p <= Len(around2[m])
    BY <1>2
  <2>2. Holds(p, n, sc, tks, tgs, pd, at, around, wide)
    BY <2>1 DEF Forwards
  <2> QED
    BY <1>0, <1>5, <2>1, <2>2, HoldsOn
<1>10. ASSUME NEW k \in 1..m, Finished(k, m, sc2, around2)
       PROVE  Fitting(k, pd, size2, wide2)
  <2>1. k # m
    BY <1>1, <1>10 DEF Finished
  <2>2. k \in 1..n
    BY <1>5, <2>1
  <2>3. Finished(k, n, sc, around)
    BY <1>1, <1>2, <1>10, <2>2 DEF Finished
  <2>4. Fitting(k, pd, size, wide)
    BY <2>2, <2>3 DEF Forwards
  <2> QED
    BY <1>0, <2>2, <2>4, FittingOn
<1>11. Forwards(m, sc2, d, tks, tgs, pd, at2, around2, size2, wide2)
  <2>1. at2[m] = Len(d) /\ Len(tks) = Len(around2[m]) /\ Len(tgs) = Len(around2[m])
    BY <1>2, <1>3 DEF Forwards
  <2> QED
    BY <1>8, <1>9, <1>10, <2>1 DEF Forwards
<1> QED
  BY <1>11 DEF m, sc2, d, call

\* A message is begun: its tag, and room for its length.
LEMMA BeginForwards ==
    ASSUME NEW n \in Nat, NEW sc, IsSeq(sc), Len(sc) = n, NEW b, IsSeq(b),
           NEW tag, IsSeq(tag), NEW width \in Nat,
           NEW tks, IsSeq(tks), NEW tgs, IsSeq(tgs), NEW pd, NEW pd2,
           NEW at, NEW around, NEW size, NEW wide,
           Forwards(n, sc, b, tks, tgs, pd, at, around, size, wide),
           NEW t, t.width = width, t.start = Len(b) + Len(tag) + width,
           PadsOn(pd, pd2), ~pd2 => width = 1
    PROVE  \E at2, around2, size2, wide2 :
              Forwards(n + 1, Append(sc, [op |-> "begin", bytes |-> tag]),
                       b \o (tag \o write_wide_varint(width, 0)), Append(tks, t), Append(tgs, tag), pd2,
                       at2, around2, size2, wide2)
<1> DEFINE m == n + 1
           call == [op |-> "begin", bytes |-> tag]
           sc2 == Append(sc, call)
           c == tag \o write_wide_varint(width, 0)
           d == b \o c
           tks2 == Append(tks, t)
           tgs2 == Append(tgs, tag)
           at2 == Extend(at, n, t.start)
           top == Append(around[n], m)
           around2 == Extend(around, n, top)
           size2 == Extend(size, n, 0)
           wide2 == Extend(wide, n, width)
<1>1. /\ \A k \in 1..n : sc2[k] = sc[k]
      /\ sc2[m].op = "begin" /\ sc2[m].bytes = tag
  <2>1. /\ \A k \in 1..n : sc2[k] = sc[k]
        /\ sc2[m] = call
    BY AppendFacts
  <2> QED
    BY <2>1
<1>2. /\ \A k \in 0..n : at2[k] = at[k] /\ around2[k] = around[k]
      /\ \A k \in 1..n : size2[k] = size[k] /\ wide2[k] = wide[k]
      /\ at2[m] = t.start /\ around2[m] = Append(around[n], m)
      /\ size2[m] = 0 /\ wide2[m] = width
  <2>1. top = Append(around[n], m)
    OBVIOUS
  <2> HIDE DEF sc2, top
  <2>2. /\ \A k \in 0..n : at2[k] = at[k] /\ around2[k] = around[k]
        /\ \A k \in 1..n : size2[k] = size[k] /\ wide2[k] = wide[k]
        /\ at2[m] = t.start /\ around2[m] = top /\ size2[m] = 0 /\ wide2[m] = width
    BY ExtendFacts
  <2> QED
    BY <2>1, <2>2
<1>3. /\ Len(b) \in Nat /\ Len(d) = t.start /\ IsSeq(d) /\ t.start \in Nat /\ Len(b) <= t.start
      /\ Piece(d, Len(b), t.start) = c
  <2>1. IsSeq(write_wide_varint(width, 0)) /\ Len(write_wide_varint(width, 0)) = width
    <3>1. write_wide_varint(width, 0) \in Seq(Byte) /\ Len(write_wide_varint(width, 0)) = width
      BY WideType
    <3> QED
      BY <3>1, SeqOverSet
  <2>2. IsSeq(c) /\ Len(c) = Len(tag) + width
    BY <2>1, ConcatFacts
  <2> HIDE DEF c
  <2>3. Len(b) \in Nat /\ Len(tag) \in Nat
    BY SeqFacts
  <2>4. Len(d) = Len(b) + Len(c) /\ IsSeq(d) /\ Piece(d, Len(b), Len(b) + Len(c)) = c
    BY <2>2, AppendedPieces
  <2>5. Len(b) + Len(c) = t.start
    BY <2>2, <2>3
  <2> QED
    BY <2>3, <2>4, <2>5
<1>4. Laid(n, sc, d, at, around, size, wide)
  <2>1. IsSeq(c)
    <3>1. write_wide_varint(width, 0) \in Seq(Byte)
      BY WideType
    <3> QED
      BY <3>1, SeqOverSet, ConcatFacts
  <2> HIDE DEF c
  <2> QED
    BY <2>1, LaidGrow DEF Forwards
<1>5. /\ n \in 0..n /\ m \in Nat /\ m - 1 = n /\ n \in Nat /\ \A k \in 1..m : k = m \/ k \in 1..n
      /\ m \in 1..m /\ m \notin 1..n
  OBVIOUS
<1>6. /\ IsSeq(around[n]) /\ at[n] = Len(b)
      /\ \A p \in 1..Len(around[n]) : around[n][p] \in 1..n /\ sc[around[n][p]].op = "begin"
      /\ \A p, q \in 1..Len(around[n]) : p < q => around[n][p] < around[n][q]
      /\ Len(tks) = Len(around[n]) /\ Len(tgs) = Len(around[n])
  BY <1>5 DEF Forwards, Laid, Stacked
<1> HIDE DEF m
<1>11. /\ Len(around[n]) \in Nat /\ IsSeq(around2[m]) /\ Len(around2[m]) = Len(around[n]) + 1
       /\ \A p \in 1..Len(around[n]) : around2[m][p] = around[n][p]
       /\ around2[m][Len(around[n]) + 1] = m
  BY <1>2, <1>6, AppendFacts, SeqFacts
<1>12. /\ Len(tks2) = Len(around[n]) + 1 /\ Len(tgs2) = Len(around[n]) + 1
       /\ \A p \in 1..Len(around[n]) : tks2[p] = tks[p] /\ tgs2[p] = tgs[p]
       /\ tks2[Len(around[n]) + 1] = t /\ tgs2[Len(around[n]) + 1] = tag
  <2>1. /\ Len(tks2) = Len(tks) + 1 /\ \A p \in 1..Len(tks) : tks2[p] = tks[p]
        /\ tks2[Len(tks) + 1] = t
    BY AppendFacts
  <2>2. /\ Len(tgs2) = Len(tgs) + 1 /\ \A p \in 1..Len(tgs) : tgs2[p] = tgs[p]
        /\ tgs2[Len(tgs) + 1] = tag
    BY AppendFacts
  <2> QED
    BY <1>6, <2>1, <2>2
<1> HIDE DEF call, sc2, c, d, at2, around2, size2, wide2, tks2, tgs2
<1>0. SameCalls(n, sc, sc2, at, at2, around, around2, size, size2, wide, wide2)
  BY <1>1, <1>2 DEF SameCalls
<1>7. Span(m, sc2, d, at2, around2, size2, wide2)
  <2>1. Piece(d, at2[n], at2[m]) = sc2[m].bytes \o write_wide_varint(wide2[m], size2[m])
    <3>1. Piece(d, at2[n], at2[m]) = c
      BY <1>2, <1>3, <1>5, <1>6
    <3>2. c = sc2[m].bytes \o write_wide_varint(wide2[m], size2[m])
      BY <1>1, <1>2 DEF c
    <3> QED
      BY <3>1, <3>2
  <2>2. around2[m] = Append(around2[n], m) /\ size2[m] \in Nat /\ wide2[m] \in Nat
    BY <1>2, <1>5
  <2>3. BeginSpan(m, sc2, d, at2, around2, size2, wide2)
    BY <1>5, <2>1, <2>2 DEF BeginSpan
  <2> QED
    BY <1>1, <2>3 DEF Span
<1>13. \A p \in 1..Len(around2[m]) : p \in 1..Len(around[n]) \/ p = Len(around[n]) + 1
  BY <1>11
<1>8. Laid(m, sc2, d, at2, around2, size2, wide2)
  <2>1. at2[m] \in 0..Len(d) /\ at[n] <= at2[m] /\ Len(d) \in Nat
    BY <1>2, <1>3, <1>6
  <2>3. ASSUME NEW p \in 1..Len(around2[m])
        PROVE  around2[m][p] \in 1..m /\ sc2[around2[m][p]].op = "begin"
    <3>1. CASE p \in 1..Len(around[n])
      <4>1. around2[m][p] \in 1..n /\ sc[around2[m][p]].op = "begin"
        BY <1>6, <1>11, <3>1
      <4> QED
        BY <1>1, <1>5, <4>1
    <3>2. CASE p = Len(around[n]) + 1
      BY <1>1, <1>5, <1>11, <3>2
    <3> QED
      BY <1>13, <3>1, <3>2
  <2>4. ASSUME NEW p \in 1..Len(around2[m]), NEW q \in 1..Len(around2[m]), p < q
        PROVE  around2[m][p] < around2[m][q]
    <3>1. p \in 1..Len(around[n])
      BY <1>11, <2>4
    <3>2. around2[m][p] \in 1..n /\ around2[m][p] = around[n][p]
      BY <1>6, <1>11, <3>1
    <3>3. CASE q \in 1..Len(around[n])
      BY <1>6, <1>11, <2>4, <3>1, <3>3
    <3>4. CASE q = Len(around[n]) + 1
      BY <1>5, <1>11, <3>2, <3>4
    <3> QED
      BY <1>13, <3>3, <3>4
  <2>5. Nesting(m, sc2, around2)
    BY <1>11, <2>3, <2>4 DEF Nesting
  <2> QED
    BY <1>0, <1>4, <1>5, <1>7, <2>1, <2>5, LaidOneMore
<1>9. ASSUME NEW p \in 1..Len(around2[m])
      PROVE  Holds(p, m, sc2, tks2, tgs2, pd2, at2, around2, wide2)
  <2>1. CASE p \in 1..Len(around[n])
    <3>1. /\ around2[m][p] = around[n][p] /\ p <= Len(around2[m])
          /\ tks2[p] = tks[p] /\ tgs2[p] = tgs[p]
      BY <1>11, <1>12, <2>1
    <3>2. Holds(p, n, sc, tks, tgs, pd, at, around, wide)
      BY <2>1 DEF Forwards
    <3> QED
      BY <1>0, <1>5, <3>1, <3>2, HoldsOn
  <2>2. CASE p = Len(around[n]) + 1
    <3>1. around2[m][p] = m /\ tks2[p] = t /\ tgs2[p] = tag /\ p \in Nat \ {0} /\ p <= Len(around2[m])
      BY <1>11, <1>12, <2>2
    <3>2. \A k \in m..m : k = m
      BY <1>5
    <3>3. StillOpen(m, around2, m, p)
      BY <1>5, <3>1, <3>2 DEF StillOpen
    <3> QED
      BY <1>1, <1>2, <3>1, <3>3 DEF Holds
  <2> QED
    BY <1>13, <2>1, <2>2
<1>10. ASSUME NEW k \in 1..m, Finished(k, m, sc2, around2)
       PROVE  Fitting(k, pd2, size2, wide2)
  <2>1. Len(around[n]) + 1 \in 1..Len(around2[m])
    BY <1>11
  <2>2. k # m
    BY <1>10, <1>11, <2>1 DEF Finished
  <2>3. k \in 1..n
    BY <1>5, <2>2
  <2>4. \A p \in 1..Len(around[n]) : p \in 1..Len(around2[m]) /\ around2[m][p] = around[n][p]
    BY <1>11
  <2>5. Finished(k, n, sc, around)
    BY <1>1, <1>10, <2>3, <2>4 DEF Finished
  <2>6. Fitting(k, pd, size, wide)
    BY <2>3, <2>5 DEF Forwards
  <2> QED
    BY <1>0, <2>3, <2>6, FittingOn
<1>14. Forwards(m, sc2, d, tks2, tgs2, pd2, at2, around2, size2, wide2)
  <2>1. at2[m] = Len(d) /\ Len(tks2) = Len(around2[m]) /\ Len(tgs2) = Len(around2[m])
    BY <1>2, <1>3, <1>11, <1>12
  <2> QED
    BY <1>8, <1>9, <1>10, <2>1 DEF Forwards
<1> QED
  BY <1>14 DEF m, sc2, c, d, call, tks2, tgs2

\* The width that is patched in: what was reserved, or what the length takes.
Patches(w, width, n) ==
    /\ w - width \in Nat
    /\ w >= encoded_len_varint(n)
    /\ width = 1 => w = encoded_len_varint(n)

\* Message q of those that are open has its length, but is not closed.
Lengthened(n, q, sc, b, tks, tgs, pd, at, around, size, wide) ==
    LET i == around[n][q] IN
    /\ Laid(n, sc, b, at, around, size, wide)
    /\ at[n] = Len(b)
    /\ Len(tks) = Len(around[n]) /\ Len(tgs) = Len(around[n])
    /\ \A p \in 1..(q - 1) : Holds(p, n, sc, tks, tgs, pd, at, around, wide)
    /\ \A k \in 1..n : Finished(k, n, sc, around) => Fitting(k, pd, size, wide)
    /\ Fitting(i, pd, size, wide)
    /\ size[i] \in Nat /\ Len(b) = at[i] + size[i]
    /\ tgs[q] = sc[i].bytes

\* The innermost message gets its length: what Tack::close does to the calls so far.
LEMMA LengthForwards ==
    ASSUME NEW n \in Nat, NEW sc, NEW b, IsSeq(b), NEW c, IsSeq(c),
           NEW tks, NEW tgs, NEW pd, NEW at, NEW around, NEW size, NEW wide,
           Forwards(n, sc, b, tks, tgs, pd, at, around, size, wide),
           NEW q \in 1..Len(tks), q = Len(tks), NEW t, t = tks[q], IsSeq(tgs[q]),
           NEW w \in Nat, Patches(w, t.width, Len(b) - t.start),
           Spliced(b, c, t.start - t.width, t.start, write_wide_varint(w, Len(b) - t.start))
    PROVE  \E at2, size2, wide2 :
              Lengthened(n, q, sc, c, tks, tgs, pd, at2, around, size2, wide2)
<1> DEFINE i == around[n][q]
           d == w - t.width
           at2 == [k \in 0..n |-> IF k < i THEN at[k] ELSE at[k] + d]
           size2 == [k \in 1..n |-> IF k = i THEN Len(b) - at[i] ELSE size[k]]
           wide2 == [k \in 1..n |-> IF k = i THEN wide[i] + d ELSE wide[k]]
<1>1. /\ Laid(n, sc, b, at, around, size, wide) /\ at[n] = Len(b)
      /\ Len(around[n]) = Len(tks) /\ q \in 1..Len(around[n]) /\ q = Len(around[n])
      /\ Holds(q, n, sc, tks, tgs, pd, at, around, wide)
  BY DEF Forwards
<1>2. /\ StillOpen(n, around, i, q) /\ t.start = at[i] /\ t.width = wide[i]
      /\ tgs[q] = sc[i].bytes /\ (~pd => wide[i] = 1)
  BY <1>1 DEF Holds
<1>3. /\ n \in 0..n /\ IsSeq(around[n])
      /\ \A p \in 1..Len(around[n]) : around[n][p] \in 1..n /\ sc[around[n][p]].op = "begin"
      /\ \A p, r \in 1..Len(around[n]) : p < r => around[n][p] < around[n][r]
  BY <1>1 DEF Laid, Stacked
<1>4. i \in 1..n /\ sc[i].op = "begin"
  BY <1>1, <1>3
<1>5. at[i] \in Nat /\ at[i] <= Len(b) /\ Len(b) \in Nat /\ Len(b) - at[i] \in Nat
  <2>1. at[i] \in 0..Len(b)
    BY <1>1, <1>4 DEF Laid, Rising
  <2> QED
    BY <2>1, SeqFacts
<1>6. wide[i] \in Nat /\ size[i] \in Nat
  BY <1>1, <1>4 DEF Laid, Span, BeginSpan
<1>7. d \in Nat /\ wide[i] + d = w
  BY <1>2, <1>6 DEF Patches
<1>8. Closing(n, b, c, i, d, at, wide)
  BY <1>2, <1>7 DEF Closing
<1>9. Closed(n, b, i, d, at, size, wide, at2, size2, wide2)
  <2> HIDE DEF i, d
  <2>1. \A k \in 0..n : at2[k] = IF k < i THEN at[k] ELSE at[k] + d
    OBVIOUS
  <2>2. \A k \in 1..n : size2[k] = IF k = i THEN Len(b) - at[i] ELSE size[k]
    OBVIOUS
  <2>3. \A k \in 1..n : wide2[k] = IF k = i THEN wide[i] + d ELSE wide[k]
    OBVIOUS
  <2> QED
    BY <2>1, <2>2, <2>3 DEF Closed
<1>10. IsSeq(sc[i].bytes)
  BY <1>2
<1> HIDE DEF i, d, at2, size2, wide2
<1>11. Laid(n, sc, c, at2, around, size2, wide2) /\ Len(c) = Len(b) + d
  BY <1>1, <1>2, <1>4, <1>7, <1>8, <1>9, <1>10, LaidClose
<1>12. /\ \A k \in 0..n : at2[k] = IF k < i THEN at[k] ELSE at[k] + d
       /\ \A k \in 1..n : size2[k] = IF k = i THEN Len(b) - at[i] ELSE size[k]
       /\ \A k \in 1..n : wide2[k] = IF k = i THEN w ELSE wide[k]
  BY <1>7, <1>9 DEF Closed
<1>13. at2[n] = Len(c)
  BY <1>1, <1>3, <1>4, <1>11, <1>12
<1>14. ASSUME NEW p \in 1..(q - 1)
       PROVE  Holds(p, n, sc, tks, tgs, pd, at2, around, wide2)
  <2> DEFINE j == around[n][p]
  <2>1. p \in 1..Len(around[n]) /\ p < q
    BY <1>1
  <2>2. j \in 1..n /\ j < i
    BY <1>1, <1>3, <2>1 DEF i
  <2>3. Holds(p, n, sc, tks, tgs, pd, at, around, wide)
    BY <2>1 DEF Forwards
  <2> HIDE DEF j
  <2>4. at2[j] = at[j] /\ wide2[j] = wide[j]
    BY <1>4, <1>12, <2>2
  <2> QED
    BY <2>3, <2>4 DEF Holds, j
<1>15. ASSUME NEW k \in 1..n, Finished(k, n, sc, around)
       PROVE  Fitting(k, pd, size2, wide2)
  <2>1. k # i
    BY <1>1, <1>15 DEF Finished, i
  <2>2. Fitting(k, pd, size, wide)
    BY <1>15 DEF Forwards
  <2> QED
    BY <1>12, <2>1, <2>2 DEF Fitting
<1>16. wide2[i] = w /\ size2[i] = Len(b) - at[i]
  BY <1>4, <1>12
<1>17. Fitting(i, pd, size2, wide2)
  <2>1. Patches(w, wide[i], Len(b) - at[i])
    BY <1>2
  <2>2. wide2[i] >= encoded_len_varint(size2[i])
    BY <1>16, <2>1 DEF Patches
  <2>3. wide[i] = 1 => wide2[i] = encoded_len_varint(size2[i])
    BY <1>16, <2>1 DEF Patches
  <2> QED
    BY <1>2, <2>2, <2>3, Zenon DEF Fitting
<1>18. size2[i] \in Nat /\ Len(c) = at2[i] + size2[i]
  <2>1. at2[i] = at[i] + d
    BY <1>4, <1>12
  <2> QED
    BY <1>5, <1>7, <1>11, <1>16, <2>1
<1>19. Len(tks) = Len(around[n]) /\ Len(tgs) = Len(around[n])
  BY DEF Forwards
<1>20. Lengthened(n, q, sc, c, tks, tgs, pd, at2, around, size2, wide2)
  BY <1>2, <1>11, <1>13, <1>14, <1>15, <1>17, <1>18, <1>19 DEF Lengthened, i
<1> QED
  BY <1>20

\* and is closed.
LEMMA EndForwards ==
    ASSUME NEW n \in Nat, NEW sc, IsSeq(sc), Len(sc) = n, NEW b, IsSeq(b),
           NEW tks, IsSeq(tks), NEW tgs, IsSeq(tgs), NEW pd,
           NEW at, NEW around, NEW size, NEW wide,
           NEW q \in 1..Len(tks), q = Len(tks),
           Lengthened(n, q, sc, b, tks, tgs, pd, at, around, size, wide)
    PROVE  \E at2, around2, size2, wide2 :
              Forwards(n + 1, Append(sc, [op |-> "end", bytes |-> tgs[q]]), b,
                       Front(tks), Front(tgs), pd, at2, around2, size2, wide2)
<1> DEFINE m == n + 1
           tag == tgs[q]
           call == [op |-> "end", bytes |-> tag]
           sc2 == Append(sc, call)
           tks2 == Front(tks)
           tgs2 == Front(tgs)
           i == around[n][q]
           rest == Front(around[n])
           at2 == Extend(at, n, Len(b))
           around2 == Extend(around, n, rest)
           size2 == Extend(size, n, 0)
           wide2 == Extend(wide, n, 0)
<1>1. /\ \A k \in 1..n : sc2[k] = sc[k]
      /\ sc2[m].op = "end" /\ sc2[m].bytes = tag
  <2>1. /\ \A k \in 1..n : sc2[k] = sc[k]
        /\ sc2[m] = call
    BY AppendFacts
  <2> QED
    BY <2>1
<1>2. /\ \A k \in 0..n : at2[k] = at[k] /\ around2[k] = around[k]
      /\ \A k \in 1..n : size2[k] = size[k] /\ wide2[k] = wide[k]
      /\ at2[m] = Len(b) /\ around2[m] = rest
  <2> HIDE DEF sc2, rest
  <2> QED
    BY ExtendFacts
<1>3. /\ n \in 0..n /\ m \in Nat /\ m - 1 = n /\ n \in Nat /\ \A k \in 1..m : k = m \/ k \in 1..n
      /\ m \in 1..m /\ m \notin 1..n /\ 1..n \subseteq 1..m
  OBVIOUS
<1>4. /\ Laid(n, sc, b, at, around, size, wide)
      /\ at[n] = Len(b)
      /\ Len(tks) = Len(around[n]) /\ Len(tgs) = Len(around[n])
      /\ \A p \in 1..(q - 1) : Holds(p, n, sc, tks, tgs, pd, at, around, wide)
      /\ \A k \in 1..n : Finished(k, n, sc, around) => Fitting(k, pd, size, wide)
      /\ Fitting(i, pd, size, wide)
      /\ size[i] \in Nat /\ Len(b) = at[i] + size[i]
      /\ tag = sc[i].bytes
  BY DEF Lengthened
<1>5. /\ IsSeq(around[n]) /\ Len(b) \in Nat
      /\ \A p \in 1..Len(around[n]) : around[n][p] \in 1..n /\ sc[around[n][p]].op = "begin"
      /\ \A p, r \in 1..Len(around[n]) : p < r => around[n][p] < around[n][r]
  <2>1. at[n] \in 0..Len(b)
    BY <1>3, <1>4 DEF Laid, Rising
  <2> QED
    BY <1>3, <1>4, SeqFacts DEF Laid, Stacked
<1> HIDE DEF m
<1>6. /\ q = Len(around[n]) /\ q \in 1..Len(around[n]) /\ q \in Nat \ {0}
      /\ tks # << >> /\ tgs # << >> /\ around[n] # << >>
  <2>1. \A s : s = << >> => Len(s) = 0
    OBVIOUS
  <2>2. Len(tks) \in Nat
    BY SeqFacts
  <2> QED
    BY <1>4, <2>1, <2>2
<1>7. /\ IsSeq(rest) /\ Len(rest) = q - 1
      /\ \A p \in 1..(q - 1) : rest[p] = around[n][p]
  <2>1. IsSeq(rest) /\ Len(rest) = q - 1 /\ \A p \in DOMAIN rest : rest[p] = around[n][p]
    BY <1>5, <1>6, FrontFacts
  <2> QED
    BY <2>1, SeqFacts
<1>8. /\ Len(tks2) = q - 1 /\ \A p \in 1..(q - 1) : tks2[p] = tks[p]
  <2>1. IsSeq(tks2) /\ Len(tks2) = q - 1 /\ \A p \in DOMAIN tks2 : tks2[p] = tks[p]
    BY <1>6, FrontFacts
  <2> QED
    BY <2>1, SeqFacts
<1>9. /\ Len(tgs2) = q - 1 /\ \A p \in 1..(q - 1) : tgs2[p] = tgs[p]
  <2>1. IsSeq(tgs2) /\ Len(tgs2) = q - 1 /\ \A p \in DOMAIN tgs2 : tgs2[p] = tgs[p]
    BY <1>4, <1>6, FrontFacts
  <2> QED
    BY <2>1, SeqFacts
<1>10. i \in 1..n /\ i \in 0..n /\ i = Last(around[n])
  BY <1>5, <1>6 DEF Last
<1> HIDE DEF tag, i, call, sc2, at2, around2, size2, wide2, tks2, tgs2, rest
<1>0. SameCalls(n, sc, sc2, at, at2, around, around2, size, size2, wide, wide2) /\ PadsOn(pd, pd)
  BY <1>1, <1>2 DEF SameCalls, PadsOn
<1>11. Span(m, sc2, b, at2, around2, size2, wide2)
  <2>1. around2[n] = around[n] /\ around2[m] = Front(around2[n]) /\ at2[n] = Len(b) /\ at2[m] = Len(b)
    BY <1>2, <1>3, <1>4 DEF rest
  <2>2. at2[i] = at[i] /\ size2[i] = size[i] /\ sc2[i] = sc[i]
    BY <1>1, <1>2, <1>10
  <2>3. i = Last(around2[n]) /\ around2[n] # << >>
    BY <1>6, <1>10, <2>1
  <2>4. /\ around2[m - 1] # << >> /\ around2[m] = Front(around2[m - 1])
        /\ at2[m] = at2[m - 1] /\ at2[m] = at2[i] + size2[i]
        /\ sc2[m].bytes = sc2[i].bytes
    BY <1>1, <1>3, <1>4, <2>1, <2>2, <2>3
  <2>5. EndSpan(m, sc2, at2, around2, size2)
    BY <1>3, <2>3, <2>4 DEF EndSpan
  <2> QED
    BY <1>1, <2>5 DEF Span
<1>12. Laid(m, sc2, b, at2, around2, size2, wide2)
  <2>1. at2[m] \in 0..Len(b) /\ at[n] <= at2[m]
    BY <1>2, <1>4, <1>5
  <2>2. \A p \in 1..(q - 1) : p \in 1..Len(around[n])
    BY <1>6
  <2>3. ASSUME NEW p \in 1..(q - 1)
        PROVE  rest[p] \in 1..m /\ sc2[rest[p]].op = "begin"
    <3>1. rest[p] \in 1..n /\ sc[rest[p]].op = "begin"
      BY <1>5, <1>7, <2>2
    <3> QED
      BY <1>1, <1>3, <3>1
  <2>4. \A p, r \in 1..(q - 1) : p < r => rest[p] < rest[r]
    BY <1>5, <1>7, <2>2
  <2>5. Nesting(m, sc2, around2)
    BY <1>2, <1>7, <2>3, <2>4 DEF Nesting
  <2> QED
    BY <1>0, <1>3, <1>4, <1>5, <1>11, <2>1, <2>5, LaidOneMore
<1>13. ASSUME NEW p \in 1..Len(around2[m])
       PROVE  Holds(p, m, sc2, tks2, tgs2, pd, at2, around2, wide2)
  <2>1. p \in 1..(q - 1) /\ around2[m][p] = around[n][p] /\ p <= Len(around2[m])
        /\ tks2[p] = tks[p] /\ tgs2[p] = tgs[p]
    BY <1>2, <1>6, <1>7, <1>8, <1>9
  <2>2. Holds(p, n, sc, tks, tgs, pd, at, around, wide)
    BY <1>4, <2>1
  <2> QED
    BY <1>0, <1>3, <2>1, <2>2, HoldsOn
<1>14. ASSUME NEW k \in 1..m, Finished(k, m, sc2, around2)
       PROVE  Fitting(k, pd, size2, wide2)
  <2>1. k \in 1..n
    <3>1. k # m
      BY <1>1, <1>14 DEF Finished
    <3> QED
      BY <1>3, <3>1
  <2>2. Fitting(k, pd, size, wide)
    <3>1. CASE k = i
      BY <1>4, <3>1
    <3>2. CASE k # i
      <4>1. ASSUME NEW p \in 1..Len(around[n])
            PROVE  around[n][p] # k
        <5>1. CASE p = q
          BY <3>2, <5>1 DEF i
        <5>2. CASE p # q
          <6>1. p \in 1..(q - 1) /\ Len(around2[m]) = q - 1
            BY <1>2, <1>6, <1>7, <5>2
          <6>2. around2[m][p] # k
            BY <1>14, <6>1 DEF Finished
          <6> QED
            BY <1>2, <1>7, <6>1, <6>2
        <5> QED
          BY <5>1, <5>2
      <4>2. Finished(k, n, sc, around)
        BY <1>1, <1>14, <2>1, <4>1 DEF Finished
      <4> QED
        BY <1>4, <2>1, <4>2
    <3> QED
      BY <3>1, <3>2
  <2> QED
    BY <1>0, <2>1, <2>2, FittingOn
<1>15. Forwards(m, sc2, b, tks2, tgs2, pd, at2, around2, size2, wide2)
  <2>1. at2[m] = Len(b) /\ Len(tks2) = Len(around2[m]) /\ Len(tgs2) = Len(around2[m])
    BY <1>2, <1>7, <1>8, <1>9
  <2> QED
    BY <1>12, <1>13, <1>14, <2>1 DEF Forwards
<1> QED
  BY <1>15 DEF m, tag, sc2, call, tks2, tgs2

-----------------------------------------------------------------------------
(* The mirrored program: what it has written is what the forward writer has *)
(* behind the calls that are left, or less if lengths were padded there.    *)

\* A message ends as many bytes from the end of the buffer as its payload needs, or more.
MirrorLens(n, b, p, ms, at, around, size) ==
    /\ RevCapacity - p <= Len(b) - at[n]
    /\ \A q \in 1..Len(ms) :
          (RevCapacity - p) - ms[q].before <= (at[around[n][q]] + size[around[n][q]]) - at[n]

MirrorExact(n, b, bk, p, ms, at, around, size) ==
    /\ Body(bk, 0, RevCapacity - p) = Piece(b, at[n], Len(b))
    /\ RevCapacity - p = Len(b) - at[n]
    /\ \A q \in 1..Len(ms) : ms[q].before = Len(b) - (at[around[n][q]] + size[around[n][q]])

\* Every length takes the bytes it needs, or more if it was padded.
FitAll(n, sc, pd, size, wide) ==
    \A k \in 1..n : sc[k].op = "begin" => Fitting(k, pd, size, wide)

Mirrored(n, sc, b, bk, p, ms, pd, at, around, size, wide) ==
    /\ Laid(n, sc, b, at, around, size, wide)
    /\ Len(ms) = Len(around[n])
    /\ \A q \in 1..Len(ms) : ms[q].tag = sc[around[n][q]].bytes
    /\ FitAll(n, sc, pd, size, wide)
    /\ MirrorLens(n, b, p, ms, at, around, size)
    /\ ~pd => MirrorExact(n, b, bk, p, ms, at, around, size)

\* Where an open message is.
LEMMA OpenAt ==
    ASSUME NEW n \in Nat, NEW sc, NEW b, IsSeq(b), NEW at, NEW around, NEW size, NEW wide,
           Laid(n, sc, b, at, around, size, wide), NEW m \in 0..n, NEW q \in 1..Len(around[m])
    PROVE  /\ at[around[m][q]] \in Nat /\ size[around[m][q]] \in Nat
           /\ around[m][q] \in 1..n /\ sc[around[m][q]].op = "begin"
<1> DEFINE i == around[m][q]
<1>1. i \in 1..m /\ sc[i].op = "begin"
  BY DEF Laid, Stacked
<1> HIDE DEF i
<1>2. i \in 1..n /\ i \in 0..n
  BY <1>1
<1>3. at[i] \in 0..Len(b)
  BY <1>2 DEF Laid, Rising
<1>4. size[i] \in Nat
  BY <1>1, <1>2 DEF Laid, Span, BeginSpan
<1>5. at[i] \in Nat
  BY <1>3
<1> QED
  BY <1>1, <1>2, <1>4, <1>5 DEF i

\* Where the last call is.
LEMMA CallAt ==
    ASSUME NEW n \in Nat, NEW m \in Nat, n - 1 = m,
           NEW sc, NEW b, IsSeq(b), NEW at, NEW around, NEW size, NEW wide,
           Laid(n, sc, b, at, around, size, wide)
    PROVE  /\ at[m] \in Nat /\ at[n] \in Nat /\ Len(b) \in Nat
           /\ at[m] <= at[n] /\ at[n] <= Len(b)
           /\ n \in 1..n /\ n \in 0..n /\ m \in 0..n
           /\ IsSeq(around[m]) /\ IsSeq(around[n])
<1>1. n \in 1..n /\ n \in 0..n /\ m \in 0..n /\ m <= n
  OBVIOUS
<1>2. at[m] \in 0..Len(b) /\ at[n] \in 0..Len(b) /\ at[m] <= at[n]
  BY <1>1 DEF Laid, Rising
<1>3. Len(b) \in Nat
  BY SeqFacts
<1> QED
  BY <1>1, <1>2, <1>3 DEF Laid, Stacked

\* The messages that stay open while a call is mirrored.
StayOpen(n, m, ms, ms2, around) ==
    /\ Len(ms2) <= Len(ms) /\ Len(ms) = Len(around[n])
    /\ \A q \in 1..Len(ms2) : ms2[q] = ms[q] /\ around[m][q] = around[n][q]

\* The bytes between two places.
Stands(bytes, b, lo, hi) == bytes = Piece(b, lo, hi)

\* What is written once `len` more bytes are.
LEMMA LengthBack ==
    ASSUME NEW c \in Nat, NEW p \in 0..c, NEW q \in 0..c, NEW len \in Nat,
           NEW lo \in Nat, NEW hi \in Nat, NEW end \in Nat,
           q = p - len, len = hi - lo, c - p = end - hi
    PROVE  c - q = end - lo
OBVIOUS

\* A call's bytes go in front.
LEMMA PrependLens ==
    ASSUME RevOK, NEW bytes \in Seq(Byte), R!Prepend(bytes),
           NEW n \in Nat, NEW m \in Nat, n - 1 = m,
           NEW sc, NEW b, IsSeq(b), NEW at, NEW around, NEW size, NEW wide,
           Laid(n, sc, b, at, around, size, wide),
           MirrorLens(n, b, pos, msgs, at, around, size),
           Len(bytes) <= at[n] - at[m],
           NEW ms2, Len(ms2) \in Nat, StayOpen(n, m, msgs, ms2, around)
    PROVE  MirrorLens(m, b, pos', ms2, at, around, size)
<1> DEFINE len == Len(bytes)
<1>1. /\ pos \in 0..RevCapacity /\ RevCapacity \in Nat /\ pos' \in 0..RevCapacity
      /\ Len(msgs) \in Nat
      /\ \A q \in 1..Len(msgs) : msgs[q].before \in 0..RevCapacity
  BY PrependType, MarkType, BothAssumption DEF RevOK, R!TypeOK
<1>2. len \in Nat /\ pos' = pos - len
  BY DEF R!Prepend
<1>3. /\ at[m] \in Nat /\ at[n] \in Nat /\ Len(b) \in Nat
      /\ at[m] <= at[n] /\ at[n] <= Len(b) /\ n \in 0..n
  BY CallAt
<1>4. len <= at[n] - at[m]
  OBVIOUS
<1> HIDE DEF len
<1>5. RevCapacity - pos' <= Len(b) - at[m]
  <2>1. RevCapacity - pos <= Len(b) - at[n]
    BY DEF MirrorLens
  <2> QED
    BY <1>1, <1>2, <1>3, <1>4, <2>1
<1>6. ASSUME NEW q \in 1..Len(ms2)
      PROVE  (RevCapacity - pos') - ms2[q].before <= (at[around[m][q]] + size[around[m][q]]) - at[m]
  <2>1. ms2[q] = msgs[q] /\ around[m][q] = around[n][q] /\ q \in 1..Len(msgs) /\ q \in 1..Len(around[n])
    BY <1>1 DEF StayOpen
  <2> DEFINE x == at[around[n][q]]
             y == size[around[n][q]]
             z == msgs[q].before
  <2>2. (RevCapacity - pos) - z <= (x + y) - at[n]
    BY <2>1 DEF MirrorLens
  <2>3. x \in Nat /\ y \in Nat /\ z \in Nat
    <3>1. z \in Nat
      BY <1>1, <2>1
    <3>2. x \in Nat /\ y \in Nat
      BY <1>3, <2>1, OpenAt, ZenonT(30)
    <3> QED
      BY <3>1, <3>2
  <2> HIDE DEF x, y, z
  <2>4. (RevCapacity - pos') - z <= (x + y) - at[m]
    BY <1>1, <1>2, <1>3, <1>4, <2>2, <2>3
  <2> QED
    BY <2>1, <2>4 DEF x, y, z
<1> QED
  BY <1>5, <1>6 DEF MirrorLens

LEMMA PrependExact ==
    ASSUME RevOK, NEW bytes \in Seq(Byte), R!Prepend(bytes),
           NEW n \in Nat, NEW m \in Nat, n - 1 = m,
           NEW sc, NEW b, IsSeq(b), NEW at, NEW around, NEW size, NEW wide,
           Laid(n, sc, b, at, around, size, wide),
           MirrorExact(n, b, backing, pos, msgs, at, around, size),
           Stands(bytes, b, at[m], at[n]),
           NEW ms2, Len(ms2) \in Nat, StayOpen(n, m, msgs, ms2, around)
    PROVE  MirrorExact(m, b, backing', pos', ms2, at, around, size)
<1>1. /\ pos \in 0..RevCapacity /\ RevCapacity \in Nat /\ pos' \in 0..RevCapacity
      /\ Len(msgs) \in Nat
  BY PrependType, MarkType, BothAssumption DEF RevOK, R!TypeOK
<1>2. Len(bytes) \in Nat /\ pos' = pos - Len(bytes)
  BY DEF R!Prepend
<1>3. /\ at[m] \in Nat /\ at[n] \in Nat /\ Len(b) \in Nat
      /\ at[m] <= at[n] /\ at[n] <= Len(b) /\ n \in 0..n
  BY CallAt
<1>4. Len(bytes) = at[n] - at[m]
  <2>1. Len(Piece(b, at[m], at[n])) = at[n] - at[m]
    BY <1>3, PieceFacts, ZenonT(30)
  <2> QED
    BY <2>1 DEF Stands
<1>5. RevCapacity - pos = Len(b) - at[n]
  BY DEF MirrorExact
<1>6. RevCapacity - pos' = Len(b) - at[m]
  <2> DEFINE len == Len(bytes)
  <2>1. len \in Nat /\ pos' = pos - len /\ len = at[n] - at[m]
    BY <1>2, <1>4
  <2> DEFINE lo == at[m]
             hi == at[n]
             end == Len(b)
  <2>2. lo \in Nat /\ hi \in Nat /\ end \in Nat
    BY <1>3
  <2>3. len = hi - lo /\ RevCapacity - pos = end - hi
    BY <1>5, <2>1
  <2>5. len \in Nat /\ pos' = pos - len
    BY <2>1
  <2> HIDE DEF len, lo, hi, end
  <2>4. RevCapacity - pos' = end - lo
    BY <1>1, <2>2, <2>3, <2>5, LengthBack
  <2> QED
    BY <2>4 DEF lo, end
<1>7. Body(backing', 0, RevCapacity - pos') = Piece(b, at[m], Len(b))
  <2>1. 0 \in 0..RevCapacity /\ 0 <= 0 /\ 0 <= RevCapacity - pos
    BY <1>1
  <2>2. Body(backing', 0, RevCapacity - pos') = bytes \o Body(backing, 0, RevCapacity - pos)
    BY <2>1, ClaimBody, ZenonT(30)
  <2>3. Body(backing, 0, RevCapacity - pos) = Piece(b, at[n], Len(b))
    BY DEF MirrorExact
  <2>4. Len(b) <= Len(b)
    BY <1>3
  <2>5. Piece(b, at[m], Len(b)) = Piece(b, at[m], at[n]) \o Piece(b, at[n], Len(b))
    <3> DEFINE lo == at[m]
               hi == at[n]
               end == Len(b)
    <3>1. lo \in Nat /\ hi \in Nat /\ end \in Nat /\ lo <= hi /\ hi <= end /\ end <= Len(b)
      BY <1>3, <2>4
    <3> HIDE DEF lo, hi, end
    <3>2. Piece(b, lo, end) = Piece(b, lo, hi) \o Piece(b, hi, end)
      BY <3>1, PieceSplit
    <3> QED
      BY <3>2 DEF lo, hi, end
  <2> QED
    BY <2>2, <2>3, <2>5 DEF Stands
<1>8. ASSUME NEW q \in 1..Len(ms2)
      PROVE  ms2[q].before = Len(b) - (at[around[m][q]] + size[around[m][q]])
  BY <1>1 DEF StayOpen, MirrorExact
<1> QED
  BY <1>6, <1>7, <1>8 DEF MirrorExact

\* There was no room for a call's bytes in a slice that the whole buffer fits.
LEMMA NoRoom ==
    ASSUME RevOK, NEW len \in Nat, pos < len,
           NEW n \in Nat, NEW m \in Nat, n - 1 = m,
           NEW sc, NEW b, IsSeq(b), NEW at, NEW around, NEW size, NEW wide,
           Laid(n, sc, b, at, around, size, wide),
           MirrorLens(n, b, pos, msgs, at, around, size),
           len <= at[n] - at[m]
    PROVE  Len(b) > RevCapacity
<1>1. pos \in 0..RevCapacity /\ RevCapacity \in Nat
  BY BothAssumption DEF RevOK, R!TypeOK
<1>2. /\ at[m] \in Nat /\ at[n] \in Nat /\ Len(b) \in Nat
  BY CallAt
<1>3. RevCapacity - pos <= Len(b) - at[n]
  BY DEF MirrorLens
<1> QED
  BY <1>1, <1>2, <1>3

\* The calls that are left.
LEMMA CallsLeft ==
    ASSUME NEW n \in Nat, NEW m \in Nat, n - 1 = m, NEW sc, IsSeq(sc), Len(sc) = n,
           NEW b, IsSeq(b), NEW at, NEW around, NEW size, NEW wide, NEW pd,
           Laid(n, sc, b, at, around, size, wide),
           FitAll(n, sc, pd, size, wide)
    PROVE  /\ IsSeq(Front(sc)) /\ Len(Front(sc)) = m
           /\ \A k \in 1..m : Front(sc)[k] = sc[k]
           /\ Laid(m, Front(sc), b, at, around, size, wide)
           /\ FitAll(m, Front(sc), pd, size, wide)
           /\ Last(sc) = sc[n]
<1>1. sc # << >> /\ m \in 0..n /\ 1..m \subseteq 1..n
  <2>1. \A s : s = << >> => Len(s) = 0
    OBVIOUS
  <2> QED
    BY <2>1
<1>2. IsSeq(Front(sc)) /\ Len(Front(sc)) = m
  BY <1>1, FrontFacts
<1>3. \A k \in 1..m : Front(sc)[k] = sc[k]
  BY <1>1, <1>2, FrontFacts, SeqFacts
<1> DEFINE sc2 == Front(sc)
<1>4. \A k \in 1..m : sc2[k] = sc[k]
  BY <1>3
<1> HIDE DEF sc2
<1>5. Laid(m, sc2, b, at, around, size, wide)
  BY <1>1, <1>4, LaidShorter
<1>6. FitAll(m, sc2, pd, size, wide)
  BY <1>1, <1>4 DEF FitAll
<1> QED
  BY <1>2, <1>3, <1>5, <1>6 DEF sc2, Last

\* One call is mirrored by what it has in the buffer, or by less if its length was padded.
LEMMA MirrorsOn ==
    ASSUME RevOK, NEW bytes \in Seq(Byte), R!Prepend(bytes),
           NEW n \in Nat, NEW m \in Nat, n - 1 = m, NEW sc, IsSeq(sc), Len(sc) = n,
           NEW b, IsSeq(b), NEW at, NEW around, NEW size, NEW wide, NEW pd,
           Mirrored(n, sc, b, backing, pos, msgs, pd, at, around, size, wide),
           Len(bytes) <= at[n] - at[m],
           pd \/ Stands(bytes, b, at[m], at[n]),
           NEW ms2, Len(ms2) = Len(around[m]), StayOpen(n, m, msgs, ms2, around)
    PROVE  Mirrored(m, Front(sc), b, backing', pos', ms2, pd, at, around, size, wide)
<1>1. /\ Laid(n, sc, b, at, around, size, wide)
      /\ \A q \in 1..Len(msgs) : msgs[q].tag = sc[around[n][q]].bytes
      /\ FitAll(n, sc, pd, size, wide)
      /\ MirrorLens(n, b, pos, msgs, at, around, size)
  BY DEF Mirrored
<1>2. /\ IsSeq(Front(sc)) /\ Len(Front(sc)) = m
      /\ \A k \in 1..m : Front(sc)[k] = sc[k]
      /\ Laid(m, Front(sc), b, at, around, size, wide)
      /\ FitAll(m, Front(sc), pd, size, wide)
  BY <1>1, CallsLeft
<1>3. IsSeq(around[m]) /\ IsSeq(around[n])
  BY <1>1, CallAt
<1>4. Len(ms2) \in Nat /\ Len(msgs) \in Nat
  BY <1>3, SeqFacts DEF Mirrored
<1>5. MirrorLens(m, b, pos', ms2, at, around, size)
  BY <1>1, <1>4, PrependLens
<1>6. ASSUME ~pd
      PROVE  MirrorExact(m, b, backing', pos', ms2, at, around, size)
  <2>1. MirrorExact(n, b, backing, pos, msgs, at, around, size)
    BY <1>6 DEF Mirrored
  <2>2. Stands(bytes, b, at[m], at[n])
    BY <1>6
  <2> QED
    BY <1>1, <1>4, <2>1, <2>2, PrependExact
<1>7. ASSUME NEW q \in 1..Len(ms2)
      PROVE  ms2[q].tag = Front(sc)[around[m][q]].bytes
  <2>1. ms2[q] = msgs[q] /\ around[m][q] = around[n][q] /\ q \in 1..Len(msgs) /\ q \in 1..Len(around[m])
    BY <1>4 DEF StayOpen
  <2>2. around[m][q] \in 1..m
    <3>1. m \in 0..m
      OBVIOUS
    <3> QED
      BY <1>2, <2>1, <3>1 DEF Laid, Stacked
  <2> QED
    BY <1>1, <1>2, <2>1, <2>2
<1> QED
  BY <1>2, <1>5, <1>6, <1>7 DEF Mirrored

\* A put call's bytes are those it wrote.
LEMMA PutStands ==
    ASSUME NEW n \in Nat, NEW m \in Nat, n - 1 = m, NEW sc, sc[n].op = "put",
           NEW b, IsSeq(b), NEW at, NEW around, NEW size, NEW wide,
           Laid(n, sc, b, at, around, size, wide)
    PROVE  /\ Stands(sc[n].bytes, b, at[m], at[n])
           /\ Len(sc[n].bytes) = at[n] - at[m]
           /\ around[n] = around[m]
<1>1. /\ at[m] \in Nat /\ at[n] \in Nat /\ Len(b) \in Nat
      /\ at[m] <= at[n] /\ at[n] <= Len(b) /\ n \in 1..n
  BY CallAt
<1>2. PutSpan(n, sc, b, at, around)
  BY <1>1 DEF Laid, Span
<1>3. around[n] = around[m] /\ Piece(b, at[m], at[n]) = sc[n].bytes
  <2>1. around[n] = around[n - 1] /\ Piece(b, at[n - 1], at[n]) = sc[n].bytes
    BY <1>2, Zenon DEF PutSpan
  <2>2. n - 1 = m
    OBVIOUS
  <2> QED
    BY <2>1, <2>2, Zenon
<1>4. Len(Piece(b, at[m], at[n])) = at[n] - at[m]
  <2> DEFINE lo == at[m]
             hi == at[n]
  <2>1. lo \in Nat /\ hi \in Nat /\ lo <= hi /\ hi <= Len(b)
    BY <1>1
  <2> HIDE DEF lo, hi
  <2>2. Len(Piece(b, lo, hi)) = hi - lo
    BY <2>1, PieceFacts
  <2> QED
    BY <2>2 DEF lo, hi
<1> QED
  BY <1>3, <1>4 DEF Stands

\* A message's tag and length take the bytes they took forwards, or less if padded there.
LEMMA HeaderStands ==
    ASSUME RevOK, NEW n \in Nat, NEW m \in Nat, n - 1 = m, NEW sc, sc[n].op = "begin",
           IsSeq(sc[n].bytes),
           NEW b, IsSeq(b), NEW at, NEW around, NEW size, NEW wide, NEW pd,
           Mirrored(n, sc, b, backing, pos, msgs, pd, at, around, size, wide)
    PROVE  /\ Len(R!Header(Last(msgs))) <= at[n] - at[m]
           /\ pd \/ Stands(R!Header(Last(msgs)), b, at[m], at[n])
           /\ Len(msgs) \in Nat \ {0} /\ around[n] = Append(around[m], n)
<1> DEFINE tag == sc[n].bytes
           mark == Last(msgs)
           x == mark.before
           y == (RevCapacity - pos) - x
           s == size[n]
           w == wide[n]
           lo == at[m]
           hi == at[n]
           end == Len(b)
<1>1. /\ Laid(n, sc, b, at, around, size, wide)
      /\ Len(msgs) = Len(around[n])
      /\ \A q \in 1..Len(msgs) : msgs[q].tag = sc[around[n][q]].bytes
      /\ FitAll(n, sc, pd, size, wide)
      /\ MirrorLens(n, b, pos, msgs, at, around, size)
  BY DEF Mirrored
<1>2. /\ lo \in Nat /\ hi \in Nat /\ end \in Nat /\ lo <= hi /\ hi <= end
      /\ n \in 1..n /\ IsSeq(around[m])
  BY <1>1, CallAt
<1>3. /\ around[n] = Append(around[m], n)
      /\ s \in Nat /\ w \in Nat
      /\ Piece(b, lo, hi) = tag \o write_wide_varint(w, s)
  BY <1>1, <1>2 DEF Laid, Span, BeginSpan
<1>4. Len(msgs) \in Nat \ {0} /\ around[n][Len(msgs)] = n
  BY <1>1, <1>2, <1>3, AppendFacts, SeqFacts
<1>5. mark = msgs[Len(msgs)] /\ Len(msgs) \in 1..Len(msgs)
  BY <1>4 DEF Last
<1>6. mark.tag = tag
  BY <1>1, <1>4, <1>5
<1>7. x \in Nat /\ y \in Nat /\ RevCapacity - pos \in Nat
  <2>1. x \in 0..RevCapacity /\ x <= RevCapacity - pos /\ pos \in 0..RevCapacity /\ RevCapacity \in Nat
    BY <1>5, MarkType, BothAssumption DEF RevOK, R!TypeOK
  <2> HIDE DEF x
  <2> QED
    BY <2>1
<1>8. y <= s
  <2>1. y <= (hi + s) - hi
    BY <1>1, <1>4, <1>5 DEF MirrorLens
  <2> HIDE DEF y, s, hi
  <2> QED
    BY <1>2, <1>3, <1>7, <2>1
<1>9. R!Header(mark) = tag \o write_wide_varint(encoded_len_varint(y), y)
  BY <1>6, SameVarint DEF R!Header, R!WrittenLen, write_varint
<1>10. w >= encoded_len_varint(s) /\ (~pd => w = encoded_len_varint(s))
  BY <1>1, <1>2 DEF FitAll, Fitting
<1> HIDE DEF tag, mark, x, y, s, w, lo, hi, end
<1>11. /\ encoded_len_varint(y) \in Nat /\ encoded_len_varint(s) \in Nat
       /\ encoded_len_varint(y) <= encoded_len_varint(s)
  <2>1. encoded_len_varint(y) \in Nat /\ encoded_len_varint(s) \in Nat
    BY EncodedLenType, VarintAssumption
  <2>2. encoded_len_varint(y) <= encoded_len_varint(s)
    BY <1>3, <1>7, <1>8, EncodedLenMonotone
  <2> QED
    BY <2>1, <2>2
<1>12. IsSeq(tag) /\ Len(tag) \in Nat
  BY SeqFacts DEF tag
<1>13. hi - lo = Len(tag) + w
  <2>1. IsSeq(write_wide_varint(w, s)) /\ Len(write_wide_varint(w, s)) = w
    BY <1>3, WideType, SeqOverSet
  <2>2. Len(tag \o write_wide_varint(w, s)) = Len(tag) + w
    BY <1>12, <2>1, ConcatFacts
  <2>3. hi <= Len(b)
    BY <1>2 DEF end
  <2>4. Len(Piece(b, lo, hi)) = hi - lo
    BY <1>2, <2>3, PieceFacts
  <2> QED
    BY <1>3, <2>2, <2>4
<1>14. Len(R!Header(mark)) = Len(tag) + encoded_len_varint(y)
  <2> DEFINE e == encoded_len_varint(y)
  <2>1. e \in Nat
    BY <1>11
  <2> HIDE DEF e
  <2>2. IsSeq(write_wide_varint(e, y)) /\ Len(write_wide_varint(e, y)) = e
    BY <1>7, <2>1, WideType, SeqOverSet
  <2>3. Len(tag \o write_wide_varint(e, y)) = Len(tag) + e
    BY <1>12, <2>2, ConcatFacts
  <2> QED
    BY <1>9, <2>3 DEF e
<1>15. Len(R!Header(mark)) <= hi - lo
  BY <1>3, <1>10, <1>11, <1>12, <1>13, <1>14
<1>16. ASSUME ~pd
       PROVE  Stands(R!Header(mark), b, lo, hi)
  <2>1. MirrorExact(n, b, backing, pos, msgs, at, around, size)
    BY <1>16 DEF Mirrored
  <2>2. RevCapacity - pos = end - hi
    BY <2>1 DEF MirrorExact, end, hi
  <2>3. x = end - (hi + s)
    BY <1>4, <1>5, <2>1 DEF MirrorExact, x, end, hi, s
  <2>4. y = (RevCapacity - pos) - x
    BY DEF y
  <2>5. y = s
    BY <1>2, <1>3, <1>7, <2>2, <2>3, <2>4
  <2>6. w = encoded_len_varint(s)
    BY <1>10, <1>16
  <2> QED
    BY <1>3, <1>9, <2>5, <2>6 DEF Stands
<1> QED
  BY <1>3, <1>4, <1>15, <1>16 DEF mark, lo, hi

-----------------------------------------------------------------------------
(* The forward pass is a TackWriter over a Vec, of which TackWriter_proofs  *)
(* has proved what it needs: FP names the same operators as F.             *)

FP == INSTANCE TackWriter_proofs WITH open <- tacks, Growable <- TRUE, Stale <- {0}

LEMMA ForwardAssumptions == FP!TackAssumption /\ FP!VarintAssumption
<1>1. {0} \subseteq FP!Byte
  BY VarintAssumption DEF FP!Byte
<1>2. FP!Byte = Byte
  BY DEF FP!Byte, Byte
<1> QED
  BY <1>1, <1>2, BothAssumption, VarintAssumption DEF FP!TackAssumption, FP!VarintAssumption

LEMMA SameForwardPower ==
    /\ \A b, n : F!Power(b, n) = FP!Power(b, n)
    /\ \A b, n : FP!Power(b, n) = Power(b, n)
    /\ \A b, n : F!Wire!Power(b, n) = FP!Wire!Power(b, n)
<1>1. \A b, n : F!Power(b, n) = FP!Power(b, n)
  BY DEF F!Power, FP!Power
<1>2. \A b, n : FP!Power(b, n) = Power(b, n)
  BY DEF FP!Power, Power
<1>3. \A b, n : F!Wire!Power(b, n) = FP!Wire!Power(b, n)
  BY DEF F!Wire!Power, FP!Wire!Power
<1> QED
  BY <1>1, <1>2, <1>3

LEMMA SameForward ==
    /\ \A w, v : F!write_wide_varint(w, v) = FP!write_wide_varint(w, v)
    /\ \A v : F!encoded_len_varint(v) = FP!encoded_len_varint(v)
BY SameForwardPower
   DEF F!write_wide_varint, FP!write_wide_varint, F!encoded_len_varint, FP!encoded_len_varint,
       F!Group, FP!Group, F!Cardinality, FP!Cardinality

LEMMA SameForwardVarint ==
    /\ \A w, v : FP!write_wide_varint(w, v) = write_wide_varint(w, v)
    /\ \A v : FP!encoded_len_varint(v) = encoded_len_varint(v)
BY SameForwardPower
   DEF write_wide_varint, FP!write_wide_varint, encoded_len_varint, FP!encoded_len_varint,
       Group, FP!Group, Cardinality, FP!Cardinality

LEMMA SameEndsForward ==
    \A s : F!Front(s) = FP!Front(s) /\ F!Last(s) = FP!Last(s)
           /\ FP!Front(s) = Front(s) /\ FP!Last(s) = Last(s)
BY DEF F!Front, F!Last, FP!Front, FP!Last, Front, Last

LEMMA SamePut == \A c : F!Put(c) <=> FP!Put(c)
BY DEF F!Put, FP!Put, F!Bounded, FP!Bounded

LEMMA SameBegin == \A t, w : F!BeginMsg(t, w) <=> FP!BeginMsg(t, w)
BY SameForward
   DEF F!BeginMsg, FP!BeginMsg, F!Bounded, FP!Bounded, F!NewTack, FP!NewTack

LEMMA SamePatched == \A b, lo, bytes : F!Patched(b, lo, bytes) = FP!Patched(b, lo, bytes)
BY DEF F!Patched, FP!Patched

LEMMA SameCopy == \A b, lo, hi, dest : F!copy_within(b, lo, hi, dest) = FP!copy_within(b, lo, hi, dest)
BY DEF F!copy_within, FP!copy_within

LEMMA SameExtra == \A t : F!Extra(t) = FP!Extra(t) /\ F!DataLen(t) = FP!DataLen(t)
BY SameForward DEF F!Extra, FP!Extra, F!DataLen, FP!DataLen

LEMMA SameUnstack == (F!Unstack <=> FP!Unstack) /\ (F!Dropping <=> FP!Dropping)
BY SameEndsForward DEF F!Unstack, FP!Unstack, F!Dropping, FP!Dropping

LEMMA SameDrop == F!Drop <=> FP!Drop
<1>1. F!CloseInPlace <=> FP!CloseInPlace
  BY SameForward, SamePatched, SameExtra, SameUnstack, SameEndsForward
     DEF F!CloseInPlace, FP!CloseInPlace
<1>2. \A b, t, n, fill : F!fix_overflow(b, t, n, fill) = FP!fix_overflow(b, t, n, fill)
  BY SameForward, SamePatched, SameCopy DEF F!fix_overflow, FP!fix_overflow
<1>3. F!CloseOverflow <=> FP!CloseOverflow
  BY <1>2, SameForward, SameExtra, SameUnstack, SameEndsForward
     DEF F!CloseOverflow, FP!CloseOverflow, F!Fits, FP!Fits
<1>4. F!CloseExhausted <=> FP!CloseExhausted
  BY SameExtra, SameUnstack, SameEndsForward
     DEF F!CloseExhausted, FP!CloseExhausted, F!Fits, FP!Fits
<1> QED
  BY <1>1, <1>3, <1>4 DEF F!Drop, FP!Drop

LEMMA SameEnding == (F!ClosurePanics <=> FP!ClosurePanics) /\ (F!Finish <=> FP!Finish)
BY DEF F!ClosurePanics, FP!ClosurePanics, F!Panic, FP!Panic, F!Finish, FP!Finish

\* Every step of the program is a step of the forward writer or leaves it alone.
LEMMA ForwardStep == [Next]_vars => [FP!Next]_(FP!vars)
<1> SUFFICES ASSUME [Next]_vars
             PROVE  [FP!Next]_(FP!vars)
  OBVIOUS
<1>1. CASE WritePut
  <2>1. \E c \in Chunks : FP!Put(c)
    BY <1>1, SamePut DEF WritePut
  <2> QED
    BY <2>1 DEF FP!Next
<1>2. CASE WriteBegin
  <2>1. \E tag \in Tags, width \in Widths : FP!BeginMsg(tag, width)
    BY <1>2, SameBegin DEF WriteBegin
  <2> QED
    BY <2>1 DEF FP!Next
<1>3. CASE WriteEnd \/ Unwind
  BY <1>3, SameDrop DEF WriteEnd, Unwind, FP!Next
<1>4. CASE WriteDone \/ WritePanics
  BY <1>4, SameEnding DEF WriteDone, WritePanics, FP!Next
<1>5. CASE MirrorPut \/ MirrorEnd \/ MirrorBegin \/ MirrorPanics \/ MirrorDone \/ Terminating \/ UNCHANGED vars
  <2>1. UNCHANGED <<buf, tacks, mode>>
    BY <1>5 DEF MirrorPut, MirrorEnd, MirrorBegin, MirrorPanics, MirrorDone, Terminating, Called,
                vars, fvars
  <2> QED
    BY <2>1 DEF FP!vars
<1> QED
  BY <1>1, <1>2, <1>3, <1>4, <1>5 DEF Next

LEMMA ForwardInit == Init => FP!Init
BY DEF Init, F!Init, FP!Init

\* A Tack of the composite is where it was, over a Vec as over a slice.
LEMMA ForwardInvariance ==
    ASSUME F!StartFits
    PROVE  Spec => []FP!IInv
<1>0. FP!StartFits
  BY DEF F!StartFits, FP!StartFits
<1>1. Init => FP!IInv
  BY ForwardInit, ForwardAssumptions, FP!InitIInv
<1>2. FP!IInv /\ [Next]_vars => FP!IInv'
  BY <1>0, ForwardStep, ForwardAssumptions, FP!NextIInv
<1> QED
  BY <1>1, <1>2, PTL DEF Spec

LEMMA SameKept == FP!PlaceholdersKept => VecPlaceholdersKept
BY SameForward DEF VecPlaceholdersKept, FP!PlaceholdersKept, F!PlaceholdersKept, F!Reserved, FP!Reserved

(***************************************************************************)
(* A forward buffer keeps every placeholder it has reserved, as it was     *)
(* written, until the Tack it belongs to closes (tack.rs Tack::new,        *)
(* close): TackWriter's theorem, for the forward half of this module.      *)
(***************************************************************************)
THEOREM VecPlaceholdersStay ==
    ASSUME F!StartFits
    PROVE  Spec => []VecPlaceholdersKept
<1>1. FP!IInv => VecPlaceholdersKept
  BY SameKept DEF FP!IInv
<1> QED
  BY <1>1, ForwardInvariance, PTL

\* Both name the same frames.
LEMMA SameFrameView == F!Frames = FP!Frames
BY DEF F!Frames, FP!Frames, F!BodyEnd, FP!BodyEnd

\* and the same abstract writer.
LEMMA SameWire ==
    /\ FP!Wire!Init => F!Wire!Init
    /\ [FP!Wire!Next]_(FP!Frames) => [F!Wire!Next]_(F!Frames)
<1>a. F!Frames = FP!Frames
  BY SameFrameView
<1>b. (F!Frames = FP!Frames)'
  BY SameFrameView, PTL
<1>0. F!Frames = FP!Frames /\ F!Frames' = FP!Frames'
  BY <1>a, <1>b
<1>1. /\ \A s : F!Wire!Front(s) = FP!Wire!Front(s) /\ F!Wire!Last(s) = FP!Wire!Last(s)
      /\ \A w, v : F!Wire!write_wide_varint(w, v) = FP!Wire!write_wide_varint(w, v)
      /\ \A v : F!Wire!encoded_len_varint(v) = FP!Wire!encoded_len_varint(v)
      /\ \A s, t : F!Wire!IsPrefix(s, t) <=> FP!Wire!IsPrefix(s, t)
  <2>1. /\ \A s : F!Wire!Front(s) = FP!Wire!Front(s) /\ F!Wire!Last(s) = FP!Wire!Last(s)
        /\ \A s, t : F!Wire!IsPrefix(s, t) <=> FP!Wire!IsPrefix(s, t)
    BY DEF F!Wire!Front, FP!Wire!Front, F!Wire!Last, FP!Wire!Last,
           F!Wire!IsPrefix, FP!Wire!IsPrefix
  <2>2. /\ \A w, v : F!Wire!write_wide_varint(w, v) = FP!Wire!write_wide_varint(w, v)
        /\ \A v : F!Wire!encoded_len_varint(v) = FP!Wire!encoded_len_varint(v)
    BY SameForwardPower
       DEF F!Wire!write_wide_varint, FP!Wire!write_wide_varint,
           F!Wire!encoded_len_varint, FP!Wire!encoded_len_varint,
           F!Wire!Group, FP!Wire!Group, F!Wire!Cardinality, FP!Wire!Cardinality
  <2> QED
    BY <2>1, <2>2
<1>2. FP!Wire!Init => F!Wire!Init
  BY <1>0 DEF F!Wire!Init, FP!Wire!Init
<1>3. FP!Wire!Write => F!Wire!Write
  BY <1>1, <1>0 DEF F!Wire!Write, FP!Wire!Write, F!Wire!Grew, FP!Wire!Grew
<1>4. FP!Wire!Open => F!Wire!Open
  BY <1>1, <1>0 DEF F!Wire!Open, FP!Wire!Open
<1>5. \A bytes : FP!Wire!Fold(bytes) => F!Wire!Fold(bytes)
  BY <1>1, <1>0 DEF F!Wire!Fold, FP!Wire!Fold, F!Wire!Join, FP!Wire!Join
<1>6. \A w, n : F!Wire!Prefix(w, n) = FP!Wire!Prefix(w, n)
  BY <1>1 DEF F!Wire!Prefix, FP!Wire!Prefix
<1>7. FP!Wire!Close => F!Wire!Close
  BY <1>1, <1>5, <1>6, <1>0 DEF F!Wire!Close, FP!Wire!Close
<1>8. FP!Wire!Spill => F!Wire!Spill
  BY <1>1, <1>5, <1>0 DEF F!Wire!Spill, FP!Wire!Spill
<1>9. FP!Wire!Next => F!Wire!Next
  BY <1>3, <1>4, <1>7, <1>8 DEF F!Wire!Next, FP!Wire!Next
<1> QED
  BY <1>0, <1>2, <1>9

(***************************************************************************)
(* The forward half writes well framed messages, whatever program it runs  *)
(* (tack.rs Tack::close): TackWriter's refinement, for this module.        *)
(***************************************************************************)
THEOREM VecFramesMessages ==
    ASSUME F!StartFits
    PROVE  Spec => VecFraming
<1>0. FP!StartFits
  BY DEF F!StartFits, FP!StartFits
<1>1. Init => F!Wire!Init
  BY ForwardInit, ForwardAssumptions, FP!FramesInit, SameWire
<1>2. FP!IInv /\ [Next]_vars => [F!Wire!Next]_(F!Frames)
  BY <1>0, ForwardStep, ForwardAssumptions, FP!FramesStep, SameWire
<1> QED
  BY <1>1, <1>2, ForwardInvariance, PTL DEF Spec, VecFraming, F!Framing, F!Wire!Spec

-----------------------------------------------------------------------------
(* The inductive invariant of both writers. *)

\* Nothing is mirrored before the program is written.
MirrorFresh ==
    /\ mode # "done" => pos = RevCapacity /\ msgs = << >> /\ rmode = "running"
    /\ rmode = "done" => script = << >>

Ghost(at, around, size, wide) ==
    /\ mode = "running" =>
          Forwards(Len(script), script, buf, tacks, tags, padded, at, around, size, wide)
    /\ mode = "done" /\ rmode # "panicked" =>
          Mirrored(Len(script), script, buf, backing, pos, msgs, padded, at, around, size, wide)

AgreeInv ==
    /\ IInv /\ FP!IInv
    /\ MirrorFresh
    /\ \E at, around, size, wide : Ghost(at, around, size, wide)

\* The types the steps need.
LEMMA AgreeTypes ==
    ASSUME AgreeInv
    PROVE  /\ IsSeq(buf) /\ IsSeq(script) /\ Len(script) \in Nat
           /\ IsSeq(tacks)
           /\ \A k \in 1..Len(script) : script[k] \in Call /\ IsSeq(script[k].bytes)
           /\ script = << >> <=> Len(script) = 0
<1>1. script \in Seq(Call)
  BY DEF AgreeInv, IInv, CallsOK
<1>2. buf \in Seq(FP!Byte) /\ tacks \in Seq(FP!Tack)
  BY DEF AgreeInv, FP!IInv, FP!TypeOK
<1>3. IsSeq(buf) /\ IsSeq(script) /\ IsSeq(tacks)
  BY <1>1, <1>2, SeqOverSet
<1>4. Len(script) \in Nat /\ (script = << >> <=> Len(script) = 0)
  BY <1>1
<1>5. ASSUME NEW k \in 1..Len(script)
      PROVE  script[k] \in Call /\ IsSeq(script[k].bytes)
  <2>1. script[k] \in Call
    BY <1>1
  <2>2. script[k].bytes \in Chunks \/ script[k].bytes \in Tags
    BY <2>1 DEF Call
  <2>3. script[k].bytes \in Seq(Byte)
    BY <2>2, BothAssumption
  <2> QED
    BY <2>1, <2>3, SeqOverSet
<1> QED
  BY <1>3, <1>4, <1>5

\* Bytes of a message.
LEMMA PutAgrees ==
    ASSUME AgreeInv, WritePut
    PROVE  MirrorFresh' /\ \E at, around, size, wide : Ghost(at, around, size, wide)'
<1>1. PICK c \in Chunks : F!Put(c) /\ Record("put", c) /\ UNCHANGED <<rvars, tags, padded>>
  BY DEF WritePut
<1>2. /\ mode = "running" /\ mode' = "running" /\ buf' = buf \o c /\ tacks' = tacks
      /\ script' = Append(script, [op |-> "put", bytes |-> c])
      /\ tags' = tags /\ padded' = padded
      /\ backing' = backing /\ pos' = pos /\ msgs' = msgs /\ rmode' = rmode
  BY <1>1 DEF F!Put, Record, rvars
<1>3. PICK at, around, size, wide : Ghost(at, around, size, wide)
  BY DEF AgreeInv
<1> DEFINE n == Len(script)
<1>4. Forwards(n, script, buf, tacks, tags, padded, at, around, size, wide)
  BY <1>2, <1>3 DEF Ghost
<1>5. n \in Nat /\ IsSeq(script) /\ IsSeq(buf) /\ IsSeq(c)
  <2>1. c \in Seq(Byte)
    BY BothAssumption
  <2> QED
    BY <2>1, AgreeTypes, SeqOverSet
<1> HIDE DEF n
<1>6. PICK at2, around2, size2, wide2 :
         Forwards(n + 1, Append(script, [op |-> "put", bytes |-> c]), buf \o c, tacks, tags, padded,
                  at2, around2, size2, wide2)
  <2>1. Len(script) = n
    BY DEF n
  <2> QED
    BY <1>4, <1>5, <2>1, PutForwards
<1>7. Len(script') = n + 1
  BY <1>2, <1>5, AppendFacts DEF n
<1>8. Forwards(Len(script'), script', buf', tacks', tags', padded', at2, around2, size2, wide2)
  BY <1>2, <1>6, <1>7
<1>9. Ghost(at2, around2, size2, wide2)'
  BY <1>2, <1>8 DEF Ghost
<1>10. MirrorFresh'
  BY <1>2 DEF AgreeInv, MirrorFresh
<1> QED
  BY <1>9, <1>10

\* A message begins.
LEMMA BeginAgrees ==
    ASSUME AgreeInv, F!StartFits, WriteBegin
    PROVE  MirrorFresh' /\ \E at, around, size, wide : Ghost(at, around, size, wide)'
<1>1. PICK tag \in Tags, width \in Widths :
         /\ F!BeginMsg(tag, width) /\ Record("begin", tag) /\ tags' = Append(tags, tag)
         /\ padded' = (padded \/ width # 1) /\ UNCHANGED rvars
  BY DEF WriteBegin
<1> DEFINE w == write_wide_varint(width, 0)
           t == F!NewTack(Len(buf) + Len(tag), width)
<1>2. /\ mode = "running" /\ mode' = "running" /\ buf' = (buf \o tag) \o w
      /\ tacks' = Append(tacks, t)
      /\ script' = Append(script, [op |-> "begin", bytes |-> tag])
      /\ tags' = Append(tags, tag)
      /\ backing' = backing /\ pos' = pos /\ msgs' = msgs /\ rmode' = rmode
      /\ Len(buf) + (Len(tag) + width) <= Capacity
  BY <1>1, SameForward, SameForwardVarint DEF F!BeginMsg, F!Bounded, Record, rvars
<1>3. PICK at, around, size, wide : Ghost(at, around, size, wide)
  BY DEF AgreeInv
<1> DEFINE n == Len(script)
<1>4. Forwards(n, script, buf, tacks, tags, padded, at, around, size, wide)
  BY <1>2, <1>3 DEF Ghost
<1>5. /\ n \in Nat /\ IsSeq(script) /\ IsSeq(buf) /\ IsSeq(tag) /\ IsSeq(tacks) /\ IsSeq(tags)
      /\ width \in Nat /\ buf \in Seq(Byte) /\ tag \in Seq(Byte) /\ w \in Seq(Byte)
  <2>1. tag \in Seq(Byte) /\ width \in Nat
    BY BothAssumption
  <2>2. tags \in Seq(Tags)
    BY <1>2 DEF AgreeInv, IInv, CallsOK
  <2>3. buf \in Seq(Byte)
    <3>1. FP!Byte = Byte
      BY DEF FP!Byte, Byte
    <3> QED
      BY <3>1 DEF AgreeInv, FP!IInv, FP!TypeOK
  <2>4. w \in Seq(Byte)
    BY <2>1, WideType
  <2> QED
    BY <2>1, <2>2, <2>3, <2>4, AgreeTypes, SeqOverSet
<1>6. t.width = width /\ t.start = Len(buf) + Len(tag) + width
  <2> DEFINE s == Len(buf) + Len(tag) + width
  <2>1. t = [start |-> s % U32, width |-> width]
    BY DEF F!NewTack
  <2>2. s \in Nat /\ s < U32 /\ U32 \in Nat
    <3>1. Len(buf) \in Nat /\ Len(tag) \in Nat
      BY <1>5, SeqFacts
    <3>2. Capacity < U32
      BY DEF F!StartFits
    <3> QED
      BY <1>2, <1>5, <3>1, <3>2, BothAssumption
  <2> HIDE DEF s, t
  <2>3. s % U32 = s
    BY <2>2
  <2>4. t.width = width /\ t.start = s
    BY <2>1, <2>3
  <2> QED
    BY <2>4 DEF s
<1>7. (buf \o tag) \o w = buf \o (tag \o w)
  <2> HIDE DEF w
  <2> QED
    BY <1>5, ConcatAssociative
<1>8. PadsOn(padded, padded') /\ (~padded' => width = 1)
  <2>1. padded' = (padded \/ width # 1)
    BY <1>1
  <2>2. padded => padded'
    BY <2>1, Zenon
  <2>3. ~padded' => width = 1
    BY <2>1, Zenon
  <2> QED
    BY <2>2, <2>3 DEF PadsOn
<1> HIDE DEF t, n
<1>9. PICK at2, around2, size2, wide2 :
         Forwards(n + 1, Append(script, [op |-> "begin", bytes |-> tag]), buf \o (tag \o w),
                  Append(tacks, t), Append(tags, tag), padded', at2, around2, size2, wide2)
  <2>1. Len(script) = n
    BY DEF n
  <2> QED
    BY <1>4, <1>5, <1>6, <1>8, <2>1, BeginForwards
<1>10. Len(script') = n + 1
  BY <1>2, <1>5, AppendFacts DEF n
<1> HIDE DEF w
<1>11. Forwards(Len(script'), script', buf', tacks', tags', padded', at2, around2, size2, wide2)
  BY <1>2, <1>7, <1>9, <1>10
<1>12. Ghost(at2, around2, size2, wide2)'
  BY <1>2, <1>11 DEF Ghost
<1>13. MirrorFresh'
  BY <1>2 DEF AgreeInv, MirrorFresh
<1> QED
  BY <1>12, <1>13

\* A message ends: its length is patched in, or pushes its payload away.
LEMMA EndAgrees ==
    ASSUME AgreeInv, WriteEnd
    PROVE  MirrorFresh' /\ \E at, around, size, wide : Ghost(at, around, size, wide)'
<1>1. /\ mode = "running" /\ FP!Drop
      /\ script' = Append(script, [op |-> "end", bytes |-> Last(tags)])
      /\ tags' = Front(tags) /\ padded' = padded
      /\ backing' = backing /\ pos' = pos /\ msgs' = msgs /\ rmode' = rmode
  BY SameDrop DEF WriteEnd, Record, rvars
<1>2. FP!CloseInPlace \/ FP!CloseOverflow
  BY <1>1 DEF FP!Drop, FP!CloseExhausted, FP!Fits
<1>3. mode' = "running"
  <2>1. FP!Unstack
    BY <1>2 DEF FP!CloseInPlace, FP!CloseOverflow
  <2> QED
    BY <1>1, <2>1 DEF FP!Unstack
<1> DEFINE t == FP!Last(tacks)
           w == FP!PatchWidth(t)
           q == Len(tacks)
           size0 == Len(buf) - t.start
           prefix == FP!write_wide_varint(w, size0)
<1>4. /\ tacks # << >> /\ tacks' = FP!Front(tacks) /\ buf \in Seq(FP!Byte)
      /\ t = tacks[q] /\ q \in 1..q
      /\ t \in FP!Tack /\ t.width <= t.start /\ t.start <= Len(buf)
      /\ w \in Nat /\ w >= t.width
      /\ FP!Spliced(buf, buf', t.start - t.width, t.start, prefix)
  BY <1>2, FP!CloseSplices, ForwardAssumptions DEF AgreeInv
<1>5. Spliced(buf, buf', t.start - t.width, t.start, write_wide_varint(w, size0))
  <2>1. prefix = write_wide_varint(w, size0)
    BY SameForwardVarint
  <2> HIDE DEF t, w, size0, prefix
  <2> QED
    BY <1>4, <2>1 DEF FP!Spliced, Spliced
<1>6. w = IF t.width > encoded_len_varint(size0) THEN t.width ELSE encoded_len_varint(size0)
  <2>1. FP!encoded_len_varint(FP!DataLen(t)) = encoded_len_varint(size0)
    BY SameForwardVarint DEF FP!DataLen
  <2> QED
    BY <2>1 DEF FP!PatchWidth
<1> HIDE DEF w
<1>7. t.width \in Nat /\ encoded_len_varint(size0) \in Nat /\ encoded_len_varint(size0) >= 1
  <2>1. t.width \in Nat
    BY <1>4 DEF FP!Tack
  <2>2. encoded_len_varint(size0) \in Nat /\ encoded_len_varint(size0) >= 1
    BY EncodedLenType, VarintAssumption
  <2> QED
    BY <2>1, <2>2
<1>8. Patches(w, t.width, size0)
  <2> DEFINE e == encoded_len_varint(size0)
             x == t.width
  <2>1. w = (IF x > e THEN x ELSE e) /\ x \in Nat /\ e \in Nat /\ e >= 1
    BY <1>6, <1>7
  <2> HIDE DEF e, x
  <2>2. w - x \in Nat /\ w >= e /\ (x = 1 => w = e)
    BY <2>1
  <2> QED
    BY <2>2 DEF Patches, e, x
<1>9. PICK at, around, size, wide : Ghost(at, around, size, wide)
  BY DEF AgreeInv
<1> DEFINE n == Len(script)
<1>10. Forwards(n, script, buf, tacks, tags, padded, at, around, size, wide)
  BY <1>1, <1>9 DEF Ghost
<1>11. /\ n \in Nat /\ IsSeq(script) /\ IsSeq(buf) /\ IsSeq(tacks) /\ IsSeq(tags)
       /\ Len(tags) = q /\ IsSeq(tags[q])
  <2>1. tags \in Seq(Tags) /\ Len(tags) = Len(tacks)
    BY <1>1 DEF AgreeInv, IInv, CallsOK
  <2>2. tags[q] \in Tags
    BY <1>4, <2>1
  <2>3. tags[q] \in Seq(Byte)
    BY <2>2, BothAssumption
  <2>4. IsSeq(tags)
    BY <2>1, SeqOverSet
  <2>5. IsSeq(tags[q])
    BY <2>3, SeqOverSet
  <2>6. n \in Nat /\ IsSeq(script) /\ IsSeq(buf) /\ IsSeq(tacks)
    BY AgreeTypes
  <2> HIDE DEF n
  <2> QED
    BY <2>1, <2>4, <2>5, <2>6
<1>12. IsSeq(buf')
  <2>1. FP!IInv'
    BY <1>2, FP!CloseKeeps, ForwardAssumptions DEF AgreeInv
  <2>2. buf' \in Seq(FP!Byte)
    BY <2>1 DEF FP!IInv, FP!TypeOK
  <2> QED
    BY <2>2, SeqOverSet
<1> HIDE DEF t, n, size0
<1>13. PICK at1, size1, wide1 :
          Lengthened(n, q, script, buf', tacks, tags, padded, at1, around, size1, wide1)
  <2>1. size0 = Len(buf) - t.start
    BY DEF size0
  <2> QED
    BY <1>4, <1>5, <1>8, <1>10, <1>11, <1>12, <2>1, LengthForwards
<1>14. PICK at2, around2, size2, wide2 :
          Forwards(n + 1, Append(script, [op |-> "end", bytes |-> tags[q]]), buf',
                   Front(tacks), Front(tags), padded, at2, around2, size2, wide2)
  <2>1. Len(script) = n
    BY DEF n
  <2> QED
    BY <1>4, <1>11, <1>12, <1>13, <2>1, EndForwards
<1>15. Last(tags) = tags[q] /\ tacks' = Front(tacks)
  BY <1>4, <1>11, SameEndsForward DEF Last
<1>16. Len(script') = n + 1
  BY <1>1, <1>11, AppendFacts DEF n
<1>17. Forwards(Len(script'), script', buf', tacks', tags', padded', at2, around2, size2, wide2)
  BY <1>1, <1>14, <1>15, <1>16
<1>18. Ghost(at2, around2, size2, wide2)'
  BY <1>3, <1>17 DEF Ghost
<1>19. MirrorFresh'
  BY <1>1, <1>3 DEF AgreeInv, MirrorFresh
<1> QED
  BY <1>18, <1>19

\* What neither writer touches stays mirrored.
LEMMA StillAgrees ==
    ASSUME AgreeInv, UNCHANGED vars
    PROVE  MirrorFresh' /\ \E at, around, size, wide : Ghost(at, around, size, wide)'
<1>1. PICK at, around, size, wide : Ghost(at, around, size, wide)
  BY DEF AgreeInv
<1>2. Ghost(at, around, size, wide)'
  BY <1>1 DEF Ghost, vars
<1>3. MirrorFresh'
  BY DEF AgreeInv, MirrorFresh, vars
<1> QED
  BY <1>2, <1>3

\* The forward writer has returned: the last call's end is the end of the buffer.
LEMMA DoneAgrees ==
    ASSUME AgreeInv, WriteDone
    PROVE  MirrorFresh' /\ \E at, around, size, wide : Ghost(at, around, size, wide)'
<1>1. /\ mode = "running" /\ tacks = << >> /\ mode' = "done" /\ buf' = buf
      /\ script' = script /\ padded' = padded
      /\ backing' = backing /\ pos' = pos /\ msgs' = msgs /\ rmode' = rmode
  BY DEF WriteDone, F!Finish, rvars
<1>2. PICK at, around, size, wide : Ghost(at, around, size, wide)
  BY DEF AgreeInv
<1> DEFINE n == Len(script)
<1>3. Forwards(n, script, buf, tacks, tags, padded, at, around, size, wide)
  BY <1>1, <1>2 DEF Ghost
<1>4. n \in Nat /\ IsSeq(buf) /\ Len(buf) \in Nat
  BY AgreeTypes, SeqFacts
<1>5. pos = RevCapacity /\ msgs = << >> /\ rmode = "running"
  BY <1>1 DEF AgreeInv, MirrorFresh
<1>6. backing \in [1..RevCapacity -> Byte] /\ RevCapacity \in Nat
  BY SameByte, BothAssumption DEF AgreeInv, IInv, RevOK, R!TypeOK
<1> HIDE DEF n
<1>7. Laid(n, script, buf, at, around, size, wide) /\ at[n] = Len(buf)
  BY <1>3 DEF Forwards
<1>8. Len(around[n]) = 0 /\ Len(msgs) = 0
  <2>1. Len(tacks) = 0 /\ Len(msgs) = 0
    BY <1>1, <1>5
  <2> QED
    BY <1>3, <2>1 DEF Forwards
<1>9. FitAll(n, script, padded, size, wide)
  <2>1. ASSUME NEW k \in 1..n, script[k].op = "begin"
        PROVE  Fitting(k, padded, size, wide)
    BY <1>3, <1>8, <2>1 DEF Forwards, Finished
  <2> QED
    BY <2>1 DEF FitAll
<1>10. MirrorLens(n, buf, pos, msgs, at, around, size)
  <2>1. RevCapacity - pos <= Len(buf) - at[n]
    BY <1>4, <1>5, <1>6, <1>7
  <2> QED
    BY <1>8, <2>1 DEF MirrorLens
<1>11. MirrorExact(n, buf, backing, pos, msgs, at, around, size)
  <2> DEFINE end == Len(buf)
  <2>1. RevCapacity - pos = 0 /\ end - end = 0
    BY <1>4, <1>5, <1>6
  <2>2. Body(backing, 0, 0) = << >>
    <3>1. 0 \in 0..RevCapacity /\ 0 <= 0
      BY <1>6
    <3>2. Body(backing, 0, 0) \in Seq(Byte) /\ Len(Body(backing, 0, 0)) = 0 - 0
      BY <1>6, <3>1, BodyFacts
    <3> QED
      BY <3>2, EmptySeq
  <2>3. Piece(buf, end, end) = << >>
    <3>1. end \in Nat /\ end <= Len(buf)
      BY <1>4
    <3> HIDE DEF end
    <3> QED
      BY <1>4, <3>1, EmptyPiece
  <2>4. at[n] = end
    BY <1>7
  <2>5. Body(backing, 0, RevCapacity - pos) = Piece(buf, at[n], Len(buf))
    BY <2>1, <2>2, <2>3, <2>4
  <2>6. RevCapacity - pos = Len(buf) - at[n]
    BY <2>1, <2>4
  <2>7. \A q \in 1..Len(msgs) : msgs[q].before = Len(buf) - (at[around[n][q]] + size[around[n][q]])
    BY <1>8
  <2> QED
    BY <2>5, <2>6, <2>7 DEF MirrorExact
<1>12. Mirrored(n, script, buf, backing, pos, msgs, padded, at, around, size, wide)
  <2>1. \A q \in 1..Len(msgs) : msgs[q].tag = script[around[n][q]].bytes
    BY <1>8
  <2> QED
    BY <1>7, <1>8, <1>9, <1>10, <1>11, <2>1 DEF Mirrored
<1>13. Mirrored(Len(script'), script', buf', backing', pos', msgs', padded', at, around, size, wide)
  BY <1>1, <1>12 DEF n
<1>14. Ghost(at, around, size, wide)'
  BY <1>1, <1>13 DEF Ghost
<1>15. MirrorFresh'
  BY <1>1, <1>5 DEF MirrorFresh
<1> QED
  BY <1>14, <1>15

\* A forward writer that panics is not mirrored.
LEMMA PanicAgrees ==
    ASSUME AgreeInv, WritePanics \/ Unwind
    PROVE  MirrorFresh' /\ \E at, around, size, wide : Ghost(at, around, size, wide)'
<1>1. mode # "done" /\ mode' # "done" /\ mode' # "running"
  <2>1. CASE WritePanics
    BY <2>1 DEF WritePanics, F!ClosurePanics, F!Panic
  <2>2. CASE Unwind
    BY <2>2 DEF Unwind, F!Drop, F!CloseInPlace, F!CloseOverflow, F!CloseExhausted, F!Unstack
  <2> QED
    BY <2>1, <2>2
<1>2. backing' = backing /\ pos' = pos /\ msgs' = msgs /\ rmode' = rmode
  BY DEF WritePanics, Unwind, rvars
<1>3. MirrorFresh'
  BY <1>1, <1>2 DEF AgreeInv, MirrorFresh
<1>4. \A at, around, size, wide : Ghost(at, around, size, wide)'
  BY <1>1 DEF Ghost
<1> QED
  BY <1>3, <1>4

\* Nor is a mirrored program that has panicked followed any further.
LEMMA MirrorPanicAgrees ==
    ASSUME AgreeInv, mode = "done", mode' = mode, rmode' = "panicked"
    PROVE  MirrorFresh' /\ \E at, around, size, wide : Ghost(at, around, size, wide)'
<1>1. MirrorFresh'
  BY DEF MirrorFresh
<1>2. \A at, around, size, wide : Ghost(at, around, size, wide)'
  BY DEF Ghost
<1> QED
  BY <1>1, <1>2

LEMMA MirrorDoneAgrees ==
    ASSUME AgreeInv, MirrorDone
    PROVE  MirrorFresh' /\ \E at, around, size, wide : Ghost(at, around, size, wide)'
<1>1. /\ mode = "done" /\ script = << >> /\ rmode = "running" /\ rmode' = "done"
      /\ mode' = mode /\ buf' = buf /\ script' = script /\ padded' = padded
      /\ backing' = backing /\ pos' = pos /\ msgs' = msgs
  BY DEF MirrorDone, R!Finish, fvars
<1>2. PICK at, around, size, wide : Ghost(at, around, size, wide)
  BY DEF AgreeInv
<1>3. Ghost(at, around, size, wide)'
  BY <1>1, <1>2 DEF Ghost
<1>4. MirrorFresh'
  BY <1>1 DEF MirrorFresh
<1> QED
  BY <1>3, <1>4

-----------------------------------------------------------------------------
\* What a mirrored call starts from.
LEMMA CalledFacts ==
    ASSUME AgreeInv, NEW op, Called(op)
    PROVE  /\ mode = "done" /\ mode' = mode /\ buf' = buf /\ padded' = padded /\ tags' = tags
           /\ rmode = "running" /\ script' = Front(script) /\ NextCall.op = op
           /\ IsSeq(script) /\ IsSeq(buf) /\ Len(script) \in Nat /\ Len(script) - 1 \in Nat
           /\ Len(script') = Len(script) - 1
           /\ NextCall = script[Len(script)]
           /\ NextCall.bytes \in Seq(Byte)
           /\ (NextCall.bytes \in IF op = "put" THEN Chunks ELSE Tags)
<1>1. /\ mode = "done" /\ mode' = mode /\ buf' = buf /\ padded' = padded /\ tags' = tags
      /\ rmode = "running" /\ script' = Front(script) /\ NextCall.op = op /\ script # << >>
  BY DEF Called, Mirroring, fvars
<1>2. IsSeq(script) /\ IsSeq(buf) /\ Len(script) \in Nat /\ Len(script) # 0
  BY <1>1, AgreeTypes
<1>3. Len(Front(script)) = Len(script) - 1
  BY <1>1, <1>2, FrontFacts
<1>4. NextCall = script[Len(script)]
  BY DEF NextCall, Last
<1>5. NextCall.bytes \in IF op = "put" THEN Chunks ELSE Tags
  BY MirroredCall DEF AgreeInv
<1>6. NextCall.bytes \in Seq(Byte)
  BY <1>5, BothAssumption
<1> QED
  BY <1>1, <1>2, <1>3, <1>4, <1>5, <1>6

\* What is mirrored before a call.
LEMMA CalledGhost ==
    ASSUME AgreeInv, NEW op, Called(op)
    PROVE  \E at, around, size, wide :
              Mirrored(Len(script), script, buf, backing, pos, msgs, padded, at, around, size, wide)
<1>1. mode = "done" /\ rmode = "running"
  BY DEF Called, Mirroring
<1> QED
  BY <1>1 DEF AgreeInv, Ghost

\* What is mirrored behind it.
LEMMA CalledAgrees ==
    ASSUME AgreeInv, NEW op, Called(op), rmode' = rmode,
           NEW m \in Nat, Len(script) - 1 = m,
           NEW at, NEW around, NEW size, NEW wide,
           Mirrored(m, Front(script), buf, backing', pos', msgs', padded, at, around, size, wide)
    PROVE  MirrorFresh' /\ Ghost(at, around, size, wide)'
<1>1. /\ mode = "done" /\ mode' = mode /\ buf' = buf /\ padded' = padded
      /\ rmode = "running" /\ script' = Front(script) /\ Len(script') = m
  BY CalledFacts
<1>2. Ghost(at, around, size, wide)'
  BY <1>1 DEF Ghost
<1>3. MirrorFresh'
  BY <1>1 DEF MirrorFresh
<1> QED
  BY <1>2, <1>3

\* A call's bytes are written in front of what follows it.
LEMMA MirrorPutAgrees ==
    ASSUME AgreeInv, Called("put"), R!Put(NextCall.bytes)
    PROVE  MirrorFresh' /\ \E at, around, size, wide : Ghost(at, around, size, wide)'
<1>1. PICK at, around, size, wide :
         Mirrored(Len(script), script, buf, backing, pos, msgs, padded, at, around, size, wide)
  BY CalledGhost
<1> DEFINE n == Len(script)
           m == n - 1
           bytes == NextCall.bytes
<1>2. /\ n \in Nat /\ m \in Nat /\ n - 1 = m /\ Len(script) = n /\ IsSeq(script) /\ IsSeq(buf)
      /\ NextCall = script[n] /\ script[n].op = "put" /\ bytes \in Seq(Byte)
  BY CalledFacts
<1>3. R!Prepend(bytes) /\ msgs' = msgs /\ rmode' = rmode /\ RevOK
  BY DEF R!Put, AgreeInv, IInv
<1>4. bytes = script[n].bytes
  BY <1>2
<1> HIDE DEF n, m, bytes
<1>5. Mirrored(n, script, buf, backing, pos, msgs, padded, at, around, size, wide)
  BY <1>1 DEF n
<1>6. /\ Stands(script[n].bytes, buf, at[m], at[n])
      /\ Len(script[n].bytes) = at[n] - at[m]
      /\ around[n] = around[m]
  <2>1. Laid(n, script, buf, at, around, size, wide)
    BY <1>5 DEF Mirrored
  <2> QED
    BY <1>2, <2>1, PutStands
<1>7. /\ at[m] \in Nat /\ at[n] \in Nat /\ IsSeq(around[n])
  BY <1>2, <1>5, CallAt DEF Mirrored
<1>8. Len(bytes) <= at[n] - at[m]
  BY <1>4, <1>6, <1>7
<1>9. Len(msgs) = Len(around[m]) /\ StayOpen(n, m, msgs, msgs, around)
  <2>1. Len(msgs) = Len(around[n]) /\ Len(around[n]) \in Nat
    BY <1>5, <1>7, SeqFacts DEF Mirrored
  <2> QED
    BY <1>6, <2>1 DEF StayOpen
<1>10. padded \/ Stands(bytes, buf, at[m], at[n])
  BY <1>4, <1>6
<1>11. Mirrored(m, Front(script), buf, backing', pos', msgs, padded, at, around, size, wide)
  BY <1>2, <1>3, <1>5, <1>8, <1>9, <1>10, MirrorsOn
<1>12. Mirrored(m, Front(script), buf, backing', pos', msgs', padded, at, around, size, wide)
  BY <1>3, <1>11
<1>13. Len(script) - 1 = m
  BY DEF m, n
<1> QED
  BY <1>2, <1>3, <1>12, <1>13, CalledAgrees

\* A message's header is written in front of its payload.
LEMMA MirrorBeginAgrees ==
    ASSUME AgreeInv, Called("begin"), R!EndMsg
    PROVE  MirrorFresh' /\ \E at, around, size, wide : Ghost(at, around, size, wide)'
<1>1. PICK at, around, size, wide :
         Mirrored(Len(script), script, buf, backing, pos, msgs, padded, at, around, size, wide)
  BY CalledGhost
<1> DEFINE n == Len(script)
           m == n - 1
           bytes == R!Header(Last(msgs))
           ms2 == Front(msgs)
<1>2. /\ n \in Nat /\ m \in Nat /\ n - 1 = m /\ Len(script) = n /\ IsSeq(script) /\ IsSeq(buf)
      /\ script[n].op = "begin" /\ script[n].bytes \in Seq(Byte)
  BY CalledFacts
<1>3. R!Prepend(bytes) /\ msgs' = ms2 /\ msgs # << >> /\ rmode' = rmode /\ RevOK
  BY SameEnds DEF R!EndMsg, AgreeInv, IInv
<1>4. bytes \in Seq(Byte)
  BY <1>3, HeaderType, SameEnds DEF AgreeInv
<1>5. IsSeq(script[n].bytes)
  BY <1>2, SeqOverSet
<1> HIDE DEF n, m
<1>6. Mirrored(n, script, buf, backing, pos, msgs, padded, at, around, size, wide)
  BY <1>1 DEF n
<1>7. /\ Len(bytes) <= at[n] - at[m]
      /\ padded \/ Stands(bytes, buf, at[m], at[n])
      /\ Len(msgs) \in Nat \ {0} /\ around[n] = Append(around[m], n)
  BY <1>2, <1>3, <1>5, <1>6, HeaderStands
<1>8. IsSeq(around[m]) /\ IsSeq(around[n])
  BY <1>2, <1>6, CallAt DEF Mirrored
<1>9. /\ IsSeq(ms2) /\ Len(ms2) = Len(msgs) - 1
      /\ \A q \in 1..(Len(msgs) - 1) : ms2[q] = msgs[q]
  <2>1. IsSeq(msgs)
    <3>1. R!TypeOK
      BY <1>3 DEF RevOK
    <3> QED
      BY <3>1, SeqOverSet DEF R!TypeOK
  <2>2. IsSeq(ms2) /\ Len(ms2) = Len(msgs) - 1 /\ \A i \in DOMAIN ms2 : ms2[i] = msgs[i]
    BY <1>3, <2>1, FrontFacts
  <2>3. DOMAIN ms2 = 1..Len(ms2)
    BY <2>2, SeqFacts
  <2> QED
    BY <2>2, <2>3
<1>10. Len(around[n]) = Len(around[m]) + 1 /\ Len(msgs) = Len(around[n]) /\ Len(around[m]) \in Nat
       /\ \A q \in 1..Len(around[m]) : around[n][q] = around[m][q]
  BY <1>6, <1>7, <1>8, AppendFacts, SeqFacts DEF Mirrored
<1> HIDE DEF bytes, ms2
<1>11. Len(ms2) = Len(around[m]) /\ StayOpen(n, m, msgs, ms2, around)
  BY <1>7, <1>9, <1>10 DEF StayOpen
<1>12. Mirrored(m, Front(script), buf, backing', pos', ms2, padded, at, around, size, wide)
  BY <1>2, <1>3, <1>4, <1>6, <1>7, <1>11, MirrorsOn
<1>13. Mirrored(m, Front(script), buf, backing', pos', msgs', padded, at, around, size, wide)
  BY <1>3, <1>12
<1>14. Len(script) - 1 = m
  BY DEF m, n
<1> QED
  BY <1>2, <1>3, <1>13, <1>14, CalledAgrees

\* A message's end writes nothing: the mirrored program remembers where its payload ends.
LEMMA EndMirrored ==
    ASSUME RevOK, NEW n \in Nat, NEW m \in Nat, n - 1 = m, NEW sc, IsSeq(sc), Len(sc) = n,
           sc[n].op = "end",
           NEW b, IsSeq(b), NEW at, NEW around, NEW size, NEW wide, NEW pd,
           Mirrored(n, sc, b, backing, pos, msgs, pd, at, around, size, wide)
    PROVE  Mirrored(m, Front(sc), b, backing, pos,
                    Append(msgs, [before |-> RevCapacity - pos, tag |-> sc[n].bytes]),
                    pd, at, around, size, wide)
<1> DEFINE mark == [before |-> RevCapacity - pos, tag |-> sc[n].bytes]
           ms2 == Append(msgs, mark)
           i == Last(around[m])
           r == Len(around[m])
           written == RevCapacity - pos
           end == Len(b)
<1>1. /\ Laid(n, sc, b, at, around, size, wide)
      /\ Len(msgs) = Len(around[n])
      /\ \A q \in 1..Len(msgs) : msgs[q].tag = sc[around[n][q]].bytes
      /\ FitAll(n, sc, pd, size, wide)
      /\ MirrorLens(n, b, pos, msgs, at, around, size)
  BY DEF Mirrored
<1>2. /\ at[m] \in Nat /\ at[n] \in Nat /\ n \in 1..n /\ m \in 0..n
      /\ IsSeq(around[m]) /\ IsSeq(around[n])
  BY <1>1, CallAt
<1>3. /\ around[m] # << >> /\ around[n] = Front(around[m])
      /\ at[n] = at[m] /\ at[n] = at[i] + size[i] /\ sc[n].bytes = sc[i].bytes
  <2>1. EndSpan(n, sc, at, around, size)
    BY <1>1, <1>2 DEF Laid, Span
  <2>2. n - 1 = m
    OBVIOUS
  <2> QED
    BY <2>1, <2>2, Zenon DEF EndSpan
<1>4. /\ i = around[m][r] /\ r \in Nat /\ Len(around[n]) = r - 1 /\ r \in 1..r
      /\ \A q \in 1..(r - 1) : around[n][q] = around[m][q]
  <2>1. Len(around[n]) = r - 1 /\ \A q \in DOMAIN around[n] : around[n][q] = around[m][q]
    BY <1>2, <1>3, FrontFacts
  <2>2. DOMAIN around[n] = 1..(r - 1) /\ r - 1 \in Nat /\ r \in Nat
    BY <1>2, <2>1, SeqFacts
  <2>3. r \in 1..r
    BY <2>2
  <2> QED
    BY <2>1, <2>2, <2>3 DEF Last
<1>5. /\ Laid(m, Front(sc), b, at, around, size, wide)
      /\ FitAll(m, Front(sc), pd, size, wide)
      /\ \A k \in 1..m : Front(sc)[k] = sc[k]
  BY <1>1, CallsLeft
<1> HIDE DEF i, r, mark, written, end
<1>6. /\ Len(msgs) = r - 1 /\ Len(ms2) = r
      /\ \A q \in 1..(r - 1) : ms2[q] = msgs[q]
      /\ ms2[r] = mark
  <2>1. IsSeq(msgs)
    BY SeqOverSet DEF RevOK, R!TypeOK
  <2>2. /\ Len(ms2) = Len(msgs) + 1
        /\ \A q \in 1..Len(msgs) : ms2[q] = msgs[q]
        /\ ms2[Len(msgs) + 1] = mark
    BY <2>1, AppendFacts
  <2>3. Len(msgs) = r - 1 /\ (r - 1) + 1 = r
    BY <1>1, <1>4
  <2> QED
    BY <2>2, <2>3
<1> HIDE DEF ms2
<1>7. \A q \in 1..r : around[m][q] \in 1..m
  <2>1. m \in 0..m
    OBVIOUS
  <2> QED
    BY <1>5, <2>1 DEF Laid, Stacked, r
<1>8. mark.before = written /\ mark.tag = sc[n].bytes
  BY DEF mark, written
<1>9. ASSUME NEW q \in 1..Len(ms2)
      PROVE  ms2[q].tag = Front(sc)[around[m][q]].bytes
  <2>1. q \in 1..r /\ Front(sc)[around[m][q]] = sc[around[m][q]]
    BY <1>5, <1>6, <1>7
  <2>2. CASE q = r
    BY <1>3, <1>4, <1>6, <1>8, <2>1, <2>2
  <2>3. CASE q # r
    <3>1. q \in 1..(r - 1)
      BY <1>4, <2>1, <2>3
    <3> QED
      BY <1>1, <1>4, <1>6, <2>1, <3>1
  <2> QED
    BY <2>2, <2>3
<1>10. MirrorLens(m, b, pos, ms2, at, around, size)
  <2>1. RevCapacity - pos <= Len(b) - at[m]
    BY <1>1, <1>3 DEF MirrorLens
  <2>2. ASSUME NEW q \in 1..Len(ms2)
        PROVE  written - ms2[q].before <= (at[around[m][q]] + size[around[m][q]]) - at[m]
    <3>1. CASE q = r
      <4>1. ms2[q].before = written /\ around[m][q] = i
        BY <1>4, <1>6, <1>8, <3>1
      <4>2. (at[i] + size[i]) - at[m] = 0
        <5> DEFINE x == at[i] + size[i]
        <5>1. x = at[m] /\ at[m] \in Nat
          BY <1>2, <1>3
        <5> HIDE DEF x
        <5>2. x - at[m] = 0
          BY <5>1
        <5> QED
          BY <5>2 DEF x
      <4>3. written - written = 0
        <5>1. written \in Int
          BY BothAssumption DEF RevOK, R!TypeOK, written
        <5> QED
          BY <5>1
      <4> QED
        BY <4>1, <4>2, <4>3
    <3>2. CASE q # r
      <4>1. q \in 1..(r - 1)
        BY <1>4, <1>6, <3>2
      <4>2. q \in 1..Len(msgs) /\ ms2[q] = msgs[q] /\ around[n][q] = around[m][q]
        BY <1>4, <1>6, <4>1
      <4>3. written - msgs[q].before <= (at[around[n][q]] + size[around[n][q]]) - at[n]
        BY <1>1, <4>2 DEF MirrorLens, written
      <4> QED
        BY <1>3, <4>2, <4>3
    <3> QED
      BY <3>1, <3>2
  <2> QED
    BY <2>1, <2>2 DEF MirrorLens, written
<1>11. ASSUME ~pd
       PROVE  MirrorExact(m, b, backing, pos, ms2, at, around, size)
  <2>1. MirrorExact(n, b, backing, pos, msgs, at, around, size)
    BY <1>11 DEF Mirrored
  <2>2. /\ Body(backing, 0, RevCapacity - pos) = Piece(b, at[m], Len(b))
        /\ RevCapacity - pos = Len(b) - at[m]
    BY <1>3, <2>1 DEF MirrorExact
  <2>3. ASSUME NEW q \in 1..Len(ms2)
        PROVE  ms2[q].before = Len(b) - (at[around[m][q]] + size[around[m][q]])
    <3>1. CASE q = r
      BY <1>3, <1>4, <1>6, <1>8, <2>2, <3>1 DEF written
    <3>2. CASE q # r
      <4>1. q \in 1..(r - 1)
        BY <1>4, <1>6, <3>2
      <4> QED
        BY <1>4, <1>6, <2>1, <4>1 DEF MirrorExact
    <3> QED
      BY <3>1, <3>2
  <2> QED
    BY <2>2, <2>3 DEF MirrorExact
<1>12. Len(ms2) = Len(around[m])
  BY <1>6 DEF r
<1>13. Mirrored(m, Front(sc), b, backing, pos, ms2, pd, at, around, size, wide)
  BY <1>5, <1>9, <1>10, <1>11, <1>12 DEF Mirrored
<1> QED
  BY <1>13 DEF ms2, mark

LEMMA MirrorEndAgrees ==
    ASSUME AgreeInv, MirrorEnd
    PROVE  MirrorFresh' /\ \E at, around, size, wide : Ghost(at, around, size, wide)'
<1>0. Called("end") /\ R!BeginMsg(NextCall.bytes)
  BY DEF MirrorEnd
<1>1. PICK at, around, size, wide :
         Mirrored(Len(script), script, buf, backing, pos, msgs, padded, at, around, size, wide)
  BY <1>0, CalledGhost
<1> DEFINE n == Len(script)
           m == n - 1
<1>2. /\ n \in Nat /\ m \in Nat /\ n - 1 = m /\ Len(script) = n /\ IsSeq(script) /\ IsSeq(buf)
      /\ script[n].op = "end" /\ NextCall = script[n]
  BY <1>0, CalledFacts
<1>3. /\ msgs' = Append(msgs, [before |-> RevCapacity - pos, tag |-> script[n].bytes])
      /\ backing' = backing /\ pos' = pos /\ rmode' = rmode /\ RevOK
  BY <1>0, <1>2 DEF R!BeginMsg, R!WrittenLen, AgreeInv, IInv
<1> HIDE DEF n, m
<1>4. Mirrored(n, script, buf, backing, pos, msgs, padded, at, around, size, wide)
  BY <1>1 DEF n
<1>5. Mirrored(m, Front(script), buf, backing, pos,
               Append(msgs, [before |-> RevCapacity - pos, tag |-> script[n].bytes]),
               padded, at, around, size, wide)
  BY <1>2, <1>3, <1>4, EndMirrored
<1>6. Mirrored(m, Front(script), buf, backing', pos', msgs', padded, at, around, size, wide)
  BY <1>3, <1>5
<1>7. Len(script) - 1 = m
  BY DEF m, n
<1> QED
  BY <1>0, <1>2, <1>3, <1>6, <1>7, CalledAgrees

LEMMA AgreeInit ==
    ASSUME F!StartFits
    PROVE  Init => AgreeInv
<1> SUFFICES ASSUME Init
             PROVE  AgreeInv
  OBVIOUS
<1>1. IInv /\ FP!IInv
  BY InitInv, ForwardInit, ForwardAssumptions, FP!InitIInv
<1>2. /\ mode = "running" /\ buf = << >> /\ tacks = << >> /\ tags = << >> /\ script = << >>
      /\ pos = RevCapacity /\ msgs = << >> /\ rmode = "running"
  BY DEF Init, F!Init, R!Init
<1>3. MirrorFresh
  BY <1>2 DEF MirrorFresh
<1> DEFINE at == [k \in 0..0 |-> 0]
           around == [k \in 0..0 |-> << >>]
<1>4. at[0] = 0 /\ around[0] = << >> /\ IsSeq(<< >>) /\ Len(<< >>) = 0
  <2>1. << >> \in Seq(Nat) /\ Len(<< >>) = 0
    OBVIOUS
  <2>2. IsSeq(<< >>)
    BY <2>1, SeqOverSet
  <2>3. at[0] = 0 /\ around[0] = << >>
    OBVIOUS
  <2> QED
    BY <2>1, <2>2, <2>3
<1> HIDE DEF at, around
<1>5. \A k \in 0..0 : k = 0
  OBVIOUS
<1>6. 1..0 = {}
  OBVIOUS
<1>7. Stacked(0, script, around)
  BY <1>4, <1>5, <1>6 DEF Stacked
<1>8. Rising(0, buf, at)
  BY <1>2, <1>4, <1>5 DEF Rising
<1>9. Laid(0, script, buf, at, around, at, at)
  BY <1>6, <1>7, <1>8 DEF Laid
<1>10. Forwards(0, script, buf, tacks, tags, padded, at, around, at, at)
  BY <1>2, <1>4, <1>6, <1>9 DEF Forwards
<1>11. Ghost(at, around, at, at)
  <2>1. Len(script) = 0
    BY <1>2
  <2> QED
    BY <1>2, <1>10, <2>1 DEF Ghost
<1> QED
  BY <1>1, <1>3, <1>11 DEF AgreeInv

LEMMA AgreeStep ==
    ASSUME F!StartFits
    PROVE  AgreeInv /\ [Next]_vars => AgreeInv'
<1> SUFFICES ASSUME AgreeInv, [Next]_vars
             PROVE  AgreeInv'
  OBVIOUS
<1>1. IInv'
  BY StepInv DEF AgreeInv
<1>2. FP!IInv'
  <2>1. FP!StartFits
    BY DEF F!StartFits, FP!StartFits
  <2> QED
    BY <2>1, ForwardStep, ForwardAssumptions, FP!NextIInv DEF AgreeInv
<1>3. MirrorFresh' /\ \E at, around, size, wide : Ghost(at, around, size, wide)'
  <2>1. CASE UNCHANGED vars \/ Terminating
    BY <2>1, StillAgrees DEF Terminating
  <2>2. CASE WritePut \/ WriteBegin \/ WriteEnd
    BY <2>2, PutAgrees, BeginAgrees, EndAgrees
  <2>3. CASE WriteDone \/ WritePanics \/ Unwind
    BY <2>3, DoneAgrees, PanicAgrees
  <2>4. CASE MirrorPut
    <3>1. CASE R!Put(NextCall.bytes)
      BY <2>4, <3>1, MirrorPutAgrees DEF MirrorPut
    <3>2. CASE R!PutPanics(NextCall.bytes)
      <4>1. mode = "done" /\ mode' = mode /\ rmode' = "panicked"
        BY <2>4, <3>2 DEF MirrorPut, Called, Mirroring, fvars, R!PutPanics, R!Exhausted
      <4> QED
        BY <4>1, MirrorPanicAgrees
    <3> QED
      BY <2>4, <3>1, <3>2 DEF MirrorPut
  <2>5. CASE MirrorEnd
    BY <2>5, MirrorEndAgrees
  <2>6. CASE MirrorBegin
    <3>1. CASE R!EndMsg
      BY <2>6, <3>1, MirrorBeginAgrees DEF MirrorBegin
    <3>2. CASE R!EndMsgPanics
      <4>1. mode = "done" /\ mode' = mode /\ rmode' = "panicked"
        BY <2>6, <3>2 DEF MirrorBegin, Called, Mirroring, fvars, R!EndMsgPanics, R!Exhausted
      <4> QED
        BY <4>1, MirrorPanicAgrees
    <3> QED
      BY <2>6, <3>1, <3>2 DEF MirrorBegin
  <2>7. CASE MirrorPanics
    <3>1. mode = "done" /\ mode' = mode /\ rmode' = "panicked"
      BY <2>7 DEF MirrorPanics, Mirroring, fvars, R!ClosurePanics
    <3> QED
      BY <3>1, MirrorPanicAgrees
  <2>8. CASE MirrorDone
    BY <2>8, MirrorDoneAgrees
  <2> QED
    BY <2>1, <2>2, <2>3, <2>4, <2>5, <2>6, <2>7, <2>8 DEF Next
<1> QED
  BY <1>1, <1>2, <1>3 DEF AgreeInv

LEMMA AgreeInvariance ==
    ASSUME F!StartFits
    PROVE  Spec => []AgreeInv
<1>1. Init => AgreeInv
  BY AgreeInit
<1>2. AgreeInv /\ [Next]_vars => AgreeInv'
  BY AgreeStep
<1> QED
  BY <1>1, <1>2, PTL DEF Spec

\* When everything is mirrored.
LEMMA MirroredWhole == AgreeInv => SameBytes
<1> SUFFICES ASSUME AgreeInv, rmode = "done"
             PROVE  IF padded THEN Len(R!written) <= Len(buf) ELSE R!written = buf
  BY DEF SameBytes
<1>1. mode = "done" /\ script = << >> /\ Len(script) = 0
  <2>1. mode = "done" /\ script = << >>
    BY DEF AgreeInv, MirrorFresh
  <2> QED
    BY <2>1
<1>2. PICK at, around, size, wide :
         Mirrored(0, script, buf, backing, pos, msgs, padded, at, around, size, wide)
  <2>1. PICK at, around, size, wide : Ghost(at, around, size, wide)
    BY DEF AgreeInv
  <2> QED
    BY <1>1, <2>1 DEF Ghost
<1>3. IsSeq(buf) /\ Len(buf) \in Nat
  BY AgreeTypes, SeqFacts
<1>4. at[0] = 0 /\ RevCapacity - pos <= Len(buf) - at[0]
  BY <1>2 DEF Mirrored, Laid, Rising, MirrorLens
<1>5. /\ backing \in [1..RevCapacity -> Byte] /\ pos \in 0..RevCapacity /\ RevCapacity \in Nat
  BY SameByte, BothAssumption DEF AgreeInv, IInv, RevOK, R!TypeOK
<1>6. R!written = Body(backing, 0, RevCapacity - pos) /\ Len(R!written) = RevCapacity - pos
  <2> DEFINE k == RevCapacity - pos
  <2>1. k \in 0..RevCapacity /\ 0 \in 0..RevCapacity /\ 0 <= k /\ RevCapacity - k = pos
        /\ RevCapacity - 0 = RevCapacity /\ k - 0 = k
    BY <1>5
  <2> HIDE DEF k
  <2>2. Len(Body(backing, 0, k)) = k - 0
    BY <1>5, <2>1, BodyFacts
  <2>3. R!written = Body(backing, 0, k)
    BY <2>1 DEF R!written, Body
  <2> QED
    BY <2>1, <2>2, <2>3 DEF k
<1>7. Len(R!written) <= Len(buf)
  BY <1>3, <1>4, <1>5, <1>6
<1>8. ASSUME ~padded
      PROVE  R!written = buf
  <2>1. Body(backing, 0, RevCapacity - pos) = Piece(buf, 0, Len(buf))
    BY <1>2, <1>4, <1>8 DEF Mirrored, MirrorExact
  <2>2. Piece(buf, 0, Len(buf)) = buf
    <3> DEFINE n == Len(buf)
    <3>1. n \in Nat /\ 0 \in Nat /\ 0 <= n /\ n <= Len(buf) /\ Len(buf) = n - 0
          /\ \A i \in 1..(n - 0) : buf[0 + i] = buf[i]
      BY <1>3
    <3> HIDE DEF n
    <3> QED
      BY <1>3, <3>1, PieceIs
  <2> QED
    BY <1>6, <2>1, <2>2
<1> QED
  BY <1>7, <1>8

(***************************************************************************)
(* Written backwards, a program leaves byte for byte what it leaves        *)
(* written forwards; if a caller asked for a wider placeholder, no more    *)
(* (buf.rs RevBuf: "reproduces exactly the bytes"; tack.rs Tack).          *)
(***************************************************************************)
THEOREM SameMessage ==
    ASSUME F!StartFits
    PROVE  Spec => []SameBytes
BY AgreeInvariance, MirroredWhole, PTL

\* A call that did not fit.
LEMMA OutOfRoom ==
    ASSUME AgreeInv, [Next]_vars, rmode' = "panicked", script' # script
    PROVE  Len(buf) > RevCapacity
<1>1. \/ Called("put") /\ R!PutPanics(NextCall.bytes)
      \/ Called("begin") /\ R!EndMsgPanics
  <2>1. CASE UNCHANGED vars \/ Terminating \/ WriteDone \/ WritePanics \/ Unwind
             \/ MirrorPanics \/ MirrorDone
    BY <2>1 DEF Terminating, vars, WriteDone, WritePanics, Unwind, MirrorPanics, MirrorDone
  <2>2. CASE WritePut \/ WriteBegin \/ WriteEnd
    <3>1. mode = "running" /\ rmode' = rmode
      BY <2>2 DEF WritePut, WriteBegin, WriteEnd, F!Put, F!BeginMsg, rvars
    <3> QED
      BY <3>1 DEF AgreeInv, MirrorFresh
  <2>3. CASE MirrorEnd
    <3>1. rmode = "running" /\ rmode' = rmode
      BY <2>3 DEF MirrorEnd, Called, Mirroring, R!BeginMsg
    <3> QED
      BY <3>1
  <2>4. CASE MirrorPut
    <3>1. rmode = "running" /\ (R!Put(NextCall.bytes) => rmode' = rmode)
      BY <2>4 DEF MirrorPut, Called, Mirroring, R!Put
    <3> QED
      BY <2>4, <3>1 DEF MirrorPut
  <2>5. CASE MirrorBegin
    <3>1. rmode = "running" /\ (R!EndMsg => rmode' = rmode)
      BY <2>5 DEF MirrorBegin, Called, Mirroring, R!EndMsg
    <3> QED
      BY <2>5, <3>1 DEF MirrorBegin
  <2> QED
    BY <2>1, <2>2, <2>3, <2>4, <2>5 DEF Next
<1> DEFINE n == Len(script)
           m == n - 1
<1>2. PICK at, around, size, wide :
         Mirrored(n, script, buf, backing, pos, msgs, padded, at, around, size, wide)
  BY <1>1, CalledGhost
<1>3. /\ n \in Nat /\ m \in Nat /\ n - 1 = m /\ Len(script) = n /\ IsSeq(script) /\ IsSeq(buf)
      /\ NextCall = script[n] /\ NextCall.bytes \in Seq(Byte) /\ RevOK
  BY <1>1, CalledFacts DEF AgreeInv, IInv
<1> HIDE DEF n, m
<1>4. Laid(n, script, buf, at, around, size, wide) /\ MirrorLens(n, buf, pos, msgs, at, around, size)
  BY <1>2 DEF Mirrored
<1>5. at[m] \in Nat /\ at[n] \in Nat
  BY <1>3, <1>4, CallAt
<1>6. CASE Called("put") /\ R!PutPanics(NextCall.bytes)
  <2>1. script[n].op = "put"
    BY <1>3, <1>6 DEF Called
  <2>2. Len(script[n].bytes) = at[n] - at[m]
    BY <1>3, <1>4, <2>1, PutStands
  <2>3. pos < Len(script[n].bytes)
    BY <1>3, <1>6 DEF R!PutPanics, R!Exhausted
  <2> DEFINE len == Len(script[n].bytes)
  <2>4. len \in Nat /\ len <= at[n] - at[m] /\ pos < len
    BY <1>3, <1>5, <2>2, <2>3
  <2> HIDE DEF len
  <2> QED
    BY <1>3, <1>4, <2>4, NoRoom
<1>7. CASE Called("begin") /\ R!EndMsgPanics
  <2>1. script[n].op = "begin" /\ IsSeq(script[n].bytes)
    <3>1. script[n].bytes \in Seq(Byte) /\ script[n].op = "begin"
      BY <1>3, <1>7 DEF Called
    <3> QED
      BY <3>1, SeqOverSet
  <2>2. msgs # << >> /\ pos < Len(R!Header(Last(msgs)))
    BY <1>7, SameEnds DEF R!EndMsgPanics, R!Exhausted
  <2> DEFINE len == Len(R!Header(Last(msgs)))
  <2>3. len <= at[n] - at[m]
    BY <1>2, <1>3, <2>1, HeaderStands
  <2>4. len \in Nat
    BY <1>3, <2>2, HeaderType
  <2>5. pos < len
    BY <2>2
  <2> HIDE DEF len
  <2> QED
    BY <1>3, <1>4, <2>3, <2>4, <2>5, NoRoom
<1> QED
  BY <1>1, <1>6, <1>7

(***************************************************************************)
(* The reverse writer only runs out of room in a slice that is smaller     *)
(* than the message written forwards (buf.rs RevBuf::claim).               *)
(***************************************************************************)
THEOREM RoomFits ==
    ASSUME F!StartFits
    PROVE  Spec => RoomIsExact
<1>1. AgreeInv /\ [Next]_vars => [rmode' = "panicked" /\ script' # script => Len(buf) > RevCapacity]_vars
  BY OutOfRoom
<1> QED
  BY <1>1, AgreeInvariance, PTL DEF Spec, RoomIsExact
===============================================================================
