-------------------------- MODULE TackWriter_proofs --------------------------
(***************************************************************************)
(* Proofs about the forward writer, for every radix, capacity, nesting     *)
(* depth and set of chunks, tags and widths.                               *)
(***************************************************************************)
EXTENDS TackWriter, VarintLemmas, SequenceLemmas

-----------------------------------------------------------------------------
(* Storing and shifting bytes. *)

LEMMA ModSmall ==
    ASSUME NEW a \in Nat, NEW m \in Nat, a < m
    PROVE  a % m = a
OBVIOUS

\* Storing bytes inside the buffer keeps its length and what lies before them.
LEMMA PatchedProps ==
    ASSUME NEW b \in Seq(Byte), NEW lo \in Nat, NEW bytes \in Seq(Byte)
    PROVE  /\ Patched(b, lo, bytes) \in Seq(Byte)
           /\ Len(Patched(b, lo, bytes)) = Len(b)
           /\ \A i \in 1..Len(b) : i <= lo => Patched(b, lo, bytes)[i] = b[i]
<1>1. \A i \in 1..Len(b) : (IF i \in (lo + 1)..(lo + Len(bytes))
                            THEN bytes[i - lo] ELSE b[i]) \in Byte
  OBVIOUS
<1>2. Patched(b, lo, bytes) \in [1..Len(b) -> Byte]
  BY <1>1 DEF Patched
<1>3. \A i \in 1..Len(b) : i <= lo => Patched(b, lo, bytes)[i] = b[i]
  BY DEF Patched
<1> QED
  BY <1>2, <1>3

LEMMA CopyWithinProps ==
    ASSUME NEW b \in Seq(Byte), NEW lo \in Nat, NEW hi \in Nat, NEW dest \in Nat,
           lo <= hi, hi <= Len(b), lo <= dest
    PROVE  /\ copy_within(b, lo, hi, dest) \in Seq(Byte)
           /\ Len(copy_within(b, lo, hi, dest)) = Len(b)
           /\ \A i \in 1..Len(b) : i <= dest => copy_within(b, lo, hi, dest)[i] = b[i]
<1>1. \A i \in 1..Len(b) : (IF i \in (dest + 1)..(dest + hi - lo)
                            THEN b[i - dest + lo] ELSE b[i]) \in Byte
  <2> TAKE i \in 1..Len(b)
  <2>1. CASE i \in (dest + 1)..(dest + hi - lo)
    <3>1. i - dest + lo \in 1..Len(b)
      BY <2>1
    <3> QED
      BY <2>1, <3>1
  <2> QED
    BY <2>1
<1>2. copy_within(b, lo, hi, dest) \in [1..Len(b) -> Byte]
  BY <1>1 DEF copy_within
<1>3. \A i \in 1..Len(b) : i <= dest => copy_within(b, lo, hi, dest)[i] = b[i]
  BY DEF copy_within
<1> QED
  BY <1>2, <1>3
-----------------------------------------------------------------------------
(* Tack::close. *)

\* A well-placed Tack closes inside the buffer: the result is bytes, at least
\* as many as before, and everything before the placeholder is as it was.
LEMMA CloseInPlaceProps ==
    ASSUME NEW b \in Seq(Byte), NEW t \in Tack,
           t.width <= t.start, t.start <= Len(b)
    PROVE  LET r == Patched(b, t.start - t.width,
                            write_wide_varint(t.width, Len(b) - t.start))
           IN  /\ r \in Seq(Byte)
               /\ Len(r) = Len(b)
               /\ \A i \in 1..(t.start - t.width) : r[i] = b[i]
<1>1. t.width \in Nat /\ t.start \in Nat /\ Len(b) - t.start \in Nat
  BY DEF Tack
<1>2. write_wide_varint(t.width, Len(b) - t.start) \in Seq(Byte)
  BY <1>1, WideType
<1>3. t.start - t.width \in Nat /\ t.start - t.width <= Len(b)
  BY <1>1
<1>4. \A i \in 1..(t.start - t.width) : i \in 1..Len(b) /\ i <= t.start - t.width
  BY <1>1, <1>3
<1> QED
  BY <1>2, <1>3, <1>4, PatchedProps

LEMMA FixOverflowProps ==
    ASSUME NEW b \in Seq(Byte), NEW t \in Tack, NEW required \in Nat,
           NEW fill \in [1..(required - t.width) -> Byte],
           t.width <= t.start, t.start <= Len(b), required > t.width
    PROVE  /\ fix_overflow(b, t, required, fill) \in Seq(Byte)
           /\ Len(fix_overflow(b, t, required, fill))
                  = Len(b) + (required - t.width)
           /\ \A i \in 1..(t.start - t.width) :
                  fix_overflow(b, t, required, fill)[i] = b[i]
<1> DEFINE grown == b \o fill
           moved == copy_within(grown, t.start, Len(b), t.start + Len(fill))
           prefix == write_wide_varint(required, Len(b) - t.start)
<1>1. t.width \in Nat /\ t.start \in Nat /\ Len(b) - t.start \in Nat
  BY DEF Tack
<1>2. fill \in Seq(Byte) /\ Len(fill) = required - t.width
  BY <1>1
<1>3. /\ grown \in Seq(Byte)
      /\ Len(grown) = Len(b) + Len(fill)
      /\ \A i \in 1..Len(b) : grown[i] = b[i]
  BY <1>2, ConcatProps, Zenon
<1>4. /\ moved \in Seq(Byte)
      /\ Len(moved) = Len(grown)
      /\ \A i \in 1..Len(grown) : i <= t.start + Len(fill) => moved[i] = grown[i]
  <2>1. t.start + Len(fill) \in Nat /\ Len(b) <= Len(grown) /\ t.start <= t.start + Len(fill)
    BY <1>1, <1>2, <1>3, SMTT(30)
  <2>2. Len(b) \in Nat
    OBVIOUS
  <2>3. ASSUME NEW g \in Seq(Byte), NEW dest \in Nat,
               Len(b) <= Len(g), t.start <= dest
        PROVE  /\ copy_within(g, t.start, Len(b), dest) \in Seq(Byte)
               /\ Len(copy_within(g, t.start, Len(b), dest)) = Len(g)
               /\ \A i \in 1..Len(g) : i <= dest
                      => copy_within(g, t.start, Len(b), dest)[i] = g[i]
    BY <1>1, <2>2, <2>3, CopyWithinProps
  <2> HIDE DEF grown
  <2> QED
    BY <1>3, <2>1, <2>3, Zenon
<1>5. prefix \in Seq(Byte)
  BY <1>1, WideType
<1>6. /\ Patched(moved, t.start - t.width, prefix) \in Seq(Byte)
      /\ Len(Patched(moved, t.start - t.width, prefix)) = Len(moved)
      /\ \A i \in 1..Len(moved) : i <= t.start - t.width
             => Patched(moved, t.start - t.width, prefix)[i] = moved[i]
  <2>1. t.start - t.width \in Nat
    BY <1>1
  <2> HIDE DEF moved, prefix
  <2> QED
    BY <1>4, <1>5, <2>1, PatchedProps, Zenon
<1>7. fix_overflow(b, t, required, fill) = Patched(moved, t.start - t.width, prefix)
  BY DEF fix_overflow
<1>8. \A i \in 1..(t.start - t.width) :
          fix_overflow(b, t, required, fill)[i] = b[i]
  <2> TAKE i \in 1..(t.start - t.width)
  <2>1. i \in 1..Len(b) /\ i \in 1..Len(grown) /\ i <= t.start + Len(fill)
    BY <1>1, <1>2, <1>3, SMTT(30)
  <2> HIDE DEF grown, moved, prefix
  <2> QED
    BY <1>3, <1>4, <1>6, <1>7, <2>1
<1> HIDE DEF grown, moved, prefix
<1> QED
  BY <1>2, <1>3, <1>4, <1>6, <1>7, <1>8
-----------------------------------------------------------------------------
(* The inductive invariant.                                                *)

IInv == TypeOK /\ StartInBuffer /\ Nested /\ PlaceholdersKept

\* A placeholder stays as reserved while the bytes up to its end do.
LEMMA ReservedStable ==
    ASSUME NEW b \in Seq(Byte), NEW c \in Seq(Byte), NEW t \in Tack,
           t.width <= t.start, t.start <= Len(b), t.start <= Len(c),
           \A i \in 1..t.start : c[i] = b[i],
           Reserved(b, t)
    PROVE  Reserved(c, t)
<1> DEFINE m == t.start - t.width + 1
<1>1. t.start \in Nat /\ t.width \in Nat /\ m \in 1..(t.start + 1)
  BY DEF Tack
<1>2. \A i \in m..t.start : b[i] \in Byte /\ c[i] \in Byte /\ c[i] = b[i]
  BY <1>1
<1>3. SubSeq(b, m, t.start) = SubSeq(c, m, t.start)
  BY <1>1, <1>2, SMTT(30)
<1> QED
  BY <1>3 DEF Reserved

\* Steps that only add bytes behind the written ones keep the invariant.
LEMMA AppendKeeps ==
    ASSUME IInv, NEW c \in Seq(Byte), buf' = buf \o c, open' = open,
           mode' \in Modes
    PROVE  IInv'
<1>1. /\ buf' \in Seq(Byte)
      /\ Len(buf') = Len(buf) + Len(c)
      /\ \A i \in 1..Len(buf) : buf'[i] = buf[i]
  BY ConcatProps, Zenon DEF IInv, TypeOK
<1>2. TypeOK'
  BY <1>1 DEF IInv, TypeOK
<1>3. Len(buf) \in Nat /\ Len(c) \in Nat /\ Len(buf) <= Len(buf')
  BY <1>1 DEF IInv, TypeOK
<1>4. \A i \in 1..Len(open) : open[i] \in Tack
  BY DEF IInv, TypeOK
<1>5. StartInBuffer'
  BY <1>1, <1>3, <1>4 DEF IInv, StartInBuffer, Tack
<1>6. Nested'
  BY DEF IInv, Nested
<1>7. PlaceholdersKept'
  <2>1. SUFFICES ASSUME NEW i \in 1..Len(open) PROVE Reserved(buf', open[i])
    BY DEF PlaceholdersKept
  <2>2. /\ open[i] \in Tack
        /\ open[i].width <= open[i].start
        /\ open[i].start <= Len(buf)
        /\ open[i].start <= Len(buf')
    BY <1>3, <1>4 DEF IInv, StartInBuffer, Tack
  <2>3. \A k \in 1..open[i].start : buf'[k] = buf[k]
    BY <1>1, <1>3, <2>2 DEF Tack
  <2>4. buf \in Seq(Byte) /\ Reserved(buf, open[i])
    BY DEF IInv, TypeOK, PlaceholdersKept
  <2> QED
    BY <1>1, <2>2, <2>3, <2>4, ReservedStable
<1> QED
  BY <1>2, <1>5, <1>6, <1>7 DEF IInv

\* Dropping the innermost Tack keeps the invariant for the others, whatever
\* happens to the bytes from its placeholder on.
LEMMA DropKeeps ==
    ASSUME IInv, open # << >>, open' = Front(open), mode' \in Modes,
           buf' \in Seq(Byte), Len(buf) <= Len(buf'),
           \A i \in 1..(Last(open).start - Last(open).width) : buf'[i] = buf[i]
    PROVE  IInv'
<1> DEFINE n == Len(open)
<1>1. /\ Front(open) \in Seq(Tack)
      /\ Len(Front(open)) = n - 1
      /\ \A i \in 1..(n - 1) : Front(open)[i] = open[i]
      /\ Last(open) = open[n]
      /\ n \in Nat \ {0}
  BY FrontProps DEF IInv, TypeOK
<1>2. TypeOK'
  BY <1>1 DEF TypeOK
<1>3. \A i \in 1..n : open[i] \in Tack
  BY DEF IInv, TypeOK
<1>4. Len(buf) \in Nat /\ Len(buf') \in Nat
  BY DEF IInv, TypeOK
<1>5. \A i \in 1..(n - 1) :
         /\ open'[i] = open[i]
         /\ open[i].width <= open[i].start
         /\ open[i].start <= Len(buf)
         /\ open[i].start <= Last(open).start - Last(open).width
  BY <1>1 DEF IInv, StartInBuffer, Nested
<1>6. StartInBuffer'
  <2>1. SUFFICES ASSUME NEW i \in 1..(n - 1)
                 PROVE  open[i].width <= open[i].start /\ open[i].start <= Len(buf')
    BY <1>1, <1>5 DEF StartInBuffer
  <2>2. open[i] \in Tack
    BY <1>1, <1>3
  <2> QED
    BY <1>4, <1>5, <2>2 DEF Tack
<1>7. Nested'
  BY <1>1, <1>5 DEF IInv, Nested
<1>8. PlaceholdersKept'
  <2>1. SUFFICES ASSUME NEW i \in 1..(n - 1) PROVE Reserved(buf', open[i])
    BY <1>1, <1>5 DEF PlaceholdersKept
  <2>2. i \in 1..n /\ open[i] \in Tack /\ Last(open) \in Tack
    BY <1>1, <1>3
  <2>3. /\ open[i].start <= Len(buf)
        /\ open[i].start <= Len(buf')
        /\ open[i].width <= open[i].start
    BY <1>4, <1>5, <2>2 DEF Tack
  <2>4. \A k \in 1..open[i].start : buf'[k] = buf[k]
    BY <1>5, <2>2 DEF Tack
  <2>5. buf \in Seq(Byte) /\ Reserved(buf, open[i])
    BY <2>2 DEF IInv, TypeOK, PlaceholdersKept
  <2> QED
    BY <2>2, <2>3, <2>4, <2>5, ReservedStable
<1> QED
  BY <1>2, <1>6, <1>7, <1>8 DEF IInv

\* Opening a message keeps the invariant: the new placeholder is reserved
\* behind everything written, and its offset is not truncated.
LEMMA PushKeeps ==
    ASSUME IInv, StartFits, NEW tag \in Seq(Byte), NEW width \in 1..5,
           Bounded(Len(tag) + width),
           buf' = buf \o tag \o write_wide_varint(width, 0),
           open' = Append(open, NewTack(Len(buf) + Len(tag), width)),
           mode' = mode
    PROVE  IInv'
<1> DEFINE n == Len(open)
           w == write_wide_varint(width, 0)
           t == [start |-> Len(buf) + Len(tag) + width, width |-> width]
<1>1. /\ buf \in Seq(Byte) /\ Len(buf) \in Nat /\ Len(tag) \in Nat /\ width \in Nat
      /\ open \in Seq(Tack) /\ n \in Nat
      /\ w \in Seq(Byte) /\ Len(w) = width
  <2>1. buf \in Seq(Byte) /\ open \in Seq(Tack) /\ width \in Nat
    BY DEF IInv, TypeOK
  <2>2. w \in Seq(Byte) /\ Len(w) = width
    BY <2>1, WideType
  <2> HIDE DEF w
  <2> QED
    BY <2>1, <2>2
<1>2. NewTack(Len(buf) + Len(tag), width) = t /\ t \in Tack
  <2>1. Len(buf) + Len(tag) + width < U32
    BY <1>1, TackAssumption DEF StartFits, Bounded
  <2>2. (Len(buf) + Len(tag) + width) % U32 = Len(buf) + Len(tag) + width
    <3>1. Len(buf) + Len(tag) + width \in Nat /\ U32 \in Nat
      BY <1>1, TackAssumption
    <3> QED
      BY <2>1, <3>1, ModSmall
  <2> QED
    BY <1>1, <2>2 DEF NewTack, Tack
<1>3. /\ buf \o tag \in Seq(Byte)
      /\ Len(buf \o tag) = Len(buf) + Len(tag)
      /\ \A i \in 1..Len(buf) : (buf \o tag)[i] = buf[i]
  BY <1>1, ConcatProps, Zenon
<1>4. /\ buf' \in Seq(Byte)
      /\ Len(buf') = Len(buf) + Len(tag) + width
      /\ \A i \in 1..Len(buf) : buf'[i] = buf[i]
      /\ \A i \in 1..width : buf'[Len(buf) + Len(tag) + i] = w[i]
  <2>1. ASSUME NEW b \in Seq(Byte), NEW v \in Seq(Byte)
        PROVE  /\ b \o v \in Seq(Byte)
               /\ Len(b \o v) = Len(b) + Len(v)
               /\ \A i \in 1..Len(b) : (b \o v)[i] = b[i]
               /\ \A i \in 1..Len(v) : (b \o v)[Len(b) + i] = v[i]
    OBVIOUS
  <2> DEFINE b0 == buf \o tag
  <2>2. buf' = b0 \o w
    OBVIOUS
  <2> HIDE DEF w
  <2>3. /\ b0 \o w \in Seq(Byte)
        /\ Len(b0 \o w) = Len(b0) + Len(w)
        /\ \A i \in 1..Len(b0) : (b0 \o w)[i] = b0[i]
        /\ \A i \in 1..Len(w) : (b0 \o w)[Len(b0) + i] = w[i]
    BY <1>1, <1>3, <2>1, Zenon
  <2>4. /\ b0 \in Seq(Byte) /\ Len(b0) = Len(buf) + Len(tag)
        /\ \A i \in 1..Len(buf) : b0[i] = buf[i]
    BY <1>3
  <2> HIDE DEF b0
  <2>5. \A i \in 1..Len(buf) : buf'[i] = buf[i]
    <3> TAKE i \in 1..Len(buf)
    <3>1. i \in 1..Len(b0)
      BY <1>1, <2>4
    <3> QED
      BY <2>2, <2>3, <2>4, <3>1
  <2>6. Len(buf') = Len(buf) + Len(tag) + width
    BY <1>1, <2>2, <2>3, <2>4
  <2>7. \A i \in 1..width : buf'[Len(buf) + Len(tag) + i] = w[i]
    BY <1>1, <2>2, <2>3, <2>4
  <2> QED
    BY <2>2, <2>3, <2>5, <2>6, <2>7
<1>5. /\ open' \in Seq(Tack)
      /\ Len(open') = n + 1
      /\ \A i \in 1..n : open'[i] = open[i]
      /\ open'[n + 1] = t
  <2> HIDE DEF t
  <2> QED
    BY <1>1, <1>2
<1>6. TypeOK'
  BY <1>4, <1>5 DEF IInv, TypeOK
<1>7. \A i \in 1..n :
         /\ open[i] \in Tack
         /\ open[i].width <= open[i].start
         /\ open[i].start <= Len(buf)
  BY <1>1 DEF IInv, StartInBuffer
<1>8. t.start = Len(buf) + Len(tag) + width /\ t.width = width
  OBVIOUS
<1> HIDE DEF t, w
<1>9. StartInBuffer'
  <2>1. SUFFICES ASSUME NEW i \in 1..(n + 1)
                 PROVE  /\ open'[i].width <= open'[i].start
                        /\ open'[i].start <= Len(buf')
    BY <1>5 DEF StartInBuffer
  <2>2. CASE i = n + 1
    BY <1>1, <1>4, <1>5, <1>8, <2>2
  <2>3. CASE i \in 1..n
    BY <1>1, <1>4, <1>5, <1>7, <2>3 DEF Tack
  <2> QED
    BY <1>1, <2>2, <2>3
<1>10. Nested'
  <2>1. SUFFICES ASSUME NEW i \in 1..(n + 1), NEW j \in 1..(n + 1), i < j
                 PROVE  open'[i].start <= open'[j].start - open'[j].width
    BY <1>5 DEF Nested
  <2>2. i \in 1..n /\ open'[i] = open[i]
    BY <1>1, <1>5, <2>1
  <2>3. CASE j = n + 1
    BY <1>1, <1>5, <1>7, <1>8, <2>2, <2>3, SMTT(30) DEF Tack
  <2>4. CASE j \in 1..n
    BY <1>5, <2>1, <2>2, <2>4 DEF IInv, Nested
  <2> QED
    BY <1>1, <2>3, <2>4
<1>11. PlaceholdersKept'
  <2>1. SUFFICES ASSUME NEW i \in 1..(n + 1) PROVE Reserved(buf', open'[i])
    BY <1>5 DEF PlaceholdersKept
  <2>2. CASE i \in 1..n
    <3>1. /\ open[i].start <= Len(buf')
          /\ \A k \in 1..open[i].start : buf'[k] = buf[k]
      BY <1>1, <1>4, <1>7, <2>2 DEF Tack
    <3>2. Reserved(buf, open[i])
      BY <2>2 DEF IInv, PlaceholdersKept
    <3> QED
      BY <1>1, <1>4, <1>5, <1>7, <2>2, <3>1, <3>2, ReservedStable
  <2>3. CASE i = n + 1
    <3> DEFINE m == t.start - t.width + 1
    <3>1. m = Len(buf) + Len(tag) + 1 /\ t.start = Len(buf') /\ t.start - m + 1 = width
      BY <1>1, <1>4, <1>8
    <3>2. \A k \in m..t.start : buf'[k] \in Byte
      BY <1>1, <1>4, <3>1
    <3>3. /\ SubSeq(buf', m, t.start) \in Seq(Byte)
          /\ Len(SubSeq(buf', m, t.start)) = width
          /\ \A k \in 1..width : SubSeq(buf', m, t.start)[k] = buf'[m + k - 1]
      <4>1. m \in Nat \ {0} /\ t.start \in Nat /\ m <= t.start + 1 /\ t.start <= Len(buf')
        BY <1>1, <1>4, <1>8
      <4>2. /\ SubSeq(buf', m, t.start) \in Seq(Byte)
            /\ Len(SubSeq(buf', m, t.start)) = t.start - m + 1
            /\ \A k \in 1..(t.start - m + 1) : SubSeq(buf', m, t.start)[k] = buf'[m + k - 1]
        <5>1. ASSUME NEW s \in Seq(Byte), NEW a \in Nat \ {0}, NEW b \in Nat,
                     b <= Len(s), a <= b + 1
              PROVE  /\ SubSeq(s, a, b) \in Seq(Byte)
                     /\ Len(SubSeq(s, a, b)) = b - a + 1
                     /\ \A k \in 1..(b - a + 1) : SubSeq(s, a, b)[k] = s[a + k - 1]
          BY <5>1, SubSeqProps
        <5> HIDE DEF m
        <5> QED
          BY <1>4, <4>1, <5>1, Zenon
      <4> HIDE DEF m
      <4> QED
        BY <3>1, <4>2
    <3>4. \A k \in 1..width : SubSeq(buf', m, t.start)[k] = w[k]
      <4> TAKE k \in 1..width
      <4>1. m + k - 1 = Len(buf) + Len(tag) + k
        BY <1>1, <3>1
      <4> HIDE DEF m
      <4> QED
        BY <1>4, <3>3, <4>1
    <3>5. SubSeq(buf', m, t.start) = w
      BY <1>1, <3>3, <3>4, SeqEqual
    <3>6. w = write_wide_varint(t.width, 0)
      BY <1>8 DEF w
    <3> QED
      BY <1>5, <2>3, <3>5, <3>6 DEF Reserved
  <2> QED
    BY <1>1, <2>2, <2>3
<1> QED
  BY <1>6, <1>9, <1>10, <1>11 DEF IInv

-----------------------------------------------------------------------------
(* The theorems. *)

LEMMA InitIInv == Init => IInv
<1> SUFFICES ASSUME Init PROVE IInv
  OBVIOUS
<1>1. buf = << >> /\ open = << >> /\ mode = "running"
  BY DEF Init
<1>2. Len(open) = 0
  BY <1>1
<1> QED
  BY <1>1, <1>2 DEF IInv, TypeOK, StartInBuffer, Nested, PlaceholdersKept, Modes

\* Closing the innermost Tack, in place or with a shift.
LEMMA CloseKeeps ==
    ASSUME IInv, CloseInPlace \/ CloseOverflow
    PROVE  IInv'
<1> DEFINE t == Last(open)
<1>1. open # << >> /\ mode \in Modes /\ buf \in Seq(Byte) /\ open \in Seq(Tack)
  BY DEF IInv, TypeOK, CloseInPlace, CloseOverflow, Dropping
<1>2. /\ t \in Tack
      /\ t.width <= t.start /\ t.start <= Len(buf)
  <2>1. /\ Last(open) \in Tack /\ Last(open) = open[Len(open)]
        /\ Len(open) \in Nat \ {0}
    BY <1>1, FrontProps
  <2> QED
    BY <2>1 DEF IInv, StartInBuffer
<1>3. open' = Front(open) /\ mode' \in Modes
  BY <1>1 DEF CloseInPlace, CloseOverflow, Unstack, Modes
<1> HIDE DEF t
<1>4. CASE CloseInPlace
  <2>1. buf' = Patched(buf, t.start - t.width,
                       write_wide_varint(t.width, Len(buf) - t.start))
    BY <1>4 DEF CloseInPlace, DataLen, t
  <2>2. /\ buf' \in Seq(Byte)
        /\ Len(buf') = Len(buf)
        /\ \A i \in 1..(t.start - t.width) : buf'[i] = buf[i]
    BY <1>1, <1>2, <2>1, CloseInPlaceProps
  <2>3. Len(buf) <= Len(buf')
    BY <1>1, <2>2
  <2> QED
    BY <1>1, <1>3, <2>2, <2>3, DropKeeps DEF t
<1>5. CASE CloseOverflow
  <2> DEFINE required == encoded_len_varint(Len(buf) - t.start)
  <2>1. PICK fill \in [1..(required - t.width) -> Stale] :
               buf' = fix_overflow(buf, t, required, fill)
    BY <1>5 DEF CloseOverflow, Extra, DataLen, t
  <2>2. required \in Nat
    BY EncodedLenType, VarintAssumption
  <2>3. required > t.width
    <3>1. required - t.width > 0
      BY <1>5 DEF CloseOverflow, Extra, DataLen, t
    <3> HIDE DEF required
    <3> QED
      BY <1>2, <2>2, <3>1 DEF Tack
  <2>4. fill \in [1..(required - t.width) -> Byte]
    <3> HIDE DEF required
    <3> QED
      BY <2>1, TackAssumption
  <2> HIDE DEF required
  <2>5. /\ buf' \in Seq(Byte)
        /\ Len(buf') = Len(buf) + (required - t.width)
        /\ \A i \in 1..(t.start - t.width) : buf'[i] = buf[i]
    BY <1>1, <1>2, <2>1, <2>2, <2>3, <2>4, FixOverflowProps
  <2>6. Len(buf) <= Len(buf')
    BY <1>1, <1>2, <2>2, <2>3, <2>5 DEF Tack
  <2> QED
    BY <1>1, <1>3, <2>5, <2>6, DropKeeps DEF t
<1> QED
  BY <1>4, <1>5

\* A call that runs out behind its tag has written that and some of the placeholder.
LEMMA CutBegin ==
    ASSUME IInv, NEW tag \in Tags, NEW width \in Widths, BeginMsgPanics(tag, width),
           Fits(Len(tag))
    PROVE  \E c \in Seq(Byte) : buf' = buf \o c
<1> DEFINE room == Capacity - Len(buf) - Len(tag)
           w == write_wide_varint(width, 0)
<1>1. buf \in Seq(Byte)
  BY DEF IInv, TypeOK
<1>2. tag \in Seq(Byte) /\ width \in Nat /\ w \in Seq(Byte) /\ Len(w) = width
  <2>1. tag \in Seq(Byte) /\ width \in Nat
    BY TackAssumption
  <2> QED
    BY <2>1, WideType
<1>3. room \in 0..width
  BY <1>1, <1>2, TackAssumption DEF BeginMsgPanics, Fits
<1> HIDE DEF w, room
<1>4. SubSeq(w, 1, room) \in Seq(Byte)
  BY <1>2, <1>3
<1>5. buf' = buf \o tag \o SubSeq(w, 1, room)
  BY DEF BeginMsgPanics, w, room
<1>6. ASSUME NEW x \in Seq(Byte), NEW y \in Seq(Byte)
      PROVE  /\ x \o y \in Seq(Byte)
             /\ buf \o x \o y = buf \o (x \o y)
  BY <1>1, ConcatAssociative
<1>7. /\ tag \o SubSeq(w, 1, room) \in Seq(Byte)
      /\ buf \o tag \o SubSeq(w, 1, room) = buf \o (tag \o SubSeq(w, 1, room))
  BY <1>2, <1>4, <1>6, Zenon
<1> QED
  BY <1>5, <1>7, Zenon

\* Every step of the writer keeps the invariant.
LEMMA NextIInv ==
    ASSUME StartFits, IInv, [Next]_vars
    PROVE  IInv'
<1>1. /\ buf \in Seq(Byte) /\ open \in Seq(Tack) /\ mode \in Modes
  BY DEF IInv, TypeOK
<1>2. ASSUME buf' = buf, open' = open, mode' \in Modes PROVE IInv'
  BY <1>2 DEF IInv, TypeOK, StartInBuffer, Nested, PlaceholdersKept
<1>3. ASSUME NEW c \in Chunks, Put(c) PROVE IInv'
  <2>1. c \in Seq(Byte)
    BY TackAssumption
  <2>2. buf' = buf \o c /\ open' = open /\ mode' \in Modes
    BY <1>1, <1>3 DEF Put
  <2> QED
    BY <2>1, <2>2, AppendKeeps
<1>4. ASSUME NEW c \in Chunks, PutPanics(c) PROVE IInv'
  BY <1>2, <1>4 DEF PutPanics, Panic, Modes
<1>5. ASSUME NEW tag \in Tags, NEW width \in Widths, BeginMsg(tag, width)
      PROVE  IInv'
  <2>1. tag \in Seq(Byte) /\ width \in 1..5
    BY TackAssumption
  <2> QED
    BY <1>5, <2>1, PushKeeps DEF BeginMsg
<1>6. ASSUME NEW tag \in Tags, NEW width \in Widths, BeginMsgPanics(tag, width)
      PROVE  IInv'
  <2>1. open' = open /\ mode' \in Modes
    BY <1>6 DEF BeginMsgPanics, Panic, Modes
  <2>2. CASE Fits(Len(tag))
    <3>1. PICK c \in Seq(Byte) : buf' = buf \o c
      BY <1>6, <2>2, CutBegin
    <3> QED
      BY <2>1, <3>1, AppendKeeps
  <2>3. CASE ~Fits(Len(tag))
    BY <1>2, <1>6, <2>1, <2>3 DEF BeginMsgPanics
  <2> QED
    BY <2>2, <2>3
<1>7. CASE ClosurePanics
  BY <1>2, <1>7 DEF ClosurePanics, Panic, Modes
<1>8. CASE CloseInPlace \/ CloseOverflow
  BY <1>8, CloseKeeps
<1>9. CASE CloseExhausted
  <2>1. CASE mode = "unwinding"
    BY <1>2, <1>9, <2>1 DEF CloseExhausted, Modes
  <2>2. CASE mode = "running"
    <3>1. open # << >> /\ open' = Front(open) /\ mode' \in Modes /\ buf' = buf
      BY <1>9, <2>2 DEF CloseExhausted, Dropping, Modes
    <3>2. buf' \in Seq(Byte) /\ Len(buf) <= Len(buf')
      BY <1>1, <3>1
    <3> QED
      BY <3>1, <3>2, DropKeeps
  <2> QED
    BY <1>9, <2>1, <2>2 DEF CloseExhausted
<1>10. CASE Finish
  BY <1>2, <1>10 DEF Finish, Modes
<1>11. CASE UNCHANGED vars
  BY <1>1, <1>2, <1>11 DEF vars
<1> QED
  BY <1>3, <1>4, <1>5, <1>6, <1>7, <1>8, <1>9, <1>10, <1>11
     DEF Next, Drop, Terminating

(***************************************************************************)
(* In a buffer of less than 4 GiB every Tack, at any depth, stays inside   *)
(* the written bytes, nested in the one around it, its placeholder as it   *)
(* was reserved until it is closed.                                        *)
(***************************************************************************)
THEOREM Invariance ==
    ASSUME StartFits
    PROVE  Spec => []IInv
<1>1. Init => IInv
  BY InitIInv
<1>2. IInv /\ [Next]_vars => IInv'
  BY NextIInv
<1> QED
  BY <1>1, <1>2, PTL DEF Spec

(***************************************************************************)
(* The buffer is bytes and the Tacks are (start, width) pairs.             *)
(***************************************************************************)
THEOREM TypeCorrect ==
    ASSUME StartFits
    PROVE  Spec => []TypeOK
<1>1. IInv => TypeOK
  BY DEF IInv
<1> QED
  BY <1>1, Invariance, PTL

(***************************************************************************)
(* The SAFETY comments of tack.rs hold: both unchecked slices of a closing *)
(* Tack are in range.                                                      *)
(***************************************************************************)
THEOREM StartsInBuffer ==
    ASSUME StartFits
    PROVE  Spec => []StartInBuffer
<1>1. IInv => StartInBuffer
  BY DEF IInv
<1> QED
  BY <1>1, Invariance, PTL

(***************************************************************************)
(* No shift of an inner payload reaches an outer placeholder.              *)
(***************************************************************************)
THEOREM TacksNest ==
    ASSUME StartFits
    PROVE  Spec => []Nested
<1>1. IInv => Nested
  BY DEF IInv
<1> QED
  BY <1>1, Invariance, PTL

(***************************************************************************)
(* A placeholder still reads as it was reserved when it is patched.        *)
(***************************************************************************)
THEOREM PlaceholdersStay ==
    ASSUME StartFits
    PROVE  Spec => []PlaceholdersKept
<1>1. IInv => PlaceholdersKept
  BY DEF IInv
<1> QED
  BY <1>1, Invariance, PTL

-----------------------------------------------------------------------------
(* Refinement of WireFrames.  Frame k holds what lies between the start of *)
(* its Tack and the placeholder of the next one.                           *)

\* Where frame k starts, and where it ends.
Lo(ms, k) == IF k = 1 THEN 0 ELSE ms[k - 1].start
Hi(b, ms, k) == IF k <= Len(ms) THEN ms[k].start - ms[k].width ELSE Len(b)
Width(ms, k) == IF k = 1 THEN 0 ELSE ms[k - 1].width

\* The frames as a function of the buffer and its Tacks.
View(b, ms) ==
    [k \in 1..(Len(ms) + 1) |->
        [width |-> Width(ms, k), body |-> Piece(b, Lo(ms, k), Hi(b, ms, k))]]

\* They are a sequence, one for the output and one for each Tack.
LEMMA ViewFacts ==
    ASSUME NEW b, NEW ms, Len(ms) \in Nat
    PROVE  /\ IsSeq(View(b, ms))
           /\ Len(View(b, ms)) = Len(ms) + 1
           /\ \A k \in 1..(Len(ms) + 1) :
                View(b, ms)[k] = [width |-> Width(ms, k),
                                  body |-> Piece(b, Lo(ms, k), Hi(b, ms, k))]
<1> DEFINE v == View(b, ms)
<1>1. v = [k \in 1..(Len(ms) + 1) |-> v[k]]
  BY DEF View
<1>2. Len(ms) + 1 \in Nat
  OBVIOUS
<1>3. \A k \in 1..(Len(ms) + 1) :
        v[k] = [width |-> Width(ms, k), body |-> Piece(b, Lo(ms, k), Hi(b, ms, k))]
  BY DEF View
<1> HIDE DEF v
<1>4. IsSeq(v) /\ Len(v) = Len(ms) + 1
  BY <1>1, <1>2, FunctionIsSeq
<1> QED
  BY <1>3, <1>4 DEF v

\* No frame ends before it starts, nor behind the buffer.
LEMMA LoHiType ==
    ASSUME IInv
    PROVE  /\ Len(open) \in Nat /\ Len(buf) \in Nat
           /\ \A k \in 1..(Len(open) + 1) :
                 /\ Lo(open, k) \in Nat /\ Hi(buf, open, k) \in Nat
                 /\ Lo(open, k) <= Hi(buf, open, k) /\ Hi(buf, open, k) <= Len(buf)
<1>1. /\ Len(open) \in Nat /\ Len(buf) \in Nat
      /\ \A i \in 1..Len(open) : open[i].start \in Nat /\ open[i].width \in 1..5
  <2>1. open \in Seq(Tack) /\ buf \in Seq(Byte)
    BY DEF IInv, TypeOK
  <2>2. \A t \in Tack : t.start \in Nat /\ t.width \in 1..5
    BY DEF Tack
  <2>3. \A i \in 1..Len(open) : open[i] \in Tack
    BY <2>1, ElementOfSeq
  <2> QED
    BY <2>1, <2>2, <2>3, LenProperties
<1>2. \A i \in 1..Len(open) : open[i].width <= open[i].start /\ open[i].start <= Len(buf)
  BY DEF IInv, StartInBuffer
<1>3. ASSUME NEW k \in 1..(Len(open) + 1)
      PROVE  /\ Lo(open, k) \in Nat /\ Hi(buf, open, k) \in Nat
             /\ Lo(open, k) <= Hi(buf, open, k) /\ Hi(buf, open, k) <= Len(buf)
  <2>1. k \in Nat \ {0} /\ (k # 1 => k - 1 \in 1..Len(open))
    BY <1>1
  <2>2. Lo(open, k) \in Nat /\ Lo(open, k) <= Len(buf)
    BY <1>1, <1>2, <2>1 DEF Lo
  <2>3. CASE k = Len(open) + 1
    BY <1>1, <2>2, <2>3 DEF Hi
  <2>4. CASE k \in 1..Len(open)
    <3>1. Hi(buf, open, k) = open[k].start - open[k].width
      BY <2>4 DEF Hi
    <3>2. open[k].start - open[k].width \in Nat /\ open[k].start - open[k].width <= Len(buf)
      <4>1. open[k].width \in Nat /\ open[k].start \in Nat /\ Len(buf) \in Nat
        BY <1>1, <2>4
      <4>2. open[k].width <= open[k].start /\ open[k].start <= Len(buf)
        BY <1>2, <2>4
      <4> QED
        BY <4>1, <4>2
    <3>3. Lo(open, k) <= open[k].start - open[k].width
      <4>1. CASE k = 1
        BY <3>2, <4>1 DEF Lo
      <4>2. CASE k # 1
        <5>1. k - 1 \in 1..Len(open) /\ k - 1 < k
          BY <2>1, <4>2
        <5> QED
          BY <2>4, <4>2, <5>1 DEF Lo, IInv, Nested
      <4> QED
        BY <4>1, <4>2
    <3> QED
      BY <2>2, <3>1, <3>2, <3>3
  <2> QED
    BY <1>1, <2>3, <2>4
<1> QED
  BY <1>1, <1>3

\* The refinement mapping is that view.
LEMMA FramesView == IInv => Frames = View(buf, open)
<1> SUFFICES ASSUME IInv
             PROVE  Frames = View(buf, open)
  OBVIOUS
<1>1. Len(open) \in Nat /\ Len(buf) \in Nat
  BY LoHiType
<1> DEFINE x == [width |-> 0, body |-> SubSeq(buf, 1, BodyEnd(0))]
           f == [i \in 1..Len(open) |->
                  [width |-> open[i].width,
                   body |-> SubSeq(buf, open[i].start + 1, BodyEnd(i))]]
           v == View(buf, open)
<1>2. Frames = <<x>> \o f
  BY DEF Frames
<1>3. IsSeq(<<x>>) /\ Len(<<x>>) = 1 /\ <<x>>[1] = x
  <2>1. <<x>> = [i \in 1..1 |-> <<x>>[i]]
    OBVIOUS
  <2> QED
    BY <2>1, FunctionIsSeq
<1>4. IsSeq(f) /\ Len(f) = Len(open)
  <2>1. f = [i \in 1..Len(open) |-> f[i]]
    OBVIOUS
  <2> HIDE DEF f
  <2> QED
    BY <1>1, <2>1, FunctionIsSeq
<1>5. \A i \in 0..Len(open) : BodyEnd(i) = Hi(buf, open, i + 1)
  BY <1>1 DEF BodyEnd, Hi
<1>6. x = v[1]
  <2>1. BodyEnd(0) = Hi(buf, open, 1)
    <3>1. 0 \in 0..Len(open) /\ 0 + 1 = 1
      BY <1>1
    <3>2. BodyEnd(0) = Hi(buf, open, 0 + 1)
      BY <1>5, <3>1
    <3> QED
      BY <3>1, <3>2
  <2>2. Lo(open, 1) = 0 /\ 0 + 1 = 1 /\ Width(open, 1) = 0
    BY DEF Lo, Width
  <2>3. Piece(buf, Lo(open, 1), Hi(buf, open, 1)) = SubSeq(buf, 1, BodyEnd(0))
    BY <2>1, <2>2 DEF Piece
  <2>4. 1 \in 1..(Len(open) + 1)
    BY <1>1
  <2>5. v[1] = [width |-> Width(open, 1), body |-> Piece(buf, Lo(open, 1), Hi(buf, open, 1))]
    BY <1>1, <2>4, ViewFacts
  <2> QED
    BY <2>2, <2>3, <2>5
<1>7. \A i \in 1..Len(open) : f[i] = v[i + 1]
  <2> TAKE i \in 1..Len(open)
  <2>1. i + 1 \in 1..(Len(open) + 1) /\ i + 1 # 1 /\ (i + 1) - 1 = i /\ i \in 0..Len(open)
    BY <1>1
  <2>2. Piece(buf, Lo(open, i + 1), Hi(buf, open, i + 1))
          = SubSeq(buf, open[i].start + 1, BodyEnd(i))
    BY <1>5, <2>1 DEF Piece, Lo
  <2>3. Width(open, i + 1) = open[i].width
    BY <2>1 DEF Width
  <2>4. v[i + 1] = [width |-> Width(open, i + 1),
                    body |-> Piece(buf, Lo(open, i + 1), Hi(buf, open, i + 1))]
    BY <1>1, <2>1, ViewFacts
  <2> QED
    BY <2>2, <2>3, <2>4
<1>8. IsSeq(v) /\ Len(v) = Len(open) + 1
  BY <1>1, ViewFacts
<1> HIDE DEF x, f, v
<1>9. /\ IsSeq(<<x>> \o f) /\ Len(<<x>> \o f) = 1 + Len(open)
      /\ \A i \in 1..1 : (<<x>> \o f)[i] = <<x>>[i]
      /\ \A i \in 1..Len(open) : (<<x>> \o f)[1 + i] = f[i]
  BY <1>3, <1>4, ConcatFacts
<1>10. \A k \in 1..(1 + Len(open)) : (<<x>> \o f)[k] = v[k]
  <2> TAKE k \in 1..(1 + Len(open))
  <2>1. CASE k = 1
    BY <1>3, <1>6, <1>9, <2>1
  <2>2. CASE k # 1
    <3>1. k - 1 \in 1..Len(open) /\ 1 + (k - 1) = k /\ (k - 1) + 1 = k
      BY <1>1, <2>2
    <3> QED
      BY <1>7, <1>9, <3>1
  <2> QED
    BY <2>1, <2>2
<1>11. <<x>> \o f = v
  <2>1. Len(v) = 1 + Len(open)
    BY <1>1, <1>8
  <2> QED
    BY <1>8, <1>9, <1>10, <2>1, SameSeq
<1> QED
  BY <1>2, <1>11 DEF v

\* The operators of WireFrames are those of this module.
LEMMA WireEnds ==
    /\ \A s : Wire!Front(s) = Front(s) /\ Wire!Last(s) = Last(s)
    /\ \A s, t : Wire!IsPrefix(s, t) = IsPrefix(s, t)
    /\ \A w, v : Wire!write_wide_varint(w, v) = write_wide_varint(w, v)
    /\ \A v : Wire!encoded_len_varint(v) = encoded_len_varint(v)
<1>1. \A s : Wire!Front(s) = Front(s) /\ Wire!Last(s) = Last(s)
  BY DEF Wire!Front, Wire!Last, Front, Last
<1>2. \A s, t : Wire!IsPrefix(s, t) = IsPrefix(s, t)
  BY DEF Wire!IsPrefix, IsPrefix
<1>0. \A b, n : Wire!Power(b, n) = Power(b, n)
  BY DEF Wire!Power, Power
<1>3. \A v : Wire!encoded_len_varint(v) = encoded_len_varint(v)
  BY <1>0 DEF Wire!encoded_len_varint, Wire!Cardinality, encoded_len_varint, Cardinality
<1>4. \A w, v : Wire!write_wide_varint(w, v) = write_wide_varint(w, v)
  BY <1>0 DEF Wire!write_wide_varint, Wire!Group, write_wide_varint, Group
<1> QED
  BY <1>1, <1>2, <1>3, <1>4

\* The frames around a step, one by one.
LEMMA FramesSteps ==
    ASSUME IInv, IInv'
    PROVE  /\ IsSeq(Frames) /\ Len(Frames) = Len(open) + 1
           /\ \A k \in 1..(Len(open) + 1) :
                Frames[k] = [width |-> Width(open, k),
                             body |-> Piece(buf, Lo(open, k), Hi(buf, open, k))]
           /\ IsSeq(Frames') /\ Len(Frames') = Len(open') + 1
           /\ \A k \in 1..(Len(open') + 1) :
                Frames'[k] = [width |-> Width(open', k),
                              body |-> Piece(buf', Lo(open', k), Hi(buf', open', k))]
<1>1. Frames = View(buf, open) /\ Frames' = View(buf', open')
  <2>1. (IInv => Frames = View(buf, open))'
    BY FramesView, PTL
  <2> QED
    BY <2>1, FramesView
<1>2. Len(open) \in Nat /\ Len(open') \in Nat
  BY DEF IInv, TypeOK
<1> QED
  BY <1>1, <1>2, ViewFacts

\* What is appended joins the innermost frame, and only that.
LEMMA AppendPieces ==
    ASSUME IInv, NEW c \in Seq(Byte), NEW b, b = buf \o c
    PROVE  /\ b \in Seq(Byte) /\ IsSeq(b) /\ Len(b) = Len(buf) + Len(c)
           /\ \A lo, hi \in Nat : lo <= hi /\ hi <= Len(buf) => Piece(b, lo, hi) = Piece(buf, lo, hi)
           /\ \A lo \in Nat : lo <= Len(buf) =>
                 Piece(b, lo, Len(b)) = Piece(buf, lo, Len(buf)) \o c
<1>1. buf \in Seq(Byte) /\ IsSeq(buf) /\ IsSeq(c) /\ Len(buf) \in Nat /\ Len(c) \in Nat
  <2>1. buf \in Seq(Byte)
    BY DEF IInv, TypeOK
  <2> QED
    BY <2>1, SeqOverSet, LenProperties
<1>2. /\ b \in Seq(Byte) /\ IsSeq(b) /\ Len(b) = Len(buf) + Len(c)
      /\ \A i \in 1..Len(buf) : b[i] = buf[i]
      /\ \A i \in 1..Len(c) : b[Len(buf) + i] = c[i]
  BY <1>1, ConcatFacts, ConcatProperties
<1>3. \A lo, hi \in Nat : lo <= hi /\ hi <= Len(buf) => Piece(b, lo, hi) = Piece(buf, lo, hi)
  <2> SUFFICES ASSUME NEW lo \in Nat, NEW hi \in Nat, lo <= hi, hi <= Len(buf)
               PROVE  Piece(b, lo, hi) = Piece(buf, lo, hi)
    OBVIOUS
  <2>1. hi <= Len(b) /\ \A i \in (lo + 1)..hi : b[i] = buf[i]
    BY <1>1, <1>2
  <2> QED
    BY <1>1, <1>2, <2>1, PieceSame, ZenonT(30)
<1>4. Piece(b, Len(buf), Len(b)) = c
  <2> DEFINE lo == Len(buf)
             hi == Len(b)
  <2>1. lo \in Nat /\ hi \in Nat /\ lo <= hi /\ hi <= Len(b) /\ hi - lo = Len(c)
    BY <1>1, <1>2
  <2>2. \A i \in 1..(hi - lo) : b[lo + i] = c[i]
    BY <1>2, <2>1
  <2> HIDE DEF lo, hi
  <2>3. Piece(b, lo, hi) = c
    <3>1. Len(c) = hi - lo /\ IsSeq(b) /\ IsSeq(c)
      BY <1>1, <1>2, <2>1
    <3> QED
      BY <2>1, <2>2, <3>1, PieceIs, Zenon
  <2> QED
    BY <2>3 DEF lo, hi
<1>5. \A lo \in Nat : lo <= Len(buf) => Piece(b, lo, Len(b)) = Piece(buf, lo, Len(buf)) \o c
  <2> SUFFICES ASSUME NEW lo \in Nat, lo <= Len(buf)
               PROVE  Piece(b, lo, Len(b)) = Piece(buf, lo, Len(buf)) \o c
    OBVIOUS
  <2>1. Len(buf) <= Len(b) /\ Len(b) \in Nat /\ Len(b) <= Len(b) /\ Len(buf) <= Len(buf)
    BY <1>1, <1>2
  <2>2. Piece(b, lo, Len(b)) = Piece(b, lo, Len(buf)) \o Piece(b, Len(buf), Len(b))
    BY <1>1, <1>2, <2>1, PieceSplit, ZenonT(30)
  <2>3. Piece(b, lo, Len(buf)) = Piece(buf, lo, Len(buf))
    BY <1>1, <1>3, <2>1
  <2> QED
    BY <1>4, <2>2, <2>3
<1> QED
  BY <1>2, <1>3, <1>5

\* Bytes behind the written ones are a Write.
LEMMA AppendFrames ==
    ASSUME IInv, IInv', NEW c \in Seq(Byte), buf' = buf \o c, open' = open
    PROVE  Wire!Write
<1> DEFINE f == Frames
           g == Frames'
           n == Len(open) + 1
           old == Piece(buf, Lo(open, n), Len(buf))
<1>1. /\ n \in Nat \ {0} /\ Len(buf) \in Nat
      /\ \A k \in 1..n : /\ Lo(open, k) \in Nat /\ Hi(buf, open, k) \in Nat
                         /\ Lo(open, k) <= Hi(buf, open, k) /\ Hi(buf, open, k) <= Len(buf)
  BY LoHiType
<1>2. /\ IsSeq(f) /\ Len(f) = n
      /\ \A k \in 1..n : f[k] = [width |-> Width(open, k),
                                  body |-> Piece(buf, Lo(open, k), Hi(buf, open, k))]
      /\ IsSeq(g) /\ Len(g) = n
      /\ \A k \in 1..n : g[k] = [width |-> Width(open, k),
                                  body |-> Piece(buf', Lo(open, k), Hi(buf', open, k))]
  BY FramesSteps
<1>3. /\ Hi(buf, open, n) = Len(buf) /\ Hi(buf', open, n) = Len(buf')
      /\ \A k \in 1..(n - 1) : Hi(buf', open, k) = Hi(buf, open, k)
  BY LoHiType DEF Hi
<1>4. /\ \A lo, hi \in Nat : lo <= hi /\ hi <= Len(buf)
             => Piece(buf', lo, hi) = Piece(buf, lo, hi)
      /\ \A lo \in Nat : lo <= Len(buf)
             => Piece(buf', lo, Len(buf')) = Piece(buf, lo, Len(buf)) \o c
  BY AppendPieces, ZenonT(30)
<1> HIDE DEF f, g, n
<1>5. \A k \in 1..(n - 1) : g[k] = f[k]
  <2> TAKE k \in 1..(n - 1)
  <2>1. k \in 1..n
    BY <1>1
  <2>2. Piece(buf', Lo(open, k), Hi(buf, open, k)) = Piece(buf, Lo(open, k), Hi(buf, open, k))
    BY <1>1, <1>4, <2>1
  <2> QED
    BY <1>2, <1>3, <2>1, <2>2
<1>6. Front(g) = Front(f)
  BY <1>1, <1>2, <1>5, FrontSame
<1>7. n \in 1..n /\ Last(f) = f[n] /\ Last(g) = g[n]
  BY <1>1, <1>2 DEF Last
<1>8. Lo(open, n) \in Nat /\ Lo(open, n) <= Len(buf) /\ Len(buf) <= Len(buf)
  BY <1>1, <1>3, <1>7
<1>9. Last(f).body = old /\ Last(g).body = old \o c /\ Last(g).width = Last(f).width
  <2>1. f[n] = [width |-> Width(open, n), body |-> old]
    BY <1>2, <1>3, <1>7
  <2>2. Piece(buf', Lo(open, n), Len(buf')) = old \o c
    BY <1>4, <1>8
  <2>3. g[n] = [width |-> Width(open, n), body |-> old \o c]
    BY <1>2, <1>3, <1>7, <2>2
  <2> HIDE DEF old
  <2> QED
    BY <1>7, <2>1, <2>3
<1>10. IsPrefix(Last(f).body, Last(g).body)
  <2>1. old \in Seq(Byte)
    BY <1>1, <1>8, PieceType DEF IInv, TypeOK
  <2> HIDE DEF old
  <2> QED
    BY <1>9, <2>1, PrefixOfConcat
<1> QED
  BY <1>2, <1>6, <1>9, <1>10, WireEnds DEF Wire!Write, Wire!Grew, f, g

\* A frame with another body.
LEMMA BodySet ==
    ASSUME NEW w, NEW old, NEW new
    PROVE  [[width |-> w, body |-> old] EXCEPT !.body = new] = [width |-> w, body |-> new]
OBVIOUS

\* A tag joins the innermost frame, and an empty frame opens behind the placeholder.
LEMMA BeginFrames ==
    ASSUME IInv, IInv', StartFits, NEW tag \in Tags, NEW width \in Widths, BeginMsg(tag, width)
    PROVE  Wire!Open
<1> DEFINE f == Frames
           g == Frames'
           n == Len(open) + 1
           w == write_wide_varint(width, 0)
           old == Piece(buf, Lo(open, n), Len(buf))
           last == [width |-> Width(open, n), body |-> old \o tag]
           new == [width |-> width, body |-> << >>]
           b0 == buf \o tag
<1>1. /\ n \in Nat \ {0} /\ Len(buf) \in Nat /\ n - 1 = Len(open)
      /\ \A k \in 1..n : /\ Lo(open, k) \in Nat /\ Hi(buf, open, k) \in Nat
                         /\ Lo(open, k) <= Hi(buf, open, k) /\ Hi(buf, open, k) <= Len(buf)
  BY LoHiType
<1>2. /\ tag \in Seq(Byte) /\ width \in Nat /\ Len(tag) \in Nat
      /\ w \in Seq(Byte) /\ Len(w) = width /\ buf \in Seq(Byte)
  <2>1. tag \in Seq(Byte) /\ width \in Nat
    BY TackAssumption
  <2> QED
    BY <2>1, WideType, LenProperties DEF IInv, TypeOK
<1>3. /\ buf' = b0 \o w
      /\ open' = Append(open, NewTack(Len(buf) + Len(tag), width))
      /\ Len(buf) + (Len(tag) + width) <= Capacity
  BY DEF BeginMsg, Bounded
<1> HIDE DEF w
<1>4. /\ b0 \in Seq(Byte) /\ Len(b0) = Len(buf) + Len(tag)
      /\ \A lo, hi \in Nat : lo <= hi /\ hi <= Len(buf) => Piece(b0, lo, hi) = Piece(buf, lo, hi)
      /\ \A lo \in Nat : lo <= Len(buf) =>
            Piece(b0, lo, Len(b0)) = Piece(buf, lo, Len(buf)) \o tag
  <2>1. b0 = buf \o tag
    OBVIOUS
  <2>2. tag \in Seq(Byte)
    BY <1>2
  <2> HIDE DEF b0
  <2> QED
    BY <2>1, <2>2, AppendPieces, ZenonT(30)
<1> HIDE DEF b0
<1>5. /\ IsSeq(b0) /\ IsSeq(buf') /\ Len(buf') = Len(buf) + Len(tag) + width
      /\ \A i \in 1..Len(b0) : buf'[i] = b0[i]
  <2>1. IsSeq(b0) /\ IsSeq(w)
    BY <1>2, <1>4, SeqOverSet
  <2>2. /\ IsSeq(b0 \o w) /\ Len(b0 \o w) = Len(b0) + Len(w)
        /\ \A i \in 1..Len(b0) : (b0 \o w)[i] = b0[i]
    BY <2>1, ConcatFacts
  <2> QED
    BY <1>2, <1>3, <1>4, <2>1, <2>2
<1>6. \A lo, hi \in Nat : lo <= hi /\ hi <= Len(b0) => Piece(buf', lo, hi) = Piece(b0, lo, hi)
  <2> SUFFICES ASSUME NEW lo \in Nat, NEW hi \in Nat, lo <= hi, hi <= Len(b0)
               PROVE  Piece(buf', lo, hi) = Piece(b0, lo, hi)
    OBVIOUS
  <2>1. hi <= Len(buf') /\ \A i \in (lo + 1)..hi : buf'[i] = b0[i]
    BY <1>1, <1>2, <1>4, <1>5
  <2> QED
    BY <1>5, <2>1, PieceSame
<1>7. /\ Len(open') = n
      /\ \A i \in 1..(n - 1) : open'[i] = open[i]
      /\ open'[n].start = Len(buf) + Len(tag) + width
      /\ open'[n].width = width
  <2> DEFINE t == [start |-> Len(buf) + Len(tag) + width, width |-> width]
  <2>1. NewTack(Len(buf) + Len(tag), width) = t
    <3>1. Len(buf) + Len(tag) + width < U32
      BY <1>1, <1>2, <1>3, TackAssumption DEF StartFits
    <3>2. Len(buf) + Len(tag) + width \in Nat /\ U32 \in Nat
      BY <1>1, <1>2, TackAssumption
    <3>3. (Len(buf) + Len(tag) + width) % U32 = Len(buf) + Len(tag) + width
      BY <3>1, <3>2, ModSmall
    <3> QED
      BY <3>3 DEF NewTack
  <2>2. t.start = Len(buf) + Len(tag) + width /\ t.width = width
    OBVIOUS
  <2> HIDE DEF t
  <2>3. IsSeq(open)
    BY SeqOverSet DEF IInv, TypeOK
  <2>4. /\ Len(open') = Len(open) + 1
        /\ \A i \in 1..Len(open) : open'[i] = open[i]
        /\ open'[Len(open) + 1] = t
    BY <1>3, <2>1, <2>3, AppendFacts
  <2> QED
    BY <1>1, <2>2, <2>4
<1>8. /\ IsSeq(f) /\ Len(f) = n
      /\ \A k \in 1..n : f[k] = [width |-> Width(open, k),
                                  body |-> Piece(buf, Lo(open, k), Hi(buf, open, k))]
      /\ IsSeq(g) /\ Len(g) = n + 1
      /\ \A k \in 1..(n + 1) : g[k] = [width |-> Width(open', k),
                                  body |-> Piece(buf', Lo(open', k), Hi(buf', open', k))]
  BY <1>7, FramesSteps
<1>9. /\ \A k \in 1..n : Lo(open', k) = Lo(open, k) /\ Width(open', k) = Width(open, k)
      /\ \A k \in 1..(n - 1) : Hi(buf', open', k) = Hi(buf, open, k)
      /\ Hi(buf, open, n) = Len(buf)
      /\ Hi(buf', open', n) = Len(b0)
      /\ Lo(open', n + 1) = Len(buf') /\ Hi(buf', open', n + 1) = Len(buf')
      /\ Width(open', n + 1) = width
  <2>1. \A k \in 1..n : Lo(open', k) = Lo(open, k) /\ Width(open', k) = Width(open, k)
    <3> TAKE k \in 1..n
    <3>1. k # 1 => k - 1 \in 1..(n - 1)
      BY <1>1
    <3> QED
      BY <1>7, <3>1 DEF Lo, Width
  <2>2. \A k \in 1..(n - 1) : Hi(buf', open', k) = Hi(buf, open, k)
    <3> TAKE k \in 1..(n - 1)
    <3>1. k <= Len(open) /\ k <= Len(open')
      BY <1>1, <1>7
    <3> QED
      BY <1>7, <3>1 DEF Hi
  <2>3. Hi(buf, open, n) = Len(buf)
    BY <1>1 DEF Hi
  <2>4. Hi(buf', open', n) = Len(b0)
    BY <1>1, <1>2, <1>4, <1>7 DEF Hi
  <2>5. Lo(open', n + 1) = Len(buf') /\ Width(open', n + 1) = width
    BY <1>1, <1>5, <1>7 DEF Lo, Width
  <2>6. Hi(buf', open', n + 1) = Len(buf')
    BY <1>1, <1>7 DEF Hi
  <2> QED
    BY <2>1, <2>2, <2>3, <2>4, <2>5, <2>6
<1> HIDE DEF f, g, n, last, new
<1>10. n \in 1..n /\ n \in 1..(n + 1) /\ n + 1 \in 1..(n + 1)
  BY <1>1
<1>11. f[n] = [width |-> Width(open, n), body |-> old]
  BY <1>8, <1>9, <1>10
<1>12. g[n] = last
  <2>1. Lo(open, n) \in Nat /\ Lo(open, n) <= Len(buf) /\ Len(b0) \in Nat
        /\ Lo(open, n) <= Len(b0) /\ Len(b0) <= Len(b0)
    BY <1>1, <1>2, <1>4, <1>9, <1>10
  <2>2. Piece(buf', Lo(open, n), Len(b0)) = old \o tag
    BY <1>4, <1>6, <2>1
  <2> QED
    BY <1>8, <1>9, <1>10, <2>2 DEF last
<1>13. g[n + 1] = new
  <2>1. Len(buf') \in Nat /\ Len(buf') <= Len(buf')
    BY <1>1, <1>2, <1>5
  <2>2. Piece(buf', Len(buf'), Len(buf')) = << >>
    BY <1>5, <2>1, EmptyPiece
  <2> QED
    BY <1>8, <1>9, <1>10, <2>2 DEF new
<1>14. \A k \in 1..(n - 1) : g[k] = f[k]
  <2> TAKE k \in 1..(n - 1)
  <2>1. k \in 1..n /\ k \in 1..(n + 1)
    BY <1>1
  <2>2. /\ Lo(open, k) \in Nat /\ Hi(buf, open, k) \in Nat
        /\ Lo(open, k) <= Hi(buf, open, k)
        /\ Hi(buf, open, k) <= Len(buf) /\ Hi(buf, open, k) <= Len(b0)
    BY <1>1, <1>2, <1>4, <2>1
  <2>3. Piece(buf', Lo(open, k), Hi(buf, open, k)) = Piece(buf, Lo(open, k), Hi(buf, open, k))
    BY <1>4, <1>6, <2>2
  <2> QED
    BY <1>8, <1>9, <2>1, <2>3
<1>15. [f EXCEPT ![n].body = @ \o tag] = [f EXCEPT ![n] = last]
  <2>1. f[n].body = old
    BY <1>11
  <2>2. [f[n] EXCEPT !.body = old \o tag] = last
    <3>1. f[n] = [width |-> Width(open, n), body |-> old]
      BY <1>11
    <3> DEFINE body == old \o tag
    <3> HIDE DEF old, body
    <3>2. [f[n] EXCEPT !.body = body] = [width |-> Width(open, n), body |-> body]
      BY <3>1, BodySet
    <3> QED
      BY <3>2 DEF last, body
  <2>3. [f EXCEPT ![n].body = old \o tag] = [f EXCEPT ![n] = [f[n] EXCEPT !.body = old \o tag]]
    OBVIOUS
  <2>4. [f EXCEPT ![n].body = @ \o tag] = [f EXCEPT ![n].body = old \o tag]
    BY <2>1
  <2> QED
    BY <2>2, <2>3, <2>4
<1>16. g = Append([f EXCEPT ![n] = last], new)
  <2> DEFINE e == [f EXCEPT ![n] = last]
  <2>1. /\ IsSeq(e) /\ Len(e) = n
        /\ \A k \in 1..n : e[k] = IF k = n THEN last ELSE f[k]
    BY <1>8, SeqFacts, ExceptFacts, ZenonT(30)
  <2> HIDE DEF e
  <2>2. /\ IsSeq(Append(e, new)) /\ Len(Append(e, new)) = n + 1
        /\ \A k \in 1..n : Append(e, new)[k] = e[k]
        /\ Append(e, new)[n + 1] = new
    BY <2>1, AppendFacts
  <2>3. \A k \in 1..(n + 1) : g[k] = Append(e, new)[k]
    <3> TAKE k \in 1..(n + 1)
    <3>1. CASE k = n + 1
      BY <1>13, <2>2, <3>1
    <3>2. CASE k = n
      BY <1>10, <1>12, <2>1, <2>2, <3>2
    <3>3. CASE k # n /\ k # n + 1
      <4>1. k \in 1..(n - 1) /\ k \in 1..n
        BY <1>1, <3>3
      <4> QED
        BY <1>14, <2>1, <2>2, <3>3, <4>1
    <3> QED
      BY <3>1, <3>2, <3>3
  <2>4. g = Append(e, new)
    BY <1>8, <2>2, <2>3, SameSeq
  <2> QED
    BY <2>4 DEF e
<1> QED
  BY <1>8, <1>15, <1>16 DEF Wire!Open, f, g, new

\* Dropping the innermost Tack with `prefix` in the place of its placeholder, its payload behind
\* it, folds it into the frame around it.
LEMMA CloseFrames ==
    ASSUME IInv, IInv', open # << >>, open' = Front(open),
           NEW at \in Nat, at = Last(open).start - Last(open).width,
           NEW prefix \in Seq(Byte), Spliced(buf, buf', at, Last(open).start, prefix)
    PROVE  LET payload == Piece(buf, Last(open).start, Len(buf))
           IN  /\ Last(Frames) = [width |-> Last(open).width, body |-> payload]
               /\ payload \in Seq(Byte) /\ Len(payload) = Len(buf) - Last(open).start
               /\ Wire!Fold(prefix \o payload)
<1> DEFINE f == Frames
           g == Frames'
           n == Len(open)
           t == Last(open)
           payload == Piece(buf, t.start, Len(buf))
           outer == Piece(buf, Lo(open, n), at)
           w == Width(open, n)
           x == [width |-> w, body |-> outer \o (prefix \o payload)]
<1>1. /\ n \in Nat \ {0} /\ Len(buf) \in Nat 
      /\ \A k \in 1..(n + 1) : /\ Lo(open, k) \in Nat /\ Hi(buf, open, k) \in Nat
                         /\ Lo(open, k) <= Hi(buf, open, k) /\ Hi(buf, open, k) <= Len(buf)
      /\ t = open[n] /\ t \in Tack
      /\ Len(open') = n - 1
      /\ \A i \in 1..(n - 1) : open'[i] = open[i]
  <2>1. open \in Seq(Tack)
    BY DEF IInv, TypeOK
  <2>2. /\ n \in Nat \ {0} /\ t = open[n] /\ t \in Tack
        /\ Len(open') = n - 1 /\ \A i \in 1..(n - 1) : open'[i] = open[i]
    BY <2>1, FrontProps
  <2> QED
    BY <2>2, LoHiType, LenProperties
<1>2. /\ IsSeq(f) /\ Len(f) = n + 1
      /\ \A k \in 1..(n + 1) : f[k] = [width |-> Width(open, k),
                                  body |-> Piece(buf, Lo(open, k), Hi(buf, open, k))]
      /\ IsSeq(g) /\ Len(g) = n
      /\ \A k \in 1..n : g[k] = [width |-> Width(open', k),
                                  body |-> Piece(buf', Lo(open', k), Hi(buf', open', k))]
  <2>1. (n - 1) + 1 = n
    BY <1>1
  <2> QED
    BY <1>1, <2>1, FramesSteps
<1>3. /\ \A k \in 1..n : Lo(open', k) = Lo(open, k) /\ Width(open', k) = Width(open, k)
      /\ \A k \in 1..(n - 1) : Hi(buf', open', k) = Hi(buf, open, k) /\ Hi(buf, open, k) <= at
      /\ Hi(buf', open', n) = Len(buf')
      /\ Hi(buf, open, n) = at
      /\ Lo(open, n + 1) = t.start /\ Hi(buf, open, n + 1) = Len(buf) /\ Width(open, n + 1) = t.width
  <2>1. \A k \in 1..n : Lo(open', k) = Lo(open, k) /\ Width(open', k) = Width(open, k)
    <3> TAKE k \in 1..n
    <3>1. k # 1 => k - 1 \in 1..(n - 1)
      BY <1>1
    <3> QED
      BY <1>1, <3>1 DEF Lo, Width
  <2>2. ASSUME NEW k \in 1..(n - 1)
        PROVE  Hi(buf', open', k) = Hi(buf, open, k) /\ Hi(buf, open, k) <= at
    <3>1. k <= Len(open) /\ k <= Len(open') /\ k < n /\ k \in 1..n
      BY <1>1
    <3>2. Hi(buf', open', k) = Hi(buf, open, k) /\ Hi(buf, open, k) = open[k].start - open[k].width
      BY <1>1, <3>1 DEF Hi
    <3>3. open[k].start <= at
      <4>1. n \in 1..n
        BY <1>1
      <4> QED
        BY <1>1, <3>1, <4>1 DEF IInv, Nested
    <3>4. open[k].start \in Nat /\ open[k].width \in Nat
      <4>1. open \in Seq(Tack) /\ k \in 1..Len(open)
        BY <3>1 DEF IInv, TypeOK
      <4>2. open[k] \in Tack
        BY <4>1, ElementOfSeq
      <4> QED
        BY <4>2 DEF Tack
    <3> QED
      BY <3>2, <3>3, <3>4
  <2>3. Hi(buf', open', n) = Len(buf')
    BY <1>1 DEF Hi
  <2>4. Hi(buf, open, n) = at
    BY <1>1 DEF Hi
  <2>5. Lo(open, n + 1) = t.start /\ Width(open, n + 1) = t.width
    BY <1>1 DEF Lo, Width
  <2>6. Hi(buf, open, n + 1) = Len(buf)
    BY <1>1 DEF Hi
  <2> QED
    BY <2>1, <2>2, <2>3, <2>4, <2>5, <2>6
<1> HIDE DEF f, g, n, t, w, x
<1>4. n \in 1..(n + 1) /\ n + 1 \in 1..(n + 1) /\ n \in 1..n
  BY <1>1
<1>5. /\ buf \in Seq(Byte) /\ buf' \in Seq(Byte) /\ IsSeq(buf) /\ IsSeq(buf') /\ IsSeq(prefix)
      /\ Len(buf') \in Nat
  <2>1. buf \in Seq(Byte) /\ buf' \in Seq(Byte)
    BY DEF IInv, TypeOK
  <2> QED
    BY <2>1, SeqOverSet, LenProperties
<1>6. /\ t.start \in Nat /\ t.start <= Len(buf) /\ at <= t.start
      /\ Lo(open, n) \in Nat /\ Lo(open, n) <= at /\ at <= Len(buf)
  <2>1. t.start \in Nat /\ t.width \in Nat
    BY <1>1 DEF Tack
  <2>2. at = t.start - t.width
    BY DEF t
  <2>3. t.start <= Len(buf)
    BY <1>1, <1>3, <1>4
  <2>4. Lo(open, n) \in Nat /\ Lo(open, n) <= at /\ at <= Len(buf)
    BY <1>1, <1>3, <1>4
  <2> QED
    BY <2>1, <2>2, <2>3, <2>4
<1>7. payload \in Seq(Byte) /\ Len(payload) = Len(buf) - t.start
  <2>1. Len(buf) <= Len(buf)
    BY <1>1
  <2>2. payload \in Seq(Byte)
    BY <1>1, <1>5, <1>6, <2>1, PieceType
  <2>3. Len(payload) = Len(buf) - t.start
    <3> DEFINE hi == Len(buf)
               lo == t.start
    <3>1. IsSeq(buf) /\ lo \in Nat /\ hi \in Nat /\ lo <= hi /\ hi <= Len(buf)
      BY <1>1, <1>5, <1>6, <2>1
    <3> HIDE DEF lo, hi
    <3>2. Len(Piece(buf, lo, hi)) = hi - lo
      BY <3>1, PieceFacts
    <3> QED
      BY <3>2 DEF lo, hi
  <2> QED
    BY <2>2, <2>3
<1>8. /\ at <= Len(buf')
      /\ \A lo, hi \in Nat : lo <= hi /\ hi <= at => Piece(buf', lo, hi) = Piece(buf, lo, hi)
      /\ \A lo \in Nat : lo <= at =>
            Piece(buf', lo, Len(buf')) = Piece(buf, lo, at) \o (prefix \o payload)
  <2>1. Spliced(buf, buf', at, t.start, prefix)
    BY DEF t
  <2> DEFINE start == t.start
  <2>2. /\ Spliced(buf, buf', at, start, prefix) /\ at \in Nat /\ start \in Nat
        /\ at <= start /\ start <= Len(buf)
    BY <1>6, <2>1
  <2>3. IsSeq(buf) /\ IsSeq(buf') /\ IsSeq(prefix)
    BY <1>5
  <2> HIDE DEF start, payload, outer
  <2>4. /\ at <= Len(buf')
        /\ \A lo, hi \in Nat : lo <= hi /\ hi <= at => Piece(buf', lo, hi) = Piece(buf, lo, hi)
        /\ \A lo \in Nat : lo <= at =>
              Piece(buf', lo, Len(buf')) = Piece(buf, lo, at) \o (prefix \o Piece(buf, start, Len(buf)))
    BY <2>2, <2>3, SplicedPieces, SMTT(60)
  <2> QED
    BY <2>4 DEF start, payload
<1> HIDE DEF payload, outer
<1>9. Piece(buf', Lo(open, n), Len(buf')) = outer \o (prefix \o payload)
  BY <1>6, <1>8 DEF outer
<1>10. \A k \in 1..(n - 1) : g[k] = f[k]
  <2> TAKE k \in 1..(n - 1)
  <2>1. k \in 1..n /\ k \in 1..(n + 1)
    BY <1>1
  <2>2. /\ Lo(open, k) \in Nat /\ Hi(buf, open, k) \in Nat
        /\ Lo(open, k) <= Hi(buf, open, k) /\ Hi(buf, open, k) <= at
    BY <1>1, <1>3, <2>1
  <2>3. Piece(buf', Lo(open, k), Hi(buf, open, k)) = Piece(buf, Lo(open, k), Hi(buf, open, k))
    BY <1>8, <2>2
  <2> QED
    BY <1>2, <1>3, <2>1, <2>3
<1>11. f[n] = [width |-> w, body |-> outer] /\ g[n] = x
  BY <1>2, <1>3, <1>4, <1>9 DEF w, x, outer
<1>12. Last(f) = [width |-> t.width, body |-> payload]
  <2>1. Last(f) = f[n + 1]
    BY <1>2 DEF Last
  <2> QED
    BY <1>2, <1>3, <1>4, <2>1 DEF payload
<1>13. /\ IsSeq(Front(f)) /\ Len(Front(f)) = n /\ DOMAIN Front(f) = 1..n
       /\ \A k \in 1..n : Front(f)[k] = f[k]
  <2>1. f # << >> /\ Len(f) - 1 = n
    BY <1>1, <1>2
  <2>2. /\ IsSeq(Front(f)) /\ Len(Front(f)) = Len(f) - 1
        /\ \A k \in DOMAIN Front(f) : Front(f)[k] = f[k]
    BY <1>2, <2>1, FrontFacts
  <2> QED
    BY <2>1, <2>2, SeqFacts
<1>14. g = [Front(f) EXCEPT ![n].body = @ \o (prefix \o payload)]
  <2> DEFINE r == Front(f)
             e == [r EXCEPT ![n] = x]
             y == outer \o (prefix \o payload)
  <2>1. r[n] = [width |-> w, body |-> outer] /\ r[n].body = outer
    BY <1>4, <1>11, <1>13
  <2>2. /\ IsSeq(e) /\ Len(e) = n
        /\ \A k \in 1..n : e[k] = IF k = n THEN x ELSE r[k]
    BY <1>13, ExceptFacts, ZenonT(30)
  <2>3. \A k \in 1..n : r[k] = f[k]
    BY <1>13
  <2>4. x = [width |-> w, body |-> y]
    BY DEF x
  <2> HIDE DEF r, y
  <2>5. [r[n] EXCEPT !.body = y] = [width |-> w, body |-> y]
    BY <2>1, BodySet
  <2>6. [r EXCEPT ![n].body = y] = [r EXCEPT ![n] = [r[n] EXCEPT !.body = y]]
    OBVIOUS
  <2>7. [r EXCEPT ![n].body = @ \o (prefix \o payload)] = [r EXCEPT ![n].body = y]
    BY <2>1 DEF y
  <2>8. [r EXCEPT ![n].body = @ \o (prefix \o payload)] = e
    BY <2>4, <2>5, <2>6, <2>7
  <2> HIDE DEF e
  <2>9. \A k \in 1..n : g[k] = e[k]
    <3> TAKE k \in 1..n
    <3>1. CASE k = n
      BY <1>11, <2>2, <3>1
    <3>2. CASE k # n
      <4>1. k \in 1..(n - 1)
        BY <1>1, <3>2
      <4> QED
        BY <1>10, <2>2, <2>3, <3>2, <4>1
    <3> QED
      BY <3>1, <3>2
  <2>10. g = e
    BY <1>2, <2>2, <2>9, SameSeq
  <2> QED
    BY <2>8, <2>10 DEF r
<1>15. Wire!Fold(prefix \o payload)
  <2>1. Len(f) > 1 /\ Len(f) - 1 = n
    BY <1>1, <1>2
  <2> QED
    BY <1>14, <2>1, WireEnds DEF Wire!Fold, Wire!Join, f, g
<1> QED
  BY <1>7, <1>12, <1>15 DEF f, t, payload

\* Patching a length of the reserved width replaces the placeholder.
LEMMA CloseInPlaceSplices ==
    ASSUME NEW b \in Seq(Byte), NEW start \in Nat, NEW width \in Nat,
           width <= start, start <= Len(b),
           NEW bytes \in Seq(Byte), Len(bytes) = width
    PROVE  Spliced(b, Patched(b, start - width, bytes), start - width, start, bytes)
<1> DEFINE lo == start - width
           c == Patched(b, lo, bytes)
           m == Len(b)
<1>1. m \in Nat /\ lo \in Nat /\ lo + width = start /\ start <= m
  BY LenProperties
<1>2. c = [i \in 1..m |-> IF i \in (lo + 1)..(lo + width) THEN bytes[i - lo] ELSE b[i]]
  BY DEF Patched
<1> HIDE DEF lo, c, m
<1>3. IsSeq(c) /\ Len(c) = m
  <2>1. c = [i \in 1..m |-> c[i]]
    BY <1>2
  <2> QED
    BY <1>1, <2>1, FunctionIsSeq
<1>4. \A i \in 1..lo : c[i] = b[i]
  BY <1>1, <1>2
<1>5. \A i \in 1..width : c[lo + i] = bytes[i]
  <2> TAKE i \in 1..width
  <2>1. lo + i \in 1..m /\ lo + i \in (lo + 1)..(lo + width) /\ (lo + i) - lo = i
    BY <1>1
  <2> QED
    BY <1>2, <2>1
<1>6. \A i \in 1..(m - start) : c[start + i] = b[start + i]
  <2> TAKE i \in 1..(m - start)
  <2>1. start + i \in 1..m /\ start + i \notin (lo + 1)..(lo + width)
    BY <1>1
  <2> QED
    BY <1>2, <2>1
<1>7. Len(c) = lo + width + (m - start)
  BY <1>1, <1>3
<1>8. \A i \in 1..(m - start) : c[lo + width + i] = b[start + i]
  BY <1>1, <1>6
<1> QED
  BY <1>4, <1>5, <1>7, <1>8 DEF Spliced, lo, c, m

\* Growing, shifting the payload and patching replaces the placeholder by the longer length.
LEMMA FixOverflowSplices ==
    ASSUME NEW b \in Seq(Byte), NEW t \in Tack, NEW required \in Nat,
           NEW fill \in [1..(required - t.width) -> Byte],
           t.width <= t.start, t.start <= Len(b), required > t.width
    PROVE  Spliced(b, fix_overflow(b, t, required, fill), t.start - t.width, t.start,
                   write_wide_varint(required, Len(b) - t.start))
<1> DEFINE m == Len(b)
           start == t.start
           width == t.width
           lo == start - width
           gap == required - width
           grown == b \o fill
           moved == copy_within(grown, start, m, start + gap)
           prefix == write_wide_varint(required, m - start)
           c == Patched(moved, lo, prefix)
<1>1. /\ m \in Nat /\ start \in Nat /\ width \in Nat /\ lo \in Nat /\ gap \in Nat
      /\ start <= m /\ lo + required = start + gap /\ m - start \in Nat
      /\ lo <= start /\ required \in Nat
  <2>1. width \in Nat /\ start \in Nat /\ m \in Nat /\ width <= start /\ start <= m /\ required > width
    BY LenProperties DEF Tack
  <2> HIDE DEF width, start, m
  <2> QED
    BY <2>1
<1>2. IsSeq(b) /\ IsSeq(fill) /\ Len(fill) = gap
  <2>1. fill \in Seq(Byte) /\ Len(fill) = gap
    <3>1. fill \in [1..gap -> Byte]
      OBVIOUS
    <3> HIDE DEF gap
    <3> QED
      BY <1>1, <3>1
  <2> QED
    BY <2>1, SeqOverSet
<1>3. prefix \in Seq(Byte) /\ Len(prefix) = required
  BY <1>1, WideType
<1>4. fix_overflow(b, t, required, fill) = c
  BY <1>2 DEF fix_overflow
<1> HIDE DEF m, start, width, lo, gap, grown, prefix
<1>5. /\ Len(grown) = m + gap
      /\ \A i \in 1..m : grown[i] = b[i]
  BY <1>2, ConcatFacts DEF grown, m
<1>6. moved = [i \in 1..(m + gap) |-> IF i \in ((start + gap) + 1)..((start + gap) + m - start)
                                     THEN grown[i - (start + gap) + start] ELSE grown[i]]
  BY <1>5 DEF copy_within
<1> HIDE DEF moved
<1>7. Len(moved) = m + gap
  <2>1. m + gap \in Nat /\ moved = [i \in 1..(m + gap) |-> moved[i]]
    BY <1>1, <1>6
  <2> QED
    BY <2>1, FunctionIsSeq
<1>8. c = [i \in 1..(m + gap) |-> IF i \in (lo + 1)..(lo + required)
                                 THEN prefix[i - lo] ELSE moved[i]]
  BY <1>3, <1>7 DEF Patched
<1> HIDE DEF c
<1>9. Len(c) = m + gap
  <2>1. m + gap \in Nat /\ c = [i \in 1..(m + gap) |-> c[i]]
    BY <1>1, <1>8
  <2> QED
    BY <2>1, FunctionIsSeq
<1>10. \A i \in 1..lo : c[i] = b[i]
  <2> TAKE i \in 1..lo
  <2>1. /\ i \in 1..(m + gap) /\ i \notin (lo + 1)..(lo + required) /\ i \in 1..m
        /\ i \notin ((start + gap) + 1)..((start + gap) + m - start)
    BY <1>1
  <2> QED
    BY <1>5, <1>6, <1>8, <2>1
<1>11. \A i \in 1..required : c[lo + i] = prefix[i]
  <2> TAKE i \in 1..required
  <2>1. lo + i \in 1..(m + gap) /\ lo + i \in (lo + 1)..(lo + required) /\ (lo + i) - lo = i
    BY <1>1
  <2> QED
    BY <1>8, <2>1
<1>12. \A i \in 1..(m - start) : c[lo + required + i] = b[start + i]
  <2> TAKE i \in 1..(m - start)
  <2> DEFINE j == lo + required + i
  <2>1. /\ j \in 1..(m + gap) /\ j \notin (lo + 1)..(lo + required)
        /\ j \in ((start + gap) + 1)..((start + gap) + m - start)
        /\ j - (start + gap) + start = start + i
        /\ start + i \in 1..m
    BY <1>1
  <2> HIDE DEF j
  <2>2. c[j] = moved[j] /\ moved[j] = grown[start + i]
    BY <1>6, <1>8, <2>1
  <2> QED
    BY <1>5, <2>1, <2>2 DEF j
<1>13. Len(c) = lo + required + (m - start)
  BY <1>1, <1>9
<1> QED
  BY <1>3, <1>4, <1>10, <1>11, <1>12, <1>13 DEF Spliced, lo, m, start, width, prefix

\* The bytes the length of Tack t's payload is written in when t is closed.
PatchWidth(t) == IF t.width > encoded_len_varint(DataLen(t)) THEN t.width
            ELSE encoded_len_varint(DataLen(t))

\* Closing a Tack replaces its placeholder by the length of its payload.
LEMMA CloseSplices ==
    ASSUME IInv, CloseInPlace \/ CloseOverflow
    PROVE  LET t == Last(open)
               prefix == write_wide_varint(PatchWidth(t), Len(buf) - t.start)
           IN  /\ open # << >> /\ open' = Front(open) /\ buf \in Seq(Byte)
               /\ t = open[Len(open)] /\ Len(open) \in 1..Len(open)
               /\ t \in Tack /\ t.width <= t.start /\ t.start <= Len(buf)
               /\ PatchWidth(t) \in Nat /\ PatchWidth(t) >= t.width
               /\ prefix \in Seq(Byte) /\ Len(prefix) = PatchWidth(t)
               /\ Spliced(buf, buf', t.start - t.width, t.start, prefix)
<1> DEFINE t == Last(open)
           at == t.start - t.width
           size == Len(buf) - t.start
           required == encoded_len_varint(size)
           width == PatchWidth(t)
           prefix == write_wide_varint(width, size)
<1>1. /\ open # << >> /\ open' = Front(open) /\ buf \in Seq(Byte)
      /\ t = open[Len(open)] /\ Len(open) \in 1..Len(open)
      /\ t \in Tack /\ t.width <= t.start /\ t.start <= Len(buf)
  <2>1. open # << >> /\ open' = Front(open) /\ buf \in Seq(Byte) /\ open \in Seq(Tack)
    BY DEF CloseInPlace, CloseOverflow, Dropping, Unstack, IInv, TypeOK
  <2>2. t \in Tack /\ t = open[Len(open)] /\ Len(open) \in 1..Len(open)
    BY <2>1, FrontProps
  <2> QED
    BY <2>1, <2>2 DEF IInv, StartInBuffer
<1>2. /\ t.start \in Nat /\ t.width \in Nat /\ Len(buf) \in Nat /\ at \in Nat /\ size \in Nat
  BY <1>1, LenProperties DEF Tack
<1>3. required \in Nat
  BY EncodedLenType, VarintAssumption
<1>4. width = IF t.width > required THEN t.width ELSE required
  BY DEF PatchWidth, DataLen
<1> HIDE DEF required, size, at
<1>5. width \in Nat /\ width >= t.width
  BY <1>2, <1>3, <1>4
<1>6. prefix \in Seq(Byte) /\ Len(prefix) = width
  <2> HIDE DEF width
  <2> QED
    BY <1>2, <1>5, WideType
<1> HIDE DEF width
<1>7. Spliced(buf, buf', at, t.start, prefix)
  <2>1. CASE CloseInPlace
    <3>1. required - t.width <= 0
      BY <2>1 DEF CloseInPlace, Extra, DataLen, required, size
    <3>2. width = t.width
      BY <1>2, <1>3, <1>4, <3>1
    <3>3. buf' = Patched(buf, t.start - t.width, prefix)
      BY <2>1, <3>2 DEF CloseInPlace, DataLen, size
    <3> HIDE DEF prefix, t
    <3> QED
      BY <1>1, <1>2, <1>6, <3>2, <3>3, CloseInPlaceSplices DEF at
  <2>2. CASE CloseOverflow
    <3>1. required - t.width > 0
      BY <2>2 DEF CloseOverflow, Extra, DataLen, required, size
    <3>2. width = required /\ required > t.width
      BY <1>2, <1>3, <1>4, <3>1
    <3>3. PICK fill \in [1..(required - t.width) -> Stale] :
                 buf' = fix_overflow(buf, t, required, fill)
      BY <2>2 DEF CloseOverflow, Extra, DataLen, required, size
    <3>4. fill \in [1..(required - t.width) -> Byte]
      BY <3>3, TackAssumption
    <3>5. prefix = write_wide_varint(required, Len(buf) - t.start)
      BY <3>2 DEF size
    <3> HIDE DEF prefix, t
    <3> QED
      BY <1>1, <1>3, <3>2, <3>3, <3>4, <3>5, FixOverflowSplices DEF at
  <2> QED
    BY <2>1, <2>2
<1> QED
  BY <1>1, <1>5, <1>6, <1>7 DEF width, size, at

\* A Tack that is closed leaves a length and the payload.
LEMMA CloseWires ==
    ASSUME IInv, IInv', CloseInPlace \/ CloseOverflow
    PROVE  Wire!Close
<1> DEFINE t == Last(open)
           at == t.start - t.width
           size == Len(buf) - t.start
           required == encoded_len_varint(size)
           width == IF t.width > required THEN t.width ELSE required
           prefix == write_wide_varint(width, size)
           payload == Piece(buf, t.start, Len(buf))
<1>0. width = PatchWidth(t)
  BY DEF PatchWidth, DataLen
<1>1. /\ open # << >> /\ open' = Front(open) /\ buf \in Seq(Byte)
      /\ t \in Tack /\ t.width <= t.start /\ t.start <= Len(buf)
  BY CloseSplices
<1>2. /\ t.start \in Nat /\ t.width \in Nat /\ Len(buf) \in Nat /\ at \in Nat /\ size \in Nat
  BY <1>1, LenProperties DEF Tack
<1>5. prefix \in Seq(Byte) /\ Len(prefix) = width
  BY <1>0, CloseSplices
<1>6. Spliced(buf, buf', at, t.start, prefix)
  BY <1>0, CloseSplices
<1> HIDE DEF required, size, at
<1>7. /\ Last(Frames) = [width |-> t.width, body |-> payload]
      /\ payload \in Seq(Byte) /\ Len(payload) = size
      /\ Wire!Fold(prefix \o payload)
  <2> HIDE DEF prefix
  <2> QED
    BY <1>1, <1>2, <1>5, <1>6, CloseFrames DEF at, size
<1>8. Wire!Prefix(t.width, size) = prefix
  BY WireEnds DEF Wire!Prefix, required
<1>9. (<< >> \o prefix) \o payload = prefix \o payload
  <2> HIDE DEF prefix
  <2> QED
    BY <1>5, ConcatSimplifications
<1>10. Wire!Last(Frames).width = t.width /\ Wire!Last(Frames).body = payload
  BY <1>7, WireEnds
<1> HIDE DEF t, payload, prefix
<1>11. Wire!Fold((<< >> \o Wire!Prefix(t.width, size)) \o payload)
  BY <1>7, <1>8, <1>9
<1> QED
  BY <1>7, <1>10, <1>11 DEF Wire!Close

\* A Tack that finds no room leaves its placeholder and the payload.
LEMMA SpillWires ==
    ASSUME IInv, IInv', CloseExhausted, mode = "running"
    PROVE  Wire!Spill
<1> DEFINE t == Last(open)
           at == t.start - t.width
           size == Len(buf) - t.start
           prefix == write_wide_varint(t.width, 0)
           payload == Piece(buf, t.start, Len(buf))
<1>1. /\ open # << >> /\ open' = Front(open) /\ buf' = buf /\ buf \in Seq(Byte)
      /\ t \in Tack /\ t.width <= t.start /\ t.start <= Len(buf) /\ Reserved(buf, t)
  <2>1. open # << >> /\ open' = Front(open) /\ buf' = buf /\ buf \in Seq(Byte) /\ open \in Seq(Tack)
    BY DEF CloseExhausted, Dropping, IInv, TypeOK
  <2>2. t \in Tack /\ t = open[Len(open)] /\ Len(open) \in 1..Len(open)
    BY <2>1, FrontProps
  <2> QED
    BY <2>1, <2>2 DEF IInv, StartInBuffer, PlaceholdersKept
<1>2. /\ t.start \in Nat /\ t.width \in Nat /\ Len(buf) \in Nat /\ at \in Nat /\ size \in Nat
      /\ at <= t.start /\ t.start - at = t.width /\ at + t.width = t.start
  BY <1>1, LenProperties DEF Tack
<1>3. prefix \in Seq(Byte) /\ Len(prefix) = t.width
  BY <1>2, WideType
<1> HIDE DEF prefix, t
<1>4. prefix = Piece(buf, at, t.start)
  BY <1>1 DEF Reserved, Piece, prefix
<1>5. Spliced(buf, buf', at, t.start, prefix)
  <2> DEFINE hi == t.start
             w == t.width
             n == Len(buf)
  <2>1. /\ IsSeq(buf) /\ hi \in Nat /\ hi <= n /\ w \in Nat /\ n \in Nat /\ at \in Nat /\ at <= hi
        /\ hi - at = w /\ at + w = hi
    BY <1>1, <1>2, SeqOverSet
  <2>2. prefix = Piece(buf, at, hi) /\ Len(prefix) = w
    BY <1>3, <1>4
  <2>3. buf' = buf
    BY <1>1
  <2>4. n = Len(buf)
    OBVIOUS
  <2> HIDE DEF hi, at, w, n, t, payload
  <2>5. \A i \in 1..(hi - at) : Piece(buf, at, hi)[i] = buf[at + i]
    BY <2>1, <2>4, PieceFacts, ZenonT(30)
  <2>6. \A i \in 1..w : buf[at + i] = prefix[i]
    BY <2>1, <2>2, <2>5
  <2>7. n = at + w + (n - hi)
    BY <2>1
  <2> QED
    BY <2>1, <2>2, <2>3, <2>4, <2>6, <2>7 DEF Spliced, hi
<1>6. /\ Last(Frames) = [width |-> t.width, body |-> payload]
      /\ Wire!Fold(prefix \o payload)
  BY <1>1, <1>2, <1>3, <1>5, CloseFrames DEF t
<1>7. Wire!Last(Frames).width = t.width /\ Wire!Last(Frames).body = payload
  BY <1>6, WireEnds
<1>8. ~Growable
  BY DEF CloseExhausted, Fits
<1> HIDE DEF payload
<1> QED
  BY <1>6, <1>7, <1>8, WireEnds DEF Wire!Spill, prefix

\* Nothing is written and nothing open: the output is empty.
LEMMA FramesInit == Init => Wire!Init
<1> SUFFICES ASSUME Init
             PROVE  Wire!Init
  OBVIOUS
<1>1. IInv
  BY InitIInv
<1>2. buf = << >> /\ open = << >> /\ Len(open) = 0 /\ Len(buf) = 0 /\ IsSeq(buf)
  <2>1. buf = << >> /\ open = << >>
    BY DEF Init
  <2>2. IsSeq(<< >>)
    BY DEF IsSeq
  <2> QED
    BY <2>1, <2>2
<1> DEFINE f == Frames
           g == <<[width |-> 0, body |-> << >>]>>
<1>3. f = View(buf, open)
  BY <1>1, FramesView
<1>4. Lo(open, 1) = 0 /\ Hi(buf, open, 1) = 0 /\ Width(open, 1) = 0
  BY <1>2 DEF Lo, Hi, Width
<1>5. Piece(buf, 0, 0) = << >>
  BY <1>2, EmptyPiece
<1> HIDE DEF f
<1>6. IsSeq(f) /\ Len(f) = 1 /\ f[1] = [width |-> 0, body |-> << >>]
  <2>1. IsSeq(f) /\ Len(f) = Len(open) + 1
    BY <1>2, <1>3, ViewFacts
  <2>2. 1 \in 1..(Len(open) + 1)
    BY <1>2
  <2>3. f[1] = [width |-> Width(open, 1), body |-> Piece(buf, Lo(open, 1), Hi(buf, open, 1))]
    BY <1>2, <1>3, <2>2, ViewFacts
  <2> QED
    BY <1>2, <1>4, <1>5, <2>1, <2>3
<1>7. IsSeq(g) /\ Len(g) = 1 /\ g[1] = [width |-> 0, body |-> << >>]
  <2>1. g = [i \in 1..1 |-> g[i]]
    OBVIOUS
  <2>2. g[1] = [width |-> 0, body |-> << >>]
    OBVIOUS
  <2> HIDE DEF g
  <2> QED
    BY <2>1, <2>2, FunctionIsSeq
<1> HIDE DEF g
<1>8. f = g
  BY <1>6, <1>7, SameSeq
<1> QED
  BY <1>8 DEF Wire!Init, f, g

\* Every step of the writer is a step of WireFrames or leaves the frames alone.
LEMMA FramesStep ==
    ASSUME StartFits, IInv, [Next]_vars
    PROVE  [Wire!Next]_Frames
<1>1. IInv'
  BY NextIInv
<1>2. ASSUME buf' = buf, open' = open PROVE Frames' = Frames
  BY <1>2 DEF Frames, BodyEnd
<1>3. ASSUME NEW c \in Seq(Byte), buf' = buf \o c, open' = open PROVE Wire!Next
  BY <1>1, <1>3, AppendFrames DEF Wire!Next
<1>4. ASSUME NEW c \in Chunks, Put(c) PROVE Wire!Next
  <2>1. c \in Seq(Byte)
    BY TackAssumption
  <2> QED
    BY <1>3, <1>4, <2>1 DEF Put
<1>5. ASSUME NEW tag \in Tags, NEW width \in Widths, BeginMsg(tag, width)
      PROVE  Wire!Next
  BY <1>1, <1>5, BeginFrames DEF Wire!Next
<1>6. ASSUME NEW tag \in Tags, NEW width \in Widths, BeginMsgPanics(tag, width)
      PROVE  [Wire!Next]_Frames
  <2>1. CASE Fits(Len(tag))
    <3>1. PICK c \in Seq(Byte) : buf' = buf \o c
      BY <1>6, <2>1, CutBegin
    <3>2. open' = open
      BY <1>6 DEF BeginMsgPanics
    <3> QED
      BY <1>3, <3>1, <3>2
  <2>2. CASE ~Fits(Len(tag))
    BY <1>2, <1>6, <2>2 DEF BeginMsgPanics
  <2> QED
    BY <2>1, <2>2
<1>7. CASE CloseInPlace \/ CloseOverflow
  BY <1>1, <1>7, CloseWires DEF Wire!Next
<1>8. CASE CloseExhausted
  <2>1. CASE mode = "running"
    BY <1>1, <1>8, <2>1, SpillWires DEF Wire!Next
  <2>2. CASE mode # "running"
    BY <1>2, <1>8, <2>2 DEF CloseExhausted
  <2> QED
    BY <2>1, <2>2
<1>9. ASSUME NEW c \in Chunks, PutPanics(c) PROVE Frames' = Frames
  BY <1>2, <1>9 DEF PutPanics
<1>10. CASE ClosurePanics \/ Finish \/ Terminating \/ UNCHANGED vars
  BY <1>2, <1>10 DEF ClosurePanics, Finish, Terminating, vars
<1> QED
  BY <1>4, <1>5, <1>6, <1>7, <1>8, <1>9, <1>10 DEF Next, Drop

(***************************************************************************)
(* However deep messages nest and however many lengths outgrow their       *)
(* placeholder, the buffer spells the messages the caller wrote: the       *)
(* forward writer implements WireFrames.                                   *)
(***************************************************************************)
THEOREM FramesMessages ==
    ASSUME StartFits
    PROVE  Spec => Framing
<1>1. Init => Wire!Init
  BY FramesInit
<1>2. IInv /\ [Next]_vars => [Wire!Next]_Frames
  BY FramesStep
<1> QED
  BY <1>1, <1>2, Invariance, PTL DEF Spec, Framing, Wire!Spec
=============================================================================
