---------------------------- MODULE RoundTrip_proofs ----------------------------
(***************************************************************************)
(* What a program writes is what its reader gets, for every schema, all    *)
(* values and any number of calls.                                         *)
(*                                                                         *)
(* First the writers (FieldWriters): every one of them puts bytes that do  *)
(* not depend on the buffer, whichever the direction it grows in and       *)
(* whether or not it hands out blocks.  Then what those bytes mean         *)
(* (Means): there is a reading of them in the sense of Reader_proofs, and  *)
(* what a caller makes of its fields is what the call said.  Meanings are  *)
(* joined as bytes are, so that a buffer means what all calls said, in its *)
(* order (Agree); the decoder's calls keep the reading of the buffer, and  *)
(* a buffer has one reading only.                                          *)
(***************************************************************************)
EXTENDS RoundTrip, Reader_proofs

-----------------------------------------------------------------------------
(* Buffers. *)

Buffers == [reverse : BOOLEAN, claims : BOOLEAN, bytes : Seq(Byte)]

\* The order in which a buffer holds what was written first and what was written then.
Both(b, s, t) == IF b.reverse THEN t \o s ELSE s \o t

\* Bytes put into a buffer, and others behind them.
LEMMA PutFacts ==
    ASSUME NEW b \in Buffers, NEW s \in Seq(Byte)
    PROVE  /\ put(b, s) \in Buffers
           /\ put(b, s).reverse = b.reverse /\ put(b, s).claims = b.claims
           /\ put(b, s).bytes = IF b.reverse THEN s \o b.bytes ELSE b.bytes \o s
           /\ put(b, << >>) = b
           /\ \A t \in Seq(Byte) : put(put(b, s), t) = put(b, Both(b, s, t))
<1>1. /\ b.bytes \in Seq(Byte) /\ b.reverse \in BOOLEAN
      /\ << >> \o b.bytes = b.bytes /\ b.bytes \o << >> = b.bytes
  BY DEF Buffers
<1>2. ASSUME NEW x \in Buffers, NEW t \in Seq(Byte)
      PROVE  /\ put(x, t) \in Buffers
             /\ put(x, t).reverse = x.reverse /\ put(x, t).claims = x.claims
             /\ put(x, t).bytes = IF x.reverse THEN t \o x.bytes ELSE x.bytes \o t
  <2> DEFINE c == IF x.reverse THEN t \o x.bytes ELSE x.bytes \o t
  <2>1. x.bytes \in Seq(Byte) /\ x.reverse \in BOOLEAN /\ x.claims \in BOOLEAN
        /\ x = [reverse |-> x.reverse, claims |-> x.claims, bytes |-> x.bytes]
    BY DEF Buffers
  <2>2. c \in Seq(Byte)
    BY <2>1
  <2>3. put(x, t) = [x EXCEPT !.bytes = c]
    BY DEF put
  <2> HIDE DEF c
  <2>4. put(x, t) = [reverse |-> x.reverse, claims |-> x.claims, bytes |-> c]
    BY <2>1, <2>3
  <2>5. put(x, t) \in Buffers
    BY <2>1, <2>2, <2>4 DEF Buffers
  <2> QED
    BY <2>4, <2>5 DEF c
<1>3. ASSUME NEW x \in Buffers, NEW y \in Buffers,
             x.reverse = y.reverse, x.claims = y.claims, x.bytes = y.bytes
      PROVE  x = y
  BY <1>3 DEF Buffers
<1>4. put(b, << >>) = b
  <2>1. << >> \in Seq(Byte)
    OBVIOUS
  <2>2. /\ put(b, << >>) \in Buffers
        /\ put(b, << >>).reverse = b.reverse /\ put(b, << >>).claims = b.claims
        /\ put(b, << >>).bytes = IF b.reverse THEN << >> \o b.bytes ELSE b.bytes \o << >>
    BY <1>2, <2>1
  <2>3. put(b, << >>).bytes = b.bytes
    BY <1>1, <2>2
  <2> QED
    BY <1>3, <2>2, <2>3
<1>5. ASSUME NEW t \in Seq(Byte)
      PROVE  put(put(b, s), t) = put(b, Both(b, s, t))
  <2>1. PICK c \in Seq(Byte) : c = b.bytes
    BY <1>1
  <2>2. t \o (s \o c) = (t \o s) \o c /\ (c \o s) \o t = c \o (s \o t)
    <3>1. \A x, y, z \in Seq(Byte) : (x \o y) \o z = x \o (y \o z)
      BY ConcatAssociative, SMTT(20)
    <3> QED
      BY <3>1
  <2>3. t \o s \in Seq(Byte) /\ s \o t \in Seq(Byte)
    OBVIOUS
  <2>4. Both(b, s, t) \in Seq(Byte)
    BY <2>3 DEF Both
  <2>5. put(b, s) \in Buffers /\ put(put(b, s), t) \in Buffers /\ put(b, Both(b, s, t)) \in Buffers
    BY <1>2, <2>4
  <2>6. put(put(b, s), t).bytes = put(b, Both(b, s, t)).bytes
    <3> DEFINE one == put(b, s)
               two == put(one, t)
               all == put(b, Both(b, s, t))
    <3>0. /\ one \in Buffers /\ one.reverse = b.reverse
          /\ one.bytes = IF b.reverse THEN s \o c ELSE c \o s
          /\ two.bytes = IF one.reverse THEN t \o one.bytes ELSE one.bytes \o t
          /\ all.bytes = IF b.reverse THEN Both(b, s, t) \o c ELSE c \o Both(b, s, t)
      BY <1>2, <2>1, <2>4, <2>5
    <3> HIDE DEF one, two, all
    <3>1. CASE b.reverse
      <4>1. one.reverse /\ one.bytes = s \o c /\ Both(b, s, t) = t \o s
        BY <3>0, <3>1 DEF Both
      <4>2. two.bytes = t \o (s \o c) /\ all.bytes = (t \o s) \o c
        BY <3>0, <3>1, <4>1
      <4> QED
        BY <2>2, <4>2 DEF two, one, all
    <3>2. CASE ~b.reverse
      <4>1. ~one.reverse /\ one.bytes = c \o s /\ Both(b, s, t) = s \o t
        BY <3>0, <3>2 DEF Both
      <4>2. two.bytes = (c \o s) \o t /\ all.bytes = c \o (s \o t)
        BY <3>0, <3>2, <4>1
      <4> QED
        BY <2>2, <4>2 DEF two, one, all
    <3> QED
      BY <3>1, <3>2 DEF two, one, all
  <2> QED
    BY <1>2, <1>3, <2>4, <2>5, <2>6
<1> QED
  BY <1>2, <1>4, <1>5

\* A closure's buffer.
LEMMA EmptiedFacts ==
    ASSUME NEW b \in Buffers, NEW s \in Seq(Byte)
    PROVE  /\ Emptied(b) \in Buffers /\ Emptied(b).reverse = b.reverse
           /\ put(Emptied(b), s).bytes = s
<1>1. << >> \in Seq(Byte) /\ s \o << >> = s /\ << >> \o s = s
  OBVIOUS
<1>2. Emptied(b) \in Buffers /\ Emptied(b).reverse = b.reverse /\ Emptied(b).bytes = << >>
  BY <1>1 DEF Emptied, Buffer, Buffers
<1> QED
  BY <1>1, <1>2, PutFacts, ZenonT(40)

-----------------------------------------------------------------------------
(* Keys. *)

\* The numbers a key has room for.
KeyNumber(nr) == nr \in Nat /\ (nr + 1) * KeyRadix <= U32

\* A key is read as what it was written for.
LEMMA TagReads ==
    ASSUME NEW nr, KeyNumber(nr), NEW wire \in WireType, NEW s \in Seq(Byte)
    PROVE  LET tag == EncodedTag(nr, wire) IN
           /\ tag \in Seq(Byte) /\ Len(tag) \in Nat
           /\ Len(tag) = encoded_len_varint(nr * KeyRadix + WireCode[wire])
           /\ decode_key(tag \o s) = Read([nr |-> nr, wire |-> wire], Len(tag))
           /\ After(tag \o s, Len(tag)) = s
<1> DEFINE code == WireCode[wire]
           v == nr * KeyRadix + code
           tag == EncodedTag(nr, wire)
           w == write_varint(v)
<1>1. code \in 0..5 /\ code \in Range(WireCode)
  <2>1. wire \in DOMAIN WireCode
    BY DEF WireCode, WireType
  <2>2. code \in Range(WireCode)
    BY <2>1 DEF Range
  <2> QED
    BY <2>2 DEF WireCode, WireType
<1>2. \A x \in WireType : WireCode[x] = code => x = wire
  BY DEF WireCode, WireType
<1> HIDE DEF code
<1>3. KeyRadix \in Nat /\ KeyRadix > 5 /\ nr \in Nat /\ (nr + 1) * KeyRadix <= U32
  BY ScalarsAssumption DEF KeyNumber
<1>4. U32 \in Nat \ {0} /\ U64 \in Nat \ {0} /\ U32 <= U64 /\ Word = 0..(U64 - 1)
  BY Widths
<1>5. (nr + 1) * KeyRadix = nr * KeyRadix + KeyRadix /\ nr * KeyRadix \in Nat
  BY ONLY <1>3
<1>6. v \in 0..(U32 - 1) /\ v \in Word
  <2>1. v \in Nat /\ v < nr * KeyRadix + KeyRadix
    BY <1>1, <1>3, <1>5
  <2> HIDE DEF v
  <2> QED
    BY <2>1, <1>3, <1>4, <1>5
<1>7. v % U32 = v
  <2> HIDE DEF v
  <2> QED
    BY ONLY <1>4, <1>6
<1>8. tag = w
  BY <1>7 DEF EncodedTag, code
<1>9. v % KeyRadix = code /\ v \div KeyRadix = nr
  <2>1. KeyRadix \in Nat \ {0} /\ code \in Nat /\ code < KeyRadix /\ nr \in Nat
    BY <1>1, <1>3
  <2>2. KeyRadix * nr = nr * KeyRadix
    BY ONLY <2>1
  <2> QED
    BY <2>1, <2>2, Quotient
<1>10. nr % U32 = nr
  <2>1. nr < U32
    <3>1. nr + 1 <= (nr + 1) * KeyRadix
      BY ONLY <1>3
    <3> QED
      BY <1>3, <1>4, <3>1
  <2> QED
    BY ONLY <2>1, <1>3, <1>4
<1>11. Key(v) = Read([nr |-> nr, wire |-> wire], 0)
  <2>1. (CHOOSE x \in WireType : WireCode[x] = code) = wire
    BY <1>2 DEF code
  <2> HIDE DEF v
  <2> QED
    BY <1>1, <1>9, <1>10, <2>1 DEF Key
<1>12. /\ w \in Seq(Byte) /\ Len(w) = encoded_len_varint(v) /\ Len(w) \in Nat
       /\ varint(w \o s) = Read(v, Len(w))
       /\ After(w \o s, Len(w)) = s
  BY <1>6, VarintReads
<1>13. decode_key(w \o s) = Read([nr |-> nr, wire |-> wire], Len(w))
  <2> HIDE DEF v, w
  <2>1. /\ ~IsErr(Read(v, Len(w))) /\ Read(v, Len(w)).value = v /\ Read(v, Len(w)).used = Len(w)
        /\ Moved(Read([nr |-> nr, wire |-> wire], 0), Len(w))
             = Read([nr |-> nr, wire |-> wire], 0 + Len(w))
    BY <1>12, MovedOn
  <2> QED
    BY <1>11, <1>12, <2>1 DEF decode_key, Try
<1> QED
  BY <1>8, <1>12, <1>13 DEF code

-----------------------------------------------------------------------------
(* Values and fields. *)

\* The bytes of a value, of a field and of a nested message.
PaddedLen(n) == IF encoded_len_varint(n) <= 2 THEN 2 ELSE encoded_len_varint(n)

Coded(p, v) ==
    IF v.streams THEN write_wide_varint(PaddedLen(Len(v.text)), Len(v.text)) \o v.text
                 ELSE write_value(p, v.scalar)

FieldBytes(nr, p, v) == EncodedTag(nr, WIRE_TYPE(p)) \o Coded(p, v)

MsgBytes(nr, body) == EncodedTag(nr, "LEN") \o (write_varint(Len(body)) \o body)

\* A value handed over for a field of type p.
Handed(p, v) == p \in Packable \cup LenScalars /\ Suits(p, v)

\* What is encoded of a value.
LEMMA ScalarBytes ==
    ASSUME NEW p, NEW v, Handed(p, v)
    PROVE  /\ write_value(p, v.scalar) \in Seq(Byte)
           /\ ~v.streams => v.scalar = v.text /\ v = Value(v.text)
           /\ v.streams => p \in LenScalars /\ v.scalar = << >> /\ v = Formatted(v.text)
           /\ v.streams \in BOOLEAN /\ Holds(p, v.text)
<1>1. /\ v \in {Value(v.text), Formatted(v.text)} /\ Holds(p, v.text)
      /\ v.streams => p \in LenScalars
      /\ p \in Packable \cup LenScalars
  BY DEF Handed, Suits
<1>2. /\ ~v.streams => v.scalar = v.text /\ v = Value(v.text)
      /\ v.streams => v.scalar = << >> /\ v = Formatted(v.text)
      /\ v.streams \in BOOLEAN
  <2>0. PICK t : t = v.text
    OBVIOUS
  <2>1. CASE v = Value(v.text)
    <3>1. Value(t).scalar = t /\ Value(t).streams = FALSE
      BY DEF Value
    <3>2. v.scalar = t /\ v.streams = FALSE
      BY <2>0, <2>1, <3>1
    <3> QED
      BY <2>0, <2>1, <3>2
  <2>2. CASE v = Formatted(v.text)
    <3>1. Formatted(t).scalar = << >> /\ Formatted(t).streams = TRUE
      BY DEF Formatted
    <3>2. v.scalar = << >> /\ v.streams = TRUE
      BY <2>0, <2>2, <3>1
    <3> QED
      BY <2>0, <2>2, <3>2
  <2> QED
    BY <1>1, <2>1, <2>2
<1>3. << >> \in Seq(Byte)
  OBVIOUS
<1>4. Holds(p, v.scalar)
  <2>1. CASE ~v.streams
    BY <1>1, <1>2, <2>1
  <2>2. CASE v.streams
    <3>1. 0 \in Word
      BY Widths
    <3>2. Len(<< >>) = 0 /\ IsUtf8(<< >>)
      BY DEF IsUtf8
    <3> QED
      BY <1>1, <1>2, <1>3, <2>2, <3>1, <3>2 DEF Holds
  <2> QED
    BY <2>1, <2>2
<1>5. SameForm(p, p)
  BY <1>1, Kinds
<1>6. write_value(p, v.scalar) \in Seq(Byte)
  BY <1>3, <1>4, <1>5, ReadsAs
<1> QED
  BY <1>1, <1>2, <1>6

\* Encoding a value puts its bytes.
LEMMA EncodePuts ==
    ASSUME NEW p, NEW v, Handed(p, v)
    PROVE  /\ Coded(p, v) \in Seq(Byte)
           /\ \A b \in Buffers : encode(b, p, v) = put(b, Coded(p, v))
<1>1. CASE ~v.streams
  BY <1>1, ScalarBytes DEF Coded, encode
<1>2. CASE v.streams
  <2>1. v.text \in Seq(Byte) /\ Len(v.text) \in Nat
    BY <1>2, ScalarBytes DEF Holds
  <2>2. PaddedLen(Len(v.text)) \in Nat
    BY EncodedLenType, VarintAssumption DEF PaddedLen
  <2>3. write_wide_varint(PaddedLen(Len(v.text)), Len(v.text)) \in Seq(Byte)
    BY <2>1, <2>2, WideType
  <2>4. Coded(p, v) \in Seq(Byte)
    BY <1>2, <2>1, <2>3 DEF Coded
  <2> QED
    BY <1>2, <2>4 DEF Coded, encode, stream, PaddedLen
<1> QED
  BY <1>1, <1>2, ScalarBytes

\* A varint of any number is bytes.
LEMMA VarintBytes ==
    ASSUME NEW v \in Nat
    PROVE  write_varint(v) \in Seq(Byte) /\ Len(write_varint(v)) = encoded_len_varint(v)
<1>1. encoded_len_varint(v) \in Nat
  BY EncodedLenType, VarintAssumption
<1> QED
  BY <1>1, WideType DEF write_varint

\* The tags of fields are bytes.
LEMMA TagBytes ==
    ASSUME NEW nr, KeyNumber(nr)
    PROVE  /\ EncodedTag(nr, "LEN") \in Seq(Byte)
           /\ \A p \in Packable \cup LenScalars :
                 WIRE_TYPE(p) \in WireType /\ EncodedTag(nr, WIRE_TYPE(p)) \in Seq(Byte)
<1>1. \A p \in Packable \cup LenScalars : WIRE_TYPE(p) \in WireType
  BY WireTypes DEF WireType, Packable
<1>2. "LEN" \in WireType /\ << >> \in Seq(Byte)
  BY DEF WireType
<1> QED
  BY <1>1, <1>2, TagReads

\* Every way to write a field puts its tag and its value.
LEMMA FieldPuts ==
    ASSUME NEW nr, KeyNumber(nr), NEW p, NEW v, Handed(p, v)
    PROVE  /\ FieldBytes(nr, p, v) \in Seq(Byte)
           /\ \A b \in Buffers : write_field(b, nr, p, v) = put(b, FieldBytes(nr, p, v))
<1> DEFINE tag == EncodedTag(nr, WIRE_TYPE(p))
           c == Coded(p, v)
<1>1. tag \in Seq(Byte) /\ c \in Seq(Byte)
  BY TagBytes, EncodePuts DEF Handed
<1>2. tag \o c \in Seq(Byte)
  BY <1>1
<1>3. ASSUME NEW b \in Buffers
      PROVE  write_field(b, nr, p, v) = put(b, tag \o c)
  <2>1. \A x \in Buffers : encode(x, p, v) = put(x, c)
    BY EncodePuts
  <2>2. write_field(b, nr, p, v) = IF b.reverse THEN put(encode(b, p, v), tag)
                                                ELSE encode(put(b, tag), p, v)
    BY DEF write_field
  <2> HIDE DEF tag, c
  <2>3. put(b, tag) \in Buffers
    BY <1>1, PutFacts
  <2>4. put(put(b, c), tag) = put(b, Both(b, c, tag)) /\ put(put(b, tag), c) = put(b, Both(b, tag, c))
    BY <1>1, PutFacts
  <2> QED
    BY <2>1, <2>2, <2>3, <2>4 DEF Both
<1> QED
  BY <1>2, <1>3 DEF FieldBytes

\* Every way to write a message puts its tag, its length and its bytes.
LEMMA MsgPuts ==
    ASSUME NEW nr, KeyNumber(nr), NEW body \in Seq(Byte)
    PROVE  /\ MsgBytes(nr, body) \in Seq(Byte)
           /\ \A b \in Buffers : write_msg(b, nr, body) = put(b, MsgBytes(nr, body))
<1> DEFINE tag == EncodedTag(nr, "LEN")
           len == write_varint(Len(body))
<1>1. tag \in Seq(Byte) /\ len \in Seq(Byte)
  BY TagBytes, VarintBytes
<1>2. len \o body \in Seq(Byte) /\ tag \o (len \o body) \in Seq(Byte) /\ tag \o len \in Seq(Byte)
  BY <1>1
<1>3. ASSUME NEW b \in Buffers
      PROVE  write_msg(b, nr, body) = put(b, tag \o (len \o body))
  <2>1. write_msg(b, nr, body) = IF b.reverse THEN put(put(put(b, body), len), tag)
                                              ELSE put(b, tag \o len \o body)
    BY DEF write_msg, put_msg
  <2>2. tag \o len \o body = tag \o (len \o body)
    <3> HIDE DEF tag, len
    <3>1. \A x, y, z \in Seq(Byte) : (x \o y) \o z = x \o (y \o z)
      BY ConcatAssociative, SMTT(20)
    <3> QED
      BY <1>1, <3>1
  <2> HIDE DEF tag, len
  <2>3. CASE b.reverse
    <3>0. PICK c \in Seq(Byte) : c = len \o body
      BY <1>2
    <3>1. put(put(b, body), len) = put(b, c)
      BY <1>1, <2>3, <3>0, PutFacts DEF Both
    <3>2. put(put(b, c), tag) = put(b, tag \o c)
      <4>1. put(put(b, c), tag) = put(b, Both(b, c, tag))
        BY <1>1, PutFacts
      <4>2. Both(b, c, tag) = tag \o c
        BY <2>3 DEF Both
      <4> QED
        BY <4>1, <4>2
    <3> QED
      BY <2>1, <2>3, <3>0, <3>1, <3>2
  <2>4. CASE ~b.reverse
    BY <2>1, <2>2, <2>4
  <2> QED
    BY <2>3, <2>4
<1> QED
  BY <1>2, <1>3 DEF MsgBytes

\* A member of a oneof that does not stream is written like any field; one that does
\* is written without its text.
LEMMA OneofPuts ==
    ASSUME NEW nr, KeyNumber(nr), NEW p, NEW v, Handed(p, v)
    PROVE  LET s == EncodedTag(nr, WIRE_TYPE(p)) \o write_value(p, v.scalar) IN
           /\ s \in Seq(Byte) /\ (~v.streams => s = FieldBytes(nr, p, v))
           /\ \A b \in Buffers : oneof_write(b, nr, p, v) = put(b, s)
<1> DEFINE tag == EncodedTag(nr, WIRE_TYPE(p))
           c == write_value(p, v.scalar)
<1>1. tag \in Seq(Byte) /\ c \in Seq(Byte)
  BY TagBytes, ScalarBytes DEF Handed
<1>2. tag \o c \in Seq(Byte)
  BY <1>1
<1>3. ~v.streams => tag \o c = FieldBytes(nr, p, v)
  BY DEF FieldBytes, Coded
<1>4. ASSUME NEW b \in Buffers
      PROVE  oneof_write(b, nr, p, v) = put(b, tag \o c)
  <2>1. oneof_write(b, nr, p, v) = IF b.reverse THEN put(put(b, c), tag)
                                                ELSE put(put(b, tag), c)
    BY DEF oneof_write
  <2> HIDE DEF tag, c
  <2>2. put(put(b, c), tag) = put(b, Both(b, c, tag)) /\ put(put(b, tag), c) = put(b, Both(b, tag, c))
    BY <1>1, PutFacts
  <2> QED
    BY <2>1, <2>2 DEF Both
<1> QED
  BY <1>2, <1>3, <1>4

-----------------------------------------------------------------------------
(* One piece of bytes after another. *)

\* What is turned round twice is as it was.
LEMMA OrderedFacts ==
    ASSUME NEW S, NEW s \in Seq(S), NEW b
    PROVE  /\ ordered(b, s) \in Seq(S) /\ Len(ordered(b, s)) = Len(s)
           /\ ordered(b, ordered(b, s)) = s
           /\ \A i \in 1..Len(s) : (IF b.reverse THEN Len(s) - i + 1 ELSE i) \in 1..Len(s)
                  /\ ordered(b, s)[i] = s[IF b.reverse THEN Len(s) - i + 1 ELSE i]
<1>1. CASE b.reverse
  <2>1. \A x \in Seq(S) : ordered(b, x) = Reverse(x)
    BY <1>1 DEF ordered
  <2> QED
    BY <1>1, <2>1, ReverseFacts
<1>2. CASE ~b.reverse
  BY <1>2 DEF ordered
<1> QED
  BY <1>1, <1>2

\* g goes through the buffers there are after each piece.
Puts(g, b, cs) ==
    /\ g[0] = b
    /\ \A i \in 1..Len(cs) : g[i - 1] \in Buffers => g[i] = put(g[i - 1], cs[i])

\* All the pieces, the way the buffer grows.
LEMMA PutsAll ==
    ASSUME NEW b \in Buffers
    PROVE  \A cs \in Seq(Seq(Byte)) : \A g :
               Puts(g, b, cs) => g[Len(cs)] = put(b, FlattenSeq(ordered(b, cs)))
<1> DEFINE S == Seq(Byte)
           T == {cs \in Seq(S) : \A g : Puts(g, b, cs) =>
                     g[Len(cs)] = put(b, FlattenSeq(ordered(b, cs)))}
<1>0. << >> \in S /\ << >> \in Seq(S) /\ Len(<< >>) = 0
  OBVIOUS
<1>1. << >> \in T
  <2>1. ordered(b, << >>) \in Seq(S) /\ Len(ordered(b, << >>)) = 0
    BY <1>0, OrderedFacts
  <2>2. ordered(b, << >>) = << >>
    BY <2>1
  <2>3. FlattenSeq(<< >>) = << >>
    BY <1>0, FlattenFew
  <2>4. put(b, << >>) = b
    BY <1>0, PutFacts
  <2> QED
    BY <1>0, <2>2, <2>3, <2>4 DEF Puts
<1>2. ASSUME NEW cs \in Seq(S), NEW e \in S, cs \in T
      PROVE  Append(cs, e) \in T
  <2> DEFINE n == Len(cs)
             F == FlattenSeq(ordered(b, cs))
             ds == Append(cs, e)
  <2>1. /\ n \in Nat /\ ds \in Seq(S) /\ Len(ds) = n + 1 /\ ds[n + 1] = e
        /\ \A i \in 1..n : ds[i] = cs[i]
    BY AppendProperties
  <2>2. F \in S
    <3>1. ordered(b, cs) \in Seq(S)
      BY OrderedFacts
    <3> QED
      BY <1>0, <3>1, FlattenAppend
  <2>3. FlattenSeq(ordered(b, ds)) = Both(b, F, e)
    <3>1. CASE b.reverse
      <4>1. ordered(b, ds) = <<e>> \o Reverse(cs) /\ Reverse(cs) \in Seq(S)
        BY <3>1, ReverseFacts DEF ordered
      <4>2. FlattenSeq(<<e>> \o Reverse(cs)) = e \o FlattenSeq(Reverse(cs))
        BY <4>1, FlattenFew
      <4> QED
        BY <3>1, <4>1, <4>2 DEF ordered, Both
    <3>2. CASE ~b.reverse
      <4>1. FlattenSeq(Append(cs, e)) = FlattenSeq(cs) \o e
        BY FlattenAppend
      <4> QED
        BY <3>2, <4>1 DEF ordered, Both
    <3> QED
      BY <3>1, <3>2
  <2>4. ASSUME NEW g, Puts(g, b, ds)
        PROVE  g[n + 1] = put(b, Both(b, F, e))
    <3>1. Puts(g, b, cs)
      <4> HIDE DEF n, ds
      <4> QED
        BY <2>1, <2>4 DEF Puts, n
    <3>2. g[n] = put(b, F)
      BY <1>2, <3>1
    <3>3. g[n + 1] = put(g[n], e)
      <4>1. n + 1 \in 1..Len(ds) /\ (n + 1) - 1 = n
        BY <2>1
      <4>2. g[n] \in Buffers
        BY <2>2, <3>2, PutFacts
      <4> HIDE DEF n, ds
      <4> QED
        BY <2>1, <2>4, <4>1, <4>2 DEF Puts
    <3> HIDE DEF F
    <3> QED
      BY <2>2, <3>2, <3>3, PutFacts
  <2> HIDE DEF n, F, ds
  <2> QED
    BY <2>1, <2>3, <2>4 DEF ds
<1> HIDE DEF T, S
<1>3. Seq(S) \subseteq T
  BY ONLY <1>1, <1>2, AppendInduction
<1> QED
  BY <1>3 DEF T, S

\* Pieces put in the order in which the buffer needs them lie in their own.
LEMMA PutsOrdered ==
    ASSUME NEW b \in Buffers, NEW cs \in Seq(Seq(Byte)), NEW g, Puts(g, b, ordered(b, cs))
    PROVE  FlattenSeq(cs) \in Seq(Byte) /\ g[Len(cs)] = put(b, FlattenSeq(cs))
<1>1. /\ ordered(b, cs) \in Seq(Seq(Byte)) /\ Len(ordered(b, cs)) = Len(cs)
      /\ ordered(b, ordered(b, cs)) = cs
  BY OrderedFacts
<1>2. << >> \in Seq(Byte)
  OBVIOUS
<1> QED
  BY <1>1, <1>2, PutsAll, FlattenAppend

\* The first numbers, which a fold goes through.
LEMMA FirstNumbers ==
    ASSUME NEW n \in Nat
    PROVE  /\ 1..0 = {} /\ 1..0 \in SUBSET (1..n) /\ 1..n \in SUBSET (1..n)
           /\ \A i \in 1..n : /\ i \in Nat /\ 1..i \in SUBSET (1..n) /\ 1..i # {}
                              /\ Max(1..i) = i /\ (1..i) \ {i} = 1..(i - 1)
<1>1. ASSUME NEW i \in 1..n
      PROVE  /\ i \in Nat /\ 1..i \in SUBSET (1..n) /\ 1..i # {}
             /\ Max(1..i) = i /\ (1..i) \ {i} = 1..(i - 1)
  <2>1. i \in Nat /\ 1..i \in SUBSET (1..n) /\ i \in 1..i /\ \A j \in 1..i : j \in Nat /\ j <= i
    OBVIOUS
  <2>2. Max(1..i) \in 1..i /\ \A j \in 1..i : j <= Max(1..i)
    BY <2>1, MaxIs
  <2>3. Max(1..i) = i
    <3>1. PICK m : m = Max(1..i)
      OBVIOUS
    <3>2. m \in Nat /\ m <= i /\ i <= m
      BY <2>1, <2>2, <3>1
    <3> QED
      BY <2>1, <3>1, <3>2
  <2>4. (1..i) \ {i} = 1..(i - 1)
    BY <2>1
  <2> QED
    BY <2>1, <2>3, <2>4
<1> QED
  BY <1>1

\* The fields of a list, one behind the other.
LEMMA RepeatedPuts ==
    ASSUME NEW nr, KeyNumber(nr), NEW p, NEW values, IsSeq(values),
           \A i \in 1..Len(values) : Handed(p, values[i])
    PROVE  LET cs == [i \in 1..Len(values) |-> FieldBytes(nr, p, values[i])] IN
           /\ cs \in Seq(Seq(Byte)) /\ FlattenSeq(cs) \in Seq(Byte)
           /\ \A b \in Buffers : repeated_write(b, nr, p, values) = put(b, FlattenSeq(cs))
<1> DEFINE cs == [i \in 1..Len(values) |-> FieldBytes(nr, p, values[i])]
           n == Len(values)
<1>1. n \in Nat /\ DOMAIN values = 1..n
  BY SeqFacts
<1>2. \A i \in 1..n : cs[i] \in Seq(Byte) /\ \A b \in Buffers : write_field(b, nr, p, values[i]) = put(b, cs[i])
  BY FieldPuts
<1>3. cs \in Seq(Seq(Byte)) /\ Len(cs) = n
  <2>1. \A i \in 1..n : cs[i] \in Seq(Byte)
    BY <1>2
  <2>2. cs = [i \in 1..n |-> cs[i]]
    OBVIOUS
  <2> HIDE DEF cs, n
  <2> QED
    BY <1>1, <2>1, <2>2
<1> HIDE DEF cs
<1>4. ASSUME NEW b \in Buffers
      PROVE  FlattenSeq(cs) \in Seq(Byte) /\ repeated_write(b, nr, p, values) = put(b, FlattenSeq(cs))
  <2> DEFINE seq == ordered(b, values)
             Is(iter) == iter = [s \in SUBSET DOMAIN seq |->
                             IF s = {} THEN b
                             ELSE write_field(iter[s \ {Max(s)}], nr, p, seq[Max(s)])]
             iter == CHOOSE iter : Is(iter)
  <2>1. repeated_write(b, nr, p, values) = iter[DOMAIN seq]
    BY DEF repeated_write, FoldLeft, MapThenFoldSet
  <2>2. DOMAIN seq = 1..n /\ IsSeq(values)
        /\ \A i \in 1..n : (IF b.reverse THEN n - i + 1 ELSE i) \in 1..n
              /\ seq[i] = values[IF b.reverse THEN n - i + 1 ELSE i]
              /\ ordered(b, cs)[i] = cs[IF b.reverse THEN n - i + 1 ELSE i]
    <3>1. values \in Seq(ToSet(values)) /\ n = Len(values)
      BY DEF IsSeq
    <3>2. seq \in Seq(ToSet(values)) /\ Len(seq) = n
      BY <3>1, OrderedFacts
    <3>3. DOMAIN seq = 1..n
      BY <1>1, <3>2, LenProperties
    <3>4. IsSeq(values)
      OBVIOUS
    <3>5. \A i \in 1..n : (IF b.reverse THEN n - i + 1 ELSE i) \in 1..n
              /\ seq[i] = values[IF b.reverse THEN n - i + 1 ELSE i]
      BY <3>1, OrderedFacts
    <3>6. \A i \in 1..n : ordered(b, cs)[i] = cs[IF b.reverse THEN n - i + 1 ELSE i]
      <4> HIDE DEF n
      <4>1. \A i \in 1..Len(cs) :
                ordered(b, cs)[i] = cs[IF b.reverse THEN Len(cs) - i + 1 ELSE i]
        <5>1. cs \in Seq(Seq(Byte))
          BY <1>3
        <5> QED
          BY ONLY <5>1, OrderedFacts
      <4> QED
        BY <1>3, <4>1
    <3> QED
      BY <3>3, <3>4, <3>5, <3>6
  <2> HIDE DEF seq, n
  <2>3. \A i \in 1..n : \A x \in Buffers :
            write_field(x, nr, p, seq[i]) = put(x, ordered(b, cs)[i]) /\ put(x, ordered(b, cs)[i]) \in Buffers
    <3>1. ASSUME NEW i \in 1..n, NEW x \in Buffers
          PROVE  write_field(x, nr, p, seq[i]) = put(x, ordered(b, cs)[i]) /\ put(x, ordered(b, cs)[i]) \in Buffers
      <4>1. PICK j \in 1..n : seq[i] = values[j] /\ ordered(b, cs)[i] = cs[j]
        BY <2>2
      <4> QED
        BY <1>2, <4>1, PutFacts
    <3> QED
      BY <3>1
  <2>4. \E f : Is(f)
    <3> DEFINE next == [i \in 1..n |-> [x \in Buffers |-> put(x, ordered(b, cs)[i])]]
    <3>1. next \in [1..n -> [Buffers -> Buffers]]
      <4>1. \A i \in 1..n : [x \in Buffers |-> put(x, ordered(b, cs)[i])] \in [Buffers -> Buffers]
        BY <2>3
      <4> QED
        BY <4>1
    <3>2. \A i \in 1..n : \A x \in Buffers : next[i][x] = put(x, ordered(b, cs)[i])
      OBVIOUS
    <3> HIDE DEF next
    <3>3. PICK f : Peeling(f, n, Buffers, b, next)
      BY <1>1, <3>1, SubsetRecursion
    <3>4. ASSUME NEW s \in SUBSET (1..n)
          PROVE  f[s] = IF s = {} THEN b ELSE write_field(f[s \ {Max(s)}], nr, p, seq[Max(s)])
      <4>1. CASE s = {}
        BY <3>3, <4>1 DEF Peeling
      <4>2. CASE s # {}
        <5>1. Max(s) \in 1..n
          BY <1>1, <4>2, MaxIs
        <5>2. f[s \ {Max(s)}] \in Buffers
          <6>1. s \ {Max(s)} \in SUBSET (1..n)
            OBVIOUS
          <6> QED
            BY <3>3, <6>1 DEF Peeling
        <5>3. f[s] = next[Max(s)][f[s \ {Max(s)}]]
          BY <3>3, <4>2 DEF Peeling
        <5>4. PICK m \in 1..n : m = Max(s)
          BY <5>1
        <5>5. PICK y \in Buffers : y = f[s \ {m}]
          BY <5>2, <5>4
        <5>6. f[s] = put(y, ordered(b, cs)[m]) /\ write_field(y, nr, p, seq[m]) = put(y, ordered(b, cs)[m])
          BY <2>3, <3>2, <5>3, <5>4, <5>5
        <5> QED
          BY <4>2, <5>4, <5>5, <5>6
      <4> QED
        BY <4>1, <4>2
    <3>5. f = [s \in SUBSET (1..n) |-> f[s]]
      BY <3>3 DEF Peeling
    <3>6. Is(f)
      BY <2>2, <3>4, <3>5
    <3> QED
      BY <3>6
  <2>5. Is(iter)
    <3> HIDE DEF Is
    <3> QED
      BY <2>4
  <2>6. \A s \in SUBSET (1..n) : iter[s] = IF s = {} THEN b ELSE write_field(iter[s \ {Max(s)}], nr, p, seq[Max(s)])
    BY <2>2, <2>5
  <2> HIDE DEF iter
  <2> DEFINE g == [i \in 0..n |-> iter[1..i]]
  <2>7. g[0] = b
    <3>1. g[0] = iter[1..0]
      BY <1>1
    <3>2. 1..0 = {} /\ 1..0 \in SUBSET (1..n)
      OBVIOUS
    <3> HIDE DEF g
    <3> QED
      BY <2>6, <3>1, <3>2
  <2>8. ASSUME NEW i \in 1..n, g[i - 1] \in Buffers
        PROVE  g[i] = put(g[i - 1], ordered(b, cs)[i])
    <3>1. /\ 1..i \in SUBSET (1..n) /\ 1..i # {} /\ Max(1..i) = i /\ (1..i) \ {i} = 1..(i - 1)
      BY <1>1, FirstNumbers
    <3>2. g[i] = iter[1..i] /\ g[i - 1] = iter[1..(i - 1)]
      BY <1>1
    <3> HIDE DEF g
    <3>3. iter[1..i] = write_field(iter[1..(i - 1)], nr, p, seq[i])
      BY <2>6, <3>1
    <3> QED
      BY <2>3, <2>8, <3>2, <3>3
  <2>9. g[n] = iter[1..n]
    BY <1>1
  <2> HIDE DEF g
  <2>10. Puts(g, b, ordered(b, cs))
    <3>1. Len(ordered(b, cs)) = n
      BY <1>3, OrderedFacts
    <3> QED
      BY <2>7, <2>8, <3>1 DEF Puts
  <2> QED
    BY <1>3, <2>1, <2>2, <2>9, <2>10, PutsOrdered
<1>5. FlattenSeq(cs) \in Seq(Byte)
  <2>1. << >> \in Seq(Byte)
    OBVIOUS
  <2> QED
    BY <1>3, <2>1, FlattenAppend
<1> QED
  BY <1>3, <1>4, <1>5 DEF cs, n

\* The elements of a packed list.
LEMMA ElementsPuts ==
    ASSUME NEW p, NEW values, IsSeq(values), \A i \in 1..Len(values) : Handed(p, values[i])
    PROVE  LET cs == [i \in 1..Len(values) |-> write_value(p, values[i].scalar)] IN
           /\ cs \in Seq(Seq(Byte)) /\ FlattenSeq(cs) \in Seq(Byte)
           /\ \A b \in Buffers : put_elements(b, p, values) = put(b, FlattenSeq(cs))
<1> DEFINE cs == [i \in 1..Len(values) |-> write_value(p, values[i].scalar)]
           n == Len(values)
<1>1. n \in Nat /\ DOMAIN values = 1..n
  BY SeqFacts
<1>2. \A i \in 1..n : cs[i] \in Seq(Byte) /\ \A b \in Buffers : put(b, write_value(p, values[i].scalar)) = put(b, cs[i])
  BY ScalarBytes
<1>3. cs \in Seq(Seq(Byte)) /\ Len(cs) = n
  <2>1. \A i \in 1..n : cs[i] \in Seq(Byte)
    BY <1>2
  <2>2. cs = [i \in 1..n |-> cs[i]]
    OBVIOUS
  <2> HIDE DEF cs, n
  <2> QED
    BY <1>1, <2>1, <2>2
<1> HIDE DEF cs
<1>4. ASSUME NEW b \in Buffers
      PROVE  FlattenSeq(cs) \in Seq(Byte) /\ put_elements(b, p, values) = put(b, FlattenSeq(cs))
  <2> DEFINE seq == ordered(b, values)
             Is(iter) == iter = [s \in SUBSET DOMAIN seq |->
                             IF s = {} THEN b
                             ELSE put(iter[s \ {Max(s)}], write_value(p, seq[Max(s)].scalar))]
             iter == CHOOSE iter : Is(iter)
  <2>1. put_elements(b, p, values) = iter[DOMAIN seq]
    BY DEF put_elements, FoldLeft, MapThenFoldSet
  <2>2. DOMAIN seq = 1..n /\ IsSeq(values)
        /\ \A i \in 1..n : (IF b.reverse THEN n - i + 1 ELSE i) \in 1..n
              /\ seq[i] = values[IF b.reverse THEN n - i + 1 ELSE i]
              /\ ordered(b, cs)[i] = cs[IF b.reverse THEN n - i + 1 ELSE i]
    <3>1. values \in Seq(ToSet(values)) /\ n = Len(values)
      BY DEF IsSeq
    <3>2. seq \in Seq(ToSet(values)) /\ Len(seq) = n
      BY <3>1, OrderedFacts
    <3>3. DOMAIN seq = 1..n
      BY <1>1, <3>2, LenProperties
    <3>4. IsSeq(values)
      OBVIOUS
    <3>5. \A i \in 1..n : (IF b.reverse THEN n - i + 1 ELSE i) \in 1..n
              /\ seq[i] = values[IF b.reverse THEN n - i + 1 ELSE i]
      BY <3>1, OrderedFacts
    <3>6. \A i \in 1..n : ordered(b, cs)[i] = cs[IF b.reverse THEN n - i + 1 ELSE i]
      <4> HIDE DEF n
      <4>1. \A i \in 1..Len(cs) :
                ordered(b, cs)[i] = cs[IF b.reverse THEN Len(cs) - i + 1 ELSE i]
        <5>1. cs \in Seq(Seq(Byte))
          BY <1>3
        <5> QED
          BY ONLY <5>1, OrderedFacts
      <4> QED
        BY <1>3, <4>1
    <3> QED
      BY <3>3, <3>4, <3>5, <3>6
  <2> HIDE DEF seq, n
  <2>3. \A i \in 1..n : \A x \in Buffers :
            put(x, write_value(p, seq[i].scalar)) = put(x, ordered(b, cs)[i]) /\ put(x, ordered(b, cs)[i]) \in Buffers
    <3>1. ASSUME NEW i \in 1..n, NEW x \in Buffers
          PROVE  put(x, write_value(p, seq[i].scalar)) = put(x, ordered(b, cs)[i]) /\ put(x, ordered(b, cs)[i]) \in Buffers
      <4>1. PICK j \in 1..n : seq[i] = values[j] /\ ordered(b, cs)[i] = cs[j]
        BY <2>2
      <4> QED
        BY <1>2, <4>1, PutFacts
    <3> QED
      BY <3>1
  <2>4. \E f : Is(f)
    <3> DEFINE next == [i \in 1..n |-> [x \in Buffers |-> put(x, ordered(b, cs)[i])]]
    <3>1. next \in [1..n -> [Buffers -> Buffers]]
      <4>1. \A i \in 1..n : [x \in Buffers |-> put(x, ordered(b, cs)[i])] \in [Buffers -> Buffers]
        BY <2>3
      <4> QED
        BY <4>1
    <3>2. \A i \in 1..n : \A x \in Buffers : next[i][x] = put(x, ordered(b, cs)[i])
      OBVIOUS
    <3> HIDE DEF next
    <3>3. PICK f : Peeling(f, n, Buffers, b, next)
      BY <1>1, <3>1, SubsetRecursion
    <3>4. ASSUME NEW s \in SUBSET (1..n)
          PROVE  f[s] = IF s = {} THEN b ELSE put(f[s \ {Max(s)}], write_value(p, seq[Max(s)].scalar))
      <4>1. CASE s = {}
        BY <3>3, <4>1 DEF Peeling
      <4>2. CASE s # {}
        <5>1. Max(s) \in 1..n
          BY <1>1, <4>2, MaxIs
        <5>2. f[s \ {Max(s)}] \in Buffers
          <6>1. s \ {Max(s)} \in SUBSET (1..n)
            OBVIOUS
          <6> QED
            BY <3>3, <6>1 DEF Peeling
        <5>3. f[s] = next[Max(s)][f[s \ {Max(s)}]]
          BY <3>3, <4>2 DEF Peeling
        <5>4. PICK m \in 1..n : m = Max(s)
          BY <5>1
        <5>5. PICK y \in Buffers : y = f[s \ {m}]
          BY <5>2, <5>4
        <5>6. f[s] = put(y, ordered(b, cs)[m]) /\ put(y, write_value(p, seq[m].scalar)) = put(y, ordered(b, cs)[m])
          BY <2>3, <3>2, <5>3, <5>4, <5>5
        <5> QED
          BY <4>2, <5>4, <5>5, <5>6
      <4> QED
        BY <4>1, <4>2
    <3>5. f = [s \in SUBSET (1..n) |-> f[s]]
      BY <3>3 DEF Peeling
    <3>6. Is(f)
      BY <2>2, <3>4, <3>5
    <3> QED
      BY <3>6
  <2>5. Is(iter)
    <3> HIDE DEF Is
    <3> QED
      BY <2>4
  <2>6. \A s \in SUBSET (1..n) : iter[s] = IF s = {} THEN b ELSE put(iter[s \ {Max(s)}], write_value(p, seq[Max(s)].scalar))
    BY <2>2, <2>5
  <2> HIDE DEF iter
  <2> DEFINE g == [i \in 0..n |-> iter[1..i]]
  <2>7. g[0] = b
    <3>1. g[0] = iter[1..0]
      BY <1>1
    <3>2. 1..0 = {} /\ 1..0 \in SUBSET (1..n)
      OBVIOUS
    <3> HIDE DEF g
    <3> QED
      BY <2>6, <3>1, <3>2
  <2>8. ASSUME NEW i \in 1..n, g[i - 1] \in Buffers
        PROVE  g[i] = put(g[i - 1], ordered(b, cs)[i])
    <3>1. /\ 1..i \in SUBSET (1..n) /\ 1..i # {} /\ Max(1..i) = i /\ (1..i) \ {i} = 1..(i - 1)
      BY <1>1, FirstNumbers
    <3>2. g[i] = iter[1..i] /\ g[i - 1] = iter[1..(i - 1)]
      BY <1>1
    <3> HIDE DEF g
    <3>3. iter[1..i] = put(iter[1..(i - 1)], write_value(p, seq[i].scalar))
      BY <2>6, <3>1
    <3> QED
      BY <2>3, <2>8, <3>2, <3>3
  <2>9. g[n] = iter[1..n]
    BY <1>1
  <2> HIDE DEF g
  <2>10. Puts(g, b, ordered(b, cs))
    <3>1. Len(ordered(b, cs)) = n
      BY <1>3, OrderedFacts
    <3> QED
      BY <2>7, <2>8, <3>1 DEF Puts
  <2> QED
    BY <1>3, <2>1, <2>2, <2>9, <2>10, PutsOrdered
<1>5. FlattenSeq(cs) \in Seq(Byte)
  <2>1. << >> \in Seq(Byte)
    OBVIOUS
  <2> QED
    BY <1>3, <2>1, FlattenAppend
<1> QED
  BY <1>3, <1>4, <1>5 DEF cs, n

\* The messages of a list.
LEMMA MsgsPuts ==
    ASSUME NEW nr, KeyNumber(nr), NEW bodies, IsSeq(bodies),
           \A i \in 1..Len(bodies) : bodies[i] \in Seq(Byte)
    PROVE  LET cs == [i \in 1..Len(bodies) |-> MsgBytes(nr, bodies[i])] IN
           /\ cs \in Seq(Seq(Byte)) /\ FlattenSeq(cs) \in Seq(Byte)
           /\ \A b \in Buffers : write_msgs(b, nr, bodies) = put(b, FlattenSeq(cs))
<1> DEFINE cs == [i \in 1..Len(bodies) |-> MsgBytes(nr, bodies[i])]
           n == Len(bodies)
<1>1. n \in Nat /\ DOMAIN bodies = 1..n
  BY SeqFacts
<1>2. \A i \in 1..n : cs[i] \in Seq(Byte) /\ \A b \in Buffers : write_msg(b, nr, bodies[i]) = put(b, cs[i])
  BY MsgPuts
<1>3. cs \in Seq(Seq(Byte)) /\ Len(cs) = n
  <2>1. \A i \in 1..n : cs[i] \in Seq(Byte)
    BY <1>2
  <2>2. cs = [i \in 1..n |-> cs[i]]
    OBVIOUS
  <2> HIDE DEF cs, n
  <2> QED
    BY <1>1, <2>1, <2>2
<1> HIDE DEF cs
<1>4. ASSUME NEW b \in Buffers
      PROVE  FlattenSeq(cs) \in Seq(Byte) /\ write_msgs(b, nr, bodies) = put(b, FlattenSeq(cs))
  <2> DEFINE seq == ordered(b, bodies)
             Is(iter) == iter = [s \in SUBSET DOMAIN seq |->
                             IF s = {} THEN b
                             ELSE write_msg(iter[s \ {Max(s)}], nr, seq[Max(s)])]
             iter == CHOOSE iter : Is(iter)
  <2>1. write_msgs(b, nr, bodies) = iter[DOMAIN seq]
    BY DEF write_msgs, FoldLeft, MapThenFoldSet
  <2>2. DOMAIN seq = 1..n /\ IsSeq(bodies)
        /\ \A i \in 1..n : (IF b.reverse THEN n - i + 1 ELSE i) \in 1..n
              /\ seq[i] = bodies[IF b.reverse THEN n - i + 1 ELSE i]
              /\ ordered(b, cs)[i] = cs[IF b.reverse THEN n - i + 1 ELSE i]
    <3>1. bodies \in Seq(ToSet(bodies)) /\ n = Len(bodies)
      BY DEF IsSeq
    <3>2. seq \in Seq(ToSet(bodies)) /\ Len(seq) = n
      BY <3>1, OrderedFacts
    <3>3. DOMAIN seq = 1..n
      BY <1>1, <3>2, LenProperties
    <3>4. IsSeq(bodies)
      OBVIOUS
    <3>5. \A i \in 1..n : (IF b.reverse THEN n - i + 1 ELSE i) \in 1..n
              /\ seq[i] = bodies[IF b.reverse THEN n - i + 1 ELSE i]
      BY <3>1, OrderedFacts
    <3>6. \A i \in 1..n : ordered(b, cs)[i] = cs[IF b.reverse THEN n - i + 1 ELSE i]
      <4> HIDE DEF n
      <4>1. \A i \in 1..Len(cs) :
                ordered(b, cs)[i] = cs[IF b.reverse THEN Len(cs) - i + 1 ELSE i]
        <5>1. cs \in Seq(Seq(Byte))
          BY <1>3
        <5> QED
          BY ONLY <5>1, OrderedFacts
      <4> QED
        BY <1>3, <4>1
    <3> QED
      BY <3>3, <3>4, <3>5, <3>6
  <2> HIDE DEF seq, n
  <2>3. \A i \in 1..n : \A x \in Buffers :
            write_msg(x, nr, seq[i]) = put(x, ordered(b, cs)[i]) /\ put(x, ordered(b, cs)[i]) \in Buffers
    <3>1. ASSUME NEW i \in 1..n, NEW x \in Buffers
          PROVE  write_msg(x, nr, seq[i]) = put(x, ordered(b, cs)[i]) /\ put(x, ordered(b, cs)[i]) \in Buffers
      <4>1. PICK j \in 1..n : seq[i] = bodies[j] /\ ordered(b, cs)[i] = cs[j]
        BY <2>2
      <4> QED
        BY <1>2, <4>1, PutFacts
    <3> QED
      BY <3>1
  <2>4. \E f : Is(f)
    <3> DEFINE next == [i \in 1..n |-> [x \in Buffers |-> put(x, ordered(b, cs)[i])]]
    <3>1. next \in [1..n -> [Buffers -> Buffers]]
      <4>1. \A i \in 1..n : [x \in Buffers |-> put(x, ordered(b, cs)[i])] \in [Buffers -> Buffers]
        BY <2>3
      <4> QED
        BY <4>1
    <3>2. \A i \in 1..n : \A x \in Buffers : next[i][x] = put(x, ordered(b, cs)[i])
      OBVIOUS
    <3> HIDE DEF next
    <3>3. PICK f : Peeling(f, n, Buffers, b, next)
      BY <1>1, <3>1, SubsetRecursion
    <3>4. ASSUME NEW s \in SUBSET (1..n)
          PROVE  f[s] = IF s = {} THEN b ELSE write_msg(f[s \ {Max(s)}], nr, seq[Max(s)])
      <4>1. CASE s = {}
        BY <3>3, <4>1 DEF Peeling
      <4>2. CASE s # {}
        <5>1. Max(s) \in 1..n
          BY <1>1, <4>2, MaxIs
        <5>2. f[s \ {Max(s)}] \in Buffers
          <6>1. s \ {Max(s)} \in SUBSET (1..n)
            OBVIOUS
          <6> QED
            BY <3>3, <6>1 DEF Peeling
        <5>3. f[s] = next[Max(s)][f[s \ {Max(s)}]]
          BY <3>3, <4>2 DEF Peeling
        <5>4. PICK m \in 1..n : m = Max(s)
          BY <5>1
        <5>5. PICK y \in Buffers : y = f[s \ {m}]
          BY <5>2, <5>4
        <5>6. f[s] = put(y, ordered(b, cs)[m]) /\ write_msg(y, nr, seq[m]) = put(y, ordered(b, cs)[m])
          BY <2>3, <3>2, <5>3, <5>4, <5>5
        <5> QED
          BY <4>2, <5>4, <5>5, <5>6
      <4> QED
        BY <4>1, <4>2
    <3>5. f = [s \in SUBSET (1..n) |-> f[s]]
      BY <3>3 DEF Peeling
    <3>6. Is(f)
      BY <2>2, <3>4, <3>5
    <3> QED
      BY <3>6
  <2>5. Is(iter)
    <3> HIDE DEF Is
    <3> QED
      BY <2>4
  <2>6. \A s \in SUBSET (1..n) : iter[s] = IF s = {} THEN b ELSE write_msg(iter[s \ {Max(s)}], nr, seq[Max(s)])
    BY <2>2, <2>5
  <2> HIDE DEF iter
  <2> DEFINE g == [i \in 0..n |-> iter[1..i]]
  <2>7. g[0] = b
    <3>1. g[0] = iter[1..0]
      BY <1>1
    <3>2. 1..0 = {} /\ 1..0 \in SUBSET (1..n)
      OBVIOUS
    <3> HIDE DEF g
    <3> QED
      BY <2>6, <3>1, <3>2
  <2>8. ASSUME NEW i \in 1..n, g[i - 1] \in Buffers
        PROVE  g[i] = put(g[i - 1], ordered(b, cs)[i])
    <3>1. /\ 1..i \in SUBSET (1..n) /\ 1..i # {} /\ Max(1..i) = i /\ (1..i) \ {i} = 1..(i - 1)
      BY <1>1, FirstNumbers
    <3>2. g[i] = iter[1..i] /\ g[i - 1] = iter[1..(i - 1)]
      BY <1>1
    <3> HIDE DEF g
    <3>3. iter[1..i] = write_msg(iter[1..(i - 1)], nr, seq[i])
      BY <2>6, <3>1
    <3> QED
      BY <2>3, <2>8, <3>2, <3>3
  <2>9. g[n] = iter[1..n]
    BY <1>1
  <2> HIDE DEF g
  <2>10. Puts(g, b, ordered(b, cs))
    <3>1. Len(ordered(b, cs)) = n
      BY <1>3, OrderedFacts
    <3> QED
      BY <2>7, <2>8, <3>1 DEF Puts
  <2> QED
    BY <1>3, <2>1, <2>2, <2>9, <2>10, PutsOrdered
<1>5. FlattenSeq(cs) \in Seq(Byte)
  <2>1. << >> \in Seq(Byte)
    OBVIOUS
  <2> QED
    BY <1>3, <2>1, FlattenAppend
<1> QED
  BY <1>3, <1>4, <1>5 DEF cs, n

-----------------------------------------------------------------------------
(* Packed fields and maps. *)

\* As many bytes as the elements have, if each has as many.
LEMMA FlattenLen ==
    ASSUME NEW k \in Nat
    PROVE  \A cs \in Seq(Seq(Byte)) :
               (\A i \in 1..Len(cs) : Len(cs[i]) = k) => Len(FlattenSeq(cs)) = Len(cs) * k
<1> DEFINE S == Seq(Byte)
           T == {cs \in Seq(S) : (\A i \in 1..Len(cs) : Len(cs[i]) = k) =>
                                     Len(FlattenSeq(cs)) = Len(cs) * k}
<1>1. << >> \in T
  <2>1. << >> \in S /\ << >> \in Seq(S) /\ Len(<< >>) = 0
    OBVIOUS
  <2>2. FlattenSeq(<< >>) = << >>
    BY <2>1, FlattenFew
  <2> QED
    BY <2>1, <2>2
<1>2. ASSUME NEW cs \in Seq(S), NEW e \in S, cs \in T
      PROVE  Append(cs, e) \in T
  <2>1. /\ Append(cs, e) \in Seq(S) /\ Len(cs) \in Nat
        /\ Len(Append(cs, e)) = Len(cs) + 1 /\ Append(cs, e)[Len(cs) + 1] = e
        /\ \A i \in 1..Len(cs) : Append(cs, e)[i] = cs[i]
    BY AppendProperties
  <2>2. FlattenSeq(cs) \in S /\ FlattenSeq(Append(cs, e)) = FlattenSeq(cs) \o e
    BY FlattenAppend
  <2>3. Len(FlattenSeq(cs) \o e) = Len(FlattenSeq(cs)) + Len(e)
    BY <2>2, ConcatProperties
  <2>4. ASSUME \A i \in 1..Len(Append(cs, e)) : Len(Append(cs, e)[i]) = k
        PROVE  Len(FlattenSeq(cs) \o e) = (Len(cs) + 1) * k
    <3>1. Len(e) = k
      BY <2>1, <2>4
    <3>2. \A i \in 1..Len(cs) : Len(cs[i]) = k
      BY <2>1, <2>4
    <3>3. Len(FlattenSeq(cs)) = Len(cs) * k
      BY <1>2, <3>2
    <3>4. \A m \in Nat : (m + 1) * k = m * k + k
      OBVIOUS
    <3> QED
      BY <2>1, <2>3, <3>1, <3>3, <3>4
  <2> QED
    BY <2>1, <2>2, <2>4
<1> HIDE DEF T, S
<1>3. Seq(S) \subseteq T
  BY ONLY <1>1, <1>2, AppendInduction
<1> QED
  BY <1>3 DEF T, S

\* The elements of a packed field, and the field.
Elements(p, values) == FlattenSeq([i \in 1..Len(values) |-> write_value(p, values[i].scalar)])

PackedBytes(nr, p, values) ==
    IF values = << >> THEN << >> ELSE MsgBytes(nr, Elements(p, values))

\* A packed field is its tag, its length and its elements.
LEMMA PackedPuts ==
    ASSUME NEW nr, KeyNumber(nr), NEW p, NEW values, IsSeq(values),
           \A i \in 1..Len(values) : Handed(p, values[i])
    PROVE  /\ Elements(p, values) \in Seq(Byte) /\ PackedBytes(nr, p, values) \in Seq(Byte)
           /\ \A b \in Buffers : packed_write(b, nr, p, values) = put(b, PackedBytes(nr, p, values))
<1> DEFINE F == Elements(p, values)
<1>1. F \in Seq(Byte) /\ \A b \in Buffers : put_elements(b, p, values) = put(b, F)
  BY ElementsPuts DEF Elements
<1>2. << >> \in Seq(Byte)
  OBVIOUS
<1> HIDE DEF F
<1>3. MsgBytes(nr, F) \in Seq(Byte) /\ \A b \in Buffers : write_msg(b, nr, F) = put(b, MsgBytes(nr, F))
  BY <1>1, MsgPuts
<1>4. PackedBytes(nr, p, values) \in Seq(Byte)
  BY <1>2, <1>3 DEF PackedBytes, F
<1>5. ASSUME NEW b \in Buffers
      PROVE  packed_write(b, nr, p, values) = put(b, PackedBytes(nr, p, values))
  <2>1. CASE values = << >>
    BY <2>1, <1>2, PutFacts DEF packed_write, PackedBytes
  <2>2. CASE values # << >>
    <3>1. put_elements(Emptied(b), p, values).bytes = F
      BY <1>1, EmptiedFacts
    <3> QED
      BY <2>2, <3>1, <1>3 DEF packed_write, PackedBytes, F
  <2> QED
    BY <2>1, <2>2
<1> QED
  BY <1>1, <1>4, <1>5 DEF F

\* The size known beforehand is the size of the elements.
LEMMA ExactPuts ==
    ASSUME NEW nr, KeyNumber(nr), NEW p, NEW values, IsSeq(values),
           \A i \in 1..Len(values) : Handed(p, values[i])
    PROVE  \A b \in Buffers : write_exact(b, nr, p, values) = put(b, PackedBytes(nr, p, values))
<1>1. CASE ~(p \in FixedWireScalars /\ values # << >>)
  BY <1>1, PackedPuts DEF write_exact
<1>2. CASE p \in FixedWireScalars /\ values # << >>
  <2> DEFINE size == FIXED_WIRE_SIZE(p)
             F == Elements(p, values)
             cs == [i \in 1..Len(values) |-> write_value(p, values[i].scalar)]
             tag == EncodedTag(nr, "LEN")
             len == write_varint(Len(values) * size)
  <2>1. Len(values) \in Nat
    BY SeqFacts
  <2>2. \A i \in 1..Len(values) : Len(write_value(p, values[i].scalar)) = size
    <3>1. ASSUME NEW i \in 1..Len(values)
          PROVE  Len(write_value(p, values[i].scalar)) = size
      <4>1. p \notin LenScalars /\ (p \in VarintScalars => p = "Bool") /\ p \in Packable \cup LenScalars
        BY <1>2 DEF FixedWireScalars, Fixed32Scalars, Fixed64Scalars, VarintScalars, LenScalars,
                    Packable
      <4>2. Holds(p, values[i].scalar)
        BY <4>1, ScalarBytes DEF Handed
      <4>3. << >> \in Seq(Byte)
        OBVIOUS
      <4>4. value_len(p, values[i].scalar) = Len(write_value(p, values[i].scalar))
        BY <4>1, <4>2, <4>3, Written
      <4> QED
        BY <4>1, <4>4 DEF value_len, FIXED_WIRE_SIZE
    <3> QED
      BY <3>1
  <2>3. size \in Nat
    BY ScalarsAssumption DEF FIXED_WIRE_SIZE, FixedSize
  <2> HIDE DEF size
  <2>4. F = FlattenSeq(cs) /\ F \in Seq(Byte) /\ cs \in Seq(Seq(Byte)) /\ Len(cs) = Len(values)
        /\ \A b \in Buffers : put_elements(b, p, values) = put(b, F)
    <3>1. cs \in Seq(Seq(Byte)) /\ FlattenSeq(cs) \in Seq(Byte)
          /\ \A b \in Buffers : put_elements(b, p, values) = put(b, FlattenSeq(cs))
      BY ElementsPuts
    <3>2. Len(cs) = Len(values)
      BY <2>1
    <3> QED
      BY <3>1, <3>2 DEF Elements
  <2>5. Len(F) = Len(values) * size
    <3>1. \A i \in 1..Len(cs) : Len(cs[i]) = size
      BY <2>2, <2>4
    <3> HIDE DEF cs
    <3> QED
      BY <2>3, <2>4, <3>1, FlattenLen
  <2>6. Len(F) \in Nat
    BY <2>4
  <2>7. len \in Seq(Byte) /\ tag \in Seq(Byte)
    BY <2>5, <2>6, VarintBytes, TagBytes
  <2>8. PackedBytes(nr, p, values) = tag \o (len \o F)
    BY <1>2, <2>5 DEF PackedBytes, MsgBytes
  <2>9. ASSUME NEW b \in Buffers
        PROVE  write_exact(b, nr, p, values) = put(b, PackedBytes(nr, p, values))
    <3>1. CASE b.reverse
      BY <3>1, PackedPuts DEF write_exact
    <3>2. CASE ~b.reverse
      <4>1. write_exact(b, nr, p, values) = put_elements(put(b, tag \o len), p, values)
        BY <1>2, <3>2 DEF write_exact, size
      <4> HIDE DEF tag, len, F
      <4>0. tag \o len \in Seq(Byte)
        BY <2>7
      <4>2. PICK t \in Seq(Byte) : t = tag \o len
        BY <4>0
      <4>3. put(b, t) \in Buffers /\ put(put(b, t), F) = put(b, Both(b, t, F))
        BY <2>4, PutFacts
      <4>4. Both(b, t, F) = t \o F
        BY <3>2 DEF Both
      <4>5. t \o F = tag \o (len \o F)
        <5>1. \A x, y, z \in Seq(Byte) : (x \o y) \o z = x \o (y \o z)
          BY ConcatAssociative
        <5> QED
          BY <2>4, <2>7, <4>2, <5>1
      <4> QED
        BY <2>4, <2>8, <4>1, <4>2, <4>3, <4>4, <4>5
    <3> QED
      BY <3>1, <3>2
  <2> QED
    BY <2>9
<1> QED
  BY <1>1, <1>2

\* The bytes of a map entry.
OptionBytes(nr, p, option) == IF option = << >> THEN << >> ELSE FieldBytes(nr, p, option[1])

EntryBody(f, key, option) == FieldBytes(1, f.key, key) \o OptionBytes(2, f.val, option)

\* A key, and a value if there is one, for the entry of a map.
EntryOf(f, key, option) ==
    /\ Handed(f.key, key) /\ ~key.streams
    /\ option = << >> \/ (Handed(f.val, option[1]) /\ ~option[1].streams)

\* The numbers of an entry's fields.
EntryNumbers == KeyNumber(1) /\ KeyNumber(2)

\* A field is as long as its tag and its value.
LEMMA FieldLen ==
    ASSUME NEW nr, KeyNumber(nr), NEW p, NEW v, Handed(p, v), ~v.streams
    PROVE  /\ Len(FieldBytes(nr, p, v)) \in Nat
           /\ field_len(nr, p, v) = Len(FieldBytes(nr, p, v))
<1>1. << >> \in Seq(Byte) /\ p \in Packable \cup LenScalars
  BY DEF Handed
<1>2. WIRE_TYPE(p) \in WireType
  BY <1>1, TagBytes
<1>3. LET tag == EncodedTag(nr, WIRE_TYPE(p)) IN
      tag \in Seq(Byte) /\ Len(tag) = encoded_len_varint(nr * KeyRadix + WireCode[WIRE_TYPE(p)])
  BY <1>1, <1>2, TagReads
<1>4. Coded(p, v) = write_value(p, v.scalar) /\ v.scalar = v.text /\ Holds(p, v.text)
      /\ write_value(p, v.scalar) \in Seq(Byte)
  BY ScalarBytes DEF Coded
<1>5. value_len(p, v.scalar) = Len(write_value(p, v.scalar))
  BY <1>1, <1>4, Written
<1> QED
  BY <1>3, <1>4, <1>5 DEF field_len, FieldBytes

\* An option is written as what it holds.
LEMMA OptionPuts ==
    ASSUME NEW nr, KeyNumber(nr), NEW p, NEW option, option = << >> \/ Handed(p, option[1])
    PROVE  /\ OptionBytes(nr, p, option) \in Seq(Byte)
           /\ \A b \in Buffers : optional_write(b, nr, p, option) = put(b, OptionBytes(nr, p, option))
<1>1. << >> \in Seq(Byte)
  OBVIOUS
<1>2. CASE option = << >>
  BY <1>1, <1>2, PutFacts DEF OptionBytes, optional_write
<1>3. CASE option # << >>
  BY <1>3, FieldPuts DEF OptionBytes, optional_write
<1> QED
  BY <1>2, <1>3

\* An entry is sized right before it is written.
LEMMA EntryLen ==
    ASSUME EntryNumbers, NEW f, NEW key, NEW option, EntryOf(f, key, option)
    PROVE  /\ EntryBody(f, key, option) \in Seq(Byte)
           /\ entry_len(f, key, option) = Len(EntryBody(f, key, option))
<1> DEFINE k == FieldBytes(1, f.key, key)
           o == OptionBytes(2, f.val, option)
<1>1. k \in Seq(Byte) /\ field_len(1, f.key, key) = Len(k)
  BY FieldPuts, FieldLen DEF EntryNumbers, EntryOf
<1>2. o \in Seq(Byte)
  BY OptionPuts DEF EntryNumbers, EntryOf
<1>3. (IF option = << >> THEN 0 ELSE field_len(2, f.val, option[1])) = Len(o)
  BY FieldLen DEF EntryNumbers, EntryOf, OptionBytes
<1> HIDE DEF k, o
<1>4. k \o o \in Seq(Byte) /\ Len(k \o o) = Len(k) + Len(o)
  BY <1>1, <1>2, ConcatProperties
<1> QED
  BY <1>1, <1>3, <1>4 DEF entry_len, EntryBody, k, o

\* Whatever the buffer, an entry is written as one message.
LEMMA EntryPuts ==
    ASSUME EntryNumbers, NEW nr, KeyNumber(nr), NEW f, NEW key, NEW option, EntryOf(f, key, option)
    PROVE  LET s == MsgBytes(nr, EntryBody(f, key, option)) IN
           /\ s \in Seq(Byte)
           /\ \A b \in Buffers : write_entry(b, nr, f, key, option) = put(b, s)
<1> DEFINE k == FieldBytes(1, f.key, key)
           o == OptionBytes(2, f.val, option)
           body == EntryBody(f, key, option)
           n == entry_len(f, key, option)
           tag == EncodedTag(nr, "LEN")
           len == write_varint(n)
           s == MsgBytes(nr, body)
<1>1. k \in Seq(Byte) /\ \A b \in Buffers : write_field(b, 1, f.key, key) = put(b, k)
  BY FieldPuts DEF EntryNumbers, EntryOf
<1>2. o \in Seq(Byte) /\ \A b \in Buffers : optional_write(b, 2, f.val, option) = put(b, o)
  BY OptionPuts DEF EntryNumbers, EntryOf
<1>3. body \in Seq(Byte) /\ body = k \o o /\ n = Len(body)
  BY EntryLen DEF EntryBody
<1>4. n \in Nat
  BY <1>3
<1>5. tag \in Seq(Byte) /\ len \in Seq(Byte) /\ Len(len) = encoded_len_varint(n)
  BY <1>4, TagBytes, VarintBytes
<1>6. s = tag \o (len \o body) /\ s \in Seq(Byte)
  BY <1>3, MsgPuts DEF MsgBytes
<1> HIDE DEF k, o
<1>7. tag \o len \in Seq(Byte) /\ len \o body \in Seq(Byte)
  <2> HIDE DEF tag, len, body, n
  <2> QED
    BY <1>3, <1>5
<1> PICK h \in Seq(Byte) : h = tag \o len
  <2> HIDE DEF tag, len, body, n
  <2> QED
    BY <1>7
<1>8. \A x, y, z \in Seq(Byte) : (x \o y) \o z = x \o (y \o z)
  BY ConcatAssociative, SMTT(20)
<1>9. s = h \o body
  <2> HIDE DEF tag, len, body, s, n
  <2>1. (tag \o len) \o body = tag \o (len \o body)
    BY ONLY <1>3, <1>5, <1>8
  <2> QED
    BY <1>6, <2>1
<1>10. ASSUME NEW b \in Buffers, ~b.reverse
       PROVE  entry_forwards(b, nr, f, key, option) = put(b, s)
  <2>1. entry_forwards(b, nr, f, key, option)
          = optional_write(write_field(put(b, h), 1, f.key, key), 2, f.val, option)
    BY DEF entry_forwards
  <2> HIDE DEF tag, len, body, s
  <2>2. put(b, h) \in Buffers /\ put(b, h).reverse = b.reverse
    BY PutFacts
  <2>3. put(put(b, h), k) \in Buffers
    BY <1>1, <2>2, PutFacts
  <2>4. put(put(put(b, h), k), o) = put(put(b, h), Both(put(b, h), k, o))
    BY <1>1, <1>2, <2>2, PutFacts
  <2>5. Both(put(b, h), k, o) = body
    BY <1>3, <1>10, <2>2 DEF Both
  <2>6. put(put(b, h), body) = put(b, Both(b, h, body))
    BY <1>3, PutFacts, ZenonT(40)
  <2>7. Both(b, h, body) = s
    BY <1>9, <1>10 DEF Both
  <2> QED
    BY <1>1, <1>2, <2>1, <2>2, <2>3, <2>4, <2>5, <2>6, <2>7
<1>11. ASSUME NEW b \in Buffers, b.reverse
       PROVE  entry_mirrored(b, nr, f, key, option) = put(b, s)
  <2>1. entry_mirrored(b, nr, f, key, option)
          = put(put(write_field(optional_write(b, 2, f.val, option), 1, f.key, key), len), tag)
    BY DEF entry_mirrored
  <2> HIDE DEF tag, len, body, s
  <2>2. put(b, o) \in Buffers /\ put(put(b, o), k) = put(b, Both(b, o, k))
    BY <1>1, <1>2, PutFacts
  <2>3. Both(b, o, k) = body
    BY <1>3, <1>11 DEF Both
  <2>4. put(put(b, body), len) = put(b, Both(b, body, len))
    BY <1>3, <1>5, PutFacts, ZenonT(40)
  <2>5. PICK c \in Seq(Byte) : c = len \o body
    BY <1>7
  <2>6. Both(b, body, len) = c
    BY <1>11, <2>5 DEF Both
  <2>7. put(put(b, c), tag) = put(b, Both(b, c, tag))
    BY <1>5, PutFacts
  <2>8. Both(b, c, tag) = s
    BY <1>6, <1>11, <2>5 DEF Both
  <2> QED
    BY <1>1, <1>2, <2>1, <2>2, <2>3, <2>4, <2>6, <2>7, <2>8
<1>12. ASSUME NEW b \in Buffers, b.reverse
       PROVE  claim_block(b, Len(tag) + encoded_len_varint(n) + n,
                          entry_forwards(Buffer(FALSE, FALSE), nr, f, key, option).bytes)
                = put(b, s)
  <2> HIDE DEF s, tag, len, body, n
  <2>1. Buffer(FALSE, FALSE) \in Buffers /\ ~Buffer(FALSE, FALSE).reverse
        /\ Buffer(FALSE, FALSE).bytes = << >>
    <3>1. << >> \in Seq(Byte)
      OBVIOUS
    <3> QED
      BY <3>1 DEF Buffer, Buffers
  <2>2. entry_forwards(Buffer(FALSE, FALSE), nr, f, key, option) = put(Buffer(FALSE, FALSE), s)
    BY <1>10, <2>1
  <2>3. put(Buffer(FALSE, FALSE), s).bytes = s
    <3>1. put(Buffer(FALSE, FALSE), s).bytes = << >> \o s
      BY <1>6, <2>1, PutFacts, ZenonT(40)
    <3>2. << >> \o s = s
      BY <1>6
    <3> QED
      BY <3>1, <3>2
  <2>4. Len(s) = Len(tag) + encoded_len_varint(n) + n
    <3>1. PICK c \in Seq(Byte) : c = len \o body
      BY <1>7
    <3>2. Len(c) = Len(len) + Len(body)
      BY <1>3, <1>5, <3>1, ConcatProperties
    <3>3. Len(tag \o c) = Len(tag) + Len(c)
      BY <1>5, <3>1, ConcatProperties
    <3>4. Len(tag) \in Nat /\ Len(len) \in Nat /\ Len(body) \in Nat
      BY <1>3, <1>5
    <3> QED
      BY <1>3, <1>5, <1>6, <3>1, <3>2, <3>3, <3>4
  <2>5. s = [i \in 1..Len(s) |-> IF i <= Len(s) THEN s[i] ELSE 0]
    <3>1. \A x \in Seq(Byte) : x = [i \in 1..Len(x) |-> IF i <= Len(x) THEN x[i] ELSE 0]
      <4>1. ASSUME NEW x \in Seq(Byte)
            PROVE  x = [i \in 1..Len(x) |-> IF i <= Len(x) THEN x[i] ELSE 0]
        <5>1. x = [i \in 1..Len(x) |-> x[i]] /\ \A i \in 1..Len(x) : i <= Len(x)
          BY SeqOverSet, SeqFacts
        <5> QED
          BY <5>1
      <4> QED
        BY <4>1
    <3> QED
      BY <1>6, <3>1
  <2> QED
    BY <2>2, <2>3, <2>4, <2>5 DEF claim_block
<1>13. ASSUME NEW b \in Buffers
       PROVE  write_entry(b, nr, f, key, option) = put(b, s)
  <2>1. CASE ~b.reverse
    BY <1>10, <2>1 DEF write_entry
  <2>2. CASE b.reverse /\ b.claims
    BY <1>12, <2>2 DEF write_entry
  <2>3. CASE b.reverse /\ ~b.claims
    BY <1>11, <2>3 DEF write_entry
  <2> QED
    BY <2>1, <2>2, <2>3 DEF Buffers
<1> QED
  BY <1>6, <1>13

\* A map's entry with a message in it is a message of a key and a message.
LEMMA MapMsgPuts ==
    ASSUME EntryNumbers, NEW nr, KeyNumber(nr), NEW f, NEW key, Handed(f.key, key),
           NEW body \in Seq(Byte)
    PROVE  LET s == MsgBytes(nr, FieldBytes(1, f.key, key) \o MsgBytes(2, body)) IN
           /\ FieldBytes(1, f.key, key) \o MsgBytes(2, body) \in Seq(Byte)
           /\ s \in Seq(Byte)
           /\ \A b \in Buffers : map_write_msg(b, nr, f, key, body) = put(b, s)
<1> DEFINE k == FieldBytes(1, f.key, key)
           m == MsgBytes(2, body)
<1>1. k \in Seq(Byte) /\ \A b \in Buffers : write_field(b, 1, f.key, key) = put(b, k)
  BY FieldPuts DEF EntryNumbers
<1>2. m \in Seq(Byte) /\ \A b \in Buffers : write_msg(b, 2, body) = put(b, m)
  BY MsgPuts DEF EntryNumbers
<1> HIDE DEF k, m
<1>3. k \o m \in Seq(Byte)
  BY <1>1, <1>2
<1>4. /\ MsgBytes(nr, k \o m) \in Seq(Byte)
      /\ \A b \in Buffers : write_msg(b, nr, k \o m) = put(b, MsgBytes(nr, k \o m))
  BY <1>3, MsgPuts
<1>5. ASSUME NEW b \in Buffers
      PROVE  map_write_msg(b, nr, f, key, body) = put(b, MsgBytes(nr, k \o m))
  <2> DEFINE e == Emptied(b)
  <2>1. e \in Buffers /\ e.reverse = b.reverse /\ put(e, k \o m).bytes = k \o m
    BY <1>3, EmptiedFacts
  <2>2. (IF b.reverse THEN write_field(write_msg(e, 2, body), 1, f.key, key)
                      ELSE write_msg(write_field(e, 1, f.key, key), 2, body)) = put(e, k \o m)
    <3> HIDE DEF e
    <3>1. put(e, m) \in Buffers /\ put(e, k) \in Buffers
      BY <1>1, <1>2, <2>1, PutFacts
    <3>2. put(put(e, m), k) = put(e, Both(e, m, k)) /\ put(put(e, k), m) = put(e, Both(e, k, m))
      BY <1>1, <1>2, <2>1, PutFacts
    <3>3. CASE b.reverse
      <4>1. Both(e, m, k) = k \o m
        BY <2>1, <3>3 DEF Both
      <4> QED
        BY <1>1, <1>2, <2>1, <3>1, <3>2, <3>3, <4>1
    <3>4. CASE ~b.reverse
      <4>1. Both(e, k, m) = k \o m
        BY <2>1, <3>4 DEF Both
      <4> QED
        BY <1>1, <1>2, <2>1, <3>1, <3>2, <3>4, <4>1
    <3> QED
      BY <3>3, <3>4
  <2>3. map_write_msg(b, nr, f, key, body) = write_msg(b, nr, k \o m)
    BY <2>1, <2>2 DEF map_write_msg
  <2> QED
    BY <1>4, <2>3
<1> QED
  BY <1>3, <1>4, <1>5 DEF k, m

\* What a map of two entries puts into every buffer.
WritesTwo(nr, f, k1, v1, k2, v2) ==
    \A b \in Buffers :
        map_write(b, nr, f, <<<<k1, v1>>, <<k2, v2>>>>)
        = put(put(b, MsgBytes(nr, EntryBody(f, k1, <<v1>>))), MsgBytes(nr, EntryBody(f, k2, <<v2>>)))

\* Two entries are one behind the other.
LEMMA MapPuts ==
    ASSUME EntryNumbers, NEW nr, KeyNumber(nr), NEW f, NEW k1, NEW k2, NEW v1, NEW v2,
           EntryOf(f, k1, <<v1>>), EntryOf(f, k2, <<v2>>)
    PROVE  WritesTwo(nr, f, k1, v1, k2, v2)
<1> DEFINE s1 == MsgBytes(nr, EntryBody(f, k1, <<v1>>))
           s2 == MsgBytes(nr, EntryBody(f, k2, <<v2>>))
           seq == <<<<k1, v1>>, <<k2, v2>>>>
<1>1. /\ s1 \in Seq(Byte) /\ \A b \in Buffers : write_entry(b, nr, f, k1, <<v1>>) = put(b, s1)
      /\ s2 \in Seq(Byte) /\ \A b \in Buffers : write_entry(b, nr, f, k2, <<v2>>) = put(b, s2)
  BY EntryPuts
<1>2. /\ DOMAIN seq = 1..2
      /\ seq[1][1] = k1 /\ seq[1][2] = v1 /\ seq[2][1] = k2 /\ seq[2][2] = v2
  OBVIOUS
<1>3. ASSUME NEW b \in Buffers
      PROVE  map_write(b, nr, f, seq) = put(put(b, s1), s2)
  <2> DEFINE Is(iter) == iter = [s \in SUBSET DOMAIN seq |->
                             IF s = {} THEN b
                             ELSE write_entry(iter[s \ {Max(s)}], nr, f, seq[Max(s)][1],
                                              <<seq[Max(s)][2]>>)]
             iter == CHOOSE iter : Is(iter)
  <2>1. map_write(b, nr, f, seq) = iter[DOMAIN seq]
    BY DEF map_write, FoldLeft, MapThenFoldSet
  <2> HIDE DEF seq, s1, s2
  <2>2. \A i \in 1..2 : \A x \in Buffers :
            /\ write_entry(x, nr, f, seq[i][1], <<seq[i][2]>>) = put(x, IF i = 1 THEN s1 ELSE s2)
            /\ put(x, IF i = 1 THEN s1 ELSE s2) \in Buffers
    <3>1. \A x \in Buffers : put(x, s1) \in Buffers /\ put(x, s2) \in Buffers
      BY <1>1, PutFacts
    <3>2. \A i \in 1..2 : i = 1 \/ i = 2
      OBVIOUS
    <3> QED
      BY <1>1, <1>2, <3>1, <3>2
  <2>3. \E h : Is(h)
    <3> DEFINE next == [i \in 1..2 |-> [x \in Buffers |-> put(x, IF i = 1 THEN s1 ELSE s2)]]
    <3>1. next \in [1..2 -> [Buffers -> Buffers]]
      <4>1. \A i \in 1..2 : [x \in Buffers |-> put(x, IF i = 1 THEN s1 ELSE s2)] \in [Buffers -> Buffers]
        BY <2>2
      <4> QED
        BY <4>1
    <3>2. \A i \in 1..2 : \A x \in Buffers : next[i][x] = put(x, IF i = 1 THEN s1 ELSE s2)
      OBVIOUS
    <3> HIDE DEF next
    <3>3. PICK h : Peeling(h, 2, Buffers, b, next)
      <4>1. 2 \in Nat
        OBVIOUS
      <4> QED
        BY <3>1, <4>1, SubsetRecursion
    <3>4. ASSUME NEW s \in SUBSET (1..2)
          PROVE  h[s] = IF s = {} THEN b
                        ELSE write_entry(h[s \ {Max(s)}], nr, f, seq[Max(s)][1], <<seq[Max(s)][2]>>)
      <4>1. CASE s = {}
        BY <3>3, <4>1 DEF Peeling
      <4>2. CASE s # {}
        <5>1. PICK m \in 1..2 : m = Max(s)
          <6>1. 2 \in Nat
            OBVIOUS
          <6> QED
            BY <4>2, <6>1, MaxIs
        <5>2. PICK y \in Buffers : y = h[s \ {m}]
          <6>1. s \ {m} \in SUBSET (1..2)
            OBVIOUS
          <6> QED
            BY <3>3, <6>1 DEF Peeling
        <5>3. h[s] = next[m][y]
          BY <3>3, <4>2, <5>1, <5>2 DEF Peeling
        <5>4. h[s] = write_entry(y, nr, f, seq[m][1], <<seq[m][2]>>)
          BY <2>2, <3>2, <5>3
        <5> QED
          BY <4>2, <5>1, <5>2, <5>4
      <4> QED
        BY <4>1, <4>2
    <3>5. h = [s \in SUBSET (1..2) |-> h[s]]
      BY <3>3 DEF Peeling
    <3>6. Is(h)
      BY <1>2, <3>4, <3>5
    <3> QED
      BY <3>6
  <2>4. Is(iter)
    <3> HIDE DEF Is
    <3> QED
      BY <2>3
  <2>5. \A s \in SUBSET (1..2) : iter[s] = IF s = {} THEN b
            ELSE write_entry(iter[s \ {Max(s)}], nr, f, seq[Max(s)][1], <<seq[Max(s)][2]>>)
    BY <1>2, <2>4
  <2> HIDE DEF iter
  <2>6. /\ 1..0 = {} /\ 1..0 \in SUBSET (1..2)
        /\ \A i \in 1..2 : /\ i \in Nat /\ 1..i \in SUBSET (1..2) /\ 1..i # {}
                           /\ Max(1..i) = i /\ (1..i) \ {i} = 1..(i - 1)
    <3>1. 2 \in Nat
      OBVIOUS
    <3> QED
      BY <3>1, FirstNumbers
  <2>7. iter[1..0] = b
    BY <2>5, <2>6
  <2>8. \A i \in 1..2 : iter[1..i] = write_entry(iter[1..(i - 1)], nr, f, seq[i][1], <<seq[i][2]>>)
    BY <2>5, <2>6, ZenonT(40)
  <2>9. iter[1..1] = put(b, s1)
    <3>1. 1 \in 1..2 /\ 1 - 1 = 0
      OBVIOUS
    <3> QED
      BY <2>2, <2>7, <2>8, <3>1
  <2>10. iter[1..2] = put(put(b, s1), s2)
    <3>1. 2 \in 1..2 /\ 2 - 1 = 1
      OBVIOUS
    <3>2. put(b, s1) \in Buffers
      BY <1>1, PutFacts
    <3> QED
      BY <2>2, <2>8, <2>9, <3>1, <3>2
  <2> QED
    BY <1>2, <2>1, <2>10
<1> QED
  BY <1>3 DEF WritesTwo

-----------------------------------------------------------------------------
(* What a reader makes of one field a writer wrote. *)

\* A value is read as what was handed over, whatever follows.
LEMMA CodedReads ==
    ASSUME NEW p, NEW v, Handed(p, v), NEW s \in Seq(Byte)
    PROVE  LET c == Coded(p, v) IN
           c \in Seq(Byte) /\ Len(c) \in Nat /\ read(p, c \o s) = Read(v.text, Len(c))
<1>1. p \in Packable \cup LenScalars /\ Holds(p, v.text) /\ SameForm(p, p)
  BY ScalarBytes, Kinds DEF Handed
<1>2. CASE ~v.streams
  <2>1. Coded(p, v) = write_value(p, v.text)
    BY <1>2, ScalarBytes DEF Coded
  <2> QED
    BY <1>1, <2>1, ReadsAs
<1>3. CASE v.streams
  <2> DEFINE n == Len(v.text)
             width == PaddedLen(n)
             c == write_wide_varint(width, n)
  <2>1. p \in LenScalars /\ v.text \in Seq(Byte) /\ n \in Word /\ n \in Nat
    BY <1>1, <1>3, ScalarBytes DEF Holds
  <2>2. width \in encoded_len_varint(n)..MaxGroups /\ width \in Nat
    BY EncodedLenType, VarintAssumption DEF PaddedLen
  <2> HIDE DEF width, n
  <2>3. c \in Seq(Byte) /\ Len(c) = width
    BY <2>1, <2>2, WideType
  <2>4. \A z \in Seq(Byte) : varint(c \o z) = Read(n, Len(c))
    <3>1. ASSUME NEW z \in Seq(Byte)
          PROVE  varint(c \o z) = Read(n, width)
      <4>1. decode_varint(c \o z) = Decoded(n, width)
        BY <2>1, <2>2, WideDecodes
      <4> QED
        BY <4>1 DEF varint, Decoded
    <3> QED
      BY <2>3, <3>1
  <2>5. Coded(p, v) = c \o v.text
    BY <1>3 DEF Coded, n, width
  <2> HIDE DEF c
  <2>6. PICK x \in Seq(Byte) : x = v.text /\ Len(x) = n
    BY <2>1 DEF n
  <2>7. LET w == c \o x IN
        w \in Seq(Byte) /\ Len(w) \in Nat /\ read(p, w \o s) = Read(x, Len(w))
    <3>1. Holds(p, x) /\ Len(x) \in Word
      BY <1>1, <2>1, <2>6
    <3>2. \A z \in Seq(Byte) : varint(c \o z) = Read(Len(x), Len(c))
      BY <2>4, <2>6
    <3> QED
      BY <2>1, <2>3, <3>1, <3>2, ReadsPrefixed
  <2> QED
    BY <2>5, <2>6, <2>7
<1>4. v.streams \in BOOLEAN
  BY ScalarBytes
<1> QED
  BY <1>2, <1>3, <1>4

\* Bytes that are one field of a reader of sch, and say y.
IsField(sch, s, y) ==
    /\ s \in Seq(Byte) /\ s # << >>
    /\ Names(sch, s) /\ FieldOf(sch, s) = Read(y, Len(s))

\* A key that sch names, and what its reader reads behind it.
LEMMA FieldIs ==
    ASSUME NEW sch, NEW nr \in DOMAIN sch, KeyNumber(nr), NEW wire \in WireType,
           NEW c \in Seq(Byte), NEW x, read_field(sch[nr], wire, c) = Read(x, Len(c))
    PROVE  IsField(sch, EncodedTag(nr, wire) \o c, <<nr, x>>)
<1> DEFINE tag == EncodedTag(nr, wire)
           s == tag \o c
           n == Len(tag)
           m == Len(c)
           k == [nr |-> nr, wire |-> wire]
<1>1. /\ tag \in Seq(Byte) /\ n \in Nat /\ decode_key(s) = Read(k, n) /\ After(s, n) = c
  BY TagReads
<1>2. s \in Seq(Byte) /\ Len(s) = n + m /\ m \in Nat
  BY <1>1, ConcatProperties
<1>3. s # << >>
  <2>1. << >> \in Seq(Byte) /\ ~IsErr(decode_key(s))
    BY <1>1, MovedOn
  <2>2. decode_key(s).used \in 1..Len(s)
    BY <1>2, <2>1, KeySteady
  <2> QED
    BY <1>2, <2>2
<1> HIDE DEF tag, s
<1>4. ~IsErr(Read(k, n)) /\ Read(k, n).value = k /\ Read(k, n).used = n
      /\ k.nr = nr /\ k.wire = wire
  BY <1>1, MovedOn
<1>5. Names(sch, s)
  BY <1>1, <1>4 DEF Names
<1>6. Numbered(nr, Read(x, m)) = Read(<<nr, x>>, m)
  BY DEF Numbered, IsErr, Read
<1>7. FieldOf(sch, s) = Moved(Numbered(nr, read_field(sch[nr], wire, c)), n)
  <2> HIDE DEF k, n
  <2> QED
    BY <1>1, <1>4 DEF FieldOf, Try
<1>8. Moved(Read(<<nr, x>>, m), n) = Read(<<nr, x>>, m + n)
  BY <1>1, <1>2, MovedOn
<1>9. m + n = Len(s)
  BY <1>1, <1>2
<1> QED
  BY <1>2, <1>3, <1>5, <1>6, <1>7, <1>8, <1>9 DEF IsField, s, tag

\* A length and the bytes behind it.
LEMMA LenReads ==
    ASSUME NEW x \in Seq(Byte), Len(x) \in Word, NEW s \in Seq(Byte)
    PROVE  LET w == write_varint(Len(x)) \o x IN
           /\ w \in Seq(Byte) /\ Len(w) \in Nat
           /\ decode_len(w) = Read(x, Len(w)) /\ decode_len(w \o s) = Read(x, Len(w))
<1> DEFINE w == write_varint(Len(x)) \o x
<1>1. << >> \in Seq(Byte)
  OBVIOUS
<1>2. /\ w \in Seq(Byte) /\ Len(w) \in Nat
      /\ decode_len(w \o s) = Read(x, Len(w)) /\ decode_len(w \o << >>) = Read(x, Len(w))
  BY <1>1, ReadsString
<1>3. w \o << >> = w
  BY <1>2
<1> QED
  BY <1>2, <1>3

\* The value of a field of the wire type the schema gives.
LEMMA CheckedIs ==
    \A wire, r : Checked(wire, wire, r) = r
BY DEF Checked, check_wire_type, IsErr, Read

\* The forms of fields.
LEMMA FormNames ==
    /\ \A p : Scalar(p).form = "scalar" /\ Scalar(p).val = p
    /\ \A p : Packed(p).form = "packed" /\ Packed(p).val = p
    /\ Message.form = "message"
    /\ \A k, p : SimpleMap(k, p).form = "map" /\ SimpleMap(k, p).key = k /\ SimpleMap(k, p).val = p
    /\ \A k : MessageMap(k).form = "message map" /\ MessageMap(k).key = k
BY DEF Scalar, Packed, Message, SimpleMap, MessageMap

\* A scalar field.
LEMMA ScalarFieldIs ==
    ASSUME NEW sch, NEW nr \in DOMAIN sch, KeyNumber(nr), NEW p, NEW v, Handed(p, v),
           sch[nr] = Scalar(p)
    PROVE  IsField(sch, FieldBytes(nr, p, v), <<nr, v.text>>)
<1> DEFINE c == Coded(p, v)
<1>1. << >> \in Seq(Byte)
  OBVIOUS
<1>2. c \in Seq(Byte) /\ read(p, c \o << >>) = Read(v.text, Len(c))
  BY <1>1, CodedReads
<1>3. c \o << >> = c
  BY <1>2
<1>4. WIRE_TYPE(p) \in WireType
  BY TagBytes DEF Handed
<1> HIDE DEF c
<1>5. read_field(sch[nr], WIRE_TYPE(p), c) = Read(v.text, Len(c))
  <2>1. sch[nr].form = "scalar" /\ sch[nr].val = p
    BY FormNames
  <2>2. read_field(sch[nr], WIRE_TYPE(p), c) = Checked(WIRE_TYPE(p), WIRE_TYPE(p), read(p, c))
    BY <2>1 DEF read_field
  <2> QED
    BY <1>2, <1>3, <2>2, CheckedIs
<1> QED
  BY <1>2, <1>4, <1>5, FieldIs DEF FieldBytes, c

\* A field that is read as the bytes behind its length: a nested message and a packed field.
LEMMA LenFieldIs ==
    ASSUME NEW sch, NEW nr \in DOMAIN sch, KeyNumber(nr), NEW body \in Seq(Byte), Len(body) \in Word,
           sch[nr] = Message \/ \E p : sch[nr] = Packed(p)
    PROVE  IsField(sch, MsgBytes(nr, body), <<nr, body>>)
<1> DEFINE c == write_varint(Len(body)) \o body
<1>1. << >> \in Seq(Byte)
  OBVIOUS
<1>2. c \in Seq(Byte) /\ decode_len(c) = Read(body, Len(c))
  BY <1>1, LenReads
<1>3. "LEN" \in WireType
  BY DEF WireType
<1> HIDE DEF c
<1>4. read_field(sch[nr], "LEN", c) = Read(body, Len(c))
  <2>1. CASE sch[nr] = Message
    <3>1. sch[nr].form = "message"
      BY <2>1, FormNames
    <3>2. read_field(sch[nr], "LEN", c) = Checked("LEN", "LEN", decode_len(c))
      BY <3>1 DEF read_field
    <3> QED
      BY <1>2, <3>2, CheckedIs
  <2>2. CASE \E p : sch[nr] = Packed(p)
    <3>1. sch[nr].form = "packed"
      BY <2>2, FormNames
    <3> QED
      BY <1>2, <3>1 DEF read_field, read_packed
  <2> QED
    BY <2>1, <2>2
<1> QED
  BY <1>2, <1>3, <1>4, FieldIs DEF MsgBytes, c

-----------------------------------------------------------------------------
(* The loops of PackedIter and of a nested message's decoder: over n bytes, r is what is *)
(* read at each of them and f[a] what the loop has from a on.                            *)

Loops(f, n, r) ==
    f = [a \in 0..n |-> IF a = n THEN << >>
                        ELSE Collect(r[a], [k \in 1..n - a |-> f[a + k]])]

\* Every read goes on.
Proceeds(n, r) == \A a \in 0..n : a # n /\ ~IsErr(r[a]) => r[a].used \in 1..(n - a)

\* There is such a function.
LEMMA LoopExists ==
    ASSUME NEW n \in Nat, NEW r, Proceeds(n, r)
    PROVE  \E f : Loops(f, n, r)
<1> DEFINE Y == {r[a].value : a \in 0..n}
           V == Seq(Y)
           D == 0..n
           stop == {a \in D : a = n \/ IsErr(r[a])}
           last == [a \in D |-> << >>]
           next == [a \in D |-> a + r[a].used]
           step == [a \in D |-> [v \in V |-> <<r[a].value>> \o v]]
<1>1. << >> \in V /\ \A a \in D : \A v \in V : <<r[a].value>> \o v \in V
  <2>1. \A a \in D : r[a].value \in Y
    OBVIOUS
  <2> HIDE DEF Y
  <2>2. \A y \in Y : \A v \in Seq(Y) : <<y>> \o v \in Seq(Y)
    <3>1. ASSUME NEW y \in Y, NEW v \in Seq(Y)
          PROVE  <<y>> \o v \in Seq(Y)
      <4>1. <<y>> \in Seq(Y)
        OBVIOUS
      <4> QED
        BY <4>1, ConcatProps
    <3> QED
      BY <3>1
  <2>3. << >> \in Seq(Y)
    OBVIOUS
  <2> QED
    BY <2>1, <2>2, <2>3
<1> HIDE DEF V
<1>2. \A a \in D : step[a] \in [V -> V]
  BY <1>1
<1>3. \A a \in D : \A v \in V : step[a][v] = <<r[a].value>> \o v
  OBVIOUS
<1>4. \A a \in D : last[a] = << >> /\ last[a] \in V
  BY <1>1
<1>5. \A a \in D : a \in stop <=> a = n \/ IsErr(r[a])
  OBVIOUS
<1>6. \A a \in D : a \notin stop => next[a] = a + r[a].used /\ next[a] \in (a + 1)..n
                                    /\ next[a] \in D /\ r[a].used \in 1..(n - a)
  <2>1. ASSUME NEW a \in D, a \notin stop
        PROVE  next[a] = a + r[a].used /\ next[a] \in (a + 1)..n /\ next[a] \in D
               /\ r[a].used \in 1..(n - a)
    <3>1. PICK u \in 1..(n - a) : u = r[a].used
      BY <1>5, <2>1 DEF Proceeds
    <3>2. next[a] = a + u
      BY <3>1
    <3>3. a + u \in (a + 1)..n /\ a + u \in 0..n
      BY ONLY n \in Nat, a \in 0..n, u \in 1..(n - a)
    <3> QED
      BY <3>1, <3>2, <3>3
  <2> QED
    BY <2>1
<1>7. D = 0..n
  OBVIOUS
<1> HIDE DEF step, next, last, stop, D
<1>8. Climbs(n, V, stop, last, next, step)
  BY <1>2, <1>4, <1>6, <1>7 DEF Climbs
<1>9. PICK f : Climbing(f, n, V, stop, last, next, step)
  BY <1>8, DownRecursion
<1>10. f \in [0..n -> V] /\ \A a \in 0..n : f[a] = IF a \in stop THEN last[a] ELSE step[a][f[next[a]]]
  BY <1>9 DEF Climbing
<1>11. ASSUME NEW a \in 0..n
       PROVE  f[a] = IF a = n THEN << >> ELSE Collect(r[a], [k \in 1..n - a |-> f[a + k]])
  <2>1. CASE a = n
    BY <1>4, <1>5, <1>7, <1>10, <2>1
  <2>2. CASE a # n /\ IsErr(r[a])
    BY <1>4, <1>5, <1>7, <1>10, <2>2 DEF Collect
  <2>3. CASE a # n /\ ~IsErr(r[a])
    <3>1. /\ next[a] = a + r[a].used /\ next[a] \in 0..n /\ r[a].used \in 1..(n - a)
          /\ f[a] = step[a][f[next[a]]]
      BY <1>5, <1>6, <1>7, <1>10, <2>3
    <3>2. f[next[a]] \in V
      BY <1>10, <3>1
    <3>3. f[a] = <<r[a].value>> \o f[a + r[a].used]
      BY <1>3, <1>7, <3>1, <3>2
    <3>4. [k \in 1..n - a |-> f[a + k]][r[a].used] = f[a + r[a].used]
      BY <3>1
    <3> QED
      BY <2>3, <3>3, <3>4 DEF Collect
  <2> QED
    BY <2>1, <2>2, <2>3
<1>12. f = [a \in 0..n |-> f[a]]
  BY <1>10
<1> QED
  BY <1>11, <1>12 DEF Loops

\* Wherever v lies in s, y is what is read there, and as much as v.
Unit(s, r, v, y) ==
    /\ v \in Seq(Byte) /\ v # << >>
    /\ \A x, u \in Seq(Byte) : s = x \o (v \o u) => r[Len(x)] = Read(y, Len(v))

Units(s, r, vs, ys) ==
    /\ IsSeq(ys) /\ Len(ys) = Len(vs)
    /\ \A i \in 1..Len(vs) : Unit(s, r, vs[i], ys[i])

\* The first element of a list and the others.
LEMMA HeadAndRest ==
    ASSUME NEW s, IsSeq(s), Len(s) # 0
    PROVE  LET rest == [i \in 1..(Len(s) - 1) |-> s[i + 1]] IN
           /\ IsSeq(rest) /\ Len(rest) = Len(s) - 1 /\ s = <<s[1]>> \o rest
           /\ \A i \in 1..(Len(s) - 1) : rest[i] = s[i + 1] /\ i + 1 \in 1..Len(s)
<1> DEFINE m == Len(s) - 1
           rest == [i \in 1..m |-> s[i + 1]]
           h == <<s[1]>>
<1>1. Len(s) \in Nat /\ m \in Nat /\ m + 1 = Len(s)
  BY SeqFacts
<1> HIDE DEF m
<1>2. rest = [i \in 1..m |-> rest[i]] /\ \A i \in 1..m : rest[i] = s[i + 1] /\ i + 1 \in 1..Len(s)
  BY <1>1
<1> HIDE DEF rest
<1>3. IsSeq(rest) /\ Len(rest) = m
  BY <1>1, <1>2, FunctionIsSeq
<1>4. IsSeq(h) /\ Len(h) = 1 /\ h[1] = s[1]
  BY DEF IsSeq, ToSet
<1> HIDE DEF h
<1>5. /\ IsSeq(h \o rest) /\ Len(h \o rest) = 1 + m
      /\ \A i \in 1..1 : (h \o rest)[i] = h[i]
      /\ \A i \in 1..m : (h \o rest)[1 + i] = rest[i]
  <2>1. /\ IsSeq(h \o rest) /\ Len(h \o rest) = Len(h) + Len(rest)
        /\ \A i \in 1..Len(h) : (h \o rest)[i] = h[i]
        /\ \A i \in 1..Len(rest) : (h \o rest)[Len(h) + i] = rest[i]
    <3>1. IsSeq(h)
      BY <1>4
    <3>2. IsSeq(rest)
      BY <1>3
    <3> QED
      BY ONLY <3>1, <3>2, ConcatFacts
  <2> QED
    BY <1>3, <1>4, <2>1
<1>6. ASSUME NEW i \in 1..Len(s)
      PROVE  s[i] = (h \o rest)[i]
  <2>1. CASE i = 1
    BY <1>4, <1>5, <2>1
  <2>2. CASE i # 1
    <3>1. PICK j \in 1..m : i = 1 + j /\ i = j + 1
      <4>1. i - 1 \in 1..m /\ i = 1 + (i - 1) /\ i = (i - 1) + 1
        BY <1>1, <2>2
      <4> QED
        BY <4>1
    <3> QED
      BY <1>2, <1>5, <3>1, ZenonT(40)
  <2> QED
    BY <2>1, <2>2
<1>7. s = h \o rest
  <2>1. Len(h \o rest) = Len(s)
    BY <1>1, <1>5
  <2> QED
    BY <1>5, <1>6, <2>1, SameSeq
<1> QED
  BY <1>1, <1>2, <1>3, <1>7 DEF m, rest, h

\* Wherever units are what is left, f is what they say.
Tells(s, r, f) ==
    \A vs \in Seq(Seq(Byte)) : \A ys :
        Units(s, r, vs, ys) =>
            \A x \in Seq(Byte) : s = x \o FlattenSeq(vs) => f[Len(x)] = ys

\* A loop over bytes that are units has what they say.
LEMMA LoopUnits ==
    ASSUME NEW s \in Seq(Byte), NEW r, NEW f, Loops(f, Len(s), r)
    PROVE  Tells(s, r, f)
<1> DEFINE n == Len(s)
           P(vs) == \A ys : Units(s, r, vs, ys) =>
                        \A x \in Seq(Byte) : s = x \o FlattenSeq(vs) => f[Len(x)] = ys
           N == {m \in Nat : \A vs \in Seq(Seq(Byte)) : Len(vs) = m => P(vs)}
<1>1. \A a \in 0..n : f[a] = IF a = n THEN << >> ELSE Collect(r[a], [k \in 1..n - a |-> f[a + k]])
  BY DEF Loops
<1>2. n \in Nat
  OBVIOUS
<1>3. 0 \in N
  <2>1. ASSUME NEW vs \in Seq(Seq(Byte)), Len(vs) = 0, NEW ys, Units(s, r, vs, ys),
               NEW x \in Seq(Byte), s = x \o FlattenSeq(vs)
        PROVE  f[Len(x)] = ys
    <3>1. vs = << >>
      BY <2>1
    <3>2. FlattenSeq(<< >>) = << >>
      BY FlattenFew
    <3>3. s = x
      BY <2>1, <3>1, <3>2
    <3>4. ys = << >>
      <4>1. Len(ys) = 0 /\ ys = [i \in 1..Len(ys) |-> ys[i]]
        BY <2>1, SeqFacts DEF Units
      <4> QED
        BY <4>1
    <3>5. n \in 0..n
      BY <1>2
    <3>6. f[n] = << >>
      BY <1>1, <3>5
    <3> QED
      BY <3>3, <3>4, <3>6
  <2>2. \A vs \in Seq(Seq(Byte)) : Len(vs) = 0 => P(vs)
    BY <2>1
  <2> HIDE DEF P
  <2> QED
    BY <2>2
<1>4. ASSUME NEW m \in Nat, m \in N
      PROVE  m + 1 \in N
  <2>1. ASSUME NEW vs \in Seq(Seq(Byte)), Len(vs) = m + 1, NEW ys, Units(s, r, vs, ys),
               NEW x \in Seq(Byte), s = x \o FlattenSeq(vs)
        PROVE  f[Len(x)] = ys
    <3> DEFINE v == vs[1]
               y == ys[1]
               ws == [i \in 1..(Len(vs) - 1) |-> vs[i + 1]]
               zs == [i \in 1..(Len(ys) - 1) |-> ys[i + 1]]
    <3>1. /\ v \in Seq(Byte) /\ IsSeq(vs) /\ Len(vs) # 0 /\ Len(vs) - 1 = m
          /\ \A i \in 1..(m + 1) : vs[i] \in Seq(Byte)
      BY <2>1, SeqOverSet, ElementOfSeq
    <3>2. /\ Len(ws) = m /\ vs = <<v>> \o ws
          /\ \A i \in 1..m : ws[i] = vs[i + 1] /\ i + 1 \in 1..(m + 1)
      BY <2>1, <3>1, HeadAndRest
    <3>3. IsSeq(ys) /\ Len(ys) = m + 1
      BY <2>1 DEF Units
    <3>4. /\ IsSeq(zs) /\ Len(zs) = m /\ ys = <<y>> \o zs
          /\ \A i \in 1..m : zs[i] = ys[i + 1]
      <4>1. Len(ys) # 0 /\ Len(ys) - 1 = m
        BY <3>3
      <4>2. /\ IsSeq(zs) /\ Len(zs) = Len(ys) - 1 /\ ys = <<y>> \o zs
            /\ \A i \in 1..(Len(ys) - 1) : zs[i] = ys[i + 1]
        BY <3>3, <4>1, HeadAndRest
      <4> HIDE DEF zs, y
      <4> QED
        BY <4>1, <4>2
    <3>5. ws \in Seq(Seq(Byte))
      <4>1. \A i \in 1..m : ws[i] \in Seq(Byte)
        BY <3>1, <3>2
      <4>2. ws = [i \in 1..m |-> ws[i]]
        BY <3>1
      <4> HIDE DEF ws
      <4>3. PICK S : S = Seq(Byte)
        OBVIOUS
      <4>4. ws \in [1..m -> S]
        BY <4>1, <4>2, <4>3
      <4>5. ws \in Seq(S)
        BY <4>4
      <4> QED
        BY <4>3, <4>5
    <3> HIDE DEF v, y, ws, zs
    <3>6. Unit(s, r, v, y)
      BY <2>1, <3>1 DEF Units, v, y
    <3>7. Units(s, r, ws, zs)
      <4>1. ASSUME NEW i \in 1..m
            PROVE  Unit(s, r, ws[i], zs[i])
        <5>1. i + 1 \in 1..Len(vs)
          BY <2>1, <3>2
        <5>2. Unit(s, r, vs[i + 1], ys[i + 1])
          BY <2>1, <5>1 DEF Units
        <5> QED
          BY <3>2, <3>4, <5>2
      <4> QED
        BY <3>2, <3>4, <4>1 DEF Units
    <3> DEFINE F == FlattenSeq(ws)
    <3>8. F \in Seq(Byte) /\ FlattenSeq(vs) = v \o F
      <4>1. << >> \in Seq(Byte)
        OBVIOUS
      <4> QED
        BY <3>1, <3>2, <3>5, <4>1, FlattenAppend, FlattenFew
    <3> HIDE DEF F
    <3>9. s = x \o (v \o F)
      BY <2>1, <3>8
    <3>10. r[Len(x)] = Read(y, Len(v)) /\ v # << >>
      BY <3>6, <3>8, <3>9 DEF Unit
    <3>11. x \o v \in Seq(Byte) /\ Len(x \o v) = Len(x) + Len(v) /\ s = (x \o v) \o F
      <4>1. \A a, b, c \in Seq(Byte) : (a \o b) \o c = a \o (b \o c)
        BY ConcatAssociative, SMTT(20)
      <4> QED
        BY <3>1, <3>8, <3>9, <4>1, ConcatProperties
    <3>12. f[Len(x \o v)] = zs
      <4>1. Len(ws) = m
        BY <3>2
      <4> QED
        BY <1>4, <3>5, <3>7, <3>11, <4>1 DEF F
    <3>13. Len(x) \in 0..n /\ Len(x) # n /\ Len(v) \in 1..(n - Len(x))
      <4>1. n = (Len(x) + Len(v)) + Len(F) /\ Len(F) \in Nat /\ Len(x) \in Nat /\ Len(v) \in Nat
        BY <3>1, <3>8, <3>11, ConcatProperties
      <4>2. Len(v) # 0
        BY <3>1, <3>10
      <4> HIDE DEF n
      <4> QED
        BY <4>1, <4>2
    <3>14. f[Len(x)] = Collect(r[Len(x)], [k \in 1..n - Len(x) |-> f[Len(x) + k]])
      BY <1>1, <3>13
    <3>15. [k \in 1..n - Len(x) |-> f[Len(x) + k]][Len(v)] = f[Len(x) + Len(v)]
      BY <3>13
    <3>16. ~IsErr(Read(y, Len(v))) /\ Read(y, Len(v)).value = y /\ Read(y, Len(v)).used = Len(v)
      BY DEF Read, IsErr
    <3>17. f[Len(x)] = <<y>> \o zs
      <4> HIDE DEF n
      <4> QED
        BY <3>10, <3>11, <3>12, <3>14, <3>15, <3>16 DEF Collect
    <3> QED
      BY <3>4, <3>17
  <2>2. \A vs \in Seq(Seq(Byte)) : Len(vs) = m + 1 => P(vs)
    BY <2>1
  <2>3. m + 1 \in Nat
    OBVIOUS
  <2> HIDE DEF P
  <2> QED
    BY <2>2, <2>3
<1> HIDE DEF N, P
<1>5. Nat \subseteq N
  BY ONLY <1>3, <1>4, SetInduction
<1> QED
  <2>1. ASSUME NEW vs \in Seq(Seq(Byte))
        PROVE  \A ys : Units(s, r, vs, ys) =>
                   \A x \in Seq(Byte) : s = x \o FlattenSeq(vs) => f[Len(x)] = ys
    <3>1. Len(vs) \in N
      BY <1>5
    <3>2. P(vs)
      BY <3>1 DEF N
    <3> QED
      BY <3>2 DEF P
  <2> QED
    BY <2>1 DEF Tells

-----------------------------------------------------------------------------
(* What the two loops make of the bytes. *)

\* A value of a packed type has at least one byte.
LEMMA ReadUses ==
    ASSUME NEW p \in Packable, NEW s \in Seq(Byte), ~IsErr(read(p, s))
    PROVE  read(p, s).used \in 1..Len(s)
<1>1. << >> \in Seq(Byte) /\ Len(s) \in Nat
  OBVIOUS
<1>2. /\ p \in VarintScalars => ~IsErr(varint(s)) /\ varint(s).used = read(p, s).used
      /\ p \notin VarintScalars \cup LenScalars =>
            ~IsErr(Split(s, FixedSize(p))) /\ Split(s, FixedSize(p)).used = read(p, s).used
      /\ Steady(read(p, s), read(p, s \o << >>), Len(s))
  BY <1>1, ReadSteady
<1>3. read(p, s).used \in 0..Len(s)
  BY <1>1, <1>2, OutcomeIs DEF Steady
<1>4. CASE p \in VarintScalars
  BY <1>1, <1>2, <1>4, VarintSteady
<1>5. CASE p \notin VarintScalars
  <2>1. p \notin LenScalars
    BY DEF Packable, VarintScalars, Fixed32Scalars, Fixed64Scalars, LenScalars
  <2>2. FixedSize(p) \in Nat \ {0}
    BY ScalarsAssumption DEF FixedSize
  <2>3. Split(s, FixedSize(p)).used = FixedSize(p)
    BY <1>1, <1>2, <1>5, <2>1, <2>2, SplitSteady
  <2> QED
    BY <1>1, <1>2, <1>3, <1>5, <2>1, <2>2, <2>3
<1> QED
  BY <1>4, <1>5

\* A packed list is read as it was written.
LEMMA UnpackIs ==
    ASSUME NEW p \in Packable, NEW values, IsSeq(values),
           \A i \in 1..Len(values) : Handed(p, values[i])
    PROVE  unpack(p, Elements(p, values)) = [i \in 1..Len(values) |-> values[i].text]
<1> DEFINE cs == [i \in 1..Len(values) |-> write_value(p, values[i].scalar)]
           s == FlattenSeq(cs)
           n == Len(s)
           r == [a \in 0..n |-> read(p, After(s, a))]
           ys == [i \in 1..Len(values) |-> values[i].text]
           Is(iter) == iter = [at \in 0..Len(s) |->
                           IF at = Len(s) THEN << >>
                           ELSE Collect(read(p, After(s, at)),
                                        [k \in 1..Len(s) - at |-> iter[at + k]])]
           iter == CHOOSE iter : Is(iter)
<1>1. unpack(p, Elements(p, values)) = iter[0]
  BY DEF unpack, Elements
<1>2. cs \in Seq(Seq(Byte)) /\ s \in Seq(Byte)
  BY ElementsPuts
<1>3. n \in Nat /\ n = Len(s) /\ Len(values) \in Nat
  BY <1>2, SeqFacts
<1>4. Len(cs) = Len(values) /\ (\A i \in 1..Len(values) : cs[i] = write_value(p, values[i].scalar))
  BY <1>3
<1>5. IsSeq(ys) /\ Len(ys) = Len(values) /\ (\A i \in 1..Len(values) : ys[i] = values[i].text)
  <2>1. ys = [i \in 1..Len(values) |-> ys[i]] /\ \A i \in 1..Len(values) : ys[i] = values[i].text
    OBVIOUS
  <2> HIDE DEF ys
  <2> QED
    BY <1>3, <2>1, FunctionIsSeq
<1> HIDE DEF cs, s, ys
<1>6. \A a \in 0..n : r[a] = read(p, After(s, a))
  OBVIOUS
<1>7. \A f : Loops(f, n, r) <=> Is(f)
  <2>1. ASSUME NEW f
        PROVE  [a \in 0..n |-> IF a = n THEN << >>
                               ELSE Collect(r[a], [k \in 1..n - a |-> f[a + k]])]
               = [at \in 0..Len(s) |-> IF at = Len(s) THEN << >>
                               ELSE Collect(read(p, After(s, at)),
                                            [k \in 1..Len(s) - at |-> f[at + k]])]
    <3> HIDE DEF r
    <3> QED
      BY <1>6
  <2> HIDE DEF r, n
  <2> QED
    BY <2>1 DEF Loops
<1> HIDE DEF n, r
<1>8. Proceeds(n, r)
  <2>1. ASSUME NEW a \in 0..n, a # n, ~IsErr(r[a])
        PROVE  r[a].used \in 1..(n - a)
    <3>1. After(s, a) \in Seq(Byte) /\ Len(After(s, a)) = n - a
      BY <1>2, <1>3, Behind
    <3> QED
      BY <1>6, <2>1, <3>1, ReadUses
  <2> QED
    BY <2>1 DEF Proceeds
<1>9. Loops(iter, n, r)
  <2>1. \E f : Is(f)
    <3>1. \E f : Loops(f, n, r)
      BY <1>3, <1>8, LoopExists
    <3> HIDE DEF Is
    <3> QED
      BY <1>7, <3>1
  <2>2. Is(iter)
    <3> HIDE DEF Is
    <3> QED
      BY <2>1
  <2> HIDE DEF Is, iter
  <2> QED
    BY <1>7, <2>2
<1>10. ASSUME NEW i \in 1..Len(values)
       PROVE  Unit(s, r, cs[i], ys[i])
  <2> DEFINE w == cs[i]
  <2>1. /\ values[i].scalar = values[i].text /\ Holds(p, values[i].text)
        /\ p \in Packable \cup LenScalars
    <3>1. p \notin LenScalars
      BY DEF Packable, VarintScalars, Fixed32Scalars, Fixed64Scalars, LenScalars
    <3>2. Handed(p, values[i])
      OBVIOUS
    <3>3. values[i].streams \in BOOLEAN
      BY <3>2, ScalarBytes
    <3> QED
      BY <3>1, <3>2, <3>3, ScalarBytes
  <2>2. \A u \in Seq(Byte) : w \in Seq(Byte) /\ Len(w) \in Nat /\ read(p, w \o u) = Read(ys[i], Len(w))
    <3>1. w = write_value(p, ys[i]) /\ Holds(p, ys[i]) /\ SameForm(p, p)
      BY <1>4, <1>5, <2>1, Kinds
    <3> HIDE DEF w
    <3> QED
      BY <3>1, ReadsAs
  <2> HIDE DEF w
  <2>3. w \in Seq(Byte) /\ w # << >>
    <3>1. << >> \in Seq(Byte)
      OBVIOUS
    <3>0. w \in Seq(Byte)
      BY <2>2, <3>1
    <3>2. w \in Seq(Byte) /\ w \o << >> = w
      BY <3>0
    <3>3. read(p, w) = Read(ys[i], Len(w))
      BY <2>2, <3>1, <3>2
    <3>4. ~IsErr(read(p, w)) /\ read(p, w).used = Len(w)
      BY <3>3 DEF Read, IsErr
    <3>5. Len(w) \in 1..Len(w)
      BY <3>2, <3>4, ReadUses
    <3> QED
      BY <3>2, <3>5
  <2>4. ASSUME NEW x \in Seq(Byte), NEW u \in Seq(Byte), s = x \o (w \o u)
        PROVE  r[Len(x)] = Read(ys[i], Len(w))
    <3>0. w \o u \in Seq(Byte)
      BY <2>3
    <3>1. PICK z \in Seq(Byte) : z = w \o u
      BY <3>0
    <3>2. After(s, Len(x)) = z
      BY <2>4, <3>1, BehindConcat
    <3>3. Len(x) \in 0..n
      <4>1. Len(x \o z) = Len(x) + Len(z) /\ Len(x) \in Nat /\ Len(z) \in Nat
        BY ConcatProperties
      <4> QED
        BY <1>3, <2>4, <3>1, <4>1
    <3> QED
      BY <1>6, <2>2, <3>1, <3>2, <3>3
  <2> QED
    BY <2>3, <2>4 DEF Unit, w
<1>11. Units(s, r, cs, ys)
  BY <1>4, <1>5, <1>10 DEF Units
<1>12. iter[0] = ys
  <2>1. << >> \in Seq(Byte) /\ Len(<< >>) = 0 /\ s = << >> \o s
    BY <1>2
  <2>2. Loops(iter, Len(s), r)
    BY <1>3, <1>9
  <2> HIDE DEF iter
  <2>3. \A x \in Seq(Byte) : s = x \o FlattenSeq(cs) => iter[Len(x)] = ys
    <3>1. s \in Seq(Byte)
      BY <1>2
    <3>2. cs \in Seq(Seq(Byte))
      BY <1>2
    <3>3. Units(s, r, cs, ys)
      BY <1>11
    <3>4. Tells(s, r, iter)
      BY <2>2, <3>1, LoopUnits
    <3> QED
      BY ONLY <3>2, <3>3, <3>4 DEF Tells
  <2> QED
    BY <2>1, <2>3 DEF s
<1> QED
  BY <1>1, <1>12 DEF ys

\* The loop over a nested message's fields, for any schema.
UnnestBy(sch, s) ==
    LET iter[at \in 0..Len(s)] ==
            IF at = Len(s) THEN << >>
            ELSE Collect(FieldOf(sch, After(s, at)), [n \in 1..Len(s) - at |-> iter[at + n]])
    IN  iter[0]

\* It has the fields there are.
LEMMA UnnestIs ==
    ASSUME NEW sch, NEW cs \in Seq(Seq(Byte)), NEW ys, IsSeq(ys), Len(ys) = Len(cs),
           \A i \in 1..Len(cs) : IsField(sch, cs[i], ys[i])
    PROVE  UnnestBy(sch, FlattenSeq(cs)) = ys
<1> DEFINE s == FlattenSeq(cs)
           n == Len(s)
           r == [a \in 0..n |-> FieldOf(sch, After(s, a))]
           Is(iter) == iter = [at \in 0..Len(s) |->
                           IF at = Len(s) THEN << >>
                           ELSE Collect(FieldOf(sch, After(s, at)),
                                        [k \in 1..Len(s) - at |-> iter[at + k]])]
           iter == CHOOSE iter : Is(iter)
<1>1. UnnestBy(sch, s) = iter[0]
  BY DEF UnnestBy
<1>2. s \in Seq(Byte)
  <2>1. << >> \in Seq(Byte)
    OBVIOUS
  <2> QED
    BY <2>1, FlattenAppend
<1>3. n \in Nat /\ n = Len(s)
  BY <1>2
<1> HIDE DEF s
<1>6. \A a \in 0..n : r[a] = FieldOf(sch, After(s, a))
  OBVIOUS
<1>7. \A f : Loops(f, n, r) <=> Is(f)
  <2>1. ASSUME NEW f
        PROVE  [a \in 0..n |-> IF a = n THEN << >>
                               ELSE Collect(r[a], [k \in 1..n - a |-> f[a + k]])]
               = [at \in 0..Len(s) |-> IF at = Len(s) THEN << >>
                               ELSE Collect(FieldOf(sch, After(s, at)),
                                            [k \in 1..Len(s) - at |-> f[at + k]])]
    <3> HIDE DEF r
    <3> QED
      BY <1>6
  <2> HIDE DEF r, n
  <2> QED
    BY <2>1 DEF Loops
<1> HIDE DEF n, r
<1>8. Proceeds(n, r)
  <2>1. ASSUME NEW a \in 0..n, a # n, ~IsErr(r[a])
        PROVE  r[a].used \in 1..(n - a)
    <3>1. After(s, a) \in Seq(Byte) /\ Len(After(s, a)) = n - a
      BY <1>2, <1>3, Behind
    <3> QED
      BY <1>6, <2>1, <3>1, FieldOfType
  <2> QED
    BY <2>1 DEF Proceeds
<1>9. Loops(iter, n, r)
  <2>1. \E f : Is(f)
    <3>1. \E f : Loops(f, n, r)
      BY <1>3, <1>8, LoopExists
    <3> HIDE DEF Is
    <3> QED
      BY <1>7, <3>1
  <2>2. Is(iter)
    <3> HIDE DEF Is
    <3> QED
      BY <2>1
  <2> HIDE DEF Is, iter
  <2> QED
    BY <1>7, <2>2
<1>10. ASSUME NEW i \in 1..Len(cs)
       PROVE  Unit(s, r, cs[i], ys[i])
  <2> DEFINE w == cs[i]
  <2>1. /\ w \in Seq(Byte) /\ w # << >> /\ FieldOf(sch, w) = Read(ys[i], Len(w))
    BY DEF IsField
  <2> HIDE DEF w
  <2>2. ASSUME NEW u \in Seq(Byte)
        PROVE  FieldOf(sch, w \o u) = Read(ys[i], Len(w))
    <3>1. Stays(FieldOf(sch, w), FieldOf(sch, w \o u))
      BY <2>1, FieldOfSteady DEF Steady
    <3>2. FieldOf(sch, w).err = "none"
      BY <2>1 DEF Read
    <3> QED
      BY <2>1, <3>1, <3>2 DEF Stays
  <2>4. ASSUME NEW x \in Seq(Byte), NEW u \in Seq(Byte), s = x \o (w \o u)
        PROVE  r[Len(x)] = Read(ys[i], Len(w))
    <3>0. w \o u \in Seq(Byte)
      BY <2>1
    <3>1. PICK z \in Seq(Byte) : z = w \o u
      BY <3>0
    <3>2. After(s, Len(x)) = z
      BY <2>4, <3>1, BehindConcat
    <3>3. Len(x) \in 0..n
      <4>1. Len(x \o z) = Len(x) + Len(z) /\ Len(x) \in Nat /\ Len(z) \in Nat
        BY ConcatProperties
      <4> QED
        BY <1>3, <2>4, <3>1, <4>1
    <3> QED
      BY <1>6, <2>2, <3>1, <3>2, <3>3
  <2> QED
    BY <2>1, <2>4 DEF Unit, w
<1>11. Units(s, r, cs, ys)
  BY <1>10 DEF Units
<1>12. iter[0] = ys
  <2>1. << >> \in Seq(Byte) /\ Len(<< >>) = 0 /\ s = << >> \o s
    BY <1>2
  <2>2. Loops(iter, Len(s), r)
    BY <1>3, <1>9
  <2> HIDE DEF iter
  <2>3. \A x \in Seq(Byte) : s = x \o FlattenSeq(cs) => iter[Len(x)] = ys
    <3>1. s \in Seq(Byte)
      BY <1>2
    <3>2. cs \in Seq(Seq(Byte))
      OBVIOUS
    <3>3. Units(s, r, cs, ys)
      BY <1>11
    <3>4. Tells(s, r, iter)
      BY <2>2, <3>1, LoopUnits
    <3> QED
      BY ONLY <3>2, <3>3, <3>4 DEF Tells
  <2> QED
    BY <2>1, <2>3 DEF s
<1> QED
  BY <1>1, <1>12 DEF s

-----------------------------------------------------------------------------
(* The entries of maps. *)

\* An entry's fields are those of a message with two fields.
EntrySchema(f) ==
    [nr \in {1, 2} |-> IF nr = 1 THEN Scalar(f.key)
                       ELSE IF f.form = "map" THEN Scalar(f.val) ELSE Message]

\* Its fields.
LEMMA EntrySchemaIs ==
    ASSUME NEW f
    PROVE  /\ DOMAIN EntrySchema(f) = {1, 2} /\ EntrySchema(f)[1] = Scalar(f.key)
           /\ (f.form = "map" => EntrySchema(f)[2] = Scalar(f.val))
           /\ (f.form # "map" => EntrySchema(f)[2] = Message)
BY DEF EntrySchema

\* Its reader reads what a reader of that message does; only a field that neither names
\* has a number in front of it.
LEMMA EntryFieldIs ==
    ASSUME NEW f, NEW s \in Seq(Byte)
    PROVE  LET r == EntryField(f, s)
               q == FieldOf(EntrySchema(f), s)
           IN  /\ IsErr(r) <=> IsErr(q)
               /\ ~IsErr(r) => r.used \in 1..Len(s)
               /\ Names(EntrySchema(f), s) => r = q
<1> DEFINE r == EntryField(f, s)
           sch == EntrySchema(f)
           q == FieldOf(sch, s)
           d == decode_key(s)
           k == d.value
           t == After(s, d.used)
           b == IF k.nr = 1 THEN Checked(k.wire, WIRE_TYPE(f.key), read(f.key, t))
                ELSE IF k.nr = 2 THEN EntryValue(f, k.wire, t)
                ELSE skip_field(k.wire, t)
           c == IF k.nr \in DOMAIN sch THEN Numbered(k.nr, read_field(sch[k.nr], k.wire, t))
                ELSE skip_field(k.wire, t)
<1>1. /\ r = IF IsErr(d) THEN d ELSE Moved(Numbered(k.nr, b), d.used)
      /\ q = IF IsErr(d) THEN d ELSE Moved(c, d.used)
  BY DEF EntryField, FieldOf, Try
<1>2. /\ DOMAIN sch = {1, 2} /\ sch[1] = Scalar(f.key)
      /\ sch[2] = IF f.form = "map" THEN Scalar(f.val) ELSE Message
  BY DEF EntrySchema
<1>3. /\ \A p : Scalar(p).form = "scalar" /\ Scalar(p).val = p
      /\ Message.form = "message"
  BY FormNames
<1> HIDE DEF sch
<1>4. k.nr = 1 => read_field(sch[k.nr], k.wire, t) = b
  BY <1>2, <1>3 DEF read_field
<1>5. k.nr = 2 => read_field(sch[k.nr], k.wire, t) = b
  <2>1. CASE k.nr = 2 /\ f.form = "map"
    BY <1>2, <1>3, <2>1 DEF read_field, EntryValue
  <2>2. CASE k.nr = 2 /\ f.form # "map"
    BY <1>2, <1>3, <2>2 DEF read_field, EntryValue
  <2> QED
    BY <2>1, <2>2
<1>6. Names(sch, s) <=> k.nr \in {1, 2}
  BY <1>2 DEF Names
<1>7. Names(sch, s) => c = Numbered(k.nr, b)
  BY <1>2, <1>4, <1>5, <1>6
<1>8. ~Names(sch, s) => c = b
  BY <1>2, <1>6
<1> HIDE DEF b, c, r, q
<1>9. Names(sch, s) => r = q
  BY <1>1, <1>7
<1>10. ~IsErr(q) => q.used \in 1..Len(s)
  BY FieldOfType DEF q
<1>11. ASSUME ~Names(sch, s)
       PROVE  (IsErr(r) <=> IsErr(q)) /\ (~IsErr(r) => r.used = q.used)
  <2>1. (IsErr(Numbered(k.nr, b)) <=> IsErr(b))
        /\ (~IsErr(b) => Moved(Numbered(k.nr, b), d.used).used = Moved(b, d.used).used
                         /\ ~IsErr(Moved(Numbered(k.nr, b), d.used)) /\ ~IsErr(Moved(b, d.used)))
        /\ (IsErr(b) => Numbered(k.nr, b) = b)
    BY DEF Numbered, Moved, IsErr
  <2> QED
    BY <1>1, <1>8, <1>11, <2>1
<1> QED
  BY <1>9, <1>10, <1>11 DEF r, q, sch

\* The loop of PbMap::read over n bytes, when r[a] is what is read at a.
EntryLoops(scan, n, r) ==
    scan = [a \in 0..n |->
               IF a = n THEN NoEntry
               ELSE LET i    == r[a]
                        rest == scan[a + i.used]
                    IN  IF IsErr(i) THEN [NoEntry EXCEPT !.err = i.err]
                        ELSE [err |-> rest.err,
                              key |-> Earlier(i.value, 1, rest.key),
                              val |-> Earlier(i.value, 2, rest.val)]]

\* There is such a loop.
LEMMA EntryLoopExists ==
    ASSUME NEW n \in Nat, NEW r, Proceeds(n, r)
    PROVE  \E f : EntryLoops(f, n, r)
<1> DEFINE D == 0..n
           X == {<< >>} \cup {<<r[a].value[2]>> : a \in D}
           V == [err : {"none"} \cup {r[a].err : a \in D}, key : X, val : X]
           Up(a, v) == [err |-> v.err, key |-> Earlier(r[a].value, 1, v.key),
                        val |-> Earlier(r[a].value, 2, v.val)]
           stop == {a \in D : a = n \/ IsErr(r[a])}
           last == [a \in D |-> IF a = n THEN NoEntry ELSE [NoEntry EXCEPT !.err = r[a].err]]
           next == [a \in D |-> a + r[a].used]
           step == [a \in D |-> [v \in V |-> Up(a, v)]]
<1>1. \A a \in D : \A v \in V : Up(a, v) \in V
  <2>1. \A a \in D : \A x \in X : \A nr : Earlier(r[a].value, nr, x) \in X
    BY DEF Earlier
  <2> HIDE DEF X
  <2> QED
    BY <2>1
<1>2. \A a \in D : last[a] \in V
  <2>1. << >> \in X
    OBVIOUS
  <2> HIDE DEF X
  <2> QED
    BY <2>1 DEF NoEntry
<1> HIDE DEF V
<1>3. \A a \in D : step[a] \in [V -> V] /\ \A v \in V : step[a][v] = Up(a, v)
  BY <1>1
<1>4. \A a \in D : last[a] = IF a = n THEN NoEntry ELSE [NoEntry EXCEPT !.err = r[a].err]
  OBVIOUS
<1>5. \A a \in D : a \in stop <=> a = n \/ IsErr(r[a])
  OBVIOUS
<1>6. \A a \in D : a \notin stop => next[a] = a + r[a].used /\ next[a] \in (a + 1)..n
                                    /\ next[a] \in D /\ r[a].used \in 1..(n - a)
  <2>1. ASSUME NEW a \in D, a \notin stop
        PROVE  next[a] = a + r[a].used /\ next[a] \in (a + 1)..n /\ next[a] \in D
               /\ r[a].used \in 1..(n - a)
    <3>1. PICK u \in 1..(n - a) : u = r[a].used
      BY <1>5, <2>1 DEF Proceeds
    <3>2. next[a] = a + u
      BY <3>1
    <3>3. a + u \in (a + 1)..n /\ a + u \in 0..n
      BY ONLY n \in Nat, a \in 0..n, u \in 1..(n - a)
    <3> QED
      BY <3>1, <3>2, <3>3
  <2> QED
    BY <2>1
<1>7. D = 0..n
  OBVIOUS
<1> HIDE DEF step, next, last, stop, D, Up
<1>8. Climbs(n, V, stop, last, next, step)
  BY <1>2, <1>3, <1>6, <1>7 DEF Climbs
<1>9. PICK f : Climbing(f, n, V, stop, last, next, step)
  BY <1>8, DownRecursion
<1>10. f \in [0..n -> V] /\ \A a \in 0..n : f[a] = IF a \in stop THEN last[a] ELSE step[a][f[next[a]]]
  BY <1>9 DEF Climbing
<1>11. ASSUME NEW a \in 0..n
       PROVE  f[a] = IF a = n THEN NoEntry
                     ELSE IF IsErr(r[a]) THEN [NoEntry EXCEPT !.err = r[a].err]
                     ELSE Up(a, f[a + r[a].used])
  <2>1. CASE a \in stop
    BY <1>4, <1>5, <1>7, <1>10, <2>1
  <2>2. CASE a \notin stop
    <3>1. /\ next[a] = a + r[a].used /\ next[a] \in 0..n
          /\ f[a] = step[a][f[next[a]]]
      BY <1>6, <1>7, <1>10, <2>2
    <3>2. f[next[a]] \in V
      BY <1>10, <3>1
    <3> QED
      BY <1>3, <1>5, <1>7, <2>2, <3>1, <3>2
  <2> QED
    BY <2>1, <2>2
<1>12. f = [a \in 0..n |-> f[a]]
  BY <1>10
<1>13. f = [a \in 0..n |-> IF a = n THEN NoEntry
                           ELSE IF IsErr(r[a]) THEN [NoEntry EXCEPT !.err = r[a].err]
                           ELSE Up(a, f[a + r[a].used])]
  BY <1>11, <1>12
<1> QED
  BY <1>13 DEF EntryLoops, Up

\* The bytes of an entry's value, or none.
IsValue(f, u, val) ==
    /\ u \in Seq(Byte)
    /\ \/ u = << >> /\ val = << >>
       \/ \E y : val = <<y>> /\ IsField(EntrySchema(f), u, <<2, y>>)

\* What EntryFields makes of an entry: a key, and a value if there is one.
LEMMA EntryIs ==
    ASSUME NEW f, NEW w, NEW x, IsField(EntrySchema(f), w, <<1, x>>),
           NEW u, NEW val, IsValue(f, u, val)
    PROVE  EntryFields(f, w \o u) = [err |-> "none", key |-> <<x>>, val |-> val]
<1> DEFINE sch == EntrySchema(f)
           s == w \o u
           n == Len(s)
           r == [a \in 0..n |-> EntryField(f, After(s, a))]
           Is(scan) == scan = [at \in 0..Len(s) |->
                           IF at = Len(s) THEN NoEntry
                           ELSE LET i    == EntryField(f, After(s, at))
                                    rest == scan[at + i.used]
                                IN  IF IsErr(i) THEN [NoEntry EXCEPT !.err = i.err]
                                    ELSE [err |-> rest.err,
                                          key |-> Earlier(i.value, 1, rest.key),
                                          val |-> Earlier(i.value, 2, rest.val)]]
           scan == CHOOSE scan : Is(scan)
<1>1. EntryFields(f, s) = scan[0]
  BY DEF EntryFields
<1>2. w \in Seq(Byte) /\ w # << >> /\ Names(sch, w) /\ FieldOf(sch, w) = Read(<<1, x>>, Len(w))
  BY DEF IsField
<1>0. u \in Seq(Byte)
  BY DEF IsValue
<1>3. s \in Seq(Byte) /\ n \in Nat /\ n = Len(w) + Len(u) /\ Len(w) \in Nat /\ Len(u) \in Nat
  BY <1>0, <1>2, ConcatProperties
<1>4. After(s, Len(w)) = u /\ After(s, 0) = s /\ Len(s) = n
  BY <1>0, <1>2, <1>3, BehindConcat, BehindEnds
<1>5. Len(w) # 0
  BY <1>2
<1> HIDE DEF s, n
<1>6. \A a \in 0..n : r[a] = EntryField(f, After(s, a))
  OBVIOUS
<1>7. \A g : EntryLoops(g, n, r) <=> Is(g)
  <2>1. ASSUME NEW g
        PROVE  [a \in 0..n |-> IF a = n THEN NoEntry
                               ELSE LET i    == r[a]
                                        rest == g[a + i.used]
                                    IN  IF IsErr(i) THEN [NoEntry EXCEPT !.err = i.err]
                                        ELSE [err |-> rest.err,
                                              key |-> Earlier(i.value, 1, rest.key),
                                              val |-> Earlier(i.value, 2, rest.val)]]
               = [at \in 0..Len(s) |->
                           IF at = Len(s) THEN NoEntry
                           ELSE LET i    == EntryField(f, After(s, at))
                                    rest == g[at + i.used]
                                IN  IF IsErr(i) THEN [NoEntry EXCEPT !.err = i.err]
                                    ELSE [err |-> rest.err,
                                          key |-> Earlier(i.value, 1, rest.key),
                                          val |-> Earlier(i.value, 2, rest.val)]]
    <3> HIDE DEF r
    <3> QED
      BY <1>4, <1>6
  <2> HIDE DEF r
  <2> QED
    BY <2>1 DEF EntryLoops
<1> HIDE DEF r
<1>8. Proceeds(n, r)
  <2>1. ASSUME NEW a \in 0..n, a # n, ~IsErr(r[a])
        PROVE  r[a].used \in 1..(n - a)
    <3>0. s \in Seq(Byte) /\ a \in 0..Len(s)
      BY <1>3, <1>4
    <3>1. After(s, a) \in Seq(Byte) /\ Len(After(s, a)) = n - a
      BY <1>4, <3>0, Behind
    <3> QED
      BY <1>6, <2>1, <3>1, EntryFieldIs
  <2> QED
    BY <2>1 DEF Proceeds
<1>9. EntryLoops(scan, n, r)
  <2>1. \E g : Is(g)
    <3>1. \E g : EntryLoops(g, n, r)
      BY <1>3, <1>8, EntryLoopExists
    <3> HIDE DEF Is
    <3> QED
      BY <1>7, <3>1
  <2>2. Is(scan)
    <3> HIDE DEF Is
    <3> QED
      BY <2>1
  <2> HIDE DEF Is, scan
  <2> QED
    BY <1>7, <2>2
<1> HIDE DEF scan, Is
<1>10. \A a \in 0..n : scan[a] =
           IF a = n THEN NoEntry
           ELSE IF IsErr(r[a]) THEN [NoEntry EXCEPT !.err = r[a].err]
           ELSE [err |-> scan[a + r[a].used].err,
                 key |-> Earlier(r[a].value, 1, scan[a + r[a].used].key),
                 val |-> Earlier(r[a].value, 2, scan[a + r[a].used].val)]
  BY <1>9 DEF EntryLoops
<1>11. 0 \in 0..n /\ Len(w) \in 0..n /\ n \in 0..n /\ 0 # n /\ 0 + Len(w) = Len(w)
  BY <1>3, <1>5
<1>12. \A y, m : /\ ~IsErr(Read(y, m)) /\ Read(y, m).value = y /\ Read(y, m).used = m
  BY DEF Read, IsErr
<1>13. scan[n] = NoEntry
  BY <1>10, <1>11
<1>14. r[0] = Read(<<1, x>>, Len(w))
  <2>1. Stays(FieldOf(sch, w), FieldOf(sch, s)) /\ (Names(sch, s) <=> Names(sch, w))
    BY <1>0, <1>2, <1>12, FieldOfSteady DEF Steady, s
  <2>2. FieldOf(sch, s) = Read(<<1, x>>, Len(w)) /\ Names(sch, s)
    BY <1>2, <2>1 DEF Stays, Read
  <2> QED
    BY <1>3, <1>4, <1>6, <1>11, <2>2, EntryFieldIs
<1>15. scan[Len(w)] = [err |-> "none", key |-> << >>, val |-> val]
  <2>1. CASE u = << >> /\ val = << >>
    BY <1>3, <1>13, <2>1 DEF NoEntry
  <2>2. ASSUME NEW y, val = <<y>>, IsField(sch, u, <<2, y>>)
        PROVE  scan[Len(w)] = [err |-> "none", key |-> << >>, val |-> val]
    <3>1. u # << >> /\ Names(sch, u) /\ FieldOf(sch, u) = Read(<<2, y>>, Len(u))
      BY <2>2 DEF IsField
    <3>2. r[Len(w)] = Read(<<2, y>>, Len(u))
      <4>1. EntryField(f, u) = Read(<<2, y>>, Len(u))
        BY <1>0, <3>1, EntryFieldIs
      <4> QED
        BY <1>4, <1>6, <1>11, <4>1
    <3>3. Len(w) # n /\ Len(w) + Len(u) = n
      BY <1>3, <3>1
    <3>4. scan[Len(w)] = [err |-> NoEntry.err, key |-> Earlier(<<2, y>>, 1, NoEntry.key),
                          val |-> Earlier(<<2, y>>, 2, NoEntry.val)]
      <4>1. scan[Len(w)] = [err |-> scan[Len(w) + Len(u)].err,
                            key |-> Earlier(<<2, y>>, 1, scan[Len(w) + Len(u)].key),
                            val |-> Earlier(<<2, y>>, 2, scan[Len(w) + Len(u)].val)]
        <5>1. ~IsErr(r[Len(w)]) /\ r[Len(w)].value = <<2, y>> /\ r[Len(w)].used = Len(u)
          BY ONLY <1>12, <3>2
        <5> QED
          BY ONLY <1>10, <1>11, <3>3, <5>1
      <4> QED
        BY <1>13, <3>3, <4>1
    <3> QED
      BY <2>2, <3>4 DEF NoEntry, Earlier
  <2> QED
    BY <2>1, <2>2 DEF IsValue
<1>16. scan[0] = [err |-> "none", key |-> <<x>>, val |-> val]
  <2>1. scan[0] = [err |-> scan[Len(w)].err,
                   key |-> Earlier(<<1, x>>, 1, scan[Len(w)].key),
                   val |-> Earlier(<<1, x>>, 2, scan[Len(w)].val)]
    <3>1. ~IsErr(r[0]) /\ r[0].value = <<1, x>> /\ r[0].used = Len(w)
      BY ONLY <1>12, <1>14
    <3> QED
      BY ONLY <1>10, <1>11, <3>1
  <2>2. /\ Earlier(<<1, x>>, 1, << >>) = <<x>>
        /\ Earlier(<<1, x>>, 2, val) = val
    BY DEF Earlier
  <2> QED
    BY <1>15, <2>1, <2>2
<1> QED
  BY <1>1, <1>16 DEF s

\* The field of a map.
IsMap(f) == f.form \in {"map", "message map"}

\* A map's entry.
LEMMA MapFieldIs ==
    ASSUME NEW sch, NEW nr \in DOMAIN sch, KeyNumber(nr),
           IsMap(sch[nr]),
           NEW w, NEW x, IsField(EntrySchema(sch[nr]), w, <<1, x>>),
           NEW u, NEW val, IsValue(sch[nr], u, val),
           Len(w \o u) \in Word
    PROVE  IsField(sch, MsgBytes(nr, w \o u), <<nr, <<<<x>>, val>>>>)
<1> DEFINE f == sch[nr]
           s == w \o u
           c == write_varint(Len(s)) \o s
           e == [err |-> "none", key |-> <<x>>, val |-> val]
<1>1. EntryFields(f, s) = e
  BY EntryIs
<1>2. s \in Seq(Byte)
  <2>1. w \in Seq(Byte) /\ u \in Seq(Byte)
    BY DEF IsField, IsValue
  <2> QED
    BY <2>1, ConcatProperties
<1>3. "LEN" \in WireType
  BY DEF WireType
<1> HIDE DEF s
<1>4. c \in Seq(Byte) /\ decode_len(c) = Read(s, Len(c)) /\ Len(c) \in Nat
  <2>1. << >> \in Seq(Byte)
    OBVIOUS
  <2> QED
    BY <1>2, <2>1, LenReads DEF s
<1>5. read_entry(f, c) = Moved(Entry(e), Len(c))
  <2>1. ~IsErr(Read(s, Len(c))) /\ Read(s, Len(c)).value = s /\ Read(s, Len(c)).used = Len(c)
    BY DEF Read, IsErr
  <2> HIDE DEF c, e
  <2> QED
    BY <1>1, <1>4, <2>1 DEF read_entry, Try
<1>6. Entry(e) = Read(<<<<x>>, val>>, 0)
  <2>1. e.err = "none" /\ e.key = <<x>> /\ e.key # << >> /\ e.val = val
    OBVIOUS
  <2> HIDE DEF e
  <2> QED
    BY <2>1 DEF Entry
<1> HIDE DEF c, e
<1>7. Moved(Read(<<<<x>>, val>>, 0), Len(c)) = Read(<<<<x>>, val>>, Len(c))
  <2>1. 0 + Len(c) = Len(c)
    BY <1>4
  <2> QED
    BY <1>4, <2>1, MovedOn
<1>8. read_field(f, "LEN", c) = Read(<<<<x>>, val>>, Len(c))
  <2>1. read_field(f, "LEN", c) = Checked("LEN", "LEN", read_entry(f, c))
    <3>1. IsMap(f)
      OBVIOUS
    <3> HIDE DEF f
    <3> QED
      BY ONLY <3>1 DEF read_field, IsMap
  <2> QED
    BY <1>5, <1>6, <1>7, <2>1, CheckedIs
<1> QED
  BY <1>3, <1>4, <1>8, FieldIs DEF MsgBytes, c, s

\* The entry of a map of scalars,
LEMMA ScalarEntryIs ==
    ASSUME NEW sch, NEW nr \in DOMAIN sch, KeyNumber(nr), EntryNumbers,
           NEW f, NEW k, NEW p, k = f.key, p = f.val, sch[nr] = SimpleMap(k, p),
           NEW key, NEW option, EntryOf(f, key, option), IsSeq(option), Len(option) <= 1,
           Len(EntryBody(f, key, option)) \in Word
    PROVE  IsField(sch, MsgBytes(nr, EntryBody(f, key, option)),
                   <<nr, <<<<key.text>>, [i \in 1..Len(option) |-> option[i].text]>>>>)
<1> DEFINE g == sch[nr]
           w == FieldBytes(1, f.key, key)
           u == OptionBytes(2, f.val, option)
           val == [i \in 1..Len(option) |-> option[i].text]
           es == EntrySchema(g)
<1>1. g.form = "map" /\ g.key = f.key /\ g.val = f.val
  <2>1. SimpleMap(k, p).form = "map" /\ SimpleMap(k, p).key = k /\ SimpleMap(k, p).val = p
    BY DEF SimpleMap
  <2> QED
    BY <2>1
<1>2. 1 \in DOMAIN es /\ 2 \in DOMAIN es /\ es[1] = Scalar(f.key) /\ es[2] = Scalar(f.val)
  <2> HIDE DEF g
  <2> QED
    BY ONLY <1>1 DEF EntrySchema
<1>3. KeyNumber(1) /\ KeyNumber(2)
  BY DEF EntryNumbers
<1> HIDE DEF es
<1>4. IsField(es, w, <<1, key.text>>)
  BY <1>2, <1>3, ScalarFieldIs DEF EntryOf
<1>5. IsValue(g, u, val)
  <2>1. CASE option = << >>
    <3>1. u = << >> /\ Len(option) = 0
      BY <2>1 DEF OptionBytes
    <3>2. val = << >>
      BY <3>1
    <3>3. u \in Seq(Byte)
      <4>1. << >> \in Seq(Byte)
        BY EmptySeq
      <4> QED
        BY ONLY <3>1, <4>1
    <3> QED
      BY <3>1, <3>2, <3>3 DEF IsValue
  <2>2. CASE option # << >>
    <3>1. Len(option) = 1
      <4>1. option = [i \in 1..Len(option) |-> option[i]] /\ Len(option) \in Nat
        BY SeqFacts
      <4>2. Len(option) # 0
        BY <2>2, <4>1
      <4> QED
        BY <4>1, <4>2
    <3>2. val = <<option[1].text>>
      BY <3>1
    <3>3. u = FieldBytes(2, f.val, option[1]) /\ Handed(f.val, option[1])
      BY <2>2 DEF OptionBytes, EntryOf
    <3> HIDE DEF u, val
    <3>4. IsField(es, u, <<2, option[1].text>>)
      BY <1>2, <1>3, <3>3, ScalarFieldIs
    <3>5. u \in Seq(Byte)
      BY <3>4 DEF IsField
    <3> QED
      BY <3>2, <3>4, <3>5 DEF IsValue, es
  <2> QED
    BY <2>1, <2>2
<1>6. EntryBody(f, key, option) = w \o u
  BY DEF EntryBody
<1> HIDE DEF w, u, val
<1>7. Len(w \o u) \in Word
  BY <1>6
<1>8. IsField(sch, MsgBytes(nr, w \o u), <<nr, <<<<key.text>>, val>>>>)
  <2>1. IsMap(sch[nr])
    BY <1>1 DEF IsMap
  <2>2. IsField(EntrySchema(sch[nr]), w, <<1, key.text>>)
    BY <1>4 DEF es
  <2> QED
    BY <1>5, <1>7, <2>1, <2>2, MapFieldIs
<1> QED
  BY <1>6, <1>8 DEF val

\* and of messages.
LEMMA MessageEntryIs ==
    ASSUME NEW sch, NEW nr \in DOMAIN sch, KeyNumber(nr), EntryNumbers,
           NEW p, sch[nr] = MessageMap(p), NEW key, Handed(p, key),
           NEW body \in Seq(Byte), Len(body) \in Word,
           Len(FieldBytes(1, p, key) \o MsgBytes(2, body)) \in Word
    PROVE  IsField(sch, MsgBytes(nr, FieldBytes(1, p, key) \o MsgBytes(2, body)),
                   <<nr, <<<<key.text>>, <<body>>>>>>)
<1> DEFINE g == sch[nr]
           w == FieldBytes(1, p, key)
           u == MsgBytes(2, body)
           es == EntrySchema(g)
<1>1. g.form = "message map" /\ g.key = p
  BY ONLY sch[nr] = MessageMap(p), FormNames
<1>2. 1 \in DOMAIN es /\ 2 \in DOMAIN es /\ es[1] = Scalar(p) /\ es[2] = Message
  <2>1. g.form # "map"
    BY <1>1
  <2>2. 1 \in DOMAIN es /\ 2 \in DOMAIN es /\ es[1] = Scalar(g.key) /\ es[2] = Message
    BY <2>1, EntrySchemaIs
  <2> QED
    BY ONLY <1>1, <2>2
<1>3. KeyNumber(1) /\ KeyNumber(2)
  BY DEF EntryNumbers
<1> HIDE DEF es
<1>4. IsField(es, w, <<1, key.text>>)
  BY <1>2, <1>3, ScalarFieldIs
<1>5. IsField(es, u, <<2, body>>)
  BY <1>2, <1>3, LenFieldIs
<1>6. u \in Seq(Byte)
  BY <1>5 DEF IsField
<1> HIDE DEF w, u
<1>7. IsMap(sch[nr]) /\ Len(w \o u) \in Word
  BY <1>1 DEF w, u, IsMap
<1>8. IsField(sch, MsgBytes(nr, w \o u), <<nr, <<<<key.text>>, <<body>>>>>>)
  <2>1. IsValue(sch[nr], u, <<body>>)
    BY <1>5, <1>6 DEF es, IsValue
  <2>2. IsField(EntrySchema(sch[nr]), w, <<1, key.text>>)
    BY <1>4 DEF es
  <2> QED
    BY <1>6, <1>7, <2>1, <2>2, MapFieldIs
<1> QED
  BY <1>8 DEF w, u

-----------------------------------------------------------------------------
(* What is read of messages put together. *)

\* What two messages say, one behind the other, is what they say each.
LEMMA ReadsJoin ==
    ASSUME NEW sch, NEW s, NEW g, Reads(sch, s, g, "none"),
           NEW t, NEW h, Reads(sch, t, h, "none")
    PROVE  Reads(sch, s \o t, g \o h, "none")
<1> DEFINE Joins(w, x, y) == y = "none" => Reads(sch, w \o t, x \o h, "none")
           Q == {x \in Triples(sch) : Joins(x[1], x[2], x[3])}
<1>1. \A w, x, y : <<w, x, y>> \in Q <=> <<w, x, y>> \in Triples(sch) /\ Joins(w, x, y)
  <2>1. \A w, x, y : <<w, x, y>>[1] = w /\ <<w, x, y>>[2] = x /\ <<w, x, y>>[3] = y
    OBVIOUS
  <2> HIDE DEF Joins
  <2> QED
    BY <2>1
<1>2. \A w, x, y : <<w, x, y>> \in Triples(sch) <=>
          w \in Seq(Byte) /\ x \in Seq(Yields(sch)) /\ y \in Errors(sch)
  BY DEF Triples
<1>3. Q \in SUBSET Triples(sch)
  OBVIOUS
<1>4. \A w, x, y : Joins(w, x, y) <=> (y = "none" => Reads(sch, w \o t, x \o h, "none"))
  OBVIOUS
<1> HIDE DEF Q, Joins
<1>5. << >> \in Seq(Byte) /\ << >> \in Seq(Yields(sch)) /\ "none" \in Errors(sch)
  BY EmptySeq DEF Errors
<1>6. t \in Seq(Byte) /\ h \in Seq(Yields(sch))
  BY ReadsRules
<1>7. <<<< >>, << >>, "none">> \in Q
  <2>1. << >> \o t = t /\ << >> \o h = h
    BY <1>6, ConcatEmptySeq
  <2>2. Joins(<< >>, << >>, "none")
    BY <1>4, <2>1
  <2> QED
    BY <1>1, <1>2, <1>5, <2>2
<1>8. ASSUME NEW w \in Seq(Byte), w # << >>, IsErr(FieldOf(sch, w))
      PROVE  <<w, << >>, FieldOf(sch, w).err>> \in Q
  <2>1. FieldOf(sch, w).err # "none"
    BY <1>8 DEF IsErr
  <2>2. FieldOf(sch, w).err \in Errors(sch)
    BY FieldOfType
  <2>3. Joins(w, << >>, FieldOf(sch, w).err)
    BY <1>4, <2>1
  <2> QED
    BY <1>1, <1>2, <1>5, <2>2, <2>3
<1>9. ASSUME NEW w \in Seq(Byte), NEW x \in Seq(Yields(sch)), NEW y \in Errors(sch),
             w # << >>, ~IsErr(FieldOf(sch, w)),
             <<After(w, FieldOf(sch, w).used), x, y>> \in Q
      PROVE  <<w, With(sch, w, x), y>> \in Q
  <2> DEFINE r == FieldOf(sch, w)
             z == After(w, r.used)
             u == w \o t
  <2>1. y = "none" => Reads(sch, z \o t, x \o h, "none")
    BY <1>1, <1>4, <1>9
  <2>2. /\ Stays(r, FieldOf(sch, u)) /\ r.used \in 1..Len(w)
        /\ Names(sch, u) <=> Names(sch, w)
    BY <1>6, <1>9, FieldOfSteady DEF Steady
  <2>3. FieldOf(sch, u) = r
    BY <1>9, <2>2 DEF Stays, IsErr
  <2>4. r.used \in 0..Len(w) /\ Len(w) \in Nat
    BY <2>2
  <2>5. u \in Seq(Byte) /\ Len(u) = Len(w) + Len(t) /\ After(u, r.used) = z \o t
    BY <1>6, <2>4, BehindBoth
  <2>6. u # << >>
    BY <1>6, <1>9, <2>5
  <2> HIDE DEF r, z, u
  <2>7. y = "none" => Reads(sch, u, With(sch, u, x \o h), "none")
    BY <1>9, <2>1, <2>3, <2>5, <2>6, ReadsRules DEF r
  <2>8. With(sch, u, x \o h) = With(sch, w, x) \o h
    <3>1. CASE Names(sch, w)
      <4>1. r.value \in Yields(sch)
        BY FieldOfType DEF r
      <4>2. PICK e \in Yields(sch) : e = r.value
        BY <4>1
      <4>3. <<e>> \in Seq(Yields(sch))
        OBVIOUS
      <4>4. \A a, b, c \in Seq(Yields(sch)) : (a \o b) \o c = a \o (b \o c)
        BY ConcatAssociative
      <4>5. With(sch, u, x \o h) = <<e>> \o (x \o h) /\ With(sch, w, x) = <<e>> \o x
        BY <2>2, <2>3, <3>1, <4>2 DEF With, u, r
      <4> QED
        BY ONLY <1>6, <1>9, <4>3, <4>4, <4>5
    <3>2. CASE ~Names(sch, w)
      BY <2>2, <3>2 DEF With, u
    <3> QED
      BY <3>1, <3>2
  <2>9. Joins(w, With(sch, w, x), y)
    BY <1>4, <2>7, <2>8 DEF u
  <2>10. With(sch, w, x) \in Seq(Yields(sch))
    BY FieldOfType
  <2> QED
    BY <1>1, <1>2, <2>9, <2>10
<1>10. Closed(sch, Q)
  BY <1>7, <1>8, <1>9 DEF Closed
<1>11. <<s, g, "none">> \in Q
  BY <1>3, <1>10, ReadsLeast DEF Reads
<1> QED
  BY <1>1, <1>4, <1>11

\* Fields written one behind the other.
IsFields(sch, ws, ys) ==
    /\ IsSeq(ys) /\ Len(ys) = Len(ws)
    /\ \A i \in 1..Len(ws) : IsField(sch, ws[i], ys[i])

\* A field is a message.
LEMMA ReadsField ==
    ASSUME NEW sch, NEW s, NEW y, IsField(sch, s, y)
    PROVE  Reads(sch, s, <<y>>, "none") /\ y \in Yields(sch)
<1>1. /\ s \in Seq(Byte) /\ s # << >> /\ Names(sch, s) /\ FieldOf(sch, s) = Read(y, Len(s))
  BY DEF IsField
<1>2. ~IsErr(FieldOf(sch, s)) /\ FieldOf(sch, s).used = Len(s) /\ FieldOf(sch, s).value = y
  BY <1>1 DEF Read, IsErr
<1>3. After(s, Len(s)) = << >>
  BY <1>1, BehindEnds
<1>4. Reads(sch, s, With(sch, s, << >>), "none")
  BY <1>1, <1>2, <1>3, ReadsRules
<1>5. With(sch, s, << >>) = <<y>>
  BY <1>1, <1>2 DEF With
<1> QED
  BY <1>1, <1>2, <1>4, <1>5, FieldOfType

\* Fields are a message.
LEMMA ReadsFields ==
    ASSUME NEW sch
    PROVE  \A vs \in Seq(Seq(Byte)) : \A ys :
               IsFields(sch, vs, ys) => Reads(sch, FlattenSeq(vs), ys, "none")
<1> DEFINE P(vs) == \A ys : IsFields(sch, vs, ys) => Reads(sch, FlattenSeq(vs), ys, "none")
           N == {m \in Nat : \A vs \in Seq(Seq(Byte)) : Len(vs) = m => P(vs)}
<1>1. << >> \in Seq(Byte)
  BY EmptySeq
<1>3. 0 \in N
  <2>1. ASSUME NEW vs \in Seq(Seq(Byte)), Len(vs) = 0, NEW ys, IsFields(sch, vs, ys)
        PROVE  Reads(sch, FlattenSeq(vs), ys, "none")
    <3>1. vs = << >>
      BY <2>1
    <3>2. FlattenSeq(vs) = << >>
      BY <1>1, <3>1, FlattenFew
    <3>3. ys = << >>
      <4>1. Len(ys) = 0 /\ ys = [i \in 1..Len(ys) |-> ys[i]]
        BY <2>1, SeqFacts DEF IsFields
      <4> QED
        BY <4>1
    <3> QED
      BY <3>2, <3>3, ReadsRules
  <2>2. \A vs \in Seq(Seq(Byte)) : Len(vs) = 0 => P(vs)
    BY <2>1
  <2> HIDE DEF P
  <2> QED
    BY <2>2
<1>4. ASSUME NEW m \in Nat, m \in N
      PROVE  m + 1 \in N
  <2>1. ASSUME NEW vs \in Seq(Seq(Byte)), Len(vs) = m + 1, NEW ys, IsFields(sch, vs, ys)
        PROVE  Reads(sch, FlattenSeq(vs), ys, "none")
    <3> DEFINE v == vs[1]
               y == ys[1]
               ws == [i \in 1..(Len(vs) - 1) |-> vs[i + 1]]
               zs == [i \in 1..(Len(ys) - 1) |-> ys[i + 1]]
    <3>1. /\ v \in Seq(Byte) /\ IsSeq(vs) /\ Len(vs) # 0 /\ Len(vs) - 1 = m
          /\ \A i \in 1..(m + 1) : vs[i] \in Seq(Byte)
      BY <2>1, SeqOverSet, ElementOfSeq
    <3>2. /\ Len(ws) = m /\ vs = <<v>> \o ws
          /\ \A i \in 1..m : ws[i] = vs[i + 1] /\ i + 1 \in 1..(m + 1)
      BY <2>1, <3>1, HeadAndRest
    <3>3. IsSeq(ys) /\ Len(ys) = m + 1
      BY <2>1 DEF IsFields
    <3>4. /\ IsSeq(zs) /\ Len(zs) = m /\ ys = <<y>> \o zs
          /\ \A i \in 1..m : zs[i] = ys[i + 1]
      <4>1. Len(ys) # 0 /\ Len(ys) - 1 = m
        BY <3>3
      <4>2. /\ IsSeq(zs) /\ Len(zs) = Len(ys) - 1 /\ ys = <<y>> \o zs
            /\ \A i \in 1..(Len(ys) - 1) : zs[i] = ys[i + 1]
        BY <3>3, <4>1, HeadAndRest
      <4> HIDE DEF zs, y
      <4> QED
        BY <4>1, <4>2
    <3>5. ws \in Seq(Seq(Byte))
      <4>1. \A i \in 1..m : ws[i] \in Seq(Byte)
        BY <3>1, <3>2
      <4>2. ws = [i \in 1..m |-> ws[i]]
        BY <3>1
      <4> HIDE DEF ws
      <4>3. PICK S : S = Seq(Byte)
        OBVIOUS
      <4>4. ws \in [1..m -> S]
        BY <4>1, <4>2, <4>3
      <4>5. ws \in Seq(S)
        BY <4>4
      <4> QED
        BY <4>3, <4>5
    <3> HIDE DEF v, y, ws, zs
    <3>6. IsField(sch, v, y)
      BY <2>1, <3>1 DEF IsFields, v, y
    <3>7. IsFields(sch, ws, zs)
      <4>1. ASSUME NEW i \in 1..m
            PROVE  IsField(sch, ws[i], zs[i])
        <5>1. i + 1 \in 1..Len(vs)
          BY <2>1, <3>2
        <5>2. IsField(sch, vs[i + 1], ys[i + 1])
          BY <2>1, <5>1 DEF IsFields
        <5> QED
          BY <3>2, <3>4, <5>2
      <4> QED
        BY <3>2, <3>4, <4>1 DEF IsFields
    <3>8. FlattenSeq(vs) = v \o FlattenSeq(ws)
      BY <3>1, <3>2, <3>5, FlattenFew
    <3>9. Reads(sch, FlattenSeq(ws), zs, "none")
      <4>1. Len(ws) = m
        BY <3>2
      <4> QED
        BY <1>4, <3>5, <3>7, <4>1
    <3>10. Reads(sch, v, <<y>>, "none")
      BY <3>6, ReadsField
    <3>11. Reads(sch, v \o FlattenSeq(ws), <<y>> \o zs, "none")
      BY <3>9, <3>10, ReadsJoin
    <3> QED
      BY <3>4, <3>8, <3>11
  <2>2. \A vs \in Seq(Seq(Byte)) : Len(vs) = m + 1 => P(vs)
    BY <2>1
  <2>3. m + 1 \in Nat
    OBVIOUS
  <2> HIDE DEF P
  <2> QED
    BY <2>2, <2>3
<1> HIDE DEF N, P
<1>5. Nat \subseteq N
  BY ONLY <1>3, <1>4, SetInduction
<1> QED
  <2>1. ASSUME NEW vs \in Seq(Seq(Byte))
        PROVE  \A ys : IsFields(sch, vs, ys) => Reads(sch, FlattenSeq(vs), ys, "none")
    <3>1. Len(vs) \in N
      BY <1>5
    <3>2. P(vs)
      BY <3>1 DEF N
    <3> QED
      BY <3>2 DEF P
  <2> QED
    BY <2>1

-----------------------------------------------------------------------------
(* What the program's reader makes of bytes. *)

\* The schema the generator makes of the fields.
S0 == [nr \in DOMAIN Fields |-> Form(Fields[nr])]

\* Heard, for any schema.
HearBy(sch, field) ==
    LET f == sch[field[1]] IN
    <<field[1],
      IF f.form = "packed" THEN unpack(f.val, field[2])
      ELSE IF f.form \in {"message", "message map"}
           THEN WithMessage(f, field[2], UnnestBy(sch, Enclosed(f, field[2])))
      ELSE field[2]>>

\* The fields a caller can make of what there is.
Hears == {HearBy(S0, y) : y \in Yields(S0)}

HearAll(g) == [i \in 1..Len(g) |-> HearBy(S0, g[i])]

\* s is a message, and its reader makes `fields` of it.
Means(s, fields) ==
    s \in Seq(Byte) /\ \E g : Reads(S0, s, g, "none") /\ fields = HearAll(g)

\* Heard is HearBy.
LEMMA HeardIs ==
    ASSUME NEW y
    PROVE  Heard(y) = HearBy(schema, y)
BY DEF Heard, HearBy, Unnest, UnnestBy, NextField, FieldOf

\* What a message means is a list of fields.
LEMMA HearAllType ==
    ASSUME NEW g \in Seq(Yields(S0))
    PROVE  HearAll(g) \in Seq(Hears) /\ Len(HearAll(g)) = Len(g)
           /\ \A i \in 1..Len(g) : HearAll(g)[i] = HearBy(S0, g[i])
<1>1. Len(g) \in Nat /\ \A i \in 1..Len(g) : g[i] \in Yields(S0)
  BY ElementOfSeq
<1>2. \A i \in 1..Len(g) : HearBy(S0, g[i]) \in Hears
  BY <1>1 DEF Hears
<1>3. HearAll(g) \in [1..Len(g) -> Hears]
  BY <1>2 DEF HearAll
<1>4. HearAll(g) \in Seq(Hears) /\ Len(HearAll(g)) = Len(g)
  BY ONLY <1>1, <1>3
<1> QED
  BY <1>4 DEF HearAll

\* What means something is bytes, and what it means is fields.
LEMMA MeansType ==
    ASSUME NEW s, NEW fields, Means(s, fields)
    PROVE  s \in Seq(Byte) /\ fields \in Seq(Hears)
<1>1. PICK g : Reads(S0, s, g, "none") /\ fields = HearAll(g)
  BY DEF Means
<1>2. g \in Seq(Yields(S0))
  BY <1>1, ReadsRules
<1> QED
  BY <1>1, <1>2, HearAllType DEF Means

\* Nothing means nothing.
LEMMA MeansNone ==
    Means(<< >>, << >>)
<1>1. Reads(S0, << >>, << >>, "none")
  BY ReadsRules
<1>2. HearAll(<< >>) = << >>
  BY DEF HearAll
<1>3. << >> \in Seq(Byte)
  BY EmptySeq
<1> QED
  BY <1>1, <1>2, <1>3 DEF Means

\* Two messages one behind the other mean what they mean each.
LEMMA MeansJoin ==
    ASSUME NEW s, NEW l, Means(s, l), NEW t, NEW m, Means(t, m)
    PROVE  Means(s \o t, l \o m)
<1>1. PICK g : Reads(S0, s, g, "none") /\ l = HearAll(g)
  BY DEF Means
<1>2. PICK h : Reads(S0, t, h, "none") /\ m = HearAll(h)
  BY DEF Means
<1>3. g \in Seq(Yields(S0)) /\ h \in Seq(Yields(S0))
  BY <1>1, <1>2, ReadsRules
<1>4. Reads(S0, s \o t, g \o h, "none")
  BY <1>1, <1>2, ReadsJoin
<1>5. HearAll(g \o h) = l \o m
  <2> DEFINE gh == g \o h
             lm == l \o m
  <2>1. /\ gh \in Seq(Yields(S0)) /\ Len(gh) = Len(g) + Len(h)
        /\ \A i \in 1..Len(gh) : gh[i] = IF i <= Len(g) THEN g[i] ELSE h[i - Len(g)]
        /\ Len(g) \in Nat /\ Len(h) \in Nat
    BY <1>3, ConcatProperties
  <2>2. /\ l \in Seq(Hears) /\ Len(l) = Len(g) /\ \A i \in 1..Len(g) : l[i] = HearBy(S0, g[i])
    BY <1>1, <1>3, HearAllType
  <2>3. /\ m \in Seq(Hears) /\ Len(m) = Len(h) /\ \A i \in 1..Len(h) : m[i] = HearBy(S0, h[i])
    BY <1>2, <1>3, HearAllType
  <2>4. /\ lm \in Seq(Hears) /\ Len(lm) = Len(l) + Len(m)
        /\ \A i \in 1..Len(lm) : lm[i] = IF i <= Len(l) THEN l[i] ELSE m[i - Len(l)]
    <3>1. l \in Seq(Hears) /\ m \in Seq(Hears)
      BY <2>2, <2>3
    <3> QED
      BY ONLY <3>1, ConcatProperties
  <2> HIDE DEF gh, lm
  <2>5. HearAll(gh) \in Seq(Hears) /\ Len(HearAll(gh)) = Len(gh)
        /\ \A i \in 1..Len(gh) : HearAll(gh)[i] = HearBy(S0, gh[i])
    BY <2>1, HearAllType
  <2>6. ASSUME NEW i \in 1..Len(gh)
        PROVE  HearAll(gh)[i] = lm[i]
    <3>1. CASE i <= Len(g)
      BY <2>1, <2>2, <2>3, <2>4, <2>5, <3>1
    <3>2. CASE ~(i <= Len(g))
      <4>1. i - Len(g) \in 1..Len(h)
        BY <2>1, <3>2
      <4> QED
        BY <2>1, <2>2, <2>3, <2>4, <2>5, <3>2, <4>1
    <3> QED
      BY <3>1, <3>2
  <2>7. Len(HearAll(gh)) = Len(lm)
    BY <2>1, <2>2, <2>3, <2>4, <2>5
  <2>8. HearAll(gh) = lm
    BY <2>4, <2>5, <2>6, <2>7, SeqEqual
  <2> QED
    BY <2>8 DEF gh, lm
<1>6. s \o t \in Seq(Byte)
  BY MeansType, ConcatProperties
<1> QED
  BY <1>4, <1>5, <1>6 DEF Means

\* A field means what is heard of it.
LEMMA MeansOne ==
    ASSUME NEW s, NEW y, IsField(S0, s, y), NEW z, HearBy(S0, y) = z
    PROVE  Means(s, <<z>>)
<1>1. Reads(S0, s, <<y>>, "none")
  BY ReadsField
<1>2. HearAll(<<y>>) = <<z>>
  BY DEF HearAll
<1>3. s \in Seq(Byte)
  BY DEF IsField
<1> QED
  BY <1>1, <1>2, <1>3 DEF Means

\* Fields of scalar form are heard as they are read.
LEMMA MeansFields ==
    ASSUME NEW cs \in Seq(Seq(Byte)), NEW ys, IsFields(S0, cs, ys),
           \A i \in 1..Len(ys) : HearBy(S0, ys[i]) = ys[i]
    PROVE  Means(FlattenSeq(cs), ys)
<1>1. Reads(S0, FlattenSeq(cs), ys, "none")
  BY ReadsFields
<1>2. ys = [i \in 1..Len(ys) |-> ys[i]]
  BY SeqFacts DEF IsFields
<1>3. HearAll(ys) = ys
  BY <1>2 DEF HearAll
<1>4. FlattenSeq(cs) \in Seq(Byte)
  BY <1>1, ReadsRules
<1> QED
  BY <1>1, <1>3, <1>4 DEF Means

-----------------------------------------------------------------------------
(* The fields of a program, and what its writers' bytes mean. *)

\* The numbers of the fields have keys.
LEMMA FieldNumbers ==
    EntryNumbers /\ \A nr \in DOMAIN Fields : KeyNumber(nr)
BY RoundTripAssumption DEF EntryNumbers, KeyNumber

\* The labels of fields that are read as a scalar or as a message.
SingleLabels == {"Optional", "Required", "Plain", "Repeated", "Oneof"}

\* What is generated for a field.
LEMMA FieldForms ==
    /\ DOMAIN S0 = DOMAIN Fields
    /\ \A label \in SingleLabels :
          /\ \A nr \in Labelled(label) :
                /\ nr \in DOMAIN Fields /\ S0[nr] = Scalar(Fields[nr].val)
                /\ Fields[nr].val \in Packable \cup LenScalars
          /\ \A nr \in Nested(label) : nr \in DOMAIN Fields /\ S0[nr] = Message
    /\ \A nr \in Labelled("Packed") :
          nr \in DOMAIN Fields /\ S0[nr] = Packed(Fields[nr].val) /\ Fields[nr].val \in Packable
    /\ \A nr \in Labelled("PbMap") :
          /\ nr \in DOMAIN Fields /\ S0[nr] = SimpleMap(Fields[nr].key, Fields[nr].val)
          /\ Fields[nr].val \in Packable \cup LenScalars
    /\ \A nr \in Nested("PbMap") : nr \in DOMAIN Fields /\ S0[nr] = MessageMap(Fields[nr].key)
    /\ \A nr \in Maps : \A key \in Keys : Handed(Fields[nr].key, key) /\ ~key.streams
<1>1. DOMAIN S0 = DOMAIN Fields /\ \A nr \in DOMAIN Fields : S0[nr] = Form(Fields[nr])
  BY DEF S0
<1> USE DEF Labelled, Nested
<1>2. ASSUME NEW label \in SingleLabels, NEW nr \in Labelled(label)
      PROVE  /\ nr \in DOMAIN Fields /\ S0[nr] = Scalar(Fields[nr].val)
             /\ Fields[nr].val \in Packable \cup LenScalars
  <2>1. nr \in DOMAIN Fields /\ Fields[nr].label = label /\ Fields[nr].val # "message"
        /\ label # "Packed" /\ label # "PbMap"
    BY DEF SingleLabels
  <2>2. S0[nr] = Scalar(Fields[nr].val)
    BY <1>1, <2>1 DEF Form
  <2>3. nr \notin Labelled("Packed") \cup Nested("Packed")
    BY <2>1
  <2> QED
    BY <2>1, <2>2, <2>3, RoundTripAssumption
<1>3. ASSUME NEW label \in SingleLabels, NEW nr \in Nested(label)
      PROVE  nr \in DOMAIN Fields /\ S0[nr] = Message
  <2>1. nr \in DOMAIN Fields /\ Fields[nr].label = label /\ Fields[nr].val = "message"
        /\ label # "Packed" /\ label # "PbMap"
    BY DEF SingleLabels
  <2> QED
    BY <1>1, <2>1 DEF Form
<1>4. ASSUME NEW nr \in Labelled("Packed")
      PROVE  nr \in DOMAIN Fields /\ S0[nr] = Packed(Fields[nr].val) /\ Fields[nr].val \in Packable
  BY <1>1, RoundTripAssumption DEF Form
<1>5. ASSUME NEW nr \in Labelled("PbMap")
      PROVE  /\ nr \in DOMAIN Fields /\ S0[nr] = SimpleMap(Fields[nr].key, Fields[nr].val)
             /\ Fields[nr].val \in Packable \cup LenScalars
  <2>1. nr \in DOMAIN Fields /\ Fields[nr].label = "PbMap" /\ Fields[nr].val # "message"
    OBVIOUS
  <2>2. S0[nr] = SimpleMap(Fields[nr].key, Fields[nr].val)
    BY <1>1, <2>1 DEF Form
  <2>3. nr \notin Labelled("Packed") \cup Nested("Packed")
    BY <2>1
  <2> QED
    BY <2>1, <2>2, <2>3, RoundTripAssumption
<1>6. ASSUME NEW nr \in Nested("PbMap")
      PROVE  nr \in DOMAIN Fields /\ S0[nr] = MessageMap(Fields[nr].key)
  BY <1>1 DEF Form
<1>7. \A nr \in Maps : \A key \in Keys : Handed(Fields[nr].key, key) /\ ~key.streams
  BY RoundTripAssumption DEF Handed
<1> QED
  BY <1>1, <1>2, <1>3, <1>4, <1>5, <1>6, <1>7

\* The values of a list.
AreHanded(p, values) == IsSeq(values) /\ \A i \in 1..Len(values) : Handed(p, values[i])

\* What a caller passes suits the field.
LEMMA CallerSuits ==
    ASSUME NEW p \in Packable \cup LenScalars
    PROVE  /\ \A v \in Values[p] : Handed(p, v)
           /\ \A values \in Lists[p] : AreHanded(p, values)
<1>1. \A v \in Values[p] : Handed(p, v)
  BY RoundTripAssumption DEF Handed
<1>2. ASSUME NEW values \in Lists[p]
      PROVE  AreHanded(p, values)
  <2>1. values \in Seq(ToSet(values)) /\ \A v \in ToSet(values) : Suits(p, v)
    BY RoundTripAssumption
  <2>2. IsSeq(values)
    BY <2>1 DEF IsSeq
  <2>3. ASSUME NEW i \in 1..Len(values)
        PROVE  values[i] \in ToSet(values)
    BY <2>2, SeqFacts DEF ToSet
  <2> QED
    BY <2>1, <2>2, <2>3 DEF AreHanded, Handed
<1> QED
  BY <1>1, <1>2

\* Parts of what fits fit.
LEMMA PartsFit ==
    ASSUME NEW s \in Seq(Byte), NEW t \in Seq(Byte), Len(s \o t) \in Word
    PROVE  Len(s) \in Word /\ Len(t) \in Word
<1>1. Len(s \o t) = Len(s) + Len(t) /\ Len(s) \in Nat /\ Len(t) \in Nat
  BY ConcatProperties
<1>2. Word = 0..(U64 - 1) /\ U64 \in Nat
  BY Widths
<1> QED
  BY <1>1, <1>2

\* A message that fits has a body that fits.
LEMMA BodyFits ==
    ASSUME NEW nr, KeyNumber(nr), NEW body \in Seq(Byte), Len(MsgBytes(nr, body)) \in Word
    PROVE  Len(body) \in Word
<1>1. Len(body) \in Nat
  OBVIOUS
<1>2. /\ EncodedTag(nr, "LEN") \in Seq(Byte) /\ write_varint(Len(body)) \in Seq(Byte)
      /\ write_varint(Len(body)) \o body \in Seq(Byte)
  BY <1>1, TagBytes, VarintBytes, ConcatProperties
<1> QED
  BY <1>2, PartsFit DEF MsgBytes

\* How the fields are heard.
LEMMA HearForms ==
    ASSUME NEW nr, NEW x
    PROVE  /\ \A p : S0[nr] = Scalar(p) => HearBy(S0, <<nr, x>>) = <<nr, x>>
           /\ \A k, p : S0[nr] = SimpleMap(k, p) => HearBy(S0, <<nr, x>>) = <<nr, x>>
           /\ \A p : S0[nr] = Packed(p) => HearBy(S0, <<nr, x>>) = <<nr, unpack(p, x)>>
           /\ S0[nr] = Message => HearBy(S0, <<nr, x>>) = <<nr, UnnestBy(S0, x)>>
           /\ \A k : S0[nr] = MessageMap(k) =>
                 HearBy(S0, <<nr, x>>) = <<nr, <<x[1], <<UnnestBy(S0, x[2][1])>>>>>>
<1> DEFINE f == S0[nr]
<1>1. HearBy(S0, <<nr, x>>) =
          <<nr, IF f.form = "packed" THEN unpack(f.val, x)
                ELSE IF f.form \in {"message", "message map"}
                     THEN WithMessage(f, x, UnnestBy(S0, Enclosed(f, x)))
                ELSE x>>
  BY DEF HearBy
<1> HIDE DEF f
<1>2. ASSUME NEW p, f = Scalar(p)
      PROVE  HearBy(S0, <<nr, x>>) = <<nr, x>>
  <2>1. f.form = "scalar"
    BY <1>2 DEF Scalar
  <2> QED
    BY <1>1, <2>1
<1>3. ASSUME NEW k, NEW p, f = SimpleMap(k, p)
      PROVE  HearBy(S0, <<nr, x>>) = <<nr, x>>
  <2>1. f.form = "map"
    BY <1>3 DEF SimpleMap
  <2> QED
    BY <1>1, <2>1
<1>4. ASSUME NEW p, f = Packed(p)
      PROVE  HearBy(S0, <<nr, x>>) = <<nr, unpack(p, x)>>
  <2>1. f.form = "packed" /\ f.val = p
    BY <1>4 DEF Packed
  <2> QED
    BY <1>1, <2>1
<1>5. ASSUME f = Message
      PROVE  HearBy(S0, <<nr, x>>) = <<nr, UnnestBy(S0, x)>>
  <2>1. f.form = "message"
    BY <1>5 DEF Message
  <2> QED
    BY <1>1, <2>1 DEF WithMessage, Enclosed
<1>6. ASSUME NEW k, f = MessageMap(k)
      PROVE  HearBy(S0, <<nr, x>>) = <<nr, <<x[1], <<UnnestBy(S0, x[2][1])>>>>>>
  <2>1. f.form = "message map"
    BY <1>6 DEF MessageMap
  <2> QED
    BY <1>1, <2>1 DEF WithMessage, Enclosed
<1> QED
  BY <1>2, <1>3, <1>4, <1>5, <1>6 DEF f

\* One value.
LEMMA MeansScalar ==
    ASSUME NEW nr \in DOMAIN Fields, NEW p, S0[nr] = Scalar(p), NEW v, Handed(p, v)
    PROVE  Means(FieldBytes(nr, p, v), Says(nr, <<v>>))
<1>1. nr \in DOMAIN S0 /\ KeyNumber(nr)
  BY FieldForms, FieldNumbers
<1>2. IsField(S0, FieldBytes(nr, p, v), <<nr, v.text>>)
  BY <1>1, ScalarFieldIs
<1>3. HearBy(S0, <<nr, v.text>>) = <<nr, v.text>>
  BY HearForms
<1>4. Says(nr, <<v>>) = <<<<nr, v.text>>>>
  BY DEF Says
<1> QED
  BY <1>2, <1>3, <1>4, MeansOne

\* The bytes of a list, field by field.
ListPieces(nr, p, values) == [i \in 1..Len(values) |-> FieldBytes(nr, p, values[i])]

\* A list is written a field an element.
LEMMA ListFields ==
    ASSUME NEW nr \in DOMAIN Fields, NEW p, S0[nr] = Scalar(p), NEW values, AreHanded(p, values)
    PROVE  /\ ListPieces(nr, p, values) \in Seq(Seq(Byte))
           /\ FlattenSeq(ListPieces(nr, p, values)) \in Seq(Byte)
           /\ \A b \in Buffers :
                 repeated_write(b, nr, p, values) = put(b, FlattenSeq(ListPieces(nr, p, values)))
           /\ IsFields(S0, ListPieces(nr, p, values), Says(nr, values))
<1> DEFINE cs == ListPieces(nr, p, values)
           ys == Says(nr, values)
<1>1. nr \in DOMAIN S0 /\ KeyNumber(nr)
  BY FieldForms, FieldNumbers
<1>2. IsSeq(values) /\ \A i \in 1..Len(values) : Handed(p, values[i])
  BY DEF AreHanded
<1>3. /\ cs \in Seq(Seq(Byte)) /\ FlattenSeq(cs) \in Seq(Byte)
      /\ \A b \in Buffers : repeated_write(b, nr, p, values) = put(b, FlattenSeq(cs))
  BY <1>1, <1>2, RepeatedPuts DEF ListPieces
<1>4. Len(values) \in Nat
  BY <1>2, SeqFacts
<1>5. Len(cs) = Len(values) /\ \A i \in 1..Len(values) : cs[i] = FieldBytes(nr, p, values[i])
  BY <1>4 DEF ListPieces
<1>6. ys = [i \in 1..Len(values) |-> ys[i]] /\ \A i \in 1..Len(values) : ys[i] = <<nr, values[i].text>>
  BY DEF Says
<1> HIDE DEF cs, ys
<1>7. IsSeq(ys) /\ Len(ys) = Len(values)
  BY <1>4, <1>6, FunctionIsSeq
<1>8. ASSUME NEW i \in 1..Len(cs)
      PROVE  IsField(S0, cs[i], ys[i])
  <2>1. Handed(p, values[i]) /\ i \in 1..Len(values)
    BY <1>2, <1>5
  <2>2. IsField(S0, FieldBytes(nr, p, values[i]), <<nr, values[i].text>>)
    BY <1>1, <2>1, ScalarFieldIs
  <2> QED
    BY <1>5, <1>6, <2>1, <2>2
<1>9. IsFields(S0, cs, ys)
  BY <1>5, <1>7, <1>8 DEF IsFields
<1> QED
  BY <1>3, <1>9 DEF cs, ys

\* A list.
LEMMA MeansList ==
    ASSUME NEW nr \in DOMAIN Fields, NEW p, S0[nr] = Scalar(p), NEW values, AreHanded(p, values)
    PROVE  Means(FlattenSeq(ListPieces(nr, p, values)), Says(nr, values))
<1> DEFINE ys == Says(nr, values)
<1>1. ListPieces(nr, p, values) \in Seq(Seq(Byte)) /\ IsFields(S0, ListPieces(nr, p, values), ys)
  BY ListFields
<1>2. Len(values) \in Nat
  BY SeqFacts DEF AreHanded
<1>3. Len(ys) = Len(values) /\ \A i \in 1..Len(values) : ys[i] = <<nr, values[i].text>>
  BY <1>2 DEF Says
<1> HIDE DEF ys
<1>4. ASSUME NEW i \in 1..Len(ys)
      PROVE  HearBy(S0, ys[i]) = ys[i]
  <2>1. HearBy(S0, <<nr, values[i].text>>) = <<nr, values[i].text>>
    BY HearForms
  <2> QED
    BY <1>3, <2>1
<1> QED
  BY <1>1, <1>4, MeansFields DEF ys

\* A packed list.
LEMMA MeansPacked ==
    ASSUME NEW nr \in DOMAIN Fields, NEW p \in Packable, S0[nr] = Packed(p),
           NEW values, AreHanded(p, values), Len(PackedBytes(nr, p, values)) \in Word
    PROVE  Means(PackedBytes(nr, p, values), SaysPacked(nr, values))
<1>1. nr \in DOMAIN S0 /\ KeyNumber(nr)
  BY FieldForms, FieldNumbers
<1>2. IsSeq(values) /\ \A i \in 1..Len(values) : Handed(p, values[i])
  BY DEF AreHanded
<1>3. CASE values = << >>
  BY <1>3, MeansNone DEF PackedBytes, SaysPacked
<1>4. CASE values # << >>
  <2> DEFINE body == Elements(p, values)
             ys == [i \in 1..Len(values) |-> values[i].text]
  <2>1. body \in Seq(Byte)
    BY <1>1, <1>2, PackedPuts
  <2>2. PackedBytes(nr, p, values) = MsgBytes(nr, body)
    BY <1>4 DEF PackedBytes
  <2>3. Len(body) \in Word
    <3> HIDE DEF body
    <3> QED
      BY <1>1, <2>1, <2>2, BodyFits
  <2>4. unpack(p, body) = ys
    BY <1>2, UnpackIs
  <2>5. SaysPacked(nr, values) = <<<<nr, ys>>>>
    BY <1>4 DEF SaysPacked
  <2> HIDE DEF body, ys
  <2>6. IsField(S0, MsgBytes(nr, body), <<nr, body>>)
    BY <1>1, <2>1, <2>3, LenFieldIs
  <2>7. HearBy(S0, <<nr, body>>) = <<nr, ys>>
    BY <2>4, HearForms
  <2> QED
    BY <2>2, <2>5, <2>6, <2>7, MeansOne
<1> QED
  BY <1>3, <1>4

\* The entry of a map.
LEMMA MeansEntry ==
    ASSUME NEW nr \in DOMAIN Fields, NEW f, NEW k, NEW p, k = f.key, p = f.val,
           S0[nr] = SimpleMap(k, p), NEW key, NEW option,
           EntryOf(f, key, option), IsSeq(option), Len(option) <= 1,
           Len(MsgBytes(nr, EntryBody(f, key, option))) \in Word
    PROVE  Means(MsgBytes(nr, EntryBody(f, key, option)), SaysEntry(nr, key, option))
<1> DEFINE body == EntryBody(f, key, option)
           y == <<nr, <<<<key.text>>, [i \in 1..Len(option) |-> option[i].text]>>>>
<1>1. nr \in DOMAIN S0 /\ KeyNumber(nr) /\ EntryNumbers
  BY FieldForms, FieldNumbers
<1>2. body \in Seq(Byte)
  BY <1>1, EntryLen
<1>3. Len(body) \in Word
  BY <1>1, <1>2, BodyFits
<1>4. IsField(S0, MsgBytes(nr, body), y)
  BY <1>1, <1>3, ScalarEntryIs
<1>5. HearBy(S0, y) = y
  BY HearForms
<1>6. SaysEntry(nr, key, option) = <<y>>
  BY DEF SaysEntry
<1> HIDE DEF body, y
<1> QED
  BY <1>4, <1>5, <1>6, MeansOne DEF body

\* The body of a nested message.
BodyBytes(values) == FlattenSeq(ListPieces(Inner, Fields[Inner].val, values))

\* Whatever the buffer, the closure of a nested message writes its list.
LEMMA BodyIs ==
    ASSUME NEW values \in InnerLists
    PROVE  /\ BodyBytes(values) \in Seq(Byte)
           /\ \A b \in Buffers : Body(b, values) = BodyBytes(values)
           /\ UnnestBy(S0, BodyBytes(values)) = Says(Inner, values)
<1> DEFINE p == Fields[Inner].val
           cs == ListPieces(Inner, p, values)
           ys == Says(Inner, values)
<1>1. Inner \in DOMAIN Fields /\ S0[Inner] = Scalar(p) /\ p \in Packable \cup LenScalars
  <2>1. Inner \in Labelled("Repeated") /\ "Repeated" \in SingleLabels
    BY RoundTripAssumption DEF SingleLabels
  <2> QED
    BY <2>1, FieldForms
<1>2. AreHanded(p, values)
  BY <1>1, CallerSuits DEF InnerLists
<1>3. /\ cs \in Seq(Seq(Byte)) /\ FlattenSeq(cs) \in Seq(Byte)
      /\ \A b \in Buffers : repeated_write(b, Inner, p, values) = put(b, FlattenSeq(cs))
      /\ IsFields(S0, cs, ys)
  BY <1>1, <1>2, ListFields
<1> HIDE DEF cs, ys
<1>4. UnnestBy(S0, FlattenSeq(cs)) = ys
  <2>1. /\ IsSeq(ys) /\ Len(ys) = Len(cs)
        /\ \A i \in 1..Len(cs) : IsField(S0, cs[i], ys[i])
    BY <1>3 DEF IsFields
  <2> QED
    BY <1>3, <2>1, UnnestIs
<1>5. ASSUME NEW b \in Buffers
      PROVE  Body(b, values) = FlattenSeq(cs)
  <2>1. Emptied(b) \in Buffers /\ put(Emptied(b), FlattenSeq(cs)).bytes = FlattenSeq(cs)
    BY <1>3, EmptiedFacts
  <2> QED
    BY <1>3, <2>1 DEF Body
<1> QED
  BY <1>3, <1>4, <1>5 DEF BodyBytes, cs, ys

\* A nested message.
LEMMA MessageFieldIs ==
    ASSUME NEW nr \in DOMAIN Fields, S0[nr] = Message, NEW values \in InnerLists,
           Len(MsgBytes(nr, BodyBytes(values))) \in Word
    PROVE  Means(MsgBytes(nr, BodyBytes(values)), <<<<nr, Says(Inner, values)>>>>)
<1> DEFINE body == BodyBytes(values)
<1>1. nr \in DOMAIN S0 /\ KeyNumber(nr)
  BY FieldForms, FieldNumbers
<1>2. body \in Seq(Byte) /\ UnnestBy(S0, body) = Says(Inner, values)
  BY BodyIs
<1>3. Len(body) \in Word
  BY <1>1, <1>2, BodyFits
<1> HIDE DEF body
<1>4. IsField(S0, MsgBytes(nr, body), <<nr, body>>)
  BY <1>1, <1>2, <1>3, LenFieldIs
<1>5. HearBy(S0, <<nr, body>>) = <<nr, Says(Inner, values)>>
  BY <1>2, HearForms
<1> QED
  BY <1>4, <1>5, MeansOne DEF body

\* The entry of a map of messages.
MapMsgBody(p, key, values) == FieldBytes(1, p, key) \o MsgBytes(2, BodyBytes(values))

\* The entry of a map of messages.
LEMMA MeansMapMsg ==
    ASSUME NEW nr \in DOMAIN Fields, NEW p, S0[nr] = MessageMap(p), NEW key, Handed(p, key),
           NEW values \in InnerLists,
           Len(MsgBytes(nr, MapMsgBody(p, key, values))) \in Word
    PROVE  Means(MsgBytes(nr, MapMsgBody(p, key, values)),
                 <<<<nr, <<<<key.text>>, <<Says(Inner, values)>>>>>>>>)
<1> DEFINE body == BodyBytes(values)
           w == FieldBytes(1, p, key)
           u == MsgBytes(2, body)
           y == <<nr, <<<<key.text>>, <<body>>>>>>
           m == Says(Inner, values)
<1>1. nr \in DOMAIN S0 /\ KeyNumber(nr) /\ KeyNumber(1) /\ KeyNumber(2) /\ EntryNumbers
  BY FieldForms, FieldNumbers DEF EntryNumbers
<1>2. body \in Seq(Byte) /\ UnnestBy(S0, body) = m
  BY BodyIs
<1> HIDE DEF body, m
<1>3. w \in Seq(Byte) /\ u \in Seq(Byte)
  BY <1>1, <1>2, FieldPuts, MsgPuts
<1>4. MapMsgBody(p, key, values) = w \o u
  BY DEF MapMsgBody, body
<1> HIDE DEF w, u
<1>5. w \o u \in Seq(Byte)
  BY <1>3, ConcatProperties
<1>6. Len(w \o u) \in Word
  BY <1>1, <1>4, <1>5, BodyFits
<1>7. Len(u) \in Word
  BY <1>3, <1>6, PartsFit
<1>8. Len(body) \in Word
  BY <1>1, <1>2, <1>7, BodyFits DEF u
<1>9. IsField(S0, MsgBytes(nr, w \o u), y)
  BY <1>1, <1>2, <1>6, <1>8, MessageEntryIs DEF w, u
<1>10. HearBy(S0, y) = <<nr, <<<<key.text>>, <<m>>>>>>
  <2> DEFINE x == <<<<key.text>>, <<body>>>>
  <2>1. x[1] = <<key.text>> /\ x[2][1] = body
    OBVIOUS
  <2>2. y = <<nr, x>>
    OBVIOUS
  <2> HIDE DEF x, y
  <2>3. HearBy(S0, <<nr, x>>) = <<nr, <<x[1], <<UnnestBy(S0, x[2][1])>>>>>>
    BY HearForms
  <2> QED
    BY <1>2, <2>1, <2>2, <2>3
<1> HIDE DEF y
<1>11. Means(MsgBytes(nr, w \o u), <<<<nr, <<<<key.text>>, <<m>>>>>>>>)
  BY <1>9, <1>10, MeansOne
<1> QED
  BY <1>4, <1>11 DEF m

-----------------------------------------------------------------------------
(* The writer calls of a program. *)

\* Two elements.
LEMMA PairConcat ==
    ASSUME NEW a, NEW b
    PROVE  <<a>> \o <<b>> = <<a, b>>
<1> DEFINE S == {a, b}
<1>1. a \in S /\ b \in S
  OBVIOUS
<1> HIDE DEF S
<1>2. <<a>> \in Seq(S) /\ <<b>> \in Seq(S) /\ <<a, b>> \in Seq(S)
  BY <1>1
<1> DEFINE s == <<a>>
           t == <<b>>
           u == <<a, b>>
<1>3. /\ s \in Seq(S) /\ t \in Seq(S) /\ u \in Seq(S)
      /\ Len(s) = 1 /\ Len(t) = 1 /\ Len(u) = 2
      /\ s[1] = a /\ t[1] = b /\ u[1] = a /\ u[2] = b
  BY <1>2
<1> HIDE DEF s, t, u
<1>4. /\ s \o t \in Seq(S) /\ Len(s \o t) = 2
      /\ (s \o t)[1] = a /\ (s \o t)[2] = b
  <2>1. /\ s \o t \in Seq(S) /\ Len(s \o t) = Len(s) + Len(t)
        /\ \A i \in 1..(Len(s) + Len(t)) :
              (s \o t)[i] = IF i <= Len(s) THEN s[i] ELSE t[i - Len(s)]
    BY <1>3, ConcatProperties
  <2>2. Len(s) + Len(t) = 2 /\ 1 \in 1..2 /\ 2 \in 1..2 /\ 2 - Len(s) = 1 /\ ~(2 <= Len(s))
    BY <1>3
  <2> QED
    BY <1>3, <2>1, <2>2
<1>5. \A i \in 1..2 : (s \o t)[i] = u[i]
  BY <1>3, <1>4
<1>6. s \o t = u
  BY <1>3, <1>4, <1>5, SeqEqual
<1> QED
  BY <1>6 DEF s, t, u

\* No member of a oneof streams its text: what becomes of one that does is
\* what OutputBecomesValue is about.
OneofsPlain ==
    \A nr \in Labelled("Oneof") : \A v \in Values[Fields[nr].val] : ~v.streams

\* What is written to and what the calls said.
OutType ==
    /\ out = [k \in DOMAIN out |-> out[k]]
    /\ "forward" \in DOMAIN out
    /\ \A k \in DOMAIN out : out[k] \in Buffers
    /\ IsSeq(said)

\* A call that leaves the buffers as they are.
Idles == out' = out /\ said' = said

\* Bytes that mean what was said of them.
Stands(s, list) == s \in Seq(Byte) /\ (OneofsPlain /\ Len(s) \in Word => Means(s, list))

\* A call that puts the same bytes into every buffer,
Wrote(s, list) ==
    /\ Stands(s, list)
    /\ out' = [k \in DOMAIN out |-> put(out[k], s)]
    /\ said' = said \o <<list>>

\* and one that does it twice.
WroteTwice(s, t, l, m) ==
    /\ Stands(s, l) /\ Stands(t, m)
    /\ out' = [k \in DOMAIN out |-> put(put(out[k], s), t)]
    /\ said' = said \o <<l, m>>

Writes ==
    \/ Idles
    \/ \E s, list : Wrote(s, list)
    \/ \E s, t, l, m : WroteTwice(s, t, l, m)

\* A field of a scalar.
LEMMA ScalarWrites ==
    ASSUME OutType, NEW nr \in DOMAIN Fields, NEW p, S0[nr] = Scalar(p), NEW v, Handed(p, v),
           out' = [k \in DOMAIN out |-> write_field(out[k], nr, p, v)],
           said' = said \o <<Says(nr, <<v>>)>>
    PROVE  Writes
<1> DEFINE s == FieldBytes(nr, p, v)
<1>1. KeyNumber(nr)
  BY FieldNumbers
<1>2. s \in Seq(Byte) /\ \A b \in Buffers : write_field(b, nr, p, v) = put(b, s)
  BY <1>1, FieldPuts
<1>3. Means(s, Says(nr, <<v>>))
  BY MeansScalar
<1> HIDE DEF s
<1>4. out' = [k \in DOMAIN out |-> put(out[k], s)]
  BY <1>2 DEF OutType
<1>5. Wrote(s, Says(nr, <<v>>))
  BY <1>2, <1>3, <1>4 DEF Wrote, Stands
<1> QED
  BY <1>5 DEF Writes

\* What a value of a field's type is.
LEMMA SingleField ==
    ASSUME NEW label \in SingleLabels, NEW nr \in Labelled(label)
    PROVE  /\ nr \in DOMAIN Fields /\ S0[nr] = Scalar(Fields[nr].val)
           /\ \A v \in Values[Fields[nr].val] : Handed(Fields[nr].val, v)
           /\ \A values \in Lists[Fields[nr].val] : AreHanded(Fields[nr].val, values)
BY FieldForms, CallerSuits

\* An optional field.
LEMMA OptionalWrites ==
    ASSUME OutType, WriteOptional
    PROVE  Writes
<1>1. PICK nr \in Labelled("Optional") : \E v \in Values[Fields[nr].val] : \E option \in {<< >>, <<v>>} :
          /\ out' = [k \in DOMAIN out |-> optional_write(out[k], nr, Fields[nr].val, option)]
          /\ said' = said \o <<Says(nr, option)>>
  BY DEF WriteOptional, Write
<1> DEFINE p == Fields[nr].val
<1>2. PICK v \in Values[p] : \E option \in {<< >>, <<v>>} :
          /\ out' = [k \in DOMAIN out |-> optional_write(out[k], nr, p, option)]
          /\ said' = said \o <<Says(nr, option)>>
  BY <1>1
<1>3. PICK option \in {<< >>, <<v>>} :
          /\ out' = [k \in DOMAIN out |-> optional_write(out[k], nr, p, option)]
          /\ said' = said \o <<Says(nr, option)>>
  BY <1>2
<1>4. nr \in DOMAIN Fields /\ S0[nr] = Scalar(p) /\ Handed(p, v)
  BY SingleField DEF SingleLabels
<1> HIDE DEF p
<1>5. CASE option = << >>
  <2> DEFINE none == << >>
  <2>1. \A b : optional_write(b, nr, p, none) = b
    BY DEF optional_write
  <2>2. Says(nr, none) = none /\ Means(none, none) /\ none \in Seq(Byte)
    BY MeansNone, EmptySeq DEF Says
  <2>3. \A b \in Buffers : put(b, none) = b
    BY <2>2, PutFacts
  <2>4. out' = [k \in DOMAIN out |-> put(out[k], none)]
    BY <1>3, <1>5, <2>1, <2>3 DEF OutType
  <2>5. said' = said \o <<none>>
    BY <1>3, <1>5, <2>2
  <2> HIDE DEF none
  <2>6. Wrote(none, none)
    BY <2>2, <2>4, <2>5 DEF Wrote, Stands
  <2> QED
    BY <2>6 DEF Writes
<1>6. CASE option = <<v>>
  <2>1. \A b : optional_write(b, nr, p, <<v>>) = write_field(b, nr, p, v)
    BY DEF optional_write
  <2>2. /\ out' = [k \in DOMAIN out |-> write_field(out[k], nr, p, v)]
        /\ said' = said \o <<Says(nr, <<v>>)>>
    BY <1>3, <1>6, <2>1
  <2> QED
    BY <1>4, <2>2, ScalarWrites
<1> QED
  BY <1>5, <1>6

\* A required field.
LEMMA RequiredWrites ==
    ASSUME OutType, WriteRequired
    PROVE  Writes
<1>1. PICK nr \in Labelled("Required") : \E v \in Values[Fields[nr].val] :
          /\ out' = [k \in DOMAIN out |-> write_field(out[k], nr, Fields[nr].val, v)]
          /\ said' = said \o <<Says(nr, <<v>>)>>
  BY DEF WriteRequired, Write
<1> QED
  BY <1>1, SingleField, ScalarWrites DEF SingleLabels

\* An element of a repeated field.
LEMMA SingleWrites ==
    ASSUME OutType, WriteSingle
    PROVE  Writes
<1>1. PICK nr \in Labelled("Repeated") : \E v \in Values[Fields[nr].val] :
          /\ out' = [k \in DOMAIN out |-> write_field(out[k], nr, Fields[nr].val, v)]
          /\ said' = said \o <<Says(nr, <<v>>)>>
  BY DEF WriteSingle, Write
<1> QED
  BY <1>1, SingleField, ScalarWrites DEF SingleLabels

\* A default that is not written.
LEMMA PlainWrites ==
    ASSUME OutType, WritePlain
    PROVE  Writes
<1>1. PICK nr \in Labelled("Plain") : \E v \in Values[Fields[nr].val] :
          /\ out' = [k \in DOMAIN out |-> plain_write(out[k], nr, Fields[nr].val, v)]
          /\ said' = said \o (IF v = Value(Default(Fields[nr].val)) THEN << >> ELSE <<Says(nr, <<v>>)>>)
  BY DEF WritePlain, Write
<1> DEFINE p == Fields[nr].val
<1>2. PICK v \in Values[p] :
          /\ out' = [k \in DOMAIN out |-> plain_write(out[k], nr, p, v)]
          /\ said' = said \o (IF v = Value(Default(p)) THEN << >> ELSE <<Says(nr, <<v>>)>>)
  BY <1>1
<1>3. nr \in DOMAIN Fields /\ S0[nr] = Scalar(p) /\ Handed(p, v)
  BY SingleField DEF SingleLabels
<1> HIDE DEF p
<1>4. is_default(p, v) <=> v = Value(Default(p))
  BY <1>3, ScalarBytes DEF is_default, Value
<1>5. CASE is_default(p, v)
  <2>1. \A b : plain_write(b, nr, p, v) = b
    BY <1>5 DEF plain_write
  <2>2. out' = out
    BY <1>2, <2>1 DEF OutType
  <2>3. said \o << >> = said
    BY ConcatEmptySeq DEF OutType, IsSeq
  <2> QED
    BY <1>2, <1>4, <1>5, <2>2, <2>3 DEF Writes, Idles
<1>6. CASE ~is_default(p, v)
  <2>1. \A b : plain_write(b, nr, p, v) = write_field(b, nr, p, v)
    BY <1>6 DEF plain_write
  <2>2. /\ out' = [k \in DOMAIN out |-> write_field(out[k], nr, p, v)]
        /\ said' = said \o <<Says(nr, <<v>>)>>
    BY <1>2, <1>4, <1>6, <2>1
  <2> QED
    BY <1>3, <2>2, ScalarWrites
<1> QED
  BY <1>5, <1>6

\* A repeated field.
LEMMA RepeatedWrites ==
    ASSUME OutType, WriteRepeated
    PROVE  Writes
<1>1. PICK nr \in Labelled("Repeated") : \E values \in Lists[Fields[nr].val] :
          /\ out' = [k \in DOMAIN out |-> repeated_write(out[k], nr, Fields[nr].val, values)]
          /\ said' = said \o <<Says(nr, values)>>
  BY DEF WriteRepeated, Write
<1> DEFINE p == Fields[nr].val
<1>2. PICK values \in Lists[p] :
          /\ out' = [k \in DOMAIN out |-> repeated_write(out[k], nr, p, values)]
          /\ said' = said \o <<Says(nr, values)>>
  BY <1>1
<1>3. nr \in DOMAIN Fields /\ S0[nr] = Scalar(p) /\ AreHanded(p, values)
  BY SingleField DEF SingleLabels
<1> HIDE DEF p
<1> DEFINE s == FlattenSeq(ListPieces(nr, p, values))
<1>4. s \in Seq(Byte) /\ \A b \in Buffers : repeated_write(b, nr, p, values) = put(b, s)
  BY <1>3, ListFields
<1>5. Means(s, Says(nr, values))
  BY <1>3, MeansList
<1> HIDE DEF s
<1>6. out' = [k \in DOMAIN out |-> put(out[k], s)]
  BY <1>2, <1>4 DEF OutType
<1>7. Wrote(s, Says(nr, values))
  BY <1>2, <1>4, <1>5, <1>6 DEF Wrote, Stands
<1> QED
  BY <1>7 DEF Writes

\* A member of a oneof.
LEMMA OneofWrites ==
    ASSUME OutType, WriteOneof
    PROVE  Writes
<1>1. PICK nr \in Labelled("Oneof") : \E v \in Values[Fields[nr].val] :
          /\ out' = [k \in DOMAIN out |-> oneof_write(out[k], nr, Fields[nr].val, v)]
          /\ said' = said \o <<Says(nr, <<v>>)>>
  BY DEF WriteOneof, Write
<1> DEFINE p == Fields[nr].val
<1>2. PICK v \in Values[p] :
          /\ out' = [k \in DOMAIN out |-> oneof_write(out[k], nr, p, v)]
          /\ said' = said \o <<Says(nr, <<v>>)>>
  BY <1>1
<1>3. nr \in DOMAIN Fields /\ S0[nr] = Scalar(p) /\ Handed(p, v)
  BY SingleField DEF SingleLabels
<1>4. OneofsPlain => ~v.streams
  BY DEF OneofsPlain
<1> HIDE DEF p
<1> DEFINE s == EncodedTag(nr, WIRE_TYPE(p)) \o write_value(p, v.scalar)
<1>5. KeyNumber(nr)
  BY <1>3, FieldNumbers
<1>6. /\ s \in Seq(Byte) /\ (~v.streams => s = FieldBytes(nr, p, v))
      /\ \A b \in Buffers : oneof_write(b, nr, p, v) = put(b, s)
  BY <1>3, <1>5, OneofPuts
<1>7. Means(FieldBytes(nr, p, v), Says(nr, <<v>>))
  BY <1>3, MeansScalar
<1> HIDE DEF s
<1>8. out' = [k \in DOMAIN out |-> put(out[k], s)]
  BY <1>2, <1>6 DEF OutType
<1>9. Wrote(s, Says(nr, <<v>>))
  BY <1>2, <1>4, <1>6, <1>7, <1>8 DEF Wrote, Stands
<1> QED
  BY <1>9 DEF Writes

\* The packed fields, written either way.
LEMMA PackedWrites ==
    ASSUME OutType, WritePacked \/ WriteExact
    PROVE  Writes
<1>1. PICK nr \in Labelled("Packed") : \E values \in Lists[Fields[nr].val] :
          /\ \/ out' = [k \in DOMAIN out |-> packed_write(out[k], nr, Fields[nr].val, values)]
             \/ out' = [k \in DOMAIN out |-> write_exact(out[k], nr, Fields[nr].val, values)]
          /\ said' = said \o <<SaysPacked(nr, values)>>
  BY DEF WritePacked, WriteExact, Write
<1> DEFINE p == Fields[nr].val
<1>2. PICK values \in Lists[p] :
          /\ \/ out' = [k \in DOMAIN out |-> packed_write(out[k], nr, p, values)]
             \/ out' = [k \in DOMAIN out |-> write_exact(out[k], nr, p, values)]
          /\ said' = said \o <<SaysPacked(nr, values)>>
  BY <1>1
<1>3. nr \in DOMAIN Fields /\ S0[nr] = Packed(p) /\ p \in Packable
  BY FieldForms
<1> HIDE DEF p
<1>4. AreHanded(p, values)
  BY <1>3, CallerSuits
<1>5. IsSeq(values) /\ \A i \in 1..Len(values) : Handed(p, values[i])
  BY <1>4 DEF AreHanded
<1>6. KeyNumber(nr)
  BY <1>3, FieldNumbers
<1> DEFINE s == PackedBytes(nr, p, values)
<1>7. s \in Seq(Byte) /\ \A b \in Buffers : packed_write(b, nr, p, values) = put(b, s)
  BY <1>5, <1>6, PackedPuts
<1>8. \A b \in Buffers : write_exact(b, nr, p, values) = put(b, s)
  BY <1>5, <1>6, ExactPuts
<1>9. Len(s) \in Word => Means(s, SaysPacked(nr, values))
  BY <1>3, <1>4, MeansPacked
<1> HIDE DEF s
<1>10. out' = [k \in DOMAIN out |-> put(out[k], s)]
  BY <1>2, <1>7, <1>8 DEF OutType
<1>11. Wrote(s, SaysPacked(nr, values))
  BY <1>2, <1>7, <1>9, <1>10 DEF Wrote, Stands
<1> QED
  BY <1>11 DEF Writes

\* A map's entry.
LEMMA EntryStands ==
    ASSUME NEW nr \in Labelled("PbMap"), NEW key \in Keys, NEW option,
           \/ option = << >>
           \/ \E v : option = <<v>> /\ Handed(Fields[nr].val, v) /\ ~v.streams
    PROVE  LET s == MsgBytes(nr, EntryBody(Fields[nr], key, option)) IN
           /\ EntryOf(Fields[nr], key, option)
           /\ Stands(s, SaysEntry(nr, key, option))
           /\ \A b \in Buffers : write_entry(b, nr, Fields[nr], key, option) = put(b, s)
<1> DEFINE f == Fields[nr]
<1>1. /\ nr \in DOMAIN Fields /\ S0[nr] = SimpleMap(f.key, f.val)
      /\ Handed(f.key, key) /\ ~key.streams
  BY FieldForms DEF Maps
<1>2. KeyNumber(nr) /\ EntryNumbers
  BY <1>1, FieldNumbers
<1>3. EntryOf(f, key, option)
  BY <1>1 DEF EntryOf
<1>4. IsSeq(option) /\ Len(option) <= 1
  <2>1. CASE option = << >>
    <3>1. << >> \in Seq({}) /\ Len(<< >>) = 0
      BY EmptySeq
    <3>2. IsSeq(<< >>)
      BY <3>1, SeqOverSet
    <3> QED
      BY ONLY <2>1, <3>1, <3>2
  <2>2. ASSUME NEW v, option = <<v>>
        PROVE  IsSeq(option) /\ Len(option) <= 1
    <3>1. PICK S : S = {v}
      OBVIOUS
    <3>2. v \in S
      BY <3>1
    <3>3. <<v>> \in Seq(S) /\ Len(<<v>>) = 1
      BY <3>2
    <3>4. IsSeq(<<v>>)
      BY <3>3, SeqOverSet
    <3> QED
      BY ONLY <2>2, <3>3, <3>4
  <2> QED
    BY <2>1, <2>2
<1> HIDE DEF f
<1> DEFINE s == MsgBytes(nr, EntryBody(f, key, option))
<1>5. s \in Seq(Byte) /\ \A b \in Buffers : write_entry(b, nr, f, key, option) = put(b, s)
  BY <1>2, <1>3, EntryPuts
<1>6. Len(s) \in Word => Means(s, SaysEntry(nr, key, option))
  <2>1. PICK k : k = f.key
    OBVIOUS
  <2>2. PICK p : p = f.val
    OBVIOUS
  <2>3. S0[nr] = SimpleMap(k, p)
    BY <1>1, <2>1, <2>2
  <2> QED
    BY <1>1, <1>3, <1>4, <2>1, <2>2, <2>3, MeansEntry
<1> HIDE DEF s
<1> QED
  BY <1>3, <1>5, <1>6 DEF Stands, f, s

\* One entry, with or without a value.
LEMMA EntryWrites ==
    ASSUME OutType, WriteEntry
    PROVE  Writes
<1>1. PICK nr \in Labelled("PbMap") :
          \E key \in Keys, v \in Values[Fields[nr].val] : \E option \in {<< >>, <<v>>} :
          /\ ~v.streams
          /\ out' = [k \in DOMAIN out |-> write_entry(out[k], nr, Fields[nr], key, option)]
          /\ said' = said \o <<SaysEntry(nr, key, option)>>
  BY DEF WriteEntry, Write
<1>2. PICK key \in Keys, v \in Values[Fields[nr].val] : \E option \in {<< >>, <<v>>} :
          /\ ~v.streams
          /\ out' = [k \in DOMAIN out |-> write_entry(out[k], nr, Fields[nr], key, option)]
          /\ said' = said \o <<SaysEntry(nr, key, option)>>
  BY <1>1
<1>3. PICK option \in {<< >>, <<v>>} :
          /\ ~v.streams
          /\ out' = [k \in DOMAIN out |-> write_entry(out[k], nr, Fields[nr], key, option)]
          /\ said' = said \o <<SaysEntry(nr, key, option)>>
  BY <1>2
<1>4. Handed(Fields[nr].val, v)
  BY FieldForms, CallerSuits
<1>5. option = << >> \/ \E w : option = <<w>> /\ Handed(Fields[nr].val, w) /\ ~w.streams
  BY <1>3, <1>4
<1> DEFINE s == MsgBytes(nr, EntryBody(Fields[nr], key, option))
<1>6. /\ Stands(s, SaysEntry(nr, key, option))
      /\ \A b \in Buffers : write_entry(b, nr, Fields[nr], key, option) = put(b, s)
  BY <1>5, EntryStands
<1> HIDE DEF s
<1>7. out' = [k \in DOMAIN out |-> put(out[k], s)]
  BY <1>3, <1>6 DEF OutType
<1>8. Wrote(s, SaysEntry(nr, key, option))
  BY <1>3, <1>6, <1>7 DEF Wrote
<1> QED
  BY <1>8 DEF Writes

\* Two entries.
LEMMA MapWrites ==
    ASSUME OutType, WriteMap
    PROVE  Writes
<1>1. PICK nr \in Labelled("PbMap") :
          \E k1, k2 \in Keys, values \in Lists[Fields[nr].val] :
          /\ Len(values) = 2 /\ ~values[1].streams /\ ~values[2].streams
          /\ out' = [k \in DOMAIN out |->
                        map_write(out[k], nr, Fields[nr], <<<<k1, values[1]>>, <<k2, values[2]>>>>)]
          /\ said' = said \o <<SaysEntry(nr, k1, <<values[1]>>), SaysEntry(nr, k2, <<values[2]>>)>>
  BY DEF WriteMap, Write
<1>2. PICK k1 \in Keys, k2 \in Keys, values \in Lists[Fields[nr].val] :
          /\ Len(values) = 2 /\ ~values[1].streams /\ ~values[2].streams
          /\ out' = [k \in DOMAIN out |->
                        map_write(out[k], nr, Fields[nr], <<<<k1, values[1]>>, <<k2, values[2]>>>>)]
          /\ said' = said \o <<SaysEntry(nr, k1, <<values[1]>>), SaysEntry(nr, k2, <<values[2]>>)>>
  BY <1>1
<1> DEFINE f == Fields[nr]
           v1 == values[1]
           v2 == values[2]
           s == MsgBytes(nr, EntryBody(f, k1, <<v1>>))
           t == MsgBytes(nr, EntryBody(f, k2, <<v2>>))
           l == SaysEntry(nr, k1, <<v1>>)
           m == SaysEntry(nr, k2, <<v2>>)
<1>3. nr \in DOMAIN Fields /\ f.val \in Packable \cup LenScalars
  BY FieldForms
<1>4. Handed(f.val, v1) /\ Handed(f.val, v2) /\ ~v1.streams /\ ~v2.streams
  <2>1. AreHanded(f.val, values) /\ 1 \in 1..Len(values) /\ 2 \in 1..Len(values)
    BY <1>2, <1>3, CallerSuits
  <2> QED
    BY <1>2, <2>1 DEF AreHanded
<1>5. KeyNumber(nr) /\ EntryNumbers
  BY <1>3, FieldNumbers
<1>6. EntryOf(f, k1, <<v1>>) /\ Stands(s, l)
  <2>1. \E w : <<v1>> = <<w>> /\ Handed(Fields[nr].val, w) /\ ~w.streams
    BY <1>4
  <2> QED
    BY <2>1, EntryStands
<1>7. EntryOf(f, k2, <<v2>>) /\ Stands(t, m)
  <2>1. \E w : <<v2>> = <<w>> /\ Handed(Fields[nr].val, w) /\ ~w.streams
    BY <1>4
  <2> QED
    BY <2>1, EntryStands
<1>20. said' = said \o <<l, m>>
  BY <1>2
<1> HIDE DEF f, l, m, s, t
<1>8. \A b \in Buffers : map_write(b, nr, f, <<<<k1, v1>>, <<k2, v2>>>>) = put(put(b, s), t)
  <2> HIDE DEF v1, v2
  <2>1. EntryOf(f, k1, <<v1>>) /\ EntryOf(f, k2, <<v2>>)
    BY <1>6, <1>7
  <2>2. WritesTwo(nr, f, k1, v1, k2, v2)
    BY <1>5, <2>1, MapPuts
  <2> QED
    BY <2>2 DEF WritesTwo, s, t
<1>9. out' = [k \in DOMAIN out |-> map_write(out[k], nr, f, <<<<k1, v1>>, <<k2, v2>>>>)]
  BY <1>2 DEF f
<1> HIDE DEF v1, v2
<1>10. out' = [k \in DOMAIN out |-> put(put(out[k], s), t)]
  BY <1>8, <1>9 DEF OutType
<1>11. WroteTwice(s, t, l, m)
  BY <1>6, <1>7, <1>20, <1>10 DEF WroteTwice
<1> QED
  BY <1>11 DEF Writes

\* A nested message.
LEMMA MsgWrites ==
    ASSUME OutType, WriteMsg
    PROVE  Writes
<1>1. PICK nr \in Nested("Optional") \cup Nested("Repeated") : \E values \in InnerLists :
          /\ out' = [k \in DOMAIN out |-> write_msg(out[k], nr, Body(out[k], values))]
          /\ said' = said \o <<<<<<nr, Says(Inner, values)>>>>>>
  BY DEF WriteMsg, Write
<1>2. PICK values \in InnerLists :
          /\ out' = [k \in DOMAIN out |-> write_msg(out[k], nr, Body(out[k], values))]
          /\ said' = said \o <<<<<<nr, Says(Inner, values)>>>>>>
  BY <1>1
<1> DEFINE s == MsgBytes(nr, BodyBytes(values))
           l == <<<<nr, Says(Inner, values)>>>>
<1>3. nr \in DOMAIN Fields /\ S0[nr] = Message
  BY FieldForms DEF SingleLabels
<1>4. KeyNumber(nr)
  BY <1>3, FieldNumbers
<1>5. BodyBytes(values) \in Seq(Byte) /\ \A b \in Buffers : Body(b, values) = BodyBytes(values)
  BY BodyIs
<1>6. s \in Seq(Byte) /\ \A b \in Buffers : write_msg(b, nr, BodyBytes(values)) = put(b, s)
  BY <1>4, <1>5, MsgPuts
<1>7. Len(s) \in Word => Means(s, l)
  BY <1>3, MessageFieldIs
<1> HIDE DEF s
<1>8. out' = [k \in DOMAIN out |-> put(out[k], s)]
  BY <1>2, <1>5, <1>6 DEF OutType
<1>9. said' = said \o <<l>>
  BY <1>2
<1> HIDE DEF l
<1>10. Wrote(s, l)
  BY <1>6, <1>7, <1>8, <1>9 DEF Wrote, Stands
<1> QED
  BY <1>10 DEF Writes

\* Nested messages.
LEMMA ManyMsgWrites ==
    ASSUME OutType, WriteMsgs
    PROVE  Writes
<1>1. PICK nr \in Nested("Repeated") : \E first, second \in InnerLists :
          /\ out' = [k \in DOMAIN out |->
                        write_msgs(out[k], nr, <<Body(out[k], first), Body(out[k], second)>>)]
          /\ said' = said \o <<<<<<nr, Says(Inner, first)>>, <<nr, Says(Inner, second)>>>>>>
  BY DEF WriteMsgs, Write
<1>2. PICK first \in InnerLists, second \in InnerLists :
          /\ out' = [k \in DOMAIN out |->
                        write_msgs(out[k], nr, <<Body(out[k], first), Body(out[k], second)>>)]
          /\ said' = said \o <<<<<<nr, Says(Inner, first)>>, <<nr, Says(Inner, second)>>>>>>
  BY <1>1
<1> DEFINE x == BodyBytes(first)
           y == BodyBytes(second)
           bodies == <<x, y>>
           s == MsgBytes(nr, x)
           t == MsgBytes(nr, y)
           l == <<<<nr, Says(Inner, first)>>>>
           m == <<<<nr, Says(Inner, second)>>>>
<1>3. nr \in DOMAIN Fields /\ S0[nr] = Message
  BY FieldForms DEF SingleLabels
<1>4. KeyNumber(nr)
  BY <1>3, FieldNumbers
<1>5. /\ x \in Seq(Byte) /\ \A b \in Buffers : Body(b, first) = x
      /\ y \in Seq(Byte) /\ \A b \in Buffers : Body(b, second) = y
  BY BodyIs
<1>6. s \in Seq(Byte) /\ t \in Seq(Byte)
  <2> HIDE DEF x, y
  <2> QED
    BY <1>4, <1>5, MsgPuts
<1>7. Len(s) \in Word => Means(s, l)
  BY <1>3, MessageFieldIs
<1>8. Len(t) \in Word => Means(t, m)
  BY <1>3, MessageFieldIs
<1> HIDE DEF x, y
<1>9. \A b \in Buffers : write_msgs(b, nr, bodies) = put(b, s \o t)
  <2>1. Len(bodies) = 2 /\ bodies = [i \in 1..2 |-> bodies[i]] /\ bodies[1] = x /\ bodies[2] = y
    OBVIOUS
  <2> HIDE DEF bodies
  <2>2. IsSeq(bodies)
    BY ONLY <2>1, FunctionIsSeq
  <2>3. \A i \in 1..Len(bodies) : bodies[i] \in Seq(Byte)
    BY <1>5, <2>1
  <2> DEFINE cs == [i \in 1..Len(bodies) |-> MsgBytes(nr, bodies[i])]
  <2>4. \A b \in Buffers : write_msgs(b, nr, bodies) = put(b, FlattenSeq(cs))
    BY <1>4, <2>2, <2>3, MsgsPuts
  <2>5. cs = <<s>> \o <<t>>
    <3>1. cs = <<s, t>>
      BY <2>1
    <3> HIDE DEF cs, s, t
    <3> QED
      BY <3>1, PairConcat
  <2>6. FlattenSeq(<<s>> \o <<t>>) = s \o FlattenSeq(<<t>>) /\ FlattenSeq(<<t>>) = t
    <3> HIDE DEF s, t
    <3>1. <<t>> \in Seq(Seq(Byte))
      <4>1. PICK S : S = Seq(Byte)
        OBVIOUS
      <4>2. t \in S
        BY <1>6, <4>1
      <4>3. <<t>> \in Seq(S)
        BY ONLY <4>2
      <4> QED
        BY <4>1, <4>3
    <3> QED
      BY <1>6, <3>1, FlattenFew
  <2> HIDE DEF cs, s, t
  <2> QED
    BY <2>4, <2>5, <2>6
<1> HIDE DEF s, t
<1>10. \A b \in Buffers : write_msgs(b, nr, <<Body(b, first), Body(b, second)>>) = put(b, s \o t)
  BY <1>5, <1>9
<1>11. out' = [k \in DOMAIN out |-> put(out[k], s \o t)]
  BY <1>2, <1>10 DEF OutType
<1>12. l \o m = <<<<nr, Says(Inner, first)>>, <<nr, Says(Inner, second)>>>>
  BY PairConcat
<1>13. said' = said \o <<l \o m>>
  BY <1>2, <1>12
<1> HIDE DEF l, m
<1>14. s \o t \in Seq(Byte)
  BY <1>6, ConcatProperties
<1>15. Len(s \o t) \in Word => Means(s \o t, l \o m)
  BY <1>6, <1>7, <1>8, PartsFit, MeansJoin
<1>16. Wrote(s \o t, l \o m)
  BY <1>11, <1>13, <1>14, <1>15 DEF Wrote, Stands
<1> QED
  BY <1>16 DEF Writes

\* The entry of a map of messages.
LEMMA MapMsgWrites ==
    ASSUME OutType, WriteMapMsg
    PROVE  Writes
<1>1. PICK nr \in Nested("PbMap") : \E key \in Keys, values \in InnerLists :
          /\ out' = [k \in DOMAIN out |->
                        map_write_msg(out[k], nr, Fields[nr], key, Body(out[k], values))]
          /\ said' = said \o <<<<<<nr, <<<<key.text>>, <<Says(Inner, values)>>>>>>>>>>
  BY DEF WriteMapMsg, Write
<1>2. PICK key \in Keys, values \in InnerLists :
          /\ out' = [k \in DOMAIN out |->
                        map_write_msg(out[k], nr, Fields[nr], key, Body(out[k], values))]
          /\ said' = said \o <<<<<<nr, <<<<key.text>>, <<Says(Inner, values)>>>>>>>>>>
  BY <1>1
<1> DEFINE f == Fields[nr]
           s == MsgBytes(nr, MapMsgBody(f.key, key, values))
           l == <<<<nr, <<<<key.text>>, <<Says(Inner, values)>>>>>>>>
<1>3. nr \in DOMAIN Fields /\ S0[nr] = MessageMap(f.key) /\ Handed(f.key, key)
  BY FieldForms DEF Maps
<1>4. KeyNumber(nr) /\ EntryNumbers
  BY <1>3, FieldNumbers
<1>5. BodyBytes(values) \in Seq(Byte) /\ \A b \in Buffers : Body(b, values) = BodyBytes(values)
  BY BodyIs
<1> HIDE DEF f
<1>6. s \in Seq(Byte) /\ \A b \in Buffers : map_write_msg(b, nr, f, key, BodyBytes(values)) = put(b, s)
  <2>1. PICK body \in Seq(Byte) : body = BodyBytes(values)
    BY <1>5
  <2>2. MapMsgBody(f.key, key, values) = FieldBytes(1, f.key, key) \o MsgBytes(2, body)
    BY <2>1 DEF MapMsgBody
  <2> QED
    BY <1>3, <1>4, <2>1, <2>2, MapMsgPuts
<1>7. Len(s) \in Word => Means(s, l)
  <2>1. PICK p : p = f.key
    OBVIOUS
  <2> QED
    BY <1>3, <2>1, MeansMapMsg
<1> HIDE DEF s
<1>8. out' = [k \in DOMAIN out |-> put(out[k], s)]
  BY <1>2, <1>5, <1>6 DEF OutType, f
<1>9. said' = said \o <<l>>
  BY <1>2
<1> HIDE DEF l
<1>10. Wrote(s, l)
  BY <1>6, <1>7, <1>8, <1>9 DEF Wrote, Stands
<1> QED
  BY <1>10 DEF Writes

\* The calls that write.
WriterCalls ==
    \/ WriteOptional \/ WriteRequired \/ WritePlain \/ WriteRepeated \/ WriteSingle
    \/ WriteOneof \/ WritePacked \/ WriteExact \/ WriteEntry \/ WriteMap
    \/ WriteMsg \/ WriteMsgs \/ WriteMapMsg

\* What each leaves alone, and how long its buffers may be.
LEMMA CallsAreQuiet ==
    ASSUME WriterCalls
    PROVE  /\ reading = "none" /\ UNCHANGED <<vars, reading>>
           /\ \A k \in DOMAIN out : Len(out'[k].bytes) \in Word
BY DEF WriterCalls, WriteOptional, WriteRequired, WritePlain, WriteRepeated, WriteSingle,
       WriteOneof, WritePacked, WriteExact, WriteEntry, WriteMap, WriteMsg, WriteMsgs, WriteMapMsg,
       Write

\* Every call puts bytes that mean what was said into every buffer.
LEMMA CallsWrite ==
    ASSUME OutType, WriterCalls
    PROVE  Writes
BY OptionalWrites, RequiredWrites, PlainWrites, RepeatedWrites, SingleWrites, OneofWrites,
   PackedWrites, EntryWrites, MapWrites, MsgWrites, ManyMsgWrites, MapMsgWrites DEF WriterCalls

-----------------------------------------------------------------------------
(* The buffers and what was said. *)

\* What a buffer holds means what the calls said, in its order.
Agree(b, list) ==
    /\ b \in Buffers
    /\ list \in Seq(Seq(Hears))
    /\ Means(b.bytes, FlattenSeq(ordered(b, list)))

\* An empty buffer means nothing.
LEMMA AgreeNone ==
    ASSUME NEW r \in BOOLEAN, NEW c \in BOOLEAN
    PROVE  Agree(Buffer(r, c), << >>)
<1>1. << >> \in Seq(Seq(Hears)) /\ << >> \in Seq(Byte)
  BY EmptySeq
<1>2. Buffer(r, c) \in Buffers /\ Buffer(r, c).bytes = << >>
  BY <1>1 DEF Buffer, Buffers
<1>3. Reverse(<< >>) = << >>
  BY DEF Reverse
<1>4. << >> \in Seq(Hears)
  BY EmptySeq
<1>5. FlattenSeq(<< >>) = << >>
  BY <1>4, FlattenFew
<1>6. ordered(Buffer(r, c), << >>) = << >>
  BY <1>3 DEF ordered
<1> QED
  BY <1>1, <1>2, <1>5, <1>6, MeansNone DEF Agree

\* A call's bytes come behind those before them, or in front of them.
LEMMA AgreeStep ==
    ASSUME NEW b, NEW list, Agree(b, list), NEW s, NEW l, Means(s, l)
    PROVE  Agree(put(b, s), list \o <<l>>)
<1> DEFINE all == list \o <<l>>
<1>1. /\ b \in Buffers /\ list \in Seq(Seq(Hears))
      /\ Means(b.bytes, FlattenSeq(ordered(b, list)))
  BY DEF Agree
<1>2. s \in Seq(Byte) /\ l \in Seq(Hears)
  BY MeansType
<1>3. /\ put(b, s) \in Buffers /\ put(b, s).reverse = b.reverse
      /\ put(b, s).bytes = IF b.reverse THEN s \o b.bytes ELSE b.bytes \o s
  BY <1>1, <1>2, PutFacts
<1> DEFINE H == Seq(Hears)
<1>4. all = Append(list, l) /\ all \in Seq(H)
  <2> HIDE DEF H
  <2>1. list \in Seq(H) /\ l \in H
    BY <1>1, <1>2 DEF H
  <2> QED
    BY <2>1
<1> HIDE DEF all
<1>5. CASE b.reverse
  <2>1. Reverse(list) \in Seq(H) /\ Reverse(all) = <<l>> \o Reverse(list)
    <3> HIDE DEF H
    <3>1. list \in Seq(H) /\ l \in H
      BY <1>1, <1>2 DEF H
    <3> QED
      BY <1>4, <3>1, ReverseFacts
  <2>2. FlattenSeq(Reverse(all)) = l \o FlattenSeq(Reverse(list))
    BY <1>2, <2>1, FlattenFew
  <2>3. Means(b.bytes, FlattenSeq(Reverse(list)))
    BY <1>1, <1>5 DEF ordered
  <2>4. Means(s \o b.bytes, l \o FlattenSeq(Reverse(list)))
    BY <2>3, MeansJoin
  <2>5. ordered(put(b, s), all) = Reverse(all) /\ put(b, s).bytes = s \o b.bytes
    BY <1>3, <1>5 DEF ordered
  <2> QED
    BY <1>3, <1>4, <2>2, <2>4, <2>5 DEF Agree, all
<1>6. CASE ~b.reverse
  <2>1. FlattenSeq(all) = FlattenSeq(list) \o l
    BY <1>1, <1>2, <1>4, FlattenAppend
  <2>2. Means(b.bytes, FlattenSeq(list))
    BY <1>1, <1>6 DEF ordered
  <2>3. Means(b.bytes \o s, FlattenSeq(list) \o l)
    BY <2>2, MeansJoin
  <2>4. ordered(put(b, s), all) = all /\ put(b, s).bytes = b.bytes \o s
    BY <1>3, <1>6 DEF ordered
  <2> QED
    BY <1>3, <1>4, <2>1, <2>3, <2>4 DEF Agree, all
<1> QED
  BY <1>1, <1>5, <1>6 DEF Buffers

\* What is put into a buffer is part of what it holds.
LEMMA PutFits ==
    ASSUME NEW b \in Buffers, NEW s \in Seq(Byte), Len(put(b, s).bytes) \in Word
    PROVE  Len(s) \in Word /\ Len(b.bytes) \in Word
<1>1. /\ put(b, s).bytes = IF b.reverse THEN s \o b.bytes ELSE b.bytes \o s
      /\ b.bytes \in Seq(Byte)
  BY PutFacts DEF Buffers
<1>2. CASE b.reverse
  BY <1>1, <1>2, PartsFit
<1>3. CASE ~b.reverse
  BY <1>1, <1>3, PartsFit
<1> QED
  BY <1>2, <1>3

\* A writer call leaves the buffers buffers.
LEMMA TypeStep ==
    ASSUME OutType, Writes
    PROVE  OutType' /\ DOMAIN out' = DOMAIN out
<1>1. CASE Idles
  BY <1>1 DEF OutType, Idles
<1>2. ASSUME NEW s, NEW l, Wrote(s, l)
      PROVE  OutType' /\ DOMAIN out' = DOMAIN out
  <2>1. /\ s \in Seq(Byte) /\ out' = [k \in DOMAIN out |-> put(out[k], s)]
        /\ said' = said \o <<l>>
    BY <1>2 DEF Wrote, Stands
  <2>2. \A k \in DOMAIN out : put(out[k], s) \in Buffers
    BY <2>1, PutFacts DEF OutType
  <2>3. IsSeq(said')
    <3>1. IsSeq(<<l>>)
      <4> DEFINE S == {l}
      <4>1. l \in S
        OBVIOUS
      <4> HIDE DEF S
      <4>2. <<l>> \in Seq(S)
        BY <4>1
      <4> QED
        BY <4>2, SeqOverSet
    <3> QED
      BY <2>1, <3>1, ConcatFacts DEF OutType
  <2>4. DOMAIN out' = DOMAIN out /\ \A k \in DOMAIN out : out'[k] = put(out[k], s)
    BY <2>1
  <2>5. out' = [k \in DOMAIN out' |-> out'[k]]
    BY <2>1, <2>4
  <2> QED
    BY <2>2, <2>3, <2>4, <2>5 DEF OutType
<1>3. ASSUME NEW s, NEW t, NEW l, NEW m, WroteTwice(s, t, l, m)
      PROVE  OutType' /\ DOMAIN out' = DOMAIN out
  <2>1. /\ s \in Seq(Byte) /\ t \in Seq(Byte)
        /\ out' = [k \in DOMAIN out |-> put(put(out[k], s), t)]
        /\ said' = said \o <<l, m>>
    BY <1>3 DEF WroteTwice, Stands
  <2>2. \A k \in DOMAIN out : put(out[k], s) \in Buffers
    BY <2>1, PutFacts DEF OutType
  <2>6. \A k \in DOMAIN out : put(put(out[k], s), t) \in Buffers
    BY <2>1, <2>2, PutFacts
  <2>3. IsSeq(said')
    <3>1. IsSeq(<<l, m>>)
      <4> DEFINE S == {l, m}
      <4>1. l \in S /\ m \in S
        OBVIOUS
      <4> HIDE DEF S
      <4>2. <<l, m>> \in Seq(S)
        BY <4>1
      <4> QED
        BY <4>2, SeqOverSet
    <3> QED
      BY <2>1, <3>1, ConcatFacts DEF OutType
  <2>4. DOMAIN out' = DOMAIN out /\ \A k \in DOMAIN out : out'[k] = put(put(out[k], s), t)
    BY <2>1
  <2>5. out' = [k \in DOMAIN out' |-> out'[k]]
    BY <2>1, <2>4
  <2> QED
    BY <2>6, <2>3, <2>4, <2>5 DEF OutType
<1> QED
  BY <1>1, <1>2, <1>3 DEF Writes

\* A writer call says what its bytes mean.
LEMMA SaysStep ==
    ASSUME OneofsPlain, OutType, Writes, \A k \in DOMAIN out : Len(out'[k].bytes) \in Word,
           NEW k \in DOMAIN out, Agree(out[k], said)
    PROVE  Agree(out'[k], said')
<1>1. CASE Idles
  BY <1>1 DEF Idles
<1>2. ASSUME NEW s, NEW l, Wrote(s, l)
      PROVE  Agree(out'[k], said')
  <2>1. /\ Stands(s, l) /\ s \in Seq(Byte) /\ out'[k] = put(out[k], s)
        /\ said' = said \o <<l>>
    BY <1>2 DEF Wrote, Stands
  <2>2. Len(s) \in Word
    BY <2>1, PutFits DEF OutType
  <2>3. Means(s, l)
    BY <2>1, <2>2 DEF Stands
  <2> QED
    BY <2>1, <2>3, AgreeStep
<1>3. ASSUME NEW s, NEW t, NEW l, NEW m, WroteTwice(s, t, l, m)
      PROVE  Agree(out'[k], said')
  <2>1. /\ Stands(s, l) /\ s \in Seq(Byte) /\ Stands(t, m) /\ t \in Seq(Byte)
        /\ out'[k] = put(put(out[k], s), t)
        /\ said' = said \o <<l, m>>
    BY <1>3 DEF WroteTwice, Stands
  <2>2. put(out[k], s) \in Buffers /\ out[k] \in Buffers
    BY <2>1, PutFacts DEF OutType
  <2>3. Len(t) \in Word /\ Len(put(out[k], s).bytes) \in Word
    BY <2>1, <2>2, PutFits
  <2>4. Len(s) \in Word
    BY <2>1, <2>2, <2>3, PutFits
  <2>5. Means(s, l) /\ Means(t, m)
    BY <2>1, <2>3, <2>4 DEF Stands
  <2>6. Agree(put(put(out[k], s), t), (said \o <<l>>) \o <<m>>)
    <3>1. Agree(put(out[k], s), said \o <<l>>)
      BY <2>5, AgreeStep
    <3> QED
      BY <2>5, <3>1, AgreeStep
  <2>7. (said \o <<l>>) \o <<m>> = said \o <<l, m>>
    <3>1. PICK S : S = ToSet(said) \cup {l, m}
      OBVIOUS
    <3>2. said \in Seq(S)
      <4>1. PICK T : T = ToSet(said)
        OBVIOUS
      <4>2. said \in Seq(T) /\ T \subseteq S
        BY <3>1, <4>1 DEF OutType, IsSeq
      <4> QED
        BY ONLY <4>2
    <3>3. l \in S /\ m \in S
      BY <3>1
    <3>4. <<l>> \in Seq(S) /\ <<m>> \in Seq(S)
      BY ONLY <3>3
    <3>5. (said \o <<l>>) \o <<m>> = said \o (<<l>> \o <<m>>)
      BY <3>2, <3>4, ConcatAssociative
    <3> QED
      BY <3>5, PairConcat
  <2> QED
    BY <2>1, <2>6, <2>7
<1> QED
  BY <1>1, <1>2, <1>3 DEF Writes

-----------------------------------------------------------------------------
(* The program at work. *)

\* The names of the buffers, which stay.
Named == OutType /\ "none" \notin DOMAIN out

\* What a program keeps: every buffer means what was said, and what the decoder
\* yielded with what it has left is what there is in the buffer it reads.
ProgramInv ==
    /\ Named
    /\ \A k \in DOMAIN out : Agree(out[k], said)
    /\ reading = "none" => got = << >> /\ failed = "none" /\ res = "not called"
    /\ reading # "none" =>
          /\ reading \in DOMAIN out
          /\ schema = S0 /\ buf \in Seq(Byte) /\ got \in Seq(Yields(schema))
          /\ Drained /\ ReadsOn(out[reading].bytes)

\* What a program writes to at first.
LEMMA OutInit ==
    ASSUME RoundTripInit
    PROVE  /\ Named
           /\ \A k \in DOMAIN out : \E r, c \in BOOLEAN : out[k] = Buffer(r, c)
<1>1. IsSeq(said)
  <2>1. << >> \in Seq({})
    BY EmptySeq
  <2> QED
    BY <2>1, SeqOverSet DEF RoundTripInit
<1>2. \A r, c \in BOOLEAN : Buffer(r, c) \in Buffers
  <2>1. << >> \in Seq(Byte)
    BY EmptySeq
  <2> QED
    BY <2>1 DEF Buffer, Buffers
<1>3. CASE out = Forward
  <2>1. DOMAIN out = {"forward"} /\ out["forward"] = Buffer(FALSE, FALSE)
        /\ out = [k \in DOMAIN out |-> out[k]]
    BY <1>3 DEF Forward
  <2> QED
    BY <1>1, <1>2, <2>1 DEF Named, OutType
<1>4. CASE out = Each
  <2>3. /\ DOMAIN out = {"forward", "claiming", "mirroring"}
        /\ out["forward"] = Buffer(FALSE, FALSE)
        /\ out["claiming"] = Buffer(TRUE, TRUE)
        /\ out["mirroring"] = Buffer(TRUE, FALSE)
        /\ out = [k \in DOMAIN out |-> out[k]]
    BY <1>4 DEF Each
  <2> QED
    BY <1>1, <1>2, <2>3 DEF Named, OutType
<1> QED
  BY <1>3, <1>4 DEF RoundTripInit

\* A program starts with what it keeps.
LEMMA ProgramInit ==
    ASSUME RoundTripInit
    PROVE  ProgramInv
<1>1. \A k \in DOMAIN out : Agree(out[k], said)
  BY OutInit, AgreeNone DEF RoundTripInit
<1> QED
  BY <1>1, OutInit DEF RoundTripInit, Init, ProgramInv

\* A program decodes in the end.
LEMMA DecodeStep ==
    ASSUME ProgramInv, Decode
    PROVE  ProgramInv'
<1>1. PICK k \in DOMAIN out :
          /\ reading' = k
          /\ buf' = out[k].bytes
          /\ schema' = S0
          /\ UNCHANGED <<got, failed, res, turn, out, said, calls>>
  BY DEF Decode, S0
<1>2. reading = "none" /\ got = << >> /\ failed = "none" /\ res = "not called"
      /\ Named /\ \A j \in DOMAIN out : Agree(out[j], said)
  BY DEF ProgramInv, Decode
<1>3. out[k].bytes \in Seq(Byte) /\ k # "none"
  BY <1>2 DEF Named, OutType, Buffers
<1>4. /\ << >> \in Seq(Yields(S0))
      /\ \A g, e : Reads(S0, out[k].bytes, g, e) => Reads(S0, out[k].bytes, << >> \o g, e)
  BY Fresh
<1>5. Drained' /\ ReadsOn(out[reading].bytes)'
  BY <1>1, <1>2, <1>4 DEF Drained, ReadsOn
<1>6. Named' /\ (\A j \in DOMAIN out : Agree(out[j], said))'
  BY <1>1, <1>2 DEF Named, OutType
<1> QED
  BY <1>1, <1>3, <1>4, <1>2, <1>5, <1>6 DEF ProgramInv

\* The decoder is called.
LEMMA ReadStep ==
    ASSUME ProgramInv, ReadNext
    PROVE  ProgramInv'
<1>1. PICK all : all = out[reading].bytes
  OBVIOUS
<1>2. /\ reading # "none" /\ Next /\ UNCHANGED programVars
      /\ reading \in DOMAIN out
      /\ schema = S0 /\ buf \in Seq(Byte) /\ got \in Seq(Yields(schema))
      /\ Drained /\ ReadsOn(all)
      /\ Named /\ \A j \in DOMAIN out : Agree(out[j], said)
  BY <1>1 DEF ProgramInv, ReadNext
<1>3. /\ schema' = schema /\ buf' \in Seq(Byte) /\ got' \in Seq(Yields(schema))
      /\ Drained' /\ ReadsOn(all)'
  BY <1>2, CallStep
<1>4. out' = out /\ said' = said /\ reading' = reading
  BY <1>2 DEF programVars
<1>5. ReadsOn(out[reading].bytes)'
  BY <1>1, <1>3, <1>4 DEF ReadsOn
<1>6. Named' /\ (\A j \in DOMAIN out : Agree(out[j], said))'
  BY <1>2, <1>4 DEF Named, OutType
<1> QED
  BY <1>2, <1>3, <1>4, <1>5, <1>6 DEF ProgramInv

\* A call writes.
LEMMA WriteStep ==
    ASSUME OneofsPlain, ProgramInv, WriterCalls
    PROVE  ProgramInv'
<1>1. /\ reading = "none" /\ UNCHANGED <<vars, reading>>
      /\ \A k \in DOMAIN out : Len(out'[k].bytes) \in Word
  BY CallsAreQuiet
<1>2. Named /\ OutType /\ \A k \in DOMAIN out : Agree(out[k], said)
  BY DEF ProgramInv, Named
<1>3. Writes
  BY <1>2, CallsWrite
<1>4. OutType' /\ DOMAIN out' = DOMAIN out
  BY <1>2, <1>3, TypeStep
<1>5. \A k \in DOMAIN out : Agree(out'[k], said')
  BY <1>1, <1>2, <1>3, SaysStep
<1>6. reading' = "none" /\ got' = << >> /\ failed' = "none" /\ res' = "not called"
  BY <1>1 DEF ProgramInv, vars
<1> QED
  BY <1>2, <1>4, <1>5, <1>6 DEF ProgramInv, Named

\* The steps of a program are those of its calls, of Decode and of the decoder.
LEMMA ProgramSteps ==
    RoundTripNext <=> WriterCalls \/ Decode \/ ReadNext
BY DEF RoundTripNext, WriterCalls

\* No step of a program changes what it keeps.
LEMMA ProgramStep ==
    ASSUME OneofsPlain, ProgramInv, [RoundTripNext]_<<vars, programVars>>
    PROVE  ProgramInv'
<1>1. CASE UNCHANGED <<vars, programVars>>
  <2>1. schema' = schema /\ buf' = buf /\ got' = got /\ failed' = failed /\ res' = res
        /\ out' = out /\ said' = said /\ reading' = reading
    BY <1>1 DEF vars, programVars
  <2>2. Named' /\ (\A j \in DOMAIN out : Agree(out[j], said))'
    BY <2>1 DEF ProgramInv, Named, OutType
  <2>3. (reading # "none" => Drained /\ ReadsOn(out[reading].bytes))'
    BY <2>1 DEF ProgramInv, Drained, ReadsOn
  <2> QED
    BY <2>1, <2>2, <2>3 DEF ProgramInv
<1> QED
  BY <1>1, ProgramSteps, WriteStep, DecodeStep, ReadStep

\* What the decoder returned is what the buffer means.
LEMMA FinishedReads ==
    ASSUME ProgramInv
    PROVE  ReadsBack
<1> SUFFICES ASSUME Finished
             PROVE  failed = "none" /\ HeardAll = FlattenSeq(ordered(out[reading], said))
  BY DEF ReadsBack
<1>1. PICK all : all = out[reading].bytes
  OBVIOUS
<1> DEFINE fields == FlattenSeq(ordered(out[reading], said))
<1>2. /\ schema = S0 /\ got \in Seq(Yields(schema)) /\ Drained /\ ReadsOn(all) /\ res = "none"
      /\ Means(all, fields)
  BY <1>1 DEF ProgramInv, Finished, Agree
<1> HIDE DEF fields
<1>3. Reads(schema, all, got, failed)
  BY <1>2, DoneIs
<1>4. PICK g : Reads(S0, all, g, "none") /\ fields = HearAll(g)
  BY <1>2 DEF Means
<1>5. Reads(S0, all, got, failed)
  BY <1>2, <1>3
<1>6. got = g /\ failed = "none"
  BY <1>4, <1>5, ReadsOneWay
<1>7. HeardAll = HearAll(got)
  BY <1>2, HeardIs DEF HeardAll, HearAll
<1> QED
  BY <1>4, <1>6, <1>7 DEF fields

\* What a call put into a buffer is what it added to it.
LEMMA AddedIs ==
    ASSUME OutType, NEW s \in Seq(Byte), out' = [k \in DOMAIN out |-> put(out[k], s)],
           NEW k \in DOMAIN out
    PROVE  Added(k) = s
<1> DEFINE b == out[k]
           n == Len(out'[k].bytes) - Len(out[k].bytes)
<1>1. b \in Buffers /\ out'[k] = put(b, s)
  BY DEF OutType
<1>2. out'[k].bytes = IF b.reverse THEN s \o b.bytes ELSE b.bytes \o s
  BY <1>1, PutFacts
<1>3. b.bytes \in Seq(Byte) /\ Len(b.bytes) \in Nat /\ Len(s) \in Nat
  BY <1>1 DEF Buffers
<1>4. CASE b.reverse
  <2>1. Len(s \o b.bytes) = Len(s) + Len(b.bytes)
    BY <1>3, ConcatProperties
  <2>2. n = Len(s)
    <3>1. out'[k].bytes = s \o b.bytes /\ out[k].bytes = b.bytes
      BY <1>2, <1>4
    <3>2. n = Len(s \o b.bytes) - Len(b.bytes)
      BY <3>1
    <3>3. Len(s) + Len(b.bytes) - Len(b.bytes) = Len(s)
      BY ONLY <1>3
    <3> QED
      BY <2>1, <3>2, <3>3
  <2>3. SubSeq(s \o b.bytes, 1, Len(s)) = s
    BY <1>3, BehindConcat
  <2> QED
    BY <1>2, <1>4, <2>2, <2>3 DEF Added
<1>5. CASE ~b.reverse
  <2>1. After(b.bytes \o s, Len(b.bytes)) = s
    BY <1>3, BehindConcat
  <2> QED
    BY <1>2, <1>5, <2>1 DEF Added
<1> QED
  BY <1>1, <1>4, <1>5 DEF Buffers

\* A call that says one run of fields adds the same to every buffer.
LEMMA SameAdded ==
    ASSUME OutType, Writes, Len(said') = Len(said) + 1, out' # out, NEW k \in DOMAIN out
    PROVE  Added(k) = Added("forward")
<1>1. CASE Idles
  BY <1>1 DEF Idles
<1>2. ASSUME NEW s, NEW l, Wrote(s, l)
      PROVE  Added(k) = Added("forward")
  <2>1. s \in Seq(Byte) /\ out' = [j \in DOMAIN out |-> put(out[j], s)]
    BY <1>2 DEF Wrote, Stands
  <2>2. "forward" \in DOMAIN out
    BY DEF OutType
  <2>3. \A j \in DOMAIN out : Added(j) = s
    BY <2>1, AddedIs
  <2> QED
    BY <2>2, <2>3
<1>3. ASSUME NEW s, NEW t, NEW l, NEW m, WroteTwice(s, t, l, m)
      PROVE  FALSE
  <2>1. said' = said \o <<l, m>> /\ IsSeq(said)
    BY <1>3 DEF WroteTwice, OutType
  <2>2. IsSeq(<<l, m>>) /\ Len(<<l, m>>) = 2
    <3> DEFINE S == {l, m}
    <3>1. l \in S /\ m \in S
      OBVIOUS
    <3> HIDE DEF S
    <3>2. <<l, m>> \in Seq(S) /\ Len(<<l, m>>) = 2
      BY <3>1
    <3> QED
      BY <3>2, SeqOverSet
  <2>3. Len(said') = Len(said) + Len(<<l, m>>) /\ Len(said) \in Nat
    BY <2>1, <2>2, ConcatFacts, SeqFacts
  <2> QED
    BY <2>2, <2>3
<1> QED
  BY <1>1, <1>2, <1>3 DEF Writes

-----------------------------------------------------------------------------
(***************************************************************************)
(* What a program writes is what its reader gets, in every kind of buffer, *)
(* in nested messages and entries too, for every schema, all values and    *)
(* any number of calls, if no member of a oneof streams its text           *)
(* (field.rs, all writers; field_enum.rs, next).                           *)
(***************************************************************************)
THEOREM ReadsWhatWasWritten ==
    ASSUME OneofsPlain
    PROVE  RoundTripSpec => []ReadsBack
<1>1. RoundTripInit => ProgramInv
  BY ProgramInit
<1>2. ProgramInv /\ [RoundTripNext]_<<vars, programVars>> => ProgramInv'
  BY ProgramStep
<1>3. ProgramInv => ReadsBack
  BY FinishedReads
<1> QED
  BY <1>1, <1>2, <1>3, PTL DEF RoundTripSpec

(***************************************************************************)
(* A writer call that writes one run of fields writes the same bytes into  *)
(* every kind of buffer, whatever it writes (field.rs write_exact,         *)
(* write_entry, write_msg).                                                *)
(***************************************************************************)
THEOREM SameInEveryBuffer == RoundTripSpec => DirectionsAgree
<1>1. RoundTripInit => OutType
  BY OutInit DEF Named
<1>2. ASSUME OutType, RoundTripNext
      PROVE  Writes \/ (out' = out /\ said' = said)
  <2>1. CASE WriterCalls
    BY <1>2, <2>1, CallsWrite
  <2>2. CASE Decode
    BY <2>2 DEF Decode
  <2>3. CASE ReadNext
    BY <2>3 DEF ReadNext, programVars
  <2> QED
    BY <1>2, <2>1, <2>2, <2>3, ProgramSteps
<1>3. OutType /\ [RoundTripNext]_<<vars, programVars>> => OutType'
  <2>1. ASSUME OutType, out' = out /\ said' = said
        PROVE  OutType'
    BY <2>1 DEF OutType
  <2> QED
    BY <1>2, <2>1, TypeStep DEF programVars
<1>4. OutType /\ [RoundTripNext]_<<vars, programVars>> =>
          [Len(said') = Len(said) + 1 => \A k \in DOMAIN out : Added(k) = Added("forward")]_out
  <2> SUFFICES ASSUME OutType, [RoundTripNext]_<<vars, programVars>>, out' # out,
                      Len(said') = Len(said) + 1, NEW k \in DOMAIN out
               PROVE  Added(k) = Added("forward")
    OBVIOUS
  <2>1. Writes
    BY <1>2 DEF programVars
  <2> QED
    BY <2>1, SameAdded
<1> QED
  BY <1>1, <1>3, <1>4, PTL DEF RoundTripSpec, DirectionsAgree
=============================================================================
