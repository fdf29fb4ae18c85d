---------------------------- MODULE Reader_proofs ----------------------------
(***************************************************************************)
(* What is written and read on the wire, for every radix, number of        *)
(* groups, width and set of strings, and what a generated iterator makes   *)
(* of any bytes.                                                           *)
(*                                                                         *)
(* First the scalar values, whatever bytes follow them: two's complement   *)
(* and zigzag are undone by every type that has the value, little-endian   *)
(* digits add up to the number they were cut from, and a length is read    *)
(* back before the bytes it counts.  With VarintLemmas that gives the      *)
(* theorems of VarintCodec, where the input grows, and of ScalarCodec,     *)
(* where any value is followed by any bytes; their invariants only say     *)
(* that those are what they are.                                           *)
(*                                                                         *)
(* Then the iterator (FieldIter): what a reader of a schema makes of bytes *)
(* is a relation, Reads, the least that holds of the empty message and of  *)
(* one more field in front; it is a function of the bytes, and every call  *)
(* of next keeps what was yielded and what is left in it (ReadsOn).  The   *)
(* theorems of Upgrade relate the readings of several schemas and of parts *)
(* of the bytes.                                                           *)
(***************************************************************************)
EXTENDS VarintCodec, ScalarCodec, Upgrade, VarintLemmas

-----------------------------------------------------------------------------
(* Arithmetic of the casts. *)

\* A quotient and a remainder are what the division of an integer gives.
LEMMA IntQuotient ==
    ASSUME NEW m \in Nat \ {0}, NEW q \in Int, NEW r \in Nat, r < m
    PROVE  (m * q + r) % m = r
OBVIOUS

\* What the division of an integer leaves.
LEMMA IntDivision ==
    ASSUME NEW m \in Nat \ {0}, NEW x \in Int
    PROVE  x = m * (x \div m) + (x % m) /\ x % m \in 0..(m - 1) /\ x \div m \in Int
OBVIOUS

\* Truncating a wider cast is the narrower cast.
LEMMA CastTwice ==
    ASSUME NEW m \in Nat \ {0}, NEW k \in Nat \ {0}, NEW x \in Int
    PROVE  (x % (m * k)) % m = x % m
<1> DEFINE n == m * k
           q == x \div n
           r == x % n
           e == r \div m
           s == r % m
<1>1. n \in Nat \ {0}
  OBVIOUS
<1>2. x = n * q + r /\ r \in Nat /\ q \in Int
  <2> HIDE DEF n
  <2> QED
    BY <1>1, IntDivision
<1> HIDE DEF q, r
<1>3. r = m * e + s /\ s \in Nat /\ s < m /\ e \in Int
  BY <1>2, IntDivision
<1> HIDE DEF e, s
<1>4. x = m * (k * q + e) + s /\ k * q + e \in Int
  <2>1. n * q = m * (k * q)
    BY <1>2
  <2>2. m * (k * q + e) = m * (k * q) + m * e
    BY <1>2, <1>3
  <2> QED
    BY <1>2, <1>3, <2>1, <2>2
<1> DEFINE c == k * q + e
<1>5. c \in Int /\ x = m * c + s
  BY <1>4
<1> HIDE DEF c
<1>6. x % m = s
  BY <1>3, <1>5, IntQuotient
<1> QED
  BY <1>6 DEF r, s

\* The value of a signed type is what its bits are cast back to.
LEMMA SignedBack ==
    ASSUME NEW m \in Nat \ {0}, NEW x \in SignedRange(m), NEW u \in Int, u % m = x % m
    PROVE  Signed(u, m) = x
<1>1. m \div 2 \in Nat /\ 2 * (m \div 2) <= m /\ m <= 2 * (m \div 2) + 1
  OBVIOUS
<1>2. x >= 0 => x % m = x
  BY <1>1 DEF SignedRange
<1>3. x < 0 => x % m = x + m
  BY <1>1 DEF SignedRange
<1>4. Signed(u, m) = IF 2 * (x % m) >= m THEN (x % m) - m ELSE x % m
  BY DEF Signed
<1> QED
  BY <1>1, <1>2, <1>3, <1>4 DEF SignedRange

\* The value behind a zigzag.
LEMMA ZigzagBack ==
    ASSUME NEW m \in Nat \ {0}, NEW x \in SignedRange(m)
    PROVE  zigzag(x, m) \in 0..(m - 1) /\ unzigzag(zigzag(x, m)) = x
<1>1. m \div 2 \in Nat /\ 2 * (m \div 2) <= m /\ m <= 2 * (m \div 2) + 1
  OBVIOUS
<1>2. x >= 0 => zigzag(x, m) = 2 * x
  BY <1>1 DEF SignedRange, zigzag
<1>3. x < 0 => zigzag(x, m) = -2 * x - 1
  BY <1>1 DEF SignedRange, zigzag
<1>4. x < 0 => (-2 * x - 1) % 2 = 1 /\ (-2 * x - 1) \div 2 = -x - 1
  BY DEF SignedRange
<1>5. x >= 0 => (2 * x) % 2 = 0 /\ (2 * x) \div 2 = x
  BY DEF SignedRange
<1>6. zigzag(x, m) \in 0..(m - 1)
  BY <1>1, <1>2, <1>3 DEF SignedRange
<1> QED
  BY <1>2, <1>3, <1>4, <1>5, <1>6 DEF SignedRange, unzigzag

\* A zigzag does not depend on the width, where the value fits both.
LEMMA ZigzagSame ==
    ASSUME NEW m \in Nat \ {0}, NEW n \in Nat \ {0},
           NEW x, x \in SignedRange(m), x \in SignedRange(n)
    PROVE  zigzag(x, m) = zigzag(x, n)
<1>1. /\ m \div 2 \in Nat /\ 2 * (m \div 2) <= m /\ m <= 2 * (m \div 2) + 1
      /\ n \div 2 \in Nat /\ 2 * (n \div 2) <= n /\ n <= 2 * (n \div 2) + 1
  OBVIOUS
<1>2. x \in Int
  BY DEF SignedRange
<1>3. x >= 0 => zigzag(x, m) = 2 * x /\ zigzag(x, n) = 2 * x
  BY <1>1, <1>2 DEF SignedRange, zigzag
<1>4. x < 0 => zigzag(x, m) = -2 * x - 1 /\ zigzag(x, n) = -2 * x - 1
  BY <1>1, <1>2 DEF SignedRange, zigzag
<1> QED
  BY <1>2, <1>3, <1>4

\* Exponents add up.
LEMMA PowerSum ==
    ASSUME NEW b \in Nat \ {0}, NEW i \in Nat, NEW j \in Nat
    PROVE  Power(b, i + j) = Power(b, i) * Power(b, j)
<1> DEFINE T == {k \in Nat : Power(b, i + k) = Power(b, i) * Power(b, k)}
<1>1. 0 \in T
  <2>1. Power(b, 0) = 1 /\ Power(b, i) \in Nat /\ i + 0 = i
    BY PowerDef
  <2> QED
    BY <2>1
<1>2. ASSUME NEW k \in Nat, k \in T
      PROVE  k + 1 \in T
  <2>1. i + k \in Nat /\ i + (k + 1) = (i + k) + 1
    OBVIOUS
  <2>2. Power(b, (i + k) + 1) = b * Power(b, i + k) /\ Power(b, k + 1) = b * Power(b, k)
    BY <2>1, PowerDef
  <2> DEFINE p == Power(b, i)
             q == Power(b, k)
  <2>3. p \in Nat /\ q \in Nat /\ Power(b, i + k) = p * q
    BY <1>2, PowerDef
  <2> HIDE DEF p, q
  <2>4. b * (p * q) = p * (b * q)
    BY <2>3
  <2>5. Power(b, i + (k + 1)) = p * Power(b, k + 1)
    BY <2>1, <2>2, <2>3, <2>4 DEF q
  <2> QED
    BY <2>5 DEF p
<1> HIDE DEF T
<1>3. Nat \subseteq T
  BY <1>1, <1>2, SetInduction
<1> QED
  BY <1>3 DEF T

\* What 32 and 64 bits hold.
LEMMA Widths ==
    /\ U32 \in Nat \ {0} /\ U64 \in Nat \ {0} /\ U32 <= U64 /\ U32 >= 2
    /\ Word = 0..(U64 - 1)
    /\ ByteRadix \in Nat \ {0} /\ Byte = 0..(ByteRadix - 1)
    /\ \E k \in Nat \ {0} : U64 = U32 * k
<1>1. ByteRadix \in Nat \ {0} /\ ByteRadix >= 2 /\ Byte = 0..(ByteRadix - 1)
  BY VarintAssumption DEF ByteRadix, Byte
<1>2. Word = 0..(U64 - 1)
  BY ScalarsAssumption DEF Word
<1>3. Bytes32 \in Nat \ {0} /\ Bytes64 \in Nat \ {0} /\ Bytes64 - Bytes32 \in Nat
      /\ Bytes32 + (Bytes64 - Bytes32) = Bytes64
  BY ScalarsAssumption
<1> DEFINE k == Power(ByteRadix, Bytes64 - Bytes32)
           m == U32
           n == U64
<1>4. m \in Nat \ {0} /\ n \in Nat \ {0} /\ k \in Nat \ {0}
  <2>1. ByteRadix \in Nat /\ ByteRadix >= 1 /\ Bytes32 \in Nat /\ Bytes64 \in Nat
    BY <1>1, <1>3
  <2>2. /\ Power(ByteRadix, Bytes32) \in Nat \ {0} /\ Power(ByteRadix, Bytes64) \in Nat \ {0}
        /\ k \in Nat \ {0}
    BY <1>3, <2>1, PowerPositive
  <2> QED
    BY <2>2 DEF U32, U64
<1>5. n = m * k
  BY <1>1, <1>3, PowerSum DEF U32, U64
<1>6. m >= 2
  <2>1. Power(ByteRadix, 1) <= Power(ByteRadix, Bytes32)
    BY <1>1, <1>3, PowerMonotone
  <2>2. Power(ByteRadix, 0 + 1) = ByteRadix * Power(ByteRadix, 0) /\ Power(ByteRadix, 0) = 1
    BY <1>1, PowerDef
  <2> QED
    BY <1>1, <1>4, <2>1, <2>2 DEF U32
<1> HIDE DEF k, m, n
<1>7. m <= n
  BY <1>4, <1>5
<1> QED
  BY <1>1, <1>2, <1>4, <1>5, <1>6, <1>7 DEF m, n

-----------------------------------------------------------------------------
(* Fixed-width numbers. *)

\* A little-endian number is the last of the sums of its digits.
LEMMA FromLittleEndianDef ==
    ASSUME NEW n \in Nat, NEW s, \A i \in 1..n : s[i] \in 0..(ByteRadix - 1)
    PROVE  \E sum : DigitSums(sum, n, ByteRadix, s) /\ FromLittleEndian(s, n) = sum[n]
<1> DEFINE B == ByteRadix
           Is(f) == f = [i \in 0..n |-> IF i = 0 THEN 0
                                        ELSE f[i - 1] + s[i] * Power(B, i - 1)]
           sum == CHOOSE f : Is(f)
<1>1. B \in Nat \ {0} /\ \A i \in 1..n : s[i] \in Nat
  BY Widths
<1>2. FromLittleEndian(s, n) = sum[n]
  BY DEF FromLittleEndian
<1> HIDE DEF B
<1>3. \E f : Is(f)
  <2>1. PICK f \in [0..n -> Nat] : DigitSums(f, n, B, s)
    BY <1>1, SumExists
  <2>2. f = [i \in 0..n |-> f[i]]
    BY <2>1
  <2>3. \A i \in 0..n : f[i] = IF i = 0 THEN 0 ELSE f[i - 1] + s[i] * Power(B, i - 1)
    BY <2>1 DEF DigitSums
  <2> QED
    BY <2>2, <2>3
<1>4. Is(sum)
  BY <1>3
<1> HIDE DEF sum
<1>5. \A i \in 0..n : sum[i] = IF i = 0 THEN 0 ELSE sum[i - 1] + s[i] * Power(B, i - 1)
  BY <1>4
<1>6. DigitSums(sum, n, B, s)
  BY <1>5 DEF DigitSums
<1> QED
  BY <1>2, <1>6 DEF B

\* A number's bytes are as many as its type has, and are read as the number they are cut from.
LEMMA LittleEndianBack ==
    ASSUME NEW n \in Nat, NEW x \in Int
    PROVE  /\ LittleEndian(x, n) \in Seq(Byte) /\ Len(LittleEndian(x, n)) = n
           /\ FromLittleEndian(LittleEndian(x, n), n) = x % Power(ByteRadix, n)
<1> DEFINE B == ByteRadix
           m == Power(B, n)
           u == x % m
           s == LittleEndian(x, n)
<1>1. B \in Nat \ {0} /\ B \in Nat /\ B >= 1 /\ Byte = 0..(B - 1)
  BY Widths
<1>2. s = [i \in 1..n |-> (u \div Power(B, i - 1)) % B]
  BY DEF LittleEndian
<1> HIDE DEF B, s
<1>3. m \in Nat \ {0}
  BY <1>1, PowerPositive
<1>4. u \in Nat /\ u < m
  <2> HIDE DEF m
  <2> QED
    BY <1>3
<1> HIDE DEF u, m
<1>5. \A i \in 1..n : (u \div Power(B, i - 1)) % B \in 0..(B - 1)
  <2> TAKE i \in 1..n
  <2> DEFINE p == Power(B, i - 1)
  <2>1. p \in Nat \ {0}
    BY <1>1, PowerPositive, i - 1 \in Nat
  <2> HIDE DEF p
  <2>2. (u \div p) % B \in 0..(B - 1)
    BY <1>1, <1>4, <2>1
  <2> QED
    BY <2>2 DEF p
<1>6. s \in Seq(Byte) /\ Len(s) = n
  <2>1. s \in [1..n -> Byte]
    BY <1>1, <1>2, <1>5
  <2> QED
    BY <2>1
<1>7. \A i \in 1..n : s[i] \in 0..(B - 1)
  BY <1>2, <1>5
<1>8. DigitsOf(s, n, B, u)
  BY <1>2 DEF DigitsOf
<1>9. PICK sum : DigitSums(sum, n, B, s) /\ FromLittleEndian(s, n) = sum[n]
  BY <1>7, FromLittleEndianDef DEF B
<1>10. sum[n] = u % m
  <2>1. n \in 0..n
    OBVIOUS
  <2>2. sum[n] = u % Power(B, n)
    BY <1>1, <1>4, <1>8, <1>9, <2>1, DigitsAdd
  <2> QED
    BY <2>2 DEF m
<1>11. u % m = u
  BY <1>3, <1>4
<1> QED
  BY <1>6, <1>9, <1>10, <1>11 DEF s, u, m, B

-----------------------------------------------------------------------------
(* What a type's value is cast to and from. *)

Cast == {"Int32", "Int64", "Uint32", "Uint64", "Bool", "PbEnum"}
Zigzagged == {"Sint32", "Sint64"}

\* Types with one wire form.
SameForm(p, q) ==
    \/ p \in Cast /\ q \in Cast
    \/ p \in Zigzagged /\ q \in Zigzagged
    \/ p \in Fixed32Scalars /\ q \in Fixed32Scalars
    \/ p \in Fixed64Scalars /\ q \in Fixed64Scalars
    \/ p \in LenScalars /\ q \in LenScalars

\* The values of a type that is written as a varint.
LEMMA CastValues ==
    /\ Numbers("Int32") = SignedRange(U32) /\ Numbers("PbEnum") = SignedRange(U32)
    /\ Numbers("Int64") = SignedRange(U64)
    /\ Numbers("Uint32") = 0..(U32 - 1) /\ Numbers("Uint64") = 0..(U64 - 1)
    /\ Numbers("Bool") = 0..1
    /\ Numbers("Sint32") = SignedRange(U32) /\ Numbers("Sint64") = SignedRange(U64)
BY DEF Numbers

\* The values of a cast type are integers.
LEMMA CastType ==
    ASSUME NEW p \in Cast, NEW x \in Numbers(p)
    PROVE  x \in Int
<1>1. U32 \in Nat /\ U64 \in Nat
  BY Widths
<1>2. \/ x \in SignedRange(U32) \/ x \in SignedRange(U64)
      \/ x \in 0..(U32 - 1) \/ x \in 0..(U64 - 1) \/ x \in 0..1
  BY CastValues DEF Cast
<1> QED
  BY <1>1, <1>2 DEF SignedRange

\* Sign-extended to 64 bits, a number is read back by any type that has it.
LEMMA CastBack ==
    ASSUME NEW p \in Cast, NEW q \in Cast, NEW x, x \in Numbers(p), x \in Numbers(q)
    PROVE  AsVarint(p, x) \in Word /\ FromVarint(q, AsVarint(p, x)) = x
<1>1. /\ U32 \in Nat \ {0} /\ U64 \in Nat \ {0} /\ U32 <= U64 /\ U32 >= 2
      /\ Word = 0..(U64 - 1)
  BY Widths
<1>2. x \in Int
  BY CastType
<1> DEFINE v == x % U64
<1>3. AsVarint(p, x) = v
  BY DEF AsVarint, Unsigned, Cast
<1>4. v \in 0..(U64 - 1) /\ v \in Nat
  BY <1>1, <1>2
<1>5. v % U32 = x % U32
  <2>1. PICK k \in Nat \ {0} : U64 = U32 * k
    BY Widths
  <2>2. (x % (U32 * k)) % U32 = x % U32
    BY <1>1, <1>2, CastTwice
  <2> QED
    BY <2>1, <2>2
<1>6. x \in 0..(U64 - 1) => v = x
  BY <1>1
<1> HIDE DEF v
<1>7. v % U64 = v
  BY <1>1, <1>4
<1>8. CASE q \in {"Int32", "PbEnum"}
  <2>1. x \in SignedRange(U32) /\ v \in Int
    BY <1>4, <1>8, CastValues
  <2>2. Signed(v, U32) = x
    BY <1>1, <1>5, <2>1, SignedBack
  <2>3. FromVarint(q, v) = Signed(v, U32)
    BY <1>8 DEF FromVarint
  <2> QED
    BY <1>1, <1>3, <1>4, <2>2, <2>3
<1>9. CASE q = "Int64"
  <2>1. x \in SignedRange(U64) /\ v \in Int /\ v % U64 = x % U64
    BY <1>4, <1>7, <1>9, CastValues DEF v
  <2>2. Signed(v, U64) = x
    BY <1>1, <2>1, SignedBack
  <2>3. FromVarint(q, v) = Signed(v, U64)
    BY <1>9 DEF FromVarint
  <2> QED
    BY <1>1, <1>3, <1>4, <2>2, <2>3
<1>10. CASE q = "Uint32"
  <2>1. x \in 0..(U32 - 1)
    BY <1>10, CastValues
  <2>2. x % U32 = x
    BY <1>1, <2>1
  <2>3. FromVarint(q, v) = v % U32
    BY <1>10 DEF FromVarint, Unsigned
  <2> QED
    BY <1>1, <1>3, <1>4, <1>5, <2>2, <2>3
<1>11. CASE q \in {"Uint64", "Bool"}
  <2>1. x \in 0..(U64 - 1)
    BY <1>1, <1>11, CastValues
  <2>2. FromVarint(q, v) = IF q = "Bool" THEN (IF v = 0 THEN 0 ELSE 1) ELSE v
    BY <1>11 DEF FromVarint
  <2>3. q = "Bool" => x \in 0..1
    BY CastValues
  <2> QED
    BY <1>1, <1>3, <1>4, <1>6, <1>11, <2>1, <2>2, <2>3
<1> QED
  BY <1>8, <1>9, <1>10, <1>11 DEF Cast

\* So is a zigzag.
LEMMA ZigzagCastBack ==
    ASSUME NEW p \in Zigzagged, NEW q \in Zigzagged, NEW x, x \in Numbers(p), x \in Numbers(q)
    PROVE  AsVarint(p, x) \in Word /\ FromVarint(q, AsVarint(p, x)) = x
<1>1. /\ U32 \in Nat \ {0} /\ U64 \in Nat \ {0} /\ U32 <= U64
      /\ Word = 0..(U64 - 1)
  BY Widths
<1> DEFINE z == AsVarint(p, x)
<1>2. p = "Sint32" => x \in SignedRange(U32) /\ z = zigzag(x, U32)
  BY CastValues DEF AsVarint
<1>3. p = "Sint64" => x \in SignedRange(U64) /\ z = zigzag(x, U64)
  BY CastValues DEF AsVarint
<1>4. q = "Sint32" => x \in SignedRange(U32)
  BY CastValues
<1>5. q = "Sint64" => x \in SignedRange(U64)
  BY CastValues
<1> HIDE DEF z
<1>6. z \in 0..(U64 - 1)
  <2>1. p = "Sint32" => z \in 0..(U32 - 1)
    BY <1>1, <1>2, ZigzagBack
  <2>2. p = "Sint64" => z \in 0..(U64 - 1)
    BY <1>1, <1>3, ZigzagBack
  <2> QED
    BY <1>1, <2>1, <2>2 DEF Zigzagged
<1>7. CASE q = "Sint32"
  <2>1. z = zigzag(x, U32)
    BY <1>1, <1>2, <1>3, <1>4, <1>7, ZigzagSame DEF Zigzagged
  <2>2. z \in 0..(U32 - 1) /\ unzigzag(z) = x
    BY <1>1, <1>4, <1>7, <2>1, ZigzagBack
  <2>3. z % U32 = z
    BY <1>1, <2>2
  <2>4. FromVarint(q, z) = unzigzag(z % U32)
    BY <1>7 DEF FromVarint, Unsigned
  <2> QED
    BY <1>1, <1>6, <2>2, <2>3, <2>4 DEF z
<1>8. CASE q = "Sint64"
  <2>1. z = zigzag(x, U64)
    BY <1>1, <1>2, <1>3, <1>5, <1>8, ZigzagSame DEF Zigzagged
  <2>2. unzigzag(z) = x
    BY <1>1, <1>5, <1>8, <2>1, ZigzagBack
  <2>3. FromVarint(q, z) = unzigzag(z)
    BY <1>8 DEF FromVarint
  <2> QED
    BY <1>1, <1>6, <2>2, <2>3 DEF z
<1> QED
  BY <1>7, <1>8 DEF Zigzagged

-----------------------------------------------------------------------------
(* What is read of what was written. *)

\* A read that moves the cursor on.
LEMMA MovedOn ==
    ASSUME NEW y, NEW k \in Nat, NEW n \in Nat
    PROVE  /\ Moved(Read(y, k), n) = Read(y, k + n)
           /\ ~IsErr(Read(y, k)) /\ Read(y, k).value = y /\ Read(y, k).used = k
BY DEF Moved, Read, IsErr

\* What is behind the first bytes.
LEMMA BehindConcat ==
    ASSUME NEW c \in Seq(Byte), NEW s \in Seq(Byte)
    PROVE  /\ After(c \o s, Len(c)) = s
           /\ SubSeq(c \o s, 1, Len(c)) = c
           /\ Split(c \o s, Len(c)) = Read(c, Len(c))
<1> DEFINE t == c \o s
           n == Len(c)
           m == Len(t)
<1>1. /\ t \in Seq(Byte) /\ m = n + Len(s) /\ n \in Nat /\ Len(s) \in Nat
      /\ \A i \in 1..n : t[i] = c[i]
      /\ \A i \in 1..Len(s) : t[n + i] = s[i]
  OBVIOUS
<1>2. n + 1 \in Nat \ {0} /\ m \in Nat /\ m <= Len(t) /\ n + 1 <= m + 1
  BY <1>1
<1> DEFINE a == n + 1
           p == SubSeq(t, a, m)
           q == SubSeq(t, 1, n)
<1>3. a \in Nat \ {0} /\ a <= m + 1 /\ m - a + 1 = Len(s) /\ \A k \in 1..Len(s) : a + k - 1 = n + k
  BY <1>1, <1>2
<1>4. /\ p \in Seq(Byte) /\ Len(p) = m - a + 1
      /\ \A k \in 1..(m - a + 1) : p[k] = t[a + k - 1]
  <2> HIDE DEF a, t, n, m
  <2> QED
    BY <1>1, <1>2, <1>3, SubSeqProps
<1>5. p = s
  <2>1. \A k \in 1..Len(s) : p[k] = s[k]
    <3> HIDE DEF p, t, a, m, n
    <3> QED
      BY <1>1, <1>3, <1>4
  <2>2. IsSeq(p) /\ IsSeq(s) /\ Len(p) = Len(s)
    <3> HIDE DEF p, t, a, m, n
    <3> QED
      BY <1>3, <1>4, SeqOverSet
  <2> HIDE DEF p
  <2> QED
    BY <2>1, <2>2, SameSeq
<1>6. /\ q \in Seq(Byte) /\ Len(q) = n - 1 + 1
      /\ \A k \in 1..(n - 1 + 1) : q[k] = t[1 + k - 1]
  <2>1. 1 \in Nat \ {0} /\ n <= Len(t) /\ 1 <= n + 1 /\ n \in Nat
    BY <1>1
  <2> HIDE DEF t, n
  <2> QED
    BY <1>1, <2>1, SubSeqProps
<1>7. q = c
  <2>1. n - 1 + 1 = n /\ \A k \in 1..n : 1 + k - 1 = k
    BY <1>1
  <2>2. \A k \in 1..n : q[k] = c[k]
    <3> HIDE DEF q, t, n
    <3> QED
      BY <1>1, <1>6, <2>1
  <2>3. IsSeq(q) /\ IsSeq(c) /\ Len(q) = n
    <3> HIDE DEF q, t
    <3> QED
      BY <1>6, <2>1, SeqOverSet
  <2> HIDE DEF q
  <2> QED
    BY <2>2, <2>3, SameSeq
<1>8. Split(t, n) = Read(q, n)
  BY <1>1 DEF Split
<1> QED
  BY <1>5, <1>7, <1>8 DEF After

\* A varint and what follows it.
LEMMA VarintReads ==
    ASSUME NEW v \in Word, NEW s \in Seq(Byte)
    PROVE  LET w == write_varint(v) IN
           /\ w \in Seq(Byte) /\ Len(w) = encoded_len_varint(v) /\ Len(w) \in Nat
           /\ varint(w \o s) = Read(v, Len(w))
           /\ After(w \o s, Len(w)) = s
           /\ skip_varint(w \o s) = [ok |-> TRUE, used |-> Len(w)]
<1> DEFINE e == encoded_len_varint(v)
           w == write_wide_varint(e, v)
           t == w \o s
<1>1. e \in 1..MaxGroups /\ MaxGroups \in Nat /\ e \in e..MaxGroups /\ e \in Nat
  <2>1. encoded_len_varint(v) \in 1..MaxGroups
    BY EncodedLenType
  <2> HIDE DEF t, w
  <2> QED
    BY <2>1, VarintAssumption
<1>2. v \in Nat
  BY <1>1, ValueFits
<1>3. w \in Seq(Byte) /\ Len(w) = e
  <2> HIDE DEF e
  <2> QED
    BY <1>1, <1>2, WideType
<1>4. decode_varint(t) = Decoded(v, e)
  BY <1>1, WideDecodes
<1> HIDE DEF w
<1>5. t \in Seq(Byte)
  BY <1>3
<1> HIDE DEF t, e
<1>6. varint(t) = Read(v, e)
  BY <1>4 DEF varint, Decoded
<1>7. After(t, Len(w)) = s
  BY <1>3, BehindConcat DEF t
<1>8. skip_varint(t) = [ok |-> TRUE, used |-> e]
  <2> DEFINE c == Continued(t, Reach(t))
  <2>1. c < Reach(t) /\ c + 1 = e
    BY <1>4, <1>5, ReadingUsed DEF Decoded
  <2>2. skip_varint(t) = Skipped(t, Reach(t))
    BY DEF skip_varint, Reach
  <2> QED
    BY <2>1, <2>2 DEF Skipped
<1> QED
  BY <1>1, <1>3, <1>6, <1>7, <1>8 DEF write_varint, w, t, e

-----------------------------------------------------------------------------
(* A value is read back by every type of its wire form. *)

\* A word is read as the cast that a type makes of it.
LEMMA ReadsCast ==
    ASSUME NEW q \in VarintScalars, NEW v \in Word, NEW x, FromVarint(q, v) = x,
           NEW s \in Seq(Byte)
    PROVE  /\ write_varint(v) \in Seq(Byte) /\ Len(write_varint(v)) \in Nat
           /\ read(q, write_varint(v) \o s) = Read(x, Len(write_varint(v)))
<1> DEFINE w == write_varint(v)
           n == Len(w)
           t == w \o s
<1>1. w \in Seq(Byte) /\ n \in Nat /\ varint(t) = Read(v, n)
  BY VarintReads
<1> HIDE DEF t
<1>2. read(q, t) = read_varint(q, t)
  BY DEF read
<1> HIDE DEF n
<1>3. read_varint(q, t) = Moved(Read(x, 0), n)
  <2>1. ~IsErr(Read(v, n)) /\ Read(v, n).value = v /\ Read(v, n).used = n
    BY <1>1, MovedOn
  <2> QED
    BY <1>1, <2>1 DEF read_varint, Try
<1>4. Moved(Read(x, 0), n) = Read(x, 0 + n) /\ 0 + n = n
  BY <1>1, MovedOn
<1> QED
  BY <1>1, <1>2, <1>3, <1>4 DEF t, n

\* A string behind its length, however that is written.
LEMMA ReadsPrefixed ==
    ASSUME NEW c \in Seq(Byte), NEW x \in Seq(Byte), Len(x) \in Word, NEW s \in Seq(Byte),
           \A z \in Seq(Byte) : varint(c \o z) = Read(Len(x), Len(c))
    PROVE  LET w == c \o x IN
           /\ w \in Seq(Byte) /\ Len(w) = Len(c) + Len(x)
           /\ Len(w) \in Nat
           /\ decode_len(w \o s) = Read(x, Len(w))
           /\ \A q \in LenScalars : Holds(q, x) => read(q, w \o s) = Read(x, Len(w))
<1> DEFINE n == Len(x)
           k == Len(c)
           w == c \o x
           t == w \o s
<1>1. x \in Seq(Byte) /\ n \in Word /\ n \in Nat
  OBVIOUS
<1>2. x \o s \in Seq(Byte)
  BY <1>1
<1>3. /\ c \in Seq(Byte) /\ k \in Nat
      /\ varint(c \o (x \o s)) = Read(n, k)
      /\ After(c \o (x \o s), k) = x \o s
  <2>1. varint(c \o (x \o s)) = Read(Len(x), Len(c))
    BY <1>2
  <2>2. After(c \o (x \o s), Len(c)) = x \o s
    BY <1>2, BehindConcat
  <2> QED
    BY <2>1, <2>2
<1>4. Split(x \o s, n) = Read(x, n)
  BY <1>1, BehindConcat
<1>5. t = c \o (x \o s)
  BY <1>1, <1>3
<1>6. w \in Seq(Byte) /\ Len(w) = k + n
  <2>1. c \in Seq(Byte) /\ x \in Seq(Byte)
    BY <1>1, <1>3
  <2> QED
    BY <2>1, ConcatProps
<1> HIDE DEF n, k, w, t
<1>7. Moved(Read(x, n), k) = Read(x, k + n)
  <2>1. n + k = k + n
    BY <1>1, <1>3
  <2> QED
    BY <1>1, <1>3, <2>1, MovedOn
<1>8. decode_len(t) = Read(x, k + n)
  <2>1. ~IsErr(Read(n, k)) /\ Read(n, k).value = n /\ Read(n, k).used = k
    BY <1>1, <1>3, MovedOn
  <2>2. varint(t) = Read(n, k) /\ After(t, k) = x \o s
    BY <1>3, <1>5
  <2>3. decode_len(t) = Moved(Split(x \o s, n), k)
    BY <2>1, <2>2 DEF decode_len, Try
  <2> QED
    BY <1>4, <1>7, <2>3
<1> DEFINE m == k + n
<1>9. m \in Nat
  BY <1>1, <1>3
<1> HIDE DEF m
<1>10. ASSUME NEW q \in LenScalars, Holds(q, x)
       PROVE  read(q, t) = Read(x, m)
  <2>1. q \notin VarintScalars
    BY DEF LenScalars, VarintScalars
  <2>2. read(q, t) = read_len(q, t)
    BY <2>1 DEF read
  <2>3. ~IsErr(Read(x, m)) /\ Read(x, m).value = x /\ Read(x, m).used = m
    BY <1>9, MovedOn
  <2>4. read_len(q, t) = Moved(Read(x, 0), m)
    BY <1>8, <1>10, <2>3 DEF read_len, Try, m, Holds
  <2>5. Moved(Read(x, 0), m) = Read(x, 0 + m) /\ 0 + m = m
    BY <1>9, MovedOn
  <2> QED
    BY <2>2, <2>4, <2>5
<1> QED
  BY <1>3, <1>6, <1>8, <1>9, <1>10 DEF m, t, w, n, k

\* A string behind its length.
LEMMA ReadsString ==
    ASSUME NEW x \in Seq(Byte), Len(x) \in Word, NEW s \in Seq(Byte)
    PROVE  LET w == write_varint(Len(x)) \o x IN
           /\ w \in Seq(Byte) /\ Len(w) = encoded_len_varint(Len(x)) + Len(x)
           /\ Len(w) \in Nat
           /\ decode_len(w \o s) = Read(x, Len(w))
           /\ \A q \in LenScalars : Holds(q, x) => read(q, w \o s) = Read(x, Len(w))
<1> DEFINE c == write_varint(Len(x))
<1>1. /\ c \in Seq(Byte) /\ Len(c) = encoded_len_varint(Len(x))
      /\ \A z \in Seq(Byte) : varint(c \o z) = Read(Len(x), Len(c))
  BY VarintReads
<1> HIDE DEF c
<1> QED
  BY <1>1, ReadsPrefixed DEF c

\* A number in a fixed number of bytes.
LEMMA ReadsFixed ==
    ASSUME NEW p, NEW q, NEW x \in Int, NEW s \in Seq(Byte),
           \/ p \in Fixed32Scalars /\ q \in Fixed32Scalars
           \/ p \in Fixed64Scalars /\ q \in Fixed64Scalars,
           NEW m, m = Power(ByteRadix, FixedSize(p)),
           x \in SignedRange(m) \/ q \notin {"Sfixed32", "Sfixed64"},
           q \in {"Sfixed32", "Sfixed64"} \/ x \in 0..(m - 1)
    PROVE  LET w == LittleEndian(x, FixedSize(p)) IN
           /\ w \in Seq(Byte) /\ Len(w) = FixedSize(p) /\ Len(w) \in Nat
           /\ Split(w \o s, FixedSize(p)) = Read(w, FixedSize(p))
           /\ read(q, w \o s) = Read(x, FixedSize(p))
<1> DEFINE n == FixedSize(p)
           w == LittleEndian(x, n)
           t == w \o s
<1>1. n \in Nat \ {0} /\ FixedSize(q) = n
  BY ScalarsAssumption DEF FixedSize, Fixed32Scalars, Fixed64Scalars
<1>2. m \in Nat \ {0}
  <2>1. ByteRadix \in Nat /\ ByteRadix >= 1
    BY Widths
  <2> HIDE DEF n
  <2>2. Power(ByteRadix, n) \in Nat \ {0}
    BY <1>1, <2>1, PowerPositive
  <2> QED
    BY <2>2 DEF n
<1>3. w \in Seq(Byte) /\ Len(w) = n /\ FromLittleEndian(w, n) = x % m
  <2> HIDE DEF n
  <2>1. /\ LittleEndian(x, n) \in Seq(Byte) /\ Len(LittleEndian(x, n)) = n
        /\ FromLittleEndian(LittleEndian(x, n), n) = x % Power(ByteRadix, n)
    BY <1>1, LittleEndianBack
  <2> QED
    BY <2>1 DEF n
<1> HIDE DEF w
<1>4. Split(t, n) = Read(w, n)
  BY <1>3, BehindConcat
<1> HIDE DEF t, n
<1>5. FromFixed(q, x % m) = x
  <2>1. CASE q \in {"Sfixed32", "Sfixed64"}
    <3>1. FromFixed(q, x % m) = Signed(x % m, m)
      BY <1>1, <2>1 DEF FromFixed, n
    <3>2. x \in SignedRange(m)
      BY <2>1
    <3>3. x % m \in Int /\ (x % m) % m = x % m
      BY <1>2
    <3>4. Signed(x % m, m) = x
      BY <1>2, <3>2, <3>3, SignedBack
    <3> QED
      BY <3>1, <3>4
  <2>2. CASE q \notin {"Sfixed32", "Sfixed64"}
    <3>1. FromFixed(q, x % m) = x % m
      BY <2>2 DEF FromFixed
    <3>2. x \in 0..(m - 1)
      BY <2>2
    <3>3. x % m = x
      BY <1>2, <3>2
    <3> QED
      BY <3>1, <3>3
  <2> QED
    BY <2>1, <2>2
<1>6. read(q, t) = read_fixed(q, t)
  BY DEF read, VarintScalars, LenScalars, Fixed32Scalars, Fixed64Scalars
<1>7. read_fixed(q, t) = Moved(Read(x, 0), n)
  <2>1. ~IsErr(Read(w, n)) /\ Read(w, n).value = w /\ Read(w, n).used = n
    BY <1>1, MovedOn
  <2>2. Split(t, FixedSize(q)) = Read(w, n) /\ FixedSize(q) = n
    BY <1>1, <1>4
  <2>3. FromFixed(q, FromLittleEndian(w, FixedSize(q))) = x
    BY <1>3, <1>5, <2>2
  <2> QED
    BY <2>1, <2>2, <2>3 DEF read_fixed, Try
<1>8. Moved(Read(x, 0), n) = Read(x, n)
  <2>1. 0 + n = n
    BY <1>1
  <2> QED
    BY <1>1, <2>1, MovedOn
<1> QED
  BY <1>1, <1>3, <1>4, <1>6, <1>7, <1>8 DEF t, n, w

\* The values of the fixed-width types.
LEMMA FixedValues ==
    ASSUME NEW p, NEW q, NEW x, x \in Numbers(p), x \in Numbers(q),
           \/ p \in Fixed32Scalars /\ q \in Fixed32Scalars
           \/ p \in Fixed64Scalars /\ q \in Fixed64Scalars
    PROVE  LET m == Power(ByteRadix, FixedSize(p)) IN
           /\ x \in Int
           /\ x \in SignedRange(m) \/ q \notin {"Sfixed32", "Sfixed64"}
           /\ q \in {"Sfixed32", "Sfixed64"} \/ x \in 0..(m - 1)
<1> DEFINE m == Power(ByteRadix, FixedSize(p))
<1>1. /\ p \in Fixed32Scalars => m = U32
      /\ p \in Fixed64Scalars => m = U64
  BY DEF FixedSize, U32, U64, Fixed32Scalars, Fixed64Scalars
<1>2. /\ Numbers("Sfixed32") = SignedRange(U32) /\ Numbers("Fixed32") = 0..(U32 - 1)
      /\ Numbers("Sfixed64") = SignedRange(U64) /\ Numbers("Fixed64") = 0..(U64 - 1)
  BY DEF Numbers
<1>3. U32 \in Nat /\ U64 \in Nat
  BY Widths
<1>4. /\ q \in {"Sfixed32", "Sfixed64"} => x \in SignedRange(m)
      /\ q \notin {"Sfixed32", "Sfixed64"} => x \in 0..(m - 1)
      /\ m \in Nat
  <2> HIDE DEF m
  <2> QED
    BY <1>1, <1>2, <1>3 DEF Fixed32Scalars, Fixed64Scalars
<1> HIDE DEF m
<1>5. x \in Int
  BY <1>4 DEF SignedRange
<1> QED
  BY <1>4, <1>5 DEF m

\* Whatever a type writes, every type of its wire form that has the value reads.
LEMMA ReadsAs ==
    ASSUME NEW p, NEW q, SameForm(p, q), NEW x, Holds(p, x), Holds(q, x),
           NEW s \in Seq(Byte)
    PROVE  LET w == write_value(p, x) IN
           w \in Seq(Byte) /\ Len(w) \in Nat /\ read(q, w \o s) = Read(x, Len(w))
<1>4. p \notin LenScalars => x \in Numbers(p)
  BY DEF Holds
<1>5. q \notin LenScalars => x \in Numbers(q)
  BY DEF Holds
<1>1. CASE \/ p \in Cast /\ q \in Cast
           \/ p \in Zigzagged /\ q \in Zigzagged
  <2> DEFINE v == AsVarint(p, x)
  <2>1. v \in Word /\ FromVarint(q, v) = x
    <3> HIDE DEF v
    <3>1. p \in Cast /\ q \in Cast => v \in Word /\ FromVarint(q, v) = x
      BY <1>4, <1>5, CastBack DEF v, Cast, LenScalars
    <3>2. p \in Zigzagged /\ q \in Zigzagged => v \in Word /\ FromVarint(q, v) = x
      BY <1>4, <1>5, ZigzagCastBack DEF v, Zigzagged, LenScalars
    <3> QED
      BY <1>1, <3>1, <3>2
  <2>2. p \in VarintScalars /\ q \in VarintScalars
    BY <1>1 DEF Cast, Zigzagged, VarintScalars
  <2>3. write_value(p, x) = write_varint(v)
    BY <2>2 DEF write_value
  <2> HIDE DEF v
  <2> QED
    BY <2>1, <2>2, <2>3, ReadsCast
<1>2. CASE \/ p \in Fixed32Scalars /\ q \in Fixed32Scalars
           \/ p \in Fixed64Scalars /\ q \in Fixed64Scalars
  <2> DEFINE m == Power(ByteRadix, FixedSize(p))
             w == LittleEndian(x, FixedSize(p))
  <2>1. /\ x \in Int
        /\ x \in SignedRange(m) \/ q \notin {"Sfixed32", "Sfixed64"}
        /\ q \in {"Sfixed32", "Sfixed64"} \/ x \in 0..(m - 1)
    BY <1>2, <1>4, <1>5, FixedValues DEF Fixed32Scalars, Fixed64Scalars, LenScalars
  <2>2. write_value(p, x) = w
    BY <1>2 DEF write_value, VarintScalars, LenScalars, Fixed32Scalars, Fixed64Scalars
  <2>3. m = Power(ByteRadix, FixedSize(p))
    OBVIOUS
  <2> HIDE DEF m
  <2>4. /\ w \in Seq(Byte) /\ Len(w) = FixedSize(p) /\ Len(w) \in Nat
        /\ read(q, w \o s) = Read(x, FixedSize(p))
    BY <1>2, <2>1, <2>3, ReadsFixed
  <2> HIDE DEF w
  <2> QED
    BY <2>2, <2>4
<1>3. CASE p \in LenScalars /\ q \in LenScalars
  <2>1. x \in Seq(Byte) /\ Len(x) \in Word
    BY <1>3 DEF Holds
  <2>2. write_value(p, x) = write_varint(Len(x)) \o x
    BY <1>3 DEF write_value, VarintScalars, LenScalars
  <2> DEFINE w == write_varint(Len(x)) \o x
  <2>3. w \in Seq(Byte) /\ Len(w) \in Nat /\ read(q, w \o s) = Read(x, Len(w))
    BY <1>3, <2>1, ReadsString
  <2> HIDE DEF w
  <2> QED
    BY <2>2, <2>3 DEF w
<1> QED
  BY <1>1, <1>2, <1>3 DEF SameForm

\* A type has one wire type.
LEMMA WireTypes ==
    /\ \A p \in VarintScalars : WIRE_TYPE(p) = "VARINT"
    /\ \A p \in Fixed32Scalars : WIRE_TYPE(p) = "I32"
    /\ \A p \in Fixed64Scalars : WIRE_TYPE(p) = "I64"
    /\ \A p \in LenScalars : WIRE_TYPE(p) = "LEN"
BY DEF WIRE_TYPE, WireType, VarintScalars, Fixed32Scalars, Fixed64Scalars, LenScalars

\* The types and their kinds.
LEMMA Kinds ==
    ASSUME NEW p \in Packable \cup LenScalars
    PROVE  /\ \/ p \in VarintScalars /\ p \in Cast \cup Zigzagged
              \/ p \in Fixed32Scalars \/ p \in Fixed64Scalars \/ p \in LenScalars
           /\ SameForm(p, p)
BY DEF Packable, VarintScalars, Fixed32Scalars, Fixed64Scalars, LenScalars, Cast, Zigzagged,
       SameForm

\* A number below the radix is one group long.
LEMMA OneGroup ==
    ASSUME NEW v \in Nat, v < Radix
    PROVE  encoded_len_varint(v) = 1
<1>1. ASSUME NEW g \in 1..(MaxGroups - 1)
      PROVE  ~(v >= Power(Radix, g))
  <2>1. Radix \in Nat /\ Radix >= 1 /\ g \in Nat /\ 1 \in Nat /\ 1 <= g
    BY VarintAssumption
  <2>2. Power(Radix, 1) <= Power(Radix, g)
    BY <2>1, PowerMonotone
  <2>4. Power(Radix, g) \in Nat
    BY <2>1, PowerPositive
  <2>3. Power(Radix, 0 + 1) = Radix * Power(Radix, 0) /\ Power(Radix, 0) = 1
    BY <2>1, PowerDef
  <2> QED
    BY <2>1, <2>2, <2>3, <2>4
<1>2. {g \in 1..(MaxGroups - 1) : v >= Power(Radix, g)} = {}
  BY <1>1
<1> QED
  BY <1>2, FS_EmptySet DEF encoded_len_varint

\* The bytes of a value: their number, and how they are skipped.
LEMMA Written ==
    ASSUME NEW p \in Packable \cup LenScalars, NEW x, Holds(p, x), NEW s \in Seq(Byte)
    PROVE  LET w == write_value(p, x) IN
           /\ value_len(p, x) = Len(w)
           /\ LET r == skip_field(WIRE_TYPE(p), w \o s) IN ~IsErr(r) /\ r.used = Len(w)
<1>4. p \notin LenScalars => x \in Numbers(p)
  BY DEF Holds
<1>1. CASE p \in VarintScalars
  <2> DEFINE v == AsVarint(p, x)
             w == write_varint(v)
             n == Len(w)
             t == w \o s
  <2>1. v \in Word
    <3> HIDE DEF v
    <3>1. p \in Cast => v \in Word
      BY <1>4, CastBack DEF v, Cast, LenScalars
    <3>2. p \in Zigzagged => v \in Word
      BY <1>4, ZigzagCastBack DEF v, Zigzagged, LenScalars
    <3>3. p \in Cast \cup Zigzagged
      BY <1>1 DEF VarintScalars, Cast, Zigzagged
    <3> QED
      BY <3>1, <3>2, <3>3
  <2>2. write_value(p, x) = w
    BY <1>1 DEF write_value
  <2>3. /\ n = encoded_len_varint(v) /\ n \in Nat
        /\ skip_varint(t) = [ok |-> TRUE, used |-> n]
    <3> HIDE DEF v
    <3> QED
      BY <2>1, VarintReads
  <2>4. value_len(p, x) = encoded_len_varint(v)
    <3>1. CASE p = "Bool"
      <4>1. x \in 0..1
        BY <1>4, <3>1, CastValues DEF LenScalars
      <4>2. v = x % U64
        BY <3>1 DEF AsVarint, Unsigned
      <4>3. U64 \in Nat /\ U64 >= 2
        BY Widths
      <4>4. v = x
        BY <4>1, <4>2, <4>3
      <4> HIDE DEF v
      <4>5. v \in Nat /\ v < Radix
        BY <4>1, <4>4, VarintAssumption
      <4>6. encoded_len_varint(v) = 1
        BY <4>5, OneGroup
      <4> QED
        BY <3>1, <4>6 DEF value_len
    <3>2. CASE p # "Bool"
      BY <1>1, <3>2 DEF value_len
    <3> QED
      BY <3>1, <3>2
  <2>5. skip_field(WIRE_TYPE(p), t) = skip_varint_value(t)
    BY <1>1, WireTypes DEF skip_field
  <2> HIDE DEF t, n
  <2>6. skip_varint_value(t) = Read(<< >>, n)
    BY <2>3 DEF skip_varint_value
  <2>7. ~IsErr(Read(<< >>, n)) /\ Read(<< >>, n).used = n
    BY <2>3, MovedOn
  <2> HIDE DEF w
  <2> QED
    BY <2>2, <2>3, <2>4, <2>5, <2>6, <2>7 DEF t, n
<1>2. CASE p \in LenScalars
  <2> DEFINE w == write_varint(Len(x)) \o x
             n == Len(w)
             t == w \o s
  <2>1. x \in Seq(Byte) /\ Len(x) \in Word
    BY <1>2 DEF Holds
  <2>2. write_value(p, x) = w
    BY <1>2 DEF write_value, VarintScalars, LenScalars
  <2>3. /\ n = encoded_len_varint(Len(x)) + Len(x) /\ n \in Nat
        /\ decode_len(t) = Read(x, n)
    BY <2>1, ReadsString
  <2>4. value_len(p, x) = encoded_len_varint(Len(x)) + Len(x)
    BY <1>2 DEF value_len, VarintScalars, LenScalars
  <2>5. skip_field(WIRE_TYPE(p), t) = decode_len(t)
    BY <1>2, WireTypes DEF skip_field
  <2> HIDE DEF n, t
  <2>6. ~IsErr(Read(x, n)) /\ Read(x, n).used = n
    BY <2>3, MovedOn
  <2> HIDE DEF w
  <2> QED
    BY <2>2, <2>3, <2>4, <2>5, <2>6 DEF n, t
<1>3. CASE p \in Fixed32Scalars \cup Fixed64Scalars
  <2> DEFINE m == Power(ByteRadix, FixedSize(p))
             w == LittleEndian(x, FixedSize(p))
             n == FixedSize(p)
             t == w \o s
  <2>1. /\ x \in Int
        /\ x \in SignedRange(m) \/ p \notin {"Sfixed32", "Sfixed64"}
        /\ p \in {"Sfixed32", "Sfixed64"} \/ x \in 0..(m - 1)
    BY <1>3, <1>4, FixedValues DEF Fixed32Scalars, Fixed64Scalars, LenScalars
  <2>2. write_value(p, x) = w
    BY <1>3 DEF write_value, VarintScalars, LenScalars, Fixed32Scalars, Fixed64Scalars
  <2>3. m = Power(ByteRadix, FixedSize(p))
    OBVIOUS
  <2> HIDE DEF m
  <2>4. Len(w) = n /\ Len(w) \in Nat /\ Split(t, n) = Read(w, n)
    <3>1. \/ p \in Fixed32Scalars /\ p \in Fixed32Scalars
          \/ p \in Fixed64Scalars /\ p \in Fixed64Scalars
      BY <1>3
    <3> QED
      BY <2>1, <2>3, <3>1, ReadsFixed, ZenonT(40)
  <2>5. value_len(p, x) = n
    BY <1>3 DEF value_len, VarintScalars, LenScalars, Fixed32Scalars, Fixed64Scalars
  <2>6. skip_field(WIRE_TYPE(p), t) = Split(t, n)
    <3>1. /\ p \in Fixed32Scalars => WIRE_TYPE(p) = "I32" /\ n = Bytes32
          /\ p \in Fixed64Scalars => WIRE_TYPE(p) = "I64" /\ n = Bytes64
      BY WireTypes DEF FixedSize, Fixed32Scalars, Fixed64Scalars
    <3> QED
      BY <1>3, <3>1 DEF skip_field
  <2> HIDE DEF n, t
  <2>7. ~IsErr(Read(w, n)) /\ Read(w, n).used = n
    BY <2>4, MovedOn
  <2> HIDE DEF w
  <2> QED
    BY <2>2, <2>4, <2>5, <2>6, <2>7 DEF t
<1> QED
  BY <1>1, <1>2, <1>3, Kinds

-----------------------------------------------------------------------------
(* The varint readers and their writer, and the scalars (VarintCodec, ScalarCodec). *)

(***************************************************************************)
(* encoded_len_varint's multiplication and shift are a division by seven,  *)
(* rounded up, for every bit length a u64 has.                             *)
(***************************************************************************)
THEOREM LenFormulaCorrect ==
    \A bits \in 1..64 : LenFormula(bits) = (bits + 6) \div 7
BY SMTT(30) DEF LenFormula

\* The input is bytes.
InputIsBytes == input \in Seq(Byte)

\* The input stays bytes.
LEMMA InputInvariant == InputSpec => []InputIsBytes
<1>1. InputInit => InputIsBytes
  BY DEF InputInit, InputIsBytes
<1>2. InputIsBytes /\ [Extend]_inputVars => InputIsBytes'
  BY Extended DEF InputIsBytes, Extend, inputVars
<1> QED
  BY <1>1, <1>2, PTL DEF InputSpec

(***************************************************************************)
(* Skipping a varint ends where reading it does, for every input: an old   *)
(* reader that skips what a new one decodes stays in step (skip_varint).   *)
(***************************************************************************)
THEOREM SkipsWhereItReads == InputSpec => []SkipAgrees
<1>1. InputIsBytes => SkipAgrees
  <2>1. SUFFICES ASSUME input \in Seq(Byte) PROVE SkipAgrees
    BY DEF InputIsBytes
  <2> DEFINE c == Continued(input, Reach(input))
  <2>2. /\ skip_varint(input).ok <=> c < Reach(input)
        /\ skip_varint(input).ok => skip_varint(input).used = c + 1
    BY DEF skip_varint, Skipped, Reach
  <2>3. TooLarge(input) /\ c < Reach(input) =>
            c + 1 = MaxGroups /\ input[MaxGroups] >= LastGroup
    BY VarintAssumption DEF TooLarge
  <2> QED
    BY <2>1, <2>2, <2>3, ReadingUsed DEF SkipAgrees
<1> QED
  BY <1>1, InputInvariant, PTL

(***************************************************************************)
(* The looped and the unrolled reader agree on every varint, wherever the  *)
(* input's length makes one take over from the other.                      *)
(***************************************************************************)
THEOREM ReadersAgreeAlways == InputSpec => ReadersAgree
<1>1. InputIsBytes /\ [Extend]_inputVars =>
          (decode_varint(input).ok => decode_varint(input') = decode_varint(input))
  BY ReadingExtends DEF InputIsBytes, Extend, inputVars
<1> QED
  BY <1>1, InputInvariant, PTL DEF InputSpec, ReadersAgree

(***************************************************************************)
(* A refused input is unfinished: what completes it is its last byte.      *)
(***************************************************************************)
THEOREM RefusesOnlyUnfinished == InputSpec => RejectsOnlyUnfinished
<1> DEFINE Refusal ==
        ~decode_varint(input).ok /\ decode_varint(input').ok =>
            decode_varint(input').used = Len(input')
<1>1. InputIsBytes /\ [Extend]_inputVars => Refusal
  BY RefusalEnds DEF InputIsBytes, Extend, inputVars
<1> QED
  BY <1>1, InputInvariant, PTL DEF InputSpec, RejectsOnlyUnfinished

(***************************************************************************)
(* No input makes a reader build a number a u64 does not hold or moves the *)
(* cursor out of the input, whatever the number and size of the groups     *)
(* (scalars.rs decode_varint).                                             *)
(***************************************************************************)
THEOREM OnlyWords == InputSpec => []DecodesWords
<1>1. InputIsBytes => DecodesWords
  BY DecodesWord DEF InputIsBytes, DecodesWords
<1> QED
  BY <1>1, InputInvariant, PTL

(***************************************************************************)
(* Every value, in every width that holds it, padded or not, reads back as *)
(* itself over its own bytes, whatever follows and whichever reader gets   *)
(* it (scalars.rs put_varint, decode_varint; tack.rs write_wide_varint).   *)
(***************************************************************************)
THEOREM ReadsBackAlone == InputSpec => []SelfDelimiting
<1>1. InputIsBytes => SelfDelimiting
  BY WideDecodes DEF InputIsBytes, SelfDelimiting
<1> QED
  BY <1>1, InputInvariant, PTL

-----------------------------------------------------------------------------
(* The values of ScalarCodec. *)

\* A value of its type, and bytes behind it.
CodecInv ==
    /\ type \in Packable \cup LenScalars
    /\ value \in ValuesOf(type)
    /\ tail \in Seq(Byte)

\* Types of a family have one wire form, and a value is a value of its type.
LEMMA FamiliesForm ==
    \A family \in Families : \A p, q \in family : SameForm(p, q)
BY DEF SameForm, Families, Cast, Zigzagged, Fixed32Scalars, Fixed64Scalars, LenScalars

\* The values written are values of the type.
LEMMA ValuesHold ==
    ASSUME NEW p, NEW x \in ValuesOf(p)
    PROVE  Holds(p, x)
BY CodecAssumption DEF ValuesOf, Holds

\* The value and what follows it stay what they are.
LEMMA CodecInductive == CodecSpec => []CodecInv
<1>1. CodecInit => CodecInv
  BY DEF CodecInit, CodecInv
<1>2. CodecInv /\ [Follow]_codecVars => CodecInv'
  BY DEF CodecInv, Follow, codecVars
<1> QED
  BY <1>1, <1>2, PTL DEF CodecSpec

(***************************************************************************)
(* A schema may widen, narrow or re-sign a field: what one type wrote,     *)
(* every type of the same wire form that has the value reads as it was,    *)
(* and to its last byte (scalars.rs write_value and read).                 *)
(***************************************************************************)
THEOREM Evolution == CodecSpec => []Evolves
<1>1. ASSUME CodecInv
      PROVE  Evolves
  <2> SUFFICES ASSUME NEW family \in Families, NEW q \in family,
                      type \in family, value \in ValuesOf(q)
               PROVE  LET r == read(q, bytes \o tail) IN
                      ~IsErr(r) /\ r.value = value /\ r.used = Len(bytes)
    BY DEF Evolves
  <2>1. SameForm(type, q) /\ Holds(type, value) /\ Holds(q, value) /\ tail \in Seq(Byte)
    BY <1>1, FamiliesForm, ValuesHold DEF CodecInv
  <2> DEFINE w == write_value(type, value)
  <2>2. Len(w) \in Nat /\ read(q, w \o tail) = Read(value, Len(w))
    BY <2>1, ReadsAs
  <2> HIDE DEF w
  <2>3. /\ ~IsErr(Read(value, Len(w))) /\ Read(value, Len(w)).value = value
        /\ Read(value, Len(w)).used = Len(w)
    BY <2>2, MovedOn
  <2>4. bytes = w
    BY DEF bytes, w
  <2> QED
    BY <2>2, <2>3, <2>4
<1> QED
  BY <1>1, CodecInductive, PTL

(***************************************************************************)
(* A value is read back as it was written, over exactly its own bytes,     *)
(* whatever follows (scalars.rs write_value and read).                     *)
(***************************************************************************)
THEOREM ReadBack == CodecSpec => []RoundTrips
<1>1. ASSUME CodecInv
      PROVE  RoundTrips
  <2>1. SameForm(type, type) /\ Holds(type, value) /\ tail \in Seq(Byte)
    BY <1>1, Kinds, ValuesHold DEF CodecInv
  <2> DEFINE w == write_value(type, value)
  <2>2. Len(w) \in Nat /\ read(type, w \o tail) = Read(value, Len(w))
    BY <2>1, ReadsAs
  <2> HIDE DEF w
  <2>3. /\ ~IsErr(Read(value, Len(w))) /\ Read(value, Len(w)).value = value
        /\ Read(value, Len(w)).used = Len(w)
    BY <2>2, MovedOn
  <2>4. bytes = w
    BY DEF bytes, w
  <2> QED
    BY <2>2, <2>3, <2>4 DEF RoundTrips
<1> QED
  BY <1>1, CodecInductive, PTL

(***************************************************************************)
(* value_len is the number of bytes write_value writes: what a map entry   *)
(* is sized by is what fills it (field.rs write_entry).                    *)
(***************************************************************************)
THEOREM LengthPredicted == CodecSpec => []LenPredicts
<1>1. ASSUME CodecInv
      PROVE  LenPredicts
  BY <1>1, Written, ValuesHold DEF CodecInv, LenPredicts, bytes
<1> QED
  BY <1>1, CodecInductive, PTL

(***************************************************************************)
(* A reader that does not know the field moves over exactly the bytes its  *)
(* writer wrote (scalars.rs skip_field).                                   *)
(***************************************************************************)
THEOREM SkippedExactly == CodecSpec => []SkipsExactly
<1>1. ASSUME CodecInv
      PROVE  SkipsExactly
  BY <1>1, Written, ValuesHold DEF CodecInv, SkipsExactly, bytes
<1> QED
  BY <1>1, CodecInductive, PTL

-----------------------------------------------------------------------------
(* Bytes and what is behind the first of them. *)

\* What After and SubSeq leave of bytes, byte by byte.
LEMMA Behind ==
    ASSUME NEW s \in Seq(Byte), NEW n \in 0..Len(s)
    PROVE  /\ After(s, n) \in Seq(Byte) /\ Len(After(s, n)) = Len(s) - n
           /\ \A i \in 1..(Len(s) - n) : After(s, n)[i] = s[n + i]
           /\ SubSeq(s, 1, n) \in Seq(Byte) /\ Len(SubSeq(s, 1, n)) = n
           /\ \A i \in 1..n : SubSeq(s, 1, n)[i] = s[i]
<1> DEFINE m == Len(s)
           a == n + 1
<1>1. m \in Nat /\ n \in Nat /\ a \in Nat \ {0} /\ a <= m + 1 /\ m <= m /\ n <= m
  OBVIOUS
<1>2. 1 \in Nat \ {0} /\ 1 <= n + 1 /\ m - a + 1 = m - n /\ n - 1 + 1 = n
  BY <1>1
<1>3. /\ \A i \in 1..(m - n) : a + i - 1 = n + i
      /\ \A i \in 1..n : 1 + i - 1 = i
  BY <1>1
<1> HIDE DEF a, m
<1>4. /\ SubSeq(s, a, m) \in Seq(Byte) /\ Len(SubSeq(s, a, m)) = m - a + 1
      /\ \A k \in 1..(m - a + 1) : SubSeq(s, a, m)[k] = s[a + k - 1]
  BY <1>1, SubSeqProps DEF m
<1>5. /\ SubSeq(s, 1, n) \in Seq(Byte) /\ Len(SubSeq(s, 1, n)) = n - 1 + 1
      /\ \A k \in 1..(n - 1 + 1) : SubSeq(s, 1, n)[k] = s[1 + k - 1]
  BY <1>1, <1>2, SubSeqProps DEF m
<1>6. After(s, n) = SubSeq(s, a, m)
  BY DEF After, a, m
<1> HIDE DEF After
<1> QED
  BY <1>2, <1>3, <1>4, <1>5, <1>6 DEF m

\* Bytes that follow do not change those in front of them.
LEMMA BehindBoth ==
    ASSUME NEW s \in Seq(Byte), NEW t \in Seq(Byte), NEW n \in 0..Len(s)
    PROVE  /\ s \o t \in Seq(Byte) /\ Len(s \o t) = Len(s) + Len(t)
           /\ After(s \o t, n) = After(s, n) \o t
           /\ SubSeq(s \o t, 1, n) = SubSeq(s, 1, n)
<1> DEFINE u == s \o t
           x == After(u, n)
           y == After(s, n)
           z == y \o t
<1>1. IsSeq(s) /\ IsSeq(t)
  BY SeqOverSet
<1>2. /\ u \in Seq(Byte) /\ Len(u) = Len(s) + Len(t)
      /\ \A i \in 1..Len(s) : u[i] = s[i]
      /\ \A i \in 1..Len(t) : u[Len(s) + i] = t[i]
      /\ Len(s) \in Nat /\ Len(t) \in Nat
  BY <1>1, ConcatFacts, ConcatProps
<1> HIDE DEF u
<1>3. n \in 0..Len(u) /\ n \in Nat
  BY <1>2
<1>4. /\ x \in Seq(Byte) /\ Len(x) = Len(u) - n
      /\ \A i \in 1..(Len(u) - n) : x[i] = u[n + i]
      /\ SubSeq(u, 1, n) \in Seq(Byte) /\ Len(SubSeq(u, 1, n)) = n
      /\ \A i \in 1..n : SubSeq(u, 1, n)[i] = u[i]
  BY <1>2, <1>3, Behind
<1>5. /\ y \in Seq(Byte) /\ Len(y) = Len(s) - n
      /\ \A i \in 1..(Len(s) - n) : y[i] = s[n + i]
      /\ SubSeq(s, 1, n) \in Seq(Byte) /\ Len(SubSeq(s, 1, n)) = n
      /\ \A i \in 1..n : SubSeq(s, 1, n)[i] = s[i]
  BY Behind
<1> HIDE DEF x, y
<1>6. IsSeq(x) /\ IsSeq(y) /\ IsSeq(SubSeq(u, 1, n)) /\ IsSeq(SubSeq(s, 1, n))
  BY <1>4, <1>5, SeqOverSet
<1>7. /\ IsSeq(z) /\ Len(z) = Len(y) + Len(t)
      /\ \A i \in 1..Len(y) : z[i] = y[i]
      /\ \A i \in 1..Len(t) : z[Len(y) + i] = t[i]
  BY <1>1, <1>6, ConcatFacts
<1> HIDE DEF z
<1>8. Len(x) = Len(z) /\ Len(x) = (Len(s) - n) + Len(t)
  BY <1>2, <1>4, <1>5, <1>7
<1>9. \A i \in 1..Len(x) : x[i] = z[i]
  <2> TAKE i \in 1..Len(x)
  <2>1. CASE i <= Len(s) - n
    <3>1. i \in 1..(Len(s) - n) /\ n + i \in 1..Len(s) /\ i \in 1..(Len(u) - n)
      BY <1>2, <1>3, <1>8, <2>1
    <3> QED
      BY <1>2, <1>4, <1>5, <1>7, <3>1
  <2>2. CASE ~(i <= Len(s) - n)
    <3> DEFINE j == i - (Len(s) - n)
    <3>1. j \in 1..Len(t) /\ Len(s) + j = n + i /\ Len(y) + j = i /\ i \in 1..(Len(u) - n)
      BY <1>2, <1>3, <1>5, <1>8, <2>2
    <3> HIDE DEF j
    <3>2. x[i] = u[Len(s) + j] /\ z[i] = t[j]
      BY <1>4, <1>7, <3>1
    <3> QED
      BY <1>2, <3>1, <3>2
  <2> QED
    BY <2>1, <2>2
<1>10. x = z
  BY <1>6, <1>7, <1>8, <1>9, SameSeq
<1>11. \A i \in 1..n : u[i] = s[i]
  BY <1>2, <1>3
<1>12. SubSeq(u, 1, n) = SubSeq(s, 1, n)
  <2> DEFINE p == SubSeq(u, 1, n)
             q == SubSeq(s, 1, n)
  <2>1. IsSeq(p) /\ IsSeq(q) /\ Len(p) = n /\ Len(q) = n /\ \A i \in 1..n : p[i] = q[i]
    BY <1>4, <1>5, <1>6, <1>11
  <2> HIDE DEF p, q
  <2>2. p = q
    BY <2>1, SameSeq
  <2> QED
    BY <2>2 DEF p, q
<1> QED
  BY <1>2, <1>10, <1>12 DEF u, x, y, z

\* Going on behind what is behind.
LEMMA BehindTwice ==
    ASSUME NEW s \in Seq(Byte), NEW n \in 0..Len(s), NEW k \in 0..(Len(s) - n)
    PROVE  After(After(s, n), k) = After(s, n + k)
<1> DEFINE y == After(s, n)
           x == After(y, k)
           m == n + k
           z == After(s, m)
<1>1. /\ y \in Seq(Byte) /\ Len(y) = Len(s) - n /\ Len(s) \in Nat
      /\ \A i \in 1..(Len(s) - n) : y[i] = s[n + i]
  BY Behind
<1> HIDE DEF y
<1>2. k \in 0..Len(y) /\ m \in 0..Len(s)
  BY <1>1
<1>3. /\ x \in Seq(Byte) /\ Len(x) = Len(y) - k
      /\ \A i \in 1..(Len(y) - k) : x[i] = y[k + i]
  BY <1>1, <1>2, Behind
<1>4. /\ z \in Seq(Byte) /\ Len(z) = Len(s) - m
      /\ \A i \in 1..(Len(s) - m) : z[i] = s[m + i]
  <2> HIDE DEF m
  <2> QED
    BY <1>2, Behind
<1> HIDE DEF x, z
<1>5. \A i \in 1..Len(x) : x[i] = z[i]
  <2> TAKE i \in 1..Len(x)
  <2>1. i \in 1..(Len(y) - k) /\ k + i \in 1..(Len(s) - n) /\ i \in 1..(Len(s) - m)
    BY <1>1, <1>2, <1>3
  <2>2. n + (k + i) = m + i
    OBVIOUS
  <2> QED
    BY <1>1, <1>3, <1>4, <2>1, <2>2
<1>6. Len(x) = Len(z)
  BY <1>1, <1>3, <1>4
<1>7. x = z
  BY <1>3, <1>4, <1>5, <1>6, SeqOverSet, SameSeq
<1> QED
  BY <1>7 DEF x, y, z, m

\* The first and the last cut.
LEMMA BehindEnds ==
    ASSUME NEW s \in Seq(Byte)
    PROVE  After(s, 0) = s /\ After(s, Len(s)) = << >>
<1>1. Len(s) \in Nat /\ 0 \in 0..Len(s) /\ Len(s) \in 0..Len(s)
  OBVIOUS
<1>2. /\ After(s, 0) \in Seq(Byte) /\ Len(After(s, 0)) = Len(s) - 0
      /\ \A i \in 1..(Len(s) - 0) : After(s, 0)[i] = s[0 + i]
  BY <1>1, Behind
<1>3. After(s, Len(s)) \in Seq(Byte) /\ Len(After(s, Len(s))) = Len(s) - Len(s)
  BY <1>1, Behind
<1>4. After(s, Len(s)) = << >>
  BY <1>1, <1>3, EmptySeq
<1>5. After(s, 0) = s
  <2> DEFINE x == After(s, 0)
  <2>1. x \in Seq(Byte) /\ Len(x) = Len(s) /\ \A i \in 1..Len(x) : x[i] = s[i]
    BY <1>1, <1>2
  <2> HIDE DEF x
  <2>2. x = s
    BY <2>1, SeqOverSet, SameSeq
  <2> QED
    BY <2>2 DEF x
<1> QED
  BY <1>4, <1>5

-----------------------------------------------------------------------------
(* What a read of n bytes returns, and when more bytes do not change it. *)

\* An error, or a value and the bytes it was read from.
Outcome(r, n) ==
    \/ r = Err(r.err) /\ r.err # "none"
    \/ r = Read(r.value, r.used) /\ r.used \in 0..n

\* Only an error that says that bytes are missing changes when there are more.
Stays(r, later) == r.err # "Truncated" => later = r

Steady(r, later, n) == Outcome(r, n) /\ Stays(r, later)

\* Errors and reads are outcomes, and each stays what it is.
LEMMA Outcomes ==
    ASSUME NEW n \in Nat
    PROVE  /\ \A e : e # "none" => Outcome(Err(e), n) /\ IsErr(Err(e)) /\ Err(e).err = e
           /\ \A x : \A k \in 0..n :
                  /\ Outcome(Read(x, k), n) /\ ~IsErr(Read(x, k))
                  /\ Read(x, k).value = x /\ Read(x, k).used = k /\ Read(x, k).err = "none"
           /\ \A r : Stays(r, r)
BY DEF Outcome, Err, Read, IsErr, Stays

\* An outcome without an error is a read.
LEMMA OutcomeIs ==
    ASSUME NEW n \in Nat, NEW r, Outcome(r, n), ~IsErr(r)
    PROVE  r = Read(r.value, r.used) /\ r.used \in 0..n /\ r.err = "none"
BY DEF Outcome, IsErr

\* A read and another of what is behind it.
Then(r, b) == IF IsErr(r) THEN r ELSE Moved(b, r.used)

\* Two steady reads one after the other are a steady one.
LEMMA Chained ==
    ASSUME NEW n \in Nat, NEW r, NEW r2, Steady(r, r2, n),
           NEW b, NEW b2, (~IsErr(r) => Steady(b, b2, n - r.used))
    PROVE  /\ Steady(Then(r, b), Then(r2, b2), n)
           /\ (~IsErr(Then(r, b)) =>
                  /\ ~IsErr(r) /\ ~IsErr(b)
                  /\ Then(r, b).value = b.value /\ Then(r, b).used = r.used + b.used)
<1> DEFINE q == Then(r, b)
           q2 == Then(r2, b2)
<1>1. CASE IsErr(r)
  <2>1. q = r
    BY <1>1 DEF Then
  <2>2. r.err # "Truncated" => q2 = q
    BY <1>1, <2>1 DEF Steady, Stays, Then
  <2> QED
    BY <1>1, <2>1, <2>2 DEF Steady, Stays
<1>2. CASE ~IsErr(r)
  <2>1. r = Read(r.value, r.used) /\ r.used \in 0..n /\ r.err = "none"
    BY <1>2, OutcomeIs DEF Steady
  <2>2. r2 = r
    BY <2>1 DEF Steady, Stays
  <2> DEFINE m == n - r.used
  <2>3. m \in Nat
    BY <2>1
  <2>4. Outcome(b, m) /\ Stays(b, b2)
    BY <1>2 DEF Steady
  <2>5. q = Moved(b, r.used) /\ q2 = Moved(b2, r.used)
    BY <1>2, <2>2 DEF Then
  <2> HIDE DEF q, q2
  <2>6. CASE IsErr(b)
    <3>1. q = b
      BY <2>5, <2>6 DEF Moved
    <3>2. b.err # "none" /\ b = Err(b.err)
      BY <2>4, <2>6 DEF IsErr, Outcome, Read
    <3>3. b.err # "Truncated" => q2 = q
      BY <2>4, <2>5, <2>6, <3>1 DEF Stays, Moved
    <3> QED
      BY <2>6, <3>1, <3>2, <3>3 DEF Steady, Stays, Outcome, q, q2
  <2>7. CASE ~IsErr(b)
    <3>1. b = Read(b.value, b.used) /\ b.used \in 0..m /\ b.err = "none"
      BY <2>3, <2>4, <2>7, OutcomeIs
    <3>2. b2 = b
      BY <2>4, <3>1 DEF Stays
    <3> DEFINE k == b.used + r.used
    <3>3. q = Read(b.value, k)
      BY <2>5, <2>7, <3>1 DEF Moved, Read
    <3>4. k \in 0..n /\ k = r.used + b.used
      BY <2>1, <3>1
    <3> HIDE DEF k
    <3>5. Outcome(q, n) /\ ~IsErr(q) /\ q.value = b.value /\ q.used = k
      BY <3>3, <3>4, Outcomes
    <3>6. Stays(q, q2)
      BY <2>5, <3>2 DEF Stays
    <3> QED
      BY <1>2, <2>7, <3>4, <3>5, <3>6 DEF Steady, q, q2
  <2> QED
    BY <2>6, <2>7 DEF q, q2
<1> QED
  BY <1>1, <1>2

-----------------------------------------------------------------------------
(* Every reader returns an outcome, and keeps to it when bytes follow. *)

\* A varint that was read is read from the same bytes with others behind it.
LEMMA DecodesTheSame ==
    ASSUME NEW s \in Seq(Byte), NEW t \in Seq(Byte), decode_varint(s).ok
    PROVE  decode_varint(s \o t) = decode_varint(s)
<1> DEFINE P(i) == decode_varint(s \o SubSeq(t, 1, i)) = decode_varint(s)
           T == {i \in Nat : i <= Len(t) => P(i)}
<1>1. 0 \in T
  <2>1. 0 \in 0..Len(t)
    OBVIOUS
  <2>2. SubSeq(t, 1, 0) \in Seq(Byte) /\ Len(SubSeq(t, 1, 0)) = 0
    BY <2>1, Behind
  <2>3. SubSeq(t, 1, 0) = << >>
    BY <2>2, EmptySeq
  <2>4. s \o << >> = s
    OBVIOUS
  <2> QED
    BY <2>3, <2>4
<1>2. ASSUME NEW i \in Nat, i \in T
      PROVE  i + 1 \in T
  <2> SUFFICES ASSUME i + 1 <= Len(t)
               PROVE  P(i + 1)
    OBVIOUS
  <2> DEFINE x == SubSeq(t, 1, i)
             j == i + 1
             y == SubSeq(t, 1, j)
             b == t[j]
  <2>1. i \in 0..Len(t) /\ j \in 0..Len(t) /\ j \in 1..Len(t) /\ i <= Len(t)
    OBVIOUS
  <2>2. /\ x \in Seq(Byte) /\ Len(x) = i /\ \A k \in 1..i : x[k] = t[k]
        /\ b \in Byte
    BY <2>1, Behind, ElementOfSeq
  <2>3. y \in Seq(Byte) /\ Len(y) = j /\ \A k \in 1..j : y[k] = t[k]
    <3> HIDE DEF j
    <3> QED
      BY <2>1, Behind
  <2>4. decode_varint(s \o x) = decode_varint(s)
    BY <1>2, <2>1
  <2> HIDE DEF x, y, b
  <2>5. s \o x \in Seq(Byte) /\ Append(x, b) \in Seq(Byte)
    BY <2>2
  <2>6. y = Append(x, b)
    <3>1. Len(Append(x, b)) = j /\ \A k \in 1..j : Append(x, b)[k] = y[k]
      BY <2>2, <2>3 DEF b
    <3> QED
      BY <2>3, <2>5, <3>1, SeqOverSet, SameSeq
  <2>7. s \o y = Append(s \o x, b)
    BY <2>2, <2>6
  <2>8. decode_varint(Append(s \o x, b)) = decode_varint(s \o x)
    BY <2>2, <2>4, <2>5, ReadingExtends
  <2> QED
    BY <2>4, <2>7, <2>8 DEF y
<1> HIDE DEF T
<1>3. Nat \subseteq T
  BY <1>1, <1>2, SetInduction
<1>4. Len(t) \in Nat /\ SubSeq(t, 1, Len(t)) = t
  <2>1. Len(t) \in 0..Len(t)
    OBVIOUS
  <2> DEFINE x == SubSeq(t, 1, Len(t))
  <2>2. x \in Seq(Byte) /\ Len(x) = Len(t) /\ \A k \in 1..Len(t) : x[k] = t[k]
    BY <2>1, Behind
  <2> HIDE DEF x
  <2>3. x = t
    BY <2>2, SeqOverSet, SameSeq
  <2> QED
    BY <2>3 DEF x
<1>5. P(Len(t))
  BY <1>3, <1>4 DEF T
<1> HIDE DEF P
<1> QED
  BY <1>4, <1>5 DEF P

\* varint does not change when bytes are added behind what it reads.
LEMMA VarintSteady ==
    ASSUME NEW s \in Seq(Byte), NEW t \in Seq(Byte)
    PROVE  /\ Steady(varint(s), varint(s \o t), Len(s))
           /\ ~IsErr(varint(s)) =>
                /\ varint(s).value \in Nat /\ varint(s).used \in 1..Len(s)
                /\ decode_varint(s).ok /\ decode_varint(s).used = varint(s).used
<1> DEFINE n == Len(s)
<1>1. n \in Nat
  OBVIOUS
<1> HIDE DEF n
<1>2. CASE ~decode_varint(s).ok
  <2>1. varint(s) = Err("Truncated")
    BY <1>2 DEF varint
  <2> QED
    BY <1>1, <2>1, Outcomes DEF Steady, Stays, n
<1>3. CASE decode_varint(s).ok
  <2> DEFINE d == decode_varint(s)
  <2>1. d.value \in Word /\ d.used \in 1..n
    BY <1>3, DecodesWord DEF n
  <2>2. decode_varint(s \o t) = d
    BY <1>3, DecodesTheSame
  <2>3. varint(s) = Read(d.value, d.used) /\ varint(s \o t) = Read(d.value, d.used)
    BY <1>3, <2>2 DEF varint
  <2>4. d.value \in Nat /\ d.used \in 0..n
    BY <1>1, <2>1 DEF Word
  <2> HIDE DEF d
  <2> QED
    BY <1>1, <1>3, <2>1, <2>3, <2>4, Outcomes DEF Steady, n, d
<1> QED
  BY <1>2, <1>3

\* Nor does skip_varint.
LEMMA SkipVarintSteady ==
    ASSUME NEW s \in Seq(Byte), NEW t \in Seq(Byte)
    PROVE  /\ Steady(skip_varint_value(s), skip_varint_value(s \o t), Len(s))
           /\ ~IsErr(varint(s)) => /\ ~IsErr(skip_varint_value(s))
                                   /\ skip_varint_value(s).used = varint(s).used
<1> DEFINE u == s \o t
           c == Continued(s, Reach(s))
           n == Len(s)
<1>1. /\ u \in Seq(Byte) /\ Len(u) = n + Len(t) /\ n \in Nat /\ Len(t) \in Nat
      /\ \A i \in 1..n : u[i] = s[i]
  BY ConcatProps
<1>2. Reach(s) \in 0..n /\ Reach(u) \in 0..Len(u)
  BY <1>1, ReachType
<1> HIDE DEF u, n
<1>3. Reach(s) <= Reach(u)
  BY <1>1, VarintAssumption DEF Reach, n
<1>4. /\ skip_varint(s) = Skipped(s, Reach(s))
      /\ skip_varint(u) = Skipped(u, Reach(u))
  BY DEF skip_varint, Reach
<1>5. c \in 0..Reach(s)
  BY <1>2, ContinuedType
<1>6. CASE ~(c < Reach(s))
  <2>1. skip_varint_value(s) = Err("Truncated")
    <3>1. skip_varint(s).ok <=> c < Reach(s)
      BY DEF skip_varint, Skipped, Reach
    <3> QED
      BY <1>6, <3>1 DEF skip_varint_value
  <2>2. IsErr(varint(s))
    BY <1>6, VarintSteady, ReadingUsed
  <2> QED
    BY <1>1, <2>1, <2>2, Outcomes DEF Steady, Stays, n
<1>7. CASE c < Reach(s)
  <2> DEFINE k == c + 1
  <2>1. k \in 0..n /\ Reach(s) \in Nat /\ Reach(u) \in Nat /\ \A i \in 1..Reach(s) : u[i] = s[i]
    BY <1>1, <1>2, <1>5, <1>7
  <2>2. Continued(u, Reach(u)) = c
    BY <1>3, <1>7, <2>1, ContinuedGrows
  <2>3. c < Reach(u)
    BY <1>3, <1>5, <1>7, <2>1
  <2>4. skip_varint(s) = [ok |-> TRUE, used |-> k] /\ skip_varint(u) = [ok |-> TRUE, used |-> k]
    BY <1>4, <1>7, <2>2, <2>3 DEF Skipped
  <2>5. skip_varint_value(s) = Read(<< >>, k) /\ skip_varint_value(u) = Read(<< >>, k)
    BY <2>4 DEF skip_varint_value
  <2>6. ~IsErr(varint(s)) => varint(s).used = k
    BY VarintSteady, ReadingUsed
  <2> HIDE DEF k
  <2> QED
    BY <1>1, <2>1, <2>5, <2>6, Outcomes DEF Steady, Stays, n, u
<1> QED
  BY <1>6, <1>7

\* Nor does split, which takes n bytes.
LEMMA SplitSteady ==
    ASSUME NEW s \in Seq(Byte), NEW t \in Seq(Byte), NEW n \in Nat
    PROVE  /\ Steady(Split(s, n), Split(s \o t, n), Len(s))
           /\ ~IsErr(Split(s, n)) => Split(s, n).used = n
<1>1. Len(s) \in Nat /\ Len(t) \in Nat /\ Len(s \o t) = Len(s) + Len(t)
  BY ConcatProps
<1>2. CASE Len(s) < n
  BY <1>1, <1>2, Outcomes DEF Split, Steady, Stays
<1>3. CASE ~(Len(s) < n)
  <2>1. n \in 0..Len(s)
    BY <1>1, <1>3
  <2>2. Split(s, n) = Read(SubSeq(s, 1, n), n)
    BY <1>3 DEF Split
  <2>3. ~(Len(s \o t) < n)
    BY <1>1, <1>3
  <2>4. Split(s \o t, n) = Split(s, n)
    BY <2>1, <2>2, <2>3, BehindBoth DEF Split
  <2> QED
    BY <1>1, <2>1, <2>2, <2>4, Outcomes DEF Steady
<1> QED
  BY <1>2, <1>3

\* Nor do a length and the bytes it announces.
LEMMA LenSteady ==
    ASSUME NEW s \in Seq(Byte), NEW t \in Seq(Byte)
    PROVE  Steady(decode_len(s), decode_len(s \o t), Len(s))
<1> DEFINE u == s \o t
           v == varint(s)
           v2 == varint(u)
           b == Split(After(s, v.used), v.value)
           b2 == Split(After(u, v2.used), v2.value)
           n == Len(s)
<1>1. decode_len(s) = Then(v, b) /\ decode_len(u) = Then(v2, b2)
  BY DEF decode_len, Try, Then
<1>2. Steady(v, v2, n) /\ (~IsErr(v) => v.value \in Nat)
  BY VarintSteady
<1>3. ASSUME ~IsErr(v)
      PROVE  Steady(b, b2, n - v.used)
  <2>1. v.used \in 0..Len(s) /\ v2 = v /\ v.value \in Nat
    BY <1>2, <1>3, OutcomeIs DEF Steady, Stays
  <2>2. After(s, v.used) \in Seq(Byte) /\ Len(After(s, v.used)) = Len(s) - v.used
    BY <2>1, Behind
  <2>3. After(u, v.used) = After(s, v.used) \o t
    BY <2>1, BehindBoth
  <2> QED
    BY <2>1, <2>2, <2>3, SplitSteady
<1>4. n \in Nat
  OBVIOUS
<1> HIDE DEF b, b2, v, v2, n
<1>5. ~IsErr(v) => Steady(b, b2, n - v.used)
  BY <1>3
<1>6. Steady(Then(v, b), Then(v2, b2), n)
  BY <1>2, <1>4, <1>5, Chained
<1> QED
  BY <1>1, <1>6 DEF n, u

\* A read that looks at nothing behind what it reads first.
LEMMA ThenSteady ==
    ASSUME NEW n \in Nat, NEW r, NEW r2, Steady(r, r2, n),
           NEW b, NEW b2, (~IsErr(r) => Outcome(b, 0)), (r2 = r => b2 = b)
    PROVE  /\ Steady(Then(r, b), Then(r2, b2), n)
           /\ (~IsErr(Then(r, b)) =>
                  /\ ~IsErr(r) /\ ~IsErr(b)
                  /\ Then(r, b).value = b.value /\ Then(r, b).used = r.used)
<1>1. ASSUME ~IsErr(r)
      PROVE  Steady(b, b2, n - r.used) /\ (~IsErr(b) => b.used = 0)
  <2>1. r.used \in 0..n /\ r2 = r
    BY <1>1, OutcomeIs DEF Steady, Stays
  <2>2. Outcome(b, 0) /\ b2 = b
    BY <1>1, <2>1
  <2>3. Outcome(b, n - r.used) /\ (~IsErr(b) => b.used = 0)
    BY <2>1, <2>2 DEF Outcome, IsErr
  <2> QED
    BY <2>2, <2>3 DEF Steady, Stays
<1>2. ~IsErr(r) => Steady(b, b2, n - r.used)
  BY <1>1
<1>3. /\ Steady(Then(r, b), Then(r2, b2), n)
      /\ (~IsErr(Then(r, b)) =>
             /\ ~IsErr(r) /\ ~IsErr(b)
             /\ Then(r, b).value = b.value /\ Then(r, b).used = r.used + b.used)
  BY <1>2, Chained
<1>4. ~IsErr(r) => r.used \in Nat
  BY OutcomeIs DEF Steady
<1> QED
  BY <1>1, <1>3, <1>4

\* The bytes behind a value, with those that follow.
LEMMA Onward ==
    ASSUME NEW s \in Seq(Byte), NEW t \in Seq(Byte), NEW r, NEW r2, Steady(r, r2, Len(s)),
           ~IsErr(r)
    PROVE  /\ r2 = r /\ r.used \in 0..Len(s)
           /\ After(s, r.used) \in Seq(Byte)
           /\ Len(After(s, r.used)) = Len(s) - r.used
           /\ After(s \o t, r.used) = After(s, r.used) \o t
<1>1. Len(s) \in Nat /\ Outcome(r, Len(s)) /\ Stays(r, r2)
  BY DEF Steady
<1>2. r.used \in 0..Len(s) /\ r.err = "none"
  BY <1>1, OutcomeIs
<1>3. r2 = r
  BY <1>1, <1>2 DEF Stays
<1> QED
  BY <1>2, <1>3, Behind, BehindBoth

\* What the casts and checks behind a read return: nothing is read by them.
LEMMA Afterwards ==
    /\ \A x : Outcome(Read(x, 0), 0)
    /\ \A v : Outcome(Key(v), 0)
    /\ \A e : Outcome(Entry(e), 0)
    /\ \A a, b : Outcome(check_wire_type(a, b), 0)
    /\ Outcome(Err("InvalidUtf8"), 0) /\ Outcome(Err("known"), 0)
<1>1. /\ \A e : e # "none" => Outcome(Err(e), 0)
      /\ \A x : Outcome(Read(x, 0), 0)
  BY Outcomes
<1>2. \A v : Outcome(Key(v), 0)
  BY <1>1 DEF Key
<1>3. \A e : Outcome(Entry(e), 0)
  BY <1>1 DEF Entry
<1>4. \A a, b : Outcome(check_wire_type(a, b), 0)
  BY <1>1 DEF check_wire_type
<1> QED
  BY <1>1, <1>2, <1>3, <1>4

\* The sizes of the fixed-width scalars.
LEMMA FixedSizes ==
    \A p : FixedSize(p) \in Nat
BY ScalarsAssumption DEF FixedSize

\* A value of any scalar type; what skips its wire type goes as far.
LEMMA ReadSteady ==
    ASSUME NEW s \in Seq(Byte), NEW t \in Seq(Byte), NEW p
    PROVE  /\ Steady(read(p, s), read(p, s \o t), Len(s))
           /\ p \in VarintScalars /\ ~IsErr(read(p, s)) =>
                ~IsErr(varint(s)) /\ varint(s).used = read(p, s).used
           /\ p \in LenScalars /\ ~IsErr(read(p, s)) =>
                ~IsErr(decode_len(s)) /\ decode_len(s).used = read(p, s).used
           /\ p \notin VarintScalars \cup LenScalars /\ ~IsErr(read(p, s)) =>
                ~IsErr(Split(s, FixedSize(p))) /\ Split(s, FixedSize(p)).used = read(p, s).used
<1> DEFINE u == s \o t
           n == Len(s)
<1>1. n \in Nat /\ VarintScalars \cap LenScalars = {}
  BY DEF VarintScalars, LenScalars
<1>2. CASE p \in VarintScalars
  <2> DEFINE r == varint(s)
             r2 == varint(u)
             b == Read(FromVarint(p, r.value), 0)
             b2 == Read(FromVarint(p, r2.value), 0)
  <2>1. read(p, s) = Then(r, b) /\ read(p, u) = Then(r2, b2)
    BY <1>2 DEF read, read_varint, Try, Then
  <2>2. Steady(r, r2, n) /\ Outcome(b, 0) /\ (r2 = r => b2 = b)
    BY VarintSteady, Afterwards
  <2> HIDE DEF r, r2, b, b2, n, u
  <2>3. /\ Steady(Then(r, b), Then(r2, b2), n)
        /\ (~IsErr(Then(r, b)) => ~IsErr(r) /\ Then(r, b).used = r.used)
    BY <1>1, <2>2, ThenSteady
  <2> QED
    BY <1>1, <1>2, <2>1, <2>3 DEF r, n, u
<1>3. CASE p \in LenScalars
  <2> DEFINE r == decode_len(s)
             r2 == decode_len(u)
             B(x) == IF p = "PbString" /\ ~IsUtf8(x) THEN Err("InvalidUtf8") ELSE Read(x, 0)
             b == B(r.value)
             b2 == B(r2.value)
  <2>1. read(p, s) = Then(r, b) /\ read(p, u) = Then(r2, b2)
    BY <1>1, <1>3 DEF read, read_len, Try, Then
  <2>2. Steady(r, r2, n) /\ Outcome(b, 0) /\ (r2 = r => b2 = b)
    BY LenSteady, Afterwards
  <2> HIDE DEF r, r2, b, b2, n, u
  <2>3. /\ Steady(Then(r, b), Then(r2, b2), n)
        /\ (~IsErr(Then(r, b)) => ~IsErr(r) /\ Then(r, b).used = r.used)
    BY <1>1, <2>2, ThenSteady
  <2> QED
    BY <1>1, <1>3, <2>1, <2>3 DEF r, n, u
<1>4. CASE p \notin VarintScalars \cup LenScalars
  <2> DEFINE k == FixedSize(p)
             r == Split(s, k)
             r2 == Split(u, k)
             b == Read(FromFixed(p, FromLittleEndian(r.value, k)), 0)
             b2 == Read(FromFixed(p, FromLittleEndian(r2.value, k)), 0)
  <2>1. read(p, s) = Then(r, b) /\ read(p, u) = Then(r2, b2)
    BY <1>4 DEF read, read_fixed, Try, Then
  <2>2. Steady(r, r2, n) /\ Outcome(b, 0) /\ (r2 = r => b2 = b)
    BY SplitSteady, FixedSizes, Afterwards
  <2> HIDE DEF r, r2, b, b2, n, u
  <2>3. /\ Steady(Then(r, b), Then(r2, b2), n)
        /\ (~IsErr(Then(r, b)) => ~IsErr(r) /\ Then(r, b).used = r.used)
    BY <1>1, <2>2, ThenSteady
  <2> QED
    BY <1>4, <2>1, <2>3 DEF r, n, u
<1> QED
  BY <1>2, <1>3, <1>4

\* A key takes at least one byte.
LEMMA KeySteady ==
    ASSUME NEW s \in Seq(Byte), NEW t \in Seq(Byte)
    PROVE  /\ Steady(decode_key(s), decode_key(s \o t), Len(s))
           /\ ~IsErr(decode_key(s)) => decode_key(s).used \in 1..Len(s)
<1> DEFINE u == s \o t
           n == Len(s)
           r == varint(s)
           r2 == varint(u)
           b == Key(r.value)
           b2 == Key(r2.value)
<1>1. n \in Nat /\ decode_key(s) = Then(r, b) /\ decode_key(u) = Then(r2, b2)
  BY DEF decode_key, Try, Then
<1>2. /\ Steady(r, r2, n) /\ Outcome(b, 0) /\ (r2 = r => b2 = b)
      /\ (~IsErr(r) => r.used \in 1..n)
  BY VarintSteady, Afterwards
<1> HIDE DEF r, r2, b, b2, n, u
<1>3. /\ Steady(Then(r, b), Then(r2, b2), n)
      /\ (~IsErr(Then(r, b)) => ~IsErr(r) /\ Then(r, b).used = r.used)
  BY <1>1, <1>2, ThenSteady
<1> QED
  BY <1>1, <1>2, <1>3 DEF n, u

\* Skipping is as steady as reading, for every wire type.
LEMMA SkipSteady ==
    ASSUME NEW s \in Seq(Byte), NEW t \in Seq(Byte), NEW wire
    PROVE  Steady(skip_field(wire, s), skip_field(wire, s \o t), Len(s))
<1>1. Bytes32 \in Nat /\ Bytes64 \in Nat
  BY ScalarsAssumption
<1> QED
  BY <1>1, SkipVarintSteady, LenSteady, SplitSteady DEF skip_field

\* What is done with a value that was read.
LEMMA CheckedSteady ==
    ASSUME NEW n \in Nat, NEW r, NEW r2, Steady(r, r2, n), NEW actual, NEW expected
    PROVE  /\ Steady(Checked(actual, expected, r), Checked(actual, expected, r2), n)
           /\ ~IsErr(Checked(actual, expected, r)) =>
                actual = expected /\ Checked(actual, expected, r) = r
<1>1. CASE actual = expected
  <2>1. Checked(actual, expected, r) = r /\ Checked(actual, expected, r2) = r2
    BY <1>1 DEF Checked, check_wire_type, IsErr, Read
  <2> QED
    BY <1>1, <2>1
<1>2. CASE actual # expected
  <2> DEFINE e == Err("WireTypeMismatch")
  <2>1. Checked(actual, expected, r) = e /\ Checked(actual, expected, r2) = e
    BY <1>2 DEF Checked, check_wire_type, IsErr, Err
  <2>2. Outcome(e, n) /\ IsErr(e) /\ Stays(e, e)
    BY Outcomes
  <2> HIDE DEF e
  <2> QED
    BY <2>1, <2>2 DEF Steady
<1> QED
  BY <1>1, <1>2

\* The bytes a value was read from are as steady as the value.
LEMMA RawSteady ==
    ASSUME NEW s \in Seq(Byte), NEW t \in Seq(Byte), NEW r, NEW r2, Steady(r, r2, Len(s))
    PROVE  /\ Steady(RawBytes(s, r), RawBytes(s \o t, r2), Len(s))
           /\ ~IsErr(RawBytes(s, r)) => ~IsErr(r) /\ RawBytes(s, r).used = r.used
<1> DEFINE n == Len(s)
<1>1. n \in Nat
  OBVIOUS
<1> HIDE DEF n
<1>2. CASE IsErr(r)
  BY <1>2 DEF RawBytes, Steady, Stays
<1>3. CASE ~IsErr(r)
  <2> DEFINE x == SubSeq(s, 1, r.used)
             k == r.used
  <2>1. r = Read(r.value, k) /\ k \in 0..n /\ r2 = r
    BY <1>1, <1>3, OutcomeIs DEF Steady, Stays, n
  <2>2. SubSeq(s \o t, 1, r.used) = x
    BY <2>1, BehindBoth DEF n
  <2>3. RawBytes(s, r) = [r EXCEPT !.value = x] /\ RawBytes(s \o t, r) = [r EXCEPT !.value = x]
    BY <1>3, <2>2 DEF RawBytes
  <2> HIDE DEF x, k
  <2>4. Outcome(Read(x, k), n) /\ Read(x, k).used = k /\ Stays(Read(x, k), Read(x, k))
    BY <1>1, <2>1, Outcomes
  <2>5. [r EXCEPT !.value = x] = Read(x, k)
    BY <2>1 DEF Read
  <2> QED
    BY <1>3, <2>1, <2>3, <2>4, <2>5 DEF Steady, n, k
<1> QED
  BY <1>2, <1>3

\* A number in front of a value changes neither the error nor what was used.
LEMMA NumberedSteady ==
    ASSUME NEW n \in Nat, NEW r, NEW r2, Steady(r, r2, n), NEW nr
    PROVE  /\ Steady(Numbered(nr, r), Numbered(nr, r2), n)
           /\ ~IsErr(Numbered(nr, r)) =>
                /\ ~IsErr(r) /\ Numbered(nr, r).used = r.used
                /\ Numbered(nr, r).value = <<nr, r.value>>
<1>1. CASE IsErr(r)
  BY <1>1 DEF Numbered, Steady, Stays
<1>2. CASE ~IsErr(r)
  <2> DEFINE x == <<nr, r.value>>
             k == r.used
  <2>1. r = Read(r.value, k) /\ k \in 0..n /\ r2 = r
    BY <1>2, OutcomeIs DEF Steady, Stays
  <2>2. Numbered(nr, r) = Read(x, k) /\ Numbered(nr, r2) = Read(x, k)
    BY <1>2, <2>1 DEF Numbered, Read
  <2> HIDE DEF x, k
  <2>3. /\ Outcome(Read(x, k), n) /\ Read(x, k).used = k /\ Read(x, k).value = x
        /\ Stays(Read(x, k), Read(x, k))
    BY <2>1, Outcomes
  <2> QED
    BY <1>2, <2>2, <2>3 DEF Steady, k, x
<1> QED
  BY <1>1, <1>2

\* A map entry's payload is a message of its own.
LEMMA EntrySteady ==
    ASSUME NEW s \in Seq(Byte), NEW t \in Seq(Byte), NEW f
    PROVE  /\ Steady(read_entry(f, s), read_entry(f, s \o t), Len(s))
           /\ ~IsErr(read_entry(f, s)) =>
                ~IsErr(decode_len(s)) /\ decode_len(s).used = read_entry(f, s).used
<1> DEFINE u == s \o t
           n == Len(s)
           r == decode_len(s)
           r2 == decode_len(u)
           b == Entry(EntryFields(f, r.value))
           b2 == Entry(EntryFields(f, r2.value))
<1>1. n \in Nat /\ read_entry(f, s) = Then(r, b) /\ read_entry(f, u) = Then(r2, b2)
  BY DEF read_entry, Try, Then
<1>2. Steady(r, r2, n) /\ Outcome(b, 0) /\ (r2 = r => b2 = b)
  BY LenSteady, Afterwards
<1> HIDE DEF r, r2, b, b2, n, u
<1>3. /\ Steady(Then(r, b), Then(r2, b2), n)
      /\ (~IsErr(Then(r, b)) => ~IsErr(r) /\ Then(r, b).used = r.used)
  BY <1>1, <1>2, ThenSteady
<1> QED
  BY <1>1, <1>2, <1>3 DEF n, u, r

\* A field of any form.
LEMMA FieldSteady ==
    ASSUME NEW s \in Seq(Byte), NEW t \in Seq(Byte), NEW f, NEW wire
    PROVE  Steady(read_field(f, wire, s), read_field(f, wire, s \o t), Len(s))
<1> DEFINE u == s \o t
           n == Len(s)
           v == read(f.val, s)
           v2 == read(f.val, u)
<1>1. /\ n \in Nat
      /\ Steady(v, v2, n)
      /\ Steady(decode_len(s), decode_len(u), n)
      /\ Steady(read_entry(f, s), read_entry(f, u), n)
  BY ReadSteady, LenSteady, EntrySteady
<1>2. Steady(RawBytes(s, v), RawBytes(u, v2), n)
  BY <1>1, RawSteady
<1> HIDE DEF n, v, v2, u
<1>3. \A e : /\ Steady(Checked(wire, e, v), Checked(wire, e, v2), n)
             /\ Steady(Checked(wire, e, RawBytes(s, v)), Checked(wire, e, RawBytes(u, v2)), n)
             /\ Steady(Checked(wire, e, decode_len(s)), Checked(wire, e, decode_len(u)), n)
             /\ Steady(Checked(wire, e, read_entry(f, s)), Checked(wire, e, read_entry(f, u)), n)
  BY <1>1, <1>2, CheckedSteady
<1>4. Steady(read_packed(f.val, wire, s), read_packed(f.val, wire, u), n)
  BY <1>1, <1>3 DEF read_packed, v, v2
<1> QED
  BY <1>3, <1>4 DEF read_field, n, u, v, v2

-----------------------------------------------------------------------------
(* What is skipped is what would have been read. *)

\* Wherever r is a value, k passes over the same bytes.
Agrees(r, k) == ~IsErr(r) => ~IsErr(k) /\ k.used = r.used

\* skip_field passes over exactly what read reads of a scalar.
LEMMA SkipsAsRead ==
    ASSUME NEW s \in Seq(Byte), NEW p \in Packable \cup LenScalars
    PROVE  Agrees(read(p, s), skip_field(WIRE_TYPE(p), s))
<1>1. << >> \in Seq(Byte)
  OBVIOUS
<1>2. CASE p \in VarintScalars
  <2>1. skip_field(WIRE_TYPE(p), s) = skip_varint_value(s)
    BY <1>2, WireTypes DEF skip_field
  <2>2. ~IsErr(read(p, s)) => ~IsErr(varint(s)) /\ varint(s).used = read(p, s).used
    BY <1>1, <1>2, ReadSteady
  <2>3. ~IsErr(varint(s)) => /\ ~IsErr(skip_varint_value(s))
                             /\ skip_varint_value(s).used = varint(s).used
    BY <1>1, SkipVarintSteady
  <2> QED
    BY <2>1, <2>2, <2>3 DEF Agrees
<1>3. CASE p \in LenScalars
  <2>1. skip_field(WIRE_TYPE(p), s) = decode_len(s)
    BY <1>3, WireTypes DEF skip_field
  <2> QED
    BY <1>1, <1>3, <2>1, ReadSteady DEF Agrees
<1>4. CASE p \in Fixed32Scalars \cup Fixed64Scalars
  <2>1. skip_field(WIRE_TYPE(p), s) = Split(s, FixedSize(p))
    <3>1. p \in Fixed32Scalars => p \notin Fixed64Scalars
      BY DEF Fixed32Scalars, Fixed64Scalars
    <3>2. p \in Fixed32Scalars => WIRE_TYPE(p) = "I32" /\ FixedSize(p) = Bytes32
      BY WireTypes DEF FixedSize
    <3>3. p \in Fixed64Scalars => WIRE_TYPE(p) = "I64" /\ FixedSize(p) = Bytes64
      BY <3>1, WireTypes DEF FixedSize
    <3> QED
      BY <1>4, <3>2, <3>3 DEF skip_field
  <2>2. p \notin VarintScalars \cup LenScalars
    BY <1>4 DEF VarintScalars, LenScalars, Fixed32Scalars, Fixed64Scalars
  <2> QED
    BY <1>1, <2>1, <2>2, ReadSteady DEF Agrees
<1> QED
  BY <1>2, <1>3, <1>4 DEF Packable

\* ... and of a field of every form, once its wire type was checked.
LEMMA SkipsField ==
    ASSUME NEW s \in Seq(Byte), NEW f \in Forms, NEW wire
    PROVE  Agrees(read_field(f, wire, s), skip_field(wire, s))
<1> DEFINE n == Len(s)
           v == read(f.val, s)
           none == << >>
<1>1. n \in Nat /\ none \in Seq(Byte)
  OBVIOUS
<1>2. /\ f.form = "scalar" => f.val \in Packable \cup LenScalars
      /\ f.form = "packed" => f.val \in Packable
  <2>1. \A p, k :
            /\ Scalar(p).form = "scalar" /\ Scalar(p).val = p
            /\ Packed(p).form = "packed" /\ Packed(p).val = p
            /\ Message.form = "message"
            /\ SimpleMap(k, p).form = "map"
            /\ MessageMap(k).form = "message map"
    BY DEF Scalar, Packed, Message, SimpleMap, MessageMap
  <2>2. \/ \E p \in Packable \cup LenScalars : f = Scalar(p)
        \/ \E p \in Packable : f = Packed(p)
        \/ f = Message
        \/ \E k, p : f = SimpleMap(k, p)
        \/ \E k : f = MessageMap(k)
    <3> DEFINE A == Packable \cup LenScalars
    <3>1. \/ f \in {Scalar(p) : p \in A}
          \/ f \in {Packed(p) : p \in Packable}
          \/ f \in {Message}
          \/ f \in {SimpleMap(k, w) : k, w \in A}
          \/ f \in {MessageMap(k) : k \in A}
      BY DEF Forms
    <3> HIDE DEF A
    <3>2. f \in {SimpleMap(k, w) : k, w \in A} => \E k, p : f = SimpleMap(k, p)
      OBVIOUS
    <3> QED
      BY <3>1, <3>2 DEF A
  <2> QED
    BY <2>1, <2>2, ZenonT(40)
<1>3. \E v2 : Steady(v, v2, n)
  BY <1>1, ReadSteady
<1>4. \E d2 : Steady(decode_len(s), d2, n)
  BY <1>1, LenSteady
<1>5. /\ \E e2 : Steady(read_entry(f, s), e2, n)
      /\ Agrees(read_entry(f, s), decode_len(s))
  BY <1>1, EntrySteady DEF Agrees
<1>6. skip_field("LEN", s) = decode_len(s)
  BY DEF skip_field
<1>7. CASE f.form = "packed"
  <2>1. read_field(f, wire, s) =
            IF wire = "LEN" THEN decode_len(s)
            ELSE Checked(wire, WIRE_TYPE(f.val), RawBytes(s, v))
    BY <1>7 DEF read_field, read_packed
  <2>2. CASE wire = "LEN"
    BY <1>6, <2>1, <2>2 DEF Agrees
  <2>3. CASE wire # "LEN"
    <3>1. PICK v2 : Steady(v, v2, Len(s))
      BY <1>3
    <3>2. \E x : Steady(RawBytes(s, v), x, n)
      BY <1>1, <3>1, RawSteady
    <3>3. ~IsErr(RawBytes(s, v)) => ~IsErr(v) /\ RawBytes(s, v).used = v.used
      BY <1>1, <3>1, RawSteady
    <3>4. ~IsErr(read_field(f, wire, s)) =>
              wire = WIRE_TYPE(f.val) /\ read_field(f, wire, s) = RawBytes(s, v)
      BY <1>1, <2>1, <2>3, <3>2, CheckedSteady
    <3>5. Agrees(v, skip_field(WIRE_TYPE(f.val), s))
      BY <1>2, <1>7, SkipsAsRead
    <3> QED
      BY <3>3, <3>4, <3>5 DEF Agrees
  <2> QED
    BY <2>2, <2>3
<1>8. CASE f.form = "scalar"
  <2>1. read_field(f, wire, s) = Checked(wire, WIRE_TYPE(f.val), v)
    BY <1>8 DEF read_field
  <2>2. ~IsErr(read_field(f, wire, s)) => wire = WIRE_TYPE(f.val) /\ read_field(f, wire, s) = v
    BY <1>1, <1>3, <2>1, CheckedSteady
  <2>3. Agrees(v, skip_field(WIRE_TYPE(f.val), s))
    BY <1>2, <1>8, SkipsAsRead
  <2> QED
    BY <2>2, <2>3 DEF Agrees
<1>9. CASE f.form = "message"
  <2>1. read_field(f, wire, s) = Checked(wire, "LEN", decode_len(s))
    BY <1>9 DEF read_field
  <2>2. ~IsErr(read_field(f, wire, s)) => wire = "LEN" /\ read_field(f, wire, s) = decode_len(s)
    BY <1>1, <1>4, <2>1, CheckedSteady
  <2> QED
    BY <1>6, <2>2 DEF Agrees
<1>10. CASE f.form \notin {"packed", "scalar", "message"}
  <2>1. read_field(f, wire, s) = Checked(wire, "LEN", read_entry(f, s))
    BY <1>10 DEF read_field
  <2>2. ~IsErr(read_field(f, wire, s)) => wire = "LEN" /\ read_field(f, wire, s) = read_entry(f, s)
    BY <1>1, <1>5, <2>1, CheckedSteady
  <2> QED
    BY <1>5, <1>6, <2>2 DEF Agrees
<1> QED
  BY <1>7, <1>8, <1>9, <1>10

-----------------------------------------------------------------------------
(* What a reader generated from sch makes of the front of s. *)

\* It names the field.
Names(sch, s) == decode_key(s).value.nr \in DOMAIN sch

\* NextField of sch.
FieldOf(sch, s) ==
    Try(decode_key(s), s, LAMBDA k, t :
        IF k.nr \in DOMAIN sch
        THEN Numbered(k.nr, read_field(sch[k.nr], k.wire, t))
        ELSE skip_field(k.wire, t))

\* The field at the front does not change when bytes are added behind it.
LEMMA FieldOfSteady ==
    ASSUME NEW s \in Seq(Byte), NEW t \in Seq(Byte), NEW sch
    PROVE  /\ Steady(FieldOf(sch, s), FieldOf(sch, s \o t), Len(s))
           /\ ~IsErr(FieldOf(sch, s)) =>
                /\ FieldOf(sch, s).used \in 1..Len(s)
                /\ Names(sch, s \o t) <=> Names(sch, s)
                /\ Names(sch, s) =>
                     \E x : FieldOf(sch, s).value = <<decode_key(s).value.nr, x>>
<1> DEFINE u == s \o t
           n == Len(s)
           r == decode_key(s)
           r2 == decode_key(u)
           B(k, w) == IF k.nr \in DOMAIN sch
                      THEN Numbered(k.nr, read_field(sch[k.nr], k.wire, w))
                      ELSE skip_field(k.wire, w)
           b == B(r.value, After(s, r.used))
           b2 == B(r2.value, After(u, r2.used))
<1>1. /\ n \in Nat /\ Steady(r, r2, n) /\ (~IsErr(r) => r.used \in 1..n)
      /\ FieldOf(sch, s) = Then(r, b) /\ FieldOf(sch, u) = Then(r2, b2)
  BY KeySteady DEF FieldOf, Try, Then
<1>2. ASSUME ~IsErr(r)
      PROVE  /\ r2 = r
             /\ Steady(b, b2, n - r.used)
             /\ (~IsErr(b) /\ Names(sch, s) => \E x : b.value = <<r.value.nr, x>>)
  <2> DEFINE w == After(s, r.used)
             m == n - r.used
             k == r.value
  <2>1. /\ r2 = r /\ w \in Seq(Byte) /\ Len(w) = m /\ After(u, r.used) = w \o t /\ m \in Nat
    BY <1>1, <1>2, Onward
  <2> HIDE DEF w, m, n
  <2>2. CASE k.nr \in DOMAIN sch
    <3> DEFINE f == sch[k.nr]
               g == read_field(f, k.wire, w)
               g2 == read_field(f, k.wire, w \o t)
    <3>1. Steady(g, g2, m)
      BY <2>1, FieldSteady
    <3>2. b = Numbered(k.nr, g) /\ b2 = Numbered(k.nr, g2)
      BY <2>1, <2>2 DEF w
    <3> HIDE DEF g, g2, b, b2
    <3>3. /\ Steady(b, b2, m)
          /\ ~IsErr(b) => b.value = <<k.nr, g.value>>
      BY <2>1, <3>1, <3>2, NumberedSteady
    <3> QED
      BY <2>1, <3>3 DEF m
  <2>3. CASE k.nr \notin DOMAIN sch
    <3>1. Steady(skip_field(k.wire, w), skip_field(k.wire, w \o t), m)
      BY <2>1, SkipSteady
    <3>2. b = skip_field(k.wire, w) /\ b2 = skip_field(k.wire, w \o t)
      BY <2>1, <2>3 DEF w
    <3>3. ~Names(sch, s)
      BY <2>3 DEF Names
    <3> HIDE DEF b, b2
    <3> QED
      BY <2>1, <3>1, <3>2, <3>3 DEF m
  <2> QED
    BY <2>2, <2>3
<1> DEFINE q == Then(r, b)
           named == \E x : b.value = <<r.value.nr, x>>
<1>3. Names(sch, s) <=> r.value.nr \in DOMAIN sch
  BY DEF Names
<1>4. Names(sch, u) <=> r2.value.nr \in DOMAIN sch
  BY DEF Names
<1> HIDE DEF b, b2, n
<1>5. ~IsErr(r) => Steady(b, b2, n - r.used)
  BY <1>2
<1>6. /\ Steady(q, Then(r2, b2), n)
      /\ (~IsErr(q) => /\ ~IsErr(r) /\ ~IsErr(b)
                       /\ q.value = b.value /\ q.used = r.used + b.used)
  BY <1>1, <1>5, Chained
<1>7. ASSUME ~IsErr(q)
      PROVE  q.used \in 1..n
  <2>1. ~IsErr(r) /\ ~IsErr(b) /\ q.used = r.used + b.used /\ r.used \in 1..n
    BY <1>1, <1>6, <1>7
  <2>2. Steady(b, b2, n - r.used)
    BY <1>5, <2>1
  <2>3. b.used \in 0..(n - r.used)
    <3>1. n - r.used \in Nat
      BY <1>1, <2>1
    <3> QED
      BY <2>1, <2>2, <3>1, OutcomeIs DEF Steady
  <2> QED
    BY <1>1, <2>1, <2>3
<1>8. ASSUME ~IsErr(q)
      PROVE  (Names(sch, u) <=> Names(sch, s)) /\ (Names(sch, s) => \E x : q.value = <<r.value.nr, x>>)
  <2>1. ~IsErr(r) /\ ~IsErr(b) /\ q.value = b.value
    BY <1>6, <1>8
  <2>2. r2 = r /\ (~IsErr(b) /\ Names(sch, s) => \E x : b.value = <<r.value.nr, x>>)
    BY <1>2, <2>1
  <2> QED
    BY <1>3, <1>4, <2>1, <2>2
<1> HIDE DEF q
<1> QED
  BY <1>1, <1>6, <1>7, <1>8 DEF n, u, q, r

\* What an older reader passes over ends where the newer reader's field does.
LEMMA OlderSkips ==
    ASSUME NEW s \in Seq(Byte), NEW sch \in Schemas, NEW old, Names(sch, s), ~Names(old, s),
           ~IsErr(FieldOf(sch, s))
    PROVE  ~IsErr(FieldOf(old, s)) /\ FieldOf(old, s).used = FieldOf(sch, s).used
<1> DEFINE r == decode_key(s)
           k == r.value
           w == After(s, r.used)
           f == sch[k.nr]
           g == read_field(f, k.wire, w)
           b == Numbered(k.nr, g)
           h == skip_field(k.wire, w)
           n == Len(s)
           none == << >>
<1>1. FieldOf(sch, s) = Then(r, b) /\ FieldOf(old, s) = Then(r, h)
  BY DEF FieldOf, Try, Then, Names
<1>2. \E r2 : Steady(r, r2, n)
  BY none \in Seq(Byte), KeySteady
<1>3. ~IsErr(r) /\ ~IsErr(b)
  BY <1>1 DEF Then, Moved
<1>4. w \in Seq(Byte) /\ r.used \in 0..n
  <2>1. r.used \in 0..n
    BY <1>2, <1>3, OutcomeIs DEF Steady
  <2> QED
    BY <2>1, Behind
<1>5. f \in Forms
  BY FieldIterAssumption DEF Names
<1> HIDE DEF w, f, n
<1>6. Agrees(g, h) /\ \E g2 : Steady(g, g2, Len(w))
  BY <1>4, <1>5, none \in Seq(Byte), SkipsField, FieldSteady
<1>7. \E h2 : Steady(h, h2, Len(w))
  BY <1>4, none \in Seq(Byte), SkipSteady
<1>8. /\ \E b2 : Steady(b, b2, Len(w))
      /\ ~IsErr(g) /\ b.used = g.used
  <2> HIDE DEF g
  <2>1. PICK g2 : Steady(g, g2, Len(w))
    BY <1>6
  <2>2. Len(w) \in Nat
    BY <1>4
  <2>3. /\ Steady(b, Numbered(k.nr, g2), Len(w))
        /\ ~IsErr(b) => ~IsErr(g) /\ b.used = g.used
    BY ONLY <2>1, <2>2, NumberedSteady
  <2> QED
    BY <1>3, <2>3
<1>10. ~IsErr(h) /\ h.used = b.used
  BY <1>6, <1>8 DEF Agrees
<1> HIDE DEF b, h, r
<1>11. b = Read(b.value, b.used) /\ h = Read(h.value, h.used)
  BY <1>3, <1>4, <1>7, <1>8, <1>10, OutcomeIs DEF Steady
<1>12. /\ Then(r, b) = Moved(b, r.used) /\ Then(r, h) = Moved(h, r.used)
  BY <1>3 DEF Then
<1>13. /\ Moved(b, r.used).used = b.used + r.used
       /\ Moved(h, r.used).used = h.used + r.used
       /\ ~IsErr(Moved(h, r.used))
  BY <1>3, <1>10, <1>11 DEF Moved, Read, IsErr
<1> QED
  BY <1>1, <1>10, <1>12, <1>13

-----------------------------------------------------------------------------
(* What a reader makes of all of the bytes: the least relation between bytes, *)
(* fields and an error that is closed under one call of next for the end, an  *)
(* error, a field and a field passed over.                                    *)

\* The fields there can be.
Yields(sch) == {FieldOf(sch, s).value : s \in Seq(Byte)}

Errors(sch) == {"none"} \cup {FieldOf(sch, s).err : s \in Seq(Byte)}

Triples(sch) == Seq(Byte) \X Seq(Yields(sch)) \X Errors(sch)

\* What the field at the front of s adds to the fields behind it.
With(sch, s, fields) ==
    IF Names(sch, s) THEN <<FieldOf(sch, s).value>> \o fields ELSE fields

Closed(sch, Q) ==
    /\ <<<< >>, << >>, "none">> \in Q
    /\ \A s \in Seq(Byte) :
          s # << >> /\ IsErr(FieldOf(sch, s)) => <<s, << >>, FieldOf(sch, s).err>> \in Q
    /\ \A s \in Seq(Byte), fields \in Seq(Yields(sch)), e \in Errors(sch) :
          /\ s # << >> /\ ~IsErr(FieldOf(sch, s))
          /\ <<After(s, FieldOf(sch, s).used), fields, e>> \in Q
          => <<s, With(sch, s, fields), e>> \in Q

AllReads(sch) == {x \in Triples(sch) : \A Q \in SUBSET Triples(sch) : Closed(sch, Q) => x \in Q}

\* A reader of s yields `fields`, and then the error e, if e is one.
Reads(sch, s, fields, e) == <<s, fields, e>> \in AllReads(sch)

\* What is read is among what can be read.
LEMMA FieldOfType ==
    ASSUME NEW s \in Seq(Byte), NEW sch
    PROVE  /\ FieldOf(sch, s).value \in Yields(sch) /\ FieldOf(sch, s).err \in Errors(sch)
           /\ ~IsErr(FieldOf(sch, s)) =>
                /\ FieldOf(sch, s).used \in 1..Len(s)
                /\ After(s, FieldOf(sch, s).used) \in Seq(Byte)
           /\ \A fields \in Seq(Yields(sch)) : With(sch, s, fields) \in Seq(Yields(sch))
<1>1. FieldOf(sch, s).value \in Yields(sch) /\ FieldOf(sch, s).err \in Errors(sch)
  BY DEF Yields, Errors
<1>2. ASSUME ~IsErr(FieldOf(sch, s))
      PROVE  /\ FieldOf(sch, s).used \in 1..Len(s)
             /\ After(s, FieldOf(sch, s).used) \in Seq(Byte)
  <2>1. << >> \in Seq(Byte) /\ Len(s) \in Nat
    OBVIOUS
  <2>2. FieldOf(sch, s).used \in 1..Len(s)
    BY <1>2, <2>1, FieldOfSteady
  <2>3. FieldOf(sch, s).used \in 0..Len(s)
    BY <2>1, <2>2
  <2> QED
    BY <2>2, <2>3, Behind
<1>3. ASSUME NEW fields \in Seq(Yields(sch))
      PROVE  With(sch, s, fields) \in Seq(Yields(sch))
  <2> DEFINE Y == Yields(sch)
             v == FieldOf(sch, s).value
  <2>1. v \in Y /\ fields \in Seq(Y)
    BY <1>1
  <2>2. With(sch, s, fields) = IF Names(sch, s) THEN <<v>> \o fields ELSE fields
    BY DEF With
  <2> HIDE DEF Y, v
  <2>3. <<v>> \in Seq(Y)
    BY <2>1
  <2>4. <<v>> \o fields \in Seq(Y)
    BY <2>1, <2>3, ConcatProps
  <2> QED
    BY <2>1, <2>2, <2>4 DEF Y
<1> QED
  BY <1>1, <1>2, <1>3

\* The relation is closed itself,
LEMMA ReadsClosed ==
    ASSUME NEW sch
    PROVE  Closed(sch, AllReads(sch)) /\ AllReads(sch) \subseteq Triples(sch)
<1> DEFINE R == AllReads(sch)
           T == Triples(sch)
           none == << >>
           E == Errors(sch)
           F == Seq(Yields(sch))
<1>1. none \in Seq(Byte) /\ none \in F /\ "none" \in E
  BY DEF Errors
<1>2. \A x : x \in R <=> x \in T /\ \A Q \in SUBSET T : Closed(sch, Q) => x \in Q
  BY DEF AllReads
<1>3. \A s, g, e : <<s, g, e>> \in T <=> s \in Seq(Byte) /\ g \in F /\ e \in E
  BY DEF Triples
<1> HIDE DEF R, T, none, E, F
<1>4. <<none, none, "none">> \in R
  <2>1. \A Q \in SUBSET T : Closed(sch, Q) => <<none, none, "none">> \in Q
    BY DEF Closed, none
  <2> QED
    BY <1>1, <1>2, <1>3, <2>1
<1>5. ASSUME NEW s \in Seq(Byte), s # none, IsErr(FieldOf(sch, s))
      PROVE  <<s, none, FieldOf(sch, s).err>> \in R
  <2>1. \A Q \in SUBSET T : Closed(sch, Q) => <<s, none, FieldOf(sch, s).err>> \in Q
    BY <1>5 DEF Closed, none
  <2>2. FieldOf(sch, s).err \in E
    BY FieldOfType DEF E
  <2> QED
    BY <1>1, <1>2, <1>3, <2>1, <2>2
<1>6. ASSUME NEW s \in Seq(Byte), NEW g \in F, NEW e \in E,
             s # none, ~IsErr(FieldOf(sch, s)),
             <<After(s, FieldOf(sch, s).used), g, e>> \in R
      PROVE  <<s, With(sch, s, g), e>> \in R
  <2>1. With(sch, s, g) \in F
    BY FieldOfType DEF F
  <2>2. ASSUME NEW Q \in SUBSET T, Closed(sch, Q)
        PROVE  <<s, With(sch, s, g), e>> \in Q
    <3>1. <<After(s, FieldOf(sch, s).used), g, e>> \in Q
      BY <1>2, <1>6, <2>2
    <3> QED
      BY <1>6, <2>2, <3>1 DEF Closed, none, F, E
  <2> QED
    BY <1>2, <1>3, <2>1, <2>2
<1>7. Closed(sch, R)
  BY <1>4, <1>5, <1>6 DEF Closed, none, F, E
<1>8. R \subseteq T
  BY <1>2
<1> QED
  BY <1>7, <1>8 DEF R, T

\* and in whatever is closed.
LEMMA ReadsLeast ==
    ASSUME NEW sch, NEW Q \in SUBSET Triples(sch), Closed(sch, Q)
    PROVE  AllReads(sch) \subseteq Q
BY DEF AllReads

\* The rules.
LEMMA ReadsRules ==
    ASSUME NEW sch
    PROVE  /\ Reads(sch, << >>, << >>, "none")
           /\ \A s \in Seq(Byte) :
                s # << >> /\ IsErr(FieldOf(sch, s)) => Reads(sch, s, << >>, FieldOf(sch, s).err)
           /\ \A s \in Seq(Byte) : \A fields, e :
                /\ s # << >> /\ ~IsErr(FieldOf(sch, s))
                /\ Reads(sch, After(s, FieldOf(sch, s).used), fields, e)
                => Reads(sch, s, With(sch, s, fields), e)
           /\ \A s, fields, e : Reads(sch, s, fields, e) =>
                s \in Seq(Byte) /\ fields \in Seq(Yields(sch)) /\ e \in Errors(sch)
<1>1. Closed(sch, AllReads(sch)) /\ AllReads(sch) \subseteq Triples(sch)
  BY ReadsClosed
<1>2. \A s, fields, e : Reads(sch, s, fields, e) =>
          s \in Seq(Byte) /\ fields \in Seq(Yields(sch)) /\ e \in Errors(sch)
  BY <1>1 DEF Reads, Triples
<1> QED
  BY <1>1, <1>2 DEF Closed, Reads

\* There is no other way for a reader to come by what it yields.
LEMMA ReadsInversion ==
    ASSUME NEW sch, NEW s, NEW fields, NEW e, Reads(sch, s, fields, e)
    PROVE  \/ s = << >> /\ fields = << >> /\ e = "none"
           \/ s # << >> /\ IsErr(FieldOf(sch, s)) /\ fields = << >> /\ e = FieldOf(sch, s).err
           \/ /\ s # << >> /\ ~IsErr(FieldOf(sch, s))
              /\ \E rest : /\ Reads(sch, After(s, FieldOf(sch, s).used), rest, e)
                           /\ fields = With(sch, s, rest)
<1> DEFINE Case(w, g, d) ==
               \/ w = << >> /\ g = << >> /\ d = "none"
               \/ w # << >> /\ IsErr(FieldOf(sch, w)) /\ g = << >> /\ d = FieldOf(sch, w).err
               \/ /\ w # << >> /\ ~IsErr(FieldOf(sch, w))
                  /\ \E rest : /\ Reads(sch, After(w, FieldOf(sch, w).used), rest, d)
                               /\ g = With(sch, w, rest)
           Q == {x \in AllReads(sch) : Case(x[1], x[2], x[3])}
<1>1. AllReads(sch) \subseteq Triples(sch)
  BY ReadsClosed
<1>2. \A w, g, d : <<w, g, d>> \in Q <=> Reads(sch, w, g, d) /\ Case(w, g, d)
  <2>1. \A w, g, d : <<w, g, d>>[1] = w /\ <<w, g, d>>[2] = g /\ <<w, g, d>>[3] = d
    OBVIOUS
  <2> HIDE DEF Case
  <2> QED
    BY <2>1 DEF Reads
<1>3. \A w, g, d : Case(w, g, d) <=>
               \/ w = << >> /\ g = << >> /\ d = "none"
               \/ w # << >> /\ IsErr(FieldOf(sch, w)) /\ g = << >> /\ d = FieldOf(sch, w).err
               \/ /\ w # << >> /\ ~IsErr(FieldOf(sch, w))
                  /\ \E rest : /\ Reads(sch, After(w, FieldOf(sch, w).used), rest, d)
                               /\ g = With(sch, w, rest)
  OBVIOUS
<1>4. Q \in SUBSET Triples(sch)
  BY <1>1
<1> HIDE DEF Q, Case
<1>5. <<<< >>, << >>, "none">> \in Q
  BY <1>2, <1>3, ReadsRules
<1>6. ASSUME NEW w \in Seq(Byte), w # << >>, IsErr(FieldOf(sch, w))
      PROVE  <<w, << >>, FieldOf(sch, w).err>> \in Q
  BY <1>2, <1>3, <1>6, ReadsRules
<1>7. ASSUME NEW w \in Seq(Byte), NEW g \in Seq(Yields(sch)), NEW d \in Errors(sch),
             w # << >>, ~IsErr(FieldOf(sch, w)),
             <<After(w, FieldOf(sch, w).used), g, d>> \in Q
      PROVE  <<w, With(sch, w, g), d>> \in Q
  <2>1. Reads(sch, After(w, FieldOf(sch, w).used), g, d)
    BY <1>2, <1>7
  <2>2. Reads(sch, w, With(sch, w, g), d)
    BY <1>7, <2>1, ReadsRules
  <2>3. Case(w, With(sch, w, g), d)
    BY <1>3, <1>7, <2>1
  <2> QED
    BY <1>2, <2>2, <2>3
<1>8. Closed(sch, Q)
  BY <1>5, <1>6, <1>7 DEF Closed
<1>9. <<s, fields, e>> \in Q
  BY <1>4, <1>8, ReadsLeast DEF Reads
<1> QED
  BY <1>2, <1>3, <1>9
-----------------------------------------------------------------------------
(* Two readers of bytes. *)

\* What a reader makes of bytes is determined by them.
LEMMA ReadsOneWay ==
    ASSUME NEW sch, NEW s, NEW g, NEW e, Reads(sch, s, g, e)
    PROVE  \A h, d : Reads(sch, s, h, d) => h = g /\ d = e
<1> DEFINE Same(w, x, y) == \A h, d : Reads(sch, w, h, d) => h = x /\ d = y
           Q == {x \in Triples(sch) : Same(x[1], x[2], x[3])}
<1>1. \A w, x, y : <<w, x, y>> \in Q <=> <<w, x, y>> \in Triples(sch) /\ Same(w, x, y)
  <2>1. \A w, x, y : <<w, x, y>>[1] = w /\ <<w, x, y>>[2] = x /\ <<w, x, y>>[3] = y
    OBVIOUS
  <2> HIDE DEF Same
  <2> QED
    BY <2>1
<1>2. \A w, x, y : <<w, x, y>> \in Triples(sch) <=>
          w \in Seq(Byte) /\ x \in Seq(Yields(sch)) /\ y \in Errors(sch)
  BY DEF Triples
<1>3. Q \in SUBSET Triples(sch)
  OBVIOUS
<1> HIDE DEF Q
<1>4. << >> \in Seq(Byte) /\ << >> \in Seq(Yields(sch)) /\ "none" \in Errors(sch)
  BY DEF Errors
<1>5. <<<< >>, << >>, "none">> \in Q
  <2>1. Same(<< >>, << >>, "none")
    BY ReadsInversion
  <2> HIDE DEF Same
  <2> QED
    BY <1>1, <1>2, <1>4, <2>1
<1>6. ASSUME NEW w \in Seq(Byte), w # << >>, IsErr(FieldOf(sch, w))
      PROVE  <<w, << >>, FieldOf(sch, w).err>> \in Q
  <2>1. Same(w, << >>, FieldOf(sch, w).err)
    BY <1>6, ReadsInversion
  <2>2. FieldOf(sch, w).err \in Errors(sch)
    BY FieldOfType
  <2> HIDE DEF Same
  <2> QED
    BY <1>1, <1>2, <1>4, <2>1, <2>2
<1>7. ASSUME NEW w \in Seq(Byte), NEW x \in Seq(Yields(sch)), NEW y \in Errors(sch),
             w # << >>, ~IsErr(FieldOf(sch, w)),
             <<After(w, FieldOf(sch, w).used), x, y>> \in Q
      PROVE  <<w, With(sch, w, x), y>> \in Q
  <2> DEFINE z == After(w, FieldOf(sch, w).used)
  <2>1. Same(z, x, y)
    BY <1>1, <1>7
  <2>2. ASSUME NEW h, NEW d, Reads(sch, w, h, d)
        PROVE  h = With(sch, w, x) /\ d = y
    <3>1. PICK rest : Reads(sch, z, rest, d) /\ h = With(sch, w, rest)
      BY <1>7, <2>2, ReadsInversion
    <3> QED
      BY <2>1, <3>1
  <2>3. Same(w, With(sch, w, x), y)
    BY <2>2
  <2>4. With(sch, w, x) \in Seq(Yields(sch))
    BY FieldOfType
  <2> HIDE DEF Same
  <2> QED
    BY <1>1, <1>2, <2>3, <2>4
<1>8. Closed(sch, Q)
  BY <1>5, <1>6, <1>7 DEF Closed
<1>9. <<s, g, e>> \in Q
  BY <1>3, <1>8, ReadsLeast DEF Reads
<1>10. Same(s, g, e)
  BY <1>1, <1>9
<1> QED
  BY <1>10

-----------------------------------------------------------------------------
(* The loop over unknown fields. *)

\* f follows steps upwards until they stop.
Follows(f, n, next, stop) ==
    /\ f \in [0..n -> 0..n]
    /\ \A a \in 0..n : f[a] = IF a \in stop THEN a ELSE f[next[a]]

\* There is such a function when every step goes upwards.
LEMMA RecursionDown ==
    ASSUME NEW n \in Nat, NEW next, NEW stop,
           \A a \in 0..n : a \in stop \/ next[a] \in (a + 1)..n
    PROVE  \E f : Follows(f, n, next, stop)
<1> DEFINE V == 0..n
           last == [a \in V |-> a]
           step == [a \in V |-> [v \in V |-> v]]
<1>1. \A a \in V : last[a] = a /\ last[a] \in V /\ step[a] \in [V -> V]
  OBVIOUS
<1>2. \A a \in V : a \notin stop => next[a] \in (a + 1)..n /\ next[a] \in V
  OBVIOUS
<1>3. \A a, v \in V : step[a][v] = v
  OBVIOUS
<1>4. V = 0..n
  OBVIOUS
<1> HIDE DEF last, step, V
<1>5. Climbs(n, V, stop, last, next, step)
  BY <1>1, <1>2, <1>4 DEF Climbs
<1>6. PICK f : Climbing(f, n, V, stop, last, next, step)
  BY <1>5, DownRecursion
<1>7. f \in [0..n -> V]
      /\ \A a \in 0..n : f[a] = IF a \in stop THEN last[a] ELSE step[a][f[next[a]]]
  BY <1>6 DEF Climbing
<1>8. ASSUME NEW a \in 0..n
      PROVE  f[a] = IF a \in stop THEN a ELSE f[next[a]]
  <2>1. a \notin stop => f[next[a]] \in V
    BY <1>2, <1>4, <1>7
  <2> QED
    BY <1>1, <1>3, <1>4, <1>7, <2>1
<1> QED
  BY <1>4, <1>7, <1>8 DEF Follows

\* What Unknown passes over is a field of the schema's reader, and not a named one.
LEMMA UnknownIs ==
    ASSUME NEW w \in Seq(Byte), ~IsErr(Unknown(w))
    PROVE  /\ ~IsErr(FieldOf(schema, w)) /\ FieldOf(schema, w).used = Unknown(w).used
           /\ ~Names(schema, w) /\ w # << >> /\ Unknown(w).used \in 1..Len(w)
<1> DEFINE r == decode_key(w)
           none == << >>
           b == IF r.value.nr \in DOMAIN schema THEN Err("known")
                ELSE skip_field(r.value.wire, After(w, r.used))
<1>1. Unknown(w) = IF IsErr(r) THEN r ELSE Moved(b, r.used)
  BY DEF Unknown, Try
<1>2. ~IsErr(r) /\ ~IsErr(b)
  BY <1>1 DEF Moved
<1>3. IsErr(Err("known"))
  BY DEF Err, IsErr
<1>4. r.value.nr \notin DOMAIN schema
  BY <1>2, <1>3
<1>5. FieldOf(schema, w) = Unknown(w)
  BY <1>4 DEF FieldOf, Unknown, Try
<1>6. FieldOf(schema, w).used \in 1..Len(w)
  BY <1>5, none \in Seq(Byte), FieldOfSteady
<1>7. w # << >>
  BY <1>6
<1> QED
  BY <1>4, <1>5, <1>6, <1>7 DEF Names

\* The loop ends where Unknown fails, and a reader makes nothing of what it passed over.
LEMMA SkipUnknownProps ==
    ASSUME NEW s \in Seq(Byte)
    PROVE  /\ SkipUnknown(s) \in Seq(Byte) /\ IsErr(Unknown(SkipUnknown(s)))
           /\ s = << >> => SkipUnknown(s) = << >>
           /\ \A g, e : Reads(schema, SkipUnknown(s), g, e) => Reads(schema, s, g, e)
<1> DEFINE n == Len(s)
           stop == {a \in 0..n : IsErr(Unknown(After(s, a)))}
           next == [a \in 0..n |-> a + Unknown(After(s, a)).used]
           Is(f) == f = [at \in 0..n |-> IF IsErr(Unknown(After(s, at))) THEN at
                                         ELSE f[at + Unknown(After(s, at)).used]]
           skip == CHOOSE f : Is(f)
<1>1. SkipUnknown(s) = After(s, skip[0])
  BY DEF SkipUnknown
<1>2. n \in Nat /\ 0 \in 0..n /\ After(s, 0) = s
  BY BehindEnds
<1>3. \A a \in 0..n : After(s, a) \in Seq(Byte) /\ Len(After(s, a)) = n - a
  BY Behind
<1>4. ASSUME NEW a \in 0..n, a \notin stop
      PROVE  /\ next[a] \in (a + 1)..n /\ next[a] = a + Unknown(After(s, a)).used
             /\ \A g, e : Reads(schema, After(s, next[a]), g, e) => Reads(schema, After(s, a), g, e)
  <2> DEFINE w == After(s, a)
             k == Unknown(w).used
  <2>1. w \in Seq(Byte) /\ Len(w) = n - a /\ ~IsErr(Unknown(w))
    BY <1>3, <1>4
  <2>2. /\ ~IsErr(FieldOf(schema, w)) /\ FieldOf(schema, w).used = k
        /\ ~Names(schema, w) /\ w # << >> /\ k \in 1..Len(w)
    BY <2>1, UnknownIs
  <2>3. next[a] = a + k
    OBVIOUS
  <2> HIDE DEF n, w, k, next
  <2>4. k \in 0..(n - a) /\ next[a] \in (a + 1)..n
    BY <1>2, <2>1, <2>2, <2>3
  <2>5. After(w, k) = After(s, next[a])
    BY <2>3, <2>4, BehindTwice DEF n, w
  <2>6. \A g : With(schema, w, g) = g
    BY <2>2 DEF With
  <2>7. ASSUME NEW g, NEW e, Reads(schema, After(s, next[a]), g, e)
        PROVE  Reads(schema, w, g, e)
    <3>1. Reads(schema, w, With(schema, w, g), e)
      BY <2>1, <2>2, <2>5, <2>7, ReadsRules
    <3> QED
      BY <2>6, <3>1
  <2> QED
    BY <2>3, <2>4, <2>7 DEF w, k
<1>5. \A a \in 0..n : a \in stop <=> IsErr(Unknown(After(s, a)))
  OBVIOUS
<1>6. \A f : Is(f) <=> f = [a \in 0..n |-> IF a \in stop THEN a ELSE f[next[a]]]
  OBVIOUS
<1> HIDE DEF n, stop, next, Is
<1>7. PICK f : Follows(f, n, next, stop)
  <2>1. \A a \in 0..n : a \in stop \/ next[a] \in (a + 1)..n
    BY <1>4
  <2> QED
    BY <1>2, <2>1, RecursionDown
<1>8. Is(f)
  <2>1. f = [a \in 0..n |-> f[a]]
    BY <1>7 DEF Follows
  <2> QED
    BY <1>6, <1>7, <2>1 DEF Follows
<1>9. Is(skip)
  BY <1>8
<1> HIDE DEF skip
<1>10. \A a \in 0..n : skip[a] = IF a \in stop THEN a ELSE skip[next[a]]
  BY <1>6, <1>9
<1> DEFINE Ends(a) == /\ skip[a] \in stop
                      /\ \A g, e : Reads(schema, After(s, skip[a]), g, e)
                                      => Reads(schema, After(s, a), g, e)
           T == {a \in 0..n : Ends(a)}
<1>11. ASSUME NEW a \in 0..n, \A b \in (a + 1)..n : b \in T
       PROVE  a \in T
  <2>1. CASE a \in stop
    BY <1>10, <2>1
  <2>2. CASE a \notin stop
    <3>1. next[a] \in (a + 1)..n /\ skip[a] = skip[next[a]]
      BY <1>4, <1>10, <2>2
    <3>2. Ends(next[a])
      BY <1>11, <3>1
    <3>3. Ends(a)
      BY <1>4, <2>2, <3>1, <3>2
    <3> QED
      BY <3>3
  <2> QED
    BY <2>1, <2>2
<1>12. Ends(0)
  <2>1. 0 \in T
    <3> HIDE DEF T
    <3> QED
      BY <1>2, <1>11, DownInduction
  <2> QED
    BY <2>1
<1>13. skip[0] \in 0..n
  BY <1>12 DEF stop
<1>14. s = << >> => SkipUnknown(s) = << >>
  <2> SUFFICES ASSUME s = << >>
               PROVE  SkipUnknown(s) = << >>
    OBVIOUS
  <2>1. n = 0
    BY DEF n
  <2>2. skip[0] = 0
    BY <1>13, <2>1
  <2> QED
    BY <1>1, <1>2, <2>2
<1> QED
  BY <1>1, <1>2, <1>3, <1>5, <1>12, <1>13, <1>14


-----------------------------------------------------------------------------
(* One call of next. *)

\* An iterator that has returned an error or None has no bytes left.
Drained == failed # "none" \/ res \in {"none", "error"} => buf = << >>

\* What it yielded and what a reader makes of the bytes that are left is what one
\* makes of all of the bytes.
ReadsOn(all) ==
    IF failed = "none"
    THEN \A g, e : Reads(schema, buf, g, e) => Reads(schema, all, got \o g, e)
    ELSE Reads(schema, all, got, failed)

\* The field next finds is one its schema names.
LEMMA NextIs ==
    ASSUME NEW s, s \in Seq(Byte)
    PROVE  /\ NextField(s) = FieldOf(schema, s)
           /\ IsErr(Unknown(s)) /\ ~IsErr(FieldOf(schema, s)) => Names(schema, s)
<1> DEFINE r == decode_key(s)
<1>1. NextField(s) = FieldOf(schema, s)
  BY DEF NextField, FieldOf
<1>2. ASSUME ~IsErr(FieldOf(schema, s)), ~Names(schema, s)
      PROVE  Unknown(s) = FieldOf(schema, s)
  BY <1>2 DEF Unknown, FieldOf, Try, Names
<1> QED
  BY <1>1, <1>2

\* What a call changes of what is left and of what was yielded.
LEMMA CallStep ==
    ASSUME NEW all, buf \in Seq(Byte), got \in Seq(Yields(schema)), Drained, ReadsOn(all), Next
    PROVE  /\ schema' = schema /\ buf' \in Seq(Byte) /\ got' \in Seq(Yields(schema))
           /\ Drained' /\ ReadsOn(all)'
<1> DEFINE s == SkipUnknown(buf)
           r == FieldOf(schema, s)
           Y == Yields(schema)
           none == << >>
<1>1. /\ s \in Seq(Byte) /\ IsErr(Unknown(s)) /\ (buf = none => s = none)
      /\ \A g, e : Reads(schema, s, g, e) => Reads(schema, buf, g, e)
  BY SkipUnknownProps
<1>2. NextField(s) = r /\ (~IsErr(r) => Names(schema, s))
  BY <1>1, NextIs
<1>4. got \in Seq(Y) /\ buf \in Seq(Byte) /\ none \in Seq(Byte) /\ none \in Seq(Y)
  OBVIOUS
<1>5. ReadsOn(all) <=> IF failed = "none"
                   THEN \A g, e : Reads(schema, buf, g, e) => Reads(schema, all, got \o g, e)
                   ELSE Reads(schema, all, got, failed)
  BY DEF ReadsOn
<1>6. schema' = schema
  BY DEF Next, Yield, Fail, End
<1>7. ReadsOn(all)' <=> IF failed' = "none"
                    THEN \A g, e : Reads(schema, buf', g, e) => Reads(schema, all, got' \o g, e)
                    ELSE Reads(schema, all, got', failed')
  BY <1>6 DEF ReadsOn
<1>8. got \o none = got
  BY <1>4
<1>9. Yields(schema)' = Y
  BY <1>6 DEF Yields
<1> HIDE DEF s, r, Y, none
<1>10. CASE Yield
  <2>1. /\ s # none /\ ~IsErr(r) /\ buf' = After(s, r.used) /\ got' = Append(got, r.value)
        /\ res' = "field" /\ failed' = failed
    BY <1>2, <1>10 DEF Yield, s, none
  <2>2. failed = "none"
    BY <1>1, <2>1 DEF Drained, none
  <2>3. buf' \in Seq(Byte) /\ r.value \in Y
    BY <1>1, <2>1, FieldOfType DEF r, Y
  <2>4. got' = got \o <<r.value>> /\ <<r.value>> \in Seq(Y) /\ got' \in Seq(Y)
    BY <1>4, <2>1, <2>3, AppendIsConcat
  <2>5. ASSUME NEW g, NEW e, Reads(schema, buf', g, e)
        PROVE  Reads(schema, all, got' \o g, e)
    <3>1. g \in Seq(Y)
      BY <2>5, ReadsRules DEF Y
    <3>2. With(schema, s, g) = <<r.value>> \o g
      BY <1>2, <2>1 DEF With, r
    <3>3. Reads(schema, s, <<r.value>> \o g, e)
      <4>1. Reads(schema, s, With(schema, s, g), e)
        BY <1>1, <2>1, <2>5, ReadsRules DEF r, none
      <4> QED
        BY <3>2, <4>1
    <3>4. Reads(schema, all, got \o (<<r.value>> \o g), e)
      BY <1>1, <1>5, <2>2, <3>3
    <3>5. got \o (<<r.value>> \o g) = (got \o <<r.value>>) \o g
      BY <1>4, <2>4, <3>1, ConcatAssociative, SMTT(20)
    <3> QED
      BY <2>4, <3>4, <3>5
  <2>6. Drained'
    BY <2>1, <2>2 DEF Drained
  <2> QED
    BY <1>6, <1>7, <2>1, <2>2, <2>3, <2>4, <2>5, <2>6 DEF Y
<1>11. CASE Fail
  <2>1. /\ s # none /\ IsErr(r) /\ buf' = none /\ failed' = r.err /\ res' = "error"
        /\ got' = got
    BY <1>2, <1>11 DEF Fail, s, none
  <2>2. failed = "none" /\ r.err # "none"
    BY <1>1, <2>1 DEF Drained, IsErr, none
  <2>3. Reads(schema, s, none, r.err)
    BY <1>1, <2>1, ReadsRules DEF r, none
  <2>4. Reads(schema, all, got \o none, r.err)
    BY <1>1, <1>5, <2>2, <2>3
  <2>5. Drained'
    BY <2>1 DEF Drained, none
  <2> QED
    BY <1>4, <1>6, <1>7, <1>8, <2>1, <2>2, <2>4, <2>5 DEF Y
<1>12. CASE End
  <2>1. s = none /\ buf' = none /\ res' = "none" /\ got' = got /\ failed' = failed
    BY <1>12 DEF End, s, none
  <2>2. \A g, e : Reads(schema, none, g, e) => Reads(schema, buf, g, e)
    BY <1>1, <2>1
  <2>3. ReadsOn(all)'
    BY <1>5, <1>7, <2>1, <2>2
  <2>4. Drained'
    BY <2>1 DEF Drained, none
  <2> QED
    BY <1>4, <1>6, <2>1, <2>3, <2>4 DEF Y
<1> QED
  BY <1>10, <1>11, <1>12 DEF Next

\* An iterator that has returned None has read all there is.
LEMMA DoneIs ==
    ASSUME NEW all, got \in Seq(Yields(schema)), Drained, ReadsOn(all), res = "none"
    PROVE  Reads(schema, all, got, failed)
<1> DEFINE none == << >>
<1>1. buf = none /\ got \o none = got
  BY DEF Drained
<1>2. CASE failed = "none"
  <2>1. \A g, e : Reads(schema, buf, g, e) => Reads(schema, all, got \o g, e)
    BY <1>2 DEF ReadsOn
  <2>2. Reads(schema, none, none, "none")
    BY ReadsRules
  <2> HIDE DEF none
  <2> QED
    BY <1>1, <1>2, <2>1, <2>2
<1>3. CASE failed # "none"
  BY <1>3 DEF ReadsOn
<1> QED
  BY <1>2, <1>3

\* What a reader starts from.
LEMMA Fresh ==
    ASSUME NEW sch, NEW all
    PROVE  /\ << >> \in Seq(Yields(sch))
           /\ \A g, e : Reads(sch, all, g, e) => Reads(sch, all, << >> \o g, e)
<1>1. \A g, e : Reads(sch, all, g, e) => g \in Seq(Yields(sch))
  BY ReadsRules
<1> DEFINE Y == Yields(sch)
<1> HIDE DEF Y
<1>2. \A g \in Seq(Y) : << >> \o g = g
  OBVIOUS
<1> QED
  BY <1>1, <1>2 DEF Y

-----------------------------------------------------------------------------
(* Prefixes, and the fields an older reader knows. *)

\* A sequence that has another as a prefix goes on behind it.
LEMMA PrefixGoesOn ==
    ASSUME NEW S, NEW a \in Seq(S), NEW b \in Seq(S), IsPrefix(a, b)
    PROVE  \E c \in Seq(S) : b = a \o c
<1> DEFINE n == Len(a)
           m == Len(b)
           p == Piece(b, 0, n)
           c == Piece(b, n, m)
<1>1. n \in Nat /\ m \in Nat /\ n <= m /\ IsSeq(a) /\ IsSeq(b) /\ 0 \in Nat /\ 0 <= n
  BY SeqOverSet DEF IsPrefix
<1>2. SubSeq(a, 1, n) = SubSeq(b, 1, n)
  BY DEF IsPrefix
<1>3. p = SubSeq(b, 1, n) /\ Piece(a, 0, n) = SubSeq(a, 1, n)
  BY DEF Piece
<1>4. Piece(a, 0, n) = a
  <2>1. \A i \in 1..(n - 0) : a[0 + i] = a[i]
    BY <1>1
  <2>2. Len(a) = n - 0 /\ n <= Len(a)
    BY <1>1
  <2> HIDE DEF n, m
  <2> QED
    BY <1>1, <2>1, <2>2, PieceIs
<1>5. Piece(b, 0, m) = b
  <2>1. \A i \in 1..(m - 0) : b[0 + i] = b[i]
    BY <1>1
  <2>2. Len(b) = m - 0 /\ m <= Len(b) /\ 0 <= m
    BY <1>1
  <2> HIDE DEF n, m
  <2> QED
    BY <1>1, <2>1, <2>2, PieceIs
<1>6. Piece(b, 0, m) = p \o c
  <2>1. m <= Len(b)
    BY <1>1
  <2> HIDE DEF n, m
  <2> QED
    BY <1>1, <2>1, PieceSplit
<1>7. c \in Seq(S)
  <2>1. m <= Len(b)
    BY <1>1
  <2> HIDE DEF n, m
  <2> QED
    BY <1>1, <2>1, PieceType
<1> HIDE DEF p, c, n, m
<1>8. b = a \o c
  BY <1>2, <1>3, <1>4, <1>5, <1>6
<1> QED
  BY <1>7, <1>8

\* The same in front of both.
LEMMA PrefixBehind ==
    ASSUME NEW S, NEW a \in Seq(S), NEW b \in Seq(S), NEW d \in Seq(S), IsPrefix(a, b)
    PROVE  IsPrefix(d \o a, d \o b)
<1>1. PICK c \in Seq(S) : b = a \o c
  BY PrefixGoesOn
<1>2. d \o b = (d \o a) \o c
  BY <1>1, ConcatAssociative
<1>3. d \o a \in Seq(S)
  BY ConcatProps
<1> DEFINE x == d \o a
<1> HIDE DEF x
<1>4. x \in Seq(S) /\ d \o b = x \o c
  BY <1>2, <1>3 DEF x
<1> QED
  BY <1>4, PrefixOfConcat DEF x

\* The shortest and the longest prefix.
LEMMA PrefixEnds ==
    ASSUME NEW S, NEW a \in Seq(S)
    PROVE  IsPrefix(<< >>, a) /\ IsPrefix(a, a)
<1>1. << >> \in Seq(S) /\ << >> \o a = a /\ a \o << >> = a
  OBVIOUS
<1> QED
  BY <1>1, PrefixOfConcat

\* Picking, one after the other, the first n elements of g whose numbers are known.
Picks(f, n, g) ==
    /\ f[0] = << >>
    /\ \A i \in 1..n :
          f[i] = IF g[i][1] \in OldNrs THEN Append(f[i - 1], g[i]) ELSE f[i - 1]

\* There is such a picking.
LEMMA PicksExist ==
    ASSUME NEW S, NEW n \in Nat, NEW g, \A i \in 1..n : g[i] \in S
    PROVE  \E f \in [0..n -> Seq(S)] : Picks(f, n, g)
<1> DEFINE V == Seq(S)
           none == << >>
           next == [i \in 1..n |-> [v \in V |-> IF g[i][1] \in OldNrs THEN Append(v, g[i]) ELSE v]]
<1>1. next \in [1..n -> [V -> V]]
  <2>1. \A i \in 1..n : \A v \in V : Append(v, g[i]) \in V
    OBVIOUS
  <2> HIDE DEF V
  <2> QED
    BY <2>1
<1>2. \A i \in 1..n : \A v \in V :
          next[i][v] = IF g[i][1] \in OldNrs THEN Append(v, g[i]) ELSE v
  OBVIOUS
<1>3. none \in V
  OBVIOUS
<1> HIDE DEF V, none, next
<1>4. \E f \in [0..n -> V] : f[0] = none /\ \A i \in 1..n : f[i] = next[i][f[i - 1]]
  BY <1>1, <1>3, Recursion, SMT
<1>5. PICK f \in [0..n -> V] : f[0] = none /\ \A i \in 1..n : f[i] = next[i][f[i - 1]]
  BY <1>4
<1>6. \A i \in 1..n : f[i] = IF g[i][1] \in OldNrs THEN Append(f[i - 1], g[i]) ELSE f[i - 1]
  <2>1. \A i \in 1..n : f[i - 1] \in V
    BY <1>5
  <2> QED
    BY <1>2, <1>5, <2>1
<1> QED
  BY <1>5, <1>6 DEF Picks, V, none

\* Known is what is picked of all of them.
LEMMA KnownDef ==
    ASSUME NEW S, NEW g \in Seq(S)
    PROVE  \E f \in [0..Len(g) -> Seq(S)] : Picks(f, Len(g), g) /\ Known(g) = f[Len(g)]
<1> DEFINE n == Len(g)
           Is(f) == f = [i \in 0..n |->
                            IF i = 0 THEN << >>
                            ELSE IF g[i][1] \in OldNrs THEN Append(f[i - 1], g[i])
                            ELSE f[i - 1]]
           known == CHOOSE f : Is(f)
<1>1. Known(g) = known[n]
  BY DEF Known
<1>2. n \in Nat /\ \A i \in 1..n : g[i] \in S
  BY ElementOfSeq
<1> HIDE DEF n
<1>3. \A f : Is(f) <=> /\ f = [i \in 0..n |-> f[i]]
                       /\ Picks(f, n, g)
  <2> TAKE f
  <2>1. ASSUME Is(f)
        PROVE  f = [i \in 0..n |-> f[i]] /\ Picks(f, n, g)
    <3>1. \A i \in 0..n : f[i] = IF i = 0 THEN << >>
                                  ELSE IF g[i][1] \in OldNrs THEN Append(f[i - 1], g[i])
                                  ELSE f[i - 1]
      BY <2>1
    <3>2. 0 \in 0..n /\ \A i \in 1..n : i \in 0..n /\ i # 0
      BY <1>2
    <3>3. f = [i \in 0..n |-> f[i]]
      BY <2>1
    <3> HIDE DEF Is
    <3> QED
      BY <3>1, <3>2, <3>3 DEF Picks
  <2>2. ASSUME f = [i \in 0..n |-> f[i]], Picks(f, n, g)
        PROVE  Is(f)
    <3>1. \A i \in 0..n : i = 0 \/ i \in 1..n
      BY <1>2
    <3>2. \A i \in 0..n : f[i] = IF i = 0 THEN << >>
                                  ELSE IF g[i][1] \in OldNrs THEN Append(f[i - 1], g[i])
                                  ELSE f[i - 1]
      BY <2>2, <3>1 DEF Picks
    <3> QED
      BY <2>2, <3>2
  <2> QED
    BY <2>1, <2>2
<1>4. PICK f \in [0..n -> Seq(S)] : Picks(f, n, g)
  BY <1>2, PicksExist
<1>5. Is(f)
  <2>1. f = [i \in 0..n |-> f[i]]
    BY <1>4
  <2> HIDE DEF Is
  <2> QED
    BY <1>3, <1>4, <2>1
<1> HIDE DEF Is
<1>6. Is(known)
  BY <1>5
<1> HIDE DEF known
<1>7. known = [i \in 0..n |-> known[i]] /\ Picks(known, n, g)
  BY <1>3, <1>6
<1> DEFINE T == {i \in Nat : i <= n => known[i] = f[i]}
<1>8. 0 \in T
  BY <1>4, <1>7 DEF Picks
<1>9. ASSUME NEW i \in Nat, i \in T
      PROVE  i + 1 \in T
  <2> SUFFICES ASSUME i + 1 <= n
               PROVE  known[i + 1] = f[i + 1]
    OBVIOUS
  <2> DEFINE j == i + 1
  <2>1. j \in 1..n /\ j - 1 = i /\ i <= n
    BY <1>2
  <2>2. known[i] = f[i]
    BY <1>9, <2>1
  <2> HIDE DEF j
  <2>3. known[j] = f[j]
    BY <1>4, <1>7, <2>1, <2>2 DEF Picks
  <2> QED
    BY <2>3 DEF j
<1> HIDE DEF T
<1>10. Nat \subseteq T
  BY <1>8, <1>9, SetInduction
<1>11. known[n] = f[n]
  BY <1>2, <1>10 DEF T
<1> QED
  BY <1>1, <1>4, <1>11 DEF n

\* Known of one more field in front.
LEMMA KnownProps ==
    ASSUME NEW S, NEW g \in Seq(S), NEW x \in S
    PROVE  /\ Known(g) \in Seq(S)
           /\ Known(<< >>) = << >>
           /\ Known(<<x>> \o g) = IF x[1] \in OldNrs THEN <<x>> \o Known(g) ELSE Known(g)
<1> DEFINE n == Len(g)
           h == <<x>> \o g
           m == Len(h)
           none == << >>
           one == IF x[1] \in OldNrs THEN <<x>> ELSE none
<1>1. /\ h \in Seq(S) /\ m = n + 1 /\ n \in Nat /\ h[1] = x
      /\ \A i \in 1..n : h[i + 1] = g[i]
  OBVIOUS
<1>2. PICK f \in [0..n -> Seq(S)] : Picks(f, n, g) /\ Known(g) = f[n]
  BY KnownDef
<1>3. PICK k \in [0..m -> Seq(S)] : Picks(k, m, h) /\ Known(h) = k[m]
  BY <1>1, KnownDef
<1>4. Known(none) = none
  <2>1. none \in Seq(S) /\ Len(none) = 0
    OBVIOUS
  <2>2. PICK e \in [0..0 -> Seq(S)] : Picks(e, 0, none) /\ Known(none) = e[0]
    BY <2>1, KnownDef
  <2> QED
    BY <2>2 DEF Picks
<1>5. Known(g) \in Seq(S)
  BY <1>1, <1>2
<1>6. one \in Seq(S) /\ one \o none = one
  OBVIOUS
<1> HIDE DEF h, m, n
<1> DEFINE P(i) == k[i + 1] = one \o f[i]
           T == {i \in Nat : i <= n => P(i)}
<1>7. 0 \in T
  <2>1. 1 \in 1..m
    BY <1>1
  <2>2. k[1] = IF x[1] \in OldNrs THEN Append(k[0], x) ELSE k[0]
    <3>1. k[1] = IF h[1][1] \in OldNrs THEN Append(k[1 - 1], h[1]) ELSE k[1 - 1]
      BY <1>3, <2>1 DEF Picks
    <3> QED
      BY <1>1, <3>1
  <2>3. k[0] = none /\ f[0] = none
    BY <1>2, <1>3 DEF Picks
  <2>4. Append(none, x) = <<x>>
    OBVIOUS
  <2>5. k[1] = one
    BY <2>2, <2>3, <2>4
  <2> HIDE DEF one, none
  <2>6. k[0 + 1] = one \o f[0]
    BY <1>6, <2>3, <2>5
  <2> QED
    BY <2>6
<1>8. ASSUME NEW i \in Nat, i \in T
      PROVE  i + 1 \in T
  <2>7. i + 1 \in T <=> (i + 1 <= n => P(i + 1))
    <3>1. \A l \in Nat : l \in T <=> (l <= n => P(l))
      BY DEF T
    <3> HIDE DEF T, P
    <3> QED
      BY <3>1
  <2> SUFFICES ASSUME i + 1 <= n
               PROVE  P(i + 1)
    <3> HIDE DEF T, P
    <3> QED
      BY <2>7
  <2> DEFINE j == i + 1
             l == j + 1
  <2>1. j \in 1..n /\ j - 1 = i /\ l \in 1..m /\ l - 1 = j /\ i <= n /\ i \in 0..n
    BY <1>1
  <2>2. k[j] = one \o f[i]
    BY <1>8, <2>1
  <2>3. h[l] = g[j] /\ g[j] \in S
    BY <1>1, <2>1, ElementOfSeq DEF n
  <2> HIDE DEF j, l, one
  <2>4. /\ f[j] = IF g[j][1] \in OldNrs THEN Append(f[i], g[j]) ELSE f[i]
        /\ k[l] = IF g[j][1] \in OldNrs THEN Append(k[j], g[j]) ELSE k[j]
    BY <1>2, <1>3, <2>1, <2>3 DEF Picks
  <2>5. Append(one \o f[i], g[j]) = one \o Append(f[i], g[j])
    <3>1. f[i] \in Seq(S)
      BY <1>2, <2>1
    <3> DEFINE v == f[i]
               y == g[j]
    <3>2. v \in Seq(S) /\ y \in S
      BY <2>3, <3>1
    <3> HIDE DEF v, y
    <3>3. Append(one \o v, y) = one \o Append(v, y)
      <4>1. one \in Seq(S) /\ one \o v \in Seq(S) /\ <<y>> \in Seq(S)
        BY <1>6, <3>2, ConcatProps
      <4>2. \A c \in Seq(S) : Append(c, y) = c \o <<y>>
        BY <3>2, AppendIsConcat
      <4>3. (one \o v) \o <<y>> = one \o (v \o <<y>>)
        BY <3>2, <4>1, ConcatAssociative
      <4> QED
        BY <3>2, <4>1, <4>2, <4>3
    <3> QED
      BY <3>3 DEF v, y
  <2>6. k[l] = one \o f[j]
    BY <2>2, <2>4, <2>5
  <2> QED
    BY <2>6 DEF j, l
<1> HIDE DEF T, one
<1>9. Nat \subseteq T
  BY <1>7, <1>8, SetInduction
<1>10. Known(h) = one \o Known(g)
  <2>1. n \in T /\ n <= n
    BY <1>1, <1>9
  <2>2. P(n)
    BY <2>1 DEF T
  <2> QED
    BY <1>1, <1>2, <1>3, <2>2
<1>11. none \o Known(g) = Known(g)
  BY <1>5
<1>12. one \o Known(g) = IF x[1] \in OldNrs THEN <<x>> \o Known(g) ELSE Known(g)
  BY <1>11 DEF one
<1> QED
  BY <1>4, <1>5, <1>10, <1>12 DEF h

-----------------------------------------------------------------------------
(* What two readers of bytes have in common. *)

\* old has the fields of sch with the older numbers.
Older(old, sch) ==
    /\ DOMAIN old = DOMAIN sch \cap OldNrs
    /\ \A nr \in DOMAIN old : old[nr] = sch[nr]

\* One field of a newer reader for an older one: both go on behind it, and it counts
\* for both or only for fields the older one does not know.
LEMMA OlderStep ==
    ASSUME NEW sch \in Schemas, NEW old, Older(old, sch), NEW w \in Seq(Byte),
           ~IsErr(FieldOf(sch, w))
    PROVE  /\ ~IsErr(FieldOf(old, w)) /\ FieldOf(old, w).used = FieldOf(sch, w).used
           /\ \E one \in Seq(Yields(sch) \cup Yields(old)) :
                 /\ \A x \in Seq(Yields(sch)) : Known(With(sch, w, x)) = one \o Known(x)
                 /\ \A x : With(old, w, x) = IF Names(old, w) THEN one \o x ELSE x
                 /\ Names(old, w) \/ one = << >>
<1> DEFINE nr == decode_key(w).value.nr
           val == FieldOf(sch, w).value
           Y == Yields(sch)
           none == << >>
<1>1. /\ Names(sch, w) <=> nr \in DOMAIN sch
      /\ Names(old, w) <=> nr \in DOMAIN old
  BY DEF Names
<1>2. Names(old, w) <=> Names(sch, w) /\ nr \in OldNrs
  BY <1>1 DEF Older
<1>3. Names(sch, w) => val[1] = nr
  <2>1. Names(sch, w) => \E x : val = <<nr, x>>
    BY none \in Seq(Byte), FieldOfSteady
  <2> HIDE DEF val, nr
  <2> QED
    BY <2>1
<1>4. val \in Y
  BY FieldOfType
<1>5. Names(old, w) \/ ~Names(sch, w) => FieldOf(old, w) = FieldOf(sch, w)
  <2>1. Names(old, w) => old[nr] = sch[nr]
    BY <1>1 DEF Older
  <2> QED
    BY <1>1, <1>2, <2>1 DEF FieldOf, Try
<1>6. ~IsErr(FieldOf(old, w)) /\ FieldOf(old, w).used = FieldOf(sch, w).used
  <2>1. CASE Names(sch, w) /\ ~Names(old, w)
    BY <2>1, OlderSkips
  <2>2. CASE Names(old, w) \/ ~Names(sch, w)
    BY <1>5, <2>2
  <2> QED
    BY <2>1, <2>2
<1>7. \A x : With(old, w, x) = IF Names(old, w) THEN <<val>> \o x ELSE x
  BY <1>5 DEF With
<1>8. \A x : With(sch, w, x) = IF Names(sch, w) THEN <<val>> \o x ELSE x
  BY DEF With
<1> HIDE DEF nr, val, Y
<1>9. ASSUME NEW x \in Seq(Y)
      PROVE  /\ Known(x) \in Seq(Y) /\ none \o Known(x) = Known(x)
             /\ Known(<<val>> \o x) = IF val[1] \in OldNrs THEN <<val>> \o Known(x) ELSE Known(x)
  <2>1. /\ Known(x) \in Seq(Y)
        /\ Known(<<val>> \o x) = IF val[1] \in OldNrs THEN <<val>> \o Known(x) ELSE Known(x)
    BY <1>4, KnownProps
  <2>2. none \o Known(x) = Known(x)
    BY <2>1
  <2> QED
    BY <2>1, <2>2
<1> DEFINE U == Yields(sch) \cup Yields(old)
           one == IF Names(old, w) THEN <<val>> ELSE none
<1>10. one \in Seq(U)
  <2>1. val \in U
    BY <1>4 DEF Y
  <2> HIDE DEF U
  <2> QED
    BY <2>1
<1>11. \A x : With(old, w, x) = IF Names(old, w) THEN one \o x ELSE x
  BY <1>7
<1>12. ASSUME NEW x \in Seq(Y)
       PROVE  Known(With(sch, w, x)) = one \o Known(x)
  <2>1. CASE Names(old, w)
    BY <1>2, <1>3, <1>8, <1>9, <2>1
  <2>2. CASE ~Names(old, w)
    BY <1>2, <1>3, <1>8, <1>9, <2>2
  <2> QED
    BY <2>1, <2>2
<1>13. Names(old, w) \/ one = << >>
  OBVIOUS
<1> HIDE DEF one, U
<1> QED
  BY <1>6, <1>10, <1>11, <1>12, <1>13 DEF U, Y

\* An older reader of the same bytes.
LEMMA OlderReads ==
    ASSUME NEW sch \in Schemas, NEW old, Older(old, sch),
           NEW s, NEW g, NEW e, Reads(sch, s, g, e)
    PROVE  \A h, d : Reads(old, s, h, d) =>
               /\ IsPrefix(Known(g), h)
               /\ e = "none" => d = "none" /\ h = Known(g)
<1> DEFINE Less(x, y, h, d) == IsPrefix(Known(x), h) /\ (y = "none" => d = "none" /\ h = Known(x))
           Has(w, x, y) == \A h, d : Reads(old, w, h, d) => Less(x, y, h, d)
           Q == {x \in Triples(sch) : Has(x[1], x[2], x[3])}
           S == Yields(sch) \cup Yields(old)
<1>1. \A w, x, y : <<w, x, y>> \in Q <=> <<w, x, y>> \in Triples(sch) /\ Has(w, x, y)
  <2>1. \A w, x, y : <<w, x, y>>[1] = w /\ <<w, x, y>>[2] = x /\ <<w, x, y>>[3] = y
    OBVIOUS
  <2> HIDE DEF Has
  <2> QED
    BY <2>1
<1>2. \A w, x, y : <<w, x, y>> \in Triples(sch) <=>
          w \in Seq(Byte) /\ x \in Seq(Yields(sch)) /\ y \in Errors(sch)
  BY DEF Triples
<1>3. Q \in SUBSET Triples(sch)
  OBVIOUS
<1> HIDE DEF Q
<1>4. << >> \in Seq(Byte) /\ << >> \in Seq(Yields(sch)) /\ "none" \in Errors(sch)
  BY DEF Errors
<1>5. Known(<< >>) = << >>
  <2> DEFINE x == 1
  <2>1. x \in {x} /\ << >> \in Seq({x})
    OBVIOUS
  <2> QED
    BY <2>1, KnownProps
<1>7. ASSUME NEW w, NEW h, NEW d, Reads(old, w, h, d)
      PROVE  h \in Seq(Yields(old)) /\ IsPrefix(<< >>, h)
  <2>1. h \in Seq(Yields(old))
    BY <1>7, ReadsRules
  <2> QED
    BY <2>1, PrefixEnds
<1>8. <<<< >>, << >>, "none">> \in Q
  <2>1. ASSUME NEW h, NEW d, Reads(old, << >>, h, d)
        PROVE  Less(<< >>, "none", h, d)
    <3>1. h = << >> /\ d = "none"
      BY <2>1, ReadsInversion
    <3> QED
      BY <1>5, <1>7, <2>1, <3>1
  <2>2. Has(<< >>, << >>, "none")
    BY <2>1
  <2> HIDE DEF Has
  <2> QED
    BY <1>1, <1>2, <1>4, <2>2
<1>9. ASSUME NEW w \in Seq(Byte), w # << >>, IsErr(FieldOf(sch, w))
      PROVE  <<w, << >>, FieldOf(sch, w).err>> \in Q
  <2>1. FieldOf(sch, w).err \in Errors(sch) /\ FieldOf(sch, w).err # "none"
    BY <1>9, FieldOfType DEF IsErr
  <2>2. Has(w, << >>, FieldOf(sch, w).err)
    BY <1>5, <1>7, <2>1
  <2> HIDE DEF Has
  <2> QED
    BY <1>1, <1>2, <1>4, <2>1, <2>2
<1>10. ASSUME NEW w \in Seq(Byte), NEW x \in Seq(Yields(sch)), NEW y \in Errors(sch),
              w # << >>, ~IsErr(FieldOf(sch, w)),
              <<After(w, FieldOf(sch, w).used), x, y>> \in Q
       PROVE  <<w, With(sch, w, x), y>> \in Q
  <2> DEFINE z == After(w, FieldOf(sch, w).used)
             xs == With(sch, w, x)
  <2>1. Has(z, x, y)
    BY <1>1, <1>10
  <2>2. PICK one \in Seq(S) :
            /\ Known(xs) = one \o Known(x)
            /\ \A v : With(old, w, v) = IF Names(old, w) THEN one \o v ELSE v
            /\ Names(old, w) \/ one = << >>
    BY <1>10, OlderStep
  <2>3. ~IsErr(FieldOf(old, w)) /\ After(w, FieldOf(old, w).used) = z
    BY <1>10, OlderStep, SMTT(20)
  <2>4. ASSUME NEW h, NEW d, Reads(old, w, h, d)
        PROVE  Less(xs, y, h, d)
    <3>1. PICK rest : Reads(old, z, rest, d) /\ h = With(old, w, rest)
      BY <1>10, <2>3, <2>4, ReadsInversion
    <3>2. Less(x, y, rest, d)
      BY <2>1, <3>1
    <3>3. rest \in Seq(Yields(old)) /\ rest \in Seq(S)
      <4>1. rest \in Seq(Yields(old))
        BY <1>7, <3>1
      <4>2. Yields(old) \subseteq S
        OBVIOUS
      <4> HIDE DEF S
      <4> QED
        BY <4>1, <4>2
    <3>4. Known(x) \in Seq(S)
      <4>1. x \in Seq(Yields(sch)) /\ FieldOf(sch, w).value \in Yields(sch)
        BY FieldOfType
      <4>2. Known(x) \in Seq(Yields(sch))
        BY <4>1, KnownProps
      <4>3. Yields(sch) \subseteq S
        OBVIOUS
      <4> HIDE DEF S
      <4> QED
        BY <4>2, <4>3
    <3> HIDE DEF S, xs, z
    <3>5. h = one \o rest
      <4>1. one = << >> => one \o rest = rest
        BY <3>3
      <4> QED
        BY <2>2, <3>1, <4>1
    <3>6. IsPrefix(one \o Known(x), one \o rest)
      BY <3>2, <3>3, <3>4, PrefixBehind
    <3>7. y = "none" => d = "none" /\ h = Known(xs)
      BY <2>2, <3>2, <3>5
    <3> QED
      BY <2>2, <3>5, <3>6, <3>7
  <2>5. Has(w, xs, y)
    BY <2>4
  <2>6. xs \in Seq(Yields(sch))
    BY FieldOfType
  <2> HIDE DEF Has
  <2> QED
    BY <1>1, <1>2, <2>5, <2>6
<1>11. Closed(sch, Q)
  BY <1>8, <1>9, <1>10 DEF Closed
<1>12. <<s, g, e>> \in Q
  BY <1>3, <1>11, ReadsLeast DEF Reads
<1>13. Has(s, g, e)
  BY <1>1, <1>12
<1> QED
  BY <1>13

\* Bytes that go on behind those read.
LEMMA HeadStep ==
    ASSUME NEW sch, NEW w \in Seq(Byte), NEW t \in Seq(Byte), w # << >>
    PROVE  /\ w \o t \in Seq(Byte) /\ w \o t # << >>
           /\ IsErr(FieldOf(sch, w)) /\ FieldOf(sch, w).err # "Truncated" =>
                IsErr(FieldOf(sch, w \o t)) /\ FieldOf(sch, w \o t).err = FieldOf(sch, w).err
           /\ ~IsErr(FieldOf(sch, w)) =>
                /\ ~IsErr(FieldOf(sch, w \o t))
                /\ After(w \o t, FieldOf(sch, w \o t).used) = After(w, FieldOf(sch, w).used) \o t
                /\ \E one \in Seq(Yields(sch)) : \A x \in Seq(Yields(sch)) :
                      With(sch, w, x) = one \o x /\ With(sch, w \o t, x) = one \o x
<1> DEFINE u == w \o t
           r == FieldOf(sch, w)
           q == FieldOf(sch, u)
           Y == Yields(sch)
           none == << >>
<1>1. u \in Seq(Byte) /\ Len(u) = Len(w) + Len(t) /\ Len(w) \in Nat \ {0} /\ Len(t) \in Nat
  OBVIOUS
<1>2. u # << >>
  BY <1>1
<1>3. Stays(r, q)
  BY FieldOfSteady DEF Steady
<1>4. ~IsErr(r) => r.used \in 1..Len(w) /\ (Names(sch, u) <=> Names(sch, w))
  BY FieldOfSteady
<1>5. \A n \in 0..Len(w) : After(u, n) = After(w, n) \o t
  BY BehindBoth
<1>6. r.value \in Y
  BY FieldOfType
<1>7. /\ \A x : With(sch, w, x) = IF Names(sch, w) THEN <<r.value>> \o x ELSE x
      /\ \A x : With(sch, u, x) = IF Names(sch, u) THEN <<q.value>> \o x ELSE x
  BY DEF With
<1> HIDE DEF u, r, q, Y
<1>8. IsErr(r) /\ r.err # "Truncated" => IsErr(q) /\ q.err = r.err
  BY <1>3 DEF Stays
<1>9. ASSUME ~IsErr(r)
      PROVE  /\ ~IsErr(q) /\ After(u, q.used) = After(w, r.used) \o t
             /\ \E one \in Seq(Y) : \A x \in Seq(Y) :
                   With(sch, w, x) = one \o x /\ With(sch, u, x) = one \o x
  <2>1. q = r
    BY <1>3, <1>9 DEF Stays, IsErr
  <2>2. r.used \in 0..Len(w)
    BY <1>1, <1>4, <1>9
  <2> DEFINE one == IF Names(sch, w) THEN <<r.value>> ELSE none
  <2>3. one \in Seq(Y)
    BY <1>6
  <2>4. ASSUME NEW x \in Seq(Y)
        PROVE  With(sch, w, x) = one \o x /\ With(sch, u, x) = one \o x
    <3>1. none \o x = x
      OBVIOUS
    <3>2. CASE Names(sch, w)
      BY <1>4, <1>7, <1>9, <2>1, <3>2
    <3>3. CASE ~Names(sch, w)
      BY <1>4, <1>7, <1>9, <3>1, <3>3
    <3> QED
      BY <3>2, <3>3
  <2> HIDE DEF one
  <2> QED
    BY <1>5, <1>9, <2>1, <2>2, <2>3, <2>4
<1> QED
  BY <1>1, <1>2, <1>8, <1>9 DEF u, r, q, Y

\* What all of the bytes give, when those in front of t give g and e.
GoesOn(sch, t, g, e, all, d) ==
    /\ IsPrefix(g, all)
    /\ e \notin {"none", "Truncated"} => all = g /\ d = e
    /\ e = "none" => \A h, c : Reads(sch, t, h, c) => all = g \o h /\ d = c

\* A reader of the first bytes, and one of those behind them too.
LEMMA HeadReads ==
    ASSUME NEW sch, NEW t \in Seq(Byte), NEW s, NEW g, NEW e, Reads(sch, s, g, e)
    PROVE  \A all, d : Reads(sch, s \o t, all, d) => GoesOn(sch, t, g, e, all, d)
<1> DEFINE Goes(x, y, all, d) ==
               /\ IsPrefix(x, all)
               /\ y \notin {"none", "Truncated"} => all = x /\ d = y
               /\ y = "none" => \A h, c : Reads(sch, t, h, c) => all = x \o h /\ d = c
           Has(w, x, y) == \A all, d : Reads(sch, w \o t, all, d) => Goes(x, y, all, d)
           Q == {x \in Triples(sch) : Has(x[1], x[2], x[3])}
           S == Yields(sch)
           none == << >>
<1>1. \A w, x, y : <<w, x, y>> \in Q <=> <<w, x, y>> \in Triples(sch) /\ Has(w, x, y)
  <2>1. \A w, x, y : <<w, x, y>>[1] = w /\ <<w, x, y>>[2] = x /\ <<w, x, y>>[3] = y
    OBVIOUS
  <2> HIDE DEF Has
  <2> QED
    BY <2>1
<1>2. \A w, x, y : <<w, x, y>> \in Triples(sch) <=>
          w \in Seq(Byte) /\ x \in Seq(S) /\ y \in Errors(sch)
  BY DEF Triples
<1>3. Q \in SUBSET Triples(sch)
  OBVIOUS
<1> HIDE DEF Q
<1>4. none \in Seq(Byte) /\ none \in Seq(S) /\ "none" \in Errors(sch) /\ none \o t = t
  BY DEF Errors
<1>5. ASSUME NEW w, NEW h, NEW d, Reads(sch, w, h, d)
      PROVE  h \in Seq(S) /\ IsPrefix(none, h) /\ none \o h = h
  <2>1. h \in Seq(S)
    BY <1>5, ReadsRules
  <2> HIDE DEF S
  <2> QED
    BY <2>1, PrefixEnds
<1> HIDE DEF S, none
<1>6. <<none, none, "none">> \in Q
  <2>1. ASSUME NEW all, NEW d, Reads(sch, t, all, d)
        PROVE  Goes(none, "none", all, d)
    <3>1. \A h, c : Reads(sch, t, h, c) => h = all /\ c = d
      BY <2>1, ReadsOneWay
    <3>2. \A h, c : Reads(sch, t, h, c) => all = none \o h /\ d = c
      BY <1>5, <2>1, <3>1
    <3> QED
      BY <1>5, <2>1, <3>2
  <2>2. Has(none, none, "none")
    BY <1>4, <2>1
  <2> HIDE DEF Has
  <2> QED
    BY <1>1, <1>2, <1>4, <2>2
<1>7. ASSUME NEW w \in Seq(Byte), w # none, IsErr(FieldOf(sch, w))
      PROVE  <<w, none, FieldOf(sch, w).err>> \in Q
  <2> DEFINE y == FieldOf(sch, w).err
  <2>1. y \in Errors(sch) /\ y # "none"
    BY <1>7, FieldOfType DEF IsErr
  <2>2. ASSUME NEW all, NEW d, Reads(sch, w \o t, all, d)
        PROVE  Goes(none, y, all, d)
    <3>1. CASE y = "Truncated"
      BY <1>5, <2>1, <2>2, <3>1
    <3>2. CASE y # "Truncated"
      <4>1. /\ w \o t # << >> /\ IsErr(FieldOf(sch, w \o t))
            /\ FieldOf(sch, w \o t).err = y
        BY <1>7, <3>2, HeadStep DEF none
      <4>2. all = none /\ d = y
        BY <2>2, <4>1, ReadsInversion DEF none
      <4> HIDE DEF y
      <4> QED
        BY <1>5, <2>1, <2>2, <3>2, <4>2
    <3> QED
      BY <3>1, <3>2
  <2>3. Has(w, none, y)
    BY <2>2
  <2> HIDE DEF Has, y
  <2>4. <<w, none, y>> \in Q
    BY <1>1, <1>2, <1>4, <2>1, <2>3
  <2> QED
    BY <2>4 DEF y
<1>8. ASSUME NEW w \in Seq(Byte), NEW x \in Seq(S), NEW y \in Errors(sch),
             w # none, ~IsErr(FieldOf(sch, w)),
             <<After(w, FieldOf(sch, w).used), x, y>> \in Q
      PROVE  <<w, With(sch, w, x), y>> \in Q
  <2> DEFINE u == w \o t
             z == After(w, FieldOf(sch, w).used)
             xs == With(sch, w, x)
  <2>1. Has(z, x, y)
    <3> HIDE DEF Has
    <3> QED
      BY <1>1, <1>8
  <2>2. /\ u \in Seq(Byte) /\ u # << >> /\ ~IsErr(FieldOf(sch, u))
        /\ After(u, FieldOf(sch, u).used) = z \o t
    BY <1>8, HeadStep DEF none
  <2>3. PICK one \in Seq(S) : \A v \in Seq(S) :
            With(sch, w, v) = one \o v /\ With(sch, u, v) = one \o v
    BY <1>8, HeadStep DEF none, S
  <2> HIDE DEF u, z
  <2>4. ASSUME NEW all, NEW d, Reads(sch, u, all, d)
        PROVE  Goes(xs, y, all, d)
    <3>1. PICK rest : Reads(sch, z \o t, rest, d) /\ all = With(sch, u, rest)
      <4>1. \E rest : /\ Reads(sch, After(u, FieldOf(sch, u).used), rest, d)
                      /\ all = With(sch, u, rest)
        <5>1. u # << >> /\ ~IsErr(FieldOf(sch, u))
          BY <2>2
        <5>2. Reads(sch, u, all, d)
          BY <2>4
        <5> HIDE DEF Goes, Has
        <5> QED
          BY <5>1, <5>2, ReadsInversion
      <4> QED
        BY <2>2, <4>1
    <3>2. Goes(x, y, rest, d)
      BY <2>1, <3>1
    <3>3. rest \in Seq(S)
      BY <1>5, <3>1
    <3>4. all = one \o rest /\ xs = one \o x
      BY <2>3, <3>1, <3>3
    <3> HIDE DEF xs
    <3>5. IsPrefix(one \o x, one \o rest)
      BY <3>2, <3>3, PrefixBehind
    <3>6. ASSUME y = "none", NEW h, NEW c, Reads(sch, t, h, c)
          PROVE  all = xs \o h /\ d = c
      <4>1. rest = x \o h /\ d = c
        BY <3>2, <3>6
      <4>2. h \in Seq(S)
        BY <1>5, <3>6
      <4>3. one \o (x \o h) = (one \o x) \o h
        BY <4>2, ConcatAssociative
      <4> QED
        BY <3>4, <4>1, <4>3
    <3> QED
      BY <3>2, <3>4, <3>5, <3>6
  <2>5. Has(w, xs, y)
    BY <2>4 DEF u
  <2>6. xs \in Seq(S)
    BY FieldOfType DEF S
  <2> HIDE DEF Has
  <2> QED
    BY <1>1, <1>2, <2>5, <2>6
<1>9. Closed(sch, Q)
  BY <1>6, <1>7, <1>8 DEF Closed, none, S
<1>10. <<s, g, e>> \in Q
  BY <1>3, <1>9, ReadsLeast DEF Reads
<1>11. Has(s, g, e)
  BY <1>1, <1>10
<1> QED
  BY <1>11 DEF GoesOn


-----------------------------------------------------------------------------
(* The readers at work. *)

\* The i-th reader's schema and bytes.
SchemaFor(i) == IF i = 2 THEN OldSchema ELSE newest

BytesFor(i) ==
    IF i = 3 THEN SubSeq(message, 1, cut) ELSE IF i = 4 THEN After(message, cut) ELSE message

\* A reading is all of what a reader of its schema makes of its bytes.
FullReading(i, r) ==
    /\ r = [got |-> r.got, failed |-> r.failed]
    /\ Reads(SchemaFor(i), BytesFor(i), r.got, r.failed)

TypeOK ==
    /\ newest \in Schemas /\ message \in Seq(Byte) /\ cut \in 0..Len(message)
    /\ IsSeq(earlier) /\ Len(earlier) \in 0..3
    /\ schema = SchemaFor(Len(earlier) + 1)
    /\ buf \in Seq(Byte) /\ got \in Seq(Yields(schema))

Underway == ReadsOn(BytesFor(Len(earlier) + 1))

IInv ==
    /\ TypeOK /\ Drained /\ Underway
    /\ \A i \in 1..Len(earlier) : FullReading(i, earlier[i])

\* A reader that has returned None has read all there is.
LEMMA DoneReads ==
    ASSUME IInv, res = "none"
    PROVE  FullReading(Len(earlier) + 1, Reading)
<1> DEFINE i == Len(earlier) + 1
<1>1. schema = SchemaFor(i)
  BY DEF IInv, TypeOK
<1>2. Reads(schema, BytesFor(i), got, failed)
  <2>1. PICK all : all = BytesFor(i)
    OBVIOUS
  <2>2. ReadsOn(all) /\ Drained /\ got \in Seq(Yields(schema))
    BY <2>1 DEF IInv, TypeOK, Underway
  <2> QED
    BY <2>1, <2>2, DoneIs
<1>3. Reading.got = got /\ Reading.failed = failed
  BY DEF Reading
<1> HIDE DEF i
<1>4. FullReading(i, Reading)
  BY <1>1, <1>2, <1>3 DEF FullReading, Reading
<1> QED
  BY <1>4 DEF i

\* The next reader starts,
Begins ==
    /\ Len(earlier) \in 0..2
    /\ Start(SchemaFor(Len(earlier) + 2), BytesFor(Len(earlier) + 2))
    /\ BytesFor(Len(earlier) + 2) \in Seq(Byte)

\* ... and the invariant holds for it.
LEMMA StartStep ==
    ASSUME IInv, Begins
    PROVE  IInv'
<1>1. /\ newest \in Schemas /\ message \in Seq(Byte) /\ cut \in 0..Len(message)
      /\ IsSeq(earlier)
      /\ newest' = newest /\ message' = message /\ cut' = cut
      /\ earlier' = Append(earlier, Reading) /\ res = "none"
      /\ schema' = SchemaFor(Len(earlier) + 2) /\ buf' = BytesFor(Len(earlier) + 2)
      /\ buf' \in Seq(Byte) /\ got' = << >> /\ failed' = "none" /\ res' = "not called"
  BY DEF IInv, TypeOK, given, Begins, Start
<1> DEFINE none == << >>
           k == Len(earlier)
<1>9. k \in 0..2
  BY DEF Begins
<1>2. /\ IsSeq(earlier') /\ Len(earlier') = k + 1
      /\ \A i \in 1..k : earlier'[i] = earlier[i]
      /\ earlier'[k + 1] = Reading
  <2>1. \A x : /\ IsSeq(Append(earlier, x)) /\ Len(Append(earlier, x)) = k + 1
               /\ \A i \in 1..k : Append(earlier, x)[i] = earlier[i]
               /\ Append(earlier, x)[k + 1] = x
    <3>1. IsSeq(earlier)
      BY <1>1
    <3> QED
      BY <3>1, AppendFacts
  <2> HIDE DEF k
  <2> QED
    BY <1>1, <2>1
<1>3. \A i : SchemaFor(i)' = SchemaFor(i) /\ BytesFor(i)' = BytesFor(i)
  BY <1>1 DEF SchemaFor, OldSchema, BytesFor
<1>4. Len(earlier') + 1 = k + 2 /\ k + 1 \in 0..3
  <2>1. Len(earlier') = k + 1
    BY <1>2
  <2> HIDE DEF k
  <2> QED
    BY <1>9, <2>1
<1>5. TypeOK'
  <2>1. schema' = SchemaFor(Len(earlier) + 1)'
    BY <1>1, <1>3, <1>4
  <2>2. got' \in Seq(Yields(schema))'
    <3>1. none \in Seq(Yields(schema'))
      BY Fresh
    <3>2. Yields(schema)' = Yields(schema')
      BY DEF Yields
    <3> QED
      BY <1>1, <3>1, <3>2
  <2> QED
    BY <1>1, <1>2, <1>4, <2>1, <2>2 DEF TypeOK
<1>6. Drained'
  BY <1>1 DEF Drained
<1>7. Underway'
  <2>1. \A g, e : Reads(schema', buf', g, e) => Reads(schema', buf', none \o g, e)
    BY Fresh
  <2>2. BytesFor(Len(earlier) + 1)' = buf'
    BY <1>1, <1>3, <1>4
  <2> QED
    BY <1>1, <2>1, <2>2 DEF Underway, ReadsOn
<1>8. ASSUME NEW i \in 1..(k + 1)
      PROVE  FullReading(i, earlier[i])'
  <2>1. FullReading(i, (earlier')[i])
    <3>1. CASE i = k + 1
      BY <1>1, <1>2, <3>1, DoneReads
    <3>2. CASE i \in 1..k
      <4>1. FullReading(i, earlier[i]) /\ (earlier')[i] = earlier[i]
        BY <1>2, <3>2 DEF IInv
      <4> QED
        BY <4>1
    <3>3. k \in Nat
      BY <1>9
    <3>4. i = k + 1 \/ i \in 1..k
      BY <3>3
    <3> HIDE DEF k
    <3> QED
      BY <3>1, <3>2, <3>4
  <2> QED
    BY <1>3, <2>1 DEF FullReading
<1> QED
  BY <1>2, <1>5, <1>6, <1>7, <1>8 DEF IInv

\* The invariant holds at first,
LEMMA IInvInit == UpgradeInit => IInv
<1> SUFFICES ASSUME UpgradeInit
             PROVE  IInv
  OBVIOUS
<1>1. /\ schema \in Schemas /\ buf \in Seq(Byte) /\ newest = schema /\ message = buf
      /\ cut \in 0..Len(message) /\ got = << >> /\ failed = "none" /\ res = "not called"
  BY FieldIterAssumption DEF UpgradeInit, Init
<1>2. IsSeq(earlier) /\ Len(earlier) = 0
  BY DEF UpgradeInit, IsSeq
<1>3. Len(earlier) + 1 = 1 /\ SchemaFor(1) = schema /\ BytesFor(1) = buf
  <2>1. newest = schema /\ message = buf
    BY <1>1
  <2>2. SchemaFor(1) = newest /\ BytesFor(1) = message
    BY DEF SchemaFor, BytesFor
  <2> QED
    BY <1>2, <2>1, <2>2
<1>4. TypeOK
  <2>1. got \in Seq(Yields(schema))
    BY <1>1, Fresh
  <2>2. Len(earlier) \in 0..3
    BY <1>2
  <2>3. schema = SchemaFor(Len(earlier) + 1)
    BY <1>3
  <2> QED
    BY <1>1, <1>2, <2>1, <2>2, <2>3 DEF TypeOK
<1>5. Drained
  BY <1>1 DEF Drained
<1>6. Underway
  BY <1>1, <1>3, Fresh DEF Underway, ReadsOn
<1> QED
  BY <1>2, <1>4, <1>5, <1>6 DEF IInv

\* and every step keeps it.
LEMMA IInvStep == IInv /\ [UpgradeNext]_<<vars, given, earlier>> => IInv'
<1> SUFFICES ASSUME IInv, [UpgradeNext]_<<vars, given, earlier>>
             PROVE  IInv'
  OBVIOUS
<1>1. /\ newest \in Schemas /\ message \in Seq(Byte) /\ cut \in 0..Len(message)
      /\ Len(earlier) \in 0..3 /\ schema = SchemaFor(Len(earlier) + 1)
  BY DEF IInv, TypeOK
<1>2. CASE Call
  <2>1. Next /\ UNCHANGED <<given, earlier>>
    BY <1>2 DEF Call
  <2>2. /\ schema' = schema /\ buf' \in Seq(Byte) /\ got' \in Seq(Yields(schema))
        /\ Drained' /\ Underway'
    <3>1. PICK all : all = BytesFor(Len(earlier) + 1)
      OBVIOUS
    <3>2. BytesFor(Len(earlier) + 1)' = all
      BY <2>1, <3>1 DEF BytesFor, given
    <3>3. /\ schema' = schema /\ buf' \in Seq(Byte) /\ got' \in Seq(Yields(schema))
          /\ Drained' /\ ReadsOn(all)'
      BY <2>1, <3>1, CallStep DEF IInv, TypeOK, Underway
    <3> QED
      BY <3>2, <3>3 DEF Underway, ReadsOn
  <2>3. \A i : SchemaFor(i)' = SchemaFor(i) /\ BytesFor(i)' = BytesFor(i)
    BY <2>1 DEF SchemaFor, OldSchema, BytesFor, given
  <2>4. TypeOK'
    <3>1. Yields(schema)' = Yields(schema)
      BY <2>2 DEF Yields
    <3>2. SchemaFor(Len(earlier) + 1)' = SchemaFor(Len(earlier) + 1)
      BY <2>1, <2>3
    <3> QED
      BY <2>1, <2>2, <3>1, <3>2 DEF IInv, TypeOK, given
  <2>5. \A i \in 1..Len(earlier) : FullReading(i, earlier[i])'
    BY <2>1, <2>3 DEF IInv, FullReading
  <2> QED
    BY <2>1, <2>2, <2>4, <2>5 DEF IInv
<1>3. CASE StartOld
  <2>1. BytesFor(2) = message /\ SchemaFor(2) = OldSchema
    BY DEF BytesFor, SchemaFor
  <2>2. Len(earlier) \in 0..2 /\ Len(earlier) + 2 = 2
    BY <1>3 DEF StartOld
  <2> QED
    BY <1>1, <1>3, <2>1, <2>2, StartStep DEF StartOld, Begins
<1>4. CASE StartHead
  <2>1. BytesFor(3) = SubSeq(message, 1, cut) /\ SchemaFor(3) = newest
    BY DEF BytesFor, SchemaFor
  <2>2. SubSeq(message, 1, cut) \in Seq(Byte)
    BY <1>1, Behind
  <2>3. Len(earlier) \in 0..2 /\ Len(earlier) + 2 = 3
    BY <1>4 DEF StartHead
  <2> QED
    BY <1>4, <2>1, <2>2, <2>3, StartStep DEF StartHead, Begins
<1>5. CASE StartRest
  <2>1. BytesFor(4) = After(message, cut) /\ SchemaFor(4) = newest
    BY DEF BytesFor, SchemaFor
  <2>2. After(message, cut) \in Seq(Byte)
    BY <1>1, Behind
  <2>3. Len(earlier) \in 0..2 /\ Len(earlier) + 2 = 4
    BY <1>5 DEF StartRest
  <2> QED
    BY <1>5, <2>1, <2>2, <2>3, StartStep DEF StartRest, Begins
<1>6. CASE UNCHANGED <<vars, given, earlier>>
  <2>1. /\ schema' = schema /\ buf' = buf /\ got' = got /\ failed' = failed /\ res' = res
        /\ newest' = newest /\ message' = message /\ cut' = cut /\ earlier' = earlier
    BY <1>6 DEF vars, given
  <2>2. \A i : SchemaFor(i)' = SchemaFor(i) /\ BytesFor(i)' = BytesFor(i)
    BY <2>1 DEF SchemaFor, OldSchema, BytesFor
  <2>3. Yields(schema)' = Yields(schema)
    BY <2>1 DEF Yields
  <2>4. TypeOK'
    <3>1. SchemaFor(Len(earlier) + 1)' = SchemaFor(Len(earlier) + 1)
      BY <2>1, <2>2
    <3> QED
      BY <2>1, <2>3, <3>1 DEF IInv, TypeOK
  <2>5. Drained'
    BY <2>1 DEF IInv, Drained
  <2>6. Underway'
    BY <2>1, <2>2 DEF IInv, Underway, ReadsOn
  <2>7. \A i \in 1..Len(earlier) : FullReading(i, earlier[i])'
    BY <2>1, <2>2 DEF IInv, FullReading
  <2> QED
    BY <2>1, <2>4, <2>5, <2>6, <2>7 DEF IInv
<1> QED
  BY <1>2, <1>3, <1>4, <1>5, <1>6 DEF UpgradeNext

\* What is in Readings, in the order of the readers.
LEMMA ReadingsAre ==
    ASSUME IInv
    PROVE  \A i \in 1..Len(Readings) : FullReading(i, Readings[i])
<1>1. IsSeq(earlier) /\ Len(earlier) \in Nat
  BY DEF IInv, TypeOK
<1>2. CASE res = "none"
  <2>1. /\ Readings = Append(earlier, Reading)
        /\ Len(Readings) = Len(earlier) + 1
        /\ \A i \in 1..Len(earlier) : Readings[i] = earlier[i]
        /\ Readings[Len(earlier) + 1] = Reading
    BY <1>1, <1>2, AppendFacts DEF Readings
  <2>2. FullReading(Len(earlier) + 1, Reading)
    BY <1>2, DoneReads
  <2>3. \A i \in 1..(Len(earlier) + 1) : i \in 1..Len(earlier) \/ i = Len(earlier) + 1
    BY <1>1
  <2> QED
    BY <2>1, <2>2, <2>3 DEF IInv
<1>3. CASE res # "none"
  BY <1>3 DEF IInv, Readings
<1> QED
  BY <1>2, <1>3

\* The two halves of bytes are the bytes.
LEMMA TwoHalves ==
    ASSUME NEW s \in Seq(Byte), NEW n \in 0..Len(s)
    PROVE  SubSeq(s, 1, n) \o After(s, n) = s
<1> DEFINE m == Len(s)
<1>1. IsSeq(s) /\ m \in Nat /\ n \in Nat /\ 0 \in Nat /\ 0 <= n /\ n <= m /\ m <= Len(s)
  BY SeqOverSet
<1>2. Piece(s, 0, n) = SubSeq(s, 1, n) /\ Piece(s, n, m) = After(s, n)
  BY DEF Piece, After
<1>3. Piece(s, 0, m) = s
  <2>1. \A i \in 1..(m - 0) : s[0 + i] = s[i]
    BY <1>1
  <2>2. Len(s) = m - 0 /\ 0 <= m
    BY <1>1
  <2> HIDE DEF m
  <2> QED
    BY <1>1, <2>1, <2>2, PieceIs
<1> HIDE DEF m
<1>4. Piece(s, 0, m) = Piece(s, 0, n) \o Piece(s, n, m)
  BY <1>1, PieceSplit
<1> QED
  BY <1>2, <1>3, <1>4

\* A message and its halves.
LEMMA HalvesRead ==
    ASSUME IInv, NEW g, NEW e, Reads(newest, SubSeq(message, 1, cut), g, e),
           NEW all, NEW d, Reads(newest, message, all, d)
    PROVE  GoesOn(newest, After(message, cut), g, e, all, d)
<1> DEFINE head == SubSeq(message, 1, cut)
           rest == After(message, cut)
<1>1. rest \in Seq(Byte) /\ head \o rest = message
  BY Behind, TwoHalves DEF IInv, TypeOK
<1> HIDE DEF head, rest
<1>2. Reads(newest, head, g, e) /\ Reads(newest, head \o rest, all, d)
  BY <1>1 DEF head
<1>3. GoesOn(newest, rest, g, e, all, d)
  BY <1>1, <1>2, HeadReads
<1> QED
  BY <1>3 DEF rest

-----------------------------------------------------------------------------
(***************************************************************************)
(* An iterator generated from an older schema sees the fields it knows of  *)
(* what the newest one sees, however the message was put together          *)
(* (skip_field in scalars.rs, next in field_enum.rs).                      *)
(***************************************************************************)
THEOREM SeesLess == UpgradeSpec => []OldSeesLess
<1>1. IInv => OldSeesLess
  <2> SUFFICES ASSUME IInv, Len(Readings) = 2
               PROVE  /\ IsPrefix(Known(Readings[1].got), Readings[2].got)
                      /\ Readings[1].failed = "none" =>
                           /\ Readings[2].failed = "none"
                           /\ Readings[2].got = Known(Readings[1].got)
    BY DEF OldSeesLess
  <2>1. FullReading(1, Readings[1]) /\ FullReading(2, Readings[2])
    BY ReadingsAre
  <2>2. /\ Reads(newest, message, Readings[1].got, Readings[1].failed)
        /\ Reads(OldSchema, message, Readings[2].got, Readings[2].failed)
    BY <2>1 DEF FullReading, SchemaFor, BytesFor
  <2>3. newest \in Schemas /\ Older(OldSchema, newest)
    BY DEF IInv, TypeOK, Older, OldSchema
  <2> QED
    BY <2>2, <2>3, OlderReads
<1> QED
  BY <1>1, IInvInit, IInvStep, PTL DEF UpgradeSpec

(***************************************************************************)
(* Wherever a message is cut, what is in front of the cut yields a prefix  *)
(* of its fields and then nothing, Truncated, or what the whole does (the  *)
(* readers of scalars.rs, DecodeError).                                    *)
(***************************************************************************)
THEOREM SeesPrefix == UpgradeSpec => []CutSeesPrefix
<1>1. IInv => CutSeesPrefix
  <2> SUFFICES ASSUME IInv, Len(Readings) = 3
               PROVE  /\ IsPrefix(Readings[3].got, Readings[1].got)
                      /\ Readings[3].failed \notin {"none", "Truncated"} =>
                           Readings[3] = Readings[1]
    BY DEF CutSeesPrefix
  <2>1. FullReading(1, Readings[1]) /\ FullReading(3, Readings[3])
    BY ReadingsAre
  <2>2. /\ Readings[1] = [got |-> Readings[1].got, failed |-> Readings[1].failed]
        /\ Readings[3] = [got |-> Readings[3].got, failed |-> Readings[3].failed]
        /\ Reads(newest, message, Readings[1].got, Readings[1].failed)
        /\ Reads(newest, SubSeq(message, 1, cut), Readings[3].got, Readings[3].failed)
    BY <2>1 DEF FullReading, SchemaFor, BytesFor
  <2>3. GoesOn(newest, After(message, cut), Readings[3].got, Readings[3].failed,
                  Readings[1].got, Readings[1].failed)
    BY <2>2, HalvesRead
  <2> QED
    BY <2>2, <2>3 DEF GoesOn
<1> QED
  BY <1>1, IInvInit, IInvStep, PTL DEF UpgradeSpec

(***************************************************************************)
(* Where the bytes in front of a cut are whole fields, the two halves read *)
(* apart give what the message gives (next in field_enum.rs on any buffer  *)
(* behind a field).                                                        *)
(***************************************************************************)
THEOREM Concatenate == UpgradeSpec => []Concatenates
<1>1. IInv => Concatenates
  <2> SUFFICES ASSUME IInv, Len(Readings) = 4, Readings[3].failed = "none"
               PROVE  /\ Readings[1].got = Readings[3].got \o Readings[4].got
                      /\ Readings[1].failed = Readings[4].failed
    BY DEF Concatenates
  <2>1. /\ FullReading(1, Readings[1]) /\ FullReading(3, Readings[3])
        /\ FullReading(4, Readings[4])
    BY ReadingsAre
  <2>2. /\ Reads(newest, message, Readings[1].got, Readings[1].failed)
        /\ Reads(newest, SubSeq(message, 1, cut), Readings[3].got, "none")
        /\ Reads(newest, After(message, cut), Readings[4].got, Readings[4].failed)
    BY <2>1 DEF FullReading, SchemaFor, BytesFor
  <2>3. GoesOn(newest, After(message, cut), Readings[3].got, "none",
                  Readings[1].got, Readings[1].failed)
    BY <2>2, HalvesRead
  <2> QED
    BY <2>2, <2>3 DEF GoesOn
<1> QED
  BY <1>1, IInvInit, IInvStep, PTL DEF UpgradeSpec

(***************************************************************************)
(* After an error the iterator of every reader returns None and no field:  *)
(* every error path empties the cursor first (next in field_enum.rs).      *)
(***************************************************************************)
THEOREM ErrorIsLast == UpgradeSpec => StopsAtError
<1>1. ASSUME IInv, [UpgradeNext]_<<vars, given, earlier>>
      PROVE  [res = "error" => res' = "none" /\ got' = got]_vars
  <2> SUFFICES ASSUME UpgradeNext, res = "error"
               PROVE  res' = "none" /\ got' = got
    BY <1>1
  <2>1. Next
    BY DEF UpgradeNext, StartOld, StartHead, StartRest, Start, Call
  <2>2. SkipUnknown(buf) = << >>
    BY <1>1, SkipUnknownProps DEF IInv, TypeOK, Drained
  <2> QED
    BY <2>1, <2>2 DEF Next, Yield, Fail, End
<1> QED
  BY <1>1, IInvInit, IInvStep, PTL DEF UpgradeSpec, StopsAtError
=============================================================================
