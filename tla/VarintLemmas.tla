---------------------------- MODULE VarintLemmas ----------------------------
(***************************************************************************)
(* Powers, how long varints are, how far a reader goes into any bytes, and *)
(* digits: those a number is cut into add up to it again.  For every radix *)
(* and number of groups.                                                   *)
(***************************************************************************)
EXTENDS Varint, SequenceLemmas

\* Powers are what they are called.
LEMMA PowerDef ==
    ASSUME NEW b \in Nat
    PROVE  /\ Power(b, 0) = 1
           /\ \A n \in Nat : Power(b, n) \in Nat /\ Power(b, n + 1) = b * Power(b, n)
<1> DEFINE p(n) == CHOOSE f : f = [i \in 0..n |-> IF i = 0 THEN 1 ELSE b * f[i - 1]]
<1>1. \A n \in Nat : p(n) = [i \in 0..n |-> IF i = 0 THEN 1 ELSE b * p(n)[i - 1]]
  <2> TAKE n \in Nat
  <2> DEFINE next == [i \in 1..n |-> [x \in Nat |-> b * x]]
  <2>1. next \in [1..n -> [Nat -> Nat]]
    OBVIOUS
  <2>2. PICK f \in [0..n -> Nat] : f[0] = 1 /\ \A i \in 1..n : f[i] = next[i][f[i - 1]]
    <3> DEFINE one == 1
               V == Nat
    <3>1. one \in V /\ next \in [1..n -> [V -> V]]
      BY <2>1
    <3> HIDE DEF next, one, V
    <3>2. \E f \in [0..n -> V] : f[0] = one /\ \A i \in 1..n : f[i] = next[i][f[i - 1]]
      BY <3>1, Recursion, SMT
    <3> QED
      BY <3>2 DEF one, V
  <2>3. \A i \in 1..n : next[i][f[i - 1]] = b * f[i - 1]
    BY <2>2
  <2> HIDE DEF next
  <2>4. f = [i \in 0..n |-> IF i = 0 THEN 1 ELSE b * f[i - 1]]
    <3>1. f = [i \in 0..n |-> f[i]]
      BY <2>2
    <3>2. \A i \in 0..n : f[i] = IF i = 0 THEN 1 ELSE b * f[i - 1]
      BY <2>2, <2>3
    <3> QED
      BY <3>1, <3>2
  <2> QED
    BY <2>4
<1>2. \A n : Power(b, n) = p(n)[n]
  BY DEF Power
<1> HIDE DEF p
<1>3. \A n \in Nat : p(n)[0] = 1 /\ \A i \in 1..n : p(n)[i] = b * p(n)[i - 1]
  <2> TAKE n \in Nat
  <2>1. \A i \in 0..n : p(n)[i] = IF i = 0 THEN 1 ELSE b * p(n)[i - 1]
    BY <1>1
  <2> QED
    BY <2>1
<1> DEFINE T == {i \in Nat : \A n \in Nat : i <= n => p(n)[i] \in Nat /\ p(n)[i] = p(i)[i]}
<1>4. 0 \in T
  BY <1>3
<1>5. ASSUME NEW i \in Nat, i \in T
      PROVE  i + 1 \in T
  <2> DEFINE j == i + 1
  <2>1. ASSUME NEW n \in Nat, j <= n
        PROVE  p(n)[j] = b * p(i)[i] /\ p(i)[i] \in Nat
    <3>1. i <= n /\ j \in 1..n /\ j - 1 = i
      BY <2>1
    <3>2. p(n)[j] = b * p(n)[i]
      BY <1>3, <3>1
    <3> QED
      BY <1>5, <3>1, <3>2
  <2>2. j \in Nat /\ j <= j
    OBVIOUS
  <2>3. p(j)[j] = b * p(i)[i] /\ p(i)[i] \in Nat
    BY <2>1, <2>2
  <2> QED
    BY <2>1, <2>2, <2>3
<1> HIDE DEF T
<1>6. Nat \subseteq T
  BY <1>4, <1>5, SetInduction
<1>7. ASSUME NEW n \in Nat
      PROVE  Power(b, n) \in Nat /\ Power(b, n + 1) = b * Power(b, n)
  <2>1. n + 1 \in Nat /\ n <= n + 1 /\ n + 1 \in 1..(n + 1) /\ (n + 1) - 1 = n /\ n <= n
    OBVIOUS
  <2>2. p(n + 1)[n + 1] = b * p(n + 1)[n]
    BY <1>3, <2>1
  <2>3. p(n + 1)[n] = p(n)[n] /\ p(n)[n] \in Nat
    BY <1>6, <2>1 DEF T
  <2> QED
    BY <1>2, <2>2, <2>3
<1> QED
  BY <1>2, <1>3, <1>7

\* and positive where the base is.
LEMMA PowerPositive ==
    ASSUME NEW b \in Nat, b >= 1, NEW n \in Nat
    PROVE  Power(b, n) \in Nat \ {0}
<1> DEFINE T == {m \in Nat : Power(b, m) \in Nat \ {0}}
<1>1. 0 \in T
  BY PowerDef
<1>2. ASSUME NEW m \in Nat, m \in T
      PROVE  m + 1 \in T
  <2>1. Power(b, m + 1) = b * Power(b, m)
    BY PowerDef
  <2> QED
    BY <1>2, <2>1
<1> HIDE DEF T
<1>3. Nat \subseteq T
  BY <1>1, <1>2, SetInduction
<1> QED
  BY <1>3 DEF T

\* A length takes between one byte and the longest varint.
LEMMA EncodedLenType ==
    \A v : encoded_len_varint(v) \in 1..MaxGroups
<1> TAKE v
<1> DEFINE S == {g \in 1..(MaxGroups - 1) : v >= Power(Radix, g)}
<1>1. IsFiniteSet(1..(MaxGroups - 1)) /\ Cardinality(1..(MaxGroups - 1)) = MaxGroups - 1
  BY VarintAssumption, FS_Interval
<1>2. IsFiniteSet(S) /\ Cardinality(S) <= MaxGroups - 1
  BY <1>1, FS_Subset
<1>3. Cardinality(S) \in Nat
  BY <1>2, FS_CardinalityType
<1> QED
  BY <1>2, <1>3, VarintAssumption DEF encoded_len_varint

\* A padded varint is `width` bytes.
LEMMA WideType ==
    ASSUME NEW width \in Nat, NEW v \in Nat
    PROVE  /\ write_wide_varint(width, v) \in Seq(Byte)
           /\ Len(write_wide_varint(width, v)) = width
<1>1. \A i \in 1..width : Group(v, i - 1) \in 0..(Radix - 1)
  <2> TAKE i \in 1..width
  <2>1. Power(Radix, i - 1) \in Nat \ {0}
    BY VarintAssumption, PowerPositive
  <2> QED
    BY <2>1, VarintAssumption DEF Group
<1>2. \A i \in 1..width : write_wide_varint(width, v)[i] \in Byte
  BY <1>1, VarintAssumption DEF write_wide_varint, Byte
<1>3. write_wide_varint(width, v) \in [1..width -> Byte]
  BY <1>2 DEF write_wide_varint
<1> QED
  BY <1>3

\* A larger value is no shorter.
LEMMA EncodedLenMonotone ==
    ASSUME NEW v \in Nat, NEW u \in Nat, v <= u
    PROVE  encoded_len_varint(v) <= encoded_len_varint(u)
<1> DEFINE S(x) == {g \in 1..(MaxGroups - 1) : x >= Power(Radix, g)}
<1>1. IsFiniteSet(1..(MaxGroups - 1))
  BY VarintAssumption, FS_Interval
<1>2. S(v) \subseteq S(u)
  <2> SUFFICES ASSUME NEW g \in 1..(MaxGroups - 1), v >= Power(Radix, g)
               PROVE  u >= Power(Radix, g)
    OBVIOUS
  <2>1. Power(Radix, g) \in Nat
    BY VarintAssumption, PowerDef
  <2> QED
    BY <2>1
<1>3. IsFiniteSet(S(u))
  BY <1>1, FS_Subset
<1>4. IsFiniteSet(S(v)) /\ Cardinality(S(v)) <= Cardinality(S(u))
  BY <1>2, <1>3, FS_Subset
<1>5. Cardinality(S(v)) \in Nat /\ Cardinality(S(u)) \in Nat
  BY <1>3, <1>4, FS_CardinalityType
<1> HIDE DEF S
<1>6. 1 + Cardinality(S(v)) <= 1 + Cardinality(S(u))
  BY <1>4, <1>5
<1> QED
  BY <1>6 DEF encoded_len_varint, S

-----------------------------------------------------------------------------
(* How many bytes continue. *)

\* The positions counted by Continued.
Run(s, n) == {k \in 1..n : \A i \in 1..k : Continues(s[i])}

LEMMA ContinuedType ==
    ASSUME NEW s, NEW n \in Nat
    PROVE  /\ Continued(s, n) \in 0..n
           /\ Continued(s, n) = n <=> \A i \in 1..n : Continues(s[i])
<1>1. IsFiniteSet(1..n) /\ Cardinality(1..n) = n
  BY FS_Interval
<1>2. /\ IsFiniteSet(Run(s, n))
      /\ Cardinality(Run(s, n)) <= n
      /\ Cardinality(Run(s, n)) = n => Run(s, n) = 1..n
  BY <1>1, FS_Subset DEF Run
<1>3. Cardinality(Run(s, n)) \in Nat
  BY <1>2, FS_CardinalityType
<1>4. Continued(s, n) = Cardinality(Run(s, n))
  BY DEF Continued, Run
<1>5. (\A i \in 1..n : Continues(s[i])) => Run(s, n) = 1..n
  BY DEF Run
<1>6. Run(s, n) = 1..n => \A i \in 1..n : Continues(s[i])
  BY DEF Run
<1> QED
  BY <1>1, <1>2, <1>3, <1>4, <1>5, <1>6

\* Where the run ends does not depend on what comes behind its end.
LEMMA ContinuedGrows ==
    ASSUME NEW s, NEW t, NEW n \in Nat, NEW m \in Nat, n <= m,
           \A i \in 1..n : t[i] = s[i],
           Continued(s, n) < n
    PROVE  Continued(t, m) = Continued(s, n)
<1>1. PICK j \in 1..n : ~Continues(s[j])
  BY ContinuedType
<1>2. \A k \in 1..m : (\A i \in 1..k : Continues(t[i])) => k < j
  BY <1>1
<1>3. Run(t, m) = Run(s, n)
  <2>1. ASSUME NEW k \in Run(t, m) PROVE k \in Run(s, n)
    BY <1>2 DEF Run
  <2>2. ASSUME NEW k \in Run(s, n) PROVE k \in Run(t, m)
    BY DEF Run
  <2> QED
    BY <2>1, <2>2
<1> QED
  BY <1>3 DEF Continued, Run

\* A byte behind the run that does not continue leaves the run as it is.
LEMMA ContinuedStops ==
    ASSUME NEW s, NEW n \in Nat, n # 0,
           Continued(s, n - 1) = n - 1, ~Continues(s[n])
    PROVE  Continued(s, n) = n - 1
<1>1. Run(s, n) = Run(s, n - 1)
  BY DEF Run
<1> QED
  BY <1>1 DEF Continued, Run

-----------------------------------------------------------------------------
(* Both readers as one: where they stop and when they refuse. *)

\* The bytes a reader or the skipper looks at.
Reach(s) == IF Len(s) >= MaxGroups THEN MaxGroups ELSE Len(s)

\* The last group is there and too large.
TooLarge(s) == Continued(s, Reach(s)) = MaxGroups - 1 /\ s[MaxGroups] >= LastGroup

LEMMA ReachType ==
    ASSUME NEW s \in Seq(Byte)
    PROVE  /\ Reach(s) \in 0..Len(s)
           /\ Reach(s) <= MaxGroups
           /\ s # << >> => Reach(s) > 0
           /\ \A i \in 1..Len(s) : s[i] \in Nat /\ s[i] < 2 * Radix
<1>1. Len(s) \in Nat /\ (s # << >> => Len(s) > 0)
  BY EmptySeq
<1>2. \A i \in 1..Len(s) : s[i] \in Byte
  BY ElementOfSeq
<1> QED
  BY <1>1, <1>2, VarintAssumption DEF Reach, Byte

\* A varint of one byte.
LEMMA ShortRun ==
    ASSUME NEW s \in Seq(Byte), s # << >>, ~Continues(s[1])
    PROVE  Continued(s, Reach(s)) = 0
<1>1. Continued(s, 1 - 1) = 1 - 1
  BY ContinuedType, 0 \in Nat
<1>2. Continued(s, 1) = 0
  BY <1>1, ContinuedStops
<1>3. Reach(s) \in Nat /\ 1 <= Reach(s)
  BY ReachType
<1> QED
  BY <1>2, <1>3, ContinuedGrows

\* The loop and the unrolled reader are one reader.
LEMMA ReadingIs ==
    ASSUME NEW s \in Seq(Byte), s # << >>, Continues(s[1])
    PROVE  decode_varint(s) =
               IF Continued(s, Reach(s)) < Reach(s) /\ ~TooLarge(s)
               THEN Taken(s, Continued(s, Reach(s)) + 1)
               ELSE Truncated
<1> DEFINE M == MaxGroups
<1>1. /\ M \in Nat /\ M >= 2 /\ M - 1 \in Nat
      /\ Radix \in Nat /\ LastGroup \in Nat /\ LastGroup <= Radix
      /\ Len(s) \in Nat
  BY VarintAssumption
<1>2. CASE Len(s) < M
  <2>1. Reach(s) = Len(s)
    BY <1>1, <1>2 DEF Reach
  <2>2. Continued(s, Len(s)) \in 0..Len(s)
    BY <1>1, ContinuedType
  <2>3. decode_varint(s) = decode_varint_short(s)
    BY <1>1, <1>2 DEF decode_varint
  <2>4. Continued(s, Len(s)) < Len(s) => ~TooLarge(s)
    BY <1>1, <1>2, <2>1, <2>2 DEF TooLarge
  <2> QED
    BY <2>1, <2>2, <2>3, <2>4 DEF decode_varint_short
<1>3. CASE Len(s) >= M
  <2>1. Reach(s) = M
    BY <1>3 DEF Reach
  <2>2. decode_varint(s) = decode_varint_long(s)
    BY <1>3 DEF decode_varint
  <2>3. Continued(s, M - 1) \in 0..(M - 1) /\ Continued(s, M) \in 0..M
    BY <1>1, ContinuedType
  <2>4. s[M] \in Nat
    BY <1>1, <1>3, ReachType
  <2>5. CASE Continued(s, M - 1) < M - 1
    <3>1. Continued(s, M) = Continued(s, M - 1)
      BY <1>1, <2>5, ContinuedGrows
    <3>2. ~TooLarge(s)
      BY <1>1, <2>1, <2>3, <2>5, <3>1 DEF TooLarge
    <3>3. decode_varint_long(s) = Taken(s, Continued(s, M - 1) + 1)
      BY <2>5 DEF decode_varint_long
    <3>4. Continued(s, M) < M
      BY <1>1, <2>3, <2>5, <3>1
    <3> QED
      BY <2>1, <2>2, <3>1, <3>2, <3>3, <3>4
  <2>6. CASE Continued(s, M - 1) = M - 1 /\ Continues(s[M])
    <3>1. \A i \in 1..M : Continues(s[i])
      BY <1>1, <2>6, ContinuedType
    <3>2. Continued(s, M) = M
      BY <1>1, <3>1, ContinuedType
    <3>3. s[M] >= LastGroup
      BY <1>1, <2>4, <2>6 DEF Continues
    <3> QED
      BY <1>1, <2>1, <2>2, <2>6, <3>2, <3>3 DEF decode_varint_long
  <2>7. CASE Continued(s, M - 1) = M - 1 /\ ~Continues(s[M])
    <3>1. Continued(s, M) = M - 1
      BY <1>1, <2>7, ContinuedStops
    <3>2. TooLarge(s) <=> s[M] >= LastGroup
      BY <2>1, <3>1 DEF TooLarge
    <3>3. Continued(s, M) < M /\ Continued(s, M) + 1 = M
      BY <1>1, <3>1
    <3>4. decode_varint_long(s) = IF s[M] >= LastGroup THEN Truncated ELSE Taken(s, M)
      BY <1>1, <2>7 DEF decode_varint_long
    <3> QED
      BY <2>1, <2>2, <3>2, <3>3, <3>4
  <2> QED
    BY <1>1, <2>3, <2>5, <2>6, <2>7
<1> QED
  BY <1>1, <1>2, <1>3

\* What decodes, and over how many bytes, the short cut for one byte included.
LEMMA ReadingUsed ==
    ASSUME NEW s \in Seq(Byte)
    PROVE  /\ decode_varint(s).ok <=>
                  Continued(s, Reach(s)) < Reach(s) /\ ~TooLarge(s)
           /\ decode_varint(s).ok =>
                  decode_varint(s).used = Continued(s, Reach(s)) + 1
<1>1. CASE s = << >>
  <2>1. Reach(s) = 0
    BY <1>1, Len(s) = 0, VarintAssumption DEF Reach
  <2>2. Continued(s, 0) = 0
    BY ContinuedType, 0 \in Nat
  <2> QED
    BY <1>1, <2>1, <2>2 DEF decode_varint, Truncated
<1>2. CASE s # << >> /\ ~Continues(s[1])
  <2>1. decode_varint(s) = Decoded(s[1], 1)
    BY <1>2 DEF decode_varint
  <2>2. Continued(s, Reach(s)) = 0 /\ Reach(s) \in Nat /\ Reach(s) > 0
    BY <1>2, ShortRun, ReachType
  <2>3. ~TooLarge(s)
    BY <2>2, VarintAssumption DEF TooLarge
  <2> QED
    BY <2>1, <2>2, <2>3 DEF Decoded
<1>3. CASE s # << >> /\ Continues(s[1])
  BY <1>3, ReadingIs DEF Taken, Decoded, Truncated
<1> QED
  BY <1>1, <1>2, <1>3

-----------------------------------------------------------------------------
(* One more byte. *)

LEMMA Extended ==
    ASSUME NEW s \in Seq(Byte), NEW b \in Byte
    PROVE  /\ Append(s, b) \in Seq(Byte)
           /\ Len(Append(s, b)) = Len(s) + 1
           /\ \A i \in 1..Len(s) : Append(s, b)[i] = s[i]
           /\ Reach(s) <= Reach(Append(s, b))
           /\ \A n \in 0..Len(s) : SubSeq(Append(s, b), 1, n) = SubSeq(s, 1, n)
<1>1. /\ Append(s, b) \in Seq(Byte)
      /\ Len(Append(s, b)) = Len(s) + 1
      /\ \A i \in 1..Len(s) : Append(s, b)[i] = s[i]
  OBVIOUS
<1>2. Reach(s) <= Reach(Append(s, b))
  BY <1>1, VarintAssumption DEF Reach
<1>3. \A n \in 0..Len(s) : SubSeq(Append(s, b), 1, n) = SubSeq(s, 1, n)
  BY <1>1
<1> QED
  BY <1>1, <1>2, <1>3

\* Neither reader changes its mind about a varint it has read.
LEMMA ReadingExtends ==
    ASSUME NEW s \in Seq(Byte), NEW b \in Byte, decode_varint(s).ok
    PROVE  decode_varint(Append(s, b)) = decode_varint(s)
<1> DEFINE t == Append(s, b)
<1> DEFINE c == Continued(s, Reach(s))
<1>1. /\ t \in Seq(Byte) /\ Len(t) = Len(s) + 1
      /\ \A i \in 1..Len(s) : t[i] = s[i]
      /\ Reach(s) <= Reach(t)
  BY Extended
<1> HIDE DEF t
<1>2. c < Reach(s) /\ ~TooLarge(s)
  BY ReadingUsed
<1>3. /\ Reach(s) \in 0..Len(s) /\ Reach(t) \in 0..Len(t) /\ Len(s) \in Nat
      /\ Reach(s) <= MaxGroups
  BY <1>1, ReachType
<1>4. Reach(s) \in Nat /\ Reach(t) \in Nat /\ \A i \in 1..Reach(s) : t[i] = s[i]
  BY <1>1, <1>3
<1>5. Continued(t, Reach(t)) = c
  BY <1>1, <1>2, <1>3, <1>4, ContinuedGrows
<1>6. c \in Nat
  BY <1>3, ContinuedType
<1>7. s # << >> /\ t # << >> /\ t[1] = s[1]
  BY <1>1, <1>2, <1>3, <1>6
<1>8. CASE ~Continues(s[1])
  BY <1>7, <1>8 DEF decode_varint
<1>9. CASE Continues(s[1])
  <2>1. ~TooLarge(t)
    <3>1. SUFFICES ASSUME c = MaxGroups - 1 PROVE ~(t[MaxGroups] >= LastGroup)
      BY <1>5 DEF TooLarge
    <3>2. MaxGroups \in 1..Len(s)
      BY <1>2, <1>3, <3>1, VarintAssumption
    <3> QED
      BY <1>1, <1>2, <3>1, <3>2 DEF TooLarge
  <2>2. c < Reach(t)
    BY <1>1, <1>2, <1>3, <1>6
  <2>3. c + 1 \in 0..Len(s)
    BY <1>2, <1>3, <1>6
  <2>4. Taken(t, c + 1) = Taken(s, c + 1)
    BY <2>3, Extended DEF Taken, t
  <2>5. decode_varint(s) = Taken(s, c + 1)
    BY <1>2, <1>7, <1>9, ReadingIs
  <2>6. decode_varint(t) = Taken(t, c + 1)
    BY <1>1, <1>5, <1>7, <1>9, <2>1, <2>2, ReadingIs
  <2> QED
    BY <2>4, <2>5, <2>6 DEF t
<1> QED
  BY <1>8, <1>9

\* The run is the bytes before the first that does not continue.
LEMMA RunShape ==
    ASSUME NEW s, NEW n \in Nat, Continued(s, n) < n
    PROVE  ~Continues(s[Continued(s, n) + 1])
<1> DEFINE c == Continued(s, n)
<1>1. c \in Nat /\ c + 1 \in 1..n
  BY ContinuedType
<1>2. IsFiniteSet(1..n) /\ Run(s, n) \in SUBSET (1..n)
  BY FS_Interval DEF Run
<1>3. IsFiniteSet(Run(s, n)) /\ Cardinality(Run(s, n)) = c
  BY <1>2, FS_Subset DEF Continued, Run
<1>4. c + 1 \notin Run(s, n)
  <2>1. SUFFICES ASSUME c + 1 \in Run(s, n) PROVE FALSE
    OBVIOUS
  <2>2. 1..(c + 1) \in SUBSET Run(s, n)
    BY <1>1, <2>1 DEF Run
  <2>3. Cardinality(1..(c + 1)) <= c
    BY <1>3, <2>2, FS_Subset
  <2>4. Cardinality(1..(c + 1)) = c + 1
    BY <1>1, FS_Interval
  <2> QED
    BY <1>1, <2>3, <2>4
<1>5. Run(s, n) \in SUBSET (1..c)
  BY <1>1, <1>4 DEF Run
<1>6. IsFiniteSet(1..c) /\ Cardinality(1..c) = c
  <2> HIDE DEF c
  <2> QED
    BY <1>1, FS_Interval
<1>7. Run(s, n) = 1..c
  BY <1>3, <1>5, <1>6, FS_Subset
<1>8. \A i \in 1..c : Continues(s[i])
  BY <1>1, <1>7 DEF Run
<1> QED
  BY <1>1, <1>4, <1>8 DEF Run

\* The run is decided by its bytes and the one behind them.
LEMMA RunDecided ==
    ASSUME NEW s, NEW t, NEW n \in Nat, NEW m \in Nat, NEW c \in Nat,
           c = Continued(t, n), c < n, c < m,
           \A i \in 1..(c + 1) : s[i] = t[i]
    PROVE  Continued(s, m) = c
<1> DEFINE k == c + 1
<1>1. k \in Nat /\ k <= n /\ k <= m
  OBVIOUS
<1>2. ~Continues(t[k])
  BY RunShape
<1>3. Continued(t, k) < k
  <2>1. Continued(t, k) \in 0..k /\ Continued(t, k) # k
    BY <1>1, <1>2, ContinuedType
  <2> QED
    BY <1>1, <2>1
<1> HIDE DEF k
<1>4. Continued(t, n) = Continued(t, k)
  BY <1>1, <1>3, ContinuedGrows
<1>5. Continued(s, m) = Continued(t, k)
  BY <1>1, <1>3, ContinuedGrows DEF k
<1> QED
  BY <1>4, <1>5

\* A reader that refuses the first bytes takes more only with the last.
LEMMA RefusalEnds ==
    ASSUME NEW s \in Seq(Byte), NEW b \in Byte,
           ~decode_varint(s).ok, decode_varint(Append(s, b)).ok
    PROVE  decode_varint(Append(s, b)).used = Len(Append(s, b))
<1> DEFINE t == Append(s, b)
<1> DEFINE c == Continued(t, Reach(t))
<1>1. /\ t \in Seq(Byte) /\ Len(t) = Len(s) + 1 /\ Len(s) \in Nat
      /\ \A i \in 1..Len(s) : t[i] = s[i]
  BY Extended
<1>2. c < Reach(t) /\ ~TooLarge(t) /\ decode_varint(t).used = c + 1
  BY <1>1, ReadingUsed
<1>3. /\ Reach(s) \in 0..Len(s) /\ Reach(t) \in 0..Len(t)
      /\ Reach(t) <= MaxGroups
  BY <1>1, ReachType
<1>4. c \in Nat
  BY <1>3, ContinuedType
<1>5. SUFFICES ASSUME c + 1 <= Len(s) PROVE FALSE
  BY <1>1, <1>2, <1>3, <1>4
<1>6. c + 1 \in Nat /\ c + 1 <= Reach(s)
  BY <1>1, <1>2, <1>3, <1>4, <1>5, VarintAssumption DEF Reach
<1>7. \A i \in 1..(c + 1) : s[i] = t[i]
  BY <1>1, <1>4, <1>5
<1>8. c < Reach(s) /\ Reach(s) \in Nat /\ Reach(t) \in Nat
  BY <1>3, <1>4, <1>6
<1> HIDE DEF c, t
<1>9. Continued(s, Reach(s)) = c
  BY <1>2, <1>4, <1>7, <1>8, RunDecided DEF c
<1>10. ~TooLarge(s)
  <2>1. SUFFICES ASSUME c = MaxGroups - 1 PROVE ~(s[MaxGroups] >= LastGroup)
    BY <1>9 DEF TooLarge
  <2>2. MaxGroups \in 1..(c + 1)
    BY <1>4, <2>1, VarintAssumption
  <2>3. s[MaxGroups] = t[MaxGroups]
    BY <1>7, <2>2
  <2> QED
    BY <1>2, <2>1, <2>3 DEF TooLarge, c
<1>11. decode_varint(s).ok
  BY <1>8, <1>9, <1>10, ReadingUsed
<1> QED
  BY <1>11

-----------------------------------------------------------------------------
(* Digits: what the groups of a varint and the bytes of a fixed-width number *)
(* add up to.                                                                *)

\* sum[i] is what the first i digits are worth in base b.
DigitSums(sum, n, b, d) ==
    /\ sum[0] = 0
    /\ \A i \in 1..n : sum[i] = sum[i - 1] + d[i] * Power(b, i - 1)

DigitsBelow(d, n, b) == \A i \in 1..n : d[i] \in 0..(b - 1)

\* d are the lowest digits of v.
DigitsOf(d, n, b, v) == \A i \in 1..n : d[i] = (v \div Power(b, i - 1)) % b

\* A quotient and a remainder are what the division gives.
LEMMA Quotient ==
    ASSUME NEW m \in Nat \ {0}, NEW q \in Nat, NEW r \in Nat, r < m
    PROVE  (m * q + r) \div m = q /\ (m * q + r) % m = r
OBVIOUS

LEMMA Division ==
    ASSUME NEW m \in Nat \ {0}, NEW v \in Nat
    PROVE  v = m * (v \div m) + (v % m) /\ v % m \in 0..(m - 1) /\ v \div m \in Nat
OBVIOUS

\* A digit more is worth less than the next power.
LEMMA DigitCarries ==
    ASSUME NEW p \in Nat, NEW b \in Nat, NEW s \in Nat, NEW d \in 0..(b - 1), s < p
    PROVE  s + d * p \in Nat /\ s + d * p < b * p
OBVIOUS

\* The lowest digits are a remainder, and so is one digit more.
LEMMA RemainderStep ==
    ASSUME NEW p \in Nat \ {0}, NEW b \in Nat \ {0}, NEW v \in Nat
    PROVE  v % (b * p) = (v % p) + ((v \div p) % b) * p
<1> DEFINE q == v \div p
           r == v % p
           d == q % b
           e == q \div b
<1>1. v = p * q + r /\ r \in 0..(p - 1) /\ q \in Nat
  BY Division
<1> HIDE DEF q, r
<1>2. q = b * e + d /\ d \in 0..(b - 1) /\ e \in Nat
  BY <1>1, Division
<1> HIDE DEF d, e
<1>3. r + d * p \in Nat /\ r + d * p < b * p /\ b * p \in Nat \ {0}
  <2>1. r + d * p \in Nat /\ r + d * p < b * p
    BY <1>1, <1>2, DigitCarries
  <2>2. b * p \in Nat \ {0}
    OBVIOUS
  <2> QED
    BY <2>1, <2>2
<1>4. v = (b * p) * e + (r + d * p)
  <2>1. p * (b * e + d) = (b * p) * e + d * p
    BY <1>1, <1>2
  <2> QED
    BY <1>1, <1>2, <2>1
<1> DEFINE m == b * p
           rest == r + d * p
<1>5. m \in Nat \ {0} /\ rest \in Nat /\ rest < m /\ v = m * e + rest
  BY <1>3, <1>4
<1> HIDE DEF m, rest
<1>6. v % m = rest
  BY <1>2, <1>5, Quotient
<1> QED
  BY <1>6 DEF m, rest, r, d, q

\* Digits are worth less than the power behind them.
LEMMA DigitsSmall ==
    ASSUME NEW b \in Nat \ {0}, NEW n \in Nat, NEW d, NEW sum,
           DigitSums(sum, n, b, d), DigitsBelow(d, n, b)
    PROVE  \A i \in 0..n : sum[i] \in Nat /\ sum[i] < Power(b, i)
<1> DEFINE T == {i \in Nat : i <= n => sum[i] \in Nat /\ sum[i] < Power(b, i)}
<1>1. 0 \in T
  <2>1. Power(b, 0) = 1 /\ sum[0] = 0
    BY PowerDef DEF DigitSums
  <2> QED
    BY <2>1
<1>2. ASSUME NEW i \in Nat, i \in T
      PROVE  i + 1 \in T
  <2> SUFFICES ASSUME i + 1 <= n
               PROVE  sum[i + 1] \in Nat /\ sum[i + 1] < Power(b, i + 1)
    OBVIOUS
  <2>1. i + 1 \in 1..n /\ (i + 1) - 1 = i
    OBVIOUS
  <2>2. sum[i + 1] = sum[i] + d[i + 1] * Power(b, i)
    BY <2>1 DEF DigitSums
  <2>3. d[i + 1] \in 0..(b - 1)
    BY <2>1 DEF DigitsBelow
  <2>4. sum[i] \in Nat /\ sum[i] < Power(b, i) /\ Power(b, i) \in Nat
    BY <1>2, PowerDef
  <2>5. Power(b, i + 1) = b * Power(b, i)
    BY PowerDef
  <2> DEFINE p == Power(b, i)
             s == sum[i]
             x == d[i + 1]
  <2>6. p \in Nat /\ s \in Nat /\ s < p /\ x \in 0..(b - 1)
    BY <2>3, <2>4
  <2> HIDE DEF p, s, x
  <2>7. s + x * p \in Nat /\ s + x * p < b * p
    BY <2>6, DigitCarries
  <2> QED
    BY <2>2, <2>5, <2>7 DEF p, s, x
<1> HIDE DEF T
<1>3. Nat \subseteq T
  BY <1>1, <1>2, SetInduction
<1> QED
  BY <1>3 DEF T

\* The digits of a number add up to it, as far as they go.
LEMMA DigitsAdd ==
    ASSUME NEW b \in Nat \ {0}, NEW n \in Nat, NEW d, NEW sum, NEW v \in Nat,
           DigitSums(sum, n, b, d), DigitsOf(d, n, b, v)
    PROVE  \A i \in 0..n : sum[i] = v % Power(b, i)
<1> DEFINE T == {i \in Nat : i <= n => sum[i] = v % Power(b, i)}
<1>1. 0 \in T
  <2>1. Power(b, 0) = 1
    BY PowerDef
  <2>2. v % 1 = 0
    OBVIOUS
  <2> QED
    BY <2>1, <2>2 DEF DigitSums
<1>2. ASSUME NEW i \in Nat, i \in T
      PROVE  i + 1 \in T
  <2> SUFFICES ASSUME i + 1 <= n
               PROVE  sum[i + 1] = v % Power(b, i + 1)
    OBVIOUS
  <2>1. i + 1 \in 1..n /\ (i + 1) - 1 = i
    OBVIOUS
  <2>2. sum[i + 1] = sum[i] + d[i + 1] * Power(b, i)
    BY <2>1 DEF DigitSums
  <2>3. d[i + 1] = (v \div Power(b, i)) % b
    BY <2>1 DEF DigitsOf
  <2>4. sum[i] = v % Power(b, i)
    BY <1>2
  <2>5. Power(b, i + 1) = b * Power(b, i) /\ Power(b, i) \in Nat \ {0}
    <3>1. b \in Nat /\ b >= 1
      OBVIOUS
    <3>2. Power(b, i + 1) = b * Power(b, i)
      BY <3>1, PowerDef
    <3> QED
      BY <3>1, <3>2, PowerPositive
  <2> DEFINE p == Power(b, i)
  <2>6. p \in Nat \ {0}
    BY <2>5
  <2> HIDE DEF p
  <2>7. v % (b * p) = (v % p) + ((v \div p) % b) * p
    BY <2>6, RemainderStep
  <2> QED
    BY <2>2, <2>3, <2>4, <2>5, <2>7 DEF p
<1> HIDE DEF T
<1>3. Nat \subseteq T
  BY <1>1, <1>2, SetInduction
<1> QED
  BY <1>3 DEF T

\* Powers grow.
LEMMA PowerMonotone ==
    ASSUME NEW b \in Nat \ {0}, NEW i \in Nat, NEW j \in Nat, i <= j
    PROVE  Power(b, i) <= Power(b, j)
<1> DEFINE T == {k \in Nat : Power(b, i) <= Power(b, i + k)}
<1>1. 0 \in T
  BY PowerDef
<1>2. ASSUME NEW k \in Nat, k \in T
      PROVE  k + 1 \in T
  <2>0. i + k \in Nat /\ i + (k + 1) = (i + k) + 1
    OBVIOUS
  <2>1. /\ Power(b, i) \in Nat /\ Power(b, i + k) \in Nat /\ i + k \in Nat
        /\ i + (k + 1) = (i + k) + 1
    BY <2>0, PowerDef
  <2>2. Power(b, (i + k) + 1) = b * Power(b, i + k)
    BY <2>1, PowerDef
  <2> DEFINE p == Power(b, i + k)
  <2>3. p \in Nat
    BY <2>1
  <2> HIDE DEF p
  <2>4. p <= b * p
    BY <2>3
  <2>5. Power(b, i + k) <= Power(b, i + (k + 1))
    BY <2>1, <2>2, <2>4 DEF p
  <2>6. Power(b, i) <= Power(b, i + k)
    BY <1>2
  <2>7. Power(b, i + (k + 1)) \in Nat
    BY <2>1, PowerDef
  <2> QED
    BY <2>1, <2>5, <2>6, <2>7
<1> HIDE DEF T
<1>3. Nat \subseteq T
  BY <1>1, <1>2, SetInduction
<1>4. j - i \in Nat /\ i + (j - i) = j
  OBVIOUS
<1> QED
  BY <1>3, <1>4 DEF T

\* The sum a recursive definition adds up.
LEMMA SumExists ==
    ASSUME NEW n \in Nat, NEW b \in Nat, NEW d, \A i \in 1..n : d[i] \in Nat
    PROVE  \E sum \in [0..n -> Nat] : DigitSums(sum, n, b, d)
<1> DEFINE next == [i \in 1..n |-> [x \in Nat |-> x + d[i] * Power(b, i - 1)]]
           zero == 0
           V == Nat
<1>1. ASSUME NEW i \in 1..n
      PROVE  d[i] * Power(b, i - 1) \in Nat
  <2>1. i - 1 \in Nat
    OBVIOUS
  <2>2. Power(b, i - 1) \in Nat
    BY <2>1, PowerDef
  <2> QED
    BY <2>2
<1>2. next \in [1..n -> [V -> V]]
  BY <1>1
<1>3. \A i \in 1..n : \A x \in Nat : next[i][x] = x + d[i] * Power(b, i - 1)
  OBVIOUS
<1>4. zero \in V
  OBVIOUS
<1> HIDE DEF next, zero, V
<1>5. \E f \in [0..n -> V] : f[0] = zero /\ \A i \in 1..n : f[i] = next[i][f[i - 1]]
  BY <1>2, <1>4, Recursion, SMT
<1>6. PICK f \in [0..n -> Nat] : f[0] = 0 /\ \A i \in 1..n : f[i] = next[i][f[i - 1]]
  BY <1>5 DEF zero, V
<1>7. ASSUME NEW i \in 1..n
      PROVE  f[i] = f[i - 1] + d[i] * Power(b, i - 1)
  <2>1. f[i - 1] \in Nat
    BY <1>6
  <2> QED
    BY <1>3, <1>6, <2>1
<1> QED
  BY <1>6, <1>7 DEF DigitSums

\* The groups of a varint.
Groups(g) == [i \in 1..Len(g) |-> g[i] % Radix]

LEMMA GroupSumDef ==
    ASSUME NEW g, IsSeq(g), \A i \in 1..Len(g) : g[i] \in Nat
    PROVE  \E sum \in [0..Len(g) -> Nat] :
              /\ DigitSums(sum, Len(g), Radix, Groups(g))
              /\ GroupSum(g) = sum[Len(g)]
<1> DEFINE n == Len(g)
           Is(f) == f = [i \in 0..n |-> IF i = 0 THEN 0
                                        ELSE f[i - 1] + (g[i] % Radix) * Power(Radix, i - 1)]
           sum == CHOOSE f : Is(f)
<1>1. n \in Nat /\ Radix \in Nat \ {0}
  BY SeqFacts, VarintAssumption
<1>2. \A i \in 1..n : /\ Groups(g)[i] = g[i] % Radix /\ Groups(g)[i] \in Nat
                     /\ Groups(g)[i] \in 0..(Radix - 1)
  BY <1>1 DEF Groups
<1>3. \E f : Is(f)
  <2> HIDE DEF n
  <2>1. PICK f \in [0..n -> Nat] : DigitSums(f, n, Radix, Groups(g))
    BY <1>1, <1>2, SumExists
  <2>2. f = [i \in 0..n |-> f[i]]
    BY <2>1
  <2>3. \A i \in 0..n : f[i] = IF i = 0 THEN 0 ELSE f[i - 1] + (g[i] % Radix) * Power(Radix, i - 1)
    BY <1>2, <2>1 DEF DigitSums
  <2> QED
    BY <2>2, <2>3
<1>4. Is(sum)
  BY <1>3
<1>5. GroupSum(g) = sum[n]
  BY DEF GroupSum
<1> HIDE DEF sum, n
<1>6. \A i \in 0..n : sum[i] = IF i = 0 THEN 0
                               ELSE sum[i - 1] + (g[i] % Radix) * Power(Radix, i - 1)
  BY <1>4
<1>7. DigitSums(sum, n, Radix, Groups(g))
  <2>1. sum[0] = 0
    BY <1>1, <1>6
  <2>2. ASSUME NEW i \in 1..n
        PROVE  sum[i] = sum[i - 1] + Groups(g)[i] * Power(Radix, i - 1)
    <3>1. i \in 0..n /\ i # 0
      BY <1>1
    <3>2. sum[i] = sum[i - 1] + (g[i] % Radix) * Power(Radix, i - 1)
      BY <1>6, <3>1
    <3> QED
      BY <1>2, <3>2
  <2> QED
    BY <2>1, <2>2 DEF DigitSums
<1>8. DigitsBelow(Groups(g), n, Radix)
  BY <1>1, <1>2 DEF DigitsBelow
<1>9. \A i \in 0..n : sum[i] \in Nat
  BY <1>1, <1>7, <1>8, DigitsSmall
<1>10. sum = [i \in 0..n |-> sum[i]]
  BY <1>4
<1>11. sum \in [0..n -> Nat]
  BY <1>9, <1>10
<1> QED
  BY <1>5, <1>7, <1>11 DEF n

\* A varint of n groups is worth less than the n-th power of the radix.
LEMMA GroupSumSmall ==
    ASSUME NEW g, IsSeq(g), \A i \in 1..Len(g) : g[i] \in Nat
    PROVE  GroupSum(g) \in Nat /\ GroupSum(g) < Power(Radix, Len(g))
<1>1. PICK sum : DigitSums(sum, Len(g), Radix, Groups(g)) /\ GroupSum(g) = sum[Len(g)]
  BY GroupSumDef
<1> DEFINE n == Len(g)
<1>2. n \in Nat /\ Radix \in Nat \ {0} /\ n \in 0..n
  BY SeqFacts, VarintAssumption
<1>3. DigitsBelow(Groups(g), n, Radix)
  BY <1>2 DEF DigitsBelow, Groups
<1> HIDE DEF n
<1>4. DigitSums(sum, n, Radix, Groups(g))
  BY <1>1 DEF n
<1>5. sum[n] \in Nat /\ sum[n] < Power(Radix, n)
  BY <1>2, <1>3, <1>4, DigitsSmall
<1> QED
  BY <1>1, <1>5 DEF n

\* A varint of as many groups as a value has is that value's.
LEMMA GroupSumValue ==
    ASSUME NEW g, IsSeq(g), \A i \in 1..Len(g) : g[i] \in Nat,
           NEW v \in Nat, DigitsOf(Groups(g), Len(g), Radix, v), v < Power(Radix, Len(g))
    PROVE  GroupSum(g) = v
<1>1. PICK sum : DigitSums(sum, Len(g), Radix, Groups(g)) /\ GroupSum(g) = sum[Len(g)]
  BY GroupSumDef
<1> DEFINE n == Len(g)
<1>2. n \in Nat /\ Radix \in Nat \ {0} /\ n \in 0..n
  BY SeqFacts, VarintAssumption
<1>3. DigitSums(sum, n, Radix, Groups(g)) /\ DigitsOf(Groups(g), n, Radix, v) /\ v < Power(Radix, n)
  BY <1>1
<1> HIDE DEF n
<1>4. sum[n] = v % Power(Radix, n)
  BY <1>2, <1>3, DigitsAdd
<1>5. Power(Radix, n) \in Nat \ {0}
  <2>1. Radix \in Nat /\ Radix >= 1
    BY <1>2
  <2> QED
    BY <1>2, <2>1, PowerPositive
<1>6. v % Power(Radix, n) = v
  <2> DEFINE m == Power(Radix, n)
  <2>1. m \in Nat \ {0} /\ v < m
    BY <1>3, <1>5
  <2> HIDE DEF m
  <2>2. v % m = v
    BY <2>1
  <2> QED
    BY <2>2 DEF m
<1> QED
  BY <1>1, <1>4, <1>6 DEF n

-----------------------------------------------------------------------------
(* What is written is read. *)

\* A value has no more groups than the bytes it takes.
LEMMA ValueFits ==
    ASSUME NEW v \in Word, NEW width \in encoded_len_varint(v)..MaxGroups
    PROVE  v \in Nat /\ width \in Nat \ {0} /\ v < Power(Radix, width)
<1> DEFINE e == encoded_len_varint(v)
           last == Power(Radix, MaxGroups - 1)
           S == {g \in 1..(MaxGroups - 1) : v >= Power(Radix, g)}
<1>1. e \in 1..MaxGroups /\ MaxGroups \in Nat /\ MaxGroups - 1 \in Nat /\ Radix \in Nat \ {0}
      /\ LastGroup \in Nat /\ LastGroup <= Radix
  BY EncodedLenType, VarintAssumption
<1>2. last \in Nat /\ Power(Radix, MaxGroups) = Radix * last
  <2>1. MaxGroups = (MaxGroups - 1) + 1
    BY <1>1
  <2> QED
    BY <1>1, <2>1, PowerDef
<1>3. v \in Nat /\ v < LastGroup * last
  <2>1. v \in 0..(LastGroup * last - 1)
    BY DEF Word
  <2> HIDE DEF last
  <2> QED
    BY <1>1, <1>2, <2>1
<1>4. v < Power(Radix, MaxGroups)
  <2> HIDE DEF last
  <2>1. LastGroup * last <= Radix * last
    BY <1>1, <1>2
  <2> QED
    BY <1>1, <1>2, <1>3, <2>1
<1>5. e = 1 + Cardinality(S)
  BY DEF encoded_len_varint
<1> HIDE DEF e
<1>6. ASSUME e <= MaxGroups - 1, v >= Power(Radix, e)
      PROVE  FALSE
  <2>1. ASSUME NEW g \in 1..e
        PROVE  g \in S
    <3>0. g \in Nat /\ e \in Nat /\ g <= e
      BY <1>1
    <3>1. Power(Radix, g) <= Power(Radix, e)
      BY <1>1, <3>0, PowerMonotone
    <3>2. Power(Radix, g) \in Nat /\ Power(Radix, e) \in Nat
      BY <1>1, <3>0, PowerDef
    <3> QED
      BY <1>1, <1>3, <1>6, <3>1, <3>2
  <2> HIDE DEF S
  <2>2. 1..e \in SUBSET S
    BY <2>1
  <2>3. IsFiniteSet(S)
    <3>1. IsFiniteSet(1..(MaxGroups - 1)) /\ S \in SUBSET (1..(MaxGroups - 1))
      BY <1>1, FS_Interval DEF S
    <3> QED
      BY <3>1, FS_Subset
  <2>4. Cardinality(1..e) <= Cardinality(S) /\ Cardinality(1..e) = e
    BY <1>1, <2>2, <2>3, FS_Subset, FS_Interval
  <2>5. Cardinality(S) \in Nat
    BY <2>3, FS_CardinalityType
  <2> QED
    BY <1>1, <1>5, <2>4, <2>5
<1>7. width \in Nat \ {0} /\ e <= width /\ width <= MaxGroups
  BY <1>1 DEF e
<1>8. v < Power(Radix, width)
  <2>1. CASE width = MaxGroups
    BY <1>4, <2>1
  <2>2. CASE width # MaxGroups
    <3>1. e <= MaxGroups - 1
      BY <1>1, <1>7, <2>2
    <3>2. v < Power(Radix, e) /\ Power(Radix, e) <= Power(Radix, width)
      <4>1. e \in Nat /\ width \in Nat
        BY <1>1, <1>7
      <4>2. Power(Radix, e) \in Nat
        BY <1>1, <4>1, PowerDef
      <4>3. Power(Radix, e) <= Power(Radix, width)
        BY <1>1, <1>7, <4>1, PowerMonotone
      <4>4. v < Power(Radix, e)
        BY <1>3, <1>6, <3>1, <4>2
      <4> QED
        BY <4>3, <4>4
    <3>3. Power(Radix, e) \in Nat /\ Power(Radix, width) \in Nat
      <4>1. e \in Nat /\ width \in Nat
        BY <1>1, <1>7
      <4> QED
        BY <1>1, <4>1, PowerDef
    <3> QED
      BY <1>3, <3>2, <3>3
  <2> QED
    BY <2>1, <2>2
<1> QED
  BY <1>3, <1>7, <1>8

\* The bytes of a padded varint.
LEMMA WideBytes ==
    ASSUME NEW v \in Nat, NEW width \in Nat \ {0}
    PROVE  \A i \in 1..width :
              LET b == write_wide_varint(width, v)[i] IN
              /\ b \in Nat /\ b % Radix = Group(v, i - 1) /\ Group(v, i - 1) \in 0..(Radix - 1)
              /\ i < width => Continues(b)
              /\ i = width => ~Continues(b) /\ b = Group(v, i - 1)
<1> TAKE i \in 1..width
<1> DEFINE b == write_wide_varint(width, v)[i]
           x == Group(v, i - 1)
<1>1. x \in 0..(Radix - 1) /\ Radix \in Nat \ {0}
  <2>1. Power(Radix, i - 1) \in Nat \ {0}
    BY VarintAssumption, PowerPositive
  <2> QED
    BY <2>1, VarintAssumption DEF Group
<1>2. b = IF i < width THEN x + Radix ELSE x
  BY DEF write_wide_varint
<1> HIDE DEF b, x
<1>3. x % Radix = x /\ (x + Radix) % Radix = x
  <2>1. (Radix * 1 + x) % Radix = x /\ (Radix * 0 + x) % Radix = x
    BY <1>1, Quotient
  <2>2. Radix * 1 + x = x + Radix /\ Radix * 0 + x = x
    BY <1>1
  <2> QED
    BY <2>1, <2>2
<1>4. /\ b \in Nat /\ b % Radix = x
      /\ i < width => Continues(b)
      /\ i = width => ~Continues(b) /\ b = x
  BY <1>1, <1>2, <1>3 DEF Continues
<1> QED
  BY <1>1, <1>4 DEF b, x

\* A value written in any width that holds it is read back, whatever follows.
LEMMA WideDecodes ==
    ASSUME NEW v \in Word, NEW width \in encoded_len_varint(v)..MaxGroups,
           NEW s \in Seq(Byte)
    PROVE  decode_varint(write_wide_varint(width, v) \o s) = Decoded(v, width)
<1> DEFINE w == write_wide_varint(width, v)
           t == w \o s
           M == MaxGroups
<1>1. v \in Nat /\ width \in Nat \ {0} /\ v < Power(Radix, width)
  BY ValueFits
<1>2. M \in Nat /\ width <= M /\ Radix \in Nat \ {0} /\ LastGroup \in Nat /\ M >= 2
  <2>1. encoded_len_varint(v) \in 1..MaxGroups
    BY EncodedLenType
  <2> HIDE DEF t, w
  <2> QED
    BY <2>1, VarintAssumption
<1>3. w \in Seq(Byte) /\ Len(w) = width
  BY <1>1, WideType
<1>4. \A i \in 1..width :
         /\ w[i] \in Nat /\ w[i] % Radix = Group(v, i - 1) /\ Group(v, i - 1) \in 0..(Radix - 1)
         /\ i < width => Continues(w[i])
         /\ i = width => ~Continues(w[i]) /\ w[i] = Group(v, i - 1)
  BY <1>1, WideBytes
<1> HIDE DEF w
<1>5. /\ t \in Seq(Byte) /\ Len(t) = width + Len(s) /\ Len(s) \in Nat
      /\ \A i \in 1..width : t[i] = w[i]
  BY <1>3, ConcatProps
<1>6. SubSeq(t, 1, width) = w
  <2> HIDE DEF t
  <2>1. width <= Len(t) /\ 1 <= width + 1
    BY <1>1, <1>5
  <2>2. /\ SubSeq(t, 1, width) \in Seq(Byte) /\ Len(SubSeq(t, 1, width)) = width
        /\ \A k \in 1..width : SubSeq(t, 1, width)[k] = t[k]
    <3> DEFINE p == SubSeq(t, 1, width)
    <3>1. /\ p \in Seq(Byte) /\ Len(p) = width - 1 + 1
          /\ \A k \in 1..(width - 1 + 1) : p[k] = t[1 + k - 1]
      <4> HIDE DEF p
      <4>1. 1 \in Nat \ {0} /\ width \in Nat
        BY <1>1
      <4> QED
        BY <1>5, <2>1, <4>1, SubSeqProps DEF p
    <3> HIDE DEF p
    <3>2. width - 1 + 1 = width /\ \A k \in 1..width : 1 + k - 1 = k
      BY <1>1
    <3>3. \A k \in 1..width : p[k] = t[k]
      BY <3>1, <3>2
    <3> QED
      BY <3>1, <3>2, <3>3 DEF p
  <2> DEFINE p == SubSeq(t, 1, width)
  <2>3. IsSeq(p) /\ IsSeq(w) /\ Len(p) = Len(w) /\ \A k \in 1..Len(p) : p[k] = w[k]
    BY <1>3, <1>5, <2>2, SeqOverSet
  <2> HIDE DEF p
  <2>4. p = w
    BY <2>3, SameSeq
  <2> QED
    BY <2>4 DEF p
<1> HIDE DEF t
<1>7. GroupSum(w) = v
  <2>1. IsSeq(w) /\ \A i \in 1..Len(w) : w[i] \in Nat
    BY <1>3, <1>4, SeqOverSet
  <2>2. DigitsOf(Groups(w), Len(w), Radix, v)
    BY <1>3, <1>4 DEF DigitsOf, Groups, Group
  <2>3. v < Power(Radix, Len(w))
    BY <1>1, <1>3
  <2> QED
    BY <1>1, <2>1, <2>2, <2>3, GroupSumValue
<1>8. Reach(t) \in Nat /\ width <= Reach(t) /\ Reach(t) <= M
  BY <1>1, <1>2, <1>5 DEF Reach
<1>9. Continued(t, Reach(t)) = width - 1
  <2>1. width - 1 \in Nat /\ width # 0
    BY <1>1
  <2>2. \A i \in 1..(width - 1) : Continues(t[i])
    BY <1>1, <1>4, <1>5
  <2>3. Continued(t, width - 1) = width - 1
    BY <2>1, <2>2, ContinuedType
  <2>4. ~Continues(t[width])
    BY <1>1, <1>4, <1>5
  <2>5. Continued(t, width) = width - 1
    BY <1>1, <2>1, <2>3, <2>4, ContinuedStops
  <2>6. Continued(t, width) < width
    BY <1>1, <2>5
  <2> QED
    BY <1>1, <1>8, <2>5, <2>6, ContinuedGrows
<1>10. t # << >> /\ t[1] = w[1]
  <2>1. Len(t) # 0
    BY <1>1, <1>5
  <2>2. t # << >>
    BY <2>1
  <2> QED
    BY <1>1, <1>5, <2>2
<1>11. ASSUME width = 1
       PROVE  decode_varint(t) = Decoded(v, width)
  <2>1. ~Continues(t[1]) /\ t[1] = Group(v, 0)
    <3>1. 1 \in 1..width /\ 1 - 1 = 0
      BY <1>1
    <3> QED
      BY <1>4, <1>10, <1>11, <3>1
  <2>2. Power(Radix, 0) = 1 /\ Power(Radix, 1) = Radix
    <3>1. Power(Radix, 0) = 1 /\ Power(Radix, 0 + 1) = Radix * Power(Radix, 0)
      BY <1>2, PowerDef
    <3> QED
      BY <1>2, <3>1
  <2>3. Group(v, 0) = v
    <3>1. v < Radix
      BY <1>1, <1>11, <2>2
    <3>2. (v \div 1) = v
      BY <1>1
    <3>3. v % Radix = v
      BY <1>1, <1>2, <3>1
    <3> QED
      BY <2>2, <3>2, <3>3 DEF Group
  <2>4. decode_varint(t) = Decoded(t[1], 1)
    BY <1>10, <2>1 DEF decode_varint
  <2> QED
    BY <1>11, <2>1, <2>3, <2>4
<1>12. ASSUME width # 1
       PROVE  decode_varint(t) = Decoded(v, width)
  <2>1. Continues(t[1])
    BY <1>1, <1>4, <1>10, <1>12
  <2>2. ~TooLarge(t)
    <3>1. SUFFICES ASSUME width = M
                   PROVE  ~(t[M] >= LastGroup)
      BY <1>1, <1>2, <1>9 DEF TooLarge
    <3>2. t[M] = Group(v, M - 1)
      BY <1>1, <1>4, <1>5, <3>1
    <3> DEFINE last == Power(Radix, M - 1)
    <3>3. last \in Nat \ {0}
      BY <1>2, PowerPositive, M - 1 \in Nat, Radix >= 1
    <3>4. v < LastGroup * last
      <4>1. v \in 0..(LastGroup * last - 1)
        BY DEF Word
      <4> HIDE DEF last
      <4> QED
        BY <1>2, <3>3, <4>1
    <3>5. Group(v, M - 1) = (v \div last) % Radix
      BY DEF Group
    <3> HIDE DEF last
    <3>6. v \div last < LastGroup /\ v \div last \in Nat
      <4> DEFINE q == v \div last
      <4>1. v = last * q + (v % last) /\ v % last \in 0..(last - 1) /\ q \in Nat
        BY <1>1, <3>3, Division
      <4> HIDE DEF q
      <4>2. q < LastGroup
        <5>1. ASSUME q >= LastGroup
              PROVE  FALSE
          <6>1. last * q >= last * LastGroup
            BY <1>2, <3>3, <4>1, <5>1
          <6>2. last * LastGroup = LastGroup * last
            BY <1>2, <3>3
          <6> QED
            BY <1>1, <1>2, <3>3, <3>4, <4>1, <6>1, <6>2
        <5> QED
          BY <1>2, <4>1, <5>1
      <4> QED
        BY <4>1, <4>2 DEF q
    <3>7. (v \div last) % Radix = v \div last
      <4> DEFINE q == v \div last
      <4>1. q \in Nat /\ q < Radix
        BY <1>2, <3>6, VarintAssumption
      <4> HIDE DEF q
      <4>2. q % Radix = q
        BY <1>2, <4>1
      <4> QED
        BY <4>2 DEF q
    <3> QED
      BY <1>2, <3>2, <3>5, <3>6, <3>7
  <2>3. decode_varint(t) = Taken(t, (width - 1) + 1)
    <3>1. width - 1 < Reach(t)
      BY <1>1, <1>8
    <3> QED
      BY <1>5, <1>9, <1>10, <2>1, <2>2, <3>1, ReadingIs
  <2>4. (width - 1) + 1 = width
    BY <1>1
  <2>5. decode_varint(t) = Taken(t, width)
    BY <2>3, <2>4
  <2>6. Taken(t, width) = Decoded(v, width)
    BY <1>6, <1>7 DEF Taken
  <2> QED
    BY <2>5, <2>6
<1> QED
  BY <1>11, <1>12 DEF t, w

\* What is read is a word, and lies inside the input.
LEMMA DecodesWord ==
    ASSUME NEW s \in Seq(Byte), decode_varint(s).ok
    PROVE  /\ decode_varint(s).value \in Word
           /\ decode_varint(s).used \in 1..Len(s)
           /\ decode_varint(s).used <= MaxGroups
<1> DEFINE c == Continued(s, Reach(s))
           k == c + 1
           last == Power(Radix, MaxGroups - 1)
<1>1. c < Reach(s) /\ ~TooLarge(s) /\ decode_varint(s).used = k
  BY ReadingUsed
<1>2. Reach(s) \in 0..Len(s) /\ Reach(s) <= MaxGroups /\ Len(s) \in Nat
      /\ \A i \in 1..Len(s) : s[i] \in Nat /\ s[i] < 2 * Radix
  BY ReachType
<1>3. Reach(s) \in Nat
  BY <1>2
<1>4. c \in Nat
  BY <1>3, ContinuedType
<1> HIDE DEF c
<1>5. k \in 1..Len(s) /\ k <= MaxGroups /\ k \in Nat \ {0}
  <2>1. c < Reach(s) /\ MaxGroups \in Nat
    BY <1>1, VarintAssumption
  <2> QED
    BY <1>2, <1>3, <1>4, <2>1
<1>6. /\ MaxGroups \in Nat /\ MaxGroups - 1 \in Nat /\ MaxGroups >= 2
      /\ Radix \in Nat \ {0} /\ LastGroup \in Nat \ {0} /\ LastGroup <= Radix /\ Radix >= 1
  BY VarintAssumption
<1>7. last \in Nat \ {0} /\ last <= LastGroup * last /\ LastGroup * last \in Nat
  <2>1. last \in Nat \ {0}
    BY <1>6, PowerPositive
  <2> HIDE DEF last
  <2> QED
    BY <1>6, <2>1
<1>8. ASSUME NEW x \in Nat, x < LastGroup * last
      PROVE  x \in Word
  <2>1. Word = 0..(LastGroup * last - 1)
    BY DEF Word
  <2> HIDE DEF last
  <2> QED
    BY <1>6, <1>7, <1>8, <2>1
<1> DEFINE g == SubSeq(s, 1, k)
<1>9. IsSeq(g) /\ Len(g) = k /\ \A i \in 1..k : g[i] \in Nat /\ g[i] = s[i]
  <2> HIDE DEF k
  <2>1. 1 \in Nat \ {0} /\ k \in Nat /\ k <= Len(s) /\ 1 <= k + 1
    BY <1>5
  <2>2. g \in Seq(Byte) /\ Len(g) = k - 1 + 1 /\ \A i \in 1..(k - 1 + 1) : g[i] = s[1 + i - 1]
    BY <2>1, SubSeqProps
  <2> HIDE DEF g
  <2>3. k - 1 + 1 = k /\ \A i \in 1..k : 1 + i - 1 = i /\ i \in 1..Len(s)
    BY <1>2, <1>5
  <2>4. \A i \in 1..k : g[i] = s[i]
    BY <2>2, <2>3
  <2> QED
    BY <1>2, <2>2, <2>3, <2>4, SeqOverSet
<1> HIDE DEF g
<1>10. GroupSum(g) \in Nat /\ GroupSum(g) < LastGroup * last
  <2>1. GroupSum(g) \in Nat /\ GroupSum(g) < Power(Radix, k)
    BY <1>9, GroupSumSmall
  <2>2. CASE k < MaxGroups
    <3>1. Power(Radix, k) <= last
      BY <1>5, <1>6, <2>2, PowerMonotone
    <3>2. Power(Radix, k) \in Nat
      BY <1>5, <1>6, PowerDef
    <3> HIDE DEF last
    <3> QED
      BY <1>7, <2>1, <3>1, <3>2
  <2>3. CASE k = MaxGroups
    <3>1. s[MaxGroups] < LastGroup
      <4>1. c = MaxGroups - 1
        BY <1>4, <1>6, <2>3
      <4>2. ~(s[MaxGroups] >= LastGroup)
        BY <1>1, <4>1 DEF TooLarge, c
      <4>3. s[MaxGroups] \in Nat
        BY <1>2, <1>5, <2>3
      <4> QED
        BY <1>6, <4>2, <4>3
    <3>2. PICK sum : DigitSums(sum, Len(g), Radix, Groups(g)) /\ GroupSum(g) = sum[Len(g)]
      BY <1>9, GroupSumDef
    <3>3. DigitSums(sum, k, Radix, Groups(g)) /\ GroupSum(g) = sum[k]
      BY <1>9, <3>2
    <3>4. \A i \in 1..k : Groups(g)[i] = g[i] % Radix /\ Groups(g)[i] \in 0..(Radix - 1)
      BY <1>6, <1>9 DEF Groups
    <3>5. DigitsBelow(Groups(g), k, Radix)
      BY <3>4 DEF DigitsBelow
    <3> DEFINE m == k - 1
    <3>6. m \in 0..k /\ k \in 1..k /\ m = MaxGroups - 1
      BY <1>5, <1>6, <2>3
    <3>7. sum[m] \in Nat /\ sum[m] < Power(Radix, m)
      BY <1>5, <1>6, <3>3, <3>5, <3>6, DigitsSmall
    <3>8. sum[k] = sum[m] + Groups(g)[k] * Power(Radix, m)
      BY <3>3, <3>6 DEF DigitSums
    <3>9. Groups(g)[k] \in Nat /\ Groups(g)[k] < LastGroup
      <4>1. Groups(g)[k] = s[k] % Radix /\ s[k] \in Nat /\ s[k] < LastGroup
        BY <1>9, <2>3, <3>1, <3>4, <3>6
      <4> DEFINE x == s[k]
      <4>2. x \in Nat /\ x < Radix
        BY <1>6, <4>1
      <4> HIDE DEF x
      <4>3. x % Radix = x
        BY <1>6, <4>2
      <4> QED
        BY <4>1, <4>3 DEF x
    <3>10. Power(Radix, m) = last
      BY <3>6
    <3> DEFINE x == Groups(g)[k]
               r == sum[m]
    <3>11. r \in Nat /\ r < last /\ x \in Nat /\ x < LastGroup /\ GroupSum(g) = r + x * last
      BY <3>3, <3>7, <3>8, <3>9, <3>10
    <3> HIDE DEF x, r, last
    <3>12. r + x * last < LastGroup * last
      <4>1. x \in 0..(LastGroup - 1)
        BY <1>6, <3>11
      <4> QED
        BY <1>6, <1>7, <3>11, <4>1, DigitCarries
    <3> QED
      BY <2>1, <3>11, <3>12
  <2> QED
    BY <1>5, <1>6, <2>2, <2>3
<1>11. s # << >>
  BY <1>5
<1>12. CASE Continues(s[1])
  <2>1. decode_varint(s) = Taken(s, k)
    BY <1>1, <1>11, <1>12, ReadingIs DEF c
  <2>2. decode_varint(s).value = GroupSum(g)
    BY <2>1 DEF Taken, Decoded, g
  <2> QED
    BY <1>1, <1>5, <1>8, <1>10, <2>2
<1>13. CASE ~Continues(s[1])
  <2>1. decode_varint(s).value = s[1]
    BY <1>11, <1>13 DEF decode_varint, Decoded
  <2>2. s[1] \in Nat /\ s[1] < Radix
    BY <1>2, <1>5, <1>6, <1>13 DEF Continues
  <2>3. Radix <= last
    <3>1. Power(Radix, 1) <= last
      BY <1>6, PowerMonotone
    <3>2. Power(Radix, 0 + 1) = Radix * Power(Radix, 0) /\ Power(Radix, 0) = 1
      BY <1>6, PowerDef
    <3> QED
      BY <1>6, <3>1, <3>2
  <2>4. s[1] < LastGroup * last
    <3> DEFINE x == s[1]
    <3>1. x \in Nat /\ x < Radix
      BY <2>2
    <3> HIDE DEF x, last
    <3>2. x < LastGroup * last
      BY <1>6, <1>7, <2>3, <3>1
    <3> QED
      BY <3>2 DEF x
  <2> QED
    BY <1>1, <1>5, <1>8, <2>1, <2>2, <2>4
<1> QED
  BY <1>12, <1>13
=============================================================================
