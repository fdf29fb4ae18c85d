--------------------------- MODULE SequenceLemmas ---------------------------
(***************************************************************************)
(* Facts about natural numbers and sequences that the proofs of several    *)
(* modules cite.                                                           *)
(***************************************************************************)
EXTENDS SequencesExt, TLAPS, SequenceTheorems, FiniteSetTheorems, WellFoundedInduction

-----------------------------------------------------------------------------
(* Induction and recursion.  The library's theorems about them take an      *)
(* operator as a parameter; these take a set, or a function.               *)

\* A set of natural numbers has a least element.
LEMMA LeastNat ==
    ASSUME NEW T, T \subseteq Nat, T # {}
    PROVE  \E m \in T : \A k \in T : m <= k
<1> DEFINE below == {0..n : n \in T}
           R == StrictSubsetOrdering(Nat)
<1>1. below \subseteq FiniteSubsetsOf(Nat)
  <2> SUFFICES ASSUME NEW n \in T
               PROVE  0..n \in SUBSET Nat /\ IsFiniteSet(0..n)
    BY DEF FiniteSubsetsOf
  <2>1. n \in Nat /\ 0 \in Int /\ n \in Int
    OBVIOUS
  <2> QED
    BY <2>1, FS_Interval
<1>2. below # {}
  OBVIOUS
<1>3. IsWellFoundedOn(R, FiniteSubsetsOf(Nat))
  BY FS_StrictSubsetOrderingWellFounded
<1> HIDE DEF R
<1>4. PICK x \in below : \A y \in below : ~(<<y, x>> \in R)
  <2> HIDE DEF below
  <2> QED
    BY <1>1, <1>2, <1>3, WFMin
<1>5. PICK m \in T : x = 0..m
  BY <1>4
<1>6. ASSUME NEW k \in T, ~(m <= k)
      PROVE  FALSE
  <2>1. 0..k \in below /\ m \in Nat /\ k \in Nat
    OBVIOUS
  <2>2. 0..k \subseteq 0..m /\ 0..k # 0..m /\ 0..k \in SUBSET Nat /\ 0..m \in SUBSET Nat
    <3>1. k < m
      BY <1>6, <2>1
    <3>2. m \in 0..m /\ m \notin 0..k
      BY <2>1, <3>1
    <3> QED
      BY <2>1, <3>1, <3>2
  <2>3. <<0..k, 0..m>> \in R
    BY <2>2 DEF R, StrictSubsetOrdering
  <2> QED
    BY <1>4, <1>5, <2>1, <2>3
<1> QED
  BY <1>6

\* What contains zero and the successor of whatever it contains contains every number.
LEMMA SetInduction ==
    ASSUME NEW T, 0 \in T, \A n \in Nat : n \in T => n + 1 \in T
    PROVE  Nat \subseteq T
<1> SUFFICES ASSUME Nat \ T # {}
             PROVE  FALSE
  OBVIOUS
<1>1. PICK m \in Nat \ T : \A k \in Nat \ T : m <= k
  <2> DEFINE U == Nat \ T
  <2>1. U \subseteq Nat /\ U # {}
    OBVIOUS
  <2> HIDE DEF U
  <2>2. \E m \in U : \A k \in U : m <= k
    BY <2>1, LeastNat
  <2> QED
    BY <2>2 DEF U
<1>2. m # 0 /\ m - 1 \in Nat /\ ~(m <= m - 1)
  BY <1>1
<1>3. m - 1 \in T
  BY <1>1, <1>2
<1> QED
  BY <1>2, <1>3

\* A function that is defined by what comes after what exists.
LEMMA Recursion ==
    ASSUME NEW V, NEW z \in V, NEW n \in Nat, NEW next \in [1..n -> [V -> V]]
    PROVE  \E f \in [0..n -> V] : f[0] = z /\ \A i \in 1..n : f[i] = next[i][f[i - 1]]
<1> DEFINE Run(m, f) == /\ f \in [0..m -> V]
                        /\ f[0] = z
                        /\ \A i \in 1..m : f[i] = next[i][f[i - 1]]
           T == {m \in Nat : m <= n => \E f : Run(m, f)}
<1>1. 0 \in T
  <2> DEFINE f == [i \in 0..0 |-> z]
  <2>1. Run(0, f)
    OBVIOUS
  <2> QED
    BY <2>1
<1>2. ASSUME NEW m \in Nat, m \in T
      PROVE  m + 1 \in T
  <2> SUFFICES ASSUME m + 1 <= n
               PROVE  \E f : Run(m + 1, f)
    OBVIOUS
  <2>1. PICK f : Run(m, f)
    BY <1>2
  <2> DEFINE g == [i \in 0..(m + 1) |-> IF i = m + 1 THEN next[m + 1][f[m]] ELSE f[i]]
  <2>2. f[m] \in V /\ m + 1 \in 1..n
    BY <2>1
  <2>3. next[m + 1][f[m]] \in V
    BY <2>2
  <2>4. g \in [0..(m + 1) -> V]
    <3>1. \A i \in 0..(m + 1) : i # m + 1 => i \in 0..m
      OBVIOUS
    <3> QED
      BY <2>1, <2>3, <3>1
  <2>5. g[0] = z
    BY <2>1
  <2>6. ASSUME NEW i \in 1..(m + 1)
        PROVE  g[i] = next[i][g[i - 1]]
    <3>1. i - 1 \in 0..(m + 1) /\ i - 1 # m + 1 /\ i \in 0..(m + 1)
      OBVIOUS
    <3>2. g[i - 1] = f[i - 1]
      BY <3>1
    <3>3. CASE i = m + 1
      BY <3>1, <3>2, <3>3
    <3>4. CASE i # m + 1
      BY <2>1, <3>1, <3>2, <3>4
    <3> QED
      BY <3>3, <3>4
  <2> HIDE DEF g
  <2>7. Run(m + 1, g)
    BY <2>4, <2>5, <2>6
  <2> QED
    BY <2>7
<1>3. Nat \subseteq T
  <2> HIDE DEF T
  <2> QED
    BY <1>1, <1>2, SetInduction
<1>4. PICK f : Run(n, f)
  BY <1>3
<1> QED
  BY <1>4

-----------------------------------------------------------------------------
(* Sequences over a known set. *)

\* All but the last element.
LEMMA FrontProps ==
    ASSUME NEW S, NEW s \in Seq(S), s # << >>
    PROVE  /\ Front(s) \in Seq(S)
           /\ Len(Front(s)) = Len(s) - 1
           /\ \A i \in 1..(Len(s) - 1) : Front(s)[i] = s[i]
           /\ Last(s) \in S
           /\ Last(s) = s[Len(s)]
           /\ Len(s) \in Nat \ {0}
<1>1. Len(s) \in Nat \ {0}
  BY EmptySeq
<1>2. \A n \in 0..Len(s) :
          /\ SubSeq(s, 1, n) \in Seq(S)
          /\ Len(SubSeq(s, 1, n)) = n
          /\ \A i \in 1..n : SubSeq(s, 1, n)[i] = s[i]
  OBVIOUS
<1>3. Len(s) - 1 \in 0..Len(s)
  BY <1>1
<1>4. /\ Front(s) \in Seq(S)
      /\ Len(Front(s)) = Len(s) - 1
      /\ \A i \in 1..(Len(s) - 1) : Front(s)[i] = s[i]
  BY <1>2, <1>3, Zenon DEF Front
<1>5. Last(s) = s[Len(s)] /\ Last(s) \in S
  BY <1>1, ElementOfSeq DEF Last
<1> QED
  BY <1>1, <1>4, <1>5

\* One sequence behind another.
LEMMA ConcatProps ==
    ASSUME NEW S, NEW s \in Seq(S), NEW t \in Seq(S)
    PROVE  /\ s \o t \in Seq(S)
           /\ Len(s \o t) = Len(s) + Len(t)
           /\ \A i \in 1..Len(s) : (s \o t)[i] = s[i]
OBVIOUS

\* The elements from a to b.
LEMMA SubSeqProps ==
    ASSUME NEW S, NEW s \in Seq(S), NEW a \in Nat \ {0}, NEW b \in Nat,
           b <= Len(s), a <= b + 1
    PROVE  /\ SubSeq(s, a, b) \in Seq(S)
           /\ Len(SubSeq(s, a, b)) = b - a + 1
           /\ \A k \in 1..(b - a + 1) : SubSeq(s, a, b)[k] = s[a + k - 1]
<1>1. \A i \in a..b : s[i] \in S
  OBVIOUS
<1>2. SubSeq(s, a, b) \in Seq(S)
  OBVIOUS
<1>3. Len(SubSeq(s, a, b)) = b - a + 1
  OBVIOUS
<1>4. \A k \in 1..(b - a + 1) : SubSeq(s, a, b)[k] = s[a + k - 1]
  OBVIOUS
<1> QED
  BY <1>2, <1>3, <1>4

-----------------------------------------------------------------------------
(* Sequences of whatever elements. *)

IsSeq(s) == s \in Seq(ToSet(s))

\* A function on an interval from 1 is a sequence.
LEMMA FunctionIsSeq ==
    ASSUME NEW n \in Nat, NEW s, s = [i \in 1..n |-> s[i]]
    PROVE  IsSeq(s) /\ Len(s) = n /\ DOMAIN s = 1..n
<1>1. DOMAIN s = 1..n
  OBVIOUS
<1>2. s \in [1..n -> ToSet(s)]
  BY <1>1 DEF ToSet
<1>3. s \in Seq(ToSet(s))
  BY <1>2
<1> QED
  BY <1>1, <1>3 DEF IsSeq

\* A sequence is a function on its indices.
LEMMA SeqFacts ==
    ASSUME NEW s, IsSeq(s)
    PROVE  /\ Len(s) \in Nat
           /\ DOMAIN s = 1..Len(s)
           /\ s = [i \in 1..Len(s) |-> s[i]]
<1> DEFINE S == ToSet(s)
<1>1. s \in Seq(S)
  BY DEF IsSeq
<1> HIDE DEF S
<1> QED
  BY <1>1, LenProperties

\* One more element.
LEMMA AppendFacts ==
    ASSUME NEW s, IsSeq(s), NEW x
    PROVE  /\ IsSeq(Append(s, x))
           /\ Len(Append(s, x)) = Len(s) + 1
           /\ DOMAIN Append(s, x) = 1..(Len(s) + 1)
           /\ \A i \in 1..Len(s) : Append(s, x)[i] = s[i]
           /\ Append(s, x)[Len(s) + 1] = x
<1> DEFINE S == ToSet(s) \cup {x}
<1>1. s \in Seq(ToSet(s)) /\ x \in S
  BY DEF IsSeq
<1>2. s \in Seq(S)
  BY <1>1, SeqMonotonic
<1> HIDE DEF S
<1>3. /\ Append(s, x) \in Seq(S)
      /\ Len(Append(s, x)) = Len(s) + 1
      /\ \A i \in 1..Len(s) : Append(s, x)[i] = s[i]
      /\ Append(s, x)[Len(s) + 1] = x
      /\ Len(s) \in Nat
  BY <1>1, <1>2
<1>4. Append(s, x) = [i \in 1..(Len(s) + 1) |-> Append(s, x)[i]]
  BY <1>3, LenProperties
<1> QED
  BY <1>3, <1>4, FunctionIsSeq

\* One element replaced.
LEMMA ExceptFacts ==
    ASSUME NEW s, IsSeq(s), NEW n, NEW x
    PROVE  /\ IsSeq([s EXCEPT ![n] = x])
           /\ Len([s EXCEPT ![n] = x]) = Len(s)
           /\ DOMAIN [s EXCEPT ![n] = x] = DOMAIN s
           /\ \A i \in DOMAIN s : [s EXCEPT ![n] = x][i] = IF i = n THEN x ELSE s[i]
<1>1. Len(s) \in Nat /\ DOMAIN s = 1..Len(s)
  BY SeqFacts
<1> DEFINE t == [s EXCEPT ![n] = x]
<1>2. t = [i \in 1..Len(s) |-> t[i]]
  BY <1>1
<1>3. \A i \in DOMAIN s : t[i] = IF i = n THEN x ELSE s[i]
  OBVIOUS
<1> HIDE DEF t
<1>4. IsSeq(t) /\ Len(t) = Len(s) /\ DOMAIN t = DOMAIN s
  BY <1>1, <1>2, FunctionIsSeq
<1> QED
  BY <1>3, <1>4 DEF t

\* All but the last element.
LEMMA FrontFacts ==
    ASSUME NEW s, IsSeq(s), s # << >>
    PROVE  /\ IsSeq(Front(s))
           /\ Len(Front(s)) = Len(s) - 1
           /\ Len(s) \in DOMAIN s
           /\ DOMAIN Front(s) \subseteq DOMAIN s
           /\ \A i \in DOMAIN Front(s) : Front(s)[i] = s[i]
<1> DEFINE S == ToSet(s)
<1>1. s \in Seq(S)
  BY DEF IsSeq
<1> HIDE DEF S
<1>2. Len(s) \in Nat \ {0} /\ DOMAIN s = 1..Len(s)
  BY <1>1, EmptySeq, LenProperties
<1> DEFINE n == Len(s) - 1
<1>3. n \in Nat /\ n \in 0..Len(s)
  BY <1>2
<1>4. /\ SubSeq(s, 1, n) \in Seq(S)
      /\ Len(SubSeq(s, 1, n)) = n
      /\ \A i \in 1..n : SubSeq(s, 1, n)[i] = s[i]
  <2>1. \A k \in 0..Len(s) :
            /\ SubSeq(s, 1, k) \in Seq(S)
            /\ Len(SubSeq(s, 1, k)) = k
            /\ \A i \in 1..k : SubSeq(s, 1, k)[i] = s[i]
    BY <1>1
  <2> QED
    BY <1>3, <2>1
<1>5. Front(s) = SubSeq(s, 1, n)
  BY DEF Front
<1>6. Front(s) = [i \in 1..n |-> Front(s)[i]]
  BY <1>4, <1>5, LenProperties
<1>7. IsSeq(Front(s)) /\ Len(Front(s)) = n /\ DOMAIN Front(s) = 1..n
  BY <1>3, <1>6, FunctionIsSeq
<1> QED
  BY <1>2, <1>4, <1>5, <1>7

\* All but the first element.
LEMMA TailFacts ==
    ASSUME NEW s, IsSeq(s), s # << >>
    PROVE  /\ IsSeq(Tail(s))
           /\ 1 \in DOMAIN s
           /\ Head(s) = s[1]
           /\ \A i \in DOMAIN Tail(s) : i + 1 \in DOMAIN s /\ Tail(s)[i] = s[i + 1]
<1> DEFINE S == ToSet(s)
<1>1. s \in Seq(S)
  BY DEF IsSeq
<1> HIDE DEF S
<1>2. Len(s) \in Nat \ {0} /\ DOMAIN s = 1..Len(s)
  BY <1>1, EmptySeq, LenProperties
<1>3. /\ Tail(s) \in Seq(S)
      /\ Len(Tail(s)) = Len(s) - 1
      /\ \A i \in 1..(Len(s) - 1) : Tail(s)[i] = s[i + 1]
      /\ Head(s) = s[1]
  BY <1>1, <1>2, HeadTailProperties
<1>4. Tail(s) = [i \in 1..(Len(s) - 1) |-> Tail(s)[i]]
  BY <1>3, LenProperties
<1>5. IsSeq(Tail(s)) /\ DOMAIN Tail(s) = 1..(Len(s) - 1)
  <2> DEFINE n == Len(s) - 1
  <2>1. n \in Nat
    BY <1>2
  <2> QED
    BY <1>4, <2>1, FunctionIsSeq
<1> QED
  BY <1>2, <1>3, <1>5

\* Sequences are functions: two that agree everywhere are one.
LEMMA SameSeq ==
    ASSUME NEW s, NEW t, IsSeq(s), IsSeq(t), Len(s) = Len(t),
           \A i \in 1..Len(s) : s[i] = t[i]
    PROVE  s = t
<1>1. s = [i \in 1..Len(s) |-> s[i]] /\ t = [i \in 1..Len(s) |-> t[i]]
  BY SeqFacts
<1>2. [i \in 1..Len(s) |-> s[i]] = [i \in 1..Len(s) |-> t[i]]
  OBVIOUS
<1> QED
  BY <1>1, <1>2

\* What stands where in a concatenation.
LEMMA ConcatFacts ==
    ASSUME NEW s, NEW t, IsSeq(s), IsSeq(t)
    PROVE  /\ IsSeq(s \o t)
           /\ Len(s \o t) = Len(s) + Len(t)
           /\ \A i \in 1..Len(s) : (s \o t)[i] = s[i]
           /\ \A i \in 1..Len(t) : (s \o t)[Len(s) + i] = t[i]
<1> DEFINE S == ToSet(s) \cup ToSet(t)
<1>1. s \in Seq(S) /\ t \in Seq(S)
  BY SeqMonotonic DEF IsSeq
<1> HIDE DEF S
<1>2. /\ s \o t \in Seq(S)
      /\ Len(s \o t) = Len(s) + Len(t)
      /\ \A i \in 1..(Len(s) + Len(t)) : (s \o t)[i] = IF i <= Len(s) THEN s[i] ELSE t[i - Len(s)]
      /\ Len(s) \in Nat /\ Len(t) \in Nat
  BY <1>1, ConcatProperties
<1>3. s \o t = [i \in 1..(Len(s) + Len(t)) |-> (s \o t)[i]]
  BY <1>2, LenProperties
<1>4. IsSeq(s \o t)
  BY <1>2, <1>3, FunctionIsSeq
<1>5. \A i \in 1..Len(s) : (s \o t)[i] = s[i]
  BY <1>2
<1>6. \A i \in 1..Len(t) : (s \o t)[Len(s) + i] = t[i]
  BY <1>2
<1> QED
  BY <1>2, <1>4, <1>5, <1>6

\* What is prepended to leaves what was there as a suffix.
LEMMA SuffixOfConcat ==
    ASSUME NEW S, NEW s \in Seq(S), NEW c \in Seq(S)
    PROVE  IsSuffix(s, c \o s)
<1> DEFINE t == c \o s
           n == Len(s)
           m == Len(c)
<1>1. /\ t \in Seq(S) /\ Len(t) = m + n
      /\ \A i \in 1..(m + n) : t[i] = IF i <= m THEN c[i] ELSE s[i - m]
      /\ n \in Nat /\ m \in Nat
  BY ConcatProperties
<1> HIDE DEF t, n, m
<1>2. /\ \A i \in 1..n : s[i] \in S
      /\ \A i \in 1..(m + n) : t[i] \in S
  BY <1>1, ElementOfSeq DEF n
<1>3. /\ Reverse(s) = [i \in 1..n |-> s[(n - i) + 1]]
      /\ Reverse(t) = [i \in 1..(m + n) |-> t[((m + n) - i) + 1]]
  BY <1>1 DEF Reverse, n
<1>4. /\ \A i \in 1..n : (n - i) + 1 \in 1..n
      /\ \A i \in 1..(m + n) : ((m + n) - i) + 1 \in 1..(m + n)
  BY <1>1
<1>5. Reverse(s) \in [1..n -> S] /\ Reverse(t) \in [1..(m + n) -> S]
  BY <1>2, <1>3, <1>4
<1>6. /\ Reverse(s) \in Seq(S) /\ Len(Reverse(s)) = n
      /\ Reverse(t) \in Seq(S) /\ Len(Reverse(t)) = m + n
  <2> DEFINE k == m + n
             x == Reverse(s)
             y == Reverse(t)
  <2>1. k \in Nat /\ x \in [1..n -> S] /\ y \in [1..k -> S]
    BY <1>1, <1>5
  <2> HIDE DEF k, x, y
  <2>2. \A j \in Nat : \A f \in [1..j -> S] : f \in Seq(S) /\ Len(f) = j
    OBVIOUS
  <2>3. x \in Seq(S) /\ Len(x) = n
    BY <1>1, <2>1, <2>2
  <2>4. y \in Seq(S) /\ Len(y) = k
    BY <2>1, <2>2
  <2> QED
    BY <2>3, <2>4 DEF k, x, y
<1>7. \A i \in 1..n : Reverse(s)[i] = Reverse(t)[i]
  BY <1>1, <1>3, SMTT(30)
<1> DEFINE a == SubSeq(Reverse(s), 1, n)
           b == SubSeq(Reverse(t), 1, n)
<1>8. /\ a \in Seq(S) /\ Len(a) = n /\ \A i \in 1..n : a[i] = Reverse(s)[i]
      /\ b \in Seq(S) /\ Len(b) = n /\ \A i \in 1..n : b[i] = Reverse(t)[i]
  BY <1>1, <1>6, SubSeqProps
<1>9. a = b
  BY <1>7, <1>8, SeqEqual
<1> QED
  BY <1>1, <1>6, <1>9 DEF IsSuffix, IsPrefix, t

\* Sequences that differ at most in their last elements.
LEMMA FrontSame ==
    ASSUME NEW s, NEW t, IsSeq(s), IsSeq(t), Len(s) = Len(t), Len(s) \in Nat \ {0},
           \A i \in 1..(Len(s) - 1) : s[i] = t[i]
    PROVE  Front(s) = Front(t)
<1>1. s # << >> /\ t # << >>
  OBVIOUS
<1>2. /\ IsSeq(Front(s)) /\ Len(Front(s)) = Len(s) - 1
      /\ \A i \in DOMAIN Front(s) : Front(s)[i] = s[i]
      /\ IsSeq(Front(t)) /\ Len(Front(t)) = Len(s) - 1
      /\ \A i \in DOMAIN Front(t) : Front(t)[i] = t[i]
  BY <1>1, FrontFacts
<1>3. DOMAIN Front(s) = 1..(Len(s) - 1) /\ DOMAIN Front(t) = 1..(Len(s) - 1)
  BY <1>2, SeqFacts
<1> QED
  BY <1>2, <1>3, SameSeq

\* What is appended to leaves what was there as a prefix.
LEMMA PrefixOfConcat ==
    ASSUME NEW S, NEW s \in Seq(S), NEW c \in Seq(S)
    PROVE  IsPrefix(s, s \o c)
<1> DEFINE t == s \o c
           n == Len(s)
<1>1. /\ t \in Seq(S) /\ Len(t) = n + Len(c)
      /\ \A i \in 1..n : t[i] = s[i]
      /\ n \in Nat /\ Len(c) \in Nat
  BY ConcatProps
<1> HIDE DEF t, n
<1>2. n <= Len(t) /\ n <= Len(s) /\ 1 \in Nat \ {0} /\ 1 <= n + 1
  BY <1>1 DEF n
<1> DEFINE a == SubSeq(s, 1, n)
           b == SubSeq(t, 1, n)
<1>3. /\ a \in Seq(S) /\ Len(a) = n /\ \A i \in 1..n : a[i] = s[i]
      /\ b \in Seq(S) /\ Len(b) = n /\ \A i \in 1..n : b[i] = t[i]
  BY <1>1, <1>2, SubSeqProps
<1>4. a = b
  BY <1>1, <1>3, SeqEqual
<1> QED
  BY <1>1, <1>2, <1>4 DEF IsPrefix, t, n

-----------------------------------------------------------------------------
(* Pieces of a sequence. *)

\* What lies behind position lo, up to position hi.
Piece(s, lo, hi) == SubSeq(s, lo + 1, hi)

\* A sequence over a set is one.
LEMMA SeqOverSet ==
    ASSUME NEW S, NEW s \in Seq(S)
    PROVE  IsSeq(s)
<1>1. Len(s) \in Nat /\ s = [i \in 1..Len(s) |-> s[i]]
  BY LenProperties
<1> QED
  BY <1>1, FunctionIsSeq

\* The elements of a piece.
LEMMA PieceFacts ==
    ASSUME NEW s, IsSeq(s), NEW lo \in Nat, NEW hi \in Nat, lo <= hi, hi <= Len(s)
    PROVE  /\ IsSeq(Piece(s, lo, hi))
           /\ Len(Piece(s, lo, hi)) = hi - lo
           /\ \A i \in 1..(hi - lo) : Piece(s, lo, hi)[i] = s[lo + i]
<1> DEFINE x == lo + 1
           p == SubSeq(s, x, hi)
           S == ToSet(s)
<1>1. /\ x \in Nat \ {0} /\ x <= hi + 1 /\ hi - x + 1 = hi - lo
      /\ \A i \in 1..(hi - lo) : x + i - 1 = lo + i
  OBVIOUS
<1>2. s \in Seq(S)
  BY DEF IsSeq
<1> HIDE DEF x, S
<1>3. /\ p \in Seq(S)
      /\ Len(p) = hi - x + 1
      /\ \A i \in 1..(hi - x + 1) : p[i] = s[x + i - 1]
  BY <1>1, <1>2, SubSeqProps
<1> HIDE DEF p
<1>4. IsSeq(p)
  BY <1>3, SeqOverSet
<1>5. Piece(s, lo, hi) = p
  BY DEF Piece, p, x
<1> QED
  BY <1>1, <1>3, <1>4, <1>5

\* A piece has the elements' type.
LEMMA PieceType ==
    ASSUME NEW S, NEW s \in Seq(S), NEW lo \in Nat, NEW hi \in Nat, lo <= hi, hi <= Len(s)
    PROVE  Piece(s, lo, hi) \in Seq(S)
<1>1. lo + 1 \in Nat \ {0} /\ lo + 1 <= hi + 1
  OBVIOUS
<1> QED
  BY <1>1, SubSeqProps DEF Piece

\* A piece is what it is cut into.
LEMMA PieceSplit ==
    ASSUME NEW s, IsSeq(s), NEW lo \in Nat, NEW mid \in Nat, NEW hi \in Nat,
           lo <= mid, mid <= hi, hi <= Len(s)
    PROVE  Piece(s, lo, hi) = Piece(s, lo, mid) \o Piece(s, mid, hi)
<1> DEFINE x == Piece(s, lo, mid)
           y == Piece(s, mid, hi)
           z == Piece(s, lo, hi)
<1>1. lo <= hi /\ mid <= Len(s) /\ Len(s) \in Nat
  BY SeqFacts
<1>2. /\ IsSeq(x) /\ Len(x) = mid - lo
      /\ \A i \in 1..(mid - lo) : x[i] = s[lo + i]
  BY <1>1, PieceFacts
<1>3. /\ IsSeq(y) /\ Len(y) = hi - mid
      /\ \A i \in 1..(hi - mid) : y[i] = s[mid + i]
  BY <1>1, PieceFacts
<1>4. /\ IsSeq(z) /\ Len(z) = hi - lo
      /\ \A i \in 1..(hi - lo) : z[i] = s[lo + i]
  BY <1>1, PieceFacts
<1> HIDE DEF x, y, z
<1>5. /\ IsSeq(x \o y) /\ Len(x \o y) = (mid - lo) + (hi - mid)
      /\ \A i \in 1..(mid - lo) : (x \o y)[i] = x[i]
      /\ \A i \in 1..(hi - mid) : (x \o y)[(mid - lo) + i] = y[i]
  <2>1. /\ IsSeq(x \o y) /\ Len(x \o y) = Len(x) + Len(y)
        /\ \A i \in 1..Len(x) : (x \o y)[i] = x[i]
        /\ \A i \in 1..Len(y) : (x \o y)[Len(x) + i] = y[i]
    BY <1>2, <1>3, ConcatFacts, SMTT(20)
  <2> QED
    BY <1>2, <1>3, <2>1
<1>6. Len(x \o y) = hi - lo
  BY <1>5
<1>7. \A i \in 1..(hi - lo) : z[i] = (x \o y)[i]
  <2> TAKE i \in 1..(hi - lo)
  <2>1. CASE i \in 1..(mid - lo)
    BY <1>2, <1>4, <1>5, <2>1
  <2>2. CASE i \notin 1..(mid - lo)
    <3>1. i - (mid - lo) \in 1..(hi - mid)
      BY <2>2
    <3>2. (mid - lo) + (i - (mid - lo)) = i /\ mid + (i - (mid - lo)) = lo + i
      OBVIOUS
    <3>3. (x \o y)[i] = y[i - (mid - lo)]
      BY <1>5, <3>1, <3>2
    <3>4. y[i - (mid - lo)] = s[lo + i]
      BY <1>3, <3>1, <3>2
    <3> QED
      BY <1>4, <3>3, <3>4
  <2> QED
    BY <2>1, <2>2
<1>8. z = x \o y
  BY <1>4, <1>5, <1>6, <1>7, SameSeq
<1> QED
  BY <1>8 DEF x, y, z

\* A piece is a given sequence if it has its length and its elements.
LEMMA PieceIs ==
    ASSUME NEW s, IsSeq(s), NEW lo \in Nat, NEW hi \in Nat, lo <= hi, hi <= Len(s),
           NEW t, IsSeq(t), Len(t) = hi - lo, \A i \in 1..(hi - lo) : s[lo + i] = t[i]
    PROVE  Piece(s, lo, hi) = t
<1>1. /\ IsSeq(Piece(s, lo, hi)) /\ Len(Piece(s, lo, hi)) = hi - lo
      /\ \A i \in 1..(hi - lo) : Piece(s, lo, hi)[i] = s[lo + i]
  BY PieceFacts
<1> QED
  BY <1>1, SameSeq

\* Where two sequences agree, their pieces do.
LEMMA PieceSame ==
    ASSUME NEW s, NEW t, IsSeq(s), IsSeq(t), NEW lo \in Nat, NEW hi \in Nat,
           lo <= hi, hi <= Len(s), hi <= Len(t),
           \A i \in (lo + 1)..hi : s[i] = t[i]
    PROVE  Piece(s, lo, hi) = Piece(t, lo, hi)
<1>1. /\ IsSeq(Piece(t, lo, hi)) /\ Len(Piece(t, lo, hi)) = hi - lo
      /\ \A i \in 1..(hi - lo) : Piece(t, lo, hi)[i] = t[lo + i]
  BY PieceFacts
<1>2. \A i \in 1..(hi - lo) : lo + i \in (lo + 1)..hi
  OBVIOUS
<1>3. \A i \in 1..(hi - lo) : s[lo + i] = Piece(t, lo, hi)[i]
  BY <1>1, <1>2
<1> QED
  BY <1>1, <1>3, PieceIs

\* A piece without elements.
LEMMA EmptyPiece ==
    ASSUME NEW s, IsSeq(s), NEW lo \in Nat, lo <= Len(s)
    PROVE  Piece(s, lo, lo) = << >>
<1>1. lo <= lo /\ lo - lo = 0
  OBVIOUS
<1>2. IsSeq(Piece(s, lo, lo)) /\ Len(Piece(s, lo, lo)) = lo - lo
  BY <1>1, PieceFacts
<1> QED
  BY <1>1, <1>2, EmptySeq DEF IsSeq

\* c is b with `bytes` in the place of what lies between lo and hi.
Spliced(b, c, lo, hi, bytes) ==
    /\ Len(c) = lo + Len(bytes) + (Len(b) - hi)
    /\ \A i \in 1..lo : c[i] = b[i]
    /\ \A i \in 1..Len(bytes) : c[lo + i] = bytes[i]
    /\ \A i \in 1..(Len(b) - hi) : c[lo + Len(bytes) + i] = b[hi + i]

\* What a splice does to the pieces before it and to those it lies in.
LEMMA SplicedPieces ==
    ASSUME NEW b, IsSeq(b), NEW c, IsSeq(c), NEW bytes, IsSeq(bytes),
           NEW lo \in Nat, NEW hi \in Nat, lo <= hi, hi <= Len(b),
           Spliced(b, c, lo, hi, bytes)
    PROVE  /\ lo <= Len(c)
           /\ \A x, y \in Nat : x <= y /\ y <= lo => Piece(c, x, y) = Piece(b, x, y)
           /\ \A x \in Nat : x <= lo =>
                 Piece(c, x, Len(c)) = Piece(b, x, lo) \o (bytes \o Piece(b, hi, Len(b)))
<1> DEFINE n == Len(bytes)
           size == Len(b) - hi
           behind == lo + n
           end == Len(c)
<1>1. /\ n \in Nat /\ size \in Nat /\ behind \in Nat /\ Len(b) \in Nat /\ end = behind + size
      /\ \A i \in 1..lo : c[i] = b[i]
      /\ \A i \in 1..n : c[lo + i] = bytes[i]
      /\ \A i \in 1..size : c[behind + i] = b[hi + i]
  <2>1. n \in Nat /\ Len(b) \in Nat
    BY SeqFacts
  <2>2. size \in Nat /\ behind \in Nat
    BY <2>1
  <2> QED
    BY <2>1, <2>2 DEF Spliced
<1> HIDE DEF n, size, behind, end
<1>2. /\ end \in Nat /\ lo <= behind /\ behind <= end /\ lo <= end /\ end <= Len(c)
      /\ behind - lo = n /\ end - behind = size /\ lo <= Len(b) /\ lo <= Len(c)
  <2>1. behind = lo + n /\ end = Len(c)
    BY DEF behind, end
  <2> QED
    BY <1>1, <2>1
<1>3. \A x, y \in Nat : x <= y /\ y <= lo => Piece(c, x, y) = Piece(b, x, y)
  <2> SUFFICES ASSUME NEW x \in Nat, NEW y \in Nat, x <= y, y <= lo
               PROVE  Piece(c, x, y) = Piece(b, x, y)
    OBVIOUS
  <2>1. /\ y <= Len(b) /\ y <= Len(c)
        /\ \A i \in (x + 1)..y : c[i] = b[i]
    BY <1>1, <1>2
  <2> QED
    BY <2>1, PieceSame
<1>4. Piece(c, lo, behind) = bytes
  <2>1. Len(bytes) = behind - lo /\ behind <= Len(c)
    BY <1>1, <1>2 DEF n
  <2>2. \A i \in 1..(behind - lo) : c[lo + i] = bytes[i]
    BY <1>1, <1>2
  <2>3. behind \in Nat /\ lo <= behind
    BY <1>1, <1>2
  <2>4. /\ IsSeq(Piece(c, lo, behind)) /\ Len(Piece(c, lo, behind)) = behind - lo
        /\ \A i \in 1..(behind - lo) : Piece(c, lo, behind)[i] = c[lo + i]
    BY <2>1, <2>3, PieceFacts
  <2> QED
    BY <2>1, <2>2, <2>4, SameSeq
<1> DEFINE rest == Piece(b, hi, Len(b))
<1>5. /\ IsSeq(rest) /\ Len(rest) = size
      /\ \A i \in 1..size : rest[i] = b[hi + i]
  <2>1. Len(b) <= Len(b) /\ Len(b) - hi = size
    BY <1>1 DEF size
  <2>2. /\ IsSeq(rest) /\ Len(rest) = Len(b) - hi
        /\ \A i \in 1..(Len(b) - hi) : rest[i] = b[hi + i]
    BY <1>1, <2>1, PieceFacts, ZenonT(30)
  <2> QED
    BY <2>1, <2>2
<1> HIDE DEF rest
<1>6. Piece(c, behind, end) = rest
  <2>1. IsSeq(rest) /\ Len(rest) = end - behind /\ end <= Len(c)
    BY <1>1, <1>2, <1>5
  <2>2. \A i \in 1..(end - behind) : c[behind + i] = rest[i]
    BY <1>1, <1>2, <1>5
  <2>3. behind \in Nat /\ end \in Nat /\ behind <= end
    BY <1>1, <1>2
  <2>4. /\ IsSeq(Piece(c, behind, end)) /\ Len(Piece(c, behind, end)) = end - behind
        /\ \A i \in 1..(end - behind) : Piece(c, behind, end)[i] = c[behind + i]
    BY <2>1, <2>3, PieceFacts
  <2> QED
    BY <2>1, <2>2, <2>4, SameSeq
<1>7. ASSUME NEW x \in Nat, x <= lo
      PROVE  Piece(c, x, end) = Piece(b, x, lo) \o (bytes \o rest)
  <2>1. Piece(c, x, end) = Piece(c, x, lo) \o Piece(c, lo, end)
    BY <1>2, <1>7, PieceSplit
  <2>2. Piece(c, lo, end) = Piece(c, lo, behind) \o Piece(c, behind, end)
    BY <1>1, <1>2, PieceSplit
  <2>3. Piece(c, x, lo) = Piece(b, x, lo)
    <3>1. lo <= lo
      OBVIOUS
    <3> QED
      BY <1>3, <1>7, <3>1
  <2> QED
    BY <1>4, <1>6, <2>1, <2>2, <2>3
<1> QED
  BY <1>2, <1>3, <1>7 DEF rest, end

\* What b has behind `hi`, c has behind z.
Shifted(b, c, hi, z) ==
    /\ Len(c) - z = Len(b) - hi
    /\ \A x, y, u, v \in Nat :
          hi <= x /\ x <= y /\ y <= Len(b) /\ u - x = z - hi /\ v - y = z - hi
          => Piece(c, u, v) = Piece(b, x, y)

\* The bytes the splice puts in, and the pieces behind it, which move by what the splice adds.
LEMMA SplicedBehind ==
    ASSUME NEW b, IsSeq(b), NEW c, IsSeq(c), NEW bytes, IsSeq(bytes),
           NEW lo \in Nat, NEW hi \in Nat, lo <= hi, hi <= Len(b),
           Spliced(b, c, lo, hi, bytes),
           NEW z \in Nat, z - lo = Len(bytes)
    PROVE  Piece(c, lo, z) = bytes /\ Shifted(b, c, hi, z)
<1>1. Len(bytes) \in Nat /\ Len(b) \in Nat /\ Len(c) \in Nat
  BY SeqFacts
<1>2. /\ Len(c) - z = Len(b) - hi
      /\ \A i \in 1..Len(bytes) : c[lo + i] = bytes[i]
      /\ \A i \in 1..(Len(b) - hi) : c[z + i] = b[hi + i]
  <2>1. lo + Len(bytes) = z
    BY <1>1
  <2>2. \A i \in 1..(Len(b) - hi) : c[(lo + Len(bytes)) + i] = b[hi + i]
    BY DEF Spliced
  <2>3. Len(c) = lo + Len(bytes) + (Len(b) - hi) /\ \A i \in 1..Len(bytes) : c[lo + i] = bytes[i]
    BY DEF Spliced
  <2> QED
    BY <1>1, <2>1, <2>2, <2>3
<1>3. Piece(c, lo, z) = bytes
  <2>1. lo <= z /\ z <= Len(c) /\ Len(bytes) = z - lo
    BY <1>1, <1>2
  <2>2. \A i \in 1..(z - lo) : c[lo + i] = bytes[i]
    BY <1>2, <2>1
  <2> QED
    BY <2>1, <2>2, PieceIs
<1>4. ASSUME NEW x \in Nat, NEW y \in Nat, NEW u \in Nat, NEW v \in Nat,
             hi <= x, x <= y, y <= Len(b), u - x = z - hi, v - y = z - hi
      PROVE  Piece(c, u, v) = Piece(b, x, y)
  <2> DEFINE p == Piece(b, x, y)
  <2>1. u <= v /\ v <= Len(c) /\ v - u = y - x
    BY <1>1, <1>2, <1>4
  <2>2. IsSeq(p) /\ Len(p) = y - x /\ \A i \in 1..(y - x) : p[i] = b[x + i]
    BY <1>4, PieceFacts, ZenonT(40)
  <2>3. \A i \in 1..(v - u) : c[u + i] = p[i]
    <3> TAKE i \in 1..(v - u)
    <3>1. (x - hi) + i \in 1..(Len(b) - hi) /\ z + ((x - hi) + i) = u + i
          /\ hi + ((x - hi) + i) = x + i
      BY <1>1, <1>4, <2>1
    <3>2. c[u + i] = b[x + i]
      BY <1>2, <3>1
    <3> QED
      BY <2>1, <2>2, <3>2
  <2> HIDE DEF p
  <2>4. IsSeq(p) /\ Len(p) = v - u
    BY <2>1, <2>2
  <2>5. Piece(c, u, v) = p
    BY <2>1, <2>3, <2>4, PieceIs
  <2> QED
    BY <2>5 DEF p
<1> QED
  BY <1>2, <1>3, <1>4 DEF Shifted

\* Appending leaves the pieces there were, and adds one.
LEMMA AppendedPieces ==
    ASSUME NEW b, IsSeq(b), NEW c, IsSeq(c)
    PROVE  /\ IsSeq(b \o c) /\ Len(b \o c) = Len(b) + Len(c)
           /\ \A x, y \in Nat : x <= y /\ y <= Len(b) => Piece(b \o c, x, y) = Piece(b, x, y)
           /\ Piece(b \o c, Len(b), Len(b) + Len(c)) = c
<1> DEFINE a == b \o c
           n == Len(b)
           m == Len(c)
<1>1. /\ IsSeq(a) /\ Len(a) = n + m /\ n \in Nat /\ m \in Nat
      /\ \A i \in 1..n : a[i] = b[i]
      /\ \A i \in 1..m : a[n + i] = c[i]
  BY ConcatFacts, SeqFacts
<1> HIDE DEF a, n, m
<1>2. ASSUME NEW x \in Nat, NEW y \in Nat, x <= y, y <= n
      PROVE  Piece(a, x, y) = Piece(b, x, y)
  <2>1. y <= Len(a) /\ y <= Len(b) /\ \A i \in (x + 1)..y : a[i] = b[i]
    BY <1>1, <1>2 DEF n
  <2> QED
    BY <1>1, <1>2, <2>1, PieceSame
<1>3. Piece(a, n, n + m) = c
  <2> DEFINE z == n + m
  <2>1. z \in Nat /\ n <= z /\ z <= Len(a) /\ Len(c) = z - n
    BY <1>1 DEF m
  <2> HIDE DEF z
  <2>2. \A i \in 1..(z - n) : a[n + i] = c[i]
    BY <1>1, <2>1 DEF m
  <2>3. Piece(a, n, z) = c
    BY <1>1, <2>1, <2>2, PieceIs
  <2> QED
    BY <2>3 DEF z
<1> QED
  BY <1>1, <1>2, <1>3 DEF a, n, m

\* What is made of two parts.
Joined(p, s, t) == p = s \o t

\* How a piece begins.
LEMMA PiecePrefix ==
    ASSUME NEW b, IsSeq(b), NEW x \in Nat, NEW y \in Nat, NEW z \in Nat, x <= z, z <= Len(b),
           NEW s, IsSeq(s), NEW t, IsSeq(t), Joined(Piece(b, x, z), s, t), y - x = Len(s)
    PROVE  /\ x <= y /\ y <= z /\ z - y = Len(t)
           /\ Piece(b, x, y) = s
<1>1. /\ Len(s \o t) = Len(s) + Len(t) /\ Len(s) \in Nat /\ Len(t) \in Nat
      /\ \A i \in 1..Len(s) : (s \o t)[i] = s[i]
  BY ConcatFacts, SeqFacts
<1>2. /\ Len(Piece(b, x, z)) = z - x
      /\ \A i \in 1..(z - x) : Piece(b, x, z)[i] = b[x + i]
  BY PieceFacts
<1>3. z - x = Len(s) + Len(t)
  BY <1>1, <1>2 DEF Joined
<1>4. \A i \in 1..Len(s) : b[x + i] = s[i]
  BY <1>1, <1>2, <1>3 DEF Joined
<1>5. y \in Nat /\ x <= y /\ y <= z /\ z - y = Len(t) /\ y <= Len(b) /\ Len(s) = y - x
  <2>1. Len(b) \in Nat
    BY SeqFacts
  <2> QED
    BY <1>1, <1>3, <2>1
<1>6. \A i \in 1..(y - x) : b[x + i] = s[i]
  BY <1>4, <1>5
<1>7. Piece(b, x, y) = s
  BY <1>5, <1>6, PieceIs
<1> QED
  BY <1>5, <1>7

-----------------------------------------------------------------------------
(* Sequences of sequences, one behind the other. *)

\* What holds of the empty sequence, and of one more element, holds of every sequence.
LEMMA AppendInduction ==
    ASSUME NEW S, NEW T, << >> \in T, \A s \in Seq(S), e \in S : s \in T => Append(s, e) \in T
    PROVE  Seq(S) \subseteq T
<1> DEFINE N == {n \in Nat : \A s \in Seq(S) : Len(s) = n => s \in T}
<1>1. 0 \in N
  BY EmptySeq
<1>2. ASSUME NEW n \in Nat, n \in N
      PROVE  n + 1 \in N
  <2> SUFFICES ASSUME NEW s \in Seq(S), Len(s) = n + 1
               PROVE  s \in T
    OBVIOUS
  <2>1. s # << >>
    OBVIOUS
  <2>2. PICK r \in Seq(S), e \in S : s = Append(r, e)
    BY <2>1, SequenceEmptyOrAppend
  <2>3. Len(Append(r, e)) = Len(r) + 1 /\ Len(r) \in Nat
    BY AppendProperties
  <2>4. Len(r) = n
    BY <2>2, <2>3
  <2> QED
    BY <1>2, <2>2, <2>4
<1> HIDE DEF N
<1>3. Nat \subseteq N
  BY <1>1, <1>2, SetInduction
<1> QED
  BY <1>3 DEF N

Flattens(f, ss) ==
    \A i \in 1..Len(ss) : f[i] = IF i = 1 THEN ss[i] ELSE f[i - 1] \o ss[i]

\* A flattening is made one sequence at a time.
LEMMA FlattenDef ==
    ASSUME NEW U, NEW ss \in Seq(Seq(U)), Len(ss) # 0
    PROVE  \E f : /\ Flattens(f, ss) /\ FlattenSeq(ss) = f[Len(ss)]
                  /\ \A i \in 1..Len(ss) : f[i] \in Seq(U)
<1> DEFINE n == Len(ss)
           V == Seq(U)
           Is(f) == f = [i \in 1..n |-> IF i = 1 THEN ss[i] ELSE f[i - 1] \o ss[i]]
           flatten == CHOOSE f : Is(f)
<1>1. FlattenSeq(ss) = flatten[n]
  BY DEF FlattenSeq
<1>2. n \in Nat \ {0} /\ \A i \in 1..n : ss[i] \in V
  BY ElementOfSeq
<1>3. << >> \in V /\ \A v, w \in V : v \o w \in V /\ << >> \o w = w
  OBVIOUS
<1>4. n = Len(ss)
  OBVIOUS
<1> HIDE DEF n, V
<1>5. \E f : Is(f)
  <2> DEFINE next == [i \in 1..n |-> [v \in V |-> v \o ss[i]]]
             none == << >>
  <2>1. next \in [1..n -> [V -> V]] /\ none \in V
    <3>1. ASSUME NEW i \in 1..n
          PROVE  [v \in V |-> v \o ss[i]] \in [V -> V]
      BY <1>2, <1>3
    <3> QED
      BY <1>3, <3>1
  <2>2. \A i \in 1..n : \A v \in V : next[i][v] = v \o ss[i]
    OBVIOUS
  <2>3. \A w \in V : none \o w = w
    BY <1>3
  <2> HIDE DEF next, none
  <2>4. PICK g \in [0..n -> V] : g[0] = none /\ \A i \in 1..n : g[i] = next[i][g[i - 1]]
    <3>1. n \in Nat
      BY <1>2
    <3>2. next \in [1..n -> [V -> V]] /\ none \in V
      BY <2>1
    <3>3. \E g \in [0..n -> V] : g[0] = none /\ \A i \in 1..n : g[i] = next[i][g[i - 1]]
      BY ONLY <3>1, <3>2, Recursion
    <3> QED
      BY <3>3
  <2> DEFINE f == [i \in 1..n |-> g[i]]
  <2>5. ASSUME NEW i \in 1..n
        PROVE  f[i] = IF i = 1 THEN ss[i] ELSE f[i - 1] \o ss[i]
    <3>1. g[i] = g[i - 1] \o ss[i]
      <4>1. i - 1 \in 0..n /\ g[i - 1] \in V
        BY <1>2, <2>4
      <4> QED
        BY <2>2, <2>4, <4>1
    <3>2. CASE i = 1
      <4>1. ss[i] \in V /\ i - 1 = 0
        BY <1>2, <3>2
      <4> QED
        BY <2>3, <2>4, <3>1, <3>2, <4>1
    <3>3. CASE i # 1
      <4>1. i - 1 \in 1..n
        BY <1>2, <3>3
      <4> QED
        BY <3>1, <3>3, <4>1
    <3> QED
      BY <3>2, <3>3
  <2>6. Is(f)
    <3> HIDE DEF f
    <3>1. f = [i \in 1..n |-> f[i]]
      BY DEF f
    <3> QED
      BY <2>5, <3>1
  <2> QED
    BY <2>6
<1>6. Is(flatten)
  BY <1>5
<1> HIDE DEF flatten
<1>7. \A i \in 1..n : flatten[i] = IF i = 1 THEN ss[i] ELSE flatten[i - 1] \o ss[i]
  BY <1>6
<1>8. Flattens(flatten, ss)
  BY <1>4, <1>7 DEF Flattens
<1> DEFINE T == {i \in Nat : i + 1 <= n => flatten[i + 1] \in V}
<1>9. 0 \in T
  BY <1>2, <1>7
<1>10. ASSUME NEW i \in Nat, i \in T
       PROVE  i + 1 \in T
  <2> SUFFICES ASSUME (i + 1) + 1 <= n
               PROVE  flatten[(i + 1) + 1] \in V
    OBVIOUS
  <2> DEFINE j == (i + 1) + 1
  <2>1. j \in 1..n /\ j # 1 /\ j - 1 = i + 1 /\ i + 1 <= n
    BY <1>2
  <2>2. flatten[i + 1] \in V
    BY <1>10, <2>1
  <2> HIDE DEF j
  <2>3. flatten[j] \in V
    BY <1>2, <1>3, <1>7, <2>1, <2>2, SMTT(20)
  <2> QED
    BY <2>3 DEF j
<1> HIDE DEF T
<1>11. Nat \subseteq T
  BY <1>9, <1>10, SetInduction
<1>12. ASSUME NEW i \in 1..n
       PROVE  flatten[i] \in V
  <2>1. i - 1 \in Nat /\ (i - 1) + 1 = i
    BY <1>2
  <2> QED
    BY <1>2, <1>11, <2>1 DEF T
<1> QED
  BY <1>1, <1>4, <1>8, <1>12 DEF V

\* One more sequence behind the others.
LEMMA FlattenAppend ==
    ASSUME NEW U, NEW ss \in Seq(Seq(U)), NEW t \in Seq(U)
    PROVE  /\ FlattenSeq(ss) \in Seq(U)
           /\ FlattenSeq(Append(ss, t)) = FlattenSeq(ss) \o t
<1> DEFINE V == Seq(U)
           n == Len(ss)
           a == Append(ss, t)
           m == n + 1
           none == << >>
<1>1. /\ a \in Seq(V) /\ Len(a) = m /\ n \in Nat /\ m # 0 /\ m \in 1..m
      /\ \A i \in 1..n : a[i] = ss[i]
      /\ a[m] = t
  BY AppendProperties
<1>2. none \in V /\ none \o t = t
  OBVIOUS
<1>3. PICK h : /\ Flattens(h, a) /\ FlattenSeq(a) = h[m] /\ \A i \in 1..m : h[i] \in V
  BY <1>1, FlattenDef
<1>4. CASE n = 0
  <2>1. ss = none
    BY <1>4
  <2>2. FlattenSeq(ss) = none
    BY <1>4, <2>1 DEF FlattenSeq
  <2>3. m = 1
    BY <1>4
  <2> HIDE DEF a, none, m
  <2>4. h[m] = t
    BY <1>1, <1>3, <2>3 DEF Flattens
  <2> QED
    BY <1>2, <1>3, <2>2, <2>4 DEF a
<1>5. CASE n # 0
  <2>1. PICK f : /\ Flattens(f, ss) /\ FlattenSeq(ss) = f[n] /\ \A i \in 1..n : f[i] \in V
    BY <1>5, FlattenDef
  <2> DEFINE T == {i \in Nat : i + 1 <= n => h[i + 1] = f[i + 1]}
  <2> HIDE DEF a
  <2>2. \A i \in 1..n : f[i] = IF i = 1 THEN ss[i] ELSE f[i - 1] \o ss[i]
    BY <2>1 DEF Flattens
  <2>3. \A i \in 1..m : h[i] = IF i = 1 THEN a[i] ELSE h[i - 1] \o a[i]
    BY <1>1, <1>3 DEF Flattens
  <2> HIDE DEF n
  <2>4. 0 \in T
    <3>1. 1 \in 1..n /\ 1 \in 1..m
      BY <1>1, <1>5
    <3> QED
      BY <1>1, <2>2, <2>3, <3>1
  <2>5. ASSUME NEW i \in Nat, i \in T
        PROVE  i + 1 \in T
    <3> SUFFICES ASSUME (i + 1) + 1 <= n
                 PROVE  h[(i + 1) + 1] = f[(i + 1) + 1]
      OBVIOUS
    <3> DEFINE j == (i + 1) + 1
    <3>1. j \in 1..n /\ j \in 1..m /\ j # 1 /\ j - 1 = i + 1 /\ i + 1 <= n
      BY <1>1
    <3>2. h[i + 1] = f[i + 1]
      BY <2>5, <3>1
    <3> HIDE DEF j, m
    <3>3. h[j] = f[j]
      BY <1>1, <2>2, <2>3, <3>1, <3>2
    <3> QED
      BY <3>3 DEF j
  <2> HIDE DEF T
  <2>6. Nat \subseteq T
    BY <2>4, <2>5, SetInduction
  <2>7. n - 1 \in Nat /\ (n - 1) + 1 = n /\ n \in 1..n /\ m # 1 /\ m - 1 = n
    BY <1>1, <1>5
  <2>8. h[n] = f[n]
    BY <2>6, <2>7 DEF T
  <2> HIDE DEF m
  <2>9. h[m] = h[n] \o t
    BY <1>1, <2>3, <2>7
  <2> QED
    BY <1>3, <2>1, <2>7, <2>8, <2>9 DEF a, V
<1> QED
  BY <1>4, <1>5

\* None, one, and one in front of the others.
LEMMA FlattenFew ==
    ASSUME NEW U, NEW t \in Seq(U)
    PROVE  /\ FlattenSeq(<< >>) = << >>
           /\ FlattenSeq(<<t>>) = t
           /\ \A ss \in Seq(Seq(U)) : FlattenSeq(<<t>> \o ss) = t \o FlattenSeq(ss)
<1> DEFINE V == Seq(U)
           none == << >>
           T == {ss \in Seq(V) : FlattenSeq(<<t>> \o ss) = t \o FlattenSeq(ss)}
<1>1. FlattenSeq(none) = none
  BY DEF FlattenSeq
<1>2. none \in Seq(V) /\ none \in V /\ t \in V
  OBVIOUS
<1>3. Append(none, t) = <<t>> /\ none \o t = t /\ t \o none = t /\ <<t>> \o none = <<t>>
      /\ <<t>> \in Seq(V)
  BY <1>2
<1>4. FlattenSeq(<<t>>) = t
  <2>1. FlattenSeq(Append(none, t)) = FlattenSeq(none) \o t
    BY <1>2, FlattenAppend
  <2> HIDE DEF none
  <2> QED
    BY <1>1, <1>3, <2>1
<1>5. none \in T
  BY <1>1, <1>2, <1>3, <1>4
<1>6. ASSUME NEW ss \in Seq(V), NEW e \in V, ss \in T
      PROVE  Append(ss, e) \in T
  <2> DEFINE q == <<t>> \o ss
             a == Append(ss, e)
             x == FlattenSeq(ss)
  <2>1. q \in Seq(V) /\ a \in Seq(V) /\ Append(q, e) = <<t>> \o a
    BY <1>3
  <2>2. x \in V /\ FlattenSeq(a) = x \o e
    BY FlattenAppend
  <2>3. FlattenSeq(Append(q, e)) = FlattenSeq(q) \o e
    <3> HIDE DEF q
    <3> QED
      BY <2>1, FlattenAppend
  <2>4. FlattenSeq(q) = t \o x
    BY <1>6
  <2> HIDE DEF q, a, x
  <2>5. (t \o x) \o e = t \o (x \o e)
    BY <1>2, <2>2, ConcatAssociative, SMTT(20)
  <2> QED
    BY <2>1, <2>2, <2>3, <2>4, <2>5 DEF a
<1> HIDE DEF T
<1>7. Seq(V) \subseteq T
  BY <1>5, <1>6, AppendInduction
<1> QED
  BY <1>1, <1>4, <1>7 DEF T, none, V

\* A sequence turned round, element by element, and with one more element.
LEMMA ReverseFacts ==
    ASSUME NEW S, NEW s \in Seq(S)
    PROVE  /\ Reverse(s) \in Seq(S) /\ Len(Reverse(s)) = Len(s)
           /\ \A i \in 1..Len(s) : Len(s) - i + 1 \in 1..Len(s)
                                   /\ Reverse(s)[i] = s[Len(s) - i + 1]
           /\ Reverse(Reverse(s)) = s
           /\ \A e \in S : Reverse(Append(s, e)) = <<e>> \o Reverse(s)
<1> DEFINE n == Len(s)
           r == Reverse(s)
           q == Reverse(r)
<1>1. n \in Nat /\ \A i \in 1..n : s[i] \in S
  BY ElementOfSeq
<1>2. \A i \in 1..n : (n - i) + 1 \in 1..n /\ (n - ((n - i) + 1)) + 1 = i
  BY <1>1
<1>3. r = [i \in 1..n |-> s[(n - i) + 1]]
  BY DEF Reverse
<1> HIDE DEF n, r
<1>4. r \in Seq(S) /\ Len(r) = n /\ \A i \in 1..n : r[i] = s[(n - i) + 1]
  <2>1. r \in [1..n -> S]
    BY <1>1, <1>2, <1>3
  <2> QED
    BY <1>1, <1>3, <2>1
<1>5. q = [i \in 1..n |-> r[(n - i) + 1]]
  BY <1>4 DEF Reverse
<1>6. q = s
  <2>1. q = [i \in 1..n |-> s[i]]
    BY <1>2, <1>4, <1>5
  <2>2. s = [i \in 1..n |-> s[i]]
    BY LenProperties DEF n
  <2> QED
    BY <2>1, <2>2
<1>7. ASSUME NEW e \in S
      PROVE  Reverse(Append(s, e)) = <<e>> \o r
  <2> DEFINE a == Append(s, e)
             x == Reverse(a)
             y == <<e>> \o r
             m == n + 1
  <2>1. a \in Seq(S) /\ Len(a) = m /\ (\A i \in 1..n : a[i] = s[i]) /\ a[m] = e /\ m \in Nat
    BY <1>1, AppendProperties DEF n
  <2>2. <<e>> \in Seq(S) /\ Len(<<e>>) = 1 /\ <<e>>[1] = e
    OBVIOUS
  <2>3. /\ y \in Seq(S) /\ Len(y) = 1 + n
        /\ \A i \in 1..(1 + n) : y[i] = IF i <= 1 THEN <<e>>[i] ELSE r[i - 1]
    BY <1>4, <2>2, ConcatProperties
  <2>4. x = [i \in 1..m |-> a[(m - i) + 1]]
    BY <2>1 DEF Reverse
  <2> HIDE DEF a, x, y
  <2>5. \A i \in 1..m : (m - i) + 1 \in 1..m /\ a[(m - i) + 1] \in S
    BY <1>1, <2>1
  <2>6. x \in Seq(S) /\ Len(x) = m
    <3> HIDE DEF m
    <3>1. x \in [1..m -> S]
      BY <2>1, <2>4, <2>5
    <3> QED
      BY <2>1, <2>4, <3>1
  <2>7. ASSUME NEW i \in 1..m
        PROVE  x[i] = y[i]
    <3>1. CASE i = 1
      <4>1. x[i] = a[m] /\ y[i] = e
        BY <1>1, <2>2, <2>3, <2>4, <3>1
      <4> QED
        BY <2>1, <4>1
    <3>2. CASE i # 1
      <4> DEFINE j == i - 1
      <4>1. j \in 1..n /\ (m - i) + 1 = (n - j) + 1 /\ i \in 1..(1 + n) /\ ~(i <= 1)
            /\ (n - j) + 1 \in 1..n
        BY <1>1, <3>2
      <4>2. x[i] = a[(n - j) + 1] /\ y[i] = r[j]
        BY <2>3, <2>4, <4>1
      <4> HIDE DEF j
      <4> QED
        BY <1>4, <2>1, <4>1, <4>2
    <3> QED
      BY <3>1, <3>2
  <2>8. x = y
    BY <1>1, <2>3, <2>6, <2>7, SeqEqual
  <2> QED
    BY <2>8 DEF x, y, a
<1>8. \A i \in 1..n : n - i + 1 = (n - i) + 1
  BY <1>1
<1> QED
  BY <1>2, <1>4, <1>6, <1>7, <1>8 DEF r, q, n
-----------------------------------------------------------------------------
(* Recursive functions over the subsets of 1..n, and from n down to 0. *)

\* The largest number of a set.
LEMMA MaxIs ==
    ASSUME NEW n \in Nat, NEW s \in SUBSET (1..n), s # {}
    PROVE  Max(s) \in s /\ \A x \in s : x <= Max(s)
<1> DEFINE T == {k \in Nat : n - k \in s}
<1>1. PICK x \in s : TRUE
  OBVIOUS
<1>2. n - x \in Nat /\ n - (n - x) = x
  OBVIOUS
<1>3. T # {} /\ T \subseteq Nat
  BY <1>2
<1>4. PICK m \in T : \A k \in T : m <= k
  BY <1>3, LeastNat
<1>5. ASSUME NEW y \in s
      PROVE  n - m >= y
  <2>1. n - y \in Nat /\ n - (n - y) = y /\ y \in Nat
    OBVIOUS
  <2>2. m <= n - y
    BY <1>4, <2>1
  <2>3. m \in Nat
    BY <1>4
  <2> QED
    BY <2>1, <2>2, <2>3
<1>6. n - m \in s
  BY <1>4
<1>7. Max(s) \in s /\ \A y \in s : Max(s) >= y
  BY <1>5, <1>6 DEF Max
<1> QED
  BY <1>7

\* A function of a set that goes from its largest number to the others.
Peeling(f, n, V, z, next) ==
    /\ f \in [SUBSET (1..n) -> V]
    /\ \A s \in SUBSET (1..n) :
          f[s] = IF s = {} THEN z ELSE next[Max(s)][f[s \ {Max(s)}]]

\* There is one.
LEMMA SubsetRecursion ==
    ASSUME NEW V, NEW z \in V, NEW n \in Nat, NEW next \in [1..n -> [V -> V]]
    PROVE  \E f : Peeling(f, n, V, z, next)
<1> DEFINE Of(f, k) ==
               /\ f \in [SUBSET (1..k) -> V]
               /\ \A s \in SUBSET (1..k) :
                     f[s] = IF s = {} THEN z ELSE next[Max(s)][f[s \ {Max(s)}]]
           T == {k \in Nat : k <= n => \E f : Of(f, k)}
<1>1. 0 \in T
  <2> DEFINE f == [s \in SUBSET (1..0) |-> z]
  <2>1. \A s \in SUBSET (1..0) : s = {}
    OBVIOUS
  <2>2. Of(f, 0)
    BY <2>1
  <2> HIDE DEF Of
  <2> QED
    BY <2>2
<1>2. ASSUME NEW k \in Nat, k \in T, k + 1 <= n
      PROVE  \E f : Of(f, k + 1)
  <2>0. \E f : Of(f, k)
    <3>1. k <= n
      BY <1>2
    <3>2. k <= n => \E f : Of(f, k)
      BY <1>2
    <3> HIDE DEF Of, T
    <3> QED
      BY <3>1, <3>2
  <2>1. PICK f : Of(f, k)
    <3> HIDE DEF Of
    <3> QED
      BY <2>0
  <2> DEFINE m == k + 1
             g == [s \in SUBSET (1..m) |-> IF m \in s THEN next[m][f[s \ {m}]] ELSE f[s]]
  <2>2. m \in Nat /\ m \in 1..n /\ (\A i \in 1..m : i = m \/ i \in 1..k) /\ m \notin 1..k
        /\ (\A i \in 1..k : i \in 1..m)
    BY <1>2
  <2>3. \A s \in SUBSET (1..m) : s \ {m} \in SUBSET (1..k) /\ (m \notin s => s \in SUBSET (1..k))
    BY <2>2
  <2>4. \A s \in SUBSET (1..k) : f[s] \in V
    BY <2>1
  <2>5. g \in [SUBSET (1..m) -> V]
    <3>1. \A v \in V : next[m][v] \in V
      BY <2>2
    <3> HIDE DEF m, Of
    <3> QED
      BY <2>3, <2>4, <3>1
  <2>6. \A s \in SUBSET (1..m) : g[s] = IF m \in s THEN next[m][f[s \ {m}]] ELSE f[s]
    OBVIOUS
  <2> HIDE DEF g, m
  <2>7. ASSUME NEW s \in SUBSET (1..m)
        PROVE  g[s] = IF s = {} THEN z ELSE next[Max(s)][g[s \ {Max(s)}]]
    <3>1. CASE m \in s
      <4>1. Max(s) = m
        <5>1. Max(s) \in s /\ m <= Max(s) /\ Max(s) \in 1..m
          BY <2>2, <3>1, MaxIs
        <5> QED
          BY <2>2, <5>1
      <4>2. s \ {m} \in SUBSET (1..m) /\ m \notin s \ {m}
        OBVIOUS
      <4>3. g[s \ {m}] = f[s \ {m}]
        BY <2>6, <4>2
      <4> QED
        BY <2>6, <3>1, <4>1, <4>3
    <3>2. CASE m \notin s
      <4>1. s \in SUBSET (1..k) /\ g[s] = f[s]
        BY <2>3, <2>6, <3>2
      <4>2. f[s] = IF s = {} THEN z ELSE next[Max(s)][f[s \ {Max(s)}]]
        BY <2>1, <4>1
      <4>3. g[s \ {Max(s)}] = f[s \ {Max(s)}]
        <5>1. s \ {Max(s)} \in SUBSET (1..m) /\ m \notin s \ {Max(s)}
          BY <3>2
        <5> QED
          BY <2>6, <5>1
      <4> QED
        BY <4>1, <4>2, <4>3
    <3> QED
      BY <3>1, <3>2
  <2>8. Of(g, m)
    BY <2>5, <2>7
  <2> HIDE DEF Of
  <2> QED
    BY <2>8 DEF m
<1>3. ASSUME NEW k \in Nat, k \in T
      PROVE  k + 1 \in T
  <2>1. k + 1 <= n => \E f : Of(f, k + 1)
    BY <1>2, <1>3
  <2>2. k + 1 \in Nat
    OBVIOUS
  <2> HIDE DEF Of
  <2> QED
    BY <2>1, <2>2
<1>4. Nat \subseteq T
  <2> HIDE DEF T
  <2> QED
    BY ONLY <1>1, <1>3, SetInduction
<1>5. \E f : Of(f, n)
  <2>1. n \in T
    BY <1>4
  <2>2. n <= n => \E f : Of(f, n)
    <3> HIDE DEF Of
    <3> QED
      BY <2>1
  <2>3. n <= n
    OBVIOUS
  <2> HIDE DEF Of
  <2> QED
    BY <2>2, <2>3
<1>6. PICK f : Of(f, n)
  <2> HIDE DEF Of
  <2> QED
    BY <1>5
<1> QED
  BY <1>6 DEF Of, Peeling

\* Induction from n down to 0.
LEMMA DownInduction ==
    ASSUME NEW n \in Nat, NEW T, \A a \in 0..n : (\A b \in (a + 1)..n : b \in T) => a \in T
    PROVE  \A a \in 0..n : a \in T
<1> DEFINE U == {i \in Nat : \A a \in 0..n : a + i >= n => a \in T}
<1>1. 0 \in U
  <2>1. ASSUME NEW a \in 0..n, a + 0 >= n
        PROVE  a \in T
    <3>1. \A b \in (a + 1)..n : b \in T
      BY <2>1
    <3> QED
      BY <3>1
  <2> QED
    BY <2>1
<1>2. ASSUME NEW i \in Nat, i \in U
      PROVE  i + 1 \in U
  <2>1. ASSUME NEW a \in 0..n, a + (i + 1) >= n
        PROVE  a \in T
    <3>1. \A b \in (a + 1)..n : b \in 0..n /\ b + i >= n
      BY <2>1
    <3>2. \A b \in (a + 1)..n : b \in T
      BY <1>2, <3>1
    <3> QED
      BY <3>2
  <2> QED
    BY <2>1
<1> HIDE DEF U
<1>3. Nat \subseteq U
  BY <1>1, <1>2, SetInduction
<1>4. n \in U /\ \A a \in 0..n : a + n >= n
  BY <1>3
<1> QED
  BY <1>4 DEF U

\* Steps upwards, up to n, each with a value that is made of the value it leads to.
Climbs(n, V, stop, last, next, step) ==
    \A a \in 0..n : IF a \in stop THEN last[a] \in V
                    ELSE next[a] \in (a + 1)..n /\ step[a] \in [V -> V]

Climbing(f, n, V, stop, last, next, step) ==
    /\ f \in [0..n -> V]
    /\ \A a \in 0..n : f[a] = IF a \in stop THEN last[a] ELSE step[a][f[next[a]]]

\* A function that goes upwards from each number until it stops.
LEMMA DownRecursion ==
    ASSUME NEW n \in Nat, NEW V, NEW stop, NEW last, NEW next, NEW step,
           Climbs(n, V, stop, last, next, step)
    PROVE  \E f : Climbing(f, n, V, stop, last, next, step)
<1>0. \A a \in 0..n : IF a \in stop THEN last[a] \in V
                      ELSE next[a] \in (a + 1)..n /\ step[a] \in [V -> V]
  BY DEF Climbs
<1> DEFINE From(f, b) ==
               \A a \in b..n : f[a] = IF a \in stop THEN last[a] ELSE step[a][f[next[a]]]
           T == {b \in 0..n : \E f \in [0..n -> V] : From(f, b)}
<1>1. ASSUME NEW b \in 0..n, \A a \in (b + 1)..n : a \in T
      PROVE  b \in T
  <2>1. PICK f \in [0..n -> V] : From(f, b + 1)
    <3>1. CASE b = n
      <4>1. n \in stop /\ last[n] \in V
        <5>1. n \in 0..n /\ ~(next[n] \in (n + 1)..n)
          OBVIOUS
        <5> QED
          BY <1>0, <5>1
      <4> DEFINE h == [a \in 0..n |-> last[n]]
      <4>2. h \in [0..n -> V] /\ From(h, b + 1)
        BY <3>1, <4>1
      <4> QED
        BY <4>2
    <3>2. CASE b # n
      <4>1. b + 1 \in (b + 1)..n
        BY <3>2
      <4> QED
        BY <1>1, <4>1
    <3> QED
      BY <3>1, <3>2
  <2> DEFINE v == IF b \in stop THEN last[b] ELSE step[b][f[next[b]]]
             h == [f EXCEPT ![b] = v]
  <2>2. IF b \in stop THEN last[b] \in V ELSE next[b] \in (b + 1)..n /\ step[b] \in [V -> V]
    BY <1>0
  <2>3. v \in V
    <3>1. b \notin stop => next[b] \in 0..n
      BY <2>2
    <3> QED
      BY <2>1, <2>2, <3>1
  <2> HIDE DEF v
  <2>4. h \in [0..n -> V] /\ h[b] = v /\ \A a \in 0..n : a # b => h[a] = f[a]
    BY <2>3
  <2> HIDE DEF h
  <2>5. ASSUME NEW a \in b..n
        PROVE  h[a] = IF a \in stop THEN last[a] ELSE step[a][h[next[a]]]
    <3>1. a \in 0..n /\ (a \in stop \/ (next[a] \in 0..n /\ next[a] # b))
      <4>1. a \in 0..n /\ a >= b /\ (a \in stop \/ next[a] \in (a + 1)..n)
        BY <1>0
      <4>2. \A c \in (a + 1)..n : c \in 0..n /\ c # b
        BY <4>1
      <4> QED
        BY <4>1, <4>2
    <3>2. CASE a = b
      BY <2>4, <3>1, <3>2 DEF v
    <3>3. CASE a # b
      <4>1. f[a] = IF a \in stop THEN last[a] ELSE step[a][f[next[a]]]
        BY <2>1, <3>3
      <4> QED
        BY <2>4, <3>1, <3>3, <4>1
    <3> QED
      BY <3>2, <3>3
  <2>6. From(h, b)
    BY <2>5
  <2> HIDE DEF From
  <2> QED
    BY <2>4, <2>6
<1> HIDE DEF T, From
<1>2. 0 \in T
  <2>1. 0 \in 0..n
    OBVIOUS
  <2>2. \A b \in 0..n : (\A a \in (b + 1)..n : a \in T) => b \in T
    BY <1>1
  <2> QED
    BY <2>1, <2>2, DownInduction
<1>3. PICK f \in [0..n -> V] : From(f, 0)
  BY <1>2 DEF T
<1> QED
  BY <1>3 DEF From, Climbing

=============================================================================
