------------------------------- MODULE Varint -------------------------------
(***************************************************************************)
(* Base-128 varints of the runtime crate (tacky/src/scalars.rs and the     *)
(* padded form of tacky/src/tack.rs).                                      *)
(*                                                                         *)
(* A varint is a sequence of groups, least significant first; every byte   *)
(* but the last has its top bit set.  The radix, the number of groups and  *)
(* the size of the last group are parameters: 128, 10 and 2 in the code    *)
(* (9 groups of 7 bits and one bit make a u64), small numbers for TLC.     *)
(***************************************************************************)
EXTENDS Naturals, Sequences, FiniteSets, FiniteSetsExt, Functions

CONSTANTS
    Radix,      \* values one group can take: 128 in the code
    MaxGroups,  \* groups of the longest varint: 10 in the code
    LastGroup   \* values the MaxGroups-th group can take: 2 in the code

ASSUME VarintAssumption ==
    /\ Radix \in Nat /\ Radix >= 2
    /\ MaxGroups \in Nat /\ MaxGroups >= 2
    /\ LastGroup \in 1..Radix

Byte == 0..(2 * Radix - 1)

\* b to the n.
Power(b, n) ==
    LET power[i \in 0..n] == IF i = 0 THEN 1 ELSE b * power[i - 1]
    IN  power[n]

\* The values of a u64.
Word == 0..(LastGroup * Power(Radix, MaxGroups - 1) - 1)

Continues(b) == b >= Radix

Group(v, i) == (v \div Power(Radix, i)) % Radix

(***************************************************************************)
(* Encoding.  encoded_len_varint counts the groups a value needs; the code *)
(* does it with one leading-zero count and a multiplication (LenFormula).  *)
(***************************************************************************)
encoded_len_varint(v) ==
    1 + Cardinality({g \in 1..(MaxGroups - 1) : v >= Power(Radix, g)})

\* The closed form of the code, of the bit length of (value | 1).
LenFormula(bits) == ((bits - 1) * 9 + 73) \div 64

\* Mutant: padding groups are written without their continuation bit.
M_write_wide_varint(width, v) ==
    [i \in 1..width |->
        IF i < encoded_len_varint(v) THEN Group(v, i - 1) + Radix
                                     ELSE Group(v, i - 1)]

\* A varint padded to exactly `width` bytes with continuation bits.
write_wide_varint(width, v) ==
    [i \in 1..width |->
        IF i < width THEN Group(v, i - 1) + Radix ELSE Group(v, i - 1)]

\* put_varint: the shortest form.
write_varint(v) == write_wide_varint(encoded_len_varint(v), v)

(***************************************************************************)
(* Decoding.  A result says whether a value was read, the value, and how   *)
(* many bytes the cursor advanced over.                                    *)
(***************************************************************************)
Truncated == [ok |-> FALSE, value |-> 0, used |-> 0]

Decoded(v, n) == [ok |-> TRUE, value |-> v, used |-> n]

\* The value of the groups of a varint.
GroupSum(g) ==
    LET sum[i \in 0..Len(g)] ==
            IF i = 0 THEN 0 ELSE sum[i - 1] + (g[i] % Radix) * Power(Radix, i - 1)
    IN  sum[Len(g)]

\* The varint in the first n bytes of s.
Taken(s, n) == Decoded(GroupSum(SubSeq(s, 1, n)), n)

\* How many of the first n bytes of s continue, up to the first that does not.
Continued(s, n) == Cardinality({k \in 1..n : \A i \in 1..k : Continues(s[i])})

\* Mutant: the last group is taken whatever its value.
M_decode_varint_long(s) ==
    IF Continued(s, MaxGroups) = MaxGroups THEN Truncated
    ELSE Taken(s, Continued(s, MaxGroups) + 1)

\* The unrolled reader, for at least MaxGroups bytes: the last group is not
\* asked for its continuation bit, its value must be below LastGroup.
decode_varint_long(s) ==
    IF Continued(s, MaxGroups - 1) < MaxGroups - 1
    THEN Taken(s, Continued(s, MaxGroups - 1) + 1)
    ELSE IF s[MaxGroups] >= LastGroup THEN Truncated
    ELSE Taken(s, MaxGroups)

\* Mutant: the loop does not look at the last byte.
M_decode_varint_short(s) ==
    IF Continued(s, Len(s) - 1) = Len(s) - 1 THEN Truncated
    ELSE Taken(s, Continued(s, Len(s) - 1) + 1)

\* Mutant: the terminating byte's group is not added to the value.
M_decode_varint_short_value(s) ==
    IF Continued(s, Len(s)) = Len(s) THEN Truncated
    ELSE Decoded(GroupSum(SubSeq(s, 1, Continued(s, Len(s)))), Continued(s, Len(s)) + 1)

\* The loop for fewer than MaxGroups bytes.
decode_varint_short(s) ==
    IF Continued(s, Len(s)) = Len(s) THEN Truncated
    ELSE Taken(s, Continued(s, Len(s)) + 1)

decode_varint(s) ==
    IF s = << >> THEN Truncated
    ELSE IF ~Continues(s[1]) THEN Decoded(s[1], 1)
    ELSE IF Len(s) >= MaxGroups THEN decode_varint_long(s)
    ELSE decode_varint_short(s)

\* A varint skipped among the first n bytes of s: [ok, used].
Skipped(s, n) ==
    [ok   |-> Continued(s, n) < n,
     used |-> IF Continued(s, n) < n THEN Continued(s, n) + 1 ELSE 0]

\* Mutant: the tenth byte is never looked at.
M_skip_varint(s) ==
    Skipped(s, IF Len(s) >= MaxGroups THEN MaxGroups - 1 ELSE Len(s))

\* skip_varint finds the end without decoding.
skip_varint(s) ==
    Skipped(s, IF Len(s) >= MaxGroups THEN MaxGroups ELSE Len(s))
=============================================================================
