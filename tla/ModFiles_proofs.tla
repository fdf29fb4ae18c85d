--------------------------- MODULE ModFiles_proofs ---------------------------
(***************************************************************************)
(* Proofs about the output directory, for any invocations, packages and    *)
(* files of the user's: what the user wrote stays, no module is declared   *)
(* twice, reading panics only where an invocation ended, and every         *)
(* directory that was made is declared.                                    *)
(***************************************************************************)
EXTENDS ModFiles, SequenceLemmas

-----------------------------------------------------------------------------
(* Beginnings of sequences. *)

LEMMA Beginning ==
    ASSUME NEW s, IsSeq(s), NEW n \in 0..Len(s)
    PROVE  /\ IsSeq(SubSeq(s, 1, n))
           /\ Len(SubSeq(s, 1, n)) = n
           /\ \A i \in 1..n : SubSeq(s, 1, n)[i] = s[i]
<1>1. Len(s) \in Nat
  BY SeqFacts
<1>2. 0 \in Nat /\ n \in Nat /\ 0 <= n /\ n <= Len(s)
  BY <1>1
<1>3. /\ IsSeq(Piece(s, 0, n))
      /\ Len(Piece(s, 0, n)) = n - 0
      /\ \A i \in 1..(n - 0) : Piece(s, 0, n)[i] = s[0 + i]
  BY <1>2, PieceFacts
<1>4. Piece(s, 0, n) = SubSeq(s, 1, n)
  BY DEF Piece
<1>5. n - 0 = n /\ \A i \in 1..n : 0 + i = i
  BY <1>2
<1> QED
  BY <1>3, <1>4, <1>5

\* A prefix, element by element.
LEMMA PrefixFacts ==
    ASSUME NEW s, NEW t, IsSeq(s), IsSeq(t)
    PROVE  IsPrefix(s, t) <=> Len(s) <= Len(t) /\ \A i \in 1..Len(s) : s[i] = t[i]
<1> DEFINE n == Len(s)
           a == SubSeq(s, 1, n)
           b == SubSeq(t, 1, n)
<1>1. n \in Nat /\ Len(t) \in Nat
  BY SeqFacts
<1>2. IsPrefix(s, t) <=> n <= Len(t) /\ a = b
  BY DEF IsPrefix
<1>3. SUFFICES ASSUME n <= Len(t)
               PROVE  a = b <=> \A i \in 1..n : s[i] = t[i]
  BY <1>2
<1>4. n \in 0..Len(s) /\ n \in 0..Len(t)
  BY <1>1, <1>3
<1>5. IsSeq(a) /\ Len(a) = n /\ \A i \in 1..n : a[i] = s[i]
  BY <1>4, Beginning
<1>6. IsSeq(b) /\ Len(b) = n /\ \A i \in 1..n : b[i] = t[i]
  BY <1>4, Beginning
<1> HIDE DEF a, b, n
<1>7. (\A i \in 1..n : a[i] = b[i]) => a = b
  BY <1>5, <1>6, SameSeq
<1> QED
  BY <1>5, <1>6, <1>7

LEMMA PrefixGrows ==
    ASSUME NEW s, NEW t, IsSeq(s), IsSeq(t), IsPrefix(s, t), NEW u, IsSeq(u), NEW x
    PROVE  IsPrefix(s, t \o u) /\ IsPrefix(s, Append(t, x)) /\ IsPrefix(s, s)
<1>1. Len(s) \in Nat /\ Len(t) \in Nat /\ Len(u) \in Nat
  BY SeqFacts
<1>2. Len(s) <= Len(t) /\ \A i \in 1..Len(s) : s[i] = t[i]
  BY PrefixFacts
<1>3. \A i \in 1..Len(s) : i \in 1..Len(t)
  BY <1>1, <1>2
<1>4. /\ IsSeq(t \o u) /\ Len(t \o u) = Len(t) + Len(u)
      /\ \A i \in 1..Len(t) : (t \o u)[i] = t[i]
  BY ConcatFacts
<1>5. /\ IsSeq(Append(t, x)) /\ Len(Append(t, x)) = Len(t) + 1
      /\ \A i \in 1..Len(t) : Append(t, x)[i] = t[i]
  BY AppendFacts
<1>6. ASSUME NEW v, IsSeq(v), Len(t) <= Len(v), \A i \in 1..Len(t) : v[i] = t[i]
      PROVE  IsPrefix(s, v)
  <2>1. Len(v) \in Nat
    BY <1>6, SeqFacts
  <2>2. Len(s) <= Len(v) /\ \A i \in 1..Len(s) : s[i] = v[i]
    BY <1>1, <1>2, <1>3, <1>6, <2>1
  <2> QED
    BY <1>6, <2>2, PrefixFacts
<1>7. Len(t) <= Len(t) + Len(u) /\ Len(t) <= Len(t) + 1
  BY <1>1
<1>8. IsPrefix(s, s)
  BY <1>1, PrefixFacts
<1> QED
  BY <1>4, <1>5, <1>6, <1>7, <1>8

-----------------------------------------------------------------------------
(* Texts. *)

LEMMA EmptyFacts == IsSeq(<< >>) /\ DOMAIN << >> = {} /\ Len(<< >>) = 0
<1>1. Len(<< >>) = 0 /\ DOMAIN << >> = {}
  OBVIOUS
<1>2. IsSeq(<< >>)
  BY DEF IsSeq
<1> QED
  BY <1>1, <1>2

LEMMA TextFacts ==
    ASSUME NEW text, IsText(text)
    PROVE  /\ text = [lines |-> text.lines, open |-> text.open]
           /\ IsSeq(text.lines) /\ IsSeq(text.open)
           /\ \A i \in DOMAIN text.lines : IsSeq(text.lines[i])
BY DEF IsText, IsSeq

LEMMA TextIs ==
    ASSUME NEW lines, NEW open, IsSeq(lines), IsSeq(open),
           \A i \in DOMAIN lines : IsSeq(lines[i])
    PROVE  IsText([lines |-> lines, open |-> open])
<1> DEFINE text == [lines |-> lines, open |-> open]
<1>1. text.lines = lines /\ text.open = open
  OBVIOUS
<1> HIDE DEF text
<1> QED
  BY <1>1 DEF IsText, IsSeq, text

LEMMA BlankIsText == IsText(Blank)
BY EmptyFacts, TextIs DEF Blank

LEMMA OneLetter ==
    ASSUME NEW x
    PROVE  IsSeq(<<x>>) /\ Len(<<x>>) = 1 /\ DOMAIN <<x>> = {1} /\ <<x>>[1] = x
<1>1. <<x>> = [i \in 1..1 |-> x] /\ 1 \in Nat /\ 1..1 = {1}
  OBVIOUS
<1> DEFINE s == <<x>>
<1>2. s = [i \in 1..1 |-> s[i]] /\ s[1] = x
  BY <1>1
<1> HIDE DEF s
<1>3. IsSeq(s) /\ Len(s) = 1 /\ DOMAIN s = 1..1
  BY <1>1, <1>2, FunctionIsSeq
<1> QED
  BY <1>1, <1>2, <1>3 DEF s

\* What writing a piece makes of a text.
LEMMA PutFacts ==
    ASSUME NEW text, IsText(text), NEW piece, IsSeq(piece), piece # << >>
    PROVE  /\ IsText(Put(text, piece))
           /\ Last(piece) # NL => /\ Put(text, piece).lines = text.lines
                                  /\ Put(text, piece).open = text.open \o piece
           /\ Last(piece) = NL => /\ Put(text, piece).lines
                                       = Append(text.lines, text.open \o Front(piece))
                                  /\ Put(text, piece).open = << >>
<1> DEFINE lines == text.lines
           open == text.open
<1>1. /\ text = [lines |-> lines, open |-> open]
      /\ IsSeq(lines) /\ IsSeq(open) /\ \A i \in DOMAIN lines : IsSeq(lines[i])
  BY TextFacts
<1>2. IsSeq(Front(piece)) /\ IsSeq(open \o piece) /\ IsSeq(open \o Front(piece))
  BY <1>1, FrontFacts, ConcatFacts
<1>3. CASE Last(piece) # NL
  <2>1. Put(text, piece) = [lines |-> lines, open |-> open \o piece]
    BY <1>1, <1>3 DEF Put
  <2>2. IsText(Put(text, piece))
    BY <1>1, <1>2, <2>1, TextIs
  <2> QED
    BY <1>3, <2>1, <2>2
<1>4. CASE Last(piece) = NL
  <2> DEFINE line == open \o Front(piece)
             more == Append(lines, line)
  <2>1. Put(text, piece) = [lines |-> more, open |-> << >>]
    BY <1>4 DEF Put
  <2>2. /\ IsSeq(more) /\ DOMAIN more = 1..(Len(lines) + 1)
        /\ \A i \in 1..Len(lines) : more[i] = lines[i]
        /\ more[Len(lines) + 1] = line
    BY <1>1, AppendFacts
  <2>3. Len(lines) \in Nat /\ DOMAIN lines = 1..Len(lines)
    BY <1>1, SeqFacts
  <2> HIDE DEF more, line
  <2>4. \A i \in DOMAIN more : i \in 1..Len(lines) \/ i = Len(lines) + 1
    BY <2>2, <2>3
  <2>5. IsSeq(line)
    BY <1>2 DEF line
  <2>6. \A i \in DOMAIN more : IsSeq(more[i])
    BY <1>1, <2>2, <2>3, <2>4, <2>5
  <2>7. IsText(Put(text, piece))
    BY <2>1, <2>2, <2>6, EmptyFacts, TextIs
  <2> QED
    BY <1>4, <2>1, <2>7 DEF more, line
<1> QED
  BY <1>3, <1>4

\* What was there stays in front.
LEMMA ExtendsItself ==
    ASSUME NEW text, IsText(text)
    PROVE  Extends(text, text)
<1>1. IsSeq(text.lines) /\ IsSeq(text.open)
  BY TextFacts
<1>2. IsPrefix(text.lines, text.lines) /\ IsPrefix(text.open, text.open)
  BY <1>1, SeqFacts, PrefixFacts
<1> QED
  BY <1>2 DEF Extends

LEMMA ExtendsPut ==
    ASSUME NEW old, NEW text, IsText(old), IsText(text), Extends(old, text),
           NEW piece, IsSeq(piece), piece # << >>
    PROVE  Extends(old, Put(text, piece))
<1> DEFINE n == Len(old.lines)
           m == Len(text.lines)
           after == Put(text, piece)
<1>1. /\ IsSeq(old.lines) /\ IsSeq(old.open) /\ IsSeq(text.lines) /\ IsSeq(text.open)
      /\ IsSeq(Front(piece)) /\ \A i \in DOMAIN text.lines : IsSeq(text.lines[i])
  BY TextFacts, FrontFacts
<1>2. n \in Nat /\ m \in Nat /\ DOMAIN text.lines = 1..m
  BY <1>1, SeqFacts
<1>3. /\ IsPrefix(old.lines, text.lines)
      /\ IsPrefix(old.open, IF m = n THEN text.open ELSE text.lines[n + 1])
  BY DEF Extends
<1>4. n <= m
  BY <1>1, <1>3, PrefixFacts
<1>5. CASE Last(piece) # NL
  <2>1. after.lines = text.lines /\ after.open = text.open \o piece
    BY <1>5, PutFacts
  <2>2. m = n => IsPrefix(old.open, text.open \o piece)
    BY <1>1, <1>3, PrefixGrows
  <2> QED
    BY <1>3, <2>1, <2>2 DEF Extends
<1>6. CASE Last(piece) = NL
  <2> DEFINE line == text.open \o Front(piece)
  <2>1. after.lines = Append(text.lines, line)
    BY <1>6, PutFacts
  <2>2. /\ Len(after.lines) = m + 1 /\ after.lines[m + 1] = line
        /\ \A i \in 1..m : after.lines[i] = text.lines[i]
    BY <1>1, <2>1, AppendFacts
  <2>3. IsPrefix(old.lines, after.lines)
    BY <1>1, <1>3, <2>1, PrefixGrows
  <2>4. IsPrefix(old.open, after.lines[n + 1])
    <3>1. CASE m = n
      BY <1>1, <1>3, <2>2, <3>1, PrefixGrows
    <3>2. CASE m # n
      <4>1. n + 1 \in 1..m
        BY <1>2, <1>4, <3>2
      <4> QED
        BY <1>3, <2>2, <3>2, <4>1
    <3> QED
      BY <3>1, <3>2
  <2>5. m + 1 # n
    BY <1>2, <1>4
  <2> QED
    BY <2>2, <2>3, <2>4, <2>5 DEF Extends
<1> QED
  BY <1>5, <1>6

\* A text with a first line that has no header is taken for somebody else's.
LEMMA SomebodyElses ==
    ASSUME NEW text, IsText(text), text # Blank, ~ Generated(text), mods[parent] = text
    PROVE  Foreign
<1> DEFINE lines == text.lines
           open == text.open
<1>1. text = [lines |-> lines, open |-> open] /\ IsSeq(lines) /\ IsSeq(open)
  BY TextFacts
<1>2. Lines = IF open = << >> THEN lines ELSE Append(lines, open)
  BY DEF Lines
<1>3. Len(lines) \in Nat /\ (lines # << >> => 1 \in 1..Len(lines)) /\ (lines = << >> => Len(lines) = 0)
  BY <1>1, SeqFacts, FrontFacts, EmptyFacts
<1>4. /\ Len(Append(lines, open)) = Len(lines) + 1
      /\ \A i \in 1..Len(lines) : Append(lines, open)[i] = lines[i]
      /\ Append(lines, open)[Len(lines) + 1] = open
  BY <1>1, AppendFacts
<1>5. Append(lines, open) # << >>
  BY <1>3, <1>4, EmptyFacts
<1>6. CASE lines # << >>
  <2>1. Lines # << >> /\ Lines[1] = lines[1]
    BY <1>2, <1>3, <1>4, <1>5, <1>6
  <2> QED
    BY <1>6, <2>1 DEF Foreign, Generated
<1>7. CASE lines = << >>
  <2>1. open # << >>
    BY <1>1, <1>7 DEF Blank
  <2>2. Lines # << >> /\ Lines[1] = open
    BY <1>2, <1>3, <1>4, <1>5, <1>7, <2>1
  <2> QED
    BY <1>7, <2>2 DEF Foreign, Generated
<1> QED
  BY <1>6, <1>7

-----------------------------------------------------------------------------
(* What an invocation has yet to do. *)

Words(s) == IsSeq(s) /\ \A i \in DOMAIN s : s[i] \in PackageWords

\* What is left to do is paths and words.
ConfigsOK ==
    /\ IsSeq(configs)
    /\ \A i \in DOMAIN configs : IsSeq(configs[i].out) /\ Words(configs[i].package)

\* What update_mod_file has yet to write, once a file is made or opened.
Remaining(n) ==
    {<< <<MAGIC_HEADER>>, <<NL>>, <<PUB>>, n, <<END, NL>> >>,
     << <<NL>>, <<PUB>>, n, <<END, NL>> >>,
     << <<PUB>>, n, <<END, NL>> >>, << n, <<END, NL>> >>, << <<END, NL>> >>}

WorkInv ==
    /\ ConfigsOK
    /\ IsSeq(at) /\ Words(todo)
    /\ stage \in {"mod", "write"} => name \in PackageWords
    /\ stage = "write" => parent \in DOMAIN mods /\ pending \in Remaining(name)

LEMMA TwoLetters ==
    ASSUME NEW x, NEW y
    PROVE  /\ IsSeq(<<x, y>>) /\ <<x, y>> # << >>
           /\ Last(<<x, y>>) = y /\ Front(<<x, y>>) = <<x>>
<1> DEFINE s == <<x, y>>
           t == <<x>>
<1>1. s = [i \in 1..2 |-> s[i]] /\ Len(s) = 2 /\ s[1] = x /\ s[2] = y
  OBVIOUS
<1>2. IsSeq(t) /\ Len(t) = 1 /\ t[1] = x
  BY OneLetter
<1> HIDE DEF s, t
<1>3. IsSeq(s) /\ s # << >>
  BY <1>1, FunctionIsSeq, EmptyFacts
<1>4. /\ IsSeq(Front(s)) /\ Len(Front(s)) = 2 - 1
      /\ \A i \in DOMAIN Front(s) : Front(s)[i] = s[i]
  BY <1>1, <1>3, FrontFacts
<1>5. Len(Front(s)) = 1 /\ \A i \in 1..1 : Front(s)[i] = t[i]
  BY <1>1, <1>2, <1>4, SeqFacts
<1>6. Front(s) = t
  BY <1>2, <1>4, <1>5, SameSeq
<1> QED
  BY <1>1, <1>3, <1>6 DEF Last, s, t

LEMMA TwoAndThree ==
    ASSUME NEW x1, NEW x2, NEW x3, NEW x4, NEW x5
    PROVE  <<x1, x2>> \o <<x3, x4, x5>> = <<x1, x2, x3, x4, x5>>
<1> DEFINE s == <<x1, x2>>
           t == <<x3, x4, x5>>
           u == <<x1, x2, x3, x4, x5>>
<1>1. s = [i \in 1..2 |-> s[i]] /\ s[1] = x1 /\ s[2] = x2
  OBVIOUS
<1>2. t = [i \in 1..3 |-> t[i]] /\ t[1] = x3 /\ t[2] = x4 /\ t[3] = x5
  OBVIOUS
<1>3. u = [i \in 1..5 |-> u[i]] /\ u[1] = x1 /\ u[2] = x2 /\ u[3] = x3 /\ u[4] = x4 /\ u[5] = x5
  OBVIOUS
<1> HIDE DEF s, t, u
<1>4. IsSeq(s) /\ Len(s) = 2 /\ IsSeq(t) /\ Len(t) = 3 /\ IsSeq(u) /\ Len(u) = 5
  BY <1>1, <1>2, <1>3, FunctionIsSeq
<1> DEFINE v == s \o t
<1>5. /\ IsSeq(v) /\ Len(v) = Len(s) + Len(t)
      /\ \A i \in 1..Len(s) : v[i] = s[i]
      /\ \A i \in 1..Len(t) : v[Len(s) + i] = t[i]
  <2>1. IsSeq(s) /\ IsSeq(t)
    BY <1>4
  <2>2. /\ IsSeq(s \o t) /\ Len(s \o t) = Len(s) + Len(t)
        /\ \A i \in 1..Len(s) : (s \o t)[i] = s[i]
        /\ \A i \in 1..Len(t) : (s \o t)[Len(s) + i] = t[i]
    BY <2>1, ConcatFacts
  <2> QED
    BY <2>2
<1> HIDE DEF v
<1>6. v[1] = x1 /\ v[2] = x2 /\ v[2 + 1] = x3 /\ v[2 + 2] = x4 /\ v[2 + 3] = x5
  BY <1>1, <1>2, <1>4, <1>5
<1>7. Len(v) = 5 /\ \A i \in 1..5 : i = 1 \/ i = 2 \/ i = 3 \/ i = 4 \/ i = 5
  BY <1>4, <1>5
<1>8. v[1] = x1 /\ v[2] = x2 /\ v[3] = x3 /\ v[4] = x4 /\ v[5] = x5
  BY <1>6
<1>9. \A i \in 1..5 : v[i] = u[i]
  BY <1>3, <1>7, <1>8
<1>10. v = u
  BY <1>4, <1>5, <1>7, <1>9, SameSeq
<1> QED
  BY <1>10 DEF s, t, u, v

LEMMA WordFacts ==
    ASSUME NEW n \in PackageWords
    PROVE  /\ IsSeq(n) /\ n # << >>
           /\ \A i \in DOMAIN n : n[i] \notin {MAGIC_HEADER, PUB, END, NL}
<1>1. PICK inv \in Invocations : \E file \in ToSet(inv.in_files) : n \in ToSet(file.package)
  BY DEF PackageWords
<1>2. PICK file \in ToSet(inv.in_files) : n \in ToSet(file.package)
  BY <1>1
<1> QED
  BY <1>2, InvocationAssumption DEF IsSeq

LEMMA NoWords == Words(<< >>)
BY EmptyFacts DEF Words

LEMMA WordsTail ==
    ASSUME NEW s, Words(s), s # << >>
    PROVE  Words(Tail(s)) /\ Head(s) \in PackageWords
BY TailFacts DEF Words

LEMMA WordsFront ==
    ASSUME NEW s, Words(s), s # << >>
    PROVE  Words(Front(s))
BY FrontFacts DEF Words

\* Where an input's output goes is a path.
LEMMA OutDirIsPath ==
    ASSUME NEW inv \in Invocations, NEW file \in ToSet(inv.in_files)
    PROVE  IsSeq(out_dir(inv, file))
<1>1. IsSeq(inv.output) /\ IsSeq(inv.output_dir) /\ IsSeq(file.path) /\ file.path # << >>
  BY InvocationAssumption DEF IsSeq
<1>2. IsSeq(Front(file.path))
  BY <1>1, FrontFacts
<1>3. inv.output # << >> => IsSeq(Front(inv.output))
  BY <1>1, FrontFacts
<1>4. CASE inv.output_dir # None
  BY <1>1, <1>4 DEF out_dir
<1>5. CASE inv.output_dir = None /\ inv.output # None
  BY <1>1, <1>3, <1>5 DEF out_dir, None
<1>6. CASE inv.output_dir = None /\ inv.output = None
  BY <1>2, <1>6 DEF out_dir
<1> QED
  BY <1>4, <1>5, <1>6

LEMMA BuildOK ==
    ASSUME NEW inv \in Invocations, configs' = build(inv)
    PROVE  ConfigsOK'
<1> DEFINE files == inv.in_files
<1>1. IsSeq(files)
  BY InvocationAssumption DEF IsSeq
<1>2. Len(files) \in Nat /\ DOMAIN files = 1..Len(files)
  BY <1>1, SeqFacts
<1>3. \A i \in DOMAIN files : files[i] \in ToSet(files)
  BY DEF ToSet
<1>4. configs' = [i \in 1..Len(files) |-> configs'[i]]
  BY <1>2 DEF build
<1>5. IsSeq(configs') /\ DOMAIN configs' = DOMAIN files
  BY <1>2, <1>4, FunctionIsSeq
<1>6. \A i \in DOMAIN files :
          /\ configs'[i].out = out_dir(inv, files[i])
          /\ configs'[i].package = IF inv.single_module THEN << >> ELSE files[i].package
  BY DEF build
<1>7. \A i \in DOMAIN files : IsSeq(configs'[i].out)
  BY <1>3, <1>6, OutDirIsPath
<1>8. ASSUME NEW i \in DOMAIN files
      PROVE  Words(files[i].package)
  <2>1. files[i] \in ToSet(inv.in_files)
    BY <1>3
  <2>2. ToSet(files[i].package) \subseteq PackageWords
    BY <2>1 DEF PackageWords
  <2>3. IsSeq(files[i].package)
    BY <2>1, InvocationAssumption DEF IsSeq
  <2>4. \A j \in DOMAIN files[i].package : files[i].package[j] \in ToSet(files[i].package)
    BY DEF ToSet
  <2> QED
    BY <2>2, <2>3, <2>4 DEF Words
<1>9. \A i \in DOMAIN files : Words(configs'[i].package)
  BY <1>6, <1>8, NoWords
<1> QED
  BY <1>5, <1>7, <1>9 DEF ConfigsOK

\* Nothing is left of an invocation that ends.
LEMMA EndWork ==
    ASSUME NEW result, End(result)
    PROVE  WorkInv'
BY EmptyFacts, NoWords DEF WorkInv, End, ConfigsOK

LEMMA InvokeWork == WorkInv /\ Invoke => WorkInv'
<1> SUFFICES ASSUME WorkInv, Invoke
             PROVE  WorkInv'
  OBVIOUS
<1>1. stage' \in {"idle", "config"} /\ UNCHANGED <<mods, at, todo>>
  BY DEF Invoke, WorkInv
<1>2. ConfigsOK'
  <2>1. CASE \E inv \in Invocations : configs' = build(inv)
    BY <2>1, BuildOK
  <2>2. CASE configs' = configs
    BY <2>2 DEF WorkInv, ConfigsOK
  <2> QED
    BY <2>1, <2>2 DEF Invoke
<1> QED
  BY <1>1, <1>2 DEF WorkInv

LEMMA PrintWork == WorkInv /\ print_proto => WorkInv'
<1> SUFFICES ASSUME WorkInv, print_proto
             PROVE  WorkInv'
  OBVIOUS
<1>1. IsSeq(configs) /\ configs # << >>
  BY DEF WorkInv, ConfigsOK, print_proto
<1>2. /\ IsSeq(Tail(configs))
      /\ 1 \in DOMAIN configs
      /\ Head(configs) = configs[1]
      /\ \A i \in DOMAIN Tail(configs) :
            i + 1 \in DOMAIN configs /\ Tail(configs)[i] = configs[i + 1]
  BY <1>1, TailFacts
<1>3. ConfigsOK'
  BY <1>2 DEF WorkInv, ConfigsOK, print_proto
<1>4. IsSeq(Head(configs).out) /\ Words(Head(configs).package)
  BY <1>2 DEF WorkInv, ConfigsOK
<1>5. IsSeq(at') /\ Words(todo')
  <2>1. CASE Head(configs).package = << >>
    BY <1>4, <2>1, NoWords DEF print_proto
  <2>2. CASE Head(configs).package # << >>
    BY <1>4, <2>2, WordsFront DEF print_proto
  <2> QED
    BY <2>1, <2>2
<1>6. stage' = "dirs"
  BY DEF print_proto
<1> QED
  BY <1>3, <1>5, <1>6 DEF WorkInv

LEMMA NextDirWork == WorkInv /\ NextDir => WorkInv'
<1> SUFFICES ASSUME WorkInv, NextDir
             PROVE  WorkInv'
  OBVIOUS
<1>1. IsSeq(at) /\ Words(todo) /\ todo # << >>
  BY DEF WorkInv, NextDir
<1>2. at' = Append(at, Head(todo)) /\ todo' = Tail(todo) /\ UNCHANGED <<mods, configs>>
      /\ stage' \in {"dirs", "mod"}
  BY DEF NextDir
<1>3. Words(todo') /\ Head(todo) \in PackageWords
  BY <1>1, <1>2, WordsTail
<1>4. IsSeq(at') /\ Len(at') = Len(at) + 1 /\ at'[Len(at) + 1] = Head(todo)
  BY <1>1, <1>2, AppendFacts
<1>5. name' = Head(todo)
  BY <1>4 DEF name, Last
<1>6. ConfigsOK'
  BY <1>2 DEF WorkInv, ConfigsOK
<1> QED
  BY <1>2, <1>3, <1>4, <1>5, <1>6 DEF WorkInv

\* Once a file is made or opened, what is written to it is on its way.
LEMMA StartWriting ==
    ASSUME WorkInv, stage = "mod", stage' = "write", UNCHANGED <<configs, at, todo>>,
           parent \in DOMAIN mods',
           pending' \in {declaration(name), header \o declaration(name)}
    PROVE  WorkInv' /\ parent' = parent /\ name' = name
<1>1. parent' = parent /\ name' = name
  BY DEF parent, name
<1>2. header \o declaration(name)
        = << <<MAGIC_HEADER>>, <<NL>>, <<PUB>>, name, <<END, NL>> >>
  BY TwoAndThree DEF header, declaration
<1>3. pending' \in Remaining(name)
  BY <1>2 DEF Remaining, declaration
<1>4. ConfigsOK'
  BY DEF WorkInv, ConfigsOK
<1> QED
  BY <1>1, <1>3, <1>4 DEF WorkInv

\* The pieces, one by one.
LEMMA PieceFactsAt ==
    ASSUME NEW n \in PackageWords, NEW rest \in Remaining(n)
    PROVE  /\ IsSeq(Head(rest)) /\ Head(rest) # << >>
           /\ rest = << <<MAGIC_HEADER>>, <<NL>>, <<PUB>>, n, <<END, NL>> >> =>
                 /\ Head(rest) = <<MAGIC_HEADER>> /\ Last(Head(rest)) # NL
                 /\ Tail(rest) = << <<NL>>, <<PUB>>, n, <<END, NL>> >>
           /\ rest = << <<NL>>, <<PUB>>, n, <<END, NL>> >> =>
                 /\ Last(Head(rest)) = NL /\ Front(Head(rest)) = << >>
                 /\ Tail(rest) = << <<PUB>>, n, <<END, NL>> >>
           /\ rest = << <<PUB>>, n, <<END, NL>> >> =>
                 /\ Head(rest) = <<PUB>> /\ Last(Head(rest)) # NL
                 /\ Tail(rest) = << n, <<END, NL>> >>
           /\ rest = << n, <<END, NL>> >> =>
                 /\ Head(rest) = n /\ Last(Head(rest)) # NL
                 /\ Tail(rest) = << <<END, NL>> >>
           /\ rest = << <<END, NL>> >> =>
                 /\ Last(Head(rest)) = NL /\ Front(Head(rest)) = <<END>>
                 /\ Tail(rest) = << >>
<1> DEFINE h == <<MAGIC_HEADER>>
           l == <<NL>>
           k == <<PUB>>
           e == <<END, NL>>
           s == <<END>>
<1>1. IsSeq(n) /\ n # << >> /\ \A i \in DOMAIN n : n[i] # NL
  BY WordFacts
<1>2. \A x : IsSeq(<<x>>) /\ <<x>> # << >> /\ Last(<<x>>) = x /\ Front(<<x>>) = << >>
  <2> TAKE x
  <2>1. IsSeq(<<x>>) /\ Len(<<x>>) = 1 /\ <<x>>[1] = x
    BY OneLetter
  <2>2. Front(<<x>>) = << >>
    BY <2>1 DEF Front
  <2> QED
    BY <2>1, <2>2, EmptyFacts DEF Last
<1>3. MAGIC_HEADER # NL /\ PUB # NL
  BY DEF MAGIC_HEADER, PUB, NL
<1>4. IsSeq(h) /\ h # << >> /\ Last(h) # NL /\ IsSeq(k) /\ k # << >> /\ Last(k) # NL
  BY <1>2, <1>3
<1>5. IsSeq(l) /\ l # << >> /\ Last(l) = NL /\ Front(l) = << >>
  BY <1>2
<1>6. IsSeq(e) /\ e # << >> /\ Last(e) = NL /\ Front(e) = s
  BY TwoLetters
<1>7. Last(n) # NL
  BY <1>1, FrontFacts DEF Last
<1>8. rest \in {<<h, l, k, n, e>>, <<l, k, n, e>>, <<k, n, e>>, <<n, e>>, <<e>>}
  BY DEF Remaining
<1> HIDE DEF h, l, k, e, s
<1>9. rest = <<h, l, k, n, e>> => Head(rest) = h /\ Tail(rest) = <<l, k, n, e>>
  OBVIOUS
<1>10. rest = <<l, k, n, e>> => Head(rest) = l /\ Tail(rest) = <<k, n, e>>
  OBVIOUS
<1>11. rest = <<k, n, e>> => Head(rest) = k /\ Tail(rest) = <<n, e>>
  OBVIOUS
<1>12. rest = <<n, e>> => Head(rest) = n /\ Tail(rest) = <<e>>
  OBVIOUS
<1>13. rest = <<e>> => Head(rest) = e /\ Tail(rest) = << >>
  OBVIOUS
<1>14. IsSeq(Head(rest)) /\ Head(rest) # << >>
  BY <1>1, <1>4, <1>5, <1>6, <1>8, <1>9, <1>10, <1>11, <1>12, <1>13
<1> QED
  BY <1>4, <1>5, <1>6, <1>7, <1>9, <1>10, <1>11, <1>12, <1>13, <1>14 DEF h, l, k, e, s

LEMMA WritePieceWork == WorkInv /\ WritePiece => WorkInv'
<1> SUFFICES ASSUME WorkInv, WritePiece
             PROVE  WorkInv'
  OBVIOUS
<1>1. /\ stage = "write" /\ pending' = Tail(pending) /\ UNCHANGED <<configs, at, todo>>
      /\ stage' = IF pending' = << >> THEN "dirs" ELSE "write"
      /\ DOMAIN mods' = DOMAIN mods
  BY DEF WritePiece
<1>2. name \in PackageWords /\ parent \in DOMAIN mods /\ pending \in Remaining(name)
  BY <1>1 DEF WorkInv
<1>3. parent' = parent /\ name' = name
  BY <1>1 DEF parent, name
<1>4. pending' = << >> \/ pending' \in Remaining(name)
  BY <1>1, <1>2, PieceFactsAt DEF Remaining
<1>5. ConfigsOK'
  BY <1>1 DEF WorkInv, ConfigsOK
<1> QED
  BY <1>1, <1>2, <1>3, <1>4, <1>5 DEF WorkInv

LEMMA StepWork == WorkInv /\ [Next]_vars => WorkInv'
<1> SUFFICES ASSUME WorkInv, [Next]_vars
             PROVE  WorkInv'
  OBVIOUS
<1>1. CASE Invoke
  BY <1>1, InvokeWork
<1>2. CASE AllDone
  BY <1>2, EndWork DEF AllDone
<1>3. CASE EmptyRead
  BY <1>3, EndWork DEF EmptyRead
<1>4. CASE print_proto
  BY <1>4, PrintWork
<1>5. CASE NextConfig \/ Present
  BY <1>5 DEF NextConfig, Present, WorkInv, ConfigsOK
<1>6. CASE NextDir
  BY <1>6, NextDirWork
<1>7. CASE ReadPanics
  BY <1>7, EndWork DEF ReadPanics
<1>8. CASE AppendName
  BY <1>8, StartWriting DEF AppendName
<1>9. CASE CreateFile
  <2>1. DOMAIN mods' = DOMAIN mods \cup {parent}
    BY <1>9 DEF CreateFile
  <2> QED
    BY <1>9, <2>1, StartWriting DEF CreateFile
<1>10. CASE WritePiece
  BY <1>10, WritePieceWork
<1>11. CASE EndEarly
  BY <1>11, EndWork DEF EndEarly
<1>12. CASE RemoveDir
  BY <1>12 DEF RemoveDir, WorkInv, ConfigsOK
<1>13. CASE UNCHANGED vars
  BY <1>13 DEF vars, WorkInv, ConfigsOK, parent, name
<1> QED
  BY <1>1, <1>2, <1>3, <1>4, <1>5, <1>6, <1>7, <1>8, <1>9, <1>10, <1>11, <1>12, <1>13
  DEF Next

LEMMA InitWork == Init => WorkInv
BY EmptyFacts, NoWords DEF Init, WorkInv, ConfigsOK

-----------------------------------------------------------------------------
(* What a user wrote stays. *)

\* A mod.rs that is taken for somebody else's.
Theirs(d) == d \in DOMAIN UserMods /\ UserMods[d] # Blank /\ ~ Generated(UserMods[d])

\* The user's files stay in front, and the file that is written to is none that has to stay as
\* it is.
IInv ==
    /\ \A d \in DOMAIN mods : IsText(mods[d])
    /\ \A d \in DOMAIN UserMods : d \in DOMAIN mods /\ Extends(UserMods[d], mods[d])
    /\ \A d : Theirs(d) => mods[d] = UserMods[d]
    /\ stage = "write" => ~ Theirs(parent)

LEMMA InitInv == Init => IInv
BY UserAssumption, ExtendsItself DEF Init, IInv, Theirs

LEMMA CreateFileInv == IInv /\ CreateFile => IInv'
<1> SUFFICES ASSUME IInv, CreateFile
             PROVE  IInv'
  OBVIOUS
<1>1. parent \notin DOMAIN UserMods /\ parent' = parent
  BY DEF IInv, CreateFile, parent
<1>2. /\ DOMAIN mods' = DOMAIN mods \cup {parent} /\ mods'[parent] = Blank
      /\ \A d \in DOMAIN mods : d # parent => mods'[d] = mods[d]
  BY DEF CreateFile
<1>3. \A d \in DOMAIN mods' : IsText(mods'[d])
  BY <1>2, BlankIsText DEF IInv
<1> QED
  BY <1>1, <1>2, <1>3 DEF IInv, Theirs

LEMMA AppendNameInv == IInv /\ AppendName => IInv'
<1> SUFFICES ASSUME IInv, AppendName
             PROVE  IInv'
  OBVIOUS
<1>1. mods' = mods /\ parent' = parent /\ parent \in DOMAIN mods /\ ~ Foreign
  BY DEF AppendName, parent
<1>2. ~ Theirs(parent)
  BY <1>1, SomebodyElses DEF IInv, Theirs
<1> QED
  BY <1>1, <1>2 DEF IInv, Theirs

\* What writing a piece changes.
LEMMA WritePieceIs ==
    ASSUME WorkInv, WritePiece
    PROVE  /\ stage = "write" /\ name \in PackageWords /\ pending \in Remaining(name)
           /\ parent \in DOMAIN mods /\ parent' = parent /\ name' = name
           /\ IsSeq(Head(pending)) /\ Head(pending) # << >>
           /\ DOMAIN mods' = DOMAIN mods
           /\ mods'[parent] = Put(mods[parent], Head(pending))
           /\ \A d \in DOMAIN mods : d # parent => mods'[d] = mods[d]
           /\ pending' = Tail(pending)
<1>1. stage = "write" /\ name \in PackageWords /\ pending \in Remaining(name) /\ parent \in DOMAIN mods
  BY DEF WorkInv, WritePiece
<1>2. parent' = parent /\ name' = name
  BY DEF WritePiece, parent, name
<1>3. IsSeq(Head(pending)) /\ Head(pending) # << >>
  BY <1>1, PieceFactsAt
<1> QED
  BY <1>1, <1>2, <1>3 DEF WritePiece

LEMMA WritePieceInv == WorkInv /\ IInv /\ WritePiece => IInv'
<1> SUFFICES ASSUME WorkInv, IInv, WritePiece
             PROVE  IInv'
  OBVIOUS
<1> DEFINE piece == Head(pending)
<1>1. /\ stage = "write" /\ parent \in DOMAIN mods /\ parent' = parent
      /\ IsSeq(piece) /\ piece # << >>
      /\ DOMAIN mods' = DOMAIN mods /\ mods'[parent] = Put(mods[parent], piece)
      /\ \A d \in DOMAIN mods : d # parent => mods'[d] = mods[d]
  BY WritePieceIs
<1> HIDE DEF piece
<1>2. ~ Theirs(parent) /\ IsText(mods[parent])
  BY <1>1 DEF IInv
<1>3. \A d \in DOMAIN mods' : IsText(mods'[d])
  BY <1>1, <1>2, PutFacts DEF IInv
<1>4. ASSUME NEW d \in DOMAIN UserMods
      PROVE  d \in DOMAIN mods' /\ Extends(UserMods[d], mods'[d])
  <2>1. d \in DOMAIN mods /\ Extends(UserMods[d], mods[d]) /\ IsText(UserMods[d]) /\ IsText(mods[d])
    BY UserAssumption DEF IInv
  <2>2. CASE d = parent
    BY <1>1, <2>1, <2>2, ExtendsPut
  <2>3. CASE d # parent
    BY <1>1, <2>1, <2>3
  <2> QED
    BY <2>2, <2>3
<1>5. \A d : Theirs(d) => mods'[d] = UserMods[d]
  BY <1>1, <1>2 DEF IInv, Theirs
<1> QED
  BY <1>1, <1>2, <1>3, <1>4, <1>5 DEF IInv, Theirs

LEMMA RemoveDirInv == IInv /\ RemoveDir => IInv'
<1> SUFFICES ASSUME IInv, RemoveDir
             PROVE  IInv'
  OBVIOUS
<1>1. PICK d : /\ \A e \in DOMAIN UserMods : ~ IsPrefix(d, e)
               /\ mods' = [e \in {e \in DOMAIN mods : ~ IsPrefix(d, e)} |-> mods[e]]
  BY DEF RemoveDir
<1>2. \A e \in DOMAIN UserMods : e \in DOMAIN mods' /\ mods'[e] = mods[e]
  BY <1>1 DEF IInv
<1>3. \A e \in DOMAIN mods' : IsText(mods'[e])
  BY <1>1 DEF IInv
<1>4. stage' # "write"
  BY DEF RemoveDir
<1> QED
  BY <1>2, <1>3, <1>4 DEF IInv, Theirs

\* Steps that touch no mod.rs and start writing to none.
LEMMA ElsewhereInv ==
    ASSUME IInv, mods' = mods, stage' # "write"
    PROVE  IInv'
BY DEF IInv, Theirs

LEMMA StepInv == WorkInv /\ IInv /\ [Next]_vars => IInv'
<1> SUFFICES ASSUME WorkInv, IInv, [Next]_vars
             PROVE  IInv'
  OBVIOUS
<1>1. CASE Invoke
  BY <1>1, ElsewhereInv DEF Invoke
<1>2. CASE AllDone \/ EmptyRead
  BY <1>2, ElsewhereInv DEF AllDone, EmptyRead, End
<1>3. CASE print_proto
  BY <1>3, ElsewhereInv DEF print_proto
<1>4. CASE NextConfig
  BY <1>4, ElsewhereInv DEF NextConfig
<1>5. CASE NextDir
  BY <1>5, ElsewhereInv DEF NextDir
<1>6. CASE Present
  BY <1>6, ElsewhereInv DEF Present
<1>7. CASE ReadPanics
  BY <1>7, ElsewhereInv DEF ReadPanics, End
<1>8. CASE AppendName
  BY <1>8, AppendNameInv
<1>9. CASE CreateFile
  BY <1>9, CreateFileInv
<1>10. CASE WritePiece
  BY <1>10, WritePieceInv
<1>11. CASE EndEarly
  BY <1>11, ElsewhereInv DEF EndEarly, End
<1>12. CASE RemoveDir
  BY <1>12, RemoveDirInv
<1>13. CASE UNCHANGED vars
  BY <1>13 DEF IInv, vars, parent, Theirs
<1> QED
  BY <1>1, <1>2, <1>3, <1>4, <1>5, <1>6, <1>7, <1>8, <1>9, <1>10, <1>11, <1>12, <1>13
  DEF Next

\* However many invocations end early, in the middle of a line too, and wherever directories are
\* removed, what a user wrote in a mod.rs stays in front of what is written, and a mod.rs with a
\* first line that has not the header stays as it is (types.rs:885-889).
THEOREM UserModsStay == Spec => []UserModsKept
<1>1. Init => WorkInv /\ IInv
  BY InitWork, InitInv
<1>2. WorkInv /\ IInv /\ [Next]_vars => (WorkInv /\ IInv)'
  BY StepWork, StepInv
<1>3. IInv => UserModsKept
  BY DEF IInv, UserModsKept, Theirs
<1> QED
  BY <1>1, <1>2, <1>3, PTL DEF Spec

-----------------------------------------------------------------------------
(* No module twice. *)

LEMMA DeclarationFacts ==
    ASSUME NEW n \in PackageWords
    PROVE  /\ IsSeq(Declaration(n)) /\ Len(Declaration(n)) = Len(n) + 2 /\ Len(n) \in Nat \ {0}
           /\ Declaration(n)[1] = PUB
           /\ \A j \in 2..(Len(n) + 2) : Declaration(n)[j] # PUB
           /\ SubSeq(Declaration(n), 2, Len(n) + 1) = n
<1> DEFINE k == <<PUB>>
           e == <<END>>
           a == k \o n
           line == a \o e
           m == Len(n)
<1>1. IsSeq(n) /\ n # << >> /\ \A i \in DOMAIN n : n[i] # PUB
  BY WordFacts
<1>2. m \in Nat \ {0} /\ DOMAIN n = 1..m
  BY <1>1, SeqFacts, FrontFacts
<1>3. IsSeq(k) /\ Len(k) = 1 /\ k[1] = PUB /\ IsSeq(e) /\ Len(e) = 1 /\ e[1] = END
  BY OneLetter
<1> HIDE DEF k, e, m
<1>4. IsSeq(a) /\ Len(a) = m + 1 /\ a[1] = PUB /\ \A i \in 1..m : a[1 + i] = n[i]
  <2>1. /\ IsSeq(a) /\ Len(a) = Len(k) + Len(n)
        /\ \A i \in 1..Len(k) : a[i] = k[i]
        /\ \A i \in 1..Len(n) : a[Len(k) + i] = n[i]
    <3>1. IsSeq(k) /\ IsSeq(n)
      BY <1>1, <1>3
    <3> QED
      BY <3>1, ConcatFacts
  <2> HIDE DEF a
  <2>2. 1 \in 1..Len(k)
    BY <1>3
  <2> QED
    BY <1>2, <1>3, <2>1, <2>2 DEF m
<1> HIDE DEF a
<1>5. /\ IsSeq(line) /\ Len(line) = m + 2
      /\ \A i \in 1..(m + 1) : line[i] = a[i]
      /\ line[m + 2] = END
  <2>1. /\ IsSeq(line) /\ Len(line) = Len(a) + Len(e)
        /\ \A i \in 1..Len(a) : line[i] = a[i]
        /\ \A i \in 1..Len(e) : line[Len(a) + i] = e[i]
    <3>1. IsSeq(a) /\ IsSeq(e)
      BY <1>3, <1>4
    <3> QED
      BY <3>1, ConcatFacts
  <2> HIDE DEF line
  <2>2. 1 \in 1..Len(e) /\ (m + 1) + 1 = m + 2
    BY <1>2, <1>3
  <2>3. line[Len(a) + 1] = e[1]
    BY <2>1, <2>2
  <2> QED
    BY <1>2, <1>3, <1>4, <2>1, <2>2, <2>3
<1> HIDE DEF line
<1>6. Len(line) = m + 2 /\ line[1] = PUB /\ line[m + 2] = END
  <2>1. 1 \in 1..(m + 1)
    BY <1>2
  <2> QED
    BY <1>4, <1>5, <2>1
<1>7. \A i \in 1..m : line[1 + i] = n[i]
  BY <1>2, <1>4, <1>5
<1>8. ASSUME NEW j \in 2..(m + 2)
      PROVE  line[j] # PUB
  <2>1. CASE j = m + 2
    <3>1. PUB # END
      BY Zenon DEF PUB, END
    <3> QED
      BY <1>6, <2>1, <3>1
  <2>2. CASE j # m + 2
    <3>1. j - 1 \in 1..m /\ 1 + (j - 1) = j
      BY <1>2, <2>2
    <3> QED
      BY <1>1, <1>2, <1>7, <3>1
  <2> QED
    BY <2>1, <2>2
<1>9. Piece(line, 1, m + 1) = n
  <2>1. 1 \in Nat /\ m + 1 \in Nat /\ 1 <= m + 1 /\ m + 1 <= m + 2 /\ m = (m + 1) - 1
    BY <1>2
  <2>2. Len(n) = (m + 1) - 1 /\ \A i \in 1..((m + 1) - 1) : line[1 + i] = n[i]
    BY <1>7, <2>1 DEF m
  <2> QED
    <3>1. IsSeq(line) /\ IsSeq(n) /\ m + 1 <= Len(line)
      BY <1>1, <1>5, <2>1
    <3> QED
      BY <2>1, <2>2, <3>1, PieceIs
<1>10. SubSeq(line, 2, m + 1) = n
  BY <1>9 DEF Piece
<1>11. Declaration(n) = line
  BY DEF Declaration, line, a, k, e
<1> QED
  BY <1>2, <1>5, <1>6, <1>8, <1>10, <1>11 DEF m

\* What a line that declares a module is read as.
LEMMA DeclarationNames ==
    ASSUME NEW n \in PackageWords
    PROVE  /\ Names(Declaration(n), n)
           /\ \A w : Names(Declaration(n), w) => w = n
           /\ ~ Cut(Declaration(n))
<1> DEFINE line == Declaration(n)
<1>1. /\ IsSeq(line) /\ Len(line) = Len(n) + 2 /\ Len(n) \in Nat \ {0}
      /\ line[1] = PUB /\ \A j \in 2..(Len(n) + 2) : line[j] # PUB
      /\ SubSeq(line, 2, Len(n) + 1) = n
  BY DeclarationFacts
<1>2. DOMAIN line = 1..(Len(n) + 2)
  BY <1>1, SeqFacts
<1> HIDE DEF line
<1>3. \A i \in DOMAIN line : i = 1 \/ i \in 2..(Len(n) + 2)
  BY <1>1, <1>2
<1>4. 1 \in DOMAIN line /\ 1..(1 - 1) = {} /\ 1 < Len(line) /\ 1 + 1 = 2 /\ Len(line) - 1 = Len(n) + 1
  BY <1>1, <1>2
<1>5. Keyword(line, 1)
  BY <1>1, <1>4 DEF Keyword
<1>6. \A i : Keyword(line, i) => i = 1
  BY <1>1, <1>3 DEF Keyword
<1>7. \A w : Names(line, w) <=> SubSeq(line, 2, Len(n) + 1) = w
  <2> TAKE w
  <2>1. Names(line, w) => SubSeq(line, 1 + 1, Len(line) - 1) = w
    BY <1>6 DEF Names
  <2>2. SubSeq(line, 1 + 1, Len(line) - 1) = w => Names(line, w)
    BY <1>4, <1>5 DEF Names
  <2> QED
    BY <1>4, <2>1, <2>2
<1>8. ~ Cut(line)
  BY <1>4, <1>6 DEF Cut
<1> QED
  BY <1>1, <1>7, <1>8 DEF line

LEMMA HeaderNames ==
    ASSUME NEW n
    PROVE  ~ Names(<<MAGIC_HEADER>>, n) /\ ~ Cut(<<MAGIC_HEADER>>)
<1> DEFINE h == <<MAGIC_HEADER>>
<1>1. DOMAIN h = {1} /\ h[1] = MAGIC_HEADER
  BY OneLetter
<1>2. MAGIC_HEADER # PUB
  BY DEF MAGIC_HEADER, PUB
<1> HIDE DEF h
<1>3. \A i : ~ Keyword(h, i)
  BY <1>1, <1>2 DEF Keyword
<1> QED
  BY <1>3 DEF Names, Cut, h

Undeclared(text, n) == \A i \in DOMAIN text.lines : text.lines[i] # Declaration(n)

\* How far writing has got.
Progress(text, rest, n) ==
    \/ rest = << <<MAGIC_HEADER>>, <<NL>>, <<PUB>>, n, <<END, NL>> >> /\ text = Blank
    \/ rest = << <<NL>>, <<PUB>>, n, <<END, NL>> >> /\ text.open = <<MAGIC_HEADER>>
    \/ rest = << <<PUB>>, n, <<END, NL>> >>
    \/ rest = << n, <<END, NL>> >> /\ text.open # << >> /\ Last(text.open) = PUB
    \/ /\ rest = << <<END, NL>> >>
       /\ \E k \in 1..Len(text.open) :
             text.open[k] = PUB /\ (k = 1 => text.open = <<PUB>> \o n)

\* The module that is being declared is not declared yet; what an earlier invocation left of a
\* line makes the new one declare nothing.
OnceInv ==
    /\ \A d \in DOMAIN mods \ DOMAIN UserMods : OnceIn(mods[d].lines)
    /\ stage = "write" =>
          Undeclared(mods[parent], name) /\ Progress(mods[parent], pending, name)

LEMMA OnceAppend ==
    ASSUME NEW lines, IsSeq(lines), OnceIn(lines), NEW line,
           \A n \in PackageWords : line = Declaration(n) =>
               \A i \in DOMAIN lines : lines[i] # Declaration(n)
    PROVE  OnceIn(Append(lines, line))
<1> DEFINE t == Append(lines, line)
<1>1. /\ DOMAIN t = 1..(Len(lines) + 1)
      /\ \A i \in 1..Len(lines) : t[i] = lines[i]
      /\ t[Len(lines) + 1] = line
  BY AppendFacts
<1>2. Len(lines) \in Nat /\ DOMAIN lines = 1..Len(lines)
  BY SeqFacts
<1> HIDE DEF t
<1>3. \A i \in DOMAIN t : \/ i \in DOMAIN lines /\ t[i] = lines[i]
                          \/ i = Len(lines) + 1 /\ t[i] = line
  BY <1>1, <1>2
<1> QED
  BY <1>3 DEF OnceIn, t

\* A line that ends after "pub mod " and a name declares that name or nothing.
LEMMA NewLine ==
    ASSUME NEW open, IsSeq(open), NEW n, NEW k \in 1..Len(open), open[k] = PUB,
           k = 1 => open = <<PUB>> \o n,
           NEW w \in PackageWords, open \o <<END>> = Declaration(w)
    PROVE  Declaration(w) = Declaration(n)
<1> DEFINE line == Declaration(w)
<1>1. Len(open) \in Nat
  BY SeqFacts
<1>2. /\ Len(line) = Len(w) + 2 /\ Len(w) \in Nat
      /\ \A j \in 2..(Len(w) + 2) : line[j] # PUB
  BY DeclarationFacts
<1>3. IsSeq(<<END>>) /\ Len(<<END>>) = 1
  BY OneLetter
<1>4. /\ Len(open \o <<END>>) = Len(open) + Len(<<END>>)
      /\ \A i \in 1..Len(open) : (open \o <<END>>)[i] = open[i]
  BY <1>3, ConcatFacts
<1>5. line[k] = PUB /\ Len(open) + 1 = Len(w) + 2
  BY <1>2, <1>3, <1>4
<1> HIDE DEF line
<1>6. k = 1
  <2> SUFFICES ASSUME k # 1
               PROVE  FALSE
    OBVIOUS
  <2>1. k \in 2..(Len(w) + 2)
    BY <1>1, <1>2, <1>5
  <2> QED
    BY <1>2, <1>5, <2>1
<1> QED
  BY <1>6 DEF Declaration

\* What is left out of Lines is at most an unfinished line.
LEMMA LinesFacts ==
    ASSUME NEW text, IsText(text), mods[parent] = text
    PROVE  /\ \A i \in DOMAIN text.lines : i \in DOMAIN Lines /\ Lines[i] = text.lines[i]
           /\ text.open = << >> => Lines = text.lines
<1>1. IsSeq(text.lines)
  BY TextFacts
<1>2. Len(text.lines) \in Nat /\ DOMAIN text.lines = 1..Len(text.lines)
  BY <1>1, SeqFacts
<1>3. /\ DOMAIN Append(text.lines, text.open) = 1..(Len(text.lines) + 1)
      /\ \A i \in 1..Len(text.lines) : Append(text.lines, text.open)[i] = text.lines[i]
  BY <1>1, AppendFacts
<1>4. Lines = IF text.open = << >> THEN text.lines ELSE Append(text.lines, text.open)
  BY DEF Lines
<1>5. \A i \in 1..Len(text.lines) : i \in 1..(Len(text.lines) + 1)
  BY <1>2
<1> QED
  BY <1>2, <1>3, <1>4, <1>5

LEMMA AppendNameOnce == WorkInv /\ IInv /\ OnceInv /\ AppendName => OnceInv'
<1> SUFFICES ASSUME WorkInv, IInv, OnceInv, AppendName
             PROVE  OnceInv'
  OBVIOUS
<1>1. /\ mods' = mods /\ parent' = parent /\ name' = name /\ parent \in DOMAIN mods
      /\ ~ Listed /\ ~ SomeCut /\ pending' = declaration(name)
  BY DEF AppendName, parent, name
<1>2. name \in PackageWords
  BY DEF WorkInv, AppendName
<1>3. IsText(mods[parent])
  BY <1>1 DEF IInv
<1>4. ASSUME NEW i \in DOMAIN mods[parent].lines, mods[parent].lines[i] = Declaration(name)
      PROVE  FALSE
  <2>1. i \in DOMAIN Lines /\ Lines[i] = Declaration(name)
    BY <1>3, <1>4, LinesFacts
  <2>2. Names(Lines[i], name)
    BY <1>2, <2>1, DeclarationNames
  <2>3. IsSeq(Lines)
    BY <1>3, TextFacts, AppendFacts DEF Lines
  <2>4. \A j \in 1..(i - 1) : j \in DOMAIN Lines
    BY <2>1, <2>3, SeqFacts
  <2>5. \A j \in 1..(i - 1) : ~ Cut(Lines[j])
    BY <1>1, <2>4 DEF SomeCut
  <2> QED
    BY <1>1, <2>1, <2>2, <2>5 DEF Listed
<1>5. Progress(mods[parent], pending', name)
  BY <1>1 DEF Progress, declaration
<1> QED
  BY <1>1, <1>4, <1>5 DEF OnceInv, Undeclared

LEMMA CreateFileOnce == OnceInv /\ CreateFile => OnceInv'
<1> SUFFICES ASSUME OnceInv, CreateFile
             PROVE  OnceInv'
  OBVIOUS
<1>1. /\ DOMAIN mods' = DOMAIN mods \cup {parent}
      /\ mods'[parent] = Blank
      /\ \A d \in DOMAIN mods : d # parent => mods'[d] = mods[d]
      /\ pending' = header \o declaration(name)
      /\ parent' = parent /\ name' = name
  BY DEF CreateFile, parent, name
<1>2. Blank.lines = << >> /\ DOMAIN << >> = {}
  BY EmptyFacts DEF Blank
<1>3. \A d \in DOMAIN mods' \ DOMAIN UserMods : OnceIn(mods'[d].lines)
  BY <1>1, <1>2 DEF OnceInv, OnceIn
<1>4. pending' = << <<MAGIC_HEADER>>, <<NL>>, <<PUB>>, name, <<END, NL>> >>
  BY <1>1, TwoAndThree DEF header, declaration
<1>5. Progress(mods'[parent], pending', name)
  BY <1>1, <1>4 DEF Progress
<1> QED
  BY <1>1, <1>2, <1>3, <1>5 DEF OnceInv, Undeclared

\* Progress and lines, piece by piece.
LEMMA WritePieceOnce == WorkInv /\ IInv /\ OnceInv /\ WritePiece => OnceInv'
<1> SUFFICES ASSUME WorkInv, IInv, OnceInv, WritePiece
             PROVE  OnceInv'
  OBVIOUS
<1> DEFINE text == mods[parent]
           piece == Head(pending)
           after == Put(text, piece)
           n == name
<1>1. /\ stage = "write" /\ n \in PackageWords /\ pending \in Remaining(n)
      /\ parent \in DOMAIN mods /\ parent' = parent /\ name' = n
      /\ IsSeq(piece) /\ piece # << >>
      /\ DOMAIN mods' = DOMAIN mods /\ mods'[parent] = after
      /\ \A d \in DOMAIN mods : d # parent => mods'[d] = mods[d]
      /\ pending' = Tail(pending)
  BY WritePieceIs
<1>2. IsText(text) /\ Undeclared(text, n) /\ Progress(text, pending, n)
  BY <1>1 DEF IInv, OnceInv
<1>3. IsSeq(text.lines) /\ IsSeq(text.open) /\ Len(text.open) \in Nat
  BY <1>2, TextFacts, SeqFacts
<1>4. stage' = "write" => pending' # << >>
  BY DEF WritePiece
<1>5. /\ Last(piece) # NL => after.lines = text.lines /\ after.open = text.open \o piece
      /\ Last(piece) = NL => after.lines = Append(text.lines, text.open \o Front(piece))
                             /\ after.open = << >>
  BY <1>1, <1>2, PutFacts
<1> HIDE DEF text, piece, after, n
<1>6. SUFFICES /\ OnceIn(text.lines) => OnceIn(after.lines)
               /\ pending' # << >> => Undeclared(after, n) /\ Progress(after, pending', n)
  BY <1>1, <1>4 DEF OnceInv, text
<1>7. ASSUME Last(piece) # NL
      PROVE  (OnceIn(text.lines) => OnceIn(after.lines)) /\ Undeclared(after, n)
  BY <1>2, <1>5, <1>7 DEF Undeclared
<1>8. CASE pending = << <<MAGIC_HEADER>>, <<NL>>, <<PUB>>, n, <<END, NL>> >> /\ text = Blank
  <2>1. /\ piece = <<MAGIC_HEADER>> /\ Last(piece) # NL
        /\ pending' = << <<NL>>, <<PUB>>, n, <<END, NL>> >>
    BY <1>1, <1>8, PieceFactsAt DEF piece
  <2>2. text.open = << >>
    BY <1>8 DEF Blank
  <2>3. after.open = <<MAGIC_HEADER>>
    BY <1>1, <1>5, <2>1, <2>2, ConcatEmptySeq, OneLetter DEF IsSeq
  <2> QED
    BY <1>7, <2>1, <2>3 DEF Progress
<1>9. CASE /\ pending = << <<NL>>, <<PUB>>, n, <<END, NL>> >>
           /\ text.open = <<MAGIC_HEADER>>
  <2>1. /\ Last(piece) = NL /\ Front(piece) = << >>
        /\ pending' = << <<PUB>>, n, <<END, NL>> >>
    BY <1>1, <1>9, PieceFactsAt DEF piece
  <2> DEFINE line == text.open \o << >>
  <2>2. after.lines = Append(text.lines, line)
    BY <1>5, <2>1
  <2>3. line[1] = MAGIC_HEADER
    <3>1. \A i \in 1..Len(text.open) : line[i] = text.open[i]
      BY <1>3, EmptyFacts, ConcatFacts
    <3>2. Len(text.open) = 1 /\ text.open[1] = MAGIC_HEADER
      BY <1>9, OneLetter
    <3> QED
      BY <3>1, <3>2
  <2> HIDE DEF line
  <2>4. \A w \in PackageWords : line # Declaration(w)
    BY <2>3, DeclarationFacts DEF MAGIC_HEADER, PUB
  <2>5. OnceIn(text.lines) => OnceIn(after.lines)
    BY <1>3, <2>2, <2>4, OnceAppend
  <2>6. Undeclared(after, n)
    <3>1. /\ Len(text.lines) \in Nat /\ DOMAIN text.lines = 1..Len(text.lines)
          /\ DOMAIN after.lines = 1..(Len(text.lines) + 1)
          /\ \A i \in 1..Len(text.lines) : after.lines[i] = text.lines[i]
          /\ after.lines[Len(text.lines) + 1] = line
      BY <1>3, <2>2, SeqFacts, AppendFacts
    <3>2. \A i \in DOMAIN after.lines : i \in DOMAIN text.lines \/ i = Len(text.lines) + 1
      BY <3>1
    <3> QED
      BY <1>1, <1>2, <2>4, <3>1, <3>2 DEF Undeclared, n
  <2> QED
    BY <2>1, <2>5, <2>6 DEF Progress
<1>10. CASE pending = << <<PUB>>, n, <<END, NL>> >>
  <2>1. piece = <<PUB>> /\ Last(piece) # NL /\ pending' = << n, <<END, NL>> >>
    BY <1>1, <1>10, PieceFactsAt DEF piece
  <2>2. after.open = text.open \o <<PUB>>
    BY <1>5, <2>1
  <2>3. IsSeq(<<PUB>>) /\ Len(<<PUB>>) = 1 /\ <<PUB>>[1] = PUB
    BY OneLetter
  <2>4. /\ Len(after.open) = Len(text.open) + 1
        /\ after.open[Len(text.open) + 1] = PUB
    BY <1>3, <2>2, <2>3, ConcatFacts
  <2>5. after.open # << >> /\ Last(after.open) = PUB
    BY <1>3, <2>4, EmptyFacts DEF Last
  <2> QED
    BY <1>7, <2>1, <2>5 DEF Progress
<1>11. CASE /\ pending = << n, <<END, NL>> >>
            /\ text.open # << >> /\ Last(text.open) = PUB
  <2>1. piece = n /\ Last(piece) # NL /\ pending' = << <<END, NL>> >>
    BY <1>1, <1>11, PieceFactsAt DEF piece
  <2>2. after.open = text.open \o n /\ IsSeq(n)
    BY <1>1, <1>5, <2>1
  <2> DEFINE k == Len(text.open)
  <2>3. k \in 1..k /\ text.open[k] = PUB
    BY <1>3, <1>11, FrontFacts, SeqFacts DEF Last
  <2>4. /\ Len(after.open) = k + Len(n) /\ Len(n) \in Nat
        /\ \A i \in 1..k : after.open[i] = text.open[i]
    BY <1>3, <2>2, ConcatFacts, SeqFacts
  <2>5. k \in 1..Len(after.open) /\ after.open[k] = PUB
    BY <1>3, <2>3, <2>4
  <2>6. ASSUME k = 1
        PROVE  after.open = <<PUB>> \o n
    <3>1. IsSeq(<<PUB>>) /\ Len(<<PUB>>) = 1 /\ <<PUB>>[1] = PUB
      BY OneLetter
    <3>2. \A i \in 1..k : text.open[i] = <<PUB>>[i]
      BY <2>3, <2>6, <3>1
    <3>3. text.open = <<PUB>>
      BY <1>3, <2>6, <3>1, <3>2, SameSeq
    <3> QED
      BY <2>2, <3>3
  <2> QED
    BY <1>7, <2>1, <2>5, <2>6 DEF Progress
<1>12. CASE /\ pending = << <<END, NL>> >>
            /\ \E k \in 1..Len(text.open) :
                  text.open[k] = PUB /\ (k = 1 => text.open = <<PUB>> \o n)
  <2>1. Last(piece) = NL /\ Front(piece) = <<END>> /\ pending' = << >>
    BY <1>1, <1>12, PieceFactsAt DEF piece
  <2>2. after.lines = Append(text.lines, text.open \o <<END>>)
    BY <1>5, <2>1
  <2>3. PICK k \in 1..Len(text.open) :
            text.open[k] = PUB /\ (k = 1 => text.open = <<PUB>> \o n)
    BY <1>12
  <2>4. \A w \in PackageWords : text.open \o <<END>> = Declaration(w) => Declaration(w) = Declaration(n)
    BY <1>3, <2>3, NewLine
  <2>5. OnceIn(text.lines) => OnceIn(after.lines)
    BY <1>2, <1>3, <2>2, <2>4, OnceAppend DEF Undeclared
  <2> QED
    BY <2>1, <2>5
<1> QED
  BY <1>2, <1>8, <1>9, <1>10, <1>11, <1>12 DEF Progress

LEMMA RemoveDirOnce == OnceInv /\ RemoveDir => OnceInv'
<1> SUFFICES ASSUME OnceInv, RemoveDir
             PROVE  OnceInv'
  OBVIOUS
<1>1. PICK d : mods' = [e \in {e \in DOMAIN mods : ~ IsPrefix(d, e)} |-> mods[e]]
  BY DEF RemoveDir
<1>2. \A e \in DOMAIN mods' : e \in DOMAIN mods /\ mods'[e] = mods[e]
  BY <1>1
<1>3. stage' = "idle"
  BY DEF RemoveDir
<1> QED
  BY <1>2, <1>3 DEF OnceInv

LEMMA ElsewhereOnce ==
    ASSUME OnceInv, mods' = mods, stage' # "write"
    PROVE  OnceInv'
BY DEF OnceInv

LEMMA StepOnce == WorkInv /\ IInv /\ OnceInv /\ [Next]_vars => OnceInv'
<1> SUFFICES ASSUME WorkInv, IInv, OnceInv, [Next]_vars
             PROVE  OnceInv'
  OBVIOUS
<1>1. CASE Invoke
  BY <1>1, ElsewhereOnce DEF Invoke
<1>2. CASE AllDone \/ EmptyRead
  BY <1>2, ElsewhereOnce DEF AllDone, EmptyRead, End
<1>3. CASE print_proto
  BY <1>3, ElsewhereOnce DEF print_proto
<1>4. CASE NextConfig
  BY <1>4, ElsewhereOnce DEF NextConfig
<1>5. CASE NextDir
  BY <1>5, ElsewhereOnce DEF NextDir
<1>6. CASE Present
  BY <1>6, ElsewhereOnce DEF Present
<1>7. CASE ReadPanics
  BY <1>7, ElsewhereOnce DEF ReadPanics, End
<1>8. CASE AppendName
  BY <1>8, AppendNameOnce
<1>9. CASE CreateFile
  BY <1>9, CreateFileOnce
<1>10. CASE WritePiece
  BY <1>10, WritePieceOnce
<1>11. CASE EndEarly
  BY <1>11, ElsewhereOnce DEF EndEarly, End
<1>12. CASE RemoveDir
  BY <1>12, RemoveDirOnce
<1>13. CASE UNCHANGED vars
  BY <1>13 DEF vars, OnceInv, parent, name
<1> QED
  BY <1>1, <1>2, <1>3, <1>4, <1>5, <1>6, <1>7, <1>8, <1>9, <1>10, <1>11, <1>12, <1>13
  DEF Next

LEMMA InitOnce == Init => OnceInv
BY DEF Init, OnceInv

\* Whatever is asked for, in whatever order, and wherever an invocation ends, no generated mod.rs
\* ever declares a module twice: what is written behind the rest of an unfinished line declares
\* nothing, and is written again by the next one that looks (types.rs:892-911).
THEOREM LinesStayUnique == Spec => []DeclaredOnce
<1>1. Init => WorkInv /\ IInv /\ OnceInv
  BY InitWork, InitInv, InitOnce
<1>2. WorkInv /\ IInv /\ OnceInv /\ [Next]_vars => (WorkInv /\ IInv /\ OnceInv)'
  BY StepWork, StepInv, StepOnce
<1>3. OnceInv => DeclaredOnce
  BY DEF OnceInv, DeclaredOnce
<1> QED
  BY <1>1, <1>2, <1>3, PTL DEF Spec

-----------------------------------------------------------------------------
(* What a mod.rs that no invocation ended in looks like. *)

\* The header, and declarations.
Headed(text) ==
    /\ text.lines # << >> /\ text.lines[1] = <<MAGIC_HEADER>>
    /\ \A i \in DOMAIN text.lines :
          \/ text.lines[i] = <<MAGIC_HEADER>>
          \/ \E n \in PackageWords : text.lines[i] = Declaration(n)

Sound(text) == Headed(text) /\ text.open = << >>

\* While it is written.
Half(text, rest, n) ==
    \/ rest = << <<MAGIC_HEADER>>, <<NL>>, <<PUB>>, n, <<END, NL>> >> /\ text = Blank
    \/ /\ rest = << <<NL>>, <<PUB>>, n, <<END, NL>> >>
       /\ text.lines = << >> /\ text.open = <<MAGIC_HEADER>>
    \/ rest = << <<PUB>>, n, <<END, NL>> >> /\ Sound(text)
    \/ rest = << n, <<END, NL>> >> /\ Headed(text) /\ text.open = <<PUB>>
    \/ rest = << <<END, NL>> >> /\ Headed(text) /\ text.open = <<PUB>> \o n

Generates == DOMAIN mods \ (DOMAIN UserMods \cup torn)

SoundInv ==
    \A d \in Generates :
        IF stage = "write" /\ d = parent THEN Half(mods[d], pending, name) ELSE Sound(mods[d])

\* Nothing in it is cut off, and what is named is declared.
LEMMA SoundReads ==
    ASSUME NEW n, IsText(mods[parent]), Sound(mods[parent])
    PROVE  /\ ~ Foreign /\ ~ SomeCut
           /\ \A i \in DOMAIN Lines : Names(Lines[i], n) =>
                 i \in DOMAIN mods[parent].lines /\ mods[parent].lines[i] = Declaration(n)
<1>1. Lines = mods[parent].lines
  BY LinesFacts DEF Sound
<1>2. /\ Lines[1] = <<MAGIC_HEADER>>
      /\ \A i \in DOMAIN Lines : \/ Lines[i] = <<MAGIC_HEADER>>
                                 \/ \E w \in PackageWords : Lines[i] = Declaration(w)
  BY <1>1 DEF Sound, Headed
<1>3. DOMAIN <<MAGIC_HEADER>> = {1} /\ <<MAGIC_HEADER>>[1] = MAGIC_HEADER
  BY OneLetter
<1>4. ~ Foreign
  BY <1>2, <1>3 DEF Foreign
<1>5. ~ SomeCut
  BY <1>2, HeaderNames, DeclarationNames DEF SomeCut
<1>6. \A i \in DOMAIN Lines : Names(Lines[i], n) => Lines[i] = Declaration(n)
  BY <1>2, HeaderNames, DeclarationNames
<1> QED
  BY <1>1, <1>4, <1>5, <1>6

LEMMA InitSound == Init => SoundInv
BY DEF Init, SoundInv, Generates

LEMMA AppendNameSound == SoundInv /\ AppendName => SoundInv'
<1> SUFFICES ASSUME SoundInv, AppendName
             PROVE  SoundInv'
  OBVIOUS
<1>1. /\ UNCHANGED <<mods, torn>> /\ parent' = parent /\ name' = name
      /\ stage = "mod" /\ pending' = declaration(name)
  BY DEF AppendName, parent, name
<1>2. \A d \in Generates : Sound(mods[d])
  BY <1>1 DEF SoundInv
<1>3. \A d \in Generates : Half(mods[d], pending', name)
  BY <1>1, <1>2 DEF Half, declaration
<1> QED
  BY <1>1, <1>2, <1>3 DEF SoundInv, Generates

LEMMA CreateFileSound == SoundInv /\ CreateFile => SoundInv'
<1> SUFFICES ASSUME SoundInv, CreateFile
             PROVE  SoundInv'
  OBVIOUS
<1>1. /\ torn' = torn /\ parent' = parent /\ name' = name
      /\ stage = "mod" /\ stage' = "write" /\ pending' = header \o declaration(name)
      /\ DOMAIN mods' = DOMAIN mods \cup {parent} /\ mods'[parent] = Blank
      /\ \A d \in DOMAIN mods : d # parent => mods'[d] = mods[d]
  BY DEF CreateFile, parent, name
<1>2. pending' = << <<MAGIC_HEADER>>, <<NL>>, <<PUB>>, name, <<END, NL>> >>
  BY <1>1, TwoAndThree DEF header, declaration
<1>3. Half(mods'[parent], pending', name)
  BY <1>1, <1>2 DEF Half
<1> QED
  BY <1>1, <1>3 DEF SoundInv, Generates

\* Where writing has got to, piece by piece.
LEMMA HalfPut ==
    ASSUME NEW text, IsText(text), NEW n \in PackageWords, NEW rest \in Remaining(n),
           Half(text, rest, n)
    PROVE  /\ Tail(rest) # << >> => Half(Put(text, Head(rest)), Tail(rest), n)
           /\ Tail(rest) = << >> => /\ Sound(Put(text, Head(rest)))
                                    /\ Contains(Put(text, Head(rest)).lines, Declaration(n))
<1> DEFINE piece == Head(rest)
           after == Put(text, piece)
<1>1. IsSeq(piece) /\ piece # << >>
  BY PieceFactsAt
<1>2. IsSeq(text.lines) /\ IsSeq(text.open)
  BY TextFacts
<1>3. /\ Last(piece) # NL => after.lines = text.lines /\ after.open = text.open \o piece
      /\ Last(piece) = NL => after.lines = Append(text.lines, text.open \o Front(piece))
                             /\ after.open = << >>
  BY <1>1, PutFacts
<1>4. \A s : IsSeq(s) => << >> \o s = s /\ s \o << >> = s
  BY ConcatEmptySeq DEF IsSeq
<1>5. \A x : IsSeq(<<x>>)
  BY OneLetter
<1>6. CASE rest = << <<MAGIC_HEADER>>, <<NL>>, <<PUB>>, n, <<END, NL>> >> /\ text = Blank
  <2>1. /\ piece = <<MAGIC_HEADER>> /\ Last(piece) # NL
        /\ Tail(rest) = << <<NL>>, <<PUB>>, n, <<END, NL>> >>
    BY <1>6, PieceFactsAt
  <2> HIDE DEF piece, after
  <2>2. text.lines = << >> /\ text.open = << >>
    BY <1>6 DEF Blank
  <2>3. after.lines = << >> /\ after.open = <<MAGIC_HEADER>>
    BY <1>3, <1>4, <1>5, <2>1, <2>2
  <2>4. Half(after, Tail(rest), n) /\ Tail(rest) # << >>
    BY <2>1, <2>3 DEF Half
  <2> QED
    BY <2>4 DEF after, piece
<1>7. CASE /\ rest = << <<NL>>, <<PUB>>, n, <<END, NL>> >>
           /\ text.lines = << >> /\ text.open = <<MAGIC_HEADER>>
  <2>1. /\ Last(piece) = NL /\ Front(piece) = << >>
        /\ Tail(rest) = << <<PUB>>, n, <<END, NL>> >>
    BY <1>7, PieceFactsAt
  <2> HIDE DEF piece, after
  <2>2. after.lines = << <<MAGIC_HEADER>> >> /\ after.open = << >>
    <3>1. <<MAGIC_HEADER>> \o << >> = <<MAGIC_HEADER>>
      BY <1>4, <1>5
    <3>2. after.lines = Append(<< >>, <<MAGIC_HEADER>>)
      BY <1>3, <1>7, <2>1, <3>1
    <3> QED
      BY <1>3, <2>1, <3>2
  <2>3. DOMAIN after.lines = {1} /\ after.lines[1] = <<MAGIC_HEADER>> /\ after.lines # << >>
    BY <2>2, OneLetter
  <2>4. Headed(after)
    BY <2>3 DEF Headed
  <2>5. Sound(after)
    BY <2>2, <2>4 DEF Sound
  <2>6. Half(after, Tail(rest), n)
    BY <2>1, <2>5 DEF Half
  <2>7. Tail(rest) # << >>
    BY <2>1
  <2> QED
    BY <2>6, <2>7 DEF after, piece
<1>8. CASE rest = << <<PUB>>, n, <<END, NL>> >> /\ Sound(text)
  <2>1. piece = <<PUB>> /\ Last(piece) # NL /\ Tail(rest) = << n, <<END, NL>> >>
    BY <1>8, PieceFactsAt
  <2> HIDE DEF piece, after
  <2>2. after.lines = text.lines /\ after.open = <<PUB>>
    BY <1>3, <1>4, <1>5, <1>8, <2>1 DEF Sound
  <2>3. Half(after, Tail(rest), n) /\ Tail(rest) # << >>
    BY <1>8, <2>1, <2>2 DEF Half, Sound, Headed
  <2> QED
    BY <2>3 DEF after, piece
<1>9. CASE rest = << n, <<END, NL>> >> /\ Headed(text) /\ text.open = <<PUB>>
  <2>1. piece = n /\ Last(piece) # NL /\ Tail(rest) = << <<END, NL>> >>
    BY <1>9, PieceFactsAt
  <2> HIDE DEF piece, after
  <2>2. after.lines = text.lines /\ after.open = <<PUB>> \o n
    BY <1>3, <1>9, <2>1
  <2>3. Half(after, Tail(rest), n) /\ Tail(rest) # << >>
    BY <1>9, <2>1, <2>2 DEF Half, Headed
  <2> QED
    BY <2>3 DEF after, piece
<1>10. CASE rest = << <<END, NL>> >> /\ Headed(text) /\ text.open = <<PUB>> \o n
  <2>1. Last(piece) = NL /\ Front(piece) = <<END>> /\ Tail(rest) = << >>
    BY <1>10, PieceFactsAt
  <2> HIDE DEF piece, after
  <2>2. after.lines = Append(text.lines, Declaration(n)) /\ after.open = << >>
    BY <1>3, <1>10, <2>1 DEF Declaration
  <2>3. /\ Len(text.lines) \in Nat /\ DOMAIN text.lines = 1..Len(text.lines)
        /\ DOMAIN after.lines = 1..(Len(text.lines) + 1)
        /\ Len(after.lines) = Len(text.lines) + 1
        /\ \A i \in 1..Len(text.lines) : after.lines[i] = text.lines[i]
        /\ after.lines[Len(text.lines) + 1] = Declaration(n)
    BY <1>2, <2>2, SeqFacts, AppendFacts
  <2>4. \A i \in DOMAIN after.lines : i \in DOMAIN text.lines \/ i = Len(text.lines) + 1
    BY <2>3
  <2>5. 1 \in DOMAIN text.lines
    BY <1>2, <1>10, <2>3, FrontFacts DEF Headed
  <2>6. after.lines # << >> /\ after.lines[1] = <<MAGIC_HEADER>>
    BY <1>10, <2>3, <2>5, EmptyFacts DEF Headed
  <2>7. \A i \in DOMAIN after.lines : \/ after.lines[i] = <<MAGIC_HEADER>>
                                      \/ \E w \in PackageWords : after.lines[i] = Declaration(w)
    BY <1>10, <2>3, <2>4 DEF Headed
  <2>8. Len(text.lines) + 1 \in 1..Len(after.lines)
    BY <2>3
  <2>9. Sound(after) /\ Contains(after.lines, Declaration(n))
    BY <2>2, <2>3, <2>6, <2>7, <2>8 DEF Sound, Headed, Contains
  <2> QED
    BY <2>1, <2>9 DEF after, piece
<1> QED
  BY <1>6, <1>7, <1>8, <1>9, <1>10 DEF Half

LEMMA WritePieceSound == WorkInv /\ IInv /\ SoundInv /\ WritePiece => SoundInv'
<1> SUFFICES ASSUME WorkInv, IInv, SoundInv, WritePiece
             PROVE  SoundInv'
  OBVIOUS
<1>1. /\ stage = "write" /\ name \in PackageWords /\ pending \in Remaining(name)
      /\ parent \in DOMAIN mods /\ parent' = parent /\ name' = name
      /\ DOMAIN mods' = DOMAIN mods
      /\ mods'[parent] = Put(mods[parent], Head(pending))
      /\ \A d \in DOMAIN mods : d # parent => mods'[d] = mods[d]
      /\ pending' = Tail(pending)
  BY WritePieceIs
<1>2. torn' = torn /\ stage' = IF pending' = << >> THEN "dirs" ELSE "write"
  BY DEF WritePiece
<1>3. IsText(mods[parent])
  BY <1>1 DEF IInv
<1>4. ASSUME parent \in Generates
      PROVE  IF stage' = "write" THEN Half(mods'[parent], pending', name) ELSE Sound(mods'[parent])
  <2>1. Half(mods[parent], pending, name)
    BY <1>1, <1>4 DEF SoundInv
  <2> QED
    BY <1>1, <1>2, <1>3, <2>1, HalfPut
<1>5. \A d \in Generates : d # parent => Sound(mods'[d])
  BY <1>1 DEF SoundInv, Generates
<1> QED
  BY <1>1, <1>2, <1>4, <1>5 DEF SoundInv, Generates

LEMMA RemoveDirSound == SoundInv /\ RemoveDir => SoundInv'
<1> SUFFICES ASSUME SoundInv, RemoveDir
             PROVE  SoundInv'
  OBVIOUS
<1>1. PICK d : /\ mods' = [e \in {e \in DOMAIN mods : ~ IsPrefix(d, e)} |-> mods[e]]
               /\ torn' = {e \in torn : ~ IsPrefix(d, e)}
  BY DEF RemoveDir
<1>2. stage = "idle" /\ stage' = "idle"
  BY DEF RemoveDir
<1> QED
  BY <1>1, <1>2 DEF SoundInv, Generates

\* Steps that touch no mod.rs; what was being written is torn when the invocation ends.
LEMMA ElsewhereSound ==
    ASSUME SoundInv, mods' = mods, torn \subseteq torn', stage' # "write",
           stage = "write" => parent \in torn'
    PROVE  SoundInv'
BY DEF SoundInv, Generates

LEMMA StepSound == WorkInv /\ IInv /\ SoundInv /\ [Next]_vars => SoundInv'
<1> SUFFICES ASSUME WorkInv, IInv, SoundInv, [Next]_vars
             PROVE  SoundInv'
  OBVIOUS
<1>1. CASE Invoke
  <2>1. mods' = mods /\ torn' = torn /\ stage = "idle" /\ stage' # "write"
    BY <1>1 DEF Invoke
  <2> QED
    BY <2>1, ElsewhereSound
<1>2. CASE AllDone \/ EmptyRead
  BY <1>2, ElsewhereSound DEF AllDone, EmptyRead, End
<1>3. CASE print_proto
  BY <1>3, ElsewhereSound DEF print_proto
<1>4. CASE NextConfig
  BY <1>4, ElsewhereSound DEF NextConfig
<1>5. CASE NextDir
  BY <1>5, ElsewhereSound DEF NextDir
<1>6. CASE Present
  BY <1>6, ElsewhereSound DEF Present
<1>7. CASE ReadPanics
  BY <1>7, ElsewhereSound DEF ReadPanics, End
<1>8. CASE AppendName
  BY <1>8, AppendNameSound
<1>9. CASE CreateFile
  BY <1>9, CreateFileSound
<1>10. CASE WritePiece
  BY <1>10, WritePieceSound
<1>11. CASE EndEarly
  BY <1>11, ElsewhereSound DEF EndEarly, End
<1>12. CASE RemoveDir
  BY <1>12, RemoveDirSound
<1>13. CASE UNCHANGED vars
  BY <1>13 DEF vars, SoundInv, Generates, parent, name
<1> QED
  BY <1>1, <1>2, <1>3, <1>4, <1>5, <1>6, <1>7, <1>8, <1>9, <1>10, <1>11, <1>12, <1>13
  DEF Next

\* Reading a mod.rs panics only where an earlier invocation ended in it or where it is the
\* user's: any other is the header and declarations, line by line (types.rs:892-911).
THEOREM PanicsStayTorn == Spec => []PanicsOnlyTorn
<1>1. Init => WorkInv /\ IInv /\ SoundInv
  BY InitWork, InitInv, InitSound
<1>2. WorkInv /\ IInv /\ SoundInv /\ [Next]_vars => (WorkInv /\ IInv /\ SoundInv)'
  BY StepWork, StepInv, StepSound
<1>3. IInv /\ SoundInv => PanicsOnlyTorn
  <2> SUFFICES ASSUME IInv, SoundInv, stage = "mod", parent \in Generates
               PROVE  ~ SomeCut
    BY DEF PanicsOnlyTorn, Generates
  <2>1. IsText(mods[parent]) /\ Sound(mods[parent])
    BY DEF IInv, SoundInv, Generates
  <2> QED
    BY <2>1, SoundReads
<1> QED
  BY <1>1, <1>2, <1>3, PTL DEF Spec

-----------------------------------------------------------------------------
(* Every directory is declared. *)

LEMMA BeginningOfBeginning ==
    ASSUME NEW s, IsSeq(s), NEW n \in 0..Len(s), NEW m \in 0..n
    PROVE  SubSeq(SubSeq(s, 1, n), 1, m) = SubSeq(s, 1, m)
<1>1. Len(s) \in Nat
  BY SeqFacts
<1>2. m \in 0..Len(s) /\ \A i \in 1..m : i \in 1..n
  BY <1>1
<1> DEFINE t == SubSeq(s, 1, n)
           a == SubSeq(t, 1, m)
           b == SubSeq(s, 1, m)
<1>3. IsSeq(t) /\ Len(t) = n /\ \A i \in 1..n : t[i] = s[i]
  BY Beginning
<1>4. IsSeq(b) /\ Len(b) = m /\ \A i \in 1..m : b[i] = s[i]
  BY <1>2, Beginning
<1> HIDE DEF t, b
<1>5. IsSeq(a) /\ Len(a) = m /\ \A i \in 1..m : a[i] = t[i]
  BY <1>3, Beginning
<1> HIDE DEF a
<1>6. \A i \in 1..m : a[i] = b[i]
  BY <1>2, <1>3, <1>4, <1>5
<1>7. a = b
  BY <1>4, <1>5, <1>6, SameSeq
<1> QED
  BY <1>7 DEF a, b, t

LEMMA WholeBeginning ==
    ASSUME NEW s, IsSeq(s)
    PROVE  SubSeq(s, 1, Len(s)) = s
<1>1. Len(s) \in Nat /\ Len(s) \in 0..Len(s)
  BY SeqFacts
<1>2. /\ IsSeq(SubSeq(s, 1, Len(s)))
      /\ Len(SubSeq(s, 1, Len(s))) = Len(s)
      /\ \A i \in 1..Len(s) : SubSeq(s, 1, Len(s))[i] = s[i]
  BY <1>1, Beginning
<1> QED
  BY <1>2, SameSeq

\* What is below a directory goes with it.
LEMMA PrefixOfBeginning ==
    ASSUME NEW s, IsSeq(s), NEW n \in 0..Len(s), NEW d, IsSeq(d), IsPrefix(d, SubSeq(s, 1, n))
    PROVE  IsPrefix(d, s)
<1> DEFINE t == SubSeq(s, 1, n)
           m == Len(d)
<1>1. Len(s) \in Nat /\ m \in Nat
  BY SeqFacts
<1>2. Len(t) = n
  BY Beginning
<1>3. m <= Len(t) /\ SubSeq(d, 1, m) = SubSeq(t, 1, m)
  BY DEF IsPrefix
<1>4. m \in 0..n /\ m <= Len(s)
  BY <1>1, <1>2, <1>3
<1>5. SubSeq(t, 1, m) = SubSeq(s, 1, m)
  BY <1>4, BeginningOfBeginning
<1> QED
  BY <1>3, <1>4, <1>5 DEF IsPrefix

\* A prefix is a directory above.
LEMMA PrefixIsAbove ==
    ASSUME NEW s, IsSeq(s), NEW d, IsSeq(d), d # << >>, IsPrefix(d, s)
    PROVE  d \in Above(s)
<1>1. Len(s) \in Nat /\ Len(d) \in Nat
  BY SeqFacts
<1>2. Len(d) # 0
  BY FrontFacts, <1>1
<1>3. Len(d) <= Len(s) /\ SubSeq(d, 1, Len(d)) = SubSeq(s, 1, Len(d))
  BY DEF IsPrefix
<1>4. Len(d) \in 1..Len(s)
  BY <1>1, <1>2, <1>3
<1>5. SubSeq(d, 1, Len(d)) = d
  BY WholeBeginning
<1> QED
  BY <1>3, <1>4, <1>5 DEF Above

\* What is above a path.
LEMMA AboveFacts ==
    ASSUME NEW s, IsSeq(s), NEW d \in Above(s)
    PROVE  IsSeq(d) /\ d # << >> /\ Above(d) \subseteq Above(s)
<1>1. PICK n \in 1..Len(s) : d = SubSeq(s, 1, n)
  BY DEF Above
<1>2. Len(s) \in Nat
  BY SeqFacts
<1>3. n \in 0..Len(s) /\ n # 0
  BY <1>2
<1>4. IsSeq(d) /\ Len(d) = n
  BY <1>1, <1>3, Beginning
<1>5. d # << >>
  BY <1>3, <1>4
<1>6. ASSUME NEW e \in Above(d)
      PROVE  e \in Above(s)
  <2>1. PICK m \in 1..Len(d) : e = SubSeq(d, 1, m)
    BY DEF Above
  <2>2. m \in 0..n /\ m \in 1..Len(s)
    BY <1>2, <1>4
  <2>3. SubSeq(d, 1, m) = SubSeq(s, 1, m)
    BY <1>1, <1>3, <2>2, BeginningOfBeginning
  <2> QED
    BY <2>1, <2>2, <2>3 DEF Above
<1> QED
  BY <1>4, <1>5, <1>6

LEMMA AboveItself ==
    ASSUME NEW s, IsSeq(s), s # << >>
    PROVE  s \in Above(s)
<1>1. Len(s) \in Nat /\ Len(s) \in 1..Len(s)
  BY FrontFacts, SeqFacts
<1> QED
  BY <1>1, WholeBeginning DEF Above

LEMMA AboveAppended ==
    ASSUME NEW s, IsSeq(s), NEW x
    PROVE  /\ Above(Append(s, x)) = Above(s) \cup {Append(s, x)}
           /\ Append(s, x) # << >>
           /\ Front(Append(s, x)) = s
<1> DEFINE t == Append(s, x)
<1>1. Len(s) \in Nat
  BY SeqFacts
<1>2. IsSeq(t) /\ Len(t) = Len(s) + 1 /\ \A i \in 1..Len(s) : t[i] = s[i]
  BY AppendFacts
<1> HIDE DEF t
<1>3. t # << >>
  BY <1>1, <1>2
<1>4. Len(s) \in 0..Len(t) /\ Len(t) - 1 = Len(s) /\ 1..Len(t) = (1..Len(s)) \cup {Len(t)}
  BY <1>1, <1>2
<1>5. SubSeq(t, 1, Len(s)) = s
  <2>1. /\ IsSeq(SubSeq(t, 1, Len(s)))
        /\ Len(SubSeq(t, 1, Len(s))) = Len(s)
        /\ \A i \in 1..Len(s) : SubSeq(t, 1, Len(s))[i] = t[i]
    BY <1>2, <1>4, Beginning
  <2> QED
    BY <1>2, <2>1, SameSeq
<1>6. \A n \in 1..Len(s) : SubSeq(t, 1, n) = SubSeq(s, 1, n)
  <2> TAKE n \in 1..Len(s)
  <2>1. n \in 0..Len(s)
    BY <1>1
  <2>2. SubSeq(SubSeq(t, 1, Len(s)), 1, n) = SubSeq(t, 1, n)
    BY <1>2, <1>4, <2>1, BeginningOfBeginning
  <2> QED
    BY <1>5, <2>2
<1>7. SubSeq(t, 1, Len(t)) = t
  BY <1>2, WholeBeginning
<1>8. Above(t) = Above(s) \cup {t}
  <2>1. ASSUME NEW e
        PROVE  e \in Above(t) <=> e \in Above(s) \/ e = t
    BY <1>4, <1>6, <1>7 DEF Above
  <2> QED
    BY <2>1
<1>9. Front(t) = s
  BY <1>4, <1>5 DEF Front
<1> QED
  BY <1>3, <1>8, <1>9 DEF t

\* An output that is no directory of the user's is a file in one.
OutputsThere ==
    \A inv \in Invocations :
        inv.output # None => inv.output \in UserDirs \/ Front(inv.output) \in UserDirs \cup {<< >>}

\* What can be gone into without making anything.
There(path) == Above(path) \subseteq dirs

\* A directory is declared, is about to be, or cannot be.
Tells(d) ==
    \/ Front(d) \in DOMAIN UserMods \cup torn
    \/ Front(d) \in DOMAIN mods /\ Contains(mods[Front(d)].lines, Declaration(Last(d)))
    \/ stage \in {"mod", "write"} /\ d = at

\* The user's directories stay and directories are below others; what is made is
\* declared or about to be, whether or not the last invocation went through it.
DirsInv ==
    /\ UserDirs \subseteq dirs
    /\ \A d \in dirs : IsSeq(d) /\ d # << >> /\ There(d)
    /\ \A i \in DOMAIN configs : There(configs[i].out)
    /\ There(at)
    /\ stage = "idle" => at = << >> /\ configs = << >>
    /\ \A d \in dirs \ UserDirs : Tells(d)

LEMMA NothingAbove == Above(<< >>) = {}
BY DEF Above

LEMMA DirsInit == Init => DirsInv
<1> SUFFICES ASSUME Init
             PROVE  DirsInv
  OBVIOUS
<1>1. \A d \in UserDirs : IsSeq(d) /\ d # << >> /\ Above(d) \subseteq UserDirs
  BY DirAssumption DEF IsSeq
<1> QED
  BY <1>1, NothingAbove DEF Init, DirsInv, There

\* Steps that make no directory and write no file.
LEMMA QuietDirs ==
    ASSUME DirsInv, UNCHANGED <<dirs, mods, torn>>,
           stage \notin {"mod", "write"}, stage' \notin {"mod", "write"},
           \A i \in DOMAIN configs' : There(configs'[i].out), There(at'),
           stage' = "idle" => at' = << >> /\ configs' = << >>
    PROVE  DirsInv'
<1>1. \A d : Tells(d) => Tells(d)'
  BY DEF Tells
<1> QED
  BY <1>1 DEF DirsInv, There, Above

\* Where the outputs of an accepted invocation go.
LEMMA OutputsAre ==
    ASSUME DirsInv, OutputsThere, NEW inv \in Invocations, new(inv) = "ok",
           NEW i \in DOMAIN inv.in_files
    PROVE  There(out_dir(inv, inv.in_files[i]))
<1> DEFINE file == inv.in_files[i]
<1>1. file \in ToSet(inv.in_files)
  BY DEF ToSet
<1>2. \A d \in dirs \cup {<< >>} : There(d)
  BY NothingAbove DEF DirsInv, There
<1>3. file.exists
  BY DEF new
<1>4. CASE inv.output_dir # None
  <2>1. inv.output_dir \in dirs
    <3>1. CASE inv.output # None
      BY <1>4, <3>1 DEF new
    <3>2. CASE inv.output = None
      BY <1>4, <3>2 DEF new
    <3> QED
      BY <3>1, <3>2
  <2> QED
    BY <1>2, <1>4, <2>1 DEF out_dir
<1>5. CASE inv.output_dir = None /\ inv.output # None
  <2>1. inv.output \in UserDirs \/ Front(inv.output) \in UserDirs \cup {<< >>}
    BY <1>5 DEF OutputsThere
  <2>2. out_dir(inv, file) = IF inv.output \in dirs THEN inv.output ELSE Front(inv.output)
    BY <1>5 DEF out_dir
  <2>3. UserDirs \subseteq dirs
    BY DEF DirsInv
  <2> QED
    BY <1>2, <2>1, <2>2, <2>3
<1>6. CASE inv.output_dir = None /\ inv.output = None
  <2>1. Front(file.path) \in UserDirs \cup {<< >>}
    BY <1>1, <1>3, DirAssumption
  <2>2. out_dir(inv, file) = Front(file.path)
    BY <1>6 DEF out_dir
  <2>3. UserDirs \subseteq dirs
    BY DEF DirsInv
  <2> QED
    BY <1>2, <2>1, <2>2, <2>3
<1> QED
  BY <1>4, <1>5, <1>6

LEMMA InvokeDirs == OutputsThere /\ DirsInv /\ Invoke => DirsInv'
<1> SUFFICES ASSUME OutputsThere, DirsInv, Invoke
             PROVE  DirsInv'
  OBVIOUS
<1>1. UNCHANGED <<dirs, mods, torn, at>> /\ stage = "idle" /\ stage' \in {"idle", "config"}
  BY DEF Invoke
<1>2. There(at) /\ at = << >> /\ configs = << >>
  BY <1>1 DEF DirsInv
<1>3. PICK inv \in Invocations :
          IF new(inv) = "ok" THEN configs' = build(inv) /\ stage' = "config"
                             ELSE UNCHANGED <<configs, stage>>
  BY DEF Invoke
<1>4. CASE new(inv) = "ok"
  <2>1. \A i \in DOMAIN configs' : i \in DOMAIN inv.in_files
                                   /\ configs'[i].out = out_dir(inv, inv.in_files[i])
    BY <1>3, <1>4 DEF build
  <2>2. \A i \in DOMAIN configs' : There(configs'[i].out)
    BY <1>4, <2>1, OutputsAre
  <2> QED
    BY <1>1, <1>2, <1>3, <1>4, <2>2, QuietDirs
<1>5. CASE new(inv) # "ok"
  BY <1>1, <1>2, <1>3, <1>5, QuietDirs DEF DirsInv
<1> QED
  BY <1>4, <1>5

LEMMA EndDirs ==
    ASSUME DirsInv, stage = "config", NEW result, End(result), UNCHANGED <<dirs, mods, torn>>
    PROVE  DirsInv'
<1>1. at' = << >> /\ configs' = << >> /\ stage' = "idle" /\ DOMAIN configs' = {}
  BY DEF End
<1>2. There(at')
  BY <1>1, NothingAbove DEF There
<1> QED
  BY <1>1, <1>2, QuietDirs

LEMMA PrintDirs == WorkInv /\ DirsInv /\ print_proto => DirsInv'
<1> SUFFICES ASSUME WorkInv, DirsInv, print_proto
             PROVE  DirsInv'
  OBVIOUS
<1>1. IsSeq(configs) /\ configs # << >>
  BY DEF WorkInv, ConfigsOK, print_proto
<1>2. /\ 1 \in DOMAIN configs
      /\ Head(configs) = configs[1]
      /\ \A i \in DOMAIN Tail(configs) :
            i + 1 \in DOMAIN configs /\ Tail(configs)[i] = configs[i + 1]
  BY <1>1, TailFacts
<1>3. /\ UNCHANGED <<dirs, mods, torn>> /\ stage = "config" /\ stage' = "dirs"
      /\ at' = Head(configs).out /\ configs' = Tail(configs)
  BY DEF print_proto
<1>4. There(at')
  BY <1>2, <1>3 DEF DirsInv
<1>5. \A i \in DOMAIN configs' : There(configs'[i].out)
  BY <1>2, <1>3 DEF DirsInv
<1> QED
  BY <1>3, <1>4, <1>5, QuietDirs

LEMMA NextConfigDirs == DirsInv /\ NextConfig => DirsInv'
<1> SUFFICES ASSUME DirsInv, NextConfig
             PROVE  DirsInv'
  OBVIOUS
<1>1. UNCHANGED <<dirs, mods, torn, at, configs>> /\ stage = "dirs" /\ stage' = "config"
  BY DEF NextConfig
<1> QED
  BY <1>1, QuietDirs DEF DirsInv

\* The directory that is gone into is below directories, and is made if it is not one.
LEMMA NextDirDirs == WorkInv /\ DirsInv /\ NextDir => DirsInv'
<1> SUFFICES ASSUME WorkInv, DirsInv, NextDir
             PROVE  DirsInv'
  OBVIOUS
<1> DEFINE new_dir == Append(at, Head(todo))
<1>1. /\ at' = new_dir /\ dirs' = dirs \cup Above(new_dir)
      /\ UNCHANGED <<mods, configs, torn>>
      /\ stage = "dirs" /\ stage' = IF new_dir \in dirs THEN "dirs" ELSE "mod"
  BY DEF NextDir
<1>2. IsSeq(at)
  BY DEF WorkInv
<1>3. Above(new_dir) = Above(at) \cup {new_dir} /\ new_dir # << >>
  BY <1>2, AboveAppended
<1>4. IsSeq(new_dir)
  BY <1>2, AppendFacts
<1> HIDE DEF new_dir
<1>5. dirs' = dirs \cup {new_dir}
  BY <1>1, <1>3 DEF DirsInv, There
<1>6. \A d \in dirs' : IsSeq(d) /\ d # << >> /\ Above(d) \subseteq dirs'
  BY <1>1, <1>3, <1>4, <1>5 DEF DirsInv, There
<1>7. Above(at') \subseteq dirs' /\ \A i \in DOMAIN configs' : Above(configs'[i].out) \subseteq dirs'
  BY <1>1 DEF DirsInv, There
<1>8. ASSUME NEW d \in dirs' \ UserDirs
      PROVE  Tells(d)'
  <2>1. CASE d \in dirs
    BY <1>1, <2>1 DEF DirsInv, Tells
  <2>2. CASE d \notin dirs
    <3>1. d = new_dir /\ new_dir \notin dirs
      BY <1>5, <2>2
    <3> QED
      BY <1>1, <3>1 DEF Tells
  <2> QED
    BY <2>1, <2>2
<1>9. UserDirs \subseteq dirs' /\ stage' # "idle"
  BY <1>1 DEF DirsInv
<1> QED
  BY <1>6, <1>7, <1>8, <1>9 DEF DirsInv, There, Above

\* What a mod.rs declares.
Declares(d) == Front(d) \in DOMAIN mods /\ Contains(mods[Front(d)].lines, Declaration(Last(d)))

\* Steps of update_mod_file: the directories stay, and files only grow.
LEMMA ModStep ==
    ASSUME DirsInv, UNCHANGED <<dirs, torn, at, configs>>, stage' # "idle",
           \A d : Declares(d) => Declares(d)',
           at \in dirs \ UserDirs => Tells(at)'
    PROVE  DirsInv'
<1>1. ASSUME NEW d \in dirs \ UserDirs
      PROVE  Tells(d)'
  <2>1. Tells(d)
    BY DEF DirsInv
  <2>2. CASE Front(d) \in DOMAIN UserMods \cup torn
    BY <2>2 DEF Tells
  <2>3. CASE Declares(d)
    BY <2>3 DEF Tells, Declares
  <2>4. CASE d = at
    BY <2>4
  <2> QED
    BY <2>1, <2>2, <2>3, <2>4 DEF Tells, Declares
<1> QED
  BY <1>1 DEF DirsInv, There, Above

LEMMA PresentDirs == IInv /\ SoundInv /\ DirsInv /\ Present => DirsInv'
<1> SUFFICES ASSUME IInv, SoundInv, DirsInv, Present
             PROVE  DirsInv'
  OBVIOUS
<1>1. /\ UNCHANGED <<dirs, mods, torn, at, configs>> /\ stage = "mod" /\ stage' = "dirs"
      /\ parent \in DOMAIN mods /\ (Foreign \/ Listed)
  BY DEF Present
<1>2. \A d : Declares(d) => Declares(d)'
  BY <1>1 DEF Declares
<1>3. CASE parent \in DOMAIN UserMods \cup torn
  <2>1. Tells(at)'
    BY <1>1, <1>3 DEF Tells, parent
  <2> QED
    BY <1>1, <1>2, <2>1, ModStep
<1>4. CASE parent \notin DOMAIN UserMods \cup torn
  <2>1. IsText(mods[parent]) /\ Sound(mods[parent])
    BY <1>1, <1>4 DEF IInv, SoundInv, Generates
  <2>2. PICK i \in DOMAIN Lines : Names(Lines[i], name)
    BY <1>1, <2>1, SoundReads DEF Listed
  <2>3. i \in DOMAIN mods[parent].lines /\ mods[parent].lines[i] = Declaration(name)
    BY <2>1, <2>2, SoundReads
  <2>4. Contains(mods[parent].lines, Declaration(name))
    BY <2>1, <2>3, TextFacts, SeqFacts DEF Contains
  <2>5. Tells(at)'
    BY <1>1, <2>4 DEF Tells, parent, name
  <2> QED
    BY <1>1, <1>2, <2>5, ModStep
<1> QED
  BY <1>3, <1>4

LEMMA AppendNameDirs == DirsInv /\ AppendName => DirsInv'
<1> SUFFICES ASSUME DirsInv, AppendName
             PROVE  DirsInv'
  OBVIOUS
<1>1. UNCHANGED <<dirs, mods, torn, at, configs>> /\ stage' = "write"
  BY DEF AppendName
<1> QED
  BY <1>1, ModStep DEF Declares, Tells

LEMMA CreateFileDirs == DirsInv /\ CreateFile => DirsInv'
<1> SUFFICES ASSUME DirsInv, CreateFile
             PROVE  DirsInv'
  OBVIOUS
<1>1. /\ UNCHANGED <<dirs, torn, at, configs>> /\ stage' = "write"
      /\ parent \notin DOMAIN mods
      /\ DOMAIN mods' = DOMAIN mods \cup {parent}
      /\ \A d \in DOMAIN mods : mods'[d] = mods[d]
  BY DEF CreateFile
<1> QED
  BY <1>1, ModStep DEF Declares, Tells

LEMMA ContainsGrows ==
    ASSUME NEW s, NEW t, IsSeq(s), IsSeq(t), IsPrefix(s, t), NEW x, Contains(s, x)
    PROVE  Contains(t, x)
<1>1. Len(s) \in Nat /\ Len(t) \in Nat
  BY SeqFacts
<1>2. Len(s) <= Len(t) /\ \A i \in 1..Len(s) : s[i] = t[i]
  BY PrefixFacts
<1>3. PICK i \in 1..Len(s) : s[i] = x
  BY DEF Contains
<1>4. i \in 1..Len(t) /\ t[i] = x
  BY <1>1, <1>2, <1>3
<1> QED
  BY <1>4 DEF Contains

LEMMA WritePieceDirs == WorkInv /\ IInv /\ SoundInv /\ DirsInv /\ WritePiece => DirsInv'
<1> SUFFICES ASSUME WorkInv, IInv, SoundInv, DirsInv, WritePiece
             PROVE  DirsInv'
  OBVIOUS
<1> DEFINE text == mods[parent]
           after == Put(text, Head(pending))
<1>1. /\ stage = "write" /\ name \in PackageWords /\ pending \in Remaining(name)
      /\ parent \in DOMAIN mods /\ parent' = parent /\ name' = name
      /\ IsSeq(Head(pending)) /\ Head(pending) # << >>
      /\ DOMAIN mods' = DOMAIN mods /\ mods'[parent] = after
      /\ \A d \in DOMAIN mods : d # parent => mods'[d] = mods[d]
      /\ pending' = Tail(pending)
  BY WritePieceIs
<1>2. /\ UNCHANGED <<dirs, torn, at, configs>>
      /\ stage' = IF pending' = << >> THEN "dirs" ELSE "write"
  BY DEF WritePiece
<1>3. IsText(text) /\ IsText(after)
  BY <1>1, PutFacts DEF IInv
<1>4. IsPrefix(text.lines, after.lines)
  <2>1. IsSeq(text.lines) /\ IsPrefix(text.lines, text.lines) /\ Len(text.lines) \in Nat
    BY <1>3, TextFacts, SeqFacts, PrefixFacts
  <2>2. after.lines = text.lines \/ \E line : after.lines = Append(text.lines, line)
    BY <1>1, <1>3, PutFacts
  <2> QED
    BY <2>1, <2>2, PrefixGrows, EmptyFacts
<1>5. ASSUME NEW d, Declares(d)
      PROVE  Declares(d)'
  <2>1. CASE Front(d) = parent
    <3>1. Contains(after.lines, Declaration(Last(d)))
      BY <1>3, <1>4, <1>5, <2>1, ContainsGrows, TextFacts DEF Declares
    <3> HIDE DEF after
    <3> QED
      BY <1>1, <2>1, <3>1 DEF Declares
  <2>2. CASE Front(d) # parent
    BY <1>1, <1>5, <2>2 DEF Declares
  <2> QED
    BY <2>1, <2>2
<1>6. Tells(at)'
  <2>1. CASE pending' # << >>
    BY <1>2, <2>1 DEF Tells
  <2>2. CASE parent \in DOMAIN UserMods \cup torn
    BY <1>2, <2>2 DEF Tells, parent
  <2>3. CASE pending' = << >> /\ parent \notin DOMAIN UserMods \cup torn
    <3>1. Half(text, pending, name)
      BY <1>1, <2>3 DEF SoundInv, Generates
    <3>2. Contains(after.lines, Declaration(name))
      BY <1>1, <1>3, <2>3, <3>1, HalfPut
    <3> HIDE DEF after
    <3>3. Front(at') = parent /\ Last(at') = name
      BY <1>2 DEF parent, name
    <3> QED
      BY <1>1, <3>2, <3>3 DEF Tells
  <2> QED
    BY <2>1, <2>2, <2>3
<1>7. stage' # "idle"
  BY <1>2
<1> QED
  BY <1>2, <1>5, <1>6, <1>7, ModStep

\* What an invocation leaves undeclared is torn.
LEMMA TornDirs ==
    ASSUME DirsInv, NEW result, End(result), UNCHANGED <<dirs, mods>>, torn \subseteq torn',
           stage \in {"mod", "write"} => parent \in torn'
    PROVE  DirsInv'
<1>1. stage' = "idle" /\ at' = << >> /\ configs' = << >>
  BY DEF End
<1>2. \A d \in dirs \ UserDirs : Tells(d)'
  BY DEF DirsInv, Tells, parent
<1>3. There(at)' /\ DOMAIN configs' = {}
  BY <1>1, NothingAbove DEF There
<1> QED
  BY <1>1, <1>2, <1>3 DEF DirsInv, There, Above

LEMMA EndEarlyDirs == DirsInv /\ EndEarly => DirsInv'
BY TornDirs DEF EndEarly

LEMMA ReadPanicsDirs == DirsInv /\ ReadPanics => DirsInv'
BY TornDirs DEF ReadPanics

\* What is above what stays stays, and what is declared above what stays.
LEMMA RemoveDirDirs == DirsInv /\ RemoveDir => DirsInv'
<1> SUFFICES ASSUME DirsInv, RemoveDir
             PROVE  DirsInv'
  OBVIOUS
<1>1. PICK d \in dirs \ UserDirs :
          /\ dirs' = {e \in dirs : ~ IsPrefix(d, e)}
          /\ mods' = [e \in {e \in DOMAIN mods : ~ IsPrefix(d, e)} |-> mods[e]]
          /\ torn' = {e \in torn : ~ IsPrefix(d, e)}
  BY DEF RemoveDir
<1>2. UNCHANGED <<configs, at, stage>> /\ stage = "idle" /\ at = << >> /\ configs = << >>
  BY DEF RemoveDir, DirsInv
<1>3. IsSeq(d) /\ d # << >>
  BY DEF DirsInv
<1>4. UserDirs \subseteq dirs'
  <2> SUFFICES ASSUME NEW u \in UserDirs, IsPrefix(d, u)
               PROVE  FALSE
    BY <1>1 DEF DirsInv
  <2>1. IsSeq(u) /\ Above(u) \subseteq UserDirs
    BY DirAssumption DEF IsSeq
  <2> QED
    BY <1>3, <2>1, PrefixIsAbove
<1>5. ASSUME NEW e \in dirs'
      PROVE  /\ e \in dirs /\ ~ IsPrefix(d, e) /\ IsSeq(e) /\ e # << >>
             /\ Above(e) \subseteq dirs' /\ ~ IsPrefix(d, Front(e))
  <2>1. e \in dirs /\ ~ IsPrefix(d, e) /\ IsSeq(e) /\ e # << >> /\ Above(e) \subseteq dirs
    BY <1>1 DEF DirsInv, There
  <2>2. \A n \in 0..Len(e) : ~ IsPrefix(d, SubSeq(e, 1, n))
    BY <1>3, <2>1, PrefixOfBeginning
  <2>3. Len(e) \in Nat /\ Len(e) # 0
    BY <2>1, SeqFacts, FrontFacts
  <2>4. Above(e) \subseteq dirs'
    <3> SUFFICES ASSUME NEW n \in 1..Len(e)
                 PROVE  SubSeq(e, 1, n) \in dirs'
      BY DEF Above
    <3>1. SubSeq(e, 1, n) \in dirs
      BY <2>1 DEF Above
    <3>2. n \in 0..Len(e)
      BY <2>3
    <3> QED
      BY <1>1, <2>2, <3>1, <3>2
  <2>5. ~ IsPrefix(d, Front(e))
    BY <2>2, <2>3 DEF Front
  <2> QED
    BY <2>1, <2>4, <2>5
<1>6. ASSUME NEW e \in dirs' \ UserDirs
      PROVE  Tells(e)'
  <2>1. Tells(e)
    BY <1>5 DEF DirsInv
  <2> QED
    BY <1>1, <1>2, <1>5, <2>1 DEF Tells
<1>7. There(at)' /\ DOMAIN configs' = {}
  BY <1>2, NothingAbove DEF There
<1> QED
  BY <1>2, <1>4, <1>5, <1>6, <1>7 DEF DirsInv, There, Above

LEMMA StepDirs ==
    OutputsThere /\ WorkInv /\ IInv /\ SoundInv /\ DirsInv /\ [Next]_vars => DirsInv'
<1> SUFFICES ASSUME OutputsThere, WorkInv, IInv, SoundInv, DirsInv, [Next]_vars
             PROVE  DirsInv'
  OBVIOUS
<1>1. CASE Invoke
  BY <1>1, InvokeDirs
<1>2. CASE AllDone
  BY <1>2, EndDirs DEF AllDone
<1>3. CASE EmptyRead
  BY <1>3, EndDirs DEF EmptyRead
<1>4. CASE print_proto
  BY <1>4, PrintDirs
<1>5. CASE NextConfig
  BY <1>5, NextConfigDirs
<1>6. CASE NextDir
  BY <1>6, NextDirDirs
<1>7. CASE Present
  BY <1>7, PresentDirs
<1>8. CASE AppendName
  BY <1>8, AppendNameDirs
<1>9. CASE CreateFile
  BY <1>9, CreateFileDirs
<1>10. CASE ReadPanics
  BY <1>10, ReadPanicsDirs
<1>11. CASE WritePiece
  BY <1>11, WritePieceDirs
<1>12. CASE EndEarly
  BY <1>12, EndEarlyDirs
<1>13. CASE RemoveDir
  BY <1>13, RemoveDirDirs
<1>14. CASE UNCHANGED vars
  BY <1>14 DEF vars, DirsInv, There, Above, Tells
<1> QED
  BY <1>1, <1>2, <1>3, <1>4, <1>5, <1>6, <1>7, <1>8, <1>9, <1>10, <1>11, <1>12, <1>13, <1>14
  DEF Next

\* If outputs are where directories are, every directory that was made is declared in the mod.rs
\* beside it whenever no invocation runs, whatever earlier ones left behind and whatever was
\* removed since, unless that mod.rs is the user's or an invocation ended between making the
\* directory and declaring it (types.rs:476-490, 867-914).
THEOREM DirsDeclared == OutputsThere => (Spec => []Declared)
<1> SUFFICES ASSUME OutputsThere
             PROVE  Spec => []Declared
  OBVIOUS
<1>1. Init => WorkInv /\ IInv /\ SoundInv /\ DirsInv
  BY InitWork, InitInv, InitSound, DirsInit
<1>2. WorkInv /\ IInv /\ SoundInv /\ DirsInv /\ [Next]_vars
        => (WorkInv /\ IInv /\ SoundInv /\ DirsInv)'
  BY StepWork, StepInv, StepSound, StepDirs
<1>3. DirsInv => Declared
  BY DEF DirsInv, Tells, Declared
<1> QED
  BY <1>1, <1>2, <1>3, PTL DEF Spec
=============================================================================
