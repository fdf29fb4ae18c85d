------------------------------ MODULE MCSchema ------------------------------
(***************************************************************************)
(* File systems of one to four files: a root file, and files in a          *)
(* directory below it.  A word is a sequence of syllables.                 *)
(*                                                                         *)
(* Left out of Files, because the code does not do there what the          *)
(* properties ask for: files without a package imported by one that has    *)
(* one; a name that ends another; reserved numbers in nested messages or   *)
(* in all but the last statement; an edition that does not start its file, *)
(* and proto3 that does not if the root is another syntax; proto2 or an    *)
(* edition under a proto3 root; packed = false in proto3; lists of         *)
(* options.                                                                *)
(***************************************************************************)
EXTENDS SchemaGenerator

A == <<"a">>
B == <<"lib", "b">>
C == <<"lib", "c">>
D == <<"lib", "d">>

Paths == << [absolute |-> TRUE, path |-> <<"lib">>] >>

\* Words
M == <<"M">>
N == <<"N">>
R == <<"R">>
T == <<"T">>
U == <<"U">>
E == <<"E">>
P == <<"p">>
Q == <<"q">>

Here(n) == MessageOrEnum(FALSE, n)
Global(n) == MessageOrEnum(TRUE, n)

\* repeated `typ` f = 1 [packed = true];
Slot(typ) ==
    [number |-> 1, typ |-> typ, keyword |-> "repeated", oneof |-> FALSE, map |-> FALSE,
     options |-> << [key |-> "packed", value |-> "true"] >>]
Entry(typ) == [Slot(typ) EXCEPT !.map = TRUE, !.keyword = "none", !.options = << >>]

\* The syllables that name oneofs here, the way heck writes them.
MCUpperCamelCase(word) ==
    [i \in DOMAIN word |-> CASE word[i] = "u" -> "U" [] word[i] = "field" -> "Field" [] OTHER -> word[i]]

Part(kind, name, fields) ==
    [kind |-> kind, name |-> name, oneofs |-> << >>, fields |-> fields, reserved |-> << >>]

\* message `name` { repeated t1 = 1; enum T {} message U { repeated t2 = 1; } }
Msg(name, t1, t2) ==
    << Part("Message", <<name>>, <<Slot(t1)>>),
       Part("Enum", <<name, T>>, << >>),
       Part("Message", <<name, U>>, <<Slot(t2)>>) >>
Enm(name) == << Part("Enum", <<name>>, << >>) >>
One(name, typ) == << Part("Message", <<name>>, <<Slot(typ)>>) >>

\* A proto2 file.
File(package, imports, defs) ==
    [package |-> package, imports |-> imports, defs |-> defs, grammatical |-> TRUE,
     syntax |-> "Proto2", leading |-> FALSE]

\* No two items share a full name, and none is the end of another's.
NamesOf(fs_) ==
    UNION {UNION {{fs_[f].package \o fs_[f].defs[i][j].name : j \in DOMAIN fs_[f].defs[i]} :
        i \in DOMAIN fs_[f].defs} : f \in DOMAIN fs_}
ItemCount(fs_) ==
    Cardinality(UNION {UNION {{<<f, i, j>> : j \in DOMAIN fs_[f].defs[i]} :
        i \in DOMAIN fs_[f].defs} : f \in DOMAIN fs_})
Clear(fs_) ==
    /\ Cardinality(NamesOf(fs_)) = ItemCount(fs_)
    /\ \A m, n \in NamesOf(fs_) : m # n => ~ IsSuffix(m, n)

Nested == Here(<<T>>)
Types == {Here(<<M>>), Here(<<Q, M>>), Global(<<P, M>>), Here(<<M, T>>)}

\* a imports b and c, in either order or one of them; b may import c.
Merging ==
    {fs_ \in
        {(A :> File(pa, ia, <<Msg(R, ta, Nested)>>)) @@
         (B :> File(pb, ib, <<Enm(E), Msg(nb, tb, Here(<<E>>))>>)) @@
         (C :> File(pc, << >>, <<Msg(M, Here(<<U>>), tc), Enm(E)>>)) :
            pa \in {<< >>, <<P>>}, pb \in {<<P>>, <<P, Q>>},
            pc \in {<<P>>, <<Q>>, <<R, P>>},
            ia \in {<< <<"b">> >>, << <<"lib", "b">>, <<"lib", "c">> >>, << <<"c">>, <<"b">> >>},
            ib \in {<< >>, << <<"c">> >>},
            nb \in {M, N}, ta \in Types, tb \in Types,
            tc \in {Nested, Here(<<M>>)}} :
        Clear(fs_)}

Plain(package, imports, typ) == File(package, imports, <<Msg(M, typ, Nested)>>)

\* Every shape of imports between four files: diamonds, and files that import each other.
Shapes ==
    {(A :> File(<< >>, ia, <<Msg(R, Here(<<P, M>>), Nested)>>)) @@
     (B :> Plain(<<P>>, ib, Here(<<M>>))) @@
     (C :> Plain(<<Q>>, ic, Here(<<M, T>>))) @@
     (D :> Plain(<<E>>, id, Nested)) :
        ia \in {<< <<"b">>, <<"c">> >>, << <<"b">>, <<"d">> >>},
        ib \in {<< >>, << <<"d">> >>, << <<"c">>, <<"d">> >>},
        ic \in {<< >>, << <<"d">> >>, << <<"b">> >>},
        id \in {<< >>, << <<"d">> >>, << <<"x">> >>}}

\* A field that is in order, reserved, of an unknown type, or with a default; the same at the top
\* of a message and nested in it, where nobody checks for the second and the fourth.
Option(key, value) == [key |-> key, value |-> value]
Fields == {Slot(Nested), Slot(Here(<<N>>)), [Slot(Number) EXCEPT !.number = 2],
           [Slot(Number) EXCEPT !.options = << Option("default", "3") >>]}
Guarded(name, field) == [Part("Message", name, <<field>>) EXCEPT !.reserved = << {3}, {2, 3} >>]
Faulty ==
    {(A :> File(<<Q>>, << <<"b">> >>, << << Guarded(<<R>>, fa), Part("Enum", <<R, T>>, << >>) >> >>)) @@
     (B :> File(<<P>>, << >>, << << Guarded(<<M>>, fb), Part("Enum", <<M, T>>, << >>),
                                   Guarded(<<M, U>>, fc) >> >>)) :
        fa \in Fields, fb \in Fields, fc \in Fields}

\* Text that is no file of the grammar, imported or at the root.
Garbage == [File(<< >>, << >>, << >>) EXCEPT !.grammatical = FALSE]
Broken == {A :> Garbage} \cup
          {(A :> File(<< >>, << <<"b">>, <<"x">> >>, << >>)) @@ (B :> g) :
              g \in {Garbage, File(<<P>>, << <<"a">> >>, <<Enm(E)>>)}}

\* A root that is generated, one import, and one more behind it: fields of every type, maps too,
\* declared before or after, nested or not, imported or not.
Generated ==
    {(A :> File(<<P>>, << <<"b">> >>, da)) @@
     (B :> File(<<pb>>, << <<"c">> >>, <<Msg(<<"B">>, tb, Nested), Enm(E)>>)) @@
     (C :> File(<<Q>>, << >>, << << Part("Message", <<<<"C">>>>, <<m>>),
                                    Part("Enum", <<<<"C">>, T>>, << >>),
                                    Part("Message", <<<<"C">>, U>>, <<Slot(Nested)>>) >> >>)) :
        da \in {<<Msg(M, t, Nested)>> : t \in {Here(<<U>>), Nested, Here(<<Q, <<"C">>, T>>)}}
               \cup {<< >>},
        pb \in {P, Q},
        tb \in {Nested, Here(<<E>>), Here(<<Q, <<"C">>>>), Here(<<Q, <<"C">>, U>>)},
        m \in {Slot(t) : t \in {Text, Here(<<U>>)}} \cup
              {Entry(t) : t \in {Number, Nested, Here(<<<<"C">>, U>>)}}}

\* Items whose words run together the same, of one message or two, one file or two, and such that
\* do not.  A oneof has a member.
Member == [Slot(Number) EXCEPT !.oneof = TRUE, !.keyword = "none", !.options = << >>]
Choosing(name, oneofs, nested) ==
    << [Part("Message", <<name>>, [i \in DOMAIN oneofs |-> [Member EXCEPT !.number = i]])
            EXCEPT !.oneofs = oneofs],
       Part(nested.kind, <<name, nested.name>>, << >>) >>
Colliding ==
    {(A :> File(<<P>>, << <<"b">>, <<"c">> >>, <<Choosing(M, oneofs, nested), Enm(nd)>>)) @@
     (B :> File(<<Q>>, ib, <<Choosing(nb, << <<"u">> >>, [kind |-> "Enum", name |-> T])>>)) @@
     (C :> File(<<R>>, << >>, <<Enm(E)>>)) :
        oneofs \in {<< >>, << <<"u">> >>, << <<"u">>, <<"U">> >>, << <<"field">> >>,
                     << <<"u">>, <<"field">> >>},
        nested \in [kind : {"Message", "Enum"}, name : {U, T, <<"Field">>}],
        nd \in {N, U, M \o U, M \o T},
        nb \in {M, N, M \o U, M \o <<"Field">>},
        ib \in {<< >>, << <<"c">> >>}}

\* Every field the grammar has, with up to one option.
Presences == {Option("features.field_presence", v) : v \in {"IMPLICIT", "EXPLICIT", "LEGACY_REQUIRED"}}
Encodings == {Option("features.repeated_field_encoding", v) : v \in {"PACKED", "EXPANDED"}}
OptionsFor(syntax, keyword) ==
    {Option("deprecated", "true"), Option("json_name", "n")} \cup
    (CASE syntax = "Edition" -> IF keyword = "repeated" THEN Encodings ELSE Presences
       [] syntax # "Edition" /\ keyword = "repeated" ->
            {Option("packed", "true")} \cup
            (IF syntax = "Proto2" THEN {Option("packed", "false")} ELSE {})
       [] OTHER -> {})

Declared(syntax) ==
    {d \in [number : {1}, typ : {Number, Text, Nested, Here(<<U>>)}, keyword : Keywords,
            oneof : BOOLEAN, map : BOOLEAN,
            options : {<< >>} \cup UNION {{<<o>> : o \in OptionsFor(syntax, k)} : k \in Keywords}] :
        /\ d.options # << >> => d.options[1] \in OptionsFor(syntax, d.keyword)
        /\ d.keyword = "none" => syntax # "Proto2" \/ d.map \/ d.oneof
        /\ d.map \/ d.oneof => d.keyword = "none" /\ d.options = << >>
        /\ ~ (d.map /\ d.oneof)}

Holder(name, decl) ==
    << [Part("Message", <<name>>, <<decl>>)
            EXCEPT !.oneofs = IF decl.oneof THEN << <<"u">> >> ELSE << >>],
       Part("Enum", <<name, T>>, << >>), Part("Message", <<name, U>>, <<Slot(Number)>>) >>

\* The syntax of the root and whether it starts the file, the same of the import.
Pairs ==
    {p \in Syntaxes \X BOOLEAN \X Syntaxes \X BOOLEAN :
        /\ p[2] => p[1] # "Edition"
        /\ p[4] => p[3] # "Edition" /\ (p[3] = "Proto3" => p[1] = "Proto3")
        /\ p[1] = "Proto3" => p[3] = "Proto3"}

\* A keyword of another syntax is refused unless something hides which syntax it is.
Shown(syntax, leading, decl) == leading => Fits(syntax, decl)

Labelled ==
    UNION {{(A :> [File(<<P>>, << <<"b">> >>, <<Holder(R, Slot(Number))>>)
                      EXCEPT !.syntax = p[1], !.leading = p[2]]) @@
            (B :> [File(<<Q>>, << >>, <<Holder(M, d)>>) EXCEPT !.syntax = p[3], !.leading = p[4]]) :
                d \in {d \in Declared(p[3]) : Shown(p[3], p[4], d)}} : p \in Pairs}
    \cup {A :> File(<<P>>, << >>, <<Holder(R, [Slot(Number) EXCEPT !.options = << o >>])>>) :
              o \in {Option("packed", "yes"), Option("deprecated", "1")}}

Files ==
    Merging \cup Shapes \cup Faulty \cup Broken \cup Generated \cup Colliding \cup Labelled

\* A file without a package, imported by a file with one: in a diamond, and beside a message of
\* the same name.
Packageless ==
    {(A :> File(<<Q>>, << <<"b">>, <<"c">> >>, <<One(R, Here(<<M>>))>>)) @@
     (B :> File(<<P>>, << <<"c">> >>, <<One(n, Here(<<M>>))>>)) @@
     (C :> File(<< >>, << >>, <<One(M, Number)>>)) : n \in {M, N}}
=============================================================================
