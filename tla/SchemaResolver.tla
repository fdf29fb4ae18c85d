--------------------------- MODULE SchemaResolver ---------------------------
(***************************************************************************)
(* How a .proto file and its imports become one descriptor:                *)
(* FileDescriptor::read_proto of pbrs/src/types.rs.                        *)
(*                                                                         *)
(* read_proto calls itself for each import; `stack` holds the running      *)
(* calls.  A call takes in the definitions of its imports, then replaces   *)
(* the names of the types of all fields by indices into its own list.  An  *)
(* index means nothing in another list, so the caller turns indices back   *)
(* into names before it takes the definitions over, and looks the names up *)
(* again in the end.                                                       *)
(*                                                                         *)
(* A name is the sequence of its words.  A top-level message or enum is    *)
(* one definition: the list of its parts, itself first and then what is    *)
(* nested in it, in the order the code walks them, each with the path of   *)
(* names from the top.  Packages of nested items always are the package    *)
(* and the path of the item around them (set_package), so only the         *)
(* top-level one is kept.                                                  *)
(***************************************************************************)
EXTENDS Integers, FiniteSets, SequencesExt, SchemaLabels

CONSTANTS
    Schemas,     \* the file systems: functions from paths to the text of files
    Root,        \* the path read_proto is called with
    Includes,    \* the include paths the caller names
    MaxDepth     \* calls of read_proto the thread's stack has room for

VARIABLES
    fs,       \* the files; never changes
    stack,    \* the running calls of read_proto, innermost last
    incoming, \* definitions of an import the innermost call has yet to merge
    desc,     \* the descriptor of the call that returned last, until merged
    outcome   \* "running", "ok", the error, "panic", or "overflow" of the stack

vars == <<fs, stack, incoming, desc, outcome>>

IsSequence(s) == s \in Seq(ToSet(s))

\* What can be written: packages and names are sequences of words, a definition has itself as its
\* first part, and a type is no index.  "Protobuf guarantees those are unique" (types.rs:655): no
\* file defines two items of one kind and name.
Written(file) ==
    /\ IsSequence(file.package) /\ IsSequence(file.imports) /\ IsSequence(file.defs)
    /\ \A i \in DOMAIN file.defs :
        /\ IsSequence(file.defs[i]) /\ file.defs[i] # << >>
        /\ \A j \in DOMAIN file.defs[i] :
            /\ IsSequence(file.defs[i][j].name) /\ file.defs[i][j].kind \in {"Message", "Enum"}
            /\ IsSequence(file.defs[i][j].oneofs)
            /\ \A k \in DOMAIN file.defs[i][j].fields :
                LET typ == file.defs[i][j].fields[k].typ
                IN  ~ IsIndexed(typ) /\ (IsNamed(typ) => IsSequence(typ.name))
    /\ \A i, j \in DOMAIN file.defs :
        /\ file.defs[i][1].kind = file.defs[j][1].kind
        /\ file.defs[i][1].name = file.defs[j][1].name
        => i = j

ASSUME ResolverAssumption ==
    /\ MaxDepth \in Nat \ {0}
    /\ IsSequence(Includes)
    /\ \A files \in Schemas :
        /\ Root \in DOMAIN files
        /\ \A f \in DOMAIN files : f # << >> /\ Written(files[f])

(***************************************************************************)
(* Definitions and their full names                                        *)
(***************************************************************************)
\* Of several `reserved` statements of a message the parser keeps the last.  Of a oneof there are
\* the name and, among the fields of the message, the members.
message(file, part) ==
    [kind |-> part.kind, name |-> part.name, oneofs |-> part.oneofs,
     reserved |-> IF part.reserved = << >> THEN {} ELSE Last(part.reserved),
     fields |-> [k \in DOMAIN part.fields |-> Field(file, part.fields[k])]]

\* The definitions of file f itself, in its own package.
OwnDefs(f) ==
    [i \in DOMAIN fs[f].defs |->
        [package |-> fs[f].package, path |-> <<f, i>>, imported |-> FALSE,
         parts |-> [j \in DOMAIN fs[f].defs[i] |-> message(fs[f], fs[f].defs[i][j])]]]

\* Mutant: packages are forgotten.
M_Key(d) == <<d.parts[1].kind, d.parts[1].name>>

\* What a definition is merged by.
Key(d) == <<d.parts[1].kind, d.package, d.parts[1].name>>

FullName(d, j) == d.package \o d.parts[j].name

Places(defs) == UNION {{<<i, j>> : j \in DOMAIN defs[i].parts} : i \in DOMAIN defs}

\* get_full_names enters messages one by one, with all that is nested in them, and then the enums
\* that are not.
IsTopEnum(defs, x) == defs[x[1]].parts[1].kind = "Enum"

Precedes(defs, x, y) ==
    \/ ~ IsTopEnum(defs, x) /\ IsTopEnum(defs, y)
    \/ /\ IsTopEnum(defs, x) <=> IsTopEnum(defs, y)
       /\ x[1] < y[1] \/ (x[1] = y[1] /\ x[2] <= y[2])

\* Of several items of a name the first that is entered stays.
First(defs, places) == CHOOSE x \in places : \A y \in places : Precedes(defs, x, y)

Named(defs, kind, name) ==
    {x \in Places(defs) : /\ defs[x[1]].parts[x[2]].kind = kind
                          /\ FullName(defs[x[1]], x[2]) = name}

(***************************************************************************)
(* resolve_types                                                           *)
(***************************************************************************)
\* Mutant: outermost first.
M_test_names(scope, typ) ==
    IF typ.abs THEN <<typ.name>>
    ELSE [k \in 1 .. Len(scope) + 1 |-> SubSeq(scope, 1, k - 1) \o typ.name]

\* The full names a name may stand for in the message `scope`, innermost first.
test_names(scope, typ) ==
    IF typ.abs THEN <<typ.name>>
    ELSE [k \in 1 .. Len(scope) + 1 |-> SubSeq(scope, 1, Len(scope) + 1 - k) \o typ.name]

IsDefined(defs, name) == Named(defs, "Message", name) \cup Named(defs, "Enum", name) # {}

LookUp(defs, name) ==
    IF Named(defs, "Message", name) # {}
    THEN Index("Message", First(defs, Named(defs, "Message", name)))
    ELSE Index("Enum", First(defs, Named(defs, "Enum", name)))

\* The first of them that names anything is taken.
IsHit(defs, names, k) ==
    IsDefined(defs, names[k]) /\ \A h \in 1 .. k - 1 : ~ IsDefined(defs, names[h])

Hit(defs, names) == names[CHOOSE k \in DOMAIN names : IsHit(defs, names, k)]

Resolve(defs, scope, typ) ==
    IF IsNamed(typ) THEN LookUp(defs, Hit(defs, test_names(scope, typ))) ELSE typ

\* Only numbers and enums stay packed.
Downgraded(frequency, f) == IF frequency = "Packed" /\ ~ is_primitive(f) THEN "Repeated" ELSE frequency

WithType(f, typ) ==
    [number |-> f.number, typ |-> typ, map |-> f.map, default |-> f.default,
     frequency |-> f.frequency]

resolve_field(defs, scope, f) ==
    LET typed == WithType(f, Resolve(defs, scope, f.typ))
    IN  [typed EXCEPT !.frequency = Downgraded(@, typed)]

\* The definition with other fields: fields[j] of its j-th part.
WithFields(d, fields) ==
    [package |-> d.package, path |-> d.path, imported |-> d.imported,
     parts |-> [j \in DOMAIN d.parts |->
                   [kind |-> d.parts[j].kind, name |-> d.parts[j].name,
                    oneofs |-> d.parts[j].oneofs, reserved |-> d.parts[j].reserved, fields |-> fields[j]]]]

Resolved(defs) ==
    [i \in DOMAIN defs |-> WithFields(defs[i], [j \in DOMAIN defs[i].parts |->
        [k \in DOMAIN defs[i].parts[j].fields |->
            resolve_field(defs, FullName(defs[i], j), defs[i].parts[j].fields[k])]])]

Unresolvable(defs) ==
    \E x \in Places(defs) :
        \E k \in DOMAIN defs[x[1]].parts[x[2]].fields :
            LET typ == defs[x[1]].parts[x[2]].fields[k].typ
                names == test_names(FullName(defs[x[1]], x[2]), typ)
            IN  IsNamed(typ) /\ \A h \in DOMAIN names : ~ IsDefined(defs, names[h])

(***************************************************************************)
(* unresolve_types and the packages of an import                           *)
(***************************************************************************)
\* Mutant: names are relative to their package.
M_AsName(defs, typ) ==
    IF IsIndexed(typ) THEN MessageOrEnum(FALSE, defs[typ.at[1]].parts[typ.at[2]].name) ELSE typ

AsName(defs, typ) ==
    IF IsIndexed(typ) THEN MessageOrEnum(FALSE, FullName(defs[typ.at[1]], typ.at[2])) ELSE typ

\* Mutant: nested messages are left out.
M_Unresolved(defs) ==
    [i \in DOMAIN defs |-> WithFields(defs[i], [j \in DOMAIN defs[i].parts |->
        [k \in DOMAIN defs[i].parts[j].fields |->
            WithType(defs[i].parts[j].fields[k],
                IF j = 1 THEN AsName(defs, defs[i].parts[j].fields[k].typ)
                ELSE defs[i].parts[j].fields[k].typ)]])]

Unresolved(defs) ==
    [i \in DOMAIN defs |-> WithFields(defs[i], [j \in DOMAIN defs[i].parts |->
        [k \in DOMAIN defs[i].parts[j].fields |->
            WithType(defs[i].parts[j].fields[k], AsName(defs, defs[i].parts[j].fields[k].typ))]])]

\* A definition without a package takes the importer's view of its file's.
Adopted(d, package) ==
    [package |-> IF d.package = << >> THEN package ELSE d.package, path |-> d.path,
     imported |-> TRUE, parts |-> d.parts]

(***************************************************************************)
(* sanity_checks: only the fields of top-level messages are looked at.     *)
(* Names are reserved the way numbers are.                                 *)
(***************************************************************************)
Conflicts(part, field) == field.number \in part.reserved

Insane(defs) ==
    {x \in UNION {{<<i, k>> : k \in DOMAIN defs[i].parts[1].fields} : i \in DOMAIN defs} :
        LET part == defs[x[1]].parts[1]
        IN  Conflicts(part, part.fields[x[2]]) \/ part.fields[x[2]].default}

SanityError(defs) ==
    LET x == First(defs, Insane(defs))
        part == defs[x[1]].parts[1]
    IN  IF Conflicts(part, part.fields[x[2]]) THEN "InvalidMessage" ELSE "InvalidDefaultEnum"

(***************************************************************************)
(* Imports on disk                                                         *)
(***************************************************************************)
\* "."
Beside == [absolute |-> FALSE, path |-> << >>]

import_search_path ==
    IF \E i \in DOMAIN Includes : Includes[i] = Beside THEN Includes ELSE Append(Includes, Beside)

\* Where an include path has an import: a relative one starts at the file.
Candidate(file, include, import) ==
    IF include.absolute THEN include.path \o import
    ELSE Front(file) \o include.path \o import

Exists(file, i, import) == Candidate(file, import_search_path[i], import) \in DOMAIN fs

Found(file, import) == \E i \in DOMAIN import_search_path : Exists(file, i, import)

\* The first include path that has the import decides.
IsMatch(file, i, import) ==
    Exists(file, i, import) /\ \A h \in 1 .. i - 1 : ~ Exists(file, h, import)

(***************************************************************************)
(* read_proto and fetch_imports                                            *)
(***************************************************************************)
NoDesc == [defs |-> << >>, file |-> << >>]

Frame(file, defs, next) == [file |-> file, defs |-> defs, next |-> next]
Call(f) == Frame(f, OwnDefs(f), 1)

Top == stack[Len(stack)]
Running == outcome = "running"

\* The fields of a file as written.
Decls(f) == UNION {UNION {ToSet(part.fields) : part \in ToSet(d)} : d \in ToSet(fs[f].defs)}

InTheGrammar(f) == fs[f].grammatical /\ \A decl \in Decls(f) : InGrammar(fs[f], decl)
Crashes(f) == \E decl \in Decls(f) : Panics(fs[f], decl)
Parses(f) == InTheGrammar(f) /\ ~ Crashes(f)

\* The innermost call has nothing of an earlier import left to merge.
Between == Running /\ incoming = << >> /\ desc = NoDesc /\ Parses(Top.file)

Import == fs[Top.file].imports[Top.next]
MoreImports == Top.next <= Len(fs[Top.file].imports)

Init ==
    /\ fs \in Schemas
    /\ stack = <<Call(Root)>>
    /\ incoming = << >>
    /\ desc = NoDesc
    /\ outcome = "running"

\* Mutant: the loop does not get on to the next import.
M_OpenImport ==
    /\ Between /\ MoreImports
    /\ Len(stack) < MaxDepth
    /\ \E i \in DOMAIN import_search_path :
        /\ IsMatch(Top.file, i, Import)
        /\ stack' = Append(stack, Call(Candidate(Top.file, import_search_path[i], Import)))
    /\ UNCHANGED <<fs, incoming, desc, outcome>>

\* The next import is found and read.
OpenImport ==
    /\ Between /\ MoreImports
    /\ Len(stack) < MaxDepth
    /\ \E i \in DOMAIN import_search_path :
        /\ IsMatch(Top.file, i, Import)
        /\ stack' = Append([stack EXCEPT ![Len(stack)] = Frame(@.file, @.defs, @.next + 1)],
                           Call(Candidate(Top.file, import_search_path[i], Import)))
    /\ UNCHANGED <<fs, incoming, desc, outcome>>

\* An error is passed on by every running call.
Fail(error) ==
    /\ outcome' = error
    /\ UNCHANGED <<fs, stack, incoming, desc>>

Opened == Running /\ incoming = << >> /\ desc = NoDesc

\* What was opened is no .proto file as far as the grammar goes.
Unreadable == Opened /\ ~ InTheGrammar(Top.file) /\ Fail("TrailingGarbage")

\* Of a file that has both, the text in front decides.
ParsePanics == Opened /\ Crashes(Top.file) /\ Fail("panic")

StackOverflow ==
    /\ Between /\ MoreImports /\ Found(Top.file, Import)
    /\ Len(stack) = MaxDepth
    /\ Fail("overflow")

ImportMissing == Between /\ MoreImports /\ ~ Found(Top.file, Import) /\ Fail("InvalidImport")

NameMissing ==
    Between /\ ~ MoreImports /\ Unresolvable(Top.defs) /\ Fail("MessageOrEnumNotFound")

Refuse ==
    /\ Between /\ ~ MoreImports /\ ~ Unresolvable(Top.defs) /\ Insane(Top.defs) # {}
    /\ Fail(SanityError(Top.defs))

\* Types are resolved and checked; the descriptor goes to the caller.
Return ==
    /\ Between /\ ~ MoreImports /\ ~ Unresolvable(Top.defs) /\ Insane(Top.defs) = {}
    /\ desc' = [defs |-> Resolved(Top.defs), file |-> Top.file]
    /\ stack' = Front(stack)
    /\ outcome' = IF Len(stack) = 1 THEN "ok" ELSE outcome
    /\ UNCHANGED <<fs, incoming>>

\* The caller prepares the definitions of the import for its own list.
Receive ==
    /\ Running /\ desc # NoDesc
    /\ incoming' = [i \in DOMAIN desc.defs |->
                       Adopted(Unresolved(desc.defs)[i], fs[desc.file].package)]
    /\ desc' = NoDesc
    /\ UNCHANGED <<fs, stack, outcome>>

\* Mutant: everything is pushed.
M_IsMerged(d, defs) == FALSE

IsMerged(d, defs) == \E i \in DOMAIN defs : Key(defs[i]) = Key(d)

\* One turn of the loop that pushes what the list does not have yet.
MergeNext ==
    /\ Running /\ incoming # << >>
    /\ stack' = IF IsMerged(Head(incoming), Top.defs) THEN stack
                ELSE [stack EXCEPT ![Len(stack)] =
                              Frame(@.file, Append(@.defs, Head(incoming)), @.next)]
    /\ incoming' = Tail(incoming)
    /\ UNCHANGED <<fs, desc, outcome>>

Next ==
    \/ OpenImport \/ Unreadable \/ ParsePanics \/ StackOverflow \/ ImportMissing
    \/ NameMissing \/ Refuse \/ Return \/ Receive \/ MergeNext

Spec == Init /\ [][Next]_vars

(***************************************************************************)
(* What the files say, independently of how they are read                  *)
(***************************************************************************)
Imports(f) ==
    UNION {{Candidate(f, import_search_path[i], import) :
                i \in {i \in DOMAIN import_search_path : IsMatch(f, i, import)}} :
              import \in ToSet(fs[f].imports)}

\* f and the files it imports, directly or not: what is in every set that has f and, with a
\* file, what that imports.
Reach(f) ==
    LET edges == UNION {{<<g, h>> : h \in Imports(g)} : g \in DOMAIN fs}
        closed == {S \in SUBSET DOMAIN fs : f \in S /\ \A e \in edges : e[1] \in S => e[2] \in S}
    IN  {g \in DOMAIN fs : \A S \in closed : g \in S}

\* Some of them import only among themselves for ever.
Cyclic == \E S \in (SUBSET Reach(Root)) \ {{}} : \A f \in S : Imports(f) \cap S # {}

PartsOf(path) == fs[path[1]].defs[path[2]]
PathsOf(f) == {<<f, i>> : i \in DOMAIN fs[f].defs}
PathsFrom(f) == UNION {PathsOf(g) : g \in Reach(f)}

\* The items of that full name in the definitions at `paths`: <<file, definition, part>>.
DeclaredAs(paths, name) ==
    UNION {{<<p[1], p[2], j>> : j \in {j \in DOMAIN PartsOf(p) :
                fs[p[1]].package \o PartsOf(p)[j].name = name}} : p \in paths}

\* What a type named in part j of the definition at `path` means in its own file: what the
\* innermost scope around it declares under that name.
Meaning(path, j, typ) ==
    LET visible == PathsFrom(path[1])
        scope == fs[path[1]].package \o PartsOf(path)[j].name
        Seen(k) == DeclaredAs(visible, SubSeq(scope, 1, k) \o typ.name)
        depths == {k \in 0 .. Len(scope) : Seen(k) # {}}
    IN  IF typ.abs THEN DeclaredAs(visible, typ.name)
        ELSE IF depths = {} THEN {} ELSE Seen(Max(depths))

\* A file nothing can be said against: it parses, the imports are there, the names mean something, and
\* no field is reserved or has a default.
InOrder(f) ==
    /\ fs[f].grammatical
    /\ \A decl \in Decls(f) : Fits(fs[f].syntax, decl)
    /\ \A import \in ToSet(fs[f].imports) : Found(f, import)
    /\ \A p \in PathsOf(f) : \A j \in DOMAIN PartsOf(p) : \A k \in DOMAIN PartsOf(p)[j].fields :
        LET typ == PartsOf(p)[j].fields[k].typ IN IsNamed(typ) => Meaning(p, j, typ) # {}
    /\ Insane(OwnDefs(f)) = {}

(***************************************************************************)
(* Properties                                                              *)
(***************************************************************************)
\* In every descriptor read_proto returns, each field's index leads to the item the file that
\* declares the field means, however many merges lie between (types.rs:554-609, 775-851).
SameMeaning ==
    \A x \in Places(desc.defs) :
        LET d == desc.defs[x[1]] IN
        \A k \in DOMAIN d.parts[x[2]].fields :
            LET was == PartsOf(d.path)[x[2]].fields[k]
                now == d.parts[x[2]].fields[k]
                target == desc.defs[now.typ.at[1]]
            IN  IsNamed(was.typ) =>
                    <<target.path[1], target.path[2], now.typ.at[2]>>
                        \in Meaning(d.path, x[2], was.typ)

\* A descriptor holds every definition of the file and of all its imports, each once, and tells
\* imported ones from its own: "dropping it lossless" (types.rs:654-657, 227-238).
Complete ==
    desc # NoDesc =>
        /\ {desc.defs[i].path : i \in DOMAIN desc.defs} = PathsFrom(desc.file)
        /\ Len(desc.defs) = Cardinality(PathsFrom(desc.file))
        /\ \A i \in DOMAIN desc.defs : desc.defs[i].imported = (desc.defs[i].path[1] # desc.file)

HasNoIndex(d) == \A j \in DOMAIN d.parts : \A k \in DOMAIN d.parts[j].fields :
                     ~ IsIndexed(d.parts[j].fields[k].typ)

\* No index outlives the descriptor it points into: while definitions move from one list to
\* another all their types, of nested items too, are names (types.rs:554-557).
NoStaleIndex ==
    /\ \A n \in DOMAIN stack : \A i \in DOMAIN stack[n].defs : HasNoIndex(stack[n].defs[i])
    /\ \A i \in DOMAIN incoming : HasNoIndex(incoming[i])

\* A file is read exactly if it and every file it imports is in order by itself: no merge makes
\* a good file unreadable or hides what is wrong with an imported one (types.rs:516-552).
Verdict ==
    ~ Running => (outcome = "ok" <=> ~ Cyclic /\ \A f \in Reach(Root) : InOrder(f))

\* Reading ends, with a descriptor or an error, unless files import each other, which
\* overflows the stack (types.rs:645).
EndsUnlessCyclic == ~ Cyclic ~> outcome \notin {"running", "overflow"}
=============================================================================
