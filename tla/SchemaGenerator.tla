--------------------------- MODULE SchemaGenerator ---------------------------
(***************************************************************************)
(* The Rust items write_proto_with_includes (tacky-build/src/parser.rs)    *)
(* generates from what read_proto returns: one flat module for the root    *)
(* file and everything it imports.  The identifier of a nested item is the *)
(* identifiers around it and its own, run together; packages do not show.  *)
(* So two items may get one identifier, and then the module does not       *)
(* compile.                                                                *)
(* What the code of a field is depends on its label.                       *)
(*                                                                         *)
(* Of a word only what identifiers are made of matters: it is a sequence   *)
(* of syllables, so that "A", "B" and "AB" can be told apart and joined.   *)
(***************************************************************************)
EXTENDS SchemaResolver

CONSTANT UpperCamelCase(_)    \* what the heck crate makes of the name of a oneof

VARIABLE code    \* the generated module: how far it is, its items, and what they mention

gvars == <<vars, code>>

\* The names around an item and its own become an identifier by running their words together.
qualified_name(d, j) == FlattenSeq(d.parts[j].name)

\* Every message, and every enum, of the descriptor, nested ones included.
collect_all_messages(defs) ==
    {x \in Places(defs) : defs[x[1]].parts[x[2]].kind = "Message"}

\* Mutant: enums nested in messages are left out.
M_collect_all_enums(defs) ==
    {x \in Places(defs) : x[2] = 1 /\ defs[x[1]].parts[x[2]].kind = "Enum"}

collect_all_enums(defs) ==
    {x \in Places(defs) : defs[x[1]].parts[x[2]].kind = "Enum"}

\* A message becomes a schema struct, an enum of fields and an iterator over them, and each of its
\* oneofs a struct.
message_schema(ident) == {ident, ident \o <<"Field">>, ident \o <<"Fields">>}
marker_name(ident, oneof) == ident \o UpperCamelCase(oneof)

\* An item is of its message or enum, or of the oneof'th oneof of that.
Item(x, oneof, ident) == [at |-> x, oneof |-> oneof, ident |-> ident]

write_message(x, ident, oneofs) ==
    {Item(x, 0, i) : i \in message_schema(ident)}
    \cup {Item(x, k, marker_name(ident, oneofs[k])) : k \in DOMAIN oneofs}
write_enum(x, ident) == {Item(x, 0, ident)}

Items(defs) ==
    (UNION {write_message(x, qualified_name(defs[x[1]], x[2]), defs[x[1]].parts[x[2]].oneofs) :
               x \in collect_all_messages(defs)})
    \cup
    (UNION {write_enum(x, qualified_name(defs[x[1]], x[2])) : x \in collect_all_enums(defs)})

\* What the code of a field of that type mentions: MessageIndex and EnumIndex walk the names
\* along their indices.
Mentions(defs, typ) ==
    LET ident == qualified_name(defs[typ.at[1]], typ.at[2])
    IN  CASE typ.tag = "Message" -> {Item(typ.at, 0, i) : i \in message_schema(ident)}
          [] typ.tag = "Enum" -> {Item(typ.at, 0, ident)}

\* Where the fields are: <<definition, part, field>>.
Slots(defs) ==
    UNION {{<<x[1], x[2], k>> : k \in DOMAIN defs[x[1]].parts[x[2]].fields} : x \in Places(defs)}

FieldAt(defs, s) == defs[s[1]].parts[s[2]].fields[s[3]]

\* A field the generator has no code for panics; and the module around the items is named after
\* the words of the package, of which an empty one has a single empty word.
Unsupported(f, defs) ==
    \/ fs[f].package = << >>
    \/ \E s \in Slots(defs) : ~ CanGenerate(fs[f], FieldAt(defs, s))

\* What the code of every field mentions, each with the item meant.
Uses(defs) ==
    UNION {Mentions(defs, FieldAt(defs, s).typ) :
              s \in {s \in Slots(defs) : IsIndexed(FieldAt(defs, s).typ)}}

Labels(f, defs) == [s \in Slots(defs) |-> convert_field(fs[f], FieldAt(defs, s))]

NoModule(stage) == [stage |-> stage, items |-> {}, uses |-> {}, labels |-> << >>]

Module(f, defs) ==
    [stage |-> "generated", items |-> Items(defs), uses |-> Uses(defs), labels |-> Labels(f, defs)]

GInit == Init /\ code = NoModule("none")

write_proto_with_includes ==
    /\ outcome = "ok" /\ code.stage = "none"
    /\ code' = IF Unsupported(desc.file, desc.defs) THEN NoModule("panic")
               ELSE Module(desc.file, desc.defs)
    /\ UNCHANGED vars

read_proto == Next /\ UNCHANGED code

GNext == read_proto \/ write_proto_with_includes

\* A call runs by itself: nothing outside it can hold it up.
GSpec == GInit /\ [][GNext]_gvars /\ WF_gvars(GNext)

(***************************************************************************)
(* Properties                                                              *)
(***************************************************************************)
\* Whatever a field's code mentions is generated, for the very item the field's index points
\* to: nested items and items of imports are not forgotten (parser.rs:11-37, 364-389).
NothingDangling == code.uses \subseteq code.items

\* The items of part j of the definition at `path`, as its file has it.
ItemsOf(path, j) ==
    LET part == PartsOf(path)[j]
        x == <<path[1], path[2], j>>
    IN  IF part.kind = "Message" THEN write_message(x, FlattenSeq(part.name), part.oneofs)
        ELSE write_enum(x, FlattenSeq(part.name))

DeclaredItems ==
    UNION {UNION {ItemsOf(p, j) : j \in DOMAIN PartsOf(p)} : p \in PathsFrom(Root)}

\* The identifiers that are given to two items, over which the module does not compile.
Clashing(items) == {a.ident : a \in {a \in items : \E b \in items : a # b /\ a.ident = b.ident}}

\* Two items get one identifier exactly where the files that the root leads to already have two
\* that are called the same when packages are left out and words run together: no merge generates
\* an item twice, and none hides a clash by dropping one of two (parser.rs:11-37, 299-310, 391-396, pb_rs
\* types.rs:654-706).
ClashesAsDeclared == code.stage = "generated" => Clashing(code.items) = Clashing(DeclaredItems)

\* The label a field ends up with is what its own file says, although the parser guesses the
\* syntax, the type is known late, and the generator looks at another file's syntax (pb_rs
\* parser.rs:309-411, types.rs:828-839, tacky-build parser.rs:241-269).  Maps are generated
\* from their type alone; members of a oneof only must not be packed.
LabelAsWritten ==
    \A s \in DOMAIN code.labels :
        LET d == desc.defs[s[1]]
            decl == PartsOf(d.path)[s[2]].fields[s[3]]
            field == FieldAt(desc.defs, s)
        IN  IF decl.oneof \/ decl.map THEN code.labels[s] \notin {"Packed", "Repeated"}
            ELSE code.labels[s] = Meant(fs[d.path[1]].syntax, decl, is_packable_scalar(field))
=============================================================================
