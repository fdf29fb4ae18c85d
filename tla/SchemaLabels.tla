---------------------------- MODULE SchemaLabels ----------------------------
(***************************************************************************)
(* What label a field gets: required, optional, repeated, packed or plain. *)
(* It decides how the generated schema writes the field and what its       *)
(* decoder accepts.  Three places have a say, one after the other: the     *)
(* parser (pbrs/src/parser.rs), which knows the file's syntax, the keyword *)
(* and the options but not what a name in place of a type stands for; the  *)
(* resolver (pbrs/src/types.rs), which knows that; and the generator       *)
(* (tacky-build/src/parser.rs), which works on the root file with          *)
(* everything it imports merged in.                                        *)
(*                                                                         *)
(* A field as written has a number, a type, a keyword ("none" where there  *)
(* is none) and the options in its brackets; it may be a member of a oneof *)
(* or a map, of which only the type of the values is kept.                 *)
(***************************************************************************)
EXTENDS Naturals, Sequences

Syntaxes == {"Proto2", "Proto3", "Edition"}
Keywords == {"none", "optional", "repeated", "required"}

(***************************************************************************)
(* Types of fields                                                         *)
(***************************************************************************)
Number == [tag |-> "Number"]
Text == [tag |-> "String"]
MessageOrEnum(abs, name) == [tag |-> "MessageOrEnum", abs |-> abs, name |-> name]
Index(kind, at) == [tag |-> kind, at |-> at]

IsNamed(typ) == typ.tag = "MessageOrEnum"
IsIndexed(typ) == typ.tag \in {"Message", "Enum"}

is_primitive(f) == ~ f.map /\ f.typ.tag \in {"Number", "Enum"}
is_packable_scalar(f) == ~ f.map /\ f.typ.tag \in {"Number", "Enum"}

(***************************************************************************)
(* The parser                                                              *)
(***************************************************************************)
\* scan_syntax looks at the very start of the file, file_descriptor reads past comments.
scan_syntax(file) == IF file.leading THEN "Proto2" ELSE file.syntax

\* The grammar reads `[key = value]`: of a longer list it takes the first key, and the rest of
\* the list as its value.
key_vals(options) ==
    IF Len(options) <= 1 THEN options
    ELSE << [key |-> Head(options).key, value |-> "the rest of the list"] >>

Value(options, key, default) ==
    IF options # << >> /\ Head(options).key = key THEN Head(options).value ELSE default

\* An option whose value is read as a bool, and is none.
BadBool(options) ==
    \E key \in {"packed", "deprecated"} : Value(options, key, "true") \notin {"true", "false"}

\* Whether the keyword is part of the syntax's grammar: else it is taken for a type, and what
\* follows is no field.
InGrammar(file, decl) == scan_syntax(file) = "Edition" => decl.keyword \in {"none", "repeated"}

Panics(file, decl) ==
    \/ BadBool(key_vals(decl.options))
    \/ ~ decl.map /\ decl.keyword = "required" /\ scan_syntax(file) = "Proto3"

frequencies(syntax, decl, packed) ==
    CASE decl.map -> "None"
      [] ~ decl.map /\ decl.keyword = "required" -> "Required"
      [] ~ decl.map /\ decl.keyword = "optional" -> "Optional"
      [] ~ decl.map /\ decl.keyword = "repeated" ->
            IF syntax # "Proto2" \/ packed THEN "Packed" ELSE "Repeated"
      [] ~ decl.map /\ decl.keyword = "none" ->
            [Proto2 |-> "None", Proto3 |-> "Plain", Edition |-> "Optional"][syntax]

\* field-level features of an edition
field_presence(options, otherwise) ==
    LET v == Value(options, "features.field_presence", "")
    IN  CASE v = "IMPLICIT" -> "Plain"
          [] v = "EXPLICIT" -> "Optional"
          [] v = "LEGACY_REQUIRED" -> "Required"
          [] OTHER -> otherwise

\* Mutant: the feature is not looked at.
M_repeated_field_encoding(options, keyword, otherwise) == otherwise

repeated_field_encoding(options, keyword, otherwise) ==
    LET v == Value(options, "features.repeated_field_encoding", "")
    IN  CASE keyword # "none" /\ v = "PACKED" -> "Packed"
          [] keyword # "none" /\ v = "EXPANDED" -> "Repeated"
          [] OTHER -> otherwise

field_generic(syntax, decl, options) ==
    LET plain == frequencies(syntax, decl, Value(options, "packed", "false") = "true")
    IN  IF syntax # "Edition" THEN plain
        ELSE repeated_field_encoding(options, decl.keyword, field_presence(options, plain))

\* Members of a oneof lose what their own text said.
one_of(syntax) == IF syntax = "Proto3" THEN "Plain" ELSE "Optional"

\* The field the parser makes of it.
Field(file, decl) ==
    [number |-> decl.number, typ |-> decl.typ, map |-> decl.map,
     default |-> Value(key_vals(decl.options), "default", "none") # "none",
     frequency |-> IF decl.oneof THEN one_of(scan_syntax(file))
                   ELSE field_generic(scan_syntax(file), decl, key_vals(decl.options))]

(***************************************************************************)
(* The generator                                                           *)
(***************************************************************************)
from(f) == IF f = "None" THEN "Plain" ELSE f

convert_field(root, f) ==
    IF root.syntax = "Proto3" /\ from(f.frequency) = "Repeated" /\ is_packable_scalar(f)
    THEN "Packed" ELSE from(f.frequency)

\* The decoder of a packed field is written for numbers and enums, and a map to an enum has
\* no arm.
CanGenerate(root, f) ==
    /\ convert_field(root, f) = "Packed" => is_packable_scalar(f)
    /\ ~ (f.map /\ f.typ.tag = "Enum")

(***************************************************************************)
(* What the text says                                                      *)
(***************************************************************************)
Says(decl, key, value) ==
    \E i \in DOMAIN decl.options : decl.options[i].key = key /\ decl.options[i].value = value

\* A keyword the syntax has, and options whose values are what they must be.
Fits(syntax, decl) ==
    /\ decl.keyword = "required" => syntax = "Proto2"
    /\ decl.keyword = "optional" => syntax # "Edition"
    /\ \A i \in DOMAIN decl.options : decl.options[i].key \in {"packed", "deprecated"} =>
          decl.options[i].value \in {"true", "false"}

WantsPacked(syntax, decl) ==
    CASE syntax = "Proto2" -> Says(decl, "packed", "true")
      [] syntax = "Proto3" -> ~ Says(decl, "packed", "false")
      [] syntax = "Edition" -> ~ Says(decl, "features.repeated_field_encoding", "EXPANDED")

\* The label of a field of that syntax, `packable` if its values are numbers or of an enum.
Meant(syntax, decl, packable) ==
    CASE decl.keyword = "required" -> "Required"
      [] decl.keyword = "optional" -> "Optional"
      [] decl.keyword = "repeated" ->
            IF packable /\ WantsPacked(syntax, decl) THEN "Packed" ELSE "Repeated"
      [] decl.keyword = "none" ->
            IF syntax = "Proto3" \/ Says(decl, "features.field_presence", "IMPLICIT") THEN "Plain"
            ELSE IF Says(decl, "features.field_presence", "LEGACY_REQUIRED") THEN "Required"
            ELSE "Optional"
=============================================================================
