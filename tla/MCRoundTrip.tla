---------------------------- MODULE MCRoundTrip ----------------------------
(* One field of every label; lengths of one and of two bytes.              *)
EXTENDS RoundTrip

MCFields ==
    << [label |-> "Repeated", key |-> "", val |-> "Uint64"],
       [label |-> "Optional", key |-> "", val |-> "Int32"],
       [label |-> "PbMap", key |-> "Bool", val |-> "PbString"],
       [label |-> "Repeated", key |-> "", val |-> "message"],
       [label |-> "PbMap", key |-> "Bool", val |-> "message"],
       [label |-> "Packed", key |-> "", val |-> "Fixed32"],
       [label |-> "Packed", key |-> "", val |-> "Sint32"],
       [label |-> "Plain", key |-> "", val |-> "PbString"],
       [label |-> "Required", key |-> "", val |-> "Sfixed64"],
       [label |-> "Oneof", key |-> "", val |-> "Bool"],
       [label |-> "Packed", key |-> "", val |-> "Bool"] >>

\* A text in a oneof, beside an optional one.
MCTextFields ==
    << [label |-> "Repeated", key |-> "", val |-> "Uint64"],
       [label |-> "Optional", key |-> "", val |-> "PbString"],
       [label |-> "Oneof", key |-> "", val |-> "PbString"] >>

\* A text whose length takes two bytes.
Long == [i \in 1..33 |-> 7]

\* The types no field of these schemas has.
Unused == [p \in Packable \cup LenScalars |-> {}]

MCValues ==
    [Uint64   |-> {Value(0), Value(40)},
     Int32    |-> {Value(0), Value(-2)},
     Sfixed64 |-> {Value(-3)},
     PbString |-> {Value(<< >>), Value(Long), Formatted(<<5, 6>>)},
     Bool     |-> {Value(0), Value(1)}] @@ Unused

MCLists ==
    [Uint64   |-> {<< >>, <<Value(40), Value(3)>>},
     Fixed32  |-> {<< >>, <<Value(9), Value(70)>>},
     Sint32   |-> {<< >>, <<Value(-1), Value(40), Value(0)>>},
     Bool     |-> {<<Value(1), Value(0)>>},
     PbString |-> {<<Value(<<5>>), Value(<< >>)>>}] @@ Unused

MCKeys == {Value(0), Value(1)}

MCNotUtf8 == {63}

MCSchemas == {[nr \in DOMAIN Fields |-> Form(Fields[nr])]}

MCInputs == {<< >>}
=============================================================================
