--------------------------- MODULE MCScalarCodec ---------------------------
(* ScalarCodec with eight-valued bytes: 32-bit values have one, 64-bit two. *)
EXTENDS ScalarCodec

MCStrings == UNION {[1..n -> {0, 3, 6}] : n \in 0..4}
MCNotUtf8 == {7}
=============================================================================
