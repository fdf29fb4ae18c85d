-------------------------- MODULE MCBothDirections --------------------------
(* BothDirections on small instances. *)
EXTENDS BothDirections

MCChunks == {<<3>>, <<0, 1>>}
MCTags == {<<2>>, <<1, 0>>}
=============================================================================
