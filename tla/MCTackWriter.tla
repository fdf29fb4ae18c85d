---------------------------- MODULE MCTackWriter ----------------------------
(* TackWriter on small instances. *)
EXTENDS TackWriter

\* Groups of one bit: a length takes one byte below 2, two below 4, three below 8.
MCChunks == {<<3>>, <<0, 1>>}
MCTags == {<<2>>}
MCDefaultWidth == {1}
MCWidths == {1, 2}
MCZeroed == {0}
MCStale == {0, 3}
=============================================================================
