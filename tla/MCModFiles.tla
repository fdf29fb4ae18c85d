----------------------------- MODULE MCModFiles -----------------------------
(***************************************************************************)
(* Inputs whose packages share words, into a directory with a mod.rs of    *)
(* the user's, with an empty one, with one that has the header, and without*)
(* one.  "a" is what is left of "ab" when its last letter is cut off.      *)
(***************************************************************************)
EXTENDS ModFiles

src == <<"s">>
out == <<"o">>
own == <<"w">>
ab == <<"a", "b">>
a == <<"a">>
x == <<"x">>

Input(path, package) == [path |-> path, exists |-> TRUE, package |-> package, empty |-> FALSE]
X == Input(<<src, x>>, <<a, ab, x>>)
Y == Input(<<src, a>>, <<a, x>>)
Z == Input(<<src, ab>>, <<ab, x>>)
Nothing == [Input(<<src, own>>, << >>) EXCEPT !.empty = TRUE]
Missing == [X EXCEPT !.exists = FALSE]

Ask(in_files, output, output_dir) ==
    [in_files |-> in_files, output |-> output, output_dir |-> output_dir, single_module |-> FALSE]

MCInvocations ==
    {Ask(<<X, Z>>, None, <<out>>), Ask(<<Y>>, None, <<out>>), Ask(<<Z, Nothing, Y>>, None, None),
     Ask(<<X>>, <<out, x>>, None), Ask(<<Y>>, <<out>>, None), Ask(<<Z, Y>>, None, <<own>>),
     Ask(<<Y>>, None, <<own, x>>),
     [Ask(<<Z>>, None, <<out>>) EXCEPT !.single_module = TRUE],
     Ask(<< >>, None, None), Ask(<<X, Missing>>, None, None), Ask(<<X, Y>>, <<out>>, None),
     Ask(<<X>>, <<out>>, <<out>>), Ask(<<X>>, None, <<x>>)}

MCUserDirs == {<<src>>, <<out>>, <<own>>, <<own, x>>}

Mine == [lines |-> << <<"m">> >>, open |-> << >>]

\* Started by an earlier invocation and kept by the user.
Kept == [lines |-> << <<MAGIC_HEADER>>, <<"m">> >>, open |-> <<PUB>>]

MCUserMods == (<<src>> :> Mine) @@ (<<own>> :> Blank) @@ (<<own, x>> :> Kept)
=============================================================================
