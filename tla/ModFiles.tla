------------------------------- MODULE ModFiles -------------------------------
(***************************************************************************)
(* What pb_rs does to the output directory: ConfigBuilder (pbrs/src/lib.rs)*)
(* decides where each input goes, and FileDescriptor::run makes a          *)
(* directory for every word of a package but the last and declares it in   *)
(* the mod.rs beside it (print_proto, update_mod_file of                   *)
(* pbrs/src/types.rs).                                                     *)
(*                                                                         *)
(* The program is invoked again and again over what earlier invocations    *)
(* left, and may end at any step: an error of the file system, or the      *)
(* build that runs it is stopped.  A word is the sequence of its letters, a*)
(* path one of words.  A mod.rs is its lines and what follows the last end *)
(* of a line, each a sequence of letters; the header and "pub mod " stand  *)
(* for one letter each.                                                    *)
(***************************************************************************)
EXTENDS Naturals, Sequences, SequencesExt

CONSTANTS
    Invocations,  \* what a caller asks for
    UserDirs,     \* directories that are there before
    UserMods,     \* directories with a mod.rs somebody wrote -> its text
    MaxRuns       \* bound: invocations

VARIABLES
    dirs,     \* the directories
    mods,     \* directories with a mod.rs -> its text
    configs,  \* what is left of the running invocation
    at,       \* the directory print_proto has got to
    todo,     \* words of the package it has yet to make directories for
    pending,  \* what update_mod_file has yet to write, one piece a system call
    stage,    \* "idle", or what comes next
    outcome,  \* how the last invocation ended
    passed,   \* the directories the last invocation went through
    torn,     \* directories an invocation ended in before it had declared what it made there
    runs      \* invocations so far

vars == <<dirs, mods, configs, at, todo, pending, stage, outcome, passed, torn, runs>>

None == << >>

MAGIC_HEADER == "// Automatically generated mod.rs"
PUB == "pub mod "
END == ";"
NL == "\n"

\* A file with nothing in it.
Blank == [lines |-> << >>, open |-> << >>]

IsText(text) ==
    /\ text = [lines |-> text.lines, open |-> text.open]
    /\ text.lines \in Seq(ToSet(text.lines)) /\ text.open \in Seq(ToSet(text.open))
    /\ \A i \in DOMAIN text.lines : text.lines[i] \in Seq(ToSet(text.lines[i]))

\* A user may have written anything, the header or nothing too.
ASSUME UserAssumption == \A d \in DOMAIN UserMods : IsText(UserMods[d])

\* A path and what it is below; create_dir_all makes all of them.
Above(path) == {SubSeq(path, 1, n) : n \in 1 .. Len(path)}

\* Directories are paths below other directories, and a file that exists is in one.
ASSUME DirAssumption ==
    /\ \A d \in UserDirs : d \in Seq(ToSet(d)) /\ d # << >> /\ Above(d) \subseteq UserDirs
    /\ \A inv \in Invocations : \A file \in ToSet(inv.in_files) :
          file.exists => Front(file.path) \in UserDirs \cup {<< >>}

\* Words of a package are identifiers: no spaces, no semicolons.  Paths and packages are
\* sequences; None stands for a path that was not given.
ASSUME InvocationAssumption ==
    \A inv \in Invocations :
        /\ inv.in_files \in Seq(ToSet(inv.in_files))
        /\ inv.output \in Seq(ToSet(inv.output))
        /\ inv.output_dir \in Seq(ToSet(inv.output_dir))
        /\ \A file \in ToSet(inv.in_files) :
            /\ file.path \in Seq(ToSet(file.path)) /\ file.path # << >>
            /\ file.package \in Seq(ToSet(file.package))
            /\ \A word \in ToSet(file.package) :
                /\ word \in Seq(ToSet(word)) /\ word # << >>
                /\ \A i \in DOMAIN word : word[i] \notin {MAGIC_HEADER, PUB, END, NL}

(***************************************************************************)
(* ConfigBuilder.  An input is its path, whether it exists, its package,   *)
(* and whether it defines nothing; output and output_dir may be None.      *)
(***************************************************************************)
\* What `new` says.
new(inv) ==
    CASE inv.in_files = << >> -> "NoProto"
      [] inv.in_files # << >> /\ (\E i \in DOMAIN inv.in_files : ~ inv.in_files[i].exists) -> "InputFile"
      [] OTHER ->
            CASE inv.output # None /\ inv.output_dir = None /\ Len(inv.in_files) > 1 -> "OutputMultipleInputs"
              [] inv.output # None /\ inv.output_dir # None -> "OutputAndOutputDir"
              [] inv.output = None /\ inv.output_dir # None /\ inv.output_dir \notin dirs -> "OutputDirectory"
              [] OTHER -> "ok"

\* The directory out_file is in.
out_dir(inv, file) ==
    CASE inv.output_dir # None -> inv.output_dir
      [] inv.output_dir = None /\ inv.output # None ->
            IF inv.output \in dirs THEN inv.output ELSE Front(inv.output)
      [] OTHER -> Front(file.path)

build(inv) ==
    [i \in DOMAIN inv.in_files |->
        [out |-> out_dir(inv, inv.in_files[i]),
         empty |-> inv.in_files[i].empty,
         package |-> IF inv.single_module THEN << >> ELSE inv.in_files[i].package]]

Init ==
    /\ dirs = UserDirs
    /\ mods = UserMods
    /\ configs = << >> /\ at = << >> /\ todo = << >> /\ pending = << >>
    /\ stage = "idle" /\ outcome = "ok" /\ passed = {} /\ torn = {} /\ runs = 0

Invoke ==
    /\ stage = "idle" /\ runs < MaxRuns
    /\ runs' = runs + 1
    /\ \E inv \in Invocations :
        IF new(inv) = "ok"
        THEN configs' = build(inv) /\ stage' = "config" /\ UNCHANGED outcome
        ELSE outcome' = new(inv) /\ UNCHANGED <<configs, stage>>
    /\ passed' = {}
    /\ UNCHANGED <<dirs, mods, at, todo, pending, torn>>

\* The invocation ends, whatever is left of it.
End(result) ==
    /\ stage' = "idle" /\ outcome' = result
    /\ configs' = << >> /\ at' = << >> /\ todo' = << >> /\ pending' = << >>

AllDone ==
    /\ stage = "config" /\ configs = << >>
    /\ End("ok")
    /\ UNCHANGED <<dirs, mods, passed, torn, runs>>

\* A file that defines nothing ends the loop over the others.
EmptyRead ==
    /\ stage = "config" /\ configs # << >> /\ Head(configs).empty
    /\ End("EmptyRead")
    /\ UNCHANGED <<dirs, mods, passed, torn, runs>>

\* The last word of the package names the file, the others are directories.
print_proto ==
    /\ stage = "config" /\ configs # << >> /\ ~ Head(configs).empty
    /\ at' = Head(configs).out
    /\ todo' = IF Head(configs).package = << >> THEN << >> ELSE Front(Head(configs).package)
    /\ configs' = Tail(configs)
    /\ stage' = "dirs"
    /\ UNCHANGED <<dirs, mods, pending, outcome, passed, torn, runs>>

NextConfig ==
    /\ stage = "dirs" /\ todo = << >>
    /\ stage' = "config"
    /\ UNCHANGED <<dirs, mods, configs, at, todo, pending, outcome, passed, torn, runs>>

\* Mutant: the whole path is made at once.
M_NextDir ==
    /\ stage = "dirs" /\ todo # << >>
    /\ at' = Append(at, Head(todo))
    /\ todo' = Tail(todo)
    /\ dirs' = dirs \cup Above(at' \o todo')
    /\ stage' = IF at' \in dirs THEN "dirs" ELSE "mod"
    /\ passed' = passed \cup {at'}
    /\ UNCHANGED <<mods, configs, pending, outcome, torn, runs>>

NextDir ==
    /\ stage = "dirs" /\ todo # << >>
    /\ at' = Append(at, Head(todo))
    /\ todo' = Tail(todo)
    /\ dirs' = dirs \cup Above(at')
    /\ stage' = IF at' \in dirs THEN "dirs" ELSE "mod"
    /\ passed' = passed \cup {at'}
    /\ UNCHANGED <<mods, configs, pending, outcome, torn, runs>>

(***************************************************************************)
(* update_mod_file                                                         *)
(***************************************************************************)
parent == Front(at)
name == Last(at)

\* The lines as they are read: a last one need not be ended.
Lines == IF mods[parent].open = << >> THEN mods[parent].lines
         ELSE Append(mods[parent].lines, mods[parent].open)

\* Mutant: the header is not looked for.
M_Foreign == FALSE

\* Somebody else's file is left alone.
Foreign == Lines # << >> /\ \A i \in DOMAIN Lines[1] : Lines[1][i] # MAGIC_HEADER

\* Where a line first has "pub mod ".
Keyword(line, i) ==
    i \in DOMAIN line /\ line[i] = PUB /\ \A j \in 1 .. (i - 1) : line[j] # PUB

\* What follows it, up to but without the last letter, is taken for the module's name.
Names(line, n) ==
    \E i \in DOMAIN line : Keyword(line, i) /\ i < Len(line) /\ SubSeq(line, i + 1, Len(line) - 1) = n

\* Mutant: three letters are cut off.
M_Cut(line) == \E i \in DOMAIN line : Keyword(line, i) /\ i > Len(line) - 3

\* Nothing follows it: there is no last letter to leave out, and the slice panics.
Cut(line) == \E i \in DOMAIN line : Keyword(line, i) /\ i = Len(line)

\* Mutant: no line is looked at.
M_Listed == FALSE

\* A line names the module, and none before it is cut off.
Listed ==
    \E i \in DOMAIN Lines : Names(Lines[i], name) /\ \A j \in 1 .. (i - 1) : ~ Cut(Lines[j])

SomeCut == \E i \in DOMAIN Lines : Cut(Lines[i])

Present ==
    /\ stage = "mod" /\ parent \in DOMAIN mods /\ (Foreign \/ Listed)
    /\ stage' = "dirs"
    /\ UNCHANGED <<dirs, mods, configs, at, todo, pending, outcome, passed, torn, runs>>

ReadPanics ==
    /\ stage = "mod" /\ parent \in DOMAIN mods /\ ~ (Foreign \/ Listed) /\ SomeCut
    /\ End("panicked")
    /\ torn' = torn \cup {parent}
    /\ UNCHANGED <<dirs, mods, passed, runs>>

\* What writeln! writes, argument by argument.
header == << <<MAGIC_HEADER>>, <<NL>> >>
declaration(n) == << <<PUB>>, n, <<END, NL>> >>

AppendName ==
    /\ stage = "mod" /\ parent \in DOMAIN mods /\ ~ (Foreign \/ Listed \/ SomeCut)
    /\ pending' = declaration(name)
    /\ stage' = "write"
    /\ UNCHANGED <<dirs, mods, configs, at, todo, outcome, passed, torn, runs>>

CreateFile ==
    /\ stage = "mod" /\ parent \notin DOMAIN mods
    /\ mods' = [d \in DOMAIN mods \cup {parent} |-> IF d = parent THEN Blank ELSE mods[d]]
    /\ pending' = header \o declaration(name)
    /\ stage' = "write"
    /\ UNCHANGED <<dirs, configs, at, todo, outcome, passed, torn, runs>>

Put(text, piece) ==
    IF Last(piece) = NL
    THEN [lines |-> Append(text.lines, text.open \o Front(piece)), open |-> << >>]
    ELSE [text EXCEPT !.open = @ \o piece]

WritePiece ==
    /\ stage = "write"
    /\ mods' = [mods EXCEPT ![parent] = Put(@, Head(pending))]
    /\ pending' = Tail(pending)
    /\ stage' = IF pending' = << >> THEN "dirs" ELSE "write"
    /\ UNCHANGED <<dirs, configs, at, todo, outcome, passed, torn, runs>>

\* The file system refuses a step, or the process is stopped between two.
EndEarly ==
    /\ stage # "idle"
    /\ End("Io")
    /\ torn' = IF stage \in {"mod", "write"} THEN torn \cup {parent} ELSE torn
    /\ UNCHANGED <<dirs, mods, passed, runs>>

\* Between invocations somebody removes a directory with nothing of the user's in it, but not
\* the mod.rs beside it.
RemoveDir ==
    /\ stage = "idle"
    /\ \E d \in dirs \ UserDirs :
        /\ \A e \in DOMAIN UserMods : ~ IsPrefix(d, e)
        /\ dirs' = {e \in dirs : ~ IsPrefix(d, e)}
        /\ mods' = [e \in {e \in DOMAIN mods : ~ IsPrefix(d, e)} |-> mods[e]]
        /\ torn' = {e \in torn : ~ IsPrefix(d, e)}
    /\ UNCHANGED <<configs, at, todo, pending, stage, outcome, passed, runs>>

Next ==
    \/ Invoke \/ AllDone \/ EmptyRead \/ print_proto \/ NextConfig \/ NextDir
    \/ Present \/ ReadPanics \/ AppendName \/ CreateFile \/ WritePiece
    \/ EndEarly \/ RemoveDir

Spec == Init /\ [][Next]_vars

(***************************************************************************)
(* Properties                                                              *)
(***************************************************************************)
\* A line of its own that declares a module.
Declaration(n) == <<PUB>> \o n \o <<END>>

PackageWords ==
    UNION {UNION {ToSet(file.package) : file \in ToSet(inv.in_files)} : inv \in Invocations}

\* After an invocation that went well every directory it went through is declared in the
\* mod.rs beside it, whatever earlier ones left behind, unless the directory or that mod.rs is
\* the user's: "create or update the mod.rs file within its folder" (types.rs:867).  What an
\* invocation that ended early made and did not declare no later one repairs (types.rs:486).
Declared ==
    stage = "idle" /\ outcome = "ok" =>
        \A d \in (passed \cap dirs) \ UserDirs :
            Front(d) \notin DOMAIN UserMods \cup torn =>
                Front(d) \in DOMAIN mods /\ Contains(mods[Front(d)].lines, Declaration(Last(d)))

\* No mod.rs but the user's declares a module twice, which would not compile, however often
\* directories are removed and invocations end early, in the middle of a line too
\* (types.rs:892-911).
OnceIn(lines) ==
    \A n \in PackageWords : \A i, j \in DOMAIN lines :
        lines[i] = Declaration(n) /\ lines[j] = Declaration(n) => i = j

DeclaredOnce == \A d \in DOMAIN mods \ DOMAIN UserMods : OnceIn(mods[d].lines)

\* Reading a mod.rs panics only where an earlier invocation ended in it or where it is the
\* user's: every line of another has something behind "pub mod " to leave out (types.rs:893).
PanicsOnlyTorn ==
    stage = "mod" /\ parent \in DOMAIN mods /\ ~ (Foreign \/ Listed) /\ SomeCut =>
        parent \in DOMAIN UserMods \cup torn

\* What a user wrote in a mod.rs stays in front of what is written, and to a mod.rs that has a
\* first line without the header nothing is: "it is NOT one of our generated mod.rs files, so
\* don't modify it!" (types.rs:885-889).  An empty one is written to: it has no first line.
Extends(text, more) ==
    LET n == Len(text.lines)
    IN  /\ IsPrefix(text.lines, more.lines)
        /\ IsPrefix(text.open, IF Len(more.lines) = n THEN more.open ELSE more.lines[n + 1])

Generated(text) ==
    \/ text.lines # << >> /\ \E i \in DOMAIN text.lines[1] : text.lines[1][i] = MAGIC_HEADER
    \/ text.lines = << >> /\ \E i \in DOMAIN text.open : text.open[i] = MAGIC_HEADER

UserModsKept ==
    \A d \in DOMAIN UserMods :
        /\ Extends(UserMods[d], mods[d])
        /\ UserMods[d] # Blank /\ ~ Generated(UserMods[d]) => mods[d] = UserMods[d]
=============================================================================
