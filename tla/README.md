# A TLA+ model of tacky

`tacky` is a protobuf library for Rust in three crates. The runtime crate
(`src/tacky`) writes the wire format straight into a byte buffer, without building
messages in memory: the length of a nested message is not known when its bytes
begin, so it is either patched in afterwards (`Tack`, forward buffers) or written
last, in front of the payload (`RevBuf`, a buffer that grows downwards). The crate
also reads fields back. `src/pbrs` parses `.proto` files and resolves their types;
`src/tacky-build` generates a schema struct and a field iterator for each message.

This directory holds TLA+ modules of the runtime crate and of the way a schema takes
through the other two, TLC configurations that check them on small instances, and TLAPS
proofs that need no bounds.

## Inventory

| Component | State | Operations | Interacts with | What is hard | What makes it correct |
|---|---|---|---|---|---|
| Varints (`scalars.rs`, `tack.rs`) | a cursor | write, padded write, read (loop and unrolled), skip, length | everything | two readers chosen by how many bytes are left; overlong and overflowing varints | the readers, the skipper and the writers agree where a varint ends and what it says |
| Scalars (`scalars.rs`) | a cursor | `write_value`, `value_len`, `read`, keys, `skip_field`, `decode_len` | field writers, decoder | sign extension, zigzag, narrowing reads, truncated payloads | round trip; predicted size = written size; skipping ends where reading does |
| Forward buffers (`buf.rs`: `Vec<u8>`, `SliceBuf`) | written bytes, capacity | `put_*`, `grow`, `copy_within`, `put_msg` | `Tack`, field writers | a slice that runs out in the middle of a message, stale bytes behind the cursor | bytes are appended whole or not at all |
| `Tack` (`tack.rs`) | offset and width of a placeholder, for each open message | `new_with_width`, `close`, `fix_overflow`, `drop` | the buffer it borrows, the Tacks around it | nested lengths that outgrow their placeholder; unwinding drops; a panic inside a drop; `u32` offsets | every message is framed by the exact length of its payload; nothing outside it moves |
| Reverse buffer (`buf.rs`: `RevBuf`) | slice, cursor growing down | `claim`, `claim_block`, `put_*`, `put_msg` | field writers | order of all writes is mirrored; exhaustion | same bytes as the forward writer of the mirrored program |
| Field writers (`field.rs`) | none | one `write*` per label: optional, plain, required, repeated, packed, map | buffers, scalars | each branches on the direction; map entries are sized before they are written; skipping defaults | what is written is what the decoder reads, in the list's order, in either direction |
| Formatting adapters (`buf.rs`: `FmtWriter`, `IoWriter`, `PbDisplay`, `PbWrite`) | bytes written so far | `fmt::Write`, `io::Write` into a placeholder of width 2 | forward buffers | errors that are swallowed; use on a reverse buffer | the payload is exactly what was formatted |
| Generated decoder (`tacky-build/src/field_enum.rs`, `field.rs`: `PbMap::read*`, `PackedIter`) | the unread bytes | `next` | scalars | unknown fields, malformed fields, truncation, map entries in any order | terminates; stops at the first error; old readers lose nothing they know |
| Schema parser (`pbrs/src/parser.rs`) | none | text of a `.proto` file to a descriptor | resolver | the syntax is guessed before the file is parsed; options decide labels | a field gets the label its own text says |
| Import and type resolver (`pbrs/src/types.rs`) | descriptors, index maps | `read_proto`, `fetch_imports`, `unresolve_types`, `resolve_types`, sanity checks | parser, generator | diamond and circular imports; indices that go stale when descriptors merge; scoping | a name means the same message before and after a merge; nothing is lost or doubled |
| Output directories (`pbrs/src/lib.rs`, `types.rs`: `run`, `print_proto`, `update_mod_file`) | directories, `mod.rs` files | configure, make directories, declare modules | the file system, earlier invocations, the user | invocations over each other's output; one that ends halfway; files of the user's | every directory is declared once, and no user's file is touched |
| Code generator (`tacky-build/src/parser.rs`, `field_type.rs`, `field_enum.rs`) | none | label and type of each field, items of one flat module | resolver | it sees all files as one, under the root file's syntax; nested names are run together | labels follow the syntax of the field's file; every item mentioned exists, under one name |
| Errors (`pbrs/src/errors.rs`), tests, benches, scripts | none | - | - | - | - |

Everything is single-threaded: a buffer is borrowed mutably by whoever writes, and the
generator runs in a build script. What takes the place of concurrency is nesting,
unwinding, recursion and repetition. Tacks borrow from each other, are dropped in reverse
order at the end of a closure or during a panic, and each drop rewrites bytes inside the
payload of the one around it. A file is read while the file that imports it waits, and
what comes back refers to a list that no longer exists. An invocation of the generator
finds what another, perhaps stopped halfway, has left. And on the reading side the hard
inputs are bytes nobody wrote.

## Modules

| Module | Models | Builds on |
|---|---|---|
| `Varint` | base-128 varints: both readers, the skipper, both writers | - |
| `VarintCodec` | every short byte string through `Varint` | `Varint` |
| `Scalars` | scalar types, wire types, keys, skipping | `Varint` |
| `ScalarCodec` | every value of every scalar type, with bytes behind it | `Scalars` |
| `WireFrames` | abstract: what any writer promises - a stack of messages being written | `Varint` |
| `TackWriter` | `Vec<u8>` / `SliceBuf` and the Tacks open on it | `Varint`; implements `WireFrames` |
| `RevWriter` | `RevBuf` | `Varint`; implements `WireFrames` |
| `BothDirections` | one program forwards through `TackWriter`, mirrored through `RevWriter` | both |
| `FieldIter` | the generated decoder's `next`, `PbMap::read`, `read_msg` | `Scalars` |
| `Upgrade` | a new and an old reader of a message, and readers of its two halves | `FieldIter` |
| `FieldWriters` | the writers of each label, of map entries and of oneof members | `Scalars` |
| `RoundTrip` | writer calls against buffers of every direction, then the decoder on one of them | `FieldWriters`, `FieldIter` |
| `SchemaLabels` | what label and type a field gets: parser, resolver, generator | - |
| `SchemaResolver` | `read_proto`: a file and its imports become one descriptor | `SchemaLabels` |
| `SchemaGenerator` | the items generated from that descriptor, what they mention, their labels | `SchemaResolver` |
| `ModFiles` | invocations over an output directory: configuration, directories, `mod.rs` files | - |
| `TackWriter_proofs`, `BothDirections_proofs`, `RoundTrip_proofs`, `ModFiles_proofs` | theorems about the module they are named after | that module |
| `Reader_proofs`, `Schema_proofs` | theorems about `VarintCodec`, `ScalarCodec` and `Upgrade`; about `SchemaResolver` and `SchemaGenerator` | those |
| `VarintLemmas`, `SequenceLemmas` | lemmas that several of them cite: varints and their digits; sequences, induction and recursion | `Varint`, - |
| `MC*` | values for the constants | |

### How state and actions correspond to the code

*Varint, Scalars.* A cursor (`&mut &[u8]`) becomes the bytes it points at and, in a
result, the number of bytes it moved over. A value's casts are arithmetic modulo the
size of the type. Radix, number of groups and width of the last group are constants,
128, 10 and 2 in the code: TLC uses a few bits per group, the proofs any.
The unrolled reader is one operator because each of its ten steps does the same; what
distinguishes it from the loop - the tenth byte is compared, not tested for a
continuation bit - is kept.

*TackWriter.* `buf` is `buffer[..len()]`, `open` the live Tacks with the two fields the
struct has, `mode` what the thread does. `Put` is every `put_*` (each writes all its
bytes or panics). `BeginMsg` is `put_msg` up to its closure: tag, placeholder, offset
`as u32`. `Drop` is `Tack::close`: `CloseInPlace` patches, `CloseOverflow` grows, shifts
and patches, `CloseExhausted` is the panic inside `grow`: in a normal return it starts
an unwinding, in an unwinding it aborts. `ClosurePanics` is a panic in caller's code.
`Growable` chooses the buffer: a `Vec` always fits, a `SliceBuf` until `Capacity`.
`grow` uncovers arbitrary bytes (`Stale`): zeros in a `Vec`, left-overs in a slice.

*RevWriter.* `backing` is the slice and `pos` its lowest written byte; `open` holds, for
each running `put_msg`, the tag and the length on entry, which the code keeps in a
local. `Prepend` is `claim`; a write that does not fit panics and changes nothing.

*WireFrames.* The stack of bodies alone, without offsets, placeholders or shifts.
`TackWriter!Frames` cuts `buf` at the placeholders of the open Tacks, `RevWriter!Frames`
cuts `backing` at the lengths on entry: that is the refinement mapping.
`MaySpill` allows what the code does on a full slice (a placeholder is left unpatched);
it is off for `Vec` and for `RevBuf`.

*BothDirections.* A program is the calls it makes. They are made forwards into a `Vec`,
kept in `script`, and then made in the opposite order into a `RevBuf`, where the end of a
message is the call of `put_msg` and its begin the end of that call's closure. Either side
may panic: forwards the Tacks are dropped, backwards nothing is. Within one call of a writer
`OrderedIter` turns the order round; from call to call the caller has to, who writes the fields in
descending order (`buf.rs:483-493`). That convention is what the run takes for granted; what the writers do
on their own, for lists and maps, is `RoundTrip`.

*FieldIter, Upgrade.* `buf` is the iterator's only field. One call of `next` is one action:
`SkipUnknown` is the `continue` loop, `NextField` the arm of the field behind it,
`Yield`, `Fail` and `End` the three results. Nested messages and packed fields are
yielded as the bytes they cover, as in the code, where they are decoded on demand.
A schema is a value; the generator's match arms become a case on the field's form.
In `Upgrade` four readers share nothing, so they run one after the other.

*FieldWriters, RoundTrip.* Here a buffer is only its direction, whether it has a
`claim_block`, and its bytes: how `put_msg` gets a length in front of a payload is the
subject of `TackWriter` and `RevWriter`. A writer is an operator from a buffer to a buffer
with the branches on `REVERSE` that `field.rs` has. `out` holds the buffers of a program
that is run against all directions at once, and against a forward buffer alone when it
streams formatted text, which panics elsewhere. `said` is what the calls said, one list for
each run of fields that a reverse buffer keeps in order; `Decode` hands one of the buffers
to `FieldIter`. The schema nests itself: a closure writes a list of the field `Inner`.
`RoundTripAssumption` says what the types of Rust and the generator say: a key fits a `u32`,
packed fields are of packable types, a map key does not stream, a value suits the type of its
field (`Suits`: what the implementations of `ProtoEncode` take). A call is made only if no buffer gets
longer than a `usize` by it; in the code memory runs out before.

*SchemaLabels.* A field as written is its type, keyword and options. `Field` is what the
parser makes of it under the syntax `scan_syntax` guesses, `resolve_field` in
`SchemaResolver` what the resolver changes once the type is known, `convert_field` what the
generator makes of that under the root file's syntax. `Meant` is what the text says, read
without any of the three.

*SchemaResolver.* `fs` is the files, a function from paths to their text: package,
imports, definitions, syntax, and whether the grammar takes it at all. `read_proto`
is recursive: `stack` holds its running calls, each with the definitions it has
collected and the import it has got to. `OpenImport` is the call for the next
import, the first include path that has it deciding which file that is;
`Return` resolves types, runs `sanity_checks` and hands the descriptor over in `desc`;
`Receive` is `unresolve_types` and the package a file inherits, `MergeNext` one turn of the
loop that pushes what the list has not got. Every early return is an action of its own that
sets `outcome`; an error is passed on by all callers at once, because `?` does nothing on its
way. A top-level item is one definition with its nested items as further parts, in the order
the code walks them; of several items with one full name the first entered counts, messages with what is nested
in them before top-level enums (`First`). A type is a name, or an index (definition, part) into the list it is in.
`StackOverflow` is a call deeper than `MaxDepth`.

*SchemaGenerator.* One more step behind a successful `read_proto`: `code` is the items
of the flat module, what the code of each field mentions, with the item meant, and each
field's label. A message is its schema struct, `Field` and `Fields`, and a struct for each of its oneofs, whose
name goes through the heck crate (`UpperCamelCase`, a constant). A word is a sequence of syllables, so that running names
together can produce the same identifier twice. Where the code panics, so does the model.

*ModFiles.* `new` and `build` of `ConfigBuilder` decide the output directory of each input;
`print_proto` walks the words of the package, `NextDir` makes a directory, and the actions of
`update_mod_file` read `mod.rs`, create it, and write to it. A `mod.rs` is its lines and what stands behind the
last end of a line. `writeln!` on a file makes a system call for every piece of its format and every argument
(`header`, `declaration`; `WritePiece`); one piece is taken to be written whole or not at all.
`EndEarly` ends the invocation between any two of them, `RemoveDir` is what a person does
between invocations. `passed` and `torn` remember, for the properties, what the
last invocation went through and where one ended in the middle of a declaration.

## Runs

| Run | Shows | Bounds, and why they are enough |
|---|---|---|
| `varint_codec` | `DecodesWords`, `SkipAgrees`, `SelfDelimiting`, `ReadersAgree`, `RejectsOnlyUnfinished` | all strings of up to 4 bytes; a varint has at most 3 groups, so both readers, the switch between them and bytes behind the varint occur |
| `scalar_codec` | `RoundTrips`, `LenPredicts`, `SkipsExactly`, `Evolves` | every value of 3-bit and 6-bit integers with every tail of up to 2 bytes |
| `tack_slice` | `TypeOK`, `StartInBuffer`, `Nested`, `PlaceholdersKept`, `Framing` | a slice of 10 bytes with stale bytes of two kinds, 3 messages deep: with 1-bit groups a length needs a second byte at 2 and a third at 4, so inner and outer lengths both overflow, and every write, reserve and close can run out |
| `tack_abort` (violated) | `ExhaustionPanics` fails, see Findings | a slice of 5 bytes |
| `tack_wrap` (violated) | `StartInBuffer` fails without the 4 GiB bound, see Findings | offsets modulo 8 instead of 2^32 |
| `both_directions` | `SameBytes`, `RoomIsExact`, `VecFraming`, `VecPlaceholdersKept`, `RevFraming`, `RevTypeOK` | programs of up to 10 forward bytes, 3 deep, over a `Vec` and a slice of 11, which is too small for some |
| `upgrade` | `OldSeesLess`, `CutSeesPrefix`, `Concatenates`, `Terminates`, `StopsAtError` | two or three fields of every form, whole, unknown and malformed, cut at every byte |
| `round_trip` | `ReadsBack`, `DirectionsAgree` | up to two calls of any writers (two are enough for an order between calls), one field of every label; six-bit bytes, so keys and lengths take one byte or two |
| `oneof_text` (violated) | `OutputBecomesValue` fails, see Findings | one formatted value |
| `schema` | `SameMeaning`, `Complete`, `NoStaleIndex`, `Verdict`, `EndsUnlessCyclic`; `NothingDangling`, `ClashesAsDeclared`; `LabelAsWritten` | 4555 file systems of up to four files: merges of three files with every kind of reference; chains, diamonds and cycles; reserved, defaulted and unknown fields; broken and missing files; generated roots with maps and imports; names that come out the same (a message beside a oneof, `AB` beside `B` in `A`, one name in two packages); each field of each syntax with up to one option, in a root and in an import |
| `schema_packageless` (violated) | `Complete` fails, see Findings | three files |
| `mod_files` | `Declared`, `DeclaredOnce`, `PanicsOnlyTorn`, `UserModsKept` | three invocations out of eleven; three are enough for one to be stopped, in the middle of a line too, one to find what it left and one to come after a removal; the user's files include an empty one |

Bounds are guards named in the modules: `Capacity` and `MaxDepth` (for a `Vec` the
capacity only stops the modelled program from writing more), `MaxLen`, `MaxTail`,
`MaxCalls`, `MaxRuns`; `MaxDepth` of the resolver is 4, and four files without a cycle never
get deeper.

What a property is checked against is written down independently of the code: `Framing`
and its relatives against `WireFrames`, `ReadsBack` against what was said,
`SameMeaning` against the scopes around a name in its own file (`Meaning`), `Complete`
against the files that can be reached, `Verdict` against what is wrong with
each file taken alone, `LabelAsWritten` against the text of the field.

### What the schema run leaves out

The code does not do what the properties ask for in every file system the grammar allows.
These cases are not in `Files` of `MCSchema`; each comes from the lines named:

- A file without a package imported by a file with one (`types.rs:662`): the finding
  `schema_packageless`. A root without a package panics the generator (`parser.rs:491`
  of `tacky-build`), which is modelled.
- One full name that ends another, say `p.M` and `q.p.M` (`types.rs:573`): an unresolved
  name has no leading dot, so after the merge it is looked up relative to the scope again and
  may be captured.
- Reserved numbers of nested messages, which `sanity_checks` does not visit
  (`types.rs:547`), and all `reserved` statements of a message but the last, which the parser
  overwrites. Both are modelled; `Verdict` takes over what is checked (`Insane`), so it says
  nothing about what is not.
- An edition behind a comment, and proto3 behind a comment under a root of another
  syntax: `scan_syntax` looks at the first bytes only (`pbrs/src/parser.rs:687`) and the
  fields get proto2's labels.
- A file of another syntax under a proto3 root, whose unpacked fields the generator packs
  (`tacky-build/src/parser.rs:256`), and `[packed = false]` in proto3, which the
  parser never looks at.
- Lists of options: the first key is taken with the rest of the list as its value
  (`pbrs/src/parser.rs:230`); `[packed = true, deprecated = true]` panics.

Of these the generator knows one: its comment at `tacky-build/src/parser.rs:253` says that
`scan_syntax` fails behind a comment, and repairs packing under a proto3 root, which
`LabelAsWritten` checks. Of the others, except the one that is a finding, no text of the
repository says what should happen. `mod_files` leaves out one more: `Declared` is not claimed
where an invocation ended between making a directory and declaring it (`torn`), because the
next one finds the directory and never declares it (`types.rs:486`). An invocation that ended after
creating a mod.rs and before its header leaves an empty file, to which the next one adds
without a header, and which the one after that takes for a user's; and one that ended behind
`pub mod ` leaves a line on which every later one panics (`types.rs:893`). Both are modelled, and
`PanicsOnlyTorn` says that nothing else leads to the second.

Clashes of identifiers, over which a module does not compile, are not left out: the run has files
with them. The module is flat and names are run together (`tacky-build/src/parser.rs:14`), so
two items may be called the same; `ClashesAsDeclared` says that this happens to those the
files declare so, and that no merge adds a clash or hides one.

### Fairness

`Upgrade` assumes that a reader's caller keeps calling `next` - the `for` loop the comment
of the generated iterator speaks of. `SchemaGenerator` assumes weak fairness of its whole
next-state relation: `read_proto` is a call that runs by itself and waits for nobody.
No other module needs fairness; their properties are safety properties.
Deadlock checking is off where the model really ends: an input at its bound
(`varint_codec`, `scalar_codec`), a reader that returned `None` (`round_trip`, `oneof_text`),
a call that returned (`schema`, `schema_packageless`), a last invocation (`mod_files`).

## Proofs

Each module of proofs follows the same argument: an inductive invariant `IInv`,
`Init => IInv`, one lemma per action for `IInv /\ A => IInv'`, and the property from `IInv`.

### The forward writer

`TackWriter_proofs` proves, for every radix, number of groups, capacity, depth and
every set of chunks, tags, widths and stale bytes:

- `TypeCorrect`: `Spec => []TypeOK`
- `StartsInBuffer`: `Spec => []StartInBuffer`, what the `SAFETY` comments of
  `Tack::close` and `fix_overflow` claim before they index without a check
- `TacksNest`: `Spec => []Nested`
- `PlaceholdersStay`: `Spec => []PlaceholdersKept`
- `FramesMessages`: `Spec => Framing`, the refinement of `WireFrames`

All five assume `StartFits`: the buffer is smaller than the modulus of `start`
(4 GiB). Run `tack_wrap` shows what happens without it.

None of the first four is inductive alone. That a placeholder is untouched by the shift of an
inner payload needs that the inner placeholder starts behind the outer one (`Nested`);
that the shift stays in the buffer needs `StartInBuffer`; both need the types. `IInv` is
their conjunction (`Invariance`). The proof follows the code: `PatchedProps` and
`CopyWithinProps` say what the two stores leave alone, `CloseInPlaceProps` and
`FixOverflowProps` that closing a Tack keeps every byte before its placeholder,
`AppendKeeps`, `PushKeeps`, `DropKeeps` what that means for the Tacks that stay open,
`NextIInv` puts them together, one step per action.

`FramesMessages` shows that every action is an action of `WireFrames` or a stutter
(`FramesStep`). A frame is the piece of the buffer between two boundaries, `Lo` and `Hi`, so each
case is about pieces: appending grows the innermost piece and no other (`AppendPieces`,
`AppendFrames`), a placeholder begins a piece of its own (`BeginFrames`), and closing a Tack
puts the length in the place of the placeholder, wherever the payload has to move for that
(`Spliced`, `SplicedPieces`, `CloseFrames`). When a close runs out of room the placeholder becomes
payload of the message around it, and `PlaceholdersKept` is what says which bytes those are. That
is why the refinement needs the whole of `IInv`.

### The reverse writer

`BothDirections_proofs` proves, for every slice, depth and set of chunks and tags,
`RevTypeCorrect`: `Spec => []RevTypeOK` - under any program a forward writer can have run,
the cursor stays in the slice and `self.len() - before` never underflows. The invariant adds
that `script` holds calls, and that while the forward pass runs there is a tag for every open
Tack: otherwise a mirrored `put_msg` might get no tag. The lengths on entry are bounded by the
length written so far, which only grows (`MarkType`, `PrependType`).

`RevFramesMessages`: `Spec => RevFraming` - the same program, read from the end of the slice,
is the same well framed message. A reverse buffer never moves a byte it has written, so the
argument is shorter: the frames are the pieces between the lengths on entry (`View`), those
lengths are in order (`Ordered`, part of `FramesInv`), and what is prepended joins the innermost
piece only. The sequence algebra both refinements need (pieces of a sequence, splices,
appends) is in `SequenceLemmas`.

`SameMessage`: `Spec => []SameBytes`, and `RoomFits`: `Spec => []RoomIsExact` - what the mirrored
program leaves in the slice is byte for byte what the program left in the `Vec` (shorter where a
placeholder was padded), and it runs out of room only in a slice that is shorter than that. The
invariant, `AgreeInv`, lays the script over the forward buffer (`Laid`): after its first k calls the
buffer had come to `at[k]`, the messages in `around[k]` were open, and the message that call k
begins has a length of `wide[k]` bytes and a payload of `size[k]`. All four are quantified. They
refer to the buffer as it is now, so every close that moves a payload moves
the positions behind it, and the forward pass keeps them in step (`Forwards`). The mirrored pass
goes through the same positions downwards: what it has written is the piece of the forward buffer
behind `at[n]`, where n calls are left, and the length on entry of each running `put_msg` is the
distance of that message's end from the end of the buffer (`MirrorExact`); with padding both
are bounds (`MirrorLens`).

The forward pass is `TackWriter` on a buffer that grows, driven by the program. `VecPlaceholdersStay`:
`Spec => []VecPlaceholdersKept` and `VecFramesMessages`: `Spec => VecFraming` carry the two
theorems about `TackWriter` over the `INSTANCE`; they need its hypothesis, `F!StartFits`.

### Varints and scalars

`Reader_proofs` proves, for every radix, number of groups, width and input:

- `SkipsWhereItReads`: `InputSpec => []SkipAgrees`
- `ReadersAgreeAlways`: `InputSpec => ReadersAgree`
- `RefusesOnlyUnfinished`: `InputSpec => RejectsOnlyUnfinished`
- `OnlyWords`: `InputSpec => []DecodesWords`
- `ReadsBackAlone`: `InputSpec => []SelfDelimiting`
- `LenFormulaCorrect`: the arithmetic of `encoded_len_varint`, for all 64 bit lengths

The readers and the skipper differ in how many bytes they look at. `ReadingIs` shows that
the loop and the unrolled reader are one reader, stated with `Continued`, the length of
the run of bytes with a continuation bit; `RunDecided` that this length depends on the
run and the byte behind it and on nothing that follows. What a varint's value is, is
induction over its bytes: `GroupSumSmall` keeps it below a power of the radix, which is why the
comparison of the tenth byte is enough to refuse what does not fit, and the digits that the
writers take by division add up to the word they were taken from.

And, under `CodecAssumption` (the widths are those of the code's types, relative to the radix):

- `ReadBack`: `CodecSpec => []RoundTrips`
- `Evolution`: `CodecSpec => []Evolves`
- `LengthPredicted`: `CodecSpec => []LenPredicts`
- `SkippedExactly`: `CodecSpec => []SkipsExactly`

There is one argument for each way of writing: a cast that is undone by the cast back
(`CastTwice`, and for negative numbers the division behind it, `IntQuotient`), zigzag, little-endian
digits, and a length in front. Round trip, predicted length and skipping are then
`ReadsBackAlone` with a value cast to a word; `Evolves` needs that a
narrow signed value is sign extended to a full word before it is written, so that whoever
truncates it to any width gets the same number.

### The decoder

`Reader_proofs` proves, for any schemas, numbers and types of fields and any bytes:

- `SeesLess`: `UpgradeSpec => []OldSeesLess`
- `SeesPrefix`: `UpgradeSpec => []CutSeesPrefix`
- `Concatenate`: `UpgradeSpec => []Concatenates`
- `ErrorIsLast`: `UpgradeSpec => StopsAtError`

Four facts about a single field carry all of it. A result is `Steady`: bytes added behind
the input change nothing but `Truncated`. What a type's `read` accepts, `skip_field` of its wire
type passes over, over the same bytes (`Agrees`). A call of `next` makes the buffer shorter. And skipping
unknown fields one by one is the loop the code has (`SkipUnknownProps`), by induction
on the length of what is left.

What a whole reading gives is a relation, `Reads`: the least one that ends at the end of the bytes
and adds a field or an error in front of a reading of the rest. `ReadsRules` and `ReadsInversion`
are its two directions, `ReadsOneWay` that it is a function, each by induction on the bytes.
`OlderReads` relates two readers of the same bytes, `HeadReads` a reader of a
prefix to one of the whole. The invariant then says of each reader that is running that what
it has yielded, put in front of a reading of what it has left, is a reading of what
it began with (`Underway`), and of those that are done that they have read everything (`FullReading`). `Reads` is a
set of sequences without a bound, so TLC cannot evaluate this invariant; it checks the four
properties. `FieldIterAssumption` says that packed fields are of packable types, as the generator
demands.

### The round trip

`RoundTrip_proofs` proves, for any fields, values, lists and keys that `RoundTripAssumption`
allows, and any number of calls:

- `ReadsWhatWasWritten`: `OneofsPlain => (RoundTripSpec => []ReadsBack)`
- `SameInEveryBuffer`: `RoundTripSpec => DirectionsAgree`

The hypothesis `OneofsPlain` says that no member of a oneof is given a value that streams its
text. The finding `oneof_text` is what happens otherwise; the second theorem does not need it.

The first half of the argument is about writers. Each of them, whatever its branches on
`REVERSE`, puts bytes that do not depend on the buffer, behind what is there or in front of it
(`PutFacts`, `FieldPuts`, `EntryPuts`, `MsgPuts`), and `CallsWrite` says so of every call: it
writes one run of fields, or, for a list written front to back into a buffer that grows
downwards, one run per element. What a buffer holds after a call is therefore an append or a
prepend of the same bytes, which is `DirectionsAgree` (`AddedIs`, `SameAdded`).

The second half is about what those bytes mean. `Means(s, fields)` says that there is a reading of `s`,
in the sense of `Reads`, which comes to `fields` once packed payloads, map entries and
nested messages are taken apart by the readers for them. A field
written from a value means that value (`MeansScalar`, which rests on the theorems about scalars),
a payload in front of which its length is put means what the payload means (`MeansPacked`,
`MeansEntry`, `MeansMapMsg`), and what two strings mean their concatenation means, in order
(`MeansJoin`, from the lemmas behind `Concatenate`). So every buffer means, at every moment,
what was said, forwards in a forward buffer and with the runs in opposite order in the others
(`Agree`, `AgreeStep`).

`ProgramInv` is the inductive invariant: every buffer agrees with what was said, and, once one
of them is being decoded, what the decoder has yielded in front of a reading of what it has left
is a reading of that buffer. When the decoder is done that leaves what was yielded
(`FinishedReads`), because a string has one reading only (`ReadsOneWay`). Like the invariant of
`Upgrade` this one rests on `Reads` and is out of TLC's reach; the run checks the two properties.

### The resolver and the generator

`Schema_proofs` proves, for any file systems, search path
and depth, under `ResolverAssumption` (the root is there, paths are not empty, the search path, packages, names, imports and definitions
are sequences, a definition starts with itself, a written type is no index, and no file defines two items of one kind
and name - the guarantee `types.rs:655` relies on):

- `GeneratedNeverStale`: `GSpec => []NoStaleIndex`
- `EverythingGenerated`: `GSpec => []NothingDangling`
- `GeneratedComplete`: `GSpec => [](Packaged /\ UniqueUnits => Complete)`
- `GeneratedMeaning`: `GSpec => [](Packaged /\ Clear => SameMeaning)`
- `ClashesWhereDeclared`: `GSpec => [](Packaged /\ UniqueUnits => ClashesAsDeclared)`
- `LabelsWritten`: `GSpec => [](Packaged /\ Clear /\ Usual => LabelAsWritten)`
- `VerdictHolds`: `GSpec => [](Packaged /\ Clear /\ Shown /\ Deep => Verdict)`

The first holds of `read_proto` alone (`NeverStale`), and
`GeneratorReads` carries it over: generating changes no variable of the
reader. The invariant (`ListsInOrder`) says of the list of every running call that
it is `Listed`: a sequence, each definition with itself first, no two of one key, no index. Of
what a call returns it says the same without the last - types are indices there - and of
what is being merged the same without the third, because the merge is what decides
it. So each step is about one passage: `OwnDefsListed` (parsing), `ResolvedReturned`
(resolving keeps keys), `ReceivedArriving` (unresolving leaves no index, in nested messages
either), `MergedListed` (a definition whose key the list lacks).

`EverythingGenerated` needs more (`SourceInv`): every definition in a list is `Sourced`, one that some file
declares with at most its package and the types and labels of its fields changed, and the descriptor that returned is
`Pointing`, every index of it leads to one of its items, of the kind the index says. What each step does to the
stack is stated once (`OpenImportDoes`, `ReturnDoes`, `ReceiveDoes`, `MergeNextDoes`) and cited
from there on. `ResolvedPointing` is where it is decided: `ResolvedTo` says that a name which is defined resolves to an
item that has this name, and a list in which some name is not defined (`Unresolvable`) does not return. `CodeInv` ties
the generated module to the descriptor it was made from.

The others have hypotheses about the files, because the code needs them ("What the schema run
leaves out"). Each is what that section says of one or two of the cases, in terms of the files alone:

- `Packaged`: a file with a package leads to no definition of a file without one. Where it does, the finding
  `schema_packageless` shows the definition lost.
- `UniqueUnits`: no two definitions have one kind, package and name; and `Clear`, which implies it: no
  full name equals or ends another.
- `Usual`: every file starts with its syntax, or its fields mean the same in proto2 or under a proto3 root; under
  a proto3 root there is only proto3; a field has at most one option, and not `packed = false` in proto3; keywords and
  options are where the language has them.
- `Shown`: a field has at most one option and a map field no keyword, and a file that hides its syntax from the parser
  behind a comment has only fields of that syntax.
- `Deep`: the stack has room for a call of every file the root leads to, of which there are finitely many.

TLC confirms that all 4555 file systems of the schema run meet them; the other exclusions of that section
are not needed.

- `CoverInv` says what a list has while imports are under way: the definitions of its own file and
  of all that the imports it is done with lead to (`Before`), each with the package of its file
  (`Faithful`) and told from imported ones (`Flagged`). The files a file leads to are a least closed set
  (`ReachLeast`), which is why the calls below a call need not be known: what returns is all its file leads to,
  also when a file is read twice, in a diamond, because its definitions are then there already.
  `AsManyAsPaths` turns keys that are distinct into definitions that come once.
- `MeaningInv` says what a type is on its way. As long as a file's own definitions wait for its imports they are as
  written; resolved, a type leads to an item its name means in that file (`Told`); unresolved and on
  the way to the file that imports it, it is the full name of that item (`Kept`). The step
  that could go wrong is the second resolution, from the scope of the item but in the list of another file (`LeadTo`,
  `ImportedResolved`): a full name is found again because none ends it but its own.
- `LabelInv` says where a label is on its way: as the parser left it (`ParsedLabel`) or settled, with "Packed" taken
  back where the values are neither numbers nor of an enum (`SettledLabel`); a descriptor's labels are settled. A field is
  resolved once in every list it gets into, and the label must not depend on how often: `TellsPrimitive` says that
  whether a resolved field is packable depends on what its name means in its own file alone, which `MeaningInv` gives.
  That files which do not parse never get into a descriptor is a part of the invariant too (`FromParsed`): a keyword of
  another syntax is refused there, so `LabelMeant` need not speak of it. `LabelMeant` is the rest, a
  case distinction over syntaxes and keywords, for the pair of syntaxes the parser and the generator go by.
- `ClashesWhereDeclared` needs no invariant of its own. Every generated item comes from one the files declare
  (`Origin`), every declared one is generated (`DeclaredItemIs`), and because a descriptor has every definition
  once (`CoverInv`) two items do not come from the same (`OriginIsOneToOne`). An item keeps its
  identifier on the way (`ItemsMove`), so the two sets of items clash at the same identifiers. `RootInv`
  adds that what is generated is generated from the root.
- `OrderInv` says what a file that has returned is: `Fine`, in order and leading to files in order only, by imports that do
  not go round (`FineRoot` is that `Verdict` asks this of the root). A call is done with imports that were found and
  are fine (`Done`), so a file that returns is fine if it is in order itself, which each of the four checks gives a part of:
  `ParsesIs` (the grammar), the search for imports, `FoundMean` (a list that resolves is of a file whose own names mean
  something) and `InsaneSomewhere`. The other direction is that no check fails for the wrong file.
  A name that is not found is one of the file's own: an imported one is full by then, and found (`NotFoundMeans`,
  `FullNameFound`). What is refused in a list is refused in the file it was written in, because numbers, defaults and
  reserved numbers are never touched (`GuardInv`). And a stack that overflows has more calls than there
  are files on a path of imports, which goes round (`OverflowNotFine`, `GoesRound`).

### The output directory

`ModFiles_proofs` proves, for any invocations, packages and files of the user's:

- `UserModsStay`: `Spec => []UserModsKept`
- `LinesStayUnique`: `Spec => []DeclaredOnce`
- `PanicsStayTorn`: `Spec => []PanicsOnlyTorn`
- `DirsDeclared`: `OutputsThere => (Spec => []Declared)`

The first holds for any user's files, empty ones and ones with the header among them (`UserAssumption`
says no more than that a file is lines and a rest). `IInv` says, besides, that a file which is being
written to is none that has to stay as it is: what follows the header is written without
looking at the file again. An empty file has no first line, so the code takes it for one of its
own and appends to it; the property says so.

The second needs `InvocationAssumption`, that packages are words and a word has no space or semicolon in it.
`OnceInv` says how far writing has got (`Progress`), and that the module being declared is not
declared yet: `AppendName` has looked, or the file is new. Where an earlier invocation left
a part of a line, what is appended makes a line that declares nothing.

For the third and the fourth, `SoundInv` says what a file is that is neither the user's
nor one an invocation ended in: the header and declarations (`Sound`), or as much of them as has been written
(`Half`). In such a file every line has something behind `pub mod `, and a line that names a module
declares it (`SoundReads`).

The fourth needs also `DirAssumption`, what any file system gives (a directory is below directories, a
file that exists is in one), and the hypothesis `OutputsThere`: an output that is no directory of the
user's is a file in one. Without it `create_dir_all` makes the directories above the first word of the package, and nobody
declares those. `DirsInv` says more than `Declared`, of every directory and at every step, whether
the last invocation went through it or not: it is declared (`Tells`), or cannot be because its mod.rs is the user's or
torn, or is the one `update_mod_file` is working on. That the next invocation may skip a directory
that is there rests on it. Two further facts carry it: what is gone through has all that is above it (`There`), so
a step makes one directory at most; and a file that is neither the user's nor torn is `Sound`, so
`update_mod_file` does not take it for somebody else's. Removing a directory
keeps this because all that is below goes with it (`PrefixOfBeginning`).

### Only model-checked

Every invariant and every action property of the passing runs is stated by a theorem. What is
left is liveness (`Terminates`, `EndsUnlessCyclic`), which is out of the
prover's reach. Induction is not, although the library's theorems of induction cannot be used - they take an
operator as a parameter: `LeastNat`, `SetInduction` and `Recursion` in `SequenceLemmas` state it for
sets, from which recursive functions (a varint's value, its digits) and least
relations (`Reads`) can be reasoned about.

## Findings

- `tack_wrap`: `Tack::new_with_width` keeps its offset `as u32`. In a buffer past 4 GiB
  it wraps, and the `SAFETY` comment in `close` no longer holds.
- `tack_abort`: a `SliceBuf` "panics if the buffer is exhausted". If it fills up inside a
  nested message, the Tacks dropped by that panic may need room for a longer length
  themselves; `grow` panics a second time and the process aborts.
- `oneof_text`: the generated writer of a oneof member takes any `impl ProtoEncode`, but
  writes `as_scalar()` instead of calling `encode`. `PbDisplay` and `PbWrite` return an
  empty `as_scalar()`, so their text is lost; their comments name only map keys and values
  as unusable.
- `schema_packageless`: a definition without a package takes the package of whoever imports
  it before it is compared with what is there. Reached twice it ends up under two names, and a
  message of its name in the importer's package hides it; the comment calls the merge
  lossless.

## Not modelled

- The grammar of `.proto` files: how text becomes tokens, comments, services, extensions,
  options of files and messages. It keeps no state; what it decides about a field, what it
  refuses and where it panics is modelled.
- The text of the generated items beyond their names, labels and the iterator, and the
  conversions between an enum and its number.
- The single pieces `FmtWriter` and `IoWriter` are called with (each is a `put_slice`), and
  what a release build does with formatted text on a reverse buffer, where only a debug
  assertion stands in the way (`buf.rs:697`).
- `AnyDir` forwards every call, `copy_small` is a copy loop; error messages; flags that
  nothing reads; tests, benches and scripts.
- Shortcuts that do not change what is computed: the leading-zero count in
  `encoded_len_varint`, short-copy ladders, unchecked indexing (whose preconditions are
  `StartInBuffer`).
- Time, memory use and allocation failure.

## What could come next

`ModFiles` under two invocations at once, should the build ever run them in parallel.
