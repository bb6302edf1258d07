# rpmpack, modelled in TLA+

rpmpack is a Go library that builds rpm packages, reads the packages it built,
and a handful of commands on top of it.  This directory holds TLA+ modules of
the library, the configurations that model-check them with TLC, and theorems
about them that the TLAPS proof system checks.

    tlc -workers 2 -config MCRPMRetry.cfg MCRPM       # a run
    tlapm RPMProofs.tla                               # proofs, likewise for the others

`PROJECT.json` lists the components, the runs, a faulty variant of the code for
each property (which has to break it), the source lines of each definition, the
findings, the hazards and the theorems.

## Inventory

| component | state | operations | depends on |
|---|---|---|---|
| RPM object, `rpm.go` | metadata, `files` map, index arrays, directory index, payload buffer with its compressor and cpio writer, payload size, custom tags and signatures, signer, changelog, scriptlets, the `signatures` and `headers` of the last Write, the `closed` flag | `NewRPM`, `AddFile`, `AllowListDirs`, `Add<Scriptlet>`, `SetChangelog`, `AddCustomTag`, `AddCustomSig`, `SetPGPSigner`, `ClearSignatures`, `SetSignature`, `Write` | all below |
| reading, `rpm_read.go` | none; it builds an RPM object | `ReadRPMFile` | header index, the RPM object's fields |
| directory index, `dir.go` | a list and its inverse map | `Get`, `AllDirs` | |
| lead, `header.go` | a name, `nameFromBinary` | `toArray`, `fromArray`, `computeName` | |
| header index, `header.go` | the kind and a map from tag to entry | `Add`, `AddEntries`, `Bytes`, `ReadHeader`, the `to...`/`pop...` readers | |
| changelog, `changelog.go` | a list of entries | `AddToIndex`, `toChangelog` | header index |
| relations, `sense.go` | lists of (name, sense, version) | `NewRelation`, `Set`, `addIfMissing`, `AddToIndex` | header index |
| file types, `file_types.go`; tags, `tags.go` | constants | | |
| tar conversion, `tar.go` | none | `FromTar`: a loop over `AddFile` | the RPM object |
| commands, `cmd/` | input and output files | `tar2rpm`, `sign`, `inject-in-changelog`, `dump-changelog`, `rpmsample` | the library |
| Bazel rules, `def.bzl` | | a `tar2rpm` command line | `tar2rpm` |

The compressors, the cpio format, OpenPGP and `io.Writer` are libraries outside
the repository; the models take from them what the code relies on.

How they interact.  A caller fills the RPM object and calls `Write`.  `Write`
walks the files in the order of their names; each goes into the index arrays and
the directory index, then through cpio and the compressor into the payload
buffer.  Then it closes the two writers, and writes to the caller's `io.Writer`
the lead, the signatures, the padding, the header and the payload, having
computed header and signatures (with the payload's digest) before the first
byte of either is out.  `ReadRPMFile` takes such a file apart: it pops the tags
it understands out of the header index into the fields of a new RPM object,
leaves the others as custom tags, and unpacks the payload into files, whose
modes, owners and types it looks up in the header's arrays.  `sign` and
`inject-in-changelog` read a package, change the object and write it.

What is hard.  The code is sequential: there are no goroutines and no locks.
Its hazards are of other kinds:

* *partial failure*: `Write` has a dozen places at which it returns an error,
  and does not undo what it did to the RPM object before;
* *repetition*: nothing stops a second `Write` (the flag that should is never
  set), whose arrays start with what the first one left, and whose payload
  writers are closed;
* *protocol*: calls between a failed `Write` and the next, and calls on an
  object that was read, which is not in a state `NewRPM` can make;
* *two views of one thing*: header arrays and payload entries, the directory
  list and its map, a tag computed and a tag kept, a digest and its bytes;
* *sharing*: slices and pointers that an RPM object has in common with its
  caller, and through it with other RPM objects;
* *files*: a command that is killed, or fails, with its output written in part,
  which may be the file it read;
* *limits*: the lead's 66 bytes, alignment in the header, sizes and times at the
  end of their 32 bits, an index right behind the end.

What makes each part correct: the file index, the directory list and the payload
tell of the same files in the same order; `Write` reports success exactly when a
complete package is out, and what is signed is what was written; the caller's
custom tags win; a second `Write` is refused, or at least never produces a
broken package; a package that is read gives back what was written, and writing
it again changes nothing.

## Modules

| module | what it is |
|---|---|
| `GoMap` | Go maps as functions; `index.Add`, `index.AddEntries` |
| `DirIndex` | `dirIndex`: `Get` as the position returned (`DirPos`) and the new state (`DirAdd`); `DirIndexOK`, the pair being inverse |
| `Lead` | lengths of the lead and its name |
| `RPM` | the RPM object, its calls and `Write`, step by step |
| `RPMProperties` | what `RPM` should guarantee |
| `PackageWriter` | the abstract specification: what a writer of packages promises its caller |
| `RPMRefinement` | that `RPM` implements it: the package of a set of values, and the mapping |
| `Compressor` | the compressor setting: which give a writer, what of it is kept, which names can be read |
| `RoundTrip` | `RPM` with `ReadRPMFile`, and the properties of reading and rewriting |
| `HeaderIndex` | the bytes of a header: `index.Bytes`, `ReadHeader`, and `seekFile` |
| `Relations` | lists of relations: parsing, printing, slices with their arrays, the three columns |
| `Changelog` | the changelog: entries shared with the caller, the three columns |
| `Metadata` | the two side by side, as the lists of one `RPMMetaData` |
| `Tar` | `FromTar`, a recursion over the entries of a stream |
| `Commands` | `tar2rpm`, `sign`, `inject-in-changelog`, `dump-changelog` on a file system; extends `Tar` and `Compressor` |
| `RPMProofs` | theorems about `RPM`: its file index and payload, its result and output |
| `RefinementProofs` | the theorem that `RPM` implements `PackageWriter`, but for its ending |
| `RoundTripProofs` | theorems about `RoundTrip`: what reading gives back and rewriting keeps |
| `HeaderIndexProofs`, `RelationsProofs`, `ChangelogProofs`, `CommandsProofs` | theorems about the modules they are named for |
| `Lemmas` | facts about numbers, recursion and sequences that the proofs share |
| `MCRPM`, `MCRoundTrip`, `MCHeaderIndex`, `MCMetadata`, `MCCommands` | instances for TLC |

Definitions whose comment calls them a *fault variant* stand before the one they
are a variant of; no specification uses them.

### RPM

State.  One variable per field of the Go struct: `files`, `scripts`,
`changelog`, `customTags`, `customSigs` (with `customSigsNil`, whether the map
was made at all), `pgpSigner`, `di`, `payloadSize`, `closed`, `signatures`,
`headers`, `lead`.  `rows` is the nine index arrays, which are always extended
together, as one sequence of rows.  `cpio` is the cpio writer and the compressor
behind it: the entries taken so far, and whether they were closed; `Payload` is
the payload buffer.  `pc`, `todo` (the rest of the sorted names), `hdr` (the
header, a local variable of `Write`) and `res` are the control state of `Write`;
`out` and `image` are what its `io.Writer` took: the sections in order, with
`"torn"` for one taken in part, and their contents.

Data.  A file name is a number, its position in the order `sort.Strings` uses;
`SplitDir` and `SplitBase` are `path.Split`.  Other strings and file bodies are
represented by their length, a mode by its type bits, `FileType` by the flags the
code depends on.  Owner and group are one array (`fileowners`), no guard tells them
apart; the time of a file stands in its row and in its payload entry, as reading
takes it from the entry.  A digest or a signature *is* the value it was computed from, so
that "the digest is that of the payload written" is an equality.

Actions.  A call of the caller is one action.  `Write` is one action for its
start, one per file, one for closing the payload, and one per section.  A file
step can fail when the cpio writer is closed, having extended the arrays
already, as `writeFile` does; closing can fail when it was closed before (the
libraries decide); a section step can fail at `w.Write`, which may have taken a
part; the lead step fails when the lead has not 96 bytes; the signatures step
fails when the signer does.  What cpio and the compressor do otherwise they do
into memory, and succeed.

Sizes are counted modulo `Words`, the 2^32 of the code: the file sizes when they
go into their array, the payload's size when it goes into a header or a
signature (`payloadSize` itself is a machine word and does not wrap).

### PackageWriter and RPMRefinement

`PackageWriter` knows nothing of sections, rows or payload writers.  The caller
has set a content; a call of `Write` ends, with an error and no package, or with
a package, which for the first call is `PackageOf(content)`.  What a later call
delivers is left open: it depends on what the failed ones left in the object,
and `IndexCoversPackage` and `RewritesOnlyGhosts` say what is known of it.

`RPMRefinement` defines `PackageOf` without the steps of `Write`: the names sorted,
each directory once in the order of its first file, the file index as what each
file is `Described` as, column by column, the payload as the files that are no
ghosts, whatever their other flags, the header as one expression in which what
wins stands before what yields, the signatures as functions of header and
payload.  It has in common with the code only the formulas for a full version and
for the lead's name (`FullVersion`, `LeadName`), and the sum of the bodies
(`BodySum`), which is the properties' own.  The mapping hides all of `RPM`'s
variables but the caller's: `writing` is `pc` off `"idle"`, and there is a package
once the caller's `io.Writer` has taken all sections, whatever `Write` returns.  That
an error comes without a package is thus said of what was put out: a `Write` that
reported an error behind its last section, or none before it, would violate it.
`ImplementsWriter` has the liveness part, `Ends`; `WritesPackage` is the part without
it, for the run with the larger state space.

### Relations and Changelog

A Go slice is the number of an array in `heap`, with a length; the array has as
many elements as the capacity.  `append` writes into the array while there is
room and otherwise copies it to one of twice the size.  `NewRPM` stores the
caller's slice in the object and appends to it, so the array may be one for both
and the object's own relation stand behind the caller's last.  `asked` and the
packages' `asked` are what was put in by whom; the properties say which list
keeps what.  Texts are sequences of tokens, as in the regular expression of
`relationMatch`: words, blanks, the three comparison characters, parentheses.
`Match` is what its greedy groups find from the first character on.

A list becomes three columns.  `Popped` is what reading takes out of the header,
which is not all three when one is missing (or, in `Changelog`, has another
type); what is left over becomes the new object's custom tags.  `Changelog`
follows the object around that circle, with the caller changing entries through
the pointers it got.  Times go out as uint32 and are read as int32.

`Metadata` instantiates `Changelog` beside `Relations`.  The two have no state in
common, so a behaviour uses one of them.

### Tar and Commands

A file is a sequence of units, each a part of a section of a package, so that
writing can stop anywhere and a file can have parts of two packages.  A package's
number of units depends on its files, its changelog and its signature: packages
of different length meet in one file.  The commands are sequential and run one
after the other; a run is a sequence of stages in the order of `main`, each with
the errors the code checks for, and can be killed at each.  `tar2rpm` creates its
output before it looks at its input (`Create`, `ReadTar`), `sign` and
`inject-in-changelog` read first and then open the output as it is
(`ReadInput`, `OpenOutput`).  `WriteUnit` writes over what is there.  `Reads` says
what `ReadRPMFile` makes of a file: of a whole package, the package; of a file
with something behind the package or with sections of two, an error or what the
sections say.  That `Write` and `ReadRPMFile` keep a package is
the subject of `RPM` and `RoundTrip`, and taken for granted here.

### RoundTrip

`ReadRPMFile` reads the output of the last `Write`, complete or not, and makes
the result the RPM object; `source` keeps what was read.  All fields are set as
the code sets them, among them the ones that are strange: `di` with its list and
without its map, `customSigs` nil, `headers` and `customTags` one map,
`payloadSize` starting at the tag's value.  The outcomes are a package, an error,
and a panic: a file cut off before its header ends a fixed size conversion, and
a payload with more entries than the arrays have rows an index expression.
`PaddingSkipped` is `seekFile`, which goes forward by `offset % 8`: right when
the signatures end on a multiple of 4, and an error when they do not.  A custom
signature behind the computed ones may end anywhere (`HeaderIndex` has the
bytes), so that reading then may fail.

### HeaderIndex

One index: `Add` fills it with entries made of Go values (`EntryInt16` and the
others, the only way to make one outside the package) or with entries as
`ReadHeader` gave them, when a package that was read is written again.  `Bytes`
lays it out with one action per turn of its loop (`offsets` and `entryData` are
its local variables), and `ReadHeader` takes it apart again from a file that may
end anywhere in the store.  The store is made of bytes, since the questions are
about bytes: where an integer begins, which NUL ends a string, what is missing at
the end.  The index in front of it is a record per tag.  A Go string may hold a
NUL, which `ReadHeader` takes for its end: such values are in the model, and
`ReadsBack` and `ConvertsBack` are about the others (`PlainValues`).  `SeekFile`
and `Padded` are the two sides of the padding behind the signatures, which do not
compute it in the same way.

`RPM` and `RoundTrip` treat a header as its map of entries.  `ReadsBack` is what
allows them to: a map that is written and read is the same map.  (An array of no
strings loses its lone NUL, which changes nothing in its value; `RPM` never
writes one, but a custom tag may be one.)

## Runs

| run | asks | bounds |
|---|---|---|
| `files` | one `Write`: do the index, the directories and the payload agree, and does `Write` implement `PackageWriter`, its ending included | root and three files in two directories with a base name in common; files of four kinds (device that is a configuration file, directory, symlink, ghost); `AllowListDirs`; metadata with its optional parts, a scriptlet, a changelog, a custom signature for one that `Write` computes |
| `retry` | up to three `Write`s, each failing anywhere, calls in between: types, coverage of the index, payload entries against rows, which retries can get through, when success is reported, what is signed, the size, the promises of `PackageWriter` | two files in two directories, of three kinds (regular, directory, ghost); metadata that provides the package already, and with a lead that does not fit; a custom tag for one that `Write` computes, a signer |
| `reread` | write, read, write, read, write without a change: what is restored, what is kept, and that custom tags and signatures win | two files (regular, directory, symlink), full and minimal metadata, a scriptlet of each sort, custom tags for both, one an unreadable scriptlet, an unaligned signature |
| `reread_retry` | reading what a first `Write`, a retry and a failed one left, ghosts among the files, then changing and writing it | two files, regular, directory, ghost; two `Write`s, one read |
| `layout` | where `Bytes` puts the entries, whether the offsets lead to them, whether `ReadHeader` gives them back, what it makes of a file that ends early, whether `seekFile` finds the header, whether the readers' conversions undo the writers' | up to three entries, twelve values: each type, integers behind one to four bytes of other data, NULs inside data and strings, empty strings and arrays; every length of the store |
| `metadata` | what texts are parsed as and printed; who keeps which relation when lists share arrays; do changes of the changelog through the caller's pointers get into the next package, and does anything hide them | every text of up to four tokens of eight, and two longer ones; three calls of `Set`, two of `NewRPM`, lists that start with none, one or two elements; two faulty custom columns; changelogs of up to two entries, two calls of `SetChangelog`, two reads, custom tags for each column, one of another type and one of another length |
| `commands` | what is in the output after success and failure, which changelog entry is changed, whether commands end | two commands, two files, each absent or with a package at first; five tar streams (a name twice, the root, a refused entry, a damaged stream), a good and a bad setting, an allow list or none, seven indexes for two entries |
| `lead_length`, `write_after_close`, `ghost_flag`, `ghost_lost`, `script_ignored` | the findings | |

Why the bounds are enough.  The relations between rows, directories and entries
are between neighbours and between equal or different directories: three files
in two directories with a shared base name have each case, two files suffice
where the question is what survives a `Write`.  A second `Write` meets the
leftovers of a first, a third those of a retry; nothing is reset in between, so
a fourth meets what a third did.  `MaxWrites` and `MaxReads` bound the calls, and
the caller makes no calls behind the last `Write`, where no output would show
them.  In a header, what an entry does to the next depends on the length of the
store modulo 4, which two entries in front of the third take through all its
values.  `Words = 4` lets the sizes of two files wrap, in sum and alone, and a time
be in the upper half of its word.  A slice's behaviour depends on whether its
array has room: three appends take one from empty through a full array of one, a
full one of two and one of four with room.  A text of four tokens has each part of a
relation, in each order; all but four of the texts come first and alone
(`TextsNow`, `Extensible`), as the arrays do not depend on what the relations say.  Two
commands are enough for one to meet what the other left, in a file of its own or
in its input; an index from -3 to 3 is on either side of a changelog of two
entries, and on its ends.  The caller may stop calling, so the runs do not check for deadlock.

Fairness.  Only `WriteStep` is (weakly) fair: `Write` runs its loop and its
steps without waiting for anything but its writer, and the caller need not call
again.  `PackageWriter` states the fairness of its own as `Ends`, `[]<>(~writing)`: since
`Fail \/ Deliver` is enabled as long as a call runs, this is what weak fairness
of them gives.  `RPM` implements it because the loop is over a finite set, which
each step makes smaller.  In `Commands` the steps of a command are weakly fair for
the same reason; being killed is not.

## Findings

Each is a run that TLC ends with a counterexample.

* `lead_length`: a full name of more than 65 bytes is cut to 65 in a field of 66;
  the lead has 95 bytes, and `Write` fails (`header.go:540`), after the payload
  was closed.  At 66 bytes, `header_test.go` tries such names.
* `write_after_close`: `closed` is never set, and `ErrWriteAfterClose` never
  returned (`rpm.go:246`).
* `ghost_flag`: flags can be OR-ed (`file_types.go:7`) and a ghost "is not actually
  included in the payload" (`file_types.go:27`), but `writeFile` compares the flags
  for equality (`rpm.go:581`), and a ghost with another flag gets a payload entry.
* `ghost_lost`: `readFile` indexes the arrays with the number of the payload entry
  (`rpm_read.go:259`); behind a ghost, files get the row of another.
* `script_ignored`: `readScript` ignores its tag arguments (`rpm_read.go:120`); the
  other scriptlets stay custom tags and hide one that is set later.

Seen on the way, modelled as it is, without a run of its own:

* a device whose mode has the bit 020000 alone is written with the bits of a
  symlink (`rpm.go:573`), and is one when it is read and written again;
* `SourcePackage` is set on the argument after it was copied
  (`rpm.go:152`);
* a retry after `AllowListDirs` emptied `files` succeeds, with payload entries and
  no file index, and reading that package panics;
* after a read: `AddCustomSig` panics (nil map); `headers` is what was not
  understood, shared with `customTags`; the size tag and the directory list grow
  with every rewrite;
* `TestWriteThenReader` expects the headers and the payload buffer of the object that
  was read to equal those of the one written (`rpm_test.go:244`); reading takes the
  tags it understands out of the first and does not fill the second;
* `SetSignature` on a new object panics, and has no effect on `Write`;
  `ClearSignatures` takes a size for a kind;
* `ErrWrongFileOrder` is never returned;
* with room in the array of the caller's `Provides`, a package's own relation is
  written behind the caller's last, where the next `Set`, or the next `NewRPM`
  with the same metadata, writes as well (`sense.go:99`): the first package then
  provides something else in place of itself (`PackageProvidesItself` says in
  which case only);
* `inject-in-changelog` tests `len(changelog) < index`, and panics for an index equal
  to the length (`cmd/inject-in-changelog/main.go:65`); `InjectChangesOne` says that
  no other index makes it panic on a changelog that has entries;
* `sign` and `inject-in-changelog` open their output without `O_TRUNC`: over a longer
  file, its end stays behind the package (`cmd/sign/main.go:86`), the exception
  in `SuccessReadsBack`;
* `tar2rpm` creates, and so empties, its output before it knows that the tar stream
  and the compressor setting are good; without `-prefixes` it puts one empty
  prefix in the header (`strings.Split` of an empty text);
* `sign`'s signer is called when the lead is out already; when it fails, the input
  survives only because that lead is the one it had;
* `NewRelation` accepts every text: what follows a blank is a version without a
  comparison, and a leading blank makes the name a version;
* relations or a changelog whose columns do not fit together are dropped without
  an error, with those of the columns that were popped before the first misfit.

## Proofs

Each theorem states one property for every value of the constants: any set of
names, files, calls, texts, tags or streams, any number of steps.  The number of
calls is bounded by constants (`MaxWrites`, `MaxRuns`, ...) that may be any
number.

| theorem | property | says |
|---|---|---|
| **`RPMProofs`** | | |
| `TypeCorrect` | `TypeOK` | types |
| `DirIndexCorrect` | `DirIndexInv` | the directory list and its map stay inverse |
| `IndexCovers`, `RowsNameCorrect` | `IndexCoversPackage`, `RowsName` | every file that `Write` has passed has a row that leads to its directory and base name, and every row is some file's |
| `SortedCorrect` | `IndexSorted` | a first `Write` has its rows in order, each file once |
| `PayloadCorrect` | `PayloadFollowsIndex` | the k-th payload entry is the k-th row that is no ghost, with its mode, time, size and digest, if no ghost has another flag |
| `RewriteCorrect` | `RewritesOnlyGhosts` | a `Write` after the first gets past its files only if all are ghosts |
| `OkCorrect` | `OkIffComplete` | `Write` reports success exactly when its writer took the five sections whole and in order |
| `SignedCorrect` | `SignedIsWritten` | digests and signatures are of what was written |
| `SizeCorrect` | `SizeIsPayload` | the size tags are the sum of the bodies, modulo `Words` |
| `CustomCorrect` | `CustomWins` | what the caller set is in the output |
| **`RefinementProofs`** | | |
| `WriterCorrect` | `WritesPackage` | every step is one of `PackageWriter` or none: a first `Write` that succeeds has put out the package that `RPMRefinement` defines of the caller's values; one that fails, none |
| **`RoundTripProofs`** | | |
| `RoundTripInv` | | the invariant of an object that is written, read and written again, any number of times |
| `IndexCoversRead` | `IndexCoversPackage` | the file index covers the files of an object that was read, too |
| `CustomRead` | `CustomWins` | and the custom tags of one are in what it is written to |
| `FirstReadable` | `FirstWriteReadable` | reading what a first `Write` completed does not run off the arrays |
| `PayloadRead` | `ReadRestoresPayload` | and gives back the files that are no ghosts, and no others, with their times and bodies of the right size |
| `MetaRestored` | `ReadRestoresMeta` | metadata and changelog are read as they were |
| `FilesRestored` | `ReadRestoresFiles` | without ghosts, so are the files |
| `PathsKept` | `RewriteKeepsPaths` | without ghosts, a package that is read and written again has the paths it had |
| `HeaderKept` | `RewriteKeepsHeader` | and all its other tags, with their values, and its lead |
| **`HeaderIndexProofs`** | | |
| `LayoutCorrect` | `Layout` | entries in the order of their tags, apart, integers aligned, no needless padding |
| `StoreCorrect` | `StoreHolds` | the data of an entry is at its offset, and stays there |
| `ReadsBackCorrect` | `ReadsBack` | a whole header is read as it was written |
| `ConvertsCorrect` | `ConvertsBack` | the Go values taken out make the entries that were put in |
| `CutCorrect` | `CutReads` | a header cut short is refused or loses only the ends of strings |
| `SeekCorrect` | `SeekFinds` | `seekFile` finds the header or gives up, and when it does not |
| **`RelationsProofs`** | | |
| `CallerCorrect` | `CallerKeepsList` | the caller's list is what the caller asked for |
| `PackagesCorrect` | `PackagesKeepList` | a package keeps what it was made with |
| `DuplicatesCorrect` | `NoDuplicates` | no list has a relation twice |
| `ItselfCorrect` | `PackageProvidesItself` | when a package provides itself |
| `RelationsReadBack` | `ReadsBack` | three columns give back their list; with faulty columns, nothing or a list as long as they are |
| `SetCorrect`, `PrintsCorrect` | `SetUnderstands`, `PrintsBack` | what texts mean, and that printing undoes parsing |
| **`ChangelogProofs`** | | |
| `SeenCorrect` | `SeenIsRead` | what the caller saw when it wrote is what is read |
| `HidesCorrect` | `NothingHides` | no column stays behind to hide the next change |
| **`CommandsProofs`** | | |
| `FromTarFinds` | | unless it fails, `FromTar` ends with the last entry of each name, for streams of any length |
| `SuccessCorrect` | `SuccessReadsBack` | success leaves the package in the output |
| `FailureCorrect` | `FailureKeepsOld` | failure leaves the old package, as far as the code can |
| `InjectCorrect` | `InjectChangesOne` | one changelog entry is changed, the one that was meant |

### Assumptions

They are named in the module that declares the constants, and TLC evaluates them
in every run.

* `RPM`: `NamesAssumption` (names are numbers, the two parts of a path determine
  it), `FilesAssumption` and `CallsAssumption` on the arguments of the calls,
  `MetasAssumption`, the type of `RPMMetaData`.
* `HeaderIndex`: `TagsAssumption`, `ValuesAssumption`, the types of tags and of Go
  values.  The integers in them may be any: `ConvertsBack` compares bytes, which
  do not change beyond the width.
* `Relations`: texts are finite sequences of tokens (`RelationsAssumption`); the
  lists callers start with have no duplicates (`LiteralsAssumption`: the code
  prevents them in `Set` only, and a literal is the caller's own affair); custom
  columns are sequences (`OverridesAssumption`).
* `Metadata`: times in changelogs are numbers below `Words`, custom columns
  sequences, that of the times of times (`ChangelogsAssumption`).
* `Commands` and `Tar`: `PackagesAssumption` and `TarsAssumption`, types: streams
  are sequences of entries, a package has finitely many files and the lead of its
  name.

Some theorems have hypotheses, which hold in the passing runs that check their
properties:

* `GhostsAlone` (`PayloadCorrect`, `WriterCorrect`, `PayloadRead`): a file with the ghost
  flag has no other.  With one it gets a payload entry, as `ghost_flag` shows;
* `OwnTags` (all of `RoundTripProofs`): the caller's custom tags are none that `ReadRPMFile` takes
  out of the header, but the pretrans scriptlet, which may be set as a tag.  Such a
  tag hides what `Write` computes, and is taken for it when the package is read:
  `AddCustomTag` with a file array makes a package whose arrays do not fit
  together, and nothing could be said of it;
* `NoGhosts` (`FilesRestored`, `PathsKept`, `HeaderKept`): with them the properties are
  false, as `ghost_lost` shows;
* `NoDevices` (`HeaderKept`): no file has the bit of a character device (020000) and
  neither that of a regular file nor a directory's.  `writeFile` gives it the
  regular bit, which makes its mode a symlink's (`rpm.go:573`); TLC finds
  `RewriteKeepsHeader` violated when `Files` has one;
* `EditsAfterRead = FALSE` (`PathsKept`, `HeaderKept`): the caller does not change what
  was read, which is what the two properties are about.

`ReadRestoresFiles` and `ReadRestoresMeta` compare what is read with the object
that was written, and say so of the last `Write` the bounds allow (`Untouched`), of
which it is known that no call comes behind it.

### The arguments

**The file index.**  `TypeOK` is inductive with `DirIndexOK`, which holds because
`Get` adds to the list and the map at once and takes the position before.  Index
coverage is not inductive alone: a row stays right only because the directory
list grows at its end (so a position keeps its name), a new row is right only
because the position `Get` returns is in the list it leaves, and a retry starts
with no file passed.  The induction is over types, `DirIndexOK` and coverage
together (`PathOK`, `RowsInv`).  `IndexSorted` needs the files still to come: on a
first `Write` each of them is behind every row (`OrderInv`).  `PayloadFollowsIndex`
counts: the rank of a row is the number of payload rows up to it, and a row that
is appended has the rank of the entry that follows; while the writer is open
there are as many entries as payload rows, and the error that leaves a row
without its entry can only come when the writer is closed, that is on a retry
(`FollowInv`).  A row is one of the payload when its flags are not exactly the
ghost's, which is what the property says if ghosts have no other flag.
`RewritesOnlyGhosts` needs two more parts (`ClosedInv`): once a second
`Write` has been entered and passed a file, that file is a ghost or the writer
still open; and a `Write` behind which there is another one either closed the
writer or stopped in its file loop, which it can only when the writer was closed
before.

**The output.**  `OkIffComplete` is almost inductive: what it says of each section
is restated element by element (`OutInv`).  For the content, `ContentInv` says that
header and signatures, from the step that computes them to the last, are the
values of the object's fields: they are local variables of `Write`, and no step
behind the first section changes a field they are made of.  `payloadSize` is the
sum of the bodies in the payload (`BodySumAppend`).  `SignedIsWritten` and
`SizeIsPayload` exempt the tags the caller set itself, which `Write` does not
compute.

**The refinement.**  `RPMRefinement` defines the package without the code's walk:
the file index and the payload are the files listed in the order of their names,
the directories in the order in which those names first mention them, and the
header is one map over the other, the caller's tags on top.  `WritesPackage` says
that a first `Write` that succeeds has put out this package of what the caller set,
that calls and retries are steps of `PackageWriter` too, and that a `Write` that
reports an error has not put out all sections, and one that does not, has
(`ResultInv`).  The invariant is `RefInv`.  `WalkInv`, its heart, is about the first
`Write`: the arrays are what the package has for the files passed so far, which
come before those left.  The file passed next is then the last of each list
(`ListsMore`, `FileWalked`): its directory is one that was mentioned, or a new one
behind all others (`OrdersGrow`).  The definition picks *some* list with `CHOOSE`, so
that the code's is the same needs that there is only one: `ListsAgree` shows by
induction that two lists of one set in one strict order agree.  `SetInv` says what
no call changes (the package provides itself, and its lead is its own), `TakenInv`
which sections the writer has; `HeaderIs` compares the chain of `Add` calls with the
maps, part by part, and `Delivered` puts the sections together.

**Reading and rewriting.**  An object that was read is not one `NewRPM` can make:
its directory list has no map, its payload size starts above 0, its custom tags are
what is left of a header.  So `ReadRPMFile` is a second way into the invariants
above, and they have to be true of what it makes.  `PathOK` is not: the map is not
the inverse of the list.  What the step lemmas need of the directory index is less
(`ObjectOK`): where the map has a directory, the list has it at that position.
`RTInv` joins `ObjectOK`, the parts about rows, order and closing, and what
makes reading succeed: `IsPackage` says that in a complete output every tag that is
read has a value of its type, that the arrays are as long as each other, and that
an optional tag that is there is not empty.  It is established by the step that
completes a package (`Completes`), from the header part by part (`HeaderParts`); no
other step changes a complete output but the start of the next `Write`, and
reading gives an object with no files passed, no rows and an open writer, as good
as a new one (`ReadKeeps`).

`SigInv` adds what the signatures are made with, for `CustomRead`.

On that rest invariants that each relate a complete output with something else:
`FirstInv`, the header's rows with the payload's entries, for a first `Write`,
through a directory list that may have grown in front (`PathOf`); `MetaInv` and
`FilesInv`, what would be read with what the object has, as long as no call has
changed it; `PlainInv`, that without ghosts rows and entries correspond one to
one (`Aligned`) or there are no rows.  A package without rows may have entries (the
retry after `AllowListDirs`), and then cannot be read.  `AloneInv` keeps that a file
with the ghost flag has no other, whether it was read or not, so that the rows of
files that come back are those without the flag.  For the rewrite, `SourceInv`
keeps that the object is still what was read (`IsObjectOf`) and `KeptInv` compares
the next complete output with it.  The files of both are listed in the order of
their names, and there is only one such list (`ListsAgree`), so the k-th row of
one is compared with the k-th of the other; it is the same in all arrays because
`writeFile` changes nothing in a file it has written once (`RepeatInv`), which is
where devices come in.  Paths are equal though directory positions are not.  The
tags are then compared one by one: a tag that is taken out is computed anew from
the field it went to, and is absent if it was; another is a custom tag, which
`Write` adds last.

**Header bytes.**  `Layout` and `StoreHolds` are inductive together with three
parts: the tags laid out are below those left (so a turn of the loop adds an
entry, and behind all others), the store ends with an entry (so the padding of
the next is measured from an end), and the index does not change once `Bytes` has
begun.  `PadAligns` is the arithmetic: the padding takes an offset to the next
multiple of the boundary.  `ImageInv` and `ReadInv` carry this on to what `Bytes`
returned and `ReadHeader` made of a part of it.

What `ReadHeader` finds at an offset depends on the type.  For numbers and binary
data it is as many bytes as the index says, and that this is the entry's length
is shown from what the constructor joined: `JoinedIs` says where in a
concatenation each part is.  For strings it is what the NULs say.  `StringEndIs`
and `StringsEndIs` show that in data made of strings without NULs the ends found
one after the other are those the strings were written with, wherever in the
store the data is, since the bytes in front are not looked at and those behind
come after the last NUL (`ReadDataIs`).  For a store cut short only
`StringsEndWithin` is left: the ends do not go backward and not beyond the data,
so that what is read is a beginning of what was written.  The conversions are
undone byte by byte: `Int16Back` and `Int32Back` are the two's complement, and
`StopsAre` is `StringsEndIs` once more, for the NULs the Go code splits at.
`SeekIs` says when `seekFile` is right, which is when the store ends on a multiple
of 4; an int32 that is the last entry brings it there.

**Relations.**  The question is who else can write into a list's array.  An append
either copies, or writes the element behind the list that is appended to:
`Grows` says that of a step, and that no other element changes.  So an element
once inside a list's length is never written again, and `ListOK` (the list is a
slice into the heap and holds what was asked for) is kept for the caller's
list, which is only appended to, and for the first elements of a package's.  The
package's own relation is behind those, in room that the caller's list may get
to; `LastInv` is what is true of it, for the package made last and as long as
the caller adds nothing.  Parsing is about the regular expression: `Parts` names
the four places at which its groups end, `MatchIs` shows that they determine the
match, `PartsExist` that every text has them, and what is printed is then taken
apart at the places where it was put together.

**Changelog.**  `LogInv`: the pointers of the object and of the caller lead to
entries; a header that was written has the three columns of these entries, with
custom columns over them.  The column of times wraps to negative numbers and is
read back to the same (`TimeComesBack`).

**Commands.**  `CommandsInv` has for every file that it is a sequence of units, the
first of them a lead's, and for a running command what it has read and how much
of its output is written: the first units of its package, and behind them what
was there before.  `FailureKeepsOld` then rests on the lead: a signer that fails
does so behind the lead and before the second unit, and what was read has the
lead that is written.  The proof of that failed at first, because packages in
the model did not say what their lead is made of; they keep it now.  `FromTar`
is a recursion over the stream; `AreLast` says what it has found so far.

**Recursion.**  The provers have no induction rule that can be applied to a
property given as an operator.  `Lemmas` takes the property as the *set* of
numbers that have it: `LeastNumber` comes from the well-foundedness theorems of the
library, and `Induction` from it.  `Recursion` shows with it that a function
defined by recursion exists and satisfies its equation, without which a `CHOOSE`
of it (which the definition is) says nothing.  `BodySum`, `FromTar` and `RunEnd`'s
least element are treated that way.

### What is only model-checked

`CommandsEnd`, and `ImplementsWriter` with its ending: liveness under fairness is
out of the prover's reach.  Every other property of a passing run is stated by a
theorem.

## Not modelled, and the plan

Order so far: `DirIndex` and `Lead`, `RPM` (the most important behaviour: what
`Write` puts out and what it leaves behind), `RoundTrip` on top of it,
`HeaderIndex` below it; then `PackageWriter` above `RPM`, `Relations` and
`Changelog` beside it, `Tar` and `Commands` around all of it.

Not modelled:

* the group of a file as an array of its own (it is one with the owner's), and
  modes and times in `Tar`: no guard depends on them;
* packages of other tools, whose headers may have any tag;
* what a section looks like that was torn, or written over in part: `Commands`
  makes it an error, though the bytes might say something else;
* `rpmsample`, which writes one fixed package to its standard output;
* the Bazel rules, which compose a command line of `tar2rpm`;
* file types and tags as such: they are constants, and the models have those the
  code compares.
