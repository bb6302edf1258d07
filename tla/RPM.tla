-------------------------------- MODULE RPM ---------------------------------
(***************************************************************************)
(* The RPM object of rpm.go: the calls that fill it and Write, which turns  *)
(* it into a package on an io.Writer.                                       *)
(*                                                                          *)
(* The library is sequential, so a call of the caller's is one action; but  *)
(* Write is split where its effects can be told apart: one step per file,   *)
(* one for closing the payload, and one per w.Write, which may fail having  *)
(* taken a part of its argument.                                            *)
(*                                                                          *)
(* Data: file names are numbered in the order sort.Strings puts them in;    *)
(* other strings, and file bodies, are represented by their length;         *)
(* a file mode by its type bits and RPMFile.Type by its flag bits; a digest *)
(* or a signature by the value it was computed from.                        *)
(***************************************************************************)
EXTENDS Integers, Sequences, FiniteSets, Functions, GoMap, DirIndex, Lead

CONSTANTS
  Names,             \* file names, as their positions in byte order
  Root,              \* the name "/"
  SplitDir,          \* path.Split: the directory part of a name ...
  SplitBase,         \* ... and its last element
  Files,             \* the RPMFile values, less their Name, the caller adds
  AllowLists,        \* the arguments of AllowListDirs, as sets of names
  Metas,             \* the RPMMetaData values given to NewRPM
  ScriptKinds,       \* which of the six scriptlets the caller sets ...
  Texts,             \* ... and their texts
  Changelogs,        \* the arguments of SetChangelog
  CustomTags,        \* arguments <<tag, entry>> of AddCustomTag
  CustomSigs,        \* arguments <<tag, entry>> of AddCustomSig, SetSignature
  Signers,           \* whether the arguments of SetPGPSigner are not nil
  Words,             \* 2^32: the integers of the size tags are taken modulo it
  MaxWrites          \* bound: calls of Write

ProgTag ==
  [pretrans |-> "pretransprog", prein |-> "preinprog", postin |-> "postinprog",
   preun |-> "preunprog", postun |-> "postunprog", posttrans |-> "posttransprog"]

RelTags ==
  {"provides", "obsoletes", "suggests", "recommends", "requires", "conflicts"}

\* A name is a natural number (its position), "/" sorts before the others,
\* and a path is its directory followed by its last element.
ASSUME NamesAssumption ==
  /\ Names \subseteq Nat
  /\ Root \in Names
  /\ SplitDir \in [Names -> STRING]
  /\ SplitBase \in [Names -> STRING]
  /\ \A a, b \in Names :
       SplitDir[a] = SplitDir[b] /\ SplitBase[a] = SplitBase[b] => a = b

\* 040000, 0100000 and 020000; 0120000, a symlink, has the last two.
TypeBits == {"dir", "reg", "chr"}
Symlink == {"reg", "chr"}

\* The two FileType bits whose meaning the code or its comments depend on.
FlagBits == {"config", "ghost"}

ASSUME FilesAssumption ==
  Files \subseteq [mode : SUBSET TypeBits, type : SUBSET FlagBits,
                   owner : STRING, time : Nat, body : Nat]

ASSUME CallsAssumption ==
  /\ AllowLists \subseteq SUBSET Names
  /\ ScriptKinds \subseteq DOMAIN ProgTag
  /\ Texts \subseteq Nat \ {0}
  /\ Signers \subseteq BOOLEAN
  /\ Words \in Nat \ {0}
  /\ MaxWrites \in Nat

\* An rpmSense, by its three bits for comparisons.
Senses == {"", "<", "=", ">", "<=", ">=", "<>", "<=>"}

ASSUME MetasAssumption ==
  Metas \subseteq
    [name : Nat, version : Nat, release : Nat, arch : Nat, epoch : Nat, sourcePackage : Nat,
     rels : [RelTags -> Seq([name : Nat, sense : Senses, version : Nat])]]

VARIABLES
  meta, files, scripts, changelog,         \* what the caller has set
  customTags, customSigs, customSigsNil, pgpSigner,
  lead,                                    \* the Lead: its name's length, nameFromBinary
  di, rows,                                \* directory list, the index arrays by file
  cpio, payloadSize,                       \* payload writer and compressor, sum of bodies
  closed,                                  \* RPM.closed
  signatures, headers,                     \* the indexes of the last Write
  pc, todo, hdr, out, image, res, writes   \* Write: where it is, names left, header
                                           \* built, sections taken by w, result, calls

apiVars == <<meta, files, scripts, changelog, customTags, customSigs,
             customSigsNil, pgpSigner, lead>>
payloadVars == <<di, rows, cpio, payloadSize>>
writeVars == <<pc, todo, hdr, out, image, res, writes>>
vars == <<apiVars, payloadVars, closed, signatures, headers, writeVars>>

-----------------------------------------------------------------------------
(* NewRPM                                                                  *)

\* addIfMissing.
AddIfMissing(rels, r) == IF r \in Range(rels) THEN rels ELSE Append(rels, r)

\* The metadata NewRPM stores: the defaulted architecture, and the package
\* provides itself.  SourcePackage is computed, but assigned to the argument
\* after it was copied, so the stored one stays what the caller gave.
NewRPMMeta(m) ==
  [m EXCEPT !.arch = IF @ = 0 THEN 6 ELSE @,
            !.rels.provides =
               AddIfMissing(@, [name |-> m.name, sense |-> "=",
                                version |-> FullVersion(m.version, m.release)])]

NilIndex == [h |-> "nil", entries |-> EmptyMap]

\* The index arrays, which writeFile extends together, one element per file:
\* the state holds them as a sequence of rows.  (filegroups is as fileowners.)
FileArrays == {"dirindexes", "basenames", "fileowners", "filemtimes", "fileflags",
               "filesizes", "filedigests", "filelinktos", "filemodes"}

NewRPM(m) ==
  /\ meta = NewRPMMeta(m)
  /\ files = EmptyMap
  /\ scripts = [k \in DOMAIN ProgTag |-> 0]
  /\ changelog = << >>
  /\ customTags = EmptyMap
  /\ customSigs = EmptyMap
  /\ customSigsNil = FALSE
  /\ pgpSigner = FALSE
  /\ lead = [name |-> m.name, fromBinary |-> FALSE]
  /\ di = NewDirIndex
  /\ rows = << >>
  /\ cpio = [entries |-> << >>, closed |-> FALSE]
  /\ payloadSize = 0
  /\ closed = FALSE
  /\ signatures = NilIndex
  /\ headers = NilIndex

Init ==
  /\ \E m \in Metas : NewRPM(m)
  /\ pc = "idle"
  /\ todo = {}
  /\ hdr = NilIndex
  /\ out = << >>
  /\ image = EmptyMap
  /\ res = "none"
  /\ writes = 0

-----------------------------------------------------------------------------
(* The calls that fill the package: not while Write runs, and never after   *)
(* a panic.  Nor, to bound the model, behind the last Write, where no       *)
(* output can show what they did.                                           *)

Idle == pc = "idle" /\ writes < MaxWrites

Calling == Idle /\ UNCHANGED <<payloadVars, closed, headers>>

\* AddFile: the root directory is ignored, a second file of a name replaces
\* the first.
AddFile(n, f) ==
  /\ Calling
  /\ files' = IF n = Root THEN files ELSE Put(files, n, f)
  /\ UNCHANGED <<meta, scripts, changelog, customTags, customSigs,
                 customSigsNil, pgpSigner, lead, signatures, writeVars>>

IsDir(f) == "dir" \in f.mode

\* AllowListDirs: of the directories, those on the list stay.
AllowListDirs(allow) ==
  /\ Calling
  /\ files' = Restrict(files, {n \in DOMAIN files : IsDir(files[n]) => n \in allow})
  /\ UNCHANGED <<meta, scripts, changelog, customTags, customSigs,
                 customSigsNil, pgpSigner, lead, signatures, writeVars>>

\* AddPretrans, AddPrein, AddPostin, AddPreun, AddPostun and AddPosttrans.
AddScript(k, text) ==
  /\ Calling
  /\ scripts' = [scripts EXCEPT ![k] = text]
  /\ UNCHANGED <<meta, files, changelog, customTags, customSigs,
                 customSigsNil, pgpSigner, lead, signatures, writeVars>>

SetChangelog(c) ==
  /\ Calling
  /\ changelog' = c
  /\ UNCHANGED <<meta, files, scripts, customTags, customSigs,
                 customSigsNil, pgpSigner, lead, signatures, writeVars>>

\* AddCustomTag: a package that was read shares its map with headers, whose
\* kind is then zero.
AddCustomTag(tag, e) ==
  /\ Idle
  /\ customTags' = Put(customTags, tag, e)
  /\ headers' = IF headers.h = "zero" THEN [headers EXCEPT !.entries = customTags']
                                      ELSE headers
  /\ UNCHANGED <<meta, files, scripts, changelog, customSigs, customSigsNil,
                 pgpSigner, lead, signatures, closed, payloadVars, writeVars>>

Panic ==
  /\ pc' = "panic"
  /\ UNCHANGED <<todo, hdr, out, image, res, writes>>

\* AddCustomSig panics on a map that was never made.
AddCustomSig(tag, e) ==
  /\ Calling
  /\ IF customSigsNil
     THEN Panic /\ UNCHANGED customSigs
     ELSE customSigs' = Put(customSigs, tag, e) /\ UNCHANGED writeVars
  /\ UNCHANGED <<meta, files, scripts, changelog, customTags,
                 customSigsNil, pgpSigner, lead, signatures>>

SetPGPSigner(isSet) ==
  /\ Calling
  /\ pgpSigner' = isSet
  /\ UNCHANGED <<meta, files, scripts, changelog, customTags, customSigs,
                 customSigsNil, lead, signatures, writeVars>>

\* ClearSignatures takes a size and makes it the kind of the new index.
ClearSignatures ==
  /\ Calling
  /\ signatures' = [h |-> "size", entries |-> EmptyMap]
  /\ UNCHANGED <<apiVars, writeVars>>

\* SetSignature adds to the index of the last Write or ClearSignatures, and
\* panics when there was neither.
SetSignature(tag, e) ==
  /\ Calling
  /\ IF signatures = NilIndex
     THEN Panic /\ UNCHANGED signatures
     ELSE /\ signatures' = [signatures EXCEPT !.entries = Put(@, tag, e)]
          /\ UNCHANGED writeVars
  /\ UNCHANGED apiVars

-----------------------------------------------------------------------------
(* Write, up to the end of the payload: the files in order, each put in the *)
(* index arrays and then, unless it is a ghost, in the payload.             *)

Goto(step) == pc' = step /\ UNCHANGED <<res, writes>>

\* Fault variant of Return: the names that were left are not forgotten.
ReturnKeepsTodo(result) ==
  /\ pc' = "idle"
  /\ res' = result
  /\ hdr' = NilIndex
  /\ UNCHANGED <<todo, writes>>

\* Write returns, an error or "ok".
Return(result) ==
  /\ pc' = "idle"
  /\ res' = result
  /\ todo' = {}
  /\ hdr' = NilIndex
  /\ UNCHANGED writes

\* The payload bytes: what was compressed so far, whole once closed.
Payload == [entries |-> cpio.entries, complete |-> cpio.closed]

\* A call of Write, with a new io.Writer.
WriteStart ==
  /\ Idle
  /\ writes' = writes + 1
  /\ out' = << >>
  /\ image' = EmptyMap
  /\ hdr' = NilIndex
  /\ IF closed
     THEN pc' = "idle" /\ todo' = {} /\ res' = "ErrWriteAfterClose"
     ELSE pc' = "files" /\ todo' = DOMAIN files /\ res' = "none"
  /\ UNCHANGED <<apiVars, payloadVars, closed, signatures, headers>>

IsSymlink(f) == Symlink \subseteq f.mode

IsRegular(f) == ~IsDir(f) /\ ~IsSymlink(f)

\* The mode written for a file: a regular file's has the regular bit.
EntryMode(f) == IF IsRegular(f) THEN f.mode \cup {"reg"} ELSE f.mode

\* Fault variant of IsGhost: a file with any flag is taken for one.
IsGhostAnyFlag(f) == f.type # {}

\* Ghost files have no payload: the test is for the flag alone, not the bit.
IsGhost(f) == f.type = {"ghost"}

\* What writeFile appends to each array for the file of this name, d being the
\* directory list.  An empty digest or link target is the empty sequence.
Row(d, n, f) ==
  [dirindexes |-> DirPos(d, SplitDir[n]),
   basenames |-> SplitBase[n],
   fileowners |-> f.owner,
   filemtimes |-> f.time,
   fileflags |-> f.type,
   filesizes |-> IF IsDir(f) THEN 4096 ELSE f.body % Words,
   filedigests |-> IF IsRegular(f) THEN <<f.body>> ELSE << >>,
   filelinktos |-> IF IsSymlink(f) /\ ~IsDir(f) THEN <<f.body>> ELSE << >>,
   filemodes |-> EntryMode(f)]

\* Fault variant of CpioEntry: the mode is the caller's, without the regular bit.
CpioEntryRaw(n, f) == [name |-> n, mode |-> f.mode, time |-> f.time, body |-> f.body]

\* The header that writePayload makes, and the body behind it.
CpioEntry(n, f) == [name |-> n, mode |-> EntryMode(f), time |-> f.time, body |-> f.body]

\* Fault variants of CpioWrite: the writer may be closed, and the size is that
\* of the last file.
CpioWriteReopened(n, f) ==
  /\ cpio' = [cpio EXCEPT !.entries = Append(@, CpioEntry(n, f))]
  /\ payloadSize' = payloadSize + f.body

CpioWriteOverwrites(n, f) ==
  /\ ~cpio.closed
  /\ cpio' = [cpio EXCEPT !.entries = Append(@, CpioEntry(n, f))]
  /\ payloadSize' = f.body

\* writePayload: a closed cpio writer refuses the header.
CpioWrite(n, f) ==
  /\ ~cpio.closed
  /\ cpio' = [cpio EXCEPT !.entries = Append(@, CpioEntry(n, f))]
  /\ payloadSize' = payloadSize + f.body

\* Fault variant of IsNext: any name.
IsNextUnsorted(n) == n \in todo

\* The next file in the order of the sorted names.
IsNext(n) == n \in todo /\ \A k \in todo : n <= k

\* writeFile: the index entry stays when the payload cannot take the file.
WriteFile(n) ==
  /\ pc = "files"
  /\ IsNext(n)
  /\ LET f == files[n] IN
       /\ di' = DirAdd(di, SplitDir[n])
       /\ rows' = Append(rows, Row(di, n, f))
       /\ \/ /\ IsGhost(f)
             /\ todo' = todo \ {n}
             /\ UNCHANGED <<cpio, payloadSize, pc, res, hdr, writes>>
          \/ /\ ~IsGhost(f)
             /\ CpioWrite(n, f)
             /\ todo' = todo \ {n}
             /\ UNCHANGED <<pc, res, hdr, writes>>
          \/ /\ ~IsGhost(f)
             /\ cpio.closed
             /\ Return("cpio")
             /\ UNCHANGED <<cpio, payloadSize>>
  /\ UNCHANGED <<apiVars, closed, signatures, headers, out, image>>

\* The two Close calls.  What a second one returns is up to the libraries:
\* the cpio writer's and gzip's are known to return nil.
ClosePayload ==
  /\ pc = "files"
  /\ todo = {}
  /\ \/ /\ cpio' = [cpio EXCEPT !.closed = TRUE]
        /\ Goto("lead")
        /\ UNCHANGED <<todo, hdr>>
     \/ /\ cpio.closed
        /\ Return("close")
        /\ UNCHANGED cpio
  /\ UNCHANGED <<apiVars, di, rows, payloadSize, closed, signatures, headers,
                 out, image>>

-----------------------------------------------------------------------------
(* Write, the sections.                                                     *)

Steps == <<"lead", "sig", "pad", "header", "payload">>
SectionSteps == {"lead", "sig", "pad", "header", "payload"}

\* w.Write takes the section whole and Write goes on.
Take(section, content, step) ==
  /\ out' = Append(out, section)
  /\ image' = Put(image, section, content)
  /\ Goto(step)

\* Fault variant of Refuse: the error is dropped on the way out.
RefuseForgets ==
  /\ out' \in {out, Append(out, "torn")}
  /\ Return("ok")
  /\ UNCHANGED image

\* w.Write returns an error, having taken nothing or a part.
Refuse ==
  /\ out' \in {out, Append(out, "torn")}
  /\ Return("io")
  /\ UNCHANGED image

LeadVersion ==
  IF lead.fromBinary THEN 0 ELSE FullVersion(meta.version, meta.release)

WriteLead ==
  /\ pc = "lead"
  /\ IF LeadFits(lead.name, LeadVersion)
     THEN \/ Take("lead", LeadName(lead.name, LeadVersion), "sig") /\ UNCHANGED <<todo, hdr>>
          \/ Refuse
     ELSE Return("lead") /\ UNCHANGED <<out, image>>
  /\ UNCHANGED <<apiVars, payloadVars, closed, signatures, headers>>

\* The scriptlets that are set, each with its interpreter.
ScriptIndexes ==
  LET set == {k \in DOMAIN ProgTag : scripts[k] > 0}
  IN  AddEntries(Restrict(scripts, set), [t \in {ProgTag[k] : k \in set} |-> "/bin/sh"])

\* Changelog.AddToIndex: nothing for an empty changelog.
ChangelogIndex ==
  IF changelog # << >> THEN Put(EmptyMap, "changelog", changelog) ELSE EmptyMap

\* The epoch, if it is not zero; the build time and the prefixes are as this.
EpochIndex == IF meta.epoch > 0 THEN Put(EmptyMap, "epoch", meta.epoch) ELSE EmptyMap

\* writeGenIndexes; the other strings of the metadata are as the name.
GenIndexes ==
  AddEntries(AddEntries(AddEntries(
    [name |-> meta.name, version |-> meta.version, release |-> meta.release,
     arch |-> meta.arch, sourcerpm |-> meta.sourcePackage, size |-> payloadSize % Words,
     payloaddigest |-> Payload], EpochIndex), ScriptIndexes), ChangelogIndex)

\* Fault variant of FileIndexes: the inodes are numbered from zero.
FileIndexesFromZero ==
  IF DOMAIN files = {}
  THEN EmptyMap
  ELSE AddEntries(
         [a \in FileArrays |-> [i \in DOMAIN rows |-> rows[i][a]]],
         [dirnames |-> AllDirs(di), fileinodes |-> [i \in DOMAIN rows |-> i - 1]])

\* writeFileIndexes: the arrays, the directories and the numbers of the files.
\* A package without files has none of them.
FileIndexes ==
  IF DOMAIN files = {}
  THEN EmptyMap
  ELSE AddEntries(
         [a \in FileArrays |-> [i \in DOMAIN rows |-> rows[i][a]]],
         [dirnames |-> AllDirs(di), fileinodes |-> [i \in DOMAIN rows |-> i]])

\* writeRelationIndexes: the categories that are not empty.
RelationIndexes == Restrict(meta.rels, {t \in RelTags : meta.rels[t] # << >>})

\* The header index: the custom tags are the last to be added.
HeaderEntries ==
  AddEntries(AddEntries(AddEntries(GenIndexes, FileIndexes), RelationIndexes), customTags)

\* Fault variant of Signatures: the second signature is of the payload alone.
SignaturesOfBody(h) ==
  AddEntries([size |-> <<h, Payload>>, sha256 |-> h, payloadsize |-> payloadSize % Words],
             IF pgpSigner THEN [rsa |-> h, pgp |-> <<Payload>>] ELSE EmptyMap)

\* writeSignatures: of the header, and of the header with the payload.
Signatures(h) ==
  AddEntries([size |-> <<h, Payload>>, sha256 |-> h, payloadsize |-> payloadSize % Words],
             IF pgpSigner THEN [rsa |-> h, pgp |-> <<h, Payload>>] ELSE EmptyMap)

\* The header and the signatures are computed, the signatures kept in the
\* RPM and then written.
WriteSignatures ==
  /\ pc = "sig"
  /\ LET h == [h |-> "immutable", entries |-> HeaderEntries]
         s == [h |-> "signatures", entries |-> AddEntries(Signatures(h), customSigs)]
     IN  \/ /\ pgpSigner
            /\ Return("signer")
            /\ UNCHANGED <<out, image, signatures>>
         \/ /\ signatures' = s
            /\ \/ Take("sig", s, "pad") /\ hdr' = h /\ UNCHANGED todo
               \/ Refuse
  /\ UNCHANGED <<apiVars, payloadVars, closed, headers>>

\* Fault variant of WritePad: the error of the padding's Write is dropped.
WritePadUnchecked ==
  /\ pc = "pad"
  /\ \/ Take("pad", 0, "header")
     \/ out' = Append(out, "torn") /\ Goto("header") /\ UNCHANGED image
  /\ UNCHANGED <<apiVars, payloadVars, closed, signatures, headers, todo, hdr>>

\* The padding behind the signatures.
WritePad ==
  /\ pc = "pad"
  /\ \/ Take("pad", 0, "header") /\ UNCHANGED <<todo, hdr>>
     \/ Refuse
  /\ UNCHANGED <<apiVars, payloadVars, closed, signatures, headers>>

\* The header is kept in the RPM once it is written.
WriteHeader ==
  /\ pc = "header"
  /\ \/ Take("header", hdr, "payload") /\ headers' = hdr /\ UNCHANGED <<todo, hdr>>
     \/ Refuse /\ UNCHANGED headers
  /\ UNCHANGED <<apiVars, payloadVars, closed, signatures>>

\* The payload is the last section: Write returns nil.
WritePayload ==
  /\ pc = "payload"
  /\ \/ /\ out' = Append(out, "payload")
        /\ image' = Put(image, "payload", Payload)
        /\ Return("ok")
     \/ Refuse
  /\ UNCHANGED <<apiVars, payloadVars, closed, signatures, headers>>

WriteStep ==
  \/ \E n \in Names : WriteFile(n)
  \/ ClosePayload
  \/ WriteLead
  \/ WriteSignatures
  \/ WritePad
  \/ WriteHeader
  \/ WritePayload

Call ==
  \/ \E n \in Names, f \in Files : AddFile(n, f)
  \/ \E allow \in AllowLists : AllowListDirs(allow)
  \/ \E k \in ScriptKinds, text \in Texts : AddScript(k, text)
  \/ \E c \in Changelogs : SetChangelog(c)
  \/ \E t \in CustomTags : AddCustomTag(t[1], t[2])
  \/ \E t \in CustomSigs : AddCustomSig(t[1], t[2]) \/ SetSignature(t[1], t[2])
  \/ \E s \in Signers : SetPGPSigner(s)
  \/ CustomSigs # {} /\ ClearSignatures

Next == Call \/ WriteStart \/ WriteStep

\* Write runs its loop and its steps to the end; the caller may stop calling.
Fairness == WF_vars(WriteStep)

Spec == Init /\ [][Next]_vars /\ Fairness
=============================================================================
