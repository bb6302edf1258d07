------------------------------ MODULE RoundTrip -----------------------------
(***************************************************************************)
(* ReadRPMFile of rpm_read.go: the package that the last Write put in a     *)
(* file becomes an RPM object again, which the caller can change and write, *)
(* as the sign and inject-in-changelog commands do.                         *)
(***************************************************************************)
EXTENDS RPM

CONSTANTS
  UnalignedSigs,     \* signature tags above sigPayloadSize that are not int32
  MaxReads,          \* bound: calls of ReadRPMFile
  EditsAfterRead     \* whether the caller changes a package that was read

ASSUME ReadAssumption == MaxReads \in Nat /\ EditsAfterRead \in BOOLEAN

VARIABLES
  reads,             \* calls of ReadRPMFile
  source             \* the file the RPM object was read from, if it was

readVars == <<reads, source>>
allVars == <<vars, readVars>>

H == image["header"].entries

\* popTag: the value of a tag, or the zero value of its type.
PopTag(tag, zero) == IF tag \in DOMAIN H THEN H[tag] ELSE zero

\* Fault variant of PoppedTags: with every scriptlet's.
PoppedTagsAllScripts ==
  {"name", "version", "release", "arch", "epoch", "sourcerpm", "changelog",
   "dirnames", "fileinodes", "payloaddigest", "size"}
  \cup DOMAIN ProgTag \cup Range(ProgTag) \cup RelTags \cup FileArrays

\* The tags that are taken out of the header.  Of the scriptlets these are
\* the pretrans ones alone: readScript does not use its tag arguments, and
\* pops those two in each of its six calls.
PoppedTags ==
  {"name", "version", "release", "arch", "epoch", "sourcerpm", "changelog",
   "dirnames", "fileinodes", "payloaddigest", "pretrans", "pretransprog", "size"}
  \cup RelTags \cup FileArrays

\* seekFile skips the padding when the signatures end on a multiple of 4, as
\* they do when sigPayloadSize, an int32, is the last (HeaderIndex).  When
\* another is, it depends on lengths that are left out here: it may give up.
PaddingSkipped == DOMAIN image["sig"].entries \cap UnalignedSigs = {}

\* toRelations and toChangelog: none when their tags are not there.
ReadRelations(t) == PopTag(t, << >>)
ReadChangelog == PopTag("changelog", << >>)

\* Fault variant of ReadMeta: the epoch is not read.
ReadMetaNoEpoch ==
  [name |-> PopTag("name", 0), version |-> PopTag("version", 0),
   release |-> PopTag("release", 0), arch |-> PopTag("arch", 0),
   epoch |-> 0, sourcePackage |-> PopTag("sourcerpm", 0),
   rels |-> [t \in RelTags |-> ReadRelations(t)]]

\* readGenIndexes.
ReadMeta ==
  [name |-> PopTag("name", 0), version |-> PopTag("version", 0),
   release |-> PopTag("release", 0), arch |-> PopTag("arch", 0),
   epoch |-> PopTag("epoch", 0), sourcePackage |-> PopTag("sourcerpm", 0),
   rels |-> [t \in RelTags |-> ReadRelations(t)]]

\* readScripts: an error unless the pretrans scriptlet is /bin/sh's.
ScriptsReadable ==
  PopTag("pretrans", 0) # 0 => PopTag("pretransprog", "") = "/bin/sh"

\* The scriptlets of the package read: all in the pretrans field.
ReadScripts ==
  [k \in DOMAIN ProgTag |-> IF k = "pretrans" THEN PopTag("pretrans", 0) ELSE 0]

PayloadEntries == image["payload"].entries

\* Fault variant of ArraysCover: one row more is wanted.
ArraysCoverMore == Len(PayloadEntries) < Len(PopTag("filemodes", << >>))

\* readFile indexes the arrays with the number of the payload entry.
ArraysCover == Len(PayloadEntries) <= Len(PopTag("filemodes", << >>))

\* Fault variant of ReadFile: always the first row.
ReadFileFirst(i) ==
  [mode |-> H["filemodes"][1], type |-> H["fileflags"][1],
   owner |-> H["fileowners"][1], time |-> PayloadEntries[i].time,
   body |-> PayloadEntries[i].body]

\* The file made of payload entry i, and of row i of the header's arrays.
ReadFile(i) ==
  [mode |-> H["filemodes"][i], type |-> H["fileflags"][i],
   owner |-> H["fileowners"][i], time |-> PayloadEntries[i].time,
   body |-> PayloadEntries[i].body]

\* Fault variant of ReadFiles: the loop ends one entry early.
ReadFilesButLast ==
  [n \in {PayloadEntries[i].name : i \in 1 .. Len(PayloadEntries) - 1} |->
     ReadFile(CHOOSE i \in DOMAIN PayloadEntries : PayloadEntries[i].name = n)]

\* readFiles: the files by the names in the payload.
ReadFiles ==
  [n \in {PayloadEntries[i].name : i \in DOMAIN PayloadEntries} |->
     ReadFile(CHOOSE i \in DOMAIN PayloadEntries : PayloadEntries[i].name = n)]

\* Fault variant of ReadRows: the arrays are left as they were read.
ReadRowsKept ==
  [i \in DOMAIN PopTag("basenames", << >>) |-> [a \in FileArrays |-> H[a][i]]]

\* The index arrays of the package read: made empty again for the next Write.
ReadRows == << >>

\* The file is a complete package: every field of the RPM object is set anew.
\* The directory list is filled but not its map, the payload size starts at
\* the header's, and headers and customTags share what is left of the header.
ReadPackage ==
  /\ meta' = ReadMeta
  /\ changelog' = ReadChangelog
  /\ scripts' = ReadScripts
  /\ files' = ReadFiles
  /\ customTags' = Restrict(H, DOMAIN H \ PoppedTags)
  /\ headers' = [h |-> "zero", entries |-> customTags']
  /\ signatures' = image["sig"]
  /\ customSigs' = EmptyMap
  /\ customSigsNil' = TRUE
  /\ pgpSigner' = FALSE
  /\ lead' = [name |-> image["lead"], fromBinary |-> TRUE]
  /\ di' = [l |-> PopTag("dirnames", << >>), m |-> EmptyMap]
  /\ rows' = ReadRows
  /\ cpio' = [entries |-> << >>, closed |-> FALSE]
  /\ payloadSize' = PopTag("size", 0)
  /\ closed' = FALSE
  /\ source' = image
  /\ pc' = "idle"
  /\ writes' = 0
  /\ res' = "none"

\* An error is returned, and no RPM object.
ReadError ==
  /\ pc' = "idle"
  /\ res' = "unreadable"
  /\ UNCHANGED <<apiVars, payloadVars, closed, signatures, headers, writes, source>>

ReadPanic ==
  /\ pc' = "panic"
  /\ UNCHANGED <<apiVars, payloadVars, closed, signatures, headers, writes, res, source>>

\* A file that ends before the header is too short for a fixed size array;
\* one that ends with the header has no payload to decompress.
ReadRPMFile ==
  /\ pc = "idle"
  /\ writes > 0
  /\ reads < MaxReads
  /\ reads' = reads + 1
  /\ \/ /\ out = Steps
        /\ \/ ~PaddingSkipped /\ ReadError
           \/ ~ScriptsReadable /\ ReadError
           \/ ScriptsReadable /\ ArraysCover /\ ReadPackage
           \/ ScriptsReadable /\ ~ArraysCover /\ ReadPanic
     \/ /\ out # Steps
        /\ "header" \notin DOMAIN image
        /\ ReadPanic
     \/ /\ out # Steps
        /\ out # << >>
        /\ "header" \in DOMAIN image \/ out[Len(out)] = "torn"
        /\ ReadError
  /\ UNCHANGED <<todo, hdr, out, image>>

RTInit == Init /\ reads = 0 /\ source = EmptyMap

RTNext ==
  \/ (reads = 0 \/ EditsAfterRead) /\ Call /\ UNCHANGED readVars
  \/ (WriteStart \/ WriteStep) /\ UNCHANGED readVars
  \/ ReadRPMFile

RTSpec == RTInit /\ [][RTNext]_allVars /\ WF_allVars(WriteStep /\ UNCHANGED readVars)

-----------------------------------------------------------------------------
(* Properties.                                                              *)

HasRead == source' # source

\* The caller has done nothing since the last Write: nothing comes behind it.
Untouched == writes = MaxWrites

\* The file as Write leaves it: a regular file has the regular bit.
Normal(f) == [f EXCEPT !.mode = EntryMode(f)]

\* Reading gives back the files that were written, each with its own mode,
\* owner and flags, if the caller has done nothing since: the number of a
\* payload entry is that of its row.
ReadRestoresFiles ==
  [][HasRead /\ Untouched => files' = [n \in DOMAIN files |-> Normal(files[n])]]_allVars

\* Rows of the header's file index, with the directory list put in.
HeaderPaths(h) ==
  [i \in DOMAIN h["basenames"] |->
     <<h["dirnames"][h["dirindexes"][i] + 1], h["basenames"][i]>>]

\* Reading the output of a first Write gives back the files that have a row
\* and are no ghosts, all of them and no others, each with the time and a body
\* of the size in its row, though modes, owners and flags may be another row's.
ReadRestoresPayload ==
  [][HasRead /\ writes = 1 =>
       LET h == source'["header"].entries
           plain == IF "basenames" \in DOMAIN h
                    THEN {i \in DOMAIN h["basenames"] : "ghost" \notin h["fileflags"][i]}
                    ELSE {}
           path(n) == <<SplitDir[n], SplitBase[n]>>
       IN  /\ {HeaderPaths(h)[i] : i \in plain} = {path(n) : n \in DOMAIN files'}
           /\ \A i \in plain, n \in DOMAIN files' :
                HeaderPaths(h)[i] = path(n) =>
                  /\ files'[n].time = h["filemtimes"][i]
                  /\ "dir" \notin h["filemodes"][i] =>
                       files'[n].body % Words = h["filesizes"][i]]_allVars

\* Reading gives back the metadata and the changelog, if the caller has done
\* nothing since.
ReadRestoresMeta ==
  [][HasRead /\ Untouched => meta' = meta /\ changelog' = changelog]_allVars

\* A package that a first Write completed has a row for every payload entry,
\* so reading it never runs off the end of the arrays.
FirstWriteReadable ==
  [][reads' > reads /\ out = Steps /\ pc' = "panic" => writes > 1]_allVars

\* Tags that differ when a package is read and written again: the size, to
\* which the bodies are added once more, and the directory list, which grows
\* by names it has since its map is not read.
GrowingTags == {"size", "dirnames", "dirindexes"}

\* A package that is read and written without a change has the header it
\* had, in every other tag: nothing that was not understood is lost.
RewriteKeepsHeader ==
  source # EmptyMap /\ res = "ok" =>
    LET old == source["header"].entries
        new == image["header"].entries
    IN  /\ DOMAIN new = DOMAIN old
        /\ \A t \in DOMAIN new \ GrowingTags : new[t] = old[t]
        /\ image["lead"] = source["lead"]

\* Nor do the paths of the files change, though the list they are put
\* together from does.
RewriteKeepsPaths ==
  source # EmptyMap /\ res = "ok" /\ "basenames" \in DOMAIN image["header"].entries =>
    HeaderPaths(image["header"].entries) = HeaderPaths(source["header"].entries)

\* The scriptlets the caller set are in the header, each as its own kind
\* (AddPrein "adds a prein scriptlet", rpm.go:514).
ScriptsWritten ==
  pc = "payload" =>
    \A k \in DOMAIN ProgTag :
      scripts[k] > 0 => image["header"].entries[k] = scripts[k]

=============================================================================
