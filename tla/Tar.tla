--------------------------------- MODULE Tar --------------------------------
(***************************************************************************)
(* FromTar of tar.go: the entries of a tar stream become the files of an    *)
(* RPM object.  A stream has entries and an end, which is "eof" or, when    *)
(* the stream is damaged, "broken".                                         *)
(***************************************************************************)
EXTENDS Integers, Sequences, GoMap

CONSTANTS
  Root,              \* the name "/"
  CleanName(_)       \* path.Join("/", name)

Failed == [failed |-> TRUE, files |-> EmptyMap]

\* The file made of an entry: a tar without user names gets root's.
TarFile(e) ==
  [kind |-> e.kind, body |-> IF e.kind = "dir" THEN 0 ELSE e.body,
   owner |-> IF e.owner = "" THEN "root" ELSE e.owner]

\* Fault variant of TarEntry: the first entry of a name stays.
TarEntryFirst(r, e) ==
  IF r.failed \/ e.kind \notin {"dir", "link", "reg"} THEN Failed
  ELSE IF CleanName(e.name) \in DOMAIN r.files \cup {Root} THEN r
  ELSE [r EXCEPT !.files = Put(@, CleanName(e.name), TarFile(e))]

\* One round of the loop, with AddFile: another type of entry is an error,
\* and the root directory is left out.
TarEntry(r, e) ==
  IF r.failed \/ e.kind \notin {"dir", "link", "reg"} THEN Failed
  ELSE IF CleanName(e.name) = Root THEN r
  ELSE [r EXCEPT !.files = Put(@, CleanName(e.name), TarFile(e))]

\* FromTar, once NewRPM has succeeded: its files, or an error.
FromTar(tar) ==
  LET read[k \in 0 .. Len(tar.entries)] ==
        IF k = 0 THEN [failed |-> FALSE, files |-> EmptyMap]
                 ELSE TarEntry(read[k - 1], tar.entries[k])
  IN  IF tar.end = "eof" THEN read[Len(tar.entries)] ELSE Failed
=============================================================================
