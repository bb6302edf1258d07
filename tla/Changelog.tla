------------------------------ MODULE Changelog -----------------------------
(***************************************************************************)
(* changelog.go, for one RPM object that is written, read, changed and      *)
(* written again: a changelog is a slice of pointers to entries, which the  *)
(* caller shares with the object; in a header it is three columns.          *)
(***************************************************************************)
EXTENDS Integers, Sequences, FiniteSets, Functions, GoMap

CONSTANTS
  Changelogs,        \* the arguments of SetChangelog, as sequences of entries
  NewTexts,          \* texts an entry is changed to
  Overrides,         \* columns a caller puts in as custom tags
  Words,             \* the number of values of a uint32
  MaxSets,           \* bound: calls of SetChangelog
  MaxReads           \* bound: calls of ReadRPMFile

Times == 0 .. Words - 1
Columns == <<"time", "name", "text">>
Types == [time |-> "int32", name |-> "stringArray", text |-> "stringArray"]

VARIABLES
  entries,           \* the heap: all entries made so far
  changelog,         \* the object's changelog: numbers of entries
  held,              \* the caller's: what it set, or got from GetChangelog
  customTags,        \* the object's custom tags, as far as they are columns
  index,             \* the columns in the header last written
  phase,             \* "open", "header" when that was written last, "read"
  sets, reads,       \* calls so far
  written            \* history: custom tags and the caller's view at the last Write

vars == <<entries, changelog, held, customTags, index, phase, sets, reads, written>>

Deref(pointers) == [i \in DOMAIN pointers |-> entries[pointers[i]]]

\* Pointers to n entries behind those there are.
Fresh(n) == [i \in 1 .. n |-> Len(entries) + i]

Init ==
  /\ entries = << >>
  /\ changelog = << >>
  /\ held = << >>
  /\ customTags = EmptyMap
  /\ index = EmptyMap
  /\ phase = "open"
  /\ sets = 0
  /\ reads = 0
  /\ written = [custom |-> EmptyMap, seen |-> << >>]

-----------------------------------------------------------------------------
(* The caller.                                                              *)

SetChangelog(c) ==
  /\ phase # "header"
  /\ sets < MaxSets
  /\ sets' = sets + 1
  /\ entries' = entries \o c
  /\ changelog' = Fresh(Len(c))
  /\ held' = Fresh(Len(c))
  /\ phase' = "open"
  /\ UNCHANGED <<customTags, index, reads, written>>

GetChangelog ==
  /\ phase # "header"
  /\ held' = changelog
  /\ UNCHANGED <<entries, changelog, customTags, index, phase, sets, reads, written>>

\* The caller changes the text of an entry it has, as inject-in-changelog does.
Edit(i, text) ==
  /\ phase # "header"
  /\ i \in DOMAIN held
  /\ entries' = [entries EXCEPT ![held[i]].text = text]
  /\ phase' = "open"
  /\ UNCHANGED <<changelog, held, customTags, index, sets, reads, written>>

\* AddCustomTag for columns, on an object that was not read.
Override(o) ==
  /\ phase = "open"
  /\ reads = 0
  /\ customTags' = AddEntries(customTags, o)
  /\ UNCHANGED <<entries, changelog, held, index, phase, sets, reads, written>>

-----------------------------------------------------------------------------
(* The header.                                                              *)

Column(type, values) == [type |-> type, values |-> values]

\* AddToIndex: three columns of one length, or none.
AddToIndex(c) ==
  IF c = << >>
  THEN EmptyMap
  ELSE [a \in DOMAIN Types |-> Column(Types[a], [i \in DOMAIN c |-> c[i][a]])]

\* Write, as far as the changelog goes: custom tags win.
WriteIndex ==
  /\ phase # "header"
  /\ phase' = "header"
  /\ index' = AddEntries(AddToIndex(Deref(changelog)), customTags)
  /\ written' = [custom |-> customTags, seen |-> Deref(held)]
  /\ UNCHANGED <<entries, changelog, held, customTags, sets, reads>>

\* Fault variant of Popped: popTag leaves the tags where they are.
PoppedNone == {}

\* The columns popped one after the other, up to and with the first that is
\* not there or has another type.
Popped ==
  {Columns[k] : k \in {j \in 1 .. 3 : \A before \in 1 .. j - 1 :
     /\ Columns[before] \in DOMAIN index
     /\ index[Columns[before]].type = Types[Columns[before]]}}

\* Times are read as int32 and made uint32 again.
Signed(t) == IF t < Words \div 2 THEN t ELSE t - Words

\* Fault variant of Unsigned: the number stays signed.
UnsignedNot(n) == n

Unsigned(n) == n % Words

\* toChangelog: an error, which readGenIndexes takes for an empty changelog,
\* unless the three columns are there, have their types and one length.
ToChangelog ==
  IF /\ DOMAIN index = DOMAIN Types
     /\ \A a \in DOMAIN index : index[a].type = Types[a]
     /\ Cardinality({Len(index[a].values) : a \in DOMAIN index}) = 1
  THEN [i \in DOMAIN index.time.values |->
          [time |-> Unsigned(Signed(index.time.values[i])),
           name |-> index.name.values[i], text |-> index.text.values[i]]]
  ELSE << >>

\* ReadRPMFile: an object with entries of its own; the columns left over are
\* its custom tags.
ReadIndex ==
  /\ phase = "header"
  /\ reads < MaxReads
  /\ reads' = reads + 1
  /\ phase' = "read"
  /\ entries' = entries \o ToChangelog
  /\ changelog' = Fresh(Len(ToChangelog))
  /\ held' = << >>
  /\ customTags' = Restrict(index, DOMAIN index \ Popped)
  /\ UNCHANGED <<index, sets, written>>

Next ==
  \/ \E c \in Changelogs : SetChangelog(c)
  \/ GetChangelog
  \/ \E i \in DOMAIN held, text \in NewTexts : Edit(i, text)
  \/ \E o \in Overrides : Override(o)
  \/ WriteIndex
  \/ ReadIndex

Spec == Init /\ [][Next]_vars

-----------------------------------------------------------------------------
(* Properties.                                                              *)

\* What the caller sees of the changelog when it writes is what is read then,
\* the changes made through its pointers and those of earlier rounds included,
\* unless a custom tag stands for a column (changelog.go:19 and 82).
SeenIsRead ==
  phase = "read" /\ written.custom = EmptyMap /\ written.seen # << >> =>
    Deref(changelog) = written.seen

\* No column is left behind a changelog that was read: it would hide the
\* changes of the next Write.  With custom tags for columns, the changelog
\* read is none, or has the tags' columns and the length of them all.
NothingHides ==
  phase = "read" /\ changelog # << >> =>
    /\ customTags = EmptyMap
    /\ \A a \in DOMAIN written.custom :
         [i \in DOMAIN changelog |-> entries[changelog[i]][a]] = written.custom[a].values
=============================================================================
