------------------------------ MODULE Relations -----------------------------
(***************************************************************************)
(* Relations of sense.go: parsing a relation, the list that flags and       *)
(* NewRPM extend without duplicates, and the three columns of the header a  *)
(* list becomes and is read from.                                           *)
(*                                                                          *)
(* A list is a Go slice: an array and a length.  NewRPM copies the caller's *)
(* slice, not its array, so append may write where another list reads.      *)
(*                                                                          *)
(* Data: a text is a sequence of tokens, words and the characters with a    *)
(* meaning; an rpmSense is the set of its comparison bits.                  *)
(***************************************************************************)
EXTENDS Integers, Sequences, FiniteSets, Functions, GoMap

CONSTANTS
  Texts,             \* the arguments of Set, as sequences of tokens
  LongTexts,         \* bound: those of them that are part of longer lists
  Names,             \* the names of the packages made of one RPMMetaData
  Version,           \* their full version
  Literals,          \* the lists the caller may start from
  Overrides,         \* columns put in as custom tags
  MaxSets,           \* bound: calls of Set
  MaxPackages        \* bound: calls of NewRPM

Ops == {"<", ">", "="}
Blanks == {" "}

ASSUME RelationsAssumption ==
  /\ LongTexts \subseteq Texts
  /\ \A t \in Texts : t \in Seq(Range(t))
  /\ MaxSets \in Nat /\ MaxPackages \in Nat

\* A caller's own list has no relation twice: nothing in the code would take
\* one of the two out.
ASSUME LiteralsAssumption ==
  \A l \in Literals :
    /\ l \in Seq(Range(l))
    /\ \A i \in DOMAIN l :
         /\ l[i] = [name |-> l[i].name, sense |-> l[i].sense, version |-> l[i].version]
         /\ \A j \in DOMAIN l : l[i] = l[j] => i = j

ASSUME OverridesAssumption ==
  \A o \in Overrides :
    /\ DOMAIN o \subseteq {"names", "versions", "flags"}
    /\ \A c \in DOMAIN o : o[c] \in Seq(Range(o[c]))
    /\ o = [c \in DOMAIN o |-> o[c]]

VARIABLES
  heap,              \* the arrays: by their number, the elements up to the capacity
  list,              \* the caller's Provides
  packages,          \* the packages made: each with the list it has
  asked,             \* history: the relations the caller put in the list
  last,              \* the last call of Set: its text and what it was parsed as
  sets,              \* the calls of Set
  phase,             \* "open", then "header" when one was written, then "read"
  index,             \* the header's relation columns, those that are there
  written, read      \* what the header was made of; the list it was read as

vars == <<heap, list, packages, asked, last, sets, phase, index, written, read>>

-----------------------------------------------------------------------------
(* NewRelation and String.                                                  *)

Relation(name, sense, version) == [name |-> name, sense |-> sense, version |-> version]

NoRelation == [name |-> << >>, sense |-> {"error"}, version |-> << >>]

SenseBit(c) == CASE c = "<" -> "less" [] c = ">" -> "greater" [] c = "=" -> "equal"

\* stringToSense.
StringToSense ==
  [op \in {<< >>, <<"<">>, <<">">>, <<"=">>, <<"<", "=">>, <<">", "=">>} |->
     {SenseBit(op[i]) : i \in DOMAIN op}]

\* Where the run of tokens of a class that starts at i ends.
RunEnd(text, i, class) ==
  CHOOSE j \in i .. Len(text) + 1 :
    /\ j = Len(text) + 1 \/ text[j] \notin class
    /\ \A k \in i .. j - 1 : text[k] \in class

IsRich(text) == text # << >> /\ text[1] = "(" /\ text[Len(text)] = ")"

\* The three parts relationMatch finds: up to a comparison or a blank, the
\* comparison, and the rest; blanks are skipped around the comparison.
Match(text) ==
  LET name == RunEnd(text, 1, Range(text) \ (Ops \cup Blanks))
      op == RunEnd(text, name, Blanks)
      blanks == RunEnd(text, op, Ops)
      version == RunEnd(text, blanks, Blanks)
  IN  <<SubSeq(text, 1, name - 1), SubSeq(text, op, blanks - 1),
        SubSeq(text, version, Len(text))>>

\* Fault variant of NewRelation: comparisons that are unknown are none.
NewRelationLenient(text) ==
  LET m == Match(text)
  IN  CASE IsRich(text) -> Relation(text, {}, << >>)
        [] ~IsRich(text) /\ m[2] \in DOMAIN StringToSense ->
             Relation(m[1], StringToSense[m[2]], m[3])
        [] OTHER -> Relation(m[1], {}, m[3])

\* NewRelation; NoRelation is the error.
NewRelation(text) ==
  LET m == Match(text)
  IN  CASE IsRich(text) -> Relation(text, {}, << >>)
        [] ~IsRich(text) /\ m[2] \in DOMAIN StringToSense ->
             Relation(m[1], StringToSense[m[2]], m[3])
        [] OTHER -> NoRelation

\* Fault variant of SenseString: the comparison's characters are swapped.
SenseStringSwapped(sense) ==
  LET op == CHOOSE op \in DOMAIN StringToSense : StringToSense[op] = sense
  IN  [i \in DOMAIN op |-> op[Len(op) + 1 - i]]

\* rpmSense.String, for a sense that parseSense gives.
SenseString(sense) == CHOOSE op \in DOMAIN StringToSense : StringToSense[op] = sense

\* Relation.String.
RelationString(r) == r.name \o SenseString(r.sense) \o r.version

-----------------------------------------------------------------------------
(* Slices.                                                                  *)

NilSlice == [array |-> 0, len |-> 0]

\* The elements of a slice, in the heap h.
ElementsIn(h, s) == IF s.len = 0 THEN << >> ELSE SubSeq(h[s.array], 1, s.len)

Elements(s) == ElementsIn(heap, s)

Capacity(s) == IF s.array = 0 THEN 0 ELSE Len(heap[s.array])

\* Fault variant of AppendTo: the last element is written over.
AppendToOver(s, r) ==
  IF s.len < Capacity(s)
  THEN [heap |-> [heap EXCEPT ![s.array][IF s.len = 0 THEN 1 ELSE s.len] = r],
        slice |-> [s EXCEPT !.len = @ + 1]]
  ELSE LET cap == IF Capacity(s) = 0 THEN 1 ELSE 2 * Capacity(s)
       IN  [heap |-> Append(heap, [i \in 1 .. cap |->
                       CASE i <= s.len -> Elements(s)[i]
                         [] i = s.len + 1 -> r
                         [] OTHER -> NoRelation]),
            slice |-> [array |-> Len(heap) + 1, len |-> s.len + 1]]

\* append of one element: into the array while it has room, else into a new
\* one of twice the capacity.
AppendTo(s, r) ==
  IF s.len < Capacity(s)
  THEN [heap |-> [heap EXCEPT ![s.array][s.len + 1] = r],
        slice |-> [s EXCEPT !.len = @ + 1]]
  ELSE LET cap == IF Capacity(s) = 0 THEN 1 ELSE 2 * Capacity(s)
       IN  [heap |-> Append(heap, [i \in 1 .. cap |->
                       CASE i <= s.len -> Elements(s)[i]
                         [] i = s.len + 1 -> r
                         [] OTHER -> NoRelation]),
            slice |-> [array |-> Len(heap) + 1, len |-> s.len + 1]]

\* Fault variants of AddIfMissing: names alone are compared, and the last
\* element alone is looked at.
AddIfMissingByName(s, r) ==
  IF \E e \in Range(Elements(s)) : e.name = r.name
  THEN [heap |-> heap, slice |-> s]
  ELSE AppendTo(s, r)

AddIfMissingLastOnly(s, r) ==
  IF s.len > 0 /\ Elements(s)[s.len] = r
  THEN [heap |-> heap, slice |-> s]
  ELSE AppendTo(s, r)

\* addIfMissing: the heap and the slice afterwards.
AddIfMissing(s, r) ==
  IF r \in Range(Elements(s)) THEN [heap |-> heap, slice |-> s] ELSE AppendTo(s, r)

Init ==
  /\ \E l \in Literals :
       /\ heap = IF l = << >> THEN << >> ELSE <<l>>
       /\ list = IF l = << >> THEN NilSlice ELSE [array |-> 1, len |-> Len(l)]
       /\ asked = l
  /\ packages = << >>
  /\ last = [text |-> << >>, relation |-> NoRelation]
  /\ sets = 0
  /\ phase = "open"
  /\ index = EmptyMap
  /\ written = [rels |-> << >>, custom |-> EmptyMap]
  /\ read = << >>

\* To bound the model, a text outside LongTexts comes first and alone.
TextsNow == IF sets = 0 /\ packages = << >> /\ asked = << >> THEN Texts ELSE LongTexts

Extensible == last.text \in LongTexts \cup {<< >>}

\* Set, as the flag package calls it.
Set(text) ==
  LET r == NewRelation(text)
      to == AddIfMissing(list, r)
  IN  /\ sets < MaxSets
      /\ Extensible
      /\ phase = "open"
      /\ sets' = sets + 1
      /\ last' = [text |-> text, relation |-> r]
      /\ \/ /\ r = NoRelation
            /\ UNCHANGED <<heap, list, asked>>
         \/ /\ r # NoRelation
            /\ heap' = to.heap
            /\ list' = to.slice
            /\ asked' = IF r \in Range(asked) THEN asked ELSE Append(asked, r)
      /\ UNCHANGED <<packages, phase, index, written, read>>

\* Fault variant of NewRPM: the package is added to the caller's list.
NewRPMInPlace(name) ==
  LET self == Relation(name, {"equal"}, Version)
      to == AddIfMissing(list, self)
  IN  /\ Len(packages) < MaxPackages
      /\ Extensible
      /\ phase = "open"
      /\ heap' = to.heap
      /\ list' = to.slice
      /\ packages' = Append(packages, [self |-> self, provides |-> to.slice,
                                     asked |-> asked, spare |-> list.len < Capacity(list)])
      /\ UNCHANGED <<asked, last, sets, phase, index, written, read>>

\* NewRPM: the package has the caller's slice, with itself added.
NewRPM(name) ==
  LET self == Relation(name, {"equal"}, Version)
      to == AddIfMissing(list, self)
  IN  /\ Len(packages) < MaxPackages
      /\ Extensible
      /\ phase = "open"
      /\ heap' = to.heap
      /\ packages' = Append(packages, [self |-> self, provides |-> to.slice,
                                     asked |-> asked, spare |-> list.len < Capacity(list)])
      /\ UNCHANGED <<list, asked, last, sets, phase, index, written, read>>

-----------------------------------------------------------------------------
(* The header.                                                              *)

\* AddToIndex: three columns of one length, or none.
AddToIndex(rels) ==
  IF rels = << >>
  THEN EmptyMap
  ELSE [names |-> [i \in DOMAIN rels |-> rels[i].name],
        versions |-> [i \in DOMAIN rels |-> rels[i].version],
        flags |-> [i \in DOMAIN rels |-> rels[i].sense]]

\* writeRelationIndexes for the list of a package or the caller's own, with
\* custom tags over the columns.
WriteIndex(s, custom) ==
  /\ phase = "open"
  /\ Extensible
  /\ phase' = "header"
  /\ written' = [rels |-> Elements(s), custom |-> custom]
  /\ index' = AddEntries(AddToIndex(Elements(s)), custom)
  /\ UNCHANGED <<heap, list, packages, asked, last, sets, read>>

\* toRelations pops the columns in turn up to the first that is not there.
Columns == <<"names", "versions", "flags">>

Popped(i) ==
  {Columns[k] : k \in {j \in 1 .. 3 : \A before \in 1 .. j - 1 : Columns[before] \in DOMAIN i}}

\* Fault variant of ToRelations: the shortest column decides.
ToRelationsShort(i) ==
  IF DOMAIN i = Range(Columns)
  THEN [k \in DOMAIN i.names \cap DOMAIN i.versions \cap DOMAIN i.flags |->
          Relation(i.names[k], i.flags[k], i.versions[k])]
  ELSE << >>

\* toRelations: an error, which its callers take for an empty list, unless
\* the three columns are there and have one length.
ToRelations(i) ==
  IF DOMAIN i = Range(Columns) /\ Cardinality({Len(i[c]) : c \in DOMAIN i}) = 1
  THEN [k \in DOMAIN i.names |-> Relation(i.names[k], i.flags[k], i.versions[k])]
  ELSE << >>

\* readGenIndexes, for one kind of relation.
ReadIndex ==
  /\ phase = "header"
  /\ phase' = "read"
  /\ read' = ToRelations(index)
  /\ index' = Restrict(index, DOMAIN index \ Popped(index))
  /\ UNCHANGED <<heap, list, packages, asked, last, sets, written>>

Next ==
  \/ \E text \in TextsNow : Set(text)
  \/ \E name \in Names : NewRPM(name)
  \/ \E custom \in Overrides :
       \/ WriteIndex(list, custom)
       \/ \E p \in DOMAIN packages : WriteIndex(packages[p].provides, custom)
  \/ ReadIndex

Spec == Init /\ [][Next]_vars

-----------------------------------------------------------------------------
(* Properties.                                                              *)

\* The caller's list is what was asked for, each relation once, whatever was
\* appended to the array by packages made from it (sense.go:99).
CallerKeepsList == Elements(list) = asked

\* The relations a package was made with stay in its list, in their places,
\* whatever is put in the caller's list or in another package's later.
PackagesKeepList ==
  \A p \in Range(packages) :
    /\ Len(Elements(p.provides)) \in {Len(p.asked), Len(p.asked) + 1}
    /\ SubSeq(Elements(p.provides), 1, Len(p.asked)) = p.asked

\* No list holds a relation twice, though an element behind the caller's may
\* have been exchanged.
NoDuplicates ==
  \A s \in {list} \cup {p.provides : p \in Range(packages)} :
    Cardinality(Range(Elements(s))) = s.len

\* "A package must provide itself" (rpm.go:145): it does, but for one whose
\* relation was put into spare room of the caller's array, which loses it to
\* the next Set or NewRPM.
PackageProvidesItself ==
  \A i \in DOMAIN packages :
    LET p == packages[i]
    IN  \/ ~p.spare
        \/ p.self \in Range(p.asked)
        \/ i = Len(packages) /\ asked = p.asked
        => p.self \in Range(Elements(p.provides))

Comparisons == {<<"<">>, <<">">>, <<"=">>, <<"<", "=">>, <<">", "=">>}

\* The texts the commands document, "just name or in the form of name=version"
\* (cmd/tar2rpm/main.go:76), and sense_test.go's, with blanks and the other
\* comparisons, are understood as they say; those with a comparison that is
\* none of the five are refused; what is in parentheses is taken whole.
SetUnderstands ==
  LET t == last.text
      n == Len(t)
      rich == n > 0 /\ t[1] = "(" /\ t[n] = ")"
      part(i, j) == SubSeq(t, i + 1, j)
      is(i, j, class) == Range(part(i, j)) \subseteq class
      words == Range(t) \ (Ops \cup Blanks)
  IN  /\ rich => last.relation = Relation(t, {}, << >>)
      /\ \A i \in 1 .. n :
           ~rich /\ is(0, i, words) /\ is(i, n, Blanks) =>
             last.relation = Relation(part(0, i), {}, << >>)
      /\ \A i \in 1 .. n : \A j \in i .. n : \A k \in j + 1 .. n : \A l \in k .. n :
           /\ ~rich
           /\ is(0, i, words) /\ is(i, j, Blanks) /\ is(j, k, Ops)
           /\ is(k, l, Blanks) /\ is(l, n, words)
           => last.relation =
                IF part(j, k) \in Comparisons
                THEN Relation(part(0, i), {SenseBit(c) : c \in Range(part(j, k))}, part(l, n))
                ELSE NoRelation

\* What String prints of a relation with a comparison, or with a name alone,
\* Set reads as the same relation.  (A version without a comparison, or that
\* begins with one, is not told apart from what is before it.)
PrintsBack ==
  LET r == last.relation
  IN  /\ r # NoRelation
      /\ r.version = << >> \/ (r.sense # {} /\ r.version[1] \notin Ops)
      => NewRelation(RelationString(r)) = r

\* A list that is written and read comes back; one whose columns a custom tag
\* put out of step is never read as a shorter or a longer one, neither than
\* what was written nor than the tag.
ReadsBack ==
  phase = "read" =>
    IF written.custom = EmptyMap
    THEN read = written.rels
    ELSE read # << >> =>
           /\ \A c \in DOMAIN written.custom : Len(written.custom[c]) = Len(read)
           /\ DOMAIN written.custom # Range(Columns) => Len(read) = Len(written.rels)
=============================================================================
